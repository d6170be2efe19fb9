CONSTANTS
  v1 = v1
  v2 = v2
  Viewers <- Two
  Sources = {"jobs", "mesh"}
  HasLister = TRUE
  HasFlux = FALSE
  TTL = 2
  MaxTime = 3
SPECIFICATION Spec
SYMMETRY Symmetry
INVARIANTS OneRefresh FreshPage SectionsSettled StaleIsHonest
PROPERTIES RebuildSpacing PagesNeverGoBack ImplementsRegister
