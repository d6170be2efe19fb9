CONSTANTS
  v1 = v1
  v2 = v2
  Viewers <- Two
  Sources = {}
  HasLister = TRUE
  HasFlux = TRUE
  TTL = 2
  MaxTime = 2
SPECIFICATION Spec
SYMMETRY Symmetry
INVARIANTS CancelNeverCached
