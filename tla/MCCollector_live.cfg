CONSTANTS
  v1 = v1
  v2 = v2
  Viewers <- Two
  Sources = {"workloads"}
  HasLister = TRUE
  HasFlux = TRUE
  TTL = 1
  MaxTime = 1
SPECIFICATION FairSpec
PROPERTIES Answered FluxNeverForgotten
