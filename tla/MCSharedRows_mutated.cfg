CONSTANTS
  v1 = v1
  v2 = v2
  Viewers = {v1, v2}
  Services <- Rows2
  Severity <- States2
  Warning = 1
  Lacks <- Short2
  Wirings <- Both
  Builds = 2
SPECIFICATION FairSpec
PROPERTIES NeverMutatedWhileHeld
