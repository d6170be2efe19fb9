CONSTANTS
  v1 = v1
  v2 = v2
  Viewers = {v1, v2}
  Services <- Rows3
  Severity <- States3
  Warning = 1
  Lacks <- Short3
  Wirings <- OneWriter
  Builds = 2
SPECIFICATION Spec
SYMMETRY Symmetry
INVARIANTS RowsInOrder MarksCurrent QuietPageSound
