CONSTANTS
  v1 = v1
  v2 = v2
  Nobody = Nobody
  Viewers = {v1, v2}
  Asked <- Entries
SPECIFICATION Spec
INVARIANTS LossIsExplained SourcesBelieved
CHECK_DEADLOCK FALSE
