CONSTANTS
  Inputs <- AllInputs
  Roots = {0, 9}
  Ignored = {9}
  GPUNames = {1}
SPECIFICATION Spec
INVARIANTS TilesCountRows CalmIsEarned DriftIsSettled HealthIsShare
CHECK_DEADLOCK FALSE
