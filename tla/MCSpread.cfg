CONSTANTS
  Devices <- AllDevices
  Overrides <- AllOverrides
  MeshNS = "mesh"
  Slices <- AllSlices
  Tracked <- TrackedApps
  Untracked <- UntrackedApps
SPECIFICATION Spec
INVARIANTS TalliesAgree GaugesPart PolicyIsOwn NothingFromFailure NodesAddUp DevicesAddUp VersionIsReady
CHECK_DEADLOCK FALSE
