CONSTANTS
  Snapshots <- TwoSnapshots
  Typed <- ByHand
  Picks = {0}
  DefaultRefresh = 30
SPECIFICATION Spec
INVARIANTS LinksNeverMix LinksDoAsSaid TypoShowsNothing
PROPERTIES CacheUntouched
