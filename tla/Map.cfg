SPECIFICATION FairSpec
CONSTANTS
  Art <- MCArt
  Place <- MCPlace
  Unlocated <- MCUnlocated
  Spots <- MCSpots
  NoPos = NoPos
INVARIANTS
  TypeOK
  PositionBeforeMap
  UniqueMarkerIds
  NearerIsWarmer
PROPERTIES
  WelcomeOnlyOnce
  MapAppears
