SPECIFICATION FairSpec
CONSTANT MaxInits = 2
INVARIANTS
  TypeOK
  CollectionsBeforeView
  SessionOnlyWhileMounted
  PlanesOnlyWhilePlacing
PROPERTY ScreenComesUp
