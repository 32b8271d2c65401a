SPECIFICATION FairSpec
CONSTANTS
  CloudIds = {c1, c2}
  OwnNames = {a1}
  ForeignNames = {f1}
  MaxListeners = 1
  MaxAnchors = 1
  MaxCalls = 2
INVARIANTS
  TypeOK
  TrashedNeverPublished
  ObjectsFollowAnchors
  MissedOnlyWhenOverlapped
PROPERTIES
  SessionSpec
  PublishedArtIsRequested
