SPECIFICATION FairSpec
CONSTANT MaxInits = 2
PROPERTY ListensOnceLocated
