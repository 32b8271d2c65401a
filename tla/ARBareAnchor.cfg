SPECIFICATION Spec
CONSTANTS
  CloudIds = {c1}
  OwnNames = {a1}
  ForeignNames = {}
  MaxListeners = 1
  MaxAnchors = 2
  MaxCalls = 1
INVARIANT AnchorsQueuedWithObjects
SYMMETRY Symmetry
