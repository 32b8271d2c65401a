SPECIFICATION Spec
CONSTANTS
  CloudIds = {c1, c2}
  OwnNames = {a1}
  ForeignNames = {f1}
  MaxListeners = 1
  MaxAnchors = 2
  MaxCalls = 1
INVARIANT UploadsOnlyOwnArt
SYMMETRY Symmetry
