SPECIFICATION Spec
CONSTANTS
  W = 3
  N = 2
  Versions <- GameData
  gDefaultSave <- NewGame
  None = None
INVARIANT TypeOK
INVARIANT Detects
PROPERTY ImplementsRegister
