SPECIFICATION Spec
CONSTANTS
  a = a
  b = b
  Keys <- MCKeys
  Texts <- MCTexts
  Values <- MCValues
  Width = 5
  MaxWrappers = 3
  MaxNodes = 6
INVARIANTS TypeOK WrappedAlive CountsReferences HashesReleased
