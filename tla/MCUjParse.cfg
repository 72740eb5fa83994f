SPECIFICATION Spec
CONSTANTS
  Inputs <- Everything
  Lower <- MCLower
  Digit <- MCDigit
  Hex <- MCHex
  Eol <- MCEol
  Handlers <- WordTable
  ArrayStackMax = 2
  BeginStates = {0}
INVARIANTS TypeOK SlicesInBounds KeyAssigned ParsesDocument
PROPERTIES BuildsDocument Advance Termination
