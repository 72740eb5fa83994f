SPECIFICATION Spec
CONSTANTS
  Inputs <- Documented
  Lower <- MCLower
  Digit <- MCDigit
  Hex <- MCHex
  Eol <- MCEol
  Handlers <- WordTable
  ArrayStackMax = 10
  BeginStates = {0}
INVARIANT ReadmeHolds
