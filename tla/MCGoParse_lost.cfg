SPECIFICATION NodesSpec
CONSTANTS
  Calls <- CutCalls
  Lower <- MCLower
  Upper <- MCUpper
  Digit <- MCDigit
  Eol <- MCEol
  Handlers <- WordTable
  Paths <- MCPaths
  MaxCalls = 2
  Probes <- MCProbes
INVARIANT CutIsAnError
