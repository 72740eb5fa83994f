SPECIFICATION NodesSpec
CONSTANTS
  Calls <- MCCalls
  Lower <- MCLower
  Upper <- MCUpper
  Digit <- MCDigit
  Eol <- MCEol
  Handlers <- WordTable
  Paths <- MCPaths
  MaxCalls = 2
  Probes <- MCProbes
INVARIANTS TypeOK NodeTypeIsCurs SlicesInBounds OpenAreInTree ParsesDocument CutIsReported StreamDelivered
PROPERTIES Termination ImplementsPaths
