SPECIFICATION MCSpec
CONSTANTS
  Cap <- MCCap
  MaxPrealloc = 4
  Texts = {}
  Formats = {}
  MaxLen = 12
  Ends = {}
  MaxOut = 60
  Literals <- Misreadable
INVARIANT TextKept
