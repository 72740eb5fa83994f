SPECIFICATION MCSpec
CONSTANTS
  Cap <- MCCap
  MaxPrealloc = 4
  Texts <- MCTexts
  Formats <- MCFormats
  MaxLen = 5
  Ends <- MCEnds
  MaxOut = 60
  Literals <- MCLiterals
INVARIANTS DecodeTypeOK StaysInBlock DecodesTokens SdsTypeOK BlockSound ReadsBack
PROPERTY ImplementsString
