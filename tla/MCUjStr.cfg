SPECIFICATION StrSpec
CONSTANTS
  Cap <- MCCap
  MaxPrealloc = 1048576
  Texts <- MCTexts
  Formats <- MCFormats
  Ends <- MCEnds
  MaxLen = 1000
  MaxOut = 1000
  Keys <- MCKeys
  Values <- MCValues
INVARIANT ReferencesSubstituted
