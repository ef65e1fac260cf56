CONSTANTS
  a = a
  nl = nl
  x = x
  none = none
  Byte <- MCByte
  NL <- nl
  Invalid <- x
  Chunks <- MCChunks
  MaxChunks <- MCMaxChunks
  DefaultLimit <- MCDefaultLimit
  Limits <- MCLimits
  None <- none

SPECIFICATION Spec

INVARIANT RoundTrip
