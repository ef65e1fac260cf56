CONSTANTS
  k = k
  x = x
  m = m
  nontextCT = nontextCT
  nontextCL = nontextCL
  unparsable = unparsable
  none = none
  None <- none
  NonText <- nontextCT
  Invalid <- x
  Malformed <- m
  BadLength <- MCBadLength
  Byte <- MCByte
  Chunks <- MCChunks
  MaxChunks <- MCMaxChunks
  DefaultLimit <- MCDefaultLimit
  Limits <- MCLimits
  MaxDeclared <- MCMaxDeclared

SPECIFICATION Spec

INVARIANT BufferBound
INVARIANT ErrorPrecedence
INVARIANT ResultFaithful

PROPERTY Termination
