CONSTANTS
  b1 = b1
  b2 = b2
  nontext = nontext
  unparsable = unparsable
  none = none
  None <- none
  BadLength <- MCBadLength
  Byte <- MCByte
  Chunks <- MCChunks
  MaxChunks <- MCMaxChunks
  DefaultLimit <- MCDefaultLimit
  Limits <- MCLimits
  MaxDeclared <- MCMaxDeclared

SPECIFICATION Spec

INVARIANT TypeOK
INVARIANT BufferBound
INVARIANT ResultFaithful
INVARIANT OutcomeJustified

PROPERTY Termination
PROPERTY ImplementsBodyCollection
