CONSTANTS
  a = a
  nl = nl
  x = x
  none = none
  Byte <- MCByte
  NL <- nl
  Invalid <- x
  Chunks <- MCChunks
  MaxChunks <- MCMaxChunks
  DefaultLimit <- MCDefaultLimit
  Limits <- MCLimits
  None <- none

SPECIFICATION Spec

PROPERTY Termination

\* A stalled stream has no successor state; report it as a violation of
\* Termination rather than as a deadlock.
CHECK_DEADLOCK FALSE
