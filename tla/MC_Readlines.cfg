CONSTANTS
  a = a
  nl = nl
  x = x
  none = none
  Byte <- MCByte
  NL <- nl
  Invalid <- x
  Chunks <- MCChunks
  MaxChunks <- MCMaxChunks
  DefaultLimit <- MCDefaultLimit
  Limits <- MCLimits
  None <- none

SPECIFICATION Spec

INVARIANT BytesConserved
INVARIANT LinesWellFormed

\* A line stream may stall forever after a chunk without '\n' (see
\* MC_Readlines_liveness.cfg), so a state with no successor is expected.
CHECK_DEADLOCK FALSE
