--------------------------- MODULE MC_MessageBody ---------------------------
(* MessageBody on a small instance: bodies of up to three chunks of up to *)
(* two bytes, limits around the sizes those bodies reach.                  *)
EXTENDS MessageBody

CONSTANTS b1, b2, nontext, unparsable, none

MCByte == {b1, b2}
MCChunks == {<< >>, <<b1>>, <<b2>>, <<b1, b2>>}
MCMaxChunks == 3
MCDefaultLimit == 3
MCLimits == {1, 4}
MCMaxDeclared == 4
MCBadLength == {nontext, unparsable}
=============================================================================
