--------------------------- MODULE MC_Readlines ----------------------------
(* Readlines on a small instance: bodies of up to three chunks of up to   *)
(* two bytes, with lines that span chunks, empty lines, an invalid UTF-8  *)
(* byte, and limits below, at and above the line lengths.                 *)
EXTENDS Readlines

CONSTANTS a, nl, x, none

MCByte == {a, nl, x}
MCChunks == {<<a>>, <<nl>>, <<a, nl>>, <<nl, a>>, <<nl, nl>>, <<x, nl>>}
MCMaxChunks == 3
MCDefaultLimit == 2
MCLimits == {1, 3}
=============================================================================
