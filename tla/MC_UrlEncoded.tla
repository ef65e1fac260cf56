---------------------------- MODULE MC_UrlEncoded ----------------------------
(* UrlEncoded on a small instance: every kind of Content-Type header,      *)
(* Content-Length headers below, at and above the limits, and bodies of up *)
(* to two chunks mixing plain, undecodable and undeserializable bytes.     *)
EXTENDS UrlEncoded

CONSTANTS k, x, m, nontextCT, nontextCL, unparsable, none

MCByte == {k, x, m}
MCChunks == {<<k>>, <<x>>, <<m>>, <<k, k>>}
MCMaxChunks == 2
MCDefaultLimit == 2
MCLimits == {1, 3}
MCMaxDeclared == 3
MCBadLength == {nontextCL, unparsable}
=============================================================================
