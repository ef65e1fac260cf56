--------------------------- MODULE MC_CookieCache ---------------------------
(* CookieCache with two names, two values, and header lists of up to two  *)
(* headers mixing cookies, a repeated name, empty and bad segments, and a *)
(* header that is not UTF-8.                                               *)
EXTENDS CookieCache

CONSTANTS n1, n2, nonutf8, empty, bad, none

MCNames == {n1, n2}
MCValues == {"v1", "v2"}
C(n, v) == [name |-> n, value |-> v]
MCHeaderValues ==
  {nonutf8, <<C(n1, "v1")>>, <<C(n2, "v1"), C(n1, "v2")>>, <<empty, bad>>,
   <<C(n1, "v2"), empty>>}
MCHeaderLists == {<< >>} \cup {<<h>> : h \in MCHeaderValues}
                 \cup {<<h, g>> : h, g \in MCHeaderValues}
MCMaxMutations == 2
=============================================================================
