------------------------- MODULE CookieCache_proofs -------------------------
(***************************************************************************)
(* Proofs about the cookie cache, for every value of its constants: the    *)
(* type invariant, that the cached jar is the parse of the headers of the  *)
(* first successful call, and that cookie(name) answers with the first     *)
(* cookie of that name in that jar.                                        *)
(***************************************************************************)
EXTENDS CookieCache, LeastElement, TLAPS

(* FlattenSeq's loop, and the loop of lines 120-128 that pushes the        *)
(* non-empty segments, as instances of a recursive function over an       *)
(* interval.                                                               *)
Flatten == INSTANCE RecursiveFcn
             WITH Lo <- 1, Hi <- LAMBDA s : Len(s),
                  First <- LAMBDA s, i : s[i],
                  Step <- LAMBDA s, p, i : p \o s[i]
Push == INSTANCE RecursiveFcn
          WITH Lo <- 0, Hi <- LAMBDA s : Len(s),
               First <- LAMBDA s, i : << >>,
               Step <- LAMBDA s, p, i : IF s[i] # Empty THEN Append(p, s[i]) ELSE p

(* The segments cookies() meets. *)
Item == {NonUtf8} \cup Segments

(* The inductive invariant: the two properties and the types. *)
CInv == TypeOK /\ JarFromFirstSuccess /\ CookieIsFirstMatch

-----------------------------------------------------------------------------
(* Concatenating sequences of X gives a sequence of X. *)
LEMMA FlattenTyped ==
  ASSUME NEW X, NEW seqs \in Seq(Seq(X))
  PROVE  FlattenSeq(seqs) \in Seq(X)
  <1>1. CASE Len(seqs) = 0
    BY <1>1 DEF FlattenSeq
  <1>2. CASE Len(seqs) # 0
    <2>1. /\ 1 \in Nat /\ Len(seqs) \in Nat /\ 1 <= Len(seqs)
          /\ seqs[1] \in Seq(X)
          /\ \A p \in Seq(X), i \in 1 + 1 .. Len(seqs) : p \o seqs[i] \in Seq(X)
      BY <1>2
    <2>2. LET f[i \in 1 .. Len(seqs)] == IF i = 1 THEN seqs[i] ELSE f[i-1] \o seqs[i]
          IN  f[Len(seqs)] \in Seq(X)
      BY <2>1, Flatten!RecursiveFcnTyped
    <2>3. QED
      BY <1>2, <2>2 DEF FlattenSeq
  <1>3. QED
    BY <1>1, <1>2

(* The segments of well-typed headers are segments or NonUtf8. *)
LEMMA ItemsTyped ==
  ASSUME NEW hs \in Seq(HeaderValues)
  PROVE  Items(hs) \in Seq(Item)
  <1> DEFINE seqs == [i \in 1 .. Len(hs) |-> IF hs[i] = NonUtf8 THEN <<NonUtf8>>
                                              ELSE hs[i]]
  <1>1. seqs \in Seq(Seq(Item))
    <2>1. Seq(Segments) \subseteq Seq(Item)
      BY DEF Item
    <2>2. \A i \in 1 .. Len(hs) : seqs[i] \in Seq(Item)
      <3> TAKE i \in 1 .. Len(hs)
      <3>1. CASE hs[i] = NonUtf8
        BY <3>1 DEF Item
      <3>2. CASE hs[i] # NonUtf8
        <4>1. hs[i] \in Seq(Segments)
          BY <3>2 DEF HeaderValues
        <4>2. QED
          BY <3>2, <4>1, <2>1
      <3>3. QED
        BY <3>1, <3>2
    <2>3. QED
      BY <2>2
  <1>2. QED
    BY <1>1, FlattenTyped DEF Items

(* No error is met exactly when no segment is NonUtf8 or Bad. *)
LEMMA NoErrorFacts ==
  ASSUME NEW hs \in Seq(HeaderValues), FirstError(hs) = 0
  PROVE  \A k \in 1 .. Len(Items(hs)) : Items(hs)[k] \notin {NonUtf8, Bad}
  <1> DEFINE it == Items(hs)
             I == {i \in 1 .. Len(it) : it[i] \in {NonUtf8, Bad}}
  <1>1. it \in Seq(Item)
    BY ItemsTyped
  <1>2. FirstError(hs) = IF I # {} THEN Min(I) ELSE 0
    BY DEF FirstError, SelectInSeq
  <1>3. I = {}
    <2> SUFFICES ASSUME I # {} PROVE FALSE
      OBVIOUS
    <2>1. I \in SUBSET Nat
      BY <1>1
    <2>2. PICK m \in I : \A k \in I : m <= k
      BY <2>1, NatSubsetHasMin
    <2>3. Min(I) \in I
      BY <2>2 DEF Min
    <2>4. QED
      BY <1>2, <2>3
  <1>4. QED
    BY <1>3

(* The jar of headers with no error is a vector of cookies. *)
LEMMA JarTyped ==
  ASSUME NEW hs \in Seq(HeaderValues), FirstError(hs) = 0
  PROVE  Jar(hs) \in Seq(Cookie)
  <1> DEFINE it == Items(hs)
  <1>1. it \in Seq(Item)
    BY ItemsTyped
  <1>2. \A k \in 1 .. Len(it) : it[k] # Empty => it[k] \in Cookie
    BY <1>1, NoErrorFacts DEF Item, Segments
  <1>3. /\ 0 \in Nat /\ Len(it) \in Nat /\ 0 <= Len(it)
        /\ << >> \in Seq(Cookie)
        /\ \A p \in Seq(Cookie), i \in 0 + 1 .. Len(it) :
             (IF it[i] # Empty THEN Append(p, it[i]) ELSE p) \in Seq(Cookie)
    BY <1>1, <1>2
  <1>4. LET jar[i \in 0 .. Len(it)] ==
              IF i = 0 THEN << >>
              ELSE IF it[i] # Empty THEN Append(jar[i - 1], it[i]) ELSE jar[i - 1]
        IN  jar[Len(it)] \in Seq(Cookie)
    BY <1>3, Push!RecursiveFcnTyped
  <1>5. QED
    BY <1>4 DEF Jar

(* FirstNamed gives 0 or the index of the first cookie of that name. *)
LEMMA FirstNamedFacts ==
  ASSUME NEW jar \in Seq(Cookie), NEW n
  PROVE  /\ FirstNamed(jar, n) \in 0 .. Len(jar)
         /\ FirstNamed(jar, n) # 0 =>
              /\ jar[FirstNamed(jar, n)].name = n
              /\ \A j \in 1 .. FirstNamed(jar, n) - 1 : jar[j].name # n
  <1> DEFINE I == {i \in 1 .. Len(jar) : jar[i].name = n}
  <1>1. FirstNamed(jar, n) = IF I # {} THEN Min(I) ELSE 0
    BY DEF FirstNamed, SelectInSeq
  <1>2. CASE I = {}
    BY <1>1, <1>2
  <1>3. CASE I # {}
    <2>1. I \in SUBSET Nat
      OBVIOUS
    <2>2. PICK m \in I : \A k \in I : m <= k
      BY <1>3, <2>1, NatSubsetHasMin
    <2>3. Min(I) \in I /\ \A k \in I : Min(I) <= k
      BY <2>2 DEF Min
    <2>4. Min(I) \in 1 .. Len(jar) /\ jar[Min(I)].name = n
      BY <2>3
    <2>5. \A j \in 1 .. Min(I) - 1 : jar[j].name # n
      <3> SUFFICES ASSUME NEW j \in 1 .. Min(I) - 1, jar[j].name = n PROVE FALSE
        OBVIOUS
      <3>1. j \in I
        BY <2>4
      <3>2. QED
        BY <3>1, <2>3, <2>4
    <2>6. QED
      BY <1>1, <1>3, <2>4, <2>5
  <1>4. QED
    BY <1>2, <1>3

-----------------------------------------------------------------------------
LEMMA InitCInv == Init => CInv
  BY CookieAssumption DEF Init, CInv, TypeOK, JarFromFirstSuccess, CookieIsFirstMatch

(* A cookies() call, with or without cookie(name) after it: the cache     *)
(* keeps its type and its origin, and a successful answer is that jar.    *)
LEMMA CookiesStep ==
  ASSUME CInv, Cookies
  PROVE  /\ cache' \in {None} \cup Seq(Cookie)
         /\ snapshot' \in {None} \cup HeaderLists
         /\ JarFromFirstSuccess'
         /\ snapshot # None => snapshot' = snapshot
         /\ \/ answer' \in [error : {"Utf8Error", "ParseError"}]
            \/ /\ snapshot' # None /\ Jar(snapshot') \in Seq(Cookie)
               /\ answer' = Ok(Jar(snapshot'))
  <1> USE CookieAssumption DEF CInv, TypeOK
  <1>1. CASE cache = None /\ FirstError(headers) # 0
    <2>1. snapshot = None
      BY <1>1 DEF JarFromFirstSuccess
    <2>2. answer' = Err(ParseError(headers)) /\ UNCHANGED <<cache, snapshot>>
      BY <1>1 DEF Cookies
    <2>3. "jar" \notin DOMAIN answer'
      BY <2>2 DEF Err
    <2>4. QED
      BY <1>1, <2>1, <2>2, <2>3 DEF Err, ParseError, JarFromFirstSuccess
  <1>2. CASE cache = None /\ FirstError(headers) = 0
    <2>1. snapshot = None
      BY <1>2 DEF JarFromFirstSuccess
    <2>2. cache' = Jar(headers) /\ answer' = Ok(Jar(headers)) /\ snapshot' = headers
      BY <1>2 DEF Cookies
    <2>3. Jar(headers) \in Seq(Cookie)
      BY <1>2, JarTyped
    <2>4. headers # None /\ Jar(headers) # None
      BY <2>3
    <2>5. QED
      BY <1>2, <2>1, <2>2, <2>3, <2>4 DEF Ok, JarFromFirstSuccess
  <1>3. CASE cache # None
    <2>1. answer' = Ok(cache) /\ UNCHANGED <<cache, snapshot>>
      BY <1>3 DEF Cookies
    <2>2. snapshot # None /\ FirstError(snapshot) = 0 /\ cache = Jar(snapshot)
      BY <1>3 DEF JarFromFirstSuccess
    <2>3. QED
      BY <1>3, <2>1, <2>2 DEF Ok, JarFromFirstSuccess
  <1>4. QED
    BY <1>1, <1>2, <1>3

LEMMA CallCookiesCInv == CInv /\ CallCookies => CInv'
  <1> SUFFICES ASSUME CInv, CallCookies PROVE CInv'
    OBVIOUS
  <1>1. Cookies /\ UNCHANGED <<headers, found, mutations>>
    BY DEF CallCookies
  <1>2. TypeOK'
    BY <1>1, CookiesStep DEF CInv, TypeOK, Ok
  <1>3. CookieIsFirstMatch'
    BY <1>1, CookiesStep DEF CInv, CookieIsFirstMatch
  <1>4. QED
    BY <1>1, <1>2, <1>3, CookiesStep DEF CInv

LEMMA CallCookieCInv ==
  ASSUME CInv, NEW n \in Names, CallCookie(n)
  PROVE  CInv'
  <1>1. Cookies /\ UNCHANGED <<headers, mutations>>
    BY DEF CallCookie
  <1>2. CASE answer' \in [error : {"Utf8Error", "ParseError"}]
    <2>1. found' = None
      BY <1>2 DEF CallCookie
    <2>2. QED
      BY <1>1, <1>2, <2>1, CookiesStep DEF CInv, TypeOK, CookieIsFirstMatch
  <1>3. CASE /\ snapshot' # None /\ Jar(snapshot') \in Seq(Cookie)
             /\ answer' = Ok(Jar(snapshot'))
    <2> DEFINE jar == Jar(snapshot')
               k == FirstNamed(jar, n)
    <2>1. "error" \notin DOMAIN answer' /\ answer'.jar = jar
      BY <1>3 DEF Ok
    <2>2. found' = IF k = 0 THEN None ELSE jar[k]
      BY <2>1 DEF CallCookie
    <2>3. /\ k \in 0 .. Len(jar)
          /\ k # 0 => jar[k].name = n /\ \A j \in 1 .. k - 1 : jar[j].name # n
      BY <1>3, FirstNamedFacts
    <2>4. found' \in {None} \cup Cookie
      BY <1>3, <2>2, <2>3
    <2>5. CookieIsFirstMatch'
      BY <1>3, <2>2, <2>3 DEF CookieIsFirstMatch
    <2>6. QED
      BY <1>1, <1>3, <2>4, <2>5, CookiesStep DEF CInv, TypeOK, Ok
  <1>4. QED
    BY <1>1, <1>2, <1>3, CookiesStep

LEMMA MutateCInv ==
  ASSUME CInv, NEW hs \in HeaderLists, MutateHeaders(hs)
  PROVE  CInv'
  BY CookieAssumption
  DEF CInv, TypeOK, MutateHeaders, JarFromFirstSuccess, CookieIsFirstMatch

LEMMA NextCInv == CInv /\ [Next]_vars => CInv'
  <1> SUFFICES ASSUME CInv, [Next]_vars PROVE CInv'
    OBVIOUS
  <1>1. CASE CallCookies
    BY <1>1, CallCookiesCInv
  <1>2. CASE \E n \in Names : CallCookie(n)
    BY <1>2, CallCookieCInv
  <1>3. CASE \E hs \in HeaderLists : MutateHeaders(hs)
    BY <1>3, MutateCInv
  <1>4. CASE UNCHANGED vars
    BY <1>4 DEF vars, CInv, TypeOK, JarFromFirstSuccess, CookieIsFirstMatch
  <1>5. QED
    BY <1>1, <1>2, <1>3, <1>4 DEF Next

-----------------------------------------------------------------------------
(* The cache, the answers and the cookie found keep their types. *)
THEOREM CookieTypeCorrect == Spec => []TypeOK
  BY InitCInv, NextCInv, PTL DEF Spec, CInv

(* The cached jar, and every successful answer of cookies(), is the parse *)
(* of the headers of the first successful call, which parse without      *)
(* error; a failed call caches nothing.                                   *)
THEOREM JarIsFirstParse == Spec => []JarFromFirstSuccess
  BY InitCInv, NextCInv, PTL DEF Spec, CInv

(* cookie(name) returns nothing, or the first cookie of that name in the  *)
(* jar of the first successful parse.                                     *)
THEOREM CookieIsFirst == Spec => []CookieIsFirstMatch
  BY InitCInv, NextCInv, PTL DEF Spec, CInv
=============================================================================
