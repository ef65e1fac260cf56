----------------------------- MODULE CookieCache -----------------------------
(***************************************************************************)
(* The cookie cache of HttpMessage (src/src/httpmessage.rs, lines         *)
(* 115-146): cookies() parses every Cookie header once and caches the jar *)
(* in the message's extensions; cookie(name) looks a name up in it.        *)
(*                                                                         *)
(* A Cookie header value is NonUtf8 (str::from_utf8 fails) or the          *)
(* sequence of its ';'-separated, trimmed segments; a segment is Empty,    *)
(* Bad (Cookie::parse_encoded fails) or a cookie [name, value].  The      *)
(* caller holds the message and calls the two operations in any order;    *)
(* between calls the headers may be replaced (Request::headers_mut, not    *)
(* under src/).                                                            *)
(***************************************************************************)
EXTENDS Naturals, Sequences, SequencesExt

CONSTANTS
  Names,         \* cookie names
  Values,        \* cookie values
  HeaderLists,   \* the Cookie header lists a message may carry
  NonUtf8,       \* a header value that is not UTF-8
  Empty,         \* an empty segment ("a=1;;b=2")
  Bad,           \* a segment that is not a cookie ("=x")
  MaxMutations,  \* bound on the times the caller replaces the headers
  None           \* Rust's None

Cookie == [name : Names, value : Values]

(* A header value: not UTF-8, or its segments. *)
Segments == {Empty, Bad} \cup Cookie
HeaderValues == {NonUtf8} \cup Seq(Segments)

(* Rust's None is no segment, no header list and no cookie vector. *)
ASSUME CookieAssumption ==
  /\ MaxMutations \in Nat
  /\ None \notin {NonUtf8, Empty, Bad}
  /\ HeaderLists \subseteq Seq(HeaderValues)
  /\ None \notin HeaderLists
  /\ None \notin Seq(Cookie)

VARIABLES
  headers,    \* the message's Cookie headers, in order
  cache,      \* the Cookies entry of the extensions: None or the jar
  answer,     \* what the last cookies() call returned
  found,      \* what the last cookie(name) call returned
  snapshot,   \* history: the headers when the jar was cached, or None
  mutations   \* times the headers have been replaced

vars == <<headers, cache, answer, found, snapshot, mutations>>

(* The Result cookies() returns. *)
Ok(jar) == [jar |-> jar]
Err(e) == [error |-> e]

(* The segments cookies() meets, in order: a header that is not UTF-8 is  *)
(* met as NonUtf8 before any of its segments would be.                     *)
Items(hs) ==
  FlattenSeq([i \in 1 .. Len(hs) |-> IF hs[i] = NonUtf8 THEN <<NonUtf8>>
                                     ELSE hs[i]])

(* The error the loop of lines 120-128 stops at: the first header that is *)
(* not UTF-8 or segment that is not a cookie, 0 if there is none.          *)
FirstError(hs) == SelectInSeq(Items(hs), LAMBDA it : it \in {NonUtf8, Bad})

(* The jar lines 120-128 build from error-free headers: the loop pushes   *)
(* the non-empty segments, header by header.                               *)
Jar(hs) ==
  LET it == Items(hs)
      jar[i \in 0 .. Len(it)] ==
        IF i = 0 THEN << >>
        ELSE IF it[i] # Empty THEN Append(jar[i - 1], it[i]) ELSE jar[i - 1]
  IN  jar[Len(it)]

(* The error value cookies() returns (CookieParseError::from Utf8Error at *)
(* line 122, the cookie crate's ParseError at line 125).                   *)
ParseError(hs) ==
  IF Items(hs)[FirstError(hs)] = NonUtf8 THEN "Utf8Error" ELSE "ParseError"

Init ==
  /\ headers \in HeaderLists
  /\ cache = None
  /\ answer = None
  /\ found = None
  /\ snapshot = None
  /\ mutations = 0

(* A plausible bug for the mutation runs: the cache is never consulted.  *)
CookiesUncached ==
  IF FirstError(headers) # 0
  THEN answer' = Err(ParseError(headers)) /\ UNCHANGED <<cache, snapshot>>
  ELSE /\ cache' = Jar(headers) /\ answer' = Ok(Jar(headers))
       /\ snapshot' = IF snapshot = None THEN headers ELSE snapshot

(* HttpMessage::cookies (lines 117-134): with no jar cached, the headers   *)
(* are parsed; the first error is returned and nothing is cached, else    *)
(* the jar is inserted.  A cached jar is returned as it is.                *)
Cookies ==
  IF cache = None
  THEN IF FirstError(headers) # 0
       THEN answer' = Err(ParseError(headers)) /\ UNCHANGED <<cache, snapshot>>
       ELSE /\ cache' = Jar(headers) /\ answer' = Ok(Jar(headers))
            /\ snapshot' = headers
  ELSE answer' = Ok(cache) /\ UNCHANGED <<cache, snapshot>>

CallCookies ==
  /\ Cookies
  /\ UNCHANGED <<headers, found, mutations>>

(* A plausible bug for the mutation runs: the last cookie of that name.  *)
LastNamed(jar, n) == SelectLastInSeq(jar, LAMBDA c : c.name = n)

(* Index of the first cookie named n in the jar, 0 if none (lines 139-143). *)
FirstNamed(jar, n) == SelectInSeq(jar, LAMBDA c : c.name = n)

(* HttpMessage::cookie (lines 137-146): cookies(), with its caching, then *)
(* the first cookie of that name; an error or no match gives None.         *)
CallCookie(n) ==
  /\ Cookies
  /\ found' = IF "error" \in DOMAIN answer' \/ FirstNamed(answer'.jar, n) = 0
              THEN None
              ELSE answer'.jar[FirstNamed(answer'.jar, n)]
  /\ UNCHANGED <<headers, mutations>>

(* The caller replaces the Cookie headers. *)
MutateHeaders(hs) ==
  /\ mutations < MaxMutations
  /\ headers' = hs
  /\ mutations' = mutations + 1
  /\ UNCHANGED <<cache, answer, found, snapshot>>

Next ==
  \/ CallCookies
  \/ \E n \in Names : CallCookie(n)
  \/ \E hs \in HeaderLists : MutateHeaders(hs)

Spec == Init /\ [][Next]_vars

-----------------------------------------------------------------------------
TypeOK ==
  /\ headers \in HeaderLists
  /\ cache \in {None} \cup Seq(Cookie)
  /\ answer \in {None} \cup [error : {"Utf8Error", "ParseError"}]
                      \cup [jar : Seq(Cookie)]
  /\ found \in {None} \cup Cookie
  /\ snapshot \in {None} \cup HeaderLists
  /\ mutations \in 0 .. MaxMutations

(* spec.md 3, invariant 4: the cached jar is the parse of the headers as   *)
(* they were at the first successful cookies() call, never re-derived     *)
(* after the headers change, and a call that failed cached nothing: the   *)
(* jar comes from headers that parse without error.  Every successful     *)
(* call returns that jar.                                                  *)
JarFromFirstSuccess ==
  /\ (cache = None) <=> (snapshot = None)
  /\ snapshot # None => FirstError(snapshot) = 0 /\ cache = Jar(snapshot)
  /\ answer # None /\ "jar" \in DOMAIN answer =>
       snapshot # None /\ answer.jar = Jar(snapshot)

(* cookie(name) answers with the first cookie of that name in the jar of  *)
(* the first successful parse; any cookie it returns comes from that jar, *)
(* and it never invents one when the headers failed to parse.             *)
CookieIsFirstMatch ==
  found # None =>
    /\ snapshot # None
    /\ LET jar == Jar(snapshot) IN
         \E i \in 1 .. Len(jar) :
           /\ jar[i] = found
           /\ \A j \in 1 .. i - 1 : jar[j].name # found.name
=============================================================================
