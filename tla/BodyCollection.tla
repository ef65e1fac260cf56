--------------------------- MODULE BodyCollection ---------------------------
(***************************************************************************)
(* What a body collector promises (spec.md 4.3), with no fold, no deferred *)
(* error and no executor: the stream produces bytes and then ends or       *)
(* fails; the caller may change the limit until it first demands the       *)
(* result; the collector resolves once, to the whole body if the stream    *)
(* ended, the declared length was acceptable and the body fits the limit,  *)
(* or to an error the headers or the bytes deserve.                        *)
(***************************************************************************)
EXTENDS Naturals, Sequences

CONSTANTS Byte, Chunks, DefaultLimit, Limits, MaxDeclared, BadLength, None

VARIABLES
  clHeader,  \* the Content-Length header
  lim,       \* the limit in force
  started,   \* the caller has demanded the result: the limit is fixed
  sent,      \* the bytes the stream has produced
  srcState,  \* "open", "end" or "error"
  outcome,   \* "pending" or the result
  result     \* the collected body once the result is "ok"

avars == <<clHeader, lim, started, sent, srcState, outcome, result>>

(* The declared length alone already exceeds the limit. *)
Declares(len, n) == len \in Nat /\ len > n

Init ==
  /\ clHeader \in {None} \cup BadLength \cup (0 .. MaxDeclared)
  /\ lim = DefaultLimit
  /\ started = FALSE
  /\ sent = << >>
  /\ srcState = "open"
  /\ outcome = "pending"
  /\ result = << >>

SetLimit(n) ==
  /\ outcome = "pending" /\ ~started
  /\ lim' = n
  /\ UNCHANGED <<clHeader, started, sent, srcState, outcome, result>>

Demand ==
  /\ outcome = "pending" /\ ~started
  /\ started' = TRUE
  /\ UNCHANGED <<clHeader, lim, sent, srcState, outcome, result>>

Produce(c) ==
  /\ outcome = "pending" /\ srcState = "open"
  /\ sent' = sent \o c
  /\ UNCHANGED <<clHeader, lim, started, srcState, outcome, result>>

Finish(s) ==
  /\ outcome = "pending" /\ srcState = "open"
  /\ srcState' = s
  /\ UNCHANGED <<clHeader, lim, started, sent, outcome, result>>

(* Resolving, to the one result the state deserves; the first demand may *)
(* resolve at once.                                                       *)
Resolve(o) ==
  /\ outcome = "pending"
  /\ outcome' = o
  /\ started' = TRUE
  /\ result' = IF o = "ok" THEN sent ELSE << >>
  /\ UNCHANGED <<clHeader, lim, sent, srcState>>
  /\ \/ o = "UnknownLength" /\ clHeader \in BadLength
     \/ /\ clHeader \notin BadLength
        /\ \/ o = "Overflow" /\ (Declares(clHeader, lim) \/ Len(sent) > lim)
           \/ /\ ~Declares(clHeader, lim) /\ Len(sent) <= lim
              /\ \/ o = "ok" /\ srcState = "end"
                 \/ o = "SourceError" /\ srcState = "error"

Next ==
  \/ \E n \in Limits : SetLimit(n)
  \/ Demand
  \/ \E c \in Chunks : Produce(c)
  \/ \E s \in {"end", "error"} : Finish(s)
  \/ \E o \in {"ok", "UnknownLength", "Overflow", "SourceError"} : Resolve(o)

Spec == Init /\ [][Next]_avars
=============================================================================
