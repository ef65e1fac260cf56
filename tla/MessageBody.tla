---------------------------- MODULE MessageBody ----------------------------
(***************************************************************************)
(* The future MessageBody<T> of src/src/httpmessage.rs (lines 447-542):    *)
(* it collects the whole body of an HTTP message, pulled chunk by chunk    *)
(* from the message's payload stream, into one buffer of at most `limit`  *)
(* bytes.                                                                  *)
(*                                                                         *)
(* The future is driven by an executor: poll() runs only when the task has *)
(* been woken, and a poll that ends NotReady has registered the task with  *)
(* the payload stream, which wakes it when it next produces something.     *)
(*                                                                         *)
(* The payload stream (crate::payload::Payload, not under src/) is the     *)
(* environment: it makes chunks ready, then ends or fails.  Ready chunks   *)
(* are kept as the flat byte sequence `avail`: the fold below only ever    *)
(* looks at the running total of their lengths, so where one chunk ends   *)
(* and the next begins is invisible to this future.                       *)
(***************************************************************************)
EXTENDS Naturals, Sequences

CONSTANTS
  Byte,          \* the byte values a chunk is made of
  Chunks,        \* the chunks the payload stream may produce
  MaxChunks,     \* bound on the number of chunks one body is made of
  DefaultLimit,  \* 262_144 in the code (lines 478, 494)
  Limits,        \* the values a caller may pass to MessageBody::limit
  MaxDeclared,   \* largest Content-Length value that parses
  BadLength,     \* Content-Length headers that are not visible ASCII
                 \* (to_str() fails) or that usize::parse rejects
  None           \* Rust's None; also an absent Content-Length header

ASSUME ChunksAssumption == Chunks \subseteq Seq(Byte)
ASSUME BoundsAssumption ==
  /\ MaxChunks \in Nat
  /\ DefaultLimit \in Nat
  /\ Limits \subseteq Nat
  /\ MaxDeclared \in Nat
ASSUME NoneAssumption ==
  /\ BadLength \cap Nat = {}
  /\ None \notin BadLength \cup Nat

(* A Content-Length header as the constructor sees it: absent, bad, or a   *)
(* number.                                                                 *)
LengthHeaders == {None} \cup BadLength \cup (0 .. MaxDeclared)

Outcomes == {"pending", "ok", "UnknownLength", "Overflow", "SourceError"}

(* Rust's None is none of the results. *)
ASSUME NoneNotOutcome == None \notin Outcomes

VARIABLES
  clHeader,    \* the Content-Length header of the message (read-only)
  limit,       \* field `limit`
  length,      \* field `length`: None or the declared length
  err,         \* field `err`: None or the deferred error
  fut,         \* field `fut`: None, or the fold's captured `limit`
  body,        \* the fold's accumulator (BytesMut)
  outcome,     \* what the last poll returned: "pending" or the final result
  demanded,    \* history: None before the first poll, else `limit` at it
  avail,       \* bytes the stream has ready and the fold has not taken
  srcState,    \* "open", "end" (Ready(None) after avail) or "error"
  sent,        \* history: every byte the stream has produced, in order
  nchunks,     \* number of chunks the stream has produced
  registered,  \* the task is registered with the stream for a wake-up
  woken        \* the executor will poll the task

vars == <<clHeader, limit, length, err, fut, body, outcome, demanded,
          avail, srcState, sent, nchunks, registered, woken>>

-----------------------------------------------------------------------------
(* A plausible bug for the mutation runs: a bad Content-Length recorded   *)
(* as an Overflow error.                                                   *)
InitOverflowForBadLength ==
  /\ clHeader \in LengthHeaders
  /\ limit = DefaultLimit
  /\ err = IF clHeader \in BadLength THEN "Overflow" ELSE None
  /\ length = IF clHeader \in 0 .. MaxDeclared THEN clHeader ELSE None
  /\ fut = None
  /\ body = << >>
  /\ outcome = "pending"
  /\ demanded = None
  /\ avail = << >>
  /\ srcState = "open"
  /\ sent = << >>
  /\ nchunks = 0
  /\ registered = FALSE
  /\ woken = TRUE

(* MessageBody::new (lines 462-483): the Content-Length header is parsed   *)
(* at construction, but a bad one only records the error (Self::err, lines *)
(* 491-499) for the first poll to return.                                  *)
Init ==
  /\ clHeader \in LengthHeaders
  /\ limit = DefaultLimit
  /\ err = IF clHeader \in BadLength THEN "UnknownLength" ELSE None
  /\ length = IF clHeader \in 0 .. MaxDeclared THEN clHeader ELSE None
  /\ fut = None
  /\ body = << >>
  /\ outcome = "pending"
  /\ demanded = None
  /\ avail = << >>
  /\ srcState = "open"
  /\ sent = << >>
  /\ nchunks = 0
  /\ registered = FALSE
  /\ woken = TRUE

(* MessageBody::limit (lines 486-489).  It takes the future by value, so a *)
(* caller can call it at any time before the future resolves; once the    *)
(* fold exists the field is no longer read.                                *)
SetLimit(n) ==
  /\ outcome = "pending"
  /\ limit' = n
  /\ UNCHANGED <<clHeader, length, err, fut, body, outcome, demanded,
                 avail, srcState, sent, nchunks, registered, woken>>

(* Plausible bugs in the fold, for the mutation runs: the overflow check  *)
(* forgets the new chunk, chunks are prepended, NotReady is returned       *)
(* without the stream having registered the task.                          *)
PollFoldIgnoringChunk(lim, acc) ==
  LET total == acc \o avail IN
  /\ avail' = << >>
  /\ \/ /\ Len(acc) > lim
        /\ outcome' = "Overflow"
        /\ UNCHANGED <<body, registered>>
     \/ /\ Len(acc) <= lim
        /\ body' = total
        /\ \/ srcState = "end" /\ outcome' = "ok" /\ UNCHANGED registered
           \/ srcState = "error" /\ outcome' = "SourceError" /\ UNCHANGED registered
           \/ srcState = "open" /\ outcome' = "pending" /\ registered' = TRUE

PollFoldPrepending(lim, acc) ==
  LET total == avail \o acc IN
  /\ avail' = << >>
  /\ \/ /\ Len(total) > lim
        /\ outcome' = "Overflow"
        /\ UNCHANGED <<body, registered>>
     \/ /\ Len(total) <= lim
        /\ body' = total
        /\ \/ srcState = "end" /\ outcome' = "ok" /\ UNCHANGED registered
           \/ srcState = "error" /\ outcome' = "SourceError" /\ UNCHANGED registered
           \/ srcState = "open" /\ outcome' = "pending" /\ registered' = TRUE

PollFoldUnregistered(lim, acc) ==
  LET total == acc \o avail IN
  /\ avail' = << >>
  /\ \/ /\ Len(total) > lim
        /\ outcome' = "Overflow"
        /\ UNCHANGED <<body, registered>>
     \/ /\ Len(total) <= lim
        /\ body' = total
        /\ \/ srcState = "end" /\ outcome' = "ok" /\ UNCHANGED registered
           \/ srcState = "error" /\ outcome' = "SourceError" /\ UNCHANGED registered
           \/ srcState = "open" /\ outcome' = "pending" /\ UNCHANGED registered

(* A plausible bug for the mutation runs: a failed stream is reported    *)
(* before the ready bytes are counted against the limit.                   *)
PollFoldErrorFirst(lim, acc) ==
  LET total == acc \o avail IN
  /\ avail' = << >>
  /\ \/ /\ srcState = "error"
        /\ outcome' = "SourceError"
        /\ UNCHANGED <<body, registered>>
     \/ /\ srcState # "error" /\ Len(total) > lim
        /\ outcome' = "Overflow"
        /\ UNCHANGED <<body, registered>>
     \/ /\ srcState # "error" /\ Len(total) <= lim
        /\ body' = total
        /\ \/ srcState = "end" /\ outcome' = "ok" /\ UNCHANGED registered
           \/ srcState = "open" /\ outcome' = "pending" /\ registered' = TRUE

(* One poll of the fold future (lines 527-538 and futures 0.1 Fold::poll): *)
(* it takes every ready chunk, failing with Overflow at the first one that *)
(* takes the accumulator past `lim` (body.len() + chunk.len() > limit);    *)
(* since the lengths only add up, that happens iff all ready bytes do.    *)
(* With nothing left ready it resolves on end of stream, fails on a stream *)
(* error, and otherwise returns NotReady after registering the task.       *)
PollFold(lim, acc) ==
  LET total == acc \o avail IN
  /\ avail' = << >>
  /\ \/ /\ Len(total) > lim
        /\ outcome' = "Overflow"
        /\ UNCHANGED <<body, registered>>
     \/ /\ Len(total) <= lim
        /\ body' = total
        /\ \/ srcState = "end" /\ outcome' = "ok" /\ UNCHANGED registered
           \/ srcState = "error" /\ outcome' = "SourceError" /\ UNCHANGED registered
           \/ srcState = "open" /\ outcome' = "pending" /\ registered' = TRUE

(* A plausible off-by-one for the mutation runs. *)
DeclaredAtLimit(len, lim) == len # None /\ len >= lim

(* Lines 519-523: a declared length larger than the limit fails at once. *)
DeclaredTooLong(len, lim) == len # None /\ len > lim

(* MessageBody::poll (lines 510-541).  The first poll returns the deferred *)
(* error, or takes `length` and fails when it exceeds `limit`, or builds   *)
(* the fold over the stream with the current `limit` and polls it at once. *)
Poll ==
  /\ outcome = "pending"
  /\ woken
  /\ woken' = FALSE
  /\ demanded' = IF demanded = None THEN limit ELSE demanded
  /\ UNCHANGED <<clHeader, limit, srcState, sent, nchunks>>
  /\ \/ /\ fut # None
        /\ PollFold(fut, body)
        /\ UNCHANGED <<length, err, fut>>
     \/ /\ fut = None
        /\ err # None
        /\ outcome' = err
        /\ err' = None
        /\ UNCHANGED <<length, fut, body, registered, avail>>
     \/ /\ fut = None
        /\ err = None
        /\ DeclaredTooLong(length, limit)
        /\ outcome' = "Overflow"
        /\ length' = None
        /\ UNCHANGED <<err, fut, body, registered, avail>>
     \/ /\ fut = None
        /\ err = None
        /\ ~DeclaredTooLong(length, limit)
        /\ length' = None
        /\ fut' = limit
        /\ PollFold(limit, body)
        /\ UNCHANGED err

-----------------------------------------------------------------------------
(* The payload stream.  Producing a chunk, ending and failing each wake a  *)
(* task registered with it.                                                *)
Wake ==
  /\ woken' = (woken \/ registered)
  /\ registered' = FALSE

Deliver(c) ==
  /\ outcome = "pending"
  /\ srcState = "open"
  /\ nchunks < MaxChunks
  /\ avail' = avail \o c
  /\ sent' = sent \o c
  /\ nchunks' = nchunks + 1
  /\ Wake
  /\ UNCHANGED <<clHeader, limit, length, err, fut, body, outcome, demanded,
                 srcState>>

Finish(s) ==
  /\ outcome = "pending"
  /\ srcState = "open"
  /\ srcState' = s
  /\ Wake
  /\ UNCHANGED <<clHeader, limit, length, err, fut, body, outcome, demanded,
                 avail, sent, nchunks>>

(* The caller has its result and drops the future. *)
Resolved ==
  /\ outcome # "pending"
  /\ UNCHANGED vars

Next ==
  \/ \E n \in Limits : SetLimit(n)
  \/ Poll
  \/ \E c \in Chunks : Deliver(c)
  \/ \E s \in {"end", "error"} : Finish(s)
  \/ Resolved

(* The executor polls a woken task; the transport eventually ends or      *)
(* fails the body (its timeouts are outside this code).                    *)
Fairness ==
  /\ WF_vars(Poll)
  /\ WF_vars(\E s \in {"end", "error"} : Finish(s))

Spec == Init /\ [][Next]_vars /\ Fairness

-----------------------------------------------------------------------------
TypeOK ==
  /\ clHeader \in LengthHeaders
  /\ limit \in Nat
  /\ length \in {None} \cup Nat
  /\ err \in {None, "UnknownLength"}
  /\ fut \in {None} \cup Nat
  /\ body \in Seq(Byte)
  /\ outcome \in Outcomes
  /\ demanded \in {None} \cup Nat
  /\ avail \in Seq(Byte)
  /\ srcState \in {"open", "end", "error"}
  /\ sent \in Seq(Byte)
  /\ nchunks \in Nat
  /\ registered \in BOOLEAN
  /\ woken \in BOOLEAN

(* The cumulative buffer never holds more than the limit the fold was     *)
(* built with, whatever `limit` was later set to and whatever length the  *)
(* message declared (fold closure, lines 530-537).                         *)
BufferBound ==
  fut # None => Len(body) <= fut

(* A successful result is exactly the bytes the stream produced, in order, *)
(* after the stream ended, and no longer than the limit in force at the    *)
(* first poll: a short Content-Length never lets a longer body through.    *)
ResultFaithful ==
  outcome = "ok" =>
    /\ srcState = "end"
    /\ body = sent
    /\ Len(body) <= demanded

(* Every error is deserved: UnknownLength only for a bad Content-Length,   *)
(* and then before any byte is read; Overflow only when the declared       *)
(* length or the bytes produced exceed the limit at the first poll;        *)
(* SourceError only when the stream failed.  A bad Content-Length always   *)
(* ends in UnknownLength.                                                  *)
OutcomeJustified ==
  /\ outcome = "UnknownLength" => clHeader \in BadLength /\ fut = None
  /\ outcome = "Overflow" =>
       \/ clHeader \in Nat /\ clHeader > demanded
       \/ Len(sent) > demanded
  /\ outcome = "SourceError" => srcState = "error"
  /\ clHeader \in BadLength /\ outcome # "pending" => outcome = "UnknownLength"

(* The abstract collector of BodyCollection, seen through MessageBody's   *)
(* state: the limit in force is the one the first poll read, the caller    *)
(* has demanded once a poll happened, and the result is the fold's buffer  *)
(* once the future resolved to it.                                         *)
Abstract == INSTANCE BodyCollection WITH
  lim <- IF demanded = None THEN limit ELSE demanded,
  started <- demanded # None,
  result <- IF outcome = "ok" THEN body ELSE << >>

(* MessageBody implements the abstract collector: every step of the       *)
(* future, of the caller and of the stream is a step of BodyCollection or  *)
(* leaves its view unchanged, so the error paths, limit changes and the    *)
(* fold never produce a result the abstract collector could not.           *)
ImplementsBodyCollection == Abstract!Spec

(* The body future always resolves: the executor polls it when woken and  *)
(* the stream ends or fails.                                               *)
Termination == <>(outcome # "pending")
=============================================================================
