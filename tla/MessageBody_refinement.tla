------------------------ MODULE MessageBody_refinement ------------------------
(***************************************************************************)
(* Proof that MessageBody implements the abstract collector BodyCollection *)
(* under the refinement mapping of MessageBody!Abstract: the limit in      *)
(* force is the one the first poll read, the caller has demanded once a   *)
(* poll happened, and the result is the fold's buffer once resolved.  The  *)
(* same strengthened invariant proves that every error is deserved.        *)
(***************************************************************************)
EXTENDS MessageBody_proofs

(* What the constructor recorded about the Content-Length header: before  *)
(* the fold exists, a deferred error is there exactly for a bad header    *)
(* and otherwise `length` is the header; once the fold exists, the header  *)
(* was acceptable and did not declare more than the fold's limit.          *)
HeaderInv ==
  /\ fut = None /\ outcome = "pending" =>
       /\ (err # None) <=> (clHeader \in BadLength)
       /\ err = None => length = clHeader
  /\ fut # None =>
       /\ clHeader \notin BadLength
       /\ ~(clHeader \in Nat /\ clHeader > fut)

RInv == IInv /\ HeaderInv

-----------------------------------------------------------------------------
(* Init establishes the strengthened invariant. *)
LEMMA InitRInv == Init => RInv
  <1> SUFFICES ASSUME Init PROVE RInv
    OBVIOUS
  <1>1. IInv
    BY InitIInv
  <1>2. HeaderInv
    BY NoneAssumption, NoneNotOutcome DEF Init, HeaderInv, LengthHeaders, Outcomes
  <1>3. QED
    BY <1>1, <1>2 DEF RInv

(* Every step keeps it: only a poll touches these fields, and a poll that *)
(* builds the fold has just checked the declared length.                   *)
LEMMA NextRInv == RInv /\ [Next]_vars => RInv'
  <1> SUFFICES ASSUME RInv, [Next]_vars PROVE RInv'
    OBVIOUS
  <1>1. IInv'
    BY NextIInv DEF RInv
  <1>2. HeaderInv'
    <2>1. CASE \E n \in Limits : SetLimit(n)
      BY <2>1 DEF RInv, HeaderInv, SetLimit
    <2>2. CASE \E c \in Chunks : Deliver(c)
      BY <2>2 DEF RInv, HeaderInv, Deliver
    <2>3. CASE \E s \in {"end", "error"} : Finish(s)
      BY <2>3 DEF RInv, HeaderInv, Finish
    <2>4. CASE Resolved \/ UNCHANGED vars
      BY <2>4 DEF RInv, HeaderInv, Resolved, vars
    <2>5. CASE Poll
      <3>1. CASE fut # None /\ PollFold(fut, body) /\ UNCHANGED <<length, err, fut>>
        BY <2>5, <3>1 DEF RInv, HeaderInv, Poll
      <3>2. CASE /\ fut = None /\ err # None /\ outcome' = err /\ err' = None
                 /\ UNCHANGED <<length, fut, body, registered, avail>>
        <4>1. err = "UnknownLength"
          BY <3>2 DEF RInv, IInv, TypeOK
        <4>2. outcome' # "pending" /\ fut' = None
          BY <3>2, <4>1
        <4>3. QED
          BY <4>2 DEF HeaderInv
      <3>3. CASE /\ fut = None /\ err = None /\ DeclaredTooLong(length, limit)
                 /\ outcome' = "Overflow" /\ length' = None
                 /\ UNCHANGED <<err, fut, body, registered, avail>>
        BY <3>3 DEF HeaderInv
      <3>4. CASE /\ fut = None /\ err = None /\ ~DeclaredTooLong(length, limit)
                 /\ length' = None /\ fut' = limit /\ PollFold(limit, body)
                 /\ UNCHANGED err
        <4>1. limit \in Nat /\ clHeader \in LengthHeaders /\ outcome = "pending"
          BY <2>5 DEF RInv, IInv, TypeOK, Poll
        <4>2. clHeader \notin BadLength /\ length = clHeader
          BY <3>4, <4>1 DEF RInv, HeaderInv
        <4>3. ~(clHeader \in Nat /\ clHeader > limit)
          BY <3>4, <4>1, <4>2, NoneAssumption DEF DeclaredTooLong, LengthHeaders
        <4>4. limit # None /\ clHeader' = clHeader
          BY <2>5, <4>1, NoneAssumption DEF Poll
        <4>5. QED
          BY <3>4, <4>2, <4>3, <4>4 DEF HeaderInv
      <3>5. QED
        BY <2>5, <3>1, <3>2, <3>3, <3>4 DEF Poll
    <2>6. QED
      BY <2>1, <2>2, <2>3, <2>4, <2>5 DEF Next
  <1>3. QED
    BY <1>1, <1>2 DEF RInv

-----------------------------------------------------------------------------
(* The refinement mapping, spelled out. *)
Lim == IF demanded = None THEN limit ELSE demanded
Started == demanded # None
Result == IF outcome = "ok" THEN body ELSE << >>

(* Initial states map to initial states of the abstract collector. *)
LEMMA InitRefines == Init => Abstract!Init
  BY DEF Init, Abstract!Init, LengthHeaders

(* One poll of the fold, from a state where the header was acceptable for *)
(* the limit m in force: it resolves as the abstract collector would,     *)
(* takes the first demand, or changes nothing the abstraction sees.        *)
LEMMA PollFoldRefines ==
  ASSUME RInv, outcome = "pending", NEW m \in Nat,
         Lim = m, Lim' = m, Started',
         clHeader \notin BadLength, ~(clHeader \in Nat /\ clHeader > m),
         PollFold(m, body),
         UNCHANGED <<clHeader, srcState, sent>>
  PROVE  \/ \E o \in {"ok", "UnknownLength", "Overflow", "SourceError"} :
              Abstract!Resolve(o)
         \/ Abstract!Demand
         \/ UNCHANGED <<clHeader, Lim, Started, sent, srcState, outcome, Result>>
  <1>1. body \o avail = sent /\ sent \in Seq(Byte)
    BY DEF RInv, IInv, TypeOK
  <1>2. ~Abstract!Declares(clHeader, m)
    BY DEF Abstract!Declares
  <1>3. CASE Len(body \o avail) > m
    <2>1. outcome' = "Overflow" /\ Result' = << >>
      BY <1>3 DEF PollFold, Result
    <2>2. Len(sent) > m
      BY <1>1, <1>3
    <2>3. Abstract!Resolve("Overflow")
      BY <2>1, <2>2 DEF Abstract!Resolve, Lim, Started, Result
    <2>4. QED
      BY <2>3, Zenon
  <1>4. CASE Len(body \o avail) <= m
    <2>1. body' = sent /\ Len(sent) <= m
      BY <1>1, <1>4 DEF PollFold
    <2>2. \/ srcState = "end" /\ outcome' = "ok"
          \/ srcState = "error" /\ outcome' = "SourceError"
          \/ srcState = "open" /\ outcome' = "pending"
      BY <1>4 DEF PollFold
    <2>3. CASE srcState = "end" /\ outcome' = "ok"
      <3>1. Abstract!Resolve("ok")
        BY <1>2, <2>1, <2>3 DEF Abstract!Resolve, Lim, Started, Result
      <3>2. QED
        BY <3>1, Zenon
    <2>4. CASE srcState = "error" /\ outcome' = "SourceError"
      <3>1. Abstract!Resolve("SourceError")
        BY <1>2, <2>1, <2>4 DEF Abstract!Resolve, Lim, Started, Result
      <3>2. QED
        BY <3>1, Zenon
    <2>5. CASE outcome' = "pending"
      <3>1. CASE Started
        BY <2>5, <3>1 DEF Started, Result
      <3>2. CASE ~Started
        BY <2>5, <3>2 DEF Abstract!Demand, Lim, Started, Result
      <3>3. QED
        BY <3>1, <3>2, Zenon
    <2>6. QED
      BY <2>2, <2>3, <2>4, <2>5, Zenon
  <1>5. Len(body \o avail) > m \/ Len(body \o avail) <= m
    BY <1>1
  <1>6. QED
    BY <1>3, <1>4, <1>5, Zenon

(* Every step of MessageBody is a step of the abstract collector or leaves *)
(* the abstract state unchanged.                                          *)
LEMMA NextRefines ==
  RInv /\ [Next]_vars => [Abstract!Next]_Abstract!avars
  <1> SUFFICES ASSUME RInv, [Next]_vars
               PROVE  [Abstract!Next]_Abstract!avars
    OBVIOUS
  <1> DEFINE Resolves ==
        \E o \in {"ok", "UnknownLength", "Overflow", "SourceError"} :
          Abstract!Resolve(o)
  <1>0. Resolves \/ Abstract!Demand
          \/ UNCHANGED <<clHeader, Lim, Started, sent, srcState, outcome, Result>>
        => [Abstract!Next]_Abstract!avars
    BY DEF Abstract!Next, Abstract!avars, Lim, Started, Result
  <1>1. CASE \E n \in Limits : SetLimit(n)
    <2>1. PICK n \in Limits : SetLimit(n)
      BY <1>1
    <2>2. CASE demanded = None
      BY <2>1, <2>2 DEF SetLimit, Abstract!Next, Abstract!SetLimit, Abstract!avars
    <2>3. CASE demanded # None
      BY <2>1, <2>3 DEF SetLimit, Abstract!avars
    <2>4. QED
      BY <2>2, <2>3
  <1>2. CASE \E c \in Chunks : Deliver(c)
    BY <1>2 DEF Deliver, Abstract!Next, Abstract!Produce, Abstract!avars
  <1>3. CASE \E s \in {"end", "error"} : Finish(s)
    BY <1>3 DEF Finish, Abstract!Next, Abstract!Finish, Abstract!avars
  <1>4. CASE Resolved \/ UNCHANGED vars
    BY <1>4 DEF Resolved, vars, Abstract!avars
  <1>5. CASE Poll
    <2>0. /\ outcome = "pending" /\ UNCHANGED <<clHeader, srcState, sent>>
          /\ limit' = limit
      BY <1>5 DEF Poll
    <2>1. Lim' = Lim /\ Started' /\ Lim \in Nat
      <3>1. limit \in Nat /\ (demanded # None => demanded \in Nat)
        BY DEF RInv, IInv, TypeOK
      <3>2. demanded' = IF demanded = None THEN limit ELSE demanded
        BY <1>5 DEF Poll
      <3>3. CASE demanded = None
        BY <2>0, <3>1, <3>2, <3>3, NoneAssumption DEF Lim, Started
      <3>4. CASE demanded # None
        BY <2>0, <3>1, <3>2, <3>4 DEF Lim, Started
      <3>5. QED
        BY <3>3, <3>4
    <2>2. CASE fut # None /\ PollFold(fut, body) /\ UNCHANGED <<length, err, fut>>
      <3>1. fut = Lim
        BY <2>2, NoneAssumption DEF RInv, IInv, TypeOK, Lim
      <3>2. clHeader \notin BadLength /\ ~(clHeader \in Nat /\ clHeader > fut)
        BY <2>2 DEF RInv, HeaderInv
      <3>3. fut \in Nat /\ Lim' = fut
        BY <2>1, <3>1
      <3>4. \/ \E o \in {"ok", "UnknownLength", "Overflow", "SourceError"} :
                 Abstract!Resolve(o)
            \/ Abstract!Demand
            \/ UNCHANGED <<clHeader, Lim, Started, sent, srcState, outcome, Result>>
        BY <2>0, <2>1, <2>2, <3>1, <3>2, <3>3, PollFoldRefines, Zenon
      <3>5. QED
        BY <3>4, <1>0
    <2>3. CASE /\ fut = None /\ err # None /\ outcome' = err /\ err' = None
               /\ UNCHANGED <<length, fut, body, registered, avail>>
      <3>1. err = "UnknownLength" /\ clHeader \in BadLength
        BY <2>0, <2>3 DEF RInv, HeaderInv, IInv, TypeOK
      <3>2. Abstract!Resolve("UnknownLength")
        BY <2>0, <2>1, <2>3, <3>1 DEF Abstract!Resolve, Lim, Started, Result
      <3>3. QED
        BY <3>2, <1>0
    <2>4. CASE /\ fut = None /\ err = None /\ DeclaredTooLong(length, limit)
               /\ outcome' = "Overflow" /\ length' = None
               /\ UNCHANGED <<err, fut, body, registered, avail>>
      <3>1. clHeader \notin BadLength /\ length = clHeader /\ demanded = None
        BY <2>0, <2>4 DEF RInv, HeaderInv, IInv
      <3>2. Abstract!Declares(clHeader, Lim)
        <4>1. clHeader \in LengthHeaders /\ limit \in Nat
          BY DEF RInv, IInv, TypeOK
        <4>2. QED
          BY <2>4, <3>1, <4>1, NoneAssumption
             DEF DeclaredTooLong, Abstract!Declares, Lim, LengthHeaders
      <3>3. Abstract!Resolve("Overflow")
        BY <2>0, <2>1, <2>4, <3>1, <3>2 DEF Abstract!Resolve, Lim, Started, Result
      <3>4. QED
        BY <3>3, <1>0
    <2>5. CASE /\ fut = None /\ err = None /\ ~DeclaredTooLong(length, limit)
               /\ length' = None /\ fut' = limit /\ PollFold(limit, body)
               /\ UNCHANGED err
      <3>1. clHeader \notin BadLength /\ length = clHeader /\ demanded = None
        BY <2>0, <2>5 DEF RInv, HeaderInv, IInv
      <3>2. limit \in Nat /\ clHeader \in LengthHeaders /\ limit = Lim
        BY <3>1 DEF RInv, IInv, TypeOK, Lim
      <3>3. ~(clHeader \in Nat /\ clHeader > limit)
        BY <2>5, <3>1, <3>2, NoneAssumption DEF DeclaredTooLong, LengthHeaders
      <3>4. Lim' = limit
        BY <2>1, <3>2
      <3>5. \/ \E o \in {"ok", "UnknownLength", "Overflow", "SourceError"} :
                 Abstract!Resolve(o)
            \/ Abstract!Demand
            \/ UNCHANGED <<clHeader, Lim, Started, sent, srcState, outcome, Result>>
        BY <2>0, <2>1, <2>5, <3>1, <3>2, <3>3, <3>4, PollFoldRefines, Zenon
      <3>6. QED
        BY <3>5, <1>0
    <2>6. QED
      BY <1>5, <2>2, <2>3, <2>4, <2>5 DEF Poll
  <1>6. QED
    BY <1>1, <1>2, <1>3, <1>4, <1>5 DEF Next

-----------------------------------------------------------------------------
(* MessageBody implements the abstract body collector: every result it    *)
(* resolves to, and every change of the limit in force, is one the       *)
(* abstract collector of spec.md 4.3 allows.                               *)
THEOREM Refinement == Spec => ImplementsBodyCollection
  <1>1. Spec => []RInv
    BY InitRInv, NextRInv, PTL DEF Spec
  <1>2. QED
    BY <1>1, InitRefines, NextRefines, PTL
       DEF Spec, ImplementsBodyCollection, Abstract!Spec
-----------------------------------------------------------------------------
(* One poll of the fold with limit m, the first-poll limit, from a state   *)
(* whose header was acceptable: whatever it resolves to is deserved.       *)
LEMMA PollFoldJustified ==
  ASSUME RInv, outcome = "pending", NEW m \in Nat, demanded' = m,
         clHeader \notin BadLength, PollFold(m, body),
         UNCHANGED <<clHeader, srcState, sent>>
  PROVE  OutcomeJustified'
  <1>1. body \o avail = sent /\ sent \in Seq(Byte)
    BY DEF RInv, IInv, TypeOK
  <1>2. CASE Len(body \o avail) > m
    <2>1. outcome' = "Overflow"
      BY <1>2 DEF PollFold
    <2>2. Len(sent') > demanded'
      BY <1>1, <1>2
    <2>3. QED
      BY <2>1, <2>2 DEF OutcomeJustified
  <1>3. CASE Len(body \o avail) <= m
    <2>1. \/ outcome' = "ok"
          \/ srcState = "error" /\ outcome' = "SourceError"
          \/ outcome' = "pending"
      BY <1>3 DEF PollFold
    <2>2. QED
      BY <2>1 DEF OutcomeJustified
  <1>4. QED
    BY <1>1, <1>2, <1>3

(* Every step keeps the strengthened invariant and the errors justified:  *)
(* a result, once there, never changes, and a poll that produces one has  *)
(* the header, the limit and the bytes that deserve it.                    *)
LEMMA NextJustified ==
  RInv /\ OutcomeJustified /\ [Next]_vars => OutcomeJustified'
  <1> SUFFICES ASSUME RInv, OutcomeJustified, [Next]_vars
               PROVE  OutcomeJustified'
    OBVIOUS
  <1>1. CASE \E n \in Limits : SetLimit(n)
    BY <1>1 DEF SetLimit, OutcomeJustified
  <1>2. CASE \E c \in Chunks : Deliver(c)
    BY <1>2 DEF Deliver, OutcomeJustified
  <1>3. CASE \E s \in {"end", "error"} : Finish(s)
    BY <1>3 DEF Finish, OutcomeJustified
  <1>4. CASE Resolved \/ UNCHANGED vars
    BY <1>4 DEF Resolved, vars, OutcomeJustified
  <1>5. CASE Poll
    <2>0. /\ outcome = "pending" /\ UNCHANGED <<clHeader, srcState, sent>>
          /\ limit' = limit
          /\ demanded' = IF demanded = None THEN limit ELSE demanded
      BY <1>5 DEF Poll
    <2>1. limit \in Nat /\ clHeader \in LengthHeaders
      BY DEF RInv, IInv, TypeOK
    <2>2. CASE fut # None /\ PollFold(fut, body) /\ UNCHANGED <<length, err, fut>>
      <3>1. fut \in Nat /\ demanded = fut
        BY <2>0, <2>2 DEF RInv, IInv, TypeOK
      <3>2. demanded' = fut
        BY <2>0, <2>2, <3>1
      <3>3. clHeader \notin BadLength
        BY <2>2 DEF RInv, HeaderInv
      <3>4. QED
        BY <2>0, <2>2, <3>1, <3>2, <3>3, PollFoldJustified
    <2>3. CASE /\ fut = None /\ err # None /\ outcome' = err /\ err' = None
               /\ UNCHANGED <<length, fut, body, registered, avail>>
      <3>1. err = "UnknownLength" /\ clHeader \in BadLength
        BY <2>0, <2>3 DEF RInv, HeaderInv, IInv, TypeOK
      <3>2. QED
        BY <2>0, <2>3, <3>1 DEF OutcomeJustified
    <2>4. CASE /\ fut = None /\ err = None /\ DeclaredTooLong(length, limit)
               /\ outcome' = "Overflow" /\ length' = None
               /\ UNCHANGED <<err, fut, body, registered, avail>>
      <3>1. clHeader \notin BadLength /\ length = clHeader /\ demanded = None
        BY <2>0, <2>4 DEF RInv, HeaderInv, IInv
      <3>2. clHeader \in Nat /\ clHeader > demanded'
        BY <2>0, <2>1, <2>4, <3>1, NoneAssumption DEF DeclaredTooLong, LengthHeaders
      <3>3. QED
        BY <2>0, <2>4, <3>1, <3>2 DEF OutcomeJustified
    <2>5. CASE /\ fut = None /\ err = None /\ ~DeclaredTooLong(length, limit)
               /\ length' = None /\ fut' = limit /\ PollFold(limit, body)
               /\ UNCHANGED err
      <3>1. clHeader \notin BadLength /\ demanded = None
        BY <2>0, <2>5 DEF RInv, HeaderInv, IInv
      <3>2. demanded' = limit
        BY <2>0, <3>1
      <3>3. QED
        BY <2>0, <2>1, <2>5, <3>1, <3>2, PollFoldJustified
    <2>6. QED
      BY <1>5, <2>2, <2>3, <2>4, <2>5 DEF Poll
  <1>6. QED
    BY <1>1, <1>2, <1>3, <1>4, <1>5 DEF Next

(* Every error MessageBody resolves to is deserved (OutcomeJustified):     *)
(* UnknownLength only for a bad Content-Length and before any fold,        *)
(* Overflow only when the declared length or the bytes exceed the limit of *)
(* the first poll, SourceError only from a failed stream, and a bad header *)
(* never ends otherwise, for every value of the constants.                 *)
THEOREM ErrorsJustified == Spec => []OutcomeJustified
  <1>1. Init => OutcomeJustified
    BY NoneNotOutcome DEF Init, OutcomeJustified, Outcomes
  <1>2. Spec => [](RInv /\ OutcomeJustified)
    BY <1>1, InitRInv, NextRInv, NextJustified, PTL DEF Spec
  <1>3. QED
    BY <1>2, PTL
=============================================================================
