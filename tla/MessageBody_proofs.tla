------------------------- MODULE MessageBody_proofs -------------------------
(***************************************************************************)
(* Proofs about MessageBody, for every value of its constants: the type    *)
(* invariant, the bound on the collected buffer, and that a successful     *)
(* result is exactly the body the payload stream produced.                 *)
(***************************************************************************)
EXTENDS MessageBody, SequenceTheorems, TLAPS

(* The inductive invariant.  Besides the properties it proves, it says how *)
(* the collected bytes relate to the stream while the future is pending:  *)
(* the fold's accumulator followed by the bytes still ready is everything  *)
(* the stream produced; before the fold exists nothing has been collected  *)
(* and no poll has happened; the fold's captured limit is the limit of the *)
(* first poll.                                                             *)
IInv ==
  /\ TypeOK
  /\ outcome = "pending" => body \o avail = sent
  /\ fut = None => body = << >>
  /\ fut = None /\ outcome = "pending" => demanded = None
  /\ fut # None => fut = demanded
  /\ BufferBound
  /\ ResultFaithful

-----------------------------------------------------------------------------
(* Appending bytes to the ready bytes appends them to the whole body. *)
LEMMA ByteConcatAssociative ==
  \A x, y, z \in Seq(Byte) : (x \o y) \o z = x \o (y \o z)
  BY ConcatAssociative

(* Init establishes the invariant. *)
LEMMA InitIInv == Init => IInv
  <1> SUFFICES ASSUME Init PROVE IInv
    OBVIOUS
  <1>1. /\ length \in {None} \cup Nat
        /\ err \in {None, "UnknownLength"}
    BY DEF Init, LengthHeaders
  <1>2. /\ nchunks \in Nat
        /\ registered \in BOOLEAN
        /\ woken \in BOOLEAN
    BY DEF Init
  <1>3. TypeOK
    BY <1>1, <1>2, BoundsAssumption DEF Init, TypeOK, Outcomes
  <1>4. QED
    BY <1>3 DEF Init, IInv, BufferBound, ResultFaithful

(* One poll of the fold with limit lim over the accumulator: a step that  *)
(* starts from the invariant's relation between body, avail and sent, and *)
(* whose limit is the one recorded at the first poll, keeps the invariant. *)
LEMMA PollFoldIInv ==
  ASSUME IInv, outcome = "pending", NEW lim \in Nat, Len(body) <= lim,
         PollFold(lim, body),
         fut' = lim, demanded' = lim,
         UNCHANGED <<clHeader, limit, srcState, sent, nchunks>>,
         length' \in {None} \cup Nat, err' \in {None, "UnknownLength"},
         woken' \in BOOLEAN
  PROVE  IInv'
  <1> DEFINE total == body \o avail
  <1>1. /\ total = sent
        /\ total \in Seq(Byte)
        /\ avail' = << >>
        /\ body \in Seq(Byte)
        /\ clHeader \in LengthHeaders /\ limit \in Nat
        /\ srcState \in {"open", "end", "error"}
        /\ sent \in Seq(Byte) /\ nchunks \in Nat
        /\ registered \in BOOLEAN
    BY ConcatProperties DEF IInv, TypeOK, PollFold
  <1>2. CASE Len(total) > lim
    <2>1. outcome' = "Overflow" /\ body' = body /\ registered' = registered
      BY <1>2 DEF PollFold
    <2>2. << >> \in Seq(Byte)
      OBVIOUS
    <2>3. TypeOK'
      BY <1>1, <2>1, <2>2 DEF IInv, TypeOK, Outcomes
    <2>4. QED
      BY <1>1, <2>1, <2>3, NoneAssumption
         DEF IInv, BufferBound, ResultFaithful
  <1>3. CASE Len(total) <= lim
    <2>1. body' = total
      BY <1>3 DEF PollFold
    <2>2. body' \o avail' = sent
      BY <1>1, <2>1, ConcatEmptySeq
    <2>3. /\ registered' \in BOOLEAN
          /\ outcome' \in {"ok", "SourceError", "pending"}
          /\ (outcome' = "ok" => srcState = "end")
      <3>1. \/ srcState = "end" /\ outcome' = "ok" /\ registered' = registered
            \/ srcState = "error" /\ outcome' = "SourceError"
               /\ registered' = registered
            \/ srcState = "open" /\ outcome' = "pending" /\ registered' = TRUE
        BY <1>3 DEF PollFold
      <3>2. QED
        BY <1>1, <3>1
    <2>4. QED
      BY <1>1, <1>3, <2>1, <2>2, <2>3, NoneAssumption
         DEF IInv, TypeOK, Outcomes, BufferBound, ResultFaithful
  <1>4. QED
    BY <1>2, <1>3, <1>1, ConcatProperties

(* Every step keeps the invariant. *)
LEMMA NextIInv == IInv /\ [Next]_vars => IInv'
  <1> SUFFICES ASSUME IInv, [Next]_vars PROVE IInv'
    OBVIOUS
  <1> USE DEF IInv, BufferBound, ResultFaithful
  <1>1. ASSUME NEW n \in Limits, SetLimit(n) PROVE IInv'
    <2>1. TypeOK'
      BY <1>1, BoundsAssumption DEF SetLimit, TypeOK
    <2>2. QED
      BY <1>1, <2>1 DEF SetLimit
  <1>2. ASSUME NEW c \in Chunks, Deliver(c) PROVE IInv'
    <2>1. c \in Seq(Byte)
      BY ChunksAssumption
    <2>2. avail' \in Seq(Byte) /\ sent' \in Seq(Byte)
      BY <1>2, <2>1, ConcatProperties DEF Deliver, TypeOK
    <2>3. (body \o avail) \o c = body \o (avail \o c)
      BY <2>1, ByteConcatAssociative DEF TypeOK
    <2>4. body \o avail' = sent'
      BY <1>2, <2>3 DEF Deliver
    <2>5. woken' \in BOOLEAN /\ registered' \in BOOLEAN /\ nchunks' \in Nat
      <3>1. woken' \in BOOLEAN /\ registered' \in BOOLEAN
        BY <1>2, Zenon DEF Deliver, Wake, TypeOK
      <3>2. nchunks' \in Nat
        BY <1>2 DEF Deliver, TypeOK
      <3>3. QED
        BY <3>1, <3>2
    <2>6. TypeOK'
      BY <1>2, <2>2, <2>5 DEF Deliver, TypeOK
    <2>7. QED
      BY <1>2, <2>4, <2>6 DEF Deliver
  <1>3. ASSUME NEW s \in {"end", "error"}, Finish(s) PROVE IInv'
    <2>1. woken' \in BOOLEAN /\ registered' \in BOOLEAN
      BY <1>3 DEF Finish, Wake, TypeOK
    <2>2. TypeOK'
      BY <1>3, <2>1 DEF Finish, TypeOK
    <2>3. QED
      BY <1>3, <2>2 DEF Finish
  <1>4. CASE Resolved \/ UNCHANGED vars
    BY <1>4 DEF Resolved, vars, TypeOK
  <1>5. CASE Poll
    <2> USE DEF Poll
    <2>1. CASE fut # None /\ PollFold(fut, body) /\ UNCHANGED <<length, err, fut>>
      <3>1. fut \in Nat /\ demanded' = fut /\ Len(body) <= fut
        BY <1>5, <2>1, NoneAssumption DEF TypeOK
      <3>2. QED
        BY <1>5, <2>1, <3>1, PollFoldIInv DEF TypeOK
    <2>2. CASE /\ fut = None
               /\ err # None
               /\ outcome' = err
               /\ err' = None
               /\ UNCHANGED <<length, fut, body, registered, avail>>
      <3>1. TypeOK'
        BY <1>5, <2>2 DEF TypeOK, Outcomes
      <3>2. QED
        BY <1>5, <2>2, <3>1 DEF TypeOK
    <2>3. CASE /\ fut = None
               /\ err = None
               /\ DeclaredTooLong(length, limit)
               /\ outcome' = "Overflow"
               /\ length' = None
               /\ UNCHANGED <<err, fut, body, registered, avail>>
      <3>1. TypeOK'
        BY <1>5, <2>3 DEF TypeOK, Outcomes
      <3>2. QED
        BY <1>5, <2>3, <3>1
    <2>4. CASE /\ fut = None
               /\ err = None
               /\ ~DeclaredTooLong(length, limit)
               /\ length' = None
               /\ fut' = limit
               /\ PollFold(limit, body)
               /\ UNCHANGED err
      <3>1. limit \in Nat /\ demanded' = limit /\ Len(body) <= limit
        BY <1>5, <2>4 DEF TypeOK
      <3>2. QED
        BY <1>5, <2>4, <3>1, PollFoldIInv DEF TypeOK
    <2>5. QED
      BY <1>5, <2>1, <2>2, <2>3, <2>4
  <1>6. QED
    BY <1>1, <1>2, <1>3, <1>4, <1>5 DEF Next

-----------------------------------------------------------------------------
(* MessageBody only ever holds values of the expected types. *)
THEOREM TypeCorrect == Spec => []TypeOK
  BY InitIInv, NextIInv, PTL DEF Spec, IInv

(* The collected buffer never exceeds the limit the fold was built with,  *)
(* whatever the declared Content-Length and whatever `limit` is set to    *)
(* after the first poll (fold closure, lines 530-537).                     *)
THEOREM BufferBounded == Spec => []BufferBound
  BY InitIInv, NextIInv, PTL DEF Spec, IInv

(* A successful MessageBody resolves to exactly the bytes the payload     *)
(* stream produced before it ended, and to no more than the limit in force *)
(* at the first poll.                                                      *)
THEOREM ResultIsBody == Spec => []ResultFaithful
  BY InitIInv, NextIInv, PTL DEF Spec, IInv
=============================================================================
