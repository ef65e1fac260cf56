------------------------- MODULE UrlEncoded_proofs -------------------------
(***************************************************************************)
(* Proofs about UrlEncoded, for every value of its constants: the type     *)
(* invariant, the bound on the buffered form, that a decoded form is the   *)
(* body the stream produced, and which error a faulty request gets.        *)
(***************************************************************************)
EXTENDS UrlEncoded, SequenceTheorems, TLAPS

(* How the collected bytes relate to the stream, as in MessageBody: while  *)
(* pending, the accumulator followed by the ready bytes is everything the  *)
(* stream produced; before the fold exists nothing is collected and no     *)
(* poll happened; the fold's captured limit is the limit of the first poll.*)
Collected ==
  /\ outcome = "pending" => body \o avail = sent
  /\ fut = None => body = << >>
  /\ fut = None /\ outcome = "pending" => demanded = None
  /\ fut # None => fut = demanded

(* What UrlEncoded::new recorded: the charset it negotiated when the       *)
(* checks passed; before the fold exists, the deferred error is the first  *)
(* failed check and `length` the header; once the fold exists, or once it *)
(* resolved to anything but a rejection, every check passed and the        *)
(* declared length was within the fold's limit.                            *)
Checked ==
  /\ encoding = IF Rejection(ctHeader, clHeader) = None
                THEN Encoding(ctHeader) ELSE "utf8"
  /\ fut = None /\ outcome = "pending" =>
       /\ err = Rejection(ctHeader, clHeader)
       /\ err = None => length = clHeader
  /\ fut # None =>
       /\ Rejection(ctHeader, clHeader) = None
       /\ ~(clHeader \in Nat /\ clHeader > fut)
  /\ outcome \notin {"pending", "ContentType", "UnknownLength"} =>
       Rejection(ctHeader, clHeader) = None
  /\ outcome \in {"ContentType", "UnknownLength"} =>
       outcome = Rejection(ctHeader, clHeader)

(* The inductive invariant. *)
UInv ==
  /\ TypeOK
  /\ Collected
  /\ Checked
  /\ BufferBound
  /\ ResultFaithful
  /\ ErrorPrecedence
-----------------------------------------------------------------------------
(* The checks of UrlEncoded::new reject exactly what spec.md 4.4 says: the *)
(* content-type check fails for a header that is not an accepted form     *)
(* type, and the length check for a bad Content-Length of one that is.    *)
LEMMA RejectionCases ==
  ASSUME NEW ct \in ContentTypeHeaders, NEW cl
  PROVE  /\ Rejection(ct, cl) \in {None, "ContentType", "UnknownLength"}
         /\ Rejection(ct, cl) = "ContentType" <=> ~AcceptedType(ct)
         /\ Rejection(ct, cl) = "UnknownLength" <=>
              AcceptedType(ct) /\ cl \in BadLength
         /\ Rejection(ct, cl) = None <=> AcceptedType(ct) /\ cl \notin BadLength
  <1>1. AcceptedType(ct) <=>
          /\ ToLowercase(ContentType(ct)) = FormUrlencoded
          /\ Encoding(ct) \notin EncodingErrors
    <2>1. CASE ct \in {None, NonText}
      BY <2>1 DEF AcceptedType, ContentType, ToLowercase, FormUrlencoded
    <2>2. CASE ct \notin {None, NonText}
      <3>1. ct \in [token : MediaTokens, wellFormed : BOOLEAN,
                    charset : Labels \cup {"absent"}]
        BY <2>2 DEF ContentTypeHeaders
      <3>2. QED
        BY <2>2, <3>1 DEF AcceptedType, ContentType, Encoding, Registry,
                           Labels, EncodingErrors
    <2>3. QED
      BY <2>1, <2>2
  <1>2. QED
    BY <1>1, NoneNotOutcome DEF Rejection, Outcomes

(* An accepted header negotiates a charset, Shift_JIS exactly when it     *)
(* declares it, and one whose strict decode can fail only when it names a *)
(* charset.                                                                *)
LEMMA AcceptedEncoding ==
  ASSUME NEW ct \in ContentTypeHeaders, AcceptedType(ct)
  PROVE  /\ Encoding(ct) \in Charsets
         /\ Encoding(ct) = "multi" <=> ShiftJis(ct)
         /\ Encoding(ct) \in {"utf8label", "multi"} => StrictLabel(ct)
  <1>1. ct \in [token : MediaTokens, wellFormed : BOOLEAN,
                charset : Labels \cup {"absent"}]
    BY DEF AcceptedType, ContentTypeHeaders
  <1>2. QED
    BY <1>1 DEF AcceptedType, Encoding, Registry, Charsets, ShiftJis,
                StrictLabel

(* The headers are read-only, so everything derived from them is too. *)
LEMMA HeadersUnchanged ==
  ASSUME ctHeader' = ctHeader, clHeader' = clHeader
  PROVE  /\ Rejection(ctHeader, clHeader)' = Rejection(ctHeader, clHeader)
         /\ Encoding(ctHeader)' = Encoding(ctHeader)
         /\ AcceptedType(ctHeader)' = AcceptedType(ctHeader)
         /\ ShiftJis(ctHeader)' = ShiftJis(ctHeader)
         /\ StrictLabel(ctHeader)' = StrictLabel(ctHeader)
  BY DEF Rejection, Encoding, ContentType, AcceptedType, ShiftJis, StrictLabel

(* Appending bytes to the ready bytes appends them to the whole body. *)
LEMMA ByteConcatAssociative ==
  \A x, y, z \in Seq(Byte) : (x \o y) \o z = x \o (y \o z)
  BY ConcatAssociative

(* Init establishes the invariant. *)
LEMMA InitUInv == Init => UInv
  <1> SUFFICES ASSUME Init PROVE UInv
    OBVIOUS
  <1>1. /\ Rejection(ctHeader, clHeader) \in {None, "ContentType", "UnknownLength"}
        /\ Rejection(ctHeader, clHeader) = None =>
              AcceptedType(ctHeader) /\ clHeader \notin BadLength
    BY RejectionCases DEF Init
  <1>2. encoding \in Charsets
    BY <1>1, AcceptedEncoding DEF Init, Charsets
  <1>3. length \in {None} \cup Nat
    BY <1>1 DEF Init, LengthHeaders
  <1>8. /\ err \in {None, "ContentType", "UnknownLength"}
        /\ limit \in Nat /\ nchunks \in Nat
        /\ body \in Seq(Byte) /\ avail \in Seq(Byte) /\ sent \in Seq(Byte)
        /\ fut \in {None} \cup Nat /\ demanded \in {None} \cup Nat
        /\ outcome \in Outcomes
    BY <1>1, UrlEncodedAssumption DEF Init, Outcomes
  <1>4. TypeOK
    BY <1>2, <1>3, <1>8 DEF Init, TypeOK
  <1>5. Collected /\ BufferBound /\ ResultFaithful /\ ErrorPrecedence
    BY NoneNotOutcome
       DEF Init, Collected, BufferBound, ResultFaithful, ErrorPrecedence, Outcomes
  <1>6. Checked
    BY <1>1, NoneNotOutcome DEF Init, Checked, Outcomes
  <1>7. QED
    BY <1>4, <1>5, <1>6 DEF UInv

(* One poll of the fold with limit lim, from a state that passed every     *)
(* check and whose declared length is within lim, lim being the limit of  *)
(* the first poll: the step keeps the invariant.                           *)
LEMMA PollFoldUInv ==
  ASSUME UInv, outcome = "pending", NEW lim \in Nat, Len(body) <= lim,
         PollFold(lim, body),
         fut' = lim, demanded' = lim, err' = err,
         UNCHANGED <<ctHeader, clHeader, encoding, limit, srcState, sent, nchunks>>,
         Rejection(ctHeader, clHeader) = None,
         ~(clHeader \in Nat /\ clHeader > lim),
         length' \in {None} \cup Nat, woken' \in BOOLEAN
  PROVE  UInv'
  <1> DEFINE total == body \o avail
  <1>1. /\ total = sent
        /\ total \in Seq(Byte)
        /\ avail' = << >>
        /\ body \in Seq(Byte)
        /\ registered \in BOOLEAN
        /\ AcceptedType(ctHeader) /\ clHeader \notin BadLength
        /\ encoding = Encoding(ctHeader)
        /\ encoding = "multi" <=> ShiftJis(ctHeader)
        /\ encoding \in {"utf8label", "multi"} => StrictLabel(ctHeader)
    BY RejectionCases, AcceptedEncoding, ConcatProperties
       DEF UInv, TypeOK, Collected, Checked, PollFold
  <1>2. << >> \in Seq(Byte)
    OBVIOUS
  <1>0. /\ Rejection(ctHeader, clHeader)' = None
        /\ Encoding(ctHeader)' = Encoding(ctHeader)
        /\ AcceptedType(ctHeader)' = AcceptedType(ctHeader)
        /\ ShiftJis(ctHeader)' = ShiftJis(ctHeader)
        /\ StrictLabel(ctHeader)' = StrictLabel(ctHeader)
    BY DEF Rejection, Encoding, ContentType, AcceptedType, ShiftJis, StrictLabel
  <1>9. outcome' \in {"Overflow", "ok", "Parse", "Payload", "pending"}
    BY DEF PollFold
  <1>3. Checked'
    <2>1. encoding' = IF Rejection(ctHeader, clHeader)' = None
                      THEN Encoding(ctHeader)' ELSE "utf8"
      BY <1>0, <1>1
    <2>2. fut' # None /\ ~(clHeader' \in Nat /\ clHeader' > fut')
      BY UrlEncodedAssumption
    <2>3. QED
      BY <1>0, <1>9, <2>1, <2>2 DEF Checked
  <1>4. CASE Len(total) > lim
    <2>1. outcome' = "Overflow" /\ body' = body /\ registered' = registered
      BY <1>4 DEF PollFold
    <2>2. TypeOK'
      BY <1>1, <1>2, <2>1 DEF UInv, TypeOK, Outcomes
    <2>3. Len(sent') > demanded'
      BY <1>1, <1>4
    <2>4. Collected' /\ BufferBound' /\ ResultFaithful'
      BY <1>1, <2>1, UrlEncodedAssumption DEF UInv, Collected, BufferBound, ResultFaithful
    <2>5. ErrorPrecedence'
      BY <1>0, <1>1, <2>1, <2>3, RejectionCases DEF ErrorPrecedence
    <2>6. QED
      BY <1>3, <2>2, <2>4, <2>5 DEF UInv
  <1>5. CASE Len(total) <= lim
    <2>1. body' = total /\ body' \o avail' = sent
      BY <1>1, <1>5, ConcatEmptySeq DEF PollFold
    <2>2. \/ /\ srcState = "end" /\ registered' = registered
             /\ \E fast \in FastPath(encoding) :
                  outcome' = IF Parses(encoding, fast, total) THEN "ok" ELSE "Parse"
          \/ srcState = "error" /\ outcome' = "Payload" /\ registered' = registered
          \/ srcState = "open" /\ outcome' = "pending" /\ registered' = TRUE
      BY <1>5 DEF PollFold
    <2>3. TypeOK'
      BY <1>1, <1>2, <2>1, <2>2 DEF UInv, TypeOK, Outcomes
    <2>4. ResultFaithful'
      <3>1. outcome' = "ok" =>
              /\ srcState = "end"
              /\ \E fast \in FastPath(encoding) : Parses(encoding, fast, sent)
        BY <1>1, <2>2
      <3>2. ASSUME NEW fast \in FastPath(encoding), Parses(encoding, fast, sent)
            PROVE  /\ ~Contains(sent, Malformed)
                   /\ ShiftJis(ctHeader) => ~Contains(sent, Invalid)
        BY <1>1, <3>2 DEF Parses, FastPath
      <3>3. QED
        BY <1>1, <1>5, <2>1, <3>1, <3>2 DEF ResultFaithful
    <2>5. ErrorPrecedence'
      <3>1. outcome' = "Parse" =>
              \E fast \in FastPath(encoding) : ~Parses(encoding, fast, sent)
        BY <1>1, <2>2
      <3>2. ASSUME NEW fast \in FastPath(encoding), ~Parses(encoding, fast, sent)
            PROVE  \/ Contains(sent, Malformed)
                   \/ StrictLabel(ctHeader) /\ Contains(sent, Invalid)
        BY <1>1, <3>2 DEF Parses
      <3>3. outcome' \in {"ok", "Parse", "Payload", "pending"}
        BY <2>2
      <3>4. QED
        BY <1>0, <1>1, <3>1, <3>2, <3>3, RejectionCases DEF ErrorPrecedence
    <2>6. Collected' /\ BufferBound'
      BY <1>1, <1>5, <2>1, <2>2, UrlEncodedAssumption DEF Collected, BufferBound
    <2>7. QED
      BY <1>3, <2>3, <2>4, <2>5, <2>6 DEF UInv
  <1>6. QED
    BY <1>4, <1>5, <1>1, ConcatProperties

(* Every step keeps the invariant. *)
LEMMA NextUInv == UInv /\ [Next]_vars => UInv'
  <1> SUFFICES ASSUME UInv, [Next]_vars PROVE UInv'
    OBVIOUS
  <1>1. ASSUME NEW n \in Limits, SetLimit(n) PROVE UInv'
    <2>1. TypeOK'
      BY <1>1, UrlEncodedAssumption DEF SetLimit, UInv, TypeOK
    <2>2. Checked'
      BY <1>1, HeadersUnchanged DEF SetLimit, UInv, Checked
    <2>3. QED
      BY <1>1, <2>1, <2>2
         DEF SetLimit, UInv, Collected, BufferBound, ResultFaithful, ErrorPrecedence
  <1>2. ASSUME NEW c \in Chunks, Deliver(c) PROVE UInv'
    <2>1. c \in Seq(Byte) /\ body \in Seq(Byte) /\ avail \in Seq(Byte)
          /\ sent \in Seq(Byte)
      BY UrlEncodedAssumption DEF UInv, TypeOK
    <2>2. avail' \in Seq(Byte) /\ sent' \in Seq(Byte)
      BY <1>2, <2>1, ConcatProperties DEF Deliver
    <2>3. (body \o avail) \o c = body \o (avail \o c)
      BY <2>1, ByteConcatAssociative
    <2>4. Collected'
      BY <1>2, <2>3 DEF Deliver, UInv, Collected
    <2>5. woken' \in BOOLEAN /\ registered' \in BOOLEAN /\ nchunks' \in Nat
      <3>1. woken' \in BOOLEAN /\ registered' \in BOOLEAN
        BY <1>2, Zenon DEF Deliver, Wake, UInv, TypeOK
      <3>2. nchunks' \in Nat
        BY <1>2 DEF Deliver, UInv, TypeOK
      <3>3. QED
        BY <3>1, <3>2
    <2>6. TypeOK'
      BY <1>2, <2>2, <2>5 DEF Deliver, UInv, TypeOK
    <2>7. Checked'
      BY <1>2, HeadersUnchanged DEF Deliver, UInv, Checked
    <2>8. QED
      BY <1>2, <2>4, <2>6, <2>7
         DEF Deliver, UInv, BufferBound, ResultFaithful, ErrorPrecedence
  <1>3. ASSUME NEW s \in {"end", "error"}, Finish(s) PROVE UInv'
    <2>1. woken' \in BOOLEAN /\ registered' \in BOOLEAN
      BY <1>3 DEF Finish, Wake, UInv, TypeOK
    <2>2. TypeOK'
      BY <1>3, <2>1 DEF Finish, UInv, TypeOK
    <2>3. Checked'
      BY <1>3, HeadersUnchanged DEF Finish, UInv, Checked
    <2>4. QED
      BY <1>3, <2>2, <2>3
         DEF Finish, UInv, Collected, BufferBound, ResultFaithful, ErrorPrecedence
  <1>4. CASE Resolved \/ UNCHANGED vars
    <2>1. UNCHANGED vars
      BY <1>4 DEF Resolved
    <2>2. Checked' /\ ErrorPrecedence' /\ ResultFaithful'
      BY <2>1, HeadersUnchanged
         DEF vars, UInv, Checked, ErrorPrecedence, ResultFaithful
    <2>3. QED
      BY <2>1, <2>2 DEF vars, UInv, TypeOK, Collected, BufferBound
  <1>5. CASE Poll
    <2>0. /\ outcome = "pending" /\ woken' \in BOOLEAN
          /\ demanded' = IF demanded = None THEN limit ELSE demanded
          /\ UNCHANGED <<ctHeader, clHeader, encoding, limit, srcState, sent, nchunks>>
      BY <1>5 DEF Poll
    <2>1. /\ limit \in Nat /\ clHeader \in LengthHeaders
          /\ length \in {None} \cup Nat
          /\ err \in {None, "ContentType", "UnknownLength"}
      BY DEF UInv, TypeOK
    <2>2. CASE fut # None /\ PollFold(fut, body) /\ UNCHANGED <<length, err, fut>>
      <3>1. fut \in Nat /\ demanded = fut /\ Len(body) <= fut
        BY <2>2, UrlEncodedAssumption DEF UInv, TypeOK, Collected, BufferBound
      <3>2. Rejection(ctHeader, clHeader) = None
            /\ ~(clHeader \in Nat /\ clHeader > fut)
        BY <2>2 DEF UInv, Checked
      <3>3. QED
        BY <2>0, <2>1, <2>2, <3>1, <3>2, PollFoldUInv
    <2>3. CASE /\ fut = None /\ err # None /\ outcome' = err /\ err' = None
               /\ UNCHANGED <<length, fut, body, registered, avail>>
      <3>1. outcome' = Rejection(ctHeader, clHeader)
            /\ outcome' \in {"ContentType", "UnknownLength"}
        BY <2>0, <2>1, <2>3 DEF UInv, Checked
      <3>2. TypeOK'
        BY <2>0, <2>3, <3>1, NoneNotOutcome DEF UInv, TypeOK, Outcomes
      <3>3. Checked'
        BY <2>0, <2>3, <3>1, HeadersUnchanged DEF UInv, Checked
      <3>4. ErrorPrecedence'
        BY <2>0, <2>3, <3>1, HeadersUnchanged, RejectionCases
           DEF UInv, TypeOK, ErrorPrecedence
      <3>5. QED
        BY <2>3, <3>1, <3>2, <3>3, <3>4
           DEF UInv, Collected, BufferBound, ResultFaithful
    <2>4. CASE /\ fut = None /\ err = None /\ DeclaredTooLong(length, limit)
               /\ outcome' = "Overflow" /\ length' = None
               /\ UNCHANGED <<err, fut, body, registered, avail>>
      <3>1. Rejection(ctHeader, clHeader) = None /\ length = clHeader
            /\ demanded = None
        BY <2>0, <2>4 DEF UInv, Checked, Collected
      <3>2. clHeader \in Nat /\ clHeader > demanded'
        BY <2>0, <2>1, <2>4, <3>1, UrlEncodedAssumption DEF DeclaredTooLong
      <3>3. TypeOK'
        BY <2>0, <2>1, <2>4, <3>2 DEF UInv, TypeOK, Outcomes
      <3>4. Checked'
        BY <2>0, <2>4, <3>1, HeadersUnchanged DEF UInv, Checked
      <3>5. ErrorPrecedence'
        BY <2>0, <2>4, <3>1, <3>2, HeadersUnchanged, RejectionCases
           DEF UInv, TypeOK, ErrorPrecedence
      <3>6. QED
        BY <2>4, <3>3, <3>4, <3>5
           DEF UInv, Collected, BufferBound, ResultFaithful
    <2>5. CASE /\ fut = None /\ err = None /\ ~DeclaredTooLong(length, limit)
               /\ length' = None /\ fut' = limit /\ PollFold(limit, body)
               /\ UNCHANGED err
      <3>1. Rejection(ctHeader, clHeader) = None /\ length = clHeader
            /\ demanded = None /\ body = << >>
        BY <2>0, <2>5 DEF UInv, Checked, Collected
      <3>2. ~(clHeader \in Nat /\ clHeader > limit)
        BY <2>1, <2>5, <3>1, UrlEncodedAssumption DEF DeclaredTooLong
      <3>3. demanded' = limit /\ Len(body) <= limit
        BY <2>0, <2>1, <3>1
      <3>4. QED
        BY <2>0, <2>1, <2>5, <3>1, <3>2, <3>3, UrlEncodedAssumption, PollFoldUInv
    <2>6. QED
      BY <1>5, <2>2, <2>3, <2>4, <2>5 DEF Poll
  <1>6. QED
    BY <1>1, <1>2, <1>3, <1>4, <1>5 DEF Next

-----------------------------------------------------------------------------
(* UrlEncoded only ever holds values of the expected types. *)
THEOREM FormTypeCorrect == Spec => []TypeOK
  BY InitUInv, NextUInv, PTL DEF Spec, UInv

(* The form body buffered by the fold never exceeds the limit it was built *)
(* with (line 642), whatever the declared length and later calls of limit. *)
THEOREM FormBufferBounded == Spec => []BufferBound
  BY InitUInv, NextUInv, PTL DEF Spec, UInv

(* A decoded form is exactly the body the stream produced before it ended, *)
(* within the limit of the first poll, and one that decodes and            *)
(* deserializes (the and_then of lines 649-659).                           *)
THEOREM FormIsBody == Spec => []ResultFaithful
  BY InitUInv, NextUInv, PTL DEF Spec, UInv

(* A faulty request gets the error spec.md 4.4 gives it, for every value   *)
(* of the constants: ContentType exactly for a header that is not an       *)
(* accepted form type, UnknownLength exactly for an accepted one with a    *)
(* bad Content-Length, neither after the payload was touched, and Overflow *)
(* or Parse only when the declared length or the bytes deserve it, the    *)
(* bytes' charset included when the header names one.                     *)
THEOREM FormErrorPrecedence == Spec => []ErrorPrecedence
  BY InitUInv, NextUInv, PTL DEF Spec, UInv
=============================================================================
