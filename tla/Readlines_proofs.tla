-------------------------- MODULE Readlines_proofs --------------------------
(***************************************************************************)
(* Proofs about Readlines, for every value of its constants: the type      *)
(* invariant and that every yielded line is a line.  What the stream does  *)
(* with the bytes as a whole (BytesConserved) is proved in                 *)
(* Readlines_bytes.                                                        *)
(***************************************************************************)
EXTENDS Readlines, SequenceTheorems, LeastElement, TLAPS

(* The inductive invariant: a buffer marked checked holds no '\n' (the     *)
(* code reads `checked_buff` as "the buffer needs no scan", lines 360 and  *)
(* 385), which is what makes a last line without '\n' the whole rest.      *)
LInv ==
  /\ TypeOK
  /\ checkedBuff => FirstNL(buff) = 0
  /\ LinesWellFormed

-----------------------------------------------------------------------------
(* FirstNL finds the first '\n' (the loops of lines 361-367 and 391-397): *)
(* a position of s holding '\n' with none before it, or 0 when s holds    *)
(* none.                                                                   *)
LEMMA FirstNLFacts ==
  ASSUME NEW s \in Seq(Byte)
  PROVE  /\ FirstNL(s) \in 0 .. Len(s)
         /\ FirstNL(s) # 0 => /\ s[FirstNL(s)] = NL
                              /\ \A j \in 1 .. FirstNL(s) - 1 : s[j] # NL
         /\ FirstNL(s) = 0 <=> \A j \in 1 .. Len(s) : s[j] # NL
  <1> DEFINE I == {i \in 1 .. Len(s) : s[i] = NL}
  <1>1. FirstNL(s) = IF I # {} THEN Min(I) ELSE 0
    BY DEF FirstNL, SelectInSeq
  <1>2. CASE I = {}
    <2>1. FirstNL(s) = 0
      BY <1>1, <1>2
    <2>2. \A j \in 1 .. Len(s) : s[j] # NL
      BY <1>2
    <2>3. QED
      BY <2>1, <2>2
  <1>3. CASE I # {}
    <2>0. I \in SUBSET Nat
      OBVIOUS
    <2>1. PICK m \in I : \A k \in I : m <= k
      BY <1>3, <2>0, NatSubsetHasMin
    <2>2. Min(I) = m
      <3>1. \A x \in I : (\A y \in I : x <= y) <=> x = m
        BY <2>1
      <3>2. QED
        BY <2>1, <3>1 DEF Min
    <2>3. FirstNL(s) = m /\ m \in 1 .. Len(s) /\ s[m] = NL
      BY <1>1, <1>3, <2>2
    <2>4. \A j \in 1 .. m - 1 : s[j] # NL
      BY <2>1
    <2>5. QED
      BY <2>3, <2>4
  <1>4. QED
    BY <1>2, <1>3

(* The bytes up to the first '\n' are a line of that length, and the rest *)
(* is a byte string (the split_to of lines 370-373 and 400-403).           *)
LEMMA LineSplit ==
  ASSUME NEW s \in Seq(Byte), FirstNL(s) # 0
  PROVE  /\ FirstNL(s) \in 1 .. Len(s)
         /\ SubSeq(s, 1, FirstNL(s)) \in Seq(Byte)
         /\ Len(SubSeq(s, 1, FirstNL(s))) = FirstNL(s)
         /\ IsLine(SubSeq(s, 1, FirstNL(s)))
         /\ SubSeq(s, FirstNL(s) + 1, Len(s)) \in Seq(Byte)
  <1> DEFINE i == FirstNL(s)
  <1>1. /\ i \in 1 .. Len(s) /\ s[i] = NL
        /\ \A j \in 1 .. i - 1 : s[j] # NL
    BY FirstNLFacts
  <1>2. /\ SubSeq(s, 1, i) \in Seq(Byte) /\ Len(SubSeq(s, 1, i)) = i
        /\ \A j \in 1 .. i : SubSeq(s, 1, i)[j] = s[j]
        /\ SubSeq(s, i + 1, Len(s)) \in Seq(Byte)
    BY <1>1, SubSeqProperties
  <1>3. IsLine(SubSeq(s, 1, i))
    BY <1>1, <1>2 DEF IsLine
  <1>4. QED
    BY <1>1, <1>2, <1>3

(* Appending a byte string without '\n' to one without '\n' gives one    *)
(* without '\n' (lines 416-418).                                           *)
LEMMA NoNLConcat ==
  ASSUME NEW s \in Seq(Byte), NEW t \in Seq(Byte),
         FirstNL(s) = 0, FirstNL(t) = 0
  PROVE  FirstNL(s \o t) = 0
  <1>1. /\ \A j \in 1 .. Len(s) : s[j] # NL
        /\ \A j \in 1 .. Len(t) : t[j] # NL
    BY FirstNLFacts
  <1>2. s \o t \in Seq(Byte)
    OBVIOUS
  <1>3. \A j \in 1 .. Len(s \o t) : (s \o t)[j] # NL
    BY <1>1
  <1>4. QED
    BY <1>2, <1>3, FirstNLFacts

(* A step that yields no line keeps the lines well formed as long as a    *)
(* stream that ended with a line without '\n' stays so.                    *)
LEMMA KeptLines ==
  ASSUME LinesWellFormed, out' = out,
         srcState = "end" /\ buff = << >> /\ avail = << >> =>
           srcState' = "end" /\ buff' = << >> /\ avail' = << >>
  PROVE  LinesWellFormed'
  BY DEF LinesWellFormed, IsLine

(* A step that yields a line ending in '\n' keeps the lines well formed,  *)
(* provided the stream had not already ended with a line without one.      *)
LEMMA AppendedLine ==
  ASSUME LinesWellFormed, out \in Seq(Seq(Byte)), NEW l, IsLine(l),
         out' = Append(out, l),
         ~(srcState = "end" /\ buff = << >> /\ avail = << >>)
  PROVE  LinesWellFormed'
  <1>1. \A k \in 1 .. Len(out) : IsLine(out[k])
    BY DEF LinesWellFormed
  <1>2. \A k \in 1 .. Len(out') : IsLine(out'[k])
    BY <1>1
  <1>3. QED
    BY <1>2 DEF LinesWellFormed

(* The last line of a body that ended without '\n' is a well-formed last  *)
(* line (lines 430-440).                                                    *)
LEMMA FinalLine ==
  ASSUME LinesWellFormed, out \in Seq(Seq(Byte)), buff \in Seq(Byte),
         buff # << >>, FirstNL(buff) = 0, out' = Append(out, buff),
         srcState' = "end", buff' = << >>, avail' = << >>
  PROVE  LinesWellFormed'
  <1>1. \A k \in 1 .. Len(out) : IsLine(out[k])
    BY DEF LinesWellFormed
  <1>2. \A j \in 1 .. Len(buff) : buff[j] # NL
    BY FirstNLFacts
  <1>3. QED
    BY <1>1, <1>2 DEF LinesWellFormed

-----------------------------------------------------------------------------
(* Init establishes the invariant. *)
LEMMA InitLInv == Init => LInv
  <1> SUFFICES ASSUME Init PROVE LInv
    OBVIOUS
  <1>0. /\ encoding \in Charsets /\ err \in {None} \cup EncodingErrors
    BY DEF Init, Charsets
  <1>4. /\ << >> \in Seq(Byte) /\ << >> \in Seq(Seq(Byte))
        /\ << >> \in Seq(Chunks)
    OBVIOUS
  <1>1. TypeOK
    BY <1>0, <1>4, ConstantsAssumption DEF Init, TypeOK, Statuses
  <1>2. FirstNL(buff) = 0
    <2>1. FirstNL(<< >>) = 0
      BY DEF FirstNL, SelectInSeq
    <2>2. QED
      BY <2>1 DEF Init
  <1>3. QED
    BY <1>1, <1>2 DEF Init, LInv, LinesWellFormed

(* Readlines::limit keeps it. *)
LEMMA SetLimitLInv ==
  ASSUME LInv, NEW n \in Limits, SetLimit(n) PROVE LInv'
  <1>1. TypeOK'
    BY ConstantsAssumption DEF SetLimit, LInv, TypeOK
  <1>2. LinesWellFormed'
    BY KeptLines DEF SetLimit, LInv
  <1>3. QED
    BY <1>1, <1>2 DEF SetLimit, LInv

(* The payload producing a chunk keeps it. *)
LEMMA DeliverLInv ==
  ASSUME LInv, NEW c \in Chunks, Deliver(c) PROVE LInv'
  <1>1. c \in Seq(Byte) /\ avail \in Seq(Chunks) /\ sent \in Seq(Byte)
    BY ConstantsAssumption DEF LInv, TypeOK
  <1>2. avail' \in Seq(Chunks) /\ sent' \in Seq(Byte) /\ nchunks' \in Nat
    BY <1>1 DEF Deliver, LInv, TypeOK
  <1>3. woken' \in BOOLEAN /\ registered' \in BOOLEAN
    BY Zenon DEF Deliver, Wake, LInv, TypeOK
  <1>4. TypeOK'
    BY <1>2, <1>3 DEF Deliver, LInv, TypeOK
  <1>5. LinesWellFormed'
    BY KeptLines DEF Deliver, LInv
  <1>6. QED
    BY <1>4, <1>5 DEF Deliver, LInv

(* The payload ending or failing keeps it. *)
LEMMA FinishLInv ==
  ASSUME LInv, NEW st \in {"end", "error"}, Finish(st) PROVE LInv'
  <1>1. woken' \in BOOLEAN /\ registered' \in BOOLEAN
    BY Zenon DEF Finish, Wake, LInv, TypeOK
  <1>2. TypeOK'
    BY <1>1 DEF Finish, LInv, TypeOK
  <1>3. LinesWellFormed'
    BY KeptLines DEF Finish, LInv
  <1>4. QED
    BY <1>2, <1>3 DEF Finish, LInv

(* The deferred construction error keeps it. *)
LEMMA PollErrLInv ==
  ASSUME LInv, PollErr, UNCHANGED <<encoding, limit, srcState, sent, nchunks>>
  PROVE  LInv'
  <1>1. status' \in Statuses /\ out' = out
    BY DEF PollErr, Fail, LInv, TypeOK, Statuses, Errors
  <1>2. TypeOK'
    BY <1>1 DEF PollErr, LInv, TypeOK
  <1>3. LinesWellFormed'
    BY <1>1, KeptLines DEF PollErr, LInv
  <1>4. QED
    BY <1>2, <1>3 DEF PollErr, LInv

(* Yielding the line s, or failing to decode it, leaves a status of the    *)
(* right type and, when it yields, appends s.                              *)
LEMMA YieldCases ==
  ASSUME NEW l, Yield(l)
  PROVE  \/ Decodes(l) /\ out' = Append(out, l) /\ status' = status
         \/ ~Decodes(l) /\ out' = out /\ status' = "EncodingError"
  BY DEF Yield

(* A line split off a buffer not yet scanned (lines 360-384) keeps it. *)
LEMMA PollBufferedLInv ==
  ASSUME LInv, status = "active", PollBuffered,
         UNCHANGED <<encoding, limit, srcState, sent, nchunks>>
  PROVE  LInv'
  <1> DEFINE i == FirstNL(buff)
             line == SubSeq(buff, 1, i)
  <1>1. /\ buff \in Seq(Byte) /\ out \in Seq(Seq(Byte)) /\ i # 0
        /\ checkedBuff = FALSE /\ checkedBuff' = checkedBuff
        /\ UNCHANGED <<err, avail, registered, woken>>
    BY DEF LInv, TypeOK, PollBuffered
  <1>2. /\ i \in 1 .. Len(buff) /\ line \in Seq(Byte) /\ IsLine(line)
        /\ SubSeq(buff, i + 1, Len(buff)) \in Seq(Byte)
    BY <1>1, LineSplit
  <1>3. buff # << >>
    BY <1>2
  <1>4. CASE TooLong(i, limit)
    <2>1. status' = "LimitOverflow" /\ out' = out /\ buff' = buff
      BY <1>1, <1>4 DEF PollBuffered, Fail, TooLong
    <2>2. TypeOK'
      BY <1>1, <2>1 DEF LInv, TypeOK, Statuses, Errors
    <2>3. LinesWellFormed'
      BY <1>3, <2>1, KeptLines DEF LInv
    <2>4. QED
      BY <1>1, <2>2, <2>3 DEF LInv
  <1>5. CASE ~TooLong(i, limit)
    <2>1. buff' = SubSeq(buff, i + 1, Len(buff)) /\ Yield(line)
      BY <1>1, <1>5 DEF PollBuffered, TooLong
    <2>2. /\ out' \in Seq(Seq(Byte)) /\ status' \in Statuses
          /\ LinesWellFormed'
      <3>1. CASE Decodes(line) /\ out' = Append(out, line) /\ status' = status
        <4>1. out' \in Seq(Seq(Byte)) /\ status' \in Statuses
          BY <1>1, <1>2, <3>1 DEF Statuses
        <4>2. LinesWellFormed'
          BY <1>1, <1>2, <1>3, <3>1, AppendedLine DEF LInv
        <4>3. QED
          BY <4>1, <4>2
      <3>2. CASE ~Decodes(line) /\ out' = out /\ status' = "EncodingError"
        BY <1>1, <1>3, <3>2, KeptLines DEF LInv, TypeOK, Statuses, Errors
      <3>3. QED
        BY <2>1, <3>1, <3>2, YieldCases
    <2>3. TypeOK'
      BY <1>1, <1>2, <2>1, <2>2 DEF LInv, TypeOK
    <2>4. QED
      BY <1>1, <2>2, <2>3 DEF LInv
  <1>6. QED
    BY <1>4, <1>5

(* A chunk taken from the payload (lines 385-420) keeps it. *)
LEMMA PollChunkLInv ==
  ASSUME LInv, status = "active", PollChunk,
         UNCHANGED <<encoding, limit, srcState, sent, nchunks>>
  PROVE  LInv'
  <1> DEFINE c == Head(avail)
             i == FirstNL(c)
             line == SubSeq(c, 1, i)
  <1>1. /\ buff \in Seq(Byte) /\ out \in Seq(Seq(Byte))
        /\ avail \in Seq(Chunks) /\ avail # << >>
        /\ avail' = Tail(avail) /\ FirstNL(buff) = 0
        /\ UNCHANGED <<err, registered>>
    BY DEF LInv, TypeOK, PollChunk
  <1>2. c \in Seq(Byte) /\ avail' \in Seq(Chunks)
    BY <1>1, ConstantsAssumption
  <1>3. ~(srcState = "end" /\ buff = << >> /\ avail = << >>)
    BY <1>1
  <1>4. CASE i # 0 /\ TooLong(i, limit)
    <2>1. /\ status' = "LimitOverflow" /\ out' = out
          /\ UNCHANGED <<buff, woken>> /\ checkedBuff' = TRUE
      BY <1>4 DEF PollChunk, Fail, TooLong
    <2>2. TypeOK'
      BY <1>1, <1>2, <2>1 DEF LInv, TypeOK, Statuses, Errors
    <2>3. LinesWellFormed'
      BY <1>3, <2>1, KeptLines DEF LInv
    <2>4. QED
      BY <1>1, <2>1, <2>2, <2>3 DEF LInv
  <1>5. CASE i # 0 /\ ~TooLong(i, limit) /\ Decodes(line)
    <2>1. /\ out' = Append(out, line) /\ status' = status
          /\ buff' = buff \o SubSeq(c, i + 1, Len(c))
          /\ checkedBuff' = FALSE /\ woken' = woken
      BY <1>5 DEF PollChunk, TooLong
    <2>2. line \in Seq(Byte) /\ IsLine(line)
          /\ SubSeq(c, i + 1, Len(c)) \in Seq(Byte)
      BY <1>2, <1>5, LineSplit
    <2>3. TypeOK'
      <3>4. out' \in Seq(Seq(Byte))
        BY <1>1, <2>1, <2>2
      <3>5. buff' \in Seq(Byte)
        BY <1>1, <2>1, <2>2
      <3>1. out' \in Seq(Seq(Byte)) /\ buff' \in Seq(Byte)
        BY <3>4, <3>5
      <3>2. checkedBuff' \in BOOLEAN /\ woken' \in BOOLEAN
        BY <2>1, Zenon DEF LInv, TypeOK
      <3>3. QED
        BY <1>1, <1>2, <2>1, <3>1, <3>2 DEF LInv, TypeOK
    <2>4. LinesWellFormed'
      BY <1>1, <1>3, <2>1, <2>2, AppendedLine DEF LInv
    <2>5. QED
      BY <2>1, <2>3, <2>4 DEF LInv
  <1>6. CASE i # 0 /\ ~TooLong(i, limit) /\ ~Decodes(line)
    <2>1. /\ status' = "EncodingError" /\ out' = out
          /\ UNCHANGED <<buff, woken>> /\ checkedBuff' = TRUE
      BY <1>6 DEF PollChunk, Fail, TooLong
    <2>2. TypeOK'
      BY <1>1, <1>2, <2>1 DEF LInv, TypeOK, Statuses, Errors
    <2>3. LinesWellFormed'
      BY <1>3, <2>1, KeptLines DEF LInv
    <2>4. QED
      BY <1>1, <2>1, <2>2, <2>3 DEF LInv
  <1>7. CASE i = 0
    <2>1. /\ buff' = buff \o c /\ checkedBuff' = TRUE /\ woken' = FALSE
          /\ UNCHANGED <<out, status>>
      BY <1>7 DEF PollChunk
    <2>2. FirstNL(buff') = 0
      BY <1>1, <1>2, <1>7, <2>1, NoNLConcat
    <2>3. TypeOK'
      <3>1. buff' \in Seq(Byte)
        BY <1>1, <1>2, <2>1
      <3>2. checkedBuff' \in BOOLEAN /\ woken' \in BOOLEAN
        BY <2>1, Zenon
      <3>3. QED
        BY <1>1, <1>2, <2>1, <3>1, <3>2 DEF LInv, TypeOK
    <2>4. LinesWellFormed'
      BY <1>3, <2>1, KeptLines DEF LInv
    <2>5. QED
      BY <2>2, <2>3, <2>4 DEF LInv
  <1>8. QED
    BY <1>4, <1>5, <1>6, <1>7

(* A poll with no chunk ready (lines 385-388 and 421-442) keeps it. *)
LEMMA PollNoChunkLInv ==
  ASSUME LInv, status = "active", PollNoChunk,
         UNCHANGED <<encoding, limit, srcState, sent, nchunks>>
  PROVE  LInv'
  <1>1. /\ buff \in Seq(Byte) /\ out \in Seq(Seq(Byte))
        /\ avail = << >> /\ FirstNL(buff) = 0 /\ checkedBuff' = TRUE
        /\ UNCHANGED <<err, avail>>
        /\ registered \in BOOLEAN /\ woken \in BOOLEAN
    BY DEF LInv, TypeOK, PollNoChunk
  <1>2. CASE /\ srcState = "open" /\ registered' = TRUE /\ woken' = FALSE
             /\ UNCHANGED <<buff, out, status>>
    <2>1. TypeOK'
      BY <1>1, <1>2 DEF LInv, TypeOK
    <2>2. LinesWellFormed'
      BY <1>2, KeptLines DEF LInv
    <2>3. QED
      BY <1>1, <1>2, <2>1, <2>2 DEF LInv
  <1>3. CASE /\ srcState = "end" /\ buff = << >> /\ status' = "ended"
             /\ UNCHANGED <<buff, out, registered, woken>>
    <2>1. TypeOK'
      BY <1>1, <1>3 DEF LInv, TypeOK, Statuses
    <2>2. LinesWellFormed'
      BY <1>1, <1>3, KeptLines DEF LInv
    <2>3. QED
      BY <1>1, <1>3, <2>1, <2>2 DEF LInv
  <1>4. CASE /\ srcState = "end" /\ buff # << >> /\ TooLong(Len(buff), limit)
             /\ Fail("LimitOverflow") /\ UNCHANGED <<buff, registered, woken>>
    <2>1. status' = "LimitOverflow" /\ out' = out
      BY <1>4 DEF Fail
    <2>2. TypeOK'
      BY <1>1, <1>4, <2>1 DEF LInv, TypeOK, Statuses, Errors
    <2>3. LinesWellFormed'
      BY <1>4, <2>1, KeptLines DEF LInv
    <2>4. QED
      BY <1>1, <1>4, <2>2, <2>3 DEF LInv
  <1>5. CASE /\ srcState = "end" /\ buff # << >> /\ ~TooLong(Len(buff), limit)
             /\ Yield(buff) /\ buff' = IF Decodes(buff) THEN << >> ELSE buff
             /\ UNCHANGED <<registered, woken>>
    <2>2. CASE Decodes(buff) /\ out' = Append(out, buff) /\ status' = status
      <3>0. buff' = << >> /\ FirstNL(buff') = 0
        BY <1>5, <2>2 DEF FirstNL, SelectInSeq
      <3>1. TypeOK'
        BY <1>1, <1>5, <2>2, <3>0 DEF LInv, TypeOK
      <3>2. LinesWellFormed'
        BY <1>1, <1>5, <2>2, <3>0, FinalLine DEF LInv
      <3>3. QED
        BY <3>0, <3>1, <3>2 DEF LInv
    <2>3. CASE ~Decodes(buff) /\ out' = out /\ status' = "EncodingError"
      <3>0. buff' = buff /\ FirstNL(buff') = 0
        BY <1>1, <1>5, <2>3
      <3>1. TypeOK'
        BY <1>1, <1>5, <2>3, <3>0 DEF LInv, TypeOK, Statuses, Errors
      <3>2. LinesWellFormed'
        BY <1>5, <2>3, KeptLines DEF LInv
      <3>3. QED
        BY <3>0, <3>1, <3>2 DEF LInv
    <2>4. QED
      BY <1>5, <2>2, <2>3, YieldCases
  <1>6. CASE /\ srcState = "error" /\ Fail("SourceError")
             /\ UNCHANGED <<buff, registered, woken>>
    <2>1. status' = "SourceError" /\ out' = out
      BY <1>6 DEF Fail
    <2>2. TypeOK'
      BY <1>1, <1>6, <2>1 DEF LInv, TypeOK, Statuses, Errors
    <2>3. LinesWellFormed'
      BY <1>6, <2>1, KeptLines DEF LInv
    <2>4. QED
      BY <1>1, <1>6, <2>2, <2>3 DEF LInv
  <1>7. QED
    BY <1>2, <1>3, <1>4, <1>5, <1>6 DEF PollNoChunk

(* Every step keeps the invariant. *)
LEMMA NextLInv == LInv /\ [Next]_vars => LInv'
  <1> SUFFICES ASSUME LInv, [Next]_vars PROVE LInv'
    OBVIOUS
  <1>1. CASE Poll
    <2>1. status = "active" /\ UNCHANGED <<encoding, limit, srcState, sent, nchunks>>
      BY <1>1 DEF Poll
    <2>2. QED
      BY <1>1, <2>1, PollErrLInv, PollBufferedLInv, PollChunkLInv, PollNoChunkLInv
         DEF Poll
  <1>2. CASE Stopped \/ UNCHANGED vars
    <2>1. UNCHANGED vars
      BY <1>2 DEF Stopped
    <2>2. LinesWellFormed'
      BY <2>1, KeptLines DEF vars, LInv
    <2>3. QED
      BY <2>1, <2>2 DEF vars, LInv, TypeOK
  <1>3. QED
    BY <1>1, <1>2, SetLimitLInv, DeliverLInv, FinishLInv DEF Next

-----------------------------------------------------------------------------
(* Readlines only ever holds values of the expected types. *)
THEOREM LinesTypeCorrect == Spec => []TypeOK
  BY InitLInv, NextLInv, PTL DEF Spec, LInv

(* Every line the stream yields is non-empty and ends in its only '\n',   *)
(* except a last line that is the whole rest of a body that ended without *)
(* one (lines 360-440), whatever the chunk boundaries and the limit.       *)
THEOREM LinesAreLines == Spec => []LinesWellFormed
  BY InitLInv, NextLInv, PTL DEF Spec, LInv
=============================================================================
