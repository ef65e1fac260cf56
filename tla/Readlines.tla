----------------------------- MODULE Readlines -----------------------------
(***************************************************************************)
(* The stream Readlines<T> of src/src/httpmessage.rs (lines 296-445): it   *)
(* turns the message's payload stream into a stream of text lines, each   *)
(* line but possibly the last ending in its '\n'.                          *)
(*                                                                         *)
(* As in MessageBody, an executor polls the stream only when the task is   *)
(* woken, and the payload stream wakes the task only when its own last     *)
(* poll returned NotReady.  Ready chunks are queued in `avail`; chunk      *)
(* boundaries matter here, since poll() takes one chunk at a time.         *)
(* The caller stops at the first error, and after the end of the stream.  *)
(*                                                                         *)
(* A decoded line is recorded as the bytes it was decoded from: decoding  *)
(* is modelled by when it fails.  UTF-8 (str::from_utf8) fails on a byte  *)
(* sequence that is not UTF-8, stood for by the byte Invalid; the other   *)
(* charset stands for a single-byte one like ISO-8859-2 that maps every   *)
(* byte, so its DecoderTrap::Strict decode never fails.                    *)
(***************************************************************************)
EXTENDS Naturals, Sequences, SequencesExt

CONSTANTS
  Byte,          \* the byte values a chunk is made of
  NL,            \* b'\n'
  Invalid,       \* a byte that is not valid UTF-8 on its own
  Chunks,        \* the chunks the payload stream may produce
  MaxChunks,     \* bound on the number of chunks one body is made of
  DefaultLimit,  \* 262_144 in the code (lines 321, 338)
  Limits,        \* the values a caller may pass to Readlines::limit
  None           \* Rust's None

ASSUME ConstantsAssumption ==
  /\ {NL, Invalid} \subseteq Byte
  /\ NL # Invalid
  /\ Chunks \subseteq Seq(Byte)
  /\ MaxChunks \in Nat
  /\ DefaultLimit \in Nat
  /\ Limits \subseteq Nat

(* What HttpMessage::encoding() may return: UTF_8, another charset, or one *)
(* of the two ContentTypeError values.                                     *)
Charsets == {"utf8", "other"}
EncodingErrors == {"UnknownEncoding", "ParseError"}

(* The stream's state as the caller sees it: still yielding, ended with   *)
(* Ready(None), or failed with a ReadlinesError.                           *)
Errors == {"LimitOverflow", "EncodingError", "SourceError"} \cup EncodingErrors
Statuses == {"active", "ended"} \cup Errors

VARIABLES
  encoding,    \* field `encoding`
  err,         \* field `err`: None or the deferred construction error
  buff,        \* field `buff`: bytes received and not yet yielded
  checkedBuff, \* field `checked_buff`
  limit,       \* field `limit`: the maximal line length
  out,         \* history: the lines yielded so far
  status,      \* "active", "ended", or the error the stream failed with
  avail,       \* chunks the payload stream has ready, in order
  srcState,    \* "open", "end" (Ready(None) after avail) or "error"
  sent,        \* history: every byte the payload stream has produced
  nchunks,     \* number of chunks the payload stream has produced
  registered,  \* the task is registered with the payload for a wake-up
  woken        \* the executor will poll the task

vars == <<encoding, err, buff, checkedBuff, limit, out, status,
          avail, srcState, sent, nchunks, registered, woken>>

(* A plausible bug for the mutation runs: the last '\n' is found instead. *)
LastNL(s) == SelectLastInSeq(s, LAMBDA b : b = NL)

(* The 1-based position of the first '\n' of s, 0 if there is none: the   *)
(* loops of lines 361-367 and 391-397 find ind = FirstNL(s) - 1.           *)
FirstNL(s) == SelectInSeq(s, LAMBDA b : b = NL)

(* Whether the line s decodes with the stream's charset (lines 374-382,   *)
(* 404-412, 430-438).                                                      *)
Decodes(s) == encoding # "utf8" \/ Invalid \notin ToSet(s)

-----------------------------------------------------------------------------
(* Readlines::new (lines 312-326): HttpMessage::encoding() is resolved at  *)
(* construction; on failure Readlines::err (lines 334-343) keeps the error *)
(* for the first poll.                                                      *)
Init ==
  /\ \E e \in Charsets \cup EncodingErrors :
       /\ encoding = IF e \in Charsets THEN e ELSE "utf8"
       /\ err = IF e \in Charsets THEN None ELSE e
  /\ buff = << >>
  /\ checkedBuff = TRUE
  /\ limit = DefaultLimit
  /\ out = << >>
  /\ status = "active"
  /\ avail = << >>
  /\ srcState = "open"
  /\ sent = << >>
  /\ nchunks = 0
  /\ registered = FALSE
  /\ woken = TRUE

(* Readlines::limit (lines 329-332); read again by every poll. *)
SetLimit(n) ==
  /\ status = "active"
  /\ limit' = n
  /\ UNCHANGED <<encoding, err, buff, checkedBuff, out, status,
                 avail, srcState, sent, nchunks, registered, woken>>

(* Yield the line s, or fail with EncodingError if it does not decode. *)
Yield(s) ==
  IF Decodes(s)
  THEN out' = Append(out, s) /\ UNCHANGED status
  ELSE status' = "EncodingError" /\ UNCHANGED out

Fail(e) == status' = e /\ UNCHANGED out

(* Lines 355-357: the deferred construction error. *)
PollErr ==
  /\ err # None
  /\ Fail(err)
  /\ err' = None
  /\ UNCHANGED <<buff, checkedBuff, avail, registered, woken>>

(* The limit check of lines 370, 400 and 425: a line of n bytes, its '\n'  *)
(* included (ind + 1), is too long for the limit lim.                      *)
TooLong(n, lim) == n > lim

(* Lines 360-384: a '\n' in a buffer not yet scanned: the line up to it is *)
(* checked against the limit, split off and decoded.                       *)
PollBuffered ==
  LET i == FirstNL(buff) IN
  /\ err = None
  /\ ~checkedBuff
  /\ i # 0
  /\ \/ /\ TooLong(i, limit)
        /\ Fail("LimitOverflow")
        /\ UNCHANGED buff
     \/ /\ ~TooLong(i, limit)
        /\ buff' = SubSeq(buff, i + 1, Len(buff))
        /\ Yield(SubSeq(buff, 1, i))
  /\ UNCHANGED <<err, checkedBuff, avail, registered, woken>>

(* A plausible bug for the mutation runs: the rest of a chunk after its   *)
(* '\n' is dropped instead of buffered.                                    *)
PollChunkDroppingRest ==
  LET c == Head(avail)
      i == FirstNL(c)
  IN
  /\ err = None
  /\ checkedBuff \/ FirstNL(buff) = 0
  /\ avail # << >>
  /\ avail' = Tail(avail)
  /\ \/ /\ i # 0
        /\ TooLong(i, limit)
        /\ Fail("LimitOverflow")
        /\ UNCHANGED <<buff, woken>>
        /\ checkedBuff' = TRUE
     \/ /\ i # 0
        /\ ~TooLong(i, limit)
        /\ Decodes(SubSeq(c, 1, i))
        /\ out' = Append(out, SubSeq(c, 1, i))
        /\ buff' = buff
        /\ checkedBuff' = FALSE
        /\ UNCHANGED <<status, woken>>
     \/ /\ i # 0
        /\ ~TooLong(i, limit)
        /\ ~Decodes(SubSeq(c, 1, i))
        /\ Fail("EncodingError")
        /\ checkedBuff' = TRUE
        /\ UNCHANGED <<buff, woken>>
     \/ /\ i = 0
        /\ buff' = buff \o c
        /\ checkedBuff' = TRUE
        /\ woken' = FALSE
        /\ UNCHANGED <<out, status>>
  /\ UNCHANGED <<err, registered>>

(* Lines 385-420 with a chunk ready: the buffer holds no '\n' (it is       *)
(* marked checked); a chunk with a '\n' yields the chunk's bytes up to it  *)
(* and appends the rest to the buffer, a chunk without one is appended    *)
(* and the poll returns NotReady.                                          *)
PollChunk ==
  LET c == Head(avail)
      i == FirstNL(c)
  IN
  /\ err = None
  /\ checkedBuff \/ FirstNL(buff) = 0
  /\ avail # << >>
  /\ avail' = Tail(avail)
  /\ \/ /\ i # 0
        /\ TooLong(i, limit)
        /\ Fail("LimitOverflow")
        /\ UNCHANGED <<buff, woken>>
        /\ checkedBuff' = TRUE
     \/ /\ i # 0
        /\ ~TooLong(i, limit)
        /\ Decodes(SubSeq(c, 1, i))
        /\ out' = Append(out, SubSeq(c, 1, i))
        /\ buff' = buff \o SubSeq(c, i + 1, Len(c))
        /\ checkedBuff' = FALSE
        /\ UNCHANGED <<status, woken>>
     \/ /\ i # 0
        /\ ~TooLong(i, limit)
        /\ ~Decodes(SubSeq(c, 1, i))
        /\ Fail("EncodingError")
        /\ checkedBuff' = TRUE
        /\ UNCHANGED <<buff, woken>>
     \/ /\ i = 0
        /\ buff' = buff \o c
        /\ checkedBuff' = TRUE
        /\ woken' = FALSE
        /\ UNCHANGED <<out, status>>
  /\ UNCHANGED <<err, registered>>

(* Lines 385-388 and 421-442 with no chunk ready: NotReady registers the  *)
(* task with the payload; at the end of the stream an empty buffer ends    *)
(* the stream and a non-empty one is yielded as the last line unless it   *)
(* is longer than the limit (the buffer is cleared only after it decoded, *)
(* line 439); a stream error fails the stream.                             *)
PollNoChunk ==
  /\ err = None
  /\ checkedBuff \/ FirstNL(buff) = 0
  /\ avail = << >>
  /\ checkedBuff' = TRUE
  /\ \/ /\ srcState = "open"
        /\ registered' = TRUE
        /\ woken' = FALSE
        /\ UNCHANGED <<buff, out, status>>
     \/ /\ srcState = "end"
        /\ buff = << >>
        /\ status' = "ended"
        /\ UNCHANGED <<buff, out, registered, woken>>
     \/ /\ srcState = "end"
        /\ buff # << >>
        /\ TooLong(Len(buff), limit)
        /\ Fail("LimitOverflow")
        /\ UNCHANGED <<buff, registered, woken>>
     \/ /\ srcState = "end"
        /\ buff # << >>
        /\ ~TooLong(Len(buff), limit)
        /\ Yield(buff)
        /\ buff' = IF Decodes(buff) THEN << >> ELSE buff
        /\ UNCHANGED <<registered, woken>>
     \/ /\ srcState = "error"
        /\ Fail("SourceError")
        /\ UNCHANGED <<buff, registered, woken>>
  /\ UNCHANGED <<err, avail>>

(* Readlines::poll (lines 354-444). *)
Poll ==
  /\ status = "active"
  /\ woken
  /\ \/ PollErr
     \/ PollBuffered
     \/ PollChunk
     \/ PollNoChunk
  /\ UNCHANGED <<encoding, limit, srcState, sent, nchunks>>

-----------------------------------------------------------------------------
(* The payload stream: producing a chunk, ending and failing each wake a   *)
(* task registered with it.                                                *)
Wake ==
  /\ woken' = (woken \/ registered)
  /\ registered' = FALSE

Deliver(c) ==
  /\ status = "active"
  /\ srcState = "open"
  /\ nchunks < MaxChunks
  /\ avail' = Append(avail, c)
  /\ sent' = sent \o c
  /\ nchunks' = nchunks + 1
  /\ Wake
  /\ UNCHANGED <<encoding, err, buff, checkedBuff, limit, out, status,
                 srcState>>

Finish(s) ==
  /\ status = "active"
  /\ srcState = "open"
  /\ srcState' = s
  /\ Wake
  /\ UNCHANGED <<encoding, err, buff, checkedBuff, limit, out, status,
                 avail, sent, nchunks>>

(* The caller has stopped reading lines. *)
Stopped ==
  /\ status # "active"
  /\ UNCHANGED vars

Next ==
  \/ \E n \in Limits : SetLimit(n)
  \/ Poll
  \/ \E c \in Chunks : Deliver(c)
  \/ \E s \in {"end", "error"} : Finish(s)
  \/ Stopped

(* The executor polls a woken task; the transport eventually ends or      *)
(* fails the body.                                                         *)
Fairness ==
  /\ WF_vars(Poll)
  /\ WF_vars(\E s \in {"end", "error"} : Finish(s))

Spec == Init /\ [][Next]_vars /\ Fairness

-----------------------------------------------------------------------------
TypeOK ==
  /\ encoding \in Charsets
  /\ err \in {None} \cup EncodingErrors
  /\ buff \in Seq(Byte)
  /\ checkedBuff \in BOOLEAN
  /\ limit \in Nat
  /\ out \in Seq(Seq(Byte))
  /\ status \in Statuses
  /\ avail \in Seq(Chunks)
  /\ srcState \in {"open", "end", "error"}
  /\ sent \in Seq(Byte)
  /\ nchunks \in Nat
  /\ registered \in BOOLEAN
  /\ woken \in BOOLEAN

(* Every byte the payload produced is, exactly once, in a yielded line, in *)
(* the buffer or still in the payload, while the stream has not failed: no *)
(* byte is lost or duplicated across chunk boundaries.                     *)
BytesConserved ==
  status \in {"active", "ended"} =>
    ToBag(FlattenSeq(out) \o buff \o FlattenSeq(avail)) = ToBag(sent)

(* A line: non-empty, its only '\n' at its end. *)
IsLine(s) == Len(s) > 0 /\ \A j \in 1 .. Len(s) : (s[j] = NL) <=> (j = Len(s))

(* Every yielded line but the last ends in its only '\n'; a last line      *)
(* without one is the whole rest of a body that has ended (lines 422-440). *)
LinesWellFormed ==
  \A k \in 1 .. Len(out) :
    \/ IsLine(out[k])
    \/ /\ k = Len(out)
       /\ \A j \in 1 .. Len(out[k]) : out[k][j] # NL
       /\ srcState = "end" /\ buff = << >> /\ avail = << >>

(* spec.md section 8: concatenating the yielded lines, then what is still  *)
(* buffered or ready, gives back the bytes of the body in order.           *)
RoundTrip ==
  status \in {"active", "ended"} =>
    FlattenSeq(out) \o buff \o FlattenSeq(avail) = sent

(* The line stream always finishes: it ends or fails once the payload has *)
(* ended or failed.                                                        *)
Termination == <>(status # "active")
=============================================================================
