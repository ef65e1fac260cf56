----------------------------- MODULE UrlEncoded -----------------------------
(***************************************************************************)
(* The future UrlEncoded<T, U> of src/src/httpmessage.rs (lines 544-664): *)
(* it checks that the message declares a form body, collects the body      *)
(* with the same size-limited fold as MessageBody, then decodes it with    *)
(* the negotiated charset and deserializes it into the caller's type U.    *)
(*                                                                         *)
(* Executor, payload stream and ready bytes are modelled as in             *)
(* MessageBody.  The body's bytes are abstracted to what decoding and      *)
(* deserializing tell apart: Invalid stands for a byte (0xFF) that is not  *)
(* valid UTF-8 nor Shift_JIS but is a letter of ISO-8859-2; Malformed for  *)
(* a byte that makes serde_urlencoded reject the form for the type U.      *)
(***************************************************************************)
EXTENDS Naturals, Sequences, SequencesExt, Negotiator

CONSTANTS
  Byte,          \* the byte values a chunk is made of
  Invalid,       \* 0xFF
  Malformed,     \* a byte the deserializer of U rejects
  Chunks,        \* the chunks the payload stream may produce
  MaxChunks,     \* bound on the number of chunks one body is made of
  DefaultLimit,  \* 262_144 in the code (lines 586, 596)
  Limits,        \* the values a caller may pass to UrlEncoded::limit
  MaxDeclared,   \* largest Content-Length value that parses
  BadLength      \* Content-Length headers to_str() or parse rejects

ASSUME UrlEncodedAssumption ==
  /\ {Invalid, Malformed} \subseteq Byte
  /\ Chunks \subseteq Seq(Byte)
  /\ {MaxChunks, DefaultLimit, MaxDeclared} \subseteq Nat
  /\ Limits \subseteq Nat
  /\ BadLength \cap Nat = {}
  /\ None \notin BadLength \cup Nat

LengthHeaders == {None} \cup BadLength \cup (0 .. MaxDeclared)

Outcomes == {"pending", "ok", "ContentType", "UnknownLength", "Overflow",
             "Payload", "Parse"}

(* Rust's None is none of the results. *)
ASSUME NoneNotOutcome == None \notin Outcomes

VARIABLES
  ctHeader,    \* the Content-Type header of the message (read-only)
  clHeader,    \* the Content-Length header of the message (read-only)
  encoding,    \* field `encoding`
  limit,       \* field `limit`
  length,      \* field `length`: None or the declared length
  err,         \* field `err`: None or the deferred error
  fut,         \* field `fut`: None, or the fold's captured `limit`
  body,        \* the fold's accumulator (BytesMut)
  outcome,     \* what the last poll returned: "pending" or the final result
  demanded,    \* history: None before the first poll, else `limit` at it
  avail,       \* bytes the stream has ready and the fold has not taken
  srcState,    \* "open", "end" (Ready(None) after avail) or "error"
  sent,        \* history: every byte the stream has produced, in order
  nchunks,     \* number of chunks the stream has produced
  registered,  \* the task is registered with the stream for a wake-up
  woken        \* the executor will poll the task

vars == <<ctHeader, clHeader, encoding, limit, length, err, fut, body,
          outcome, demanded, avail, srcState, sent, nchunks, registered,
          woken>>

-----------------------------------------------------------------------------
(* A plausible bug for the mutation runs: the Content-Length header is    *)
(* checked before the content type.                                        *)
RejectionLengthFirst(ct, cl) ==
  IF cl \in BadLength THEN "UnknownLength"
  ELSE IF ToLowercase(ContentType(ct)) # FormUrlencoded THEN "ContentType"
  ELSE IF Encoding(ct) \in EncodingErrors THEN "ContentType"
  ELSE None

(* The checks of UrlEncoded::new (lines 561-581), in the code's order: the *)
(* lower-cased content type must be the form type, encoding() must         *)
(* succeed (its failure is also reported as ContentType), and a            *)
(* Content-Length header must be text that parses as usize.                *)
Rejection(ct, cl) ==
  IF ToLowercase(ContentType(ct)) # FormUrlencoded THEN "ContentType"
  ELSE IF Encoding(ct) \in EncodingErrors THEN "ContentType"
  ELSE IF cl \in BadLength THEN "UnknownLength"
  ELSE None

(* UrlEncoded::new (lines 560-591); a failed check builds Self::err       *)
(* (lines 593-602), which keeps the error for the first poll, with UTF-8   *)
(* and no length, and leaves the payload untaken.                          *)
Init ==
  /\ ctHeader \in ContentTypeHeaders
  /\ clHeader \in LengthHeaders
  /\ err = Rejection(ctHeader, clHeader)
  /\ encoding = IF err = None THEN Encoding(ctHeader) ELSE "utf8"
  /\ length = IF err = None THEN clHeader ELSE None
  /\ limit = DefaultLimit
  /\ fut = None /\ body = << >> /\ outcome = "pending" /\ demanded = None
  /\ avail = << >> /\ srcState = "open" /\ sent = << >> /\ nchunks = 0
  /\ registered = FALSE /\ woken = TRUE

(* UrlEncoded::limit (lines 605-608). *)
SetLimit(n) ==
  /\ outcome = "pending"
  /\ limit' = n
  /\ UNCHANGED <<ctHeader, clHeader, encoding, length, err, fut, body,
                 outcome, demanded, avail, srcState, sent, nchunks,
                 registered, woken>>

(* A plausible bug for the mutation runs: the strict path skips the       *)
(* decode and deserializes the raw bytes.                                  *)
ParsesWithoutDecode(enc, fast, s) == ~Contains(s, Malformed)

(* The outcomes of the pointer comparison of line 650, `encoding` against *)
(* UTF_8: true for the constant UTF_8 that encoding() and Self::err store  *)
(* (lines 83, 601); true or false, as the build has it, for the UTF-8 the *)
(* registry returns for an explicit label; false for any other charset.   *)
FastPath(enc) ==
  CASE enc = "utf8"      -> {TRUE}
    [] enc = "utf8label" -> BOOLEAN
    [] OTHER             -> {FALSE}

(* The and_then of lines 649-659.  The fast path hands the bytes to        *)
(* serde_urlencoded::from_bytes, which decodes them lossily: no byte makes *)
(* it fail by itself.  The strict path first decodes with                  *)
(* DecoderTrap::Strict, which fails on Invalid in UTF-8 and Shift_JIS and  *)
(* maps it in ISO-8859-2.  Either way the form must then deserialize.      *)
Parses(enc, fast, s) ==
  /\ ~fast /\ enc \in {"utf8label", "multi"} => ~Contains(s, Invalid)
  /\ ~Contains(s, Malformed)

(* A plausible bug for the mutation runs: the overflow check forgets the  *)
(* new chunk.                                                              *)
PollFoldIgnoringChunk(lim, acc) ==
  LET total == acc \o avail IN
  /\ avail' = << >>
  /\ \/ Len(acc) > lim /\ outcome' = "Overflow" /\ UNCHANGED <<body, registered>>
     \/ /\ Len(acc) <= lim
        /\ body' = total
        /\ \/ /\ srcState = "end" /\ UNCHANGED registered
              /\ \E fast \in FastPath(encoding) :
                   outcome' = IF Parses(encoding, fast, total) THEN "ok" ELSE "Parse"
           \/ srcState = "error" /\ outcome' = "Payload" /\ UNCHANGED registered
           \/ srcState = "open" /\ outcome' = "pending" /\ registered' = TRUE

(* A plausible bug for the mutation runs: NotReady without the stream     *)
(* having registered the task.                                             *)
PollFoldUnregistered(lim, acc) ==
  LET total == acc \o avail IN
  /\ avail' = << >>
  /\ \/ Len(total) > lim /\ outcome' = "Overflow" /\ UNCHANGED <<body, registered>>
     \/ /\ Len(total) <= lim
        /\ body' = total
        /\ \/ /\ srcState = "end" /\ UNCHANGED registered
              /\ \E fast \in FastPath(encoding) :
                   outcome' = IF Parses(encoding, fast, total) THEN "ok" ELSE "Parse"
           \/ srcState = "error" /\ outcome' = "Payload" /\ UNCHANGED registered
           \/ srcState = "open" /\ outcome' = "pending" /\ UNCHANGED registered

(* One poll of the fold and its and_then (lines 639-660): the fold takes   *)
(* every ready chunk, failing with Overflow when the accumulator would     *)
(* pass `lim` (line 642); at the end of the stream the body is decoded and *)
(* deserialized; a stream error becomes UrlencodedError::Payload           *)
(* (from_err, line 640); otherwise NotReady after registering the task.    *)
PollFold(lim, acc) ==
  LET total == acc \o avail IN
  /\ avail' = << >>
  /\ \/ Len(total) > lim /\ outcome' = "Overflow" /\ UNCHANGED <<body, registered>>
     \/ /\ Len(total) <= lim
        /\ body' = total
        /\ \/ /\ srcState = "end" /\ UNCHANGED registered
              /\ \E fast \in FastPath(encoding) :
                   outcome' = IF Parses(encoding, fast, total) THEN "ok" ELSE "Parse"
           \/ srcState = "error" /\ outcome' = "Payload" /\ UNCHANGED registered
           \/ srcState = "open" /\ outcome' = "pending" /\ registered' = TRUE

(* Lines 631-635: a declared length larger than the limit fails at once. *)
DeclaredTooLong(len, lim) == len # None /\ len > lim

(* UrlEncoded::poll (lines 620-663): a built future is polled; otherwise   *)
(* the deferred error is returned, or the declared length is taken and     *)
(* checked, or the fold is built with the current limit and polled.        *)
Poll ==
  /\ outcome = "pending"
  /\ woken
  /\ woken' = FALSE
  /\ demanded' = IF demanded = None THEN limit ELSE demanded
  /\ UNCHANGED <<ctHeader, clHeader, encoding, limit, srcState, sent, nchunks>>
  /\ \/ /\ fut # None
        /\ PollFold(fut, body)
        /\ UNCHANGED <<length, err, fut>>
     \/ /\ fut = None
        /\ err # None
        /\ outcome' = err
        /\ err' = None
        /\ UNCHANGED <<length, fut, body, registered, avail>>
     \/ /\ fut = None
        /\ err = None
        /\ DeclaredTooLong(length, limit)
        /\ outcome' = "Overflow"
        /\ length' = None
        /\ UNCHANGED <<err, fut, body, registered, avail>>
     \/ /\ fut = None
        /\ err = None
        /\ ~DeclaredTooLong(length, limit)
        /\ length' = None
        /\ fut' = limit
        /\ PollFold(limit, body)
        /\ UNCHANGED err

-----------------------------------------------------------------------------
(* The payload stream, as in MessageBody.  A future built by Self::err     *)
(* never polls it.                                                         *)
Wake ==
  /\ woken' = (woken \/ registered)
  /\ registered' = FALSE

Deliver(c) ==
  /\ outcome = "pending"
  /\ srcState = "open"
  /\ nchunks < MaxChunks
  /\ avail' = avail \o c
  /\ sent' = sent \o c
  /\ nchunks' = nchunks + 1
  /\ Wake
  /\ UNCHANGED <<ctHeader, clHeader, encoding, limit, length, err, fut, body,
                 outcome, demanded, srcState>>

Finish(s) ==
  /\ outcome = "pending"
  /\ srcState = "open"
  /\ srcState' = s
  /\ Wake
  /\ UNCHANGED <<ctHeader, clHeader, encoding, limit, length, err, fut, body,
                 outcome, demanded, avail, sent, nchunks>>

(* The caller has its result and drops the future. *)
Resolved ==
  /\ outcome # "pending"
  /\ UNCHANGED vars

Next ==
  \/ \E n \in Limits : SetLimit(n)
  \/ Poll
  \/ \E c \in Chunks : Deliver(c)
  \/ \E s \in {"end", "error"} : Finish(s)
  \/ Resolved

(* The executor polls a woken task; the transport eventually ends or      *)
(* fails the body.                                                         *)
Fairness ==
  /\ WF_vars(Poll)
  /\ WF_vars(\E s \in {"end", "error"} : Finish(s))

Spec == Init /\ [][Next]_vars /\ Fairness

-----------------------------------------------------------------------------
TypeOK ==
  /\ ctHeader \in ContentTypeHeaders
  /\ clHeader \in LengthHeaders
  /\ encoding \in Charsets
  /\ limit \in Nat
  /\ length \in {None} \cup Nat
  /\ err \in {None, "ContentType", "UnknownLength"}
  /\ fut \in {None} \cup Nat
  /\ body \in Seq(Byte)
  /\ outcome \in Outcomes
  /\ demanded \in {None} \cup Nat
  /\ avail \in Seq(Byte)
  /\ srcState \in {"open", "end", "error"}
  /\ sent \in Seq(Byte)
  /\ nchunks \in Nat
  /\ registered \in BOOLEAN
  /\ woken \in BOOLEAN

(* The form body buffered by the fold never exceeds the limit it was       *)
(* built with (line 642), whatever the declared length.                    *)
BufferBound ==
  fut # None => Len(body) <= fut

(* A header the form decoder accepts, by spec.md 4.4 and stated on the     *)
(* raw header: the form media type in any case, text that parses as a MIME *)
(* type, and no charset or one the registry knows.                         *)
AcceptedType(ct) ==
  /\ ct \notin {None, NonText}
  /\ ToLowercase(ct.token) = FormUrlencoded
  /\ ct.wellFormed
  /\ ct.charset \in {"absent", "utf-8", "iso-8859-2", "shift_jis"}

(* The header declares Shift_JIS, a charset whose strict decode can fail  *)
(* and that always takes the strict path.                                  *)
ShiftJis(ct) == ct \notin {None, NonText} /\ ct.charset = "shift_jis"

(* The header names a charset whose strict decode can fail: Shift_JIS, or *)
(* UTF-8 by label, whose registry value may miss the fast path (line 650). *)
StrictLabel(ct) ==
  ct \notin {None, NonText} /\ ct.charset \in {"shift_jis", "utf-8"}

(* Which error a request with several faults gets: the content type is     *)
(* judged before the Content-Length header, a rejected request never reads *)
(* the body, and Overflow and Parse are deserved by the declared length or *)
(* by the bytes the stream produced.                                       *)
ErrorPrecedence ==
  outcome # "pending" =>
    /\ (outcome = "ContentType") <=> ~AcceptedType(ctHeader)
    /\ (outcome = "UnknownLength") <=>
          AcceptedType(ctHeader) /\ clHeader \in BadLength
    /\ outcome \in {"ContentType", "UnknownLength"} => fut = None
    /\ outcome = "Overflow" =>
         \/ clHeader \in Nat /\ clHeader > demanded
         \/ Len(sent) > demanded
    /\ outcome = "Parse" =>
         \/ Contains(sent, Malformed)
         \/ StrictLabel(ctHeader) /\ Contains(sent, Invalid)

(* A decoded form is exactly the body the stream produced after it ended,  *)
(* within the limit of the first poll, and it decodes and deserializes.    *)
ResultFaithful ==
  outcome = "ok" =>
    /\ srcState = "end"
    /\ body = sent
    /\ Len(body) <= demanded
    /\ ~Contains(body, Malformed)
    /\ ShiftJis(ctHeader) => ~Contains(body, Invalid)

(* spec.md 4.4: the UTF-8 path decodes strictly, so a body that is not     *)
(* UTF-8 never yields a value; stated for the UTF-8 of a header with no    *)
(* charset parameter, the constant UTF_8 of line 83.                       *)
StrictUtf8 ==
  outcome = "ok" /\ encoding = "utf8" => ~Contains(body, Invalid)

(* The form future always resolves. *)
Termination == <>(outcome # "pending")
=============================================================================
