# Formal models of the HTTP message body layer (`src/src/httpmessage.rs`)

This directory holds TLA+ models of the part of actix-http that turns a
message's headers and payload stream into something an application can use:
collecting the whole body up to a size limit (`MessageBody`), splitting it
into text lines (`Readlines`), decoding it as a form (`UrlEncoded`), the
header negotiation they rely on (`Negotiator`) and the cookie cache
(`CookieCache`). It also has an abstract specification of what a body
collector promises (`BodyCollection`), the TLC configurations that
model-check all of these, and TLAPS proofs about `MessageBody`, including
that it implements the abstract collector.

## 1. The system and its parts

`httpmessage.rs` defines the `HttpMessage` trait and three consumers of the
payload:

| Part | Code | State | Operations |
|---|---|---|---|
| Negotiator | `content_type`, `encoding`, `mime_type`, `chunked` (57-113) | none (pure functions of the headers) | — |
| CookieCache | `cookies`, `cookie` (115-146) | the jar cached in the extensions | populate once, look up |
| BodyCollector | `MessageBody` (447-542) | `limit`, `length`, `err`, `fut` (the fold: accumulator and captured limit), the payload stream | `new`, `limit`, `poll` |
| LineDecoder | `Readlines` (296-445) | `buff`, `checked_buff`, `limit`, `encoding`, `err`, the payload stream | `new`, `limit`, `poll` |
| FormDecoder | `UrlEncoded` (544-664) | `limit`, `length`, `encoding`, `err`, `fut` | `new`, `limit`, `poll` |
| ChunkSource | `Payload` (crate::payload, not in this snapshot) | the chunks that are ready, end or error, the registered waker | produce a chunk, end, fail, wake |

How the parts interact. A consumer claims the payload once (`take_payload`)
and is then polled by a futures 0.1 executor. The executor polls a task only
when it has been woken. A stream that returns `NotReady` registers the
current task, and the task is woken when a chunk arrives or the stream ends.
Each consumer reports its own deferred errors on the first poll: a bad
`Content-Length` or an unknown charset found at construction time.

Behaviours that make this code hard to get right:
- when the size checks run relative to `limit()` calls;
- chunks that split a line;
- the boundary `ind + 1 > limit`;
- whether a `NotReady` is backed by a registered wake-up.

## 2. Modules

| Module | Models | Kind |
|---|---|---|
| `MessageBody` | `MessageBody::new`, `limit`, `poll` and the payload stream | component |
| `MC_MessageBody` | a small instance of `MessageBody` | TLC instance |
| `MessageBody_proofs` | TLAPS proofs of `MessageBody`'s safety invariants | proofs |
| `BodyCollection` | what a body collector promises (spec.md 4.3), with no fold and no executor | abstract specification |
| `MessageBody_refinement` | TLAPS proof that `MessageBody` implements `BodyCollection` | proofs |
| `Readlines` | `Readlines::new`, `limit`, `err`, `poll` and the payload stream | component |
| `MC_Readlines` | a small instance of `Readlines` | TLC instance |
| `Negotiator` | `content_type`, `encoding` and `mime_type` as operators over abstract headers | pure functions |
| `UrlEncoded` | `UrlEncoded::new`, `err`, `limit`, `poll` and the payload stream; EXTENDS `Negotiator` | component |
| `MC_UrlEncoded` | a small instance of `UrlEncoded` | TLC instance |
| `CookieCache` | `cookies` and `cookie`, with the caller replacing headers between calls | component |
| `MC_CookieCache` | a small instance of `CookieCache` | TLC instance |
| `Readlines_proofs` | TLAPS proofs of `Readlines`' type, line shape and line limit | proofs |
| `Readlines_bytes` | TLAPS proof that `Readlines` conserves the payload's bytes | proofs |
| `UrlEncoded_proofs` | TLAPS proofs of `UrlEncoded`'s safety invariants | proofs |
| `CookieCache_proofs` | TLAPS proofs of `CookieCache`'s invariants | proofs |
| `LeastElement` | lemma: a non-empty set of naturals has a least element | proof library |
| `RecursiveFcn` | theorem: a function defined by recursion over an interval stays in a set its steps preserve | proof library |

### MessageBody

**State.** The model keeps the code's own fields:
- `limit`;
- `length`, the parsed `Content-Length` or `None`;
- `err`, the deferred `UnknownLength`;
- `fut`, which is `None` until the fold is built, and after that the limit the fold captured;
- `body`, the fold's accumulator.

The `Content-Length` header `clHeader` ranges over `None`, the numbers up to
`MaxDeclared`, and `BadLength`: model values for a header that is not text
or does not parse. `outcome` is the future's result. The history variable
`demanded` is the limit at the first poll.

**The payload stream** is the environment:
- `avail` holds the bytes that are ready;
- `srcState` is open, end or error;
- `sent` is everything the stream ever produced;
- `registered` and `woken` model the futures 0.1 notification.

`Deliver` and `Finish` wake a task that registered.

**Ready chunks as bytes.** The fold fails when `body.len() + chunk.len() > limit`
(line 531). Lengths only add up, so the fold fails on some ready chunk exactly
when the accumulator and all ready bytes together exceed the limit. For that
reason the ready chunks are kept as one byte sequence.

**Actions.**
- `Init` is `MessageBody::new` (462-499), including `Self::err` for a bad header.
- `SetLimit` is `limit()`. It is allowed only while the future is pending, so it
  can also happen after the first poll: the builder returns `self` and the
  future can be rebuilt.
- `Poll` is `poll` (510-541). It has four disjuncts:
  - running fold;
  - deferred error;
  - declared length over the limit;
  - building the fold and polling it at once.
- `PollFold` models one poll of `fold`. It consumes every ready chunk. It then:
  - overflows;
  - or completes with the stream's end or error;
  - or registers and returns `NotReady`.

### Readlines

**State.** `Readlines` keeps the code's fields: `buff`, `checkedBuff`, `limit`,
`encoding` and `err`. The encoding is abstracted to two values:
- `"utf8"`: the byte `Invalid` does not decode;
- `"other"`: everything decodes.

**Initial state.** `Init` chooses between the two. It can instead choose an
`encoding()` error, which becomes the deferred `err`.

**Output.** The yielded lines are the sequence `out`. `status` is `"active"`
until the stream ends, fails, or reports an error. The caller stops at the
first error, as `for_each` and `collect` do.

**The payload stream.** Ready chunks are a queue `avail`, because chunk
boundaries matter here.

**`Poll` has four cases, in the code's order:**
- `PollErr` (355-357): the deferred error.
- `PollBuffered` (359-386): the residual buffer holds a newline that has not
  been checked yet.
- `PollChunk` (387-420): a ready chunk. Its sub-cases are a newline over the
  limit, a line, an encoding error, and no newline. With no newline, poll
  returns `NotReady` without registering.
- `PollNoChunk` (421-443): the payload stream returns `NotReady`, ends, or fails.
  - At end of stream an empty buffer ends the stream.
  - A buffer over the limit is an overflow.
  - Otherwise the buffer is the last line. It is cleared only after it
    decodes (line 439); a decode failure returns before that and keeps it.

`Yield` does the decode and the push. `Fail` reports an error.

### Negotiator

A `Content-Type` header is abstracted to what the functions tell apart:
`None` (absent), `NonText` (`to_str` fails), or a record of its media-type
token as written, whether the whole value parses as a MIME type, and its
charset label (or `"absent"`). Charsets are abstracted to what decoding tells
apart: UTF-8, a single-byte charset that maps every byte (ISO-8859-2) and a
multi-byte one whose strict decode can fail (Shift_JIS); a fourth label is
unknown to the registry. UTF-8 has two values:
- `"utf8"` is the constant `UTF_8` that `encoding()` returns when there is no
  charset parameter (line 83);
- `"utf8label"` is what the registry returns for the label `utf-8`.

The code later picks its decoding path by comparing trait-object pointers
with `UTF_8` (lines 373, 403, 429, 650). Rust does not promise that the
registry's UTF-8 compares equal. In `Readlines` this makes no difference,
since both paths decode strictly as UTF-8, so that module keeps a single
UTF-8 value.
- `ContentType` is `content_type()` (57-66): the token, or `""`.
- `Encoding` is `encoding()` (71-85) with `mime_type()` (88-100) inlined: a
  header that is not text or does not parse is a `ParseError`; no header or
  no charset is UTF-8; a label is looked up in `Registry`
  (`encoding_from_whatwg_label`, line 74).
- `ToLowercase` is `str::to_lowercase` on the tokens of the instance.

`chunked()` is not modelled: nothing in `src/` calls it.

### UrlEncoded

**State.** The fields of `MessageBody` plus `encoding`, and the read-only
headers `ctHeader` and `clHeader`. The payload stream, the executor and the
ready bytes are modelled as in `MessageBody`. Body bytes are abstracted to a
plain byte, `Invalid` (0xFF: not UTF-8, not Shift_JIS, a letter of
ISO-8859-2) and `Malformed` (a byte that makes `serde_urlencoded` reject the
form for the caller's type).

**Actions.**
- `Init` is `UrlEncoded::new` (560-591) with `Self::err` (593-602).
  `Rejection` gives its checks in the code's order: the lower-cased content
  type must be the form type, `encoding()` must succeed (its failure is also
  reported as `ContentType`), and `Content-Length` must parse. A rejected
  future keeps UTF-8 and no length, and never takes the payload.
- `SetLimit` is `limit()` (605-608).
- `Poll` is `poll` (620-663), with the same four disjuncts as `MessageBody`.
- `PollFold` is the fold and its `and_then` (639-660). A stream error becomes
  `Payload` (`from_err`). At the end of the stream `Parses` decides the
  result:
  - the fast path hands the bytes to `serde_urlencoded::from_bytes`, which
    decodes lossily;
  - the strict path first decodes with `DecoderTrap::Strict`, which fails on
    `Invalid` for UTF-8 and Shift_JIS.

  `FastPath` gives the outcomes of the pointer comparison of line 650. It is
  true for the constant `UTF_8`, false for the other charsets, and either for
  the registry's UTF-8, since the build decides.

### CookieCache

A `Cookie` header is `NonUtf8` or the sequence of its `;`-separated, trimmed
segments; a segment is `Empty`, `Bad` (`Cookie::parse_encoded` fails) or a
cookie record. `headers` is the list of headers, `cache` the jar stored in
the extensions (or `None`), `answer` and `found` what the last calls
returned. The history variable `snapshot` is the header list at the time the
jar was cached.
- `Items` flattens the headers into the order the loop of lines 120-128 meets
  them; `FirstError` is the first error, `Jar` the non-empty segments. `Jar`
  is written as the loop itself, a function over `0 .. Len(Items(hs))` that
  pushes each non-empty segment, so that the proofs can unfold it.
- `Cookies` is `cookies()` (117-134): with no jar cached the first error is
  returned and nothing is cached, else the jar is inserted; a cached jar is
  returned as it is.
- `CallCookie(n)` is `cookie(name)` (137-146): `cookies()` with its caching,
  then the first cookie of that name (`FirstNamed`), `None` on an error.
- `MutateHeaders` stands for the caller replacing the headers
  (`Request::headers_mut`, not under `src/`), at most `MaxMutations` times.

### BodyCollection and the refinement

`BodyCollection` says what spec.md 4.3 promises of a body collector, with no
fold, no deferred error and no executor. The stream produces bytes and then
ends or fails. The caller may change the limit until it first demands the
result. The collector then resolves once:
- to the whole body, if the stream ended, no acceptable declared length
  exceeds the limit and the body fits;
- or to the error the headers or the bytes deserve.

`MessageBody!Abstract` instantiates it with the refinement mapping:
- the limit in force is `demanded`, or `limit` before the first poll;
- the caller has demanded once a poll happened;
- the result is `body` once the future resolved to `ok`.

`ImplementsBodyCollection` is `Abstract!Spec`. The `message_body` run checks
it, and `MessageBody_refinement` proves it.

## 3. Runs

### `message_body` (pass)

- **Configuration:** `MC_MessageBody.cfg`, 25 470 distinct states.
- **Instance:**
  - bytes: {b1, b2};
  - chunks: all chunks of length ≤ 2 over those bytes;
  - up to 3 chunks;
  - default limit 3;
  - `limit()` values {1, 4};
  - declared lengths 0..4 and two bad headers.
- **What it checks:**
  - `TypeOK`.
  - `BufferBound`: the accumulator never exceeds the limit the fold captured.
  - `ResultFaithful`: an `ok` result is exactly the bytes the stream produced,
    the stream has ended, and the result is within the limit of the first poll.
  - `OutcomeJustified`, which has three parts:
    - every error is deserved: UnknownLength only for a bad header and before
      any fold; Overflow only if the declared length or the real body exceeds
      the first-poll limit; SourceError only from a failed stream;
    - a bad header always yields UnknownLength;
    - limit changes after the first poll have no effect.
  - `Termination`: the future always resolves.
  - `ImplementsBodyCollection`: every step of the future, the caller and the
    stream is a step of `BodyCollection` under the refinement mapping, or
    leaves the mapped state unchanged.

### `readlines` (pass)

- **Configuration:** `MC_Readlines.cfg`, 35 718 distinct states.
- **Instance:**
  - bytes: {a, nl, x}, where x is invalid UTF-8;
  - six chunks that put the newline at the start, in the middle and at the end;
  - up to 3 chunks;
  - default limit 2;
  - `limit()` values {1, 3}.
- **What it checks:**
  - `BytesConserved`: as a multiset, the lines, the buffer and the ready chunks
    hold exactly the bytes the stream produced.
  - `LinesWellFormed`: every yielded line ends with its only newline, except a
    last line emitted at end of stream.

  The limit check `ind + 1 > limit` (lines 370, 400, 425) is not a property
  of its own, because it would only restate the guard. Its boundary case (a
  line of exactly `limit` bytes) happens in this run.
- **Deadlock:** not checked, because the stall below is a real state with no
  successor.

### `readlines_roundtrip` (violation, RoundTrip)

This run checks spec.md §8: concatenating the yielded lines reproduces the body.
TLC finds a short counterexample:
1. Chunk "\na" yields "\n" and leaves "a" in the buffer.
2. Chunk "\n" then yields "\n" alone.
3. The "a" is still buffered, so it comes out after the line that followed it.

Lines 404-416 build the line from the new chunk's prefix only
(`chunk.split_to(ind+1)`), and append the rest of the chunk after the old buffer.
This is **finding 1 (code bug)**. The unit test `test_readlines` feeds the whole
body as one chunk and never reaches it.

### `readlines_stall` (violation, Termination)

1. Chunk "a" is ready, and then the stream fails.
2. `poll` takes "a", finds no newline and returns `NotReady` (line 419).
3. The payload returned `Ready`, so no task was registered, and nothing ever
   polls the stream again. The stream never reports the error or any line.

This is **finding 2 (code bug)**. In a real executor it hangs the connection's
task.

### `urlencoded` (pass)

- **Configuration:** `MC_UrlEncoded.cfg`, 121 588 distinct states.
- **Instance:**
  - `Content-Type`: absent, not text, and every record over three tokens
    (the form type, the same in mixed case, `text/plain`), well formed or
    not, with no charset or one of four labels;
  - `Content-Length`: absent, 0..3, and two bad headers;
  - bytes {k, x, m}, where x is `Invalid` and m is `Malformed`;
  - chunks ⟨k⟩, ⟨x⟩, ⟨m⟩, ⟨k, k⟩, up to 2 of them;
  - default limit 2, `limit()` values {1, 3}.
- **What it checks:**
  - `BufferBound`: the form buffer never exceeds the limit the fold captured.
  - `ErrorPrecedence`: the error a request with several faults gets follows the
    code's check order, stated on the raw headers:
    - `ContentType` exactly when the header is not an accepted form type,
      whatever the `Content-Length`;
    - `UnknownLength` exactly for an accepted type with a bad length;
    - neither of them ever reads the body;
    - `Overflow` is deserved by the declared length or by the bytes the
      stream produced;
    - `Parse` is deserved by a byte the deserializer rejects, or by an
      invalid byte under a declared charset whose strict decode can fail
      (Shift_JIS, or the label `utf-8` when it misses the fast path).
  - `ResultFaithful`: a decoded form is exactly the body, after the stream
    ended and within the first-poll limit, free of bytes the deserializer
    rejects, and decodable in Shift_JIS when that charset was declared.
  - `Termination`: the future always resolves.

### `urlencoded_strict_utf8` (violation, StrictUtf8)

spec.md 4.4 says the UTF-8 path decodes strictly and fails with `Parse` on
invalid sequences. `StrictUtf8` states this for the constant `UTF_8`, that is,
for a header with no charset parameter. There the pointer comparison of line
650 holds, because both sides are the same constant. An explicit `utf-8` label
is left out: whether it takes the fast path is up to the build. TLC's
counterexample:
1. The header is the form type with no charset, so the encoding is `UTF_8`.
2. The stream produces the single byte 0xFF and ends.
3. The first poll resolves to `ok`.

The UTF-8 path (line 651) hands the raw bytes to
`serde_urlencoded::from_bytes`, which decodes percent-decoded bytes lossily.
Only the strict path goes through `DecoderTrap::Strict` (line 655). This is
**finding 3 (spec/code divergence)**: invalid UTF-8 is accepted for the
default charset. The unit tests send only ASCII forms.

### `cookie_cache` (pass)

- **Configuration:** `MC_CookieCache.cfg`, 2 188 distinct states.
- **Instance:**
  - names n1, n2 and values "v1", "v2";
  - five header values: not UTF-8, one cookie, two cookies, an empty and a
    bad segment, and a cookie followed by an empty segment;
  - header lists of up to two headers, so n1 can appear twice;
  - up to two header replacements.
- **What it checks:**
  - `JarFromFirstSuccess`: the cached jar is the parse of the headers as
    they were at the first successful call. It is never re-derived after the
    headers change, a failed call caches nothing, and every successful call
    returns that jar.
  - `CookieIsFirstMatch`: `cookie(name)` returns the first cookie of that
    name in that jar, and nothing after a failed parse.
- **Deadlock:** checked. A call is always possible.

### Bounds

The instances are small, but each reaches every branch:
- a declared length below, at and above each limit;
- a body below, at and above each limit;
- limit changes before and after the first poll;
- newlines at every position of a chunk;
- lines spanning chunks;
- invalid bytes;
- all three ends of the stream;
- for forms, every rejection reason alone and combined with the others;
- a body that overflows, one that does not decode, and one that does not
  deserialize;
- for cookies, a failure in the second header after a good first one;
- a repeated name;
- headers replaced before and after the first success.

Every action and every disjunct of both `Next` relations fires in the passing
runs. Three chunks are enough for a line split over two chunks, followed by a
third.

### Mutants

Each property has a mutant of the code that TLC kills under the run's
configuration.

| Mutant | Bug it models | Property it breaks |
|---|---|---|
| `PollFoldIgnoringChunk` | the check forgets the new chunk | BufferBound |
| `PollFoldPrepending` | the chunk is put before the buffer | ResultFaithful |
| `DeclaredAtLimit` | `>=` instead of `>` | OutcomeJustified |
| `PollFoldUnregistered` | `NotReady` without registering | Termination |
| `InitOverflowForBadLength` | wrong deferred error | TypeOK |
| `PollChunkDroppingRest` | the rest of the chunk is dropped | BytesConserved |
| `LastNL` | `rposition` instead of `position` | LinesWellFormed |
| `PollFoldErrorFirst` | a failed stream reported before the ready bytes are counted | ImplementsBodyCollection |
| `PollFoldIgnoringChunk` (UrlEncoded) | the check forgets the new chunk | BufferBound |
| `RejectionLengthFirst` | `Content-Length` checked before the content type | ErrorPrecedence |
| `ParsesWithoutDecode` | no strict decode on the strict path | ResultFaithful |
| `PollFoldUnregistered` (UrlEncoded) | `NotReady` without registering | Termination |
| `CookiesUncached` | the cache never consulted | JarFromFirstSuccess |
| `LastNamed` | the last match instead of the first | CookieIsFirstMatch |

## 4. Fairness

The code justifies two fairness assumptions:
- `WF(Poll)`: the executor polls a woken task.
- Weak fairness of the stream's end or failure: the transport eventually
  finishes or fails the body, by a disconnect or timeout outside this file.

No fairness is assumed for `Deliver`, because a peer may send nothing more.
Under these assumptions MessageBody and UrlEncoded terminate, and Readlines
does not. CookieCache has no fairness: its calls are the caller's choice.

## 5. What is proved

The type invariants of `Readlines`, `UrlEncoded` and `CookieCache` are not
checked by their runs: no plausible bug in the code breaks them, since Rust's
types already rule out what they forbid. They are proved below as part of the
inductive invariants that need them.

`MessageBody_proofs` proves with TLAPS, for every value of the constants:
- `TypeCorrect`: `Spec => []TypeOK`;
- `BufferBounded`: `Spec => []BufferBound`;
- `ResultIsBody`: `Spec => []ResultFaithful`.

Each theorem is proved from one inductive invariant, `IInv`. `BufferBound` and
`ResultFaithful` are not inductive on their own, so `IInv` adds four facts:
- while pending, `body \o avail = sent`, meaning no byte is lost between the
  stream and the fold;
- before the fold exists, the accumulator is empty;
- before the fold exists, no poll has happened;
- the fold's captured limit equals the first-poll limit `demanded`.

The last fact is what lets `ResultFaithful` speak about the first-poll limit,
even though `limit()` may change `limit` later.

`IInv` was model-checked as an invariant before it was proved. Its proof
follows this argument:
- `InitIInv` shows the initial states satisfy `IInv`.
- `NextIInv` shows every step preserves it, with one case per action and one
  per `Poll` disjunct.
- `PollFoldIInv` is one lemma shared by both places that poll the fold.

`MessageBody_refinement` proves `Refinement`:
`Spec => ImplementsBodyCollection`. The proof follows the TLAPS layout for
refinement:
- `InitRefines`: initial states map to initial states;
- `NextRefines`: every step maps to a step of `BodyCollection` or a stutter;
- the theorem combines them with the invariant by PTL.

`IInv` is not enough for the steps. A step resolving to `UnknownLength`
must know the header is bad, and one resolving to `ok` must know the
declared length was acceptable. So `RInv` adds `HeaderInv`:
- before the first poll, a deferred error is there exactly for a bad header,
  and otherwise `length` is the header;
- once the fold exists, the header was acceptable and declared no more than
  the fold's limit.

`PollFoldRefines` is the lemma shared by both places that poll the fold.
It shows one poll resolves as the abstract collector would, takes the first
demand, or changes nothing the mapping sees.

`MessageBody_refinement` also proves `ErrorsJustified`:
`Spec => []OutcomeJustified`, meaning every error is deserved. It uses the
same `RInv`, because an error is justified by the header facts of
`HeaderInv` and by `body \o avail = sent`. `PollFoldJustified` is the lemma
shared by both places that poll the fold.

`UrlEncoded_proofs` proves four theorems:
- `FormTypeCorrect`: `Spec => []TypeOK`;
- `FormBufferBounded`: `Spec => []BufferBound`;
- `FormIsBody`: `Spec => []ResultFaithful`;
- `FormErrorPrecedence`: `Spec => []ErrorPrecedence`.

They rest on the inductive invariant `UInv`, which adds two facts to the
properties:
- `Collected`: while pending, the buffer and the bytes in flight are exactly
  what the stream sent, as in `MessageBody`.
- `Checked`:
  - the encoding is the one `Encoding` derives from an accepted
    Content-Type;
  - before the fold exists, the deferred error is the header's rejection;
  - once the fold exists, the headers were accepted and did not declare more
    than its limit.

Without `Checked`, a step that resolves could not tell that the headers
passed their checks.

`Readlines_proofs` proves two theorems:
- `LinesTypeCorrect`: `Spec => []TypeOK`;
- `LinesAreLines`: `Spec => []LinesWellFormed`.

Their inductive invariant `LInv` adds one fact to the type: once the buffer
has been checked, it holds no newline (`FirstNL(buff) = 0`). This is what
lets a chunk's first line be measured against the chunk alone.

`Readlines_bytes` proves `BytesKept`: `Spec => []BytesConserved`. While the
stream has not failed, the yielded lines, the buffer and the queued chunks
hold, as a multiset, exactly the bytes the payload produced.

The code does not keep the order of the bytes (see `readlines_roundtrip`),
so the proof counts them. `Occ(s, b)` is the number of positions of `s`
that hold `b`; it is the value `ToBag(s)[b]` when `b` occurs in `s`. The
inductive invariant is `BInv == LInv /\ Conserved`. `Conserved` says that
for every byte value `b`, the counts in the flattened lines, the buffer and
the flattened queue add up to the count in `sent`. TLC checked `BInv` on
the `MC_Readlines` instance before it was proved.

One step lemma per action shows that it keeps the sum:
- `DeliverConserved`: a delivered chunk is counted once in the queue and
  once in `sent`;
- `PollBufferedConserved`, `PollChunkConserved` and `PollNoChunkConserved`:
  a poll moves bytes between the queue, the buffer and the lines and
  changes no total;
- `FailedConserved`: a step into a failed state has nothing to keep.

`ConservedBag` turns equal counts into equal bags (`OccBag`). The step
lemmas rest on lemmas about the operators:
- `OccConcat`: counts add over `\o`. It is proved with a bijection that
  shifts the positions of the second sequence, `FS_Bijection` and
  `FS_Union`.
- `OccSplit`, `OccEmpty` and `OccRange`.
- `FlattenAppend` and `FlattenCons`: how `FlattenSeq` treats an appended
  line and the queue's head. They are proved from `RecursiveFcnUnfolds`,
  each by a least counterexample.

`CookieCache_proofs` proves three theorems:
- `CookieTypeCorrect`: `Spec => []TypeOK`;
- `JarIsFirstParse`: `Spec => []JarFromFirstSuccess`;
- `CookieIsFirst`: `Spec => []CookieIsFirstMatch`.

The three properties together are inductive. `CookiesStep` is the lemma
shared by `cookies()` and `cookie(name)`. It rests on three facts about the
operators:
- `JarTyped`: headers with no error give a vector of cookies;
- `NoErrorFacts`: `FirstError = 0` means no segment is `NonUtf8` or `Bad`;
- `FirstNamedFacts`: `FirstNamed` is 0 or the first index with that name.

Two library modules serve these proofs:
- `LeastElement` gives `NatSubsetHasMin`, proved from the well-foundedness
  of `<` on the naturals. It makes `Min` of `SelectInSeq` usable.
- `RecursiveFcn` proves `RecursiveFcnTyped`: a function defined by
  recursion over `Lo .. Hi`, whose first value and every step stay in `S`,
  has its last value in `S`. It is proved by taking the least index where
  a typed solution fails, not by an induction theorem with an operator
  parameter, which the provers cannot instantiate. Its constants take the
  data as an argument, and it is used through a non-parametric `INSTANCE`.
  That is how the typing of `FlattenSeq` (in `Items`) and of the cookie
  loop (`Jar`) is proved. `RecursiveFcnUnfolds` adds that the function
  satisfies its defining equation at every point. `Readlines_bytes` derives
  `FlattenSeq`'s append and cons laws from it.

The assumptions are:
- `ChunksAssumption`: chunks are byte sequences;
- `BoundsAssumption`: the limits are naturals;
- `NoneAssumption`: `None` and the bad headers are not numbers;
- `NoneNotOutcome`: `None` is not one of the future's results.

The further assumptions are:
- `UrlEncodedAssumption`: chunks are byte sequences, the limits are
  naturals, and `None` and the bad headers are not numbers; `UrlEncoded`'s
  own `NoneNotOutcome` says `None` is not one of its results;
- `ConstantsAssumption` (`Readlines`): chunks are byte sequences, the
  newline is a byte, and the limits are naturals;
- `CookieAssumption`:
  - the header lists are lists of header values;
  - `None` is no segment, no header list and no vector of cookies.

## 6. What is only model-checked, and what is not modelled

Some properties stay with TLC:
- liveness (`Termination` of both components), because TLAPS cannot reason about
  ENABLED and fairness;
- `Readlines`' `RoundTrip`, which the code violates; its multiset form
  `BytesConserved` is proved.
- `UrlEncoded`'s `StrictUtf8`, which the code violates.

The following parts are not modelled:
- `chunked()`, which nothing in `src/` calls;
- the `HttpMessage` glue, which is pure delegation;
- `JsonBody`, which is not in this snapshot;
- the echo2 example.

The behaviours of callers that re-poll after an error are also not modelled:
- a repeated `LimitOverflow`;
- reading the stream after a deferred error has been taken.

The model's caller stops at the first result. These behaviours are listed as
hazards in `PROJECT.json`.

## 7. Plan

Next steps:
1. A composition `Message` module in which the consumers compete for
   `take_payload`. Only the first consumer gets the stream.
2. For Readlines:
   - a caller that re-polls after an error;
   - a corrected variant of the chunk path that passes RoundTrip, so that the
     per-line limit can be stated against logical lines.
3. A refinement of `BodyCollection` by `UrlEncoded`'s collection phase.
