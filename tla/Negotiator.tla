----------------------------- MODULE Negotiator -----------------------------
(***************************************************************************)
(* The header negotiation of HttpMessage (src/src/httpmessage.rs, lines   *)
(* 57-100): content_type(), mime_type() and encoding() are pure functions  *)
(* of the Content-Type header.                                             *)
(*                                                                         *)
(* A Content-Type header is abstracted to what these functions tell apart: *)
(*   - None: no header;                                                    *)
(*   - NonText: a header whose bytes are not visible ASCII (to_str fails); *)
(*   - a record: its media-type token as written before the first ';',     *)
(*     whether the whole value parses as a MIME type (`wellFormed`), and   *)
(*     the label of its charset parameter, "absent" if there is none.      *)
(* Charsets are abstracted to what decoding tells apart: UTF-8, a single- *)
(* byte charset that maps every byte (ISO-8859-2), and a multi-byte one   *)
(* whose strict decode can fail (Shift_JIS).  UTF-8 has two values: the   *)
(* constant UTF_8 that encoding() returns when there is no charset         *)
(* ("utf8"), and the EncodingRef the registry returns for the label        *)
(* "utf-8" ("utf8label").  The code later tells them apart by comparing   *)
(* trait-object pointers (lines 373, 403, 429, 650), which Rust does not  *)
(* promise to be equal for the same encoding.                              *)
(***************************************************************************)
CONSTANTS
  None,     \* Rust's None: no Content-Type header
  NonText   \* a Content-Type header that is not valid header text

FormUrlencoded == "application/x-www-form-urlencoded"

(* Media-type tokens as a client may write them. *)
MediaTokens == {FormUrlencoded, "Application/X-WWW-Form-URLEncoded", "text/plain"}

(* str::to_lowercase on the tokens above and on "". *)
ToLowercase(t) ==
  IF t = "Application/X-WWW-Form-URLEncoded" THEN FormUrlencoded ELSE t

(* charset labels: two the WHATWG registry knows and one it does not. *)
Labels == {"utf-8", "iso-8859-2", "shift_jis", "x-bogus"}

(* encoding_from_whatwg_label (line 74) on the labels above. *)
Registry(l) ==
  CASE l = "utf-8"      -> "utf8label"
    [] l = "iso-8859-2" -> "single"
    [] l = "shift_jis"  -> "multi"
    [] l = "x-bogus"    -> "UnknownEncoding"

ContentTypeHeaders ==
  {None, NonText} \cup
  [token : MediaTokens, wellFormed : BOOLEAN, charset : Labels \cup {"absent"}]

Charsets == {"utf8", "utf8label", "single", "multi"}
EncodingErrors == {"UnknownEncoding", "ParseError"}

(* HttpMessage::content_type (lines 57-66): the text before the first ';', *)
(* trimmed, or "" when the header is absent or not text.                   *)
ContentType(h) == IF h \in {None, NonText} THEN "" ELSE h.token

(* HttpMessage::encoding (lines 71-85) with mime_type (lines 88-100)      *)
(* inlined: a header that is not text or does not parse is a ParseError;  *)
(* no header or no charset parameter is UTF-8; a charset label is looked  *)
(* up in the registry.                                                     *)
Encoding(h) ==
  IF h = None THEN "utf8"
  ELSE IF h = NonText THEN "ParseError"
  ELSE IF ~h.wellFormed THEN "ParseError"
  ELSE IF h.charset = "absent" THEN "utf8"
  ELSE Registry(h.charset)
=============================================================================
