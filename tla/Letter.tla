------------------------------- MODULE Letter -------------------------------
(***************************************************************************)
(* A letter on its way: what compose_request makes of the arguments of     *)
(* aimx send, email_send and email_reply, the MIME message the daemon      *)
(* assembles from it, and what ingest_email stores at the other end.       *)
(*                                                                         *)
(* Boundaries are fresh UUIDs: one marker opens and one closes a part, and *)
(* no letter contains them.  The message that goes out is a record of its  *)
(* parts; what another MIME reader (mail-parser) finds in it is external.  *)
(***************************************************************************)
EXTENDS Text

CONSTANTS
  Codec,     \* base64: a function from the words of a file to coded words
  MaxSource  \* MAX_MARKDOWN_BODY_BYTES

Mark == "--b"
CloseMark == "--b--"
Quote == "quote"
Backslash == "backslash"
NoPart == [cte |-> "none", body |-> <<>>]
Refused == <<"(refused)">>
Unfit == [error |-> "unfit"]
TooLarge == [error |-> "too large"]

Angled(id) == <<"<">> \o id \o <<">">>
Blank(s) == \A i \in DOMAIN s : s[i] = NL

----------------------------------------------------------------------------
(* The client.                                                             *)

(* normalize_message_id.                                                   *)
NormalId(v) ==
  LET t == Trim(v, {SP, NL}) IN IF t # <<>> /\ t[1] = "<" /\ Last(t) = ">" THEN t ELSE Angled(t)

NoBreaks(v) == SelectSeq(v, LAMBDA p : p # NL)

(* build_references, from the references stored with the letter answered.  *)
References(stored, id) ==
  IF Trim(stored, {SP, NL}) = <<>> THEN NormalId(id) ELSE Trim(stored, {SP, NL}) \o <<SP>> \o NormalId(id)

Header(name, v) == <<name>> \o v \o <<NL>>

(* write_common_headers; a letter without its own id is another program's. *)
CommonHeaders(a, id) ==
  LET reply == NormalId(NoBreaks(a.replyTo)) IN
  Header("From:", a.from) \o Header("Subject:", a.subject)
    \o (IF a.ownId THEN Header("Message-ID:", Angled(id)) ELSE <<>>)
    \o (IF a.replyTo = Absent THEN <<>>
        ELSE Header("In-Reply-To:", reply)
               \o Header("References:", IF a.references = Absent \/ Blank(a.references) THEN reply
                                        ELSE NoBreaks(a.references)))
    \o Header("MIME-Version:", <<"1.0">>)

(* escape_filename, and its undoing by decode_quoted_value: what stands    *)
(* before the first quote that no backslash precedes.                      *)
Escaped(name) ==
  Substituted(name, LAMBDA p : IF p \in {Quote, Backslash} THEN <<Backslash, p>>
                               ELSE IF p = NL THEN <<SP>> ELSE <<p>>)
Unescaped(v) ==
  FoldLeft(LAMBDA acc, p :
    IF acc.closed THEN acc
    ELSE IF acc.escaping THEN [acc EXCEPT !.out = Append(@, p), !.escaping = FALSE]
    ELSE IF p = Backslash THEN [acc EXCEPT !.escaping = TRUE]
    ELSE IF p = Quote THEN [acc EXCEPT !.closed = TRUE]
    ELSE [acc EXCEPT !.out = Append(@, p)],
    [out |-> <<>>, escaping |-> FALSE, closed |-> FALSE], v).out

Encode64(data) == [i \in DOMAIN data |-> Codec[data[i]]]
(* decode_base64, or the bytes as they are when they are no base64.        *)
Decode64(v) ==
  LET coded == SelectSeq(v, LAMBDA p : p \notin {NL, SP}) IN
  IF \E i \in DOMAIN coded : coded[i] \notin {Codec[x] : x \in DOMAIN Codec} THEN v
  ELSE [i \in DOMAIN coded |-> CHOOSE x \in DOMAIN Codec : Codec[x] = coded[i]]

AttachmentPart(f) ==
  <<Mark, NL, "Content-Disposition:", "attachment", "filename=", Quote>> \o Escaped(f.name) \o <<Quote, NL>>
    \o Header("Content-Transfer-Encoding:", <<"base64">>) \o <<NL>>
    \o Substituted(Encode64(f.data), LAMBDA p : <<p, NL>>)

(* compose_request, for a letter that gets the id given.                   *)
Compose(a, id) ==
  IF NL \in ToSet(a.from) \cup ToSet(a.subject) THEN Refused
  ELSE IF a.attach = <<>> THEN CommonHeaders(a, id) \o <<NL>> \o a.text \o <<NL>>
  ELSE CommonHeaders(a, id) \o Header("Content-Type:", <<"multipart/mixed">>) \o <<NL>>
         \o <<Mark, NL, "Content-Type:", "text/plain", NL, NL>> \o a.text \o <<NL>>
         \o FlattenSeq([i \in DOMAIN a.attach |-> AttachmentPart(a.attach[i])])
         \o <<CloseMark, NL>>

----------------------------------------------------------------------------
(* The daemon.                                                             *)

(* split_headers_body and parse_raw_part: the bytes before and after the   *)
(* first empty line.                                                       *)
HeaderEnd(s) == FindIn(s, <<NL, NL>>)
HeadOf(s) == SubSeq(s, 1, HeaderEnd(s) - 1)
BodyOf(s) == From(s, HeaderEnd(s) + 2)

(* split_multipart_body: what lies between two markers, without the line   *)
(* ends before the next one; a piece without an empty line is no part.     *)
RawParts(body) ==
  LET Marks == {i \in LineStarts(body) : body[i] \in {Mark, CloseMark}}
      First == {i \in Marks : body[i] = Mark /\ (i # Max(Marks) \/ Marks = {i})}
      Next(i) == Min({j \in Marks : j > i} \cup {Len(body) + 1})
      Raw(i) == TrimEnd(SubSeq(body, EndOfLine(body, i) + 1, Next(i) - 1), {NL})
      all == [k \in 1..Cardinality(First) |-> Raw(SetToSortSeq(First, <)[k])]
  IN SelectSeq(all, LAMBDA p : HeaderEnd(p) > 0)

DecodedPart(p) ==
  IF HeaderValue(HeadOf(p), "Content-Transfer-Encoding:") = <<"base64">> THEN Decode64(BodyOf(p)) ELSE BodyOf(p)

(* parse_attachment_part.                                                  *)
NameOf(p) ==
  LET d == HeaderValue(HeadOf(p), "Content-Disposition:")
      at == FindIn(d, <<"filename=", Quote>>)
  IN IF at = 0 THEN <<"attachment">> ELSE Unescaped(From(d, at + 2))

(* extract_markdown_and_attachments.                                       *)
Extracted(head, body) ==
  LET parts == IF HeaderValue(head, "Content-Type:") = <<"multipart/mixed">> THEN RawParts(body) ELSE <<>>
  IN IF parts = <<>> THEN [text |-> body, attach |-> <<>>]
     ELSE [text |-> DecodedPart(parts[1]),
           attach |-> [i \in 1..(Len(parts) - 1) |-> [name |-> NameOf(parts[i + 1]), data |-> DecodedPart(parts[i + 1])]]]

(* append_signature_to_body.                                               *)
Signed(text, signature) ==
  IF signature = <<>> THEN text ELSE TrimEnd(text, {NL}) \o <<NL, NL>> \o signature

(* pick_transfer_encoding and quoted_printable_encode.                     *)
(* A slip: long lines are not looked for.                                  *)
EncodingOfBytes(text) == IF Wide \notin ToSet(text) THEN "7bit" ELSE "quoted-printable"
Encoding(text) == IF {Long, Wide} \cap ToSet(text) = {} THEN "7bit" ELSE "quoted-printable"
Coded(text) ==
  Substituted(text, LAMBDA p : IF p = Wide THEN <<"=C3=A9">> ELSE IF p = Long THEN <<"lo=", "ng">> ELSE <<p>>)
TextPart(text) ==
  [cte |-> Encoding(text), body |-> IF Encoding(text) = "7bit" THEN text ELSE Coded(text)]

(* render_markdown_to_email_html, of which only the source matters here.   *)
Rendered(text) == <<"<html>">> \o text

ContentHeaders == {"Content-Type:", "Content-Transfer-Encoding:", "MIME-Version:"}
(* strip_outgoing_content_headers.                                         *)
Preserved(head) ==
  LET Fields == SetToSortSeq({i \in LineStarts(head) : head[i] \notin ContentHeaders}, <)
  IN FlattenSeq([k \in DOMAIN Fields |-> SubSeq(head, Fields[k], EndOfLine(head, Fields[k]) - 1) \o <<NL>>])

(* inject_message_id_header.                                               *)
WithId(letter, id) == Header("Message-ID:", Angled(id)) \o letter

(* assemble_wire_message; html is the second body of the request or Absent.*)
Assemble(letter, signature, textOnly, html) ==
  LET x == Extracted(HeadOf(letter), BodyOf(letter))
      text == Signed(x.text, signature)
      rich == IF textOnly THEN NoPart ELSE TextPart(IF html = Absent THEN Rendered(text) ELSE html)
  IN IF HeaderEnd(letter) = 0 THEN Unfit
     ELSE IF ~textOnly /\ html = Absent /\ Len(text) > MaxSource THEN TooLarge
     ELSE [head |-> Preserved(HeadOf(letter)), text |-> TextPart(text), rich |-> rich,
           attach |-> [i \in DOMAIN x.attach |->
                         [name |-> Escaped(x.attach[i].name), data |-> Encode64(x.attach[i].data)]]]

----------------------------------------------------------------------------
(* The way to the other side and the reading there.                        *)

(* SMTP carries what fits its lines and seven bits.                        *)
Carried(part) ==
  [part EXCEPT !.body = [i \in DOMAIN @ |-> IF @[i] \in {Long, Wide} THEN "damaged" ELSE @[i]]]

DecodedText(part) ==
  IF part.cte # "quoted-printable" THEN part.body
  ELSE Substituted(part.body, LAMBDA p :
         IF p = "=C3=A9" THEN <<Wide>> ELSE IF p = "lo=" THEN <<Long>> ELSE IF p = "ng" THEN <<>> ELSE <<p>>)

(* sanitize_attachment_filename: runs of unsafe pieces become one          *)
(* underscore, the edges go, an empty name is numbered.                    *)
SafeName(name, index) ==
  LET t == Trim(FoldLeft(LAMBDA out, p :
             IF p # Backslash THEN Append(out, p)
             ELSE IF out # <<>> /\ Last(out) = "_" THEN out ELSE Append(out, "_"), <<>>, name), {"_", SP})
  IN IF t = <<>> THEN <<"attachment", "-", ToString(index)>> ELSE t

(* deduplicate_filename, for a bundle that holds the names taken.          *)
Numbered(name, i) == name \o <<"-", ToString(i)>>
FreeName(name, taken) ==
  IF name \notin taken THEN name
  ELSE Numbered(name, Min({i \in 1..(Cardinality(taken) + 1) : Numbered(name, i) \notin taken}))

(* prepare_attachments and write_attachments.                              *)
Stored(files) ==
  LET Put(out, f) ==
        Append(out, [name |-> FreeName(SafeName(Unescaped(f.name), Len(out)), {out[i].name : i \in DOMAIN out}),
                     data |-> Decode64(f.data)])
  IN FoldLeft(Put, <<>>, files)

(* extract_first_message_id, strip_angle_brackets and resolve_thread_root. *)
FirstId(v) ==
  LET open == FindIn(v, <<"<">>)
      close == IF open = 0 THEN 0 ELSE FindIn(From(v, open), <<">">>)
  IN IF close > 0 THEN SubSeq(v, open, open + close - 1) ELSE Trim(v, {SP})
(* A slip in strip_angle_brackets: only the first one goes.                *)
BareInFront(id) == IF id # <<>> /\ id[1] = "<" THEN Tail(id) ELSE id
Bare(id) == IF id # <<>> /\ id[1] = "<" /\ Last(id) = ">" THEN SubSeq(id, 2, Len(id) - 1) ELSE id
ThreadOf(id, inReplyTo, references) ==
  LET Source == IF inReplyTo # Absent /\ FirstId(inReplyTo) # <<>> THEN FirstId(inReplyTo)
              ELSE IF references # Absent /\ FirstId(references) # <<>> THEN FirstId(references)
              ELSE IF FirstId(id) # <<>> THEN FirstId(id) ELSE id
  IN Bare(Source)

(* What mail-parser hands out of an id header: the last id, without angles.*)
ParsedId(v) ==
  IF v = Absent THEN Absent
  ELSE LET ids == SelectSeq(v, LAMBDA p : p \notin {"<", ">", SP}) IN IF ids = <<>> THEN Absent ELSE <<Last(ids)>>

(* ingest_email on a message that came through whole.                      *)
Ingested(m) ==
  LET id == ParsedId(HeaderValue(m.head, "Message-ID:"))
      irt == ParsedId(HeaderValue(m.head, "In-Reply-To:"))
      refs == ParsedId(HeaderValue(m.head, "References:"))
  IN [id |-> id, inReplyTo |-> irt, references |-> refs, thread |-> ThreadOf(id, irt, refs),
      text |-> DecodedText(Carried(m.text)),
      rich |-> IF m.rich = NoPart THEN Absent ELSE DecodedText(Carried(m.rich)),
      files |-> Stored(m.attach)]
=============================================================================
