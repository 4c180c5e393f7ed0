------------------------------- MODULE Frames -------------------------------
(***************************************************************************)
(* The AIMX/1 frames of the daemon's socket: how the clients write a       *)
(* request, how the daemon reads one, header line by header line and in    *)
(* any order, how it writes the answer and how the clients read that.      *)
(*                                                                         *)
(* A request is a record: its verb, its fields (a function from the header *)
(* names it carries to their values, the lengths left out), its body and,  *)
(* for SEND, a second body of HTML.                                        *)
(***************************************************************************)
EXTENDS Text

CONSTANTS
  UserNames,  \* the words is_valid_system_username accepts
  MaxBody     \* DEFAULT_MAX_BODY_SIZE

NoHtml == <<"(no html)">>
Nothing == [verb |-> "(nothing)"]

Lists == {"MAILBOX-LIST", "HOOK-LIST", "VERSION"}
Marks == {"MARK-READ", "MARK-UNREAD"}
Verbs == Lists \cup Marks \cup
  {"SEND", "MAILBOX-CREATE", "MAILBOX-DELETE", "HOOK-CREATE", "HOOK-DELETE"}

(* What the parser of each verb does with a header it knows.               *)
SendRules == "Content-Length:" :> "length" @@ "Html-Body-Length:" :> "length" @@ "Text-Only:" :> "flag"
MarkRules ==
  "Mailbox:" :> "text" @@ "Id:" :> "text" @@ "Folder:" :> "banned" @@ "Content-Length:" :> "zero"
MailboxRules(force) ==
  "Name:" :> "text" @@ "Owner:" :> "user" @@ "Content-Length:" :> "zero" @@ "Force:" :> force
HookCreateRules ==
  "Mailbox:" :> "text" @@ "Event:" :> "text" @@ "Name:" :> "text" @@ "Content-Length:" :> "length"
HookDeleteRules == "Hook-Name:" :> "text" @@ "Content-Length:" :> "zero"

Rules(verb) ==
  CASE verb = "SEND" -> SendRules
    [] verb \in Marks -> MarkRules
    [] verb = "MAILBOX-CREATE" -> MailboxRules("banned")
    [] verb = "MAILBOX-DELETE" -> MailboxRules("flag")
    [] verb = "HOOK-CREATE" -> HookCreateRules
    [] verb = "HOOK-DELETE" -> HookDeleteRules
    [] verb \in Lists -> <<>>

Required(verb) ==
  CASE verb = "SEND" -> {"Content-Length:"}
    [] verb \in Marks -> {"Mailbox:", "Id:"}
    [] verb \in {"MAILBOX-CREATE", "MAILBOX-DELETE"} -> {"Name:"}
    [] verb = "HOOK-CREATE" -> {"Mailbox:", "Event:", "Content-Length:"}
    [] verb = "HOOK-DELETE" -> {"Hook-Name:"}
    [] verb \in Lists -> {}

HeaderNames == UNION {DOMAIN Rules(v) : v \in Verbs \ Lists} \cup {"X-Other:"}

Length(v) == {n \in 0..MaxBody : v = <<ToString(n)>>}
Accepts(rule, v) ==
  CASE rule = "text" -> v # <<>>
    [] rule = "user" -> \E u \in UserNames : v = <<u>>
    [] rule = "flag" -> v \in {<<"true">>, <<"false">>}
    [] rule = "length" -> Length(v) # {}
    [] rule = "zero" -> v = <<"0">>
    [] rule = "banned" -> FALSE

LengthNames == {"Content-Length:", "Html-Body-Length:"}

(* The request a finished set of headers and the bytes after them make.    *)
RequestOf(verb, taken, body, html) ==
  [verb |-> verb,
   fields |-> [n \in {x \in DOMAIN taken \ LengthNames : taken[x] # <<"false">> \/ Rules(verb)[x] # "flag"}
                 |-> taken[n]],
   body |-> body, html |-> html]

----------------------------------------------------------------------------
(* Writing requests.                                                       *)

(* sanitize_inline.                                                        *)
Inline(v) == SelectSeq(v, LAMBDA p : p # NL)

Layout(verb) ==
  CASE verb = "SEND" -> <<"Text-Only:", "Content-Length:", "Html-Body-Length:">>
    [] verb \in Marks -> <<"Mailbox:", "Id:", "Content-Length:">>
    [] verb \in {"MAILBOX-CREATE", "MAILBOX-DELETE"} -> <<"Name:", "Owner:", "Force:", "Content-Length:">>
    [] verb = "HOOK-CREATE" -> <<"Mailbox:", "Event:", "Name:", "Content-Length:">>
    [] verb = "HOOK-DELETE" -> <<"Hook-Name:", "Content-Length:">>
    [] verb \in Lists -> <<>>

Headers(r) ==
  r.fields @@ (IF r.verb \in Lists THEN <<>> ELSE "Content-Length:" :> <<ToString(Len(r.body))>>)
           @@ (IF r.html = NoHtml THEN <<>> ELSE "Html-Body-Length:" :> <<ToString(Len(r.html))>>)

HeaderLine(r, n) ==
  IF n \in DOMAIN Headers(r) THEN <<n>> \o Inline(Headers(r)[n]) \o <<NL>> ELSE <<>>

(* The write_* functions.                                                  *)
Frame(r) ==
  <<"AIMX/1", r.verb, NL>> \o FlattenSeq([i \in DOMAIN Layout(r.verb) |-> HeaderLine(r, Layout(r.verb)[i])])
    \o <<NL>> \o r.body \o (IF r.html = NoHtml THEN <<>> ELSE r.html)

----------------------------------------------------------------------------
(* Reading requests: what one header line does to the headers taken so far *)
(* and what the headers are good for at the blank line.                    *)
Bad == "(bad)" :> <<>>

(* A slip: a header that comes again takes the place of the first.         *)
TakeHeaderAgain(verb, taken, line) ==
  IF verb \in Lists \/ line[1] \notin HeaderNames THEN Bad
  ELSE IF line[1] \notin DOMAIN Rules(verb) THEN taken
  ELSE LET v == Trim(Tail(line), {SP})
       IN IF ~Accepts(Rules(verb)[line[1]], v) THEN Bad ELSE (line[1] :> v) @@ taken
TakeHeader(verb, taken, line) ==
  IF verb \in Lists \/ line[1] \notin HeaderNames THEN Bad
  ELSE IF line[1] \notin DOMAIN Rules(verb) THEN taken
  ELSE LET v == Trim(Tail(line), {SP})
       IN IF line[1] \in DOMAIN taken \/ ~Accepts(Rules(verb)[line[1]], v) THEN Bad
          ELSE taken @@ (line[1] :> v)

Complete(verb, taken) ==
  /\ Required(verb) \subseteq DOMAIN taken
  /\ ~("Html-Body-Length:" \in DOMAIN taken /\ "Text-Only:" \in DOMAIN taken /\ taken["Text-Only:"] = <<"true">>)

BodyLength(taken, n) == IF n \in DOMAIN taken THEN CHOOSE k \in Length(taken[n]) : TRUE ELSE 0

(* The same said of a whole frame, without reading it in any order: what   *)
(* the frame f means, or Nothing.                                          *)
Meaning(f) ==
  LET blank == FindIn(f, <<NL, NL>>)
      Lines == {i \in LineStarts(f) : 3 < i /\ i <= blank}
      Of(n) == {i \in Lines : f[i] = n}
      Value(i) == Trim(SubSeq(f, i + 1, EndOfLine(f, i) - 1), {SP})
      verb == f[2]
      Used == {n \in DOMAIN Rules(verb) : Of(n) # {}}
      taken == [n \in Used |-> Value(Min(Of(n)))]
      n1 == BodyLength(taken, "Content-Length:")
      n2 == BodyLength(taken, "Html-Body-Length:")
  IN IF /\ Len(f) > 2 /\ f[1] = "AIMX/1" /\ verb \in Verbs /\ f[3] = NL /\ blank > 0
        /\ Huge \notin ToSet(SubSeq(f, 1, blank))
        /\ \A i \in Lines : verb \notin Lists /\ f[i] \in HeaderNames
        /\ \A n \in Used : Cardinality(Of(n)) = 1 /\ Accepts(Rules(verb)[n], taken[n])
        /\ Complete(verb, taken)
        /\ blank + 1 + n1 + n2 <= Len(f)
     THEN RequestOf(verb, taken, SubSeq(f, blank + 2, blank + 1 + n1),
            IF "Html-Body-Length:" \in Used THEN SubSeq(f, blank + 2 + n1, blank + 1 + n1 + n2) ELSE NoHtml)
     ELSE Nothing

----------------------------------------------------------------------------
(* Answers: an id for SEND, a bare OK, a JSON body, or an error.           *)
Codes == {"MAILBOX", "DOMAIN", "SIGN", "DELIVERY", "TEMP", "MALFORMED", "PROTOCOL", "NOTFOUND", "IO", "VALIDATION",
          "NONEMPTY", "ECONFLICT", "EACCES", "ENOENT", "BODY_TOO_LARGE"}

Reply(a) ==
  CASE a.kind = "id" -> <<"AIMX/1", "OK ">> \o Inline(a.data) \o <<NL>>
    [] a.kind = "ack" -> <<"AIMX/1", "OK", NL>>
    [] a.kind = "json" -> <<"AIMX/1", "OK", NL, "Content-Length:", ToString(Len(a.data)), NL, NL>> \o a.data
    [] a.kind = "err" -> <<"AIMX/1", "ERR ", a.code>> \o Inline(a.data) \o <<NL, "Code:", a.code, NL, NL>>

Garbled == [kind |-> "garbled", data |-> <<>>, code |-> ""]
Ok(data) == [kind |-> "ok", data |-> data, code |-> ""]
Refusal(code) == IF code \in Codes THEN [kind |-> "err", data |-> <<>>, code |-> code] ELSE Garbled

(* parse_response_line, parse_ack_response, decode_mailbox_list_response   *)
(* and read_version_response: what a client makes of the bytes b that came *)
(* before the connection ended.                                            *)
StatusLine(b) == SubSeq(b, 1, EndOfLine(b, 1) - 1)
CodeOf(b) ==
  LET header == HeaderValue(b, "Code:")
  IN IF \E c \in Codes : header = <<c>> THEN header[1] ELSE b[3]

ReadSendReply(b) ==
  LET line == StatusLine(b) IN
  IF Len(line) < 2 THEN Garbled
  ELSE IF line[2] = "OK " THEN Ok(From(line, 3))
  ELSE IF Len(line) > 2 /\ line[2] = "ERR " THEN Refusal(CodeOf(b)) ELSE Garbled

ReadAck(b) ==
  LET line == StatusLine(b) IN
  IF line = <<"AIMX/1", "OK">> THEN Ok(<<>>)
  ELSE IF Len(line) > 2 /\ line[2] = "ERR " THEN Refusal(CodeOf(b)) ELSE Garbled

(* A slip: all that came after the blank line is taken for the body.       *)
JsonBodyUncounted(b, blank) == Ok(From(b, blank + 2))
JsonBody(b, blank) ==
  LET n == HeaderValue(SubSeq(b, 1, blank - 1), "Content-Length:")
  IN IF n = Absent \/ Length(n) = {} THEN Garbled
     ELSE LET k == CHOOSE k \in Length(n) : TRUE
          IN IF Len(b) < blank + 1 + k THEN Garbled ELSE Ok(SubSeq(b, blank + 2, blank + 1 + k))

ReadJson(b) ==
  LET blank == FindIn(b, <<NL, NL>>)
      line == StatusLine(b)
  IN IF blank = 0 THEN Garbled
     ELSE IF line = <<"AIMX/1", "OK">> THEN JsonBody(b, blank)
     ELSE IF Len(line) > 2 /\ line[2] = "ERR " THEN Refusal(line[3]) ELSE Garbled

ReadVersion(b) ==
  LET blank == FindIn(b, <<NL, NL>>)
  IN IF blank > 0 /\ StatusLine(b) = <<"AIMX/1", "OK">> THEN JsonBody(b, blank) ELSE Garbled

ReadReply(verb, b) ==
  CASE verb = "SEND" -> ReadSendReply(b)
    [] verb = "VERSION" -> ReadVersion(b)
    [] verb \in Lists \ {"VERSION"} -> ReadJson(b)
    [] OTHER -> ReadAck(b)
=============================================================================
