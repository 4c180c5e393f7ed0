------------------------------ MODULE Exchange ------------------------------
(***************************************************************************)
(* One connection after the other to the daemon's socket, from the client  *)
(* that writes its frame, or dies or stops in the middle of it, to the     *)
(* answer it reads; and the letters that SEND requests carry, on to the    *)
(* mailbox of another aimx.  The handlers of the other verbs, the owner    *)
(* checks and the deliveries are modelled elsewhere: here they may succeed *)
(* or refuse.                                                              *)
(***************************************************************************)
EXTENDS Frames, Letter

CONSTANTS
  Asks,        \* requests of the verbs other than SEND that clients make
  Foreign,     \* frames other programs write
  Letters,     \* the arguments of aimx send and email_send
  Signatures,  \* what effective_signature may be
  MaxLetters   \* bound: letters delivered

ExchangeConstants ==
  MaxLetters \in Nat /\ MaxBody \in Nat /\ MaxSource \in Nat /\ IsInjective(Codec)

VARIABLES
  pc,      \* what the daemon, or at idle and answered the client, does next
  args,    \* the letter the client was asked to send, or Nothing
  asked,   \* the request it made of that, or was given
  meant,   \* the frame it set out to write
  input,   \* what the daemon has still to read of what was written
  open,    \* the client keeps the connection open without writing on
  verb, taken,  \* what the parser has read: the verb and the headers
  acted,   \* the request handed to a handler, or Nothing
  answer,  \* what the handler, or the parser, answers, or Nothing
  told,    \* what the client makes of it, or Nothing
  arrived, \* the letter this connection delivered, or Nothing
  mail     \* all that were delivered: ids and threads at both ends

vars == <<pc, args, asked, meant, input, open, verb, taken, acted, answer, told, arrived, mail>>

parser == <<verb, taken>>
client == <<args, asked, meant, open>>

NextId == <<ToString(Len(mail) + 1)>>

Init ==
  /\ pc = "idle" /\ mail = <<>>
  /\ args = Nothing /\ asked = Nothing /\ meant = <<>> /\ input = <<>> /\ open = FALSE
  /\ verb = "" /\ taken = <<>> /\ acted = Nothing /\ answer = Nothing /\ told = Nothing
  /\ arrived = Nothing

(* The next connection has a parser of its own.                            *)
NextConnection ==
  /\ pc = "closed" /\ pc' = "idle"
  /\ args' = Nothing /\ asked' = Nothing /\ meant' = <<>> /\ input' = <<>> /\ open' = FALSE
  /\ verb' = "" /\ taken' = <<>> /\ acted' = Nothing /\ answer' = Nothing /\ told' = Nothing
  /\ arrived' = Nothing
  /\ UNCHANGED mail

----------------------------------------------------------------------------
(* The client connects and writes frame f: all of it, or as much as it     *)
(* gets to; then it closes its half, or hangs.                             *)
Write(f) ==
  /\ pc' = "verb"
  /\ meant' = f
  /\ \E n \in 0..Len(f) : input' = SubSeq(f, 1, n)
  /\ open' \in BOOLEAN
  /\ UNCHANGED <<parser, acted, answer, told, arrived, mail>>

Ask(r) == args' = Nothing /\ asked' = r /\ Write(Frame(r))
OtherProgram(f) == args' = Nothing /\ asked' = Nothing /\ Write(f)

(* build_request.                                                          *)
SendRequest(a) ==
  [verb |-> "SEND", fields |-> IF a.mode = "text" THEN "Text-Only:" :> <<"true">> ELSE <<>>,
   body |-> Compose(a, NextId), html |-> IF a.mode = "html" THEN a.html ELSE NoHtml]

(* submit_via_daemon, for the tools as for aimx send.                      *)
Submit(a) == args' = a /\ asked' = SendRequest(a) /\ Write(Frame(SendRequest(a)))

(* aimx send and email_send.                                               *)
Send(a) ==
  /\ Len(mail) < MaxLetters
  /\ Compose(a, NextId) # Refused
  /\ Submit(a)

(* email_reply to a delivered letter: the id and references stored with it.*)
ReplyTo(a, m) ==
  Send([a EXCEPT !.attach = <<>>, !.replyTo = m.id,
                 !.references = References(IF m.references = Absent THEN <<>> ELSE m.references, m.id)])

----------------------------------------------------------------------------
(* The daemon reads a line: the request line, then headers up to the empty *)
(* one.  At the end of the input it waits, for at most 30 seconds, or sees *)
(* that the client has closed.                                             *)
Line == SubSeq(input, 1, EndOfLine(input, 1) - 1)
TooLong == Huge \in ToSet(Line)
HasLine == NL \in ToSet(input) /\ ~TooLong
AfterLine == From(input, EndOfLine(input, 1) + 1)

Error(code) == [kind |-> "err", data |-> <<"reason">>, code |-> code]
Reject(code) == pc' = "answer" /\ answer' = Error(code) /\ input' = <<>> /\ UNCHANGED parser

ReadVerb ==
  /\ pc = "verb" /\ HasLine
  /\ IF Len(Line) < 2 \/ Line[1] # "AIMX/1" THEN Reject("MALFORMED")
     ELSE IF \E v \in Verbs : Tail(Line) = <<v>>
     THEN pc' = "headers" /\ verb' = Line[2] /\ input' = AfterLine /\ UNCHANGED <<taken, answer>>
     ELSE Reject("PROTOCOL")
  /\ UNCHANGED <<client, acted, told, arrived, mail>>

ReadHeader ==
  /\ pc = "headers" /\ HasLine /\ Line # <<>>
  /\ LET t == TakeHeader(verb, taken, Line)
     IN IF t = Bad THEN Reject("MALFORMED")
        ELSE taken' = t /\ input' = AfterLine /\ UNCHANGED <<pc, verb, answer>>
  /\ UNCHANGED <<client, acted, told, arrived, mail>>

EndOfHeaders ==
  /\ pc = "headers" /\ HasLine /\ Line = <<>>
  /\ IF Complete(verb, taken) THEN pc' = "body" /\ input' = AfterLine /\ UNCHANGED <<parser, answer>>
     ELSE Reject("MALFORMED")
  /\ UNCHANGED <<client, acted, told, arrived, mail>>

(* The bodies announced are read exactly; what follows them is not looked  *)
(* at.  The request then goes to its handler.                              *)
Announced == BodyLength(taken, "Content-Length:") + BodyLength(taken, "Html-Body-Length:")
ReadBodies ==
  LET n == BodyLength(taken, "Content-Length:") IN
  /\ pc = "body" /\ Len(input) >= Announced
  /\ pc' = "handler"
  /\ acted' = RequestOf(verb, taken, SubSeq(input, 1, n),
                IF "Html-Body-Length:" \in DOMAIN taken THEN SubSeq(input, n + 1, Announced) ELSE NoHtml)
  /\ UNCHANGED <<client, input, parser, answer, told, arrived, mail>>

LongLine ==
  /\ pc \in {"verb", "headers"} /\ TooLong
  /\ Reject("MALFORMED")
  /\ UNCHANGED <<client, acted, told, arrived, mail>>

Starving == \/ pc \in {"verb", "headers"} /\ ~HasLine /\ ~TooLong
            \/ pc = "body" /\ Len(input) < Announced

(* The client has closed: an error, or no request at all.                  *)
InputEnds ==
  /\ Starving /\ ~open
  /\ IF pc = "verb" /\ input = <<>> THEN pc' = "closed" /\ UNCHANGED <<answer, input, parser>>
     ELSE Reject("MALFORMED")
  /\ UNCHANGED <<client, acted, told, arrived, mail>>

(* 30 seconds without a request: the connection is dropped unanswered.     *)
TimeOut ==
  /\ Starving /\ open
  /\ pc' = "closed"
  /\ UNCHANGED <<client, input, parser, acted, answer, told, arrived, mail>>

----------------------------------------------------------------------------
(* The handlers.                                                           *)
Handled(a) ==
  /\ pc' = "answer" /\ answer' = a
  /\ UNCHANGED <<client, input, parser, acted, told>>

Refuse ==
  /\ pc = "handler"
  /\ \E code \in Codes : Handled(Error(code))
  /\ UNCHANGED <<arrived, mail>>

Serve ==
  /\ pc = "handler" /\ verb # "SEND"
  /\ Handled([kind |-> IF verb \in Lists THEN "json" ELSE "ack",
              data |-> IF verb \in Lists THEN <<"row", "row">> ELSE <<>>, code |-> ""])
  /\ UNCHANGED <<arrived, mail>>

(* handle_send, as far as what it does to the letter: the headers read for *)
(* the sent copy, an id if there is none, the MIME message, signed, taken  *)
(* by an MX of the recipient and stored there.                             *)
OwnId(letter) == HeaderValue(HeadOf(letter), "Message-ID:")
WireMessage(signature) ==
  Assemble(IF OwnId(acted.body) = Absent THEN WithId(acted.body, NextId) ELSE acted.body,
           signature, "Text-Only:" \in DOMAIN acted.fields, IF acted.html = NoHtml THEN Absent ELSE acted.html)

HandleSend(signature) ==
  LET letter == acted.body
      m == WireMessage(signature)
      head == HeadOf(letter)
      id == IF OwnId(letter) = Absent THEN Angled(NextId) ELSE OwnId(letter)
      got == Ingested(m)
  IN /\ pc = "handler" /\ verb = "SEND"
     /\ IF HeaderEnd(letter) = 0 \/ HeaderValue(head, "From:") = Absent
        THEN Handled(Error("MALFORMED")) /\ UNCHANGED <<arrived, mail>>
        ELSE IF m = TooLarge THEN Handled(Error("BODY_TOO_LARGE")) /\ UNCHANGED <<arrived, mail>>
        ELSE /\ Handled([kind |-> "id", data |-> id, code |-> ""])
             /\ arrived' = [signature |-> signature, letter |-> got]
             /\ mail' = Append(mail,
                  [id |-> got.id, inReplyTo |-> got.inReplyTo, references |-> got.references, thread |-> got.thread,
                   sentThread |-> ThreadOf(id, HeaderValue(head, "In-Reply-To:"), HeaderValue(head, "References:"))])

(* The answer is written, or the beginning of it before the daemon dies,   *)
(* and the client reads up to the end of the connection.  The frame of a   *)
(* client that hangs or is gone is answered to nobody.                     *)
Answer ==
  /\ pc = "answer" /\ pc' = "closed"
  /\ IF asked = Nothing THEN UNCHANGED told
     ELSE \E n \in 0..Len(Reply(answer)) : told' = ReadReply(asked.verb, SubSeq(Reply(answer), 1, n))
  /\ UNCHANGED <<client, input, parser, acted, answer, arrived, mail>>

ClientStep ==
  /\ pc = "idle"
  /\ \/ \E r \in Asks : Ask(r)
     \/ \E f \in Foreign : OtherProgram(f)
     \/ \E a \in Letters : Send(a)
     \/ \E a \in Letters, i \in DOMAIN mail : ReplyTo(a, mail[i])

Next ==
  \/ ClientStep
  \/ ReadVerb \/ LongLine \/ ReadHeader \/ EndOfHeaders \/ ReadBodies \/ InputEnds \/ TimeOut
  \/ Refuse \/ Serve \/ (\E s \in Signatures : HandleSend(s)) \/ Answer \/ NextConnection

Spec == Init /\ [][Next]_vars

----------------------------------------------------------------------------
(* Whatever order, number and kind of headers a frame has and wherever it  *)
(* is cut, a handler gets what the whole frame says; and that is what the  *)
(* client of this repository was asked for, with no field added by a value *)
(* that contains a line end.                                               *)
Tidy(r) == [r EXCEPT !.fields = [n \in DOMAIN @ |-> Trim(Inline(@[n]), {SP})]]
ActedAsAsked ==
  acted # Nothing => /\ acted = Meaning(meant)
                     /\ asked # Nothing => acted = Tidy(asked)

(* A client that reports success, a body or an error code was answered     *)
(* just that, also when the daemon died in the middle of its answer; and a *)
(* whole answer is understood, but for an error to VERSION.                *)
ToldAsAnswered ==
  /\ told # Nothing =>
       CASE told.kind = "ok" -> /\ acted # Nothing /\ answer.kind # "err"
                                /\ answer.kind = "json" => told.data = answer.data
                                /\ answer.kind = "id" => IsPrefix(told.data, answer.data)
         [] told.kind = "err" -> answer.kind = "err" /\ told.code = answer.code
         [] told.kind = "garbled" -> TRUE
  /\ (answer # Nothing /\ asked # Nothing) =>
       \/ ReadReply(asked.verb, Reply(answer)).kind # "garbled"
       \/ asked.verb = "VERSION" /\ answer.kind = "err"

(* The recipient gets the text with the signature below it, the HTML it    *)
(* was sent or one made from that text, and every attachment, in order, in *)
(* a file of its own.  Line ends at the end of the text may get lost.      *)
(* Letters with an empty text beside attachments and empty attachments are *)
(* left out: EveryAttachmentArrives is about them.                         *)
TextOf(signature) ==
  TrimEnd(args.text, {NL}) \o (IF signature = <<>> THEN <<>> ELSE <<NL, NL>> \o signature)
Substantial(a) == a.attach = <<>> \/ (~Blank(a.text) /\ \A i \in DOMAIN a.attach : a.attach[i].data # <<>>)
LetterArrives ==
  (arrived # Nothing /\ args # Nothing /\ Substantial(args)) =>
    LET l == arrived.letter IN
    /\ TrimEnd(l.text, {NL}) = TextOf(arrived.signature)
    /\ l.rich = CASE args.mode = "text" -> Absent
                  [] args.mode = "html" -> args.html
                  [] args.mode = "markdown" -> Rendered(l.text)
    /\ Len(l.files) = Len(args.attach)
    /\ \A i \in DOMAIN l.files : l.files[i].data = args.attach[i].data
    /\ \A i, j \in DOMAIN l.files : i # j => l.files[i].name # l.files[j].name

(* wire_assembly.rs:49-51: attachments are "stored verbatim and re-emitted"*)
(* by the daemon.                                                          *)
EveryAttachmentArrives ==
  (arrived # Nothing /\ args # Nothing) => Len(arrived.letter.files) = Len(args.attach)

(* The sent copy and the stored letter carry one thread, computed from a   *)
(* header with angles here and from a parsed one there; and so do a letter *)
(* that starts a thread and the replies to it.                             *)
ThreadsAgree ==
  \A i \in DOMAIN mail :
    /\ mail[i].sentThread = mail[i].thread
    /\ \A j \in DOMAIN mail :
         (mail[i].inReplyTo = mail[j].id /\ mail[j].inReplyTo = Absent) => mail[i].thread = mail[j].thread
=============================================================================
