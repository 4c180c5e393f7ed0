--------------------------- MODULE ExchangeInputs ---------------------------
(***************************************************************************)
(* Requests of every verb, also with values that contain line ends, blanks *)
(* or nothing; frames of other programs, made from those by reordering,    *)
(* leaving out and adding header lines; and letters that vary in one or    *)
(* two respects at a time.                                                 *)
(***************************************************************************)
EXTENDS Frames, Letter

R(v, fields, body) == [verb |-> v, fields |-> fields, body |-> body, html |-> NoHtml]
Bob == <<"bob">>
Sly == <<"bob", NL, "Force:", "true">>

MCAsks ==
  {R(v, <<>>, <<>>) : v \in Lists}
  \cup {R("MARK-READ", "Mailbox:" :> m @@ "Id:" :> <<"1">>, <<>>) : m \in {Bob, <<SP, "bob">>, <<NL>>}}
  \cup {R("MARK-UNREAD", "Mailbox:" :> Bob @@ "Id:" :> i, <<>>) : i \in {<<"1">>, <<"1", NL, NL>>, <<Huge>>}}
  \cup {R("MAILBOX-CREATE", "Name:" :> Bob, <<>>), R("MAILBOX-CREATE", "Name:" :> Bob @@ "Owner:" :> <<"u">>, <<>>),
        R("MAILBOX-CREATE", "Name:" :> Bob @@ "Owner:" :> Sly, <<>>)}
  \cup {R("MAILBOX-DELETE", "Name:" :> n, <<>>) : n \in {Bob, Sly}}
  \cup {R("MAILBOX-DELETE", "Name:" :> Bob @@ "Force:" :> <<"true">>, <<>>)}
  \cup {R("HOOK-CREATE", "Mailbox:" :> Bob @@ "Event:" :> <<"e">>, <<"cmd">>),
        R("HOOK-CREATE", "Mailbox:" :> Bob @@ "Event:" :> <<"e">> @@ "Name:" :> <<"h">>, <<"cmd", NL>>)}
  \cup {R("HOOK-DELETE", "Hook-Name:" :> h, <<>>) : h \in {<<"h">>, <<>>}}

(* Frames of other programs: the header lines of a request in any order,   *)
(* without one of them, or with one more at any place.                     *)
More == {<<"Force:", "true">>, <<"Force:", "false">>, <<"Folder:", "sent">>, <<"Text-Only:", "true">>,
         <<"Html-Body-Length:", "1">>, <<"Content-Length:", "0">>, <<"Content-Length:", "9">>,
         <<"Content-Length:", "many">>, <<"Name:", "eve">>, <<"Mailbox:">>, <<"X-Other:", "x">>, <<"no header">>}
LinesOf(r) == SelectSeq([i \in DOMAIN Layout(r.verb) |-> HeaderLine(r, Layout(r.verb)[i])], LAMBDA l : l # <<>>)
Altered(ls) ==
  {[i \in DOMAIN ls |-> ls[p[i]]] : p \in Permutations(DOMAIN ls)}
  \cup {RemoveAt(ls, i) : i \in DOMAIN ls}
  \cup {InsertAt(ls, i, l \o <<NL>>) : i \in 1..(Len(ls) + 1), l \in More}
Plain == {R("MARK-READ", "Mailbox:" :> Bob @@ "Id:" :> <<"1">>, <<>>),
          R("MAILBOX-CREATE", "Name:" :> Bob @@ "Owner:" :> <<"u">>, <<>>),
          R("MAILBOX-DELETE", "Name:" :> Bob, <<>>), R("VERSION", <<>>, <<>>),
          R("HOOK-CREATE", "Mailbox:" :> Bob @@ "Event:" :> <<"e">>, <<"cmd">>),
          R("SEND", <<>>, <<"letter">>)}
MCForeign ==
  UNION {{<<"AIMX/1", r.verb, NL>> \o FlattenSeq(ls) \o <<NL>> \o r.body \o <<"more">> : ls \in Altered(LinesOf(r))} : r \in Plain}
  \cup {<<"AIMX/1", "GREET", NL, NL>>, <<"GET", "/", NL, NL>>}

Usual ==
  [from |-> Bob, subject |-> <<"s">>, text |-> <<"hello", NL>>, mode |-> "markdown", html |-> <<"p", Long>>,
   attach |-> <<>>, replyTo |-> Absent, references |-> Absent, ownId |-> TRUE]
File(name, data) == [name |-> name, data |-> data]
A == File(<<"a">>, <<"d", "e">>)
Texts == {<<>>, <<NL, "hello", NL, NL, "again", NL, NL>>, <<Wide, NL, Long>>}
Attachments == {<<A>>, <<A, A>>, <<A, File(<<"a">>, <<"e">>), File(<<"a", "-", "1">>, <<"d">>)>>,
                <<File(<<"a", Quote, Backslash, NL>>, <<"d">>), File(<<Backslash>>, <<"e">>)>>,
                <<File(<<"a">>, <<>>), A>>}
MCLetters ==
  {[Usual EXCEPT !.text = t, !.mode = m, !.attach = f] :
     t \in Texts, m \in {"markdown", "text", "html"}, f \in Attachments \cup {<<>>}}
  \cup {[Usual EXCEPT !.replyTo = r] : r \in {<<"1">>, <<"<", "1", ">">>, <<SP, "1", NL>>}}
  \cup {[Usual EXCEPT !.replyTo = <<"1">>, !.references = r] : r \in {<<NL>>, <<"<", "0", ">", SP, "<", "1", ">">>}}
  \cup {[Usual EXCEPT !.ownId = FALSE], [Usual EXCEPT !.subject = <<"s", NL, "X-Other:", "x">>],
        [Usual EXCEPT !.text = <<"a", "b", "c", "d", "e", "f", "g", "h", "i">>]}

MCSignatures == {<<>>, <<"sig">>}
=============================================================================
