---------------------------- MODULE SmtpSession ----------------------------
(***************************************************************************)
(* What one SMTP connection may do: the command loop, the letter after     *)
(* DATA, and the deliveries on blocking threads, one recipient after the   *)
(* other, against the snapshot of the configuration that was current when  *)
(* the letter ended. Any client may send any line at any time, so the      *)
(* lines of a letter that the server stopped reading early, which its      *)
(* command loop reads next, are among the commands modelled here.          *)
(*                                                                         *)
(* The steps of all connections are composed with the accept loop, the     *)
(* clock and the shutdown in module Serve.                                 *)
(***************************************************************************)
EXTENDS Naturals, FiniteSets

CONSTANTS
  Session,      \* connections, none used twice
  Name,         \* local parts a client may name as recipients
  Catchall,     \* the mailbox that takes what has none of its own
  NoBox,        \* "no mailbox routes the recipient"
  NoName,       \* "no delivery at work"
  Snapshots,    \* the sets of mailboxes a snapshot may hold
  HasTls,       \* the server was given a certificate
  MaxCommands,  \* commands a connection may send: DEFAULT_MAX_COMMANDS_BEFORE_DATA
  MaxLetters,   \* bound on the letters sent over one connection
  MaxChanges    \* bound on the changes of the snapshot

Box == Name \cup {Catchall}

ASSUME NameAssumption ==
  /\ Catchall \notin Name /\ NoName \notin Name /\ NoBox \notin Box
  /\ Snapshots \subseteq SUBSET Box /\ HasTls \in BOOLEAN
ASSUME LimitAssumption ==
  MaxCommands \in Nat /\ MaxLetters \in Nat /\ MaxChanges \in Nat

VARIABLES
  snap,     \* mailboxes in the snapshot that config_handle.load() returns
  changes,  \* how often the snapshot has changed
  ses,      \* the state of each connection
  worker,   \* the recipient each connection's blocking thread delivers to
  stored,   \* letters in mailboxes
  acked,    \* history: recipients of letters answered 250
  cut       \* history: letters the server gave up on

smtpVars == <<snap, changes, ses, worker, stored, acked, cut>>

Modes == {"Connected", "Greeted", "MailFrom", "RcptTo", "Data"}
Places == {"new", "line", "handshake", "data", "deliver", "gone"}
Live == {"line", "handshake", "data", "deliver"}

(* A connection; .agreed is history: the recipients answered 250 since the *)
(* last MAIL, with the side of STARTTLS they were given on.                *)
SessionState ==
  [at: Places, mode: Modes, paths: SUBSET Name, tls: BOOLEAN,
   count: 0..MaxCommands, letter: 0..MaxLetters,
   view: SUBSET Box, todo: SUBSET Name, good: BOOLEAN, bad: BOOLEAN,
   agreed: SUBSET (Name \X BOOLEAN)]

NewSession ==
  [at |-> "new", mode |-> "Connected", paths |-> {}, tls |-> FALSE,
   count |-> 0, letter |-> 0, view |-> {}, todo |-> {}, good |-> FALSE, bad |-> FALSE,
   agreed |-> {}]

Letter == Session \X (0..MaxLetters)

InitSmtp ==
  /\ snap \in Snapshots
  /\ changes = 0
  /\ ses = [s \in Session |-> NewSession]
  /\ worker = [s \in Session |-> NoName]
  /\ stored = {} /\ acked = {} /\ cut = {}

Of(s) == <<s, ses[s].letter>>

(* resolve_recipient_mailbox: a mailbox of that name, else the catchall.   *)
Route(boxes, n) ==
  IF n \in boxes THEN n ELSE IF Catchall \in boxes THEN Catchall ELSE NoBox

(* reset_transaction                                                       *)
Reset(r) ==
  [r EXCEPT !.paths = {}, !.mode = IF r.mode = "Connected" THEN @ ELSE "Greeted"]

(* All that is left of a dropped session is what its thread was given.     *)
Gone(r) == [NewSession EXCEPT !.at = "gone", !.letter = r.letter, !.view = r.view]

Close(s) == ses' = [ses EXCEPT ![s] = Gone(@)]

NoDelivery == UNCHANGED <<worker, stored>>
NoHistory == UNCHANGED <<acked, cut>>
Served == NoDelivery /\ UNCHANGED <<snap, changes>>

-----------------------------------------------------------------------------
(* The command loop.                                                       *)

(* A line that is counted and stays within the limit; r is what the        *)
(* command makes of the connection.                                        *)
Command(s, r) ==
  /\ ses[s].at = "line"
  /\ ses[s].count < MaxCommands
  /\ ses' = [ses EXCEPT ![s] = [r EXCEPT !.count = ses[s].count + 1]]
  /\ Served

(* The command after the last one allowed: 421.                            *)
TooMany(s) ==
  /\ ses[s].at = "line" /\ ses[s].count = MaxCommands
  /\ Close(s) /\ Served /\ NoHistory

(* EHLO and HELO                                                           *)
Hello(s) ==
  /\ Command(s, Reset([ses[s] EXCEPT !.mode = "Greeted"]))
  /\ NoHistory

(* handle_mail_from; "Data" is never the mode while commands are read.     *)
Mail(s) ==
  /\ ses[s].mode \notin {"Connected", "MailFrom", "RcptTo"}
  /\ Command(s, [ses[s] EXCEPT !.mode = "MailFrom", !.agreed = {}])
  /\ NoHistory

(* handle_rcpt_to: the routing is asked of the snapshot of this moment.    *)
Rcpt(s, n) ==
  /\ ses[s].mode \notin {"Connected", "Greeted"}
  /\ Route(snap, n) # NoBox
  /\ Command(s, [ses[s] EXCEPT !.mode = "RcptTo", !.paths = @ \cup {n},
                                !.agreed = @ \cup {<<n, ses[s].tls>>}])
  /\ NoHistory

(* RSET                                                                    *)
Rset(s) == Command(s, Reset(ses[s])) /\ NoHistory

(* NOOP, and whatever is answered with 500, 501, 502, 503 or 550.          *)
Answered(s) == Command(s, ses[s]) /\ NoHistory

(* DATA past handle_data_precheck: 354                                     *)
Data(s) ==
  /\ ses[s].mode = "RcptTo" /\ ses[s].letter < MaxLetters
  /\ Command(s, [ses[s] EXCEPT !.at = "data", !.mode = "Data", !.letter = @ + 1])
  /\ NoHistory

(* STARTTLS answered 220                                                   *)
Starttls(s) ==
  /\ HasTls /\ ~ses[s].tls
  /\ Command(s, [ses[s] EXCEPT !.at = "handshake"])
  /\ NoHistory

(* A slip: the transaction begun in plaintext goes on under TLS.           *)
TlsUpKeepingMail(s) ==
  /\ ses[s].at = "handshake"
  /\ ses' = [ses EXCEPT ![s].at = "line", ![s].tls = TRUE]
  /\ Served /\ NoHistory

(* handle_tls_upgrade: what the client sent ahead in plaintext is dropped  *)
(* with the buffer, and it must greet again.                               *)
TlsUp(s) ==
  /\ ses[s].at = "handshake"
  /\ ses' = [ses EXCEPT ![s] =
       Reset([ses[s] EXCEPT !.at = "line", !.tls = TRUE, !.mode = "Connected"])]
  /\ Served /\ NoHistory

(* QUIT, the end of the stream, the idle limit, a failing read or write, a *)
(* failing handshake.                                                      *)
Leave(s) ==
  /\ ses[s].at \in {"line", "handshake"}
  /\ Close(s) /\ Served /\ NoHistory

-----------------------------------------------------------------------------
(* The letter.                                                             *)

(* receive_data read the "." that ends the letter; deliver_message takes   *)
(* the snapshot for all recipients.                                        *)
LetterEnds(s) ==
  /\ ses[s].at = "data"
  /\ ses' = [ses EXCEPT ![s] =
       [@ EXCEPT !.at = "deliver", !.view = snap, !.todo = ses[s].paths,
                 !.good = FALSE, !.bad = FALSE]]
  /\ Served /\ NoHistory

(* 421, 500, 552 or 451 from within receive_data: the transaction is over  *)
(* and the command loop goes on, with whatever the client sends next.      *)
LetterCut(s) ==
  /\ ses[s].at = "data"
  /\ ses' = [ses EXCEPT ![s] = [Reset(ses[s]) EXCEPT !.at = "line"]]
  /\ cut' = cut \cup {Of(s)}
  /\ Served /\ UNCHANGED acked

(* A failing read in the letter ends the connection.                       *)
DataFails(s) ==
  /\ ses[s].at = "data"
  /\ Close(s)
  /\ cut' = cut \cup {Of(s)}
  /\ Served /\ UNCHANGED acked

-----------------------------------------------------------------------------
(* The deliveries: ingest_email for one recipient at a time.               *)

Ingest(s, n) ==
  /\ ses[s].at = "deliver" /\ n \in ses[s].todo /\ worker[s] = NoName
  /\ worker' = [worker EXCEPT ![s] = n]
  /\ UNCHANGED <<snap, changes, ses, stored>> /\ NoHistory

(* The thread's result reaches the connection unless that is gone.         *)
Joined(s, ok) ==
  /\ worker' = [worker EXCEPT ![s] = NoName]
  /\ ses' = IF ses[s].at # "deliver" THEN ses
            ELSE [ses EXCEPT ![s].todo = @ \ {worker[s]},
                             ![s].good = @ \/ ok, ![s].bad = @ \/ ~ok]
  /\ UNCHANGED <<snap, changes>> /\ NoHistory

(* Stored, or already there: two names may share the catchall.             *)
Stores(s) ==
  LET box == Route(ses[s].view, worker[s]) IN
  /\ worker[s] # NoName /\ box # NoBox
  /\ stored' = stored \cup {<<Of(s), box>>}
  /\ Joined(s, TRUE)

(* No mailbox in the snapshot any more, an unreadable letter, a full disk. *)
Fails(s) ==
  /\ worker[s] # NoName
  /\ UNCHANGED stored
  /\ Joined(s, FALSE)

(* A slip: one success among failures is answered 250.                     *)
SomeGood(r) == r.good

(* 250 only if every recipient has it, else 451.                           *)
AllGood(r) == r.good /\ ~r.bad

Reply(s) ==
  /\ ses[s].at = "deliver" /\ ses[s].todo = {} /\ worker[s] = NoName
  /\ ses' = [ses EXCEPT ![s] = [Reset(ses[s]) EXCEPT !.at = "line"]]
  /\ acked' = IF AllGood(ses[s])
              THEN acked \cup {<<Of(s), n>> : n \in ses[s].paths} ELSE acked
  /\ UNCHANGED <<snap, changes, worker, stored, cut>>

(* What a connection does of its own accord.                               *)
SessionStep(s) ==
  \/ Hello(s) \/ Mail(s) \/ \E n \in Name : Rcpt(s, n)
  \/ Rset(s) \/ Answered(s) \/ Data(s) \/ TooMany(s)
  \/ Starttls(s) \/ TlsUp(s) \/ Leave(s)
  \/ LetterEnds(s) \/ LetterCut(s) \/ DataFails(s)
  \/ Reply(s)

(* What its blocking thread does, wanted or not any more.                  *)
WorkerStep(s) == Stores(s) \/ Fails(s)

(* timeout_at in SmtpSession::handle: the session is dropped wherever it   *)
(* is; the blocking thread goes on.                                        *)
Deadline(s) ==
  /\ ses[s].at \in Live
  /\ Close(s) /\ Served
  /\ cut' = IF ses[s].at = "data" THEN cut \cup {Of(s)} ELSE cut
  /\ UNCHANGED acked

(* MAILBOX-CREATE, MAILBOX-DELETE or SIGHUP, here only seen from outside.  *)
SnapshotChanges ==
  /\ changes < MaxChanges /\ changes' = changes + 1
  /\ snap' \in Snapshots
  /\ UNCHANGED <<ses, worker, stored>> /\ NoHistory
=============================================================================
