------------------------------- MODULE Serve -------------------------------
(***************************************************************************)
(* aimx serve from its SMTP listener to its end: SMTP connections (module  *)
(* SmtpSession) under a permit each, SIGTERM, the 30 seconds of grace, and *)
(* the drop of the runtime that ends the process. The connections of the   *)
(* other listener are the subject of Outbound.                             *)
(***************************************************************************)
EXTENDS SmtpSession

CONSTANTS
  MaxConnections   \* permits: DEFAULT_MAX_CONNECTIONS

ASSUME ConnectionAssumption ==
  /\ MaxConnections \in Nat \ {0}
  /\ IsFiniteSet(Session)

VARIABLES
  permits,  \* connections that hold a permit of the semaphore
  open,     \* the accept loop runs
  term,     \* SIGTERM or SIGINT was received
  grace,    \* 30 seconds have passed since the SMTP listener closed
  phase,    \* "up", then the runtime is "dropping", then "exited"
  aborted   \* history: connections dropped by the end of the process

serveVars == <<permits, open, term, grace, phase, aborted>>
vars == <<smtpVars, serveVars>>

InitServe ==
  /\ permits = {}
  /\ open = TRUE /\ term = FALSE /\ grace = FALSE
  /\ phase = "up" /\ aborted = {}

Init == InitSmtp /\ InitServe

OnlySmtp == UNCHANGED <<open, term, grace, phase, aborted>>

-----------------------------------------------------------------------------
(* SMTP connections. A permit belongs to the task of its connection and    *)
(* goes back when the task ends, in whatever way.                          *)

PermitsFollow == permits' = {s \in permits : ses'[s].at # "gone"}

Accept(s) ==
  /\ phase = "up" /\ open /\ ses[s].at = "new"
  /\ Cardinality(permits) < MaxConnections
  /\ permits' = permits \cup {s}
  /\ ses' = [ses EXCEPT ![s].at = "line"]
  /\ Served /\ NoHistory /\ OnlySmtp

(* try_acquire_owned failed: 421 at once.                                  *)
Reject(s) ==
  /\ phase = "up" /\ open /\ ses[s].at = "new"
  /\ Cardinality(permits) >= MaxConnections
  /\ Close(s) /\ Served /\ NoHistory /\ OnlySmtp /\ UNCHANGED permits

Step(s) ==
  /\ phase = "up"
  /\ SessionStep(s) \/ \E n \in Name : Ingest(s, n)
  /\ PermitsFollow /\ OnlySmtp

(* A slip: what drops the session keeps the permit.                        *)
TimeOutKeepingPermit(s) == phase = "up" /\ Deadline(s) /\ OnlySmtp /\ UNCHANGED permits

TimeOut(s) == phase = "up" /\ Deadline(s) /\ PermitsFollow /\ OnlySmtp

(* Blocking threads outlive their connection, and the drop of the runtime  *)
(* waits for them.                                                         *)
Work(s) == WorkerStep(s) /\ phase # "exited" /\ OnlySmtp /\ UNCHANGED permits

Change == phase = "up" /\ SnapshotChanges /\ OnlySmtp /\ UNCHANGED permits

-----------------------------------------------------------------------------
(* The end.                                                                *)

Sigterm ==
  /\ phase = "up" /\ ~term
  /\ term' = TRUE
  /\ UNCHANGED <<smtpVars, permits, open, grace, phase, aborted>>

(* A slip: the accept loop does not look at the signal.                    *)
StopListeningNever ==
  /\ FALSE
  /\ open' = FALSE
  /\ UNCHANGED <<smtpVars, permits, term, grace, phase, aborted>>

(* shutdown.changed() in the accept loop                                   *)
StopListening ==
  /\ phase = "up" /\ term /\ open
  /\ open' = FALSE
  /\ UNCHANGED <<smtpVars, permits, term, grace, phase, aborted>>

GraceEnds ==
  /\ phase = "up" /\ ~open /\ ~grace
  /\ grace' = TRUE
  /\ UNCHANGED <<smtpVars, permits, open, term, phase, aborted>>

(* SmtpServer::run has returned.                                           *)
MayStop == ~open /\ (permits = {} \/ grace)

(* The runtime is dropped: every task ends at the await it is at.          *)
Drop ==
  /\ phase = "up" /\ MayStop
  /\ phase' = "dropping"
  /\ aborted' = {s \in Session : ses[s].at \in Live}
  /\ ses' = [s \in Session |->
       IF ses[s].at \in Live THEN Gone(ses[s]) ELSE ses[s]]
  /\ permits' = {}
  /\ cut' = cut \cup {Of(s) : s \in {t \in Session : ses[t].at = "data"}}
  /\ Served /\ UNCHANGED <<acked, open, term, grace>>

Exit ==
  /\ phase = "dropping"
  /\ \A s \in Session : worker[s] = NoName
  /\ phase' = "exited"
  /\ UNCHANGED <<smtpVars, permits, open, term, grace, aborted>>

Next ==
  \/ \E s \in Session :
       Accept(s) \/ Reject(s) \/ Step(s) \/ TimeOut(s) \/ Work(s)
  \/ Change \/ Sigterm \/ GraceEnds \/ Drop \/ StopListening \/ Exit

Spec == Init /\ [][Next]_vars

(* Clocks run, the accept loop sees the signal, deliveries end (Inbox says *)
(* why), the runtime gets to its end. No client need do anything.          *)
Fairness ==
  /\ \A s \in Session : WF_vars(TimeOut(s)) /\ WF_vars(Work(s))
  /\ WF_vars(StopListening) /\ WF_vars(GraceEnds)
  /\ WF_vars(Drop) /\ WF_vars(Exit)

FairSpec == Spec /\ Fairness

-----------------------------------------------------------------------------
(* Properties.                                                             *)

TypeOK ==
  /\ snap \subseteq Box /\ changes \in 0..MaxChanges
  /\ ses \in [Session -> SessionState]
  /\ worker \in [Session -> Name \cup {NoName}]
  /\ stored \subseteq Letter \X Box
  /\ acked \subseteq Letter \X Name
  /\ cut \subseteq Letter
  /\ permits \subseteq Session
  /\ open \in BOOLEAN /\ term \in BOOLEAN /\ grace \in BOOLEAN
  /\ phase \in {"up", "dropping", "exited"}
  /\ aborted \subseteq Session

(* The recipients of a transaction are those the client was told 250 for   *)
(* since its last MAIL, on this side of STARTTLS: EHLO, RSET, a letter     *)
(* refused half-way and TLS all end a transaction (reset_transaction and   *)
(* its callers).                                                           *)
NoStrayRecipient ==
  \A s \in Session : \A n \in ses[s].paths \cup ses[s].todo :
    <<n, ses[s].tls>> \in ses[s].agreed

(* 250 to a letter means that each of its recipients has it, in the        *)
(* mailbox that the snapshot taken at the end of the letter routed it to   *)
(* (the counts in deliver_message).                                        *)
AckedIsStored ==
  [][\A a \in acked' \ acked :
       <<a[1], Route(ses[a[1][1]].view, a[2])>> \in stored]_vars

(* Of a letter the server gave up on (bare LF, too long, timed out, the    *)
(* connection lost) nothing is stored for anybody, whatever the client     *)
(* sends next (the returns in receive_data).                               *)
CutNeverStored ==
  \A entry \in stored : entry[1] \notin cut

(* A connection that the shutdown cuts has had its 30 seconds: run() only  *)
(* returns earlier when every permit is back, and no connection lives      *)
(* without one (SmtpServer::run).                                          *)
OnlyGraceCuts ==
  aborted # {} => grace

(* The server that refused a connection takes one again later: every way   *)
(* out of a session returns its permit, and timeout_at sees to it that     *)
(* there is one (SmtpSession::handle).                                     *)
PermitsComeBack ==
  (Cardinality(permits) >= MaxConnections) ~> (Cardinality(permits) < MaxConnections)

(* SIGTERM ends the process, whatever the clients do (signal loop, both    *)
(* accept loops, the grace period).                                        *)
SigtermEnds == term ~> (phase = "exited")
=============================================================================
