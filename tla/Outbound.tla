------------------------------ MODULE Outbound ------------------------------
(***************************************************************************)
(* Connections of the UDS listener and the SEND that one may carry: the    *)
(* request is read, its letter offered to the MX hosts in turn, recorded   *)
(* under sent/ with a file name of its own, and told to the after_send     *)
(* hooks (module HookRun), one after the other; then the client hears.     *)
(* All letters here are from one mailbox, with one subject, in the same    *)
(* second: their file names differ in the suffix only.                     *)
(***************************************************************************)
EXTENDS HookRun, FiniteSets

CONSTANTS
  NoReq,     \* "no request"
  MaxHosts,  \* bound on the MX hosts of a domain
  MaxHooks   \* bound on the after_send hooks of the mailbox

ASSUME RequestAssumption == IsFiniteSet(Run) /\ NoReq \notin Run
ASSUME BoundAssumption == MaxHosts \in Nat \ {0} /\ MaxHooks \in Nat

Request == Run                 \* its hooks run one at a time
Id == 1..Cardinality(Request)  \* suffixes allocate_filename may get to

VARIABLES
  req,   \* the state of each connection and its request
  sent,  \* the files of sent/<mailbox>
  lock   \* SENT_WRITE_LOCK

vars == <<run, req, sent, lock>>

Outcomes == {"ok", "temp", "delivery"}
Sending == {"sending", "hosts", "persist", "allocate", "create", "write", "hooks"}
Open == {"reading", "draining", "paused", "reply"} \cup Sending

RequestState ==
  [at: {"new", "answered", "dropped"} \cup Open,
   left: 0..MaxHosts,      \* MX hosts not tried yet
   took: 0..MaxHosts,      \* history: hosts that answered 250
   refused: BOOLEAN,       \* saw_permanent, or an address nobody could send to
   said: {"none", "refused", "protocol"} \cup Outcomes,  \* the answer
   id: Id \cup {0},        \* the file name it allocated
   path: BOOLEAN,          \* persisted_path is Some: the file was written
   fault: BOOLEAN,         \* history: the file system failed it
   hooks: 0..MaxHooks]     \* hooks not fired yet

NewRequest ==
  [at |-> "new", left |-> 0, took |-> 0, refused |-> FALSE, said |-> "none",
   id |-> 0, path |-> FALSE, fault |-> FALSE, hooks |-> 0]

NoFile == [by |-> NoReq, text |-> "absent"]

Init ==
  /\ InitRun
  /\ req = [q \in Request |-> NewRequest]
  /\ sent = [n \in Id |-> NoFile]
  /\ lock = NoReq

Become(q, r) == req' = [req EXCEPT ![q] = r]
Disk == <<sent, lock>>

-----------------------------------------------------------------------------
(* The connection.                                                         *)

(* A connection without SO_PEERCRED is answered EACCES and closed.         *)
Connect(q) ==
  /\ req[q].at = "new"
  /\ \/ Become(q, [NewRequest EXCEPT !.at = "reading"])
     \/ Become(q, [NewRequest EXCEPT !.at = "answered", !.said = "refused"])
  /\ UNCHANGED <<run, Disk>>

(* UDS_REQUEST_TIMEOUT, or the end of the stream before a request.         *)
Dropped(q) ==
  /\ req[q].at = "reading"
  /\ Become(q, [req[q] EXCEPT !.at = "dropped"])
  /\ UNCHANGED <<run, Disk>>

(* A frame that does not parse: what else the client sends is read first.  *)
Misframed(q) ==
  /\ req[q].at = "reading"
  /\ Become(q, [req[q] EXCEPT !.at = "draining", !.said = "protocol"])
  /\ UNCHANGED <<run, Disk>>

(* The client closes its side, or sends nothing for 50 ms; every byte it   *)
(* sends before that begins the 50 ms anew.                                *)
Pauses(q) ==
  /\ req[q].at = "draining"
  /\ Become(q, [req[q] EXCEPT !.at = "paused"])
  /\ UNCHANGED <<run, Disk>>

Drained(q) ==
  /\ req[q].at = "paused"
  /\ Become(q, [req[q] EXCEPT !.at = "reply"])
  /\ UNCHANGED <<run, Disk>>

(* MALFORMED, DOMAIN, MAILBOX, EACCES, BODY-TOO-LARGE, SIGN: nothing was   *)
(* sent, no hook fires. The other verbs are answered here as well.         *)
Refused(q) ==
  /\ req[q].at = "reading"
  /\ Become(q, [req[q] EXCEPT !.at = "reply", !.said = "refused"])
  /\ UNCHANGED <<run, Disk>>

(* A SEND that may be sent, with the hooks of the snapshot it was read in. *)
Accepted(q) ==
  /\ req[q].at = "reading"
  /\ \E n \in 0..MaxHooks : Become(q, [req[q] EXCEPT !.at = "sending", !.hooks = n])
  /\ UNCHANGED <<run, Disk>>

Reply(q) ==
  /\ req[q].at = "reply"
  /\ Become(q, [req[q] EXCEPT !.at = "answered"])
  /\ UNCHANGED <<run, Disk>>

-----------------------------------------------------------------------------
(* The MX hosts.                                                           *)

(* What handle_send makes of the transport's result: only a temporary      *)
(* failure leaves no record.                                               *)
Told(r, outcome) ==
  [r EXCEPT !.said = outcome, !.left = 0,
            !.at = IF outcome = "temp" THEN "hooks" ELSE "persist"]

(* The MX lookup: it fails, or an address is no address, or there are      *)
(* hosts.                                                                  *)
Resolve(q) ==
  /\ req[q].at = "sending"
  /\ \/ Become(q, Told(req[q], "temp"))
     \/ Become(q, Told([req[q] EXCEPT !.refused = TRUE], "delivery"))
     \/ \E n \in 1..MaxHosts : Become(q, [req[q] EXCEPT !.at = "hosts", !.left = n])
  /\ UNCHANGED <<run, Disk>>

(* The next host: 250, a 5xx, or anything else. A time-out after the last  *)
(* dot is "anything else", whatever the host made of the letter.           *)
Try(q) ==
  LET r == [req[q] EXCEPT !.left = @ - 1] IN
  /\ req[q].at = "hosts" /\ req[q].left > 0
  /\ \/ Become(q, Told([r EXCEPT !.took = @ + 1], "ok"))
     \/ Become(q, [r EXCEPT !.refused = TRUE])
     \/ Become(q, r)
  /\ UNCHANGED <<run, Disk>>

(* A slip: the last host's failure decides.                                *)
GiveUpTemp(q) ==
  /\ req[q].at = "hosts" /\ req[q].left = 0
  /\ Become(q, Told(req[q], "temp"))
  /\ UNCHANGED <<run, Disk>>

(* No host took it: one permanent refusal among the failures is enough.    *)
GiveUp(q) ==
  /\ req[q].at = "hosts" /\ req[q].left = 0
  /\ Become(q, Told(req[q], IF req[q].refused THEN "delivery" ELSE "temp"))
  /\ UNCHANGED <<run, Disk>>

-----------------------------------------------------------------------------
(* persist_sent_file                                                       *)

Persisting == {"persist", "allocate", "create", "write"}

(* A directory cannot be made, the file not be created or written: no      *)
(* path, and what was created stays. The guard of the lock is dropped.     *)
DiskFails(q) ==
  /\ req[q].at \in Persisting
  /\ Become(q, [req[q] EXCEPT !.at = "hooks", !.fault = TRUE])
  /\ lock' = IF lock = q THEN NoReq ELSE lock
  /\ UNCHANGED <<run, sent>>

(* A slip: nobody waits for the lock.                                      *)
TakeNoLock(q) ==
  /\ req[q].at = "persist"
  /\ Become(q, [req[q] EXCEPT !.at = "allocate"])
  /\ UNCHANGED <<run, sent, lock>>

TakeLock(q) ==
  /\ req[q].at = "persist" /\ lock = NoReq
  /\ lock' = q
  /\ Become(q, [req[q] EXCEPT !.at = "allocate"])
  /\ UNCHANGED <<run, sent>>

(* allocate_filename: the first suffix that is free.                       *)
Allocate(q) ==
  /\ req[q].at = "allocate"
  /\ \E n \in Id :
       /\ sent[n] = NoFile /\ \A m \in 1..(n - 1) : sent[m] # NoFile
       /\ Become(q, [req[q] EXCEPT !.at = "create", !.id = n])
  /\ UNCHANGED <<run, Disk>>

(* File::create_new: an error if the name has been taken meanwhile.        *)
Create(q) ==
  /\ req[q].at = "create"
  /\ lock' = IF lock = q THEN NoReq ELSE lock
  /\ IF sent[req[q].id] = NoFile
     THEN /\ sent' = [sent EXCEPT ![req[q].id] = [by |-> q, text |-> "empty"]]
          /\ Become(q, [req[q] EXCEPT !.at = "write"])
     ELSE UNCHANGED sent /\ Become(q, [req[q] EXCEPT !.at = "hooks", !.id = 0])
  /\ UNCHANGED run

(* The record is written outside the lock.                                 *)
Write(q) ==
  /\ req[q].at = "write"
  /\ sent' = [sent EXCEPT ![req[q].id] = [by |-> q, text |-> req[q].said]]
  /\ Become(q, [req[q] EXCEPT !.at = "hooks", !.path = TRUE])
  /\ UNCHANGED <<run, lock>>

-----------------------------------------------------------------------------
(* The after_send hooks, one after the other.                              *)

FireHook(q) ==
  /\ req[q].at = "hooks" /\ req[q].hooks > 0 /\ run[q].at = "none"
  /\ Become(q, [req[q] EXCEPT !.hooks = @ - 1])
  /\ Spawn(q)
  /\ UNCHANGED Disk

(* resolve_argv or the spawn failed: logged, and the next one is fired.    *)
HookFails(q) ==
  /\ req[q].at = "hooks" /\ req[q].hooks > 0 /\ run[q].at = "none"
  /\ Become(q, [req[q] EXCEPT !.hooks = @ - 1])
  /\ UNCHANGED <<run, Disk>>

HookReturns(q) ==
  /\ run[q].at = "returned"
  /\ run' = [run EXCEPT ![q] = NoRun]
  /\ UNCHANGED <<req, Disk>>

HooksDone(q) ==
  /\ req[q].at = "hooks" /\ req[q].hooks = 0 /\ run[q].at = "none"
  /\ Become(q, [req[q] EXCEPT !.at = "reply"])
  /\ UNCHANGED <<run, Disk>>

HookStep(q) == RunStep(q) /\ UNCHANGED <<req, Disk>>

-----------------------------------------------------------------------------
Handler(q) ==
  \/ Resolve(q) \/ Try(q) \/ GiveUp(q)
  \/ TakeLock(q) \/ Allocate(q) \/ Create(q) \/ Write(q)
  \/ FireHook(q) \/ HookReturns(q) \/ HooksDone(q) \/ Reply(q)

Client(q) ==
  \/ Connect(q) \/ Dropped(q) \/ Misframed(q) \/ Pauses(q) \/ Drained(q)
  \/ Refused(q) \/ Accepted(q)

Next ==
  \E q \in Request :
    Client(q) \/ Handler(q) \/ DiskFails(q) \/ HookFails(q) \/ HookStep(q)

Spec == Init /\ [][Next]_vars

(* The handler goes on: every host answers or times out within 60 seconds, *)
(* and each asks for the lock once. A connection is dropped after 30       *)
(* seconds of reading, and one that is drained goes on after 50 ms of      *)
(* silence. No client has to be silent, and no program to end.             *)
Fairness ==
  /\ \A q \in Request :
       /\ WF_vars(Dropped(q)) /\ WF_vars(Drained(q))
       /\ WF_vars(Handler(q))
       /\ WF_vars(Tick(q) /\ UNCHANGED <<req, Disk>>)
       /\ WF_vars(UnitEnds(q) /\ UNCHANGED <<req, Disk>>)
       /\ WF_vars(Parent(q) /\ UNCHANGED <<req, Disk>>)

FairSpec == Spec /\ Fairness

-----------------------------------------------------------------------------
(* Properties.                                                             *)

TypeOK ==
  /\ run \in [Run -> RunState]
  /\ req \in [Request -> RequestState]
  /\ sent \in [Id -> [by: Request \cup {NoReq}, text: {"absent", "empty", "ok", "delivery"}]]
  /\ lock \in Request \cup {NoReq}

(* OK means that one MX host took the letter and DELIVERY that some host   *)
(* refused it for good and none took it; TEMP that neither happened        *)
(* (deliver_across_mx, handle_send_with_signer).                           *)
AnswerTellsHosts ==
  \A q \in Request :
    /\ req[q].said = "ok" => req[q].took = 1
    /\ req[q].said = "delivery" => req[q].refused /\ req[q].took = 0
    /\ req[q].said = "temp" => ~req[q].refused /\ req[q].took = 0

(* The file a hook is pointed to is this request's own, written to its     *)
(* end, and says what the client will hear (persist_sent_file: the file    *)
(* is written after the lock is given back).                               *)
HookSeesRecord ==
  \A q \in Request :
    req[q].path => sent[req[q].id] = [by |-> q, text |-> req[q].said]

(* While a hook runs its request is not answered, and every hook was       *)
(* started after the outcome was known (fire_after_send_hooks).            *)
HooksWithinRequest ==
  \A q \in Request :
    run[q].at # "none" => req[q].at = "hooks" /\ req[q].said \in Outcomes

(* A letter that an MX host took, or refused for good, is on record when   *)
(* the client hears so, unless the file system failed: two requests never  *)
(* lose a record to each other (SENT_WRITE_LOCK).                          *)
OutcomeIsRecorded ==
  \A q \in Request :
    req[q].at \in {"reply", "answered"} /\ req[q].said \in {"ok", "delivery"}
      => req[q].path \/ req[q].fault

(* A hook is killed only after a SIGTERM and the five seconds, and the     *)
(* parent never leaves a process behind that could still write to its      *)
(* pipes (run_child_with_timeout).                                         *)
HookEndsInOrder ==
  \A h \in Run :
    /\ run[h].kill => run[h].term /\ run[h].timedOut /\ run[h].time = "grace"
    /\ run[h].at = "returned" => ~run[h].child /\ ~run[h].rest

(* What nothing ends in time: a process left behind by a hook that holds   *)
(* its pipes, or a systemd-run that hangs, as no signal gets to either.    *)
Wedged(h) ==
  \/ run[h].at = "joining" /\ run[h].rest
  \/ run[h].at = "polling" /\ run[h].prog.broken

(* Every connection ends, whatever the MX hosts, the file system and the   *)
(* other connection do, with two exceptions: a client that sends for ever, *)
(* after a frame that does not parse, without a pause of 50 ms (the drain  *)
(* has no limit of its own), and a hook of this very request that is       *)
(* wedged for ever (handle_uds_connection_with_timeout, the transport's    *)
(* time-outs, run_child_with_timeout).                                     *)
ConnectionEnds ==
  \A q \in Request :
    (req[q].at = "reading") ~> \/ req[q].at \in {"answered", "dropped"}
                              \/ [](req[q].at = "draining")
                              \/ []Wedged(q)

(* "Hard subprocess timeout ... SIGTERM at the limit, SIGKILL 5s later":   *)
(* no program keeps the request that fired it from its answer              *)
(* (book/hooks.md, and the comment on setsid in spawn_via_fork_setuid).    *)
HardTimeout ==
  \A h \in Run : (run[h].at = "polling") ~> (run[h].at \in {"returned", "none"})
=============================================================================
