---------------------------- MODULE AtomicConfig ----------------------------
(***************************************************************************)
(* What a client of the daemon may rely on: every request takes effect in  *)
(* one step, or not at all, and its answer is true of that step.           *)
(*                                                                         *)
(*   "ok"       the request was entitled to succeed and its effect is in   *)
(*   "refused"  at some moment while it was open it was not entitled to    *)
(*   "failed"   something outside the configuration stopped it (an I/O     *)
(*              error, mail in the mailbox, a directory of another owner); *)
(*              the configuration is untouched                             *)
(*   "lost"     the daemon died first; its effect may be in, whole, or not *)
(***************************************************************************)
EXTENDS ConfigModel

CONSTANT Slot   \* open client connections

VARIABLES
  config,   \* the configuration clients see
  op,       \* the request of each slot
  status,   \* "open" or the answer
  missed    \* slots whose request was, at some moment, not entitled to succeed

vars == <<config, op, status, missed>>

Init ==
  /\ config \in Config
  /\ op \in [Slot -> Request]
  /\ status = [r \in Slot |-> "open"]
  /\ missed = {r \in Slot : ~Legal(op[r], config)}

Observe == missed' = missed \cup {r \in Slot : ~Legal(op[r], config')}

Succeed(r) ==
  /\ status[r] = "open"
  /\ \/ Legal(op[r], config)
     \* mail that was routed while the mailbox existed is still stored
     \/ op[r].verb \in {"INGEST", "SEND"}
  /\ Outcome(op[r], config, config')
  /\ status' = [status EXCEPT ![r] = "ok"]
  /\ Observe
  /\ UNCHANGED op

Refuse(r) ==
  /\ status[r] = "open"
  /\ r \in missed
  /\ status' = [status EXCEPT ![r] = "refused"]
  /\ UNCHANGED <<config, op, missed>>

Fail(r) ==
  /\ status[r] = "open"
  /\ status' = [status EXCEPT ![r] = "failed"]
  /\ UNCHANGED <<config, op, missed>>

(* The daemon dies: the slots in L get no answer; one of them may have     *)
(* taken effect, the one between its rename and its acknowledgement.       *)
Crash(L) ==
  /\ \A r \in L : status[r] = "open"
  /\ status' = [r \in Slot |-> IF r \in L THEN "lost" ELSE status[r]]
  /\ \/ config' = config
     \/ \E r \in L : Legal(op[r], config) /\ Outcome(op[r], config, config')
  /\ Observe
  /\ UNCHANGED op

Next ==
  \/ \E r \in Slot : Succeed(r) \/ Refuse(r) \/ Fail(r)
  \/ \E L \in SUBSET Slot : Crash(L)

Spec == Init /\ [][Next]_vars
=============================================================================
