------------------------- MODULE ConfigRefinement -------------------------
(***************************************************************************)
(* ConfigStore implements AtomicConfig while the daemon is the only writer *)
(* of its file and directories: a client cannot tell the locks, the two    *)
(* copies and the crashes from a configuration that changes in one step    *)
(* per request.                                                            *)
(*                                                                         *)
(* The configuration clients see is the snapshot while the daemon runs and *)
(* the file while it does not, so a request takes effect at its            *)
(* ConfigHandle::store, or at the crash that follows its rename.  `missed` *)
(* is a history variable: a handler may learn that its request is not      *)
(* entitled to succeed some steps before it says so.                       *)
(***************************************************************************)
EXTENDS ConfigStore

VARIABLE missed

served == IF up THEN mem ELSE disk

status ==
  [r \in Slot |-> IF reply[r] = "none" THEN "open" ELSE reply[r]]

HInit ==
  /\ Init
  /\ missed = {r \in Slot : ~Legal(op[r], served)}

HNext ==
  /\ Next
  /\ missed' = missed \cup {r \in Slot : ~Legal(op[r], served')}

hvars == <<vars, missed>>

HSpec == HInit /\ [][HNext]_hvars /\ (\A r \in Slot : WF_vars(Handle(r)))

Atomic == INSTANCE AtomicConfig WITH config <- served

(* Linearizability of MAILBOX-CREATE, MAILBOX-DELETE, HOOK-CREATE and      *)
(* HOOK-DELETE: every "ok" is one atomic change its requester was entitled *)
(* to at that very step, every refusal was true at some moment of the      *)
(* request, every failure left the configuration alone, and a crash loses  *)
(* answers but keeps changes whole.                                        *)
ImplementsAtomicConfig == Atomic!Spec
=============================================================================
