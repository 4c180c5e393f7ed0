-------------------------- MODULE InboxRefinement --------------------------
(***************************************************************************)
(* Inbox implements AtomicInbox: neither the MTA nor the owner can tell    *)
(* the lock, the two writes of a file and the entry that is made after     *)
(* them from a store in one step.  A letter counts as remembered from the  *)
(* moment its file is whole, when its session still has the entry to make. *)
(***************************************************************************)
EXTENDS Inbox

present == {f.msg : f \in {g \in mail : g.text = "whole" /\ g.fresh}}
Recording == {s \in Session : ses[s].at = "written"}
remembered == seen \cup {ses[s].msg : s \in Recording}

Atomic == INSTANCE AtomicInbox WITH
  over <- lapsed, awake <- built, days <- env.lapses, restarts <- env.restarts

(* Exactly-once as ingest_email and its cache provide it: no letter is     *)
(* stored, in whatever order deliveries, MARKs, wipes, failures and        *)
(* restarts cross, while its id is remembered; ids are forgotten by time   *)
(* and restarts only (a letter that was wiped does not come back); and     *)
(* every 250 and every hook is of a letter that has been stored.           *)
ImplementsAtomicInbox == Atomic!Spec
=============================================================================
