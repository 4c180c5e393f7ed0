--------------------------- MODULE MCConfigStore ---------------------------
(***************************************************************************)
(* Instances of ConfigStore for TLC: two mailboxes, two users, one hook    *)
(* name, and the requests that collide on them.                            *)
(***************************************************************************)
EXTENDS ConfigStore, TLC

CONSTANTS m1, m2, u1, u2, h1

Req(verb, m, caller) ==
  [verb |-> verb, mailbox |-> m, caller |-> caller, owner |-> u2,
   hook |-> h1, force |-> caller = Root]

(* m1 is u1's and carries the hook; or nothing is configured yet. *)
MCStarts == {EmptyConfig, WithHook(WithMailbox(EmptyConfig, m1, u1), m1, h1)}

MailboxOps ==
  {Req("CREATE", m1, u1), Req("CREATE", m1, u2), Req("CREATE", m2, Root),
   Req("DELETE", m1, u1), Req("DELETE", m1, Root)}
HookOps ==
  {Req("HOOK-CREATE", m1, u1), Req("HOOK-CREATE", m2, u2), Req("HOOK-DELETE", m1, u1)}
MailOps == {Req("INGEST", m1, Root), Req("SEND", m1, u1)}

AllOps == MailboxOps \cup HookOps \cup MailOps

Symmetry == Permutations(Slot)
=============================================================================
