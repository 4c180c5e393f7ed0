------------------------ MODULE MCConfigRefinement ------------------------
(***************************************************************************)
(* The refinement of AtomicConfig on three slots: enough for every pair of *)
(* writers to collide on one stanza or on two while a third one, or the    *)
(* death of the daemon, comes in between.                                  *)
(***************************************************************************)
EXTENDS ConfigRefinement

CONSTANTS m1, m2, u1, u2, h1

Req(verb, m, caller) ==
  [verb |-> verb, mailbox |-> m, caller |-> caller, owner |-> u2,
   hook |-> h1, force |-> caller = Root]

MCStarts == {EmptyConfig, WithHook(WithMailbox(EmptyConfig, m1, u1), m1, h1)}

WriterOps ==
  {Req("CREATE", m1, u1), Req("CREATE", m1, u2), Req("CREATE", m2, Root),
   Req("DELETE", m1, Root),
   Req("HOOK-CREATE", m1, u1), Req("HOOK-CREATE", m2, u2), Req("HOOK-DELETE", m1, u1)}
=============================================================================
