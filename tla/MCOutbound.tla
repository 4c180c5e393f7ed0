----------------------------- MODULE MCOutbound -----------------------------
(***************************************************************************)
(* Instances of Outbound for TLC: the programs a hook may be.              *)
(***************************************************************************)
EXTENDS Outbound

(* Deaf, and with a process of its own that stays, in each sandbox, and a  *)
(* systemd-run that hangs.                                                 *)
MCPrograms ==
  {[sandbox |-> "setuid", deaf |-> TRUE, forks |-> TRUE, broken |-> FALSE],
   [sandbox |-> "systemd", deaf |-> TRUE, forks |-> TRUE, broken |-> FALSE],
   [sandbox |-> "systemd", deaf |-> TRUE, forks |-> TRUE, broken |-> TRUE]}

MCForking == {p \in Program : ~p.broken}
=============================================================================
