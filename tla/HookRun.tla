------------------------------ MODULE HookRun ------------------------------
(***************************************************************************)
(* One hook under run_child_with_timeout: the child and what it leaves     *)
(* behind, the parent's loop that polls, signals and reaps, the threads    *)
(* that drain the pipes, and the two ways of starting the child. Time is   *)
(* three marks: before the limit, past it, past the 5 seconds after it.    *)
(***************************************************************************)
EXTENDS Naturals

CONSTANTS
  Run,     \* places a hook may run in
  Programs \* what hooks may be: see Program

(* sandbox: how it was started. deaf: it lives on after SIGTERM. forks: a  *)
(* process of its own stays when it exits, with the pipes open. broken:    *)
(* systemd-run itself hangs.                                               *)
Program == [sandbox: {"setuid", "systemd"}, deaf: BOOLEAN, forks: BOOLEAN, broken: BOOLEAN]

ASSUME ProgramAssumption ==
  /\ Programs \subseteq Program
  /\ \A p \in Programs : p.broken => p.sandbox = "systemd"

VARIABLE run  \* the state of each hook

RunPlaces == {"none", "polling", "joining", "returned"}

RunState ==
  [at: RunPlaces,
   prog: Program,
   child: BOOLEAN,            \* the process the parent started lives
   rest: BOOLEAN,             \* a process that holds the pipes outlives it
   time: {"within", "limit", "grace"},
   term: BOOLEAN,             \* sigterm_sent
   kill: BOOLEAN,             \* SIGKILL was sent
   timedOut: BOOLEAN]         \* what is reported

NoProgram == [sandbox |-> "setuid", deaf |-> FALSE, forks |-> FALSE, broken |-> FALSE]

NoRun == [at |-> "none", prog |-> NoProgram, child |-> FALSE, rest |-> FALSE,
          time |-> "within", term |-> FALSE, kill |-> FALSE, timedOut |-> FALSE]

InitRun == run = [h \in Run |-> NoRun]

Update(h, r) == run' = [run EXCEPT ![h] = r]
Started(h) == run[h].at \in {"polling", "joining"}

(* run_child_with_timeout has a child; its pipes are fed and drained by    *)
(* threads, and the clock of the limit starts.                             *)
Child(p) == [NoRun EXCEPT !.at = "polling", !.prog = p, !.child = TRUE, !.rest = p.forks]

(* spawn_via_systemd_run or spawn_via_fork_setuid got as far as a child.   *)
Spawn(h) == \E p \in Programs : Update(h, Child(p))

-----------------------------------------------------------------------------
(* The program.                                                            *)

(* It may end by itself at any time; under systemd-run the unit's other    *)
(* processes are ended with it.                                            *)
Ends(h) ==
  /\ Started(h) /\ run[h].child /\ ~run[h].prog.broken
  /\ Update(h, [run[h] EXCEPT !.child = FALSE,
                              !.rest = @ /\ run[h].prog.sandbox = "setuid"])

(* What it left behind may end by itself too, or never.                    *)
RestEnds(h) ==
  /\ Started(h) /\ run[h].rest /\ ~run[h].child
  /\ Update(h, [run[h] EXCEPT !.rest = FALSE])

(* The clock. The grace runs from the SIGTERM.                             *)
Tick(h) ==
  /\ run[h].at = "polling"
  /\ \/ run[h].time = "within" /\ Update(h, [run[h] EXCEPT !.time = "limit"])
     \/ run[h].time = "limit" /\ run[h].term /\ Update(h, [run[h] EXCEPT !.time = "grace"])

(* RuntimeMaxSec: systemd ends the unit, deaf or not, and systemd-run then *)
(* returns by itself.                                                      *)
UnitEnds(h) ==
  /\ Started(h) /\ run[h].child
  /\ run[h].prog.sandbox = "systemd" /\ ~run[h].prog.broken /\ run[h].time # "within"
  /\ Update(h, [run[h] EXCEPT !.child = FALSE, !.rest = FALSE])

-----------------------------------------------------------------------------
(* The parent's loop.                                                      *)

(* try_wait found the child gone.                                          *)
Reap(h) ==
  /\ run[h].at = "polling" /\ ~run[h].child
  /\ Update(h, [run[h] EXCEPT !.at = "joining"])

(* kill(-pid): only a child that called setsid leads a group to be hit.    *)
Struck(r, deadly) ==
  LET hit == r.prog.sandbox = "setuid" /\ (deadly \/ ~r.prog.deaf)
  IN [r EXCEPT !.child = @ /\ ~hit, !.rest = @ /\ ~hit]

SendTerm(h) ==
  /\ run[h].at = "polling" /\ run[h].child /\ ~run[h].term /\ run[h].time # "within"
  /\ Update(h, Struck([run[h] EXCEPT !.term = TRUE, !.timedOut = TRUE], FALSE))

(* A slip: the second signal is a SIGTERM again.                           *)
SendKillGently(h) ==
  /\ run[h].at = "polling" /\ run[h].child /\ run[h].term /\ ~run[h].kill
  /\ run[h].time = "grace"
  /\ Update(h, Struck([run[h] EXCEPT !.kill = TRUE], FALSE))

SendKill(h) ==
  /\ run[h].at = "polling" /\ run[h].child /\ run[h].term /\ ~run[h].kill
  /\ run[h].time = "grace"
  /\ Update(h, Struck([run[h] EXCEPT !.kill = TRUE], TRUE))

(* The drain threads reach the end of their pipes when nobody holds them   *)
(* any more; only then does the parent return.                             *)
Join(h) ==
  /\ run[h].at = "joining" /\ ~run[h].rest
  /\ Update(h, [run[h] EXCEPT !.at = "returned"])

(* Programs need do nothing; the parent goes on.                           *)
Parent(h) == Reap(h) \/ SendTerm(h) \/ SendKill(h) \/ Join(h)

RunStep(h) == Ends(h) \/ RestEnds(h) \/ Tick(h) \/ UnitEnds(h) \/ Parent(h)
=============================================================================
