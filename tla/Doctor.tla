------------------------------- MODULE Doctor -------------------------------
(***************************************************************************)
(* aimx doctor: it loads the configuration once and then looks at users,   *)
(* directories and storage one after the other, while the daemon creates   *)
(* and deletes mailboxes and the operator adds and removes users and       *)
(* repairs, or breaks, directories. Its exit code is what scripts read.    *)
(***************************************************************************)
EXTENDS Naturals, FiniteSets

CONSTANTS
  Mailbox,
  Catchall,  \* one of them
  Owner,     \* user names; Reserved is the catchall's own
  Reserved,
  MaxRuns,   \* bound on runs of doctor
  MaxChanges \* bound on what the others do

Box == {"inbox", "sent"}
None == "none"

DoctorConstants == Catchall \in Mailbox /\ Reserved \in Owner /\ None \notin Owner

VARIABLES
  owner,   \* config.toml: who owns a mailbox, or none when there is no stanza
  users,   \* the names that getpwnam knows
  dir,     \* by mailbox and box: what is there
  run,     \* the run at work, or the last one
  lasting, \* history: the faults there have been ever since the run began
  met,     \* history: those there were at some time since
  runs, changes

vars == <<owner, users, dir, run, lasting, met, runs, changes>>

(* Whose a directory is; with the group and the mode doctor expects or not. *)
Nothing == [kind |-> "missing", uid |-> Reserved, tight |-> FALSE]
Entry == {Nothing, [Nothing EXCEPT !.kind = "file"]}
           \cup [kind : {"dir"}, uid : Owner, tight : BOOLEAN]

(* queue: the mailboxes still to be looked at, in no order. boxes: of the  *)
(* one it is at. orphans: rows of the report without an owner.             *)
NoRun == [at |-> "idle", cfg |-> [m \in Mailbox |-> None], queue |-> {}, mailbox |-> None,
          boxes |-> {}, orphans |-> {}, found |-> {}, exit |-> None]

(* A finding: about one box, or the mailbox as a whole (None). Those of     *)
(* severity Fail make doctor fail.                                         *)
Finding(check, m, b) == [check |-> check, mailbox |-> m, box |-> b]
Fail == {"DIR-MISSING", "DIR-NOT-DIR", "OWNER-DRIFT", "CATCHALL-USER-MISSING"}
Check == Fail \cup {"OWNER-ORPHAN", "GROUP-OR-MODE-DRIFT", "ORPHAN-STORAGE", "ORPHAN-CONFIG"}

(* What is wrong with one directory of a mailbox of o's.                   *)
DirFindings(m, o, b) ==
  LET e == dir[m][b]
  IN CASE e.kind = "missing" -> {Finding("DIR-MISSING", m, b)}
       [] e.kind = "file" -> {Finding("DIR-NOT-DIR", m, b)}
       [] OTHER -> (IF e.uid = o THEN {} ELSE {Finding("OWNER-DRIFT", m, b)})
                   \cup (IF e.tight THEN {} ELSE {Finding("GROUP-OR-MODE-DRIFT", m, b)})

CatchallFindings(cfg) ==
  IF cfg[Catchall] = Reserved /\ Reserved \notin users
  THEN {Finding("CATCHALL-USER-MISSING", Catchall, None)} ELSE {}

(* The faults as they are, for the history, of the configuration that was  *)
(* loaded: an owner that is not a user, of any mailbox but the catchall,   *)
(* or a finding of severity Fail; and, for what was met, a directory whose *)
(* owner is not a user (any more).                                         *)
Orphans == {m \in Mailbox \ {Catchall} : run.cfg[m] \notin users \cup {None}}

Faults ==
  {Finding("OWNER-ORPHAN", m, None) : m \in Orphans}
  \cup {f \in CatchallFindings(run.cfg)
              \cup UNION {DirFindings(m, run.cfg[m], b) :
                            m \in {n \in Mailbox : run.cfg[n] \in users}, b \in Box} :
          f.check \in Fail}

Flaws ==
  Faults \cup {f \in UNION {DirFindings(m, run.cfg[m], b) :
                             m \in {n \in Mailbox : run.cfg[n] # None}, b \in Box} :
               f.check \in Fail}

Init ==
  /\ owner \in [Mailbox -> Owner \cup {None}] /\ users \in SUBSET Owner
  /\ \E e \in Entry : dir = [m \in Mailbox |-> [b \in Box |-> IF owner[m] = None THEN Nothing
                  ELSE IF m = Catchall THEN [kind |-> "dir", uid |-> owner[m], tight |-> TRUE]
                  ELSE e]]
  /\ run = NoRun /\ lasting = {} /\ met = {} /\ runs = 0 /\ changes = 0

World == <<owner, users, dir>>
Observe(fresh) ==
  /\ lasting' = IF fresh THEN Faults' ELSE lasting \cap Faults'
  /\ met' = IF fresh THEN Flaws' ELSE met \cup Flaws'

-----------------------------------------------------------------------------
(* doctor.                                                                 *)

Looks == UNCHANGED <<World, lasting, met, runs, changes>>

Load ==
  /\ run.at = "idle" /\ runs < MaxRuns /\ runs' = runs + 1
  /\ run' = [NoRun EXCEPT !.at = "gather", !.cfg = owner,
                          !.queue = {m \in Mailbox : owner[m] # None}]
  /\ UNCHANGED <<World, changes>>
  /\ Observe(TRUE)

Known(m) == run.cfg[m] \in users

(* One row of the report per mailbox; the owner is looked up.              *)
Gather ==
  /\ run.at = "gather" /\ Looks
  /\ \/ \E m \in run.queue :
          run' = [run EXCEPT !.queue = @ \ {m},
                             !.orphans = IF Known(m) \/ m = Catchall THEN @ ELSE @ \cup {m}]
     \/ /\ run.queue = {}
        /\ run' = [run EXCEPT !.at = "owners", !.queue = {m \in Mailbox : run.cfg[m] # None}]

Note(findings, next) == run' = [next EXCEPT !.found = @ \cup findings]

Open(m, next) == run' = [next EXCEPT !.queue = @ \ {m}, !.mailbox = m, !.boxes = Box]

(* Again, for the checks: the directories of a mailbox whose owner is not  *)
(* found are not looked at.                                                *)
CheckOwners ==
  /\ run.at = "owners" /\ run.boxes = {} /\ Looks
  /\ \/ \E m \in run.queue :
          IF Known(m) THEN Open(m, run)
          ELSE Note({Finding("OWNER-ORPHAN", m, None)}, [run EXCEPT !.queue = @ \ {m}])
     \/ run.queue = {} /\ run' = [run EXCEPT !.at = "storage"]

CheckDir ==
  /\ run.at = "owners" /\ Looks
  /\ \E b \in run.boxes :
       /\ b = "inbox" \/ "inbox" \notin run.boxes
       /\ Note(DirFindings(run.mailbox, run.cfg[run.mailbox], b),
               [run EXCEPT !.boxes = @ \ {b}])

(* Storage that no stanza has, stanzas that have no storage.               *)
CheckStorage ==
  /\ run.at = "storage" /\ Looks
  /\ LET stored == {m \in Mailbox : \E b \in Box : dir[m][b].kind = "dir"}
         bare == {m \in Mailbox : \A b \in Box : dir[m][b].kind = "missing"}
         stanzas == {m \in Mailbox : run.cfg[m] # None}
     IN Note({Finding("ORPHAN-STORAGE", m, None) : m \in stored \ stanzas}
               \cup {Finding("ORPHAN-CONFIG", m, None) : m \in bare \cap stanzas},
             [run EXCEPT !.at = "catchall"])

CheckCatchall ==
  /\ run.at = "catchall" /\ Looks
  /\ Note(CatchallFindings(run.cfg), [run EXCEPT !.at = "end"])

Failing(found) == \E f \in found : f.check \in Fail

(* A slip: the exit code looks at the findings alone.                      *)
ExitOnFindings ==
  /\ run.at = "end" /\ Looks
  /\ run' = [run EXCEPT !.at = "idle", !.exit = IF Failing(run.found) THEN "fail" ELSE "ok"]

Exit ==
  /\ run.at = "end" /\ Looks
  /\ run' = [run EXCEPT !.at = "idle",
                        !.exit = IF Failing(run.found) \/ run.orphans # {} THEN "fail" ELSE "ok"]

-----------------------------------------------------------------------------
(* The others.                                                             *)

Change ==
  /\ changes < MaxChanges /\ changes' = changes + 1
  /\ UNCHANGED <<run, runs>>
  /\ Observe(FALSE)

(* The daemon, or an editor, changes a stanza; new storage comes before it. *)
Stanza ==
  /\ \E m \in Mailbox, o \in Owner \cup {None} : owner' = [owner EXCEPT ![m] = o]
  /\ UNCHANGED <<users, dir>>
  /\ Change

UserTurn ==
  /\ \E o \in Owner : users' = (users \ {o}) \cup ({o} \ users)
  /\ UNCHANGED <<owner, dir>>
  /\ Change

DirTurn ==
  /\ \E m \in Mailbox, b \in Box, e \in Entry : dir' = [dir EXCEPT ![m][b] = e]
  /\ UNCHANGED <<owner, users>>
  /\ Change

Next ==
  \/ Load \/ Gather \/ CheckOwners \/ CheckDir \/ CheckStorage \/ CheckCatchall \/ Exit
  \/ Stanza \/ UserTurn \/ DirTurn

Spec == Init /\ [][Next]_vars

-----------------------------------------------------------------------------
(* Properties.                                                             *)

(* Exit code 0 leaves nothing broken that was broken all the time ...      *)
ExitIsSound == run.at = "end" /\ run'.exit = "ok" => lasting = {}

(* ... and another code has a reason, and each finding that makes doctor   *)
(* fail was so at some time since it loaded.                               *)
AlarmsAreReal ==
  run.at = "end" /\ run'.exit = "fail" =>
    met # {} /\ {f \in run.found : f.check \in Fail} \subseteq met

(* What doctor says is true of the configuration it loaded, on this host,  *)
(* although users and directories change between its looks, and an owner   *)
(* is looked up twice: a fault that was there all the time (an owner that  *)
(* is no user, a directory that is missing, is no directory or is somebody *)
(* else's, a catchall without its user) is not passed over, also when the  *)
(* second look-up keeps it from the directories; one that never was is not *)
(* reported (run, check_mailbox_ownership).                                *)
VerdictIsTrue == [][ExitIsSound /\ AlarmsAreReal]_vars
=============================================================================
