--------------------------- MODULE OperatorProofs ---------------------------
(***************************************************************************)
(* Proofs about the programs that an operator, or a user, runs at a        *)
(* terminal, each as MCOperator holds it, for any values of its constants. *)
(*                                                                         *)
(* Host: no interruption leaves a service file without a binary to go back *)
(* to, an upgrade keeps what it began with until the new version listens,  *)
(* the DKIM key is made once, and what setup and upgrade report is what    *)
(* runs. The invariants say what is on disk; why each step keeps them      *)
(* depends on what the steps before it have done. InstallKnows, SetupKnows *)
(* and UpgradeKnows say so, place by place.                                *)
(*                                                                         *)
(* Release: what install.sh and upgrade call installed is the binary that  *)
(* is there. Wizard: records that are called verified were there, and the  *)
(* trust policy is asked for once. Doctor: its verdict is true. Agents:    *)
(* the user's things are kept, an installation is whole, and what is said  *)
(* to be removed is gone. Their invariants are of the same form: Knows is  *)
(* what the program may take for granted where it is, Step what each step  *)
(* has to show.                                                            *)
(***************************************************************************)
EXTENDS MCOperator, WellFoundedInduction, TLAPS

(* A process that listens exists; a program knows what it was asked for.   *)
Asked ==
  /\ proc.ready => proc.tag # None
  /\ op.kind \in {"install", "upgrade"} => op.tag \in Tags
  /\ op.kind = "setup" => op.domain \in Domain

(* install.sh writes over a binary only before setup got to the service    *)
(* file; later it moves it to .prev.                                       *)
InstallKnows ==
  op.kind = "install" =>
    /\ op.at = "lay" => ~unit \/ bin = None
    /\ op.at \in {"backup", "sh-stop", "sh-preserve"} => bin # None
    /\ op.at \in {"sh-install", "sh-start"} => prev # None

(* What setup has done by the place it is at.                              *)
SetupKnows ==
  op.kind = "setup" =>
    /\ op.at # "idle" => bin # None
    /\ op.at \in {"dirs", "user", "unit", "restart", "wait"} => config = op.domain
    /\ op.at \in {"unit", "restart", "wait"} => ~op.already
    /\ op.at \in {"restart", "wait"} => unit
    /\ op.at = "wait" => proc.tag = None \/ proc.domain = op.domain

(* What upgrade and its roll-back have done by the place they are at.      *)
UpgradeKnows ==
  op.kind = "upgrade" =>
    /\ op.at \in {"fetch", "stop", "preserve"} =>
         bin = op.old /\ bin # None /\ prev = op.stale /\ ~op.kept
    /\ op.at \in {"install", "start", "ready"} => op.kept /\ prev = op.old /\ prev # None
    /\ op.at \in {"preserve", "install", "start"} => proc.tag = None
    /\ op.at \in {"start", "ready"} => bin = op.tag
    /\ op.at = "ready" => proc.tag \in {None, op.tag}
    /\ op.at \in {"remove", "restore"} =>
         prev # None /\ (op.kept => prev = op.old) /\ (op.kept \/ op.stale # None)
    /\ op.at = "resume" => (op.kept \/ op.stale = None => bin = op.old)

(* uninstall removes the binary after the service file.                    *)
UninstallKnows == At("uninstall", "unlink") => ~unit

(* A private key is made only where there is none.                         *)
KeyOnce == (key = "none" => keys = 0) /\ keys <= 1

(* The inductive invariant.                                                *)
IInv ==
  /\ TypeOK /\ Asked
  /\ InstallKnows /\ SetupKnows /\ UpgradeKnows /\ UninstallKnows
  /\ UnitHasBinary /\ OldBinarySurvives /\ KeyOnce
-----------------------------------------------------------------------------
(* What the helpers of the steps do to a record                            *)

(* What the program at work knows stays with it ...                        *)
Same ==
  /\ op'.kind = op.kind /\ op'.tag = op.tag /\ op'.domain = op.domain
  /\ op'.old = op.old /\ op'.stale = op.stale
  /\ op'.already = op.already /\ op'.kept = op.kept

(* ... from one place to the next ...                                      *)
LEMMA GotoKeeps ==
  ASSUME op \in Op, NEW place, Goto(place)
  PROVE  /\ Same /\ op'.at = place /\ op'.result = op.result
         /\ place \in Places => op' \in Op
BY DEF Op, Goto, Same

(* ... to its end ...                                                      *)
LEMMA EndKeeps ==
  ASSUME op \in Op, NEW result, End(result)
  PROVE  /\ Same /\ op'.at = "idle" /\ op'.result = result
         /\ result \in Results => op' \in Op
BY DEF Op, End, Ended, Same, Places

(* ... and when a step fails.                                              *)
LEMMA FailKeeps ==
  ASSUME op \in Op, NEW result, Fail(result)
  PROVE  /\ Same /\ op'.at = "idle" /\ op'.result = result
         /\ result \in Results => op' \in Op
         /\ UNCHANGED <<files, proc, setupFiles>>
BY DEF Op, Fail, End, Ended, Same, Places

LEMMA FailToKeeps ==
  ASSUME op \in Op, NEW place, FailTo(place)
  PROVE  /\ Same /\ op'.at = place /\ op'.result = op.result
         /\ place \in Places => op' \in Op
         /\ UNCHANGED <<files, proc, setupFiles>>
BY DEF Op, FailTo, Goto, Same

(* What a start makes of the disk.                                         *)
LEMMA LaunchedIs ==
  ASSUME TypeOK
  PROVE  /\ NoProc \in Process /\ NoProc.tag = None /\ ~NoProc.ready
         /\ bin = None => Launched = NoProc
         /\ bin # None => Launched.tag = bin /\ Launched.domain = config
         /\ ~Launched.ready /\ Launched \in Process
BY DEF TypeOK, Launched, NoProc, Process

(* install.sh becomes setup.                                               *)
LEMMA BecomesSetup ==
  ASSUME op \in Op, NEW d \in Domain,
         op' = [op EXCEPT !.kind = "setup", !.at = "inspect", !.domain = d]
  PROVE  /\ op'.kind = "setup" /\ op'.at = "inspect" /\ op'.domain = d
         /\ op'.result = op.result
         /\ op' \in Op
BY DEF Op, Kinds, Places

(* setup has looked at the host.                                           *)
LEMMA Inspected ==
  ASSUME op \in Op, NEW b \in BOOLEAN,
         op' = [op EXCEPT !.at = "private", !.already = b]
  PROVE  /\ op'.kind = op.kind /\ op'.at = "private"
         /\ op'.domain = op.domain /\ op'.tag = op.tag /\ op'.result = op.result
         /\ op' \in Op
BY DEF Op, Places

(* upgrade has moved the binary aside.                                     *)
LEMMA Preserved ==
  ASSUME op \in Op, op' = [op EXCEPT !.at = "install", !.kept = TRUE]
  PROVE  /\ op'.kind = op.kind /\ op'.at = "install" /\ op'.kept
         /\ op'.tag = op.tag /\ op'.old = op.old /\ op'.stale = op.stale
         /\ op'.result = op.result
         /\ op' \in Op
BY DEF Op, Places

(* What install.sh puts back, and starts, is a version.                    *)
LEMMA UndoTyped ==
  ASSUME TypeOK, ShUndo
  PROVE  /\ bin' \in Tags \cup {None} /\ prev' \in Tags \cup {None}
         /\ proc' \in Process
<1>1. bin' \in Tags \cup {None} /\ prev' \in Tags \cup {None}
  BY DEF TypeOK, ShUndo, None, files
<1>2. \/ proc' = proc \/ proc' = NoProc
      \/ proc' = [tag |-> bin', domain |-> config, ready |-> FALSE]
  BY DEF ShUndo
<1>3. NoProc \in Process
  BY LaunchedIs
<1>4. [tag |-> bin', domain |-> config, ready |-> FALSE] \in Process
  BY <1>1 DEF TypeOK, Process
<1>q. QED  BY <1>1, <1>2, <1>3, <1>4 DEF TypeOK

-----------------------------------------------------------------------------
(* The steps                                                               *)

(* The steps of install.sh.                                                *)
LEMMA InstallStepKeeps ==
  ASSUME IInv, InstallStep
  PROVE  IInv'
<1>0. /\ op \in Op /\ TypeOK /\ Asked
      /\ InstallKnows /\ SetupKnows /\ UpgradeKnows /\ UninstallKnows
      /\ UnitHasBinary /\ OldBinarySurvives /\ KeyOnce
  BY DEF IInv, TypeOK
<1>1. CASE Lay
  <2>1. TypeOK'
    BY <1>0, <1>1, GotoKeeps, FailKeeps, TagsAssumption
    DEF Lay, At, Places, Results, Quiet, None, files, setupFiles, Asked, TypeOK
  <2>2. Asked'
    BY <1>0, <1>1, GotoKeeps, FailKeeps, TagsAssumption
    DEF Lay, Same, At, Quiet, None, files, setupFiles, Asked
  <2>3. InstallKnows'
    BY <1>0, <1>1, GotoKeeps, FailKeeps, TagsAssumption
    DEF Lay, Same, At, Quiet, None, files, setupFiles, Asked, InstallKnows
  <2>4. SetupKnows'
    BY <1>0, <1>1, GotoKeeps, FailKeeps, TagsAssumption
    DEF Lay, Same, At, Quiet, None, files, setupFiles, Asked, InstallKnows, SetupKnows
  <2>5. UpgradeKnows'
    BY <1>0, <1>1, GotoKeeps, FailKeeps, TagsAssumption
    DEF Lay, Same, At, Quiet, None, files, setupFiles, Asked, UpgradeKnows
  <2>6. UninstallKnows'
    BY <1>0, <1>1, GotoKeeps, FailKeeps, TagsAssumption
    DEF Lay, Same, At, Quiet, None, files, setupFiles, UninstallKnows
  <2>7. UnitHasBinary'
    BY <1>0, <1>1, GotoKeeps, FailKeeps, TagsAssumption
    DEF Lay, Same, At, Quiet, None, files, setupFiles, Asked, InstallKnows, SetupKnows,
        UpgradeKnows, UninstallKnows, UnitHasBinary
  <2>8. OldBinarySurvives'
    BY <1>0, <1>1, GotoKeeps, FailKeeps, TagsAssumption
    DEF Lay, Same, At, Quiet, None, files, setupFiles, UpgradeKnows, OldBinarySurvives
  <2>9. KeyOnce'
    BY <1>0, <1>1, GotoKeeps, FailKeeps
    DEF Lay, Same, At, Quiet, None, files, setupFiles, KeyOnce
  <2>q. QED  BY <2>1, <2>2, <2>3, <2>4, <2>5, <2>6, <2>7, <2>8, <2>9 DEF IInv
<1>2. CASE Backup
  <2>0. \/ /\ op'.kind = "setup" /\ op'.at = "inspect" /\ op'.domain \in Domain /\ op'.result = op.result
           /\ op' \in Op /\ UNCHANGED <<files, proc, unit, key, keys, cert, user>>
        \/ /\ Same /\ op'.at = "idle" /\ op'.result = "failed"
           /\ op' \in Op /\ UNCHANGED <<files, proc, setupFiles>>
    BY <1>0, <1>2, BecomesSetup, FailKeeps DEF Backup, Results
  <2>1. TypeOK'
    BY <1>0, <1>2, <2>0, FailKeeps, TagsAssumption
    DEF Backup, At, Places, Results, Quiet, None, files, setupFiles, Asked, TypeOK
  <2>2. Asked'
    BY <1>0, <1>2, <2>0, FailKeeps, TagsAssumption
    DEF Backup, Same, At, Quiet, None, files, setupFiles, Asked
  <2>3. InstallKnows'
    BY <1>0, <1>2, <2>0, FailKeeps, TagsAssumption
    DEF Backup, Same, At, Quiet, None, files, setupFiles, Asked, InstallKnows
  <2>4. SetupKnows'
    BY <1>0, <1>2, <2>0, FailKeeps, TagsAssumption
    DEF Backup, Same, At, Quiet, None, files, setupFiles, Asked, InstallKnows,
        SetupKnows
  <2>5. UpgradeKnows'
    BY <1>0, <1>2, <2>0, FailKeeps, TagsAssumption
    DEF Backup, Same, At, Quiet, None, files, setupFiles, Asked, UpgradeKnows
  <2>6. UninstallKnows'
    BY <1>0, <1>2, <2>0, FailKeeps, TagsAssumption
    DEF Backup, Same, At, Quiet, None, files, setupFiles, UninstallKnows
  <2>7. UnitHasBinary'
    BY <1>0, <1>2, <2>0, FailKeeps, TagsAssumption
    DEF Backup, Same, At, Quiet, None, files, setupFiles, Asked, InstallKnows,
        SetupKnows, UpgradeKnows, UninstallKnows, UnitHasBinary
  <2>8. OldBinarySurvives'
    BY <1>0, <1>2, <2>0, FailKeeps, TagsAssumption
    DEF Backup, Same, At, Quiet, None, files, setupFiles, UpgradeKnows,
        OldBinarySurvives
  <2>9. KeyOnce'
    BY <1>0, <1>2, <2>0, FailKeeps
    DEF Backup, Same, At, Quiet, None, files, setupFiles, KeyOnce
  <2>q. QED  BY <2>1, <2>2, <2>3, <2>4, <2>5, <2>6, <2>7, <2>8, <2>9 DEF IInv
<1>3. CASE ShStop
  <2>0. /\ Same /\ op' \in Op
        /\ \/ op'.at = "sh-preserve" /\ op'.result = op.result
           \/ op'.at = "idle" /\ op'.result = "failed"
    BY <1>0, <1>3, GotoKeeps, EndKeeps DEF ShStop, Places, Results
  <2>1. TypeOK'
    BY <1>0, <1>3, <2>0, LaunchedIs, TagsAssumption
    DEF ShStop, At, Places, Results, Quiet, None, files, setupFiles, Asked, TypeOK
  <2>2. Asked'
    BY <1>0, <1>3, <2>0, LaunchedIs, TagsAssumption
    DEF ShStop, Same, At, Quiet, None, files, setupFiles, Asked
  <2>3. InstallKnows'
    BY <1>0, <1>3, <2>0, LaunchedIs, TagsAssumption
    DEF ShStop, Same, At, Quiet, None, files, setupFiles, Asked, InstallKnows
  <2>4. SetupKnows'
    BY <1>0, <1>3, <2>0, LaunchedIs, TagsAssumption
    DEF ShStop, Same, At, Quiet, None, files, setupFiles, Asked, InstallKnows,
        SetupKnows
  <2>5. UpgradeKnows'
    BY <1>0, <1>3, <2>0, LaunchedIs, TagsAssumption
    DEF ShStop, Same, At, Quiet, None, files, setupFiles, Asked, UpgradeKnows
  <2>6. UninstallKnows'
    BY <1>0, <1>3, <2>0, LaunchedIs, TagsAssumption
    DEF ShStop, Same, At, Quiet, None, files, setupFiles, UninstallKnows
  <2>7. UnitHasBinary'
    BY <1>0, <1>3, <2>0, LaunchedIs, TagsAssumption
    DEF ShStop, Same, At, Quiet, None, files, setupFiles, Asked, InstallKnows,
        SetupKnows, UpgradeKnows, UninstallKnows, UnitHasBinary
  <2>8. OldBinarySurvives'
    BY <1>0, <1>3, <2>0, LaunchedIs, TagsAssumption
    DEF ShStop, Same, At, Quiet, None, files, setupFiles, UpgradeKnows,
        OldBinarySurvives
  <2>9. KeyOnce'
    BY <1>0, <1>3, <2>0
    DEF ShStop, Same, At, Quiet, None, files, setupFiles, KeyOnce
  <2>q. QED  BY <2>1, <2>2, <2>3, <2>4, <2>5, <2>6, <2>7, <2>8, <2>9 DEF IInv
<1>4. CASE ShPreserve
  <2>1. TypeOK'
    BY <1>0, <1>4, GotoKeeps, EndKeeps, LaunchedIs, TagsAssumption
    DEF ShPreserve, Start, At, Places, Results, Quiet, None, files,
        setupFiles, Asked, TypeOK
  <2>2. Asked'
    BY <1>0, <1>4, GotoKeeps, EndKeeps, LaunchedIs, TagsAssumption
    DEF ShPreserve, Start, Same, At, Quiet, None, files, setupFiles,
        Asked
  <2>3. InstallKnows'
    BY <1>0, <1>4, GotoKeeps, EndKeeps, LaunchedIs, TagsAssumption
    DEF ShPreserve, Start, Same, At, Quiet, None, files, setupFiles,
        Asked, InstallKnows
  <2>4. SetupKnows'
    BY <1>0, <1>4, GotoKeeps, EndKeeps, LaunchedIs, TagsAssumption
    DEF ShPreserve, Start, Same, At, Quiet, None, files, setupFiles,
        Asked, InstallKnows, SetupKnows
  <2>5. UpgradeKnows'
    BY <1>0, <1>4, GotoKeeps, EndKeeps, LaunchedIs, TagsAssumption
    DEF ShPreserve, Start, Same, At, Quiet, None, files, setupFiles,
        Asked, UpgradeKnows
  <2>6. UninstallKnows'
    BY <1>0, <1>4, GotoKeeps, EndKeeps, LaunchedIs, TagsAssumption
    DEF ShPreserve, Start, Same, At, Quiet, None, files, setupFiles,
        UninstallKnows
  <2>7. UnitHasBinary'
    BY <1>0, <1>4, GotoKeeps, EndKeeps, LaunchedIs, TagsAssumption
    DEF ShPreserve, Start, Same, At, Quiet, None, files, setupFiles,
        Asked, InstallKnows, SetupKnows, UpgradeKnows, UninstallKnows, UnitHasBinary
  <2>8. OldBinarySurvives'
    BY <1>0, <1>4, GotoKeeps, EndKeeps, LaunchedIs, TagsAssumption
    DEF ShPreserve, Start, Same, At, Quiet, None, files, setupFiles,
        UpgradeKnows, OldBinarySurvives
  <2>9. KeyOnce'
    BY <1>0, <1>4, GotoKeeps, EndKeeps, LaunchedIs
    DEF ShPreserve, Start, Same, At, Quiet, None, files, setupFiles,
        KeyOnce
  <2>q. QED  BY <2>1, <2>2, <2>3, <2>4, <2>5, <2>6, <2>7, <2>8, <2>9 DEF IInv
<1>5. CASE ShInstall
  <2>1. TypeOK'
    BY <1>0, <1>5, GotoKeeps, EndKeeps, UndoTyped, TagsAssumption
    DEF ShInstall, ShUndo, At, Places, Results, Quiet, None, files, setupFiles, Asked, TypeOK
  <2>2. Asked'
    BY <1>0, <1>5, GotoKeeps, EndKeeps, LaunchedIs, TagsAssumption
    DEF ShInstall, ShUndo, Same, At, Quiet, None, files, setupFiles, Asked
  <2>3. InstallKnows'
    BY <1>0, <1>5, GotoKeeps, EndKeeps, LaunchedIs, TagsAssumption
    DEF ShInstall, ShUndo, Same, At, Quiet, None, files, setupFiles, Asked,
        InstallKnows
  <2>4. SetupKnows'
    BY <1>0, <1>5, GotoKeeps, EndKeeps, LaunchedIs, TagsAssumption
    DEF ShInstall, ShUndo, Same, At, Quiet, None, files, setupFiles, Asked,
        InstallKnows, SetupKnows
  <2>5. UpgradeKnows'
    BY <1>0, <1>5, GotoKeeps, EndKeeps, LaunchedIs, TagsAssumption
    DEF ShInstall, ShUndo, Same, At, Quiet, None, files, setupFiles, Asked,
        UpgradeKnows
  <2>6. UninstallKnows'
    BY <1>0, <1>5, GotoKeeps, EndKeeps, LaunchedIs, TagsAssumption
    DEF ShInstall, ShUndo, Same, At, Quiet, None, files, setupFiles, UninstallKnows
  <2>7. UnitHasBinary'
    BY <1>0, <1>5, GotoKeeps, EndKeeps, LaunchedIs, TagsAssumption
    DEF ShInstall, ShUndo, Same, At, Quiet, None, files, setupFiles, Asked,
        InstallKnows, SetupKnows, UpgradeKnows, UninstallKnows, UnitHasBinary
  <2>8. OldBinarySurvives'
    BY <1>0, <1>5, GotoKeeps, EndKeeps, LaunchedIs, TagsAssumption
    DEF ShInstall, ShUndo, Same, At, Quiet, None, files, setupFiles, UpgradeKnows,
        OldBinarySurvives
  <2>9. KeyOnce'
    BY <1>0, <1>5, GotoKeeps, EndKeeps, LaunchedIs
    DEF ShInstall, ShUndo, Same, At, Quiet, None, files, setupFiles, KeyOnce
  <2>q. QED  BY <2>1, <2>2, <2>3, <2>4, <2>5, <2>6, <2>7, <2>8, <2>9 DEF IInv
<1>6. CASE ShStart
  <2>1. TypeOK'
    <3>1. CASE ShUndo
      BY <1>0, <1>6, <3>1, EndKeeps, UndoTyped
      DEF ShStart, ShUndo, Results, Quiet, setupFiles, TypeOK
    <3>2. CASE ~ShUndo
      BY <1>0, <1>6, <3>2, EndKeeps, LaunchedIs
      DEF ShStart, Start, Results, Quiet, files, setupFiles, TypeOK
    <3>q. QED  BY <3>1, <3>2
  <2>2. Asked'
    BY <1>0, <1>6, EndKeeps, LaunchedIs, TagsAssumption
    DEF ShStart, Start, ShUndo, Same, At, Quiet, None, files,
        setupFiles, Asked
  <2>3. InstallKnows'
    BY <1>0, <1>6, EndKeeps, LaunchedIs, TagsAssumption
    DEF ShStart, Start, ShUndo, Same, At, Quiet, None, files,
        setupFiles, Asked, InstallKnows
  <2>4. SetupKnows'
    BY <1>0, <1>6, EndKeeps, LaunchedIs, TagsAssumption
    DEF ShStart, Start, ShUndo, Same, At, Quiet, None, files,
        setupFiles, Asked, InstallKnows, SetupKnows
  <2>5. UpgradeKnows'
    BY <1>0, <1>6, EndKeeps, LaunchedIs, TagsAssumption
    DEF ShStart, Start, ShUndo, Same, At, Quiet, None, files,
        setupFiles, Asked, UpgradeKnows
  <2>6. UninstallKnows'
    BY <1>0, <1>6, EndKeeps, LaunchedIs, TagsAssumption
    DEF ShStart, Start, ShUndo, Same, At, Quiet, None, files,
        setupFiles, UninstallKnows
  <2>7. UnitHasBinary'
    BY <1>0, <1>6, EndKeeps, LaunchedIs, TagsAssumption
    DEF ShStart, Start, ShUndo, Same, At, Quiet, None, files,
        setupFiles, Asked, InstallKnows, SetupKnows, UpgradeKnows, UninstallKnows,
        UnitHasBinary
  <2>8. OldBinarySurvives'
    BY <1>0, <1>6, EndKeeps, LaunchedIs, TagsAssumption
    DEF ShStart, Start, ShUndo, Same, At, Quiet, None, files,
        setupFiles, UpgradeKnows, OldBinarySurvives
  <2>9. KeyOnce'
    BY <1>0, <1>6, EndKeeps, LaunchedIs
    DEF ShStart, Start, ShUndo, Same, At, Quiet, None, files,
        setupFiles, KeyOnce
  <2>q. QED  BY <2>1, <2>2, <2>3, <2>4, <2>5, <2>6, <2>7, <2>8, <2>9 DEF IInv
<1>q. QED  BY <1>1, <1>2, <1>3, <1>4, <1>5, <1>6 DEF InstallStep

(* The first half of setup: key, record, certificate.                      *)
LEMMA SetupFirstKeeps ==
  ASSUME IInv, Inspect \/ PrivateKey \/ PublicKey \/ Record \/ Certificate
  PROVE  IInv'
<1>0. /\ op \in Op /\ TypeOK /\ Asked
      /\ InstallKnows /\ SetupKnows /\ UpgradeKnows /\ UninstallKnows
      /\ UnitHasBinary /\ OldBinarySurvives /\ KeyOnce
  BY DEF IInv, TypeOK
<1>1. CASE Inspect
  <2>0. /\ op' \in Op /\ op'.at \in {"private", "idle"} /\ op'.result \in {op.result, "failed"}
        /\ op'.kind = op.kind /\ op'.domain = op.domain
        /\ UNCHANGED <<files, proc, setupFiles>>
    <3>1. CASE Fail("failed")
      BY <1>0, <3>1, FailKeeps DEF Same, Results
    <3>2. ASSUME NEW running \in {proc.ready, proc.tag # None},
                 op' = [op EXCEPT !.at = "private",
                                  !.already = running /\ cert /\ key # "none"]
          PROVE  /\ op' \in Op /\ op'.at = "private" /\ op'.result = op.result
                 /\ op'.kind = op.kind /\ op'.domain = op.domain
      <4>1. (running /\ cert /\ key # "none") \in BOOLEAN
        OBVIOUS
      <4>q. QED  BY <1>0, <3>2, <4>1, Inspected
    <3>q. QED  BY <1>1, <3>1, <3>2 DEF Inspect
  <2>1. TypeOK'
    BY <1>0, <1>1, <2>0, FailKeeps, TagsAssumption
    DEF Inspect, At, Places, Results, Quiet, None, files, setupFiles, Asked, TypeOK
  <2>2. Asked'
    BY <1>0, <1>1, <2>0, FailKeeps, TagsAssumption
    DEF Inspect, Same, At, Quiet, None, files, setupFiles, Asked
  <2>3. InstallKnows'
    BY <1>0, <1>1, <2>0, FailKeeps, TagsAssumption
    DEF Inspect, Same, At, Quiet, None, files, setupFiles, Asked, InstallKnows
  <2>4. SetupKnows'
    BY <1>0, <1>1, <2>0, FailKeeps, TagsAssumption
    DEF Inspect, Same, At, Quiet, None, files, setupFiles, Asked, InstallKnows,
        SetupKnows
  <2>5. UpgradeKnows'
    BY <1>0, <1>1, <2>0, FailKeeps, TagsAssumption
    DEF Inspect, Same, At, Quiet, None, files, setupFiles, Asked, UpgradeKnows
  <2>6. UninstallKnows'
    BY <1>0, <1>1, <2>0, FailKeeps, TagsAssumption
    DEF Inspect, Same, At, Quiet, None, files, setupFiles, UninstallKnows
  <2>7. UnitHasBinary'
    BY <1>0, <1>1, <2>0, FailKeeps, TagsAssumption
    DEF Inspect, Same, At, Quiet, None, files, setupFiles, Asked, InstallKnows,
        SetupKnows, UpgradeKnows, UninstallKnows, UnitHasBinary
  <2>8. OldBinarySurvives'
    BY <1>0, <1>1, <2>0, FailKeeps, TagsAssumption
    DEF Inspect, Same, At, Quiet, None, files, setupFiles, UpgradeKnows,
        OldBinarySurvives
  <2>9. KeyOnce'
    BY <1>0, <1>1, <2>0, FailKeeps
    DEF Inspect, Same, At, Quiet, None, files, setupFiles, KeyOnce
  <2>q. QED  BY <2>1, <2>2, <2>3, <2>4, <2>5, <2>6, <2>7, <2>8, <2>9 DEF IInv
<1>2. CASE PrivateKey
  <2>1. TypeOK'
    <3>1. key' \in {"none", "half", "whole"} /\ keys' \in Nat
      BY <1>0, <1>2, FailKeeps DEF PrivateKey, setupFiles, TypeOK
    <3>2. op' \in Op
      BY <1>0, <1>2, GotoKeeps, FailKeeps DEF PrivateKey, Places, Results
    <3>q. QED  BY <1>0, <1>2, <3>1, <3>2 DEF PrivateKey, Quiet, files, TypeOK
  <2>2. Asked'
    BY <1>0, <1>2, GotoKeeps, FailKeeps, TagsAssumption
    DEF PrivateKey, Same, At, Quiet, None, files, setupFiles, Asked
  <2>3. InstallKnows'
    BY <1>0, <1>2, GotoKeeps, FailKeeps, TagsAssumption
    DEF PrivateKey, Same, At, Quiet, None, files, setupFiles, Asked, InstallKnows
  <2>4. SetupKnows'
    BY <1>0, <1>2, GotoKeeps, FailKeeps, TagsAssumption
    DEF PrivateKey, Same, At, Quiet, None, files, setupFiles, Asked, InstallKnows,
        SetupKnows
  <2>5. UpgradeKnows'
    BY <1>0, <1>2, GotoKeeps, FailKeeps, TagsAssumption
    DEF PrivateKey, Same, At, Quiet, None, files, setupFiles, Asked, UpgradeKnows
  <2>6. UninstallKnows'
    BY <1>0, <1>2, GotoKeeps, FailKeeps, TagsAssumption
    DEF PrivateKey, Same, At, Quiet, None, files, setupFiles, UninstallKnows
  <2>7. UnitHasBinary'
    BY <1>0, <1>2, GotoKeeps, FailKeeps, TagsAssumption
    DEF PrivateKey, Same, At, Quiet, None, files, setupFiles, Asked, InstallKnows,
        SetupKnows, UpgradeKnows, UninstallKnows, UnitHasBinary
  <2>8. OldBinarySurvives'
    BY <1>0, <1>2, GotoKeeps, FailKeeps, TagsAssumption
    DEF PrivateKey, Same, At, Quiet, None, files, setupFiles, UpgradeKnows,
        OldBinarySurvives
  <2>9. KeyOnce'
    BY <1>0, <1>2, GotoKeeps, FailKeeps
    DEF PrivateKey, Same, At, Quiet, None, files, setupFiles, KeyOnce
  <2>q. QED  BY <2>1, <2>2, <2>3, <2>4, <2>5, <2>6, <2>7, <2>8, <2>9 DEF IInv
<1>3. CASE PublicKey
  <2>1. TypeOK'
    BY <1>0, <1>3, GotoKeeps, FailKeeps, TagsAssumption
    DEF PublicKey, At, Places, Results, Quiet, None, files, setupFiles, Asked, TypeOK
  <2>2. Asked'
    BY <1>0, <1>3, GotoKeeps, FailKeeps, TagsAssumption
    DEF PublicKey, Same, At, Quiet, None, files, setupFiles, Asked
  <2>3. InstallKnows'
    BY <1>0, <1>3, GotoKeeps, FailKeeps, TagsAssumption
    DEF PublicKey, Same, At, Quiet, None, files, setupFiles, Asked, InstallKnows
  <2>4. SetupKnows'
    BY <1>0, <1>3, GotoKeeps, FailKeeps, TagsAssumption
    DEF PublicKey, Same, At, Quiet, None, files, setupFiles, Asked, InstallKnows,
        SetupKnows
  <2>5. UpgradeKnows'
    BY <1>0, <1>3, GotoKeeps, FailKeeps, TagsAssumption
    DEF PublicKey, Same, At, Quiet, None, files, setupFiles, Asked, UpgradeKnows
  <2>6. UninstallKnows'
    BY <1>0, <1>3, GotoKeeps, FailKeeps, TagsAssumption
    DEF PublicKey, Same, At, Quiet, None, files, setupFiles, UninstallKnows
  <2>7. UnitHasBinary'
    BY <1>0, <1>3, GotoKeeps, FailKeeps, TagsAssumption
    DEF PublicKey, Same, At, Quiet, None, files, setupFiles, Asked, InstallKnows,
        SetupKnows, UpgradeKnows, UninstallKnows, UnitHasBinary
  <2>8. OldBinarySurvives'
    BY <1>0, <1>3, GotoKeeps, FailKeeps, TagsAssumption
    DEF PublicKey, Same, At, Quiet, None, files, setupFiles, UpgradeKnows,
        OldBinarySurvives
  <2>9. KeyOnce'
    BY <1>0, <1>3, GotoKeeps, FailKeeps
    DEF PublicKey, Same, At, Quiet, None, files, setupFiles, KeyOnce
  <2>q. QED  BY <2>1, <2>2, <2>3, <2>4, <2>5, <2>6, <2>7, <2>8, <2>9 DEF IInv
<1>4. CASE Record
  <2>1. TypeOK'
    BY <1>0, <1>4, GotoKeeps, EndKeeps, TagsAssumption
    DEF Record, At, Places, Results, Quiet, None, files, setupFiles, Asked, TypeOK
  <2>2. Asked'
    BY <1>0, <1>4, GotoKeeps, EndKeeps, TagsAssumption
    DEF Record, Same, At, Quiet, None, files, setupFiles, Asked
  <2>3. InstallKnows'
    BY <1>0, <1>4, GotoKeeps, EndKeeps, TagsAssumption
    DEF Record, Same, At, Quiet, None, files, setupFiles, Asked, InstallKnows
  <2>4. SetupKnows'
    BY <1>0, <1>4, GotoKeeps, EndKeeps, TagsAssumption
    DEF Record, Same, At, Quiet, None, files, setupFiles, Asked, InstallKnows,
        SetupKnows
  <2>5. UpgradeKnows'
    BY <1>0, <1>4, GotoKeeps, EndKeeps, TagsAssumption
    DEF Record, Same, At, Quiet, None, files, setupFiles, Asked, UpgradeKnows
  <2>6. UninstallKnows'
    BY <1>0, <1>4, GotoKeeps, EndKeeps, TagsAssumption
    DEF Record, Same, At, Quiet, None, files, setupFiles, UninstallKnows
  <2>7. UnitHasBinary'
    BY <1>0, <1>4, GotoKeeps, EndKeeps, TagsAssumption
    DEF Record, Same, At, Quiet, None, files, setupFiles, Asked, InstallKnows,
        SetupKnows, UpgradeKnows, UninstallKnows, UnitHasBinary
  <2>8. OldBinarySurvives'
    BY <1>0, <1>4, GotoKeeps, EndKeeps, TagsAssumption
    DEF Record, Same, At, Quiet, None, files, setupFiles, UpgradeKnows,
        OldBinarySurvives
  <2>9. KeyOnce'
    BY <1>0, <1>4, GotoKeeps, EndKeeps
    DEF Record, Same, At, Quiet, None, files, setupFiles, KeyOnce
  <2>q. QED  BY <2>1, <2>2, <2>3, <2>4, <2>5, <2>6, <2>7, <2>8, <2>9 DEF IInv
<1>5. CASE Certificate
  <2>1. TypeOK'
    BY <1>0, <1>5, GotoKeeps, FailKeeps, TagsAssumption
    DEF Certificate, At, Places, Results, Quiet, None, files, setupFiles, Asked, TypeOK
  <2>2. Asked'
    BY <1>0, <1>5, GotoKeeps, FailKeeps, TagsAssumption
    DEF Certificate, Same, At, Quiet, None, files, setupFiles, Asked
  <2>3. InstallKnows'
    BY <1>0, <1>5, GotoKeeps, FailKeeps, TagsAssumption
    DEF Certificate, Same, At, Quiet, None, files, setupFiles, Asked, InstallKnows
  <2>4. SetupKnows'
    BY <1>0, <1>5, GotoKeeps, FailKeeps, TagsAssumption
    DEF Certificate, Same, At, Quiet, None, files, setupFiles, Asked, InstallKnows,
        SetupKnows
  <2>5. UpgradeKnows'
    BY <1>0, <1>5, GotoKeeps, FailKeeps, TagsAssumption
    DEF Certificate, Same, At, Quiet, None, files, setupFiles, Asked, UpgradeKnows
  <2>6. UninstallKnows'
    BY <1>0, <1>5, GotoKeeps, FailKeeps, TagsAssumption
    DEF Certificate, Same, At, Quiet, None, files, setupFiles, UninstallKnows
  <2>7. UnitHasBinary'
    BY <1>0, <1>5, GotoKeeps, FailKeeps, TagsAssumption
    DEF Certificate, Same, At, Quiet, None, files, setupFiles, Asked, InstallKnows,
        SetupKnows, UpgradeKnows, UninstallKnows, UnitHasBinary
  <2>8. OldBinarySurvives'
    BY <1>0, <1>5, GotoKeeps, FailKeeps, TagsAssumption
    DEF Certificate, Same, At, Quiet, None, files, setupFiles, UpgradeKnows,
        OldBinarySurvives
  <2>9. KeyOnce'
    BY <1>0, <1>5, GotoKeeps, FailKeeps
    DEF Certificate, Same, At, Quiet, None, files, setupFiles, KeyOnce
  <2>q. QED  BY <2>1, <2>2, <2>3, <2>4, <2>5, <2>6, <2>7, <2>8, <2>9 DEF IInv
<1>q. QED  BY <1>1, <1>2, <1>3, <1>4, <1>5

(* The second half: configuration, user, service.                          *)
LEMMA SetupSecondKeeps ==
  ASSUME IInv, FinalizeConfig \/ WriteConfig \/ MailboxDirs \/ CatchallUser
         \/ InstallService \/ RestartService \/ WaitForService
  PROVE  IInv'
<1>0. /\ op \in Op /\ TypeOK /\ Asked
      /\ InstallKnows /\ SetupKnows /\ UpgradeKnows /\ UninstallKnows
      /\ UnitHasBinary /\ OldBinarySurvives /\ KeyOnce
  BY DEF IInv, TypeOK
<1>1. CASE FinalizeConfig
  <2>1. TypeOK'
    BY <1>0, <1>1, GotoKeeps, EndKeeps, FailKeeps, TagsAssumption
    DEF FinalizeConfig, At, Places, Results, Quiet, None, files, setupFiles, Asked,
        TypeOK
  <2>2. Asked'
    BY <1>0, <1>1, GotoKeeps, EndKeeps, FailKeeps, TagsAssumption
    DEF FinalizeConfig, Same, At, Quiet, None, files, setupFiles, Asked
  <2>3. InstallKnows'
    BY <1>0, <1>1, GotoKeeps, EndKeeps, FailKeeps, TagsAssumption
    DEF FinalizeConfig, Same, At, Quiet, None, files, setupFiles, Asked, InstallKnows
  <2>4. SetupKnows'
    BY <1>0, <1>1, GotoKeeps, EndKeeps, FailKeeps, TagsAssumption
    DEF FinalizeConfig, Same, At, Quiet, None, files, setupFiles, Asked, InstallKnows,
        SetupKnows
  <2>5. UpgradeKnows'
    BY <1>0, <1>1, GotoKeeps, EndKeeps, FailKeeps, TagsAssumption
    DEF FinalizeConfig, Same, At, Quiet, None, files, setupFiles, Asked, UpgradeKnows
  <2>6. UninstallKnows'
    BY <1>0, <1>1, GotoKeeps, EndKeeps, FailKeeps, TagsAssumption
    DEF FinalizeConfig, Same, At, Quiet, None, files, setupFiles, UninstallKnows
  <2>7. UnitHasBinary'
    BY <1>0, <1>1, GotoKeeps, EndKeeps, FailKeeps, TagsAssumption
    DEF FinalizeConfig, Same, At, Quiet, None, files, setupFiles, Asked, InstallKnows,
        SetupKnows, UpgradeKnows, UninstallKnows, UnitHasBinary
  <2>8. OldBinarySurvives'
    BY <1>0, <1>1, GotoKeeps, EndKeeps, FailKeeps, TagsAssumption
    DEF FinalizeConfig, Same, At, Quiet, None, files, setupFiles, UpgradeKnows,
        OldBinarySurvives
  <2>9. KeyOnce'
    BY <1>0, <1>1, GotoKeeps, EndKeeps, FailKeeps
    DEF FinalizeConfig, Same, At, Quiet, None, files, setupFiles, KeyOnce
  <2>q. QED  BY <2>1, <2>2, <2>3, <2>4, <2>5, <2>6, <2>7, <2>8, <2>9 DEF IInv
<1>2. CASE WriteConfig
  <2>1. TypeOK'
    BY <1>0, <1>2, GotoKeeps, FailKeeps, TagsAssumption
    DEF WriteConfig, At, Places, Results, Quiet, None, files, setupFiles, Asked, TypeOK
  <2>2. Asked'
    BY <1>0, <1>2, GotoKeeps, FailKeeps, TagsAssumption
    DEF WriteConfig, Same, At, Quiet, None, files, setupFiles, Asked
  <2>3. InstallKnows'
    BY <1>0, <1>2, GotoKeeps, FailKeeps, TagsAssumption
    DEF WriteConfig, Same, At, Quiet, None, files, setupFiles, Asked, InstallKnows
  <2>4. SetupKnows'
    BY <1>0, <1>2, GotoKeeps, FailKeeps, TagsAssumption
    DEF WriteConfig, Same, At, Quiet, None, files, setupFiles, Asked, InstallKnows,
        SetupKnows
  <2>5. UpgradeKnows'
    BY <1>0, <1>2, GotoKeeps, FailKeeps, TagsAssumption
    DEF WriteConfig, Same, At, Quiet, None, files, setupFiles, Asked, UpgradeKnows
  <2>6. UninstallKnows'
    BY <1>0, <1>2, GotoKeeps, FailKeeps, TagsAssumption
    DEF WriteConfig, Same, At, Quiet, None, files, setupFiles, UninstallKnows
  <2>7. UnitHasBinary'
    BY <1>0, <1>2, GotoKeeps, FailKeeps, TagsAssumption
    DEF WriteConfig, Same, At, Quiet, None, files, setupFiles, Asked, InstallKnows,
        SetupKnows, UpgradeKnows, UninstallKnows, UnitHasBinary
  <2>8. OldBinarySurvives'
    BY <1>0, <1>2, GotoKeeps, FailKeeps, TagsAssumption
    DEF WriteConfig, Same, At, Quiet, None, files, setupFiles, UpgradeKnows,
        OldBinarySurvives
  <2>9. KeyOnce'
    BY <1>0, <1>2, GotoKeeps, FailKeeps
    DEF WriteConfig, Same, At, Quiet, None, files, setupFiles, KeyOnce
  <2>q. QED  BY <2>1, <2>2, <2>3, <2>4, <2>5, <2>6, <2>7, <2>8, <2>9 DEF IInv
<1>3. CASE MailboxDirs
  <2>1. TypeOK'
    BY <1>0, <1>3, GotoKeeps, EndKeeps, FailKeeps, TagsAssumption
    DEF MailboxDirs, At, Places, Results, Quiet, None, files, setupFiles, Asked, TypeOK
  <2>2. Asked'
    BY <1>0, <1>3, GotoKeeps, EndKeeps, FailKeeps, TagsAssumption
    DEF MailboxDirs, Same, At, Quiet, None, files, setupFiles, Asked
  <2>3. InstallKnows'
    BY <1>0, <1>3, GotoKeeps, EndKeeps, FailKeeps, TagsAssumption
    DEF MailboxDirs, Same, At, Quiet, None, files, setupFiles, Asked, InstallKnows
  <2>4. SetupKnows'
    BY <1>0, <1>3, GotoKeeps, EndKeeps, FailKeeps, TagsAssumption
    DEF MailboxDirs, Same, At, Quiet, None, files, setupFiles, Asked, InstallKnows,
        SetupKnows
  <2>5. UpgradeKnows'
    BY <1>0, <1>3, GotoKeeps, EndKeeps, FailKeeps, TagsAssumption
    DEF MailboxDirs, Same, At, Quiet, None, files, setupFiles, Asked, UpgradeKnows
  <2>6. UninstallKnows'
    BY <1>0, <1>3, GotoKeeps, EndKeeps, FailKeeps, TagsAssumption
    DEF MailboxDirs, Same, At, Quiet, None, files, setupFiles, UninstallKnows
  <2>7. UnitHasBinary'
    BY <1>0, <1>3, GotoKeeps, EndKeeps, FailKeeps, TagsAssumption
    DEF MailboxDirs, Same, At, Quiet, None, files, setupFiles, Asked, InstallKnows,
        SetupKnows, UpgradeKnows, UninstallKnows, UnitHasBinary
  <2>8. OldBinarySurvives'
    BY <1>0, <1>3, GotoKeeps, EndKeeps, FailKeeps, TagsAssumption
    DEF MailboxDirs, Same, At, Quiet, None, files, setupFiles, UpgradeKnows,
        OldBinarySurvives
  <2>9. KeyOnce'
    BY <1>0, <1>3, GotoKeeps, EndKeeps, FailKeeps
    DEF MailboxDirs, Same, At, Quiet, None, files, setupFiles, KeyOnce
  <2>q. QED  BY <2>1, <2>2, <2>3, <2>4, <2>5, <2>6, <2>7, <2>8, <2>9 DEF IInv
<1>4. CASE CatchallUser
  <2>1. TypeOK'
    BY <1>0, <1>4, GotoKeeps, EndKeeps, FailKeeps, TagsAssumption
    DEF CatchallUser, At, Places, Results, Quiet, None, files, setupFiles, Asked,
        TypeOK
  <2>2. Asked'
    BY <1>0, <1>4, GotoKeeps, EndKeeps, FailKeeps, TagsAssumption
    DEF CatchallUser, Same, At, Quiet, None, files, setupFiles, Asked
  <2>3. InstallKnows'
    BY <1>0, <1>4, GotoKeeps, EndKeeps, FailKeeps, TagsAssumption
    DEF CatchallUser, Same, At, Quiet, None, files, setupFiles, Asked, InstallKnows
  <2>4. SetupKnows'
    BY <1>0, <1>4, GotoKeeps, EndKeeps, FailKeeps, TagsAssumption
    DEF CatchallUser, Same, At, Quiet, None, files, setupFiles, Asked, InstallKnows,
        SetupKnows
  <2>5. UpgradeKnows'
    BY <1>0, <1>4, GotoKeeps, EndKeeps, FailKeeps, TagsAssumption
    DEF CatchallUser, Same, At, Quiet, None, files, setupFiles, Asked, UpgradeKnows
  <2>6. UninstallKnows'
    BY <1>0, <1>4, GotoKeeps, EndKeeps, FailKeeps, TagsAssumption
    DEF CatchallUser, Same, At, Quiet, None, files, setupFiles, UninstallKnows
  <2>7. UnitHasBinary'
    BY <1>0, <1>4, GotoKeeps, EndKeeps, FailKeeps, TagsAssumption
    DEF CatchallUser, Same, At, Quiet, None, files, setupFiles, Asked, InstallKnows,
        SetupKnows, UpgradeKnows, UninstallKnows, UnitHasBinary
  <2>8. OldBinarySurvives'
    BY <1>0, <1>4, GotoKeeps, EndKeeps, FailKeeps, TagsAssumption
    DEF CatchallUser, Same, At, Quiet, None, files, setupFiles, UpgradeKnows,
        OldBinarySurvives
  <2>9. KeyOnce'
    BY <1>0, <1>4, GotoKeeps, EndKeeps, FailKeeps
    DEF CatchallUser, Same, At, Quiet, None, files, setupFiles, KeyOnce
  <2>q. QED  BY <2>1, <2>2, <2>3, <2>4, <2>5, <2>6, <2>7, <2>8, <2>9 DEF IInv
<1>5. CASE InstallService
  <2>1. TypeOK'
    BY <1>0, <1>5, GotoKeeps, FailKeeps, TagsAssumption
    DEF InstallService, At, Places, Results, Quiet, None, files, setupFiles, Asked,
        TypeOK
  <2>2. Asked'
    BY <1>0, <1>5, GotoKeeps, FailKeeps, TagsAssumption
    DEF InstallService, Same, At, Quiet, None, files, setupFiles, Asked
  <2>3. InstallKnows'
    BY <1>0, <1>5, GotoKeeps, FailKeeps, TagsAssumption
    DEF InstallService, Same, At, Quiet, None, files, setupFiles, Asked, InstallKnows
  <2>4. SetupKnows'
    BY <1>0, <1>5, GotoKeeps, FailKeeps, TagsAssumption
    DEF InstallService, Same, At, Quiet, None, files, setupFiles, Asked, InstallKnows,
        SetupKnows
  <2>5. UpgradeKnows'
    BY <1>0, <1>5, GotoKeeps, FailKeeps, TagsAssumption
    DEF InstallService, Same, At, Quiet, None, files, setupFiles, Asked, UpgradeKnows
  <2>6. UninstallKnows'
    BY <1>0, <1>5, GotoKeeps, FailKeeps, TagsAssumption
    DEF InstallService, Same, At, Quiet, None, files, setupFiles, UninstallKnows
  <2>7. UnitHasBinary'
    BY <1>0, <1>5, GotoKeeps, FailKeeps, TagsAssumption
    DEF InstallService, Same, At, Quiet, None, files, setupFiles, Asked, InstallKnows,
        SetupKnows, UpgradeKnows, UninstallKnows, UnitHasBinary
  <2>8. OldBinarySurvives'
    BY <1>0, <1>5, GotoKeeps, FailKeeps, TagsAssumption
    DEF InstallService, Same, At, Quiet, None, files, setupFiles, UpgradeKnows,
        OldBinarySurvives
  <2>9. KeyOnce'
    BY <1>0, <1>5, GotoKeeps, FailKeeps
    DEF InstallService, Same, At, Quiet, None, files, setupFiles, KeyOnce
  <2>q. QED  BY <2>1, <2>2, <2>3, <2>4, <2>5, <2>6, <2>7, <2>8, <2>9 DEF IInv
<1>6. CASE RestartService
  <2>1. TypeOK'
    BY <1>0, <1>6, GotoKeeps, FailKeeps, LaunchedIs, TagsAssumption
    DEF RestartService, At, Places, Results, Quiet, None, files, setupFiles, Asked,
        TypeOK
  <2>2. Asked'
    BY <1>0, <1>6, GotoKeeps, FailKeeps, LaunchedIs, TagsAssumption
    DEF RestartService, Same, At, Quiet, None, files, setupFiles, Asked
  <2>3. InstallKnows'
    BY <1>0, <1>6, GotoKeeps, FailKeeps, LaunchedIs, TagsAssumption
    DEF RestartService, Same, At, Quiet, None, files, setupFiles, Asked, InstallKnows
  <2>4. SetupKnows'
    BY <1>0, <1>6, GotoKeeps, FailKeeps, LaunchedIs, TagsAssumption
    DEF RestartService, Same, At, Quiet, None, files, setupFiles, Asked, InstallKnows,
        SetupKnows
  <2>5. UpgradeKnows'
    BY <1>0, <1>6, GotoKeeps, FailKeeps, LaunchedIs, TagsAssumption
    DEF RestartService, Same, At, Quiet, None, files, setupFiles, Asked, UpgradeKnows
  <2>6. UninstallKnows'
    BY <1>0, <1>6, GotoKeeps, FailKeeps, LaunchedIs, TagsAssumption
    DEF RestartService, Same, At, Quiet, None, files, setupFiles, UninstallKnows
  <2>7. UnitHasBinary'
    BY <1>0, <1>6, GotoKeeps, FailKeeps, LaunchedIs, TagsAssumption
    DEF RestartService, Same, At, Quiet, None, files, setupFiles, Asked, InstallKnows,
        SetupKnows, UpgradeKnows, UninstallKnows, UnitHasBinary
  <2>8. OldBinarySurvives'
    BY <1>0, <1>6, GotoKeeps, FailKeeps, LaunchedIs, TagsAssumption
    DEF RestartService, Same, At, Quiet, None, files, setupFiles, UpgradeKnows,
        OldBinarySurvives
  <2>9. KeyOnce'
    BY <1>0, <1>6, GotoKeeps, FailKeeps, LaunchedIs
    DEF RestartService, Same, At, Quiet, None, files, setupFiles, KeyOnce
  <2>q. QED  BY <2>1, <2>2, <2>3, <2>4, <2>5, <2>6, <2>7, <2>8, <2>9 DEF IInv
<1>7. CASE WaitForService
  <2>1. TypeOK'
    BY <1>0, <1>7, EndKeeps, FailKeeps, TagsAssumption
    DEF WaitForService, At, Places, Results, Quiet, None, files, setupFiles, Asked,
        TypeOK
  <2>2. Asked'
    BY <1>0, <1>7, EndKeeps, FailKeeps, TagsAssumption
    DEF WaitForService, Same, At, Quiet, None, files, setupFiles, Asked
  <2>3. InstallKnows'
    BY <1>0, <1>7, EndKeeps, FailKeeps, TagsAssumption
    DEF WaitForService, Same, At, Quiet, None, files, setupFiles, Asked, InstallKnows
  <2>4. SetupKnows'
    BY <1>0, <1>7, EndKeeps, FailKeeps, TagsAssumption
    DEF WaitForService, Same, At, Quiet, None, files, setupFiles, Asked, InstallKnows,
        SetupKnows
  <2>5. UpgradeKnows'
    BY <1>0, <1>7, EndKeeps, FailKeeps, TagsAssumption
    DEF WaitForService, Same, At, Quiet, None, files, setupFiles, Asked, UpgradeKnows
  <2>6. UninstallKnows'
    BY <1>0, <1>7, EndKeeps, FailKeeps, TagsAssumption
    DEF WaitForService, Same, At, Quiet, None, files, setupFiles, UninstallKnows
  <2>7. UnitHasBinary'
    BY <1>0, <1>7, EndKeeps, FailKeeps, TagsAssumption
    DEF WaitForService, Same, At, Quiet, None, files, setupFiles, Asked, InstallKnows,
        SetupKnows, UpgradeKnows, UninstallKnows, UnitHasBinary
  <2>8. OldBinarySurvives'
    BY <1>0, <1>7, EndKeeps, FailKeeps, TagsAssumption
    DEF WaitForService, Same, At, Quiet, None, files, setupFiles, UpgradeKnows,
        OldBinarySurvives
  <2>9. KeyOnce'
    BY <1>0, <1>7, EndKeeps, FailKeeps
    DEF WaitForService, Same, At, Quiet, None, files, setupFiles, KeyOnce
  <2>q. QED  BY <2>1, <2>2, <2>3, <2>4, <2>5, <2>6, <2>7, <2>8, <2>9 DEF IInv
<1>q. QED  BY <1>1, <1>2, <1>3, <1>4, <1>5, <1>6, <1>7

(* The steps of upgrade and of its roll-back.                              *)
LEMMA UpgradeStepKeeps ==
  ASSUME IInv, UpgradeStep
  PROVE  IInv'
<1>0. /\ op \in Op /\ TypeOK /\ Asked
      /\ InstallKnows /\ SetupKnows /\ UpgradeKnows /\ UninstallKnows
      /\ UnitHasBinary /\ OldBinarySurvives /\ KeyOnce
  BY DEF IInv, TypeOK
<1>1. CASE Fetch
  <2>1. TypeOK'
    BY <1>0, <1>1, GotoKeeps, FailKeeps, TagsAssumption
    DEF Fetch, At, Places, Results, Quiet, None, files, setupFiles, Asked, TypeOK
  <2>2. Asked'
    BY <1>0, <1>1, GotoKeeps, FailKeeps, TagsAssumption
    DEF Fetch, Same, At, Quiet, None, files, setupFiles, Asked
  <2>3. InstallKnows'
    BY <1>0, <1>1, GotoKeeps, FailKeeps, TagsAssumption
    DEF Fetch, Same, At, Quiet, None, files, setupFiles, Asked, InstallKnows
  <2>4. SetupKnows'
    BY <1>0, <1>1, GotoKeeps, FailKeeps, TagsAssumption
    DEF Fetch, Same, At, Quiet, None, files, setupFiles, Asked, InstallKnows,
        SetupKnows
  <2>5. UpgradeKnows'
    BY <1>0, <1>1, GotoKeeps, FailKeeps, TagsAssumption
    DEF Fetch, Same, At, Quiet, None, files, setupFiles, Asked, UpgradeKnows
  <2>6. UninstallKnows'
    BY <1>0, <1>1, GotoKeeps, FailKeeps, TagsAssumption
    DEF Fetch, Same, At, Quiet, None, files, setupFiles, UninstallKnows
  <2>7. UnitHasBinary'
    BY <1>0, <1>1, GotoKeeps, FailKeeps, TagsAssumption
    DEF Fetch, Same, At, Quiet, None, files, setupFiles, Asked, InstallKnows,
        SetupKnows, UpgradeKnows, UninstallKnows, UnitHasBinary
  <2>8. OldBinarySurvives'
    BY <1>0, <1>1, GotoKeeps, FailKeeps, TagsAssumption
    DEF Fetch, Same, At, Quiet, None, files, setupFiles, UpgradeKnows,
        OldBinarySurvives
  <2>9. KeyOnce'
    BY <1>0, <1>1, GotoKeeps, FailKeeps
    DEF Fetch, Same, At, Quiet, None, files, setupFiles, KeyOnce
  <2>q. QED  BY <2>1, <2>2, <2>3, <2>4, <2>5, <2>6, <2>7, <2>8, <2>9 DEF IInv
<1>2. CASE Stop
  <2>1. TypeOK'
    BY <1>0, <1>2, GotoKeeps, FailKeeps, LaunchedIs, TagsAssumption
    DEF Stop, At, Places, Results, Quiet, None, files, setupFiles, Asked, TypeOK
  <2>2. Asked'
    BY <1>0, <1>2, GotoKeeps, FailKeeps, LaunchedIs, TagsAssumption
    DEF Stop, Same, At, Quiet, None, files, setupFiles, Asked
  <2>3. InstallKnows'
    BY <1>0, <1>2, GotoKeeps, FailKeeps, LaunchedIs, TagsAssumption
    DEF Stop, Same, At, Quiet, None, files, setupFiles, Asked, InstallKnows
  <2>4. SetupKnows'
    BY <1>0, <1>2, GotoKeeps, FailKeeps, LaunchedIs, TagsAssumption
    DEF Stop, Same, At, Quiet, None, files, setupFiles, Asked, InstallKnows, SetupKnows
  <2>5. UpgradeKnows'
    BY <1>0, <1>2, GotoKeeps, FailKeeps, LaunchedIs, TagsAssumption
    DEF Stop, Same, At, Quiet, None, files, setupFiles, Asked, UpgradeKnows
  <2>6. UninstallKnows'
    BY <1>0, <1>2, GotoKeeps, FailKeeps, LaunchedIs, TagsAssumption
    DEF Stop, Same, At, Quiet, None, files, setupFiles, UninstallKnows
  <2>7. UnitHasBinary'
    BY <1>0, <1>2, GotoKeeps, FailKeeps, LaunchedIs, TagsAssumption
    DEF Stop, Same, At, Quiet, None, files, setupFiles, Asked, InstallKnows, SetupKnows,
        UpgradeKnows, UninstallKnows, UnitHasBinary
  <2>8. OldBinarySurvives'
    BY <1>0, <1>2, GotoKeeps, FailKeeps, LaunchedIs, TagsAssumption
    DEF Stop, Same, At, Quiet, None, files, setupFiles, UpgradeKnows, OldBinarySurvives
  <2>9. KeyOnce'
    BY <1>0, <1>2, GotoKeeps, FailKeeps, LaunchedIs
    DEF Stop, Same, At, Quiet, None, files, setupFiles, KeyOnce
  <2>q. QED  BY <2>1, <2>2, <2>3, <2>4, <2>5, <2>6, <2>7, <2>8, <2>9 DEF IInv
<1>3. CASE Preserve
  <2>0. \/ FailTo(RollbackFrom)
        \/ /\ prev' = bin /\ bin' = None
           /\ op' \in Op /\ op'.at = "install" /\ op'.kept /\ op'.result = op.result
           /\ op'.kind = op.kind /\ op'.tag = op.tag /\ op'.old = op.old /\ op'.stale = op.stale
           /\ UNCHANGED <<proc, setupFiles>>
    BY <1>0, <1>3, Preserved DEF Preserve
  <2>1. TypeOK'
    BY <1>0, <1>3, <2>0, FailToKeeps, TagsAssumption
    DEF Preserve, RollbackFrom, At, Places, Results, Quiet, None, files, setupFiles,
        Asked, TypeOK
  <2>2. Asked'
    BY <1>0, <1>3, <2>0, FailToKeeps, TagsAssumption
    DEF Preserve, RollbackFrom, Same, At, Quiet, None, files, setupFiles, Asked
  <2>3. InstallKnows'
    BY <1>0, <1>3, <2>0, FailToKeeps, TagsAssumption
    DEF Preserve, RollbackFrom, Same, At, Quiet, None, files, setupFiles, Asked,
        InstallKnows
  <2>4. SetupKnows'
    BY <1>0, <1>3, <2>0, FailToKeeps, TagsAssumption
    DEF Preserve, RollbackFrom, Same, At, Quiet, None, files, setupFiles, Asked,
        InstallKnows, SetupKnows
  <2>5. UpgradeKnows'
    BY <1>0, <1>3, <2>0, FailToKeeps, TagsAssumption
    DEF Preserve, RollbackFrom, Same, At, Quiet, None, files, setupFiles, Asked,
        UpgradeKnows
  <2>6. UninstallKnows'
    BY <1>0, <1>3, <2>0, FailToKeeps, TagsAssumption
    DEF Preserve, RollbackFrom, Same, At, Quiet, None, files, setupFiles,
        UninstallKnows
  <2>7. UnitHasBinary'
    BY <1>0, <1>3, <2>0, FailToKeeps, TagsAssumption
    DEF Preserve, RollbackFrom, Same, At, Quiet, None, files, setupFiles, Asked,
        InstallKnows, SetupKnows, UpgradeKnows, UninstallKnows, UnitHasBinary
  <2>8. OldBinarySurvives'
    BY <1>0, <1>3, <2>0, FailToKeeps, TagsAssumption
    DEF Preserve, RollbackFrom, Same, At, Quiet, None, files, setupFiles, UpgradeKnows,
        OldBinarySurvives
  <2>9. KeyOnce'
    BY <1>0, <1>3, <2>0, FailToKeeps
    DEF Preserve, RollbackFrom, Same, At, Quiet, None, files, setupFiles, KeyOnce
  <2>q. QED  BY <2>1, <2>2, <2>3, <2>4, <2>5, <2>6, <2>7, <2>8, <2>9 DEF IInv
<1>4. CASE InstallNew
  <2>1. TypeOK'
    BY <1>0, <1>4, GotoKeeps, FailToKeeps, TagsAssumption
    DEF InstallNew, RollbackFrom, At, Places, Results, Quiet, None, files, setupFiles,
        Asked, TypeOK
  <2>2. Asked'
    BY <1>0, <1>4, GotoKeeps, FailToKeeps, TagsAssumption
    DEF InstallNew, RollbackFrom, Same, At, Quiet, None, files, setupFiles, Asked
  <2>3. InstallKnows'
    BY <1>0, <1>4, GotoKeeps, FailToKeeps, TagsAssumption
    DEF InstallNew, RollbackFrom, Same, At, Quiet, None, files, setupFiles, Asked,
        InstallKnows
  <2>4. SetupKnows'
    BY <1>0, <1>4, GotoKeeps, FailToKeeps, TagsAssumption
    DEF InstallNew, RollbackFrom, Same, At, Quiet, None, files, setupFiles, Asked,
        InstallKnows, SetupKnows
  <2>5. UpgradeKnows'
    BY <1>0, <1>4, GotoKeeps, FailToKeeps, TagsAssumption
    DEF InstallNew, RollbackFrom, Same, At, Quiet, None, files, setupFiles, Asked,
        UpgradeKnows
  <2>6. UninstallKnows'
    BY <1>0, <1>4, GotoKeeps, FailToKeeps, TagsAssumption
    DEF InstallNew, RollbackFrom, Same, At, Quiet, None, files, setupFiles,
        UninstallKnows
  <2>7. UnitHasBinary'
    BY <1>0, <1>4, GotoKeeps, FailToKeeps, TagsAssumption
    DEF InstallNew, RollbackFrom, Same, At, Quiet, None, files, setupFiles, Asked,
        InstallKnows, SetupKnows, UpgradeKnows, UninstallKnows, UnitHasBinary
  <2>8. OldBinarySurvives'
    BY <1>0, <1>4, GotoKeeps, FailToKeeps, TagsAssumption
    DEF InstallNew, RollbackFrom, Same, At, Quiet, None, files, setupFiles,
        UpgradeKnows, OldBinarySurvives
  <2>9. KeyOnce'
    BY <1>0, <1>4, GotoKeeps, FailToKeeps
    DEF InstallNew, RollbackFrom, Same, At, Quiet, None, files, setupFiles, KeyOnce
  <2>q. QED  BY <2>1, <2>2, <2>3, <2>4, <2>5, <2>6, <2>7, <2>8, <2>9 DEF IInv
<1>5. CASE StartNew
  <2>1. TypeOK'
    BY <1>0, <1>5, GotoKeeps, FailToKeeps, LaunchedIs, TagsAssumption
    DEF StartNew, Start, RollbackFrom, At, Places, Results, Quiet, None, files,
        setupFiles, Asked, TypeOK
  <2>2. Asked'
    BY <1>0, <1>5, GotoKeeps, FailToKeeps, LaunchedIs, TagsAssumption
    DEF StartNew, Start, RollbackFrom, Same, At, Quiet, None, files, setupFiles, Asked
  <2>3. InstallKnows'
    BY <1>0, <1>5, GotoKeeps, FailToKeeps, LaunchedIs, TagsAssumption
    DEF StartNew, Start, RollbackFrom, Same, At, Quiet, None, files, setupFiles, Asked,
        InstallKnows
  <2>4. SetupKnows'
    BY <1>0, <1>5, GotoKeeps, FailToKeeps, LaunchedIs, TagsAssumption
    DEF StartNew, Start, RollbackFrom, Same, At, Quiet, None, files, setupFiles, Asked,
        InstallKnows, SetupKnows
  <2>5. UpgradeKnows'
    BY <1>0, <1>5, GotoKeeps, FailToKeeps, LaunchedIs, TagsAssumption
    DEF StartNew, Start, RollbackFrom, Same, At, Quiet, None, files, setupFiles, Asked,
        UpgradeKnows
  <2>6. UninstallKnows'
    BY <1>0, <1>5, GotoKeeps, FailToKeeps, LaunchedIs, TagsAssumption
    DEF StartNew, Start, RollbackFrom, Same, At, Quiet, None, files, setupFiles,
        UninstallKnows
  <2>7. UnitHasBinary'
    BY <1>0, <1>5, GotoKeeps, FailToKeeps, LaunchedIs, TagsAssumption
    DEF StartNew, Start, RollbackFrom, Same, At, Quiet, None, files, setupFiles, Asked,
        InstallKnows, SetupKnows, UpgradeKnows, UninstallKnows, UnitHasBinary
  <2>8. OldBinarySurvives'
    BY <1>0, <1>5, GotoKeeps, FailToKeeps, LaunchedIs, TagsAssumption
    DEF StartNew, Start, RollbackFrom, Same, At, Quiet, None, files, setupFiles,
        UpgradeKnows, OldBinarySurvives
  <2>9. KeyOnce'
    BY <1>0, <1>5, GotoKeeps, FailToKeeps, LaunchedIs
    DEF StartNew, Start, RollbackFrom, Same, At, Quiet, None, files, setupFiles,
        KeyOnce
  <2>q. QED  BY <2>1, <2>2, <2>3, <2>4, <2>5, <2>6, <2>7, <2>8, <2>9 DEF IInv
<1>6. CASE WaitForReady
  <2>1. TypeOK'
    BY <1>0, <1>6, EndKeeps, FailToKeeps, TagsAssumption
    DEF WaitForReady, RollbackFrom, At, Places, Results, Quiet, None, files, setupFiles,
        Asked, TypeOK
  <2>2. Asked'
    BY <1>0, <1>6, EndKeeps, FailToKeeps, TagsAssumption
    DEF WaitForReady, RollbackFrom, Same, At, Quiet, None, files, setupFiles, Asked
  <2>3. InstallKnows'
    BY <1>0, <1>6, EndKeeps, FailToKeeps, TagsAssumption
    DEF WaitForReady, RollbackFrom, Same, At, Quiet, None, files, setupFiles, Asked,
        InstallKnows
  <2>4. SetupKnows'
    BY <1>0, <1>6, EndKeeps, FailToKeeps, TagsAssumption
    DEF WaitForReady, RollbackFrom, Same, At, Quiet, None, files, setupFiles, Asked,
        InstallKnows, SetupKnows
  <2>5. UpgradeKnows'
    BY <1>0, <1>6, EndKeeps, FailToKeeps, TagsAssumption
    DEF WaitForReady, RollbackFrom, Same, At, Quiet, None, files, setupFiles, Asked,
        UpgradeKnows
  <2>6. UninstallKnows'
    BY <1>0, <1>6, EndKeeps, FailToKeeps, TagsAssumption
    DEF WaitForReady, RollbackFrom, Same, At, Quiet, None, files, setupFiles,
        UninstallKnows
  <2>7. UnitHasBinary'
    BY <1>0, <1>6, EndKeeps, FailToKeeps, TagsAssumption
    DEF WaitForReady, RollbackFrom, Same, At, Quiet, None, files, setupFiles, Asked,
        InstallKnows, SetupKnows, UpgradeKnows, UninstallKnows, UnitHasBinary
  <2>8. OldBinarySurvives'
    BY <1>0, <1>6, EndKeeps, FailToKeeps, TagsAssumption
    DEF WaitForReady, RollbackFrom, Same, At, Quiet, None, files, setupFiles,
        UpgradeKnows, OldBinarySurvives
  <2>9. KeyOnce'
    BY <1>0, <1>6, EndKeeps, FailToKeeps
    DEF WaitForReady, RollbackFrom, Same, At, Quiet, None, files, setupFiles, KeyOnce
  <2>q. QED  BY <2>1, <2>2, <2>3, <2>4, <2>5, <2>6, <2>7, <2>8, <2>9 DEF IInv
<1>7. CASE RemoveNew
  <2>1. TypeOK'
    BY <1>0, <1>7, GotoKeeps, FailKeeps, TagsAssumption
    DEF RemoveNew, At, Places, Results, Quiet, None, files, setupFiles, Asked, TypeOK
  <2>2. Asked'
    BY <1>0, <1>7, GotoKeeps, FailKeeps, TagsAssumption
    DEF RemoveNew, Same, At, Quiet, None, files, setupFiles, Asked
  <2>3. InstallKnows'
    BY <1>0, <1>7, GotoKeeps, FailKeeps, TagsAssumption
    DEF RemoveNew, Same, At, Quiet, None, files, setupFiles, Asked, InstallKnows
  <2>4. SetupKnows'
    BY <1>0, <1>7, GotoKeeps, FailKeeps, TagsAssumption
    DEF RemoveNew, Same, At, Quiet, None, files, setupFiles, Asked, InstallKnows,
        SetupKnows
  <2>5. UpgradeKnows'
    <3>1. /\ op.kind = "upgrade" /\ prev # None /\ (op.kept => prev = op.old)
          /\ op.kept \/ op.stale # None
      BY <1>0, <1>7 DEF RemoveNew, At, UpgradeKnows
    <3>2. Same /\ op'.at \in {"restore", "idle"} /\ prev' = prev
      BY <1>0, <1>7, GotoKeeps, FailKeeps DEF RemoveNew, files
    <3>q. QED  BY <3>1, <3>2 DEF Same, UpgradeKnows
  <2>6. UninstallKnows'
    BY <1>0, <1>7, GotoKeeps, FailKeeps, TagsAssumption
    DEF RemoveNew, Same, At, Quiet, None, files, setupFiles, UninstallKnows
  <2>7. UnitHasBinary'
    BY <1>0, <1>7, GotoKeeps, FailKeeps, TagsAssumption
    DEF RemoveNew, Same, At, Quiet, None, files, setupFiles, Asked, InstallKnows,
        SetupKnows, UpgradeKnows, UninstallKnows, UnitHasBinary
  <2>8. OldBinarySurvives'
    BY <1>0, <1>7, GotoKeeps, FailKeeps, TagsAssumption
    DEF RemoveNew, Same, At, Quiet, None, files, setupFiles, UpgradeKnows,
        OldBinarySurvives
  <2>9. KeyOnce'
    BY <1>0, <1>7, GotoKeeps, FailKeeps
    DEF RemoveNew, Same, At, Quiet, None, files, setupFiles, KeyOnce
  <2>q. QED  BY <2>1, <2>2, <2>3, <2>4, <2>5, <2>6, <2>7, <2>8, <2>9 DEF IInv
<1>8. CASE Restore
  <2>1. TypeOK'
    BY <1>0, <1>8, GotoKeeps, FailKeeps, TagsAssumption
    DEF Restore, At, Places, Results, Quiet, None, files, setupFiles, Asked, TypeOK
  <2>2. Asked'
    BY <1>0, <1>8, GotoKeeps, FailKeeps, TagsAssumption
    DEF Restore, Same, At, Quiet, None, files, setupFiles, Asked
  <2>3. InstallKnows'
    BY <1>0, <1>8, GotoKeeps, FailKeeps, TagsAssumption
    DEF Restore, Same, At, Quiet, None, files, setupFiles, Asked, InstallKnows
  <2>4. SetupKnows'
    BY <1>0, <1>8, GotoKeeps, FailKeeps, TagsAssumption
    DEF Restore, Same, At, Quiet, None, files, setupFiles, Asked, InstallKnows,
        SetupKnows
  <2>5. UpgradeKnows'
    <3>1. /\ op.kind = "upgrade" /\ (op.kept => prev = op.old)
          /\ op.kept \/ op.stale # None
      BY <1>0, <1>8 DEF Restore, At, UpgradeKnows
    <3>2. CASE Fail("rollback failed")
      BY <1>0, <3>1, <3>2, FailKeeps DEF Same, UpgradeKnows
    <3>3. CASE bin' = prev /\ Goto("resume")
      BY <1>0, <3>1, <3>3, GotoKeeps DEF Same, UpgradeKnows
    <3>q. QED  BY <1>8, <3>2, <3>3 DEF Restore
  <2>6. UninstallKnows'
    BY <1>0, <1>8, GotoKeeps, FailKeeps, TagsAssumption
    DEF Restore, Same, At, Quiet, None, files, setupFiles, UninstallKnows
  <2>7. UnitHasBinary'
    BY <1>0, <1>8, GotoKeeps, FailKeeps, TagsAssumption
    DEF Restore, Same, At, Quiet, None, files, setupFiles, Asked, InstallKnows,
        SetupKnows, UpgradeKnows, UninstallKnows, UnitHasBinary
  <2>8. OldBinarySurvives'
    BY <1>0, <1>8, GotoKeeps, FailKeeps, TagsAssumption
    DEF Restore, Same, At, Quiet, None, files, setupFiles, UpgradeKnows,
        OldBinarySurvives
  <2>9. KeyOnce'
    BY <1>0, <1>8, GotoKeeps, FailKeeps
    DEF Restore, Same, At, Quiet, None, files, setupFiles, KeyOnce
  <2>q. QED  BY <2>1, <2>2, <2>3, <2>4, <2>5, <2>6, <2>7, <2>8, <2>9 DEF IInv
<1>9. CASE Resume
  <2>1. TypeOK'
    BY <1>0, <1>9, EndKeeps, FailKeeps, LaunchedIs, TagsAssumption
    DEF Resume, Start, At, Places, Results, Quiet, None, files, setupFiles, Asked,
        TypeOK
  <2>2. Asked'
    BY <1>0, <1>9, EndKeeps, FailKeeps, LaunchedIs, TagsAssumption
    DEF Resume, Start, Same, At, Quiet, None, files, setupFiles, Asked
  <2>3. InstallKnows'
    BY <1>0, <1>9, EndKeeps, FailKeeps, LaunchedIs, TagsAssumption
    DEF Resume, Start, Same, At, Quiet, None, files, setupFiles, Asked, InstallKnows
  <2>4. SetupKnows'
    BY <1>0, <1>9, EndKeeps, FailKeeps, LaunchedIs, TagsAssumption
    DEF Resume, Start, Same, At, Quiet, None, files, setupFiles, Asked, InstallKnows,
        SetupKnows
  <2>5. UpgradeKnows'
    BY <1>0, <1>9, EndKeeps, FailKeeps, LaunchedIs, TagsAssumption
    DEF Resume, Start, Same, At, Quiet, None, files, setupFiles, Asked, UpgradeKnows
  <2>6. UninstallKnows'
    BY <1>0, <1>9, EndKeeps, FailKeeps, LaunchedIs, TagsAssumption
    DEF Resume, Start, Same, At, Quiet, None, files, setupFiles, UninstallKnows
  <2>7. UnitHasBinary'
    BY <1>0, <1>9, EndKeeps, FailKeeps, LaunchedIs, TagsAssumption
    DEF Resume, Start, Same, At, Quiet, None, files, setupFiles, Asked, InstallKnows,
        SetupKnows, UpgradeKnows, UninstallKnows, UnitHasBinary
  <2>8. OldBinarySurvives'
    BY <1>0, <1>9, EndKeeps, FailKeeps, LaunchedIs, TagsAssumption
    DEF Resume, Start, Same, At, Quiet, None, files, setupFiles, UpgradeKnows,
        OldBinarySurvives
  <2>9. KeyOnce'
    BY <1>0, <1>9, EndKeeps, FailKeeps, LaunchedIs
    DEF Resume, Start, Same, At, Quiet, None, files, setupFiles, KeyOnce
  <2>q. QED  BY <2>1, <2>2, <2>3, <2>4, <2>5, <2>6, <2>7, <2>8, <2>9 DEF IInv
<1>q. QED  BY <1>1, <1>2, <1>3, <1>4, <1>5, <1>6, <1>7, <1>8, <1>9 DEF UpgradeStep

(* Uninstall's steps, the operator, the daemon by itself, and interruptions. *)
LEMMA OthersKeeps ==
  ASSUME IInv, Teardown \/ Unlink \/ AddUser \/ Binds \/ Dies \/ Crash
  PROVE  IInv'
<1>0. /\ op \in Op /\ TypeOK /\ Asked
      /\ InstallKnows /\ SetupKnows /\ UpgradeKnows /\ UninstallKnows
      /\ UnitHasBinary /\ OldBinarySurvives /\ KeyOnce
  BY DEF IInv, TypeOK
<1>1. CASE Teardown
  <2>1. TypeOK'
    BY <1>0, <1>1, GotoKeeps, EndKeeps, LaunchedIs, TagsAssumption
    DEF Teardown, At, Places, Results, Quiet, None, files, setupFiles, Asked, TypeOK
  <2>2. Asked'
    BY <1>0, <1>1, GotoKeeps, EndKeeps, LaunchedIs, TagsAssumption
    DEF Teardown, Same, At, Quiet, None, files, setupFiles, Asked
  <2>3. InstallKnows'
    BY <1>0, <1>1, GotoKeeps, EndKeeps, LaunchedIs, TagsAssumption
    DEF Teardown, Same, At, Quiet, None, files, setupFiles, Asked, InstallKnows
  <2>4. SetupKnows'
    BY <1>0, <1>1, GotoKeeps, EndKeeps, LaunchedIs, TagsAssumption
    DEF Teardown, Same, At, Quiet, None, files, setupFiles, Asked, InstallKnows,
        SetupKnows
  <2>5. UpgradeKnows'
    BY <1>0, <1>1, GotoKeeps, EndKeeps, LaunchedIs, TagsAssumption
    DEF Teardown, Same, At, Quiet, None, files, setupFiles, Asked, UpgradeKnows
  <2>6. UninstallKnows'
    BY <1>0, <1>1, GotoKeeps, EndKeeps, LaunchedIs, TagsAssumption
    DEF Teardown, Same, At, Quiet, None, files, setupFiles, UninstallKnows
  <2>7. UnitHasBinary'
    BY <1>0, <1>1, GotoKeeps, EndKeeps, LaunchedIs, TagsAssumption
    DEF Teardown, Same, At, Quiet, None, files, setupFiles, Asked, InstallKnows,
        SetupKnows, UpgradeKnows, UninstallKnows, UnitHasBinary
  <2>8. OldBinarySurvives'
    BY <1>0, <1>1, GotoKeeps, EndKeeps, LaunchedIs, TagsAssumption
    DEF Teardown, Same, At, Quiet, None, files, setupFiles, UpgradeKnows,
        OldBinarySurvives
  <2>9. KeyOnce'
    BY <1>0, <1>1, GotoKeeps, EndKeeps, LaunchedIs
    DEF Teardown, Same, At, Quiet, None, files, setupFiles, KeyOnce
  <2>q. QED  BY <2>1, <2>2, <2>3, <2>4, <2>5, <2>6, <2>7, <2>8, <2>9 DEF IInv
<1>2. CASE Unlink
  <2>1. TypeOK'
    BY <1>0, <1>2, EndKeeps, TagsAssumption
    DEF Unlink, At, Places, Results, Quiet, None, files, setupFiles, Asked, TypeOK
  <2>2. Asked'
    BY <1>0, <1>2, EndKeeps, TagsAssumption
    DEF Unlink, Same, At, Quiet, None, files, setupFiles, Asked
  <2>3. InstallKnows'
    BY <1>0, <1>2, EndKeeps, TagsAssumption
    DEF Unlink, Same, At, Quiet, None, files, setupFiles, Asked, InstallKnows
  <2>4. SetupKnows'
    BY <1>0, <1>2, EndKeeps, TagsAssumption
    DEF Unlink, Same, At, Quiet, None, files, setupFiles, Asked, InstallKnows,
        SetupKnows
  <2>5. UpgradeKnows'
    BY <1>0, <1>2, EndKeeps, TagsAssumption
    DEF Unlink, Same, At, Quiet, None, files, setupFiles, Asked, UpgradeKnows
  <2>6. UninstallKnows'
    BY <1>0, <1>2, EndKeeps, TagsAssumption
    DEF Unlink, Same, At, Quiet, None, files, setupFiles, UninstallKnows
  <2>7. UnitHasBinary'
    BY <1>0, <1>2, EndKeeps, TagsAssumption
    DEF Unlink, Same, At, Quiet, None, files, setupFiles, Asked, InstallKnows,
        SetupKnows, UpgradeKnows, UninstallKnows, UnitHasBinary
  <2>8. OldBinarySurvives'
    BY <1>0, <1>2, EndKeeps, TagsAssumption
    DEF Unlink, Same, At, Quiet, None, files, setupFiles, UpgradeKnows,
        OldBinarySurvives
  <2>9. KeyOnce'
    BY <1>0, <1>2, EndKeeps
    DEF Unlink, Same, At, Quiet, None, files, setupFiles, KeyOnce
  <2>q. QED  BY <2>1, <2>2, <2>3, <2>4, <2>5, <2>6, <2>7, <2>8, <2>9 DEF IInv
<1>3. CASE AddUser
  <2>1. TypeOK'
    BY <1>0, <1>3, TagsAssumption
    DEF AddUser, At, Places, Results, Quiet, None, files, setupFiles, Asked, TypeOK
  <2>2. Asked'
    BY <1>0, <1>3, TagsAssumption
    DEF AddUser, Same, At, Quiet, None, files, setupFiles, Asked
  <2>3. InstallKnows'
    BY <1>0, <1>3, TagsAssumption
    DEF AddUser, Same, At, Quiet, None, files, setupFiles, Asked, InstallKnows
  <2>4. SetupKnows'
    BY <1>0, <1>3, TagsAssumption
    DEF AddUser, Same, At, Quiet, None, files, setupFiles, Asked, InstallKnows,
        SetupKnows
  <2>5. UpgradeKnows'
    BY <1>0, <1>3, TagsAssumption
    DEF AddUser, Same, At, Quiet, None, files, setupFiles, Asked, UpgradeKnows
  <2>6. UninstallKnows'
    BY <1>0, <1>3, TagsAssumption
    DEF AddUser, Same, At, Quiet, None, files, setupFiles, UninstallKnows
  <2>7. UnitHasBinary'
    BY <1>0, <1>3, TagsAssumption
    DEF AddUser, Same, At, Quiet, None, files, setupFiles, Asked, InstallKnows,
        SetupKnows, UpgradeKnows, UninstallKnows, UnitHasBinary
  <2>8. OldBinarySurvives'
    BY <1>0, <1>3, TagsAssumption
    DEF AddUser, Same, At, Quiet, None, files, setupFiles, UpgradeKnows,
        OldBinarySurvives
  <2>9. KeyOnce'
    BY <1>0, <1>3 DEF AddUser, Same, At, Quiet, None, files, setupFiles, KeyOnce
  <2>q. QED  BY <2>1, <2>2, <2>3, <2>4, <2>5, <2>6, <2>7, <2>8, <2>9 DEF IInv
<1>4. CASE Binds
  <2>1. TypeOK'
    BY <1>0, <1>4, TagsAssumption
    DEF Binds, Process, At, Places, Results, Quiet, None, files, setupFiles, Asked,
        TypeOK
  <2>2. Asked'
    BY <1>0, <1>4, TagsAssumption
    DEF Binds, Process, Same, At, Quiet, None, files, setupFiles, Asked
  <2>3. InstallKnows'
    BY <1>0, <1>4, TagsAssumption
    DEF Binds, Process, Same, At, Quiet, None, files, setupFiles, Asked, InstallKnows
  <2>4. SetupKnows'
    BY <1>0, <1>4, TagsAssumption
    DEF Binds, Process, Same, At, Quiet, None, files, setupFiles, Asked, InstallKnows,
        SetupKnows
  <2>5. UpgradeKnows'
    BY <1>0, <1>4, TagsAssumption
    DEF Binds, Process, Same, At, Quiet, None, files, setupFiles, Asked, UpgradeKnows
  <2>6. UninstallKnows'
    BY <1>0, <1>4, TagsAssumption
    DEF Binds, Process, Same, At, Quiet, None, files, setupFiles, UninstallKnows
  <2>7. UnitHasBinary'
    BY <1>0, <1>4, TagsAssumption
    DEF Binds, Process, Same, At, Quiet, None, files, setupFiles, Asked, InstallKnows,
        SetupKnows, UpgradeKnows, UninstallKnows, UnitHasBinary
  <2>8. OldBinarySurvives'
    BY <1>0, <1>4, TagsAssumption
    DEF Binds, Process, Same, At, Quiet, None, files, setupFiles, UpgradeKnows,
        OldBinarySurvives
  <2>9. KeyOnce'
    BY <1>0, <1>4 DEF Binds, Process, Same, At, Quiet, None, files, setupFiles, KeyOnce
  <2>q. QED  BY <2>1, <2>2, <2>3, <2>4, <2>5, <2>6, <2>7, <2>8, <2>9 DEF IInv
<1>5. CASE Dies
  <2>1. TypeOK'
    BY <1>0, <1>5, LaunchedIs, TagsAssumption
    DEF Dies, At, Places, Results, Quiet, None, files, setupFiles, Asked, TypeOK
  <2>2. Asked'
    BY <1>0, <1>5, LaunchedIs, TagsAssumption
    DEF Dies, Same, At, Quiet, None, files, setupFiles, Asked
  <2>3. InstallKnows'
    BY <1>0, <1>5, LaunchedIs, TagsAssumption
    DEF Dies, Same, At, Quiet, None, files, setupFiles, Asked, InstallKnows
  <2>4. SetupKnows'
    BY <1>0, <1>5, LaunchedIs, TagsAssumption
    DEF Dies, Same, At, Quiet, None, files, setupFiles, Asked, InstallKnows, SetupKnows
  <2>5. UpgradeKnows'
    BY <1>0, <1>5, LaunchedIs, TagsAssumption
    DEF Dies, Same, At, Quiet, None, files, setupFiles, Asked, UpgradeKnows
  <2>6. UninstallKnows'
    BY <1>0, <1>5, LaunchedIs, TagsAssumption
    DEF Dies, Same, At, Quiet, None, files, setupFiles, UninstallKnows
  <2>7. UnitHasBinary'
    BY <1>0, <1>5, LaunchedIs, TagsAssumption
    DEF Dies, Same, At, Quiet, None, files, setupFiles, Asked, InstallKnows, SetupKnows,
        UpgradeKnows, UninstallKnows, UnitHasBinary
  <2>8. OldBinarySurvives'
    BY <1>0, <1>5, LaunchedIs, TagsAssumption
    DEF Dies, Same, At, Quiet, None, files, setupFiles, UpgradeKnows, OldBinarySurvives
  <2>9. KeyOnce'
    BY <1>0, <1>5, LaunchedIs
    DEF Dies, Same, At, Quiet, None, files, setupFiles, KeyOnce
  <2>q. QED  BY <2>1, <2>2, <2>3, <2>4, <2>5, <2>6, <2>7, <2>8, <2>9 DEF IInv
<1>6. CASE Crash
  <2>0. Same /\ op'.at = "idle" /\ op'.result = op.result /\ op' \in Op
    BY <1>0, <1>6 DEF Crash, Same, Op, Places
  <2>1. TypeOK'
    BY <1>0, <1>6, <2>0, LaunchedIs, TagsAssumption, BoundAssumption
    DEF Crash, At, Places, Results, Quiet, None, files, setupFiles, Asked, TypeOK
  <2>2. Asked'
    BY <1>0, <1>6, <2>0, LaunchedIs, TagsAssumption
    DEF Crash, Same, At, Quiet, None, files, setupFiles, Asked
  <2>3. InstallKnows'
    BY <1>0, <1>6, <2>0, LaunchedIs, TagsAssumption
    DEF Crash, Same, At, Quiet, None, files, setupFiles, Asked, InstallKnows
  <2>4. SetupKnows'
    BY <1>0, <1>6, <2>0, LaunchedIs, TagsAssumption
    DEF Crash, Same, At, Quiet, None, files, setupFiles, Asked, InstallKnows,
        SetupKnows
  <2>5. UpgradeKnows'
    BY <1>0, <1>6, <2>0, LaunchedIs, TagsAssumption
    DEF Crash, Same, At, Quiet, None, files, setupFiles, Asked, UpgradeKnows
  <2>6. UninstallKnows'
    BY <1>0, <1>6, <2>0, LaunchedIs, TagsAssumption
    DEF Crash, Same, At, Quiet, None, files, setupFiles, UninstallKnows
  <2>7. UnitHasBinary'
    BY <1>0, <1>6, <2>0, LaunchedIs, TagsAssumption
    DEF Crash, Same, At, Quiet, None, files, setupFiles, Asked, InstallKnows,
        SetupKnows, UpgradeKnows, UninstallKnows, UnitHasBinary
  <2>8. OldBinarySurvives'
    BY <1>0, <1>6, <2>0, LaunchedIs, TagsAssumption
    DEF Crash, Same, At, Quiet, None, files, setupFiles, UpgradeKnows,
        OldBinarySurvives
  <2>9. KeyOnce'
    BY <1>0, <1>6, <2>0, LaunchedIs
    DEF Crash, Same, At, Quiet, None, files, setupFiles, KeyOnce
  <2>q. QED  BY <2>1, <2>2, <2>3, <2>4, <2>5, <2>6, <2>7, <2>8, <2>9 DEF IInv
<1>q. QED  BY <1>1, <1>2, <1>3, <1>4, <1>5, <1>6

(* The operator runs a program; what it knows of the host at first.        *)
LEMMA Begins ==
  ASSUME TypeOK, NEW o \in Op, Begin(o)
  PROVE  /\ op' \in Op /\ op'.old = bin /\ op'.stale = prev /\ op'.kept = o.kept
         /\ op'.kind = o.kind /\ op'.at = o.at /\ op'.result = o.result
         /\ op'.tag = o.tag /\ op'.domain = o.domain
         /\ UNCHANGED <<files, proc, setupFiles, crashes>> /\ ops' \in 0..MaxOps
<1>1. [o EXCEPT !.old = bin, !.stale = prev] \in Op
  BY DEF TypeOK, Op
<1>2. ops' \in 0..MaxOps
  BY BoundAssumption DEF TypeOK, Begin
<1>q. QED  BY <1>1, <1>2 DEF Begin, Op

LEMMA NoOpIs ==
  NoOp \in Op /\ ~NoOp.kept /\ NoOp.result = "none" /\ NoOp.at = "idle"
BY DEF NoOp, Op, Kinds, Places, Results

(* The record of a program that is at its first step, ...                  *)
LEMMA WithPlace ==
  ASSUME NEW o \in Op, NEW p \in Places, NEW n, n = [o EXCEPT !.at = p]
  PROVE  /\ n.kind = o.kind /\ n.tag = o.tag /\ n.kept = o.kept
         /\ n.result = o.result /\ n.at = p /\ n.domain = o.domain /\ n \in Op
BY DEF Op

(* ... and one that ends at once.                                          *)
LEMMA WithEnd ==
  ASSUME NEW o \in Op, NEW r \in Results
  PROVE  /\ Ended(o, r).kind = o.kind /\ Ended(o, r).tag = o.tag
         /\ Ended(o, r).kept = o.kept /\ Ended(o, r).result = r
         /\ Ended(o, r).at = "idle" /\ Ended(o, r).domain = o.domain
         /\ Ended(o, r) \in Op
BY DEF Op, Ended, Places

LEMMA InstallBegins ==
  ASSUME TypeOK, NEW t \in Tags, Install(t)
  PROVE  \E o \in Op :
           /\ Begin(o) /\ o.kind = "install" /\ o.tag = t /\ ~o.kept
           /\ \/ o.at = "lay" /\ (~unit \/ bin = None) /\ o.result = "none"
              \/ o.at \in {"sh-stop", "backup"} /\ bin # None /\ o.result = "none"
              \/ o.at = "idle" /\ o.result = "failed"
<1> DEFINE o == [NoOp EXCEPT !.kind = "install", !.tag = t]
           n(p) == [o EXCEPT !.at = p]
<1>0. o = [NoOp EXCEPT !.kind = "install", !.tag = t]
  OBVIOUS
<1> HIDE DEF o
<1>1. o \in Op /\ o.kind = "install" /\ o.tag = t /\ ~o.kept /\ o.result = "none"
  BY <1>0, NoOpIs DEF Op, Kinds
<1>2. \/ (bin = None \/ ~unit) /\ Begin(n("lay"))
      \/ bin # None /\ Begin(n("sh-stop"))
      \/ bin = t /\ Begin(n("backup"))
      \/ Begin(Ended(o, "failed"))
  BY DEF Install, o
<1>3. bin = t => bin # None
  BY TagsAssumption DEF None
<1>4. \A p \in Places :
        /\ n(p) \in Op /\ n(p).kind = "install" /\ n(p).tag = t /\ ~n(p).kept
        /\ n(p).result = "none" /\ n(p).at = p
  BY <1>1, WithPlace
<1>5. /\ Ended(o, "failed") \in Op /\ Ended(o, "failed").kind = "install"
      /\ Ended(o, "failed").tag = t /\ ~Ended(o, "failed").kept
      /\ Ended(o, "failed").result = "failed" /\ Ended(o, "failed").at = "idle"
  BY ZenonT(60), <1>1, WithEnd DEF Results
<1> HIDE DEF n
<1>q. QED  BY <1>2, <1>3, <1>4, <1>5 DEF Places

LEMMA UpgradeBegins ==
  ASSUME TypeOK, NEW t \in Tags, Upgrade(t)
  PROVE  \E o \in Op :
           /\ Begin(o) /\ o.kind = "upgrade" /\ o.tag = t /\ ~o.kept /\ bin # None
           /\ \/ o.at = "fetch" /\ o.result = "none"
              \/ o.at = "idle" /\ o.result = "up to date"
<1> DEFINE o == [NoOp EXCEPT !.kind = "upgrade", !.tag = t]
           n == [o EXCEPT !.at = "fetch"]
<1>0. o = [NoOp EXCEPT !.kind = "upgrade", !.tag = t]
  OBVIOUS
<1> HIDE DEF o
<1>1. o \in Op /\ o.kind = "upgrade" /\ o.tag = t /\ ~o.kept /\ o.result = "none"
  BY <1>0, NoOpIs DEF Op, Kinds
<1>2. bin # None /\ (Begin(n) \/ Begin(Ended(o, "up to date")))
  BY DEF Upgrade, o
<1>3. /\ n \in Op /\ n.kind = "upgrade" /\ n.tag = t /\ ~n.kept
      /\ n.result = "none" /\ n.at = "fetch"
  BY <1>1, WithPlace DEF Places
<1>4. /\ Ended(o, "up to date") \in Op /\ Ended(o, "up to date").kind = "upgrade"
      /\ Ended(o, "up to date").tag = t /\ ~Ended(o, "up to date").kept
      /\ Ended(o, "up to date").result = "up to date" /\ Ended(o, "up to date").at = "idle"
  BY <1>1, WithEnd DEF Results
<1> HIDE DEF n
<1>q. QED  BY <1>2, <1>3, <1>4

LEMMA SetupBegins ==
  ASSUME TypeOK, NEW d \in Domain, Setup(d)
  PROVE  \E o \in Op :
           /\ Begin(o) /\ o.kind = "setup" /\ o.domain = d /\ ~o.kept /\ bin # None
           /\ o.at = "inspect" /\ o.result = "none"
<1> DEFINE o == [NoOp EXCEPT !.kind = "setup", !.at = "inspect", !.domain = d]
<1>1. /\ o \in Op /\ o.kind = "setup" /\ o.domain = d /\ ~o.kept
      /\ o.at = "inspect" /\ o.result = "none"
  BY NoOpIs DEF Op, Kinds, Places
<1>2. bin # None /\ Begin(o)
  BY DEF Setup
<1> HIDE DEF o
<1>q. QED  BY <1>1, <1>2

LEMMA UninstallBegins ==
  ASSUME TypeOK, Uninstall
  PROVE  \E o \in Op :
           /\ Begin(o) /\ o.kind = "uninstall" /\ ~o.kept
           /\ o.at = "teardown" /\ o.result = "none"
<1> DEFINE o == [NoOp EXCEPT !.kind = "uninstall", !.at = "teardown"]
<1>1. /\ o \in Op /\ o.kind = "uninstall" /\ ~o.kept
      /\ o.at = "teardown" /\ o.result = "none"
  BY NoOpIs DEF Op, Kinds, Places
<1>2. Begin(o)
  BY DEF Uninstall
<1> HIDE DEF o
<1>q. QED  BY <1>1, <1>2

(* A program that begins changes nothing, and its predecessor has ended.   *)
LEMMA BeginKeeps ==
  ASSUME IInv,
         \/ \E t \in Tags : Install(t) \/ Upgrade(t)
         \/ \E d \in Domain : Setup(d)
         \/ Uninstall
  PROVE  IInv'
<1>0. TypeOK /\ Asked /\ UnitHasBinary /\ KeyOnce
  BY DEF IInv
<1>1. ASSUME NEW o \in Op, Begin(o), ~o.kept,
             o.kind \in {"install", "upgrade"} => o.tag \in Tags,
             o.kind = "setup" => o.domain \in Domain /\ o.at = "inspect" /\ bin # None,
             o.kind = "install" =>
               \/ o.at = "lay" /\ (~unit \/ bin = None)
               \/ o.at \in {"sh-stop", "backup"} /\ bin # None
               \/ o.at = "idle",
             o.kind = "upgrade" => bin # None /\ o.at \in {"fetch", "idle"},
             o.kind = "uninstall" => o.at = "teardown"
      PROVE  IInv'
  <2>0. /\ op' \in Op /\ op'.old = bin /\ op'.stale = prev /\ ~op'.kept
        /\ op'.kind = o.kind /\ op'.at = o.at /\ op'.tag = o.tag /\ op'.domain = o.domain
        /\ UNCHANGED <<files, proc, setupFiles, crashes>> /\ ops' \in 0..MaxOps
    BY <1>0, <1>1, Begins
  <2>1. TypeOK'  BY <1>0, <2>0 DEF TypeOK, files, setupFiles
  <2>2. Asked'  BY <1>0, <1>1, <2>0 DEF Asked
  <2>3. InstallKnows'  BY <1>1, <2>0 DEF InstallKnows, files, setupFiles
  <2>4. SetupKnows'  BY <1>1, <2>0 DEF SetupKnows, files
  <2>5. UpgradeKnows'  BY <1>1, <2>0 DEF UpgradeKnows, files
  <2>6. UninstallKnows'  BY <1>1, <2>0 DEF UninstallKnows, At
  <2>7. UnitHasBinary'  BY <1>0, <2>0 DEF UnitHasBinary, files, setupFiles
  <2>8. OldBinarySurvives'  BY <2>0 DEF OldBinarySurvives, files
  <2>9. KeyOnce'  BY <1>0, <2>0 DEF KeyOnce, setupFiles
  <2>q. QED  BY <2>1, <2>2, <2>3, <2>4, <2>5, <2>6, <2>7, <2>8, <2>9 DEF IInv
<1>2. ASSUME NEW t \in Tags, Install(t) PROVE IInv'
  <2>1. PICK o \in Op :
          /\ Begin(o) /\ o.kind = "install" /\ o.tag = t /\ ~o.kept
          /\ \/ o.at = "lay" /\ (~unit \/ bin = None) /\ o.result = "none"
             \/ o.at \in {"sh-stop", "backup"} /\ bin # None /\ o.result = "none"
             \/ o.at = "idle" /\ o.result = "failed"
    BY <1>0, <1>2, InstallBegins
  <2>q. QED  BY <1>1, <2>1
<1>3. ASSUME NEW t \in Tags, Upgrade(t) PROVE IInv'
  <2>1. PICK o \in Op :
          /\ Begin(o) /\ o.kind = "upgrade" /\ o.tag = t /\ ~o.kept /\ bin # None
          /\ \/ o.at = "fetch" /\ o.result = "none"
             \/ o.at = "idle" /\ o.result = "up to date"
    BY <1>0, <1>3, UpgradeBegins
  <2>q. QED  BY <1>1, <2>1
<1>4. ASSUME NEW d \in Domain, Setup(d) PROVE IInv'
  <2>1. PICK o \in Op :
          /\ Begin(o) /\ o.kind = "setup" /\ o.domain = d /\ ~o.kept /\ bin # None
          /\ o.at = "inspect" /\ o.result = "none"
    BY <1>0, <1>4, SetupBegins
  <2>q. QED  BY <1>1, <2>1
<1>5. ASSUME Uninstall PROVE IInv'
  <2>1. PICK o \in Op :
          /\ Begin(o) /\ o.kind = "uninstall" /\ ~o.kept
          /\ o.at = "teardown" /\ o.result = "none"
    BY <1>0, <1>5, UninstallBegins
  <2>q. QED  BY <1>1, <2>1
<1>q. QED  BY <1>2, <1>3, <1>4, <1>5

-----------------------------------------------------------------------------
(* The theorems                                                            *)

LEMMA InitKeeps == ASSUME Init PROVE IInv
<1>1. NoProc \in Process /\ ~NoProc.ready
  BY DEF NoProc, Process
<1>2. NoOp.kind = "none"
  BY DEF NoOp
<1>3. op \in Op /\ proc \in Process /\ ops \in 0..MaxOps /\ crashes \in 0..MaxCrashes
  BY <1>1, NoOpIs, BoundAssumption DEF Init
<1>4. TypeOK
  BY <1>3 DEF Init, TypeOK, None
<1>q. QED
  BY <1>1, <1>2, <1>4 DEF Init, IInv, Asked, InstallKnows, SetupKnows, UpgradeKnows,
     UninstallKnows, At, UnitHasBinary, OldBinarySurvives, KeyOnce

LEMMA NextKeeps == ASSUME IInv, [Next]_vars PROVE IInv'
<1>1. CASE Next
  BY <1>1, BeginKeeps, InstallStepKeeps, SetupFirstKeeps, SetupSecondKeeps,
     UpgradeStepKeeps, OthersKeeps DEF Next, SetupStep
<1>2. CASE UNCHANGED vars
  BY <1>2 DEF vars, files, setupFiles, IInv, TypeOK, Asked, InstallKnows, SetupKnows,
     UpgradeKnows, UninstallKnows, At, UnitHasBinary, OldBinarySurvives, KeyOnce
<1>q. QED  BY <1>1, <1>2

THEOREM Invariant == Spec => []IInv
BY InitKeeps, NextKeeps, PTL DEF Spec

(* Every variable keeps its type, for any versions and domains.            *)
THEOREM TypeCorrect == Spec => []TypeOK
<1>1. IInv => TypeOK  BY DEF IInv
<1>q. QED  BY Invariant, <1>1, PTL

(* However often install, upgrade, roll-back and uninstall are run and     *)
(* interrupted, a service file has a binary, or its predecessor beside it  *)
(* (preserve_previous_binary, install_binary, attempt_rollback).           *)
THEOREM ServiceKeepsBinary == Spec => []UnitHasBinary
<1>1. IInv => UnitHasBinary  BY DEF IInv
<1>q. QED  BY Invariant, <1>1, PTL

(* What an upgrade found installed is not lost before the new version has  *)
(* shown itself (run_upgrade).                                             *)
THEOREM UpgradeKeepsOld == Spec => []OldBinarySurvives
<1>1. IInv => OldBinarySurvives  BY DEF IInv
<1>q. QED  BY Invariant, <1>1, PTL

(* No run of any program makes a second DKIM key (generate_keypair).       *)
THEOREM OneKey == Spec => []KeyKept
<1>1. IInv => KeyKept  BY DEF IInv, KeyOnce, KeyKept
<1>q. QED  BY Invariant, <1>1, PTL

(* Only two steps say "upgraded", or "done" of a setup that installs.      *)
Says ==
  op'.result \in {"done", "upgraded"} /\ op'.result # op.result =>
    \/ WaitForReady /\ proc.ready
    \/ op'.result = "done" /\ (op.kind = "setup" => op.already \/ (WaitForService /\ proc.ready))

LEMMA OnlyTwoSay == ASSUME IInv, [Next]_vars PROVE Says
<1>0. op \in Op /\ TypeOK
  BY DEF IInv, TypeOK
<1>1. CASE InstallStep
  <2>1. op.kind = "install" /\ op'.result \in {op.result, "failed", "done"}
    <3>1. CASE Backup
      BY <1>0, <3>1, BecomesSetup, FailKeeps DEF Backup, At
    <3>2. CASE ShStop
      BY <1>0, <3>2, GotoKeeps, EndKeeps DEF ShStop, At
    <3>3. CASE ~Backup /\ ~ShStop
      BY <1>0, <1>1, <3>3, GotoKeeps, EndKeeps, FailKeeps
      DEF InstallStep, Lay, ShPreserve, ShInstall, ShStart, ShUndo, At
    <3>q. QED  BY <3>1, <3>2, <3>3
  <2>q. QED  BY <2>1 DEF Says
<1>2. CASE SetupStep
  <2>1. CASE Inspect
    <3>1. CASE Fail("failed")
      BY <1>0, <3>1, FailKeeps DEF Says
    <3>2. ASSUME NEW b, op' = [op EXCEPT !.at = "private", !.already = b]
          PROVE  op'.result = op.result
      BY <1>0, <3>2 DEF Op
    <3>q. QED  BY <2>1, <3>1, <3>2 DEF Inspect, Says
  <2>2. CASE CatchallUser
    <3>1. CASE Fail("failed")
      BY <1>0, <3>1, FailKeeps DEF Says
    <3>2. CASE End("done") /\ op.already
      <4>1. op'.result = "done"
        BY <1>0, <3>2, EndKeeps
      <4>q. QED  BY <3>2, <4>1 DEF Says
    <3>3. CASE Goto("unit")
      BY <1>0, <3>3, GotoKeeps DEF Says
    <3>q. QED  BY <2>2, <3>1, <3>2, <3>3 DEF CatchallUser
  <2>3. CASE WaitForService
    BY <1>0, <2>3, EndKeeps, FailKeeps DEF WaitForService, Says
  <2>4. CASE ~Inspect /\ ~CatchallUser /\ ~WaitForService
    <3>1. op'.result \in {op.result, "failed"}
      BY <1>0, <1>2, <2>4, GotoKeeps, EndKeeps, FailKeeps
      DEF SetupStep, PrivateKey, PublicKey, Record, Certificate, FinalizeConfig, WriteConfig,
          MailboxDirs, InstallService, RestartService
    <3>q. QED  BY <3>1 DEF Says
  <2>q. QED  BY <2>1, <2>2, <2>3, <2>4
<1>3. CASE UpgradeStep
  <2>1. CASE WaitForReady
    BY <1>0, <2>1, FailToKeeps DEF WaitForReady, Says
  <2>2. CASE Preserve
    BY <1>0, <2>2, Preserved, FailToKeeps DEF Preserve, Says
  <2>3. CASE ~WaitForReady /\ ~Preserve
    <3>1. op'.result \in {op.result, "preswap", "rolled back", "rollback failed"}
      BY <1>0, <1>3, <2>3, GotoKeeps, EndKeeps, FailKeeps, FailToKeeps
      DEF UpgradeStep, Fetch, Stop, InstallNew, StartNew, RemoveNew, Restore, Resume
    <3>q. QED  BY <3>1 DEF Says
  <2>q. QED  BY <2>1, <2>2, <2>3
<1>4. CASE Teardown \/ Unlink
  BY <1>0, <1>4, GotoKeeps, EndKeeps DEF Teardown, Unlink, At, Says
<1>5. CASE AddUser \/ Binds \/ Dies \/ Crash \/ UNCHANGED vars
  BY <1>0, <1>5 DEF AddUser, Binds, Dies, Crash, vars, Op, Says
<1>6. CASE \/ \E t \in Tags : Install(t) \/ Upgrade(t)
           \/ \E d \in Domain : Setup(d)
           \/ Uninstall
  <2>1. PICK o \in Op : Begin(o) /\ o.result \in {"none", "failed", "up to date"}
    <3>1. ASSUME NEW t \in Tags, Install(t)
          PROVE  \E o \in Op : Begin(o) /\ o.result \in {"none", "failed", "up to date"}
      BY <1>0, <3>1, InstallBegins
    <3>2. ASSUME NEW t \in Tags, Upgrade(t)
          PROVE  \E o \in Op : Begin(o) /\ o.result \in {"none", "failed", "up to date"}
      BY <1>0, <3>2, UpgradeBegins
    <3>3. ASSUME NEW d \in Domain, Setup(d)
          PROVE  \E o \in Op : Begin(o) /\ o.result \in {"none", "failed", "up to date"}
      BY <1>0, <3>3, SetupBegins
    <3>4. ASSUME Uninstall
          PROVE  \E o \in Op : Begin(o) /\ o.result \in {"none", "failed", "up to date"}
      BY <1>0, <3>4, UninstallBegins
    <3>q. QED  BY <1>6, <3>1, <3>2, <3>3, <3>4
  <2>2. op'.result = o.result
    BY <1>0, <2>1, Begins
  <2>q. QED  BY <2>1, <2>2 DEF Says
<1>q. QED  BY <1>1, <1>2, <1>3, <1>4, <1>5, <1>6 DEF Next

(* "Upgraded" is said of the version that listens (wait_for_service_ready  *)
(* in run_upgrade).                                                        *)
THEOREM UpgradeTruthful == Spec => UpgradedRunsNew
<1>1. ASSUME IInv, [Next]_vars
      PROVE  op'.result = "upgraded" /\ op.result # "upgraded"
               => proc'.ready /\ proc'.tag = op.tag /\ bin' = op.tag
  <2>0. op \in Op /\ Asked /\ UpgradeKnows
    BY <1>1 DEF IInv, TypeOK
  <2>1. SUFFICES ASSUME op'.result = "upgraded", op.result # "upgraded"
                 PROVE  proc'.ready /\ proc'.tag = op.tag /\ bin' = op.tag
    OBVIOUS
  <2>2. WaitForReady /\ proc.ready
    BY <1>1, <2>1, OnlyTwoSay DEF Says
  <2>3. At("upgrade", "ready") /\ UNCHANGED <<files, proc>>
    BY <2>2 DEF WaitForReady
  <2>q. QED  BY <2>0, <2>2, <2>3 DEF Asked, UpgradeKnows, At, files
<1>2. IInv /\ [Next]_vars =>
        [op'.result = "upgraded" /\ op.result # "upgraded"
           => proc'.ready /\ proc'.tag = op.tag /\ bin' = op.tag]_vars
  BY <1>1
<1>q. QED  BY Invariant, <1>2, PTL DEF Spec, UpgradedRunsNew

(* When a setup that installs is done, the daemon listens for the domain   *)
(* asked for (install_and_verify_service).                                 *)
THEOREM SetupTruthful == Spec => SetupServes
<1>1. ASSUME IInv, [Next]_vars
      PROVE  op.kind = "setup" /\ op'.result = "done" /\ op.result # "done" /\ ~op.already
               => /\ proc'.ready /\ proc'.domain = op.domain
                  /\ unit' /\ config' = op.domain /\ bin' # None
  <2>0. op \in Op /\ Asked /\ SetupKnows
    BY <1>1 DEF IInv, TypeOK
  <2>1. SUFFICES ASSUME op.kind = "setup", op'.result = "done", op.result # "done", ~op.already
                 PROVE  /\ proc'.ready /\ proc'.domain = op.domain
                        /\ unit' /\ config' = op.domain /\ bin' # None
    OBVIOUS
  <2>2. \/ WaitForService /\ proc.ready
        \/ WaitForReady
    BY <1>1, <2>1, OnlyTwoSay DEF Says
  <2>3. At("setup", "wait") /\ proc.ready /\ UNCHANGED <<files, proc, setupFiles>>
    BY <2>0, <2>1, <2>2 DEF WaitForService, WaitForReady, At
  <2>q. QED  BY <2>0, <2>3 DEF Asked, SetupKnows, At, files, setupFiles
<1>2. IInv /\ [Next]_vars =>
        [op.kind = "setup" /\ op'.result = "done" /\ op.result # "done" /\ ~op.already
           => /\ proc'.ready /\ proc'.domain = op.domain
              /\ unit' /\ config' = op.domain /\ bin' # None]_vars
  BY <1>1
<1>q. QED  BY Invariant, <1>2, PTL DEF Spec, SetupServes

-----------------------------------------------------------------------------
(* Which release.  A name and a file have to be of the same release when   *)
(* the file is put in place, and what a program took note of has to be     *)
(* still so when it says that there is nothing to do.                      *)

TagOrNone == Tag \cup {Zero, R!NoTag}
Fetching ==
  [kind : {"none", "install", "upgrade"},
   at : {"idle", "tag", "decide", "manifest", "download", "extract", "swap"},
   asked : Tag \cup {R!NoTag}, target : Target \cup {"none"}, force : BOOLEAN, dry : BOOLEAN,
   tag : TagOrNone, own : TagOrNone, seen : TagOrNone, order : {"none", "older", "newer", "equal"},
   listed : SUBSET R!Binary, upgrade : BOOLEAN, inner : R!Binary \cup {R!NoBin},
   told : {"none", "error", "already", "setup", "uptodate", "dry", "done"}]

ReleaseTypes ==
  /\ binary \in R!Binary \cup {R!NoBin} /\ latest \in Tag /\ assets \subseteq R!Binary
  /\ mirror \in Tag \cup {R!NoTag}
  /\ fetch \in Fetching

ReleaseKnows ==
  /\ fetch.at = "decide" => fetch.kind = "install" /\ fetch.tag \in Tag \cup {Zero}
  /\ fetch.at \in {"extract", "swap"} => fetch.inner \in R!Binary
  /\ fetch.at = "swap" => fetch.inner = R!Wanted
  /\ fetch.kind = "upgrade" /\ fetch.at # "idle" /\ ~others => binary.tag = fetch.own

ReleaseInv == focus = "release" => ReleaseTypes /\ ReleaseKnows

LEMMA NothingFetched ==
  /\ R!NoCmd \in Fetching /\ R!NoCmd.at = "idle" /\ R!NoCmd.kind = "none" /\ R!NoCmd.told = "none"
BY DEF R!NoCmd, Fetching, TagOrNone, R!None

LEMMA InitRelease == MCInit => ReleaseInv
<1> SUFFICES ASSUME MCInit, focus = "release"
             PROVE  ReleaseTypes /\ ReleaseKnows
  BY DEF ReleaseInv
<1>1. R!Init
  BY DEF MCInit
<1>2. QED
  BY <1>1, NothingFetched DEF R!Init, ReleaseTypes, ReleaseKnows

LEMMA EqualIsSame ==
  \A a, b : /\ R!CompareTags(a, b) \in {"older", "newer", "equal"}
            /\ R!CompareTags(a, b) = "equal" <=> a = b
BY DEF R!CompareTags

LEMMA FetchEnds ==
  ASSUME fetch \in Fetching, NEW told \in {"error", "already", "setup", "dry", "done"}, R!End(told)
  PROVE  /\ fetch' \in Fetching /\ fetch'.at = "idle" /\ fetch'.told = told
         /\ fetch'.tag = fetch.tag /\ fetch'.target = fetch.target
<1>1. fetch' = [R!NoCmd EXCEPT !.kind = fetch.kind, !.tag = fetch.tag, !.target = fetch.target,
                               !.told = told]
  BY DEF R!End
<1>2. QED
  BY ZenonT(60), <1>1, NothingFetched DEF Fetching

(* What install.sh notes when it has compared.                             *)
LEMMA Noted ==
  ASSUME NEW f \in Fetching, NEW s \in TagOrNone, NEW o \in {"none", "older", "newer", "equal"},
         NEW up \in BOOLEAN
  PROVE  [f EXCEPT !.seen = s, !.order = o, !.upgrade = up, !.at = "download"] \in Fetching
BY ZenonT(60) DEF Fetching

(* What a step has to show: the command ends, saying what is true, or goes *)
(* on; the world may change only by an event.                              *)
SaysTruth ==
  fetch.at # "idle" /\ fetch'.at = "idle" =>
    /\ fetch'.told = "done" => binary' = [tag |-> fetch'.tag, target |-> fetch'.target]
    /\ fetch'.told = "already" \/ (fetch'.told = "uptodate" /\ ~others) => binary.tag = fetch'.tag
FetchStep == (ReleaseTypes /\ ReleaseKnows)' /\ SaysTruth

LEMMA EndsTrue ==
  ASSUME ReleaseTypes, ReleaseKnows, R!Quiet, binary' \in R!Binary \cup {R!NoBin},
         NEW told \in {"error", "already", "setup", "dry", "done"}, R!End(told),
         told = "done" => binary' = R!Wanted,
         told = "already" => binary.tag = fetch.tag
  PROVE  FetchStep
<1>1. /\ fetch' \in Fetching /\ fetch'.at = "idle" /\ fetch'.told = told
      /\ fetch'.tag = fetch.tag /\ fetch'.target = fetch.target
  BY FetchEnds DEF ReleaseTypes
<1>2. QED
  BY <1>1 DEF FetchStep, SaysTruth, ReleaseTypes, ReleaseKnows, R!Quiet, R!World, R!Wanted

(* A command that goes on, and leaves the host alone.                      *)
LEMMA GoesOn ==
  ASSUME ReleaseTypes, ReleaseKnows, R!Quiet, binary' = binary, fetch' \in Fetching,
         fetch'.at # "idle", fetch'.kind = fetch.kind, fetch.at # "idle", fetch'.own = fetch.own,
         fetch'.at = "decide" => fetch.kind = "install" /\ fetch'.tag \in Tag \cup {Zero},
         fetch'.at \in {"extract", "swap"} => fetch'.inner \in R!Binary,
         fetch'.at = "swap" => fetch'.inner = [tag |-> fetch'.tag, target |-> fetch'.target]
  PROVE  FetchStep
BY DEF FetchStep, SaysTruth, ReleaseTypes, ReleaseKnows, R!Quiet, R!World, R!Wanted

(* Nobody is at work, or the others take their turn.                       *)
LEMMA EventKeeps ==
  ASSUME ReleaseTypes, ReleaseKnows, R!Publish \/ R!Withdraw \/ R!OthersTurn
  PROVE  FetchStep
<1>1. fetch' = fetch /\ mirror' = mirror
  BY DEF R!Publish, R!Withdraw, R!OthersTurn
<1>2. (others' = others /\ binary' = binary) \/ others' = TRUE
  BY DEF R!Publish, R!Withdraw, R!OthersTurn
<1>3. ReleaseTypes'
  BY <1>1 DEF R!Publish, R!Withdraw, R!OthersTurn, ReleaseTypes
<1>4. ReleaseKnows'
  BY <1>1, <1>2 DEF ReleaseKnows, R!Wanted
<1>5. QED
  BY <1>1, <1>3, <1>4 DEF FetchStep, SaysTruth

LEMMA FetchBegins ==
  ASSUME ReleaseTypes, ReleaseKnows, NEW c \in Fetching, R!Begin(c), c.at \in {"tag", "manifest"},
         c.kind = "upgrade" => binary.tag = c.own
  PROVE  FetchStep
BY DEF R!Begin, FetchStep, SaysTruth, ReleaseTypes, ReleaseKnows, R!World

LEMMA FetchKeeps ==
  ASSUME ReleaseTypes, ReleaseKnows, R!Next
  PROVE  FetchStep
<1> USE DEF R!At, R!None
<1>1. fetch \in Fetching /\ binary \in R!Binary \cup {R!NoBin}
  BY DEF ReleaseTypes
<1>2. ASSUME NEW t \in {R!NoTag} \cup Tag, NEW force \in BOOLEAN, NEW dry \in BOOLEAN,
             NEW g \in Target, R!Install(t, g, force, dry)
      PROVE  FetchStep
  <2> DEFINE c == [R!NoCmd EXCEPT !.kind = "install", !.at = "tag", !.asked = t,
                                  !.target = g, !.force = force, !.dry = dry]
  <2>1. c \in Fetching /\ c.kind = "install" /\ c.at = "tag" /\ R!Begin(c)
    BY ZenonT(60), <1>2, NothingFetched DEF R!Install, Fetching
  <2> HIDE DEF c
  <2>2. QED
    BY <2>1, FetchBegins
<1>3. ASSUME NEW t \in {R!NoTag} \cup Tag, NEW force \in BOOLEAN, NEW dry \in BOOLEAN,
             R!Upgrade(t, force, dry)
      PROVE  FetchStep
  <2> DEFINE c == [R!NoCmd EXCEPT !.kind = "upgrade", !.at = "manifest", !.asked = t,
                                  !.target = binary.target, !.force = force, !.dry = dry,
                                  !.own = binary.tag]
  <2>1. R!Begin(c) /\ binary.tag \in Tag /\ binary.target \in Target
    BY <1>1, <1>3 DEF R!Upgrade, R!Binary
  <2>2. binary.tag \in TagOrNone /\ binary.target \in Target \cup {"none"} /\ t \in Tag \cup {R!NoTag}
    BY <2>1 DEF TagOrNone
  <2>3. c \in Fetching
    BY <2>2, NothingFetched DEF Fetching
  <2>4. c.kind = "upgrade" /\ c.at = "manifest" /\ c.own = binary.tag
    BY NothingFetched DEF Fetching
  <2> HIDE DEF c
  <2>5. QED
    BY <2>1, <2>3, <2>4, FetchBegins
<1>4. CASE R!ResolveTag
  <2>1. fetch.at = "tag" /\ fetch.kind = "install" /\ R!Quiet /\ binary' = binary
    BY <1>4 DEF R!ResolveTag
  <2>2. ASSUME NEW t \in Tag \cup {Zero}, fetch' = [fetch EXCEPT !.tag = t, !.at = "decide"]
        PROVE  FetchStep
    <3>1. fetch' \in Fetching /\ fetch'.at = "decide" /\ fetch'.tag = t /\ fetch'.kind = fetch.kind
          /\ fetch'.own = fetch.own
      BY <1>1, <2>2 DEF Fetching, TagOrNone
    <3>2. QED
      BY <2>1, <3>1, GoesOn
  <2>3. CASE R!End("error")
    BY <1>1, <2>1, <2>3, EndsTrue
  <2>4. fetch.asked \in Tag \cup {R!NoTag} /\ latest \in Tag
    BY <1>1 DEF Fetching, ReleaseTypes
  <2>5. QED
    BY <1>4, <2>2, <2>3, <2>4 DEF R!ResolveTag
<1>5. CASE R!Decide
  <2> DEFINE seen == R!ParseInstalledTag
             order == IF seen = R!NoTag THEN "none" ELSE R!CompareTags(seen, fetch.tag)
  <2>1. fetch.at = "decide" /\ fetch.kind = "install" /\ R!Quiet /\ binary' = binary
    BY <1>5 DEF R!Decide
  <2>2. order \in {"none", "older", "newer", "equal"}
        /\ (order = "equal" => binary.tag = fetch.tag)
    BY EqualIsSame DEF R!ParseInstalledTag
  <2>3. ASSUME NEW up \in BOOLEAN,
               fetch' = [fetch EXCEPT !.seen = seen, !.order = order, !.upgrade = up, !.at = "download"]
        PROVE  FetchStep
    <3>1. seen \in TagOrNone
      BY <1>1 DEF R!ParseInstalledTag, R!Binary, R!NoBin, TagOrNone
    <3>2. order \in {"none", "older", "newer", "equal"}
      BY <2>2
    <3> HIDE DEF seen, order
    <3>3. fetch' \in Fetching
      BY <1>1, <2>3, <3>1, <3>2, Noted
    <3>4. fetch'.at = "download" /\ fetch'.kind = fetch.kind /\ fetch'.own = fetch.own
      BY <1>1, <2>3 DEF Fetching
    <3>5. QED
      BY <2>1, <3>3, <3>4, GoesOn
  <2>4. ASSUME NEW told \in {"error", "already", "setup"}, R!End(told),
               told = "already" => order = "equal"
        PROVE  FetchStep
    BY <1>1, <2>1, <2>2, <2>4, EndsTrue
  <2>5. QED
    BY <1>5, <2>3, <2>4 DEF R!Decide
<1>6. CASE R!Resolve
  <2>1. fetch.at = "manifest" /\ fetch.kind = "upgrade" /\ R!Quiet /\ binary' = binary
    BY <1>6 DEF R!Resolve
  <2>2. R!ManifestTag \in Tag
    BY <1>1 DEF R!ManifestTag, ReleaseTypes, Fetching
  <2> DEFINE t == R!ManifestTag
  <2>3. CASE /\ t = fetch.own
             /\ fetch' = [R!NoCmd EXCEPT !.kind = "upgrade", !.tag = t, !.target = fetch.target,
                                         !.told = "uptodate"]
    <3>1. t = fetch.own /\ t \in Tag
      BY <2>2, <2>3
    <3> HIDE DEF t
    <3>2. fetch' \in Fetching /\ fetch'.at = "idle" /\ fetch'.tag = fetch.own
          /\ fetch'.told = "uptodate"
      BY ZenonT(60), <1>1, <2>3, <3>1, NothingFetched DEF Fetching, TagOrNone
    <3>3. ~others => binary.tag = fetch.own
      BY <2>1 DEF ReleaseKnows
    <3>4. QED
      BY <2>1, <3>2, <3>3 DEF FetchStep, SaysTruth, ReleaseTypes, ReleaseKnows, R!Quiet, R!World
  <2>4. CASE fetch' = [fetch EXCEPT !.tag = t, !.at = "download", !.upgrade = TRUE,
                                    !.listed = {a \in assets : a.tag = t}]
    <3>1. {a \in assets : a.tag = t} \subseteq R!Binary /\ t \in TagOrNone
      BY <2>2 DEF ReleaseTypes, TagOrNone
    <3> HIDE DEF t
    <3>2. fetch' \in Fetching /\ fetch'.at = "download" /\ fetch'.kind = fetch.kind
          /\ fetch'.own = fetch.own
      BY <1>1, <2>4, <3>1 DEF Fetching
    <3>3. QED
      BY <2>1, <3>2, GoesOn
  <2>5. CASE R!End("error")
    BY <1>1, <2>1, <2>5, EndsTrue
  <2>6. QED
    BY <1>6, <2>3, <2>4, <2>5 DEF R!Resolve
<1>7. CASE R!Download
  <2>1. fetch.at = "download" /\ R!Quiet /\ binary' = binary
    BY <1>7 DEF R!Download
  <2>2. ASSUME NEW a \in R!Binary, fetch' = [fetch EXCEPT !.at = "extract", !.inner = a]
        PROVE  FetchStep
    <3>1. fetch' \in Fetching /\ fetch'.at = "extract" /\ fetch'.kind = fetch.kind
          /\ fetch'.own = fetch.own /\ fetch'.inner = a
      BY <1>1, <2>2 DEF Fetching
    <3>2. QED
      BY <2>1, <3>1, GoesOn
  <2>3. ASSUME NEW told \in {"error", "dry"}, R!End(told)
        PROVE  FetchStep
    BY <1>1, <2>1, <2>3, EndsTrue
  <2>4. assets \subseteq R!Binary
    BY DEF ReleaseTypes
  <2>5. QED
    BY <1>7, <2>2, <2>3, <2>4 DEF R!Download
<1>8. CASE R!Extract
  <2>1. fetch.at = "extract" /\ R!Quiet /\ binary' = binary /\ fetch.inner \in R!Binary
    BY <1>8 DEF R!Extract, ReleaseKnows
  <2>2. CASE fetch.inner = R!Wanted /\ fetch' = [fetch EXCEPT !.at = "swap"]
    <3>1. fetch' \in Fetching /\ fetch'.at = "swap" /\ fetch'.kind = fetch.kind
          /\ fetch'.own = fetch.own /\ fetch'.inner = fetch.inner
          /\ fetch'.tag = fetch.tag /\ fetch'.target = fetch.target
      BY <1>1, <2>2 DEF Fetching
    <3>2. QED
      BY <2>1, <2>2, <3>1, GoesOn DEF R!Wanted
  <2>3. CASE R!End("error")
    BY <1>1, <2>1, <2>3, EndsTrue
  <2>4. QED
    BY <1>8, <2>2, <2>3 DEF R!Extract
<1>9. CASE R!Swap
  <2>1. fetch.at = "swap" /\ R!Quiet /\ fetch.inner \in R!Binary /\ fetch.inner = R!Wanted
    BY <1>9 DEF R!Swap, ReleaseKnows
  <2>2. CASE binary' = fetch.inner /\ (R!End("done") \/ R!End("setup"))
    BY <1>1, <2>1, <2>2, EndsTrue
  <2>3. CASE binary' = binary /\ R!End("error")
    BY <1>1, <2>1, <2>3, EndsTrue
  <2>4. QED
    BY <1>9, <2>2, <2>3 DEF R!Swap
<1>10. QED
  BY <1>2, <1>3, <1>4, <1>5, <1>6, <1>7, <1>8, <1>9, EventKeeps DEF R!Next

(* "Installed" and "up to date" are said of the binary that is there, for  *)
(* any releases, targets, manifests and archives.                          *)
THEOREM InstalledIsTold == MCSpec => ToldIsInstalled
<1>1. ReleaseInv /\ [MCNext]_MCVars => ReleaseInv'
  <2> SUFFICES ASSUME ReleaseInv, [MCNext]_MCVars
               PROVE  ReleaseInv'
    OBVIOUS
  <2>1. CASE R!Next
    BY <2>1, FetchKeeps DEF ReleaseInv, FetchStep, MCNext, MCVars
  <2>2. CASE UNCHANGED <<focus, releaseVars>>
    BY <2>2 DEF ReleaseInv, ReleaseTypes, ReleaseKnows, releaseVars, R!Wanted
  <2>3. QED
    BY <2>1, <2>2 DEF MCNext, MCVars, ReleaseInv
<1>2. ReleaseInv /\ [MCNext]_MCVars => [SaysTruth]_(R!vars)
  <2> SUFFICES ASSUME ReleaseInv, [MCNext]_MCVars
               PROVE  SaysTruth \/ UNCHANGED R!vars
    OBVIOUS
  <2>1. CASE focus = "release" /\ R!Next
    BY <2>1, FetchKeeps DEF ReleaseInv, FetchStep
  <2>2. CASE UNCHANGED releaseVars
    BY <2>2 DEF SaysTruth, releaseVars
  <2>3. QED
    BY <2>1, <2>2 DEF MCNext, MCVars
<1>3. QED
  BY <1>1, <1>2, InitRelease, PTL DEF MCSpec, SaysTruth, ToldIsInstalled, R!ToldIsInstalled

-----------------------------------------------------------------------------
(* The wizard of aimx setup.  What it says of the records rests on what a  *)
(* look has found since it began, what it writes on what there was when    *)
(* the policy was asked for, and when config.toml was loaded.              *)
Pages ==
  {"idle", "domain", "key", "menu", "look", "shown", "cert", "trust", "prompt", "install",
   "write", "fill", "finish"}
File ==
  [state : {"absent", "broken", "whole"}, domain : Domain \cup {W!None},
   trust : W!Policy \cup {W!None}, catchall : BOOLEAN]
Wizarding ==
  [at : Pages, quiet : BOOLEAN, domain : Domain \cup {W!None}, whole : BOOLEAN,
   rec : Nat, resolver : Nat, attempt : Nat, result : [W!Rec -> W!Results],
   asked : W!Policy \cup {W!None}, tries : Nat, copy : File,
   told : {W!None, "verified", "complete", "error", "interrupted"}]

WizardTypes ==
  /\ wiz \in Wizarding /\ file \in File /\ zone \in [Domain -> [W!Rec -> W!Value]]
  /\ host \in [up : BOOLEAN, cert : BOOLEAN, key : BOOLEAN]
  /\ current \subseteq W!Rec /\ edited \in BOOLEAN /\ stale \in BOOLEAN /\ events \in Nat

(* A look at the records counts for those found in order since it began.   *)
LookKnows ==
  /\ wiz.at \notin {"idle", "domain"} => wiz.domain \in Domain
  /\ wiz.at = "look" => W!Published(wiz.domain) \subseteq current
  /\ wiz.at \in {"look", "shown"} =>
       \A r \in W!Rec : wiz.result[r] \in {"pass", "warn"} => r \in current

(* A policy is asked for when there is no file. What is then written is    *)
(* the copy, which has the policy that was asked for, or the one of the    *)
(* file that was loaded; both hold as long as no other wrote the file.     *)
PolicyKnows ==
  /\ file.state # "whole" => file.trust = W!None
  /\ wiz.at # "idle" => wiz.told \in {W!None, "verified"}
  /\ wiz.at \notin {"idle", "install", "write", "fill", "finish"} => wiz.asked = W!None
  /\ wiz.at = "prompt" => edited \/ file.state = "absent"
  /\ wiz.at = "install" /\ wiz.asked # W!None => edited \/ file.state = "absent"
  /\ wiz.at \in {"write", "fill"} /\ wiz.asked # W!None => edited \/ wiz.copy.trust = wiz.asked
  /\ wiz.at = "finish" /\ wiz.asked # W!None => edited \/ file.trust = wiz.asked
  /\ wiz.at \in {"write", "fill"} => wiz.copy.state = "whole" /\ (stale => edited)
  /\ wiz.at = "write" => stale \/ file.state = "absent" \/ file.trust = wiz.copy.trust
  /\ wiz.at = "fill" => stale \/ file.state = "broken"

WizardInv ==
  /\ focus = "wizard" => WizardTypes /\ LookKnows /\ PolicyKnows
  /\ focus # "wizard" => wiz.at = "idle"

LEMMA NoWizard ==
  /\ W!NoRun \in Wizarding /\ W!NoRun.at = "idle" /\ W!NoRun.asked = W!None
  /\ W!NoRun.told = W!None
<1>1. W!NoFile \in File
  BY DEF W!NoFile, File
<1>2. QED
  BY <1>1 DEF W!NoRun, Wizarding, Pages, W!None, W!Results

LEMMA InitWizard == MCInit => WizardInv
<1> SUFFICES ASSUME MCInit, focus = "wizard"
             PROVE  WizardTypes /\ LookKnows /\ PolicyKnows
  BY NoWizard DEF WizardInv, MCInit, WizardIdle
<1>1. W!Init
  BY DEF MCInit
<1>2. file \in File /\ (file.state # "whole" => file.trust = W!None)
  <2>1. CASE file = W!NoFile
    BY <2>1 DEF File, W!NoFile
  <2>2. ASSUME NEW d \in Domain, NEW p \in W!Policy, NEW c \in BOOLEAN,
               file = [state |-> "whole", domain |-> d, trust |-> p, catchall |-> c]
        PROVE  file \in File /\ file.state = "whole"
    BY <2>2 DEF File
  <2>3. QED
    BY <1>1, <2>1, <2>2 DEF W!Init, W!NoFile
<1>3. zone \in [Domain -> [W!Rec -> W!Value]]
  BY <1>1 DEF W!Init, W!Value
<1>4. WizardTypes
  <2>1. /\ wiz = W!NoRun /\ current = {} /\ edited = FALSE /\ stale = FALSE /\ events = 0
        /\ host \in [up : BOOLEAN, cert : BOOLEAN, key : BOOLEAN]
    BY <1>1 DEF W!Init
  <2>2. QED
    BY <1>2, <1>3, <2>1, NoWizard DEF WizardTypes
<1>5. QED
  BY <1>1, <1>2, <1>4, NoWizard DEF W!Init, LookKnows, PolicyKnows

LEMMA WizardEnds ==
  ASSUME NEW told \in {"error", "interrupted"}, W!End(told)
  PROVE  wiz' \in Wizarding /\ wiz'.at = "idle" /\ wiz'.told = told
BY NoWizard DEF W!End, Wizarding, Pages

LEMMA WizardGoes ==
  ASSUME wiz \in Wizarding, NEW place \in Pages, W!Goto(place)
  PROVE  /\ wiz' \in Wizarding /\ wiz'.at = place /\ wiz'.domain = wiz.domain
         /\ wiz'.result = wiz.result /\ wiz'.asked = wiz.asked /\ wiz'.told = wiz.told
         /\ wiz'.whole = wiz.whole
BY DEF W!Goto, Wizarding

(* What a step says.                                                       *)
SaysVerified == wiz'.told = "verified" /\ wiz.told # "verified" => current = W!Rec
KeepsTrust ==
  /\ (file.trust # W!None /\ events' = events /\ ~stale) => file'.trust = file.trust
  /\ (wiz'.told = "complete" /\ ~W!At("idle") /\ wiz.asked # W!None)
       => edited \/ file.trust = wiz.asked
WizardStep == (WizardTypes /\ LookKnows /\ PolicyKnows)' /\ SaysVerified /\ KeepsTrust

(* A run that ends without a word on records or policy.                    *)
LEMMA WizardEndKeeps ==
  ASSUME WizardTypes, LookKnows, PolicyKnows,
         NEW told \in {"error", "interrupted"}, W!End(told),
         UNCHANGED <<file, host, zone, current, edited, stale, events>>
  PROVE  WizardStep
<1>1. wiz' \in Wizarding /\ wiz'.at = "idle" /\ wiz'.told = told
  BY WizardEnds
<1>2. QED
  BY <1>1 DEF WizardStep, WizardTypes, LookKnows, PolicyKnows, SaysVerified, KeepsTrust

(* A step from one place to another that leaves the file alone.            *)
LEMMA WizardGoesOn ==
  ASSUME WizardTypes, LookKnows, PolicyKnows, wiz.at # "idle",
         wiz' \in Wizarding, wiz'.at \in {"domain", "key", "menu", "cert", "trust"},
         wiz'.asked = wiz.asked, wiz.asked = W!None,
         wiz'.domain \in Domain,
         wiz'.told \in {W!None, "verified"},
         wiz'.told = "verified" => wiz.told = "verified" \/ current = W!Rec,
         host' \in [up : BOOLEAN, cert : BOOLEAN, key : BOOLEAN],
         UNCHANGED <<file, zone, current, edited, stale, events>>
  PROVE  WizardStep
BY DEF WizardStep, WizardTypes, LookKnows, PolicyKnows, SaysVerified, KeepsTrust, Pages

LEMMA JudgeIsPassable ==
  ASSUME NEW r, NEW v, W!Judge(r, v) \in {"pass", "warn"}
  PROVE  W!Passable(r, v)
BY DEF W!Judge, W!Passable

LEMMA JudgeTyped ==
  ASSUME NEW r, NEW v
  PROVE  W!Judge(r, v) \in W!Results
BY DEF W!Judge, W!Results

(* One more record has been looked up.                                     *)
LEMMA LookedKeeps ==
  ASSUME WizardTypes, LookKnows, PolicyKnows, wiz.at = "look", NEW res \in W!Results,
         W!Looked(res),
         Records[wiz.rec] \in W!Rec /\ res \in {"pass", "warn"} => Records[wiz.rec] \in current,
         UNCHANGED <<file, host, zone, current, edited, stale, events>>
  PROVE  WizardStep
<1> DEFINE r == Records[wiz.rec]
           result == [wiz.result EXCEPT ![r] = res]
           place == IF wiz.rec = Len(Records) THEN "shown" ELSE "look"
<1>1. wiz \in Wizarding /\ wiz.result \in [W!Rec -> W!Results]
  BY DEF WizardTypes, Wizarding
<1>2. result \in [W!Rec -> W!Results]
      /\ \A q \in W!Rec : result[q] = IF q = r THEN res ELSE wiz.result[q]
  BY <1>1
<1>3. wiz' = [wiz EXCEPT !.result = result, !.rec = wiz.rec + 1,
                         !.resolver = 1, !.attempt = 1, !.at = place]
  BY <1>1 DEF W!Looked, Wizarding
<1>4. place \in {"shown", "look"}
  OBVIOUS
<1>5. \A q \in W!Rec : result[q] \in {"pass", "warn"} => q \in current
  BY <1>2 DEF LookKnows
<1> HIDE DEF r, result, place
<1>6. wiz' \in Wizarding /\ wiz'.at \in {"shown", "look"} /\ wiz'.result = result
      /\ wiz'.domain = wiz.domain /\ wiz'.asked = wiz.asked /\ wiz'.told = wiz.told
  <2>1. wiz.rec + 1 \in Nat
    BY <1>1 DEF Wizarding
  <2>2. QED
    BY <1>1, <1>2, <1>3, <1>4, <2>1 DEF Wizarding, Pages
<1>7. WizardTypes'
  BY <1>6 DEF WizardTypes
<1>8. LookKnows'
  BY <1>5, <1>6 DEF LookKnows, W!Published
<1>9. PolicyKnows' /\ SaysVerified /\ KeepsTrust
  BY <1>6 DEF PolicyKnows, SaysVerified, KeepsTrust, W!At
<1>10. QED
  BY <1>7, <1>8, <1>9 DEF WizardStep

(* The records: the look at them and what is said of it.                   *)
LEMMA LooksKeep ==
  ASSUME WizardTypes, LookKnows, PolicyKnows,
         W!Verify \/ W!DigAnswers \/ W!DigFails \/ W!Shown
  PROVE  WizardStep
<1> USE DEF W!At, W!World, W!History, W!Bounds
<1>1. wiz \in Wizarding /\ file \in File
  BY DEF WizardTypes
<1>2. CASE W!Verify
  <2> DEFINE empty == [r \in W!Rec |-> W!None]
  <2>1. empty \in [W!Rec -> W!Results] /\ \A r \in W!Rec : empty[r] = W!None
    BY DEF W!Results
  <2>2. wiz' = [wiz EXCEPT !.at = "look", !.rec = 1, !.resolver = 1, !.attempt = 1,
                           !.result = empty]
    BY <1>2 DEF W!Verify
  <2>3. wiz.at = "menu" /\ current' = W!Published(wiz.domain)
        /\ UNCHANGED <<file, host, zone, edited, stale, events>>
    BY <1>2 DEF W!Verify
  <2> HIDE DEF empty
  <2>4. wiz' \in Wizarding /\ wiz'.at = "look" /\ wiz'.result = empty
        /\ wiz'.domain = wiz.domain /\ wiz'.asked = wiz.asked /\ wiz'.told = wiz.told
    BY <1>1, <2>1, <2>2 DEF Wizarding, Pages
  <2>5. current' \subseteq W!Rec
    BY <2>3 DEF W!Published
  <2>6. WizardTypes'
    BY <2>3, <2>4, <2>5 DEF WizardTypes
  <2>7. LookKnows'
    BY <2>1, <2>3, <2>4 DEF LookKnows, W!Published, W!None
  <2>8. QED
    BY <2>3, <2>4, <2>6, <2>7 DEF WizardStep, PolicyKnows, SaysVerified, KeepsTrust
<1>3. CASE W!DigAnswers
  <2> DEFINE r == Records[wiz.rec]
             res == W!Judge(r, zone[wiz.domain][r])
  <2>1. wiz.at = "look" /\ W!Looked(res) /\ UNCHANGED <<file, host, zone, current, edited, stale, events>>
    BY <1>3 DEF W!DigAnswers
  <2>2. res \in W!Results
    BY JudgeTyped
  <2>3. ASSUME r \in W!Rec, res \in {"pass", "warn"}
        PROVE  r \in current
    <3>1. W!Passable(r, zone[wiz.domain][r])
      BY <2>3, JudgeIsPassable
    <3>2. wiz.domain # W!None
      BY <2>1, WizardAssumption DEF LookKnows, W!WizardConstants
    <3>3. r \in W!Published(wiz.domain)
      BY <2>3, <3>1, <3>2 DEF W!Published
    <3>4. QED
      BY <2>1, <3>3 DEF LookKnows
  <2> HIDE DEF r, res
  <2>4. QED
    BY <2>1, <2>2, <2>3, LookedKeeps DEF r
<1>4. CASE W!DigFails
  <2>1. wiz.at = "look" /\ UNCHANGED <<file, host, zone, current, edited, stale, events>>
    BY <1>4 DEF W!DigFails
  <2>2. CASE W!Looked("fail")
    BY <2>1, <2>2, LookedKeeps DEF W!Results
  <2>3. CASE \/ wiz' = [wiz EXCEPT !.attempt = @ + 1]
             \/ wiz' = [wiz EXCEPT !.resolver = @ + 1, !.attempt = 1]
    <3>1. wiz.attempt + 1 \in Nat /\ wiz.resolver + 1 \in Nat
      BY <1>1 DEF Wizarding
    <3>2. wiz' \in Wizarding /\ wiz'.at = wiz.at /\ wiz'.result = wiz.result
          /\ wiz'.domain = wiz.domain /\ wiz'.asked = wiz.asked /\ wiz'.told = wiz.told
      <4>1. CASE wiz' = [wiz EXCEPT !.attempt = wiz.attempt + 1]
        BY <1>1, <3>1, <4>1 DEF Wizarding
      <4>2. CASE wiz' = [wiz EXCEPT !.resolver = wiz.resolver + 1, !.attempt = 1]
        BY <1>1, <3>1, <4>2 DEF Wizarding
      <4>3. QED
        BY <1>1, <2>3, <4>1, <4>2 DEF Wizarding
    <3>3. QED
      BY <2>1, <3>2 DEF WizardStep, WizardTypes, LookKnows, PolicyKnows, SaysVerified, KeepsTrust,
                        W!Published
  <2>4. QED
    BY <1>4, <2>2, <2>3 DEF W!DigFails
<1>5. CASE W!Shown
  <2>1. wiz.at = "shown" /\ UNCHANGED <<file, host, zone, current, edited, stale, events>>
    BY <1>5 DEF W!Shown
  <2>2. W!AllPass => current = W!Rec
    BY <2>1 DEF W!AllPass, LookKnows, WizardTypes
  <2>3. wiz' \in Wizarding /\ wiz'.at \in {"cert", "menu"} /\ wiz'.domain = wiz.domain
        /\ wiz'.asked = wiz.asked /\ wiz'.told \in {wiz.told, "verified"}
        /\ (wiz'.told = wiz.told \/ W!AllPass)
    <3>1. CASE W!AllPass
      <4>1. wiz' = [wiz EXCEPT !.at = "cert", !.told = "verified"]
        BY <1>5, <3>1 DEF W!Shown
      <4>2. QED
        BY <1>1, <3>1, <4>1 DEF Wizarding, Pages
    <3>2. CASE ~W!AllPass
      <4>1. wiz' = [wiz EXCEPT !.at = "menu", !.told = wiz.told]
        BY <1>5, <3>2 DEF W!Shown
      <4>2. QED
        BY <1>1, <4>1 DEF Wizarding, Pages
    <3>3. QED
      BY <3>1, <3>2
  <2>4. wiz.domain \in Domain /\ wiz.asked = W!None /\ wiz.told \in {W!None, "verified"}
    BY <2>1 DEF LookKnows, PolicyKnows
  <2>5. host' \in [up : BOOLEAN, cert : BOOLEAN, key : BOOLEAN] /\ edited' \in BOOLEAN
    BY <2>1 DEF WizardTypes
  <2>6. QED
    BY <2>1, <2>2, <2>3, <2>4, <2>5, WizardGoesOn DEF Pages
<1>6. QED
  BY <1>2, <1>3, <1>4, <1>5

(* The places before and after the look: no file is written.               *)
LEMMA QuestionsKeep ==
  ASSUME WizardTypes, LookKnows, PolicyKnows,
         \/ \E quiet \in BOOLEAN : W!Begin(quiet)
         \/ W!GetDomain \/ W!GetKey \/ W!Skip \/ W!Certify \/ W!Interrupt
  PROVE  WizardStep
<1> USE DEF W!At, W!World, W!History, W!Bounds
<1>1. wiz \in Wizarding /\ host \in [up : BOOLEAN, cert : BOOLEAN, key : BOOLEAN]
      /\ edited \in BOOLEAN
  BY DEF WizardTypes
<1>2. ASSUME NEW quiet \in BOOLEAN, W!Begin(quiet)
      PROVE  WizardStep
  <2>1. wiz' \in Wizarding /\ wiz'.at = "domain" /\ wiz'.asked = W!None /\ wiz'.told = W!None
    <3> DEFINE none == W!NoRun
    <3>1. none \in Wizarding /\ none.asked = W!None /\ none.told = W!None
      BY NoWizard
    <3>2. wiz' = [none EXCEPT !.at = "domain", !.quiet = quiet]
      BY <1>2 DEF W!Begin
    <3> HIDE DEF none
    <3>3. QED
      BY <3>1, <3>2 DEF Wizarding, Pages
  <2>2. wiz.at = "idle" /\ edited' = FALSE /\ stale' = FALSE
        /\ UNCHANGED <<file, host, zone, current, events>>
    BY <1>2 DEF W!Begin
  <2>3. QED
    BY <2>1, <2>2 DEF WizardStep, WizardTypes, LookKnows, PolicyKnows, SaysVerified, KeepsTrust,
                      W!None
<1>3. CASE W!GetDomain
  <2>1. wiz.at = "domain" /\ UNCHANGED <<file, host, zone, current, edited, stale, events>>
    BY <1>3 DEF W!GetDomain
  <2>2. ASSUME NEW d \in Domain,
               wiz' = [wiz EXCEPT !.at = "key", !.domain = d,
                                  !.whole = host.up /\ host.cert /\ host.key]
        PROVE  WizardStep
    <3> DEFINE whole == host.up /\ host.cert /\ host.key
    <3>1. whole \in BOOLEAN /\ wiz' = [wiz EXCEPT !.at = "key", !.domain = d, !.whole = whole]
      BY <2>2
    <3> HIDE DEF whole
    <3>2. wiz' \in Wizarding /\ wiz'.at = "key" /\ wiz'.domain = d /\ wiz'.asked = wiz.asked
          /\ wiz'.told = wiz.told
      BY <1>1, <3>1 DEF Wizarding, Pages
    <3>3. wiz.asked = W!None /\ wiz.told \in {W!None, "verified"}
      BY <2>1 DEF PolicyKnows
    <3>4. QED
      BY <1>1, <2>1, <3>2, <3>3, WizardGoesOn DEF Pages
  <2>3. QED
    BY <1>3, <2>1, <2>2, WizardEndKeeps DEF W!GetDomain
<1>4. ASSUME NEW place \in {"menu", "cert", "trust"}, W!Goto(place),
             wiz.at \in {"key", "menu", "cert"},
             host' \in [up : BOOLEAN, cert : BOOLEAN, key : BOOLEAN],
             UNCHANGED <<file, zone, current, edited, stale, events>>
      PROVE  WizardStep
  <2>1. /\ wiz' \in Wizarding /\ wiz'.at = place /\ wiz'.domain = wiz.domain
        /\ wiz'.asked = wiz.asked /\ wiz'.told = wiz.told
    BY <1>1, <1>4, WizardGoes DEF Pages
  <2>2. wiz.domain \in Domain /\ wiz.asked = W!None /\ wiz.told \in {W!None, "verified"}
    BY <1>4 DEF LookKnows, PolicyKnows
  <2>3. QED
    BY <1>1, <1>4, <2>1, <2>2, WizardGoesOn DEF Pages
<1>5. CASE W!GetKey
  <2>1. [host EXCEPT !.key = TRUE] \in [up : BOOLEAN, cert : BOOLEAN, key : BOOLEAN]
    BY <1>1
  <2>2. QED
    BY <1>1, <1>4, <1>5, <2>1, WizardEndKeeps DEF W!GetKey
<1>6. CASE W!Skip
  BY <1>1, <1>4, <1>6 DEF W!Skip
<1>7. CASE W!Certify
  <2>1. [host EXCEPT !.cert = TRUE] \in [up : BOOLEAN, cert : BOOLEAN, key : BOOLEAN]
    BY <1>1
  <2>2. QED
    BY <1>1, <1>4, <1>7, <2>1, WizardEndKeeps DEF W!Certify
<1>8. CASE W!Interrupt
  BY <1>8, WizardEndKeeps DEF W!Interrupt
<1>9. QED
  BY <1>2, <1>3, <1>5, <1>6, <1>7, <1>8

(* The policy is asked for.                                                *)
LEMMA PolicyAsked ==
  ASSUME WizardTypes, LookKnows, PolicyKnows, W!GetPolicy \/ W!Prompt
  PROVE  WizardStep
<1> USE DEF W!At, W!World, W!History, W!Bounds
<1>1. wiz \in Wizarding
  BY DEF WizardTypes
<1>2. /\ wiz.at \in {"trust", "prompt"} /\ UNCHANGED <<file, host, zone, current, stale, events>>
      /\ wiz.asked = W!None /\ wiz.domain \in Domain /\ wiz.told \in {W!None, "verified"}
  BY DEF W!GetPolicy, W!Prompt, LookKnows, PolicyKnows
<1>3. edited' \in BOOLEAN /\ (wiz.at = "prompt" => edited' = edited)
  BY DEF W!GetPolicy, W!Prompt, WizardTypes
<1>4. CASE W!GetPolicy /\ file.state # "absent" /\ W!Goto("install")
  <2>1. /\ wiz' \in Wizarding /\ wiz'.at = "install" /\ wiz'.domain = wiz.domain
        /\ wiz'.asked = wiz.asked /\ wiz'.told = wiz.told
    BY <1>1, <1>4, WizardGoes DEF Pages
  <2>2. QED
    BY <1>2, <1>3, <2>1
    DEF WizardStep, WizardTypes, LookKnows, PolicyKnows, SaysVerified, KeepsTrust
<1>5. CASE W!GetPolicy /\ file.state = "absent" /\ W!Goto("prompt")
  <2>1. /\ wiz' \in Wizarding /\ wiz'.at = "prompt" /\ wiz'.domain = wiz.domain
        /\ wiz'.asked = wiz.asked /\ wiz'.told = wiz.told
    BY <1>1, <1>5, WizardGoes DEF Pages
  <2>2. QED
    BY <1>2, <1>3, <1>5, <2>1
    DEF WizardStep, WizardTypes, LookKnows, PolicyKnows, SaysVerified, KeepsTrust
<1>6. ASSUME file.state = "absent" \/ wiz.at = "prompt", NEW p \in W!Policy, W!Decide(p)
      PROVE  WizardStep
  <2>1. /\ wiz' \in Wizarding /\ wiz'.at = "install" /\ wiz'.domain = wiz.domain
        /\ wiz'.told = wiz.told
    BY <1>1, <1>6 DEF W!Decide, Wizarding, Pages
  <2>2. edited' \/ file.state = "absent"
    BY <1>3, <1>6 DEF PolicyKnows
  <2>3. QED
    BY <1>2, <1>3, <2>1, <2>2
    DEF WizardStep, WizardTypes, LookKnows, PolicyKnows, SaysVerified, KeepsTrust
<1>7. ASSUME NEW t \in Nat, wiz' = [wiz EXCEPT !.tries = t], wiz.at = "prompt"
      PROVE  WizardStep
  <2>1. /\ wiz' \in Wizarding /\ wiz'.at = wiz.at /\ wiz'.domain = wiz.domain
        /\ wiz'.asked = wiz.asked /\ wiz'.told = wiz.told
    BY <1>1, <1>7 DEF Wizarding
  <2>2. QED
    BY <1>2, <1>3, <1>7, <2>1
    DEF WizardStep, WizardTypes, LookKnows, PolicyKnows, SaysVerified, KeepsTrust
<1>8. CASE W!End("error")
  <2>1. wiz' \in Wizarding /\ wiz'.at = "idle" /\ wiz'.told = "error"
    BY <1>8, WizardEnds
  <2>2. QED
    BY <1>2, <1>3, <2>1
    DEF WizardStep, WizardTypes, LookKnows, PolicyKnows, SaysVerified, KeepsTrust
<1>9. CASE W!GetPolicy
  BY <1>4, <1>5, <1>6, <1>9 DEF W!GetPolicy, W!Policy
<1>10. CASE W!Prompt
  <2>1. wiz.at = "prompt" /\ wiz.tries + 1 \in Nat
    BY <1>1, <1>10 DEF W!Prompt, Wizarding
  <2>2. QED
    BY <1>6, <1>7, <1>8, <1>10, <2>1 DEF W!Prompt, W!Confirmed, W!TakenBack, W!Invalid
<1>11. QED
  BY <1>9, <1>10

(* A copy is taken.                                                        *)
LEMMA CopyTaken ==
  ASSUME wiz \in Wizarding, NEW c \in File, NEW place \in Pages,
         wiz' = [wiz EXCEPT !.copy = c, !.at = place]
  PROVE  /\ wiz' \in Wizarding /\ wiz'.at = place /\ wiz'.copy = c
         /\ wiz'.domain = wiz.domain /\ wiz'.asked = wiz.asked /\ wiz'.told = wiz.told
BY DEF Wizarding

(* The copy is written once more, with a catchall, or all is written.      *)
LEMMA OnwardGoes ==
  ASSUME wiz \in Wizarding, NEW c \in File, W!Onward(c)
  PROVE  /\ wiz' \in Wizarding /\ wiz'.at \in {"write", "finish"}
         /\ wiz'.copy.trust = c.trust /\ wiz'.copy.state = c.state
         /\ wiz'.domain = wiz.domain /\ wiz'.asked = wiz.asked /\ wiz'.told = wiz.told
<1>1. CASE c.catchall
  <2>1. wiz' = [wiz EXCEPT !.copy = c, !.at = "finish"]
    BY <1>1 DEF W!Onward
  <2>2. QED
    BY <2>1, CopyTaken DEF Pages
<1>2. CASE ~c.catchall
  <2> DEFINE d == [c EXCEPT !.catchall = TRUE]
  <2>1. d \in File /\ d.trust = c.trust /\ d.state = c.state
    BY DEF File
  <2>2. wiz' = [wiz EXCEPT !.copy = d, !.at = "write"]
    BY <1>2 DEF W!Onward, W!ToWrite
  <2> HIDE DEF d
  <2>3. QED
    BY <2>1, <2>2, CopyTaken DEF Pages
<1>3. QED
  BY <1>1, <1>2

(* config.toml is loaded, or made up.                                      *)
LEMMA CopyLoaded ==
  ASSUME WizardTypes, LookKnows, PolicyKnows, W!Load
  PROVE  WizardStep
<1> USE DEF W!At, W!World, W!History, W!Bounds
<1>1. wiz \in Wizarding /\ file \in File
  BY DEF WizardTypes
<1>2. wiz.at = "install" /\ stale' = FALSE
      /\ UNCHANGED <<file, host, zone, current, edited, events>>
  BY DEF W!Load
<1>3. wiz.domain \in Domain /\ wiz.told \in {W!None, "verified"}
  BY <1>2 DEF LookKnows, PolicyKnows
<1>4. CASE W!End("error")
  <2>1. wiz' \in Wizarding /\ wiz'.at = "idle" /\ wiz'.told = "error"
    BY <1>4, WizardEnds
  <2>2. QED
    BY <1>2, <2>1 DEF WizardStep, WizardTypes, LookKnows, PolicyKnows, SaysVerified, KeepsTrust
<1>5. ASSUME file.state = "whole", wiz' \in Wizarding, wiz'.at \in {"write", "finish"},
             wiz'.copy.trust = file.trust, wiz'.copy.state = "whole",
             wiz'.domain = wiz.domain, wiz'.asked = wiz.asked, wiz'.told = wiz.told
      PROVE  WizardStep
  <2>1. wiz.asked # W!None => edited
    BY <1>2, <1>5 DEF PolicyKnows
  <2>2. QED
    BY <1>2, <1>3, <1>5, <2>1
    DEF WizardStep, WizardTypes, LookKnows, PolicyKnows, SaysVerified, KeepsTrust
<1>6. CASE file.state = "whole" /\ W!Onward(file)
  BY <1>1, <1>5, <1>6, OnwardGoes
<1>7. CASE file.state = "whole" /\ W!ToWrite([file EXCEPT !.domain = wiz.domain])
  <2> DEFINE c == [file EXCEPT !.domain = wiz.domain]
  <2>1. c \in File /\ c.trust = file.trust /\ c.state = "whole"
    BY <1>1, <1>3, <1>7 DEF File
  <2>2. wiz' = [wiz EXCEPT !.copy = c, !.at = "write"]
    BY <1>7 DEF W!ToWrite
  <2> HIDE DEF c
  <2>3. /\ wiz' \in Wizarding /\ wiz'.at = "write" /\ wiz'.copy = c
        /\ wiz'.domain = wiz.domain /\ wiz'.asked = wiz.asked /\ wiz'.told = wiz.told
    BY <1>1, <2>1, <2>2, CopyTaken DEF Pages
  <2>4. QED
    BY <1>5, <1>7, <2>1, <2>3
<1>8. CASE file.state = "absent" /\ W!ToWrite(W!Fresh)
  <2>1. wiz.asked \in W!Policy \cup {W!None}
    BY <1>1 DEF Wizarding
  <2>2. /\ W!Fresh \in File /\ W!Fresh.state = "whole"
        /\ (wiz.asked # W!None => W!Fresh.trust = wiz.asked)
    BY <1>3, <2>1 DEF W!Fresh, File, W!Policy
  <2>3. wiz' = [wiz EXCEPT !.copy = W!Fresh, !.at = "write"]
    BY <1>8 DEF W!ToWrite
  <2>4. /\ wiz' \in Wizarding /\ wiz'.at = "write" /\ wiz'.copy = W!Fresh
        /\ wiz'.domain = wiz.domain /\ wiz'.asked = wiz.asked /\ wiz'.told = wiz.told
    BY <1>1, <2>2, <2>3, CopyTaken DEF Pages
  <2>5. WizardTypes' /\ LookKnows' /\ SaysVerified /\ KeepsTrust
    BY <1>2, <1>3, <2>4 DEF WizardTypes, LookKnows, SaysVerified, KeepsTrust, W!None
  <2>6. wiz'.copy.state = "whole" /\ (wiz'.asked # W!None => wiz'.copy.trust = wiz'.asked)
    BY <2>2, <2>4
  <2>7. file' = file /\ file.state = "absent" /\ file.trust = W!None /\ stale' = FALSE
    BY <1>2, <1>8 DEF PolicyKnows
  <2>8. PolicyKnows'
    BY <1>3, <2>4, <2>6, <2>7 DEF PolicyKnows
  <2>9. QED
    BY <2>5, <2>8 DEF WizardStep
<1>9. QED
  BY <1>4, <1>6, <1>7, <1>8 DEF W!Load

(* The copy is in the file, or the file another has put there is.          *)
LEMMA CopyWritten ==
  ASSUME WizardTypes, LookKnows, PolicyKnows, wiz.at \in {"write", "fill"},
         \/ file' = wiz.copy /\ (file.state # "absent" \/ wiz.at = "fill")
         \/ file' = file /\ wiz.at = "fill" /\ file.state # "broken",
         wiz.at = "fill" /\ file.state # "broken" => file' = file,
         W!Onward(wiz.copy) \/ W!End("error"),
         UNCHANGED <<host, zone, current, edited, stale, events>>
  PROVE  WizardStep
<1>1. wiz \in Wizarding /\ file \in File /\ wiz.copy \in File /\ file' \in File
  BY DEF WizardTypes, Wizarding
<1>2. /\ wiz.domain \in Domain /\ wiz.told \in {W!None, "verified"} /\ wiz.copy.state = "whole"
      /\ (stale => edited) /\ (file.state # "whole" => file.trust = W!None)
  BY DEF LookKnows, PolicyKnows
<1>3. file.trust # W!None /\ ~stale => file'.trust = file.trust
  BY <1>2 DEF PolicyKnows
<1>4. file'.state # "whole" => file'.trust = W!None
  BY <1>2
<1>5. ~stale => file'.trust = wiz.copy.trust
  BY DEF PolicyKnows
<1>6. CASE W!End("error")
  <2>1. wiz' \in Wizarding /\ wiz'.at = "idle" /\ wiz'.told = "error"
    BY <1>6, WizardEnds
  <2>2. QED
    BY <1>1, <1>3, <1>4, <2>1
    DEF WizardStep, WizardTypes, LookKnows, PolicyKnows, SaysVerified, KeepsTrust
<1>7. CASE W!Onward(wiz.copy)
  <2>1. /\ wiz' \in Wizarding /\ wiz'.at \in {"write", "finish"}
        /\ wiz'.copy.trust = wiz.copy.trust /\ wiz'.copy.state = "whole"
        /\ wiz'.domain = wiz.domain /\ wiz'.asked = wiz.asked /\ wiz'.told = wiz.told
    BY <1>1, <1>2, <1>7, OnwardGoes
  <2>2. wiz.asked # W!None => edited \/ wiz.copy.trust = wiz.asked
    BY DEF PolicyKnows
  <2>3. WizardTypes' /\ LookKnows' /\ SaysVerified /\ KeepsTrust
    BY <1>1, <1>2, <1>3, <2>1 DEF WizardTypes, LookKnows, SaysVerified, KeepsTrust, W!None
  <2>4. PolicyKnows'
    BY <1>2, <1>4, <1>5, <2>1, <2>2 DEF PolicyKnows
  <2>5. QED
    BY <2>3, <2>4 DEF WizardStep
<1>8. QED
  BY <1>6, <1>7

(* config.toml is written, and the rest of the installation.               *)
LEMMA InstallKeepsTrust ==
  ASSUME WizardTypes, LookKnows, PolicyKnows,
         W!Load \/ W!Save \/ W!Create \/ W!Fill \/ W!Finish
  PROVE  WizardStep
<1> USE DEF W!At, W!World, W!History, W!Bounds
<1>1. wiz \in Wizarding /\ file \in File /\ host \in [up : BOOLEAN, cert : BOOLEAN, key : BOOLEAN]
  BY DEF WizardTypes
<1>2. CASE W!Load
  BY <1>2, CopyLoaded
<1>3. CASE W!End("error") /\ UNCHANGED <<file, host, zone, current, edited, stale, events>>
  BY <1>3, WizardEndKeeps
<1>4. CASE W!Save
  <2>1. wiz.at = "write" /\ file.state # "absent"
        /\ UNCHANGED <<host, zone, current, edited, stale, events>>
    BY <1>4 DEF W!Save
  <2>2. CASE file' = wiz.copy /\ (W!Onward(wiz.copy) \/ W!End("error"))
    BY <2>1, <2>2, CopyWritten
  <2>3. QED
    BY <1>3, <1>4, <2>1, <2>2 DEF W!Save
<1>5. CASE W!Create
  <2>1. wiz.at = "write" /\ file.state = "absent"
        /\ UNCHANGED <<host, zone, current, edited, stale, events>>
    BY <1>5 DEF W!Create
  <2>2. CASE file' = [W!NoFile EXCEPT !.state = "broken"] /\ W!Goto("fill")
    <3>1. file' \in File /\ file'.state = "broken" /\ file'.trust = W!None
      BY <2>2 DEF W!NoFile, File
    <3>2. /\ wiz' \in Wizarding /\ wiz'.at = "fill" /\ wiz'.copy = wiz.copy
          /\ wiz'.domain = wiz.domain /\ wiz'.asked = wiz.asked /\ wiz'.told = wiz.told
      BY <1>1, <2>2 DEF W!Goto, Wizarding, Pages
    <3>3. file.trust = W!None /\ wiz.domain \in Domain /\ wiz.told \in {W!None, "verified"}
      BY <2>1 DEF LookKnows, PolicyKnows
    <3>4. WizardTypes' /\ LookKnows'
      BY <2>1, <3>1, <3>2, <3>3 DEF WizardTypes, LookKnows
    <3>5. PolicyKnows'
      BY <2>1, <3>1, <3>2, <3>3 DEF PolicyKnows
    <3>6. QED
      BY <2>1, <3>2, <3>3, <3>4, <3>5 DEF WizardStep, SaysVerified, KeepsTrust, W!None
  <2>3. QED
    BY <1>3, <1>5, <2>1, <2>2 DEF W!Create
<1>6. CASE W!Fill
  <2>1. wiz.at = "fill" /\ UNCHANGED <<host, zone, current, edited, stale, events>>
    BY <1>6 DEF W!Fill
  <2>2. CASE /\ file' = IF file.state = "broken" THEN wiz.copy ELSE file
             /\ W!Onward(wiz.copy) \/ W!End("error")
    <3>1. CASE file.state = "broken"
      BY <2>1, <2>2, <3>1, CopyWritten
    <3>2. CASE file.state # "broken"
      BY <2>1, <2>2, <3>2, CopyWritten
    <3>3. QED
      BY <3>1, <3>2
  <2>3. QED
    BY <1>3, <1>6, <2>1, <2>2 DEF W!Fill
<1>7. CASE W!Finish
  <2>1. wiz.at = "finish" /\ UNCHANGED <<file, zone, current, edited, stale, events>>
    BY <1>7 DEF W!Finish
  <2>2. CASE /\ host' = [host EXCEPT !.up = @ \/ ~wiz.whole]
             /\ wiz' = [W!NoRun EXCEPT !.told = "complete", !.asked = wiz.asked]
    <3>1. wiz.asked \in W!Policy \cup {W!None} /\ wiz.whole \in BOOLEAN
      BY <1>1 DEF Wizarding
    <3>2. wiz' \in Wizarding /\ wiz'.at = "idle" /\ wiz'.told = "complete"
      BY <2>2, <3>1, NoWizard DEF Wizarding
    <3>3. (host.up \/ ~wiz.whole) \in BOOLEAN
      OBVIOUS
    <3>4. host' \in [up : BOOLEAN, cert : BOOLEAN, key : BOOLEAN]
      BY <1>1, <2>2, <3>3
    <3>5. QED
      BY <2>1, <3>2, <3>4
      DEF WizardStep, WizardTypes, LookKnows, PolicyKnows, SaysVerified, KeepsTrust
  <2>3. QED
    BY <1>3, <1>7, <2>1, <2>2 DEF W!Finish
<1>8. QED
  BY <1>2, <1>4, <1>5, <1>6, <1>7

(* Records are published, files written by others.                         *)
LEMMA OthersKeepWizard ==
  ASSUME WizardTypes, LookKnows, PolicyKnows, W!Publish \/ W!OthersWrite
  PROVE  WizardStep
<1>1. events \in Nat /\ events' = events + 1 /\ wiz' = wiz
  BY DEF WizardTypes, W!Publish, W!OthersWrite
<1>2. events' # events /\ events' \in Nat
  BY <1>1
<1>6. ~W!At("idle") => wiz.told # "complete"
  BY DEF PolicyKnows, W!At, W!None
<1>3. CASE W!Publish
  <2>1. PICK d \in Domain, r \in W!Rec, v \in W!Value :
          /\ zone' = [zone EXCEPT ![d][r] = v]
          /\ current' = IF d = wiz.domain /\ W!Passable(r, v) THEN current \cup {r} ELSE current
    BY <1>3 DEF W!Publish
  <2>2. UNCHANGED <<file, host, wiz, edited, stale>>
    BY <1>3 DEF W!Publish
  <2>3. zone' \in [Domain -> [W!Rec -> W!Value]]
    BY <2>1 DEF WizardTypes
  <2>4. \A e \in Domain, q \in W!Rec :
          zone'[e][q] = IF e = d /\ q = r THEN v ELSE zone[e][q]
    BY <2>1 DEF WizardTypes
  <2>5. current \subseteq current' /\ current' \subseteq W!Rec
    BY <2>1 DEF WizardTypes
  <2>6. ASSUME wiz.at = "look" PROVE W!Published(wiz.domain)' \subseteq current'
    <3>1. wiz.domain \in Domain /\ W!Published(wiz.domain) \subseteq current
      BY <2>6 DEF LookKnows
    <3>2. ASSUME NEW q \in W!Rec, W!Passable(q, zone'[wiz.domain][q])
          PROVE  q \in current'
      <4>1. CASE wiz.domain = d /\ q = r
        <5>1. zone'[wiz.domain][q] = v
          BY <2>4, <3>1, <4>1
        <5>2. QED
          BY <2>1, <3>2, <4>1, <5>1
      <4>2. CASE ~(wiz.domain = d /\ q = r)
        <5>1. zone'[wiz.domain][q] = zone[wiz.domain][q]
          BY <2>4, <3>1, <4>2
        <5>2. wiz.domain # W!None
          BY <3>1, WizardAssumption DEF W!WizardConstants
        <5>3. q \in W!Published(wiz.domain)
          BY <3>2, <5>1, <5>2 DEF W!Published
        <5>4. QED
          BY <2>5, <3>1, <5>3
      <4>3. QED
        BY <4>1, <4>2
    <3>3. QED
      BY <2>2, <3>2 DEF W!Published
  <2>7. WizardTypes'
    BY <1>2, <2>2, <2>3, <2>5 DEF WizardTypes
  <2>8. LookKnows'
    BY <2>2, <2>5, <2>6 DEF LookKnows
  <2>9. PolicyKnows'
    BY <2>2 DEF PolicyKnows
  <2>10. QED
    BY <1>2, <1>6, <2>2, <2>7, <2>8, <2>9 DEF WizardStep, SaysVerified, KeepsTrust
<1>4. CASE W!OthersWrite
  <2>1. /\ UNCHANGED <<zone, wiz, current>>
        /\ edited' = (edited \/ file' # file) /\ stale' = (stale \/ file' # file)
    BY <1>4 DEF W!OthersWrite
  <2>2. file' = file \/ (file' \in File /\ file'.state = "whole")
    <3>1. ASSUME NEW d \in Domain, NEW p \in W!Policy, NEW c \in BOOLEAN,
                 file' = [state |-> "whole", domain |-> d, trust |-> p, catchall |-> c]
          PROVE  file' \in File /\ file'.state = "whole"
      BY <3>1 DEF File
    <3>2. QED
      BY <1>4, <3>1 DEF W!OthersWrite
  <2>3. host' \in [up : BOOLEAN, cert : BOOLEAN, key : BOOLEAN]
    BY <1>4 DEF W!OthersWrite, WizardTypes
  <2>4. WizardTypes'
    BY <1>2, <2>1, <2>2, <2>3 DEF WizardTypes
  <2>5. LookKnows'
    BY <2>1 DEF LookKnows, W!Published
  <2>6. PolicyKnows'
    BY <2>1, <2>2 DEF PolicyKnows, WizardTypes
  <2>7. QED
    BY <1>2, <1>6, <2>1, <2>4, <2>5, <2>6 DEF WizardStep, SaysVerified, KeepsTrust
<1>5. QED
  BY <1>3, <1>4

LEMMA WizardKeeps ==
  ASSUME WizardTypes, LookKnows, PolicyKnows, W!Next
  PROVE  WizardStep
BY LooksKeep, QuestionsKeep, PolicyAsked, InstallKeepsTrust, OthersKeepWizard DEF W!Next

LEMMA WizardInvariant == WizardInv /\ [MCNext]_MCVars => WizardInv'
<1> SUFFICES ASSUME WizardInv, [MCNext]_MCVars
             PROVE  WizardInv'
  OBVIOUS
<1>1. CASE focus = "wizard" /\ focus' = focus /\ W!Next
  BY <1>1, WizardKeeps DEF WizardInv, WizardStep
<1>2. CASE UNCHANGED <<focus, wizardVars, events>>
  BY <1>2 DEF WizardInv, WizardTypes, LookKnows, PolicyKnows, wizardVars, W!Published
<1>3. CASE focus # "wizard" /\ focus' = focus /\ UNCHANGED wizardVars
  BY <1>3 DEF WizardInv, wizardVars
<1>4. QED
  BY <1>1, <1>2, <1>3 DEF MCNext, MCVars

LEMMA WizardSays ==
  WizardInv /\ [MCNext]_MCVars => [SaysVerified]_(W!vars) /\ [KeepsTrust]_(W!vars)
<1> SUFFICES ASSUME WizardInv, [MCNext]_MCVars
             PROVE  [SaysVerified]_(W!vars) /\ [KeepsTrust]_(W!vars)
  OBVIOUS
<1>1. CASE focus = "wizard" /\ W!Next
  BY <1>1, WizardKeeps DEF WizardInv, WizardStep
<1>2. CASE focus # "wizard" /\ UNCHANGED wizardVars
  BY <1>2 DEF WizardInv, SaysVerified, KeepsTrust, W!At, wizardVars
<1>3. CASE UNCHANGED MCVars
  BY <1>3 DEF MCVars, wizardVars, W!vars
<1>4. QED
  BY <1>1, <1>2, <1>3 DEF MCNext

(* "All DNS records verified" is said of records that were there, for any  *)
(* domains, records and resolvers (verify_all_dns, dig_with_cascade).      *)
THEOREM VerifiedWasThere == MCSpec => VerifiedMeansPublished
BY InitWizard, WizardInvariant, WizardSays, PTL
   DEF MCSpec, VerifiedMeansPublished, W!VerifiedMeansPublished, SaysVerified

(* The trust policy is asked for once and kept, whatever the runs that     *)
(* were interrupted left behind (run_setup).                               *)
THEOREM PolicyIsKept == MCSpec => TrustKept
BY InitWizard, WizardInvariant, WizardSays, PTL
   DEF MCSpec, TrustKept, W!TrustKept, KeepsTrust

-----------------------------------------------------------------------------
(* doctor.  A fault that lasts is noticed, or its place is still to be     *)
(* looked at; what is noticed is a fault there is now.                     *)
Findings == [check : D!Check, mailbox : Mailbox, box : D!Box \cup {D!None}]
Examining ==
  [at : {"idle", "gather", "owners", "storage", "catchall", "end"},
   cfg : [Mailbox -> Owner \cup {D!None}], queue : SUBSET Mailbox,
   mailbox : Mailbox \cup {D!None}, boxes : SUBSET D!Box, orphans : SUBSET Mailbox,
   found : SUBSET Findings, exit : {D!None, "ok", "fail"}]
DirFail == {"DIR-MISSING", "DIR-NOT-DIR", "OWNER-DRIFT"}

DoctorTypes ==
  /\ owner \in [Mailbox -> Owner \cup {D!None}] /\ users \subseteq Owner
  /\ exam \in Examining

Noticed(f) ==
  IF f.check = "OWNER-ORPHAN" THEN f.mailbox \in exam.orphans ELSE f \in exam.found
Pending(f) ==
  \/ f.check = "OWNER-ORPHAN" /\ exam.at = "gather" /\ f.mailbox \in exam.queue
  \/ f.check = "CATCHALL-USER-MISSING" /\ exam.at # "end"
  \/ /\ f.check \in DirFail
     /\ \/ exam.at = "gather"
        \/ exam.at = "owners" /\ f.mailbox \in exam.queue
        \/ exam.at = "owners" /\ f.mailbox = exam.mailbox /\ f.box \in exam.boxes

DoctorKnows ==
  exam.at # "idle" =>
    /\ exam.exit = D!None
    /\ exam.at = "gather" => exam.boxes = {}
    /\ lasting \subseteq D!Faults /\ D!Flaws \subseteq met
    /\ exam.queue \subseteq {m \in Mailbox : exam.cfg[m] # D!None}
    /\ exam.at = "owners" /\ exam.boxes # {} =>
         exam.mailbox \in Mailbox /\ exam.cfg[exam.mailbox] # D!None
    /\ \A f \in lasting : Noticed(f) \/ Pending(f)
    /\ \A f \in exam.found : f.check \in D!Fail => f \in met
    /\ exam.orphans # {} => met # {}

DoctorInv ==
  /\ focus = "doctor" => DoctorTypes /\ DoctorKnows
  /\ focus # "doctor" => exam.at = "idle"

DoctorStep == (DoctorTypes /\ DoctorKnows)' /\ D!ExitIsSound /\ D!AlarmsAreReal

LEMMA NoExam == D!NoRun \in Examining /\ D!NoRun.at = "idle"
<1>1. [m \in Mailbox |-> D!None] \in [Mailbox -> Owner \cup {D!None}]
  OBVIOUS
<1>2. QED
  BY <1>1 DEF D!NoRun, Examining

LEMMA InitDoctor == MCInit => DoctorInv
BY NoExam DEF MCInit, DoctorIdle, D!Init, DoctorInv, DoctorTypes, DoctorKnows

(* What a directory is found to be.                                        *)
LEMMA DirFindingIs ==
  ASSUME NEW m \in Mailbox, NEW o, NEW b \in D!Box, NEW f \in D!DirFindings(m, o, b)
  PROVE  /\ f \in Findings /\ f.mailbox = m /\ f.box = b
         /\ f.check \in D!Fail => f.check \in DirFail
<1>1. PICK c \in DirFail \cup {"GROUP-OR-MODE-DRIFT"} : f = D!Finding(c, m, b)
  BY DEF D!DirFindings, DirFail
<1>2. QED
  BY <1>1 DEF D!Finding, Findings, D!Check, D!Fail, DirFail

LEMMA FaultIs ==
  ASSUME NEW f \in D!Faults
  PROVE  \/ /\ f.check = "OWNER-ORPHAN" /\ f.mailbox \in Mailbox \ {Catchall}
            /\ exam.cfg[f.mailbox] \notin users \cup {D!None}
         \/ /\ f = D!Finding("CATCHALL-USER-MISSING", Catchall, D!None)
            /\ f.check = "CATCHALL-USER-MISSING" /\ f.mailbox = Catchall
            /\ f \in D!CatchallFindings(exam.cfg)
         \/ /\ f.check \in DirFail /\ f.mailbox \in Mailbox /\ f.box \in D!Box
            /\ exam.cfg[f.mailbox] \in users
            /\ f \in D!DirFindings(f.mailbox, exam.cfg[f.mailbox], f.box)
<1>1. CASE f \in {D!Finding("OWNER-ORPHAN", m, D!None) : m \in D!Orphans}
  BY <1>1 DEF D!Finding, D!Orphans
<1>2. CASE f \in D!CatchallFindings(exam.cfg)
  BY <1>2 DEF D!CatchallFindings, D!Finding
<1>3. ASSUME NEW m \in Mailbox, exam.cfg[m] \in users, NEW b \in D!Box,
             f \in D!DirFindings(m, exam.cfg[m], b), f.check \in D!Fail
      PROVE  /\ f.check \in DirFail /\ f.mailbox \in Mailbox /\ f.box \in D!Box
             /\ exam.cfg[f.mailbox] \in users
             /\ f \in D!DirFindings(f.mailbox, exam.cfg[f.mailbox], f.box)
  BY <1>3, DirFindingIs
<1>4. QED
  BY <1>1, <1>2, <1>3 DEF D!Faults

LEMMA FlawFrom ==
  ASSUME NEW m \in Mailbox, exam.cfg[m] # D!None, NEW b \in D!Box,
         NEW f \in D!DirFindings(m, exam.cfg[m], b), f.check \in D!Fail
  PROVE  f \in D!Flaws
BY DEF D!Flaws

(* Faults and flaws are those of what was loaded, on the host as it is.    *)
LEMMA SameFaults ==
  ASSUME exam'.cfg = exam.cfg, UNCHANGED <<users, dir>>
  PROVE  D!Faults' = D!Faults /\ D!Flaws' = D!Flaws
<1>1. D!Faults' = D!Faults
  BY DEF D!Faults, D!Orphans, D!CatchallFindings, D!DirFindings
<1>2. QED
  BY <1>1 DEF D!Flaws, D!DirFindings

(* A look keeps what doctor knows, when each fault that lasts stays        *)
(* noticed, or to be looked at, and each new finding is a flaw.            *)
LEMMA LookIsTrue ==
  ASSUME DoctorTypes, DoctorKnows, exam.at # "idle", D!Looks, exam' \in Examining,
         exam'.at # "idle", exam'.exit = exam.exit, exam'.cfg = exam.cfg,
         exam'.at = "gather" => exam'.boxes = {},
         exam'.queue \subseteq {m \in Mailbox : exam.cfg[m] # D!None},
         exam'.at = "owners" /\ exam'.boxes # {} =>
           exam'.mailbox \in Mailbox /\ exam.cfg[exam'.mailbox] # D!None,
         \A f \in lasting : Noticed(f)' \/ Pending(f)',
         \A f \in exam'.found \ exam.found : f.check \in D!Fail => f \in D!Flaws,
         exam'.orphans # {} => met # {}
  PROVE  DoctorStep
<1>1. UNCHANGED <<owner, users, dir, lasting, met>>
  BY DEF D!Looks, D!World
<1>2. D!Faults' = D!Faults /\ D!Flaws' = D!Flaws
  BY <1>1, SameFaults
<1>3. DoctorTypes'
  BY <1>1 DEF DoctorTypes
<1>4. \A f \in exam'.found : f.check \in D!Fail => f \in met
  BY DEF DoctorKnows
<1>5. DoctorKnows'
  BY <1>1, <1>2, <1>4 DEF DoctorKnows
<1>6. exam'.exit = D!None
  BY DEF DoctorKnows
<1>7. QED
  BY <1>3, <1>5, <1>6 DEF DoctorStep, D!ExitIsSound, D!AlarmsAreReal, D!None

(* A fault that lasts is there now, seen with the configuration loaded.    *)
LEMMA LastingIs ==
  ASSUME DoctorTypes, DoctorKnows, exam.at # "idle", NEW f \in lasting
  PROVE  /\ f \in D!Faults /\ (Noticed(f) \/ Pending(f))
         /\ \/ /\ f.check = "OWNER-ORPHAN" /\ f.mailbox \in Mailbox \ {Catchall}
               /\ ~D!Known(f.mailbox) /\ exam.cfg[f.mailbox] # D!None
            \/ /\ f.check = "CATCHALL-USER-MISSING" /\ f \in D!CatchallFindings(exam.cfg)
            \/ /\ f.check \in DirFail /\ f.mailbox \in Mailbox /\ f.box \in D!Box
               /\ D!Known(f.mailbox) /\ exam.cfg[f.mailbox] # D!None
               /\ f \in D!DirFindings(f.mailbox, exam.cfg[f.mailbox], f.box)
<1>1. f \in D!Faults /\ (Noticed(f) \/ Pending(f))
  BY DEF DoctorKnows
<1>2. D!None \notin users
  BY DoctorAssumption DEF D!DoctorConstants, DoctorTypes
<1>3. QED
  BY <1>1, <1>2, FaultIs DEF D!Known

LEMMA GatherKeeps ==
  ASSUME DoctorTypes, DoctorKnows, D!Gather
  PROVE  DoctorStep
<1>1. exam \in Examining /\ exam.at = "gather" /\ D!Looks
  BY DEF D!Gather, DoctorTypes
<1>0. exam.boxes = {}
  BY <1>1 DEF DoctorKnows
<1>2. ASSUME NEW m \in exam.queue,
             exam' = [exam EXCEPT !.queue = @ \ {m},
                                  !.orphans = IF D!Known(m) \/ m = Catchall THEN @ ELSE @ \cup {m}]
      PROVE  DoctorStep
  <2> DEFINE rest == exam.queue \ {m}
             bad == IF D!Known(m) \/ m = Catchall THEN exam.orphans ELSE exam.orphans \cup {m}
  <2>1. rest \subseteq Mailbox /\ bad \subseteq Mailbox /\ exam.orphans \subseteq bad
    BY <1>1 DEF Examining
  <2>2. exam' = [exam EXCEPT !.queue = rest, !.orphans = bad]
    BY <1>1, <1>2 DEF Examining
  <2> HIDE DEF rest, bad
  <2>3. exam' \in Examining /\ exam'.at = "gather" /\ exam'.exit = exam.exit
        /\ exam'.cfg = exam.cfg /\ exam'.found = exam.found /\ exam'.queue = rest
        /\ exam'.orphans = bad /\ exam'.boxes = exam.boxes
    BY <1>1, <2>1, <2>2 DEF Examining
  <2>4. ASSUME NEW f \in lasting
        PROVE  Noticed(f)' \/ Pending(f)'
    BY <1>1, <2>1, <2>3, <2>4, LastingIs DEF Noticed, Pending, rest, bad
  <2>5. rest \subseteq {n \in Mailbox : exam.cfg[n] # D!None}
    BY <1>1 DEF DoctorKnows, rest
  <2>6. bad # {} => met # {}
    <3>1. CASE D!Known(m) \/ m = Catchall
      BY <1>1, <3>1 DEF DoctorKnows, bad
    <3>2. CASE ~D!Known(m) /\ m # Catchall
      <4>1. m \in D!Orphans
        BY <1>1, <3>2 DEF DoctorKnows, D!Known, D!Orphans
      <4>2. D!Finding("OWNER-ORPHAN", m, D!None) \in D!Flaws
        BY <4>1 DEF D!Flaws, D!Faults
      <4>3. QED
        BY <1>1, <4>2 DEF DoctorKnows
    <3>3. QED
      BY <3>1, <3>2
  <2>7. QED
    BY <1>0, <1>1, <2>3, <2>4, <2>5, <2>6, LookIsTrue
<1>3. CASE /\ exam.queue = {}
           /\ exam' = [exam EXCEPT !.at = "owners", !.queue = {m \in Mailbox : exam.cfg[m] # D!None}]
  <2> DEFINE queue == {m \in Mailbox : exam.cfg[m] # D!None}
  <2>1. queue \subseteq Mailbox /\ exam' = [exam EXCEPT !.at = "owners", !.queue = queue]
    BY <1>3
  <2>2. \A m \in Mailbox : exam.cfg[m] # D!None => m \in queue
    OBVIOUS
  <2> HIDE DEF queue
  <2>3. exam' \in Examining /\ exam'.at = "owners" /\ exam'.exit = exam.exit
        /\ exam'.cfg = exam.cfg /\ exam'.found = exam.found /\ exam'.queue = queue
        /\ exam'.orphans = exam.orphans /\ exam'.boxes = exam.boxes
        /\ exam'.mailbox = exam.mailbox
    BY <1>1, <2>1 DEF Examining
  <2>4. ASSUME NEW f \in lasting
        PROVE  Noticed(f)' \/ Pending(f)'
    BY <1>1, <1>3, <2>2, <2>3, <2>4, LastingIs DEF Noticed, Pending
  <2>5. queue \subseteq {m \in Mailbox : exam.cfg[m] # D!None}
    BY DEF queue
  <2>6. exam.orphans # {} => met # {}
    BY <1>1 DEF DoctorKnows
  <2>7. QED
    BY <1>0, <1>1, <2>3, <2>4, <2>5, <2>6, LookIsTrue
<1>4. QED
  BY <1>2, <1>3 DEF D!Gather

(* Owners and directories.                                                 *)
LEMMA OwnersKeep ==
  ASSUME DoctorTypes, DoctorKnows, D!CheckOwners
  PROVE  DoctorStep
<1>1. exam \in Examining /\ exam.at = "owners" /\ D!Looks /\ exam.boxes = {}
  BY DEF D!CheckOwners, DoctorTypes
<1>0. /\ exam.queue \subseteq {m \in Mailbox : exam.cfg[m] # D!None}
      /\ exam.orphans # {} => met # {}
  BY <1>1 DEF DoctorKnows
<1>2. ASSUME NEW m \in exam.queue, D!Known(m), D!Open(m, exam)
      PROVE  DoctorStep
  <2>1. m \in Mailbox /\ exam' = [exam EXCEPT !.queue = exam.queue \ {m}, !.mailbox = m, !.boxes = D!Box]
    BY <1>1, <1>2 DEF D!Open, Examining
  <2>2. exam' \in Examining /\ exam'.at = "owners" /\ exam'.exit = exam.exit
        /\ exam'.cfg = exam.cfg /\ exam'.found = exam.found /\ exam'.queue = exam.queue \ {m}
        /\ exam'.orphans = exam.orphans /\ exam'.boxes = D!Box /\ exam'.mailbox = m
    BY <1>1, <2>1 DEF Examining
  <2>3. ASSUME NEW f \in lasting
        PROVE  Noticed(f)' \/ Pending(f)'
    BY <1>1, <2>2, <2>3, LastingIs DEF Noticed, Pending, DirFail
  <2>4. exam.cfg[m] # D!None
    BY <1>0
  <2>5. QED
    BY <1>0, <1>1, <2>1, <2>2, <2>3, <2>4, LookIsTrue
<1>3. ASSUME NEW m \in exam.queue, ~D!Known(m),
             D!Note({D!Finding("OWNER-ORPHAN", m, D!None)}, [exam EXCEPT !.queue = @ \ {m}])
      PROVE  DoctorStep
  <2> DEFINE new == D!Finding("OWNER-ORPHAN", m, D!None)
  <2>1. m \in Mailbox /\ new \in Findings /\ new.check \notin D!Fail
    BY <1>1 DEF Examining, D!Finding, Findings, D!Check, D!Fail
  <2>2. exam' = [exam EXCEPT !.queue = exam.queue \ {m}, !.found = exam.found \cup {new}]
    BY <1>1, <1>3 DEF D!Note, Examining
  <2> HIDE DEF new
  <2>3. exam' \in Examining /\ exam'.at = "owners" /\ exam'.exit = exam.exit
        /\ exam'.cfg = exam.cfg /\ exam'.found = exam.found \cup {new}
        /\ exam'.queue = exam.queue \ {m}
        /\ exam'.orphans = exam.orphans /\ exam'.boxes = {}
    BY <1>1, <2>1, <2>2 DEF Examining
  <2>4. ASSUME NEW f \in lasting
        PROVE  Noticed(f)' \/ Pending(f)'
    BY <1>1, <1>3, <2>3, <2>4, LastingIs DEF Noticed, Pending, DirFail
  <2>5. QED
    BY <1>0, <1>1, <2>1, <2>3, <2>4, LookIsTrue
<1>4. CASE exam.queue = {} /\ exam' = [exam EXCEPT !.at = "storage"]
  <2>1. exam' \in Examining /\ exam'.at = "storage" /\ exam'.exit = exam.exit
        /\ exam'.cfg = exam.cfg /\ exam'.found = exam.found
        /\ exam'.orphans = exam.orphans /\ exam'.queue = exam.queue
    BY <1>1, <1>4 DEF Examining
  <2>2. ASSUME NEW f \in lasting
        PROVE  Noticed(f)' \/ Pending(f)'
    BY <1>1, <1>4, <2>1, <2>2, LastingIs DEF Noticed, Pending, DirFail
  <2>3. QED
    BY <1>0, <1>1, <2>1, <2>2, LookIsTrue
<1>5. QED
  BY <1>2, <1>3, <1>4 DEF D!CheckOwners

LEMMA DirsKeep ==
  ASSUME DoctorTypes, DoctorKnows, D!CheckDir
  PROVE  DoctorStep
<1>1. exam \in Examining /\ exam.at = "owners" /\ D!Looks
  BY DEF D!CheckDir, DoctorTypes
<1> DEFINE m == exam.mailbox
<1>2. PICK b \in exam.boxes :
        D!Note(D!DirFindings(m, exam.cfg[m], b), [exam EXCEPT !.boxes = @ \ {b}])
  BY DEF D!CheckDir
<1> DEFINE new == D!DirFindings(m, exam.cfg[m], b)
<1>0. /\ exam.queue \subseteq {n \in Mailbox : exam.cfg[n] # D!None}
      /\ exam.orphans # {} => met # {}
  BY <1>1 DEF DoctorKnows
<1>3. m \in Mailbox /\ b \in D!Box /\ exam.cfg[m] # D!None
  BY <1>1 DEF DoctorKnows, Examining
<1>4. new \subseteq Findings /\ \A f \in new : f.mailbox = m
  BY <1>3, DirFindingIs
<1>5. exam' = [exam EXCEPT !.boxes = exam.boxes \ {b}, !.found = exam.found \cup new]
  BY <1>1, <1>2 DEF D!Note, Examining
<1>6. ASSUME NEW f \in new, f.check \in D!Fail
      PROVE  f \in D!Flaws
  BY <1>3, <1>6, FlawFrom
<1>7. ASSUME NEW f, f \in D!DirFindings(f.mailbox, exam.cfg[f.mailbox], f.box),
             f.mailbox = m, f.box = b
      PROVE  f \in new
  BY <1>7
<1> HIDE DEF new
<1>8. exam' \in Examining /\ exam'.at = "owners" /\ exam'.exit = exam.exit
      /\ exam'.cfg = exam.cfg /\ exam'.found = exam.found \cup new
      /\ exam'.queue = exam.queue /\ exam'.mailbox = exam.mailbox
      /\ exam'.orphans = exam.orphans /\ exam'.boxes = exam.boxes \ {b}
  BY <1>1, <1>4, <1>5 DEF Examining
<1>9. ASSUME NEW f \in lasting
      PROVE  Noticed(f)' \/ Pending(f)'
  BY <1>1, <1>7, <1>8, <1>9, LastingIs DEF Noticed, Pending, DirFail
<1>10. QED
  BY <1>0, <1>1, <1>3, <1>6, <1>8, <1>9, LookIsTrue

(* Storage and the catchall.                                               *)
LEMMA RestKeeps ==
  ASSUME DoctorTypes, DoctorKnows, D!CheckStorage \/ D!CheckCatchall
  PROVE  DoctorStep
<1>1. exam \in Examining /\ exam.at \in {"storage", "catchall"} /\ D!Looks
  BY DEF D!CheckStorage, D!CheckCatchall, DoctorTypes
<1>0. /\ exam.queue \subseteq {m \in Mailbox : exam.cfg[m] # D!None}
      /\ exam.orphans # {} => met # {}
  BY <1>1 DEF DoctorKnows
<1>2. ASSUME NEW new \in SUBSET Findings, NEW next \in {"catchall", "end"},
             D!Note(new, [exam EXCEPT !.at = next]),
             \A f \in new : f.check \in D!Fail => f \in D!Flaws,
             next = "end" => D!CatchallFindings(exam.cfg) \subseteq new
      PROVE  DoctorStep
  <2>1. exam' = [exam EXCEPT !.at = next, !.found = exam.found \cup new]
    BY <1>1, <1>2 DEF D!Note, Examining
  <2>2. exam' \in Examining /\ exam'.at = next /\ exam'.exit = exam.exit
        /\ exam'.cfg = exam.cfg /\ exam'.found = exam.found \cup new
        /\ exam'.orphans = exam.orphans /\ exam'.queue = exam.queue
    BY <1>1, <2>1 DEF Examining
  <2>3. ASSUME NEW f \in lasting
        PROVE  Noticed(f)' \/ Pending(f)'
    BY <1>1, <1>2, <2>2, <2>3, LastingIs DEF Noticed, Pending, DirFail
  <2>4. QED
    BY <1>0, <1>1, <1>2, <2>2, <2>3, LookIsTrue
<1>3. CASE D!CheckStorage
  <2>1. PICK stored \in SUBSET Mailbox, bare \in SUBSET Mailbox :
          D!Note({D!Finding("ORPHAN-STORAGE", n, D!None) : n \in stored}
                   \cup {D!Finding("ORPHAN-CONFIG", n, D!None) : n \in bare},
                 [exam EXCEPT !.at = "catchall"])
    <3> DEFINE stored == {n \in Mailbox : \E b \in D!Box : dir[n][b].kind = "dir"}
               bare == {n \in Mailbox : \A b \in D!Box : dir[n][b].kind = "missing"}
               stanzas == {n \in Mailbox : exam.cfg[n] # D!None}
    <3>1. D!Note({D!Finding("ORPHAN-STORAGE", n, D!None) : n \in stored \ stanzas}
                   \cup {D!Finding("ORPHAN-CONFIG", n, D!None) : n \in bare \cap stanzas},
                 [exam EXCEPT !.at = "catchall"])
      BY <1>3 DEF D!CheckStorage
    <3>2. stored \ stanzas \in SUBSET Mailbox /\ bare \cap stanzas \in SUBSET Mailbox
      OBVIOUS
    <3> HIDE DEF stored, bare, stanzas
    <3>3. QED
      BY <3>1, <3>2
  <2> DEFINE new == {D!Finding("ORPHAN-STORAGE", n, D!None) : n \in stored}
                      \cup {D!Finding("ORPHAN-CONFIG", n, D!None) : n \in bare}
  <2>2. new \subseteq Findings /\ \A f \in new : f.check \notin D!Fail
    BY DEF D!Finding, Findings, D!Check, D!Fail
  <2> HIDE DEF new
  <2>3. QED
    BY <1>2, <2>1, <2>2 DEF new
<1>4. CASE D!CheckCatchall
  <2> DEFINE new == D!CatchallFindings(exam.cfg)
  <2>1. D!Note(new, [exam EXCEPT !.at = "end"])
    BY <1>4 DEF D!CheckCatchall
  <2>2. Catchall \in Mailbox
    BY DoctorAssumption DEF D!DoctorConstants
  <2>3. new \subseteq Findings /\ \A f \in new : f.mailbox = Catchall
    BY <2>2 DEF D!CatchallFindings, D!Finding, Findings, D!Check, D!Fail
  <2>4. \A f \in new : f \in D!Flaws
    BY DEF D!Flaws, D!Faults, D!CatchallFindings, D!Finding, D!Fail
  <2> HIDE DEF new
  <2>5. QED
    BY <1>2, <2>1, <2>3, <2>4 DEF new
<1>5. QED
  BY <1>3, <1>4

(* The run begins, and ends with its exit code.                            *)
LEMMA LoadKeeps ==
  ASSUME DoctorTypes, DoctorKnows, D!Load
  PROVE  DoctorStep
<1> DEFINE queue == {m \in Mailbox : owner[m] # D!None}
<1>1. exam.at = "idle" /\ UNCHANGED <<owner, users, dir>>
      /\ lasting' = D!Faults' /\ met' = D!Flaws'
      /\ exam' = [D!NoRun EXCEPT !.at = "gather", !.cfg = owner, !.queue = queue]
  BY DEF D!Load, D!World, D!Observe
<1>2. queue \subseteq Mailbox /\ \A m \in Mailbox : owner[m] # D!None <=> m \in queue
  OBVIOUS
<1> HIDE DEF queue
<1>3. exam' \in Examining /\ exam'.at = "gather" /\ exam'.cfg = owner /\ exam'.queue = queue
      /\ exam'.boxes = {} /\ exam'.found = {} /\ exam'.orphans = {} /\ exam'.exit = D!None
  BY <1>1, <1>2, NoExam DEF Examining, DoctorTypes, D!NoRun
<1>4. ASSUME NEW f \in D!Faults'
      PROVE  Pending(f)'
  <2>1. \/ f.check = "OWNER-ORPHAN" /\ f.mailbox \in Mailbox /\ exam'.cfg[f.mailbox] # D!None
        \/ f.check = "CATCHALL-USER-MISSING"
        \/ f.check \in DirFail
    <3>1. CASE f \in {D!Finding("OWNER-ORPHAN", m, D!None) : m \in D!Orphans}'
      BY <3>1 DEF D!Finding, D!Orphans
    <3>2. CASE f \in D!CatchallFindings(exam.cfg)'
      BY <3>2 DEF D!CatchallFindings, D!Finding
    <3>3. ASSUME NEW m \in Mailbox, NEW b \in D!Box,
                 f \in D!DirFindings(m, exam.cfg[m], b)', f.check \in D!Fail
          PROVE  f.check \in DirFail
      <4>1. PICK c \in DirFail \cup {"GROUP-OR-MODE-DRIFT"} : f = D!Finding(c, m, b)
        BY <3>3 DEF D!DirFindings, DirFail
      <4>2. QED
        BY <3>3, <4>1 DEF D!Finding, D!Fail, DirFail
    <3>4. QED
      BY <3>1, <3>2, <3>3 DEF D!Faults
  <2>2. QED
    BY <1>2, <1>3, <2>1 DEF Pending
<1>5. D!Flaws' \subseteq met' /\ lasting' \subseteq D!Faults'
  BY <1>1
<1>6. DoctorTypes' /\ DoctorKnows'
  BY <1>1, <1>2, <1>3, <1>4, <1>5 DEF DoctorTypes, DoctorKnows
<1>7. QED
  BY <1>1, <1>6 DEF DoctorStep, D!ExitIsSound, D!AlarmsAreReal

LEMMA ExitKeeps ==
  ASSUME DoctorTypes, DoctorKnows, D!Exit
  PROVE  DoctorStep
<1> DEFINE code == IF D!Failing(exam.found) \/ exam.orphans # {} THEN "fail" ELSE "ok"
<1>1. exam \in Examining /\ exam.at = "end" /\ D!Looks
      /\ exam' = [exam EXCEPT !.at = "idle", !.exit = code]
  BY DEF D!Exit, DoctorTypes
<1>2. /\ code = "ok" => ~D!Failing(exam.found) /\ exam.orphans = {}
      /\ code = "fail" => D!Failing(exam.found) \/ exam.orphans # {}
      /\ code \in {"fail", "ok"}
  OBVIOUS
<1> HIDE DEF code
<1>3. exam' \in Examining /\ exam'.at = "idle" /\ exam'.exit = code
  BY <1>1, <1>2 DEF Examining
<1>4. UNCHANGED <<owner, users>>
  BY <1>1 DEF D!Looks, D!World
<1>5. ASSUME code = "ok", NEW f \in lasting
      PROVE  FALSE
  <2>1. (Noticed(f) \/ Pending(f)) /\ f.check \in {"OWNER-ORPHAN", "CATCHALL-USER-MISSING"} \cup DirFail
    BY <1>1, LastingIs
  <2>2. Noticed(f)
    BY <1>1, <2>1 DEF Pending
  <2>3. QED
    BY <1>2, <1>5, <2>1, <2>2 DEF Noticed, D!Failing, D!Fail, DirFail
<1>6. /\ \A f \in exam.found : f.check \in D!Fail => f \in met
      /\ exam.orphans # {} => met # {}
  BY <1>1 DEF DoctorKnows
<1>7. code = "fail" => met # {}
  BY <1>2, <1>6 DEF D!Failing
<1>8. D!ExitIsSound /\ D!AlarmsAreReal
  BY <1>3, <1>5, <1>6, <1>7 DEF D!ExitIsSound, D!AlarmsAreReal
<1>9. QED
  BY <1>3, <1>4, <1>8 DEF DoctorStep, DoctorTypes, DoctorKnows

(* The others change one thing.                                            *)
LEMMA ChangeKeeps ==
  ASSUME DoctorTypes, DoctorKnows, D!Stanza \/ D!UserTurn \/ D!DirTurn
  PROVE  DoctorStep
<1>1. exam' = exam /\ lasting' = lasting \cap D!Faults' /\ met' = met \cup D!Flaws'
  BY DEF D!Stanza, D!UserTurn, D!DirTurn, D!Change, D!Observe
<1>2. owner' \in [Mailbox -> Owner \cup {D!None}] /\ users' \subseteq Owner
  <2>1. CASE D!Stanza
    BY <2>1 DEF D!Stanza, DoctorTypes
  <2>2. CASE D!UserTurn
    BY <2>2 DEF D!UserTurn, DoctorTypes
  <2>3. CASE D!DirTurn
    BY <2>3 DEF D!DirTurn, DoctorTypes
  <2>4. QED
    BY <2>1, <2>2, <2>3
<1>3. DoctorTypes'
  BY <1>1, <1>2 DEF DoctorTypes
<1>4. \A f \in lasting' : exam.at # "idle" => Noticed(f)' \/ Pending(f)'
  BY <1>1 DEF DoctorKnows, Noticed, Pending
<1>5. DoctorKnows'
  BY <1>1, <1>4 DEF DoctorKnows
<1>6. exam.at = "end" => exam'.exit = D!None
  BY <1>1 DEF DoctorKnows
<1>7. QED
  BY <1>3, <1>5, <1>6 DEF DoctorStep, D!ExitIsSound, D!AlarmsAreReal, D!None

LEMMA DoctorKeeps ==
  ASSUME DoctorTypes, DoctorKnows, D!Next
  PROVE  DoctorStep
BY LoadKeeps, GatherKeeps, OwnersKeep, DirsKeep, RestKeeps, ExitKeeps, ChangeKeeps DEF D!Next

(* What doctor says of the host is true of it, for any mailboxes, users    *)
(* and changes meanwhile (run_checks).                                     *)
THEOREM DoctorIsRight == MCSpec => VerdictIsTrue
<1>1. DoctorInv /\ [MCNext]_MCVars => DoctorInv'
  <2> SUFFICES ASSUME DoctorInv, [MCNext]_MCVars
               PROVE  DoctorInv'
    OBVIOUS
  <2>1. CASE focus = "doctor" /\ focus' = focus /\ D!Next
    BY <2>1, DoctorKeeps DEF DoctorInv, DoctorStep
  <2>2. CASE focus # "doctor" /\ focus' = focus /\ UNCHANGED doctorVars
    BY <2>2 DEF DoctorInv, doctorVars
  <2>3. CASE UNCHANGED MCVars
    <3>1. UNCHANGED <<focus, owner, users, dir, exam, lasting, met>>
      BY <2>3 DEF MCVars, doctorVars
    <3>2. D!Faults' = D!Faults /\ D!Flaws' = D!Flaws
      BY <3>1, SameFaults
    <3>3. QED
      BY <3>1, <3>2 DEF DoctorInv, DoctorTypes, DoctorKnows, Noticed, Pending
  <2>4. QED
    BY <2>1, <2>2, <2>3 DEF MCNext
<1>2. DoctorInv /\ [MCNext]_MCVars => [D!ExitIsSound /\ D!AlarmsAreReal]_(D!vars)
  <2> SUFFICES ASSUME DoctorInv, [MCNext]_MCVars
               PROVE  [D!ExitIsSound /\ D!AlarmsAreReal]_(D!vars)
    OBVIOUS
  <2>1. CASE focus = "doctor" /\ D!Next
    BY <2>1, DoctorKeeps DEF DoctorInv, DoctorStep
  <2>2. CASE focus # "doctor" /\ UNCHANGED doctorVars
    BY <2>2 DEF DoctorInv, D!ExitIsSound, D!AlarmsAreReal, doctorVars
  <2>3. CASE UNCHANGED MCVars
    BY <2>3 DEF MCVars, doctorVars, D!vars
  <2>4. QED
    BY <2>1, <2>2, <2>3 DEF MCNext
<1>3. QED
  BY <1>1, <1>2, InitDoctor, PTL DEF MCSpec, VerdictIsTrue, D!VerdictIsTrue

-----------------------------------------------------------------------------
(* aimx agents.  What a command may take for granted at each place: whose  *)
(* the files are that it writes over, and that those written are whole.    *)
Commanding ==
  [kind : {"none", "setup", "remove"},
   at : {"idle", "pick", "confirm", "next", "clean", "check", "write", "merge", "temp", "rename",
         "unregister", "register", "remove"},
   home : A!Home, force : BOOLEAN, tty : BOOLEAN, dd : DataDir, tui : BOOLEAN,
   rows : [A!Agent -> {"absent", "unwired", "wired"}], picked : SUBSET A!Agent,
   queue : SUBSET A!Agent, agent : A!Agent, yes : BOOLEAN, left : SUBSET A!Piece,
   seen : A!Disk, told : A!Results]

AgentsTypes ==
  /\ disk \in [A!Home -> [A!Agent -> A!Disk]] /\ agents \in Commanding /\ troubles \in Nat

Whole(S) == \A p \in S : A!Here.piece[p] = "ours"

AgentsKnows ==
  /\ agents.at \in {"check", "write", "merge", "temp", "rename", "unregister", "register"}
       => agents.kind = "setup"
  /\ agents.at = "remove" => agents.kind = "remove"
  /\ agents.kind = "remove" => agents.told = A!None /\ ~agents.tui
  /\ agents.at = "write" =>
       /\ Whole(A!Pieces(agents.agent) \ agents.left)
       /\ agents.force \/ agents.yes \/ \A p \in agents.left : A!Here.piece[p] # A!Users
  /\ agents.at \in {"merge", "temp", "rename", "unregister", "register"} =>
       Whole(A!Pieces(agents.agent))
  /\ agents.at \in {"temp", "rename"} => agents.force \/ agents.seen.entry = A!None
  /\ agents.at \in {"unregister", "register"} => agents.agent \in WithCli

AgentsInv ==
  /\ focus = "agents" => AgentsTypes /\ AgentsKnows
  /\ focus # "agents" => agents.kind = "none"

(* What a step may do, and say.                                            *)
KeepsUsers ==
  troubles' = troubles =>
    \A h \in A!Home, a \in A!Agent :
      LET old == disk[h][a] new == disk'[h][a]
      IN /\ h # agents.home => new = old
         /\ IF A!At("rename") /\ a = agents.agent
            THEN old.other \cap agents.seen.other \subseteq new.other
            ELSE new.other = old.other
         /\ (agents.kind = "setup"
               /\ \E p \in A!Piece : old.piece[p] = A!Users /\ new.piece[p] # A!Users)
              => agents.force \/ agents.yes
         /\ (a \in Forks /\ new.entry # old.entry) => agents.force \/ agents.seen.entry = A!None

SaysWhole ==
  (agents.kind = "setup" /\ agents.told = A!None
     /\ agents'.told \in {"registered", "merged", "conflict", "hint"})
    => LET d == disk'[agents.home][agents.agent]
       IN /\ \A p \in A!Pieces(agents.agent) : d.piece[p] = "ours"
          /\ agents'.told \in {"registered", "merged"} => d.entry = agents.dd

SaysGone ==
  (agents.kind = "remove" /\ agents'.told = "removed")
    => LET d == disk'[agents.home][agents.agent]
       IN (\A p \in A!Piece : d.piece[p] = A!None)
          /\ A!InstallState(d, agents.agent) # "wired"

AgentsStep == (AgentsTypes /\ AgentsKnows)' /\ KeepsUsers /\ SaysWhole /\ SaysGone

LEMMA Supported ==
  /\ Recipes \subseteq A!Agent /\ Forks \subseteq A!Agent /\ WithCli \subseteq A!Agent
  /\ WithCli \cap Forks = {} /\ Default \in DataDir
  /\ A!None \notin DataDir /\ Starts \subseteq [A!Agent -> A!Disk]
BY AgentsAssumption DEF A!AgentsConstants

LEMMA FirstIs ==
  ASSUME NEW S \in SUBSET A!Agent, S # {}
  PROVE  A!First(S) \in A!Agent
<1> DEFINE T == {i \in DOMAIN Registry : Registry[i] \in S}
<1>1. DOMAIN Registry \subseteq Nat
  BY AgentsAssumption DEF A!AgentsConstants
<1>2. T \subseteq Nat /\ T # {}
  BY <1>1 DEF A!Agent
<1>3. IsWellFoundedOn(OpToRel(<, Nat), Nat)
  BY NatLessThanWellFounded
<1>4. PICK i \in T : \A j \in T : <<j, i>> \notin OpToRel(<, Nat)
  BY <1>2, <1>3, WFMin
<1>5. Registry[i] \in S /\ \A j \in DOMAIN Registry : j < i => Registry[j] \notin S
  BY <1>1, <1>4 DEF OpToRel
<1>6. \E k \in DOMAIN Registry :
        Registry[k] \in S /\ \A j \in DOMAIN Registry : j < k => Registry[j] \notin S
  BY <1>5
<1>7. QED
  BY <1>6 DEF A!First, A!Agent

LEMMA NoDisk == A!Bare \in A!Disk /\ A!Bare.entry = A!None
<1>1. [p \in A!Piece |-> A!None] \in [A!Piece -> {A!None, "empty", "ours", A!Users}]
  OBVIOUS
<1>2. QED
  BY <1>1 DEF A!Bare, A!Disk, A!None

LEMMA NoCommand ==
  /\ A!NoCmd \in Commanding /\ A!NoCmd.kind = "none" /\ A!NoCmd.at = "idle"
  /\ A!NoCmd.told = A!None /\ A!NoCmd.tui = FALSE
<1>1. Registry[1] \in A!Agent
  BY AgentsAssumption DEF A!AgentsConstants, A!Agent
<1>2. [a \in A!Agent |-> "absent"] \in [A!Agent -> {"absent", "unwired", "wired"}]
  OBVIOUS
<1>3. QED
  BY <1>1, <1>2, NoDisk, Supported DEF A!NoCmd, Commanding, A!Home, A!Results, A!None

LEMMA InitAgents == MCInit => AgentsInv
<1>1. ASSUME MCInit, focus = "agents" PROVE AgentsTypes /\ AgentsKnows
  <2>1. A!Init
    BY <1>1 DEF MCInit
  <2>2. disk \in [A!Home -> [A!Agent -> A!Disk]]
    <3>1. PICK start \in Starts : disk = [h \in A!Home |-> IF h = "user" THEN start
                                                        ELSE [a \in A!Agent |-> A!Bare]]
      BY <2>1 DEF A!Init
    <3>2. start \in [A!Agent -> A!Disk] /\ [a \in A!Agent |-> A!Bare] \in [A!Agent -> A!Disk]
      BY NoDisk, Supported
    <3>3. QED
      BY <3>1, <3>2
  <2>3. QED
    BY <2>1, <2>2, NoCommand DEF A!Init, AgentsTypes, AgentsKnows
<1>2. QED
  BY <1>1, NoCommand DEF AgentsInv, MCInit, AgentsIdle

(* A write to the agent's place on disk, and what makes it a fair one.     *)
LEMMA WriteIs ==
  ASSUME AgentsTypes, NEW d \in A!Disk, A!Write(d)
  PROVE  /\ disk' \in [A!Home -> [A!Agent -> A!Disk]]
         /\ disk'[agents.home][agents.agent] = d
         /\ \A h \in A!Home, a \in A!Agent :
              ~(h = agents.home /\ a = agents.agent) => disk'[h][a] = disk[h][a]
         /\ A!Here \in A!Disk /\ agents.home \in A!Home /\ agents.agent \in A!Agent
<1>1. agents.home \in A!Home /\ agents.agent \in A!Agent
  BY DEF AgentsTypes, Commanding
<1>2. disk' = [disk EXCEPT ![agents.home] = [disk[agents.home] EXCEPT ![agents.agent] = d]]
  BY DEF A!Write
<1>3. QED
  BY <1>1, <1>2 DEF AgentsTypes, A!Here

LEMMA FairWrite ==
  ASSUME AgentsTypes, NEW d \in A!Disk, A!Write(d),
         IF agents.at = "rename" THEN A!Here.other \cap agents.seen.other \subseteq d.other
         ELSE d.other = A!Here.other,
         agents.kind = "setup" =>
           agents.force \/ agents.yes
             \/ \A p \in A!Piece : A!Here.piece[p] = A!Users => d.piece[p] = A!Users,
         agents.agent \in Forks =>
           d.entry = A!Here.entry \/ agents.force \/ agents.seen.entry = A!None
  PROVE  KeepsUsers
<1> SUFFICES ASSUME NEW h \in A!Home, NEW a \in A!Agent
             PROVE  LET old == disk[h][a] new == disk'[h][a]
                    IN /\ h # agents.home => new = old
                       /\ IF A!At("rename") /\ a = agents.agent
                          THEN old.other \cap agents.seen.other \subseteq new.other
                          ELSE new.other = old.other
                       /\ (agents.kind = "setup"
                             /\ \E p \in A!Piece : old.piece[p] = A!Users /\ new.piece[p] # A!Users)
                            => agents.force \/ agents.yes
                       /\ (a \in Forks /\ new.entry # old.entry)
                            => agents.force \/ agents.seen.entry = A!None
  BY DEF KeepsUsers
<1>1. CASE h = agents.home /\ a = agents.agent
  <2>1. disk'[h][a] = d /\ disk[h][a] = A!Here
    BY <1>1, WriteIs DEF A!Here
  <2>2. QED
    BY <1>1, <2>1 DEF A!At
<1>2. CASE ~(h = agents.home /\ a = agents.agent)
  <2>1. disk'[h][a] = disk[h][a]
    BY <1>2, WriteIs
  <2>2. QED
    BY <2>1
<1>3. QED
  BY <1>1, <1>2

(* A command tells what came of an agent: it ends, or the picker goes on.  *)
LEMMA Told ==
  ASSUME AgentsTypes, AgentsKnows, NEW result \in A!Results, A!Tell(result),
         disk' \in [A!Home -> [A!Agent -> A!Disk]], troubles' = troubles
  PROVE  /\ AgentsTypes' /\ AgentsKnows' /\ agents'.told = result
<1>1. agents \in Commanding /\ {} \in SUBSET A!Piece
  BY DEF AgentsTypes
<1>2. /\ agents' \in Commanding /\ agents'.told = result
      /\ agents'.at \in {"idle", "next"}
      /\ agents'.kind = "none" \/ (agents'.kind = agents.kind /\ agents.tui)
  <2>1. CASE agents.tui
    <3>1. agents' = [agents EXCEPT !.told = result, !.at = "next", !.left = {}, !.seen = A!Bare]
      BY <2>1 DEF A!Tell
    <3>2. QED
      BY <1>1, <2>1, <3>1, NoDisk DEF Commanding
  <2>2. CASE ~agents.tui
    <3>1. agents' = [A!NoCmd EXCEPT !.told = result]
      BY <2>2 DEF A!Tell
    <3>2. QED
      BY <3>1, NoCommand DEF Commanding
  <2>3. QED
    BY <2>1, <2>2
<1>3. agents'.kind # "remove"
  BY <1>2 DEF AgentsKnows
<1>4. QED
  BY <1>2, <1>3 DEF AgentsTypes, AgentsKnows

LEMMA NothingWritten ==
  ASSUME disk' = disk
  PROVE  KeepsUsers
BY DEF KeepsUsers

(* A command that fails, or gives up, leaves the disk as it is.            *)
LEMMA TellsNoMore ==
  ASSUME AgentsTypes, AgentsKnows, NEW result \in {"error", "aborted"}, A!Tell(result),
         UNCHANGED <<disk, troubles>>
  PROVE  AgentsStep
<1>1. result \in A!Results /\ disk' \in [A!Home -> [A!Agent -> A!Disk]]
  BY DEF A!Results, AgentsTypes
<1>2. AgentsTypes' /\ AgentsKnows' /\ agents'.told = result
  BY <1>1, Told
<1>3. QED
  BY <1>2, NothingWritten DEF AgentsStep, SaysWhole, SaysGone

(* Between commands, and before the first write.                           *)
LEMMA LeavesDisk ==
  ASSUME AgentsTypes, AgentsKnows, disk' = disk, troubles' \in Nat, agents' \in Commanding,
         agents'.at \in {"idle", "pick", "confirm", "next", "clean"},
         agents'.kind = "remove" => ~agents'.tui,
         agents'.told = A!None \/ (agents'.told = agents.told /\ agents'.kind # "remove")
  PROVE  AgentsStep
<1>1. AgentsTypes' /\ AgentsKnows'
  BY DEF AgentsTypes, AgentsKnows
<1>2. SaysWhole /\ SaysGone
  BY DEF SaysWhole, SaysGone, AgentsKnows, A!None
<1>3. QED
  BY <1>1, <1>2, NothingWritten DEF AgentsStep

LEMMA CommandBegins ==
  ASSUME AgentsTypes, AgentsKnows, NEW c \in Commanding, A!Begin(c), c.at \in {"clean", "pick"},
         c.told = A!None, c.kind = "remove" => ~c.tui
  PROVE  AgentsStep
BY LeavesDisk DEF A!Begin, AgentsTypes

(* Commands begin; the picker asks.                                        *)
LEMMA CommandsBegin ==
  ASSUME AgentsTypes, AgentsKnows, NEW a \in A!Agent, NEW h \in A!Home, NEW dd \in DataDir,
         NEW force \in BOOLEAN, NEW tty \in BOOLEAN,
         A!Setup(a, h, force, tty, dd) \/ A!Picker(h, force, dd) \/ A!Remove(a, h)
  PROVE  AgentsStep
<1>1. CASE A!Setup(a, h, force, tty, dd)
  <2> DEFINE c == [A!NoCmd EXCEPT !.kind = "setup", !.at = "clean", !.home = h, !.agent = a,
                                  !.force = force, !.tty = tty, !.dd = dd]
  <2>1. c \in Commanding /\ c.at = "clean" /\ c.told = A!None /\ c.kind = "setup"
    BY ZenonT(60), NoCommand DEF Commanding
  <2>2. A!Begin(c)
    BY <1>1 DEF A!Setup
  <2> HIDE DEF c
  <2>3. QED
    BY <2>1, <2>2, CommandBegins
<1>2. CASE A!Remove(a, h)
  <2> DEFINE c == [A!NoCmd EXCEPT !.kind = "remove", !.at = "clean", !.home = h, !.agent = a]
  <2>1. c \in Commanding /\ c.at = "clean" /\ c.told = A!None /\ ~c.tui
    BY NoCommand DEF Commanding
  <2>2. A!Begin(c)
    BY <1>2 DEF A!Remove
  <2> HIDE DEF c
  <2>3. QED
    BY <2>1, <2>2, CommandBegins
<1>3. CASE A!Picker(h, force, dd)
  <2> DEFINE rows == A!Rows(h)
             picked == {b \in A!Agent : rows[b] = "unwired"}
             c == [A!NoCmd EXCEPT !.kind = "setup", !.at = "pick", !.home = h, !.tui = TRUE,
                                  !.force = force, !.tty = TRUE, !.dd = dd, !.rows = rows,
                                  !.picked = picked]
  <2>1. rows \in [A!Agent -> {"absent", "unwired", "wired"}]
    BY DEF A!Rows, A!InstallState
  <2>2. picked \in SUBSET A!Agent
    OBVIOUS
  <2>3. A!Begin(c)
    BY <1>3 DEF A!Picker
  <2> HIDE DEF rows, picked
  <2>4. c \in Commanding
    BY <2>1, <2>2, NoCommand DEF Commanding
  <2>5. c.at = "pick" /\ c.told = A!None /\ c.kind = "setup"
    BY NoCommand DEF Commanding
  <2> HIDE DEF c
  <2>6. QED
    BY <2>3, <2>4, <2>5, CommandBegins
<1>4. QED
  BY <1>1, <1>2, <1>3

LEMMA PickerKeeps ==
  ASSUME AgentsTypes, AgentsKnows,
         \/ \E a \in A!Agent : A!Toggle(a)
         \/ A!Pick \/ A!Confirm \/ A!NextAgent \/ A!Kill
  PROVE  AgentsStep
<1>1. agents \in Commanding /\ troubles \in Nat
  BY DEF AgentsTypes
<1>2. disk' = disk /\ troubles' \in Nat
  BY <1>1 DEF A!Toggle, A!Pick, A!Confirm, A!NextAgent, A!Kill, A!Quiet
<1>3. CASE agents' = A!NoCmd
  BY <1>2, <1>3, NoCommand, LeavesDisk
<1>4. ASSUME NEW place \in {"pick", "confirm"}, A!Goto(place), agents.at \in {"pick", "confirm"}
      PROVE  AgentsStep
  <2>1. agents' \in Commanding /\ agents'.at = place /\ agents'.kind = agents.kind
        /\ agents'.tui = agents.tui /\ agents'.told = agents.told
    BY <1>1, <1>4 DEF A!Goto, Commanding
  <2>2. QED
    BY <1>2, <2>1, LeavesDisk DEF AgentsKnows
<1>5. ASSUME NEW a \in A!Agent, A!Toggle(a)
      PROVE  AgentsStep
  <2>1. (agents.picked \ {a}) \cup ({a} \ agents.picked) \in SUBSET A!Agent
    BY <1>1 DEF Commanding
  <2>2. agents' \in Commanding /\ agents'.at = "pick" /\ agents'.kind = agents.kind
        /\ agents'.tui = agents.tui /\ agents'.told = agents.told
    BY <1>1, <1>5, <2>1 DEF A!Toggle, A!At, Commanding
  <2>3. QED
    BY <1>2, <2>2, LeavesDisk DEF AgentsKnows
<1>6. CASE A!Pick
  BY <1>3, <1>4, <1>6 DEF A!Pick, A!At
<1>7. CASE A!Confirm
  <2>1. CASE agents' = [agents EXCEPT !.at = "next", !.queue = agents.picked]
    <3>1. agents' \in Commanding /\ agents'.at = "next" /\ agents'.kind = agents.kind
          /\ agents'.tui = agents.tui /\ agents'.told = agents.told
      BY <1>1, <2>1 DEF Commanding
    <3>2. QED
      BY <1>2, <3>1, LeavesDisk DEF AgentsKnows
  <2>2. QED
    BY <1>4, <1>7, <2>1 DEF A!Confirm, A!At
<1>8. CASE A!NextAgent
  <2>1. CASE agents.queue # {}
    <3> DEFINE a == A!First(agents.queue)
    <3>1. a \in A!Agent /\ agents.queue \ {a} \in SUBSET A!Agent
      BY <1>1, <2>1, FirstIs DEF Commanding
    <3>2. agents' = [agents EXCEPT !.agent = a, !.queue = agents.queue \ {a}, !.yes = FALSE,
                                   !.at = "clean", !.told = A!None]
      BY <1>1, <1>8, <2>1 DEF A!NextAgent, Commanding
    <3> HIDE DEF a
    <3>3. A!None \in A!Results
      BY DEF A!Results
    <3>4. agents' \in Commanding
      BY <1>1, <3>1, <3>2, <3>3 DEF Commanding
    <3>5. agents'.at = "clean" /\ agents'.kind = agents.kind
          /\ agents'.tui = agents.tui /\ agents'.told = A!None
      BY <1>1, <3>2 DEF Commanding
    <3>6. QED
      BY <1>2, <3>4, <3>5, LeavesDisk DEF AgentsKnows
  <2>2. QED
    BY <1>3, <1>8, <2>1 DEF A!NextAgent
<1>9. CASE A!Kill
  BY <1>3, <1>9 DEF A!Kill
<1>10. QED
  BY <1>5, <1>6, <1>7, <1>8, <1>9

(* The user's own edits.                                                   *)
LEMMA EditsKeep ==
  ASSUME AgentsTypes, AgentsKnows, NEW a \in A!Agent,
         A!UserAdds(a) \/ A!UserPastes(a) \/ A!UserRewrites(a)
  PROVE  AgentsStep
<1> DEFINE old == disk["user"][a]
<1>1. disk \in [A!Home -> [A!Agent -> A!Disk]] /\ old \in A!Disk /\ troubles \in Nat
      /\ agents \in Commanding /\ "user" \in A!Home
  BY DEF AgentsTypes, A!Home
<1>2. ASSUME NEW d \in A!Disk, A!Edit(a, d), agents.at = "idle" \/ d.piece = old.piece
      PROVE  AgentsStep
  <2>1. disk' \in [A!Home -> [A!Agent -> A!Disk]] /\ agents' = agents
        /\ troubles' = troubles + 1
    BY <1>1, <1>2 DEF A!Edit
  <2>2. \A h \in A!Home, b \in A!Agent :
          disk'[h][b] = IF h = "user" /\ b = a THEN d ELSE disk[h][b]
    BY <1>1, <1>2 DEF A!Edit
  <2>3. agents.at # "idle" => A!Here'.piece = A!Here.piece
    BY <1>1, <1>2, <2>1, <2>2 DEF A!Here, Commanding
  <2>4. AgentsTypes' /\ troubles' # troubles
    BY <1>1, <2>1 DEF AgentsTypes
  <2>5. AgentsKnows'
    BY <2>1, <2>3 DEF AgentsKnows, Whole
  <2>6. SaysWhole /\ SaysGone
    BY <2>1 DEF SaysWhole, SaysGone, AgentsKnows, A!None
  <2>7. QED
    BY <2>4, <2>5, <2>6 DEF AgentsStep, KeepsUsers
<1>3. CASE A!UserAdds(a)
  <2>1. PICK o \in Other : A!Edit(a, [old EXCEPT !.other = old.other \cup {o},
                                                 !.json = IF a \in Forks THEN "object" ELSE old.json])
    BY <1>1, <1>3 DEF A!UserAdds, A!Disk
  <2> DEFINE d == [old EXCEPT !.other = old.other \cup {o},
                              !.json = IF a \in Forks THEN "object" ELSE old.json]
  <2>2. d \in A!Disk /\ d.piece = old.piece
    BY <1>1 DEF A!Disk
  <2> HIDE DEF d
  <2>3. QED
    BY <1>2, <2>1, <2>2 DEF d
<1>4. CASE A!UserPastes(a)
  <2>1. PICK e \in {A!Hint(a, Default), A!None} :
          A!Edit(a, [old EXCEPT !.entry = e, !.json = IF a \in Forks THEN "object" ELSE old.json])
    BY <1>1, <1>4 DEF A!UserPastes, A!Disk
  <2> DEFINE d == [old EXCEPT !.entry = e, !.json = IF a \in Forks THEN "object" ELSE old.json]
  <2>2. e \in DataDir \cup {A!None}
    BY Supported DEF A!Hint
  <2>3. d \in A!Disk /\ d.piece = old.piece
    BY <1>1, <2>2 DEF A!Disk
  <2> HIDE DEF d
  <2>4. QED
    BY <1>2, <2>1, <2>3 DEF d
<1>5. CASE A!UserRewrites(a)
  <2> DEFINE d == [old EXCEPT !.piece["main"] = A!Users]
  <2>1. A!Edit(a, d) /\ agents.at = "idle"
    BY <1>5 DEF A!UserRewrites
  <2>2. d \in A!Disk
    BY <1>1 DEF A!Disk
  <2> HIDE DEF d
  <2>3. QED
    BY <1>2, <2>1, <2>2
<1>6. QED
  BY <1>3, <1>4, <1>5

(* A command that goes on to another place of the installation.            *)
LEMMA AgentGoes ==
  ASSUME agents \in Commanding, NEW place, A!Goto(place),
         place \in {"check", "merge", "rename", "unregister", "register", "remove"}
  PROVE  /\ agents' \in Commanding /\ agents'.at = place /\ agents'.kind = agents.kind
         /\ agents'.tui = agents.tui /\ agents'.told = agents.told
         /\ agents'.home = agents.home /\ agents'.agent = agents.agent
         /\ agents'.force = agents.force /\ agents'.seen = agents.seen
         /\ agents'.dd = agents.dd
BY DEF A!Goto, Commanding

(* Older files are removed, and the files that are there are looked at.    *)
LEMMA CleanKeeps ==
  ASSUME AgentsTypes, AgentsKnows, A!Clean \/ A!RemoveLegacy
  PROVE  AgentsStep
<1>1. agents \in Commanding /\ disk \in [A!Home -> [A!Agent -> A!Disk]] /\ troubles' = troubles
      /\ agents.at = "clean" /\ A!Here \in A!Disk
  BY DEF A!Clean, A!RemoveLegacy, A!CleanLegacy, A!Quiet, AgentsTypes, A!At, A!Here, Commanding
<1>2. PICK place \in {"check", "remove"} :
        A!Goto(place) /\ agents.kind = (IF place = "check" THEN "setup" ELSE "remove")
  BY DEF A!Clean, A!RemoveLegacy, A!CleanLegacy
<1>3. /\ agents' \in Commanding /\ agents'.at = place /\ agents'.kind = agents.kind
      /\ agents'.tui = agents.tui /\ agents'.told = agents.told
  BY <1>1, <1>2, AgentGoes
<1>4. disk' \in [A!Home -> [A!Agent -> A!Disk]] /\ KeepsUsers
  <2>1. CASE A!Write([A!Here EXCEPT !.legacy = FALSE])
    <3> DEFINE d == [A!Here EXCEPT !.legacy = FALSE]
    <3>1. d \in A!Disk /\ d.other = A!Here.other /\ d.piece = A!Here.piece /\ d.entry = A!Here.entry
      BY <1>1 DEF A!Disk
    <3> HIDE DEF d
    <3>2. A!Write(d)
      BY <2>1 DEF d
    <3>3. QED
      BY <1>1, <3>1, <3>2, WriteIs, FairWrite
  <2>2. CASE disk' = disk
    BY <1>1, <2>2, NothingWritten
  <2>3. QED
    BY <2>1, <2>2 DEF A!Clean, A!RemoveLegacy, A!CleanLegacy
<1>5. AgentsTypes' /\ AgentsKnows'
  BY <1>1, <1>2, <1>3, <1>4 DEF AgentsTypes, AgentsKnows
<1>6. SaysWhole /\ SaysGone
  BY <1>3 DEF SaysWhole, SaysGone, AgentsKnows, A!None
<1>7. QED
  BY <1>4, <1>5, <1>6 DEF AgentsStep

LEMMA CheckKeeps ==
  ASSUME AgentsTypes, AgentsKnows, A!Check
  PROVE  AgentsStep
<1>1. agents \in Commanding /\ agents.at = "check" /\ agents.kind = "setup"
      /\ UNCHANGED <<disk, troubles>>
  BY DEF A!Check, A!Quiet, AgentsTypes, AgentsKnows, A!At
<1> DEFINE there == {p \in A!Pieces(agents.agent) : A!Exists(A!Here, p)}
<1>2. ASSUME NEW yes \in BOOLEAN, yes \/ agents.force \/ there = {},
             agents' = [agents EXCEPT !.at = "write", !.left = A!Pieces(agents.agent), !.yes = yes]
      PROVE  AgentsStep
  <2>1. A!Pieces(agents.agent) \in SUBSET A!Piece
    BY DEF A!Pieces, A!Piece
  <2>2. /\ agents' \in Commanding /\ agents'.at = "write" /\ agents'.kind = agents.kind
        /\ agents'.tui = agents.tui /\ agents'.told = agents.told /\ agents'.yes = yes
        /\ agents'.home = agents.home /\ agents'.agent = agents.agent
        /\ agents'.force = agents.force /\ agents'.left = A!Pieces(agents.agent)
    BY <1>1, <1>2, <2>1 DEF Commanding
  <2>3. A!Here' = A!Here
    BY <1>1, <2>2 DEF A!Here
  <2>4. AgentsTypes'
    BY <1>1, <2>2 DEF AgentsTypes
  <2>5. Whole(A!Pieces(agents.agent) \ agents.left)'
    BY <2>2 DEF Whole
  <2>6. yes \/ agents.force \/ \A p \in A!Pieces(agents.agent) : A!Here.piece[p] # A!Users
    BY <1>2 DEF A!Exists, A!Users, A!None
  <2>7. AgentsKnows'
    BY <1>1, <2>2, <2>3, <2>5, <2>6 DEF AgentsKnows
  <2>8. SaysWhole /\ SaysGone
    BY <1>1, <2>2 DEF SaysWhole, SaysGone, A!None
  <2>9. QED
    BY <1>1, <2>4, <2>7, <2>8, NothingWritten DEF AgentsStep
<1>3. ASSUME NEW result \in {"error", "aborted"}, A!Tell(result)
      PROVE  AgentsStep
  BY <1>1, <1>3, TellsNoMore
<1>4. QED
  BY <1>2, <1>3 DEF A!Check

(* The files, emptied and filled one after the other.                      *)
LEMMA WriteKeeps ==
  ASSUME AgentsTypes, AgentsKnows, A!WriteFile
  PROVE  AgentsStep
<1> DEFINE p == IF "main" \in agents.left THEN "main" ELSE "reference"
<1>1. /\ agents \in Commanding /\ agents.at = "write" /\ agents.kind = "setup" /\ troubles' = troubles
      /\ disk \in [A!Home -> [A!Agent -> A!Disk]] /\ A!Here \in A!Disk
  <2>1. agents.at = "write" /\ troubles' = troubles
    BY DEF A!WriteFile, A!Quiet, A!At
  <2>2. agents \in Commanding /\ disk \in [A!Home -> [A!Agent -> A!Disk]]
    BY DEF AgentsTypes
  <2>3. A!Here \in A!Disk
    BY <2>2 DEF A!Here, Commanding
  <2>4. QED
    BY <2>1, <2>2, <2>3 DEF AgentsKnows
<1>2. p \in agents.left /\ p \in A!Piece
  BY <1>1 DEF A!WriteFile, Commanding, A!Piece
<1>3. ASSUME NEW c \in {"empty", "ours"},
             A!Write([A!Here EXCEPT !.root = TRUE, !.dir = TRUE, !.piece[p] = c]),
             agents' = IF c = "empty" THEN agents ELSE [agents EXCEPT !.left = agents.left \ {p}]
      PROVE  AgentsStep
  <2> DEFINE d == [A!Here EXCEPT !.root = TRUE, !.dir = TRUE, !.piece[p] = c]
  <2> HIDE DEF p
  <2>1. A!Here.piece \in [A!Piece -> {A!None, "empty", "ours", A!Users}]
    BY <1>1 DEF A!Disk
  <2>2. d = [A!Here EXCEPT !.root = TRUE, !.dir = TRUE, !.piece = [A!Here.piece EXCEPT ![p] = c]]
    BY <1>1 DEF A!Disk
  <2>3. /\ d \in A!Disk /\ d.other = A!Here.other /\ d.entry = A!Here.entry
        /\ \A q \in A!Piece : d.piece[q] = IF q = p THEN c ELSE A!Here.piece[q]
    BY <1>1, <2>1, <2>2 DEF A!Disk
  <2>4. A!Write(d)
    BY <1>3
  <2> HIDE DEF d
  <2>5. agents.force \/ agents.yes \/ \A q \in A!Piece : A!Here.piece[q] = A!Users => d.piece[q] = A!Users
    BY <1>1, <1>2, <2>3 DEF AgentsKnows
  <2>6. KeepsUsers
    BY <1>1, <2>3, <2>4, <2>5, FairWrite
  <2>7. /\ agents' \in Commanding /\ agents'.at = "write" /\ agents'.kind = agents.kind
        /\ agents'.tui = agents.tui /\ agents'.told = agents.told /\ agents'.yes = agents.yes
        /\ agents'.home = agents.home /\ agents'.agent = agents.agent
        /\ agents'.force = agents.force
        /\ agents'.left = IF c = "empty" THEN agents.left ELSE agents.left \ {p}
    <3>1. CASE c = "empty"
      BY <1>1, <1>3, <3>1
    <3>2. CASE c # "empty"
      BY <1>1, <1>3, <3>2 DEF Commanding
    <3>3. QED
      BY <3>1, <3>2
  <2>8. A!Here' = d
    BY <2>3, <2>4, <2>7, WriteIs DEF A!Here
  <2>9. AgentsTypes'
    BY <1>1, <2>3, <2>4, <2>7, WriteIs DEF AgentsTypes
  <2>10. Whole(A!Pieces(agents.agent) \ agents.left)'
    BY <1>1, <1>2, <1>3, <2>3, <2>7, <2>8 DEF Whole, AgentsKnows, A!Pieces, A!Piece
  <2>11. agents.left \in SUBSET A!Piece
    BY <1>1 DEF Commanding
  <2>12. agents'.force \/ agents'.yes \/ \A q \in agents'.left : A!Here'.piece[q] # A!Users
    BY <1>1, <1>3, <2>3, <2>7, <2>8, <2>11 DEF AgentsKnows, A!Users
  <2>13. AgentsKnows'
    BY <1>1, <2>7, <2>10, <2>12 DEF AgentsKnows
  <2>14. SaysWhole /\ SaysGone
    BY <1>1, <2>7 DEF SaysWhole, SaysGone, A!None
  <2>15. QED
    BY <2>6, <2>9, <2>13, <2>14 DEF AgentsStep
<1>4. CASE A!Fail
  BY <1>1, <1>4, TellsNoMore DEF A!Fail
<1>5. QED
  <2>1. CASE A!Write([A!Here EXCEPT !.root = TRUE, !.dir = TRUE, !.piece[p] = "empty"])
             /\ agents' = agents
    BY <1>3, <2>1
  <2>2. CASE A!Write([A!Here EXCEPT !.root = TRUE, !.dir = TRUE, !.piece[p] = "ours"])
             /\ agents' = [agents EXCEPT !.left = agents.left \ {p}]
    BY <1>3, <2>2
  <2>3. agents' = [agents EXCEPT !.left = @ \ {p}] => agents' = [agents EXCEPT !.left = agents.left \ {p}]
    BY <1>1 DEF Commanding
  <2>4. QED
    BY <1>4, <2>1, <2>2, <2>3 DEF A!WriteFile

(* The files are there: what is said of them, or the MCP entry next.       *)
LEMMA WrittenKeeps ==
  ASSUME AgentsTypes, AgentsKnows, A!Written \/ A!MergeRead
  PROVE  AgentsStep
<1>1. /\ agents \in Commanding /\ agents.at \in {"write", "merge"} /\ agents.kind = "setup"
      /\ UNCHANGED <<disk, troubles>> /\ A!Here \in A!Disk
      /\ disk \in [A!Home -> [A!Agent -> A!Disk]]
  BY DEF A!Written, A!MergeRead, A!Quiet, AgentsTypes, AgentsKnows, A!At, A!Here, Commanding
<1>2. Whole(A!Pieces(agents.agent))
  BY DEF A!Written, A!MergeRead, A!At, AgentsKnows, Whole
<1>3. ASSUME NEW result \in {"hint", "conflict"}, A!Tell(result)
      PROVE  AgentsStep
  <2>1. result \in A!Results /\ disk' \in [A!Home -> [A!Agent -> A!Disk]]
    BY <1>1 DEF A!Results
  <2>2. AgentsTypes' /\ AgentsKnows' /\ agents'.told = result
    BY <1>1, <1>3, <2>1, Told
  <2>3. SaysWhole
    BY <1>1, <1>2, <2>2 DEF SaysWhole, Whole, A!Here
  <2>4. QED
    BY <1>1, <2>2, <2>3, NothingWritten DEF AgentsStep, SaysGone
<1>4. ASSUME agents' \in Commanding, agents'.at \in {"merge", "unregister", "temp"},
             agents'.kind = agents.kind, agents'.told = agents.told, agents'.home = agents.home,
             agents'.agent = agents.agent,
             agents'.at = "temp" => agents'.force \/ agents'.seen.entry = A!None,
             agents'.at = "unregister" => agents.agent \in WithCli
      PROVE  AgentsStep
  <2>1. A!Here' = A!Here
    BY <1>1, <1>4 DEF A!Here
  <2>2. AgentsTypes' /\ AgentsKnows'
    BY <1>1, <1>2, <1>4, <2>1 DEF AgentsTypes, AgentsKnows, Whole
  <2>3. SaysWhole /\ SaysGone
    BY <1>1, <1>4 DEF SaysWhole, SaysGone, A!None
  <2>4. QED
    BY <1>1, <2>2, <2>3, NothingWritten DEF AgentsStep
<1>5. CASE A!Written
  <2>1. CASE A!Goto("merge")
    BY <1>1, <1>4, <2>1, AgentGoes
  <2>2. CASE A!Goto("unregister") /\ agents.agent \in WithCli
    BY <1>1, <1>4, <2>2, AgentGoes
  <2>3. QED
    BY <1>3, <1>5, <2>1, <2>2 DEF A!Written
<1>6. CASE A!MergeRead
  <2>1. CASE /\ A!Here.entry = A!None \/ agents.force
             /\ agents' = [agents EXCEPT !.at = "temp", !.seen = A!Here]
    <3>1. /\ agents' \in Commanding /\ agents'.at = "temp" /\ agents'.kind = agents.kind
          /\ agents'.told = agents.told /\ agents'.home = agents.home
          /\ agents'.agent = agents.agent /\ agents'.seen = A!Here /\ agents'.force = agents.force
      BY <1>1, <2>1 DEF Commanding
    <3>2. QED
      BY <1>4, <2>1, <3>1
  <2>2. CASE A!Tell("error")
    BY <1>1, <2>2, TellsNoMore
  <2>3. QED
    BY <1>3, <1>6, <2>1, <2>2 DEF A!MergeRead
<1>7. QED
  BY <1>5, <1>6

(* The MCP entry: in .mcp.json by way of a temporary file, or by the       *)
(* agent's own command.                                                    *)
LEMMA EntryKeeps ==
  ASSUME AgentsTypes, AgentsKnows, A!MergeTemp \/ A!MergeRename \/ A!Unregister \/ A!Register
  PROVE  AgentsStep
<1>1. /\ agents \in Commanding /\ agents.at \in {"temp", "rename", "unregister", "register"}
      /\ agents.kind = "setup" /\ troubles' = troubles
      /\ disk \in [A!Home -> [A!Agent -> A!Disk]] /\ A!Here \in A!Disk
      /\ agents.seen \in A!Disk /\ agents.dd \in DataDir
  BY DEF A!MergeTemp, A!MergeRename, A!Unregister, A!Register, A!Quiet, AgentsTypes, AgentsKnows,
         A!At, A!Here, Commanding
<1>2. Whole(A!Pieces(agents.agent))
      /\ (agents.at \in {"temp", "rename"} => agents.force \/ agents.seen.entry = A!None)
      /\ (agents.at \in {"unregister", "register"} => agents.agent \in WithCli \ Forks)
  BY <1>1, Supported DEF AgentsKnows
<1>3. A!Pieces(agents.agent) \subseteq A!Piece
  BY DEF A!Pieces, A!Piece
<1>4. ASSUME NEW d \in A!Disk, A!Write(d), d.piece = A!Here.piece,
             IF agents.at = "rename" THEN A!Here.other \cap agents.seen.other \subseteq d.other
             ELSE d.other = A!Here.other,
             agents.at = "temp" => d.entry = A!Here.entry
      PROVE  /\ disk' \in [A!Home -> [A!Agent -> A!Disk]] /\ disk'[agents.home][agents.agent] = d
             /\ KeepsUsers /\ (\A p \in A!Pieces(agents.agent) : d.piece[p] = "ours")
  <2>1. agents.agent \in Forks =>
          d.entry = A!Here.entry \/ agents.force \/ agents.seen.entry = A!None
    BY <1>1, <1>2
  <2>2. KeepsUsers
    BY <1>4, <2>1, FairWrite
  <2>3. QED
    BY <1>2, <1>4, <2>2, WriteIs DEF Whole
<1>5. ASSUME disk' \in [A!Home -> [A!Agent -> A!Disk]], KeepsUsers,
             NEW result \in {"error", "hint", "merged", "registered"}, A!Tell(result),
             \A p \in A!Pieces(agents.agent) : disk'[agents.home][agents.agent].piece[p] = "ours",
             result \in {"merged", "registered"} =>
               disk'[agents.home][agents.agent].entry = agents.dd
      PROVE  AgentsStep
  <2>1. result \in A!Results
    BY DEF A!Results
  <2>2. AgentsTypes' /\ AgentsKnows' /\ agents'.told = result
    BY <1>1, <1>5, <2>1, Told
  <2>3. QED
    BY <1>1, <1>5, <2>2 DEF AgentsStep, SaysWhole, SaysGone
<1>6. ASSUME disk' \in [A!Home -> [A!Agent -> A!Disk]], KeepsUsers,
             NEW place \in {"rename", "register"}, A!Goto(place),
             place = "rename" => agents.at = "temp",
             place = "register" => agents.at = "unregister",
             \A p \in A!Pieces(agents.agent) : disk'[agents.home][agents.agent].piece[p] = "ours"
      PROVE  AgentsStep
  <2>1. /\ agents' \in Commanding /\ agents'.at = place /\ agents'.kind = agents.kind
        /\ agents'.tui = agents.tui /\ agents'.told = agents.told
        /\ agents'.home = agents.home /\ agents'.agent = agents.agent
        /\ agents'.force = agents.force /\ agents'.seen = agents.seen
    BY <1>1, <1>6, AgentGoes
  <2>2. Whole(A!Pieces(agents.agent))'
    BY <1>6, <2>1 DEF Whole, A!Here
  <2>3. AgentsTypes' /\ AgentsKnows'
    BY <1>1, <1>2, <1>6, <2>1, <2>2 DEF AgentsTypes, AgentsKnows
  <2>4. SaysWhole /\ SaysGone
    BY <1>1, <2>1 DEF SaysWhole, SaysGone, A!None
  <2>5. QED
    BY <1>6, <2>3, <2>4 DEF AgentsStep
<1>7. CASE A!MergeTemp
  <2> DEFINE d == [A!Here EXCEPT !.tmp = TRUE]
  <2>1. d \in A!Disk /\ d.piece = A!Here.piece /\ d.other = A!Here.other /\ d.entry = A!Here.entry
    BY <1>1 DEF A!Disk
  <2>2. A!Write(d) /\ agents.at = "temp" /\ (A!Goto("rename") \/ A!Tell("error"))
    BY <1>7 DEF A!MergeTemp, A!At
  <2> HIDE DEF d
  <2>3. QED
    BY <1>4, <1>5, <1>6, <2>1, <2>2
<1>8. CASE A!MergeRename
  <2> DEFINE d == [A!Here EXCEPT !.tmp = FALSE, !.json = "object",
                                 !.other = agents.seen.other, !.entry = agents.dd]
  <2>1. /\ d \in A!Disk /\ d.piece = A!Here.piece /\ d.other = agents.seen.other
        /\ d.entry = agents.dd
    BY <1>1 DEF A!Disk
  <2>2. agents.at = "rename"
    BY <1>8 DEF A!MergeRename, A!At
  <2>3. CASE A!Write(d) /\ A!Tell("merged")
    <3> HIDE DEF d
    <3>1. QED
      BY <1>4, <1>5, <2>1, <2>2, <2>3
  <2>4. CASE A!Fail
    BY <1>1, <2>4, TellsNoMore DEF A!Fail
  <2>5. QED
    BY <1>8, <2>3, <2>4 DEF A!MergeRename
<1>9. CASE UNCHANGED disk /\ (A!Unregister \/ A!Register)
  <2>1. /\ disk' \in [A!Home -> [A!Agent -> A!Disk]] /\ KeepsUsers
        /\ \A p \in A!Pieces(agents.agent) : disk'[agents.home][agents.agent].piece[p] = "ours"
    BY <1>1, <1>2, <1>9, NothingWritten DEF Whole, A!Here
  <2>2. CASE A!Goto("register") /\ agents.at = "unregister"
    BY <1>6, <2>1, <2>2
  <2>3. CASE A!Tell("hint")
    BY <1>5, <2>1, <2>3
  <2>4. CASE A!Tell("registered") /\ A!Write([A!Here EXCEPT !.entry = agents.dd])
    <3> DEFINE d == [A!Here EXCEPT !.entry = agents.dd]
    <3>1. d \in A!Disk /\ d.piece = A!Here.piece /\ d.other = A!Here.other /\ d.entry = agents.dd
      BY <1>1 DEF A!Disk
    <3>2. disk'[agents.home][agents.agent] = d
      BY <2>4, <3>1, WriteIs DEF AgentsTypes
    <3>3. QED
      BY <1>5, <2>1, <2>4, <3>1, <3>2
  <2>5. QED
    BY <1>9, <2>2, <2>3, <2>4 DEF A!Unregister, A!Register, A!At
<1>10. CASE ~(UNCHANGED disk) /\ (A!Unregister \/ A!Register)
  <2>1. PICK e \in DataDir \cup {A!None} :
          /\ A!Write([A!Here EXCEPT !.entry = e])
          /\ \/ A!Goto("register") /\ agents.at = "unregister"
             \/ A!Tell("registered") /\ e = agents.dd /\ agents.at = "register"
    BY <1>1, <1>10 DEF A!Unregister, A!Register, A!At
  <2> DEFINE d == [A!Here EXCEPT !.entry = e]
  <2>2. d \in A!Disk /\ d.piece = A!Here.piece /\ d.other = A!Here.other /\ d.entry = e
    BY <1>1 DEF A!Disk
  <2>3. A!Write(d) /\ agents.at \in {"unregister", "register"}
    BY <2>1
  <2> HIDE DEF d
  <2>4. QED
    BY <1>4, <1>5, <1>6, <2>1, <2>2, <2>3
<1>11. QED
  BY <1>7, <1>8, <1>9, <1>10

(* Everything that the picker would take for ours is taken away.           *)
LEMMA RemoveKeeps ==
  ASSUME AgentsTypes, AgentsKnows, A!RemoveFiles
  PROVE  AgentsStep
<1>1. /\ agents \in Commanding /\ agents.at = "remove" /\ agents.kind = "remove"
      /\ troubles' = troubles
      /\ disk \in [A!Home -> [A!Agent -> A!Disk]] /\ A!Here \in A!Disk
  BY DEF A!RemoveFiles, A!Quiet, AgentsTypes, AgentsKnows, A!At, A!Here, Commanding
<1>2. A!Here.piece \in [A!Piece -> {A!None, "empty", "ours", A!Users}] /\ A!Here.dir \in BOOLEAN
  BY <1>1 DEF A!Disk
<1>3. ASSUME NEW p \in A!Piece, A!Write([A!Here EXCEPT !.piece[p] = A!None]), agents' = agents
      PROVE  AgentsStep
  <2> DEFINE d == [A!Here EXCEPT !.piece[p] = A!None]
  <2>1. d \in A!Disk /\ d.other = A!Here.other /\ d.entry = A!Here.entry
    BY <1>1, <1>2 DEF A!Disk
  <2>2. A!Write(d)
    BY <1>3
  <2> HIDE DEF d
  <2>3. KeepsUsers /\ disk' \in [A!Home -> [A!Agent -> A!Disk]]
    BY <1>1, <2>1, <2>2, FairWrite, WriteIs
  <2>4. AgentsTypes' /\ AgentsKnows'
    BY <1>1, <1>3, <2>3 DEF AgentsTypes, AgentsKnows
  <2>5. SaysWhole /\ SaysGone
    BY <1>1, <1>3 DEF SaysWhole, SaysGone, AgentsKnows, A!None
  <2>6. QED
    BY <2>3, <2>4, <2>5 DEF AgentsStep
<1>4. CASE /\ \A p \in A!Piece : ~A!Exists(A!Here, p)
           /\ A!Tell("removed")
           /\ A!Write([A!Here EXCEPT !.dir = agents.agent \in Recipes /\ A!Here.dir])
  <2> DEFINE kept == agents.agent \in Recipes /\ A!Here.dir
             d == [A!Here EXCEPT !.dir = kept]
  <2>1. kept \in BOOLEAN /\ (agents.agent \notin Recipes => ~kept)
    OBVIOUS
  <2>2. A!Write(d)
    BY <1>4
  <2> HIDE DEF kept
  <2>3. /\ d \in A!Disk /\ d.other = A!Here.other /\ d.entry = A!Here.entry
        /\ d.piece = A!Here.piece /\ d.dir = kept
    BY <1>1, <2>1 DEF A!Disk
  <2> HIDE DEF d
  <2>4. /\ KeepsUsers /\ disk' \in [A!Home -> [A!Agent -> A!Disk]]
        /\ disk'[agents.home][agents.agent] = d
    BY <1>1, <2>2, <2>3, FairWrite, WriteIs
  <2>5. "removed" \in A!Results
    BY DEF A!Results
  <2>6. AgentsTypes' /\ AgentsKnows' /\ agents'.told = "removed"
    BY <1>1, <1>4, <2>4, <2>5, Told
  <2>7. \A p \in A!Piece : d.piece[p] = A!None
    BY <1>4, <2>3 DEF A!Exists
  <2>8. A!InstallState(d, agents.agent) # "wired"
    BY <2>1, <2>3, <2>7 DEF A!InstallState, A!HoldsAimx, A!Exists, A!Piece
  <2>9. SaysGone /\ SaysWhole
    BY <1>1, <2>4, <2>7, <2>8 DEF SaysGone, SaysWhole
  <2>10. QED
    BY <2>4, <2>6, <2>9 DEF AgentsStep
<1>5. CASE A!Fail
  BY <1>1, <1>5, TellsNoMore DEF A!Fail
<1>6. QED
  <2>1. [A!Here EXCEPT !.dir = agents.agent \in Recipes /\ @]
          = [A!Here EXCEPT !.dir = agents.agent \in Recipes /\ A!Here.dir]
    BY <1>1 DEF A!Disk
  <2>2. {p \in A!Piece : A!Exists(A!Here, p)} = {} => \A p \in A!Piece : ~A!Exists(A!Here, p)
    OBVIOUS
  <2>3. QED
    BY <1>3, <1>4, <1>5, <2>1, <2>2 DEF A!RemoveFiles

LEMMA AgentsKeep ==
  ASSUME AgentsTypes, AgentsKnows, A!Next
  PROVE  AgentsStep
<1>1. CASE A!CommandStep
  BY <1>1, PickerKeeps, CleanKeeps, CheckKeeps, WriteKeeps, WrittenKeeps, EntryKeeps, RemoveKeeps
  DEF A!CommandStep, A!InstallStep
<1>2. CASE \E a \in A!Agent, h \in A!Home, dd \in DataDir :
             \/ A!Setup(a, h, TRUE, FALSE, dd)
             \/ \E tty \in BOOLEAN : A!Setup(a, h, FALSE, tty, dd)
  BY <1>2, CommandsBegin
<1>3. CASE \E h \in A!Home, dd \in DataDir, force \in BOOLEAN : A!Picker(h, force, dd)
  <2>1. A!NoCmd.agent \in A!Agent
    BY NoCommand DEF Commanding
  <2>2. QED
    BY <1>3, <2>1, CommandsBegin
<1>4. CASE \E a \in A!Agent, h \in A!Home : A!Remove(a, h)
  BY <1>4, CommandsBegin, Supported
<1>5. CASE \E a \in A!Agent : A!Toggle(a) \/ A!UserAdds(a) \/ A!UserPastes(a) \/ A!UserRewrites(a)
  BY <1>5, PickerKeeps, EditsKeep
<1>6. CASE A!Kill
  BY <1>6, PickerKeeps
<1>7. QED
  BY <1>1, <1>2, <1>3, <1>4, <1>5, <1>6 DEF A!Next

LEMMA AgentsInvariant == AgentsInv /\ [MCNext]_MCVars => AgentsInv'
<1> SUFFICES ASSUME AgentsInv, [MCNext]_MCVars
             PROVE  AgentsInv'
  OBVIOUS
<1>1. CASE focus = "agents" /\ focus' = focus /\ A!Next
  BY <1>1, AgentsKeep DEF AgentsInv, AgentsStep
<1>2. CASE UNCHANGED <<focus, agentsVars>>
  BY <1>2 DEF AgentsInv, AgentsTypes, AgentsKnows, Whole, A!Here, agentsVars
<1>3. QED
  BY <1>1, <1>2 DEF MCNext, MCVars

LEMMA AgentsSay ==
  AgentsInv /\ [MCNext]_MCVars =>
    [KeepsUsers]_(A!vars) /\ [SaysWhole]_(A!vars) /\ [SaysGone]_(A!vars)
<1> SUFFICES ASSUME AgentsInv, [MCNext]_MCVars
             PROVE  [KeepsUsers]_(A!vars) /\ [SaysWhole]_(A!vars) /\ [SaysGone]_(A!vars)
  OBVIOUS
<1>1. CASE focus = "agents" /\ A!Next
  BY <1>1, AgentsKeep DEF AgentsInv, AgentsStep
<1>2. CASE focus # "agents" /\ UNCHANGED agentsVars
  BY <1>2, NothingWritten DEF AgentsInv, SaysWhole, SaysGone, agentsVars, A!None
<1>3. CASE UNCHANGED MCVars
  BY <1>3 DEF MCVars, agentsVars, A!vars
<1>4. QED
  BY <1>1, <1>2, <1>3 DEF MCNext

(* What is the user's is left alone, for any agents, disks, commands and   *)
(* troubles (write_files, patch_nanoclaw_mcp_json, plugin_removal_target). *)
THEOREM UsersKeepTheirs == MCSpec => UsersThingsKept
BY InitAgents, AgentsInvariant, AgentsSay, PTL
   DEF MCSpec, UsersThingsKept, A!UsersThingsKept, KeepsUsers

(* An agent that is said to be done has every file and the entry it was    *)
(* said to have, whatever a command that was killed left (install_to_writer). *)
THEOREM InstallIsWhole == MCSpec => InstalledWhole
BY InitAgents, AgentsInvariant, AgentsSay, PTL
   DEF MCSpec, InstalledWhole, A!InstalledWhole, SaysWhole

(* What is said to be removed is no longer found (remove_plugin_files).    *)
THEOREM RemovalIsWhole == MCSpec => RemovedIsGone
BY InitAgents, AgentsInvariant, AgentsSay, PTL
   DEF MCSpec, RemovedIsGone, A!RemovedIsGone, SaysGone
=============================================================================
