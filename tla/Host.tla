-------------------------------- MODULE Host --------------------------------
(***************************************************************************)
(* The machine aimx is installed on, and the four programs that change it: *)
(* install.sh, aimx setup, aimx upgrade and aimx uninstall. Each goes step *)
(* by step; each step may fail, and at any step the operator may interrupt *)
(* it or the machine may restart. The operator runs one at a time.         *)
(***************************************************************************)
EXTENDS Naturals

CONSTANTS
  Tags,        \* versions; a later one is a greater number
  Domain,      \* domains the operator may ask for
  NoDomain,    \* "no config.toml"
  Torn,        \* "a config.toml that does not parse"
  MaxOps,      \* bound on the programs run
  MaxCrashes   \* bound on interruptions and restarts

None == 0      \* "no binary", "no process"

ASSUME TagsAssumption == Tags \subseteq Nat \ {0}
ASSUME DomainAssumption == NoDomain \notin Domain /\ Torn \notin Domain
ASSUME BoundAssumption == MaxOps \in Nat /\ MaxCrashes \in Nat

VARIABLES
  bin,      \* the version at the install path
  prev,     \* the version at <install path>.prev
  unit,     \* the service file is installed
  proc,     \* the daemon: its version, the domain it loaded, port 25 bound
  config,   \* the domain in config.toml
  key,      \* the DKIM key pair: "half" is a private key without its public one
  keys,     \* history: private keys generated so far
  cert,     \* cert.pem exists
  user,     \* the system user aimx-catchall exists
  op,       \* the program at work, or the last one
  ops,      \* programs run
  crashes   \* interruptions and restarts

files == <<bin, prev>>
setupFiles == <<unit, config, key, keys, cert, user>>
vars == <<files, proc, setupFiles, op, ops, crashes>>

Kinds == {"none", "install", "setup", "upgrade", "uninstall"}
Places ==
  {"idle", "lay", "backup", "sh-stop", "sh-preserve", "sh-install", "sh-start",
   "inspect", "private", "public", "record", "cert", "config", "write", "dirs",
   "user", "unit", "restart", "wait",
   "fetch", "stop", "preserve", "install", "start", "ready",
   "remove", "restore", "resume", "teardown", "unlink"}
Results ==
  {"none", "done", "failed", "up to date", "preswap", "upgraded",
   "rolled back", "rollback failed"}

(* old and stale are history: the binaries when the program began. kept:   *)
(* the old one was moved to .prev.                                         *)
Op ==
  [kind: Kinds, at: Places, result: Results, tag: Tags \cup {None},
   old: Tags \cup {None}, stale: Tags \cup {None}, domain: Domain \cup {NoDomain},
   already: BOOLEAN, kept: BOOLEAN]

NoOp ==
  [kind |-> "none", at |-> "idle", result |-> "none", tag |-> None, old |-> None,
   stale |-> None, domain |-> NoDomain, already |-> FALSE, kept |-> FALSE]

Process == [tag: Tags \cup {None}, domain: Domain \cup {NoDomain, Torn}, ready: BOOLEAN]
NoProc == [tag |-> None, domain |-> NoDomain, ready |-> FALSE]

(* A host that never had aimx, or one whose operator made the user first.  *)
Init ==
  /\ bin = None /\ prev = None /\ unit = FALSE /\ proc = NoProc
  /\ config = NoDomain /\ key = "none" /\ keys = 0 /\ cert = FALSE /\ user \in BOOLEAN
  /\ op = NoOp /\ ops = 0 /\ crashes = 0

-----------------------------------------------------------------------------
(* The service.                                                            *)

(* What a start makes of the disk as it is; exec fails without a binary.   *)
Launched == IF bin = None THEN NoProc ELSE [tag |-> bin, domain |-> config, ready |-> FALSE]

(* systemctl start does nothing for a service that is active already.      *)
Start == proc' = IF proc.tag # None THEN proc ELSE Launched

(* The daemon has loaded its config and the private key, and listens.      *)
Binds ==
  /\ proc.tag # None /\ ~proc.ready
  /\ proc.domain \in Domain /\ key # "none"
  /\ proc' = [proc EXCEPT !.ready = TRUE]
  /\ UNCHANGED <<files, setupFiles, op, ops, crashes>>

(* It ends with an error: Restart=on-failure starts what is on disk, and   *)
(* gives up after StartLimitBurst.                                         *)
Dies ==
  /\ proc.tag # None
  /\ proc' \in {NoProc, IF unit THEN Launched ELSE NoProc}
  /\ UNCHANGED <<files, setupFiles, op, ops, crashes>>

(* Ctrl-C, a lost terminal, or the machine restarts.                       *)
Crash ==
  /\ op.at # "idle" /\ crashes < MaxCrashes /\ crashes' = crashes + 1
  /\ op' = [op EXCEPT !.at = "idle"]
  /\ proc' \in {proc, IF unit THEN Launched ELSE NoProc}
  /\ UNCHANGED <<files, setupFiles, ops>>

-----------------------------------------------------------------------------
(* Programs.                                                               *)

At(kind, place) == op.kind = kind /\ op.at = place
Goto(place) == op' = [op EXCEPT !.at = place]
Ended(o, result) == [o EXCEPT !.at = "idle", !.result = result]
End(result) == op' = Ended(op, result)

(* The step failed: it did nothing, and the program goes to place.         *)
FailTo(place) ==
  /\ Goto(place)
  /\ UNCHANGED <<files, proc, setupFiles>>
Fail(result) ==
  /\ End(result)
  /\ UNCHANGED <<files, proc, setupFiles>>

Begin(o) ==
  /\ op.at = "idle" /\ ops < MaxOps /\ ops' = ops + 1
  /\ op' = [o EXCEPT !.old = bin, !.stale = prev]
  /\ UNCHANGED <<files, proc, setupFiles, crashes>>

Quiet == UNCHANGED <<ops, crashes>>

-----------------------------------------------------------------------------
(* install.sh                                                              *)

(* An upgrade if there is a binary and setup got as far as the service     *)
(* file: of an older version, of the same with --force, and of one that is *)
(* not recognised, whatever it is; else, and when the operator wants setup *)
(* again, a fresh install. A later one that is recognised stays.           *)
Install(t) ==
  LET o == [NoOp EXCEPT !.kind = "install", !.tag = t]
  IN \/ (bin = None \/ ~unit) /\ Begin([o EXCEPT !.at = "lay"])
     \/ bin # None /\ unit /\ Begin([o EXCEPT !.at = "sh-stop"])
     \/ bin = t /\ unit /\ Begin([o EXCEPT !.at = "backup"])
     \/ bin > t /\ unit /\ Begin(Ended(o, "failed"))

(* install(1) unlinks what is there and writes the new file.               *)
Lay ==
  /\ At("install", "lay")
  /\ \/ bin # None /\ bin' = None /\ UNCHANGED <<op, prev, proc, setupFiles>>
     \/ bin = None /\ bin' = op.tag /\ Goto("backup") /\ UNCHANGED <<prev, proc, setupFiles>>
     \/ Fail("failed")
  /\ Quiet

(* backup_existing_config, and the script becomes aimx setup.              *)
Backup ==
  /\ At("install", "backup")
  /\ \/ /\ config' = NoDomain
        /\ \E d \in Domain :
             op' = [op EXCEPT !.kind = "setup", !.at = "inspect", !.domain = d]
        /\ UNCHANGED <<files, proc, unit, key, keys, cert, user>>
     \/ Fail("failed")
  /\ Quiet

(* A stop that fails ends the script under systemd: err exits the command  *)
(* substitution, and set -e the rest. Under OpenRC it is passed over, and  *)
(* the daemon runs on.                                                     *)
ShStop ==
  /\ At("install", "sh-stop")
  /\ proc' \in {NoProc, proc}
  /\ Goto("sh-preserve") \/ End("failed")
  /\ UNCHANGED <<files, setupFiles>>
  /\ Quiet

ShPreserve ==
  /\ At("install", "sh-preserve")
  /\ \/ prev' = bin /\ bin' = None /\ Goto("sh-install") /\ UNCHANGED <<proc, setupFiles>>
     \/ /\ End("failed") /\ (Start \/ UNCHANGED proc)
        /\ UNCHANGED <<files, setupFiles>>
  /\ Quiet

(* The mv back and the start after it may fail as well: || true.           *)
ShUndo ==
  /\ End("failed")
  /\ \/ bin' = prev /\ prev' = None
     \/ UNCHANGED files
  /\ \/ proc' = IF proc.tag # None THEN proc
                ELSE IF bin' = None THEN NoProc
                ELSE [tag |-> bin', domain |-> config, ready |-> FALSE]
     \/ UNCHANGED proc
  /\ UNCHANGED setupFiles

ShInstall ==
  /\ At("install", "sh-install")
  /\ \/ bin' = op.tag /\ Goto("sh-start") /\ UNCHANGED <<prev, proc, setupFiles>>
     \/ ShUndo
  /\ Quiet

ShStart ==
  /\ At("install", "sh-start")
  /\ \/ End("done") /\ Start /\ UNCHANGED <<files, setupFiles>>
     \/ ShUndo
  /\ Quiet

-----------------------------------------------------------------------------
(* aimx setup                                                              *)

Setup(d) ==
  /\ bin # None
  /\ Begin([NoOp EXCEPT !.kind = "setup", !.at = "inspect", !.domain = d])

(* Root, port 25, the probes; then is_already_configured. A service that   *)
(* init is about to start again does not count as running.                 *)
Inspect ==
  /\ At("setup", "inspect")
  /\ \/ /\ \E running \in {proc.ready, proc.tag # None} :
             op' = [op EXCEPT !.at = "private",
                              !.already = running /\ cert /\ key # "none"]
        /\ UNCHANGED <<files, proc, setupFiles>>
     \/ Fail("failed")
  /\ Quiet

(* generate_keypair, if there is no private key.                           *)
PrivateKey ==
  /\ At("setup", "private")
  /\ \/ key # "none" /\ Goto("record") /\ UNCHANGED <<key, keys>>
     \/ key = "none" /\ key' = "half" /\ keys' = keys + 1 /\ Goto("public")
     \/ key = "none" /\ Fail("failed")
  /\ UNCHANGED <<files, proc, unit, config, cert, user>>
  /\ Quiet

PublicKey ==
  /\ At("setup", "public")
  /\ \/ /\ key' = "whole" /\ Goto("record")
        /\ UNCHANGED <<files, proc, unit, config, keys, cert, user>>
     \/ Fail("failed")
  /\ Quiet

(* dns_record_value reads the public key; then the operator verifies DNS.  *)
Record ==
  /\ At("setup", "record")
  /\ IF key = "whole" THEN Goto("cert") ELSE End("failed")
  /\ UNCHANGED <<files, proc, setupFiles>>
  /\ Quiet

Certificate ==
  /\ At("setup", "cert")
  /\ \/ /\ cert' = (cert \/ ~op.already) /\ Goto("config")
        /\ UNCHANGED <<files, proc, unit, config, key, keys, user>>
     \/ ~op.already /\ ~cert /\ Fail("failed")
  /\ Quiet

(* finalize_setup: a new file is created and then written; an old one is   *)
(* loaded, and replaced at once when the domain is another.                *)
FinalizeConfig ==
  /\ At("setup", "config")
  /\ \/ config = Torn /\ End("failed") /\ UNCHANGED <<files, proc, setupFiles>>
     \/ /\ \/ config = NoDomain /\ config' = Torn /\ Goto("write")
           \/ config \in Domain /\ config' = op.domain /\ Goto("dirs")
        /\ UNCHANGED <<files, proc, unit, key, keys, cert, user>>
     \/ Fail("failed")
  /\ Quiet

WriteConfig ==
  /\ At("setup", "write")
  /\ \/ /\ config' = op.domain /\ Goto("dirs")
        /\ UNCHANGED <<files, proc, unit, key, keys, cert, user>>
     \/ Fail("failed")
  /\ Quiet

(* ensure_mailbox_dirs: the owner of the catchall must exist.              *)
MailboxDirs ==
  /\ At("setup", "dirs")
  /\ \/ /\ IF user THEN Goto("user") ELSE End("failed")
        /\ UNCHANGED <<files, proc, setupFiles>>
     \/ Fail("failed")
  /\ Quiet

(* ensure_catchall_user, and the README of the data directory.             *)
CatchallUser ==
  /\ At("setup", "user")
  /\ \/ /\ user' = TRUE
        /\ IF op.already THEN End("done") ELSE Goto("unit")
        /\ UNCHANGED <<files, proc, unit, config, key, keys, cert>>
     \/ Fail("failed")
  /\ Quiet

InstallService ==
  /\ At("setup", "unit")
  /\ \/ /\ unit' = TRUE /\ Goto("restart")
        /\ UNCHANGED <<files, proc, config, key, keys, cert, user>>
     \/ Fail("failed")
  /\ Quiet

(* A slip: the service is started, not restarted.                          *)
StartService ==
  /\ At("setup", "restart")
  /\ Start /\ Goto("wait")
  /\ UNCHANGED <<files, setupFiles>>
  /\ Quiet

RestartService ==
  /\ At("setup", "restart")
  /\ \/ proc' = Launched /\ Goto("wait") /\ UNCHANGED <<files, setupFiles>>
     \/ Fail("failed")
  /\ Quiet

(* wait_for_service_ready: five seconds                                    *)
WaitForService ==
  /\ At("setup", "wait")
  /\ \/ proc.ready /\ End("done") /\ UNCHANGED <<files, proc, setupFiles>>
     \/ ~proc.ready /\ Fail("failed")
  /\ Quiet

(* The operator does what the error of ensure_mailbox_dirs tells them.     *)
AddUser ==
  /\ op.at = "idle" /\ op.kind = "setup" /\ ~user
  /\ user' = TRUE
  /\ UNCHANGED <<files, proc, unit, config, key, keys, cert, op, ops, crashes>>

-----------------------------------------------------------------------------
(* aimx upgrade                                                            *)

(* The target is the tag asked for, or the latest; --force for the same.   *)
Upgrade(t) ==
  LET o == [NoOp EXCEPT !.kind = "upgrade", !.tag = t]
  IN /\ bin # None
     /\ \/ Begin([o EXCEPT !.at = "fetch"])
        \/ bin = t /\ Begin(Ended(o, "up to date"))

(* The manifest, the tarball, the staged binary; --dry-run ends before it. *)
Fetch ==
  /\ At("upgrade", "fetch")
  /\ \/ Goto("stop") /\ UNCHANGED <<files, proc, setupFiles>>
     \/ Fail("preswap")
  /\ Quiet

(* A slip: the old process is left running.                                *)
StopNothing ==
  /\ At("upgrade", "stop")
  /\ Goto("preserve") /\ UNCHANGED <<files, proc, setupFiles>>
  /\ Quiet

Stop ==
  /\ At("upgrade", "stop")
  /\ \/ /\ unit \/ proc.tag # None
        /\ proc' = NoProc /\ Goto("preserve") /\ UNCHANGED <<files, setupFiles>>
     \/ Fail("preswap")
  /\ Quiet

(* attempt_rollback starts with what is at .prev, if anything is.          *)
RollbackFrom == IF prev # None THEN "remove" ELSE "resume"

(* A slip: the old binary is deleted to make room.                         *)
PreserveNot ==
  /\ At("upgrade", "preserve")
  /\ bin' = None /\ op' = [op EXCEPT !.at = "install", !.kept = TRUE]
  /\ UNCHANGED <<prev, proc, setupFiles>>
  /\ Quiet

Preserve ==
  /\ At("upgrade", "preserve")
  /\ \/ /\ prev' = bin /\ bin' = None
        /\ op' = [op EXCEPT !.at = "install", !.kept = TRUE]
        /\ UNCHANGED <<proc, setupFiles>>
     \/ FailTo(RollbackFrom)
  /\ Quiet

(* install_binary: a sibling file, and a rename.                           *)
InstallNew ==
  /\ At("upgrade", "install")
  /\ \/ bin' = op.tag /\ Goto("start") /\ UNCHANGED <<prev, proc, setupFiles>>
     \/ FailTo(RollbackFrom)
  /\ Quiet

(* A slip: the old binary is thrown away before the new one has shown      *)
(* itself.                                                                 *)
StartNewTidy ==
  /\ At("upgrade", "start")
  /\ unit /\ Start /\ prev' = None /\ Goto("ready") /\ UNCHANGED <<bin, setupFiles>>
  /\ Quiet

StartNew ==
  /\ At("upgrade", "start")
  /\ \/ unit /\ Start /\ Goto("ready") /\ UNCHANGED <<files, setupFiles>>
     \/ FailTo(RollbackFrom)
  /\ Quiet

(* Slow, or broken: after five seconds it is all the same.                 *)
WaitForReady ==
  /\ At("upgrade", "ready")
  /\ \/ proc.ready /\ End("upgraded") /\ UNCHANGED <<files, proc, setupFiles>>
     \/ ~proc.ready /\ FailTo(RollbackFrom)
  /\ Quiet

RemoveNew ==
  /\ At("upgrade", "remove")
  /\ \/ bin' = None /\ Goto("restore") /\ UNCHANGED <<prev, proc, setupFiles>>
     \/ bin # None /\ Fail("rollback failed")
  /\ Quiet

Restore ==
  /\ At("upgrade", "restore")
  /\ \/ bin' = prev /\ prev' = None /\ Goto("resume") /\ UNCHANGED <<proc, setupFiles>>
     \/ Fail("rollback failed")
  /\ Quiet

Resume ==
  /\ At("upgrade", "resume")
  /\ \/ unit /\ Start /\ End("rolled back") /\ UNCHANGED <<files, setupFiles>>
     \/ Fail("rollback failed")
  /\ Quiet

-----------------------------------------------------------------------------
(* aimx uninstall                                                          *)

Uninstall ==
  /\ bin # None
  /\ Begin([NoOp EXCEPT !.kind = "uninstall", !.at = "teardown"])

(* uninstall_service_file: the result of the stop is ignored.              *)
Teardown ==
  /\ At("uninstall", "teardown")
  /\ \/ ~unit /\ Goto("unlink") /\ UNCHANGED <<files, proc, setupFiles>>
     \/ /\ unit /\ unit' = FALSE /\ Goto("unlink") /\ proc' \in {NoProc, proc}
        /\ UNCHANGED <<files, config, key, keys, cert, user>>
     \/ unit /\ proc' \in {NoProc, proc} /\ End("failed") /\ UNCHANGED <<files, setupFiles>>
  /\ Quiet

(* A binary that cannot be removed is only warned of.                      *)
Unlink ==
  /\ At("uninstall", "unlink")
  /\ bin' \in {None, bin} /\ End("done")
  /\ UNCHANGED <<prev, proc, setupFiles>>
  /\ Quiet

-----------------------------------------------------------------------------
InstallStep == Lay \/ Backup \/ ShStop \/ ShPreserve \/ ShInstall \/ ShStart

SetupStep ==
  \/ Inspect \/ PrivateKey \/ PublicKey \/ Record \/ Certificate
  \/ FinalizeConfig \/ WriteConfig \/ MailboxDirs \/ CatchallUser
  \/ InstallService \/ RestartService \/ WaitForService

UpgradeStep ==
  \/ Fetch \/ Stop \/ Preserve \/ InstallNew \/ StartNew \/ WaitForReady
  \/ RemoveNew \/ Restore \/ Resume

Next ==
  \/ \E t \in Tags : Install(t) \/ Upgrade(t)
  \/ \E d \in Domain : Setup(d)
  \/ Uninstall \/ Teardown \/ Unlink
  \/ InstallStep \/ SetupStep \/ UpgradeStep
  \/ AddUser \/ Binds \/ Dies \/ Crash

Spec == Init /\ [][Next]_vars

-----------------------------------------------------------------------------
(* Properties.                                                             *)

TypeOK ==
  /\ bin \in Tags \cup {None} /\ prev \in Tags \cup {None}
  /\ unit \in BOOLEAN /\ proc \in Process
  /\ config \in Domain \cup {NoDomain, Torn}
  /\ key \in {"none", "half", "whole"} /\ keys \in Nat
  /\ cert \in BOOLEAN /\ user \in BOOLEAN
  /\ op \in Op /\ ops \in 0..MaxOps /\ crashes \in 0..MaxCrashes

(* While the service file is there, so is a binary for it or its           *)
(* predecessor, wherever an upgrade, a rollback or an uninstall was        *)
(* interrupted: "leaves either the previous binary (in .prev) or the new   *)
(* one" (install_binary, preserve_previous_binary, uninstall::run).        *)
UnitHasBinary ==
  unit => bin # None \/ prev # None

(* An upgrade that has not succeeded still has the binary it began with,   *)
(* unless it failed to move it aside while an older .prev lay around       *)
(* (attempt_rollback takes that for the one it has just preserved).        *)
OldBinarySurvives ==
  op.kind = "upgrade" /\ op.result # "upgraded" /\ (op.kept \/ op.stale = None)
    => op.old \in {bin, prev}

(* The key published in DNS is never replaced, by no order of installs,    *)
(* setups, upgrades and uninstalls (generate_keypair without force).       *)
KeyKept ==
  keys <= 1

(* When upgrade says so the new version is installed and is the one that   *)
(* listens (stop, swap, start, wait in run_upgrade).                       *)
UpgradedRunsNew ==
  [][op'.result = "upgraded" /\ op.result # "upgraded"
       => proc'.ready /\ proc'.tag = op.tag /\ bin' = op.tag]_vars

(* When a setup that installs ends well, the daemon listens, for the       *)
(* domain asked for, and will again after a restart of the machine         *)
(* (install_and_verify_service). One that finds a complete installation is *)
(* left out: it writes config.toml, for another domain if it is asked to,  *)
(* and does not restart the service.                                       *)
SetupServes ==
  [][op.kind = "setup" /\ op'.result = "done" /\ op.result # "done" /\ ~op.already
       => /\ proc'.ready /\ proc'.domain = op.domain
          /\ unit' /\ config' = op.domain /\ bin' # None]_vars
=============================================================================
