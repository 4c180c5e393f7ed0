---------------------------- MODULE ConfigStore ----------------------------
(***************************************************************************)
(* The daemon's configuration and everything that races over it: the live  *)
(* snapshot (ConfigHandle), config.toml, the mailbox directories, the two  *)
(* locks, one slot per open client request, SIGHUP, the operator, and the  *)
(* death of the daemon.                                                    *)
(*                                                                         *)
(* A request is cut where another actor can get in between: at every load  *)
(* of the snapshot, every lock, every change of a file or directory, and   *)
(* the store of the new snapshot.                                          *)
(***************************************************************************)
EXTENDS ConfigModel, Naturals

CONSTANTS
  Slot,        \* client connections; each carries one request, as on the wire
  NoSlot,      \* "lock free"
  Ops,         \* the requests clients may make
  Starts,      \* the configurations the daemon may have been set up with
  MaxReloads,  \* bound on SIGHUPs
  MaxEdits,    \* bound on hand edits of config.toml
  MaxRmdirs,   \* bound on mailbox directories removed by the operator
  MaxCrashes   \* bound on deaths of the daemon

ASSUME SlotAssumption == NoSlot \notin Slot
ASSUME OpsAssumption == Ops \subseteq Request
ASSUME StartsAssumption == Starts \subseteq {c \in Config : Loadable(c)}
ASSUME BoundsAssumption ==
  /\ MaxReloads \in Nat /\ MaxEdits \in Nat
  /\ MaxRmdirs \in Nat /\ MaxCrashes \in Nat

VARIABLES
  mem,      \* the snapshot behind ConfigHandle
  disk,     \* config.toml
  up,       \* the daemon runs
  dirs,     \* owner of inbox/<m> and sent/<m>, NoOwner when missing
  mail,     \* the sides of each mailbox that hold some entry
  mbLock,   \* holder of each per-mailbox lock
  cfgLock,  \* holder of CONFIG_WRITE_LOCK
  op,       \* the request of each slot
  pc,       \* where its handler is
  target,   \* the mailbox whose lock it needs
  snap,     \* owner of the mailbox in the snapshot an INGEST or SEND works from
  made,     \* the sides a CREATE found missing
  next,     \* the configuration it is about to write
  reply,    \* its answer, "none" until then
  reload,   \* the SIGHUP handler: what it has read and not yet stored
  env,      \* how often each outside event has happened
  drift     \* history: snapshot and file were driven apart from outside

slotVars == <<op, pc, target, snap, made, next, reply>>
lockVars == <<mbLock, cfgLock>>
outside  == <<reload, env, drift>>
vars == <<mem, disk, up, dirs, mail, lockVars, slotVars, outside>>

Side == {"inbox", "sent"}

MailboxLocked == {"configLock", "deliver"}
ConfigLocked ==
  {"check", "mkdir", "mkdirSent", "chown", "chownSent", "authorize", "wipe", "count",
   "edit", "write", "store"}
Labels ==
  {"idle", "openDir", "mailboxLock", "transport", "persist", "done"}
    \cup MailboxLocked \cup ConfigLocked

Start(c) ==
  /\ mem = c
  /\ disk = c
  /\ up = TRUE
  \* what is configured was created: both directories exist and are the owner's
  /\ dirs = [m \in Mailbox |-> [s \in Side |-> c.owner[m]]]
  /\ mail = [m \in Mailbox |-> {}]
  /\ mbLock = [m \in Mailbox |-> NoSlot]
  /\ cfgLock = NoSlot
  /\ op \in [Slot -> Ops]
  /\ pc = [r \in Slot |-> "idle"]
  /\ target = [r \in Slot |-> op[r].mailbox]
  /\ snap = [r \in Slot |-> NoOwner]
  /\ made = [r \in Slot |-> {}]
  /\ next = [r \in Slot |-> EmptyConfig]
  /\ reply = [r \in Slot |-> "none"]
  /\ reload = [pending |-> FALSE, cfg |-> EmptyConfig]
  /\ env = [reloads |-> 0, edits |-> 0, rmdirs |-> 0, crashes |-> 0]
  /\ drift = FALSE

Init == \E c \in Starts : Start(c)

Goto(r, l) == pc' = [pc EXCEPT ![r] = l]

(* A slip: the outer guard is not dropped with the inner one.              *)
ReleaseInnerOnly(r) ==
  /\ UNCHANGED mbLock
  /\ cfgLock' = IF cfgLock = r THEN NoSlot ELSE cfgLock

Release(r) ==
  /\ mbLock' = [m \in Mailbox |-> IF mbLock[m] = r THEN NoSlot ELSE mbLock[m]]
  /\ cfgLock' = IF cfgLock = r THEN NoSlot ELSE cfgLock

(* The handler returns: the guards drop, the client gets its answer.       *)
Answer(r, a) ==
  /\ Goto(r, "done")
  /\ reply' = [reply EXCEPT ![r] = a]
  /\ Release(r)
  /\ target' = [target EXCEPT ![r] = op[r].mailbox]
  /\ snap' = [snap EXCEPT ![r] = NoOwner]
  /\ made' = [made EXCEPT ![r] = {}]
  /\ next' = [next EXCEPT ![r] = EmptyConfig]
  /\ UNCHANGED op

-----------------------------------------------------------------------------
(* Before the locks.                                                       *)

(* MAILBOX-CREATE and MAILBOX-DELETE look at no snapshot before they lock. *)
SubmitMailbox(r) ==
  /\ up /\ pc[r] = "idle"
  /\ op[r].verb \in {"CREATE", "DELETE"}
  /\ Goto(r, "mailboxLock")
  /\ UNCHANGED <<mem, disk, up, dirs, mail, lockVars, op, target, snap, made, next, reply, outside>>

(* The mailbox a hook verb is about, when it exists and is the caller's.   *)
HookAt(r, m) ==
  \/ op[r].verb = "HOOK-CREATE" /\ m = op[r].mailbox /\ Configured(mem, m)
  \/ op[r].verb = "HOOK-DELETE" /\ op[r].hook \in mem.hooks[m]
(* A slip: any caller may manage the hooks of any mailbox that exists.     *)
HookOfAnyone(r, m) == HookAt(r, m)
HookOfCaller(r, m) == HookAt(r, m) /\ Authorised(op[r].caller, mem, m)

(* HOOK-CREATE and HOOK-DELETE authorise against a snapshot taken before   *)
(* any lock; the mailbox found here is the one they lock and change.       *)
SubmitHook(r) ==
  /\ up /\ pc[r] = "idle"
  /\ op[r].verb \in {"HOOK-CREATE", "HOOK-DELETE"}
  /\ UNCHANGED <<mem, disk, up, dirs, mail, outside>>
  /\ \/ \E m \in Mailbox :
          /\ HookOfCaller(r, m)
          /\ target' = [target EXCEPT ![r] = m]
          /\ Goto(r, "mailboxLock")
          /\ UNCHANGED <<lockVars, op, snap, made, next, reply>>
     \/ /\ \A m \in Mailbox : ~HookOfCaller(r, m)
        /\ Answer(r, "refused")

(* An accepted message has been routed to a mailbox, a message to send has *)
(* been authorised for one, each against the snapshot of that moment.      *)
SubmitMail(r) ==
  /\ up /\ pc[r] = "idle"
  /\ UNCHANGED <<mem, disk, up, dirs, mail, outside>>
  /\ \/ /\ op[r].verb = "INGEST" /\ Configured(mem, op[r].mailbox)
        /\ Goto(r, "openDir")
        /\ snap' = [snap EXCEPT ![r] = mem.owner[op[r].mailbox]]
        /\ UNCHANGED <<lockVars, op, target, made, next, reply>>
     \/ /\ op[r].verb = "SEND" /\ Authorised(op[r].caller, mem, op[r].mailbox)
        /\ Goto(r, "transport")
        /\ snap' = [snap EXCEPT ![r] = mem.owner[op[r].mailbox]]
        /\ UNCHANGED <<lockVars, op, target, made, next, reply>>
     \/ /\ op[r].verb \in {"INGEST", "SEND"}
        /\ ~Legal(op[r], mem)
        /\ Answer(r, "refused")

SideOf(r) == IF op[r].verb = "SEND" THEN "sent" ELSE "inbox"

(* The remote MX takes the message, rejects it for good (both are kept in  *)
(* sent/), or fails for now (nothing is kept).                             *)
Transport(r) ==
  /\ pc[r] = "transport"
  /\ UNCHANGED <<mem, disk, up, dirs, mail, outside>>
  /\ \/ /\ Goto(r, "openDir")
        /\ UNCHANGED <<lockVars, op, target, snap, made, next, reply>>
     \/ Answer(r, "failed")

(* create_dir_all and chown of the mailbox directory, outside every lock.  *)
(* A SEND that cannot persist is answered by what the MX said.             *)
OpenDir(r) ==
  /\ pc[r] = "openDir"
  /\ UNCHANGED <<mem, disk, up, mail, outside>>
  /\ \/ /\ dirs' = [dirs EXCEPT ![target[r]][SideOf(r)] = snap[r]]
        /\ Goto(r, IF op[r].verb = "SEND" THEN "persist" ELSE "mailboxLock")
        /\ UNCHANGED <<lockVars, op, target, snap, made, next, reply>>
     \/ UNCHANGED dirs /\ \E a \in {"ok", "failed"} : Answer(r, a)

(* The message file appears, whole or cut short by an error, in a          *)
(* directory that is made again, as root, if it was removed meanwhile; or  *)
(* nothing is stored: an error, or an INGEST of a duplicate.  INGEST holds *)
(* the mailbox lock here, SEND does not.                                   *)
StoreMessage(r) ==
  /\ pc[r] \in {"deliver", "persist"}
  /\ UNCHANGED <<mem, disk, up, outside>>
  /\ \/ UNCHANGED <<dirs, mail>>
     \/ /\ mail' = [mail EXCEPT ![target[r]] = @ \cup {SideOf(r)}]
        /\ dirs' = [dirs EXCEPT ![target[r]][SideOf(r)] = IF @ = NoOwner THEN Root ELSE @]
  /\ \E a \in {"ok", "failed"} : Answer(r, a)

-----------------------------------------------------------------------------
(* The two locks, outer then inner.                                        *)

LockMailbox(r) ==
  /\ pc[r] = "mailboxLock"
  /\ mbLock[target[r]] = NoSlot
  /\ mbLock' = [mbLock EXCEPT ![target[r]] = r]
  /\ Goto(r, IF op[r].verb = "INGEST" THEN "deliver" ELSE "configLock")
  /\ UNCHANGED <<mem, disk, up, dirs, mail, cfgLock, op, target, snap, made, next, reply, outside>>

LockConfig(r) ==
  /\ pc[r] = "configLock"
  /\ cfgLock = NoSlot
  /\ cfgLock' = r
  /\ Goto(r, CASE op[r].verb = "CREATE" -> "check"
               [] op[r].verb = "DELETE" -> "authorize"
               [] OTHER -> "edit")
  /\ UNCHANGED <<mem, disk, up, dirs, mail, mbLock, op, target, snap, made, next, reply, outside>>

-----------------------------------------------------------------------------
(* MAILBOX-CREATE under both locks.                                        *)

(* Directories that are already there must belong to the new owner.        *)
(* A slip: the check is skipped.                                           *)
DirsUnchecked(m, a) == TRUE
DirsFree(m, a) == \A s \in Side : dirs[m][s] \in {NoOwner, a}

CheckCreate(r) ==
  /\ pc[r] = "check"
  /\ UNCHANGED <<mem, disk, up, dirs, mail, outside>>
  /\ LET m == target[r]
         a == OwnerOf(op[r])
     IN \/ Configured(mem, m) /\ Answer(r, "refused")
        \* the owner is not in passwd
        \/ ~Configured(mem, m) /\ Answer(r, "failed")
        \/ /\ ~Configured(mem, m)
           /\ ~DirsFree(m, a)
           /\ Answer(r, "failed")
        \/ /\ ~Configured(mem, m)
           /\ DirsFree(m, a)
           /\ Goto(r, "mkdir")
           /\ made' = [made EXCEPT ![r] = {s \in Side : dirs[m][s] = NoOwner}]
           /\ next' = [next EXCEPT ![r] = WithMailbox(mem, m, a)]
           /\ UNCHANGED <<lockVars, op, target, snap, reply>>

(* rmdir of directories this CREATE made; it fails on one with a file.     *)
RemoveMade(r, sides) ==
  dirs' = [dirs EXCEPT ![target[r]] =
             [s \in Side |-> IF s \in (sides \cap made[r]) \ mail[target[r]]
                               THEN NoOwner ELSE @[s]]]
(* A slip: only the inbox is taken back.                                   *)
RollBackInbox(r) == RemoveMade(r, {"inbox"})
RollBack(r) == RemoveMade(r, Side)

MakeMissing(r, s) ==
  dirs' = [dirs EXCEPT ![target[r]][s] = IF @ = NoOwner THEN Root ELSE @]

MakeInbox(r) ==
  /\ pc[r] = "mkdir"
  /\ UNCHANGED <<mem, disk, up, mail, outside>>
  /\ \/ /\ MakeMissing(r, "inbox")
        /\ Goto(r, "mkdirSent")
        /\ UNCHANGED <<lockVars, op, target, snap, made, next, reply>>
     \/ UNCHANGED dirs /\ Answer(r, "failed")

MakeSent(r) ==
  /\ pc[r] = "mkdirSent"
  /\ UNCHANGED <<mem, disk, up, mail, outside>>
  /\ \/ /\ MakeMissing(r, "sent")
        /\ Goto(r, "chown")
        /\ UNCHANGED <<lockVars, op, target, snap, made, next, reply>>
     \/ RemoveMade(r, {"inbox"}) /\ Answer(r, "failed")

(* chown of the inbox, then of the directory of sent mail.                 *)
ChownDir(r, s, here, there) ==
  /\ pc[r] = here
  /\ UNCHANGED <<mem, disk, up, mail, outside>>
  /\ \/ /\ dirs' = [dirs EXCEPT ![target[r]][s] = OwnerOf(op[r])]
        /\ Goto(r, there)
        /\ UNCHANGED <<lockVars, op, target, snap, made, next, reply>>
     \/ RollBack(r) /\ Answer(r, "failed")
ChownInbox(r) == ChownDir(r, "inbox", "chown", "chownSent")
ChownSent(r) == ChownDir(r, "sent", "chownSent", "write")

-----------------------------------------------------------------------------
(* MAILBOX-DELETE under both locks: three loads of the snapshot, of which  *)
(* the first two have nothing between them and the third follows the wipe. *)

AuthorizeDelete(r) ==
  /\ pc[r] = "authorize"
  /\ UNCHANGED <<mem, disk, up, dirs, mail, outside>>
  /\ \/ /\ Authorised(op[r].caller, mem, target[r])
        /\ Goto(r, IF op[r].force THEN "wipe" ELSE "count")
        /\ UNCHANGED <<lockVars, op, target, snap, made, next, reply>>
     \/ ~Authorised(op[r].caller, mem, target[r]) /\ Answer(r, "refused")

(* force=true: every entry of both directories goes; or the inbox, or the  *)
(* directory of sent mail after it, resists.                               *)
Wipe(r) ==
  /\ pc[r] = "wipe"
  /\ UNCHANGED <<mem, disk, up, dirs, outside>>
  /\ \/ /\ mail' = [mail EXCEPT ![target[r]] = {}]
        /\ Goto(r, "count")
        /\ UNCHANGED <<lockVars, op, target, snap, made, next, reply>>
     \/ /\ \E wiped \in SUBSET {"inbox"} : mail' = [mail EXCEPT ![target[r]] = @ \ wiped]
        /\ Answer(r, "failed")

CountFiles(r) ==
  /\ pc[r] = "count"
  /\ UNCHANGED <<mem, disk, up, dirs, mail, outside>>
  /\ \/ mail[target[r]] # {} /\ Answer(r, "failed")
     \/ /\ mail[target[r]] = {}
        /\ Goto(r, "write")
        /\ next' = [next EXCEPT ![r] = WithoutMailbox(mem, target[r])]
        /\ UNCHANGED <<lockVars, op, target, snap, made, reply>>

-----------------------------------------------------------------------------
(* HOOK-CREATE and HOOK-DELETE under both locks: the mailbox is looked up  *)
(* again, its owner is not, and validate_hooks judges the new configuration.*)

(* Slips: the new configuration is not validated; the stanza found before  *)
(* the locks is taken to be there still.                                   *)
EditUnvalidated(r) ==
  \/ op[r].verb = "HOOK-CREATE" /\ Configured(mem, target[r])
  \/ op[r].verb = "HOOK-DELETE" /\ op[r].hook \in mem.hooks[target[r]]
EditWithoutLookup(r) ==
  \/ op[r].verb = "HOOK-CREATE" /\ ~HookInUse(mem, op[r].hook)
  \/ op[r].verb = "HOOK-DELETE" /\ op[r].hook \in mem.hooks[target[r]]

EditAccepted(r) ==
  \/ /\ op[r].verb = "HOOK-CREATE" /\ Configured(mem, target[r])
     /\ ~HookInUse(mem, op[r].hook) /\ HooksUnique(mem)
  \/ op[r].verb = "HOOK-DELETE" /\ op[r].hook \in mem.hooks[target[r]]

EditHooks(r) ==
  /\ pc[r] = "edit"
  /\ UNCHANGED <<mem, disk, up, dirs, mail, outside>>
  /\ \/ ~EditAccepted(r) /\ Answer(r, "refused")
     \/ /\ EditAccepted(r)
        /\ Goto(r, "write")
        /\ next' = [next EXCEPT ![r] =
                      IF op[r].verb = "HOOK-CREATE"
                        THEN WithHook(mem, target[r], op[r].hook)
                        ELSE WithoutHook(mem, target[r], op[r].hook)]
        /\ UNCHANGED <<lockVars, op, target, snap, made, reply>>

-----------------------------------------------------------------------------
(* The end of all four: file first, then snapshot.                         *)

WriteConfig(r) ==
  /\ pc[r] = "write"
  /\ UNCHANGED <<mem, up, mail, outside>>
  /\ \/ /\ disk' = next[r]
        /\ Goto(r, "store")
        /\ UNCHANGED <<dirs, lockVars, op, target, snap, made, next, reply>>
     \/ /\ UNCHANGED disk
        /\ RollBack(r)
        /\ Answer(r, "failed")

StoreConfig(r) ==
  /\ pc[r] = "store"
  /\ mem' = next[r]
  /\ Answer(r, "ok")
  /\ UNCHANGED <<disk, up, dirs, mail, outside>>

-----------------------------------------------------------------------------
(* SIGHUP: reload_config loads the file, then stores it, under no lock.    *)

ReloadRead ==
  /\ up /\ ~reload.pending
  /\ env.reloads < MaxReloads
  /\ reload' = IF Loadable(disk) THEN [pending |-> TRUE, cfg |-> disk] ELSE reload
  /\ env' = [env EXCEPT !.reloads = @ + 1]
  /\ UNCHANGED <<mem, disk, up, dirs, mail, lockVars, slotVars, drift>>

ReloadStore ==
  /\ up /\ reload.pending
  /\ mem' = reload.cfg
  /\ reload' = [pending |-> FALSE, cfg |-> EmptyConfig]
  /\ drift' = ~(reload.cfg = disk /\ (cfgLock = NoSlot \/ ~drift))
  /\ UNCHANGED <<disk, up, dirs, mail, lockVars, slotVars, env>>

(* The operator adds, removes or hands over one stanza of config.toml; the *)
(* daemon does not notice before the next SIGHUP or start, and then may    *)
(* find the file invalid.                                                  *)
OperatorEdit ==
  /\ env.edits < MaxEdits
  /\ env' = [env EXCEPT !.edits = @ + 1]
  /\ \E m \in Mailbox, a \in Account \cup {NoOwner} : disk' = HandedOver(disk, m, a)
  /\ drift' = TRUE
  /\ UNCHANGED <<mem, up, dirs, mail, lockVars, slotVars, reload>>

(* The operator tidies up: rmdir of the empty directory of a mailbox that  *)
(* is no longer in the file.                                               *)
OperatorRmdir ==
  /\ env.rmdirs < MaxRmdirs
  /\ \E m \in Mailbox :
       /\ ~Configured(disk, m)
       /\ dirs' = [dirs EXCEPT ![m] = [s \in Side |-> IF s \in mail[m] THEN @[s] ELSE NoOwner]]
       /\ dirs' # dirs
  /\ env' = [env EXCEPT !.rmdirs = @ + 1]
  /\ UNCHANGED <<mem, disk, up, mail, lockVars, slotVars, reload, drift>>

(* The daemon dies: memory, locks and open requests go, files stay.        *)
Crash ==
  /\ up
  /\ env.crashes < MaxCrashes
  /\ env' = [env EXCEPT !.crashes = @ + 1]
  /\ up' = FALSE
  /\ mbLock' = [m \in Mailbox |-> NoSlot]
  /\ cfgLock' = NoSlot
  /\ LET open == {r \in Slot : pc[r] \notin {"idle", "done"}}
     IN /\ pc' = [r \in Slot |-> IF r \in open THEN "done" ELSE pc[r]]
        /\ reply' = [r \in Slot |-> IF r \in open THEN "lost" ELSE reply[r]]
  /\ target' = [r \in Slot |-> op[r].mailbox]
  /\ snap' = [r \in Slot |-> NoOwner]
  /\ made' = [r \in Slot |-> {}]
  /\ next' = [r \in Slot |-> EmptyConfig]
  /\ reload' = [pending |-> FALSE, cfg |-> EmptyConfig]
  /\ UNCHANGED <<mem, disk, dirs, mail, op, drift>>

Restart ==
  /\ ~up
  /\ Loadable(disk)
  /\ up' = TRUE
  /\ mem' = disk
  /\ drift' = FALSE
  /\ UNCHANGED <<disk, dirs, mail, lockVars, slotVars, reload, env>>

(* Nothing left to do: the clients are served, or cannot be because the    *)
(* daemon is down.                                                         *)
Quiescent ==
  /\ \A r \in Slot : pc[r] = "done" \/ (pc[r] = "idle" /\ ~up)
  /\ UNCHANGED vars

Handle(r) ==
  \/ OpenDir(r) \/ Transport(r) \/ StoreMessage(r)
  \/ LockMailbox(r) \/ LockConfig(r)
  \/ CheckCreate(r) \/ MakeInbox(r) \/ MakeSent(r) \/ ChownInbox(r) \/ ChownSent(r)
  \/ AuthorizeDelete(r) \/ Wipe(r) \/ CountFiles(r)
  \/ EditHooks(r) \/ WriteConfig(r) \/ StoreConfig(r)

Next ==
  \/ \E r \in Slot : SubmitMailbox(r) \/ SubmitHook(r) \/ SubmitMail(r) \/ Handle(r)
  \/ ReloadRead \/ ReloadStore \/ OperatorEdit \/ OperatorRmdir \/ Crash \/ Restart
  \/ Quiescent

(* The runtime keeps running every task it has started, and a running      *)
(* SIGHUP handler finishes.  Nobody has to submit, signal, edit or crash.  *)
Fairness == (\A r \in Slot : WF_vars(Handle(r))) /\ WF_vars(ReloadStore)

Spec == Init /\ [][Next]_vars
FairSpec == Spec /\ Fairness

-----------------------------------------------------------------------------
(* Properties.                                                             *)

(* Every variable keeps its type; in particular a stanza that is gone      *)
(* leaves no hooks behind in the snapshot, the file or a pending write.    *)
TypeOK ==
  /\ mem \in Config /\ disk \in Config
  /\ up \in BOOLEAN /\ drift \in BOOLEAN
  /\ dirs \in [Mailbox -> [Side -> Account \cup {NoOwner}]]
  /\ mail \in [Mailbox -> SUBSET Side]
  /\ mbLock \in [Mailbox -> Slot \cup {NoSlot}]
  /\ cfgLock \in Slot \cup {NoSlot}
  /\ op \in [Slot -> Ops]
  /\ pc \in [Slot -> Labels]
  /\ target \in [Slot -> Mailbox]
  /\ snap \in [Slot -> Account \cup {NoOwner}]
  /\ made \in [Slot -> SUBSET Side]
  /\ next \in [Slot -> Config]
  /\ reply \in [Slot -> {"none", "ok", "refused", "failed", "lost"}]
  /\ reload \in [pending: BOOLEAN, cfg: Config]
  /\ env \in [reloads: Nat, edits: Nat, rmdirs: Nat, crashes: Nat]

(* While nothing has driven them apart from outside (a hand edit, a SIGHUP *)
(* that stored a file read before a write), the live snapshot and          *)
(* config.toml differ at most by the one write that is between its rename  *)
(* and its ConfigHandle::store.                                            *)
SnapshotMatchesFile ==
  up /\ ~drift =>
    IF \E r \in Slot : pc[r] = "store"
      THEN \E r \in Slot : pc[r] = "store" /\ disk = next[r]
      ELSE mem = disk

(* Under the same condition no writer loses another's update: whenever a   *)
(* handler replaces config.toml, the new file is the file it replaced plus *)
(* what its own request means, nothing else.  This is what                 *)
(* CONFIG_WRITE_LOCK is for (load, modify, write and store as one).        *)
NoUpdateLost ==
  [][\A r \in Slot :
       pc[r] = "write" /\ pc'[r] = "store" /\ ~drift => Outcome(op[r], disk, disk')]_vars

(* The daemon never serves two hooks of one effective name, whatever the   *)
(* operator and two HOOK-CREATEs on different mailboxes (different outer   *)
(* locks) do: validate_hooks runs on the configuration that is written.    *)
ServedHooksUnique == HooksUnique(mem)

Undisturbed == env.rmdirs = 0 /\ env.edits = 0

(* A mailbox directory keeps its first owner for as long as the operator   *)
(* leaves directories and file alone: whoever is configured as owner, in   *)
(* the snapshot or on disk, owns both directories, across deletion and     *)
(* re-creation, roll-backs, stale reloads and crashes.                     *)
OwnersPinned ==
  Undisturbed =>
    \A c \in {mem, disk}, m \in Mailbox :
      Configured(c, m) => \A s \in Side : dirs[m][s] = c.owner[m]

(* ... and therefore a hook is only ever committed to, or removed from, a  *)
(* mailbox its requester owns at the moment of the commit, although the    *)
(* check was made on an earlier snapshot.                                  *)
HookCommitted(r) ==
  /\ pc[r] = "store" /\ pc'[r] = "done" /\ reply'[r] = "ok"
  /\ op[r].verb \in {"HOOK-CREATE", "HOOK-DELETE"}
HooksCommittedByOwner ==
  [][\A r \in Slot : HookCommitted(r) /\ Undisturbed =>
       Authorised(op[r].caller, disk, target[r])]_vars

(* A failed MAILBOX-CREATE leaves no half of a mailbox: without crashes    *)
(* and rmdirs, a mailbox nobody is working on has both directories, of one *)
(* owner, or neither.                                                      *)
NoHalfMailbox ==
  env.rmdirs = 0 /\ env.crashes = 0 /\ env.edits = 0 =>
    \A m \in Mailbox : mbLock[m] = NoSlot => dirs[m]["inbox"] = dirs[m]["sent"]

(* Every request a client has submitted is answered, or dies with the      *)
(* daemon: the two locks cannot deadlock.                                  *)
EveryRequestEnds ==
  \A r \in Slot : (pc[r] # "idle") ~> (pc[r] = "done")

(* The one below is what the lock's comment promises (mailbox_locks.rs:3)  *)
(* and a SIGHUP breaks: NoUpdateLost with SIGHUP as the only outside event.*)
NoUpdateLostToReload ==
  [][\A r \in Slot :
       pc[r] = "write" /\ pc'[r] = "store" => Outcome(op[r], disk, disk')]_vars
=============================================================================
