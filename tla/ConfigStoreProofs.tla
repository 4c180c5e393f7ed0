------------------------- MODULE ConfigStoreProofs -------------------------
(***************************************************************************)
(* Theorems about ConfigStore for every set of mailboxes, users, hooks,    *)
(* slots and requests, and every bound on the outside events.              *)
(***************************************************************************)
EXTENDS ConfigStore, TLAPS

(* What the operators on configurations return is a configuration.         *)
LEMMA StanzasClosed ==
  ASSUME NEW c \in Config, NEW m \in Mailbox, NEW a \in Account
  PROVE  /\ EmptyConfig \in Config
         /\ WithMailbox(c, m, a) \in Config
         /\ WithoutMailbox(c, m) \in Config
         /\ HandedOver(c, m, a) \in Config
         /\ HandedOver(c, m, NoOwner) \in Config
<1> USE AccountAssumption DEF Account
<1>1. EmptyConfig \in Config
  BY DEF Config, EmptyConfig
<1>2. WithMailbox(c, m, a) \in Config
  BY DEF Config, WithMailbox
<1>3. WithoutMailbox(c, m) \in Config
  BY DEF Config, WithoutMailbox
<1>4. HandedOver(c, m, a) \in Config
  BY DEF Config, HandedOver
<1>5. HandedOver(c, m, NoOwner) \in Config
  BY <1>3 DEF HandedOver
<1>6. QED
  BY <1>1, <1>2, <1>3, <1>4, <1>5

(* The same for the operators on hooks; a hook listed belongs to a         *)
(* configured mailbox.                                                     *)
LEMMA HooksClosed ==
  ASSUME NEW c \in Config, NEW m \in Mailbox, NEW h \in Hook
  PROVE  /\ Configured(c, m) => WithHook(c, m, h) \in Config
         /\ WithoutHook(c, m, h) \in Config
         /\ h \in c.hooks[m] => Configured(c, m)
<1>1. Configured(c, m) => WithHook(c, m, h) \in Config
  BY DEF Config, WithHook, Configured
<1>2. WithoutHook(c, m, h) \in Config
  BY DEF Config, WithoutHook
<1>3. h \in c.hooks[m] => Configured(c, m)
  BY DEF Config, Configured
<1>4. QED
  BY <1>1, <1>2, <1>3

-----------------------------------------------------------------------------
(* Types.                                                                  *)

(* The fields of the request at hand.                                      *)
LEMMA OpTypes ==
  ASSUME TypeOK, NEW r \in Slot
  PROVE  /\ op[r] \in Request
         /\ op[r].verb \in Verbs /\ op[r].mailbox \in Mailbox
         /\ op[r].caller \in Account /\ op[r].hook \in Hook
         /\ OwnerOf(op[r]) \in Account
BY OpsAssumption DEF TypeOK, Request, OwnerOf

(* The labels between computing a configuration and writing it.            *)
Making == {"mkdir", "mkdirSent", "chown", "chownSent", "write"}
USE DEF Making

(* What is left of TypeOK when a handler has moved: its own variables.     *)
SlotTypes ==
  /\ mbLock \in [Mailbox -> Slot \cup {NoSlot}]
  /\ cfgLock \in Slot \cup {NoSlot}
  /\ op \in [Slot -> Ops]
  /\ pc \in [Slot -> Labels]
  /\ target \in [Slot -> Mailbox]
  /\ snap \in [Slot -> Account \cup {NoOwner}]
  /\ made \in [Slot -> SUBSET Side]
  /\ next \in [Slot -> Config]
  /\ reply \in [Slot -> {"none", "ok", "refused", "failed", "lost"}]

(* A handler moves to one of its labels.                                   *)
LEMMA GotoTypes ==
  ASSUME TypeOK, NEW r \in Slot, NEW l \in Labels, Goto(r, l)
  PROVE  pc' \in [Slot -> Labels]
BY DEF TypeOK, Goto

(* Answering gives back both locks and clears the slot.                    *)
LEMMA AnswerTypes ==
  ASSUME TypeOK, NEW r \in Slot, NEW a \in {"ok", "refused", "failed"}, Answer(r, a)
  PROVE  SlotTypes'
<1>1. EmptyConfig \in Config
  BY DEF Config, EmptyConfig
<1>2. op[r].mailbox \in Mailbox
  BY OpTypes
<1>3. pc' \in [Slot -> Labels]
  BY GotoTypes DEF Answer, Labels
<1>4. /\ mbLock' \in [Mailbox -> Slot \cup {NoSlot}]
      /\ cfgLock' \in Slot \cup {NoSlot}
  BY DEF TypeOK, Answer, Release
<1>5. /\ op' \in [Slot -> Ops]
      /\ target' \in [Slot -> Mailbox]
      /\ snap' \in [Slot -> Account \cup {NoOwner}]
      /\ made' \in [Slot -> SUBSET Side]
      /\ next' \in [Slot -> Config]
      /\ reply' \in [Slot -> {"none", "ok", "refused", "failed", "lost"}]
  BY <1>1, <1>2 DEF TypeOK, Answer
<1>6. QED
  BY <1>3, <1>4, <1>5 DEF SlotTypes

(* Every start is well typed.                                              *)
LEMMA InitTypes == Init => TypeOK
<1> SUFFICES ASSUME NEW c \in Starts, Start(c)
             PROVE  TypeOK
  BY DEF Init
<1>1. c \in Config /\ EmptyConfig \in Config
  BY StartsAssumption DEF Config, EmptyConfig
<1>2. /\ dirs \in [Mailbox -> [Side -> Account \cup {NoOwner}]]
      /\ mail \in [Mailbox -> SUBSET Side]
  BY <1>1 DEF Start, Config
<1>3. SlotTypes
  BY <1>1, OpsAssumption DEF Start, SlotTypes, Request, Labels
<1>4. QED
  BY <1>1, <1>2, <1>3 DEF Start, SlotTypes, TypeOK

(* A request comes in.                                                     *)
LEMMA SubmitTypes ==
  ASSUME TypeOK, NEW r \in Slot, SubmitMailbox(r) \/ SubmitHook(r) \/ SubmitMail(r)
  PROVE  TypeOK'
<1> USE DEF Labels, MailboxLocked, ConfigLocked
<1>1. CASE SubmitMailbox(r)
  BY <1>1, GotoTypes DEF SubmitMailbox, TypeOK, lockVars, outside
<1>2. CASE SubmitHook(r)
  <2>1. CASE Answer(r, "refused")
    BY <1>2, <2>1, AnswerTypes DEF SubmitHook, TypeOK, SlotTypes, outside
  <2>2. CASE ~Answer(r, "refused")
    <3>1. PICK m \in Mailbox :
            /\ target' = [target EXCEPT ![r] = m]
            /\ Goto(r, "mailboxLock")
            /\ UNCHANGED <<lockVars, op, snap, made, next, reply>>
      BY <1>2, <2>2 DEF SubmitHook
    <3>2. pc' \in [Slot -> Labels] /\ target' \in [Slot -> Mailbox]
      BY <3>1, GotoTypes DEF TypeOK
    <3>3. QED
      BY <1>2, <3>1, <3>2 DEF SubmitHook, TypeOK, lockVars, outside
  <2>3. QED
    BY <2>1, <2>2
<1>3. CASE SubmitMail(r)
  <2>1. CASE Answer(r, "refused")
    BY <1>3, <2>1, AnswerTypes DEF SubmitMail, TypeOK, SlotTypes, outside
  <2>2. CASE ~Answer(r, "refused")
    <3>1. mem.owner[op[r].mailbox] \in Account \cup {NoOwner}
      BY OpTypes DEF TypeOK, Config
    <3>2. QED
      BY <1>3, <2>2, <3>1, GotoTypes DEF SubmitMail, TypeOK, lockVars, outside
  <2>3. QED
    BY <2>1, <2>2
<1>4. QED
  BY <1>1, <1>2, <1>3

(* The steps of INGEST and SEND.                                           *)
LEMMA MailTypes ==
  ASSUME TypeOK, NEW r \in Slot, Transport(r) \/ OpenDir(r) \/ StoreMessage(r)
  PROVE  TypeOK'
<1> USE DEF Labels, MailboxLocked, ConfigLocked, Side
<1>1. CASE Transport(r)
  <2>1. CASE Answer(r, "failed")
    BY <1>1, <2>1, AnswerTypes DEF Transport, TypeOK, SlotTypes, outside
  <2>2. CASE ~Answer(r, "failed")
    BY <1>1, <2>2, GotoTypes DEF Transport, TypeOK, lockVars, outside
  <2>3. QED
    BY <2>1, <2>2
<1>2. CASE OpenDir(r)
  <2>1. /\ target[r] \in Mailbox /\ SideOf(r) \in Side
        /\ snap[r] \in Account \cup {NoOwner}
    BY DEF TypeOK, SideOf
  <2>2. dirs' \in [Mailbox -> [Side -> Account \cup {NoOwner}]]
    <3>1. CASE UNCHANGED dirs
      BY <3>1 DEF TypeOK
    <3>2. CASE dirs' = [dirs EXCEPT ![target[r]][SideOf(r)] = snap[r]]
      BY <2>1, <3>2 DEF TypeOK
    <3>3. QED
      BY <1>2, <3>1, <3>2 DEF OpenDir
  <2>3. SlotTypes'
    <3>1. CASE \E a \in {"ok", "failed"} : Answer(r, a)
      BY <3>1, AnswerTypes
    <3>2. CASE ~\E a \in {"ok", "failed"} : Answer(r, a)
      <4>1. PICK l \in {"persist", "mailboxLock"} : Goto(r, l)
        BY <1>2, <3>2 DEF OpenDir
      <4>2. UNCHANGED <<lockVars, op, target, snap, made, next, reply>>
        BY <1>2, <3>2 DEF OpenDir
      <4>3. QED
        BY <4>1, <4>2, GotoTypes DEF TypeOK, SlotTypes, lockVars
    <3>3. QED
      BY <3>1, <3>2
  <2>4. QED
    BY <1>2, <2>2, <2>3 DEF OpenDir, TypeOK, SlotTypes, outside
<1>3. CASE StoreMessage(r)
  <2>1. SlotTypes'
    BY <1>3, AnswerTypes DEF StoreMessage
  <2>2. target[r] \in Mailbox /\ SideOf(r) \in Side /\ Root \in Account
    BY DEF TypeOK, SideOf, Account
  <2>3. mail' \in [Mailbox -> SUBSET Side]
    <3>1. CASE UNCHANGED mail
      BY <3>1 DEF TypeOK
    <3>2. CASE mail' = [mail EXCEPT ![target[r]] = @ \cup {SideOf(r)}]
      BY <2>2, <3>2 DEF TypeOK
    <3>3. QED
      BY <1>3, <3>1, <3>2 DEF StoreMessage
  <2>4. dirs' \in [Mailbox -> [Side -> Account \cup {NoOwner}]]
    <3>1. CASE UNCHANGED dirs
      BY <3>1 DEF TypeOK
    <3>2. CASE dirs' = [dirs EXCEPT ![target[r]][SideOf(r)] =
                          IF @ = NoOwner THEN Root ELSE @]
      BY <2>2, <3>2 DEF TypeOK
    <3>3. QED
      BY <1>3, <3>1, <3>2 DEF StoreMessage
  <2>5. QED
    BY <1>3, <2>1, <2>3, <2>4 DEF StoreMessage, TypeOK, SlotTypes, outside
<1>4. QED
  BY <1>1, <1>2, <1>3

(* Taking a mailbox lock or CONFIG_WRITE_LOCK.                             *)
LEMMA LockTypes ==
  ASSUME TypeOK, NEW r \in Slot, LockMailbox(r) \/ LockConfig(r)
  PROVE  TypeOK'
<1> USE DEF Labels, MailboxLocked, ConfigLocked
<1>1. CASE LockMailbox(r)
  BY <1>1, GotoTypes DEF LockMailbox, TypeOK, outside
<1>2. CASE LockConfig(r)
  BY <1>2, GotoTypes DEF LockConfig, TypeOK, outside
<1>3. QED
  BY <1>1, <1>2

(* The steps of MAILBOX-CREATE.                                            *)
LEMMA CreateTypes ==
  ASSUME TypeOK, NEW r \in Slot,
         CheckCreate(r) \/ MakeInbox(r) \/ MakeSent(r) \/ ChownInbox(r) \/ ChownSent(r)
  PROVE  TypeOK'
<1> USE DEF Labels, MailboxLocked, ConfigLocked
<1>1. target[r] \in Mailbox /\ Root \in Account /\ OwnerOf(op[r]) \in Account
  BY OpTypes DEF TypeOK, Account
<1>2. CASE CheckCreate(r)
  <2>1. SlotTypes'
    <3>1. CASE Answer(r, "refused") \/ Answer(r, "failed")
      BY <3>1, AnswerTypes
    <3>2. CASE ~Answer(r, "refused") /\ ~Answer(r, "failed")
      <4>1. WithMailbox(mem, target[r], OwnerOf(op[r])) \in Config
        BY <1>1, StanzasClosed DEF TypeOK
      <4>2. /\ Goto(r, "mkdir")
            /\ made' = [made EXCEPT ![r] = {s \in Side : dirs[target[r]][s] = NoOwner}]
            /\ next' = [next EXCEPT ![r] = WithMailbox(mem, target[r], OwnerOf(op[r]))]
            /\ UNCHANGED <<lockVars, op, target, snap, reply>>
        BY <1>2, <3>2 DEF CheckCreate
      <4>3. pc' \in [Slot -> Labels] /\ next' \in [Slot -> Config]
        BY <4>1, <4>2, GotoTypes DEF TypeOK
      <4>4. made' \in [Slot -> SUBSET Side]
        BY <4>2 DEF TypeOK
      <4>5. QED
        BY <4>2, <4>3, <4>4 DEF TypeOK, SlotTypes, lockVars
    <3>3. QED
      BY <3>1, <3>2
  <2>2. QED
    BY <1>2, <2>1 DEF CheckCreate, TypeOK, SlotTypes, outside
<1>3. CASE MakeInbox(r) \/ MakeSent(r)
  <2>1. SlotTypes'
    <3>1. CASE Answer(r, "failed")
      BY <3>1, AnswerTypes
    <3>2. CASE ~Answer(r, "failed")
      BY <1>3, <3>2, GotoTypes DEF MakeInbox, MakeSent, TypeOK, SlotTypes, lockVars
    <3>3. QED
      BY <3>1, <3>2
  <2>2. dirs' \in [Mailbox -> [Side -> Account \cup {NoOwner}]]
    <3>1. CASE UNCHANGED dirs
      BY <3>1 DEF TypeOK
    <3>2. ASSUME NEW s \in Side, MakeMissing(r, s)
          PROVE  dirs' \in [Mailbox -> [Side -> Account \cup {NoOwner}]]
      BY <1>1, <3>2 DEF MakeMissing, TypeOK
    <3>3. CASE RemoveMade(r, {"inbox"})
      BY <1>1, <3>3 DEF RemoveMade, TypeOK
    <3>4. QED
      BY <1>3, <3>1, <3>2, <3>3 DEF MakeInbox, MakeSent, Side
  <2>3. QED
    BY <1>3, <2>1, <2>2 DEF MakeInbox, MakeSent, TypeOK, SlotTypes, outside
<1>4. ASSUME NEW s \in Side, NEW here, NEW there \in {"chownSent", "write"},
             ChownDir(r, s, here, there)
      PROVE  TypeOK'
  <2>1. SlotTypes'
    <3>1. CASE Answer(r, "failed")
      BY <3>1, AnswerTypes
    <3>2. CASE ~Answer(r, "failed")
      BY <1>4, <3>2, GotoTypes DEF ChownDir, TypeOK, SlotTypes, lockVars
    <3>3. QED
      BY <3>1, <3>2
  <2>2. dirs' \in [Mailbox -> [Side -> Account \cup {NoOwner}]]
    <3>1. CASE dirs' = [dirs EXCEPT ![target[r]][s] = OwnerOf(op[r])]
      BY <1>1, <3>1 DEF TypeOK
    <3>2. CASE RollBack(r)
      BY <1>1, <3>2 DEF RollBack, RemoveMade, TypeOK
    <3>3. QED
      BY <1>4, <3>1, <3>2 DEF ChownDir
  <2>3. QED
    BY <1>4, <2>1, <2>2 DEF ChownDir, TypeOK, SlotTypes, outside
<1>5. QED
  BY <1>2, <1>3, <1>4 DEF ChownInbox, ChownSent, Side

(* The steps of MAILBOX-DELETE.                                            *)
LEMMA DeleteTypes ==
  ASSUME TypeOK, NEW r \in Slot,
         AuthorizeDelete(r) \/ Wipe(r) \/ CountFiles(r)
  PROVE  TypeOK'
<1> USE DEF Labels, MailboxLocked, ConfigLocked
<1>1. target[r] \in Mailbox /\ Root \in Account
  BY DEF TypeOK, Account
<1>2. CASE AuthorizeDelete(r)
  <2>1. SlotTypes'
    <3>1. CASE Answer(r, "refused")
      BY <3>1, AnswerTypes
    <3>2. CASE ~Answer(r, "refused")
      BY <1>2, <3>2, GotoTypes DEF AuthorizeDelete, TypeOK, SlotTypes, lockVars
    <3>3. QED
      BY <3>1, <3>2
  <2>2. QED
    BY <1>2, <2>1 DEF AuthorizeDelete, TypeOK, SlotTypes, outside
<1>3. CASE Wipe(r)
  <2>1. SlotTypes'
    <3>1. CASE Answer(r, "failed")
      BY <3>1, AnswerTypes
    <3>2. CASE ~Answer(r, "failed")
      BY <1>3, <3>2, GotoTypes DEF Wipe, TypeOK, SlotTypes, lockVars
    <3>3. QED
      BY <3>1, <3>2
  <2>2. mail' \in [Mailbox -> SUBSET Side]
    <3>1. PICK left : mail' = [mail EXCEPT ![target[r]] = left] /\ left \subseteq Side
      BY <1>1, <1>3 DEF Wipe, TypeOK
    <3>2. QED
      BY <3>1 DEF TypeOK
  <2>3. QED
    BY <1>3, <2>1, <2>2 DEF Wipe, TypeOK, SlotTypes, outside
<1>4. CASE CountFiles(r)
  <2>1. SlotTypes'
    <3>1. CASE Answer(r, "failed")
      BY <3>1, AnswerTypes
    <3>2. CASE ~Answer(r, "failed")
      <4>1. WithoutMailbox(mem, target[r]) \in Config
        BY <1>1 DEF TypeOK, Config, WithoutMailbox
      <4>2. Goto(r, "write") /\ next' = [next EXCEPT ![r] = WithoutMailbox(mem, target[r])]
        BY <1>4, <3>2 DEF CountFiles
      <4>3. pc' \in [Slot -> Labels] /\ next' \in [Slot -> Config]
        BY <4>1, <4>2, GotoTypes DEF TypeOK
      <4>4. QED
        BY <1>4, <3>2, <4>3 DEF CountFiles, TypeOK, SlotTypes, lockVars
    <3>3. QED
      BY <3>1, <3>2
  <2>2. QED
    BY <1>4, <2>1 DEF CountFiles, TypeOK, SlotTypes, outside
<1>5. QED
  BY <1>2, <1>3, <1>4

(* The edit of hooks, the rename over config.toml and the store.           *)
LEMMA CommitTypes ==
  ASSUME TypeOK, NEW r \in Slot,
         EditHooks(r) \/ WriteConfig(r) \/ StoreConfig(r)
  PROVE  TypeOK'
<1> USE DEF Labels, MailboxLocked, ConfigLocked
<1>1. target[r] \in Mailbox /\ Root \in Account /\ op[r].hook \in Hook
  BY OpTypes DEF TypeOK, Account
<1>2. CASE EditHooks(r)
  <2>1. SlotTypes'
    <3>1. CASE Answer(r, "refused")
      BY <3>1, AnswerTypes
    <3>2. CASE ~Answer(r, "refused")
      <4>1. next'[r] \in Config /\ next' = [next EXCEPT ![r] = next'[r]]
        BY <1>1, <1>2, <3>2, HooksClosed DEF EditHooks, EditAccepted, TypeOK
      <4>2. QED
        BY <1>2, <3>2, <4>1, GotoTypes DEF EditHooks, TypeOK, SlotTypes, lockVars
    <3>3. QED
      BY <3>1, <3>2
  <2>2. QED
    BY <1>2, <2>1 DEF EditHooks, TypeOK, SlotTypes, outside
<1>3. CASE WriteConfig(r)
  <2>1. SlotTypes'
    <3>1. CASE Answer(r, "failed")
      BY <3>1, AnswerTypes
    <3>2. CASE ~Answer(r, "failed")
      BY <1>3, <3>2, GotoTypes DEF WriteConfig, TypeOK, SlotTypes, lockVars
    <3>3. QED
      BY <3>1, <3>2
  <2>2. disk' \in Config
    BY <1>3 DEF WriteConfig, TypeOK
  <2>3. dirs' \in [Mailbox -> [Side -> Account \cup {NoOwner}]]
    <3>1. CASE UNCHANGED dirs
      BY <3>1 DEF TypeOK
    <3>2. CASE RollBack(r)
      BY <1>1, <3>2 DEF RollBack, RemoveMade, TypeOK
    <3>3. QED
      BY <1>3, <3>1, <3>2 DEF WriteConfig
  <2>4. QED
    BY <1>3, <2>1, <2>2, <2>3 DEF WriteConfig, TypeOK, SlotTypes, outside
<1>4. CASE StoreConfig(r)
  BY <1>4, AnswerTypes DEF StoreConfig, TypeOK, SlotTypes, outside
<1>5. QED
  BY <1>2, <1>3, <1>4

(* The counters of the outside events stay numbers.                        *)
LEMMA EnvCounts ==
  ASSUME NEW e \in [reloads: Nat, edits: Nat, rmdirs: Nat, crashes: Nat]
  PROVE  /\ [e EXCEPT !.reloads = @ + 1] \in [reloads: Nat, edits: Nat, rmdirs: Nat, crashes: Nat]
         /\ [e EXCEPT !.edits = @ + 1] \in [reloads: Nat, edits: Nat, rmdirs: Nat, crashes: Nat]
         /\ [e EXCEPT !.rmdirs = @ + 1] \in [reloads: Nat, edits: Nat, rmdirs: Nat, crashes: Nat]
         /\ [e EXCEPT !.crashes = @ + 1] \in [reloads: Nat, edits: Nat, rmdirs: Nat, crashes: Nat]
OBVIOUS

(* SIGHUP, the operator's edits and rmdir, and the death of the daemon.    *)
LEMMA OutsideTypes ==
  ASSUME TypeOK,
         ReloadRead \/ ReloadStore \/ OperatorEdit \/ OperatorRmdir \/ Crash \/ Restart
  PROVE  TypeOK'
<1> USE DEF Labels
<1>1. EmptyConfig \in Config
  BY DEF Config, EmptyConfig
<1>2. CASE ReloadRead
  <2>1. env' \in [reloads: Nat, edits: Nat, rmdirs: Nat, crashes: Nat]
    BY <1>2, EnvCounts DEF ReloadRead, TypeOK
  <2>2. reload' \in [pending: BOOLEAN, cfg: Config]
    BY <1>2 DEF ReloadRead, TypeOK
  <2>3. QED
    BY <1>2, <2>1, <2>2 DEF ReloadRead, TypeOK, lockVars, slotVars
<1>3. CASE ReloadStore
  BY <1>1, <1>3 DEF ReloadStore, TypeOK, lockVars, slotVars
<1>4. CASE OperatorEdit
  <2>1. disk' \in Config
    <3>1. PICK m \in Mailbox, a \in Account \cup {NoOwner} : disk' = HandedOver(disk, m, a)
      BY <1>4 DEF OperatorEdit
    <3>2. Root \in Account /\ disk \in Config
      BY DEF Account, TypeOK
    <3>3. CASE a = NoOwner
      BY <3>1, <3>2, <3>3, StanzasClosed
    <3>4. CASE a \in Account
      BY <3>1, <3>2, <3>4, StanzasClosed
    <3>5. QED
      BY <3>3, <3>4
  <2>2. env' \in [reloads: Nat, edits: Nat, rmdirs: Nat, crashes: Nat]
    BY <1>4, EnvCounts DEF OperatorEdit, TypeOK
  <2>3. QED
    BY <1>4, <2>1, <2>2 DEF OperatorEdit, TypeOK, lockVars, slotVars
<1>5. CASE OperatorRmdir
  <2>1. dirs' \in [Mailbox -> [Side -> Account \cup {NoOwner}]]
    BY <1>5 DEF OperatorRmdir, TypeOK
  <2>2. env' \in [reloads: Nat, edits: Nat, rmdirs: Nat, crashes: Nat]
    BY <1>5, EnvCounts DEF OperatorRmdir, TypeOK
  <2>3. QED
    BY <1>5, <2>1, <2>2 DEF OperatorRmdir, TypeOK, lockVars, slotVars
<1>6. CASE Crash
  <2>1. \A r \in Slot : op[r].mailbox \in Mailbox
    BY OpTypes
  <2>2. SlotTypes'
    BY <1>1, <1>6, <2>1 DEF Crash, TypeOK, SlotTypes
  <2>3. env' \in [reloads: Nat, edits: Nat, rmdirs: Nat, crashes: Nat]
    BY <1>6, EnvCounts DEF Crash, TypeOK
  <2>4. reload' \in [pending: BOOLEAN, cfg: Config]
    BY <1>1, <1>6 DEF Crash
  <2>5. QED
    BY <1>6, <2>2, <2>3, <2>4 DEF Crash, TypeOK, SlotTypes
<1>7. CASE Restart
  BY <1>7 DEF Restart, TypeOK, lockVars, slotVars
<1>8. QED
  BY <1>2, <1>3, <1>4, <1>5, <1>6, <1>7

(* Every variable of ConfigStore keeps its type, whatever the instance.    *)
THEOREM TypeCorrect == Spec => []TypeOK
<1>1. TypeOK /\ [Next]_vars => TypeOK'
  <2> SUFFICES ASSUME TypeOK, [Next]_vars
               PROVE  TypeOK'
    OBVIOUS
  <2>1. CASE UNCHANGED vars
    BY <2>1 DEF vars, lockVars, slotVars, outside, TypeOK
  <2>2. CASE Quiescent
    BY <2>1, <2>2 DEF Quiescent
  <2>3. CASE ReloadRead \/ ReloadStore \/ OperatorEdit \/ OperatorRmdir \/ Crash \/ Restart
    BY <2>3, OutsideTypes
  <2>4. ASSUME NEW r \in Slot,
               SubmitMailbox(r) \/ SubmitHook(r) \/ SubmitMail(r) \/ Handle(r)
        PROVE  TypeOK'
    BY <2>4, SubmitTypes, MailTypes, LockTypes, CreateTypes, DeleteTypes, CommitTypes
       DEF Handle
  <2>5. QED
    BY <2>1, <2>2, <2>3, <2>4 DEF Next
<1>2. QED
  BY <1>1, InitTypes, PTL DEF Spec

-----------------------------------------------------------------------------
(* The snapshot, the file and CONFIG_WRITE_LOCK.  Neither property below   *)
(* is inductive: that a handler writes the current file plus its own       *)
(* change follows from what it read under the lock and from nobody else    *)
(* having been there since.                                                *)

(* A handler is where its verb leads, and works on the mailbox it named;   *)
(* only HOOK-DELETE finds its mailbox in the snapshot.                     *)
HandlersOnTrack ==
  \A r \in Slot :
    /\ op[r].verb # "HOOK-DELETE" => target[r] = op[r].mailbox
    /\ pc[r] = "mailboxLock" => op[r].verb # "SEND"
    /\ pc[r] = "configLock" => op[r].verb \notin {"SEND", "INGEST"}
    /\ pc[r] \in {"check", "mkdir", "mkdirSent", "chown", "chownSent"} => op[r].verb = "CREATE"
    /\ pc[r] \in {"authorize", "wipe", "count"} => op[r].verb = "DELETE"
    /\ pc[r] = "edit" => op[r].verb \in {"HOOK-CREATE", "HOOK-DELETE"}

OneWriter == \A r \in Slot : pc[r] \in ConfigLocked => cfgLock = r

DownIsQuiet == ~up => \A r \in Slot : pc[r] \in {"idle", "done"}

(* What each handler between its load and its store knows of both copies.  *)
WriterKnows ==
  up /\ ~drift =>
    /\ \A r \in Slot : pc[r] \in Making => Outcome(op[r], mem, next[r])
    /\ \A r \in Slot : pc[r] = "store" => disk = next[r]
    /\ (\A r \in Slot : pc[r] # "store") => mem = disk

IInv == TypeOK /\ HandlersOnTrack /\ OneWriter /\ DownIsQuiet /\ WriterKnows

(* The inductive invariant holds of every start.                           *)
LEMMA InitIInv == Init => IInv
<1> SUFFICES ASSUME Init
             PROVE  IInv
  OBVIOUS
<1>1. TypeOK
  BY InitTypes
<1>2. HandlersOnTrack /\ OneWriter /\ DownIsQuiet /\ WriterKnows
  BY DEF Init, Start, HandlersOnTrack, OneWriter, DownIsQuiet, WriterKnows, ConfigLocked
<1>3. QED
  BY <1>1, <1>2 DEF IInv

(* An answer ends one handler and leaves every other where it was.         *)
LEMMA AnswerKeeps ==
  ASSUME IInv, NEW r \in Slot, NEW a, Answer(r, a)
  PROVE  /\ pc' = [pc EXCEPT ![r] = "done"] /\ op' = op
         /\ target' = [target EXCEPT ![r] = op[r].mailbox]
         /\ next' = [next EXCEPT ![r] = EmptyConfig]
         /\ HandlersOnTrack' /\ OneWriter'
<1>1. /\ pc' = [pc EXCEPT ![r] = "done"] /\ op' = op
      /\ target' = [target EXCEPT ![r] = op[r].mailbox]
      /\ next' = [next EXCEPT ![r] = EmptyConfig]
      /\ cfgLock' = IF cfgLock = r THEN NoSlot ELSE cfgLock
  BY DEF Answer, Goto, Release
<1>2. HandlersOnTrack'
  BY <1>1 DEF IInv, TypeOK, HandlersOnTrack
<1>3. OneWriter'
  BY <1>1 DEF IInv, TypeOK, OneWriter, ConfigLocked
<1>4. QED
  BY <1>1, <1>2, <1>3

(* A handler that answers without having touched snapshot or file.         *)
LEMMA GivesUp ==
  ASSUME IInv, NEW r \in Slot, NEW a, Answer(r, a),
         pc[r] # "store", UNCHANGED <<mem, disk, up, drift>>
  PROVE  HandlersOnTrack' /\ OneWriter' /\ DownIsQuiet' /\ WriterKnows'
<1>1. HandlersOnTrack' /\ OneWriter'
  BY AnswerKeeps
<1>2. DownIsQuiet'
  BY AnswerKeeps DEF IInv, TypeOK, DownIsQuiet
<1>3. /\ \A q \in Slot \ {r} : pc'[q] = pc[q] /\ next'[q] = next[q]
      /\ pc'[r] = "done" /\ op' = op
  BY AnswerKeeps DEF IInv, TypeOK
<1>4. WriterKnows'
  BY <1>3 DEF IInv, WriterKnows
<1>5. QED
  BY <1>1, <1>2, <1>4

(* A handler that moves on without having touched snapshot, file or the    *)
(* configuration it is to write, and without entering or leaving the       *)
(* critical section.                                                       *)
LEMMA MovesOn ==
  ASSUME IInv, NEW r \in Slot, NEW l \in Labels, Goto(r, l), up,
         UNCHANGED <<mem, disk, up, drift, cfgLock, op, next>>,
         l \in ConfigLocked => pc[r] \in ConfigLocked,
         pc[r] # "store" /\ l # "store",
         l \in Making => pc[r] \in Making
  PROVE  OneWriter' /\ DownIsQuiet' /\ WriterKnows'
<1>1. pc' = [pc EXCEPT ![r] = l]
  BY DEF Goto
<1>2. OneWriter'
  BY <1>1 DEF IInv, TypeOK, OneWriter
<1>3. DownIsQuiet' /\ WriterKnows'
  BY <1>1 DEF IInv, TypeOK, DownIsQuiet, WriterKnows
<1>4. QED
  BY <1>2, <1>3

(* A handler that, under both locks, has computed what it will write.      *)
LEMMA Prepares ==
  ASSUME IInv, NEW r \in Slot, NEW l \in {"mkdir", "write"}, Goto(r, l), up,
         UNCHANGED <<mem, disk, up, drift, cfgLock, op>>,
         pc[r] \in ConfigLocked \ {"store"},
         NEW d, next' = [next EXCEPT ![r] = d], Outcome(op[r], mem, d)
  PROVE  OneWriter' /\ DownIsQuiet' /\ WriterKnows'
<1>1. pc' = [pc EXCEPT ![r] = l]
  BY DEF Goto
<1>2. OneWriter' /\ DownIsQuiet'
  BY <1>1 DEF IInv, TypeOK, OneWriter, DownIsQuiet, ConfigLocked
<1>3. \A q \in Slot : q # r => pc'[q] = pc[q] /\ next'[q] = next[q]
  BY <1>1 DEF IInv, TypeOK
<1>4. pc'[r] = l /\ next'[r] = d
  BY <1>1 DEF IInv, TypeOK
<1>5. WriterKnows'
  BY <1>3, <1>4 DEF IInv, WriterKnows
<1>6. QED
  BY <1>2, <1>5

(* A handler at work means a running daemon.                               *)
LEMMA AtWorkUp ==
  ASSUME IInv, NEW r \in Slot, pc[r] \notin {"idle", "done"}
  PROVE  up
BY DEF IInv, DownIsQuiet

(* A request comes in: the handler holds no lock yet.                      *)
LEMMA SubmitKeeps ==
  ASSUME IInv, NEW r \in Slot, SubmitMailbox(r) \/ SubmitHook(r) \/ SubmitMail(r)
  PROVE  HandlersOnTrack' /\ OneWriter' /\ DownIsQuiet' /\ WriterKnows'
<1> USE DEF Labels, MailboxLocked, ConfigLocked
<1>1. CASE \E a : Answer(r, a)
  BY <1>1, GivesUp DEF SubmitMailbox, SubmitHook, SubmitMail, outside
<1>2. CASE ~\E a : Answer(r, a)
  <2>1. PICK l \in {"mailboxLock", "openDir", "transport"} : Goto(r, l)
    BY <1>2 DEF SubmitMailbox, SubmitHook, SubmitMail
  <2>2. UNCHANGED <<mem, disk, up, drift, cfgLock, op, next>> /\ up /\ pc[r] = "idle"
    BY <1>2 DEF SubmitMailbox, SubmitHook, SubmitMail, outside, lockVars
  <2>3. OneWriter' /\ DownIsQuiet' /\ WriterKnows'
    BY <2>1, <2>2, MovesOn
  <2>4. HandlersOnTrack'
    <3>1. pc' = [pc EXCEPT ![r] = l]
      BY <2>1 DEF Goto
    <3>2. CASE SubmitMailbox(r)
      BY <2>2, <3>1, <3>2 DEF SubmitMailbox, IInv, TypeOK, HandlersOnTrack
    <3>3. CASE SubmitHook(r)
      <4>1. PICK m \in Mailbox :
              /\ target' = [target EXCEPT ![r] = m]
              /\ op[r].verb = "HOOK-CREATE" => m = op[r].mailbox
              /\ op[r].verb \in {"HOOK-CREATE", "HOOK-DELETE"}
        BY <1>2, <3>3 DEF SubmitHook, HookOfCaller, HookAt
      <4>2. QED
        BY <2>2, <3>1, <4>1 DEF IInv, TypeOK, HandlersOnTrack
    <3>4. CASE SubmitMail(r)
      BY <1>2, <2>2, <3>1, <3>4 DEF SubmitMail, Goto, IInv, TypeOK, HandlersOnTrack
    <3>5. QED
      BY <3>2, <3>3, <3>4
  <2>5. QED
    BY <2>3, <2>4
<1>3. QED
  BY <1>1, <1>2

(* INGEST and SEND never hold CONFIG_WRITE_LOCK.                           *)
LEMMA MailKeeps ==
  ASSUME IInv, NEW r \in Slot, Transport(r) \/ OpenDir(r) \/ StoreMessage(r)
  PROVE  HandlersOnTrack' /\ OneWriter' /\ DownIsQuiet' /\ WriterKnows'
<1> USE DEF Labels, MailboxLocked, ConfigLocked
<1>1. CASE \E a : Answer(r, a)
  BY <1>1, GivesUp DEF Transport, OpenDir, StoreMessage, outside
<1>2. CASE ~\E a : Answer(r, a)
  <2>1. /\ UNCHANGED <<mem, disk, up, drift, cfgLock, op, next, target>>
        /\ pc[r] \in {"transport", "openDir"}
    BY <1>2 DEF Transport, OpenDir, StoreMessage, outside, lockVars
  <2>2. PICK l \in {"openDir", "persist", "mailboxLock"} :
          Goto(r, l) /\ (l = "mailboxLock" => op[r].verb # "SEND")
    BY <1>2 DEF Transport, OpenDir, StoreMessage
  <2>3. OneWriter' /\ DownIsQuiet' /\ WriterKnows'
    BY <2>1, <2>2, AtWorkUp, MovesOn
  <2>4. HandlersOnTrack'
    BY <2>1, <2>2 DEF Goto, IInv, TypeOK, HandlersOnTrack
  <2>5. QED
    BY <2>3, <2>4
<1>3. QED
  BY <1>1, <1>2

(* Taking CONFIG_WRITE_LOCK is where OneWriter could break: it was free,   *)
(* so nobody was inside.                                                   *)
LEMMA LockKeeps ==
  ASSUME IInv, NEW r \in Slot, LockMailbox(r) \/ LockConfig(r)
  PROVE  HandlersOnTrack' /\ OneWriter' /\ DownIsQuiet' /\ WriterKnows'
<1> USE DEF Labels, MailboxLocked, ConfigLocked
<1>1. up
  BY AtWorkUp DEF LockMailbox, LockConfig
<1>2. CASE LockMailbox(r)
  <2>1. /\ UNCHANGED <<mem, disk, up, drift, cfgLock, op, next, target>>
        /\ pc[r] = "mailboxLock"
    BY <1>2 DEF LockMailbox, outside
  <2>2. PICK l \in {"deliver", "configLock"} :
          Goto(r, l) /\ (l = "configLock" => op[r].verb # "INGEST")
    BY <1>2 DEF LockMailbox
  <2>3. OneWriter' /\ DownIsQuiet' /\ WriterKnows'
    BY <1>1, <2>1, <2>2, MovesOn
  <2>4. HandlersOnTrack'
    BY <2>1, <2>2 DEF Goto, IInv, TypeOK, HandlersOnTrack
  <2>5. QED
    BY <2>3, <2>4
<1>3. CASE LockConfig(r)
  <2>1. /\ UNCHANGED <<mem, disk, up, drift, op, next, target>>
        /\ pc[r] = "configLock" /\ cfgLock = NoSlot /\ cfgLock' = r
    BY <1>3 DEF LockConfig, outside
  <2>2. op[r].verb \in {"CREATE", "DELETE", "HOOK-CREATE", "HOOK-DELETE"}
    BY <2>1, OpTypes DEF IInv, HandlersOnTrack, Verbs
  <2>3. PICK l \in {"check", "authorize", "edit"} :
          /\ pc' = [pc EXCEPT ![r] = l]
          /\ l = "check" => op[r].verb = "CREATE"
          /\ l = "authorize" => op[r].verb = "DELETE"
          /\ l = "edit" => op[r].verb \in {"HOOK-CREATE", "HOOK-DELETE"}
    BY <1>3, <2>2 DEF LockConfig, Goto
  <2>4. \A q \in Slot : pc[q] \notin ConfigLocked
    BY <2>1, SlotAssumption DEF IInv, OneWriter
  <2>5. OneWriter'
    BY <2>1, <2>3, <2>4 DEF IInv, TypeOK, OneWriter
  <2>6. DownIsQuiet' /\ WriterKnows'
    BY <1>1, <2>1, <2>3 DEF IInv, TypeOK, DownIsQuiet, WriterKnows
  <2>7. HandlersOnTrack'
    BY <2>1, <2>3 DEF IInv, TypeOK, HandlersOnTrack
  <2>8. QED
    BY <2>5, <2>6, <2>7
<1>4. QED
  BY <1>2, <1>3

(* MAILBOX-CREATE has CONFIG_WRITE_LOCK from its load to its answer.       *)
LEMMA CreateKeeps ==
  ASSUME IInv, NEW r \in Slot, CheckCreate(r) \/ MakeInbox(r) \/ MakeSent(r) \/ ChownInbox(r) \/ ChownSent(r)
  PROVE  HandlersOnTrack' /\ OneWriter' /\ DownIsQuiet' /\ WriterKnows'
<1> USE DEF Labels, MailboxLocked, ConfigLocked
<1>1. up
  BY AtWorkUp DEF CheckCreate, MakeInbox, MakeSent, ChownInbox, ChownSent, ChownDir
<1>2. CASE \E a : Answer(r, a)
  BY <1>2, GivesUp DEF CheckCreate, MakeInbox, MakeSent, ChownInbox, ChownSent, ChownDir, outside
<1>3. CASE ~\E a : Answer(r, a)
  <2>1. /\ UNCHANGED <<mem, disk, up, drift, cfgLock, op, target>>
        /\ pc[r] \in {"check", "mkdir", "mkdirSent", "chown", "chownSent"}
    BY <1>3 DEF CheckCreate, MakeInbox, MakeSent, ChownInbox, ChownSent, ChownDir, outside, lockVars
  <2>2. op[r].verb = "CREATE" /\ target[r] = op[r].mailbox
    BY <2>1 DEF IInv, HandlersOnTrack
  <2>3. PICK l \in Making : Goto(r, l)
    BY <1>3 DEF CheckCreate, MakeInbox, MakeSent, ChownInbox, ChownSent, ChownDir
  <2>4. HandlersOnTrack'
    BY <2>1, <2>2, <2>3 DEF Goto, IInv, TypeOK, HandlersOnTrack
  <2>5. OneWriter' /\ DownIsQuiet' /\ WriterKnows'
    <3>1. CASE CheckCreate(r)
      <4>1. /\ Goto(r, "mkdir") /\ pc[r] = "check"
            /\ next' = [next EXCEPT ![r] = WithMailbox(mem, target[r], OwnerOf(op[r]))]
        BY <1>3, <3>1 DEF CheckCreate
      <4>2. Outcome(op[r], mem, WithMailbox(mem, target[r], OwnerOf(op[r])))
        BY <2>2 DEF Outcome
      <4>3. QED
        BY <1>1, <2>1, <4>1, <4>2, Prepares
    <3>2. CASE MakeInbox(r) \/ MakeSent(r) \/ ChownInbox(r) \/ ChownSent(r)
      <4>1. UNCHANGED next /\ pc[r] \in Making
        BY <1>3, <3>2 DEF MakeInbox, MakeSent, ChownInbox, ChownSent, ChownDir
      <4>2. QED
        BY <1>1, <2>1, <2>3, <4>1, MovesOn
    <3>3. QED
      BY <3>1, <3>2
  <2>6. QED
    BY <2>4, <2>5
<1>4. QED
  BY <1>2, <1>3

(* MAILBOX-DELETE likewise, from the load after its wipe or count.         *)
LEMMA DeleteKeeps ==
  ASSUME IInv, NEW r \in Slot, AuthorizeDelete(r) \/ Wipe(r) \/ CountFiles(r)
  PROVE  HandlersOnTrack' /\ OneWriter' /\ DownIsQuiet' /\ WriterKnows'
<1> USE DEF Labels, MailboxLocked, ConfigLocked
<1>1. up
  BY AtWorkUp DEF AuthorizeDelete, Wipe, CountFiles
<1>2. CASE \E a : Answer(r, a)
  BY <1>2, GivesUp DEF AuthorizeDelete, Wipe, CountFiles, outside
<1>3. CASE ~\E a : Answer(r, a)
  <2>1. /\ UNCHANGED <<mem, disk, up, drift, cfgLock, op, target>>
        /\ pc[r] \in {"authorize", "wipe", "count"}
    BY <1>3 DEF AuthorizeDelete, Wipe, CountFiles, outside, lockVars
  <2>2. op[r].verb = "DELETE" /\ target[r] = op[r].mailbox
    BY <2>1 DEF IInv, HandlersOnTrack
  <2>3. CASE CountFiles(r)
    <3>1. /\ Goto(r, "write")
          /\ next' = [next EXCEPT ![r] = WithoutMailbox(mem, target[r])]
      BY <1>3, <2>3 DEF CountFiles
    <3>2. Outcome(op[r], mem, WithoutMailbox(mem, target[r]))
      BY <2>2 DEF Outcome
    <3>3. OneWriter' /\ DownIsQuiet' /\ WriterKnows'
      BY <1>1, <2>1, <3>1, <3>2, Prepares
    <3>4. HandlersOnTrack'
      BY <2>1, <2>2, <3>1 DEF Goto, IInv, TypeOK, HandlersOnTrack
    <3>5. QED
      BY <3>3, <3>4
  <2>4. CASE AuthorizeDelete(r) \/ Wipe(r)
    <3>1. PICK l \in {"wipe", "count"} : Goto(r, l)
      BY <1>3, <2>4 DEF AuthorizeDelete, Wipe
    <3>2. UNCHANGED next
      BY <1>3, <2>4 DEF AuthorizeDelete, Wipe
    <3>3. OneWriter' /\ DownIsQuiet' /\ WriterKnows'
      BY <1>1, <2>1, <3>1, <3>2, MovesOn
    <3>4. HandlersOnTrack'
      BY <2>1, <2>2, <3>1 DEF Goto, IInv, TypeOK, HandlersOnTrack
    <3>5. QED
      BY <3>3, <3>4
  <2>5. QED
    BY <2>3, <2>4
<1>4. QED
  BY <1>2, <1>3

(* The hook verbs likewise.                                                *)
LEMMA EditKeeps ==
  ASSUME IInv, NEW r \in Slot, EditHooks(r)
  PROVE  HandlersOnTrack' /\ OneWriter' /\ DownIsQuiet' /\ WriterKnows'
<1> USE DEF Labels, MailboxLocked, ConfigLocked
<1>1. up /\ pc[r] = "edit"
  BY AtWorkUp DEF EditHooks
<1>2. CASE Answer(r, "refused")
  BY <1>1, <1>2, GivesUp DEF EditHooks, outside
<1>3. CASE ~Answer(r, "refused")
  <2> DEFINE d == IF op[r].verb = "HOOK-CREATE" THEN WithHook(mem, target[r], op[r].hook)
                  ELSE WithoutHook(mem, target[r], op[r].hook)
  <2>1. /\ UNCHANGED <<mem, disk, up, drift, cfgLock, op, target>>
        /\ Goto(r, "write")
        /\ next' = [next EXCEPT ![r] = d]
    BY <1>3 DEF EditHooks, outside, lockVars
  <2>2. \/ op[r].verb = "HOOK-CREATE" /\ target[r] = op[r].mailbox
        \/ /\ op[r].verb = "HOOK-DELETE"
           /\ target[r] \in Mailbox /\ op[r].hook \in mem.hooks[target[r]]
    BY <1>3 DEF EditHooks, EditAccepted, IInv, TypeOK, HandlersOnTrack
  <2>3. Outcome(op[r], mem, d)
    BY <2>2 DEF Outcome
  <2>4. OneWriter' /\ DownIsQuiet' /\ WriterKnows'
    <3> HIDE DEF d
    <3> QED
      BY <1>1, <2>1, <2>3, Prepares
  <2>5. HandlersOnTrack'
    BY <2>1 DEF Goto, IInv, TypeOK, HandlersOnTrack
  <2>6. QED
    BY <2>4, <2>5
<1>4. QED
  BY <1>2, <1>3

(* The rename and the store: between them the writer is the only one       *)
(* inside, so the file is what it wrote, and after them both copies agree. *)
LEMMA CommitKeeps ==
  ASSUME IInv, NEW r \in Slot, WriteConfig(r) \/ StoreConfig(r)
  PROVE  HandlersOnTrack' /\ OneWriter' /\ DownIsQuiet' /\ WriterKnows'
<1> USE DEF Labels, MailboxLocked, ConfigLocked
<1>1. up /\ pc[r] \in {"write", "store"}
  BY AtWorkUp DEF WriteConfig, StoreConfig
<1>2. \A q \in Slot : q # r => pc[q] \notin ConfigLocked
  BY <1>1 DEF IInv, OneWriter
<1>3. CASE WriteConfig(r)
  <2>1. CASE \E a : Answer(r, a)
    <3>1. UNCHANGED disk \/ ~UNCHANGED disk
      OBVIOUS
    <3>2. UNCHANGED <<mem, disk, up, drift>> /\ pc[r] # "store"
      BY <1>3, <2>1 DEF WriteConfig, outside, Answer, Goto, IInv, TypeOK
    <3>3. QED
      BY <2>1, <3>2, GivesUp
  <2>2. CASE ~\E a : Answer(r, a)
    <3>1. /\ UNCHANGED <<mem, up, drift, cfgLock, op, target, next>>
          /\ disk' = next[r]
          /\ pc' = [pc EXCEPT ![r] = "store"]
          /\ pc[r] = "write"
      BY <1>3, <2>2 DEF WriteConfig, outside, lockVars, Goto
    <3>2. HandlersOnTrack' /\ OneWriter' /\ DownIsQuiet'
      BY <1>1, <3>1 DEF IInv, TypeOK, HandlersOnTrack, OneWriter, DownIsQuiet
    <3>3. WriterKnows'
      BY <1>2, <3>1 DEF IInv, TypeOK, WriterKnows
    <3>4. QED
      BY <3>2, <3>3
  <2>3. QED
    BY <2>1, <2>2
<1>4. CASE StoreConfig(r)
  <2>1. /\ UNCHANGED <<disk, up, drift>> /\ mem' = next[r] /\ pc[r] = "store"
        /\ Answer(r, "ok")
    BY <1>4 DEF StoreConfig, outside
  <2>2. /\ pc' = [pc EXCEPT ![r] = "done"] /\ next' = [next EXCEPT ![r] = EmptyConfig]
        /\ HandlersOnTrack' /\ OneWriter'
    BY <2>1, AnswerKeeps
  <2>3. DownIsQuiet'
    BY <1>1, <2>1 DEF DownIsQuiet
  <2>4. WriterKnows'
    BY <1>2, <2>1, <2>2 DEF IInv, TypeOK, WriterKnows
  <2>5. QED
    BY <2>2, <2>3, <2>4
<1>5. QED
  BY <1>3, <1>4

(* SIGHUP, the operator and the death of the daemon: what drives the two   *)
(* copies apart sets drift.                                                *)
LEMMA OutsideKeeps ==
  ASSUME IInv,
         ReloadRead \/ ReloadStore \/ OperatorEdit \/ OperatorRmdir \/ Crash \/ Restart
  PROVE  HandlersOnTrack' /\ OneWriter' /\ DownIsQuiet' /\ WriterKnows'
<1> USE DEF ConfigLocked
<1>1. CASE ReloadRead \/ OperatorRmdir
  BY <1>1 DEF ReloadRead, OperatorRmdir, lockVars, slotVars, IInv, HandlersOnTrack,
              OneWriter, DownIsQuiet, WriterKnows
<1>2. CASE OperatorEdit
  BY <1>2 DEF OperatorEdit, lockVars, slotVars, IInv, HandlersOnTrack, OneWriter,
              DownIsQuiet, WriterKnows
<1>3. CASE ReloadStore
  <2>1. /\ UNCHANGED <<disk, up, cfgLock, op, pc, target, next>> /\ up
        /\ mem' = reload.cfg
        /\ ~drift' => mem' = disk /\ (cfgLock = NoSlot \/ ~drift)
    BY <1>3 DEF ReloadStore, lockVars, slotVars
  <2>2. HandlersOnTrack' /\ OneWriter' /\ DownIsQuiet'
    BY <2>1 DEF IInv, HandlersOnTrack, OneWriter, DownIsQuiet
  <2>3. cfgLock = NoSlot => \A q \in Slot : pc[q] \notin ConfigLocked
    BY SlotAssumption DEF IInv, OneWriter
  <2>4. ~drift /\ (\E q \in Slot : pc[q] = "store") =>
          \A q \in Slot : pc[q] \notin Making
    BY DEF IInv, OneWriter
  <2>5. WriterKnows'
    <3>1. CASE cfgLock = NoSlot
      BY <2>1, <2>3, <3>1 DEF WriterKnows
    <3>2. CASE cfgLock # NoSlot
      BY <2>1, <2>4, <3>2 DEF IInv, WriterKnows
    <3>3. QED
      BY <3>1, <3>2
  <2>6. QED
    BY <2>2, <2>5
<1>4. CASE Crash
  <2>1. ~up' /\ op' = op /\ \A r \in Slot : pc'[r] \in {"idle", "done"}
    BY <1>4 DEF Crash
  <2>2. \A r \in Slot : target'[r] = op[r].mailbox
    BY <1>4 DEF Crash
  <2>3. QED
    BY <2>1, <2>2 DEF HandlersOnTrack, OneWriter, DownIsQuiet, WriterKnows
<1>5. CASE Restart
  BY <1>5 DEF Restart, lockVars, slotVars, IInv, HandlersOnTrack, OneWriter,
              DownIsQuiet, WriterKnows
<1>6. QED
  BY <1>1, <1>2, <1>3, <1>4, <1>5

(* Every step preserves the invariant.                                     *)
LEMMA NextKeeps == IInv /\ [Next]_vars => IInv'
<1> SUFFICES ASSUME IInv, [Next]_vars
             PROVE  IInv'
  OBVIOUS
<1>1. CASE UNCHANGED vars
  BY <1>1 DEF vars, lockVars, slotVars, outside, IInv, TypeOK, HandlersOnTrack, OneWriter,
              DownIsQuiet, WriterKnows
<1>2. CASE Quiescent
  BY <1>1, <1>2 DEF Quiescent
<1>3. CASE ReloadRead \/ ReloadStore \/ OperatorEdit \/ OperatorRmdir \/ Crash \/ Restart
  BY <1>3, OutsideTypes, OutsideKeeps DEF IInv
<1>4. ASSUME NEW r \in Slot, SubmitMailbox(r) \/ SubmitHook(r) \/ SubmitMail(r)
      PROVE  IInv'
  BY <1>4, SubmitTypes, SubmitKeeps DEF IInv
<1>5. ASSUME NEW r \in Slot, Handle(r)
      PROVE  IInv'
  <2>1. TypeOK'
    BY <1>5, MailTypes, LockTypes, CreateTypes, DeleteTypes, CommitTypes DEF Handle, IInv
  <2>2. HandlersOnTrack' /\ OneWriter' /\ DownIsQuiet' /\ WriterKnows'
    BY <1>5, MailKeeps, LockKeeps, CreateKeeps, DeleteKeeps, EditKeeps, CommitKeeps
       DEF Handle
  <2>3. QED
    BY <2>1, <2>2 DEF IInv
<1>6. QED
  BY <1>1, <1>2, <1>3, <1>4, <1>5 DEF Next

(* Undisturbed from outside, the live snapshot and config.toml differ at   *)
(* most by the one write between its rename and its store.                 *)
THEOREM SnapshotCorrect == Spec => []SnapshotMatchesFile
<1>1. IInv => SnapshotMatchesFile
  BY DEF IInv, WriterKnows, SnapshotMatchesFile
<1>2. QED
  BY <1>1, InitIInv, NextKeeps, PTL DEF Spec

(* A step of a handler is a step of its own program counter only.          *)
LEMMA OwnCounter ==
  ASSUME NEW q \in Slot,
         SubmitMailbox(q) \/ SubmitHook(q) \/ SubmitMail(q) \/ Handle(q)
  PROVE  \E l : Goto(q, l)
<1>1. CASE SubmitMailbox(q) \/ SubmitHook(q) \/ SubmitMail(q)
  BY <1>1 DEF SubmitMailbox, SubmitHook, SubmitMail, Answer
<1>2. CASE Handle(q)
  <2>1. CASE Transport(q) \/ OpenDir(q) \/ StoreMessage(q) \/ LockMailbox(q) \/ LockConfig(q)
    BY <2>1 DEF Transport, OpenDir, StoreMessage, LockMailbox, LockConfig, Answer
  <2>2. CASE CheckCreate(q) \/ MakeInbox(q) \/ MakeSent(q) \/ ChownInbox(q) \/ ChownSent(q)
    BY <2>2 DEF CheckCreate, MakeInbox, MakeSent, ChownInbox, ChownSent, ChownDir, Answer
  <2>3. CASE AuthorizeDelete(q) \/ Wipe(q) \/ CountFiles(q)
    BY <2>3 DEF AuthorizeDelete, Wipe, CountFiles, Answer
  <2>4. CASE EditHooks(q) \/ WriteConfig(q) \/ StoreConfig(q)
    BY <2>4 DEF EditHooks, WriteConfig, StoreConfig, Answer
  <2>5. QED
    BY <1>2, <2>1, <2>2, <2>3, <2>4 DEF Handle
<1>3. QED
  BY <1>1, <1>2

(* A handler gets from its write to its store by WriteConfig alone.        *)
LEMMA OnlyWriteStores ==
  ASSUME TypeOK, Next, NEW r \in Slot, pc[r] = "write", pc'[r] = "store"
  PROVE  WriteConfig(r)
<1>1. \A q \in Slot : \A l : Goto(q, l) => q = r
  BY DEF Goto, TypeOK
<1>2. pc' # pc
  OBVIOUS
<1>3. PICK q \in Slot : SubmitMailbox(q) \/ SubmitHook(q) \/ SubmitMail(q) \/ Handle(q)
  BY <1>2 DEF Next, ReloadRead, ReloadStore, OperatorEdit, OperatorRmdir, Crash, Restart,
              Quiescent, vars, slotVars
<1>4. q = r
  BY <1>1, <1>3, OwnCounter
<1>5. QED
  BY <1>3, <1>4 DEF Handle, SubmitMailbox, SubmitHook, SubmitMail, Transport, OpenDir,
     StoreMessage, LockMailbox, LockConfig, CheckCreate, MakeInbox, MakeSent, ChownInbox, ChownSent, ChownDir,
     AuthorizeDelete, Wipe, CountFiles, EditHooks, StoreConfig

(* No interleaving of any number of handlers loses an update: what is      *)
(* renamed over config.toml is the file as it was plus the one request.    *)
THEOREM NoLostUpdates == Spec => NoUpdateLost
<1> DEFINE Replaces(r) == pc[r] = "write" /\ pc'[r] = "store" /\ ~drift
<1>1. ASSUME IInv, Next, NEW r \in Slot, Replaces(r)
      PROVE  Outcome(op[r], disk, disk')
  <2>1. up /\ \A q \in Slot : pc[q] # "store"
    BY <1>1, AtWorkUp DEF IInv, OneWriter, ConfigLocked
  <2>2. Outcome(op[r], mem, next[r]) /\ mem = disk
    BY <1>1, <2>1 DEF IInv, WriterKnows
  <2>3. WriteConfig(r)
    BY <1>1, OnlyWriteStores DEF IInv
  <2>4. disk' = next[r]
    BY <1>1, <2>3 DEF WriteConfig, Answer, Goto, IInv, TypeOK
  <2>5. QED
    BY <2>2, <2>4
<1>2. IInv /\ [Next]_vars => [\A r \in Slot : Replaces(r) => Outcome(op[r], disk, disk')]_vars
  BY <1>1
<1>3. QED
  BY <1>2, InitIInv, NextKeeps, PTL DEF Spec, NoUpdateLost

-----------------------------------------------------------------------------
(* Hook names.  A handler validates what it will write against the         *)
(* snapshot, and the reload and the start validate the file, so every copy *)
(* on its way to the snapshot is valid; the file itself need not be.       *)

(* The labels at which a handler carries the configuration it has computed. *)
Writing == Making \cup {"store"}

UniqueCopies ==
  /\ HooksUnique(mem)
  /\ HooksUnique(reload.cfg)
  /\ \A r \in Slot : pc[r] \in Writing => HooksUnique(next[r])

(* What a writer makes of a valid configuration is valid.                  *)
LEMMA UniqueClosed ==
  ASSUME NEW c \in Config, HooksUnique(c), NEW m \in Mailbox, NEW a \in Account,
         NEW h \in Hook
  PROVE  /\ HooksUnique(WithMailbox(c, m, a))
         /\ HooksUnique(WithoutMailbox(c, m))
         /\ HooksUnique(WithoutHook(c, m, h))
         /\ ~HookInUse(c, h) => HooksUnique(WithHook(c, m, h))
<1> USE DEF HooksUnique, Config
<1>1. HooksUnique(WithMailbox(c, m, a)) /\ HooksUnique(WithoutMailbox(c, m))
  BY DEF WithMailbox, WithoutMailbox
<1>2. HooksUnique(WithoutHook(c, m, h))
  BY DEF WithoutHook
<1>3. ~HookInUse(c, h) => HooksUnique(WithHook(c, m, h))
  BY DEF HookInUse, WithHook
<1>4. QED
  BY <1>1, <1>2, <1>3

(* A step of one handler leaves the variables of the others, the requests, *)
(* the reload and the outside events alone.                                *)
OnlyOwn(r) ==
  /\ UNCHANGED <<op, up, outside>>
  /\ \A q \in Slot \ {r} :
       /\ pc'[q] = pc[q] /\ target'[q] = target[q] /\ snap'[q] = snap[q]
       /\ made'[q] = made[q] /\ next'[q] = next[q] /\ reply'[q] = reply[q]

LEMMA AnswersOwn ==
  ASSUME TypeOK, NEW r \in Slot, NEW a, Answer(r, a), UNCHANGED <<up, outside>>
  PROVE  /\ OnlyOwn(r)
         /\ pc'[r] = "done" /\ reply'[r] = a /\ target'[r] = op[r].mailbox
         /\ snap'[r] = NoOwner /\ made'[r] = {} /\ next'[r] = EmptyConfig
BY DEF TypeOK, Answer, Goto, OnlyOwn

LEMMA HandlersOwn ==
  ASSUME TypeOK, NEW r \in Slot,
         SubmitMailbox(r) \/ SubmitHook(r) \/ SubmitMail(r) \/ Handle(r)
  PROVE  OnlyOwn(r)
<1>1. UNCHANGED <<op, up, outside>>
  <2>1. CASE SubmitMailbox(r) \/ SubmitHook(r) \/ SubmitMail(r)
    BY <2>1 DEF SubmitMailbox, SubmitHook, SubmitMail, Answer, outside
  <2>2. CASE Transport(r) \/ OpenDir(r) \/ StoreMessage(r) \/ LockMailbox(r) \/ LockConfig(r)
    BY <2>2 DEF Transport, OpenDir, StoreMessage, LockMailbox, LockConfig, Answer, outside
  <2>3. CASE CheckCreate(r) \/ MakeInbox(r) \/ MakeSent(r) \/ ChownInbox(r) \/ ChownSent(r)
    BY <2>3 DEF CheckCreate, MakeInbox, MakeSent, ChownInbox, ChownSent, ChownDir, Answer, outside
  <2>4. CASE AuthorizeDelete(r) \/ Wipe(r) \/ CountFiles(r)
    BY <2>4 DEF AuthorizeDelete, Wipe, CountFiles, Answer, outside
  <2>5. CASE EditHooks(r) \/ WriteConfig(r) \/ StoreConfig(r)
    BY <2>5 DEF EditHooks, WriteConfig, StoreConfig, Answer, outside
  <2>6. QED
    BY <2>1, <2>2, <2>3, <2>4, <2>5 DEF Handle
<1>2. CASE \E a : Answer(r, a)
  BY <1>1, <1>2, AnswersOwn
<1>3. CASE ~\E a : Answer(r, a)
  <2> SUFFICES \A q \in Slot \ {r} :
                 /\ pc'[q] = pc[q] /\ target'[q] = target[q] /\ snap'[q] = snap[q]
                 /\ made'[q] = made[q] /\ next'[q] = next[q] /\ reply'[q] = reply[q]
    BY <1>1 DEF OnlyOwn
  <2> USE <1>3 DEF Goto, TypeOK
  <2>1. CASE SubmitMailbox(r) \/ SubmitHook(r) \/ SubmitMail(r)
    BY <2>1 DEF SubmitMailbox, SubmitHook, SubmitMail
  <2>2. CASE Transport(r) \/ OpenDir(r) \/ StoreMessage(r) \/ LockMailbox(r) \/ LockConfig(r)
    BY <2>2 DEF Transport, OpenDir, StoreMessage, LockMailbox, LockConfig
  <2>3. CASE CheckCreate(r) \/ MakeInbox(r) \/ MakeSent(r) \/ ChownInbox(r) \/ ChownSent(r)
    BY <2>3 DEF CheckCreate, MakeInbox, MakeSent, ChownInbox, ChownSent, ChownDir
  <2>4. CASE AuthorizeDelete(r) \/ Wipe(r) \/ CountFiles(r)
    BY <2>4 DEF AuthorizeDelete, Wipe, CountFiles
  <2>5. CASE EditHooks(r) \/ WriteConfig(r) \/ StoreConfig(r)
    BY <2>5 DEF EditHooks, WriteConfig, StoreConfig
  <2>6. QED
    BY <2>1, <2>2, <2>3, <2>4, <2>5 DEF Handle
<1>4. QED
  BY <1>2, <1>3

(* Every step keeps the copies valid.                                      *)
LEMMA UniqueKeeps == TypeOK /\ UniqueCopies /\ [Next]_vars => UniqueCopies'
<1> SUFFICES ASSUME TypeOK, UniqueCopies, [Next]_vars
             PROVE  UniqueCopies'
  OBVIOUS
<1> USE DEF UniqueCopies
<1>1. CASE UNCHANGED vars
  BY <1>1 DEF vars, slotVars, outside
<1>2. CASE Quiescent
  BY <1>1, <1>2 DEF Quiescent
<1>3. HooksUnique(EmptyConfig)
  BY DEF HooksUnique, EmptyConfig
<1>4. CASE ReloadRead \/ ReloadStore \/ OperatorEdit \/ OperatorRmdir \/ Crash \/ Restart
  <2>1. CASE ReloadRead \/ ReloadStore
    BY <1>3, <2>1 DEF ReloadRead, ReloadStore, slotVars, Loadable
  <2>2. CASE OperatorEdit \/ OperatorRmdir
    BY <2>2 DEF OperatorEdit, OperatorRmdir, slotVars
  <2>3. CASE Crash
    BY <1>3, <2>3 DEF Crash, Writing
  <2>4. CASE Restart
    BY <2>4 DEF Restart, slotVars, Loadable
  <2>5. QED
    BY <1>4, <2>1, <2>2, <2>3, <2>4
<1>5. ASSUME NEW r \in Slot,
             SubmitMailbox(r) \/ SubmitHook(r) \/ SubmitMail(r) \/ Handle(r)
      PROVE  UniqueCopies'
  <2>1. OnlyOwn(r)
    BY <1>5, HandlersOwn
  <2>2. CASE UNCHANGED mem /\ (pc'[r] \in Writing => HooksUnique(next'[r]))
    BY <2>1, <2>2 DEF OnlyOwn, outside
  <2>3. CASE UNCHANGED mem /\ \E a : Answer(r, a)
    BY <2>2, <2>3 DEF Answer, Goto, TypeOK, Writing
  <2>4. CASE SubmitMailbox(r) \/ SubmitHook(r) \/ SubmitMail(r)
    BY <2>2, <2>3, <2>4 DEF SubmitMailbox, SubmitHook, SubmitMail, Goto, TypeOK, Writing
  <2>5. CASE Transport(r) \/ OpenDir(r) \/ StoreMessage(r) \/ LockMailbox(r) \/ LockConfig(r)
    BY <2>2, <2>3, <2>5 DEF Transport, OpenDir, StoreMessage, LockMailbox, LockConfig, Goto,
                            TypeOK, Writing
  <2>6. CASE CheckCreate(r) \/ MakeInbox(r) \/ MakeSent(r) \/ ChownInbox(r) \/ ChownSent(r)
    <3>1. HooksUnique(WithMailbox(mem, target[r], OwnerOf(op[r])))
      BY OpTypes, UniqueClosed DEF TypeOK
    <3>2. QED
      BY <2>2, <2>3, <2>6, <3>1 DEF CheckCreate, MakeInbox, MakeSent, ChownInbox, ChownSent, ChownDir, Goto, TypeOK, Writing
  <2>7. CASE AuthorizeDelete(r) \/ Wipe(r) \/ CountFiles(r)
    <3>1. HooksUnique(WithoutMailbox(mem, target[r]))
      BY OpTypes, UniqueClosed DEF TypeOK
    <3>2. QED
      BY <2>2, <2>3, <2>7, <3>1 DEF AuthorizeDelete, Wipe, CountFiles, Goto, TypeOK, Writing
  <2>8. CASE EditHooks(r)
    <3>1. /\ HooksUnique(WithoutHook(mem, target[r], op[r].hook))
          /\ ~HookInUse(mem, op[r].hook) =>
               HooksUnique(WithHook(mem, target[r], op[r].hook))
      BY OpTypes, UniqueClosed DEF TypeOK
    <3>2. QED
      BY <2>2, <2>3, <2>8, <3>1 DEF EditHooks, EditAccepted, Goto, TypeOK, Writing
  <2>9. CASE WriteConfig(r)
    BY <2>2, <2>3, <2>9 DEF WriteConfig, Goto, TypeOK, Writing
  <2>10. CASE StoreConfig(r)
    <3>1. HooksUnique(mem') /\ pc'[r] = "done"
      BY <2>10 DEF StoreConfig, Answer, Goto, TypeOK, Writing
    <3>2. QED
      BY <2>1, <3>1 DEF OnlyOwn, outside, Writing
  <2>11. QED
    BY <1>5, <2>4, <2>5, <2>6, <2>7, <2>8, <2>9, <2>10 DEF Handle
<1>6. QED
  BY <1>1, <1>2, <1>4, <1>5 DEF Next

(* No interleaving of HOOK-CREATEs, reloads, hand edits and restarts makes *)
(* the daemon serve two hooks of one effective name.                       *)
THEOREM HooksServedUnique == Spec => []ServedHooksUnique
<1>1. Init => UniqueCopies
  <2>1. HooksUnique(EmptyConfig)
    BY DEF HooksUnique, EmptyConfig
  <2>2. QED
    BY <2>1, StartsAssumption DEF Init, Start, UniqueCopies, Loadable, Writing
<1>2. UniqueCopies => ServedHooksUnique
  BY DEF UniqueCopies, ServedHooksUnique
<1>3. QED
  BY <1>1, <1>2, UniqueKeeps, TypeCorrect, PTL DEF Spec

-----------------------------------------------------------------------------
(* The directories.  Nothing in the code compares a directory's owner with *)
(* the configurations that lag behind (the file a SIGHUP has read, the     *)
(* snapshot an INGEST or a HOOK-CREATE was authorised by); what saves them *)
(* is that a claim on a mailbox, once it was true, stays true: CREATE      *)
(* looks at the directories, and takes back only those it found missing.   *)

(* What a handler carries with it between its steps.                       *)
Equipped ==
  \A r \in Slot :
    /\ pc[r] \in {"transport", "openDir", "deliver", "persist"} =>
         op[r].verb \in {"INGEST", "SEND"} /\ snap[r] # NoOwner
    /\ pc[r] = "mailboxLock" /\ op[r].verb = "INGEST" => snap[r] # NoOwner
    /\ pc[r] \in Making /\ op[r].verb = "CREATE" =>
         next[r].owner[target[r]] = OwnerOf(op[r])
    /\ pc[r] \in {"write", "store"} /\ op[r].verb \in {"HOOK-CREATE", "HOOK-DELETE"} =>
         Configured(next[r], target[r])
    /\ op[r].verb \notin {"INGEST", "SEND"} => snap[r] = NoOwner
    /\ op[r].verb # "CREATE" => made[r] = {}

(* Handler r takes m for a's: it routed a message or authorised a SEND by  *)
(* that, it authorised a's hook verb, or it is about to write it.  What a  *)
(* CREATE is about to write is no claim before it is in the file.          *)
Believes(r, m, a) ==
  \/ target[r] = m /\ snap[r] = a
  \/ /\ target[r] = m /\ op[r].verb \in {"HOOK-CREATE", "HOOK-DELETE"}
     /\ pc[r] \notin {"idle", "done"}
     /\ op[r].caller = a /\ a # Root
  \/ /\ pc[r] \in Writing /\ next[r].owner[m] = a
     /\ pc[r] = "store" \/ op[r].verb # "CREATE" \/ m # target[r]

Claim(m, a) ==
  \/ mem.owner[m] = a \/ disk.owner[m] = a \/ reload.cfg.owner[m] = a
  \/ \E r \in Slot : Believes(r, m, a)

(* Whoever is claimed to own m owns both its directories.                  *)
ClaimsHeld ==
  \A m \in Mailbox, a \in Account : Claim(m, a) => \A s \in Side : dirs[m][s] = a

(* While a CREATE makes, chowns and writes, nobody else takes its mailbox  *)
(* for another account's, and for anybody's if it found a directory        *)
(* missing; if it found both, both were its owner's already.               *)
CreatorSafe(r) ==
  /\ \A a \in Account : Claim(target[r], a) => a = OwnerOf(op[r]) /\ made[r] = {}
  /\ made[r] = {} => \A s \in Side : dirs[target[r]][s] = OwnerOf(op[r])
  /\ pc[r] \in {"chownSent", "write"} => dirs[target[r]]["inbox"] = OwnerOf(op[r])
  /\ pc[r] = "write" => dirs[target[r]]["sent"] = OwnerOf(op[r])
CreatorAlone ==
  \A r \in Slot : pc[r] \in Making /\ op[r].verb = "CREATE" => CreatorSafe(r)

MailInDirs == \A m \in Mailbox, s \in Side : s \in mail[m] => dirs[m][s] # NoOwner

DirsInv == ClaimsHeld /\ CreatorAlone /\ MailInDirs

(* No step of another's makes Equipped false.                              *)
LEMMA EquippedKeeps == IInv /\ Equipped /\ [Next]_vars => Equipped'
<1> SUFFICES ASSUME IInv, Equipped, [Next]_vars
             PROVE  Equipped'
  OBVIOUS
<1>1. CASE UNCHANGED vars
  BY <1>1 DEF vars, slotVars, Equipped
<1>2. CASE Quiescent
  BY <1>1, <1>2 DEF Quiescent
<1>3. CASE ReloadRead \/ ReloadStore \/ OperatorEdit \/ OperatorRmdir \/ Restart
  BY <1>3 DEF ReloadRead, ReloadStore, OperatorEdit, OperatorRmdir, Restart, slotVars, Equipped
<1>4. CASE Crash
  BY <1>4 DEF Crash, Equipped
<1>5. ASSUME NEW r \in Slot,
             SubmitMailbox(r) \/ SubmitHook(r) \/ SubmitMail(r) \/ Handle(r)
      PROVE  Equipped'
  <2> DEFINE E(q) ==
        /\ pc'[q] \in {"transport", "openDir", "deliver", "persist"} =>
             op'[q].verb \in {"INGEST", "SEND"} /\ snap'[q] # NoOwner
        /\ pc'[q] = "mailboxLock" /\ op'[q].verb = "INGEST" => snap'[q] # NoOwner
        /\ pc'[q] \in Making /\ op'[q].verb = "CREATE" =>
             next'[q].owner[target'[q]] = OwnerOf(op'[q])
        /\ pc'[q] \in {"write", "store"} /\ op'[q].verb \in {"HOOK-CREATE", "HOOK-DELETE"} =>
             Configured(next'[q], target'[q])
        /\ op'[q].verb \notin {"INGEST", "SEND"} => snap'[q] = NoOwner
        /\ op'[q].verb # "CREATE" => made'[q] = {}
  <2>1. OnlyOwn(r) /\ op'[r] = op[r]
    BY <1>5, HandlersOwn DEF IInv, OnlyOwn
  <2>2. \A q \in Slot \ {r} : E(q)
    BY <2>1 DEF OnlyOwn, Equipped
  <2>3. E(r)
    <3> USE <2>1 DEF Equipped, IInv, HandlersOnTrack, TypeOK, Goto
    <3>1. CASE \E a : Answer(r, a)
      BY <3>1 DEF Answer
    <3>2. CASE SubmitMailbox(r) \/ SubmitHook(r)
      BY <3>1, <3>2 DEF SubmitMailbox, SubmitHook
    <3>3. CASE SubmitMail(r)
      BY <3>1, <3>3 DEF SubmitMail, Configured, Authorised
    <3>4. CASE Transport(r) \/ OpenDir(r) \/ StoreMessage(r) \/ LockMailbox(r) \/ LockConfig(r)
      BY <3>1, <3>4 DEF Transport, OpenDir, StoreMessage, LockMailbox, LockConfig, lockVars
    <3>5. CASE CheckCreate(r)
      <4>1. CASE ~\E a : Answer(r, a)
        <5>1. /\ pc'[r] = "mkdir" /\ op[r].verb = "CREATE"
              /\ target'[r] = target[r] /\ target[r] \in Mailbox /\ snap'[r] = snap[r]
              /\ next'[r] = WithMailbox(mem, target[r], OwnerOf(op[r]))
          BY <3>5, <4>1 DEF CheckCreate
        <5>2. next'[r].owner[target[r]] = OwnerOf(op[r])
          BY <5>1 DEF WithMailbox, Config
        <5>3. QED
          BY <5>1, <5>2
      <4>2. QED
        BY <3>1, <4>1
    <3>6. CASE MakeInbox(r) \/ MakeSent(r) \/ ChownInbox(r) \/ ChownSent(r)
      BY <3>1, <3>6 DEF MakeInbox, MakeSent, ChownInbox, ChownSent, ChownDir
    <3>7. CASE AuthorizeDelete(r) \/ Wipe(r) \/ CountFiles(r)
      BY <3>1, <3>7 DEF AuthorizeDelete, Wipe, CountFiles
    <3>8. CASE EditHooks(r)
      <4>1. op[r].hook \in mem.hooks[target[r]] => Configured(mem, target[r])
        BY OpTypes, HooksClosed
      <4>2. QED
        BY <3>1, <3>8, <4>1 DEF EditHooks, EditAccepted, WithHook, WithoutHook, Configured
    <3>9. CASE WriteConfig(r) \/ StoreConfig(r)
      BY <3>1, <3>9 DEF WriteConfig, StoreConfig
    <3>10. QED
      BY <1>5, <3>2, <3>3, <3>4, <3>5, <3>6, <3>7, <3>8, <3>9 DEF Handle
  <2>4. QED
    BY <2>2, <2>3 DEF Equipped
<1>6. QED
  BY <1>1, <1>2, <1>3, <1>4, <1>5 DEF Next

(* Every claim was there before the step.                                  *)
Inherited == \A m \in Mailbox, a \in Account : Claim(m, a)' => Claim(m, a)

LEMMA OwnClaims ==
  ASSUME TypeOK, NEW r \in Slot, OnlyOwn(r),
         \A m \in Mailbox, a \in Account :
           mem'.owner[m] = a \/ disk'.owner[m] = a \/ Believes(r, m, a)' => Claim(m, a)
  PROVE  Inherited
<1> SUFFICES ASSUME NEW m \in Mailbox, NEW a \in Account, Claim(m, a)'
             PROVE  Claim(m, a)
  BY DEF Inherited
<1>1. CASE reload'.cfg.owner[m] = a
  BY <1>1 DEF OnlyOwn, outside, Claim
<1>2. ASSUME NEW q \in Slot \ {r}, Believes(q, m, a)'
      PROVE  Claim(m, a)
  <2>1. Believes(q, m, a)
    BY <1>2 DEF OnlyOwn, Believes
  <2>2. QED
    BY <2>1 DEF Claim
<1>3. QED
  BY <1>1, <1>2 DEF Claim

(* No handler's step makes up a claim, but the rename of a CREATE.         *)
LEMMA ClaimsInherited ==
  ASSUME IInv, Equipped, NEW r \in Slot,
         SubmitMailbox(r) \/ SubmitHook(r) \/ SubmitMail(r) \/ Handle(r),
         ~(WriteConfig(r) /\ op[r].verb = "CREATE" /\ pc'[r] = "store")
  PROVE  Inherited
<1>1. TypeOK /\ OnlyOwn(r) /\ op' = op
  BY HandlersOwn DEF IInv, OnlyOwn
<1>2. SUFFICES ASSUME NEW m \in Mailbox, NEW a \in Account
               PROVE  mem'.owner[m] = a \/ disk'.owner[m] = a \/ Believes(r, m, a)' =>
                        Claim(m, a)
  BY <1>1, OwnClaims
<1> USE <1>1, AccountAssumption DEF Writing
<1>3. CASE UNCHANGED <<mem, disk>> /\ (Believes(r, m, a)' => Claim(m, a))
  BY <1>3 DEF Claim
<1>4. CASE UNCHANGED <<mem, disk>> /\ \E b : Answer(r, b)
  BY <1>3, <1>4, AnswersOwn DEF Answer, Goto, TypeOK, Believes
<1>5. CASE UNCHANGED <<mem, disk>> /\ (Believes(r, m, a)' => Believes(r, m, a))
  BY <1>3, <1>5 DEF Claim
<1>6. CASE UNCHANGED <<mem, disk>> /\ (Believes(r, m, a)' => Believes(r, m, a) \/ mem.owner[m] = a)
  BY <1>3, <1>5, <1>6 DEF Claim
<1>7. CASE SubmitMailbox(r)
  BY <1>5, <1>7 DEF SubmitMailbox, Goto, TypeOK, Believes
<1>8. CASE SubmitHook(r)
  <2>1. CASE ~\E b : Answer(r, b)
    <3>1. PICK n \in Mailbox :
            Authorised(op[r].caller, mem, n) /\ target' = [target EXCEPT ![r] = n]
      BY <1>8, <2>1 DEF SubmitHook, HookOfCaller
    <3>2. /\ UNCHANGED <<mem, disk, snap, next>>
          /\ pc'[r] = "mailboxLock" /\ target'[r] = n
          /\ op[r].verb \in {"HOOK-CREATE", "HOOK-DELETE"}
      BY <1>8, <2>1, <3>1 DEF SubmitHook, Goto, TypeOK
    <3>3. snap'[r] # a
      BY <3>2 DEF Equipped
    <3>4. Believes(r, m, a)' => m = n /\ a = op[r].caller /\ a # Root
      BY <3>2, <3>3 DEF Believes
    <3>5. QED
      BY <1>6, <3>1, <3>2, <3>4 DEF Authorised
  <2>2. QED
    BY <1>4, <1>8, <2>1 DEF SubmitHook
<1>9. CASE SubmitMail(r)
  BY <1>4, <1>6, <1>9 DEF SubmitMail, Goto, TypeOK, Believes, IInv, HandlersOnTrack
<1>10. CASE Transport(r) \/ OpenDir(r) \/ StoreMessage(r) \/ LockMailbox(r) \/ LockConfig(r)
  BY <1>4, <1>5, <1>10 DEF Transport, OpenDir, StoreMessage, LockMailbox, LockConfig, Goto,
                           TypeOK, Believes
<1>11. CASE CheckCreate(r)
  <2>1. CASE ~\E b : Answer(r, b)
    <3>1. /\ UNCHANGED <<mem, disk, target, snap>> /\ op[r].verb = "CREATE" /\ pc'[r] = "mkdir"
          /\ next'[r] = WithMailbox(mem, target[r], OwnerOf(op[r]))
      BY <1>11, <2>1 DEF CheckCreate, Goto, TypeOK, IInv, HandlersOnTrack
    <3>2. m # target[r] => next'[r].owner[m] = mem.owner[m]
      BY <3>1 DEF WithMailbox, TypeOK, Config
    <3>3. QED
      BY <1>6, <3>1, <3>2 DEF Believes
  <2>2. QED
    BY <1>4, <1>11, <2>1 DEF CheckCreate
<1>12. CASE MakeInbox(r) \/ MakeSent(r) \/ ChownInbox(r) \/ ChownSent(r)
  BY <1>4, <1>5, <1>12 DEF MakeInbox, MakeSent, ChownInbox, ChownSent, ChownDir, Goto, TypeOK, Believes
<1>13. CASE AuthorizeDelete(r) \/ Wipe(r)
  BY <1>4, <1>5, <1>13 DEF AuthorizeDelete, Wipe, Goto, TypeOK, Believes
<1>14. CASE CountFiles(r)
  <2>1. CASE ~\E b : Answer(r, b)
    <3>1. /\ UNCHANGED <<mem, disk, target, snap>> /\ op[r].verb = "DELETE"
          /\ next'[r] = WithoutMailbox(mem, target[r])
      BY <1>14, <2>1 DEF CountFiles, TypeOK, IInv, HandlersOnTrack
    <3>2. next'[r].owner[m] \in {mem.owner[m], NoOwner}
      BY <3>1 DEF WithoutMailbox, TypeOK, Config
    <3>3. QED
      BY <1>6, <3>1, <3>2 DEF Believes
  <2>2. QED
    BY <1>4, <1>14, <2>1 DEF CountFiles
<1>15. CASE EditHooks(r)
  <2>1. CASE ~\E b : Answer(r, b)
    <3>1. /\ UNCHANGED <<mem, disk, target, snap>> /\ pc'[r] = "write" /\ pc[r] = "edit"
          /\ next'[r].owner = mem.owner
      BY <1>15, <2>1 DEF EditHooks, EditAccepted, Goto, TypeOK, WithHook, WithoutHook
    <3>2. QED
      BY <1>6, <3>1 DEF Believes
  <2>2. QED
    BY <1>4, <1>15, <2>1 DEF EditHooks
<1>16. CASE WriteConfig(r)
  <2>1. CASE \E b : Answer(r, b)
    <3>1. pc'[r] = "done"
      BY <2>1 DEF Answer, Goto, TypeOK
    <3>2. UNCHANGED <<mem, disk>>
      BY <1>16, <3>1 DEF WriteConfig, Goto, TypeOK
    <3>3. QED
      BY <1>4, <2>1, <3>2
  <2>2. CASE ~\E b : Answer(r, b)
    <3>1. /\ pc[r] = "write" /\ pc'[r] = "store" /\ op[r].verb # "CREATE"
          /\ UNCHANGED <<mem, target, snap, next>> /\ disk' = next[r]
      BY <1>16, <2>2 DEF WriteConfig, Goto, TypeOK
    <3>2. next[r].owner[m] = a => Believes(r, m, a)
      BY <3>1 DEF Believes
    <3>3. Believes(r, m, a)' => Believes(r, m, a)
      BY <3>1 DEF Believes
    <3>4. QED
      BY <3>1, <3>2, <3>3 DEF Claim
  <2>3. QED
    BY <2>1, <2>2
<1>17. CASE StoreConfig(r)
  <2>1. UNCHANGED disk /\ mem' = next[r] /\ pc[r] = "store" /\ ~Believes(r, m, a)'
    BY <1>17 DEF StoreConfig, Answer, Goto, TypeOK, Believes
  <2>2. next[r].owner[m] = a => Believes(r, m, a)
    BY <2>1 DEF Believes
  <2>3. QED
    BY <2>1, <2>2 DEF Claim
<1>18. QED
  BY <1>7, <1>8, <1>9, <1>10, <1>11, <1>12, <1>13, <1>14, <1>15, <1>16, <1>17 DEF Handle

(* Claims hold as long as no new one is made and the directories of a      *)
(* mailbox somebody claims do not change.                                  *)
LEMMA ClaimsStay ==
  ASSUME ClaimsHeld, Inherited,
         \A m \in Mailbox, a \in Account : Claim(m, a) => dirs'[m] = dirs[m]
  PROVE  ClaimsHeld'
BY DEF ClaimsHeld, Inherited

(* CONFIG_WRITE_LOCK: a writer at work is alone there.                     *)
LEMMA AloneInside ==
  ASSUME IInv, NEW r \in Slot, pc[r] \in ConfigLocked, OnlyOwn(r),
         NEW q \in Slot \ {r}
  PROVE  pc'[q] \notin ConfigLocked
BY DEF IInv, OneWriter, OnlyOwn

(* A CREATE at work is not disturbed by a step of another handler that     *)
(* makes up no claim and leaves the directories alone.                     *)
LEMMA CreatorStays ==
  ASSUME TypeOK, CreatorAlone, Inherited, UNCHANGED <<dirs, op>>,
         NEW q \in Slot, pc'[q] \in Making, op[q].verb = "CREATE",
         pc'[q] = pc[q], target'[q] = target[q], made'[q] = made[q]
  PROVE  CreatorSafe(q)'
<1>1. CreatorSafe(q) /\ target[q] \in Mailbox
  BY DEF CreatorAlone, TypeOK
<1>2. \A a \in Account : Claim(target[q], a)' => Claim(target[q], a)
  BY <1>1 DEF Inherited
<1>3. QED
  BY <1>1, <1>2 DEF CreatorSafe

(* A step that leaves directories alone, stores no mail and does not lead  *)
(* from one step of a CREATE to the next.                                  *)
LEMMA DirsStay ==
  ASSUME TypeOK, DirsInv, NEW r \in Slot, OnlyOwn(r), Inherited, UNCHANGED dirs,
         \A m \in Mailbox : mail'[m] \subseteq mail[m],
         ~(pc'[r] \in Making /\ op[r].verb = "CREATE")
  PROVE  DirsInv'
<1>1. ClaimsHeld'
  BY ClaimsStay DEF DirsInv
<1>2. CreatorAlone'
  <2> SUFFICES ASSUME NEW q \in Slot, pc'[q] \in Making, op'[q].verb = "CREATE"
               PROVE  CreatorSafe(q)'
    BY DEF CreatorAlone
  <2>1. /\ op' = op /\ q # r
        /\ target'[q] = target[q] /\ pc'[q] = pc[q] /\ made'[q] = made[q]
    BY DEF OnlyOwn
  <2>2. QED
    BY <2>1, CreatorStays DEF DirsInv
<1>3. MailInDirs'
  BY DEF DirsInv, MailInDirs
<1>4. QED
  BY <1>1, <1>2, <1>3 DEF DirsInv

(* A writer's step that changes the directories of its own mailbox only.   *)
(* What is left to show is about that mailbox.                             *)
LEMMA WriterDirs ==
  ASSUME IInv, DirsInv, NEW r \in Slot, pc[r] \in ConfigLocked, OnlyOwn(r), Inherited,
         UNCHANGED mail,
         \A m \in Mailbox \ {target[r]} : dirs'[m] = dirs[m],
         \A a \in Account : Claim(target[r], a) => \A s \in Side : dirs'[target[r]][s] = a,
         \A s \in Side : s \in mail[target[r]] => dirs'[target[r]][s] # NoOwner,
         pc'[r] \in Making /\ op[r].verb = "CREATE" => CreatorSafe(r)'
  PROVE  DirsInv'
<1> USE DEF DirsInv
<1>1. ClaimsHeld'
  <2> SUFFICES ASSUME NEW m \in Mailbox, NEW a \in Account, Claim(m, a)', NEW s \in Side
               PROVE  dirs'[m][s] = a
    BY DEF ClaimsHeld
  <2>1. Claim(m, a)
    BY DEF Inherited
  <2>2. QED
    BY <2>1 DEF ClaimsHeld
<1>2. CreatorAlone'
  <2> SUFFICES ASSUME NEW q \in Slot, pc'[q] \in Making, op'[q].verb = "CREATE"
               PROVE  CreatorSafe(q)'
    BY DEF CreatorAlone
  <2>1. q = r /\ op' = op
    BY AloneInside DEF ConfigLocked, OnlyOwn
  <2>2. QED
    BY <2>1
<1>3. MailInDirs'
  BY DEF MailInDirs
<1>4. QED
  BY <1>1, <1>2, <1>3

(* A CREATE that gives up takes back what it made, and nothing else.       *)
LEMMA TakeBack ==
  ASSUME IInv, Equipped, DirsInv, NEW r \in Slot, OnlyOwn(r), Inherited,
         pc[r] \in Making, NEW a, Answer(r, a), UNCHANGED mail,
         NEW sides, RemoveMade(r, sides)
  PROVE  DirsInv'
<1> DEFINE t == target[r]
<1>1. /\ t \in Mailbox /\ dirs[t] \in [Side -> Account \cup {NoOwner}]
      /\ dirs \in [Mailbox -> [Side -> Account \cup {NoOwner}]]
  BY DEF IInv, TypeOK
<1>2. pc'[r] = "done"
  BY DEF Answer, Goto, IInv, TypeOK
<1>3. /\ \A m \in Mailbox \ {t} : dirs'[m] = dirs[m]
      /\ \A s \in Side : dirs'[t][s] = IF s \in (sides \cap made[r]) \ mail[t] THEN NoOwner
                                       ELSE dirs[t][s]
  BY <1>1 DEF RemoveMade
<1>4. \A b \in Account : Claim(t, b) => \A s \in Side : dirs'[t][s] = b
  <2>1. CASE made[r] = {}
    BY <1>1, <1>3, <2>1 DEF DirsInv, ClaimsHeld
  <2>2. CASE made[r] # {}
    <3>1. op[r].verb = "CREATE"
      BY <2>2 DEF Equipped
    <3>2. QED
      BY <2>2, <3>1 DEF DirsInv, CreatorAlone, CreatorSafe
  <2>3. QED
    BY <2>1, <2>2
<1>5. \A s \in Side : s \in mail[t] => dirs'[t][s] # NoOwner
  BY <1>1, <1>3 DEF DirsInv, MailInDirs
<1>6. QED
  BY <1>2, <1>3, <1>4, <1>5, WriterDirs DEF ConfigLocked

(* MAILBOX-CREATE: what its check of the directories buys.                 *)
LEMMA CreateDirs ==
  ASSUME IInv, Equipped, DirsInv, NEW r \in Slot,
         CheckCreate(r) \/ MakeInbox(r) \/ MakeSent(r) \/ ChownInbox(r) \/ ChownSent(r)
  PROVE  DirsInv'
<1> DEFINE t == target[r]
           w == OwnerOf(op[r])
<1>1. OnlyOwn(r) /\ Inherited
  <2>1. Handle(r)
    BY DEF Handle
  <2>2. ~WriteConfig(r)
    BY DEF CheckCreate, MakeInbox, MakeSent, ChownInbox, ChownSent, ChownDir, WriteConfig
  <2>3. QED
    BY <2>1, <2>2, HandlersOwn, ClaimsInherited DEF IInv
<1>2. /\ t \in Mailbox /\ dirs[t] \in [Side -> Account \cup {NoOwner}]
      /\ dirs \in [Mailbox -> [Side -> Account \cup {NoOwner}]]
      /\ w \in Account /\ Root \in Account /\ NoOwner \notin Account
      /\ UNCHANGED <<mail, op>> /\ pc[r] \in ConfigLocked /\ op[r].verb = "CREATE"
  BY <1>1, OpTypes, AccountAssumption DEF IInv, TypeOK, HandlersOnTrack, CheckCreate, MakeInbox,
     MakeSent, ChownInbox, ChownSent, ChownDir, ConfigLocked, Account, OnlyOwn
<1>3. /\ \A a \in Account : Claim(t, a) => \A s \in Side : dirs[t][s] = a
      /\ \A s \in Side : s \in mail[t] => dirs[t][s] # NoOwner
      /\ pc[r] \in Making => CreatorSafe(r)
  BY <1>2 DEF DirsInv, ClaimsHeld, MailInDirs, CreatorAlone
<1>4. target' = target => \A a \in Account : Claim(target[r], a)' => Claim(target[r], a)
  BY <1>1, <1>2 DEF Inherited
<1>5. CASE UNCHANGED dirs /\ \E a : Answer(r, a)
  <2>1. pc'[r] = "done"
    BY <1>5 DEF Answer, Goto, IInv, TypeOK
  <2>2. QED
    BY <1>1, <1>2, <1>5, <2>1, DirsStay DEF IInv
<1>6. CASE CheckCreate(r) /\ ~\E a : Answer(r, a)
  <2>1. /\ UNCHANGED <<dirs, target>> /\ DirsFree(t, w) /\ pc'[r] = "mkdir"
        /\ made'[r] = {s \in Side : dirs[t][s] = NoOwner}
    BY <1>6 DEF CheckCreate, Goto, IInv, TypeOK
  <2>2. \A a \in Account : Claim(t, a) => a = w /\ made'[r] = {}
    BY <1>2, <1>3, <2>1 DEF DirsFree, Side
  <2>3. made'[r] = {} => \A s \in Side : dirs'[t][s] = w
    BY <2>1 DEF DirsFree
  <2>4. CreatorSafe(r)'
    BY <1>2, <1>4, <2>1, <2>2, <2>3 DEF CreatorSafe
  <2>5. QED
    BY <1>1, <1>2, <1>3, <2>1, <2>4, WriterDirs
<1>7. ASSUME NEW s \in Side, NEW l \in {"mkdirSent", "chown"},
             pc[r] \in {"mkdir", "mkdirSent"}, MakeMissing(r, s), Goto(r, l),
             UNCHANGED <<target, made>>
      PROVE  DirsInv'
  <2>1. /\ \A m \in Mailbox \ {t} : dirs'[m] = dirs[m]
        /\ \A z \in Side :
             dirs'[t][z] = IF z = s /\ dirs[t][z] = NoOwner THEN Root ELSE dirs[t][z]
    <3>1. dirs' = [dirs EXCEPT ![t] = [dirs[t] EXCEPT ![s] = IF @ = NoOwner THEN Root ELSE @]]
      BY <1>2, <1>7 DEF MakeMissing
    <3>2. QED
      BY <1>2, <3>1
  <2>2. pc'[r] = l /\ CreatorSafe(r)'
    BY <1>2, <1>3, <1>4, <1>7, <2>1 DEF CreatorSafe, Goto, IInv, TypeOK
  <2>3. /\ \A a \in Account : Claim(t, a) => \A z \in Side : dirs'[t][z] = a
        /\ \A z \in Side : z \in mail[t] => dirs'[t][z] # NoOwner
    BY <1>2, <1>3, <2>1
  <2>4. QED
    BY <1>1, <1>2, <2>1, <2>2, <2>3, WriterDirs
<1>8. ASSUME NEW s \in Side, dirs' = [dirs EXCEPT ![t][s] = w], UNCHANGED <<target, made>>,
             \/ pc[r] = "chown" /\ s = "inbox" /\ Goto(r, "chownSent")
             \/ pc[r] = "chownSent" /\ s = "sent" /\ Goto(r, "write")
      PROVE  DirsInv'
  <2>1. /\ \A m \in Mailbox \ {t} : dirs'[m] = dirs[m]
        /\ \A z \in Side : dirs'[t][z] = IF z = s THEN w ELSE dirs[t][z]
        /\ pc'[r] = IF s = "inbox" THEN "chownSent" ELSE "write"
    BY <1>2, <1>8 DEF Goto, IInv, TypeOK
  <2>2. CreatorSafe(r)'
    BY <1>2, <1>3, <1>4, <1>8, <2>1 DEF CreatorSafe, Side
  <2>3. \A a \in Account : Claim(t, a) => \A z \in Side : dirs'[t][z] = a
    BY <1>2, <1>3, <1>8, <2>1 DEF CreatorSafe
  <2>4. \A z \in Side : z \in mail[t] => dirs'[t][z] # NoOwner
    BY <1>2, <1>3, <2>1
  <2>5. QED
    BY <1>1, <1>2, <2>1, <2>2, <2>3, <2>4, WriterDirs
<1>9. ASSUME pc[r] \in Making, NEW a, Answer(r, a), NEW sides, RemoveMade(r, sides)
      PROVE  DirsInv'
  BY <1>1, <1>2, <1>9, TakeBack
<1>10. CASE CheckCreate(r)
  BY <1>5, <1>6, <1>10 DEF CheckCreate
<1>11. CASE MakeInbox(r) \/ MakeSent(r)
  BY <1>5, <1>7, <1>9, <1>11 DEF MakeInbox, MakeSent, Side
<1>12. CASE ChownInbox(r)
  <2>1. pc[r] = "chown" /\ "inbox" \in Side
    BY <1>12 DEF ChownInbox, ChownDir, Side
  <2>2. CASE Answer(r, "failed")
    BY <1>9, <1>12, <2>1, <2>2 DEF ChownInbox, ChownDir, RollBack, Answer, Goto, IInv, TypeOK
  <2>3. CASE ~Answer(r, "failed")
    <3>1. /\ dirs' = [dirs EXCEPT ![t]["inbox"] = w]
          /\ Goto(r, "chownSent") /\ UNCHANGED <<target, made>>
      BY <1>12, <2>3 DEF ChownInbox, ChownDir
    <3>2. QED
      BY <1>8, <2>1, <3>1
  <2>4. QED
    BY <2>2, <2>3
<1>13. CASE ChownSent(r)
  BY <1>8, <1>9, <1>13 DEF ChownSent, ChownDir, RollBack, Side
<1>14. QED
  BY <1>10, <1>11, <1>12, <1>13

(* The rename of config.toml: the claim a CREATE makes there is true.      *)
LEMMA WriteDirs ==
  ASSUME IInv, Equipped, DirsInv, NEW r \in Slot, WriteConfig(r)
  PROVE  DirsInv'
<1>1. OnlyOwn(r) /\ pc[r] = "write" /\ UNCHANGED mail
  BY HandlersOwn DEF IInv, Handle, WriteConfig
<1>2. CASE \E a : Answer(r, a)
  <2>1. pc'[r] = "done" /\ RollBack(r)
    BY <1>2 DEF WriteConfig, Answer, Goto, IInv, TypeOK
  <2>2. Inherited
    BY <2>1, ClaimsInherited DEF Handle
  <2>3. QED
    BY <1>1, <1>2, <2>1, <2>2, TakeBack DEF RollBack
<1>3. CASE ~\E a : Answer(r, a)
  <2>1. /\ disk' = next[r] /\ pc'[r] = "store"
        /\ UNCHANGED <<mem, dirs, target, snap, made, next>>
    BY <1>3 DEF WriteConfig, Goto, IInv, TypeOK
  <2>2. CASE op[r].verb # "CREATE"
    <3>1. Inherited
      BY <2>2, ClaimsInherited DEF Handle
    <3>2. QED
      BY <1>1, <2>1, <3>1, DirsStay DEF IInv
  <2>3. CASE op[r].verb = "CREATE"
    <3> DEFINE t == target[r]
               w == OwnerOf(op[r])
    <3>1. t \in Mailbox /\ w \in Account /\ next[r].owner[t] = w
      BY <1>1, <2>3, OpTypes DEF IInv, TypeOK, Equipped
    <3>2. \A s \in Side : dirs[t][s] = w
      BY <1>1, <2>3 DEF DirsInv, CreatorAlone, CreatorSafe, Side
    <3>3. \A m \in Mailbox, a \in Account : Claim(m, a)' => Claim(m, a) \/ (m = t /\ a = w)
      <4> SUFFICES ASSUME NEW m \in Mailbox, NEW a \in Account, Claim(m, a)', ~(m = t /\ a = w)
                   PROVE  Claim(m, a)
        OBVIOUS
      <4>1. m = t => next[r].owner[m] # a
        BY <3>1
      <4>2. next[r].owner[m] = a => Believes(r, m, a)
        BY <1>1, <4>1 DEF Believes, Writing
      <4>3. CASE mem'.owner[m] = a \/ disk'.owner[m] = a \/ reload'.cfg.owner[m] = a
        BY <1>1, <2>1, <4>2, <4>3 DEF OnlyOwn, outside, Claim
      <4>4. ASSUME NEW q \in Slot, Believes(q, m, a)'
            PROVE  Claim(m, a)
        <5>1. CASE q = r
          <6>1. Believes(r, m, a)
            BY <1>1, <2>1, <4>1, <4>4, <5>1 DEF Believes, Writing, OnlyOwn
          <6>2. QED
            BY <6>1 DEF Claim
        <5>2. CASE q # r
          <6>1. Believes(q, m, a)
            BY <1>1, <4>4, <5>2 DEF Believes, OnlyOwn
          <6>2. QED
            BY <6>1 DEF Claim
        <5>3. QED
          BY <5>1, <5>2
      <4>5. QED
        BY <4>3, <4>4 DEF Claim
    <3>4. ClaimsHeld'
      <4> SUFFICES ASSUME NEW m \in Mailbox, NEW a \in Account, Claim(m, a)', NEW s \in Side
                   PROVE  dirs'[m][s] = a
        BY DEF ClaimsHeld
      <4>1. QED
        BY <2>1, <3>2, <3>3 DEF DirsInv, ClaimsHeld
    <3>5. CreatorAlone'
      <4>1. \A q \in Slot : pc'[q] \notin Making
        BY <1>1, <2>1, AloneInside DEF ConfigLocked
      <4>2. QED
        BY <4>1 DEF CreatorAlone
    <3>6. MailInDirs'
      BY <1>1, <2>1 DEF DirsInv, MailInDirs
    <3>7. QED
      BY <3>4, <3>5, <3>6 DEF DirsInv
  <2>4. QED
    BY <2>2, <2>3
<1>4. QED
  BY <1>2, <1>3

(* INGEST and SEND work from a snapshot of any age, outside every lock;    *)
(* the owner they found there still has the directories, which they        *)
(* therefore leave as they are.                                            *)
LEMMA MailFindsOwner ==
  ASSUME IInv, Equipped, DirsInv, NEW r \in Slot, OpenDir(r) \/ StoreMessage(r)
  PROVE  /\ UNCHANGED dirs
         /\ mail' = mail \/ mail' = [mail EXCEPT ![target[r]] = @ \cup {SideOf(r)}]
         /\ snap[r] \in Account /\ Claim(target[r], snap[r])
<1> DEFINE t == target[r]
<1>1. /\ t \in Mailbox /\ snap[r] \in Account /\ SideOf(r) \in Side
      /\ dirs \in [Mailbox -> [Side -> Account \cup {NoOwner}]] /\ NoOwner \notin Account
  BY AccountAssumption DEF Equipped, IInv, TypeOK, OpenDir, StoreMessage, SideOf, Side
<1>2. Claim(t, snap[r])
  BY DEF Claim, Believes
<1>3. \A s \in Side : dirs[t][s] = snap[r] /\ snap[r] # NoOwner
  BY <1>1, <1>2 DEF DirsInv, ClaimsHeld
<1>4. UNCHANGED dirs
  <2>1. CASE OpenDir(r)
    <3>1. [dirs EXCEPT ![t][SideOf(r)] = snap[r]] = dirs
      BY <1>1, <1>3
    <3>2. QED
      BY <1>1, <2>1, <3>1 DEF OpenDir
  <2>2. CASE StoreMessage(r)
    <3>1. [dirs EXCEPT ![t][SideOf(r)] = IF @ = NoOwner THEN Root ELSE @] = dirs
      BY <1>1, <1>3
    <3>2. QED
      BY <1>1, <2>2, <3>1 DEF StoreMessage
  <2>3. QED
    BY <2>1, <2>2
<1>5. QED
  BY <1>1, <1>2, <1>4 DEF OpenDir, StoreMessage

LEMMA MailDirs ==
  ASSUME IInv, Equipped, DirsInv, NEW r \in Slot, OpenDir(r) \/ StoreMessage(r)
  PROVE  DirsInv'
<1> DEFINE t == target[r]
<1>1. OnlyOwn(r) /\ Inherited
  <2>1. Handle(r) /\ ~WriteConfig(r)
    BY DEF Handle, OpenDir, StoreMessage, WriteConfig
  <2>2. QED
    BY <2>1, HandlersOwn, ClaimsInherited DEF IInv
<1>2. /\ t \in Mailbox /\ snap[r] \in Account /\ Claim(t, snap[r])
      /\ mail \in [Mailbox -> SUBSET Side] /\ NoOwner \notin Account
      /\ op[r].verb \in {"INGEST", "SEND"}
  BY AccountAssumption, MailFindsOwner DEF Equipped, IInv, TypeOK, OpenDir, StoreMessage
<1>3. \A s \in Side : dirs[t][s] # NoOwner
  BY <1>2 DEF DirsInv, ClaimsHeld
<1>4. mail' = mail \/ mail' = [mail EXCEPT ![t] = @ \cup {SideOf(r)}]
  BY MailFindsOwner
<1>5. UNCHANGED dirs
  BY MailFindsOwner
<1>6. ClaimsHeld'
  BY <1>1, <1>5, ClaimsStay DEF DirsInv
<1>7. MailInDirs'
  BY <1>2, <1>3, <1>4, <1>5 DEF DirsInv, MailInDirs
<1>8. CreatorAlone'
  <2> SUFFICES ASSUME NEW q \in Slot, pc'[q] \in Making, op'[q].verb = "CREATE"
               PROVE  CreatorSafe(q)'
    BY DEF CreatorAlone
  <2>1. /\ op' = op /\ q # r
        /\ target'[q] = target[q] /\ pc'[q] = pc[q] /\ made'[q] = made[q]
    BY <1>1, <1>2 DEF OnlyOwn
  <2>2. QED
    BY <1>1, <1>5, <2>1, CreatorStays DEF DirsInv, IInv
<1>9. QED
  BY <1>6, <1>7, <1>8 DEF DirsInv

(* All other steps of a handler leave the directories alone.               *)
LEMMA OtherDirs ==
  ASSUME IInv, Equipped, DirsInv, NEW r \in Slot,
         \/ SubmitMailbox(r) \/ SubmitHook(r) \/ SubmitMail(r) \/ Transport(r)
         \/ LockMailbox(r) \/ LockConfig(r)
         \/ AuthorizeDelete(r) \/ Wipe(r) \/ CountFiles(r)
         \/ EditHooks(r) \/ StoreConfig(r)
  PROVE  DirsInv'
<1>1. OnlyOwn(r) /\ Inherited
  <2>1. SubmitMailbox(r) \/ SubmitHook(r) \/ SubmitMail(r) \/ Handle(r)
    BY DEF Handle
  <2>2. CASE WriteConfig(r)
    BY <2>2 DEF WriteConfig, SubmitMailbox, SubmitHook, SubmitMail, Transport, LockMailbox,
       LockConfig, AuthorizeDelete, Wipe, CountFiles, EditHooks, StoreConfig
  <2>3. QED
    BY <2>1, <2>2, HandlersOwn, ClaimsInherited DEF IInv
<1>2. UNCHANGED dirs
  BY DEF SubmitMailbox, SubmitHook, SubmitMail, Transport, LockMailbox, LockConfig,
     AuthorizeDelete, Wipe, CountFiles, EditHooks, StoreConfig
<1>3. \A m \in Mailbox : mail'[m] \subseteq mail[m]
  <2>1. CASE Wipe(r)
    <3>1. mail \in [Mailbox -> SUBSET Side]
      BY DEF IInv, TypeOK
    <3>2. \/ mail' = [mail EXCEPT ![target[r]] = {}]
          \/ \E wiped \in SUBSET {"inbox"} :
               mail' = [mail EXCEPT ![target[r]] = mail[target[r]] \ wiped]
      BY <2>1 DEF Wipe
    <3>3. QED
      BY <3>1, <3>2
  <2>2. mail' = mail \/ Wipe(r)
    BY DEF SubmitMailbox, SubmitHook, SubmitMail, Transport, LockMailbox, LockConfig,
       AuthorizeDelete, CountFiles, EditHooks, StoreConfig
  <2>3. QED
    BY <2>1, <2>2
<1>4. ~(pc'[r] \in Making /\ op[r].verb = "CREATE")
  <2> USE DEF Goto, IInv, TypeOK, HandlersOnTrack
  <2>1. CASE \E a : Answer(r, a)
    BY <2>1 DEF Answer
  <2>2. CASE ~\E a : Answer(r, a)
    <3> USE <2>2
    <3>1. CASE SubmitMailbox(r) \/ SubmitHook(r) \/ SubmitMail(r) \/ Transport(r)
      BY <3>1 DEF SubmitMailbox, SubmitHook, SubmitMail, Transport
    <3>2. CASE LockMailbox(r) \/ LockConfig(r)
      BY <3>2 DEF LockMailbox, LockConfig
    <3>3. CASE AuthorizeDelete(r) \/ Wipe(r) \/ CountFiles(r)
      BY <3>3 DEF AuthorizeDelete, Wipe, CountFiles
    <3>4. CASE EditHooks(r) \/ StoreConfig(r)
      BY <3>4 DEF EditHooks, EditAccepted, StoreConfig
    <3>5. QED
      BY <3>1, <3>2, <3>3, <3>4
  <2>3. QED
    BY <2>1, <2>2
<1>5. QED
  BY <1>1, <1>2, <1>3, <1>4, DirsStay DEF IInv

(* SIGHUP and the death of the daemon only pass claims on.                 *)
LEMMA OutsideDirs ==
  ASSUME IInv, DirsInv, ReloadRead \/ ReloadStore \/ Crash \/ Restart \/ UNCHANGED vars
  PROVE  DirsInv'
<1> USE AccountAssumption
<1>1. UNCHANGED <<dirs, mail, op, disk>>
  BY DEF ReloadRead, ReloadStore, Crash, Restart, vars, slotVars, outside
<1>2. \A r \in Slot :
        pc'[r] \in Making =>
             pc'[r] = pc[r] /\ target'[r] = target[r] /\ made'[r] = made[r]
  BY DEF ReloadRead, ReloadStore, Crash, Restart, vars, slotVars, outside
<1>3. Inherited
  <2> SUFFICES ASSUME NEW m \in Mailbox, NEW a \in Account, Claim(m, a)'
               PROVE  Claim(m, a)
    BY DEF Inherited
  <2>1. EmptyConfig.owner[m] # a /\ a # NoOwner
    BY DEF EmptyConfig
  <2>2. \A c \in {mem', disk', reload'.cfg} :
          c = EmptyConfig \/ c \in {mem, disk, reload.cfg}
    BY DEF ReloadRead, ReloadStore, Crash, Restart, vars, slotVars, outside
  <2>3. \A r \in Slot : Believes(r, m, a)' => Believes(r, m, a)
    <3>1. CASE ReloadRead \/ ReloadStore \/ Restart
      BY <3>1 DEF ReloadRead, ReloadStore, Restart, slotVars, Believes
    <3>2. CASE Crash
      BY <2>1, <3>2 DEF Crash, Believes, Writing
    <3>3. CASE UNCHANGED vars
      BY <3>3 DEF vars, slotVars, Believes
    <3>4. QED
      BY <3>1, <3>2, <3>3
  <2>4. QED
    BY <2>1, <2>2, <2>3 DEF Claim
<1>4. ClaimsHeld'
  BY <1>1, <1>3, ClaimsStay DEF DirsInv
<1>5. CreatorAlone'
  BY <1>1, <1>2, <1>3, CreatorStays DEF IInv, DirsInv, CreatorAlone
<1>6. MailInDirs'
  BY <1>1 DEF DirsInv, MailInDirs
<1>7. QED
  BY <1>4, <1>5, <1>6 DEF DirsInv

(* Between the rename and the store the file is what the writer wrote,     *)
(* unless somebody edits it.                                               *)
FileIsNext == \A r \in Slot : pc[r] = "store" => disk = next[r]

LEMMA FileKeeps ==
  ASSUME IInv, FileIsNext, [Next]_vars, ~OperatorEdit
  PROVE  FileIsNext'
<1>1. CASE UNCHANGED vars \/ Quiescent
  BY <1>1 DEF Quiescent, vars, slotVars, FileIsNext
<1>2. CASE ReloadRead \/ ReloadStore \/ OperatorRmdir \/ Crash \/ Restart
  BY <1>2 DEF ReloadRead, ReloadStore, OperatorRmdir, Crash, Restart, slotVars, FileIsNext
<1>3. ASSUME NEW r \in Slot,
             SubmitMailbox(r) \/ SubmitHook(r) \/ SubmitMail(r) \/ Handle(r)
      PROVE  FileIsNext'
  <2>1. OnlyOwn(r)
    BY <1>3, HandlersOwn DEF IInv
  <2>2. CASE WriteConfig(r)
    <3>1. \A q \in Slot \ {r} : pc'[q] # "store"
      BY <2>1, <2>2, AloneInside DEF WriteConfig, ConfigLocked
    <3>2. pc'[r] = "store" => disk' = next'[r]
      BY <2>2 DEF WriteConfig, Answer, Goto, IInv, TypeOK
    <3>3. QED
      BY <3>1, <3>2 DEF FileIsNext
  <2>3. CASE ~WriteConfig(r)
    <3>1. UNCHANGED disk
      BY <1>3, <2>3 DEF Handle, SubmitMailbox, SubmitHook, SubmitMail, Transport, OpenDir,
         StoreMessage, LockMailbox, LockConfig, CheckCreate, MakeInbox, MakeSent, ChownInbox, ChownSent, ChownDir,
         AuthorizeDelete, Wipe, CountFiles, EditHooks, StoreConfig
    <3>2. pc'[r] # "store"
      <4>1. CASE \E a : Answer(r, a)
        BY <4>1 DEF Answer, Goto, IInv, TypeOK
      <4>2. CASE ~\E a : Answer(r, a)
        BY <1>3, <2>3, <4>2 DEF Handle, SubmitMailbox, SubmitHook, SubmitMail, Transport,
           OpenDir, StoreMessage, LockMailbox, LockConfig, CheckCreate, MakeInbox, MakeSent, ChownInbox, ChownSent, ChownDir,
           AuthorizeDelete, Wipe, CountFiles, EditHooks, StoreConfig, Goto, IInv, TypeOK
      <4>3. QED
        BY <4>1, <4>2
    <3>3. QED
      BY <2>1, <3>1, <3>2 DEF OnlyOwn, FileIsNext
  <2>4. QED
    BY <2>2, <2>3
<1>4. QED
  BY <1>1, <1>2, <1>3 DEF Next

(* The inductive invariant about directories.                              *)
PinnedInv == IInv /\ Equipped /\ (Undisturbed => DirsInv /\ FileIsNext)

LEMMA InitPinned == Init => PinnedInv
<1> SUFFICES ASSUME NEW c \in Starts, Start(c)
             PROVE  PinnedInv
  BY DEF Init
<1> USE AccountAssumption
<1>1. IInv
  BY InitIInv DEF Init
<1>2. Equipped /\ FileIsNext
  BY DEF Start, Equipped, FileIsNext
<1>3. ClaimsHeld
  <2> SUFFICES ASSUME NEW m \in Mailbox, NEW a \in Account, Claim(m, a), NEW s \in Side
               PROVE  dirs[m][s] = a
    BY DEF ClaimsHeld
  <2>1. \A r \in Slot : ~Believes(r, m, a)
    BY DEF Start, Believes, Writing
  <2>2. c.owner[m] = a
    BY <2>1 DEF Start, Claim, EmptyConfig
  <2>3. QED
    BY <2>2 DEF Start
<1>4. CreatorAlone /\ MailInDirs
  BY DEF Start, CreatorAlone, MailInDirs
<1>5. QED
  BY <1>1, <1>2, <1>3, <1>4 DEF PinnedInv, DirsInv

(* The operator's hand is remembered.                                      *)
LEMMA DisturbedStays ==
  ASSUME TypeOK, [Next]_vars, Undisturbed'
  PROVE  Undisturbed /\ ~OperatorEdit /\ ~OperatorRmdir
<1> USE DEF Undisturbed, TypeOK
<1>1. CASE UNCHANGED env
  BY <1>1 DEF OperatorEdit, OperatorRmdir
<1>2. CASE ReloadRead \/ Crash
  BY <1>2 DEF ReloadRead, Crash, OperatorEdit, OperatorRmdir
<1>3. CASE OperatorEdit \/ OperatorRmdir
  BY <1>3 DEF OperatorEdit, OperatorRmdir
<1>4. ASSUME NEW r \in Slot,
             SubmitMailbox(r) \/ SubmitHook(r) \/ SubmitMail(r) \/ Handle(r)
      PROVE  UNCHANGED env
  BY <1>4, HandlersOwn DEF OnlyOwn, outside
<1>5. CASE UNCHANGED vars \/ Quiescent \/ ReloadStore \/ Restart
  BY <1>1, <1>5 DEF Quiescent, ReloadStore, Restart, vars, outside
<1>6. QED
  BY <1>1, <1>2, <1>3, <1>4, <1>5 DEF Next

LEMMA PinnedKeeps == PinnedInv /\ [Next]_vars => PinnedInv'
<1> SUFFICES ASSUME PinnedInv, [Next]_vars
             PROVE  PinnedInv'
  OBVIOUS
<1>1. IInv' /\ Equipped'
  BY NextKeeps, EquippedKeeps DEF PinnedInv
<1>2. ASSUME Undisturbed'
      PROVE  DirsInv' /\ FileIsNext'
  <2>1. DirsInv /\ FileIsNext /\ ~OperatorEdit /\ ~OperatorRmdir
    BY <1>2, DisturbedStays DEF PinnedInv, IInv
  <2>2. FileIsNext'
    BY <2>1, FileKeeps DEF PinnedInv
  <2>3. CASE UNCHANGED vars \/ Quiescent
    BY <2>1, <2>2, <2>3, OutsideDirs DEF PinnedInv, Quiescent
  <2>4. CASE ReloadRead \/ ReloadStore \/ Crash \/ Restart
    BY <2>1, <2>2, <2>4, OutsideDirs DEF PinnedInv
  <2>5. ASSUME NEW r \in Slot,
               SubmitMailbox(r) \/ SubmitHook(r) \/ SubmitMail(r) \/ Handle(r)
        PROVE  DirsInv'
    BY <2>1, <2>5, CreateDirs, WriteDirs, MailDirs, OtherDirs DEF Handle, PinnedInv
  <2>6. QED
    BY <2>1, <2>2, <2>3, <2>4, <2>5 DEF Next
<1>3. QED
  BY <1>1, <1>2 DEF PinnedInv

(* Whoever is configured as owner, in the snapshot or on disk, owns both   *)
(* directories: no interleaving of deletion, re-creation, roll-back, stale *)
(* reload and crash hands a mailbox directory to a second account.         *)
THEOREM DirectoriesPinned == Spec => []OwnersPinned
<1>1. PinnedInv => OwnersPinned
  <2> SUFFICES ASSUME PinnedInv, Undisturbed, NEW c \in {mem, disk}, NEW m \in Mailbox,
                      Configured(c, m), NEW s \in Side
               PROVE  dirs[m][s] = c.owner[m]
    BY DEF OwnersPinned
  <2>1. c.owner[m] \in Account
    BY DEF PinnedInv, IInv, TypeOK, Config, Configured
  <2>2. Claim(m, c.owner[m])
    BY DEF Claim
  <2>3. QED
    BY <2>1, <2>2 DEF PinnedInv, DirsInv, ClaimsHeld
<1>2. QED
  BY <1>1, InitPinned, PinnedKeeps, PTL DEF Spec

(* A handler gets from its store to its answer by StoreConfig alone.       *)
LEMMA OnlyStoreCommits ==
  ASSUME TypeOK, NEW r \in Slot, Next, HookCommitted(r)
  PROVE  StoreConfig(r)
<1>1. \A q \in Slot : \A l : Goto(q, l) => q = r
  BY DEF Goto, TypeOK, HookCommitted
<1>2. pc' # pc /\ ~Crash
  BY DEF HookCommitted, Crash
<1>3. PICK q \in Slot : SubmitMailbox(q) \/ SubmitHook(q) \/ SubmitMail(q) \/ Handle(q)
  BY <1>2 DEF Next, ReloadRead, ReloadStore, OperatorEdit, OperatorRmdir, Restart,
              Quiescent, vars, slotVars
<1>4. q = r
  BY <1>1, <1>3, OwnCounter
<1>5. QED
  BY <1>3, <1>4 DEF HookCommitted, Handle, SubmitMailbox, SubmitHook, SubmitMail, Transport,
     OpenDir, StoreMessage, LockMailbox, LockConfig, CheckCreate, MakeInbox, MakeSent, ChownInbox, ChownSent, ChownDir,
     AuthorizeDelete, Wipe, CountFiles, EditHooks, WriteConfig

(* The authority a hook verb was granted against an older snapshot holds   *)
(* of the file it is committed to: ownership cannot move in between.       *)
THEOREM HookCommitsAuthorised == Spec => HooksCommittedByOwner
<1> DEFINE Sound(r) == HookCommitted(r) /\ Undisturbed => Authorised(op[r].caller, disk, target[r])
<1>1. ASSUME PinnedInv, Next, NEW r \in Slot, HookCommitted(r), Undisturbed
      PROVE  Authorised(op[r].caller, disk, target[r])
  <2>1. /\ pc[r] = "store" /\ op[r].verb \in {"HOOK-CREATE", "HOOK-DELETE"}
        /\ op[r].caller \in Account /\ target[r] \in Mailbox /\ disk \in Config
    BY <1>1, OpTypes DEF HookCommitted, PinnedInv, IInv, TypeOK
  <2>2. disk = next[r] /\ Configured(disk, target[r])
    BY <1>1, <2>1 DEF PinnedInv, FileIsNext, Equipped
  <2>3. disk.owner[target[r]] \in Account /\ Claim(target[r], disk.owner[target[r]])
    BY <2>1, <2>2 DEF Configured, Config, Claim
  <2>4. op[r].caller # Root => Claim(target[r], op[r].caller)
    BY <2>1 DEF Claim, Believes
  <2>5. "inbox" \in Side
    BY DEF Side
  <2>6. op[r].caller # Root => op[r].caller = disk.owner[target[r]]
    BY <1>1, <2>1, <2>3, <2>4, <2>5 DEF PinnedInv, DirsInv, ClaimsHeld
  <2>7. QED
    BY <2>2, <2>6 DEF Authorised
<1>2. PinnedInv /\ [Next]_vars => [\A r \in Slot : Sound(r)]_vars
  BY <1>1
<1>3. QED
  BY <1>2, InitPinned, PinnedKeeps, PTL DEF Spec, HooksCommittedByOwner

-----------------------------------------------------------------------------
(* Halves of mailboxes.  Between the two mkdirs and between the two chowns *)
(* of a CREATE the directories differ; nobody may see them then without    *)
(* the outer lock, and every way out of there makes them equal again.      *)

(* The outer lock is held from LockMailbox to the answer.                  *)
HoldsMailbox ==
  \A r \in Slot : pc[r] \in MailboxLocked \cup ConfigLocked => mbLock[target[r]] = r

LEMMA HoldsKeeps == IInv /\ HoldsMailbox /\ [Next]_vars => HoldsMailbox'
<1> SUFFICES ASSUME IInv, HoldsMailbox, [Next]_vars
             PROVE  HoldsMailbox'
  OBVIOUS
<1> USE DEF MailboxLocked, ConfigLocked
<1>1. CASE UNCHANGED vars \/ Quiescent
  BY <1>1 DEF Quiescent, vars, lockVars, slotVars, HoldsMailbox
<1>2. CASE ReloadRead \/ ReloadStore \/ OperatorEdit \/ OperatorRmdir \/ Restart
  BY <1>2 DEF ReloadRead, ReloadStore, OperatorEdit, OperatorRmdir, Restart, lockVars, slotVars,
              HoldsMailbox
<1>3. CASE Crash
  BY <1>3 DEF Crash, HoldsMailbox
<1>4. ASSUME NEW r \in Slot,
             SubmitMailbox(r) \/ SubmitHook(r) \/ SubmitMail(r) \/ Handle(r)
      PROVE  HoldsMailbox'
  <2>1. OnlyOwn(r) /\ \A q \in Slot : target[q] \in Mailbox /\ r # NoSlot
    BY <1>4, HandlersOwn, SlotAssumption DEF IInv, TypeOK
  <2>2. CASE \E a : Answer(r, a)
    <3>1. /\ pc'[r] = "done"
          /\ \A m \in Mailbox : mbLock'[m] = IF mbLock[m] = r THEN NoSlot ELSE mbLock[m]
      BY <2>2 DEF Answer, Release, Goto, IInv, TypeOK
    <3>2. QED
      BY <2>1, <3>1 DEF OnlyOwn, HoldsMailbox
  <2>3. CASE LockMailbox(r)
    <3>1. /\ mbLock[target[r]] = NoSlot /\ target' = target
          /\ \A m \in Mailbox : mbLock'[m] = IF m = target[r] THEN r ELSE mbLock[m]
      BY <2>3 DEF LockMailbox, IInv, TypeOK
    <3>2. \A q \in Slot \ {r} : target[q] = target[r] => pc[q] \notin MailboxLocked \cup ConfigLocked
      BY <2>1, <3>1, SlotAssumption DEF HoldsMailbox
    <3>3. QED
      BY <2>1, <3>1, <3>2 DEF OnlyOwn, HoldsMailbox
  <2>4. CASE ~(\E a : Answer(r, a)) /\ ~LockMailbox(r)
    <3>1. /\ UNCHANGED mbLock
          /\ pc'[r] \in MailboxLocked \cup ConfigLocked =>
               pc[r] \in MailboxLocked \cup ConfigLocked /\ target'[r] = target[r]
      <4> USE <2>4 DEF Goto, IInv, TypeOK, lockVars
      <4>1. CASE SubmitMailbox(r) \/ SubmitHook(r) \/ SubmitMail(r)
        BY <4>1 DEF SubmitMailbox, SubmitHook, SubmitMail
      <4>2. CASE Transport(r) \/ OpenDir(r) \/ StoreMessage(r)
        BY <4>2 DEF Transport, OpenDir, StoreMessage
      <4>3. CASE LockConfig(r) \/ CheckCreate(r)
        BY <4>3 DEF LockConfig, CheckCreate
      <4>4. CASE MakeInbox(r) \/ MakeSent(r)
        BY <4>4 DEF MakeInbox, MakeSent
      <4>5. CASE ChownInbox(r) \/ ChownSent(r)
        BY <4>5 DEF ChownInbox, ChownSent, ChownDir
      <4>6. CASE AuthorizeDelete(r) \/ Wipe(r) \/ CountFiles(r)
        BY <4>6 DEF AuthorizeDelete, Wipe, CountFiles
      <4>7. CASE EditHooks(r) \/ WriteConfig(r) \/ StoreConfig(r)
        BY <4>7 DEF EditHooks, WriteConfig, StoreConfig
      <4>8. QED
        BY <1>4, <4>1, <4>2, <4>3, <4>4, <4>5, <4>6, <4>7 DEF Handle
    <3>2. QED
      BY <2>1, <3>1 DEF OnlyOwn, HoldsMailbox
  <2>5. QED
    BY <2>2, <2>3, <2>4
<1>5. QED
  BY <1>1, <1>2, <1>3, <1>4 DEF Next

(* What a CREATE can take back.  It found both directories missing, or     *)
(* neither; those it found missing hold no mail, and it is known which of  *)
(* them it has made.                                                       *)
Retractable(r) ==
  /\ mail[target[r]] = {}
  /\ pc[r] = "mkdir" => \A s \in Side : dirs[target[r]][s] = NoOwner
  /\ pc[r] = "mkdirSent" => dirs[target[r]]["inbox"] = Root /\ dirs[target[r]]["sent"] = NoOwner

Halfway == {"mkdirSent", "chownSent"}

Whole(m) ==
  (\A r \in Slot : target[r] = m => pc[r] \notin Halfway) => dirs[m]["inbox"] = dirs[m]["sent"]

WholeInv ==
  /\ \A m \in Mailbox : Whole(m)
  /\ \A r \in Slot : made[r] \in {{}, Side}
  /\ \A r \in Slot : pc[r] \in Making /\ made[r] # {} => Retractable(r)

(* A step that leaves directories and mail alone, and no CREATE ahead.     *)
LEMMA WholeStay ==
  ASSUME IInv, WholeInv, NEW r \in Slot, OnlyOwn(r), UNCHANGED dirs,
         \A m \in Mailbox : mail'[m] \subseteq mail[m],
         pc[r] \notin Halfway, pc'[r] \notin Making \/ made'[r] = {},
         made'[r] \in {made[r], {}}
  PROVE  WholeInv'
<1>1. ASSUME NEW m \in Mailbox
      PROVE  Whole(m)'
  BY DEF WholeInv, Whole, OnlyOwn
<1>2. \A q \in Slot : made'[q] \in {{}, Side}
  BY DEF WholeInv, OnlyOwn
<1>3. ASSUME NEW q \in Slot, pc'[q] \in Making /\ made'[q] # {}
      PROVE  Retractable(q)'
  <2>1. /\ q # r /\ pc'[q] = pc[q] /\ target'[q] = target[q] /\ made'[q] = made[q]
        /\ target[q] \in Mailbox
    BY <1>3 DEF OnlyOwn, IInv, TypeOK
  <2>2. Retractable(q)
    BY <1>3, <2>1 DEF WholeInv
  <2>3. QED
    BY <2>1, <2>2 DEF Retractable
<1>4. QED
  BY <1>1, <1>2, <1>3 DEF WholeInv

(* A writer's step on the directories of its own mailbox.                  *)
LEMMA WholeWriter ==
  ASSUME IInv, WholeInv, NEW r \in Slot, OnlyOwn(r), pc[r] \in ConfigLocked,
         target'[r] = target[r], UNCHANGED mail,
         \A m \in Mailbox \ {target[r]} : dirs'[m] = dirs[m],
         pc'[r] \in Halfway \/ dirs'[target[r]]["inbox"] = dirs'[target[r]]["sent"],
         made'[r] \in {{}, Side},
         pc'[r] \in Making /\ made'[r] # {} => Retractable(r)'
  PROVE  WholeInv'
<1>1. ASSUME NEW m \in Mailbox
      PROVE  Whole(m)'
  <2>1. CASE m = target[r]
    BY <2>1 DEF Whole
  <2>2. CASE m # target[r]
    BY <2>2 DEF WholeInv, Whole, OnlyOwn
  <2>3. QED
    BY <2>1, <2>2
<1>2. \A q \in Slot : made'[q] \in {{}, Side}
  BY DEF WholeInv, OnlyOwn
<1>3. ASSUME NEW q \in Slot, pc'[q] \in Making /\ made'[q] # {}
      PROVE  Retractable(q)'
  <2>1. q = r
    BY <1>3, AloneInside DEF ConfigLocked
  <2>2. QED
    BY <1>3, <2>1
<1>4. QED
  BY <1>1, <1>2, <1>3 DEF WholeInv

(* Whoever gives up leaves both directories or neither.                    *)
LEMMA WholeTakeBack ==
  ASSUME IInv, Equipped, DirsInv, WholeInv, NEW r \in Slot, OnlyOwn(r),
         pc[r] \in Making, NEW a, Answer(r, a), UNCHANGED mail,
         NEW sides, RemoveMade(r, sides),
         \/ sides = Side
         \/ sides = {"inbox"} /\ pc[r] = "mkdirSent"
  PROVE  WholeInv'
<1> DEFINE t == target[r]
<1>1. /\ t \in Mailbox /\ pc'[r] = "done" /\ target'[r] = op[r].mailbox /\ made'[r] = {}
      /\ dirs \in [Mailbox -> [Side -> Account \cup {NoOwner}]]
      /\ made[r] \in {{}, Side}
  BY DEF IInv, TypeOK, Answer, Goto, WholeInv
<1>2. CASE op[r].verb # "CREATE"
  <2>1. made[r] = {} /\ pc[r] \notin Halfway
    BY <1>2 DEF Equipped, IInv, HandlersOnTrack, Halfway
  <2>2. UNCHANGED dirs
    BY <1>1, <2>1 DEF RemoveMade
  <2>3. QED
    BY <1>1, <2>1, <2>2, WholeStay
<1>3. CASE op[r].verb = "CREATE"
  <2>1. target'[r] = t
    BY <1>1, <1>3 DEF IInv, HandlersOnTrack
  <2>2. /\ \A m \in Mailbox \ {t} : dirs'[m] = dirs[m]
        /\ \A s \in Side : dirs'[t][s] = IF s \in (sides \cap made[r]) \ mail[t] THEN NoOwner
                                         ELSE dirs[t][s]
    BY <1>1 DEF RemoveMade
  <2>3. dirs'[t]["inbox"] = dirs'[t]["sent"]
    <3>1. CASE made[r] = {}
      <4>1. dirs[t]["inbox"] = dirs[t]["sent"]
        BY <1>3, <3>1 DEF DirsInv, CreatorAlone, CreatorSafe, Side
      <4>2. QED
        BY <2>2, <3>1, <4>1 DEF Side
    <3>2. CASE made[r] = Side
      <4>1. Retractable(r)
        BY <3>2 DEF WholeInv, Side
      <4>2. QED
        BY <2>2, <3>2, <4>1 DEF Retractable, Side
    <3>3. QED
      BY <1>1, <3>1, <3>2
  <2>4. QED
    BY <1>1, <2>1, <2>2, <2>3, WholeWriter DEF ConfigLocked
<1>4. QED
  BY <1>2, <1>3

(* The steps of MAILBOX-CREATE.                                            *)
LEMMA WholeCreate ==
  ASSUME IInv, Equipped, DirsInv, WholeInv, NEW r \in Slot,
         CheckCreate(r) \/ MakeInbox(r) \/ MakeSent(r) \/ ChownInbox(r) \/ ChownSent(r)
  PROVE  WholeInv'
<1> DEFINE t == target[r]
           w == OwnerOf(op[r])
<1>1. OnlyOwn(r)
  BY HandlersOwn DEF Handle, IInv
<1>2. /\ t \in Mailbox /\ mail[t] \subseteq Side
      /\ dirs \in [Mailbox -> [Side -> Account \cup {NoOwner}]]
      /\ w \in Account /\ NoOwner \notin Account /\ UNCHANGED mail /\ pc[r] \in ConfigLocked
      /\ op[r].verb = "CREATE" /\ pc[r] \in {"check", "mkdir", "mkdirSent", "chown", "chownSent"}
  BY OpTypes, AccountAssumption DEF IInv, TypeOK, HandlersOnTrack, CheckCreate, MakeInbox,
     MakeSent, ChownInbox, ChownSent, ChownDir, ConfigLocked
<1>3. /\ made[r] \in {{}, Side}
      /\ pc[r] \notin Halfway => dirs[t]["inbox"] = dirs[t]["sent"]
      /\ pc[r] \in Making /\ made[r] # {} => Retractable(r)
      /\ pc[r] \in Making => CreatorSafe(r)
  <2>1. \A q \in Slot \ {r} : pc[q] \notin Halfway
    BY <1>2 DEF IInv, OneWriter, Halfway, ConfigLocked
  <2>2. QED
    BY <1>2, <2>1 DEF WholeInv, Whole, DirsInv, CreatorAlone
<1>4. ASSUME UNCHANGED dirs, NEW a, Answer(r, a), pc[r] \notin Halfway
      PROVE  WholeInv'
  <2>1. pc'[r] = "done" /\ made'[r] = {}
    BY <1>4 DEF Answer, Goto, IInv, TypeOK
  <2>2. QED
    BY <1>1, <1>2, <1>4, <2>1, WholeStay
<1>5. ASSUME NEW a, Answer(r, a), pc[r] \in Making, RollBack(r)
      PROVE  WholeInv'
  BY <1>1, <1>2, <1>5, WholeTakeBack DEF RollBack
<1>6. CASE CheckCreate(r)
  <2>1. CASE \E a : Answer(r, a)
    BY <1>4, <1>6, <2>1 DEF CheckCreate, Halfway
  <2>2. CASE ~\E a : Answer(r, a)
    <3>1. /\ UNCHANGED <<dirs, target>> /\ pc[r] = "check" /\ pc'[r] = "mkdir"
          /\ made'[r] = {s \in Side : dirs[t][s] = NoOwner}
      BY <1>6, <2>2 DEF CheckCreate, Goto, IInv, TypeOK
    <3>2. dirs[t]["inbox"] = dirs[t]["sent"] /\ made'[r] \in {{}, Side}
      BY <1>3, <3>1 DEF Halfway, Side
    <3>3. made'[r] # {} => \A s \in Side : dirs[t][s] = NoOwner
      BY <3>1, <3>2 DEF Side
    <3>4. made'[r] # {} => Retractable(r)'
      BY <1>2, <3>1, <3>3 DEF DirsInv, MailInDirs, Retractable
    <3>5. QED
      BY <1>1, <1>2, <3>1, <3>2, <3>4, WholeWriter
  <2>3. QED
    BY <2>1, <2>2
<1>7. ASSUME NEW s \in Side, NEW l, pc[r] \in Making, MakeMissing(r, s), Goto(r, l),
             UNCHANGED <<target, made>>,
             \/ pc[r] = "mkdir" /\ s = "inbox" /\ l = "mkdirSent"
             \/ pc[r] = "mkdirSent" /\ s = "sent" /\ l = "chown"
      PROVE  WholeInv'
  <2>1. /\ \A m \in Mailbox \ {t} : dirs'[m] = dirs[m]
        /\ \A z \in Side :
             dirs'[t][z] = IF z = s /\ dirs[t][z] = NoOwner THEN Root ELSE dirs[t][z]
    <3>1. dirs' = [dirs EXCEPT ![t] = [dirs[t] EXCEPT ![s] = IF @ = NoOwner THEN Root ELSE @]]
      BY <1>2, <1>7 DEF MakeMissing
    <3>2. QED
      BY <1>2, <3>1
  <2>2. pc'[r] = l
    BY <1>7 DEF Goto, IInv, TypeOK
  <2>3. made[r] # {} => Retractable(r)'
    BY <1>2, <1>3, <1>7, <2>1, <2>2 DEF Retractable, Side
  <2>4. l = "chown" => dirs'[t]["inbox"] = dirs'[t]["sent"]
    <3>1. CASE made[r] = {}
      BY <1>2, <1>3, <1>7, <2>1, <3>1 DEF CreatorSafe, Side
    <3>2. CASE made[r] # {}
      BY <1>2, <1>3, <1>7, <2>1, <3>2 DEF Retractable, Side
    <3>3. QED
      BY <3>1, <3>2
  <2>5. QED
    BY <1>1, <1>2, <1>3, <1>7, <2>1, <2>2, <2>3, <2>4, WholeWriter DEF Halfway
<1>8. ASSUME NEW s \in Side, dirs' = [dirs EXCEPT ![t][s] = w], UNCHANGED <<target, made>>,
             \/ pc[r] = "chown" /\ s = "inbox" /\ Goto(r, "chownSent")
             \/ pc[r] = "chownSent" /\ s = "sent" /\ Goto(r, "write")
      PROVE  WholeInv'
  <2>1. /\ \A m \in Mailbox \ {t} : dirs'[m] = dirs[m]
        /\ \A z \in Side : dirs'[t][z] = IF z = s THEN w ELSE dirs[t][z]
        /\ pc'[r] = IF s = "inbox" THEN "chownSent" ELSE "write"
    BY <1>2, <1>8 DEF Goto, IInv, TypeOK
  <2>2. made[r] # {} => Retractable(r)'
    BY <1>2, <1>3, <1>8, <2>1 DEF Retractable, Side
  <2>3. s = "sent" => dirs'[t]["inbox"] = dirs'[t]["sent"]
    BY <1>3, <1>8, <2>1 DEF CreatorSafe, Side
  <2>4. QED
    BY <1>1, <1>2, <1>3, <1>8, <2>1, <2>2, <2>3, WholeWriter DEF Halfway, Side
<1>9. CASE MakeInbox(r)
  BY <1>4, <1>7, <1>9 DEF MakeInbox, Side, Halfway
<1>10. CASE MakeSent(r)
  <2>1. pc[r] = "mkdirSent" /\ "sent" \in Side
    BY <1>10 DEF MakeSent, Side
  <2>2. CASE \E a : Answer(r, a)
    <3>1. RemoveMade(r, {"inbox"})
      BY <1>10, <2>2 DEF MakeSent, Answer, Goto, IInv, TypeOK
    <3>2. QED
      BY <1>1, <1>2, <2>1, <2>2, <3>1, WholeTakeBack
  <2>3. CASE ~\E a : Answer(r, a)
    BY <1>7, <1>10, <2>1, <2>3 DEF MakeSent
  <2>4. QED
    BY <2>2, <2>3
<1>11. CASE ChownInbox(r)
  BY <1>5, <1>8, <1>11 DEF ChownInbox, ChownDir, Side
<1>12. CASE ChownSent(r)
  BY <1>5, <1>8, <1>12 DEF ChownSent, ChownDir, Side
<1>13. QED
  BY <1>6, <1>9, <1>10, <1>11, <1>12

(* INGEST and SEND store no mail where a CREATE might have to take back.   *)
LEMMA WholeMail ==
  ASSUME IInv, Equipped, DirsInv, WholeInv, NEW r \in Slot, OpenDir(r) \/ StoreMessage(r)
  PROVE  WholeInv'
<1>1. /\ OnlyOwn(r) /\ UNCHANGED dirs
      /\ snap[r] \in Account /\ Claim(target[r], snap[r])
      /\ mail' = mail \/ mail' = [mail EXCEPT ![target[r]] = @ \cup {SideOf(r)}]
  BY HandlersOwn, MailFindsOwner DEF IInv, Handle
<1>2. /\ op[r].verb # "CREATE" /\ made[r] = {} /\ made'[r] = {}
      /\ pc[r] \notin Halfway /\ pc'[r] \notin Halfway
  <2>1. op[r].verb # "CREATE" /\ made[r] = {} /\ pc[r] \notin Halfway
    BY DEF OpenDir, StoreMessage, Equipped, Halfway
  <2>2. made'[r] = {} /\ pc'[r] \notin Halfway
    BY <2>1 DEF OpenDir, StoreMessage, Answer, Goto, IInv, TypeOK, Halfway
  <2>3. QED
    BY <2>1, <2>2
<1>3. ASSUME NEW m \in Mailbox
      PROVE  Whole(m)'
  BY <1>1, <1>2 DEF WholeInv, Whole, OnlyOwn
<1>4. \A q \in Slot : made'[q] \in {{}, Side}
  BY <1>1, <1>2 DEF WholeInv, OnlyOwn
<1>5. ASSUME NEW q \in Slot, pc'[q] \in Making /\ made'[q] # {}
      PROVE  Retractable(q)'
  <2>1. /\ q # r /\ pc'[q] = pc[q] /\ target'[q] = target[q] /\ made'[q] = made[q]
        /\ target[q] \in Mailbox /\ target[r] \in Mailbox
    BY <1>1, <1>2, <1>5 DEF OnlyOwn, IInv, TypeOK
  <2>2. Retractable(q) /\ op[q].verb = "CREATE"
    BY <1>5, <2>1 DEF WholeInv, Equipped
  <2>3. target[q] # target[r]
    BY <1>1, <1>5, <2>1, <2>2 DEF DirsInv, CreatorAlone, CreatorSafe
  <2>4. mail'[target[q]] = mail[target[q]]
    BY <1>1, <2>1, <2>3 DEF IInv, TypeOK
  <2>5. QED
    BY <1>1, <2>1, <2>2, <2>4 DEF Retractable
<1>6. QED
  BY <1>3, <1>4, <1>5 DEF WholeInv

(* The rename of config.toml, or the roll-back when it fails.              *)
LEMMA WholeWrite ==
  ASSUME IInv, Equipped, DirsInv, WholeInv, NEW r \in Slot, WriteConfig(r)
  PROVE  WholeInv'
<1>1. OnlyOwn(r) /\ pc[r] = "write" /\ UNCHANGED mail
  BY HandlersOwn DEF IInv, Handle, WriteConfig
<1>2. CASE \E a : Answer(r, a)
  <2>1. RollBack(r)
    BY <1>2 DEF WriteConfig, Answer, Goto, IInv, TypeOK
  <2>2. QED
    BY <1>1, <1>2, <2>1, WholeTakeBack DEF RollBack
<1>3. CASE ~\E a : Answer(r, a)
  <2>1. pc'[r] = "store" /\ UNCHANGED <<dirs, made>>
    BY <1>3 DEF WriteConfig, Goto, IInv, TypeOK
  <2>2. QED
    BY <1>1, <2>1, WholeStay DEF Halfway
<1>4. QED
  BY <1>2, <1>3

(* The other handlers.                                                     *)
LEMMA WholeOther ==
  ASSUME IInv, Equipped, WholeInv, NEW r \in Slot,
         \/ SubmitMailbox(r) \/ SubmitHook(r) \/ SubmitMail(r) \/ Transport(r)
         \/ LockMailbox(r) \/ LockConfig(r)
         \/ AuthorizeDelete(r) \/ Wipe(r) \/ CountFiles(r)
         \/ EditHooks(r) \/ StoreConfig(r)
  PROVE  WholeInv'
<1>1. OnlyOwn(r)
  BY HandlersOwn DEF Handle, IInv
<1>2. UNCHANGED dirs
  BY DEF SubmitMailbox, SubmitHook, SubmitMail, Transport, LockMailbox, LockConfig,
     AuthorizeDelete, Wipe, CountFiles, EditHooks, StoreConfig
<1>3. \A m \in Mailbox : mail'[m] \subseteq mail[m]
  <2>1. CASE Wipe(r)
    <3>1. mail \in [Mailbox -> SUBSET Side]
      BY DEF IInv, TypeOK
    <3>2. \/ mail' = [mail EXCEPT ![target[r]] = {}]
          \/ \E wiped \in SUBSET {"inbox"} :
               mail' = [mail EXCEPT ![target[r]] = mail[target[r]] \ wiped]
      BY <2>1 DEF Wipe
    <3>3. QED
      BY <3>1, <3>2
  <2>2. mail' = mail \/ Wipe(r)
    BY DEF SubmitMailbox, SubmitHook, SubmitMail, Transport, LockMailbox, LockConfig,
       AuthorizeDelete, CountFiles, EditHooks, StoreConfig
  <2>3. QED
    BY <2>1, <2>2
<1>4. pc[r] \notin Halfway
  BY DEF SubmitMailbox, SubmitHook, SubmitMail, Transport, LockMailbox, LockConfig,
     AuthorizeDelete, Wipe, CountFiles, EditHooks, StoreConfig, Halfway
<1>5. /\ pc'[r] \notin Making \/ made'[r] = {}
      /\ made'[r] \in {made[r], {}}
  <2> USE DEF Goto, IInv, TypeOK, HandlersOnTrack, Equipped
  <2>1. CASE \E a : Answer(r, a)
    BY <2>1 DEF Answer
  <2>2. CASE ~\E a : Answer(r, a)
    <3> USE <2>2
    <3>1. CASE SubmitMailbox(r) \/ SubmitHook(r) \/ SubmitMail(r) \/ Transport(r)
      BY <3>1 DEF SubmitMailbox, SubmitHook, SubmitMail, Transport
    <3>2. CASE LockMailbox(r) \/ LockConfig(r)
      BY <3>2 DEF LockMailbox, LockConfig
    <3>3. CASE AuthorizeDelete(r) \/ Wipe(r) \/ CountFiles(r)
      BY <3>3 DEF AuthorizeDelete, Wipe, CountFiles
    <3>4. CASE EditHooks(r) \/ StoreConfig(r)
      BY <3>4 DEF EditHooks, EditAccepted, StoreConfig
    <3>5. QED
      BY <3>1, <3>2, <3>3, <3>4
  <2>3. QED
    BY <2>1, <2>2
<1>6. QED
  BY <1>1, <1>2, <1>3, <1>4, <1>5, WholeStay

(* The inductive invariant about halves.                                   *)
HalfInv ==
  PinnedInv /\ HoldsMailbox /\ (Undisturbed /\ env.crashes = 0 => WholeInv)

LEMMA InitHalf == Init => HalfInv
<1> SUFFICES ASSUME NEW c \in Starts, Start(c)
             PROVE  HalfInv
  BY DEF Init
<1>1. PinnedInv
  BY InitPinned DEF Init
<1>2. HoldsMailbox
  BY DEF Start, HoldsMailbox, MailboxLocked, ConfigLocked
<1>3. WholeInv
  BY DEF Start, WholeInv, Whole, Side
<1>4. QED
  BY <1>1, <1>2, <1>3 DEF HalfInv

(* So is a death of the daemon.                                            *)
LEMMA CrashedStays ==
  ASSUME TypeOK, [Next]_vars, env'.crashes = 0
  PROVE  env.crashes = 0 /\ ~Crash
<1> USE DEF TypeOK
<1>1. CASE UNCHANGED env
  BY <1>1 DEF Crash
<1>2. CASE ReloadRead \/ OperatorEdit \/ OperatorRmdir
  BY <1>2 DEF ReloadRead, OperatorEdit, OperatorRmdir, Crash
<1>3. CASE Crash
  BY <1>3 DEF Crash
<1>4. ASSUME NEW r \in Slot,
             SubmitMailbox(r) \/ SubmitHook(r) \/ SubmitMail(r) \/ Handle(r)
      PROVE  UNCHANGED env
  BY <1>4, HandlersOwn DEF OnlyOwn, outside
<1>5. CASE UNCHANGED vars \/ Quiescent \/ ReloadStore \/ Restart
  BY <1>1, <1>5 DEF Quiescent, ReloadStore, Restart, vars, outside
<1>6. QED
  BY <1>1, <1>2, <1>3, <1>4, <1>5 DEF Next

LEMMA HalfKeeps == HalfInv /\ [Next]_vars => HalfInv'
<1> SUFFICES ASSUME HalfInv, [Next]_vars
             PROVE  HalfInv'
  OBVIOUS
<1>1. PinnedInv' /\ HoldsMailbox'
  BY PinnedKeeps, HoldsKeeps DEF HalfInv, PinnedInv
<1>2. ASSUME Undisturbed', env'.crashes = 0
      PROVE  WholeInv'
  <2>1. /\ IInv /\ Equipped /\ DirsInv /\ WholeInv
        /\ ~OperatorEdit /\ ~OperatorRmdir /\ ~Crash
    BY <1>2, DisturbedStays, CrashedStays DEF HalfInv, PinnedInv, IInv
  <2>2. CASE UNCHANGED vars \/ Quiescent \/ ReloadRead \/ ReloadStore \/ Restart
    <3>1. UNCHANGED <<pc, target, made, dirs, mail>>
      BY <2>2 DEF Quiescent, ReloadRead, ReloadStore, Restart, vars, slotVars
    <3>2. QED
      BY <2>1, <3>1 DEF WholeInv, Whole, Retractable
  <2>3. ASSUME NEW r \in Slot,
               SubmitMailbox(r) \/ SubmitHook(r) \/ SubmitMail(r) \/ Handle(r)
        PROVE  WholeInv'
    BY <2>1, <2>3, WholeCreate, WholeWrite, WholeMail, WholeOther DEF Handle
  <2>4. QED
    BY <2>1, <2>2, <2>3 DEF Next
<1>3. QED
  BY <1>1, <1>2 DEF HalfInv

(* Whatever fails, and in whatever order handlers interleave, a mailbox    *)
(* nobody is working on has two directories of one owner, or none.         *)
THEOREM NoHalves == Spec => []NoHalfMailbox
<1>1. HalfInv => NoHalfMailbox
  <2> SUFFICES ASSUME HalfInv, WholeInv, NEW m \in Mailbox, mbLock[m] = NoSlot
               PROVE  dirs[m]["inbox"] = dirs[m]["sent"]
    BY DEF NoHalfMailbox, HalfInv, Undisturbed
  <2>1. \A r \in Slot : target[r] = m => pc[r] \notin Halfway
    BY SlotAssumption DEF HalfInv, HoldsMailbox, ConfigLocked, Halfway
  <2>2. QED
    BY <2>1 DEF WholeInv, Whole
<1>2. QED
  BY <1>1, InitHalf, HalfKeeps, PTL DEF Spec
=============================================================================
