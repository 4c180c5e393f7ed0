----------------------- MODULE ConfigRefinementProofs -----------------------
(***************************************************************************)
(* ConfigStore implements AtomicConfig: a proof for any number of clients, *)
(* mailboxes, accounts, hooks and deaths of the daemon, as long as nobody  *)
(* but the daemon changes the file, the snapshot or the directories.       *)
(*                                                                         *)
(* Each step of ConfigStore is classified by what its requester learns of  *)
(* it (StepKinds); each kind is a step of AtomicConfig, or none.  A change *)
(* is atomic because its writer was alone since its load (Entitled), and a *)
(* refusal is honest because what the handler found out is still recorded  *)
(* when it says so (Looked, MissedKnown).                                  *)
(***************************************************************************)
EXTENDS ConfigRefinement, ConfigStoreProofs

USE DEF Making

(* The daemon is the only writer of its file, snapshot and directories.    *)
OnlyWriter == MaxReloads = 0 /\ MaxEdits = 0 /\ MaxRmdirs = 0

Quiet ==
  /\ env.reloads = 0 /\ env.edits = 0 /\ env.rmdirs = 0
  /\ ~reload.pending /\ ~drift

(* A handler is done when its client has an answer.                        *)
Answered == \A r \in Slot : pc[r] = "done" <=> reply[r] # "none"

(* Whoever is about to write was entitled to, and still is.                *)
Entitled ==
  \A r \in Slot :
    /\ pc[r] \in Writing => Outcome(op[r], mem, next[r]) /\ Legal(op[r], mem)
    /\ pc[r] \in {"wipe", "count"} => Authorised(op[r].caller, mem, target[r])

(* The hook a HOOK-DELETE has found is where it was found, or its request  *)
(* has missed it.                                                          *)
Looked ==
  \A r \in Slot :
    pc[r] \in {"mailboxLock", "configLock", "edit"} /\ op[r].verb = "HOOK-DELETE" =>
      r \in missed \/ op[r].hook \in mem.hooks[target[r]]

MissedKnown == {r \in Slot : ~Legal(op[r], served)} \subseteq missed

(* The inductive invariant of the refinement.                              *)
AtomicInv ==
  /\ PinnedInv /\ UniqueCopies
  /\ Quiet /\ Answered /\ Entitled /\ Looked /\ MissedKnown

(* The steps of a handler, those before its locks included.                *)
Step(r) == SubmitMailbox(r) \/ SubmitHook(r) \/ SubmitMail(r) \/ Handle(r)

-----------------------------------------------------------------------------
(* The vocabulary of AtomicConfig is that of ConfigStore.                  *)
LEMMA SameWords ==
  /\ Atomic!Request = Request /\ Atomic!Config = Config
  /\ \A q, c : Atomic!Legal(q, c) <=> Legal(q, c)
  /\ \A q, c, d : Atomic!Outcome(q, c, d) <=> Outcome(q, c, d)
<1>1. Atomic!Account = Account /\ Atomic!Verbs = Verbs
  BY DEF Atomic!Account, Account, Atomic!Verbs, Verbs
<1>2. Atomic!Request = Request /\ Atomic!Config = Config
  BY <1>1 DEF Atomic!Request, Request, Atomic!Config, Config
<1>3. \A c, m : Atomic!Configured(c, m) <=> Configured(c, m)
  BY DEF Atomic!Configured, Configured
<1>4. \A c, h : Atomic!HookInUse(c, h) <=> HookInUse(c, h)
  BY DEF Atomic!HookInUse, HookInUse
<1>5. \A a, c, m : Atomic!Authorised(a, c, m) <=> Authorised(a, c, m)
  BY <1>3 DEF Atomic!Authorised, Authorised
<1>6. \A q, c : Atomic!Legal(q, c) <=> Legal(q, c)
  BY <1>3, <1>4, <1>5 DEF Atomic!Legal, Legal
<1>7. \A q, c, d : Atomic!Outcome(q, c, d) <=> Outcome(q, c, d)
  BY DEF Atomic!Outcome, Outcome, Atomic!WithMailbox, WithMailbox, Atomic!OwnerOf, OwnerOf,
     Atomic!WithoutMailbox, WithoutMailbox, Atomic!WithHook, WithHook,
     Atomic!WithoutHook, WithoutHook
<1>8. QED
  BY <1>2, <1>6, <1>7

-----------------------------------------------------------------------------
(* A hook verb that has passed its authorisation still has it: both the    *)
(* requester and the configured owner own the directories.                 *)
LEMMA AuthorityLasts ==
  ASSUME AtomicInv, NEW r \in Slot, pc[r] \notin {"idle", "done"},
         op[r].verb \in {"HOOK-CREATE", "HOOK-DELETE"}, Configured(mem, target[r])
  PROVE  Authorised(op[r].caller, mem, target[r])
<1>1. DirsInv
  BY DEF AtomicInv, Quiet, PinnedInv, Undisturbed
<1>2. op[r].caller \in Account /\ target[r] \in Mailbox /\ mem \in Config
  BY OpTypes DEF AtomicInv, PinnedInv, IInv, TypeOK
<1>3. mem.owner[target[r]] \in Account /\ Claim(target[r], mem.owner[target[r]])
  BY <1>2 DEF Configured, Config, Claim
<1>4. op[r].caller # Root => Claim(target[r], op[r].caller)
  BY DEF Claim, Believes
<1>5. "inbox" \in Side
  BY DEF Side
<1>6. op[r].caller # Root => op[r].caller = mem.owner[target[r]]
  BY <1>1, <1>2, <1>3, <1>4, <1>5 DEF DirsInv, ClaimsHeld
<1>7. QED
  BY <1>6 DEF Authorised

(* A request that is refused is, or was, not entitled to succeed.          *)
LEMMA RefusalsHonest ==
  ASSUME AtomicInv, NEW r \in Slot, Step(r), Answer(r, "refused")
  PROVE  r \in missed
<1>1. /\ TypeOK /\ HandlersOnTrack /\ HooksUnique(mem)
      /\ op[r].mailbox \in Mailbox /\ mem \in Config /\ target[r] \in Mailbox
  BY OpTypes DEF AtomicInv, PinnedInv, IInv, UniqueCopies, TypeOK
<1>2. up
  BY AtWorkUp DEF AtomicInv, PinnedInv, Step, SubmitMailbox, SubmitHook, SubmitMail, Handle,
     Transport, OpenDir, StoreMessage, LockMailbox, LockConfig, CheckCreate, MakeInbox,
     MakeSent, ChownInbox, ChownSent, ChownDir, AuthorizeDelete, Wipe, CountFiles,
     EditHooks, WriteConfig, StoreConfig
<1>3. SUFFICES ASSUME r \notin missed
               PROVE  ~Legal(op[r], mem)
  BY <1>2 DEF AtomicInv, MissedKnown, served
<1>4. pc'[r] = "done" /\ reply'[r] = "refused"
  BY <1>1 DEF Answer, Goto, TypeOK
<1>5. CASE SubmitHook(r)
  BY <1>1, <1>4, <1>5 DEF SubmitHook, HookOfCaller, HookAt, Legal, Authorised, Goto, TypeOK
<1>6. CASE SubmitMail(r)
  BY <1>1, <1>4, <1>6 DEF SubmitMail, Goto, TypeOK
<1>7. CASE CheckCreate(r)
  <2>1. Configured(mem, target[r]) /\ op[r].verb = "CREATE" /\ target[r] = op[r].mailbox
    BY <1>1, <1>4, <1>7 DEF CheckCreate, Answer, Goto, TypeOK, HandlersOnTrack
  <2>2. QED
    BY <2>1 DEF Legal
<1>8. CASE AuthorizeDelete(r)
  <2>1. /\ ~Authorised(op[r].caller, mem, target[r])
        /\ op[r].verb = "DELETE" /\ target[r] = op[r].mailbox
    BY <1>1, <1>4, <1>8 DEF AuthorizeDelete, Goto, TypeOK, HandlersOnTrack
  <2>2. QED
    BY <2>1 DEF Legal
<1>9. CASE EditHooks(r)
  <2>1. ~EditAccepted(r) /\ pc[r] = "edit"
    BY <1>1, <1>4, <1>9 DEF EditHooks, Goto, TypeOK
  <2>2. CASE op[r].verb = "HOOK-CREATE"
    <3>1. target[r] = op[r].mailbox
      BY <1>1, <2>2 DEF HandlersOnTrack
    <3>2. QED
      BY <1>1, <2>1, <2>2, <3>1 DEF EditAccepted, Legal, Authorised
  <2>3. CASE op[r].verb = "HOOK-DELETE"
    <3>1. op[r].hook \in mem.hooks[target[r]]
      BY <1>3, <2>1, <2>3 DEF AtomicInv, Looked
    <3>2. QED
      BY <2>1, <2>3, <3>1 DEF EditAccepted
  <2>4. QED
    BY <1>1, <2>1, <2>2, <2>3 DEF HandlersOnTrack
<1>10. QED
  BY <1>1, <1>4, <1>5, <1>6, <1>7, <1>8, <1>9 DEF Step, SubmitMailbox, Handle,
     Transport, OpenDir, StoreMessage, LockMailbox, LockConfig, MakeInbox,
     MakeSent, ChownInbox, ChownSent, ChownDir, Wipe, CountFiles,
     WriteConfig, StoreConfig, Answer, Goto, TypeOK

(* The four kinds of steps: a client learns nothing, it is told that its   *)
(* request failed or was refused, its mail is stored, or its change of the *)
(* configuration is.                                                       *)
Silent(r) == UNCHANGED <<mem, reply>> /\ pc'[r] # "done"
Declined(r) ==
  /\ UNCHANGED mem
  /\ Answer(r, "failed") \/ (Answer(r, "refused") /\ r \in missed)
Mailed(r) == UNCHANGED mem /\ Answer(r, "ok") /\ op[r].verb \in {"INGEST", "SEND"}

LEMMA StepKinds ==
  ASSUME AtomicInv, NEW r \in Slot, Step(r)
  PROVE  /\ up /\ OnlyOwn(r) /\ pc[r] # "done"
         /\ Silent(r) \/ Declined(r) \/ Mailed(r) \/ StoreConfig(r)
<1>1. TypeOK /\ IInv
  BY DEF AtomicInv, PinnedInv, IInv
<1>2. OnlyOwn(r)
  BY <1>1, HandlersOwn DEF Step
<1>3. pc[r] # "done" /\ up
  BY <1>1, AtWorkUp DEF Step, SubmitMailbox, SubmitHook, SubmitMail, Handle,
     Transport, OpenDir, StoreMessage, LockMailbox, LockConfig, CheckCreate, MakeInbox,
     MakeSent, ChownInbox, ChownSent, ChownDir, AuthorizeDelete, Wipe, CountFiles,
     EditHooks, WriteConfig, StoreConfig
<1>4. CASE StoreConfig(r)
  BY <1>2, <1>3, <1>4
<1>5. ASSUME ~StoreConfig(r)
      PROVE  Silent(r) \/ Declined(r) \/ Mailed(r)
  <2>1. UNCHANGED mem
    BY <1>5 DEF Step, Handle, SubmitMailbox, SubmitHook, SubmitMail, Transport, OpenDir,
       StoreMessage, LockMailbox, LockConfig, CheckCreate, MakeInbox, MakeSent, ChownInbox,
       ChownSent, ChownDir, AuthorizeDelete, Wipe, CountFiles, EditHooks, WriteConfig
  <2>2. CASE OpenDir(r) \/ StoreMessage(r)
    <3>1. op[r].verb \in {"INGEST", "SEND"}
      BY <2>2 DEF AtomicInv, PinnedInv, Equipped, OpenDir, StoreMessage
    <3>2. CASE \E a \in {"ok", "failed"} : Answer(r, a)
      BY <2>1, <3>1, <3>2 DEF Mailed, Declined
    <3>3. CASE ~\E a \in {"ok", "failed"} : Answer(r, a)
      BY <1>1, <2>1, <2>2, <3>3 DEF OpenDir, StoreMessage, Goto, TypeOK, Silent
    <3>4. QED
      BY <3>2, <3>3
  <2>3. CASE ~(OpenDir(r) \/ StoreMessage(r))
    <3>1. CASE Answer(r, "refused")
      BY <2>1, <3>1, RefusalsHonest DEF Declined
    <3>2. CASE Answer(r, "failed")
      BY <2>1, <3>2 DEF Declined
    <3>3. CASE ~Answer(r, "refused") /\ ~Answer(r, "failed")
      <4>1. UNCHANGED reply /\ \E l \in Labels \ {"done"} : Goto(r, l)
        <5> USE DEF Labels, MailboxLocked, ConfigLocked
        <5>1. CASE SubmitMailbox(r) \/ SubmitHook(r) \/ SubmitMail(r)
          BY <3>3, <5>1 DEF SubmitMailbox, SubmitHook, SubmitMail
        <5>2. CASE Transport(r) \/ LockMailbox(r) \/ LockConfig(r)
          BY <3>3, <5>2 DEF Transport, LockMailbox, LockConfig
        <5>3. CASE CheckCreate(r) \/ MakeInbox(r) \/ MakeSent(r) \/ ChownInbox(r) \/ ChownSent(r)
          BY <3>3, <5>3 DEF CheckCreate, MakeInbox, MakeSent, ChownInbox, ChownSent, ChownDir
        <5>4. CASE AuthorizeDelete(r) \/ Wipe(r) \/ CountFiles(r)
          BY <3>3, <5>4 DEF AuthorizeDelete, Wipe, CountFiles
        <5>5. CASE EditHooks(r) \/ WriteConfig(r)
          BY <3>3, <5>5 DEF EditHooks, WriteConfig
        <5>6. QED
          BY <1>5, <2>3, <5>1, <5>2, <5>3, <5>4, <5>5 DEF Step, Handle
      <4>2. QED
        BY <1>1, <2>1, <4>1 DEF Goto, TypeOK, Silent
    <3>4. QED
      BY <3>1, <3>2, <3>3
  <2>4. QED
    BY <2>2, <2>3
<1>6. QED
  BY <1>2, <1>3, <1>4, <1>5

(* What StoreConfig does to the snapshot is what the request means.        *)
LEMMA StoreIsOutcome ==
  ASSUME AtomicInv, NEW r \in Slot, StoreConfig(r)
  PROVE  Legal(op[r], mem) /\ Outcome(op[r], mem, mem') /\ Answer(r, "ok")
BY DEF AtomicInv, Entitled, StoreConfig, Writing

-----------------------------------------------------------------------------
(* The invariant is inductive.                                             *)

LEMMA InitAtomic == HInit => AtomicInv
<1> SUFFICES ASSUME HInit
             PROVE  AtomicInv
  OBVIOUS
<1>1. PinnedInv
  BY InitPinned DEF HInit
<1>2. UniqueCopies
  <2>1. HooksUnique(EmptyConfig)
    BY DEF HooksUnique, EmptyConfig
  <2>2. QED
    BY <2>1, StartsAssumption DEF HInit, Init, Start, UniqueCopies, Loadable, Writing
<1>3. Quiet /\ Answered /\ Entitled /\ Looked
  BY DEF HInit, Init, Start, Quiet, Answered, Entitled, Looked, Writing
<1>4. MissedKnown
  BY DEF HInit, MissedKnown
<1>5. QED
  BY <1>1, <1>2, <1>3, <1>4 DEF AtomicInv

(* No outside event comes in.                                              *)
LEMMA QuietKeeps ==
  ASSUME AtomicInv, OnlyWriter, [Next]_vars
  PROVE  /\ Quiet'
         /\ \/ \E r \in Slot : Step(r)
            \/ Crash \/ Restart
            \/ UNCHANGED vars
<1>1. ~ReloadRead /\ ~ReloadStore /\ ~OperatorEdit /\ ~OperatorRmdir
  BY DEF AtomicInv, Quiet, OnlyWriter, ReloadRead, ReloadStore, OperatorEdit, OperatorRmdir
<1>2. ASSUME NEW r \in Slot, Step(r)
      PROVE  Quiet'
  BY <1>2, StepKinds DEF AtomicInv, Quiet, OnlyOwn, outside
<1>3. CASE Crash
  BY <1>3 DEF AtomicInv, PinnedInv, IInv, TypeOK, Quiet, Crash
<1>4. CASE Restart
  BY <1>4 DEF AtomicInv, Quiet, Restart
<1>5. CASE UNCHANGED vars
  BY <1>5 DEF AtomicInv, Quiet, vars, outside
<1>6. QED
  BY <1>1, <1>2, <1>3, <1>4, <1>5 DEF Next, Step, Quiescent

LEMMA AnsweredKeeps ==
  ASSUME AtomicInv, OnlyWriter, [Next]_vars
  PROVE  Answered'
<1>1. TypeOK /\ Answered
  BY DEF AtomicInv, PinnedInv, IInv
<1>2. ASSUME NEW r \in Slot, Step(r)
      PROVE  Answered'
  <2>1. \A q \in Slot \ {r} : pc'[q] = pc[q] /\ reply'[q] = reply[q]
    BY <1>2, StepKinds DEF OnlyOwn
  <2>2. pc'[r] = "done" <=> reply'[r] # "none"
    BY <1>1, <1>2, StepKinds, StoreIsOutcome
       DEF Silent, Declined, Mailed, Answer, Goto, TypeOK, Answered
  <2>3. QED
    BY <1>1, <2>1, <2>2 DEF Answered
<1>3. CASE Crash
  BY <1>1, <1>3 DEF TypeOK, Answered, Crash
<1>4. CASE Restart \/ UNCHANGED vars
  BY <1>1, <1>4 DEF Answered, Restart, vars, slotVars
<1>5. QED
  BY <1>2, <1>3, <1>4, QuietKeeps

(* A writer is alone with the snapshot from its load to its answer.        *)
LEMMA EntitledKeeps ==
  ASSUME AtomicInv, OnlyWriter, [Next]_vars
  PROVE  Entitled'
<1>1. IInv /\ Entitled /\ TypeOK
  BY DEF AtomicInv, PinnedInv, IInv
<1>2. ASSUME NEW r \in Slot, Step(r)
      PROVE  Entitled'
  <2>1. /\ OnlyOwn(r) /\ op' = op
        /\ op[r].mailbox \in Mailbox /\ mem \in Config /\ target[r] \in Mailbox
    BY <1>1, <1>2, StepKinds, OpTypes DEF OnlyOwn, TypeOK
  <2>2. ASSUME NEW q \in Slot \ {r}, pc'[q] \in Writing \cup {"wipe", "count"}
        PROVE  UNCHANGED mem
    <3>1. pc[q] = pc'[q] /\ pc[q] \in ConfigLocked
      BY <2>1, <2>2 DEF OnlyOwn, Writing, ConfigLocked
    <3>2. ~StoreConfig(r)
      BY <1>1, <3>1 DEF IInv, OneWriter, StoreConfig, ConfigLocked
    <3>3. QED
      BY <1>2, <3>2, StepKinds DEF Silent, Declined, Mailed
  <2>3. ASSUME pc'[r] \in Writing
        PROVE  Outcome(op[r], mem', next'[r]) /\ Legal(op[r], mem')
    <3>1. ~\E a : Answer(r, a)
      BY <1>1, <2>3 DEF Answer, Goto, TypeOK, Writing
    <3>2. UNCHANGED mem
      BY <1>2, <3>1, StepKinds, StoreIsOutcome DEF Silent, Declined, Mailed
    <3>3. CASE CheckCreate(r)
      <4>1. /\ op[r].verb = "CREATE" /\ target[r] = op[r].mailbox
            /\ ~Configured(mem, target[r])
            /\ next'[r] = WithMailbox(mem, target[r], OwnerOf(op[r]))
        BY <1>1, <3>1, <3>3 DEF CheckCreate, IInv, HandlersOnTrack, TypeOK
      <4>2. QED
        BY <3>2, <4>1 DEF Legal, Outcome
    <3>4. CASE CountFiles(r)
      <4>1. /\ op[r].verb = "DELETE" /\ target[r] = op[r].mailbox
            /\ Authorised(op[r].caller, mem, target[r])
            /\ next'[r] = WithoutMailbox(mem, target[r])
        BY <1>1, <3>1, <3>4 DEF CountFiles, IInv, HandlersOnTrack, TypeOK, Entitled
      <4>2. QED
        BY <3>2, <4>1 DEF Legal, Outcome
    <3>5. CASE EditHooks(r)
      <4>1. /\ pc[r] = "edit" /\ op[r].verb \in {"HOOK-CREATE", "HOOK-DELETE"}
            /\ EditAccepted(r)
            /\ next'[r] = IF op[r].verb = "HOOK-CREATE"
                            THEN WithHook(mem, target[r], op[r].hook)
                            ELSE WithoutHook(mem, target[r], op[r].hook)
        BY <1>1, <3>1, <3>5 DEF EditHooks, IInv, HandlersOnTrack, TypeOK
      <4>2. Configured(mem, target[r])
        BY <2>1, <4>1 DEF EditAccepted, Config, Configured
      <4>3. Authorised(op[r].caller, mem, target[r])
        BY <4>1, <4>2, AuthorityLasts
      <4>4. CASE op[r].verb = "HOOK-CREATE"
        <5>1. target[r] = op[r].mailbox /\ ~HookInUse(mem, op[r].hook)
          BY <1>1, <4>1, <4>4 DEF IInv, HandlersOnTrack, EditAccepted
        <5>2. QED
          BY <3>2, <4>1, <4>3, <4>4, <5>1 DEF Legal, Outcome
      <4>5. CASE op[r].verb = "HOOK-DELETE"
        <5>1. op[r].hook \in mem.hooks[target[r]]
          BY <4>1, <4>5 DEF EditAccepted
        <5>2. QED
          BY <2>1, <3>2, <4>1, <4>3, <4>5, <5>1 DEF Legal, Outcome
      <4>6. QED
        BY <4>1, <4>4, <4>5
    <3>6. CASE MakeInbox(r) \/ MakeSent(r) \/ ChownInbox(r) \/ ChownSent(r) \/ WriteConfig(r)
      <4>1. pc[r] \in Writing /\ next'[r] = next[r]
        BY <3>1, <3>6 DEF MakeInbox, MakeSent, ChownInbox, ChownSent, ChownDir, WriteConfig,
           Writing
      <4>2. QED
        BY <1>1, <3>2, <4>1 DEF Entitled
    <3>7. QED
      BY <1>1, <1>2, <2>3, <3>1, <3>3, <3>4, <3>5, <3>6 DEF Step, Handle, SubmitMailbox,
         SubmitHook, SubmitMail, Transport, OpenDir, StoreMessage, LockMailbox, LockConfig,
         AuthorizeDelete, Wipe, StoreConfig, Goto, TypeOK, Writing
  <2>4. ASSUME pc'[r] \in {"wipe", "count"}
        PROVE  Authorised(op[r].caller, mem', target'[r])
    <3>1. ~\E a : Answer(r, a)
      BY <1>1, <2>4 DEF Answer, Goto, TypeOK
    <3>2. AuthorizeDelete(r) \/ Wipe(r)
      BY <1>1, <1>2, <2>4, <3>1 DEF Step, Handle, SubmitMailbox, SubmitHook, SubmitMail,
         Transport, OpenDir, StoreMessage, LockMailbox, LockConfig, CheckCreate, MakeInbox,
         MakeSent, ChownInbox, ChownSent, ChownDir, CountFiles, EditHooks, WriteConfig,
         StoreConfig, Goto, TypeOK
    <3>3. UNCHANGED <<mem, target>>
      BY <3>1, <3>2 DEF AuthorizeDelete, Wipe
    <3>4. QED
      BY <1>1, <3>1, <3>2, <3>3 DEF AuthorizeDelete, Wipe, Entitled
  <2>5. QED
    BY <1>1, <2>1, <2>2, <2>3, <2>4 DEF OnlyOwn, Entitled
<1>3. CASE Crash
  BY <1>3 DEF Crash, Entitled, Writing
<1>4. CASE Restart
  BY <1>1, <1>4 DEF Restart, slotVars, IInv, DownIsQuiet, Entitled, Writing
<1>5. CASE UNCHANGED vars
  BY <1>1, <1>5 DEF Entitled, vars, slotVars
<1>6. QED
  BY <1>2, <1>3, <1>4, <1>5, QuietKeeps

(* A change of the snapshot that takes a hook away from its mailbox leaves *)
(* it nowhere: names were unique.                                          *)
LEMMA HookGone ==
  ASSUME NEW q \in Request, NEW c \in Config, NEW d, NEW m \in Mailbox, NEW h,
         HooksUnique(c), Legal(q, c), Outcome(q, c, d),
         h \in c.hooks[m], h \notin d.hooks[m]
  PROVE  \A n \in Mailbox : h \notin d.hooks[n]
<1>1. q.mailbox \in Mailbox /\ c.hooks \in [Mailbox -> SUBSET Hook]
  BY DEF Request, Config
<1>2. \A n \in Mailbox \ {m} : h \notin c.hooks[n]
  BY DEF HooksUnique
<1>3. CASE q.verb = "CREATE"
  BY <1>1, <1>3 DEF Legal, Outcome, WithMailbox, Configured, Config
<1>4. CASE q.verb = "DELETE"
  <2>1. d = WithoutMailbox(c, q.mailbox)
    BY <1>4 DEF Outcome
  <2>2. d.hooks = [c.hooks EXCEPT ![q.mailbox] = {}]
    BY <2>1 DEF WithoutMailbox
  <2>3. QED
    BY <1>1, <1>2, <2>2
<1>5. CASE q.verb = "HOOK-CREATE"
  BY <1>1, <1>5 DEF Outcome, WithHook
<1>6. CASE q.verb = "HOOK-DELETE"
  <2>1. PICK n \in Mailbox : d = WithoutHook(c, n, q.hook)
    BY <1>6 DEF Outcome
  <2>2. d.hooks = [c.hooks EXCEPT ![n] = @ \ {q.hook}]
    BY <2>1 DEF WithoutHook
  <2>3. QED
    BY <1>1, <1>2, <2>2
<1>7. CASE q.verb \in {"INGEST", "SEND"}
  BY <1>7 DEF Outcome
<1>8. QED
  BY <1>3, <1>4, <1>5, <1>6, <1>7 DEF Request, Verbs

LEMMA MissedKeeps ==
  ASSUME AtomicInv, OnlyWriter, [Next]_vars,
         missed' = missed \cup {r \in Slot : ~Legal(op[r], served')}
  PROVE  op' = op /\ MissedKnown'
<1>1. op' = op
  BY QuietKeeps, StepKinds DEF OnlyOwn, Crash, Restart, vars, slotVars
<1>2. QED
  BY <1>1 DEF MissedKnown

LEMMA LookedKeeps ==
  ASSUME AtomicInv, OnlyWriter, [Next]_vars,
         missed' = missed \cup {r \in Slot : ~Legal(op[r], served')}
  PROVE  Looked'
<1>1. IInv /\ Looked /\ TypeOK /\ HooksUnique(mem) /\ mem \in Config /\ op' = op
  BY MissedKeeps DEF AtomicInv, PinnedInv, IInv, TypeOK, UniqueCopies
<1> DEFINE Looking == {"mailboxLock", "configLock", "edit"}
<1>2. ASSUME NEW r \in Slot, Step(r), NEW q \in Slot, pc'[q] \in Looking,
             op[q].verb = "HOOK-DELETE", q \notin missed'
      PROVE  op[q].hook \in mem'.hooks[target'[q]]
  <2>1. OnlyOwn(r) /\ up /\ up' /\ q \notin missed
    BY <1>2, StepKinds DEF OnlyOwn
  <2>2. CASE q = r
    <3>1. ~\E a : Answer(q, a)
      BY <1>1, <1>2, <2>2 DEF Answer, Goto, TypeOK
    <3>2. UNCHANGED mem
      BY <1>2, <2>2, <3>1, StepKinds, StoreIsOutcome DEF Silent, Declined, Mailed
    <3>3. CASE SubmitHook(q)
      <4>1. PICK m \in Mailbox : op[q].hook \in mem.hooks[m] /\ target' = [target EXCEPT ![q] = m]
        BY <1>2, <3>1, <3>3 DEF SubmitHook, HookOfCaller, HookAt
      <4>2. QED
        BY <1>1, <3>2, <4>1 DEF TypeOK
    <3>4. CASE LockMailbox(q) \/ LockConfig(q)
      <4>1. target' = target /\ pc[q] \in Looking
        BY <3>4 DEF LockMailbox, LockConfig
      <4>2. QED
        BY <1>1, <1>2, <2>1, <3>2, <4>1 DEF Looked
    <3>5. QED
      <4>1. ~SubmitMailbox(q)
        BY <1>2 DEF SubmitMailbox
      <4>2. ~OpenDir(q)
        BY <1>2 DEF AtomicInv, PinnedInv, Equipped, OpenDir
      <4>3. QED
        BY <1>1, <1>2, <2>2, <3>1, <3>3, <3>4, <4>1, <4>2 DEF Step, Handle, SubmitMail,
           Transport, StoreMessage, CheckCreate, MakeInbox, MakeSent, ChownInbox, ChownSent,
           ChownDir, AuthorizeDelete, Wipe, CountFiles, EditHooks, WriteConfig, StoreConfig,
           Goto, TypeOK
  <2>3. CASE q # r
    <3>1. pc'[q] = pc[q] /\ target'[q] = target[q]
      BY <2>1, <2>3 DEF OnlyOwn
    <3>2. op[q].hook \in mem.hooks[target[q]]
      BY <1>1, <1>2, <2>1, <3>1 DEF Looked
    <3>3. CASE StoreConfig(r)
      <4>1. Legal(op[r], mem) /\ Outcome(op[r], mem, mem')
        BY <3>3, StoreIsOutcome
      <4>2. op[r] \in Request /\ target[q] \in Mailbox
        BY <1>1, OpTypes DEF TypeOK
      <4>3. Legal(op[q], mem')
        BY <1>2, <2>1 DEF served
      <4>4. \E n \in Mailbox : op[q].hook \in mem'.hooks[n]
        BY <1>2, <4>3 DEF Legal
      <4>5. QED
        BY <1>1, <3>1, <3>2, <4>1, <4>2, <4>4, HookGone
    <3>4. CASE ~StoreConfig(r)
      <4>1. UNCHANGED mem
        BY <1>2, <3>4, StepKinds DEF Silent, Declined, Mailed
      <4>2. QED
        BY <3>1, <3>2, <4>1
    <3>5. QED
      BY <3>3, <3>4
  <2>4. QED
    BY <2>2, <2>3
<1>3. CASE \E r \in Slot : Step(r)
  BY <1>1, <1>2, <1>3 DEF Looked
<1>4. CASE Crash
  BY <1>1, <1>4 DEF Crash, Looked
<1>5. CASE Restart
  BY <1>1, <1>5 DEF Restart, slotVars, IInv, DownIsQuiet, Looked
<1>6. CASE UNCHANGED vars
  BY <1>1, <1>6 DEF Looked, vars, slotVars
<1>7. QED
  BY <1>3, <1>4, <1>5, <1>6, QuietKeeps

LEMMA AtomicKeeps ==
  ASSUME AtomicInv, OnlyWriter, [HNext]_hvars
  PROVE  AtomicInv'
<1>1. CASE HNext
  <2>1. [Next]_vars /\ missed' = missed \cup {r \in Slot : ~Legal(op[r], served')}
    BY <1>1 DEF HNext
  <2>2. PinnedInv' /\ UniqueCopies'
    BY <2>1, PinnedKeeps, UniqueKeeps DEF AtomicInv, PinnedInv, IInv
  <2>3. QED
    BY <2>1, <2>2, QuietKeeps, AnsweredKeeps, EntitledKeeps, LookedKeeps, MissedKeeps
       DEF AtomicInv
<1>2. CASE UNCHANGED hvars
  <2>1. [Next]_vars /\ UNCHANGED <<vars, missed>>
    BY <1>2 DEF hvars
  <2>2. PinnedInv' /\ UniqueCopies'
    BY <2>1, PinnedKeeps, UniqueKeeps DEF AtomicInv, PinnedInv, IInv
  <2>3. Quiet' /\ Answered' /\ Entitled'
    BY <2>1, QuietKeeps, AnsweredKeeps, EntitledKeeps
  <2>4. Looked' /\ MissedKnown'
    BY <2>1 DEF vars, slotVars, AtomicInv, Looked, MissedKnown, served
  <2>5. QED
    BY <2>2, <2>3, <2>4 DEF AtomicInv
<1>3. QED
  BY <1>1, <1>2

-----------------------------------------------------------------------------
(* The refinement, step by step.                                           *)

LEMMA InitImplements == HInit => Atomic!Init
<1> SUFFICES ASSUME HInit
             PROVE  Atomic!Init
  OBVIOUS
<1>1. PICK c \in Starts : Start(c)
  BY DEF HInit, Init
<1>2. served = mem /\ mem \in Config
  BY <1>1, StartsAssumption DEF Start, served
<1>3. op \in [Slot -> Request]
  BY <1>1, OpsAssumption DEF Start
<1>4. status = [r \in Slot |-> "open"]
  BY <1>1 DEF Start, status
<1>5. missed = {r \in Slot : ~Legal(op[r], served)}
  BY DEF HInit
<1>6. QED
  BY <1>2, <1>3, <1>4, <1>5, SameWords DEF Atomic!Init

(* What the client of r sees of an answer.                                 *)
LEMMA AnswerSeen ==
  ASSUME TypeOK, Answered, NEW r \in Slot, pc[r] # "done",
         NEW a \in {"ok", "refused", "failed"}, Answer(r, a)
  PROVE  status[r] = "open" /\ status' = [status EXCEPT ![r] = a]
<1>1. reply[r] = "none" /\ reply' = [reply EXCEPT ![r] = a]
  BY DEF Answered, Answer
<1>2. QED
  BY <1>1 DEF TypeOK, status

(* As long as the configuration clients see stays, so does what they know. *)
LEMMA NothingMissed ==
  ASSUME MissedKnown, UNCHANGED served,
         missed' = missed \cup {r \in Slot : ~Legal(op[r], served')}
  PROVE  UNCHANGED missed
BY DEF MissedKnown

LEMMA StepImplements ==
  ASSUME AtomicInv, NEW r \in Slot, Step(r),
         missed' = missed \cup {q \in Slot : ~Legal(op[q], served')}
  PROVE  [Atomic!Next]_(Atomic!vars)
<1>1. /\ TypeOK /\ Answered /\ MissedKnown /\ op' = op /\ up /\ up' /\ pc[r] # "done"
      /\ served = mem /\ served' = mem'
      /\ Silent(r) \/ Declined(r) \/ Mailed(r) \/ StoreConfig(r)
  BY StepKinds DEF AtomicInv, PinnedInv, IInv, OnlyOwn, served
<1>2. CASE Silent(r)
  <2>1. UNCHANGED <<served, op, status, missed>>
    BY <1>1, <1>2, NothingMissed DEF Silent, status
  <2>2. QED
    BY <2>1 DEF Atomic!vars
<1>3. CASE Declined(r)
  <2>1. UNCHANGED <<served, op, missed>>
    BY <1>1, <1>3, NothingMissed DEF Declined
  <2>2. CASE Answer(r, "failed")
    BY <1>1, <2>1, <2>2, AnswerSeen DEF Atomic!Next, Atomic!Fail
  <2>3. CASE Answer(r, "refused") /\ r \in missed
    BY <1>1, <2>1, <2>3, AnswerSeen DEF Atomic!Next, Atomic!Refuse
  <2>4. QED
    BY <1>3, <2>2, <2>3 DEF Declined
<1>4. CASE Mailed(r) \/ StoreConfig(r)
  <2>1. /\ Answer(r, "ok") /\ Outcome(op[r], served, served')
        /\ Legal(op[r], served) \/ op[r].verb \in {"INGEST", "SEND"}
    BY <1>1, <1>4, StoreIsOutcome DEF Mailed, Outcome
  <2>2. status[r] = "open" /\ status' = [status EXCEPT ![r] = "ok"]
    BY <1>1, <2>1, AnswerSeen
  <2>3. Atomic!Observe
    BY <1>1, SameWords DEF Atomic!Observe
  <2>4. Atomic!Succeed(r)
    BY <1>1, <2>1, <2>2, <2>3, SameWords DEF Atomic!Succeed
  <2>5. QED
    BY <2>4 DEF Atomic!Next
<1>5. QED
  BY <1>1, <1>2, <1>3, <1>4

(* A crash shows the file: what it was, or what the one writer that has    *)
(* renamed and not yet stored was about to say "ok" to.                    *)
LEMMA CrashImplements ==
  ASSUME AtomicInv, Crash,
         missed' = missed \cup {q \in Slot : ~Legal(op[q], served')}
  PROVE  Atomic!Next
<1> DEFINE Open == {r \in Slot : pc[r] \notin {"idle", "done"}}
<1>1. IInv /\ TypeOK /\ Answered /\ Quiet /\ Entitled
  BY DEF AtomicInv, PinnedInv, IInv
<1>2. op' = op /\ served = mem /\ served' = disk
  BY DEF Crash, served
<1>3. \A r \in Open : status[r] = "open"
  BY <1>1 DEF Answered, status
<1>4. status' = [r \in Slot |-> IF r \in Open THEN "lost" ELSE status[r]]
  BY <1>1 DEF Crash, status, TypeOK
<1>5. \/ served' = served
      \/ \E r \in Open : Legal(op[r], served) /\ Outcome(op[r], served, served')
  <2>1. CASE \A r \in Slot : pc[r] # "store"
    BY <1>1, <1>2, <2>1 DEF Crash, IInv, WriterKnows, Quiet
  <2>2. CASE \E r \in Slot : pc[r] = "store"
    <3>1. PICK r \in Slot : pc[r] = "store"
      BY <2>2
    <3>2. disk = next[r]
      BY <1>1, <3>1 DEF Crash, IInv, WriterKnows, Quiet
    <3>3. r \in Open /\ Legal(op[r], served) /\ Outcome(op[r], served, served')
      BY <1>1, <1>2, <3>1, <3>2 DEF Entitled, Writing
    <3>4. QED
      BY <3>3
  <2>3. QED
    BY <2>1, <2>2
<1>6. Atomic!Observe
  BY <1>2, SameWords DEF Atomic!Observe
<1>7. Atomic!Crash(Open)
  BY <1>2, <1>3, <1>4, <1>5, <1>6, SameWords DEF Atomic!Crash
<1>8. QED
  BY <1>7 DEF Atomic!Next

(* The daemon comes up with the configuration that was there while it was  *)
(* down.                                                                   *)
LEMMA RestartImplements ==
  ASSUME AtomicInv, Restart,
         missed' = missed \cup {q \in Slot : ~Legal(op[q], served')}
  PROVE  UNCHANGED Atomic!vars
<1>1. UNCHANGED <<served, op, status>>
  BY DEF Restart, slotVars, served, status
<1>2. UNCHANGED missed
  BY <1>1, NothingMissed DEF AtomicInv
<1>3. QED
  BY <1>1, <1>2 DEF Atomic!vars

LEMMA NextImplements ==
  ASSUME AtomicInv, OnlyWriter, [HNext]_hvars
  PROVE  [Atomic!Next]_(Atomic!vars)
<1>1. CASE HNext
  <2>1. [Next]_vars /\ missed' = missed \cup {q \in Slot : ~Legal(op[q], served')}
    BY <1>1 DEF HNext
  <2>2. CASE UNCHANGED vars
    <3>1. UNCHANGED <<served, op, status>>
      BY <2>2 DEF vars, slotVars, served, status
    <3>2. UNCHANGED missed
      BY <2>1, <3>1, NothingMissed DEF AtomicInv
    <3>3. QED
      BY <3>1, <3>2 DEF Atomic!vars
  <2>3. QED
    BY <2>1, <2>2, QuietKeeps, StepImplements, CrashImplements, RestartImplements
<1>2. CASE UNCHANGED hvars
  BY <1>2 DEF hvars, vars, slotVars, served, status, Atomic!vars
<1>3. QED
  BY <1>1, <1>2

(* Linearizability of the four changes of the configuration: as long as    *)
(* the daemon is the only writer, every interleaving of handlers, crashes  *)
(* and restarts looks to its clients like a configuration that changes in  *)
(* one step per request, or not at all, and every answer is true of a      *)
(* moment at which the request was open.                                   *)
THEOREM ConfigIsAtomic ==
  ASSUME OnlyWriter
  PROVE  HSpec => ImplementsAtomicConfig
<1>1. AtomicInv /\ [HNext]_hvars => AtomicInv'
  BY AtomicKeeps
<1>2. AtomicInv /\ [HNext]_hvars => [Atomic!Next]_(Atomic!vars)
  BY NextImplements
<1>3. QED
  BY <1>1, <1>2, InitAtomic, InitImplements, PTL DEF HSpec, ImplementsAtomicConfig, Atomic!Spec
=============================================================================
