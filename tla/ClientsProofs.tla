--------------------------- MODULE ClientsProofs ---------------------------
(***************************************************************************)
(* Proofs about Clients, for any clients, commands, mailboxes and letters: *)
(* what a command tells its user is what happened to config.toml, the file *)
(* stays loadable whatever daemon and fallback write over each other, and  *)
(* an agent that pages to the end has been shown every letter.             *)
(***************************************************************************)
EXTENDS Clients, FiniteSetTheorems, TLAPS

(* The steps of one client.                                                *)
ClientStep(c) ==
  \/ Start(c) \/ Ask(c) \/ Lookup(c) \/ Resolve(c) \/ Connect(c) \/ NoDaemon(c)
  \/ Direct(c) \/ Mkdir(c) \/ Chown(c) \/ Wipe(c) \/ Save(c) \/ Rmdir(c)
  \/ Turn(c) \/ Row(c) \/ PageEnds(c)

DaemonStep ==
  \/ Load \/ Bind \/ Stop
  \/ \E m \in Mailbox, l \in Letter : Arrive(m, l) \/ Land(m, l)

(* A client that does nothing may at most be owed nothing any more.        *)
Rests(c) ==
  /\ pc'[c] = pc[c] /\ result'[c] = result[c] /\ copy'[c] = copy[c] /\ wrote'[c] = wrote[c]
  /\ offset'[c] = offset[c] /\ page'[c] = page[c] /\ rows'[c] = rows[c] /\ seen'[c] = seen[c]
  /\ owed'[c] \in {owed[c], {}}

(* The fallback is the business of root's aimx alone, on the copy it has;  *)
(* and a command that has not ended yet has written nothing, except in     *)
(* front of the last rmdir.                                                *)
Fallback == {"direct", "mkdir", "chown", "wipe", "save", "rmdir"}
OnTrack(c) ==
  /\ pc[c] \in Fallback => copy[c] # NoCopy
  /\ pc[c] \in Fallback => cmd[c].verb \in ConfigVerbs
  /\ pc[c] = "mkdir" => ~Configured(copy[c], cmd[c].mailbox)
  /\ pc[c] \in {"mkdir", "chown"} => cmd[c].verb = "CREATE"
  /\ pc[c] \in {"ask", "connect"} /\ copy[c] # NoCopy => cmd[c].verb \in ConfigVerbs
  /\ pc[c] \in {"lookup", "resolve", "page", "row"} => copy[c] = NoCopy
  /\ pc[c] = "resolve" => cmd[c].verb \in {"READ", "REPLY"}
  /\ pc[c] \in {"page", "row"} => cmd[c].verb = "PAGE"
  /\ pc[c] \notin {"rmdir", "end"} => wrote[c] = 0
  /\ pc[c] = "rmdir" => wrote[c] = 1
  /\ pc[c] # "end" => result[c] = ""

(* ToldTruth of one client.                                                *)
Truthful(c) ==
  cmd[c].verb \in ConfigVerbs =>
    /\ result[c] \in {"done", "leftover"} => wrote[c] = 1
    /\ result[c] \in {"refused", "failed"} => wrote[c] = 0

Tracked == \A c \in Client : OnTrack(c) /\ Truthful(c)

-----------------------------------------------------------------------------
(* The operators on configurations.                                        *)

LEMMA CommandTypes ==
  ASSUME TypeOK, NEW c \in Client
  PROVE  /\ cmd[c] \in Command
         /\ cmd[c].verb \in ClientVerbs /\ cmd[c].mailbox \in Mailbox
         /\ cmd[c].caller \in Account /\ cmd[c].hook \in Hook
         /\ OwnerOf(cmd[c]) \in Account
<1>1. cmd[c] \in CliCommand \cup ToolCall
  BY CommandsAssumption DEF TypeOK, Command
<1>2. /\ cmd[c].verb \in ClientVerbs /\ cmd[c].mailbox \in Mailbox
      /\ cmd[c].caller \in Account /\ cmd[c].hook \in Hook /\ cmd[c].owner \in Account
  BY <1>1 DEF CliCommand, ToolCall
<1>3. QED
  BY <1>1, <1>2 DEF Command, OwnerOf

(* A command makes a configuration of a configuration.                     *)
LEMMA AfterCloses ==
  ASSUME NEW q \in Command, NEW k \in Config,
         q.verb = "HOOK-CREATE" => Configured(k, q.mailbox)
  PROVE  After(q, k) \in Config
<1> USE AccountAssumption DEF Account
<1>1. /\ q.mailbox \in Mailbox /\ q.hook \in Hook /\ OwnerOf(q) \in Account
      /\ k.owner \in [Mailbox -> Account \cup {NoOwner}]
      /\ k.hooks \in [Mailbox -> SUBSET Hook]
  BY DEF Command, CliCommand, ToolCall, OwnerOf, Config
<1>2. CASE q.verb = "CREATE"
  BY <1>1, <1>2 DEF After, WithMailbox, Config
<1>3. CASE q.verb = "DELETE"
  BY <1>1, <1>3 DEF After, WithoutMailbox, Config
<1>4. CASE q.verb = "HOOK-CREATE"
  BY <1>1, <1>4 DEF After, WithHook, Config, Configured
<1>5. CASE q.verb = "HOOK-DELETE"
  BY <1>1, <1>5 DEF After, Config
<1>6. CASE q.verb \notin ConfigVerbs
  BY <1>6 DEF After, ConfigVerbs
<1>7. QED
  BY <1>2, <1>3, <1>4, <1>5, <1>6 DEF ConfigVerbs

-----------------------------------------------------------------------------
(* Who does what.                                                          *)

LEMMA RemovedRests ==
  ASSUME TypeOK, NEW m, Removed(m), NEW d \in Client
  PROVE  owed'[d] \in {owed[d], {}} /\ owed' \in [Client -> SUBSET Letter]
BY DEF Removed, TypeOK

(* Clients do not touch each other, but for the mail they remove.          *)
LEMMA OthersRest ==
  ASSUME TypeOK, NEW c \in Client, ClientStep(c)
  PROVE  cmd' = cmd /\ \A d \in Client \ {c} : Rests(d)
<1>1. cmd' = cmd
  BY DEF ClientStep, Start, Ask, Lookup, Resolve, Connect, NoDaemon, Direct, Mkdir, Chown,
     Wipe, Save, Rmdir, Turn, Row, PageEnds
<1> SUFFICES ASSUME NEW d \in Client \ {c}
             PROVE  Rests(d)
  BY <1>1
<1> USE DEF Goto, Exit, TypeOK
<1>2. CASE Start(c)
  BY <1>2 DEF Start, CreateFront, DeleteFront, HookCreateFront, HookDeleteFront, ListFront,
     SendFront, ToolFront, Rests, pageVars
<1>3. CASE Ask(c) \/ Lookup(c) \/ Resolve(c) \/ NoDaemon(c) \/ Direct(c)
  BY <1>3 DEF Ask, AskOwner, AskYes, Lookup, Resolve, NoDaemon, Direct, Rests, pageVars
<1>4. CASE Connect(c)
  <2>1. owed'[d] \in {owed[d], {}}
    BY <1>4, RemovedRests DEF Connect, Obey, RemoveMail
  <2>2. QED
    BY <1>4, <2>1 DEF Connect, Obey, Unanswered, Rests, pageVars
<1>5. CASE Mkdir(c) \/ Chown(c) \/ Wipe(c) \/ Rmdir(c)
  <2>1. owed'[d] \in {owed[d], {}}
    BY <1>5, RemovedRests DEF Mkdir, Chown, Wipe, Rmdir, RemoveMail, RemoveSome
  <2>2. QED
    BY <1>5, <2>1 DEF Mkdir, Chown, Wipe, Rmdir, Rests, pageVars
<1>6. CASE Save(c)
  BY <1>6 DEF Save, Rests, pageVars
<1>7. CASE Turn(c)
  BY <1>7 DEF Turn, Rests
<1>8. CASE Row(c)
  BY <1>8 DEF Row, Rests
<1>9. CASE PageEnds(c)
  BY <1>9 DEF PageEnds, Rests
<1>10. QED
  BY <1>2, <1>3, <1>4, <1>5, <1>6, <1>7, <1>8, <1>9 DEF ClientStep

LEMMA DaemonRests ==
  ASSUME TypeOK, DaemonStep
  PROVE  /\ UNCHANGED <<file, pc, cmd, copy, result, wrote, pageVars>>
         /\ \A d \in Client : Rests(d)
<1>1. UNCHANGED <<file, pc, cmd, copy, result, wrote, pageVars>>
  BY DEF DaemonStep, Load, Bind, Stop, Arrive, Land, daemonVars
<1>2. \A d \in Client : owed'[d] \in {owed[d], {}}
  BY RemovedRests DEF DaemonStep, Load, Bind, Stop, Arrive, Land
<1>3. QED
  BY <1>1, <1>2 DEF Rests, pageVars

-----------------------------------------------------------------------------
(* A command counts what it writes.                                        *)
LEMMA Counted ==
  ASSUME TypeOK, NEW c \in Client, wrote' = [wrote EXCEPT ![c] = @ + 1], wrote[c] = 0
  PROVE  wrote'[c] = 1 /\ wrote' # wrote /\ wrote' \in [Client -> 0..1]
<1>1. wrote \in [Client -> 0..1]
  BY DEF TypeOK
<1>2. wrote' = [wrote EXCEPT ![c] = 1]
  BY <1>1
<1>3. QED
  BY <1>1, <1>2

(* Every client stays on its track and tells the truth.                    *)
LEMMA StepTracks ==
  ASSUME TypeOK, Tracked, NEW c \in Client, ClientStep(c)
  PROVE  OnTrack(c)' /\ Truthful(c)'
<1>1. /\ OnTrack(c) /\ Truthful(c) /\ cmd' = cmd
      /\ cmd[c].verb \in ClientVerbs /\ cmd[c].tool \in {"cli", "mcp"}
  BY OthersRest, CommandTypes DEF Tracked, Command, CliCommand, ToolCall
<1> USE <1>1 DEF Goto, Exit, TypeOK, OnTrack, Truthful, Fallback, ConfigVerbs
<1>2. CASE Start(c)
  BY ZenonT(60), <1>2 DEF Start, CreateFront, DeleteFront, HookCreateFront, HookDeleteFront, ListFront,
     SendFront, ToolFront, LoadedCopy, EmailTool, HookTool, PassedOn
<1>3. CASE Ask(c)
  BY <1>3 DEF Ask, AskOwner, AskYes
<1>4. CASE Lookup(c)
  BY ZenonT(60), <1>4 DEF Lookup, AfterLookup
<1>5. CASE Resolve(c)
  BY ZenonT(60), <1>5 DEF Resolve
<1>6. CASE Connect(c)
  <2>1. pc[c] = "connect" /\ wrote[c] = 0 /\ pc'[c] = "end" /\ copy' = copy
    BY <1>6 DEF Connect, Unanswered
  <2>2. CASE Obey(c) /\ result'[c] \in {"done", "unsure"}
    <3>1. wrote'[c] = 1
      BY <2>1, <2>2, Counted DEF Obey
    <3>2. QED
      BY <2>1, <2>2, <3>1
  <2>3. CASE wrote' = wrote /\ result'[c] \in {"refused", "failed", "unsure"}
    BY <2>1, <2>3
  <2>4. QED
    BY <1>6, <2>2, <2>3 DEF Connect, Unanswered
<1>7. CASE NoDaemon(c)
  BY <1>7 DEF NoDaemon
<1>8. CASE Direct(c)
  BY <1>8 DEF Direct
<1>9. CASE Mkdir(c) \/ Chown(c) \/ Wipe(c)
  BY ZenonT(60), <1>9 DEF Mkdir, Chown, Wipe
<1>10. CASE Save(c)
  <2>1. pc[c] = "save" /\ wrote[c] = 0 /\ copy' = copy
    BY <1>10 DEF Save
  <2>2. CASE wrote' = [wrote EXCEPT ![c] = @ + 1]
    <3>1. wrote'[c] = 1 /\ wrote' # wrote
      BY <2>1, <2>2, Counted
    <3>2. \/ pc'[c] = "rmdir" /\ cmd[c].verb = "DELETE" /\ result'[c] = ""
          \/ pc'[c] = "end" /\ result'[c] = "done"
      BY <1>10, <2>1, <2>2, <3>1 DEF Save
    <3>3. QED
      BY <2>1, <3>1, <3>2
  <2>3. CASE wrote' = wrote /\ Exit(c, "failed")
    BY <2>1, <2>3
  <2>4. QED
    BY <1>10, <2>2, <2>3 DEF Save
<1>11. CASE Rmdir(c)
  BY ZenonT(60), <1>11 DEF Rmdir
<1>12. CASE Turn(c) \/ Row(c) \/ PageEnds(c)
  BY ZenonT(60), <1>12 DEF Turn, Row, PageEnds, pageVars
<1>13. QED
  BY <1>2, <1>3, <1>4, <1>5, <1>6, <1>7, <1>8, <1>9, <1>10, <1>11, <1>12 DEF ClientStep

LEMMA TrackedKeeps == TypeOK /\ Tracked /\ [Next]_vars => Tracked'
<1> SUFFICES ASSUME TypeOK, Tracked, [Next]_vars
             PROVE  Tracked'
  OBVIOUS
<1>1. ASSUME NEW d \in Client, Rests(d), cmd' = cmd
      PROVE  OnTrack(d)' /\ Truthful(d)'
  BY <1>1 DEF Tracked, OnTrack, Truthful, Rests
<1>2. CASE DaemonStep
  BY <1>1, <1>2, DaemonRests DEF Tracked
<1>3. ASSUME NEW c \in Client, ClientStep(c)
      PROVE  Tracked'
  BY <1>1, <1>3, OthersRest, StepTracks DEF Tracked
<1>4. CASE UNCHANGED vars
  BY <1>4 DEF vars, Tracked, OnTrack, Truthful
<1>5. QED
  BY <1>2, <1>3, <1>4 DEF Next, DaemonStep, ClientStep

-----------------------------------------------------------------------------
(* Types.                                                                  *)

LEMMA InitTypes == Init => TypeOK /\ Tracked
<1> SUFFICES ASSUME Init
             PROVE  TypeOK /\ Tracked
  OBVIOUS
<1>1. file \in Config /\ EmptyConfig \in Config /\ 0 \in 0..MaxStarts
  <2>1. file \in Config /\ MaxStarts \in Nat
    BY StartsAssumption DEF Init
  <2>2. EmptyConfig \in Config
    BY DEF Config, EmptyConfig
  <2>3. QED
    BY <2>1, <2>2
<1>2. dirOwner \in [Mailbox -> Account \cup {NoOwner}]
  BY <1>1 DEF Init, Config
<1>3. mail \in [Mailbox -> [Letter -> {"absent", "cut", "listed"}]]
  BY DEF Init, NoMail
<1>4. /\ pc \in [Client -> {"idle"}] /\ result \in [Client -> {""}]
      /\ copy \in [Client -> {NoCopy}]
  BY DEF Init
<1>5. /\ offset \in [Client -> Nat] /\ rows \in [Client -> Nat]
      /\ page \in [Client -> SUBSET Letter]
      /\ seen \in [Client -> SUBSET Letter] /\ owed \in [Client -> SUBSET Letter]
  BY DEF Init
<1>6. wrote \in [Client -> 0..1] /\ cmd \in [Client -> Commands]
  <2>1. wrote = [c \in Client |-> 0] /\ cmd \in [Client -> Commands]
    BY DEF Init
  <2>2. 0 \in 0..1
    OBVIOUS
  <2>3. QED
    BY <2>1, <2>2
<1>7. TypeOK
  BY <1>1, <1>2, <1>3, <1>4, <1>5, <1>6 DEF Init, TypeOK
<1>8. Tracked
  BY DEF Init, Tracked, OnTrack, Truthful, Fallback
<1>9. QED
  BY <1>7, <1>8

LEMMA MailTypes ==
  ASSUME TypeOK, NEW m \in Mailbox, RemoveMail(m) \/ RemoveSome(m)
  PROVE  /\ mail' \in [Mailbox -> [Letter -> {"absent", "cut", "listed"}]]
         /\ owed' \in [Client -> SUBSET Letter]
<1>1. Removed(m)
  BY DEF RemoveMail, RemoveSome
<1>2. owed' \in [Client -> SUBSET Letter]
  BY <1>1 DEF Removed, TypeOK
<1>3. mail' \in [Mailbox -> [Letter -> {"absent", "cut", "listed"}]]
  <2>1. CASE RemoveMail(m)
    <3>1. NoMail \in [Letter -> {"absent", "cut", "listed"}]
      BY DEF NoMail
    <3>2. QED
      BY <2>1, <3>1 DEF RemoveMail, TypeOK
  <2>2. CASE RemoveSome(m)
    <3>1. PICK gone \in SUBSET Present(m) :
            mail' = [mail EXCEPT ![m] = [l \in Letter |-> IF l \in gone THEN "absent" ELSE @[l]]]
      BY <2>2 DEF RemoveSome
    <3>2. [l \in Letter |-> IF l \in gone THEN "absent" ELSE mail[m][l]]
            \in [Letter -> {"absent", "cut", "listed"}]
      BY ZenonT(60) DEF TypeOK
    <3>3. QED
      BY <3>1, <3>2 DEF TypeOK
  <2>3. QED
    BY <2>1, <2>2
<1>4. QED
  BY <1>2, <1>3

(* Only what is possible of a configuration is done to it.                 *)
LEMMA WritesConfig ==
  ASSUME TypeOK, Tracked, NEW c \in Client
  PROVE  /\ Accepted(cmd[c]) => After(cmd[c], live) \in Config
         /\ pc[c] = "save" /\ Possible(cmd[c], copy[c]) => After(cmd[c], copy[c]) \in Config
<1>1. cmd[c] \in Command /\ live \in Config
  BY CommandTypes DEF TypeOK
<1>2. ASSUME Accepted(cmd[c])
      PROVE  After(cmd[c], live) \in Config
  <2>1. cmd[c].verb = "HOOK-CREATE" => Configured(live, cmd[c].mailbox)
    BY <1>2 DEF Accepted, ConfigVerbs, Legal, Authorised
  <2>2. QED
    BY <1>1, <2>1, AfterCloses
<1>3. ASSUME pc[c] = "save", Possible(cmd[c], copy[c])
      PROVE  After(cmd[c], copy[c]) \in Config
  <2>1. copy[c] \in Config
    BY <1>3 DEF TypeOK, Tracked, OnTrack, Fallback
  <2>2. cmd[c].verb = "HOOK-CREATE" => Configured(copy[c], cmd[c].mailbox)
    BY <1>3 DEF Possible
  <2>3. QED
    BY <1>1, <2>1, <2>2, AfterCloses
<1>4. QED
  BY <1>2, <1>3

LEMMA DaemonTypes ==
  ASSUME TypeOK, DaemonStep
  PROVE  TypeOK'
<1>1. CASE Load
  <2>1. starts' \in 0..MaxStarts
    <3>1. starts \in 0..MaxStarts
      BY DEF TypeOK
    <3>2. QED
      BY <1>1, <3>1, StartsAssumption DEF Load
  <2>2. QED
    BY <1>1, <2>1 DEF Load, TypeOK, diskVars, pageVars
<1>2. CASE Bind \/ Stop
  BY <1>2 DEF Bind, Stop, TypeOK, diskVars, pageVars
<1>3. ASSUME NEW m \in Mailbox, NEW l \in Letter, Arrive(m, l)
      PROVE  TypeOK'
  <2>1. dirOwner' \in [Mailbox -> Account \cup {NoOwner}]
    BY <1>3 DEF Arrive, TypeOK, Config
  <2>2. mail' \in [Mailbox -> [Letter -> {"absent", "cut", "listed"}]]
    BY <1>3 DEF Arrive, TypeOK
  <2>3. QED
    BY <1>3, <2>1, <2>2 DEF Arrive, TypeOK, daemonVars, pageVars
<1>4. ASSUME NEW m \in Mailbox, NEW l \in Letter, Land(m, l)
      PROVE  TypeOK'
  <2>1. owed' \in [Client -> SUBSET Letter]
    BY <1>4 DEF Land, Removed, TypeOK
  <2>2. mail' \in [Mailbox -> [Letter -> {"absent", "cut", "listed"}]]
    <3>1. PICK s \in {"listed", "absent"} : mail' = [mail EXCEPT ![m][l] = s]
      BY <1>4 DEF Land
    <3>2. QED
      BY <3>1 DEF TypeOK
  <2>3. QED
    BY <1>4, <2>1, <2>2 DEF Land, TypeOK, daemonVars, pageVars
<1>5. QED
  BY <1>1, <1>2, <1>3, <1>4 DEF DaemonStep

(* What a client changes of its own.                                       *)
PcTypes ==
  /\ pc \in [Client -> {"idle", "ask", "lookup", "resolve", "connect", "direct", "mkdir", "chown",
                        "wipe", "save", "rmdir", "page", "row", "end"}]
  /\ result \in [Client -> {"", "done", "refused", "failed", "unsure", "leftover", "blank"}]

LEMMA ClientTypes ==
  ASSUME TypeOK, Tracked, NEW c \in Client, ClientStep(c)
  PROVE  TypeOK'
<1>0. /\ cmd[c].mailbox \in Mailbox /\ OwnerOf(cmd[c]) \in Account /\ Root \in Account
      /\ cmd[c].verb \in ClientVerbs
  BY CommandTypes DEF Account
<1>1. CASE Start(c)
  <2>1. PcTypes'
    BY <1>1 DEF Start, CreateFront, DeleteFront, HookCreateFront, HookDeleteFront, ListFront,
       SendFront, ToolFront, Goto, Exit, TypeOK, PcTypes
  <2>2. copy' \in [Client -> Config \cup {NoCopy}]
    BY <1>1 DEF Start, LoadedCopy, TypeOK
  <2>3. QED
    BY <1>1, <2>1, <2>2 DEF Start, TypeOK, PcTypes, daemonVars, diskVars, pageVars
<1>2. CASE Ask(c) \/ Lookup(c) \/ Resolve(c) \/ NoDaemon(c) \/ Direct(c)
  <2>1. PcTypes'
    BY <1>0, <1>2 DEF Ask, AskOwner, AskYes, Lookup, AfterLookup, Resolve, NoDaemon, Direct,
       Goto, Exit, TypeOK, PcTypes
  <2>2. QED
    BY <1>2, <2>1 DEF Ask, Lookup, Resolve, NoDaemon, Direct, TypeOK, PcTypes, daemonVars,
       diskVars, pageVars
<1>3. CASE Connect(c)
  <2>1. PcTypes' /\ daemon' \in {"down", "loaded", "serving"}
    BY <1>3 DEF Connect, Unanswered, Exit, TypeOK, PcTypes
  <2>2. UNCHANGED <<starts, cmd, copy, pageVars>>
    BY <1>3 DEF Connect
  <2>3. CASE Accepted(cmd[c]) /\ Obey(c)
    <3>1. file' \in Config /\ live' \in Config
      BY <2>3, WritesConfig DEF Obey
    <3>2. dirOwner' \in [Mailbox -> Account \cup {NoOwner}]
      BY <1>0, <2>3 DEF Obey, TypeOK
    <3>3. /\ mail' \in [Mailbox -> [Letter -> {"absent", "cut", "listed"}]]
          /\ owed' \in [Client -> SUBSET Letter]
      BY <1>0, <2>3, MailTypes DEF Obey, TypeOK
    <3>4. wrote[c] = 0 /\ wrote' = [wrote EXCEPT ![c] = @ + 1]
      BY <1>3, <2>3 DEF Tracked, OnTrack, Connect, Obey
    <3>5. wrote' \in [Client -> 0..1]
      BY <3>4, Counted
    <3>6. QED
      BY <2>1, <2>2, <3>1, <3>2, <3>3, <3>5 DEF TypeOK, PcTypes, pageVars
  <2>4. CASE UNCHANGED <<file, live, diskVars, wrote, owed>>
    BY <2>1, <2>2, <2>4 DEF TypeOK, PcTypes, pageVars, diskVars
  <2>5. QED
    BY <1>3, <2>3, <2>4 DEF Connect
<1>4. CASE Mkdir(c) \/ Chown(c) \/ Wipe(c) \/ Rmdir(c)
  <2>1. PcTypes'
    BY <1>4 DEF Mkdir, Chown, Wipe, Rmdir, Goto, Exit, TypeOK, PcTypes
  <2>2. dirOwner' \in [Mailbox -> Account \cup {NoOwner}]
    BY <1>0, <1>4 DEF Mkdir, Chown, Wipe, Rmdir, TypeOK
  <2>3. /\ mail' \in [Mailbox -> [Letter -> {"absent", "cut", "listed"}]]
        /\ owed' \in [Client -> SUBSET Letter]
    BY <1>0, <1>4, MailTypes DEF Mkdir, Chown, Wipe, Rmdir, TypeOK
  <2>4. QED
    BY <1>4, <2>1, <2>2, <2>3 DEF Mkdir, Chown, Wipe, Rmdir, TypeOK, PcTypes, daemonVars,
       pageVars
<1>5. CASE Save(c)
  <2>1. PcTypes'
    BY ZenonT(60), <1>5 DEF Save, Goto, Exit, TypeOK, PcTypes
  <2>2. file' \in Config
    BY ZenonT(60), <1>5, WritesConfig DEF Save, TypeOK
  <2>3. wrote[c] = 0
    BY <1>5 DEF Save, Tracked, OnTrack
  <2>4. wrote' \in [Client -> 0..1]
    <3>1. CASE wrote' = wrote
      BY <3>1 DEF TypeOK
    <3>2. CASE wrote' # wrote
      BY <1>5, <2>3, <3>2, Counted DEF Save
    <3>3. QED
      BY <3>1, <3>2
  <2>5. QED
    BY <1>5, <2>1, <2>2, <2>4 DEF Save, TypeOK, PcTypes, diskVars, pageVars
<1>6. CASE Turn(c)
  <2>1. PcTypes'
    BY <1>6 DEF Turn, Goto, Exit, TypeOK, PcTypes
  <2>2. Slice(cmd[c].mailbox, offset[c]) \subseteq Letter
    BY DEF Slice, Present
  <2>3. page' \in [Client -> SUBSET Letter] /\ rows' \in [Client -> Nat]
    <3>1. page \in [Client -> SUBSET Letter] /\ rows \in [Client -> Nat]
      BY DEF TypeOK
    <3>2. QED
      BY <1>6, <2>2, <3>1 DEF Turn
  <2>4. owed' \in [Client -> SUBSET Letter]
    BY <1>6 DEF Turn, TypeOK, Listed
  <2>5. QED
    BY <1>6, <2>1, <2>3, <2>4 DEF Turn, TypeOK, PcTypes, daemonVars, diskVars
<1>7. CASE Row(c)
  <2>1. PICK l \in page[c] :
          /\ page' = [page EXCEPT ![c] = @ \ {l}]
          /\ \/ /\ seen' = [seen EXCEPT ![c] = @ \cup {l}]
                /\ rows' = [rows EXCEPT ![c] = @ + 1]
             \/ UNCHANGED <<seen, rows>>
    BY <1>7 DEF Row
  <2>2. /\ page \in [Client -> SUBSET Letter] /\ seen \in [Client -> SUBSET Letter]
        /\ rows \in [Client -> Nat]
    BY DEF TypeOK
  <2>3. page' \in [Client -> SUBSET Letter] /\ seen' \in [Client -> SUBSET Letter]
    <3>1. l \in Letter
      BY <2>1, <2>2
    <3>2. QED
      BY <2>1, <2>2, <3>1
  <2>4. rows' \in [Client -> Nat]
    BY <2>1, <2>2
  <2>5. QED
    BY <1>7, <2>3, <2>4 DEF Row, TypeOK, daemonVars, diskVars
<1>8. CASE PageEnds(c)
  <2>1. PcTypes'
    BY <1>8 DEF PageEnds, Goto, Exit, TypeOK, PcTypes
  <2>2. offset' \in [Client -> Nat]
    <3>1. offset \in [Client -> Nat]
      BY DEF TypeOK
    <3>2. QED
      BY <1>8, <3>1, LimitAssumption DEF PageEnds
  <2>3. QED
    BY <1>8, <2>1, <2>2 DEF PageEnds, TypeOK, PcTypes, daemonVars, diskVars
<1>9. QED
  BY <1>1, <1>2, <1>3, <1>4, <1>5, <1>6, <1>7, <1>8 DEF ClientStep

LEMMA TypesKeep == TypeOK /\ Tracked /\ [Next]_vars => TypeOK'
<1>1. CASE UNCHANGED vars
  BY <1>1 DEF vars, daemonVars, diskVars, pageVars, TypeOK
<1>2. QED
  BY <1>1, DaemonTypes, ClientTypes DEF Next, DaemonStep, ClientStep

(* Every variable keeps its type; in particular a command takes effect on  *)
(* config.toml at most once.                                               *)
THEOREM TypeCorrect == Spec => []TypeOK
BY InitTypes, TypesKeep, TrackedKeeps, PTL DEF Spec

(* A command that says it is done has changed config.toml once, through    *)
(* the daemon or by itself, and one that says it was refused or has failed *)
(* has not, whether the daemon stops, starts or dies in the middle.        *)
THEOREM UsersToldTruth == Spec => []ToldTruth
<1>1. Tracked => ToldTruth
  BY DEF Tracked, Truthful, ToldTruth
<1>2. QED
  BY <1>1, InitTypes, TypesKeep, TrackedKeeps, PTL DEF Spec

-----------------------------------------------------------------------------
(* config.toml can always be loaded.  What is written to it is a change of *)
(* the snapshot or of a copy, all of which were loaded once; validation    *)
(* keeps hook names unique, and no command makes root an owner.            *)

OwnersAreUsers == \A q \in Commands : q.verb = "CREATE" => OwnerOf(q) # Root

AllLoadable ==
  /\ Loadable(file) /\ Loadable(live)
  /\ \A c \in Client : copy[c] # NoCopy => Loadable(copy[c])

LEMMA AfterLoads ==
  ASSUME NEW q \in Command, NEW k \in Config, Loadable(k),
         q.verb = "CREATE" => OwnerOf(q) # Root,
         q.verb = "HOOK-CREATE" => ~HookInUse(k, q.hook)
  PROVE  Loadable(After(q, k))
<1> USE AccountAssumption DEF Account, Loadable, OwnersValid, HooksUnique
<1>1. /\ q.mailbox \in Mailbox /\ q.hook \in Hook
      /\ k.owner \in [Mailbox -> Account \cup {NoOwner}]
      /\ k.hooks \in [Mailbox -> SUBSET Hook]
  BY DEF Command, CliCommand, ToolCall, Config
<1>2. CASE q.verb = "CREATE"
  <2>1. After(q, k) = WithMailbox(k, q.mailbox, OwnerOf(q))
    BY <1>2 DEF After
  <2>2. QED
    BY <1>1, <1>2, <2>1 DEF WithMailbox
<1>3. CASE q.verb = "DELETE"
  <2>1. After(q, k) = WithoutMailbox(k, q.mailbox)
    BY <1>3 DEF After
  <2>2. QED
    BY <1>1, <2>1 DEF WithoutMailbox
<1>4. CASE q.verb = "HOOK-CREATE"
  <2>1. After(q, k) = WithHook(k, q.mailbox, q.hook)
    BY <1>4 DEF After
  <2>2. OwnersValid(After(q, k))
    <3>1. After(q, k).owner = k.owner
      BY <2>1 DEF WithHook
    <3>2. QED
      BY <3>1
  <2>3. After(q, k).hooks = [k.hooks EXCEPT ![q.mailbox] = @ \cup {q.hook}]
    BY <2>1 DEF WithHook
  <2>4. \A m \in Mailbox : q.hook \notin k.hooks[m]
    BY <1>4 DEF HookInUse
  <2>5. HooksUnique(After(q, k))
    BY <1>1, <2>3, <2>4
  <2>6. QED
    BY <2>2, <2>5
<1>5. CASE q.verb = "HOOK-DELETE"
  <2>1. /\ After(q, k).owner = k.owner
        /\ After(q, k).hooks = [m \in Mailbox |-> k.hooks[m] \ {q.hook}]
    BY <1>5 DEF After, Config
  <2>2. QED
    BY <1>1, <2>1
<1>6. CASE q.verb \notin ConfigVerbs
  BY <1>6 DEF After, ConfigVerbs
<1>7. QED
  BY <1>2, <1>3, <1>4, <1>5, <1>6 DEF ConfigVerbs

LEMMA LoadableKeeps ==
  ASSUME OwnersAreUsers, TypeOK, Tracked, AllLoadable, [Next]_vars
  PROVE  AllLoadable'
<1>1. CASE DaemonStep
  <2>1. UNCHANGED <<file, copy>> /\ live' \in {live, file}
    BY <1>1, DaemonRests DEF DaemonStep, Load, Bind, Stop, Arrive, Land, daemonVars
  <2>2. QED
    BY <2>1 DEF AllLoadable
<1>2. ASSUME NEW c \in Client, ClientStep(c)
      PROVE  AllLoadable'
  <2>1. /\ cmd[c] \in Command /\ live \in Config
        /\ cmd[c].verb = "CREATE" => OwnerOf(cmd[c]) # Root
    BY CommandTypes DEF TypeOK, OwnersAreUsers
  <2>2. CASE Start(c)
    <3>1. UNCHANGED <<file, live>> /\ copy' = [copy EXCEPT ![c] = LoadedCopy(cmd[c])]
      BY <2>2 DEF Start, daemonVars
    <3>2. QED
      BY <3>1 DEF AllLoadable, LoadedCopy, TypeOK
  <2>3. CASE Connect(c)
    <3>1. UNCHANGED copy
      BY <2>3 DEF Connect
    <3>2. CASE Accepted(cmd[c]) /\ Obey(c)
      <4>1. cmd[c].verb = "HOOK-CREATE" => ~HookInUse(live, cmd[c].hook)
        BY <3>2 DEF Accepted, ConfigVerbs, Legal
      <4>2. Loadable(After(cmd[c], live))
        BY <2>1, <4>1, AfterLoads DEF AllLoadable
      <4>3. QED
        BY <3>1, <3>2, <4>2 DEF Obey, AllLoadable
    <3>3. CASE UNCHANGED <<file, live>>
      BY <3>1, <3>3 DEF AllLoadable
    <3>4. QED
      BY <2>3, <3>2, <3>3 DEF Connect
  <2>4. CASE Save(c)
    <3>1. UNCHANGED <<live, copy>> /\ copy[c] # NoCopy
      BY <2>4 DEF Save, Tracked, OnTrack, Fallback
    <3>2. CASE Possible(cmd[c], copy[c]) /\ file' = After(cmd[c], copy[c])
      <4>1. copy[c] \in Config /\ Loadable(copy[c])
        BY <3>1 DEF TypeOK, AllLoadable
      <4>2. cmd[c].verb = "HOOK-CREATE" => ~HookInUse(copy[c], cmd[c].hook)
        BY <3>2 DEF Possible
      <4>3. Loadable(After(cmd[c], copy[c]))
        BY <2>1, <4>1, <4>2, AfterLoads
      <4>4. QED
        BY <3>1, <3>2, <4>3 DEF AllLoadable
    <3>3. CASE UNCHANGED file
      BY <3>1, <3>3 DEF AllLoadable
    <3>4. QED
      BY <2>4, <3>2, <3>3 DEF Save
  <2>5. CASE ~Start(c) /\ ~Connect(c) /\ ~Save(c)
    <3>1. UNCHANGED <<file, live, copy>>
      BY <1>2, <2>5 DEF ClientStep, Ask, Lookup, Resolve, NoDaemon, Direct, Mkdir, Chown, Wipe,
         Rmdir, Turn, Row, PageEnds, daemonVars
    <3>2. QED
      BY <3>1 DEF AllLoadable
  <2>6. QED
    BY <2>2, <2>3, <2>4, <2>5
<1>3. CASE UNCHANGED vars
  BY <1>3 DEF vars, daemonVars, AllLoadable
<1>4. QED
  BY <1>1, <1>2, <1>3 DEF Next, DaemonStep, ClientStep

(* Whatever the daemon and the fallbacks of any number of root's commands  *)
(* write over each other, the next start of the daemon finds a file it     *)
(* takes, provided no --owner is root.                                     *)
THEOREM FileLoads ==
  ASSUME OwnersAreUsers
  PROVE  Spec => []LoadableFile
<1>1. Init => AllLoadable
  <2>1. Loadable(EmptyConfig)
    BY AccountAssumption DEF Account, Loadable, OwnersValid, HooksUnique, EmptyConfig
  <2>2. QED
    BY <2>1, StartsAssumption DEF Init, AllLoadable
<1>2. TypeOK /\ Tracked /\ AllLoadable /\ [Next]_vars => AllLoadable'
  BY LoadableKeeps
<1>3. AllLoadable => LoadableFile
  BY DEF AllLoadable, LoadableFile
<1>4. QED
  BY <1>1, <1>2, <1>3, InitTypes, TypesKeep, TrackedKeeps, PTL DEF Spec

-----------------------------------------------------------------------------
(* Paging.  A letter that was there when the listing began only moves down *)
(* the list while new ones arrive; what is not yet shown is on this page   *)
(* or behind its end.                                                      *)

LEMMA MailFinite ==
  ASSUME NEW S \in SUBSET Letter
  PROVE  IsFiniteSet(S) /\ Cardinality(S) \in Nat
BY LettersAssumption, FS_Subset, FS_CardinalityType

LEMMA Places ==
  ASSUME NEW m \in Mailbox, NEW l \in Letter
  PROVE  /\ Place(m, l) \in Nat /\ Place(m, l) <= Cardinality(Present(m))
         /\ l \in Present(m) => Place(m, l) > 0
<1> DEFINE Above == {k \in Present(m) : k >= l}
<1>1. Above \subseteq Present(m) /\ Present(m) \subseteq Letter
  BY DEF Present
<1>2. IsFiniteSet(Above) /\ IsFiniteSet(Present(m)) /\ Cardinality(Above) \in Nat
  BY <1>1, MailFinite
<1>3. Cardinality(Above) <= Cardinality(Present(m))
  BY <1>1, <1>2, FS_Subset
<1>4. ASSUME l \in Present(m)
      PROVE  Cardinality(Above) > 0
  <2>1. l \in Above
    BY <1>4, LettersAssumption
  <2>2. Above # {}
    BY <2>1
  <2>3. Cardinality(Above) # 0
    BY <1>2, <2>2, FS_EmptySet
  <2>4. QED
    BY <1>2, <2>3
<1>5. QED
  BY <1>2, <1>3, <1>4 DEF Place

(* Letters that arrive push others down, never up.                         *)
LEMMA PlacesGrow ==
  ASSUME NEW m \in Mailbox, NEW l \in Letter, Present(m) \subseteq Present(m)'
  PROVE  Place(m, l)' \in Nat /\ Place(m, l) <= Place(m, l)'
<1> DEFINE Above == {k \in Present(m) : k >= l}
           AboveNow == {k \in Present(m)' : k >= l}
<1>1. Above \subseteq AboveNow /\ AboveNow \subseteq Letter
  BY DEF Present
<1>2. IsFiniteSet(AboveNow) /\ Cardinality(AboveNow) \in Nat
  BY <1>1, MailFinite
<1>3. Cardinality(Above) <= Cardinality(AboveNow)
  BY <1>1, <1>2, FS_Subset
<1>4. QED
  BY <1>2, <1>3 DEF Place

(* Mail stays, or the listings of its mailbox are owed nothing.            *)
Stays(m) == Present(m) \subseteq Present(m)' /\ Listed(m) \subseteq Listed(m)'

LEMMA MailStays ==
  ASSUME TypeOK, [Next]_vars, NEW m \in Mailbox
  PROVE  \/ Stays(m)
         \/ cmd' = cmd /\ \A d \in Client : cmd[d].verb = "PAGE" /\ cmd[d].mailbox = m => owed'[d] = {}
<1>1. CASE UNCHANGED mail
  BY <1>1 DEF Stays, Present, Listed
<1>2. ASSUME NEW n \in Mailbox, RemoveMail(n) \/ RemoveSome(n), cmd' = cmd
      PROVE  \/ Stays(m)
             \/ \A d \in Client : cmd[d].verb = "PAGE" /\ cmd[d].mailbox = m => owed'[d] = {}
  <2>1. CASE n = m
    BY <1>2, <2>1 DEF RemoveMail, RemoveSome, Removed
  <2>2. CASE n # m
    <3>1. mail'[m] = mail[m]
      BY <1>2, <2>2 DEF RemoveMail, RemoveSome, TypeOK
    <3>2. QED
      BY <3>1 DEF Stays, Present, Listed
  <2>3. QED
    BY <2>1, <2>2
<1>3. ASSUME NEW n \in Mailbox, NEW l \in Letter, Arrive(n, l)
      PROVE  Stays(m)
  <2>1. mail[n][l] = "absent" /\ mail' = [mail EXCEPT ![n][l] = "cut"]
    BY <1>3 DEF Arrive
  <2>2. \A k \in Letter : mail[m][k] # "absent" => mail'[m][k] = mail[m][k]
    BY <2>1 DEF TypeOK
  <2>3. QED
    BY <2>2 DEF Stays, Present, Listed
<1>4. ASSUME NEW n \in Mailbox, NEW l \in Letter, Land(n, l)
      PROVE  \/ Stays(m)
             \/ \A d \in Client : cmd[d].verb = "PAGE" /\ cmd[d].mailbox = m => owed'[d] = {}
  <2>1. CASE mail' = [mail EXCEPT ![n][l] = "listed"]
    <3>1. \A k \in Letter : mail[m][k] # "absent" => mail'[m][k] \in {mail[m][k], "listed"}
      BY <2>1 DEF TypeOK
    <3>2. QED
      BY <3>1 DEF Stays, Present, Listed
  <2>2. CASE mail' = [mail EXCEPT ![n][l] = "absent"] /\ Removed(n)
    <3>1. CASE n = m
      BY <2>2, <3>1 DEF Removed
    <3>2. CASE n # m
      <4>1. mail'[m] = mail[m]
        BY <2>2, <3>2 DEF TypeOK
      <4>2. QED
        BY <4>1 DEF Stays, Present, Listed
    <3>3. QED
      BY <3>1, <3>2
  <2>3. QED
    BY <1>4, <2>1, <2>2 DEF Land
<1>5. CASE Load \/ Bind \/ Stop \/ UNCHANGED vars
  BY <1>1, <1>5 DEF Load, Bind, Stop, vars, diskVars
<1>6. ASSUME NEW c \in Client, ClientStep(c)
      PROVE  UNCHANGED mail \/ \E n \in Mailbox : RemoveMail(n) \/ RemoveSome(n)
  <2>1. cmd[c].mailbox \in Mailbox
    BY CommandTypes
  <2>2. QED
    BY <1>6, <2>1 DEF ClientStep, Start, Ask, Lookup, Resolve, Connect, Obey, NoDaemon, Direct,
       Mkdir, Chown, Wipe, Save, Rmdir, Turn, Row, PageEnds, diskVars
<1>7. ASSUME NEW c \in Client, ClientStep(c)
      PROVE  cmd' = cmd
  BY <1>7, OthersRest
<1>8. DaemonStep => cmd' = cmd
  BY DaemonRests
<1>9. QED
  BY <1>1, <1>2, <1>3, <1>4, <1>5, <1>6, <1>7, <1>8 DEF Next, DaemonStep, ClientStep

(* What a listing still owes is on its page, or farther down.              *)
Paged(c) ==
  cmd[c].verb = "PAGE" =>
    LET m == cmd[c].mailbox
    IN /\ pc[c] \in {"idle", "lookup", "page", "row", "end"}
       /\ owed[c] \subseteq Listed(m)
       /\ pc[c] \in {"idle", "lookup", "page"} =>
            \A l \in owed[c] : l \in seen[c] \/ Place(m, l) > offset[c]
       /\ pc[c] = "row" =>
            \A l \in owed[c] : l \in seen[c] \/ l \in page[c] \/ Place(m, l) > offset[c] + Limit
       /\ result[c] = "done" => pc[c] = "end" /\ owed[c] \subseteq seen[c]

(* Others may bring letters, or take them away.                            *)
LEMMA PagedRests ==
  ASSUME TypeOK, [Next]_vars, NEW c \in Client, Paged(c), Rests(c), cmd' = cmd
  PROVE  Paged(c)'
<1> SUFFICES ASSUME cmd[c].verb = "PAGE"
             PROVE  Paged(c)'
  BY DEF Paged
<1> DEFINE m == cmd[c].mailbox
<1>1. m \in Mailbox /\ owed[c] \subseteq Letter
  BY CommandTypes DEF TypeOK
<1>2. CASE owed'[c] = {}
  BY <1>2 DEF Paged, Rests
<1>3. CASE owed'[c] = owed[c] /\ Stays(m)
  <2>1. owed[c] \subseteq Listed(m)'
    BY <1>3 DEF Paged, Stays
  <2>2. offset[c] \in Nat /\ Limit \in Nat
    BY LimitAssumption DEF TypeOK
  <2>3. \A l \in owed[c], n \in Nat : Place(m, l) > n => Place(m, l)' > n
    BY <1>1, <1>3, Places, PlacesGrow DEF Stays
  <2>4. pc[c] = "row" =>
          \A l \in owed[c] : l \in seen[c] \/ l \in page[c] \/ Place(m, l)' > offset[c] + Limit
    <3>1. offset[c] + Limit \in Nat
      BY <2>2
    <3>2. QED
      BY <2>3, <3>1 DEF Paged
  <2>5. pc[c] \in {"idle", "lookup", "page"} =>
          \A l \in owed[c] : l \in seen[c] \/ Place(m, l)' > offset[c]
    BY <2>2, <2>3 DEF Paged
  <2>6. QED
    BY <1>3, <2>1, <2>4, <2>5 DEF Paged, Rests
<1>4. QED
  BY <1>1, <1>2, <1>3, MailStays DEF Rests

LEMMA StepPages ==
  ASSUME TypeOK, Tracked, NEW c \in Client, Paged(c), ClientStep(c)
  PROVE  Paged(c)'
<1>1. cmd' = cmd
  BY OthersRest
<1> SUFFICES ASSUME cmd[c].verb = "PAGE"
             PROVE  Paged(c)'
  BY <1>1 DEF Paged
<1> DEFINE m == cmd[c].mailbox
<1>2. /\ m \in Mailbox /\ owed[c] \subseteq Letter /\ offset[c] \in Nat /\ Limit \in Nat
      /\ result[c] = "" \/ pc[c] = "end"
  BY CommandTypes, LimitAssumption DEF TypeOK, Tracked, OnTrack
<1>3. /\ pc[c] \in {"idle", "lookup", "page", "row", "end"} /\ owed[c] \subseteq Listed(m)
  BY DEF Paged
<1>4. UNCHANGED mail /\ Listed(m)' = Listed(m) /\ Present(m)' = Present(m)
      /\ (\A l \in Letter : Place(m, l)' = Place(m, l))
  <2>1. UNCHANGED mail
    BY <1>3 DEF ClientStep, Start, Ask, Lookup, Resolve, Connect, NoDaemon, Direct, Mkdir,
       Chown, Wipe, Save, Rmdir, Turn, Row, PageEnds, diskVars
  <2>2. Present(m)' = Present(m) /\ Listed(m)' = Listed(m)
    BY <1>1, <2>1 DEF Present, Listed
  <2>3. ASSUME NEW l \in Letter
        PROVE  Place(m, l)' = Place(m, l)
    BY <1>1, <2>2 DEF Place
  <2>4. QED
    BY <2>1, <2>2, <2>3
<1>5. CASE Start(c) \/ Lookup(c)
  <2>1. /\ UNCHANGED <<offset, seen, owed>>
        /\ pc[c] \in {"idle", "lookup"}
    BY <1>5 DEF Start, Lookup, pageVars
  <2>2. \/ pc'[c] = "lookup" /\ UNCHANGED result
        \/ pc'[c] = "page" /\ UNCHANGED result
        \/ pc'[c] = "end" /\ result'[c] \in {"refused", "failed"}
    BY <1>5, <2>1 DEF Start, CreateFront, DeleteFront, HookCreateFront, HookDeleteFront,
       ListFront, SendFront, ToolFront, EmailTool, HookTool, PassedOn, Lookup, AfterLookup,
       Goto, Exit, TypeOK
  <2>3. QED
    BY <1>1, <1>2, <1>3, <1>4, <2>1, <2>2 DEF Paged
<1>6. CASE Turn(c)
  <2>1. /\ pc[c] = "page" /\ UNCHANGED <<offset, seen>>
        /\ owed'[c] \subseteq Listed(m)
        /\ \A l \in owed'[c] : l \in seen[c] \/ Place(m, l) > offset[c]
    <3>1. pc[c] = "page" /\ UNCHANGED <<offset, seen>>
      BY <1>6 DEF Turn
    <3>2. CASE offset[c] = 0
      <4>1. owed'[c] = Listed(m)
        BY <1>6, <3>2 DEF Turn, TypeOK
      <4>2. \A l \in Listed(m) : l \in Letter /\ Place(m, l) > 0
        BY <1>2, Places DEF Listed, Present
      <4>3. QED
        BY <3>1, <3>2, <4>1, <4>2
    <3>3. CASE offset[c] # 0
      <4>1. owed' = owed
        BY <1>6, <3>3 DEF Turn
      <4>2. QED
        BY <3>1, <4>1 DEF Paged
    <3>4. QED
      BY <3>2, <3>3
  <2>2. owed'[c] \subseteq Present(m)
    BY <2>1 DEF Listed, Present
  <2>3. CASE offset[c] >= Cardinality(Present(m)) /\ Exit(c, "done")
    <3>1. \A l \in owed'[c] : l \in seen[c]
      <4> SUFFICES ASSUME NEW l \in owed'[c], l \notin seen[c]
                   PROVE  FALSE
        OBVIOUS
      <4>1. l \in Letter /\ Place(m, l) > offset[c]
        BY <2>1, <2>2 DEF Present
      <4>2. Place(m, l) \in Nat /\ Place(m, l) <= Cardinality(Present(m))
        BY <1>2, <4>1, Places
      <4>3. Cardinality(Present(m)) \in Nat
        BY MailFinite DEF Present
      <4>4. offset[c] >= Cardinality(Present(m)) /\ offset[c] \in Nat
        BY <1>2, <2>3
      <4> HIDE DEF m
      <4>5. QED
        BY <4>1, <4>2, <4>3, <4>4
    <3>2. pc'[c] = "end" /\ result'[c] = "done"
      BY <2>3 DEF Exit, TypeOK
    <3>3. QED
      BY <1>1, <1>4, <2>1, <3>1, <3>2 DEF Paged
  <2>4. CASE page' = [page EXCEPT ![c] = Slice(m, offset[c])] /\ Goto(c, "row")
    <3>1. pc'[c] = "row" /\ result'[c] = "" /\ page'[c] = Slice(m, offset[c])
      BY <1>2, <2>1, <2>4 DEF Goto, TypeOK
    <3>2. \A l \in owed'[c] : l \in seen[c] \/ l \in page'[c] \/ Place(m, l) > offset[c] + Limit
      <4> SUFFICES ASSUME NEW l \in owed'[c], l \notin seen[c], ~(Place(m, l) > offset[c] + Limit)
                   PROVE  l \in page'[c]
        OBVIOUS
      <4>1. l \in Letter /\ l \in Present(m) /\ Place(m, l) > offset[c]
        BY <2>1, <2>2 DEF Present
      <4>2. Place(m, l) \in Nat
        BY <1>2, <4>1, Places
      <4>3. Limit \in Nat /\ offset[c] \in Nat
        BY <1>2
      <4>4. offset[c] < Place(m, l) /\ Place(m, l) <= offset[c] + Limit
        <5> HIDE DEF m
        <5>1. QED
          BY <4>1, <4>2, <4>3
      <4>5. QED
        BY <3>1, <4>1, <4>4 DEF Slice
    <3>3. QED
      BY <1>1, <1>4, <2>1, <2>2, <3>1, <3>2 DEF Paged, Present
  <2>5. QED
    BY <1>6, <2>3, <2>4 DEF Turn
<1>7. CASE Row(c)
  <2>1. PICK l \in page[c] :
          /\ page' = [page EXCEPT ![c] = @ \ {l}]
          /\ mail[m][l] = "listed" => seen' = [seen EXCEPT ![c] = @ \cup {l}]
          /\ mail[m][l] # "listed" => seen' = seen
    BY <1>7 DEF Row
  <2>2. pc[c] = "row" /\ UNCHANGED <<pc, result, offset, owed>>
    BY <1>7 DEF Row
  <2>3. \A k \in owed[c] : mail[m][k] = "listed"
    BY <1>3 DEF Listed
  <2>4. \A k \in owed[c] : k \in seen[c] \/ k \in page[c] => k \in seen'[c] \/ k \in page'[c]
    BY ZenonT(60), <2>1, <2>3 DEF TypeOK
  <2>5. QED
    BY <1>1, <1>2, <1>4, <2>2, <2>4 DEF Paged
<1>8. CASE PageEnds(c)
  <2>1. pc[c] = "row" /\ page[c] = {} /\ UNCHANGED <<seen, owed>>
    BY <1>8 DEF PageEnds
  <2>2. \A l \in owed[c] : l \in seen[c] \/ Place(m, l) > offset[c] + Limit
    BY <2>1 DEF Paged
  <2>3. CASE rows[c] = 0
    <3>1. pc'[c] = "end" /\ result'[c] = "blank"
      BY <1>8, <2>3 DEF PageEnds, Exit, TypeOK
    <3>2. QED
      BY <1>1, <1>3, <1>4, <2>1, <3>1 DEF Paged
  <2>4. CASE rows[c] # 0
    <3>1. pc'[c] = "lookup" /\ result'[c] = "" /\ offset'[c] = offset[c] + Limit
      BY <1>2, <1>8, <2>1, <2>4 DEF PageEnds, Goto, TypeOK
    <3>2. QED
      BY <1>1, <1>2, <1>3, <1>4, <2>1, <2>2, <3>1 DEF Paged
  <2>5. QED
    BY <2>3, <2>4
<1>9. QED
  BY <1>3, <1>5, <1>6, <1>7, <1>8, <1>2 DEF ClientStep, Ask, Resolve, Connect, NoDaemon, Direct,
     Mkdir, Chown, Wipe, Save, Rmdir

(* An agent that pages to the end, over a listing that is taken anew       *)
(* without a lock for each page, has been shown every letter that was      *)
(* there when it began and was not removed.                                *)
THEOREM PagingComplete == Spec => []PagingMissesNothing
<1> DEFINE AllPaged == \A c \in Client : Paged(c)
<1>1. Init => AllPaged
  <2> SUFFICES ASSUME Init, NEW c \in Client
               PROVE  Paged(c)
    OBVIOUS
  <2>1. pc[c] = "idle" /\ result[c] = "" /\ owed[c] = {}
    BY DEF Init
  <2>2. QED
    BY <2>1 DEF Paged
<1>2. TypeOK /\ Tracked /\ AllPaged /\ [Next]_vars => AllPaged'
  <2> SUFFICES ASSUME TypeOK, Tracked, AllPaged, [Next]_vars, NEW d \in Client
               PROVE  Paged(d)'
    OBVIOUS
  <2>1. CASE DaemonStep
    BY <2>1, DaemonRests, PagedRests
  <2>2. ASSUME NEW c \in Client, ClientStep(c)
        PROVE  Paged(d)'
    <3>1. CASE d = c
      BY <2>2, <3>1, StepPages
    <3>2. CASE d # c
      BY <2>2, <3>2, OthersRest, PagedRests
    <3>3. QED
      BY <3>1, <3>2
  <2>3. CASE UNCHANGED vars
    <3>1. UNCHANGED <<pc, cmd, copy, result, wrote, offset, page, rows, seen, owed>>
      BY <2>3 DEF vars, diskVars, pageVars
    <3>2. Rests(d) /\ cmd' = cmd
      BY <3>1 DEF Rests
    <3>3. QED
      BY <3>2, PagedRests
  <2>4. QED
    BY <2>1, <2>2, <2>3 DEF Next, DaemonStep, ClientStep
<1>3. AllPaged => PagingMissesNothing
  BY DEF Paged, PagingMissesNothing
<1>4. QED
  BY <1>1, <1>2, <1>3, InitTypes, TypesKeep, TrackedKeeps, PTL DEF Spec
=============================================================================
