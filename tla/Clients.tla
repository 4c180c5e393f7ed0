------------------------------ MODULE Clients ------------------------------
(***************************************************************************)
(* What the users of the daemon run beside it: aimx mailboxes and aimx     *)
(* hooks, which ask the daemon and, run by root while no socket answers,   *)
(* edit config.toml and the mailbox directories themselves; and the tools  *)
(* of the MCP server, which only ask, but read the mailbox files of their  *)
(* user directly, page by page.                                            *)
(*                                                                         *)
(* The daemon answers a request in one step: that is what ConfigStore is   *)
(* shown to implement.  It has read its configuration some time before it  *)
(* binds the socket, and may stop between an effect and the answer.        *)
(***************************************************************************)
EXTENDS ConfigModel, FiniteSets, Naturals

CONSTANTS
  Client,     \* processes, each runs one command
  Commands,   \* the commands it may be given
  Starts,     \* config.toml at the beginning
  Letter,     \* the letters that may arrive: numbers, in the order of file names
  Limit,      \* MAX_LIMIT, the longest page of email_list
  MaxStarts,  \* bound: how often the daemon is started
  NoCopy      \* config.toml was not loaded

ConfigVerbs == {"CREATE", "DELETE", "HOOK-CREATE", "HOOK-DELETE"}
(* PAGE is email_list called again and again, MARK either MARK verb.       *)
ClientVerbs == ConfigVerbs \cup {"LIST", "PAGE", "READ", "REPLY", "SEND", "MARK"}

(* The arguments of the subcommands, and the parameters of the tools, none *)
(* of which has an owner to give.                                          *)
CliCommand ==
  [tool: {"cli"}, verb: ClientVerbs, mailbox: Mailbox,
   caller: Account, owner: Account, hook: Hook, force: BOOLEAN]
ToolCall == [tool: {"mcp"}, verb: ClientVerbs, mailbox: Mailbox,
   caller: Account, owner: Account, hook: Hook, force: BOOLEAN]
Command == CliCommand \cup ToolCall

ASSUME CommandsAssumption == Commands \subseteq Command
ASSUME LettersAssumption == Letter \subseteq Nat /\ IsFiniteSet(Letter)
ASSUME LimitAssumption == Limit \in Nat \ {0}
ASSUME StartsAssumption == Starts \subseteq {s \in Config : Loadable(s)} /\ MaxStarts \in Nat
ASSUME CopyAssumption == NoCopy \notin Config

VARIABLES
  file,     \* config.toml
  live,     \* the daemon's snapshot
  daemon,   \* down, loaded (configuration read, socket not bound yet), serving
  starts,   \* how often it was started
  dirOwner, \* who owns the directories of a mailbox; NoOwner: there are none
  mail,     \* the letters of its inbox: absent, cut (no complete frontmatter), listed
  pc,       \* where a client is
  cmd,      \* its command
  copy,     \* the configuration it loaded when it started
  result,   \* what it told its user; leftover: gone from config.toml only;
            \* blank: a page of nothing but skipped rows, which reads as the end
  wrote,    \* history: how often its command took effect on config.toml
  offset, page, rows, seen,  \* email_list: position, rows still to read, rows of
                             \* this page and letters of all pages shown
  owed      \* history: the letters that were there when the listing began,
            \* empty once something of the mailbox has been removed since

daemonVars == <<file, live, daemon, starts>>
diskVars == <<dirOwner, mail>>
pageVars == <<offset, page, rows, seen>>
vars == <<daemonVars, diskVars, pc, cmd, copy, result, wrote, pageVars, owed>>

NoMail == [l \in Letter |-> "absent"]
Present(m) == {l \in Letter : mail[m][l] # "absent"}
Listed(m) == {l \in Letter : mail[m][l] = "listed"}

TypeOK ==
  /\ file \in Config /\ live \in Config
  /\ daemon \in {"down", "loaded", "serving"} /\ starts \in 0..MaxStarts
  /\ dirOwner \in [Mailbox -> Account \cup {NoOwner}]
  /\ mail \in [Mailbox -> [Letter -> {"absent", "cut", "listed"}]]
  /\ pc \in [Client -> {"idle", "ask", "lookup", "resolve", "connect", "direct", "mkdir", "chown",
                        "wipe", "save", "rmdir", "page", "row", "end"}]
  /\ cmd \in [Client -> Commands]
  /\ copy \in [Client -> Config \cup {NoCopy}]
  /\ result \in [Client -> {"", "done", "refused", "failed", "unsure", "leftover", "blank"}]
  /\ wrote \in [Client -> 0..1]
  /\ offset \in [Client -> Nat] /\ rows \in [Client -> Nat]
  /\ page \in [Client -> SUBSET Letter]
  /\ seen \in [Client -> SUBSET Letter] /\ owed \in [Client -> SUBSET Letter]

Init ==
  /\ file \in Starts /\ live = EmptyConfig
  /\ daemon = "down" /\ starts = 0
  /\ dirOwner = file.owner /\ mail = [m \in Mailbox |-> NoMail]
  /\ pc = [c \in Client |-> "idle"] /\ cmd \in [Client -> Commands]
  /\ copy = [c \in Client |-> NoCopy]
  /\ result = [c \in Client |-> ""] /\ wrote = [c \in Client |-> 0]
  /\ offset = [c \in Client |-> 0] /\ page = [c \in Client |-> {}]
  /\ rows = [c \in Client |-> 0]
  /\ seen = [c \in Client |-> {}] /\ owed = [c \in Client |-> {}]

-----------------------------------------------------------------------------
(* One command on a configuration, as the daemon and the fallback both do  *)
(* it; a hook is taken out of whatever mailbox has it.                     *)
After(q, c) ==
  CASE q.verb = "CREATE" -> WithMailbox(c, q.mailbox, OwnerOf(q))
    [] q.verb = "DELETE" -> WithoutMailbox(c, q.mailbox)
    [] q.verb = "HOOK-CREATE" -> WithHook(c, q.mailbox, q.hook)
    [] q.verb = "HOOK-DELETE" ->
         [c EXCEPT !.hooks = [m \in Mailbox |-> c.hooks[m] \ {q.hook}]]
    [] OTHER -> c

Goto(c, l) == pc' = [pc EXCEPT ![c] = l] /\ UNCHANGED result
Exit(c, r) == pc' = [pc EXCEPT ![c] = "end"] /\ result' = [result EXCEPT ![c] = r]

(* Letters have been removed: listings of the mailbox are owed nothing.    *)
Removed(m) ==
  owed' = [c \in Client |-> IF cmd[c].verb = "PAGE" /\ cmd[c].mailbox = m
                              THEN {} ELSE owed[c]]

RemoveMail(m) == mail' = [mail EXCEPT ![m] = NoMail] /\ Removed(m)

RemoveSome(m) ==
  \E gone \in SUBSET Present(m) :
    /\ mail' = [mail EXCEPT ![m] = [l \in Letter |-> IF l \in gone THEN "absent" ELSE @[l]]]
    /\ Removed(m)

-----------------------------------------------------------------------------
(* The daemon.  The configuration is loaded before the DKIM check and the  *)
(* bind; a letter is a name in the directory before it is a letter.        *)
Load ==
  /\ daemon = "down" /\ starts < MaxStarts
  /\ daemon' = "loaded" /\ live' = file /\ starts' = starts + 1
  /\ UNCHANGED <<file, diskVars, pc, cmd, copy, result, wrote, pageVars, owed>>

Bind ==
  /\ daemon = "loaded" /\ daemon' = "serving"
  /\ UNCHANGED <<file, live, starts, diskVars, pc, cmd, copy, result, wrote, pageVars, owed>>

Stop ==
  /\ daemon # "down" /\ daemon' = "down"
  /\ UNCHANGED <<file, live, starts, diskVars, pc, cmd, copy, result, wrote, pageVars, owed>>

Arrive(m, l) ==
  /\ daemon = "serving" /\ Configured(live, m) /\ mail[m][l] = "absent"
  /\ mail' = [mail EXCEPT ![m][l] = "cut"]
  /\ dirOwner' = [dirOwner EXCEPT ![m] = IF @ = NoOwner THEN live.owner[m] ELSE @]
  /\ UNCHANGED <<daemonVars, pc, cmd, copy, result, wrote, pageVars, owed>>

(* The rest of it is written; or that fails, and a bundle is taken back.   *)
Land(m, l) ==
  /\ daemon = "serving" /\ mail[m][l] = "cut"
  /\ \/ mail' = [mail EXCEPT ![m][l] = "listed"] /\ UNCHANGED owed
     \/ mail' = [mail EXCEPT ![m][l] = "absent"] /\ Removed(m)
  /\ UNCHANGED <<daemonVars, dirOwner, pc, cmd, copy, result, wrote, pageVars>>

-----------------------------------------------------------------------------
(* The front of a command.  Only root can read config.toml; with a copy    *)
(* the hook verbs are checked and the prompts filled locally, without one  *)
(* they go to the daemon.  A prompt takes any time (none with --yes) and   *)
(* may be declined.                                                        *)
LoadedCopy(q) == IF q.tool = "cli" /\ q.caller = Root THEN file ELSE NoCopy

CreateFront(c, k) ==
  /\ cmd[c].tool = "cli" /\ cmd[c].verb = "CREATE"
  /\ Goto(c, IF k # NoCopy THEN "ask" ELSE "connect")

DeleteFront(c) == cmd[c].tool = "cli" /\ cmd[c].verb = "DELETE" /\ Goto(c, "ask")

HookCreateFront(c, k) ==
  /\ cmd[c].tool = "cli" /\ cmd[c].verb = "HOOK-CREATE"
  /\ IF k # NoCopy /\ ~Authorised(cmd[c].caller, k, cmd[c].mailbox)
       THEN Exit(c, "refused") ELSE Goto(c, "connect")

HookDeleteFront(c, k) ==
  /\ cmd[c].tool = "cli" /\ cmd[c].verb = "HOOK-DELETE"
  /\ IF k = NoCopy THEN Goto(c, "lookup")
     ELSE IF HookInUse(k, cmd[c].hook) THEN Goto(c, "ask") ELSE Exit(c, "refused")

(* mailboxes list, hooks list.                                             *)
ListFront(c, k) ==
  /\ cmd[c].tool = "cli" /\ cmd[c].verb = "LIST"
  /\ IF k # NoCopy THEN Exit(c, "done") ELSE Goto(c, "lookup")

(* aimx send is not for root.                                              *)
SendFront(c) ==
  /\ cmd[c].tool = "cli" /\ cmd[c].verb = "SEND"
  /\ IF cmd[c].caller = Root THEN Exit(c, "refused") ELSE Goto(c, "connect")

(* hook_delete, mailbox_create and mailbox_delete leave it all to the      *)
(* daemon; a tool that names another's mailbox otherwise looks it up first.*)
EmailTool(q) == q.verb \in {"PAGE", "READ", "MARK", "SEND", "REPLY"}
HookTool(q) == q.verb \in {"HOOK-CREATE", "LIST"}
PassedOn(q) == q.verb \in {"HOOK-DELETE", "CREATE", "DELETE"}
ToolFront(c) ==
  /\ cmd[c].tool = "mcp"
  /\ \/ EmailTool(cmd[c]) /\ Goto(c, "lookup")
     \/ HookTool(cmd[c]) /\ Goto(c, "lookup")
     \/ PassedOn(cmd[c]) /\ Goto(c, "connect")

Start(c) ==
  LET k == LoadedCopy(cmd[c])
  IN /\ pc[c] = "idle"
     /\ copy' = [copy EXCEPT ![c] = k]
     /\ \/ CreateFront(c, k) \/ DeleteFront(c) \/ HookCreateFront(c, k)
        \/ HookDeleteFront(c, k) \/ ListFront(c, k) \/ SendFront(c) \/ ToolFront(c)
     /\ UNCHANGED <<daemonVars, diskVars, cmd, wrote, pageVars, owed>>

(* The owner of a new mailbox, asked for at most five times; or a yes.     *)
AskOwner(c) == cmd[c].verb = "CREATE" /\ (Goto(c, "connect") \/ Exit(c, "refused"))
AskYes(c) == cmd[c].verb # "CREATE" /\ (Goto(c, "connect") \/ Exit(c, "refused"))
Ask(c) ==
  /\ pc[c] = "ask"
  /\ AskOwner(c) \/ AskYes(c)
  /\ UNCHANGED <<daemonVars, diskVars, cmd, copy, wrote, pageVars, owed>>

(* The rows of MAILBOX-LIST and HOOK-LIST a caller is shown; a directory   *)
(* without a stanza belongs to whoever owns it on disk.                    *)
MailboxVisible(m, a) ==
  /\ Configured(live, m) \/ dirOwner[m] # NoOwner
  /\ \/ a = Root
     \/ IF Configured(live, m) THEN live.owner[m] = a ELSE dirOwner[m] = a

HookVisible(h, a) ==
  \E m \in Mailbox : h \in live.hooks[m] /\ (a = Root \/ live.owner[m] = a)

(* To send one needs an address, which an unregistered directory has not.  *)
RowSuffices(q) ==
  CASE q.verb = "LIST" -> TRUE
    [] q.verb = "HOOK-DELETE" -> HookVisible(q.hook, q.caller)
    [] q.verb \in {"SEND", "REPLY"} -> MailboxVisible(q.mailbox, q.caller) /\ Configured(live, q.mailbox)
    [] OTHER -> MailboxVisible(q.mailbox, q.caller)

AfterLookup(q) ==
  CASE q.verb = "HOOK-DELETE" -> "ask"
    [] q.verb = "PAGE" -> "page"
    [] q.verb \in {"READ", "REPLY"} -> "resolve"
    [] OTHER -> "connect"

Lookup(c) ==
  LET q == cmd[c]
  IN /\ pc[c] = "lookup"
     /\ \/ daemon # "serving" /\ Exit(c, "failed")
        \/ daemon = "serving" /\ ~RowSuffices(q) /\ Exit(c, "refused")
        \/ daemon = "serving" /\ q.verb = "LIST" /\ Exit(c, "done")
        \/ daemon = "serving" /\ q.verb # "LIST" /\ RowSuffices(q) /\ Goto(c, AfterLookup(q))
     /\ UNCHANGED <<daemonVars, diskVars, cmd, copy, wrote, pageVars, owed>>

(* email_read takes the file as it is; email_reply needs its frontmatter,  *)
(* and is then a SEND like any other.                                      *)
Resolve(c) ==
  /\ pc[c] = "resolve"
  /\ \E l \in Letter :
       LET found == mail[cmd[c].mailbox][l]
       IN \/ found = "absent" /\ Exit(c, "failed")
          \/ found # "absent" /\ cmd[c].verb = "READ" /\ Exit(c, "done")
          \/ found = "cut" /\ cmd[c].verb = "REPLY" /\ Exit(c, "failed")
          \/ found = "listed" /\ cmd[c].verb = "REPLY" /\ Goto(c, "connect")
  /\ UNCHANGED <<daemonVars, diskVars, cmd, copy, wrote, pageVars, owed>>

-----------------------------------------------------------------------------
(* The request.  A daemon that answers has applied it to its own snapshot, *)
(* a daemon that stops before the answer may have.                         *)
Accepted(q) ==
  /\ IF q.verb \in ConfigVerbs THEN Legal(q, live) ELSE Authorised(q.caller, live, q.mailbox)
  /\ q.verb = "CREATE" => dirOwner[q.mailbox] \in {NoOwner, OwnerOf(q)}
  /\ q.verb = "DELETE" => q.force \/ Present(q.mailbox) = {}

Obey(c) ==
  LET q == cmd[c]
  IN /\ file' = After(q, live) /\ live' = After(q, live)
     /\ wrote' = [wrote EXCEPT ![c] = @ + 1]
     /\ IF q.verb = "CREATE" THEN dirOwner' = [dirOwner EXCEPT ![q.mailbox] = OwnerOf(q)]
                             ELSE UNCHANGED dirOwner
     /\ IF q.verb = "DELETE" THEN RemoveMail(q.mailbox) ELSE UNCHANGED <<mail, owed>>

(* A slip: every error on the socket is taken for a missing one.           *)
UnansweredAsMissing(c) ==
  IF copy[c] # NoCopy THEN Goto(c, "direct") ELSE Exit(c, "unsure")

(* The connection ends without an answer: no missing socket, so no direct  *)
(* edit, and the user cannot tell.                                         *)
Unanswered(c) == Exit(c, "unsure")

Connect(c) ==
  /\ pc[c] = "connect" /\ daemon = "serving"
  /\ \/ /\ Accepted(cmd[c]) /\ Obey(c)
        /\ \/ Exit(c, "done") /\ UNCHANGED daemon
           \/ Unanswered(c) /\ daemon' = "down"
     \/ /\ \/ ~Accepted(cmd[c]) /\ Exit(c, "refused") /\ UNCHANGED daemon
           \/ Accepted(cmd[c]) /\ Exit(c, "failed") /\ UNCHANGED daemon
           \/ Unanswered(c) /\ daemon' = "down"
        /\ UNCHANGED <<file, live, diskVars, wrote, owed>>
  /\ UNCHANGED <<starts, cmd, copy, pageVars>>

(* The socket is missing or nobody listens.                                *)
NoDaemon(c) ==
  /\ pc[c] = "connect" /\ daemon # "serving"
  /\ IF copy[c] # NoCopy THEN Goto(c, "direct") ELSE Exit(c, "failed")
  /\ UNCHANGED <<daemonVars, diskVars, cmd, copy, wrote, pageVars, owed>>

-----------------------------------------------------------------------------
(* The fallback of root, on the copy it loaded when it started.            *)
Direct(c) ==
  LET q == cmd[c]
  IN /\ pc[c] = "direct"
     /\ \/ q.verb = "CREATE" /\ Configured(copy[c], q.mailbox) /\ Exit(c, "failed")
        \/ q.verb = "CREATE" /\ ~Configured(copy[c], q.mailbox) /\ Goto(c, "mkdir")
        \/ q.verb = "DELETE" /\ Goto(c, IF q.force THEN "wipe" ELSE "save")
        \/ q.verb \in {"HOOK-CREATE", "HOOK-DELETE"} /\ Goto(c, "save")
     /\ UNCHANGED <<daemonVars, diskVars, cmd, copy, wrote, pageVars, owed>>

(* Both directories; when sent cannot be made the inbox goes, whoever made *)
(* it and whatever is in it.                                               *)
Mkdir(c) ==
  LET m == cmd[c].mailbox
  IN /\ pc[c] = "mkdir"
     /\ \/ /\ dirOwner' = [dirOwner EXCEPT ![m] = IF @ = NoOwner THEN Root ELSE @]
           /\ Goto(c, "chown") /\ UNCHANGED <<mail, owed>>
        \/ /\ dirOwner' = [dirOwner EXCEPT ![m] = NoOwner]
           /\ RemoveMail(m) /\ Exit(c, "failed")
     /\ UNCHANGED <<daemonVars, cmd, copy, wrote, pageVars>>

Chown(c) ==
  LET q == cmd[c]
  IN /\ pc[c] = "chown"
     /\ \/ /\ dirOwner' = [dirOwner EXCEPT ![q.mailbox] = OwnerOf(q)]
           /\ Goto(c, "save") /\ UNCHANGED <<mail, owed>>
        \/ /\ dirOwner' = [dirOwner EXCEPT ![q.mailbox] = NoOwner]
           /\ RemoveMail(q.mailbox) /\ Exit(c, "failed")
     /\ UNCHANGED <<daemonVars, cmd, copy, wrote, pageVars>>

(* delete --force empties the directories before anything is checked.      *)
Wipe(c) ==
  /\ pc[c] = "wipe"
  /\ \/ RemoveMail(cmd[c].mailbox) /\ Goto(c, "save")
     \/ RemoveSome(cmd[c].mailbox) /\ Exit(c, "failed")
  /\ UNCHANGED <<daemonVars, dirOwner, cmd, copy, wrote, pageVars>>

(* A slip: the new hook's name is not looked for in other mailboxes.       *)
PossibleUnvalidated(q, k) == q.verb # "CREATE" => Configured(k, q.mailbox)

Possible(q, k) ==
  /\ q.verb \in {"DELETE", "HOOK-CREATE"} => Configured(k, q.mailbox)
  /\ q.verb = "HOOK-CREATE" => ~HookInUse(k, q.hook)
  /\ q.verb = "HOOK-DELETE" => HookInUse(k, q.hook)

(* The copy, changed, replaces config.toml, whatever that is by now.       *)
Save(c) ==
  LET q == cmd[c]
  IN /\ pc[c] = "save"
     /\ \/ /\ Possible(q, copy[c])
           /\ file' = After(q, copy[c]) /\ wrote' = [wrote EXCEPT ![c] = @ + 1]
           /\ IF q.verb = "DELETE" THEN Goto(c, "rmdir") ELSE Exit(c, "done")
        \/ Exit(c, "failed") /\ UNCHANGED <<file, wrote>>
     /\ UNCHANGED <<live, daemon, starts, diskVars, cmd, copy, pageVars, owed>>

Rmdir(c) ==
  LET m == cmd[c].mailbox
  IN /\ pc[c] = "rmdir"
     /\ \/ /\ dirOwner' = [dirOwner EXCEPT ![m] = NoOwner]
           /\ RemoveMail(m) /\ Exit(c, "done")
        \/ RemoveSome(m) /\ Exit(c, "leftover") /\ UNCHANGED dirOwner
     /\ UNCHANGED <<daemonVars, cmd, copy, wrote, pageVars>>

-----------------------------------------------------------------------------
(* email_list: the names once, newest first, then the files of one page.   *)
(* The agent asks for the next page until one comes back without rows.     *)
(* Where the letter l stands in the names, newest first.                   *)
Place(m, l) == Cardinality({k \in Present(m) : k >= l})

(* A slip: the page ends one short.                                        *)
SliceShort(m, from) == {l \in Present(m) : from < Place(m, l) /\ Place(m, l) < from + Limit}

Slice(m, from) == {l \in Present(m) : from < Place(m, l) /\ Place(m, l) <= from + Limit}

Turn(c) ==
  LET m == cmd[c].mailbox
  IN /\ pc[c] = "page"
     /\ owed' = IF offset[c] = 0 THEN [owed EXCEPT ![c] = Listed(m)] ELSE owed
     /\ \/ offset[c] >= Cardinality(Present(m)) /\ Exit(c, "done") /\ UNCHANGED <<page, rows>>
        \/ /\ offset[c] < Cardinality(Present(m))
           /\ page' = [page EXCEPT ![c] = Slice(m, offset[c])]
           /\ rows' = [rows EXCEPT ![c] = 0] /\ Goto(c, "row")
     /\ UNCHANGED <<daemonVars, diskVars, cmd, copy, wrote, offset, seen>>

Row(c) ==
  /\ pc[c] = "row"
  /\ \E l \in page[c] :
       /\ \A k \in page[c] : k <= l
       /\ page' = [page EXCEPT ![c] = @ \ {l}]
       /\ IF mail[cmd[c].mailbox][l] = "listed"
            THEN /\ seen' = [seen EXCEPT ![c] = @ \cup {l}]
                 /\ rows' = [rows EXCEPT ![c] = @ + 1]
            ELSE UNCHANGED <<seen, rows>>
  /\ UNCHANGED <<daemonVars, diskVars, pc, cmd, copy, result, wrote, offset, owed>>

PageEnds(c) ==
  /\ pc[c] = "row" /\ page[c] = {}
  /\ IF rows[c] = 0 THEN Exit(c, "blank") /\ UNCHANGED offset
     ELSE Goto(c, "lookup") /\ offset' = [offset EXCEPT ![c] = @ + Limit]
  /\ UNCHANGED <<daemonVars, diskVars, cmd, copy, wrote, page, rows, seen, owed>>

-----------------------------------------------------------------------------
Next ==
  \/ Load \/ Bind \/ Stop
  \/ \E m \in Mailbox, l \in Letter : Arrive(m, l) \/ Land(m, l)
  \/ \E c \in Client :
       \/ Start(c) \/ Ask(c) \/ Lookup(c) \/ Resolve(c) \/ Connect(c) \/ NoDaemon(c)
       \/ Direct(c) \/ Mkdir(c) \/ Chown(c) \/ Wipe(c) \/ Save(c) \/ Rmdir(c)
       \/ Turn(c) \/ Row(c) \/ PageEnds(c)

Spec == Init /\ [][Next]_vars

-----------------------------------------------------------------------------
(* Whatever the commands and the daemon write over each other, config.toml *)
(* stays one that Config::load takes: the next start of the daemon works   *)
(* (validate_hooks before each direct save).  An --owner of root, which    *)
(* the fallback does not refuse, is not among the commands.                *)
LoadableFile == Loadable(file)

(* What a command tells its user is what happened to config.toml: done is  *)
(* done once, by the daemon or by the fallback and never by both, and      *)
(* refused or failed is not at all.                                        *)
ToldTruth ==
  \A c \in Client : cmd[c].verb \in ConfigVerbs =>
    /\ result[c] \in {"done", "leftover"} => wrote[c] = 1
    /\ result[c] \in {"refused", "failed"} => wrote[c] = 0

(* An agent that pages to the end has been shown every letter that was     *)
(* there when it began, whatever arrived meanwhile (the listing is taken   *)
(* anew, without a lock, for each page).                                   *)
PagingMissesNothing ==
  \A c \in Client :
    cmd[c].verb = "PAGE" /\ result[c] = "done" => owed[c] \subseteq seen[c]
=============================================================================
