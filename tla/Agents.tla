------------------------------- MODULE Agents -------------------------------
(***************************************************************************)
(* aimx agents setup and aimx agents remove: what they put into, and take  *)
(* out of, the directories of the AI agents on a host, next to files that  *)
(* belong to the user. A command works in small steps: any of them may     *)
(* fail, the command may be killed between two, and meanwhile the user, or *)
(* the agent, edits the same files.                                        *)
(***************************************************************************)
EXTENDS Naturals, Sequences

CONSTANTS
  Registry,   \* the supported agents, in order
  Recipes,    \* those that take one file in a directory shared with the user's
  Forks,      \* those that live in a clone of the user's, MCP entry included
  WithCli,    \* those that register an MCP server by a command of their own
  WithLegacy, \* those that older versions of aimx installed elsewhere
  Other,      \* recipes and MCP servers that are the user's own
  DataDir,    \* values of --data-dir, the default among them
  Default,
  Starts,     \* what a user may have on disk before the first command
  MaxCmds,    \* bound on the commands run
  MaxTroubles \* bound on commands killed and on what the user does meanwhile

Agent == {Registry[i] : i \in DOMAIN Registry}
Home == {"user", "root"}
Piece == {"main", "reference"}
Users == "users"     \* an entry, or a file, as the user wrote it
None == "none"

VARIABLES
  disk,   \* by home and agent
  cmd,    \* the command at work, or the last one
  cmds, troubles

vars == <<disk, cmd, cmds, troubles>>

(* root: the agent's own directory. dir: aimx's directory in it. piece: the *)
(* files of aimx's, "empty" before they are filled. other: what the user   *)
(* keeps in the same directory or file. entry: the MCP server named aimx,  *)
(* by its data directory. json: .mcp.json of a fork. tmp: its sibling.     *)
Disk ==
  [root: BOOLEAN, dir: BOOLEAN, piece: [Piece -> {None, "empty", "ours", Users}],
   other: SUBSET Other, entry: DataDir \cup {None, Users},
   json: {"absent", "blank", "broken", "object"}, tmp: BOOLEAN, legacy: BOOLEAN]

AgentsConstants ==
  /\ Registry \in Seq(Agent) /\ Registry # <<>>
  /\ Recipes \subseteq Agent /\ Forks \subseteq Agent /\ WithCli \subseteq Agent
  /\ WithLegacy \subseteq Agent /\ Recipes \cap Forks = {}
  /\ WithCli \cap (Recipes \cup Forks) = {}
  /\ Default \in DataDir /\ {Users, None} \cap DataDir = {}
  /\ Starts \subseteq [Agent -> Disk]

Bare == [root |-> FALSE, dir |-> FALSE, piece |-> [p \in Piece |-> None], other |-> {},
         entry |-> None, json |-> "absent", tmp |-> FALSE, legacy |-> FALSE]

Results == {None, "error", "aborted", "registered", "merged", "conflict", "hint", "removed"}

(* rows: the agents as the picker found them. picked: the boxes ticked.    *)
(* queue: the agents still to be installed. seen: .mcp.json as it was read. *)
NoCmd ==
  [kind |-> None, at |-> "idle", home |-> "user", force |-> FALSE, tty |-> FALSE,
   dd |-> Default, tui |-> FALSE, rows |-> [a \in Agent |-> "absent"], picked |-> {},
   queue |-> {}, agent |-> Registry[1], yes |-> FALSE, left |-> {}, seen |-> Bare,
   told |-> None]

Init ==
  /\ \E start \in Starts : disk = [h \in Home |-> IF h = "user" THEN start
                                                 ELSE [a \in Agent |-> Bare]]
  /\ cmd = NoCmd /\ cmds = 0 /\ troubles = 0

-----------------------------------------------------------------------------
(* What a look at the disk says.                                           *)

(* Goose takes a single blob.                                              *)
Pieces(a) == IF a \in Recipes THEN {"main"} ELSE Piece

Exists(d, p) == d.piece[p] # None

(* A recipe by its name, a skill by a file at the top that says "aimx".    *)
HoldsAimx(d, a) ==
  IF a \in Recipes THEN Exists(d, "main") ELSE d.dir /\ d.piece["main"] \in {"ours", Users}

InstallState(d, a) ==
  IF HoldsAimx(d, a) THEN "wired" ELSE IF d.root THEN "unwired" ELSE "absent"

Selectable(rows) == {a \in Agent : rows[a] # "absent"}

(* The entry that the printed snippet, or command, would make.             *)
Hint(a, dd) == IF a \in Recipes THEN None ELSE dd

-----------------------------------------------------------------------------
Here == disk[cmd.home][cmd.agent]
At(place) == cmd.at = place
Goto(place) == cmd' = [cmd EXCEPT !.at = place]
Write(d) == disk' = [disk EXCEPT ![cmd.home][cmd.agent] = d]
Quiet == UNCHANGED <<cmds, troubles>>

(* One agent is done with; the picker goes on with the next, whatever came *)
(* of this one.                                                            *)
Tell(result) ==
  cmd' = IF cmd.tui
         THEN [cmd EXCEPT !.told = result, !.at = "next", !.left = {}, !.seen = Bare]
         ELSE [NoCmd EXCEPT !.told = result]

Fail == Tell("error") /\ UNCHANGED disk

Begin(c) ==
  /\ cmd.at = "idle" /\ cmds < MaxCmds /\ cmds' = cmds + 1
  /\ cmd' = c
  /\ UNCHANGED <<disk, troubles>>

(* Root is refused, or sent to /root; a tool may have no terminal.         *)
Setup(a, h, force, tty, dd) ==
  Begin([NoCmd EXCEPT !.kind = "setup", !.at = "clean", !.home = h, !.agent = a,
                      !.force = force, !.tty = tty, !.dd = dd])

Rows(h) == [a \in Agent |-> InstallState(disk[h][a], a)]

(* Without a name, on a terminal: the picker, unless there is no agent.    *)
Picker(h, force, dd) ==
  LET rows == Rows(h)
  IN /\ Selectable(rows) # {}
     /\ Begin([NoCmd EXCEPT !.kind = "setup", !.at = "pick", !.home = h, !.tui = TRUE,
                            !.force = force, !.tty = TRUE, !.dd = dd, !.rows = rows,
                            !.picked = {a \in Agent : rows[a] = "unwired"}])

Toggle(a) ==
  /\ At("pick") /\ a \in Selectable(cmd.rows)
  /\ cmd' = [cmd EXCEPT !.picked = (@ \ {a}) \cup ({a} \ @)]
  /\ UNCHANGED disk
  /\ Quiet

(* Enter, with nothing ticked, ends it, as q does.                         *)
Pick ==
  /\ At("pick")
  /\ \/ cmd.picked # {} /\ Goto("confirm")
     \/ cmd' = NoCmd
  /\ UNCHANGED disk
  /\ Quiet

Confirm ==
  /\ At("confirm")
  /\ \/ cmd' = [cmd EXCEPT !.at = "next", !.queue = cmd.picked]
     \/ Goto("pick")
  /\ UNCHANGED disk
  /\ Quiet

First(S) ==
  LET i == CHOOSE i \in DOMAIN Registry :
             Registry[i] \in S /\ \A j \in DOMAIN Registry : j < i => Registry[j] \notin S
  IN Registry[i]

NextAgent ==
  /\ At("next")
  /\ IF cmd.queue = {} THEN cmd' = NoCmd
     ELSE LET a == First(cmd.queue)
          IN cmd' = [cmd EXCEPT !.agent = a, !.queue = @ \ {a}, !.yes = FALSE, !.at = "clean",
                              !.told = None]
  /\ UNCHANGED disk
  /\ Quiet

-----------------------------------------------------------------------------
(* Installing one agent.                                                   *)

(* A leftover that cannot be removed is only warned of.                    *)
CleanLegacy(place) ==
  /\ At("clean") /\ Goto(place)
  /\ \/ cmd.agent \in WithLegacy /\ Write([Here EXCEPT !.legacy = FALSE])
     \/ UNCHANGED disk
  /\ Quiet

Clean == cmd.kind = "setup" /\ CleanLegacy("check")

(* A fork must be there. Files that are there too are asked about once, or *)
(* taken for a mistake when there is nobody to ask.                        *)
Check ==
  /\ At("check") /\ UNCHANGED disk
  /\ LET there == {p \in Pieces(cmd.agent) : Exists(Here, p)}
         go(yes) == cmd' = [cmd EXCEPT !.at = "write", !.left = Pieces(cmd.agent), !.yes = yes]
     IN IF cmd.agent \in Forks /\ ~Here.root THEN Tell("error")
        ELSE IF cmd.force \/ there = {} THEN go(FALSE)
        ELSE IF cmd.tty THEN go(TRUE) \/ Tell("aborted")
        ELSE Tell("error")
  /\ Quiet

(* A slip: only files that are missing are written.                        *)
WriteMissing ==
  /\ At("write") /\ cmd.left # {}
  /\ LET p == IF "main" \in cmd.left THEN "main" ELSE "reference"
     IN IF Exists(Here, p) /\ Here.piece[p] # "empty"
        THEN cmd' = [cmd EXCEPT !.left = @ \ {p}] /\ UNCHANGED disk
        ELSE /\ Write([Here EXCEPT !.root = TRUE, !.dir = TRUE, !.piece[p] = "ours"])
             /\ cmd' = [cmd EXCEPT !.left = @ \ {p}]
  /\ Quiet

(* The files in the order of their names. Each is emptied, then filled.    *)
WriteFile ==
  /\ At("write") /\ cmd.left # {}
  /\ LET p == IF "main" \in cmd.left THEN "main" ELSE "reference"
         put(c) == [Here EXCEPT !.root = TRUE, !.dir = TRUE, !.piece[p] = c]
     IN \/ /\ Here.piece[p] # "empty" /\ Write(put("empty")) /\ UNCHANGED cmd
        \/ /\ Here.piece[p] = "empty" /\ Write(put("ours"))
           /\ cmd' = [cmd EXCEPT !.left = @ \ {p}]
        \/ Fail
  /\ Quiet

Written ==
  /\ At("write") /\ cmd.left = {} /\ UNCHANGED disk
  /\ IF cmd.agent \in Forks THEN Goto("merge")
     ELSE IF cmd.agent \in WithCli THEN Goto("unregister")
     ELSE Tell("hint")
  /\ Quiet

(* .mcp.json as it is now; an entry of that name needs --force.            *)
MergeRead ==
  /\ At("merge") /\ UNCHANGED disk
  /\ IF Here.json = "broken" THEN Tell("error")
     ELSE IF Here.entry # None /\ ~cmd.force THEN Tell("conflict")
     ELSE cmd' = [cmd EXCEPT !.at = "temp", !.seen = Here]
  /\ Quiet

(* The temporary file stays when its writing, or the rename, fails.        *)
MergeTemp ==
  /\ At("temp")
  /\ Write([Here EXCEPT !.tmp = TRUE])
  /\ Goto("rename") \/ Tell("error")
  /\ Quiet

(* A slip: the file is written with the one entry.                         *)
MergeAnew ==
  /\ At("rename")
  /\ Write([Here EXCEPT !.tmp = FALSE, !.json = "object", !.other = {}, !.entry = cmd.dd])
  /\ Tell("merged")
  /\ Quiet

MergeRename ==
  /\ At("rename")
  /\ \/ /\ Write([Here EXCEPT !.tmp = FALSE, !.json = "object",
                              !.other = cmd.seen.other, !.entry = cmd.dd])
        /\ Tell("merged")
     \/ Fail
  /\ Quiet

(* The agent's own command: what it says of the removal is ignored.        *)
Unregister ==
  /\ At("unregister") /\ Goto("register")
  /\ Write([Here EXCEPT !.entry = None]) \/ UNCHANGED disk
  /\ Quiet

(* It may be missing from the PATH, or refuse: then the hint is printed.   *)
Register ==
  /\ At("register")
  /\ \/ Write([Here EXCEPT !.entry = cmd.dd]) /\ Tell("registered")
     \/ Tell("hint") /\ UNCHANGED disk
  /\ Quiet

-----------------------------------------------------------------------------
(* aimx agents remove                                                      *)

Remove(a, h) ==
  Begin([NoCmd EXCEPT !.kind = "remove", !.at = "clean", !.home = h, !.agent = a])

RemoveLegacy == cmd.kind = "remove" /\ CleanLegacy("remove")

(* A slip: only the skill itself is unlinked.                              *)
RemoveMain ==
  /\ At("remove")
  /\ Write([Here EXCEPT !.piece["main"] = None])
  /\ Tell("removed")
  /\ Quiet

(* The recipe; or, file by file, the directory and what is in it.          *)
RemoveFiles ==
  /\ At("remove")
  /\ LET there == {p \in Piece : Exists(Here, p)}
     IN \/ /\ there # {} /\ UNCHANGED cmd
           /\ \E p \in there : Write([Here EXCEPT !.piece[p] = None])
        \/ /\ there = {} /\ Tell("removed")
           /\ Write([Here EXCEPT !.dir = cmd.agent \in Recipes /\ @])
        \/ Fail
  /\ Quiet

-----------------------------------------------------------------------------
(* The user, and the agent, while a command runs or between two.           *)

Kill ==
  /\ cmd.at # "idle" /\ troubles < MaxTroubles /\ troubles' = troubles + 1
  /\ cmd' = NoCmd
  /\ UNCHANGED <<disk, cmds>>

Edit(a, d) ==
  /\ troubles < MaxTroubles /\ troubles' = troubles + 1
  /\ disk["user"][a] # d
  /\ disk' = [disk EXCEPT !["user"][a] = d]
  /\ UNCHANGED <<cmd, cmds>>

UserAdds(a) ==
  /\ a \in Recipes \cup Forks /\ disk["user"][a].root /\ disk["user"][a].json # "broken"
  /\ \E o \in Other : Edit(a, [disk["user"][a] EXCEPT !.other = @ \cup {o},
                                  !.json = IF a \in Forks THEN "object" ELSE @])

(* The user does what a hint of aimx said, or removes the entry again.     *)
UserPastes(a) ==
  /\ a \notin Recipes /\ disk["user"][a].root /\ disk["user"][a].json # "broken"
  /\ \E e \in {Hint(a, Default), None} :
       Edit(a, [disk["user"][a] EXCEPT !.entry = e,
                                       !.json = IF a \in Forks THEN "object" ELSE @])

UserRewrites(a) ==
  /\ cmd.at = "idle" /\ disk["user"][a].piece["main"] = "ours"
  /\ Edit(a, [disk["user"][a] EXCEPT !.piece["main"] = Users])

InstallStep ==
  \/ Clean \/ Check \/ WriteFile \/ Written \/ MergeRead \/ MergeTemp \/ MergeRename
  \/ Unregister \/ Register
CommandStep ==
  Pick \/ Confirm \/ NextAgent \/ InstallStep \/ RemoveLegacy \/ RemoveFiles

Next ==
  \/ \E a \in Agent, h \in Home, dd \in DataDir :
       \/ Setup(a, h, TRUE, FALSE, dd)
       \/ \E tty \in BOOLEAN : Setup(a, h, FALSE, tty, dd)
  \/ \E h \in Home, dd \in DataDir, force \in BOOLEAN : Picker(h, force, dd)
  \/ \E a \in Agent, h \in Home : Remove(a, h)
  \/ \E a \in Agent : Toggle(a) \/ UserAdds(a) \/ UserPastes(a) \/ UserRewrites(a)
  \/ CommandStep \/ Kill

Spec == Init /\ [][Next]_vars

-----------------------------------------------------------------------------
(* Properties.                                                             *)

TypeOK ==
  /\ disk \in [Home -> [Agent -> Disk]]
  /\ cmd.picked \subseteq Agent /\ cmd.queue \subseteq Agent /\ cmd.left \subseteq Piece
  /\ cmd.home \in Home /\ cmd.agent \in Agent /\ cmd.seen \in Disk
  /\ cmd.told \in Results
  /\ cmds \in 0..MaxCmds /\ troubles \in 0..MaxTroubles

(* A command leaves alone what is the user's: other recipes and other MCP  *)
(* servers always (those in .mcp.json when it was read), a file of ours    *)
(* that they rewrote unless they said yes or --force or removed it, their  *)
(* entry in .mcp.json unless --force; and a home that is not its own       *)
(* (write_files, patch_nanoclaw_mcp_json, plugin_removal_target).          *)
UsersThingsKept ==
  [][troubles' = troubles =>
       \A h \in Home, a \in Agent :
         LET old == disk[h][a] new == disk'[h][a]
         IN /\ h # cmd.home => new = old
            /\ IF At("rename") /\ a = cmd.agent
               THEN old.other \cap cmd.seen.other \subseteq new.other
               ELSE new.other = old.other
            /\ (cmd.kind = "setup" /\ \E p \in Piece : old.piece[p] = Users /\ new.piece[p] # Users)
                 => cmd.force \/ cmd.yes
            /\ (a \in Forks /\ new.entry # old.entry) => cmd.force \/ cmd.seen.entry = None]_vars

(* When setup says that an agent is done, every file is there and is ours, *)
(* and the MCP entry is the one asked for if it says so: whatever an       *)
(* earlier command that was killed left there (install_to_writer).         *)
InstalledWhole ==
  [][(cmd.kind = "setup" /\ cmd.told = None
        /\ cmd'.told \in {"registered", "merged", "conflict", "hint"})
       => LET d == disk'[cmd.home][cmd.agent]
          IN /\ \A p \in Pieces(cmd.agent) : d.piece[p] = "ours"
             /\ cmd'.told \in {"registered", "merged"} => d.entry = cmd.dd]_vars

(* When remove says so nothing is left that the picker would take for      *)
(* ours, however far a setup got before it was killed; the MCP entry, that *)
(* the hint names, apart (remove_plugin_files).                            *)
RemovedIsGone ==
  [][(cmd.kind = "remove" /\ cmd'.told = "removed")
       => LET d == disk'[cmd.home][cmd.agent]
          IN (\A p \in Piece : d.piece[p] = None)
             /\ InstallState(d, cmd.agent) # "wired"]_vars
=============================================================================
