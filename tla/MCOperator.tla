----------------------------- MODULE MCOperator -----------------------------
(***************************************************************************)
(* Instances for TLC of the programs that an operator, or a user, runs at  *)
(* a terminal: install.sh, aimx setup, upgrade and uninstall on the host   *)
(* (Host), what setup asks and looks up (Wizard), which release is taken   *)
(* (Release), aimx agents (Agents) and aimx doctor (Doctor). Each module   *)
(* has its own variables; a behaviour is one of one of them, the focus,    *)
(* while the variables of the others keep some value.                      *)
(***************************************************************************)
EXTENDS Host, Sequences

CONSTANTS
  Registry, Recipes, Forks, WithCli, WithLegacy, Other, DataDir, Default, Starts,  \* Agents
  Records, Weak, Sender, Resolvers, DigAttempts, PromptAttempts,                   \* Wizard
  Tag, Suffix, OldBanner, Target, Zero,                                            \* Release
  Mailbox, Catchall, Owner, Reserved, MaxExams, MaxTurns,                          \* Doctor
  MaxRuns, MaxEvents

VARIABLES
  focus, runs,
  disk, agents, troubles,                             \* Agents
  file, host, zone, wiz, current, edited, stale,      \* Wizard
  binary, complete, latest, assets, mirror, fetch, others,  \* Release
  owner, users, dir, exam, lasting, met,       \* Doctor
  events

hostVars == vars
agentsVars == <<disk, agents, troubles>>
wizardVars == <<file, host, zone, wiz, current, edited, stale>>
releaseVars == <<binary, complete, latest, assets, mirror, fetch, others>>
doctorVars == <<owner, users, dir, exam, lasting, met>>
MCVars == <<focus, runs, events, hostVars, agentsVars, wizardVars, releaseVars, doctorVars>>

-----------------------------------------------------------------------------
(* Three agents: one with a CLI of its own and a place where older aimx    *)
(* installed, one that takes a recipe, one that is a fork. The user has    *)
(* one or two of them, with things of their own, a .mcp.json that does not *)
(* parse, or a server named aimx.                                          *)
Bare ==
  [root |-> FALSE, dir |-> FALSE, piece |-> [p \in {"main", "reference"} |-> "none"],
   other |-> {}, entry |-> "none", json |-> "absent", tmp |-> FALSE, legacy |-> FALSE]
Has == [Bare EXCEPT !.root = TRUE]
On(claude, goose, nanoclaw) ==
  [a \in {"claude-code", "goose", "nanoclaw"} |->
     CASE a = "claude-code" -> claude [] a = "goose" -> goose [] OTHER -> nanoclaw]
MCStarts ==
  {On([Has EXCEPT !.legacy = TRUE], [Has EXCEPT !.other = {"theirs"}], Bare),
   On([Has EXCEPT !.entry = "users"], Bare, [Has EXCEPT !.json = "broken"]),
   On(Bare, Bare, [Has EXCEPT !.json = "object", !.other = {"theirs"}]),
   On(Bare, Has, [Has EXCEPT !.json = "object", !.entry = "users"])}

MCRegistry == <<"claude-code", "goose", "nanoclaw">>

A == INSTANCE Agents WITH
  MaxCmds <- MaxRuns, MaxTroubles <- MaxEvents, cmd <- agents, cmds <- runs

ASSUME AgentsAssumption == A!AgentsConstants

(* The domains of Host, three records, two resolvers that are each tried   *)
(* twice.                                                                  *)
MCRecords == <<"MX", "DKIM", "DMARC">>

W == INSTANCE Wizard WITH
  Record <- Records, MaxEdits <- MaxEvents, edits <- events

ASSUME WizardAssumption == W!WizardConstants

(* A release with its two candidates, of which the daemon of this source   *)
(* is the release; two targets.                                            *)
Rel(pre) == [core |-> 2, pre |-> pre]
MCSuffix == <<"rc.1", "rc.2">>
MCOldBanner == {Rel("rc.1"), Rel("rc.2")}
MCTag == {Rel("")} \cup MCOldBanner
MCZero == [core |-> 0, pre |-> ""]

R == INSTANCE Release WITH bin <- binary, unit <- complete, cmd <- fetch

(* The catchall and another mailbox.                                       *)
D == INSTANCE Doctor WITH
  MaxRuns <- MaxExams, MaxChanges <- MaxTurns, run <- exam, changes <- events

ASSUME DoctorAssumption == D!DoctorConstants

-----------------------------------------------------------------------------
HostIdle ==
  /\ bin = None /\ prev = None /\ unit = FALSE /\ proc = NoProc
  /\ config = NoDomain /\ key = "none" /\ keys = 0 /\ cert = FALSE /\ user = FALSE
  /\ op = NoOp /\ ops = 0 /\ crashes = 0
AgentsIdle ==
  disk = [h \in {"user", "root"} |-> On(Bare, Bare, Bare)] /\ agents = A!NoCmd /\ troubles = 0
WizardIdle ==
  /\ file = W!NoFile /\ host = [up |-> FALSE, cert |-> FALSE, key |-> FALSE] /\ zone = <<>>
  /\ wiz = W!NoRun /\ current = {} /\ edited = FALSE /\ stale = FALSE
ReleaseIdle ==
  /\ binary = R!NoBin /\ complete = FALSE /\ latest = Rel("") /\ assets = {}
  /\ mirror = R!NoTag /\ fetch = R!NoCmd /\ others = FALSE
DoctorIdle ==
  /\ owner = <<>> /\ users = {} /\ dir = <<>> /\ exam = D!NoRun
  /\ lasting = {} /\ met = {}

MCInit ==
  \/ /\ focus = "host" /\ Init
     /\ AgentsIdle /\ WizardIdle /\ ReleaseIdle /\ DoctorIdle /\ runs = 0 /\ events = 0
  \/ /\ focus = "agents" /\ A!Init /\ events = 0
     /\ HostIdle /\ WizardIdle /\ ReleaseIdle /\ DoctorIdle
  \/ /\ focus = "wizard" /\ W!Init
     /\ HostIdle /\ AgentsIdle /\ ReleaseIdle /\ DoctorIdle
  \/ /\ focus = "release" /\ R!Init
     /\ HostIdle /\ AgentsIdle /\ WizardIdle /\ DoctorIdle
  \/ /\ focus = "doctor" /\ D!Init
     /\ HostIdle /\ AgentsIdle /\ WizardIdle /\ ReleaseIdle

MCNext ==
  /\ UNCHANGED focus
  /\ \/ /\ focus = "host" /\ Next
        /\ UNCHANGED <<runs, events, agentsVars, wizardVars, releaseVars, doctorVars>>
     \/ /\ focus = "agents" /\ A!Next
        /\ UNCHANGED <<events, hostVars, wizardVars, releaseVars, doctorVars>>
     \/ /\ focus = "wizard" /\ W!Next
        /\ UNCHANGED <<hostVars, agentsVars, releaseVars, doctorVars>>
     \/ /\ focus = "release" /\ R!Next
        /\ UNCHANGED <<hostVars, agentsVars, wizardVars, doctorVars>>
     \/ /\ focus = "doctor" /\ D!Next
        /\ UNCHANGED <<hostVars, agentsVars, wizardVars, releaseVars>>

MCSpec == MCInit /\ [][MCNext]_MCVars

-----------------------------------------------------------------------------
(* The properties of the modules; each is stated, and explained, there.    *)

(* Agents: what is the user's is left alone (write_files,                  *)
(* patch_nanoclaw_mcp_json, plugin_removal_target).                        *)
UsersThingsKept == A!UsersThingsKept

(* Agents: an agent that is said to be done has every file of ours and the *)
(* MCP entry it was said to have (install_to_writer).                      *)
InstalledWhole == A!InstalledWhole

(* Agents: what is said to be removed is no longer found                   *)
(* (remove_plugin_files).                                                  *)
RemovedIsGone == A!RemovedIsGone

(* Wizard: "All DNS records verified" is said of records that were there   *)
(* (verify_all_dns, dig_with_cascade).                                     *)
VerifiedMeansPublished == W!VerifiedMeansPublished

(* Wizard: the trust policy is asked for once, and kept (run_setup).       *)
TrustKept == W!TrustKept

(* Release: the release the operator is told of is the one that is         *)
(* installed, for the target of the host (extract_tarball).                *)
ToldIsInstalled == R!ToldIsInstalled

(* Release: install.sh replaces only by something newer, unless forced     *)
(* (install.sh:1315 and :1320).                                            *)
OnlyNewerReplaces == R!OnlyNewerReplaces

(* Doctor: what it says is true of what it loaded: no fault that lasted is *)
(* passed over, none that never was is reported (run, run_checks).         *)
VerdictIsTrue == D!VerdictIsTrue
=============================================================================
