------------------------------ MODULE Release ------------------------------
(***************************************************************************)
(* Which release a host gets: how install.sh and aimx upgrade choose a     *)
(* tag, compare it with the one that is installed, find the archive for    *)
(* this machine and take the binary out of it, while releases come out,    *)
(* archives are withdrawn and manifests point elsewhere. How the binary is *)
(* then swapped, and the service with it, is Host's.                       *)
(***************************************************************************)
EXTENDS Naturals, Sequences, FiniteSets

CONSTANTS
  Tag,       \* releases: [core, pre], pre = "" when it is not a pre-release
  Suffix,    \* the pre-release suffixes in the order of LC_ALL=C sort
  OldBanner, \* the releases whose --version still begins with "aimx <tag>"
  Target,    \* triples
  Zero,      \* the tag that a dry run takes for the latest
  MaxRuns,   \* bound on commands
  MaxEvents  \* bound on what happens at the releases and on the host

None == "none"
NoTag == [core |-> 0, pre |-> "-"]

VARIABLES
  bin,     \* the binary of the host: its release and target, or none
  unit,    \* a service unit: setup came to its end
  latest,  \* the release that is called the latest
  assets,  \* the archives that can be had, by name
  mirror,  \* the release that a manifest of the operator's own always names
  cmd,     \* the command at work, or the last one
  others,  \* history: the binary was replaced by somebody else meanwhile
  runs, events

vars == <<bin, unit, latest, assets, mirror, cmd, others, runs, events>>

Binary == [tag : Tag, target : Target]
NoBin == [tag |-> NoTag, target |-> None]

NoCmd == [kind |-> None, at |-> "idle", asked |-> NoTag, target |-> None, force |-> FALSE,
          dry |-> FALSE, tag |-> NoTag, own |-> NoTag, seen |-> NoTag, order |-> None,
          listed |-> {}, upgrade |-> FALSE, inner |-> NoBin, told |-> None]

Init ==
  /\ bin \in {NoBin} \cup Binary /\ unit \in BOOLEAN
  /\ bin = NoBin => ~unit
  /\ latest \in Tag /\ assets = Binary
  /\ mirror \in {NoTag} \cup Tag
  /\ cmd = NoCmd /\ others = FALSE /\ runs = 0 /\ events = 0

World == <<unit, latest, assets, mirror>>
Bounds == <<runs, events>>

-----------------------------------------------------------------------------
(* Comparing.                                                              *)

Place(s) == CHOOSE i \in DOMAIN Suffix : Suffix[i] = s

(* install.sh: the numbers, and a pre-release before its release.          *)
Before(a, b) ==
  \/ a.core < b.core
  \/ a.core = b.core /\ a.pre # "" /\ (b.pre = "" \/ Place(a.pre) < Place(b.pre))
CompareTags(a, b) == IF a = b THEN "equal" ELSE IF Before(a, b) THEN "older" ELSE "newer"

(* It runs <path> --version and looks for "aimx <tag>".                    *)
ParseInstalledTag == IF bin.tag \in OldBanner THEN bin.tag ELSE NoTag

-----------------------------------------------------------------------------
At(kind, place) == cmd.kind = kind /\ cmd.at = place
End(told) == cmd' = [NoCmd EXCEPT !.kind = cmd.kind, !.tag = cmd.tag, !.target = cmd.target,
                                  !.told = told]
Quiet == UNCHANGED <<World, others, Bounds>>

Begin(c) ==
  /\ cmd.at = "idle" /\ runs < MaxRuns /\ runs' = runs + 1
  /\ cmd' = c /\ others' = FALSE
  /\ UNCHANGED <<bin, World, events>>

(* The flag, then AIMX_VERSION, then the latest; a leading v goes.         *)
Install(asked, target, force, dry) ==
  Begin([NoCmd EXCEPT !.kind = "install", !.at = "tag", !.asked = asked,
                      !.target = target, !.force = force, !.dry = dry])

ResolveTag ==
  /\ At("install", "tag")
  /\ LET to(t) == cmd' = [cmd EXCEPT !.tag = t, !.at = "decide"]
     IN IF cmd.asked # NoTag THEN to(cmd.asked)
        ELSE IF cmd.dry THEN to(Zero)
        ELSE to(latest) \/ End("error")
  /\ UNCHANGED bin
  /\ Quiet

(* A binary without a unit is an installation that was broken off. One     *)
(* that does not tell its version is upgraded. The same version is left    *)
(* alone, or only set up again when there is somebody to ask for it.       *)
Decide ==
  /\ At("install", "decide")
  /\ LET seen == ParseInstalledTag
         order == IF seen = NoTag THEN None ELSE CompareTags(seen, cmd.tag)
         go(up) == cmd' = [cmd EXCEPT !.seen = seen, !.order = order, !.upgrade = up,
                                      !.at = "download"]
     IN IF bin = NoBin \/ ~unit THEN go(FALSE)
        ELSE \/ order \in {None, "older"} /\ go(TRUE)
             \/ order = "newer" /\ End("error")
             \/ /\ order = "equal"
                /\ IF cmd.force THEN go(TRUE) ELSE End("already") \/ (~cmd.dry /\ End("setup"))
  /\ UNCHANGED bin
  /\ Quiet

-----------------------------------------------------------------------------
(* aimx upgrade.                                                           *)

Upgrade(asked, force, dry) ==
  /\ bin # NoBin
  /\ Begin([NoCmd EXCEPT !.kind = "upgrade", !.at = "manifest", !.asked = asked,
                         !.target = bin.target, !.force = force, !.dry = dry, !.own = bin.tag])

(* Of the environment, of config.toml, or of GitHub. A file of the         *)
(* operator's own names one release whatever tag is asked for.             *)
ManifestTag ==
  IF mirror # NoTag THEN mirror ELSE IF cmd.asked # NoTag THEN cmd.asked ELSE latest

(* The tag is the one the running program was built with.                  *)
Resolve ==
  /\ At("upgrade", "manifest")
  /\ \/ LET t == ManifestTag
        IN IF t = cmd.own /\ ~cmd.force
           THEN cmd' = [NoCmd EXCEPT !.kind = "upgrade", !.tag = t, !.target = cmd.target,
                                     !.told = "uptodate"]
           ELSE cmd' = [cmd EXCEPT !.tag = t, !.at = "download", !.upgrade = TRUE,
                                   !.listed = {a \in assets : a.tag = t}]
     \/ End("error")
  /\ UNCHANGED bin
  /\ Quiet

-----------------------------------------------------------------------------
(* The archive, the binary in it, and the swap.                            *)

Wanted == [tag |-> cmd.tag, target |-> cmd.target]

(* install.sh composes the address, and in a dry run goes no further. aimx *)
(* upgrade takes it from the manifest, and fetches even then. A manifest   *)
(* may give the address of another archive.                                *)
Download ==
  /\ cmd.at = "download"
  /\ LET install == cmd.kind = "install"
         got(a) == IF cmd.dry THEN End("dry")
                   ELSE cmd' = [cmd EXCEPT !.at = "extract", !.inner = a]
     IN \/ install /\ cmd.dry /\ End("dry")
        \/ /\ ~(install /\ cmd.dry) /\ Wanted \in assets
           /\ install \/ Wanted \in cmd.listed
           /\ got(Wanted)
        \/ /\ ~install /\ mirror # NoTag /\ Wanted \in cmd.listed
           /\ \E a \in assets : got(a)
        \/ ~(install /\ cmd.dry) /\ End("error")
  /\ UNCHANGED bin
  /\ Quiet

(* A slip: the binary is looked for in the archive, wherever it is.        *)
ExtractAny ==
  /\ cmd.at = "extract"
  /\ cmd' = [cmd EXCEPT !.at = "swap"]
  /\ UNCHANGED bin
  /\ Quiet

(* It has to be in the directory named after the release and the target.   *)
Extract ==
  /\ cmd.at = "extract"
  /\ \/ cmd.inner = Wanted /\ cmd' = [cmd EXCEPT !.at = "swap"]
     \/ End("error")
  /\ UNCHANGED bin
  /\ Quiet

(* Or the old binary is put back. A first installation goes on to setup.   *)
Swap ==
  /\ cmd.at = "swap"
  /\ \/ bin' = cmd.inner /\ End(IF cmd.upgrade THEN "done" ELSE "setup")
     \/ UNCHANGED bin /\ End("error")
  /\ Quiet

-----------------------------------------------------------------------------
(* The others.                                                             *)

Event == events < MaxEvents /\ events' = events + 1

Publish ==
  /\ Event /\ \E t \in Tag : t # latest /\ latest' = t
  /\ UNCHANGED <<bin, unit, assets, mirror, cmd, others, runs>>

Withdraw ==
  /\ Event /\ \E a \in assets : assets' = assets \ {a}
  /\ UNCHANGED <<bin, unit, latest, mirror, cmd, others, runs>>

(* setup comes to its end, or uninstall; a build of one's own is copied.   *)
OthersTurn ==
  /\ Event
  /\ \/ bin # NoBin /\ unit' = ~unit /\ UNCHANGED <<bin, others>>
     \/ /\ \E b \in Binary : b # bin /\ bin' = b
        /\ others' = TRUE /\ UNCHANGED unit
  /\ UNCHANGED <<latest, assets, mirror, cmd, runs>>

Next ==
  \/ \E t \in {NoTag} \cup Tag, force, dry \in BOOLEAN :
       (\E g \in Target : Install(t, g, force, dry)) \/ Upgrade(t, force, dry)
  \/ ResolveTag \/ Decide \/ Resolve \/ Download \/ Extract \/ Swap
  \/ Publish \/ Withdraw \/ OthersTurn

Spec == Init /\ [][Next]_vars

-----------------------------------------------------------------------------
(* Properties.                                                             *)

(* The tag that the operator is told of is the tag of the binary that is   *)
(* there, built for the target that was asked for or had before, whatever  *)
(* archive a manifest led to; what is called up to date was of that tag    *)
(* when the command began (extract_tarball, tarball_inner_dir; main of     *)
(* install.sh).                                                            *)
ToldIsInstalled ==
  [][cmd.at # "idle" /\ cmd'.at = "idle" =>
       /\ cmd'.told = "done" => bin' = [tag |-> cmd'.tag, target |-> cmd'.target]
       /\ (cmd'.told = "already" \/ (cmd'.told = "uptodate" /\ ~others)) => bin.tag = cmd'.tag]_vars

(* install.sh, without --force, replaces a binary whose setup is complete  *)
(* by a newer one only: the same version is "already installed", and an    *)
(* older one is refused (install.sh:1315 and :1320).                       *)
OnlyNewerReplaces ==
  [][(At("install", "swap") /\ cmd.upgrade /\ ~cmd.force /\ cmd'.told = "done" /\ ~others)
       => CompareTags(bin.tag, bin'.tag) = "older"]_vars
=============================================================================
