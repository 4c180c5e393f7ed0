------------------------------ MODULE Wizard ------------------------------
(***************************************************************************)
(* aimx setup as the operator meets it: the questions, the DNS records it  *)
(* asks for and looks up through public resolvers that may not answer, and *)
(* the trust policy it asks for once. Meanwhile records are published and  *)
(* withdrawn, another program may write config.toml, and the wizard may be *)
(* interrupted and run again. What it installs in the end is Host's.       *)
(***************************************************************************)
EXTENDS Naturals, Sequences

CONSTANTS
  Domain,         \* valid names
  Record,         \* the records asked for, in the order they are verified
  Weak,           \* those that can be there but not as asked, and still pass
  Sender,         \* lists of trusted senders
  Resolvers,      \* number of public resolvers, asked one after the other
  DigAttempts,    \* per resolver
  PromptAttempts, \* invalid answers to the senders prompt
  MaxRuns,        \* bound on runs of the wizard
  MaxEdits        \* bound on records and files changed by others

Rec == {Record[i] : i \in DOMAIN Record}
None == "none"
Off == "off"      \* trust = "none": no hook fires
Policy == Sender \cup {Off}

(* A valid name has two labels at least (validate_domain).                 *)
WizardConstants == None \notin Domain

VARIABLES
  file,     \* config.toml
  host,     \* what makes setup take an installation for complete
  zone,     \* the records as published, by domain
  wiz,      \* the run at work, or the last one
  current,  \* history: records in order at some time since this look at them
  edited,   \* history: config.toml changed by others since the policy was asked
  stale,    \* history: config.toml changed by others since this run loaded it
  runs, edits

vars == <<file, host, zone, wiz, current, edited, stale, runs, edits>>

Value == {"absent", "wrong", "weak", "right"}
NoFile == [state |-> "absent", domain |-> None, trust |-> None, catchall |-> FALSE]
Results == {None, "pass", "fail", "missing", "warn"}

(* asked is the policy that was confirmed, copy the config.toml in memory. *)
NoRun ==
  [at |-> "idle", quiet |-> FALSE, domain |-> None, whole |-> FALSE, rec |-> 1,
   resolver |-> 1, attempt |-> 1, result |-> [r \in Rec |-> None],
   asked |-> None, tries |-> 0, copy |-> NoFile, told |-> None]

Passable(r, v) == v = "right" \/ (v = "weak" /\ r \in Weak)
Published(d) == IF d = None THEN {} ELSE {r \in Rec : Passable(r, zone[d][r])}

Init ==
  /\ file \in {NoFile} \cup
       {[state |-> "whole", domain |-> d, trust |-> p, catchall |-> c] :
          d \in Domain, p \in Policy, c \in BOOLEAN}
  /\ host \in [up : BOOLEAN, cert : BOOLEAN, key : BOOLEAN]
  /\ host.up => host.cert /\ host.key /\ file.state = "whole"
  /\ zone \in {[d \in Domain |-> [r \in Rec |-> v]] : v \in {"absent", "right"}}
  /\ wiz = NoRun /\ current = {} /\ edited = FALSE /\ stale = FALSE
  /\ runs = 0 /\ edits = 0

History == <<current, edited, stale>>
World == <<file, host, zone>>
Bounds == <<runs, edits>>

-----------------------------------------------------------------------------
At(place) == wiz.at = place
Goto(place) == wiz' = [wiz EXCEPT !.at = place]
End(told) == wiz' = [NoRun EXCEPT !.told = told]

(* Root, and a check of port 25 that passed; AIMX_NONINTERACTIVE.          *)
Begin(quiet) ==
  /\ At("idle") /\ runs < MaxRuns /\ runs' = runs + 1
  /\ wiz' = [NoRun EXCEPT !.at = "domain", !.quiet = quiet]
  /\ edited' = FALSE /\ stale' = FALSE
  /\ UNCHANGED <<World, current, edits>>

(* The domain is an argument, or asked for: a name that is not valid, or   *)
(* not confirmed, is asked for again; no name, or no access to its DNS,    *)
(* ends it. Then the state of the installation, and the addresses.         *)
GetDomain ==
  /\ At("domain")
  /\ \/ \E d \in Domain :
          wiz' = [wiz EXCEPT !.at = "key", !.domain = d,
                             !.whole = host.up /\ host.cert /\ host.key]
     \/ End("error")
  /\ UNCHANGED <<World, History, Bounds>>

(* The key whose record is shown is made now when there is none.           *)
GetKey ==
  /\ At("key")
  /\ \/ host' = [host EXCEPT !.key = TRUE] /\ Goto("menu")
     \/ ~host.key /\ End("error") /\ UNCHANGED host
  /\ UNCHANGED <<file, zone, History, Bounds>>

-----------------------------------------------------------------------------
(* The DNS records.                                                        *)

(* Enter, or the end of the input.                                         *)
Verify ==
  /\ At("menu")
  /\ wiz' = [wiz EXCEPT !.at = "look", !.rec = 1, !.resolver = 1, !.attempt = 1,
                        !.result = [r \in Rec |-> None]]
  /\ current' = Published(wiz.domain)
  /\ UNCHANGED <<World, edited, stale, Bounds>>

Skip ==
  /\ At("menu") /\ Goto("cert")
  /\ UNCHANGED <<World, History, Bounds>>

(* A slip: any key will do.                                                *)
JudgePresence(r, v) ==
  CASE v = "absent" -> "missing"
    [] OTHER -> "pass"

(* What an answer makes of a record. A weak DMARC policy is warned of; an  *)
(* MX record only has to contain the domain.                               *)
Judge(r, v) ==
  CASE v = "absent" -> "missing"
    [] Passable(r, v) -> IF r = "DMARC" /\ v = "weak" THEN "warn" ELSE "pass"
    [] OTHER -> "fail"

Looked(result) ==
  wiz' = [wiz EXCEPT !.result[Record[wiz.rec]] = result, !.rec = @ + 1,
                     !.resolver = 1, !.attempt = 1,
                     !.at = IF wiz.rec = Len(Record) THEN "shown" ELSE "look"]

(* dig ends well: its answer counts, empty or not.                         *)
DigAnswers ==
  /\ At("look")
  /\ LET r == Record[wiz.rec] IN Looked(Judge(r, zone[wiz.domain][r]))
  /\ UNCHANGED <<World, History, Bounds>>

(* It does not: again, then the next resolver, then a failed lookup.       *)
DigFails ==
  /\ At("look")
  /\ IF wiz.attempt < DigAttempts THEN wiz' = [wiz EXCEPT !.attempt = @ + 1]
     ELSE IF wiz.resolver < Resolvers
          THEN wiz' = [wiz EXCEPT !.resolver = @ + 1, !.attempt = 1]
     ELSE Looked("fail")
  /\ UNCHANGED <<World, History, Bounds>>

AllPass == \A r \in Rec : wiz.result[r] \in {"pass", "warn"}

Shown ==
  /\ At("shown")
  /\ wiz' = [wiz EXCEPT !.at = IF AllPass THEN "cert" ELSE "menu",
                        !.told = IF AllPass THEN "verified" ELSE @]
  /\ UNCHANGED <<World, History, Bounds>>

-----------------------------------------------------------------------------
(* Certificate, trust policy, installation.                                *)

Certify ==
  /\ At("cert")
  /\ \/ host' = [host EXCEPT !.cert = TRUE] /\ Goto("trust")
     \/ ~wiz.whole /\ ~host.cert /\ End("error") /\ UNCHANGED host
  /\ UNCHANGED <<file, zone, History, Bounds>>

Decide(p) == wiz' = [wiz EXCEPT !.asked = p, !.at = "install", !.tries = 0]

(* A slip: asked for again when the installation is not complete.          *)
GetPolicyUnlessWhole ==
  /\ At("trust")
  /\ IF wiz.whole THEN Goto("install")
     ELSE IF wiz.quiet THEN Decide(Off)
     ELSE Goto("prompt")
  /\ edited' = FALSE
  /\ UNCHANGED <<World, current, stale, Bounds>>

(* The policy is asked for once: not when there is a config.toml, whatever *)
(* is in it.                                                               *)
GetPolicy ==
  /\ At("trust")
  /\ IF file.state # "absent" THEN Goto("install")
     ELSE IF wiz.quiet THEN Decide(Off)
     ELSE Goto("prompt")
  /\ edited' = FALSE
  /\ UNCHANGED <<World, current, stale, Bounds>>

(* One turn of the prompt: a line of senders, or none, that is confirmed,  *)
(* one that is taken back, so that invalid ones are counted anew, or one   *)
(* that is no list of senders. No turn looks for the file again.           *)
Confirmed == \E p \in Policy : Decide(p)
TakenBack == wiz' = [wiz EXCEPT !.tries = 0]
Invalid == IF wiz.tries + 1 = PromptAttempts THEN End("error")
           ELSE wiz' = [wiz EXCEPT !.tries = @ + 1]

Prompt ==
  /\ At("prompt") /\ (Confirmed \/ TakenBack \/ Invalid)
  /\ UNCHANGED <<World, History, Bounds>>

-----------------------------------------------------------------------------
(* config.toml is loaded once, or made up; what is then written is this    *)
(* copy, whole, under no lock: for another domain, for a missing catchall, *)
(* or both, one after the other.                                           *)

Fresh == [state |-> "whole", domain |-> wiz.domain, catchall |-> TRUE,
          trust |-> IF wiz.asked = None THEN Off ELSE wiz.asked]

ToWrite(c) == wiz' = [wiz EXCEPT !.copy = c, !.at = "write"]
Onward(c) == IF c.catchall THEN wiz' = [wiz EXCEPT !.copy = c, !.at = "finish"]
             ELSE ToWrite([c EXCEPT !.catchall = TRUE])

Load ==
  /\ At("install")
  /\ \/ file.state = "whole" /\ file.domain = wiz.domain /\ Onward(file)
     \/ /\ file.state = "whole" /\ file.domain # wiz.domain
        /\ ToWrite([file EXCEPT !.domain = wiz.domain])
     \/ file.state = "absent" /\ ToWrite(Fresh)
     \/ End("error")
  /\ stale' = FALSE
  /\ UNCHANGED <<World, current, edited, Bounds>>

(* A file that is there is replaced by the copy, also when it came up      *)
(* after the run had looked for one in vain; its mode may fail to be set.  *)
Save ==
  /\ At("write") /\ file.state # "absent"
  /\ \/ file' = wiz.copy /\ (Onward(wiz.copy) \/ End("error"))
     \/ End("error") /\ UNCHANGED file
  /\ UNCHANGED <<host, zone, History, Bounds>>

(* One that is not is made, unless another comes first, then filled.       *)
Create ==
  /\ At("write") /\ file.state = "absent"
  /\ \/ file' = [NoFile EXCEPT !.state = "broken"] /\ Goto("fill")
     \/ End("error") /\ UNCHANGED file
  /\ UNCHANGED <<host, zone, History, Bounds>>

(* What was opened is filled, and is no longer config.toml when another    *)
(* file was put in its place.                                              *)
Fill ==
  /\ At("fill")
  /\ \/ /\ file' = IF file.state = "broken" THEN wiz.copy ELSE file
        /\ Onward(wiz.copy) \/ End("error")
     \/ End("error") /\ UNCHANGED file
  /\ UNCHANGED <<host, zone, History, Bounds>>

(* Directories, user, service: each may fail. The service is left alone    *)
(* when the installation was complete.                                     *)
Finish ==
  /\ At("finish")
  /\ \/ /\ host' = [host EXCEPT !.up = @ \/ ~wiz.whole]
        /\ wiz' = [NoRun EXCEPT !.told = "complete", !.asked = wiz.asked]
     \/ End("error") /\ UNCHANGED host
  /\ UNCHANGED <<file, zone, History, Bounds>>

-----------------------------------------------------------------------------
(* The others.                                                             *)

Interrupt ==
  /\ ~At("idle") /\ End("interrupted")
  /\ UNCHANGED <<World, History, Bounds>>

Publish ==
  /\ edits < MaxEdits /\ edits' = edits + 1
  /\ \E d \in Domain, r \in Rec, v \in Value :
       /\ v = "weak" => r \in Weak
       /\ zone' = [zone EXCEPT ![d][r] = v]
       /\ current' = IF d = wiz.domain /\ Passable(r, v) THEN current \cup {r} ELSE current
  /\ UNCHANGED <<file, host, wiz, edited, stale, runs>>

(* An editor, a second run of setup or the daemon puts another config.toml *)
(* in the place of the one there is, or of none; the daemon goes down.     *)
OthersWrite ==
  /\ edits < MaxEdits /\ edits' = edits + 1
  /\ \/ /\ UNCHANGED host
        /\ \E d \in Domain, p \in Policy, c \in BOOLEAN :
             file' = [state |-> "whole", domain |-> d, trust |-> p, catchall |-> c]
     \/ /\ ~host.up \/ host' = [host EXCEPT !.up = FALSE]
        /\ host.up \/ UNCHANGED host
        /\ UNCHANGED file
  /\ edited' = (edited \/ file' # file)
  /\ stale' = (stale \/ file' # file)
  /\ UNCHANGED <<zone, wiz, current, runs>>

Next ==
  \/ \E quiet \in BOOLEAN : Begin(quiet)
  \/ GetDomain \/ GetKey \/ Verify \/ Skip \/ DigAnswers \/ DigFails \/ Shown
  \/ Certify \/ GetPolicy \/ Prompt \/ Load \/ Save \/ Create \/ Fill \/ Finish
  \/ Interrupt \/ Publish \/ OthersWrite

Spec == Init /\ [][Next]_vars

-----------------------------------------------------------------------------
(* Properties.                                                             *)

(* "All DNS records verified" is only said when every record of the domain *)
(* that was entered has been in order at some time since Enter was pressed *)
(* for this look: not because a resolver was out of reach, not for another *)
(* domain, not from an earlier look (verify_all_dns, dig_with_cascade).    *)
VerifiedMeansPublished ==
  [][wiz'.told = "verified" /\ wiz.told # "verified" => current = Rec]_vars

(* The operator's trust policy is asked for once and then kept, however    *)
(* far the earlier run got: a step of setup changes the policy of no       *)
(* config.toml that nobody else wrote since this run loaded it, or found   *)
(* none to load; and when setup is complete the policy confirmed in this   *)
(* run is the one in the file, unless somebody else wrote the file since   *)
(* it was asked for (run_setup: "never overwrite an operator's prior trust *)
(* decision"). A policy that another puts in between the load and the      *)
(* write, or where there was no file, is not kept: finalize_setup takes no *)
(* lock and writes what it has in memory.                                  *)
TrustKept ==
  [][/\ (file.trust # None /\ edits' = edits /\ ~stale) => file'.trust = file.trust
     /\ (wiz'.told = "complete" /\ ~At("idle") /\ wiz.asked # None)
          => edited \/ file.trust = wiz.asked]_vars
=============================================================================
