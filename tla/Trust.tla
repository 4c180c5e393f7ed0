------------------------------- MODULE Trust -------------------------------
(***************************************************************************)
(* Whom a mailbox trusts, and what that lets run: how a letter that has    *)
(* arrived is authenticated (verify_auth), judged by the trust policy of   *)
(* its mailbox (evaluate_trust) and handed to the on_receive hooks that    *)
(* the verdict opens (execute_on_receive), while the operator edits        *)
(* config.toml, SIGHUP reloads it and HOOK-CREATE and HOOK-DELETE change   *)
(* what the daemon serves.  One mailbox; whether a letter is routed to it  *)
(* is SmtpSession's, how it is stored Inbox's, and what a hook's process   *)
(* does Outbound's.  DNS and the signatures are the world's.               *)
(*                                                                         *)
(* A letter over SMTP is handled on the snapshot its DATA command took, to *)
(* the end of its hook thread; one on the stdin of aimx ingest on the file *)
(* that process loaded.                                                    *)
(***************************************************************************)
EXTENDS Naturals

CONSTANTS
  Arrival,   \* letters, each handled once
  Sender,    \* addresses as From writes them
  Lower,     \* [Sender -> Sender]: to_lowercase
  Pattern,   \* of trusted_senders
  Glob,      \* pairs of a pattern and an address it matches: glob_match
  Hooks,     \* hook stanzas
  Files,     \* what an operator may leave in config.toml
  Mails,     \* what may arrive
  MaxChanges   \* bound on edits, reloads, hook requests and restarts

VARIABLES
  file,    \* config.toml
  served,  \* the configuration in the daemon's handle
  asked,   \* the hook of a HOOK-CREATE between its checks and its lock
  letter,  \* by arrival: how far its handling has come
  ran,     \* by arrival: the hooks that were run
  was,     \* history: by arrival, what was in force while it was handled
  edits

trustVars == <<file, served, asked, letter, ran, was, edits>>

TrustValue == {"none", "true", "false"}
ValidTrust == {"none", "verified"}
Answers == {"none", "pass", "fail"}
SpfAnswers == Answers \cup {"softfail", "neutral"}

(* A stanza: its effective name, fire_on_untrusted, and whether the rest   *)
(* of it (argv, type, timeout) is one validate_single_hook accepts.        *)
HookStanza == [name: STRING, event: {"on_receive", "after_send"}, open: BOOLEAN, sound: BOOLEAN]

(* `own` and `ownSenders` are the overrides of the mailbox: {} for a field *)
(* that is absent, else the set of its one value.  `legacy` is what the    *)
(* text has of the removed schema: a table or key, or a hook's stdin key.  *)
MailboxConfig ==
  [trust: STRING, senders: SUBSET Pattern, own: SUBSET STRING,
   ownSenders: SUBSET SUBSET Pattern, catchall: BOOLEAN, hooks: SUBSET Hooks,
   legacy: SUBSET {"schema", "stdin"}]

(* `from` is {} without an address; `signed` holds the results of the DKIM *)
(* signatures; `read` and `utf8` say that mail_auth parses it and that it  *)
(* is UTF-8; `brackets` are the bracketed addresses of Received headers;   *)
(* `envelope` is the reverse path and `header` the raw From line; `spf`    *)
(* and `dmarc` are what the DNS makes of it, once it is asked.             *)
Incoming ==
  [from: SUBSET Sender, signed: SUBSET {"pass", "other"}, read: BOOLEAN, utf8: BOOLEAN,
   brackets: SUBSET {"loopback", "public"}, envelope: {"null", "bare", "domain"},
   header: {"none", "bare", "domain", "backwards"}, spf: SpfAnswers, dmarc: Answers]

ASSUME TrustAssumption ==
  /\ Lower \in [Sender -> Sender]
  /\ Hooks \subseteq HookStanza
  /\ Files \subseteq MailboxConfig
  /\ Mails \subseteq Incoming
  /\ MaxChanges \in Nat

NoMail == [from |-> {}, signed |-> {}, read |-> FALSE, utf8 |-> FALSE, brackets |-> {},
           envelope |-> "null", header |-> "none", spf |-> "none", dmarc |-> "none"]
NoAuth == [dkim |-> "none", spf |-> "none", dmarc |-> "none"]
Unhandled(c) == [at |-> "none", via |-> "smtp", mail |-> NoMail, snap |-> c, auth |-> NoAuth,
                 trusted |-> "none", left |-> {}]

-----------------------------------------------------------------------------
(* What Config::load and the hook verbs accept.                            *)

HookSound(h) == h.sound /\ (h.open => h.event = "on_receive")

NamesUnique(c) == \A g, h \in c.hooks : g.name = h.name => g = h

HooksValid(c) == NamesUnique(c) /\ \A h \in c.hooks : HookSound(h)

TrustValid(c) == c.trust \in ValidTrust /\ c.own \subseteq ValidTrust

CatchallBare(c) == c.catchall => c.hooks = {}

HasLegacySchema(c) == "schema" \in c.legacy

HasStdinKey(c) == "stdin" \in c.legacy

FileLoads(c) ==
  ~HasLegacySchema(c) /\ ~HasStdinKey(c) /\ TrustValid(c) /\ CatchallBare(c) /\ HooksValid(c)

-----------------------------------------------------------------------------
(* The policy of the mailbox.                                              *)

EffectiveTrust(c) == IF c.own = {} THEN c.trust ELSE CHOOSE t \in c.own : TRUE

EffectiveSenders(c) == IF c.ownSenders = {} THEN c.senders ELSE UNION c.ownSenders

IsTrustedSender(c, m) ==
  \E p \in EffectiveSenders(c), a \in m.from : <<p, Lower[a]>> \in Glob

EvaluateTrust(c, m, auth) ==
  CASE EffectiveTrust(c) = "none" -> "none"
    [] EffectiveTrust(c) = "verified" ->
         IF IsTrustedSender(c, m) /\ auth.dkim = "pass" THEN "true" ELSE "false"
    [] OTHER -> "false"

-----------------------------------------------------------------------------
(* Authentication.  The address to check is the peer's, or on stdin that   *)
(* of the first public bracket; the domain is that of the reverse path, or *)
(* without one that of the From line, whose angle brackets the code slices *)
(* at even if the closing one comes first: then the thread panics.         *)

Dkim(m) ==
  IF ~m.read \/ m.signed = {} THEN "none" ELSE IF "pass" \in m.signed THEN "pass" ELSE "fail"

SpfAddress(m, via) == via = "smtp" \/ (m.utf8 /\ "public" \in m.brackets)

FromHeader(m, via) == via = "stdin" \/ m.envelope = "null"

SpfDomain(m, via) ==
  IF FromHeader(m, via) THEN m.utf8 /\ m.header = "domain" ELSE m.envelope = "domain"

Panics(m, via) == FromHeader(m, via) /\ m.utf8 /\ m.header = "backwards"

Spf(m, via) == IF SpfAddress(m, via) /\ SpfDomain(m, via) THEN m.spf ELSE "none"

Dmarc(m) == IF m.read THEN m.dmarc ELSE "none"

(* Without a runtime or a resolver nothing is checked.                     *)
Auth(m, via) ==
  {NoAuth} \cup
  (IF Panics(m, via) THEN {}
   ELSE {[dkim |-> Dkim(m), spf |-> Spf(m, via), dmarc |-> Dmarc(m)]})

-----------------------------------------------------------------------------
(* Hooks.                                                                  *)

ParseTrusted(s) == IF s \in {"true", "false"} THEN s ELSE "none"

ShouldFire(h, trusted) == h.open \/ trusted = "true"

OnReceive(c) == {h \in c.hooks : h.event = "on_receive"}

ToFire(c, trusted) ==
  IF c.catchall /\ c.hooks # {} THEN {}
  ELSE {h \in OnReceive(c) : ShouldFire(h, ParseTrusted(trusted))}

-----------------------------------------------------------------------------
Handled(l) == letter[l].at \in {"taken", "judged", "stored", "firing"}

(* Only what the daemon handles sees what it serves.                       *)
Witnessed(c) ==
  was' = [l \in Arrival |->
            IF Handled(l) /\ letter[l].via = "smtp" THEN was[l] \cup {c} ELSE was[l]]

Advance(l, r) == letter' = [letter EXCEPT ![l] = r]

(* handle_data, or run: the configuration is taken once.                   *)
TakeIn(l, m, via, c) ==
  /\ letter[l].at = "none"
  /\ Advance(l, [Unhandled(c) EXCEPT !.at = "taken", !.via = via, !.mail = m])
  /\ was' = [was EXCEPT ![l] = {c}]
  /\ UNCHANGED <<file, served, asked, ran, edits>>

TakeData(l) == \E m \in Mails : TakeIn(l, m, "smtp", served)

TakeStdin(l) == FileLoads(file) /\ \E m \in Mails : TakeIn(l, m, "stdin", file)

Judge(l) ==
  LET r == letter[l] IN
  /\ r.at = "taken"
  /\ \E auth \in Auth(r.mail, r.via) :
       Advance(l, [r EXCEPT !.at = "judged", !.auth = auth,
                            !.trusted = EvaluateTrust(r.snap, r.mail, auth)])
  /\ UNCHANGED <<file, served, asked, ran, was, edits>>

StoreLetter(l) ==
  /\ letter[l].at = "judged"
  /\ Advance(l, [letter[l] EXCEPT !.at = "stored"])
  /\ UNCHANGED <<file, served, asked, ran, was, edits>>

(* A panic, a duplicate, or a file that cannot be written.                 *)
GiveUpLetter(l) ==
  /\ \/ letter[l].at = "taken" /\ Panics(letter[l].mail, letter[l].via)
     \/ letter[l].at = "judged"
  /\ Advance(l, [letter[l] EXCEPT !.at = "lost"])
  /\ UNCHANGED <<file, served, asked, ran, was, edits>>

(* A slip: the thread asks for what is served by then.                     *)
StartHooksServed(l) ==
  LET r == letter[l] IN
  /\ r.at = "stored"
  /\ Advance(l, [r EXCEPT !.at = "firing", !.left = ToFire(served, r.trusted)])
  /\ UNCHANGED <<file, served, asked, ran, was, edits>>

(* execute_on_receive begins, on its own thread for a letter over SMTP.    *)
StartHooks(l) ==
  LET r == letter[l] IN
  /\ r.at = "stored"
  /\ Advance(l, [r EXCEPT !.at = "firing", !.left = ToFire(r.snap, r.trusted)])
  /\ UNCHANGED <<file, served, asked, ran, was, edits>>

(* Without a thread no hook runs; the letter stays.                        *)
SpawnFails(l) ==
  /\ letter[l].at = "stored" /\ letter[l].via = "smtp"
  /\ Advance(l, [letter[l] EXCEPT !.at = "unfired"])
  /\ UNCHANGED <<file, served, asked, ran, was, edits>>

RunNext(l) ==
  /\ letter[l].at = "firing"
  /\ \E h \in letter[l].left :
       /\ ran' = [ran EXCEPT ![l] = @ \cup {h}]
       /\ Advance(l, [letter[l] EXCEPT !.left = @ \ {h}])
  /\ UNCHANGED <<file, served, asked, was, edits>>

HooksDone(l) ==
  /\ letter[l].at = "firing" /\ letter[l].left = {}
  /\ Advance(l, [letter[l] EXCEPT !.at = "done"])
  /\ UNCHANGED <<file, served, asked, ran, was, edits>>

-----------------------------------------------------------------------------
MayChange == edits < MaxChanges /\ edits' = edits + 1

Install(c) == file' = c /\ served' = c /\ Witnessed(c)

EditFile ==
  /\ MayChange
  /\ file' \in Files
  /\ UNCHANGED <<served, asked, letter, ran, was>>

(* reload_config: a file that does not load leaves everything as it is.    *)
ReloadConfig ==
  /\ FileLoads(file) /\ served # file
  /\ served' = file
  /\ Witnessed(file)
  /\ UNCHANGED <<file, asked, letter, ran, edits>>

(* handle_hook_create up to its locks ...                                  *)
AskHook ==
  /\ MayChange
  /\ asked = {} /\ ~served.catchall
  /\ \E h \in Hooks : HookSound(h) /\ asked' = {h}
  /\ UNCHANGED <<file, served, letter, ran, was>>

(* ... and under them: only the hooks are validated again.                 *)
CommitHook ==
  \E h \in asked :
    LET new == [served EXCEPT !.hooks = @ \cup {h}] IN
    /\ asked' = {}
    /\ \/ h \notin served.hooks /\ HooksValid(new) /\ Install(new)
       \/ UNCHANGED <<file, served, was>>   \* refused, or not written
    /\ UNCHANGED <<letter, ran, edits>>

DeleteHook ==
  /\ MayChange
  /\ \E h \in served.hooks : Install([served EXCEPT !.hooks = @ \ {h}])
  /\ UNCHANGED <<asked, letter, ran>>

(* The daemon ends, its threads with it, and starts once the file loads.   *)
RestartDaemon ==
  /\ MayChange
  /\ FileLoads(file)
  /\ served' = file /\ asked' = {}
  /\ letter' = [l \in Arrival |->
                  IF Handled(l) /\ letter[l].via = "smtp" THEN [letter[l] EXCEPT !.at = "lost"]
                  ELSE letter[l]]
  /\ UNCHANGED <<file, ran, was>>

LetterStep(l) ==
  TakeData(l) \/ TakeStdin(l) \/ Judge(l) \/ StoreLetter(l) \/ GiveUpLetter(l)
    \/ StartHooks(l) \/ SpawnFails(l) \/ RunNext(l) \/ HooksDone(l)

ConfigStep ==
  EditFile \/ ReloadConfig \/ AskHook \/ CommitHook \/ DeleteHook \/ RestartDaemon

TrustInit ==
  /\ file \in {c \in Files : FileLoads(c)} /\ served = file /\ asked = {}
  /\ letter = [l \in Arrival |-> Unhandled(served)]
  /\ ran = [l \in Arrival |-> {}]
  /\ was = [l \in Arrival |-> {}]
  /\ edits = 0

TrustNext == (\E l \in Arrival : LetterStep(l)) \/ ConfigStep

TrustSpec == TrustInit /\ [][TrustNext]_trustVars

-----------------------------------------------------------------------------
(* What `trusted` says of a letter: "none" that nothing was asked, "true"  *)
(* that the policy is to verify, the sender is on the list and one of the  *)
(* letter's signatures passed, "false" that the policy is to verify.       *)
Meant(c, r) ==
  CASE r.trusted = "none" -> EffectiveTrust(c) = "none"
    [] r.trusted = "true" ->
         /\ EffectiveTrust(c) = "verified" /\ IsTrustedSender(c, r.mail)
         /\ r.mail.read /\ "pass" \in r.mail.signed
    [] OTHER ->
         /\ EffectiveTrust(c) = "verified"
         /\ ~IsTrustedSender(c, r.mail) \/ r.auth.dkim # "pass"

(* Whom hook h of configuration c may be run for.                          *)
Entitled(c, h, r) ==
  /\ h \in c.hooks /\ h.event = "on_receive" /\ ~c.catchall
  /\ h.open \/ r.trusted = "true"

(* A letter is judged, and its hooks are chosen, by one configuration that *)
(* was in force while it was handled: however the trust lists, the         *)
(* catchall and the hooks change meanwhile, no hook runs that this         *)
(* configuration does not entitle to that very verdict, and when the hook  *)
(* thread is done all of those have run (ingest_email, evaluate_trust,     *)
(* spawn_on_receive_async, execute_on_receive).                            *)
HooksAsJudged ==
  \A l \in Arrival :
    letter[l].at \in {"stored", "firing", "done", "unfired"} =>
      \E c \in was[l] :
        /\ Meant(c, letter[l])
        /\ \A h \in ran[l] : Entitled(c, h, letter[l])
        /\ letter[l].at = "done" => \A h \in c.hooks : Entitled(c, h, letter[l]) => h \in ran[l]
=============================================================================
