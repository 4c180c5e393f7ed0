--------------------------- MODULE MCConfigTrust ---------------------------
(***************************************************************************)
(* Instances for TLC of the configuration and of what hangs on it: either  *)
(* requests, reloads and deaths of the daemon change it (ConfigStore, with *)
(* the requests of MCConfigStore), or one letter is judged by the policy   *)
(* of its mailbox and handed to the hooks there (Trust).  The two share no *)
(* state; a behaviour is one of the one while nothing happens in the other.*)
(***************************************************************************)
EXTENDS MCConfigStore, Trust

VARIABLE focus

MCVars == <<focus, vars, trustVars>>

-----------------------------------------------------------------------------
(* The mailbox as setup leaves it, opened to some, to all and by itself, as *)
(* the catchall, and four texts that do not load.                          *)
MCSender == {"boss", "Boss", "eve"}
MCLower == [a \in MCSender |-> IF a = "Boss" THEN "boss" ELSE a]
MCPattern == {"boss", "BOSS", "*"}
MCGlob == {<<"boss", "boss">>} \cup ({"*"} \X MCSender)

OnMail == [name |-> "mail", event |-> "on_receive", open |-> FALSE, sound |-> TRUE]
OnAny == [OnMail EXCEPT !.name = "any", !.open = TRUE]
OnSend == [OnMail EXCEPT !.name = "send", !.event = "after_send"]
MCHooks == {OnMail, OnAny, OnSend, [OnSend EXCEPT !.open = TRUE], [OnMail EXCEPT !.open = TRUE]}

Fresh == [trust |-> "none", senders |-> {}, own |-> {}, ownSenders |-> {}, catchall |-> FALSE,
          hooks |-> {OnMail, OnAny, OnSend}, legacy |-> {}]
MCFiles ==
  {Fresh,
   [Fresh EXCEPT !.trust = "verified", !.senders = {"boss", "BOSS"}, !.hooks = {OnMail}],
   [Fresh EXCEPT !.trust = "verified", !.senders = {"boss"}, !.ownSenders = {{}}],
   [Fresh EXCEPT !.own = {"verified"}, !.senders = {"*"}, !.hooks = {OnAny}],
   [Fresh EXCEPT !.catchall = TRUE, !.hooks = {}],
   [Fresh EXCEPT !.catchall = TRUE], [Fresh EXCEPT !.trust = "verify"],
   [Fresh EXCEPT !.legacy = {"schema"}], [Fresh EXCEPT !.legacy = {"stdin"}]}

Letter1 == [from |-> {"Boss"}, signed |-> {"pass", "other"}, read |-> TRUE, utf8 |-> TRUE,
            brackets |-> {}, envelope |-> "null", header |-> "domain", spf |-> "softfail",
            dmarc |-> "pass"]
MCMails ==
  {Letter1, [Letter1 EXCEPT !.signed = {"other"}, !.header = "backwards"],
   [Letter1 EXCEPT !.from = {"eve"}, !.envelope = "bare", !.read = FALSE]}

-----------------------------------------------------------------------------
StoreIdle == mem = EmptyConfig /\ op = [r \in Slot |-> Req("CREATE", m2, Root)]
TrustIdle == file = Fresh

MCInit ==
  /\ Init /\ TrustInit
  /\ \/ focus = "requests" /\ TrustIdle
     \/ focus = "letters" /\ StoreIdle

(* Every letter is dealt with, and nothing need change any more.           *)
LettersDone ==
  /\ \A l \in Arrival : letter[l].at \in {"done", "unfired", "lost"}
  /\ UNCHANGED trustVars

MCNext ==
  /\ UNCHANGED focus
  /\ \/ focus = "requests" /\ Next /\ UNCHANGED trustVars
     \/ focus = "letters" /\ (TrustNext \/ LettersDone) /\ UNCHANGED vars

MCSpec == MCInit /\ [][MCNext]_MCVars
=============================================================================
