---------------------------- MODULE ConfigModel ----------------------------
(***************************************************************************)
(* The data of config.toml that the daemon's writers touch, the requests   *)
(* that change it, and what one request means when nothing runs beside it. *)
(*                                                                         *)
(* A configuration gives every mailbox name an owner (NoOwner: no stanza)  *)
(* and the effective names of its hooks.  Addresses, trust lists, commands *)
(* and the catchall stanza are left out: no operation below changes them.  *)
(***************************************************************************)

CONSTANTS
  Mailbox,   \* mailbox names other than the catchall
  User,      \* Linux accounts that are not root
  Root,      \* the account with uid 0
  NoOwner,   \* "no stanza", "no directory"
  Hook       \* effective hook names

Account == User \cup {Root}

ASSUME AccountAssumption == NoOwner \notin Account

Verbs == {"CREATE", "DELETE", "HOOK-CREATE", "HOOK-DELETE", "INGEST", "SEND"}

(* A request as it leaves the socket or the SMTP session.  `owner` is the  *)
(* Owner header of MAILBOX-CREATE, `force` the flag of MAILBOX-DELETE; the *)
(* verbs that have no such field ignore it.                                *)
Request ==
  [verb: Verbs, mailbox: Mailbox, caller: Account, owner: Account,
   hook: Hook, force: BOOLEAN]

(* A hook lives inside a mailbox stanza, so a name without an owner has none. *)
Config ==
  {c \in [owner: [Mailbox -> Account \cup {NoOwner}], hooks: [Mailbox -> SUBSET Hook]] :
     \A m \in Mailbox : c.owner[m] = NoOwner => c.hooks[m] = {}}

EmptyConfig ==
  [owner |-> [m \in Mailbox |-> NoOwner], hooks |-> [m \in Mailbox |-> {}]]

Configured(c, m) == c.owner[m] # NoOwner

HookInUse(c, h) == \E m \in Mailbox : h \in c.hooks[m]

HooksUnique(c) ==
  \A m, n \in Mailbox : m # n => c.hooks[m] \cap c.hooks[n] = {}

(* Only the catchall may be root's; an owner that is no user is no error.  *)
OwnersValid(c) == \A m \in Mailbox : c.owner[m] # Root

(* What Config::load accepts: the daemon refuses to start from, or reload, *)
(* anything else.                                                          *)
Loadable(c) == OwnersValid(c) /\ HooksUnique(c)

(* The central predicate of auth.rs for an action on an existing mailbox.  *)
Authorised(caller, c, m) ==
  /\ Configured(c, m)
  /\ caller = Root \/ caller = c.owner[m]

(* Only root's Owner header counts; any other caller owns what it creates. *)
OwnerOf(q) == IF q.caller = Root THEN q.owner ELSE q.caller

WithMailbox(c, m, a) ==
  [owner |-> [c.owner EXCEPT ![m] = a], hooks |-> [c.hooks EXCEPT ![m] = {}]]

WithoutMailbox(c, m) ==
  [owner |-> [c.owner EXCEPT ![m] = NoOwner], hooks |-> [c.hooks EXCEPT ![m] = {}]]

HandedOver(c, m, a) ==
  IF a = NoOwner THEN WithoutMailbox(c, m)
  ELSE [owner |-> [c.owner EXCEPT ![m] = a], hooks |-> c.hooks]

WithHook(c, m, h) ==
  [owner |-> c.owner, hooks |-> [c.hooks EXCEPT ![m] = @ \cup {h}]]

WithoutHook(c, m, h) ==
  [owner |-> c.owner, hooks |-> [c.hooks EXCEPT ![m] = @ \ {h}]]

-----------------------------------------------------------------------------
(* One request on its own: when configuration c entitles it to succeed,    *)
(* and the configuration d that success may leave.                         *)

Legal(q, c) ==
  \/ q.verb = "CREATE" /\ ~Configured(c, q.mailbox)
  \/ q.verb = "DELETE" /\ Authorised(q.caller, c, q.mailbox)
  \/ q.verb = "HOOK-CREATE" /\ Authorised(q.caller, c, q.mailbox) /\ ~HookInUse(c, q.hook)
  \/ q.verb = "HOOK-DELETE" /\ \E m \in Mailbox :
       q.hook \in c.hooks[m] /\ Authorised(q.caller, c, m)
  \/ q.verb = "INGEST" /\ Configured(c, q.mailbox)
  \/ q.verb = "SEND" /\ Authorised(q.caller, c, q.mailbox)

Outcome(q, c, d) ==
  \/ q.verb = "CREATE" /\ d = WithMailbox(c, q.mailbox, OwnerOf(q))
  \/ q.verb = "DELETE" /\ d = WithoutMailbox(c, q.mailbox)
  \/ q.verb = "HOOK-CREATE" /\ d = WithHook(c, q.mailbox, q.hook)
  \/ q.verb = "HOOK-DELETE" /\ \E m \in Mailbox :
       q.hook \in c.hooks[m] /\ d = WithoutHook(c, m, q.hook)
  \/ q.verb \in {"INGEST", "SEND"} /\ d = c
=============================================================================
