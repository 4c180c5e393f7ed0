---------------------------- MODULE AtomicInbox ----------------------------
(***************************************************************************)
(* What the MTA that sends, and the owner of the mailbox, may rely on:     *)
(*                                                                         *)
(*   a letter is stored in one step, which also makes it remembered, and   *)
(*   none that is remembered is stored;                                    *)
(*   it is forgotten when its 24 hours are over, not because somebody has  *)
(*   removed it;                                                           *)
(*   a restart forgets everything, but then the letters of the last 24     *)
(*   hours that are there are remembered before another one is stored;     *)
(*   250 and hooks are for letters that have been stored.                  *)
(*                                                                         *)
(* Two things they may not rely on: a letter in Split is not recognised by *)
(* a daemon that starts anew, and a file left cut can pass for its letter. *)
(***************************************************************************)
EXTENDS Naturals

CONSTANTS Message, Split

VARIABLES
  present,    \* letters of which a copy of the last 24 hours is there
  remembered, \* letters that are not stored when they come again
  over,       \* those among them whose 24 hours are over
  awake,      \* the daemon has looked at what is there since it started
  kept,       \* how often each letter has been stored
  fired,      \* how often on_receive has fired for each
  acked,      \* letters that 250 has been said for
  torn,       \* letters that have left a file cut
  days,       \* how often 24 hours have passed for a letter
  restarts    \* how often the daemon has been started anew

memory == <<over, awake, remembered>>
record == <<kept, fired, acked>>
time == <<days, restarts>>
vars == <<record, torn, time, memory, present>>

Init ==
  /\ present = {} /\ remembered = {} /\ over = {} /\ awake = FALSE
  /\ kept = [m \in Message |-> 0] /\ fired = [m \in Message |-> 0]
  /\ acked = {} /\ torn = {}
  /\ days = 0 /\ restarts = 0

(* The first look: what is there, and perhaps what is there cut.           *)
Recall ==
  /\ ~awake /\ awake'
  /\ present \ Split \subseteq remembered' /\ remembered' \subseteq (present \ Split) \cup torn
  /\ UNCHANGED <<record, torn, time, over, present>>

Store(m) ==
  /\ awake /\ m \notin remembered
  /\ kept' = [kept EXCEPT ![m] = @ + 1]
  /\ present' = present \cup {m} /\ remembered' = remembered \cup {m}
  /\ UNCHANGED <<fired, acked, torn, time, over, awake>>

Acknowledge(m) ==
  /\ kept[m] > 0 \/ m \in torn
  /\ acked' = acked \cup {m}
  /\ UNCHANGED <<kept, fired, torn, time, memory, present>>

RunHook(m) ==
  /\ fired[m] < kept[m]
  /\ fired' = [fired EXCEPT ![m] = @ + 1]
  /\ UNCHANGED <<kept, acked, torn, time, memory, present>>

(* A day goes by, and then the memory.                                     *)
Age(m) ==
  /\ days' = days + 1
  /\ UNCHANGED <<record, torn, restarts, awake, remembered>>
  /\ over' = over \cup (remembered \cap {m})
  /\ present' = present \ {m}

Forget(m) ==
  /\ m \in over
  /\ over' = over \ {m} /\ remembered' = remembered \ {m}
  /\ UNCHANGED <<record, torn, time, awake, present>>

Tear == torn \subseteq torn' /\ torn' \subseteq Message

(* A wipe, or a write that fails.                                          *)
Lose ==
  /\ UNCHANGED <<record, time, memory>>
  /\ Tear
  /\ present' \subseteq present

Restart ==
  /\ restarts' = restarts + 1
  /\ ~awake' /\ remembered' = {} /\ over' = {}
  /\ Tear
  /\ UNCHANGED <<record, days, present>>

Next ==
  \/ Recall \/ Lose \/ Restart
  \/ \E m \in Message :
       Store(m) \/ Acknowledge(m) \/ RunHook(m) \/ Age(m) \/ Forget(m)

Spec == Init /\ [][Next]_vars
=============================================================================
