--------------------------- MODULE OutboundProofs ---------------------------
(***************************************************************************)
(* Proofs about Outbound and HookRun, for any number of requests, hosts    *)
(* and hooks and for any programs: the answer says what the hosts said, no *)
(* two requests share a record, hooks see a finished one and end before    *)
(* the answer, and nobody is killed without a warning.                     *)
(***************************************************************************)
EXTENDS Outbound, FiniteSetTheorems, TLAPS

(* What a request knows, place by place: nothing has been said before the  *)
(* hosts are done, and what is put on record is a verdict.                 *)
Stages ==
  \A q \in Request :
    /\ req[q].at \in {"new", "reading", "sending", "hosts"} =>
         req[q].said = "none" /\ req[q].took = 0 /\ ~req[q].path
    /\ req[q].at \in {"new", "reading", "sending"} => ~req[q].refused
    /\ req[q].at \in {"draining", "paused"} => req[q].said = "protocol" /\ ~req[q].path
    /\ req[q].at \in Persisting => req[q].said \in {"ok", "delivery"} /\ ~req[q].path
    /\ req[q].at = "hooks" => req[q].said \in Outcomes

(* The lock covers the choice of a name and the creation of the file, so   *)
(* a name that was free stays free, and a file belongs to who created it.  *)
Locked == \A q \in Request : req[q].at \in {"allocate", "create"} => lock = q

Names ==
  \A q \in Request :
    /\ req[q].at = "create" => req[q].id \in Id /\ sent[req[q].id] = NoFile
    /\ req[q].at = "write" =>
         req[q].id \in Id /\ sent[req[q].id] = [by |-> q, text |-> "empty"]
    /\ req[q].path => req[q].id \in Id

(* OutcomeIsRecorded already holds while the hooks run.                    *)
Recorded ==
  \A q \in Request :
    req[q].at \in {"hooks", "reply", "answered"} /\ req[q].said \in {"ok", "delivery"}
      => req[q].path \/ req[q].fault

(* The parent joins its threads only when the child is gone, and reports   *)
(* every SIGTERM.                                                          *)
Reaped ==
  \A h \in Run :
    /\ run[h].at \in {"joining", "returned"} => ~run[h].child
    /\ run[h].term => run[h].timedOut

(* The inductive invariant.                                                *)
IInv ==
  /\ TypeOK /\ Stages /\ Locked /\ Names /\ Recorded /\ Reaped
  /\ AnswerTellsHosts /\ HookSeesRecord /\ HooksWithinRequest /\ HookEndsInOrder
-----------------------------------------------------------------------------
(* Records and the functions that hold them                                *)

Place == {"new", "answered", "dropped"} \cup Open
Word == {"none", "refused", "protocol"} \cup Outcomes

(* A request goes on to another place.                                     *)
LEMMA AtOnly ==
  ASSUME NEW r \in RequestState, NEW a \in Place, NEW n,
         n = [r EXCEPT !.at = a]
  PROVE  /\ n \in RequestState
         /\ n.at = a
         /\ n.left = r.left /\ n.took = r.took /\ n.refused = r.refused /\ n.said = r.said
         /\ n.id = r.id /\ n.path = r.path /\ n.fault = r.fault /\ n.hooks = r.hooks
BY DEF RequestState, Place, Word

LEMMA NewRequestIs ==
  /\ NewRequest \in RequestState
  /\ NewRequest.took = 0 /\ NewRequest.said = "none"
  /\ ~NewRequest.refused /\ ~NewRequest.path /\ ~NewRequest.fault
BY BoundAssumption DEF NewRequest, RequestState, Outcomes

(* What the places on the way know of a verdict.                           *)
LEMMA ToldIs ==
  ASSUME NEW r \in RequestState, NEW w \in Outcomes
  PROVE  /\ Told(r, w) \in RequestState /\ Told(r, w).said = w
         /\ Told(r, w).at = IF w = "temp" THEN "hooks" ELSE "persist"
         /\ Told(r, w).took = r.took /\ Told(r, w).refused = r.refused
         /\ Told(r, w).id = r.id /\ Told(r, w).path = r.path /\ Told(r, w).fault = r.fault
<1> DEFINE place == IF w = "temp" THEN "hooks" ELSE "persist"
<1>1. 0 \in 0..MaxHosts
  BY BoundAssumption
<1>2. place \in Sending /\ Told(r, w) = [r EXCEPT !.said = w, !.left = 0, !.at = place]
  BY DEF Told, Sending
<1>3. place = IF w = "temp" THEN "hooks" ELSE "persist"
  OBVIOUS
<1> HIDE DEF place
<1>4. /\ Told(r, w).said = w /\ Told(r, w).at = place
      /\ Told(r, w).took = r.took /\ Told(r, w).refused = r.refused
      /\ Told(r, w).id = r.id /\ Told(r, w).path = r.path /\ Told(r, w).fault = r.fault
  BY <1>2 DEF RequestState
<1>5. Told(r, w) \in RequestState
  BY <1>1, <1>2 DEF RequestState, Open, Outcomes
<1>6. QED
  BY <1>3, <1>4, <1>5

(* One request changes and the others do not.                              *)
Others(q) ==
  /\ req' \in [Request -> RequestState]
  /\ \A p \in Request : p # q => req'[p] = req[p]

LEMMA BecomeIs ==
  ASSUME req \in [Request -> RequestState],
         NEW q \in Request, NEW r \in RequestState, Become(q, r)
  PROVE  req'[q] = r /\ Others(q)
BY DEF Become, Others

(* What most steps leave alone.                                            *)
Same(q) ==
  /\ req'[q].took = req[q].took /\ req'[q].refused = req[q].refused
  /\ req'[q].said = req[q].said /\ req'[q].path = req[q].path
  /\ req'[q].fault = req[q].fault /\ req'[q].id = req[q].id

-----------------------------------------------------------------------------
(* The steps of a connection                                               *)

(* A connection is new once: nothing is known of its request.              *)
LEMMA ConnectKeeps ==
  ASSUME IInv, NEW q \in Request, Connect(q)
  PROVE  IInv'
<1>0. /\ TypeOK /\ Stages /\ Locked /\ Names /\ Recorded /\ Reaped
      /\ AnswerTellsHosts /\ HookSeesRecord /\ HooksWithinRequest /\ HookEndsInOrder
      /\ req[q] \in RequestState /\ req \in [Request -> RequestState]
  BY DEF IInv, TypeOK
<1>1. /\ Others(q) /\ req'[q].took = 0 /\ ~req'[q].refused /\ ~req'[q].path
      /\ \/ req'[q].at = "reading" /\ req'[q].said = "none"
         \/ req'[q].at = "answered" /\ req'[q].said = "refused"
  <2> DEFINE r == [NewRequest EXCEPT !.at = "reading"]
             t == [NewRequest EXCEPT !.at = "answered", !.said = "refused"]
  <2>1. r \in RequestState /\ r.took = 0 /\ ~r.refused /\ ~r.path /\ r.at = "reading" /\ r.said = "none"
    BY NewRequestIs DEF RequestState, Open
  <2>2. t \in RequestState /\ t.took = 0 /\ ~t.refused /\ ~t.path /\ t.at = "answered" /\ t.said = "refused"
    BY NewRequestIs DEF RequestState
  <2>3. Become(q, r) \/ Become(q, t)
    BY DEF Connect
  <2> HIDE DEF r, t
  <2>q. QED  BY <1>0, <2>1, <2>2, <2>3, BecomeIs
<1>2. TypeOK'
  BY <1>0, <1>1 DEF Connect, Disk, Others, Same, TypeOK
<1>3. Stages'
  BY <1>0, <1>1 DEF Connect, Disk, Others, Same, Stages, Persisting, Outcomes
<1>4. Locked'
  BY <1>0, <1>1 DEF Connect, Disk, Others, Same, Locked, Stages
<1>5. Names'
  BY <1>0, <1>1 DEF Connect, Disk, Others, Same, Names, Stages, Persisting
<1>6. Recorded'
  BY <1>0, <1>1 DEF Connect, Disk, Others, Same, Recorded, Stages
<1>7. Reaped'
  BY <1>0, <1>1 DEF Connect, Disk, Others, Same, Reaped
<1>8. AnswerTellsHosts'
  BY <1>0, <1>1 DEF Connect, Disk, Others, Same, Stages, AnswerTellsHosts
<1>9. HookSeesRecord'
  BY <1>0, <1>1
  DEF Connect, Disk, Others, Same, Stages, Persisting, Names, HookSeesRecord
<1>10. HooksWithinRequest'
  BY <1>0, <1>1 DEF Connect, Disk, Others, Same, HooksWithinRequest, Stages, Outcomes
<1>11. HookEndsInOrder'
  BY <1>0, <1>1 DEF Connect, Disk, Others, Same, HookEndsInOrder
<1>q. QED  BY <1>2, <1>3, <1>4, <1>5, <1>6, <1>7, <1>8, <1>9, <1>10, <1>11 DEF IInv

(* A connection dropped has said nothing.                                  *)
LEMMA DroppedKeeps ==
  ASSUME IInv, NEW q \in Request, Dropped(q)
  PROVE  IInv'
<1>0. /\ TypeOK /\ Stages /\ Locked /\ Names /\ Recorded /\ Reaped
      /\ AnswerTellsHosts /\ HookSeesRecord /\ HooksWithinRequest /\ HookEndsInOrder
      /\ req[q] \in RequestState /\ req \in [Request -> RequestState]
  BY DEF IInv, TypeOK
<1>1. Others(q) /\ Same(q) /\ req'[q].at = "dropped"
  BY <1>0, AtOnly, BecomeIs DEF Dropped, Same, Place, Open, Sending
<1>2. TypeOK'
  BY <1>0, <1>1 DEF Dropped, Disk, Others, Same, TypeOK
<1>3. Stages'
  BY <1>0, <1>1 DEF Dropped, Disk, Others, Same, Stages, Persisting, Outcomes
<1>4. Locked'
  BY <1>0, <1>1 DEF Dropped, Disk, Others, Same, Locked, Stages
<1>5. Names'
  BY <1>0, <1>1 DEF Dropped, Disk, Others, Same, Names, Stages, Persisting
<1>6. Recorded'
  BY <1>0, <1>1 DEF Dropped, Disk, Others, Same, Recorded, Stages
<1>7. Reaped'
  BY <1>0, <1>1 DEF Dropped, Disk, Others, Same, Reaped
<1>8. AnswerTellsHosts'
  BY <1>0, <1>1 DEF Dropped, Disk, Others, Same, Stages, AnswerTellsHosts
<1>9. HookSeesRecord'
  BY <1>0, <1>1
  DEF Dropped, Disk, Others, Same, Stages, Persisting, Names, HookSeesRecord
<1>10. HooksWithinRequest'
  BY <1>0, <1>1 DEF Dropped, Disk, Others, Same, HooksWithinRequest, Stages, Outcomes
<1>11. HookEndsInOrder'
  BY <1>0, <1>1 DEF Dropped, Disk, Others, Same, HookEndsInOrder
<1>q. QED  BY <1>2, <1>3, <1>4, <1>5, <1>6, <1>7, <1>8, <1>9, <1>10, <1>11 DEF IInv

(* What does not parse is no letter.                                       *)
LEMMA MisframedKeeps ==
  ASSUME IInv, NEW q \in Request, Misframed(q)
  PROVE  IInv'
<1>0. /\ TypeOK /\ Stages /\ Locked /\ Names /\ Recorded /\ Reaped
      /\ AnswerTellsHosts /\ HookSeesRecord /\ HooksWithinRequest /\ HookEndsInOrder
      /\ req[q] \in RequestState /\ req \in [Request -> RequestState]
  BY DEF IInv, TypeOK
<1>1. /\ Others(q) /\ req'[q].took = req[q].took /\ req'[q].refused = req[q].refused
      /\ req'[q].path = req[q].path /\ req'[q].fault = req[q].fault
      /\ req'[q].at = "draining" /\ req'[q].said = "protocol"
      /\ req'[q].id = req[q].id
  <2> DEFINE r == [req[q] EXCEPT !.at = "draining", !.said = "protocol"]
  <2>1. /\ r \in RequestState
        /\ r.took = req[q].took /\ r.refused = req[q].refused
        /\ r.path = req[q].path /\ r.fault = req[q].fault /\ r.id = req[q].id
        /\ r.at = "draining" /\ r.said = "protocol"
    BY <1>0 DEF RequestState, Open, Sending, Outcomes
  <2>2. Become(q, r)
    BY DEF Misframed
  <2> HIDE DEF r
  <2>q. QED  BY <1>0, <2>1, <2>2, BecomeIs DEF Same
<1>2. TypeOK'
  BY <1>0, <1>1 DEF Misframed, Disk, Others, Same, TypeOK
<1>3. Stages'
  BY <1>0, <1>1 DEF Misframed, Disk, Others, Same, Stages, Persisting, Outcomes
<1>4. Locked'
  BY <1>0, <1>1 DEF Misframed, Disk, Others, Same, Locked, Stages
<1>5. Names'
  BY <1>0, <1>1 DEF Misframed, Disk, Others, Same, Names, Stages, Persisting
<1>6. Recorded'
  BY <1>0, <1>1 DEF Misframed, Disk, Others, Same, Recorded, Stages
<1>7. Reaped'
  BY <1>0, <1>1 DEF Misframed, Disk, Others, Same, Reaped
<1>8. AnswerTellsHosts'
  BY <1>0, <1>1 DEF Misframed, Disk, Others, Same, Stages, AnswerTellsHosts
<1>9. HookSeesRecord'
  BY <1>0, <1>1
  DEF Misframed, Disk, Others, Same, Stages, Persisting, Names, HookSeesRecord
<1>10. HooksWithinRequest'
  BY <1>0, <1>1 DEF Misframed, Disk, Others, Same, HooksWithinRequest, Stages, Outcomes
<1>11. HookEndsInOrder'
  BY <1>0, <1>1 DEF Misframed, Disk, Others, Same, HookEndsInOrder
<1>q. QED  BY <1>2, <1>3, <1>4, <1>5, <1>6, <1>7, <1>8, <1>9, <1>10, <1>11 DEF IInv

(* The answer of a connection that is drained is known.                    *)
LEMMA PausesKeeps ==
  ASSUME IInv, NEW q \in Request, Pauses(q)
  PROVE  IInv'
<1>0. /\ TypeOK /\ Stages /\ Locked /\ Names /\ Recorded /\ Reaped
      /\ AnswerTellsHosts /\ HookSeesRecord /\ HooksWithinRequest /\ HookEndsInOrder
      /\ req[q] \in RequestState /\ req \in [Request -> RequestState]
  BY DEF IInv, TypeOK
<1>1. Others(q) /\ Same(q) /\ req'[q].at = "paused"
  BY <1>0, AtOnly, BecomeIs DEF Pauses, Same, Place, Open, Sending
<1>2. TypeOK'
  BY <1>0, <1>1 DEF Pauses, Disk, Others, Same, TypeOK
<1>3. Stages'
  BY <1>0, <1>1 DEF Pauses, Disk, Others, Same, Stages, Persisting, Outcomes
<1>4. Locked'
  BY <1>0, <1>1 DEF Pauses, Disk, Others, Same, Locked, Stages
<1>5. Names'
  BY <1>0, <1>1 DEF Pauses, Disk, Others, Same, Names, Stages, Persisting
<1>6. Recorded'
  BY <1>0, <1>1 DEF Pauses, Disk, Others, Same, Recorded, Stages
<1>7. Reaped'
  BY <1>0, <1>1 DEF Pauses, Disk, Others, Same, Reaped
<1>8. AnswerTellsHosts'
  BY <1>0, <1>1 DEF Pauses, Disk, Others, Same, Stages, AnswerTellsHosts
<1>9. HookSeesRecord'
  BY <1>0, <1>1
  DEF Pauses, Disk, Others, Same, Stages, Persisting, Names, HookSeesRecord
<1>10. HooksWithinRequest'
  BY <1>0, <1>1 DEF Pauses, Disk, Others, Same, HooksWithinRequest, Stages, Outcomes
<1>11. HookEndsInOrder'
  BY <1>0, <1>1 DEF Pauses, Disk, Others, Same, HookEndsInOrder
<1>q. QED  BY <1>2, <1>3, <1>4, <1>5, <1>6, <1>7, <1>8, <1>9, <1>10, <1>11 DEF IInv

(* The answer of a drained connection is known.                            *)
LEMMA DrainedKeeps ==
  ASSUME IInv, NEW q \in Request, Drained(q)
  PROVE  IInv'
<1>0. /\ TypeOK /\ Stages /\ Locked /\ Names /\ Recorded /\ Reaped
      /\ AnswerTellsHosts /\ HookSeesRecord /\ HooksWithinRequest /\ HookEndsInOrder
      /\ req[q] \in RequestState /\ req \in [Request -> RequestState]
  BY DEF IInv, TypeOK
<1>1. Others(q) /\ Same(q) /\ req'[q].at = "reply"
  BY <1>0, AtOnly, BecomeIs DEF Drained, Same, Place, Open, Sending
<1>2. TypeOK'
  BY <1>0, <1>1 DEF Drained, Disk, Others, Same, TypeOK
<1>3. Stages'
  BY <1>0, <1>1 DEF Drained, Disk, Others, Same, Stages, Persisting, Outcomes
<1>4. Locked'
  BY <1>0, <1>1 DEF Drained, Disk, Others, Same, Locked, Stages
<1>5. Names'
  BY <1>0, <1>1 DEF Drained, Disk, Others, Same, Names, Stages, Persisting
<1>6. Recorded'
  BY <1>0, <1>1 DEF Drained, Disk, Others, Same, Recorded, Stages
<1>7. Reaped'
  BY <1>0, <1>1 DEF Drained, Disk, Others, Same, Reaped
<1>8. AnswerTellsHosts'
  BY <1>0, <1>1 DEF Drained, Disk, Others, Same, Stages, AnswerTellsHosts
<1>9. HookSeesRecord'
  BY <1>0, <1>1
  DEF Drained, Disk, Others, Same, Stages, Persisting, Names, HookSeesRecord
<1>10. HooksWithinRequest'
  BY <1>0, <1>1 DEF Drained, Disk, Others, Same, HooksWithinRequest, Stages, Outcomes
<1>11. HookEndsInOrder'
  BY <1>0, <1>1 DEF Drained, Disk, Others, Same, HookEndsInOrder
<1>q. QED  BY <1>2, <1>3, <1>4, <1>5, <1>6, <1>7, <1>8, <1>9, <1>10, <1>11 DEF IInv

(* A refusal is neither OK, DELIVERY nor TEMP.                             *)
LEMMA RefusedKeeps ==
  ASSUME IInv, NEW q \in Request, Refused(q)
  PROVE  IInv'
<1>0. /\ TypeOK /\ Stages /\ Locked /\ Names /\ Recorded /\ Reaped
      /\ AnswerTellsHosts /\ HookSeesRecord /\ HooksWithinRequest /\ HookEndsInOrder
      /\ req[q] \in RequestState /\ req \in [Request -> RequestState]
  BY DEF IInv, TypeOK
<1>1. /\ Others(q) /\ req'[q].took = req[q].took /\ req'[q].refused = req[q].refused
      /\ req'[q].path = req[q].path /\ req'[q].fault = req[q].fault
      /\ req'[q].at = "reply" /\ req'[q].said = "refused"
      /\ req'[q].id = req[q].id
  <2> DEFINE r == [req[q] EXCEPT !.at = "reply", !.said = "refused"]
  <2>1. /\ r \in RequestState
        /\ r.took = req[q].took /\ r.refused = req[q].refused
        /\ r.path = req[q].path /\ r.fault = req[q].fault /\ r.id = req[q].id
        /\ r.at = "reply" /\ r.said = "refused"
    BY <1>0 DEF RequestState, Open, Sending, Outcomes
  <2>2. Become(q, r)
    BY DEF Refused
  <2> HIDE DEF r
  <2>q. QED  BY <1>0, <2>1, <2>2, BecomeIs DEF Same
<1>2. TypeOK'
  BY <1>0, <1>1 DEF Refused, Disk, Others, Same, TypeOK
<1>3. Stages'
  BY <1>0, <1>1 DEF Refused, Disk, Others, Same, Stages, Persisting, Outcomes
<1>4. Locked'
  BY <1>0, <1>1 DEF Refused, Disk, Others, Same, Locked, Stages
<1>5. Names'
  BY <1>0, <1>1 DEF Refused, Disk, Others, Same, Names, Stages, Persisting
<1>6. Recorded'
  BY <1>0, <1>1 DEF Refused, Disk, Others, Same, Recorded, Stages
<1>7. Reaped'
  BY <1>0, <1>1 DEF Refused, Disk, Others, Same, Reaped
<1>8. AnswerTellsHosts'
  BY <1>0, <1>1 DEF Refused, Disk, Others, Same, Stages, AnswerTellsHosts
<1>9. HookSeesRecord'
  BY <1>0, <1>1
  DEF Refused, Disk, Others, Same, Stages, Persisting, Names, HookSeesRecord
<1>10. HooksWithinRequest'
  BY <1>0, <1>1 DEF Refused, Disk, Others, Same, HooksWithinRequest, Stages, Outcomes
<1>11. HookEndsInOrder'
  BY <1>0, <1>1 DEF Refused, Disk, Others, Same, HookEndsInOrder
<1>q. QED  BY <1>2, <1>3, <1>4, <1>5, <1>6, <1>7, <1>8, <1>9, <1>10, <1>11 DEF IInv

(* A SEND that may be sent has not been.                                   *)
LEMMA AcceptedKeeps ==
  ASSUME IInv, NEW q \in Request, Accepted(q)
  PROVE  IInv'
<1>0. /\ TypeOK /\ Stages /\ Locked /\ Names /\ Recorded /\ Reaped
      /\ AnswerTellsHosts /\ HookSeesRecord /\ HooksWithinRequest /\ HookEndsInOrder
      /\ req[q] \in RequestState /\ req \in [Request -> RequestState]
  BY DEF IInv, TypeOK
<1>1. Others(q) /\ Same(q) /\ req'[q].at = "sending"
  <2>1. PICK n \in 0..MaxHooks : Become(q, [req[q] EXCEPT !.at = "sending", !.hooks = n])
    BY DEF Accepted
  <2> DEFINE r == [req[q] EXCEPT !.at = "sending", !.hooks = n]
  <2>2. /\ r \in RequestState
        /\ r.took = req[q].took /\ r.refused = req[q].refused
        /\ r.path = req[q].path /\ r.fault = req[q].fault /\ r.id = req[q].id
        /\ r.said = req[q].said
        /\ r.at = "sending"
    BY <1>0 DEF RequestState, Open, Sending, Outcomes
  <2>3. Become(q, r)
    BY <2>1
  <2> HIDE DEF r
  <2>q. QED  BY <1>0, <2>2, <2>3, BecomeIs DEF Same
<1>2. TypeOK'
  BY <1>0, <1>1 DEF Accepted, Disk, Others, Same, TypeOK
<1>3. Stages'
  BY <1>0, <1>1 DEF Accepted, Disk, Others, Same, Stages, Persisting, Outcomes
<1>4. Locked'
  BY <1>0, <1>1 DEF Accepted, Disk, Others, Same, Locked, Stages
<1>5. Names'
  BY <1>0, <1>1 DEF Accepted, Disk, Others, Same, Names, Stages, Persisting
<1>6. Recorded'
  BY <1>0, <1>1 DEF Accepted, Disk, Others, Same, Recorded, Stages
<1>7. Reaped'
  BY <1>0, <1>1 DEF Accepted, Disk, Others, Same, Reaped
<1>8. AnswerTellsHosts'
  BY <1>0, <1>1 DEF Accepted, Disk, Others, Same, Stages, AnswerTellsHosts
<1>9. HookSeesRecord'
  BY <1>0, <1>1
  DEF Accepted, Disk, Others, Same, Stages, Persisting, Names, HookSeesRecord
<1>10. HooksWithinRequest'
  BY <1>0, <1>1 DEF Accepted, Disk, Others, Same, HooksWithinRequest, Stages, Outcomes
<1>11. HookEndsInOrder'
  BY <1>0, <1>1 DEF Accepted, Disk, Others, Same, HookEndsInOrder
<1>q. QED  BY <1>2, <1>3, <1>4, <1>5, <1>6, <1>7, <1>8, <1>9, <1>10, <1>11 DEF IInv

(* The answer is what was known when the hooks had ended.                  *)
LEMMA ReplyKeeps ==
  ASSUME IInv, NEW q \in Request, Reply(q)
  PROVE  IInv'
<1>0. /\ TypeOK /\ Stages /\ Locked /\ Names /\ Recorded /\ Reaped
      /\ AnswerTellsHosts /\ HookSeesRecord /\ HooksWithinRequest /\ HookEndsInOrder
      /\ req[q] \in RequestState /\ req \in [Request -> RequestState]
  BY DEF IInv, TypeOK
<1>1. Others(q) /\ Same(q) /\ req'[q].at = "answered"
  BY <1>0, AtOnly, BecomeIs DEF Reply, Same, Place, Open, Sending
<1>2. TypeOK'
  BY <1>0, <1>1 DEF Reply, Disk, Others, Same, TypeOK
<1>3. Stages'
  BY <1>0, <1>1 DEF Reply, Disk, Others, Same, Stages, Persisting, Outcomes
<1>4. Locked'
  BY <1>0, <1>1 DEF Reply, Disk, Others, Same, Locked, Stages
<1>5. Names'
  BY <1>0, <1>1 DEF Reply, Disk, Others, Same, Names, Stages, Persisting
<1>6. Recorded'
  BY <1>0, <1>1 DEF Reply, Disk, Others, Same, Recorded, Stages
<1>7. Reaped'
  BY <1>0, <1>1 DEF Reply, Disk, Others, Same, Reaped
<1>8. AnswerTellsHosts'
  BY <1>0, <1>1 DEF Reply, Disk, Others, Same, Stages, AnswerTellsHosts
<1>9. HookSeesRecord'
  BY <1>0, <1>1 DEF Reply, Disk, Others, Same, Stages, Persisting, Names, HookSeesRecord
<1>10. HooksWithinRequest'
  BY <1>0, <1>1 DEF Reply, Disk, Others, Same, HooksWithinRequest, Stages, Outcomes
<1>11. HookEndsInOrder'
  BY <1>0, <1>1 DEF Reply, Disk, Others, Same, HookEndsInOrder
<1>q. QED  BY <1>2, <1>3, <1>4, <1>5, <1>6, <1>7, <1>8, <1>9, <1>10, <1>11 DEF IInv

-----------------------------------------------------------------------------
(* The steps of a letter                                                   *)

(* Without hosts the letter has been refused, or may be tried again.       *)
LEMMA ResolveKeeps ==
  ASSUME IInv, NEW q \in Request, Resolve(q)
  PROVE  IInv'
<1>0. /\ TypeOK /\ Stages /\ Locked /\ Names /\ Recorded /\ Reaped
      /\ AnswerTellsHosts /\ HookSeesRecord /\ HooksWithinRequest /\ HookEndsInOrder
      /\ req[q] \in RequestState /\ req \in [Request -> RequestState]
  BY DEF IInv, TypeOK
<1>1. /\ Others(q) /\ req'[q].path = req[q].path /\ req'[q].fault = req[q].fault
      /\ req'[q].took = req[q].took
      /\ \/ req'[q].at = "hooks" /\ req'[q].said = "temp" /\ req'[q].refused = req[q].refused
         \/ req'[q].at = "persist" /\ req'[q].said = "delivery" /\ req'[q].refused
         \/ req'[q].at = "hosts" /\ req'[q].said = req[q].said /\ req'[q].refused = req[q].refused
  <2> DEFINE x == [req[q] EXCEPT !.refused = TRUE]
             h(n) == [req[q] EXCEPT !.at = "hosts", !.left = n]
  <2>1. CASE Become(q, Told(req[q], "temp"))
    BY <1>0, <2>1, ToldIs, BecomeIs DEF Outcomes
  <2>2. CASE Become(q, Told(x, "delivery"))
    <3>1. /\ x \in RequestState /\ x.refused
          /\ x.took = req[q].took /\ x.path = req[q].path /\ x.fault = req[q].fault
      BY <1>0 DEF RequestState
    <3> HIDE DEF x
    <3>q. QED  BY <1>0, <2>2, <3>1, ToldIs, BecomeIs DEF Outcomes
  <2>3. ASSUME NEW n \in 1..MaxHosts, Become(q, h(n))
        PROVE  /\ Others(q) /\ req'[q].path = req[q].path /\ req'[q].fault = req[q].fault
               /\ req'[q].took = req[q].took /\ req'[q].at = "hosts"
               /\ req'[q].said = req[q].said /\ req'[q].refused = req[q].refused
    <3>1. /\ h(n) \in RequestState /\ h(n).at = "hosts" /\ h(n).said = req[q].said
          /\ h(n).refused = req[q].refused
          /\ h(n).took = req[q].took /\ h(n).path = req[q].path /\ h(n).fault = req[q].fault
      <4>1. n \in 0..MaxHosts
        BY BoundAssumption
      <4>q. QED  BY <1>0, <4>1 DEF RequestState, Open, Sending
    <3> HIDE DEF h
    <3>q. QED  BY <1>0, <2>3, <3>1, BecomeIs
  <2>q. QED  BY <2>1, <2>2, <2>3 DEF Resolve
<1>2. TypeOK'
  BY <1>0, <1>1 DEF Resolve, Disk, Others, Same, TypeOK
<1>3. Stages'
  BY ZenonT(60), <1>0, <1>1 DEF Resolve, Disk, Others, Same, Stages, Persisting, Outcomes
<1>4. Locked'
  BY <1>0, <1>1 DEF Resolve, Disk, Others, Same, Locked, Stages
<1>5. Names'
  BY <1>0, <1>1 DEF Resolve, Disk, Others, Same, Names, Stages, Persisting
<1>6. Recorded'
  BY <1>0, <1>1 DEF Resolve, Disk, Others, Same, Recorded, Stages
<1>7. Reaped'
  BY <1>0, <1>1 DEF Resolve, Disk, Others, Same, Reaped
<1>8. AnswerTellsHosts'
  <2>1. req[q].took = 0 /\ ~req[q].refused /\ req[q].said = "none"
    BY <1>0 DEF Resolve, Stages
  <2>2. ASSUME NEW p \in Request, p # q PROVE req'[p] = req[p]
    BY <1>1, <2>2 DEF Others
  <2>q. QED  BY <1>0, <1>1, <2>1, <2>2 DEF AnswerTellsHosts
<1>9. HookSeesRecord'
  BY <1>0, <1>1
  DEF Resolve, Disk, Others, Same, Stages, Persisting, Names, HookSeesRecord
<1>10. HooksWithinRequest'
  BY <1>0, <1>1 DEF Resolve, Disk, Others, Same, HooksWithinRequest, Stages, Outcomes
<1>11. HookEndsInOrder'
  BY <1>0, <1>1 DEF Resolve, Disk, Others, Same, HookEndsInOrder
<1>q. QED  BY <1>2, <1>3, <1>4, <1>5, <1>6, <1>7, <1>8, <1>9, <1>10, <1>11 DEF IInv

(* The first host that takes the letter is the last one tried.             *)
LEMMA TryKeeps ==
  ASSUME IInv, NEW q \in Request, Try(q)
  PROVE  IInv'
<1>0. /\ TypeOK /\ Stages /\ Locked /\ Names /\ Recorded /\ Reaped
      /\ AnswerTellsHosts /\ HookSeesRecord /\ HooksWithinRequest /\ HookEndsInOrder
      /\ req[q] \in RequestState /\ req \in [Request -> RequestState]
  BY DEF IInv, TypeOK
<1>1. /\ Others(q) /\ req'[q].path = req[q].path /\ req'[q].fault = req[q].fault
      /\ \/ /\ req'[q].at = "persist" /\ req'[q].said = "ok"
            /\ req'[q].took = req[q].took + 1 /\ req'[q].refused = req[q].refused
         \/ /\ req'[q].at = req[q].at /\ req'[q].said = req[q].said
            /\ req'[q].took = req[q].took
  <2> DEFINE r == [req[q] EXCEPT !.left = @ - 1]
             t == [r EXCEPT !.took = @ + 1]
             x == [r EXCEPT !.refused = TRUE]
  <2>1. req[q].left - 1 \in 0..MaxHosts /\ req[q].took + 1 \in 0..MaxHosts
    BY <1>0, BoundAssumption DEF Try, Stages, RequestState
  <2>2. /\ r \in RequestState /\ r.at = req[q].at /\ r.said = req[q].said
        /\ r.took = req[q].took /\ r.refused = req[q].refused
        /\ r.path = req[q].path /\ r.fault = req[q].fault
    BY <1>0, <2>1 DEF RequestState
  <2>3. Become(q, Told(t, "ok")) \/ Become(q, x) \/ Become(q, r)
    BY DEF Try
  <2> HIDE DEF r
  <2>4. /\ t \in RequestState /\ t.took = req[q].took + 1 /\ t.refused = req[q].refused
        /\ t.path = req[q].path /\ t.fault = req[q].fault
    BY <2>1, <2>2 DEF RequestState
  <2>5. /\ x \in RequestState /\ x.at = req[q].at /\ x.said = req[q].said /\ x.took = req[q].took
        /\ x.path = req[q].path /\ x.fault = req[q].fault
    BY <2>2 DEF RequestState
  <2> HIDE DEF t, x
  <2>6. CASE Become(q, Told(t, "ok"))
    BY <1>0, <2>4, <2>6, ToldIs, BecomeIs DEF Outcomes
  <2>7. CASE Become(q, x) \/ Become(q, r)
    BY <1>0, <2>2, <2>5, <2>7, BecomeIs
  <2>q. QED  BY <2>3, <2>6, <2>7
<1>2. TypeOK'
  BY <1>0, <1>1 DEF Try, Disk, Others, Same, TypeOK
<1>3. Stages'
  BY <1>0, <1>1 DEF Try, Disk, Others, Same, Stages, Persisting, Outcomes
<1>4. Locked'
  BY <1>0, <1>1 DEF Try, Disk, Others, Same, Locked, Stages
<1>5. Names'
  BY <1>0, <1>1 DEF Try, Disk, Others, Same, Names, Stages, Persisting
<1>6. Recorded'
  BY <1>0, <1>1 DEF Try, Disk, Others, Same, Recorded, Stages
<1>7. Reaped'
  BY <1>0, <1>1 DEF Try, Disk, Others, Same, Reaped
<1>8. AnswerTellsHosts'
  BY <1>0, <1>1 DEF Try, Disk, Others, Same, Stages, AnswerTellsHosts
<1>9. HookSeesRecord'
  BY <1>0, <1>1 DEF Try, Disk, Others, Same, Stages, Persisting, Names, HookSeesRecord
<1>10. HooksWithinRequest'
  BY <1>0, <1>1 DEF Try, Disk, Others, Same, HooksWithinRequest, Stages, Outcomes
<1>11. HookEndsInOrder'
  BY <1>0, <1>1 DEF Try, Disk, Others, Same, HookEndsInOrder
<1>q. QED  BY <1>2, <1>3, <1>4, <1>5, <1>6, <1>7, <1>8, <1>9, <1>10, <1>11 DEF IInv

(* No host took it; a refusal makes it final.                              *)
LEMMA GiveUpKeeps ==
  ASSUME IInv, NEW q \in Request, GiveUp(q)
  PROVE  IInv'
<1>0. /\ TypeOK /\ Stages /\ Locked /\ Names /\ Recorded /\ Reaped
      /\ AnswerTellsHosts /\ HookSeesRecord /\ HooksWithinRequest /\ HookEndsInOrder
      /\ req[q] \in RequestState /\ req \in [Request -> RequestState]
  BY DEF IInv, TypeOK
<1>1. /\ Others(q) /\ req'[q].path = req[q].path /\ req'[q].fault = req[q].fault
      /\ req'[q].took = req[q].took /\ req'[q].refused = req[q].refused
      /\ IF req[q].refused THEN req'[q].at = "persist" /\ req'[q].said = "delivery"
         ELSE req'[q].at = "hooks" /\ req'[q].said = "temp"
  BY <1>0, ToldIs, BecomeIs DEF GiveUp, Outcomes
<1>2. TypeOK'
  BY <1>0, <1>1 DEF GiveUp, Disk, Others, Same, TypeOK
<1>3. Stages'
  BY <1>0, <1>1 DEF GiveUp, Disk, Others, Same, Stages, Persisting, Outcomes
<1>4. Locked'
  BY <1>0, <1>1 DEF GiveUp, Disk, Others, Same, Locked, Stages
<1>5. Names'
  BY ZenonT(60), <1>0, <1>1 DEF GiveUp, Disk, Others, Same, Names, Stages, Persisting
<1>6. Recorded'
  BY <1>0, <1>1 DEF GiveUp, Disk, Others, Same, Recorded, Stages
<1>7. Reaped'
  BY <1>0, <1>1 DEF GiveUp, Disk, Others, Same, Reaped
<1>8. AnswerTellsHosts'
  BY <1>0, <1>1 DEF GiveUp, Disk, Others, Same, Stages, AnswerTellsHosts
<1>9. HookSeesRecord'
  BY <1>0, <1>1
  DEF GiveUp, Disk, Others, Same, Stages, Persisting, Names, HookSeesRecord
<1>10. HooksWithinRequest'
  BY <1>0, <1>1 DEF GiveUp, Disk, Others, Same, HooksWithinRequest, Stages, Outcomes
<1>11. HookEndsInOrder'
  BY <1>0, <1>1 DEF GiveUp, Disk, Others, Same, HookEndsInOrder
<1>q. QED  BY <1>2, <1>3, <1>4, <1>5, <1>6, <1>7, <1>8, <1>9, <1>10, <1>11 DEF IInv

-----------------------------------------------------------------------------
(* The record                                                              *)

File == [by: Request \cup {NoReq}, text: {"absent", "empty", "ok", "delivery"}]

(* Whose a file is.                                                        *)
LEMMA FileIs ==
  /\ NoFile \in File /\ NoFile.by = NoReq /\ NoReq \notin Request
  /\ \A q \in Request, t \in {"empty", "ok", "delivery"} :
       /\ [by |-> q, text |-> t] \in File /\ [by |-> q, text |-> t].by = q
       /\ [by |-> q, text |-> t] # NoFile
BY RequestAssumption DEF NoFile, File, Request

(* What the file system refuses is noted, and the lock is given back.      *)
LEMMA DiskFailsKeeps ==
  ASSUME IInv, NEW q \in Request, DiskFails(q)
  PROVE  IInv'
<1>0. /\ TypeOK /\ Stages /\ Locked /\ Names /\ Recorded /\ Reaped
      /\ AnswerTellsHosts /\ HookSeesRecord /\ HooksWithinRequest /\ HookEndsInOrder
      /\ req[q] \in RequestState /\ req \in [Request -> RequestState]
  BY DEF IInv, TypeOK
<1>1. /\ Others(q) /\ req'[q].took = req[q].took /\ req'[q].refused = req[q].refused
      /\ req'[q].said = req[q].said /\ req'[q].path = req[q].path /\ req'[q].id = req[q].id
      /\ req'[q].at = "hooks" /\ req'[q].fault
  <2> DEFINE r == [req[q] EXCEPT !.at = "hooks", !.fault = TRUE]
  <2>1. /\ r \in RequestState
        /\ r.took = req[q].took /\ r.refused = req[q].refused
        /\ r.said = req[q].said /\ r.path = req[q].path /\ r.id = req[q].id
        /\ r.at = "hooks" /\ r.fault
    BY <1>0 DEF RequestState, Open, Sending, Outcomes
  <2>2. Become(q, r)
    BY DEF DiskFails
  <2> HIDE DEF r
  <2>q. QED  BY <1>0, <2>1, <2>2, BecomeIs DEF Same
<1>2. TypeOK'
  BY <1>0, <1>1 DEF DiskFails, Disk, Others, Same, TypeOK
<1>3. Stages'
  BY <1>0, <1>1 DEF DiskFails, Disk, Others, Same, Stages, Persisting, Outcomes
<1>4. Locked'
  BY <1>0, <1>1 DEF DiskFails, Disk, Others, Same, Locked, Stages
<1>5. Names'
  BY ZenonT(60), <1>0, <1>1 DEF DiskFails, Disk, Others, Same, Names, Stages, Persisting
<1>6. Recorded'
  BY <1>0, <1>1 DEF DiskFails, Disk, Others, Same, Recorded, Stages
<1>7. Reaped'
  BY <1>0, <1>1 DEF DiskFails, Disk, Others, Same, Reaped
<1>8. AnswerTellsHosts'
  BY <1>0, <1>1 DEF DiskFails, Disk, Others, Same, Stages, AnswerTellsHosts
<1>9. HookSeesRecord'
  BY <1>0, <1>1
  DEF DiskFails, Disk, Others, Same, Stages, Persisting, Names, HookSeesRecord
<1>10. HooksWithinRequest'
  BY <1>0, <1>1 DEF DiskFails, Disk, Others, Same, HooksWithinRequest, Stages, Outcomes
<1>11. HookEndsInOrder'
  BY <1>0, <1>1 DEF DiskFails, Disk, Others, Same, HookEndsInOrder
<1>q. QED  BY <1>2, <1>3, <1>4, <1>5, <1>6, <1>7, <1>8, <1>9, <1>10, <1>11 DEF IInv

(* The lock is free before it is taken.                                    *)
LEMMA TakeLockKeeps ==
  ASSUME IInv, NEW q \in Request, TakeLock(q)
  PROVE  IInv'
<1>0. /\ TypeOK /\ Stages /\ Locked /\ Names /\ Recorded /\ Reaped
      /\ AnswerTellsHosts /\ HookSeesRecord /\ HooksWithinRequest /\ HookEndsInOrder
      /\ req[q] \in RequestState /\ req \in [Request -> RequestState]
  BY DEF IInv, TypeOK
<1>1. Others(q) /\ Same(q) /\ req'[q].at = "allocate"
  BY <1>0, AtOnly, BecomeIs DEF TakeLock, Same, Place, Open, Sending
<1>2. TypeOK'
  BY <1>0, <1>1 DEF TakeLock, Disk, Others, Same, TypeOK
<1>3. Stages'
  BY <1>0, <1>1 DEF TakeLock, Disk, Others, Same, Stages, Persisting, Outcomes
<1>4. Locked'
  BY <1>0, <1>1, FileIs DEF TakeLock, Others, Locked
<1>5. Names'
  BY <1>0, <1>1 DEF TakeLock, Disk, Others, Same, Names, Stages, Persisting
<1>6. Recorded'
  BY <1>0, <1>1 DEF TakeLock, Disk, Others, Same, Recorded, Stages
<1>7. Reaped'
  BY <1>0, <1>1 DEF TakeLock, Disk, Others, Same, Reaped
<1>8. AnswerTellsHosts'
  BY <1>0, <1>1 DEF TakeLock, Disk, Others, Same, Stages, AnswerTellsHosts
<1>9. HookSeesRecord'
  BY <1>0, <1>1
  DEF TakeLock, Disk, Others, Same, Stages, Persisting, Names, HookSeesRecord
<1>10. HooksWithinRequest'
  BY <1>0, <1>1 DEF TakeLock, Disk, Others, Same, HooksWithinRequest, Stages, Outcomes
<1>11. HookEndsInOrder'
  BY <1>0, <1>1 DEF TakeLock, Disk, Others, Same, HookEndsInOrder
<1>q. QED  BY <1>2, <1>3, <1>4, <1>5, <1>6, <1>7, <1>8, <1>9, <1>10, <1>11 DEF IInv

(* The name is one that no file has.                                       *)
LEMMA AllocateKeeps ==
  ASSUME IInv, NEW q \in Request, Allocate(q)
  PROVE  IInv'
<1>0. /\ TypeOK /\ Stages /\ Locked /\ Names /\ Recorded /\ Reaped
      /\ AnswerTellsHosts /\ HookSeesRecord /\ HooksWithinRequest /\ HookEndsInOrder
      /\ req[q] \in RequestState /\ req \in [Request -> RequestState]
  BY DEF IInv, TypeOK
<1>1. /\ Others(q) /\ req'[q].took = req[q].took /\ req'[q].refused = req[q].refused
      /\ req'[q].said = req[q].said /\ req'[q].path = req[q].path /\ req'[q].fault = req[q].fault
      /\ req'[q].at = "create" /\ req'[q].id \in Id /\ sent[req'[q].id] = NoFile
  <2>1. PICK n \in Id : sent[n] = NoFile /\ Become(q, [req[q] EXCEPT !.at = "create", !.id = n])
    BY DEF Allocate
  <2> DEFINE r == [req[q] EXCEPT !.at = "create", !.id = n]
  <2>2. /\ r \in RequestState
        /\ r.took = req[q].took /\ r.refused = req[q].refused
        /\ r.said = req[q].said /\ r.path = req[q].path /\ r.fault = req[q].fault
        /\ r.at = "create" /\ r.id = n
    BY <1>0 DEF RequestState, Open, Sending, Outcomes
  <2>3. Become(q, r)
    BY <2>1
  <2> HIDE DEF r
  <2>q. QED  BY <1>0, <2>1, <2>2, <2>3, BecomeIs DEF Same
<1>2. TypeOK'
  BY <1>0, <1>1 DEF Allocate, Disk, Others, Same, TypeOK
<1>3. Stages'
  BY <1>0, <1>1 DEF Allocate, Disk, Others, Same, Stages, Persisting, Outcomes
<1>4. Locked'
  BY <1>0, <1>1 DEF Allocate, Disk, Others, Same, Locked, Stages
<1>5. Names'
  BY <1>0, <1>1 DEF Allocate, Disk, Others, Same, Names, Stages, Persisting
<1>6. Recorded'
  BY <1>0, <1>1 DEF Allocate, Disk, Others, Same, Recorded, Stages
<1>7. Reaped'
  BY <1>0, <1>1 DEF Allocate, Disk, Others, Same, Reaped
<1>8. AnswerTellsHosts'
  BY <1>0, <1>1 DEF Allocate, Disk, Others, Same, Stages, AnswerTellsHosts
<1>9. HookSeesRecord'
  BY <1>0, <1>1
  DEF Allocate, Disk, Others, Same, Stages, Persisting, Names, HookSeesRecord
<1>10. HooksWithinRequest'
  BY <1>0, <1>1 DEF Allocate, Disk, Others, Same, HooksWithinRequest, Stages, Outcomes
<1>11. HookEndsInOrder'
  BY <1>0, <1>1 DEF Allocate, Disk, Others, Same, HookEndsInOrder
<1>q. QED  BY <1>2, <1>3, <1>4, <1>5, <1>6, <1>7, <1>8, <1>9, <1>10, <1>11 DEF IInv

(* The name allocated under the lock is still free.                        *)
LEMMA CreateKeeps ==
  ASSUME IInv, NEW q \in Request, Create(q)
  PROVE  IInv'
<1>0. /\ TypeOK /\ Stages /\ Locked /\ Names /\ Recorded /\ Reaped
      /\ AnswerTellsHosts /\ HookSeesRecord /\ HooksWithinRequest /\ HookEndsInOrder
      /\ req[q] \in RequestState /\ req \in [Request -> RequestState]
  BY DEF IInv, TypeOK
<1>1. /\ Others(q) /\ Same(q) /\ req'[q].at = "write" /\ sent[req[q].id] = NoFile
      /\ sent' = [sent EXCEPT ![req[q].id] = [by |-> q, text |-> "empty"]]
  <2>1. sent[req[q].id] = NoFile
    BY <1>0 DEF Create, Names
  <2>q. QED  BY <1>0, <2>1, AtOnly, BecomeIs DEF Create, Same, Place, Open, Sending
<1>2. TypeOK'
  BY <1>0, <1>1, FileIs DEF Create, Disk, Others, Same, TypeOK
<1>3. Stages'
  BY <1>0, <1>1, FileIs DEF Create, Disk, Others, Same, Stages, Persisting, Outcomes
<1>4. Locked'
  BY <1>0, <1>1, FileIs DEF Create, Disk, Others, Same, Locked, Stages
<1>5. Names'
  <2>1. req[q].id \in Id /\ sent \in [Id -> File]
    BY <1>0 DEF Create, Names, TypeOK, File
  <2>2. sent'[req[q].id] = [by |-> q, text |-> "empty"]
    BY <1>1, <2>1
  <2>3. \A n \in Id : n # req[q].id => sent'[n] = sent[n]
    BY <1>1, <2>1
  <2>4. ASSUME NEW p \in Request, p # q
        PROVE  req'[p] = req[p] /\ req[p].at # "create"
    BY <1>0, <1>1, <2>4 DEF Create, Locked, Others
  <2>5. ASSUME NEW p \in Request, req[p].at = "write" PROVE req[p].id # req[q].id
    <3>1. [by |-> p, text |-> "empty"] # NoFile
      BY FileIs
    <3>2. sent[req[p].id] = [by |-> p, text |-> "empty"]
      BY <1>0, <2>5 DEF Names
    <3>q. QED  BY <1>1, <3>1, <3>2
  <2>6. ASSUME NEW p \in Request, p # q
        PROVE  /\ req'[p].at = "create" => req'[p].id \in Id /\ sent'[req'[p].id] = NoFile
               /\ req'[p].at = "write" =>
                    req'[p].id \in Id /\ sent'[req'[p].id] = [by |-> p, text |-> "empty"]
               /\ req'[p].path => req'[p].id \in Id
    BY <1>0, <2>3, <2>4, <2>5, <2>6 DEF Names
  <2>7. /\ req'[q].at = "write" => req'[q].id \in Id /\ sent'[req'[q].id] = [by |-> q, text |-> "empty"]
        /\ req'[q].at # "create" /\ (req'[q].path => req'[q].id \in Id)
    BY <1>1, <2>1, <2>2 DEF Same
  <2>q. QED  BY <2>6, <2>7 DEF Names
<1>6. Recorded'
  BY <1>0, <1>1, FileIs DEF Create, Disk, Others, Same, Recorded, Stages
<1>7. Reaped'
  BY <1>0, <1>1, FileIs DEF Create, Disk, Others, Same, Reaped
<1>8. AnswerTellsHosts'
  BY <1>0, <1>1, FileIs DEF Create, Disk, Others, Same, Stages, AnswerTellsHosts
<1>9. HookSeesRecord'
  BY <1>0, <1>1, FileIs
  DEF Create, Disk, Others, Same, Stages, Persisting, Names, HookSeesRecord
<1>10. HooksWithinRequest'
  BY <1>0, <1>1, FileIs
  DEF Create, Disk, Others, Same, HooksWithinRequest, Stages, Outcomes
<1>11. HookEndsInOrder'
  BY <1>0, <1>1, FileIs DEF Create, Disk, Others, Same, HookEndsInOrder
<1>q. QED  BY <1>2, <1>3, <1>4, <1>5, <1>6, <1>7, <1>8, <1>9, <1>10, <1>11 DEF IInv

(* The file of a request at this step is its own.                          *)
LEMMA WriteKeeps ==
  ASSUME IInv, NEW q \in Request, Write(q)
  PROVE  IInv'
<1>0. /\ TypeOK /\ Stages /\ Locked /\ Names /\ Recorded /\ Reaped
      /\ AnswerTellsHosts /\ HookSeesRecord /\ HooksWithinRequest /\ HookEndsInOrder
      /\ req[q] \in RequestState /\ req \in [Request -> RequestState]
  BY DEF IInv, TypeOK
<1>1. /\ Others(q) /\ req'[q].took = req[q].took /\ req'[q].refused = req[q].refused
      /\ req'[q].said = req[q].said /\ req'[q].fault = req[q].fault /\ req'[q].id = req[q].id
      /\ req'[q].at = "hooks" /\ req'[q].path
  <2> DEFINE r == [req[q] EXCEPT !.at = "hooks", !.path = TRUE]
  <2>1. /\ r \in RequestState
        /\ r.took = req[q].took /\ r.refused = req[q].refused
        /\ r.said = req[q].said /\ r.fault = req[q].fault /\ r.id = req[q].id
        /\ r.at = "hooks" /\ r.path
    BY <1>0 DEF RequestState, Open, Sending, Outcomes
  <2>2. Become(q, r)
    BY DEF Write
  <2> HIDE DEF r
  <2>q. QED  BY <1>0, <2>1, <2>2, BecomeIs DEF Same
<1>2. TypeOK'
  <2>1. /\ req[q].id \in Id /\ sent \in [Id -> File] /\ req[q].said \in {"ok", "delivery"}
        /\ sent[req[q].id] = [by |-> q, text |-> "empty"]
        /\ sent' = [sent EXCEPT ![req[q].id] = [by |-> q, text |-> req[q].said]]
    BY <1>0 DEF Write, Names, Stages, Persisting, TypeOK, File
  <2>2. sent'[req[q].id] = [by |-> q, text |-> req[q].said] /\ sent' \in [Id -> File]
    BY <2>1, FileIs
  <2>3. \A n \in Id : n # req[q].id => sent'[n] = sent[n]
    BY <2>1
  <2>q. QED  BY <1>0, <1>1, <2>2 DEF Write, Others, TypeOK, File
<1>3. Stages'
  BY <1>0, <1>1, FileIs DEF Write, Disk, Others, Same, Stages, Persisting, Outcomes
<1>4. Locked'
  BY <1>0, <1>1, FileIs DEF Write, Disk, Others, Same, Locked, Stages
<1>5. Names'
  <2>1. /\ req[q].id \in Id /\ sent \in [Id -> File] /\ req[q].said \in {"ok", "delivery"}
        /\ sent[req[q].id] = [by |-> q, text |-> "empty"]
        /\ sent' = [sent EXCEPT ![req[q].id] = [by |-> q, text |-> req[q].said]]
    BY <1>0 DEF Write, Names, Stages, Persisting, TypeOK, File
  <2>2. sent'[req[q].id] = [by |-> q, text |-> req[q].said] /\ sent' \in [Id -> File]
    BY <2>1, FileIs
  <2>3. \A n \in Id : n # req[q].id => sent'[n] = sent[n]
    BY <2>1
  <2>4. ASSUME NEW p \in Request, p # q PROVE req'[p] = req[p]
    BY <1>1, <2>4 DEF Others
  <2>5. ASSUME NEW p \in Request, p # q, req[p].at \in {"create", "write"}
        PROVE  req[p].id # req[q].id
    <3>1. /\ [by |-> q, text |-> "empty"] # NoFile
          /\ [by |-> q, text |-> "empty"].by = q /\ [by |-> p, text |-> "empty"].by = p
      BY FileIs
    <3>2. sent[req[p].id] \in {NoFile, [by |-> p, text |-> "empty"]}
      BY <1>0, <2>5 DEF Names
    <3>q. QED  BY <2>1, <2>5, <3>1, <3>2
  <2>6. ASSUME NEW p \in Request, p # q
        PROVE  /\ req'[p].at = "create" => req'[p].id \in Id /\ sent'[req'[p].id] = NoFile
               /\ req'[p].at = "write" =>
                    req'[p].id \in Id /\ sent'[req'[p].id] = [by |-> p, text |-> "empty"]
               /\ req'[p].path => req'[p].id \in Id
    BY <1>0, <2>3, <2>4, <2>5, <2>6 DEF Names
  <2>7. req'[q].at = "hooks" /\ req'[q].id \in Id
    BY <1>1, <2>1
  <2>q. QED  BY <2>6, <2>7 DEF Names
<1>6. Recorded'
  BY <1>0, <1>1, FileIs DEF Write, Disk, Others, Same, Recorded, Stages
<1>7. Reaped'
  BY <1>0, <1>1, FileIs DEF Write, Disk, Others, Same, Reaped
<1>8. AnswerTellsHosts'
  BY <1>0, <1>1, FileIs DEF Write, Disk, Others, Same, Stages, AnswerTellsHosts
<1>9. HookSeesRecord'
  <2>1. /\ req[q].id \in Id /\ sent \in [Id -> File] /\ req[q].said \in {"ok", "delivery"}
        /\ sent[req[q].id] = [by |-> q, text |-> "empty"]
        /\ sent' = [sent EXCEPT ![req[q].id] = [by |-> q, text |-> req[q].said]]
    BY <1>0 DEF Write, Names, Stages, Persisting, TypeOK, File
  <2>2. sent'[req[q].id] = [by |-> q, text |-> req[q].said] /\ sent' \in [Id -> File]
    BY <2>1, FileIs
  <2>3. \A n \in Id : n # req[q].id => sent'[n] = sent[n]
    BY <2>1
  <2>4. ASSUME NEW p \in Request, p # q PROVE req'[p] = req[p]
    BY <1>1, <2>4 DEF Others
  <2>q. QED
    BY <1>0, <1>1, <2>1, <2>2, <2>3, <2>4, FileIs DEF Names, HookSeesRecord
<1>10. HooksWithinRequest'
  BY <1>0, <1>1, FileIs
  DEF Write, Disk, Others, Same, HooksWithinRequest, Stages, Outcomes
<1>11. HookEndsInOrder'
  BY <1>0, <1>1, FileIs DEF Write, Disk, Others, Same, HookEndsInOrder
<1>q. QED  BY <1>2, <1>3, <1>4, <1>5, <1>6, <1>7, <1>8, <1>9, <1>10, <1>11 DEF IInv

-----------------------------------------------------------------------------
(* The hooks                                                               *)

(* A step of one hook, and what it may change.                             *)
Only(h, r) ==
  /\ run' \in [Run -> RunState] /\ run'[h] = r
  /\ \A g \in Run : g # h => run'[g] = run[g]

LEMMA UpdateIs ==
  ASSUME run \in [Run -> RunState], NEW h \in Run, NEW r \in RunState, Update(h, r)
  PROVE  Only(h, r)
BY DEF Update, Only

(* What a signal hits is gone; the rest is as it was.                      *)
LEMMA StruckIs ==
  ASSUME NEW r \in RunState, NEW b \in BOOLEAN
  PROVE  /\ Struck(r, b) \in RunState /\ Struck(r, b).at = r.at
         /\ Struck(r, b).term = r.term /\ Struck(r, b).kill = r.kill
         /\ Struck(r, b).timedOut = r.timedOut /\ Struck(r, b).time = r.time
<1> DEFINE hit == r.prog.sandbox = "setuid" /\ (b \/ ~r.prog.deaf)
           c == r.child /\ ~hit
           d == r.rest /\ ~hit
<1>1. c \in BOOLEAN /\ d \in BOOLEAN
  OBVIOUS
<1>2. Struck(r, b) = [r EXCEPT !.child = c, !.rest = d]
  BY DEF Struck
<1> HIDE DEF c, d
<1>q. QED  BY <1>1, <1>2 DEF RunState

(* A hook in order.                                                        *)
InOrder(r) ==
  /\ r.at \in {"joining", "returned"} => ~r.child
  /\ r.term => r.timedOut
  /\ r.kill => r.term /\ r.timedOut /\ r.time = "grace"
  /\ r.at = "returned" => ~r.child /\ ~r.rest

LEMMA RunStepIs ==
  ASSUME run \in [Run -> RunState], NEW h \in Run, InOrder(run[h]), RunStep(h)
  PROVE  \E r \in RunState : Update(h, r) /\ InOrder(r) /\ r.at # "none" /\ run[h].at # "none"
<1>0. run[h] \in RunState
  OBVIOUS
<1>1. CASE Ends(h)
  <2> DEFINE d == run[h].rest /\ run[h].prog.sandbox = "setuid"
             r == [run[h] EXCEPT !.child = FALSE, !.rest = d]
  <2>1. Update(h, r) /\ run[h].at \in {"polling", "joining"}
    BY <1>1 DEF Ends, Started
  <2>2. d \in BOOLEAN
    OBVIOUS
  <2> HIDE DEF d
  <2>3. /\ r \in RunState /\ ~r.child /\ r.at = run[h].at /\ r.term = run[h].term
        /\ r.kill = run[h].kill /\ r.timedOut = run[h].timedOut /\ r.time = run[h].time
    BY <1>0, <2>2 DEF RunState
  <2> HIDE DEF r
  <2>q. QED  BY <2>1, <2>3 DEF InOrder
<1>2. CASE RestEnds(h)
  <2> DEFINE r == [run[h] EXCEPT !.rest = FALSE]
  <2>1. /\ r \in RunState
        /\ r.at = run[h].at /\ r.child = run[h].child /\ r.term = run[h].term /\ r.kill = run[h].kill
        /\ r.timedOut = run[h].timedOut /\ r.time = run[h].time
    BY <1>0 DEF RunState, RunPlaces
  <2>2. Update(h, r) /\ run[h].at \in {"polling", "joining"}
    BY <1>2 DEF RestEnds, Started
  <2> HIDE DEF r
  <2>q. QED  BY <1>2, <2>1, <2>2 DEF InOrder, RestEnds
<1>3. CASE Tick(h)
  <2> DEFINE r(t) == [run[h] EXCEPT !.time = t]
  <2>1. ASSUME NEW t \in {"limit", "grace"}
        PROVE  /\ r(t) \in RunState /\ r(t).at = run[h].at /\ r(t).child = run[h].child
               /\ r(t).rest = run[h].rest /\ r(t).term = run[h].term /\ r(t).kill = run[h].kill
               /\ r(t).timedOut = run[h].timedOut /\ r(t).time = t
    BY <1>0, <2>1 DEF RunState
  <2>2. /\ run[h].at = "polling"
        /\ \/ run[h].time = "within" /\ Update(h, r("limit"))
           \/ run[h].time = "limit" /\ Update(h, r("grace"))
    BY <1>3 DEF Tick
  <2> HIDE DEF r
  <2>3. ~run[h].kill
    BY <2>2 DEF InOrder
  <2>q. QED  BY <2>1, <2>2, <2>3 DEF InOrder
<1>4. CASE UnitEnds(h)
  <2> DEFINE r == [run[h] EXCEPT !.child = FALSE, !.rest = FALSE]
  <2>1. /\ r \in RunState
        /\ r.at = run[h].at /\ r.term = run[h].term /\ r.kill = run[h].kill
        /\ ~r.child /\ r.timedOut = run[h].timedOut /\ r.time = run[h].time
    BY <1>0 DEF RunState, RunPlaces
  <2>2. Update(h, r) /\ run[h].at \in {"polling", "joining"}
    BY <1>4 DEF UnitEnds, Started
  <2> HIDE DEF r
  <2>q. QED  BY <1>4, <2>1, <2>2 DEF InOrder, UnitEnds
<1>5. CASE Reap(h)
  <2> DEFINE r == [run[h] EXCEPT !.at = "joining"]
  <2>1. /\ r \in RunState
        /\ r.child = run[h].child /\ r.rest = run[h].rest /\ r.term = run[h].term /\ r.kill = run[h].kill
        /\ r.at = "joining" /\ r.timedOut = run[h].timedOut /\ r.time = run[h].time
    BY <1>0 DEF RunState, RunPlaces
  <2>2. Update(h, r) /\ run[h].at \in {"polling", "joining"}
    BY <1>5 DEF Reap, Started
  <2> HIDE DEF r
  <2>q. QED  BY <1>5, <2>1, <2>2 DEF InOrder, Reap
<1>6. CASE SendTerm(h)
  <2> DEFINE r == [run[h] EXCEPT !.term = TRUE, !.timedOut = TRUE]
  <2>1. r \in RunState /\ r.at = run[h].at /\ r.time = run[h].time /\ r.term /\ r.timedOut /\ r.kill = run[h].kill
    BY <1>0 DEF RunState
  <2>2. Update(h, Struck(r, FALSE)) /\ run[h].at = "polling"
    BY <1>6 DEF SendTerm
  <2> HIDE DEF r
  <2>q. QED  BY <1>6, <2>1, <2>2, StruckIs DEF InOrder, SendTerm
<1>7. CASE SendKill(h)
  <2> DEFINE r == [run[h] EXCEPT !.kill = TRUE]
  <2>1. r \in RunState /\ r.at = run[h].at /\ r.time = run[h].time /\ r.kill /\ r.term = run[h].term /\ r.timedOut = run[h].timedOut
    BY <1>0 DEF RunState
  <2>2. Update(h, Struck(r, TRUE)) /\ run[h].at = "polling"
    BY <1>7 DEF SendKill
  <2> HIDE DEF r
  <2>q. QED  BY <1>7, <2>1, <2>2, StruckIs DEF InOrder, SendKill
<1>8. CASE Join(h)
  <2> DEFINE r == [run[h] EXCEPT !.at = "returned"]
  <2>1. /\ r \in RunState
        /\ r.child = run[h].child /\ r.rest = run[h].rest /\ r.term = run[h].term /\ r.kill = run[h].kill
        /\ r.at = "returned" /\ r.timedOut = run[h].timedOut /\ r.time = run[h].time
    BY <1>0 DEF RunState, RunPlaces
  <2>2. Update(h, r) /\ run[h].at \in {"polling", "joining"}
    BY <1>8 DEF Join, Started
  <2> HIDE DEF r
  <2>q. QED  BY <1>8, <2>1, <2>2 DEF InOrder, Join
<1>q. QED  BY <1>1, <1>2, <1>3, <1>4, <1>5, <1>6, <1>7, <1>8 DEF RunStep, Parent

(* The conjuncts of the invariant about hooks, hook by hook.               *)
LEMMA OrderIs == (\A h \in Run : InOrder(run[h])) <=> Reaped /\ HookEndsInOrder
BY DEF InOrder, Reaped, HookEndsInOrder

LEMMA HookStepKeeps ==
  ASSUME IInv, NEW q \in Request, HookStep(q)
  PROVE  IInv'
<1>0. TypeOK /\ HooksWithinRequest /\ \A h \in Run : InOrder(run[h])
  BY OrderIs DEF IInv
<1>1. UNCHANGED <<req, Disk>>
  BY DEF HookStep
<1>2. PICK r \in RunState : Update(q, r) /\ InOrder(r) /\ r.at # "none" /\ run[q].at # "none"
  BY <1>0, RunStepIs DEF HookStep, TypeOK, Request
<1>3. Only(q, r)
  BY <1>0, <1>2, UpdateIs DEF TypeOK, Request
<1>4. TypeOK'  BY <1>0, <1>1, <1>3 DEF TypeOK, Disk, Only
<1>5. Stages' /\ Locked' /\ Names' /\ Recorded'
  BY <1>1 DEF IInv, Disk, Stages, Locked, Names, Recorded
<1>6. AnswerTellsHosts' /\ HookSeesRecord'
  BY <1>1 DEF IInv, Disk, AnswerTellsHosts, HookSeesRecord
<1>7. HooksWithinRequest'
  BY <1>0, <1>1, <1>2, <1>3 DEF HooksWithinRequest, Only, Request
<1>8. \A h \in Run : InOrder(run'[h])
  BY <1>0, <1>2, <1>3 DEF Only, Request
<1>9. Reaped' /\ HookEndsInOrder'
  BY <1>8 DEF InOrder, Reaped, HookEndsInOrder
<1>q. QED  BY <1>4, <1>5, <1>6, <1>7, <1>9 DEF IInv

(* A child that starts is in order, and so is a place where none runs.     *)
LEMMA NewRunIs ==
  /\ NoRun \in RunState /\ InOrder(NoRun) /\ NoRun.at = "none"
  /\ \A p \in Programs : \E r \in RunState :
       /\ r = [NoRun EXCEPT !.at = "polling", !.prog = p, !.child = TRUE, !.rest = p.forks]
       /\ InOrder(r)
<1>1. NoProgram \in Program
  BY DEF NoProgram, Program
<1>2. NoRun \in RunState /\ InOrder(NoRun) /\ NoRun.at = "none"
  BY <1>1 DEF NoRun, RunState, RunPlaces, InOrder
<1>3. ASSUME NEW p \in Programs
      PROVE  \E r \in RunState :
               /\ r = [NoRun EXCEPT !.at = "polling", !.prog = p, !.child = TRUE, !.rest = p.forks]
               /\ InOrder(r)
  <2> DEFINE r == [NoRun EXCEPT !.at = "polling", !.prog = p, !.child = TRUE, !.rest = p.forks]
  <2>1. p \in Program /\ p.forks \in BOOLEAN
    BY <1>3, ProgramAssumption DEF Program
  <2>2. NoRun \in RunState /\ ~NoRun.term /\ ~NoRun.kill
    BY <1>2 DEF NoRun
  <2>3. r \in RunState /\ r.at = "polling" /\ ~r.term /\ ~r.kill
    BY <2>1, <2>2 DEF RunState, RunPlaces
  <2> HIDE DEF r
  <2>4. InOrder(r)
    BY <2>3 DEF InOrder
  <2>q. QED  BY <2>3, <2>4 DEF r
<1>q. QED  BY <1>2, <1>3

(* A request that goes on with its hooks ...                               *)
LEMMA OneHookLess ==
  ASSUME TypeOK, NEW q \in Request, req[q].hooks > 0,
         Become(q, [req[q] EXCEPT !.hooks = @ - 1])
  PROVE  Others(q) /\ Same(q) /\ req'[q].at = req[q].at
<1> DEFINE r == [req[q] EXCEPT !.hooks = @ - 1]
<1>1. req[q] \in RequestState /\ req[q].hooks - 1 \in 0..MaxHooks
  BY BoundAssumption DEF TypeOK, RequestState
<1>2. /\ r \in RequestState /\ r.at = req[q].at
      /\ r.took = req[q].took /\ r.refused = req[q].refused /\ r.said = req[q].said
      /\ r.path = req[q].path /\ r.fault = req[q].fault /\ r.id = req[q].id
  BY <1>1 DEF RequestState
<1> HIDE DEF r
<1>3. Become(q, r)
  BY DEF r
<1>q. QED  BY <1>2, <1>3, BecomeIs DEF TypeOK, Same

(* ... has said and recorded what it had.                                  *)
LEMMA SameKeeps ==
  ASSUME IInv, NEW q \in Request, Others(q), Same(q),
         req'[q].at = req[q].at, UNCHANGED Disk
  PROVE  /\ Stages' /\ Locked' /\ Names' /\ Recorded'
         /\ AnswerTellsHosts' /\ HookSeesRecord'
<1>0. /\ Stages /\ Locked /\ Names /\ Recorded
      /\ AnswerTellsHosts /\ HookSeesRecord
  BY DEF IInv
<1>1. Stages'  BY <1>0 DEF Stages, Others, Same
<1>2. Locked'  BY <1>0 DEF Locked, Others, Disk
<1>3. Names'  BY ZenonT(60), <1>0 DEF Names, Others, Same, Disk
<1>4. Recorded'  BY <1>0 DEF Recorded, Others, Same
<1>5. AnswerTellsHosts'  BY <1>0 DEF AnswerTellsHosts, Others, Same
<1>6. HookSeesRecord'  BY <1>0 DEF HookSeesRecord, Others, Same, Disk
<1>q. QED  BY <1>1, <1>2, <1>3, <1>4, <1>5, <1>6

LEMMA FireHookKeeps ==
  ASSUME IInv, NEW q \in Request, FireHook(q)
  PROVE  IInv'
<1>0. TypeOK /\ Stages /\ HooksWithinRequest /\ \A h \in Run : InOrder(run[h])
  BY OrderIs DEF IInv
<1>1. Others(q) /\ Same(q) /\ req'[q].at = req[q].at /\ req[q].at = "hooks" /\ UNCHANGED Disk
  BY <1>0, OneHookLess DEF FireHook
<1>2. PICK r \in RunState : Update(q, r) /\ InOrder(r)
  BY NewRunIs DEF FireHook, Spawn, Child
<1>3. Only(q, r)
  BY <1>0, <1>2, UpdateIs DEF TypeOK, Request
<1>4. TypeOK'  BY <1>0, <1>1, <1>3 DEF TypeOK, Disk, Only, Others
<1>5. HooksWithinRequest'
  BY <1>0, <1>1, <1>3 DEF HooksWithinRequest, Stages, Only, Others, Same, Request
<1>6. \A h \in Run : InOrder(run'[h])
  BY <1>0, <1>2, <1>3 DEF Only, Request
<1>7. Reaped' /\ HookEndsInOrder'
  BY <1>6 DEF InOrder, Reaped, HookEndsInOrder
<1>q. QED  BY <1>1, <1>4, <1>5, <1>7, SameKeeps DEF IInv

LEMMA HookFailsKeeps ==
  ASSUME IInv, NEW q \in Request, HookFails(q)
  PROVE  IInv'
<1>0. TypeOK /\ HooksWithinRequest /\ Reaped /\ HookEndsInOrder
  BY DEF IInv
<1>1. Others(q) /\ Same(q) /\ req'[q].at = req[q].at /\ UNCHANGED <<run, Disk>>
  BY <1>0, OneHookLess DEF HookFails
<1>2. TypeOK'  BY <1>0, <1>1 DEF TypeOK, Disk, Others
<1>3. HooksWithinRequest'  BY <1>0, <1>1 DEF HooksWithinRequest, Others, Same
<1>4. Reaped' /\ HookEndsInOrder'  BY <1>0, <1>1 DEF Reaped, HookEndsInOrder
<1>q. QED  BY <1>1, <1>2, <1>3, <1>4, SameKeeps DEF IInv

LEMMA HookReturnsKeeps ==
  ASSUME IInv, NEW q \in Request, HookReturns(q)
  PROVE  IInv'
<1>0. TypeOK /\ HooksWithinRequest /\ \A h \in Run : InOrder(run[h])
  BY OrderIs DEF IInv
<1>1. Update(q, NoRun) /\ UNCHANGED <<req, Disk>>
  BY DEF HookReturns, Update
<1>2. Only(q, NoRun)
  BY <1>0, <1>1, UpdateIs, NewRunIs DEF TypeOK, Request
<1>3. TypeOK'  BY <1>0, <1>1, <1>2 DEF TypeOK, Disk, Only
<1>4. Stages' /\ Locked' /\ Names' /\ Recorded'
  BY <1>1 DEF IInv, Disk, Stages, Locked, Names, Recorded
<1>5. AnswerTellsHosts' /\ HookSeesRecord'
  BY <1>1 DEF IInv, Disk, AnswerTellsHosts, HookSeesRecord
<1>6. HooksWithinRequest'
  BY <1>0, <1>1, <1>2, NewRunIs DEF HooksWithinRequest, Only, Request
<1>7. \A h \in Run : InOrder(run'[h])
  BY <1>0, <1>2, NewRunIs DEF Only, Request
<1>8. Reaped' /\ HookEndsInOrder'
  BY <1>7 DEF InOrder, Reaped, HookEndsInOrder
<1>q. QED  BY <1>3, <1>4, <1>5, <1>6, <1>8 DEF IInv

(* The request goes on when no hook runs.                                  *)
LEMMA HooksDoneKeeps ==
  ASSUME IInv, NEW q \in Request, HooksDone(q)
  PROVE  IInv'
<1>0. /\ TypeOK /\ Stages /\ Locked /\ Names /\ Recorded /\ Reaped
      /\ AnswerTellsHosts /\ HookSeesRecord /\ HooksWithinRequest /\ HookEndsInOrder
      /\ req[q] \in RequestState /\ req \in [Request -> RequestState]
  BY DEF IInv, TypeOK
<1>1. Others(q) /\ Same(q) /\ req'[q].at = "reply"
  BY <1>0, AtOnly, BecomeIs DEF HooksDone, Same, Place, Open, Sending
<1>2. TypeOK'
  BY <1>0, <1>1 DEF HooksDone, Disk, Others, Same, TypeOK
<1>3. Stages'
  BY <1>0, <1>1 DEF HooksDone, Disk, Others, Same, Stages, Persisting, Outcomes
<1>4. Locked'
  BY <1>0, <1>1 DEF HooksDone, Disk, Others, Same, Locked, Stages
<1>5. Names'
  BY ZenonT(60), <1>0, <1>1 DEF HooksDone, Disk, Others, Same, Names, Stages, Persisting
<1>6. Recorded'
  BY <1>0, <1>1 DEF HooksDone, Disk, Others, Same, Recorded, Stages
<1>7. Reaped'
  BY <1>0, <1>1 DEF HooksDone, Disk, Others, Same, Reaped
<1>8. AnswerTellsHosts'
  BY <1>0, <1>1 DEF HooksDone, Disk, Others, Same, Stages, AnswerTellsHosts
<1>9. HookSeesRecord'
  BY <1>0, <1>1
  DEF HooksDone, Disk, Others, Same, Stages, Persisting, Names, HookSeesRecord
<1>10. HooksWithinRequest'
  BY <1>0, <1>1 DEF HooksDone, Disk, Others, Same, HooksWithinRequest, Stages, Outcomes
<1>11. HookEndsInOrder'
  BY <1>0, <1>1 DEF HooksDone, Disk, Others, Same, HookEndsInOrder
<1>q. QED  BY <1>2, <1>3, <1>4, <1>5, <1>6, <1>7, <1>8, <1>9, <1>10, <1>11 DEF IInv

-----------------------------------------------------------------------------
(* The theorems                                                            *)

LEMMA InitKeeps == ASSUME Init PROVE IInv
<1>1. NewRequest.at = "new"
  BY DEF NewRequest
<1>2. run \in [Run -> RunState] /\ \A h \in Run : run[h] = NoRun
  BY NewRunIs DEF Init, InitRun
<1>3. req \in [Request -> RequestState] /\ \A q \in Request : req[q] = NewRequest
  BY NewRequestIs DEF Init
<1>4. TypeOK
  BY <1>2, <1>3, FileIs DEF Init, TypeOK, File
<1>5. Stages /\ Locked /\ Names /\ Recorded
  BY <1>1, <1>3, NewRequestIs DEF Stages, Locked, Names, Recorded, Persisting
<1>6. AnswerTellsHosts /\ HookSeesRecord
  BY <1>1, <1>3, NewRequestIs DEF AnswerTellsHosts, HookSeesRecord
<1>7. HooksWithinRequest
  BY <1>2, NewRunIs DEF HooksWithinRequest, Request
<1>8. Reaped /\ HookEndsInOrder
  BY <1>2, NewRunIs, OrderIs
<1>q. QED  BY <1>4, <1>5, <1>6, <1>7, <1>8 DEF IInv

LEMMA NextKeeps == ASSUME IInv, [Next]_vars PROVE IInv'
<1>1. ASSUME NEW q \in Request, Client(q) PROVE IInv'
  BY <1>1, ConnectKeeps, DroppedKeeps, MisframedKeeps, PausesKeeps, DrainedKeeps,
    RefusedKeeps, AcceptedKeeps
  DEF Client
<1>2. ASSUME NEW q \in Request, Handler(q) PROVE IInv'
  BY <1>2, ResolveKeeps, TryKeeps, GiveUpKeeps, TakeLockKeeps, AllocateKeeps, CreateKeeps,
     WriteKeeps, FireHookKeeps, HookReturnsKeeps, HooksDoneKeeps, ReplyKeeps
  DEF Handler
<1>3. ASSUME NEW q \in Request, DiskFails(q) \/ HookFails(q) \/ HookStep(q) PROVE IInv'
  BY <1>3, DiskFailsKeeps, HookFailsKeeps, HookStepKeeps
<1>4. CASE UNCHANGED vars
  BY <1>4 DEF vars, IInv, TypeOK, Stages, Locked, Names, Recorded, Reaped, AnswerTellsHosts,
     HookSeesRecord, HooksWithinRequest, HookEndsInOrder
<1>q. QED  BY <1>1, <1>2, <1>3, <1>4 DEF Next

THEOREM Invariant == Spec => []IInv
BY InitKeeps, NextKeeps, PTL DEF Spec

(* Every variable keeps its type, for any requests, hosts, hooks and       *)
(* programs.                                                               *)
THEOREM TypeCorrect == Spec => []TypeOK
<1>1. IInv => TypeOK  BY DEF IInv
<1>q. QED  BY Invariant, <1>1, PTL

(* OK, DELIVERY and TEMP say what the MX hosts said, however many there    *)
(* are (deliver_across_mx, handle_send_with_signer).                       *)
THEOREM AnswersTruthful == Spec => []AnswerTellsHosts
<1>1. IInv => AnswerTellsHosts  BY DEF IInv
<1>q. QED  BY Invariant, <1>1, PTL

(* The record a hook is pointed at is its request's own, finished and      *)
(* true, however many SENDs share a mailbox and a second                   *)
(* (persist_sent_file).                                                    *)
THEOREM HooksSeeRecords == Spec => []HookSeesRecord
<1>1. IInv => HookSeesRecord  BY DEF IInv
<1>q. QED  BY Invariant, <1>1, PTL

(* Hooks run between the verdict and the answer (fire_after_send_hooks).   *)
THEOREM HooksBeforeAnswer == Spec => []HooksWithinRequest
<1>1. IInv => HooksWithinRequest  BY DEF IInv
<1>q. QED  BY Invariant, <1>1, PTL

(* SIGKILL comes after SIGTERM and the grace, and a parent that returns    *)
(* leaves nobody at its pipes, whatever the program does                   *)
(* (run_child_with_timeout).                                               *)
THEOREM KillsInOrder == Spec => []HookEndsInOrder
<1>1. IInv => HookEndsInOrder  BY DEF IInv
<1>q. QED  BY Invariant, <1>1, PTL

(* No verdict goes unrecorded but by a fault of the file system: two       *)
(* requests never lose a record to each other (SENT_WRITE_LOCK).           *)
THEOREM VerdictsRecorded == Spec => []OutcomeIsRecorded
<1>1. IInv => OutcomeIsRecorded
  BY DEF IInv, Recorded, OutcomeIsRecorded
<1>q. QED  BY Invariant, <1>1, PTL
=============================================================================
