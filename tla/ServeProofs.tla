----------------------------- MODULE ServeProofs -----------------------------
(***************************************************************************)
(* Proofs about Serve and SmtpSession, for any number of connections and   *)
(* recipients, any snapshots and any limits: nobody receives a letter the  *)
(* client was not told 250 for, 250 to a letter means every recipient has  *)
(* it, a letter given up on is stored nowhere, and only connections that   *)
(* had their grace are cut. And about Probe, the other listener MCServe    *)
(* holds: port 25 is called reachable when both ends have answered.        *)
(***************************************************************************)
EXTENDS MCServe, Sequences, TLAPS

(* What a connection knows by itself: recipients live in a transaction,    *)
(* and each of them was agreed to on this side of STARTTLS.                *)
Fit(r) ==
  /\ r.at # "deliver" => r.todo = {}
  /\ r.at \notin {"data", "deliver"} => r.mode # "Data"
  /\ r.mode \notin {"RcptTo", "Data"} => r.paths = {}
  /\ \A n \in r.paths \cup r.todo : <<n, r.tls>> \in r.agreed

Fits == \A s \in Session : Fit(ses[s])

(* A blocking thread works for a delivery, or for a connection that went   *)
(* away during one.                                                        *)
Threads ==
  \A s \in Session : worker[s] # NoName =>
    \/ ses[s].at = "gone"
    \/ ses[s].at = "deliver" /\ worker[s] \in ses[s].todo

(* Letters are numbered upwards, and the one being read is new.            *)
LettersRise ==
  /\ \A entry \in stored :
       LET s == entry[1][1]  l == entry[1][2] IN
       l <= ses[s].letter /\ (ses[s].at = "data" => l # ses[s].letter)
  /\ \A letter \in cut :
       LET s == letter[1]  l == letter[2] IN
       l <= ses[s].letter /\ (ses[s].at = "data" => l # ses[s].letter)

(* What is being delivered was not given up on.                            *)
DeliveredWhole ==
  \A s \in Session :
    ses[s].at = "deliver" \/ worker[s] # NoName => Of(s) \notin cut

(* As long as nothing failed, who is no longer to do has the letter.       *)
DoneIsStored ==
  \A s \in Session : ses[s].at = "deliver" /\ ~ses[s].bad =>
    \A n \in ses[s].paths \ ses[s].todo :
      <<Of(s), Route(ses[s].view, n)>> \in stored

(* A permit per live connection, until the runtime is dropped.             *)
PermitsAreLive ==
  phase = "up" => permits = {s \in Session : ses[s].at \in Live}

(* The inductive invariant.                                                *)
IInv ==
  /\ TypeOK /\ Fits /\ Threads /\ LettersRise /\ DeliveredWhole
  /\ DoneIsStored /\ PermitsAreLive /\ CutNeverStored /\ OnlyGraceCuts
-----------------------------------------------------------------------------
(* Records and the functions that hold them                                *)

LEMMA NewSessionIs ==
  NewSession \in SessionState /\ NewSession.at = "new" /\ Fit(NewSession)
BY LimitAssumption DEF NewSession, SessionState, Places, Modes, Fit

LEMMA GoneIs ==
  ASSUME NEW r \in SessionState
  PROVE  /\ Gone(r) \in SessionState /\ Gone(r).at = "gone"
         /\ Gone(r).letter = r.letter /\ Fit(Gone(r))
<1>1. /\ NewSession \in SessionState /\ NewSession.todo = {} /\ NewSession.paths = {}
      /\ NewSession.mode = "Connected"
  BY NewSessionIs DEF NewSession
<1>2. /\ r.letter \in 0..MaxLetters /\ r.view \in SUBSET Box /\ "gone" \in Places
  BY DEF SessionState, Places
<1> DEFINE n == Gone(r)
<1>3. /\ n \in SessionState /\ n.at = "gone" /\ n.letter = r.letter
      /\ n.todo = {} /\ n.paths = {} /\ n.mode = "Connected"
  BY <1>1, <1>2 DEF Gone, SessionState
<1>4. Fit(n)
  <2> HIDE DEF n
  <2>q. QED  BY <1>3 DEF Fit
<1>q. QED  BY <1>3, <1>4

LEMMA ResetIs ==
  ASSUME NEW r \in SessionState
  PROVE  /\ Reset(r) \in SessionState
         /\ Reset(r).at = r.at /\ Reset(r).letter = r.letter
         /\ Reset(r).todo = r.todo /\ Reset(r).paths = {}
         /\ Reset(r).mode \in {"Connected", "Greeted"}
BY DEF Reset, SessionState, Modes

(* Another place, another count.                                           *)
LEMMA AtIs ==
  ASSUME NEW r \in SessionState, NEW a \in Places
  PROVE  LET n == [r EXCEPT !.at = a] IN
         /\ n \in SessionState /\ n.at = a /\ n.letter = r.letter
         /\ n.todo = r.todo /\ n.paths = r.paths /\ n.mode = r.mode
         /\ n.tls = r.tls /\ n.agreed = r.agreed
BY DEF SessionState

LEMMA CountIs ==
  ASSUME NEW r \in SessionState, NEW c \in 0..MaxCommands
  PROVE  LET n == [r EXCEPT !.count = c] IN
         /\ n \in SessionState /\ n.at = r.at /\ n.letter = r.letter
         /\ n.todo = r.todo /\ n.paths = r.paths /\ n.mode = r.mode
         /\ n.tls = r.tls /\ n.agreed = r.agreed
BY DEF SessionState

(* One connection changes and the others do not.                           *)
Becomes(s, r) ==
  /\ ses'[s] = r
  /\ ses' \in [Session -> SessionState]
  /\ \A t \in Session : t # s => ses'[t] = ses[t]

LEMMA BecomesBy ==
  ASSUME ses \in [Session -> SessionState], NEW s \in Session,
         NEW r \in SessionState, ses' = [ses EXCEPT ![s] = r]
  PROVE  Becomes(s, r)
BY DEF Becomes

-----------------------------------------------------------------------------
(* The permits                                                             *)

LEMMA PermitsKept ==
  ASSUME IInv, phase = "up", NEW s \in Session, NEW r \in SessionState,
         ses[s].at \in Live, r.at \in Live \cup {"gone"},
         Becomes(s, r), PermitsFollow
  PROVE  permits' = {t \in Session : ses'[t].at \in Live}
<1>1. permits = {t \in Session : ses[t].at \in Live}
  BY DEF IInv, PermitsAreLive
<1>2. \A t \in Session : ses[t].at \in Live =>
        (ses'[t].at # "gone" <=> ses'[t].at \in Live)
  BY DEF Becomes, Live
<1>3. \A t \in Session : ses'[t].at \in Live => ses[t].at \in Live
  BY DEF Becomes
<1>q. QED  BY <1>1, <1>2, <1>3 DEF PermitsFollow

LEMMA PermitsSame ==
  ASSUME IInv, NEW s \in Session, NEW r \in SessionState, Becomes(s, r),
         (ses[s].at \in Live) = (r.at \in Live),
         permits' = permits, phase' = phase
  PROVE  PermitsAreLive'
BY DEF IInv, PermitsAreLive, Becomes

-----------------------------------------------------------------------------
(* A step after which a connection is not delivering and no thread of its  *)
(* works, unless it went away: every command, every end, every answer.     *)

LEMMA OffDelivery ==
  ASSUME IInv, NEW s \in Session, NEW r \in SessionState,
         Becomes(s, r), Fit(r), r.letter = ses[s].letter,
         r.at \in {"line", "handshake", "gone"},
         r.at = "gone" \/ worker[s] = NoName,
         NoDelivery, UNCHANGED <<snap, changes>>, OnlySmtp,
         acked' \subseteq Letter \X Name,
         cut' = cut \/ (ses[s].at = "data" /\ cut' = cut \cup {Of(s)}),
         permits' \subseteq Session, PermitsAreLive'
  PROVE  IInv'
<1>0. /\ TypeOK /\ Fits /\ Threads /\ LettersRise /\ DeliveredWhole
      /\ DoneIsStored /\ PermitsAreLive /\ CutNeverStored /\ OnlyGraceCuts
      /\ ses[s] \in SessionState /\ ses \in [Session -> SessionState]
  BY DEF IInv, TypeOK
<1>1. Of(s) \in Letter /\ Of(s)' = Of(s)
  BY <1>0 DEF Of, Letter, SessionState, Becomes
<1>2. \A t \in Session : Of(t)' = Of(t)
  BY <1>0 DEF Of, Becomes
<1>3. TypeOK'
  BY <1>0, <1>1 DEF TypeOK, Becomes, NoDelivery, OnlySmtp
<1>4. Fits'
  BY <1>0 DEF Fits, Becomes
<1>5. Threads'
  BY <1>0 DEF Threads, Becomes, NoDelivery
<1>6. LettersRise'
  <2>1. \A t \in Session : /\ ses'[t].letter = ses[t].letter
                           /\ ses'[t].at = "data" => ses[t].at = "data" /\ t # s
    BY DEF Becomes
  <2>2. stored' = stored /\ stored \subseteq Letter \X Box
    BY <1>0 DEF NoDelivery, TypeOK
  <2>3. \A entry \in stored' :
          LET t == entry[1][1]  l == entry[1][2] IN
          l <= ses'[t].letter /\ (ses'[t].at = "data" => l # ses'[t].letter)
    BY <1>0, <2>1, <2>2 DEF LettersRise, Letter
  <2>4. \A letter \in cut :
          LET t == letter[1]  l == letter[2] IN
          l <= ses'[t].letter /\ (ses'[t].at = "data" => l # ses'[t].letter)
    BY <1>0, <2>1 DEF LettersRise, Letter, TypeOK
  <2>5. ses[s].letter <= ses'[s].letter
    BY <1>0, LimitAssumption DEF Becomes, SessionState
  <2>6. \A letter \in {Of(s)} :
          LET t == letter[1]  l == letter[2] IN
          l <= ses'[t].letter /\ (ses'[t].at = "data" => l # ses'[t].letter)
    BY <2>1, <2>5 DEF Of
  <2>7. \A letter \in cut' :
          LET t == letter[1]  l == letter[2] IN
          l <= ses'[t].letter /\ (ses'[t].at = "data" => l # ses'[t].letter)
    BY <2>4, <2>6
  <2>q. QED  BY <2>3, <2>7 DEF LettersRise
<1>7. DeliveredWhole'
  <2> SUFFICES ASSUME NEW t \in Session, (ses[t].at = "deliver" \/ worker[t] # NoName)',
                      Of(t) \in cut'
               PROVE  FALSE
    BY <1>2 DEF DeliveredWhole
  <2>1. ses[t].at = "deliver" \/ worker[t] # NoName
    BY DEF Becomes, NoDelivery
  <2>2. Of(t) = Of(s) /\ ses[s].at = "data"
    BY <2>1, <1>0 DEF DeliveredWhole
  <2>3. t = s
    BY <2>2 DEF Of
  <2>4. worker[s] = NoName
    BY <1>0, <2>2 DEF Threads
  <2>q. QED  BY <2>1, <2>2, <2>3, <2>4
<1>8. DoneIsStored'
  BY <1>0, <1>2 DEF DoneIsStored, Becomes, NoDelivery
<1>9. CutNeverStored'
  <2>1. ses[s].at = "data" => \A entry \in stored : entry[1] # Of(s)
    BY <1>0 DEF LettersRise, Of
  <2>q. QED  BY <1>0, <2>1 DEF CutNeverStored, NoDelivery
<1>10. OnlyGraceCuts'
  BY <1>0 DEF OnlyGraceCuts, OnlySmtp
<1>q. QED  BY <1>3, <1>4, <1>5, <1>6, <1>7, <1>8, <1>9, <1>10 DEF IInv

-----------------------------------------------------------------------------
(* Commands                                                                *)

LEMMA CommandKeeps ==
  ASSUME IInv, phase = "up", NEW s \in Session, NEW r \in SessionState,
         Command(s, r), Fit(r), r.letter = ses[s].letter,
         r.at \in {"line", "handshake"},
         NoHistory, PermitsFollow, OnlySmtp
  PROVE  IInv'
<1> DEFINE n == [r EXCEPT !.count = ses[s].count + 1]
<1>1. /\ ses \in [Session -> SessionState] /\ ses[s] \in SessionState
      /\ Threads /\ permits \subseteq Session /\ acked \subseteq Letter \X Name
  BY DEF IInv, TypeOK
<1>2. ses[s].count + 1 \in 0..MaxCommands /\ ses[s].at = "line"
  BY <1>1, LimitAssumption DEF Command, SessionState
<1>3. /\ n \in SessionState /\ n.at = r.at /\ n.letter = r.letter
      /\ n.todo = r.todo /\ n.paths = r.paths /\ n.mode = r.mode
      /\ n.tls = r.tls /\ n.agreed = r.agreed
  BY <1>2, CountIs
<1>4. ses' = [ses EXCEPT ![s] = n] /\ Served
  BY DEF Command
<1> HIDE DEF n
<1>5. Fit(n)
  BY <1>3 DEF Fit
<1>6. Becomes(s, n)
  BY <1>1, <1>3, <1>4, BecomesBy
<1>7. worker[s] = NoName
  BY <1>1, <1>2 DEF Threads
<1>8. permits' = {t \in Session : ses'[t].at \in Live}
  BY <1>2, <1>3, <1>6, PermitsKept DEF Live
<1>9. PermitsAreLive'
  BY <1>8 DEF PermitsAreLive
<1>q. QED
  BY <1>1, <1>3, <1>4, <1>5, <1>6, <1>7, <1>8, <1>9, OffDelivery
  DEF Served, NoHistory

(* A connection that ends where no letter is being read.                   *)
LEMMA CloseKeeps ==
  ASSUME IInv, phase = "up", NEW s \in Session, ses[s].at \in Live,
         Close(s), Served, OnlySmtp, PermitsFollow, acked' = acked,
         cut' = cut \/ (ses[s].at = "data" /\ cut' = cut \cup {Of(s)})
  PROVE  IInv'
<1>1. /\ ses \in [Session -> SessionState] /\ ses[s] \in SessionState
      /\ permits \subseteq Session /\ acked \subseteq Letter \X Name
  BY DEF IInv, TypeOK
<1> DEFINE n == Gone(ses[s])
<1>2. /\ n \in SessionState /\ n.at = "gone" /\ n.letter = ses[s].letter /\ Fit(n)
      /\ ses' = [ses EXCEPT ![s] = n]
  BY <1>1, GoneIs DEF Close
<1> HIDE DEF n
<1>3. Becomes(s, n)
  BY <1>1, <1>2, BecomesBy
<1>4. permits' = {t \in Session : ses'[t].at \in Live}
  BY <1>2, <1>3, PermitsKept
<1>5. PermitsAreLive'
  BY <1>4 DEF PermitsAreLive
<1>q. QED
  BY <1>1, <1>2, <1>3, <1>4, <1>5, OffDelivery DEF Served

(* EHLO, RSET: nothing is left of the transaction.                         *)
LEMMA ResetCommandKeeps ==
  ASSUME IInv, phase = "up", NEW s \in Session, Hello(s) \/ Rset(s),
         PermitsFollow, OnlySmtp
  PROVE  IInv'
<1>1. /\ ses[s] \in SessionState /\ Fit(ses[s]) /\ ses[s].at = "line"
  BY DEF IInv, TypeOK, Fits, Hello, Rset, Command
<1> DEFINE g == [ses[s] EXCEPT !.mode = "Greeted"]
<1>2. g \in SessionState /\ g.at = "line" /\ g.letter = ses[s].letter /\ g.todo = {}
  BY <1>1 DEF SessionState, Modes, Fit
<1>3. \E r \in {g, ses[s]} : Command(s, Reset(r)) /\ NoHistory
  BY DEF Hello, Rset
<1> HIDE DEF g
<1>4. \A r \in {g, ses[s]} :
        /\ Reset(r) \in SessionState /\ Reset(r).at = "line"
        /\ Reset(r).letter = ses[s].letter /\ Fit(Reset(r))
  BY <1>1, <1>2, ResetIs DEF Fit
<1>q. QED  BY <1>3, <1>4, CommandKeeps

LEMMA MailKeeps ==
  ASSUME IInv, phase = "up", NEW s \in Session, Mail(s), PermitsFollow, OnlySmtp
  PROVE  IInv'
<1>1. /\ ses[s] \in SessionState /\ Fit(ses[s]) /\ ses[s].at = "line"
  BY DEF IInv, TypeOK, Fits, Mail, Command
<1> DEFINE r == [ses[s] EXCEPT !.mode = "MailFrom", !.agreed = {}]
<1>2. /\ r \in SessionState /\ r.at = "line" /\ r.letter = ses[s].letter
      /\ r.todo = ses[s].todo /\ r.paths = ses[s].paths /\ r.mode = "MailFrom"
  BY <1>1 DEF SessionState, Modes
<1>3. Command(s, r) /\ NoHistory
  BY DEF Mail
<1> HIDE DEF r
<1>4. ses[s].paths = {} /\ ses[s].todo = {}
  BY <1>1 DEF Mail, Fit
<1>5. Fit(r)
  BY <1>2, <1>4 DEF Fit
<1>q. QED  BY <1>2, <1>3, <1>5, CommandKeeps

LEMMA RcptKeeps ==
  ASSUME IInv, phase = "up", NEW s \in Session, NEW n \in Name, Rcpt(s, n),
         PermitsFollow, OnlySmtp
  PROVE  IInv'
<1>1. /\ ses[s] \in SessionState /\ Fit(ses[s]) /\ ses[s].at = "line"
  BY DEF IInv, TypeOK, Fits, Rcpt, Command
<1> DEFINE r == [ses[s] EXCEPT !.mode = "RcptTo", !.paths = @ \cup {n},
                               !.agreed = @ \cup {<<n, ses[s].tls>>}]
<1>2. /\ r \in SessionState /\ r.at = "line" /\ r.letter = ses[s].letter
      /\ r.todo = ses[s].todo /\ r.paths = ses[s].paths \cup {n} /\ r.mode = "RcptTo"
      /\ r.tls = ses[s].tls /\ r.agreed = ses[s].agreed \cup {<<n, ses[s].tls>>}
  <2>1. /\ ses[s].tls \in BOOLEAN /\ ses[s].agreed \subseteq Name \X BOOLEAN
        /\ ses[s].paths \subseteq Name
    BY <1>1 DEF SessionState
  <2>2. /\ ses[s].agreed \cup {<<n, ses[s].tls>>} \in SUBSET (Name \X BOOLEAN)
        /\ ses[s].paths \cup {n} \in SUBSET Name
    <3>1. <<n, ses[s].tls>> \in Name \X BOOLEAN
      BY <2>1
    <3>q. QED  BY <2>1, <3>1
  <2>q. QED  BY <1>1, <2>2 DEF SessionState, Modes
<1>3. Command(s, r) /\ NoHistory
  BY DEF Rcpt
<1> HIDE DEF r
<1>4. Fit(r)
  BY <1>1, <1>2 DEF Fit
<1>q. QED  BY <1>2, <1>3, <1>4, CommandKeeps

LEMMA AnsweredKeeps ==
  ASSUME IInv, phase = "up", NEW s \in Session, Answered(s), PermitsFollow, OnlySmtp
  PROVE  IInv'
<1>1. /\ ses[s] \in SessionState /\ Fit(ses[s]) /\ ses[s].at = "line"
  BY DEF IInv, TypeOK, Fits, Answered, Command
<1>q. QED  BY <1>1, CommandKeeps DEF Answered

LEMMA StarttlsKeeps ==
  ASSUME IInv, phase = "up", NEW s \in Session, Starttls(s), PermitsFollow, OnlySmtp
  PROVE  IInv'
<1>1. /\ ses[s] \in SessionState /\ Fit(ses[s]) /\ ses[s].at = "line"
  BY DEF IInv, TypeOK, Fits, Starttls, Command
<1> DEFINE r == [ses[s] EXCEPT !.at = "handshake"]
<1>2. /\ r \in SessionState /\ r.at = "handshake" /\ r.letter = ses[s].letter
      /\ r.todo = ses[s].todo /\ r.paths = ses[s].paths /\ r.mode = ses[s].mode
      /\ r.tls = ses[s].tls /\ r.agreed = ses[s].agreed
  BY <1>1, AtIs DEF Places
<1>3. Command(s, r) /\ NoHistory
  BY DEF Starttls
<1> HIDE DEF r
<1>4. Fit(r)
  BY <1>1, <1>2 DEF Fit
<1>q. QED  BY <1>2, <1>3, <1>4, CommandKeeps

(* DATA: the new letter has a number no letter had.                        *)
LEMMA DataKeeps ==
  ASSUME IInv, phase = "up", NEW s \in Session, Data(s), PermitsFollow, OnlySmtp
  PROVE  IInv'
<1>0. /\ TypeOK /\ Fits /\ Threads /\ LettersRise /\ DeliveredWhole
      /\ DoneIsStored /\ PermitsAreLive /\ CutNeverStored /\ OnlyGraceCuts
      /\ ses[s] \in SessionState /\ ses \in [Session -> SessionState]
      /\ Fit(ses[s]) /\ ses[s].at = "line"
  BY DEF IInv, TypeOK, Fits, Data, Command
<1> DEFINE r == [ses[s] EXCEPT !.at = "data", !.mode = "Data", !.letter = @ + 1]
           n == [r EXCEPT !.count = ses[s].count + 1]
<1>1. /\ ses[s].letter \in Nat /\ ses[s].letter + 1 \in 0..MaxLetters
      /\ ses[s].count + 1 \in 0..MaxCommands
  BY <1>0, LimitAssumption DEF Data, Command, SessionState
<1>2. /\ n \in SessionState /\ n.at = "data" /\ n.letter = ses[s].letter + 1
      /\ n.todo = ses[s].todo /\ n.paths = ses[s].paths /\ n.mode = "Data"
      /\ n.tls = ses[s].tls /\ n.agreed = ses[s].agreed
  BY <1>0, <1>1 DEF SessionState, Modes, Places
<1>3. ses' = [ses EXCEPT ![s] = n] /\ Served /\ NoHistory
  BY DEF Data, Command
<1> HIDE DEF r, n
<1>4. Fit(n)
  BY <1>0, <1>2 DEF Fit
<1>5. Becomes(s, n)
  BY <1>0, <1>2, <1>3, BecomesBy
<1>6. worker[s] = NoName
  BY <1>0 DEF Threads
<1>7. permits' = {t \in Session : ses'[t].at \in Live}
  BY <1>0, <1>2, <1>5, PermitsKept DEF Live
<1>8. \A t \in Session : t # s => Of(t)' = Of(t)
  BY <1>5 DEF Of, Becomes
<1>9. TypeOK'
  BY <1>0, <1>3, <1>5 DEF TypeOK, Becomes, Served, NoDelivery, NoHistory, OnlySmtp, PermitsFollow
<1>10. Fits'
  BY <1>0, <1>4, <1>5 DEF Fits, Becomes
<1>11. Threads'
  BY <1>0, <1>3, <1>5, <1>6 DEF Threads, Becomes, Served, NoDelivery
<1>12. LettersRise'
  <2>1. \A t \in Session, l \in 0..MaxLetters :
          l <= ses[t].letter /\ (ses[t].at = "data" => l # ses[t].letter) =>
          l <= ses'[t].letter /\ (ses'[t].at = "data" => l # ses'[t].letter)
    BY <1>1, <1>2, <1>5, LimitAssumption DEF Becomes
  <2>2. stored' = stored /\ cut' = cut /\ stored \subseteq Letter \X Box /\ cut \subseteq Letter
    BY <1>0, <1>3 DEF TypeOK, Served, NoDelivery, NoHistory
  <2>q. QED  BY <1>0, <2>1, <2>2 DEF LettersRise, Letter
<1>13. DeliveredWhole'
  BY <1>0, <1>2, <1>3, <1>5, <1>6, <1>8 DEF DeliveredWhole, Becomes, Served, NoDelivery, NoHistory
<1>14. DoneIsStored'
  BY <1>0, <1>2, <1>3, <1>5, <1>8 DEF DoneIsStored, Becomes, Served, NoDelivery
<1>15. PermitsAreLive' /\ CutNeverStored' /\ OnlyGraceCuts'
  BY <1>0, <1>3, <1>7
  DEF PermitsAreLive, CutNeverStored, OnlyGraceCuts, Served, NoDelivery, NoHistory, OnlySmtp
<1>q. QED  BY <1>9, <1>10, <1>11, <1>12, <1>13, <1>14, <1>15 DEF IInv

(* After the handshake the client starts over.                             *)
LEMMA TlsUpKeeps ==
  ASSUME IInv, phase = "up", NEW s \in Session, TlsUp(s), PermitsFollow, OnlySmtp
  PROVE  IInv'
<1>0. /\ ses \in [Session -> SessionState] /\ ses[s] \in SessionState
      /\ Threads /\ Fit(ses[s]) /\ ses[s].at = "handshake"
      /\ permits \subseteq Session /\ acked \subseteq Letter \X Name
  BY DEF IInv, TypeOK, Fits, TlsUp
<1> DEFINE r == [ses[s] EXCEPT !.at = "line", !.tls = TRUE, !.mode = "Connected"]
           n == Reset(r)
<1>1. r \in SessionState /\ r.at = "line" /\ r.letter = ses[s].letter /\ r.todo = {}
  BY <1>0 DEF SessionState, Modes, Places, Fit
<1>2. ses' = [ses EXCEPT ![s] = n] /\ Served /\ NoHistory
  BY DEF TlsUp
<1>3. n \in SessionState /\ n.at = "line" /\ n.letter = ses[s].letter /\ Fit(n)
  <2> HIDE DEF r
  <2>q. QED  BY <1>1, ResetIs DEF Fit
<1> HIDE DEF r, n
<1>4. Becomes(s, n)
  BY <1>0, <1>2, <1>3, BecomesBy
<1>5. permits' = {t \in Session : ses'[t].at \in Live}
  BY <1>0, <1>3, <1>4, PermitsKept DEF Live
<1>6. worker[s] = NoName /\ PermitsAreLive'
  BY <1>0, <1>5 DEF Threads, PermitsAreLive
<1>q. QED
  BY <1>0, <1>2, <1>3, <1>4, <1>5, <1>6, OffDelivery DEF Served, NoHistory

(* A letter refused half-way: the transaction is over.                     *)
LEMMA LetterCutKeeps ==
  ASSUME IInv, phase = "up", NEW s \in Session, LetterCut(s), PermitsFollow, OnlySmtp
  PROVE  IInv'
<1>0. /\ ses \in [Session -> SessionState] /\ ses[s] \in SessionState
      /\ Threads /\ Fit(ses[s]) /\ ses[s].at = "data"
      /\ permits \subseteq Session /\ acked \subseteq Letter \X Name
  BY DEF IInv, TypeOK, Fits, LetterCut
<1> DEFINE r == Reset(ses[s])
           n == [r EXCEPT !.at = "line"]
<1>1. /\ r \in SessionState /\ r.letter = ses[s].letter /\ r.todo = {}
      /\ r.paths = {} /\ r.mode # "Data"
  BY <1>0, ResetIs DEF Fit
<1>2. ses' = [ses EXCEPT ![s] = n] /\ Served /\ acked' = acked
      /\ cut' = cut \cup {Of(s)}
  BY DEF LetterCut
<1> HIDE DEF r
<1>3. n \in SessionState /\ n.at = "line" /\ n.letter = ses[s].letter /\ Fit(n)
  BY <1>1, AtIs DEF Places, Fit
<1> HIDE DEF n
<1>4. Becomes(s, n)
  BY <1>0, <1>2, <1>3, BecomesBy
<1>5. permits' = {t \in Session : ses'[t].at \in Live}
  BY <1>0, <1>3, <1>4, PermitsKept DEF Live
<1>6. worker[s] = NoName /\ PermitsAreLive'
  BY <1>0, <1>5 DEF Threads, PermitsAreLive
<1>q. QED
  BY <1>0, <1>2, <1>3, <1>4, <1>5, <1>6, OffDelivery DEF Served

(* The end of a letter takes the snapshot and the list of who is to do.    *)
LEMMA LetterEndsKeeps ==
  ASSUME IInv, phase = "up", NEW s \in Session, LetterEnds(s), PermitsFollow, OnlySmtp
  PROVE  IInv'
<1>0. /\ TypeOK /\ Fits /\ Threads /\ LettersRise /\ DeliveredWhole
      /\ DoneIsStored /\ PermitsAreLive /\ CutNeverStored /\ OnlyGraceCuts
      /\ ses[s] \in SessionState /\ ses \in [Session -> SessionState]
      /\ Fit(ses[s]) /\ ses[s].at = "data" /\ snap \subseteq Box
  BY DEF IInv, TypeOK, Fits, LetterEnds
<1> DEFINE n == [ses[s] EXCEPT !.at = "deliver", !.view = snap, !.todo = ses[s].paths,
                               !.good = FALSE, !.bad = FALSE]
<1>2. /\ n \in SessionState /\ n.at = "deliver" /\ n.letter = ses[s].letter
      /\ n.todo = ses[s].paths /\ n.paths = ses[s].paths /\ n.mode = ses[s].mode
      /\ n.tls = ses[s].tls /\ n.agreed = ses[s].agreed
  BY <1>0 DEF SessionState, Places
<1>3. ses' = [ses EXCEPT ![s] = n] /\ Served /\ NoHistory
  BY DEF LetterEnds
<1> HIDE DEF n
<1>4. Fit(n)
  BY <1>0, <1>2 DEF Fit
<1>5. Becomes(s, n)
  BY <1>0, <1>2, <1>3, BecomesBy
<1>6. worker[s] = NoName
  BY <1>0 DEF Threads
<1>7. permits' = {t \in Session : ses'[t].at \in Live}
  BY <1>0, <1>2, <1>5, PermitsKept DEF Live
<1>8. \A t \in Session : Of(t)' = Of(t)
  BY <1>2, <1>5 DEF Of, Becomes
<1>9. TypeOK'
  BY <1>0, <1>3, <1>5 DEF TypeOK, Becomes, Served, NoDelivery, NoHistory, OnlySmtp, PermitsFollow
<1>10. Fits'
  BY <1>0, <1>4, <1>5 DEF Fits, Becomes
<1>11. Threads'
  BY <1>0, <1>3, <1>5, <1>6 DEF Threads, Becomes, Served, NoDelivery
<1>12. LettersRise'
  <2>1. \A t \in Session : /\ ses'[t].letter = ses[t].letter
                           /\ ses'[t].at = "data" => ses[t].at = "data"
    BY <1>2, <1>5 DEF Becomes
  <2>2. stored' = stored /\ cut' = cut /\ stored \subseteq Letter \X Box /\ cut \subseteq Letter
    BY <1>0, <1>3 DEF TypeOK, Served, NoDelivery, NoHistory
  <2>q. QED  BY <1>0, <2>1, <2>2 DEF LettersRise, Letter
<1>13. DeliveredWhole'
  <2>1. Of(s) \notin cut
    BY <1>0 DEF LettersRise, Of
  <2>q. QED
    BY <1>0, <2>1, <1>3, <1>5, <1>8
    DEF DeliveredWhole, Becomes, Served, NoDelivery, NoHistory
<1>14. DoneIsStored'
  BY <1>0, <1>2, <1>3, <1>5, <1>8 DEF DoneIsStored, Becomes, Served, NoDelivery
<1>15. PermitsAreLive' /\ CutNeverStored' /\ OnlyGraceCuts'
  BY <1>0, <1>3, <1>7
  DEF PermitsAreLive, CutNeverStored, OnlyGraceCuts, Served, NoDelivery, NoHistory, OnlySmtp
<1>q. QED  BY <1>9, <1>10, <1>11, <1>12, <1>13, <1>14, <1>15 DEF IInv

(* The answer: only a delivery without a failure is acknowledged.          *)
LEMMA ReplyKeeps ==
  ASSUME IInv, phase = "up", NEW s \in Session, Reply(s), PermitsFollow, OnlySmtp
  PROVE  IInv'
<1>0. /\ ses \in [Session -> SessionState] /\ ses[s] \in SessionState
      /\ ses[s].at = "deliver" /\ ses[s].todo = {} /\ worker[s] = NoName
      /\ permits \subseteq Session /\ acked \subseteq Letter \X Name
  BY DEF IInv, TypeOK, Reply
<1> DEFINE r == Reset(ses[s])
           n == [r EXCEPT !.at = "line"]
<1>1. /\ r \in SessionState /\ r.letter = ses[s].letter /\ r.todo = {}
      /\ r.paths = {} /\ r.mode # "Data"
  BY <1>0, ResetIs
<1>2. ses' = [ses EXCEPT ![s] = n] /\ Served /\ cut' = cut
  BY DEF Reply, Served, NoDelivery
<1> HIDE DEF r
<1>3. n \in SessionState /\ n.at = "line" /\ n.letter = ses[s].letter /\ Fit(n)
  BY <1>1, AtIs DEF Places, Fit
<1> HIDE DEF n
<1>4. Becomes(s, n)
  BY <1>0, <1>2, <1>3, BecomesBy
<1>5. permits' = {t \in Session : ses'[t].at \in Live}
  BY <1>0, <1>3, <1>4, PermitsKept DEF Live
<1>6. PermitsAreLive'
  BY <1>5 DEF PermitsAreLive
<1>7. acked' \subseteq Letter \X Name
  <2>1. Of(s) \in Letter /\ ses[s].paths \subseteq Name
    BY <1>0 DEF Of, Letter, SessionState
  <2>q. QED  BY <1>0, <2>1 DEF Reply
<1>q. QED
  BY <1>0, <1>2, <1>3, <1>4, <1>5, <1>6, <1>7, OffDelivery DEF Served

-----------------------------------------------------------------------------
(* The blocking threads                                                    *)

LEMMA IngestKeeps ==
  ASSUME IInv, phase = "up", NEW s \in Session, NEW n \in Name, Ingest(s, n),
         PermitsFollow, OnlySmtp
  PROVE  IInv'
<1>0. /\ TypeOK /\ Fits /\ Threads /\ LettersRise /\ DeliveredWhole
      /\ DoneIsStored /\ PermitsAreLive /\ CutNeverStored /\ OnlyGraceCuts
      /\ ses' = ses /\ stored' = stored /\ acked' = acked /\ cut' = cut
      /\ worker' = [worker EXCEPT ![s] = n]
      /\ ses[s].at = "deliver" /\ n \in ses[s].todo
  BY DEF IInv, Ingest, NoHistory
<1>1. TypeOK'
  BY <1>0 DEF TypeOK, Ingest, OnlySmtp, PermitsFollow
<1>2. Threads'
  BY <1>0 DEF Threads, TypeOK
<1>3. DeliveredWhole'
  BY <1>0 DEF DeliveredWhole, TypeOK, Of
<1>4. Fits' /\ LettersRise' /\ DoneIsStored' /\ CutNeverStored' /\ OnlyGraceCuts'
  BY <1>0 DEF Fits, LettersRise, DoneIsStored, CutNeverStored, OnlyGraceCuts, Of, OnlySmtp
<1>5. PermitsAreLive'
  BY <1>0 DEF PermitsAreLive, PermitsFollow, OnlySmtp, Live
<1>q. QED  BY <1>1, <1>2, <1>3, <1>4, <1>5 DEF IInv

(* What a thread leaves behind for its connection.                         *)
LEMMA JoinedIs ==
  ASSUME IInv, NEW s \in Session, NEW ok \in BOOLEAN, worker[s] # NoName, Joined(s, ok)
  PROVE  \E r \in SessionState :
           /\ Becomes(s, r) /\ Fit(r)
           /\ r.at = ses[s].at /\ r.letter = ses[s].letter
           /\ r.view = ses[s].view /\ r.paths = ses[s].paths
           /\ r.at = "deliver" =>
                /\ r.todo = ses[s].todo \ {worker[s]}
                /\ r.bad = (ses[s].bad \/ ~ok)
<1>0. /\ ses \in [Session -> SessionState] /\ ses[s] \in SessionState /\ Fit(ses[s])
  BY DEF IInv, TypeOK, Fits
<1>1. CASE ses[s].at # "deliver"
  <2>1. ses' = ses
    BY <1>1 DEF Joined
  <2>2. Becomes(s, ses[s])
    BY <1>0, <2>1 DEF Becomes
  <2>q. QED  BY <1>0, <1>1, <2>2
<1>2. CASE ses[s].at = "deliver"
  <2> DEFINE d == [ses[s] EXCEPT !.todo = @ \ {worker[s]},
                                 !.good = @ \/ ok, !.bad = @ \/ ~ok]
  <2>1. ses' = [ses EXCEPT ![s] = d]
    BY <1>0, <1>2 DEF Joined
  <2>2. /\ d \in SessionState
        /\ d.at = ses[s].at /\ d.letter = ses[s].letter
        /\ d.view = ses[s].view /\ d.paths = ses[s].paths
        /\ d.mode = ses[s].mode /\ d.tls = ses[s].tls /\ d.agreed = ses[s].agreed
        /\ d.todo = ses[s].todo \ {worker[s]}
        /\ d.bad = (ses[s].bad \/ ~ok)
    BY <1>0 DEF SessionState
  <2> HIDE DEF d
  <2>3. Becomes(s, d)
    BY <1>0, <2>1, <2>2, BecomesBy
  <2>4. Fit(d)
    BY <1>0, <2>2 DEF Fit
  <2>q. QED  BY <2>2, <2>3, <2>4
<1>q. QED  BY <1>1, <1>2

LEMMA WorkKeeps ==
  ASSUME IInv, NEW s \in Session, Work(s)
  PROVE  IInv'
<1>0. /\ TypeOK /\ Fits /\ Threads /\ LettersRise /\ DeliveredWhole
      /\ DoneIsStored /\ PermitsAreLive /\ CutNeverStored /\ OnlyGraceCuts
      /\ ses[s] \in SessionState /\ ses \in [Session -> SessionState]
      /\ worker \in [Session -> Name \cup {NoName}] /\ stored \subseteq Letter \X Box
  BY DEF IInv, TypeOK
<1>1. /\ worker[s] \in Name /\ OnlySmtp /\ permits' = permits
      /\ acked' = acked /\ cut' = cut /\ snap' = snap /\ changes' = changes
      /\ worker' = [worker EXCEPT ![s] = NoName]
  BY <1>0 DEF Work, WorkerStep, Stores, Fails, Joined, NoHistory
<1> DEFINE box == Route(ses[s].view, worker[s])
<1>2. PICK ok \in BOOLEAN :
        /\ Joined(s, ok)
        /\ ~ok => stored' = stored
        /\ ok => box # NoBox /\ stored' = stored \cup {<<Of(s), box>>}
  BY DEF Work, WorkerStep, Stores, Fails
<1>3. PICK r \in SessionState :
        /\ Becomes(s, r) /\ Fit(r)
        /\ r.at = ses[s].at /\ r.letter = ses[s].letter
        /\ r.view = ses[s].view /\ r.paths = ses[s].paths
        /\ r.at = "deliver" =>
             /\ r.todo = ses[s].todo \ {worker[s]}
             /\ r.bad = (ses[s].bad \/ ~ok)
  BY <1>0, <1>1, <1>2, JoinedIs, NameAssumption
<1>4. /\ Of(s) \in Letter /\ Of(s) \notin cut
      /\ ses[s].at \in {"deliver", "gone"}
      /\ ses[s].at = "deliver" => worker[s] \in ses[s].todo
  BY <1>0, <1>1, NameAssumption DEF Of, Letter, SessionState, DeliveredWhole, Threads
<1>5. box # NoBox => box \in Box
  BY <1>0, <1>1 DEF Route, Box
<1> HIDE DEF box
<1>6. \A t \in Session : Of(t)' = Of(t)
  BY <1>3 DEF Of, Becomes
<1>7. stored \subseteq stored' /\ stored' \subseteq stored \cup {<<Of(s), box>>}
  BY <1>2
<1>8. TypeOK'
  <2>1. stored' \subseteq Letter \X Box
    BY <1>0, <1>2, <1>4, <1>5
  <2>2. worker' \in [Session -> Name \cup {NoName}]
    BY <1>0, <1>1
  <2>q. QED  BY <1>0, <1>1, <1>3, <2>1, <2>2 DEF TypeOK, Becomes, OnlySmtp
<1>9. Fits'
  BY <1>0, <1>3 DEF Fits, Becomes
<1>10. Threads'
  BY <1>0, <1>1, <1>3 DEF Threads, Becomes
<1>11. LettersRise'
  <2>1. \A t \in Session : ses'[t].letter = ses[t].letter /\ ses'[t].at = ses[t].at
    BY <1>3 DEF Becomes
  <2>2. \A entry \in stored :
          LET t == entry[1][1]  l == entry[1][2] IN
          l <= ses'[t].letter /\ (ses'[t].at = "data" => l # ses'[t].letter)
    BY <1>0, <2>1 DEF LettersRise, Letter
  <2>3. ses[s].letter <= ses'[s].letter /\ ses'[s].at # "data"
    BY <1>0, <1>4, <2>1, LimitAssumption DEF SessionState
  <2>4. \A entry \in {<<Of(s), box>>} :
          LET t == entry[1][1]  l == entry[1][2] IN
          l <= ses'[t].letter /\ (ses'[t].at = "data" => l # ses'[t].letter)
    BY <2>3 DEF Of
  <2>5. \A letter \in cut' :
          LET t == letter[1]  l == letter[2] IN
          l <= ses'[t].letter /\ (ses'[t].at = "data" => l # ses'[t].letter)
    BY <1>0, <1>1, <2>1 DEF LettersRise, Letter, TypeOK
  <2>6. \A entry \in stored' :
          LET t == entry[1][1]  l == entry[1][2] IN
          l <= ses'[t].letter /\ (ses'[t].at = "data" => l # ses'[t].letter)
    BY <1>7, <2>2, <2>4
  <2>q. QED  BY <2>5, <2>6 DEF LettersRise
<1>12. DeliveredWhole'
  BY <1>0, <1>1, <1>3, <1>6 DEF DeliveredWhole, Becomes
<1>13. DoneIsStored'
  <2> SUFFICES ASSUME NEW t \in Session, ses'[t].at = "deliver", ~ses'[t].bad,
                      NEW n \in ses'[t].paths \ ses'[t].todo
               PROVE  <<Of(t), Route(ses'[t].view, n)>> \in stored'
    BY <1>6 DEF DoneIsStored
  <2>1. CASE t # s
    BY <1>0, <1>3, <1>7, <2>1 DEF DoneIsStored, Becomes
  <2>2. CASE t = s
    <3>1. ok /\ ~ses[s].bad /\ ses[s].at = "deliver"
      BY <1>3, <2>2 DEF Becomes
    <3>2. n \in ses[s].paths \ ses[s].todo \/ n = worker[s]
      BY <1>3, <2>2, <3>1 DEF Becomes
    <3>3. ses'[s].view = ses[s].view
      BY <1>3 DEF Becomes
    <3>4. CASE n \in ses[s].paths \ ses[s].todo
      BY <1>0, <1>7, <2>2, <3>1, <3>3, <3>4 DEF DoneIsStored
    <3>5. CASE n = worker[s]
      BY <1>2, <2>2, <3>1, <3>3, <3>5 DEF box
    <3>q. QED  BY <3>2, <3>4, <3>5
  <2>q. QED  BY <2>1, <2>2
<1>14. PermitsAreLive'
  BY <1>1, <1>3, PermitsSame DEF OnlySmtp
<1>15. CutNeverStored'
  BY <1>0, <1>1, <1>4, <1>7 DEF CutNeverStored
<1>16. OnlyGraceCuts'
  BY <1>0, <1>1 DEF OnlyGraceCuts, OnlySmtp
<1>q. QED
  BY <1>8, <1>9, <1>10, <1>11, <1>12, <1>13, <1>14, <1>15, <1>16 DEF IInv

-----------------------------------------------------------------------------
(* The listener, the clock and the end                                     *)

LEMMA AcceptKeeps ==
  ASSUME IInv, NEW s \in Session, Accept(s)
  PROVE  IInv'
<1>0. /\ ses \in [Session -> SessionState] /\ ses[s] \in SessionState
      /\ Threads /\ Fit(ses[s]) /\ ses[s].at = "new" /\ phase = "up"
      /\ permits \subseteq Session /\ acked \subseteq Letter \X Name /\ PermitsAreLive
  BY DEF IInv, TypeOK, Fits, Accept
<1> DEFINE n == [ses[s] EXCEPT !.at = "line"]
<1>1. /\ n \in SessionState /\ n.at = "line" /\ n.letter = ses[s].letter /\ Fit(n)
  BY <1>0, AtIs DEF Places, Fit
<1>2. /\ ses' = [ses EXCEPT ![s] = n] /\ Served /\ NoHistory /\ OnlySmtp
      /\ permits' = permits \cup {s}
  BY DEF Accept
<1> HIDE DEF n
<1>3. Becomes(s, n)
  BY <1>0, <1>1, <1>2, BecomesBy
<1>4. worker[s] = NoName
  BY <1>0 DEF Threads
<1>5. PermitsAreLive'
  BY <1>0, <1>1, <1>2, <1>3 DEF PermitsAreLive, Becomes, Live, OnlySmtp
<1>6. permits' \subseteq Session
  BY <1>0, <1>2
<1>q. QED
  BY <1>0, <1>1, <1>2, <1>3, <1>4, <1>5, <1>6, OffDelivery DEF Served, NoHistory

LEMMA RejectKeeps ==
  ASSUME IInv, NEW s \in Session, Reject(s)
  PROVE  IInv'
<1>0. /\ ses \in [Session -> SessionState] /\ ses[s] \in SessionState
      /\ ses[s].at = "new"
      /\ permits \subseteq Session /\ acked \subseteq Letter \X Name
  BY DEF IInv, TypeOK, Reject
<1> DEFINE n == Gone(ses[s])
<1>1. /\ n \in SessionState /\ n.at = "gone" /\ n.letter = ses[s].letter /\ Fit(n)
  BY <1>0, GoneIs
<1>2. /\ ses' = [ses EXCEPT ![s] = n] /\ Served /\ NoHistory /\ OnlySmtp
      /\ permits' = permits
  BY DEF Reject, Close
<1> HIDE DEF n
<1>3. Becomes(s, n)
  BY <1>0, <1>1, <1>2, BecomesBy
<1>4. PermitsAreLive'
  BY <1>0, <1>1, <1>2, <1>3, PermitsSame DEF Live, OnlySmtp
<1>q. QED
  BY <1>0, <1>1, <1>2, <1>3, <1>4, OffDelivery DEF Served, NoHistory

LEMMA StepKeeps ==
  ASSUME IInv, NEW s \in Session, Step(s)
  PROVE  IInv'
<1>0. phase = "up" /\ PermitsFollow /\ OnlySmtp
  BY DEF Step
<1>1. CASE Hello(s) \/ Rset(s)
  BY <1>0, <1>1, ResetCommandKeeps
<1>2. CASE Mail(s)
  BY <1>0, <1>2, MailKeeps
<1>3. CASE \E n \in Name : Rcpt(s, n)
  BY <1>0, <1>3, RcptKeeps
<1>4. CASE Answered(s)
  BY <1>0, <1>4, AnsweredKeeps
<1>5. CASE Data(s)
  BY <1>0, <1>5, DataKeeps
<1>6. CASE Starttls(s)
  BY <1>0, <1>6, StarttlsKeeps
<1>7. CASE TlsUp(s)
  BY <1>0, <1>7, TlsUpKeeps
<1>8. CASE TooMany(s) \/ Leave(s) \/ DataFails(s)
  BY <1>0, <1>8, CloseKeeps DEF TooMany, Leave, DataFails, Live, NoHistory
<1>9. CASE LetterEnds(s)
  BY <1>0, <1>9, LetterEndsKeeps
<1>10. CASE LetterCut(s)
  BY <1>0, <1>10, LetterCutKeeps
<1>11. CASE Reply(s)
  BY <1>0, <1>11, ReplyKeeps
<1>12. CASE \E n \in Name : Ingest(s, n)
  BY <1>0, <1>12, IngestKeeps
<1>q. QED
  BY <1>1, <1>2, <1>3, <1>4, <1>5, <1>6, <1>7, <1>8, <1>9, <1>10, <1>11, <1>12
  DEF Step, SessionStep

LEMMA TimeOutKeeps ==
  ASSUME IInv, NEW s \in Session, TimeOut(s)
  PROVE  IInv'
BY CloseKeeps DEF TimeOut, Deadline

(* Whoever is live when the runtime is dropped has had its grace, and what *)
(* was being read is given up on.                                          *)
LEMMA DropKeeps ==
  ASSUME IInv, Drop
  PROVE  IInv'
<1>0. /\ TypeOK /\ Fits /\ Threads /\ LettersRise /\ DeliveredWhole
      /\ DoneIsStored /\ PermitsAreLive /\ CutNeverStored /\ OnlyGraceCuts
      /\ ses \in [Session -> SessionState] /\ phase = "up"
      /\ stored' = stored /\ worker' = worker
  BY DEF IInv, TypeOK, Drop, Served, NoDelivery
<1> DEFINE lost == {Of(s) : s \in {t \in Session : ses[t].at = "data"}}
<1>1. cut' = cut \cup lost
  BY DEF Drop
<1>2. \A s \in Session :
        /\ ses'[s] \in SessionState /\ Fit(ses'[s])
        /\ ses'[s].letter = ses[s].letter
        /\ ses'[s].at \notin Live
        /\ ses[s].at \in Live => ses'[s].at = "gone"
        /\ ses[s].at \notin Live => ses'[s] = ses[s]
  <2> TAKE s \in Session
  <2>1. ses[s] \in SessionState /\ Fit(ses[s])
    BY <1>0 DEF Fits
  <2>2. ses'[s] = IF ses[s].at \in Live THEN Gone(ses[s]) ELSE ses[s]
    BY DEF Drop
  <2>q. QED  BY <2>1, <2>2, GoneIs DEF Live
<1>3. ses' \in [Session -> SessionState]
  <2>1. \A s \in Session :
          (IF ses[s].at \in Live THEN Gone(ses[s]) ELSE ses[s]) \in SessionState
    BY <1>0, GoneIs
  <2>q. QED  BY <2>1 DEF Drop
<1>4. \A s \in Session : Of(s)' = Of(s) /\ Of(s) \in Letter
  BY <1>0, <1>2 DEF Of, Letter, SessionState
<1>5. lost \subseteq Letter
  BY <1>4
<1>6. TypeOK'
  BY <1>0, <1>1, <1>3, <1>5 DEF TypeOK, Drop, Served, NoDelivery
<1>7. Fits'
  BY <1>2 DEF Fits
<1>8. Threads'
  BY <1>0, <1>2 DEF Threads, Live
<1>9. LettersRise'
  <2>1. \A s \in Session : ses'[s].at # "data" /\ ses[s].letter \in Nat
    BY <1>0, <1>2, LimitAssumption DEF Live, SessionState
  <2>2. \A letter \in lost : letter[1] \in Session /\ letter[2] = ses[letter[1]].letter
    BY DEF Of
  <2>3. \A letter \in cut' : letter[2] <= ses'[letter[1]].letter
    <3>1. \A letter \in cut : letter[1] \in Session /\ letter[2] <= ses[letter[1]].letter
      BY <1>0 DEF LettersRise, TypeOK, Letter
    <3>2. \A letter \in lost : letter[2] <= ses[letter[1]].letter
      BY <2>1, <2>2
    <3>q. QED  BY <1>1, <1>2, <2>2, <3>1, <3>2
  <2>4. \A letter \in cut' : letter[1] \in Session
    BY <1>0, <1>1, <2>2 DEF TypeOK, Letter
  <2>5. \A entry \in stored' :
          entry[1][1] \in Session /\ entry[1][2] <= ses'[entry[1][1]].letter
    BY <1>0, <1>2 DEF LettersRise, TypeOK, Letter
  <2>q. QED  BY <2>1, <2>3, <2>4, <2>5, <1>2 DEF LettersRise, Live
<1>10. DeliveredWhole'
  <2> SUFFICES ASSUME NEW s \in Session, (ses[s].at = "deliver" \/ worker[s] # NoName)',
                      Of(s) \in cut'
               PROVE  FALSE
    BY <1>4 DEF DeliveredWhole
  <2>1. worker[s] # NoName
    BY <1>0, <1>2 DEF Live
  <2>2. Of(s) \in lost
    BY <1>0, <1>1, <2>1 DEF DeliveredWhole
  <2>3. ses[s].at = "data"
    BY <2>2 DEF Of
  <2>q. QED  BY <1>0, <2>1, <2>3 DEF Threads
<1>11. DoneIsStored'
  BY <1>2 DEF DoneIsStored, Live
<1>12. CutNeverStored'
  <2>1. \A entry \in stored : entry[1] \notin lost
    BY <1>0 DEF LettersRise, Of
  <2>q. QED  BY <1>0, <1>1, <2>1 DEF CutNeverStored
<1>13. PermitsAreLive'
  BY DEF Drop, PermitsAreLive
<1>14. OnlyGraceCuts'
  <2>1. CASE grace
    BY <2>1 DEF Drop, OnlyGraceCuts
  <2>2. CASE permits = {}
    BY <1>0, <2>2 DEF Drop, OnlyGraceCuts, PermitsAreLive
  <2>q. QED  BY <2>1, <2>2 DEF Drop, MayStop
<1>q. QED
  BY <1>6, <1>7, <1>8, <1>9, <1>10, <1>11, <1>12, <1>13, <1>14 DEF IInv

(* Signals and clocks touch no connection.                                 *)
LEMMA RestKeeps ==
  ASSUME IInv, UNCHANGED <<ses, worker, stored, acked, cut, permits, aborted>>,
         grace => grace', phase' # "up" \/ phase' = phase, TypeOK'
  PROVE  IInv'
BY DEF IInv, Fits, Threads, LettersRise, DeliveredWhole, DoneIsStored, Of,
       PermitsAreLive, CutNeverStored, OnlyGraceCuts

LEMMA ClockKeeps ==
  ASSUME IInv,
         Change \/ Sigterm \/ GraceEnds \/ StopListening \/ Exit \/ UNCHANGED vars
  PROVE  IInv'
<1>1. TypeOK
  BY DEF IInv
<1>2. CASE Change
  <2>1. TypeOK'
    BY <1>1, <1>2, NameAssumption, LimitAssumption
    DEF TypeOK, Change, SnapshotChanges, OnlySmtp, NoHistory
  <2>q. QED
    BY <1>2, <2>1, RestKeeps DEF Change, SnapshotChanges, OnlySmtp, NoHistory
<1>3. CASE Sigterm \/ GraceEnds \/ StopListening
  <2>1. TypeOK'
    BY <1>1, <1>3 DEF TypeOK, Sigterm, GraceEnds, StopListening, smtpVars
  <2>q. QED
    BY <1>3, <2>1, RestKeeps DEF Sigterm, GraceEnds, StopListening, smtpVars
<1>4. CASE Exit
  <2>1. TypeOK'
    BY <1>1, <1>4 DEF TypeOK, Exit, smtpVars
  <2>q. QED  BY <1>4, <2>1, RestKeeps DEF Exit, smtpVars
<1>5. CASE UNCHANGED vars
  <2>1. TypeOK'
    BY <1>1, <1>5 DEF TypeOK, vars, smtpVars, serveVars
  <2>q. QED  BY <1>5, <2>1, RestKeeps DEF vars, smtpVars, serveVars
<1>q. QED  BY <1>2, <1>3, <1>4, <1>5

-----------------------------------------------------------------------------
(* The theorems                                                            *)

LEMMA InitHolds == Init => IInv
<1> SUFFICES ASSUME Init PROVE IInv
  OBVIOUS
<1>1. /\ ses = [s \in Session |-> NewSession] /\ worker = [s \in Session |-> NoName]
      /\ stored = {} /\ acked = {} /\ cut = {} /\ snap \subseteq Box /\ changes = 0
      /\ permits = {} /\ aborted = {} /\ phase = "up"
      /\ open = TRUE /\ term = FALSE /\ grace = FALSE
  BY NameAssumption DEF Init, InitSmtp, InitServe
<1>2. \A s \in Session : ses[s] = NewSession
  BY <1>1
<1>3. TypeOK
  <2>1. ses \in [Session -> SessionState] /\ worker \in [Session -> Name \cup {NoName}]
    BY <1>1, NewSessionIs
  <2>2. changes \in 0..MaxChanges
    BY <1>1, LimitAssumption
  <2>q. QED  BY <1>1, <2>1, <2>2 DEF TypeOK
<1>4. Fits /\ Threads /\ LettersRise /\ DeliveredWhole /\ DoneIsStored
  BY <1>1, <1>2, NewSessionIs DEF Fits, Threads, LettersRise, DeliveredWhole, DoneIsStored
<1>5. PermitsAreLive /\ CutNeverStored /\ OnlyGraceCuts
  BY <1>1, <1>2, NewSessionIs DEF PermitsAreLive, CutNeverStored, OnlyGraceCuts, Live
<1>q. QED  BY <1>3, <1>4, <1>5 DEF IInv

LEMMA NextKeeps == IInv /\ [Next]_vars => IInv'
BY AcceptKeeps, RejectKeeps, StepKeeps, TimeOutKeeps, WorkKeeps, DropKeeps, ClockKeeps
DEF Next

(* IInv holds in every reachable state: the steps of SmtpServer::run and   *)
(* SmtpSession::handle keep it.                                            *)
THEOREM Invariant == Spec => []IInv
BY InitHolds, NextKeeps, PTL DEF Spec

(* The variables stay in their sets, and the counters of a connection in   *)
(* their limits (SmtpSession).                                             *)
THEOREM TypeCorrect == Spec => []TypeOK
<1>1. IInv => TypeOK
  BY DEF IInv
<1>q. QED  BY Invariant, <1>1, PTL

(* A letter goes to the recipients the client was told 250 for, since its  *)
(* last MAIL and on this side of STARTTLS (reset_transaction).             *)
THEOREM RecipientsAgreed == Spec => []NoStrayRecipient
<1>1. IInv => NoStrayRecipient
  BY DEF IInv, Fits, Fit, NoStrayRecipient
<1>q. QED  BY Invariant, <1>1, PTL

(* Of a letter receive_data gave up on nothing is ever stored.             *)
THEOREM CutStaysOut == Spec => []CutNeverStored
<1>1. IInv => CutNeverStored
  BY DEF IInv
<1>q. QED  BY Invariant, <1>1, PTL

(* SmtpServer::run drops a live connection only after the grace period.    *)
THEOREM GraceFirst == Spec => []OnlyGraceCuts
<1>1. IInv => OnlyGraceCuts
  BY DEF IInv
<1>q. QED  BY Invariant, <1>1, PTL

(* 250 after a letter: every recipient has it in the mailbox the snapshot  *)
(* of deliver_message routed it to.                                        *)
THEOREM AckTruthful == Spec => AckedIsStored
<1>1. IInv /\ [Next]_vars =>
        [\A a \in acked' \ acked :
           <<a[1], Route(ses[a[1][1]].view, a[2])>> \in stored]_vars
  <2> SUFFICES ASSUME IInv, Next, NEW a \in acked' \ acked
               PROVE  <<a[1], Route(ses[a[1][1]].view, a[2])>> \in stored
    OBVIOUS
  <2>1. PICK s \in Session : Reply(s)
    BY DEF Next, Accept, Reject, Step, TimeOut, Work, Change, Sigterm, GraceEnds, Drop,
           StopListening, Exit, smtpVars, NoHistory, SessionStep, Hello, Mail, Rcpt, Rset,
           Answered, Data, TooMany, Starttls, TlsUp, Leave, LetterEnds, LetterCut,
           DataFails, Ingest, WorkerStep, Stores, Fails, Joined, Deadline, SnapshotChanges
  <2>2. /\ AllGood(ses[s]) /\ \E n \in ses[s].paths : a = <<Of(s), n>>
        /\ ses[s].at = "deliver" /\ ses[s].todo = {}
    BY <2>1 DEF Reply
  <2>3. PICK n \in ses[s].paths : a = <<Of(s), n>>
    BY <2>2
  <2>4. <<Of(s), Route(ses[s].view, n)>> \in stored
    BY <2>2 DEF IInv, DoneIsStored, AllGood
  <2>5. a[1] = Of(s) /\ a[1][1] = s /\ a[2] = n
    BY <2>3 DEF Of
  <2>q. QED  BY <2>4, <2>5
<1>q. QED  BY Invariant, <1>1, PTL DEF Spec, AckedIsStored

-----------------------------------------------------------------------------
(* The port check.  A verdict is worth what the lines it was made from are *)
(* worth: before the other end has answered EHLO, in this check, nothing   *)
(* but banners can be on the way to the caller, and nothing of a call      *)
(* outlives its leg.                                                       *)

USE DEF Verifier!Way, Verifier!None, Verifier!At

Banner == {"220", "554"}
Line == {"220", "554", "250-", "250 "}
Talking ==
  [cli: {"none", "banner", "ehlo", "yes", "no"}, srv: {"none", "greet", "serve", "filter", "gone"},
   up: Seq({"EHLO"}), down: Seq(Line)]

Kind == {"none", "portcheck", "setup", "shell"}
Port == {"free", "aimx", "other", "probe", "script", "skip"}
Stop == {"idle", "detect", "bind", "out", "in", "down"}
Told == {"none", "ready", "half", "failed", "occupied", "error"}
Commanding ==
  [kind: Kind, at: Stop, port: Port, pass: [Verifier!Way -> BOOLEAN], told: Told]

ProbeTypes ==
  /\ holder \in Verifier!Holder
  /\ cmd \in Commanding
  /\ call \in [Verifier!Way -> Talking]
  /\ http \in {"none", "asked", "yes", "no"}
  /\ answered \in SUBSET Verifier!Way

NothingLeft ==
  /\ \A w \in Verifier!Way : call[w] # Verifier!NoCall => cmd.at = w
  /\ http # "none" => cmd.at = "in"

OnlyAnswersPass ==
  \A w \in Verifier!Way :
    w \notin answered =>
      /\ cmd.pass[w] = FALSE
      /\ call[w].cli # "yes" /\ call[w].down \in Seq(Banner)
      /\ w = "in" => http # "yes"

ProbeInv == ProbeTypes /\ NothingLeft /\ OnlyAnswersPass

LEMMA EmptyCall ==
  Verifier!NoCall \in Talking /\ Verifier!NoCall.down \in Seq(Banner) /\ Verifier!NoCall.cli = "none"
BY DEF Verifier!NoCall, Talking

LEMMA EmptyCmd ==
  /\ Verifier!NoCmd \in Commanding
  /\ \A w \in Verifier!Way : Verifier!NoCmd.pass[w] = FALSE
  /\ Verifier!NoCmd.at = "idle" /\ Verifier!NoCmd.told = "none"
<1> DEFINE none == [w \in Verifier!Way |-> FALSE]
<1>1. none \in [Verifier!Way -> BOOLEAN] /\ \A w \in Verifier!Way : none[w] = FALSE
  OBVIOUS
<1>2. Verifier!NoCmd = [kind |-> "none", at |-> "idle", port |-> "free", pass |-> none, told |-> "none"]
  BY DEF Verifier!NoCmd
<1> HIDE DEF none
<1>3. Verifier!NoCmd \in Commanding
  BY <1>1, <1>2 DEF Commanding, Kind, Stop, Port, Told
<1>4. Verifier!NoCmd.pass = none /\ Verifier!NoCmd.at = "idle" /\ Verifier!NoCmd.told = "none"
  BY <1>2
<1>5. QED
  BY <1>1, <1>3, <1>4

LEMMA InitProbe == MCInit => ProbeInv
<1> SUFFICES ASSUME MCInit
             PROVE  ProbeInv
  OBVIOUS
<1>1. holder \in Verifier!Holder /\ cmd = Verifier!NoCmd /\ call = [w \in Verifier!Way |-> Verifier!NoCall]
      /\ http = "none" /\ answered = {}
  BY DEF MCInit, Verifier!Init, Verifier!Holder
<1>2. QED
  BY <1>1, EmptyCall, EmptyCmd DEF ProbeInv, ProbeTypes, NothingLeft, OnlyAnswersPass

(* What has to be shown of a step that changes call w, or the request that *)
(* has it made.                                                            *)
LEMMA OneCall ==
  ASSUME ProbeInv, NEW w \in Verifier!Way, NEW c \in Talking,
         call' = [call EXCEPT ![w] = c], cmd' = cmd, holder' \in Verifier!Holder,
         answered' \in {answered, answered \cup {w}},
         http' = http \/ (w = "in" /\ cmd.at = "in" /\ http' \in {"yes", "no"}),
         c = Verifier!NoCall \/ cmd.at = w,
         w \notin answered' => c.cli # "yes" /\ c.down \in Seq(Banner) /\ (w = "in" => http' # "yes")
  PROVE  ProbeInv'
<1> USE DEF ProbeInv, ProbeTypes
<1>1. ProbeTypes'
  OBVIOUS
<1>2. NothingLeft'
  BY DEF NothingLeft
<1>3. OnlyAnswersPass'
  BY DEF OnlyAnswersPass
<1>4. QED
  BY <1>1, <1>2, <1>3

(* Lines follow each other.                                                *)
LEMMA Lines ==
  ASSUME NEW s \in Seq(Line), NEW t \in Seq(Line)
  PROVE  /\ s \o t \in Seq(Line)
         /\ s \in Seq(Banner) /\ t \in Seq(Banner) => s \o t \in Seq(Banner)
         /\ s # <<>> => /\ Tail(s) \in Seq(Line) /\ Head(s) \in Line
                        /\ s \in Seq(Banner) => Tail(s) \in Seq(Banner) /\ Head(s) \in Banner
<1>1. s \o t \in Seq(Line) /\ (s \in Seq(Banner) /\ t \in Seq(Banner) => s \o t \in Seq(Banner))
  OBVIOUS
<1>2. s # <<>> => Tail(s) \in Seq(Line) /\ Head(s) \in Line
  OBVIOUS
<1>3. s # <<>> /\ s \in Seq(Banner) => Tail(s) \in Seq(Banner) /\ Head(s) \in Banner
  OBVIOUS
<1>4. QED
  BY <1>1, <1>2, <1>3

LEMMA Rest == ASSUME NEW S, NEW s \in Seq(S), s # <<>> PROVE Tail(s) \in Seq(S)
OBVIOUS

LEMMA Pieces ==
  /\ \A x \in Line : <<x>> \in Seq(Line)
  /\ \A x \in Banner : <<x>> \in Seq(Banner)
  /\ <<>> \in Seq(Line) /\ <<>> \in Seq(Banner) /\ <<>> \in Seq({"EHLO"})
  /\ <<"250-", "250 ">> \in Seq(Line)
<1>1. \A x \in Line : <<x>> \in Seq(Line)
  OBVIOUS
<1>2. \A x \in Banner : <<x>> \in Seq(Banner)
  OBVIOUS
<1>3. \A x, y \in Line : <<x, y>> \in Seq(Line)
  OBVIOUS
<1>4. "250-" \in Line /\ "250 " \in Line
  BY DEF Line
<1>5. <<"250-", "250 ">> \in Seq(Line)
  BY <1>3, <1>4
<1>6. <<>> \in Seq(Line) /\ <<>> \in Seq(Banner) /\ <<>> \in Seq({"EHLO"})
  OBVIOUS
<1>7. QED
  BY <1>1, <1>2, <1>5, <1>6

(* The end that is called, or a filter in its place.                       *)
LEMMA CalledKeeps ==
  ASSUME ProbeInv, NEW w \in Verifier!Way,
         \/ Verifier!Greet(w) \/ Verifier!Serve(w) \/ Verifier!Close(w) \/ Verifier!Filter(w)
         \/ Verifier!Cut(w)
  PROVE  ProbeInv'
<1> DEFINE c == call[w]
           d == call'[w]
<1> USE DEF Talking
<1>1. /\ holder \in Verifier!Holder /\ c \in Talking /\ call \in [Verifier!Way -> Talking]
      /\ c # Verifier!NoCall => cmd.at = w
      /\ w \notin answered => c.cli # "yes" /\ c.down \in Seq(Banner) /\ (w = "in" => http # "yes")
  BY DEF ProbeInv, ProbeTypes, NothingLeft, OnlyAnswersPass
<1>2. c.srv # "none" /\ cmd' = cmd /\ holder' = holder /\ http' = http /\ call' = [call EXCEPT ![w] = d]
  BY <1>1 DEF Verifier!Greet, Verifier!Serve, Verifier!Close, Verifier!Filter, Verifier!Cut,
     Verifier!Reply, Verifier!Serving
<1>3. cmd.at = w
  BY <1>1, <1>2 DEF Verifier!NoCall
<1>4. CASE Verifier!Serve(w)
  <2>1. PICK t \in {<<"250-", "250 ">>, <<"250 ">>} :
          d = [c EXCEPT !.up = Tail(@), !.down = @ \o t]
    BY <1>1, <1>4 DEF Verifier!Serve
  <2>2. t \in Seq(Line)
    BY Pieces DEF Line
  <2>3. Tail(c.up) \in Seq({"EHLO"})
    <3>1. c.up # <<>>
      BY <1>4 DEF Verifier!Serve
    <3>2. c.up \in Seq({"EHLO"})
      BY <1>1
    <3> HIDE DEF c
    <3>3. QED
      BY <3>1, <3>2, Rest
  <2>4. c.down \o t \in Seq(Line)
    BY <1>1, <2>2, Lines
  <2>5. d \in Talking
    BY <1>1, <2>1, <2>3, <2>4
  <2>6. answered' = answered \cup {w}
    BY <1>4 DEF Verifier!Serve
  <2>7. holder' \in Verifier!Holder /\ w \in answered'
    BY <1>1, <1>2, <2>6
  <2> HIDE DEF c, d
  <2>8. QED
    BY <1>2, <1>3, <2>5, <2>6, <2>7, OneCall
(* All others leave the answers alone; what they say is a banner.          *)
<1>5. ASSUME answered' = answered, d \in Talking, d.cli = c.cli,
             NEW t \in {<<>>, <<"220">>, <<"554">>}, d.down \in {c.down, <<>>, c.down \o t}
      PROVE  ProbeInv'
  <2>1. t \in Seq(Banner) /\ t \in Seq(Line)
    BY Pieces DEF Banner, Line
  <2>2. w \notin answered => d.down \in Seq(Banner)
    <3>1. w \notin answered => c.down \in Seq(Banner) /\ c.down \o t \in Seq(Banner)
      BY <1>1, <2>1, Lines
    <3>2. QED
      BY <1>5, <3>1, Pieces
  <2>3. QED
    BY <1>1, <1>2, <1>3, <1>5, <2>2, OneCall
<1>6. \A t \in {<<>>, <<"220">>, <<"554">>} : c.down \o t \in Seq(Line)
  <2>1. \A t \in {<<>>, <<"220">>, <<"554">>} : t \in Seq(Line)
    BY Pieces DEF Line
  <2>2. c.down \in Seq(Line)
    BY <1>1
  <2>3. QED
    BY <2>1, <2>2, Lines
<1>7. CASE Verifier!Greet(w)
  <2>1. d = [c EXCEPT !.down = @ \o <<"220">>, !.srv = "serve"] /\ answered' = answered
    BY <1>1, <1>7 DEF Verifier!Greet, Verifier!Reply
  <2>2. d \in Talking /\ d.cli = c.cli /\ d.down = c.down \o <<"220">>
    BY <1>1, <1>6, <2>1
  <2>3. QED
    BY <1>5, <2>1, <2>2
<1>8. CASE Verifier!Close(w)
  <2>1. d = [c EXCEPT !.srv = "gone"] /\ answered' = answered
    BY <1>1, <1>8 DEF Verifier!Close
  <2>2. d \in Talking /\ d.cli = c.cli /\ d.down = c.down
    BY <1>1, <2>1
  <2>3. QED
    BY <1>5, <2>1, <2>2
<1>9. CASE Verifier!Cut(w)
  <2>1. d = [c EXCEPT !.srv = "gone", !.up = <<>>, !.down = <<>>] /\ answered' = answered
    BY <1>1, <1>9 DEF Verifier!Cut
  <2>2. d \in Talking /\ d.cli = c.cli /\ d.down = <<>>
    BY <1>1, <2>1, Pieces
  <2>3. QED
    BY <1>5, <2>1, <2>2
<1>10. CASE Verifier!Filter(w)
  <2>1. answered' = answered
    BY <1>10 DEF Verifier!Filter
  <2>2. CASE c.up # <<>> /\ call' = [call EXCEPT ![w].up = Tail(@), ![w].down = Append(@, "554")]
    <3>1. d = [c EXCEPT !.up = Tail(c.up), !.down = Append(c.down, "554")]
      BY <1>1, <2>2
    <3>2. Tail(c.up) \in Seq({"EHLO"}) /\ Append(c.down, "554") = c.down \o <<"554">>
      BY <1>1, <2>2
    <3>3. d \in Talking /\ d.cli = c.cli /\ d.down = c.down \o <<"554">>
      BY <1>1, <1>6, <3>1, <3>2
    <3>4. QED
      BY <1>5, <2>1, <3>3
  <2>3. ASSUME NEW t \in {<<>>, <<"220">>, <<"554">>}, NEW srv \in {"filter", "gone"},
               Verifier!Reply(w, t, srv)
        PROVE  ProbeInv'
    <3>1. d = [c EXCEPT !.down = c.down \o t, !.srv = srv]
      BY <1>1, <2>3 DEF Verifier!Reply
    <3>2. d \in Talking /\ d.cli = c.cli /\ d.down = c.down \o t
      BY <1>1, <1>6, <2>3, <3>1
    <3>3. QED
      BY <1>5, <2>1, <3>2
  <2>4. QED
    BY <1>10, <2>2, <2>3 DEF Verifier!Filter
<1>11. QED
  BY <1>4, <1>7, <1>8, <1>9, <1>10

(* The end that calls.                                                     *)
LEMMA CallerKeeps ==
  ASSUME ProbeInv, NEW w \in Verifier!Way,
         Verifier!Dial(w) \/ Verifier!Hear(w) \/ Verifier!GiveUp(w)
  PROVE  ProbeInv'
<1> DEFINE c == call[w]
<1> USE DEF Talking
<1>1. /\ holder \in Verifier!Holder /\ c \in Talking /\ call \in [Verifier!Way -> Talking]
      /\ w \notin answered => c.cli # "yes" /\ c.down \in Seq(Banner) /\ (w = "in" => http # "yes")
  BY DEF ProbeInv, ProbeTypes, NothingLeft, OnlyAnswersPass
<1>2. cmd' = cmd /\ holder' = holder /\ answered' = answered /\ cmd.at = w
  BY DEF Verifier!Dial, Verifier!Hear, Verifier!GiveUp, Verifier!Calling, ProbeInv, NothingLeft
(* A verdict is made of what was answered.                                 *)
<1>3. ASSUME NEW v \in {"yes", "no"}, Verifier!Verdict(w, v), v = "yes" => w \in answered
      PROVE  ProbeInv'
  <2>1. CASE w = "out"
    <3>1. [c EXCEPT !.cli = v] \in Talking /\ call' = [call EXCEPT ![w] = [c EXCEPT !.cli = v]]
          /\ http' = http
      BY <1>1, <1>3, <2>1 DEF Verifier!Verdict
    <3>2. QED
      BY <1>1, <1>2, <1>3, <2>1, <3>1, OneCall
  <2>2. CASE w = "in"
    <3>1. call' = [call EXCEPT ![w] = Verifier!NoCall] /\ http' = v
      BY <1>3, <2>2 DEF Verifier!Verdict
    <3>2. holder' \in Verifier!Holder /\ (w \notin answered' => http' # "yes")
      BY <1>1, <1>2, <1>3, <3>1
    <3>3. Verifier!NoCall.cli # "yes"
      BY EmptyCall
    <3> HIDE DEF c
    <3>4. QED
      BY <1>2, <2>2, <3>1, <3>2, <3>3, EmptyCall, OneCall
  <2>3. QED
    BY <2>1, <2>2
<1>4. CASE Verifier!GiveUp(w)
  BY <1>3, <1>4 DEF Verifier!GiveUp
<1>5. CASE Verifier!Dial(w)
  <2>1. ASSUME NEW srv \in {"filter", "greet", "gone"},
               call' = [call EXCEPT ![w] = [Verifier!NoCall EXCEPT !.cli = "banner", !.srv = srv]],
               http' = http
        PROVE  ProbeInv'
    <3> DEFINE d == [Verifier!NoCall EXCEPT !.cli = "banner", !.srv = srv]
    <3>1. d \in Talking /\ d.down \in Seq(Banner) /\ d.cli = "banner"
      BY EmptyCall
    <3>2. holder' \in Verifier!Holder /\ (w \notin answered' => (w = "in" => http' # "yes"))
      BY <1>1, <1>2, <2>1
    <3> HIDE DEF c, d
    <3>3. call' = [call EXCEPT ![w] = d] /\ http' = http
      BY <2>1 DEF d
    <3>4. QED
      BY <1>2, <3>1, <3>2, <3>3, OneCall
  <2>2. CASE Verifier!Verdict(w, "no")
    BY <1>3, <2>2
  <2>3. QED
    BY <1>5, <2>1, <2>2 DEF Verifier!Dial
<1>6. CASE Verifier!Hear(w)
  <2> DEFINE line == IF c.down = <<>> THEN "" ELSE Head(c.down)
  <2>1. line \in {"250-", "250 "} => w \in answered
    BY <1>1, Lines DEF Line, Banner
  <2>2. ASSUME c.down # <<>>, http' = http,
               NEW d \in {[c EXCEPT !.cli = "ehlo", !.down = Tail(@), !.up = Append(@, "EHLO")],
                          [c EXCEPT !.down = Tail(@)]},
               call' = [call EXCEPT ![w] = d]
        PROVE  ProbeInv'
    <3>1. Tail(c.down) \in Seq(Line) /\ (c.down \in Seq(Banner) => Tail(c.down) \in Seq(Banner))
      BY <1>1, <2>2, Lines
    <3>2. Append(c.up, "EHLO") \in Seq({"EHLO"})
      BY <1>1
    <3>3. d \in Talking /\ d.down = Tail(c.down) /\ d.cli \in {"ehlo", c.cli}
      BY <1>1, <2>2, <3>1, <3>2
    <3>4. QED
      BY ZenonT(60), <1>1, <1>2, <2>2, <3>1, <3>3, OneCall
  <2>3. CASE line = "220" /\ http' = http
             /\ call' = [call EXCEPT ![w].cli = "ehlo", ![w].down = Tail(@), ![w].up = Append(@, "EHLO")]
    <3>1. call' = [call EXCEPT ![w] =
                     [c EXCEPT !.cli = "ehlo", !.down = Tail(@), !.up = Append(@, "EHLO")]]
      BY <1>1, <2>3
    <3>2. QED
      BY <2>2, <2>3, <3>1
  <2>4. CASE line = "250-" /\ http' = http /\ call' = [call EXCEPT ![w].down = Tail(@)]
    <3>1. call' = [call EXCEPT ![w] = [c EXCEPT !.down = Tail(@)]]
      BY <1>1, <2>4
    <3>2. QED
      BY <2>2, <2>4, <3>1
  <2>5. CASE line = "250 " /\ Verifier!Verdict(w, "yes")
    BY <1>3, <2>1, <2>5
  <2>6. CASE Verifier!Verdict(w, "no")
    BY <1>3, <2>6
  <2>7. QED
    BY <1>6, <2>3, <2>4, <2>5, <2>6 DEF Verifier!Hear
<1>7. QED
  BY <1>4, <1>5, <1>6

(* The command.                                                            *)
LEMMA CheckKeeps ==
  ASSUME ProbeInv,
         \/ \E kind \in {"portcheck", "setup", "shell"} : Verifier!Begin(kind)
         \/ Verifier!Command \/ Verifier!InLost \/ Verifier!Kill \/ Verifier!DaemonTurns
  PROVE  ProbeInv'
<1> USE DEF ProbeInv, ProbeTypes
(* Between the legs no call is left, and only the command changes.         *)
<1>1. ASSUME cmd.at \notin Verifier!Way, cmd' \in Commanding, UNCHANGED <<call, http>>,
             holder' \in Verifier!Holder,
             \A w \in Verifier!Way : cmd'.pass[w] \in {FALSE, cmd.pass[w]},
             answered' = answered \/ (answered' = {} /\ \A w \in Verifier!Way : cmd'.pass[w] = FALSE)
      PROVE  ProbeInv'
  <2>1. (\A w \in Verifier!Way : call[w] = Verifier!NoCall) /\ http = "none"
    BY <1>1 DEF NothingLeft
  <2>2. NothingLeft'
    BY <1>1, <2>1 DEF NothingLeft
  <2>3. OnlyAnswersPass'
    BY <1>1, <2>1, EmptyCall DEF OnlyAnswersPass
  <2>4. QED
    BY <1>1, <2>2, <2>3
<1>2. ASSUME NEW told \in Told, Verifier!Finish(told)
      PROVE  cmd' \in Commanding /\ \A w \in Verifier!Way : cmd'.pass[w] = FALSE
  BY <1>2, EmptyCmd DEF Verifier!Finish, Commanding
<1>3. ASSUME NEW at \in Stop, NEW port \in Port, cmd' = [cmd EXCEPT !.port = port, !.at = at]
      PROVE  cmd' \in Commanding /\ \A w \in Verifier!Way : cmd'.pass[w] = cmd.pass[w]
  BY <1>3 DEF Commanding
<1>4. ASSUME NEW at \in Stop, Verifier!Goto(at)
      PROVE  cmd' \in Commanding /\ \A w \in Verifier!Way : cmd'.pass[w] = cmd.pass[w]
  BY <1>4 DEF Verifier!Goto, Commanding
<1>5. ASSUME NEW w \in Verifier!Way, NEW v \in BOOLEAN, NEW at \in Stop, Verifier!Leg(w, v, at),
             cmd.at = w, v = TRUE => w \in answered, http' = "none", UNCHANGED <<holder, answered>>,
             w = "out" => http = "none"
      PROVE  ProbeInv'
  <2>1. /\ cmd' \in Commanding /\ cmd'.pass[w] = v
        /\ \A u \in Verifier!Way \ {w} : cmd'.pass[u] = cmd.pass[u]
    BY <1>5 DEF Verifier!Leg, Commanding
  <2>2. \A u \in Verifier!Way : call'[u] = Verifier!NoCall
    BY <1>5 DEF Verifier!Leg, NothingLeft
  <2>3. call' \in [Verifier!Way -> Talking]
    BY <1>5, EmptyCall DEF Verifier!Leg
  <2>4. OnlyAnswersPass'
    BY <1>5, <2>1, <2>2, EmptyCall DEF OnlyAnswersPass
  <2>5. QED
    BY <1>5, <2>1, <2>2, <2>3, <2>4 DEF NothingLeft
<1>6. CASE \E kind \in {"portcheck", "setup", "shell"} : Verifier!Begin(kind)
  <2>1. PICK kind \in Kind, at \in Stop : cmd' = [Verifier!NoCmd EXCEPT !.kind = kind, !.at = at]
    BY <1>6 DEF Verifier!Begin, Kind, Stop
  <2>2. cmd' \in Commanding /\ \A w \in Verifier!Way : cmd'.pass[w] = FALSE
    BY <2>1, EmptyCmd DEF Commanding
  <2>3. QED
    BY <1>1, <1>6, <2>2 DEF Verifier!Begin
<1>7. CASE Verifier!Detect \/ Verifier!ShellDetect
  <2>1. UNCHANGED <<call, http, answered>> /\ holder' \in Verifier!Holder /\ cmd.at \notin Verifier!Way
    BY <1>7 DEF Verifier!Detect, Verifier!ShellDetect
  <2>2. CASE \E told \in Told : Verifier!Finish(told)
    BY <1>1, <1>2, <2>1, <2>2
  <2>3. CASE \E at \in Stop, port \in Port : cmd' = [cmd EXCEPT !.port = port, !.at = at]
    BY <1>1, <1>3, <2>1, <2>3
  <2>4. QED
    BY <1>7, <2>2, <2>3 DEF Verifier!Detect, Verifier!ShellDetect, Verifier!Holder, Stop, Port, Told
<1>8. CASE Verifier!Bind \/ Verifier!ShellBind
  <2>1. UNCHANGED <<call, http, answered>> /\ holder' \in Verifier!Holder /\ cmd.at \notin Verifier!Way
    BY <1>8 DEF Verifier!Bind, Verifier!ShellBind, Verifier!Holder
  <2>2. CASE Verifier!Finish("error")
    BY <1>1, <1>2, <2>1, <2>2 DEF Told
  <2>3. CASE \E at \in Stop : Verifier!Goto(at)
    BY <1>1, <1>4, <2>1, <2>3
  <2>4. QED
    BY <1>8, <2>2, <2>3 DEF Verifier!Bind, Verifier!ShellBind, Stop
<1>9. CASE Verifier!TearDown
  <2>1. UNCHANGED <<call, http, answered>> /\ holder' \in Verifier!Holder /\ cmd.at \notin Verifier!Way
    BY <1>9 DEF Verifier!TearDown, Verifier!Holder
  <2>2. Verifier!Judged \in Told
    BY DEF Verifier!Judged, Told
  <2>3. QED
    BY <1>1, <1>2, <1>9, <2>1, <2>2 DEF Verifier!TearDown
<1>10. CASE Verifier!OutDone
  <2>1. call["out"].cli = "yes" => "out" \in answered
    BY DEF OnlyAnswersPass
  <2>2. http = "none"
    BY <1>10 DEF Verifier!OutDone, NothingLeft
  <2>3. QED
    BY <1>5, <1>10, <2>1, <2>2 DEF Verifier!OutDone, Stop
<1>11. CASE Verifier!AskProbe \/ Verifier!Refuse
  <2>1. /\ cmd.at = "in" /\ http' \in {"asked", "no"}
        /\ UNCHANGED <<holder, cmd, call, answered>>
    BY <1>11 DEF Verifier!AskProbe, Verifier!Refuse, NothingLeft
  <2>2. QED
    BY <2>1 DEF NothingLeft, OnlyAnswersPass
<1>12. CASE Verifier!InDone
  <2>1. http = "yes" => "in" \in answered
    BY DEF OnlyAnswersPass
  <2>2. QED
    BY <1>5, <1>12, <2>1 DEF Verifier!InDone, Stop
<1>13. CASE Verifier!InLost
  <2>1. cmd.at = "in" /\ answered' = answered /\ holder' = holder /\ http' = "none"
        /\ Verifier!Leg("in", FALSE, "down")
    BY <1>13 DEF Verifier!InLost
  <2>2. QED
    BY <1>5, <2>1 DEF Stop
<1>14. CASE Verifier!Kill
  <2>1. /\ holder' \in Verifier!Holder /\ cmd' = Verifier!NoCmd /\ http' = "none" /\ answered' = answered
        /\ call' = [w \in Verifier!Way |-> Verifier!NoCall]
    BY <1>14 DEF Verifier!Kill, Verifier!Holder
  <2>2. ProbeTypes' /\ NothingLeft' /\ OnlyAnswersPass'
    BY <2>1, EmptyCmd, EmptyCall DEF NothingLeft, OnlyAnswersPass
  <2>3. QED
    BY <2>2
<1>15. CASE Verifier!DaemonTurns
  <2>1. UNCHANGED <<cmd, http, answered>> /\ holder' \in Verifier!Holder
    BY <1>15 DEF Verifier!DaemonTurns, Verifier!Holder
  <2>2. CASE call' = call
    BY <2>1, <2>2 DEF NothingLeft, OnlyAnswersPass
  <2>3. CASE Verifier!Serving("in")
             /\ call' = [call EXCEPT !["in"].srv = "gone", !["in"].up = <<>>, !["in"].down = <<>>]
    <3> DEFINE c == call["in"]
               d == [c EXCEPT !.srv = "gone", !.up = <<>>, !.down = <<>>]
    <3>1. c \in Talking /\ call' = [call EXCEPT !["in"] = d]
      BY <2>3
    <3>2. d \in Talking /\ d.cli = c.cli /\ d.down = <<>>
      BY <3>1, Pieces DEF Talking
    <3>3. cmd.at = "in"
      BY <2>3 DEF Verifier!Serving, Verifier!NoCall, NothingLeft
    <3>4. "in" \notin answered => d.cli # "yes" /\ http # "yes" /\ d.down \in Seq(Banner)
      BY <3>2 DEF OnlyAnswersPass
    <3> HIDE DEF d
    <3>5. QED
      BY <2>1, <3>1, <3>2, <3>3, <3>4, OneCall
  <2>4. QED
    BY <1>15, <2>2, <2>3 DEF Verifier!DaemonTurns
<1>16. QED
  BY <1>6, <1>7, <1>8, <1>9, <1>10, <1>11, <1>12, <1>13, <1>14, <1>15 DEF Verifier!Command

LEMMA ProbeKeeps == ProbeInv /\ [MCNext]_MCVars => ProbeInv'
<1> SUFFICES ASSUME ProbeInv, [MCNext]_MCVars
             PROVE  ProbeInv'
  OBVIOUS
<1>1. CASE UNCHANGED <<cmd, call, http, answered>> /\ holder' \in Verifier!Holder
  BY <1>1 DEF ProbeInv, ProbeTypes, NothingLeft, OnlyAnswersPass
<1>2. CASE Verifier!Next
  <2>1. CASE Verifier!GuestEnds \/ Verifier!Stranger \/ Verifier!ListenerExpires \/ Verifier!PathTurns
    BY <1>1, <2>1 DEF Verifier!GuestEnds, Verifier!Stranger, Verifier!ListenerExpires,
       Verifier!PathTurns, Verifier!Holder, ProbeInv, ProbeTypes
  <2>2. QED
    BY <1>2, <2>1, CalledKeeps, CallerKeeps, CheckKeeps DEF Verifier!Next, Verifier!Talk
<1>3. QED
  BY <1>1, <1>2 DEF MCNext, MCVars, verifierVars, ProbeInv, ProbeTypes

(* "Port 25 reachable" is only said of a check in which both ends have     *)
(* answered: whatever the network, a filter, a full verifier or another    *)
(* holder of the port do, no line of theirs takes the place of an answer.  *)
THEOREM ReachableIsTrue == MCSpec => PassedMeansReached
<1> DEFINE Says == cmd'.told = "ready" /\ cmd.told # "ready"
<1>1. ASSUME ProbeInv, [MCNext]_MCVars, Says
      PROVE  answered = Verifier!Way
  <2>1. Verifier!Next /\ cmd' # cmd
    BY <1>1 DEF MCNext, MCVars, verifierVars
(* Moving on says nothing, and a check that stops early never says this.   *)
  <2>2. /\ \A place : ~Verifier!Goto(place)
        /\ \A port, place : ~(cmd' = [cmd EXCEPT !.port = port, !.at = place])
        /\ \A told \in Told \ {"ready"} : ~Verifier!Finish(told)
        /\ ~Verifier!Finish("occupied") /\ ~Verifier!Finish("error")
        /\ \A at : \A w \in Verifier!Way, v \in BOOLEAN : ~Verifier!Leg(w, v, at)
    <3>1. cmd \in Commanding /\ cmd'.told = "ready" /\ cmd.told # "ready"
      BY <1>1 DEF ProbeInv, ProbeTypes
    <3>2. \A place : ~Verifier!Goto(place)
      BY <3>1 DEF Verifier!Goto, Commanding
    <3>3. \A port, place : ~(cmd' = [cmd EXCEPT !.port = port, !.at = place])
      BY <3>1 DEF Commanding
    <3>4. \A told : told # "ready" => ~Verifier!Finish(told)
      BY <3>1, EmptyCmd DEF Verifier!Finish, Commanding
    <3>5. \A at : \A w \in Verifier!Way, v \in BOOLEAN : ~Verifier!Leg(w, v, at)
      BY <3>1 DEF Verifier!Leg, Commanding
    <3>6. QED
      BY <3>2, <3>3, <3>4, <3>5
  <2>3. Verifier!TearDown
    <3>1. ~(\E kind \in {"portcheck", "setup", "shell"} : Verifier!Begin(kind))
      BY <1>1 DEF Verifier!Begin, Verifier!NoCmd
    <3>2. ~Verifier!Detect /\ ~Verifier!ShellDetect
      BY <2>2 DEF Verifier!Detect, Verifier!ShellDetect
    <3>3. ~Verifier!Bind /\ ~Verifier!ShellBind
      BY <2>2 DEF Verifier!Bind, Verifier!ShellBind
    <3>4. ~Verifier!OutDone /\ ~Verifier!InDone /\ ~Verifier!InLost
      BY <2>2 DEF Verifier!OutDone, Verifier!InDone, Verifier!InLost
    <3>5. ~Verifier!Kill
      BY <1>1 DEF Verifier!Kill, Verifier!NoCmd
    <3>6. \A w \in Verifier!Way : ~Verifier!Talk(w) /\ ~Verifier!Cut(w)
      BY <2>1 DEF Verifier!Talk, Verifier!Cut, Verifier!Dial, Verifier!Hear, Verifier!GiveUp,
         Verifier!Greet, Verifier!Serve, Verifier!Close, Verifier!Filter
    <3>7. ~Verifier!AskProbe /\ ~Verifier!Refuse /\ ~Verifier!GuestEnds /\ ~Verifier!Stranger
          /\ ~Verifier!ListenerExpires /\ ~Verifier!DaemonTurns /\ ~Verifier!PathTurns
      BY <2>1 DEF Verifier!AskProbe, Verifier!Refuse, Verifier!GuestEnds, Verifier!Stranger,
         Verifier!ListenerExpires, Verifier!DaemonTurns, Verifier!PathTurns
    <3>8. QED
      BY <2>1, <3>1, <3>2, <3>3, <3>4, <3>5, <3>6, <3>7 DEF Verifier!Next, Verifier!Command
  <2>4. \A w \in Verifier!Way : cmd.pass[w]
    BY <1>1, <2>3 DEF Verifier!TearDown, Verifier!Finish, Verifier!Judged, Verifier!NoCmd
  <2>5. QED
    BY <1>1, <2>4 DEF ProbeInv, ProbeTypes, OnlyAnswersPass
<1>2. ProbeInv /\ [MCNext]_MCVars =>
        [cmd'.told = "ready" /\ cmd.told # "ready" => answered = Verifier!Way]_(Verifier!vars)
  BY <1>1
<1>3. QED
  BY <1>2, InitProbe, ProbeKeeps, PTL DEF MCSpec, PassedMeansReached, Verifier!PassedMeansReached
=============================================================================
