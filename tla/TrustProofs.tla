---------------------------- MODULE TrustProofs ----------------------------
(***************************************************************************)
(* Proof, for every set of letters, senders, patterns, hooks and files an  *)
(* operator may write, that a letter is judged, and its hooks are chosen,  *)
(* by one configuration that was in force while it was handled             *)
(* (HooksAsJudged).                                                        *)
(*                                                                         *)
(* The configuration is the snapshot that TakeData or TakeStdin made.  It  *)
(* alone would not do: that a verdict other than "none" was one of a       *)
(* policy that verifies needs what every configuration in force has, trust *)
(* values that validate_trust_values let pass (Valid below); HOOK-CREATE,  *)
(* which does not call it, keeps them because it changes hooks only.       *)
(***************************************************************************)
EXTENDS Trust, TLAPS

Place == {"none", "taken", "judged", "stored", "firing", "done", "unfired", "lost"}

Handling ==
  [at: Place, via: {"smtp", "stdin"}, mail: Incoming, snap: MailboxConfig,
   auth: [dkim: Answers, spf: SpfAnswers, dmarc: Answers], trusted: TrustValue,
   left: SUBSET Hooks]

TrustTypeOK ==
  /\ file \in MailboxConfig /\ served \in MailboxConfig
  /\ asked \in SUBSET Hooks
  /\ letter \in [Arrival -> Handling]
  /\ ran \in [Arrival -> SUBSET Hooks]
  /\ was \in [Arrival -> SUBSET MailboxConfig]
  /\ edits \in Nat

(* What is known of the handling r of a letter for which the hooks in done *)
(* have run and the configurations in seen were in force.                  *)
Sound(r, done, seen) ==
  /\ r.at # "none" => r.snap \in seen /\ TrustValid(r.snap)
  /\ r.at \notin {"firing", "done", "lost"} => done = {}
  /\ r.at \in {"judged", "stored", "firing", "done", "unfired"} => Meant(r.snap, r)
  /\ r.at = "firing" => done \cup r.left = ToFire(r.snap, r.trusted)
  /\ r.at = "done" => done = ToFire(r.snap, r.trusted)

Valid == TrustValid(served)

LettersSound == \A l \in Arrival : Sound(letter[l], ran[l], was[l])

IInv == TrustTypeOK /\ Valid /\ LettersSound

-----------------------------------------------------------------------------
(* A valid configuration has one of the two policies.                      *)
LEMMA PolicyIsValid ==
  ASSUME NEW c \in MailboxConfig, TrustValid(c)
  PROVE  EffectiveTrust(c) \in ValidTrust
<1>1. CASE c.own = {}
  BY <1>1 DEF EffectiveTrust, TrustValid
<1>2. CASE c.own # {}
  <2>1. (CHOOSE t \in c.own : TRUE) \in c.own
    BY <1>2
  <2> QED
    BY <1>2, <2>1 DEF EffectiveTrust, TrustValid
<1> QED
  BY <1>1, <1>2

(* A valid policy means by a verdict what it should.                       *)
LEMMA VerdictIsMeant ==
  ASSUME NEW c \in MailboxConfig, TrustValid(c), NEW r \in Handling,
         NEW auth \in Auth(r.mail, r.via), NEW s \in Handling,
         s.mail = r.mail, s.auth = auth, s.trusted = EvaluateTrust(c, r.mail, auth)
  PROVE  Meant(c, s)
<1>1. EffectiveTrust(c) \in {"none", "verified"}
  BY PolicyIsValid DEF ValidTrust
<1>2. auth.dkim = "pass" => r.mail.read /\ "pass" \in r.mail.signed
  BY DEF Auth, NoAuth, Dkim
<1>3. CASE EffectiveTrust(c) = "none"
  BY <1>3 DEF EvaluateTrust, Meant
<1>4. CASE EffectiveTrust(c) = "verified" /\ IsTrustedSender(c, r.mail) /\ auth.dkim = "pass"
  <2>1. s.trusted = "true"
    BY <1>4 DEF EvaluateTrust
  <2> QED
    BY <1>2, <1>4, <2>1 DEF Meant
<1>5. CASE EffectiveTrust(c) = "verified" /\ ~(IsTrustedSender(c, r.mail) /\ auth.dkim = "pass")
  <2>1. s.trusted = "false"
    BY <1>5 DEF EvaluateTrust
  <2> QED
    BY <1>5, <2>1 DEF Meant
<1> QED
  BY <1>1, <1>3, <1>4, <1>5

(* The answers of verify_auth, and the verdict, have their types.          *)
LEMMA AuthTyped ==
  ASSUME NEW m \in Incoming, NEW via, NEW auth \in Auth(m, via), NEW c
  PROVE  /\ auth \in [dkim: Answers, spf: SpfAnswers, dmarc: Answers]
         /\ EvaluateTrust(c, m, auth) \in TrustValue
<1>1. auth \in [dkim: Answers, spf: SpfAnswers, dmarc: Answers]
  BY DEF Auth, NoAuth, Dkim, Spf, Dmarc, Answers, SpfAnswers, Incoming
<1>2. EvaluateTrust(c, m, auth) \in TrustValue
  BY DEF EvaluateTrust, TrustValue
<1> QED
  BY <1>1, <1>2

(* Exactly the hooks that are entitled to a verdict are to fire.           *)
LEMMA FiredAreEntitled ==
  ASSUME NEW c, NEW r \in Handling
  PROVE  \A h : h \in ToFire(c, r.trusted) <=> Entitled(c, h, r)
<1>1. ParseTrusted(r.trusted) = "true" <=> r.trusted = "true"
  BY DEF ParseTrusted
<1> QED
  BY <1>1 DEF ToFire, OnReceive, ShouldFire, Entitled

(* What the invariant says of a letter gives what the property asks of it. *)
LEMMA SoundIsJudged == IInv => HooksAsJudged
<1> SUFFICES ASSUME IInv, NEW l \in Arrival,
                    letter[l].at \in {"stored", "firing", "done", "unfired"}
             PROVE  \E c \in was[l] :
                      /\ Meant(c, letter[l])
                      /\ \A h \in ran[l] : Entitled(c, h, letter[l])
                      /\ letter[l].at = "done" =>
                           \A h \in c.hooks : Entitled(c, h, letter[l]) => h \in ran[l]
  BY DEF HooksAsJudged
<1> DEFINE r == letter[l]
           c == r.snap
<1>1. r \in Handling
  BY DEF IInv, TrustTypeOK
<1>2. Sound(r, ran[l], was[l])
  BY DEF IInv, LettersSound
<1>3. c \in was[l] /\ Meant(c, r)
  BY <1>2 DEF Sound
<1>4. \A h : h \in ToFire(c, r.trusted) <=> Entitled(c, h, r)
  BY <1>1, FiredAreEntitled
<1>5. ran[l] \subseteq ToFire(c, r.trusted)
  BY <1>2 DEF Sound
<1>6. r.at = "done" => ran[l] = ToFire(c, r.trusted)
  BY <1>2 DEF Sound
<1> QED
  BY <1>3, <1>4, <1>5, <1>6

-----------------------------------------------------------------------------
LEMMA InitSound == TrustInit => IInv
<1> SUFFICES ASSUME TrustInit PROVE IInv
  OBVIOUS
<1>1. file \in MailboxConfig /\ served \in MailboxConfig /\ TrustValid(served)
  BY TrustAssumption DEF TrustInit, FileLoads
<1>2. Unhandled(served) \in Handling
  BY <1>1 DEF Unhandled, Handling, Place, NoMail, NoAuth, Incoming, Answers, SpfAnswers,
              TrustValue
<1>3. TrustTypeOK
  BY <1>1, <1>2 DEF TrustTypeOK, TrustInit
<1>4. LettersSound
  BY DEF TrustInit, LettersSound, Sound, Unhandled
<1> QED
  BY <1>1, <1>3, <1>4 DEF IInv, Valid

(* A step of one letter that leaves the configurations alone needs only    *)
(* be looked at there.                                                     *)
LEMMA OneLetter ==
  ASSUME IInv, NEW l \in Arrival, NEW r \in Handling, NEW done \in SUBSET Hooks,
         NEW seen \in SUBSET MailboxConfig,
         Advance(l, r), ran' = [ran EXCEPT ![l] = done], was' = [was EXCEPT ![l] = seen],
         UNCHANGED <<file, served, asked, edits>>, Sound(r, done, seen)
  PROVE  IInv'
<1>1. TrustTypeOK'
  BY DEF IInv, TrustTypeOK, Advance
<1>2. Valid'
  BY DEF IInv, Valid, TrustValid
<1>3. ASSUME NEW k \in Arrival PROVE Sound(letter'[k], ran'[k], was'[k])
  <2>1. Sound(letter[k], ran[k], was[k])
    BY DEF IInv, LettersSound
  <2>2. CASE k = l
    BY <2>2 DEF IInv, TrustTypeOK, Advance
  <2>3. CASE k # l
    <3>1. letter'[k] = letter[k] /\ ran'[k] = ran[k] /\ was'[k] = was[k]
      BY <2>3 DEF IInv, TrustTypeOK, Advance
    <3> QED
      BY <2>1, <3>1
  <2> QED
    BY <2>2, <2>3
<1> QED
  BY <1>1, <1>2, <1>3 DEF IInv, LettersSound, Sound, Meant, EffectiveTrust, TrustValid

LEMMA LetterKeepsSound ==
  ASSUME IInv, NEW l \in Arrival, LetterStep(l)
  PROVE  IInv'
<1> DEFINE r == letter[l]
<1>1. /\ r \in Handling /\ ran[l] \in SUBSET Hooks /\ was[l] \in SUBSET MailboxConfig
      /\ ran = [ran EXCEPT ![l] = ran[l]] /\ was = [was EXCEPT ![l] = was[l]]
  BY DEF IInv, TrustTypeOK
<1>2. Sound(r, ran[l], was[l])
  BY DEF IInv, LettersSound
<1>3. ASSUME NEW m \in Mails, NEW via \in {"smtp", "stdin"}, NEW c \in MailboxConfig,
             TrustValid(c), TakeIn(l, m, via, c)
      PROVE  IInv'
  <2> DEFINE s == [Unhandled(c) EXCEPT !.at = "taken", !.via = via, !.mail = m]
  <2>1. s \in Handling
    BY TrustAssumption DEF Unhandled, Handling, Place, NoMail, NoAuth, Incoming, Answers,
                           SpfAnswers, TrustValue
  <2>2. s.at = "taken" /\ s.snap = c
    BY DEF Unhandled
  <2>3. r.at = "none"
    BY <1>3 DEF TakeIn
  <2>4. Sound(s, ran[l], {c})
    BY <1>2, <1>3, <2>2, <2>3 DEF Sound
  <2>5. /\ Advance(l, s) /\ ran' = [ran EXCEPT ![l] = ran[l]]
        /\ was' = [was EXCEPT ![l] = {c}] /\ UNCHANGED <<file, served, asked, edits>>
    BY <1>1, <1>3 DEF TakeIn
  <2>6. {c} \in SUBSET MailboxConfig
    OBVIOUS
  <2> HIDE DEF s
  <2> QED
    BY <1>1, <2>1, <2>4, <2>5, <2>6, OneLetter
<1>4. CASE TakeData(l)
  BY <1>3, <1>4 DEF TakeData, IInv, TrustTypeOK, Valid
<1>5. CASE TakeStdin(l)
  BY <1>3, <1>5 DEF TakeStdin, FileLoads, IInv, TrustTypeOK
<1>6. CASE Judge(l)
  <2>1. PICK auth \in Auth(r.mail, r.via) :
          Advance(l, [r EXCEPT !.at = "judged", !.auth = auth,
                               !.trusted = EvaluateTrust(r.snap, r.mail, auth)])
    BY <1>6 DEF Judge
  <2> DEFINE s == [r EXCEPT !.at = "judged", !.auth = auth,
                            !.trusted = EvaluateTrust(r.snap, r.mail, auth)]
  <2>2. r.at = "taken" /\ UNCHANGED <<file, served, asked, ran, was, edits>>
    BY <1>6 DEF Judge
  <2>3. /\ auth \in [dkim: Answers, spf: SpfAnswers, dmarc: Answers]
        /\ EvaluateTrust(r.snap, r.mail, auth) \in TrustValue
    <3>1. r.mail \in Incoming
      BY <1>1 DEF Handling
    <3> QED
      BY <3>1, AuthTyped
  <2>4. /\ s \in Handling /\ s.at = "judged" /\ s.snap = r.snap /\ s.mail = r.mail
        /\ s.auth = auth /\ s.trusted = EvaluateTrust(r.snap, r.mail, auth)
    BY <1>1, <2>3 DEF Handling, Place
  <2>5. r.snap \in was[l] /\ TrustValid(r.snap) /\ ran[l] = {}
    BY <1>2, <2>2 DEF Sound
  <2>6. r.snap \in MailboxConfig
    BY <1>1 DEF Handling
  <2> HIDE DEF s
  <2>7. Meant(r.snap, s)
    BY <1>1, <2>4, <2>5, <2>6, VerdictIsMeant
  <2>8. Sound(s, ran[l], was[l])
    BY <2>4, <2>5, <2>7 DEF Sound
  <2>9. Advance(l, s)
    BY <2>1 DEF s
  <2> QED
    BY <1>1, <2>2, <2>4, <2>8, <2>9, OneLetter
<1>7. ASSUME NEW at \in {"stored", "lost", "unfired"}, r.at \in {"taken", "judged", "stored"},
             at # "lost" => r.at \in {"judged", "stored"},
             Advance(l, [r EXCEPT !.at = at]), UNCHANGED <<file, served, asked, ran, was, edits>>
      PROVE  IInv'
  <2> DEFINE s == [r EXCEPT !.at = at]
  <2>1. /\ s \in Handling /\ s.at = at /\ s.snap = r.snap /\ s.trusted = r.trusted
        /\ s.mail = r.mail /\ s.auth = r.auth
    BY <1>1, <1>7 DEF Handling, Place
  <2> HIDE DEF s
  <2>2. Sound(s, ran[l], was[l])
    BY <1>2, <1>7, <2>1 DEF Sound, Meant
  <2>3. Advance(l, s)
    BY <1>7 DEF s
  <2> QED
    BY <1>1, <1>7, <2>1, <2>2, <2>3, OneLetter
<1>8. CASE StoreLetter(l)
  BY <1>7, <1>8 DEF StoreLetter
<1>9. CASE GiveUpLetter(l)
  BY <1>7, <1>9 DEF GiveUpLetter
<1>10. CASE SpawnFails(l)
  BY <1>7, <1>10 DEF SpawnFails
<1>11. CASE StartHooks(l)
  <2> DEFINE s == [r EXCEPT !.at = "firing", !.left = ToFire(r.snap, r.trusted)]
  <2>1. r.at = "stored" /\ Advance(l, s) /\ UNCHANGED <<file, served, asked, ran, was, edits>>
    BY <1>11 DEF StartHooks
  <2>2. ToFire(r.snap, r.trusted) \in SUBSET Hooks
    <3>1. r.snap.hooks \in SUBSET Hooks
      BY <1>1 DEF Handling, MailboxConfig
    <3> QED
      BY <3>1 DEF ToFire, OnReceive
  <2>3. /\ s \in Handling /\ s.at = "firing" /\ s.snap = r.snap /\ s.trusted = r.trusted
        /\ s.mail = r.mail /\ s.auth = r.auth /\ s.left = ToFire(r.snap, r.trusted)
    BY <1>1, <2>2 DEF Handling, Place
  <2> HIDE DEF s
  <2>4. Sound(s, ran[l], was[l])
    BY <1>2, <2>1, <2>3 DEF Sound, Meant
  <2> QED
    BY <1>1, <2>1, <2>3, <2>4, OneLetter
<1>12. CASE RunNext(l)
  <2>1. PICK h \in r.left : /\ ran' = [ran EXCEPT ![l] = @ \cup {h}]
                            /\ Advance(l, [r EXCEPT !.left = @ \ {h}])
    BY <1>12 DEF RunNext
  <2> DEFINE s == [r EXCEPT !.left = @ \ {h}]
             done == ran[l] \cup {h}
  <2>2. r.at = "firing" /\ UNCHANGED <<file, served, asked, was, edits>>
    BY <1>12 DEF RunNext
  <2>3. r.left \in SUBSET Hooks
    BY <1>1 DEF Handling
  <2>4. /\ s \in Handling /\ s.at = "firing" /\ s.snap = r.snap /\ s.trusted = r.trusted
        /\ s.mail = r.mail /\ s.auth = r.auth /\ s.left = r.left \ {h}
    BY <1>1, <2>2, <2>3 DEF Handling
  <2>5. done \in SUBSET Hooks /\ ran' = [ran EXCEPT ![l] = done]
    BY <1>1, <2>1, <2>3
  <2>6. done \cup s.left = ran[l] \cup r.left
    BY <2>4
  <2>7. Advance(l, s)
    BY <2>1
  <2> HIDE DEF s, done
  <2>8. Sound(s, done, was[l])
    BY <1>2, <2>2, <2>4, <2>6 DEF Sound, Meant
  <2> QED
    BY <1>1, <2>2, <2>4, <2>5, <2>7, <2>8, OneLetter
<1>13. CASE HooksDone(l)
  <2> DEFINE s == [r EXCEPT !.at = "done"]
  <2>1. /\ r.at = "firing" /\ r.left = {} /\ Advance(l, s)
        /\ UNCHANGED <<file, served, asked, ran, was, edits>>
    BY <1>13 DEF HooksDone
  <2>2. /\ s \in Handling /\ s.at = "done" /\ s.snap = r.snap /\ s.trusted = r.trusted
        /\ s.mail = r.mail /\ s.auth = r.auth
    BY <1>1 DEF Handling, Place
  <2> HIDE DEF s
  <2>3. Sound(s, ran[l], was[l])
    BY <1>2, <2>1, <2>2 DEF Sound, Meant
  <2> QED
    BY <1>1, <2>1, <2>2, <2>3, OneLetter
<1> QED
  BY <1>4, <1>5, <1>6, <1>8, <1>9, <1>10, <1>11, <1>12, <1>13 DEF LetterStep

-----------------------------------------------------------------------------
(* A change of the configuration touches a letter only by what it was      *)
(* handled under, which grows, or by losing it.                            *)
LEMMA ConfigKeepsSound ==
  ASSUME IInv, ConfigStep
  PROVE  IInv'
<1>1. /\ file \in MailboxConfig /\ served \in MailboxConfig /\ asked \in SUBSET Hooks
      /\ letter \in [Arrival -> Handling] /\ was \in [Arrival -> SUBSET MailboxConfig]
      /\ ran \in [Arrival -> SUBSET Hooks] /\ edits \in Nat /\ TrustValid(served)
  BY DEF IInv, TrustTypeOK, Valid
<1>2. \A l \in Arrival : Sound(letter[l], ran[l], was[l])
  BY DEF IInv, LettersSound
<1>3. ASSUME NEW c \in MailboxConfig, Witnessed(c)
      PROVE  /\ was' \in [Arrival -> SUBSET MailboxConfig]
             /\ \A l \in Arrival : was[l] \subseteq was'[l]
  BY <1>1, <1>3 DEF Witnessed
<1>4. ASSUME file' \in MailboxConfig, served' \in MailboxConfig, TrustValid(served'),
             asked' \in SUBSET Hooks, edits' \in Nat, UNCHANGED <<letter, ran>>,
             was' \in [Arrival -> SUBSET MailboxConfig],
             \A l \in Arrival : was[l] \subseteq was'[l]
      PROVE  IInv'
  <2>1. TrustTypeOK'
    BY <1>1, <1>4 DEF TrustTypeOK
  <2>2. LettersSound'
    BY <1>2, <1>4 DEF LettersSound, Sound
  <2> QED
    BY <1>4, <2>1, <2>2 DEF IInv, Valid, TrustValid
<1>5. CASE EditFile
  BY <1>1, <1>4, <1>5, TrustAssumption DEF EditFile, MayChange
<1>6. CASE ReloadConfig
  BY <1>1, <1>3, <1>4, <1>6 DEF ReloadConfig, FileLoads
<1>7. CASE AskHook
  BY <1>1, <1>4, <1>7 DEF AskHook, MayChange
<1>8. ASSUME NEW hooks \in SUBSET Hooks
      PROVE  /\ [served EXCEPT !.hooks = hooks] \in MailboxConfig
             /\ TrustValid([served EXCEPT !.hooks = hooks])
  BY <1>1 DEF MailboxConfig, TrustValid
<1>9. served.hooks \in SUBSET Hooks
  BY <1>1 DEF MailboxConfig
<1>10. CASE CommitHook
  <2>1. PICK h \in asked :
          LET new == [served EXCEPT !.hooks = @ \cup {h}] IN
          /\ asked' = {}
          /\ \/ h \notin served.hooks /\ HooksValid(new) /\ Install(new)
             \/ UNCHANGED <<file, served, was>>
          /\ UNCHANGED <<letter, ran, edits>>
    BY <1>10 DEF CommitHook
  <2> DEFINE new == [served EXCEPT !.hooks = served.hooks \cup {h}]
  <2>2. new \in MailboxConfig /\ TrustValid(new)
    BY <1>1, <1>8, <1>9
  <2>3. CASE Install(new)
    BY <1>1, <1>3, <1>4, <2>1, <2>2, <2>3 DEF Install
  <2>4. CASE UNCHANGED <<file, served, was>>
    BY <1>1, <1>4, <2>1, <2>4
  <2> QED
    BY <2>1, <2>3, <2>4
<1>11. CASE DeleteHook
  <2>1. PICK h \in served.hooks : Install([served EXCEPT !.hooks = @ \ {h}])
    BY <1>11 DEF DeleteHook
  <2> DEFINE new == [served EXCEPT !.hooks = served.hooks \ {h}]
  <2>2. new \in MailboxConfig /\ TrustValid(new)
    BY <1>8, <1>9
  <2>3. file' = new /\ served' = new /\ Witnessed(new)
    BY <2>1 DEF Install
  <2>4. edits' \in Nat /\ UNCHANGED <<asked, letter, ran>>
    BY <1>1, <1>11 DEF DeleteHook, MayChange
  <2> HIDE DEF new
  <2> QED
    BY <1>1, <1>3, <1>4, <2>2, <2>3, <2>4
<1>12. CASE RestartDaemon
  <2>1. /\ file' = file /\ served' = file /\ TrustValid(file) /\ asked' = {}
        /\ edits' \in Nat /\ UNCHANGED <<ran, was>>
    BY <1>1, <1>12 DEF RestartDaemon, MayChange, FileLoads
  <2>2. ASSUME NEW l \in Arrival
        PROVE  /\ letter'[l] \in Handling
               /\ letter'[l] = letter[l] \/ (letter'[l] = [letter[l] EXCEPT !.at = "lost"]
                                             /\ letter[l].at # "none")
    BY ZenonT(60), <1>1, <1>12 DEF RestartDaemon, Handled, Handling, Place
  <2>3. letter' \in [Arrival -> Handling]
    <3>1. letter' = [l \in Arrival |-> letter'[l]]
      BY <1>12 DEF RestartDaemon
    <3> QED
      BY <2>2, <3>1
  <2>4. ASSUME NEW l \in Arrival PROVE Sound(letter'[l], ran'[l], was'[l])
    <3>1. CASE letter'[l] = letter[l]
      BY <1>2, <2>1, <3>1
    <3>2. CASE letter'[l] = [letter[l] EXCEPT !.at = "lost"] /\ letter[l].at # "none"
      <4>1. letter'[l].at = "lost" /\ letter'[l].snap = letter[l].snap
        BY <1>1, <3>2 DEF Handling
      <4> QED
        BY <1>2, <2>1, <3>2, <4>1 DEF Sound
    <3> QED
      BY <2>2, <3>1, <3>2
  <2> QED
    BY <1>1, <2>1, <2>3, <2>4
       DEF IInv, TrustTypeOK, Valid, LettersSound, Sound, Meant, EffectiveTrust, TrustValid
<1> QED
  BY <1>5, <1>6, <1>7, <1>10, <1>11, <1>12 DEF ConfigStep

LEMMA StutterKeepsSound == IInv /\ UNCHANGED trustVars => IInv'
<1> SUFFICES ASSUME IInv, UNCHANGED trustVars PROVE IInv'
  OBVIOUS
<1>1. UNCHANGED <<file, served, asked, letter, ran, was, edits>>
  BY DEF trustVars
<1>2. TrustTypeOK' /\ Valid'
  BY <1>1 DEF IInv, TrustTypeOK, Valid, TrustValid
<1>3. LettersSound'
  BY <1>1 DEF IInv, LettersSound, Sound
<1> QED
  BY <1>2, <1>3 DEF IInv

LEMMA Soundness == TrustSpec => []IInv
<1>1. IInv /\ [TrustNext]_trustVars => IInv'
  BY LetterKeepsSound, ConfigKeepsSound, StutterKeepsSound DEF TrustNext
<1> QED
  BY InitSound, <1>1, PTL DEF TrustSpec

(* What ingest_email, evaluate_trust and the hook thread of a letter do is *)
(* what one configuration that was in force meanwhile asks for.            *)
THEOREM LettersJudgedOnce == TrustSpec => []HooksAsJudged
  BY Soundness, SoundIsJudged, PTL
=============================================================================
