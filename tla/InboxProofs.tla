---------------------------- MODULE InboxProofs ----------------------------
(***************************************************************************)
(* Proofs about Inbox, for any letters, sessions, clients and bounds: a    *)
(* letter is stored at most once in 24 hours, the cache misses nothing     *)
(* that is stored, what is acknowledged was stored, no step undoes a       *)
(* letter; and Inbox implements AtomicInbox.                               *)
(*                                                                         *)
(* None of these is inductive.  They rest on the lock (Locks), on what the *)
(* holder of the lock knows (Hands, Writers), and on what the cache and    *)
(* the files say about the past (CacheHolds, Paths, Vouched).              *)
(***************************************************************************)
EXTENDS InboxRefinement, FiniteSetTheorems, TLAPS

(* A process holds the lock just while it is at a step that needs it.      *)
Locks ==
  /\ \A s \in Session : (holder = s) <=> ses[s].at \in {"opening", "writing", "written"}
  /\ \A c \in Client : (holder = c) <=> cli[c].at \in {"marking", "wiping"}

(* A delivery at work has a letter; a MARK about to publish has read a     *)
(* file that is still there as it was read.                                *)
Hands ==
  /\ \A s \in Session : ses[s].at # "idle" => ses[s].msg \in Message
  /\ \A c \in Client : cli[c].at = "marking" => \E g \in mail : cli[c].copy = {g}

(* A delivery that stores has found its id unknown in a built cache.       *)
Writers ==
  \A s \in Session :
    ses[s].at \in {"opening", "writing", "written"} => built /\ ses[s].msg \notin seen

(* A built cache knows what is stored but for the letter just written; an  *)
(* over-age entry has no fresh copy.                                       *)
CacheHolds ==
  /\ built => \A m \in Message \ Split : Copies(m) # {} =>
       m \in seen \/ \E s \in Session : ses[s].at = "written" /\ ses[s].msg = m
  /\ \A m \in lapsed : Copies(m) = {}

(* No two files of one name.                                               *)
Paths == \A f, g \in mail : Path(f) = Path(g) => f = g

(* What a cache entry or a 250 stands for.                                 *)
Stored(m) == kept[m] > 0 \/ m \in torn

(* Files, cache entries and sessions about to say 250 vouch for a store.   *)
Vouched ==
  /\ \A f \in mail : f.text = "whole" => kept[f.msg] > 0
  /\ \A f \in mail : f.text = "head" =>
       f.msg \in torn \/ \E s \in Session : ses[s].at = "writing" /\ f = MyFile(s, "head")
  /\ \A m \in seen : Stored(m)
  /\ \A s \in Session : ses[s].at \in {"written", "stored", "replying"} => Stored(ses[s].msg)

(* The inductive invariant.                                                *)
IInv ==
  /\ TypeOK /\ Locks /\ Hands /\ Writers
  /\ CacheHolds /\ StoredOnce
  /\ Paths /\ Vouched /\ AckedWereStored

-----------------------------------------------------------------------------
(* The steps                                                               *)

(* The file of a delivery is named for its stem and its letter.            *)
LEMMA MyFileFields ==
  ASSUME NEW s \in Session, NEW t
  PROVE  /\ MyFile(s, t).stem = ses[s].stem /\ MyFile(s, t).msg = ses[s].msg
         /\ MyFile(s, t).text = t /\ MyFile(s, t).fresh = TRUE
         /\ Path(MyFile(s, t)) = <<ses[s].stem, ses[s].msg \in Attached>>
BY DEF MyFile, Path

(* It is a file of the model whenever the session has a letter at hand.    *)
LEMMA MyFileTyped ==
  ASSUME TypeOK, Hands, NEW s \in Session, ses[s].at # "idle", NEW t \in Text
  PROVE  MyFile(s, t) \in File
BY DEF TypeOK, Hands, SessionState, MyFile, File

(* What MARK and the lapse of time change in a file.                       *)
LEMMA FlagsOnly ==
  ASSUME NEW f \in File, NEW b \in BOOLEAN
  PROVE  \A g \in {[f EXCEPT !.read = b], [f EXCEPT !.fresh = b]} :
           /\ g \in File
           /\ g.stem = f.stem /\ g.msg = f.msg /\ g.text = f.text
           /\ Path(g) = Path(f)
BY DEF File, Path

(* MARK leaves the date of a file alone ...                                *)
LEMMA ReadOnly ==
  ASSUME NEW f \in File, NEW b \in BOOLEAN
  PROVE  [f EXCEPT !.read = b].fresh = f.fresh
BY DEF File

(* ... and the lapse of time sets it.                                      *)
LEMMA FreshOnly ==
  ASSUME NEW f \in File, NEW b \in BOOLEAN
  PROVE  [f EXCEPT !.fresh = b].fresh = b
BY DEF File

(* A letter taken on by a session changes neither lock, cache nor files.   *)
LEMMA ReceiveKeeps == ASSUME IInv, NEW s \in Session, Receive(s) PROVE IInv'
<1>0. TypeOK /\ Locks /\ Hands /\ Writers /\ CacheHolds /\ StoredOnce /\ Paths /\ Vouched /\ AckedWereStored  BY DEF IInv
<1>1. TypeOK'
  <2>1. ses' \in [Session -> SessionState]
    BY <1>0, BoundAssumption DEF TypeOK, Receive, Hands, Locks, SessionState, Goto, Idle, Stem, disk, cacheVars, history
  <2>q. QED  BY <1>0, <2>1, ProcessAssumption DEF TypeOK, Receive, Bump, disk, cacheVars, history
<1>2. Locks'
  BY <1>0, ProcessAssumption, MessageAssumption DEF TypeOK, Locks, Receive, Bump, disk, cacheVars, history, Idle, AtRest
<1>3. Hands'
  BY <1>0, ProcessAssumption, MessageAssumption DEF TypeOK, Locks, Hands, Receive, Bump, disk, cacheVars, history, Idle, AtRest
<1>4. Writers'
  BY <1>0, ProcessAssumption, MessageAssumption DEF TypeOK, Locks, Writers, Receive, Bump, disk, cacheVars, history, Idle, AtRest
<1>5. CacheHolds'
  BY <1>0, ProcessAssumption, MessageAssumption DEF TypeOK, Locks, Writers, CacheHolds, Receive, Bump, disk, cacheVars, history, Copies, Idle, AtRest
<1>6. StoredOnce'
  BY <1>0, ProcessAssumption, MessageAssumption DEF TypeOK, Locks, Writers, CacheHolds, StoredOnce, Receive, Bump, disk, cacheVars, history, Copies
<1>7. Paths'
  BY <1>0, ProcessAssumption, MessageAssumption DEF TypeOK, Locks, Hands, Paths, Receive, Bump, disk, cacheVars, history, Path
<1>8. Vouched'
  BY <1>0, ProcessAssumption, MessageAssumption DEF TypeOK, Locks, Hands, Writers, Paths, Vouched, Receive, Bump, disk, cacheVars, history, Stored, MyFile, Idle, AtRest, File
<1>9. AckedWereStored'
  BY <1>0, ProcessAssumption, MessageAssumption DEF TypeOK, Vouched, AckedWereStored, Receive, Bump, disk, cacheVars, history, Stored
<1>q. QED  BY <1>1, <1>2, <1>3, <1>4, <1>5, <1>6, <1>7, <1>8, <1>9 DEF IInv

(* A duplicate found under the lock: the cache is built from the disk, and *)
(* what it knows was stored, so the 250 to come is vouched for.            *)
LEMMA DuplicateKeeps == ASSUME IInv, NEW s \in Session, Duplicate(s) PROVE IInv'
<1>0. TypeOK /\ Locks /\ Hands /\ Writers /\ CacheHolds /\ StoredOnce /\ Paths /\ Vouched /\ AckedWereStored  BY DEF IInv
<1>1. TypeOK'
  <2>1. ses' \in [Session -> SessionState]
    BY <1>0, BoundAssumption DEF TypeOK, Duplicate, Hands, Locks, SessionState, Goto, Idle, Stem, disk, mta, history
  <2>q. QED  BY <1>0, <2>1, ProcessAssumption DEF TypeOK, Duplicate, Consult, Known, OnDisk, Readable, Goto, disk, mta, history
<1>2. Locks'
  BY <1>0, ProcessAssumption, MessageAssumption DEF TypeOK, Locks, Duplicate, Consult, Known, OnDisk, Readable, Goto, disk, mta, history, Idle, AtRest
<1>3. Hands'
  BY <1>0, ProcessAssumption, MessageAssumption DEF TypeOK, Locks, Hands, Duplicate, Consult, Known, OnDisk, Readable, Goto, disk, mta, history, Idle, AtRest
<1>4. Writers'
  BY <1>0, ProcessAssumption, MessageAssumption DEF TypeOK, Locks, Writers, Duplicate, Consult, Known, OnDisk, Readable, Goto, disk, mta, history, Idle, AtRest
<1>5. CacheHolds'
  BY <1>0, ProcessAssumption, MessageAssumption DEF TypeOK, Locks, Writers, CacheHolds, Duplicate, Consult, Known, OnDisk, Readable, Goto, disk, mta, history, Copies, Idle, AtRest
<1>6. StoredOnce'
  BY <1>0, ProcessAssumption, MessageAssumption DEF TypeOK, Locks, Writers, CacheHolds, StoredOnce, Duplicate, Consult, Known, OnDisk, Readable, Goto, disk, mta, history, Copies
<1>7. Paths'
  BY <1>0, ProcessAssumption, MessageAssumption DEF TypeOK, Locks, Hands, Paths, Duplicate, Consult, Known, OnDisk, Readable, Goto, disk, mta, history, Path
<1>8. Vouched'
  BY <1>0, ProcessAssumption, MessageAssumption DEF TypeOK, Locks, Hands, Writers, Paths, Vouched, Duplicate, Consult, Known, OnDisk, Readable, Goto, disk, mta, history, Stored, MyFile, Idle, AtRest, File
<1>9. AckedWereStored'
  BY <1>0, ProcessAssumption, MessageAssumption DEF TypeOK, Vouched, AckedWereStored, Duplicate, Consult, Known, OnDisk, Readable, Goto, disk, mta, history, Stored
<1>q. QED  BY <1>1, <1>2, <1>3, <1>4, <1>5, <1>6, <1>7, <1>8, <1>9 DEF IInv

(* A new letter takes the lock with its id unknown to a built cache: there *)
(* is no fresh whole copy of it.                                           *)
LEMMA BeginKeeps == ASSUME IInv, NEW s \in Session, Begin(s) PROVE IInv'
<1>0. TypeOK /\ Locks /\ Hands /\ Writers /\ CacheHolds /\ StoredOnce /\ Paths /\ Vouched /\ AckedWereStored  BY DEF IInv
<1>1. TypeOK'
  <2>1. ses' \in [Session -> SessionState]
    BY <1>0, BoundAssumption DEF TypeOK, Begin, Hands, Locks, SessionState, Goto, Idle, Stem, mta, history
  <2>q. QED  BY <1>0, <2>1, ProcessAssumption DEF TypeOK, Begin, Consult, Known, OnDisk, Readable, mta, history
<1>2. Locks'
  BY <1>0, ProcessAssumption, MessageAssumption DEF TypeOK, Locks, Begin, Consult, Known, OnDisk, Readable, mta, history, Idle, AtRest
<1>3. Hands'
  BY <1>0, ProcessAssumption, MessageAssumption DEF TypeOK, Locks, Hands, Begin, Consult, Known, OnDisk, Readable, mta, history, Idle, AtRest
<1>4. Writers'
  BY <1>0, ProcessAssumption, MessageAssumption DEF TypeOK, Locks, Writers, Begin, Consult, Known, OnDisk, Readable, mta, history, Idle, AtRest
<1>5. CacheHolds'
  BY <1>0, ProcessAssumption, MessageAssumption DEF TypeOK, Locks, Writers, CacheHolds, Begin, Consult, Known, OnDisk, Readable, mta, history, Copies, Idle, AtRest
<1>6. StoredOnce'
  BY <1>0, ProcessAssumption, MessageAssumption DEF TypeOK, Locks, Writers, CacheHolds, StoredOnce, Begin, Consult, Known, OnDisk, Readable, mta, history, Copies
<1>7. Paths'
  BY <1>0, ProcessAssumption, MessageAssumption DEF TypeOK, Locks, Hands, Paths, Begin, Consult, Known, OnDisk, Readable, mta, history, Path
<1>8. Vouched'
  BY <1>0, ProcessAssumption, MessageAssumption DEF TypeOK, Locks, Hands, Writers, Paths, Vouched, Begin, Consult, Known, OnDisk, Readable, mta, history, Stored, MyFile, Idle, AtRest, File
<1>9. AckedWereStored'
  BY <1>0, ProcessAssumption, MessageAssumption DEF TypeOK, Vouched, AckedWereStored, Begin, Consult, Known, OnDisk, Readable, mta, history, Stored
<1>q. QED  BY <1>1, <1>2, <1>3, <1>4, <1>5, <1>6, <1>7, <1>8, <1>9 DEF IInv

(* create_new adds a file at a path nobody has.                            *)
LEMMA OpenKeeps == ASSUME IInv, NEW s \in Session, Open(s) PROVE IInv'
<1>0. TypeOK /\ Locks /\ Hands /\ Writers /\ CacheHolds /\ StoredOnce /\ Paths /\ Vouched /\ AckedWereStored  BY DEF IInv
<1>1. TypeOK'
  <2>1. mail' \subseteq File
    BY <1>0, MyFileTyped DEF TypeOK, Open, Text, cacheVars, mta, history
  <2>2. ses' \in [Session -> SessionState]
    BY <1>0, BoundAssumption DEF TypeOK, Open, Hands, Locks, SessionState, Goto, Idle, Stem, cacheVars, mta, history
  <2>q. QED  BY <1>0, <2>1, <2>2, ProcessAssumption DEF TypeOK, Open, Goto, cacheVars, mta, history
<1>2. Locks'
  BY <1>0, ProcessAssumption, MessageAssumption DEF TypeOK, Locks, Open, Goto, MyFile, cacheVars, mta, history, Idle, AtRest
<1>3. Hands'
  BY <1>0, ProcessAssumption, MessageAssumption DEF TypeOK, Locks, Hands, Open, Goto, MyFile, cacheVars, mta, history, Idle, AtRest
<1>4. Writers'
  BY <1>0, ProcessAssumption, MessageAssumption DEF TypeOK, Locks, Writers, Open, Goto, MyFile, cacheVars, mta, history, Idle, AtRest
<1>5. CacheHolds'
  BY <1>0, ProcessAssumption, MessageAssumption DEF TypeOK, Locks, Writers, CacheHolds, Open, Goto, MyFile, cacheVars, mta, history, Copies, Idle, AtRest
<1>6. StoredOnce'
  BY <1>0, ProcessAssumption, MessageAssumption DEF TypeOK, Locks, Writers, CacheHolds, StoredOnce, Open, Goto, MyFile, cacheVars, mta, history, Copies
<1>7. Paths'
  BY <1>0, ProcessAssumption, MessageAssumption DEF TypeOK, Locks, Hands, Paths, Open, Goto, MyFile, cacheVars, mta, history, Path
<1>8. Vouched'
  BY <1>0, ProcessAssumption, MessageAssumption DEF TypeOK, Locks, Hands, Writers, Paths, Vouched, Open, Goto, MyFile, cacheVars, mta, history, Stored, Idle, AtRest, File
<1>9. AckedWereStored'
  BY <1>0, ProcessAssumption, MessageAssumption DEF TypeOK, Vouched, AckedWereStored, Open, Goto, MyFile, cacheVars, mta, history, Stored
<1>q. QED  BY <1>1, <1>2, <1>3, <1>4, <1>5, <1>6, <1>7, <1>8, <1>9 DEF IInv

(* A file whose frontmatter is out but not its body is nobody's but the    *)
(* writer's.                                                               *)
LEMMA WriteSomeKeeps == ASSUME IInv, NEW s \in Session, WriteSome(s) PROVE IInv'
<1>0. TypeOK /\ Locks /\ Hands /\ Writers /\ CacheHolds /\ StoredOnce /\ Paths /\ Vouched /\ AckedWereStored  BY DEF IInv
<1>m. /\ mail' = (mail \ {MyFile(s, "empty")}) \cup {MyFile(s, "head")}
      /\ MyFile(s, "empty") \in mail
  BY DEF WriteSome

<1>p. Path(MyFile(s, "head")) = Path(MyFile(s, "empty"))
  BY MyFileFields
<1>1. TypeOK'
  <2>1. mail' \subseteq File
    BY <1>0, MyFileTyped DEF TypeOK, WriteSome, Text, cacheVars, mta, history
  <2>q. QED  BY <1>0, <2>1, ProcessAssumption DEF TypeOK, WriteSome, cacheVars, mta, history
<1>2. Locks'
  BY <1>0, ProcessAssumption, MessageAssumption DEF TypeOK, Locks, WriteSome, MyFile, cacheVars, mta, history, Idle, AtRest
<1>3. Hands'
  BY <1>0, ProcessAssumption, MessageAssumption DEF TypeOK, Locks, Hands, WriteSome, MyFile, cacheVars, mta, history, Idle, AtRest
<1>4. Writers'
  BY <1>0, ProcessAssumption, MessageAssumption DEF TypeOK, Locks, Writers, WriteSome, MyFile, cacheVars, mta, history, Idle, AtRest
<1>5. CacheHolds'
  BY <1>0, ProcessAssumption, MessageAssumption DEF TypeOK, Locks, Writers, CacheHolds, WriteSome, MyFile, cacheVars, mta, history, Copies, Idle, AtRest
<1>6. StoredOnce'
  BY <1>0, ProcessAssumption, MessageAssumption DEF TypeOK, Locks, Writers, CacheHolds, StoredOnce, WriteSome, MyFile, cacheVars, mta, history, Copies
<1>7. Paths'
  BY <1>0, <1>m, <1>p DEF Paths
<1>8. Vouched'
  BY <1>0, ProcessAssumption, MessageAssumption DEF TypeOK, Locks, Hands, Writers, Paths, Vouched, WriteSome, MyFile, cacheVars, mta, history, Stored, Idle, AtRest, File
<1>9. AckedWereStored'
  BY <1>0, ProcessAssumption, MessageAssumption DEF TypeOK, Vouched, AckedWereStored, WriteSome, MyFile, cacheVars, mta, history, Stored
<1>q. QED  BY <1>1, <1>2, <1>3, <1>4, <1>5, <1>6, <1>7, <1>8, <1>9 DEF IInv

(* The one step that makes a copy: the writer had found its id unknown, so *)
(* there was none before, and the id is the one exception CacheHolds       *)
(* allows.                                                                 *)
LEMMA WriteRestKeeps == ASSUME IInv, NEW s \in Session, WriteRest(s) PROVE IInv'
<1>0. TypeOK /\ Locks /\ Hands /\ Writers /\ CacheHolds /\ StoredOnce /\ Paths /\ Vouched /\ AckedWereStored  BY DEF IInv
<1>m. PICK f \in mail : f = MyFile(s, f.text) /\ mail' = (mail \ {f}) \cup {MyFile(s, "whole")}
  BY DEF WriteRest
<1>w. ses[s].at = "writing" /\ holder = s /\ built /\ ses[s].msg \in Message
  BY <1>0 DEF WriteRest, Locks, Hands, Writers
<1>n. \A r \in Session : ses[r].at = "written" => FALSE
  BY <1>0, <1>w DEF Locks
<1>k. \A m \in Message : Copies(m)' \subseteq Copies(m) \cup {MyFile(s, "whole")}
  BY <1>m DEF Copies
<1>e. ses[s].msg \notin lapsed /\ (ses[s].msg \notin Split => Copies(ses[s].msg) = {})
  BY <1>0, <1>w, <1>n DEF TypeOK, CacheHolds, Writers
<1>p. /\ MyFile(s, "whole").msg = ses[s].msg
      /\ MyFile(s, "whole").text = "whole" /\ Path(MyFile(s, "whole")) = Path(f)
  BY <1>m, MyFileFields
<1>o. \A m \in Message : m # ses[s].msg => Copies(m)' \subseteq Copies(m)
  <2>1. \A m \in Message : \A g \in Copies(m)' : g.msg = m  BY DEF Copies
  <2>q. QED  BY <1>k, <1>p, <2>1
<1>l. UNCHANGED <<seen, lapsed, built>> /\ ses'[s].at = "written" /\ ses'[s].msg = ses[s].msg
  BY <1>0 DEF WriteRest, Goto, cacheVars, TypeOK, SessionState
<1>1. TypeOK'
  <2>1. mail' \subseteq File
    BY <1>0, MyFileTyped DEF TypeOK, WriteRest, Text, cacheVars, mta
  <2>2. ses' \in [Session -> SessionState]
    BY <1>0, BoundAssumption DEF TypeOK, WriteRest, Hands, Locks, SessionState, Goto, Idle, Stem, cacheVars, mta
  <2>3. kept' \in [Message -> Nat]
    BY <1>0, BoundAssumption DEF TypeOK, WriteRest, Hands, Locks, Bump, cacheVars, mta
  <2>q. QED  BY <1>0, <2>1, <2>2, <2>3, ProcessAssumption DEF TypeOK, WriteRest, Goto, Bump, cacheVars, mta
<1>2. Locks'
  BY <1>0, ProcessAssumption, MessageAssumption DEF TypeOK, Locks, WriteRest, MyFile, Goto, Bump, cacheVars, mta, Idle, AtRest
<1>3. Hands'
  BY <1>0, ProcessAssumption, MessageAssumption DEF TypeOK, Locks, Hands, WriteRest, MyFile, Goto, Bump, cacheVars, mta, Idle, AtRest
<1>4. Writers'
  BY <1>0, ProcessAssumption, MessageAssumption DEF TypeOK, Locks, Writers, WriteRest, MyFile, Goto, Bump, cacheVars, mta, Idle, AtRest
<1>5. CacheHolds'
  <2>1. ASSUME NEW m \in Message \ Split, Copies(m)' # {}
        PROVE  m \in seen' \/ \E r \in Session : ses'[r].at = "written" /\ ses'[r].msg = m
    <3>1. CASE m = ses[s].msg  BY <1>l, <3>1
    <3>2. CASE m # ses[s].msg
      BY <1>0, <1>o, <1>l, <1>w, <1>n, <2>1, <3>2 DEF CacheHolds
    <3>q. QED  BY <3>1, <3>2
  <2>2. \A m \in lapsed' : Copies(m)' = {}
    BY <1>0, <1>e, <1>o, <1>l DEF CacheHolds, TypeOK
  <2>q. QED  BY <1>l, <2>1, <2>2 DEF CacheHolds
<1>6. StoredOnce'
  BY <1>0, <1>k, <1>e, <1>o, MyFileFields DEF StoredOnce
<1>7. Paths'
  BY <1>0, <1>m, <1>p DEF Paths
<1>8. Vouched'
  <2>k. /\ kept'[ses[s].msg] > 0
        /\ \A m \in Message : kept[m] > 0 => kept'[m] > 0
        /\ torn' = torn
    BY <1>0, <1>w DEF WriteRest, Bump, TypeOK
  <2>2. \A g \in mail' : g.text = "whole" => kept'[g.msg] > 0
    <3>1. \A g \in mail : g.msg \in Message  BY <1>0 DEF TypeOK, File
    <3>q. QED  BY <1>0, <1>m, <1>p, <2>k, <3>1 DEF Vouched
  <2>3. ASSUME NEW g \in mail', g.text = "head" PROVE g.msg \in torn
    <3>1. g \in mail /\ g # f  BY <1>m, <1>p, <2>3
    <3>2. g.msg \in torn \/ g = MyFile(s, "head")
      BY <1>0, <1>w, <2>3, <3>1 DEF Vouched, Locks
    <3>3. g = MyFile(s, "head") => Path(g) = Path(f)  BY <1>p, MyFileFields
    <3>q. QED  BY <1>0, <3>1, <3>2, <3>3 DEF Paths
  <2>4. \A m \in Message : Stored(m) => Stored(m)'
    BY <2>k DEF Stored
  <2>5. \A m \in seen' : Stored(m)'
    BY <1>0, <1>l, <2>4 DEF Vouched, TypeOK
  <2>6. \A r \in Session : ses'[r].at \in {"written", "stored", "replying"} => Stored(ses[r].msg)'
    <3>1. \A r \in Session : ses'[r].msg = ses[r].msg /\ (r # s => ses'[r].at = ses[r].at)
      BY <1>0 DEF WriteRest, Goto, TypeOK, SessionState
    <3>2. Stored(ses[s].msg)'  BY <1>l, <2>k DEF Stored
    <3>3. ASSUME NEW r \in Session, r # s, ses'[r].at \in {"written", "stored", "replying"}
          PROVE  Stored(ses[r].msg)'
      <4>1. ses[r].msg \in Message /\ Stored(ses[r].msg)
        BY <1>0, <3>1, <3>3 DEF Vouched, Hands
      <4>q. QED  BY <2>4, <3>1, <4>1 DEF Stored
    <3>q. QED  BY <3>1, <3>2, <3>3 DEF Stored
  <2>7. \A g \in mail' : g.text = "head" => g.msg \in torn'  BY <2>3, <2>k
  <2>q. QED  BY <2>2, <2>5, <2>6, <2>7 DEF Vouched
<1>9. AckedWereStored'
  BY <1>0, ProcessAssumption, MessageAssumption DEF TypeOK, Vouched, AckedWereStored, WriteRest, MyFile, Goto, Bump, cacheVars, mta, Stored
<1>q. QED  BY <1>1, <1>2, <1>3, <1>4, <1>5, <1>6, <1>7, <1>8, <1>9 DEF IInv

(* A failed delivery leaves the lock, and at most a cut file that torn     *)
(* remembers.                                                              *)
LEMMA FailKeeps == ASSUME IInv, NEW s \in Session, Fail(s) PROVE IInv'
<1>0. TypeOK /\ Locks /\ Hands /\ Writers /\ CacheHolds /\ StoredOnce /\ Paths /\ Vouched /\ AckedWereStored  BY DEF IInv
<1>1. TypeOK'
  <2>1. ses' \in [Session -> SessionState]
    BY <1>0, BoundAssumption DEF TypeOK, Fail, Hands, Locks, SessionState, Goto, Idle, Stem, disk, cacheVars, mta
  <2>2. env' \in [requests: Nat, faults: Nat, restarts: Nat, lapses: Nat]
    BY <1>0, BoundAssumption DEF TypeOK, Fail, Hands, Locks, Count, Fault, disk, cacheVars, mta
  <2>3. mail' \subseteq File
    BY <1>0, BoundAssumption DEF TypeOK, Fail, Hands, Locks, File, disk, cacheVars, mta, Text, SessionState, ClientState
  <2>q. QED  BY <1>0, <2>1, <2>2, <2>3, ProcessAssumption DEF TypeOK, Fail, Fault, Count, Unlock, Goto, InBundle, CutFiles, disk, cacheVars, mta, File
<1>2. Locks'
  BY <1>0, ProcessAssumption, MessageAssumption DEF TypeOK, Locks, Fail, Fault, Count, Unlock, Goto, InBundle, CutFiles, disk, cacheVars, mta, Idle, AtRest
<1>3. Hands'
  BY <1>0, ProcessAssumption, MessageAssumption DEF TypeOK, Locks, Hands, Fail, Fault, Count, Unlock, Goto, InBundle, CutFiles, disk, cacheVars, mta, Idle, AtRest
<1>4. Writers'
  BY <1>0, ProcessAssumption, MessageAssumption DEF TypeOK, Locks, Writers, Fail, Fault, Count, Unlock, Goto, InBundle, CutFiles, disk, cacheVars, mta, Idle, AtRest
<1>5. CacheHolds'
  BY <1>0, ProcessAssumption, MessageAssumption DEF TypeOK, Locks, Writers, CacheHolds, Fail, Fault, Count, Unlock, Goto, InBundle, CutFiles, disk, cacheVars, mta, Copies, Idle, AtRest
<1>6. StoredOnce'
  BY <1>0, ProcessAssumption, MessageAssumption DEF TypeOK, Locks, Writers, CacheHolds, StoredOnce, Fail, Fault, Count, Unlock, Goto, InBundle, CutFiles, disk, cacheVars, mta, Copies
<1>7. Paths'
  BY <1>0, ProcessAssumption, MessageAssumption DEF TypeOK, Locks, Hands, Paths, Fail, Fault, Count, Unlock, Goto, InBundle, CutFiles, disk, cacheVars, mta, Path
<1>8. Vouched'
  BY <1>0, ProcessAssumption, MessageAssumption DEF TypeOK, Locks, Hands, Writers, Paths, Vouched, Fail, Fault, Count, Unlock, Goto, InBundle, CutFiles, disk, cacheVars, mta, Stored, MyFile, Idle, AtRest, File
<1>9. AckedWereStored'
  BY <1>0, ProcessAssumption, MessageAssumption DEF TypeOK, Vouched, AckedWereStored, Fail, Fault, Count, Unlock, Goto, InBundle, CutFiles, disk, cacheVars, mta, Stored
<1>q. QED  BY <1>1, <1>2, <1>3, <1>4, <1>5, <1>6, <1>7, <1>8, <1>9 DEF IInv

(* The id goes into the cache before the lock is dropped, so the exception *)
(* of CacheHolds ends with the critical section.                           *)
LEMMA RecordKeeps == ASSUME IInv, NEW s \in Session, Record(s) PROVE IInv'
<1>0. TypeOK /\ Locks /\ Hands /\ Writers /\ CacheHolds /\ StoredOnce /\ Paths /\ Vouched /\ AckedWereStored  BY DEF IInv
<1>1. TypeOK'
  <2>1. ses' \in [Session -> SessionState]
    BY <1>0, BoundAssumption DEF TypeOK, Record, Hands, Locks, SessionState, Goto, Idle, Stem, disk, mta, history
  <2>q. QED  BY <1>0, <2>1, ProcessAssumption DEF TypeOK, Record, Unlock, Goto, disk, mta, history, Hands, Writers
<1>2. Locks'
  BY <1>0, ProcessAssumption, MessageAssumption DEF TypeOK, Locks, Record, Unlock, Goto, disk, mta, history, Idle, AtRest
<1>3. Hands'
  BY <1>0, ProcessAssumption, MessageAssumption DEF TypeOK, Locks, Hands, Record, Unlock, Goto, disk, mta, history, Idle, AtRest
<1>4. Writers'
  BY <1>0, ProcessAssumption, MessageAssumption DEF TypeOK, Locks, Writers, Record, Unlock, Goto, disk, mta, history, Idle, AtRest
<1>5. CacheHolds'
  BY <1>0, ProcessAssumption, MessageAssumption DEF TypeOK, Locks, Writers, CacheHolds, Record, Unlock, Goto, disk, mta, history, Copies, Idle, AtRest
<1>6. StoredOnce'
  BY <1>0, ProcessAssumption, MessageAssumption DEF TypeOK, Locks, Writers, CacheHolds, StoredOnce, Record, Unlock, Goto, disk, mta, history, Copies
<1>7. Paths'
  BY <1>0, ProcessAssumption, MessageAssumption DEF TypeOK, Locks, Hands, Paths, Record, Unlock, Goto, disk, mta, history, Path
<1>8. Vouched'
  BY <1>0, ProcessAssumption, MessageAssumption DEF TypeOK, Locks, Hands, Writers, Paths, Vouched, Record, Unlock, Goto, disk, mta, history, Stored, MyFile, Idle, AtRest, File
<1>9. AckedWereStored'
  BY <1>0, ProcessAssumption, MessageAssumption DEF TypeOK, Vouched, AckedWereStored, Record, Unlock, Goto, disk, mta, history, Stored
<1>q. QED  BY <1>1, <1>2, <1>3, <1>4, <1>5, <1>6, <1>7, <1>8, <1>9 DEF IInv

(* Starting the hook thread touches neither lock, cache nor files.         *)
LEMMA SpawnKeeps == ASSUME IInv, NEW s \in Session, Spawn(s) PROVE IInv'
<1>0. TypeOK /\ Locks /\ Hands /\ Writers /\ CacheHolds /\ StoredOnce /\ Paths /\ Vouched /\ AckedWereStored  BY DEF IInv
<1>1. TypeOK'
  <2>1. ses' \in [Session -> SessionState]
    BY <1>0, BoundAssumption DEF TypeOK, Spawn, Hands, Locks, SessionState, Goto, Idle, Stem, disk, cacheVars, mta, history
  <2>2. threads' \in [Message -> Nat]
    BY <1>0, BoundAssumption DEF TypeOK, Spawn, Hands, Locks, Bump, disk, cacheVars, mta, history
  <2>3. env' \in [requests: Nat, faults: Nat, restarts: Nat, lapses: Nat]
    BY <1>0, BoundAssumption DEF TypeOK, Spawn, Hands, Locks, Count, Fault, disk, cacheVars, mta, history
  <2>q. QED  BY <1>0, <2>1, <2>2, <2>3, ProcessAssumption DEF TypeOK, Spawn, Goto, Bump, Fault, Count, disk, cacheVars, mta, history
<1>2. Locks'
  BY <1>0, ProcessAssumption, MessageAssumption DEF TypeOK, Locks, Spawn, Goto, Bump, Fault, Count, disk, cacheVars, mta, history, Idle, AtRest
<1>3. Hands'
  BY <1>0, ProcessAssumption, MessageAssumption DEF TypeOK, Locks, Hands, Spawn, Goto, Bump, Fault, Count, disk, cacheVars, mta, history, Idle, AtRest
<1>4. Writers'
  BY <1>0, ProcessAssumption, MessageAssumption DEF TypeOK, Locks, Writers, Spawn, Goto, Bump, Fault, Count, disk, cacheVars, mta, history, Idle, AtRest
<1>5. CacheHolds'
  BY <1>0, ProcessAssumption, MessageAssumption DEF TypeOK, Locks, Writers, CacheHolds, Spawn, Goto, Bump, Fault, Count, disk, cacheVars, mta, history, Copies, Idle, AtRest
<1>6. StoredOnce'
  BY <1>0, ProcessAssumption, MessageAssumption DEF TypeOK, Locks, Writers, CacheHolds, StoredOnce, Spawn, Goto, Bump, Fault, Count, disk, cacheVars, mta, history, Copies
<1>7. Paths'
  BY <1>0, ProcessAssumption, MessageAssumption DEF TypeOK, Locks, Hands, Paths, Spawn, Goto, Bump, Fault, Count, disk, cacheVars, mta, history, Path
<1>8. Vouched'
  BY <1>0, ProcessAssumption, MessageAssumption DEF TypeOK, Locks, Hands, Writers, Paths, Vouched, Spawn, Goto, Bump, Fault, Count, disk, cacheVars, mta, history, Stored, MyFile, Idle, AtRest, File
<1>9. AckedWereStored'
  BY <1>0, ProcessAssumption, MessageAssumption DEF TypeOK, Vouched, AckedWereStored, Spawn, Goto, Bump, Fault, Count, disk, cacheVars, mta, history, Stored
<1>q. QED  BY <1>1, <1>2, <1>3, <1>4, <1>5, <1>6, <1>7, <1>8, <1>9 DEF IInv

(* 250 is said of a letter that Vouched says was stored.                   *)
LEMMA ReplyKeeps == ASSUME IInv, NEW s \in Session, Reply(s) PROVE IInv'
<1>0. TypeOK /\ Locks /\ Hands /\ Writers /\ CacheHolds /\ StoredOnce /\ Paths /\ Vouched /\ AckedWereStored  BY DEF IInv
<1>1. TypeOK'
  <2>1. ses' \in [Session -> SessionState]
    BY <1>0, BoundAssumption DEF TypeOK, Reply, Hands, Locks, SessionState, Goto, Idle, Stem, disk, cacheVars, history
  <2>q. QED  BY <1>0, <2>1, ProcessAssumption DEF TypeOK, Reply, Idle, disk, cacheVars, history, Hands, Writers
<1>2. Locks'
  BY <1>0, ProcessAssumption, MessageAssumption DEF TypeOK, Locks, Reply, Idle, disk, cacheVars, history, AtRest
<1>3. Hands'
  BY <1>0, ProcessAssumption, MessageAssumption DEF TypeOK, Locks, Hands, Reply, Idle, disk, cacheVars, history, AtRest
<1>4. Writers'
  BY <1>0, ProcessAssumption, MessageAssumption DEF TypeOK, Locks, Writers, Reply, Idle, disk, cacheVars, history, AtRest
<1>5. CacheHolds'
  BY <1>0, ProcessAssumption, MessageAssumption DEF TypeOK, Locks, Writers, CacheHolds, Reply, Idle, disk, cacheVars, history, Copies, AtRest
<1>6. StoredOnce'
  BY <1>0, ProcessAssumption, MessageAssumption DEF TypeOK, Locks, Writers, CacheHolds, StoredOnce, Reply, Idle, disk, cacheVars, history, Copies
<1>7. Paths'
  BY <1>0, ProcessAssumption, MessageAssumption DEF TypeOK, Locks, Hands, Paths, Reply, Idle, disk, cacheVars, history, Path
<1>8. Vouched'
  BY <1>0, ProcessAssumption, MessageAssumption DEF TypeOK, Locks, Hands, Writers, Paths, Vouched, Reply, Idle, disk, cacheVars, history, Stored, MyFile, AtRest, File
<1>9. AckedWereStored'
  BY <1>0, ProcessAssumption, MessageAssumption DEF TypeOK, Vouched, AckedWereStored, Reply, Idle, disk, cacheVars, history, Stored
<1>q. QED  BY <1>1, <1>2, <1>3, <1>4, <1>5, <1>6, <1>7, <1>8, <1>9 DEF IInv

(* A hook thread only counts.                                              *)
LEMMA RunHookKeeps == ASSUME IInv, NEW m \in Message, RunHook(m) PROVE IInv'
<1>0. TypeOK /\ Locks /\ Hands /\ Writers /\ CacheHolds /\ StoredOnce /\ Paths /\ Vouched /\ AckedWereStored  BY DEF IInv
<1>1. TypeOK'
  BY <1>0, ProcessAssumption, MessageAssumption DEF TypeOK, RunHook, Bump, disk, cacheVars, mta, File, Idle, AtRest
<1>2. Locks'
  BY <1>0, ProcessAssumption, MessageAssumption DEF TypeOK, Locks, RunHook, Bump, disk, cacheVars, mta, Idle, AtRest
<1>3. Hands'
  BY <1>0, ProcessAssumption, MessageAssumption DEF TypeOK, Locks, Hands, RunHook, Bump, disk, cacheVars, mta, Idle, AtRest
<1>4. Writers'
  BY <1>0, ProcessAssumption, MessageAssumption DEF TypeOK, Locks, Writers, RunHook, Bump, disk, cacheVars, mta, Idle, AtRest
<1>5. CacheHolds'
  BY <1>0, ProcessAssumption, MessageAssumption DEF TypeOK, Locks, Writers, CacheHolds, RunHook, Bump, disk, cacheVars, mta, Copies, Idle, AtRest
<1>6. StoredOnce'
  BY <1>0, ProcessAssumption, MessageAssumption DEF TypeOK, Locks, Writers, CacheHolds, StoredOnce, RunHook, Bump, disk, cacheVars, mta, Copies
<1>7. Paths'
  BY <1>0, ProcessAssumption, MessageAssumption DEF TypeOK, Locks, Hands, Paths, RunHook, Bump, disk, cacheVars, mta, Path
<1>8. Vouched'
  BY <1>0, ProcessAssumption, MessageAssumption DEF TypeOK, Locks, Hands, Writers, Paths, Vouched, RunHook, Bump, disk, cacheVars, mta, Stored, MyFile, Idle, AtRest, File
<1>9. AckedWereStored'
  BY <1>0, ProcessAssumption, MessageAssumption DEF TypeOK, Vouched, AckedWereStored, RunHook, Bump, disk, cacheVars, mta, Stored
<1>q. QED  BY <1>1, <1>2, <1>3, <1>4, <1>5, <1>6, <1>7, <1>8, <1>9 DEF IInv

(* A request comes in: its handler holds nothing yet.                      *)
LEMMA AskKeeps == ASSUME IInv, NEW c \in Client, Ask(c) PROVE IInv'
<1>0. TypeOK /\ Locks /\ Hands /\ Writers /\ CacheHolds /\ StoredOnce /\ Paths /\ Vouched /\ AckedWereStored  BY DEF IInv
<1>1. TypeOK'
  <2>1. cli' \in [Client -> ClientState]
    BY <1>0, BoundAssumption, ProcessAssumption DEF TypeOK, Ask, Hands, Locks, ClientState, AtRest, Return, Delete, Mark, Stem, disk, cacheVars, mta, history
  <2>2. env' \in [requests: Nat, faults: Nat, restarts: Nat, lapses: Nat]
    BY <1>0, BoundAssumption, ProcessAssumption DEF TypeOK, Ask, Hands, Locks, Count, Fault, disk, cacheVars, mta, history
  <2>q. QED  BY <1>0, <2>1, <2>2, ProcessAssumption DEF TypeOK, Ask, Count, disk, cacheVars, mta, history
<1>2. Locks'
  BY <1>0, ProcessAssumption, MessageAssumption DEF TypeOK, Locks, Ask, Count, disk, cacheVars, mta, history, Idle, AtRest
<1>3. Hands'
  BY <1>0, ProcessAssumption, MessageAssumption DEF TypeOK, Locks, Hands, Ask, Count, disk, cacheVars, mta, history, Idle, AtRest
<1>4. Writers'
  BY <1>0, ProcessAssumption, MessageAssumption DEF TypeOK, Locks, Writers, Ask, Count, disk, cacheVars, mta, history, Idle, AtRest
<1>5. CacheHolds'
  BY <1>0, ProcessAssumption, MessageAssumption DEF TypeOK, Locks, Writers, CacheHolds, Ask, Count, disk, cacheVars, mta, history, Copies, Idle, AtRest
<1>6. StoredOnce'
  BY <1>0, ProcessAssumption, MessageAssumption DEF TypeOK, Locks, Writers, CacheHolds, StoredOnce, Ask, Count, disk, cacheVars, mta, history, Copies
<1>7. Paths'
  BY <1>0, ProcessAssumption, MessageAssumption DEF TypeOK, Locks, Hands, Paths, Ask, Count, disk, cacheVars, mta, history, Path
<1>8. Vouched'
  BY <1>0, ProcessAssumption, MessageAssumption DEF TypeOK, Locks, Hands, Writers, Paths, Vouched, Ask, Count, disk, cacheVars, mta, history, Stored, MyFile, Idle, AtRest, File
<1>9. AckedWereStored'
  BY <1>0, ProcessAssumption, MessageAssumption DEF TypeOK, Vouched, AckedWereStored, Ask, Count, disk, cacheVars, mta, history, Stored
<1>q. QED  BY <1>1, <1>2, <1>3, <1>4, <1>5, <1>6, <1>7, <1>8, <1>9 DEF IInv

(* MARK takes the lock and a copy of a file that is there.                 *)
LEMMA MarkReadKeeps == ASSUME IInv, NEW c \in Client, MarkRead(c) PROVE IInv'
<1>0. TypeOK /\ Locks /\ Hands /\ Writers /\ CacheHolds /\ StoredOnce /\ Paths /\ Vouched /\ AckedWereStored  BY DEF IInv
<1>1. TypeOK'
  <2>1. cli' \in [Client -> ClientState]
    <3>1. PICK f \in mail : cli' = [cli EXCEPT ![c].at = "marking", ![c].copy = {f}]
      BY DEF MarkRead, Resolved
    <3>2. {f} \in SUBSET File  BY <1>0 DEF TypeOK
    <3>3. cli[c] \in ClientState  BY <1>0 DEF TypeOK
    <3>4. [cli[c] EXCEPT !.at = "marking", !.copy = {f}] \in ClientState
      BY <3>2, <3>3 DEF ClientState
    <3>5. cli' = [cli EXCEPT ![c] = [cli[c] EXCEPT !.at = "marking", !.copy = {f}]]
      BY <1>0, <3>1 DEF TypeOK
    <3>q. QED  BY <1>0, <3>4, <3>5 DEF TypeOK
  <2>q. QED  BY <1>0, <2>1 DEF TypeOK, MarkRead, disk, cacheVars, mta, history
<1>2. Locks'
  BY <1>0, ProcessAssumption, MessageAssumption DEF TypeOK, Locks, MarkRead, Resolved, disk, cacheVars, mta, history, Idle, AtRest
<1>3. Hands'
  BY <1>0, ProcessAssumption, MessageAssumption DEF TypeOK, Locks, Hands, MarkRead, Resolved, disk, cacheVars, mta, history, Idle, AtRest
<1>4. Writers'
  BY <1>0, ProcessAssumption, MessageAssumption DEF TypeOK, Locks, Writers, MarkRead, Resolved, disk, cacheVars, mta, history, Idle, AtRest
<1>5. CacheHolds'
  BY <1>0, ProcessAssumption, MessageAssumption DEF TypeOK, Locks, Writers, CacheHolds, MarkRead, Resolved, disk, cacheVars, mta, history, Copies, Idle, AtRest
<1>6. StoredOnce'
  BY <1>0, ProcessAssumption, MessageAssumption DEF TypeOK, Locks, Writers, CacheHolds, StoredOnce, MarkRead, Resolved, disk, cacheVars, mta, history, Copies
<1>7. Paths'
  BY <1>0, ProcessAssumption, MessageAssumption DEF TypeOK, Locks, Hands, Paths, MarkRead, Resolved, disk, cacheVars, mta, history, Path
<1>8. Vouched'
  BY <1>0, ProcessAssumption, MessageAssumption DEF TypeOK, Locks, Hands, Writers, Paths, Vouched, MarkRead, Resolved, disk, cacheVars, mta, history, Stored, MyFile, Idle, AtRest, File
<1>9. AckedWereStored'
  BY <1>0, ProcessAssumption, MessageAssumption DEF TypeOK, Vouched, AckedWereStored, MarkRead, Resolved, disk, cacheVars, mta, history, Stored
<1>q. QED  BY <1>1, <1>2, <1>3, <1>4, <1>5, <1>6, <1>7, <1>8, <1>9 DEF IInv

(* MARK finds no such file and gives the lock back at once.                *)
LEMMA MarkMissKeeps == ASSUME IInv, NEW c \in Client, MarkMiss(c) PROVE IInv'
<1>0. TypeOK /\ Locks /\ Hands /\ Writers /\ CacheHolds /\ StoredOnce /\ Paths /\ Vouched /\ AckedWereStored  BY DEF IInv
<1>1. TypeOK'
  <2>1. cli' \in [Client -> ClientState]
    BY <1>0, BoundAssumption DEF TypeOK, MarkMiss, Hands, Locks, ClientState, AtRest, Return, Delete, Mark, Stem, disk, cacheVars, mta, history
  <2>q. QED  BY <1>0, <2>1, ProcessAssumption DEF TypeOK, MarkMiss, Return, disk, cacheVars, mta, history
<1>2. Locks'
  BY <1>0, ProcessAssumption, MessageAssumption DEF TypeOK, Locks, MarkMiss, Return, disk, cacheVars, mta, history, Idle, AtRest
<1>3. Hands'
  BY <1>0, ProcessAssumption, MessageAssumption DEF TypeOK, Locks, Hands, MarkMiss, Return, disk, cacheVars, mta, history, Idle, AtRest
<1>4. Writers'
  BY <1>0, ProcessAssumption, MessageAssumption DEF TypeOK, Locks, Writers, MarkMiss, Return, disk, cacheVars, mta, history, Idle, AtRest
<1>5. CacheHolds'
  BY <1>0, ProcessAssumption, MessageAssumption DEF TypeOK, Locks, Writers, CacheHolds, MarkMiss, Return, disk, cacheVars, mta, history, Copies, Idle, AtRest
<1>6. StoredOnce'
  BY <1>0, ProcessAssumption, MessageAssumption DEF TypeOK, Locks, Writers, CacheHolds, StoredOnce, MarkMiss, Return, disk, cacheVars, mta, history, Copies
<1>7. Paths'
  BY <1>0, ProcessAssumption, MessageAssumption DEF TypeOK, Locks, Hands, Paths, MarkMiss, Return, disk, cacheVars, mta, history, Path
<1>8. Vouched'
  BY <1>0, ProcessAssumption, MessageAssumption DEF TypeOK, Locks, Hands, Writers, Paths, Vouched, MarkMiss, Return, disk, cacheVars, mta, history, Stored, MyFile, Idle, AtRest, File
<1>9. AckedWereStored'
  BY <1>0, ProcessAssumption, MessageAssumption DEF TypeOK, Vouched, AckedWereStored, MarkMiss, Return, disk, cacheVars, mta, history, Stored
<1>q. QED  BY <1>1, <1>2, <1>3, <1>4, <1>5, <1>6, <1>7, <1>8, <1>9 DEF IInv

(* The file MARK puts back is the one it read, but for the flag: under the *)
(* lock nobody has touched it since.                                       *)
LEMMA MarkPublishKeeps == ASSUME IInv, NEW c \in Client, MarkPublish(c) PROVE IInv'
<1>0. TypeOK /\ Locks /\ Hands /\ Writers /\ CacheHolds /\ StoredOnce /\ Paths /\ Vouched /\ AckedWereStored  BY DEF IInv
<1>g. PICK g \in mail : cli[c].copy = {g}
  BY <1>0 DEF MarkPublish, Hands
<1>b. cli[c].op.read \in BOOLEAN
  <2>1. cli[c].op \in Mark \cup {Delete}  BY <1>0 DEF TypeOK, ClientState
  <2>2. Delete.read \in BOOLEAN  BY DEF Delete
  <2>q. QED  BY <2>1, <2>2 DEF Mark
<1> DEFINE new == [g EXCEPT !.read = cli[c].op.read]
<1>n. /\ new \in File /\ new.stem = g.stem /\ new.msg = g.msg /\ new.text = g.text
      /\ new.fresh = g.fresh /\ Path(new) = Path(g)
  BY <1>0, <1>b, FlagsOnly, ReadOnly DEF TypeOK
<1>m. \/ mail' = {f \in mail : Path(f) # Path(g)} \cup {new}
      \/ mail' = mail
  BY <1>g DEF MarkPublish
<1> HIDE DEF new
<1>k. ASSUME NEW m, NEW f \in Copies(m)'
      PROVE  \/ f \in Copies(m) /\ (mail' = mail \/ Path(f) # Path(g))
             \/ f = new /\ g \in Copies(m)
  <2>1. f \in mail' /\ f.msg = m /\ f.text = "whole" /\ f.fresh  BY <1>k DEF Copies
  <2>2. CASE f \in mail  BY <1>m, <1>n, <2>1, <2>2 DEF Copies
  <2>3. CASE f \notin mail  BY <1>m, <1>n, <2>1, <2>3 DEF Copies
  <2>q. QED  BY <2>2, <2>3
<1>u. /\ UNCHANGED <<built, seen, lapsed, ses, kept, torn>>
  BY DEF MarkPublish, cacheVars, history
<1>s. \A r \in Session : ses[r].at \notin {"opening", "writing", "written"}
  BY <1>0, ProcessAssumption DEF MarkPublish, Locks
<1>1. TypeOK'
  <2>1. mail' \subseteq File  BY <1>0, <1>m, <1>n DEF TypeOK
  <2>2. cli' \in [Client -> ClientState]
    BY <1>0, BoundAssumption DEF TypeOK, MarkPublish, Return, AtRest, ClientState, Delete
  <2>3. env' \in [requests: Nat, faults: Nat, restarts: Nat, lapses: Nat]
    BY <1>0 DEF TypeOK, MarkPublish, Fault, Count
  <2>q. QED
    BY <1>0, <2>1, <2>2, <2>3 DEF TypeOK, MarkPublish, Unlock, cacheVars, mta, history
<1>2. Locks'
  BY <1>0, ProcessAssumption, MessageAssumption DEF TypeOK, Locks, MarkPublish, Unlock, Return, Fault, Count, cacheVars, mta, history, Idle, AtRest
<1>3. Hands'
  BY <1>0, ProcessAssumption, MessageAssumption DEF TypeOK, Locks, Hands, MarkPublish, Unlock, Return, Fault, Count, cacheVars, mta, history, Idle, AtRest
<1>4. Writers'
  BY <1>0, ProcessAssumption, MessageAssumption DEF TypeOK, Locks, Writers, MarkPublish, Unlock, Return, Fault, Count, cacheVars, mta, history, Idle, AtRest
<1>5. CacheHolds'
  <2>1. \A m : Copies(m)' # {} => Copies(m) # {}  BY <1>k
  <2>q. QED  BY <1>0, <1>u, <2>1 DEF CacheHolds
<1>6. StoredOnce'
  <2>1. ASSUME NEW m \in Message \ Split, NEW f \in Copies(m)', NEW h \in Copies(m)' PROVE f = h
    <3>1. CASE mail' = mail  BY <1>0, <3>1 DEF StoredOnce, Copies
    <3>2. CASE mail' # mail
      <4>1. g \in Copies(m) /\ f # new => Path(f) # Path(g) /\ f \in Copies(m)  BY <1>k, <3>2
      <4>2. g \in Copies(m) /\ h # new => Path(h) # Path(g) /\ h \in Copies(m)  BY <1>k, <3>2
      <4>q. QED  BY <1>0, <1>k, <4>1, <4>2 DEF StoredOnce
    <3>q. QED  BY <3>1, <3>2
  <2>q. QED  BY <2>1 DEF StoredOnce
<1>7. Paths'
  BY <1>0, <1>m, <1>n DEF Paths
<1>8. Vouched'
  <2>1. \A f \in mail' : \E h \in mail : h.msg = f.msg /\ h.text = f.text
    BY <1>m, <1>n
  <2>2. \A f \in mail' : f.text = "head" => f.msg \in torn
    BY <1>0, <1>s, <2>1 DEF Vouched
  <2>q. QED  BY <1>0, <1>u, <2>1, <2>2 DEF Vouched, Stored
<1>9. AckedWereStored'
  BY <1>0, ProcessAssumption, MessageAssumption DEF TypeOK, Vouched, AckedWereStored, MarkPublish, Unlock, Return, Fault, Count, cacheVars, mta, history, Stored
<1>q. QED  BY <1>1, <1>2, <1>3, <1>4, <1>5, <1>6, <1>7, <1>8, <1>9 DEF IInv

(* A forced DELETE takes the lock.                                         *)
LEMMA WipeStartKeeps == ASSUME IInv, NEW c \in Client, WipeStart(c) PROVE IInv'
<1>0. TypeOK /\ Locks /\ Hands /\ Writers /\ CacheHolds /\ StoredOnce /\ Paths /\ Vouched /\ AckedWereStored  BY DEF IInv
<1>1. TypeOK'
  <2>1. cli' \in [Client -> ClientState]
    BY ZenonT(60), <1>0, BoundAssumption DEF TypeOK, WipeStart, Hands, Locks, ClientState, AtRest, Return, Delete, Mark, Stem, disk, cacheVars, mta, history
  <2>q. QED  BY <1>0, <2>1, ProcessAssumption DEF TypeOK, WipeStart, disk, cacheVars, mta, history
<1>2. Locks'
  BY <1>0, ProcessAssumption, MessageAssumption DEF TypeOK, Locks, WipeStart, disk, cacheVars, mta, history, Idle, AtRest
<1>3. Hands'
  BY <1>0, ProcessAssumption, MessageAssumption DEF TypeOK, Locks, Hands, WipeStart, disk, cacheVars, mta, history, Idle, AtRest
<1>4. Writers'
  BY <1>0, ProcessAssumption, MessageAssumption DEF TypeOK, Locks, Writers, WipeStart, disk, cacheVars, mta, history, Idle, AtRest
<1>5. CacheHolds'
  BY <1>0, ProcessAssumption, MessageAssumption DEF TypeOK, Locks, Writers, CacheHolds, WipeStart, disk, cacheVars, mta, history, Copies, Idle, AtRest
<1>6. StoredOnce'
  BY <1>0, ProcessAssumption, MessageAssumption DEF TypeOK, Locks, Writers, CacheHolds, StoredOnce, WipeStart, disk, cacheVars, mta, history, Copies
<1>7. Paths'
  BY <1>0, ProcessAssumption, MessageAssumption DEF TypeOK, Locks, Hands, Paths, WipeStart, disk, cacheVars, mta, history, Path
<1>8. Vouched'
  BY <1>0, ProcessAssumption, MessageAssumption DEF TypeOK, Locks, Hands, Writers, Paths, Vouched, WipeStart, disk, cacheVars, mta, history, Stored, MyFile, Idle, AtRest, File
<1>9. AckedWereStored'
  BY <1>0, ProcessAssumption, MessageAssumption DEF TypeOK, Vouched, AckedWereStored, WipeStart, disk, cacheVars, mta, history, Stored
<1>q. QED  BY <1>1, <1>2, <1>3, <1>4, <1>5, <1>6, <1>7, <1>8, <1>9 DEF IInv

(* Files only go: no copy appears and no id is forgotten.                  *)
LEMMA WipeEntryKeeps == ASSUME IInv, NEW c \in Client, WipeEntry(c) PROVE IInv'
<1>0. TypeOK /\ Locks /\ Hands /\ Writers /\ CacheHolds /\ StoredOnce /\ Paths /\ Vouched /\ AckedWereStored  BY DEF IInv
<1>1. TypeOK'
  BY <1>0, ProcessAssumption, MessageAssumption DEF TypeOK, WipeEntry, InBundle, cacheVars, mta, history, File, Idle, AtRest
<1>2. Locks'
  BY <1>0, ProcessAssumption, MessageAssumption DEF TypeOK, Locks, WipeEntry, InBundle, cacheVars, mta, history, Idle, AtRest
<1>3. Hands'
  BY <1>0, ProcessAssumption, MessageAssumption DEF TypeOK, Locks, Hands, WipeEntry, InBundle, cacheVars, mta, history, Idle, AtRest
<1>4. Writers'
  BY <1>0, ProcessAssumption, MessageAssumption DEF TypeOK, Locks, Writers, WipeEntry, InBundle, cacheVars, mta, history, Idle, AtRest
<1>5. CacheHolds'
  BY <1>0, ProcessAssumption, MessageAssumption DEF TypeOK, Locks, Writers, CacheHolds, WipeEntry, InBundle, cacheVars, mta, history, Copies, Idle, AtRest
<1>6. StoredOnce'
  BY <1>0, ProcessAssumption, MessageAssumption DEF TypeOK, Locks, Writers, CacheHolds, StoredOnce, WipeEntry, InBundle, cacheVars, mta, history, Copies
<1>7. Paths'
  BY <1>0, ProcessAssumption, MessageAssumption DEF TypeOK, Locks, Hands, Paths, WipeEntry, InBundle, cacheVars, mta, history, Path
<1>8. Vouched'
  BY <1>0, ProcessAssumption, MessageAssumption DEF TypeOK, Locks, Hands, Writers, Paths, Vouched, WipeEntry, InBundle, cacheVars, mta, history, Stored, MyFile, Idle, AtRest, File
<1>9. AckedWereStored'
  BY <1>0, ProcessAssumption, MessageAssumption DEF TypeOK, Vouched, AckedWereStored, WipeEntry, InBundle, cacheVars, mta, history, Stored
<1>q. QED  BY <1>1, <1>2, <1>3, <1>4, <1>5, <1>6, <1>7, <1>8, <1>9 DEF IInv

(* The wipe gives the lock back, complete or not.                          *)
LEMMA WipeEndKeeps == ASSUME IInv, NEW c \in Client, WipeEnd(c) PROVE IInv'
<1>0. TypeOK /\ Locks /\ Hands /\ Writers /\ CacheHolds /\ StoredOnce /\ Paths /\ Vouched /\ AckedWereStored  BY DEF IInv
<1>1. TypeOK'
  <2>1. cli' \in [Client -> ClientState]
    BY <1>0, BoundAssumption DEF TypeOK, WipeEnd, Hands, Locks, ClientState, AtRest, Return, Delete, Mark, Stem, disk, cacheVars, mta, history
  <2>2. env' \in [requests: Nat, faults: Nat, restarts: Nat, lapses: Nat]
    BY <1>0, BoundAssumption DEF TypeOK, WipeEnd, Hands, Locks, Count, Fault, disk, cacheVars, mta, history
  <2>q. QED  BY <1>0, <2>1, <2>2, ProcessAssumption DEF TypeOK, WipeEnd, Fault, Count, Unlock, Return, disk, cacheVars, mta, history
<1>2. Locks'
  BY <1>0, ProcessAssumption, MessageAssumption DEF TypeOK, Locks, WipeEnd, Fault, Count, Unlock, Return, disk, cacheVars, mta, history, Idle, AtRest
<1>3. Hands'
  BY <1>0, ProcessAssumption, MessageAssumption DEF TypeOK, Locks, Hands, WipeEnd, Fault, Count, Unlock, Return, disk, cacheVars, mta, history, Idle, AtRest
<1>4. Writers'
  BY <1>0, ProcessAssumption, MessageAssumption DEF TypeOK, Locks, Writers, WipeEnd, Fault, Count, Unlock, Return, disk, cacheVars, mta, history, Idle, AtRest
<1>5. CacheHolds'
  BY <1>0, ProcessAssumption, MessageAssumption DEF TypeOK, Locks, Writers, CacheHolds, WipeEnd, Fault, Count, Unlock, Return, disk, cacheVars, mta, history, Copies, Idle, AtRest
<1>6. StoredOnce'
  BY <1>0, ProcessAssumption, MessageAssumption DEF TypeOK, Locks, Writers, CacheHolds, StoredOnce, WipeEnd, Fault, Count, Unlock, Return, disk, cacheVars, mta, history, Copies
<1>7. Paths'
  BY <1>0, ProcessAssumption, MessageAssumption DEF TypeOK, Locks, Hands, Paths, WipeEnd, Fault, Count, Unlock, Return, disk, cacheVars, mta, history, Path
<1>8. Vouched'
  BY <1>0, ProcessAssumption, MessageAssumption DEF TypeOK, Locks, Hands, Writers, Paths, Vouched, WipeEnd, Fault, Count, Unlock, Return, disk, cacheVars, mta, history, Stored, MyFile, Idle, AtRest, File
<1>9. AckedWereStored'
  BY <1>0, ProcessAssumption, MessageAssumption DEF TypeOK, Vouched, AckedWereStored, WipeEnd, Fault, Count, Unlock, Return, disk, cacheVars, mta, history, Stored
<1>q. QED  BY <1>1, <1>2, <1>3, <1>4, <1>5, <1>6, <1>7, <1>8, <1>9 DEF IInv

(* A letter of more than 24 hours has no fresh copy, so its cache entry    *)
(* may go.                                                                 *)
LEMMA LapseKeeps == ASSUME IInv, NEW m \in Message, Lapse(m) PROVE IInv'
<1>0. TypeOK /\ Locks /\ Hands /\ Writers /\ CacheHolds /\ StoredOnce /\ Paths /\ Vouched /\ AckedWereStored  BY DEF IInv
<1>m. mail' = {IF f.msg = m THEN [f EXCEPT !.fresh = FALSE] ELSE f : f \in mail}
  BY DEF Lapse
<1>f. \A g \in mail' : \E f \in mail :
        /\ g \in File /\ g.stem = f.stem /\ g.msg = f.msg /\ g.text = f.text /\ Path(g) = Path(f)
        /\ g = IF f.msg = m THEN [f EXCEPT !.fresh = FALSE] ELSE f
  <2>1. ASSUME NEW f \in mail, NEW g, g = IF f.msg = m THEN [f EXCEPT !.fresh = FALSE] ELSE f
        PROVE  /\ g \in File /\ g.stem = f.stem /\ g.msg = f.msg
               /\ g.text = f.text /\ Path(g) = Path(f)
    <3>1. f \in File  BY <1>0 DEF TypeOK
    <3>2. [f EXCEPT !.fresh = FALSE] \in {[f EXCEPT !.read = FALSE], [f EXCEPT !.fresh = FALSE]}
      OBVIOUS
    <3>q. QED  BY <2>1, <3>1, <3>2, FlagsOnly
  <2>q. QED  BY <1>m, <2>1
<1>k. Copies(m)' = {} /\ \A l \in Message : l # m => Copies(l)' \subseteq Copies(l)
  <2>1. ASSUME NEW l \in Message, NEW g \in Copies(l)' PROVE l # m /\ g \in Copies(l)
    <3>1. g \in mail' /\ g.msg = l /\ g.text = "whole" /\ g.fresh  BY DEF Copies
    <3>2. PICK f \in mail : g.msg = f.msg /\ g = IF f.msg = m THEN [f EXCEPT !.fresh = FALSE] ELSE f
      BY <1>f, <3>1
    <3>3. f \in File  BY <1>0 DEF TypeOK
    <3>4. f.msg # m  BY <3>1, <3>2, <3>3, FreshOnly
    <3>q. QED  BY <3>1, <3>2, <3>4 DEF Copies
  <2>q. QED  BY <2>1
<1>u. /\ UNCHANGED <<built, seen, ses, kept, torn>>
      /\ lapsed' \subseteq lapsed \cup {m}
      /\ lapsed' \subseteq Message
  BY <1>0 DEF Lapse, history, TypeOK
<1>s. \A r \in Session : ses[r].at \notin {"opening", "writing", "written"}
  BY <1>0, ProcessAssumption DEF Lapse, Locks
<1>1. TypeOK'
  <2>1. mail' \subseteq File  BY <1>f
  <2>2. env' \in [requests: Nat, faults: Nat, restarts: Nat, lapses: Nat]
    BY <1>0 DEF TypeOK, Lapse, Count
  <2>q. QED  BY <1>0, <2>1, <2>2 DEF TypeOK, Lapse, mta, history
<1>2. Locks'
  BY <1>0, ProcessAssumption, MessageAssumption DEF TypeOK, Locks, Lapse, Count, mta, history, Idle, AtRest
<1>3. Hands'
  BY <1>0, ProcessAssumption, MessageAssumption DEF TypeOK, Locks, Hands, Lapse, Count, mta, history, Idle, AtRest
<1>4. Writers'
  BY <1>0, ProcessAssumption, MessageAssumption DEF TypeOK, Locks, Writers, Lapse, Count, mta, history, Idle, AtRest
<1>5. CacheHolds'
  BY <1>0, <1>k, <1>u DEF CacheHolds, TypeOK
<1>6. StoredOnce'
  BY <1>0, <1>k DEF StoredOnce
<1>7. Paths'
  <2>1. ASSUME NEW g \in mail', NEW h \in mail', Path(g) = Path(h) PROVE g = h
    <3>1. PICK f \in mail : Path(g) = Path(f) /\ g = IF f.msg = m THEN [f EXCEPT !.fresh = FALSE] ELSE f
      BY <1>f
    <3>2. PICK e \in mail : Path(h) = Path(e) /\ h = IF e.msg = m THEN [e EXCEPT !.fresh = FALSE] ELSE e
      BY <1>f
    <3>q. QED  BY <1>0, <2>1, <3>1, <3>2 DEF Paths
  <2>q. QED  BY <2>1 DEF Paths, Path
<1>8. Vouched'
  <2>2. \A g \in mail' : g.text = "head" => g.msg \in torn
    BY <1>0, <1>f, <1>s DEF Vouched
  <2>3. \A g \in mail' : g.text = "whole" => kept[g.msg] > 0
    BY <1>0, <1>f DEF Vouched
  <2>q. QED  BY <1>0, <1>u, <2>2, <2>3 DEF Vouched, Stored
<1>9. AckedWereStored'
  BY <1>0, ProcessAssumption, MessageAssumption DEF TypeOK, Vouched, AckedWereStored, Lapse, Count, mta, history, Stored
<1>q. QED  BY <1>1, <1>2, <1>3, <1>4, <1>5, <1>6, <1>7, <1>8, <1>9 DEF IInv

(* An entry that goes has no fresh copy to vouch for.                      *)
LEMMA EvictKeeps == ASSUME IInv, NEW m \in Message, Evict(m) PROVE IInv'
<1>0. TypeOK /\ Locks /\ Hands /\ Writers /\ CacheHolds /\ StoredOnce /\ Paths /\ Vouched /\ AckedWereStored  BY DEF IInv
<1>1. TypeOK'
  BY <1>0, ProcessAssumption, MessageAssumption DEF TypeOK, Evict, disk, mta, history, File, Idle, AtRest
<1>2. Locks'
  BY <1>0, ProcessAssumption, MessageAssumption DEF TypeOK, Locks, Evict, disk, mta, history, Idle, AtRest
<1>3. Hands'
  BY <1>0, ProcessAssumption, MessageAssumption DEF TypeOK, Locks, Hands, Evict, disk, mta, history, Idle, AtRest
<1>4. Writers'
  BY <1>0, ProcessAssumption, MessageAssumption DEF TypeOK, Locks, Writers, Evict, disk, mta, history, Idle, AtRest
<1>5. CacheHolds'
  BY <1>0, ProcessAssumption, MessageAssumption DEF TypeOK, Locks, Writers, CacheHolds, Evict, disk, mta, history, Copies, Idle, AtRest
<1>6. StoredOnce'
  BY <1>0, ProcessAssumption, MessageAssumption DEF TypeOK, Locks, Writers, CacheHolds, StoredOnce, Evict, disk, mta, history, Copies
<1>7. Paths'
  BY <1>0, ProcessAssumption, MessageAssumption DEF TypeOK, Locks, Hands, Paths, Evict, disk, mta, history, Path
<1>8. Vouched'
  BY <1>0, ProcessAssumption, MessageAssumption DEF TypeOK, Locks, Hands, Writers, Paths, Vouched, Evict, disk, mta, history, Stored, MyFile, Idle, AtRest, File
<1>9. AckedWereStored'
  BY <1>0, ProcessAssumption, MessageAssumption DEF TypeOK, Vouched, AckedWereStored, Evict, disk, mta, history, Stored
<1>q. QED  BY <1>1, <1>2, <1>3, <1>4, <1>5, <1>6, <1>7, <1>8, <1>9 DEF IInv

(* What is left after a restart is on disk; the cache is unbuilt and every *)
(* lock free.                                                              *)
LEMMA RestartKeeps == ASSUME IInv, Restart PROVE IInv'
<1>0. TypeOK /\ Locks /\ Hands /\ Writers /\ CacheHolds /\ StoredOnce /\ Paths /\ Vouched /\ AckedWereStored  BY DEF IInv
<1>1. TypeOK'
  <2>1. ses' \in [Session -> SessionState]
    BY BoundAssumption DEF Restart, Idle, SessionState, Stem
  <2>2. cli' \in [Client -> ClientState]
    BY DEF Restart, AtRest, ClientState
  <2>3. env' \in [requests: Nat, faults: Nat, restarts: Nat, lapses: Nat]
    BY <1>0 DEF TypeOK, Restart, Count
  <2>4. torn' \subseteq Message
    BY <1>0 DEF TypeOK, Restart, CutFiles, File
  <2>5. threads' \in [Message -> Nat] /\ holder' = NoOne /\ ~built' /\ seen' = {} /\ lapsed' = {}
    BY DEF Restart
  <2>q. QED  BY <1>0, <2>1, <2>2, <2>3, <2>4, <2>5 DEF TypeOK, Restart, disk, mta
<1>2. Locks'
  BY <1>0, ProcessAssumption, MessageAssumption DEF TypeOK, Locks, Restart, Count, CutFiles, Idle, disk, mta, AtRest
<1>3. Hands'
  BY <1>0, ProcessAssumption, MessageAssumption DEF TypeOK, Locks, Hands, Restart, Count, CutFiles, Idle, disk, mta, AtRest
<1>4. Writers'
  BY <1>0, ProcessAssumption, MessageAssumption DEF TypeOK, Locks, Writers, Restart, Count, CutFiles, Idle, disk, mta, AtRest
<1>5. CacheHolds'
  BY <1>0, ProcessAssumption, MessageAssumption DEF TypeOK, Locks, Writers, CacheHolds, Restart, Count, CutFiles, Idle, disk, mta, Copies, AtRest
<1>6. StoredOnce'
  BY <1>0, ProcessAssumption, MessageAssumption DEF TypeOK, Locks, Writers, CacheHolds, StoredOnce, Restart, Count, CutFiles, Idle, disk, mta, Copies
<1>7. Paths'
  BY <1>0, ProcessAssumption, MessageAssumption DEF TypeOK, Locks, Hands, Paths, Restart, Count, CutFiles, Idle, disk, mta, Path
<1>8. Vouched'
  BY <1>0, ProcessAssumption, MessageAssumption DEF TypeOK, Locks, Hands, Writers, Paths, Vouched, Restart, Count, CutFiles, Idle, disk, mta, Stored, MyFile, AtRest, File
<1>9. AckedWereStored'
  BY <1>0, ProcessAssumption, MessageAssumption DEF TypeOK, Vouched, AckedWereStored, Restart, Count, CutFiles, Idle, disk, mta, Stored
<1>q. QED  BY <1>1, <1>2, <1>3, <1>4, <1>5, <1>6, <1>7, <1>8, <1>9 DEF IInv

(* The invariant holds of an empty mailbox.                                *)
LEMMA InitHolds == Init => IInv
<1> SUFFICES ASSUME Init PROVE IInv  OBVIOUS
<1>1. TypeOK
  <2>1. Idle \in SessionState  BY BoundAssumption DEF Idle, SessionState, Stem
  <2>2. AtRest \in ClientState  BY DEF AtRest, ClientState
  <2>q. QED  BY <2>1, <2>2 DEF Init, TypeOK
<1>2. Locks /\ Hands /\ Writers
  BY ProcessAssumption DEF Init, Locks, Hands, Writers, Idle, AtRest
<1>3. CacheHolds /\ StoredOnce /\ Paths /\ Vouched /\ AckedWereStored
  BY DEF Init, CacheHolds, StoredOnce, Copies, Paths, Vouched, Idle, AckedWereStored
<1>q. QED  BY <1>1, <1>2, <1>3 DEF IInv

(* Nothing happens.                                                        *)
LEMMA StutterKeeps == ASSUME IInv, UNCHANGED vars PROVE IInv'
BY DEF IInv, vars, disk, cacheVars, mta, history, TypeOK, Locks, Hands, Writers,
       CacheHolds, StoredOnce, Copies, Paths, Vouched, Stored, MyFile, AckedWereStored

(* Every step preserves the invariant.                                     *)
LEMMA NextKeeps == ASSUME IInv, [Next]_vars PROVE IInv'
<1>1. ASSUME NEW s \in Session, Receive(s) \/ Ingest(s) PROVE IInv'
  BY <1>1, ReceiveKeeps, DuplicateKeeps, BeginKeeps, OpenKeeps, WriteSomeKeeps,
     WriteRestKeeps, FailKeeps, RecordKeeps, SpawnKeeps, ReplyKeeps DEF Ingest
<1>2. ASSUME NEW c \in Client, Ask(c) \/ Serve(c) PROVE IInv'
  BY <1>2, AskKeeps, MarkReadKeeps, MarkMissKeeps, MarkPublishKeeps,
     WipeStartKeeps, WipeEntryKeeps, WipeEndKeeps DEF Serve
<1>3. ASSUME NEW m \in Message, RunHook(m) \/ Lapse(m) \/ Evict(m) PROVE IInv'
  BY <1>3, RunHookKeeps, LapseKeeps, EvictKeeps
<1>q. QED  BY <1>1, <1>2, <1>3, RestartKeeps, StutterKeeps DEF Next

(* The invariant holds of every behaviour.                                 *)
LEMMA InboxInvariant == Spec => []IInv
BY InitHolds, NextKeeps, PTL DEF Spec

-----------------------------------------------------------------------------
(* What follows from it.                                                   *)

(* Type correctness.                                                       *)
THEOREM TypeCorrect == Spec => []TypeOK
<1>1. IInv => TypeOK  BY DEF IInv
<1>q. QED  BY <1>1, InboxInvariant, PTL

(* The promise of the Message-Id cache: whatever the MTA retries and       *)
(* whenever the daemon restarts, ingest_email stores a letter once in 24   *)
(* hours.                                                                  *)
THEOREM AtMostOneCopy == Spec => []StoredOnce
<1>1. IInv => StoredOnce  BY DEF IInv
<1>q. QED  BY <1>1, InboxInvariant, PTL

(* Outside a delivery's critical section the cache misses nothing that is  *)
(* stored: the insert comes before drop(_guard).                           *)
THEOREM CacheComplete == Spec => []CacheKnowsStored
<1>1. IInv => CacheKnowsStored
  BY DEF IInv, Locks, CacheHolds, CacheKnowsStored
<1>q. QED  BY <1>1, InboxInvariant, PTL

(* A letter answered with 250 was stored, or a cut file stands in for it.  *)
THEOREM AckMeansStored == Spec => []AckedWereStored
<1>1. IInv => AckedWereStored  BY DEF IInv
<1>q. QED  BY <1>1, InboxInvariant, PTL

(* No step undoes a letter: MARK rewrites under the lock what is there.    *)
LEMMA StepIntact ==
  ASSUME IInv, [Next]_vars, NEW g \in mail'
  PROVE  \/ \E f \in mail : f.stem = g.stem /\ f.msg = g.msg /\ g.text \in More(f.text)
         \/ /\ \A f \in mail : Path(f) # Path(g)
            /\ \E s \in Session : ses[s].at = "opening" /\ g = MyFile(s, "empty")
<1> DEFINE Grown == \E f \in mail : f.stem = g.stem /\ f.msg = g.msg /\ g.text \in More(f.text)
<1>0. TypeOK /\ Hands  BY DEF IInv
<1>1. \A f \in mail : f \in File /\ f.text \in Text  BY <1>0 DEF TypeOK, File
<1>2. \A t \in Text : t \in More(t) /\ "whole" \in More(t)  BY DEF Text, More
<1>3. (\E f \in mail : f.stem = g.stem /\ f.msg = g.msg /\ f.text = g.text) => Grown
  BY <1>1, <1>2
<1>4. g \in mail => Grown  BY <1>3
<1>5. CASE UNCHANGED mail  BY <1>4, <1>5
<1>6. ASSUME NEW s \in Session, Open(s) PROVE g \in mail \/ g = MyFile(s, "empty")
  BY <1>6 DEF Open
<1>7. ASSUME NEW s \in Session, WriteSome(s) PROVE Grown
  <2>1. g \in mail \/ g = MyFile(s, "head")  BY <1>7 DEF WriteSome
  <2>2. MyFile(s, "empty") \in mail  BY <1>7 DEF WriteSome
  <2>3. "head" \in More("empty")  BY DEF More, Text
  <2>4. MyFile(s, "head").text = "head" /\ MyFile(s, "empty").text = "empty"
        /\ MyFile(s, "head").stem = MyFile(s, "empty").stem
        /\ MyFile(s, "head").msg = MyFile(s, "empty").msg
    BY DEF MyFile
  <2>5. g = MyFile(s, "head") => g.text \in More(MyFile(s, "empty").text)  BY <2>3, <2>4
  <2>6. g = MyFile(s, "head") => Grown  BY <2>2, <2>4, <2>5
  <2>q. QED  BY <1>4, <2>1, <2>6
<1>8. ASSUME NEW s \in Session, WriteRest(s) PROVE Grown
  <2>1. PICK f \in mail : f = MyFile(s, f.text) /\ (g \in mail \/ g = MyFile(s, "whole"))
    BY <1>8 DEF WriteRest
  <2>2. /\ f.stem = MyFile(s, "whole").stem /\ f.msg = MyFile(s, "whole").msg
        /\ MyFile(s, "whole").text = "whole"
    BY <2>1 DEF MyFile
  <2>3. g = MyFile(s, "whole") => g.text \in More(f.text)  BY <1>1, <1>2, <2>2
  <2>4. g = MyFile(s, "whole") => Grown  BY <2>2, <2>3
  <2>q. QED  BY <1>4, <2>1, <2>4
<1>9. ASSUME NEW c \in Client, MarkPublish(c) PROVE Grown
  <2>1. PICK h \in mail : cli[c].copy = {h}  BY <1>0, <1>9 DEF Hands, MarkPublish
  <2>2. g \in mail \/ g = [h EXCEPT !.read = cli[c].op.read]
    BY <1>9, <2>1 DEF MarkPublish
  <2>3. h \in File  BY <1>1
  <2>4. g = [h EXCEPT !.read = cli[c].op.read] => g.stem = h.stem /\ g.msg = h.msg /\ g.text = h.text
    BY <2>3 DEF File
  <2>q. QED  BY <1>3, <1>4, <2>2, <2>4
<1>10. ASSUME NEW m \in Message, Lapse(m) PROVE Grown
  <2>1. PICK f \in mail : g = IF f.msg = m THEN [f EXCEPT !.fresh = FALSE] ELSE f
    BY <1>10 DEF Lapse
  <2>2. f \in File  BY <1>1
  <2>3. g.stem = f.stem /\ g.msg = f.msg /\ g.text = f.text  BY <2>1, <2>2 DEF File
  <2>q. QED  BY <1>3, <2>3
<1>11. ASSUME NEW c \in Client, WipeEntry(c) PROVE Grown
  BY <1>4, <1>11 DEF WipeEntry
<1>12. ASSUME NEW s \in Session, Fail(s) PROVE Grown
  BY <1>4, <1>12 DEF Fail, disk
<1>13. ASSUME NEW s \in Session, Open(s), g = MyFile(s, "empty")
       PROVE  ses[s].at = "opening" /\ \A f \in mail : Path(f) # Path(g)
  BY <1>13 DEF Open
<1>14. ASSUME Next, mail' # mail
       PROVE  \/ \E s \in Session : Open(s) \/ WriteSome(s) \/ WriteRest(s) \/ Fail(s)
              \/ \E c \in Client : MarkPublish(c) \/ WipeEntry(c)
              \/ \E m \in Message : Lapse(m)
  BY <1>14 DEF Next, Ingest, Serve, Receive, Duplicate, Begin, Record, Spawn, Reply,
               RunHook, Ask, MarkRead, MarkMiss, WipeStart, WipeEnd, Evict, Restart, disk
<1>15. UNCHANGED vars => UNCHANGED mail  BY DEF vars, disk
<1>q. QED  BY <1>4, <1>5, <1>6, <1>7, <1>8, <1>9, <1>10, <1>11, <1>12, <1>13, <1>14, <1>15

(* Whatever MARKs, wipes and deliveries cross, a file only ever gains      *)
(* text, and only the delivery that opened it puts it there.               *)
THEOREM NothingUndone == Spec => MailIntact
<1>1. ASSUME IInv, [Next]_vars
      PROVE  [\A g \in mail' :
                \/ \E f \in mail : f.stem = g.stem /\ f.msg = g.msg /\ g.text \in More(f.text)
                \/ /\ \A f \in mail : Path(f) # Path(g)
                   /\ \E s \in Session : ses[s].at = "opening" /\ g = MyFile(s, "empty")]_vars
  BY <1>1, StepIntact
<1>q. QED  BY <1>1, InboxInvariant, PTL DEF Spec, MailIntact

-----------------------------------------------------------------------------
(* on_receive.  Every store is owed one hook: fired, in a thread, or still *)
(* in the hands of the session that stored.                                *)

Due(m) == {s \in Session : ses[s].at \in {"written", "stored"} /\ ses[s].msg = m}
HooksDue == \A m \in Message : fired[m] + threads[m] + Cardinality(Due(m)) <= kept[m]

(* A letter is in the hands of finitely many sessions.                     *)
LEMMA DueFinite == ASSUME NEW m PROVE IsFiniteSet(Due(m)) /\ Cardinality(Due(m)) \in Nat
<1>1. Due(m) \in SUBSET Session  BY DEF Due
<1>2. IsFiniteSet(Due(m))  BY <1>1, ProcessAssumption, FS_Subset
<1>q. QED  BY <1>2, FS_CardinalityType

(* Neither hooks nor stores change, and nobody's debt does.                *)
LEMMA DebtUnchanged ==
  ASSUME HooksDue, UNCHANGED <<fired, threads, kept>>,
         \A s \in Session : \/ UNCHANGED ses[s]
                            \/ /\ ses[s].at \notin {"written", "stored"}
                               /\ ses'[s].at \notin {"written", "stored"}
                            \/ /\ ses[s].at \in {"written", "stored"}
                               /\ ses'[s].at \in {"written", "stored"}
                               /\ ses'[s].msg = ses[s].msg
  PROVE  HooksDue'
<1>1. \A m : Due(m)' = Due(m)  BY DEF Due
<1>q. QED  BY <1>1 DEF HooksDue

(* A store adds one to kept and one session to those that owe a hook.      *)
LEMMA WriteRestOwes ==
  ASSUME IInv, HooksDue, NEW s \in Session, WriteRest(s) PROVE HooksDue'
<1>0. TypeOK /\ Hands  BY DEF IInv
<1>1. ses[s].at = "writing" /\ ses[s].msg \in Message  BY <1>0 DEF WriteRest, Hands
<1>2. \A r \in Session : ses'[r] = IF r = s THEN [ses[s] EXCEPT !.at = "written"] ELSE ses[r]
  BY <1>0 DEF WriteRest, Goto, TypeOK
<1>3. ses'[s].at = "written" /\ ses'[s].msg = ses[s].msg
  BY <1>0, <1>2 DEF TypeOK, SessionState
<1>4. \A m \in Message : Due(m)' = IF m = ses[s].msg THEN Due(m) \cup {s} ELSE Due(m)
  BY <1>1, <1>2, <1>3 DEF Due
<1>5. \A m : s \notin Due(m)  BY <1>1 DEF Due
<1>6. UNCHANGED <<fired, threads>>
      /\ \A m \in Message : kept'[m] = IF m = ses[s].msg THEN kept[m] + 1 ELSE kept[m]
  BY <1>0, <1>1 DEF WriteRest, Bump, TypeOK
<1>7. ASSUME NEW m \in Message
      PROVE  fired'[m] + threads'[m] + Cardinality(Due(m)') <= kept'[m]
  <2>1. Cardinality(Due(m) \cup {s}) = Cardinality(Due(m)) + 1
    BY <1>5, DueFinite, FS_AddElement
  <2>2. fired[m] + threads[m] + Cardinality(Due(m)) <= kept[m]  BY DEF HooksDue
  <2>3. fired[m] \in Nat /\ threads[m] \in Nat /\ kept[m] \in Nat  BY <1>0 DEF TypeOK
  <2>4. Cardinality(Due(m)) \in Nat  BY DueFinite
  <2>5. Cardinality(Due(m)') =
          IF m = ses[s].msg THEN Cardinality(Due(m)) + 1 ELSE Cardinality(Due(m))
    BY <1>4, <2>1
  <2>q. QED  BY <1>6, <2>2, <2>3, <2>4, <2>5
<1>q. QED  BY <1>7 DEF HooksDue

(* The session's debt becomes a thread, or is written off when no thread   *)
(* can be started.                                                         *)
LEMMA SpawnOwes ==
  ASSUME IInv, HooksDue, NEW s \in Session, Spawn(s) PROVE HooksDue'
<1>0. TypeOK /\ Hands  BY DEF IInv
<1>1. ses[s].at = "stored" /\ ses[s].msg \in Message  BY <1>0 DEF Spawn, Hands
<1>2. \A r \in Session : ses'[r] = IF r = s THEN [ses[s] EXCEPT !.at = "replying"] ELSE ses[r]
  BY <1>0 DEF Spawn, Goto, TypeOK
<1>3. ses'[s].at = "replying"  BY <1>0, <1>2 DEF TypeOK, SessionState
<1>4. \A m \in Message : Due(m)' = IF m = ses[s].msg THEN Due(m) \ {s} ELSE Due(m)
  BY <1>1, <1>2, <1>3 DEF Due
<1>5. s \in Due(ses[s].msg)  BY <1>1 DEF Due
<1>6. /\ UNCHANGED <<fired, kept>>
      /\ \/ UNCHANGED threads
         \/ \A m \in Message : threads'[m] = IF m = ses[s].msg THEN threads[m] + 1 ELSE threads[m]
  BY <1>0, <1>1 DEF Spawn, Bump, history, TypeOK
<1>7. ASSUME NEW m \in Message
      PROVE  fired'[m] + threads'[m] + Cardinality(Due(m)') <= kept'[m]
  <2>1. m = ses[s].msg => Cardinality(Due(m) \ {s}) = Cardinality(Due(m)) - 1
    BY <1>5, DueFinite, FS_RemoveElement
  <2>2. fired[m] + threads[m] + Cardinality(Due(m)) <= kept[m]  BY DEF HooksDue
  <2>3. fired[m] \in Nat /\ threads[m] \in Nat /\ kept[m] \in Nat  BY <1>0 DEF TypeOK
  <2>4. Cardinality(Due(m)) \in Nat  BY DueFinite
  <2>5. Cardinality(Due(m)') =
          IF m = ses[s].msg THEN Cardinality(Due(m)) - 1 ELSE Cardinality(Due(m))
    BY <1>4, <2>1
  <2>q. QED  BY <1>6, <2>2, <2>3, <2>4, <2>5
<1>q. QED  BY <1>7 DEF HooksDue

(* A thread becomes a hook that has fired.                                 *)
LEMMA RunHookOwes ==
  ASSUME IInv, HooksDue, NEW n \in Message, RunHook(n) PROVE HooksDue'
<1>0. TypeOK  BY DEF IInv
<1>1. \A m : Due(m)' = Due(m)  BY DEF RunHook, Due
<1>2. /\ kept' = kept /\ threads[n] > 0
      /\ \A m \in Message : /\ threads'[m] = IF m = n THEN threads[m] - 1 ELSE threads[m]
                            /\ fired'[m] = IF m = n THEN fired[m] + 1 ELSE fired[m]
  BY <1>0 DEF RunHook, Bump, TypeOK
<1>3. ASSUME NEW m \in Message
      PROVE  fired'[m] + threads'[m] + Cardinality(Due(m)') <= kept'[m]
  <2>1. fired[m] \in Nat /\ threads[m] \in Nat /\ kept[m] \in Nat  BY <1>0 DEF TypeOK
  <2>2. Cardinality(Due(m)) \in Nat  BY DueFinite
  <2>3. fired[m] + threads[m] + Cardinality(Due(m)) <= kept[m]  BY DEF HooksDue
  <2>q. QED  BY <1>1, <1>2, <2>1, <2>2, <2>3
<1>q. QED  BY <1>3 DEF HooksDue

(* A restart cancels all debts and threads.                                *)
LEMMA RestartOwes == ASSUME IInv, HooksDue, Restart PROVE HooksDue'
<1>0. TypeOK  BY DEF IInv
<1>1. \A m : Due(m)' = {}  BY DEF Restart, Due, Idle
<1>2. kept' = kept /\ fired' = fired /\ \A m \in Message : threads'[m] = 0  BY DEF Restart
<1>3. ASSUME NEW m \in Message
      PROVE  fired'[m] + threads'[m] + Cardinality(Due(m)') <= kept'[m]
  <2>1. fired[m] \in Nat /\ threads[m] \in Nat /\ kept[m] \in Nat  BY <1>0 DEF TypeOK
  <2>2. Cardinality(Due(m)) \in Nat  BY DueFinite
  <2>3. fired[m] + threads[m] + Cardinality(Due(m)) <= kept[m]  BY DEF HooksDue
  <2>4. Cardinality(Due(m)') = 0  BY <1>1, FS_EmptySet
  <2>q. QED  BY <1>2, <2>1, <2>2, <2>3, <2>4
<1>q. QED  BY <1>3 DEF HooksDue

(* No step fires, starts or owes a hook without a store.                   *)
LEMMA NextOwes == ASSUME IInv, HooksDue, [Next]_vars PROVE HooksDue'
<1>0. TypeOK  BY DEF IInv
<1>t. \A s \in Session : ses[s] \in SessionState  BY <1>0 DEF TypeOK
<1>1. ASSUME NEW s \in Session,
             Receive(s) \/ Duplicate(s) \/ Begin(s) \/ Open(s) \/ WriteSome(s)
      PROVE  HooksDue'
  <2>1. UNCHANGED <<fired, threads, kept>>
    BY <1>1 DEF Receive, Duplicate, Begin, Open, WriteSome, history
  <2>2. /\ \A r \in Session : r # s => UNCHANGED ses[r]
        /\ ses[s].at \notin {"written", "stored"}
        /\ ses' = ses \/ ses'[s].at \notin {"written", "stored"}
    BY <1>0, <1>t, <1>1
    DEF Receive, Duplicate, Begin, Open, WriteSome, Goto, TypeOK, SessionState
  <2>q. QED  BY <2>1, <2>2, DebtUnchanged
<1>2. ASSUME NEW s \in Session, Fail(s) \/ Record(s) \/ Reply(s) PROVE HooksDue'
  <2>1. UNCHANGED <<fired, threads, kept>>
    BY <1>2 DEF Fail, Record, Reply, history
  <2>2. /\ \A r \in Session : r # s => UNCHANGED ses[r]
        /\ \/ ses[s].at \notin {"written", "stored"} /\ ses'[s].at \notin {"written", "stored"}
           \/ /\ ses[s].at = "written" /\ ses'[s].at = "stored"
              /\ ses'[s].msg = ses[s].msg
    BY <1>0, <1>t, <1>2 DEF Fail, Record, Reply, Goto, Idle, TypeOK, SessionState
  <2>q. QED  BY <2>1, <2>2, DebtUnchanged
<1>3. ASSUME NEW c \in Client, Ask(c) \/ Serve(c) PROVE HooksDue'
  BY <1>3, DebtUnchanged
  DEF Ask, Serve, MarkRead, MarkMiss, MarkPublish, WipeStart, WipeEntry, WipeEnd, history
<1>4. ASSUME NEW m \in Message, Lapse(m) \/ Evict(m) PROVE HooksDue'
  BY <1>4, DebtUnchanged DEF Lapse, Evict, history
<1>5. CASE UNCHANGED vars
  BY <1>5, DebtUnchanged DEF vars, history
<1>q. QED
  BY <1>1, <1>2, <1>3, <1>4, <1>5, WriteRestOwes, SpawnOwes, RunHookOwes, RestartOwes
  DEF Next, Ingest

LEMMA HooksInvariant == Spec => []HooksDue
<1>1. Init => HooksDue
  <2>1. Init => \A m \in Message : Due(m) = {}  BY DEF Init, Due, Idle
  <2>q. QED  BY <2>1, FS_EmptySet DEF Init, HooksDue
<1>2. IInv /\ HooksDue /\ [Next]_vars => HooksDue'  BY NextOwes
<1>q. QED  BY <1>1, <1>2, InboxInvariant, PTL DEF Spec

(* on_receive fires no more often for a letter than it was stored.         *)
THEOREM HooksNotRepeated == Spec => []HookPerStore
<1>1. ASSUME TypeOK, HooksDue, NEW m \in Message PROVE fired[m] <= kept[m]
  <2>1. fired[m] \in Nat /\ threads[m] \in Nat /\ kept[m] \in Nat  BY <1>1 DEF TypeOK
  <2>2. Cardinality(Due(m)) \in Nat  BY DueFinite
  <2>3. fired[m] + threads[m] + Cardinality(Due(m)) <= kept[m]  BY <1>1 DEF HooksDue
  <2>q. QED  BY <2>1, <2>2, <2>3
<1>2. IInv /\ HooksDue => HookPerStore
  BY <1>1 DEF IInv, HookPerStore
<1>q. QED  BY <1>2, HooksInvariant, InboxInvariant, PTL

-----------------------------------------------------------------------------
(* The refinement of AtomicInbox.                                          *)

Whole(files) == {f \in files : f.text = "whole" /\ f.fresh}

(* What is there goes by the files that are whole and fresh.               *)
LEMMA PresentIs ==
  ASSUME TypeOK
  PROVE  /\ present = {f.msg : f \in Whole(mail)}
         /\ present \subseteq Message
         /\ \A m \in Message : m \in present <=> Copies(m) # {}
BY DEF present, Whole, Copies, TypeOK, File

LEMMA SamePresent ==
  ASSUME Whole(mail') = Whole(mail)
  PROVE  present' = present
BY DEF present, Whole

LEMMA FewerPresent ==
  ASSUME mail' \subseteq mail
  PROVE  present' \subseteq present
BY DEF present

(* What is remembered goes by the cache and the sessions at the entry.     *)
LEMMA SameRemembered ==
  ASSUME UNCHANGED seen,
         \A r \in Session : /\ ses'[r].at = "written" <=> ses[r].at = "written"
                            /\ ses[r].at = "written" => ses'[r].msg = ses[r].msg
  PROVE  UNCHANGED remembered
<1>1. Recording' = Recording  BY DEF Recording
<1>2. \A r \in Recording : ses'[r].msg = ses[r].msg  BY DEF Recording
<1>q. QED  BY <1>1, <1>2 DEF remembered

(* Nobody is at the entry but the holder of the lock.                      *)
LEMMA NobodyRecords ==
  ASSUME Locks, holder \notin Session \/ ses[holder].at # "written"
  PROVE  Recording = {} /\ remembered = seen
<1>1. Recording = {}  BY DEF Locks, Recording
<1>q. QED  BY <1>1 DEF remembered

(* Steps of the lock, of clients and of bytes that nobody sees.            *)
LEMMA UnseenStep ==
  ASSUME UNCHANGED <<kept, fired, acked, torn, env.lapses, env.restarts, lapsed, built>>,
         UNCHANGED <<remembered, present>>
  PROVE  UNCHANGED Atomic!vars
BY DEF Atomic!vars, Atomic!record, Atomic!time, Atomic!memory

(* A count of requests or of faults is not one of lapses or restarts.      *)
LEMMA OtherCounts ==
  ASSUME TypeOK, NEW event \in {"requests", "faults"}, Count(event) \/ UNCHANGED env
  PROVE  UNCHANGED <<env.lapses, env.restarts>>
BY DEF TypeOK, Count

LEMMA InitRefines == Init => Atomic!Init
BY DEF Init, Atomic!Init, present, remembered, Recording, Idle

Refines == [Atomic!Next]_(Atomic!vars)

(* The first look at the directory under the lock, and any later one.      *)
LEMMA ConsultRefines ==
  ASSUME IInv, holder = NoOne, Consult, UNCHANGED <<kept, fired, acked, torn, env>>,
         Whole(mail') = Whole(mail), \A r \in Session : ses'[r].at # "written"
  PROVE  Refines
<1>0. TypeOK /\ Locks /\ Vouched  BY DEF IInv
<1>1. remembered = seen
  BY <1>0, NobodyRecords, ProcessAssumption
<1>2. remembered' = Known /\ seen' = Known /\ lapsed' = lapsed /\ built'
  BY DEF Consult, remembered, Recording
<1>3. present' = present  BY SamePresent
<1>4. CASE built
  BY <1>1, <1>2, <1>3, <1>4, UnseenStep DEF Known, Refines
<1>5. CASE ~built
  <2>1. Known = OnDisk  BY <1>5 DEF Known
  <2>2. present \ Split \subseteq OnDisk
    BY <1>0 DEF present, OnDisk, Readable, TypeOK, File
  <2>3. ASSUME NEW m \in OnDisk PROVE m \in present \ Split \/ m \in torn
    <3>1. PICK f \in mail : f.msg = m /\ f.fresh /\ Readable(f)  BY DEF OnDisk
    <3>2. CASE f.text = "whole"  BY <3>1, <3>2 DEF Readable, present
    <3>3. CASE f.text = "head"
      BY <1>0, <3>1, <3>3, ProcessAssumption DEF Vouched, Locks
    <3>q. QED  BY <3>1, <3>2, <3>3 DEF Readable
  <2>4. Atomic!Recall
    BY <1>2, <1>3, <1>5, <2>1, <2>2, <2>3
    DEF Atomic!Recall, Atomic!record, Atomic!time
  <2>q. QED  BY <2>4 DEF Refines, Atomic!Next
<1>q. QED  BY <1>4, <1>5

LEMMA DuplicateRefines == ASSUME IInv, NEW s \in Session, Duplicate(s) PROVE Refines
<1>0. TypeOK /\ Locks  BY DEF IInv
<1>1. \A r \in Session : ses[r].at # "written" /\ ses[r] \in SessionState
  BY <1>0, ProcessAssumption DEF Duplicate, Locks, TypeOK
<1>2. \A r \in Session : ses'[r].at # "written"
  BY <1>0, <1>1 DEF Duplicate, Goto, TypeOK, SessionState
<1>q. QED
  BY <1>2, ConsultRefines DEF Duplicate, disk, mta, history

LEMMA BeginRefines == ASSUME IInv, NEW s \in Session, Begin(s) PROVE Refines
<1>0. TypeOK /\ Locks  BY DEF IInv
<1>1. \A r \in Session : ses[r].at # "written"
  BY <1>0, ProcessAssumption DEF Begin, Locks
<1>2. \A r \in Session : ses'[r].at # "written"
  BY <1>0, <1>1 DEF Begin, TypeOK
<1>q. QED
  BY <1>2, ConsultRefines DEF Begin, mta, history

(* The store: with the last bytes of its file a letter is there, and is    *)
(* remembered, because its session will enter it before it drops the lock. *)
LEMMA WriteRestRefines == ASSUME IInv, NEW s \in Session, WriteRest(s) PROVE Refines
<1> DEFINE m == ses[s].msg
<1>0. TypeOK /\ Locks /\ Hands /\ Writers  BY DEF IInv
<1>1. /\ ses[s].at = "writing" /\ holder = s
      /\ m \in Message /\ built /\ m \notin seen
  BY <1>0 DEF WriteRest, Locks, Hands, Writers
<1>2. Recording = {} /\ remembered = seen
  BY <1>0, <1>1, NobodyRecords
<1>3. ses'[s].at = "written" /\ ses'[s].msg = m /\ \A r \in Session : r # s => ses'[r] = ses[r]
  BY <1>0 DEF WriteRest, Goto, TypeOK, SessionState
<1>4. Recording' = {s}
  BY <1>2, <1>3 DEF Recording
<1>5. remembered' = remembered \cup {m}
  BY <1>2, <1>3, <1>4 DEF remembered, WriteRest, cacheVars
<1>6. PICK f \in mail : f = MyFile(s, f.text) /\ mail' = (mail \ {f}) \cup {MyFile(s, "whole")}
  BY DEF WriteRest
<1>7. MyFile(s, "whole") \in mail' /\ f.msg = m
  BY <1>6 DEF MyFile
<1>8. present' = present \cup {m}
  <2>1. /\ MyFile(s, "whole").msg = m
        /\ MyFile(s, "whole").text = "whole" /\ MyFile(s, "whole").fresh = TRUE
    BY MyFileFields
  <2>2. Whole(mail') \cup {f} = Whole(mail) \cup {f, MyFile(s, "whole")}
    BY <1>6, <2>1 DEF Whole
  <2>3. present' = {g.msg : g \in Whole(mail')}  BY DEF present, Whole
  <2>4. present = {g.msg : g \in Whole(mail)}  BY DEF present, Whole
  <2>5. MyFile(s, "whole") \in Whole(mail')
    BY <1>7, <2>1 DEF Whole
  <2>6. \A x : x \in present' <=> \E g \in Whole(mail') : g.msg = x  BY <2>3
  <2>7. \A x : x \in present <=> \E g \in Whole(mail) : g.msg = x  BY <2>4
  <2>q. QED  BY <1>7, <2>1, <2>2, <2>5, <2>6, <2>7
<1>9. Atomic!Store(m)
  BY <1>1, <1>2, <1>5, <1>8
  DEF Atomic!Store, Atomic!time, WriteRest, Bump, cacheVars, mta
<1>q. QED  BY <1>1, <1>9 DEF Refines, Atomic!Next

LEMMA FailRefines == ASSUME IInv, IInv', NEW s \in Session, Fail(s) PROVE Refines
<1>0. TypeOK /\ TypeOK'  BY DEF IInv
<1>1. UNCHANGED <<env.lapses, env.restarts>>
  BY <1>0, OtherCounts DEF Fail, Fault
<1>2. \A r \in Session : /\ ses'[r].at = "written" <=> ses[r].at = "written"
                         /\ ses'[r].msg = ses[r].msg
  BY <1>0 DEF Fail, Goto, TypeOK, SessionState
<1>3. UNCHANGED remembered
  BY <1>2, SameRemembered DEF Fail, cacheVars
<1>4. mail' \subseteq mail  BY DEF Fail, disk
<1>5. torn \subseteq torn' /\ torn' \subseteq Message
  BY <1>0 DEF Fail, TypeOK
<1>6. Atomic!Lose
  BY <1>1, <1>3, <1>4, <1>5, FewerPresent
  DEF Atomic!Lose, Atomic!Tear, Atomic!record, Atomic!time, Atomic!memory, Fail, cacheVars, mta
<1>q. QED  BY <1>6 DEF Refines, Atomic!Next

(* The entry is made: what the session remembered, the cache does.         *)
LEMMA RecordRefines == ASSUME IInv, NEW s \in Session, Record(s) PROVE Refines
<1>0. TypeOK /\ Locks  BY DEF IInv
<1>1. \A r \in Session : ses[r].at = "written" <=> r = s
  BY <1>0 DEF Record, Locks
<1>2. \A r \in Session : ses'[r].at # "written"
  BY <1>0, <1>1 DEF Record, Goto, TypeOK, SessionState
<1>3. Recording = {s} /\ Recording' = {}
  BY <1>1, <1>2 DEF Recording
<1>4. UNCHANGED remembered
  BY <1>3 DEF remembered, Record
<1>q. QED
  BY <1>4, SamePresent, UnseenStep DEF Record, disk, mta, history, Refines

LEMMA ReplyRefines == ASSUME IInv, NEW s \in Session, Reply(s) PROVE Refines
<1> DEFINE m == ses[s].msg
<1>0. TypeOK /\ Hands /\ Vouched  BY DEF IInv
<1>1. ses[s].at \in {"replying", "failing"} /\ ses' = [ses EXCEPT ![s] = Idle] /\ m \in Message
  BY <1>0 DEF Reply, Hands
<1>2. \A r \in Session : IF r = s THEN ses'[r].at = "idle" ELSE ses'[r] = ses[r]
  BY <1>0, <1>1 DEF TypeOK, Idle
<1>3. UNCHANGED remembered
  BY <1>1, <1>2, SameRemembered DEF Reply, cacheVars
<1>4. UNCHANGED <<present, lapsed, built, kept, fired, torn, env>>
  BY SamePresent DEF Reply, disk, cacheVars, history
<1>5. acked' = acked \/ (ses[s].at = "replying" /\ acked' = acked \cup {m})
  <2>1. CASE ses[s].at = "replying"
    <3>1. PICK said \in SUBSET {m} : acked' = acked \cup said
      BY <2>1 DEF Reply
    <3>2. said = {} \/ said = {m}  OBVIOUS
    <3>q. QED  BY <2>1, <3>1, <3>2
  <2>2. CASE ses[s].at # "replying"  BY <2>2 DEF Reply
  <2>q. QED  BY <2>1, <2>2
<1>6. CASE acked' = acked
  BY <1>3, <1>4, <1>6, UnseenStep DEF Refines
<1>7. CASE ses[s].at = "replying" /\ acked' = acked \cup {m}
  <2>1. Stored(m)  BY <1>0, <1>7 DEF Vouched
  <2>2. Atomic!Acknowledge(m)
    BY <1>3, <1>4, <1>7, <2>1
    DEF Atomic!Acknowledge, Atomic!time, Atomic!memory, Stored
  <2>q. QED  BY <1>1, <2>2 DEF Refines, Atomic!Next
<1>q. QED  BY <1>5, <1>6, <1>7

(* The rest of a session: nothing that counts is stored, said or lost.     *)
LEMMA SessionRefines ==
  ASSUME IInv, NEW s \in Session, Receive(s) \/ Open(s) \/ WriteSome(s) \/ Spawn(s)
  PROVE  Refines
<1>0. TypeOK  BY DEF IInv
<1>1. UNCHANGED <<seen, lapsed, built, kept, fired, acked, torn, env.lapses, env.restarts>>
  BY <1>0, OtherCounts
  DEF Receive, Open, WriteSome, Spawn, Fault, cacheVars, mta, history
<1>2. \A r \in Session : /\ ses'[r].at = "written" <=> ses[r].at = "written"
                         /\ ses[r].at = "written" => ses'[r].msg = ses[r].msg
  BY <1>0 DEF Receive, Open, WriteSome, Spawn, Goto, TypeOK, SessionState
<1>3. Whole(mail') = Whole(mail)
  <2>1. \A t : MyFile(s, t).text = t  BY MyFileFields
  <2>q. QED  BY <2>1 DEF Receive, Open, WriteSome, Spawn, Whole, disk
<1>q. QED
  BY <1>1, <1>2, <1>3, SameRemembered, SamePresent, UnseenStep DEF Refines

(* Clients: a MARK leaves what is there, a wipe can only take away.        *)
LEMMA MarkPublishPresent ==
  ASSUME IInv, NEW c \in Client, MarkPublish(c)
  PROVE  UNCHANGED present
<1>0. TypeOK /\ Hands /\ Paths  BY DEF IInv
<1>1. CASE UNCHANGED mail  BY <1>1, SamePresent
<1>2. CASE mail' # mail
  <2>1. PICK g \in mail : cli[c].copy = {g}
    BY <1>0 DEF MarkPublish, Hands
  <2> DEFINE h == [g EXCEPT !.read = cli[c].op.read]
  <2>2. mail' = {f \in mail : Path(f) # Path(g)} \cup {h}
    BY <1>2, <2>1 DEF MarkPublish
  <2>3. {f \in mail : Path(f) # Path(g)} = mail \ {g}
    BY <1>0 DEF Paths
  <2>4. g \in File  BY <1>0 DEF TypeOK
  <2>5. h.msg = g.msg /\ h.text = g.text /\ h.fresh = g.fresh
    BY <2>4 DEF File
  <2>6. Whole(mail') = IF h \in Whole({h}) THEN (Whole(mail) \ {g}) \cup {h} ELSE Whole(mail) \ {g}
    BY <2>2, <2>3 DEF Whole
  <2>7. h \in Whole({h}) <=> g \in Whole(mail)
    BY <2>5 DEF Whole
  <2>8. {f.msg : f \in Whole(mail')} = {f.msg : f \in Whole(mail)}
    BY <2>5, <2>6, <2>7
  <2>q. QED  BY <2>8 DEF present, Whole
<1>q. QED  BY <1>1, <1>2

LEMMA ClientRefines ==
  ASSUME IInv, NEW c \in Client, Ask(c) \/ Serve(c)
  PROVE  Refines
<1>0. TypeOK  BY DEF IInv
<1>1. UNCHANGED <<seen, lapsed, built, ses, kept, fired, acked, torn>>
  BY DEF Ask, Serve, MarkRead, MarkMiss, MarkPublish, WipeStart, WipeEntry, WipeEnd,
         cacheVars, mta, history
<1>2. UNCHANGED <<env.lapses, env.restarts>>
  BY <1>0, OtherCounts
  DEF Ask, Serve, MarkRead, MarkMiss, MarkPublish, WipeStart, WipeEntry, WipeEnd, Fault
<1>3. UNCHANGED remembered
  BY <1>1, SameRemembered
<1>4. CASE WipeEntry(c)
  <2>1. mail' \subseteq mail  BY <1>4 DEF WipeEntry
  <2>2. Atomic!Lose
    BY <1>0, <1>1, <1>2, <1>3, <2>1, FewerPresent
    DEF Atomic!Lose, Atomic!Tear, Atomic!record, Atomic!time, Atomic!memory, TypeOK
  <2>q. QED  BY <2>2 DEF Refines, Atomic!Next
<1>5. CASE ~WipeEntry(c)
  <2>1. MarkPublish(c) \/ UNCHANGED mail
    BY <1>5 DEF Ask, Serve, MarkRead, MarkMiss, WipeStart, WipeEnd, disk
  <2>2. UNCHANGED present
    BY <2>1, MarkPublishPresent, SamePresent
  <2>q. QED  BY <1>1, <1>2, <1>3, <2>2, UnseenStep DEF Refines
<1>q. QED  BY <1>4, <1>5

(* A thread is counted by HooksDue: its letter has a store without a hook. *)
LEMMA RunHookRefines ==
  ASSUME IInv, HooksDue, NEW m \in Message, RunHook(m)
  PROVE  Refines
<1>0. TypeOK  BY DEF IInv
<1>1. fired[m] < kept[m]
  <2>1. fired[m] \in Nat /\ threads[m] \in Nat /\ kept[m] \in Nat  BY <1>0 DEF TypeOK
  <2>2. Cardinality(Due(m)) \in Nat  BY DueFinite
  <2>3. fired[m] + threads[m] + Cardinality(Due(m)) <= kept[m] /\ threads[m] > 0
    BY DEF HooksDue, RunHook
  <2>q. QED  BY <2>1, <2>2, <2>3
<1>2. UNCHANGED <<remembered, present>>
  BY SameRemembered, SamePresent DEF RunHook, disk, cacheVars
<1>3. Atomic!RunHook(m)
  BY <1>1, <1>2
  DEF Atomic!RunHook, Atomic!time, Atomic!memory, RunHook, Bump, cacheVars, mta
<1>q. QED  BY <1>3 DEF Refines, Atomic!Next

LEMMA LapseRefines == ASSUME IInv, NEW m \in Message, Lapse(m) PROVE Refines
<1>0. TypeOK /\ Locks  BY DEF IInv
<1>1. remembered = seen  BY <1>0, NobodyRecords, ProcessAssumption DEF Lapse
<1>2. UNCHANGED remembered  BY SameRemembered DEF Lapse
<1>3. env'.lapses = env.lapses + 1 /\ env'.restarts = env.restarts
  BY <1>0 DEF Lapse, Count, TypeOK
<1>4. present' = present \ {m}
  <2>1. \A f \in mail : LET g == [f EXCEPT !.fresh = FALSE]
                        IN  g.msg = f.msg /\ g.text = f.text /\ g.fresh = FALSE
    BY <1>0 DEF TypeOK, File
  <2>2. Whole(mail') = {f \in Whole(mail) : f.msg # m}
    BY <2>1 DEF Lapse, Whole
  <2>3. present' = {f.msg : f \in {g \in Whole(mail) : g.msg # m}}
    BY <2>2 DEF present, Whole
  <2>q. QED  BY <2>3 DEF present, Whole
<1>5. Atomic!Age(m)
  BY <1>1, <1>2, <1>3, <1>4 DEF Atomic!Age, Atomic!record, Lapse, mta, history
<1>q. QED  BY <1>5 DEF Refines, Atomic!Next

(* A letter at the entry is not in the cache yet, so none is dropped.      *)
LEMMA EvictRefines == ASSUME IInv, NEW m \in Message, Evict(m) PROVE Refines
<1>0. TypeOK /\ Writers  BY DEF IInv
<1>1. m \in seen /\ \A r \in Recording : ses[r].msg # m
  BY <1>0 DEF Evict, TypeOK, Writers, Recording
<1>2. Recording' = Recording /\ ses' = ses /\ seen' = seen \ {m}
  BY DEF Evict, Recording
<1>3. remembered' = remembered \ {m}
  BY <1>1, <1>2 DEF remembered
<1>4. Atomic!Forget(m)
  BY <1>3, SamePresent
  DEF Atomic!Forget, Atomic!record, Atomic!time, Evict, disk, mta, history
<1>q. QED  BY <1>4 DEF Refines, Atomic!Next

LEMMA RestartRefines == ASSUME IInv, IInv', Restart PROVE Refines
<1>0. TypeOK /\ TypeOK'  BY DEF IInv
<1>1. Recording' = {}  BY DEF Restart, Recording, Idle
<1>2. remembered' = {}  BY <1>1 DEF remembered, Restart
<1>3. env'.restarts = env.restarts + 1 /\ env'.lapses = env.lapses
  BY <1>0 DEF Restart, Count, TypeOK
<1>4. torn \subseteq torn' /\ torn' \subseteq Message
  BY <1>0 DEF Restart, TypeOK
<1>5. Atomic!Restart
  BY <1>2, <1>3, <1>4, SamePresent
  DEF Atomic!Restart, Atomic!Tear, Atomic!record, Restart, disk, mta
<1>q. QED  BY <1>5 DEF Refines, Atomic!Next

LEMMA NextRefines == ASSUME IInv, IInv', HooksDue, [Next]_vars PROVE Refines
<1>1. CASE UNCHANGED vars
  BY <1>1, SameRemembered, SamePresent, UnseenStep
  DEF vars, disk, cacheVars, mta, history, Refines
<1>2. ASSUME NEW s \in Session, Receive(s) \/ Ingest(s) PROVE Refines
  BY <1>2, SessionRefines, DuplicateRefines, BeginRefines, WriteRestRefines, FailRefines,
     RecordRefines, ReplyRefines DEF Ingest
<1>3. ASSUME NEW m \in Message, RunHook(m) \/ Lapse(m) \/ Evict(m) PROVE Refines
  BY <1>3, RunHookRefines, LapseRefines, EvictRefines
<1>q. QED  BY <1>1, <1>2, <1>3, ClientRefines, RestartRefines DEF Next

(* Deduplication as ingest_email promises it: for any letters, sessions,   *)
(* clients, failures and restarts, the inbox behaves as one that stores    *)
(* and remembers a letter in one step, forgets it by time and restarts     *)
(* only, and says 250 and fires hooks for what it has stored.              *)
THEOREM InboxIsAtomic == Spec => ImplementsAtomicInbox
<1>1. IInv /\ IInv' /\ HooksDue /\ [Next]_vars => [Atomic!Next]_(Atomic!vars)
  BY NextRefines DEF Refines
<1>q. QED
  BY <1>1, InitRefines, InboxInvariant, HooksInvariant, PTL
  DEF Spec, ImplementsAtomicInbox, Atomic!Spec
=============================================================================
