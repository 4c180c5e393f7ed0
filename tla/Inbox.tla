------------------------------- MODULE Inbox -------------------------------
(***************************************************************************)
(* One inbox directory and everything that races over it: SMTP deliveries  *)
(* with the retries of the sending MTA, the Message-Id cache that is to    *)
(* make a retry harmless, MARK-READ / MARK-UNREAD, the wipe of a forced    *)
(* MAILBOX-DELETE, the threads that fire on_receive, full disks, restarts, *)
(* and the passing of the 24 hours after which an entry is forgotten.      *)
(*                                                                         *)
(* All letters arrive in the same second under the same subject, so that   *)
(* they compete for one sequence of file names: a stem is its suffix.      *)
(***************************************************************************)
EXTENDS Naturals, FiniteSets

CONSTANTS
  Message,      \* letters; each has a Message-Id of its own
  Attached,     \* those with attachments: stored as <stem>/<stem>.md, else <stem>.md
  Split,        \* those whose first 16 KiB on disk end inside a character
  Session,      \* deliveries at work at a time
  Client,       \* UDS connections
  Requests,     \* what clients may ask
  NoOne,        \* "lock free"
  NoMessage,    \* "nothing at hand"
  MaxStem,      \* bound on the suffixes tried
  MaxTries,     \* bound on the times the MTA sends one letter
  MaxRequests,  \* bound on the requests of all clients
  MaxFaults,    \* bound on failing system calls
  MaxRestarts,  \* bound on deaths of the daemon
  MaxLapses,    \* bound on the times 24 hours pass for a letter
  MaxEvents     \* bound on requests, faults, restarts and lapses together

Stem == 1..MaxStem
Mark == [verb: {"MARK"}, stem: Stem, read: BOOLEAN]
Delete == [verb |-> "DELETE", stem |-> 1, read |-> FALSE]  \* force; the rest unused

ASSUME MessageAssumption ==
  /\ Attached \subseteq Message /\ Split \subseteq Message
  /\ NoMessage \notin Message
ASSUME ProcessAssumption ==
  /\ NoOne \notin Session \cup Client
  /\ Session \cap Client = {} /\ IsFiniteSet(Session)
  /\ Requests \subseteq Mark \cup {Delete}
ASSUME BoundAssumption ==
  /\ MaxStem \in Nat \ {0} /\ MaxTries \in Nat /\ MaxRequests \in Nat
  /\ MaxFaults \in Nat /\ MaxRestarts \in Nat /\ MaxLapses \in Nat /\ MaxEvents \in Nat

VARIABLES
  mail,     \* the .md files
  dirs,     \* the bundle directories
  holder,   \* who holds the lock of the mailbox
  built,    \* the cache has been read from disk since the daemon started
  seen,     \* the Message-Ids in the cache
  lapsed,   \* those among them whose 24 hours are over
  ses,      \* what each session is doing
  cli,      \* what each client's handler is doing
  threads,  \* hook threads started and not yet run, per letter
  tries,    \* how often the MTA has sent each letter
  told,     \* letters the MTA has heard 250 for
  env,      \* how often each outside event has happened
  kept,     \* history: how often each letter was written whole
  fired,    \* history: how often on_receive fired for each letter
  acked,    \* history: letters a session has answered 250 for
  torn      \* history: letters whose file was left cut after the frontmatter

disk == <<mail, dirs>>
cacheVars == <<built, seen, lapsed>>
mta == <<tries, told, acked>>
history == <<kept, fired, torn>>
vars == <<disk, holder, cacheVars, ses, cli, threads, mta, env, history>>

\* What there is of a file: created; frontmatter closed; all of it.
Text == {"empty", "head", "whole"}
File == [stem: Stem, msg: Message, text: Text, fresh: BOOLEAN, read: BOOLEAN]

SessionState ==
  [at: {"idle", "waiting", "opening", "writing", "written", "stored", "replying", "failing"},
   msg: Message \cup {NoMessage}, stem: Stem]
ClientState ==
  [at: {"idle", "waiting", "marking", "wiping"}, op: Mark \cup {Delete}, copy: SUBSET File]

Path(f) == <<f.stem, f.msg \in Attached>>
InBundle(f, n) == f.stem = n /\ f.msg \in Attached
CutFiles(files) == {f \in files : f.text = "head"}

AtRest == [at |-> "idle", op |-> Delete, copy |-> {}]
Idle == [at |-> "idle", msg |-> NoMessage, stem |-> 1]

Init ==
  /\ mail = {} /\ dirs = {}
  /\ holder = NoOne
  /\ built = FALSE /\ seen = {} /\ lapsed = {}
  /\ ses = [s \in Session |-> Idle]
  /\ cli = [c \in Client |-> AtRest]
  /\ threads = [m \in Message |-> 0]
  /\ tries = [m \in Message |-> 0] /\ told = {}
  /\ env = [requests |-> 0, faults |-> 0, restarts |-> 0, lapses |-> 0]
  /\ kept = [m \in Message |-> 0] /\ fired = [m \in Message |-> 0]
  /\ acked = {} /\ torn = {}

Count(event) ==
  /\ env.requests + env.faults + env.restarts + env.lapses < MaxEvents
  /\ env' = [env EXCEPT ![event] = @ + 1]
Fault == env.faults < MaxFaults /\ Count("faults")
Bump(counter, m) == [counter EXCEPT ![m] = @ + 1]
Goto(s, l) == ses' = [ses EXCEPT ![s].at = l]

(* A slip: the guard of a client's handler outlives it.                    *)
UnlockSession(p) == holder' = IF holder = p /\ p \in Session THEN NoOne ELSE holder

Unlock(p) == holder' = IF holder = p THEN NoOne ELSE holder

-----------------------------------------------------------------------------
(* The cache.                                                              *)

(* What a scan of the directory finds: it reads the first 16 KiB of every  *)
(* .md of the last 24 hours and gives up on those that are not UTF-8.      *)
Readable(f) == \/ f.text = "head"
               \/ f.text = "whole" /\ f.msg \notin Split

(* A slip: bundles are not looked into.                                    *)
OnDiskFlat ==
  {m \in Message \ Attached : \E f \in mail : f.msg = m /\ f.fresh /\ Readable(f)}

OnDisk == {m \in Message : \E f \in mail : f.msg = m /\ f.fresh /\ Readable(f)}

Known == IF built THEN seen ELSE OnDisk

Consult == built' = TRUE /\ seen' = Known /\ UNCHANGED lapsed

-----------------------------------------------------------------------------
(* A delivery: the end of DATA, ingest_email on a blocking thread, and the *)
(* reply.                                                                  *)

(* The MTA sends a letter until it hears 250, on any number of connections.*)
Receive(s) ==
  /\ ses[s].at = "idle"
  /\ \E m \in Message \ told :
       /\ tries[m] < MaxTries
       /\ tries' = Bump(tries, m)
       /\ ses' = [ses EXCEPT ![s] = [at |-> "waiting", msg |-> m, stem |-> 1]]
  /\ UNCHANGED <<disk, holder, cacheVars, cli, threads, told, acked, env, history>>

(* Under the lock, the id is in the cache: nothing is stored, no hook      *)
(* fires, and the answer is 250.                                           *)
Duplicate(s) ==
  LET m == ses[s].msg IN
  /\ ses[s].at = "waiting" /\ holder = NoOne
  /\ m \in Known
  /\ Consult
  /\ Goto(s, "replying")
  /\ UNCHANGED <<disk, holder, cli, threads, mta, env, history>>

(* allocate_filename: a bundle avoids directories, a flat file avoids      *)
(* directories and files; the first suffix that will do.                   *)
Free(n, m) ==
  n \notin dirs /\ (m \in Attached \/ \A f \in mail : Path(f) # <<n, FALSE>>)
FirstFree(n, m) == Free(n, m) /\ \A k \in Stem : k < n => ~Free(k, m)

(* Under the lock, the id is new: a name is chosen and the bundle          *)
(* directory made; the attachments are written into it before the .md.     *)
Begin(s) ==
  LET m == ses[s].msg IN
  /\ ses[s].at = "waiting" /\ holder = NoOne
  /\ m \notin Known
  /\ Consult
  /\ holder' = s
  /\ \E n \in Stem :
       /\ FirstFree(n, m)
       /\ ses' = [ses EXCEPT ![s] = [at |-> "opening", msg |-> m, stem |-> n]]
       /\ dirs' = IF m \in Attached THEN dirs \cup {n} ELSE dirs
  /\ UNCHANGED <<mail, cli, threads, mta, env, history>>

MyFile(s, text) ==
  [stem |-> ses[s].stem, msg |-> ses[s].msg, text |-> text, fresh |-> TRUE, read |-> FALSE]

(* write_markdown creates the file (create_new: never an existing one) ... *)
Open(s) ==
  /\ ses[s].at = "opening"
  /\ \A f \in mail : Path(f) # Path(MyFile(s, "empty"))
  /\ mail' = mail \cup {MyFile(s, "empty")}
  /\ Goto(s, "writing")
  /\ UNCHANGED <<dirs, holder, cacheVars, cli, threads, mta, env, history>>

(* ... and writes it, in as many write(2) as it takes.                     *)
WriteSome(s) ==
  /\ ses[s].at = "writing" /\ MyFile(s, "empty") \in mail
  /\ mail' = (mail \ {MyFile(s, "empty")}) \cup {MyFile(s, "head")}
  /\ UNCHANGED <<dirs, holder, cacheVars, ses, cli, threads, mta, env, history>>

WriteRest(s) ==
  /\ ses[s].at = "writing"
  /\ \E f \in mail :
       /\ f = MyFile(s, f.text)
       /\ mail' = (mail \ {f}) \cup {MyFile(s, "whole")}
  /\ kept' = Bump(kept, ses[s].msg)
  /\ Goto(s, "written")
  /\ UNCHANGED <<dirs, holder, cacheVars, cli, threads, mta, env, fired, torn>>

(* Any of it can fail, most likely for want of space.  A bundle is removed *)
(* again, if that works; a flat file stays as far as it was written.       *)
Fail(s) ==
  LET n == ses[s].stem IN
  /\ ses[s].at \in {"waiting", "opening", "writing"}
  /\ Fault
  /\ IF ses[s].msg \in Attached /\ holder = s
       THEN \/ dirs' = dirs \ {n} /\ mail' = {f \in mail : ~InBundle(f, n)}
            \/ UNCHANGED disk
       ELSE UNCHANGED disk
  /\ torn' = torn \cup {f.msg : f \in CutFiles(mail')}
  /\ Unlock(s)
  /\ Goto(s, "failing")
  /\ UNCHANGED <<cacheVars, cli, threads, mta, kept, fired>>

(* The id is noted before the lock is dropped.                             *)
Record(s) ==
  /\ ses[s].at = "written"
  /\ seen' = seen \cup {ses[s].msg}
  /\ Unlock(s)
  /\ Goto(s, "stored")
  /\ UNCHANGED <<disk, built, lapsed, cli, threads, mta, env, history>>

(* A slip: the hook of a bundle is forgotten.                              *)
SpawnFlat(s) ==
  /\ ses[s].at = "stored"
  /\ threads' = IF ses[s].msg \in Attached THEN threads ELSE Bump(threads, ses[s].msg)
  /\ UNCHANGED env
  /\ Goto(s, "replying")
  /\ UNCHANGED <<disk, holder, cacheVars, cli, mta, history>>

(* spawn_on_receive_async; a thread that cannot be started is only logged. *)
Spawn(s) ==
  /\ ses[s].at = "stored"
  /\ \/ threads' = Bump(threads, ses[s].msg) /\ UNCHANGED env
     \/ Fault /\ UNCHANGED threads
  /\ Goto(s, "replying")
  /\ UNCHANGED <<disk, holder, cacheVars, cli, mta, history>>

(* 250 or 451.  The session may be over by then (its own deadline drops it *)
(* while the blocking thread runs on), or the MTA gone: not said, or said  *)
(* and not heard.                                                          *)
Reply(s) ==
  LET m == ses[s].msg IN
  /\ \/ /\ ses[s].at = "replying"
        /\ \E said \in SUBSET {m} :
             /\ acked' = acked \cup said
             /\ told' \in {told, told \cup said}
     \/ /\ ses[s].at = "failing"
        /\ UNCHANGED <<acked, told>>
  /\ ses' = [ses EXCEPT ![s] = Idle]
  /\ UNCHANGED <<disk, holder, cacheVars, cli, threads, tries, env, history>>

RunHook(m) ==
  /\ threads[m] > 0
  /\ threads' = [threads EXCEPT ![m] = @ - 1]
  /\ fired' = Bump(fired, m)
  /\ UNCHANGED <<disk, holder, cacheVars, ses, cli, mta, env, kept, torn>>

-----------------------------------------------------------------------------
(* MARK and the wipe of a forced DELETE.                                   *)

Return(c) == cli' = [cli EXCEPT ![c] = AtRest]

Ask(c) ==
  /\ cli[c].at = "idle"
  /\ env.requests < MaxRequests /\ Count("requests")
  /\ \E q \in Requests : cli' = [cli EXCEPT ![c] = [at |-> "waiting", op |-> q, copy |-> {}]]
  /\ UNCHANGED <<disk, holder, cacheVars, ses, threads, mta, history>>

(* resolve_email_path_strict: the flat file, else the one in the bundle.   *)
Resolved(n) ==
  {f \in mail : f.stem = n /\ (f.msg \in Attached => \A g \in mail : Path(g) # <<n, FALSE>>)}

(* A slip: the file is read before the lock is there.                      *)
MarkReadUnlocked(c) ==
  /\ cli[c].at = "waiting" /\ cli[c].op.verb = "MARK"
  /\ \E f \in Resolved(cli[c].op.stem) :
       /\ f.text # "empty"
       /\ cli' = [cli EXCEPT ![c].at = "marking", ![c].copy = {f}]
  /\ UNCHANGED holder
  /\ UNCHANGED <<disk, cacheVars, ses, threads, mta, env, history>>

MarkRead(c) ==
  /\ cli[c].at = "waiting" /\ cli[c].op.verb = "MARK"
  /\ holder = NoOne
  /\ \E f \in Resolved(cli[c].op.stem) :
       /\ f.text # "empty"
       /\ cli' = [cli EXCEPT ![c].at = "marking", ![c].copy = {f}]
  /\ holder' = c
  /\ UNCHANGED <<disk, cacheVars, ses, threads, mta, env, history>>

(* No such file, or no frontmatter in it.                                  *)
MarkMiss(c) ==
  /\ cli[c].at = "waiting" /\ cli[c].op.verb = "MARK"
  /\ holder = NoOne
  /\ \A f \in Resolved(cli[c].op.stem) : f.text = "empty"
  /\ Return(c)
  /\ UNCHANGED <<disk, holder, cacheVars, ses, threads, mta, env, history>>

(* The rewritten file is renamed over the path it was read from, or the    *)
(* temporary file could not be written or renamed.                         *)
MarkPublish(c) ==
  /\ cli[c].at = "marking"
  /\ \/ /\ mail' = {f \in mail : \A g \in cli[c].copy : Path(f) # Path(g)}
                      \cup {[g EXCEPT !.read = cli[c].op.read] : g \in cli[c].copy}
        /\ UNCHANGED env
     \/ Fault /\ UNCHANGED mail
  /\ Unlock(c)
  /\ Return(c)
  /\ UNCHANGED <<dirs, cacheVars, ses, threads, mta, history>>

WipeStart(c) ==
  /\ cli[c].at = "waiting" /\ cli[c].op.verb = "DELETE"
  /\ holder = NoOne /\ holder' = c
  /\ cli' = [cli EXCEPT ![c].at = "wiping"]
  /\ UNCHANGED <<disk, cacheVars, ses, threads, mta, env, history>>

(* wipe_mailbox_contents, entry by entry.                                  *)
WipeEntry(c) ==
  /\ cli[c].at = "wiping"
  /\ \/ \E f \in mail : f.msg \notin Attached /\ mail' = mail \ {f} /\ UNCHANGED dirs
     \/ \E n \in dirs : dirs' = dirs \ {n} /\ mail' = {f \in mail : ~InBundle(f, n)}
  /\ UNCHANGED <<holder, cacheVars, ses, cli, threads, mta, env, history>>

(* A slip: the cache goes with the mailbox.                                *)
WipeEndForgets(c) ==
  /\ cli[c].at = "wiping"
  /\ \/ mail = {} /\ dirs = {} /\ UNCHANGED env
     \/ Fault
  /\ Unlock(c)
  /\ Return(c)
  /\ built' = FALSE /\ seen' = {} /\ lapsed' = {}
  /\ UNCHANGED <<disk, ses, threads, mta, history>>

(* The directory is empty, or an entry could not be removed.               *)
WipeEnd(c) ==
  /\ cli[c].at = "wiping"
  /\ \/ mail = {} /\ dirs = {} /\ UNCHANGED env
     \/ Fault
  /\ Unlock(c)
  /\ Return(c)
  /\ UNCHANGED <<disk, cacheVars, ses, threads, mta, history>>

-----------------------------------------------------------------------------
(* Time and the daemon.                                                    *)

(* 24 hours after its last delivery a letter is no longer remembered; the  *)
(* cache drops the entry when it gets round to it.                         *)
Lapse(m) ==
  /\ env.lapses < MaxLapses /\ Count("lapses")
  /\ holder = NoOne
  /\ mail' = {IF f.msg = m THEN [f EXCEPT !.fresh = FALSE] ELSE f : f \in mail}
  /\ lapsed' = lapsed \cup (seen \cap {m})
  /\ UNCHANGED <<dirs, holder, built, seen, ses, cli, threads, mta, history>>

Evict(m) ==
  /\ m \in lapsed
  /\ seen' = seen \ {m} /\ lapsed' = lapsed \ {m}
  /\ UNCHANGED <<disk, holder, built, ses, cli, threads, mta, env, history>>

(* The daemon dies and is started again: all that is left is on disk.      *)
Restart ==
  /\ env.restarts < MaxRestarts /\ Count("restarts")
  /\ holder' = NoOne
  /\ built' = FALSE /\ seen' = {} /\ lapsed' = {}
  /\ ses' = [s \in Session |-> Idle]
  /\ cli' = [c \in Client |-> AtRest]
  /\ threads' = [m \in Message |-> 0]
  /\ torn' = torn \cup {f.msg : f \in CutFiles(mail)}
  /\ UNCHANGED <<disk, mta, kept, fired>>

Ingest(s) ==
  \/ Duplicate(s) \/ Begin(s) \/ Open(s) \/ WriteSome(s) \/ WriteRest(s)
  \/ Fail(s) \/ Record(s) \/ Spawn(s) \/ Reply(s)

Serve(c) ==
  \/ MarkRead(c) \/ MarkMiss(c) \/ MarkPublish(c)
  \/ WipeStart(c) \/ WipeEntry(c) \/ WipeEnd(c)

Next ==
  \/ \E s \in Session : Receive(s) \/ Ingest(s)
  \/ \E c \in Client : Ask(c) \/ Serve(c)
  \/ \E m \in Message : RunHook(m) \/ Lapse(m) \/ Evict(m)
  \/ Restart

(* Blocking threads, tasks and hook threads keep running once started.     *)
Fairness ==
  /\ \A s \in Session : WF_vars(Ingest(s))
  /\ \A c \in Client : WF_vars(Serve(c))
  /\ \A m \in Message : WF_vars(RunHook(m))

Spec == Init /\ [][Next]_vars
FairSpec == Spec /\ Fairness

-----------------------------------------------------------------------------
(* Properties.                                                             *)

(* Every variable keeps its type; an unbuilt cache is empty, and only what *)
(* it holds can be over-age.                                               *)
TypeOK ==
  /\ mail \subseteq File /\ dirs \subseteq Stem
  /\ holder \in Session \cup Client \cup {NoOne}
  /\ built \in BOOLEAN /\ seen \subseteq Message /\ lapsed \subseteq seen
  /\ ~built => seen = {}
  /\ ses \in [Session -> SessionState]
  /\ cli \in [Client -> ClientState]
  /\ threads \in [Message -> Nat] /\ tries \in [Message -> Nat]
  /\ kept \in [Message -> Nat] /\ fired \in [Message -> Nat]
  /\ told \subseteq acked /\ acked \subseteq Message /\ torn \subseteq Message
  /\ env \in [requests: Nat, faults: Nat, restarts: Nat, lapses: Nat]

Copies(m) == {f \in mail : f.msg = m /\ f.text = "whole" /\ f.fresh}

(* However often and however concurrently a letter is sent, across failed  *)
(* writes and restarts, it is in the mailbox at most once within 24 hours: *)
(* the promise of the Message-Id cache.                                    *)
StoredOnce == \A m \in Message \ Split : \A f, g \in Copies(m) : f = g

(* While the lock is not a delivery's, a built cache knows every letter of *)
(* the last 24 hours that is stored: no retry can fall between the .md and *)
(* the cache entry.                                                        *)
CacheKnowsStored ==
  built /\ holder \notin Session =>
    \A m \in Message \ Split : Copies(m) # {} => m \in seen

(* 250 is only ever said for a letter that was stored whole, except that a *)
(* file left cut by a failed write or a crash may stand in for it.         *)
AckedWereStored == \A m \in acked : kept[m] > 0 \/ m \in torn

(* on_receive fires at most once for each time the letter was stored, and  *)
(* never for a retry.                                                      *)
HookPerStore == \A m \in Message : fired[m] <= kept[m]

(* Nothing but the delivery of a letter puts a file into the mailbox, and  *)
(* no step replaces a letter by another or by less of itself: a MARK       *)
(* neither brings back what a wipe removed nor undoes a delivery.          *)
More(t) == CASE t = "empty" -> Text [] t = "head" -> {"head", "whole"} [] t = "whole" -> {"whole"}
MailIntact ==
  [][\A g \in mail' :
       \/ \E f \in mail : f.stem = g.stem /\ f.msg = g.msg /\ g.text \in More(f.text)
       \/ /\ \A f \in mail : Path(f) # Path(g)
          /\ \E s \in Session : ses[s].at = "opening" /\ g = MyFile(s, "empty")]_vars

(* Every delivery the daemon has taken on is answered, although deliveries *)
(* and requests wait for one lock.                                         *)
DeliveryEnds == \A s \in Session : (ses[s].at # "idle") ~> (ses[s].at = "idle")

(* Unless the daemon dies or a system call fails, on_receive catches up    *)
(* with what has been stored.                                              *)
HooksCatchUp ==
  \A m \in Message : <>[](fired[m] = kept[m] \/ env.restarts > 0 \/ env.faults > 0)
=============================================================================
