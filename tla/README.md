# aimx: TLA+ models and proofs

aimx is a self-hosted mail server for AI agents. One daemon, `aimx serve`, runs
as root. It receives mail on port 25, stores each letter as Markdown below
`<data_dir>/inbox/<mailbox>/`, signs and sends mail, runs hooks, and answers
local clients (the CLI, the MCP server) on a world-writable Unix socket. Its
state is a handful of files and the little it keeps in memory beside them, and
everything hard about it comes from that pair: who may change which copy, in
what order, under which lock, and what is left when a step fails.

This directory holds TLA+ modules translated from that code, the TLC
configurations that check them on small instances, and proofs checked by TLAPS.
Paths below are relative to the repository; `src/x.rs` is its `src/` directory.

- [1. The system](#1-the-system)
- [2. The modules](#2-the-modules)
- [3. What the runs check](#3-what-the-runs-check)
- [4. What is proved](#4-what-is-proved)
- [5. What disagrees with the documentation](#5-what-disagrees-with-the-documentation)
- [6. What is left out](#6-what-is-left-out)
- [7. Plan](#7-plan)

To check a module or a proof, in this directory:

    tlc -workers 2 -config Inbox.cfg MCInbox
    tlapm InboxProofs.tla

Section 3 names the module of each configuration.

## 1. The system

### 1.1 Components

| component | state it keeps | operations |
|---|---|---|
| Configuration data (`config.rs`, `auth.rs`, `user_resolver.rs`, `uds_authz.rs`) | none of its own: the value of `config.toml` | load and validate, save, the `Action` predicate that authorises a caller |
| Live configuration (`config.rs` `ConfigHandle`, `mailbox_handler.rs`, `hook_handler.rs`, `serve.rs` `reload_config`) | the snapshot behind `ConfigHandle`, `config.toml`, the mailbox directories and their owners | MAILBOX-CREATE, MAILBOX-DELETE (with and without force), HOOK-CREATE, HOOK-DELETE, SIGHUP |
| Mailbox locks (`mailbox_locks.rs`) | one async mutex per mailbox, and beside it the Message-Id cache of its inbox | lock, get or create, build the cache, look up and insert |
| Inbound ingest (`ingest.rs`, `slug.rs`, `frontmatter.rs`) | the `.md` files and bundle directories of an inbox | route, deduplicate, choose a name, write, record, start hooks |
| State changes of messages (`state_handler.rs`) | the `read` flag in a frontmatter | MARK-READ, MARK-UNREAD |
| SMTP server and session (`smtp/`) | one state machine per connection (greeted, sender, recipients, data), 100 permits | EHLO/HELO, MAIL, RCPT, DATA, RSET, STARTTLS, QUIT, time-outs, shutdown |
| UDS server (`serve.rs`, `send_protocol.rs`) | one task per connection, one request per connection | accept, parse within 30 s, dispatch, answer |
| Sending (`send_handler.rs`, `transport.rs`, `mx.rs`) | the files of `sent/<mailbox>/`, `SENT_WRITE_LOCK` | resolve the sender, sign, try each MX, persist, `after_send` |
| Hooks (`hook.rs`, `platform.rs` sandbox) | a detached thread per stored letter, a child process per hook | decide by trust, spawn as the owner, feed stdin, time out |
| Message assembly and signing (`wire_assembly.rs`, `markdown_render.rs`, `dkim.rs`, `send.rs`) | none | text in, text out |
| Trust evaluation (`trust.rs`, `ingest.rs` `verify_auth`, `hook.rs` `execute_on_receive`) | none of its own: each letter in hand, and the snapshot it is handled on | authenticate, judge, choose and run the hooks |
| Read-only verbs (`mailbox_list_handler.rs`, `hook_list_handler.rs`, `version_handler.rs`) | none | one load of the snapshot |
| MCP server (`mcp.rs`) | none; reads the mailbox files directly | list, read, answer and mark letters, send, and the mailbox and hook verbs, all through the daemon |
| CLI (`mailbox.rs`, `hooks.rs`, `send.rs`, `cli.rs`, `main.rs`) | the configuration loaded at start; edits `config.toml` itself when no socket answers | create, delete, list, send |
| Upgrade and releases (`upgrade.rs`, `release.rs`, `install.sh`) | the binary and its `.prev`, the releases and their archives | choose a tag, compare, download, extract, stop, keep the old binary, swap, start, wait, roll back |
| Setup and diagnosis (`setup.rs`, `doctor.rs`, `portcheck.rs`, `uninstall.rs`) | `config.toml`, DKIM and TLS keys, the service, the catchall's user; a listener on port 25 for the length of a check | ask, look up DNS, install; look for faults; check port 25 both ways; uninstall |
| Agent integration (`agents_*.rs`) | files in the homes of coding agents | install a skill, merge an MCP entry, register, remove |
| Verifier service (`services/verifier`) | permits of its SMTP listener | an HTTP endpoint that calls a host back on port 25, and an SMTP listener to be called |

### 1.2 How they interact

- **One configuration, two copies.** Every reader of the configuration takes the
  snapshot (`ConfigHandle::load`, an `Arc` swap) and keeps it for the whole
  operation. The four writing verbs rewrite `config.toml` from the snapshot
  (temporary file, rename) and then store the new snapshot. A SIGHUP goes the
  other way, from file to snapshot.
- **Two locks, in a fixed order.** Outer: the mutex of the mailbox, taken by
  ingest, MARK, MAILBOX-* and HOOK-*. Inner: `CONFIG_WRITE_LOCK`, taken by the
  four writing verbs. Sending takes neither, but `SENT_WRITE_LOCK`; SIGHUP takes
  none.
- **Threads.** The tokio runtime interleaves SMTP sessions and socket requests;
  ingest runs on blocking threads that outlive the session that asked for it;
  hooks run on threads of their own, started after the lock is dropped.
- **One request per connection.** A client of the socket writes a frame of
  header lines, and for some verbs a body; the daemon reads it under a deadline,
  answers and closes. The frame may stop anywhere, and so may the answer.
- **Hooks are processes.** They run as the owner of the mailbox, under
  systemd-run or after fork and setuid, and are signalled by the thread that
  waits for them: a thread of its own for `on_receive`, the handler of the
  request for `after_send`.
- **Outside.** The sending MTA retries whatever is not answered with 250. The
  operator edits `config.toml`, removes directories, sends SIGHUP, and runs
  install.sh, setup, upgrade, uninstall and doctor, any of which may be
  interrupted and run again. The MCP server reads the mailbox files with no lock
  at all. Coding agents and their users edit the files that `aimx agents` writes
  to.

### 1.3 What makes each part correct, and what makes that hard

- *Live configuration*: file and snapshot agree; no writer loses another's
  update; a request is authorised by the owner its effect meets; hook names are
  unique over all mailboxes although each verb locks one mailbox; a failed
  CREATE leaves nothing half made. Hard because four handlers, a signal handler,
  an operator and crashes change two copies and a set of directories in steps.
- *Ingest and cache*: a retried letter is stored once and fires its hook once;
  250 means stored; nothing that is stored is overwritten or taken away by
  anything but a wipe. Hard because the MTA retries concurrently with the first
  attempt, the cache is built lazily from the disk, and a write can stop half-way.
- *MARK*: rewrites what is there and nothing else; hard because it reads, edits
  and renames.
- *SMTP*: recipients are those of the transaction the client is in, 250 means
  that each of them has the letter, permits come back, shutdown ends. Hard because
  a letter that is refused half-way leaves its rest to be read as commands,
  because STARTTLS may come anywhere, and because deliveries outlive sessions.
- *Sending*: what the client hears is what the MX hosts said, and what is on
  record. Hard because several hosts answer differently, a file name is chosen
  and used in two steps, and hooks run before the answer.
- *Hooks*: end by their limit. Hard because the child may end between a look and
  a signal, ignore signals, or leave others behind that hold its pipes.
- *Trust*: a letter is judged, and its hooks are chosen, by one policy. Hard because
  the letter is authenticated over the network, stored, and handed to a thread that
  may start late, while the lists, the catchall and the hooks of the mailbox change.
- *Clients*: what a user is told is so, also when the daemon stops between the
  effect and the answer, or starts while the CLI is about to edit the file.
- *Frames and letters*: a request is acted on as it was meant or not at all; a
  letter arrives as it was written. Hard at the edges: line ends, quotes, empty
  parts, a repeated header, an answer that is cut.
- *Host*: whichever step fails, the service has a binary, an upgrade can go back,
  a key that is published is not replaced, and "upgraded", or the end of a setup
  that installs, means that what was asked for runs. Hard because each program meets the remains of the others.
- *Setup, releases, doctor, agents, port check*: what is said at the end is so,
  although the world changes between the steps and any program may be killed.

`PROJECT.json` lists the hazards line by line, with the property that would
catch each.

## 2. The modules

| module | stands for | uses |
|---|---|---|
| `ConfigModel` | what a configuration is, what `Config::load` accepts, who is authorised, what one request means on its own | |
| `AtomicConfig` | the promise to a client: every request takes effect in one step or not at all | `ConfigModel` |
| `ConfigStore` | the daemon: snapshot, file, directories, both locks, the six verbs, SIGHUP, operator, crash | `ConfigModel` |
| `ConfigRefinement` | `ConfigStore` implements `AtomicConfig` | both |
| `Inbox` | one inbox: deliveries and retries, the Message-Id cache, MARK, forced DELETE, hook threads, failures, restarts, 24 hours | |
| `AtomicInbox` | the promise to the MTA and the owner: a letter is stored and remembered in one step | |
| `InboxRefinement` | `Inbox` implements `AtomicInbox` | both |
| `Trust` | one mailbox's policy: letters authenticated, judged and handed to hooks while the configuration changes | |
| `SmtpSession` | one SMTP connection: commands, letter, deliveries on blocking threads | |
| `Serve` | the SMTP listener with its permits, SIGTERM, the grace period, the end of the process | `SmtpSession` |
| `HookRun` | one hook under `run_child_with_timeout`: child, leftovers, limit, signals, drain threads | |
| `Outbound` | a connection to the socket, the SEND on it, MX hosts, sent copy, `after_send` hooks | `HookRun` |
| `Text` | bytes as sequences of the pieces the code treats differently | |
| `Frames` | the AIMX/1 frames: written, parsed header by header, answered, read | `Text` |
| `Letter` | a letter from `aimx send` to the recipient's mailbox: composed, taken apart, assembled, stored | `Text` |
| `Exchange` | connections to the socket piece by piece, and the letters that go on from there | `Frames`, `Letter` |
| `Clients` | CLI commands and MCP tools beside a daemon that starts and stops, the fallback of root, paging | `ConfigModel` |
| `Host` | the machine: install.sh, setup, upgrade, uninstall, each step failing or interrupted | |
| `Wizard` | what setup asks, and what it looks up in DNS | |
| `Release` | which release install.sh and upgrade take, and what is in its archive | |
| `Doctor` | `aimx doctor` while the host changes under it | |
| `Agents` | `aimx agents setup`, the picker and `remove` between the user's own files | |
| `Probe` | a check of port 25 (portcheck, setup, install.sh) and the verifier it calls | |
| `ConfigStoreProofs`, `ConfigRefinementProofs`, `TrustProofs`, `InboxProofs`, `ServeProofs`, `OutboundProofs`, `ClientsProofs`, `OperatorProofs` | theorems | the module named; `ServeProofs` also `Probe`; `OperatorProofs` is about the modules of `MCOperator` |
| `MCConfigStore`, `MCConfigRefinement`, `MCInbox`, `MCOutbound`, `MCExchange` | instances for TLC | |
| `ExchangeInputs` | requests, frames and letters for the instances of `Exchange` | `Frames`, `Letter` |
| `MCConfigTrust`, `MCServe`, `MCClients`, `MCOperator` | instances that hold several modules side by side | `ConfigStore` and `Trust`; `Serve` and `Probe`; `Clients` and `Exchange`; `Host`, `Wizard`, `Release`, `Doctor`, `Agents` |

The last four put modules that share no state into one instance: a variable
`focus`, chosen in the initial state, says which of them takes the steps, and the
others keep their values. Each behaviour is a behaviour of one module, so a run of
such an instance is that module's run. (Under fairness, `Serve` and `Probe` each
get theirs; that of the idle one is met, because none of the actions that are
promised fairness is enabled in the state it rests in.) Where a theorem is about
a property of such a run, the instance extends the module that states it; the
others are instantiated, with their variables renamed.

A definition introduced by the words "a slip" is no part of a specification. It
is a plausible bug in the code beside it; replacing the correct definition by it
must make TLC refute the property the slip is recorded for (`PROJECT.json`,
"mutants").

### 2.1 ConfigModel and AtomicConfig

A configuration is the owner of every mailbox name (`NoOwner`: no stanza) and
the effective names of its hooks. `Loadable` is what `Config::load` insists on:
no mailbox but the catchall belongs to root, and hook names are unique.
`Authorised` is `auth.rs` for an existing mailbox: root, or the owner. `Legal`
and `Outcome` say when one request is entitled to succeed and what it then does.

`AtomicConfig` has one variable for the configuration. A request succeeds in one
step at which it is legal, is refused only if at some moment while it was open it
was not legal (`missed`), or fails and changes nothing; a crash loses answers and
may keep one effect, whole.

### 2.2 ConfigStore

One slot is one connection with one request, as on the wire. `pc` says where the
handler is; the cuts are where another actor can get in between: each load of
the snapshot, each lock, each change of a file or directory, each store.

| action | code |
|---|---|
| `SubmitMailbox`, `SubmitHook`, `SubmitMail` | the handler up to its first lock; the hook verbs authorise here, on a snapshot of this moment (`hook_handler.rs`), ingest and SEND are routed or authorised here |
| `LockMailbox`, `LockConfig` | outer and inner lock |
| `CheckCreate`, `MakeInbox`, `MakeSent`, `ChownInbox`, `ChownSent` | `handle_create` up to the write: each mkdir and each chown is a step of its own, with its roll-back |
| `AuthorizeDelete`, `Wipe`, `CountFiles` | `handle_delete` up to the write |
| `EditHooks` | the second load under the locks, the lookup of the mailbox, `validate_hooks` |
| `WriteConfig`, `StoreConfig` | `write_config_atomic` (rename), then `ConfigHandle::store`, the answer, both guards dropped |
| `Transport`, `OpenDir`, `StoreMessage` | what SEND and INGEST do to the directories of a mailbox beside all this |
| `ReloadRead`, `ReloadStore` | `reload_config`: load the file, store it, under no lock |
| `OperatorEdit`, `OperatorRmdir`, `Crash`, `Restart` | the outside |

`drift` is a history variable: a hand edit, or a SIGHUP that stored what is no
longer in the file, has driven the two copies apart. Properties that only hold
while the daemon is the only writer of its file are conditional on it.

### 2.3 Inbox

The mailbox exists and keeps its owner (that is `ConfigStore`'s subject). All
letters arrive in the same second under the same subject, so that every delivery
competes for the same sequence of names `<stem>`, `<stem>-2`, ...; this is the
worst case for `allocate_filename`, and a stem is just the number of its suffix.
A file carries its letter and how much of it is on disk: created (`empty`),
frontmatter closed (`head`), all of it (`whole`).

| action | code |
|---|---|
| `Receive` | the end of DATA; the MTA may send a letter again on any connection, also while an earlier copy is at work, until it hears 250 |
| `Duplicate`, `Begin` | `ingest_email` after it has the lock: build the cache on first use, look the id up, choose a name, make the bundle directory |
| `Open`, `WriteSome`, `WriteRest` | `write_markdown`: `create_new`, then `write_all` |
| `Fail` | any of these returning an error: the bundle is removed again, if that works; a flat file stays |
| `Record` | the cache insert and `drop(_guard)` |
| `Spawn`, `RunHook` | `spawn_on_receive_async` and its thread |
| `Reply` | 250 or 451, said or not, heard or not: the deadline of the session drops the future while the blocking thread runs on |
| `MarkRead`, `MarkMiss`, `MarkPublish` | `handle_mark` under the lock |
| `WipeStart`, `WipeEntry`, `WipeEnd` | `wipe_mailbox_contents` of a forced DELETE |
| `Lapse`, `Evict` | 24 hours pass for a letter; the cache (SparKV, a library) drops the entry when it gets round to it |
| `Restart` | the daemon dies and is started again |

`Split` are the letters whose first 16 KiB on disk end inside a UTF-8 character:
the scan that rebuilds the cache cannot read them. `kept`, `fired`, `acked` and
`torn` are history: how often a letter was written whole, how often its hook
fired, which letters a session has answered 250 for, which were left cut.

`AtomicInbox` is the same promise without locks, files and sessions. `present` are the
letters of the last 24 hours that are there, `remembered` those that will not be
stored again; `Store` adds to both at once and needs a letter that is not
remembered. Memory goes by `Forget`, after `Age` (24 hours), and by `Restart`, after
which `Recall` looks at what is there before anything is stored; `Lose`, a wipe or a
failed write, takes letters away and leaves the memory alone. `days` and `restarts`
tie these steps to their causes. In the mapping (`InboxRefinement`) a letter counts
as remembered once its file is whole, when its session still has the entry to make.

### 2.4 SmtpSession and Serve

`ses[s]` is the `SmtpSession` of one connection: where the handler is (`at`), the
state of the transaction (`mode`, `paths`, `tls`), the commands counted so far, and
for a letter the snapshot that `deliver_message` took. `worker[s]` is the blocking
thread that ingests for one recipient; it goes on when its session is gone.

| action | code |
|---|---|
| `Hello`, `Mail`, `Rcpt`, `Rset`, `Data`, `Starttls`, `TlsUp`, `Answered`, `TooMany`, `Leave` | `handle_command` and the handlers it calls, the command limit, the ends of a connection |
| `LetterEnds`, `LetterCut`, `DataFails` | the ways out of `receive_data`; after most of them the command loop reads on, and what it reads is the rest of the letter |
| `Ingest`, `Stores`, `Fails`, `Reply` | `deliver_message`: one recipient after the other, then 250 or 451 |
| `Deadline` | `timeout_at` in `SmtpSession::handle`: the session is dropped wherever it is |
| `Accept`, `Reject` | the accept loop of `SmtpServer::run` with `try_acquire_owned` |
| `Sigterm`, `StopListening`, `GraceEnds`, `Drop`, `Exit` | the signal, the end of the loop, the 30 seconds, the drop of the runtime |

What ingest does to files is `Inbox`'s; here a letter is stored for a mailbox or
is not. A permit belongs to the task, so `permits` is what of it has not ended.

### 2.5 HookRun and Outbound

`HookRun` is one child under `run_child_with_timeout`: it may ignore SIGTERM, leave
a process behind that holds the pipes, run under systemd-run or after fork and
setuid. Time is three marks, within the limit, past it, and past the 5 seconds
after the SIGTERM. `Tick` and `UnitEnds` are the clock and `RuntimeMaxSec`; `Reap`,
`SendTerm`, `SendKill`, `Join` are the parent's loop and its join of the drains.

`Outbound` is a connection to the socket from accept to answer.

| action | code |
|---|---|
| `Connect`, `Dropped`, `Misframed`, `Drained`, `Refused`, `Accepted`, `Reply` | `handle_uds_connection_with_timeout`: credentials, the 30 seconds, the drain after a bad frame until nothing has come for 50 ms, the answer |
| `Pauses` | the client: it stops sending for 50 ms, or for good |
| `Resolve`, `Try`, `GiveUp` | `deliver_across_mx` and what `handle_send_with_signer` makes of its result |
| `TakeLock`, `Allocate`, `Create`, `Write`, `DiskFails` | `persist_sent_file`: name and creation under `SENT_WRITE_LOCK`, the text after it |
| `FireHook`, `HookFails`, `HookReturns`, `HooksDone` | `fire_after_send_hooks`, one hook after the other |

`took` and `fault` are history. All requests are from one mailbox in one second:
they compete for one sequence of file names.

### 2.6 Text, Frames, Letter and Exchange

Texts are sequences of pieces, a piece being what the code treats as one thing: a
header name, a line end, a run of characters that nothing looks into. `Frames`
holds how each verb's frame is written and how the daemon reads it header by
header (`TakeHeader`, `Accepts`, `Complete`), and beside it `Meaning`, which says of a
whole frame what it means without reading it in any order. `Letter` holds what
`aimx send` composes, what `split_multipart_body` and its neighbours take apart,
what is assembled for the wire, what the recipient's `ingest_email` stores, and
how a thread is computed on either side.

`Exchange` is the connection: `SendRequest` and its neighbours write a frame, all
of it or as much as the client gets to; `ReadVerb`, `ReadHeader`, `EndOfHeaders`,
`ReadBodies`, `LongLine`, `InputEnds`, `TimeOut` are the parser; `Serve`, `Refuse`
and `HandleSend` the handler; `Answer` writes the answer, or the beginning of it.
A letter that was sent goes on to the mailbox of another aimx, and may be replied
to from there, which is how a second letter comes into the same thread.

### 2.7 Clients

Each client is one CLI command or one MCP tool. The daemon answers a request in one
step, as `AtomicConfig` allows it to; it loads its configuration (`Load`) some time
before it binds the socket (`Bind`), and may stop at any time, also between the
effect and the answer (`Connect`, `Unanswered`).

| action | code |
|---|---|
| `Start`, `Ask`, `Lookup` | `mailbox.rs`, `hooks.rs`, `send.rs`, `mcp.rs` up to the request: the copy root loads, the prompts, the look-up among the rows the caller is shown |
| `Connect`, `NoDaemon` | the request; only a missing socket, or one that nobody listens on, counts as no daemon |
| `Direct`, `Mkdir`, `Chown`, `Wipe`, `Save`, `Rmdir` | root's own edit, on the copy loaded at the start |
| `Turn`, `Row`, `PageEnds` | `email_list`: the names, then the files of one page; the agent asks for the next until one is empty |
| `Resolve` | `email_read` and `email_reply` on the file itself |
| `Arrive`, `Land` | a letter comes to be: first its name, then its text |

### 2.8 Host, Wizard, Release, Doctor, Agents

These are programs one runs at a terminal. Each is a sequence of steps, each step
may fail where the code handles a failure, the program may be killed between any
two, and the next program finds what is left.

- `Host` keeps the binary, `.prev`, the unit, the running process, `config.toml`,
  the key pair, the certificate, the user; `op` is the program at work and where it
  is. The actions of `InstallStep`, `SetupStep`, `UpgradeStep` and `Uninstall` are
  the steps of install.sh, `setup.rs`, `upgrade.rs` and `uninstall.rs` in order;
  `Binds`, `Dies`, `Crash` and `AddUser` are the service, the operator, the machine.
- `Wizard` is the part of setup that asks: `GetDomain`, `GetKey`, the DNS loop
  (`Verify`, `DigAnswers`, `DigFails`, `Shown`, `Skip`), the policy (`GetPolicy`,
  which looks for a file once, and `Prompt`), then what `finalize_setup` makes of
  `config.toml`, under no lock: `Load` reads it once or, where there is none, makes
  one up; `wiz.copy` is what it has in memory from then on, and is written whole, up
  to twice (`ToWrite`, `Onward`): by `Save` when there is a file at that moment,
  whoever put it there, or by `Create` and `Fill` when there is none. `OthersWrite`
  may come between any two of these. `zone` is what is published, and changes
  meanwhile; `current`, `edited` (since the policy was asked for) and `stale` (since
  the load) are history.
- `Release` chooses a tag, compares, downloads, extracts and swaps, for install.sh
  and for aimx upgrade, while releases come out and manifests point elsewhere.
- `Doctor` loads once and looks many times (`Gather`, `CheckOwners`, `CheckDir`,
  `CheckStorage`, `CheckCatchall`); `lasting` and `met` are history, the faults there
  were throughout and the faults there were at all, by the configuration loaded.
- `Agents` writes the files of a skill one after the other, each emptied and then
  filled (`WriteFile`), merges `.mcp.json` (`MergeRead`, `MergeTemp`, `MergeRename`),
  registers with the agent's own command, and removes; `UserAdds` and `UserPastes`
  come at any point, `UserRewrites` while no command runs.

### 2.9 Probe

`cmd` is the check (`aimx portcheck`, the first step of setup, or
`install.sh --port-check-only`), `call[w]` the SMTP conversation of one of the two
ways, line by line, with both ends and what is in the pipe between them; `permits`
and `guests` belong to the verifier's own listener, which strangers use too. `path`
may be shut or answered by a filter. `Dial`, `Hear` and `GiveUp` are the end that
calls: `check_outbound_port25` on the host, `smtp_ehlo_handshake` in the verifier.
`Greet`, `Serve` and `Close` are the end that is called: the verifier, the daemon,
the temporary listener (`with_temp_smtp_listener`), or the script's.

### 2.10 Trust

`letter[l]` is one letter from the end of DATA, or from the stdin of `aimx ingest`,
to the end of its hooks: where it is, what it says, the configuration it is handled
on (`snap`), what the checks found (`auth`), the verdict (`trusted`), and the hooks
still to run. `file` and `served` are the two copies of the configuration, as far
as one mailbox's policy and hooks go.

| action | code |
|---|---|
| `TakeData`, `TakeStdin` | `handle_data` takes the snapshot; `aimx ingest` loads the file |
| `Judge` | `verify_auth`, then `evaluate_trust` |
| `StoreLetter`, `GiveUpLetter` | the rest of `ingest_email`, which is `Inbox`'s; a duplicate, a failed write, or a panic |
| `StartHooks`, `SpawnFails`, `RunNext`, `HooksDone` | `spawn_on_receive_async` and `execute_on_receive`: the choice by `should_fire`, then one hook after the other |
| `EditFile`, `ReloadConfig`, `RestartDaemon` | the operator, `reload_config`, a new daemon |
| `AskHook`, `CommitHook`, `DeleteHook` | HOOK-CREATE on either side of its locks, HOOK-DELETE |

`FileLoads` is what `Config::load` insists on beyond `ConfigModel`: trust values,
a catchall without hooks, hooks that `validate_single_hook` accepts, no key of the
removed schema. DNS and signatures are the world's: an answer is part of the
letter. That DNS or a runtime is missing is an outcome of `Judge` (`NoAuth`).
What the code slices at in a From line whose brackets come in the wrong order is
`Panics`. Letters are independent of each other but for the configuration.

## 3. What the runs check

| run (module) | instance | distinct states | properties |
|---|---|---|---|
| `ConfigStore` (`MCConfigTrust`) | 2 mailboxes, 2 users, 1 hook name, 2 slots (symmetric) with any two of ten requests; one SIGHUP, hand edit, rmdir and crash each; and 1 letter of 3, on 9 texts of `config.toml`, with 3 changes of it | 1.8 M | `ServedHooksUnique`, `OwnersPinned`, `NoHalfMailbox`, `HooksCommittedByOwner`; `HooksAsJudged` |
| `ConfigRefinement` (`MCConfigRefinement`) | 3 slots with any of seven writing requests, one crash | 0.4 M | `ImplementsAtomicConfig`, `EveryRequestEnds` |
| `Inbox` (`MCInbox`) | a flat and a bundled letter, each sent up to twice, 2 sessions (symmetric), 1 client; any three of one MARK or DELETE, one failing call, one restart, one lapse | 3.8 M | `StoredOnce`, `MailIntact`, `ImplementsAtomicInbox` |
| `InboxProgress` (`MCInbox`) | the same with no restart and no lapse, under fairness | 0.4 M | `DeliveryEnds`, `HooksCatchUp` |
| `Serve` (`MCServe`) | 2 connections for 1 permit, 2 recipients, 6 commands, 1 letter each, 1 change of the snapshot; and 2 port checks, 1 permit of the verifier, 1 cut | 0.5 M | `NoStrayRecipient`, `AckedIsStored`, `PermitsComeBack`, `SigtermEnds`; `PassedMeansReached`, `CheckEnds`, `GateReopens` |
| `Outbound` (`MCOutbound`) | 2 requests, up to 2 hosts, up to 1 hook each, deaf, leaving a process behind, or under a systemd-run that hangs; any file-system failure | 0.8 M | `AnswerTellsHosts`, `OutcomeIsRecorded`, `ConnectionEnds` |
| `Clients` (`MCClients`) | 2 clients with any two of fifteen commands, 2 mailboxes, 3 letters, pages of 2, 2 starts of the daemon; and every verb's frame, foreign frames, up to 2 letters | 3.5 M | `LoadableFile`, `ToldTruth`, `PagingMissesNothing`; `ActedAsAsked`, `ToldAsAnswered`, `LetterArrives`, `ThreadsAgree` |
| `Operator` (`MCOperator`) | host: 4 programs, 3 tags, 2 domains, 2 crashes; agents: 3, 2 commands, 1 event; wizard: 2 domains, 3 records, 2 runs, 1 edit; release: 3 tags, 2 targets, 2 runs, 1 event; doctor: 2 mailboxes, 1 change | 2.7 M | `UnitHasBinary`, `OldBinarySurvives`, `UpgradedRunsNew`, `SetupServes`; `UsersThingsKept`, `InstalledWhole`, `RemovedIsGone`; `VerifiedMeansPublished`, `TrustKept`; `ToldIsInstalled`; `VerdictIsTrue` |
| `ReloadLosesUpdate` (`MCConfigStore`), `HookWedge` (`MCOutbound`), `AttachmentsLost` (`MCExchange`), `Downgrade` (`MCOperator`) | | | one each, violated: section 5 |

**What they show.**

- *Configuration.* With any two requests in any order beside the outside events,
  two hooks of one name are never served, although two HOOK-CREATEs on different
  mailboxes hold different outer locks; a directory keeps its first owner, which is
  why the early owner check of the hook verbs is still right when they commit, as
  long as nobody removes directories; a failed CREATE leaves both directories or
  neither. A client cannot tell any of this from a configuration that changes in
  one step per request, and no request hangs.
- *Trust.* However policy, catchall and hooks change while a letter is looked up,
  stored and waits for its thread, the hooks that run are those that one
  configuration entitles to the verdict it gave, and all of those.
- *Inbox.* Retries in parallel, one after the other, after a failed write and after
  a restart store a letter once and fire its hook; 250 stands for a stored letter
  (or a cut file, section 5); neither MARK nor a name clash ever costs a letter. Nobody
  can tell the lock, the file that grows and the entry that follows from a store in
  one step, and a letter that was wiped is not stored anew by a retry.
- *SMTP.* Neither STARTTLS, RSET, a second EHLO nor the rest of a refused letter
  read as commands makes a recipient of anybody the client has not been told 250
  for in this transaction; 250 is said when every recipient's copy is stored, in
  the mailbox it was routed to, although the snapshot may have changed since RCPT; a
  full server opens again; SIGTERM ends the process whatever clients do.
- *Port check.* "Reachable" is said when both ways answered in this very check; a
  check ends and leaves the port free; a verifier that is full opens again.
- *Sending.* OK, TEMP and DELIVERY mean what the hosts said; a verdict is on record
  before the client hears it, two requests in one second included, unless the file
  system failed; every connection ends, but for one whose client sends on and on
  after a frame that does not parse, and one whose own hook is wedged: it left a
  process behind with the pipes open that never ends, or systemd-run itself hangs
  (section 5).
- *Clients.* What a command tells its user happened to `config.toml` happened
  exactly once, or not at all, also when the daemon dies after the effect ("unsure"
  is then the answer, and root's fallback does not run); the file stays loadable;
  an agent that pages to the end has seen each letter that was there throughout.
- *Frames and letters.* However a frame is cut, permuted or repeats a header, the
  handler gets what the whole frame means, and what the client was asked for; a
  letter arrives with its text, HTML and attachments; both sides agree on its thread.
- *Host.* While there is a unit there is a binary for it or a `.prev`; an upgrade
  that has not succeeded can go back; "upgraded" means that the new version runs,
  and a setup that installed the service ends with the daemon serving the domain it
  was given. A setup that finds a complete installation is left out of the latter:
  it writes `config.toml`, for another domain if asked to, and restarts nothing.
- *Setup, releases, doctor, agents.* "All DNS records verified" is about this
  domain and this look; no step of setup changes a trust policy but one that another
  wrote after this run loaded the file (section 5), and the policy that was confirmed
  is the one in the file unless another wrote it since; the release that is named is
  the one that is installed; a doctor that is content overlooked nothing in what it
  loaded that was at fault all the time, and does not fail over what never was; what
  is the user's is left alone (in `.mcp.json`, what was there when it was read), a
  half-written skill is completed, a removal is whole.

**Bounds, and why they are enough.** Writers of the configuration interact through
one inner lock and through pairs of locks, so two requests reach every conflict of
two, and the refinement adds a third, which is what it takes for one writer to
change what a second has checked while both wait for a lock that a fourth party
(the crash) frees. Two mailboxes are what unique hook names need, two users what
ownership needs. In `Inbox` two letters of two layouts reach every case of
`allocate_filename` and of path resolution; two sessions and two tries give
concurrent and sequential retries; two letters written twice each (a retry after a
failure, one after the lapse) use at most four names, so `MaxStem = 4` is never the
reason a step is not taken; of the four outside events (request, fault, restart, lapse)
a behaviour has any three, `MaxEvents`. In `Serve` six commands take a client through EHLO,
STARTTLS, EHLO again and a whole transaction, or through two transactions; two
connections for one permit are a full server and somebody who is turned away.
Two requests are what a clash of sent file names takes, two hosts what a refusal
among failures takes. Two clients and two starts of the daemon reach the daemon
that comes up while root is about to edit the file; three letters on pages of two
make a second page that a new arrival shifts. Four programs on the host are an
install, a setup, an upgrade that fails and the repair of it, with two crashes in
any of them. In `Trust` one letter is enough, since letters meet nowhere but in the
configuration; three changes are an edit, a hook request and a restart around it.
Each outside event is bounded by one, two or three per behaviour; the proofs
do not have these bounds.

**Fairness.**

- `ConfigStore`: weak fairness of each handler and of a started reload. `Inbox`:
  weak fairness of each delivery, each client's handler, each hook thread. The
  tokio runtime and the OS keep running what has been started, and a lock has
  finitely many contenders here (a `tokio::sync::Mutex` is moreover FIFO; a delivery
  takes it by `blocking_lock` on the same queue).
- `Serve`: the total deadline of each session (`TimeOut`), its blocking thread
  (`Work`), the accept loop that sees the signal, the 30 seconds, the drop of the
  runtime and the exit. No client need send or close anything.
- `Outbound`: the read deadline, the handler (each host answers or times out), the
  clock, systemd's limit, the parent's loop, and `Drained`, the 50 ms that run out
  once a client has paused. That it pauses (`Pauses`) is the client's affair and not
  assumed: each byte starts the 50 ms anew and there is no limit on the whole, so
  `ConnectionEnds` excepts the client that never does. Nor is it assumed that what a
  hook left behind ends. `Reply` is fair because an answer of one line fits the
  buffer of the socket: `write_response` has no time-out of its own.
- `Probe`: the command, and on both ends every wait, since each has a time limit;
  the verifier's sessions end for the same reason.

Nobody has to connect, send, retry, signal, edit or crash, and no restart is
promised. Deadlock is checked in the configuration runs, where `Quiescent`, or that every
letter is dealt with (`LettersDone`), is the only way to stop; in the others it is not, because clients, MTA, programs and
operators really may be done.

## 4. What is proved

For every value of the constants (any number of mailboxes, users, hooks, slots,
letters, sessions, recipients, requests, hosts, tags, domains, clients, commands,
policies, and any bounds), from
the named assumptions in the modules. These keep the special values apart from the
sets, make the sets that are counted finite, let the daemon start from a
configuration it can load, and say that bounds are numbers.

| theorem | says |
|---|---|
| `ConfigStoreProofs!TypeCorrect`, `InboxProofs!TypeCorrect`, `ServeProofs!TypeCorrect`, `OutboundProofs!TypeCorrect`, `ClientsProofs!TypeCorrect`, `OperatorProofs!TypeCorrect` | `Spec => []TypeOK` of the module |
| `ConfigStoreProofs!SnapshotCorrect` | `[]SnapshotMatchesFile`: the two copies differ by the one write in progress |
| `ConfigStoreProofs!NoLostUpdates` | `NoUpdateLost`: what replaces the file is the file plus one request |
| `ConfigStoreProofs!HooksServedUnique` | `[]ServedHooksUnique`: the daemon never serves two hooks of one name |
| `ConfigStoreProofs!DirectoriesPinned` | `[]OwnersPinned`: whoever owns a mailbox, in the snapshot or the file, owns its directories |
| `ConfigStoreProofs!HookCommitsAuthorised` | `HooksCommittedByOwner`: the early owner check of a hook verb still holds at its commit |
| `ConfigStoreProofs!NoHalves` | `[]NoHalfMailbox`: no failed CREATE leaves one directory |
| `ConfigRefinementProofs!ConfigIsAtomic` | `ImplementsAtomicConfig`: the daemon refines `AtomicConfig`, if it alone writes its file and directories |
| `TrustProofs!LettersJudgedOnce` | `[]HooksAsJudged` |
| `InboxProofs!AtMostOneCopy` | `[]StoredOnce` |
| `InboxProofs!CacheComplete` | `[]CacheKnowsStored` |
| `InboxProofs!AckMeansStored` | `[]AckedWereStored` |
| `InboxProofs!InboxIsAtomic` | `ImplementsAtomicInbox`: `Inbox` refines `AtomicInbox` |
| `InboxProofs!NothingUndone` | `MailIntact` |
| `InboxProofs!HooksNotRepeated` | `[]HookPerStore` |
| `ServeProofs!RecipientsAgreed` | `[]NoStrayRecipient` |
| `ServeProofs!CutStaysOut` | `[]CutNeverStored`: a letter the server gave up on is stored for nobody |
| `ServeProofs!GraceFirst` | `[]OnlyGraceCuts`: the shutdown cuts nobody before the 30 seconds |
| `ServeProofs!AckTruthful` | `AckedIsStored` |
| `ServeProofs!ReachableIsTrue` | `PassedMeansReached` of `Probe` |
| `OutboundProofs!AnswersTruthful` | `[]AnswerTellsHosts` |
| `OutboundProofs!HooksSeeRecords` | `[]HookSeesRecord`: the file a hook is pointed to is its own request's, whole |
| `OutboundProofs!HooksBeforeAnswer` | `[]HooksWithinRequest` |
| `OutboundProofs!KillsInOrder` | `[]HookEndsInOrder` |
| `OutboundProofs!VerdictsRecorded` | `[]OutcomeIsRecorded` |
| `ClientsProofs!UsersToldTruth` | `[]ToldTruth`: what a command tells its user of `config.toml` happened |
| `ClientsProofs!FileLoads` | `[]LoadableFile`, if no owner that is asked for is root |
| `ClientsProofs!PagingComplete` | `[]PagingMissesNothing` |
| `OperatorProofs!ServiceKeepsBinary` | `[]UnitHasBinary` |
| `OperatorProofs!UpgradeKeepsOld` | `[]OldBinarySurvives` |
| `OperatorProofs!OneKey` | `[]KeyKept`: the key published in DNS is never replaced |
| `OperatorProofs!UpgradeTruthful` | `UpgradedRunsNew` |
| `OperatorProofs!SetupTruthful` | `SetupServes` |
| `OperatorProofs!InstalledIsTold` | `ToldIsInstalled` of `Release` |
| `OperatorProofs!VerifiedWasThere` | `VerifiedMeansPublished` of `Wizard`: "all verified" is said of records that were published |
| `OperatorProofs!PolicyIsKept` | `TrustKept` of `Wizard` |
| `OperatorProofs!DoctorIsRight` | `VerdictIsTrue` of `Doctor` |
| `OperatorProofs!UsersKeepTheirs` | `UsersThingsKept` of `Agents` |
| `OperatorProofs!InstallIsWhole` | `InstalledWhole` of `Agents` |
| `OperatorProofs!RemovalIsWhole` | `RemovedIsGone` of `Agents` |

Properties that are proved and follow from no instance in particular (`TypeOK`,
`SnapshotMatchesFile`, `NoUpdateLost`, `CacheKnowsStored`, `AckedWereStored`, `HookPerStore`,
`CutNeverStored`, `OnlyGraceCuts`, `HookSeesRecord`, `HooksWithinRequest`,
`HookEndsInOrder`, `KeyKept`) are in no configuration any more.

**ConfigStore.** `SnapshotMatchesFile` alone is not inductive: the store of one
handler could put an old configuration back. The invariant adds that a handler is
only at steps of its own verb (`HandlersOnTrack`), that whoever is between the
inner lock and the answer is its one holder (`OneWriter`), that nothing is open
while the daemon is down (`DownIsQuiet`), and that what a handler is about to
write is the snapshot plus its own request, the snapshot being the file unless a
store is outstanding (`WriterKnows`). `NoUpdateLost` follows: at the rename the
handler's `next` is the outcome of its request on the snapshot, which is the file.

`ServedHooksUnique` takes the same of every copy on its way to the snapshot
(`UniqueCopies`); the file itself may be anything, and is validated when it is read.

`OwnersPinned` is about configurations that lag behind: the file a SIGHUP has read,
the snapshot an INGEST, a SEND or a HOOK-CREATE was let in by. `Claim(m, a)` says
that any of them takes m for a's. The invariant (`PinnedInv`) is that whoever has a
claim owns both directories (`ClaimsHeld`), that while a CREATE is at work nobody
else has one on its mailbox, or nobody at all if it found a directory missing
(`CreatorAlone`), and that mail is in directories only (`MailInDirs`). Claims are
inherited step by step; the one new claim is made by the rename of a CREATE, after
its look at the directories. It holds as long as nobody edits the file or removes
directories by hand. `HooksCommittedByOwner` follows: the caller of a hook verb has
had a claim since it was authorised.

`NoHalfMailbox` needs the outer lock as well (`HoldsMailbox`): between the two
mkdirs, and between the two chowns, the directories differ, and it is the holder
that brings them together again. For the roll-back the invariant (`WholeInv`) says
what a CREATE made, and that what it would remove holds no mail (`Retractable`).
It is about a daemon that was not killed: between two mkdirs that does leave half.

**ConfigRefinement.** `AtomicInv` adds to `PinnedInv` that a writer is entitled to
what it is about to write, on the snapshot as it is (`Entitled`), that what a
HOOK-DELETE has found is still there or its request has missed it (`Looked`), and
that `missed` has every request that is not legal now (`MissedKnown`). Each step
of `ConfigStore` is then classified by what its requester learns from it
(`StepKinds`), and each kind is a step of `AtomicConfig` or a stutter. The
hypothesis is that of the run: no reload, no edit, no rmdir.

**Trust.** The configuration that `HooksAsJudged` asks for is the snapshot. That
would not do alone: a verdict other than "none" must be one of a policy that
verifies, which takes a configuration with valid trust values (`Valid`), and
HOOK-CREATE, which does not check them again, keeps them because it changes hooks
only. `Sound` says what is known of a letter at each place, among it that hooks run
and hooks left are together those that were chosen.

**Inbox.** `StoredOnce` is not inductive: two deliveries of one letter could both
be past their lookup. The invariant adds who holds the lock (`Locks`), what the
holder has in hand (`Hands`), that whoever is about to write found its id
unknown in a built cache (`Writers`), that a built cache knows all that is
stored but for the letter just written by the holder, and that an over-age
entry has no fresh copy (`CacheHolds`), that names are unique (`Paths`), and
that every file, every cache entry and every session about to say 250 vouches
for a store (`Vouched`). `HookPerStore` needs one more, a count: hooks fired,
threads started and sessions that still owe a thread are together no more than
the stores (`HooksDue`), proved with the cardinality lemmas of the library.

That `Inbox` refines `AtomicInbox` is proved from the same invariant, an action at a
time. The step that matters is the last write of a file (`WriteRestRefines`): its
letter is in no cache because `Writers` holds until the entry is made, and the entry
itself is then a step nobody sees. The first look at the directory (`ConsultRefines`)
finds what is there and at most what was left cut; an entry is evicted after its 24
hours and never while its letter is at the entry (`EvictRefines`); a hook has a store
to pay for it by `HooksDue`.

**Serve.** `CutNeverStored` is not inductive, since a thread works for a session
that may since have begun another letter. The invariant adds what a session can
hold at each place (`Fits`), that a thread works for a delivery or for a connection
that left during one (`Threads`), that letters of a connection only count up and the
one being read is new (`LettersRise`), that a letter at delivery was not cut
(`DeliveredWhole`), that while nothing failed whoever is no longer to do has the
letter (`DoneIsStored`), and
that the permits are those of the live sessions (`PermitsAreLive`).
`AckedIsStored` is `DoneIsStored` at the step of the answer; `OnlyGraceCuts` is
`PermitsAreLive` at `Drop`.

**Probe.** A check is told by lines that come over a connection, so the invariant
(`OnlyAnswersPass`) says where a line can come from: as long as the called end has
not answered EHLO in this check, nothing but banners is on the way to the caller,
no verdict is "yes", and no leg has passed. Nothing of one leg or check may reach
the next (`NothingLeft`). The module is proved about through `MCServe`, whose
constants for it are parameters.

**Outbound.** The file that is written after the lock was given back must still be
the request's own. The invariant adds what a request can be at each stage
(`Stages`), that whoever allocates or creates holds the lock (`Locked`), that the
name a request has is free until it creates it and is then its own (`Names`), that
a request past its record has a path or a fault (`Recorded`), and that the parent
joins its threads only when the child is gone (`Reaped`).

**Clients.** `ToldTruth` needs where each verb can be, what copy it has there and how
often it has written (`OnTrack`); the fallback, for example, is only for commands
whose `connect` found no daemon, and those have written nothing yet. `LoadableFile`
needs the same of every copy that is written sooner or later: the snapshot, and
what each client has loaded (`AllLoadable`). For `PagingMissesNothing` the invariant
(`Paged`) counts: a letter still owed lies on the page in hand or behind it, where
the place of a letter is the number of those in front of it, and letters that
arrive only raise places (`PlacesGrow`); what a wipe removes is owed no more.

**Host.** The invariant says for each program what it knows by the place it has
come to (`InstallKnows`, `SetupKnows`, `UpgradeKnows`, `UninstallKnows`), for example
that an upgrade between preserving and installing has the old binary in `.prev`, and
that a private key was made at most once (`KeyOnce`). The two
action properties follow from `UpgradeKnows` and `SetupKnows` at the last step.

**Release.** `ToldIsInstalled` relates the last message of a command to a decision
it took earlier. `ReleaseKnows` carries the decision along: what is about to be put
in place is the binary of the tag and the target that were chosen, and unless
somebody else replaced it meanwhile, the binary of a running `aimx upgrade` is
still the release the program was built as. That two tags which are neither older
nor newer are the same is the lemma `EqualIsSame`. It is proved through
`MCOperator`, for any tags, suffixes and targets.

**Wizard.** "Verified" is said after answers that came one by one, while the zone
changed. `LookKnows` says that what is published now has been current at some time
since the look began, and that each record a result calls "pass" or "warn" has been.
For `TrustKept` the copy in memory is followed beside the file, through a creation
that is cut short (`PolicyKnows`): a policy is asked for only when there was no file;
the copy that is about to be written has the policy of the file, unless another
wrote the file since it was loaded (`stale`), and the policy that was confirmed,
unless another wrote it since the question (`edited`); the file is "broken" while it
is filled, and one that is not whole has no policy to lose.

**Doctor.** The verdict is about faults of the configuration that was loaded: those
that were there throughout (`lasting`) and those that were there at all (`met`). The
run looks up each owner twice, and passes over the directories of one it does not
find at the second look. The invariant (`DoctorKnows`) says that each lasting fault is
either found (`Noticed`), among the findings or in the report's rows without an
owner, or still to be looked for (`Pending`). A fault of a directory can only last while
its owner is known, so a lasting one is not passed over; an owner that was missing
at the first look is in the report, and makes the exit code. That needs findings to
name the directory they are about, as the code's do: with three changes, a fault can
leave the one directory of a mailbox and come back in the other behind the look, and
what is said of it must not pass for the other's.

**Agents.** `AgentsKnows` says by the place a command has come to what it has made
so: at "write", the files already written are whole and those still to be written
are not the user's, unless force or yes was given; from "merge" on all are whole; at
the rename of `.mcp.json` no entry was seen, or force was given; a registration is
only tried for an agent that has a command for it. What a step may then do and say
are the three properties. The first file to be written, and the first agent, are
those with the least index, which exists by the well-founded order of the naturals.

**Only model-checked.** Liveness, and anything with ENABLED, is out of the
prover's reach: `EveryRequestEnds`, `DeliveryEnds`, `HooksCatchUp`,
`PermitsComeBack`, `SigtermEnds`, `CheckEnds`, `GateReopens`, `ConnectionEnds`.
`ActedAsAsked`, `ToldAsAnswered`, `LetterArrives` and `ThreadsAgree` are about what
`Text`, `Frames` and `Letter` compute on sequences of any length, by folds and
filters; for every input that would need induction over data.

## 5. What disagrees with the documentation

Each of these is a run that TLC refutes, with the property that a comment or a
page of the repository states.

| run | what happens |
|---|---|
| `ReloadLosesUpdate` | A SIGHUP reads `config.toml`, a CREATE writes and stores, the SIGHUP stores what it read; the next CREATE or DELETE writes the file from that snapshot, and the first one's stanza is gone (`serve.rs` `reload_config` takes no `CONFIG_WRITE_LOCK`). |
| `HookWedge` | A hook under fork and setuid leaves a process in the background and exits. The parent leaves its loop, which is where the limit is, and joins the drain threads, which end when that process does: never. The "hard" limit of `book/hooks.md:43` is none for it. |
| `AttachmentsLost` | `split_multipart_body` takes all line ends off a part before the empty line below its headers is looked for. A part with an empty body is then no part: an empty text makes the first attachment the text, and an empty file is dropped. |
| `Downgrade` | install.sh looks for `aimx <tag>` in what `--version` prints, and the binary prints another banner. It never knows what is installed, and replaces it by whatever is asked for. |

Noticed while modelling, and kept in the models, with no run of their own:

- *Configuration.* A hook verb authorises before it waits for the lock; if the
  mailbox is deleted, its directories removed and it is created anew for somebody
  else meanwhile, the hook lands in the new owner's mailbox. A SEND authorised
  earlier, or an ingest routed by an older snapshot, puts mail into a mailbox that
  DELETE has found empty. A CREATE with `Owner: root` writes a stanza that
  `Config::load` refuses. A `--data-dir` given on the command line is saved by the
  CLI's own edit (`config.rs:981`).
- *Trust.* HOOK-CREATE looks whether the mailbox is the catchall before it waits for
  its locks, and not again (`hook_handler.rs`); with a reload in between, the
  catchall gets a hook, which never runs, and a `config.toml` the next start
  refuses. A From line with its angle brackets in the wrong order makes the thread
  that authenticates the letter panic, and the letter is not stored (`ingest.rs`).
- *Ingest.* `write_markdown` writes at the final path. What is cut behind the
  frontmatter passes for the letter after a restart, and the retry is answered 250
  (`smtp/session.rs:590` promises "lossless semantics"). When the first 16 KiB of a
  file end inside a UTF-8 character its id is not found, and after a restart the
  letter is stored again. The cache survives DELETE and re-creation
  (`mailbox_locks.rs:118`); a directory that cannot be read once makes a cache that
  is empty and counts as built (`ingest.rs:624`). A flat file and a bundle may share
  one id (`slug.rs:99`).
- *Sending.* A SEND that times out after the MX took the letter is TEMP
  (`send_handler.rs:362`). With several addresses in `To:` the letter goes to the
  first only. Sessions still open after 30 seconds of shutdown are cut
  (`book/faq.md:61`).
- *Threads.* A reply to a reply is in another thread than the letter that began it
  (`agents/common/aimx-primer.md:319`, `workflows.md:58`, against `book/faq.md:108`).
  An error to VERSION reads as a garbled answer.
- *Clients.* Root's fallback saves a copy that may be minutes old, under no lock.
  A create that fails there removes directories that were there before, with their
  mail (`mailbox.rs:207`); `delete --force` wipes the directory of a name before it
  says that there is no such mailbox. When a bundle is taken back, or a mailbox
  wiped, between two pages, letters move past the offset unseen; a page of nothing
  but unreadable rows looks like the end.
- *Host.* When the new daemon is too slow, the roll-back restores the file, and the
  start that follows does nothing, for the new daemon is active already
  (`upgrade.rs:582`). If the old binary cannot be preserved, the `.prev` of an
  earlier upgrade is "restored". Nothing keeps two upgrades apart. `aimx upgrade`
  compares for equality, so a `latest` that is older is a downgrade
  (`book/installation.md:120`). The first setup on a host without the catchall's
  user ends with an error (`book/setup.md:45`); a `config.toml` or a key pair that
  was cut makes setup unrepeatable.
- *Setup, doctor, agents, port check.* MX is accepted when it contains the domain.
  `finalize_setup` loads `config.toml` once and saves that copy, once for another
  domain and once for a missing catchall, under no lock (`setup.rs:1477-1504`): a
  policy, or a mailbox, that an editor, a second setup or the daemon puts in
  meanwhile is reverted. Where there was no file at the look (`setup.rs:1476`) and
  there is one at the write, `install_config_file` overwrites it (`setup.rs:1680`).
  A setup of a complete installation for another domain leaves the daemon serving
  the old one until somebody restarts it. Doctor judges by what it loaded, and may
  raise an alarm about a mailbox that changes hands while it looks; its hints name `aimx hooks prune`, which does not exist. `.mcp.json` is read and
  replaced without a lock, and what the user's own tools write in between is lost. A half-installed skill is "wired". A verifier that is
  full makes the check report outbound port 25 as blocked.

## 6. What is left out

**In what is modelled.** The text of TOML, frontmatter and MIME headers beyond the
pieces that are told apart; how DKIM, SPF and DMARC results come about; TLS. Accounts always
resolve where the code only warns if they do not. Letters without a Message-Id are
never deduplicated, as documented, and do not occur. A frontmatter of more than
16 KiB and the capacity of SparKV (100 000 entries) are not reached. Reading the
directory for the cache succeeds. The 24 hours end only while nobody holds the
lock. Files are whole, cut behind the frontmatter, or without one. In `Clients`
letters only disappear by a wipe or a bundle taken back. In `Host` the operator runs
one program at a time. In `Wizard` others put a whole file in the place of
`config.toml`, as the daemon's rename does; an editor that writes into the file that
is there is not modelled. The programs of the `Outbound` run all leave a process
behind that may end or stay, so that every hook may be wedged or not; `HookWedge`
refutes what `ConnectionEnds` excepts. In `Probe` install.sh reads answers as its
python and bash variants do, in their order: the one that uses nc
(`install.sh:699-709`) takes a final 250 line anywhere behind a 220 one. The verifier
waits for the answer to QUIT under the limit on its whole check
(`services/verifier/src/main.rs:299`), so a host that answers EHLO and is silent after
it counts as out of reach; in the model it counts as reached. A server that sends 250- lines for ever is stopped by the limits, and is not modelled. In
`Wizard` a resolver answers with the zone as it is at that moment, and has no cache of
its own.

**Not modelled.**

- *Markdown rendering, DKIM signing, the date and the boundary in a letter*: text in,
  text out, by libraries; `Letter` only keeps which source an HTML part was made
  from.
- *Read-only verbs*: the counts they report. The rows are in `Clients`, the framing
  in `Frames`.
- *Setup*: the README it writes, logs, the layout of the terminal. *Hooks*: the
  environment and the argument vector a child gets.
- *Liveness of the terminal programs*: they wait for a person.

## 7. Plan

Done: every component has a module; each safety invariant and action property of the
runs is a theorem, but for the four of `Exchange`; `ConfigStore` refines `AtomicConfig`
and `Inbox` refines `AtomicInbox`. What could follow:

1. The retry of a letter that was accepted for some of its recipients only:
   `SmtpSession` composed with one `AtomicInbox` per recipient, which the refinement
   allows in place of `Inbox`.
2. `Exchange` with its frames as an abstract alphabet, so that the part of
   `ActedAsAsked` that is not about the contents of a sequence can be proved.
