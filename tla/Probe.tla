------------------------------- MODULE Probe -------------------------------
(***************************************************************************)
(* The check of port 25, of aimx portcheck, of the first step of aimx      *)
(* setup and of install.sh --port-check-only (the shell's): the host calls *)
(* the verifier's SMTP listener, then asks the verifier, over HTTP, to     *)
(* call the host back; a listener of its own holds the port meanwhile when *)
(* nothing else does. Two programs on two machines with a network between  *)
(* them that may shut, filter or cut either way.                           *)
(***************************************************************************)
EXTENDS Naturals, Sequences

CONSTANTS
  MaxPermits,  \* sessions the verifier's SMTP listener takes at a time
  MaxCommands, \* bound on checks begun
  MaxCuts      \* bound on connections cut, commands killed, paths changed

Way == {"out", "in"}
Holder == {"free", "aimx", "other", "probe", "script"}
Path == {"open", "shut", "filtered"}
Address == {"public", "private", "unknown"}
None == "none"

VARIABLES
  holder,   \* who holds port 25 of the host (probe, script: a listener of a check)
  path,     \* by direction: what the network does with SMTP
  address,  \* the host, as the verifier sees it
  cmd,      \* the check at work, or the last one
  call,     \* by direction: the SMTP session, both ends
  http,     \* the request for a call back, at the verifier
  permits,  \* of the verifier's listener
  guests,   \* its sessions with strangers, and with callers that left
  answered, \* history: ways whose other end answered EHLO in this check
  commands, cuts

vars == <<holder, path, address, cmd, call, http, permits, guests, answered, commands,
          cuts>>

(* cli waits for the banner or for the end of an answer, or has its        *)
(* verdict. srv greets, serves, or is gone; a filter greets in its place.  *)
NoCall == [cli |-> None, srv |-> None, up |-> <<>>, down |-> <<>>]

NoCmd == [kind |-> None, at |-> "idle", port |-> "free",
          pass |-> [w \in Way |-> FALSE], told |-> None]

Init ==
  /\ holder \in {"free", "aimx", "other"} /\ path \in [Way -> Path] /\ address \in Address
  /\ cmd = NoCmd /\ call = [w \in Way |-> NoCall] /\ http = None
  /\ permits = MaxPermits /\ guests = 0 /\ answered = {}
  /\ commands = 0 /\ cuts = 0

World == <<path, address>>
Bounds == <<commands, cuts>>
Gate == <<permits, guests>>

-----------------------------------------------------------------------------
(* The command.                                                            *)

At(place) == cmd.at = place
Goto(place) == cmd' = [cmd EXCEPT !.at = place]
Finish(told) == cmd' = [NoCmd EXCEPT !.told = told]

Begin(kind) ==
  /\ At("idle") /\ commands < MaxCommands /\ commands' = commands + 1
  /\ cmd' = [NoCmd EXCEPT !.kind = kind, !.at = IF kind = "shell" THEN "out" ELSE "detect"]
  /\ answered' = {}
  /\ UNCHANGED <<holder, World, call, http, Gate, cuts>>

(* portcheck takes a failing ss for a free port, and goes on to look at    *)
(* the way out when another program holds it; setup stops at both. The     *)
(* shell's listener is another program, too.                               *)
Detect ==
  /\ At("detect") /\ cmd.kind # "shell"
  /\ LET seen == IF holder = "script" THEN "other" ELSE holder
         go(port) == cmd' = [cmd EXCEPT !.port = port,
                                        !.at = IF port = "free" THEN "bind" ELSE "out"]
     IN IF cmd.kind = "portcheck" THEN go(seen) \/ go("free")
        ELSE \/ IF seen = "other" THEN Finish("occupied") ELSE go(seen)
             \/ Finish("error")
  /\ UNCHANGED <<holder, World, call, http, Gate, Bounds, answered>>

Bind ==
  /\ At("bind") /\ cmd.kind # "shell"
  /\ IF holder = "free" THEN holder' = "probe" /\ Goto("out")
     ELSE Finish("error") /\ UNCHANGED holder
  /\ UNCHANGED <<World, call, http, Gate, Bounds, answered>>

(* The shell asks who holds the port after its call. It needs root, and    *)
(* python3 to listen; whoever it is that holds the port may answer.        *)
ShellDetect ==
  /\ At("detect") /\ cmd.kind = "shell"
  /\ LET go(port, place) == cmd' = [cmd EXCEPT !.port = port, !.at = place]
     IN \/ go("skip", "down")
        \/ holder # "free" /\ go(holder, "in")
        \/ go("free", "bind")
  /\ UNCHANGED <<holder, World, call, http, Gate, Bounds, answered>>

(* A process of its own, looked at a second later: dead if it found the    *)
(* port taken, unless it is slow.                                          *)
ShellBind ==
  /\ At("bind") /\ cmd.kind = "shell"
  /\ IF holder = "free" THEN holder' = "script" /\ Goto("in")
     ELSE (Goto("down") \/ Goto("in")) /\ UNCHANGED holder
  /\ UNCHANGED <<World, call, http, Gate, Bounds, answered>>

(* A listener, if any, is this check's when it found the port free.        *)
Own == cmd.port = "free" /\ holder = IF cmd.kind = "shell" THEN "script" ELSE "probe"

(* It listens for 30 seconds, and outlives a script that is killed.        *)
ListenerExpires ==
  /\ holder = "script"
  /\ call["in"].srv \notin {"greet", "serve"}
  /\ holder' = "free"
  /\ UNCHANGED <<World, cmd, call, http, Gate, Bounds, answered>>

(* The end of one leg. What is left of the session stays with the server.  *)
Leg(w, verdict, next) ==
  /\ cmd' = [cmd EXCEPT !.pass[w] = verdict, !.at = next]
  /\ call' = [call EXCEPT ![w] = NoCall]
  /\ guests' = IF w = "out" /\ call[w].srv \in {"greet", "serve"} THEN guests + 1 ELSE guests

OutDone ==
  /\ At("out") /\ call["out"].cli \in {"yes", "no"}
  /\ Leg("out", call["out"].cli = "yes",
         IF cmd.kind = "shell" THEN "detect" ELSE IF cmd.port = "other" THEN "down" ELSE "in")
  /\ UNCHANGED <<holder, World, http, permits, Bounds, answered>>

(* curl: an error, or any answer but "reachable": true, is a no.           *)
AskProbe ==
  /\ At("in") /\ http = None
  /\ http' = "asked"
  /\ UNCHANGED <<holder, World, cmd, call, Gate, Bounds, answered>>

InDone ==
  /\ At("in") /\ http \in {"yes", "no"}
  /\ Leg("in", http = "yes", "down") /\ http' = None
  /\ UNCHANGED <<holder, World, permits, Bounds, answered>>

InLost ==
  /\ At("in") /\ http # None /\ cuts < MaxCuts /\ cuts' = cuts + 1
  /\ Leg("in", FALSE, "down") /\ http' = None
  /\ UNCHANGED <<holder, World, permits, commands, answered>>

(* "skip": the way in was not looked at.                                   *)
Judged ==
  IF cmd.port = "other" /\ cmd.kind # "shell" THEN "occupied"
  ELSE IF \A w \in Way : cmd.pass[w] THEN "ready"
  ELSE IF cmd.port = "skip" /\ cmd.pass["out"] THEN "half"
  ELSE "failed"

(* A slip: an early return leaves the listener where it is.                *)
TearDownIfPassed ==
  /\ At("down")
  /\ holder' = IF Own /\ cmd.pass = [w \in Way |-> TRUE] THEN "free" ELSE holder
  /\ Finish(Judged)
  /\ UNCHANGED <<World, call, http, Gate, Bounds, answered>>

(* The temporary listener, and its sessions, end before the verdict.       *)
TearDown ==
  /\ At("down")
  /\ holder' = IF Own THEN "free" ELSE holder
  /\ Finish(Judged)
  /\ UNCHANGED <<World, call, http, Gate, Bounds, answered>>

-----------------------------------------------------------------------------
(* The end that calls: check_outbound_port25 on the host, and the handler  *)
(* of /probe on the verifier.                                              *)

Calling(w) == IF w = "out" THEN At("out") ELSE http = "asked"

Verdict(w, v) ==
  IF w = "out" THEN call' = [call EXCEPT ![w].cli = v] /\ UNCHANGED http
  ELSE /\ http' = v
       /\ call' = [call EXCEPT ![w] = NoCall]

(* An address that cannot be made out, or is not a public one, is never    *)
(* called.                                                                 *)
Refuse ==
  /\ http = "asked" /\ address # "public" /\ http' = "no"
  /\ UNCHANGED <<holder, World, cmd, call, Gate, Bounds, answered>>

(* A shut path ends in a time-out, a port that nobody holds in a refusal.  *)
(* The verifier drops what comes when its permits are taken: the caller    *)
(* finds the stream at its end.                                            *)
Dial(w) ==
  /\ Calling(w) /\ call[w].cli = None /\ (w = "in" => address = "public")
  /\ LET to(srv) == call' = [call EXCEPT ![w] = [NoCall EXCEPT !.cli = "banner", !.srv = srv]]
     IN \/ path[w] = "shut" /\ Verdict(w, "no") /\ UNCHANGED permits
        \/ path[w] = "filtered" /\ to("filter") /\ UNCHANGED <<permits, http>>
        \/ /\ path[w] = "open" /\ w = "out"
           /\ to(IF permits > 0 THEN "greet" ELSE "gone")
           /\ permits' = IF permits > 0 THEN permits - 1 ELSE 0
           /\ UNCHANGED http
        \/ /\ path[w] = "open" /\ w = "in" /\ UNCHANGED permits
           /\ IF holder = "free" THEN Verdict(w, "no") ELSE to("greet") /\ UNCHANGED http
  /\ UNCHANGED <<holder, World, cmd, guests, Bounds, answered>>

(* A slip: the end of the stream passes for the end of the answer.         *)
HearAny(w) ==
  /\ Calling(w) /\ call[w].cli \in {"banner", "ehlo"}
  /\ LET c == call[w]
     IN /\ c.down # <<>> \/ c.srv = "gone"
        /\ IF c.cli = "banner" /\ c.down # <<>> /\ Head(c.down) = "220"
           THEN /\ call' = [call EXCEPT ![w].cli = "ehlo", ![w].down = Tail(@),
                                       ![w].up = Append(@, "EHLO")]
                /\ UNCHANGED http
           ELSE Verdict(w, IF c.cli = "ehlo" /\ (c.down = <<>> \/ Head(c.down) # "554") THEN "yes" ELSE "no")
  /\ UNCHANGED <<holder, World, cmd, Gate, Bounds, answered>>

(* One line. 250- announces another one; anything unexpected, and the end  *)
(* of the stream, is a no. The host does not care whether its QUIT leaves; *)
(* to the handler a QUIT that cannot be written is a no.                   *)
Hear(w) ==
  /\ Calling(w) /\ call[w].cli \in {"banner", "ehlo"}
  /\ LET c == call[w]
         line == IF c.down = <<>> THEN "" ELSE Head(c.down)
     IN /\ c.down # <<>> \/ c.srv = "gone"
        /\ \/ /\ c.cli = "banner" /\ line = "220"
              /\ call' = [call EXCEPT ![w].cli = "ehlo", ![w].down = Tail(@),
                                      ![w].up = Append(@, "EHLO")]
              /\ UNCHANGED http
           \/ /\ c.cli = "ehlo" /\ line = "250-"
              /\ call' = [call EXCEPT ![w].down = Tail(@)]
              /\ UNCHANGED http
           \/ c.cli = "ehlo" /\ line = "250 " /\ Verdict(w, "yes")
           \/ c.cli = "ehlo" /\ line = "250 " /\ w = "in" /\ c.srv = "gone" /\ Verdict(w, "no")
           \/ line \notin (IF c.cli = "banner" THEN {"220"} ELSE {"250-", "250 "}) /\ Verdict(w, "no")
  /\ UNCHANGED <<holder, World, cmd, Gate, Bounds, answered>>

(* 5 seconds for a line, 45 for the whole of a call back.                  *)
GiveUp(w) ==
  /\ Calling(w) /\ call[w].cli \in {"banner", "ehlo"} /\ call[w].down = <<>>
  /\ call[w].srv # "gone"
  /\ Verdict(w, "no")
  /\ UNCHANGED <<holder, World, cmd, Gate, Bounds, answered>>

-----------------------------------------------------------------------------
(* The end that is called: the verifier's listener, the temporary one, the *)
(* daemon, or a filter on the way.                                         *)

Serving(w) == call[w].srv \in {"greet", "serve"}

Reply(w, line, srv) == call' = [call EXCEPT ![w].down = @ \o line, ![w].srv = srv]

Greet(w) ==
  /\ call[w].srv = "greet"
  /\ Reply(w, <<"220">>, "serve")
  /\ UNCHANGED <<holder, World, cmd, http, Gate, Bounds, answered>>

(* The daemon lists its extensions; the others answer in one line.         *)
Serve(w) ==
  /\ call[w].srv = "serve" /\ call[w].up # <<>>
  /\ call' = [call EXCEPT ![w].up = Tail(@),
                          ![w].down = @ \o IF w = "in" /\ holder = "aimx"
                                           THEN <<"250-", "250 ">> ELSE <<"250 ">>]
  /\ answered' = answered \cup {w}
  /\ UNCHANGED <<holder, World, cmd, http, Gate, Bounds>>

(* The verifier allows 10 seconds for a line and 30 for the session, the   *)
(* other two 30 seconds and more for a line.                               *)
Close(w) ==
  /\ Serving(w) /\ call[w].up = <<>>
  /\ call' = [call EXCEPT ![w].srv = "gone"]
  /\ permits' = IF w = "out" THEN permits + 1 ELSE permits
  /\ UNCHANGED <<holder, World, cmd, http, guests, Bounds, answered>>

Filter(w) ==
  /\ call[w].srv = "filter"
  /\ \/ /\ call[w].cli = "banner" /\ call[w].down = <<>>
        /\ \E banner \in {"220", "554"} : Reply(w, <<banner>>, "filter")
     \/ /\ call[w].up # <<>>
        /\ call' = [call EXCEPT ![w].up = Tail(@), ![w].down = Append(@, "554")]
     \/ Reply(w, <<>>, "gone")
  /\ UNCHANGED <<holder, World, cmd, http, Gate, Bounds, answered>>

(* A slip: the permit does not come back when the task of a guest ends.    *)
GuestForgotten ==
  /\ guests > 0
  /\ guests' = guests - 1 /\ UNCHANGED permits
  /\ UNCHANGED <<holder, World, cmd, call, http, Bounds, answered>>

(* QUIT, the end of the stream, a silent line or the time limit.           *)
GuestEnds ==
  /\ guests > 0
  /\ guests' = guests - 1 /\ permits' = permits + 1
  /\ UNCHANGED <<holder, World, cmd, call, http, Bounds, answered>>

Stranger ==
  /\ permits > 0 /\ permits' = permits - 1 /\ guests' = guests + 1
  /\ UNCHANGED <<holder, World, cmd, call, http, Bounds, answered>>

-----------------------------------------------------------------------------
(* Trouble.                                                                *)

Trouble == cuts < MaxCuts /\ cuts' = cuts + 1

Cut(w) ==
  /\ Serving(w) /\ Trouble
  /\ call' = [call EXCEPT ![w].srv = "gone", ![w].up = <<>>, ![w].down = <<>>]
  /\ permits' = IF w = "out" THEN permits + 1 ELSE permits
  /\ UNCHANGED <<holder, World, cmd, http, guests, commands, answered>>

Kill ==
  /\ ~At("idle") /\ Trouble
  /\ cmd' = NoCmd /\ http' = None
  /\ holder' = IF holder = "probe" THEN "free" ELSE holder
  /\ call' = [w \in Way |-> NoCall]
  /\ guests' = IF Serving("out") THEN guests + 1 ELSE guests
  /\ UNCHANGED <<World, permits, commands, answered>>

(* The daemon starts or stops; with it go its sessions.                    *)
DaemonTurns ==
  /\ holder \in {"free", "aimx"} /\ Trouble
  /\ holder' = IF holder = "free" THEN "aimx" ELSE "free"
  /\ call' = IF Serving("in")
             THEN [call EXCEPT !["in"].srv = "gone", !["in"].up = <<>>, !["in"].down = <<>>]
             ELSE call
  /\ UNCHANGED <<World, cmd, http, Gate, commands, answered>>

(* The provider, or a firewall, opens or shuts a way to new sessions.      *)
PathTurns ==
  /\ Trouble
  /\ \E w \in Way, p \in Path : path' = [path EXCEPT ![w] = p]
  /\ UNCHANGED <<holder, address, cmd, call, http, Gate, commands, answered>>

Command ==
  \/ Detect \/ ShellDetect \/ Bind \/ ShellBind \/ TearDown
  \/ OutDone \/ AskProbe \/ InDone \/ Refuse
Talk(w) == Dial(w) \/ Hear(w) \/ GiveUp(w) \/ Greet(w) \/ Serve(w) \/ Close(w) \/ Filter(w)

Next ==
  \/ \E kind \in {"portcheck", "setup", "shell"} : Begin(kind)
  \/ Command
  \/ \E w \in Way : Talk(w) \/ Cut(w)
  \/ GuestEnds \/ Stranger \/ ListenerExpires
  \/ InLost \/ Kill \/ DaemonTurns \/ PathTurns

(* Both programs go on, and every wait of theirs has a time limit.         *)
Fairness ==
  /\ WF_vars(Command) /\ WF_vars(GuestEnds) /\ WF_vars(ListenerExpires)
  /\ \A w \in Way : WF_vars(Dial(w) \/ Hear(w) \/ GiveUp(w)) /\ WF_vars(Close(w))

Spec == Init /\ [][Next]_vars /\ Fairness

-----------------------------------------------------------------------------
(* Properties.                                                             *)

(* "Port 25 reachable" is only said when, in this very check, the verifier *)
(* answered the host and whoever holds the port of the host answered the   *)
(* verifier: no banner of a filter, no end of a stream, no answer of an    *)
(* earlier check passes for it (check_outbound_port25, curl_probe,         *)
(* smtp_ehlo_handshake).                                                   *)
PassedMeansReached == [][cmd'.told = "ready" /\ cmd.told # "ready" => answered = Way]_vars

(* A check comes to its end whatever becomes of its calls, and leaves the  *)
(* port to the daemon that setup is about to start                         *)
(* (with_temp_smtp_listener).                                              *)
CheckEnds == ~At("idle") ~> (At("idle") /\ holder \notin {"probe", "script"})

(* The verifier never stays full: permits come back from callers that hang *)
(* or leave without a word (dispatch_smtp_connection, smtp_session).       *)
GateReopens == []<>(permits > 0)
=============================================================================
