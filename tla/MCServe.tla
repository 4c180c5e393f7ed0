------------------------------ MODULE MCServe ------------------------------
(***************************************************************************)
(* Instances for TLC of the two listeners that strangers connect to: the   *)
(* daemon's (Serve), with two recipients, of whom one may lose its         *)
(* mailbox, with and without a catchall; and the verifier's (Probe), with  *)
(* the port check that calls it. They share no state; a behaviour is one   *)
(* of the one while nothing happens at the other.                          *)
(***************************************************************************)
EXTENDS Serve

CONSTANTS
  ann, bob,
  MaxPermits, MaxCommandsRun, MaxCuts   \* of Probe

VARIABLES
  focus,
  holder, path, address, cmd, call, http, free, guests, answered, commands, cuts  \* of Probe

MCSnapshots == {{ann, bob}, {ann}, {ann, Catchall}}

Verifier == INSTANCE Probe WITH permits <- free, MaxCommands <- MaxCommandsRun

verifierVars == <<holder, path, address, cmd, call, http, free, guests, answered, commands,
                  cuts>>
MCVars == <<vars, focus, verifierVars>>

MCInit ==
  \/ /\ focus = "daemon" /\ Init
     /\ holder = "free" /\ path = [w \in {"out", "in"} |-> "open"] /\ address = "public"
     /\ cmd = Verifier!NoCmd /\ call = [w \in {"out", "in"} |-> Verifier!NoCall]
     /\ http = "none" /\ free = 1 /\ guests = 0 /\ answered = {} /\ commands = 0 /\ cuts = 0
  \/ /\ focus = "verifier" /\ Verifier!Init
     /\ Init /\ snap = {ann}

MCNext ==
  /\ UNCHANGED focus
  /\ \/ focus = "daemon" /\ Next /\ UNCHANGED verifierVars
     \/ focus = "verifier" /\ Verifier!Next /\ UNCHANGED vars

MCSpec == MCInit /\ [][MCNext]_MCVars /\ Fairness /\ Verifier!Fairness

(* Probe's property: "reachable" is said of this very check and of both    *)
(* ways (check_outbound_port25, curl_probe, smtp_ehlo_handshake).          *)
PassedMeansReached == Verifier!PassedMeansReached

(* Probe's property: a check ends and leaves port 25 to the daemon         *)
(* (with_temp_smtp_listener).                                              *)
CheckEnds == Verifier!CheckEnds

(* Probe's property: the verifier is never full for good                   *)
(* (dispatch_smtp_connection).                                             *)
GateReopens == Verifier!GateReopens
=============================================================================
