----------------------------- MODULE MCClients -----------------------------
(***************************************************************************)
(* Instances for TLC of what the clients of the daemon do. Either two      *)
(* clients of every kind work on two mailboxes, beside a daemon that       *)
(* starts and stops, and page through one while letters arrive (Clients);  *)
(* or requests and letters go through the socket piece by piece (Exchange, *)
(* with ExchangeInputs). They share no state; a behaviour is  *)
(* one of the one while nothing happens in the other.                      *)
(***************************************************************************)
EXTENDS Clients, Sequences, TLC

CONSTANTS m1, m2, u1, u2, h1, c1, c2

CONSTANTS UserNames, MaxBody, MaxSource, Codec, Asks, Foreign, Letters, Signatures,
          MaxLetters   \* of Exchange

VARIABLES
  focus,
  stage, args, asked, meant, input, open, verb, taken, acted, answer, told, arrived,
  stored   \* of Exchange

exchangeVars == <<stage, args, asked, meant, input, open, verb, taken, acted, answer, told,
                  arrived, stored>>
MCVars == <<vars, focus, exchangeVars>>

X == INSTANCE Exchange WITH pc <- stage, mail <- stored

Inputs == INSTANCE ExchangeInputs
MCAsks == Inputs!MCAsks
MCForeign == Inputs!MCForeign
MCLetters == Inputs!MCLetters
MCSignatures == Inputs!MCSignatures
MCCodec == "d" :> "d64" @@ "e" :> "e64"

Cmd(tool, what, m, caller) ==
  [tool |-> tool, verb |-> what, mailbox |-> m, caller |-> caller, owner |-> u2,
   hook |-> h1, force |-> caller = Root]

MCStarts == {EmptyConfig, WithHook(WithMailbox(EmptyConfig, m1, u1), m1, h1)}

Given ==
  <<Cmd("cli", "CREATE", m2, Root), Cmd("mcp", "CREATE", m1, u1),
    Cmd("cli", "DELETE", m1, Root), Cmd("mcp", "DELETE", m1, u1),
    Cmd("cli", "HOOK-CREATE", m2, Root), Cmd("mcp", "HOOK-CREATE", m2, u2),
    Cmd("cli", "HOOK-DELETE", m1, Root), Cmd("cli", "HOOK-DELETE", m1, u1),
    Cmd("mcp", "HOOK-DELETE", m1, u1), Cmd("mcp", "PAGE", m1, u1),
    Cmd("cli", "LIST", m1, u1), Cmd("mcp", "REPLY", m1, u1),
    Cmd("mcp", "READ", m1, u1), Cmd("cli", "SEND", m1, u1), Cmd("cli", "SEND", m1, Root)>>

MCCommands == {Given[i] : i \in DOMAIN Given}

ASSUME X!ExchangeConstants

(* The two clients are alike: which of them has which command is left out. *)
MCInit ==
  \/ /\ focus = "clients" /\ Init /\ X!Init
     /\ \E i \in DOMAIN Given : \E j \in 1..i : cmd = c1 :> Given[i] @@ c2 :> Given[j]
  \/ /\ focus = "exchange" /\ X!Init
     /\ Init /\ file = EmptyConfig /\ cmd = [c \in Client |-> Given[1]]

MCNext ==
  /\ UNCHANGED focus
  /\ \/ focus = "clients" /\ Next /\ UNCHANGED exchangeVars
     \/ focus = "exchange" /\ X!Next /\ UNCHANGED vars

MCSpec == MCInit /\ [][MCNext]_MCVars

(* Exchange's property: a handler gets what the whole frame says, and that *)
(* is what the client was asked for (parse_request, write_*_request).      *)
ActedAsAsked == X!ActedAsAsked

(* Exchange's property: what the client makes of an answer is what was     *)
(* answered (parse_ack_response, read_version_response).                   *)
ToldAsAnswered == X!ToldAsAnswered

(* Exchange's property: text, HTML and every attachment arrive (assemble,  *)
(* ingest).                                                                *)
LetterArrives == X!LetterArrives

(* Exchange's property: the threads of sent copies, stored letters and     *)
(* replies agree (compute_thread_id).                                      *)
ThreadsAgree == X!ThreadsAgree
=============================================================================
