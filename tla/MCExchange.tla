----------------------------- MODULE MCExchange -----------------------------
(***************************************************************************)
(* The instance for TLC of Exchange on its own, with the inputs of         *)
(* ExchangeInputs (AttachmentsLost).                                       *)
(***************************************************************************)
EXTENDS Exchange, ExchangeInputs

MCCodec == "d" :> "d64" @@ "e" :> "e64"
=============================================================================
