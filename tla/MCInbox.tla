------------------------------ MODULE MCInbox ------------------------------
(***************************************************************************)
(* Instances of Inbox for TLC: a flat letter and one with attachments that *)
(* want the same stem.                                                     *)
(***************************************************************************)
EXTENDS InboxRefinement, TLC

CONSTANTS flat, bundle

MCRequests == {[verb |-> "MARK", stem |-> 1, read |-> TRUE], Delete}

Symmetry == Permutations(Session)
=============================================================================
