----------------------------- MODULE MCProcess ------------------------------
(***************************************************************************)
(* Instances of Process for TLC.                                           *)
(***************************************************************************)
EXTENDS Process, TLC

CONSTANTS w1, w2

ThreadSymmetry == Permutations(Worker)

=============================================================================
