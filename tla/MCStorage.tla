----------------------------- MODULE MCStorage ------------------------------
(***************************************************************************)
(* Instances of Storage for TLC.                                           *)
(***************************************************************************)
EXTENDS Storage, TLC

CONSTANTS ana, luis, w1, w2, c1, h1, p1, m1

OneHost      == [c \in Client |-> h1]
AnaOnline    == [c \in Client |-> [user |-> ana, port |-> p1]]
NobodyOnline == [c \in Client |-> [user |-> None, port |-> None]]

(* Every open but the ones whose failure the code does not look at. *)
Tested == Opens \ {"register_read", "prepare_temp", "delete_temp"}

=============================================================================
