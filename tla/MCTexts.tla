------------------------------ MODULE MCTexts -------------------------------
(***************************************************************************)
(* Instances of Texts for TLC.                                             *)
(***************************************************************************)
EXTENDS Texts, TLC

(* Fields of four bytes hold three and a NUL, as 256 hold 255. *)
UpTo(n) == UNION {[1..k -> Characters] : k \in 0..n}

Texts5 == UpTo(5)
Names4 == {f \in UpTo(4) : f # <<>> /\ ToSet(f) \subseteq {"a"} \cup Wide}

=============================================================================
