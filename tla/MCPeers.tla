------------------------------ MODULE MCPeers -------------------------------
(***************************************************************************)
(* Instances of Peers for TLC.                                             *)
(***************************************************************************)
EXTENDS Peers, TLC

CONSTANTS ana, luis, l1, l2, p1, p2, p3

=============================================================================
