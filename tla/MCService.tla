----------------------------- MODULE MCService ------------------------------
(***************************************************************************)
(* Instances of MessagingService for TLC.                                  *)
(***************************************************************************)
EXTENDS Promises, TLC

CONSTANTS ana, luis, c1, c2, w1, w2, h1, h2, p1, p2, m1, m2

OneHost  == [c \in Client |-> h1]
TwoHosts == (c1 :> h1) @@ (c2 :> h2)

NobodyOnline == [c \in Client |-> [user |-> None, port |-> None]]
AnaOnline    == [NobodyOnline EXCEPT ![c1] = [user |-> ana, port |-> p1]]
BothOnline   == [AnaOnline EXCEPT ![c2] = [user |-> luis, port |-> p1]]

(* What is typed in Liveness: ana sends to luis, luis connects, either     *)
(* client ends.  The instance without this limit has eight times as many   *)
(* states, too many for a check of liveness.                               *)
AnaWritesToLuis ==
  \A c \in Client : LET req == conn[c].req
                    IN  conn[c] = NoConn \/ (req.op = "SEND" /\ req.user = ana /\ req.dest = luis)
                                        \/ (req.op = "CONNECT" /\ req.user = luis)

(* Threads are interchangeable; only for runs without liveness. *)
WorkerSymmetry == Permutations(Worker)
=============================================================================
