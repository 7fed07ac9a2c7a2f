------------------------------ MODULE Promises ------------------------------
(***************************************************************************)
(* What the README says the service does and the code does not do in every *)
(* case.  Each property is checked by a run of its own, which ends with a  *)
(* behaviour of the code that breaks it.                                   *)
(***************************************************************************)
EXTENDS MessagingService

(* No request is being served. *)
Quiet == /\ \A w \in Worker : At(w, "idle")
         /\ \A c \in Client : conn[c] = NoConn

(* u is connected, and a client that is connected as u is listening there. *)
Online(u) == /\ Exists(u)
             /\ usuarios[u].connected = 1
             /\ \E c \in Client : connected_user[c] = u /\ listening[c] = usuarios[u].addr

(* "If the recipient is offline the server keeps the message and delivers  *)
(* it when they connect" (readme.md:3): mail that is no longer in the      *)
(* mailbox was delivered, or a thread is still on its way with it.         *)
(* db_delete_message looks at the number only, which is per sender, so     *)
(* delivering one sender's message removes another's.                      *)
KeptUntilDelivered ==
  \A x \in guardados :
    \/ x \in Mailbox(x.dest)
    \/ x.dest \in bajas
    \/ x \in entregados
    \/ \E w \in Worker : At(w, "deliver") /\ x \in Carried(w)

(* The same sentence, from the receiver's side: with no request under way, *)
(* a user who is online has nothing pending.  f_send reads the receiver's  *)
(* state in db_prepare_message and stores the message later; a CONNECT in  *)
(* between reads the mailbox too early and the message stays.              *)
OnlineIsCaughtUp == Quiet => \A u \in User : Online(u) => Mailbox(u) = {}

=============================================================================
