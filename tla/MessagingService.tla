-------------------------- MODULE MessagingService --------------------------
(***************************************************************************)
(* The whole service: client processes, the server's threads and its       *)
(* database, and the connections between them.                             *)
(***************************************************************************)
EXTENDS Server, ClientShell

serverVars == <<dbVars, hilosVars, caidas, historyVars>>
vars == <<serverVars, netVars, clientVars>>

TypeOK == DbTypeOK /\ NetTypeOK /\ ServerTypeOK /\ ClientTypeOK

Init == DbInit /\ NetInit /\ ServerInit /\ ClientInit

ClientNext(c) == (Command(c) \/ Continue(c) \/ Killed(c)) /\ UNCHANGED serverVars

ServerNext(w) == (tratar_peticion(w) \/ WorkerStep(w)) /\ UNCHANGED clientVars

Next ==
  \/ \E c \in Client : ClientNext(c)
  \/ \E w \in Worker : ServerNext(w)
  \/ ServerCrash /\ UNCHANGED clientVars

Spec == Init /\ [][Next]_vars

(***************************************************************************)
(* Fairness: the kernel runs every thread of the server and of the client  *)
(* that can take a step.  Nobody has to type a command, and nothing has to *)
(* crash.                                                                  *)
(***************************************************************************)
Fairness ==
  /\ \A w \in Worker : WF_vars(ServerNext(w))
  /\ \A c \in Client : WF_vars(Continue(c) /\ UNCHANGED serverVars)

FairSpec == Spec /\ Fairness

-----------------------------------------------------------------------------
(* Safety. *)

(* The mail u's mailbox holds. *)
Mailbox(u) == {[dest |-> u, msg |-> mensajes[u][i]] : i \in DOMAIN mensajes[u]}

(* The mail thread w is delivering, message by message. *)
Carried(w) == {[dest |-> Receiver(w), msg |-> msgs[w][i]] : i \in DOMAIN msgs[w]}

(* Where a thread has mail that was accepted and is not done with it. *)
InDelivery == {"store", "deliver", "drop_dest", "delete", "ack_info", "ack", "drop_sender"}

Steady == ~OpenMayFail

(* The user a push is meant for. *)
Meant(p) == IF p.kind = "MESSAGE" THEN p.mail.dest ELSE p.mail.msg.sender

(* No mail appears out of nowhere, is changed, or changes its receiver:    *)
(* what a mailbox holds or a thread delivers was accepted, with a reply 0, *)
(* as a message to that user (the paths from f_send through the file, a    *)
(* CONNECT's array and a push).  And a message or confirmation goes only   *)
(* to where the user it is meant for was connected: no thread pushes it    *)
(* to another user's address.  Who listens there when it comes is another  *)
(* matter: after its user's client has died that may be somebody else.     *)
NotForged ==
  /\ \A u \in User : Mailbox(u) \subseteq prometidos
  /\ \A w \in Worker : hilo[w].pc \in InDelivery => Carried(w) \subseteq prometidos
  /\ \A c \in Client : \A i \in DOMAIN backlog[c] :
       /\ backlog[c][i].mail \in prometidos
       /\ [user |-> Meant(backlog[c][i]), addr |-> listening[c]] \in direcciones

(* A SEND answered 0 is on disk, or its thread is about to write it: the   *)
(* reply comes before db_store_message, whose result nobody looks at, so   *)
(* only a crash or a failed open can come between.                         *)
PromisedIsStored ==
  (Steady /\ caidas = 0) =>
    \A x \in prometidos :
      \/ x \in guardados
      \/ \E w \in Worker : At(w, "store") /\ x = InHand(w)

(* Mail written to a mailbox is still there unless a message with that     *)
(* number was handed to the receiver's address, or the receiver was        *)
(* unregistered; crashes of the server or of clients make no difference,   *)
(* because a thread deletes only after it has pushed.                      *)
StoredIsKept ==
  Steady =>
    \A x \in guardados :
      \/ x \in Mailbox(x.dest)
      \/ x.dest \in bajas
      \/ \E y \in entregados : y.dest = x.dest /\ y.msg.id = x.msg.id

(* A delivery confirmation in any listener's queue is about mail that was  *)
(* pushed to its receiver, by f_send or by f_connect.                      *)
AckedWasPushed ==
  \A c \in Client : \A i \in DOMAIN backlog[c] :
    backlog[c][i].kind = "ACK" => backlog[c][i].mail \in entregados

(* Once a confirmation is out, the mail is no longer pending, so no later  *)
(* CONNECT delivers it a second time: the record is deleted before the     *)
(* sender is told.  (A sender that registers again, or whose numbers wrap, *)
(* can send an equal message, which is another one.)                       *)
AckedIsNotPending ==
  Steady =>
    \A c \in Client : \A i \in DOMAIN backlog[c] :
      LET x == backlog[c][i].mail
      IN  (backlog[c][i].kind = "ACK" /\ x.msg.sender \notin bajas)
             => x \notin Mailbox(x.dest)

(* Two accepted messages of a sender never have the same number, although  *)
(* several threads send for it at once, unless it registered again (or its *)
(* numbers wrapped): db_prepare_message takes the number and writes it     *)
(* back under one lock.                                                    *)
NumbersDistinct ==
  \A x, y \in prometidos :
    (x.msg.sender = y.msg.sender /\ x.msg.id = y.msg.id /\ x.msg.sender \notin bajas)
      => x = y

(* While a user stays connected its address stays: a second CONNECT for    *)
(* the same name, from any host, is refused however it is interleaved with *)
(* disconnections and deliveries.                                          *)
SessionNotTakenOver ==
  [][\A u \in DOMAIN usuarios \cap DOMAIN usuarios' :
       (usuarios[u].connected = 1 /\ usuarios'[u].connected = 1)
         => usuarios'[u].addr = usuarios[u].addr]_vars

(* A session ends, or a user goes, only where some thread is at one of the *)
(* four calls that may do it, for that very user: a failed push to the     *)
(* receiver or the sender at hand, DISCONNECT, or UNREGISTER.  Or all end  *)
(* at once: db_prepare_message could not open its temporary file.          *)
SessionEndsForAReason ==
  [][\A u \in DOMAIN usuarios :
       (usuarios[u].connected = 1 /\ (u \notin DOMAIN usuarios' \/ usuarios'[u].connected = 0))
         => \/ OpenMayFail /\ usuarios' = EmptyFile
            \/ \E w \in Worker :
                 /\ hilo'[w] # hilo[w]
                 /\ \/ hilo[w].pc \in {"disconnect", "unregister"} /\ Req(w).user = u
                    \/ At(w, "drop_dest") /\ Receiver(w) = u
                    \/ At(w, "drop_sender") /\ Current(w).sender = u]_vars

-----------------------------------------------------------------------------
(* The abstract specification: what the service promises about mail. *)

Post == INSTANCE MailSystem WITH buzones <- UNION {Mailbox(u) : u \in User},
                                 registrados <- DOMAIN usuarios

(* Whatever the threads interleave and whoever crashes, mail is stored     *)
(* after it is accepted, pushed after it is stored, and deleted after mail *)
(* with its number is pushed; nothing else takes mail out of a mailbox but *)
(* the UNREGISTER of its user, in the step that removes the user.  If      *)
(* opens may fail, a whole mailbox may go, but only while mail that was    *)
(* pushed is deleted from it.                                              *)
ImplementsMailSystem == Post!MailSpec

-----------------------------------------------------------------------------
(* Liveness. *)

(* Every command gets its result code: the client never waits for ever.    *)
EveryCommandEnds ==
  \A c \in Client : (conn[c] # NoConn) ~> (conn[c] = NoConn)

(* Every thread ends: its array of messages runs out, whatever fails.      *)
EveryThreadEnds ==
  \A w \in Worker : ~At(w, "idle") ~> At(w, "idle")

(* Mail that is pending when its receiver comes online leaves the mailbox, *)
(* or the receiver is found offline or is removed: f_connect goes through  *)
(* its whole array, of several messages of which another thread may remove *)
(* one meanwhile, unless a push fails.  (Mail is looked for by its number, *)
(* by which the mailbox removes it.)                                       *)
Waiting(u, n) == \E i \in DOMAIN mensajes[u] : mensajes[u][i].id = n

PendingGoesOut ==
  \A u \in User : \A n \in 1..MaxId :
    (Waiting(u, n) /\ \E w \in Worker : At(w, "pending") /\ Req(w).user = u)
      ~> (~Waiting(u, n) \/ ~Exists(u) \/ usuarios[u].connected = 0)

=============================================================================
