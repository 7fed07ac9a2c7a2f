------------------------------- MODULE Server -------------------------------
(***************************************************************************)
(* parte2/server: the thread that serves one request (servidor.c,          *)
(* tratar_peticion, and the f_ functions of funciones.c).                  *)
(*                                                                         *)
(* hilo[w] is the state of worker thread w.  hilo[w].pc names the next     *)
(* thing it does that another thread or a client can see: a database       *)
(* function, a reply, or a connection to a listener.  Between two of them  *)
(* the thread holds no lock, so every interleaving is possible.  The RPC   *)
(* log calls in between change no state of the service and are left out.   *)
(* f_send and f_sendattach deliver one message and f_connect an array of   *)
(* them, with the same statements in the same order: both are the steps    *)
(* deliver, delete, ack_info, ack here, and msgs[w] is what is left of the *)
(* array (of one element in f_send).                                       *)
(***************************************************************************)
EXTENDS Database, Network

VARIABLES
  hilo,        \* [Worker -> thread state]
  msgs,        \* [Worker -> messages still to deliver]
  caidas,      \* number of server crashes
  (* History variables: no action reads them. *)
  prometidos,  \* mail whose SEND was answered 0
  guardados,   \* mail that db_store_message wrote
  entregados,  \* mail pushed to an address the server had for its receiver
  bajas,       \* users that were unregistered at some time
  direcciones  \* users, each with an address at which it was connected

hilosVars == <<hilo, msgs>>
historyVars == <<prometidos, guardados, entregados, bajas, direcciones>>

Steps == {"idle", "register", "unregister", "connect", "info", "disconnect",
          "prepare", "reply", "store", "pending", "deliver", "drop_dest",
          "delete", "ack_info", "ack", "drop_sender"}

Thread == [pc     : Steps,
           client : Client \cup {None},
           req    : Request \cup {None},
           code   : -1..3,
           dest   : Addr \cup {NoAddr},   \* where to push the message
           src    : Addr \cup {NoAddr}]   \* where to push the ACK

IdleThread == [pc |-> "idle", client |-> None, req |-> None, code |-> 0,
               dest |-> NoAddr, src |-> NoAddr]

ServerTypeOK ==
  /\ hilo \in [Worker -> Thread]
  /\ \A w \in Worker : hilo[w].pc # "idle" => hilo[w].req \in Request
  /\ DOMAIN msgs = Worker
  /\ \A w \in Worker : IsFile(msgs[w])
  /\ caidas \in 0..MaxCrashes
  /\ prometidos \subseteq Mail
  /\ guardados \subseteq Mail
  /\ entregados \subseteq Mail
  /\ bajas \subseteq User
  /\ direcciones \subseteq [user : User, addr : Addr]

ServerInit ==
  /\ hilo = [w \in Worker |-> IdleThread]
  /\ msgs = [w \in Worker |-> EmptyFile]
  /\ caidas = 0
  /\ prometidos = {} /\ guardados = {} /\ entregados = {} /\ bajas = {}
  /\ direcciones = {[user |-> Session[c].user, addr |-> SessionAddr(c)] :
                      c \in {c \in Client : Session[c].user # None}}

At(w, step) == hilo[w].pc = step
Req(w)      == hilo[w].req

(* The user that thread w delivers to, the message it is at, both. *)
Receiver(w) == IF Req(w).op = "CONNECT" THEN Req(w).user ELSE Req(w).dest
Current(w)  == msgs[w][First(msgs[w])]
InHand(w)   == [dest |-> Receiver(w), msg |-> Current(w)]

(* Thread w goes on with a step, with its result code, or returns. *)
Goto(w, step)  == hilo' = [hilo EXCEPT ![w].pc = step] /\ UNCHANGED msgs
Answer(w, res) == /\ hilo' = [hilo EXCEPT ![w].pc = "reply", ![w].code = res]
                  /\ UNCHANGED msgs
Return(w)      == /\ hilo' = [hilo EXCEPT ![w] = IdleThread]
                  /\ msgs' = [msgs EXCEPT ![w] = EmptyFile]

(* Variants with a bug, as in Database: the array is not advanced; the     *)
(* rest of it is forgotten.                                                *)
Advance_Stays(w)   == Goto(w, "deliver")
Advance_Returns(w) == Return(w)

(* The next message of the array, if there is one. *)
Advance(w) ==
  LET rest == Restrict(msgs[w], DOMAIN msgs[w] \ {First(msgs[w])})
  IN  IF DOMAIN rest = {}
      THEN Return(w)
      ELSE /\ hilo' = [hilo EXCEPT ![w].pc = "deliver", ![w].src = NoAddr]
           /\ msgs' = [msgs EXCEPT ![w] = rest]

(* The socket of the request is still connected to the client. *)
PeerThere(w) == conn[hilo[w].client].worker = w

-----------------------------------------------------------------------------
(* The main loop accepts the connection, a new thread copies its descriptor *)
(* and reads the operation and its fields.                                  *)
FirstStep(op) ==
  CASE op = "REGISTER"   -> "register"
    [] op = "UNREGISTER" -> "unregister"
    [] op = "CONNECT"    -> "connect"
    [] op = "DISCONNECT" -> "info"
    [] op \in {"SEND", "SENDATTACH"} -> "prepare"

tratar_peticion(w) ==
  /\ At(w, "idle")
  /\ \E c \in Client :
       /\ conn[c].state = "sent"
       /\ conn' = [conn EXCEPT ![c].state = "open", ![c].worker = w]
       /\ hilo' = [hilo EXCEPT ![w] = [IdleThread EXCEPT
                     !.pc = FirstStep(conn[c].req.op), !.client = c, !.req = conn[c].req]]
  /\ UNCHANGED <<dbVars, listening, backlog, msgs, caidas, historyVars>>

f_register(w) ==
  /\ At(w, "register")
  /\ \E res \in 0..2 : db_register(Req(w).user, res) /\ Answer(w, res)
  /\ UNCHANGED <<netVars, caidas, historyVars>>

f_unregister(w) ==
  /\ At(w, "unregister")
  /\ \E res \in 0..2 :
       /\ db_unregister(Req(w).user, res)
       /\ bajas' = IF res = 0 THEN bajas \cup {Req(w).user} ELSE bajas
       /\ Answer(w, res)
  /\ UNCHANGED <<netVars, caidas, prometidos, guardados, entregados, direcciones>>

(* getpeername of f_connect and f_disconnect fails. *)
PeerUnknown(w) ==
  /\ hilo[w].pc \in {"connect", "info"}
  /\ ~PeerThere(w)
  /\ Answer(w, 3)
  /\ UNCHANGED <<dbVars, netVars, caidas, historyVars>>

f_connect(w) ==
  /\ At(w, "connect")
  /\ LET addr == [ip |-> HostOf[hilo[w].client], port |-> Req(w).port]
     IN  \E res \in 0..3 :
           /\ db_connect(Req(w).user, addr, res)
           /\ hilo' = [hilo EXCEPT ![w].pc = "reply", ![w].code = res, ![w].dest = addr]
           /\ direcciones' = IF res = 0
                             THEN direcciones \cup {[user |-> Req(w).user, addr |-> addr]}
                             ELSE direcciones
  /\ UNCHANGED <<netVars, msgs, caidas, prometidos, guardados, entregados, bajas>>

(* f_disconnect looks the user up and compares addresses in one critical   *)
(* section, and calls db_disconnect in another.                            *)
DisconnectInfo(w) ==
  /\ At(w, "info")
  /\ \E res \in {-1, 0} :
       /\ get_user_info(Req(w).user, res)
       /\ \/ res = -1 /\ Answer(w, 1)
          \/ /\ res = 0 /\ usuarios[Req(w).user].addr.ip # HostOf[hilo[w].client]
             /\ Answer(w, 3)
          \/ /\ res = 0 /\ usuarios[Req(w).user].addr.ip = HostOf[hilo[w].client]
             /\ Goto(w, "disconnect")
  /\ UNCHANGED <<netVars, caidas, historyVars>>

f_disconnect(w) ==
  /\ At(w, "disconnect")
  /\ \E res \in 0..3 : db_disconnect(Req(w).user, res) /\ Answer(w, res)
  /\ UNCHANGED <<netVars, caidas, historyVars>>

(* A variant: the address is the sender's. *)
Prepare_SenderAddr(w) ==
  /\ At(w, "prepare")
  /\ LET s == Req(w).user
         r == Req(w).dest
     IN  /\ db_prepare_message(s, r, 0)
         /\ hilo' = [hilo EXCEPT ![w].pc = "reply", ![w].code = 0,
               ![w].dest = IF usuarios[r].connected = 1 THEN usuarios[s].addr ELSE NoAddr]
         /\ msgs' = [msgs EXCEPT ![w] = [i \in {1} |->
               [sender |-> s, id |-> NextId(usuarios[s].last_id), message |-> Req(w).message,
                fileName |-> Req(w).op = "SENDATTACH"]]]
  /\ UNCHANGED <<netVars, caidas, historyVars>>

(* f_send, f_sendattach: with result 0 the thread has the new number and   *)
(* where the receiver was; NoAddr stands for recv_connected = 0.           *)
Prepare(w) ==
  /\ At(w, "prepare")
  /\ LET s == Req(w).user
         r == Req(w).dest
     IN  \E res \in 0..2 :
           /\ db_prepare_message(s, r, res)
           /\ \/ res # 0 /\ Answer(w, res)
              \/ /\ res = 0
                 /\ hilo' = [hilo EXCEPT ![w].pc = "reply", ![w].code = 0,
                       ![w].dest = IF usuarios[r].connected = 1
                                   THEN usuarios[r].addr ELSE NoAddr]
                 /\ msgs' = [msgs EXCEPT ![w] = [i \in {1} |->
                       [sender |-> s, id |-> NextId(usuarios[s].last_id),
                        message |-> Req(w).message,
                        fileName |-> Req(w).op = "SENDATTACH"]]]
  /\ UNCHANGED <<netVars, caidas, historyVars>>

-----------------------------------------------------------------------------
(* A variant: an error is not reported to the client. *)
SendCode_OnlySuccess(w) ==
  LET c == hilo[w].client
  IN  /\ conn' = IF PeerThere(w) /\ hilo[w].code = 0
                 THEN [conn EXCEPT ![c].state = "replied", ![c].code = hilo[w].code]
                 ELSE conn
      /\ UNCHANGED <<dbVars, listening, backlog, caidas>>

(* sendMessage of the result code (and, in f_send, of the number).  Nothing *)
(* arrives when the client is gone.                                         *)
SendCode(w) ==
  LET c == hilo[w].client
  IN  /\ conn' = IF PeerThere(w)
                 THEN [conn EXCEPT ![c].state = "replied", ![c].code = hilo[w].code]
                 ELSE conn
      /\ UNCHANGED <<dbVars, listening, backlog, caidas>>

ReplyAndReturn(w) ==
  /\ At(w, "reply")
  /\ hilo[w].code # 0 \/ Req(w).op \in {"REGISTER", "UNREGISTER", "DISCONNECT"}
  /\ SendCode(w)
  /\ Return(w)
  /\ UNCHANGED historyVars

ReplyConnected(w) ==
  /\ At(w, "reply") /\ hilo[w].code = 0 /\ Req(w).op = "CONNECT"
  /\ SendCode(w)
  /\ Goto(w, "pending")
  /\ UNCHANGED historyVars

(* A variant: a message to a user who is online is pushed, not stored. *)
ReplyAccepted_StoresOffline(w) ==
  /\ At(w, "reply") /\ hilo[w].code = 0 /\ IsSend(Req(w))
  /\ SendCode(w)
  /\ Goto(w, IF hilo[w].dest = NoAddr THEN "store" ELSE "deliver")
  /\ prometidos' = prometidos \cup {InHand(w)}
  /\ UNCHANGED <<guardados, entregados, bajas, direcciones>>

ReplyAccepted(w) ==
  /\ At(w, "reply") /\ hilo[w].code = 0 /\ IsSend(Req(w))
  /\ SendCode(w)
  /\ Goto(w, "store")
  /\ prometidos' = prometidos \cup {InHand(w)}
  /\ UNCHANGED <<guardados, entregados, bajas, direcciones>>

(* The result of db_store_message is ignored. *)
Store(w) ==
  /\ At(w, "store")
  /\ \E res \in {0, 2} :
       /\ db_store_message(Req(w).dest, Current(w), res)
       /\ guardados' = IF res = 0 THEN guardados \cup {InHand(w)} ELSE guardados
  /\ \/ hilo[w].dest = NoAddr /\ Return(w)
     \/ hilo[w].dest # NoAddr /\ Goto(w, "deliver")
  /\ UNCHANGED <<netVars, caidas, prometidos, entregados, bajas, direcciones>>

Pending(w) ==
  /\ At(w, "pending")
  /\ \E m \in {mensajes[Req(w).user], EmptyFile} :
       /\ db_get_pending_messages(Req(w).user, m)
       /\ \/ DOMAIN m = {} /\ Return(w)
          \/ /\ DOMAIN m # {}
             /\ hilo' = [hilo EXCEPT ![w].pc = "deliver"]
             /\ msgs' = [msgs EXCEPT ![w] = m]
  /\ UNCHANGED <<netVars, caidas, historyVars>>

-----------------------------------------------------------------------------
(* A variant: the message is not deleted after the push. *)
DeliverMessage_Keeps(w) ==
  /\ At(w, "deliver")
  /\ Deliver(hilo[w].dest, [kind |-> "MESSAGE", for |-> Receiver(w), mail |-> InHand(w)])
  /\ entregados' = entregados \cup {InHand(w)}
  /\ Goto(w, "ack_info")
  /\ UNCHANGED <<dbVars, caidas, prometidos, guardados, bajas, direcciones>>

(* The message is pushed to the listener at the address read before. *)
DeliverMessage(w) ==
  /\ At(w, "deliver")
  /\ Deliver(hilo[w].dest, [kind |-> "MESSAGE", for |-> Receiver(w), mail |-> InHand(w)])
  /\ entregados' = entregados \cup {InHand(w)}
  /\ Goto(w, "delete")
  /\ UNCHANGED <<dbVars, caidas, prometidos, guardados, bajas, direcciones>>

(* A variant: after a failed push the message is deleted as if it had left. *)
DeliverFails_Deletes(w) ==
  /\ At(w, "deliver")
  /\ ~Reachable(hilo[w].dest)
  /\ Goto(w, "delete")
  /\ UNCHANGED <<dbVars, netVars, caidas, historyVars>>

(* connect(2) finds no listener with room, or socket(2) no free descriptor. *)
DeliverFails(w) ==
  /\ At(w, "deliver")
  /\ ~Reachable(hilo[w].dest) \/ OpenMayFail
  /\ Goto(w, "drop_dest")
  /\ UNCHANGED <<dbVars, netVars, caidas, historyVars>>

(* The receiver is marked offline, whatever its address is by now. *)
DropReceiver(w) ==
  /\ At(w, "drop_dest")
  /\ \E res \in 0..3 : db_disconnect(Receiver(w), res)
  /\ Return(w)
  /\ UNCHANGED <<netVars, caidas, historyVars>>

Delete(w) ==
  /\ At(w, "delete")
  /\ db_delete_message(Receiver(w), Current(w).id)
  /\ Goto(w, "ack_info")
  /\ UNCHANGED <<netVars, caidas, historyVars>>

AckInfo(w) ==
  /\ At(w, "ack_info")
  /\ LET s == Current(w).sender
     IN  \E res \in {-1, 0} :
           /\ get_user_info(s, res)
           /\ \/ /\ res = 0 /\ usuarios[s].connected = 1
                 /\ hilo' = [hilo EXCEPT ![w].pc = "ack", ![w].src = usuarios[s].addr]
                 /\ UNCHANGED msgs
              \/ /\ res = -1 \/ (res = 0 /\ usuarios[s].connected = 0)
                 /\ Advance(w)
  /\ UNCHANGED <<netVars, caidas, historyVars>>

Ack(w) ==
  /\ At(w, "ack")
  /\ Deliver(hilo[w].src, [kind |-> "ACK", for |-> Current(w).sender, mail |-> InHand(w)])
  /\ Advance(w)
  /\ UNCHANGED <<dbVars, caidas, historyVars>>

AckFails(w) ==
  /\ At(w, "ack")
  /\ ~Reachable(hilo[w].src) \/ OpenMayFail
  /\ Goto(w, "drop_sender")
  /\ UNCHANGED <<dbVars, netVars, caidas, historyVars>>

DropSender(w) ==
  /\ At(w, "drop_sender")
  /\ \E res \in 0..3 : db_disconnect(Current(w).sender, res)
  /\ Advance(w)
  /\ UNCHANGED <<netVars, caidas, historyVars>>

-----------------------------------------------------------------------------
(* The server process ends (SIGINT, a kill, SIGPIPE) and is started again. *)
(* Its threads are gone, a client that was waiting finds the connection    *)
(* closed (receive_byte returns -1), and db_init keeps the files.          *)
ServerCrash ==
  /\ caidas < MaxCrashes
  /\ caidas' = caidas + 1
  /\ hilo' = [w \in Worker |-> IdleThread]
  /\ msgs' = [w \in Worker |-> EmptyFile]
  /\ conn' = [c \in Client |->
                IF conn[c].state \in {"sent", "open"}
                THEN [conn[c] EXCEPT !.state = "replied", !.code = -1, !.worker = None]
                ELSE conn[c]]
  /\ UNCHANGED <<dbVars, listening, backlog, historyVars>>

WorkerStep(w) ==
  \/ f_register(w) \/ f_unregister(w)
  \/ PeerUnknown(w) \/ f_connect(w)
  \/ DisconnectInfo(w) \/ f_disconnect(w)
  \/ Prepare(w)
  \/ ReplyAndReturn(w) \/ ReplyConnected(w) \/ ReplyAccepted(w)
  \/ Store(w) \/ Pending(w)
  \/ DeliverMessage(w) \/ DeliverFails(w) \/ DropReceiver(w)
  \/ Delete(w)
  \/ AckInfo(w) \/ Ack(w) \/ AckFails(w) \/ DropSender(w)

=============================================================================
