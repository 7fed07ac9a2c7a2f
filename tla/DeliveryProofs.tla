--------------------------- MODULE DeliveryProofs ---------------------------
(***************************************************************************)
(* Theorems about the delivery of mail, for all values of the constants.   *)
(* They rest on the inductive invariant IInv of MessagingServiceProofs and *)
(* on what one step of a thread leaves alone: the other threads, and the   *)
(* message in its own hand until it takes the next one.                    *)
(***************************************************************************)
EXTENDS MessagingServiceProofs

(* The threads other than w do not move. *)
OthersStay(w) == \A v \in Worker \ {w} : hilo'[v] = hilo[v] /\ msgs'[v] = msgs[v]

(* Between the push of a message and the next message. *)
Pushed == {"delete", "ack_info", "ack", "drop_sender"}

LEMMA SameInHand ==
  ASSUME NEW v, hilo'[v].req = hilo[v].req, msgs'[v] = msgs[v]
  PROVE  InHand(v)' = InHand(v) /\ Receiver(v)' = Receiver(v) /\ Current(v)' = Current(v)
BY DEF InHand, Receiver, Current, Req

LEMMA GotoMoves ==
  ASSUME ThreadInv, NEW w \in Worker, NEW step, Goto(w, step)
  PROVE  OthersStay(w) /\ hilo'[w].pc = step /\ InHand(w)' = InHand(w)
<1>1. hilo[w] \in Thread
  BY DEF ThreadInv, GoodThread
<1>2. hilo'[w].pc = step /\ hilo'[w].req = hilo[w].req /\ msgs'[w] = msgs[w]
  BY <1>1 DEF Goto, ThreadInv, Thread
<1>3. OthersStay(w)
  BY DEF Goto, ThreadInv, OthersStay
<1> QED
  BY <1>2, <1>3, SameInHand

LEMMA AnswerMoves ==
  ASSUME ThreadInv, NEW w \in Worker, NEW res, Answer(w, res)
  PROVE  OthersStay(w) /\ hilo'[w].pc = "reply"
<1>1. hilo[w] \in Thread
  BY DEF ThreadInv, GoodThread
<1> QED
  BY <1>1 DEF Answer, ThreadInv, Thread, OthersStay

LEMMA ReturnMoves ==
  ASSUME ThreadInv, NEW w \in Worker, Return(w)
  PROVE  OthersStay(w) /\ hilo'[w].pc = "idle"
BY DEF Return, ThreadInv, OthersStay, IdleThread

LEMMA AdvanceMoves ==
  ASSUME ThreadInv, NEW w \in Worker, Advance(w)
  PROVE  OthersStay(w) /\ hilo'[w].pc \in {"idle", "deliver"}
<1> DEFINE rest == Restrict(msgs[w], DOMAIN msgs[w] \ {First(msgs[w])})
<1>1. CASE Return(w)
  BY <1>1, ReturnMoves
<1>2. CASE /\ hilo' = [hilo EXCEPT ![w].pc = "deliver", ![w].src = NoAddr]
           /\ msgs' = [msgs EXCEPT ![w] = rest]
  <2>1. hilo[w] \in Thread
    BY DEF ThreadInv, GoodThread
  <2> HIDE DEF rest
  <2> QED
    BY <1>2, <2>1 DEF ThreadInv, Thread, OthersStay
<1> QED
  BY <1>1, <1>2 DEF Advance

(* A step of thread w: the others stay, mail stays pushed, and w is past a *)
(* push only if it has just pushed or was past the same push before.       *)
LEMMA WorkerMoves ==
  ASSUME ServiceInv, NEW w \in Worker, tratar_peticion(w) \/ WorkerStep(w)
  PROVE  /\ OthersStay(w)
         /\ entregados \subseteq entregados'
         /\ hilo'[w].pc \in Pushed =>
              \/ hilo[w].pc \in Pushed /\ InHand(w)' = InHand(w)
              \/ InHand(w)' = InHand(w) /\ InHand(w) \in entregados'
<1>1. ThreadInv /\ hilo[w] \in Thread
  BY DEF ServiceInv, ThreadInv, GoodThread
<1> USE DEF Pushed
<1>2. CASE tratar_peticion(w)
  <2>1. OthersStay(w)
    BY <1>1, <1>2 DEF tratar_peticion, ThreadInv, OthersStay
  <2>2. PICK c \in Client :
          /\ conn[c].state = "sent"
          /\ hilo' = [hilo EXCEPT ![w] = [IdleThread EXCEPT
               !.pc = FirstStep(conn[c].req.op), !.client = c, !.req = conn[c].req]]
    BY <1>2 DEF tratar_peticion
  <2>3. conn[c].req.op \in Ops
    BY <2>2 DEF ServiceInv, ConnInv, NetTypeOK, Request
  <2>4. FirstStep(conn[c].req.op) \notin Pushed
    BY <2>3 DEF FirstStep, Ops
  <2>5. hilo'[w].pc = FirstStep(conn[c].req.op)
    BY <1>1, <2>2, IdleIsGood DEF ThreadInv, GoodThread, Thread
  <2> QED
    BY <1>2, <2>1, <2>4, <2>5 DEF tratar_peticion, historyVars
<1>3. CASE \/ f_register(w) \/ f_unregister(w) \/ PeerUnknown(w) \/ f_disconnect(w)
  BY <1>1, <1>3, AnswerMoves
     DEF f_register, f_unregister, PeerUnknown, f_disconnect, historyVars
<1>4. CASE f_connect(w)
  <2>1. OthersStay(w) /\ hilo'[w].pc = "reply"
    BY <1>1, <1>4 DEF f_connect, ThreadInv, Thread, OthersStay
  <2> QED
    BY <1>4, <2>1 DEF f_connect, historyVars
<1>5. CASE DisconnectInfo(w)
  BY <1>1, <1>5, AnswerMoves, GotoMoves DEF DisconnectInfo, historyVars
<1>6. CASE Prepare(w)
  <2>1. OthersStay(w) /\ hilo'[w].pc = "reply"
    <3>1. CASE \E res \in 0..2 : Answer(w, res)
      BY <1>1, <3>1, AnswerMoves
    <3>2. ASSUME NEW d, NEW f,
                 hilo' = [hilo EXCEPT ![w].pc = "reply", ![w].code = 0, ![w].dest = d],
                 msgs' = [msgs EXCEPT ![w] = f]
          PROVE  OthersStay(w) /\ hilo'[w].pc = "reply"
      BY <1>1, <3>2 DEF ThreadInv, Thread, OthersStay
    <3> QED
      BY <1>6, <3>1, <3>2 DEF Prepare
  <2> QED
    BY <1>6, <2>1 DEF Prepare, historyVars
<1>7. CASE ReplyAndReturn(w)
  BY <1>1, <1>7, ReturnMoves DEF ReplyAndReturn, historyVars
<1>8. CASE ReplyConnected(w) \/ ReplyAccepted(w)
  BY <1>1, <1>8, GotoMoves DEF ReplyConnected, ReplyAccepted, historyVars
<1>9. CASE Store(w)
  BY <1>1, <1>9, GotoMoves, ReturnMoves DEF Store
<1>10. CASE Pending(w)
  <2>1. OthersStay(w) /\ hilo'[w].pc \in {"idle", "deliver"}
    <3>1. CASE Return(w)
      BY <1>1, <3>1, ReturnMoves
    <3>2. ASSUME NEW f, hilo' = [hilo EXCEPT ![w].pc = "deliver"],
                 msgs' = [msgs EXCEPT ![w] = f]
          PROVE  OthersStay(w) /\ hilo'[w].pc = "deliver"
      BY <1>1, <3>2 DEF ThreadInv, Thread, OthersStay
    <3> QED
      BY <1>10, <3>1, <3>2 DEF Pending
  <2> QED
    BY <1>10, <2>1 DEF Pending, historyVars
<1>11. CASE DeliverMessage(w)
  BY <1>1, <1>11, GotoMoves DEF DeliverMessage
<1>12. CASE DeliverFails(w)
  BY <1>1, <1>12, GotoMoves DEF DeliverFails, historyVars
<1>13. CASE DropReceiver(w)
  BY <1>1, <1>13, ReturnMoves DEF DropReceiver, historyVars
<1>14. CASE Delete(w)
  BY <1>1, <1>14, GotoMoves DEF Delete, At, historyVars
<1>15. CASE AckInfo(w)
  <2>1. CASE Advance(w)
    BY <1>1, <1>15, <2>1, AdvanceMoves DEF AckInfo, historyVars
  <2>2. ASSUME NEW a, hilo' = [hilo EXCEPT ![w].pc = "ack", ![w].src = a], UNCHANGED msgs
        PROVE  OthersStay(w) /\ InHand(w)' = InHand(w)
    <3>1. OthersStay(w) /\ hilo'[w].req = hilo[w].req
      BY <1>1, <2>2 DEF ThreadInv, Thread, OthersStay
    <3> QED
      BY <2>2, <3>1, SameInHand
  <2> QED
    BY <1>15, <2>1, <2>2 DEF AckInfo, At, historyVars
<1>16. CASE Ack(w) \/ DropSender(w)
  BY <1>1, <1>16, AdvanceMoves DEF Ack, DropSender, historyVars
<1>17. CASE AckFails(w)
  BY <1>1, <1>17, GotoMoves DEF AckFails, At, historyVars
<1> QED
  BY <1>2, <1>3, <1>4, <1>5, <1>6, <1>7, <1>8, <1>9, <1>10, <1>11, <1>12, <1>13,
     <1>14, <1>15, <1>16, <1>17 DEF WorkerStep

-----------------------------------------------------------------------------
(* Only pushed mail is confirmed. *)

PushedInv == \A w \in Worker : hilo[w].pc \in Pushed => InHand(w) \in entregados

LEMMA PushedInvStep ==
  ASSUME ServiceInv, PushedInv, NEW w \in Worker, tratar_peticion(w) \/ WorkerStep(w)
  PROVE  PushedInv'
<1>1. /\ OthersStay(w)
      /\ entregados \subseteq entregados'
      /\ hilo'[w].pc \in Pushed =>
           \/ hilo[w].pc \in Pushed /\ InHand(w)' = InHand(w)
           \/ InHand(w)' = InHand(w) /\ InHand(w) \in entregados'
  BY WorkerMoves
<1> SUFFICES ASSUME NEW v \in Worker, hilo'[v].pc \in Pushed
             PROVE  InHand(v)' \in entregados'
  BY DEF PushedInv, Pushed
<1>2. CASE v = w
  BY <1>1, <1>2 DEF PushedInv
<1>3. CASE v # w
  <2>1. hilo'[v] = hilo[v] /\ InHand(v)' = InHand(v)
    BY <1>1, <1>3, SameInHand DEF OthersStay
  <2> QED
    BY <1>1, <2>1 DEF PushedInv
<1> QED
  BY <1>2, <1>3

(* A push that is made adds one element at the end of one queue. *)
LEMMA DeliverAppends ==
  ASSUME NetTypeOK, NEW addr, NEW p \in Push, Deliver(addr, p), NEW c \in Client,
         NEW i \in DOMAIN backlog'[c]
  PROVE  backlog'[c][i] = p \/ (i \in DOMAIN backlog[c] /\ backlog'[c][i] = backlog[c][i])
<1>1. PICK d \in Client : backlog' = [backlog EXCEPT ![d] = Append(@, p)]
  BY DEF Deliver
<1>2. backlog[c] \in Seq(Push) /\ backlog[d] \in Seq(Push)
  BY DEF NetTypeOK
<1>3. backlog'[c] = backlog[c] \/ backlog'[c] = Append(backlog[c], p)
  BY <1>1 DEF NetTypeOK
<1> QED
  BY <1>2, <1>3

AckInv2 == PushedInv /\ AckedWasPushed

(* The queues grow only by DeliverMessage and Ack. *)
LEMMA WorkerAcks ==
  ASSUME ServiceInv, AckInv2, NEW w \in Worker, tratar_peticion(w) \/ WorkerStep(w)
  PROVE  AckedWasPushed'
<1>1. entregados \subseteq entregados'
  BY WorkerMoves
<1>2. CASE UNCHANGED backlog
  BY <1>1, <1>2 DEF AckInv2, AckedWasPushed
<1>3. CASE DeliverMessage(w)
  <2> DEFINE p == [kind |-> "MESSAGE", for |-> Receiver(w), mail |-> InHand(w)]
  <2>1. hilo[w].pc = "deliver" /\ Deliver(hilo[w].dest, p)
    BY <1>3 DEF DeliverMessage, At
  <2>2. p \in Push /\ p.kind # "ACK"
    BY <2>1, DeliveringFacts DEF Delivering, Push
  <2> HIDE DEF p
  <2> QED
    BY <1>1, <2>1, <2>2, DeliverAppends DEF AckInv2, AckedWasPushed, ServiceInv, ConnInv
<1>4. CASE Ack(w)
  <2> DEFINE p == [kind |-> "ACK", for |-> Current(w).sender, mail |-> InHand(w)]
  <2>1. hilo[w].pc = "ack" /\ Deliver(hilo[w].src, p)
    BY <1>4 DEF Ack, At
  <2>2. p \in Push /\ p.mail = InHand(w)
    BY <2>1, DeliveringFacts DEF Delivering, Push
  <2>3. InHand(w) \in entregados
    BY <2>1 DEF AckInv2, PushedInv, Pushed
  <2> HIDE DEF p
  <2> QED
    BY <1>1, <2>1, <2>2, <2>3, DeliverAppends DEF AckInv2, AckedWasPushed, ServiceInv, ConnInv
<1>5. UNCHANGED backlog \/ DeliverMessage(w) \/ Ack(w)
  BY DEF tratar_peticion, WorkerStep, f_register, f_unregister, PeerUnknown, f_connect,
         DisconnectInfo, f_disconnect, Prepare, ReplyAndReturn, ReplyConnected, ReplyAccepted,
         SendCode, Store, Pending, DeliverFails, DropReceiver, Delete, AckInfo, AckFails,
         DropSender, netVars
<1> QED
  BY <1>2, <1>3, <1>4, <1>5

(* A client takes from its own queue or drops it. *)
LEMMA ClientQueues ==
  ASSUME IInv, NEW c \in Client, ClientNext(c), NEW d \in Client,
         NEW i \in DOMAIN backlog'[d]
  PROVE  \E j \in DOMAIN backlog[d] : backlog'[d][i] = backlog[d][j]
<1>1. backlog[d] \in Seq(Push) /\ backlog[c] \in Seq(Push)
      /\ backlog = [e \in Client |-> backlog[e]]
  BY DEF IInv, ServiceInv, ConnInv, NetTypeOK
<1>2. CASE UNCHANGED backlog
  BY <1>2
<1>3. CASE backlog' = [backlog EXCEPT ![c] = <<>>]
  BY <1>1, <1>3
<1>4. CASE backlog[c] # <<>> /\ backlog' = [backlog EXCEPT ![c] = Tail(@)]
  <2>1. CASE d = c
    <3>1. backlog'[d] = Tail(backlog[d]) /\ backlog[d] # <<>>
      BY <1>1, <1>4, <2>1
    <3>2. i + 1 \in DOMAIN backlog[d] /\ Tail(backlog[d])[i] = backlog[d][i + 1]
      BY <1>1, <3>1
    <3> QED
      BY <3>1, <3>2
  <2>2. CASE d # c
    BY <1>1, <1>4, <2>2
  <2> QED
    BY <2>1, <2>2
<1>5. \/ UNCHANGED backlog
      \/ backlog' = [backlog EXCEPT ![c] = <<>>]
      \/ backlog[c] # <<>> /\ backlog' = [backlog EXCEPT ![c] = Tail(@)]
  BY DEF ClientNext, Command, Continue, account, connect, send, quit, CommandDone, ConnectOK,
         ConnectFailed, DisconnectDone, stop_listener, Killed, listener_thread, OpenListener,
         CloseListener
<1> QED
  BY <1>2, <1>3, <1>4, <1>5

LEMMA AckInv2Next == IInv /\ AckInv2 /\ [Next]_vars => AckInv2'
<1> SUFFICES ASSUME IInv, AckInv2, [Next]_vars PROVE AckInv2'
  OBVIOUS
<1>1. ASSUME NEW w \in Worker, ServerNext(w) PROVE AckInv2'
  BY <1>1, PushedInvStep, WorkerAcks DEF ServerNext, IInv, AckInv2
<1>2. ASSUME NEW c \in Client, ClientNext(c) PROVE AckInv2'
  <2>1. UNCHANGED <<hilo, msgs, entregados>>
    BY <1>2 DEF ClientNext, serverVars, hilosVars, historyVars
  <2>2. PushedInv'
    BY <2>1, SameInHand DEF AckInv2, PushedInv
  <2>3. AckedWasPushed'
    <3> SUFFICES ASSUME NEW d \in Client, NEW i \in DOMAIN backlog'[d],
                        backlog'[d][i].kind = "ACK"
                 PROVE  backlog'[d][i].mail \in entregados'
      BY DEF AckedWasPushed
    <3>1. PICK j \in DOMAIN backlog[d] : backlog'[d][i] = backlog[d][j]
      BY <1>2, ClientQueues
    <3> QED
      BY <2>1, <3>1 DEF AckInv2, AckedWasPushed
  <2> QED
    BY <2>2, <2>3 DEF AckInv2
<1>3. CASE ServerCrash
  <2>1. PushedInv'
    BY <1>3 DEF ServerCrash, PushedInv, IdleThread, Pushed
  <2>2. AckedWasPushed'
    BY <1>3 DEF ServerCrash, historyVars, AckInv2, AckedWasPushed
  <2> QED
    BY <2>1, <2>2 DEF AckInv2
<1>4. CASE UNCHANGED vars
  <2>1. UNCHANGED <<hilo, msgs, entregados, backlog>>
    BY <1>4 DEF vars, serverVars, hilosVars, historyVars, netVars
  <2> QED
    BY <2>1, SameInHand DEF AckInv2, PushedInv, AckedWasPushed
<1> QED
  BY <1>1, <1>2, <1>3, <1>4 DEF Next

LEMMA AckInv2Init == Init => AckInv2
<1> SUFFICES ASSUME Init PROVE AckInv2
  OBVIOUS
<1>1. PushedInv
  BY DEF Init, ServerInit, IdleThread, PushedInv, Pushed
<1>2. AckedWasPushed
  BY DEF Init, NetInit, AckedWasPushed
<1> QED
  BY <1>1, <1>2 DEF AckInv2

(* Every confirmation that a listener is given is about mail that was      *)
(* pushed to its receiver, whatever crashes, fails or interleaves: f_send  *)
(* and f_connect confirm only after a push.                                *)
THEOREM AcknowledgedWasPushed == Spec => []AckedWasPushed
<1>1. AckInv2 => AckedWasPushed
  BY DEF AckInv2
<1> QED
  BY <1>1, Invariance, AckInv2Init, AckInv2Next, PTL DEF Spec

-----------------------------------------------------------------------------
(* An accepted message is stored, or its thread is about to store it. *)

(* A thread that is about to store does nothing else. *)
LEMMA StoreIsNext ==
  ASSUME NEW w, At(w, "store"), tratar_peticion(w) \/ WorkerStep(w)
  PROVE  Store(w)
BY DEF At, tratar_peticion, WorkerStep, f_register, f_unregister, PeerUnknown, f_connect,
       DisconnectInfo, f_disconnect, Prepare, ReplyAndReturn, ReplyConnected, ReplyAccepted,
       Pending, DeliverMessage, DeliverFails, DropReceiver, Delete, AckInfo, Ack, AckFails,
       DropSender

(* The history of a step: only Store stores, only ReplyAccepted accepts.   *)
LEMMA WorkerHistory ==
  ASSUME NEW w \in Worker, tratar_peticion(w) \/ WorkerStep(w)
  PROVE  /\ UNCHANGED caidas
         /\ Store(w) \/ UNCHANGED guardados
         /\ ReplyAccepted(w) \/ UNCHANGED prometidos
         /\ bajas \subseteq bajas' /\ guardados \subseteq guardados'
<1>1. CASE Store(w)
  BY <1>1 DEF Store
<1>2. CASE ReplyAccepted(w)
  BY <1>2 DEF ReplyAccepted, SendCode
<1>3. CASE f_unregister(w)
  BY <1>3 DEF f_unregister
<1>4. CASE ~(Store(w) \/ ReplyAccepted(w) \/ f_unregister(w))
  BY <1>4 DEF tratar_peticion, WorkerStep, f_register, PeerUnknown, f_connect,
       DisconnectInfo, f_disconnect, Prepare, ReplyAndReturn, ReplyConnected, SendCode,
       Pending, DeliverMessage, DeliverFails, DropReceiver, Delete, AckInfo, Ack, AckFails,
       DropSender, historyVars
<1> QED
  BY <1>1, <1>2, <1>3, <1>4

(* Without failing opens a store succeeds. *)
LEMMA StoreStores ==
  ASSUME Steady, NEW w, Store(w)
  PROVE  /\ guardados' = guardados \cup {InHand(w)}
         /\ mensajes' = [mensajes EXCEPT ![Req(w).dest] =
                           Appended(mensajes[Req(w).dest], Current(w))]
BY DEF Steady, Store, db_store_message, OpenFails

LEMMA PromisedWorker ==
  ASSUME ServiceInv, PromisedIsStored, NEW w \in Worker, tratar_peticion(w) \/ WorkerStep(w)
  PROVE  PromisedIsStored'
<1> SUFFICES ASSUME Steady, caidas' = 0, NEW x \in prometidos'
             PROVE  \/ x \in guardados'
                    \/ \E v \in Worker : At(v, "store")' /\ x = InHand(v)'
  BY DEF PromisedIsStored, Steady
<1>1. OthersStay(w)
  BY WorkerMoves
<1>2. caidas = 0
  BY WorkerHistory
<1>3. CASE x \in prometidos
  <2>1. CASE x \in guardados
    BY <2>1, WorkerHistory
  <2>2. ASSUME NEW v \in Worker, At(v, "store"), x = InHand(v)
        PROVE  x \in guardados' \/ (At(v, "store")' /\ x = InHand(v)')
    <3>1. CASE v = w
      BY <2>2, <3>1, StoreIsNext, StoreStores
    <3>2. CASE v # w
      BY <1>1, <2>2, <3>2, SameInHand DEF OthersStay, At
    <3> QED
      BY <3>1, <3>2
  <2> QED
    BY <1>2, <1>3, <2>1, <2>2 DEF PromisedIsStored
<1>4. CASE x \notin prometidos
  <2>1. ReplyAccepted(w) /\ x = InHand(w)
    BY <1>4, WorkerHistory DEF ReplyAccepted
  <2>2. At(w, "store")' /\ InHand(w)' = InHand(w)
    BY <2>1, GotoMoves DEF ReplyAccepted, ServiceInv, At
  <2> QED
    BY <2>1, <2>2
<1> QED
  BY <1>3, <1>4

LEMMA PromisedNext == IInv /\ PromisedIsStored /\ [Next]_vars => PromisedIsStored'
<1> SUFFICES ASSUME IInv, PromisedIsStored, [Next]_vars PROVE PromisedIsStored'
  OBVIOUS
<1>1. ASSUME NEW w \in Worker, ServerNext(w) PROVE PromisedIsStored'
  BY <1>1, PromisedWorker DEF ServerNext, IInv
<1>2. CASE UNCHANGED serverVars
  <2>1. UNCHANGED <<hilo, msgs, caidas, prometidos, guardados>>
    BY <1>2 DEF serverVars, hilosVars, historyVars
  <2> SUFFICES ASSUME Steady, caidas' = 0, NEW x \in prometidos', x \notin guardados'
               PROVE  \E v \in Worker : At(v, "store")' /\ x = InHand(v)'
    BY DEF PromisedIsStored, Steady
  <2>2. PICK v \in Worker : At(v, "store") /\ x = InHand(v)
    BY <2>1 DEF PromisedIsStored
  <2>3. InHand(v)' = InHand(v)
    BY <2>1, SameInHand
  <2> QED
    BY <2>1, <2>2, <2>3 DEF At
<1>3. CASE ServerCrash
  <2>1. caidas' = caidas + 1
    BY <1>3 DEF ServerCrash
  <2>2. caidas \in 0..MaxCrashes
    BY DEF IInv, ServiceInv, HistoryInv
  <2>3. caidas' # 0
    BY <2>1, <2>2
  <2> QED
    BY <2>3 DEF PromisedIsStored
<1> QED
  BY <1>1, <1>2, <1>3 DEF Next, ClientNext, vars

(* While open(2) works and the server does not stop, no accepted message   *)
(* is forgotten between the reply and the mailbox, however many threads    *)
(* send at the same time.                                                  *)
THEOREM AcceptedIsStored == Spec => []PromisedIsStored
<1>1. Init => PromisedIsStored
  BY DEF Init, ServerInit, PromisedIsStored
<1> QED
  BY <1>1, Invariance, PromisedNext, PTL DEF Spec

-----------------------------------------------------------------------------
(* Stored mail stays until it is pushed. *)

(* x is still in its mailbox, or there is a reason why not. *)
Kept(x) == \/ x \in Mailbox(x.dest)
           \/ x.dest \in bajas
           \/ \E y \in entregados : y.dest = x.dest /\ y.msg.id = x.msg.id

LEMMA KeptStays ==
  ASSUME NEW x, Kept(x), bajas \subseteq bajas', entregados \subseteq entregados',
         x \in Mailbox(x.dest) => x \in Mailbox(x.dest)'
  PROVE  Kept(x)'
BY DEF Kept

LEMMA StoreKeeps ==
  ASSUME ServiceInv, Steady, NEW w \in Worker, Store(w), NEW u \in User
  PROVE  /\ Mailbox(u) \subseteq Mailbox(u)'
         /\ InHand(w).dest = u => InHand(w) \in Mailbox(u)'
<1> DEFINE r == Req(w).dest
           f == mensajes[r]
           g == Appended(f, Current(w))
<1>1. hilo[w].pc = "store" /\ UsesMessage(hilo[w]) /\ GoodThread(hilo[w], msgs[w])
  BY DEF Store, At, UsesMessage, ServiceInv, ThreadInv
<1>2. IsSend(Req(w)) /\ r \in User /\ Current(w) \in PendingMsg
  BY <1>1, ThreadFacts DEF GoodThread, Fits, Req, ServiceInv
<1>3. InHand(w) = [dest |-> r, msg |-> Current(w)]
  BY <1>2 DEF InHand, Receiver, IsSend
<1>4. PICK b \in Nat : Within(f, b)
  BY <1>2 DEF ServiceInv, DbInv
<1>5. IsFile(f)
  BY <1>2 DEF ServiceInv, DbInv, DbTypeOK
<1>6. /\ DOMAIN g = DOMAIN f \cup {NextSlot(f)}
      /\ g[NextSlot(f)] = Current(w)
      /\ \A i \in DOMAIN f : g[i] = f[i]
  BY <1>2, <1>4, <1>5, AppendedIsFile
<1>7. mensajes' = [mensajes EXCEPT ![r] = g]
  BY StoreStores
<1>8. DOMAIN mensajes = User
  BY DEF ServiceInv, DbInv, DbTypeOK
<1> HIDE DEF g
<1>9. CASE u = r
  <2>1. mensajes'[u] = g
    BY <1>2, <1>7, <1>8, <1>9
  <2> QED
    BY <1>3, <1>6, <1>9, <2>1 DEF Mailbox
<1>10. CASE u # r
  <2>1. mensajes'[u] = mensajes[u]
    BY <1>7, <1>8, <1>10
  <2> QED
    BY <1>3, <1>10, <2>1 DEF Mailbox
<1> QED
  BY <1>9, <1>10

(* A deletion takes out only records with the number of the message in hand. *)
LEMMA DeleteKeeps ==
  ASSUME ServiceInv, Steady, NEW w \in Worker, Delete(w), NEW u \in User,
         NEW x \in Mailbox(u), u = Receiver(w) => x.msg.id # Current(w).id
  PROVE  x \in Mailbox(u)'
<1> DEFINE f == mensajes[Receiver(w)]
           kept == {i \in DOMAIN f : f[i].id # Current(w).id}
<1>1. mensajes' = [mensajes EXCEPT ![Receiver(w)] = Restrict(f, kept)]
  BY DEF Delete, db_delete_message, Steady
<1>2. Receiver(w) \in User
  BY DeliveringFacts DEF Delete, At, Delivering
<1>3. DOMAIN mensajes = User /\ IsFile(f)
  BY <1>2 DEF ServiceInv, DbInv, DbTypeOK
<1>4. DOMAIN Restrict(f, kept) = kept /\ \A i \in kept : Restrict(f, kept)[i] = f[i]
  BY <1>3, RestrictIsFile
<1>5. PICK i \in DOMAIN mensajes[u] : x = [dest |-> u, msg |-> mensajes[u][i]]
  BY DEF Mailbox
<1>6. CASE u = Receiver(w)
  <2>1. i \in kept
    BY <1>5, <1>6
  <2>2. mensajes'[u] = Restrict(f, kept)
    BY <1>1, <1>2, <1>3, <1>6
  <2> HIDE DEF kept
  <2> QED
    BY <1>4, <1>5, <1>6, <2>1, <2>2 DEF Mailbox
<1>7. CASE u # Receiver(w)
  <2>1. mensajes'[u] = mensajes[u]
    BY <1>1, <1>3, <1>7
  <2> QED
    BY <1>5, <2>1 DEF Mailbox
<1> QED
  BY <1>6, <1>7

(* The other steps leave the mailboxes alone, but for UNREGISTER. *)
LEMMA MailboxSteps ==
  ASSUME NEW w \in Worker, tratar_peticion(w) \/ WorkerStep(w),
         ~Store(w), ~Delete(w), ~f_unregister(w)
  PROVE  UNCHANGED mensajes
<1>1. CASE tratar_peticion(w) \/ PeerUnknown(w) \/ DeliverFails(w) \/ DeliverMessage(w)
           \/ Ack(w) \/ AckFails(w)
  BY <1>1 DEF tratar_peticion, PeerUnknown, DeliverFails, DeliverMessage, Ack, AckFails, dbVars
<1>2. CASE ReplyAndReturn(w) \/ ReplyConnected(w) \/ ReplyAccepted(w)
  BY <1>2 DEF ReplyAndReturn, ReplyConnected, ReplyAccepted, SendCode, dbVars
<1>3. CASE f_register(w)
  BY <1>3 DEF f_register, db_register, OpenFails, dbVars
<1>4. CASE f_connect(w)
  BY <1>4 DEF f_connect, db_connect, OpenFails, dbVars
<1>5. CASE f_disconnect(w) \/ DropReceiver(w) \/ DropSender(w)
  BY <1>5 DEF f_disconnect, DropReceiver, DropSender, db_disconnect, OpenFails, dbVars
<1>6. CASE DisconnectInfo(w) \/ AckInfo(w)
  BY <1>6 DEF DisconnectInfo, AckInfo, get_user_info, dbVars
<1>7. CASE Prepare(w)
  BY <1>7 DEF Prepare, db_prepare_message, OpenFails, dbVars
<1>8. CASE Pending(w)
  BY <1>8 DEF Pending, db_get_pending_messages, dbVars
<1> QED
  BY <1>1, <1>2, <1>3, <1>4, <1>5, <1>6, <1>7, <1>8 DEF WorkerStep

LEMMA KeptWorker ==
  ASSUME ServiceInv, PushedInv, StoredIsKept, NEW w \in Worker,
         tratar_peticion(w) \/ WorkerStep(w)
  PROVE  StoredIsKept'
<1> SUFFICES ASSUME Steady, NEW x \in guardados' PROVE Kept(x)'
  BY DEF StoredIsKept, Steady, Kept
<1>1. bajas \subseteq bajas' /\ entregados \subseteq entregados' /\ guardados \subseteq guardados'
  BY WorkerHistory, WorkerMoves
<1>2. \A y \in guardados : y.dest \in User /\ Kept(y)
  BY DEF StoredIsKept, Kept, ServiceInv, HistoryInv, Mail
<1>3. CASE Store(w)
  <2>1. guardados' = guardados \cup {InHand(w)}
    BY <1>3, StoreStores
  <2>2. CASE x \in guardados
    BY <1>1, <1>2, <1>3, <2>2, StoreKeeps, KeptStays
  <2>3. CASE x = InHand(w)
    <3>1. InHand(w).dest \in User
      BY <1>3, ThreadFacts DEF Store, At, UsesMessage, ServiceInv, Mail
    <3> QED
      BY <1>3, <2>3, <3>1, StoreKeeps DEF Kept
  <2> QED
    BY <2>1, <2>2, <2>3
<1>4. CASE Delete(w)
  <2>1. x \in guardados /\ x.dest \in User /\ Kept(x)
    BY <1>2, <1>4 DEF Delete, historyVars
  <2>2. InHand(w) \in entregados
    BY <1>4 DEF Delete, At, PushedInv, Pushed
  <2>3. CASE x.dest = Receiver(w) /\ x.msg.id = Current(w).id
    <3>1. InHand(w).dest = x.dest /\ InHand(w).msg.id = x.msg.id
      BY <2>3 DEF InHand
    <3> QED
      BY <1>1, <2>2, <3>1 DEF Kept
  <2>4. CASE ~(x.dest = Receiver(w) /\ x.msg.id = Current(w).id)
    BY <1>1, <1>4, <2>1, <2>4, DeleteKeeps, KeptStays
  <2> QED
    BY <2>3, <2>4
<1>5. CASE f_unregister(w)
  <2> DEFINE u == Req(w).user
  <2>1. x \in guardados /\ x.dest \in User /\ Kept(x)
    BY <1>2, <1>5 DEF f_unregister
  <2>2. \/ UNCHANGED mensajes
        \/ mensajes' = [mensajes EXCEPT ![u] = EmptyFile] /\ u \in bajas'
    BY <1>5 DEF f_unregister, db_unregister, OpenFails, dbVars
  <2>3. DOMAIN mensajes = User
    BY DEF ServiceInv, DbInv, DbTypeOK
  <2>4. CASE x.dest \in bajas'
    BY <2>4 DEF Kept
  <2>5. CASE x.dest \notin bajas'
    <3>1. mensajes'[x.dest] = mensajes[x.dest]
      BY <2>1, <2>2, <2>3, <2>5
    <3> QED
      BY <1>1, <2>1, <3>1, KeptStays DEF Mailbox
  <2> QED
    BY <2>4, <2>5
<1>6. CASE ~Store(w) /\ ~Delete(w) /\ ~f_unregister(w)
  <2>1. UNCHANGED mensajes /\ x \in guardados
    BY <1>6, MailboxSteps, WorkerHistory
  <2> QED
    BY <1>1, <1>2, <2>1, KeptStays DEF Mailbox
<1> QED
  BY <1>3, <1>4, <1>5, <1>6

LEMMA KeptNext == IInv /\ AckInv2 /\ StoredIsKept /\ [Next]_vars => StoredIsKept'
<1> SUFFICES ASSUME IInv, AckInv2, StoredIsKept, [Next]_vars PROVE StoredIsKept'
  OBVIOUS
<1>1. ASSUME NEW w \in Worker, ServerNext(w) PROVE StoredIsKept'
  BY <1>1, KeptWorker DEF ServerNext, IInv, AckInv2
<1>2. CASE UNCHANGED <<dbVars, historyVars>>
  BY <1>2 DEF dbVars, historyVars, StoredIsKept, Mailbox, Steady
<1> QED
  BY <1>1, <1>2 DEF Next, ClientNext, vars, serverVars, ServerCrash

(* Stored mail stays in the mailbox, across crashes of the server and of   *)
(* clients, until a message with its number is pushed to its receiver or   *)
(* the receiver is removed.                                                *)
THEOREM StoredMailIsKept == Spec => []StoredIsKept
<1>1. Init => StoredIsKept
  BY DEF Init, ServerInit, StoredIsKept
<1> QED
  BY <1>1, Invariance, AckInv2Init, AckInv2Next, KeptNext, PTL DEF Spec

-----------------------------------------------------------------------------
(* A session is not taken over. *)

AddressStays ==
  \A u \in DOMAIN usuarios \cap DOMAIN usuarios' :
    (usuarios[u].connected = 1 /\ usuarios'[u].connected = 1)
      => usuarios'[u].addr = usuarios[u].addr

LEMMA RewriteStays ==
  ASSUME DbInv, NEW v \in DOMAIN usuarios, NEW l, Rewrite(v, l),
         \/ usuarios[v].connected = 0 \/ l.connected = 0
         \/ l.addr = usuarios[v].addr
  PROVE  AddressStays
BY DEF DbInv, DbTypeOK, Rewrite, AddressStays

LEMMA DisconnectStays ==
  ASSUME DbInv, NEW u, NEW res, db_disconnect(u, res) PROVE AddressStays
<1>1. CASE UNCHANGED dbVars
  BY <1>1 DEF dbVars, AddressStays
<1>2. CASE Exists(u) /\ Rewrite(u, [NewLine EXCEPT !.last_id = usuarios[u].last_id])
  <2>1. [NewLine EXCEPT !.last_id = usuarios[u].last_id].connected = 0
    BY DEF NewLine
  <2> QED
    BY <1>2, <2>1, RewriteStays DEF Exists
<1> QED
  BY <1>1, <1>2 DEF db_disconnect, OpenFails

LEMMA WorkerAddress ==
  ASSUME ServiceInv, NEW w \in Worker, tratar_peticion(w) \/ WorkerStep(w)
  PROVE  AddressStays
<1>1. DbInv
  BY DEF ServiceInv
<1>2. CASE UNCHANGED usuarios
  BY <1>2 DEF AddressStays
<1>3. CASE f_register(w)
  BY <1>1, <1>3 DEF f_register, db_register, OpenFails, dbVars, AddressStays, Exists
<1>4. CASE f_unregister(w)
  BY <1>4 DEF f_unregister, db_unregister, OpenFails, dbVars, AddressStays, Restrict
<1>5. CASE f_connect(w)
  <2> DEFINE u == Req(w).user
             addr == [ip |-> HostOf[hilo[w].client], port |-> Req(w).port]
             l == [connected |-> 1, addr |-> addr, last_id |-> usuarios[u].last_id]
  <2>1. \/ UNCHANGED dbVars
        \/ Exists(u) /\ usuarios[u].connected = 0 /\ Rewrite(u, l)
    BY <1>5 DEF f_connect, db_connect, OpenFails
  <2> HIDE DEF l
  <2> QED
    BY <1>1, <1>2, <2>1, RewriteStays DEF Exists, dbVars
<1>6. CASE f_disconnect(w) \/ DropReceiver(w) \/ DropSender(w)
  BY <1>1, <1>6, DisconnectStays DEF f_disconnect, DropReceiver, DropSender
<1>7. CASE Prepare(w)
  <2> DEFINE s == Req(w).user
             l == [usuarios[s] EXCEPT !.last_id = NextId(@)]
  <2>1. \/ UNCHANGED dbVars
        \/ Exists(s) /\ Rewrite(s, l)
        \/ usuarios' = Restrict(usuarios, {})
    BY <1>7 DEF Prepare, db_prepare_message, OpenFails
  <2>2. Exists(s) => l.addr = usuarios[s].addr
    BY <1>1 DEF Exists, DbInv, DbTypeOK, Line
  <2>3. CASE usuarios' = Restrict(usuarios, {})
    BY <2>3 DEF Restrict, AddressStays
  <2> HIDE DEF l
  <2> QED
    BY <1>1, <1>2, <2>1, <2>2, <2>3, RewriteStays DEF Exists, dbVars
<1>8. \/ UNCHANGED usuarios \/ f_register(w) \/ f_unregister(w) \/ f_connect(w)
      \/ f_disconnect(w) \/ DropReceiver(w) \/ DropSender(w) \/ Prepare(w)
  BY DEF tratar_peticion, WorkerStep, PeerUnknown, DisconnectInfo, ReplyAndReturn,
         ReplyConnected, ReplyAccepted, SendCode, Store, db_store_message, OpenFails, Pending,
         db_get_pending_messages, DeliverMessage, DeliverFails, Delete, db_delete_message,
         AckInfo, get_user_info, Ack, AckFails, dbVars
<1> QED
  BY <1>2, <1>3, <1>4, <1>5, <1>6, <1>7, <1>8

(* In every behaviour the address of a user that stays connected stays: no *)
(* CONNECT, delivery or failing open replaces it under the user.           *)
THEOREM AddressIsKept == Spec => SessionNotTakenOver
<1>1. IInv /\ [Next]_vars => [AddressStays]_vars
  <2> SUFFICES ASSUME IInv, Next PROVE AddressStays
    OBVIOUS
  <2>1. ASSUME NEW w \in Worker, ServerNext(w) PROVE AddressStays
    BY <2>1, WorkerAddress DEF ServerNext, IInv
  <2>2. CASE UNCHANGED usuarios
    BY <2>2 DEF AddressStays
  <2> QED
    BY <2>1, <2>2 DEF Next, ClientNext, ServerCrash, serverVars, dbVars
<1> QED
  BY <1>1, Invariance, PTL DEF Spec, SessionNotTakenOver, AddressStays

-----------------------------------------------------------------------------
(* A session ends for a reason. *)

(* u was connected and is offline or gone. *)
Ends(u) == /\ usuarios[u].connected = 1
           /\ u \notin DOMAIN usuarios' \/ usuarios'[u].connected = 0

Reason(w, u) ==
  \/ hilo[w].pc \in {"disconnect", "unregister"} /\ Req(w).user = u
  \/ At(w, "drop_dest") /\ Receiver(w) = u
  \/ At(w, "drop_sender") /\ Current(w).sender = u

LEMMA DisconnectEnds ==
  ASSUME DbInv, NEW v, NEW res, db_disconnect(v, res), NEW u \in DOMAIN usuarios, Ends(u)
  PROVE  u = v
BY DEF db_disconnect, OpenFails, dbVars, Rewrite, Exists, Ends, DbInv, DbTypeOK, Line

LEMMA WorkerEnds ==
  ASSUME ServiceInv, NEW w \in Worker, tratar_peticion(w) \/ WorkerStep(w),
         NEW u \in DOMAIN usuarios, Ends(u)
  PROVE  (OpenMayFail /\ usuarios' = EmptyFile) \/ (hilo'[w] # hilo[w] /\ Reason(w, u))
<1>1. DbInv /\ ThreadInv
  BY DEF ServiceInv
<1>2. CASE UNCHANGED usuarios
  BY <1>2 DEF Ends
<1>3. CASE f_register(w)
  BY <1>3 DEF f_register, db_register, OpenFails, dbVars, Ends, Exists
<1>4. CASE f_unregister(w)
  <2>1. u = Req(w).user
    BY <1>4 DEF f_unregister, db_unregister, OpenFails, dbVars, Restrict, Ends
  <2>2. hilo[w].pc = "unregister" /\ hilo'[w].pc = "reply"
    BY <1>1, <1>4, AnswerMoves DEF f_unregister, At
  <2> QED
    BY <2>1, <2>2 DEF Reason
<1>5. CASE f_connect(w)
  BY <1>1, <1>5 DEF f_connect, db_connect, OpenFails, dbVars, Rewrite, Ends, Exists,
                    DbInv, DbTypeOK
<1>6. CASE f_disconnect(w)
  <2>1. u = Req(w).user
    BY <1>1, <1>6, DisconnectEnds DEF f_disconnect
  <2>2. hilo[w].pc = "disconnect" /\ hilo'[w].pc = "reply"
    BY <1>1, <1>6, AnswerMoves DEF f_disconnect, At
  <2> QED
    BY <2>1, <2>2 DEF Reason
<1>7. CASE DropReceiver(w)
  <2>1. u = Receiver(w)
    BY <1>1, <1>7, DisconnectEnds DEF DropReceiver
  <2>2. hilo[w].pc = "drop_dest" /\ hilo'[w].pc = "idle"
    BY <1>1, <1>7, ReturnMoves DEF DropReceiver, At
  <2> QED
    BY <2>1, <2>2 DEF Reason, At
<1>8. CASE DropSender(w)
  <2>1. u = Current(w).sender
    BY <1>1, <1>8, DisconnectEnds DEF DropSender
  <2>2. hilo[w].pc = "drop_sender" /\ hilo'[w].pc \in {"idle", "deliver"}
    BY <1>1, <1>8, AdvanceMoves DEF DropSender, At
  <2> QED
    BY <2>1, <2>2 DEF Reason, At
<1>9. CASE Prepare(w)
  <2> DEFINE s == Req(w).user
             l == [usuarios[s] EXCEPT !.last_id = NextId(@)]
  <2>1. \/ UNCHANGED dbVars
        \/ Exists(s) /\ Rewrite(s, l)
        \/ OpenMayFail /\ usuarios' = Restrict(usuarios, {})
    BY <1>9 DEF Prepare, db_prepare_message, OpenFails
  <2>2. CASE Exists(s) /\ Rewrite(s, l)
    <3>1. l.connected = usuarios[s].connected
      BY <1>1, <2>2 DEF Exists, DbInv, DbTypeOK, Line
    <3> HIDE DEF l
    <3> QED
      BY <1>1, <2>2, <3>1 DEF Exists, Rewrite, Ends, DbInv, DbTypeOK
  <2>3. CASE OpenMayFail /\ usuarios' = Restrict(usuarios, {})
    BY <2>3 DEF Restrict, EmptyFile
  <2> QED
    BY <1>2, <2>1, <2>2, <2>3 DEF dbVars
<1>10. \/ UNCHANGED usuarios \/ f_register(w) \/ f_unregister(w) \/ f_connect(w)
       \/ f_disconnect(w) \/ DropReceiver(w) \/ DropSender(w) \/ Prepare(w)
  BY DEF tratar_peticion, WorkerStep, PeerUnknown, DisconnectInfo, ReplyAndReturn,
         ReplyConnected, ReplyAccepted, SendCode, Store, db_store_message, OpenFails, Pending,
         db_get_pending_messages, DeliverMessage, DeliverFails, Delete, db_delete_message,
         AckInfo, get_user_info, Ack, AckFails, dbVars
<1> QED
  BY <1>2, <1>3, <1>4, <1>5, <1>6, <1>7, <1>8, <1>9, <1>10

EndsForAReason ==
  \A u \in DOMAIN usuarios :
    (usuarios[u].connected = 1 /\ (u \notin DOMAIN usuarios' \/ usuarios'[u].connected = 0))
      => \/ OpenMayFail /\ usuarios' = EmptyFile
         \/ \E w \in Worker :
              /\ hilo'[w] # hilo[w]
              /\ \/ hilo[w].pc \in {"disconnect", "unregister"} /\ Req(w).user = u
                 \/ At(w, "drop_dest") /\ Receiver(w) = u
                 \/ At(w, "drop_sender") /\ Current(w).sender = u

(* No thread ends a session but that of the user's own DISCONNECT or       *)
(* UNREGISTER, or one whose push to that very user failed: a delivery      *)
(* never marks a third user offline.                                       *)
THEOREM SessionsEndForAReason == Spec => SessionEndsForAReason
<1>1. IInv /\ [Next]_vars => [EndsForAReason]_vars
  <2> SUFFICES ASSUME IInv, Next PROVE EndsForAReason
    OBVIOUS
  <2>1. ASSUME NEW w \in Worker, ServerNext(w) PROVE EndsForAReason
    BY <2>1, WorkerEnds DEF ServerNext, IInv, EndsForAReason, Ends, Reason
  <2>2. CASE UNCHANGED usuarios
    BY <2>2 DEF EndsForAReason
  <2> QED
    BY <2>1, <2>2 DEF Next, ClientNext, ServerCrash, serverVars, dbVars
<1> QED
  BY <1>1, Invariance, PTL DEF Spec, SessionEndsForAReason, EndsForAReason

=============================================================================
