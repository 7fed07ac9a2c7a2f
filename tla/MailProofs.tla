----------------------------- MODULE MailProofs -----------------------------
(***************************************************************************)
(* Where mail comes from and where it goes, for all values of the          *)
(* constants: no mail is forged, the service implements MailSystem, the    *)
(* accepted messages of a sender have different numbers, and confirmed     *)
(* mail is not pending.                                                    *)
(*                                                                         *)
(* NotForged says nothing of the message a thread has between its number   *)
(* and its reply, and it does not tell stored mail from accepted mail.     *)
(* MailInv does both, and follows a message from f_send through the        *)
(* mailbox into the array of a CONNECT and into a listener's queue.        *)
(***************************************************************************)
EXTENDS DeliveryProofs, FiniteSetTheorems

(* Mail that a thread may have in its array: with failing opens a message  *)
(* whose storing failed is delivered too.                                  *)
Deliverable == IF OpenMayFail THEN prometidos ELSE guardados

(* The thread is in f_send or f_sendattach, with one message. *)
HasOne(w) == At(w, "store") \/ (At(w, "reply") /\ hilo[w].code = 0 /\ IsSend(Req(w)))

CarriesMail(w) ==
  /\ HasOne(w) => Carried(w) = {InHand(w)}
  /\ At(w, "store") => InHand(w) \in prometidos
  /\ hilo[w].pc \in Delivering => Carried(w) \subseteq Deliverable

QueuedMail == \A c \in Client : \A i \in DOMAIN backlog[c] : backlog[c][i].mail \in prometidos

MailInv ==
  /\ guardados \subseteq prometidos
  /\ \A u \in User : Mailbox(u) \subseteq guardados
  /\ \A w \in Worker : CarriesMail(w)
  /\ QueuedMail

-----------------------------------------------------------------------------
(* The mailboxes, step by step. *)

(* db_store_message adds the message in hand to its receiver's mailbox, or *)
(* its open failed.                                                        *)
LEMMA StoreMailbox ==
  ASSUME ServiceInv, NEW w \in Worker, Store(w)
  PROVE  \/ OpenMayFail /\ UNCHANGED <<mensajes, guardados>>
         \/ /\ guardados' = guardados \cup {InHand(w)}
            /\ \A u \in User :
                 Mailbox(u)' = IF u = Receiver(w) THEN Mailbox(u) \cup {InHand(w)}
                                                  ELSE Mailbox(u)
<1> DEFINE r == Req(w).dest
           f == mensajes[r]
           g == Appended(f, Current(w))
<1>1. hilo[w].pc = "store" /\ UsesMessage(hilo[w]) /\ GoodThread(hilo[w], msgs[w])
  BY DEF Store, At, UsesMessage, ServiceInv, ThreadInv
<1>2. IsSend(Req(w)) /\ r \in User /\ Current(w) \in PendingMsg
  BY <1>1, ThreadFacts DEF GoodThread, Fits, Req, ServiceInv
<1>3. Receiver(w) = r
  BY <1>2 DEF Receiver, IsSend
<1>4. PICK b \in Nat : Within(f, b)
  BY <1>2 DEF ServiceInv, DbInv
<1>5. IsFile(f) /\ DOMAIN mensajes = User
  BY <1>2 DEF ServiceInv, DbInv, DbTypeOK
<1>6. /\ DOMAIN g = DOMAIN f \cup {NextSlot(f)}
      /\ g[NextSlot(f)] = Current(w)
      /\ \A i \in DOMAIN f : g[i] = f[i]
  BY <1>2, <1>4, <1>5, AppendedIsFile
<1>7. \/ OpenMayFail /\ UNCHANGED <<mensajes, guardados>>
      \/ mensajes' = [mensajes EXCEPT ![r] = g] /\ guardados' = guardados \cup {InHand(w)}
  BY DEF Store, db_store_message, OpenFails, dbVars
<1> HIDE DEF g
<1>8. ASSUME mensajes' = [mensajes EXCEPT ![r] = g], NEW u \in User
      PROVE  Mailbox(u)' = IF u = r THEN Mailbox(u) \cup {InHand(w)} ELSE Mailbox(u)
  <2>1. CASE u = r
    <3>1. mensajes'[u] = g
      BY <1>2, <1>5, <1>8, <2>1
    <3>2. Mailbox(u)' = {[dest |-> u, msg |-> g[i]] : i \in DOMAIN g}
      BY <3>1 DEF Mailbox
    <3>3. InHand(w) = [dest |-> u, msg |-> g[NextSlot(f)]]
      BY <1>3, <1>6, <2>1 DEF InHand
    <3> QED
      BY <1>6, <2>1, <3>2, <3>3 DEF Mailbox
  <2>2. CASE u # r
    <3>1. mensajes'[u] = mensajes[u]
      BY <1>5, <1>8, <2>2
    <3> QED
      BY <2>2, <3>1 DEF Mailbox
  <2> QED
    BY <2>1, <2>2
<1> QED
  BY <1>3, <1>7, <1>8

(* db_delete_message takes out what has the number of the message in hand, *)
(* unless an open failed: then all of the mailbox goes, or nothing.        *)
LEMMA DeleteMailbox ==
  ASSUME ServiceInv, NEW w \in Worker, Delete(w)
  PROVE  \/ OpenMayFail /\ UNCHANGED mensajes
         \/ \A u \in User :
              Mailbox(u)' = IF u = Receiver(w)
                            THEN {x \in Mailbox(u) : x.msg.id # Current(w).id}
                            ELSE Mailbox(u)
         \/ /\ OpenMayFail
            /\ \A u \in User : Mailbox(u)' = IF u = Receiver(w) THEN {} ELSE Mailbox(u)
<1> DEFINE r == Receiver(w)
           f == mensajes[r]
           kept == {i \in DOMAIN f : f[i].id # Current(w).id}
<1>1. r \in User
  BY DeliveringFacts DEF Delete, At, Delivering
<1>2. DOMAIN mensajes = User /\ IsFile(f)
  BY <1>1 DEF ServiceInv, DbInv, DbTypeOK
<1>3. ASSUME NEW g, mensajes' = [mensajes EXCEPT ![r] = g], NEW u \in User
      PROVE  Mailbox(u)' = IF u = r THEN {[dest |-> u, msg |-> g[i]] : i \in DOMAIN g}
                                    ELSE Mailbox(u)
  <2>1. mensajes'[u] = IF u = r THEN g ELSE mensajes[u]
    BY <1>2, <1>3
  <2> QED
    BY <2>1 DEF Mailbox
<1>4. CASE mensajes' = [mensajes EXCEPT ![r] = Restrict(f, kept)]
  <2> DEFINE g == Restrict(f, kept)
  <2>1. DOMAIN g = kept /\ \A i \in kept : g[i] = f[i]
    BY <1>2, RestrictIsFile
  <2>2. {[dest |-> r, msg |-> g[i]] : i \in DOMAIN g}
          = {x \in Mailbox(r) : x.msg.id # Current(w).id}
    <3> HIDE DEF g
    <3> QED
      BY <2>1 DEF Mailbox
  <2>3. mensajes' = [mensajes EXCEPT ![r] = g]
    BY <1>4
  <2> HIDE DEF g, kept
  <2>4. ASSUME NEW u \in User
        PROVE  Mailbox(u)' = IF u = r THEN {x \in Mailbox(u) : x.msg.id # Current(w).id}
                                      ELSE Mailbox(u)
    <3>1. Mailbox(u)' = IF u = r THEN {[dest |-> u, msg |-> g[i]] : i \in DOMAIN g}
                                 ELSE Mailbox(u)
      BY <1>3, <2>3
    <3>2. CASE u = r
      BY <2>2, <3>1, <3>2
    <3>3. CASE u # r
      BY <3>1, <3>3
    <3> QED
      BY <3>2, <3>3
  <2> QED
    BY <2>4
<1>5. CASE OpenMayFail /\ mensajes' = [mensajes EXCEPT ![r] = EmptyFile]
  <2>1. \A u \in User : {[dest |-> u, msg |-> EmptyFile[i]] : i \in DOMAIN EmptyFile} = {}
    BY EmptyIsFile
  <2> QED
    BY <1>3, <1>5, <2>1
<1> QED
  BY <1>4, <1>5 DEF Delete, db_delete_message

(* db_unregister removes a user and its mailbox, or nothing. *)
LEMMA UnregisterMailbox ==
  ASSUME ServiceInv, NEW w \in Worker, f_unregister(w)
  PROVE  \/ UNCHANGED usuarios /\ UNCHANGED mensajes
         \/ /\ Exists(Req(w).user)
            /\ DOMAIN usuarios' = DOMAIN usuarios \ {Req(w).user}
            /\ \A u \in User : Mailbox(u)' = IF u = Req(w).user THEN {} ELSE Mailbox(u)
<1>1. \/ UNCHANGED usuarios /\ UNCHANGED mensajes
      \/ /\ Exists(Req(w).user)
         /\ DOMAIN usuarios' = DOMAIN usuarios \ {Req(w).user}
         /\ mensajes' = [mensajes EXCEPT ![Req(w).user] = EmptyFile]
  BY DEF f_unregister, db_unregister, OpenFails, dbVars, Restrict
<1>2. ASSUME mensajes' = [mensajes EXCEPT ![Req(w).user] = EmptyFile], NEW u \in User
      PROVE  Mailbox(u)' = IF u = Req(w).user THEN {} ELSE Mailbox(u)
  <2>1. mensajes'[u] = IF u = Req(w).user THEN EmptyFile ELSE mensajes[u]
    BY <1>2 DEF ServiceInv, DbInv, DbTypeOK
  <2> QED
    BY <2>1, EmptyIsFile DEF Mailbox
<1> QED
  BY <1>1, <1>2

LEMMA SameMailbox == ASSUME UNCHANGED mensajes PROVE \A u \in User : Mailbox(u)' = Mailbox(u)
BY DEF Mailbox

(* Whatever thread w does, nothing that is not stored is in a mailbox. *)
LEMMA MailboxesAreStored ==
  ASSUME ServiceInv, MailInv, NEW w \in Worker, tratar_peticion(w) \/ WorkerStep(w),
         NEW u \in User
  PROVE  Mailbox(u)' \subseteq guardados'
<1>1. Mailbox(u) \subseteq guardados /\ guardados \subseteq guardados'
  BY WorkerHistory DEF MailInv
<1>2. CASE Store(w)
  BY <1>1, <1>2, StoreMailbox, SameMailbox
<1>3. CASE Delete(w)
  BY <1>1, <1>3, DeleteMailbox, SameMailbox
<1>4. CASE f_unregister(w)
  BY <1>1, <1>4, UnregisterMailbox, SameMailbox
<1>5. CASE ~Store(w) /\ ~Delete(w) /\ ~f_unregister(w)
  BY <1>1, <1>5, MailboxSteps, SameMailbox
<1> QED
  BY <1>2, <1>3, <1>4, <1>5

-----------------------------------------------------------------------------
(* The arrays, step by step. *)

LEMMA SameCarried ==
  ASSUME NEW v, hilo'[v].req = hilo[v].req, msgs'[v] = msgs[v]
  PROVE  Carried(v)' = Carried(v)
BY DEF Carried, Receiver, Req

LEMMA GotoCarries ==
  ASSUME ThreadInv, NEW w \in Worker, NEW step, Goto(w, step)
  PROVE  hilo'[w].pc = step /\ Carried(w)' = Carried(w) /\ InHand(w)' = InHand(w)
<1>1. hilo[w] \in Thread
  BY DEF ThreadInv, GoodThread
<1>2. hilo'[w].pc = step /\ hilo'[w].req = hilo[w].req /\ msgs'[w] = msgs[w]
  BY <1>1 DEF Goto, ThreadInv, Thread
<1> QED
  BY <1>2, SameCarried, SameInHand

(* The next message of the array, or none: nothing is added. *)
LEMMA AdvanceCarries ==
  ASSUME ThreadInv, NEW w \in Worker, Advance(w)
  PROVE  \/ hilo'[w].pc = "idle"
         \/ hilo'[w].pc = "deliver" /\ Carried(w)' \subseteq Carried(w)
<1> DEFINE kept == DOMAIN msgs[w] \ {First(msgs[w])}
           rest == Restrict(msgs[w], kept)
<1>1. CASE Return(w)
  BY <1>1, ReturnMoves
<1>2. CASE /\ hilo' = [hilo EXCEPT ![w].pc = "deliver", ![w].src = NoAddr]
           /\ msgs' = [msgs EXCEPT ![w] = rest]
  <2>1. hilo[w] \in Thread /\ IsFile(msgs[w])
    BY DEF ThreadInv, GoodThread
  <2>2. DOMAIN rest = kept /\ \A i \in kept : rest[i] = msgs[w][i]
    BY <2>1, RestrictIsFile
  <2> HIDE DEF rest
  <2>3. hilo'[w].pc = "deliver" /\ hilo'[w].req = hilo[w].req /\ msgs'[w] = rest
    BY <1>2, <2>1 DEF ThreadInv, Thread
  <2>4. Receiver(w)' = Receiver(w)
    BY <2>3 DEF Receiver, Req
  <2>5. Carried(w)' = {[dest |-> Receiver(w), msg |-> rest[i]] : i \in DOMAIN rest}
    BY <2>3, <2>4 DEF Carried
  <2> QED
    BY <2>2, <2>3, <2>5 DEF Carried
<1> QED
  BY <1>1, <1>2 DEF Advance

(* A thread that answers has no message, unless it has refused to send. *)
LEMMA AnswerHasNone ==
  ASSUME ThreadInv, NEW w \in Worker, hilo[w].pc # "idle", NEW res \in -1..3,
         Answer(w, res), IsSend(Req(w)) => res # 0
  PROVE  hilo'[w].pc = "reply" /\ ~HasOne(w)'
<1>1. hilo[w] \in Thread
  BY DEF ThreadInv, GoodThread
<1>2. hilo'[w].pc = "reply" /\ hilo'[w].code = res /\ hilo'[w].req = hilo[w].req
  BY <1>1 DEF Answer, ThreadInv, Thread
<1> QED
  BY <1>2 DEF HasOne, At, Req

(* Prepare takes a number and makes an array of one message of it. *)
LEMMA PrepareCarries ==
  ASSUME ServiceInv, NEW w \in Worker, Prepare(w)
  PROVE  hilo'[w].pc = "reply" /\ (HasOne(w)' => Carried(w)' = {InHand(w)'})
<1>1. ThreadInv /\ hilo[w] \in Thread /\ hilo[w].pc # "idle"
  BY DEF ServiceInv, ThreadInv, GoodThread, Prepare, At
<1>2. ASSUME NEW res \in 0..2, res # 0, Answer(w, res)
      PROVE  hilo'[w].pc = "reply" /\ ~HasOne(w)'
  BY <1>1, <1>2, AnswerHasNone
<1>3. ASSUME NEW d, NEW m,
             hilo' = [hilo EXCEPT ![w].pc = "reply", ![w].code = 0, ![w].dest = d],
             msgs' = [msgs EXCEPT ![w] = [i \in {1} |-> m]]
      PROVE  hilo'[w].pc = "reply" /\ Carried(w)' = {InHand(w)'}
  <2> DEFINE f == [i \in {1} |-> m]
  <2>1. hilo'[w].pc = "reply" /\ msgs'[w] = f
    BY <1>1, <1>3 DEF ThreadInv, Thread
  <2>2. DOMAIN f = {1} /\ f[1] = m
    OBVIOUS
  <2>3. First(f) = 1
    <3>1. {1} \in SUBSET Nat /\ {1} # {}
      OBVIOUS
    <3>2. Min({1}) \in {1}
      BY <3>1, MinOfNaturals
    <3> HIDE DEF f
    <3> QED
      BY <2>2, <3>2 DEF First
  <2> HIDE DEF f
  <2>4. /\ Carried(w)' = {[dest |-> Receiver(w)', msg |-> f[i]] : i \in DOMAIN f}
        /\ InHand(w)' = [dest |-> Receiver(w)', msg |-> f[First(f)]]
    BY <2>1 DEF Carried, InHand, Current
  <2> QED
    BY <2>1, <2>2, <2>3, <2>4
<1>4. \/ \E res \in 0..2 : res # 0 /\ Answer(w, res)
      \/ \E d, m :
           /\ hilo' = [hilo EXCEPT ![w].pc = "reply", ![w].code = 0, ![w].dest = d]
           /\ msgs' = [msgs EXCEPT ![w] = [i \in {1} |-> m]]
  BY DEF Prepare
<1>5. CASE \E res \in 0..2 : res # 0 /\ Answer(w, res)
  BY <1>2, <1>5
<1>6. ASSUME NEW d, NEW m,
             hilo' = [hilo EXCEPT ![w].pc = "reply", ![w].code = 0, ![w].dest = d],
             msgs' = [msgs EXCEPT ![w] = [i \in {1} |-> m]]
      PROVE  hilo'[w].pc = "reply" /\ (HasOne(w)' => Carried(w)' = {InHand(w)'})
  BY <1>3, <1>6
<1> QED
  BY <1>4, <1>5, <1>6

(* Pending takes what the mailbox of the user that connects holds. *)
LEMMA PendingCarries ==
  ASSUME ServiceInv, NEW w \in Worker, Pending(w)
  PROVE  \/ hilo'[w].pc = "idle"
         \/ /\ hilo'[w].pc = "deliver"
            /\ \E u \in User : Carried(w)' \subseteq Mailbox(u)
<1>1. ThreadInv /\ hilo[w] \in Thread /\ hilo[w].pc = "pending"
  BY DEF ServiceInv, ThreadInv, GoodThread, Pending, At
<1> DEFINE u == Req(w).user
<1>2. u \in User /\ Req(w).op = "CONNECT"
  BY <1>1, ThreadFacts DEF ThreadInv, GoodThread, Fits, Req
<1>3. ASSUME NEW m \in {mensajes[u], EmptyFile}, DOMAIN m # {},
             hilo' = [hilo EXCEPT ![w].pc = "deliver"],
             msgs' = [msgs EXCEPT ![w] = m]
      PROVE  hilo'[w].pc = "deliver" /\ Carried(w)' \subseteq Mailbox(u)
  <2>1. m = mensajes[u]
    BY <1>3, EmptyIsFile
  <2>2. hilo'[w].pc = "deliver" /\ hilo'[w].req = hilo[w].req /\ msgs'[w] = mensajes[u]
    BY <1>1, <1>3, <2>1 DEF ThreadInv, Thread
  <2>3. Receiver(w)' = u
    BY <1>2, <2>2 DEF Receiver, Req
  <2> QED
    BY <2>2, <2>3 DEF Carried, Mailbox
<1> QED
  BY <1>1, <1>2, <1>3, ReturnMoves DEF Pending

(* A thread that is not in a delivery or about to be has nothing to say.  *)
LEMMA NothingCarried ==
  ASSUME NEW w, hilo'[w].pc \in Steps \ ({"store", "reply"} \cup Delivering)
                \/ (hilo'[w].pc = "reply" /\ ~HasOne(w)')
  PROVE  CarriesMail(w)'
BY DEF CarriesMail, HasOne, At, Delivering

(* A step inside a delivery that leaves the array alone or shortens it. *)
LEMMA StillCarries ==
  ASSUME NEW w \in Worker, CarriesMail(w), hilo[w].pc \in Delivering,
         hilo'[w].pc \in Delivering, Carried(w)' \subseteq Carried(w),
         Deliverable \subseteq Deliverable'
  PROVE  CarriesMail(w)'
BY DEF CarriesMail, HasOne, At, Delivering

LEMMA HistoryGrows ==
  ASSUME NEW w \in Worker, tratar_peticion(w) \/ WorkerStep(w)
  PROVE  /\ prometidos \subseteq prometidos'
         /\ guardados \subseteq guardados'
         /\ Deliverable \subseteq Deliverable'
<1>1. prometidos \subseteq prometidos' /\ guardados \subseteq guardados'
  BY WorkerHistory DEF ReplyAccepted
<1> QED
  BY <1>1 DEF Deliverable

LEMMA WorkerCarries ==
  ASSUME ServiceInv, MailInv, NEW w \in Worker, tratar_peticion(w) \/ WorkerStep(w)
  PROVE  CarriesMail(w)'
<1>1. /\ ThreadInv /\ hilo[w] \in Thread /\ CarriesMail(w)
      /\ hilo[w].pc # "idle" => hilo[w].req \in Request
  BY DEF ServiceInv, ThreadInv, GoodThread, MailInv
<1>2. /\ prometidos \subseteq prometidos' /\ guardados \subseteq guardados'
      /\ Deliverable \subseteq Deliverable'
  BY HistoryGrows
<1>3. CASE tratar_peticion(w)
  <2>1. PICK c \in Client :
          /\ conn[c].state = "sent"
          /\ hilo' = [hilo EXCEPT ![w] = [IdleThread EXCEPT
               !.pc = FirstStep(conn[c].req.op), !.client = c, !.req = conn[c].req]]
    BY <1>3 DEF tratar_peticion
  <2>2. conn[c].req.op \in Ops
    BY <2>1 DEF ServiceInv, ConnInv, NetTypeOK, Request
  <2>3. hilo'[w].pc = FirstStep(conn[c].req.op)
    BY <1>1, <2>1, IdleIsGood DEF ThreadInv, GoodThread, Thread
  <2>4. FirstStep(conn[c].req.op) \in Steps \ ({"store", "reply"} \cup Delivering)
    BY <2>2 DEF FirstStep, Ops, Steps, Delivering
  <2> QED
    BY <2>3, <2>4, NothingCarried
<1>4. CASE \/ f_register(w) \/ f_unregister(w) \/ PeerUnknown(w) \/ f_disconnect(w)
           \/ DisconnectInfo(w)
  <2>1. hilo[w].pc \in {"register", "unregister", "connect", "info", "disconnect"}
    BY <1>4 DEF f_register, f_unregister, PeerUnknown, f_disconnect, DisconnectInfo, At
  <2>2. ~IsSend(Req(w))
    BY <1>1, <2>1, NotASend
  <2>3. (\E res \in -1..3 : Answer(w, res)) \/ Goto(w, "disconnect")
    BY <1>4 DEF f_register, f_unregister, PeerUnknown, f_disconnect, DisconnectInfo
  <2>4. CASE \E res \in -1..3 : Answer(w, res)
    BY <1>1, <2>1, <2>2, <2>4, AnswerHasNone, NothingCarried
  <2>5. CASE Goto(w, "disconnect")
    <3>1. "disconnect" \in Steps \ ({"store", "reply"} \cup Delivering)
      BY DEF Steps, Delivering
    <3> QED
      BY <1>1, <2>5, <3>1, GotoCarries, NothingCarried
  <2> QED
    BY <2>3, <2>4, <2>5
<1>5. CASE f_connect(w)
  <2>1. ~IsSend(Req(w))
    BY <1>1, <1>5, NotASend DEF f_connect, At
  <2>2. hilo'[w].pc = "reply" /\ hilo'[w].req = hilo[w].req
    BY <1>1, <1>5 DEF f_connect, ThreadInv, Thread
  <2>3. ~HasOne(w)'
    BY <2>1, <2>2 DEF HasOne, At, Req
  <2> QED
    BY <2>2, <2>3, NothingCarried
<1>6. CASE Prepare(w)
  <2>1. hilo'[w].pc = "reply" /\ (HasOne(w)' => Carried(w)' = {InHand(w)'})
    BY <1>6, PrepareCarries
  <2> QED
    BY <2>1 DEF CarriesMail, At, Delivering
<1>7. CASE hilo'[w].pc = "idle"
  BY <1>7, NothingCarried DEF Steps, Delivering
<1>8. CASE ReplyConnected(w)
  <2>1. hilo'[w].pc = "pending"
    BY <1>1, <1>8, GotoCarries DEF ReplyConnected
  <2> QED
    BY <2>1, NothingCarried DEF Steps, Delivering
<1>9. CASE ReplyAccepted(w)
  <2>1. HasOne(w) /\ Goto(w, "store") /\ prometidos' = prometidos \cup {InHand(w)}
    BY <1>9 DEF ReplyAccepted, HasOne
  <2>2. hilo'[w].pc = "store" /\ Carried(w)' = Carried(w) /\ InHand(w)' = InHand(w)
    BY <1>1, <2>1, GotoCarries
  <2> QED
    BY <1>1, <2>1, <2>2 DEF CarriesMail, At, Delivering
<1>10. CASE Store(w) /\ Goto(w, "deliver")
  <2>1. HasOne(w) /\ At(w, "store")
    BY <1>10 DEF Store, HasOne
  <2>2. hilo'[w].pc = "deliver" /\ Carried(w)' = {InHand(w)}
    BY <1>1, <1>10, <2>1, GotoCarries DEF CarriesMail
  <2>3. InHand(w) \in Deliverable'
    BY <1>1, <1>2, <1>10, <2>1, StoreMailbox DEF CarriesMail, Deliverable
  <2> QED
    BY <2>2, <2>3 DEF CarriesMail, HasOne, At, Delivering
<1>11. CASE Pending(w) /\ hilo'[w].pc # "idle"
  <2>1. PICK u \in User : hilo'[w].pc = "deliver" /\ Carried(w)' \subseteq Mailbox(u)
    BY <1>11, PendingCarries
  <2>2. Carried(w)' \subseteq Deliverable'
    BY <1>2, <2>1 DEF MailInv, Deliverable
  <2> QED
    BY <2>1, <2>2 DEF CarriesMail, HasOne, At, Delivering
<1>12. CASE DeliverMessage(w) \/ DeliverFails(w) \/ Delete(w) \/ AckFails(w)
  <2>1. /\ hilo[w].pc \in Delivering
        /\ \E step \in Delivering : Goto(w, step)
    BY <1>12 DEF DeliverMessage, DeliverFails, Delete, AckFails, At, Delivering
  <2> QED
    BY <1>1, <1>2, <2>1, GotoCarries, StillCarries
<1>13. CASE AckInfo(w) \/ Ack(w) \/ DropSender(w)
  <2>1. hilo[w].pc \in Delivering
    BY <1>13 DEF AckInfo, Ack, DropSender, At, Delivering
  <2>2. CASE Advance(w)
    <3>1. \/ hilo'[w].pc = "idle"
          \/ hilo'[w].pc = "deliver" /\ Carried(w)' \subseteq Carried(w)
      BY <1>1, <2>2, AdvanceCarries
    <3> QED
      BY <1>1, <1>2, <1>7, <2>1, <3>1, StillCarries DEF Delivering
  <2>3. ASSUME NEW a, hilo' = [hilo EXCEPT ![w].pc = "ack", ![w].src = a], UNCHANGED msgs
        PROVE  CarriesMail(w)'
    <3>1. hilo'[w].pc = "ack" /\ hilo'[w].req = hilo[w].req /\ msgs'[w] = msgs[w]
      BY <1>1, <2>3 DEF ThreadInv, Thread
    <3>2. hilo'[w].pc \in Delivering /\ Carried(w)' = Carried(w)
      BY <3>1, SameCarried DEF Delivering
    <3> QED
      BY <1>1, <1>2, <2>1, <3>2, StillCarries
  <2> QED
    BY <1>13, <2>2, <2>3 DEF AckInfo, Ack, DropSender
<1>14. CASE Return(w)
  BY <1>1, <1>7, <1>14, ReturnMoves
<1>15. \/ Return(w)
       \/ hilo'[w].pc = "idle"
       \/ tratar_peticion(w) \/ f_register(w) \/ f_unregister(w) \/ PeerUnknown(w)
       \/ f_connect(w) \/ DisconnectInfo(w) \/ f_disconnect(w) \/ Prepare(w)
       \/ ReplyConnected(w) \/ ReplyAccepted(w) \/ (Store(w) /\ Goto(w, "deliver"))
       \/ Pending(w) \/ DeliverMessage(w) \/ DeliverFails(w) \/ Delete(w)
       \/ AckInfo(w) \/ Ack(w) \/ AckFails(w) \/ DropSender(w)
  BY DEF WorkerStep, ReplyAndReturn, Store, DropReceiver
<1> QED
  BY <1>3, <1>4, <1>5, <1>6, <1>7, <1>8, <1>9, <1>10, <1>11, <1>12, <1>13, <1>14, <1>15

-----------------------------------------------------------------------------
(* No mail is forged. *)

(* The queues get mail in hand in a delivery: of what was accepted. *)
LEMMA WorkerQueues ==
  ASSUME ServiceInv, MailInv, NEW w \in Worker, tratar_peticion(w) \/ WorkerStep(w)
  PROVE  QueuedMail'
<1>1. prometidos \subseteq prometidos'
  BY HistoryGrows
<1>2. CASE UNCHANGED backlog
  BY <1>1, <1>2 DEF MailInv, QueuedMail
<1>3. ASSUME hilo[w].pc \in Delivering \ {"drop_dest"}
      PROVE  InHand(w) \in Deliverable /\ InHand(w) \in prometidos
  <2>1. UsesMessage(hilo[w]) /\ hilo[w].pc # "idle"
    BY <1>3 DEF UsesMessage, Delivering
  <2>2. First(msgs[w]) \in DOMAIN msgs[w]
    BY <2>1, ThreadFacts DEF ServiceInv
  <2>3. InHand(w) \in Carried(w)
    BY <2>2 DEF InHand, Current, Carried
  <2> QED
    BY <1>3, <2>3 DEF MailInv, CarriesMail, Deliverable
<1>4. ASSUME NEW addr, NEW p, Deliver(addr, p), p \in Push, p.mail \in prometidos
      PROVE  QueuedMail'
  BY <1>1, <1>4, DeliverAppends DEF MailInv, QueuedMail, ServiceInv, ConnInv
<1>5. CASE DeliverMessage(w)
  <2> DEFINE p == [kind |-> "MESSAGE", for |-> Receiver(w), mail |-> InHand(w)]
  <2>1. hilo[w].pc = "deliver" /\ Deliver(hilo[w].dest, p)
    BY <1>5 DEF DeliverMessage, At
  <2>2. p \in Push /\ p.mail = InHand(w)
    BY <2>1, DeliveringFacts DEF Delivering, Push
  <2>3. InHand(w) \in prometidos
    BY <1>3, <2>1 DEF Delivering
  <2> HIDE DEF p
  <2> QED
    BY <1>4, <2>1, <2>2, <2>3
<1>6. CASE Ack(w)
  <2> DEFINE p == [kind |-> "ACK", for |-> Current(w).sender, mail |-> InHand(w)]
  <2>1. hilo[w].pc = "ack" /\ Deliver(hilo[w].src, p)
    BY <1>6 DEF Ack, At
  <2>2. p \in Push /\ p.mail = InHand(w)
    BY <2>1, DeliveringFacts DEF Delivering, Push
  <2>3. InHand(w) \in prometidos
    BY <1>3, <2>1 DEF Delivering
  <2> HIDE DEF p
  <2> QED
    BY <1>4, <2>1, <2>2, <2>3
<1>7. UNCHANGED backlog \/ DeliverMessage(w) \/ Ack(w)
  BY DEF tratar_peticion, WorkerStep, f_register, f_unregister, PeerUnknown, f_connect,
         DisconnectInfo, f_disconnect, Prepare, ReplyAndReturn, ReplyConnected, ReplyAccepted,
         SendCode, Store, Pending, DeliverFails, DropReceiver, Delete, AckInfo, AckFails,
         DropSender, netVars
<1> QED
  BY <1>2, <1>5, <1>6, <1>7

LEMMA StoredWasPromised ==
  ASSUME MailInv, NEW w \in Worker, tratar_peticion(w) \/ WorkerStep(w)
  PROVE  guardados' \subseteq prometidos'
<1>1. prometidos \subseteq prometidos' /\ guardados \subseteq prometidos
  BY HistoryGrows DEF MailInv
<1>2. CASE Store(w)
  <2>1. InHand(w) \in prometidos
    BY <1>2 DEF MailInv, CarriesMail, Store
  <2>2. guardados' \subseteq guardados \cup {InHand(w)}
    BY <1>2 DEF Store
  <2> QED
    BY <1>1, <2>1, <2>2
<1>3. CASE UNCHANGED guardados
  BY <1>1, <1>3
<1> QED
  BY <1>2, <1>3, WorkerHistory

(* What a thread carries when neither it nor the history changes. *)
LEMMA CarriesStays ==
  ASSUME NEW v \in Worker, CarriesMail(v), hilo'[v] = hilo[v], msgs'[v] = msgs[v],
         prometidos \subseteq prometidos', Deliverable \subseteq Deliverable'
  PROVE  CarriesMail(v)'
<1>1. Carried(v)' = Carried(v) /\ InHand(v)' = InHand(v)
  BY SameCarried, SameInHand
<1> QED
  BY <1>1 DEF CarriesMail, HasOne, At, Req

LEMMA MailInvWorker ==
  ASSUME ServiceInv, MailInv, NEW w \in Worker, tratar_peticion(w) \/ WorkerStep(w)
  PROVE  MailInv'
<1>1. ASSUME NEW v \in Worker PROVE CarriesMail(v)'
  <2>1. CASE v = w
    BY <2>1, WorkerCarries
  <2>2. CASE v # w
    <3>1. hilo'[v] = hilo[v] /\ msgs'[v] = msgs[v]
      BY <2>2, WorkerMoves DEF OthersStay
    <3> QED
      BY <3>1, HistoryGrows, CarriesStays DEF MailInv
  <2> QED
    BY <2>1, <2>2
<1>2. ASSUME NEW u \in User PROVE Mailbox(u)' \subseteq guardados'
  BY MailboxesAreStored
<1> QED
  BY <1>1, <1>2, WorkerQueues, StoredWasPromised DEF MailInv

LEMMA MailInvNext == IInv /\ MailInv /\ [Next]_vars => MailInv'
<1> SUFFICES ASSUME IInv, MailInv, [Next]_vars PROVE MailInv'
  OBVIOUS
<1>1. ASSUME NEW w \in Worker, ServerNext(w) PROVE MailInv'
  BY <1>1, MailInvWorker DEF ServerNext, IInv
<1>2. ASSUME UNCHANGED <<mensajes, prometidos, guardados>>
      PROVE  /\ guardados' \subseteq prometidos'
             /\ \A u \in User : Mailbox(u)' \subseteq guardados'
             /\ UNCHANGED Deliverable
  BY <1>2, SameMailbox DEF MailInv, Deliverable
<1>3. ASSUME UNCHANGED serverVars PROVE \A v \in Worker : CarriesMail(v)'
  <2>1. UNCHANGED <<hilo, msgs, mensajes, prometidos, guardados>>
    BY <1>3 DEF serverVars, hilosVars, historyVars, dbVars
  <2> QED
    BY <1>2, <2>1, CarriesStays DEF MailInv
<1>4. ASSUME NEW c \in Client, ClientNext(c) PROVE MailInv'
  <2>1. UNCHANGED serverVars /\ UNCHANGED <<mensajes, prometidos, guardados>>
    BY <1>4 DEF ClientNext, serverVars, dbVars, historyVars
  <2>2. QueuedMail'
    <3> SUFFICES ASSUME NEW d \in Client, NEW i \in DOMAIN backlog'[d]
                 PROVE  backlog'[d][i].mail \in prometidos'
      BY DEF QueuedMail
    <3>1. PICK j \in DOMAIN backlog[d] : backlog'[d][i] = backlog[d][j]
      BY <1>4, ClientQueues
    <3> QED
      BY <2>1, <3>1 DEF MailInv, QueuedMail
  <2> QED
    BY <1>2, <1>3, <2>1, <2>2 DEF MailInv
<1>5. CASE ServerCrash
  <2>1. UNCHANGED <<mensajes, prometidos, guardados, backlog>>
    BY <1>5 DEF ServerCrash, dbVars, historyVars
  <2>2. \A v \in Worker : hilo'[v].pc = "idle"
    BY <1>5 DEF ServerCrash, IdleThread
  <2>3. \A v \in Worker : CarriesMail(v)'
    BY <2>2 DEF CarriesMail, HasOne, At, Delivering
  <2> QED
    BY <1>2, <2>1, <2>3 DEF MailInv, QueuedMail
<1>6. CASE UNCHANGED vars
  <2>1. UNCHANGED serverVars /\ UNCHANGED <<mensajes, prometidos, guardados, backlog>>
    BY <1>6 DEF vars, serverVars, dbVars, historyVars, netVars
  <2> QED
    BY <1>2, <1>3, <2>1 DEF MailInv, QueuedMail
<1> QED
  BY <1>1, <1>4, <1>5, <1>6 DEF Next

LEMMA MailInvInit == Init => MailInv
<1> SUFFICES ASSUME Init PROVE MailInv
  OBVIOUS
<1>1. \A u \in User : Mailbox(u) = {}
  BY EmptyIsFile DEF Init, DbInit, Mailbox
<1>2. \A w \in Worker : CarriesMail(w)
  BY DEF Init, ServerInit, IdleThread, CarriesMail, HasOne, At, Delivering
<1>3. QueuedMail
  BY DEF Init, NetInit, QueuedMail
<1>4. guardados = {}
  BY DEF Init, ServerInit
<1> QED
  BY <1>1, <1>2, <1>3, <1>4 DEF MailInv

-----------------------------------------------------------------------------
(* The addresses.  NotForged needs more than what is in the queues: that   *)
(* the file and the threads have for a user only addresses at which that   *)
(* user was connected.                                                     *)

Known(u, a)     == [user |-> u, addr |-> a] \in direcciones
KnownNext(u, a) == [user |-> u, addr |-> a] \in direcciones'

(* Where thread w is to push a message, and where a confirmation. *)
AimsWell(w) ==
  /\ \/ hilo[w].dest = NoAddr
     \/ hilo[w].pc = "reply" /\ hilo[w].code # 0
     \/ Known(Receiver(w), hilo[w].dest)
  /\ hilo[w].pc = "ack" => Known(Current(w).sender, hilo[w].src)

LinesKnown  == \A u \in DOMAIN usuarios :
                 usuarios[u].connected = 1 => Known(u, usuarios[u].addr)
QueuesKnown == \A c \in Client : \A i \in DOMAIN backlog[c] :
                 Known(Meant(backlog[c][i]), listening[c])

AddressInv == LinesKnown /\ QueuesKnown /\ \A w \in Worker : AimsWell(w)

LEMMA AddressesGrow ==
  ASSUME NEW w \in Worker, tratar_peticion(w) \/ WorkerStep(w)
  PROVE  direcciones \subseteq direcciones' /\ (f_connect(w) \/ UNCHANGED direcciones)
<1>1. CASE f_connect(w)
  BY <1>1 DEF f_connect
<1>2. CASE ~f_connect(w)
  BY <1>2 DEF tratar_peticion, WorkerStep, f_register, f_unregister, PeerUnknown,
       DisconnectInfo, f_disconnect, Prepare, ReplyAndReturn, ReplyConnected, ReplyAccepted,
       SendCode, Store, Pending, DeliverMessage, DeliverFails, DropReceiver, Delete, AckInfo,
       Ack, AckFails, DropSender, historyVars
<1> QED
  BY <1>1, <1>2

(* Rewriting a line gives no other user another address. *)
LEMMA RewriteKnown ==
  ASSUME LinesKnown, direcciones \subseteq direcciones', NEW u, Exists(u), NEW l,
         Rewrite(u, l), l.connected = 1 => KnownNext(u, l.addr)
  PROVE  LinesKnown'
<1> SUFFICES ASSUME NEW v \in DOMAIN usuarios', usuarios'[v].connected = 1
             PROVE  KnownNext(v, usuarios'[v].addr)
  BY DEF LinesKnown, Known, KnownNext
<1>1. CASE v = u
  <2>1. usuarios'[v] = l
    BY <1>1 DEF Rewrite, Exists
  <2> QED
    BY <1>1, <2>1
<1>2. CASE v # u
  <2>1. v \in DOMAIN usuarios /\ usuarios'[v] = usuarios[v]
    BY <1>2 DEF Rewrite
  <2> QED
    BY <2>1 DEF LinesKnown, Known, KnownNext
<1> QED
  BY <1>1, <1>2

LEMMA DisconnectKnown ==
  ASSUME LinesKnown, direcciones \subseteq direcciones', NEW u, NEW res, db_disconnect(u, res)
  PROVE  LinesKnown'
<1>1. CASE UNCHANGED dbVars
  BY <1>1 DEF dbVars, LinesKnown, Known
<1>2. CASE Exists(u) /\ Rewrite(u, [NewLine EXCEPT !.last_id = usuarios[u].last_id])
  <2> DEFINE l == [NewLine EXCEPT !.last_id = usuarios[u].last_id]
  <2>1. Exists(u) /\ Rewrite(u, l) /\ l.connected = 0
    BY <1>2 DEF NewLine
  <2> HIDE DEF l
  <2> QED
    BY <2>1, RewriteKnown
<1> QED
  BY <1>1, <1>2 DEF db_disconnect, OpenFails

(* Lines get an address only in db_connect, which notes it. *)
LEMMA WorkerLines ==
  ASSUME ServiceInv, LinesKnown, NEW w \in Worker, tratar_peticion(w) \/ WorkerStep(w)
  PROVE  LinesKnown'
<1>1. direcciones \subseteq direcciones'
  BY AddressesGrow
<1>2. CASE UNCHANGED usuarios
  BY <1>1, <1>2 DEF LinesKnown, Known
<1>3. CASE f_register(w)
  <2>1. ASSUME NEW u, usuarios' = [v \in DOMAIN usuarios \cup {u} |->
                                     IF v = u THEN NewLine ELSE usuarios[v]]
        PROVE  LinesKnown'
    BY <1>1, <2>1 DEF LinesKnown, Known, NewLine
  <2> QED
    BY <1>2, <1>3, <2>1 DEF f_register, db_register, OpenFails, dbVars
<1>4. ASSUME NEW S, S \subseteq DOMAIN usuarios, usuarios' = Restrict(usuarios, S)
      PROVE  LinesKnown'
  BY <1>1, <1>4 DEF LinesKnown, Known, Restrict
<1>5. CASE f_unregister(w)
  BY <1>2, <1>4, <1>5 DEF f_unregister, db_unregister, OpenFails, dbVars
<1>6. CASE f_connect(w)
  <2> DEFINE u == Req(w).user
             a == [ip |-> HostOf[hilo[w].client], port |-> Req(w).port]
             l == [connected |-> 1, addr |-> a, last_id |-> usuarios[u].last_id]
  <2>1. \/ UNCHANGED dbVars
        \/ /\ Exists(u) /\ Rewrite(u, l)
           /\ direcciones' = direcciones \cup {[user |-> u, addr |-> a]}
    BY <1>6 DEF f_connect, db_connect, OpenFails
  <2>2. l.addr = a
    OBVIOUS
  <2> HIDE DEF l, a, u
  <2> QED
    BY <1>1, <1>2, <2>1, <2>2, RewriteKnown DEF dbVars, KnownNext
<1>7. CASE f_disconnect(w) \/ DropReceiver(w) \/ DropSender(w)
  BY <1>1, <1>7, DisconnectKnown DEF f_disconnect, DropReceiver, DropSender
<1>8. CASE Prepare(w)
  <2> DEFINE u == Req(w).user
             l == [usuarios[u] EXCEPT !.last_id = NextId(@)]
  <2>1. \/ UNCHANGED dbVars
        \/ Exists(u) /\ Rewrite(u, l)
        \/ usuarios' = Restrict(usuarios, {})
    BY <1>8 DEF Prepare, db_prepare_message, OpenFails
  <2>2. Exists(u) => l.connected = usuarios[u].connected /\ l.addr = usuarios[u].addr
    BY DEF Exists, ServiceInv, DbInv, DbTypeOK, Line
  <2> HIDE DEF l
  <2>3. Exists(u) => (l.connected = 1 => KnownNext(u, l.addr))
    BY <1>1, <2>2 DEF LinesKnown, Known, KnownNext, Exists
  <2> QED
    BY <1>1, <1>2, <1>4, <2>1, <2>3, RewriteKnown DEF dbVars
<1>9. \/ UNCHANGED usuarios \/ f_register(w) \/ f_unregister(w) \/ f_connect(w)
      \/ f_disconnect(w) \/ DropReceiver(w) \/ DropSender(w) \/ Prepare(w)
  BY DEF tratar_peticion, WorkerStep, PeerUnknown, DisconnectInfo, ReplyAndReturn,
         ReplyConnected, ReplyAccepted, SendCode, Store, db_store_message, OpenFails, Pending,
         db_get_pending_messages, DeliverMessage, DeliverFails, Delete, db_delete_message,
         AckInfo, get_user_info, Ack, AckFails, dbVars
<1> QED
  BY <1>2, <1>3, <1>5, <1>6, <1>7, <1>8, <1>9

(* A thread that keeps its request and destination aims as well as before, *)
(* if it has not come to a confirmation.                                   *)
LEMMA AimStays ==
  ASSUME NEW w, AimsWell(w), direcciones \subseteq direcciones',
         hilo'[w].req = hilo[w].req, hilo'[w].dest = hilo[w].dest,
         hilo[w].pc = "reply" => hilo[w].code = 0, hilo'[w].pc # "ack"
  PROVE  AimsWell(w)'
BY DEF AimsWell, Known, Receiver, Req

LEMMA GotoAims ==
  ASSUME ThreadInv, NEW w \in Worker, AimsWell(w), direcciones \subseteq direcciones',
         hilo[w].pc = "reply" => hilo[w].code = 0,
         NEW step, step # "ack", Goto(w, step)
  PROVE  AimsWell(w)'
<1>1. hilo[w] \in Thread
  BY DEF ThreadInv, GoodThread
<1>2. hilo'[w].pc = step /\ hilo'[w].req = hilo[w].req /\ hilo'[w].dest = hilo[w].dest
  BY <1>1 DEF Goto, ThreadInv, Thread
<1> QED
  BY <1>2, AimStays

LEMMA AnswerAims ==
  ASSUME ThreadInv, NEW w \in Worker, AimsWell(w), direcciones \subseteq direcciones',
         hilo[w].pc # "reply", NEW res, Answer(w, res)
  PROVE  AimsWell(w)'
<1>1. hilo[w] \in Thread
  BY DEF ThreadInv, GoodThread
<1>2. hilo'[w].pc = "reply" /\ hilo'[w].req = hilo[w].req /\ hilo'[w].dest = hilo[w].dest
  BY <1>1 DEF Answer, ThreadInv, Thread
<1> QED
  BY <1>2, AimStays

LEMMA ReturnAims ==
  ASSUME ThreadInv, NEW w \in Worker, Return(w)
  PROVE  AimsWell(w)'
BY DEF Return, ThreadInv, IdleThread, AimsWell

LEMMA AdvanceAims ==
  ASSUME ThreadInv, NEW w \in Worker, AimsWell(w), direcciones \subseteq direcciones',
         hilo[w].pc # "reply", Advance(w)
  PROVE  AimsWell(w)'
<1> DEFINE rest == Restrict(msgs[w], DOMAIN msgs[w] \ {First(msgs[w])})
<1>1. CASE Return(w)
  BY <1>1, ReturnAims
<1>2. CASE /\ hilo' = [hilo EXCEPT ![w].pc = "deliver", ![w].src = NoAddr]
           /\ msgs' = [msgs EXCEPT ![w] = rest]
  <2>1. hilo[w] \in Thread
    BY DEF ThreadInv, GoodThread
  <2>2. /\ hilo'[w].pc = "deliver" /\ hilo'[w].req = hilo[w].req
        /\ hilo'[w].dest = hilo[w].dest
    BY <1>2, <2>1 DEF ThreadInv, Thread
  <2> QED
    BY <2>2, AimStays
<1> QED
  BY <1>1, <1>2 DEF Advance

(* f_connect aims at the address it has just noted for its user. *)
LEMMA ConnectAims ==
  ASSUME ServiceInv, NEW w \in Worker, f_connect(w)
  PROVE  AimsWell(w)'
<1> DEFINE a == [ip |-> HostOf[hilo[w].client], port |-> Req(w).port]
<1>1. PICK res \in 0..3 :
        /\ hilo' = [hilo EXCEPT ![w].pc = "reply", ![w].code = res, ![w].dest = a]
        /\ direcciones' = IF res = 0
                          THEN direcciones \cup {[user |-> Req(w).user, addr |-> a]}
                          ELSE direcciones
  BY DEF f_connect
<1> HIDE DEF a
<1>2. hilo[w] \in Thread /\ Req(w).op = "CONNECT"
  BY DEF f_connect, At, ServiceInv, ThreadInv, GoodThread, Fits, Req
<1>3. /\ hilo'[w].pc = "reply" /\ hilo'[w].code = res /\ hilo'[w].dest = a
      /\ hilo'[w].req = hilo[w].req
  BY <1>1, <1>2 DEF ServiceInv, ThreadInv, Thread
<1>4. Receiver(w)' = Req(w).user
  BY <1>2, <1>3 DEF Receiver, Req
<1>5. res = 0 => [user |-> Receiver(w)', addr |-> hilo'[w].dest] \in direcciones'
  <2>1. res = 0 => direcciones' = direcciones \cup {[user |-> Req(w).user, addr |-> a]}
    BY <1>1
  <2>2. Receiver(w)' = Req(w).user /\ hilo'[w].dest = a
    BY <1>3, <1>4
  <2> QED
    BY <2>1, <2>2
<1> QED
  BY <1>3, <1>5 DEF AimsWell, Known

(* f_send aims at what the file had for the receiver. *)
LEMMA PrepareAims ==
  ASSUME ServiceInv, LinesKnown, NEW w \in Worker, AimsWell(w), Prepare(w)
  PROVE  AimsWell(w)'
<1>1. UNCHANGED direcciones /\ ThreadInv /\ hilo[w] \in Thread
  BY DEF Prepare, historyVars, ServiceInv, ThreadInv, GoodThread
<1>2. hilo[w].pc = "prepare" /\ IsSend(Req(w))
  BY DEF Prepare, At, ServiceInv, ThreadInv, GoodThread, Fits, Req
<1> DEFINE r == Req(w).dest
           d == IF usuarios[r].connected = 1 THEN usuarios[r].addr ELSE NoAddr
<1>3. CASE Exists(r) /\ hilo' = [hilo EXCEPT ![w].pc = "reply", ![w].code = 0, ![w].dest = d]
  <2>1. d = NoAddr \/ Known(r, d)
    BY <1>3 DEF LinesKnown, Exists
  <2> HIDE DEF d
  <2>2. /\ hilo'[w].pc = "reply" /\ hilo'[w].dest = d
        /\ hilo'[w].req = hilo[w].req
    BY <1>1, <1>3 DEF ThreadInv, Thread
  <2>3. Receiver(w)' = r
    BY <1>2, <2>2 DEF Receiver, Req, IsSend
  <2>4. hilo'[w].dest = NoAddr \/ Known(Receiver(w), hilo[w].dest)'
    BY <1>1, <2>1, <2>2, <2>3 DEF Known
  <2> QED
    BY <2>2, <2>4 DEF AimsWell
<1>4. CASE \E res \in 0..2 : Answer(w, res)
  BY <1>1, <1>2, <1>4, AnswerAims
<1>5. (\E res \in 0..2 : Answer(w, res))
        \/ (Exists(r) /\ hilo' = [hilo EXCEPT ![w].pc = "reply", ![w].code = 0, ![w].dest = d])
  BY DEF Prepare, db_prepare_message, OpenFails
<1> QED
  BY <1>3, <1>4, <1>5

(* A confirmation goes where the file had the sender just before. *)
LEMMA AckInfoAims ==
  ASSUME ServiceInv, LinesKnown, NEW w \in Worker, AimsWell(w), AckInfo(w)
  PROVE  AimsWell(w)'
<1>1. UNCHANGED direcciones /\ ThreadInv /\ hilo[w] \in Thread /\ hilo[w].pc = "ack_info"
  BY DEF AckInfo, At, historyVars, ServiceInv, ThreadInv, GoodThread
<1> DEFINE s == Current(w).sender
<1>2. CASE /\ Exists(s) /\ usuarios[s].connected = 1 /\ UNCHANGED msgs
           /\ hilo' = [hilo EXCEPT ![w].pc = "ack", ![w].src = usuarios[s].addr]
  <2>1. /\ hilo'[w].pc = "ack" /\ hilo'[w].src = usuarios[s].addr
        /\ hilo'[w].dest = hilo[w].dest /\ hilo'[w].req = hilo[w].req
        /\ msgs'[w] = msgs[w]
    BY <1>1, <1>2 DEF ThreadInv, Thread
  <2>2. Current(w)' = Current(w) /\ Receiver(w)' = Receiver(w)
    BY <2>1, SameInHand
  <2>3. Known(s, usuarios[s].addr)
    BY <1>2 DEF LinesKnown, Exists
  <2>4. Known(Current(w).sender, hilo[w].src)'
    BY <1>1, <2>1, <2>2, <2>3 DEF Known
  <2>5. hilo[w].dest = NoAddr \/ Known(Receiver(w), hilo[w].dest)
    BY <1>1 DEF AimsWell
  <2>6. (hilo[w].dest = NoAddr \/ Known(Receiver(w), hilo[w].dest))'
    BY <1>1, <2>1, <2>2, <2>5 DEF Known
  <2> QED
    BY <2>4, <2>6 DEF AimsWell
<1>3. CASE Advance(w)
  BY <1>1, <1>3, AdvanceAims
<1> QED
  BY <1>2, <1>3 DEF AckInfo, get_user_info

LEMMA WorkerAims ==
  ASSUME ServiceInv, AddressInv, NEW w \in Worker, tratar_peticion(w) \/ WorkerStep(w)
  PROVE  AimsWell(w)'
<1>1. /\ ThreadInv /\ hilo[w] \in Thread /\ AimsWell(w) /\ LinesKnown
      /\ direcciones \subseteq direcciones'
  BY AddressesGrow DEF ServiceInv, ThreadInv, GoodThread, AddressInv
<1>2. CASE tratar_peticion(w)
  <2>1. PICK c \in Client :
          /\ conn[c].state = "sent"
          /\ hilo' = [hilo EXCEPT ![w] = [IdleThread EXCEPT
               !.pc = FirstStep(conn[c].req.op), !.client = c, !.req = conn[c].req]]
    BY <1>2 DEF tratar_peticion
  <2>2. conn[c].req.op \in Ops
    BY <2>1 DEF ServiceInv, ConnInv, NetTypeOK, Request
  <2>3. hilo'[w].pc = FirstStep(conn[c].req.op) /\ hilo'[w].dest = NoAddr
    BY <1>1, <2>1 DEF ThreadInv, IdleThread
  <2>4. FirstStep(conn[c].req.op) # "ack"
    BY <2>2 DEF FirstStep, Ops
  <2> QED
    BY <2>3, <2>4 DEF AimsWell
<1>3. CASE f_register(w) \/ f_unregister(w) \/ PeerUnknown(w) \/ f_disconnect(w)
           \/ DisconnectInfo(w)
  BY <1>1, <1>3, AnswerAims, GotoAims
     DEF f_register, f_unregister, PeerUnknown, f_disconnect, DisconnectInfo, At
<1>4. CASE f_connect(w) \/ Prepare(w) \/ AckInfo(w)
  BY <1>1, <1>4, ConnectAims, PrepareAims, AckInfoAims
<1>5. CASE ReplyAndReturn(w) \/ DropReceiver(w)
  BY <1>1, <1>5, ReturnAims DEF ReplyAndReturn, DropReceiver
<1>6. CASE ReplyConnected(w) \/ ReplyAccepted(w)
  BY <1>1, <1>6, GotoAims DEF ReplyConnected, ReplyAccepted
<1>7. CASE Store(w)
  BY <1>1, <1>7, GotoAims, ReturnAims DEF Store, At
<1>8. CASE Pending(w)
  <2>1. hilo[w].pc = "pending"
    BY <1>8 DEF Pending, At
  <2>2. CASE hilo' = [hilo EXCEPT ![w].pc = "deliver"]
    <3>1. /\ hilo'[w].pc = "deliver" /\ hilo'[w].req = hilo[w].req
          /\ hilo'[w].dest = hilo[w].dest
      BY <1>1, <2>2 DEF ThreadInv, Thread
    <3> QED
      BY <1>1, <2>1, <3>1, AimStays
  <2> QED
    BY <1>1, <1>8, <2>2, ReturnAims DEF Pending
<1>9. CASE DeliverMessage(w) \/ DeliverFails(w) \/ Delete(w) \/ AckFails(w)
  <2>1. hilo[w].pc # "reply" /\ \E step \in Steps \ {"ack"} : Goto(w, step)
    BY <1>9 DEF DeliverMessage, DeliverFails, Delete, AckFails, At, Steps
  <2> QED
    BY <1>1, <2>1, GotoAims
<1>10. CASE Ack(w) \/ DropSender(w)
  BY <1>1, <1>10, AdvanceAims DEF Ack, DropSender, At
<1> QED
  BY <1>2, <1>3, <1>4, <1>5, <1>6, <1>7, <1>8, <1>9, <1>10 DEF WorkerStep

(* A push for a user whose address it goes to keeps the queues right. *)
LEMMA DeliverKnown ==
  ASSUME NetTypeOK, QueuesKnown, direcciones \subseteq direcciones',
         NEW addr, NEW p \in Push, Deliver(addr, p), Known(Meant(p), addr)
  PROVE  QueuesKnown'
<1>1. PICK d \in Client : listening[d] = addr /\ backlog' = [backlog EXCEPT ![d] = Append(@, p)]
  BY DEF Deliver, Accepts
<1>2. UNCHANGED listening
  BY DEF Deliver
<1> SUFFICES ASSUME NEW c \in Client, NEW i \in DOMAIN backlog'[c]
             PROVE  KnownNext(Meant(backlog'[c][i]), listening[c])
  BY <1>2 DEF QueuesKnown, Known, KnownNext, Meant
<1>3. \/ c = d /\ backlog'[c][i] = p
      \/ i \in DOMAIN backlog[c] /\ backlog'[c][i] = backlog[c][i]
  <2>1. CASE c = d
    BY <2>1, DeliverAppends
  <2>2. CASE c # d
    BY <1>1, <2>2 DEF NetTypeOK
  <2> QED
    BY <2>1, <2>2
<1>4. CASE c = d /\ backlog'[c][i] = p
  BY <1>1, <1>4 DEF Known, KnownNext
<1>5. CASE i \in DOMAIN backlog[c] /\ backlog'[c][i] = backlog[c][i]
  BY <1>5 DEF QueuesKnown, Known, KnownNext
<1> QED
  BY <1>3, <1>4, <1>5

LEMMA WorkerQueuesKnown ==
  ASSUME ServiceInv, AddressInv, NEW w \in Worker, tratar_peticion(w) \/ WorkerStep(w)
  PROVE  QueuesKnown'
<1>1. /\ direcciones \subseteq direcciones' /\ NetTypeOK /\ QueuesKnown
      /\ ThreadInv /\ AimsWell(w)
  BY AddressesGrow DEF ServiceInv, ConnInv, AddressInv
<1>2. CASE UNCHANGED <<backlog, listening>>
  BY <1>1, <1>2 DEF QueuesKnown, Known, Meant
<1>3. CASE DeliverMessage(w)
  <2> DEFINE p == [kind |-> "MESSAGE", for |-> Receiver(w), mail |-> InHand(w)]
  <2>1. hilo[w].pc = "deliver" /\ Deliver(hilo[w].dest, p)
    BY <1>3 DEF DeliverMessage, At
  <2>2. p \in Push /\ Meant(p) = Receiver(w)
    BY <2>1, DeliveringFacts DEF Delivering, Push, Meant, InHand
  <2>3. hilo[w].dest # NoAddr
    BY <2>1 DEF Deliver
  <2>4. Known(Receiver(w), hilo[w].dest)
    BY <1>1, <2>1, <2>3 DEF AimsWell
  <2> HIDE DEF p
  <2> QED
    BY <1>1, <2>1, <2>2, <2>4, DeliverKnown
<1>4. CASE Ack(w)
  <2> DEFINE p == [kind |-> "ACK", for |-> Current(w).sender, mail |-> InHand(w)]
  <2>1. hilo[w].pc = "ack" /\ Deliver(hilo[w].src, p)
    BY <1>4 DEF Ack, At
  <2>2. p \in Push /\ Meant(p) = Current(w).sender
    BY <2>1, DeliveringFacts DEF Delivering, Push, Meant, InHand
  <2>3. Known(Current(w).sender, hilo[w].src)
    BY <1>1, <2>1 DEF AimsWell
  <2> HIDE DEF p
  <2> QED
    BY <1>1, <2>1, <2>2, <2>3, DeliverKnown
<1>5. UNCHANGED <<backlog, listening>> \/ DeliverMessage(w) \/ Ack(w)
  BY DEF tratar_peticion, WorkerStep, f_register, f_unregister, PeerUnknown, f_connect,
         DisconnectInfo, f_disconnect, Prepare, ReplyAndReturn, ReplyConnected, ReplyAccepted,
         SendCode, Store, Pending, DeliverFails, DropReceiver, Delete, AckInfo, AckFails,
         DropSender, netVars
<1> QED
  BY <1>2, <1>3, <1>4, <1>5

(* A listener that is opened, closed or replaced has an empty queue. *)
LEMMA ClientQueuesKnown ==
  ASSUME IInv, QueuesKnown, NEW c \in Client, ClientNext(c)
  PROVE  QueuesKnown'
<1>1. UNCHANGED direcciones
  BY DEF ClientNext, serverVars, historyVars
<1>2. UNCHANGED listening \/ (backlog' = [backlog EXCEPT ![c] = <<>>]
                              /\ \E a : listening' = [listening EXCEPT ![c] = a])
  BY DEF ClientNext, Command, Continue, account, connect, send, quit, CommandDone, ConnectOK,
         ConnectFailed, DisconnectDone, stop_listener, Killed, listener_thread, OpenListener,
         CloseListener
<1>3. DOMAIN backlog = Client /\ DOMAIN listening = Client
  BY DEF IInv, ServiceInv, ConnInv, NetTypeOK
<1> SUFFICES ASSUME NEW d \in Client, NEW i \in DOMAIN backlog'[d]
             PROVE  Known(Meant(backlog'[d][i]), listening'[d])
  BY <1>1 DEF QueuesKnown, Known, Meant
<1>4. listening'[d] = listening[d]
  BY <1>2, <1>3
<1>5. PICK j \in DOMAIN backlog[d] : backlog'[d][i] = backlog[d][j]
  BY ClientQueues
<1> QED
  BY <1>4, <1>5 DEF QueuesKnown

LEMMA AimKeeps ==
  ASSUME NEW v, AimsWell(v), hilo'[v] = hilo[v], msgs'[v] = msgs[v],
         direcciones \subseteq direcciones'
  PROVE  AimsWell(v)'
<1>1. Receiver(v)' = Receiver(v) /\ Current(v)' = Current(v)
  BY SameInHand
<1> QED
  BY <1>1 DEF AimsWell, Known

LEMMA AddressNext == IInv /\ AddressInv /\ [Next]_vars => AddressInv'
<1> SUFFICES ASSUME IInv, AddressInv, [Next]_vars PROVE AddressInv'
  OBVIOUS
<1>1. ASSUME NEW w \in Worker, ServerNext(w) PROVE AddressInv'
  <2>1. ServiceInv /\ (tratar_peticion(w) \/ WorkerStep(w)) /\ OthersStay(w)
    BY <1>1, WorkerMoves DEF ServerNext, IInv
  <2>2. ASSUME NEW v \in Worker PROVE AimsWell(v)'
    <3>1. CASE v = w
      BY <2>1, <3>1, WorkerAims
    <3>2. CASE v # w
      BY <2>1, <3>2, AddressesGrow, AimKeeps DEF OthersStay, AddressInv
    <3> QED
      BY <3>1, <3>2
  <2> QED
    BY <2>1, <2>2, WorkerLines, WorkerQueuesKnown DEF AddressInv
<1>2. ASSUME UNCHANGED <<usuarios, direcciones>> PROVE LinesKnown'
  BY <1>2 DEF AddressInv, LinesKnown, Known
<1>3. ASSUME UNCHANGED <<hilo, msgs, direcciones>> PROVE \A v \in Worker : AimsWell(v)'
  BY <1>3, AimKeeps DEF AddressInv
<1>4. ASSUME UNCHANGED <<backlog, listening, direcciones>> PROVE QueuesKnown'
  BY <1>4 DEF AddressInv, QueuesKnown, Known, Meant
<1>5. ASSUME NEW c \in Client, ClientNext(c) PROVE AddressInv'
  <2>1. UNCHANGED <<usuarios, hilo, msgs, direcciones>>
    BY <1>5 DEF ClientNext, serverVars, dbVars, hilosVars, historyVars
  <2> QED
    BY <1>2, <1>3, <1>5, <2>1, ClientQueuesKnown DEF AddressInv
<1>6. CASE ServerCrash
  <2>1. UNCHANGED <<usuarios, backlog, listening, direcciones>>
    BY <1>6 DEF ServerCrash, dbVars, historyVars
  <2>2. ASSUME NEW v \in Worker PROVE AimsWell(v)'
    <3>1. hilo'[v].pc = "idle" /\ hilo'[v].dest = NoAddr
      BY <1>6 DEF ServerCrash, IdleThread
    <3> QED
      BY <3>1 DEF AimsWell
  <2> QED
    BY <1>2, <1>4, <2>1, <2>2 DEF AddressInv
<1>7. CASE UNCHANGED vars
  <2>1. UNCHANGED <<usuarios, hilo, msgs, backlog, listening, direcciones>>
    BY <1>7 DEF vars, serverVars, dbVars, hilosVars, historyVars, netVars
  <2> QED
    BY <1>2, <1>3, <1>4, <2>1 DEF AddressInv
<1> QED
  BY <1>1, <1>5, <1>6, <1>7 DEF Next

(* The users who are online at first are where their clients listen. *)
LEMMA AddressInit == Init => AddressInv
<1> SUFFICES ASSUME Init PROVE AddressInv
  OBVIOUS
<1>1. LinesKnown
  <2> SUFFICES ASSUME NEW u \in DOMAIN usuarios, usuarios[u].connected = 1
               PROVE  Known(u, usuarios[u].addr)
    BY DEF LinesKnown
  <2>1. u \in Registered
    BY DEF Init, DbInit
  <2> DEFINE Mine(c) == Session[c].user = u
  <2>2. \E c \in Client : Mine(c)
    BY <2>1 DEF Init, DbInit, NewLine
  <2> DEFINE e == CHOOSE c \in Client : Mine(c)
  <2>3. e \in Client /\ Session[e].user = u
    BY <2>2
  <2>4. usuarios[u].addr = SessionAddr(e)
    BY <2>1, <2>2 DEF Init, DbInit
  <2> HIDE DEF e
  <2>5. u # None
    BY <2>1, RegisteredAssumption, NoneAssumption
  <2>6. [user |-> Session[e].user, addr |-> SessionAddr(e)] \in direcciones
    BY <2>3, <2>5 DEF Init, ServerInit
  <2> QED
    BY <2>3, <2>4, <2>6 DEF Known
<1>2. \A w \in Worker : AimsWell(w)
  BY DEF Init, ServerInit, IdleThread, AimsWell
<1>3. QueuesKnown
  BY DEF Init, NetInit, QueuesKnown
<1> QED
  BY <1>1, <1>2, <1>3 DEF AddressInv

-----------------------------------------------------------------------------
LEMMA InvForges == MailInv /\ AddressInv => NotForged
<1> SUFFICES ASSUME MailInv, AddressInv PROVE NotForged
  OBVIOUS
<1>1. \A w \in Worker : hilo[w].pc \in InDelivery => Carried(w) \subseteq prometidos
  <2> SUFFICES ASSUME NEW w \in Worker, hilo[w].pc \in InDelivery
               PROVE  Carried(w) \subseteq prometidos
    OBVIOUS
  <2>1. CASE hilo[w].pc = "store"
    BY <2>1 DEF MailInv, CarriesMail, HasOne, At
  <2>2. CASE hilo[w].pc \in Delivering
    BY <2>2 DEF MailInv, CarriesMail, Deliverable
  <2> QED
    BY <2>1, <2>2 DEF InDelivery, Delivering
<1> QED
  BY <1>1 DEF NotForged, MailInv, QueuedMail, AddressInv, QueuesKnown, Known

(* What a mailbox holds or a thread delivers was accepted as a message to  *)
(* that user, and what waits in a listener's queue was accepted and is for *)
(* a user who was connected at that listener's address: the threads never  *)
(* mix up receivers, arrays or addresses, whatever they interleave with    *)
(* and whatever fails.                                                     *)
THEOREM NothingIsForged == Spec => []NotForged
BY Invariance, MailInvInit, MailInvNext, AddressInit, AddressNext, InvForges, PTL DEF Spec

-----------------------------------------------------------------------------
(* The service implements MailSystem. *)

(* What registrados and buzones of MailSystem are. *)
Users == DOMAIN usuarios
Boxes == UNION {Mailbox(u) : u \in User}

LEMMA DisconnectUsers ==
  ASSUME NEW u, NEW res, db_disconnect(u, res)
  PROVE  UNCHANGED Users
BY DEF db_disconnect, Rewrite, OpenFails, dbVars, Users

(* The users change in three steps. *)
LEMMA UsersStep ==
  ASSUME NEW w \in Worker, tratar_peticion(w) \/ WorkerStep(w), ~f_unregister(w)
  PROVE  \/ UNCHANGED Users
         \/ f_register(w) /\ Users' = Users \cup {Req(w).user}
         \/ Prepare(w) /\ OpenMayFail /\ Users' = {}
<1>1. CASE UNCHANGED usuarios
  BY <1>1 DEF Users
<1>2. CASE f_register(w)
  BY <1>2 DEF f_register, db_register, OpenFails, dbVars, Users
<1>3. CASE f_connect(w)
  BY <1>3 DEF f_connect, db_connect, Rewrite, OpenFails, dbVars, Users
<1>4. CASE f_disconnect(w) \/ DropReceiver(w) \/ DropSender(w)
  BY <1>4, DisconnectUsers DEF f_disconnect, DropReceiver, DropSender
<1>5. CASE Prepare(w)
  BY <1>5 DEF Prepare, db_prepare_message, Rewrite, Restrict, OpenFails, dbVars, Users
<1>6. \/ UNCHANGED usuarios \/ f_register(w) \/ f_connect(w)
      \/ f_disconnect(w) \/ DropReceiver(w) \/ DropSender(w) \/ Prepare(w)
  BY DEF tratar_peticion, WorkerStep, PeerUnknown, DisconnectInfo, ReplyAndReturn,
         ReplyConnected, ReplyAccepted, SendCode, Store, db_store_message, OpenFails, Pending,
         db_get_pending_messages, DeliverMessage, DeliverFails, Delete, db_delete_message,
         AckInfo, get_user_info, Ack, AckFails, dbVars
<1> QED
  BY <1>1, <1>2, <1>3, <1>4, <1>5, <1>6

LEMMA BoxHasOwner == ASSUME NEW u \in User, NEW x \in Mailbox(u) PROVE x.dest = u
BY DEF Mailbox

LEMMA SameBoxes == ASSUME UNCHANGED mensajes PROVE Boxes' = Boxes
BY SameMailbox DEF Boxes

(* Mailboxes and history stay, and so do the users: the service stutters. *)
LEMMA MailStutters ==
  ASSUME UNCHANGED mensajes, UNCHANGED <<prometidos, guardados, entregados>>, UNCHANGED Users
  PROVE  UNCHANGED Post!mailVars
BY SameBoxes DEF Post!mailVars, Boxes, Users

(* The mailbox of u gains one message, or keeps a part of what it had. *)
LEMMA BoxGains ==
  ASSUME NEW r \in User, NEW x,
         \A u \in User : Mailbox(u)' = IF u = r THEN Mailbox(u) \cup {x} ELSE Mailbox(u)
  PROVE  Boxes' = Boxes \cup {x}
BY DEF Boxes

LEMMA BoxLoses ==
  ASSUME NEW r \in User, NEW lost,
         \A u \in User : Mailbox(u)' = IF u = r THEN Mailbox(u) \ lost ELSE Mailbox(u)
  PROVE  Boxes' = {x \in Boxes : ~(x.dest = r /\ x \in lost)}
<1>1. ASSUME NEW x \in Boxes' PROVE x \in Boxes /\ ~(x.dest = r /\ x \in lost)
  <2>1. PICK u \in User : x \in Mailbox(u)'
    BY <1>1 DEF Boxes
  <2>2. x \in Mailbox(u) /\ (u = r => x \notin lost)
    BY <2>1
  <2> QED
    BY <2>2, BoxHasOwner DEF Boxes
<1>2. ASSUME NEW x \in Boxes, ~(x.dest = r /\ x \in lost) PROVE x \in Boxes'
  <2>1. PICK u \in User : x \in Mailbox(u)
    BY <1>2 DEF Boxes
  <2>2. x \in Mailbox(u)'
    BY <1>2, <2>1, BoxHasOwner
  <2> QED
    BY <2>2 DEF Boxes
<1> QED
  BY <1>1, <1>2

(* The mailbox of r is removed. *)
LEMMA BoxEmptied ==
  ASSUME NEW r \in User,
         \A u \in User : Mailbox(u)' = IF u = r THEN {} ELSE Mailbox(u)
  PROVE  Boxes' = {x \in Boxes : x.dest # r}
<1>1. \A u \in User : Mailbox(u)' = IF u = r THEN Mailbox(u) \ Boxes ELSE Mailbox(u)
  BY DEF Boxes
<1>2. Boxes' = {x \in Boxes : ~(x.dest = r /\ x \in Boxes)}
  BY <1>1, BoxLoses
<1> QED
  BY <1>2

(* In a deletion the mail in hand was given to its receiver before. *)
LEMMA DeleteTakesOut ==
  ASSUME ServiceInv, PushedInv, NEW w \in Worker, Delete(w)
  PROVE  [Post!MailNext]_(Post!mailVars)
<1> DEFINE y == InHand(w)
           r == Receiver(w)
<1>1. r \in User /\ y \in Mail /\ y.dest = r /\ y.msg.id = Current(w).id
  BY DeliveringFacts DEF Delete, At, Delivering, InHand
<1>2. /\ y \in entregados /\ UNCHANGED <<prometidos, guardados, entregados>>
      /\ UNCHANGED Users
  BY DEF Delete, At, PushedInv, Pushed, historyVars, db_delete_message, Users
<1>3. CASE UNCHANGED mensajes
  BY <1>2, <1>3, MailStutters
<1>4. CASE \A u \in User :
             Mailbox(u)' = IF u = r THEN {x \in Mailbox(u) : x.msg.id # Current(w).id}
                                    ELSE Mailbox(u)
  <2> DEFINE lost == {x \in Boxes : x.msg.id = Current(w).id}
  <2>1. \A u \in User : Mailbox(u)' = IF u = r THEN Mailbox(u) \ lost ELSE Mailbox(u)
    <3>1. \A u \in User : {x \in Mailbox(u) : x.msg.id # Current(w).id} = Mailbox(u) \ lost
      BY DEF Boxes
    <3> HIDE DEF lost
    <3> QED
      BY <1>4, <3>1
  <2>2. Boxes' = {x \in Boxes : ~(x.dest = y.dest /\ x.msg.id = y.msg.id)}
    <3>1. Boxes' = {x \in Boxes : ~(x.dest = r /\ x \in lost)}
      <4> HIDE DEF lost
      <4> QED
        BY <1>1, <2>1, BoxLoses
    <3> QED
      BY <1>1, <3>1
  <2>3. Post!TakeOut(y)
    BY <1>2, <2>2 DEF Post!TakeOut, Boxes, Users
  <2> QED
    BY <1>1, <2>3 DEF Post!MailNext
<1>5. CASE /\ OpenMayFail
           /\ \A u \in User : Mailbox(u)' = IF u = r THEN {} ELSE Mailbox(u)
  <2>1. Boxes' = {x \in Boxes : x.dest # r}
    BY <1>1, <1>5, BoxEmptied
  <2>2. Post!Lose(y)
    BY <1>1, <1>2, <1>5, <2>1 DEF Post!Lose, Boxes, Users
  <2> QED
    BY <1>1, <2>2 DEF Post!MailNext
<1> QED
  BY <1>3, <1>4, <1>5, DeleteMailbox

LEMMA WorkerImplements ==
  ASSUME ServiceInv, PushedInv, MailInv, NEW w \in Worker, tratar_peticion(w) \/ WorkerStep(w)
  PROVE  [Post!MailNext]_(Post!mailVars)
<1>1. ASSUME UsesMessage(hilo[w]), hilo[w].pc # "idle" PROVE InHand(w) \in Mail
  BY <1>1, ThreadFacts DEF ServiceInv
<1>2. CASE ReplyAccepted(w)
  <2>1. InHand(w) \in Mail
    BY <1>1, <1>2 DEF ReplyAccepted, UsesMessage, At, Req
  <2>2. Boxes' = Boxes /\ Users' = Users
    BY <1>2, SameBoxes DEF ReplyAccepted, SendCode, dbVars, Users
  <2>3. Post!Accept(InHand(w))
    BY <1>2, <2>2 DEF Post!Accept, ReplyAccepted, Boxes, Users
  <2> QED
    BY <2>1, <2>3 DEF Post!MailNext
<1>3. CASE Store(w)
  <2>1. InHand(w) \in Mail /\ InHand(w) \in prometidos /\ Receiver(w) \in User
    BY <1>1, <1>3, ThreadFacts
       DEF Store, UsesMessage, At, MailInv, CarriesMail, ServiceInv
  <2>2. UNCHANGED <<prometidos, entregados>> /\ UNCHANGED Users
    BY <1>3 DEF Store, db_store_message, OpenFails, dbVars, Users
  <2>3. CASE UNCHANGED <<mensajes, guardados>>
    BY <2>2, <2>3, MailStutters
  <2>4. CASE /\ guardados' = guardados \cup {InHand(w)}
             /\ \A u \in User :
                  Mailbox(u)' = IF u = Receiver(w) THEN Mailbox(u) \cup {InHand(w)}
                                                   ELSE Mailbox(u)
    <3>1. Boxes' = Boxes \cup {InHand(w)}
      BY <2>1, <2>4, BoxGains
    <3>2. Post!Keep(InHand(w))
      BY <2>1, <2>2, <2>4, <3>1 DEF Post!Keep, Boxes, Users
    <3> QED
      BY <2>1, <3>2 DEF Post!MailNext
  <2> QED
    BY <1>3, <2>3, <2>4, StoreMailbox
<1>4. CASE DeliverMessage(w)
  <2>1. hilo[w].pc = "deliver" /\ UsesMessage(hilo[w])
    BY <1>4 DEF DeliverMessage, At, UsesMessage, Delivering
  <2>2. InHand(w) \in Mail /\ First(msgs[w]) \in DOMAIN msgs[w]
    BY <1>1, <2>1, ThreadFacts DEF ServiceInv
  <2>3. InHand(w) \in Deliverable
    BY <2>1, <2>2 DEF MailInv, CarriesMail, Delivering, Carried, InHand, Current
  <2>4. InHand(w) \in guardados \/ (OpenMayFail /\ InHand(w) \in prometidos)
    BY <2>3 DEF Deliverable
  <2>5. Boxes' = Boxes /\ Users' = Users
    BY <1>4, SameBoxes DEF DeliverMessage, dbVars, Users
  <2>6. Post!Give(InHand(w))
    BY <1>4, <2>4, <2>5 DEF Post!Give, DeliverMessage, Boxes, Users
  <2> QED
    BY <2>2, <2>6 DEF Post!MailNext
<1>5. CASE Delete(w)
  BY <1>5, DeleteTakesOut
<1>6. CASE f_unregister(w)
  <2> DEFINE r == Req(w).user
  <2>1. r \in User /\ UNCHANGED <<prometidos, guardados, entregados>>
    BY <1>6, ThreadFacts DEF f_unregister, At, ServiceInv
  <2>2. CASE UNCHANGED usuarios /\ UNCHANGED mensajes
    BY <2>1, <2>2, MailStutters DEF Users
  <2>3. CASE /\ Exists(r) /\ DOMAIN usuarios' = DOMAIN usuarios \ {r}
             /\ \A u \in User : Mailbox(u)' = IF u = r THEN {} ELSE Mailbox(u)
    <3>1. Boxes' = {x \in Boxes : x.dest # r}
      BY <2>1, <2>3, BoxEmptied
    <3>2. Post!Remove(r)
      BY <2>1, <2>3, <3>1 DEF Post!Remove, Boxes, Exists
    <3> QED
      BY <2>1, <3>2 DEF Post!MailNext
  <2> QED
    BY <1>6, <2>2, <2>3, UnregisterMailbox
<1>7. CASE ~(ReplyAccepted(w) \/ Store(w) \/ DeliverMessage(w) \/ Delete(w) \/ f_unregister(w))
  <2>1. UNCHANGED mensajes /\ UNCHANGED <<prometidos, guardados, entregados>>
    <3>1. UNCHANGED mensajes /\ UNCHANGED <<prometidos, guardados>>
      BY <1>7, MailboxSteps, WorkerHistory
    <3>2. UNCHANGED entregados
      BY <1>7 DEF tratar_peticion, WorkerStep, f_register, PeerUnknown, f_connect,
         DisconnectInfo, f_disconnect, Prepare, ReplyAndReturn, ReplyConnected, SendCode,
         Pending, DeliverFails, DropReceiver, AckInfo, Ack, AckFails, DropSender, historyVars
    <3> QED
      BY <3>1, <3>2
  <2>2. Boxes' = Boxes
    BY <2>1, SameBoxes
  <2>3. CASE UNCHANGED Users
    BY <2>1, <2>3, MailStutters
  <2>4. CASE f_register(w) /\ Users' = Users \cup {Req(w).user}
    <3>1. Req(w).user \in User
      BY <2>4, ThreadFacts DEF f_register, At, ServiceInv
    <3>2. Post!Register(Req(w).user)
      BY <2>1, <2>2, <2>4 DEF Post!Register, Boxes, Users
    <3> QED
      BY <3>1, <3>2 DEF Post!MailNext
  <2>5. CASE Prepare(w) /\ OpenMayFail /\ Users' = {}
    <3>1. Post!LoseUsers
      BY <2>1, <2>2, <2>5 DEF Post!LoseUsers, Boxes, Users
    <3> QED
      BY <3>1 DEF Post!MailNext
  <2> QED
    BY <1>7, <2>3, <2>4, <2>5, UsersStep
<1> QED
  BY <1>2, <1>3, <1>4, <1>5, <1>6, <1>7

LEMMA NextImplements ==
  IInv /\ AckInv2 /\ MailInv /\ [Next]_vars => [Post!MailNext]_(Post!mailVars)
<1> SUFFICES ASSUME IInv, AckInv2, MailInv, [Next]_vars
             PROVE  [Post!MailNext]_(Post!mailVars)
  OBVIOUS
<1>1. ASSUME NEW w \in Worker, ServerNext(w) PROVE [Post!MailNext]_(Post!mailVars)
  BY <1>1, WorkerImplements DEF ServerNext, IInv, AckInv2
<1>2. CASE UNCHANGED <<dbVars, historyVars>>
  BY <1>2, MailStutters DEF dbVars, historyVars, Users
<1> QED
  BY <1>1, <1>2 DEF Next, ClientNext, vars, serverVars, ServerCrash

LEMMA InitImplements == Init => Post!MailInit
<1> SUFFICES ASSUME Init PROVE Post!MailInit
  OBVIOUS
<1>1. \A u \in User : Mailbox(u) = {}
  BY EmptyIsFile DEF Init, DbInit, Mailbox
<1>2. DOMAIN usuarios = Registered
  BY DEF Init, DbInit
<1> QED
  BY <1>1, <1>2 DEF Init, ServerInit, Post!MailInit

(* The service, with its threads, sessions, failures and crashes, does     *)
(* with mail only what MailSystem allows: mail is stored after it is       *)
(* accepted, pushed after it is stored, and leaves a mailbox after mail    *)
(* with its number was pushed, or in the step that removes its owner.  An  *)
(* open that fails may take the rest of the mailbox with it, but only      *)
(* while such mail is taken out.                                           *)
THEOREM MailSystemIsImplemented == Spec => ImplementsMailSystem
BY InitImplements, NextImplements, Invariance, AckInv2Init, AckInv2Next, MailInvInit,
   MailInvNext, PTL DEF Spec, ImplementsMailSystem, Post!MailSpec

-----------------------------------------------------------------------------
(* Numbers.  An accepted message and a number just taken are told apart by *)
(* the last number of their sender, which never goes back while the sender *)
(* is registered; and it does not wrap while every number it gave can be   *)
(* charged to a command that was typed.                                    *)

LastId(s) == IF Exists(s) THEN usuarios[s].last_id ELSE 0

(* The requests on their way to a thread, and the threads that are about   *)
(* to take a number: commands that were typed and have not got one.        *)
Unnumbered == ({c \in Client : conn[c].state = "sent"} \X {0})
                \cup ({w \in Worker : At(w, "prepare")} \X {1})

NumbersPaid == /\ IsFiniteSet(Unnumbered)
               /\ \A s \in User : LastId(s) + Cardinality(Unnumbered) <= ordenes

LEMMA LastIdIsNat == ASSUME DbInv, NEW s \in User PROVE LastId(s) \in 0..MaxId
BY BoundAssumption DEF LastId, Exists, DbInv, DbTypeOK, Line

LEMMA RewriteLastId ==
  ASSUME NEW u, Exists(u), NEW l, Rewrite(u, l), NEW s
  PROVE  /\ s # u => LastId(s)' = LastId(s)
         /\ LastId(u)' = l.last_id
BY DEF Rewrite, LastId, Exists

LEMMA DisconnectLastId ==
  ASSUME NEW u, NEW res, db_disconnect(u, res), NEW s
  PROVE  LastId(s)' = LastId(s)
<1>1. CASE UNCHANGED dbVars
  BY <1>1 DEF dbVars, LastId, Exists
<1>2. CASE Exists(u) /\ Rewrite(u, [NewLine EXCEPT !.last_id = usuarios[u].last_id])
  <2>1. [NewLine EXCEPT !.last_id = usuarios[u].last_id].last_id = LastId(u)
    BY <1>2 DEF NewLine, LastId
  <2> QED
    BY <1>2, <2>1, RewriteLastId
<1> QED
  BY <1>1, <1>2 DEF db_disconnect, OpenFails

(* The last number of a user goes up by db_prepare_message for that user   *)
(* and back to 0 when the user goes, or usuarios.txt with everyone.        *)
LEMMA LastIdSteps ==
  ASSUME ServiceInv, NEW w \in Worker, tratar_peticion(w) \/ WorkerStep(w), NEW s \in User
  PROVE  \/ LastId(s)' = LastId(s)
         \/ f_unregister(w) /\ s \in bajas' /\ LastId(s)' = 0
         \/ Prepare(w) /\ s = Req(w).user /\ LastId(s)' = NextId(LastId(s))
         \/ Prepare(w) /\ OpenMayFail /\ LastId(s)' = 0
<1>1. DbInv
  BY DEF ServiceInv
<1>2. CASE UNCHANGED usuarios
  BY <1>2 DEF LastId, Exists
<1>3. CASE f_register(w)
  <2>1. CASE UNCHANGED dbVars
    BY <1>2, <2>1 DEF dbVars
  <2>2. ASSUME NEW u, ~Exists(u),
               usuarios' = [v \in DOMAIN usuarios \cup {u} |->
                              IF v = u THEN NewLine ELSE usuarios[v]]
        PROVE  LastId(s)' = LastId(s)
    BY <2>2 DEF LastId, Exists, NewLine
  <2> QED
    BY <1>3, <2>1, <2>2 DEF f_register, db_register, OpenFails
<1>4. CASE f_unregister(w)
  <2> DEFINE u == Req(w).user
             rest == Restrict(usuarios, DOMAIN usuarios \ {u})
  <2>1. UNCHANGED dbVars \/ (usuarios' = rest /\ u \in bajas')
    BY <1>4 DEF f_unregister, db_unregister, OpenFails
  <2>2. DOMAIN rest = DOMAIN usuarios \ {u} /\ \A v \in DOMAIN rest : rest[v] = usuarios[v]
    BY DEF Restrict
  <2> HIDE DEF rest
  <2>3. CASE usuarios' = rest /\ u \in bajas'
    BY <1>4, <2>2, <2>3 DEF LastId, Exists
  <2> QED
    BY <1>2, <2>1, <2>3 DEF dbVars
<1>5. CASE f_connect(w)
  <2> DEFINE u == Req(w).user
             addr == [ip |-> HostOf[hilo[w].client], port |-> Req(w).port]
             l == [connected |-> 1, addr |-> addr, last_id |-> usuarios[u].last_id]
  <2>1. UNCHANGED dbVars \/ (Exists(u) /\ Rewrite(u, l))
    BY <1>5 DEF f_connect, db_connect, OpenFails
  <2>2. l.last_id = usuarios[u].last_id
    OBVIOUS
  <2> HIDE DEF l
  <2> QED
    BY <1>2, <2>1, <2>2, RewriteLastId DEF dbVars, LastId
<1>6. CASE f_disconnect(w) \/ DropReceiver(w) \/ DropSender(w)
  BY <1>6, DisconnectLastId DEF f_disconnect, DropReceiver, DropSender
<1>7. CASE Prepare(w)
  <2> DEFINE u == Req(w).user
             l == [usuarios[u] EXCEPT !.last_id = NextId(@)]
  <2>1. \/ UNCHANGED dbVars
        \/ Exists(u) /\ Rewrite(u, l)
        \/ OpenMayFail /\ usuarios' = Restrict(usuarios, {})
    BY <1>7 DEF Prepare, db_prepare_message, OpenFails
  <2>2. Exists(u) => l.last_id = NextId(LastId(u))
    BY <1>1 DEF Exists, LastId, DbInv, DbTypeOK, Line
  <2>3. CASE OpenMayFail /\ usuarios' = Restrict(usuarios, {})
    BY <1>7, <2>3 DEF Restrict, LastId, Exists
  <2> HIDE DEF l
  <2> QED
    BY <1>2, <1>7, <2>1, <2>2, <2>3, RewriteLastId DEF dbVars
<1>8. \/ UNCHANGED usuarios \/ f_register(w) \/ f_unregister(w) \/ f_connect(w)
      \/ f_disconnect(w) \/ DropReceiver(w) \/ DropSender(w) \/ Prepare(w)
  BY DEF tratar_peticion, WorkerStep, PeerUnknown, DisconnectInfo, ReplyAndReturn,
         ReplyConnected, ReplyAccepted, SendCode, Store, db_store_message, OpenFails, Pending,
         db_get_pending_messages, DeliverMessage, DeliverFails, Delete, db_delete_message,
         AckInfo, get_user_info, Ack, AckFails, dbVars
<1> QED
  BY <1>2, <1>3, <1>4, <1>5, <1>6, <1>7, <1>8

(* A finite set of which one element may be replaced, taken or added. *)
LEMMA Shrinks ==
  ASSUME NEW P, IsFiniteSet(P), NEW Q, Q \subseteq P
  PROVE  IsFiniteSet(Q) /\ Cardinality(Q) <= Cardinality(P)
BY FS_Subset

LEMMA Gains ==
  ASSUME NEW P, IsFiniteSet(P), NEW b, NEW Q, Q \subseteq P \cup {b}
  PROVE  IsFiniteSet(Q) /\ Cardinality(Q) <= Cardinality(P) + 1
<1>1. IsFiniteSet(P \cup {b}) /\ Cardinality(P \cup {b}) <= Cardinality(P) + 1
  <2>1. Cardinality(P) \in Nat
    BY FS_CardinalityType
  <2>2. /\ IsFiniteSet(P \cup {b})
        /\ \/ Cardinality(P \cup {b}) = Cardinality(P)
           \/ Cardinality(P \cup {b}) = Cardinality(P) + 1
    BY FS_AddElement, Zenon
  <2> QED
    BY <2>1, <2>2
<1>2. IsFiniteSet(Q) /\ Cardinality(Q) <= Cardinality(P \cup {b})
  BY <1>1, Shrinks
<1> QED
  BY <1>1, <1>2, FS_CardinalityType

LEMMA Loses ==
  ASSUME NEW P, IsFiniteSet(P), NEW a \in P, NEW Q, Q \subseteq P \ {a}
  PROVE  IsFiniteSet(Q) /\ Cardinality(Q) + 1 <= Cardinality(P)
<1>1. IsFiniteSet(P \ {a}) /\ Cardinality(P \ {a}) = Cardinality(P) - 1
  BY FS_RemoveElement
<1>2. IsFiniteSet(Q) /\ Cardinality(Q) <= Cardinality(P \ {a})
  BY <1>1, Shrinks
<1> QED
  BY <1>1, <1>2, FS_CardinalityType

LEMMA Swaps ==
  ASSUME NEW P, IsFiniteSet(P), NEW a \in P, NEW b, NEW Q, Q \subseteq (P \ {a}) \cup {b}
  PROVE  IsFiniteSet(Q) /\ Cardinality(Q) <= Cardinality(P)
<1>1. IsFiniteSet(P \ {a}) /\ Cardinality(P \ {a}) + 1 <= Cardinality(P)
  BY Loses
<1>2. IsFiniteSet(Q) /\ Cardinality(Q) <= Cardinality(P \ {a}) + 1
  BY <1>1, Gains
<1> QED
  BY <1>1, <1>2, FS_CardinalityType

(* The thread has deleted the message in hand. *)
Deleted == {"ack_info", "ack", "drop_sender"}

(* A thread comes to Prepare only with a new request, and past a deletion  *)
(* only by way of it.                                                      *)
InOrder(w) == /\ hilo'[w].pc # "prepare"
              /\ hilo'[w].pc \in Deleted => Delete(w) \/ AckInfo(w) \/ AckFails(w)

LEMMA StepsInOrder == ASSUME ThreadInv, NEW w \in Worker, WorkerStep(w) PROVE InOrder(w)
<1>1. hilo[w] \in Thread
  BY DEF ThreadInv, GoodThread
<1> DEFINE Before == {"idle", "reply", "disconnect", "pending", "store", "deliver", "drop_dest"}
<1>2. ASSUME NEW step, Goto(w, step) PROVE hilo'[w].pc = step
  BY <1>2, GotoMoves
<1>3. ASSUME NEW res, Answer(w, res) PROVE hilo'[w].pc \in Before
  BY <1>3, AnswerMoves
<1>4. ASSUME Return(w) \/ Advance(w) PROVE hilo'[w].pc \in Before
  BY <1>4, ReturnMoves, AdvanceMoves
<1>14. ASSUME hilo'[w].pc \in Before PROVE InOrder(w)
  BY <1>14 DEF InOrder, Deleted
<1>5. CASE f_register(w) \/ f_unregister(w) \/ PeerUnknown(w) \/ f_disconnect(w)
  BY <1>3, <1>5, <1>14 DEF f_register, f_unregister, PeerUnknown, f_disconnect
<1>6. CASE f_connect(w)
  <2>1. hilo'[w].pc = "reply"
    BY <1>1, <1>6 DEF f_connect, ThreadInv, Thread
  <2> QED
    BY <1>14, <2>1
<1>7. CASE DisconnectInfo(w)
  BY <1>2, <1>3, <1>7, <1>14 DEF DisconnectInfo
<1>8. CASE Prepare(w)
  <2>1. ASSUME NEW d, hilo' = [hilo EXCEPT ![w].pc = "reply", ![w].code = 0, ![w].dest = d]
        PROVE  hilo'[w].pc = "reply"
    BY <1>1, <2>1 DEF ThreadInv, Thread
  <2> QED
    BY <1>3, <1>8, <1>14, <2>1 DEF Prepare
<1>9. CASE ReplyAndReturn(w) \/ DropReceiver(w) \/ Ack(w) \/ DropSender(w)
  BY <1>4, <1>9, <1>14 DEF ReplyAndReturn, DropReceiver, Ack, DropSender
<1>10. CASE ReplyConnected(w) \/ ReplyAccepted(w) \/ DeliverFails(w)
  BY <1>2, <1>10, <1>14 DEF ReplyConnected, ReplyAccepted, DeliverFails
<1>11. CASE Store(w)
  BY <1>2, <1>4, <1>11, <1>14 DEF Store
<1>15. CASE DeliverMessage(w) \/ Delete(w) \/ AckFails(w)
  BY <1>2, <1>15 DEF DeliverMessage, Delete, AckFails, InOrder, Deleted
<1>12. CASE Pending(w)
  <2>1. ASSUME hilo' = [hilo EXCEPT ![w].pc = "deliver"] PROVE hilo'[w].pc = "deliver"
    BY <1>1, <2>1 DEF ThreadInv, Thread
  <2> QED
    BY <1>4, <1>12, <1>14, <2>1 DEF Pending
<1>13. CASE AckInfo(w)
  <2>1. ASSUME NEW a, hilo' = [hilo EXCEPT ![w].pc = "ack", ![w].src = a]
        PROVE  hilo'[w].pc = "ack"
    BY <1>1, <2>1 DEF ThreadInv, Thread
  <2> QED
    BY <1>4, <1>13, <1>14, <2>1 DEF AckInfo, InOrder
<1> QED
  BY <1>5, <1>6, <1>7, <1>8, <1>9, <1>10, <1>11, <1>12, <1>13, <1>15
     DEF WorkerStep

(* No thread but one that accepts changes which requests are on their way. *)
LEMMA WorkerSent ==
  ASSUME ServiceInv, NEW w \in Worker, WorkerStep(w), NEW c \in Client,
         conn'[c].state = "sent"
  PROVE  conn[c].state = "sent"
<1>1. CASE UNCHANGED conn
  BY <1>1
<1>2. CASE SendCode(w)
  <2>1. conn \in [Client -> Conn]
    BY DEF ServiceInv, ConnInv, NetTypeOK
  <2>2. conn[c] \in Conn
    BY <2>1
  <2>3. CASE conn' = [conn EXCEPT ![hilo[w].client].state = "replied",
                                  ![hilo[w].client].code = hilo[w].code]
    BY <2>1, <2>2, <2>3 DEF Conn
  <2> QED
    BY <1>1, <1>2, <2>3 DEF SendCode
<1>3. UNCHANGED conn \/ SendCode(w)
  BY DEF WorkerStep, f_register, f_unregister, PeerUnknown, f_connect,
         DisconnectInfo, f_disconnect, Prepare, ReplyAndReturn, ReplyConnected, ReplyAccepted,
         Store, Pending, DeliverMessage, Deliver, DeliverFails, DropReceiver, Delete, AckInfo,
         Ack, AckFails, DropSender, netVars
<1> QED
  BY <1>1, <1>2, <1>3

LEMMA AcceptSwaps ==
  ASSUME ServiceInv, NEW w \in Worker, tratar_peticion(w)
  PROVE  \E a \in Unnumbered : Unnumbered' \subseteq (Unnumbered \ {a}) \cup {<<w, 1>>}
<1>1. PICK c \in Client :
        /\ conn[c].state = "sent"
        /\ conn' = [conn EXCEPT ![c].state = "open", ![c].worker = w]
  BY DEF tratar_peticion
<1>2. conn \in [Client -> Conn] /\ conn[c] \in Conn
  BY DEF ServiceInv, ConnInv, NetTypeOK
<1>3. conn'[c].state = "open" /\ \A d \in Client \ {c} : conn'[d] = conn[d]
  BY <1>1, <1>2 DEF Conn
<1>4. OthersStay(w)
  BY WorkerMoves
<1>5. <<c, 0>> \in Unnumbered
  BY <1>1 DEF Unnumbered
<1>6. Unnumbered' \subseteq (Unnumbered \ {<<c, 0>>}) \cup {<<w, 1>>}
  <2> SUFFICES ASSUME NEW p \in Unnumbered' PROVE p \in (Unnumbered \ {<<c, 0>>}) \cup {<<w, 1>>}
    OBVIOUS
  <2>1. CASE \E d \in Client : conn'[d].state = "sent" /\ p = <<d, 0>>
    <3>1. PICK d \in Client : conn'[d].state = "sent" /\ p = <<d, 0>>
      BY <2>1
    <3>2. d # c /\ conn[d].state = "sent"
      BY <1>3, <3>1
    <3> QED
      BY <3>1, <3>2 DEF Unnumbered
  <2>2. CASE \E v \in Worker : hilo'[v].pc = "prepare" /\ p = <<v, 1>>
    <3>1. PICK v \in Worker : hilo'[v].pc = "prepare" /\ p = <<v, 1>>
      BY <2>2
    <3>2. CASE v # w
      BY <1>4, <3>1, <3>2 DEF OthersStay, Unnumbered, At
    <3> QED
      BY <3>1, <3>2
  <2> QED
    BY <2>1, <2>2 DEF Unnumbered, At
<1> QED
  BY <1>5, <1>6

(* The other steps take no request and lead no thread to Prepare. *)
LEMMA StepShrinks ==
  ASSUME ServiceInv, NEW w \in Worker, WorkerStep(w)
  PROVE  Unnumbered' \subseteq Unnumbered \ {<<w, 1>>}
<1>1. OthersStay(w) /\ hilo'[w].pc # "prepare"
  BY WorkerMoves, StepsInOrder DEF ServiceInv, InOrder
<1> SUFFICES ASSUME NEW p \in Unnumbered' PROVE p \in Unnumbered \ {<<w, 1>>}
  OBVIOUS
<1>2. CASE \E d \in Client : conn'[d].state = "sent" /\ p = <<d, 0>>
  BY <1>2, WorkerSent DEF Unnumbered
<1>3. CASE \E v \in Worker : hilo'[v].pc = "prepare" /\ p = <<v, 1>>
  BY <1>1, <1>3 DEF OthersStay, Unnumbered, At
<1> QED
  BY <1>2, <1>3 DEF Unnumbered, At

LEMMA PaidWorker ==
  ASSUME ServiceInv, NumbersPaid, ordenes \in Nat, UNCHANGED ordenes,
         NEW w \in Worker, tratar_peticion(w) \/ WorkerStep(w)
  PROVE  NumbersPaid'
<1> DEFINE P == Unnumbered
<1>1. IsFiniteSet(P) /\ Cardinality(P) \in Nat
  BY FS_CardinalityType DEF NumbersPaid
<1>2. \A s \in User : LastId(s) \in Nat /\ LastId(s) + Cardinality(P) <= ordenes
  BY LastIdIsNat DEF NumbersPaid, ServiceInv
<1>3. ASSUME Prepare(w)
      PROVE  IsFiniteSet(P') /\ Cardinality(P') + 1 <= Cardinality(P)
  <2>1. <<w, 1>> \in P
    BY <1>3 DEF Prepare, Unnumbered
  <2>2. P' \subseteq P \ {<<w, 1>>}
    BY <1>3, StepShrinks DEF WorkerStep
  <2> HIDE DEF P
  <2> QED
    BY <1>1, <2>1, <2>2, Loses
<1>4. IsFiniteSet(P') /\ Cardinality(P') <= Cardinality(P)
  <2>1. CASE tratar_peticion(w)
    <3>1. PICK a \in P : P' \subseteq (P \ {a}) \cup {<<w, 1>>}
      BY <2>1, AcceptSwaps
    <3> HIDE DEF P
    <3> QED
      BY <1>1, <3>1, Swaps
  <2>2. CASE WorkerStep(w)
    <3>1. P' \subseteq P
      BY <2>2, StepShrinks
    <3> HIDE DEF P
    <3> QED
      BY <1>1, <3>1, Shrinks
  <2> QED
    BY <2>1, <2>2
<1>5. Cardinality(P') \in Nat
  BY <1>4, FS_CardinalityType
<1>6. ASSUME NEW s \in User PROVE LastId(s)' + Cardinality(P') <= ordenes'
  <2> HIDE DEF P
  <2>1. LastId(s) \in Nat /\ LastId(s) + Cardinality(P) <= ordenes
    BY <1>2
  <2>2. CASE LastId(s)' = LastId(s) \/ LastId(s)' = 0
    BY <1>1, <1>4, <1>5, <2>1, <2>2
  <2>3. CASE Prepare(w) /\ LastId(s)' = NextId(LastId(s))
    <3>1. NextId(LastId(s)) \in Nat /\ NextId(LastId(s)) <= LastId(s) + 1
      BY <2>1, BoundAssumption DEF NextId
    <3>2. Cardinality(P') + 1 <= Cardinality(P)
      BY <1>3, <2>3
    <3> HIDE DEF NextId
    <3> QED
      BY <1>1, <1>5, <2>1, <2>3, <3>1, <3>2
  <2> QED
    BY <2>2, <2>3, LastIdSteps
<1> QED
  BY <1>4, <1>6 DEF NumbersPaid

(* A command is a request more and one more command typed. *)
LEMMA PaidClient ==
  ASSUME IInv, NumbersPaid, NEW c \in Client, ClientNext(c)
  PROVE  NumbersPaid'
<1> DEFINE P == Unnumbered
<1>1. conn \in [Client -> Conn] /\ ordenes \in Nat
  BY BoundAssumption DEF IInv, ServiceInv, ConnInv, NetTypeOK, ClientTypeOK
<1>2. UNCHANGED <<usuarios, hilo>>
  BY DEF ClientNext, serverVars, dbVars, hilosVars
<1>3. \A s \in User : /\ LastId(s)' = LastId(s) /\ LastId(s) \in Nat
                      /\ LastId(s) + Cardinality(P) <= ordenes
  BY <1>2, LastIdIsNat DEF LastId, Exists, NumbersPaid, IInv, ServiceInv
<1>4. IsFiniteSet(P) /\ Cardinality(P) \in Nat
  BY FS_CardinalityType DEF NumbersPaid
<1>5. ASSUME \A d \in Client \ {c} : conn'[d] = conn[d]
      PROVE  P' \subseteq P \cup {<<c, 0>>}
  BY <1>2, <1>5 DEF Unnumbered, At
<1>6. ASSUME \A d \in Client : conn'[d].state = "sent" => conn[d].state = "sent"
      PROVE  P' \subseteq P
  BY <1>2, <1>6 DEF Unnumbered, At
<1>7. ASSUME IsFiniteSet(P'), Cardinality(P') <= Cardinality(P) + (ordenes' - ordenes),
             ordenes' \in Nat
      PROVE  NumbersPaid'
  <2>1. Cardinality(P') \in Nat
    BY <1>7, FS_CardinalityType
  <2>2. ASSUME NEW s \in User PROVE LastId(s)' + Cardinality(P') <= ordenes'
    <3>1. LastId(s)' = LastId(s) /\ LastId(s) \in Nat /\ LastId(s) + Cardinality(P) <= ordenes
      BY <1>3
    <3> HIDE DEF P
    <3> QED
      BY <1>1, <1>4, <1>7, <2>1, <3>1
  <2> QED
    BY <1>7, <2>2 DEF NumbersPaid
<1>8. CASE /\ \A d \in Client \ {c} : conn'[d] = conn[d]
           /\ ordenes' = ordenes + 1
  <2>1. IsFiniteSet(P') /\ Cardinality(P') <= Cardinality(P) + 1
    <3>1. P' \subseteq P \cup {<<c, 0>>}
      BY <1>5, <1>8
    <3> HIDE DEF P
    <3> QED
      BY <1>4, <3>1, Gains
  <2>2. ordenes' - ordenes = 1 /\ ordenes' \in Nat
    BY <1>1, <1>8
  <2> HIDE DEF P
  <2> QED
    BY <1>7, <2>1, <2>2
<1>9. CASE /\ \A d \in Client : conn'[d].state = "sent" => conn[d].state = "sent"
           /\ ordenes' = ordenes
  <2>1. IsFiniteSet(P') /\ Cardinality(P') <= Cardinality(P)
    <3>1. P' \subseteq P
      BY <1>6, <1>9
    <3> HIDE DEF P
    <3> QED
      BY <1>4, <3>1, Shrinks
  <2>2. ordenes' \in Nat /\ Cardinality(P) + (ordenes' - ordenes) = Cardinality(P)
    BY <1>1, <1>4, <1>9
  <2> HIDE DEF P
  <2> QED
    BY <1>7, <2>1, <2>2
<1>10. CASE Command(c)
  <2>1. ordenes' = ordenes + 1
    BY <1>10 DEF Command, account, connect, send, quit, Typed
  <2>2. UNCHANGED conn \/ \E r : conn' = [conn EXCEPT ![c] = r]
    BY <1>10 DEF Command, account, connect, send, quit, Request_
  <2>3. \A d \in Client \ {c} : conn'[d] = conn[d]
    BY <1>1, <2>2
  <2> QED
    BY <1>8, <2>1, <2>3
<1>11. CASE Continue(c) \/ Killed(c)
  <2>1. ordenes' = ordenes
    BY <1>11 DEF Continue, CommandDone, ConnectOK, ConnectFailed, DisconnectDone, Replied,
                 listener_thread, Killed, clientVars
  <2>2. UNCHANGED conn \/ conn' = [conn EXCEPT ![c] = NoConn]
    BY <1>11 DEF Continue, CommandDone, ConnectOK, ConnectFailed, DisconnectDone, Replied,
                 listener_thread, Killed
  <2>3. \A d \in Client : conn'[d].state = "sent" => conn[d].state = "sent"
    BY <1>1, <2>2 DEF NoConn
  <2> QED
    BY <1>9, <2>1, <2>3
<1> QED
  BY <1>10, <1>11 DEF ClientNext

LEMMA PaidNext == IInv /\ NumbersPaid /\ [Next]_vars => NumbersPaid'
<1> SUFFICES ASSUME IInv, NumbersPaid, [Next]_vars PROVE NumbersPaid'
  OBVIOUS
<1>1. ordenes \in Nat
  BY BoundAssumption DEF IInv, ClientTypeOK
<1>2. ASSUME NEW w \in Worker, ServerNext(w) PROVE NumbersPaid'
  BY <1>1, <1>2, PaidWorker DEF ServerNext, IInv, clientVars
<1>3. ASSUME NEW c \in Client, ClientNext(c) PROVE NumbersPaid'
  BY <1>3, PaidClient
<1>4. CASE ServerCrash /\ UNCHANGED clientVars
  <2> DEFINE P == Unnumbered
  <2>1. UNCHANGED <<usuarios, ordenes>>
    BY <1>4 DEF ServerCrash, dbVars, clientVars
  <2>2. P' \subseteq P
    <3>1. \A w \in Worker : hilo'[w].pc # "prepare"
      BY <1>4 DEF ServerCrash, IdleThread
    <3>2. \A c \in Client : conn'[c].state = "sent" => conn[c].state = "sent"
      <4>1. conn \in [Client -> Conn]
        BY DEF IInv, ServiceInv, ConnInv, NetTypeOK
      <4> SUFFICES ASSUME NEW c \in Client, conn'[c].state = "sent" PROVE conn[c].state = "sent"
        OBVIOUS
      <4>2. conn'[c] = IF conn[c].state \in {"sent", "open"}
                       THEN [conn[c] EXCEPT !.state = "replied", !.code = -1, !.worker = None]
                       ELSE conn[c]
        BY <1>4 DEF ServerCrash
      <4> QED
        BY <4>1, <4>2 DEF Conn
    <3> QED
      BY <3>1, <3>2 DEF Unnumbered, At
  <2>3. IsFiniteSet(P) /\ Cardinality(P) \in Nat
    BY FS_CardinalityType DEF NumbersPaid
  <2>4. /\ IsFiniteSet(P') /\ Cardinality(P') <= Cardinality(P)
        /\ Cardinality(P') \in Nat
    <3> HIDE DEF P
    <3> QED
      BY <2>2, <2>3, Shrinks, FS_CardinalityType
  <2>5. ASSUME NEW s \in User PROVE LastId(s)' + Cardinality(P') <= ordenes'
    <3>1. /\ LastId(s)' = LastId(s) /\ LastId(s) \in Nat
          /\ LastId(s) + Cardinality(P) <= ordenes
      BY <2>1, LastIdIsNat DEF LastId, Exists, NumbersPaid, IInv, ServiceInv
    <3> HIDE DEF P
    <3> QED
      BY <1>1, <2>1, <2>3, <2>4, <3>1
  <2> QED
    BY <2>4, <2>5 DEF NumbersPaid
<1>5. CASE UNCHANGED vars
  <2>1. UNCHANGED <<usuarios, hilo, conn, ordenes>>
    BY <1>5 DEF vars, serverVars, dbVars, hilosVars, netVars, clientVars
  <2>2. Unnumbered' = Unnumbered /\ \A s \in User : LastId(s)' = LastId(s)
    BY <2>1 DEF Unnumbered, At, LastId, Exists
  <2> QED
    BY <2>1, <2>2 DEF NumbersPaid
<1> QED
  BY <1>2, <1>3, <1>4, <1>5 DEF Next

LEMMA PaidInit == Init => NumbersPaid
<1> SUFFICES ASSUME Init PROVE NumbersPaid
  OBVIOUS
<1>1. \A c \in Client : conn[c].state # "sent"
  BY DEF Init, NetInit, NoConn
<1>2. \A w \in Worker : hilo[w].pc # "prepare"
  BY DEF Init, ServerInit, IdleThread
<1>3. Unnumbered = {}
  BY <1>1, <1>2 DEF Unnumbered, At
<1>4. IsFiniteSet(Unnumbered) /\ Cardinality(Unnumbered) = 0
  BY <1>3, FS_EmptySet
<1>5. \A s \in User : LastId(s) = 0
  BY DEF Init, DbInit, LastId, Exists, NewLine
<1>6. ordenes = 0
  BY DEF Init, ClientInit
<1> QED
  BY <1>4, <1>5, <1>6 DEF NumbersPaid

(* The thread has a message and has not answered: its number is new. *)
Fresh(w) == At(w, "reply") /\ hilo[w].code = 0 /\ IsSend(Req(w))

(* The number of message m is one its sender has been given. *)
Given(m) == m.sender \in bajas \/ m.id <= LastId(m.sender)

(* Two messages with one number, of a sender that registered once. *)
Clash(m, k) == m.sender = k.sender /\ m.id = k.id /\ m.sender \notin bajas

NumbersInv ==
  /\ \A x \in prometidos : Given(x.msg)
  /\ \A w \in Worker : HasOne(w) => Given(Current(w))
  /\ \A w \in Worker : Fresh(w) => \A x \in prometidos : ~Clash(Current(w), x.msg)
  /\ \A v, w \in Worker : (v # w /\ HasOne(v) /\ HasOne(w)) => ~Clash(Current(v), Current(w))
  /\ NumbersDistinct

LEMMA HasOneFacts ==
  ASSUME ThreadInv, NEW w \in Worker, HasOne(w)
  PROVE  /\ Current(w) \in PendingMsg /\ InHand(w) \in Mail /\ InHand(w).msg = Current(w)
         /\ Current(w).sender \in User /\ Current(w).id \in Nat
<1>1. hilo[w].pc # "idle" /\ UsesMessage(hilo[w])
  BY DEF HasOne, At, UsesMessage, Req
<1> QED
  BY <1>1, ThreadFacts DEF InHand, PendingMsg

(* A thread gets a new message at Prepare, has it accepted, stores it. *)
LEMMA HasOneSteps ==
  ASSUME ServiceInv, NEW w \in Worker, tratar_peticion(w) \/ WorkerStep(w), HasOne(w)'
  PROVE  \/ Prepare(w)
         \/ /\ ReplyAccepted(w) /\ HasOne(w) /\ ~Fresh(w)'
            /\ Current(w)' = Current(w) /\ InHand(w)' = InHand(w)
<1>1. /\ ThreadInv /\ hilo[w] \in Thread
  BY DEF ServiceInv, ThreadInv, GoodThread
<1>2. hilo'[w].pc \in {"store", "reply"}
  BY DEF HasOne, At
<1>3. ASSUME NEW step, Goto(w, step) PROVE hilo'[w].pc = step
  BY <1>1, <1>3, GotoMoves
<1>4. ASSUME NEW res \in -1..3, Answer(w, res), hilo[w].pc # "idle", ~IsSend(Req(w)) PROVE FALSE
  BY <1>1, <1>4, AnswerHasNone
<1>5. ASSUME Return(w) \/ Advance(w) PROVE FALSE
  BY <1>1, <1>2, <1>5, ReturnMoves, AdvanceMoves
<1>6. CASE tratar_peticion(w)
  <2>1. PICK c \in Client :
          /\ conn[c].state = "sent"
          /\ hilo' = [hilo EXCEPT ![w] = [IdleThread EXCEPT
               !.pc = FirstStep(conn[c].req.op), !.client = c, !.req = conn[c].req]]
    BY <1>6 DEF tratar_peticion
  <2>2. conn[c].req.op \in Ops
    BY <2>1 DEF ServiceInv, ConnInv, NetTypeOK, Request
  <2>3. hilo'[w].pc = FirstStep(conn[c].req.op)
    BY <1>1, <2>1, IdleIsGood DEF ThreadInv, GoodThread, Thread
  <2>4. FirstStep(conn[c].req.op) \notin {"store", "reply"}
    BY <2>2 DEF FirstStep, Ops
  <2> QED
    BY <1>2, <2>3, <2>4
<1>7. CASE \/ f_register(w) \/ f_unregister(w) \/ PeerUnknown(w) \/ f_disconnect(w)
           \/ DisconnectInfo(w)
  <2>1. hilo[w].pc \in {"register", "unregister", "connect", "info", "disconnect"}
    BY <1>7 DEF f_register, f_unregister, PeerUnknown, f_disconnect, DisconnectInfo, At
  <2>2. ~IsSend(Req(w))
    BY <1>1, <2>1, NotASend
  <2>3. (\E res \in -1..3 : Answer(w, res)) \/ Goto(w, "disconnect")
    BY <1>7 DEF f_register, f_unregister, PeerUnknown, f_disconnect, DisconnectInfo
  <2> QED
    BY <1>2, <1>3, <1>4, <2>1, <2>2, <2>3
<1>8. CASE f_connect(w)
  <2>1. ~IsSend(Req(w))
    BY <1>1, <1>8, NotASend DEF f_connect, At
  <2>2. hilo'[w].pc = "reply" /\ hilo'[w].req = hilo[w].req
    BY <1>1, <1>8 DEF f_connect, ThreadInv, Thread
  <2> QED
    BY <2>1, <2>2 DEF HasOne, At, Req
<1>9. CASE ReplyAccepted(w)
  <2>1. HasOne(w) /\ Goto(w, "store")
    BY <1>9 DEF ReplyAccepted, HasOne
  <2>2. /\ hilo'[w].pc = "store" /\ InHand(w)' = InHand(w)
        /\ hilo'[w].req = hilo[w].req /\ msgs'[w] = msgs[w]
    BY <1>1, <2>1, GotoMoves DEF Goto, ThreadInv, Thread
  <2>3. Current(w)' = Current(w)
    BY <2>2, SameInHand
  <2> QED
    BY <1>9, <2>1, <2>2, <2>3 DEF Fresh, At
<1>10. CASE ReplyAndReturn(w) \/ DropReceiver(w) \/ Ack(w) \/ DropSender(w)
  BY <1>5, <1>10 DEF ReplyAndReturn, DropReceiver, Ack, DropSender
<1>11. CASE \/ ReplyConnected(w) \/ DeliverMessage(w) \/ DeliverFails(w)
            \/ Delete(w) \/ AckFails(w)
  BY <1>2, <1>3, <1>11 DEF ReplyConnected, DeliverMessage, DeliverFails, Delete, AckFails
<1>12. CASE Store(w)
  BY <1>2, <1>3, <1>5, <1>12 DEF Store
<1>13. CASE Pending(w)
  <2>1. ASSUME hilo' = [hilo EXCEPT ![w].pc = "deliver"] PROVE hilo'[w].pc = "deliver"
    BY <1>1, <2>1 DEF ThreadInv, Thread
  <2> QED
    BY <1>2, <1>5, <1>13, <2>1 DEF Pending
<1>14. CASE AckInfo(w)
  <2>1. ASSUME NEW a, hilo' = [hilo EXCEPT ![w].pc = "ack", ![w].src = a]
        PROVE  hilo'[w].pc = "ack"
    BY <1>1, <2>1 DEF ThreadInv, Thread
  <2> QED
    BY <1>2, <1>5, <1>14, <2>1 DEF AckInfo
<1> QED
  BY <1>6, <1>7, <1>8, <1>9, <1>10, <1>11, <1>12, <1>13, <1>14 DEF WorkerStep

(* db_prepare_message gives the sender's next number, and keeps it. *)
LEMMA PrepareTakes ==
  ASSUME ServiceInv, Steady, NEW w \in Worker, Prepare(w), HasOne(w)',
         NEW s, s = Req(w).user
  PROVE  /\ Current(w)'.sender = s
         /\ Current(w)'.id = NextId(LastId(s))
         /\ LastId(s)' = NextId(LastId(s))
<1> DEFINE r == Req(w).dest
           d == IF usuarios[r].connected = 1 THEN usuarios[r].addr ELSE NoAddr
           m == [sender |-> s, id |-> NextId(usuarios[s].last_id),
                 message |-> Req(w).message, fileName |-> Req(w).op = "SENDATTACH"]
           l == [usuarios[s] EXCEPT !.last_id = NextId(@)]
<1>1. ThreadInv /\ hilo[w] \in Thread /\ hilo[w].pc = "prepare"
  BY DEF ServiceInv, ThreadInv, GoodThread, Prepare, At
<1>2. PICK res \in 0..2 :
        /\ db_prepare_message(s, r, res)
        /\ \/ res # 0 /\ Answer(w, res)
           \/ /\ res = 0
              /\ hilo' = [hilo EXCEPT ![w].pc = "reply", ![w].code = 0, ![w].dest = d]
              /\ msgs' = [msgs EXCEPT ![w] = [i \in {1} |-> m]]
  BY DEF Prepare
<1>3. ~(res # 0 /\ Answer(w, res))
  BY <1>1, AnswerHasNone
<1>4. res = 0 /\ msgs' = [msgs EXCEPT ![w] = [i \in {1} |-> m]]
  BY <1>2, <1>3
<1>5. Exists(s) /\ Rewrite(s, l)
  BY <1>2, <1>4 DEF db_prepare_message, OpenFails, Steady
<1>6. usuarios[s].last_id = LastId(s)
  BY <1>5 DEF LastId
<1>7. l.last_id = NextId(LastId(s))
  BY <1>5, <1>6 DEF Exists, ServiceInv, DbInv, DbTypeOK, Line
<1>8. LastId(s)' = NextId(LastId(s))
  <2> HIDE DEF l
  <2> QED
    BY <1>5, <1>7, RewriteLastId
<1>9. Current(w)' = m
  <2> DEFINE f == [i \in {1} |-> m]
  <2>1. DOMAIN f = {1} /\ f[1] = m
    OBVIOUS
  <2>2. msgs'[w] = f
    BY <1>1, <1>4 DEF ThreadInv
  <2>3. First(f) = 1
    <3>1. {1} \in SUBSET Nat /\ {1} # {}
      OBVIOUS
    <3>2. Min({1}) \in {1}
      BY <3>1, MinOfNaturals
    <3> HIDE DEF f
    <3> QED
      BY <2>1, <3>2 DEF First
  <2> HIDE DEF f, m
  <2> QED
    BY <2>1, <2>2, <2>3 DEF Current
<1>10. m.sender = s /\ m.id = NextId(LastId(s))
  BY <1>6
<1> HIDE DEF m
<1> QED
  BY <1>1, <1>8, <1>9, <1>10

(* While a command is paid for, the number that Prepare takes is larger    *)
(* than all before.                                                        *)
LEMMA NextIsLarger ==
  ASSUME IInv, NumbersPaid, MaxCommands <= MaxId, NEW w \in Worker, Prepare(w)
  PROVE  LET s == Req(w).user IN LastId(s) \in Nat /\ NextId(LastId(s)) = LastId(s) + 1
<1> DEFINE s == Req(w).user
           P == Unnumbered
<1>1. s \in User
  BY ThreadFacts DEF Prepare, At, IInv, ServiceInv
<1>2. LastId(s) \in 0..MaxId /\ LastId(s) + Cardinality(P) <= ordenes
  BY <1>1, LastIdIsNat DEF NumbersPaid, IInv, ServiceInv
<1>3. <<w, 1>> \in P
  BY DEF Prepare, Unnumbered
<1>4. IsFiniteSet(P) /\ Cardinality(P) \in Nat
  BY FS_CardinalityType DEF NumbersPaid
<1>5. Cardinality(P) # 0
  <2> HIDE DEF P
  <2> QED
    BY <1>3, <1>4, FS_EmptySet
<1>6. ordenes \in Nat /\ ordenes <= MaxCommands /\ MaxCommands \in Nat /\ MaxId \in Nat
  BY BoundAssumption DEF IInv, ClientTypeOK
<1>7. LastId(s) < MaxId
  <2> HIDE DEF P
  <2> QED
    BY <1>2, <1>4, <1>5, <1>6
<1> QED
  BY <1>2, <1>6, <1>7 DEF NextId

LEMMA GivenStays ==
  ASSUME IInv, NumbersPaid, Steady, MaxCommands <= MaxId, NEW w \in Worker,
         tratar_peticion(w) \/ WorkerStep(w), NEW m \in PendingMsg, Given(m)
  PROVE  Given(m)'
<1> DEFINE s == m.sender
<1>1. s \in User /\ m.id \in Nat /\ LastId(s) \in Nat /\ bajas \subseteq bajas'
  BY LastIdIsNat, WorkerHistory DEF PendingMsg, IInv, ServiceInv
<1>2. CASE s \in bajas
  BY <1>1, <1>2 DEF Given
<1>3. CASE m.id <= LastId(s)
  <2>1. LastId(s)' = LastId(s) \/ s \in bajas' \/ LastId(s)' = LastId(s) + 1
    BY <1>1, LastIdSteps, NextIsLarger DEF IInv, Steady
  <2> QED
    BY <1>1, <1>3, <2>1 DEF Given
<1> QED
  BY <1>2, <1>3 DEF Given

(* What a thread that is not the one that moves has. *)
LEMMA OthersHave ==
  ASSUME NEW w, OthersStay(w), NEW v \in Worker, v # w
  PROVE  /\ HasOne(v)' <=> HasOne(v)
         /\ Fresh(v)' <=> Fresh(v)
         /\ Current(v)' = Current(v) /\ InHand(v)' = InHand(v)
<1>1. hilo'[v] = hilo[v] /\ msgs'[v] = msgs[v]
  BY DEF OthersStay
<1>2. Current(v)' = Current(v) /\ InHand(v)' = InHand(v)
  BY <1>1, SameInHand
<1> QED
  BY <1>1, <1>2 DEF HasOne, Fresh, At, Req

(* Each message in a thread's hand was there before. *)
NoneTaken ==
  \A v \in Worker :
    HasOne(v)' => /\ HasOne(v)
                  /\ Current(v)' = Current(v)
                  /\ Fresh(v)' => Fresh(v)

(* No thread gets a message and none is accepted: nothing new can clash. *)
LEMMA NumbersKeep ==
  ASSUME NumbersInv, UNCHANGED prometidos, bajas \subseteq bajas', ThreadInv,
         prometidos \subseteq Mail,
         \A m \in PendingMsg : Given(m) => Given(m)',
         NoneTaken
  PROVE  NumbersInv'
<1>1. \A x \in prometidos' : Given(x.msg)'
  BY DEF NumbersInv, Mail
<1>2. ASSUME NEW v \in Worker, HasOne(v)' PROVE Given(Current(v))'
  <2>1. HasOne(v) /\ Current(v)' = Current(v) /\ Current(v) \in PendingMsg
    BY <1>2, HasOneFacts DEF NoneTaken
  <2> DEFINE m == Current(v)
  <2>2. PICK k : k = m
    OBVIOUS
  <2>3. Given(k) /\ k \in PendingMsg
    BY <2>1, <2>2 DEF NumbersInv
  <2>4. Given(k)'
    BY <2>3
  <2> QED
    BY <2>1, <2>2, <2>4 DEF Given
<1>3. ASSUME NEW v \in Worker, Fresh(v)', NEW x \in prometidos'
      PROVE  ~Clash(Current(v), x.msg)'
  <2>1. HasOne(v)'
    BY <1>3 DEF Fresh, HasOne
  <2>2. Fresh(v) /\ Current(v)' = Current(v) /\ ~Clash(Current(v), x.msg)
    BY <1>3, <2>1 DEF NumbersInv, NoneTaken
  <2> QED
    BY <2>2 DEF Clash
<1>4. ASSUME NEW v \in Worker, NEW w \in Worker, v # w, HasOne(v)', HasOne(w)'
      PROVE  ~Clash(Current(v), Current(w))'
  <2>1. ~Clash(Current(v), Current(w))
    BY <1>4 DEF NumbersInv, NoneTaken
  <2>2. Current(v)' = Current(v) /\ Current(w)' = Current(w)
    BY <1>4 DEF NoneTaken
  <2> QED
    BY <2>1, <2>2 DEF Clash
<1>5. NumbersDistinct'
  BY DEF NumbersInv, NumbersDistinct
<1> QED
  BY <1>1, <1>2, <1>3, <1>4, <1>5 DEF NumbersInv

LEMMA NumbersWorker ==
  ASSUME IInv, NumbersPaid, NumbersInv, Steady, MaxCommands <= MaxId, NEW w \in Worker,
         tratar_peticion(w) \/ WorkerStep(w)
  PROVE  NumbersInv'
<1>1. /\ ServiceInv /\ ThreadInv /\ prometidos \subseteq Mail /\ OthersStay(w)
      /\ bajas \subseteq bajas'
  BY WorkerMoves, WorkerHistory DEF IInv, ServiceInv, HistoryInv
<1>2. \A m \in PendingMsg : Given(m) => Given(m)'
  BY GivenStays
<1>3. \A v \in Worker \ {w} : /\ HasOne(v)' <=> HasOne(v)
                              /\ Fresh(v)' <=> Fresh(v)
                              /\ Current(v)' = Current(v) /\ InHand(v)' = InHand(v)
  BY <1>1, OthersHave
<1>4. CASE ReplyAccepted(w)
  <2>1. Fresh(w) /\ HasOne(w) /\ prometidos' = prometidos \cup {InHand(w)}
    BY <1>4 DEF ReplyAccepted, Fresh, HasOne
  <2>2. PICK y : y = InHand(w)
    OBVIOUS
  <2>3. y \in Mail /\ y.msg = Current(w) /\ y.msg \in PendingMsg
    BY <1>1, <2>1, <2>2, HasOneFacts
  <2>4. HasOne(w)' => ~Fresh(w)' /\ Current(w)' = Current(w)
    BY <1>1, <1>4, HasOneSteps DEF ReplyAccepted, Prepare, At
  <2>5. Given(y.msg)'
    BY <1>2, <2>1, <2>3 DEF NumbersInv
  <2>6. \A x \in prometidos' : Given(x.msg)'
    BY <1>1, <1>2, <2>1, <2>2, <2>5 DEF NumbersInv, Mail
  <2>7. ASSUME NEW v \in Worker, HasOne(v)' PROVE Given(Current(v))'
    <3>1. PICK k : k = Current(v)
      OBVIOUS
    <3>2. HasOne(v) /\ Current(v)' = k
      BY <1>3, <2>1, <2>4, <2>7, <3>1
    <3>3. Given(k) /\ k \in PendingMsg
      BY <1>1, <3>1, <3>2, HasOneFacts DEF NumbersInv
    <3>4. Given(k)'
      BY <1>2, <3>3
    <3> QED
      BY <3>2, <3>4 DEF Given
  <2>8. ASSUME NEW v \in Worker, Fresh(v)', NEW x \in prometidos'
        PROVE  ~Clash(Current(v), x.msg)'
    <3>1. HasOne(v)'
      BY <2>8 DEF Fresh, HasOne
    <3>2. v # w
      BY <2>4, <2>8, <3>1
    <3>3. Fresh(v) /\ HasOne(v) /\ Current(v)' = Current(v)
      BY <1>3, <2>8, <3>1, <3>2
    <3>4. ~Clash(Current(v), x.msg)
      <4>1. CASE x \in prometidos
        BY <3>3, <4>1 DEF NumbersInv
      <4>2. CASE x = y
        BY <2>1, <2>3, <3>2, <3>3, <4>2 DEF NumbersInv
      <4> QED
        BY <2>1, <2>2, <2>8, <4>1, <4>2
    <3> QED
      BY <1>1, <3>3, <3>4 DEF Clash
  <2>9. ASSUME NEW v \in Worker, NEW u \in Worker, v # u, HasOne(v)', HasOne(u)'
        PROVE  ~Clash(Current(v), Current(u))'
    <3>1. HasOne(v) /\ Current(v)' = Current(v) /\ HasOne(u) /\ Current(u)' = Current(u)
      BY <1>3, <2>1, <2>4, <2>9
    <3>2. ~Clash(Current(v), Current(u))
      BY <2>9, <3>1 DEF NumbersInv
    <3> QED
      BY <1>1, <3>1, <3>2 DEF Clash
  <2>10. NumbersDistinct'
    <3>1. \A x \in prometidos : ~Clash(y.msg, x.msg)
      BY <2>1, <2>3 DEF NumbersInv
    <3>2. \A x, z \in prometidos : Clash(x.msg, z.msg) => x = z
      BY DEF NumbersInv, NumbersDistinct, Clash
    <3>3. \A x, z \in prometidos \cup {y} : Clash(x.msg, z.msg) => x = z
      BY <3>1, <3>2 DEF Clash
    <3> QED
      BY <1>1, <2>1, <2>2, <3>3 DEF NumbersDistinct, Clash
  <2> QED
    BY <2>6, <2>7, <2>8, <2>9, <2>10 DEF NumbersInv
<1>5. CASE Prepare(w) /\ HasOne(w)'
  <2>1. PICK s \in User : s = Req(w).user
    BY <1>1, <1>5, ThreadFacts DEF Prepare, At
  <2>2. LastId(s) \in Nat /\ NextId(LastId(s)) = LastId(s) + 1
    BY <1>5, <2>1, NextIsLarger
  <2>3. /\ Current(w)'.sender = s /\ Current(w)'.id = LastId(s) + 1
        /\ LastId(s)' = LastId(s) + 1
    BY <1>1, <1>5, <2>1, <2>2, PrepareTakes
  <2>4. UNCHANGED <<prometidos, bajas>>
    BY <1>5 DEF Prepare, historyVars
  <2>5. Given(Current(w))'
    BY <2>2, <2>3 DEF Given
  <2>6. ASSUME NEW m \in PendingMsg, Given(m) PROVE ~Clash(Current(w), m)' /\ ~Clash(m, Current(w))'
    <3>1. m.id \in Nat
      BY <2>6 DEF PendingMsg
    <3>2. m.sender = s /\ s \notin bajas => m.id # LastId(s) + 1
      BY <2>2, <2>6, <3>1 DEF Given
    <3> QED
      BY <2>3, <2>4, <3>2 DEF Clash
  <2>7. \A x \in prometidos' : Given(x.msg)'
    BY <1>1, <1>2, <2>4 DEF NumbersInv, Mail
  <2>8. ASSUME NEW v \in Worker \ {w}, HasOne(v)'
        PROVE  /\ HasOne(v) /\ Current(v)' = Current(v)
               /\ Current(v) \in PendingMsg /\ Given(Current(v)) /\ Given(Current(v))'
    <3>1. HasOne(v) /\ Current(v)' = Current(v)
      BY <1>3, <2>8
    <3>2. PICK k : k = Current(v)
      OBVIOUS
    <3>3. Given(k) /\ k \in PendingMsg
      BY <1>1, <3>1, <3>2, HasOneFacts DEF NumbersInv
    <3>4. Given(k)'
      BY <1>2, <3>3
    <3> QED
      BY <3>1, <3>2, <3>3, <3>4 DEF Given
  <2>9. \A v \in Worker : HasOne(v)' => Given(Current(v))'
    BY <2>5, <2>8
  <2>10. ASSUME NEW v \in Worker, Fresh(v)', NEW x \in prometidos'
         PROVE  ~Clash(Current(v), x.msg)'
    <3>1. CASE v = w
      BY <1>1, <2>4, <2>6, <2>10, <3>1 DEF NumbersInv, Mail
    <3>2. CASE v # w
      <4>1. Fresh(v) /\ Current(v)' = Current(v)
        BY <1>3, <2>10, <3>2
      <4>2. ~Clash(Current(v), x.msg)
        BY <2>4, <2>10, <4>1 DEF NumbersInv
      <4> QED
        BY <2>4, <4>1, <4>2 DEF Clash
    <3> QED
      BY <3>1, <3>2
  <2>11. ASSUME NEW v \in Worker \ {w}, HasOne(v)'
         PROVE  ~Clash(Current(v), Current(w))' /\ ~Clash(Current(w), Current(v))'
    <3>1. PICK k \in PendingMsg : k = Current(v) /\ k = Current(v)' /\ Given(k)
      BY <2>8, <2>11
    <3> QED
      BY <2>6, <3>1 DEF Clash
  <2>12. ASSUME NEW v \in Worker, NEW u \in Worker, v # u, HasOne(v)', HasOne(u)'
         PROVE  ~Clash(Current(v), Current(u))'
    <3>1. CASE v = w \/ u = w
      BY <2>11, <2>12, <3>1
    <3>2. CASE v # w /\ u # w
      <4>1. HasOne(v) /\ Current(v)' = Current(v) /\ HasOne(u) /\ Current(u)' = Current(u)
        BY <2>8, <2>12, <3>2
      <4>2. ~Clash(Current(v), Current(u))
        BY <2>12, <4>1 DEF NumbersInv
      <4> QED
        BY <2>4, <4>1, <4>2 DEF Clash
    <3> QED
      BY <3>1, <3>2
  <2>13. NumbersDistinct'
    BY <2>4 DEF NumbersInv, NumbersDistinct
  <2> QED
    BY <2>7, <2>9, <2>10, <2>12, <2>13 DEF NumbersInv
<1>6. CASE ~ReplyAccepted(w) /\ ~(Prepare(w) /\ HasOne(w)')
  <2>1. UNCHANGED prometidos
    BY <1>6, WorkerHistory
  <2>2. ~HasOne(w)'
    BY <1>1, <1>6, HasOneSteps
  <2>3. NoneTaken
    BY <1>3, <2>2 DEF NoneTaken
  <2> QED
    BY <1>1, <1>2, <2>1, <2>3, NumbersKeep
<1> QED
  BY <1>4, <1>5, <1>6

LEMMA NumbersNext ==
  ASSUME IInv, NumbersPaid, NumbersInv, Steady, MaxCommands <= MaxId, [Next]_vars
  PROVE  NumbersInv'
<1>1. ThreadInv /\ prometidos \subseteq Mail
  BY DEF IInv, ServiceInv, HistoryInv
<1>2. ASSUME NEW w \in Worker, ServerNext(w) PROVE NumbersInv'
  BY <1>2, NumbersWorker DEF ServerNext
<1>3. ASSUME UNCHANGED <<usuarios, prometidos, bajas>>, NoneTaken PROVE NumbersInv'
  <2>1. \A m \in PendingMsg : Given(m) => Given(m)'
    BY <1>3 DEF Given, LastId, Exists
  <2> QED
    BY <1>1, <1>3, <2>1, NumbersKeep
<1>4. CASE UNCHANGED serverVars
  <2>1. UNCHANGED <<usuarios, hilo, msgs, prometidos, bajas>>
    BY <1>4 DEF serverVars, dbVars, hilosVars, historyVars
  <2>2. \A v \in Worker : Current(v)' = Current(v)
    BY <2>1, SameInHand
  <2>3. NoneTaken
    BY <2>1, <2>2 DEF NoneTaken, HasOne, Fresh, At, Req
  <2> QED
    BY <1>3, <2>1, <2>3
<1>5. CASE ServerCrash
  <2>1. UNCHANGED <<usuarios, prometidos, bajas>>
    BY <1>5 DEF ServerCrash, dbVars, historyVars
  <2>2. \A v \in Worker : hilo'[v].pc = "idle"
    BY <1>5 DEF ServerCrash, IdleThread
  <2>3. NoneTaken
    BY <2>2 DEF NoneTaken, HasOne, At
  <2> QED
    BY <1>3, <2>1, <2>3
<1> QED
  BY <1>2, <1>4, <1>5 DEF Next, ClientNext, vars

LEMMA NumbersInit == Init => NumbersInv
<1> SUFFICES ASSUME Init PROVE NumbersInv
  OBVIOUS
<1>1. prometidos = {} /\ \A w \in Worker : hilo[w].pc = "idle"
  BY DEF Init, ServerInit, IdleThread
<1>2. \A w \in Worker : ~HasOne(w) /\ ~Fresh(w)
  BY <1>1 DEF HasOne, Fresh, At
<1> QED
  BY <1>1, <1>2 DEF NumbersInv, NumbersDistinct

(* Until its numbers wrap, no two accepted messages of a sender have the   *)
(* same number, however many threads take numbers at the same time and     *)
(* whatever crashes, unless the sender was unregistered in between.        *)
THEOREM NumbersAreDistinct ==
  ASSUME ~OpenMayFail, MaxCommands <= MaxId
  PROVE  Spec => []NumbersDistinct
<1>1. IInv /\ NumbersPaid /\ NumbersInv /\ [Next]_vars => NumbersInv'
  BY NumbersNext DEF Steady
<1>2. NumbersInv => NumbersDistinct
  BY DEF NumbersInv
<1> QED
  BY <1>1, <1>2, Invariance, PaidInit, PaidNext, NumbersInit, PTL DEF Spec

-----------------------------------------------------------------------------
(* Confirmed mail is not pending. *)

(* x was stored once, and is not in its mailbox any more. *)
Gone(x) == x.msg.sender \in bajas \/ (x \in guardados /\ x \notin Mailbox(x.dest))

GoneInv ==
  /\ \A w \in Worker : At(w, "store") => InHand(w) \notin guardados \/ Current(w).sender \in bajas
  /\ \A w \in Worker : hilo[w].pc \in Deleted => Gone(InHand(w))
  /\ \A c \in Client : \A i \in DOMAIN backlog[c] :
       backlog[c][i].kind = "ACK" => Gone(backlog[c][i].mail)

(* Only a message that is stored now can come to a mailbox. *)
LEMMA GoneStays ==
  ASSUME ServiceInv, MailInv, GoneInv, Steady, NEW w \in Worker,
         tratar_peticion(w) \/ WorkerStep(w), NEW x \in Mail, Gone(x)
  PROVE  Gone(x)'
<1>1. bajas \subseteq bajas' /\ guardados \subseteq guardados' /\ x.dest \in User
  BY WorkerHistory DEF Mail
<1>2. CASE x.msg.sender \in bajas
  BY <1>1, <1>2 DEF Gone
<1>3. CASE x.msg.sender \notin bajas
  <2>1. x \in guardados /\ x \notin Mailbox(x.dest)
    BY <1>3 DEF Gone
  <2>2. CASE Store(w)
    <3>1. At(w, "store") /\ HasOne(w)
      BY <2>2 DEF Store, HasOne
    <3>2. InHand(w).msg = Current(w)
      BY <3>1, HasOneFacts DEF ServiceInv
    <3>3. x # InHand(w)
      BY <1>3, <2>1, <3>1, <3>2 DEF GoneInv
    <3>4. x \notin Mailbox(x.dest)'
      BY <1>1, <2>1, <2>2, <3>3, StoreMailbox, SameMailbox DEF Steady
    <3> QED
      BY <1>1, <2>1, <3>4 DEF Gone
  <2>3. CASE Delete(w)
    BY <1>1, <2>1, <2>3, DeleteMailbox, SameMailbox DEF Gone
  <2>4. CASE f_unregister(w)
    BY <1>1, <2>1, <2>4, UnregisterMailbox, SameMailbox DEF Gone
  <2>5. CASE ~Store(w) /\ ~Delete(w) /\ ~f_unregister(w)
    BY <1>1, <2>1, <2>5, MailboxSteps, SameMailbox DEF Gone
  <2> QED
    BY <2>2, <2>3, <2>4, <2>5
<1> QED
  BY <1>2, <1>3

(* A message that has just been deleted was stored and is gone. *)
LEMMA DeletedIsGone ==
  ASSUME ServiceInv, MailInv, Steady, NEW w \in Worker, Delete(w), NEW x, x = InHand(w)
  PROVE  Gone(x)'
<1>1. hilo[w].pc = "delete" /\ UsesMessage(hilo[w]) /\ hilo[w].pc # "idle"
  BY DEF Delete, At, UsesMessage, Delivering
<1>2. First(msgs[w]) \in DOMAIN msgs[w] /\ Receiver(w) \in User
  BY <1>1, ThreadFacts DEF ServiceInv, Delivering
<1>3. x \in Carried(w) /\ x.dest = Receiver(w) /\ x.msg.id = Current(w).id
  BY <1>2 DEF InHand, Current, Carried
<1>4. x \in guardados
  BY <1>1, <1>3 DEF MailInv, CarriesMail, Deliverable, Delivering, Steady
<1>5. UNCHANGED guardados
  BY DEF Delete, historyVars
<1>6. x \notin Mailbox(x.dest)'
  <2>1. PICK r \in User : r = Receiver(w)
    BY <1>2
  <2>2. Mailbox(r)' = {y \in Mailbox(r) : y.msg.id # Current(w).id}
    BY <2>1, DeleteMailbox DEF Steady
  <2>3. x.dest = r
    BY <1>3, <2>1
  <2> QED
    BY <1>3, <2>2, <2>3
<1> QED
  BY <1>4, <1>5, <1>6 DEF Gone

(* Two threads that store have different messages; so no message is stored *)
(* a second time.                                                          *)
LEMMA StoredOnce ==
  ASSUME ServiceInv, MailInv, NumbersInv, GoneInv, NEW w \in Worker,
         tratar_peticion(w) \/ WorkerStep(w), NEW v \in Worker, At(v, "store")'
  PROVE  (InHand(v) \notin guardados \/ Current(v).sender \in bajas)'
<1>1. /\ OthersStay(w) /\ bajas \subseteq bajas' /\ ThreadInv
      /\ guardados' \subseteq guardados \cup {InHand(w)}
      /\ Store(w) \/ UNCHANGED guardados
  BY WorkerMoves, WorkerHistory DEF ServiceInv, Store
<1>2. HasOne(v)'
  BY DEF HasOne
<1>3. CASE v = w
  <2>1. ReplyAccepted(w) /\ HasOne(w) /\ Current(w)' = Current(w) /\ InHand(w)' = InHand(w)
    <3>1. ~Prepare(w)
      BY <1>3, PrepareCarries DEF At
    <3> QED
      BY <1>2, <1>3, <3>1, HasOneSteps
  <2>2. Fresh(w) /\ UNCHANGED guardados
    BY <2>1 DEF ReplyAccepted, Fresh
  <2>3. InHand(w).msg = Current(w)
    BY <1>1, <2>1, HasOneFacts
  <2>4. InHand(w) \in guardados => Current(w).sender \in bajas
    BY <2>2, <2>3 DEF NumbersInv, MailInv, Clash
  <2> QED
    BY <1>1, <1>3, <2>1, <2>2, <2>4
<1>4. CASE v # w
  <2>1. At(v, "store") /\ InHand(v)' = InHand(v) /\ Current(v)' = Current(v)
    BY <1>1, <1>4, OthersHave DEF OthersStay, At
  <2>2. InHand(v) \notin guardados \/ Current(v).sender \in bajas
    BY <2>1 DEF GoneInv
  <2>3. Store(w) => InHand(v) # InHand(w) \/ Current(v).sender \in bajas
    <3> SUFFICES ASSUME Store(w), InHand(v) = InHand(w) PROVE Current(v).sender \in bajas
      OBVIOUS
    <3>1. HasOne(v) /\ HasOne(w)
      BY <2>1 DEF HasOne, Store
    <3>2. Current(v) = Current(w)
      BY <1>1, <3>1, HasOneFacts
    <3> QED
      BY <1>4, <3>1, <3>2 DEF NumbersInv, Clash
  <2> QED
    BY <1>1, <2>1, <2>2, <2>3
<1> QED
  BY <1>3, <1>4

LEMMA GoneWorker ==
  ASSUME ServiceInv, MailInv, NumbersInv, GoneInv, Steady, NEW w \in Worker,
         tratar_peticion(w) \/ WorkerStep(w)
  PROVE  GoneInv'
<1>1. OthersStay(w) /\ ConnInv /\ NetTypeOK
  BY WorkerMoves DEF ServiceInv, ConnInv
<1>2. ASSUME NEW v \in Worker, hilo[v].pc \in Deleted
      PROVE  InHand(v) \in Mail /\ Gone(InHand(v))
  BY <1>2, DeliveringFacts DEF Deleted, Delivering, GoneInv
<1>3. ASSUME NEW v \in Worker, hilo'[v].pc \in Deleted PROVE Gone(InHand(v))'
  <2>1. PICK x : x = InHand(v)
    OBVIOUS
  <2>2. CASE v # w
    <3>1. hilo[v].pc \in Deleted /\ InHand(v)' = x
      BY <1>1, <1>3, <2>1, <2>2, OthersHave DEF OthersStay
    <3>2. Gone(x)'
      BY <1>2, <2>1, <3>1, GoneStays
    <3> QED
      BY <3>1, <3>2 DEF Gone
  <2>3. CASE v = w
    <3>1. InHand(w)' = x
      BY <1>3, <2>1, <2>3, WorkerMoves DEF Deleted, Pushed
    <3>2. ~tratar_peticion(w)
      <4> SUFFICES ASSUME tratar_peticion(w) PROVE FALSE
        OBVIOUS
      <4>1. PICK c \in Client :
              /\ conn[c].state = "sent"
              /\ hilo' = [hilo EXCEPT ![w] = [IdleThread EXCEPT
                   !.pc = FirstStep(conn[c].req.op), !.client = c, !.req = conn[c].req]]
        BY DEF tratar_peticion
      <4>2. conn[c].req.op \in Ops
        BY <4>1 DEF ServiceInv, ConnInv, NetTypeOK, Request
      <4>3. hilo'[w].pc = FirstStep(conn[c].req.op)
        BY <4>1, IdleIsGood DEF ServiceInv, ThreadInv, GoodThread, Thread
      <4>4. FirstStep(conn[c].req.op) \notin Deleted
        BY <4>2 DEF FirstStep, Ops, Deleted
      <4> QED
        BY <1>3, <2>3, <4>3, <4>4
    <3>3. Delete(w) \/ hilo[w].pc \in Deleted
      <4>1. InOrder(w)
        BY <3>2, StepsInOrder DEF ServiceInv
      <4> QED
        BY <1>3, <2>3, <4>1 DEF InOrder, AckInfo, AckFails, At, Deleted
    <3>4. Gone(x)'
      <4>1. CASE Delete(w)
        BY <2>1, <2>3, <4>1, DeletedIsGone
      <4>2. CASE hilo[w].pc \in Deleted
        BY <1>2, <2>1, <2>3, <4>2, GoneStays
      <4> QED
        BY <3>3, <4>1, <4>2
    <3> QED
      BY <2>3, <3>1, <3>4 DEF Gone
  <2> QED
    BY <2>2, <2>3
<1>4. ASSUME NEW c \in Client, NEW i \in DOMAIN backlog[c], backlog[c][i].kind = "ACK",
             NEW x, x = backlog[c][i].mail
      PROVE  Gone(x)'
  <2>1. backlog[c][i] \in Push
    BY <1>1 DEF NetTypeOK
  <2>2. x \in Mail /\ Gone(x)
    BY <1>4, <2>1 DEF Push, GoneInv
  <2> QED
    BY <2>2, GoneStays
<1>5. ASSUME NEW c \in Client, NEW i \in DOMAIN backlog'[c], backlog'[c][i].kind = "ACK"
      PROVE  Gone(backlog[c][i].mail)'
  <2>1. PICK x : x = backlog'[c][i].mail
    OBVIOUS
  <2> SUFFICES Gone(x)'
    BY <2>1 DEF Gone
  <2>2. ASSUME i \in DOMAIN backlog[c], backlog'[c][i] = backlog[c][i] PROVE Gone(x)'
    BY <1>4, <1>5, <2>1, <2>2
  <2>3. CASE UNCHANGED backlog
    BY <1>5, <2>2, <2>3
  <2>4. CASE DeliverMessage(w)
    <3> DEFINE p == [kind |-> "MESSAGE", for |-> Receiver(w), mail |-> InHand(w)]
    <3>1. hilo[w].pc = "deliver" /\ Deliver(hilo[w].dest, p)
      BY <2>4 DEF DeliverMessage, At
    <3>2. p \in Push /\ p.kind # "ACK"
      BY <3>1, DeliveringFacts DEF Delivering, Push
    <3> HIDE DEF p
    <3> QED
      BY <1>1, <1>5, <2>2, <3>1, <3>2, DeliverAppends
  <2>5. CASE Ack(w)
    <3> DEFINE p == [kind |-> "ACK", for |-> Current(w).sender, mail |-> InHand(w)]
    <3>1. hilo[w].pc = "ack" /\ Deliver(hilo[w].src, p)
      BY <2>5 DEF Ack, At
    <3>2. p \in Push /\ p.mail = InHand(w)
      BY <3>1, DeliveringFacts DEF Delivering, Push
    <3>3. x = InHand(w) => Gone(x)'
      BY <1>2, <3>1, GoneStays DEF Deleted
    <3> HIDE DEF p
    <3> QED
      BY <1>1, <1>5, <2>1, <2>2, <3>1, <3>2, <3>3, DeliverAppends
  <2>6. UNCHANGED backlog \/ DeliverMessage(w) \/ Ack(w)
    BY DEF tratar_peticion, WorkerStep, f_register, f_unregister, PeerUnknown, f_connect,
           DisconnectInfo, f_disconnect, Prepare, ReplyAndReturn, ReplyConnected, ReplyAccepted,
           SendCode, Store, Pending, DeliverFails, DropReceiver, Delete, AckInfo, AckFails,
           DropSender, netVars
  <2> QED
    BY <2>3, <2>4, <2>5, <2>6
<1> QED
  BY <1>3, <1>5, StoredOnce DEF GoneInv

LEMMA GoneNext ==
  ASSUME IInv, MailInv, NumbersInv, GoneInv, Steady, [Next]_vars
  PROVE  GoneInv'
<1>1. ASSUME NEW w \in Worker, ServerNext(w) PROVE GoneInv'
  BY <1>1, GoneWorker DEF ServerNext, IInv
<1>2. ASSUME UNCHANGED <<mensajes, guardados, bajas>>, NEW x, Gone(x) PROVE Gone(x)'
  BY <1>2 DEF Gone, Mailbox
<1>3. ASSUME UNCHANGED <<mensajes, guardados, bajas, hilo, msgs>>
      PROVE  /\ \A v \in Worker : At(v, "store")' =>
                  (InHand(v) \notin guardados \/ Current(v).sender \in bajas)'
             /\ \A v \in Worker : hilo'[v].pc \in Deleted => Gone(InHand(v))'
  <2>1. ASSUME NEW v \in Worker
        PROVE  InHand(v)' = InHand(v) /\ Current(v)' = Current(v)
    BY <1>3, SameInHand
  <2>2. ASSUME NEW v \in Worker, hilo'[v].pc \in Deleted PROVE Gone(InHand(v))'
    <3>1. PICK x : x = InHand(v)
      OBVIOUS
    <3>2. Gone(x)
      BY <1>3, <2>2, <3>1 DEF GoneInv
    <3>3. Gone(x)'
      BY <1>2, <1>3, <3>2
    <3> QED
      BY <2>1, <3>1, <3>3 DEF Gone
  <2> QED
    BY <1>3, <2>1, <2>2 DEF GoneInv, At
<1>4. ASSUME UNCHANGED <<mensajes, guardados, bajas>>,
             NEW d \in Client, NEW i \in DOMAIN backlog'[d], backlog'[d][i].kind = "ACK",
             \E j \in DOMAIN backlog[d] : backlog'[d][i] = backlog[d][j]
      PROVE  Gone(backlog[d][i].mail)'
  <2>1. PICK j \in DOMAIN backlog[d] : backlog'[d][i] = backlog[d][j]
    BY <1>4
  <2>2. PICK x : x = backlog[d][j].mail
    OBVIOUS
  <2>3. Gone(x)
    BY <1>4, <2>1, <2>2 DEF GoneInv
  <2>4. Gone(x)'
    BY <1>2, <1>4, <2>3
  <2> QED
    BY <2>1, <2>2, <2>4 DEF Gone
<1>5. ASSUME NEW c \in Client, ClientNext(c) PROVE GoneInv'
  <2>1. UNCHANGED <<mensajes, guardados, bajas, hilo, msgs>>
    BY <1>5 DEF ClientNext, serverVars, dbVars, hilosVars, historyVars
  <2>2. ASSUME NEW d \in Client, NEW i \in DOMAIN backlog'[d], backlog'[d][i].kind = "ACK"
        PROVE  Gone(backlog[d][i].mail)'
    <3>1. \E j \in DOMAIN backlog[d] : backlog'[d][i] = backlog[d][j]
      BY <1>5, ClientQueues
    <3> QED
      BY <1>4, <2>1, <2>2, <3>1
  <2> QED
    BY <1>3, <2>1, <2>2 DEF GoneInv
<1>6. CASE ServerCrash
  <2>1. UNCHANGED <<mensajes, guardados, bajas, backlog>>
    BY <1>6 DEF ServerCrash, dbVars, historyVars
  <2>2. \A v \in Worker : hilo'[v].pc = "idle"
    BY <1>6 DEF ServerCrash, IdleThread
  <2>3. ASSUME NEW d \in Client, NEW i \in DOMAIN backlog'[d], backlog'[d][i].kind = "ACK"
        PROVE  Gone(backlog[d][i].mail)'
    BY <1>4, <2>1, <2>3
  <2> QED
    BY <2>2, <2>3 DEF GoneInv, At, Deleted
<1>7. CASE UNCHANGED vars
  <2>1. UNCHANGED <<mensajes, guardados, bajas, hilo, msgs, backlog>>
    BY <1>7 DEF vars, serverVars, dbVars, hilosVars, historyVars, netVars
  <2>2. ASSUME NEW d \in Client, NEW i \in DOMAIN backlog'[d], backlog'[d][i].kind = "ACK"
        PROVE  Gone(backlog[d][i].mail)'
    BY <1>4, <2>1, <2>2
  <2> QED
    BY <1>3, <2>1, <2>2 DEF GoneInv
<1> QED
  BY <1>1, <1>5, <1>6, <1>7 DEF Next

LEMMA GoneInit == Init => GoneInv
<1> SUFFICES ASSUME Init PROVE GoneInv
  OBVIOUS
<1>1. \A w \in Worker : hilo[w].pc = "idle"
  BY DEF Init, ServerInit, IdleThread
<1>2. \A c \in Client : backlog[c] = <<>>
  BY DEF Init, NetInit
<1> QED
  BY <1>1, <1>2 DEF GoneInv, At, Deleted

(* While open(2) works and numbers do not wrap, mail whose confirmation is *)
(* in a listener's queue is in no mailbox: the thread deleted it before it *)
(* confirmed it, and no other thread had it still to store.                *)
THEOREM AckedIsGone ==
  ASSUME MaxCommands <= MaxId
  PROVE  Spec => []AckedIsNotPending
<1>1. CASE Steady
  <2>1. IInv /\ NumbersPaid /\ NumbersInv /\ [Next]_vars => NumbersInv'
    BY <1>1, NumbersNext
  <2>2. IInv /\ MailInv /\ NumbersInv /\ GoneInv /\ [Next]_vars => GoneInv'
    BY <1>1, GoneNext
  <2>3. GoneInv => AckedIsNotPending
    BY DEF GoneInv, AckedIsNotPending, Gone
  <2> QED
    BY <2>1, <2>2, <2>3, Invariance, PaidInit, PaidNext, NumbersInit, MailInvInit, MailInvNext,
       GoneInit, PTL DEF Spec
<1>2. CASE ~Steady
  <2>1. AckedIsNotPending
    BY <1>2 DEF AckedIsNotPending
  <2> QED
    BY <2>1, PTL
<1> QED
  BY <1>1, <1>2

=============================================================================
