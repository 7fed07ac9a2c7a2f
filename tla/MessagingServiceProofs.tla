----------------------- MODULE MessagingServiceProofs -----------------------
(***************************************************************************)
(* Proofs about MessagingService, for all values of its constants.         *)
(*                                                                         *)
(* TypeOK is not inductive: that a thread's next step fits the operation   *)
(* it serves, that it has a message in hand where it uses one, and that a  *)
(* request has the fields of its operation are needed as well.  IInv adds  *)
(* them, and DbInv the bound on slots.                                     *)
(***************************************************************************)
EXTENDS MessagingService, FileLemmas

-----------------------------------------------------------------------------
(* What each function of database.c preserves and does, for every set of   *)
(* users and every bound.                                                  *)

(* DbTypeOK with a bound on the slots of every mailbox, which is what      *)
(* makes the end of a file well defined.                                   *)
DbInv == /\ DbTypeOK
         /\ \A u \in User : \E b \in Nat : Within(mensajes[u], b)

LEMMA LineTypes == NewLine \in Line /\ NoAddr \in Addr \cup {NoAddr}
BY BoundAssumption DEF NewLine, Line

(* The next number of a sender is in 1..MaxId: never 0, also at the wrap.  *)
LEMMA NextIdRange == ASSUME NEW n \in 0..MaxId PROVE NextId(n) \in 1..MaxId
BY BoundAssumption DEF NextId

LEMMA DbInitInv == DbInit => DbInv
<1> SUFFICES ASSUME DbInit PROVE DbInv
  OBVIOUS
<1>1. \A c \in Client : Session[c].user # None => SessionAddr(c) \in Addr
  BY SessionAssumption, HostAssumption DEF SessionAddr, Addr
<1>2. \A u \in Registered : usuarios[u] \in Line
  <2> SUFFICES ASSUME NEW u \in Registered PROVE usuarios[u] \in Line
    OBVIOUS
  <2>1. CASE \E c \in Client : Session[c].user = u
    <3>1. (CHOOSE c \in Client : Session[c].user = u) \in Client
          /\ Session[CHOOSE c \in Client : Session[c].user = u].user = u
      BY <2>1
    <3>2. u # None
      BY NoneAssumption, RegisteredAssumption
    <3>3. SessionAddr(CHOOSE c \in Client : Session[c].user = u) \in Addr
      BY <1>1, <3>1, <3>2
    <3> QED
      BY <2>1, <3>3, BoundAssumption DEF DbInit, Line
  <2>2. CASE ~ \E c \in Client : Session[c].user = u
    BY <2>2, LineTypes DEF DbInit
  <2> QED
    BY <2>1, <2>2
<1>3. DOMAIN usuarios = Registered /\ usuarios = [u \in Registered |-> usuarios[u]]
  BY DEF DbInit
<1>4. DbTypeOK
  BY <1>2, <1>3, EmptyIsFile, RegisteredAssumption DEF DbInit, DbTypeOK
<1>5. \A u \in User : Within(mensajes[u], 0)
  BY EmptyIsFile DEF DbInit, Within
<1> QED
  BY <1>4, <1>5 DEF DbInv

(* A function that rewrites one line keeps the type and the mailboxes.     *)
LEMMA RewriteInv ==
  ASSUME DbInv, NEW u \in DOMAIN usuarios, NEW l \in Line,
         Rewrite(u, l), UNCHANGED mensajes
  PROVE  DbInv'
BY DEF DbInv, DbTypeOK, Rewrite

LEMMA UnchangedInv == ASSUME DbInv, UNCHANGED dbVars PROVE DbInv'
BY DEF DbInv, DbTypeOK, dbVars

LEMMA RegisterInv ==
  ASSUME DbInv, NEW u \in User, NEW res, db_register(u, res) PROVE DbInv'
<1>1. CASE UNCHANGED dbVars
  BY <1>1, UnchangedInv
<1>2. CASE /\ usuarios' = [v \in DOMAIN usuarios \cup {u} |->
                             IF v = u THEN NewLine ELSE usuarios[v]]
           /\ UNCHANGED mensajes
  BY <1>2, LineTypes DEF DbInv, DbTypeOK
<1> QED
  BY <1>1, <1>2 DEF db_register, OpenFails

LEMMA MailboxInv ==
  ASSUME DbInv, NEW u \in User, NEW f, IsFile(f), NEW b \in Nat, Within(f, b),
         mensajes' = [mensajes EXCEPT ![u] = f],
         DOMAIN usuarios' \subseteq User, usuarios' \in [DOMAIN usuarios' -> Line]
  PROVE  DbInv'
<1>1. DOMAIN mensajes' = User
  BY DEF DbInv, DbTypeOK
<1>2. \A v \in User : mensajes'[v] = IF v = u THEN f ELSE mensajes[v]
  BY DEF DbInv, DbTypeOK
<1>3. \A v \in User : IsFile(mensajes'[v]) /\ \E n \in Nat : Within(mensajes'[v], n)
  BY <1>2 DEF DbInv, DbTypeOK
<1> QED
  BY <1>1, <1>3 DEF DbInv, DbTypeOK, IsFile, Within

LEMMA UnregisterInv ==
  ASSUME DbInv, NEW u \in User, NEW res, db_unregister(u, res) PROVE DbInv'
<1>1. CASE UNCHANGED dbVars
  BY <1>1, UnchangedInv
<1>2. CASE /\ usuarios' = Restrict(usuarios, DOMAIN usuarios \ {u})
           /\ mensajes' = [mensajes EXCEPT ![u] = EmptyFile]
  <2>1. DOMAIN usuarios' \subseteq User /\ usuarios' \in [DOMAIN usuarios' -> Line]
    BY <1>2 DEF DbInv, DbTypeOK, Restrict
  <2>2. Within(EmptyFile, 0)
    BY EmptyIsFile DEF Within
  <2> QED
    BY <1>2, <2>1, <2>2, EmptyIsFile, MailboxInv
<1> QED
  BY <1>1, <1>2 DEF db_unregister, OpenFails

LEMMA ConnectInv ==
  ASSUME DbInv, NEW u \in User, NEW addr \in Addr, NEW res, db_connect(u, addr, res)
  PROVE  DbInv'
<1>1. CASE UNCHANGED dbVars
  BY <1>1, UnchangedInv
<1>2. CASE /\ Exists(u)
           /\ Rewrite(u, [connected |-> 1, addr |-> addr, last_id |-> usuarios[u].last_id])
           /\ UNCHANGED mensajes
  <2>1. [connected |-> 1, addr |-> addr, last_id |-> usuarios[u].last_id] \in Line
    BY <1>2 DEF DbInv, DbTypeOK, Line, Exists
  <2> QED
    BY <1>2, <2>1, RewriteInv DEF Exists
<1> QED
  BY <1>1, <1>2 DEF db_connect, OpenFails

LEMMA DisconnectInv ==
  ASSUME DbInv, NEW u \in User, NEW res, db_disconnect(u, res) PROVE DbInv'
<1>1. CASE UNCHANGED dbVars
  BY <1>1, UnchangedInv
<1>2. CASE /\ Exists(u)
           /\ Rewrite(u, [NewLine EXCEPT !.last_id = usuarios[u].last_id])
           /\ UNCHANGED mensajes
  <2>1. [NewLine EXCEPT !.last_id = usuarios[u].last_id] \in Line
    BY <1>2 DEF DbInv, DbTypeOK, Line, Exists, NewLine
  <2> QED
    BY <1>2, <2>1, RewriteInv DEF Exists
<1> QED
  BY <1>1, <1>2 DEF db_disconnect, OpenFails

LEMMA PrepareInv ==
  ASSUME DbInv, NEW s \in User, NEW r \in User, NEW res, db_prepare_message(s, r, res)
  PROVE  DbInv'
<1>1. CASE UNCHANGED dbVars
  BY <1>1, UnchangedInv
<1>2. CASE /\ Exists(s)
           /\ Rewrite(s, [usuarios[s] EXCEPT !.last_id = NextId(@)])
           /\ UNCHANGED mensajes
  <2>1. usuarios[s] \in Line /\ usuarios[s].last_id \in 0..MaxId
    BY <1>2 DEF DbInv, DbTypeOK, Line, Exists
  <2>2. NextId(usuarios[s].last_id) \in 0..MaxId
    BY <2>1, NextIdRange
  <2>3. [usuarios[s] EXCEPT !.last_id = NextId(@)] \in Line
    BY <2>1, <2>2 DEF Line
  <2> QED
    BY <1>2, <2>3, RewriteInv DEF Exists
<1>3. CASE usuarios' = Restrict(usuarios, {}) /\ UNCHANGED mensajes
  BY <1>3 DEF DbInv, DbTypeOK, Restrict
<1> QED
  BY <1>1, <1>2, <1>3 DEF db_prepare_message, OpenFails

LEMMA StoreInv ==
  ASSUME DbInv, NEW r \in User, NEW m \in PendingMsg, NEW res, db_store_message(r, m, res)
  PROVE  DbInv'
<1>1. CASE UNCHANGED dbVars
  BY <1>1, UnchangedInv
<1>2. CASE /\ mensajes' = [mensajes EXCEPT ![r] = Appended(mensajes[r], m)]
           /\ UNCHANGED usuarios
  <2>1. IsFile(mensajes[r])
    BY DEF DbInv, DbTypeOK
  <2>2. PICK b \in Nat : Within(mensajes[r], b)
    BY DEF DbInv
  <2>3. /\ IsFile(Appended(mensajes[r], m))
        /\ Within(Appended(mensajes[r], m), NextSlot(mensajes[r]))
    BY <2>1, <2>2, AppendedIsFile
  <2>4. NextSlot(mensajes[r]) \in Nat
    BY <2>1, <2>2, NextSlotIsFree
  <2>5. DOMAIN usuarios' \subseteq User /\ usuarios' \in [DOMAIN usuarios' -> Line]
    BY <1>2 DEF DbInv, DbTypeOK
  <2> QED
    BY <1>2, <2>3, <2>4, <2>5, MailboxInv
<1> QED
  BY <1>1, <1>2 DEF db_store_message, OpenFails

LEMMA DeleteInv ==
  ASSUME DbInv, NEW u \in User, NEW id, db_delete_message(u, id) PROVE DbInv'
<1> DEFINE kept == {i \in DOMAIN mensajes[u] : mensajes[u][i].id # id}
<1>1. DOMAIN usuarios' \subseteq User /\ usuarios' \in [DOMAIN usuarios' -> Line]
  BY DEF DbInv, DbTypeOK, db_delete_message
<1>2. CASE mensajes' = [mensajes EXCEPT ![u] = Restrict(mensajes[u], kept)]
  <2>1. PICK b \in Nat : Within(mensajes[u], b)
    BY DEF DbInv
  <2>2. IsFile(Restrict(mensajes[u], kept)) /\ DOMAIN Restrict(mensajes[u], kept) = kept
    BY RestrictIsFile DEF DbInv, DbTypeOK
  <2>3. Within(Restrict(mensajes[u], kept), b)
    BY <2>1, <2>2 DEF Within
  <2> QED
    BY <1>1, <1>2, <2>2, <2>3, MailboxInv
<1>3. CASE mensajes' = [mensajes EXCEPT ![u] = EmptyFile]
  <2>1. Within(EmptyFile, 0)
    BY EmptyIsFile DEF Within
  <2> QED
    BY <1>1, <1>3, <2>1, EmptyIsFile, MailboxInv
<1>4. CASE UNCHANGED mensajes
  BY <1>4, UnchangedInv DEF db_delete_message, dbVars
<1> QED
  BY <1>2, <1>3, <1>4 DEF db_delete_message

-----------------------------------------------------------------------------
(* The service. *)

(* The fields that the handler of the operation reads are there. *)
WellFormed(req) ==
  /\ IsSend(req) => req.dest \in User /\ req.message \in Message
  /\ req.op = "CONNECT" => req.port \in Port

Delivering == {"deliver", "drop_dest", "delete", "ack_info", "ack", "drop_sender"}

(* The step is one of the function that serves the operation. *)
Fits(h) ==
  /\ h.pc \in {"register", "unregister", "info", "disconnect"} =>
       h.req.op \in {"REGISTER", "UNREGISTER", "DISCONNECT"}
  /\ h.pc \in {"prepare", "store"} => IsSend(h.req)
  /\ h.pc \in {"connect", "pending"} => h.req.op = "CONNECT"
  /\ h.pc \in Delivering => IsSend(h.req) \/ h.req.op = "CONNECT"

(* The thread is where it uses the message at the front of its array. *)
UsesMessage(h) ==
  \/ h.pc \in {"store"} \cup (Delivering \ {"drop_dest"})
  \/ h.pc = "reply" /\ h.code = 0 /\ IsSend(h.req)

(* A state of a thread and its array that belong together. *)
GoodThread(h, f) ==
  /\ h \in Thread
  /\ h.pc # "idle" => /\ h.req \in Request
                      /\ h.client \in Client
                      /\ WellFormed(h.req)
                      /\ Fits(h)
  /\ IsFile(f)
  /\ UsesMessage(h) => DOMAIN f # {}

ThreadInv ==
  /\ hilo = [w \in Worker |-> hilo[w]]
  /\ msgs = [w \in Worker |-> msgs[w]]
  /\ \A w \in Worker : GoodThread(hilo[w], msgs[w])

ConnInv ==
  /\ NetTypeOK
  /\ \A c \in Client : IF conn[c].state = "closed" THEN conn[c] = NoConn
                                                 ELSE WellFormed(conn[c].req)

HistoryInv ==
  /\ caidas \in 0..MaxCrashes
  /\ prometidos \subseteq Mail /\ guardados \subseteq Mail /\ entregados \subseteq Mail
  /\ bajas \subseteq User
  /\ direcciones \subseteq [user : User, addr : Addr]

ServiceInv == DbInv /\ ConnInv /\ ThreadInv /\ HistoryInv

IInv == ServiceInv /\ ClientTypeOK

-----------------------------------------------------------------------------
(* Threads. *)

LEMMA IdleIsGood == GoodThread(IdleThread, EmptyFile)
BY EmptyIsFile DEF GoodThread, IdleThread, Thread, Steps, UsesMessage, Delivering

(* A step that gives thread w a good state keeps all threads good. *)
LEMMA ThreadSet ==
  ASSUME ThreadInv, NEW w \in Worker, NEW h, NEW f, GoodThread(h, f),
         hilo' = [hilo EXCEPT ![w] = h],
         msgs' = [msgs EXCEPT ![w] = f]
  PROVE  ThreadInv'
BY DEF ThreadInv, GoodThread, IsFile

LEMMA ThreadKeep == ASSUME ThreadInv, UNCHANGED hilosVars PROVE ThreadInv'
BY DEF ThreadInv, hilosVars, GoodThread, IsFile

LEMMA GotoGood ==
  ASSUME ThreadInv, NEW w \in Worker, hilo[w].pc # "idle",
         NEW step \in Steps \ {"idle", "reply"}, Goto(w, step),
         Fits([hilo[w] EXCEPT !.pc = step]),
         step \in {"store"} \cup (Delivering \ {"drop_dest"}) => UsesMessage(hilo[w])
  PROVE  ThreadInv'
<1> DEFINE h == [hilo[w] EXCEPT !.pc = step]
<1>1. GoodThread(hilo[w], msgs[w])
  BY DEF ThreadInv
<1>2. h \in Thread /\ h.pc = step /\ h.req = hilo[w].req /\ h.client = hilo[w].client
  BY <1>1 DEF GoodThread, Thread
<1>3. GoodThread(h, msgs[w])
  BY <1>1, <1>2 DEF GoodThread, UsesMessage
<1>4. hilo' = [hilo EXCEPT ![w] = h]
  BY DEF Goto
<1>5. msgs' = [msgs EXCEPT ![w] = msgs[w]]
  BY DEF Goto, ThreadInv
<1> QED
  BY <1>3, <1>4, <1>5, ThreadSet

LEMMA AnswerGood ==
  ASSUME ThreadInv, NEW w \in Worker, hilo[w].pc # "idle",
         NEW res \in -1..3, Answer(w, res),
         IsSend(hilo[w].req) => res # 0
  PROVE  ThreadInv'
<1> DEFINE h == [hilo[w] EXCEPT !.pc = "reply", !.code = res]
<1>1. GoodThread(hilo[w], msgs[w])
  BY DEF ThreadInv
<1>2. /\ h \in Thread /\ h.pc = "reply" /\ h.code = res
      /\ h.req = hilo[w].req /\ h.client = hilo[w].client
  BY <1>1 DEF GoodThread, Thread, Steps
<1>3. GoodThread(h, msgs[w])
  BY <1>1, <1>2 DEF GoodThread, UsesMessage, Fits, Delivering
<1>4. hilo' = [hilo EXCEPT ![w] = h]
  BY DEF Answer
<1>5. msgs' = [msgs EXCEPT ![w] = msgs[w]]
  BY DEF Answer, ThreadInv
<1> QED
  BY <1>3, <1>4, <1>5, ThreadSet

LEMMA ReturnGood == ASSUME ThreadInv, NEW w \in Worker, Return(w) PROVE ThreadInv'
BY IdleIsGood, ThreadSet DEF Return

LEMMA AdvanceGood ==
  ASSUME ThreadInv, NEW w \in Worker, hilo[w].pc \in Delivering, DOMAIN msgs[w] # {},
         Advance(w)
  PROVE  ThreadInv'
<1> DEFINE rest == Restrict(msgs[w], DOMAIN msgs[w] \ {First(msgs[w])})
           h == [hilo[w] EXCEPT !.pc = "deliver", !.src = NoAddr]
<1>1. GoodThread(hilo[w], msgs[w])
  BY DEF ThreadInv
<1>2. CASE DOMAIN rest = {}
  BY <1>2, ReturnGood DEF Advance
<1>3. CASE DOMAIN rest # {}
  <2>1. IsFile(rest)
    BY <1>1, RestrictIsFile DEF GoodThread
  <2>2. /\ h \in Thread /\ h.pc = "deliver"
        /\ h.req = hilo[w].req /\ h.client = hilo[w].client
    BY <1>1 DEF GoodThread, Thread, Steps
  <2>3. hilo[w].pc # "idle"
    BY DEF Delivering
  <2>4. Fits(h)
    BY <1>1, <2>2, <2>3 DEF GoodThread, Fits, Delivering
  <2>5. GoodThread(h, rest)
    BY <1>1, <1>3, <2>1, <2>2, <2>3, <2>4 DEF GoodThread
  <2>6. hilo' = [hilo EXCEPT ![w] = h] /\ msgs' = [msgs EXCEPT ![w] = rest]
    BY <1>3 DEF Advance
  <2> QED
    BY <2>5, <2>6, ThreadSet
<1> QED
  BY <1>2, <1>3

(* What a thread that serves a request has. *)
LEMMA ThreadFacts ==
  ASSUME ThreadInv, NEW w \in Worker, hilo[w].pc # "idle"
  PROVE  /\ hilo[w] \in Thread /\ hilo[w].client \in Client
         /\ Req(w) \in Request /\ Req(w).user \in User
         /\ IsSend(Req(w)) => Req(w).dest \in User /\ Req(w).message \in Message
         /\ hilo[w].pc \in Delivering \cup {"store", "pending"} => Receiver(w) \in User
         /\ UsesMessage(hilo[w]) =>
              /\ DOMAIN msgs[w] # {}
              /\ First(msgs[w]) \in DOMAIN msgs[w]
              /\ Current(w) \in PendingMsg
              /\ InHand(w) \in Mail
<1>1. GoodThread(hilo[w], msgs[w])
  BY DEF ThreadInv
<1>2. /\ hilo[w] \in Thread /\ hilo[w].client \in Client
      /\ Req(w) \in Request /\ Req(w).user \in User
      /\ IsSend(Req(w)) => Req(w).dest \in User /\ Req(w).message \in Message
  BY <1>1 DEF GoodThread, WellFormed, Req, Request
<1>3. IsSend(Req(w)) \/ Req(w).op = "CONNECT" => Receiver(w) \in User
  BY <1>2 DEF Receiver
<1>4. hilo[w].pc \in Delivering \cup {"store", "pending"} => Receiver(w) \in User
  BY <1>1, <1>3 DEF GoodThread, Fits, Req
<1>5. ASSUME UsesMessage(hilo[w])
      PROVE  /\ DOMAIN msgs[w] # {}
             /\ First(msgs[w]) \in DOMAIN msgs[w]
             /\ Current(w) \in PendingMsg
             /\ InHand(w) \in Mail
  <2>1. IsFile(msgs[w]) /\ DOMAIN msgs[w] # {}
    BY <1>1, <1>5 DEF GoodThread
  <2>2. First(msgs[w]) \in DOMAIN msgs[w] /\ Current(w) \in PendingMsg
    BY <2>1, FirstIsSlot DEF Current
  <2>3. Receiver(w) \in User
    BY <1>1, <1>3, <1>4, <1>5 DEF GoodThread, UsesMessage, Req
  <2> QED
    BY <2>1, <2>2, <2>3 DEF InHand, Mail
<1> QED
  BY <1>2, <1>4, <1>5

-----------------------------------------------------------------------------
(* Connections. *)

LEMMA ConnKeep == ASSUME ConnInv, UNCHANGED netVars PROVE ConnInv'
BY DEF ConnInv, netVars, NetTypeOK

LEMMA DeliverInv ==
  ASSUME ConnInv, NEW addr, NEW p \in Push, Deliver(addr, p)
  PROVE  ConnInv'
BY DEF ConnInv, NetTypeOK, Deliver

LEMMA SendCodeInv ==
  ASSUME ConnInv, ThreadInv, NEW w \in Worker, hilo[w].pc # "idle", SendCode(w)
  PROVE  ConnInv'
<1> DEFINE c == hilo[w].client
<1>1. c \in Client /\ hilo[w].code \in -1..3
  BY ThreadFacts DEF Thread
<1>2. conn[c] \in Conn
  BY <1>1 DEF ConnInv, NetTypeOK
<1>3. CASE PeerThere(w)
  <2>1. conn[c].state # "closed"
    BY <1>1, <1>3, NoneAssumption DEF ConnInv, PeerThere, NoConn
  <2> QED
    BY <1>1, <1>2, <1>3, <2>1 DEF ConnInv, NetTypeOK, SendCode, Conn
<1>4. CASE ~PeerThere(w)
  BY <1>4 DEF ConnInv, NetTypeOK, SendCode
<1> QED
  BY <1>3, <1>4

LEMMA HistoryKeep == ASSUME HistoryInv, UNCHANGED <<caidas, historyVars>> PROVE HistoryInv'
BY DEF HistoryInv, historyVars

-----------------------------------------------------------------------------
(* The steps of a thread, one lemma for each. *)

LEMMA AcceptInv ==
  ASSUME ServiceInv, NEW w \in Worker, tratar_peticion(w) PROVE ServiceInv'
<1>1. PICK c \in Client :
        /\ conn[c].state = "sent"
        /\ conn' = [conn EXCEPT ![c].state = "open", ![c].worker = w]
        /\ hilo' = [hilo EXCEPT ![w] = [IdleThread EXCEPT
             !.pc = FirstStep(conn[c].req.op), !.client = c, !.req = conn[c].req]]
  BY DEF tratar_peticion
<1> DEFINE h == [IdleThread EXCEPT
             !.pc = FirstStep(conn[c].req.op), !.client = c, !.req = conn[c].req]
<1>2. conn[c] \in Conn /\ conn[c].req \in Request /\ WellFormed(conn[c].req)
  BY <1>1 DEF ServiceInv, ConnInv, NetTypeOK
<1>3. DbInv' /\ HistoryInv'
  BY UnchangedInv, HistoryKeep DEF tratar_peticion, ServiceInv
<1>4. ConnInv'
  BY <1>1, <1>2 DEF ServiceInv, ConnInv, NetTypeOK, tratar_peticion, Conn
<1>5. /\ h \in Thread /\ h.req = conn[c].req /\ h.client = c
      /\ h.pc \in {"register", "unregister", "connect", "info", "prepare"}
      /\ Fits(h)
  <2> DEFINE op == conn[c].req.op
  <2>1. op \in Ops
    BY <1>2 DEF Request
  <2>2. /\ FirstStep(op) \in {"register", "unregister", "connect", "info", "prepare"}
        /\ FirstStep(op) = "prepare" => op \in {"SEND", "SENDATTACH"}
        /\ FirstStep(op) = "connect" => op = "CONNECT"
        /\ FirstStep(op) \in {"register", "unregister", "info"} =>
              op \in {"REGISTER", "UNREGISTER", "DISCONNECT"}
    BY <2>1 DEF FirstStep, Ops
  <2>3. FirstStep(op) \in Steps /\ IdleThread \in Thread
    BY <2>2, IdleIsGood DEF Steps, GoodThread
  <2>4. /\ h.pc = FirstStep(op) /\ h.req = conn[c].req /\ h.client = c
        /\ h \in Thread
    BY <1>2, <2>3 DEF Thread
  <2> HIDE DEF h
  <2> QED
    BY <2>2, <2>4 DEF Fits, IsSend, Delivering
<1>6. IsFile(msgs[w])
  BY DEF ServiceInv, ThreadInv, GoodThread
<1>7. GoodThread(h, msgs[w])
  <2> HIDE DEF h
  <2> QED
    BY <1>2, <1>5, <1>6 DEF GoodThread, UsesMessage, Delivering
<1>8. hilo' = [hilo EXCEPT ![w] = h]
  BY <1>1
<1>9. msgs' = [msgs EXCEPT ![w] = msgs[w]]
  BY DEF tratar_peticion, ServiceInv, ThreadInv
<1>10. ThreadInv'
  <2> HIDE DEF h
  <2> QED
    BY <1>7, <1>8, <1>9, ThreadSet DEF ServiceInv
<1> QED
  BY <1>3, <1>4, <1>10 DEF ServiceInv

(* An operation that is one database call: its result is the answer. *)
LEMMA AnsweredInv ==
  ASSUME ServiceInv, NEW w \in Worker, hilo[w].pc # "idle", ~IsSend(Req(w)),
         NEW res \in -1..3, Answer(w, res), UNCHANGED <<netVars, caidas>>, DbInv',
         HistoryInv'
  PROVE  ServiceInv'
BY AnswerGood, ConnKeep DEF ServiceInv, Req

LEMMA NotASend ==
  ASSUME ThreadInv, NEW w \in Worker,
         hilo[w].pc \in {"register", "unregister", "connect", "info", "disconnect"}
  PROVE  ~IsSend(Req(w))
BY DEF ThreadInv, GoodThread, Fits, Req, IsSend

LEMMA f_registerInv == ASSUME ServiceInv, NEW w \in Worker, f_register(w) PROVE ServiceInv'
<1>1. PICK res \in 0..2 : db_register(Req(w).user, res) /\ Answer(w, res)
  BY DEF f_register
<1>2. hilo[w].pc # "idle" /\ Req(w).user \in User /\ ~IsSend(Req(w))
  BY ThreadFacts, NotASend DEF f_register, At, ServiceInv
<1>3. DbInv' /\ HistoryInv'
  BY <1>1, <1>2, RegisterInv, HistoryKeep DEF f_register, ServiceInv
<1> QED
  BY <1>1, <1>2, <1>3, AnsweredInv DEF f_register

LEMMA f_unregisterInv == ASSUME ServiceInv, NEW w \in Worker, f_unregister(w) PROVE ServiceInv'
<1>1. PICK res \in 0..2 :
        /\ db_unregister(Req(w).user, res)
        /\ bajas' = IF res = 0 THEN bajas \cup {Req(w).user} ELSE bajas
        /\ Answer(w, res)
  BY DEF f_unregister
<1>2. hilo[w].pc # "idle" /\ Req(w).user \in User /\ ~IsSend(Req(w))
  BY ThreadFacts, NotASend DEF f_unregister, At, ServiceInv
<1>3. DbInv'
  BY <1>1, <1>2, UnregisterInv DEF ServiceInv
<1>4. HistoryInv'
  BY <1>1, <1>2 DEF f_unregister, ServiceInv, HistoryInv
<1> QED
  BY <1>1, <1>2, <1>3, <1>4, AnsweredInv DEF f_unregister

LEMMA PeerUnknownInv == ASSUME ServiceInv, NEW w \in Worker, PeerUnknown(w) PROVE ServiceInv'
<1>1. hilo[w].pc # "idle" /\ ~IsSend(Req(w))
  BY NotASend DEF PeerUnknown, ServiceInv
<1>2. DbInv' /\ HistoryInv'
  BY UnchangedInv, HistoryKeep DEF PeerUnknown, ServiceInv
<1> QED
  BY <1>1, <1>2, AnsweredInv DEF PeerUnknown

LEMMA f_connectInv == ASSUME ServiceInv, NEW w \in Worker, f_connect(w) PROVE ServiceInv'
<1> DEFINE addr == [ip |-> HostOf[hilo[w].client], port |-> Req(w).port]
<1>1. PICK res \in 0..3 :
        /\ db_connect(Req(w).user, addr, res)
        /\ hilo' = [hilo EXCEPT ![w].pc = "reply", ![w].code = res, ![w].dest = addr]
        /\ direcciones' = IF res = 0
                          THEN direcciones \cup {[user |-> Req(w).user, addr |-> addr]}
                          ELSE direcciones
  BY DEF f_connect
<1> DEFINE h == [hilo[w] EXCEPT !.pc = "reply", !.code = res, !.dest = addr]
<1>2. GoodThread(hilo[w], msgs[w]) /\ hilo[w].pc = "connect" /\ hilo[w] \in Thread
  BY DEF f_connect, At, ServiceInv, ThreadInv, GoodThread
<1>3. hilo[w].client \in Client /\ Req(w).user \in User /\ ~IsSend(Req(w))
  BY <1>2, ThreadFacts, NotASend DEF ServiceInv
<1>4. Req(w).op = "CONNECT" /\ Req(w).port \in Port
  BY <1>2 DEF GoodThread, Fits, WellFormed, Req
<1>5. addr \in Addr
  BY <1>3, <1>4, HostAssumption DEF Addr
<1>6. /\ h \in Thread /\ h.pc = "reply" /\ h.code = res
      /\ h.req = hilo[w].req /\ h.client = hilo[w].client
  <2> HIDE DEF addr
  <2>1. "reply" \in Steps /\ res \in -1..3 /\ addr \in Addr \cup {NoAddr}
    BY <1>1, <1>5 DEF Steps
  <2> QED
    BY <1>2, <2>1 DEF Thread
<1>7. GoodThread(h, msgs[w])
  <2> HIDE DEF h
  <2> QED
    BY <1>2, <1>3, <1>6 DEF GoodThread, UsesMessage, Fits, Delivering, Req
<1>8. hilo' = [hilo EXCEPT ![w] = h]
  BY <1>1
<1>9. msgs' = [msgs EXCEPT ![w] = msgs[w]]
  BY DEF f_connect, ServiceInv, ThreadInv
<1>10. ThreadInv'
  <2> HIDE DEF h
  <2> QED
    BY <1>7, <1>8, <1>9, ThreadSet DEF ServiceInv
<1>11. DbInv'
  <2> HIDE DEF addr
  <2> QED
    BY <1>1, <1>3, <1>5, ConnectInv DEF ServiceInv
<1>12. ConnInv'
  BY ConnKeep DEF f_connect, ServiceInv
<1>13. HistoryInv'
  <2> HIDE DEF addr
  <2>1. [user |-> Req(w).user, addr |-> addr] \in [user : User, addr : Addr]
    BY <1>3, <1>5
  <2>2. direcciones' \subseteq [user : User, addr : Addr]
    BY <1>1, <2>1 DEF ServiceInv, HistoryInv
  <2> QED
    BY <2>2 DEF f_connect, ServiceInv, HistoryInv
<1> QED
  BY <1>10, <1>11, <1>12, <1>13 DEF ServiceInv

LEMMA DisconnectInfoInv ==
  ASSUME ServiceInv, NEW w \in Worker, DisconnectInfo(w) PROVE ServiceInv'
<1>1. hilo[w].pc = "info" /\ ~IsSend(Req(w))
  BY NotASend DEF DisconnectInfo, At, ServiceInv
<1>2. UNCHANGED dbVars
  BY DEF DisconnectInfo, get_user_info
<1>3. DbInv' /\ ConnInv' /\ HistoryInv'
  BY <1>2, UnchangedInv, ConnKeep, HistoryKeep DEF DisconnectInfo, ServiceInv
<1>4. CASE \E res \in {1, 3} : Answer(w, res)
  BY <1>1, <1>3, <1>4, AnsweredInv DEF DisconnectInfo
<1>5. CASE Goto(w, "disconnect")
  <2>1. hilo[w] \in Thread /\ Fits(hilo[w])
    BY <1>1 DEF ServiceInv, ThreadInv, GoodThread
  <2>2. Fits([hilo[w] EXCEPT !.pc = "disconnect"])
    BY <1>1, <2>1 DEF Fits, Thread, Delivering
  <2>3. ThreadInv'
    BY <1>1, <1>5, <2>2, GotoGood DEF ServiceInv, Steps, Delivering
  <2> QED
    BY <1>3, <2>3 DEF ServiceInv
<1> QED
  BY <1>4, <1>5 DEF DisconnectInfo

LEMMA f_disconnectInv == ASSUME ServiceInv, NEW w \in Worker, f_disconnect(w) PROVE ServiceInv'
<1>1. PICK res \in 0..3 : db_disconnect(Req(w).user, res) /\ Answer(w, res)
  BY DEF f_disconnect
<1>2. hilo[w].pc # "idle" /\ Req(w).user \in User /\ ~IsSend(Req(w))
  BY ThreadFacts, NotASend DEF f_disconnect, At, ServiceInv
<1>3. DbInv' /\ HistoryInv'
  BY <1>1, <1>2, DisconnectInv, HistoryKeep DEF f_disconnect, ServiceInv
<1> QED
  BY <1>1, <1>2, <1>3, AnsweredInv DEF f_disconnect

LEMMA PrepareStepInv == ASSUME ServiceInv, NEW w \in Worker, Prepare(w) PROVE ServiceInv'
<1> DEFINE s == Req(w).user
           r == Req(w).dest
           m == [sender |-> s, id |-> NextId(usuarios[s].last_id),
                 message |-> Req(w).message, fileName |-> Req(w).op = "SENDATTACH"]
           d == IF usuarios[r].connected = 1 THEN usuarios[r].addr ELSE NoAddr
<1>1. PICK res \in 0..2 :
        /\ db_prepare_message(s, r, res)
        /\ \/ res # 0 /\ Answer(w, res)
           \/ /\ res = 0
              /\ hilo' = [hilo EXCEPT ![w].pc = "reply", ![w].code = 0, ![w].dest = d]
              /\ msgs' = [msgs EXCEPT ![w] = [i \in {1} |-> m]]
  BY DEF Prepare
<1>2. GoodThread(hilo[w], msgs[w]) /\ hilo[w].pc = "prepare"
  BY DEF Prepare, At, ServiceInv, ThreadInv
<1>3. IsSend(Req(w))
  BY <1>2 DEF GoodThread, Fits, Req
<1>4. s \in User /\ r \in User /\ Req(w).message \in Message
  BY <1>2, <1>3, ThreadFacts DEF ServiceInv
<1>5. DbInv' /\ ConnInv' /\ HistoryInv'
  BY <1>1, <1>4, PrepareInv, ConnKeep, HistoryKeep DEF Prepare, ServiceInv
<1>6. CASE res # 0 /\ Answer(w, res)
  BY <1>2, <1>5, <1>6, AnswerGood DEF ServiceInv
<1>7. CASE /\ res = 0
           /\ hilo' = [hilo EXCEPT ![w].pc = "reply", ![w].code = 0, ![w].dest = d]
           /\ msgs' = [msgs EXCEPT ![w] = [i \in {1} |-> m]]
  <2> DEFINE h == [hilo[w] EXCEPT !.pc = "reply", !.code = 0, !.dest = d]
             f == [i \in {1} |-> m]
  <2>1. Exists(s) /\ Exists(r)
    BY <1>1, <1>7 DEF db_prepare_message, OpenFails
  <2>2. usuarios[s] \in Line /\ usuarios[r] \in Line
    BY <2>1 DEF Exists, ServiceInv, DbInv, DbTypeOK
  <2>3. NextId(usuarios[s].last_id) \in 1..MaxId
    BY <2>2, NextIdRange DEF Line
  <2>4. m \in PendingMsg
    BY <1>4, <2>3 DEF PendingMsg
  <2>5. IsFile(f) /\ DOMAIN f # {}
    <3> HIDE DEF m
    <3> QED
      BY <2>4 DEF IsFile
  <2>6. d \in Addr \cup {NoAddr}
    BY <2>2 DEF Line
  <2>7. /\ h \in Thread /\ h.pc = "reply" /\ h.code = 0
        /\ h.req = hilo[w].req /\ h.client = hilo[w].client
    <3> HIDE DEF d
    <3>1. "reply" \in Steps /\ 0 \in -1..3
      BY DEF Steps
    <3> QED
      BY <1>2, <2>6, <3>1 DEF GoodThread, Thread
  <2>8. GoodThread(h, f)
    <3> HIDE DEF h, f
    <3> QED
      BY <1>2, <2>5, <2>7 DEF GoodThread, Fits, Delivering
  <2>9. hilo' = [hilo EXCEPT ![w] = h] /\ msgs' = [msgs EXCEPT ![w] = f]
    BY <1>7
  <2>10. ThreadInv'
    <3> HIDE DEF h, f
    <3> QED
      BY <2>8, <2>9, ThreadSet DEF ServiceInv
  <2> QED
    BY <1>5, <2>10 DEF ServiceInv
<1> QED
  BY <1>1, <1>6, <1>7

LEMMA ReplyAndReturnInv ==
  ASSUME ServiceInv, NEW w \in Worker, ReplyAndReturn(w) PROVE ServiceInv'
<1>1. hilo[w].pc # "idle" /\ SendCode(w) /\ Return(w)
  BY DEF ReplyAndReturn, At
<1>2. ConnInv' /\ ThreadInv'
  BY <1>1, SendCodeInv, ReturnGood DEF ServiceInv
<1>3. DbInv' /\ HistoryInv'
  BY <1>1, UnchangedInv, HistoryKeep DEF ReplyAndReturn, SendCode, ServiceInv
<1> QED
  BY <1>2, <1>3 DEF ServiceInv

LEMMA ReplyConnectedInv ==
  ASSUME ServiceInv, NEW w \in Worker, ReplyConnected(w) PROVE ServiceInv'
<1>1. hilo[w].pc = "reply" /\ SendCode(w) /\ Goto(w, "pending") /\ Req(w).op = "CONNECT"
  BY DEF ReplyConnected, At
<1>2. Fits([hilo[w] EXCEPT !.pc = "pending"])
  BY <1>1 DEF Fits, Req, Delivering, ServiceInv, ThreadInv, GoodThread, Thread
<1>3. ConnInv' /\ ThreadInv'
  BY <1>1, <1>2, SendCodeInv, GotoGood DEF ServiceInv, Steps, Delivering
<1>4. DbInv' /\ HistoryInv'
  BY <1>1, UnchangedInv, HistoryKeep DEF ReplyConnected, SendCode, ServiceInv
<1> QED
  BY <1>3, <1>4 DEF ServiceInv

LEMMA ReplyAcceptedInv ==
  ASSUME ServiceInv, NEW w \in Worker, ReplyAccepted(w) PROVE ServiceInv'
<1>1. /\ hilo[w].pc = "reply" /\ hilo[w].code = 0 /\ IsSend(Req(w))
      /\ SendCode(w) /\ Goto(w, "store")
  BY DEF ReplyAccepted, At
<1>2. Fits([hilo[w] EXCEPT !.pc = "store"])
  BY <1>1 DEF Fits, Req, Delivering, ServiceInv, ThreadInv, GoodThread, Thread
<1>3. UsesMessage(hilo[w])
  BY <1>1 DEF UsesMessage, Req
<1>4. InHand(w) \in Mail
  BY <1>1, <1>3, ThreadFacts DEF ServiceInv
<1>5. ConnInv' /\ ThreadInv'
  BY <1>1, <1>2, <1>3, SendCodeInv, GotoGood DEF ServiceInv, Steps
<1>6. DbInv' /\ HistoryInv'
  BY <1>1, <1>4, UnchangedInv DEF ReplyAccepted, SendCode, ServiceInv, HistoryInv
<1> QED
  BY <1>5, <1>6 DEF ServiceInv

LEMMA StoreStepInv == ASSUME ServiceInv, NEW w \in Worker, Store(w) PROVE ServiceInv'
<1>1. PICK res \in {0, 2} :
        /\ db_store_message(Req(w).dest, Current(w), res)
        /\ guardados' = IF res = 0 THEN guardados \cup {InHand(w)} ELSE guardados
  BY DEF Store
<1>2. hilo[w].pc = "store" /\ UsesMessage(hilo[w]) /\ GoodThread(hilo[w], msgs[w])
  BY DEF Store, At, UsesMessage, ServiceInv, ThreadInv
<1>3. IsSend(hilo[w].req) /\ Req(w).dest \in User
  BY <1>2, ThreadFacts DEF GoodThread, Fits, Req, ServiceInv
<1>4. Current(w) \in PendingMsg /\ InHand(w) \in Mail
  BY <1>2, ThreadFacts DEF ServiceInv
<1>5. DbInv' /\ ConnInv'
  BY <1>1, <1>3, <1>4, StoreInv, ConnKeep DEF Store, ServiceInv
<1>6. HistoryInv'
  BY <1>1, <1>4 DEF Store, ServiceInv, HistoryInv
<1>7. ThreadInv'
  <2>1. CASE Return(w)
    BY <2>1, ReturnGood DEF ServiceInv
  <2>2. CASE Goto(w, "deliver")
    <3>1. Fits([hilo[w] EXCEPT !.pc = "deliver"])
      BY <1>2, <1>3 DEF Fits, Delivering, GoodThread, Thread
    <3> QED
      BY <1>2, <2>2, <3>1, GotoGood DEF ServiceInv, Steps
  <2> QED
    BY <2>1, <2>2 DEF Store
<1> QED
  BY <1>5, <1>6, <1>7 DEF ServiceInv

LEMMA PendingInv == ASSUME ServiceInv, NEW w \in Worker, Pending(w) PROVE ServiceInv'
<1>1. PICK m \in {mensajes[Req(w).user], EmptyFile} :
        /\ db_get_pending_messages(Req(w).user, m)
        /\ \/ DOMAIN m = {} /\ Return(w)
           \/ /\ DOMAIN m # {}
              /\ hilo' = [hilo EXCEPT ![w].pc = "deliver"]
              /\ msgs' = [msgs EXCEPT ![w] = m]
  BY DEF Pending
<1>2. hilo[w].pc = "pending" /\ GoodThread(hilo[w], msgs[w])
  BY DEF Pending, At, ServiceInv, ThreadInv
<1>3. Req(w).op = "CONNECT" /\ Req(w).user \in User
  BY <1>2, ThreadFacts DEF GoodThread, Fits, Req, ServiceInv
<1>4. IsFile(m)
  BY <1>1, <1>3, EmptyIsFile DEF ServiceInv, DbInv, DbTypeOK
<1>5. DbInv' /\ ConnInv' /\ HistoryInv'
  BY <1>1, UnchangedInv, ConnKeep, HistoryKeep
     DEF Pending, db_get_pending_messages, ServiceInv
<1>6. ThreadInv'
  <2>1. CASE Return(w)
    BY <2>1, ReturnGood DEF ServiceInv
  <2>2. CASE /\ DOMAIN m # {}
             /\ hilo' = [hilo EXCEPT ![w].pc = "deliver"]
             /\ msgs' = [msgs EXCEPT ![w] = m]
    <3> DEFINE h == [hilo[w] EXCEPT !.pc = "deliver"]
    <3>1. /\ h \in Thread /\ h.pc = "deliver"
          /\ h.req = hilo[w].req /\ h.client = hilo[w].client
      BY <1>2 DEF GoodThread, Thread, Steps
    <3>2. GoodThread(h, m)
      <4> HIDE DEF h
      <4> QED
        BY <1>2, <1>3, <1>4, <2>2, <3>1 DEF GoodThread, Fits, Delivering, Req
    <3>3. hilo' = [hilo EXCEPT ![w] = h]
      BY <2>2
    <3> HIDE DEF h
    <3> QED
      BY <2>2, <3>2, <3>3, ThreadSet DEF ServiceInv
  <2> QED
    BY <1>1, <2>1, <2>2
<1> QED
  BY <1>5, <1>6 DEF ServiceInv

-----------------------------------------------------------------------------
(* The steps of a delivery. *)

(* What a thread in a delivery has, whatever it serves. *)
LEMMA DeliveringFacts ==
  ASSUME ServiceInv, NEW w \in Worker, hilo[w].pc \in Delivering
  PROVE  /\ GoodThread(hilo[w], msgs[w]) /\ hilo[w].pc # "idle"
         /\ Receiver(w) \in User
         /\ hilo[w].pc # "drop_dest" =>
              /\ UsesMessage(hilo[w])
              /\ DOMAIN msgs[w] # {}
              /\ Current(w) \in PendingMsg
              /\ Current(w).sender \in User
              /\ InHand(w) \in Mail
         /\ \A step \in Delivering : Fits([hilo[w] EXCEPT !.pc = step])
<1>1. GoodThread(hilo[w], msgs[w]) /\ hilo[w].pc # "idle"
  BY DEF ServiceInv, ThreadInv, Delivering
<1>2. hilo[w].pc # "drop_dest" => UsesMessage(hilo[w])
  BY DEF UsesMessage
<1>3. \A step \in Delivering : Fits([hilo[w] EXCEPT !.pc = step])
  BY <1>1 DEF GoodThread, Fits, Delivering, Thread
<1>4. Receiver(w) \in User
  BY <1>1, ThreadFacts DEF ServiceInv
<1>5. hilo[w].pc # "drop_dest" =>
        /\ DOMAIN msgs[w] # {} /\ Current(w) \in PendingMsg /\ InHand(w) \in Mail
  BY <1>1, <1>2, ThreadFacts DEF ServiceInv
<1> QED
  BY <1>1, <1>2, <1>3, <1>4, <1>5 DEF PendingMsg

LEMMA DeliverMessageInv ==
  ASSUME ServiceInv, NEW w \in Worker, DeliverMessage(w) PROVE ServiceInv'
<1> DEFINE p == [kind |-> "MESSAGE", for |-> Receiver(w), mail |-> InHand(w)]
<1>1. hilo[w].pc = "deliver" /\ Deliver(hilo[w].dest, p) /\ Goto(w, "delete")
  BY DEF DeliverMessage, At
<1>2. /\ Receiver(w) \in User /\ InHand(w) \in Mail /\ UsesMessage(hilo[w])
      /\ Fits([hilo[w] EXCEPT !.pc = "delete"])
  BY <1>1, DeliveringFacts DEF Delivering
<1>3. p \in Push
  BY <1>2 DEF Push
<1>4. ConnInv'
  <2> HIDE DEF p
  <2> QED
    BY <1>1, <1>3, DeliverInv DEF ServiceInv
<1>5. ThreadInv'
  BY <1>1, <1>2, GotoGood DEF ServiceInv, Steps
<1>6. DbInv' /\ HistoryInv'
  BY <1>2, UnchangedInv DEF DeliverMessage, ServiceInv, HistoryInv
<1> QED
  BY <1>4, <1>5, <1>6 DEF ServiceInv

LEMMA DeliverFailsInv ==
  ASSUME ServiceInv, NEW w \in Worker, DeliverFails(w) PROVE ServiceInv'
<1>1. hilo[w].pc = "deliver" /\ Goto(w, "drop_dest")
  BY DEF DeliverFails, At
<1>2. Fits([hilo[w] EXCEPT !.pc = "drop_dest"])
  BY <1>1, DeliveringFacts DEF Delivering
<1>3. ThreadInv'
  BY <1>1, <1>2, GotoGood DEF ServiceInv, Steps, Delivering
<1> QED
  BY <1>3, UnchangedInv, ConnKeep, HistoryKeep DEF DeliverFails, ServiceInv

LEMMA DropReceiverInv ==
  ASSUME ServiceInv, NEW w \in Worker, DropReceiver(w) PROVE ServiceInv'
<1>1. PICK res \in 0..3 : db_disconnect(Receiver(w), res)
  BY DEF DropReceiver
<1>2. Receiver(w) \in User
  BY DeliveringFacts DEF DropReceiver, At, Delivering
<1>3. DbInv' /\ ThreadInv'
  BY <1>1, <1>2, DisconnectInv, ReturnGood DEF DropReceiver, ServiceInv
<1> QED
  BY <1>3, ConnKeep, HistoryKeep DEF DropReceiver, ServiceInv

LEMMA DeleteStepInv == ASSUME ServiceInv, NEW w \in Worker, Delete(w) PROVE ServiceInv'
<1>1. /\ hilo[w].pc = "delete" /\ Goto(w, "ack_info")
      /\ db_delete_message(Receiver(w), Current(w).id)
  BY DEF Delete, At
<1>2. Receiver(w) \in User /\ UsesMessage(hilo[w]) /\ Fits([hilo[w] EXCEPT !.pc = "ack_info"])
  BY <1>1, DeliveringFacts DEF Delivering
<1>3. DbInv' /\ ThreadInv'
  BY <1>1, <1>2, DeleteInv, GotoGood DEF ServiceInv, Steps
<1> QED
  BY <1>3, ConnKeep, HistoryKeep DEF Delete, ServiceInv

LEMMA AckInfoInv == ASSUME ServiceInv, NEW w \in Worker, AckInfo(w) PROVE ServiceInv'
<1> DEFINE s == Current(w).sender
<1>1. PICK res \in {-1, 0} :
        /\ get_user_info(s, res)
        /\ \/ /\ res = 0 /\ usuarios[s].connected = 1
              /\ hilo' = [hilo EXCEPT ![w].pc = "ack", ![w].src = usuarios[s].addr]
              /\ UNCHANGED msgs
           \/ /\ res = -1 \/ (res = 0 /\ usuarios[s].connected = 0)
              /\ Advance(w)
  BY DEF AckInfo
<1>2. /\ GoodThread(hilo[w], msgs[w]) /\ hilo[w].pc = "ack_info"
      /\ UsesMessage(hilo[w]) /\ DOMAIN msgs[w] # {}
      /\ Fits([hilo[w] EXCEPT !.pc = "ack"])
  BY DeliveringFacts DEF AckInfo, At, Delivering
<1>3. DbInv' /\ ConnInv' /\ HistoryInv'
  BY <1>1, UnchangedInv, ConnKeep, HistoryKeep DEF AckInfo, get_user_info, ServiceInv
<1>4. CASE Advance(w)
  BY <1>2, <1>3, <1>4, AdvanceGood DEF ServiceInv, Delivering
<1>5. CASE /\ res = 0 /\ usuarios[s].connected = 1
           /\ hilo' = [hilo EXCEPT ![w].pc = "ack", ![w].src = usuarios[s].addr]
           /\ UNCHANGED msgs
  <2> DEFINE h == [hilo[w] EXCEPT !.pc = "ack", !.src = usuarios[s].addr]
  <2>1. Exists(s)
    BY <1>1, <1>5 DEF get_user_info
  <2>2. usuarios[s].addr \in Addr \cup {NoAddr}
    BY <2>1 DEF Exists, ServiceInv, DbInv, DbTypeOK, Line
  <2>3. /\ h \in Thread /\ h.pc = "ack"
        /\ h.req = hilo[w].req /\ h.client = hilo[w].client
    <3> HIDE DEF s
    <3> QED
      BY <1>2, <2>2 DEF GoodThread, Thread, Steps
  <2>4. GoodThread(h, msgs[w])
    <3> HIDE DEF h
    <3> QED
      BY <1>2, <2>3 DEF GoodThread, Fits, Delivering
  <2>5. hilo' = [hilo EXCEPT ![w] = h]
    BY <1>5
  <2>6. msgs' = [msgs EXCEPT ![w] = msgs[w]]
    BY <1>5 DEF ServiceInv, ThreadInv
  <2>7. ThreadInv'
    <3> HIDE DEF h
    <3> QED
      BY <2>4, <2>5, <2>6, ThreadSet DEF ServiceInv
  <2> QED
    BY <1>3, <2>7 DEF ServiceInv
<1> QED
  BY <1>1, <1>4, <1>5

LEMMA AckInv == ASSUME ServiceInv, NEW w \in Worker, Ack(w) PROVE ServiceInv'
<1> DEFINE p == [kind |-> "ACK", for |-> Current(w).sender, mail |-> InHand(w)]
<1>1. hilo[w].pc = "ack" /\ Deliver(hilo[w].src, p) /\ Advance(w)
  BY DEF Ack, At
<1>2. Current(w).sender \in User /\ InHand(w) \in Mail /\ DOMAIN msgs[w] # {}
  BY <1>1, DeliveringFacts DEF Delivering
<1>3. p \in Push
  BY <1>2 DEF Push
<1>4. ConnInv'
  <2> HIDE DEF p
  <2> QED
    BY <1>1, <1>3, DeliverInv DEF ServiceInv
<1>5. ThreadInv'
  BY <1>1, <1>2, AdvanceGood DEF ServiceInv, Delivering
<1> QED
  BY <1>4, <1>5, UnchangedInv, HistoryKeep DEF Ack, ServiceInv

LEMMA AckFailsInv == ASSUME ServiceInv, NEW w \in Worker, AckFails(w) PROVE ServiceInv'
<1>1. hilo[w].pc = "ack" /\ Goto(w, "drop_sender")
  BY DEF AckFails, At
<1>2. UsesMessage(hilo[w]) /\ Fits([hilo[w] EXCEPT !.pc = "drop_sender"])
  BY <1>1, DeliveringFacts DEF Delivering
<1>3. ThreadInv'
  BY <1>1, <1>2, GotoGood DEF ServiceInv, Steps
<1> QED
  BY <1>3, UnchangedInv, ConnKeep, HistoryKeep DEF AckFails, ServiceInv

LEMMA DropSenderInv == ASSUME ServiceInv, NEW w \in Worker, DropSender(w) PROVE ServiceInv'
<1>1. PICK res \in 0..3 : db_disconnect(Current(w).sender, res)
  BY DEF DropSender
<1>2. Current(w).sender \in User /\ DOMAIN msgs[w] # {} /\ hilo[w].pc \in Delivering
  BY DeliveringFacts DEF DropSender, At, Delivering
<1>3. DbInv' /\ ThreadInv'
  BY <1>1, <1>2, DisconnectInv, AdvanceGood DEF DropSender, ServiceInv
<1> QED
  BY <1>3, ConnKeep, HistoryKeep DEF DropSender, ServiceInv

LEMMA ServerCrashInv == ASSUME ServiceInv, ServerCrash PROVE ServiceInv'
<1>1. DbInv' /\ HistoryInv'
  <2>1. caidas' \in 0..MaxCrashes
    <3>1. caidas < MaxCrashes /\ caidas' = caidas + 1
      BY DEF ServerCrash
    <3>2. caidas \in 0..MaxCrashes
      BY DEF ServiceInv, HistoryInv
    <3> QED
      BY <3>1, <3>2, BoundAssumption
  <2>2. UNCHANGED <<prometidos, guardados, entregados, bajas, direcciones>>
    BY DEF ServerCrash, historyVars
  <2>3. HistoryInv'
    BY <2>1, <2>2 DEF ServiceInv, HistoryInv
  <2> QED
    BY <2>3, UnchangedInv DEF ServerCrash, ServiceInv
<1>2. ThreadInv'
  BY IdleIsGood DEF ServerCrash, ThreadInv
<1>3. ConnInv'
  <2>1. ASSUME NEW c \in Client
        PROVE  /\ conn'[c] \in Conn
               /\ conn'[c].state # "closed" => conn'[c].req \in Request
               /\ IF conn'[c].state = "closed" THEN conn'[c] = NoConn
                                               ELSE WellFormed(conn'[c].req)
    <3>1. /\ conn[c] \in Conn
          /\ conn[c].state # "closed" => conn[c].req \in Request
          /\ IF conn[c].state = "closed" THEN conn[c] = NoConn ELSE WellFormed(conn[c].req)
      BY DEF ServiceInv, ConnInv, NetTypeOK
    <3>2. CASE conn[c].state \in {"sent", "open"}
      <4> DEFINE n == -1
      <4>1. conn'[c] = [conn[c] EXCEPT !.state = "replied", !.code = n, !.worker = None]
        BY <3>2 DEF ServerCrash
      <4>2. n \in -1..3
        OBVIOUS
      <4> HIDE DEF n
      <4>3. /\ conn'[c] \in Conn /\ conn'[c].state = "replied"
            /\ conn'[c].req = conn[c].req
        BY <3>1, <4>1, <4>2 DEF Conn
      <4> QED
        BY <3>1, <3>2, <4>3
    <3>3. CASE conn[c].state \notin {"sent", "open"}
      <4>1. conn'[c] = conn[c]
        BY <3>3 DEF ServerCrash
      <4> QED
        BY <3>1, <4>1
    <3> QED
      BY <3>2, <3>3
  <2> QED
    BY <2>1 DEF ServerCrash, ServiceInv, ConnInv, NetTypeOK
<1> QED
  BY <1>1, <1>2, <1>3 DEF ServiceInv

LEMMA ServerNextInv ==
  ASSUME ServiceInv, NEW w \in Worker, tratar_peticion(w) \/ WorkerStep(w)
  PROVE  ServiceInv'
BY AcceptInv, f_registerInv, f_unregisterInv, PeerUnknownInv, f_connectInv,
   DisconnectInfoInv, f_disconnectInv, PrepareStepInv, ReplyAndReturnInv,
   ReplyConnectedInv, ReplyAcceptedInv, StoreStepInv, PendingInv, DeliverMessageInv,
   DeliverFailsInv, DropReceiverInv, DeleteStepInv, AckInfoInv, AckInv, AckFailsInv,
   DropSenderInv DEF WorkerStep

-----------------------------------------------------------------------------
(* The clients. *)

ShellInv == ConnInv /\ ClientTypeOK

LEMMA NoConnIsConn == NoConn \in Conn /\ NoConn.state = "closed"
BY DEF NoConn, Conn

(* A connection is opened or given up, listeners may change. *)
LEMMA ConnSet ==
  ASSUME ConnInv, NEW c \in Client, NEW r \in Conn, conn' = [conn EXCEPT ![c] = r],
         IF r.state = "closed" THEN r = NoConn ELSE r.req \in Request /\ WellFormed(r.req),
         listening' \in [Client -> Addr \cup {NoAddr}], backlog' \in [Client -> Seq(Push)]
  PROVE  ConnInv'
BY DEF ConnInv, NetTypeOK

LEMMA RequestInv ==
  ASSUME ConnInv, NEW c \in Client, NEW op \in Ops, NEW u \in User,
         NEW dest \in User \cup {None}, NEW m \in Message \cup {None},
         NEW port \in Port \cup {None},
         WellFormed([op |-> op, user |-> u, dest |-> dest, message |-> m, port |-> port]),
         Request_(c, op, u, dest, m, port),
         listening' \in [Client -> Addr \cup {NoAddr}], backlog' \in [Client -> Seq(Push)]
  PROVE  ConnInv'
<1> DEFINE q == [op |-> op, user |-> u, dest |-> dest, message |-> m, port |-> port]
           r == [NoConn EXCEPT !.state = "sent", !.req = q]
<1>1. q \in Request
  BY DEF Request
<1> HIDE DEF q
<1>2. r \in Conn /\ r.state = "sent" /\ r.req = q
  BY <1>1, NoConnIsConn DEF Conn
<1>3. WellFormed(q) /\ conn' = [conn EXCEPT ![c] = r]
  BY DEF q, Request_
<1> HIDE DEF r
<1> QED
  BY <1>1, <1>2, <1>3, ConnSet

LEMMA ListenerTypes ==
  ASSUME ConnInv
  PROVE  /\ listening \in [Client -> Addr \cup {NoAddr}]
         /\ backlog \in [Client -> Seq(Push)]
         /\ \A c \in Client : CloseListener(c) =>
              /\ listening' \in [Client -> Addr \cup {NoAddr}]
              /\ backlog' \in [Client -> Seq(Push)]
<1>1. /\ listening \in [Client -> Addr \cup {NoAddr}]
      /\ backlog \in [Client -> Seq(Push)]
  BY DEF ConnInv, NetTypeOK
<1>2. ASSUME NEW c \in Client, CloseListener(c)
      PROVE  /\ listening' \in [Client -> Addr \cup {NoAddr}]
             /\ backlog' \in [Client -> Seq(Push)]
  <2>1. listening' = [listening EXCEPT ![c] = NoAddr] /\ backlog' = [backlog EXCEPT ![c] = <<>>]
    BY <1>2 DEF CloseListener
  <2>2. <<>> \in Seq(Push)
    OBVIOUS
  <2> QED
    BY <1>1, <2>1, <2>2
<1> QED
  BY <1>1, <1>2

(* The two counters stay below their bounds. *)
LEMMA CountInv ==
  ASSUME NEW n, NEW k \in Nat, n \in 0..k, n < k PROVE n + 1 \in 0..k
OBVIOUS

LEMMA TypedInv == ASSUME ClientTypeOK, NEW c \in Client, NEW op, Typed(c, op)
                  PROVE  ordenes' \in 0..MaxCommands /\ muertes' \in 0..MaxKills /\ op \in Ops
<1>1. ordenes \in 0..MaxCommands /\ muertes \in 0..MaxKills
  BY DEF ClientTypeOK
<1>2. ordenes < MaxCommands /\ ordenes' = ordenes + 1 /\ muertes' = muertes
  BY DEF Typed
<1>3. op \in Ops
  BY CommandsAssumption DEF Typed
<1> QED
  BY <1>1, <1>2, <1>3, BoundAssumption, CountInv

LEMMA accountInv ==
  ASSUME ShellInv, NEW c \in Client, NEW op, NEW u \in User, account(c, op, u)
  PROVE  ShellInv'
<1>1. op \in Ops /\ op \in {"REGISTER", "UNREGISTER", "DISCONNECT"} /\ ClientTypeOK'
  BY TypedInv DEF account, ShellInv, ClientTypeOK
<1>2. WellFormed([op |-> op, user |-> u, dest |-> None, message |-> None, port |-> None])
  BY <1>1 DEF WellFormed, IsSend
<1>3. ConnInv'
  BY <1>1, <1>2, RequestInv, ListenerTypes DEF account, ShellInv
<1> QED
  BY <1>1, <1>3 DEF ShellInv

LEMMA connectInv ==
  ASSUME ShellInv, NEW c \in Client, NEW u \in User, connect(c, u)
  PROVE  ShellInv'
<1>1. "CONNECT" \in Ops /\ ClientTypeOK'
  BY TypedInv DEF connect, ShellInv, ClientTypeOK
<1>2. PICK port \in Port :
        /\ OpenListener(c, [ip |-> HostOf[c], port |-> port])
        /\ Request_(c, "CONNECT", u, None, None, port)
  BY DEF connect
<1>3. WellFormed([op |-> "CONNECT", user |-> u, dest |-> None, message |-> None, port |-> port])
  BY DEF WellFormed, IsSend
<1>4. [ip |-> HostOf[c], port |-> port] \in Addr
  BY HostAssumption DEF Addr
<1>5. /\ listening' \in [Client -> Addr \cup {NoAddr}]
      /\ backlog' \in [Client -> Seq(Push)]
  BY <1>2, <1>4, ListenerTypes DEF OpenListener, ShellInv
<1>6. ConnInv'
  BY <1>1, <1>2, <1>3, <1>5, RequestInv DEF ShellInv
<1> QED
  BY <1>1, <1>6 DEF ShellInv

LEMMA sendInv ==
  ASSUME ShellInv, NEW c \in Client, NEW op, NEW dest \in User, NEW m \in Message,
         send(c, op, dest, m)
  PROVE  ShellInv'
<1> DEFINE u == connected_user[c]
<1>1. op \in Ops /\ op \in {"SEND", "SENDATTACH"} /\ ClientTypeOK'
  BY TypedInv DEF send, ShellInv, ClientTypeOK
<1>2. u \in User
  BY DEF send, ShellInv, ClientTypeOK
<1>3. WellFormed([op |-> op, user |-> u, dest |-> dest, message |-> m, port |-> None])
  BY <1>1 DEF WellFormed, IsSend
<1>4. Request_(c, op, u, dest, m, None)
  BY DEF send
<1>5. ConnInv'
  <2> HIDE DEF u
  <2> QED
    BY <1>1, <1>2, <1>3, <1>4, RequestInv, ListenerTypes DEF send, ShellInv
<1> QED
  BY <1>1, <1>5 DEF ShellInv

(* The four ways a command ends, QUIT and a kill. *)
LEMMA EndedInv ==
  ASSUME ShellInv, NEW c \in Client,
         conn' = [conn EXCEPT ![c] = NoConn] \/ UNCHANGED conn,
         CloseListener(c) \/ UNCHANGED <<listening, backlog>>,
         connected_user' \in [Client -> User \cup {None}],
         ordenes' \in 0..MaxCommands, muertes' \in 0..MaxKills
  PROVE  ShellInv'
<1>1. /\ listening' \in [Client -> Addr \cup {NoAddr}]
      /\ backlog' \in [Client -> Seq(Push)]
  BY ListenerTypes DEF ShellInv
<1>2. ConnInv'
  <2>1. CASE conn' = [conn EXCEPT ![c] = NoConn]
    BY <1>1, <2>1, NoConnIsConn, ConnSet DEF ShellInv
  <2>2. CASE UNCHANGED conn
    BY <1>1, <2>2 DEF ShellInv, ConnInv, NetTypeOK
  <2> QED
    BY <2>1, <2>2
<1> QED
  BY <1>2 DEF ShellInv, ClientTypeOK

LEMMA ContinueInv == ASSUME ShellInv, NEW c \in Client, Continue(c) PROVE ShellInv'
<1>1. /\ ordenes \in 0..MaxCommands /\ muertes \in 0..MaxKills
      /\ connected_user \in [Client -> User \cup {None}]
  BY DEF ShellInv, ClientTypeOK
<1>2. CASE CommandDone(c) \/ ConnectFailed(c)
  BY <1>1, <1>2, EndedInv DEF CommandDone, ConnectFailed, Replied
<1>3. CASE ConnectOK(c)
  <2>1. conn[c].req \in Request
    BY <1>3 DEF ConnectOK, Replied, ShellInv, ConnInv, NetTypeOK
  <2>2. connected_user' \in [Client -> User \cup {None}]
    BY <1>1, <1>3, <2>1 DEF ConnectOK, Request
  <2> QED
    BY <1>1, <1>3, <2>2, EndedInv DEF ConnectOK, Replied
<1>4. CASE DisconnectDone(c)
  <2>1. connected_user' \in [Client -> User \cup {None}]
    BY <1>1, <1>4 DEF DisconnectDone, stop_listener
  <2> QED
    BY <1>1, <1>4, <2>1, EndedInv DEF DisconnectDone, Replied, stop_listener
<1>5. CASE listener_thread(c)
  <2>1. backlog[c] \in Seq(Push) /\ backlog[c] # <<>>
    BY <1>5 DEF listener_thread, ShellInv, ConnInv, NetTypeOK
  <2>2. Tail(backlog[c]) \in Seq(Push)
    BY <2>1
  <2> QED
    BY <1>5, <2>2 DEF listener_thread, clientVars, ShellInv, ConnInv, NetTypeOK, ClientTypeOK
<1> QED
  BY <1>2, <1>3, <1>4, <1>5 DEF Continue

LEMMA KilledInv == ASSUME ShellInv, NEW c \in Client, Killed(c) PROVE ShellInv'
<1>1. /\ ordenes \in 0..MaxCommands /\ muertes \in 0..MaxKills
      /\ connected_user \in [Client -> User \cup {None}]
  BY DEF ShellInv, ClientTypeOK
<1>2. muertes < MaxKills /\ muertes' = muertes + 1 /\ ordenes' = ordenes
  BY DEF Killed
<1>3. muertes' \in 0..MaxKills /\ ordenes' \in 0..MaxCommands
  BY <1>1, <1>2, BoundAssumption, CountInv
<1>4. connected_user' \in [Client -> User \cup {None}]
  BY <1>1 DEF Killed, stop_listener
<1> QED
  BY <1>3, <1>4, EndedInv DEF Killed, stop_listener

LEMMA quitInv == ASSUME ShellInv, NEW c \in Client, quit(c) PROVE ShellInv'
<1>1. /\ ordenes \in 0..MaxCommands /\ muertes \in 0..MaxKills
      /\ connected_user \in [Client -> User \cup {None}]
  BY DEF ShellInv, ClientTypeOK
<1>2. ordenes < MaxCommands /\ ordenes' = ordenes + 1 /\ muertes' = muertes
  BY DEF quit
<1>3. ordenes' \in 0..MaxCommands /\ muertes' \in 0..MaxKills
  BY <1>1, <1>2, BoundAssumption, CountInv
<1>4. connected_user' \in [Client -> User \cup {None}]
  BY <1>1 DEF quit, stop_listener
<1> QED
  BY <1>3, <1>4, EndedInv DEF quit, stop_listener

-----------------------------------------------------------------------------
LEMMA InitInv == Init => IInv
<1> SUFFICES ASSUME Init PROVE IInv
  OBVIOUS
<1>1. DbInv
  BY DbInitInv DEF Init
<1>2. ThreadInv
  BY IdleIsGood DEF Init, ServerInit, ThreadInv
<1>3. HistoryInv
  <2>1. ASSUME NEW c \in Client, Session[c].user # None
        PROVE  Session[c].user \in User /\ SessionAddr(c) \in Addr
    BY <2>1, SessionAssumption, RegisteredAssumption, HostAssumption DEF SessionAddr, Addr
  <2>2. direcciones \subseteq [user : User, addr : Addr]
    BY <2>1 DEF Init, ServerInit
  <2> QED
    BY <2>2, BoundAssumption DEF Init, ServerInit, HistoryInv
<1>4. ClientTypeOK
  BY SessionAssumption, RegisteredAssumption, BoundAssumption DEF Init, ClientInit, ClientTypeOK
<1>5. \A c \in Client : SessionAddr(c) \in Addr \cup {NoAddr}
  BY SessionAssumption, HostAssumption, RegisteredAssumption, NoneAssumption
     DEF SessionAddr, Addr
<1>6. ConnInv
  BY <1>5, NoConnIsConn DEF Init, NetInit, ConnInv, NetTypeOK
<1> QED
  BY <1>1, <1>2, <1>3, <1>4, <1>6 DEF IInv, ServiceInv

LEMMA ClientNextInv == ASSUME IInv, NEW c \in Client, ClientNext(c) PROVE IInv'
<1>1. ShellInv /\ UNCHANGED serverVars
  BY DEF ClientNext, IInv, ServiceInv, ShellInv
<1>2. ShellInv'
  BY <1>1, accountInv, connectInv, sendInv, quitInv, ContinueInv, KilledInv
     DEF ClientNext, Command
<1>3. DbInv' /\ ThreadInv' /\ HistoryInv'
  BY <1>1, UnchangedInv, ThreadKeep, HistoryKeep DEF serverVars, IInv, ServiceInv
<1> QED
  BY <1>2, <1>3 DEF IInv, ServiceInv, ShellInv

LEMMA NextInv == IInv /\ [Next]_vars => IInv'
<1> SUFFICES ASSUME IInv, [Next]_vars PROVE IInv'
  OBVIOUS
<1>1. ASSUME NEW c \in Client, ClientNext(c) PROVE IInv'
  BY <1>1, ClientNextInv
<1>2. ASSUME NEW w \in Worker, ServerNext(w) PROVE IInv'
  BY <1>2, ServerNextInv DEF ServerNext, IInv, ClientTypeOK, clientVars
<1>3. CASE ServerCrash /\ UNCHANGED clientVars
  BY <1>3, ServerCrashInv DEF IInv, ClientTypeOK, clientVars
<1>4. CASE UNCHANGED vars
  BY <1>4, UnchangedInv, ThreadKeep, HistoryKeep, ConnKeep
     DEF vars, serverVars, clientVars, IInv, ServiceInv, ClientTypeOK
<1> QED
  BY <1>1, <1>2, <1>3, <1>4 DEF Next

(* In every reachable state the variables have their types and every       *)
(* thread is at a step of the function that serves its request, with a     *)
(* message in hand wherever it reads one.                                  *)
THEOREM Invariance == Spec => []IInv
BY InitInv, NextInv, PTL DEF Spec

LEMMA InvTypes == IInv => TypeOK
<1> SUFFICES ASSUME IInv PROVE TypeOK
  OBVIOUS
<1>1. ServerTypeOK
  BY DEF IInv, ServiceInv, ThreadInv, HistoryInv, GoodThread, ServerTypeOK
<1> QED
  BY <1>1 DEF IInv, ServiceInv, DbInv, ConnInv, TypeOK

(* Type correctness of the whole service. *)
THEOREM TypeCorrect == Spec => []TypeOK
BY Invariance, InvTypes, PTL
=============================================================================
