---------------------------- MODULE PeersProofs -----------------------------
(***************************************************************************)
(* Proofs about Peers, for any number of clients, threads, ports, commands *)
(* and events.                                                             *)
(*                                                                         *)
(* Most steps end in Become, which closes the sockets nobody holds.  The   *)
(* invariant is therefore stated about the values h, s, q and t that       *)
(* Become is given for hilo, listen_socket, cola and trans, and Become is  *)
(* shown to keep it once.                                                  *)
(***************************************************************************)
EXTENDS Peers, TLAPS

Thread ==
  {x \in [pc : {"ended", "failed", "poll", "read"}, socket : Port \cup {None},
          conn : Conn \cup {None}] :
     x.pc = "read" => x.conn \in Conn}
Trans  == [orden : 0..MaxCommands, byte : {None, 0, 1}, trozos : 0..Chunks,
           fin : BOOLEAN, roto : BOOLEAN]
Steps  == {"prompt", "connecting", "stop", "stop_quit", "join", "join_quit", "dial", "byte",
           "data"}

-----------------------------------------------------------------------------
(* The inductive invariant. *)

Types(h, s, q, t) ==
  /\ h \in [Client -> [Listener -> Thread]]
  /\ s \in [Client -> Port \cup {None}]
  /\ q \in [Port -> Seq(Conn)]
  /\ t \in [Client -> Trans]

(* The types of what Become leaves alone. *)
ShellTypes ==
  /\ usuarios_conectados \in [Client -> Port \cup {None}]
  /\ listen_thread \in [Client -> Listener \cup {None}]
  /\ stop_listening \in [Client -> BOOLEAN] /\ connected_user \in [Client -> BOOLEAN]
  /\ DOMAIN users_directory = Client
  /\ \A c \in Client : /\ DOMAIN users_directory[c] \subseteq Client
                       /\ \A d \in DOMAIN users_directory[c] : users_directory[c][d] \in Port
  /\ shell \in [Client -> [pc : Steps, user : Client \cup {None}]]
  /\ ordenes \in 0..MaxCommands /\ sucesos \in 0..MaxEvents

(* The ports: what has no owner has no queue. *)
PortsOK(own, q) ==
  /\ own \in [Port -> Client \cup {None}]
  /\ \A p \in Port : own[p] = None => q[p] = <<>>

(* A client's socket is its own, and the thread that CONNECT started is    *)
(* waiting on it or has a connection in hand, unless accept failed.        *)
Listens(own, h, s, th, stops) ==
  \A c \in Client :
    s[c] # None =>
      /\ own[s[c]] = c
      /\ ~stops[c]
      /\ th[c] \in Listener
      /\ \/ h[c][th[c]].pc \in {"read", "failed"}
         \/ h[c][th[c]].pc = "poll" /\ h[c][th[c]].socket = s[c]

(* The connections of client c, in queues and with threads.                *)
Queued(q, p, i, c) == i \in DOMAIN q[p] /\ q[p][i].op = "GET_FILE" /\ q[p][i].de = c
Served(h, d, l, c) == h[d][l].pc = "read" /\ h[d][l].conn.op = "GET_FILE" /\ h[d][l].conn.de = c

(* Their numbers are at most n. *)
Numbered(h, q, c, n) ==
  /\ \A p \in Port : \A i \in DOMAIN q[p] : Queued(q, p, i, c) => q[p][i].orden <= n
  /\ \A d \in Client, l \in Listener : Served(h, d, l, c) => h[d][l].conn.orden <= n

NumbersOK(h, q, sh, n) ==
  \A c \in Client :
    /\ sh[c].pc # "prompt" => n >= 1
    /\ Numbered(h, q, c, n)
    /\ sh[c].pc = "dial" => Numbered(h, q, c, n - 1)

(* The connection on which c waits for a file is in one place only: in a   *)
(* queue before the first byte, with a thread until it is closed.          *)
InQueue(q, t, p, i, c)  == i \in DOMAIN q[p] /\ AskedBy(q[p][i], c, t)
AtThread(h, t, d, l, c) == h[d][l].pc = "read" /\ AskedBy(h[d][l].conn, c, t)

OnePlace(h, q, t, c) ==
  /\ \A p \in Port : \A i \in DOMAIN q[p] :
       InQueue(q, t, p, i, c) =>
         /\ t[c].byte = None /\ ~t[c].fin
         /\ \A r \in Port : \A j \in DOMAIN q[r] : InQueue(q, t, r, j, c) => r = p /\ j = i
         /\ \A d \in Client, l \in Listener : ~AtThread(h, t, d, l, c)
  /\ \A d \in Client, l \in Listener :
       AtThread(h, t, d, l, c) =>
         /\ ~t[c].fin
         /\ \A e \in Client, k \in Listener : AtThread(h, t, e, k, c) => e = d /\ k = l

(* What c has got when the connection is closed. *)
Whole(t, c) == (t[c].fin /\ t[c].byte = 0) => (t[c].trozos = Chunks \/ t[c].roto)

Waiting(sh, t, c) ==
  /\ sh[c].pc \notin {"byte", "data"} => t[c].orden = 0
  /\ sh[c].pc = "data" => t[c].byte = 0

FilesInv(h, q, t, sh) ==
  \A c \in Client : OnePlace(h, q, t, c) /\ Whole(t, c) /\ Waiting(sh, t, c)

(* The socket is closed before the shell waits for the thread.             *)
Closed(s, sh) == \A c \in Client : sh[c].pc \in {"join", "join_quit"} => s[c] = None

PeersInv ==
  /\ Types(hilo, listen_socket, cola, trans) /\ ShellTypes
  /\ PortsOK(dueno, cola)
  /\ Listens(dueno, hilo, listen_socket, listen_thread, stop_listening)
  /\ Closed(listen_socket, shell)
  /\ NumbersOK(hilo, cola, shell, ordenes)
  /\ FilesInv(hilo, cola, trans, shell)

-----------------------------------------------------------------------------
(* What closes a socket.                                                   *)

Waits(h, c, p) == \E l \in Listener : h[c][l].pc = "poll" /\ h[c][l].socket = p
Gone(h, s)     == {p \in Port : dueno[p] # None /\ s[dueno[p]] # p /\ ~Waits(h, dueno[p], p)}
Dropped(h, s, q, t, c, visto) ==
  visto /\ \E p \in Gone(h, s) : \E i \in DOMAIN q[p] : AskedBy(q[p][i], c, t)

LEMMA BecomeIs ==
  ASSUME NEW h, NEW s, NEW q, NEW t, NEW visto, Types(h, s, q, t), visto \in BOOLEAN,
         Become(h, s, q, t, visto)
  PROVE  /\ hilo' = h /\ listen_socket' = s
         /\ dueno' = [p \in Port |-> IF p \in Gone(h, s) THEN None ELSE dueno[p]]
         /\ cola' = [p \in Port |-> IF p \in Gone(h, s) THEN <<>> ELSE q[p]]
         /\ trans' = [c \in Client |-> [t[c] EXCEPT !.fin = trans'[c].fin]]
         /\ \A c \in Client : /\ trans'[c].fin = (t[c].fin \/ Dropped(h, s, q, t, c, visto))
                              /\ trans'[c].orden = t[c].orden /\ trans'[c].byte = t[c].byte
                              /\ trans'[c].trozos = t[c].trozos /\ trans'[c].roto = t[c].roto
<1>1. /\ hilo' = h /\ listen_socket' = s
      /\ dueno' = [p \in Port |-> IF p \in Gone(h, s) THEN None ELSE dueno[p]]
      /\ cola' = [p \in Port |-> IF p \in Gone(h, s) THEN <<>> ELSE q[p]]
  BY DEF Become, Gone, Waits
<1>2. trans' = [c \in Client |-> [t[c] EXCEPT !.fin = @ \/ Dropped(h, s, q, t, c, visto)]]
  BY DEF Become, Gone, Waits, Dropped
<1>3. \A c \in Client : t[c] \in Trans
  BY DEF Types
<1> QED
  BY <1>1, <1>2, <1>3 DEF Trans

(* Sockets that are closed do no harm.                                     *)
LEMMA BecomeKeeps ==
  ASSUME NEW h, NEW s, NEW q, NEW t, NEW visto \in BOOLEAN, Types(h, s, q, t),
         Become(h, s, q, t, visto)
  PROVE  /\ Types(hilo', listen_socket', cola', trans')
         /\ PortsOK(dueno, q) => PortsOK(dueno', cola')
         /\ \A th, st : Listens(dueno, h, s, th, st) => Listens(dueno', hilo', listen_socket', th, st)
         /\ \A sh, n : NumbersOK(h, q, sh, n) => NumbersOK(hilo', cola', sh, n)
         /\ \A sh : FilesInv(h, q, t, sh) => FilesInv(hilo', cola', trans', sh)
<1> DEFINE G == Gone(h, s)
           D(c) == Dropped(h, s, q, t, c, visto)
<1>1. /\ hilo' = h /\ listen_socket' = s
      /\ dueno' = [p \in Port |-> IF p \in G THEN None ELSE dueno[p]]
      /\ cola' = [p \in Port |-> IF p \in G THEN <<>> ELSE q[p]]
      /\ trans' = [c \in Client |-> [t[c] EXCEPT !.fin = trans'[c].fin]]
      /\ \A c \in Client : /\ trans'[c].fin = (t[c].fin \/ D(c))
                           /\ trans'[c].orden = t[c].orden /\ trans'[c].byte = t[c].byte
                           /\ trans'[c].trozos = t[c].trozos /\ trans'[c].roto = t[c].roto
  BY BecomeIs
<1>2. /\ G \subseteq Port
      /\ \A p \in G : dueno[p] # None /\ s[dueno[p]] # p
  BY DEF Gone
<1>3. \A c \in Client : D(c) => \E p \in G : \E i \in DOMAIN q[p] : InQueue(q, t, p, i, c)
  BY DEF Dropped, InQueue
<1>4. \A c \in Client : D(c) \in BOOLEAN
  BY DEF Dropped
<1> HIDE DEF G, D
<1>5. Types(hilo', listen_socket', cola', trans')
  <2>1. cola' \in [Port -> Seq(Conn)]
    BY <1>1 DEF Types
  <2>2. ASSUME NEW c \in Client PROVE [t[c] EXCEPT !.fin = trans'[c].fin] \in Trans
    <3>1. t[c] \in Trans /\ t[c].fin \in BOOLEAN
      BY DEF Types, Trans
    <3>2. trans'[c].fin \in BOOLEAN
      <4>1. (t[c].fin \/ D(c)) \in BOOLEAN
        OBVIOUS
      <4> QED
        BY <1>1, <4>1
    <3> QED
      BY <3>1, <3>2 DEF Trans
  <2>3. trans' \in [Client -> Trans]
    BY <1>1, <2>2
  <2> QED
    BY <1>1, <2>1, <2>3 DEF Types
<1>6. ASSUME PortsOK(dueno, q) PROVE PortsOK(dueno', cola')
  BY <1>1, <1>6 DEF PortsOK
<1>7. ASSUME NEW th, NEW st, Listens(dueno, h, s, th, st)
      PROVE  Listens(dueno', hilo', listen_socket', th, st)
  <2>1. \A c \in Client : s[c] # None => s[c] \in Port \ G
    BY <1>2, <1>7 DEF Listens, Types
  <2> QED
    BY <1>1, <1>7, <2>1 DEF Listens
<1>8. \A p \in Port : \A i \in DOMAIN cola'[p] : p \notin G /\ i \in DOMAIN q[p] /\ cola'[p][i] = q[p][i]
  BY <1>1
<1>9. ASSUME NEW sh, NEW n, NumbersOK(h, q, sh, n) PROVE NumbersOK(hilo', cola', sh, n)
  <2>1. ASSUME NEW c \in Client, NEW m, Numbered(h, q, c, m) PROVE Numbered(hilo', cola', c, m)
    BY <2>1, <1>1, <1>8 DEF Numbered, Queued
  <2> QED
    BY <1>9, <2>1 DEF NumbersOK
<1>10. ASSUME NEW sh, FilesInv(h, q, t, sh) PROVE FilesInv(hilo', cola', trans', sh)
  <2> SUFFICES ASSUME NEW c \in Client
               PROVE  OnePlace(hilo', cola', trans', c) /\ Whole(trans', c) /\ Waiting(sh, trans', c)
    BY DEF FilesInv
  <2>1. OnePlace(h, q, t, c) /\ Whole(t, c) /\ Waiting(sh, t, c)
    BY <1>10 DEF FilesInv
  <2>2. \A x : AskedBy(x, c, trans') <=> AskedBy(x, c, t)
    BY <1>1 DEF AskedBy
  <2>3. \A p \in Port : \A i \in DOMAIN cola'[p] :
          InQueue(cola', trans', p, i, c) => /\ p \notin G /\ i \in DOMAIN q[p]
                                             /\ InQueue(q, t, p, i, c)
    BY <1>8, <2>2 DEF InQueue
  <2>4. \A d \in Client, l \in Listener : AtThread(hilo', trans', d, l, c) <=> AtThread(h, t, d, l, c)
    BY <1>1, <2>2 DEF AtThread
  <2>5. ASSUME D(c) PROVE /\ t[c].byte = None
                          /\ \A p \in Port \ G : \A i \in DOMAIN q[p] : ~InQueue(q, t, p, i, c)
                          /\ \A d \in Client, l \in Listener : ~AtThread(h, t, d, l, c)
    <3>1. PICK p \in G : \E i \in DOMAIN q[p] : InQueue(q, t, p, i, c)
      BY <1>3, <2>5
    <3>2. PICK i \in DOMAIN q[p] : InQueue(q, t, p, i, c)
      BY <3>1
    <3> QED
      BY <1>2, <2>1, <3>2 DEF OnePlace
  <2>6. OnePlace(hilo', cola', trans', c)
    <3>1. ASSUME NEW p \in Port, NEW i \in DOMAIN cola'[p], InQueue(cola', trans', p, i, c)
          PROVE  /\ trans'[c].byte = None /\ ~trans'[c].fin
                 /\ \A r \in Port : \A j \in DOMAIN cola'[r] :
                      InQueue(cola', trans', r, j, c) => r = p /\ j = i
                 /\ \A d \in Client, l \in Listener : ~AtThread(hilo', trans', d, l, c)
      <4>1. p \notin G /\ i \in DOMAIN q[p] /\ InQueue(q, t, p, i, c)
        BY <2>3, <3>1
      <4>2. ~D(c)
        BY <2>5, <4>1
      <4>3. /\ t[c].byte = None /\ ~t[c].fin
            /\ \A r \in Port : \A j \in DOMAIN q[r] : InQueue(q, t, r, j, c) => r = p /\ j = i
            /\ \A d \in Client, l \in Listener : ~AtThread(h, t, d, l, c)
        BY <2>1, <4>1 DEF OnePlace
      <4> QED
        BY <1>1, <2>3, <2>4, <4>2, <4>3
    <3>2. ASSUME NEW d \in Client, NEW l \in Listener, AtThread(hilo', trans', d, l, c)
          PROVE  /\ ~trans'[c].fin
                 /\ \A e \in Client, k \in Listener :
                      AtThread(hilo', trans', e, k, c) => e = d /\ k = l
      <4>1. AtThread(h, t, d, l, c)
        BY <2>4, <3>2
      <4>2. ~D(c)
        BY <2>5, <4>1
      <4>3. /\ ~t[c].fin
            /\ \A e \in Client, k \in Listener : AtThread(h, t, e, k, c) => e = d /\ k = l
        BY <2>1, <4>1 DEF OnePlace
      <4>4. ~trans'[c].fin
        BY <1>1, <4>2, <4>3
      <4> QED
        BY <2>4, <4>3, <4>4
    <3> QED
      BY <3>1, <3>2 DEF OnePlace
  <2>7. Whole(trans', c)
    <3>1. D(c) => t[c].byte # 0
      BY <2>5, PeersAssumption
    <3> QED
      BY <1>1, <2>1, <3>1 DEF Whole
  <2>8. Waiting(sh, trans', c)
    BY <1>1, <2>1 DEF Waiting
  <2> QED
    BY <2>6, <2>7, <2>8
<1> QED
  BY <1>5, <1>6, <1>7, <1>9, <1>10

-----------------------------------------------------------------------------
(* The beginning.                                                          *)

LEMMA PeersInitInv == PeersInit => PeersInv
<1> SUFFICES ASSUME PeersInit PROVE PeersInv
  OBVIOUS
<1> DEFINE port == CHOOSE f \in FirstPorts : TRUE
           l == CHOOSE l \in Listener : TRUE
<1>1. port \in [Online -> Port] /\ \A c, d \in Online : port[c] = port[d] => c = d
  <2>1. port \in FirstPorts
    BY PeersAssumption
  <2> QED
    BY <2>1 DEF FirstPorts
<1>2. l \in Listener
  BY PeersAssumption
<1>3. /\ usuarios_conectados = [c \in Client |-> IF c \in Online THEN port[c] ELSE None]
      /\ listen_socket = [c \in Client |-> IF c \in Online THEN port[c] ELSE None]
      /\ dueno = [p \in Port |-> IF \E c \in Online : port[c] = p
                                 THEN CHOOSE c \in Online : port[c] = p ELSE None]
      /\ cola = [p \in Port |-> <<>>]
      /\ listen_thread = [c \in Client |-> IF c \in Online THEN l ELSE None]
      /\ stop_listening = [c \in Client |-> FALSE]
      /\ connected_user = [c \in Client |-> c \in Online]
      /\ users_directory = [c \in Client |-> Nobody]
      /\ shell = [c \in Client |-> AtPrompt]
      /\ hilo = [c \in Client |-> [k \in Listener |->
                   IF c \in Online /\ k = l THEN Polling(port[c]) ELSE EndedThread]]
      /\ trans = [c \in Client |-> NoTrans]
      /\ ordenes = 0 /\ sucesos = 0
  BY DEF PeersInit
<1>4. \A p \in Port : Polling(p) \in Thread
  BY DEF Polling, Thread
<1>5. EndedThread \in Thread /\ NoTrans \in Trans
  BY PeersAssumption DEF EndedThread, Thread, NoTrans, Trans
<1> HIDE DEF port, l
<1>6. Types(hilo, listen_socket, cola, trans)
  <2>1. hilo \in [Client -> [Listener -> Thread]]
    BY <1>1, <1>3, <1>4, <1>5
  <2>2. cola \in [Port -> Seq(Conn)]
    BY <1>3
  <2> QED
    BY <1>1, <1>3, <1>5, <2>1, <2>2 DEF Types
<1>7. ShellTypes
  BY <1>1, <1>2, <1>3, PeersAssumption DEF ShellTypes, Nobody, AtPrompt, Steps
<1>8. PortsOK(dueno, cola)
  BY <1>3, PeersAssumption DEF PortsOK
<1>9. Listens(dueno, hilo, listen_socket, listen_thread, stop_listening)
  <2> SUFFICES ASSUME NEW c \in Client, listen_socket[c] # None
               PROVE  /\ dueno[listen_socket[c]] = c /\ ~stop_listening[c]
                      /\ listen_thread[c] \in Listener
                      /\ hilo[c][listen_thread[c]].pc = "poll"
                      /\ hilo[c][listen_thread[c]].socket = listen_socket[c]
    BY DEF Listens
  <2>1. c \in Online /\ listen_socket[c] = port[c] /\ listen_thread[c] = l /\ port[c] \in Port
    BY <1>1, <1>3
  <2>2. dueno[port[c]] = c
    <3> DEFINE d == CHOOSE d \in Online : port[d] = port[c]
    <3>1. d \in Online /\ port[d] = port[c]
      BY <2>1
    <3>2. dueno[port[c]] = d
      BY <1>3, <2>1
    <3> HIDE DEF d
    <3> QED
      BY <1>1, <2>1, <3>1, <3>2
  <2>3. hilo[c][l] = Polling(port[c])
    BY <1>2, <1>3, <2>1
  <2> QED
    BY <1>2, <1>3, <2>1, <2>2, <2>3 DEF Polling
<1>10. \A c \in Client, k \in Listener : hilo[c][k].pc # "read"
  BY <1>3 DEF Polling, EndedThread
<1>11. \A p \in Port : DOMAIN cola[p] = {}
  BY <1>3
<1>12. NumbersOK(hilo, cola, shell, ordenes)
  BY <1>3, <1>10, <1>11 DEF NumbersOK, Numbered, Served, AtPrompt
<1>13. FilesInv(hilo, cola, trans, shell)
  BY <1>3, <1>10, <1>11
     DEF FilesInv, OnePlace, InQueue, AtThread, Whole, Waiting, NoTrans, AtPrompt
<1>14. Closed(listen_socket, shell)
  BY <1>3 DEF Closed, AtPrompt
<1> QED
  BY <1>6, <1>7, <1>8, <1>9, <1>12, <1>13, <1>14 DEF PeersInv

-----------------------------------------------------------------------------
(* The threads.                                                            *)

(* A step that only moves threads, queues and connections.                 *)
LEMMA MovesKeeps ==
  ASSUME PeersInv, NEW h, NEW q, NEW t, Moves(h, q, t),
         Types(h, listen_socket, q, t), PortsOK(dueno, q),
         Listens(dueno, h, listen_socket, listen_thread, stop_listening),
         NumbersOK(h, q, shell, ordenes), FilesInv(h, q, t, shell)
  PROVE  PeersInv'
<1>1. /\ Become(h, listen_socket, q, t, TRUE)
      /\ UNCHANGED <<usuarios_conectados, listen_thread, stop_listening, connected_user,
                     users_directory, shell, ordenes, sucesos>>
  BY DEF Moves, countVars
<1>2. /\ Types(hilo', listen_socket', cola', trans') /\ PortsOK(dueno', cola')
      /\ Listens(dueno', hilo', listen_socket', listen_thread, stop_listening)
      /\ NumbersOK(hilo', cola', shell, ordenes) /\ FilesInv(hilo', cola', trans', shell)
  BY <1>1, BecomeKeeps
<1>3. ShellTypes'
  BY <1>1 DEF PeersInv, ShellTypes
<1>4. Closed(listen_socket, shell)'
  BY <1>1 DEF PeersInv, Closed, Become
<1> QED
  BY <1>1, <1>2, <1>3, <1>4 DEF PeersInv

(* Thread l of c is x now.                                                 *)
LEMMA PutThread ==
  ASSUME PeersInv, NEW c \in Client, NEW l \in Listener, NEW x
  PROVE  LET h == Put(c, l, x)
         IN  /\ h[c][l] = x
             /\ \A d \in Client, k \in Listener : (d # c \/ k # l) => h[d][k] = hilo[d][k]
             /\ x \in Thread => h \in [Client -> [Listener -> Thread]]
BY DEF PeersInv, Types, Put

(* Threads that are done with their connection keep the rest.              *)
LEMMA ThreadsLeave ==
  ASSUME NEW h0, NEW h, NEW q, NEW t, NEW sh, NEW n,
         \A d \in Client, k \in Listener : h[d][k].pc = "read" => h[d][k] = h0[d][k]
  PROVE  /\ NumbersOK(h0, q, sh, n) => NumbersOK(h, q, sh, n)
         /\ FilesInv(h0, q, t, sh) => FilesInv(h, q, t, sh)
<1>1. \A d \in Client, l \in Listener, c \in Client : AtThread(h, t, d, l, c) => AtThread(h0, t, d, l, c)
  BY DEF AtThread
<1>2. \A d \in Client, l \in Listener, c \in Client : Served(h, d, l, c) => Served(h0, d, l, c) /\ h[d][l] = h0[d][l]
  BY DEF Served
<1>3. \A c \in Client : \A m : Numbered(h0, q, c, m) => Numbered(h, q, c, m)
  BY <1>2 DEF Numbered
<1>4. \A c \in Client : OnePlace(h0, q, t, c) => OnePlace(h, q, t, c)
  BY <1>1 DEF OnePlace
<1> QED
  BY <1>3, <1>4 DEF NumbersOK, FilesInv

(* The end of a turn of the listener's loop.                               *)
LEMMA LoopsKeeps ==
  ASSUME PeersInv, NEW c \in Client, NEW l \in Listener
  PROVE  LET h == Loops(c, l)
         IN  /\ h \in [Client -> [Listener -> Thread]] /\ h[c][l].pc # "read"
             /\ \A d \in Client, k \in Listener : (d # c \/ k # l) => h[d][k] = hilo[d][k]
             /\ Listens(dueno, h, listen_socket, listen_thread, stop_listening)
<1> DEFINE x == IF stop_listening[c] THEN EndedThread ELSE Polling(listen_socket[c])
           h == Put(c, l, x)
<1>1. Loops(c, l) = h
  BY DEF Loops, Ends
<1>2. listen_socket[c] \in Port \cup {None}
  BY DEF PeersInv, Types
<1>3. x \in Thread /\ x.pc # "read"
  BY <1>2 DEF EndedThread, Polling, Thread
<1>4. ~stop_listening[c] => x.pc = "poll" /\ x.socket = listen_socket[c]
  BY DEF Polling
<1> HIDE DEF x
<1>5. /\ h[c][l] = x
      /\ \A d \in Client, k \in Listener : (d # c \/ k # l) => h[d][k] = hilo[d][k]
      /\ h \in [Client -> [Listener -> Thread]]
  BY <1>3, PutThread
<1> HIDE DEF h
<1>6. Listens(dueno, h, listen_socket, listen_thread, stop_listening)
  BY <1>4, <1>5 DEF PeersInv, Listens
<1> QED
  BY <1>1, <1>3, <1>5, <1>6

LEMMA LoopsOnly ==
  ASSUME PeersInv, NEW c \in Client, NEW l \in Listener, Moves(Loops(c, l), cola, trans)
  PROVE  PeersInv'
<1> DEFINE h == Loops(c, l)
<1>1. /\ h \in [Client -> [Listener -> Thread]] /\ h[c][l].pc # "read"
      /\ \A d \in Client, k \in Listener : (d # c \/ k # l) => h[d][k] = hilo[d][k]
      /\ Listens(dueno, h, listen_socket, listen_thread, stop_listening)
  BY LoopsKeeps
<1> HIDE DEF h
<1>2. \A d \in Client, k \in Listener : h[d][k].pc = "read" => h[d][k] = hilo[d][k]
  BY <1>1
<1>3. NumbersOK(h, cola, shell, ordenes) /\ FilesInv(h, cola, trans, shell)
  BY <1>2, ThreadsLeave DEF PeersInv
<1>4. Types(h, listen_socket, cola, trans) /\ PortsOK(dueno, cola)
  BY <1>1 DEF PeersInv, Types
<1> QED
  BY <1>1, <1>3, <1>4, MovesKeeps DEF h

LEMMA TimesOutInv ==
  ASSUME PeersInv, NEW c \in Client, NEW l \in Listener, TimesOut(c, l) PROVE PeersInv'
BY LoopsOnly DEF TimesOut

LEMMA ReadInv ==
  ASSUME PeersInv, NEW c \in Client, NEW l \in Listener, Read(c, l) PROVE PeersInv'
BY LoopsOnly DEF Read

(* The head of a queue, and the rest.                                      *)
LEMMA HeadAndTail ==
  ASSUME NEW s \in Seq(Conn), s # <<>>
  PROVE  /\ 1 \in DOMAIN s /\ Head(s) = s[1] /\ Head(s) \in Conn
         /\ Tail(s) \in Seq(Conn)
         /\ \A i \in DOMAIN Tail(s) : i \in Nat /\ i + 1 \in DOMAIN s /\ i + 1 # 1 /\ Tail(s)[i] = s[i + 1]
<1>1. Len(s) \in Nat /\ Len(s) >= 1 /\ DOMAIN s = 1..Len(s)
  OBVIOUS
<1>2. Len(Tail(s)) = Len(s) - 1 /\ DOMAIN Tail(s) = 1..Len(Tail(s))
  OBVIOUS
<1> QED
  BY <1>1, <1>2

(* The connection that a thread takes is still in one place.               *)
LEMMA AcceptFiles ==
  ASSUME PeersInv, NEW c \in Client, NEW l \in Listener, NEW p \in Port, cola[p] # <<>>,
         NEW h, NEW q, hilo[c][l].pc # "read",
         h[c][l].pc = "read", h[c][l].conn = Head(cola[p]),
         \A d \in Client, k \in Listener : (d # c \/ k # l) => h[d][k] = hilo[d][k],
         q[p] = Tail(cola[p]), \A r \in Port : r # p => q[r] = cola[r]
  PROVE  NumbersOK(h, q, shell, ordenes) /\ FilesInv(h, q, trans, shell)
<1> DEFINE x == cola[p][1]
<1>1. cola[p] \in Seq(Conn)
  BY DEF PeersInv, Types
<1>2. /\ 1 \in DOMAIN cola[p] /\ Head(cola[p]) = x
      /\ \A i \in DOMAIN q[p] : /\ i \in Nat /\ i + 1 \in DOMAIN cola[p] /\ i + 1 # 1
                                /\ q[p][i] = cola[p][i + 1]
  BY <1>1, HeadAndTail
<1> HIDE DEF x
<1>3. \A r \in Port : \A i \in DOMAIN q[r] :
        /\ r = p => i + 1 \in DOMAIN cola[p] /\ i + 1 # 1 /\ q[p][i] = cola[p][i + 1]
        /\ r # p => i \in DOMAIN cola[r] /\ q[r][i] = cola[r][i]
  BY <1>2
<1>4. ASSUME NEW e \in Client, NEW n, Numbered(hilo, cola, e, n) PROVE Numbered(h, q, e, n)
  <2>1. ASSUME NEW r \in Port, NEW i \in DOMAIN q[r], Queued(q, r, i, e) PROVE q[r][i].orden <= n
    <3>1. CASE r = p
      <4>1. i + 1 \in DOMAIN cola[p] /\ q[p][i] = cola[p][i + 1] /\ Queued(cola, p, i + 1, e)
        BY <1>3, <2>1, <3>1 DEF Queued
      <4> QED
        BY <1>4, <3>1, <4>1 DEF Numbered
    <3>2. CASE r # p
      <4>1. i \in DOMAIN cola[r] /\ q[r][i] = cola[r][i] /\ Queued(cola, r, i, e)
        BY <1>3, <2>1, <3>2 DEF Queued
      <4> QED
        BY <1>4, <4>1 DEF Numbered
    <3> QED
      BY <3>1, <3>2
  <2>2. ASSUME NEW d \in Client, NEW k \in Listener, Served(h, d, k, e)
        PROVE  h[d][k].conn.orden <= n
    <3>1. CASE d = c /\ k = l
      <4>1. h[d][k].conn = cola[p][1] /\ Queued(cola, p, 1, e)
        BY <1>2, <2>2, <3>1 DEF Queued, Served, x
      <4> QED
        BY <1>2, <1>4, <4>1 DEF Numbered
    <3>2. CASE d # c \/ k # l
      BY <1>4, <2>2, <3>2 DEF Numbered, Served
    <3> QED
      BY <3>1, <3>2
  <2> QED
    BY <2>1, <2>2 DEF Numbered
<1>5. NumbersOK(h, q, shell, ordenes)
  BY <1>4 DEF PeersInv, NumbersOK
<1>6. ASSUME NEW e \in Client PROVE OnePlace(h, q, trans, e)
  <2>1. OnePlace(hilo, cola, trans, e)
    BY DEF PeersInv, FilesInv
  <2>2. \A r \in Port : \A i \in DOMAIN q[r] :
          InQueue(q, trans, r, i, e) =>
            /\ r = p => /\ i + 1 \in DOMAIN cola[p] /\ i + 1 # 1
                        /\ InQueue(cola, trans, p, i + 1, e)
            /\ r # p => i \in DOMAIN cola[r] /\ InQueue(cola, trans, r, i, e)
    BY <1>3 DEF InQueue
  <2>3. \A d \in Client, k \in Listener :
          AtThread(h, trans, d, k, e) =>
            IF d = c /\ k = l THEN AskedBy(x, e, trans) ELSE AtThread(hilo, trans, d, k, e)
    BY <1>2 DEF AtThread
  <2>4. CASE AskedBy(x, e, trans)
    <3>1. InQueue(cola, trans, p, 1, e)
      BY <1>2, <2>4 DEF InQueue, x
    <3>2. /\ ~trans[e].fin
          /\ \A r \in Port : \A j \in DOMAIN cola[r] : InQueue(cola, trans, r, j, e) => r = p /\ j = 1
          /\ \A d \in Client, k \in Listener : ~AtThread(hilo, trans, d, k, e)
      BY <1>2, <2>1, <3>1 DEF OnePlace
    <3>3. \A r \in Port : \A i \in DOMAIN q[r] : ~InQueue(q, trans, r, i, e)
      BY <2>2, <3>2
    <3>4. \A d \in Client, k \in Listener : AtThread(h, trans, d, k, e) => d = c /\ k = l
      BY <2>3, <3>2
    <3> QED
      BY <3>2, <3>3, <3>4 DEF OnePlace
  <2>5. CASE ~AskedBy(x, e, trans)
    <3>1. \A d \in Client, k \in Listener :
            AtThread(h, trans, d, k, e) => AtThread(hilo, trans, d, k, e)
      BY <2>3, <2>5
    <3>2. ASSUME NEW r \in Port, NEW i \in DOMAIN q[r], InQueue(q, trans, r, i, e)
          PROVE  /\ trans[e].byte = None /\ ~trans[e].fin
                 /\ \A s \in Port : \A j \in DOMAIN q[s] : InQueue(q, trans, s, j, e) => s = r /\ j = i
                 /\ \A d \in Client, k \in Listener : ~AtThread(h, trans, d, k, e)
      <4> DEFINE i0 == IF r = p THEN i + 1 ELSE i
      <4>1. i0 \in DOMAIN cola[r] /\ InQueue(cola, trans, r, i0, e)
        BY <2>2, <3>2
      <4>2. /\ trans[e].byte = None /\ ~trans[e].fin
            /\ \A s \in Port : \A j \in DOMAIN cola[s] : InQueue(cola, trans, s, j, e) => s = r /\ j = i0
            /\ \A d \in Client, k \in Listener : ~AtThread(hilo, trans, d, k, e)
        <5> HIDE DEF i0
        <5> QED
          BY <2>1, <4>1 DEF OnePlace
      <4>3. ASSUME NEW s \in Port, NEW j \in DOMAIN q[s], InQueue(q, trans, s, j, e)
            PROVE  s = r /\ j = i
        <5>1. s = r /\ (IF s = p THEN j + 1 ELSE j) = i0
          BY <2>2, <4>2, <4>3
        <5>2. CASE r # p
          BY <5>1, <5>2
        <5>3. CASE r = p
          <6>1. j + 1 = i + 1
            BY <5>1, <5>3
          <6>2. i \in DOMAIN q[p] /\ j \in DOMAIN q[p]
            BY <5>1, <5>3
          <6>3. i \in Nat /\ j \in Nat
            BY <1>2, <6>2
          <6> QED
            BY <5>1, <6>1, <6>3
        <5> QED
          BY <5>2, <5>3
      <4> QED
        BY <3>1, <4>2, <4>3
    <3> QED
      BY <2>1, <3>1, <3>2 DEF OnePlace
  <2> QED
    BY <2>4, <2>5
<1> QED
  BY <1>5, <1>6 DEF PeersInv, FilesInv

(* A thread that ends, because its socket is closed or because its accept  *)
(* failed.                                                                 *)
LEMMA EndedMoves ==
  ASSUME PeersInv, NEW c \in Client, NEW l \in Listener, hilo[c][l].pc = "poll",
         NEW pc \in {"ended", "failed"},
         pc = "failed" \/ listen_socket[c] # hilo[c][l].socket,
         Moves(Put(c, l, [pc |-> pc, socket |-> None, conn |-> None]), cola, trans)
  PROVE  PeersInv'
<1> DEFINE x == [pc |-> pc, socket |-> None, conn |-> None]
           h == Put(c, l, x)
<1>1. x \in Thread /\ x.pc = pc
  BY DEF Thread
<1> HIDE DEF x
<1>2. /\ h[c][l] = x
      /\ \A d \in Client, k \in Listener : (d # c \/ k # l) => h[d][k] = hilo[d][k]
      /\ h \in [Client -> [Listener -> Thread]]
  BY <1>1, PutThread
<1>3. Moves(h, cola, trans)
  BY DEF x
<1> HIDE DEF h
<1>4. Listens(dueno, h, listen_socket, listen_thread, stop_listening)
  BY <1>1, <1>2 DEF PeersInv, Listens
<1>5. NumbersOK(h, cola, shell, ordenes) /\ FilesInv(h, cola, trans, shell)
  <2>1. \A d \in Client, k \in Listener : h[d][k].pc = "read" => h[d][k] = hilo[d][k]
    BY <1>1, <1>2
  <2> QED
    BY <2>1, ThreadsLeave DEF PeersInv
<1>6. Types(h, listen_socket, cola, trans) /\ PortsOK(dueno, cola)
  BY <1>2 DEF PeersInv, Types
<1> QED
  BY <1>3, <1>4, <1>5, <1>6, MovesKeeps

LEMMA AcceptInv ==
  ASSUME PeersInv, NEW c \in Client, NEW l \in Listener, Accept(c, l) PROVE PeersInv'
<1> DEFINE p == hilo[c][l].socket
           x == [pc |-> "read", socket |-> None, conn |-> Head(cola[p])]
<1>1. hilo[c][l].pc = "poll" /\ p # None /\ cola[p] # <<>>
  BY DEF Accept, At
<1>2. p \in Port /\ cola[p] \in Seq(Conn) /\ hilo[c][l].pc # "read"
  BY <1>1 DEF PeersInv, Types, Thread
<1> DEFINE h == Put(c, l, x)
           q == [cola EXCEPT ![p] = Tail(@)]
<1>3. CASE Moves(h, q, trans)
  <2>1. x \in Thread /\ x.pc = "read" /\ x.conn = Head(cola[p])
    BY <1>1, <1>2, HeadAndTail DEF Thread
  <2>2. /\ q[p] = Tail(cola[p]) /\ \A r \in Port : r # p => q[r] = cola[r]
        /\ q \in [Port -> Seq(Conn)]
    BY <1>1, <1>2, HeadAndTail DEF PeersInv, Types
  <2> HIDE DEF x, p
  <2>3. /\ h[c][l] = x
        /\ \A d \in Client, k \in Listener : (d # c \/ k # l) => h[d][k] = hilo[d][k]
        /\ h \in [Client -> [Listener -> Thread]]
    BY <2>1, PutThread
  <2> HIDE DEF h, q
  <2>4. NumbersOK(h, q, shell, ordenes) /\ FilesInv(h, q, trans, shell)
    BY <1>1, <1>2, <2>1, <2>2, <2>3, AcceptFiles
  <2>5. Listens(dueno, h, listen_socket, listen_thread, stop_listening)
    BY <2>1, <2>3 DEF PeersInv, Listens
  <2>6. Types(h, listen_socket, q, trans)
    BY <2>2, <2>3 DEF PeersInv, Types
  <2>7. PortsOK(dueno, q)
    BY <1>1, <1>2, <2>2 DEF PeersInv, PortsOK
  <2> QED
    BY <1>3, <2>4, <2>5, <2>6, <2>7, MovesKeeps
<1>4. CASE Moves(Ends(c, l), cola, trans) /\ listen_socket[c] # p
  BY <1>1, <1>4, EndedMoves DEF Ends, EndedThread
<1>5. CASE Moves(Put(c, l, FailedThread), cola, trans)
  BY <1>1, <1>5, EndedMoves DEF FailedThread, EndedThread
<1> QED
  BY <1>3, <1>4, <1>5 DEF Accept

(* What a thread sends to the client that asked it.                        *)
LEMMA SentFiles ==
  ASSUME PeersInv, NEW c \in Client, NEW l \in Listener, NEW r \in Client,
         AtThread(hilo, trans, c, l, r),
         NEW u \in Trans, u.orden = trans[r].orden,
         (u.fin /\ u.byte = 0) => (u.trozos = Chunks \/ u.roto),
         shell[r].pc = "data" => u.byte = 0,
         NEW h, \A d \in Client, k \in Listener : (d # c \/ k # l) => h[d][k] = hilo[d][k],
         h[c][l].pc # "read" \/ (h[c][l] = hilo[c][l] /\ ~u.fin)
  PROVE  LET t == [trans EXCEPT ![r] = u]
         IN  /\ t \in [Client -> Trans] /\ FilesInv(h, cola, t, shell)
             /\ NumbersOK(h, cola, shell, ordenes)
<1> DEFINE t == [trans EXCEPT ![r] = u]
<1>1. t \in [Client -> Trans] /\ t[r] = u /\ \A e \in Client : e # r => t[e] = trans[e]
  BY DEF PeersInv, Types
<1> HIDE DEF t
<1>2. \A d \in Client, k \in Listener : h[d][k].pc = "read" => h[d][k] = hilo[d][k]
  OBVIOUS
<1>3. NumbersOK(h, cola, shell, ordenes) /\ FilesInv(h, cola, trans, shell)
  BY <1>2, ThreadsLeave DEF PeersInv
<1>4. \A e \in Client : \A x : AskedBy(x, e, t) <=> AskedBy(x, e, trans)
  BY <1>1 DEF AskedBy
<1>5. /\ \A e \in Client, p \in Port : \A i \in DOMAIN cola[p] :
           InQueue(cola, t, p, i, e) <=> InQueue(cola, trans, p, i, e)
      /\ \A e \in Client, d \in Client, k \in Listener :
           AtThread(h, t, d, k, e) <=> AtThread(h, trans, d, k, e)
  BY <1>4 DEF InQueue, AtThread
<1>6. ASSUME NEW e \in Client, e # r
      PROVE  OnePlace(h, cola, t, e) /\ Whole(t, e) /\ Waiting(shell, t, e)
  <2>1. OnePlace(h, cola, trans, e) /\ Whole(trans, e) /\ Waiting(shell, trans, e)
    BY <1>3 DEF FilesInv
  <2>2. t[e] = trans[e]
    BY <1>1, <1>6
  <2> QED
    BY <1>5, <2>1, <2>2 DEF OnePlace, Whole, Waiting
<1>7. /\ \A d \in Client, k \in Listener : AtThread(hilo, trans, d, k, r) => d = c /\ k = l
      /\ \A p \in Port : \A i \in DOMAIN cola[p] : ~InQueue(cola, trans, p, i, r)
  BY DEF PeersInv, FilesInv, OnePlace
<1>8. OnePlace(h, cola, t, r)
  <2>1. \A d \in Client, k \in Listener :
          AtThread(h, t, d, k, r) => d = c /\ k = l /\ ~u.fin
    <3> SUFFICES ASSUME NEW d \in Client, NEW k \in Listener, AtThread(h, trans, d, k, r)
                 PROVE  d = c /\ k = l /\ ~u.fin
      BY <1>5
    <3>1. h[d][k].pc = "read" /\ h[d][k] = hilo[d][k]
      BY <1>2 DEF AtThread
    <3>2. d = c /\ k = l
      BY <1>7, <3>1 DEF AtThread
    <3> QED
      BY <3>1, <3>2
  <2> QED
    BY <1>1, <1>5, <1>7, <2>1 DEF OnePlace
<1>9. Whole(t, r)
  BY <1>1 DEF Whole
<1>10. Waiting(shell, t, r)
  BY <1>1 DEF PeersInv, FilesInv, Waiting
<1> QED
  BY <1>1, <1>3, <1>6, <1>8, <1>9, <1>10 DEF FilesInv, t

(* A thread is asked by number, and numbers begin at one.                  *)
LEMMA AskedNumber ==
  ASSUME NEW h, NEW s, NEW q, NEW t, Types(h, s, q, t), NEW c \in Client, t[c].orden = 0
  PROVE  /\ \A p \in Port : \A i \in DOMAIN q[p] : ~InQueue(q, t, p, i, c)
         /\ \A d \in Client, l \in Listener : ~AtThread(h, t, d, l, c)
<1>1. \A x \in Conn : x.op = "GET_FILE" => x.orden \in 1..MaxCommands
  BY DEF Conn
<1>2. \A x \in Conn : ~AskedBy(x, c, t)
  <2> SUFFICES ASSUME NEW x \in Conn, AskedBy(x, c, t) PROVE FALSE
    OBVIOUS
  <2>1. x.op = "GET_FILE" /\ x.orden = 0
    BY DEF AskedBy
  <2> QED
    BY <1>1, <2>1
<1>3. \A p \in Port : \A i \in DOMAIN q[p] : q[p][i] \in Conn
  BY DEF Types
<1>4. \A d \in Client, l \in Listener : h[d][l].pc = "read" => h[d][l].conn \in Conn
  BY DEF Types, Thread
<1> QED
  BY <1>2, <1>3, <1>4 DEF InQueue, AtThread

(* A block of the file, or the last of it.                                 *)
LEMMA serve_fileInv ==
  ASSUME PeersInv, NEW c \in Client, NEW l \in Listener, serve_file(c, l) PROVE PeersInv'
<1> DEFINE x == hilo[c][l].conn
           r == x.de
           t == trans[r]
<1>1. hilo[c][l].pc = "read" /\ x.op = "GET_FILE"
  BY DEF serve_file, At
<1>2. x \in Conn
  BY <1>1 DEF PeersInv, Types, Thread
<1>3. r \in Client
  BY <1>1, <1>2 DEF Conn
<1>4. CASE ~AskedBy(x, r, trans)
  <2>1. Moves(Loops(c, l), cola, trans)
    BY <1>4 DEF serve_file
  <2> QED
    BY <2>1, LoopsOnly
<1>5. CASE AskedBy(x, r, trans)
  <2>1. AtThread(hilo, trans, c, l, r)
    BY <1>1, <1>5 DEF AtThread
  <2>2. PICK u, h :
          /\ Moves(h, cola, [trans EXCEPT ![r] = u])
          /\ \/ /\ t.byte = None
                /\ \/ h = hilo /\ u = [t EXCEPT !.byte = 0]
                   \/ h = Loops(c, l) /\ u = [t EXCEPT !.byte = 1, !.fin = TRUE]
             \/ /\ t.byte = 0 /\ t.trozos < Chunks
                /\ \/ h = hilo /\ u = [t EXCEPT !.trozos = @ + 1]
                   \/ h = Loops(c, l) /\ u = [t EXCEPT !.roto = TRUE, !.fin = TRUE]
             \/ /\ t.byte = 0 /\ t.trozos = Chunks
                /\ h = Loops(c, l) /\ u = [t EXCEPT !.fin = TRUE]
    BY <1>5 DEF serve_file
  <2>3. t \in Trans /\ ~t.fin
    <3>1. t \in Trans
      BY <1>3 DEF PeersInv, Types
    <3>2. OnePlace(hilo, cola, trans, r)
      BY <1>3 DEF PeersInv, FilesInv
    <3> QED
      BY <2>1, <3>1, <3>2 DEF OnePlace
  <2>4. shell[r].pc = "data" => t.byte = 0
    BY <1>3 DEF PeersInv, FilesInv, Waiting
  <2> HIDE DEF x, r, t
  <2>5. /\ u \in Trans /\ u.orden = t.orden /\ (u.byte = t.byte \/ t.byte = None)
        /\ (u.fin /\ u.byte = 0) => (u.trozos = Chunks \/ u.roto)
        /\ (h = hilo /\ ~u.fin) \/ h = Loops(c, l)
    <3>1. /\ t.orden \in 0..MaxCommands /\ t.byte \in {None, 0, 1} /\ t.trozos \in 0..Chunks
          /\ t.fin \in BOOLEAN /\ t.roto \in BOOLEAN /\ Chunks \in Nat
      BY <2>3, PeersAssumption DEF Trans
    <3>2. CASE h = hilo /\ t.byte = None /\ u = [t EXCEPT !.byte = 0]
      BY <2>3, <3>1, <3>2 DEF Trans
    <3>3. CASE h = Loops(c, l) /\ t.byte = None /\ u = [t EXCEPT !.byte = 1, !.fin = TRUE]
      <4>1. /\ u.orden = t.orden /\ u.byte = 1 /\ u.trozos = t.trozos /\ u.fin = TRUE
            /\ u.roto = t.roto
        BY <2>3, <3>3 DEF Trans
      <4>2. 1 \in {None, 0, 1} /\ TRUE \in BOOLEAN
        OBVIOUS
      <4>3. u \in Trans
        BY <2>3, <3>1, <3>3, <4>2 DEF Trans
      <4>4. u.byte # 0
        BY <4>1
      <4> QED
        BY <3>3, <4>1, <4>3, <4>4, Zenon
    <3>4. CASE h = hilo /\ t.byte = 0 /\ t.trozos < Chunks /\ u = [t EXCEPT !.trozos = @ + 1]
      BY <2>3, <3>1, <3>4 DEF Trans
    <3>5. CASE /\ h = Loops(c, l) /\ t.byte = 0
               /\ u = [t EXCEPT !.roto = TRUE, !.fin = TRUE]
      BY <2>3, <3>1, <3>5 DEF Trans
    <3>6. CASE /\ h = Loops(c, l) /\ t.byte = 0 /\ t.trozos = Chunks
               /\ u = [t EXCEPT !.fin = TRUE]
      BY <2>3, <3>1, <3>6 DEF Trans
    <3>7. \/ h = hilo /\ t.byte = None /\ u = [t EXCEPT !.byte = 0]
          \/ h = Loops(c, l) /\ t.byte = None /\ u = [t EXCEPT !.byte = 1, !.fin = TRUE]
          \/ h = hilo /\ t.byte = 0 /\ t.trozos < Chunks /\ u = [t EXCEPT !.trozos = @ + 1]
          \/ h = Loops(c, l) /\ t.byte = 0 /\ u = [t EXCEPT !.roto = TRUE, !.fin = TRUE]
          \/ /\ h = Loops(c, l) /\ t.byte = 0 /\ t.trozos = Chunks
             /\ u = [t EXCEPT !.fin = TRUE]
      BY <2>2, Zenon
    <3> QED
      BY <3>2, <3>3, <3>4, <3>5, <3>6, <3>7, Zenon
  <2>6. shell[r].pc = "data" => u.byte = 0
    BY <2>4, <2>5, PeersAssumption
  <2>7. /\ h \in [Client -> [Listener -> Thread]]
        /\ \A d \in Client, k \in Listener : (d # c \/ k # l) => h[d][k] = hilo[d][k]
        /\ h[c][l].pc # "read" \/ (h[c][l] = hilo[c][l] /\ ~u.fin)
        /\ Listens(dueno, h, listen_socket, listen_thread, stop_listening)
    <3>1. CASE h = hilo /\ ~u.fin
      BY <3>1 DEF PeersInv, Types
    <3>2. CASE h = Loops(c, l)
      BY <3>2, LoopsKeeps
    <3> QED
      BY <2>5, <3>1, <3>2
  <2>8. u.orden = trans[r].orden
    BY <2>5 DEF t
  <2> DEFINE v == [trans EXCEPT ![r] = u]
  <2>9. v \in [Client -> Trans] /\ FilesInv(h, cola, v, shell) /\ NumbersOK(h, cola, shell, ordenes)
    <3>1. u \in Trans /\ ((u.fin /\ u.byte = 0) => (u.trozos = Chunks \/ u.roto))
      BY <2>5
    <3>2. /\ \A d \in Client, k \in Listener : (d # c \/ k # l) => h[d][k] = hilo[d][k]
          /\ h[c][l].pc # "read" \/ (h[c][l] = hilo[c][l] /\ ~u.fin)
      BY <2>7
    <3> HIDE DEF x, r, t
    <3> QED
      BY <1>3, <2>1, <2>6, <2>8, <3>1, <3>2, SentFiles
  <2>10. Moves(h, cola, v)
    BY <2>2
  <2> HIDE DEF v
  <2>11. Types(h, listen_socket, cola, v) /\ PortsOK(dueno, cola)
    BY <2>7, <2>9 DEF PeersInv, Types
  <2> QED
    BY <2>7, <2>9, <2>10, <2>11, MovesKeeps
<1> QED
  BY <1>4, <1>5

-----------------------------------------------------------------------------
(* The shell.                                                              *)

(* Client c goes on in a command: what matters is whether it waits.        *)
LEMMA ShellMoves ==
  ASSUME NEW h, NEW s, NEW q, NEW t, NEW sh, NEW sh2, NEW n, NEW c \in Client,
         \A e \in Client : e # c => sh2[e] = sh[e],
         sh2[c].pc # "dial", sh2[c].pc # "prompt" => n >= 1, Waiting(sh2, t, c),
         NumbersOK(h, q, sh, n), FilesInv(h, q, t, sh)
  PROVE  NumbersOK(h, q, sh2, n) /\ FilesInv(h, q, t, sh2)
<1>1. NumbersOK(h, q, sh2, n)
  BY DEF NumbersOK
<1>2. FilesInv(h, q, t, sh2)
  BY DEF FilesInv, Waiting
<1> QED
  BY <1>1, <1>2

(* Another command is typed: it has a number of its own.                   *)
LEMMA NextNumber ==
  ASSUME NEW h, NEW s, NEW q, NEW t, NEW sh, NEW sh2, NEW n \in Nat, Types(h, s, q, t),
         NumbersOK(h, q, sh, n)
  PROVE  NumbersOK(h, q, sh2, n + 1)
<1>1. \A x \in Conn : x.op = "GET_FILE" => x.orden \in 1..MaxCommands
  BY DEF Conn
<1>2. ASSUME NEW c \in Client PROVE Numbered(h, q, c, n + 1)
  <2>1. Numbered(h, q, c, n)
    BY DEF NumbersOK
  <2>2. ASSUME NEW p \in Port, NEW i \in DOMAIN q[p], Queued(q, p, i, c)
        PROVE  q[p][i].orden <= n + 1
    <3>1. q[p][i] \in Conn /\ q[p][i].op = "GET_FILE" /\ q[p][i].orden <= n
      BY <2>1, <2>2 DEF Numbered, Queued, Types
    <3> QED
      BY <1>1, <3>1, PeersAssumption
  <2>3. ASSUME NEW d \in Client, NEW l \in Listener, Served(h, d, l, c)
        PROVE  h[d][l].conn.orden <= n + 1
    <3>1. /\ h[d][l].conn \in Conn /\ h[d][l].conn.op = "GET_FILE"
          /\ h[d][l].conn.orden <= n
      BY <2>1, <2>3 DEF Numbered, Served, Types, Thread
    <3> QED
      BY <1>1, <3>1, PeersAssumption
  <2> QED
    BY <2>2, <2>3 DEF Numbered
<1>3. \A c \in Client : Numbered(h, q, c, n)
  BY DEF NumbersOK
<1>4. n = (n + 1) - 1 /\ n + 1 >= 1
  OBVIOUS
<1>5. \A c \in Client : Numbered(h, q, c, (n + 1) - 1)
  BY <1>3, <1>4
<1> QED
  BY <1>2, <1>4, <1>5 DEF NumbersOK

(* Where the shell of c goes.                                              *)
LEMMA GoesTo ==
  ASSUME PeersInv, NEW c \in Client, NEW pc \in Steps, Goes(c, pc)
  PROVE  /\ shell' \in [Client -> [pc : Steps, user : Client \cup {None}]]
         /\ shell'[c].pc = pc
         /\ \A e \in Client : e # c => shell'[e] = shell[e]
BY DEF PeersInv, ShellTypes, Goes

LEMMA PromptAgain ==
  ASSUME PeersInv, NEW c \in Client, Prompt(c)
  PROVE  /\ shell' \in [Client -> [pc : Steps, user : Client \cup {None}]]
         /\ shell'[c].pc = "prompt"
         /\ \A e \in Client : e # c => shell'[e] = shell[e]
<1>1. AtPrompt \in [pc : Steps, user : Client \cup {None}] /\ AtPrompt.pc = "prompt"
  BY DEF AtPrompt, Steps
<1> QED
  BY <1>1 DEF PeersInv, ShellTypes, Prompt

(* Steps in which the sockets do not close.                                *)
LEMMA ShellOnly ==
  ASSUME PeersInv, NEW c \in Client,
         UNCHANGED <<dueno, cola, listen_socket, listen_thread, stop_listening, hilo, trans>>,
         ShellTypes', NumbersOK(hilo, cola, shell', ordenes'), FilesInv(hilo, cola, trans, shell'),
         \A e \in Client : e # c => shell'[e] = shell[e],
         shell'[c].pc \notin {"join", "join_quit"}
  PROVE  PeersInv'
<1>1. Types(hilo', listen_socket', cola', trans') /\ PortsOK(dueno', cola')
  BY DEF PeersInv
<1>2. Listens(dueno', hilo', listen_socket', listen_thread', stop_listening')
  BY DEF PeersInv
<1>3. NumbersOK(hilo', cola', shell', ordenes') /\ FilesInv(hilo', cola', trans', shell')
  OBVIOUS
<1>4. Closed(listen_socket', shell')
  BY DEF PeersInv, Closed
<1> QED
  BY <1>1, <1>2, <1>3, <1>4 DEF PeersInv

(* Steps in which c closes its socket.                                     *)
LEMMA SocketCloses ==
  ASSUME PeersInv, NEW c \in Client, NEW h, NEW t, NEW visto \in BOOLEAN,
         Become(h, [listen_socket EXCEPT ![c] = None], cola, t, visto),
         h \in [Client -> [Listener -> Thread]], t \in [Client -> Trans],
         \A e \in Client : e # c => /\ h[e] = hilo[e] /\ shell'[e] = shell[e]
                                    /\ listen_thread'[e] = listen_thread[e]
                                    /\ stop_listening'[e] = stop_listening[e],
         ShellTypes', NumbersOK(h, cola, shell', ordenes'), FilesInv(h, cola, t, shell')
  PROVE  PeersInv'
<1> DEFINE s == [listen_socket EXCEPT ![c] = None]
<1>1. Become(h, s, cola, t, visto)
  OBVIOUS
<1>2. /\ s \in [Client -> Port \cup {None}] /\ s[c] = None
      /\ \A e \in Client : e # c => s[e] = listen_socket[e]
  BY DEF PeersInv, Types
<1> HIDE DEF s
<1>3. Listens(dueno, h, s, listen_thread', stop_listening')
  BY <1>2 DEF PeersInv, Listens
<1>4. Types(h, s, cola, t) /\ PortsOK(dueno, cola)
  BY <1>2 DEF PeersInv, Types
<1>5. /\ Types(hilo', listen_socket', cola', trans') /\ PortsOK(dueno', cola')
      /\ Listens(dueno', hilo', listen_socket', listen_thread', stop_listening')
      /\ NumbersOK(hilo', cola', shell', ordenes') /\ FilesInv(hilo', cola', trans', shell')
  BY <1>1, <1>3, <1>4, BecomeKeeps
<1>6. Closed(listen_socket', shell')
  <2>1. listen_socket' = s
    BY <1>1 DEF Become
  <2> QED
    BY <1>2, <2>1 DEF PeersInv, Closed
<1> QED
  BY <1>5, <1>6 DEF PeersInv

(* Typing a command.                                                       *)
LEMMA TypedCommand ==
  ASSUME PeersInv, NEW c \in Client, Typing(c)
  PROVE  /\ ordenes \in Nat /\ ordenes' \in 0..MaxCommands /\ ordenes' = ordenes + 1
         /\ shell[c].pc = "prompt" /\ trans[c].orden = 0
         /\ \A sh : NumbersOK(hilo, cola, sh, ordenes')
         /\ \A sh : /\ \A e \in Client : e # c => sh[e] = shell[e]
                    /\ sh[c].pc # "data"
                    => FilesInv(hilo, cola, trans, sh)
<1>1. /\ shell[c].pc = "prompt" /\ ordenes' = ordenes + 1 /\ ordenes < MaxCommands
      /\ ordenes \in 0..MaxCommands
  BY DEF Typing, In, PeersInv, ShellTypes
<1>2. ordenes \in Nat /\ ordenes' \in 0..MaxCommands
  BY <1>1, PeersAssumption
<1>3. trans[c].orden = 0
  BY <1>1 DEF PeersInv, FilesInv, Waiting
<1>4. ASSUME NEW sh PROVE NumbersOK(hilo, cola, sh, ordenes')
  BY <1>1, <1>2, NextNumber DEF PeersInv
<1>5. ASSUME NEW sh, \A e \in Client : e # c => sh[e] = shell[e], sh[c].pc # "data"
      PROVE  FilesInv(hilo, cola, trans, sh)
  BY <1>3, <1>5 DEF PeersInv, FilesInv, Waiting
<1> QED
  BY <1>1, <1>2, <1>3, <1>4, <1>5

LEMMA ConnectOKInv == ASSUME PeersInv, NEW c \in Client, ConnectOK(c) PROVE PeersInv'
<1>1. /\ shell[c].pc = "connecting" /\ Prompt(c)
      /\ usuarios_conectados' = [usuarios_conectados EXCEPT ![c] = listen_socket[c]]
      /\ connected_user' = [connected_user EXCEPT ![c] = TRUE]
      /\ UNCHANGED <<dueno, cola, listen_socket, listen_thread, stop_listening,
                     users_directory, hilo, trans, ordenes, sucesos>>
  BY DEF ConnectOK, In, Set, kernelVars, countVars
<1>2. /\ shell' \in [Client -> [pc : Steps, user : Client \cup {None}]]
      /\ shell'[c].pc = "prompt" /\ \A e \in Client : e # c => shell'[e] = shell[e]
  BY <1>1, PromptAgain
<1>3. listen_socket[c] \in Port \cup {None}
  BY DEF PeersInv, Types
<1>4. ShellTypes'
  BY <1>1, <1>2, <1>3 DEF PeersInv, ShellTypes
<1>5. Waiting(shell', trans, c)
  BY <1>1, <1>2 DEF PeersInv, FilesInv, Waiting
<1>6. NumbersOK(hilo, cola, shell', ordenes') /\ FilesInv(hilo, cola, trans, shell')
  BY <1>1, <1>2, <1>5, ShellMoves DEF PeersInv
<1> QED
  BY <1>1, <1>2, <1>4, <1>6, ShellOnly

LEMMA ConnectFailedInv == ASSUME PeersInv, NEW c \in Client, ConnectFailed(c) PROVE PeersInv'
<1>1. /\ shell[c].pc = "connecting" /\ Prompt(c)
      /\ stop_listening' = [stop_listening EXCEPT ![c] = TRUE]
      /\ Become(hilo, [listen_socket EXCEPT ![c] = None], cola, trans, TRUE)
      /\ UNCHANGED <<listen_thread, connected_user, users_directory, ordenes, sucesos>>
  BY DEF ConnectFailed, In, Set, countVars
<1>2. /\ shell' \in [Client -> [pc : Steps, user : Client \cup {None}]]
      /\ shell'[c].pc = "prompt" /\ \A e \in Client : e # c => shell'[e] = shell[e]
  BY <1>1, PromptAgain
<1>3. usuarios_conectados' \in [Client -> Port \cup {None}]
  <2>1. listen_socket[c] \in Port \cup {None}
    BY DEF PeersInv, Types
  <2>2. \/ usuarios_conectados' = usuarios_conectados
        \/ usuarios_conectados' = [usuarios_conectados EXCEPT ![c] = listen_socket[c]]
    BY DEF ConnectFailed
  <2> QED
    BY <2>1, <2>2 DEF PeersInv, ShellTypes
<1>4. ShellTypes'
  BY <1>1, <1>2, <1>3 DEF PeersInv, ShellTypes
<1>5. Waiting(shell', trans, c)
  BY <1>1, <1>2 DEF PeersInv, FilesInv, Waiting
<1>6. NumbersOK(hilo, cola, shell', ordenes') /\ FilesInv(hilo, cola, trans, shell')
  BY <1>1, <1>2, <1>5, ShellMoves DEF PeersInv
<1>7. /\ hilo \in [Client -> [Listener -> Thread]] /\ trans \in [Client -> Trans]
      /\ \A e \in Client : e # c => stop_listening'[e] = stop_listening[e]
  BY <1>1 DEF PeersInv, Types, ShellTypes
<1> QED
  BY <1>1, <1>2, <1>4, <1>6, <1>7, SocketCloses

LEMMA stop_listenerInv == ASSUME PeersInv, NEW c \in Client, stop_listener(c) PROVE PeersInv'
<1>1. PICK pc \in {"join", "join_quit"} :
        /\ shell[c].pc \in {"stop", "stop_quit"} /\ Goes(c, pc)
        /\ stop_listening' = [stop_listening EXCEPT ![c] = TRUE]
        /\ Become(hilo, [listen_socket EXCEPT ![c] = None], cola, trans, TRUE)
        /\ UNCHANGED <<usuarios_conectados, listen_thread, connected_user, users_directory,
                       ordenes, sucesos>>
  BY DEF stop_listener, In, Set, countVars
<1>2. pc \in Steps /\ pc \notin {"prompt", "dial", "byte", "data"}
  BY DEF Steps
<1>3. /\ shell' \in [Client -> [pc : Steps, user : Client \cup {None}]]
      /\ shell'[c].pc = pc /\ \A e \in Client : e # c => shell'[e] = shell[e]
  BY <1>1, <1>2, GoesTo
<1>4. ShellTypes'
  BY <1>1, <1>3 DEF PeersInv, ShellTypes
<1>5. Waiting(shell', trans, c)
  BY <1>1, <1>2, <1>3 DEF PeersInv, FilesInv, Waiting
<1>6. ordenes >= 1
  BY <1>1 DEF PeersInv, NumbersOK
<1>7. NumbersOK(hilo, cola, shell', ordenes') /\ FilesInv(hilo, cola, trans, shell')
  <2>1. shell'[c].pc # "dial" /\ ordenes' = ordenes
    BY <1>1, <1>2, <1>3
  <2> QED
    BY <1>3, <1>5, <1>6, <2>1, ShellMoves DEF PeersInv
<1>8. /\ hilo \in [Client -> [Listener -> Thread]] /\ trans \in [Client -> Trans]
      /\ \A e \in Client : e # c => stop_listening'[e] = stop_listening[e]
  BY <1>1 DEF PeersInv, Types, ShellTypes
<1> QED
  BY <1>1, <1>3, <1>4, <1>7, <1>8, SocketCloses

LEMMA disconnectInv == ASSUME PeersInv, NEW c \in Client, disconnect(c) PROVE PeersInv'
<1>1. /\ Typing(c) /\ \E pc \in {"stop", "stop_quit"} : Goes(c, pc)
      /\ \/ usuarios_conectados' = usuarios_conectados
         \/ \E p \in {usuarios_conectados[c], None} :
              usuarios_conectados' = [usuarios_conectados EXCEPT ![c] = p]
      /\ UNCHANGED <<dueno, cola, listen_socket, listen_thread, stop_listening, connected_user,
                     users_directory, hilo, trans, sucesos>>
  BY DEF disconnect, Set, kernelVars, attrVars
<1>2. PICK pc \in {"stop", "stop_quit"} : Goes(c, pc)
  BY <1>1
<1>3. pc \in Steps
  BY DEF Steps
<1>4. /\ shell' \in [Client -> [pc : Steps, user : Client \cup {None}]]
      /\ shell'[c].pc = pc /\ \A e \in Client : e # c => shell'[e] = shell[e]
  BY <1>2, <1>3, GoesTo
<1>5. /\ ordenes' \in 0..MaxCommands /\ NumbersOK(hilo, cola, shell', ordenes')
      /\ FilesInv(hilo, cola, trans, shell')
  BY <1>1, <1>4, TypedCommand
<1>6. usuarios_conectados' \in [Client -> Port \cup {None}]
  BY <1>1 DEF PeersInv, ShellTypes
<1>7. ShellTypes'
  BY <1>1, <1>4, <1>5, <1>6 DEF PeersInv, ShellTypes
<1> QED
  BY <1>1, <1>4, <1>5, <1>7, ShellOnly

(* c waits for nothing from now on: what it was waiting for is no longer   *)
(* its connection.                                                         *)
LEMMA NoLongerWaits ==
  ASSUME PeersInv, NEW c \in Client, NEW t,
         t = [trans EXCEPT ![c] = NoTrans] \/ (t = trans /\ trans[c].orden = 0),
         NEW sh, \A e \in Client : e # c => sh[e] = shell[e], sh[c].pc = "prompt"
  PROVE  /\ t \in [Client -> Trans] /\ NumbersOK(hilo, cola, sh, ordenes)
         /\ FilesInv(hilo, cola, t, sh)
<1>1. NoTrans \in Trans /\ NoTrans.orden = 0 /\ NoTrans.byte = None /\ ~NoTrans.fin
  BY PeersAssumption DEF NoTrans, Trans
<1>2. t \in [Client -> Trans] /\ t[c].orden = 0 /\ \A e \in Client : e # c => t[e] = trans[e]
  BY <1>1 DEF PeersInv, Types
<1>3. Whole(t, c)
  <2>1. t[c] = NoTrans \/ t[c] = trans[c]
    BY DEF PeersInv, Types
  <2>2. Whole(trans, c)
    BY DEF PeersInv, FilesInv
  <2> QED
    BY <1>1, <2>1, <2>2 DEF Whole
<1>4. NumbersOK(hilo, cola, sh, ordenes)
  BY DEF PeersInv, NumbersOK
<1>5. ASSUME NEW e \in Client PROVE OnePlace(hilo, cola, t, e) /\ Whole(t, e) /\ Waiting(sh, t, e)
  <2>1. CASE e = c
    <3>1. Types(hilo, listen_socket, cola, t)
      BY <1>2 DEF PeersInv, Types
    <3>2. /\ \A p \in Port : \A i \in DOMAIN cola[p] : ~InQueue(cola, t, p, i, c)
          /\ \A d \in Client, l \in Listener : ~AtThread(hilo, t, d, l, c)
      BY <1>2, <3>1, AskedNumber
    <3>3. OnePlace(hilo, cola, t, c)
      BY <3>2 DEF OnePlace
    <3>4. Waiting(sh, t, c)
      BY <1>2 DEF Waiting
    <3> QED
      BY <1>3, <2>1, <3>3, <3>4
  <2>2. CASE e # c
    <3>1. OnePlace(hilo, cola, trans, e) /\ Whole(trans, e) /\ Waiting(shell, trans, e)
      BY DEF PeersInv, FilesInv
    <3>2. t[e] = trans[e] /\ sh[e] = shell[e]
      BY <1>2, <2>2
    <3>3. \A x : AskedBy(x, e, t) <=> AskedBy(x, e, trans)
      BY <3>2 DEF AskedBy
    <3>4. /\ \A p \in Port : \A i \in DOMAIN cola[p] :
               InQueue(cola, t, p, i, e) <=> InQueue(cola, trans, p, i, e)
          /\ \A d \in Client, l \in Listener : AtThread(hilo, t, d, l, e) <=> AtThread(hilo, trans, d, l, e)
      BY <3>3 DEF InQueue, AtThread
    <3>5. OnePlace(hilo, cola, t, e)
      BY <3>1, <3>2, <3>4 DEF OnePlace
    <3> QED
      BY <3>1, <3>2, <3>5 DEF Whole, Waiting
  <2> QED
    BY <2>1, <2>2
<1> QED
  BY <1>2, <1>4, <1>5 DEF FilesInv

(* The process of c ends: who it was serving gets no more.                 *)
LEMMA ExitInv ==
  ASSUME PeersInv, NEW c \in Client, NEW t, NEW visto \in BOOLEAN, Exit(c, t, visto),
         t = [trans EXCEPT ![c] = NoTrans] \/ (t = trans /\ trans[c].orden = 0),
         Prompt(c), ordenes' = ordenes, ShellTypes',
         \A e \in Client : e # c => listen_thread'[e] = listen_thread[e]
  PROVE  PeersInv'
<1> DEFINE Serves(r) == \E l \in Listener : At(c, l, "read") /\ AskedBy(hilo[c][l].conn, r, t)
           h == [hilo EXCEPT ![c] = [l \in Listener |-> EndedThread]]
           left == [r \in Client |-> IF Serves(r) THEN [t[r] EXCEPT !.roto = TRUE, !.fin = @ \/ visto]
                                     ELSE t[r]]
<1>1. /\ Become(h, [listen_socket EXCEPT ![c] = None], cola, left, visto)
      /\ stop_listening' = [stop_listening EXCEPT ![c] = FALSE]
  BY DEF Exit, Set
<1>2. shell'[c].pc = "prompt" /\ \A e \in Client : e # c => shell'[e] = shell[e]
  BY PromptAgain
<1>3. /\ t \in [Client -> Trans] /\ NumbersOK(hilo, cola, shell', ordenes)
      /\ FilesInv(hilo, cola, t, shell')
  BY <1>2, NoLongerWaits
<1>4. EndedThread \in Thread /\ EndedThread.pc = "ended"
  BY DEF EndedThread, Thread
<1>5. /\ h \in [Client -> [Listener -> Thread]]
      /\ \A e \in Client : e # c => h[e] = hilo[e]
      /\ \A l \in Listener : h[c][l].pc = "ended"
  BY <1>4 DEF PeersInv, Types
<1>6. \A r \in Client : Serves(r) => \E l \in Listener : AtThread(hilo, t, c, l, r)
  BY DEF AtThread, At
<1>7. \A r \in Client : \A l \in Listener : AtThread(hilo, t, c, l, r) => Serves(r)
  BY DEF AtThread, At
<1>8. ASSUME NEW r \in Client
      PROVE  /\ left[r] \in Trans /\ left[r].orden = t[r].orden /\ left[r].byte = t[r].byte
             /\ left[r].trozos = t[r].trozos
             /\ Serves(r) => left[r].roto
             /\ ~Serves(r) => left[r] = t[r]
  <2>1. t[r] \in Trans /\ (t[r].fin \/ visto) \in BOOLEAN
    BY <1>3 DEF Trans
  <2> HIDE DEF Serves
  <2> QED
    BY <2>1 DEF Trans
<1> HIDE DEF Serves, h, left
<1>9. \A d \in Client, k \in Listener : h[d][k].pc = "read" => h[d][k] = hilo[d][k]
  BY <1>5
<1>10. NumbersOK(h, cola, shell', ordenes') /\ FilesInv(h, cola, t, shell')
  BY <1>3, <1>9, ThreadsLeave
<1>11. ASSUME NEW e \in Client
       PROVE  OnePlace(h, cola, left, e) /\ Whole(left, e) /\ Waiting(shell', left, e)
  <2>1. OnePlace(h, cola, t, e) /\ Whole(t, e) /\ Waiting(shell', t, e)
    BY <1>10 DEF FilesInv
  <2>2. \A x : AskedBy(x, e, left) <=> AskedBy(x, e, t)
    BY <1>8 DEF AskedBy
  <2>3. /\ \A p \in Port : \A i \in DOMAIN cola[p] :
             InQueue(cola, left, p, i, e) <=> InQueue(cola, t, p, i, e)
        /\ \A d \in Client, l \in Listener : AtThread(h, left, d, l, e) <=> AtThread(h, t, d, l, e)
    BY <2>2 DEF InQueue, AtThread
  <2>4. OnePlace(h, cola, left, e)
    <3>1. CASE Serves(e)
      <4>1. PICK l \in Listener : AtThread(hilo, t, c, l, e)
        BY <1>6, <3>1
      <4>2. OnePlace(hilo, cola, t, e)
        BY <1>3 DEF FilesInv
      <4>3. /\ \A p \in Port : \A i \in DOMAIN cola[p] : ~InQueue(cola, t, p, i, e)
            /\ \A d \in Client, k \in Listener : AtThread(hilo, t, d, k, e) => d = c /\ k = l
        BY <4>1, <4>2 DEF OnePlace
      <4>4. \A d \in Client, k \in Listener : AtThread(h, t, d, k, e) => AtThread(hilo, t, d, k, e) /\ d # c
        BY <1>5 DEF AtThread
      <4> QED
        BY <2>3, <4>3, <4>4 DEF OnePlace
    <3>2. CASE ~Serves(e)
      BY <1>8, <2>1, <2>3, <3>2 DEF OnePlace
    <3> QED
      BY <3>1, <3>2
  <2>5. Whole(left, e)
    BY <1>8, <2>1 DEF Whole
  <2>6. Waiting(shell', left, e)
    BY <1>8, <2>1 DEF Waiting
  <2> QED
    BY <2>4, <2>5, <2>6
<1>12. FilesInv(h, cola, left, shell')
  BY <1>11 DEF FilesInv
<1>13. left \in [Client -> Trans]
  <2>1. left = [r \in Client |-> left[r]]
    BY DEF left
  <2> QED
    BY <1>8, <2>1
<1>14. \A e \in Client : e # c => /\ h[e] = hilo[e] /\ shell'[e] = shell[e]
                                  /\ listen_thread'[e] = listen_thread[e]
                                  /\ stop_listening'[e] = stop_listening[e]
  BY <1>1, <1>2, <1>5 DEF PeersInv, ShellTypes
<1>15. h \in [Client -> [Listener -> Thread]]
  BY <1>5
<1>16. NumbersOK(h, cola, shell', ordenes')
  BY <1>10
<1>17. Become(h, [listen_socket EXCEPT ![c] = None], cola, left, visto)
  BY <1>1
<1> QED
  BY ONLY PeersInv, c \in Client, visto \in BOOLEAN, ShellTypes', <1>12, <1>13, <1>14, <1>15, <1>16,
     <1>17, SocketCloses

LEMMA JoinInv == ASSUME PeersInv, NEW c \in Client, Join(c) PROVE PeersInv'
<1>1. /\ shell[c].pc \in {"join", "join_quit"} /\ Prompt(c)
      /\ listen_thread' = [listen_thread EXCEPT ![c] = None]
      /\ connected_user' = [connected_user EXCEPT ![c] = FALSE]
      /\ users_directory' = [users_directory EXCEPT ![c] = Nobody]
      /\ UNCHANGED <<usuarios_conectados, ordenes, sucesos>>
      /\ \/ UNCHANGED <<stop_listening, listen_socket, dueno, cola, hilo, trans>>
         \/ Exit(c, trans, TRUE)
  BY DEF Join, In, Set, kernelVars, countVars
<1>2. /\ shell' \in [Client -> [pc : Steps, user : Client \cup {None}]]
      /\ shell'[c].pc = "prompt" /\ \A e \in Client : e # c => shell'[e] = shell[e]
  BY <1>1, PromptAgain
<1>3. stop_listening' \in [Client -> BOOLEAN]
  BY <1>1 DEF PeersInv, ShellTypes, Exit, Set
<1>4. DOMAIN Nobody = {}
  BY DEF Nobody
<1>5. ShellTypes'
  <2>1. /\ DOMAIN users_directory' = Client
        /\ \A e \in Client : /\ DOMAIN users_directory'[e] \subseteq Client
                             /\ \A d \in DOMAIN users_directory'[e] : users_directory'[e][d] \in Port
    BY <1>1, <1>4 DEF PeersInv, ShellTypes
  <2>2. /\ listen_thread' \in [Client -> Listener \cup {None}]
        /\ connected_user' \in [Client -> BOOLEAN]
    BY <1>1 DEF PeersInv, ShellTypes
  <2> QED
    BY <1>1, <1>2, <1>3, <2>1, <2>2 DEF PeersInv, ShellTypes
<1>6. trans[c].orden = 0
  BY <1>1 DEF PeersInv, FilesInv, Waiting
<1>7. \A e \in Client : e # c => listen_thread'[e] = listen_thread[e]
  BY <1>1 DEF PeersInv, ShellTypes
<1>8. CASE UNCHANGED <<stop_listening, listen_socket, dueno, cola, hilo, trans>>
  <2>1. listen_socket[c] = None
    BY <1>1 DEF PeersInv, Closed
  <2>2. NumbersOK(hilo, cola, shell', ordenes) /\ FilesInv(hilo, cola, trans, shell')
    BY <1>2, <1>6, NoLongerWaits
  <2>3. Listens(dueno', hilo', listen_socket', listen_thread', stop_listening')
    BY <1>7, <1>8, <2>1 DEF PeersInv, Listens
  <2>4. Types(hilo', listen_socket', cola', trans') /\ PortsOK(dueno', cola')
    BY <1>8 DEF PeersInv
  <2>5. Closed(listen_socket', shell')
    BY <1>2, <1>8 DEF PeersInv, Closed
  <2>6. NumbersOK(hilo', cola', shell', ordenes') /\ FilesInv(hilo', cola', trans', shell')
    BY <1>1, <1>8, <2>2
  <2> QED
    BY <1>5, <2>3, <2>4, <2>5, <2>6 DEF PeersInv
<1>9. CASE Exit(c, trans, TRUE)
  BY <1>1, <1>5, <1>6, <1>7, <1>9, ExitInv
<1> QED
  BY <1>1, <1>8, <1>9

LEMMA KilledInv == ASSUME PeersInv, NEW c \in Client, Killed(c) PROVE PeersInv'
<1>1. PICK visto \in BOOLEAN : Exit(c, [trans EXCEPT ![c] = NoTrans], visto)
  BY DEF Killed
<1>2. /\ Prompt(c) /\ sucesos < MaxEvents /\ sucesos' = sucesos + 1
      /\ listen_thread' = [listen_thread EXCEPT ![c] = None]
      /\ connected_user' = [connected_user EXCEPT ![c] = FALSE]
      /\ users_directory' = [users_directory EXCEPT ![c] = Nobody]
      /\ UNCHANGED <<usuarios_conectados, ordenes>>
  BY DEF Killed, Event, Set
<1>3. shell' \in [Client -> [pc : Steps, user : Client \cup {None}]]
  BY <1>2, PromptAgain
<1>4. DOMAIN Nobody = {}
  BY DEF Nobody
<1>5. ShellTypes'
  <2>1. /\ DOMAIN users_directory' = Client
        /\ \A e \in Client : /\ DOMAIN users_directory'[e] \subseteq Client
                             /\ \A d \in DOMAIN users_directory'[e] : users_directory'[e][d] \in Port
    BY <1>2, <1>4 DEF PeersInv, ShellTypes
  <2>2. /\ listen_thread' \in [Client -> Listener \cup {None}]
        /\ connected_user' \in [Client -> BOOLEAN]
    BY <1>2 DEF PeersInv, ShellTypes
  <2>3. stop_listening' \in [Client -> BOOLEAN]
    BY <1>1 DEF PeersInv, ShellTypes, Exit, Set
  <2>4. sucesos' \in 0..MaxEvents
    BY <1>2, PeersAssumption DEF PeersInv, ShellTypes
  <2> QED
    BY <1>2, <1>3, <2>1, <2>2, <2>3, <2>4 DEF PeersInv, ShellTypes
<1>6. \A e \in Client : e # c => listen_thread'[e] = listen_thread[e]
  BY <1>2 DEF PeersInv, ShellTypes
<1> QED
  BY <1>1, <1>2, <1>5, <1>6, ExitInv

(* The end of a GETFILE, whatever came of it.                              *)
LEMMA GetEndsInv == ASSUME PeersInv, NEW c \in Client, GetEnds(c) PROVE PeersInv'
<1>1. /\ Prompt(c) /\ trans' = [trans EXCEPT ![c] = NoTrans]
      /\ UNCHANGED <<usuarios_conectados, dueno, cola, listen_socket, listen_thread,
                     stop_listening, connected_user, users_directory, hilo, ordenes, sucesos>>
  BY DEF GetEnds, GetOnly, Set, kernelVars, attrVars, countVars
<1>2. /\ shell' \in [Client -> [pc : Steps, user : Client \cup {None}]]
      /\ shell'[c].pc = "prompt" /\ \A e \in Client : e # c => shell'[e] = shell[e]
  BY <1>1, PromptAgain
<1>3. ShellTypes'
  BY <1>1, <1>2 DEF PeersInv, ShellTypes
<1>4. /\ trans' \in [Client -> Trans] /\ NumbersOK(hilo, cola, shell', ordenes)
      /\ FilesInv(hilo, cola, trans', shell')
  BY <1>1, <1>2, NoLongerWaits
<1>5. Types(hilo', listen_socket', cola', trans')
  BY <1>1, <1>4 DEF PeersInv, Types
<1>6. /\ PortsOK(dueno', cola')
      /\ Listens(dueno', hilo', listen_socket', listen_thread', stop_listening')
  BY <1>1 DEF PeersInv
<1>7. Closed(listen_socket', shell')
  BY <1>1, <1>2 DEF PeersInv, Closed
<1>8. NumbersOK(hilo', cola', shell', ordenes') /\ FilesInv(hilo', cola', trans', shell')
  BY <1>1, <1>4
<1> QED
  BY <1>3, <1>5, <1>6, <1>7, <1>8 DEF PeersInv

LEMMA ReadByteInv == ASSUME PeersInv, NEW c \in Client, ReadByte(c) PROVE PeersInv'
<1>1. CASE GetEnds(c)
  BY <1>1, GetEndsInv
<1>2. CASE trans[c].byte = 0 /\ Goes(c, "data") /\ UNCHANGED trans /\ GetOnly
  <2>1. UNCHANGED <<usuarios_conectados, dueno, cola, listen_socket, listen_thread, stop_listening,
                    connected_user, users_directory, hilo, trans, ordenes, sucesos>>
    BY <1>2 DEF GetOnly, kernelVars, attrVars, countVars
  <2>2. "data" \in Steps /\ shell[c].pc = "byte"
    BY DEF Steps, ReadByte, In
  <2>3. /\ shell' \in [Client -> [pc : Steps, user : Client \cup {None}]]
        /\ shell'[c].pc = "data" /\ \A e \in Client : e # c => shell'[e] = shell[e]
    BY <1>2, <2>2, GoesTo
  <2>4. ShellTypes'
    BY <2>1, <2>3 DEF PeersInv, ShellTypes
  <2>5. Waiting(shell', trans, c)
    BY <1>2, <2>3 DEF Waiting
  <2>6. ordenes >= 1
    BY <2>2 DEF PeersInv, NumbersOK
  <2>7. NumbersOK(hilo, cola, shell', ordenes') /\ FilesInv(hilo, cola, trans, shell')
    BY <2>1, <2>3, <2>5, <2>6, ShellMoves DEF PeersInv
  <2> QED
    BY <2>1, <2>3, <2>4, <2>7, ShellOnly
<1> QED
  BY <1>1, <1>2 DEF ReadByte

LEMMA ReadDataInv == ASSUME PeersInv, NEW c \in Client, ReadData(c) PROVE PeersInv'
BY GetEndsInv DEF ReadData

LEMMA GivesUpInv == ASSUME PeersInv, NEW c \in Client, GivesUp(c) PROVE PeersInv'
BY GetEndsInv DEF GivesUp

(* The directory that USERS makes has ports of clients.                    *)
LEMMA AnsweredIs ==
  ASSUME PeersInv, NEW c \in Client, NEW dir \in Answered(c)
  PROVE  DOMAIN dir \subseteq Client /\ \A d \in DOMAIN dir : dir[d] \in Port
<1>1. CASE dir = users_directory[c]
  BY <1>1 DEF PeersInv, ShellTypes
<1>2. CASE dir # users_directory[c]
  <2>1. PICK S \in SUBSET {d \in Client \ {c} : usuarios_conectados[d] # None} :
          dir = [d \in S |-> usuarios_conectados[d]]
    BY <1>2 DEF Answered
  <2> QED
    BY <2>1 DEF PeersInv, ShellTypes
<1> QED
  BY <1>1, <1>2

LEMMA usersInv == ASSUME PeersInv, NEW c \in Client, users(c) PROVE PeersInv'
<1>1. PICK dir \in Answered(c) : users_directory' = [users_directory EXCEPT ![c] = dir]
  BY DEF users, Set
<1>2. /\ Typing(c)
      /\ UNCHANGED <<usuarios_conectados, dueno, cola, listen_socket, listen_thread,
                     stop_listening, connected_user, shell, hilo, trans, sucesos>>
  BY DEF users, kernelVars
<1>3. /\ ordenes' \in 0..MaxCommands /\ shell[c].pc = "prompt"
      /\ NumbersOK(hilo, cola, shell', ordenes') /\ FilesInv(hilo, cola, trans, shell')
  BY <1>2, TypedCommand
<1>4. DOMAIN dir \subseteq Client /\ \A d \in DOMAIN dir : dir[d] \in Port
  BY AnsweredIs
<1>5. ShellTypes'
  BY <1>1, <1>2, <1>3, <1>4 DEF PeersInv, ShellTypes
<1> QED
  BY <1>2, <1>3, <1>5, ShellOnly

LEMMA getFileInv == ASSUME PeersInv, NEW c \in Client, NEW d \in Client, getFile(c, d) PROVE PeersInv'
<1>1. /\ Typing(c)
      /\ UNCHANGED <<usuarios_conectados, dueno, cola, listen_socket, listen_thread,
                     stop_listening, connected_user, hilo, trans, sucesos>>
  BY DEF getFile, kernelVars
<1>2. /\ DOMAIN users_directory' = Client
      /\ \A e \in Client : /\ DOMAIN users_directory'[e] \subseteq Client
                           /\ \A f \in DOMAIN users_directory'[e] : users_directory'[e][f] \in Port
  <2>1. PICK dir \in Answered(c) :
          users_directory' = users_directory \/ users_directory' = [users_directory EXCEPT ![c] = dir]
    <3>1. users_directory[c] \in Answered(c)
      BY DEF Answered
    <3> QED
      BY <3>1 DEF getFile, refresh_users_silent, Set
  <2>2. DOMAIN dir \subseteq Client /\ \A f \in DOMAIN dir : dir[f] \in Port
    BY AnsweredIs DEF PeersInv, ShellTypes
  <2> QED
    BY <2>1, <2>2 DEF PeersInv, ShellTypes
<1>3. /\ shell' \in [Client -> [pc : Steps, user : Client \cup {None}]]
      /\ shell'[c].pc \in {"prompt", "dial"}
      /\ \A e \in Client : e # c => shell'[e] = shell[e]
  <2>1. [pc |-> "dial", user |-> d] \in [pc : Steps, user : Client \cup {None}]
    BY DEF Steps
  <2>2. shell' = shell \/ shell' = [shell EXCEPT ![c] = [pc |-> "dial", user |-> d]]
    BY DEF getFile
  <2>3. shell[c].pc = "prompt"
    BY <1>1 DEF Typing, In
  <2>4. shell \in [Client -> [pc : Steps, user : Client \cup {None}]]
    BY DEF PeersInv, ShellTypes
  <2>5. CASE shell' = shell
    BY <2>3, <2>4, <2>5
  <2> DEFINE dial == [pc |-> "dial", user |-> d]
  <2>6. CASE shell' = [shell EXCEPT ![c] = dial]
    <3>1. dial.pc = "dial"
      OBVIOUS
    <3> HIDE DEF dial
    <3> QED
      BY <2>1, <2>4, <2>6, <3>1 DEF dial
  <2> QED
    BY <2>2, <2>5, <2>6
<1>4. /\ ordenes' \in 0..MaxCommands
      /\ NumbersOK(hilo, cola, shell', ordenes') /\ FilesInv(hilo, cola, trans, shell')
  BY <1>1, <1>3, TypedCommand
<1>5. ShellTypes'
  BY <1>1, <1>2, <1>3, <1>4 DEF PeersInv, ShellTypes
<1> QED
  BY <1>1, <1>3, <1>4, <1>5, ShellOnly

(* A connection that the kernel accepts is the last of the queue.          *)
Longer(q, p, x) ==
  \A r \in Port : \A i \in DOMAIN q[r] :
    \/ i \in DOMAIN cola[r] /\ q[r][i] = cola[r][i]
    \/ r = p /\ i = Len(cola[p]) + 1 /\ q[r][i] = x

LEMMA Enqueued ==
  ASSUME PeersInv, NEW p \in Port, NEW x \in Conn, NEW q, q = [cola EXCEPT ![p] = Append(cola[p], x)]
  PROVE  /\ q \in [Port -> Seq(Conn)] /\ Longer(q, p, x)
         /\ dueno[p] # None => PortsOK(dueno, q)
<1>1. cola \in [Port -> Seq(Conn)]
  BY DEF PeersInv, Types
<1>2. /\ Append(cola[p], x) \in Seq(Conn)
      /\ \A i \in DOMAIN Append(cola[p], x) :
           \/ i \in DOMAIN cola[p] /\ Append(cola[p], x)[i] = cola[p][i]
           \/ i = Len(cola[p]) + 1 /\ Append(cola[p], x)[i] = x
  <2>1. cola[p] \in Seq(Conn)
    BY <1>1
  <2> QED
    BY <2>1
<1>3. q[p] = Append(cola[p], x) /\ \A r \in Port : r # p => q[r] = cola[r]
  BY <1>1
<1>4. q \in [Port -> Seq(Conn)]
  BY <1>1, <1>2
<1>5. ASSUME dueno[p] # None PROVE PortsOK(dueno, q)
  BY <1>3, <1>5 DEF PeersInv, PortsOK
<1>6. Longer(q, p, x)
  BY <1>2, <1>3 DEF Longer
<1> QED
  BY <1>4, <1>5, <1>6

LEMMA PushInv == ASSUME PeersInv, NEW c \in Client, Push(c) PROVE PeersInv'
<1> DEFINE p == usuarios_conectados[c]
           x == [op |-> "PUSH"]
<1>1. /\ p # None /\ sucesos < MaxEvents /\ sucesos' = sucesos + 1
      /\ UNCHANGED <<dueno, listen_socket, listen_thread, stop_listening, connected_user,
                     users_directory, shell, hilo, trans, ordenes>>
      /\ \/ Accepts(p) /\ cola' = [cola EXCEPT ![p] = Append(cola[p], x)] /\ UNCHANGED usuarios_conectados
         \/ usuarios_conectados' = [usuarios_conectados EXCEPT ![c] = None] /\ UNCHANGED cola
  BY DEF Push, Event, Set, attrVars
<1>2. p \in Port
  BY <1>1 DEF PeersInv, ShellTypes
<1>3. sucesos' \in 0..MaxEvents
  BY <1>1, PeersAssumption DEF PeersInv, ShellTypes
<1>4. usuarios_conectados' \in [Client -> Port \cup {None}]
  BY <1>1 DEF PeersInv, ShellTypes
<1>5. ShellTypes'
  BY <1>1, <1>3, <1>4 DEF PeersInv, ShellTypes
<1>6. CASE UNCHANGED cola
  BY <1>1, <1>5, <1>6 DEF PeersInv
<1>7. CASE Accepts(p) /\ cola' = [cola EXCEPT ![p] = Append(cola[p], x)]
  <2>1. x \in Conn /\ x.op # "GET_FILE" /\ dueno[p] # None
    BY <1>7 DEF Conn, Accepts
  <2> HIDE DEF x, p
  <2>2. cola' \in [Port -> Seq(Conn)] /\ PortsOK(dueno, cola') /\ Longer(cola', p, x)
    BY <1>2, <1>7, <2>1, Enqueued
  <2>3. Types(hilo, listen_socket, cola', trans)
    BY <2>2 DEF PeersInv, Types
  <2>4. NumbersOK(hilo, cola', shell, ordenes)
    <3>1. ASSUME NEW e \in Client, NEW n, Numbered(hilo, cola, e, n)
          PROVE  Numbered(hilo, cola', e, n)
      BY <2>1, <2>2, <3>1 DEF Numbered, Queued, Longer
    <3> QED
      BY <3>1 DEF PeersInv, NumbersOK
  <2>5. FilesInv(hilo, cola', trans, shell)
    <3>1. \A e \in Client, r \in Port : \A i \in DOMAIN cola'[r] :
            InQueue(cola', trans, r, i, e) => InQueue(cola, trans, r, i, e)
      BY <2>1, <2>2 DEF InQueue, AskedBy, Longer
    <3>2. \A e \in Client : OnePlace(hilo, cola, trans, e) => OnePlace(hilo, cola', trans, e)
      <4>1. \A e \in Client, r \in Port : \A i \in DOMAIN cola'[r] :
              InQueue(cola', trans, r, i, e) => i \in DOMAIN cola[r]
        BY <3>1 DEF InQueue
      <4> QED
        BY <3>1, <4>1 DEF OnePlace
    <3> QED
      BY <3>2 DEF PeersInv, FilesInv
  <2>6. /\ Types(hilo', listen_socket', cola', trans') /\ PortsOK(dueno', cola')
        /\ NumbersOK(hilo', cola', shell', ordenes') /\ FilesInv(hilo', cola', trans', shell')
    BY <1>1, <2>2, <2>3, <2>4, <2>5
  <2>7. /\ Listens(dueno', hilo', listen_socket', listen_thread', stop_listening')
        /\ Closed(listen_socket', shell')
    BY <1>1 DEF PeersInv
  <2> QED
    BY <1>5, <2>6, <2>7 DEF PeersInv
<1> QED
  BY <1>1, <1>6, <1>7

(* The request of a file has a number that no connection of c has yet.     *)
LEMMA DialInv == ASSUME PeersInv, NEW c \in Client, Dial(c) PROVE PeersInv'
<1> DEFINE p == users_directory[c][shell[c].user]
           x == [op |-> "GET_FILE", de |-> c, orden |-> ordenes]
           u == [NoTrans EXCEPT !.orden = ordenes]
<1>1. /\ shell[c].pc = "dial"
      /\ UNCHANGED <<usuarios_conectados, dueno, listen_socket, listen_thread, stop_listening,
                     connected_user, users_directory, hilo, ordenes, sucesos>>
      /\ \/ /\ Accepts(p) /\ cola' = [cola EXCEPT ![p] = Append(cola[p], x)]
            /\ trans' = [trans EXCEPT ![c] = u] /\ Goes(c, "byte")
         \/ Prompt(c) /\ UNCHANGED <<cola, trans>>
  BY DEF Dial, In, Requests, Set, attrVars, countVars
<1>2. CASE Prompt(c) /\ UNCHANGED <<cola, trans>>
  <2>1. /\ shell' \in [Client -> [pc : Steps, user : Client \cup {None}]]
        /\ shell'[c].pc = "prompt" /\ \A e \in Client : e # c => shell'[e] = shell[e]
    BY <1>2, PromptAgain
  <2>2. ShellTypes'
    BY <1>1, <2>1 DEF PeersInv, ShellTypes
  <2>3. trans[c].orden = 0
    BY <1>1 DEF PeersInv, FilesInv, Waiting
  <2>4. NumbersOK(hilo, cola, shell', ordenes') /\ FilesInv(hilo, cola, trans, shell')
    BY <1>1, <2>1, <2>3, NoLongerWaits
  <2> QED
    BY <1>1, <1>2, <2>1, <2>2, <2>4, ShellOnly
<1>3. CASE /\ Accepts(p) /\ cola' = [cola EXCEPT ![p] = Append(cola[p], x)]
           /\ trans' = [trans EXCEPT ![c] = u] /\ Goes(c, "byte")
  <2>1. ordenes \in 1..MaxCommands /\ Numbered(hilo, cola, c, ordenes - 1)
    <3>1. ordenes >= 1 /\ Numbered(hilo, cola, c, ordenes - 1) /\ ordenes \in 0..MaxCommands
      BY <1>1 DEF PeersInv, NumbersOK, ShellTypes
    <3> QED
      BY <3>1, PeersAssumption
  <2>2. x \in Conn /\ x.de = c /\ x.orden = ordenes /\ x.op = "GET_FILE"
    BY <2>1 DEF Conn
  <2>3. u \in Trans /\ u.orden = ordenes /\ u.byte = None /\ ~u.fin
    <3>1. NoTrans \in Trans /\ NoTrans.byte = None /\ ~NoTrans.fin
      BY PeersAssumption DEF NoTrans, Trans
    <3>2. ordenes \in 0..MaxCommands
      BY <2>1, PeersAssumption
    <3> QED
      BY <3>1, <3>2 DEF Trans
  <2>4. "byte" \in Steps
    BY DEF Steps
  <2>5. /\ shell' \in [Client -> [pc : Steps, user : Client \cup {None}]]
        /\ shell'[c].pc = "byte" /\ \A e \in Client : e # c => shell'[e] = shell[e]
    BY <1>3, <2>4, GoesTo
  <2>6. ShellTypes'
    BY <1>1, <2>5 DEF PeersInv, ShellTypes
  <2>7. /\ trans' \in [Client -> Trans] /\ trans'[c] = u
        /\ \A e \in Client : e # c => trans'[e] = trans[e]
    BY <1>3, <2>3 DEF PeersInv, Types
  <2> HIDE DEF x, u, p
  <2>8. cola' \in [Port -> Seq(Conn)] /\ PortsOK(dueno, cola') /\ Longer(cola', p, x)
    <3>1. CASE p \in Port
      <4>1. dueno[p] # None
        BY <1>3 DEF Accepts
      <4> QED
        BY <1>3, <2>2, <3>1, <4>1, Enqueued
    <3>2. CASE p \notin Port
      <4>1. cola' = cola
        BY <1>3, <3>2 DEF PeersInv, Types
      <4> QED
        BY <4>1 DEF PeersInv, Types, Longer
    <3> QED
      BY <3>1, <3>2
  <2>9. ASSUME NEW e \in Client, NEW n, Numbered(hilo, cola, e, n), e = c => ordenes <= n
        PROVE  Numbered(hilo, cola', e, n)
    <3>1. ASSUME NEW r \in Port, NEW i \in DOMAIN cola'[r], Queued(cola', r, i, e)
          PROVE  cola'[r][i].orden <= n
      <4>1. CASE i \in DOMAIN cola[r] /\ cola'[r][i] = cola[r][i]
        BY <2>9, <3>1, <4>1 DEF Numbered, Queued
      <4>2. CASE cola'[r][i] = x
        BY <2>2, <2>9, <3>1, <4>2 DEF Queued
      <4> QED
        BY <2>8, <4>1, <4>2 DEF Longer
    <3> QED
      BY <2>9, <3>1 DEF Numbered
  <2>10. Numbered(hilo, cola, c, ordenes) /\ ordenes <= ordenes
    BY <2>1 DEF PeersInv, NumbersOK
  <2>11. NumbersOK(hilo, cola', shell', ordenes)
    <3> SUFFICES ASSUME NEW e \in Client
                 PROVE  /\ shell'[e].pc # "prompt" => ordenes >= 1
                        /\ Numbered(hilo, cola', e, ordenes)
                        /\ shell'[e].pc = "dial" => Numbered(hilo, cola', e, ordenes - 1)
      BY DEF NumbersOK
    <3>1. CASE e = c
      BY <2>1, <2>5, <2>9, <2>10, <3>1
    <3>2. CASE e # c
      <4>1. /\ Numbered(hilo, cola, e, ordenes)
            /\ shell[e].pc = "dial" => Numbered(hilo, cola, e, ordenes - 1)
        BY DEF PeersInv, NumbersOK
      <4> QED
        BY <2>1, <2>5, <2>9, <3>2, <4>1
    <3> QED
      BY <3>1, <3>2
  <2>12. ASSUME NEW e \in Client
         PROVE  OnePlace(hilo, cola', trans', e) /\ Whole(trans', e) /\ Waiting(shell', trans', e)
    <3>1. CASE e = c
      <4>1. \A r \in Port : \A i \in DOMAIN cola'[r] :
              InQueue(cola', trans', r, i, c) => r = p /\ i = Len(cola[p]) + 1
        <5> SUFFICES ASSUME NEW r \in Port, NEW i \in DOMAIN cola'[r], InQueue(cola', trans', r, i, c),
                            i \in DOMAIN cola[r], cola'[r][i] = cola[r][i]
                     PROVE  FALSE
          BY <2>8 DEF Longer
        <5>1. cola[r][i].orden = ordenes /\ Queued(cola, r, i, c)
          BY <2>3, <2>7 DEF InQueue, AskedBy, Queued
        <5>2. cola[r][i].orden <= ordenes - 1
          BY <2>1, <5>1 DEF Numbered
        <5> QED
          BY <2>1, <5>1, <5>2
      <4>2. \A d \in Client, l \in Listener : ~AtThread(hilo, trans', d, l, c)
        <5> SUFFICES ASSUME NEW d \in Client, NEW l \in Listener, AtThread(hilo, trans', d, l, c)
                     PROVE  FALSE
          OBVIOUS
        <5>1. hilo[d][l].conn.orden = ordenes /\ Served(hilo, d, l, c)
          BY <2>3, <2>7 DEF AtThread, AskedBy, Served
        <5>2. hilo[d][l].conn.orden <= ordenes - 1
          BY <2>1, <5>1 DEF Numbered
        <5> QED
          BY <2>1, <5>1, <5>2
      <4>3. OnePlace(hilo, cola', trans', c)
        BY <2>3, <2>7, <4>1, <4>2 DEF OnePlace
      <4>4. Whole(trans', c)
        BY <2>3, <2>7 DEF Whole
      <4>5. Waiting(shell', trans', c)
        BY <2>5 DEF Waiting
      <4> QED
        BY <3>1, <4>3, <4>4, <4>5
    <3>2. CASE e # c
      <4>1. OnePlace(hilo, cola, trans, e) /\ Whole(trans, e) /\ Waiting(shell, trans, e)
        BY DEF PeersInv, FilesInv
      <4>2. trans'[e] = trans[e] /\ shell'[e] = shell[e]
        BY <2>5, <2>7, <3>2
      <4>3. \A y : AskedBy(y, e, trans') <=> AskedBy(y, e, trans)
        BY <4>2 DEF AskedBy
      <4>4. ~AskedBy(x, e, trans')
        BY <2>2, <3>2 DEF AskedBy
      <4>5. \A r \in Port : \A i \in DOMAIN cola'[r] :
              InQueue(cola', trans', r, i, e) => i \in DOMAIN cola[r] /\ InQueue(cola, trans, r, i, e)
        BY <2>8, <4>3, <4>4 DEF InQueue, Longer
      <4>6. \A d \in Client, l \in Listener : AtThread(hilo, trans', d, l, e) <=> AtThread(hilo, trans, d, l, e)
        BY <4>3 DEF AtThread
      <4>7. OnePlace(hilo, cola', trans', e)
        BY <4>1, <4>2, <4>5, <4>6 DEF OnePlace
      <4> QED
        BY <4>1, <4>2, <4>7 DEF Whole, Waiting
    <3> QED
      BY <3>1, <3>2
  <2>13. FilesInv(hilo, cola', trans', shell')
    BY <2>12 DEF FilesInv
  <2>14. Types(hilo, listen_socket, cola', trans')
    BY <2>7, <2>8 DEF PeersInv, Types
  <2>15. /\ Types(hilo', listen_socket', cola', trans') /\ PortsOK(dueno', cola')
         /\ NumbersOK(hilo', cola', shell', ordenes') /\ FilesInv(hilo', cola', trans', shell')
    BY <1>1, <2>8, <2>11, <2>13, <2>14
  <2>16. /\ Listens(dueno', hilo', listen_socket', listen_thread', stop_listening')
         /\ Closed(listen_socket', shell')
    BY <1>1, <2>5 DEF PeersInv, Closed
  <2> QED
    BY <2>6, <2>15, <2>16 DEF PeersInv
<1> QED
  BY <1>1, <1>2, <1>3

(* A new socket on a free port, and a new thread on it.                    *)
LEMMA connectInv == ASSUME PeersInv, NEW c \in Client, connect(c) PROVE PeersInv'
<1>1. PICK p \in Port, l \in Listener :
        /\ dueno[p] = None /\ hilo[c][l].pc \in {"ended", "failed"}
        /\ dueno' = [dueno EXCEPT ![p] = c] /\ listen_socket' = [listen_socket EXCEPT ![c] = p]
        /\ listen_thread' = [listen_thread EXCEPT ![c] = l] /\ hilo' = Put(c, l, Polling(p))
  BY DEF connect, Over, Set
<1>2. /\ Typing(c) /\ stop_listening' = [stop_listening EXCEPT ![c] = FALSE] /\ Goes(c, "connecting")
      /\ UNCHANGED <<usuarios_conectados, cola, connected_user, users_directory, trans, sucesos>>
  BY DEF connect, Set
<1>3. "connecting" \in Steps
  BY DEF Steps
<1>4. /\ shell' \in [Client -> [pc : Steps, user : Client \cup {None}]]
      /\ shell'[c].pc = "connecting" /\ \A e \in Client : e # c => shell'[e] = shell[e]
  BY <1>2, <1>3, GoesTo
<1>5. /\ ordenes' \in 0..MaxCommands /\ NumbersOK(hilo, cola, shell', ordenes')
      /\ FilesInv(hilo, cola, trans, shell')
  BY <1>2, <1>4, TypedCommand
<1>6. Polling(p) \in Thread /\ Polling(p).pc = "poll" /\ Polling(p).socket = p
  BY DEF Polling, Thread
<1>7. /\ hilo'[c][l] = Polling(p) /\ hilo' \in [Client -> [Listener -> Thread]]
      /\ \A d \in Client, k \in Listener : (d # c \/ k # l) => hilo'[d][k] = hilo[d][k]
  BY <1>1, <1>6, PutThread
<1>8. \A d \in Client, k \in Listener : hilo'[d][k].pc = "read" => hilo'[d][k] = hilo[d][k]
  BY <1>6, <1>7
<1>9. NumbersOK(hilo', cola, shell', ordenes') /\ FilesInv(hilo', cola, trans, shell')
  BY <1>5, <1>8, ThreadsLeave
<1>10. ShellTypes'
  BY <1>1, <1>2, <1>4, <1>5 DEF PeersInv, ShellTypes
<1>11. /\ listen_socket' \in [Client -> Port \cup {None}] /\ listen_socket'[c] = p
       /\ \A e \in Client : e # c => listen_socket'[e] = listen_socket[e]
  BY <1>1 DEF PeersInv, Types
<1>12. Types(hilo', listen_socket', cola, trans)
  BY <1>7, <1>11 DEF PeersInv, Types
<1>13. dueno'[p] = c /\ \A r \in Port : r # p => dueno'[r] = dueno[r]
  BY <1>1 DEF PeersInv, PortsOK
<1>14. PortsOK(dueno', cola)
  BY <1>1, <1>13, PeersAssumption DEF PeersInv, PortsOK
<1>15. /\ listen_thread'[c] = l /\ stop_listening'[c] = FALSE
       /\ \A e \in Client : e # c => /\ listen_thread'[e] = listen_thread[e]
                                     /\ stop_listening'[e] = stop_listening[e]
  BY <1>1, <1>2 DEF PeersInv, ShellTypes
<1>16. ASSUME NEW e \in Client, listen_socket'[e] # None
       PROVE  /\ dueno'[listen_socket'[e]] = e /\ ~stop_listening'[e]
              /\ listen_thread'[e] \in Listener
              /\ \/ hilo'[e][listen_thread'[e]].pc \in {"read", "failed"}
                 \/ /\ hilo'[e][listen_thread'[e]].pc = "poll"
                    /\ hilo'[e][listen_thread'[e]].socket = listen_socket'[e]
  <2>1. CASE e = c
    BY <1>6, <1>7, <1>11, <1>13, <1>15, <2>1
  <2>2. CASE e # c
    <3> DEFINE r == listen_socket[e]
               k == listen_thread[e]
    <3>1. listen_socket'[e] = r /\ r \in Port /\ listen_thread'[e] = k
      BY <1>11, <1>15, <1>16, <2>2 DEF PeersInv, Types
    <3>2. /\ dueno[r] = e /\ ~stop_listening[e] /\ k \in Listener
          /\ hilo[e][k].pc \in {"read", "failed"} \/ (hilo[e][k].pc = "poll" /\ hilo[e][k].socket = r)
      BY <1>16, <3>1 DEF PeersInv, Listens
    <3>3. r # p
      BY <1>1, <3>2, PeersAssumption
    <3> QED
      BY <1>7, <1>13, <1>15, <2>2, <3>1, <3>2, <3>3
  <2> QED
    BY <2>1, <2>2
<1>17. Listens(dueno', hilo', listen_socket', listen_thread', stop_listening')
  BY <1>16 DEF Listens
<1>18. Closed(listen_socket', shell')
  BY <1>4, <1>11 DEF PeersInv, Closed
<1>19. /\ Types(hilo', listen_socket', cola', trans') /\ PortsOK(dueno', cola')
       /\ NumbersOK(hilo', cola', shell', ordenes') /\ FilesInv(hilo', cola', trans', shell')
  BY <1>2, <1>9, <1>12, <1>14
<1> QED
  BY <1>10, <1>17, <1>18, <1>19 DEF PeersInv

-----------------------------------------------------------------------------
(* The theorems.                                                           *)

LEMMA PeersNextInv == PeersInv /\ [PeersNext]_peersVars => PeersInv'
<1> SUFFICES ASSUME PeersInv, [PeersNext]_peersVars PROVE PeersInv'
  OBVIOUS
<1>1. CASE UNCHANGED peersVars
  <2>1. UNCHANGED <<usuarios_conectados, dueno, cola, listen_socket, listen_thread, stop_listening,
                    connected_user, users_directory, shell, hilo, trans, ordenes, sucesos>>
    BY <1>1 DEF peersVars, kernelVars, attrVars, countVars
  <2>2. ShellTypes'
    BY <2>1 DEF PeersInv, ShellTypes
  <2> QED
    BY <2>1, <2>2 DEF PeersInv
<1>2. CASE PeersNext
  <2> SUFFICES ASSUME NEW c \in Client,
                      \/ Push(c) \/ Command(c) \/ ShellStep(c) \/ Killed(c)
                      \/ \E l \in Listener : listener_thread(c, l)
               PROVE  PeersInv'
    BY <1>2 DEF PeersNext
  <2>1. CASE Push(c)
    BY <2>1, PushInv
  <2>2. CASE Command(c)
    BY <2>2, connectInv, disconnectInv, usersInv, getFileInv DEF Command
  <2>3. CASE ShellStep(c)
    BY <2>3, ConnectOKInv, ConnectFailedInv, stop_listenerInv, JoinInv, DialInv, ReadByteInv,
       ReadDataInv, GivesUpInv DEF ShellStep
  <2>4. CASE Killed(c)
    BY <2>4, KilledInv
  <2>5. CASE \E l \in Listener : listener_thread(c, l)
    BY <2>5, TimesOutInv, AcceptInv, ReadInv, serve_fileInv DEF listener_thread
  <2> QED
    BY <2>1, <2>2, <2>3, <2>4, <2>5
<1> QED
  BY <1>1, <1>2

LEMMA PeersInvHolds == PeersSpec => []PeersInv
BY PeersInitInv, PeersNextInv, PTL DEF PeersSpec

(* Every variable has its type, and a port without an owner has no queue.  *)
THEOREM PeersTypes == PeersSpec => []PeersTypeOK
<1>1. PeersInv => PeersTypeOK
  <2> SUFFICES ASSUME PeersInv PROVE PeersTypeOK
    OBVIOUS
  <2>1. hilo \in [Client -> [Listener -> [pc : {"ended", "failed", "poll", "read"},
                                          socket : Port \cup {None}, conn : Conn \cup {None}]]]
    BY DEF PeersInv, Types, Thread
  <2>2. \A p \in Port : cola[p] \in Seq(Conn) /\ (dueno[p] = None => cola[p] = <<>>)
    BY DEF PeersInv, Types, PortsOK
  <2>3. dueno \in [Port -> Client \cup {None}]
    BY DEF PeersInv, PortsOK
  <2> QED
    BY <2>1, <2>2, <2>3 DEF PeersInv, Types, ShellTypes, Trans, Steps, PeersTypeOK
<1> QED
  BY <1>1, PeersInvHolds, PTL

(* A client that has a socket owns its port, its flag says to go on, and   *)
(* its thread has not ended, unless accept failed: no failed CONNECT, push *)
(* or second thread leaves a client connected that nobody answers for      *)
(* (client.py, connect and listener_thread).                               *)
THEOREM ListenerLives == PeersSpec => []ConnectedHasListener
<1>1. PeersInv => ConnectedHasListener
  BY DEF PeersInv, Listens, ConnectedHasListener, At
<1> QED
  BY <1>1, PeersInvHolds, PTL

(* GETFILE ends with OK with the whole file or after its owner failed: the *)
(* connection is in one place, so nobody else closes it, and it is closed  *)
(* after the last block.                                                   *)
THEOREM OkIsWhole == PeersSpec => OkUnlessOwnerFails
<1>1. PeersInv /\ [PeersNext]_peersVars =>
        [\A c \in Client : ReadData(c) => trans[c].trozos = Chunks \/ trans[c].roto]_peersVars
  BY DEF PeersInv, FilesInv, Whole, Waiting, ReadData, In
<1> QED
  BY <1>1, PeersInvHolds, PTL DEF PeersSpec, OkUnlessOwnerFails

=============================================================================
