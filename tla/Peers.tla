------------------------------- MODULE Peers --------------------------------
(***************************************************************************)
(* parte2/client/client.py as a process with threads: the shell, and the   *)
(* listener threads that CONNECT starts, which share the attributes of the *)
(* class without a lock; USERS and GETFILE, between two clients.           *)
(*                                                                         *)
(* Every client uses one user name, its own.  The server is what the       *)
(* clients see of it: usuarios_conectados, the address it has for each     *)
(* user, and its pushes.  What it does to have them is the subject of      *)
(* Server, what is in a push that of Texts.  All clients are on one host,  *)
(* so a port is an address.                                                *)
(***************************************************************************)
EXTENDS Integers, Sequences

CONSTANTS
  Client, Listener, \* client processes; threads a process may have listening
  Port, None,
  Online,           \* the clients that are connected at first
  Chunks,           \* blocks of 4 KB in a file
  BacklogMax,       \* listen(10)
  MaxCommands,      \* bound: commands typed in all
  MaxEvents         \* bound: pushes of the server, processes killed and hosts gone, in all

(* A listener for each of them. *)
FirstPorts == {f \in [Online -> Port] : \A c, d \in Online : f[c] = f[d] => c = d}

ASSUME PeersAssumption ==
  /\ None \notin Client \cup Port \cup Listener \cup {0, 1}
  /\ Listener # {} /\ Online \subseteq Client /\ FirstPorts # {}
  /\ Chunks \in Nat \ {0} /\ BacklogMax \in Nat \ {0}
  /\ MaxCommands \in Nat /\ MaxEvents \in Nat

VARIABLES
  usuarios_conectados, \* the server: [Client -> its listener's port, or None]
  dueno, cola,         \* the kernel: whose socket listens on a port; its queue
  (* The attributes of each client process. *)
  listen_socket, listen_thread, stop_listening, connected_user, users_directory,
  shell,               \* [Client -> where the shell is in a command]
  hilo,                \* [Client -> [Listener -> where the thread is]]
  trans,               \* [Client -> the connection of its GETFILE]
  ordenes, sucesos

kernelVars == <<dueno, cola>>
attrVars   == <<listen_socket, listen_thread, stop_listening, connected_user, users_directory>>
countVars  == <<ordenes, sucesos>>
peersVars  == <<usuarios_conectados, kernelVars, attrVars, shell, hilo, trans, countVars>>

(* A connection to a listener: a push, or the GET_FILE of client de, by    *)
(* its command number orden.                                               *)
Conn == [op : {"PUSH"}] \cup [op : {"GET_FILE"}, de : Client, orden : 1..MaxCommands]

Nobody      == [d \in {} |-> None]
EndedThread == [pc |-> "ended", socket |-> None, conn |-> None]
FailedThread == [EndedThread EXCEPT !.pc = "failed"]  \* ended by a failing accept
Polling(p)  == [pc |-> "poll", socket |-> p, conn |-> None]
AtPrompt    == [pc |-> "prompt", user |-> None]

(* byte is the status byte and trozos the blocks, as far as they were      *)
(* sent, fin that the owner has closed; roto, history: it could not finish.*)
NoTrans == [orden |-> 0, byte |-> None, trozos |-> 0, fin |-> FALSE, roto |-> FALSE]

PeersInit ==
  LET port  == CHOOSE f \in FirstPorts : TRUE
      l     == CHOOSE l \in Listener : TRUE
      ports == [c \in Client |-> IF c \in Online THEN port[c] ELSE None]
  IN  /\ usuarios_conectados = ports /\ listen_socket = ports
      /\ dueno = [p \in Port |-> IF \E c \in Online : port[c] = p
                                 THEN CHOOSE c \in Online : port[c] = p ELSE None]
      /\ cola = [p \in Port |-> <<>>]
      /\ listen_thread = [c \in Client |-> IF c \in Online THEN l ELSE None]
      /\ stop_listening = [c \in Client |-> FALSE]
      /\ connected_user = [c \in Client |-> c \in Online]
      /\ users_directory = [c \in Client |-> Nobody]
      /\ shell = [c \in Client |-> AtPrompt]
      /\ hilo = [c \in Client |-> [k \in Listener |->
                   IF c \in Online /\ k = l THEN Polling(port[c]) ELSE EndedThread]]
      /\ trans = [c \in Client |-> NoTrans]
      /\ ordenes = 0 /\ sucesos = 0

-----------------------------------------------------------------------------
Set(f, x, v) == f' = [f EXCEPT ![x] = v]
Event        == sucesos < MaxEvents /\ sucesos' = sucesos + 1

(* The kernel. *)

(* connect(2) to a port. *)
Accepts(p) == p # None /\ dueno[p] # None /\ Len(cola[p]) < BacklogMax

(* x is the connection on which c waits for a file, t[c] its end of it. *)
AskedBy(x, c, t) == x.op = "GET_FILE" /\ x.de = c /\ x.orden = t[c].orden

(* A listener socket that its process has closed lives on while a thread   *)
(* waits on it; then it and the connections in its queue are gone, which   *)
(* the requesters of files learn unless the whole host is (visto).  h and  *)
(* s are the threads and the sockets after the step, q and t the queues    *)
(* and the connections of GETFILE but for this.                            *)
Become(h, s, q, t, visto) ==
  LET Waits(c, p) == \E l \in Listener : h[c][l].pc = "poll" /\ h[c][l].socket = p
      gone == {p \in Port : dueno[p] # None /\ s[dueno[p]] # p /\ ~Waits(dueno[p], p)}
      Dropped(c) == visto /\ \E p \in gone : \E i \in DOMAIN q[p] : AskedBy(q[p][i], c, t)
  IN  /\ hilo' = h /\ listen_socket' = s
      /\ dueno' = [p \in Port |-> IF p \in gone THEN None ELSE dueno[p]]
      /\ cola' = [p \in Port |-> IF p \in gone THEN <<>> ELSE q[p]]
      /\ trans' = [c \in Client |-> [t[c] EXCEPT !.fin = @ \/ Dropped(c)]]

-----------------------------------------------------------------------------
(* The server. *)

(* A message for c, or a confirmation; a c that cannot be reached is       *)
(* marked offline.                                                         *)
Push(c) ==
  /\ Event
  /\ LET p == usuarios_conectados[c]
     IN  /\ p # None
         /\ \/ /\ Accepts(p)
               /\ Set(cola, p, Append(cola[p], [op |-> "PUSH"]))
               /\ UNCHANGED usuarios_conectados
            \/ /\ ~Accepts(p)
               /\ usuarios_conectados' = [usuarios_conectados EXCEPT ![c] = None]
               /\ UNCHANGED cola
  /\ UNCHANGED <<dueno, attrVars, shell, hilo, trans, ordenes>>

(* f_users, and what the client makes of the answer: it empties its        *)
(* directory first, and keeps what it had read when the rest does not come.*)
(* Of that only the other users matter (Command).                          *)
Answered(c) ==
  {users_directory[c]}
    \cup IF usuarios_conectados[c] = None THEN {}
         ELSE {[d \in S |-> usuarios_conectados[d]] :
                 S \in SUBSET {d \in Client \ {c} : usuarios_conectados[d] # None}}

-----------------------------------------------------------------------------
(* listener_thread.  From the end of one turn of its loop it goes to the   *)
(* next accept in one step: the flag and _listen_socket, which may be      *)
(* another socket by now, are read together, and while the socket is None  *)
(* the exception has it read the flag again.                               *)

At(c, l, pc) == hilo[c][l].pc = pc
Over(c, l)   == hilo[c][l].pc \in {"ended", "failed"}
Put(c, l, h) == [hilo EXCEPT ![c][l] = h]
Ends(c, l)   == Put(c, l, EndedThread)
Loops(c, l)  == IF stop_listening[c] THEN Ends(c, l) ELSE Put(c, l, Polling(listen_socket[c]))
Moves(h, q, t) ==
  /\ Become(h, listen_socket, q, t, TRUE)
  /\ UNCHANGED <<usuarios_conectados, listen_thread, stop_listening, connected_user,
                 users_directory, shell, countVars>>

(* A second without a connection. *)
TimesOut(c, l) ==
  /\ At(c, l, "poll")
  /\ hilo[c][l].socket # None => cola[hilo[c][l].socket] = <<>>
  /\ Moves(Loops(c, l), cola, trans)

(* A connection that arrives after the process closed the socket wakes the *)
(* thread, to find the descriptor gone: OSError.  So is any other failure  *)
(* of accept (no descriptor is left, say), and it ends the thread too.     *)
Accept(c, l) ==
  LET p == hilo[c][l].socket
  IN  /\ At(c, l, "poll") /\ p # None
      /\ cola[p] # <<>>
      /\ IF listen_socket[c] = p
         THEN \/ Moves(Put(c, l, [pc |-> "read", socket |-> None, conn |-> Head(cola[p])]),
                       [cola EXCEPT ![p] = Tail(@)], trans)
              \/ Moves(Put(c, l, FailedThread), cola, trans)
         ELSE Moves(Ends(c, l), cola, trans)

(* A variant with a bug that nothing uses, as in Database: an exception    *)
(* ends the thread.                                                        *)
Read_Dies(c, l) ==
  /\ At(c, l, "read") /\ hilo[c][l].conn.op = "PUSH"
  /\ Moves(Loops(c, l), cola, trans) \/ Moves(Ends(c, l), cola, trans)

(* A push, printed or not: UnicodeDecodeError is not a socket.error, but   *)
(* the thread catches it, and that ends the turn of its loop.              *)
Read(c, l) ==
  /\ At(c, l, "read") /\ hilo[c][l].conn.op = "PUSH"
  /\ Moves(Loops(c, l), cola, trans)

(* serve_file, a block in a step.  The requester may be gone; a file that  *)
(* is found may be one that cannot be opened or read, and then too the     *)
(* connection is just closed.                                              *)
serve_file(c, l) ==
  /\ At(c, l, "read") /\ hilo[c][l].conn.op = "GET_FILE"
  /\ LET r == hilo[c][l].conn.de
         t == trans[r]
         Sent(u) == [trans EXCEPT ![r] = u]
     IN  \/ ~AskedBy(hilo[c][l].conn, r, trans) /\ Moves(Loops(c, l), cola, trans)
         \/ /\ AskedBy(hilo[c][l].conn, r, trans)
            /\ \/ /\ t.byte = None
                  /\ \/ Moves(hilo, cola, Sent([t EXCEPT !.byte = 0]))
                     \/ Moves(Loops(c, l), cola, Sent([t EXCEPT !.byte = 1, !.fin = TRUE]))
               \/ /\ t.byte = 0 /\ t.trozos < Chunks
                  /\ \/ Moves(hilo, cola, Sent([t EXCEPT !.trozos = @ + 1]))
                     \/ Moves(Loops(c, l), cola, Sent([t EXCEPT !.roto = TRUE, !.fin = TRUE]))
               \/ /\ t.byte = 0 /\ t.trozos = Chunks
                  /\ Moves(Loops(c, l), cola, Sent([t EXCEPT !.fin = TRUE]))

listener_thread(c, l) == TimesOut(c, l) \/ Accept(c, l) \/ Read(c, l) \/ serve_file(c, l)

-----------------------------------------------------------------------------
(* The shell. *)

In(c, pc)      == shell[c].pc = pc
Goes(c, pc)    == shell' = [shell EXCEPT ![c].pc = pc]
Prompt(c)      == shell' = [shell EXCEPT ![c] = AtPrompt]
Typing(c)      == In(c, "prompt") /\ ordenes < MaxCommands /\ ordenes' = ordenes + 1

(* A free port, a new thread (a process has at most as many as Listener),  *)
(* and then the request.  An old thread may be alive.                      *)
connect(c) ==
  /\ Typing(c) /\ ~connected_user[c]
  /\ \E p \in Port, l \in Listener :
       /\ dueno[p] = None
       /\ Over(c, l) /\ l = CHOOSE k \in Listener : Over(c, k)
       /\ Set(dueno, p, c) /\ Set(listen_socket, c, p) /\ Set(listen_thread, c, l)
       /\ hilo' = Put(c, l, Polling(p))
  /\ Set(stop_listening, c, FALSE)
  /\ Goes(c, "connecting")
  /\ UNCHANGED <<usuarios_conectados, cola, connected_user, users_directory, trans, sucesos>>

ConnectOK(c) ==
  /\ In(c, "connecting")
  /\ usuarios_conectados[c] = None
  /\ Set(usuarios_conectados, c, listen_socket[c])
  /\ Set(connected_user, c, TRUE)
  /\ Prompt(c)
  /\ UNCHANGED <<kernelVars, listen_socket, listen_thread, stop_listening, users_directory,
                 hilo, trans, countVars>>

(* The user is connected already as far as the server knows, or there is   *)
(* an error, perhaps after db_connect.  Nobody waits for the thread.       *)
ConnectFailed(c) ==
  /\ In(c, "connecting")
  /\ usuarios_conectados' \in
       {usuarios_conectados}
         \cup {[usuarios_conectados EXCEPT ![c] = p] :
                 p \in IF usuarios_conectados[c] = None THEN {listen_socket[c]} ELSE {}}
  /\ Set(stop_listening, c, TRUE)
  /\ Become(hilo, [listen_socket EXCEPT ![c] = None], cola, trans, TRUE)
  /\ Prompt(c)
  /\ UNCHANGED <<listen_thread, connected_user, users_directory, countVars>>

(* The request, which the server may refuse or never get; and QUIT.        *)
disconnect(c) ==
  /\ Typing(c)
  /\ \/ /\ \E p \in {usuarios_conectados[c], None} : Set(usuarios_conectados, c, p)
        /\ Goes(c, "stop")
     \/ Goes(c, "stop_quit") /\ UNCHANGED usuarios_conectados
  /\ UNCHANGED <<kernelVars, attrVars, hilo, trans, sucesos>>

stop_listener(c) ==
  /\ \/ In(c, "stop") /\ Goes(c, "join")
     \/ In(c, "stop_quit") /\ Goes(c, "join_quit")
  /\ Set(stop_listening, c, TRUE)
  /\ Become(hilo, [listen_socket EXCEPT ![c] = None], cola, trans, TRUE)
  /\ UNCHANGED <<usuarios_conectados, listen_thread, connected_user, users_directory,
                 countVars>>

(* join waits two seconds, longer than accept does: the thread has ended,  *)
(* or it has a connection in hand.                                         *)
Joined(c) ==
  listen_thread[c] # None => Over(c, listen_thread[c]) \/ At(c, listen_thread[c], "read")

(* The process ends: c's threads, whatever they serve, and its sockets.    *)
(* Whoever waits for a file learns of it unless the host is gone (visto).  *)
Exit(c, t, visto) ==
  LET Serves(r) == \E l \in Listener : At(c, l, "read") /\ AskedBy(hilo[c][l].conn, r, t)
      left == [r \in Client |-> IF Serves(r) THEN [t[r] EXCEPT !.roto = TRUE, !.fin = @ \/ visto]
                                ELSE t[r]]
  IN  /\ Become([hilo EXCEPT ![c] = [l \in Listener |-> EndedThread]],
                [listen_socket EXCEPT ![c] = None], cola, left, visto)
      /\ Set(stop_listening, c, FALSE)

Join(c) ==
  /\ Joined(c)
  /\ \/ /\ In(c, "join")
        /\ UNCHANGED <<stop_listening, listen_socket, kernelVars, hilo, trans>>
     \/ In(c, "join_quit") /\ Exit(c, trans, TRUE)
  /\ Set(listen_thread, c, None)
  /\ Set(connected_user, c, FALSE)
  /\ Set(users_directory, c, Nobody)
  /\ Prompt(c)
  /\ UNCHANGED <<usuarios_conectados, countVars>>

users(c) ==
  /\ Typing(c) /\ connected_user[c]
  /\ \E dir \in Answered(c) : Set(users_directory, c, dir)
  /\ UNCHANGED <<usuarios_conectados, kernelVars, listen_socket, listen_thread, stop_listening,
                 connected_user, shell, hilo, trans, sucesos>>

(* The same request; nothing is printed. *)
refresh_users_silent(c) == Answered(c)

(* The directory is refreshed only if the user is not in it. *)
getFile(c, d) ==
  /\ Typing(c) /\ connected_user[c]
  /\ \/ d \in DOMAIN users_directory[c] /\ UNCHANGED users_directory
     \/ /\ d \notin DOMAIN users_directory[c]
        /\ \E dir \in refresh_users_silent(c) : Set(users_directory, c, dir)
  /\ shell' = IF d \in DOMAIN users_directory'[c]
              THEN [shell EXCEPT ![c] = [pc |-> "dial", user |-> d]] ELSE shell
  /\ UNCHANGED <<usuarios_conectados, kernelVars, listen_socket, listen_thread, stop_listening,
                 connected_user, hilo, trans, sucesos>>

Requests(c, p) ==
  /\ Set(cola, p, Append(cola[p], [op |-> "GET_FILE", de |-> c, orden |-> ordenes]))
  /\ Set(trans, c, [NoTrans EXCEPT !.orden = ordenes])
  /\ Goes(c, "byte")

(* A variant: the result of connect is not looked at. *)
Dial_Unchecked(c) ==
  /\ In(c, "dial")
  /\ Requests(c, users_directory[c][shell[c].user])
  /\ UNCHANGED <<usuarios_conectados, dueno, attrVars, hilo, countVars>>

Dial(c) ==
  /\ In(c, "dial")
  /\ LET p == users_directory[c][shell[c].user]
     IN  \/ Accepts(p) /\ Requests(c, p)
         \/ ~Accepts(p) /\ Prompt(c) /\ UNCHANGED <<cola, trans>>
  /\ UNCHANGED <<usuarios_conectados, dueno, attrVars, hilo, countVars>>

GetOnly == UNCHANGED <<usuarios_conectados, kernelVars, attrVars, hilo, countVars>>
GetEnds(c) == Prompt(c) /\ Set(trans, c, NoTrans) /\ GetOnly

ReadByte(c) ==
  /\ In(c, "byte")
  /\ \/ trans[c].byte = 0 /\ Goes(c, "data") /\ UNCHANGED trans /\ GetOnly
     \/ trans[c].byte = 1 /\ GetEnds(c)
     \/ trans[c].byte = None /\ trans[c].fin /\ GetEnds(c)

(* A variant: what came before the timeout is the file. *)
ReadData_Timeout(c) == In(c, "data") /\ GetEnds(c)

(* GETFILE OK: the end of the data is the end of the file. *)
ReadData(c) == In(c, "data") /\ trans[c].fin /\ GetEnds(c)

(* A variant: settimeout after the status byte. *)
GivesUp_OnData(c) == In(c, "data") /\ GetEnds(c)

(* Five seconds without data, or the local file cannot be written. *)
GivesUp(c) ==
  /\ \/ In(c, "data")
     \/ In(c, "byte") /\ trans[c].byte = None /\ ~trans[c].fin
  /\ GetEnds(c)

(* The process is killed, or its host vanishes; it is started again. *)
Killed(c) ==
  /\ Event
  /\ \E visto \in BOOLEAN : Exit(c, [trans EXCEPT ![c] = NoTrans], visto)
  /\ Set(listen_thread, c, None)
  /\ Set(connected_user, c, FALSE)
  /\ Set(users_directory, c, Nobody)
  /\ Prompt(c)
  /\ UNCHANGED <<usuarios_conectados, ordenes>>

ShellStep(c) ==
  \/ ConnectOK(c) \/ ConnectFailed(c) \/ stop_listener(c) \/ Join(c)
  \/ Dial(c) \/ ReadByte(c) \/ ReadData(c) \/ GivesUp(c)

(* Bound: nobody asks itself for a file. *)
Command(c) ==
  connect(c) \/ disconnect(c) \/ users(c) \/ \E d \in Client \ {c} : getFile(c, d)

PeersNext ==
  \E c \in Client :
    \/ Push(c) \/ Command(c) \/ ShellStep(c) \/ Killed(c)
    \/ \E l \in Listener : listener_thread(c, l)

PeersSpec == PeersInit /\ [][PeersNext]_peersVars

(* Threads that can run run; nobody has to type, to push or to die. *)
PeersFairness ==
  \A c \in Client :
    /\ WF_peersVars(ShellStep(c))
    /\ \A l \in Listener : WF_peersVars(listener_thread(c, l))

PeersFairSpec == PeersSpec /\ PeersFairness

-----------------------------------------------------------------------------
(* Properties. *)

PeersTypeOK ==
  /\ usuarios_conectados \in [Client -> Port \cup {None}]
  /\ dueno \in [Port -> Client \cup {None}]
  /\ \A p \in Port : cola[p] \in Seq(Conn) /\ (dueno[p] = None => cola[p] = <<>>)
  /\ listen_socket \in [Client -> Port \cup {None}]
  /\ listen_thread \in [Client -> Listener \cup {None}]
  /\ stop_listening \in [Client -> BOOLEAN] /\ connected_user \in [Client -> BOOLEAN]
  /\ \A c \in Client : /\ DOMAIN users_directory[c] \subseteq Client
                       /\ \A d \in DOMAIN users_directory[c] : users_directory[c][d] \in Port
  /\ shell \in [Client -> [pc : {"prompt", "connecting", "stop", "stop_quit", "join",
                                 "join_quit", "dial", "byte", "data"},
                           user : Client \cup {None}]]
  /\ hilo \in [Client -> [Listener -> [pc : {"ended", "failed", "poll", "read"},
                                       socket : Port \cup {None}, conn : Conn \cup {None}]]]
  /\ trans \in [Client -> [orden : 0..MaxCommands, byte : {None, 0, 1}, trozos : 0..Chunks,
                           fin : BOOLEAN, roto : BOOLEAN]]
  /\ ordenes \in 0..MaxCommands /\ sucesos \in 0..MaxEvents

(* A client that is connected has a thread on its socket: neither a push   *)
(* that raises an exception nor a thread that a failed CONNECT left behind *)
(* and that shares the flag and the socket makes the new one end.  Only an *)
(* accept that fails does ("failed"), and nobody notices it.               *)
ConnectedHasListener ==
  \A c \in Client :
    listen_socket[c] # None =>
      /\ dueno[listen_socket[c]] = c
      /\ ~stop_listening[c]
      /\ ~At(c, listen_thread[c], "ended")

(* GETFILE OK means the whole file (readme.md:47, "followed by the file in *)
(* 4 KB chunks") unless the owner's process ended meanwhile or could not   *)
(* read it: no DISCONNECT of either side, new CONNECT, second listener or  *)
(* timeout makes a part of a file look like the file.                      *)
OkUnlessOwnerFails ==
  [][\A c \in Client : ReadData(c) => trans[c].trozos = Chunks \/ trans[c].roto]_peersVars

(* Every command returns to the prompt: DISCONNECT and QUIT although the   *)
(* thread may be serving a file or have had an exception, GETFILE although *)
(* the owner may vanish, or get a file from the client that asks it.       *)
CommandsEnd == \A c \in Client : ~In(c, "prompt") ~> In(c, "prompt")

=============================================================================
