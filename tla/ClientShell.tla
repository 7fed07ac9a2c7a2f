---------------------------- MODULE ClientShell -----------------------------
(***************************************************************************)
(* parte2/client/client.py: the shell thread, which executes one command   *)
(* at a time and waits for its result code, and the listener thread.       *)
(*                                                                         *)
(* connected_user[c] is client._connected_user.  The shell is inside a     *)
(* command exactly when conn[c] is not closed, so the request in conn[c]   *)
(* is also the command.  A user may type any command the instance allows   *)
(* with any user name.  USERS and GETFILE are not here.                    *)
(***************************************************************************)
EXTENDS Network

VARIABLES
  connected_user,  \* [Client -> the user that is connected, or None]
  ordenes,         \* number of commands typed so far
  muertes          \* number of client processes killed so far

clientVars == <<connected_user, ordenes, muertes>>

ClientTypeOK ==
  /\ connected_user \in [Client -> User \cup {None}]
  /\ ordenes \in 0..MaxCommands
  /\ muertes \in 0..MaxKills

ClientInit ==
  /\ connected_user = [c \in Client |-> Session[c].user]
  /\ ordenes = 0
  /\ muertes = 0

(* A command is typed at an idle shell. *)
Typed(c, op) ==
  /\ op \in Commands
  /\ conn[c] = NoConn
  /\ ordenes < MaxCommands
  /\ ordenes' = ordenes + 1
  /\ UNCHANGED muertes

(* connect_to_server and the send_to_server calls. *)
Request_(c, op, u, dest, m, port) ==
  conn' = [conn EXCEPT ![c] =
             [NoConn EXCEPT !.state = "sent",
                !.req = [op |-> op, user |-> u, dest |-> dest, message |-> m, port |-> port]]]

(* register, unregister and disconnect take any name; disconnect does not  *)
(* look at the connected user.                                             *)
account(c, op, u) ==
  /\ op \in {"REGISTER", "UNREGISTER", "DISCONNECT"}
  /\ Typed(c, op)
  /\ Request_(c, op, u, None, None, None)
  /\ UNCHANGED <<listening, backlog, connected_user>>

(* The listener is up before the server is asked. *)
connect(c, u) ==
  /\ Typed(c, "CONNECT")
  /\ connected_user[c] = None
  /\ \E port \in Port :
       /\ OpenListener(c, [ip |-> HostOf[c], port |-> port])
       /\ Request_(c, "CONNECT", u, None, None, port)
  /\ UNCHANGED connected_user

send(c, op, dest, m) ==
  /\ op \in {"SEND", "SENDATTACH"}
  /\ Typed(c, op)
  /\ connected_user[c] # None
  /\ Request_(c, op, connected_user[c], dest, m, None)
  /\ UNCHANGED <<listening, backlog, connected_user>>

(* receive_byte, and what each command does with the code. *)
Replied(c, op) ==
  /\ conn[c].state = "replied"
  /\ conn[c].req.op = op
  /\ conn' = [conn EXCEPT ![c] = NoConn]
  /\ UNCHANGED <<ordenes, muertes>>

CommandDone(c) ==
  /\ \E op \in {"REGISTER", "UNREGISTER", "SEND", "SENDATTACH"} : Replied(c, op)
  /\ UNCHANGED <<listening, backlog, connected_user>>

ConnectOK(c) ==
  /\ Replied(c, "CONNECT")
  /\ conn[c].code = 0
  /\ connected_user' = [connected_user EXCEPT ![c] = conn[c].req.user]
  /\ UNCHANGED <<listening, backlog>>

ConnectFailed(c) ==
  /\ Replied(c, "CONNECT")
  /\ conn[c].code # 0
  /\ CloseListener(c)
  /\ UNCHANGED connected_user

(* Whatever the server answered and whoever was named: stop_listener. *)
stop_listener(c) ==
  /\ CloseListener(c)
  /\ connected_user' = [connected_user EXCEPT ![c] = None]

DisconnectDone(c) ==
  /\ Replied(c, "DISCONNECT")
  /\ stop_listener(c)

(* QUIT, at an idle shell; the process started next is in the same state. *)
quit(c) ==
  /\ conn[c] = NoConn
  /\ listening[c] # NoAddr
  /\ ordenes < MaxCommands
  /\ ordenes' = ordenes + 1
  /\ stop_listener(c)
  /\ UNCHANGED <<conn, muertes>>

(* The process is killed at any time, and started again. *)
Killed(c) ==
  /\ muertes < MaxKills
  /\ conn[c] # NoConn \/ listening[c] # NoAddr
  /\ muertes' = muertes + 1
  /\ conn' = [conn EXCEPT ![c] = NoConn]
  /\ stop_listener(c)
  /\ UNCHANGED ordenes

(* The listener thread accepts a connection, reads the push and prints it. *)
listener_thread(c) ==
  /\ backlog[c] # <<>>
  /\ backlog' = [backlog EXCEPT ![c] = Tail(@)]
  /\ UNCHANGED <<conn, listening, clientVars>>

(* The user's commands, and what the client does by itself. *)
Command(c) ==
  \/ \E u \in User, op \in Commands : account(c, op, u)
  \/ \E u \in User : connect(c, u)
  \/ \E u \in User, op \in Commands, m \in Message : send(c, op, u, m)
  \/ quit(c)

Continue(c) ==
  \/ CommandDone(c) \/ ConnectOK(c) \/ ConnectFailed(c) \/ DisconnectDone(c)
  \/ listener_thread(c)

=============================================================================
