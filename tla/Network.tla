------------------------------ MODULE Network -------------------------------
(***************************************************************************)
(* The TCP connections of the system, as the server and the clients use    *)
(* them.                                                                   *)
(*                                                                         *)
(* conn[c] is the short connection of the command client c is executing:   *)
(*   closed   there is none                                                *)
(*   sent     connected and every field of the request written             *)
(*   open     accepted and read by a worker                                *)
(*   replied  the result code is in the client's receive buffer            *)
(* listening[c] is the address of the client's listener socket and         *)
(* backlog[c] the connections made to it that the listener thread has not  *)
(* accepted.  The server connects, writes a whole push and closes, so an   *)
(* element of the backlog is a complete push.  Closing the listener drops  *)
(* its backlog.                                                            *)
(***************************************************************************)
EXTENDS Protocol, Sequences

VARIABLES conn, listening, backlog

netVars == <<conn, listening, backlog>>

NoConn == [state |-> "closed", req |-> None, worker |-> None, code |-> 0]

Conn == [state  : {"closed", "sent", "open", "replied"},
         req    : Request \cup {None},
         worker : Worker \cup {None},
         code   : -1..3]

NetTypeOK ==
  /\ conn \in [Client -> Conn]
  /\ \A c \in Client : conn[c].state # "closed" => conn[c].req \in Request
  /\ listening \in [Client -> Addr \cup {NoAddr}]
  /\ backlog \in [Client -> Seq(Push)]

NetInit ==
  /\ conn = [c \in Client |-> NoConn]
  /\ listening = [c \in Client |-> SessionAddr(c)]
  /\ backlog = [c \in Client |-> <<>>]

(* connect(2) to addr succeeds when a listener is bound to it and has room. *)
Accepts(c, addr) == listening[c] = addr /\ Len(backlog[c]) < BacklogMax

Reachable(addr) == addr # NoAddr /\ \E c \in Client : Accepts(c, addr)

(* connect, write, close: push p is in the backlog of the listener at addr. *)
Deliver(addr, p) ==
  /\ addr # NoAddr
  /\ \E c \in Client :
       /\ Accepts(c, addr)
       /\ backlog' = [backlog EXCEPT ![c] = Append(@, p)]
  /\ UNCHANGED <<conn, listening>>

(* socket, bind to port 0, listen: the system picks a free port, and the   *)
(* queue of a new socket is empty.                                         *)
OpenListener(c, addr) ==
  /\ \A d \in Client : listening[d] # addr
  /\ listening' = [listening EXCEPT ![c] = addr]
  /\ backlog' = [backlog EXCEPT ![c] = <<>>]

CloseListener(c) ==
  /\ listening' = [listening EXCEPT ![c] = NoAddr]
  /\ backlog' = [backlog EXCEPT ![c] = <<>>]

=============================================================================
