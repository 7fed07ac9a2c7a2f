------------------------------ MODULE Protocol ------------------------------
(***************************************************************************)
(* What the messaging server (parte2/server) and the client processes      *)
(* (parte2/client) say to each other, and the parameters of the model.     *)
(*                                                                         *)
(* A user name, a host, a port and a message text are only compared, so    *)
(* they are elements of unstructured sets.  An attachment is abstracted to *)
(* the operation that carries it: the server stores and forwards its name, *)
(* never its contents.                                                     *)
(***************************************************************************)
EXTENDS Integers, FiniteSetsExt

CONSTANTS
  User,         \* user names
  Client,       \* client processes
  Worker,       \* threads the server runs at the same time
  Ip,           \* host addresses
  Port,         \* ports the operating system gives to listeners
  Message,      \* message texts
  None,         \* "no value": no user, no client, address 0.0.0.0, port 0
  HostOf,       \* the host each client process runs on
  Registered,   \* users that usuarios.txt holds when the server starts
  Session,      \* the clients that are connected at that moment, and as whom
  MaxId,        \* the largest message number (4294967295 in the code)
  BacklogMax,   \* listen(10): connections a listener's queue holds
  OpenMayFail,  \* may open(2) and socket(2) fail in the server?
  Commands,     \* shell commands that the users of this instance type
  MaxCommands,  \* bound: commands typed in all
  MaxCrashes,   \* bound: server crashes
  MaxKills      \* bound: client processes killed

Ops == {"REGISTER", "UNREGISTER", "CONNECT", "DISCONNECT", "SEND", "SENDATTACH"}

ASSUME NoneAssumption == None \notin User \cup Client \cup Worker \cup Ip \cup Port
ASSUME HostAssumption == HostOf \in [Client -> Ip]
ASSUME RegisteredAssumption == Registered \subseteq User
ASSUME BoundAssumption ==
  /\ MaxId \in Nat \ {0}
  /\ BacklogMax \in Nat \ {0}
  /\ MaxCommands \in Nat
  /\ MaxCrashes \in Nat
  /\ MaxKills \in Nat
ASSUME CommandsAssumption == Commands \subseteq Ops
ASSUME OpenAssumption == OpenMayFail \in BOOLEAN

Addr   == [ip : Ip, port : Port]
NoAddr == [ip |-> None, port |-> None]   \* what usuarios.txt writes as 0.0.0.0 0

(* The server may be started while clients are connected: their listeners  *)
(* are still there and usuarios.txt still has their addresses.             *)
SessionAddr(c) == IF Session[c].user = None THEN NoAddr
                  ELSE [ip |-> HostOf[c], port |-> Session[c].port]

ASSUME SessionAssumption ==
  /\ Session \in [Client -> [user : Registered, port : Port]
                              \cup {[user |-> None, port |-> None]}]
  /\ \A c, d \in Client :
       (c # d /\ Session[c].user # None) =>
         /\ Session[c].user # Session[d].user
         /\ SessionAddr(c) # SessionAddr(d)

(* A request as the worker has it once it has read every field.  Fields an *)
(* operation does not have are None.                                       *)
Request == [op      : Ops,
            user    : User,
            dest    : User \cup {None},
            message : Message \cup {None},
            port    : Port \cup {None}]

IsSend(req) == req.op \in {"SEND", "SENDATTACH"}

(* struct PendingMsg: the text and, with SENDATTACH, a file name. *)
PendingMsg == [sender : User, id : 1..MaxId, message : Message, fileName : BOOLEAN]

(* A message on its way to a user: its key in the history variables. *)
Mail == [dest : User, msg : PendingMsg]

(* What the server pushes to a listener: SEND_MESSAGE[_ATTACH] with the    *)
(* message, or SEND_MESS[_ATTACH]_ACK with its number.  "for" is the user  *)
(* the server means to reach and mail the message it is about; neither     *)
(* "for" nor, in an ACK, the rest of mail is on the wire.                  *)
Push == [kind : {"MESSAGE", "ACK"}, for : User, mail : Mail]

(* mensajes_<user>.dat, or an array of PendingMsg read from it: records at *)
(* slots, in slot order.                                                   *)
IsFile(f) == /\ DOMAIN f \subseteq Nat
             /\ f \in [DOMAIN f -> PendingMsg]

EmptyFile == [i \in {} |-> None]
First(f)  == Min(DOMAIN f)
NextSlot(f) == IF DOMAIN f = {} THEN 1 ELSE Max(DOMAIN f) + 1

(* A variant: the number does not wrap. *)
NextId_NoWrap(n) == n + 1

(* last_id is an unsigned int; after its largest value comes 1, never 0. *)
NextId(n) == (IF n = MaxId THEN 0 ELSE n) + 1

(* open with O_APPEND and write: the file f with one more record. *)
Appended(f, m) == [i \in DOMAIN f \cup {NextSlot(f)} |->
                     IF i = NextSlot(f) THEN m ELSE f[i]]

=============================================================================
