------------------------------ MODULE Process -------------------------------
(***************************************************************************)
(* The server as a process: the main loop and the handover of a socket to  *)
(* a new thread (servidor.c), the log of part 2 (log_rpc_client.c) and     *)
(* SIGINT.                                                                 *)
(*                                                                         *)
(* A connection is its position in the order of arrival, and stands for    *)
(* its descriptor too.  All wait from the start: one that arrives later is *)
(* one that main accepts later.  What a handler does with the database and *)
(* the other clients is the subject of Server; here it answers, logs, and  *)
(* returns.  parte says which of the two servers runs: both have the same  *)
(* main loop, part 1 has no log and closes the socket of every request.    *)
(* What a thread does while it holds mutex_sd is one step.                 *)
(*                                                                         *)
(* Nothing in the code ignores SIGPIPE: a write to a peer that is gone, a  *)
(* client or the log server, may end the process.                          *)
(***************************************************************************)
EXTENDS Integers, FiniteSets

CONSTANTS
  Worker,         \* threads the system lets the process have
  Main,           \* the main thread
  None,
  MaxConnections, \* bound: number of connections
  MaxFds,         \* descriptors the process has for connections and files
  MaxSignals      \* bound: SIGINTs in all

ASSUME ProcessAssumption ==
  /\ Main \notin Worker /\ None \notin Worker \cup {Main}
  /\ IsFiniteSet(Worker)
  /\ MaxConnections \in Nat /\ MaxSignals \in Nat
  /\ MaxFds \in Nat

VARIABLES
  parte,        \* 1 or 2
  aceptadas,    \* connections that main has accepted: 1..aceptadas
  abiertos,     \* connections whose descriptor is open in the server
  contestadas,  \* history: open ones whose request was answered
  desconocidas, \* history: open ones whose operation is none of the server's
  main,         \* the main loop: where it is, and sd_conec
  sd_global, sd_copiado,
  avisado,      \* cond_sd was signalled to a waiting main
  hilo,         \* [Worker -> where it is, s_local, and the operation it serves]
  enabled, clnt,\* of the log client; clnt is "NULL", "up" or "dead"
                \* (the connection to a log server that is gone)
  rpc_mutex,
  manejador,    \* [thread -> where it is in manejador_sigint, or "none"]
  senales,      \* SIGINTs so far
  proceso       \* "running", "exited" by exit(0), "crashed" by the use of a
                \* NULL clnt, or "killed" by SIGPIPE

socketVars  == <<aceptadas, abiertos, contestadas, desconocidas>>
handVars    == <<main, sd_global, sd_copiado, avisado>>
logVars     == <<enabled, clnt, rpc_mutex>>
signalVars  == <<manejador, senales>>
processVars == <<parte, socketVars, handVars, hilo, logVars, signalVars, proceso>>

Thread == Worker \cup {Main}

IdleThread == [pc |-> "idle", s_local |-> 0, op |-> "none"]
InAccept   == [pc |-> "accept", sd_conec |-> 0]

(* log_rpc_init: the log is off when LOG_RPC_IP is unset or nobody answers.*)
ProcessInit ==
  /\ parte \in {1, 2}
  /\ aceptadas = 0 /\ abiertos = {} /\ contestadas = {} /\ desconocidas = {}
  /\ main = InAccept /\ sd_global = 0 /\ sd_copiado = 0
  /\ avisado = FALSE
  /\ hilo = [t \in Worker |-> IdleThread]
  /\ enabled \in IF parte = 1 THEN {FALSE} ELSE BOOLEAN
  /\ clnt = IF enabled THEN "up" ELSE "NULL"
  /\ rpc_mutex = None
  /\ manejador = [t \in Thread |-> "none"]
  /\ senales = 0 /\ proceso = "running"

FreeFds   == MaxFds - Cardinality(abiertos)
Runs(t)   == proceso = "running" /\ manejador[t] = "none"

-----------------------------------------------------------------------------
(* The main loop. *)

MainAt(pc)   == Runs(Main) /\ main.pc = pc
MainOnly     == UNCHANGED <<parte, hilo, logVars, signalVars, proceso>>

(* A variant with a bug that nothing uses, as in Database: the result of   *)
(* accept is not tested.                                                   *)
Accept_Unchecked ==
  /\ MainAt("accept")
  /\ aceptadas < MaxConnections
  /\ IF FreeFds > 0
     THEN /\ aceptadas' = aceptadas + 1
          /\ abiertos' = abiertos \cup {aceptadas'}
          /\ main' = [pc |-> "lock", sd_conec |-> aceptadas']
     ELSE main' = [pc |-> "lock", sd_conec |-> -1] /\ UNCHANGED <<aceptadas, abiertos>>
  /\ UNCHANGED <<contestadas, desconocidas, sd_global, sd_copiado, avisado>>
  /\ MainOnly

(* With no free descriptor accept fails and the loop tries again. *)
Accept ==
  /\ MainAt("accept")
  /\ aceptadas < MaxConnections
  /\ FreeFds > 0
  /\ aceptadas' = aceptadas + 1
  /\ abiertos' = abiertos \cup {aceptadas'}
  /\ main' = [pc |-> "lock", sd_conec |-> aceptadas']
  /\ UNCHANGED <<contestadas, desconocidas, sd_global, sd_copiado, avisado>>
  /\ MainOnly

(* The descriptor is put into sd_global and a thread made for it; then     *)
(* sd_copiado is 0 and main waits for cond_sd.  Threads are alike: it does *)
(* not matter which free one runs.                                         *)
HandOver ==
  /\ MainAt("lock")
  /\ \E t \in Worker : hilo[t].pc = "idle"
  /\ LET t == CHOOSE t \in Worker : hilo[t].pc = "idle"
     IN  hilo' = [hilo EXCEPT ![t].pc = "lock_sd"]
  /\ sd_copiado' = 0
  /\ sd_global' = main.sd_conec
  /\ main' = [main EXCEPT !.pc = "waiting"]
  /\ avisado' = FALSE
  /\ UNCHANGED <<parte, socketVars, logVars, signalVars, proceso>>

(* pthread_create fails: no thread is left, or no memory for one. *)
CreateFails ==
  /\ MainAt("lock")
  /\ abiertos' = abiertos \ {main.sd_conec}
  /\ sd_copiado' = 0
  /\ sd_global' = main.sd_conec
  /\ main' = InAccept
  /\ UNCHANGED <<aceptadas, contestadas, desconocidas, avisado>>
  /\ MainOnly

(* A variant: if for while. *)
Wake_Once ==
  /\ MainAt("waiting")
  /\ main' = InAccept
  /\ avisado' = FALSE
  /\ UNCHANGED <<socketVars, sd_global, sd_copiado>>
  /\ MainOnly

(* pthread_cond_wait returns, signalled or spuriously, and the condition   *)
(* of the loop is tested again.                                            *)
Wake ==
  /\ MainAt("waiting")
  /\ main' = IF sd_copiado = 0 THEN main ELSE InAccept
  /\ avisado' = FALSE
  /\ UNCHANGED <<socketVars, sd_global, sd_copiado>>
  /\ MainOnly

-----------------------------------------------------------------------------
(* A thread: tratar_peticion. *)

At(t, pc)    == Runs(t) /\ hilo[t].pc = pc
Goto(t, pc)  == hilo' = [hilo EXCEPT ![t].pc = pc]
Socket(t)    == hilo[t].s_local
End(t)       == hilo' = [hilo EXCEPT ![t] = IdleThread]
Killed       == proceso' = "killed"
Close(c)     == /\ abiertos' = abiertos \ {c}
                /\ contestadas' = contestadas \ {c}
                /\ desconocidas' = desconocidas \ {c}

(* A variant: the signal is forgotten. *)
Copy_NoSignal(t) ==
  /\ At(t, "lock_sd")
  /\ hilo' = [hilo EXCEPT ![t] = [@ EXCEPT !.pc = "read", !.s_local = sd_global]]
  /\ sd_copiado' = 1
  /\ UNCHANGED <<parte, socketVars, main, sd_global, avisado, logVars, signalVars, proceso>>

Copy(t) ==
  /\ At(t, "lock_sd")
  /\ hilo' = [hilo EXCEPT ![t] = [@ EXCEPT !.pc = "read", !.s_local = sd_global]]
  /\ sd_copiado' = 1
  /\ avisado' = (main.pc = "waiting")
  /\ UNCHANGED <<parte, socketVars, main, sd_global, logVars, signalVars, proceso>>

(* leer_cadena waits for a client that has connected and writes nothing.   *)
ReadBlocks(t) ==
  /\ At(t, "read")
  /\ Goto(t, "blocked")
  /\ UNCHANGED <<parte, socketVars, handVars, logVars, signalVars, proceso>>

(* leer_cadena fails when the client is gone before the last field. *)
ReadFails(t) ==
  /\ At(t, "read")
  /\ Close(Socket(t))
  /\ End(t)
  /\ UNCHANGED <<parte, aceptadas, handVars, logVars, signalVars, proceso>>

(* The operation and every field are there, and its handler answers. *)
Handle(t) ==
  /\ At(t, "read")
  /\ \E op \in {"SEND", "SENDATTACH"} :
       hilo' = [hilo EXCEPT ![t] = [@ EXCEPT !.pc = IF parte = 1 THEN "return" ELSE "log",
                                             !.op = op]]
  /\ contestadas' = contestadas \cup {Socket(t)}
  /\ UNCHANGED <<parte, aceptadas, abiertos, desconocidas, handVars, logVars, signalVars, proceso>>

(* The client is gone when its handler writes the answer. *)
AnswerKills(t) ==
  /\ At(t, "read")
  /\ Killed
  /\ UNCHANGED <<parte, socketVars, handVars, hilo, logVars, signalVars>>

(* The operation is none of the server's: part 1 closes the socket, part 2 *)
(* returns without an answer and leaves it open.                           *)
UnknownOp(t) ==
  /\ At(t, "read")
  /\ IF parte = 1
     THEN Close(Socket(t))
     ELSE desconocidas' = desconocidas \cup {Socket(t)} /\ UNCHANGED <<abiertos, contestadas>>
  /\ End(t)
  /\ UNCHANGED <<parte, aceptadas, handVars, logVars, signalVars, proceso>>

(* log_rpc_send: the test is made without rpc_mutex. *)
TestLog_Not(t) ==
  /\ At(t, "log")
  /\ Goto(t, "rpc_lock")
  /\ UNCHANGED <<parte, socketVars, handVars, logVars, signalVars, proceso>>

TestLog(t) ==
  /\ At(t, "log")
  /\ Goto(t, IF enabled /\ clnt # "NULL" THEN "rpc_lock" ELSE "return")
  /\ UNCHANGED <<parte, socketVars, handVars, logVars, signalVars, proceso>>

LockRpc(t) ==
  /\ At(t, "rpc_lock")
  /\ rpc_mutex = None
  /\ rpc_mutex' = t
  /\ Goto(t, "rpc")
  /\ UNCHANGED <<parte, socketVars, handVars, enabled, clnt, signalVars, proceso>>

(* A variant: the mutex is kept when the call fails. *)
CallRpc_Keeps(t) ==
  /\ At(t, "rpc") /\ clnt # "NULL"
  /\ \/ clnt = "up" /\ rpc_mutex' = None /\ Goto(t, "return") /\ UNCHANGED clnt
     \/ UNCHANGED rpc_mutex /\ Goto(t, "perror") /\ clnt' \in {clnt, "dead"}
  /\ UNCHANGED <<parte, socketVars, handVars, enabled, signalVars, proceso>>

(* The call succeeds, or fails: after 25 seconds at the latest, or at once *)
(* when the log server is gone.  The log is not turned off then, and the   *)
(* next call writes to the dead connection.                                *)
CallRpc(t) ==
  /\ At(t, "rpc") /\ clnt # "NULL"
  /\ rpc_mutex' = None
  /\ \/ clnt = "up" /\ Goto(t, "return") /\ UNCHANGED clnt
     \/ Goto(t, "perror") /\ clnt' \in {clnt, "dead"}
  /\ UNCHANGED <<parte, socketVars, handVars, enabled, signalVars, proceso>>

CallKills(t) ==
  /\ At(t, "rpc") /\ clnt = "dead"
  /\ Killed
  /\ UNCHANGED <<parte, socketVars, handVars, hilo, logVars, signalVars>>

PrintError(t) ==
  /\ At(t, "perror") /\ clnt # "NULL"
  /\ Goto(t, "return")
  /\ UNCHANGED <<parte, socketVars, handVars, logVars, signalVars, proceso>>

(* clnt is used where it may be NULL by now. *)
UsesNull(t) ==
  /\ At(t, "rpc") \/ At(t, "perror")
  /\ clnt = "NULL"
  /\ proceso' = "crashed"
  /\ UNCHANGED <<parte, socketVars, handVars, hilo, logVars, signalVars>>

(* A variant: part 2's return statement in part 1. *)
Return_Leaks(t) ==
  /\ At(t, "return")
  /\ IF hilo[t].op = "SENDATTACH"
     THEN Close(Socket(t)) ELSE UNCHANGED <<abiertos, contestadas, desconocidas>>
  /\ End(t)
  /\ UNCHANGED <<parte, aceptadas, handVars, logVars, signalVars, proceso>>

(* In part 2 only the branch of SENDATTACH closes the socket. *)
Return(t) ==
  /\ At(t, "return")
  /\ IF parte = 1 \/ hilo[t].op = "SENDATTACH"
     THEN Close(Socket(t)) ELSE UNCHANGED <<abiertos, contestadas, desconocidas>>
  /\ End(t)
  /\ UNCHANGED <<parte, aceptadas, handVars, logVars, signalVars, proceso>>

-----------------------------------------------------------------------------
(* SIGINT.  The kernel gives it to the main thread unless that is in the   *)
(* handler already, and then to another one.                               *)

Alive(t) == t \in Worker => hilo[t].pc # "idle"

Sigint ==
  /\ proceso = "running"
  /\ senales < MaxSignals
  /\ senales' = senales + 1
  /\ \E t \in Thread :
       /\ Alive(t) /\ manejador[t] = "none"
       /\ t # Main => manejador[Main] # "none"
       /\ manejador' = [manejador EXCEPT ![t] = IF parte = 1 THEN "exit" ELSE "lock"]
  /\ UNCHANGED <<parte, socketVars, handVars, hilo, logVars, proceso>>

(* log_rpc_destroy. *)
HandlerLocks(t) ==
  /\ proceso = "running" /\ manejador[t] = "lock"
  /\ rpc_mutex = None
  /\ rpc_mutex' = t
  /\ manejador' = [manejador EXCEPT ![t] = "destroy"]
  /\ UNCHANGED <<parte, socketVars, handVars, hilo, enabled, clnt, senales, proceso>>

HandlerDestroys(t) ==
  /\ proceso = "running" /\ manejador[t] = "destroy"
  /\ clnt' = "NULL" /\ enabled' = FALSE /\ rpc_mutex' = None
  /\ manejador' = [manejador EXCEPT ![t] = "exit"]
  /\ UNCHANGED <<parte, socketVars, handVars, hilo, senales, proceso>>

HandlerExits(t) ==
  /\ proceso = "running" /\ manejador[t] = "exit"
  /\ proceso' = "exited"
  /\ UNCHANGED <<parte, socketVars, handVars, hilo, logVars, signalVars>>

-----------------------------------------------------------------------------
MainStep == Accept \/ HandOver \/ CreateFails \/ Wake

ThreadStep(t) ==
  \/ Copy(t)
  \/ ReadBlocks(t) \/ ReadFails(t) \/ Handle(t) \/ AnswerKills(t) \/ UnknownOp(t)
  \/ TestLog(t) \/ LockRpc(t)
  \/ CallRpc(t) \/ CallKills(t) \/ PrintError(t) \/ UsesNull(t)
  \/ Return(t)

HandlerStep(t) == HandlerLocks(t) \/ HandlerDestroys(t) \/ HandlerExits(t)

ProcessNext ==
  \/ MainStep \/ Sigint
  \/ \E t \in Worker : ThreadStep(t)
  \/ \E t \in Thread : HandlerStep(t)

ProcessSpec == ProcessInit /\ [][ProcessNext]_processVars

(* Every thread that can run runs.  A main that waits for cond_sd need not *)
(* wake up by itself, only when it was signalled.                          *)
ProcessFairness ==
  /\ WF_processVars(MainStep /\ (main.pc = "waiting" => avisado))
  /\ \A t \in Worker : WF_processVars(ThreadStep(t))
  /\ \A t \in Thread : WF_processVars(HandlerStep(t))

ProcessFairSpec == ProcessSpec /\ ProcessFairness

-----------------------------------------------------------------------------
(* Properties. *)

ProcessTypeOK ==
  /\ parte \in {1, 2}
  /\ aceptadas \in 0..MaxConnections
  /\ abiertos \subseteq 1..aceptadas
  /\ contestadas \subseteq abiertos /\ desconocidas \subseteq abiertos
  /\ main \in [pc : {"accept", "lock", "waiting"}, sd_conec : 0..aceptadas]
  /\ sd_global \in 0..aceptadas
  /\ sd_copiado \in {0, 1}
  /\ avisado \in BOOLEAN
  /\ hilo \in [Worker -> [pc : {"idle", "lock_sd", "read", "blocked", "log", "rpc_lock", "rpc",
                                "perror", "return"},
                         s_local : 0..aceptadas,
                         op : {"none", "SEND", "SENDATTACH"}]]
  /\ enabled \in BOOLEAN /\ clnt \in {"NULL", "up", "dead"}
  /\ rpc_mutex \in Thread \cup {None}
  /\ manejador \in [Thread -> {"none", "lock", "destroy", "exit"}]
  /\ senales \in 0..MaxSignals
  /\ proceso \in {"running", "exited", "crashed", "killed"}

(* Somebody still has connection c in hand. *)
InHand(c) == main.sd_conec = c \/ \E t \in Worker : Socket(t) = c

(* The handover through sd_global: no two threads take the same connection *)
(* and none is overwritten before a thread has it.  Wake-ups of main may   *)
(* be spurious, and other threads may be anywhere.                         *)
HandedOverOnce ==
  /\ \A s, t \in Worker : Socket(s) # 0 /\ Socket(s) = Socket(t) => s = t
  /\ \A c \in abiertos \ (contestadas \cup desconocidas) : InHand(c)

(* "una vez las funciones f_ terminen, cerramos el hilo y el socket"       *)
(* (parte2 servidor.c:342): an open descriptor belongs to a thread.        *)
ClosedAfterwards == \A c \in abiertos : InHand(c)

(* Part 1 does so, whatever the operation and wherever reading it failed:  *)
(* a descriptor is open only while a thread is at work on it, or waits for *)
(* a client that writes nothing.                                           *)
PartOneCloses == parte = 1 => ClosedAfterwards

(* "if it is unset or the connection fails, logging is simply disabled and *)
(* the server carries on" (readme.md:57), at the start: clnt is never used *)
(* when it is NULL, although it is tested without the mutex - until a      *)
(* SIGINT.  Of a log server that goes later this says nothing.             *)
LogOffIsHarmless == proceso = "crashed" => senales > 0

(* Whoever waits, waits for somebody who can go on: main for a thread that *)
(* has yet to copy sd_global, or for a wake-up that is on its way (it is   *)
(* not lost when the thread signals before main waits again); those who    *)
(* want rpc_mutex for a call, which ends, or for log_rpc_destroy.  Only a  *)
(* second SIGINT can have the handler wait for its own thread.             *)
NobodyWaitsInVain ==
  /\ main.pc = "waiting" =>
       IF sd_copiado = 0 THEN \E t \in Worker : hilo[t].pc = "lock_sd" ELSE avisado
  /\ rpc_mutex # None /\ senales <= 1 =>
       \/ manejador[rpc_mutex] = "destroy"
       \/ /\ rpc_mutex \in Worker /\ hilo[rpc_mutex].pc = "rpc"
          /\ manejador[rpc_mutex] = "none"

(* "cierra de forma ordenada el socket cuando el usuario hace ctrl + c"    *)
(* (servidor.c:354): the server ends after one SIGINT, whatever RPC is     *)
(* under way: the main thread, which gets it, never holds rpc_mutex.  A    *)
(* second one while the handler is in log_rpc_destroy has it lock the      *)
(* mutex that it holds itself.                                             *)
OneSigintEndsServer == senales = 1 ~> (proceso # "running" \/ senales > 1)

(* A client that writes nothing keeps its thread and its descriptor for    *)
(* ever, and part 2 keeps the descriptors of most of those it has served:  *)
(* there are none left when these are all that the process may have.       *)
KeptForEver(c) ==
  \/ ~InHand(c)
  \/ \E t \in Worker : Socket(t) = c /\ hilo[t].pc = "blocked"

Exhausted == FreeFds = 0 /\ \A c \in abiertos : KeptForEver(c)

(* Every connection to the server is accepted, and then answered or        *)
(* closed, or part 2 does not know its operation; its neighbours can only  *)
(* prevent that by keeping all the descriptors or by ending the process.   *)
(* In particular one that writes nothing keeps its thread, not main, and a *)
(* failed pthread_create, or a descriptor missing for a while, delays the  *)
(* others only.                                                            *)
EveryConnectionEnds ==
  \A c \in 1..MaxConnections :
    aceptadas < c
      ~> \/ c \in contestadas \cup desconocidas
         \/ c <= aceptadas /\ c \notin abiertos
         \/ \E t \in Worker : Socket(t) = c /\ hilo[t].pc = "blocked"
         \/ proceso # "running"
         \/ Exhausted

(* A thread that has answered returns, although it waits for the log       *)
(* server, and for the other threads that do, before it goes on: a log     *)
(* server that is slow or gone delays it, or ends the process by SIGPIPE,  *)
(* but nothing waits for ever.                                             *)
EveryThreadReturns ==
  \A t \in Worker :
    hilo[t].pc \in {"log", "rpc_lock", "rpc", "perror", "return"}
      ~> (hilo[t].pc = "idle" \/ senales > 0 \/ proceso = "killed")

=============================================================================
