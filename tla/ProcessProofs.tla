--------------------------- MODULE ProcessProofs ----------------------------
(***************************************************************************)
(* Proofs about Process, for any number of threads, connections,           *)
(* descriptors and signals.                                                *)
(*                                                                         *)
(* None of the safety properties is inductive.  HandInv says what holds    *)
(* between the statements of the handover: while a thread is about to copy *)
(* sd_global, main waits and nobody else has that connection; and          *)
(* answered connections are those of the threads past their handler.       *)
(* WaitInv adds who holds rpc_mutex at which step, which handlers run in   *)
(* whom, and that a wake-up sent to main is kept until main has it.        *)
(***************************************************************************)
EXTENDS Process, TLAPS

(* A thread past its handler. *)
Answered == {"log", "rpc_lock", "rpc", "perror", "return"}

WorkerSteps == {"idle", "lock_sd", "read", "blocked"} \cup Answered

(* The parts of ProcessTypeOK that the others need. *)
SocketTypes ==
  /\ aceptadas \in Nat
  /\ abiertos \subseteq 1..aceptadas
  /\ contestadas \subseteq abiertos /\ desconocidas \subseteq abiertos
  /\ main \in [pc : {"accept", "lock", "waiting"}, sd_conec : 0..aceptadas]
  /\ hilo \in [Worker -> [pc : WorkerSteps, s_local : 0..aceptadas,
                          op : {"none", "SEND", "SENDATTACH"}]]

(* Main has a connection that no thread has taken from it. *)
Unclaimed == main.pc = "lock" \/ (main.pc = "waiting" /\ sd_copiado = 0)

HandInv ==
  /\ main.pc = "accept" <=> main.sd_conec = 0
  /\ Unclaimed => main.sd_conec \in abiertos \ (contestadas \cup desconocidas)
  /\ \A t \in Worker :
       /\ hilo[t].pc \in {"idle", "lock_sd"} <=> Socket(t) = 0
       /\ hilo[t].pc = "lock_sd" => /\ main.pc = "waiting" /\ sd_copiado = 0
                                    /\ sd_global = main.sd_conec
       /\ Unclaimed => Socket(t) # main.sd_conec
       /\ Socket(t) # 0 => Socket(t) \in abiertos
       /\ hilo[t].pc \in Answered => Socket(t) \in contestadas
  /\ \A s, t \in Worker : /\ hilo[s].pc = "lock_sd" /\ hilo[t].pc = "lock_sd" => s = t
                          /\ Socket(s) # 0 /\ Socket(s) = Socket(t) => s = t

(* Main's copy of the descriptor does not count once a thread has it. *)
Held(c) == (Unclaimed /\ main.sd_conec = c) \/ \E t \in Worker : Socket(t) = c

HeldInv == \A c \in abiertos : (parte = 1 \/ c \notin contestadas \cup desconocidas) => Held(c)

SocketInv == SocketTypes /\ HandInv /\ HeldInv

-----------------------------------------------------------------------------
(* Main. *)

LEMMA InitSockets == ProcessInit => SocketInv
BY DEF ProcessInit, SocketInv, SocketTypes, HandInv, HeldInv, InAccept, IdleThread, Socket,
       Unclaimed, WorkerSteps, Answered

LEMMA AcceptSockets == ASSUME SocketInv, Accept PROVE SocketInv'
<1> DEFINE c == aceptadas + 1
<1>1. /\ aceptadas \in Nat /\ aceptadas' = c /\ abiertos' = abiertos \cup {c}
      /\ main.pc = "accept" /\ main' = [pc |-> "lock", sd_conec |-> c]
      /\ UNCHANGED <<contestadas, desconocidas, hilo, parte, sd_copiado, sd_global>>
  BY DEF Accept, MainAt, MainOnly, SocketInv, SocketTypes
<1>2. SocketTypes'
  BY <1>1 DEF SocketInv, SocketTypes
<1>3. HandInv'
  BY <1>1 DEF SocketInv, SocketTypes, HandInv, Unclaimed, Socket
<1>4. HeldInv'
  BY <1>1 DEF SocketInv, HeldInv, Held, Unclaimed, Socket
<1> QED
  BY <1>2, <1>3, <1>4 DEF SocketInv

(* The new thread is one that was idle. *)
LEMMA HandOverSockets == ASSUME SocketInv, HandOver PROVE SocketInv'
<1> DEFINE t == CHOOSE t \in Worker : hilo[t].pc = "idle"
<1>1. t \in Worker /\ hilo[t].pc = "idle"
  BY DEF HandOver
<1>2. hilo' = [hilo EXCEPT ![t].pc = "lock_sd"]
  BY DEF HandOver
<1> HIDE DEF t
<1>3. /\ main.pc = "lock" /\ main' = [main EXCEPT !.pc = "waiting"]
      /\ sd_copiado' = 0 /\ sd_global' = main.sd_conec
      /\ UNCHANGED <<aceptadas, abiertos, contestadas, desconocidas, parte>>
  BY DEF HandOver, MainAt, socketVars
<1>4. \A s \in Worker : /\ hilo'[s].s_local = hilo[s].s_local
                        /\ hilo'[s].pc = IF s = t THEN "lock_sd" ELSE hilo[s].pc
  BY <1>1, <1>2 DEF SocketInv, SocketTypes
<1>5. main'.pc = "waiting" /\ main'.sd_conec = main.sd_conec
  BY <1>3 DEF SocketInv, SocketTypes
<1>6. SocketTypes'
  BY <1>1, <1>2, <1>3 DEF SocketInv, SocketTypes, WorkerSteps
<1>7. HandInv'
  BY <1>1, <1>3, <1>4, <1>5 DEF SocketInv, HandInv, Unclaimed, Socket, Answered
<1>8. HeldInv'
  BY <1>3, <1>4, <1>5 DEF SocketInv, HeldInv, Held, Unclaimed, Socket
<1> QED
  BY <1>6, <1>7, <1>8 DEF SocketInv

LEMMA CreateFailsSockets == ASSUME SocketInv, CreateFails PROVE SocketInv'
<1>1. /\ main.pc = "lock" /\ main' = [pc |-> "accept", sd_conec |-> 0]
      /\ abiertos' = abiertos \ {main.sd_conec} /\ sd_copiado' = 0
      /\ UNCHANGED <<aceptadas, contestadas, desconocidas, hilo, parte>>
  BY DEF CreateFails, MainAt, MainOnly, InAccept
<1>2. main.sd_conec \notin contestadas \cup desconocidas
  BY <1>1 DEF SocketInv, HandInv, Unclaimed
<1>3. SocketTypes'
  <2>1. /\ abiertos' \subseteq 1..aceptadas' /\ contestadas' \subseteq abiertos'
        /\ desconocidas' \subseteq abiertos'
    BY <1>1, <1>2 DEF SocketInv, SocketTypes
  <2>2. main' \in [pc : {"accept", "lock", "waiting"}, sd_conec : 0..aceptadas']
    BY <1>1 DEF SocketInv, SocketTypes
  <2> QED
    BY <1>1, <2>1, <2>2 DEF SocketInv, SocketTypes
<1>4. HandInv'
  BY <1>1, <1>2 DEF SocketInv, HandInv, Unclaimed, Socket
<1>5. HeldInv'
  BY <1>1, <1>2 DEF SocketInv, HeldInv, Held, Unclaimed, Socket
<1> QED
  BY <1>3, <1>4, <1>5 DEF SocketInv

LEMMA WakeSockets == ASSUME SocketInv, Wake PROVE SocketInv'
<1>1. /\ main.pc = "waiting"
      /\ main' = IF sd_copiado = 0 THEN main ELSE [pc |-> "accept", sd_conec |-> 0]
      /\ UNCHANGED <<aceptadas, abiertos, contestadas, desconocidas, hilo, parte, sd_copiado,
                     sd_global>>
  BY DEF Wake, MainAt, MainOnly, InAccept, socketVars
<1> QED
  BY <1>1 DEF SocketInv, SocketTypes, HandInv, HeldInv, Held, Unclaimed, Socket

-----------------------------------------------------------------------------
(* The threads. *)

(* Thread t is at pc, and comes to have socket c. *)
Moves(t, pc, c) ==
  /\ \A s \in Worker : Socket(s)' = IF s = t THEN c ELSE Socket(s)
  /\ \A s \in Worker : hilo'[s].pc = IF s = t THEN pc ELSE hilo[s].pc

LEMMA GotoMoves ==
  ASSUME SocketTypes, NEW t \in Worker, NEW pc \in WorkerSteps, Goto(t, pc),
         UNCHANGED socketVars, UNCHANGED main
  PROVE  SocketTypes' /\ Moves(t, pc, Socket(t))
BY DEF SocketTypes, Goto, Moves, Socket, socketVars

LEMMA EndMoves ==
  ASSUME SocketTypes, NEW t \in Worker, End(t), UNCHANGED <<aceptadas, main>>,
         \/ Close(Socket(t))
         \/ UNCHANGED <<abiertos, contestadas, desconocidas>>
         \/ /\ Socket(t) \in abiertos /\ desconocidas' = desconocidas \cup {Socket(t)}
            /\ UNCHANGED <<abiertos, contestadas>>
  PROVE  SocketTypes' /\ Moves(t, "idle", 0)
<1>1. hilo' = [hilo EXCEPT ![t] = [pc |-> "idle", s_local |-> 0, op |-> "none"]]
  BY DEF End, IdleThread
<1>2. /\ abiertos' \subseteq 1..aceptadas /\ contestadas' \subseteq abiertos'
      /\ desconocidas' \subseteq abiertos'
  BY DEF SocketTypes, Close
<1>3. /\ [pc |-> "idle", s_local |-> 0, op |-> "none"].pc = "idle"
      /\ [pc |-> "idle", s_local |-> 0, op |-> "none"].s_local = 0
  OBVIOUS
<1>4. Moves(t, "idle", 0)
  BY <1>1, <1>3 DEF SocketTypes, Moves, Socket
<1>5. hilo' \in [Worker -> [pc : WorkerSteps, s_local : 0..aceptadas,
                           op : {"none", "SEND", "SENDATTACH"}]]
  BY <1>1 DEF SocketTypes, WorkerSteps
<1> QED
  BY <1>2, <1>4, <1>5 DEF SocketTypes

LEMMA CopySockets == ASSUME SocketInv, NEW t \in Worker, Copy(t) PROVE SocketInv'
<1>1. /\ hilo[t].pc = "lock_sd" /\ sd_copiado' = 1
      /\ hilo' = [hilo EXCEPT ![t] = [@ EXCEPT !.pc = "read", !.s_local = sd_global]]
      /\ UNCHANGED <<aceptadas, abiertos, contestadas, desconocidas, parte, main, sd_global>>
  BY DEF Copy, At, socketVars
<1>2. main.pc = "waiting" /\ sd_copiado = 0 /\ sd_global = main.sd_conec
  BY <1>1 DEF SocketInv, HandInv
<1>3. sd_global \in 0..aceptadas /\ sd_global # 0
  BY <1>2 DEF SocketInv, SocketTypes, HandInv
<1>4. SocketTypes' /\ Moves(t, "read", sd_global)
  BY <1>1, <1>3 DEF SocketInv, SocketTypes, Moves, Socket, WorkerSteps
<1>5. HandInv'
  BY <1>1, <1>2, <1>3, <1>4 DEF SocketInv, HandInv, Moves, Unclaimed, Answered
<1>6. HeldInv'
  <2>1. Socket(t) = 0 /\ 0 \notin abiertos
    BY <1>1 DEF SocketInv, SocketTypes, HandInv
  <2> SUFFICES ASSUME NEW c \in abiertos, parte = 1 \/ c \notin contestadas \cup desconocidas
               PROVE  \E s \in Worker : Socket(s)' = c
    BY <1>1 DEF HeldInv, Held
  <2>2. Held(c)
    BY DEF SocketInv, HeldInv
  <2>3. CASE main.sd_conec = c
    BY <1>2, <1>4, <2>3 DEF Moves
  <2>4. CASE \E s \in Worker : Socket(s) = c
    BY <1>4, <2>1, <2>4 DEF Moves
  <2> QED
    BY <2>2, <2>3, <2>4 DEF Held
<1> QED
  BY <1>4, <1>5, <1>6 DEF SocketInv

LEMMA HandleSockets == ASSUME SocketInv, NEW t \in Worker, Handle(t) PROVE SocketInv'
<1>1. PICK op \in {"SEND", "SENDATTACH"} :
        hilo' = [hilo EXCEPT ![t] = [@ EXCEPT !.pc = IF parte = 1 THEN "return" ELSE "log",
                                              !.op = op]]
  BY DEF Handle
<1> DEFINE pc == IF parte = 1 THEN "return" ELSE "log"
<1>2. /\ hilo[t].pc = "read" /\ contestadas' = contestadas \cup {Socket(t)}
      /\ UNCHANGED <<aceptadas, abiertos, desconocidas, parte, main, sd_global, sd_copiado>>
  BY DEF Handle, At, handVars
<1>3. Moves(t, pc, Socket(t)) /\ pc \in Answered
  BY <1>1 DEF SocketInv, SocketTypes, Moves, Socket, Answered
<1>4. Socket(t) \in abiertos
  BY <1>2 DEF SocketInv, HandInv
<1>5. SocketTypes'
  <2>1. contestadas' \subseteq abiertos'
    BY <1>2, <1>4 DEF SocketInv, SocketTypes
  <2>2. hilo' \in [Worker -> [pc : WorkerSteps, s_local : 0..aceptadas,
                             op : {"none", "SEND", "SENDATTACH"}]]
    <3>1. hilo[t] \in [pc : WorkerSteps, s_local : 0..aceptadas,
                       op : {"none", "SEND", "SENDATTACH"}]
      BY DEF SocketInv, SocketTypes
    <3>2. pc \in WorkerSteps
      BY DEF WorkerSteps, Answered
    <3> HIDE DEF pc
    <3>3. [hilo[t] EXCEPT !.pc = pc, !.op = op] \in [pc : WorkerSteps, s_local : 0..aceptadas,
                                                   op : {"none", "SEND", "SENDATTACH"}]
      BY <3>1, <3>2
    <3> QED
      BY <1>1, <3>3 DEF SocketInv, SocketTypes, pc
  <2> QED
    BY <1>2, <2>1, <2>2 DEF SocketInv, SocketTypes
<1> HIDE DEF pc
<1>6. HandInv'
  BY <1>2, <1>3 DEF SocketInv, HandInv, Moves, Unclaimed, Answered
<1>7. HeldInv'
  BY <1>2, <1>3 DEF SocketInv, HeldInv, Held, Moves, Unclaimed
<1> QED
  BY <1>5, <1>6, <1>7 DEF SocketInv

(* A thread that ends closes its socket, or has answered it in part 2, or  *)
(* does not know its operation there.                                      *)
LEMMA EndSockets ==
  ASSUME SocketInv, NEW t \in Worker, End(t), hilo[t].pc \in {"read", "return"},
         UNCHANGED <<aceptadas, parte, main, sd_global, sd_copiado>>,
         \/ Close(Socket(t))
         \/ /\ UNCHANGED <<abiertos, contestadas, desconocidas>>
            /\ parte # 1 /\ hilo[t].pc = "return"
         \/ /\ desconocidas' = desconocidas \cup {Socket(t)} /\ parte # 1
            /\ UNCHANGED <<abiertos, contestadas>>
  PROVE  SocketInv'
<1>1. Socket(t) # 0 /\ Socket(t) \in abiertos
  BY DEF SocketInv, HandInv
<1>2. SocketTypes' /\ Moves(t, "idle", 0)
  BY <1>1, EndMoves DEF SocketInv
<1>3. HandInv'
  BY <1>1, <1>2 DEF SocketInv, HandInv, Moves, Unclaimed, Close, Answered
<1>4. HeldInv'
  BY <1>1, <1>2 DEF SocketInv, HandInv, HeldInv, Held, Moves, Unclaimed, Close, Answered
<1> QED
  BY <1>2, <1>3, <1>4 DEF SocketInv

(* The other steps of a thread leave the sockets alone. *)
LEMMA StepSockets ==
  ASSUME SocketInv, NEW t \in Worker, NEW pc \in Answered \cup {"blocked"}, Goto(t, pc),
         hilo[t].pc \in (IF pc = "blocked" THEN {"read"} ELSE Answered),
         UNCHANGED <<socketVars, handVars, parte>>
  PROVE  SocketInv'
<1>1. SocketTypes' /\ Moves(t, pc, Socket(t))
  BY GotoMoves DEF SocketInv, WorkerSteps, handVars
<1>2. UNCHANGED <<abiertos, contestadas, desconocidas, parte, main, sd_global, sd_copiado>>
  BY DEF socketVars, handVars
<1>3. HandInv'
  BY <1>1, <1>2 DEF SocketInv, HandInv, Moves, Unclaimed, Answered
<1>4. HeldInv'
  BY <1>1, <1>2 DEF SocketInv, HeldInv, Held, Moves, Unclaimed
<1> QED
  BY <1>1, <1>3, <1>4 DEF SocketInv

LEMMA SameSockets ==
  ASSUME SocketInv, UNCHANGED <<parte, socketVars, handVars, hilo>> PROVE SocketInv'
BY DEF SocketInv, SocketTypes, HandInv, HeldInv, Held, Unclaimed, Socket, socketVars, handVars

LEMMA ThreadSockets == ASSUME SocketInv, NEW t \in Worker, ThreadStep(t) PROVE SocketInv'
<1>1. CASE Copy(t) \/ Handle(t)
  BY <1>1, CopySockets, HandleSockets
<1>2. CASE ReadFails(t)
  BY <1>2, EndSockets DEF ReadFails, At, handVars
<1>3. CASE Return(t)
  <2>1. /\ hilo[t].pc = "return" /\ End(t)
        /\ UNCHANGED <<aceptadas, parte, main, sd_global, sd_copiado>>
    BY <1>3 DEF Return, At, handVars
  <2>2. \/ Close(Socket(t))
        \/ UNCHANGED <<abiertos, contestadas, desconocidas>> /\ parte # 1
    BY <1>3 DEF Return
  <2> QED
    BY <2>1, <2>2, EndSockets
<1>4. CASE UnknownOp(t)
  <2>1. /\ hilo[t].pc = "read" /\ End(t)
        /\ UNCHANGED <<aceptadas, parte, main, sd_global, sd_copiado>>
    BY <1>4 DEF UnknownOp, At, handVars
  <2>2. \/ Close(Socket(t))
        \/ /\ desconocidas' = desconocidas \cup {Socket(t)} /\ parte # 1
           /\ UNCHANGED <<abiertos, contestadas>>
    BY <1>4 DEF UnknownOp
  <2> QED
    BY <2>1, <2>2, EndSockets
<1>5. CASE ReadBlocks(t)
  BY <1>5, StepSockets DEF ReadBlocks, At
<1>6. CASE TestLog(t) \/ LockRpc(t) \/ CallRpc(t) \/ PrintError(t)
  <2>1. hilo[t].pc \in Answered /\ UNCHANGED <<socketVars, handVars, parte>>
    BY <1>6 DEF TestLog, LockRpc, CallRpc, PrintError, At, Answered
  <2>2. \E pc \in Answered : Goto(t, pc)
    BY <1>6 DEF TestLog, LockRpc, CallRpc, PrintError, Answered
  <2>3. "blocked" \notin Answered
    BY DEF Answered
  <2> QED
    BY <2>1, <2>2, <2>3, StepSockets
<1>7. CASE UsesNull(t) \/ AnswerKills(t) \/ CallKills(t)
  BY <1>7, SameSockets DEF UsesNull, AnswerKills, CallKills
<1> QED
  BY <1>1, <1>2, <1>3, <1>4, <1>5, <1>6, <1>7 DEF ThreadStep

LEMMA NextSockets == SocketInv /\ [ProcessNext]_processVars => SocketInv'
<1> SUFFICES ASSUME SocketInv, [ProcessNext]_processVars PROVE SocketInv'
  OBVIOUS
<1>1. CASE MainStep
  BY <1>1, AcceptSockets, HandOverSockets, CreateFailsSockets, WakeSockets DEF MainStep
<1>2. ASSUME NEW t \in Worker, ThreadStep(t) PROVE SocketInv'
  BY <1>2, ThreadSockets
<1>3. CASE Sigint \/ (\E t \in Thread : HandlerStep(t)) \/ UNCHANGED processVars
  BY <1>3, SameSockets DEF Sigint, HandlerStep, HandlerLocks, HandlerDestroys, HandlerExits,
                           processVars
<1> QED
  BY <1>1, <1>2, <1>3 DEF ProcessNext

LEMMA SocketsInvariant == ProcessSpec => []SocketInv
BY InitSockets, NextSockets, PTL DEF ProcessSpec

(* However main and the new threads interleave, and although main may wake *)
(* up at any time, no two threads take one connection and none gets lost   *)
(* in sd_global.                                                           *)
THEOREM ConnectionsHandedOverOnce == ProcessSpec => []HandedOverOnce
<1>1. SocketInv => HandedOverOnce
  BY DEF SocketInv, HandInv, HeldInv, Held, HandedOverOnce, InHand
<1> QED
  BY <1>1, SocketsInvariant, PTL

(* The server of part 1 closes every socket once its thread is done.       *)
THEOREM PartOneClosesSockets == ProcessSpec => []PartOneCloses
<1>1. SocketInv => PartOneCloses
  BY DEF SocketInv, HeldInv, Held, PartOneCloses, ClosedAfterwards, InHand
<1> QED
  BY <1>1, SocketsInvariant, PTL

-----------------------------------------------------------------------------
(* The log. *)

(* Without a signal nobody is in the handler, so clnt is NULL if and only  *)
(* if the init left it so, and only threads that found it otherwise are on *)
(* their way to it.                                                        *)
LogInv ==
  /\ proceso = "crashed" => senales > 0
  /\ senales \in Nat
  /\ senales = 0 =>
       /\ \A t \in Thread : manejador[t] = "none"
       /\ clnt = "NULL" =>
            \A t \in Worker : hilo[t].pc \notin {"rpc_lock", "rpc", "perror"}

LEMMA LogInvNext == SocketInv /\ LogInv /\ [ProcessNext]_processVars => LogInv'
<1> SUFFICES ASSUME SocketInv, LogInv, [ProcessNext]_processVars PROVE LogInv'
  OBVIOUS
<1> DEFINE OnWay == {"rpc_lock", "rpc", "perror"}
<1>1. DOMAIN hilo = Worker /\ \A t \in Worker : DOMAIN hilo[t] = {"pc", "s_local", "op"}
  BY DEF SocketInv, SocketTypes
<1> DEFINE Same == /\ UNCHANGED <<senales, manejador, proceso>>
                   /\ clnt' = "NULL" <=> clnt = "NULL"
<1>2. ASSUME Same, NEW t \in Worker, NEW h, hilo' = [hilo EXCEPT ![t] = h],
             h.pc \in OnWay => hilo[t].pc \in OnWay \/ clnt # "NULL"
      PROVE  LogInv'
  BY <1>1, <1>2 DEF LogInv
<1>3. ASSUME Same, UNCHANGED hilo PROVE LogInv'
  BY <1>3 DEF LogInv
<1>4. ASSUME NEW t \in Worker, NEW pc, Goto(t, pc), Same,
             pc \in OnWay => hilo[t].pc \in OnWay \/ clnt # "NULL"
      PROVE  LogInv'
  <2> DEFINE h == [hilo[t] EXCEPT !.pc = pc]
  <2>1. h.pc = pc /\ hilo' = [hilo EXCEPT ![t] = h]
    BY <1>1, <1>4 DEF Goto
  <2> HIDE DEF h
  <2> QED
    BY <1>2, <1>4, <2>1
<1>5. CASE MainStep
  <2>1. Same
    BY <1>5 DEF MainStep, Accept, HandOver, CreateFails, Wake, MainOnly, logVars, signalVars
  <2>2. CASE HandOver
    <3> DEFINE t == CHOOSE t \in Worker : hilo[t].pc = "idle"
    <3>1. t \in Worker
      BY <2>2 DEF HandOver
    <3>2. Goto(t, "lock_sd")
      BY <2>2 DEF HandOver, Goto
    <3> HIDE DEF t
    <3> QED
      BY <1>4, <2>1, <3>1, <3>2
  <2>3. CASE UNCHANGED hilo
    BY <1>3, <2>1, <2>3
  <2> QED
    BY <1>5, <2>2, <2>3 DEF MainStep, Accept, CreateFails, Wake, MainOnly
<1>6. ASSUME NEW t \in Worker, ThreadStep(t) PROVE LogInv'
  <2>1. CASE UsesNull(t)
    <3>1. hilo[t].pc \in OnWay /\ clnt = "NULL"
      BY <2>1 DEF UsesNull, At
    <3>2. senales # 0 /\ senales' = senales
      BY <2>1, <3>1 DEF UsesNull, LogInv, signalVars
    <3> QED
      BY <3>2 DEF LogInv
  <2>2. CASE AnswerKills(t) \/ CallKills(t)
    <3>1. proceso' = "killed" /\ UNCHANGED <<senales, clnt, manejador, hilo>>
      BY <2>2 DEF AnswerKills, CallKills, Killed, logVars, signalVars
    <3> QED
      BY <3>1 DEF LogInv
  <2>3. CASE ~UsesNull(t) /\ ~AnswerKills(t) /\ ~CallKills(t)
    <3>1. Same
      BY <1>6, <2>3 DEF ThreadStep, Copy, ReadBlocks, ReadFails, Handle, UnknownOp, TestLog,
            LockRpc, CallRpc, PrintError, Return, logVars, signalVars
    <3>2. CASE Copy(t) \/ Handle(t) \/ ReadFails(t) \/ UnknownOp(t) \/ Return(t)
      <4>1. \E h : hilo' = [hilo EXCEPT ![t] = h] /\ h.pc \notin OnWay
        <5>1. CASE Copy(t)
          <6> DEFINE h == [hilo[t] EXCEPT !.pc = "read", !.s_local = sd_global]
          <6>1. hilo' = [hilo EXCEPT ![t] = h] /\ h.pc = "read"
            BY <1>1, <5>1 DEF Copy
          <6> HIDE DEF h
          <6> QED
            BY <6>1
        <5>2. CASE Handle(t)
          <6>1. PICK op \in {"SEND", "SENDATTACH"} :
                  hilo' = [hilo EXCEPT ![t] = [@ EXCEPT
                             !.pc = IF parte = 1 THEN "return" ELSE "log", !.op = op]]
            BY <5>2 DEF Handle
          <6> DEFINE h == [hilo[t] EXCEPT !.pc = IF parte = 1 THEN "return" ELSE "log",
                                          !.op = op]
          <6>2. hilo' = [hilo EXCEPT ![t] = h] /\ h.pc \in {"return", "log"}
            BY <1>1, <6>1
          <6> HIDE DEF h
          <6> QED
            BY <6>2
        <5>3. CASE End(t)
          <6>1. hilo' = [hilo EXCEPT ![t] = IdleThread] /\ IdleThread.pc \notin OnWay
            BY <5>3 DEF End, IdleThread
          <6> QED
            BY <6>1
        <5> QED
          BY <3>2, <5>1, <5>2, <5>3 DEF ReadFails, UnknownOp, Return
      <4> QED
        BY <1>2, <3>1, <4>1
    <3>3. CASE TestLog(t)
      <4>1. \E pc : Goto(t, pc) /\ (pc \in OnWay => clnt # "NULL")
        BY <3>3 DEF TestLog
      <4> QED
        BY <1>4, <3>1, <4>1
    <3>4. CASE ReadBlocks(t) \/ LockRpc(t) \/ CallRpc(t) \/ PrintError(t)
      <4>1. \E pc : Goto(t, pc) /\ (pc \in OnWay => hilo[t].pc \in OnWay)
        BY <3>4 DEF ReadBlocks, LockRpc, CallRpc, PrintError, At
      <4> QED
        BY <1>4, <3>1, <4>1
    <3> QED
      BY <1>6, <2>3, <3>2, <3>3, <3>4 DEF ThreadStep
  <2> QED
    BY <2>1, <2>2, <2>3
<1>7. CASE Sigint
  <2>1. senales' = senales + 1 /\ senales \in Nat
    BY <1>7 DEF Sigint, LogInv
  <2> QED
    BY <2>1 DEF LogInv
<1>8. ASSUME NEW t \in Thread, HandlerStep(t) PROVE LogInv'
  <2>1. manejador[t] # "none" /\ senales' = senales
    BY <1>8 DEF HandlerStep, HandlerLocks, HandlerDestroys, HandlerExits, signalVars
  <2>2. senales \in Nat /\ senales # 0
    BY <2>1 DEF LogInv
  <2> QED
    BY <2>1, <2>2 DEF LogInv
<1>9. CASE UNCHANGED processVars
  BY <1>3, <1>9 DEF processVars, logVars, signalVars
<1> QED
  BY <1>5, <1>6, <1>7, <1>8, <1>9 DEF ProcessNext

(* Until the first SIGINT no thread uses the log client without one,       *)
(* although none holds the mutex when it looks.                            *)
THEOREM LogOffCrashesNothing == ProcessSpec => []LogOffIsHarmless
<1>1. ProcessInit => LogInv
  BY DEF ProcessInit, LogInv, IdleThread, Thread
<1>2. LogInv => LogOffIsHarmless
  BY DEF LogInv, LogOffIsHarmless
<1> QED
  BY <1>1, <1>2, SocketsInvariant, LogInvNext, PTL DEF ProcessSpec

-----------------------------------------------------------------------------
(* The types. *)

RestTypes ==
  /\ parte \in {1, 2} /\ aceptadas <= MaxConnections
  /\ sd_global \in 0..aceptadas /\ sd_copiado \in {0, 1} /\ avisado \in BOOLEAN
  /\ enabled \in BOOLEAN /\ clnt \in {"NULL", "up", "dead"}
  /\ rpc_mutex \in Thread \cup {None}
  /\ manejador \in [Thread -> {"none", "lock", "destroy", "exit"}]
  /\ senales \in 0..MaxSignals
  /\ proceso \in {"running", "exited", "crashed", "killed"}

LEMMA InitRestTypes == ProcessInit => RestTypes
<1> SUFFICES ASSUME ProcessInit PROVE RestTypes
  OBVIOUS
<1>1. enabled \in BOOLEAN
  BY Zenon DEF ProcessInit
<1>2. clnt \in {"NULL", "up", "dead"} /\ avisado \in BOOLEAN
  BY DEF ProcessInit
<1>3. 0 <= MaxConnections /\ 0 \in 0..MaxSignals
  BY ProcessAssumption
<1>4. manejador \in [Thread -> {"none", "lock", "destroy", "exit"}]
  BY DEF ProcessInit
<1> QED
  BY <1>1, <1>2, <1>3, <1>4 DEF ProcessInit, RestTypes

LEMMA RestTypesNext == SocketInv /\ RestTypes /\ [ProcessNext]_processVars => RestTypes'
<1> SUFFICES ASSUME SocketInv, RestTypes, [ProcessNext]_processVars PROVE RestTypes'
  OBVIOUS
<1> USE DEF RestTypes
<1>1. /\ aceptadas \in Nat /\ main.sd_conec \in 0..aceptadas
  BY DEF SocketInv, SocketTypes
<1>2. CASE Accept
  <2>1. /\ aceptadas' = aceptadas + 1 /\ aceptadas < MaxConnections
        /\ UNCHANGED <<parte, sd_global, sd_copiado, avisado, enabled, clnt, rpc_mutex, manejador,
                       senales, proceso>>
    BY <1>2 DEF Accept, MainOnly, logVars, signalVars
  <2>2. aceptadas' <= MaxConnections /\ sd_global \in 0..aceptadas'
    BY <1>1, <2>1, ProcessAssumption
  <2> QED
    BY <2>1, <2>2
<1>3. CASE HandOver \/ CreateFails
  <2>1. /\ sd_global' = main.sd_conec /\ sd_copiado' = 0 /\ avisado' \in BOOLEAN
        /\ UNCHANGED <<parte, aceptadas, enabled, clnt, rpc_mutex, manejador, senales, proceso>>
    BY <1>3 DEF HandOver, CreateFails, MainOnly, socketVars, logVars, signalVars
  <2> QED
    BY <1>1, <2>1
<1>4. CASE Wake
  BY <1>4 DEF Wake, MainOnly, socketVars, logVars, signalVars
<1>5. ASSUME NEW t \in Worker, ThreadStep(t) PROVE RestTypes'
  <2>1. /\ UNCHANGED <<parte, aceptadas, enabled, manejador, senales, sd_global>>
        /\ clnt' \in {clnt, "dead"}
    BY <1>5 DEF ThreadStep, Copy, ReadBlocks, ReadFails, Handle, AnswerKills, UnknownOp, TestLog,
       LockRpc, CallRpc, CallKills, PrintError, UsesNull, Return, socketVars, handVars, logVars,
       signalVars
  <2>2. rpc_mutex' \in {rpc_mutex, t, None} /\ sd_copiado' \in {sd_copiado, 1}
    BY <1>5 DEF ThreadStep, Copy, ReadBlocks, ReadFails, Handle, AnswerKills, UnknownOp, TestLog,
       LockRpc, CallRpc, CallKills, PrintError, UsesNull, Return, socketVars, handVars, logVars,
       signalVars
  <2>3. avisado' \in BOOLEAN
    BY <1>5 DEF ThreadStep, Copy, ReadBlocks, ReadFails, Handle, AnswerKills, UnknownOp, TestLog,
       LockRpc, CallRpc, CallKills, PrintError, UsesNull, Return, socketVars, handVars, logVars,
       signalVars
  <2>4. proceso' \in {proceso, "crashed", "killed"}
    BY <1>5 DEF Killed, ThreadStep, Copy, ReadBlocks, ReadFails, Handle, AnswerKills, UnknownOp,
       TestLog, LockRpc, CallRpc, CallKills, PrintError, UsesNull, Return
  <2> QED
    BY <2>1, <2>2, <2>3, <2>4 DEF Thread
<1>6. CASE Sigint
  <2>1. /\ UNCHANGED <<parte, aceptadas, sd_global, sd_copiado, avisado, enabled, clnt, rpc_mutex,
                       proceso>>
        /\ senales < MaxSignals /\ senales' = senales + 1
        /\ \E t \in Thread, h \in {"exit", "lock"} : manejador' = [manejador EXCEPT ![t] = h]
    BY <1>6 DEF Sigint, socketVars, handVars, logVars
  <2>2. senales' \in 0..MaxSignals
    BY <2>1, ProcessAssumption
  <2> QED
    BY <2>1, <2>2
<1>7. ASSUME NEW t \in Thread, HandlerStep(t) PROVE RestTypes'
  BY <1>7 DEF HandlerStep, HandlerLocks, HandlerDestroys, HandlerExits, socketVars, handVars,
              logVars, signalVars
<1>8. CASE UNCHANGED processVars
  BY <1>8 DEF processVars, socketVars, handVars, logVars, signalVars
<1> QED
  BY <1>2, <1>3, <1>4, <1>5, <1>6, <1>7, <1>8 DEF ProcessNext, MainStep

(* Every variable has its type; the connections that the threads have are  *)
(* ones that main accepted.                                                *)
THEOREM ProcessTypes == ProcessSpec => []ProcessTypeOK
<1>1. ProcessInit => RestTypes
  BY InitRestTypes
<1>2. SocketInv /\ RestTypes => ProcessTypeOK
  <2> SUFFICES ASSUME SocketInv, RestTypes PROVE ProcessTypeOK
    OBVIOUS
  <2>1. aceptadas \in 0..MaxConnections
    BY ProcessAssumption DEF SocketInv, SocketTypes, RestTypes
  <2>2. WorkerSteps = {"idle", "lock_sd", "read", "blocked", "log", "rpc_lock", "rpc", "perror",
                       "return"}
    BY DEF WorkerSteps, Answered
  <2> QED
    BY <2>1, <2>2 DEF SocketInv, SocketTypes, RestTypes, ProcessTypeOK
<1> QED
  BY <1>1, <1>2, SocketsInvariant, RestTypesNext, PTL DEF ProcessSpec

-----------------------------------------------------------------------------
(* Who waits for whom. *)

MainWakes ==
  main.pc = "waiting" =>
    IF sd_copiado = 0 THEN \E t \in Worker : hilo[t].pc = "lock_sd" ELSE avisado

(* rpc_mutex excludes the calls and the handlers' log_rpc_destroy. *)
Holds(t) == manejador[t] = "destroy" \/ (t \in Worker /\ hilo[t].pc = "rpc")
MutexInv ==
  /\ \A t \in Thread : Holds(t) <=> rpc_mutex = t
  /\ \A t \in Worker : manejador[t] = "destroy" => hilo[t].pc # "rpc"

(* The main thread gets the first signal. *)
SignalInv ==
  /\ senales = 0 => \A t \in Thread : manejador[t] = "none"
  /\ senales <= 1 => \A t \in Worker : manejador[t] = "none"

WaitInv == SocketInv /\ RestTypes /\ MainWakes /\ MutexInv /\ SignalInv

(* What the steps of a thread do to the places of all. *)
LEMMA OthersStay ==
  ASSUME SocketInv, NEW t \in Worker, ThreadStep(t)
  PROVE  \A s \in Worker \ {t} : hilo'[s] = hilo[s]
<1>1. DOMAIN hilo = Worker
  BY DEF SocketInv, SocketTypes
<1> QED
  BY <1>1 DEF ThreadStep, Copy, ReadBlocks, ReadFails, Handle, AnswerKills, UnknownOp, TestLog,
              LockRpc, CallRpc, CallKills, PrintError, UsesNull, Return, Goto, End

LEMMA MainWakesNext == WaitInv /\ [ProcessNext]_processVars => MainWakes'
<1> SUFFICES ASSUME WaitInv, [ProcessNext]_processVars PROVE MainWakes'
  OBVIOUS
<1>1. DOMAIN hilo = Worker /\ \A t \in Worker : DOMAIN hilo[t] = {"pc", "s_local", "op"}
  BY DEF WaitInv, SocketInv, SocketTypes
<1>2. DOMAIN main = {"pc", "sd_conec"}
  BY DEF WaitInv, SocketInv, SocketTypes
<1>3. CASE Accept \/ CreateFails
  BY <1>3 DEF Accept, CreateFails, InAccept, MainWakes
<1>4. CASE HandOver
  <2> DEFINE t == CHOOSE t \in Worker : hilo[t].pc = "idle"
  <2>1. t \in Worker /\ hilo' = [hilo EXCEPT ![t].pc = "lock_sd"] /\ sd_copiado' = 0
    BY <1>4 DEF HandOver
  <2> HIDE DEF t
  <2>2. hilo'[t].pc = "lock_sd"
    BY <1>1, <2>1
  <2> QED
    BY <2>1, <2>2 DEF MainWakes
<1>5. CASE Wake
  BY <1>5 DEF WaitInv, Wake, MainOnly, MainWakes, InAccept
<1>6. ASSUME NEW t \in Worker, Copy(t) PROVE MainWakes'
  <2>1. sd_copiado' # 0
    BY <1>6 DEF Copy
  <2>2. main'.pc = "waiting" => avisado'
    BY <1>6, Zenon DEF Copy
  <2> QED
    BY <2>1, <2>2 DEF MainWakes
<1>7. ASSUME NEW t \in Worker, ThreadStep(t), ~Copy(t) PROVE MainWakes'
  <2>1. UNCHANGED handVars /\ (hilo[t].pc = "lock_sd" => FALSE)
    BY <1>7 DEF ThreadStep, ReadBlocks, ReadFails, Handle, AnswerKills, UnknownOp, TestLog,
                LockRpc, CallRpc, CallKills, PrintError, UsesNull, Return, At
  <2>2. \A s \in Worker \ {t} : hilo'[s] = hilo[s]
    BY <1>7, OthersStay DEF WaitInv
  <2> QED
    BY <2>1, <2>2 DEF WaitInv, MainWakes, handVars
<1>8. CASE Sigint \/ (\E t \in Thread : HandlerStep(t)) \/ UNCHANGED processVars
  <2>1. UNCHANGED <<handVars, hilo>>
    BY <1>8 DEF Sigint, HandlerStep, HandlerLocks, HandlerDestroys, HandlerExits, processVars
  <2> QED
    BY <2>1 DEF WaitInv, MainWakes, handVars
<1> QED
  BY <1>3, <1>4, <1>5, <1>6, <1>7, <1>8 DEF ProcessNext, MainStep, ThreadStep

LEMMA MutexNext == WaitInv /\ [ProcessNext]_processVars => MutexInv'
<1> SUFFICES ASSUME WaitInv, [ProcessNext]_processVars PROVE MutexInv'
  OBVIOUS
<1>1. /\ DOMAIN hilo = Worker /\ \A t \in Worker : DOMAIN hilo[t] = {"pc", "s_local", "op"}
      /\ DOMAIN manejador = Thread
  BY DEF WaitInv, SocketInv, SocketTypes, RestTypes
<1>2. None \notin Thread /\ Worker \subseteq Thread
  BY ProcessAssumption DEF Thread
<1>3. ASSUME UNCHANGED <<rpc_mutex, manejador>>,
             \A s \in Worker : hilo'[s].pc = "rpc" <=> hilo[s].pc = "rpc"
      PROVE  MutexInv'
  BY <1>3 DEF WaitInv, MutexInv, Holds
<1>4. CASE MainStep
  <2>1. UNCHANGED <<rpc_mutex, manejador>>
    BY <1>4 DEF MainStep, Accept, HandOver, CreateFails, Wake, MainOnly, logVars, signalVars
  <2>2. CASE HandOver
    <3> DEFINE t == CHOOSE t \in Worker : hilo[t].pc = "idle"
    <3>1. t \in Worker /\ hilo[t].pc = "idle" /\ hilo' = [hilo EXCEPT ![t].pc = "lock_sd"]
      BY <2>2 DEF HandOver
    <3> HIDE DEF t
    <3>2. \A s \in Worker : hilo'[s].pc = IF s = t THEN "lock_sd" ELSE hilo[s].pc
      BY <1>1, <3>1
    <3> QED
      BY <1>3, <2>1, <3>1, <3>2
  <2>3. CASE UNCHANGED hilo
    BY <1>3, <2>1, <2>3
  <2> QED
    BY <1>4, <2>2, <2>3 DEF MainStep, Accept, CreateFails, Wake, MainOnly
<1>5. ASSUME NEW t \in Worker, ThreadStep(t) PROVE MutexInv'
  <2>1. UNCHANGED manejador /\ \A s \in Worker \ {t} : hilo'[s] = hilo[s]
    BY <1>5, OthersStay DEF WaitInv, ThreadStep, Copy, ReadBlocks, ReadFails, Handle, AnswerKills,
       UnknownOp, TestLog, LockRpc, CallRpc, CallKills, PrintError, UsesNull, Return, signalVars
  <2>2. CASE LockRpc(t)
    <3>1. rpc_mutex = None /\ rpc_mutex' = t /\ hilo'[t].pc = "rpc"
      BY <1>1, <2>2 DEF LockRpc, Goto
    <3> QED
      BY <1>2, <2>1, <3>1 DEF WaitInv, MutexInv, Holds
  <2>3. CASE CallRpc(t)
    <3>1. /\ hilo[t].pc = "rpc" /\ manejador[t] = "none"
          /\ rpc_mutex' = None /\ hilo'[t].pc # "rpc"
      BY <1>1, <2>3 DEF CallRpc, At, Runs, Goto
    <3>2. rpc_mutex = t
      BY <1>2, <3>1 DEF WaitInv, MutexInv, Holds
    <3> QED
      BY <1>2, <2>1, <3>1, <3>2 DEF WaitInv, MutexInv, Holds
  <2>4. CASE UsesNull(t) \/ AnswerKills(t) \/ CallKills(t)
    BY <1>3, <2>4 DEF UsesNull, AnswerKills, CallKills, logVars, signalVars
  <2>5. CASE Copy(t) \/ ReadFails(t) \/ Handle(t) \/ UnknownOp(t) \/ Return(t)
    <3>1. UNCHANGED rpc_mutex /\ hilo[t].pc # "rpc"
      BY <2>5 DEF Copy, ReadFails, Handle, UnknownOp, Return, At, logVars
    <3>2. CASE Copy(t)
      BY <1>1, <1>3, <2>1, <3>1, <3>2 DEF Copy
    <3>3. CASE Handle(t)
      <4>1. PICK op \in {"SEND", "SENDATTACH"} :
              hilo' = [hilo EXCEPT ![t] = [@ EXCEPT !.pc = IF parte = 1 THEN "return" ELSE "log",
                                                    !.op = op]]
        BY <3>3 DEF Handle
      <4>2. hilo'[t].pc = IF parte = 1 THEN "return" ELSE "log"
        BY <1>1, <4>1
      <4> QED
        BY <1>3, <2>1, <3>1, <4>2
    <3>4. CASE End(t)
      <4>1. hilo'[t].pc = "idle"
        BY <1>1, <3>4 DEF End, IdleThread
      <4> QED
        BY <1>3, <2>1, <3>1, <4>1
    <3> QED
      BY <2>5, <3>2, <3>3, <3>4 DEF ReadFails, UnknownOp, Return
  <2>6. CASE ReadBlocks(t) \/ TestLog(t) \/ PrintError(t)
    <3>1. UNCHANGED rpc_mutex /\ hilo[t].pc # "rpc"
      BY <2>6 DEF ReadBlocks, TestLog, PrintError, At, logVars
    <3>2. hilo'[t].pc # "rpc"
      BY <1>1, <2>6 DEF ReadBlocks, TestLog, PrintError, Goto
    <3> QED
      BY <1>3, <2>1, <3>1, <3>2
  <2> QED
    BY <1>5, <2>2, <2>3, <2>4, <2>5, <2>6 DEF ThreadStep
<1>6. CASE Sigint
  <2>1. PICK t \in Thread, h \in {"exit", "lock"} :
          manejador[t] = "none" /\ manejador' = [manejador EXCEPT ![t] = h]
    BY <1>6 DEF Sigint
  <2>2. UNCHANGED <<hilo, rpc_mutex>>
    BY <1>6 DEF Sigint, logVars
  <2> QED
    BY <1>1, <2>1, <2>2 DEF WaitInv, MutexInv, Holds
<1>7. ASSUME NEW t \in Thread, HandlerStep(t) PROVE MutexInv'
  <2>1. UNCHANGED hilo
    BY <1>7 DEF HandlerStep, HandlerLocks, HandlerDestroys, HandlerExits
  <2>2. CASE HandlerLocks(t)
    <3>1. rpc_mutex = None /\ rpc_mutex' = t /\ manejador' = [manejador EXCEPT ![t] = "destroy"]
      BY <2>2 DEF HandlerLocks
    <3> QED
      BY <1>1, <1>2, <2>1, <3>1 DEF WaitInv, MutexInv, Holds
  <2>3. CASE HandlerDestroys(t)
    <3>1. /\ manejador[t] = "destroy" /\ manejador' = [manejador EXCEPT ![t] = "exit"]
          /\ rpc_mutex' = None
      BY <2>3 DEF HandlerDestroys
    <3>2. rpc_mutex = t
      BY <3>1 DEF WaitInv, MutexInv, Holds
    <3> QED
      BY <1>1, <1>2, <2>1, <3>1, <3>2 DEF WaitInv, MutexInv, Holds
  <2>4. CASE HandlerExits(t)
    BY <1>3, <2>4 DEF HandlerExits, logVars, signalVars
  <2> QED
    BY <1>7, <2>2, <2>3, <2>4 DEF HandlerStep
<1>8. CASE UNCHANGED processVars
  BY <1>3, <1>8 DEF processVars, logVars, signalVars
<1> QED
  BY <1>4, <1>5, <1>6, <1>7, <1>8 DEF ProcessNext

LEMMA SignalNext == WaitInv /\ [ProcessNext]_processVars => SignalInv'
<1> SUFFICES ASSUME WaitInv, [ProcessNext]_processVars PROVE SignalInv'
  OBVIOUS
<1>1. DOMAIN manejador = Thread /\ Main \notin Worker /\ senales \in Nat
  BY ProcessAssumption DEF WaitInv, RestTypes
<1>2. CASE UNCHANGED <<senales, manejador>>
  BY <1>2 DEF WaitInv, SignalInv
<1>3. CASE Sigint
  <2>1. PICK t \in Thread, h \in {"exit", "lock"} :
          /\ t # Main => manejador[Main] # "none"
          /\ manejador' = [manejador EXCEPT ![t] = h]
    BY <1>3 DEF Sigint
  <2>2. senales' = senales + 1
    BY <1>3 DEF Sigint
  <2>3. CASE senales = 0
    <3>1. t = Main
      BY <2>1, <2>3 DEF WaitInv, SignalInv, Thread
    <3>2. \A s \in Worker : manejador'[s] = manejador[s]
      BY <1>1, <2>1, <3>1 DEF Thread
    <3>3. senales' = 1
      BY <2>2, <2>3
    <3> QED
      BY <2>3, <3>2, <3>3 DEF WaitInv, SignalInv
  <2>4. CASE senales # 0
    <3>1. senales' # 0 /\ ~(senales' <= 1)
      BY <1>1, <2>2, <2>4
    <3> QED
      BY <3>1 DEF SignalInv
  <2> QED
    BY <2>3, <2>4
<1>4. ASSUME NEW t \in Thread, HandlerStep(t) PROVE SignalInv'
  <2>1. /\ senales' = senales /\ manejador[t] # "none"
        /\ \A s \in Thread \ {t} : manejador'[s] = manejador[s]
    BY <1>1, <1>4 DEF HandlerStep, HandlerLocks, HandlerDestroys, HandlerExits, signalVars
  <2>2. senales # 0 /\ (senales <= 1 => t \notin Worker)
    BY <2>1 DEF WaitInv, SignalInv
  <2> QED
    BY <2>1, <2>2 DEF WaitInv, SignalInv, Thread
<1>5. ASSUME MainStep \/ (\E t \in Worker : ThreadStep(t)) \/ UNCHANGED processVars
      PROVE  UNCHANGED <<senales, manejador>>
  BY <1>5 DEF MainStep, Accept, HandOver, CreateFails, Wake, MainOnly, ThreadStep, Copy,
     ReadBlocks, ReadFails, Handle, AnswerKills, UnknownOp, TestLog, LockRpc, CallRpc, CallKills,
     PrintError, UsesNull, Return, processVars, signalVars
<1> QED
  BY <1>2, <1>3, <1>4, <1>5 DEF ProcessNext

LEMMA WaitInvariant == ProcessSpec => []WaitInv
<1>1. ProcessInit => RestTypes
  BY InitRestTypes
<1>2. ProcessInit => MainWakes /\ MutexInv /\ SignalInv
  BY ProcessAssumption
  DEF ProcessInit, InAccept, IdleThread, MainWakes, MutexInv, Holds, SignalInv, Thread
<1>3. WaitInv /\ [ProcessNext]_processVars => WaitInv'
  BY NextSockets, RestTypesNext, MainWakesNext, MutexNext, SignalNext DEF WaitInv
<1> QED
  BY <1>1, <1>2, <1>3, InitSockets, PTL DEF ProcessSpec, WaitInv

(* The wake-up of main is never lost, and until a second SIGINT comes      *)
(* nobody waits for rpc_mutex but for a thread that will give it back.     *)
THEOREM WaitsEnd == ProcessSpec => []NobodyWaitsInVain
<1>1. WaitInv => NobodyWaitsInVain
  <2> SUFFICES ASSUME WaitInv, rpc_mutex # None, senales <= 1
               PROVE  \/ manejador[rpc_mutex] = "destroy"
                      \/ /\ rpc_mutex \in Worker /\ hilo[rpc_mutex].pc = "rpc"
                         /\ manejador[rpc_mutex] = "none"
    BY DEF NobodyWaitsInVain, WaitInv, MainWakes
  <2>1. rpc_mutex \in Thread /\ Holds(rpc_mutex)
    BY DEF WaitInv, RestTypes, MutexInv
  <2> QED
    BY <2>1 DEF WaitInv, Holds, SignalInv
<1> QED
  BY <1>1, WaitInvariant, PTL

=============================================================================
