------------------------------ MODULE Storage -------------------------------
(***************************************************************************)
(* server/src/c_files/database.c, one system call at a time.  The files of *)
(* parte1 and parte2 have the same statements, but for the file name in a  *)
(* message and the format of what db_get_connected_users returns.          *)
(*                                                                         *)
(* disk is the directory database/: its domain is the set of files that    *)
(* exist, each a function from slots to lines or messages.  A thread's     *)
(* call goes through lock, the opens, the copy line by line, unlink,       *)
(* rename and unlock.  All calls hold db_mutex, so only a crash can come   *)
(* between two system calls of one; the files a call has not finished are  *)
(* then what the next start of the server finds.  A read loop that writes  *)
(* nothing is one step.  Failing names the opens that may fail; reads and  *)
(* writes of an open file do not fail.                                     *)
(***************************************************************************)
EXTENDS Protocol

CONSTANTS
  Failing,   \* opens that may fail, a subset of Opens
  MaxCalls   \* bound: calls in all

VARIABLES
  disk,      \* the files
  db_mutex,  \* the thread that holds it, or None
  call,      \* [Worker -> what the thread is doing]
  antes,     \* history: the files when db_mutex was last taken or released
  llamadas,  \* number of calls so far
  caidas     \* number of crashes so far

storageVars == <<disk, db_mutex, call, antes, llamadas, caidas>>

(* Each open of the file, named by the function and what it is for. *)
Opens == {"register_read", "register_append", "unregister_read", "unregister_temp",
          "connect_read", "connect_temp", "disconnect_read", "disconnect_temp",
          "prepare_read", "prepare_temp", "store_append", "delete_read",
          "delete_temp", "pending_read", "users_read", "info_read"}

ASSUME StorageAssumption ==
  Failing \subseteq Opens /\ MaxCalls \in Nat /\ IsFiniteSet(Registered)

DB_USERS_FILE == <<"usuarios", None>>
DB_TEMP_FILE  == <<"temp_usuarios", None>>
msg_file(u)   == <<"mensajes", u>>
temp_file(u)  == <<"temp_mensajes", u>>

UserLine == [name : User, connected : {0, 1}, addr : Addr \cup {NoAddr}, last_id : 0..MaxId]

(* The line that db_register writes. *)
Fresh(u) == [name |-> u, connected |-> 0, addr |-> NoAddr, last_id |-> 0]

(* The line that a former run of the server left. *)
FormerLine(u) ==
  IF \E c \in Client : Session[c].user = u
  THEN [Fresh(u) EXCEPT !.connected = 1,
                        !.addr = SessionAddr(CHOOSE c \in Client : Session[c].user = u)]
  ELSE Fresh(u)

Idle == [pc |-> "idle", op |-> None, user |-> None, dest |-> None, addr |-> NoAddr,
         msg |-> None, id |-> 0, res |-> 0, rest |-> EmptyFile, open |-> FALSE]

StorageInit ==
  /\ \E order \in [1..Cardinality(Registered) -> Registered] :
       /\ IsInjective(order)
       /\ disk = [n \in {DB_USERS_FILE} |-> [i \in DOMAIN order |-> FormerLine(order[i])]]
  /\ db_mutex = None
  /\ call = [t \in Worker |-> Idle]
  /\ antes = disk
  /\ llamadas = 0
  /\ caidas = 0

-----------------------------------------------------------------------------
(* What a call works on. *)

At(t, pc) == call[t].pc = pc
Op(t)     == call[t].op

Original(t)  == IF Op(t) \in {"store", "delete", "pending"}
                THEN msg_file(call[t].user) ELSE DB_USERS_FILE
Temporary(t) == IF Op(t) = "delete" THEN temp_file(call[t].user) ELSE DB_TEMP_FILE

Content(n) == IF n \in DOMAIN disk THEN disk[n] ELSE EmptyFile
Put(n, f)  == [m \in DOMAIN disk \cup {n} |-> IF m = n THEN f ELSE disk[m]]
Named(f, u) == \E i \in DOMAIN f : f[i].name = u

(* Does the open succeed? The file has to exist unless it is created. *)
Opened(site, n) == {n \in DOMAIN disk} \cup (IF site \in Failing THEN {FALSE} ELSE {})
Created(site)   == {TRUE} \cup (IF site \in Failing THEN {FALSE} ELSE {})

(* The record that the copy loop writes for record r, if any. *)
Copied(c, r) ==
  CASE c.op = "unregister" -> IF r.name = c.user THEN {} ELSE {r}
    [] c.op = "connect" ->
         {IF r.name = c.user /\ r.connected = 0
          THEN [r EXCEPT !.connected = 1, !.addr = c.addr] ELSE r}
    [] c.op = "disconnect" ->
         {IF r.name = c.user THEN [r EXCEPT !.connected = 0, !.addr = NoAddr] ELSE r}
    [] c.op = "prepare" ->
         {IF r.name = c.user THEN [r EXCEPT !.last_id = NextId(@)] ELSE r}
    [] c.op = "delete" -> IF r.id = c.id THEN {} ELSE {r}

(* found or status after record r. *)
Status(c, r) ==
  IF c.op \in {"prepare", "delete"} \/ r.name # c.user THEN c.res
  ELSE IF \/ c.op = "connect" /\ r.connected = 1
          \/ c.op = "disconnect" /\ r.connected = 0
       THEN 2 ELSE 0

-----------------------------------------------------------------------------
(* The steps of a call. *)

Goto(t, pc)  == call' = [call EXCEPT ![t].pc = pc]

(* A return before the end of the function.  Each has an unlock of its own *)
(* in the code, right before it; here they all go to the step Unlock.      *)
Leave(t, res) == call' = [call EXCEPT ![t].pc = "unlock", ![t].res = res]
OnlyCall     == UNCHANGED <<disk, db_mutex, antes, llamadas, caidas>>

(* A thread calls one of the functions, whose first line locks db_mutex.   *)
(* Which one, and its arguments, matter from then on and are chosen there. *)
Call(t) ==
  /\ At(t, "idle")
  /\ llamadas < MaxCalls
  /\ llamadas' = llamadas + 1
  /\ Goto(t, "lock")
  /\ UNCHANGED <<disk, db_mutex, antes, caidas>>

Begin(op, u) == [Idle EXCEPT !.pc = IF op = "store" THEN "append" ELSE "open",
                             !.op = op, !.user = u]

Lock(t) ==
  /\ At(t, "lock")
  /\ db_mutex = None
  /\ db_mutex' = t
  /\ \E u \in User :
       \/ \E op \in {"register", "unregister", "disconnect", "pending", "users", "info"} :
            call' = [call EXCEPT ![t] = Begin(op, u)]
       \/ \E a \in Addr : call' = [call EXCEPT ![t] = [Begin("connect", u) EXCEPT !.addr = a]]
       \/ \E v \in User : call' = [call EXCEPT ![t] = [Begin("prepare", u) EXCEPT !.dest = v]]
       \/ \E n \in 1..MaxId : call' = [call EXCEPT ![t] = [Begin("delete", u) EXCEPT !.id = n]]
       \/ \E v \in User, n \in 1..MaxId, m \in Message :
            call' = [call EXCEPT ![t] = [Begin("store", u) EXCEPT
                       !.msg = [sender |-> v, id |-> n, message |-> m, fileName |-> FALSE]]]
  /\ antes' = disk
  /\ UNCHANGED <<disk, llamadas, caidas>>

(* A variant with a bug that nothing uses, as in Database: the mutex is    *)
(* released between the look for the name and the append.                  *)
RegisterLooks_Unlocks(t) ==
  /\ At(t, "open") /\ Op(t) = "register"
  /\ \E ok \in Opened("register_read", DB_USERS_FILE) :
       IF ok /\ Named(Content(DB_USERS_FILE), call[t].user)
       THEN Leave(t, 1) /\ UNCHANGED db_mutex
       ELSE Goto(t, "append") /\ db_mutex' = None
  /\ UNCHANGED <<disk, antes, llamadas, caidas>>

(* A variant: the return for a name that is taken forgets the mutex. *)
RegisterLooks_KeepsMutex(t) ==
  /\ At(t, "open") /\ Op(t) = "register"
  /\ \E ok \in Opened("register_read", DB_USERS_FILE) :
       IF ok /\ Named(Content(DB_USERS_FILE), call[t].user)
       THEN call' = [call EXCEPT ![t] = Idle]
       ELSE Goto(t, "append")
  /\ OnlyCall

(* When the file cannot be read it is taken for one without the user. *)
RegisterLooks(t) ==
  /\ At(t, "open") /\ Op(t) = "register"
  /\ \E ok \in Opened("register_read", DB_USERS_FILE) :
       IF ok /\ Named(Content(DB_USERS_FILE), call[t].user)
       THEN Leave(t, 1)
       ELSE Goto(t, "append")
  /\ OnlyCall

(* db_register and db_store_message: open with O_APPEND | O_CREAT, write. *)
AppendRecord(t) ==
  /\ At(t, "append")
  /\ \E ok \in Created(IF Op(t) = "store" THEN "store_append" ELSE "register_append") :
       \/ ~ok /\ Leave(t, 2) /\ UNCHANGED disk
       \/ /\ ok
          /\ disk' = Put(Original(t),
                         Appended(Content(Original(t)),
                                  IF Op(t) = "store" THEN call[t].msg ELSE Fresh(call[t].user)))
          /\ Leave(t, 0)
  /\ UNCHANGED <<db_mutex, antes, llamadas, caidas>>

(* The functions that only read. *)
Reads(t) ==
  /\ At(t, "open") /\ Op(t) \in {"pending", "users", "info"}
  /\ \E ok \in Opened(IF Op(t) = "pending" THEN "pending_read"
                      ELSE IF Op(t) = "users" THEN "users_read" ELSE "info_read", Original(t)) :
       LET f == IF ok THEN Content(Original(t)) ELSE EmptyFile
           mine == {i \in DOMAIN f : Op(t) # "pending" /\ f[i].name = call[t].user}
       IN  call' = [call EXCEPT ![t].pc = "unlock", ![t].rest = f,
              ![t].res = CASE Op(t) = "pending" -> 0
                           [] Op(t) = "info" -> IF mine = {} THEN -1 ELSE 0
                           [] Op(t) = "users" -> IF mine = {} THEN 2
                                                 ELSE 1 - f[Max(mine)].connected]
  /\ OnlyCall

(* The functions that rewrite a file open it; db_prepare_message reads it  *)
(* through once and comes back when both users are there.                  *)
OpenOriginal(t) ==
  /\ At(t, "open") /\ Op(t) \in {"unregister", "connect", "disconnect", "prepare", "delete"}
  /\ \E ok \in Opened(CASE Op(t) = "unregister" -> "unregister_read"
                        [] Op(t) = "connect" -> "connect_read"
                        [] Op(t) = "disconnect" -> "disconnect_read"
                        [] Op(t) = "prepare" -> "prepare_read"
                        [] Op(t) = "delete" -> "delete_read", Original(t)) :
       LET f == Content(Original(t))
       IN  \/ ~ok /\ Leave(t, CASE Op(t) = "prepare" -> 2 [] Op(t) = "delete" -> 0 [] OTHER -> 1)
           \/ /\ ok /\ Op(t) = "prepare"
              /\ ~(Named(f, call[t].user) /\ Named(f, call[t].dest))
              /\ Leave(t, 1)
           \/ /\ ok
              /\ Op(t) = "prepare" => Named(f, call[t].user) /\ Named(f, call[t].dest)
              /\ call' = [call EXCEPT ![t].pc = "temp", ![t].rest = f,
                            ![t].res = IF Op(t) \in {"prepare", "delete"} THEN 0 ELSE 1]
  /\ OnlyCall

(* A variant: without O_TRUNC the copy is added to what the file had. *)
OpenTemporary_Appends(t) ==
  /\ At(t, "temp")
  /\ disk' = Put(Temporary(t), Content(Temporary(t)))
  /\ call' = [call EXCEPT ![t].pc = "copy", ![t].open = TRUE]
  /\ UNCHANGED <<db_mutex, antes, llamadas, caidas>>

(* open with O_TRUNC | O_CREAT.  db_prepare_message and db_delete_message  *)
(* go on with no temporary file when it fails.                             *)
OpenTemporary(t) ==
  /\ At(t, "temp")
  /\ \E ok \in Created(CASE Op(t) = "unregister" -> "unregister_temp"
                         [] Op(t) = "connect" -> "connect_temp"
                         [] Op(t) = "disconnect" -> "disconnect_temp"
                         [] Op(t) = "prepare" -> "prepare_temp"
                         [] Op(t) = "delete" -> "delete_temp") :
       \/ /\ ok \/ Op(t) \in {"prepare", "delete"}
          /\ disk' = IF ok THEN Put(Temporary(t), EmptyFile) ELSE disk
          /\ call' = [call EXCEPT ![t].pc = "copy", ![t].open = ok]
       \/ /\ ~ok /\ Op(t) \notin {"prepare", "delete"}
          /\ Leave(t, IF Op(t) = "unregister" THEN 2 ELSE 3)
          /\ UNCHANGED disk
  /\ UNCHANGED <<db_mutex, antes, llamadas, caidas>>

(* One turn of the copy loop: a line is read, perhaps changed, written. *)
CopyRecord(t) ==
  /\ At(t, "copy")
  /\ DOMAIN call[t].rest # {}
  /\ LET i == First(call[t].rest)
         r == call[t].rest[i]
     IN  /\ disk' = IF ~call[t].open \/ Copied(call[t], r) = {} THEN disk
                    ELSE Put(Temporary(t),
                             [j \in DOMAIN Content(Temporary(t)) \cup {i} |->
                                IF j = i THEN CHOOSE x \in Copied(call[t], r) : TRUE
                                ELSE Content(Temporary(t))[j]])
         /\ call' = [call EXCEPT ![t].res = Status(call[t], r),
                       ![t].rest = Restrict(@, DOMAIN @ \ {i})]
  /\ UNCHANGED <<db_mutex, antes, llamadas, caidas>>

Unlink(n) == disk' = Restrict(disk, DOMAIN disk \ {n})

(* A variant: the loop is left one line early. *)
UnlinkOriginal_Early(t) ==
  /\ At(t, "copy") /\ Cardinality(DOMAIN call[t].rest) <= 1
  /\ call[t].res = 0
  /\ Unlink(Original(t))
  /\ Goto(t, "rename")
  /\ UNCHANGED <<db_mutex, antes, llamadas, caidas>>

UnlinkOriginal(t) ==
  /\ At(t, "copy") /\ DOMAIN call[t].rest = {}
  /\ call[t].res = 0
  /\ Unlink(Original(t))
  /\ Goto(t, "rename")
  /\ UNCHANGED <<db_mutex, antes, llamadas, caidas>>

(* Nothing was changed: the copy goes. *)
UnlinkTemporary(t) ==
  /\ At(t, "copy") /\ DOMAIN call[t].rest = {}
  /\ call[t].res # 0
  /\ Unlink(Temporary(t))
  /\ Goto(t, "unlock")
  /\ UNCHANGED <<db_mutex, antes, llamadas, caidas>>

Rename(t) ==
  /\ At(t, "rename")
  /\ disk' = IF Temporary(t) \notin DOMAIN disk THEN disk
             ELSE Restrict(Put(Original(t), disk[Temporary(t)]),
                           (DOMAIN disk \cup {Original(t)}) \ {Temporary(t)})
  /\ Goto(t, IF Op(t) = "unregister" THEN "unlink_msgs" ELSE "unlock")
  /\ UNCHANGED <<db_mutex, antes, llamadas, caidas>>

UnlinkMessages(t) ==
  /\ At(t, "unlink_msgs")
  /\ Unlink(msg_file(call[t].user))
  /\ Goto(t, "unlock")
  /\ UNCHANGED <<db_mutex, antes, llamadas, caidas>>

Unlock(t) ==
  /\ At(t, "unlock")
  /\ db_mutex' = None
  /\ call' = [call EXCEPT ![t] = Idle]
  /\ antes' = disk
  /\ UNCHANGED <<disk, llamadas, caidas>>

(* The process ends and is started again: db_init creates usuarios.txt     *)
(* when there is none, and looks at no temporary file.                     *)
Crash ==
  /\ caidas < MaxCrashes
  /\ caidas' = caidas + 1
  /\ call' = [t \in Worker |-> Idle]
  /\ db_mutex' = None
  /\ disk' = Put(DB_USERS_FILE, Content(DB_USERS_FILE))
  /\ antes' = disk'
  /\ UNCHANGED llamadas

Continue(t) ==
  \/ Lock(t)
  \/ RegisterLooks(t) \/ Reads(t) \/ OpenOriginal(t)
  \/ AppendRecord(t)
  \/ OpenTemporary(t) \/ CopyRecord(t)
  \/ UnlinkOriginal(t) \/ UnlinkTemporary(t) \/ Rename(t) \/ UnlinkMessages(t)
  \/ Unlock(t)

StorageNext == (\E t \in Worker : Call(t) \/ Continue(t)) \/ Crash

StorageSpec == StorageInit /\ [][StorageNext]_storageVars

(* The kernel runs every thread that can go on.  Calls are finitely many   *)
(* here, so one that waits for the mutex finds it free for good.           *)
StorageFairness == \A t \in Worker : WF_storageVars(Continue(t))

StorageFairSpec == StorageSpec /\ StorageFairness

-----------------------------------------------------------------------------
(* The functions as Database has them, one step each, at the unlock. *)

Seen == IF db_mutex = None THEN disk ELSE antes

SeenFile(n) == IF n \in DOMAIN Seen THEN Seen[n] ELSE EmptyFile

LineOf(f, u) ==
  LET r == f[CHOOSE i \in DOMAIN f : f[i].name = u]
  IN  [connected |-> r.connected, addr |-> r.addr, last_id |-> r.last_id]

SeenUsuarios ==
  LET f == SeenFile(DB_USERS_FILE)
  IN  [u \in {f[i].name : i \in DOMAIN f} |-> LineOf(f, u)]

SeenMensajes == [u \in User |-> SeenFile(msg_file(u))]

Calls == INSTANCE Database WITH usuarios <- SeenUsuarios, mensajes <- SeenMensajes

(* The function of Database that thread t's call is. *)
Effect(t) ==
  LET c == call[t]
  IN  \/ c.op = "register" /\ Calls!db_register(c.user, c.res)
      \/ c.op = "unregister" /\ Calls!db_unregister(c.user, c.res)
      \/ c.op = "connect" /\ Calls!db_connect(c.user, c.addr, c.res)
      \/ c.op = "disconnect" /\ Calls!db_disconnect(c.user, c.res)
      \/ c.op = "prepare" /\ Calls!db_prepare_message(c.user, c.dest, c.res)
      \/ c.op = "store" /\ Calls!db_store_message(c.user, c.msg, c.res)
      \/ c.op = "delete" /\ Calls!db_delete_message(c.user, c.id)
      \/ c.op = "pending" /\ Calls!db_get_pending_messages(c.user, c.rest)
      \/ c.op = "info" /\ Calls!get_user_info(c.user, c.res)
      \/ /\ c.op = "users"
         /\ LET here == {i \in DOMAIN c.rest : c.res = 0 /\ c.rest[i].connected = 1}
            IN  Calls!db_get_connected_users(c.user,
                  [u \in {c.rest[i].name : i \in here} |-> LineOf(c.rest, u).addr], c.res)

(* Thread t's call returns. *)
Returns(t) == At(t, "unlock") /\ call'[t].pc = "idle" /\ caidas' = caidas

(* The functions implement Database: seen from outside db_mutex a call     *)
(* does, at its unlock, exactly what Database says, with the result it     *)
(* returns, whatever an earlier crash left behind; every other step but a  *)
(* crash changes nothing.                                                  *)
ImplementsDatabase ==
  /\ Calls!DbInit
  /\ [][/\ \A t \in Worker : Returns(t) => Effect(t)
        /\ \/ \E t \in Worker : Returns(t)
           \/ Crash
           \/ UNCHANGED <<SeenUsuarios, SeenMensajes>>]_storageVars

-----------------------------------------------------------------------------
(* Properties. *)

FileNames == {DB_USERS_FILE, DB_TEMP_FILE} \cup {msg_file(u) : u \in User}
               \cup {temp_file(u) : u \in User}

IsUsersFile(f) == DOMAIN f \subseteq Nat /\ f \in [DOMAIN f -> UserLine]

StorageTypeOK ==
  /\ DOMAIN disk \subseteq FileNames
  /\ \A n \in {DB_USERS_FILE, DB_TEMP_FILE} \cap DOMAIN disk : IsUsersFile(disk[n])
  /\ \A n \in DOMAIN disk \ {DB_USERS_FILE, DB_TEMP_FILE} : IsFile(disk[n])
  /\ db_mutex \in Worker \cup {None}
  /\ \A t \in Worker : call[t].pc \notin {"idle", "lock"} <=> db_mutex = t

(* "usuarios.txt has one line per user" (readme.md:38): no two threads     *)
(* that register one name both add a line, and no rewriting duplicates one *)
(* (as long as the first open of db_register does not fail).               *)
OneLinePerUser ==
  "register_read" \notin Failing =>
    \A n \in {DB_USERS_FILE, DB_TEMP_FILE} \cap DOMAIN disk :
      \A i, j \in DOMAIN disk[n] : disk[n][i].name = disk[n][j].name => i = j

(* While a function rewrites a file, and after a crash anywhere in it, the *)
(* file as it was, or its finished copy, is on the disk under one of the   *)
(* two names: what is lost by a crash is lost because db_init looks at one *)
(* of them only.  (Not when the temporary file could not be opened.)       *)
Finished(t) ==
  [i \in {i \in DOMAIN antes[Original(t)] : Copied(call[t], antes[Original(t)][i]) # {}} |->
     CHOOSE r \in Copied(call[t], antes[Original(t)][i]) : TRUE]

CopyOnDisk ==
  \A t \in Worker :
    (call[t].pc \in {"temp", "copy", "rename", "unlink_msgs"} /\ (At(t, "temp") \/ call[t].open)) =>
      \/ Original(t) \in DOMAIN disk /\ disk[Original(t)] \in {antes[Original(t)], Finished(t)}
      \/ Temporary(t) \in DOMAIN disk /\ disk[Temporary(t)] = Finished(t)

(* Every call returns: no loop goes on for ever, and a thread that waits   *)
(* for db_mutex gets it once the holder's call has come to its end.  All   *)
(* the ends of a call are the step Unlock here, so this is not a check of  *)
(* the unlock before each of the code's returns.                           *)
EveryCallReturns == \A t \in Worker : ~At(t, "idle") ~> At(t, "idle")

(* "Since everything is on disk, users and pending messages survive a      *)
(* server restart" (readme.md:39): who is registered before a crash and    *)
(* after it is not being removed has a line when the server is up again.   *)
UsersSurviveRestart ==
  [][caidas' # caidas =>
       \A u \in DOMAIN SeenUsuarios :
         \/ u \in DOMAIN SeenUsuarios'
         \/ \E t \in Worker : Op(t) = "unregister" /\ call[t].user = u]_storageVars

=============================================================================
