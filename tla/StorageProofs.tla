---------------------------- MODULE StorageProofs ---------------------------
(***************************************************************************)
(* The functions of database.c system call by system call, for all values  *)
(* of the constants: the files keep their types and usuarios.txt one line  *)
(* per user, a rewriting always has a full copy on the disk, and seen from *)
(* outside db_mutex the functions are those of Database.                   *)
(*                                                                         *)
(* Stage says, for each point of a call c, what the files d are in terms   *)
(* of the files a that the thread found when it took db_mutex.  Only the   *)
(* thread that has the mutex is in a stage, so a is the same for all.      *)
(***************************************************************************)
EXTENDS Storage, FileLemmas, FiniteSetTheorems

(* What a call record c works on, as Storage has it for a thread. *)
OrigOf(c) == IF c.op \in {"store", "delete", "pending"} THEN msg_file(c.user) ELSE DB_USERS_FILE
TempOf(c) == IF c.op = "delete" THEN temp_file(c.user) ELSE DB_TEMP_FILE

ContentOf(d, n) == IF n \in DOMAIN d THEN d[n] ELSE EmptyFile

(* The finished copy of the original in a, and the copy while c.rest is    *)
(* still to be read.                                                       *)
FinOf(c, a) ==
  [i \in {i \in DOMAIN a[OrigOf(c)] : Copied(c, a[OrigOf(c)][i]) # {}} |->
     CHOOSE r \in Copied(c, a[OrigOf(c)][i]) : TRUE]
Partial(c, a) == Restrict(FinOf(c, a), DOMAIN FinOf(c, a) \ DOMAIN c.rest)

-----------------------------------------------------------------------------
(* The inductive invariant. *)

UsersFiles == {DB_USERS_FILE, DB_TEMP_FILE}
Rewriters  == {"unregister", "connect", "disconnect", "prepare", "delete"}
Functions8 == Rewriters \cup {"register", "store", "pending", "users", "info"}

Bounded(f)  == \E b \in Nat : Within(f, b)
OneLine(f)  == \A i, j \in DOMAIN f : f[i].name = f[j].name => i = j
LooksFirst  == "register_read" \notin Failing

(* The types of a set of files. *)
FilesOK(d) ==
  /\ DOMAIN d \subseteq FileNames
  /\ \A n \in UsersFiles \cap DOMAIN d :
       IsUsersFile(d[n]) /\ (LooksFirst => OneLine(d[n]))
  /\ \A n \in DOMAIN d \ UsersFiles : IsFile(d[n])
  /\ \A n \in DOMAIN d : Bounded(d[n])

(* d and a have the same files but for the names in N. *)
Same(d, a, N) ==
  \A n \in FileNames \ N : /\ n \in DOMAIN d <=> n \in DOMAIN a
                           /\ n \in DOMAIN a => d[n] = a[n]

Args(c) ==
  /\ c.op \in Functions8
  /\ c.user \in User
  /\ c.op = "connect" => c.addr \in Addr
  /\ c.op = "prepare" => c.dest \in User
  /\ c.op = "store" => c.msg \in PendingMsg

(* The original is there, and db_prepare_message has found its users. *)
Found(c, a) ==
  /\ c.op \in Rewriters
  /\ OrigOf(c) \in DOMAIN a
  /\ c.op = "prepare" => Named(a[OrigOf(c)], c.user) /\ Named(a[OrigOf(c)], c.dest)

(* res after the records that are not in c.rest. *)
ResOK(c, a) ==
  LET f == a[OrigOf(c)]
      done == DOMAIN f \ DOMAIN c.rest
  IN  IF c.op \in {"prepare", "delete"} THEN c.res = 0
      ELSE /\ c.res \in {0, 1, 2}
           /\ c.res = 1 <=> \A i \in done : f[i].name # c.user
           /\ LooksFirst => \A i \in done : f[i].name = c.user => c.res = Status(c, f[i])

(* There is no temporary file only where its open is not tested. *)
OpenOK(c) ==
  c.open \/ (c.op = "prepare" /\ "prepare_temp" \in Failing)
         \/ (c.op = "delete" /\ "delete_temp" \in Failing)

(* When no copy was opened, and no crash had left one, there is none. *)
NoCopy(c, d, a) == ~c.open /\ TempOf(c) \notin DOMAIN a => TempOf(c) \notin DOMAIN d

(* The files and the result with which a call releases db_mutex. *)
Registers(c, d, a) ==
  LET f == ContentOf(a, DB_USERS_FILE)
  IN  \/ c.res = 1 /\ Named(f, c.user) /\ Same(d, a, {})
      \/ c.res = 2 /\ Failing # {} /\ Same(d, a, {})
      \/ /\ c.res = 0 /\ Same(d, a, {DB_USERS_FILE})
         /\ LooksFirst => ~Named(f, c.user)
         /\ DB_USERS_FILE \in DOMAIN d /\ d[DB_USERS_FILE] = Appended(f, Fresh(c.user))

Stores(c, d, a) ==
  \/ c.res = 2 /\ Failing # {} /\ Same(d, a, {})
  \/ /\ c.res = 0 /\ Same(d, a, {OrigOf(c)})
     /\ OrigOf(c) \in DOMAIN d
     /\ d[OrigOf(c)] = Appended(ContentOf(a, OrigOf(c)), c.msg)

HasRead(c, d, a) ==
  /\ Same(d, a, {})
  /\ c.rest = ContentOf(a, OrigOf(c)) \/ (c.rest = EmptyFile /\ Failing # {})
  /\ LET mine == {i \in DOMAIN c.rest : c.op # "pending" /\ c.rest[i].name = c.user}
     IN  c.res = CASE c.op = "pending" -> 0
                   [] c.op = "info" -> IF mine = {} THEN -1 ELSE 0
                   [] c.op = "users" -> IF mine = {} THEN 2 ELSE 1 - c.rest[Max(mine)].connected

(* The original is as it was: why. *)
Gives_Up(c, d, a) ==
  LET f == ContentOf(a, OrigOf(c))
  IN  /\ Same(d, a, {TempOf(c)})
      /\ TempOf(c) \in DOMAIN d => TempOf(c) \in DOMAIN a
      /\ CASE c.op = "prepare" ->
                \/ c.res = 1 /\ ~(Named(f, c.user) /\ Named(f, c.dest))
                \/ c.res = 2 /\ (Failing # {} \/ OrigOf(c) \notin DOMAIN a)
           [] c.op = "delete" -> c.res = 0 /\ (Failing # {} \/ OrigOf(c) \notin DOMAIN a)
           [] c.op = "unregister" ->
                (c.res = 1 /\ ~Named(f, c.user)) \/ (c.res \in {1, 2} /\ Failing # {})
           [] c.op \in {"connect", "disconnect"} ->
                \/ c.res = 1 /\ ~Named(f, c.user)
                \/ /\ c.res = 2
                   /\ LooksFirst => \E i \in DOMAIN f : /\ f[i].name = c.user
                                                        /\ Status(c, f[i]) = 2
                \/ c.res \in {1, 3} /\ Failing # {}

(* What db_unregister, db_connect and db_disconnect have found when they   *)
(* keep the copy.                                                          *)
Changes(c, a) ==
  LET f == a[OrigOf(c)]
  IN  c.op \notin {"prepare", "delete"} =>
        /\ Named(f, c.user)
        /\ LooksFirst => \E i \in DOMAIN f : f[i].name = c.user /\ Status(c, f[i]) = 0

(* The copy is the file, and with no copy there is no file. *)
Rewritten(c, d, a) ==
  /\ c.res = 0 /\ Found(c, a) /\ Changes(c, a) /\ OpenOK(c)
  /\ TempOf(c) \notin DOMAIN d
  /\ c.open => OrigOf(c) \in DOMAIN d /\ d[OrigOf(c)] = FinOf(c, a)
  /\ ~c.open /\ TempOf(c) \notin DOMAIN a => OrigOf(c) \notin DOMAIN d

Rewrites(c, d, a) ==
  /\ Rewritten(c, d, a)
  /\ IF c.op = "unregister"
     THEN /\ Same(d, a, {OrigOf(c), TempOf(c), msg_file(c.user)})
          /\ msg_file(c.user) \notin DOMAIN d
     ELSE Same(d, a, {OrigOf(c), TempOf(c)})

Final(c, d, a) ==
  \/ c.op = "register" /\ Registers(c, d, a)
  \/ c.op = "store" /\ Stores(c, d, a)
  \/ c.op \in {"pending", "users", "info"} /\ HasRead(c, d, a)
  \/ c.op \in Rewriters /\ (Gives_Up(c, d, a) \/ Rewrites(c, d, a))

(* What a call has done when it is at c.pc. *)
Stage(c, d, a) ==
  /\ Args(c)
  /\ c.pc = "open" => c.op # "store" /\ Same(d, a, {})
  /\ c.pc = "append" =>
       /\ c.op \in {"register", "store"} /\ Same(d, a, {})
       /\ c.op = "register" /\ LooksFirst => ~Named(ContentOf(a, DB_USERS_FILE), c.user)
  /\ c.pc = "temp" =>
       /\ Found(c, a) /\ Same(d, a, {})
       /\ c.rest = a[OrigOf(c)]
       /\ c.res = IF c.op \in {"prepare", "delete"} THEN 0 ELSE 1
  /\ c.pc = "copy" =>
       /\ Found(c, a) /\ Same(d, a, {TempOf(c)}) /\ OpenOK(c) /\ ResOK(c, a)
       /\ NoCopy(c, d, a)
       /\ DOMAIN c.rest \subseteq DOMAIN a[OrigOf(c)]
       /\ \A i \in DOMAIN c.rest : c.rest[i] = a[OrigOf(c)][i]
       /\ c.open => TempOf(c) \in DOMAIN d /\ d[TempOf(c)] = Partial(c, a)
  /\ c.pc = "rename" =>
       /\ Found(c, a) /\ Same(d, a, {OrigOf(c), TempOf(c)}) /\ OpenOK(c)
       /\ c.res = 0 /\ Changes(c, a) /\ NoCopy(c, d, a)
       /\ OrigOf(c) \notin DOMAIN d
       /\ c.open => TempOf(c) \in DOMAIN d /\ d[TempOf(c)] = FinOf(c, a)
  /\ c.pc = "unlink_msgs" =>
       /\ c.op = "unregister" /\ Same(d, a, {OrigOf(c), TempOf(c)})
       /\ Rewritten(c, d, a)
  /\ c.pc = "unlock" => Final(c, d, a)

Working == {"open", "append", "temp", "copy", "rename", "unlink_msgs", "unlock"}

CallsOK ==
  /\ DOMAIN call = Worker
  /\ \A t \in Worker : /\ DOMAIN call[t] = DOMAIN Idle
                       /\ call[t].pc \in Working \cup {"idle", "lock"}

Mutex ==
  /\ db_mutex \in Worker \cup {None}
  /\ \A t \in Worker : call[t].pc \in Working <=> db_mutex = t

(* Outside db_mutex usuarios.txt exists, unless a copy was not opened.     *)
HasUsers == "prepare_temp" \notin Failing => DB_USERS_FILE \in DOMAIN antes

StorageInv ==
  /\ CallsOK /\ Mutex
  /\ FilesOK(disk) /\ FilesOK(antes) /\ HasUsers
  /\ db_mutex = None => antes = disk
  /\ \A t \in Worker : call[t].pc \in Working => Stage(call[t], disk, antes)
  /\ caidas \in Nat
-----------------------------------------------------------------------------
(* Names and files. *)

(* No two of the file names in database/ are equal.                        *)
LEMMA Names ==
  /\ DB_USERS_FILE # DB_TEMP_FILE
  /\ \A u, v \in User : /\ msg_file(u) \notin UsersFiles /\ temp_file(u) \notin UsersFiles
                        /\ msg_file(u) # temp_file(v)
                        /\ msg_file(u) = msg_file(v) => u = v
  /\ UsersFiles \subseteq FileNames
  /\ \A u \in User : msg_file(u) \in FileNames /\ temp_file(u) \in FileNames
BY DEF DB_USERS_FILE, DB_TEMP_FILE, msg_file, temp_file, UsersFiles, FileNames

(* Original and copy have different names, both of the same kind.          *)
LEMMA CallNames ==
  ASSUME NEW c, Args(c)
  PROVE  /\ OrigOf(c) # TempOf(c)
         /\ OrigOf(c) \in FileNames /\ TempOf(c) \in FileNames
         /\ c.op \in Rewriters => (OrigOf(c) \in UsersFiles <=> TempOf(c) \in UsersFiles)
         /\ c.op \in Rewriters => (OrigOf(c) \in UsersFiles <=> c.op # "delete")
BY Names DEF OrigOf, TempOf, Args, UsersFiles, Rewriters

(* The arguments of a call do not change on its way.                       *)
SameArgs(b, c) == /\ b.op = c.op /\ b.user = c.user /\ b.dest = c.dest /\ b.addr = c.addr
                  /\ b.msg = c.msg /\ b.id = c.id

LEMMA ArgsStay ==
  ASSUME NEW b, NEW c, SameArgs(b, c), NEW a
  PROVE  /\ OrigOf(b) = OrigOf(c) /\ TempOf(b) = TempOf(c)
         /\ \A r : Copied(b, r) = Copied(c, r)
         /\ FinOf(b, a) = FinOf(c, a)
         /\ Args(c) => Args(b)
         /\ Found(c, a) => Found(b, a)
         /\ Changes(c, a) => Changes(b, a)
<1>1. OrigOf(b) = OrigOf(c) /\ TempOf(b) = TempOf(c)
  BY DEF SameArgs, OrigOf, TempOf
<1>2. \A r : Copied(b, r) = Copied(c, r)
  BY DEF SameArgs, Copied
<1>3. FinOf(b, a) = FinOf(c, a)
  BY <1>1, <1>2 DEF FinOf
<1>4. Args(c) => Args(b)
  BY DEF SameArgs, Args
<1>5. Found(c, a) => Found(b, a)
  BY <1>1 DEF SameArgs, Found
<1>6. \A r : r.name = c.user /\ c.op \notin {"prepare", "delete"} => Status(b, r) = Status(c, r)
  BY DEF SameArgs, Status
<1>7. Changes(c, a) => Changes(b, a)
  BY <1>1, <1>6 DEF SameArgs, Changes
<1> QED
  BY <1>1, <1>2, <1>3, <1>4, <1>5, <1>7

(* The copy of a record is at most one record, of the same kind and, in    *)
(* usuarios.txt, with the same name.                                       *)
LEMMA CopiedLine ==
  ASSUME NEW c, Args(c), c.op \in Rewriters \ {"delete"}, NEW r \in UserLine,
         Copied(c, r) # {}
  PROVE  /\ (CHOOSE x \in Copied(c, r) : TRUE) \in UserLine
         /\ (CHOOSE x \in Copied(c, r) : TRUE).name = r.name
<1> DEFINE x == CHOOSE x \in Copied(c, r) : TRUE
<1>1. x \in Copied(c, r)
  OBVIOUS
<1> SUFFICES x \in UserLine /\ x.name = r.name
  OBVIOUS
<1> HIDE DEF x
<1>2. NextId(r.last_id) \in 0..MaxId
  BY BoundAssumption DEF UserLine, NextId
<1>3. CASE c.op = "unregister"
  BY <1>1, <1>3 DEF Copied
<1>4. CASE c.op = "connect"
  BY <1>1, <1>4 DEF Copied, UserLine, Args
<1>5. CASE c.op = "disconnect"
  BY <1>1, <1>5 DEF Copied, UserLine
<1>6. CASE c.op = "prepare"
  <2>1. x = IF r.name = c.user THEN [r EXCEPT !.last_id = NextId(r.last_id)] ELSE r
    BY <1>1, <1>6 DEF Copied
  <2> QED
    BY <1>2, <2>1 DEF UserLine
<1> QED
  BY <1>3, <1>4, <1>5, <1>6 DEF Rewriters

LEMMA CopiedMessage ==
  ASSUME NEW c, c.op = "delete", NEW r
  PROVE  /\ Copied(c, r) # {} <=> r.id # c.id
         /\ Copied(c, r) # {} => (CHOOSE x \in Copied(c, r) : TRUE) = r
BY DEF Copied

(* The finished copy, and every part of it, is a file of the same kind.    *)
LEMMA CopyIsTyped ==
  ASSUME NEW c, NEW a, Args(c), FilesOK(a), Found(c, a), NEW S \in SUBSET DOMAIN FinOf(c, a)
  PROVE  LET f == Restrict(FinOf(c, a), S)
         IN  /\ Bounded(f)
             /\ OrigOf(c) \in UsersFiles => IsUsersFile(f) /\ (LooksFirst => OneLine(f))
             /\ OrigOf(c) \notin UsersFiles => IsFile(f)
<1> DEFINE o == a[OrigOf(c)]
           g == FinOf(c, a)
           f == Restrict(g, S)
<1>1. /\ DOMAIN g = {i \in DOMAIN o : Copied(c, o[i]) # {}}
      /\ \A i \in DOMAIN g : g[i] = CHOOSE r \in Copied(c, o[i]) : TRUE
  BY DEF FinOf
<1>2. DOMAIN f = S /\ (\A i \in S : f[i] = g[i]) /\ S \subseteq DOMAIN o
      /\ f = [i \in DOMAIN f |-> f[i]]
  BY <1>1 DEF Restrict
<1>3. Bounded(o)
  BY DEF FilesOK, Found
<1>4. Bounded(f)
  BY <1>2, <1>3 DEF Bounded, Within
<1>5. ASSUME OrigOf(c) \in UsersFiles PROVE IsUsersFile(f) /\ (LooksFirst => OneLine(f))
  <2>1. c.op \in Rewriters \ {"delete"}
    BY <1>5, CallNames DEF Found
  <2>2. IsUsersFile(o) /\ (LooksFirst => OneLine(o))
    BY <1>5 DEF FilesOK, Found
  <2>3. \A i \in S : f[i] \in UserLine /\ f[i].name = o[i].name
    <3> SUFFICES ASSUME NEW i \in S PROVE f[i] \in UserLine /\ f[i].name = o[i].name
      OBVIOUS
    <3>1. o[i] \in UserLine /\ Copied(c, o[i]) # {}
      BY <1>1, <1>2, <2>2 DEF IsUsersFile
    <3>2. f[i] = CHOOSE r \in Copied(c, o[i]) : TRUE
      BY <1>1, <1>2
    <3> HIDE DEF f, o, g
    <3> QED
      BY <3>1, <3>2, <2>1, CopiedLine
  <2> HIDE DEF f, o, g
  <2>4. IsUsersFile(f)
    BY <1>2, <2>2, <2>3 DEF IsUsersFile
  <2>5. LooksFirst => OneLine(f)
    BY <1>2, <2>2, <2>3 DEF OneLine
  <2> QED
    BY <2>4, <2>5
<1>6. ASSUME OrigOf(c) \notin UsersFiles PROVE IsFile(f)
  <2>1. c.op = "delete"
    BY <1>6, CallNames DEF Found
  <2>2. IsFile(o)
    BY <1>6 DEF FilesOK, Found
  <2>3. \A i \in S : f[i] = o[i]
    <3> SUFFICES ASSUME NEW i \in S PROVE f[i] = o[i]
      OBVIOUS
    <3>1. Copied(c, o[i]) # {} /\ f[i] = CHOOSE r \in Copied(c, o[i]) : TRUE
      BY <1>1, <1>2
    <3> HIDE DEF f, o, g
    <3> QED
      BY <2>1, <3>1, CopiedMessage
  <2> HIDE DEF f, o, g
  <2> QED
    BY <1>2, <2>2, <2>3 DEF IsFile
<1> QED
  BY <1>4, <1>5, <1>6
-----------------------------------------------------------------------------
(* The invariant. *)


(* A file that is put, or taken away, leaves the types as they are.        *)
LEMMA PutOK ==
  ASSUME FilesOK(disk), NEW n \in FileNames, NEW f, Bounded(f),
         n \in UsersFiles => IsUsersFile(f) /\ (LooksFirst => OneLine(f)),
         n \notin UsersFiles => IsFile(f)
  PROVE  /\ FilesOK(Put(n, f))
         /\ n \in DOMAIN Put(n, f) /\ Put(n, f)[n] = f
         /\ Same(Put(n, f), disk, {n})
<1> DEFINE d == Put(n, f)
<1>1. /\ DOMAIN d = DOMAIN disk \cup {n}
      /\ \A m \in DOMAIN d : d[m] = IF m = n THEN f ELSE disk[m]
  BY DEF Put
<1> HIDE DEF d
<1>2. FilesOK(d)
  BY <1>1 DEF FilesOK
<1>3. n \in DOMAIN d /\ d[n] = f
  BY <1>1
<1>4. Same(d, disk, {n})
  BY <1>1 DEF Same
<1> QED
  BY <1>2, <1>3, <1>4 DEF d

LEMMA UnlinkOK ==
  ASSUME FilesOK(disk), NEW n, NEW d, d = Restrict(disk, DOMAIN disk \ {n})
  PROVE  FilesOK(d) /\ n \notin DOMAIN d /\ Same(d, disk, {n})
<1>1. DOMAIN d = DOMAIN disk \ {n} /\ \A m \in DOMAIN d : d[m] = disk[m]
  BY DEF Restrict
<1> QED
  BY <1>1 DEF FilesOK, Same

LEMMA SameTrans ==
  ASSUME NEW d, NEW e, NEW a, NEW M, NEW N, Same(d, e, M), Same(e, a, N)
  PROVE  \A S : M \cup N \subseteq S => Same(d, a, S)
BY DEF Same

LEMMA EmptyOK == Bounded(EmptyFile) /\ IsUsersFile(EmptyFile) /\ OneLine(EmptyFile)
                 /\ IsFile(EmptyFile)
BY DEF Bounded, Within, EmptyFile, IsUsersFile, OneLine, IsFile

(* The lines at the start are those of the registered users. *)
LEMMA FormerLines ==
  ASSUME NEW u \in Registered
  PROVE  FormerLine(u) \in UserLine /\ FormerLine(u).name = u
<1>1. Fresh(u) \in UserLine /\ Fresh(u).name = u
  BY RegisteredAssumption, BoundAssumption DEF Fresh, UserLine
<1>2. CASE \E c \in Client : Session[c].user = u
  <2> DEFINE c == CHOOSE c \in Client : Session[c].user = u
             addr == SessionAddr(c)
  <2>1. c \in Client /\ Session[c].user = u
    BY <1>2
  <2>2. FormerLine(u) = [Fresh(u) EXCEPT !.connected = 1, !.addr = addr]
    BY <1>2 DEF FormerLine
  <2> HIDE DEF c
  <2>3. u # None
    BY NoneAssumption, RegisteredAssumption
  <2>4. addr \in Addr
    BY <2>1, <2>3, SessionAssumption, HostAssumption DEF SessionAddr, Addr
  <2> HIDE DEF addr
  <2> QED
    BY <1>1, <2>2, <2>4 DEF UserLine
<1>3. CASE ~\E c \in Client : Session[c].user = u
  BY <1>1, <1>3 DEF FormerLine
<1> QED
  BY <1>2, <1>3

LEMMA InitInv == StorageInit => StorageInv
<1> SUFFICES ASSUME StorageInit PROVE StorageInv
  OBVIOUS
<1> DEFINE users == disk[DB_USERS_FILE]
<1>1. PICK order \in [1..Cardinality(Registered) -> Registered] :
        /\ IsInjective(order)
        /\ disk = [n \in {DB_USERS_FILE} |-> [i \in DOMAIN order |-> FormerLine(order[i])]]
  BY DEF StorageInit
<1>2. users = [i \in 1..Cardinality(Registered) |-> FormerLine(order[i])]
      /\ DOMAIN disk = {DB_USERS_FILE}
  BY <1>1
<1>3. Cardinality(Registered) \in Nat
  BY StorageAssumption, FS_CardinalityType
<1>4. \A i \in 1..Cardinality(Registered) : /\ FormerLine(order[i]) \in UserLine
                                             /\ FormerLine(order[i]).name = order[i]
  BY <1>1, FormerLines
<1>5. Within(users, Cardinality(Registered)) /\ IsUsersFile(users)
  BY <1>2, <1>3, <1>4 DEF Within, IsUsersFile
<1>6. OneLine(users)
  BY <1>1, <1>2, <1>4 DEF OneLine, IsInjective
<1>7. FilesOK(disk)
  BY <1>2, <1>3, <1>5, <1>6, Names DEF FilesOK, Bounded, UsersFiles
<1>8. antes = disk /\ db_mutex = None /\ call = [t \in Worker |-> Idle] /\ caidas = 0
  BY DEF StorageInit
<1>9. CallsOK /\ Mutex
  BY <1>8, NoneAssumption DEF CallsOK, Mutex, Idle, Working
<1> QED
  BY <1>2, <1>7, <1>8, <1>9, NoneAssumption DEF StorageInv, HasUsers, Mutex

(* The thread that has db_mutex is the only one that any stage is about.   *)
LEMMA HolderStep ==
  ASSUME StorageInv, NEW t \in Worker, call[t].pc \in Working,
         NEW b, DOMAIN b = DOMAIN Idle, b.pc \in Working, call' = [call EXCEPT ![t] = b],
         UNCHANGED <<db_mutex, antes, caidas>>, FilesOK(disk'), Stage(b, disk', antes)
  PROVE  StorageInv'
<1>1. /\ DOMAIN call' = Worker /\ call'[t] = b
      /\ \A s \in Worker \ {t} : call'[s] = call[s]
  BY DEF StorageInv, CallsOK
<1>2. db_mutex = t /\ t # None /\ \A s \in Worker \ {t} : call[s].pc \notin Working
  BY NoneAssumption DEF StorageInv, Mutex
<1>3. CallsOK' /\ Mutex'
  BY <1>1, <1>2 DEF StorageInv, CallsOK, Mutex
<1>4. \A s \in Worker : call'[s].pc \in Working => Stage(call'[s], disk', antes')
  BY <1>1, <1>2
<1> QED
  BY <1>2, <1>3, <1>4 DEF StorageInv, HasUsers
(* What the record of a thread is after it has moved on to pc p.           *)
Moved(t, b, p) ==
  /\ call' = [call EXCEPT ![t] = b]
  /\ DOMAIN b = DOMAIN Idle /\ b.pc = p /\ SameArgs(b, call[t])

LEMMA LeaveMoves ==
  ASSUME CallsOK, NEW t \in Worker, NEW res, Leave(t, res)
  PROVE  \E b : /\ Moved(t, b, "unlock") /\ b.res = res
                /\ b.rest = call[t].rest /\ b.open = call[t].open
<1> DEFINE b == [call[t] EXCEPT !.pc = "unlock", !.res = res]
<1>1. DOMAIN call[t] = DOMAIN Idle /\ DOMAIN call = Worker
  BY DEF CallsOK
<1>2. call' = [call EXCEPT ![t] = b]
  BY <1>1 DEF Leave
<1>3. /\ DOMAIN b = DOMAIN Idle /\ b.pc = "unlock" /\ b.res = res
      /\ SameArgs(b, call[t]) /\ b.rest = call[t].rest /\ b.open = call[t].open
  BY <1>1 DEF Idle, SameArgs
<1> QED
  BY <1>2, <1>3 DEF Moved

LEMMA GotoMoves ==
  ASSUME CallsOK, NEW t \in Worker, NEW p, Goto(t, p)
  PROVE  \E b : /\ Moved(t, b, p) /\ b.res = call[t].res
                /\ b.rest = call[t].rest /\ b.open = call[t].open
<1> DEFINE b == [call[t] EXCEPT !.pc = p]
<1>1. DOMAIN call[t] = DOMAIN Idle /\ DOMAIN call = Worker
  BY DEF CallsOK
<1>2. call' = [call EXCEPT ![t] = b]
  BY <1>1 DEF Goto
<1>3. /\ DOMAIN b = DOMAIN Idle /\ b.pc = p /\ b.res = call[t].res
      /\ SameArgs(b, call[t]) /\ b.rest = call[t].rest /\ b.open = call[t].open
  BY <1>1 DEF Idle, SameArgs
<1> QED
  BY <1>2, <1>3 DEF Moved

(* A step that moves the holder on keeps the invariant if the new stage is *)
(* true of it.                                                             *)
LEMMA MovedInv ==
  ASSUME StorageInv, NEW t \in Worker, call[t].pc \in Working, NEW p \in Working,
         NEW b, Moved(t, b, p), UNCHANGED <<db_mutex, antes, caidas>>,
         FilesOK(disk'), Stage(b, disk', antes)
  PROVE  StorageInv'
BY HolderStep DEF Moved

LEMMA StageOf ==
  ASSUME StorageInv, NEW t \in Worker, call[t].pc \in Working
  PROVE  /\ Stage(call[t], disk, antes) /\ Args(call[t])
         /\ FilesOK(disk) /\ FilesOK(antes) /\ CallsOK
BY DEF StorageInv, Stage

LEMMA SameContent ==
  ASSUME NEW d, NEW a, NEW N, Same(d, a, N), NEW n \in FileNames \ N
  PROVE  ContentOf(d, n) = ContentOf(a, n)
BY DEF Same, ContentOf

LEMMA NobodyIsNamed == \A u : ~Named(EmptyFile, u)
BY DEF Named, EmptyFile

LEMMA RegisterLooksInv ==
  ASSUME StorageInv, NEW t \in Worker, RegisterLooks(t) PROVE StorageInv'
<1> DEFINE c == call[t]
<1>1. c.pc = "open" /\ c.op = "register" /\ c.pc \in Working
  BY DEF RegisterLooks, At, Op, Working
<1>2. /\ Stage(c, disk, antes) /\ Args(c) /\ Same(disk, antes, {})
      /\ FilesOK(disk) /\ FilesOK(antes) /\ CallsOK
  BY <1>1, StageOf DEF Stage
<1>3. Content(DB_USERS_FILE) = ContentOf(antes, DB_USERS_FILE)
  BY <1>2, Names, SameContent DEF UsersFiles, Content, ContentOf
<1>4. UNCHANGED <<disk, db_mutex, antes, caidas>> /\ FilesOK(disk')
  BY <1>2 DEF RegisterLooks, OnlyCall
<1>5. CASE Named(Content(DB_USERS_FILE), c.user) /\ Leave(t, 1)
  <2>1. PICK b : Moved(t, b, "unlock") /\ b.res = 1
    BY <1>2, <1>5, LeaveMoves
  <2>2. b.pc = "unlock" /\ b.op = "register" /\ b.user = c.user /\ Args(b)
    BY <1>1, <1>2, <2>1, ArgsStay DEF Moved, SameArgs
  <2>3. Final(b, disk', antes)
    BY <1>2, <1>3, <1>4, <1>5, <2>1, <2>2 DEF Final, Registers
  <2>4. Stage(b, disk', antes)
    BY <2>2, <2>3 DEF Stage
  <2> QED
    BY <1>1, <1>4, <2>1, <2>4, MovedInv DEF Working
<1>6. CASE /\ LooksFirst => ~Named(Content(DB_USERS_FILE), c.user)
           /\ Goto(t, "append")
  <2>1. PICK b : Moved(t, b, "append")
    BY <1>2, <1>6, GotoMoves
  <2>2. b.pc = "append" /\ b.op = "register" /\ b.user = c.user /\ Args(b)
    BY <1>1, <1>2, <2>1, ArgsStay DEF Moved, SameArgs
  <2>3. Stage(b, disk', antes)
    BY <1>2, <1>3, <1>4, <1>6, <2>2 DEF Stage
  <2> QED
    BY <1>1, <1>4, <2>1, <2>3, MovedInv DEF Working
<1> QED
  <2>1. PICK ok \in Opened("register_read", DB_USERS_FILE) :
          IF ok /\ Named(Content(DB_USERS_FILE), c.user) THEN Leave(t, 1) ELSE Goto(t, "append")
    BY DEF RegisterLooks
  <2>2. LooksFirst /\ ~ok => DB_USERS_FILE \notin DOMAIN disk
    BY <2>1 DEF Opened, LooksFirst
  <2>3. LooksFirst /\ ~ok => ~Named(Content(DB_USERS_FILE), c.user)
    BY <2>2, NobodyIsNamed DEF Content
  <2> QED
    BY <1>5, <1>6, <2>1, <2>3
(* A line that is added for a name without one.                            *)
LEMMA AppendLine ==
  ASSUME NEW f, IsUsersFile(f), Bounded(f), NEW u \in User,
         LooksFirst => OneLine(f) /\ ~Named(f, u)
  PROVE  LET g == Appended(f, Fresh(u))
         IN  Bounded(g) /\ IsUsersFile(g) /\ (LooksFirst => OneLine(g))
<1> DEFINE g == Appended(f, Fresh(u))
           k == NextSlot(f)
<1>1. PICK b \in Nat : Within(f, b)
  BY DEF Bounded
<1>2. k \in Nat /\ k \notin DOMAIN f /\ \A i \in DOMAIN f : i <= k
  BY <1>1, FreeSlot DEF IsUsersFile
<1>3. /\ DOMAIN g = DOMAIN f \cup {k} /\ g[k] = Fresh(u)
      /\ \A i \in DOMAIN f : g[i] = f[i]
      /\ g = [i \in DOMAIN g |-> g[i]]
  BY <1>2 DEF Appended
<1>4. Fresh(u) \in UserLine /\ Fresh(u).name = u
  BY BoundAssumption DEF Fresh, UserLine
<1> HIDE DEF g, k
<1>5. Within(g, k)
  BY <1>2, <1>3 DEF Within
<1>6. IsUsersFile(g)
  BY <1>2, <1>3, <1>4 DEF IsUsersFile
<1>7. LooksFirst => OneLine(g)
  BY <1>2, <1>3, <1>4 DEF OneLine, Named
<1> QED
  BY <1>2, <1>5, <1>6, <1>7 DEF Bounded, g

(* What the file n holds for a call, existing or not, is of its kind.      *)
LEMMA ContentOK ==
  ASSUME NEW a, FilesOK(a), NEW n \in FileNames
  PROVE  LET f == ContentOf(a, n)
         IN  /\ Bounded(f)
             /\ n \in UsersFiles => IsUsersFile(f) /\ (LooksFirst => OneLine(f))
             /\ n \notin UsersFiles => IsFile(f)
BY EmptyOK DEF FilesOK, ContentOf

LEMMA AppendInv ==
  ASSUME StorageInv, NEW t \in Worker, AppendRecord(t) PROVE StorageInv'
<1> DEFINE c == call[t]
           n == OrigOf(c)
           f == ContentOf(antes, n)
           m == IF c.op = "store" THEN c.msg ELSE Fresh(c.user)
           g == Appended(f, m)
<1>1. c.pc = "append" /\ c.pc \in Working
  BY DEF AppendRecord, At, Working
<1>2. /\ Stage(c, disk, antes) /\ Args(c) /\ Same(disk, antes, {})
      /\ c.op \in {"register", "store"}
      /\ c.op = "register" /\ LooksFirst => ~Named(ContentOf(antes, DB_USERS_FILE), c.user)
      /\ FilesOK(disk) /\ FilesOK(antes) /\ CallsOK
  BY <1>1, StageOf DEF Stage
<1>3. /\ n \in FileNames /\ Original(t) = n
      /\ c.op = "register" => n = DB_USERS_FILE
      /\ c.op = "store" => n = msg_file(c.user) /\ n \notin UsersFiles
  BY <1>2, CallNames, Names DEF OrigOf, Original, Op, Args
<1>4. Content(n) = f
  BY <1>2, <1>3, SameContent DEF Content, ContentOf
<1>5. UNCHANGED <<db_mutex, antes, caidas>>
  BY DEF AppendRecord
<1>6. CASE Failing # {} /\ Leave(t, 2) /\ UNCHANGED disk
  <2>1. PICK b : Moved(t, b, "unlock") /\ b.res = 2
    BY <1>2, <1>6, LeaveMoves
  <2>2. b.pc = "unlock" /\ b.op = c.op /\ Args(b)
    BY <1>2, <2>1, ArgsStay DEF Moved, SameArgs
  <2>3. Stage(b, disk', antes)
    BY <1>2, <1>6, <2>1, <2>2 DEF Stage, Final, Registers, Stores
  <2> QED
    BY <1>1, <1>2, <1>5, <1>6, <2>1, <2>3, MovedInv DEF Working
<1>7. CASE disk' = Put(n, g) /\ Leave(t, 0)
  <2>1. PICK b : Moved(t, b, "unlock") /\ b.res = 0
    BY <1>2, <1>7, LeaveMoves
  <2>2. /\ b.pc = "unlock" /\ b.op = c.op /\ b.user = c.user /\ b.msg = c.msg /\ Args(b)
        /\ OrigOf(b) = n
    BY <1>2, <2>1, ArgsStay DEF Moved, SameArgs
  <2>3. /\ Bounded(g)
        /\ n \in UsersFiles => IsUsersFile(g) /\ (LooksFirst => OneLine(g))
        /\ n \notin UsersFiles => IsFile(g)
    <3>1. CASE c.op = "register"
      <4>1. n \in UsersFiles /\ m = Fresh(c.user) /\ c.user \in User
        BY <1>2, <1>3, <3>1 DEF UsersFiles, Args
      <4>2. Bounded(f) /\ IsUsersFile(f) /\ (LooksFirst => OneLine(f) /\ ~Named(f, c.user))
        BY <1>2, <1>3, <3>1, <4>1, ContentOK
      <4> HIDE DEF f, n, m
      <4> QED
        BY <4>1, <4>2, AppendLine
    <3>2. CASE c.op = "store"
      <4>1. n \notin UsersFiles /\ m \in PendingMsg
        BY <1>2, <1>3, <3>2 DEF Args
      <4>2. Bounded(f) /\ IsFile(f)
        BY <1>2, <1>3, <4>1, ContentOK
      <4> HIDE DEF f, n, m
      <4>3. PICK b0 \in Nat : Within(f, b0)
        BY <4>2 DEF Bounded
      <4>4. IsFile(Appended(f, m)) /\ Within(Appended(f, m), NextSlot(f))
        BY <4>1, <4>2, <4>3, AppendedIsFile
      <4>5. NextSlot(f) \in Nat
        BY <4>2, <4>3, NextSlotIsFree
      <4> QED
        BY <4>1, <4>4, <4>5 DEF Bounded
    <3> QED
      BY <1>2, <3>1, <3>2
  <2>4. /\ FilesOK(disk') /\ n \in DOMAIN disk' /\ disk'[n] = g
        /\ Same(disk', disk, {n})
    <3> HIDE DEF f, n, m, g
    <3>1. FilesOK(disk) /\ n \in FileNames
      BY <1>2, <1>3
    <3>2. /\ FilesOK(Put(n, g)) /\ n \in DOMAIN Put(n, g) /\ Put(n, g)[n] = g
          /\ Same(Put(n, g), disk, {n})
      BY <2>3, <3>1, PutOK
    <3> QED
      BY <1>7, <3>2
  <2>5. Same(disk', antes, {n})
    <3> HIDE DEF n
    <3> QED
      BY <1>2, <2>4, SameTrans
  <2>6. Final(b, disk', antes)
    BY <1>2, <1>3, <2>1, <2>2, <2>4, <2>5 DEF Final, Registers, Stores
  <2>7. Stage(b, disk', antes)
    BY <2>2, <2>6 DEF Stage
  <2> QED
    BY <1>1, <1>5, <2>1, <2>4, <2>7, MovedInv DEF Working
<1> QED
  <2>1. PICK ok \in Created(IF c.op = "store" THEN "store_append" ELSE "register_append") :
          \/ ~ok /\ Leave(t, 2) /\ UNCHANGED disk
          \/ ok /\ disk' = Put(n, g) /\ Leave(t, 0)
    BY <1>3, <1>4 DEF AppendRecord, Op
  <2>2. ~ok => Failing # {}
    BY <2>1 DEF Created
  <2> QED
    BY <1>6, <1>7, <2>1, <2>2

(* The functions that only read leave with what they have read.            *)
LEMMA ReadsInv ==
  ASSUME StorageInv, NEW t \in Worker, Reads(t) PROVE StorageInv'
<1> DEFINE c == call[t]
           n == OrigOf(c)
           site == IF c.op = "pending" THEN "pending_read"
                   ELSE IF c.op = "users" THEN "users_read" ELSE "info_read"
           Mine(f) == {i \in DOMAIN f : c.op # "pending" /\ f[i].name = c.user}
           Res(f) == CASE c.op = "pending" -> 0
                       [] c.op = "info" -> IF Mine(f) = {} THEN -1 ELSE 0
                       [] c.op = "users" -> IF Mine(f) = {} THEN 2
                                            ELSE 1 - f[Max(Mine(f))].connected
<1>1. c.pc = "open" /\ c.pc \in Working /\ c.op \in {"pending", "users", "info"}
  BY DEF Reads, At, Op, Working
<1>2. /\ Stage(c, disk, antes) /\ Args(c) /\ Same(disk, antes, {})
      /\ FilesOK(disk) /\ FilesOK(antes) /\ CallsOK
  BY <1>1, StageOf DEF Stage
<1>3. Original(t) = n /\ n \in FileNames
  BY <1>2, CallNames DEF OrigOf, Original, Op
<1>4. Content(n) = ContentOf(antes, n) /\ ContentOf(disk, n) = Content(n)
  BY <1>2, <1>3, SameContent DEF Content, ContentOf
<1>5. UNCHANGED <<disk, db_mutex, antes, caidas>>
  BY DEF Reads, OnlyCall
<1>6. PICK ok \in Opened(site, n) :
        call' = [call EXCEPT ![t].pc = "unlock",
                             ![t].rest = IF ok THEN Content(n) ELSE EmptyFile,
                             ![t].res = Res(IF ok THEN Content(n) ELSE EmptyFile)]
  <2> SUFFICES \E ok \in Opened(site, Original(t)) :
                 call' = [call EXCEPT ![t].pc = "unlock",
                   ![t].rest = IF ok THEN Content(Original(t)) ELSE EmptyFile,
                   ![t].res = Res(IF ok THEN Content(Original(t)) ELSE EmptyFile)]
    <3> HIDE DEF n, site, Res
    <3> QED
      BY <1>3
  <2> QED
    BY Zenon DEF Reads, Op
<1> DEFINE f == IF ok THEN Content(n) ELSE EmptyFile
<1>7. f = ContentOf(antes, n) \/ (f = EmptyFile /\ Failing # {})
  BY <1>4, <1>6 DEF Opened, ContentOf
<1> DEFINE b == [c EXCEPT !.pc = "unlock", !.rest = f, !.res = Res(f)]
<1>8. DOMAIN c = DOMAIN Idle /\ DOMAIN call = Worker
  BY <1>2 DEF CallsOK
<1>9. call' = [call EXCEPT ![t] = b]
  <2> HIDE DEF f, Res
  <2>1. call' = [call EXCEPT ![t].pc = "unlock", ![t].rest = f, ![t].res = Res(f)]
    BY <1>6 DEF f
  <2> QED
    BY <1>8, <2>1
<1>10. /\ DOMAIN b = DOMAIN Idle /\ b.pc = "unlock" /\ SameArgs(b, c)
       /\ b.rest = f /\ b.res = Res(f)
  <2> HIDE DEF f, Res
  <2> QED
    BY <1>8 DEF Idle, SameArgs
<1> HIDE DEF b
<1>11. Args(b) /\ OrigOf(b) = n /\ b.op = c.op /\ b.user = c.user
  BY <1>2, <1>10, ArgsStay DEF SameArgs
<1>12. HasRead(b, disk', antes)
  BY <1>2, <1>5, <1>7, <1>10, <1>11 DEF HasRead
<1>13. Stage(b, disk', antes)
  BY <1>1, <1>10, <1>11, <1>12 DEF Stage, Final
<1>14. Moved(t, b, "unlock")
  BY <1>9, <1>10 DEF Moved
<1> QED
  BY <1>1, <1>2, <1>5, <1>13, <1>14, MovedInv DEF Working
LEMMA SameMore ==
  ASSUME NEW d, NEW a, Same(d, a, {}) PROVE \A N : Same(d, a, N)
BY DEF Same

LEMMA OpenOriginalInv ==
  ASSUME StorageInv, NEW t \in Worker, OpenOriginal(t) PROVE StorageInv'
<1> DEFINE c == call[t]
           n == OrigOf(c)
           f == ContentOf(antes, n)
           Both(x) == Named(x, c.user) /\ Named(x, c.dest)
<1>1. c.pc = "open" /\ c.pc \in Working /\ c.op \in Rewriters
  BY DEF OpenOriginal, At, Op, Working, Rewriters
<1>2. /\ Stage(c, disk, antes) /\ Args(c) /\ Same(disk, antes, {})
      /\ FilesOK(disk) /\ FilesOK(antes) /\ CallsOK
  BY <1>1, StageOf DEF Stage
<1>3. Original(t) = n /\ n \in FileNames
  BY <1>2, CallNames DEF OrigOf, Original, Op
<1>4. Content(n) = f /\ (n \in DOMAIN disk <=> n \in DOMAIN antes)
  <2>1. Content(n) = f
    BY <1>2, <1>3, SameContent DEF Content, ContentOf
  <2> QED
    BY <1>2, <1>3, <2>1 DEF Same
<1>5. UNCHANGED <<disk, db_mutex, antes, caidas>>
  BY DEF OpenOriginal, OnlyCall
<1>6. ASSUME NEW res, Leave(t, res),
             \A b : /\ b.op = c.op /\ b.user = c.user /\ b.dest = c.dest
                    /\ OrigOf(b) = n /\ TempOf(b) = TempOf(c) /\ b.res = res
                    => Gives_Up(b, disk', antes)
      PROVE  StorageInv'
  <2>1. PICK b : Moved(t, b, "unlock") /\ b.res = res
    BY <1>2, <1>6, LeaveMoves
  <2>2. /\ b.pc = "unlock" /\ b.op = c.op /\ b.user = c.user /\ b.dest = c.dest
        /\ Args(b) /\ OrigOf(b) = n /\ TempOf(b) = TempOf(c)
    BY <1>2, <2>1, ArgsStay DEF Moved, SameArgs
  <2>3. Gives_Up(b, disk', antes)
    BY <1>6, <2>1, <2>2
  <2>4. Stage(b, disk', antes)
    BY <1>1, <2>2, <2>3 DEF Stage, Final
  <2> QED
    BY <1>1, <1>2, <1>5, <2>1, <2>4, MovedInv DEF Working
<1>7. /\ \A N : Same(disk', antes, N)
      /\ TempOf(c) \in DOMAIN disk' => TempOf(c) \in DOMAIN antes
  BY <1>2, <1>5, SameMore, CallNames DEF Same
<1>8. CASE /\ n \notin DOMAIN disk \/ Failing # {}
           /\ Leave(t, CASE c.op = "prepare" -> 2 [] c.op = "delete" -> 0 [] OTHER -> 1)
  <2>1. n \notin DOMAIN antes \/ Failing # {}
    BY <1>4, <1>8
  <2>2. n \notin DOMAIN antes => \A u : ~Named(f, u)
    BY NobodyIsNamed DEF ContentOf
  <2> DEFINE res == CASE c.op = "prepare" -> 2 [] c.op = "delete" -> 0 [] OTHER -> 1
  <2>3. ASSUME NEW b, b.op = c.op, b.user = c.user, b.dest = c.dest, OrigOf(b) = n,
               TempOf(b) = TempOf(c), b.res = res
        PROVE  Gives_Up(b, disk', antes)
    BY <1>1, <1>7, <2>1, <2>2, <2>3 DEF Gives_Up, Rewriters
  <2>4. Leave(t, res)
    BY <1>8
  <2> HIDE DEF res, n, c
  <2> QED
    BY <1>6, <2>3, <2>4
<1>9. CASE c.op = "prepare" /\ ~Both(f) /\ Leave(t, 1)
  <2>1. ASSUME NEW b, b.op = c.op, b.user = c.user, b.dest = c.dest, OrigOf(b) = n,
               TempOf(b) = TempOf(c), b.res = 1
        PROVE  Gives_Up(b, disk', antes)
    BY <1>7, <1>9, <2>1 DEF Gives_Up
  <2>2. Leave(t, 1)
    BY <1>9
  <2> HIDE DEF n, c
  <2> QED
    BY <1>6, <2>1, <2>2
<1>10. CASE /\ n \in DOMAIN disk
            /\ c.op = "prepare" => Both(f)
            /\ call' = [call EXCEPT ![t].pc = "temp", ![t].rest = f,
                          ![t].res = IF c.op \in {"prepare", "delete"} THEN 0 ELSE 1]
  <2> DEFINE res == IF c.op \in {"prepare", "delete"} THEN 0 ELSE 1
             b == [c EXCEPT !.pc = "temp", !.rest = f, !.res = res]
  <2>1. DOMAIN c = DOMAIN Idle /\ DOMAIN call = Worker
    BY <1>2 DEF CallsOK
  <2>2. /\ call' = [call EXCEPT ![t] = b]
        /\ DOMAIN b = DOMAIN Idle /\ b.pc = "temp" /\ SameArgs(b, c)
        /\ b.rest = f /\ b.res = res
    <3>1. call' = [call EXCEPT ![t].pc = "temp", ![t].rest = f, ![t].res = res]
      BY <1>10
    <3> HIDE DEF f, res
    <3> QED
      BY <2>1, <3>1 DEF Idle, SameArgs
  <2> HIDE DEF b
  <2>3. /\ Args(b) /\ OrigOf(b) = n /\ b.op = c.op /\ b.user = c.user /\ b.dest = c.dest
    BY <1>2, <2>2, ArgsStay DEF SameArgs
  <2>4. f = antes[n] /\ n \in DOMAIN antes
    BY <1>4, <1>10 DEF ContentOf
  <2>5. Stage(b, disk', antes)
    BY <1>1, <1>7, <1>10, <2>2, <2>3, <2>4 DEF Stage, Found
  <2>6. Moved(t, b, "temp")
    BY <2>2 DEF Moved
  <2> QED
    BY <1>1, <1>2, <1>5, <2>5, <2>6, MovedInv DEF Working
<1>11. \E site \in Opens : \E ok \in Opened(site, n) :
         \/ /\ ~ok
            /\ Leave(t, CASE c.op = "prepare" -> 2 [] c.op = "delete" -> 0 [] OTHER -> 1)
         \/ ok /\ c.op = "prepare" /\ ~Both(f) /\ Leave(t, 1)
         \/ /\ ok /\ (c.op = "prepare" => Both(f))
            /\ call' = [call EXCEPT ![t].pc = "temp", ![t].rest = f,
                          ![t].res = IF c.op \in {"prepare", "delete"} THEN 0 ELSE 1]
  <2> DEFINE site == CASE c.op = "unregister" -> "unregister_read"
                       [] c.op = "connect" -> "connect_read"
                       [] c.op = "disconnect" -> "disconnect_read"
                       [] c.op = "prepare" -> "prepare_read"
                       [] c.op = "delete" -> "delete_read"
  <2>1. site \in Opens
    BY <1>1 DEF Opens, Rewriters
  <2>2. \E ok \in Opened(site, n) :
         \/ /\ ~ok
            /\ Leave(t, CASE c.op = "prepare" -> 2 [] c.op = "delete" -> 0 [] OTHER -> 1)
         \/ ok /\ c.op = "prepare" /\ ~Both(f) /\ Leave(t, 1)
         \/ /\ ok /\ (c.op = "prepare" => Both(f))
            /\ call' = [call EXCEPT ![t].pc = "temp", ![t].rest = f,
                          ![t].res = IF c.op \in {"prepare", "delete"} THEN 0 ELSE 1]
    BY <1>3, <1>4 DEF OpenOriginal, Op
  <2> QED
    BY <2>1, <2>2
<1> QED
  <2>1. \A site : \A ok \in Opened(site, n) :
          ~ok => n \notin DOMAIN disk \/ Failing # {}
    BY DEF Opened
  <2>2. \A site : \A ok \in Opened(site, n) : ok => n \in DOMAIN disk
    BY DEF Opened
  <2> HIDE DEF Both, c, n, f
  <2> QED
    BY <1>8, <1>9, <1>10, <1>11, <2>1, <2>2
(* The copy of no record is an empty file, that of all is the copy.        *)
LEMMA PartialEnds ==
  ASSUME NEW c, NEW a
  PROVE  /\ DOMAIN FinOf(c, a) \subseteq DOMAIN c.rest => Partial(c, a) = EmptyFile
         /\ DOMAIN c.rest = {} => Partial(c, a) = FinOf(c, a)
<1> DEFINE g == FinOf(c, a)
<1>1. g = [i \in DOMAIN g |-> g[i]]
  BY DEF FinOf
<1>2. Partial(c, a) = [i \in DOMAIN g \ DOMAIN c.rest |-> g[i]]
  BY DEF Partial, Restrict
<1> HIDE DEF g
<1>3. ASSUME DOMAIN g \subseteq DOMAIN c.rest PROVE Partial(c, a) = EmptyFile
  <2>1. DOMAIN g \ DOMAIN c.rest = {}
    BY <1>3
  <2> QED
    BY <1>2, <2>1 DEF EmptyFile
<1>4. ASSUME DOMAIN c.rest = {} PROVE Partial(c, a) = g
  <2>1. DOMAIN g \ DOMAIN c.rest = DOMAIN g
    BY <1>4
  <2> QED
    BY <1>1, <1>2, <2>1
<1> QED
  BY <1>3, <1>4 DEF g

LEMMA OpenTemporaryInv ==
  ASSUME StorageInv, NEW t \in Worker, OpenTemporary(t) PROVE StorageInv'
<1> DEFINE c == call[t]
           n == OrigOf(c)
           m == TempOf(c)
           site == CASE c.op = "unregister" -> "unregister_temp"
                     [] c.op = "connect" -> "connect_temp"
                     [] c.op = "disconnect" -> "disconnect_temp"
                     [] c.op = "prepare" -> "prepare_temp"
                     [] c.op = "delete" -> "delete_temp"
<1>1. c.pc = "temp" /\ c.pc \in Working
  BY DEF OpenTemporary, At, Working
<1>2. /\ Stage(c, disk, antes) /\ Args(c) /\ Same(disk, antes, {}) /\ Found(c, antes)
      /\ c.rest = antes[n] /\ c.res = IF c.op \in {"prepare", "delete"} THEN 0 ELSE 1
      /\ FilesOK(disk) /\ FilesOK(antes) /\ CallsOK
  BY <1>1, StageOf DEF Stage
<1>3. Temporary(t) = m /\ m \in FileNames
  BY <1>2, CallNames DEF TempOf, Temporary, Op
<1>4. UNCHANGED <<db_mutex, antes, caidas>>
  BY DEF OpenTemporary
<1>5. PICK ok \in Created(site) :
       \/ /\ ok \/ c.op \in {"prepare", "delete"}
          /\ disk' = IF ok THEN Put(m, EmptyFile) ELSE disk
          /\ call' = [call EXCEPT ![t].pc = "copy", ![t].open = ok]
       \/ /\ ~ok /\ c.op \notin {"prepare", "delete"}
          /\ Leave(t, IF c.op = "unregister" THEN 2 ELSE 3)
          /\ UNCHANGED disk
  <2> SUFFICES
        \E ok \in Created(site) :
          \/ /\ ok \/ c.op \in {"prepare", "delete"}
             /\ disk' = IF ok THEN Put(Temporary(t), EmptyFile) ELSE disk
             /\ call' = [call EXCEPT ![t].pc = "copy", ![t].open = ok]
          \/ /\ ~ok /\ c.op \notin {"prepare", "delete"}
             /\ Leave(t, IF c.op = "unregister" THEN 2 ELSE 3)
             /\ UNCHANGED disk
    <3> HIDE DEF m, site
    <3> QED
      BY <1>3
  <2> QED
    BY DEF OpenTemporary, Op
<1>6. ok \in BOOLEAN /\ (~ok => site \in Failing)
  BY <1>5 DEF Created
<1>7. CASE /\ ok \/ c.op \in {"prepare", "delete"}
           /\ disk' = IF ok THEN Put(m, EmptyFile) ELSE disk
           /\ call' = [call EXCEPT ![t].pc = "copy", ![t].open = ok]
  <2> DEFINE b == [c EXCEPT !.pc = "copy", !.open = ok]
  <2>1. DOMAIN c = DOMAIN Idle /\ DOMAIN call = Worker
    BY <1>2 DEF CallsOK
  <2>2. /\ call' = [call EXCEPT ![t] = b]
        /\ DOMAIN b = DOMAIN Idle /\ b.pc = "copy" /\ SameArgs(b, c)
        /\ b.rest = c.rest /\ b.res = c.res /\ b.open = ok
    BY <1>7, <2>1 DEF Idle, SameArgs
  <2> HIDE DEF b
  <2>3. /\ Args(b) /\ OrigOf(b) = n /\ TempOf(b) = m /\ b.op = c.op /\ b.user = c.user
        /\ Found(b, antes)
    BY <1>2, <2>2, ArgsStay DEF SameArgs
  <2>4. /\ FilesOK(disk') /\ Same(disk', antes, {m})
        /\ ok => m \in DOMAIN disk' /\ disk'[m] = EmptyFile
    <3>1. CASE ok
      <4> HIDE DEF m
      <4>1. /\ FilesOK(Put(m, EmptyFile)) /\ m \in DOMAIN Put(m, EmptyFile)
            /\ Put(m, EmptyFile)[m] = EmptyFile /\ Same(Put(m, EmptyFile), disk, {m})
        BY <1>2, <1>3, EmptyOK, PutOK
      <4> QED
        BY <1>2, <1>7, <3>1, <4>1, SameTrans
    <3>2. CASE ~ok
      BY <1>2, <1>7, <3>2, SameMore
    <3> QED
      BY <3>1, <3>2
  <2>5. OpenOK(b) /\ NoCopy(b, disk', antes)
    <3>1. m \in DOMAIN disk <=> m \in DOMAIN antes
      BY <1>2, <1>3 DEF Same
    <3>2. OpenOK(b)
      BY <1>6, <1>7, <2>2, <2>3 DEF OpenOK
    <3>3. b.open \/ UNCHANGED disk
      BY <1>7, <2>2
    <3> HIDE DEF m
    <3> QED
      BY <2>3, <3>1, <3>2, <3>3 DEF NoCopy
  <2>6. ResOK(b, antes)
    <3> HIDE DEF n
    <3> QED
      BY <1>2, <2>2, <2>3 DEF ResOK
  <2>7. Partial(b, antes) = EmptyFile
    <3>1. DOMAIN FinOf(b, antes) \subseteq DOMAIN b.rest
      BY <1>2, <2>2, <2>3 DEF FinOf
    <3> QED
      BY <3>1, PartialEnds
  <2>8. Stage(b, disk', antes)
    BY <1>2, <2>2, <2>3, <2>4, <2>5, <2>6, <2>7 DEF Stage
  <2>9. Moved(t, b, "copy")
    BY <2>2 DEF Moved
  <2> QED
    BY <1>1, <1>4, <2>4, <2>8, <2>9, MovedInv DEF Working
<1>8. CASE /\ ~ok /\ c.op \notin {"prepare", "delete"}
           /\ Leave(t, IF c.op = "unregister" THEN 2 ELSE 3)
           /\ UNCHANGED disk
  <2>1. PICK b : Moved(t, b, "unlock") /\ b.res = IF c.op = "unregister" THEN 2 ELSE 3
    BY <1>2, <1>8, LeaveMoves
  <2>2. /\ b.pc = "unlock" /\ b.op = c.op /\ b.user = c.user
        /\ Args(b) /\ Found(b, antes)
    BY <1>2, <2>1, ArgsStay DEF Moved, SameArgs
  <2>3. /\ Same(disk', antes, {TempOf(b)})
        /\ TempOf(b) \in DOMAIN disk' => TempOf(b) \in DOMAIN antes
    <3>1. TempOf(b) \in FileNames
      BY <2>2, CallNames
    <3> QED
      BY <1>2, <1>8, <3>1, SameMore DEF Same
  <2>4. Gives_Up(b, disk', antes)
    BY <1>6, <1>8, <2>1, <2>2, <2>3 DEF Gives_Up, Found, Rewriters
  <2>5. Stage(b, disk', antes)
    BY <2>2, <2>4 DEF Stage, Final, Found
  <2> QED
    BY <1>1, <1>2, <1>4, <1>8, <2>1, <2>5, MovedInv DEF Working
<1> QED
  BY <1>5, <1>7, <1>8
(* The result after one more record: a name that is not there twice has    *)
(* its say once.                                                           *)
LEMMA ResStep ==
  ASSUME NEW c, NEW a, FilesOK(a), Args(c), Found(c, a), ResOK(c, a), NEW i \in DOMAIN c.rest,
         DOMAIN c.rest \subseteq DOMAIN a[OrigOf(c)],
         NEW b, SameArgs(b, c), DOMAIN b.rest = DOMAIN c.rest \ {i},
         b.res = Status(c, a[OrigOf(c)][i])
  PROVE  ResOK(b, a)
<1> DEFINE f == a[OrigOf(c)]
           done == DOMAIN f \ DOMAIN c.rest
           more == DOMAIN f \ DOMAIN b.rest
<1>1. OrigOf(b) = OrigOf(c) /\ b.op = c.op /\ b.user = c.user
  BY ArgsStay DEF SameArgs
<1>2. more = done \cup {i} /\ i \notin done /\ i \in DOMAIN f
  OBVIOUS
<1>3. CASE c.op \in {"prepare", "delete"}
  BY <1>1, <1>3 DEF ResOK, Status
<1>4. CASE c.op \notin {"prepare", "delete"}
  <2>1. /\ c.res \in {0, 1, 2}
        /\ c.res = 1 <=> \A j \in done : f[j].name # c.user
        /\ LooksFirst => \A j \in done : f[j].name = c.user => c.res = Status(c, f[j])
    BY <1>4 DEF ResOK
  <2>2. f[i].name # c.user => b.res = c.res
    BY <1>4 DEF Status
  <2>3. f[i].name = c.user => b.res \in {0, 2}
    BY <1>4 DEF Status
  <2>4. \A r : r.name = c.user => Status(b, r) = Status(c, r)
    BY <1>1, <1>4 DEF Status
  <2>5. LooksFirst => OneLine(f)
    <3>1. OrigOf(c) \in UsersFiles
      BY <1>4, CallNames DEF Found
    <3> QED
      BY <3>1 DEF FilesOK, Found
  <2> HIDE DEF f, done
  <2>6. b.res = 1 <=> \A j \in more : f[j].name # c.user
    <3> HIDE DEF more
    <3> QED
      BY <1>2, <2>1, <2>2, <2>3
  <2>7. ASSUME LooksFirst, NEW j \in more, f[j].name = c.user
        PROVE  b.res = Status(b, f[j])
    <3>1. CASE j = i
      BY <2>4, <2>7, <3>1 DEF f
    <3>2. CASE j # i
      <4>1. j \in done
        <5> HIDE DEF more
        <5> QED
          BY <1>2, <2>7, <3>2
      <4>2. f[i].name # c.user
        BY <1>2, <2>5, <2>7, <3>2, <4>1 DEF OneLine, done
      <4> QED
        BY <2>1, <2>2, <2>4, <2>7, <4>1, <4>2
    <3> QED
      BY <3>1, <3>2
  <2>8. b.res \in {0, 1, 2}
    BY <2>1, <2>2, <2>3
  <2> QED
    BY <1>1, <1>4, <2>6, <2>7, <2>8 DEF ResOK, f
<1> QED
  BY <1>3, <1>4

LEMMA CopyInv ==
  ASSUME StorageInv, NEW t \in Worker, CopyRecord(t) PROVE StorageInv'
<1> DEFINE c == call[t]
           n == OrigOf(c)
           m == TempOf(c)
           o == antes[n]
           i == First(c.rest)
           x == CHOOSE r \in Copied(c, o[i]) : TRUE
<1>1. c.pc = "copy" /\ c.pc \in Working /\ DOMAIN c.rest # {}
  BY DEF CopyRecord, At, Working
<1>2. /\ Stage(c, disk, antes) /\ Args(c) /\ Same(disk, antes, {m}) /\ Found(c, antes)
      /\ OpenOK(c) /\ ResOK(c, antes) /\ DOMAIN c.rest \subseteq DOMAIN o
      /\ NoCopy(c, disk, antes)
      /\ \A j \in DOMAIN c.rest : c.rest[j] = o[j]
      /\ c.open => m \in DOMAIN disk /\ disk[m] = Partial(c, antes)
      /\ FilesOK(disk) /\ FilesOK(antes) /\ CallsOK
  BY <1>1, StageOf DEF Stage
<1>3. Temporary(t) = m /\ m \in FileNames /\ n \in FileNames /\ m # n
      /\ (n \in UsersFiles <=> m \in UsersFiles)
  BY <1>2, CallNames DEF TempOf, Temporary, Op, Found
<1>4. i \in DOMAIN c.rest /\ c.rest[i] = o[i]
  <2>1. DOMAIN o \subseteq Nat
    BY <1>2 DEF FilesOK, Found, IsUsersFile, IsFile
  <2>2. DOMAIN c.rest \in SUBSET Nat
    BY <1>2, <2>1
  <2> QED
    BY <1>1, <1>2, <2>2, MinOfNaturals DEF First
<1>5. UNCHANGED <<db_mutex, antes, caidas>>
  BY DEF CopyRecord
<1> DEFINE res == Status(c, o[i])
           left == Restrict(c.rest, DOMAIN c.rest \ {i})
           b == [c EXCEPT !.res = res, !.rest = left]
<1>6. DOMAIN c = DOMAIN Idle /\ DOMAIN call = Worker
  BY <1>2 DEF CallsOK
<1>7. /\ call' = [call EXCEPT ![t] = b]
      /\ DOMAIN b = DOMAIN Idle /\ b.pc = "copy" /\ SameArgs(b, c)
      /\ b.rest = left /\ b.res = res /\ b.open = c.open
  <2>1. call' = [call EXCEPT ![t].res = res, ![t].rest = Restrict(@, DOMAIN @ \ {i})]
    <3>1. call' = [call EXCEPT ![t].res = Status(c, c.rest[i]),
                               ![t].rest = Restrict(@, DOMAIN @ \ {i})]
      BY DEF CopyRecord
    <3> HIDE DEF c, i
    <3> QED
      BY <1>4, <3>1
  <2>2. call' = [call EXCEPT ![t].res = res, ![t].rest = left]
    <3> HIDE DEF i, res
    <3> QED
      BY <1>6, <2>1 DEF Idle
  <2> HIDE DEF left, res
  <2> QED
    BY <1>1, <1>6, <2>2 DEF Idle, SameArgs
<1> HIDE DEF b
<1>8. /\ Args(b) /\ OrigOf(b) = n /\ TempOf(b) = m /\ b.op = c.op /\ b.user = c.user
      /\ Found(b, antes) /\ FinOf(b, antes) = FinOf(c, antes)
  BY <1>2, <1>7, ArgsStay DEF SameArgs
<1>9. /\ DOMAIN b.rest = DOMAIN c.rest \ {i}
      /\ \A j \in DOMAIN b.rest : b.rest[j] = o[j]
  <2> HIDE DEF c, i, o
  <2> QED
    BY <1>2, <1>7 DEF Restrict
<1>10. ResOK(b, antes)
  <2> HIDE DEF c, i
  <2> QED
    BY <1>2, <1>4, <1>7, <1>9, ResStep
<1>11. OpenOK(b)
  BY <1>2, <1>7, <1>8 DEF OpenOK
<1> DEFINE g == FinOf(c, antes)
<1>12. /\ DOMAIN g = {j \in DOMAIN o : Copied(c, o[j]) # {}}
       /\ \A j \in DOMAIN g : g[j] = CHOOSE r \in Copied(c, o[j]) : TRUE
  BY DEF FinOf
<1>13. /\ Partial(c, antes) = [j \in DOMAIN g \ DOMAIN c.rest |-> g[j]]
       /\ Partial(b, antes) = [j \in DOMAIN g \ DOMAIN b.rest |-> g[j]]
  BY <1>8 DEF Partial, Restrict
<1>14. FilesOK(disk') /\ Same(disk', antes, {m}) /\ (c.open \/ UNCHANGED disk)
       /\ (c.open => m \in DOMAIN disk' /\ disk'[m] = Partial(b, antes))
  <2>1. CASE UNCHANGED disk /\ (c.open => Copied(c, o[i]) = {})
    <3>1. c.open => DOMAIN g \ DOMAIN c.rest = DOMAIN g \ DOMAIN b.rest
      <4> HIDE DEF c, i, o, g
      <4> QED
        BY <1>9, <1>12, <2>1
    <3>2. c.open => Partial(b, antes) = Partial(c, antes)
      BY <1>13, <3>1
    <3> QED
      BY <1>2, <2>1, <3>2
  <2>2. CASE /\ c.open /\ Copied(c, o[i]) # {}
             /\ disk' = Put(m, [j \in DOMAIN Content(m) \cup {i} |->
                                  IF j = i THEN x ELSE Content(m)[j]])
    <3>1. Content(m) = Partial(c, antes)
      BY <1>2, <2>2 DEF Content
    <3>2. DOMAIN Partial(c, antes) \cup {i} = DOMAIN g \ DOMAIN b.rest
      <4>1. i \in DOMAIN g
        BY <1>2, <1>4, <1>12, <2>2
      <4> HIDE DEF c, i, g
      <4> QED
        BY <1>4, <1>9, <1>13, <4>1
    <3>3. g[i] = x
      BY <1>2, <1>4, <1>12, <2>2
    <3>4. [j \in DOMAIN Content(m) \cup {i} |-> IF j = i THEN x ELSE Content(m)[j]]
            = Partial(b, antes)
      <4> HIDE DEF c, i, g, x, m
      <4> QED
        BY <1>13, <3>1, <3>2, <3>3
    <3>5. DOMAIN g \ DOMAIN b.rest \in SUBSET DOMAIN g
      OBVIOUS
    <3> DEFINE p == Partial(b, antes)
    <3>6. /\ Bounded(p)
          /\ n \in UsersFiles => IsUsersFile(p) /\ (LooksFirst => OneLine(p))
          /\ n \notin UsersFiles => IsFile(p)
      <4> HIDE DEF c, n
      <4> QED
        BY <1>2, <1>8, <3>5, CopyIsTyped DEF Partial
    <3>7. disk' = Put(m, p)
      BY <2>2, <3>4
    <3>8. c.open /\ (m \in UsersFiles <=> n \in UsersFiles)
      BY <1>3, <2>2
    <3> HIDE DEF c, m, n, p
    <3>9. /\ FilesOK(Put(m, p)) /\ m \in DOMAIN Put(m, p) /\ Put(m, p)[m] = p
          /\ Same(Put(m, p), disk, {m})
      BY <1>2, <1>3, <3>6, <3>8, PutOK
    <3> QED
      BY <1>2, <3>7, <3>8, <3>9, SameTrans DEF p
  <2> QED
    <3>1. disk' = IF ~c.open \/ Copied(c, c.rest[i]) = {} THEN disk
                  ELSE Put(Temporary(t),
                         [j \in DOMAIN Content(Temporary(t)) \cup {i} |->
                            IF j = i THEN CHOOSE r \in Copied(c, c.rest[i]) : TRUE
                            ELSE Content(Temporary(t))[j]])
      BY DEF CopyRecord
    <3>2. disk' = IF ~c.open \/ Copied(c, o[i]) = {} THEN disk
                  ELSE Put(m, [j \in DOMAIN Content(m) \cup {i} |->
                                 IF j = i THEN CHOOSE r \in Copied(c, o[i]) : TRUE
                                 ELSE Content(m)[j]])
      <4> HIDE DEF c, i, m, o
      <4> QED
        BY <1>3, <1>4, <3>1
    <3>3. CASE ~c.open \/ Copied(c, o[i]) = {}
      BY <2>1, <3>2, <3>3
    <3>4. CASE c.open /\ Copied(c, o[i]) # {}
      BY <2>2, <3>2, <3>4
    <3> QED
      BY <3>3, <3>4
<1>15. Stage(b, disk', antes)
  <2>1. DOMAIN b.rest \subseteq DOMAIN o
    BY <1>2, <1>9
  <2>2. NoCopy(b, disk', antes)
    <3> HIDE DEF c, m
    <3> QED
      BY <1>2, <1>7, <1>8, <1>14 DEF NoCopy, m
  <2> QED
    BY <1>7, <1>8, <1>9, <1>10, <1>11, <1>14, <2>1, <2>2 DEF Stage
<1>16. Moved(t, b, "copy")
  BY <1>7 DEF Moved
<1> QED
  BY <1>1, <1>5, <1>14, <1>15, <1>16, MovedInv DEF Working
(* At the end of the copy loop the result says whether the file changed.   *)
LEMMA ResAtEnd ==
  ASSUME NEW c, NEW a, Args(c), Found(c, a), ResOK(c, a), DOMAIN c.rest = {}
  PROVE  LET f == a[OrigOf(c)]
         IN  /\ c.res = 0 => Changes(c, a)
             /\ c.res # 0 => /\ c.op \in {"unregister", "connect", "disconnect"}
                             /\ c.res \in {1, 2}
                             /\ c.res = 1 => ~Named(f, c.user)
                             /\ c.res = 2 /\ LooksFirst =>
                                  /\ c.op # "unregister"
                                  /\ \E i \in DOMAIN f : f[i].name = c.user /\ Status(c, f[i]) = 2
<1> DEFINE f == a[OrigOf(c)]
<1>1. DOMAIN f \ DOMAIN c.rest = DOMAIN f
  OBVIOUS
<1>2. CASE c.op \in {"prepare", "delete"}
  BY <1>2 DEF ResOK, Changes
<1>3. CASE c.op \notin {"prepare", "delete"}
  <2>1. c.op \in {"unregister", "connect", "disconnect"}
    BY <1>3 DEF Found, Rewriters
  <2>2. /\ c.res \in {0, 1, 2}
        /\ c.res = 1 <=> \A j \in DOMAIN f : f[j].name # c.user
        /\ LooksFirst => \A j \in DOMAIN f : f[j].name = c.user => c.res = Status(c, f[j])
    BY <1>1, <1>3 DEF ResOK
  <2>3. c.op = "unregister" => \A r : r.name = c.user => Status(c, r) = 0
    BY DEF Status
  <2> QED
    BY <1>3, <2>1, <2>2, <2>3 DEF Changes, Named
<1> QED
  BY <1>2, <1>3

LEMMA UnlinkOriginalInv ==
  ASSUME StorageInv, NEW t \in Worker, UnlinkOriginal(t) PROVE StorageInv'
<1> DEFINE c == call[t]
           n == OrigOf(c)
           m == TempOf(c)
<1>1. c.pc = "copy" /\ c.pc \in Working /\ DOMAIN c.rest = {} /\ c.res = 0
  BY DEF UnlinkOriginal, At, Working
<1>2. /\ Stage(c, disk, antes) /\ Args(c) /\ Same(disk, antes, {m}) /\ Found(c, antes)
      /\ OpenOK(c) /\ ResOK(c, antes) /\ NoCopy(c, disk, antes)
      /\ c.open => m \in DOMAIN disk /\ disk[m] = Partial(c, antes)
      /\ FilesOK(disk) /\ FilesOK(antes) /\ CallsOK
  BY <1>1, StageOf DEF Stage
<1>3. Original(t) = n /\ m \in FileNames /\ n \in FileNames /\ m # n
  BY <1>2, CallNames DEF OrigOf, Original, Op
<1>4. UNCHANGED <<db_mutex, antes, caidas>> /\ Goto(t, "rename")
      /\ disk' = Restrict(disk, DOMAIN disk \ {n})
  BY <1>3 DEF UnlinkOriginal, Unlink
<1>5. PICK b : Moved(t, b, "rename") /\ b.res = 0 /\ b.open = c.open
  BY <1>1, <1>2, <1>4, GotoMoves
<1>6. /\ b.pc = "rename" /\ Args(b) /\ OrigOf(b) = n /\ TempOf(b) = m /\ b.op = c.op
      /\ Found(b, antes) /\ FinOf(b, antes) = FinOf(c, antes)
      /\ Changes(c, antes) => Changes(b, antes)
  BY <1>2, <1>5, ArgsStay DEF Moved, SameArgs
<1>7. Changes(b, antes)
  BY <1>1, <1>2, <1>6, ResAtEnd
<1>8. FilesOK(disk') /\ n \notin DOMAIN disk' /\ Same(disk', disk, {n})
  <2> HIDE DEF n
  <2> QED
    BY <1>2, <1>4, UnlinkOK
<1>9. Same(disk', antes, {n, m})
  <2> HIDE DEF n, m
  <2> QED
    BY <1>2, <1>8, SameTrans
<1>10. c.open => m \in DOMAIN disk' /\ disk'[m] = FinOf(c, antes)
  <2>1. Partial(c, antes) = FinOf(c, antes)
    BY <1>1, PartialEnds
  <2> HIDE DEF c, n, m
  <2> QED
    BY <1>2, <1>3, <1>8, <2>1 DEF Same
<1>11. OpenOK(b) /\ NoCopy(b, disk', antes)
  <2>1. m \in DOMAIN disk' => m \in DOMAIN disk
    BY <1>4 DEF Restrict
  <2> QED
    BY <1>2, <1>5, <1>6, <2>1 DEF OpenOK, NoCopy
<1>12. Stage(b, disk', antes)
  BY <1>5, <1>6, <1>7, <1>8, <1>9, <1>10, <1>11 DEF Stage
<1> QED
  BY <1>1, <1>4, <1>5, <1>8, <1>12, MovedInv DEF Working

LEMMA UnlinkTemporaryInv ==
  ASSUME StorageInv, NEW t \in Worker, UnlinkTemporary(t) PROVE StorageInv'
<1> DEFINE c == call[t]
           n == OrigOf(c)
           m == TempOf(c)
<1>1. c.pc = "copy" /\ c.pc \in Working /\ DOMAIN c.rest = {} /\ c.res # 0
  BY DEF UnlinkTemporary, At, Working
<1>2. /\ Stage(c, disk, antes) /\ Args(c) /\ Same(disk, antes, {m}) /\ Found(c, antes)
      /\ ResOK(c, antes) /\ FilesOK(disk) /\ CallsOK
  BY <1>1, StageOf DEF Stage
<1>3. Temporary(t) = m
  BY DEF TempOf, Temporary, Op
<1>4. UNCHANGED <<db_mutex, antes, caidas>> /\ Goto(t, "unlock")
      /\ disk' = Restrict(disk, DOMAIN disk \ {m})
  BY <1>3 DEF UnlinkTemporary, Unlink
<1>5. PICK b : Moved(t, b, "unlock") /\ b.res = c.res
  BY <1>2, <1>4, GotoMoves
<1>6. /\ b.pc = "unlock" /\ Args(b) /\ OrigOf(b) = n /\ TempOf(b) = m
      /\ b.op = c.op /\ b.user = c.user
  BY <1>2, <1>5, ArgsStay DEF Moved, SameArgs
<1>7. FilesOK(disk') /\ Same(disk', antes, {m}) /\ m \notin DOMAIN disk'
  <2> HIDE DEF m
  <2>1. FilesOK(disk') /\ Same(disk', disk, {m}) /\ m \notin DOMAIN disk'
    BY <1>2, <1>4, UnlinkOK
  <2> QED
    BY <1>2, <2>1, SameTrans
<1>8. /\ c.op \in {"unregister", "connect", "disconnect"}
      /\ c.res \in {1, 2}
      /\ c.res = 1 => ~Named(antes[n], c.user)
      /\ c.res = 2 /\ LooksFirst =>
           /\ c.op # "unregister"
           /\ \E i \in DOMAIN antes[n] : antes[n][i].name = c.user /\ Status(c, antes[n][i]) = 2
  BY <1>1, <1>2, ResAtEnd
<1>9. \A r : r.name = c.user => Status(b, r) = Status(c, r)
  BY <1>6, <1>8 DEF Status
<1>10. ContentOf(antes, n) = antes[n]
  BY <1>2 DEF Found, ContentOf
<1>11. ~LooksFirst => Failing # {}
  BY DEF LooksFirst
<1>12. Gives_Up(b, disk', antes)
  <2> HIDE DEF c, n, m
  <2> QED
    BY <1>5, <1>6, <1>7, <1>8, <1>9, <1>10, <1>11 DEF Gives_Up
<1>13. Stage(b, disk', antes)
  BY <1>6, <1>8, <1>12 DEF Stage, Final, Rewriters
<1> QED
  BY <1>1, <1>4, <1>5, <1>7, <1>13, MovedInv DEF Working

LEMMA RenameInv ==
  ASSUME StorageInv, NEW t \in Worker, Rename(t) PROVE StorageInv'
<1> DEFINE c == call[t]
           n == OrigOf(c)
           m == TempOf(c)
           p == IF c.op = "unregister" THEN "unlink_msgs" ELSE "unlock"
<1>1. c.pc = "rename" /\ c.pc \in Working
  BY DEF Rename, At, Working
<1>2. /\ Stage(c, disk, antes) /\ Args(c) /\ Same(disk, antes, {n, m}) /\ Found(c, antes)
      /\ OpenOK(c) /\ c.res = 0 /\ Changes(c, antes) /\ NoCopy(c, disk, antes)
      /\ n \notin DOMAIN disk
      /\ c.open => m \in DOMAIN disk /\ disk[m] = FinOf(c, antes)
      /\ FilesOK(disk) /\ CallsOK
  BY <1>1, StageOf DEF Stage
<1>3. Temporary(t) = m /\ Original(t) = n /\ m \in FileNames /\ n \in FileNames /\ m # n
      /\ (n \in UsersFiles <=> m \in UsersFiles)
  BY <1>2, CallNames DEF OrigOf, TempOf, Original, Temporary, Op, Found
<1>4. /\ UNCHANGED <<db_mutex, antes, caidas>> /\ Goto(t, p)
      /\ disk' = IF m \notin DOMAIN disk THEN disk
                 ELSE Restrict(Put(n, disk[m]), (DOMAIN disk \cup {n}) \ {m})
  BY <1>3 DEF Rename, Op
<1>5. PICK b : Moved(t, b, p) /\ b.res = 0 /\ b.open = c.open
  BY <1>2, <1>4, GotoMoves
<1>6. /\ b.pc = p /\ Args(b) /\ OrigOf(b) = n /\ TempOf(b) = m /\ b.op = c.op
      /\ Found(b, antes) /\ FinOf(b, antes) = FinOf(c, antes) /\ Changes(b, antes)
  BY <1>2, <1>5, ArgsStay DEF Moved, SameArgs
<1>7. /\ FilesOK(disk') /\ Same(disk', antes, {n, m}) /\ m \notin DOMAIN disk'
      /\ c.open => n \in DOMAIN disk' /\ disk'[n] = FinOf(c, antes)
      /\ m \notin DOMAIN disk => n \notin DOMAIN disk'
  <2>1. CASE m \notin DOMAIN disk
    BY <1>2, <1>4, <2>1
  <2>2. CASE m \in DOMAIN disk
    <3> HIDE DEF c, m, n
    <3>1. /\ DOMAIN disk' = (DOMAIN disk \cup {n}) \ {m}
          /\ \A q \in DOMAIN disk' : disk'[q] = IF q = n THEN disk[m] ELSE disk[q]
      BY <1>4, <2>2 DEF Put, Restrict
    <3>2. FilesOK(disk')
      BY <1>2, <1>3, <2>2, <3>1 DEF FilesOK
    <3>3. Same(disk', antes, {n, m})
      BY <1>2, <3>1 DEF Same
    <3>4. n \in DOMAIN disk' /\ disk'[n] = disk[m]
      BY <1>3, <3>1
    <3>5. m \notin DOMAIN disk'
      BY <3>1
    <3> QED
      BY <1>2, <2>2, <3>2, <3>3, <3>4, <3>5
  <2> QED
    BY <2>1, <2>2
<1>8. OpenOK(b)
  BY <1>2, <1>5, <1>6 DEF OpenOK
<1>9. Rewritten(b, disk', antes)
  <2>1. ~b.open /\ m \notin DOMAIN antes => n \notin DOMAIN disk'
    BY <1>2, <1>5, <1>7 DEF NoCopy
  <2> QED
    BY <1>5, <1>6, <1>7, <1>8, <2>1 DEF Rewritten
<1>10. Stage(b, disk', antes)
  <2>1. CASE c.op = "unregister"
    BY <1>6, <1>7, <1>9, <2>1 DEF Stage
  <2>2. CASE c.op # "unregister"
    <3>1. Rewrites(b, disk', antes) /\ b.op \in Rewriters
      BY <1>6, <1>7, <1>9, <2>2 DEF Rewrites, Found
    <3> QED
      BY <1>6, <2>2, <3>1 DEF Stage, Final
  <2> QED
    BY <2>1, <2>2
<1>11. p \in Working
  BY DEF Working
<1> HIDE DEF p
<1> QED
  BY <1>1, <1>4, <1>5, <1>7, <1>10, <1>11, MovedInv

LEMMA UnlinkMessagesInv ==
  ASSUME StorageInv, NEW t \in Worker, UnlinkMessages(t) PROVE StorageInv'
<1> DEFINE c == call[t]
           n == OrigOf(c)
           m == TempOf(c)
           k == msg_file(c.user)
<1>1. c.pc = "unlink_msgs" /\ c.pc \in Working
  BY DEF UnlinkMessages, At, Working
<1>2. /\ Stage(c, disk, antes) /\ Args(c) /\ Same(disk, antes, {n, m})
      /\ c.op = "unregister" /\ Rewritten(c, disk, antes)
      /\ FilesOK(disk) /\ CallsOK
  BY <1>1, StageOf DEF Stage
<1>3. n \in UsersFiles /\ k \notin UsersFiles /\ n \in FileNames
  BY <1>2, CallNames, Names DEF Args, Rewriters
<1>4. UNCHANGED <<db_mutex, antes, caidas>> /\ Goto(t, "unlock")
      /\ disk' = Restrict(disk, DOMAIN disk \ {k})
  BY DEF UnlinkMessages, Unlink
<1>5. PICK b : Moved(t, b, "unlock") /\ b.res = c.res /\ b.open = c.open
  BY <1>2, <1>4, GotoMoves
<1>6. /\ b.pc = "unlock" /\ Args(b) /\ OrigOf(b) = n /\ TempOf(b) = m
      /\ b.op = c.op /\ b.user = c.user
      /\ FinOf(b, antes) = FinOf(c, antes)
      /\ Found(c, antes) => Found(b, antes)
      /\ Changes(c, antes) => Changes(b, antes)
  BY <1>2, <1>5, ArgsStay DEF Moved, SameArgs
<1>7. FilesOK(disk') /\ k \notin DOMAIN disk' /\ Same(disk', disk, {k})
      /\ Same(disk', antes, {n, m, k})
  <2> HIDE DEF n, m, k, c
  <2>1. FilesOK(disk') /\ k \notin DOMAIN disk' /\ Same(disk', disk, {k})
    BY <1>2, <1>4, UnlinkOK
  <2> QED
    BY <1>2, <2>1, SameTrans
<1>8. c.open => n \in DOMAIN disk' /\ disk'[n] = FinOf(c, antes)
  <2>1. c.open => n \in DOMAIN disk /\ disk[n] = FinOf(c, antes)
    BY <1>2 DEF Rewritten
  <2> HIDE DEF n, k, c
  <2> QED
    BY <1>3, <1>7, <2>1 DEF Same
<1>9. Rewritten(b, disk', antes)
  <2>1. DOMAIN disk' \subseteq DOMAIN disk
    BY <1>4 DEF Restrict
  <2> QED
    BY <1>2, <1>5, <1>6, <1>8, <2>1 DEF Rewritten, OpenOK
<1>10. Rewrites(b, disk', antes)
  BY <1>2, <1>6, <1>7, <1>9 DEF Rewrites
<1>11. Stage(b, disk', antes)
  BY <1>2, <1>6, <1>10 DEF Stage, Final, Rewriters
<1> QED
  BY <1>1, <1>4, <1>5, <1>7, <1>11, MovedInv DEF Working
(* No call leaves usuarios.txt unlinked, if its copy was opened.           *)
LEMMA FinalHasUsers ==
  ASSUME NEW c, NEW d, NEW a, Args(c), Final(c, d, a), "prepare_temp" \notin Failing,
         DB_USERS_FILE \in DOMAIN a
  PROVE  DB_USERS_FILE \in DOMAIN d
<1> DEFINE n == DB_USERS_FILE
<1>1. n \in FileNames /\ \A N : n \notin N /\ Same(d, a, N) => n \in DOMAIN d
  BY Names DEF Same, UsersFiles
<1>2. n # TempOf(c) /\ n # msg_file(c.user) /\ n # temp_file(c.user)
  BY Names DEF TempOf, Args, UsersFiles
<1>3. CASE Registers(c, d, a)
  BY <1>1, <1>3 DEF Registers
<1>4. CASE c.op = "store" /\ Stores(c, d, a)
  <2>1. OrigOf(c) # n
    BY <1>2, <1>4 DEF OrigOf
  <2> QED
    BY <1>1, <1>4, <2>1 DEF Stores
<1>5. CASE HasRead(c, d, a)
  BY <1>1, <1>5 DEF HasRead
<1>6. CASE Gives_Up(c, d, a)
  BY <1>1, <1>2, <1>6 DEF Gives_Up
<1>7. CASE c.op \in Rewriters /\ Rewrites(c, d, a)
  <2>1. CASE c.op = "delete"
    <3>1. OrigOf(c) # n
      BY <1>2, <2>1 DEF OrigOf
    <3>2. Same(d, a, {OrigOf(c), TempOf(c)})
      BY <1>7, <2>1 DEF Rewrites
    <3> QED
      BY <1>1, <1>2, <3>1, <3>2
  <2>2. CASE c.op # "delete"
    <3>1. OrigOf(c) = n
      BY <1>7, <2>2 DEF OrigOf, Rewriters
    <3>2. c.open
      BY <1>7, <2>2 DEF Rewrites, Rewritten, OpenOK
    <3> QED
      BY <1>7, <3>1, <3>2 DEF Rewrites, Rewritten
  <2> QED
    BY <2>1, <2>2
<1> QED
  BY <1>3, <1>4, <1>5, <1>6, <1>7 DEF Final

LEMMA UnlockInv ==
  ASSUME StorageInv, NEW t \in Worker, Unlock(t) PROVE StorageInv'
<1>1. call[t].pc = "unlock" /\ call[t].pc \in Working
  BY DEF Unlock, At, Working
<1>2. /\ Stage(call[t], disk, antes) /\ Args(call[t]) /\ FilesOK(disk) /\ CallsOK
      /\ Final(call[t], disk, antes)
  BY <1>1, StageOf DEF Stage
<1>3. /\ db_mutex' = None /\ call' = [call EXCEPT ![t] = Idle] /\ antes' = disk
      /\ UNCHANGED <<disk, caidas>>
  BY DEF Unlock
<1>4. db_mutex = t /\ \A s \in Worker \ {t} : call[s].pc \notin Working
  BY <1>1 DEF StorageInv, Mutex
<1>5. /\ DOMAIN call' = Worker /\ call'[t] = Idle
      /\ \A s \in Worker \ {t} : call'[s] = call[s]
  BY <1>2, <1>3 DEF CallsOK
<1>6. Idle.pc = "idle" /\ "idle" \notin Working
  BY DEF Idle, Working
<1>7. \A s \in Worker : call'[s].pc \notin Working
  BY <1>4, <1>5, <1>6
<1>8. CallsOK' /\ Mutex'
  BY <1>2, <1>3, <1>5, <1>6, <1>7, NoneAssumption DEF CallsOK, Mutex
<1>9. HasUsers'
  BY <1>2, <1>3, FinalHasUsers DEF StorageInv, HasUsers
<1> QED
  BY <1>2, <1>3, <1>7, <1>8, <1>9 DEF StorageInv

LEMMA CallInv ==
  ASSUME StorageInv, NEW t \in Worker, Call(t) PROVE StorageInv'
<1> DEFINE b == [call[t] EXCEPT !.pc = "lock"]
<1>1. /\ CallsOK /\ Mutex /\ call[t].pc = "idle" /\ Goto(t, "lock")
      /\ UNCHANGED <<disk, db_mutex, antes, caidas>>
  BY DEF StorageInv, Call, At
<1>2. DOMAIN call = Worker /\ DOMAIN call[t] = DOMAIN Idle
  BY <1>1 DEF CallsOK
<1>3. /\ DOMAIN call' = Worker /\ call'[t] = b /\ DOMAIN b = DOMAIN Idle /\ b.pc = "lock"
      /\ \A s \in Worker \ {t} : call'[s] = call[s]
  BY <1>1, <1>2 DEF Goto, Idle
<1>4. "idle" \notin Working /\ "lock" \notin Working
  BY DEF Working
<1> HIDE DEF b
<1>5. CallsOK' /\ Mutex'
  <2>1. call[t].pc \notin Working /\ call'[t].pc \notin Working
    BY <1>1, <1>3, <1>4
  <2>2. Mutex'
    BY <1>1, <1>3, <2>1 DEF Mutex
  <2>3. CallsOK'
    BY <1>1, <1>3 DEF CallsOK
  <2> QED
    BY <2>2, <2>3
<1>6. \A s \in Worker : call'[s].pc \in Working => s # t /\ call'[s] = call[s]
  BY <1>3, <1>4
<1>7. \A s \in Worker : call'[s].pc \in Working => Stage(call'[s], disk', antes')
  BY <1>1, <1>6 DEF StorageInv
<1> QED
  BY <1>1, <1>5, <1>7 DEF StorageInv, HasUsers

(* What a thread does with db_mutex is decided when it gets it.            *)
LEMMA LockBegins ==
  ASSUME NEW t \in Worker, Lock(t)
  PROVE  \E b : /\ call' = [call EXCEPT ![t] = b] /\ DOMAIN b = DOMAIN Idle /\ Args(b)
                /\ b.pc = IF b.op = "store" THEN "append" ELSE "open"
<1>1. \A u \in User :
        /\ \A op \in {"register", "unregister", "disconnect", "pending", "users", "info"} :
             /\ DOMAIN Begin(op, u) = DOMAIN Idle
             /\ Args(Begin(op, u)) /\ Begin(op, u).op # "store" /\ Begin(op, u).pc = "open"
        /\ \A a \in Addr : LET b == [Begin("connect", u) EXCEPT !.addr = a]
             IN  /\ DOMAIN b = DOMAIN Idle /\ Args(b) /\ b.op = "connect" /\ b.pc = "open"
        /\ \A v \in User : LET b == [Begin("prepare", u) EXCEPT !.dest = v]
             IN  /\ DOMAIN b = DOMAIN Idle /\ Args(b) /\ b.op = "prepare" /\ b.pc = "open"
        /\ \A n \in 1..MaxId : LET b == [Begin("delete", u) EXCEPT !.id = n]
             IN  /\ DOMAIN b = DOMAIN Idle /\ Args(b) /\ b.op = "delete" /\ b.pc = "open"
  BY DEF Begin, Idle, Args, Functions8, Rewriters
<1>2. \A u \in User, v \in User, n \in 1..MaxId, m \in Message :
        LET b == [Begin("store", u) EXCEPT
                    !.msg = [sender |-> v, id |-> n, message |-> m, fileName |-> FALSE]]
        IN  DOMAIN b = DOMAIN Idle /\ Args(b) /\ b.op = "store" /\ b.pc = "append"
  BY DEF Begin, Idle, Args, Functions8, Rewriters, PendingMsg
<1>3. PICK u \in User :
       \/ \E op \in {"register", "unregister", "disconnect", "pending", "users", "info"} :
            call' = [call EXCEPT ![t] = Begin(op, u)]
       \/ \E a \in Addr : call' = [call EXCEPT ![t] = [Begin("connect", u) EXCEPT !.addr = a]]
       \/ \E v \in User : call' = [call EXCEPT ![t] = [Begin("prepare", u) EXCEPT !.dest = v]]
       \/ \E n \in 1..MaxId : call' = [call EXCEPT ![t] = [Begin("delete", u) EXCEPT !.id = n]]
       \/ \E v \in User, n \in 1..MaxId, m \in Message :
            call' = [call EXCEPT ![t] = [Begin("store", u) EXCEPT
                       !.msg = [sender |-> v, id |-> n, message |-> m, fileName |-> FALSE]]]
  BY DEF Lock
<1>4. ASSUME NEW b, call' = [call EXCEPT ![t] = b], DOMAIN b = DOMAIN Idle, Args(b),
             b.pc = IF b.op = "store" THEN "append" ELSE "open"
      PROVE  \E x : /\ call' = [call EXCEPT ![t] = x] /\ DOMAIN x = DOMAIN Idle /\ Args(x)
                    /\ x.pc = IF x.op = "store" THEN "append" ELSE "open"
  BY <1>4
<1>5. CASE \E op \in {"register", "unregister", "disconnect", "pending", "users", "info"} :
             call' = [call EXCEPT ![t] = Begin(op, u)]
  <2>1. PICK op \in {"register", "unregister", "disconnect", "pending", "users", "info"} :
          call' = [call EXCEPT ![t] = Begin(op, u)]
    BY <1>5
  <2> DEFINE b == Begin(op, u)
  <2>2. call' = [call EXCEPT ![t] = b] /\ DOMAIN b = DOMAIN Idle /\ Args(b)
        /\ b.op # "store" /\ b.pc = "open"
    BY <1>1, <2>1
  <2> HIDE DEF b
  <2> QED
    BY <1>4, <2>2
<1>6. CASE \E a \in Addr : call' = [call EXCEPT ![t] = [Begin("connect", u) EXCEPT !.addr = a]]
  <2>1. PICK a \in Addr : call' = [call EXCEPT ![t] = [Begin("connect", u) EXCEPT !.addr = a]]
    BY <1>6
  <2> DEFINE b == [Begin("connect", u) EXCEPT !.addr = a]
  <2>2. call' = [call EXCEPT ![t] = b] /\ DOMAIN b = DOMAIN Idle /\ Args(b)
        /\ b.op = "connect" /\ b.pc = "open"
    BY <1>1, <2>1
  <2> HIDE DEF b
  <2> QED
    BY <1>4, <2>2
<1>7. CASE \E v \in User : call' = [call EXCEPT ![t] = [Begin("prepare", u) EXCEPT !.dest = v]]
  <2>1. PICK v \in User : call' = [call EXCEPT ![t] = [Begin("prepare", u) EXCEPT !.dest = v]]
    BY <1>7
  <2> DEFINE b == [Begin("prepare", u) EXCEPT !.dest = v]
  <2>2. call' = [call EXCEPT ![t] = b] /\ DOMAIN b = DOMAIN Idle /\ Args(b)
        /\ b.op = "prepare" /\ b.pc = "open"
    BY <1>1, <2>1
  <2> HIDE DEF b
  <2> QED
    BY <1>4, <2>2
<1>8. CASE \E n \in 1..MaxId : call' = [call EXCEPT ![t] = [Begin("delete", u) EXCEPT !.id = n]]
  <2>1. PICK n \in 1..MaxId : call' = [call EXCEPT ![t] = [Begin("delete", u) EXCEPT !.id = n]]
    BY <1>8
  <2> DEFINE b == [Begin("delete", u) EXCEPT !.id = n]
  <2>2. call' = [call EXCEPT ![t] = b] /\ DOMAIN b = DOMAIN Idle /\ Args(b)
        /\ b.op = "delete" /\ b.pc = "open"
    BY <1>1, <2>1
  <2> HIDE DEF b
  <2> QED
    BY <1>4, <2>2
<1>9. CASE \E v \in User, n \in 1..MaxId, m \in Message :
            call' = [call EXCEPT ![t] = [Begin("store", u) EXCEPT
                       !.msg = [sender |-> v, id |-> n, message |-> m, fileName |-> FALSE]]]
  <2>1. PICK v \in User, n \in 1..MaxId, m \in Message :
            call' = [call EXCEPT ![t] = [Begin("store", u) EXCEPT
                       !.msg = [sender |-> v, id |-> n, message |-> m, fileName |-> FALSE]]]
    BY <1>9
  <2> DEFINE b == [Begin("store", u) EXCEPT
                     !.msg = [sender |-> v, id |-> n, message |-> m, fileName |-> FALSE]]
  <2>2. call' = [call EXCEPT ![t] = b] /\ DOMAIN b = DOMAIN Idle /\ Args(b)
        /\ b.op = "store" /\ b.pc = "append"
    BY <1>2, <2>1
  <2> HIDE DEF b
  <2> QED
    BY <1>4, <2>2
<1> QED
  BY <1>3, <1>5, <1>6, <1>7, <1>8, <1>9

LEMMA LockInv ==
  ASSUME StorageInv, NEW t \in Worker, Lock(t) PROVE StorageInv'
<1>1. /\ CallsOK /\ Mutex /\ FilesOK(disk) /\ db_mutex = None /\ antes = disk
      /\ db_mutex' = t /\ antes' = disk /\ UNCHANGED <<disk, caidas>>
  BY DEF StorageInv, Lock
<1>2. PICK b : /\ call' = [call EXCEPT ![t] = b] /\ DOMAIN b = DOMAIN Idle /\ Args(b)
               /\ b.pc = IF b.op = "store" THEN "append" ELSE "open"
  BY LockBegins
<1>3. /\ DOMAIN call' = Worker /\ call'[t] = b
      /\ \A s \in Worker \ {t} : call'[s] = call[s]
  BY <1>1, <1>2 DEF CallsOK
<1>4. b.pc \in {"open", "append"} /\ b.pc \in Working
  BY <1>2 DEF Working
<1>5. \A s \in Worker \ {t} : call'[s].pc \notin Working
  BY <1>1, <1>3, NoneAssumption DEF Mutex
<1>6. CallsOK' /\ Mutex'
  BY <1>1, <1>2, <1>3, <1>4, <1>5 DEF CallsOK, Mutex
<1>7. Stage(b, disk, disk)
  <2>1. Same(disk, disk, {})
    BY DEF Same
  <2> QED
    BY <1>2, <1>4, <2>1 DEF Stage
<1>8. \A s \in Worker : call'[s].pc \in Working => Stage(call'[s], disk', antes')
  BY <1>1, <1>3, <1>5, <1>7
<1> QED
  BY <1>1, <1>6, <1>8, NoneAssumption DEF StorageInv, HasUsers

LEMMA CrashInv == ASSUME StorageInv, Crash PROVE StorageInv'
<1> DEFINE f == Content(DB_USERS_FILE)
<1>1. /\ call' = [t \in Worker |-> Idle] /\ db_mutex' = None /\ antes' = disk'
      /\ disk' = Put(DB_USERS_FILE, f) /\ caidas' = caidas + 1
  BY DEF Crash
<1>2. FilesOK(disk) /\ DB_USERS_FILE \in FileNames /\ DB_USERS_FILE \in UsersFiles
      /\ caidas \in Nat
  BY Names DEF StorageInv, UsersFiles
<1>3. Bounded(f) /\ IsUsersFile(f) /\ (LooksFirst => OneLine(f))
  BY <1>2, ContentOK DEF Content, ContentOf
<1>4. FilesOK(disk') /\ DB_USERS_FILE \in DOMAIN disk'
  <2> HIDE DEF f
  <2>1. FilesOK(Put(DB_USERS_FILE, f)) /\ DB_USERS_FILE \in DOMAIN Put(DB_USERS_FILE, f)
    BY <1>2, <1>3, PutOK
  <2> QED
    BY <1>1, <2>1
<1>5. CallsOK' /\ Mutex' /\ \A t \in Worker : call'[t].pc \notin Working
  BY <1>1, NoneAssumption DEF CallsOK, Mutex, Idle, Working
<1>6. caidas' \in Nat
  BY <1>1, <1>2
<1> QED
  BY <1>1, <1>4, <1>5, <1>6 DEF StorageInv, HasUsers

LEMMA StorageStutter == ASSUME StorageInv, UNCHANGED storageVars PROVE StorageInv'
BY DEF StorageInv, storageVars, CallsOK, Mutex, HasUsers

LEMMA StorageNextInv == StorageInv /\ [StorageNext]_storageVars => StorageInv'
<1> SUFFICES ASSUME StorageInv, [StorageNext]_storageVars PROVE StorageInv'
  OBVIOUS
<1>1. ASSUME NEW t \in Worker, Continue(t) PROVE StorageInv'
  BY <1>1, LockInv, RegisterLooksInv, ReadsInv, OpenOriginalInv, AppendInv, OpenTemporaryInv,
     CopyInv, UnlinkOriginalInv, UnlinkTemporaryInv, RenameInv, UnlinkMessagesInv, UnlockInv
     DEF Continue
<1> QED
  BY <1>1, CallInv, CrashInv, StorageStutter DEF StorageNext

LEMMA StorageInvariant == StorageSpec => []StorageInv
<1>1. QED
  BY InitInv, StorageNextInv, PTL DEF StorageSpec

-----------------------------------------------------------------------------
(* The theorems. *)

(* Every file that is on the disk at any moment, temporary or not, has     *)
(* records of its kind, and a thread is inside a function of database.c    *)
(* exactly while it holds db_mutex.                                        *)
THEOREM StorageTypes == StorageSpec => []StorageTypeOK
<1>1. StorageInv => StorageTypeOK
  <2> SUFFICES ASSUME StorageInv PROVE StorageTypeOK
    OBVIOUS
  <2>1. \A t \in Worker : call[t].pc \notin {"idle", "lock"} <=> db_mutex = t
    BY DEF StorageInv, CallsOK, Mutex, Working
  <2> QED
    BY <2>1 DEF StorageInv, Mutex, FilesOK, UsersFiles, StorageTypeOK
<1> QED
  BY <1>1, StorageInvariant, PTL

(* usuarios.txt and its copy never have two lines of one user, if the open *)
(* with which db_register looks for the user does not fail.                *)
THEOREM OneLinePerName == StorageSpec => []OneLinePerUser
<1>1. StorageInv => OneLinePerUser
  BY DEF StorageInv, FilesOK, UsersFiles, OneLinePerUser, OneLine, LooksFirst
<1> QED
  BY <1>1, StorageInvariant, PTL

(* At every point of a rewriting the file as it was, or its finished copy, *)
(* is on the disk under one of the two names.                              *)
THEOREM OldOrNewOnDisk == StorageSpec => []CopyOnDisk
<1>1. StorageInv => CopyOnDisk
  <2> SUFFICES ASSUME StorageInv, NEW t \in Worker,
                      call[t].pc \in {"temp", "copy", "rename", "unlink_msgs"},
                      At(t, "temp") \/ call[t].open
               PROVE  \/ /\ Original(t) \in DOMAIN disk
                         /\ disk[Original(t)] \in {antes[Original(t)], Finished(t)}
                      \/ Temporary(t) \in DOMAIN disk /\ disk[Temporary(t)] = Finished(t)
    BY DEF CopyOnDisk
  <2> DEFINE c == call[t]
             n == OrigOf(c)
             m == TempOf(c)
  <2>1. c.pc \in Working
    BY DEF Working
  <2>2. Original(t) = n /\ Temporary(t) = m
    BY DEF Original, Temporary, OrigOf, TempOf, Op
  <2>3. Finished(t) = FinOf(c, antes)
    BY <2>2 DEF Finished, FinOf
  <2>4. Stage(c, disk, antes) /\ Args(c) /\ n \in FileNames /\ n # m
    BY <2>1, StageOf, CallNames
  <2>5. CASE c.pc \in {"temp", "copy"}
    <3>1. n \in DOMAIN antes /\ (Same(disk, antes, {}) \/ Same(disk, antes, {m}))
      BY <2>4, <2>5 DEF Stage, Found
    <3> HIDE DEF n, m
    <3>2. n \in DOMAIN disk /\ disk[n] = antes[n]
      BY <2>4, <3>1 DEF Same
    <3> QED
      BY <2>2, <3>2
  <2>6. CASE c.pc = "rename"
    BY <2>2, <2>3, <2>4, <2>6 DEF Stage, At
  <2>7. CASE c.pc = "unlink_msgs"
    BY <2>2, <2>3, <2>4, <2>7 DEF Stage, At, Rewritten
  <2> QED
    BY <2>5, <2>6, <2>7
<1> QED
  BY <1>1, StorageInvariant, PTL
-----------------------------------------------------------------------------
(* The functions implement Database.  UsuariosOf and MensajesOf are what   *)
(* the files d are to a reader outside db_mutex.                           *)

LinesOf(f)    == [u \in {f[i].name : i \in DOMAIN f} |-> LineOf(f, u)]
Fields(r)     == [connected |-> r.connected, addr |-> r.addr, last_id |-> r.last_id]
UsuariosOf(d) == LinesOf(ContentOf(d, DB_USERS_FILE))
MensajesOf(d) == [u \in User |-> ContentOf(d, msg_file(u))]

(* With one line per user, the line of a user is the one that has its name.*)
LEMMA LinesAre ==
  ASSUME NEW f, OneLine(f)
  PROVE  /\ \A u : Named(f, u) <=> u \in DOMAIN LinesOf(f)
         /\ \A i \in DOMAIN f : /\ f[i].name \in DOMAIN LinesOf(f)
                                /\ LinesOf(f)[f[i].name] = Fields(f[i])
<1>1. DOMAIN LinesOf(f) = {f[i].name : i \in DOMAIN f}
  BY DEF LinesOf
<1>2. \A u : Named(f, u) <=> u \in DOMAIN LinesOf(f)
  BY <1>1 DEF Named
<1>3. ASSUME NEW i \in DOMAIN f PROVE LinesOf(f)[f[i].name] = Fields(f[i])
  <2> DEFINE k == CHOOSE j \in DOMAIN f : f[j].name = f[i].name
  <2>1. k \in DOMAIN f /\ f[k].name = f[i].name
    OBVIOUS
  <2>2. LineOf(f, f[i].name) = Fields(f[k])
    BY DEF LineOf, Fields
  <2>3. k = i
    <3> HIDE DEF k
    <3> QED
      BY <2>1 DEF OneLine
  <2> QED
    BY <2>2, <2>3 DEF LinesOf
<1> QED
  BY <1>1, <1>2, <1>3

(* A function of users is known by its domain and its lines.               *)
LEMMA LinesEqual ==
  ASSUME NEW f, OneLine(f), NEW S, NEW g, g = [u \in S |-> g[u]],
         \A u : u \in S <=> Named(f, u),
         \A i \in DOMAIN f : g[f[i].name] = Fields(f[i])
  PROVE  LinesOf(f) = g
<1>1. /\ \A u : Named(f, u) <=> u \in DOMAIN LinesOf(f)
      /\ \A i \in DOMAIN f : LinesOf(f)[f[i].name] = Fields(f[i])
  BY LinesAre
<1>2. DOMAIN LinesOf(f) = S /\ LinesOf(f) = [u \in DOMAIN LinesOf(f) |-> LinesOf(f)[u]]
  BY <1>1 DEF LinesOf
<1>3. \A u \in S : LinesOf(f)[u] = g[u]
  BY <1>1 DEF Named
<1> QED
  BY <1>2, <1>3

(* What no call has touched is seen as it was.                             *)
LEMMA SeenSame ==
  ASSUME NEW d, NEW a, NEW N, Same(d, a, N)
  PROVE  /\ DB_USERS_FILE \notin N => UsuariosOf(d) = UsuariosOf(a)
         /\ \A u \in User : msg_file(u) \notin N => MensajesOf(d)[u] = MensajesOf(a)[u]
         /\ N \cap {msg_file(u) : u \in User} = {} => MensajesOf(d) = MensajesOf(a)
<1>1. DB_USERS_FILE \notin N => UsuariosOf(d) = UsuariosOf(a)
  BY SameContent, Names DEF UsuariosOf, UsersFiles
<1>2. \A u \in User : msg_file(u) \notin N => ContentOf(d, msg_file(u)) = ContentOf(a, msg_file(u))
  BY SameContent, Names
<1> QED
  BY <1>1, <1>2 DEF MensajesOf

(* One line is rewritten, the others are copied.                           *)
LineIs(f, g, u, l) ==
  /\ DOMAIN g = DOMAIN f
  /\ \A i \in DOMAIN f : /\ g[i].name = f[i].name
                         /\ f[i].name = u => Fields(g[i]) = l
                         /\ f[i].name # u => Fields(g[i]) = Fields(f[i])

LEMMA LineRewritten ==
  ASSUME NEW f, NEW g, NEW u, NEW l, OneLine(f), Named(f, u), LineIs(f, g, u, l)
  PROVE  LinesOf(g) = [LinesOf(f) EXCEPT ![u] = l]
<1> DEFINE h == [LinesOf(f) EXCEPT ![u] = l]
<1>1. /\ \A v : Named(f, v) <=> v \in DOMAIN LinesOf(f)
      /\ \A i \in DOMAIN f : LinesOf(f)[f[i].name] = Fields(f[i])
  BY LinesAre
<1>2. DOMAIN h = DOMAIN LinesOf(f) /\ h = [v \in DOMAIN LinesOf(f) |-> h[v]]
  BY DEF LinesOf
<1>3. DOMAIN g = DOMAIN f /\ \A i \in DOMAIN f : g[i].name = f[i].name
  BY DEF LineIs
<1>4. OneLine(g)
  BY <1>3 DEF OneLine
<1>5. \A v : Named(g, v) <=> Named(f, v)
  BY <1>3 DEF Named
<1>6. ASSUME NEW i \in DOMAIN g PROVE h[g[i].name] = Fields(g[i])
  <2>1. /\ i \in DOMAIN f /\ f[i].name \in DOMAIN LinesOf(f) /\ g[i].name = f[i].name
        /\ LinesOf(f)[f[i].name] = Fields(f[i])
    BY <1>3, LinesAre
  <2>2. h[f[i].name] = IF f[i].name = u THEN l ELSE LinesOf(f)[f[i].name]
    BY <2>1
  <2>3. CASE f[i].name = u
    <3>1. Fields(g[i]) = l
      BY <2>1, <2>3 DEF LineIs
    <3> HIDE DEF h
    <3> QED
      BY <2>1, <2>2, <2>3, <3>1
  <2>4. CASE f[i].name # u
    <3>1. Fields(g[i]) = Fields(f[i])
      BY <2>1, <2>4 DEF LineIs
    <3> HIDE DEF h
    <3> QED
      BY <2>1, <2>2, <2>4, <3>1
  <2> QED
    BY <2>3, <2>4
<1> HIDE DEF h
<1>7. \A v : v \in DOMAIN LinesOf(f) <=> Named(g, v)
  BY <1>1, <1>5
<1>8. LinesOf(g) = h
  BY <1>2, <1>4, <1>6, <1>7, LinesEqual
<1> QED
  BY <1>8 DEF h
(* A temporary file is in nobody's way: no crash has left one, or none of  *)
(* the opens of a temporary file that the code does not test for fails.    *)
TempsTested == "prepare_temp" \notin Failing /\ "delete_temp" \notin Failing

(* A call is about to release db_mutex.                                    *)
Ready(c, d, a) ==
  /\ Args(c) /\ FilesOK(a) /\ Final(c, d, a) /\ LooksFirst
  /\ "prepare_temp" \notin Failing => DB_USERS_FILE \in DOMAIN a
  /\ TempsTested \/ TempOf(c) \notin DOMAIN a

(* usuarios.txt before the call, and the lines in it.                      *)
LEMMA UsersBefore ==
  ASSUME NEW c, NEW d, NEW a, Ready(c, d, a)
  PROVE  LET f == ContentOf(a, DB_USERS_FILE)
         IN  /\ UsuariosOf(a) = LinesOf(f)
             /\ IsUsersFile(f) /\ OneLine(f) /\ Bounded(f)
             /\ \A u : Named(f, u) <=> u \in DOMAIN UsuariosOf(a)
             /\ \A i \in DOMAIN f : /\ f[i] \in UserLine /\ f[i].name \in DOMAIN UsuariosOf(a)
                                    /\ UsuariosOf(a)[f[i].name] = Fields(f[i])
<1> DEFINE f == ContentOf(a, DB_USERS_FILE)
<1>1. UsuariosOf(a) = LinesOf(f)
  BY DEF UsuariosOf
<1>2. IsUsersFile(f) /\ OneLine(f) /\ Bounded(f)
  <2>1. DB_USERS_FILE \in FileNames /\ DB_USERS_FILE \in UsersFiles
    BY Names DEF UsersFiles
  <2> QED
    BY <2>1, ContentOK DEF Ready
<1>3. \A i \in DOMAIN f : f[i] \in UserLine
  BY <1>2 DEF IsUsersFile
<1> HIDE DEF f
<1> QED
  BY <1>1, <1>2, <1>3, LinesAre DEF f

(* A file that was found is the one that is rewritten.                     *)
LEMMA FoundContent ==
  ASSUME NEW c, NEW a, Found(c, a) PROVE ContentOf(a, OrigOf(c)) = a[OrigOf(c)]
BY DEF Found, ContentOf

(* Of the functions that rewrite a file, three copy every line of it.      *)
LEMMA CopiesEveryLine ==
  ASSUME NEW c, NEW a, c.op \in {"connect", "disconnect", "prepare"}, NEW f, f = a[OrigOf(c)]
  PROVE  /\ DOMAIN FinOf(c, a) = DOMAIN f
         /\ \A j \in DOMAIN f : FinOf(c, a)[j] \in Copied(c, f[j])
<1>1. \A r : Copied(c, r) # {}
  BY DEF Copied
<1>2. FinOf(c, a) = [j \in {j \in DOMAIN f : Copied(c, f[j]) # {}} |->
                       CHOOSE r \in Copied(c, f[j]) : TRUE]
  BY DEF FinOf
<1>3. {j \in DOMAIN f : Copied(c, f[j]) # {}} = DOMAIN f
  BY <1>1
<1>4. ASSUME NEW j \in DOMAIN f PROVE FinOf(c, a)[j] \in Copied(c, f[j])
  <2>1. FinOf(c, a)[j] = CHOOSE x \in Copied(c, f[j]) : TRUE
    BY <1>2, <1>3
  <2> QED
    BY <1>1, <2>1
<1> QED
  BY <1>2, <1>3, <1>4

(* The three functions that change one line of usuarios.txt: nothing else  *)
(* that a reader sees is touched.                                          *)
LEMMA OneLineChanges ==
  ASSUME NEW c, NEW d, NEW a, Ready(c, d, a), c.op \in {"connect", "disconnect", "prepare"}
  PROVE  /\ OrigOf(c) = DB_USERS_FILE /\ MensajesOf(d) = MensajesOf(a)
         /\ \/ Gives_Up(c, d, a) /\ UsuariosOf(d) = UsuariosOf(a)
            \/ /\ c.res = 0 /\ Found(c, a) /\ Changes(c, a)
               /\ ContentOf(a, DB_USERS_FILE) = a[OrigOf(c)]
               /\ UsuariosOf(d) = LinesOf(FinOf(c, a))
            \/ /\ c.op = "prepare" /\ c.res = 0 /\ Found(c, a) /\ Failing # {}
               /\ ContentOf(a, DB_USERS_FILE) = a[OrigOf(c)]
               /\ UsuariosOf(d) = Restrict(UsuariosOf(a), {})
<1>1. OrigOf(c) = DB_USERS_FILE /\ TempOf(c) = DB_TEMP_FILE
  BY DEF OrigOf, TempOf
<1>2. {DB_TEMP_FILE} \cap {msg_file(u) : u \in User} = {}
      /\ {DB_USERS_FILE, DB_TEMP_FILE} \cap {msg_file(u) : u \in User} = {}
      /\ DB_USERS_FILE \notin {DB_TEMP_FILE}
  BY Names DEF UsersFiles
<1>3. CASE Gives_Up(c, d, a)
  <2>1. Same(d, a, {DB_TEMP_FILE})
    BY <1>1, <1>3 DEF Gives_Up
  <2> QED
    BY <1>1, <1>2, <1>3, <2>1, SeenSame
<1>4. CASE Rewrites(c, d, a)
  <2>1. Same(d, a, {DB_USERS_FILE, DB_TEMP_FILE}) /\ Rewritten(c, d, a)
    BY <1>1, <1>4 DEF Rewrites
  <2>2. /\ c.res = 0 /\ Found(c, a) /\ Changes(c, a) /\ OpenOK(c)
        /\ ContentOf(a, DB_USERS_FILE) = a[OrigOf(c)]
    BY <1>1, <2>1, FoundContent DEF Rewritten
  <2>3. MensajesOf(d) = MensajesOf(a)
    BY <1>2, <2>1, SeenSame
  <2>4. CASE c.open
    <3>1. ContentOf(d, DB_USERS_FILE) = FinOf(c, a)
      BY <1>1, <2>1, <2>4 DEF Rewritten, ContentOf
    <3> QED
      BY <1>1, <2>2, <2>3, <3>1 DEF UsuariosOf
  <2>5. CASE ~c.open
    <3>1. c.op = "prepare" /\ Failing # {} /\ ~TempsTested
      BY <2>2, <2>5 DEF OpenOK, TempsTested
    <3>2. ContentOf(d, DB_USERS_FILE) = EmptyFile
      BY <1>1, <2>1, <2>5, <3>1 DEF Rewritten, Ready, ContentOf
    <3>3. UsuariosOf(d) = Restrict(UsuariosOf(a), {})
      BY <3>2, EmptyIsFile DEF UsuariosOf, LinesOf, Restrict
    <3> QED
      BY <1>1, <2>2, <2>3, <3>1, <3>3
  <2> QED
    BY <2>4, <2>5
<1> QED
  BY <1>3, <1>4 DEF Ready, Final

LEMMA ConnectDone ==
  ASSUME NEW c, NEW d, NEW a, Ready(c, d, a), c.op = "connect"
  PROVE  LET x == UsuariosOf(a)
             y == UsuariosOf(d)
         IN  /\ MensajesOf(d) = MensajesOf(a)
             /\ \/ c.user \notin DOMAIN x /\ c.res = 1 /\ y = x
                \/ c.user \in DOMAIN x /\ x[c.user].connected = 1 /\ c.res = 2 /\ y = x
                \/ /\ c.user \in DOMAIN x /\ x[c.user].connected = 0 /\ c.res = 0
                   /\ y = [x EXCEPT ![c.user] = [connected |-> 1, addr |-> c.addr,
                                                 last_id |-> x[c.user].last_id]]
                \/ Failing # {} /\ c.res \in {1, 3} /\ y = x
<1> DEFINE f == ContentOf(a, DB_USERS_FILE)
           x == UsuariosOf(a)
<1>1. /\ x = LinesOf(f) /\ OneLine(f) /\ LooksFirst
      /\ \A u : Named(f, u) <=> u \in DOMAIN x
      /\ \A i \in DOMAIN f : f[i] \in UserLine /\ f[i].name \in DOMAIN x /\ x[f[i].name] = Fields(f[i])
  BY UsersBefore DEF Ready
<1>2. OrigOf(c) = DB_USERS_FILE /\ MensajesOf(d) = MensajesOf(a)
  BY OneLineChanges
<1>3. \A i \in DOMAIN f : f[i].name = c.user => Status(c, f[i]) = IF f[i].connected = 1 THEN 2 ELSE 0
  BY DEF Status
<1>4. CASE Gives_Up(c, d, a) /\ UsuariosOf(d) = x
  <2>1. \/ c.res = 1 /\ ~Named(f, c.user)
        \/ c.res = 2 /\ \E i \in DOMAIN f : f[i].name = c.user /\ Status(c, f[i]) = 2
        \/ c.res \in {1, 3} /\ Failing # {}
    BY <1>1, <1>2, <1>4 DEF Gives_Up
  <2>2. ASSUME NEW i \in DOMAIN f, f[i].name = c.user, Status(c, f[i]) = 2
        PROVE  c.user \in DOMAIN x /\ x[c.user].connected = 1
    <3>1. f[i].connected = 1
      BY <1>3, <2>2
    <3>2. c.user \in DOMAIN x /\ x[c.user] = Fields(f[i])
      <4> HIDE DEF f, x
      <4> QED
        BY <1>1, <2>2
    <3> QED
      BY <3>1, <3>2 DEF Fields
  <2> QED
    BY <1>1, <1>2, <1>4, <2>1, <2>2
<1>5. CASE /\ c.res = 0 /\ Found(c, a) /\ Changes(c, a) /\ f = a[OrigOf(c)]
           /\ UsuariosOf(d) = LinesOf(FinOf(c, a))
  <2> DEFINE g == FinOf(c, a)
  <2>1. PICK i \in DOMAIN f : f[i].name = c.user /\ Status(c, f[i]) = 0
    BY <1>1, <1>2, <1>5 DEF Changes
  <2>2. /\ f[i].connected = 0 /\ c.user \in DOMAIN x /\ x[c.user] = Fields(f[i])
        /\ Named(f, c.user)
    <3> HIDE DEF f, x
    <3> QED
      BY <1>1, <1>3, <2>1 DEF UserLine
  <2> DEFINE l == [connected |-> 1, addr |-> c.addr, last_id |-> x[c.user].last_id]
  <2>3. DOMAIN g = DOMAIN f /\ \A j \in DOMAIN f : g[j] \in Copied(c, f[j])
    <3>1. c.op \in {"connect", "disconnect", "prepare"} /\ f = a[OrigOf(c)]
      BY <1>5
    <3> HIDE DEF f
    <3> QED
      BY <3>1, CopiesEveryLine
  <2>4. ASSUME NEW j \in DOMAIN f
        PROVE  /\ g[j].name = f[j].name
               /\ f[j].name = c.user => Fields(g[j]) = l
               /\ f[j].name # c.user => Fields(g[j]) = Fields(f[j])
    <3>1. g[j] = IF f[j].name = c.user /\ f[j].connected = 0
                 THEN [f[j] EXCEPT !.connected = 1, !.addr = c.addr] ELSE f[j]
      BY <2>3 DEF Copied
    <3>2. f[j].name = c.user => j = i
      BY <1>1, <2>1 DEF OneLine
    <3>3. f[j] \in UserLine
      BY <1>1
    <3> HIDE DEF f, g, x
    <3> QED
      BY <2>2, <3>1, <3>2, <3>3 DEF Fields, UserLine
  <2>5. LinesOf(g) = [LinesOf(f) EXCEPT ![c.user] = l]
    <3>1. LineIs(f, g, c.user, l)
      BY <2>3, <2>4 DEF LineIs
    <3>2. OneLine(f) /\ Named(f, c.user)
      BY <1>1, <2>2
    <3> HIDE DEF f, g, l, x
    <3> QED
      BY <3>1, <3>2, LineRewritten
  <2>6. x[c.user].connected = 0
    BY <2>2 DEF Fields
  <2> QED
    BY <1>1, <1>2, <1>5, <2>2, <2>5, <2>6
<1> QED
  BY <1>4, <1>5, OneLineChanges
LEMMA DisconnectDone ==
  ASSUME NEW c, NEW d, NEW a, Ready(c, d, a), c.op = "disconnect"
  PROVE  LET x == UsuariosOf(a)
             y == UsuariosOf(d)
         IN  /\ MensajesOf(d) = MensajesOf(a)
             /\ \/ c.user \notin DOMAIN x /\ c.res = 1 /\ y = x
                \/ c.user \in DOMAIN x /\ x[c.user].connected = 0 /\ c.res = 2 /\ y = x
                \/ /\ c.user \in DOMAIN x /\ x[c.user].connected = 1 /\ c.res = 0
                   /\ y = [x EXCEPT ![c.user] = [connected |-> 0, addr |-> NoAddr,
                                                 last_id |-> x[c.user].last_id]]
                \/ Failing # {} /\ c.res \in {1, 3} /\ y = x
<1> DEFINE f == ContentOf(a, DB_USERS_FILE)
           x == UsuariosOf(a)
<1>1. /\ x = LinesOf(f) /\ OneLine(f) /\ LooksFirst
      /\ \A u : Named(f, u) <=> u \in DOMAIN x
      /\ \A i \in DOMAIN f : f[i] \in UserLine /\ f[i].name \in DOMAIN x /\ x[f[i].name] = Fields(f[i])
  BY UsersBefore DEF Ready
<1>2. OrigOf(c) = DB_USERS_FILE /\ MensajesOf(d) = MensajesOf(a)
  BY OneLineChanges
<1>3. \A i \in DOMAIN f : f[i].name = c.user => Status(c, f[i]) = IF f[i].connected = 0 THEN 2 ELSE 0
  BY DEF Status
<1>4. CASE Gives_Up(c, d, a) /\ UsuariosOf(d) = x
  <2>1. \/ c.res = 1 /\ ~Named(f, c.user)
        \/ c.res = 2 /\ \E i \in DOMAIN f : f[i].name = c.user /\ Status(c, f[i]) = 2
        \/ c.res \in {1, 3} /\ Failing # {}
    BY <1>1, <1>2, <1>4 DEF Gives_Up
  <2>2. ASSUME NEW i \in DOMAIN f, f[i].name = c.user, Status(c, f[i]) = 2
        PROVE  c.user \in DOMAIN x /\ x[c.user].connected = 0
    <3>1. f[i].connected = 0
      BY <1>3, <2>2
    <3>2. c.user \in DOMAIN x /\ x[c.user] = Fields(f[i])
      <4> HIDE DEF f, x
      <4> QED
        BY <1>1, <2>2
    <3> QED
      BY <3>1, <3>2 DEF Fields
  <2> QED
    BY <1>1, <1>2, <1>4, <2>1, <2>2
<1>5. CASE /\ c.res = 0 /\ Found(c, a) /\ Changes(c, a) /\ f = a[OrigOf(c)]
           /\ UsuariosOf(d) = LinesOf(FinOf(c, a))
  <2> DEFINE g == FinOf(c, a)
  <2>1. PICK i \in DOMAIN f : f[i].name = c.user /\ Status(c, f[i]) = 0
    BY <1>1, <1>2, <1>5 DEF Changes
  <2>2. /\ f[i].connected = 1 /\ c.user \in DOMAIN x /\ x[c.user] = Fields(f[i])
        /\ Named(f, c.user)
    <3> HIDE DEF f, x
    <3> QED
      BY <1>1, <1>3, <2>1 DEF UserLine
  <2> DEFINE l == [connected |-> 0, addr |-> NoAddr, last_id |-> x[c.user].last_id]
  <2>3. DOMAIN g = DOMAIN f /\ \A j \in DOMAIN f : g[j] \in Copied(c, f[j])
    <3>1. c.op \in {"connect", "disconnect", "prepare"} /\ f = a[OrigOf(c)]
      BY <1>5
    <3> HIDE DEF f
    <3> QED
      BY <3>1, CopiesEveryLine
  <2>4. ASSUME NEW j \in DOMAIN f
        PROVE  /\ g[j].name = f[j].name
               /\ f[j].name = c.user => Fields(g[j]) = l
               /\ f[j].name # c.user => Fields(g[j]) = Fields(f[j])
    <3>1. g[j] = IF f[j].name = c.user
                 THEN [f[j] EXCEPT !.connected = 0, !.addr = NoAddr] ELSE f[j]
      BY <2>3 DEF Copied
    <3>2. f[j].name = c.user => j = i
      BY <1>1, <2>1 DEF OneLine
    <3>3. f[j] \in UserLine
      BY <1>1
    <3> HIDE DEF f, g, x
    <3> QED
      BY <2>2, <3>1, <3>2, <3>3 DEF Fields, UserLine
  <2>5. LinesOf(g) = [LinesOf(f) EXCEPT ![c.user] = l]
    <3>1. LineIs(f, g, c.user, l)
      BY <2>3, <2>4 DEF LineIs
    <3>2. OneLine(f) /\ Named(f, c.user)
      BY <1>1, <2>2
    <3> HIDE DEF f, g, l, x
    <3> QED
      BY <3>1, <3>2, LineRewritten
  <2>7. x[c.user].connected = 1
    BY <2>2 DEF Fields
  <2> QED
    BY <1>1, <1>2, <1>5, <2>2, <2>5, <2>7
<1> QED
  BY <1>4, <1>5, OneLineChanges

LEMMA PrepareDone ==
  ASSUME NEW c, NEW d, NEW a, Ready(c, d, a), c.op = "prepare"
  PROVE  LET x == UsuariosOf(a)
             y == UsuariosOf(d)
         IN  /\ MensajesOf(d) = MensajesOf(a)
             /\ \/ ~(c.user \in DOMAIN x /\ c.dest \in DOMAIN x) /\ c.res = 1 /\ y = x
                \/ /\ c.user \in DOMAIN x /\ c.dest \in DOMAIN x /\ c.res = 0
                   /\ \/ y = [x EXCEPT ![c.user] = [x[c.user] EXCEPT !.last_id = NextId(@)]]
                      \/ Failing # {} /\ y = Restrict(x, {})
                \/ Failing # {} /\ c.res = 2 /\ y = x
<1> DEFINE f == ContentOf(a, DB_USERS_FILE)
           x == UsuariosOf(a)
<1>1. /\ x = LinesOf(f) /\ OneLine(f)
      /\ \A u : Named(f, u) <=> u \in DOMAIN x
      /\ \A i \in DOMAIN f : f[i] \in UserLine /\ f[i].name \in DOMAIN x /\ x[f[i].name] = Fields(f[i])
  BY UsersBefore
<1>2. OrigOf(c) = DB_USERS_FILE /\ MensajesOf(d) = MensajesOf(a)
  BY OneLineChanges
<1>3. CASE Gives_Up(c, d, a) /\ UsuariosOf(d) = x
  <2>1. \/ c.res = 1 /\ ~(Named(f, c.user) /\ Named(f, c.dest))
        \/ c.res = 2 /\ (Failing # {} \/ DB_USERS_FILE \notin DOMAIN a)
    BY <1>1, <1>2, <1>3 DEF Gives_Up
  <2>2. DB_USERS_FILE \notin DOMAIN a => Failing # {}
    BY DEF Ready
  <2> QED
    BY <1>1, <1>2, <1>3, <2>1, <2>2
<1>4. CASE /\ c.res = 0 /\ Found(c, a) /\ f = a[OrigOf(c)]
           /\ UsuariosOf(d) = LinesOf(FinOf(c, a))
  <2> DEFINE g == FinOf(c, a)
             u == c.user
             l == [x[u] EXCEPT !.last_id = NextId(@)]
  <2>1. Named(f, u) /\ Named(f, c.dest)
    BY <1>2, <1>4 DEF Found
  <2>2. DOMAIN g = DOMAIN f /\ \A j \in DOMAIN f : g[j] \in Copied(c, f[j])
    <3>1. c.op \in {"connect", "disconnect", "prepare"} /\ f = a[OrigOf(c)]
      BY <1>4
    <3> HIDE DEF f
    <3> QED
      BY <3>1, CopiesEveryLine
  <2>3. \A j \in DOMAIN f : /\ g[j].name = f[j].name
                            /\ f[j].name = u => Fields(g[j]) = l
                            /\ f[j].name # u => Fields(g[j]) = Fields(f[j])
    <3> SUFFICES ASSUME NEW j \in DOMAIN f
                 PROVE  /\ g[j].name = f[j].name
                        /\ f[j].name = u => Fields(g[j]) = l
                        /\ f[j].name # u => Fields(g[j]) = Fields(f[j])
      OBVIOUS
    <3>1. g[j] = IF f[j].name = u
                 THEN [f[j] EXCEPT !.last_id = NextId(f[j].last_id)] ELSE f[j]
      BY <2>2 DEF Copied
    <3>2. f[j] \in UserLine /\ x[f[j].name] = Fields(f[j])
      BY <1>1
    <3> DEFINE k == NextId(f[j].last_id)
    <3>3. f[j].name = u => l = [Fields(f[j]) EXCEPT !.last_id = k]
      BY <3>2 DEF Fields
    <3> HIDE DEF f, g, x, k, l, u
    <3>4. g[j] = IF f[j].name = u THEN [f[j] EXCEPT !.last_id = k] ELSE f[j]
      BY <3>1 DEF k
    <3> QED
      BY <3>2, <3>3, <3>4 DEF Fields, UserLine
  <2>4. LinesOf(g) = [LinesOf(f) EXCEPT ![u] = l]
    <3>1. LineIs(f, g, u, l)
      BY <2>2, <2>3 DEF LineIs
    <3>2. OneLine(f) /\ Named(f, u)
      BY <1>1, <2>1
    <3> HIDE DEF f, g, l, u, x
    <3> QED
      BY <3>1, <3>2, LineRewritten
  <2> QED
    BY <1>1, <1>2, <1>4, <2>1, <2>4
<1>5. CASE /\ c.res = 0 /\ Found(c, a) /\ f = a[OrigOf(c)] /\ Failing # {}
           /\ UsuariosOf(d) = Restrict(x, {})
  <2>1. Named(f, c.user) /\ Named(f, c.dest)
    BY <1>5 DEF Found
  <2> QED
    BY <1>1, <1>2, <1>5, <2>1
<1> QED
  BY <1>3, <1>4, <1>5, OneLineChanges

(* db_unregister takes the user's line and mailbox away.                   *)
LEMMA UnregisterDone ==
  ASSUME NEW c, NEW d, NEW a, Ready(c, d, a), c.op = "unregister"
  PROVE  LET x == UsuariosOf(a)
             y == UsuariosOf(d)
             v == MensajesOf(a)
             w == MensajesOf(d)
         IN  \/ c.user \notin DOMAIN x /\ c.res = 1 /\ y = x /\ w = v
             \/ /\ c.user \in DOMAIN x /\ c.res = 0
                /\ y = Restrict(x, DOMAIN x \ {c.user})
                /\ w = [v EXCEPT ![c.user] = EmptyFile]
             \/ Failing # {} /\ c.res \in {1, 2} /\ y = x /\ w = v
<1> DEFINE f == ContentOf(a, DB_USERS_FILE)
           x == UsuariosOf(a)
           u == c.user
<1>1. /\ x = LinesOf(f) /\ OneLine(f)
      /\ \A v : Named(f, v) <=> v \in DOMAIN x
      /\ \A i \in DOMAIN f : f[i].name \in DOMAIN x /\ x[f[i].name] = Fields(f[i])
  BY UsersBefore
<1>2. OrigOf(c) = DB_USERS_FILE /\ TempOf(c) = DB_TEMP_FILE /\ u \in User
  BY DEF OrigOf, TempOf, Ready, Args
<1>3. CASE Gives_Up(c, d, a)
  <2>1. Same(d, a, {DB_TEMP_FILE})
    BY <1>2, <1>3 DEF Gives_Up
  <2>2. {DB_TEMP_FILE} \cap {msg_file(v) : v \in User} = {} /\ DB_USERS_FILE \notin {DB_TEMP_FILE}
    BY Names DEF UsersFiles
  <2>3. UsuariosOf(d) = x /\ MensajesOf(d) = MensajesOf(a)
    BY <2>1, <2>2, SeenSame
  <2>4. (c.res = 1 /\ ~Named(f, u)) \/ (c.res \in {1, 2} /\ Failing # {})
    BY <1>1, <1>2, <1>3 DEF Gives_Up
  <2> QED
    BY <1>1, <2>3, <2>4
<1>4. CASE Rewrites(c, d, a)
  <2> DEFINE g == FinOf(c, a)
             N == {DB_USERS_FILE, DB_TEMP_FILE, msg_file(u)}
  <2>1. Rewritten(c, d, a) /\ Same(d, a, N) /\ msg_file(u) \notin DOMAIN d
    BY <1>2, <1>4 DEF Rewrites
  <2>2. c.res = 0 /\ Changes(c, a) /\ c.open /\ f = a[OrigOf(c)]
    BY <1>2, <2>1, FoundContent DEF Rewritten, OpenOK
  <2>3. Named(f, u)
    BY <1>2, <2>2 DEF Changes
  <2>4. UsuariosOf(d) = LinesOf(g)
    BY <1>2, <2>1, <2>2 DEF Rewritten, ContentOf, UsuariosOf
  <2>5. DOMAIN g = {i \in DOMAIN f : f[i].name # u} /\ \A i \in DOMAIN g : g[i] = f[i]
    BY <2>2 DEF FinOf, Copied
  <2>6. LinesOf(g) = Restrict(x, DOMAIN x \ {u})
    <3> DEFINE S == DOMAIN x \ {u}
               h == Restrict(x, S)
    <3>1. h = [v \in S |-> h[v]] /\ \A v \in S : h[v] = x[v]
      BY DEF Restrict
    <3>2. OneLine(g)
      BY <1>1, <2>5 DEF OneLine
    <3>3. \A v : v \in S <=> Named(g, v)
      BY <1>1, <2>5 DEF Named
    <3>4. \A i \in DOMAIN g : h[g[i].name] = Fields(g[i])
      <4> SUFFICES ASSUME NEW i \in DOMAIN g PROVE h[g[i].name] = Fields(g[i])
        OBVIOUS
      <4>1. i \in DOMAIN f /\ g[i] = f[i] /\ f[i].name # u
        BY <2>5
      <4>2. f[i].name \in S /\ x[f[i].name] = Fields(f[i])
        BY <1>1, <4>1
      <4> HIDE DEF g, h, S, f, x
      <4> QED
        BY <3>1, <4>1, <4>2
    <3>5. LinesOf(g) = h
      <4> HIDE DEF g, h, S, f, x
      <4> QED
        BY <3>1, <3>2, <3>3, <3>4, LinesEqual
    <3> QED
      BY <3>5
  <2>7. MensajesOf(d) = [MensajesOf(a) EXCEPT ![u] = EmptyFile]
    <3>1. ContentOf(d, msg_file(u)) = EmptyFile
      BY <2>1 DEF ContentOf
    <3>2. ASSUME NEW v \in User, v # u PROVE MensajesOf(d)[v] = MensajesOf(a)[v]
      <4>1. msg_file(v) \notin N
        BY <1>2, <3>2, Names DEF UsersFiles
      <4> QED
        BY <2>1, <4>1, SeenSame
    <3> QED
      BY <1>2, <3>1, <3>2 DEF MensajesOf
  <2> QED
    BY <1>1, <2>2, <2>3, <2>4, <2>6, <2>7
<1> QED
  BY <1>3, <1>4 DEF Ready, Final, Rewriters

(* db_register adds a line, and only for a name that has none.             *)
WithUser(x, u) ==
  [v \in DOMAIN x \cup {u} |->
     IF v = u THEN [connected |-> 0, addr |-> NoAddr, last_id |-> 0] ELSE x[v]]

LEMMA RegisterDone ==
  ASSUME NEW c, NEW d, NEW a, Ready(c, d, a), c.op = "register"
  PROVE  LET x == UsuariosOf(a)
             y == UsuariosOf(d)
         IN  /\ MensajesOf(d) = MensajesOf(a)
             /\ \/ c.user \in DOMAIN x /\ c.res = 1 /\ y = x
                \/ /\ c.user \notin DOMAIN x /\ c.res = 0
                   /\ y = WithUser(x, c.user)
                \/ Failing # {} /\ c.res = 2 /\ y = x
<1> DEFINE f == ContentOf(a, DB_USERS_FILE)
           x == UsuariosOf(a)
           u == c.user
<1>1. /\ x = LinesOf(f)
      /\ IsUsersFile(f) /\ OneLine(f) /\ Bounded(f)
      /\ \A v : Named(f, v) <=> v \in DOMAIN x
      /\ \A i \in DOMAIN f : f[i].name \in DOMAIN x /\ x[f[i].name] = Fields(f[i])
  BY UsersBefore
<1>2. Registers(c, d, a) /\ LooksFirst
  BY DEF Ready, Final, Rewriters
<1>3. DB_USERS_FILE \notin {} /\ {} \cap {msg_file(v) : v \in User} = {}
      /\ {DB_USERS_FILE} \cap {msg_file(v) : v \in User} = {}
  BY Names DEF UsersFiles
<1>4. CASE c.res = 1 /\ Named(f, u) /\ Same(d, a, {})
  BY <1>1, <1>3, <1>4, SeenSame
<1>5. CASE c.res = 2 /\ Failing # {} /\ Same(d, a, {})
  BY <1>1, <1>3, <1>5, SeenSame
<1>6. CASE /\ c.res = 0 /\ Same(d, a, {DB_USERS_FILE}) /\ ~Named(f, u)
           /\ DB_USERS_FILE \in DOMAIN d /\ d[DB_USERS_FILE] = Appended(f, Fresh(u))
  <2> DEFINE g == Appended(f, Fresh(u))
             k == NextSlot(f)
             S == DOMAIN x \cup {u}
             h == [v \in S |-> IF v = u THEN Fields(Fresh(u)) ELSE x[v]]
  <2>1. MensajesOf(d) = MensajesOf(a) /\ UsuariosOf(d) = LinesOf(g)
    BY <1>3, <1>6, SeenSame DEF UsuariosOf, ContentOf
  <2>2. k \notin DOMAIN f
    <3>1. PICK b : Within(f, b)
      BY <1>1 DEF Bounded
    <3> QED
      BY <1>1, <3>1, FreeSlot DEF IsUsersFile
  <2>3. /\ DOMAIN g = DOMAIN f \cup {k} /\ g[k] = Fresh(u)
        /\ \A i \in DOMAIN f : g[i] = f[i]
    BY <2>2 DEF Appended
  <2>4. Fresh(u).name = u
    BY DEF Fresh
  <2>5. \A i \in DOMAIN f : f[i].name # u
    BY <1>6 DEF Named
  <2>6. LinesOf(g) = h
    <3>1. h = [v \in S |-> h[v]] /\ h[u] = Fields(Fresh(u)) /\ \A v \in DOMAIN x : v # u => h[v] = x[v]
      OBVIOUS
    <3> HIDE DEF g, k, h
    <3>2. OneLine(g)
      BY <1>1, <2>2, <2>3, <2>4, <2>5 DEF OneLine
    <3>3. \A v : v \in S <=> Named(g, v)
      BY <1>1, <2>2, <2>3, <2>4 DEF Named
    <3>4. \A i \in DOMAIN g : h[g[i].name] = Fields(g[i])
      <4> SUFFICES ASSUME NEW i \in DOMAIN g PROVE h[g[i].name] = Fields(g[i])
        OBVIOUS
      <4> HIDE DEF f, x
      <4>1. CASE i = k
        BY <2>3, <2>4, <3>1, <4>1
      <4>2. CASE i # k
        <5>1. i \in DOMAIN f /\ g[i] = f[i] /\ f[i].name # u
          BY <2>3, <2>5, <4>2
        <5>2. f[i].name \in DOMAIN x /\ x[f[i].name] = Fields(f[i])
          BY <1>1, <5>1
        <5> QED
          BY <3>1, <5>1, <5>2
      <4> QED
        BY <4>1, <4>2
    <3>5. LinesOf(g) = h
      <4> HIDE DEF S, f, x
      <4> QED
        BY <3>1, <3>2, <3>3, <3>4, LinesEqual
    <3> QED
      BY <3>5 DEF h
  <2>7. Fields(Fresh(u)) = [connected |-> 0, addr |-> NoAddr, last_id |-> 0]
    BY DEF Fields, Fresh
  <2> QED
    BY <1>1, <1>6, <2>1, <2>6, <2>7 DEF WithUser
<1> QED
  BY <1>1, <1>2, <1>4, <1>5, <1>6 DEF Registers

(* db_store_message adds a record to one mailbox.                          *)
LEMMA StoreDone ==
  ASSUME NEW c, NEW d, NEW a, Ready(c, d, a), c.op = "store"
  PROVE  LET v == MensajesOf(a)
             w == MensajesOf(d)
         IN  /\ UsuariosOf(d) = UsuariosOf(a)
             /\ \/ c.res = 0 /\ w = [v EXCEPT ![c.user] = Appended(v[c.user], c.msg)]
                \/ Failing # {} /\ c.res = 2 /\ w = v
<1> DEFINE n == msg_file(c.user)
<1>1. OrigOf(c) = n /\ c.user \in User /\ n \notin UsersFiles
  BY Names DEF OrigOf, Ready, Args
<1>2. Stores(c, d, a)
  BY DEF Ready, Final, Rewriters
<1>3. CASE c.res = 2 /\ Failing # {} /\ Same(d, a, {})
  BY <1>3, SeenSame
<1>4. CASE /\ c.res = 0 /\ Same(d, a, {n}) /\ n \in DOMAIN d
           /\ d[n] = Appended(ContentOf(a, n), c.msg)
  <2>1. UsuariosOf(d) = UsuariosOf(a)
    BY <1>1, <1>4, SeenSame DEF UsersFiles
  <2>2. ASSUME NEW u \in User, u # c.user PROVE MensajesOf(d)[u] = MensajesOf(a)[u]
    <3>1. msg_file(u) \notin {n}
      BY <1>1, <2>2, Names
    <3> QED
      BY <1>4, <3>1, SeenSame
  <2>3. MensajesOf(d)[c.user] = Appended(MensajesOf(a)[c.user], c.msg)
    BY <1>1, <1>4 DEF MensajesOf, ContentOf
  <2>4. /\ DOMAIN MensajesOf(d) = User /\ DOMAIN MensajesOf(a) = User
        /\ MensajesOf(d) = [u \in User |-> MensajesOf(d)[u]]
        /\ MensajesOf(a) = [u \in User |-> MensajesOf(a)[u]]
    BY DEF MensajesOf
  <2>5. MensajesOf(d) = [MensajesOf(a) EXCEPT ![c.user] = Appended(MensajesOf(a)[c.user], c.msg)]
    BY <1>1, <2>2, <2>3, <2>4
  <2> QED
    BY <1>4, <2>1, <2>5
<1> QED
  BY <1>1, <1>2, <1>3, <1>4 DEF Stores

(* db_delete_message takes the records with the number out of one mailbox. *)
Kept(f, n) == {i \in DOMAIN f : f[i].id # n}

LEMMA DeleteDone ==
  ASSUME NEW c, NEW d, NEW a, Ready(c, d, a), c.op = "delete"
  PROVE  LET v == MensajesOf(a)
             w == MensajesOf(d)
             f == v[c.user]
         IN  /\ UsuariosOf(d) = UsuariosOf(a)
             /\ \/ w = [v EXCEPT ![c.user] = Restrict(f, Kept(f, c.id))]
                \/ Failing # {} /\ w = [v EXCEPT ![c.user] = EmptyFile]
                \/ Failing # {} /\ w = v
<1> DEFINE n == msg_file(c.user)
           f == MensajesOf(a)[c.user]
           g == Restrict(f, Kept(f, c.id))
<1>1. /\ OrigOf(c) = n /\ TempOf(c) = temp_file(c.user) /\ c.user \in User
      /\ n \notin UsersFiles /\ temp_file(c.user) \notin UsersFiles
  BY Names DEF OrigOf, TempOf, Ready, Args
<1>2. /\ DOMAIN MensajesOf(d) = User /\ DOMAIN MensajesOf(a) = User
      /\ MensajesOf(d) = [u \in User |-> MensajesOf(d)[u]]
      /\ MensajesOf(a) = [u \in User |-> MensajesOf(a)[u]]
      /\ f = ContentOf(a, n)
  BY <1>1 DEF MensajesOf
<1>3. CASE Gives_Up(c, d, a)
  <2>1. Same(d, a, {temp_file(c.user)}) /\ (Failing # {} \/ n \notin DOMAIN a)
    BY <1>1, <1>3 DEF Gives_Up
  <2>2. UsuariosOf(d) = UsuariosOf(a) /\ MensajesOf(d) = MensajesOf(a)
    <3>1. {temp_file(c.user)} \cap {msg_file(u) : u \in User} = {}
          /\ DB_USERS_FILE \notin {temp_file(c.user)}
      BY <1>1, Names DEF UsersFiles
    <3> QED
      BY <2>1, <3>1, SeenSame
  <2>3. n \notin DOMAIN a => g = f
    BY <1>2, EmptyIsFile DEF ContentOf, Restrict, EmptyFile, Kept
  <2>4. g = f => MensajesOf(a) = [MensajesOf(a) EXCEPT ![c.user] = g]
    BY <1>2
  <2> QED
    BY <2>1, <2>2, <2>3, <2>4
<1>4. CASE Rewrites(c, d, a)
  <2> DEFINE N == {n, temp_file(c.user)}
  <2>1. Rewritten(c, d, a) /\ Same(d, a, N) /\ Found(c, a) /\ OpenOK(c)
    BY <1>1, <1>4 DEF Rewrites, Rewritten
  <2>2. f = a[n]
    BY <1>1, <1>2, <2>1, FoundContent
  <2>3. FinOf(c, a) = g
    <3>1. FinOf(c, a) = [i \in {i \in DOMAIN f : f[i].id # c.id} |-> f[i]]
      BY <1>1, <2>2 DEF FinOf, Copied
    <3> QED
      BY <3>1 DEF Restrict, Kept
  <2>4. ASSUME NEW u \in User, u # c.user PROVE MensajesOf(d)[u] = MensajesOf(a)[u]
    <3>1. msg_file(u) \notin N
      BY <1>1, <2>4, Names
    <3> QED
      BY <2>1, <3>1, SeenSame
  <2>5. UsuariosOf(d) = UsuariosOf(a)
    BY <1>1, <2>1, SeenSame DEF UsersFiles
  <2>6. ASSUME NEW h, MensajesOf(d)[c.user] = h
        PROVE  MensajesOf(d) = [MensajesOf(a) EXCEPT ![c.user] = h]
    BY <1>1, <1>2, <2>4, <2>6
  <2>7. CASE c.open
    <3>1. MensajesOf(d)[c.user] = g
      BY <1>1, <2>1, <2>3, <2>7 DEF Rewritten, MensajesOf, ContentOf
    <3> HIDE DEF g
    <3> QED
      BY <2>5, <2>6, <3>1 DEF g
  <2>8. CASE ~c.open
    <3>1. Failing # {} /\ ~TempsTested
      BY <2>1, <2>8 DEF OpenOK, TempsTested
    <3>2. MensajesOf(d)[c.user] = EmptyFile
      BY <1>1, <2>1, <2>8, <3>1 DEF Rewritten, Ready, MensajesOf, ContentOf
    <3> QED
      BY <2>5, <2>6, <3>1, <3>2
  <2> QED
    BY <2>7, <2>8
<1> QED
  BY <1>3, <1>4 DEF Ready, Final, Rewriters

(* The functions that only read change nothing and return what is there.   *)
Lista(f, res) ==
  LET here == {i \in DOMAIN f : res = 0 /\ f[i].connected = 1}
  IN  [u \in {f[i].name : i \in here} |-> LineOf(f, u).addr]

LEMMA ReadNothing ==
  ASSUME NEW c, NEW d, NEW a, Ready(c, d, a), c.op \in {"pending", "users", "info"}
  PROVE  /\ HasRead(c, d, a)
         /\ UsuariosOf(d) = UsuariosOf(a) /\ MensajesOf(d) = MensajesOf(a)
<1>1. HasRead(c, d, a)
  BY DEF Ready, Final, Rewriters
<1>2. Same(d, a, {})
  BY <1>1 DEF HasRead
<1> QED
  BY <1>1, <1>2, SeenSame

LEMMA PendingDone ==
  ASSUME NEW c, NEW d, NEW a, Ready(c, d, a), c.op = "pending"
  PROVE  \/ c.rest = MensajesOf(a)[c.user]
         \/ Failing # {} /\ c.rest = EmptyFile
<1>1. HasRead(c, d, a)
  BY ReadNothing
<1>2. OrigOf(c) = msg_file(c.user) /\ c.user \in User
  BY DEF OrigOf, Ready, Args
<1> QED
  BY <1>1, <1>2 DEF HasRead, MensajesOf

LEMMA InfoDone ==
  ASSUME NEW c, NEW d, NEW a, Ready(c, d, a), c.op = "info"
  PROVE  LET x == UsuariosOf(a)
         IN  \/ c.user \in DOMAIN x /\ c.res = 0
             \/ c.user \notin DOMAIN x /\ c.res = -1
             \/ Failing # {} /\ c.res = -1
<1> DEFINE f == ContentOf(a, DB_USERS_FILE)
           mine == {i \in DOMAIN c.rest : c.rest[i].name = c.user}
<1>1. HasRead(c, d, a) /\ OrigOf(c) = DB_USERS_FILE
  BY ReadNothing DEF OrigOf
<1>2. \A u : Named(f, u) <=> u \in DOMAIN UsuariosOf(a)
  BY UsersBefore
<1>3. c.res = IF mine = {} THEN -1 ELSE 0
  BY <1>1 DEF HasRead
<1>4. CASE c.rest = f
  <2>1. mine = {} <=> ~Named(f, c.user)
    BY <1>4 DEF Named
  <2> QED
    BY <1>2, <1>3, <2>1
<1>5. CASE c.rest = EmptyFile /\ Failing # {}
  <2>1. mine = {}
    BY <1>5, EmptyIsFile
  <2> QED
    BY <1>3, <1>5, <2>1
<1> QED
  BY <1>1, <1>2, <1>4, <1>5 DEF HasRead

LEMMA UsersDone ==
  ASSUME NEW c, NEW d, NEW a, Ready(c, d, a), c.op = "users"
  PROVE  LET x == UsuariosOf(a)
         IN  /\ \/ c.user \notin DOMAIN x /\ c.res = 2
                \/ c.user \in DOMAIN x /\ x[c.user].connected = 0 /\ c.res = 1
                \/ c.user \in DOMAIN x /\ x[c.user].connected = 1 /\ c.res = 0
                \/ Failing # {} /\ c.res = 2
             /\ Lista(c.rest, c.res) =
                  IF c.res = 0
                  THEN [v \in {v \in DOMAIN x : x[v].connected = 1} |-> x[v].addr]
                  ELSE [v \in {} |-> NoAddr]
<1> DEFINE f == ContentOf(a, DB_USERS_FILE)
           x == UsuariosOf(a)
           u == c.user
           mine == {i \in DOMAIN c.rest : c.rest[i].name = u}
<1>1. HasRead(c, d, a) /\ OrigOf(c) = DB_USERS_FILE
  BY ReadNothing DEF OrigOf
<1>2. /\ x = LinesOf(f) /\ IsUsersFile(f) /\ OneLine(f)
      /\ \A v : Named(f, v) <=> v \in DOMAIN x
      /\ \A i \in DOMAIN f : /\ f[i] \in UserLine /\ f[i].name \in DOMAIN x
                             /\ x[f[i].name] = Fields(f[i])
  BY UsersBefore
<1>3. c.res = IF mine = {} THEN 2 ELSE 1 - c.rest[Max(mine)].connected
  BY <1>1 DEF HasRead
<1>4. CASE mine = {} /\ (c.rest = f \/ (c.rest = EmptyFile /\ Failing # {}))
  <2>1. c.res = 2
    BY <1>3, <1>4
  <2>2. Lista(c.rest, c.res) = [v \in {} |-> NoAddr]
    BY <2>1 DEF Lista
  <2>3. c.rest = f => u \notin DOMAIN x
    BY <1>2, <1>4 DEF Named
  <2> QED
    BY <1>4, <2>1, <2>2, <2>3
<1>5. CASE mine # {} /\ c.rest = f
  <2>1. PICK i \in DOMAIN f : f[i].name = u
    BY <1>5
  <2>2. mine = {i} /\ i \in Nat
    BY <1>2, <1>5, <2>1 DEF OneLine, IsUsersFile
  <2>3. Max({i}) = i
    BY <2>2 DEF Max
  <2>4. f[i] \in UserLine /\ u \in DOMAIN x /\ x[u] = Fields(f[i])
    <3> HIDE DEF f, x, u
    <3> QED
      BY <1>2, <2>1
  <2>5. f[i].connected \in {0, 1} /\ x[u].connected = f[i].connected
    BY <2>4 DEF UserLine, Fields
  <2>6. c.res = 1 - f[i].connected
    BY <1>3, <1>5, <2>2, <2>3
  <2>7. ASSUME c.res = 0
        PROVE  Lista(f, c.res) = [v \in {v \in DOMAIN x : x[v].connected = 1} |-> x[v].addr]
    <3> DEFINE S == {f[j].name : j \in {j \in DOMAIN f : f[j].connected = 1}}
               T == {v \in DOMAIN x : x[v].connected = 1}
    <3>1. Lista(f, c.res) = [v \in S |-> LineOf(f, v).addr]
      BY <2>7 DEF Lista
    <3>2. \A v \in DOMAIN x : x[v] = LineOf(f, v)
      BY <1>2 DEF LinesOf
    <3>3. \A j \in DOMAIN f : f[j].name \in DOMAIN x /\ x[f[j].name].connected = f[j].connected
      <4>1. \A r : Fields(r).connected = r.connected
        BY DEF Fields
      <4> HIDE DEF f, x
      <4> QED
        BY <1>2, <4>1
    <3>4. \A v \in DOMAIN x : \E j \in DOMAIN f : f[j].name = v
      BY <1>2 DEF Named
    <3> HIDE DEF f, x, u
    <3>5. S \subseteq T
      BY <3>3
    <3>6. T \subseteq S
      BY <3>3, <3>4
    <3>7. S = T
      BY <3>5, <3>6
    <3> HIDE DEF S
    <3>8. \A v \in T : LineOf(f, v).addr = x[v].addr
      BY <3>2
    <3> QED
      BY <3>1, <3>7, <3>8
  <2> QED
    <3>1. c.res \in {0, 1}
      BY <2>5, <2>6
    <3>2. c.res = 1 => Lista(c.rest, c.res) = [v \in {} |-> NoAddr]
      BY DEF Lista
    <3>3. c.res = 0 <=> x[u].connected = 1
      BY <2>5, <2>6
    <3>4. c.res = 1 <=> x[u].connected = 0
      BY <2>5, <2>6
    <3> DEFINE L == Lista(c.rest, c.res)
               K == [v \in {v \in DOMAIN x : x[v].connected = 1} |-> x[v].addr]
    <3>5. c.res = 0 => L = K
      BY <1>5, <2>7
    <3>6. L = IF c.res = 0 THEN K ELSE [v \in {} |-> NoAddr]
      BY <3>1, <3>2, <3>5
    <3>7. \/ u \in DOMAIN x /\ x[u].connected = 0 /\ c.res = 1
          \/ u \in DOMAIN x /\ x[u].connected = 1 /\ c.res = 0
      BY <2>4, <3>1, <3>3, <3>4
    <3> QED
      BY <3>6, <3>7
<1>6. \/ mine = {} /\ (c.rest = f \/ (c.rest = EmptyFile /\ Failing # {}))
      \/ mine # {} /\ c.rest = f
  <2>1. c.rest = f \/ (c.rest = EmptyFile /\ Failing # {})
    BY <1>1, <1>2 DEF HasRead
  <2>2. c.rest = EmptyFile => mine = {}
    BY EmptyIsFile
  <2> DEFINE M == mine = {}
  <2>3. c.rest = EmptyFile => M
    BY <2>2
  <2>4. (M /\ (c.rest = f \/ (c.rest = EmptyFile /\ Failing # {}))) \/ (~M /\ c.rest = f)
    <3> HIDE DEF M, f
    <3> QED
      BY <2>1, <2>3
  <2> QED
    BY <2>4
<1> QED
  BY <1>4, <1>5, <1>6

-----------------------------------------------------------------------------
(* Every step of Storage is one of Database or changes nothing.            *)

(* Outside db_mutex the files are those that the last thread left.         *)
LEMMA SeenIsAntes ==
  ASSUME StorageInv
  PROVE  SeenUsuarios = UsuariosOf(antes) /\ SeenMensajes = MensajesOf(antes)
<1>1. Seen = antes
  BY DEF StorageInv, Seen
<1>2. \A n : SeenFile(n) = ContentOf(antes, n)
  BY <1>1 DEF SeenFile, ContentOf
<1> QED
  BY <1>2 DEF SeenUsuarios, SeenMensajes, UsuariosOf, MensajesOf, LinesOf

(* A call returns in its unlock and in no other step.                      *)
LEMMA ReturnsInUnlock ==
  ASSUME StorageInv, [StorageNext]_storageVars, NEW t \in Worker, Returns(t)
  PROVE  Unlock(t)
<1>1. /\ call[t].pc = "unlock" /\ call'[t].pc = "idle" /\ caidas' = caidas
      /\ DOMAIN call = Worker /\ db_mutex = t /\ db_mutex # None
      /\ \A s \in Worker \ {t} : call[s].pc \notin Working
      /\ caidas \in Nat
  BY NoneAssumption DEF Returns, At, StorageInv, CallsOK, Mutex, Working
<1>2. ~UNCHANGED storageVars
  BY <1>1 DEF storageVars
<1>3. ~Crash
  BY <1>1 DEF Crash
<1>4. ASSUME NEW s \in Worker PROVE ~Call(s)
  <2> SUFFICES ASSUME Call(s) PROVE FALSE
    OBVIOUS
  <2>1. call[s].pc = "idle" /\ call' = [call EXCEPT ![s].pc = "lock"]
    BY DEF Call, At, Goto
  <2>2. s # t
    BY <1>1, <2>1
  <2> QED
    BY <1>1, <2>1, <2>2
<1>5. ASSUME NEW s \in Worker, Continue(s) PROVE s = t /\ Unlock(s)
  <2>1. \/ Unlock(s) /\ call[s].pc = "unlock"
        \/ Lock(s) /\ db_mutex = None
        \/ call[s].pc \in Working \ {"unlock"}
    BY <1>5 DEF Continue, Unlock, Lock, RegisterLooks, Reads, OpenOriginal, AppendRecord,
                OpenTemporary, CopyRecord, UnlinkOriginal, UnlinkTemporary, Rename,
                UnlinkMessages, At, Working
  <2>2. "unlock" \in Working
    BY DEF Working
  <2> QED
    BY <1>1, <2>1, <2>2
<1> QED
  BY <1>2, <1>3, <1>4, <1>5 DEF StorageNext

LEMMA UnlockReturns ==
  ASSUME StorageInv, NEW t \in Worker, Unlock(t) PROVE Returns(t)
BY DEF StorageInv, CallsOK, Unlock, Returns, At, Idle

(* The files change for the others in an unlock only, and in a crash.      *)
LEMMA AntesStays ==
  ASSUME StorageInv, [StorageNext]_storageVars
  PROVE  (\E t \in Worker : Unlock(t)) \/ Crash \/ antes' = antes
<1>1. ASSUME NEW t \in Worker, Lock(t) PROVE antes' = antes
  BY <1>1 DEF StorageInv, Lock
<1>2. ASSUME NEW t \in Worker, Continue(t) PROVE Unlock(t) \/ antes' = antes
  BY <1>1, <1>2 DEF Continue, RegisterLooks, Reads, OpenOriginal, AppendRecord,
       OpenTemporary, CopyRecord, UnlinkOriginal, UnlinkTemporary, Rename, UnlinkMessages,
       OnlyCall
<1> QED
  BY <1>2 DEF StorageNext, Call, storageVars

(* A call that finds no temporary file leaves none.                        *)
TempFiles == {DB_TEMP_FILE} \cup {temp_file(u) : u \in User}

LEMMA FinalNoTemp ==
  ASSUME NEW c, NEW d, NEW a, Args(c), Final(c, d, a), DOMAIN a \cap TempFiles = {}
  PROVE  DOMAIN d \cap TempFiles = {}
<1> SUFFICES ASSUME NEW n \in TempFiles PROVE n \notin DOMAIN d
  OBVIOUS
<1>1. n \in FileNames /\ n \notin DOMAIN a
  BY DEF TempFiles, FileNames
<1>2. \A N : n \notin N /\ Same(d, a, N) => n \notin DOMAIN d
  BY <1>1 DEF Same
<1>3. n # DB_USERS_FILE /\ n # msg_file(c.user) /\ n # OrigOf(c)
  BY Names DEF TempFiles, UsersFiles, OrigOf, Args
<1>4. CASE Registers(c, d, a)
  BY <1>2, <1>3, <1>4 DEF Registers
<1>5. CASE Stores(c, d, a)
  BY <1>2, <1>3, <1>5 DEF Stores
<1>6. CASE HasRead(c, d, a)
  BY <1>2, <1>6 DEF HasRead
<1>7. CASE Gives_Up(c, d, a)
  BY <1>1, <1>2, <1>7 DEF Gives_Up
<1>8. CASE Rewrites(c, d, a)
  <2>1. TempOf(c) \notin DOMAIN d
    BY <1>8 DEF Rewrites, Rewritten
  <2> QED
    BY <1>2, <1>3, <1>8, <2>1 DEF Rewrites
<1> QED
  BY <1>4, <1>5, <1>6, <1>7, <1>8 DEF Final

(* Temporary files are left by crashes only.                               *)
NoTempLeft ==
  /\ caidas \in 0..MaxCrashes
  /\ caidas = 0 => DOMAIN antes \cap TempFiles = {}

LEMMA NoTempInit == StorageInit => NoTempLeft
BY Names, BoundAssumption DEF StorageInit, NoTempLeft, TempFiles, UsersFiles

LEMMA NoTempNext ==
  ASSUME StorageInv, NoTempLeft, [StorageNext]_storageVars PROVE NoTempLeft'
<1>1. CASE Crash
  BY <1>1, BoundAssumption DEF Crash, NoTempLeft
<1>2. CASE ~Crash
  <2>1. caidas' = caidas
    <3>1. ASSUME NEW t \in Worker, Lock(t) \/ RegisterLooks(t) \/ Reads(t) \/ OpenOriginal(t)
          PROVE  caidas' = caidas
      BY <3>1 DEF Lock, RegisterLooks, Reads, OpenOriginal, OnlyCall
    <3>2. ASSUME NEW t \in Worker, AppendRecord(t) \/ OpenTemporary(t) \/ CopyRecord(t)
          PROVE  caidas' = caidas
      BY <3>2 DEF AppendRecord, OpenTemporary, CopyRecord
    <3>3. ASSUME NEW t \in Worker, \/ UnlinkOriginal(t) \/ UnlinkTemporary(t) \/ Rename(t)
                                   \/ UnlinkMessages(t) \/ Unlock(t)
          PROVE  caidas' = caidas
      BY <3>3 DEF UnlinkOriginal, UnlinkTemporary, Rename, UnlinkMessages, Unlock
    <3>4. ASSUME NEW t \in Worker, Call(t) PROVE caidas' = caidas
      BY <3>4 DEF Call
    <3>5. UNCHANGED storageVars => caidas' = caidas
      BY DEF storageVars
    <3> QED
      BY <1>2, <3>1, <3>2, <3>3, <3>4, <3>5 DEF StorageNext, Continue
  <2>2. CASE antes' = antes
    BY <2>1, <2>2 DEF NoTempLeft
  <2>3. ASSUME NEW t \in Worker, Unlock(t) PROVE NoTempLeft'
    <3>1. call[t].pc = "unlock" /\ call[t].pc \in Working /\ antes' = disk
      BY <2>3 DEF Unlock, At, Working
    <3>2. Args(call[t]) /\ Final(call[t], disk, antes)
      BY <3>1, StageOf DEF Stage
    <3> QED
      BY <2>1, <3>1, <3>2, FinalNoTemp DEF NoTempLeft
  <2> QED
    BY <1>2, <2>2, <2>3, AntesStays
<1> QED
  BY <1>1, <1>2

LEMMA NoTempInvariant == StorageSpec => []NoTempLeft
<1>1. QED
  BY NoTempInit, NoTempNext, StorageInvariant, PTL DEF StorageSpec

(* No open of a temporary file fails unseen while there is an old one.     *)
Harmless == TempsTested \/ DOMAIN antes \cap TempFiles = {}

(* What a thread that releases db_mutex has done.                          *)
LEMMA UnlockIsReady ==
  ASSUME StorageInv, StorageInv', LooksFirst, Harmless, NEW t \in Worker, Unlock(t)
  PROVE  /\ Ready(call[t], disk, antes)
         /\ SeenUsuarios = UsuariosOf(antes) /\ SeenMensajes = MensajesOf(antes)
         /\ SeenUsuarios' = UsuariosOf(disk) /\ SeenMensajes' = MensajesOf(disk)
<1>1. call[t].pc = "unlock" /\ call[t].pc \in Working /\ antes' = disk
  BY DEF Unlock, At, Working
<1>2. Stage(call[t], disk, antes) /\ Args(call[t]) /\ Final(call[t], disk, antes)
  BY <1>1, StageOf DEF Stage
<1>3. FilesOK(antes) /\ ("prepare_temp" \notin Failing => DB_USERS_FILE \in DOMAIN antes)
  BY DEF StorageInv, HasUsers
<1>4. (SeenUsuarios = UsuariosOf(antes))' /\ (SeenMensajes = MensajesOf(antes))'
  BY SeenIsAntes, PTL
<1>5. TempsTested \/ TempOf(call[t]) \notin DOMAIN antes
  <2>1. TempOf(call[t]) \in TempFiles
    BY <1>2 DEF TempOf, TempFiles, Args
  <2> QED
    BY <2>1 DEF Harmless
<1> QED
  BY <1>1, <1>2, <1>3, <1>4, <1>5, SeenIsAntes DEF Ready

(* Each function, at its unlock, is the one of Database of that name.      *)
MayFail == Failing # {} => OpenMayFail

(* The operators of Protocol are the same ones in the instance.            *)
LEMMA SameOperators ==
  /\ Calls!NoAddr = NoAddr /\ Calls!EmptyFile = EmptyFile
  /\ Calls!NewLine = [connected |-> 0, addr |-> NoAddr, last_id |-> 0]
  /\ \A n : Calls!NextId(n) = NextId(n)
  /\ \A f, S : Calls!Restrict(f, S) = Restrict(f, S)
  /\ \A f, m : Calls!Appended(f, m) = Appended(f, m)
  /\ \A c : Calls!SessionAddr(c) = SessionAddr(c)
<1>1. \A f : Calls!NextSlot(f) = NextSlot(f)
  BY DEF Calls!NextSlot, NextSlot, Calls!Max, Max
<1> QED
  BY <1>1 DEF Calls!NoAddr, NoAddr, Calls!EmptyFile, EmptyFile, Calls!NewLine, Calls!NextId, NextId,
       Calls!Restrict, Restrict, Calls!Appended, Appended, Calls!SessionAddr, SessionAddr

LEMMA UsersFileEffect ==
  ASSUME StorageInv, StorageInv', LooksFirst, Harmless, MayFail, NEW t \in Worker, Unlock(t)
  PROVE  LET c == call[t]
         IN  /\ c.op = "register" => Calls!db_register(c.user, c.res)
             /\ c.op = "unregister" => Calls!db_unregister(c.user, c.res)
             /\ c.op = "connect" => Calls!db_connect(c.user, c.addr, c.res)
             /\ c.op = "disconnect" => Calls!db_disconnect(c.user, c.res)
             /\ c.op = "prepare" => Calls!db_prepare_message(c.user, c.dest, c.res)
<1> DEFINE c == call[t]
<1>1. /\ Ready(c, disk, antes)
      /\ SeenUsuarios = UsuariosOf(antes) /\ SeenMensajes = MensajesOf(antes)
      /\ SeenUsuarios' = UsuariosOf(disk) /\ SeenMensajes' = MensajesOf(disk)
  BY UnlockIsReady
<1> HIDE DEF c
<1>2. c.op = "register" => Calls!db_register(c.user, c.res)
  <2> SUFFICES ASSUME c.op = "register" PROVE Calls!db_register(c.user, c.res)
    OBVIOUS
  <2> DEFINE X == UsuariosOf(antes)
             Y == UsuariosOf(disk)
  <2>1. /\ MensajesOf(disk) = MensajesOf(antes)
        /\ \/ c.user \in DOMAIN X /\ c.res = 1 /\ Y = X
           \/ c.user \notin DOMAIN X /\ c.res = 0 /\ Y = WithUser(X, c.user)
           \/ Failing # {} /\ c.res = 2 /\ Y = X
    BY <1>1, RegisterDone
  <2>3. /\ UNCHANGED SeenMensajes
        /\ \/ c.user \in DOMAIN SeenUsuarios /\ c.res = 1 /\ UNCHANGED SeenUsuarios
           \/ c.user \notin DOMAIN SeenUsuarios /\ c.res = 0 /\ SeenUsuarios' = WithUser(SeenUsuarios, c.user)
           \/ Failing # {} /\ c.res = 2 /\ UNCHANGED SeenUsuarios
    BY <1>1, <2>1
  <2>4. WithUser(SeenUsuarios, c.user) =
          [v \in DOMAIN SeenUsuarios \cup {c.user} |->
             IF v = c.user THEN Calls!NewLine ELSE SeenUsuarios[v]]
    BY SameOperators DEF WithUser
  <2> QED
    BY <2>3, <2>4
       DEF MayFail, Calls!db_register, Calls!Exists, Calls!OpenFails, Calls!dbVars
<1>3. c.op = "unregister" => Calls!db_unregister(c.user, c.res)
  BY <1>1, UnregisterDone, SameOperators
     DEF MayFail, Calls!db_unregister, Calls!Exists, Calls!OpenFails, Calls!dbVars
<1>4. c.op = "connect" => Calls!db_connect(c.user, c.addr, c.res)
  BY <1>1, ConnectDone, SameOperators
     DEF MayFail, Calls!db_connect, Calls!Exists, Calls!OpenFails, Calls!dbVars, Calls!Rewrite
<1>5. c.op = "disconnect" => Calls!db_disconnect(c.user, c.res)
  BY <1>1, DisconnectDone, SameOperators
     DEF MayFail, Calls!db_disconnect, Calls!Exists, Calls!OpenFails, Calls!dbVars,
         Calls!Rewrite
<1>6. c.op = "prepare" => Calls!db_prepare_message(c.user, c.dest, c.res)
  BY <1>1, PrepareDone, SameOperators
     DEF MayFail, Calls!db_prepare_message, Calls!Exists, Calls!OpenFails, Calls!dbVars,
         Calls!Rewrite
<1> QED
  BY <1>2, <1>3, <1>4, <1>5, <1>6 DEF c

LEMMA MailboxEffect ==
  ASSUME StorageInv, StorageInv', LooksFirst, Harmless, MayFail, NEW t \in Worker, Unlock(t)
  PROVE  LET c == call[t]
         IN  /\ c.op = "store" => Calls!db_store_message(c.user, c.msg, c.res)
             /\ c.op = "delete" => Calls!db_delete_message(c.user, c.id)
             /\ c.op = "pending" => Calls!db_get_pending_messages(c.user, c.rest)
             /\ c.op = "info" => Calls!get_user_info(c.user, c.res)
             /\ c.op = "users" => Calls!db_get_connected_users(c.user, Lista(c.rest, c.res), c.res)
<1> DEFINE c == call[t]
<1>1. /\ Ready(c, disk, antes)
      /\ SeenUsuarios = UsuariosOf(antes) /\ SeenMensajes = MensajesOf(antes)
      /\ SeenUsuarios' = UsuariosOf(disk) /\ SeenMensajes' = MensajesOf(disk)
  BY UnlockIsReady
<1> HIDE DEF c
<1>2. c.op = "store" => Calls!db_store_message(c.user, c.msg, c.res)
  BY <1>1, StoreDone, SameOperators
     DEF MayFail, Calls!db_store_message, Calls!OpenFails, Calls!dbVars
<1>3. c.op = "delete" => Calls!db_delete_message(c.user, c.id)
  <2> SUFFICES ASSUME c.op = "delete" PROVE Calls!db_delete_message(c.user, c.id)
    OBVIOUS
  <2> DEFINE V == MensajesOf(antes)
             W == MensajesOf(disk)
  <2>1. /\ UsuariosOf(disk) = UsuariosOf(antes)
        /\ \/ W = [V EXCEPT ![c.user] = Restrict(V[c.user], Kept(V[c.user], c.id))]
           \/ Failing # {} /\ W = [V EXCEPT ![c.user] = EmptyFile]
           \/ Failing # {} /\ W = V
    BY <1>1, DeleteDone
  <2>2. Kept(SeenMensajes[c.user], c.id) =
          {i \in DOMAIN SeenMensajes[c.user] : SeenMensajes[c.user][i].id # c.id}
    BY DEF Kept
  <2>3. /\ UNCHANGED SeenUsuarios
        /\ \/ SeenMensajes' = [SeenMensajes EXCEPT ![c.user] =
                                 Restrict(SeenMensajes[c.user], Kept(SeenMensajes[c.user], c.id))]
           \/ Failing # {} /\ SeenMensajes' = [SeenMensajes EXCEPT ![c.user] = EmptyFile]
           \/ Failing # {} /\ UNCHANGED SeenMensajes
    BY <1>1, <2>1
  <2> DEFINE g == Restrict(SeenMensajes[c.user], Kept(SeenMensajes[c.user], c.id))
  <2>4. g = Calls!Restrict(SeenMensajes[c.user], Kept(SeenMensajes[c.user], c.id))
    BY SameOperators
  <2> QED
    BY <2>2, <2>3, <2>4, SameOperators DEF MayFail, Calls!db_delete_message
<1>4. c.op = "pending" => Calls!db_get_pending_messages(c.user, c.rest)
  BY <1>1, ReadNothing, PendingDone, SameOperators
     DEF MayFail, Calls!db_get_pending_messages, Calls!dbVars
<1>5. c.op = "info" => Calls!get_user_info(c.user, c.res)
  BY <1>1, ReadNothing, InfoDone, SameOperators
     DEF MayFail, Calls!get_user_info, Calls!Exists, Calls!dbVars
<1>6. c.op = "users" => Calls!db_get_connected_users(c.user, Lista(c.rest, c.res), c.res)
  BY <1>1, ReadNothing, UsersDone, SameOperators
     DEF MayFail, Calls!db_get_connected_users, Calls!Exists, Calls!dbVars
<1> QED
  BY <1>2, <1>3, <1>4, <1>5, <1>6 DEF c

LEMMA UnlockEffect ==
  ASSUME StorageInv, StorageInv', LooksFirst, Harmless, MayFail, NEW t \in Worker, Unlock(t)
  PROVE  Effect(t)
<1> DEFINE c == call[t]
<1>1. c.op \in Functions8
  BY UnlockIsReady DEF Ready, Args
<1>2. /\ c.op = "register" => Calls!db_register(c.user, c.res)
      /\ c.op = "unregister" => Calls!db_unregister(c.user, c.res)
      /\ c.op = "connect" => Calls!db_connect(c.user, c.addr, c.res)
      /\ c.op = "disconnect" => Calls!db_disconnect(c.user, c.res)
      /\ c.op = "prepare" => Calls!db_prepare_message(c.user, c.dest, c.res)
  BY UsersFileEffect
<1>3. /\ c.op = "store" => Calls!db_store_message(c.user, c.msg, c.res)
      /\ c.op = "delete" => Calls!db_delete_message(c.user, c.id)
      /\ c.op = "pending" => Calls!db_get_pending_messages(c.user, c.rest)
      /\ c.op = "info" => Calls!get_user_info(c.user, c.res)
      /\ c.op = "users" => Calls!db_get_connected_users(c.user, Lista(c.rest, c.res), c.res)
  BY MailboxEffect
<1>4. Lista(c.rest, c.res) =
        LET here == {i \in DOMAIN c.rest : c.res = 0 /\ c.rest[i].connected = 1}
        IN  [u \in {c.rest[i].name : i \in here} |-> LineOf(c.rest, u).addr]
  BY DEF Lista
<1> HIDE DEF c
<1>5. c.op \in {"register", "unregister", "connect", "disconnect", "prepare"} => Effect(t)
  BY <1>2 DEF Effect, c
<1>6. c.op \in {"store", "delete", "pending", "info"} => Effect(t)
  BY <1>3 DEF Effect, c
<1>7. c.op = "users" => Effect(t)
  BY <1>3, <1>4 DEF Effect, c
<1> QED
  BY <1>1, <1>5, <1>6, <1>7 DEF Functions8, Rewriters

(* usuarios.txt at the start has a line for each registered user.          *)
LEMMA StartsAsDatabase ==
  ASSUME StorageInit PROVE Calls!DbInit
<1> DEFINE n == Cardinality(Registered)
           f == disk[DB_USERS_FILE]
           x == [u \in Registered |-> Fields(FormerLine(u))]
<1>1. PICK order \in [1..n -> Registered] :
        /\ IsInjective(order)
        /\ disk = [m \in {DB_USERS_FILE} |-> [i \in DOMAIN order |-> FormerLine(order[i])]]
  BY DEF StorageInit
<1>2. n \in Nat /\ IsFiniteSet(Registered)
  BY StorageAssumption, FS_CardinalityType
<1>3. order \in Surjection(1..n, Registered)
  <2>1. order \in Injection(1..n, Registered)
    BY <1>1 DEF Injection
  <2>2. Cardinality(1..n) = n
    BY <1>2, FS_Interval
  <2> QED
    BY <1>2, <2>1, <2>2, FS_Injection
<1>4. /\ DOMAIN f = 1..n /\ DOMAIN disk = {DB_USERS_FILE}
      /\ \A i \in 1..n : f[i] = FormerLine(order[i])
  BY <1>1
<1>5. StorageInv /\ antes = disk
  BY InitInv DEF StorageInit
<1>6. SeenUsuarios = LinesOf(f) /\ SeenMensajes = [u \in User |-> EmptyFile]
  <2>1. ContentOf(antes, DB_USERS_FILE) = f
    BY <1>4, <1>5 DEF ContentOf
  <2>2. \A u \in User : ContentOf(antes, msg_file(u)) = EmptyFile
    BY <1>4, <1>5, Names DEF ContentOf, UsersFiles
  <2> QED
    BY <1>5, <2>1, <2>2, SeenIsAntes DEF UsuariosOf, MensajesOf
<1>7. LinesOf(f) = x
  <2>1. \A i \in DOMAIN f : f[i].name = order[i] /\ Fields(f[i]) = x[order[i]]
    BY <1>1, <1>4, FormerLines
  <2>2. x = [u \in Registered |-> x[u]]
    OBVIOUS
  <2>3. DOMAIN f = 1..n /\ \A i \in 1..n : f[i].name = order[i] /\ order[i] \in Registered
    BY <1>1, <1>4, <2>1
  <2>4. \A u : u \in Registered <=> Named(f, u)
    <3>1. \A u \in Registered : \E i \in 1..n : order[i] = u
      BY <1>3 DEF Surjection
    <3> HIDE DEF f, n
    <3> QED
      BY <2>3, <3>1 DEF Named
  <2>5. OneLine(f)
    <3>1. \A i, j \in 1..n : order[i] = order[j] => i = j
      BY <1>1 DEF IsInjective
    <3> HIDE DEF f, n
    <3> QED
      BY <2>3, <3>1 DEF OneLine
  <2>6. \A i \in DOMAIN f : x[f[i].name] = Fields(f[i])
    <3> HIDE DEF x, f
    <3> QED
      BY <2>1
  <2> HIDE DEF x, f
  <2> QED
    BY <2>2, <2>4, <2>5, <2>6, LinesEqual
<1>8. ASSUME NEW u \in Registered
      PROVE  x[u] = IF \E c \in Client : Session[c].user = u
                    THEN [connected |-> 1, last_id |-> 0,
                          addr |-> Calls!SessionAddr(CHOOSE c \in Client : Session[c].user = u)]
                    ELSE Calls!NewLine
  <2> DEFINE k == CHOOSE c \in Client : Session[c].user = u
  <2>1. Calls!SessionAddr(k) = SessionAddr(k)
    BY SameOperators
  <2> DEFINE addr == SessionAddr(k)
  <2>2. FormerLine(u) = IF \E c \in Client : Session[c].user = u
                        THEN [Fresh(u) EXCEPT !.connected = 1, !.addr = addr]
                        ELSE Fresh(u)
    BY DEF FormerLine
  <2>3. Fresh(u) = [name |-> u, connected |-> 0, addr |-> NoAddr, last_id |-> 0]
    BY DEF Fresh
  <2> HIDE DEF k, addr
  <2>4. Fields(FormerLine(u)) = IF \E c \in Client : Session[c].user = u
                                THEN [connected |-> 1, last_id |-> 0, addr |-> addr]
                                ELSE [connected |-> 0, addr |-> NoAddr, last_id |-> 0]
    BY <2>2, <2>3 DEF Fields
  <2> QED
    BY <2>1, <2>4, SameOperators DEF k, addr
<1> HIDE DEF x
<1>9. SeenUsuarios = [u \in Registered |->
                        IF \E c \in Client : Session[c].user = u
                        THEN [connected |-> 1, last_id |-> 0,
                              addr |-> Calls!SessionAddr(CHOOSE c \in Client : Session[c].user = u)]
                        ELSE Calls!NewLine]
  BY <1>6, <1>7, <1>8 DEF x
<1> QED
  BY <1>6, <1>9, SameOperators DEF Calls!DbInit

(* A step that is no return and no crash is seen by nobody else.           *)
StepOfDatabase ==
  /\ \A t \in Worker : Returns(t) => Effect(t)
  /\ \/ \E t \in Worker : Returns(t)
     \/ Crash
     \/ UNCHANGED <<SeenUsuarios, SeenMensajes>>

LEMMA StepsAsDatabase ==
  ASSUME StorageInv, StorageInv', LooksFirst, Harmless, MayFail, [StorageNext]_storageVars
  PROVE  StepOfDatabase
<1>1. \A t \in Worker : Returns(t) => Effect(t)
  BY ReturnsInUnlock, UnlockEffect
<1>2. CASE \E t \in Worker : Unlock(t)
  BY <1>1, <1>2, UnlockReturns DEF StepOfDatabase
<1>3. CASE Crash
  BY <1>1, <1>3 DEF StepOfDatabase
<1>4. CASE antes' = antes
  <2>1. SeenUsuarios = UsuariosOf(antes) /\ SeenMensajes = MensajesOf(antes)
    BY SeenIsAntes
  <2>2. (SeenUsuarios = UsuariosOf(antes))' /\ (SeenMensajes = MensajesOf(antes))'
    BY SeenIsAntes, PTL
  <2> QED
    BY <1>1, <1>4, <2>1, <2>2 DEF StepOfDatabase
<1> QED
  BY <1>2, <1>3, <1>4, AntesStays

(* The functions of database.c, one system call at a time, implement those *)
(* of Database: what the threads outside db_mutex see changes at the       *)
(* unlock of a call only, and then as Database says, with the result the   *)
(* call returns.  Any open may fail but the first one of db_register, and  *)
(* Database knows by OpenMayFail if one does.  Crashes may come at any     *)
(* point if the two opens of a temporary file that the code does not test  *)
(* for succeed: a stale copy would else be taken for the new one.          *)
THEOREM StorageImplementsDatabase ==
  ASSUME LooksFirst, MayFail, MaxCrashes = 0 \/ TempsTested
  PROVE  StorageSpec => ImplementsDatabase
<1>1. StorageInit => Calls!DbInit
  BY StartsAsDatabase
<1>2. NoTempLeft => Harmless
  BY DEF NoTempLeft, Harmless
<1>3. /\ StorageInv /\ StorageInv' /\ NoTempLeft /\ [StorageNext]_storageVars
      => StepOfDatabase
  BY <1>2, StepsAsDatabase
<1>4. StorageSpec => [][StepOfDatabase]_storageVars
  BY <1>3, StorageInvariant, NoTempInvariant, PTL DEF StorageSpec
<1> QED
  BY <1>1, <1>4, PTL DEF StorageSpec, ImplementsDatabase, StepOfDatabase

=============================================================================
