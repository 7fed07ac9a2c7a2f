------------------------------ MODULE Database ------------------------------
(***************************************************************************)
(* parte2/server/src/c_files/database.c: the registered users and their    *)
(* mailboxes.  Every function of the file holds db_mutex from its first to *)
(* its last line, so each is one atomic step here.                         *)
(*                                                                         *)
(* usuarios is usuarios.txt: its domain is the set of users with a line.   *)
(* mensajes[u] is mensajes_<u>.dat.  A function that rewrites a file       *)
(* copies the other lines to a temporary file, unlinks the original and    *)
(* renames the copy; seen from outside the mutex that is one assignment.   *)
(* When OpenMayFail, open(2) may fail in any of the functions, with the    *)
(* outcome its error path (or its missing error path) has.  Storage has    *)
(* the single system calls and is shown to implement this module; what it  *)
(* has and this module has not is a crash inside a function, the copy that *)
(* one leaves taken for a new one whose open fails untested, and           *)
(* db_register appending a second line when only its first open fails.     *)
(***************************************************************************)
EXTENDS Protocol

VARIABLES usuarios, mensajes

dbVars == <<usuarios, mensajes>>

Line == [connected : {0, 1}, addr : Addr \cup {NoAddr}, last_id : 0..MaxId]

NewLine == [connected |-> 0, addr |-> NoAddr, last_id |-> 0]

DbTypeOK ==
  /\ DOMAIN usuarios \subseteq User
  /\ usuarios \in [DOMAIN usuarios -> Line]
  /\ DOMAIN mensajes = User
  /\ \A u \in User : IsFile(mensajes[u])

(* The files a former run of the server left. *)
DbInit ==
  /\ usuarios = [u \in Registered |->
                   IF \E c \in Client : Session[c].user = u
                   THEN [connected |-> 1, last_id |-> 0,
                         addr |-> SessionAddr(CHOOSE c \in Client : Session[c].user = u)]
                   ELSE NewLine]
  /\ mensajes = [u \in User |-> EmptyFile]

Exists(u) == u \in DOMAIN usuarios

(* The user's line becomes l, the others are copied. *)
Rewrite(u, l) == usuarios' = [usuarios EXCEPT ![u] = l]

(* An open that fails and is tested for: the function returns res. *)
OpenFails(res, codes) == OpenMayFail /\ res \in codes /\ UNCHANGED dbVars

(* Variants with a bug that nothing uses: each shows that a property would *)
(* notice.  This one adds a user without looking for a line it has.        *)
db_register_Overwrites(u, res) ==
  /\ res = 0
  /\ usuarios' = [v \in DOMAIN usuarios \cup {u} |-> IF v = u THEN NewLine ELSE usuarios[v]]
  /\ UNCHANGED mensajes

db_register(u, res) ==
  \/ Exists(u) /\ res = 1 /\ UNCHANGED dbVars
  \/ /\ ~Exists(u) /\ res = 0
     /\ usuarios' = [v \in DOMAIN usuarios \cup {u} |->
                       IF v = u THEN NewLine ELSE usuarios[v]]
     /\ UNCHANGED mensajes
  \/ OpenFails(res, {2})

(* A variant: the mailbox is removed before anything is tested. *)
db_unregister_MailboxFirst(u, res) ==
  /\ mensajes' = [mensajes EXCEPT ![u] = EmptyFile]
  /\ \/ Exists(u) /\ res = 0 /\ usuarios' = Restrict(usuarios, DOMAIN usuarios \ {u})
     \/ OpenMayFail /\ res = 2 /\ UNCHANGED usuarios

db_unregister(u, res) ==
  \/ ~Exists(u) /\ res = 1 /\ UNCHANGED dbVars
  \/ /\ Exists(u) /\ res = 0
     /\ usuarios' = Restrict(usuarios, DOMAIN usuarios \ {u})
     /\ mensajes' = [mensajes EXCEPT ![u] = EmptyFile]
  \/ OpenFails(res, {1, 2})

(* A variant: the connected flag is not looked at. *)
db_connect_Unchecked(u, addr, res) ==
  \/ ~Exists(u) /\ res = 1 /\ UNCHANGED dbVars
  \/ /\ Exists(u) /\ res = 0
     /\ Rewrite(u, [connected |-> 1, addr |-> addr, last_id |-> usuarios[u].last_id])
     /\ UNCHANGED mensajes

db_connect(u, addr, res) ==
  \/ ~Exists(u) /\ res = 1 /\ UNCHANGED dbVars
  \/ /\ Exists(u) /\ usuarios[u].connected = 1 /\ res = 2
     /\ UNCHANGED dbVars
  \/ /\ Exists(u) /\ usuarios[u].connected = 0 /\ res = 0
     /\ Rewrite(u, [connected |-> 1, addr |-> addr, last_id |-> usuarios[u].last_id])
     /\ UNCHANGED mensajes
  \/ OpenFails(res, {1, 3})

db_disconnect(u, res) ==
  \/ ~Exists(u) /\ res = 1 /\ UNCHANGED dbVars
  \/ /\ Exists(u) /\ usuarios[u].connected = 0 /\ res = 2
     /\ UNCHANGED dbVars
  \/ /\ Exists(u) /\ usuarios[u].connected = 1 /\ res = 0
     /\ Rewrite(u, [NewLine EXCEPT !.last_id = usuarios[u].last_id])
     /\ UNCHANGED mensajes
  \/ OpenFails(res, {1, 3})

(* A variant: the number is not written back. *)
db_prepare_message_Forgets(sender, receiver, res) ==
  /\ res = IF Exists(sender) /\ Exists(receiver) THEN 0 ELSE 1
  /\ UNCHANGED dbVars

(* With res = 0 the caller gets NextId of the sender's last_id and the     *)
(* receiver's connected flag and address, all read under the same mutex.   *)
(* The open of the temporary file is not tested: when it fails, the old    *)
(* usuarios.txt is unlinked and there is no copy to rename.                *)
db_prepare_message(sender, receiver, res) ==
  \/ ~(Exists(sender) /\ Exists(receiver)) /\ res = 1 /\ UNCHANGED dbVars
  \/ /\ Exists(sender) /\ Exists(receiver) /\ res = 0
     /\ \/ Rewrite(sender, [usuarios[sender] EXCEPT !.last_id = NextId(@)])
        \/ OpenMayFail /\ usuarios' = Restrict(usuarios, {})
     /\ UNCHANGED mensajes
  \/ OpenFails(res, {2})

(* The receiver's file is created when there is none: nothing here asks    *)
(* whether the receiver is still registered.                               *)
db_store_message(receiver, m, res) ==
  \/ /\ res = 0
     /\ mensajes' = [mensajes EXCEPT ![receiver] = Appended(mensajes[receiver], m)]
     /\ UNCHANGED usuarios
  \/ OpenFails(res, {2})

(* A variant: no record is copied. *)
db_delete_message_All(u, msg_id) ==
  mensajes' = [mensajes EXCEPT ![u] = EmptyFile] /\ UNCHANGED usuarios

(* Every record with the number is left out, whoever sent it.  Again the   *)
(* open of the temporary file is not tested, and its failure loses the     *)
(* whole mailbox.                                                          *)
db_delete_message(u, msg_id) ==
  LET f == mensajes[u]
      kept == {i \in DOMAIN f : f[i].id # msg_id}
  IN  /\ \/ mensajes' = [mensajes EXCEPT ![u] = Restrict(f, kept)]
         \/ OpenMayFail /\ mensajes' = [mensajes EXCEPT ![u] = EmptyFile]
         \/ OpenMayFail /\ UNCHANGED mensajes
      /\ UNCHANGED usuarios

(* The whole file as an array. *)
db_get_pending_messages(u, msgs) ==
  /\ \/ msgs = mensajes[u]
     \/ OpenMayFail /\ msgs = EmptyFile
  /\ UNCHANGED dbVars

(* lista: the connected users and where they are.  Nothing is written.     *)
db_get_connected_users(u, lista, res) ==
  /\ \/ ~Exists(u) /\ res = 2
     \/ Exists(u) /\ usuarios[u].connected = 0 /\ res = 1
     \/ Exists(u) /\ usuarios[u].connected = 1 /\ res = 0
     \/ OpenMayFail /\ res = 2
  /\ lista = IF res = 0
             THEN [v \in {v \in DOMAIN usuarios : usuarios[v].connected = 1} |-> usuarios[v].addr]
             ELSE [v \in {} |-> NoAddr]
  /\ UNCHANGED dbVars

(* funciones.c, get_user_info: res is -1 or 0, and with 0 the caller reads *)
(* the user's line.                                                        *)
get_user_info(u, res) ==
  /\ \/ Exists(u) /\ res = 0
     \/ ~Exists(u) /\ res = -1
     \/ OpenMayFail /\ res = -1
  /\ UNCHANGED dbVars

=============================================================================
