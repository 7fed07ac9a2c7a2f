# A verification model of the messaging service

TLA+ modules, TLC runs and TLAPS proofs for the messaging service in `src/`: a
C server with its database, a Python client, an ONC-RPC log and a small web
service.  The models are of `src/parte2`, and of `src/parte1` where the two
have the same code or where their difference matters.

## 1. The system

| Part | Source (under `src/parte2`) | State | Operations |
|---|---|---|---|
| Database | `server/src/c_files/database.c` | `usuarios.txt` (a line per user: connected flag, address, last message number), `mensajes_<u>.dat` (pending messages), `db_mutex` | register, unregister, connect, disconnect, prepare, store and delete a message, pending messages, connected users |
| Request handlers | `funciones.c` | local variables of one thread | `f_register` ... `f_sendattach`, `get_user_info` |
| Main loop, dispatcher | `servidor.c` | the listening socket, `sd_global`/`sd_copiado` with a mutex and a condition variable, descriptors | accept, start a detached thread, `tratar_peticion`, the SIGINT handler |
| Wire format | `comunicaciones.c`, client `send_to_server`/`receive_*` | sockets | null-terminated strings, one result byte |
| RPC log client | `log_rpc_client.c` | `clnt`, `enabled`, `rpc_mutex` | init, send, destroy |
| RPC log server, stubs | `rpc_server/` | none | prints its arguments; the rest is generated by rpcgen |
| Client shell | `client/client.py` | connected user, listener socket and thread, directory of users | the nine commands |
| Client listener | `client/client.py`, `listener_thread`, `serve_file` | the stop flag, the socket's queue | prints pushes, serves files |
| Web service | `web_service/ws_normalize.py` | none | collapses blanks |

How they interact.  Each command opens a short TCP connection, sends the
operation and its fields, waits for one byte (and, after SEND, a number) and
closes.  The main thread hands the socket to a detached thread through
`sd_global`.  The thread calls the database; each database function holds
`db_mutex` from its first line to its last, and between two of them the thread
holds nothing.  To push a message or a confirmation the thread opens a
connection to the address that `usuarios.txt` had for the user when the thread
read it.  The client's listener thread accepts these connections, and those of
other clients that want a file.  Each handler makes a log call between its
other steps, under `rpc_mutex`.

What is hard here: handlers are sequences of critical sections (prepare, reply,
store, push, delete, look the sender up, confirm), so a result of one can be
stale at the next; addresses of clients outlive the clients; the receiver's
state, its mailbox and the push are three different observations; numbers are
per sender while mailboxes are per receiver; the files are rewritten by unlink
and rename; the client's threads share attributes without a lock; failures (a
dead peer, a server that stops, a failing `open`, a log server that does not
answer) can come between any two steps.

What makes each part correct:

* Database: numbers of a sender are distinct (until they wrap), a connected
  user keeps its address, a mailbox loses nothing that was not delivered; each
  call is atomic, whatever a crash left behind, and releases its mutex.
* Handlers: an accepted message is stored, pushed only to where its receiver was
  connected, deleted only after a push, confirmed only after a push, and every
  thread ends.
* Dispatcher: each connection is served by exactly one thread; descriptors come
  back when a thread is done; SIGINT ends the process; no client stops main but by
  keeping descriptors.
* Log: one that is off from the start is never used; a slow or failing call only
  delays the threads.  A log server that died is a different matter: see section 3,
  *Promises that do not hold*.
* Texts: what is printed is what was typed, but for blanks.
* Client: the shell never waits for ever on another client; a connected client
  has a listener that runs; GETFILE OK means the file.

`PROJECT.json` lists the hazards line by line, with the property that would
notice each one.

## 2. Modules

| Module | Models | State |
|---|---|---|
| `Protocol` | requests, pushes, message records, files of records; constants and their assumptions | - |
| `Database` | `database.c` and `get_user_info`, a function a step | `usuarios`, `mensajes` |
| `Network` | request connections, listeners and their queues | `conn`, `listening`, `backlog` |
| `Server` | the choice of the handler, the handlers of `funciones.c`, and a stop of the server | `hilo`, `msgs`, `caidas`, and five history variables |
| `ClientShell` | the shell of `client.py`, as the server sees it | `connected_user`, `ordenes`, `muertes` |
| `MessagingService` | the composition of these, its properties, fairness | - |
| `MailSystem` | abstract: accepted, stored, pushed, deleted mail and the users it is for; `MessagingService` implements it | `registrados`, `prometidos`, `guardados`, `buzones`, `entregados` |
| `Promises` | what the documentation says of the service and the code does not always do | - |
| `Storage` | `database.c`, a system call a step, with crashes; implements `Database` | `disk`, `db_mutex`, `call`, `antes`, counters |
| `Process` | the server as a process: main loop, handover, threads, descriptors, log client, SIGINT | `main`, `hilo`, `sd_global`, `sd_copiado`, `abiertos`, `rpc_mutex`, `enabled`, `clnt`, `manejador`, ... |
| `Texts` | a message as bytes, from the typed line to the printed one | `paso`, `tecleado`, `campos`, ... |
| `Peers` | `client.py` with its threads; USERS, GETFILE and `serve_file` between two clients | `listen_socket`, `stop_listening`, `users_directory`, `hilo`, `shell`, `trans`, ... |
| `MCService`, `MCStorage`, `MCProcess`, `MCTexts`, `MCPeers` | instances for TLC | - |
| `FileLemmas`, `MessagingServiceProofs`, `DeliveryProofs`, `MailProofs`, `StorageProofs`, `ProcessProofs`, `PeersProofs`, `TextsProofs` | theorems, section 5 | - |

How they fit together.  `MessagingService` composes `Database`, `Network`,
`Server` and `ClientShell` and is where the service's promises are stated.  Each
of the other modules opens one of the boxes that it keeps closed, with the rest
reduced to what that box sees of it: `Storage` a database function, `Process` a
thread and what is around it, `Texts` a message, `Peers` a client.

### Correspondence: the service

* `usuarios[u]` is u's line.  `NoAddr` is the `0.0.0.0 0` the code writes for
  a user who is offline.  Rewriting the file through a temporary copy is one
  assignment, because it happens under `db_mutex` and every reader takes it.
* `mensajes[u]` is the mailbox file: records at slots, in slot order.  The slots
  are not file offsets: a deletion leaves a gap where the code closes up; only
  the order matters to `db_get_pending_messages`.
* An action of a database function has the result code as a parameter, so that
  the function's early returns are disjuncts with their guards.  With
  `OpenMayFail`, each `open` may fail with the outcome its error path has.
  That includes the two temporary files whose `open` is not tested: then
  `usuarios.txt`, or the mailbox, is gone.
* `hilo[w].pc` is the next thing thread w does that another party can see.
  `f_send` and `f_sendattach` deliver one message and `f_connect` an array, by
  the same statements; both are the steps `deliver`, `delete`, `ack_info`,
  `ack`, with `msgs[w]` what is left of the array.  `drop_dest` and
  `drop_sender` are the calls of `db_disconnect` after a push that failed.
* The server has as many threads as there are requests; the model has
  `Worker` of them, and a request waits in state `sent` when all are busy.
* A push is one step: connect, write, close.  It succeeds when a listener is
  bound to the address and has room in its queue.  The queue is dropped when
  the listener closes.
* `ServerCrash` is any end of the server process (SIGINT, a kill, SIGPIPE from
  a write to a client that is gone) and its restart; `Killed` the same for a
  client.  A restart of the server keeps the files and loses the threads.
* `Registered` and `Session` let an instance begin in the state of a server
  started again on an existing database while clients are connected.  It is
  a state the program reaches by REGISTER and CONNECT, and it saves the
  commands for what is to be checked.
* `prometidos`, `guardados`, `entregados`, `bajas`, `direcciones` are history
  variables: mail accepted with code 0, stored, pushed, users removed, and the
  addresses at which a user was connected.  No action reads them.  The first three
  are also state of `MailSystem`, and the refinement mapping takes its `buzones` to
  the union of the mailbox files and its `registrados` to the users of
  `usuarios.txt`.  There a mailbox is emptied only by `Remove`, which takes its
  user out of `registrados` in the same step.
* A push goes to an address.  Whether it is still its user's when the push
  arrives the server cannot know: the client may have died and another have taken
  the port.  `entregados` says pushed, not read by the receiver.

### Correspondence: Storage

`disk` is the directory; a file is a function from slots to lines or records.
The thirteen steps of a call are the system calls that change a file or can
fail, in the code's order; the lines are copied one by one.  The seven functions
that rewrite or append share the steps, and `Copied` and `Status` are what their
loops do with a line.  They share `Unlock` too: the code has an unlock before each
of its returns, and that none of them is missing was read, not checked.  `Effect(t)` is the action of `Database` for the call of
thread t, with `usuarios` and `mensajes` read off the disk as it is outside the
mutex (`Seen`).  So `ImplementsDatabase` says: at its unlock each call has done
what `Database` says in one step, with the same result, and no other step
changes anything but a crash.  That is what allows `MessagingService` to take
a database function as a step.  What a crash inside a function leaves is
`Crash`; `MessagingService` has crashes between the functions only.  One thing
neither has: when a crash has left a temporary file and the untested `open` of
the next one fails, the old copy is renamed to the file.  `FormerLine` is what a
former run left of a user: the lines of users with a session say so, as in
`DbInit`.

### Correspondence: Process

A connection is its position in the order of arrival and stands for its
descriptor.  `parte` selects which of the two servers runs.  What a handler
does is one step (`Handle`), after which it logs and returns; SEND stands for
the six operations whose branch returns at once, SENDATTACH for the one that
reaches the `close`, `UnknownOp` for anything else, which part 2 neither answers nor
closes (`desconocidas`).  `clnt` is "dead" when the log server has gone; the next call
writes to it, and like a write to a client that has gone that may raise SIGPIPE,
which nothing handles (`CallKills`, `AnswerKills`).  `CreateFails` may happen at any
time.  `avisado` says that `cond_sd` was signalled; `Wake` without it
is a spurious wake-up.  SIGINT goes to the main thread unless that is in the
handler already.  `crashed` is a use of `clnt` when it is NULL.

### Correspondence: Texts

A text is a sequence of characters: the one-byte letters of `Narrow`, blanks, and
the letters of `Wide`, which UTF-8 writes in two bytes.  `Normalize` is what the two
operations of the web service leave of a text, each the text at a set of its
positions (`Kept`): `Collapse` the first of blanks in a row, `Strip` what lies between
the first and the last letter.  `Received` reads the fields one after another from one stream, so
a field that is too long leaves its rest to the next.  `AtOnce` and `FromMailbox`
are the two ways to a receiver: `f_send`/`f_sendattach` know the operation,
`f_connect` goes by `has_attach`.

### Correspondence: Peers

The attributes of the class are variables by their names.  A process has the
threads `Listener`; one that waits in accept has the socket it waits on
(`Polling`), which need not be `_listen_socket` any more; one that ended because
accept failed is "failed" (`client.py:155`).  `Become` is the
kernel: a closed listening socket lives as long as a thread waits on it, and then
takes its queue with it, which whoever waits for a file there learns.  The server
is reduced to `usuarios_conectados` and pushes.  `trans[c]` is the connection of
c's GETFILE: the status byte, the blocks, and whether the owner has closed.

The definitions called *variants* (`Prepare_SenderAddr`, `NextId_NoWrap`, ...) are
plausible bugs.  Nothing uses them; each was put in place of the definition it
is named after to see that the property in question fails.

## 3. What is checked

| Run | Question | Bounds | Distinct states |
|---|---|---|---|
| `Delivery` | is mail genuine, stored once accepted, kept until pushed, confirmed only if pushed, gone once confirmed, numbered apart?  Does the service implement `MailSystem`? | 2 users, clients and threads; 3 CONNECT/SEND commands; a crash, a kill; queue of 1 | 0.5 M |
| `Accounts` | types; where may a session end, and does a connected user keep its address?  `MailSystem` again | the same sizes; 3 commands of REGISTER, UNREGISTER, CONNECT, DISCONNECT, SENDATTACH; numbers wrap at 1; any `open` or `socket` may fail | 0.5 M |
| `Liveness` | do commands and threads end, and does all pending mail leave? | 3 commands: SENDs of ana to luis and CONNECTs of luis; 1 kill; no symmetry | 53 k |
| `Storage` | does `database.c` implement `Database`, one line per user, a copy on the disk at any time, and does each call return? | 2 threads, 3 calls of any function with any arguments, 2 users, one of them online at the start, 1 crash, every tested `open` may fail | 102 k |
| `Process` | is each socket handed over once, closed (part 1), is a log that is off not used, does nobody wait in vain, does SIGINT end the server, does each connection and each thread come to an end? | 4 connections, 2 threads, 2 descriptors, 1 SIGINT; both servers, log on, off or dead, SIGPIPE, unknown operations | 49 k |
| `Texts` | is a plain message printed as it was typed, by either way? | all texts of up to 5 and file names of up to 4 characters of an alphabet of a blank, two narrow letters and a wide one; buffers of 4 bytes for the code's 256 | 239 k |
| `Peers` | has a connected client a thread on its listener, is GETFILE OK the whole file, does every command end? | 2 clients, online at first, 2 threads each, 3 ports, 3 commands, 1 push or death, files of 1 block | 117 k |

Why these bounds are enough for what they ask.  The races are between two
handlers, or a handler and a client, so two threads and two clients show them;
three commands are two messages and a session.  A queue of one makes a push
fail without a dead client; one port makes an address come back to another
client; `MaxId = 1` makes the second message wrap.  A message text is only
carried, so one is enough.  In `Storage` two calls of one function race and the
third starts after a crash or on their files.  In `Liveness` the third command is the CONNECT
that finds the two messages of the others, with one of which a thread may still be
busy; the constraint `AnaWritesToLuis` limits what is typed, which nobody has to
type, so it takes no fair step away.  In `Process` four connections are more than
threads and more than descriptors, and there are no more descriptors than threads, so
both run out, the descriptors also for good.  In `Texts` five
characters are two more than a field holds, so the rest of a field and the field
after it are both in the run; the properties depend on lengths relative to the
buffer only, and two narrow letters show whether they keep their order.  In `Peers` three ports let a client that has closed its listener
take another while its thread still waits on the first and the other client
has one; two threads are the old and the new; nobody asks itself for a file.

`WorkerSymmetry` is used only for runs without liveness; no property names a
thread except under a quantifier.  `CHECK_DEADLOCK FALSE` everywhere: when the
commands, calls or connections are used up the system is at rest.

Fairness.  `FairSpec`: weak fairness of each server thread and of each client's
reaction to a reply or a push.  `StorageFairSpec`: of each thread in a call; a
thread that waits for `db_mutex` finds it free for good at last, because calls are
finitely many, and so weak fairness of a lock is enough.  `ProcessFairSpec`: of
main (but a main that waits for `cond_sd` has to be signalled, a spurious wake-up
may never come), of each thread, of each handler; a client need not write
(`ReadBlocks`), and with no descriptor left `accept` only fails.  `PeersFairSpec`: of the shell within a command and of each
listener thread.  These are kernel threads, and the runs show where one waits for
another.  Nobody has to type a command, and no crash, kill, push, signal or
failing call has to happen.

### Promises that do not hold

Each of these runs ends in a behaviour of the code that breaks a sentence of
the README of the service or a comment.  They are the `findings` of
`PROJECT.json`.

| Run | Sentence | What happens |
|---|---|---|
| `Lost` | readme.md:3, the server keeps the message and delivers it | ana and luis each send their message number 1 to the same user; delivering one deletes both (`database.c:444`) |
| `Stranded` | readme.md:3, delivers it when they connect | CONNECT between `db_prepare_message` and `db_store_message` of a SEND; the message stays although the receiver is online (`funciones.c:361`) |
| `Restart` | readme.md:39, users survive a restart | a stop between `unlink` and `rename`; `db_init` does not look at the copy (`database.c:374`) |
| `Leak` | comment `servidor.c:342`, we close the socket | the lines it is about were left in the branch of SENDATTACH; the other six branches return before them (`servidor.c:198`) |
| `Unprinted` | readme.md:133, messages are printed | a byte of a longer character is decoded by itself (`client.py:91`); a file with an empty or a full message is dropped too (`client.py:195`) |

The same interleavings have more consequences, which are in the models but have
no run of their own: an UNREGISTER between the two database calls of a SEND
leaves a mailbox without its user (readme.md:124); a DISCONNECT may end a session
from another host that began after its address check (`funciones.c:276`); a failed
push to an old address ends the session the receiver has opened since
(`funciones.c:416`); an address of a dead client may be another user's by the time
it is used, who then gets the message, and it is deleted and confirmed
(`funciones.c:375`); silent clients, of which each keeps a thread and a descriptor
(`servidor.c:175`), or in part 2 any clients, because of the leak, leave none for the
others; an operation the server does not know is neither answered nor closed
(`servidor.c:349`); a message that was answered 0 is lost when the server stops before
it is stored.  A log server that dies while the service runs may end it: the
call that finds the connection closed fails, `enabled` and `clnt` stay as they are, and
the next write (`log_rpc_client.c:85`) may raise SIGPIPE, which nothing handles,
contrary to readme.md:57, "logging is simply disabled and the server carries on";
`Process` has it (`CallKills`), and `EveryThreadReturns` has to except it.  Two
divergences need no run: DISCONNECT of a registered user who
is offline is answered 3, not the 2 of readme.md:196, because the address in the
line is 0.0.0.0 (`funciones.c:267`); and the example session at readme.md:152-160
cannot happen, because a SEND to a user who is not registered yet is answered 1
(`database.c:337`).

Some properties hold with a limit that is part of them: `OneLinePerUser` unless
the first `open` of `db_register` fails; `OneSigintEndsServer` for one SIGINT, as a
second one may interrupt a thread that holds `rpc_mutex`, or the handler itself;
`NobodyWaitsInVain` for the same reason, where it is about `rpc_mutex`;
`LogOffIsHarmless` until a SIGINT, after which the unlocked test may see a `clnt` that
`log_rpc_destroy` clears; `EveryConnectionEnds` unless all descriptors are kept for good
(`Exhausted`) or the process has ended; `EveryThreadReturns` unless SIGINT or SIGPIPE
ends the process; `ConnectedHasListener` unless `accept` itself failed;
`OkUnlessOwnerFails` unless the owner of the file ends or cannot read on, since
the protocol has no length.

## 4. Only model-checked

* Liveness: `EveryCommandEnds`, `EveryThreadEnds`, `PendingGoesOut`,
  `EveryCallReturns`, `OneSigintEndsServer`, `EveryConnectionEnds`,
  `EveryThreadReturns`, `CommandsEnd`.  TLAPS does not reason about fairness.
* The findings, which are counterexamples.

Every other property of a passing run, that is every invariant and every action
property, is a theorem of the next section.

## 5. What is proved

All for any users, clients, threads, addresses, messages, numbers and bounds;
no set is assumed finite, except `Worker` in `Process` and `Registered` in
`Storage` (a file has finitely many lines); for any alphabet, texts and size of the
buffers in `Texts`.

| Theorem | Module | Says |
|---|---|---|
| `Invariance`, `TypeCorrect` | `MessagingServiceProofs` | the inductive invariant `IInv`; `TypeOK` |
| `AcknowledgedWasPushed` | `DeliveryProofs` | `AckedWasPushed`: a confirmation is about a message that was pushed |
| `AcceptedIsStored` | `DeliveryProofs` | `PromisedIsStored`: mail answered 0 is stored, or about to be |
| `StoredMailIsKept` | `DeliveryProofs` | `StoredIsKept`: stored mail stays until it is pushed |
| `AddressIsKept` | `DeliveryProofs` | `SessionNotTakenOver`: a connected user keeps its address |
| `SessionsEndForAReason` | `DeliveryProofs` | `SessionEndsForAReason`: no thread ends the session of a third user |
| `NothingIsForged` | `MailProofs` | `NotForged`: mail is what was accepted for that receiver, and goes only to an address at which its user was connected |
| `MailSystemIsImplemented` | `MailProofs` | `ImplementsMailSystem`: the service implements the abstract one, in which only a user's removal empties a mailbox |
| `NumbersAreDistinct` | `MailProofs` | `NumbersDistinct`: no two accepted messages of a sender have one number |
| `AckedIsGone` | `MailProofs` | `AckedIsNotPending`: confirmed mail is in no mailbox |
| `StorageTypes` | `StorageProofs` | `StorageTypeOK` |
| `OneLinePerName` | `StorageProofs` | `OneLinePerUser`: a user has one line at most |
| `OldOrNewOnDisk` | `StorageProofs` | `CopyOnDisk`: the old file or the whole new one is on the disk |
| `StorageImplementsDatabase` | `StorageProofs` | `ImplementsDatabase`: the system calls of a function are one step of `Database` |
| `ProcessTypes` | `ProcessProofs` | `ProcessTypeOK` |
| `ConnectionsHandedOverOnce` | `ProcessProofs` | `HandedOverOnce`: no connection is taken twice or lost |
| `PartOneClosesSockets` | `ProcessProofs` | `PartOneCloses`: in part 1 an open socket has a thread, if one that waits for a silent client |
| `LogOffCrashesNothing` | `ProcessProofs` | `LogOffIsHarmless`: `clnt` is not used when NULL before a SIGINT |
| `WaitsEnd` | `ProcessProofs` | `NobodyWaitsInVain`: no wake-up of main is lost, and `rpc_mutex` is with one who can go on |
| `PeersTypes` | `PeersProofs` | `PeersTypeOK` |
| `ListenerLives` | `PeersProofs` | `ConnectedHasListener`: a client's socket has a thread of its own, unless `accept` failed |
| `OkIsWhole` | `PeersProofs` | `OkUnlessOwnerFails`: OK means the whole file, or an owner that failed |
| `TextsTypeCorrect` | `TextsProofs` | `TextsTypeOK`: no field overflows its buffer |
| `PlainMessagesArePrinted` | `TextsProofs` | `PlainIsPrinted`: a plain message is printed with its words and its file's name |
| `FieldsArrive` | `TextsProofs` | fields of one-byte characters that fit are read as they were sent |
| `NormalizeKeepsWords`, `NormalizeTidies` | `TextsProofs` | the web service keeps letters and words, and leaves single blanks between words only |

Assumptions.  The named ASSUMEs of `Protocol`, `Storage`, `Process`, `Peers` and
`Texts`: `None` is no user, client, thread, host or port; every client has a host;
the bounds are naturals; the sessions at the start are of registered users at
distinct addresses; a letter is narrow or wide and no blank; a buffer has room for
more than its NUL.  TLC evaluates them in each run.  Three theorems have hypotheses of
their own:

* `NumbersAreDistinct` and `AckedIsGone`: there are no more commands than numbers
  (`MaxCommands <= MaxId`).  Numbers wrap at `MaxId`, and then both are false.
  `NumbersAreDistinct` also has that no open fails: a temporary file that is not
  opened loses `usuarios.txt`, and a user who registers again starts from 0.
  (`AckedIsNotPending` has this condition in it.)
* `StorageImplementsDatabase`: the first open of `db_register` works (`OneLinePerUser`
  has this in it; TLC shows the second line without it); if any other may fail, so
  may those of `Database` (`MayFail`); and either there are no crashes or the two
  opens of a temporary file that the code does not test work (`TempsTested`).  With
  both, a failed open lets the copy that a crash left be renamed to the file, which
  no function of `Database` does.

The instances of `Delivery` and `Storage` satisfy them.

Argument.  `TypeOK` is not inductive: to know that `InHand(w)` is a message one
has to know that the array is not empty where the thread reads it, and that the
thread is in the function of its operation.  `IInv` adds this (`GoodThread`), the
fields of a request on its way (`ConnInv`), and that the slots of a mailbox are
bounded (`DbInv`), without which the next slot would not exist.  `FileLemmas` has
the facts about files: the first slot, that an append overwrites nothing, what a
removal leaves.  They rest on the well-foundedness of < on Nat.  `MessagingServiceProofs` begins
with a lemma for each function of the database.

`WorkerMoves` says what one step of a thread leaves alone: the other threads, and
the message in its own hand between a push and the next message.  From it comes
`PushedInv`, a thread past its push has pushed, on which `AckedWasPushed` and
`StoredIsKept` rest.  `PromisedIsStored` is inductive relative to `IInv`: a thread
at `store` has no other step than `Store`.  The two session properties hold step
by step from `IInv`.

`NotForged` does not know where a thread's array comes from.  `MailInv` follows
the message: `f_send` has exactly the one it got a number for, what is stored
was accepted, what is in a mailbox was stored, what `f_connect` carries was in a
mailbox.  With `PushedInv` it gives the refinement: the reply is `Accept`,
`db_store_message` is `Keep` (or nothing, when its `open` fails), a push is `Give`,
`db_delete_message` is `TakeOut` (or `Lose`), REGISTER and UNREGISTER are `Register`
and `Remove`, a lost `usuarios.txt` is `LoseUsers`, and all other steps, crashes and
clients leave the variables of `MailSystem` alone.

`AddressInv` follows the address: the one in a line of `usuarios.txt` that says
connected, the one a thread has read for its receiver or for the sender of the message
in its hand, and the one of a listener with something in its queue belong to
`direcciones` with the user they are for.  `direcciones` only grows, so what a thread read stays
true however late it is used.  That the user is still there is no invariant.

Numbers.  A number is safe as long as it is larger than all that its sender was
given, that is, until it wraps.  `NumbersPaid` counts: the last number of any user
and the commands that are on their way to `db_prepare_message` (requests sent, and
threads that are about to prepare) are together at most the commands that were
typed, so a Prepare finds a number below `MaxId`.  `NumbersInv` then says that
every message in a hand or accepted has a number its sender was given, that one
not yet answered differs from all accepted ones, and that no two threads hold
messages with one number.  `GoneInv` follows from distinct numbers: what a thread is
about to store is stored nowhere, so that what was deleted stays away; without the
numbers another message of the sender would go with it, or come back.

In `Storage`, `antes` is the disk when the lock was taken.  `Stage` says for each
step what the call has found and done, as a difference between `disk` and `antes`:
nothing before the temporary file; then a copy of the lines read so far
(`Partial`), whatever the file's length; then `FinOf`, the whole copy, under one
name or the other.  `Mutex` makes it the only difference there is, and `Same` keeps
the files of other users out of it.  Outside the mutex the two agree, so what
`Database` sees is `antes` at every step (`SeenIsAntes`).  The refinement has a lemma
for each function (`ConnectDone` ... `UsersDone`): from `Final`, the step of `Database`.
A crash is where the two differ, and is one in `ImplementsDatabase`.  Where an `open`
is not tested there may be no copy: `NoCopy` says that then none is on the disk that
was not there when the lock was taken, and `NoTempLeft` that only a crash leaves one,
so that the rename does nothing and the file is gone, which is what `Database` has.

In `Process`, `HandInv` describes the handover: while a thread is about to copy
`sd_global`, main waits with `sd_copiado = 0`, so that a spurious wake-up finds the
condition false; there is one such thread at most; and the connection is nobody
else's.  `HeldInv` adds that an open one is held, unless part 2 has answered it or does not
know its operation.  `LogInv` says that without a signal a thread on its way to the
RPC found `clnt` not NULL, and nobody clears it.  `RestTypes` are the types the others have not needed.

`WaitInv` is about waiting.  `MainWakes`: while main waits, either the new thread has
yet to copy the descriptor, or it has and the signal is still there (`avisado`); a
wake-up without the copy finds the condition false and main waits on.  `MutexInv`:
whoever has `rpc_mutex` is in the RPC or in `log_rpc_destroy`, never in both.
`SignalInv`: the first signal runs in main, which holds no `rpc_mutex`.  So for one
SIGINT there is no circle of waits; that the waits also end is for TLC to show,
with the fairness of section 3.

In `Peers`, `PeersInv` has a part for each question.  `Listens`: a socket that the
client has is owned by it, and the thread of that CONNECT (not an older one) waits on
it, has a connection in hand or ended when `accept` failed, and has not been told to
stop.  `NumbersOK`: no
connection of a past GETFILE can be taken for the present one.  `OnePlace`: the
connection of a GETFILE is in one queue, before its first byte, or with one thread,
until it is closed; so nobody writes blocks after the end and no two threads
write them.  `Whole` is then `OkUnlessOwnerFails` one step earlier, when the owner
closes.  A close, a stop and an end of the process go through `Become`;
`BecomeKeeps` shows once that it preserves what the steps need.

In `Texts` the step relation is simple and the data is the work.  Concatenation and
`Received` are recursive functions.  Where an induction over them is needed
(`Flattened`, `BytesOf`, `RankOnto`) the lemma takes the set of indices at which its
claim fails and the least of them (`FirstOfNaturals`), and unfolds the function once
there; `Received` reads one field or two, so that `ReceivedFields` writes it out.
`WireOf` then says what is on the wire, and `FieldRead` and `LastFieldRead` what
`leer_cadena` makes of it, the second for a text that fills its buffer and loses its
NUL.  A text at a set of its positions keeps letters and words if the set has every
letter and what follows every letter but the last (`KeptWords`, by counting:
`RankStep`, `RankOnto`); `Collapse` and `Strip` are such sets.  `TextsInv` follows the
fields of a plain message from one step to the next.

## 6. Not modelled

* The code rpcgen generates and the RPC server's procedure, which prints: no
  state of the service depends on them.  The call with its timeout is in
  `Process`.
* Part 1's handlers and client by themselves: they are part 2's without
  attachments, log, web service and GETFILE.
* Argument parsing, the start of the sockets, and what is printed where no
  property is about it; `recvMessage`, `mutex_usuarios` and `_listen_port`, which
  nothing uses.
* Errors of read and write on an open file, and a disk that is full: the code
  tests none of them, so that the outcome would be any prefix of a file.
* The time the server takes to answer: `receive_byte` has no timeout either, so that
  a server that stops with the connection open would keep the shell.  In `Peers` its
  answers come at once, or fail.
* That `fprintf` and `exit` are called in the handler of SIGINT, where they are not
  safe.
* A connection to a listener that writes nothing, or in the middle of which the
  server stops: the accepted socket has no timeout (`client.py:160`), and the
  listener would wait for ever.  No program of the repository behaves so.
* What the whole service does when the pieces opened in `Storage`, `Process`,
  `Texts` and `Peers` are put together at that grain: TLC cannot reach
  the product.  The grain of `MessagingService` is justified by `Storage` for the
  database; for the rest by the remarks in section 2.
