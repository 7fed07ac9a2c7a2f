----------------------------- MODULE MailSystem -----------------------------
(***************************************************************************)
(* What the service promises about mail, without connections, threads,     *)
(* sessions or crashes: a message is accepted, stored, given to its        *)
(* receiver and taken out of the mailbox, in this order, and mail leaves a *)
(* mailbox for no other reason than that its receiver is removed.          *)
(* MessagingService is shown to implement this module.                     *)
(*                                                                         *)
(* A mailbox is addressed by number, so taking out the mail that was       *)
(* delivered takes out what another sender sent with the same number.      *)
(* What happens only when an open(2) fails says OpenMayFail.               *)
(***************************************************************************)
CONSTANTS
  User,         \* receivers
  Registered,   \* those that are registered at first
  Mail,         \* records with the fields dest and msg, and msg has an id
  OpenMayFail   \* may an open(2) in the database fail?

VARIABLES
  registrados,  \* users
  prometidos,   \* mail that was accepted
  guardados,    \* mail that was stored
  buzones,      \* mail that is in a mailbox
  entregados    \* mail that was given to its receiver

mailVars == <<registrados, prometidos, guardados, buzones, entregados>>

MailInit ==
  /\ registrados = Registered
  /\ prometidos = {} /\ guardados = {} /\ buzones = {} /\ entregados = {}

Register(u) ==
  /\ registrados' = registrados \cup {u}
  /\ UNCHANGED <<prometidos, guardados, buzones, entregados>>

(* A user goes, and with it its mailbox: a mailbox is emptied by nothing   *)
(* else.  Mail that is accepted or stored after that waits for whoever     *)
(* registers with the name.                                                *)
Remove(u) ==
  /\ u \in registrados
  /\ registrados' = registrados \ {u}
  /\ buzones' = {x \in buzones : x.dest # u}
  /\ UNCHANGED <<prometidos, guardados, entregados>>

(* All users go, and their mailboxes stay. *)
LoseUsers ==
  /\ OpenMayFail
  /\ registrados' = {}
  /\ UNCHANGED <<prometidos, guardados, buzones, entregados>>

Accept(x) ==
  /\ prometidos' = prometidos \cup {x}
  /\ UNCHANGED <<registrados, guardados, buzones, entregados>>

Keep(x) ==
  /\ x \in prometidos
  /\ guardados' = guardados \cup {x}
  /\ buzones' = buzones \cup {x}
  /\ UNCHANGED <<registrados, prometidos, entregados>>

(* Possibly more than once: a SEND and a CONNECT may both have it in hand. *)
(* Mail whose storing failed is delivered all the same.                    *)
Give(x) ==
  /\ x \in guardados \/ (OpenMayFail /\ x \in prometidos)
  /\ entregados' = entregados \cup {x}
  /\ UNCHANGED <<registrados, prometidos, guardados, buzones>>

TakeOut(y) ==
  /\ y \in entregados
  /\ buzones' = {x \in buzones : ~(x.dest = y.dest /\ x.msg.id = y.msg.id)}
  /\ UNCHANGED <<registrados, prometidos, guardados, entregados>>

(* The rest of the mailbox is lost while y is taken out. *)
Lose(y) ==
  /\ OpenMayFail
  /\ y \in entregados
  /\ buzones' = {x \in buzones : x.dest # y.dest}
  /\ UNCHANGED <<registrados, prometidos, guardados, entregados>>

MailNext ==
  \/ \E x \in Mail : Accept(x) \/ Keep(x) \/ Give(x) \/ TakeOut(x) \/ Lose(x)
  \/ \E u \in User : Register(u) \/ Remove(u)
  \/ LoseUsers

MailSpec == MailInit /\ [][MailNext]_mailVars

=============================================================================
