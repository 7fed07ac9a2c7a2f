------------------------------- MODULE Texts --------------------------------
(***************************************************************************)
(* The way of a message from the line its sender types to the line its     *)
(* receiver reads: the web service, the length test, the fields on the     *)
(* wire, leer_cadena, the mailbox, and receive_string byte by byte.  When  *)
(* and whether the steps are taken is the subject of MessagingService;     *)
(* here is what they do to the bytes.                                      *)
(*                                                                         *)
(* A text is a sequence of characters: blanks, letters of one byte, and    *)
(* letters that UTF-8 writes in two.                                       *)
(***************************************************************************)
EXTENDS Integers, SequencesExt

CONSTANTS
  SHORT_MSG_SIZE,  \* of every buffer for a field (256)
  Narrow, Wide,    \* the letters of one byte and of two
  Typed, Files     \* the texts that users type; the file names, not empty

Characters == Narrow \cup Wide \cup {"blank"}

ASSUME TextsAssumption ==
  /\ SHORT_MSG_SIZE \in Nat /\ SHORT_MSG_SIZE > 1
  /\ Narrow \cap Wide = {}
  /\ {"blank", "nul", "lead", "trail"} \cap (Narrow \cup Wide) = {}
  /\ Typed \subseteq Seq(Characters)
  /\ Files \subseteq Seq(Characters) /\ \A f \in Files : "blank" \notin ToSet(f) /\ f # <<>>

-----------------------------------------------------------------------------
(* ws_normalize.py: re.sub(r"\s+", " ", message).strip(). *)

Letters(text) == {i \in DOMAIN text : text[i] # "blank"}   \* their positions

(* The text at the positions of a set only; the k-th is the one of rank k. *)
Rank(S, i) == Cardinality({j \in S : j <= i})
Nth(S, k)  == CHOOSE i \in S : Rank(S, i) = k
Kept(text, S) == [k \in 1..Cardinality(S) |-> text[Nth(S, k)]]

(* Of blanks in a row the first is left. *)
Collapse(text) ==
  Kept(text, {i \in DOMAIN text : text[i] = "blank" => i = 1 \/ text[i - 1] # "blank"})

Strip(text) ==
  Kept(text, {i \in DOMAIN text : \E h, j \in Letters(text) : h <= i /\ i <= j})

Normalize(text) == Strip(Collapse(text))

(* send and sendAttach count characters. *)
TooLong(text) == Len(text) > SHORT_MSG_SIZE - 1

-----------------------------------------------------------------------------
(* The wire. *)

Nul == "nul"

Bytes(text) ==
  FlattenSeq([i \in DOMAIN text |-> IF text[i] \in Wide THEN <<"lead", "trail">> ELSE <<text[i]>>])

Wire(fields) == FlattenSeq([i \in DOMAIN fields |-> Append(Bytes(fields[i]), Nul)])

(* A variant with a bug that nothing uses, as in Database: leidos <        *)
(* max_len, and the final NUL is written after the buffer.                 *)
FieldEnd_Long(stream) ==
  LET nuls == {i \in 1..SHORT_MSG_SIZE : i \in DOMAIN stream /\ stream[i] = Nul}
  IN  IF nuls # {} THEN Min(nuls) ELSE SHORT_MSG_SIZE

(* leer_cadena stops at a NUL, or when its buffer has room for the final   *)
(* NUL only: what is left of a longer field is the next field's beginning. *)
FieldEnd(stream) ==
  LET nuls == {i \in 1..SHORT_MSG_SIZE - 1 : i \in DOMAIN stream /\ stream[i] = Nul}
  IN  IF nuls # {} THEN Min(nuls) ELSE SHORT_MSG_SIZE - 1

leer_cadena(stream) ==
  LET leidos == FieldEnd(stream)
  IN  [campo |-> SubSeq(stream, 1, IF stream[leidos] = Nul THEN leidos - 1 ELSE leidos),
       resto |-> SubSeq(stream, leidos + 1, Len(stream))]

(* tratar_peticion reads the fields of the operation one after another. *)
Received(fields) ==
  LET read[i \in 0..Len(fields)] ==
        IF i = 0 THEN [campos |-> <<>>, resto |-> Wire(fields)]
        ELSE LET c == leer_cadena(read[i - 1].resto)
             IN  [campos |-> Append(read[i - 1].campos, c.campo), resto |-> c.resto]
  IN  read[Len(fields)].campos

(* receive_string decodes every byte by itself. *)
Decodes(bytes) == \A i \in DOMAIN bytes : bytes[i] \notin {"lead", "trail"}

-----------------------------------------------------------------------------
(* One message.  adjunto, tecleado and archivo are what its sender typed,  *)
(* with SENDATTACH or SEND; campos is what the fields hold where the       *)
(* message is now, and operacion the name the receiver reads before them.  *)

VARIABLES paso, adjunto, tecleado, archivo, operacion, campos

textVars == <<paso, adjunto, tecleado, archivo, operacion, campos>>

TextsInit ==
  /\ paso = "typed"
  /\ adjunto \in BOOLEAN
  /\ tecleado \in Typed /\ archivo \in Files
  /\ operacion = "" /\ campos = <<>>

Reaches(here, there) ==
  paso = here /\ paso' = there /\ UNCHANGED <<adjunto, tecleado, archivo>>

(* normalize_message: the text as it is when the service does not answer.  *)
normalize_message(up) == IF up THEN Normalize(tecleado) ELSE tecleado

send(up) ==
  /\ ~adjunto
  /\ ~TooLong(normalize_message(up))
  /\ Reaches("typed", "sent")
  /\ campos' = <<normalize_message(up)>>
  /\ UNCHANGED operacion

sendAttach(up) ==
  /\ adjunto
  /\ ~TooLong(archivo) /\ ~TooLong(normalize_message(up))
  /\ Reaches("typed", "sent")
  /\ campos' = <<normalize_message(up), archivo>>
  /\ UNCHANGED operacion

(* SEND FAIL, before anything is sent. *)
Refused(up) ==
  /\ TooLong(normalize_message(up)) \/ (adjunto /\ TooLong(archivo))
  /\ Reaches("typed", "refused")
  /\ UNCHANGED <<operacion, campos>>

tratar_peticion ==
  /\ Reaches("sent", "server")
  /\ campos' = Received(campos)
  /\ UNCHANGED operacion

(* The receiver is connected: f_send and f_sendattach know which they are. *)
AtOnce ==
  /\ Reaches("server", "pushed")
  /\ operacion' = IF adjunto THEN "SEND_MESSAGE_ATTACH" ELSE "SEND_MESSAGE"
  /\ UNCHANGED campos

(* A variant: f_connect takes every message for one without a file. *)
FromMailbox_NoFile ==
  /\ Reaches("server", "pushed")
  /\ operacion' = "SEND_MESSAGE" /\ campos' = <<campos[1]>>

(* The message is stored, and f_connect goes by has_attach. *)
FromMailbox ==
  /\ Reaches("server", "pushed")
  /\ LET has_attach == adjunto /\ campos[2] # <<>>
     IN  /\ operacion' = IF has_attach THEN "SEND_MESSAGE_ATTACH" ELSE "SEND_MESSAGE"
         /\ campos' = IF has_attach THEN campos ELSE <<campos[1]>>

(* listener_thread: an exception of decode ends the turn of its loop; of a *)
(* message with an attachment it wants every field to be there.            *)
Prints ==
  /\ Reaches("pushed", "printed")
  /\ \A i \in DOMAIN campos : Decodes(campos[i])
  /\ operacion = "SEND_MESSAGE_ATTACH" => \A i \in DOMAIN campos : campos[i] # <<>>
  /\ UNCHANGED <<operacion, campos>>

Dropped ==
  /\ Reaches("pushed", "dropped")
  /\ \/ \E i \in DOMAIN campos : ~Decodes(campos[i])
     \/ operacion = "SEND_MESSAGE_ATTACH" /\ \E i \in DOMAIN campos : campos[i] = <<>>
  /\ UNCHANGED <<operacion, campos>>

TextsNext ==
  \/ \E up \in BOOLEAN : send(up) \/ sendAttach(up) \/ Refused(up)
  \/ tratar_peticion \/ AtOnce \/ FromMailbox \/ Prints \/ Dropped

TextsSpec == TextsInit /\ [][TextsNext]_textVars

-----------------------------------------------------------------------------
(* Properties. *)

TextsTypeOK ==
  /\ paso \in {"typed", "sent", "refused", "server", "pushed", "printed", "dropped"}
  /\ adjunto \in BOOLEAN /\ tecleado \in Typed /\ archivo \in Files
  /\ operacion \in {"", "SEND_MESSAGE", "SEND_MESSAGE_ATTACH"}
  /\ paso \in {"server", "pushed", "printed", "dropped"} =>
       \A i \in DOMAIN campos : Len(campos[i]) < SHORT_MSG_SIZE

(* The letters are the same in the same order, and a word that ends after  *)
(* a letter of one ends after the letter of the same rank of the other.    *)
SameWords(a, b) ==
  /\ Cardinality(Letters(a)) = Cardinality(Letters(b))
  /\ \A i \in Letters(a), j \in Letters(b) :
       Rank(Letters(a), i) = Rank(Letters(b), j) =>
         a[i] = b[j] /\ (i + 1 \in Letters(a) <=> j + 1 \in Letters(b))

(* A text of one-byte characters which, if a file comes with it, neither   *)
(* is empty nor fills its field.                                           *)
Plain ==
  /\ Wide \cap (ToSet(tecleado) \cup ToSet(archivo)) = {}
  /\ adjunto =>
       \A t \in {tecleado, Normalize(tecleado)} : t # <<>> /\ Len(t) < SHORT_MSG_SIZE - 1

(* Whichever way it took, a plain message is printed, with the words that  *)
(* were typed and, if a file came with it, the name of the file.           *)
PlainIsPrinted ==
  /\ paso = "dropped" => ~Plain
  /\ paso = "printed" /\ Plain =>
       /\ SameWords(campos[1], tecleado)
       /\ adjunto => operacion = "SEND_MESSAGE_ATTACH" /\ campos[2] = archivo

(* "Messages arriving from other users are printed by the listener thread" *)
(* (readme.md:133).  One with a letter outside ASCII is not, nor one with  *)
(* a file and a text of blanks or of exactly 255 characters; the server    *)
(* has taken it off the mailbox by then.                                   *)
ReadIsPrinted == paso # "dropped"

=============================================================================
