----------------------------- MODULE FileLemmas -----------------------------
(***************************************************************************)
(* Facts about files of records (IsFile in Protocol) that the proofs about *)
(* the service cite: the first slot, the next free slot, and what an       *)
(* append, a removal or an array read from a file looks like.              *)
(***************************************************************************)
EXTENDS Protocol, WellFoundedInduction, TLAPS

(* A set of natural numbers that is not empty has a least element, so      *)
(* First(f) is a slot of f: the one a delivery loop takes next.            *)
LEMMA MinOfNaturals ==
  ASSUME NEW S \in SUBSET Nat, S # {}
  PROVE  Min(S) \in S /\ \A n \in S : Min(S) <= n
<1>1. PICK x \in S : \A y \in S : ~(<<y, x>> \in OpToRel(<, Nat))
  BY NatLessThanWellFounded, WFMin
<1>2. \A y \in S : x <= y
  <2> SUFFICES ASSUME NEW y \in S, y < x PROVE FALSE
    OBVIOUS
  <2>1. <<y, x>> \in Nat \X Nat
    OBVIOUS
  <2>2. <<y, x>>[1] < <<y, x>>[2]
    OBVIOUS
  <2> DEFINE p == <<y, x>>
  <2>3. p \in {ss \in Nat \X Nat : ss[1] < ss[2]}
    <3> HIDE DEF p
    <3> SUFFICES p \in Nat \X Nat /\ p[1] < p[2]
      OBVIOUS
    <3> QED
      BY <2>1, <2>2 DEF p
  <2> QED
    BY <1>1, <2>3 DEF OpToRel
<1> QED
  BY <1>2 DEF Min

(* One that is bounded has a greatest element, so NextSlot(f) is defined.  *)
LEMMA MaxOfNaturals ==
  ASSUME NEW S \in SUBSET Nat, S # {}, NEW b \in Nat, \A n \in S : n <= b
  PROVE  Max(S) \in S /\ \A n \in S : n <= Max(S)
<1> DEFINE T == {k \in Nat : b - k \in S}
<1>1. T \in SUBSET Nat
  OBVIOUS
<1>2. T # {}
  <2>1. PICK n \in S : TRUE
    OBVIOUS
  <2>2. b - n \in Nat /\ b - (b - n) = n
    BY <2>1
  <2> QED
    BY <2>1, <2>2
<1>3. Min(T) \in T /\ \A k \in T : Min(T) <= k
  <2> HIDE DEF T
  <2> QED
    BY <1>1, <1>2, MinOfNaturals
<1>4. \A n \in S : n <= b - Min(T)
  <2> SUFFICES ASSUME NEW n \in S PROVE n <= b - Min(T)
    OBVIOUS
  <2>1. b - n \in T
    <3>1. b - n \in Nat /\ b - (b - n) = n
      OBVIOUS
    <3> QED
      BY <3>1
  <2> QED
    BY <2>1, <1>3
<1>5. \E m \in S : \A n \in S : m >= n
  BY <1>3, <1>4
<1> QED
  BY <1>5 DEF Max

(* The array of f_connect before it is filled, and a new mailbox.          *)
LEMMA EmptyIsFile == IsFile(EmptyFile) /\ DOMAIN EmptyFile = {}
BY DEF IsFile, EmptyFile

(* What is left when records are taken out is a file, with the same        *)
(* records at the same slots.                                              *)
LEMMA RestrictIsFile ==
  ASSUME NEW f, IsFile(f), NEW S \in SUBSET DOMAIN f
  PROVE  /\ IsFile(Restrict(f, S))
         /\ DOMAIN Restrict(f, S) = S
         /\ \A i \in S : Restrict(f, S)[i] = f[i]
BY DEF IsFile, Restrict

(* The record a delivery loop is at is one of the file.                    *)
LEMMA FirstIsSlot ==
  ASSUME NEW f, IsFile(f), DOMAIN f # {}
  PROVE  /\ First(f) \in DOMAIN f
         /\ f[First(f)] \in PendingMsg
<1>1. First(f) \in DOMAIN f
  BY MinOfNaturals DEF IsFile, First
<1> QED
  BY <1>1 DEF IsFile

(* Every slot of f is at most b: what keeps NextSlot well defined.         *)
Within(f, b) == b \in Nat /\ \A i \in DOMAIN f : i <= b

(* An append writes no slot that is in use: no record is overwritten.      *)
LEMMA FreeSlot ==
  ASSUME NEW f, DOMAIN f \subseteq Nat, NEW b, Within(f, b)
  PROVE  /\ NextSlot(f) \in Nat
         /\ NextSlot(f) \notin DOMAIN f
         /\ \A i \in DOMAIN f : i <= NextSlot(f)
<1>1. CASE DOMAIN f = {}
  BY <1>1 DEF NextSlot
<1>2. CASE DOMAIN f # {}
  <2>1. Max(DOMAIN f) \in DOMAIN f /\ \A n \in DOMAIN f : n <= Max(DOMAIN f)
    BY <1>2, MaxOfNaturals DEF Within
  <2> QED
    BY <1>2, <2>1 DEF NextSlot
<1> QED
  BY <1>1, <1>2

LEMMA NextSlotIsFree ==
  ASSUME NEW f, IsFile(f), NEW b, Within(f, b)
  PROVE  /\ NextSlot(f) \in Nat
         /\ NextSlot(f) \notin DOMAIN f
         /\ \A i \in DOMAIN f : i <= NextSlot(f)
BY FreeSlot DEF IsFile

LEMMA AppendedIsFile ==
  ASSUME NEW f, IsFile(f), NEW b, Within(f, b), NEW m \in PendingMsg
  PROVE  /\ IsFile(Appended(f, m))
         /\ Within(Appended(f, m), NextSlot(f))
         /\ DOMAIN Appended(f, m) = DOMAIN f \cup {NextSlot(f)}
         /\ Appended(f, m)[NextSlot(f)] = m
         /\ \A i \in DOMAIN f : Appended(f, m)[i] = f[i]
<1>1. /\ NextSlot(f) \in Nat
      /\ NextSlot(f) \notin DOMAIN f
      /\ \A i \in DOMAIN f : i <= NextSlot(f)
  BY NextSlotIsFree
<1> QED
  BY <1>1 DEF Appended, IsFile, Within

=============================================================================
