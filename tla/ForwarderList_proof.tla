------------------------ MODULE ForwarderList_proof ------------------------
(***************************************************************************)
(* Facts about the list operations of module ForwarderList, for every list *)
(* of entries and every assignment of addresses to them.                   *)
(***************************************************************************)
EXTENDS ForwarderList, FiniteSetTheorems, WellFoundedInduction, TLAPS

(***************************************************************************)
(* Type correctness of the list.                                           *)
(***************************************************************************)
LEMMA RotateType ==
    ASSUME NEW list \in Seq(Forwarders), NEW i \in 1..Len(list)
    PROVE  /\ Rotate(list, i) \in Seq(Forwarders)
           /\ Len(Rotate(list, i)) = Len(list)
<1>1. \A j \in 1..Len(list) : list[j] \in Forwarders
  OBVIOUS
<1>2. ASSUME NEW j \in 1..Len(list)
      PROVE  (CASE j < i                  -> list[j]
                [] i <= j /\ j < Len(list) -> list[j + 1]
                [] OTHER                  -> list[i]) \in Forwarders
  <2>1. CASE j < i
    BY <1>1, <2>1
  <2>2. CASE i <= j /\ j < Len(list)
    <3>1. j + 1 \in 1..Len(list) /\ ~(j < i)
      BY <2>2
    <3>. QED  BY <1>1, <2>2, <3>1
  <2>3. CASE ~(j < i) /\ ~(i <= j /\ j < Len(list))
    BY <1>1, <2>3
  <2>. QED  BY <2>1, <2>2, <2>3
<1>3. Len(list) \in Nat
  OBVIOUS
<1>. QED  BY <1>2, <1>3 DEF Rotate

(***************************************************************************)
(* Position by position: what is before i stays, what is after i moves up, *)
(* and the entry at i is the last.                                         *)
(***************************************************************************)
LEMMA RotateAt ==
    ASSUME NEW list \in Seq(Forwarders), NEW i \in 1..Len(list),
           NEW j \in 1..Len(list)
    PROVE  /\ j < i => Rotate(list, i)[j] = list[j]
           /\ i <= j /\ j < Len(list) => Rotate(list, i)[j] = list[j + 1]
           /\ j = Len(list) => Rotate(list, i)[j] = list[i]
<1>1. Rotate(list, i)[j] = (CASE j < i                  -> list[j]
                              [] i <= j /\ j < Len(list) -> list[j + 1]
                              [] OTHER                  -> list[i])
  BY DEF Rotate
<1>2. CASE j < i
  <2>1. ~(i <= j) /\ j # Len(list)
    BY <1>2
  <2>. QED  BY <1>1, <1>2, <2>1
<1>3. CASE i <= j /\ j < Len(list)
  <2>1. ~(j < i) /\ j # Len(list)
    BY <1>3
  <2>. QED  BY <1>1, <1>3, <2>1
<1>4. CASE j = Len(list)
  <2>1. ~(j < i) /\ ~(j < Len(list))
    BY <1>4
  <2>. QED  BY <1>1, <1>4, <2>1
<1>. QED  BY <1>2, <1>3, <1>4

Unique(list) == \A i, j \in 1..Len(list) : Remote[list[i]] = Remote[list[j]] => i = j

(***************************************************************************)
(* In a list without shared addresses setBad() rotates at the one entry    *)
(* that has the address, or does nothing.                                  *)
(***************************************************************************)
LEMMA DemoteUnique ==
    ASSUME NEW list \in Seq(Forwarders), NEW f, Unique(list)
    PROVE  \/ /\ Demote(list, f) = list
              /\ \A i \in 1..Len(list) : Remote[list[i]] # Remote[f]
           \/ \E i \in 1..Len(list) : /\ Remote[list[i]] = Remote[f]
                                      /\ Demote(list, f) = Rotate(list, i)
<1>1. CASE \E i \in 1..Len(list) : Remote[list[i]] = Remote[f]
  <2>1. PICK i \in 1..Len(list) : Remote[list[i]] = Remote[f]
    BY <1>1
  <2>2. IsFirstMatch(list, f, i)
    <3>1. ASSUME NEW j \in 1..(i - 1) PROVE Remote[list[j]] # Remote[f]
      <4>1. j \in 1..Len(list) /\ j # i
        OBVIOUS
      <4>. QED  BY <2>1, <4>1 DEF Unique
    <3>. QED  BY <2>1, <3>1 DEF IsFirstMatch
  <2>. DEFINE k == CHOOSE k \in 1..Len(list) : IsFirstMatch(list, f, k)
  <2>3. k \in 1..Len(list) /\ IsFirstMatch(list, f, k)
    BY <2>2
  <2>4. Demote(list, f) = Rotate(list, k)
    BY <1>1 DEF Demote
  <2>5. Remote[list[k]] = Remote[f]
    BY <2>3 DEF IsFirstMatch
  <2>. QED  BY <2>3, <2>4, <2>5
<1>2. CASE ~ \E i \in 1..Len(list) : Remote[list[i]] = Remote[f]
  BY <1>2 DEF Demote
<1>. QED  BY <1>1, <1>2

(***************************************************************************)
(* Rotating introduces no shared address.                                  *)
(***************************************************************************)
LEMMA RotateUnique ==
    ASSUME NEW list \in Seq(Forwarders), NEW i \in 1..Len(list), Unique(list)
    PROVE  Unique(Rotate(list, i))
<1>. DEFINE new == Rotate(list, i)
            old(j) == IF j < i THEN j ELSE IF j < Len(list) THEN j + 1 ELSE i
<1>1. Len(new) = Len(list) /\ Len(list) \in Nat
  BY RotateType
<1>2. ASSUME NEW j \in 1..Len(list)
      PROVE  old(j) \in 1..Len(list) /\ new[j] = list[old(j)]
  BY <1>1, RotateAt
<1>3. ASSUME NEW j \in 1..Len(list), NEW k \in 1..Len(list), old(j) = old(k)
      PROVE  j = k
  BY <1>1, <1>3
<1>4. SUFFICES ASSUME NEW j \in 1..Len(list), NEW k \in 1..Len(list),
                      Remote[new[j]] = Remote[new[k]]
               PROVE  j = k
  BY <1>1 DEF Unique
<1>. HIDE DEF old, new
<1>5. old(j) = old(k)
  <2>1. old(j) \in 1..Len(list) /\ old(k) \in 1..Len(list)
    BY <1>2
  <2>2. Remote[list[old(j)]] = Remote[list[old(k)]]
    BY <1>2, <1>4
  <2>. QED  BY <2>1, <2>2 DEF Unique
<1>. QED  BY <1>3, <1>5

-----------------------------------------------------------------------------

(***************************************************************************)
(* A set of naturals has a least member: the loop of setBad() finds the    *)
(* first match if there is any.                                            *)
(***************************************************************************)
LEMMA LeastMember ==
    ASSUME NEW S \in SUBSET Nat, S # {}
    PROVE  \E m \in S : \A n \in S : m <= n
<1>. DEFINE T == {0..n : n \in S}
            R == StrictSubsetOrdering(Nat)
<1>1. IsWellFoundedOn(R, FiniteSubsetsOf(Nat))
  BY FS_StrictSubsetOrderingWellFounded
<1>2. T \subseteq FiniteSubsetsOf(Nat) /\ T # {}
  <2>1. ASSUME NEW n \in S PROVE 0..n \in FiniteSubsetsOf(Nat)
    <3>1. IsFiniteSet(0..n)
      BY FS_Interval
    <3>. QED  BY <3>1 DEF FiniteSubsetsOf
  <2>. QED  BY <2>1
<1>. HIDE DEF R
<1>3. PICK I \in T : \A J \in T : ~(<<J, I>> \in R)
  BY <1>1, <1>2, WFMin
<1>4. PICK m \in S : I = 0..m
  BY <1>3
<1>5. ASSUME NEW n \in S PROVE m <= n
  <2>1. CASE n < m
    <3>1. 0..n \subseteq 0..m /\ m \in 0..m /\ m \notin 0..n
      BY <2>1
    <3>2. 0..n \subseteq Nat /\ 0..m \subseteq Nat
      OBVIOUS
    <3>3. <<0..n, 0..m>> \in R
      BY <3>1, <3>2 DEF R, StrictSubsetOrdering
    <3>. QED  BY <1>3, <1>4, <3>3
  <2>. QED  BY <2>1
<1>. QED  BY <1>5

(***************************************************************************)
(* setBad() rotates the list at an entry with the address, or does         *)
(* nothing, also when several entries share the address.                   *)
(***************************************************************************)
LEMMA DemoteRotates ==
    ASSUME NEW list \in Seq(Forwarders), NEW f
    PROVE  \/ Demote(list, f) = list
           \/ \E i \in 1..Len(list) : /\ Remote[list[i]] = Remote[f]
                                      /\ Demote(list, f) = Rotate(list, i)
<1>. DEFINE S == {i \in 1..Len(list) : Remote[list[i]] = Remote[f]}
<1>1. CASE S = {}
  BY <1>1 DEF Demote
<1>2. CASE S # {}
  <2>1. S \in SUBSET Nat
    OBVIOUS
  <2>2. PICK i \in S : \A j \in S : i <= j
    BY <1>2, <2>1, LeastMember
  <2>3. IsFirstMatch(list, f, i)
    <3>1. ASSUME NEW j \in 1..(i - 1) PROVE Remote[list[j]] # Remote[f]
      <4>1. j \in 1..Len(list) /\ ~(i <= j)
        BY <2>2
      <4>. QED  BY <2>2, <4>1
    <3>. QED  BY <2>2, <3>1 DEF IsFirstMatch
  <2>. DEFINE k == CHOOSE k \in 1..Len(list) : IsFirstMatch(list, f, k)
  <2>4. k \in 1..Len(list) /\ Remote[list[k]] = Remote[f]
    BY <2>2, <2>3 DEF IsFirstMatch
  <2>. QED  BY <1>2, <2>4 DEF Demote
<1>. QED  BY <1>1, <1>2

(***************************************************************************)
(* setBad() leaves a list of forwarders, of the same length.               *)
(***************************************************************************)
LEMMA DemoteType ==
    ASSUME NEW list \in Seq(Forwarders), NEW f
    PROVE  Demote(list, f) \in Seq(Forwarders) /\ Len(Demote(list, f)) = Len(list)
BY DemoteRotates, RotateType

=============================================================================
