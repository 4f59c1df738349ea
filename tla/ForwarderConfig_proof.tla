----------------------- MODULE ForwarderConfig_proof -----------------------
(***************************************************************************)
(* Proofs about ForwarderConfig for every set of configurations whose      *)
(* entries have addresses of their own.                                    *)
(***************************************************************************)
EXTENDS ForwarderConfig, ForwarderList_proof, TLAPS

-----------------------------------------------------------------------------

(***************************************************************************)
(* GoodBeforeBad is kept only in a list whose addresses differ, which is   *)
(* itself kept.                                                            *)
(***************************************************************************)
IInv == ConfigTypeOK /\ Unique(forwarders) /\ GoodBeforeBad

Blamed(R, f) == \E g \in R : Remote[g] = Remote[f]

(***************************************************************************)
(* GoodBeforeBad, and what it says of the next state, with the set of      *)
(* reports made explicit.                                                  *)
(***************************************************************************)
LEMMA GoodBeforeBadNow ==
    GoodBeforeBad <=>
        \A i, j \in 1..Len(forwarders) :
            i < j /\ Blamed(reported, forwarders[i]) => Blamed(reported, forwarders[j])
BY DEF GoodBeforeBad, Bad, Blamed

LEMMA GoodBeforeBadNext ==
    GoodBeforeBad' <=>
        \A i, j \in 1..Len(forwarders') :
            i < j /\ Blamed(reported', forwarders'[i]) => Blamed(reported', forwarders'[j])
BY DEF GoodBeforeBad, Bad, Blamed

(***************************************************************************)
(* A report keeps the bad entries behind the good ones.                    *)
(***************************************************************************)
LEMMA SetBadStep ==
    ASSUME NEW f \in Forwarders, IInv, SetBad(f)
    PROVE  IInv'
<1>. USE DEF IInv, ConfigTypeOK
<1>1. forwarders' = Demote(forwarders, f) /\ reported' = reported \cup {f}
  BY DEF SetBad
<1>2. \A g : Blamed(reported', g) <=> Blamed(reported, g) \/ Remote[g] = Remote[f]
  BY <1>1 DEF Blamed
<1>3. CASE /\ forwarders' = forwarders
           /\ \A i \in 1..Len(forwarders) : Remote[forwarders[i]] # Remote[f]
  <2>1. GoodBeforeBad'
    BY <1>2, <1>3, GoodBeforeBadNow, GoodBeforeBadNext
  <2>2. ConfigTypeOK'
    BY <1>1, <1>3 DEF SetBad
  <2>. QED  BY <1>3, <2>1, <2>2
<1>4. ASSUME NEW i \in 1..Len(forwarders), Remote[forwarders[i]] = Remote[f],
             forwarders' = Rotate(forwarders, i)
      PROVE  IInv'
  <2>1. forwarders' \in Seq(Forwarders) /\ Len(forwarders') = Len(forwarders)
    BY <1>4, RotateType
  <2>2. Unique(forwarders')
    BY <1>4, RotateUnique
  <2>3. ASSUME NEW j \in 1..Len(forwarders), NEW k \in 1..Len(forwarders),
               j < k, Blamed(reported', forwarders'[j])
        PROVE  Blamed(reported', forwarders'[k])
    <3>. DEFINE n == Len(forwarders)
    <3>0. n \in Nat
      OBVIOUS
    <3>1. CASE k = n
      <4>1. forwarders'[k] = forwarders[i]
        BY <1>4, <3>1, RotateAt
      <4>. QED  BY <1>2, <1>4, <4>1
    <3>2. CASE k < n
      <4>1. PICK jj \in 1..n : jj # i /\ forwarders'[j] = forwarders[jj]
                               /\ jj = (IF j < i THEN j ELSE j + 1)
        BY <1>4, <2>3, <3>0, <3>2, RotateAt
      <4>2. PICK kk \in 1..n : forwarders'[k] = forwarders[kk]
                               /\ kk = (IF k < i THEN k ELSE k + 1)
        BY <1>4, <2>3, <3>0, <3>2, RotateAt
      <4>3. jj < kk
        BY <2>3, <4>1, <4>2
      <4>4. Blamed(reported, forwarders[jj])
        BY <1>2, <1>4, <2>3, <4>1 DEF Unique
      <4>5. Blamed(reported, forwarders[kk])
        BY <4>3, <4>4, GoodBeforeBadNow
      <4>. QED  BY <1>2, <4>2, <4>5
    <3>. QED  BY <3>0, <3>1, <3>2
  <2>4. GoodBeforeBad'
    BY <2>1, <2>3, GoodBeforeBadNext
  <2>5. ConfigTypeOK'
    BY <1>1, <2>1 DEF SetBad
  <2>. QED  BY <2>2, <2>4, <2>5
<1>. QED  BY <1>1, <1>3, <1>4, DemoteUnique

(***************************************************************************)
(* Whatever is reported, taken and reloaded keeps it, where no             *)
(* configuration has an address twice.                                     *)
(***************************************************************************)
LEMMA FailOverStep ==
    ASSUME DistinctRemotes
    PROVE  IInv /\ [ConfigNext]_configVars => IInv'
<1>. SUFFICES ASSUME IInv, [ConfigNext]_configVars PROVE IInv'
  OBVIOUS
<1>. USE ConfigsAssumption
<1>1. ASSUME NEW f \in Forwarders, Get(f) PROVE IInv'
  BY <1>1 DEF Get, IInv, ConfigTypeOK, Unique, GoodBeforeBad, Bad
<1>2. ASSUME NEW f \in Forwarders, SetBad(f) PROVE IInv'
  BY <1>2, SetBadStep
<1>3. ASSUME NEW config \in Configs, SetForwarders(config) PROVE IInv'
  BY <1>3 DEF SetForwarders, IInv, ConfigTypeOK, Unique, DistinctRemotes,
              GoodBeforeBad, Bad
<1>4. CASE UNCHANGED configVars
  BY <1>4 DEF configVars, IInv, ConfigTypeOK, Unique, GoodBeforeBad, Bad
<1>. QED  BY <1>1, <1>2, <1>3, <1>4 DEF ConfigNext

(***************************************************************************)
(* The list has its type, and good entries come before bad ones, whatever  *)
(* is reported and reloaded in whatever order.                             *)
(***************************************************************************)
THEOREM FailOver ==
    ASSUME DistinctRemotes
    PROVE  ConfigSpec => [](ConfigTypeOK /\ GoodBeforeBad)
<1>1. ConfigInit => IInv
  BY ConfigsAssumption
     DEF ConfigInit, IInv, ConfigTypeOK, Unique, DistinctRemotes, GoodBeforeBad, Bad
<1>2. IInv => ConfigTypeOK /\ GoodBeforeBad
  BY DEF IInv
<1>. QED  BY <1>1, <1>2, FailOverStep, PTL DEF ConfigSpec

-----------------------------------------------------------------------------

(***************************************************************************)
(* What has its type keeps it, also in lists with shared addresses.        *)
(***************************************************************************)
LEMMA TypeStep == ConfigTypeOK /\ [ConfigNext]_configVars => ConfigTypeOK'
<1>. SUFFICES ASSUME ConfigTypeOK, [ConfigNext]_configVars PROVE ConfigTypeOK'
  OBVIOUS
<1>. USE DEF ConfigTypeOK
<1>1. ASSUME NEW f \in Forwarders, Get(f) PROVE ConfigTypeOK'
  BY <1>1 DEF Get
<1>2. ASSUME NEW f \in Forwarders, SetBad(f) PROVE ConfigTypeOK'
  BY <1>2, DemoteType DEF SetBad
<1>3. ASSUME NEW config \in Configs, SetForwarders(config) PROVE ConfigTypeOK'
  BY <1>3, ConfigsAssumption DEF SetForwarders
<1>4. CASE UNCHANGED configVars
  BY <1>4 DEF configVars
<1>. QED  BY <1>1, <1>2, <1>3, <1>4 DEF ConfigNext

(***************************************************************************)
(* The list has its type whatever the configurations are.                  *)
(***************************************************************************)
THEOREM TypeCorrect == ConfigSpec => []ConfigTypeOK
<1>1. ConfigInit => ConfigTypeOK
  BY ConfigsAssumption DEF ConfigInit, ConfigTypeOK
<1>. QED  BY <1>1, TypeStep, PTL DEF ConfigSpec

(***************************************************************************)
(* std::rotate(it, it + 1, end) keeps the order of all entries but the one *)
(* it moves.                                                               *)
(***************************************************************************)
LEMMA RotateKeepsOrder ==
    ASSUME NEW list \in Seq(Forwarders), NEW i \in 1..Len(list),
           NEW j \in 1..Len(list), NEW k \in 1..Len(list),
           j < k, j # i, k # i
    PROVE  \E l, m \in 1..Len(Rotate(list, i)) :
            /\ l < m
            /\ Rotate(list, i)[l] = list[j]
            /\ Rotate(list, i)[m] = list[k]
<1>. DEFINE new == Rotate(list, i)
            at(p) == IF p < i THEN p ELSE p - 1
<1>1. Len(new) = Len(list) /\ Len(list) \in Nat
  BY RotateType
<1>2. ASSUME NEW p \in 1..Len(list), p # i
      PROVE  at(p) \in 1..Len(list) /\ new[at(p)] = list[p]
  <2>1. CASE p < i
    BY <1>1, <2>1, RotateAt
  <2>2. CASE i < p
    <3>1. p - 1 \in 1..Len(list) /\ i <= p - 1 /\ p - 1 < Len(list) /\ (p - 1) + 1 = p
      BY <1>1, <2>2
    <3>. QED  BY <2>2, <3>1, RotateAt
  <2>. QED  BY <1>1, <1>2, <2>1, <2>2
<1>3. at(j) < at(k)
  BY <1>1
<1>. QED  BY <1>1, <1>2, <1>3

\* GoodOrderKept, of one step.
Kept ==
    \A i, j \in 1..Len(forwarders) :
        /\ i < j
        /\ reported' # {}
        /\ \A g \in reported' :
            Remote[g] \notin {Remote[forwarders[i]], Remote[forwarders[j]]}
        => \E k, l \in 1..Len(forwarders') :
            /\ k < l
            /\ forwarders'[k] = forwarders[i]
            /\ forwarders'[l] = forwarders[j]

\* No step changes the order of entries that are not reported.
LEMMA OrderStep == ConfigTypeOK /\ [ConfigNext]_configVars => [Kept]_configVars
<1>. DEFINE Placed(i, j) ==
                \E k, l \in 1..Len(forwarders') :
                    /\ k < l
                    /\ forwarders'[k] = forwarders[i]
                    /\ forwarders'[l] = forwarders[j]
<1>. SUFFICES ASSUME ConfigTypeOK, ConfigNext,
                     NEW i \in 1..Len(forwarders), NEW j \in 1..Len(forwarders),
                     i < j, reported' # {},
                     \A g \in reported' :
                         Remote[g] \notin {Remote[forwarders[i]], Remote[forwarders[j]]}
              PROVE  Placed(i, j)
  BY DEF Kept
<1>1. CASE forwarders' = forwarders
  BY <1>1
<1>2. ASSUME NEW f \in Forwarders, SetBad(f) PROVE Placed(i, j)
  <2>1. forwarders' = Demote(forwarders, f) /\ f \in reported'
    BY <1>2 DEF SetBad
  <2>2. forwarders \in Seq(Forwarders)
    BY DEF ConfigTypeOK
  <2>3. CASE forwarders' # forwarders
    <3>1. PICK n \in 1..Len(forwarders) :
              Remote[forwarders[n]] = Remote[f] /\ forwarders' = Rotate(forwarders, n)
      BY <2>1, <2>2, <2>3, DemoteRotates
    <3>2. i # n /\ j # n
      BY <2>1, <3>1
    <3>3. \E k, l \in 1..Len(Rotate(forwarders, n)) :
              /\ k < l
              /\ Rotate(forwarders, n)[k] = forwarders[i]
              /\ Rotate(forwarders, n)[l] = forwarders[j]
      BY <2>2, <3>2, RotateKeepsOrder
    <3>. QED  BY <3>1, <3>3
  <2>. QED  BY <1>1, <2>3
<1>3. (\E f \in Forwarders : Get(f)) => forwarders' = forwarders
  BY DEF Get
<1>4. ~ \E config \in Configs : SetForwarders(config)
  BY DEF SetForwarders
<1>. QED  BY <1>1, <1>2, <1>3, <1>4 DEF ConfigNext

(***************************************************************************)
(* ForwarderConfig::setBad() moves the entry that failed behind the others *)
(* and leaves the others in the configured order, whatever addresses the   *)
(* configurations have.                                                    *)
(***************************************************************************)
THEOREM OrderKept == ConfigSpec => GoodOrderKept
BY OrderStep, TypeCorrect, PTL DEF ConfigSpec, GoodOrderKept, Kept

=============================================================================
