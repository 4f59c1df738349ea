------------------------- MODULE VyattaCheck_proof -------------------------
(***************************************************************************)
(* Theorems about module VyattaCheck: what becomes of the list of          *)
(* forwarders while a router is configured and DoTe follows it, and what   *)
(* the parser understands of the command line, for every set of command    *)
(* lines and router configurations.                                        *)
(***************************************************************************)
EXTENDS VyattaCheck, ForwarderConfig_proof

-----------------------------------------------------------------------------

(***************************************************************************)
(* The entries of a list, and that they are the same, and as many, in the  *)
(* list setBad() leaves.                                                   *)
(***************************************************************************)
Entries(list) == {list[i] : i \in 1..Len(list)}

\* In a sequence ToSet is the set of entries.
LEMMA ToSetEntries ==
    ASSUME NEW T, NEW list \in Seq(T)
    PROVE  ToSet(list) = Entries(list)
<1>1. DOMAIN list = 1..Len(list)
  OBVIOUS
<1>. QED  BY <1>1 DEF ToSet, Entries

\* std::rotate() loses and invents no entry.
LEMMA RotateEntries ==
    ASSUME NEW list \in Seq(Forwarders), NEW i \in 1..Len(list)
    PROVE  Entries(Rotate(list, i)) = Entries(list)
<1>. DEFINE new == Rotate(list, i)
            n == Len(list)
<1>1. Len(new) = n /\ n \in Nat
  BY RotateType
<1>2. ASSUME NEW j \in 1..n PROVE \E k \in 1..n : new[j] = list[k]
  <2>1. CASE j < i
    BY <2>1, RotateAt
  <2>2. CASE i <= j /\ j < n
    <3>1. j + 1 \in 1..n
      BY <1>1, <2>2
    <3>. QED  BY <2>2, <3>1, RotateAt
  <2>3. CASE j = n
    BY <2>3, RotateAt
  <2>. QED  BY <1>1, <2>1, <2>2, <2>3
<1>3. ASSUME NEW k \in 1..n PROVE \E j \in 1..n : new[j] = list[k]
  <2>1. CASE k < i
    BY <2>1, RotateAt
  <2>2. CASE i < k
    <3>1. k - 1 \in 1..n /\ i <= k - 1 /\ k - 1 < n /\ (k - 1) + 1 = k
      BY <1>1, <2>2
    <3>. QED  BY <3>1, RotateAt
  <2>3. CASE k = i
    <3>1. n \in 1..n
      BY <1>1
    <3>. QED  BY <2>3, <3>1, RotateAt
  <2>. QED  BY <1>1, <2>1, <2>2, <2>3
<1>. HIDE DEF new, n
<1>4. Entries(list) = {list[k] : k \in 1..n} /\ Entries(new) = {new[k] : k \in 1..n}
  BY <1>1 DEF Entries, n
<1>5. {new[j] : j \in 1..n} = {list[k] : k \in 1..n}
  <2>1. {new[j] : j \in 1..n} \subseteq {list[k] : k \in 1..n}
    BY <1>2
  <2>2. {list[k] : k \in 1..n} \subseteq {new[j] : j \in 1..n}
    BY <1>3
  <2>. QED  BY <2>1, <2>2
<1>. QED  BY <1>4, <1>5 DEF new

\* A report loses and invents no entry.
LEMMA DemoteEntries ==
    ASSUME NEW list \in Seq(Forwarders), NEW f
    PROVE  Entries(Demote(list, f)) = Entries(list)
BY DemoteRotates, RotateEntries

-----------------------------------------------------------------------------

Phases == {"usage", "look-up", "starting", "running"}

Serving == phase \in {"starting", "running"}

\* What the router's configuration makes of the list.
Wanted == Load(options, leftOver, router)

\* Nothing of the router's configuration is left to be noticed, or was lost.
Followed == saved /\ ~event /\ ~missed /\ ~unanswered

SameEntries(list, other) == Len(list) = Len(other) /\ Entries(list) = Entries(other)

Typed ==
    /\ ConfigTypeOK
    /\ options \in CommandLines
    /\ leftOver \in BOOLEAN
    /\ router \in Routers
    /\ phase \in Phases
    /\ saved \in BOOLEAN /\ watched \in BOOLEAN
    /\ event \in BOOLEAN /\ missed \in BOOLEAN /\ unanswered \in BOOLEAN
    /\ Serving => Starts(options, leftOver)

(***************************************************************************)
(* What FollowsRouter says is so from the moment main() has loaded the     *)
(* configuration, before anything watches it.                              *)
(***************************************************************************)
Following ==
    Serving /\ Followed /\ Wanted.valid => SameEntries(forwarders, Wanted.forwarders)

WatchInv == Typed /\ Following

-----------------------------------------------------------------------------

\* What a process that serves loads is one of the configurations.
LEMMA Loadable ==
    ASSUME NEW line \in CommandLines, NEW rest \in BOOLEAN, Starts(line, rest),
           NEW config \in Answers, Load(line, rest, config).valid
    PROVE  Load(line, rest, config).forwarders \in Configs
BY LoadsAssumption

\* What main() starts with: an empty list, or a configuration it has loaded.
LEMMA WatchInitHolds ==
    WatchInit => WatchInv /\ (forwarders = <<>> \/ forwarders \in Configs)
<1>. SUFFICES ASSUME WatchInit
              PROVE  WatchInv /\ (forwarders = <<>> \/ forwarders \in Configs)
  OBVIOUS
<1>. DEFINE answer == IF unanswered THEN NoEntries ELSE router
            valid == Load(options, leftOver, answer).valid
            list == Load(options, leftOver, answer).forwarders
            lookUp == Load(options, leftOver, answer).ipLookup
<1>1. /\ options \in CommandLines /\ leftOver \in BOOLEAN
      /\ router \in Routers /\ unanswered \in BOOLEAN
      /\ chosen = {} /\ reported = {}
      /\ saved = TRUE /\ watched = FALSE /\ event = FALSE /\ missed = FALSE
  BY DEF WatchInit
<1>2. /\ phase = CASE ~valid -> "usage"
                   [] valid /\ lookUp # NoAddress -> "look-up"
                   [] OTHER -> "starting"
      /\ forwarders = IF phase = "starting" THEN list ELSE <<>>
  BY DEF WatchInit
<1>3. answer \in Answers
  BY <1>1 DEF Answers
<1>. HIDE DEF valid, list, lookUp, answer
<1>4. /\ phase \in {"usage", "look-up", "starting"}
      /\ phase = "starting" => valid /\ lookUp = NoAddress
  <2>1. CASE ~valid
    BY <1>2, <2>1
  <2>2. CASE valid /\ lookUp # NoAddress
    BY <1>2, <2>2
  <2>3. CASE valid /\ lookUp = NoAddress
    BY <1>2, <2>3
  <2>. QED  BY <2>1, <2>2, <2>3
<1>5. Serving <=> phase = "starting"
  BY <1>4 DEF Serving
<1>6. ASSUME Serving PROVE Starts(options, leftOver) /\ list \in Configs /\ forwarders = list
  <2>1. Load(options, leftOver, answer).valid
        /\ Load(options, leftOver, answer).ipLookup = NoAddress
    BY <1>4, <1>5, <1>6 DEF valid, lookUp
  <2>2. Starts(options, leftOver)
    BY <1>3, <2>1 DEF Starts
  <2>3. list \in Configs
    BY <1>1, <1>3, <2>1, <2>2, Loadable DEF list
  <2>. QED  BY <1>2, <1>5, <1>6, <2>2, <2>3
<1>7. forwarders \in Seq(Forwarders)
  BY <1>2, <1>5, <1>6, ConfigsAssumption
<1>8. Typed
  BY <1>1, <1>4, <1>6, <1>7 DEF Typed, Phases, ConfigTypeOK
<1>9. ASSUME Serving, Followed PROVE SameEntries(forwarders, Wanted.forwarders)
  <2>1. answer = router
    BY <1>9 DEF answer, Followed
  <2>. QED  BY <1>6, <1>9, <2>1 DEF SameEntries, Wanted, list
<1>. QED  BY <1>2, <1>5, <1>6, <1>8, <1>9 DEF WatchInv, Following

-----------------------------------------------------------------------------

\* handleRead() loads what there is, whether cstore answers or not.
LEMMA HandleReadLoads ==
    ASSUME WatchInv, HandleRead
    PROVE  /\ [\E config \in Configs : SetForwarders(config)]_configVars
           /\ Following'
           /\ unanswered' \in BOOLEAN
<1>. DEFINE answer == IF unanswered' THEN NoEntries ELSE router
            valid == Load(options, leftOver, answer).valid
            list == Load(options, leftOver, answer).forwarders
<1>1. /\ phase = "running" /\ unanswered' \in BOOLEAN
      /\ UNCHANGED <<options, leftOver, phase, router>>
  BY DEF HandleRead, mainVars
<1>2. ReloadConfiguration(Load(options, leftOver, answer))
  BY DEF HandleRead
<1>3. /\ valid => SetForwarders(list)
      /\ ~valid => UNCHANGED configVars
  BY <1>2 DEF ReloadConfiguration
<1>4. answer \in Answers
  BY <1>1 DEF Answers, WatchInv, Typed
<1>5. Starts(options, leftOver) /\ options \in CommandLines /\ leftOver \in BOOLEAN
  BY <1>1 DEF WatchInv, Typed, Serving
<1>6. valid => list \in Configs
  BY <1>4, <1>5, Loadable
<1>7. ASSUME Followed', Wanted'.valid
      PROVE  SameEntries(forwarders', Wanted'.forwarders)
  <2>1. answer = router /\ Wanted' = Load(options, leftOver, router)
    BY <1>1, <1>7 DEF Followed, Wanted
  <2>2. forwarders' = Wanted'.forwarders
    BY <1>3, <1>7, <2>1 DEF SetForwarders
  <2>. QED  BY <2>2 DEF SameEntries
<1>8. Following'
  BY <1>7 DEF Following
<1>. HIDE DEF valid, list, answer
<1>. QED  BY <1>1, <1>3, <1>6, <1>8

\* A connection takes or reports a forwarder.
LEMMA ServeIsConfig ==
    ASSUME WatchInv, Serve
    PROVE  /\ ConfigNext
           /\ SameEntries(forwarders', forwarders)
           /\ UNCHANGED watchVars
<1>1. forwarders \in Seq(Forwarders) /\ chosen \subseteq Forwarders
  BY DEF WatchInv, Typed, ConfigTypeOK
<1>2. PICK f \in ToSet(forwarders) \cup chosen : Get(f) \/ SetBad(f)
  BY DEF Serve
<1>3. f \in Forwarders
  BY <1>1, <1>2, ToSetEntries DEF Entries
<1>4. ConfigNext
  BY <1>2, <1>3 DEF ConfigNext
<1>5. SameEntries(forwarders', forwarders)
  <2>1. CASE Get(f)
    BY <2>1 DEF Get, SameEntries
  <2>2. CASE SetBad(f)
    <3>1. forwarders' = Demote(forwarders, f)
      BY <2>2 DEF SetBad
    <3>. QED  BY <1>1, <3>1, DemoteType, DemoteEntries DEF SameEntries
  <2>. QED  BY <1>2, <2>1, <2>2
<1>. QED  BY <1>4, <1>5 DEF Serve

(***************************************************************************)
(* What a process does to its list is what ForwarderConfig says of lists.  *)
(***************************************************************************)
LEMMA StepIsConfig ==
    WatchInv /\ [WatchNext]_<<configVars, watchVars>> => [ConfigNext]_configVars
<1>. SUFFICES ASSUME WatchInv, WatchNext PROVE [ConfigNext]_configVars
  BY DEF configVars
<1>1. CASE HandleRead
  BY <1>1, HandleReadLoads DEF ConfigNext
<1>2. CASE Serve
  BY <1>2, ServeIsConfig
<1>3. CASE Configure \/ Save \/ \E config \in Routers : Commit(config)
  BY <1>3 DEF Configure, Save, Commit
<1>. QED  BY <1>1, <1>2, <1>3 DEF WatchNext

\* The invariant is kept whatever router, cstore and forwarders do.
LEMMA WatchStep == WatchInv /\ [WatchNext]_<<configVars, watchVars>> => WatchInv'
<1>. SUFFICES ASSUME WatchInv, [WatchNext]_<<configVars, watchVars>> PROVE WatchInv'
  OBVIOUS
<1>1. ConfigTypeOK'
  BY StepIsConfig, TypeStep DEF WatchInv, Typed
<1>2. CASE Configure
  <2>1. Typed'
    BY <1>1, <1>2 DEF Configure, WatchInv, Typed, Serving, Phases, routerVars
  <2>2. Serving /\ Wanted' = Wanted /\ Followed' = Followed /\ forwarders' = forwarders
    BY <1>2 DEF Configure, Serving, Wanted, Followed, routerVars, configVars
  <2>3. Following'
    BY <2>2 DEF WatchInv, Following
  <2>. QED  BY <2>1, <2>3 DEF WatchInv
<1>3. ASSUME NEW config \in Routers, Commit(config) PROVE WatchInv'
  <2>1. Typed'
    BY <1>1, <1>3 DEF Commit, WatchInv, Typed, Serving, Phases, mainVars
  <2>2. ~Followed'
    BY <1>3 DEF Commit, Followed
  <2>. QED  BY <2>1, <2>2 DEF WatchInv, Following
<1>4. CASE Save
  <2>1. Typed'
    BY <1>1, <1>4 DEF Save, WatchInv, Typed, Serving, Phases, mainVars
  <2>2. ~Followed'
    BY <1>4 DEF Save, Followed, WatchInv, Typed
  <2>. QED  BY <2>1, <2>2 DEF WatchInv, Following
<1>5. CASE HandleRead
  <2>1. Typed'
    BY <1>1, <1>5, HandleReadLoads
       DEF HandleRead, WatchInv, Typed, Serving, Phases, mainVars
  <2>. QED  BY <1>5, <2>1, HandleReadLoads DEF WatchInv
<1>6. CASE Serve \/ UNCHANGED <<configVars, watchVars>>
  <2>1. UNCHANGED watchVars /\ SameEntries(forwarders', forwarders)
    BY <1>6, ServeIsConfig DEF configVars, SameEntries
  <2>2. UNCHANGED <<options, leftOver, phase, router, saved, event, missed,
                    watched, unanswered>>
    BY <2>1 DEF watchVars, mainVars, routerVars
  <2>3. Typed'
    BY <1>1, <2>2 DEF WatchInv, Typed, Serving, Phases
  <2>4. (Serving <=> Serving') /\ (Followed <=> Followed') /\ Wanted' = Wanted
    BY <2>2 DEF Serving, Followed, Wanted
  <2>5. Following'
    BY <2>1, <2>4 DEF WatchInv, Following, SameEntries
  <2>. QED  BY <2>3, <2>5 DEF WatchInv
<1>. QED  BY <1>2, <1>3, <1>4, <1>5, <1>6 DEF WatchNext

-----------------------------------------------------------------------------

(***************************************************************************)
(* The types, and what the list is while the router is followed, hold in   *)
(* every reachable state.                                                  *)
(***************************************************************************)
THEOREM WatchInvariant == WatchSpec => []WatchInv
BY WatchInitHolds, WatchStep, PTL DEF WatchSpec

\* main()'s state, and the router's, keeps its type.
THEOREM WatchTypeCorrect == WatchSpec => []WatchTypeOK
<1>1. WatchInv => WatchTypeOK
  BY DEF WatchInv, Typed, Phases, WatchTypeOK
<1>. QED  BY <1>1, WatchInvariant, PTL

(***************************************************************************)
(* What VyattaCheck promises: once what was written has been noticed, the  *)
(* list has the forwarders of the command line and of the router, each as  *)
(* often as they do, whatever connections have reported and whatever       *)
(* happened to earlier loads.                                              *)
(***************************************************************************)
THEOREM RouterIsFollowed == WatchSpec => []FollowsRouter
<1>1. WatchInv => FollowsRouter
  <2>. SUFFICES ASSUME WatchInv, phase = "running", Followed, Wanted.valid
                PROVE  /\ Len(forwarders) = Len(Wanted.forwarders)
                       /\ ToSet(forwarders) = ToSet(Wanted.forwarders)
    BY DEF FollowsRouter, Followed, Wanted
  <2>1. SameEntries(forwarders, Wanted.forwarders)
    BY DEF WatchInv, Following, Serving
  <2>2. options \in CommandLines /\ leftOver \in BOOLEAN /\ router \in Answers
        /\ Starts(options, leftOver)
    BY DEF WatchInv, Typed, Serving, Answers
  <2>3. Wanted.forwarders \in Seq(Forwarders)
    BY <2>2, Loadable, ConfigsAssumption DEF Wanted
  <2>4. forwarders \in Seq(Forwarders)
    BY DEF WatchInv, Typed, ConfigTypeOK
  <2>. QED  BY <2>1, <2>3, <2>4, ToSetEntries DEF SameEntries
<1>. QED  BY <1>1, WatchInvariant, PTL

(***************************************************************************)
(* Every step of main(), VyattaCheck and the connections is one of         *)
(* ForwarderConfig, or does not concern the list.  (The list of a process  *)
(* that does not serve is empty, which is no configuration: so not all of  *)
(* ConfigSpec holds.)                                                      *)
(***************************************************************************)
THEOREM StepsAreConfig == WatchSpec => [][ConfigNext]_configVars
BY StepIsConfig, WatchInvariant, PTL DEF WatchSpec

\* The order of the good entries survives, whatever the router's entries are.
THEOREM WatchKeepsOrder == WatchSpec => GoodOrderKept
<1>1. WatchInv /\ [WatchNext]_<<configVars, watchVars>> => [Kept]_configVars
  BY StepIsConfig, OrderStep DEF WatchInv, Typed
<1>. QED  BY <1>1, WatchInvariant, PTL DEF WatchSpec, GoodOrderKept, Kept

(***************************************************************************)
(* Fail-over, with the lists that main() and VyattaCheck load: where no    *)
(* configuration has an address twice, get() prefers no forwarder that was *)
(* reported bad to one that was not.                                       *)
(***************************************************************************)
THEOREM WatchFailsOver ==
    ASSUME DistinctRemotes
    PROVE  WatchSpec => []GoodBeforeBad
<1>1. WatchInit => IInv
  <2>. SUFFICES ASSUME WatchInit PROVE IInv
    OBVIOUS
  <2>1. ConfigTypeOK /\ reported = {}
    BY WatchInitHolds DEF WatchInv, Typed, WatchInit
  <2>2. GoodBeforeBad
    BY <2>1 DEF GoodBeforeBad, Bad
  <2>3. forwarders = <<>> \/ forwarders \in Configs
    BY WatchInitHolds
  <2>4. Unique(forwarders)
    BY <2>3 DEF Unique, DistinctRemotes
  <2>. QED  BY <2>1, <2>2, <2>4 DEF IInv
<1>2. WatchInv /\ [WatchNext]_<<configVars, watchVars>> /\ IInv => IInv'
  BY StepIsConfig, FailOverStep
<1>3. IInv => GoodBeforeBad
  BY DEF IInv
<1>. QED  BY <1>1, <1>2, <1>3, WatchInvariant, PTL DEF WatchSpec

-----------------------------------------------------------------------------

(***************************************************************************)
(* What the parser understands. parseConfig() takes the options of a       *)
(* command line one by one, in a fold of the model, so what it holds after *)
(* k options is found by induction over k. The induction is stated with a  *)
(* set of numbers: a number that is not in it would have a smallest one    *)
(* below it.                                                               *)
(***************************************************************************)
LEMMA Induction ==
    ASSUME NEW S, 0 \in S, \A n \in Nat : n \in S => n + 1 \in S
    PROVE  Nat \subseteq S
<1>. DEFINE T == Nat \ S
            R == OpToRel(<, Nat)
<1>. SUFFICES ASSUME T # {}
              PROVE  FALSE
  OBVIOUS
<1>1. PICK n \in T : \A m \in T : <<m, n>> \notin R
  <2>. HIDE DEF T
  <2>1. T \subseteq Nat
    BY DEF T
  <2>2. IsWellFoundedOn(R, Nat)
    BY NatLessThanWellFounded
  <2>. HIDE DEF R
  <2>. QED  BY <2>1, <2>2, WFMin
<1>2. n \in Nat /\ n # 0 /\ n - 1 \in Nat /\ (n - 1) + 1 = n
  OBVIOUS
<1>3. n - 1 \in T
  BY <1>2
<1>4. <<n - 1, n>> \in R
  BY <1>2 DEF OpToRel
<1>. QED  BY <1>1, <1>3, <1>4

\* One pass of the loop of parseConfig().
Pass(p, option) == IF p.valid THEN ParseOption(p, option) ELSE p

\* The loop, from a parser over a command line.
Passes(start, line) ==
    FoldLeft(LAMBDA p, option : IF p.valid THEN ParseOption(p, option) ELSE p,
             start, line)

\* What it computes, set of positions by set.
Runs(start, line, S, g) ==
    g = [s \in SUBSET S |->
            IF s = {} THEN start
            ELSE Pass(g[s \ {Max(s)}], line[Max(s)])]

\* The position that a fold over 1..(n + 1) takes last.
LEMMA MaxOf ==
    ASSUME NEW n \in Nat, NEW s \in SUBSET (1..(n + 1)), n + 1 \in s
    PROVE  Max(s) = n + 1
<1>1. n + 1 \in s /\ \A y \in s : n + 1 >= y
  OBVIOUS
<1>2. \A x \in s : (\A y \in s : x >= y) => x = n + 1
  OBVIOUS
<1>. QED  BY <1>1, <1>2 DEF Max

\* The recursive function by which the fold is defined exists, for each length.
LEMMA RunsExist ==
    ASSUME NEW start, NEW line, NEW n \in Nat
    PROVE  \E g : Runs(start, line, 1..n, g)
<1>. DEFINE S == {m \in Nat : \E g : Runs(start, line, 1..m, g)}
<1>1. 0 \in S
  <2>. DEFINE g == [s \in SUBSET (1..0) |-> start]
  <2>1. 1..0 = {} /\ SUBSET (1..0) = {{}}
    OBVIOUS
  <2>2. Runs(start, line, 1..0, g)
    BY <2>1 DEF Runs
  <2>. QED  BY <2>2
<1>2. ASSUME NEW m \in Nat, m \in S
      PROVE  m + 1 \in S
  <2>1. PICK g : Runs(start, line, 1..m, g)
    BY <1>2
  <2>. DEFINE big(s) == IF m + 1 \in s THEN Pass(g[s \ {m + 1}], line[m + 1]) ELSE g[s]
              h == [s \in SUBSET (1..(m + 1)) |-> big(s)]
  <2>2. ASSUME NEW s \in SUBSET (1..(m + 1))
        PROVE  h[s] = IF s = {} THEN start ELSE Pass(h[s \ {Max(s)}], line[Max(s)])
    <3>1. CASE m + 1 \in s
      <4>1. Max(s) = m + 1
        BY <3>1, MaxOf
      <4>2. s \ {m + 1} \in SUBSET (1..(m + 1)) /\ m + 1 \notin s \ {m + 1}
        OBVIOUS
      <4>3. h[s \ {m + 1}] = g[s \ {m + 1}]
        BY <4>2
      <4>. QED  BY <3>1, <4>1, <4>3
    <3>2. CASE m + 1 \notin s
      <4>1. s \in SUBSET (1..m)
        BY <3>2
      <4>2. h[s] = g[s]
        BY <3>2
      <4>3. g[s] = IF s = {} THEN start ELSE Pass(g[s \ {Max(s)}], line[Max(s)])
        BY <2>1, <4>1 DEF Runs
      <4>4. s \ {Max(s)} \in SUBSET (1..(m + 1)) /\ m + 1 \notin s \ {Max(s)}
        BY <3>2
      <4>5. h[s \ {Max(s)}] = g[s \ {Max(s)}]
        BY <4>4
      <4>. QED  BY <4>2, <4>3, <4>5
    <3>. QED  BY <3>1, <3>2
  <2>3. Runs(start, line, 1..(m + 1), h)
    <3>1. h = [s \in SUBSET (1..(m + 1)) |-> h[s]]
      OBVIOUS
    <3>. HIDE DEF h
    <3>. QED  BY <2>2, <3>1 DEF Runs
  <2>. QED  BY <2>3
<1>. HIDE DEF S
<1>3. Nat \subseteq S
  BY <1>1, <1>2, Induction
<1>. QED  BY <1>3 DEF S

\* The fold of parseConfig() is a run of its passes, one for each option.
LEMMA FoldRuns ==
    ASSUME NEW start, NEW line, NEW n \in Nat, DOMAIN line = 1..n
    PROVE  \E run :
            /\ run[0] = start
            /\ \A k \in 0..(n - 1) : run[k + 1] = Pass(run[k], line[k + 1])
            /\ Passes(start, line) = run[n]
<1>. DEFINE iter == CHOOSE g : Runs(start, line, 1..n, g)
            run == [k \in 0..n |-> iter[1..k]]
<1>1. Runs(start, line, 1..n, iter)
  BY RunsExist
<1>2. Passes(start, line) = iter[1..n]
  BY DEF Passes, FoldLeft, MapThenFoldSet, Runs, Pass
<1>. HIDE DEF iter
<1>3. run[0] = start
  <2>1. 1..0 = {} /\ {} \in SUBSET (1..n)
    OBVIOUS
  <2>2. iter[{}] = start
    BY <1>1, <2>1 DEF Runs
  <2>. QED  BY <2>1, <2>2
<1>4. ASSUME NEW k \in 0..(n - 1)
      PROVE  run[k + 1] = Pass(run[k], line[k + 1])
  <2>. HIDE DEF run
  <2>6. k \in Nat
    OBVIOUS
  <2>7. k + 1 \in 1..(k + 1)
    BY <2>6
  <2>1. k \in Nat /\ k + 1 \in 1..(k + 1) /\ 1..(k + 1) # {}
    BY <2>6, <2>7
  <2>5. \A i \in 1..(k + 1) : i \in 1..n
    BY <2>6
  <2>2. Max(1..(k + 1)) = k + 1
    BY <2>1, MaxOf
  <2>3. (1..(k + 1)) \ {k + 1} = 1..k
    BY <2>1
  <2>4. iter[1..(k + 1)] = Pass(iter[1..k], line[k + 1])
    BY <1>1, <2>1, <2>5, <2>2, <2>3 DEF Runs
  <2>. QED  BY <2>4 DEF run
<1>5. run[n] = iter[1..n]
  OBVIOUS
<1>. HIDE DEF run
<1>. QED  BY <1>2, <1>3, <1>4, <1>5

-----------------------------------------------------------------------------

\* The addresses that parseServer() takes: what stands between a closing
\* bracket and a colon is ignored, with the port.
Taken(written) ==
    /\ \/ written.brackets = "none" /\ written.ip \in V4
       \/ written.brackets = "closed" /\ written.ip \in V6
    /\ \/ written.after # NotSet
       \/ written.port = NoPort \/ (1 <= written.port /\ written.port <= 65535)

\* The command line up to an option: its options are taken each for itself,
AddressOK(option) == option.flag \in {"f", "s", "l"} => Taken(option.address)

OptionOK(option) ==
    /\ option.flag \in {"f", "s", "l", "h", "p", "i", "t", "m", "c", "P", "d"}
    /\ AddressOK(option)
    /\ option.flag = "t" => 1 <= option.number /\ option.number <= 65535
    /\ option.flag = "m" => 1 <= option.number /\ option.number <= 6000
    /\ option.flag = "p" => option.text \in Pins \cup {NotSet}

\* those among the first k that say something of the forwarder of option i.
Upto(k, i, flag) == {j \in About(i, flag) : j <= k}

\* The last `-f' of the first k options is at c, or there is none and c is 0.
Current(k, c) ==
    /\ c \in 0..k
    /\ c # 0 => c \in Written("f")
    /\ \A m \in Written("f") : m <= k => m <= c

\* None gives a forwarder a second host name, and none before the first `-f'
\* gives a host name or a pin.
OneHost(k, i) ==
    \A j, m \in Upto(k, i, "h") : j < m => options[j].text = NotSet

Unused == LastText(About(0, "h")) = NotSet /\ LastText(About(0, "p")) = NotSet

WellFormedUpto(k, c) ==
    /\ \A i \in 1..k : OptionOK(options[i])
    /\ \A i \in Written("f") \cup {0} : i <= k => OneHost(k, i)
    /\ c # 0 => Unused

\* ConfigParser::m_partialForwarder after k options, the last `-f' being at c.
Partial(k, c) ==
    [remote |-> IF c = 0 THEN NoAddress ELSE ParseServer(options[c].address, 853),
     disablePki |-> Upto(k, c, "i") # {},
     host |-> LastText(Upto(k, c, "h")),
     pin |-> LastText(Upto(k, c, "p"))]

\* The forwarder of the `-f' at i, and its place in the list.
Whole(i) ==
    [remote |-> ParseServer(options[i].address, 853),
     disablePki |-> About(i, "i") # {},
     host |-> LastText(About(i, "h")),
     pin |-> LastText(About(i, "p"))]

Rank(i) == Cardinality({m \in Written("f") : m <= i})

\* The members of a ConfigParser.
Fields == {"valid", "partial", "forwarders", "servers", "ipLookup", "ciphers",
           "maxConnections", "pidFile", "daemonise", "timeout"}

\* What a valid parser holds after the first k options.
Holding(k, c, p) ==
    /\ p.partial = Partial(k, c)
    /\ p.forwarders \in Seq({Whole(i) : i \in Written("f")})
    /\ Len(p.forwarders) = IF c = 0 THEN 0 ELSE Rank(c) - 1
    /\ \A i \in Written("f") : i < c => p.forwarders[Rank(i)] = Whole(i)

\* The description that each option keeps: the parser is valid just if the
\* first k options are well-formed.
Describes(k, c, p) ==
    /\ Current(k, c)
    /\ DOMAIN p = Fields
    /\ p.valid \in BOOLEAN
    /\ p.valid <=> WellFormedUpto(k, c)
    /\ p.valid => Holding(k, c, p)

-----------------------------------------------------------------------------

\* A set of positions that is not empty has a last one.
LEMMA LastOf ==
    ASSUME NEW k \in Nat, NEW T \in SUBSET (1..k), T # {}
    PROVE  \E m \in T : \A j \in T : j <= m
<1>. DEFINE S == {n \in Nat : \A U \in SUBSET (1..n) :
                        U # {} => \E m \in U : \A j \in U : j <= m}
<1>1. 0 \in S
  <2>1. \A U \in SUBSET (1..0) : U = {}
    OBVIOUS
  <2>. QED  BY <2>1
<1>2. ASSUME NEW n \in Nat, n \in S PROVE n + 1 \in S
  <2>1. ASSUME NEW U \in SUBSET (1..(n + 1)), U # {}
        PROVE  \E m \in U : \A j \in U : j <= m
    <3>1. CASE n + 1 \in U
      BY <3>1
    <3>2. CASE n + 1 \notin U
      <4>1. U \in SUBSET (1..n)
        BY <3>2
      <4>. QED  BY <1>2, <2>1, <4>1
    <3>. QED  BY <3>1, <3>2
  <2>2. n + 1 \in Nat
    OBVIOUS
  <2>. QED  BY <2>1, <2>2
<1>. HIDE DEF S
<1>3. k \in S
  BY <1>1, <1>2, Induction
<1>. QED  BY <1>3 DEF S

\* The text that counts is the last one.
LEMMA LastTextIs ==
    ASSUME NEW k \in Nat, NEW T \in SUBSET (1..k)
    PROVE  /\ T = {} => LastText(T) = NotSet
           /\ \A m \in T : (\A j \in T : j <= m) => LastText(T) = options[m].text
<1>1. T = {} => LastText(T) = NotSet
  BY DEF LastText
<1>2. ASSUME NEW m \in T, \A j \in T : j <= m
      PROVE  LastText(T) = options[m].text
  <2>. DEFINE x == CHOOSE i \in T : \A j \in T : j <= i
  <2>1. x \in T /\ \A j \in T : j <= x
    BY <1>2
  <2>2. x = m
    <3>1. x \in T /\ x <= m /\ m <= x
      BY <1>2, <2>1
    <3>2. \A i \in T : i \in Int
      OBVIOUS
    <3>. HIDE DEF x
    <3>. QED  BY <3>1, <3>2
  <2>. QED  BY <2>2 DEF LastText
<1>. QED  BY <1>1, <1>2

\* ParseServer() takes the addresses that may be given.
LEMMA AddressTaken ==
    ASSUME NEW written, NEW port \in {53, 853},
           written.brackets \in {"none", "closed", "unclosed"}
    PROVE  ParseServer(written, port) # NoAddress <=> Taken(written)
<1>. DEFINE Default == written.port = NoPort \/ written.after # NotSet
            used == IF Default THEN port ELSE written.port
<1>1. <<written.ip, used>> # NoAddress
  BY DEF NoAddress
<1>2. 1 <= used /\ used <= 65535
        <=> Default \/ (1 <= written.port /\ written.port <= 65535)
  <2>. HIDE DEF Default
  <2>. QED  BY SMT
<1>3. ParseServer(written, port) # NoAddress
        <=> /\ written.brackets # "unclosed"
            /\ written.ip \in (IF written.brackets = "none" THEN V4 ELSE V6)
            /\ 1 <= used /\ used <= 65535
  <2>. HIDE DEF Default
  <2>1. ParseServer(written, port) =
            IF /\ written.brackets # "unclosed"
               /\ written.ip \in (IF written.brackets = "none" THEN V4 ELSE V6)
               /\ 1 <= used /\ used <= 65535
            THEN <<written.ip, used>> ELSE NoAddress
    BY DEF ParseServer, Default
  <2>. HIDE DEF used
  <2>. QED  BY <1>1, <2>1
<1>4. Taken(written)
        <=> /\ \/ written.brackets = "none" /\ written.ip \in V4
               \/ written.brackets = "closed" /\ written.ip \in V6
            /\ Default \/ (1 <= written.port /\ written.port <= 65535)
  BY DEF Taken
<1>. HIDE DEF used, Default
<1>. QED  BY <1>2, <1>3, <1>4

-----------------------------------------------------------------------------

\* An option that is well-formed as far as its shape goes.
Shaped(option) ==
    option.flag \in {"f", "s", "l"} =>
        option.address.brackets \in {"none", "closed", "unclosed"}

\* An option that is about no forwarder is refused if it is not well-formed,
\* and leaves the forwarders alone.
LEMMA OtherOption ==
    ASSUME NEW p, DOMAIN p = Fields, p.valid, NEW o, Shaped(o),
           o.flag \notin {"f", "h", "p", "i"}
    PROVE  LET q == ParseOption(p, o)
           IN  /\ DOMAIN q = Fields /\ q.valid \in BOOLEAN
               /\ q.valid <=> OptionOK(o)
               /\ q.valid => q.partial = p.partial /\ q.forwarders = p.forwarders
<1>. DEFINE q == ParseOption(p, o)
            Same == /\ DOMAIN q = Fields /\ q.valid = TRUE
                    /\ q.partial = p.partial /\ q.forwarders = p.forwarders
            Wrong == DOMAIN q = Fields /\ q.valid = FALSE
            Right == IF OptionOK(o) THEN Same ELSE Wrong
<1>. HIDE DEF Right
<1>. USE DEF Fields
<1>1. o.flag = "s" => Right
  <2>. SUFFICES ASSUME o.flag = "s"
                PROVE  Right
    OBVIOUS
  <2>1. q = AddServer(p, o.address)
    BY DEF ParseOption
  <2>2. ParseServer(o.address, 53) # NoAddress <=> Taken(o.address)
    BY AddressTaken DEF Shaped
  <2>3. IF Taken(o.address) THEN Same ELSE Wrong
    BY <2>1, <2>2 DEF AddServer, Invalid
  <2>. HIDE DEF q, Same, Wrong
  <2>. QED  BY <2>3 DEF Right, OptionOK, AddressOK
<1>2. o.flag = "l" => Right
  <2>. SUFFICES ASSUME o.flag = "l"
                PROVE  Right
    OBVIOUS
  <2>1. q = SetIpLookup(p, o.address)
    BY DEF ParseOption
  <2>2. ParseServer(o.address, 853) # NoAddress <=> Taken(o.address)
    BY AddressTaken DEF Shaped
  <2>3. IF Taken(o.address) THEN Same ELSE Wrong
    BY <2>1, <2>2 DEF SetIpLookup, Invalid
  <2>. HIDE DEF q, Same, Wrong
  <2>. QED  BY <2>3 DEF Right, OptionOK, AddressOK
<1>3. o.flag = "m" => Right
  <2>. SUFFICES ASSUME o.flag = "m"
                PROVE  Right
    OBVIOUS
  <2>1. q = SetMaxConnections(p, o.number)
    BY DEF ParseOption
  <2>2. IF 1 <= o.number /\ o.number <= 6000 THEN Same ELSE Wrong
    BY <2>1 DEF SetMaxConnections, Invalid
  <2>. HIDE DEF q, Same, Wrong
  <2>. QED  BY <2>2 DEF Right, OptionOK, AddressOK
<1>4. o.flag = "t" => Right
  <2>. SUFFICES ASSUME o.flag = "t"
                PROVE  Right
    OBVIOUS
  <2>1. q = SetTimeout(p, o.number)
    BY DEF ParseOption
  <2>2. IF 1 <= o.number /\ o.number <= 65535 THEN Same ELSE Wrong
    BY <2>1 DEF SetTimeout, Invalid
  <2>. HIDE DEF q, Same, Wrong
  <2>. QED  BY <2>2 DEF Right, OptionOK, AddressOK
<1>5. o.flag \in {"c", "d", "P"} => Right
  <2>. SUFFICES ASSUME o.flag \in {"c", "d", "P"}
                PROVE  Right
    OBVIOUS
  <2>1. q \in {[p EXCEPT !.ciphers = o.text], [p EXCEPT !.daemonise = TRUE],
               [p EXCEPT !.pidFile = o.text]}
    BY DEF ParseOption
  <2>2. Same
    BY <2>1
  <2>. HIDE DEF q, Same, Wrong
  <2>. QED  BY <2>2 DEF Right, OptionOK, AddressOK
<1>6. o.flag \notin {"s", "l", "m", "t", "c", "d", "P"} => Right
  <2>. SUFFICES ASSUME o.flag \notin {"s", "l", "m", "t", "c", "d", "P"}
                PROVE  Right
    OBVIOUS
  <2>1. q = Invalid(p)
    BY DEF ParseOption
  <2>2. Wrong
    BY <2>1 DEF Invalid
  <2>. HIDE DEF q, Same, Wrong
  <2>. QED  BY <2>2 DEF Right, OptionOK
<1>7. Right
  <2>. HIDE DEF q, Same, Wrong
  <2>. QED  BY <1>1, <1>2, <1>3, <1>4, <1>5, <1>6
<1>. HIDE DEF q
<1>8. /\ DOMAIN q = Fields /\ q.valid \in BOOLEAN
      /\ q.valid <=> OptionOK(o)
      /\ q.valid => q.partial = p.partial /\ q.forwarders = p.forwarders
  BY <1>7 DEF Right
<1>. QED  BY <1>8 DEF q

-----------------------------------------------------------------------------

\* An option that is not `-f' belongs to the last `-f' before it.
LEMMA Joins ==
    ASSUME Len(options) \in Nat, DOMAIN options = 1..Len(options),
           NEW k \in 0..(Len(options) - 1), NEW c, Current(k, c),
           options[k + 1].flag # "f"
    PROVE  /\ Current(k + 1, c)
           /\ \A i \in Written("f") \cup {0} : i <= k /\ i # c =>
                \A flag : Upto(k + 1, i, flag) = Upto(k, i, flag)
           /\ \A flag : Upto(k + 1, c, flag) =
                Upto(k, c, flag) \cup (IF options[k + 1].flag = flag THEN {k + 1} ELSE {})
<1>1. Current(k + 1, c)
  BY DEF Current, Written
<1>2. ASSUME NEW i \in Written("f") \cup {0}, i <= k, i # c, NEW flag
      PROVE  Upto(k + 1, i, flag) = Upto(k, i, flag)
  <2>1. c \in Written("f") /\ i < c /\ c < k + 1
    BY <1>2 DEF Current, Written
  <2>2. k + 1 \notin About(i, flag)
    BY <2>1 DEF About
  <2>. QED  BY <2>2 DEF Upto, About, Written
<1>3. ASSUME NEW flag
      PROVE  Upto(k + 1, c, flag) =
                Upto(k, c, flag) \cup (IF options[k + 1].flag = flag THEN {k + 1} ELSE {})
  <2>1. k + 1 \in About(c, flag) <=> options[k + 1].flag = flag
    BY DEF About, Current, Written
  <2>2. \A j \in About(c, flag) : j \in Int
    BY DEF About, Written
  <2>3. \A j \in About(c, flag) : j <= k + 1 <=> j <= k \/ j = k + 1
    BY <2>2
  <2>4. k + 1 <= k + 1 /\ ~(k + 1 <= k)
    OBVIOUS
  <2>. QED  BY <2>1, <2>3, <2>4 DEF Upto
<1>. QED  BY <1>1, <1>2, <1>3

\* A `-f' begins a new forwarder, and those before it are complete.
LEMMA Begins ==
    ASSUME Len(options) \in Nat, DOMAIN options = 1..Len(options),
           NEW k \in 0..(Len(options) - 1), NEW c, Current(k, c),
           options[k + 1].flag = "f"
    PROVE  /\ Current(k + 1, k + 1) /\ k + 1 \in Written("f")
           /\ \A flag : Upto(k + 1, k + 1, flag) = {}
           /\ \A i \in Written("f") \cup {0}, flag \in {"h", "p", "i"} : i <= k =>
                /\ Upto(k + 1, i, flag) = Upto(k, i, flag)
                /\ About(i, flag) = Upto(k, i, flag)
<1>1. Current(k + 1, k + 1) /\ k + 1 \in Written("f")
  BY DEF Current, Written
<1>2. ASSUME NEW flag PROVE Upto(k + 1, k + 1, flag) = {}
  BY DEF Upto, About, Written
<1>3. ASSUME NEW i \in Written("f") \cup {0}, NEW flag \in {"h", "p", "i"}, i <= k
      PROVE  /\ Upto(k + 1, i, flag) = Upto(k, i, flag)
             /\ About(i, flag) = Upto(k, i, flag)
  <2>1. \A j \in About(i, flag) : j <= k
    BY <1>1, <1>3 DEF About, Written
  <2>2. \A j \in About(i, flag) : j <= k + 1
    BY <2>1 DEF About, Written
  <2>. QED  BY <2>1, <2>2 DEF Upto
<1>. QED  BY <1>1, <1>2, <1>3

\* What an option that is not `-f' changes about being well-formed.
LEMMA WellFormedJoins ==
    ASSUME Len(options) \in Nat, DOMAIN options = 1..Len(options),
           NEW k \in 0..(Len(options) - 1), NEW c, Current(k, c),
           options[k + 1].flag # "f"
    PROVE  WellFormedUpto(k + 1, c) <=>
             /\ WellFormedUpto(k, c)
             /\ OptionOK(options[k + 1])
             /\ options[k + 1].flag = "h" => LastText(Upto(k, c, "h")) = NotSet
<1>. DEFINE flag == options[k + 1].flag
            old == Upto(k, c, "h")
            First == flag = "h" => LastText(old) = NotSet
<1>0. k \in Nat /\ \A i \in 1..(k + 1) : i \in 1..k \/ i = k + 1
  OBVIOUS
<1>1. (\A i \in 1..(k + 1) : OptionOK(options[i])) <=>
        (\A i \in 1..k : OptionOK(options[i])) /\ OptionOK(options[k + 1])
  BY <1>0
<1>2. /\ c \in Written("f") \cup {0} /\ c <= k
      /\ \A i \in Written("f") \cup {0} : i <= k + 1 => i <= k /\ i \in Int
  BY DEF Current, Written
<1>3. \A i \in Written("f") \cup {0} : i <= k /\ i # c => (OneHost(k + 1, i) <=> OneHost(k, i))
  BY Joins DEF OneHost
<1>4. old \in SUBSET (1..k)
  BY DEF Upto, About, Written
<1>5. OneHost(k + 1, c) <=> OneHost(k, c) /\ First
  <2>0. \A g : Upto(k + 1, c, g) =
                Upto(k, c, g) \cup (IF options[k + 1].flag = g THEN {k + 1} ELSE {})
    BY Joins
  <2>3. Upto(k + 1, c, "h") = old \cup (IF flag = "h" THEN {k + 1} ELSE {})
    BY <2>0
  <2>. HIDE DEF old, flag
  <2>1. CASE flag # "h"
    <3>1. Upto(k + 1, c, "h") = old
      BY <2>1, <2>3
    <3>. USE DEF old, flag
    <3>. QED  BY <2>1, <3>1 DEF OneHost
  <2>2. CASE flag = "h"
    <3>1. Upto(k + 1, c, "h") = old \cup {k + 1}
      BY <2>2, <2>3
    <3>2. \A j \in old : j \in Int /\ j < k + 1
      <4>1. \A j \in 1..k : j \in Int /\ j < k + 1
        BY <1>0
      <4>. QED  BY <1>4, <4>1
    <3>3. OneHost(k + 1, c) <=> \A j \in old : options[j].text = NotSet
      <4>1. ~ (k + 1 < k + 1) /\ \A j \in old : ~ (k + 1 < j)
        BY <3>2
      <4>2. ASSUME \A j \in old : options[j].text = NotSet
            PROVE  OneHost(k + 1, c)
        BY <3>1, <4>1, <4>2 DEF OneHost
      <4>3. ASSUME OneHost(k + 1, c), NEW j \in old
            PROVE  options[j].text = NotSet
        BY <3>1, <3>2, <4>3 DEF OneHost
      <4>. QED  BY <4>2, <4>3
    <3>4. OneHost(k, c) <=> \A j, m \in old : j < m => options[j].text = NotSet
      BY DEF OneHost, old
    <3>5. CASE old = {}
      <4>1. LastText(old) = NotSet
        BY <1>0, <1>4, <3>5, LastTextIs
      <4>. QED  BY <3>3, <3>4, <3>5, <4>1
    <3>6. CASE old # {}
      <4>1. PICK m \in old : \A j \in old : j <= m
        BY <1>0, <1>4, <3>6, LastOf
      <4>2. LastText(old) = options[m].text
        BY <1>0, <1>4, <4>1, LastTextIs
      <4>3. \A j \in old : j # m => j < m
        BY <3>2, <4>1
      <4>. QED  BY <2>2, <3>3, <3>4, <4>2, <4>3
    <3>. QED  BY <3>5, <3>6
  <2>. QED  BY <2>1, <2>2
<1>. HIDE DEF First
<1>6. (\A i \in Written("f") \cup {0} : i <= k + 1 => OneHost(k + 1, i)) <=>
        (\A i \in Written("f") \cup {0} : i <= k => OneHost(k, i)) /\ First
  <2>1. \A i \in Written("f") \cup {0} : i <= k => i <= k + 1
    BY <1>2 DEF Written
  <2>. QED  BY <1>2, <1>3, <1>5, <2>1
<1>. QED  BY <1>1, <1>6 DEF WellFormedUpto, First

\* What a `-f' changes about it.
LEMMA WellFormedBegins ==
    ASSUME Len(options) \in Nat, DOMAIN options = 1..Len(options),
           NEW k \in 0..(Len(options) - 1), NEW c, Current(k, c),
           options[k + 1].flag = "f"
    PROVE  WellFormedUpto(k + 1, k + 1) <=>
             WellFormedUpto(k, c) /\ OptionOK(options[k + 1]) /\ Unused
<1>0. k \in Nat /\ k + 1 # 0 /\ \A i \in 1..(k + 1) : i \in 1..k \/ i = k + 1
  OBVIOUS
<1>1. (\A i \in 1..(k + 1) : OptionOK(options[i])) <=>
        (\A i \in 1..k : OptionOK(options[i])) /\ OptionOK(options[k + 1])
  BY <1>0
<1>2. \A i \in Written("f") \cup {0} : i <= k => (OneHost(k + 1, i) <=> OneHost(k, i))
  BY Begins DEF OneHost
<1>3. OneHost(k + 1, k + 1)
  <2>1. Upto(k + 1, k + 1, "h") = {}
    BY Begins
  <2>. QED  BY <2>1 DEF OneHost
<1>4. \A i \in Written("f") \cup {0} : i <= k + 1 <=> i <= k \/ i = k + 1
  BY DEF Written
<1>5. (\A i \in Written("f") \cup {0} : i <= k + 1 => OneHost(k + 1, i)) <=>
        (\A i \in Written("f") \cup {0} : i <= k => OneHost(k, i))
  BY <1>2, <1>3, <1>4
<1>. QED  BY <1>0, <1>1, <1>5 DEF WellFormedUpto

\* What an option that is not `-f' says about the last forwarder.
LEMMA PartialJoins ==
    ASSUME Len(options) \in Nat, DOMAIN options = 1..Len(options),
           NEW k \in 0..(Len(options) - 1), NEW c, Current(k, c),
           options[k + 1].flag # "f"
    PROVE  LET o   == options[k + 1]
               old == Partial(k, c)
           IN  Partial(k + 1, c) =
                [remote |-> old.remote,
                 disablePki |-> old.disablePki \/ o.flag = "i",
                 host |-> IF o.flag = "h" THEN o.text ELSE old.host,
                 pin |-> IF o.flag = "p" THEN o.text ELSE old.pin]
<1>. DEFINE o == options[k + 1]
<1>1. \A g : Upto(k + 1, c, g) =
              Upto(k, c, g) \cup (IF options[k + 1].flag = g THEN {k + 1} ELSE {})
  BY Joins
<1>2. ASSUME NEW g
      PROVE  LastText(Upto(k + 1, c, g)) =
                IF o.flag = g THEN o.text ELSE LastText(Upto(k, c, g))
  <2>. DEFINE old == Upto(k, c, g)
              new == Upto(k + 1, c, g)
  <2>1. new = old \cup (IF o.flag = g THEN {k + 1} ELSE {})
    BY <1>1
  <2>2. CASE o.flag # g
    BY <2>1, <2>2
  <2>3. CASE o.flag = g
    <3>1. new = old \cup {k + 1}
      BY <2>1, <2>3
    <3>2. old \in SUBSET (1..k) /\ k \in Nat /\ k + 1 \in Nat
      BY DEF Upto, About, Written
    <3>. HIDE DEF old, new, o
    <3>3. new \in SUBSET (1..(k + 1)) /\ k + 1 \in new /\ \A j \in new : j <= k + 1
      BY <3>1, <3>2
    <3>4. LastText(new) = options[k + 1].text
      BY <3>2, <3>3, LastTextIs
    <3>. QED  BY <2>3, <3>4 DEF new, old, o
  <2>. QED  BY <2>2, <2>3
<1>3. (Upto(k + 1, c, "i") # {}) <=> (Upto(k, c, "i") # {} \/ o.flag = "i")
  BY <1>1
<1>. HIDE DEF o
<1>4. /\ LastText(Upto(k + 1, c, "h")) = IF o.flag = "h" THEN o.text ELSE LastText(Upto(k, c, "h"))
      /\ LastText(Upto(k + 1, c, "p")) = IF o.flag = "p" THEN o.text ELSE LastText(Upto(k, c, "p"))
  BY <1>2
<1>5. /\ Partial(k, c).remote = Partial(k + 1, c).remote
      /\ Partial(k, c).disablePki <=> Upto(k, c, "i") # {}
      /\ Partial(k, c).host = LastText(Upto(k, c, "h"))
      /\ Partial(k, c).pin = LastText(Upto(k, c, "p"))
  <2>1. Partial(k, c).disablePki <=> Upto(k, c, "i") # {}
    BY DEF Partial
  <2>2. /\ Partial(k, c).remote = Partial(k + 1, c).remote
        /\ Partial(k, c).host = LastText(Upto(k, c, "h"))
        /\ Partial(k, c).pin = LastText(Upto(k, c, "p"))
    BY DEF Partial
  <2>. QED  BY <2>1, <2>2
<1>6. Partial(k + 1, c) =
        [remote |-> Partial(k + 1, c).remote,
         disablePki |-> Upto(k + 1, c, "i") # {},
         host |-> LastText(Upto(k + 1, c, "h")),
         pin |-> LastText(Upto(k + 1, c, "p"))]
  BY DEF Partial
<1>7. Partial(k + 1, c) =
        [remote |-> Partial(k, c).remote,
         disablePki |-> Partial(k, c).disablePki \/ o.flag = "i",
         host |-> IF o.flag = "h" THEN o.text ELSE Partial(k, c).host,
         pin |-> IF o.flag = "p" THEN o.text ELSE Partial(k, c).pin]
  BY <1>3, <1>4, <1>5, <1>6
<1>. QED  BY <1>7 DEF o

\* One pass over an option that is not `-f'.
LEMMA PassJoins ==
    ASSUME Len(options) \in Nat, DOMAIN options = 1..Len(options),
           NEW k \in 0..(Len(options) - 1), NEW c, NEW p, Describes(k, c, p), p.valid,
           options[k + 1].flag # "f", Shaped(options[k + 1])
    PROVE  Describes(k + 1, c, ParseOption(p, options[k + 1]))
<1>. DEFINE o == options[k + 1]
            q == ParseOption(p, o)
            old == Partial(k, c)
            Right(ok) == /\ DOMAIN q = Fields /\ q.valid \in BOOLEAN
                         /\ q.valid <=> ok
                         /\ q.valid => /\ q.partial = Partial(k + 1, c)
                                       /\ q.forwarders = p.forwarders
<1>1. Current(k, c) /\ DOMAIN p = Fields /\ WellFormedUpto(k, c) /\ Holding(k, c, p)
  BY DEF Describes
<1>2. p.partial = old /\ old.host = LastText(Upto(k, c, "h"))
  BY <1>1 DEF Holding, Partial
<1>3. Partial(k + 1, c) =
        [remote |-> old.remote,
         disablePki |-> old.disablePki \/ o.flag = "i",
         host |-> IF o.flag = "h" THEN o.text ELSE old.host,
         pin |-> IF o.flag = "p" THEN o.text ELSE old.pin]
  BY <1>1, PartialJoins
<1>4. old = [remote |-> old.remote, disablePki |-> old.disablePki,
             host |-> old.host, pin |-> old.pin]
      /\ old.disablePki \in BOOLEAN
  BY DEF Partial
<1>5. o.flag \notin {"h", "p", "i"} => Right(OptionOK(o))
  <2>. SUFFICES ASSUME o.flag \notin {"h", "p", "i"}
                PROVE  Right(OptionOK(o))
    OBVIOUS
  <2>1. /\ DOMAIN q = Fields /\ q.valid \in BOOLEAN
        /\ q.valid <=> OptionOK(o)
        /\ q.valid => q.partial = p.partial /\ q.forwarders = p.forwarders
    BY <1>1, OtherOption
  <2>. HIDE DEF o, old, q
  <2>2. Partial(k + 1, c) = old
    BY <1>3, <1>4
  <2>. QED  BY <1>2, <2>1, <2>2
<1>6. o.flag = "h" => OptionOK(o) /\ Right(old.host = NotSet)
  <2>. SUFFICES ASSUME o.flag = "h"
                PROVE  OptionOK(o) /\ Right(old.host = NotSet)
    OBVIOUS
  <2>1. q = AddHostname(p, o.text)
    BY DEF ParseOption
  <2>2. OptionOK(o)
    BY DEF OptionOK, AddressOK
  <2>. HIDE DEF o, old, q
  <2>3. CASE old.host # NotSet
    BY <1>1, <1>2, <2>1, <2>2, <2>3 DEF AddHostname, Invalid, Fields
  <2>4. CASE old.host = NotSet
    <3>1. q = [p EXCEPT !.partial.host = o.text]
      BY <1>2, <2>1, <2>4 DEF AddHostname
    <3>2. /\ DOMAIN q = Fields /\ q.valid = TRUE /\ q.forwarders = p.forwarders
          /\ q.partial = [old EXCEPT !.host = o.text]
      BY <1>1, <1>2, <3>1 DEF Fields
    <3>3. q.partial = Partial(k + 1, c)
      BY <1>3, <1>4, <3>2
    <3>. QED  BY <2>2, <2>4, <3>2, <3>3
  <2>. QED  BY <2>3, <2>4
<1>7. o.flag = "p" => Right(OptionOK(o))
  <2>. SUFFICES ASSUME o.flag = "p"
                PROVE  Right(OptionOK(o))
    OBVIOUS
  <2>1. q = AddPin(p, o.text)
    BY DEF ParseOption
  <2>2. OptionOK(o) <=> o.text \in Pins \cup {NotSet}
    BY DEF OptionOK, AddressOK
  <2>. HIDE DEF o, old, q
  <2>3. CASE o.text \notin Pins \cup {NotSet}
    BY <1>1, <2>1, <2>2, <2>3 DEF AddPin, Invalid, Fields
  <2>4. CASE o.text \in Pins \cup {NotSet}
    <3>1. q = [p EXCEPT !.partial.pin = o.text]
      BY <2>1, <2>4 DEF AddPin
    <3>2. /\ DOMAIN q = Fields /\ q.valid = TRUE /\ q.forwarders = p.forwarders
          /\ q.partial = [old EXCEPT !.pin = o.text]
      BY <1>1, <1>2, <3>1 DEF Fields
    <3>3. q.partial = Partial(k + 1, c)
      BY <1>3, <1>4, <3>2
    <3>. QED  BY <2>2, <2>4, <3>2, <3>3
  <2>. QED  BY <2>3, <2>4
<1>8. o.flag = "i" => OptionOK(o) /\ Right(TRUE)
  <2>. SUFFICES ASSUME o.flag = "i"
                PROVE  OptionOK(o) /\ Right(TRUE)
    OBVIOUS
  <2>1. q = [p EXCEPT !.partial.disablePki = TRUE]
    BY DEF ParseOption, DisableVerification
  <2>2. OptionOK(o)
    BY DEF OptionOK, AddressOK
  <2>. HIDE DEF o, old, q
  <2>3. /\ DOMAIN q = Fields /\ q.valid = TRUE /\ q.forwarders = p.forwarders
        /\ q.partial = [old EXCEPT !.disablePki = TRUE]
    BY <1>1, <1>2, <2>1 DEF Fields
  <2>4. q.partial = Partial(k + 1, c)
    BY <1>3, <1>4, <2>3
  <2>. QED  BY <2>2, <2>3, <2>4
<1>9. WellFormedUpto(k + 1, c) <=> OptionOK(o) /\ (o.flag = "h" => old.host = NotSet)
  BY <1>1, <1>2, WellFormedJoins
<1>10. Current(k + 1, c)
  BY <1>1, Joins
<1>. HIDE DEF o, old, q
<1>11. Right(WellFormedUpto(k + 1, c))
  BY <1>5, <1>6, <1>7, <1>8, <1>9
<1>12. q.valid => Holding(k + 1, c, q)
  BY <1>1, <1>11 DEF Holding
<1>13. Describes(k + 1, c, q)
  BY <1>10, <1>11, <1>12 DEF Describes
<1>. QED  BY <1>13 DEF q, o

-----------------------------------------------------------------------------

\* The place of a `-f' among those of the command line.
LEMMA Ranks ==
    ASSUME Len(options) \in Nat, DOMAIN options = 1..Len(options)
    PROVE  /\ IsFiniteSet(Written("f"))
           /\ \A i \in Written("f") : Rank(i) \in Nat /\ 1 <= Rank(i)
           /\ \A i, j \in Written("f") : i < j => Rank(i) <= Rank(j) - 1
<1>. DEFINE F == Written("f")
            Before(i) == {m \in F : m <= i}
<1>1. F \subseteq 1..Len(options) /\ \A m \in F : m \in Int
  BY DEF Written
<1>2. IsFiniteSet(F)
  <2>1. IsFiniteSet(1..Len(options))
    BY FS_Interval
  <2>. HIDE DEF F
  <2>. QED  BY <1>1, <2>1, FS_Subset
<1>. HIDE DEF F
<1>3. ASSUME NEW i \in F
      PROVE  IsFiniteSet(Before(i)) /\ Rank(i) \in Nat /\ 1 <= Rank(i)
  <2>1. Before(i) \subseteq F /\ i \in Before(i)
    BY <1>1
  <2>2. Rank(i) = Cardinality(Before(i))
    BY DEF Rank, F
  <2>. HIDE DEF Before
  <2>3. IsFiniteSet(Before(i))
    BY <1>2, <2>1, FS_Subset
  <2>4. Cardinality(Before(i)) \in Nat
    BY <2>3, FS_CardinalityType
  <2>5. Cardinality(Before(i)) # 0
    BY <2>1, <2>3, FS_EmptySet
  <2>. QED  BY <2>2, <2>3, <2>4, <2>5
<1>4. ASSUME NEW i \in F, NEW j \in F, i < j
      PROVE  Rank(i) <= Rank(j) - 1
  <2>1. /\ Rank(i) = Cardinality(Before(i)) /\ Rank(j) = Cardinality(Before(j))
    BY DEF Rank, F
  <2>2. Before(i) \subseteq Before(j) \ {j} /\ j \in Before(j)
    <3>1. i \in Int /\ j \in Int /\ j <= j
      BY <1>1
    <3>2. \A m \in F : m <= i => m <= j /\ m # j
      BY <1>1, <1>4, <3>1
    <3>. QED  BY <3>1, <3>2
  <2>3. IsFiniteSet(Before(j)) /\ Rank(i) \in Nat /\ Rank(j) \in Nat
    BY <1>3
  <2>. HIDE DEF Before
  <2>4. IsFiniteSet(Before(j) \ {j}) /\ Cardinality(Before(j) \ {j}) = Cardinality(Before(j)) - 1
    BY <2>2, <2>3, FS_RemoveElement
  <2>5. Cardinality(Before(i)) <= Cardinality(Before(j) \ {j})
    BY <2>2, <2>4, FS_Subset
  <2>. QED  BY <2>1, <2>4, <2>5
<1>. QED  BY <1>2, <1>3, <1>4 DEF F

\* The next `-f' has the next place, and the last has that of their number.
LEMMA NextRank ==
    ASSUME Len(options) \in Nat, DOMAIN options = 1..Len(options),
           NEW k \in 0..Len(options), NEW c, Current(k, c)
    PROVE  /\ Cardinality({m \in Written("f") : m <= k}) = IF c = 0 THEN 0 ELSE Rank(c)
           /\ k + 1 \in Written("f") =>
                Rank(k + 1) = (IF c = 0 THEN 0 ELSE Rank(c)) + 1
<1>. DEFINE F == Written("f")
            Old == {m \in F : m <= k}
            New == {m \in F : m <= k + 1}
<1>1. (\A m \in F : m \in Int) /\ IsFiniteSet(F) /\ k \in Int
  BY Ranks DEF Written
<1>2. Cardinality(Old) = IF c = 0 THEN 0 ELSE Rank(c)
  <2>1. CASE c = 0
    <3>1. \A m \in F : ~ (m <= k)
      BY <2>1 DEF Current, Written
    <3>2. Old = {}
      BY <3>1
    <3>. QED  BY <2>1, <3>2, FS_EmptySet
  <2>2. CASE c # 0
    <3>1. c \in F /\ c <= k /\ c \in Int /\ \A m \in F : m <= k => m <= c
      BY <2>2 DEF Current
    <3>. HIDE DEF F
    <3>2. Old = {m \in F : m <= c}
      <4>1. \A m \in F : m <= k <=> m <= c
        BY <1>1, <3>1
      <4>. QED  BY <4>1
    <3>. QED  BY <2>2, <3>2 DEF Rank, F
  <2>. QED  BY <2>1, <2>2
<1>3. ASSUME k + 1 \in F
      PROVE  Rank(k + 1) = Cardinality(Old) + 1
  <2>. HIDE DEF F
  <2>1. New = Old \cup {k + 1} /\ k + 1 \notin Old /\ Old \subseteq F
    <3>1. \A m \in F : m <= k + 1 <=> m <= k \/ m = k + 1
      BY <1>1
    <3>2. ~ (k + 1 <= k)
      BY <1>1
    <3>. QED  BY <1>3, <3>1, <3>2
  <2>2. Rank(k + 1) = Cardinality(New)
    BY DEF Rank, F
  <2>. HIDE DEF Old, New
  <2>3. IsFiniteSet(Old)
    BY <1>1, <2>1, FS_Subset
  <2>. QED  BY <2>1, <2>2, <2>3, FS_AddElement
<1>. QED  BY <1>2, <1>3

-----------------------------------------------------------------------------

\* What the parser holds when the forwarder of the last `-f' is complete.
Complete(k, c) ==
    \A flag \in {"h", "p", "i"} : About(c, flag) = Upto(k, c, flag)

Collected(k, r) ==
    /\ r.partial = NewForwarder
    /\ r.forwarders \in Seq({Whole(i) : i \in Written("f")})
    /\ Len(r.forwarders) = Cardinality({m \in Written("f") : m <= k})
    /\ \A i \in Written("f") : i <= k => r.forwarders[Rank(i)] = Whole(i)

\* pushForwarder() then adds it to the forwarders; before the first `-f',
\* it finds out whether a host name or a pin was given for none.
LEMMA Pushed ==
    ASSUME Len(options) \in Nat, DOMAIN options = 1..Len(options),
           \A i \in DOMAIN options : Shaped(options[i]),
           NEW k \in 0..Len(options), NEW c, NEW p, Describes(k, c, p), p.valid,
           Complete(k, c)
    PROVE  LET r == PushForwarder(p)
           IN  /\ DOMAIN r = Fields /\ r.valid \in BOOLEAN
               /\ r.valid <=> Unused
               /\ r.valid => Collected(k, r)
<1>. DEFINE r == PushForwarder(p)
            Wholes == {Whole(i) : i \in Written("f")}
<1>1. /\ Current(k, c) /\ DOMAIN p = Fields /\ WellFormedUpto(k, c)
      /\ p.partial = Partial(k, c)
      /\ p.forwarders \in Seq(Wholes)
      /\ Len(p.forwarders) = IF c = 0 THEN 0 ELSE Rank(c) - 1
      /\ \A i \in Written("f") : i < c => p.forwarders[Rank(i)] = Whole(i)
  BY DEF Describes, Holding
<1>2. Cardinality({m \in Written("f") : m <= k}) = IF c = 0 THEN 0 ELSE Rank(c)
  BY <1>1, NextRank
<1>3. CASE c = 0
  <2>1. p.partial.remote = NoAddress
    BY <1>1, <1>3 DEF Partial
  <2>2. p.partial.host = LastText(About(0, "h")) /\ p.partial.pin = LastText(About(0, "p"))
    <3>1. About(0, "h") = Upto(k, c, "h") /\ About(0, "p") = Upto(k, c, "p")
      BY <1>3 DEF Complete
    <3>. QED  BY <1>1, <3>1 DEF Partial
  <2>3. r = [p EXCEPT !.valid = @ /\ p.partial.host = NotSet /\ p.partial.pin = NotSet,
                      !.partial = NewForwarder]
    BY <2>1 DEF PushForwarder
  <2>4. /\ DOMAIN r = Fields /\ r.forwarders = p.forwarders /\ r.partial = NewForwarder
        /\ r.valid \in BOOLEAN
        /\ r.valid <=> p.partial.host = NotSet /\ p.partial.pin = NotSet
    BY <1>1, <2>3 DEF Fields
  <2>5. \A i \in Written("f") : ~ (i <= k)
    BY <1>1, <1>3 DEF Current, Written
  <2>. HIDE DEF r
  <2>6. Collected(k, r)
    BY <1>1, <1>2, <1>3, <2>4, <2>5 DEF Collected
  <2>7. r.valid <=> Unused
    BY <2>2, <2>4 DEF Unused
  <2>. QED  BY <2>4, <2>6, <2>7 DEF r
<1>4. CASE c # 0
  <2>1. c \in Written("f") /\ c \in 1..k /\ c \in DOMAIN options
        /\ options[c].flag = "f"
    BY <1>1, <1>4 DEF Current, Written
  <2>2. ParseServer(options[c].address, 853) # NoAddress
    <3>1. OptionOK(options[c]) /\ Shaped(options[c])
      BY <1>1, <2>1 DEF WellFormedUpto
    <3>2. /\ Taken(options[c].address)
          /\ options[c].address.brackets \in {"none", "closed", "unclosed"}
      BY <2>1, <3>1 DEF OptionOK, AddressOK, Shaped
    <3>. QED  BY <3>2, AddressTaken
  <2>3. Partial(k, c) = Whole(c)
    <3>1. /\ About(c, "h") = Upto(k, c, "h") /\ About(c, "p") = Upto(k, c, "p")
          /\ About(c, "i") = Upto(k, c, "i")
      BY DEF Complete
    <3>. QED  BY <1>4, <3>1 DEF Partial, Whole
  <2>4. Whole(c).remote # NoAddress /\ Whole(c) \in Wholes
    BY <2>1, <2>2 DEF Whole
  <2>5. r = [p EXCEPT !.forwarders = Append(@, p.partial), !.partial = NewForwarder]
    BY <1>1, <2>3, <2>4 DEF PushForwarder
  <2>6. /\ DOMAIN r = Fields /\ r.valid = TRUE /\ r.partial = NewForwarder
        /\ r.forwarders = Append(p.forwarders, Whole(c))
    BY <1>1, <2>3, <2>5 DEF Fields
  <2>7. Unused
    BY <1>1, <1>4 DEF WellFormedUpto
  <2>. DEFINE list == p.forwarders
  <2>. HIDE DEF r, Wholes, list
  <2>8. /\ Append(list, Whole(c)) \in Seq(Wholes)
        /\ Len(Append(list, Whole(c))) = Len(list) + 1
        /\ \A j \in 1..Len(list) : Append(list, Whole(c))[j] = list[j]
        /\ Append(list, Whole(c))[Len(list) + 1] = Whole(c)
    BY <1>1, <2>4 DEF list
  <2>9. Rank(c) \in Nat /\ Len(list) = Rank(c) - 1 /\ Len(list) + 1 = Rank(c)
    BY <1>1, <1>4, <2>1, Ranks DEF list
  <2>10. ASSUME NEW i \in Written("f"), i <= k
         PROVE  r.forwarders[Rank(i)] = Whole(i)
    <3>1. i <= c /\ i \in Int /\ c \in Int
      BY <1>1, <2>1, <2>10 DEF Current, Written
    <3>2. CASE i = c
      BY <2>6, <2>8, <2>9, <3>2 DEF list
    <3>3. CASE i < c
      <4>1. Rank(i) \in Nat /\ 1 <= Rank(i) /\ Rank(i) <= Rank(c) - 1
        BY <2>1, <3>3, Ranks
      <4>2. Rank(i) \in 1..Len(list)
        BY <2>9, <4>1
      <4>3. list[Rank(i)] = Whole(i)
        BY <1>1, <3>3 DEF list
      <4>. QED  BY <2>6, <2>8, <4>2, <4>3 DEF list
    <3>. QED  BY <3>1, <3>2, <3>3
  <2>11. Collected(k, r)
    BY <1>2, <1>4, <2>6, <2>8, <2>9, <2>10 DEF Collected, Wholes, list
  <2>. QED  BY <2>6, <2>7, <2>11 DEF r
<1>. QED  BY <1>3, <1>4

\* Nothing is known of a new forwarder but its address.
LEMMA NewPartial ==
    ASSUME Len(options) \in Nat, DOMAIN options = 1..Len(options),
           NEW k \in 0..(Len(options) - 1), NEW c, Current(k, c),
           options[k + 1].flag = "f"
    PROVE  Partial(k + 1, k + 1) =
             [NewForwarder EXCEPT !.remote = ParseServer(options[k + 1].address, 853)]
<1>. DEFINE remote == ParseServer(options[k + 1].address, 853)
            no == FALSE
            some == Upto(k + 1, k + 1, "i") # {}
            host == LastText(Upto(k + 1, k + 1, "h"))
            pin == LastText(Upto(k + 1, k + 1, "p"))
<1>1. \A flag : Upto(k + 1, k + 1, flag) = {}
  BY Begins
<1>2. LastText({}) = NotSet
  BY DEF LastText
<1>3. some = no /\ host = NotSet /\ pin = NotSet
  BY <1>1, <1>2
<1>4. k + 1 # 0
  OBVIOUS
<1>5. remote = IF k + 1 = 0 THEN NoAddress ELSE ParseServer(options[k + 1].address, 853)
  BY <1>4
<1>6. Partial(k + 1, k + 1) =
        [remote |-> IF k + 1 = 0 THEN NoAddress ELSE ParseServer(options[k + 1].address, 853),
         disablePki |-> some, host |-> host, pin |-> pin]
  BY Zenon DEF Partial
<1>7. NewForwarder =
        [remote |-> NoAddress, disablePki |-> no, host |-> NotSet, pin |-> NotSet]
  BY DEF NewForwarder
<1>. HIDE DEF remote, no, some, host, pin
<1>8. Partial(k + 1, k + 1) =
        [remote |-> remote, disablePki |-> no, host |-> NotSet, pin |-> NotSet]
  BY <1>3, <1>5, <1>6
<1>9. [NewForwarder EXCEPT !.remote = remote] =
        [remote |-> remote, disablePki |-> no, host |-> NotSet, pin |-> NotSet]
  BY <1>7
<1>. QED  BY <1>8, <1>9 DEF remote

\* One pass over a `-f'.
LEMMA PassBegins ==
    ASSUME Len(options) \in Nat, DOMAIN options = 1..Len(options),
           \A i \in DOMAIN options : Shaped(options[i]),
           NEW k \in 0..(Len(options) - 1), NEW c, NEW p, Describes(k, c, p), p.valid,
           options[k + 1].flag = "f"
    PROVE  Describes(k + 1, k + 1, ParseOption(p, options[k + 1]))
<1>. DEFINE o == options[k + 1]
            r == PushForwarder(p)
            q == ParseOption(p, o)
            remote == ParseServer(o.address, 853)
<1>1. Current(k, c) /\ WellFormedUpto(k, c) /\ k \in 0..Len(options)
      /\ k + 1 \in 1..Len(options)
  BY DEF Describes
<1>2. c \in Written("f") \cup {0} /\ c <= k
  BY <1>1 DEF Current
<1>3. Complete(k, c)
  <2>1. \A i \in Written("f") \cup {0}, flag \in {"h", "p", "i"} : i <= k =>
            /\ Upto(k + 1, i, flag) = Upto(k, i, flag)
            /\ About(i, flag) = Upto(k, i, flag)
    BY <1>1, Begins
  <2>. QED  BY <1>2, <2>1 DEF Complete
<1>4. /\ DOMAIN r = Fields /\ r.valid \in BOOLEAN
      /\ r.valid <=> Unused
      /\ r.valid => Collected(k, r)
  BY <1>1, <1>3, Pushed
<1>5. q = AddForwarder(r, o.address)
  BY DEF ParseOption
<1>6. remote # NoAddress <=> Taken(o.address)
  <2>1. o.address.brackets \in {"none", "closed", "unclosed"}
    BY <1>1 DEF Shaped
  <2>. HIDE DEF o
  <2>. QED  BY <2>1, AddressTaken
<1>7. OptionOK(o) <=> Taken(o.address)
  BY DEF OptionOK, AddressOK
<1>8. WellFormedUpto(k + 1, k + 1) <=> OptionOK(o) /\ Unused
  BY <1>1, WellFormedBegins
<1>9. Current(k + 1, k + 1) /\ k + 1 \in Written("f")
  BY <1>1, Begins
<1>10. Partial(k + 1, k + 1) = [NewForwarder EXCEPT !.remote = remote]
  BY <1>1, NewPartial
<1>12. /\ DOMAIN q = Fields /\ q.valid \in BOOLEAN
       /\ q.valid <=> Taken(o.address) /\ r.valid
       /\ q.valid => /\ q.partial = [r.partial EXCEPT !.remote = remote]
                     /\ q.forwarders = r.forwarders
  <2>. HIDE DEF r
  <2>1. CASE remote = NoAddress
    <3>1. q = [r EXCEPT !.valid = FALSE]
      BY <1>5, <2>1 DEF AddForwarder, Invalid
    <3>. HIDE DEF q, remote, o
    <3>. QED  BY <1>4, <1>6, <2>1, <3>1 DEF Fields
  <2>2. CASE remote # NoAddress
    <3>1. q = [r EXCEPT !.partial.remote = remote]
      BY <1>5, <2>2 DEF AddForwarder
    <3>. HIDE DEF q, remote, o
    <3>. QED  BY <1>4, <1>6, <2>2, <3>1 DEF Fields
  <2>. QED  BY <2>1, <2>2
<1>. HIDE DEF o, r, q, remote
<1>13. ASSUME q.valid
       PROVE  Holding(k + 1, k + 1, q)
  <2>1. /\ Collected(k, r) /\ q.forwarders = r.forwarders
        /\ q.partial = [r.partial EXCEPT !.remote = remote]
    BY <1>4, <1>12, <1>13
  <2>2. q.partial = Partial(k + 1, k + 1)
    BY <1>10, <2>1 DEF Collected
  <2>3. \A i \in Written("f") : i < k + 1 => i <= k
    BY DEF Written
  <2>4. Cardinality({m \in Written("f") : m <= k}) = Rank(k + 1) - 1
    <3>1. /\ Cardinality({m \in Written("f") : m <= k}) = IF c = 0 THEN 0 ELSE Rank(c)
          /\ Rank(k + 1) = (IF c = 0 THEN 0 ELSE Rank(c)) + 1
      BY <1>1, <1>9, NextRank
    <3>2. c # 0 => Rank(c) \in Nat
      BY <1>2, Ranks
    <3>. QED  BY <3>1, <3>2
  <2>5. k + 1 # 0
    OBVIOUS
  <2>. QED  BY <2>1, <2>2, <2>3, <2>4, <2>5 DEF Collected, Holding
<1>14. q.valid <=> WellFormedUpto(k + 1, k + 1)
  BY <1>4, <1>7, <1>8, <1>12
<1>15. Describes(k + 1, k + 1, q)
  BY <1>9, <1>12, <1>13, <1>14 DEF Describes
<1>. QED  BY <1>15 DEF q, o

\* A parser that is not valid stays so, and so does a command line.
LEMMA PassInvalid ==
    ASSUME Len(options) \in Nat, DOMAIN options = 1..Len(options),
           NEW k \in 0..(Len(options) - 1), NEW c, NEW p, Describes(k, c, p), ~p.valid
    PROVE  \E d : Describes(k + 1, d, p)
<1>1. Current(k, c) /\ ~WellFormedUpto(k, c) /\ DOMAIN p = Fields /\ p.valid \in BOOLEAN
  BY DEF Describes
<1>2. CASE options[k + 1].flag = "f"
  <2>1. Current(k + 1, k + 1) /\ ~WellFormedUpto(k + 1, k + 1)
    BY <1>1, <1>2, Begins, WellFormedBegins
  <2>2. Describes(k + 1, k + 1, p)
    BY <1>1, <2>1 DEF Describes
  <2>. QED  BY <2>2
<1>3. CASE options[k + 1].flag # "f"
  <2>1. Current(k + 1, c) /\ ~WellFormedUpto(k + 1, c)
    BY <1>1, <1>3, Joins, WellFormedJoins
  <2>2. Describes(k + 1, c, p)
    BY <1>1, <2>1 DEF Describes
  <2>. QED  BY <2>2
<1>. QED  BY <1>2, <1>3

\* Nothing is said before the first option.
LEMMA StartDescribed ==
    ASSUME Len(options) \in Nat, DOMAIN options = 1..Len(options)
    PROVE  Describes(0, 0, [NewParser EXCEPT !.partial.remote = NoAddress])
<1>. DEFINE p == [NewParser EXCEPT !.partial.remote = NoAddress]
<1>1. /\ DOMAIN p = Fields /\ p.valid = TRUE /\ p.forwarders = <<>>
      /\ p.partial = [remote |-> NoAddress, disablePki |-> FALSE, host |-> NotSet,
                      pin |-> NotSet]
  BY DEF NewParser, NewForwarder, Fields
<1>. HIDE DEF p
<1>2. Current(0, 0)
  BY DEF Current, Written
<1>3. \A flag : Upto(0, 0, flag) = {}
  BY DEF Upto, About, Written
<1>4. Partial(0, 0) = p.partial
  <2>. DEFINE some == Upto(0, 0, "i") # {}
              host == LastText(Upto(0, 0, "h"))
              pin == LastText(Upto(0, 0, "p"))
  <2>1. LastText({}) = NotSet
    BY DEF LastText
  <2>2. some = FALSE /\ host = NotSet /\ pin = NotSet
    BY <1>3, <2>1
  <2>3. Partial(0, 0) =
          [remote |-> IF 0 = 0 THEN NoAddress ELSE ParseServer(options[0].address, 853),
           disablePki |-> some, host |-> host, pin |-> pin]
    BY Zenon DEF Partial
  <2>. HIDE DEF some, host, pin
  <2>. QED  BY <1>1, <2>2, <2>3
<1>5. WellFormedUpto(0, 0)
  <2>1. 1..0 = {} /\ \A i \in Written("f") : ~ (i <= 0)
    BY DEF Written
  <2>2. OneHost(0, 0)
    BY <1>3 DEF OneHost
  <2>. QED  BY <2>1, <2>2 DEF WellFormedUpto
<1>6. Holding(0, 0, p)
  <2>1. \A i \in Written("f") : ~ (i < 0)
    BY DEF Written
  <2>. QED  BY <1>1, <1>4, <2>1 DEF Holding
<1>7. Describes(0, 0, p)
  BY <1>1, <1>2, <1>5, <1>6 DEF Describes
<1>. QED  BY <1>7 DEF p

\* parseConfig() has understood the options when it has passed over them.
LEMMA PassedOver ==
    ASSUME Len(options) \in Nat, DOMAIN options = 1..Len(options),
           \A i \in DOMAIN options : Shaped(options[i])
    PROVE  \E c : Describes(Len(options), c,
                Passes([NewParser EXCEPT !.partial.remote = NoAddress], options))
<1>. DEFINE n == Len(options)
            start == [NewParser EXCEPT !.partial.remote = NoAddress]
            parsed == Passes(start, options)
<1>9. n \in Nat /\ DOMAIN options = 1..n
  OBVIOUS
<1>. HIDE DEF n, start, parsed
<1>10. \E run :
        /\ run[0] = start
        /\ \A k \in 0..(n - 1) : run[k + 1] = Pass(run[k], options[k + 1])
        /\ Passes(start, options) = run[n]
  BY <1>9, FoldRuns
<1>1. PICK run :
        /\ run[0] = start
        /\ \A k \in 0..(n - 1) : run[k + 1] = Pass(run[k], options[k + 1])
        /\ parsed = run[n]
  BY <1>10 DEF parsed
<1>2. Describes(0, 0, run[0])
  BY <1>1, StartDescribed DEF start
<1>3. ASSUME NEW k \in 0..(n - 1), \E c : Describes(k, c, run[k])
      PROVE  \E c : Describes(k + 1, c, run[k + 1])
  <2>1. PICK c : Describes(k, c, run[k])
    BY <1>3
  <2>2. run[k + 1] = Pass(run[k], options[k + 1])
    BY <1>1
  <2>3. Shaped(options[k + 1])
    <3>1. k + 1 \in 1..n
      BY <1>9
    <3>. QED  BY <1>9, <3>1
  <2>6. k \in 0..(Len(options) - 1)
    BY DEF n
  <2>4. CASE ~run[k].valid
    <3>1. run[k + 1] = run[k]
      BY <2>2, <2>4 DEF Pass
    <3>2. \E d : Describes(k + 1, d, run[k])
      BY <2>1, <2>4, <2>6, PassInvalid
    <3>. QED  BY <3>1, <3>2
  <2>5. CASE run[k].valid
    <3>1. run[k + 1] = ParseOption(run[k], options[k + 1])
      BY <2>2, <2>5 DEF Pass
    <3>2. CASE options[k + 1].flag = "f"
      <4>1. Describes(k + 1, k + 1, ParseOption(run[k], options[k + 1]))
        BY <2>1, <2>5, <2>6, <3>2, PassBegins
      <4>. QED  BY <3>1, <4>1
    <3>3. CASE options[k + 1].flag # "f"
      <4>1. Describes(k + 1, c, ParseOption(run[k], options[k + 1]))
        BY <2>1, <2>3, <2>5, <2>6, <3>3, PassJoins
      <4>. QED  BY <3>1, <4>1
    <3>. QED  BY <3>2, <3>3
  <2>. QED  BY <2>4, <2>5
<1>. DEFINE S == {k \in Nat : k <= n => \E c : Describes(k, c, run[k])}
<1>4. 0 \in S
  BY <1>2, <1>9
<1>5. ASSUME NEW k \in Nat, k \in S
      PROVE  k + 1 \in S
  <2>1. CASE k + 1 <= n
    <3>1. k \in 0..(n - 1) /\ k <= n
      BY <1>9, <2>1
    <3>2. \E c : Describes(k, c, run[k])
      BY <1>5, <3>1
    <3>3. \E c : Describes(k + 1, c, run[k + 1])
      BY <1>3, <3>1, <3>2
    <3>. QED  BY <3>3
  <2>2. CASE ~ (k + 1 <= n)
    BY <2>2
  <2>. QED  BY <2>1, <2>2
<1>6. Nat \subseteq S
  <2>. HIDE DEF S
  <2>. QED  BY <1>4, <1>5, Induction
<1>7. \E c : Describes(n, c, run[n])
  BY <1>6, <1>9
<1>8. \E c : Describes(n, c, parsed)
  BY <1>1, <1>7
<1>. QED  BY <1>8 DEF parsed, n, start

\* A command line is understood as it is meant.
LEMMA Understood ==
    ASSUME options \in CommandLines, leftOver \in BOOLEAN
    PROVE  ParsedAsWritten
<1>. DEFINE n == Len(options)
            start == [NewParser EXCEPT !.partial.remote = NoAddress]
            parsed == Passes(start, options)
            r == PushForwarder(parsed)
            p == CommandLine
<1>1. /\ n \in Nat /\ DOMAIN options = 1..n
      /\ \A i \in DOMAIN options : Shaped(options[i])
  BY CommandLinesAssumption DEF Shaped
<1>2. PICK c : Describes(n, c, parsed)
  BY <1>1, PassedOver
<1>3. p = IF leftOver THEN Invalid(r) ELSE r
  BY DEF CommandLine, ParseConfig, Passes
<1>. HIDE DEF parsed, r, p
<1>4. Current(n, c) /\ DOMAIN parsed = Fields /\ parsed.valid \in BOOLEAN
      /\ (parsed.valid <=> WellFormedUpto(n, c))
      /\ c \in Written("f") \cup {0}
  BY <1>2 DEF Describes, Current
<1>5. \A i, flag : About(i, flag) = Upto(n, i, flag)
  <2>1. \A i, flag : \A j \in About(i, flag) : j <= n
    BY <1>1 DEF About, Written
  <2>. QED  BY <2>1 DEF Upto
<1>6. (\A i \in Written("f") \cup {0} : i <= n => OneHost(n, i)) <=>
          \A i \in Written("f") \cup {0} : \A j, k \in About(i, "h") :
                j < k => options[j].text = NotSet
  <2>1. \A i \in Written("f") \cup {0} : i <= n
    BY <1>1 DEF Written
  <2>. QED  BY <1>5, <2>1 DEF OneHost
<1>7. WellFormed => ~leftOver /\ WellFormedUpto(n, c) /\ Unused
  <2>1. ASSUME WellFormed
        PROVE  \A i \in 1..n : OptionOK(options[i])
    <3>1. \A i \in Written("f") \cup Written("s") \cup Written("l") :
                Taken(options[i].address)
      BY <2>1 DEF WellFormed, IsAddress, Taken
    <3>2. \A i \in 1..n : AddressOK(options[i])
      BY <1>1, <3>1 DEF AddressOK, Written
    <3>. QED  BY <1>1, <2>1, <3>2 DEF WellFormed, OptionOK, Written
  <2>. QED  BY <1>6, <2>1 DEF WellFormed, WellFormedUpto, Unused
<1>8. ~leftOver /\ WellFormedUpto(n, c) /\ Unused /\ EndsWithBracket => WellFormed
  <2>1. ASSUME \A i \in 1..n : OptionOK(options[i]), EndsWithBracket
        PROVE  /\ \A i \in DOMAIN options :
                    options[i].flag \in {"f", "s", "l", "h", "p", "i", "t", "m", "c", "P", "d"}
               /\ \A i \in Written("f") \cup Written("s") \cup Written("l") :
                    IsAddress(options[i].address)
               /\ \A i \in Written("t") : 1 <= options[i].number /\ options[i].number <= 65535
               /\ \A i \in Written("m") : 1 <= options[i].number /\ options[i].number <= 6000
               /\ \A i \in Written("p") : options[i].text \in Pins \cup {NotSet}
    <3>1. \A i \in Written("f") \cup Written("s") \cup Written("l") :
                Taken(options[i].address)
      BY <1>1, <2>1 DEF OptionOK, AddressOK, Written
    <3>2. \A i \in Written("f") \cup Written("s") \cup Written("l") :
                IsAddress(options[i].address)
      BY <2>1, <3>1 DEF EndsWithBracket, IsAddress, Taken
    <3>. QED  BY <1>1, <2>1, <3>2 DEF OptionOK, Written
  <2>. QED  BY <1>6, <2>1 DEF WellFormed, WellFormedUpto, Unused
<1>9. CASE ~parsed.valid
  <2>1. DOMAIN r = Fields /\ r.valid = FALSE
    BY <1>4, <1>9 DEF r, PushForwarder, Fields
  <2>2. p.valid = FALSE
    BY <1>3, <2>1 DEF Invalid, Fields
  <2>3. ~WellFormed
    BY <1>4, <1>7, <1>9
  <2>. QED  BY <2>2, <2>3 DEF ParsedAsWritten, p
<1>10. CASE parsed.valid
  <2>1. Complete(n, c)
    BY <1>5 DEF Complete
  <2>2. /\ DOMAIN r = Fields /\ r.valid \in BOOLEAN
        /\ r.valid <=> Unused
        /\ r.valid => Collected(n, r)
    <3>1. n \in 0..Len(options)
      BY <1>1
    <3>. QED  BY <1>1, <1>2, <1>10, <2>1, <3>1, Pushed DEF r
  <2>3. p.valid <=> ~leftOver /\ r.valid
    BY <1>3, <2>2 DEF Invalid, Fields
  <2>4. (WellFormed => p.valid) /\ (p.valid /\ EndsWithBracket => WellFormed)
    BY <1>4, <1>7, <1>10, <1>8, <2>2, <2>3
  <2>5. ASSUME p.valid
        PROVE  /\ Len(p.forwarders) = Cardinality(Written("f"))
               /\ \A i \in Written("f") : p.forwarders[Rank(i)] = Whole(i)
    <3>1. p = r /\ Collected(n, r)
      BY <1>3, <2>2, <2>3, <2>5
    <3>2. \A i \in Written("f") : i <= n
      BY <1>1 DEF Written
    <3>3. {m \in Written("f") : m <= n} = Written("f")
      BY <3>2
    <3>. QED  BY <3>1, <3>2, <3>3 DEF Collected
  <2>. QED  BY <2>4, <2>5 DEF ParsedAsWritten, Rank, Whole, p
<1>. QED  BY <1>9, <1>10

(***************************************************************************)
(* parseConfig() and pushForwarder() accept every well-formed command      *)
(* line, refuse every other one but for text between a closing bracket and *)
(* a colon or the end, and make of those that they accept the forwarders   *)
(* that were written, in their order, each with its own host name, pin and *)
(* `-i'; for all command lines, however long.                              *)
(***************************************************************************)
THEOREM AsWritten == WatchSpec => []ParsedAsWritten
<1>1. WatchTypeOK => ParsedAsWritten
  BY Understood DEF WatchTypeOK
<1>. QED  BY <1>1, WatchTypeCorrect, PTL

=============================================================================
