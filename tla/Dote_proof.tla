----------------------------- MODULE Dote_proof -----------------------------
(***************************************************************************)
(* Proofs about the running proxy and the end of the process, for every    *)
(* number of requests, connections and descriptors: the loop, the          *)
(* dispatcher and the connections fit each other, whatever poll() reports, *)
(* however late a callback comes, and whenever the signal arrives.         *)
(***************************************************************************)
EXTENDS Lifecycle, ForwarderConnection_proof, TLAPS

-----------------------------------------------------------------------------
(* Sequences without repetition. *)

\* s has each member of S once.
Lists(s, S) ==
    /\ s \in Seq(S)
    /\ \A x \in S : \E i \in 1..Len(s) : s[i] = x
    /\ \A i, j \in 1..Len(s) : s[i] = s[j] => i = j

(***************************************************************************)
(* Iterating over a map of the loop meets each descriptor once: counting   *)
(* the smaller members numbers the members of a set from 0 without gaps.   *)
(***************************************************************************)
LEMMA AscendingLists ==
    ASSUME NEW S, IsFiniteSet(S), S \subseteq Nat
    PROVE  Lists(Ascending(S), S)
<1>. DEFINE n == Cardinality(S)
            Below(x) == {m \in S : m < x}
            rank == [x \in S |-> Cardinality(Below(x)) + 1]
<1>1. n \in Nat
  BY FS_CardinalityType
<1>2. ASSUME NEW x \in S
      PROVE  /\ IsFiniteSet(Below(x)) /\ Cardinality(Below(x)) \in 0..n - 1
  <2>1. Below(x) \in SUBSET (S \ {x})
    OBVIOUS
  <2>2. IsFiniteSet(S \ {x}) /\ Cardinality(S \ {x}) = n - 1
    BY FS_RemoveElement
  <2>. HIDE DEF Below
  <2>3. IsFiniteSet(Below(x)) /\ Cardinality(Below(x)) <= Cardinality(S \ {x})
    BY <2>1, <2>2, FS_Subset
  <2>4. Cardinality(Below(x)) \in Nat
    BY <2>3, FS_CardinalityType
  <2>. QED  BY <1>1, <2>2, <2>3, <2>4
<1>3. ASSUME NEW x \in S, NEW y \in S, x < y
      PROVE  Cardinality(Below(x)) < Cardinality(Below(y))
  <2>1. Below(x) \cup {x} \in SUBSET Below(y) /\ x \notin Below(x)
    <3>1. x \in Nat /\ y \in Nat /\ \A m \in S : m \in Nat
      OBVIOUS
    <3>2. ASSUME NEW m \in Below(x) \cup {x} PROVE m \in Below(y)
      BY <1>3, <3>1
    <3>3. x \notin Below(x)
      BY <3>1
    <3>. HIDE DEF Below
    <3>. QED  BY <3>2, <3>3
  <2>2. IsFiniteSet(Below(x)) /\ IsFiniteSet(Below(y))
    BY <1>2
  <2>. HIDE DEF Below
  <2>3. Cardinality(Below(x) \cup {x}) = Cardinality(Below(x)) + 1
    BY <2>1, <2>2, FS_AddElement
  <2>4. Cardinality(Below(x) \cup {x}) <= Cardinality(Below(y))
    BY <2>1, <2>2, FS_Subset
  <2>5. Cardinality(Below(x)) \in Nat /\ Cardinality(Below(y)) \in Nat
    BY <2>2, FS_CardinalityType
  <2>. QED  BY <2>3, <2>4, <2>5
<1>. HIDE DEF Below, n
<1>4. \A x \in S : rank[x] \in 1..n /\ rank[x] = Cardinality(Below(x)) + 1
  BY <1>1, <1>2
<1>5. \A x, y \in S : rank[x] = rank[y] => x = y
  <2>. SUFFICES ASSUME NEW x \in S, NEW y \in S, x # y PROVE rank[x] # rank[y]
    OBVIOUS
  <2>1. Cardinality(Below(x)) \in Int /\ Cardinality(Below(y)) \in Int
    BY <1>1, <1>2
  <2>2. x < y \/ y < x
    <3>1. x \in Nat /\ y \in Nat
      OBVIOUS
    <3>. QED  BY <3>1
  <2>3. Cardinality(Below(x)) # Cardinality(Below(y))
    BY <1>3, <2>1, <2>2
  <2>. QED  BY <1>4, <2>1, <2>3
<1>6. rank \in Surjection(S, 1..n)
  <2>1. rank \in [S -> 1..n]
    BY <1>4
  <2>. HIDE DEF rank
  <2>2. rank \in Injection(S, 1..n)
    BY <1>5, <2>1 DEF Injection, IsInjective
  <2>3. IsFiniteSet(1..n) /\ Cardinality(1..n) = n
    BY <1>1, FS_Interval
  <2>. QED  BY <2>2, <2>3, FS_Injection DEF n
<1>7. \A i \in 1..n : \E x \in S : Cardinality(Below(x)) = i - 1
  <2>. SUFFICES ASSUME NEW i \in 1..n PROVE \E x \in S : Cardinality(Below(x)) = i - 1
    OBVIOUS
  <2>1. PICK x \in S : rank[x] = i
    BY <1>6 DEF Surjection
  <2>2. Cardinality(Below(x)) \in Int
    BY <1>1, <1>2
  <2>. QED  BY <1>4, <2>1, <2>2
<1>. HIDE DEF rank
<1>8. Ascending(S) = [i \in 1..n |-> CHOOSE x \in S : Cardinality(Below(x)) = i - 1]
  BY DEF Ascending, Below, n
<1>9. \A i \in 1..n :
        Ascending(S)[i] \in S /\ Cardinality(Below(Ascending(S)[i])) = i - 1
  BY <1>7, <1>8
<1>. DEFINE a == Ascending(S)
<1>. HIDE DEF a
<1>10. a \in Seq(S) /\ Len(a) = n
  <2>1. a \in [1..n -> S]
    BY <1>8, <1>9 DEF a
  <2>. QED  BY <1>1, <2>1
<1>11. \A x \in S : \E i \in 1..n : a[i] = x
  <2>. SUFFICES ASSUME NEW x \in S PROVE \E i \in 1..n : a[i] = x
    OBVIOUS
  <2>1. rank[x] \in 1..n
    BY <1>4
  <2>2. PICK y \in S : y = a[rank[x]] /\ Cardinality(Below(y)) = rank[x] - 1
    BY <1>9, <2>1 DEF a
  <2>3. rank[y] = rank[x]
    BY <1>1, <1>4, <2>1, <2>2
  <2>. QED  BY <1>5, <2>1, <2>2, <2>3
<1>12. \A i, j \in 1..n : a[i] = a[j] => i = j
  <2>. SUFFICES ASSUME NEW i \in 1..n, NEW j \in 1..n, a[i] = a[j] PROVE i = j
    OBVIOUS
  <2>1. i - 1 = j - 1
    BY <1>9 DEF a
  <2>. QED  BY <1>1, <2>1
<1>. QED  BY <1>10, <1>11, <1>12 DEF Lists, a

(***************************************************************************)
(* A loop that skips some entries of a sequence keeps the others once.     *)
(***************************************************************************)
LEMMA EntriesAtLists ==
    ASSUME NEW T, NEW s \in Seq(T), NEW P \in SUBSET (1..Len(s)),
           \A i, j \in 1..Len(s) : s[i] = s[j] => i = j
    PROVE  Lists(EntriesAt(s, P), {s[i] : i \in P})
<1>. DEFINE a == Ascending(P)
            e == EntriesAt(s, P)
<1>1. Lists(a, P)
  <2>1. IsFiniteSet(1..Len(s))
    BY FS_Interval
  <2>2. IsFiniteSet(P)
    BY <2>1, FS_Subset
  <2>3. P \subseteq Nat
    OBVIOUS
  <2>. QED  BY <2>2, <2>3, AscendingLists
<1>2. e = [i \in DOMAIN a |-> s[a[i]]]
  BY DEF EntriesAt
<1>. HIDE DEF a, e
<1>3. /\ DOMAIN a = 1..Len(a) /\ Len(a) \in Nat
      /\ \A i \in 1..Len(a) : a[i] \in P
  BY <1>1 DEF Lists
<1>4. e \in Seq({s[i] : i \in P}) /\ Len(e) = Len(a)
  <2>1. e \in [1..Len(a) -> {s[i] : i \in P}]
    BY <1>2, <1>3
  <2>. QED  BY <1>3, <2>1
<1>5. \A x \in {s[i] : i \in P} : \E i \in 1..Len(e) : e[i] = x
  <2>. SUFFICES ASSUME NEW p \in P PROVE \E i \in 1..Len(e) : e[i] = s[p]
    OBVIOUS
  <2>1. PICK i \in 1..Len(a) : a[i] = p
    BY <1>1 DEF Lists
  <2>. QED  BY <1>2, <1>3, <1>4, <2>1
<1>6. \A i, j \in 1..Len(e) : e[i] = e[j] => i = j
  <2>. SUFFICES ASSUME NEW i \in 1..Len(e), NEW j \in 1..Len(e), e[i] = e[j]
                PROVE  i = j
    OBVIOUS
  <2>1. e[i] = s[a[i]] /\ e[j] = s[a[j]] /\ a[i] \in P /\ a[j] \in P
    BY <1>2, <1>3, <1>4
  <2>2. a[i] = a[j]
    BY <2>1
  <2>. QED  BY <1>1, <1>4, <2>2 DEF Lists
<1>. QED  BY <1>4, <1>5, <1>6 DEF Lists, e

(***************************************************************************)
(* Appending what is not there yet keeps a sequence free of repetition.    *)
(***************************************************************************)
LEMMA JoinedLists ==
    ASSUME NEW S, NEW T, NEW s, NEW t, Lists(s, S), Lists(t, T), S \cap T = {}
    PROVE  Lists(s \o t, S \cup T)
<1>. DEFINE u == s \o t
<1>1. s \in Seq(S) /\ t \in Seq(T) /\ Len(s) \in Nat /\ Len(t) \in Nat
  BY DEF Lists
<1>2. s \in Seq(S \cup T) /\ t \in Seq(S \cup T)
  BY <1>1
<1>3. /\ u \in Seq(S \cup T) /\ Len(u) = Len(s) + Len(t)
      /\ \A i \in 1..Len(u) :
            u[i] = IF i <= Len(s) THEN s[i] ELSE t[i - Len(s)]
  BY <1>2
<1>. HIDE DEF u
<1>4. \A x \in S \cup T : \E i \in 1..Len(u) : u[i] = x
  <2>. SUFFICES ASSUME NEW x \in S \cup T PROVE \E i \in 1..Len(u) : u[i] = x
    OBVIOUS
  <2>1. CASE x \in S
    <3>1. PICK i \in 1..Len(s) : s[i] = x
      BY <2>1 DEF Lists
    <3>2. i \in 1..Len(u) /\ u[i] = x
      BY <1>1, <1>3, <3>1
    <3>. QED  BY <3>2
  <2>2. CASE x \in T
    <3>1. PICK i \in 1..Len(t) : t[i] = x
      BY <2>2 DEF Lists
    <3>2. i + Len(s) \in 1..Len(u) /\ ~(i + Len(s) <= Len(s))
      BY <1>1, <1>3, <3>1
    <3>3. u[i + Len(s)] = t[(i + Len(s)) - Len(s)] /\ (i + Len(s)) - Len(s) = i
      BY <1>1, <1>3, <3>2
    <3>. QED  BY <3>1, <3>2, <3>3
  <2>. QED  BY <2>1, <2>2
<1>5. \A i, j \in 1..Len(u) : u[i] = u[j] => i = j
  <2>. SUFFICES ASSUME NEW i \in 1..Len(u), NEW j \in 1..Len(u), u[i] = u[j]
                PROVE  i = j
    OBVIOUS
  <2>1. \A k \in 1..Len(s) : s[k] \in S
    BY <1>1
  <2>2. \A k \in 1..Len(t) : t[k] \in T
    BY <1>1
  <2>3. i <= Len(s) <=> j <= Len(s)
    <3>1. i <= Len(s) => i \in 1..Len(s) /\ u[i] \in S
      BY <1>1, <1>3, <2>1
    <3>2. j <= Len(s) => j \in 1..Len(s) /\ u[j] \in S
      BY <1>1, <1>3, <2>1
    <3>3. ~(i <= Len(s)) => i - Len(s) \in 1..Len(t) /\ u[i] = t[i - Len(s)]
      BY <1>1, <1>3
    <3>4. ~(j <= Len(s)) => j - Len(s) \in 1..Len(t) /\ u[j] = t[j - Len(s)]
      BY <1>1, <1>3
    <3>. QED  BY <2>2, <3>1, <3>2, <3>3, <3>4
  <2>4. CASE i <= Len(s)
    <3>1. i \in 1..Len(s) /\ j \in 1..Len(s) /\ s[i] = s[j]
      BY <1>1, <1>3, <2>3, <2>4
    <3>. QED  BY <3>1 DEF Lists
  <2>5. CASE ~(i <= Len(s))
    <3>1. /\ i - Len(s) \in 1..Len(t) /\ j - Len(s) \in 1..Len(t)
          /\ t[i - Len(s)] = t[j - Len(s)]
      BY <1>1, <1>3, <2>3, <2>5
    <3>2. i - Len(s) = j - Len(s)
      BY <3>1 DEF Lists
    <3>. QED  BY <1>1, <3>2
  <2>. QED  BY <2>4, <2>5
<1>. QED  BY <1>3, <1>4, <1>5 DEF Lists, u

-----------------------------------------------------------------------------
(* Loop::populateFds() *)

PollSet == [fd : Handles, events : SUBSET {"POLLIN", "POLLOUT"}]

\* No two entries are for the same descriptor.
Distinct(s) == \A i, j \in 1..Len(s) : s[i].fd = s[j].fd => i = j

\* The descriptors that have a callback in one of the loop's maps.
Registered ==
    {h \in Handles : EventsOf(h) # {} \/ exceptFns[h] # NoRequest}

(***************************************************************************)
(* populateFds() makes a poll set of exactly what is registered, each      *)
(* descriptor once, from any earlier poll set.                             *)
(***************************************************************************)
LEMMA PopulateFdsExact ==
    ASSUME NEW old \in Seq(PollSet), Distinct(old)
    PROVE  /\ PopulateFds(old) \in Seq(PollSet)
           /\ Distinct(PopulateFds(old))
           /\ \A i \in 1..Len(PopulateFds(old)) :
                /\ PopulateFds(old)[i].fd \in Registered
                /\ PopulateFds(old)[i].events = EventsOf(PopulateFds(old)[i].fd)
           /\ \A h \in Registered :
                \E i \in 1..Len(PopulateFds(old)) : PopulateFds(old)[i].fd = h
<1>. DEFINE reads   == {h \in Handles : ~IsFree(readFns, h)}
            writes  == {h \in Handles : ~IsFree(writeFns, h)}
            excepts == {h \in Handles : exceptFns[h] # NoRequest}
            all     == reads \cup writes \cup excepts
            before  == [i \in DOMAIN old |-> old[i].fd]
            places  == {i \in DOMAIN old : old[i].fd \in all}
            kept    == EntriesAt(before, places)
            here    == {before[i] : i \in places}
            first   == Ascending(reads \ ToSet(kept))
            second  == Ascending(writes \ (reads \cup ToSet(kept)))
            third   == Ascending(excepts \ (reads \cup writes \cup ToSet(kept)))
            order   == kept \o first \o second \o third
            new     == PopulateFds(old)
<1>1. new = [i \in DOMAIN order |-> [fd |-> order[i], events |-> EventsOf(order[i])]]
  BY DEF PopulateFds
<1>2. all = Registered
  BY DEF Registered, EventsOf
<1>3. /\ before \in Seq(Handles) /\ Len(before) = Len(old)
      /\ DOMAIN old = 1..Len(old)
      /\ \A i \in 1..Len(old) : before[i] = old[i].fd
  <2>1. DOMAIN old = 1..Len(old) /\ Len(old) \in Nat
    OBVIOUS
  <2>2. ASSUME NEW i \in 1..Len(old) PROVE old[i].fd \in Handles
    <3>1. old[i] \in PollSet
      OBVIOUS
    <3>. QED  BY <3>1 DEF PollSet
  <2>3. before \in [1..Len(old) -> Handles]
    BY <2>1, <2>2
  <2>. QED  BY <2>1, <2>3
<1>4. Lists(kept, here) /\ here \subseteq all
  <2>1. \A i, j \in 1..Len(before) : before[i] = before[j] => i = j
    BY <1>3 DEF Distinct
  <2>2. places \in SUBSET (1..Len(before))
    BY <1>3
  <2>3. here \subseteq all
    BY <1>3
  <2>. HIDE DEF before, places
  <2>. QED  BY <1>3, <2>1, <2>2, <2>3, EntriesAtLists
<1>5. ToSet(kept) = here
  <2>. HIDE DEF kept, here
  <2>. QED  BY <1>4 DEF Lists, ToSet
<1>6. \A S \in SUBSET Handles : Lists(Ascending(S), S)
  <2>. SUFFICES ASSUME NEW S \in SUBSET Handles PROVE Lists(Ascending(S), S)
    OBVIOUS
  <2>1. IsFiniteSet(S)
    BY LoopAssumption, FS_Subset
  <2>2. S \subseteq Nat
    BY ConnectionAssumption
  <2>. QED  BY <2>1, <2>2, AscendingLists
<1>7. /\ Lists(first, reads \ here)
      /\ Lists(second, writes \ (reads \cup here))
      /\ Lists(third, excepts \ (reads \cup writes \cup here))
  <2>. HIDE DEF here, kept
  <2>. QED  BY <1>5, <1>6
<1>. HIDE DEF reads, writes, excepts, here, kept, first, second, third, before, places
<1>8. Lists(kept \o first, here \cup (reads \ here))
  BY <1>4, <1>7, JoinedLists
<1>9. Lists((kept \o first) \o second,
            (here \cup (reads \ here)) \cup (writes \ (reads \cup here)))
  <2>1. (here \cup (reads \ here)) \cap (writes \ (reads \cup here)) = {}
    OBVIOUS
  <2>. QED  BY <1>7, <1>8, <2>1, JoinedLists
<1>10. Lists(order, all)
  <2>. DEFINE A == (here \cup (reads \ here)) \cup (writes \ (reads \cup here))
              B == excepts \ (reads \cup writes \cup here)
  <2>1. A \cap B = {} /\ A \cup B = all
    BY <1>4
  <2>2. Lists(((kept \o first) \o second) \o third, A \cup B)
    <3>1. Lists((kept \o first) \o second, A) /\ Lists(third, B) /\ A \cap B = {}
      BY <1>7, <1>9, <2>1
    <3>. HIDE DEF A, B
    <3>. QED  BY <3>1, JoinedLists
  <2>. QED  BY <2>1, <2>2
<1>. HIDE DEF order, all
<1>11. /\ order \in Seq(Registered) /\ DOMAIN order = 1..Len(order)
       /\ Len(order) \in Nat
       /\ \A i \in 1..Len(order) : order[i] \in Registered
  BY <1>2, <1>10 DEF Lists
<1>12. \A h : EventsOf(h) \in SUBSET {"POLLIN", "POLLOUT"}
  BY DEF EventsOf
<1>. HIDE DEF new
<1>13. /\ Len(new) = Len(order)
       /\ new \in Seq(PollSet)
       /\ \A i \in 1..Len(order) :
            new[i].fd = order[i] /\ new[i].events = EventsOf(order[i])
  <2>1. Registered \subseteq Handles
    BY DEF Registered
  <2>2. new \in [1..Len(order) -> PollSet]
    BY <1>1, <1>11, <1>12, <2>1 DEF PollSet
  <2>. QED  BY <1>1, <1>11, <2>2
<1>14. Distinct(new)
  BY <1>10, <1>13 DEF Distinct, Lists
<1>15. \A h \in Registered : \E i \in 1..Len(new) : new[i].fd = h
  BY <1>2, <1>10, <1>13 DEF Lists
<1>. QED  BY <1>11, <1>13, <1>14, <1>15 DEF new

-----------------------------------------------------------------------------
(* The inductive invariant. *)

Times == {NoTimeout} \cup 0..Timeout

ReportedSet == [fd : Handles, revents : (SUBSET PollEvents) \ {{}},
              holder : Requests \cup {NoRequest}]

\* An entry that has yet to be read from was reported for the socket that its
\* descriptor still is, or for a listening socket.
StillHeld(entry, conns) ==
    "POLLIN" \in entry.revents =>
        IF entry.holder = NoRequest
        THEN entry.fd \in Listening
        ELSE conns[entry.holder].handle = entry.fd

\* Loop::run(), between two polls and in one.
LoopOK ==
    /\ pc \in {"poll", "dispatch", "read timeouts", "write timeouts"}
    /\ fds \in Seq(PollSet)
    /\ Distinct(fds)
    /\ pollLeft \in Times
    /\ todo \in Seq(ReportedSet)
    /\ Distinct(todo)
    /\ pc # "dispatch" => todo = <<>>
    /\ \A i \in 1..Len(todo) : StillHeld(todo[i], conn)
    /\ excepted \subseteq Handles
    /\ earliest \in Times
    /\ earliestRead \in Times

\* ClientForwarders: m_forwarders has exactly the connections that are alive.
SlotsOK ==
    /\ queue \in Seq(Requests)
    /\ active \subseteq Requests
    /\ call \in {Idle, DequeueCall} \cup {SendCall(r) : r \in Requests}
    /\ answered \subseteq Requests
    /\ finished \subseteq Requests
    /\ \A r \in Requests : r \in active <=> conn[r].state \in Live
    /\ \A r \in Requests : r \in finished <=> conn[r].state = "CLOSED"

\* Loop::timeout(): what is left of the descriptors that an exception was
\* raised for is younger, and after the first map no reader is overdue.
ScanOK ==
    /\ pc \in {"read timeouts", "write timeouts"} =>
        \A c \in Requests :
            conn[c].state \in Live /\ conn[c].handle \in excepted =>
                conn[c].timeLeft > 0
    /\ pc = "write timeouts" =>
        \A c \in Requests : conn[c].read => conn[c].timeLeft > 0

(***************************************************************************)
(* The inductive invariant of the running proxy.  That a read reaches the  *)
(* socket it was reported for needs that every entry still to be read is   *)
(* held by who held it during poll(): a callback closes no descriptor but  *)
(* the one in hand, and the poll set names each descriptor once.           *)
(***************************************************************************)
ProxyInv == ConnInv /\ SlotsOK /\ LoopOK /\ ScanOK

-----------------------------------------------------------------------------
(* poll() and what is done with its result. *)

(***************************************************************************)
(* An entry of the loop's maps has no time or one within the timeout, and  *)
(* the callback of a listening socket is nobody's.                         *)
(***************************************************************************)
LEMMA EntriesOfMaps ==
    ASSUME ConnInv, NEW h \in Handles
    PROVE  /\ readFns[h].time \in Times
           /\ writeFns[h].time \in Times
           /\ readFns[h].callback = "listen" =>
                h \in Listening /\ readFns[h].owner = NoRequest
<1>1. /\ readFns[h].owner \in Requests \cup {NoRequest}
      /\ writeFns[h].owner \in Requests \cup {NoRequest}
  BY DEF ConnInv, MapOK, Registrations
<1>2. ASSUME NEW c \in Requests
      PROVE  /\ conn[c].timeLeft \in Times
             /\ Fits(c, conn[c], readFns, writeFns, exceptFns)
             /\ ReadCallbackIn(conn[c].state) # "listen"
  BY DEF ConnInv, Connections, Times, ReadCallbackIn
<1>3. readFns[h].time \in Times
  <2>1. CASE readFns[h].owner = NoRequest
    BY <2>1 DEF ConnInv, MapOK, Times
  <2>2. CASE readFns[h].owner \in Requests
    <3>1. PICK c \in Requests : readFns[h].owner = c
      BY <2>2
    <3>. QED  BY <1>2, <3>1 DEF Fits, Holds
  <2>. QED  BY <1>1, <2>1, <2>2
<1>4. writeFns[h].time \in Times
  <2>1. CASE writeFns[h].owner = NoRequest
    BY <2>1 DEF ConnInv, MapOK, Times
  <2>2. CASE writeFns[h].owner \in Requests
    <3>1. PICK c \in Requests : writeFns[h].owner = c
      BY <2>2
    <3>. QED  BY <1>2, <3>1 DEF Fits, Holds
  <2>. QED  BY <1>1, <2>1, <2>2
<1>5. readFns[h].callback = "listen" => h \in Listening /\ readFns[h].owner = NoRequest
  <2>1. CASE readFns[h].owner = NoRequest
    BY <2>1 DEF ConnInv, MapOK
  <2>2. CASE readFns[h].owner \in Requests
    <3>1. PICK c \in Requests : readFns[h].owner = c
      BY <2>2
    <3>. QED  BY <1>2, <3>1 DEF Fits, Holds
  <2>. QED  BY <1>1, <2>1, <2>2
<1>. QED  BY <1>3, <1>4, <1>5

(***************************************************************************)
(* timeout() computes a time within the timeout, or none.                  *)
(***************************************************************************)
LEMMA EarliestInRange ==
    ASSUME ConnInv, earliest \in Times, NEW S \in SUBSET Handles
    PROVE  EarliestOver(S) \in Times
<1>. DEFINE passed == {h \in S : ~IsFree(Scanned, h)}
            never  == {h \in passed : Scanned[h].time = NoTimeout}
            times  == {Scanned[h].time : h \in {g \in passed : \A n \in never : n < g}}
                        \cup (IF never = {} THEN {earliest} \ {NoTimeout} ELSE {})
<1>1. \A h \in Handles : Scanned[h].time \in Times
  BY EntriesOfMaps DEF Scanned
<1>2. times \subseteq 0..Timeout
  <2>1. ASSUME NEW g \in passed, \A n \in never : n < g
        PROVE  Scanned[g].time \in 0..Timeout
    <3>1. g \in Nat /\ ~(g < g)
      BY ConnectionAssumption
    <3>2. Scanned[g].time # NoTimeout
      BY <2>1, <3>1
    <3>. QED  BY <1>1, <3>2 DEF Times
  <2>. QED  BY <2>1 DEF Times
<1>3. EarliestOver(S) = IF times = {} THEN NoTimeout ELSE Min(times)
  BY DEF EarliestOver
<1>. HIDE DEF times
<1>4. CASE times = {}
  BY <1>3, <1>4 DEF Times
<1>5. CASE times # {}
  <2>1. times \in SUBSET Nat
    BY <1>2, ConnectionAssumption
  <2>2. \E m \in times : \A n \in times : m <= n
    BY <1>5, <2>1, LeastMember
  <2>3. Min(times) \in times
    BY <2>2 DEF Min
  <2>. QED  BY <1>2, <1>3, <1>5, <2>3 DEF Times
<1>. QED  BY <1>4, <1>5

(***************************************************************************)
(* The connection that holds a descriptor.                                 *)
(***************************************************************************)
LEMMA Holder ==
    ASSUME NEW h
    PROVE  /\ HolderOf(h) \in Requests \cup {NoRequest}
           /\ HolderOf(h) # NoRequest => conn[HolderOf(h)].handle = h
BY ConnectionAssumption DEF HolderOf

(***************************************************************************)
(* poll() reports some entries of the poll set, and readiness to read only *)
(* of descriptors that are open.                                           *)
(***************************************************************************)
LEMMA PollReports ==
    ASSUME ConnInv, LoopOK, Poll
    PROVE  /\ todo' \in Seq(ReportedSet)
           /\ Distinct(todo')
           /\ \A i \in 1..Len(todo') : StillHeld(todo'[i], conn)
<1>0. fds \in Seq(PollSet) /\ Distinct(fds)
  BY DEF LoopOK
<1>1. PICK revents \in [DOMAIN fds -> SUBSET {"POLLIN", "POLLOUT", "POLLERR"}] :
        /\ \A i \in DOMAIN fds : revents[i] \in Reports(fds[i])
        /\ todo' = EntriesAt(
              [i \in DOMAIN fds |->
                  [fd |-> fds[i].fd, revents |-> revents[i],
                   holder |-> HolderOf(fds[i].fd)]],
              {i \in DOMAIN fds : revents[i] # {}})
  BY DEF Poll
<1>. DEFINE T == [fd : Handles, revents : SUBSET PollEvents,
                  holder : Requests \cup {NoRequest}]
            all == [i \in DOMAIN fds |->
                     [fd |-> fds[i].fd, revents |-> revents[i],
                      holder |-> HolderOf(fds[i].fd)]]
            P == {i \in DOMAIN fds : revents[i] # {}}
            chosen == {all[i] : i \in P}
<1>2. DOMAIN fds = 1..Len(fds) /\ Len(fds) \in Nat
  BY <1>0
<1>3. ASSUME NEW i \in 1..Len(fds)
      PROVE  /\ fds[i].fd \in Handles
             /\ all[i].fd = fds[i].fd /\ all[i].revents = revents[i]
             /\ all[i].holder = HolderOf(fds[i].fd)
             /\ all[i] \in T
             /\ revents[i] # {} => all[i] \in ReportedSet
  <2>1. fds[i] \in PollSet
    BY <1>0
  <2>2. fds[i].fd \in Handles
    BY <2>1 DEF PollSet
  <2>3. all[i] = [fd |-> fds[i].fd, revents |-> revents[i],
                  holder |-> HolderOf(fds[i].fd)]
    BY <1>2
  <2>4. revents[i] \in SUBSET PollEvents
    BY <1>1, <1>2 DEF PollEvents
  <2>5. HolderOf(fds[i].fd) \in Requests \cup {NoRequest}
    BY Holder
  <2>6. all[i] \in T
    BY <2>2, <2>3, <2>4, <2>5
  <2>7. revents[i] # {} => all[i] \in ReportedSet
    <3>1. revents[i] # {} => revents[i] \in (SUBSET PollEvents) \ {{}}
      BY <2>4
    <3>. HIDE DEF all
    <3>. QED  BY <2>2, <2>3, <2>5, <3>1 DEF ReportedSet
  <2>8. /\ all[i].fd = fds[i].fd /\ all[i].revents = revents[i]
        /\ all[i].holder = HolderOf(fds[i].fd)
    BY <2>3
  <2>. QED  BY <2>2, <2>6, <2>7, <2>8
<1>4. all \in Seq(T) /\ Len(all) = Len(fds)
  <2>1. all \in [1..Len(fds) -> T]
    BY <1>2, <1>3
  <2>. QED  BY <1>2, <2>1
<1>5. \A i, j \in 1..Len(fds) : all[i] = all[j] => i = j
  <2>. HIDE DEF all
  <2>. QED  BY <1>0, <1>2, <1>3 DEF Distinct
<1>6. P \in SUBSET (1..Len(all))
  BY <1>2, <1>4
<1>7. Lists(todo', chosen)
  <2>1. todo' = EntriesAt(all, P)
    BY <1>1
  <2>. HIDE DEF all, P, T
  <2>. QED  BY <1>4, <1>5, <1>6, <2>1, EntriesAtLists
<1>8. ASSUME NEW i \in P PROVE StillHeld(all[i], conn)
  <2>1. i \in 1..Len(fds)
    BY <1>2
  <2>2. /\ all[i].fd = fds[i].fd /\ fds[i].fd \in Handles
        /\ all[i].revents = revents[i] /\ all[i].holder = HolderOf(fds[i].fd)
    BY <1>3, <2>1
  <2>3. revents[i] \in Reports(fds[i])
    BY <1>1
  <2>. HIDE DEF all, P
  <2>4. CASE "POLLIN" \in revents[i]
    <3>1. IsOpen(fds[i].fd)
      BY <2>3, <2>4 DEF Reports
    <3>2. HolderOf(fds[i].fd) # NoRequest \/ fds[i].fd \in Listening
      BY <2>2, <3>1, EntriesOfMaps DEF IsOpen
    <3>. QED  BY <2>2, <3>2, Holder DEF StillHeld
  <2>5. CASE "POLLIN" \notin revents[i]
    BY <2>2, <2>5 DEF StillHeld
  <2>. QED  BY <2>4, <2>5
<1>9. \A x \in chosen : x \in ReportedSet /\ StillHeld(x, conn)
  BY <1>2, <1>3, <1>8
<1>10. \A x, y \in chosen : x.fd = y.fd => x = y
  <2>. SUFFICES ASSUME NEW i \in P, NEW j \in P, all[i].fd = all[j].fd
                PROVE  all[i] = all[j]
    OBVIOUS
  <2>1. i \in 1..Len(fds) /\ j \in 1..Len(fds)
    BY <1>2
  <2>. HIDE DEF all, P
  <2>2. i = j
    BY <1>0, <1>2, <1>3, <2>1 DEF Distinct
  <2>. QED  BY <2>2
<1>. HIDE DEF chosen
<1>11. \A i \in 1..Len(todo') : todo'[i] \in chosen
  BY <1>7 DEF Lists
<1>12. todo' \in Seq(ReportedSet)
  <2>1. chosen \subseteq ReportedSet
    BY <1>9
  <2>. QED  BY <1>7, <2>1 DEF Lists
<1>13. Distinct(todo')
  BY <1>7, <1>10, <1>11 DEF Distinct, Lists
<1>. QED  BY <1>9, <1>11, <1>12, <1>13

(***************************************************************************)
(* Once the loop has looked at an event of the first entry it never comes  *)
(* back to that event, and the other entries stay as they were.            *)
(***************************************************************************)
LEMMA EventsGo ==
    ASSUME todo \in Seq(ReportedSet), Distinct(todo), todo # <<>>, EventDone
    PROVE  /\ todo' \in Seq(ReportedSet)
           /\ Distinct(todo')
           /\ Head(todo) \in ReportedSet
           /\ \A i \in 1..Len(todo') :
                \/ \E j \in 2..Len(todo) : todo'[i] = todo[j]
                \/ todo'[i].fd = Head(todo).fd /\ "POLLIN" \notin todo'[i].revents
<1>. DEFINE n == Len(todo)
            rest == Tail(todo)
            first == [Head(todo) EXCEPT !.revents = @ \ {NextEvent}]
<1>1. /\ n \in Nat \ {0} /\ DOMAIN todo = 1..n /\ Head(todo) = todo[1]
      /\ \A i \in 1..n : todo[i] \in ReportedSet
  OBVIOUS
<1>2. todo[1].revents \in (SUBSET PollEvents) \ {{}}
  BY <1>1 DEF ReportedSet
<1>3. NextEvent \in todo[1].revents
  BY <1>1, <1>2 DEF NextEvent, PollEvents
<1>4. CASE Head(todo).revents = {NextEvent}
  <2>1. todo' = rest
    BY <1>4 DEF EventDone
  <2>2. rest \in Seq(ReportedSet) /\ Len(rest) = n - 1
    BY <1>1
  <2>3. \A i \in 1..n - 1 : rest[i] = todo[i + 1] /\ i + 1 \in 2..n
    BY <1>1
  <2>. HIDE DEF rest
  <2>4. Distinct(rest)
    <3>. SUFFICES ASSUME NEW i \in 1..n - 1, NEW j \in 1..n - 1, rest[i].fd = rest[j].fd
                  PROVE  i = j
      BY <2>2 DEF Distinct
    <3>1. todo[i + 1].fd = todo[j + 1].fd /\ i + 1 \in 1..n /\ j + 1 \in 1..n
      BY <1>1, <2>3
    <3>2. i + 1 = j + 1
      BY <3>1 DEF Distinct
    <3>. QED  BY <1>1, <3>2
  <2>. QED  BY <1>1, <2>1, <2>2, <2>3, <2>4
<1>5. CASE Head(todo).revents # {NextEvent}
  <2>1. todo' = [todo EXCEPT ![1].revents = @ \ {NextEvent}]
    BY <1>5 DEF EventDone
  <2>2. todo' = [todo EXCEPT ![1] = first]
    <3>1. todo' = [todo EXCEPT ![1] = [todo[1] EXCEPT !.revents = @ \ {NextEvent}]]
      BY <1>1, <2>1
    <3>2. [todo[1] EXCEPT !.revents = @ \ {NextEvent}] = first
      BY <1>1
    <3>. HIDE DEF first
    <3>. QED  BY <3>1, <3>2
  <2>3. first.revents = todo[1].revents \ {NextEvent} /\ first.fd = todo[1].fd
    BY <1>1 DEF ReportedSet
  <2>4. first.revents \in (SUBSET PollEvents) \ {{}}
    <3>1. first.revents \in SUBSET PollEvents
      BY <1>2, <2>3
    <3>2. first.revents # {}
      BY <1>1, <1>3, <1>5, <2>3
    <3>. QED  BY <3>1, <3>2
  <2>5. first \in ReportedSet
    <3>. DEFINE r == first.revents
    <3>1. r \in (SUBSET PollEvents) \ {{}} /\ first = [todo[1] EXCEPT !.revents = r]
      BY <1>1, <2>3, <2>4
    <3>. HIDE DEF r, first
    <3>. QED  BY <1>1, <3>1 DEF ReportedSet
  <2>6. "POLLIN" \notin first.revents
    BY <1>1, <2>3 DEF NextEvent
  <2>. HIDE DEF first
  <2>7. /\ todo' \in Seq(ReportedSet) /\ Len(todo') = n
        /\ todo'[1] = first /\ \A i \in 2..n : todo'[i] = todo[i]
    <3>1. todo' \in [1..n -> ReportedSet]
      BY <1>1, <2>2, <2>5
    <3>2. todo' \in Seq(ReportedSet) /\ Len(todo') = n
      BY <1>1, <3>1
    <3>. QED  BY <1>1, <2>2, <3>2
  <2>8. \A i \in 1..n : todo'[i].fd = todo[i].fd
    BY <1>1, <2>3, <2>7
  <2>9. Distinct(todo')
    BY <2>7, <2>8 DEF Distinct
  <2>10. \A i \in 1..n : i = 1 \/ i \in 2..n
    BY <1>1
  <2>. QED  BY <1>1, <2>3, <2>6, <2>7, <2>9, <2>10
<1>. QED  BY <1>4, <1>5

-----------------------------------------------------------------------------
(* One step of the proxy, seen from the connections. *)

\* The loop has called a connection that holds the descriptor h.
Called(c, h) ==
    /\ Effect(c)
    /\ conn[c].handle = h
    /\ AfterCallback(c)
    /\ call = Idle
    /\ ConnNext

(***************************************************************************)
(* The loop dispatches an event to nobody, to a listening socket, or to    *)
(* the connection that holds the descriptor now.                           *)
(***************************************************************************)
LEMMA DispatchCases ==
    ASSUME ConnInv, LoopOK, DispatchRead \/ DispatchWrite \/ DispatchError
    PROVE  /\ Dispatching /\ EventDone
           /\ Head(todo).fd \in Handles
           /\ \/ UNCHANGED <<connVars, forwarderVars>>
              \/ /\ readFns[Head(todo).fd].callback = "listen"
                 /\ ListenCallback(Head(todo).fd)
              \/ \E c \in Requests : Called(c, Head(todo).fd)
<1>. DEFINE h == Head(todo).fd
<1>1. Dispatching /\ EventDone /\ call = Idle
  BY DEF DispatchRead, DispatchWrite, DispatchError, Dispatching
<1>2. h \in Handles
  <2>1. Head(todo) \in ReportedSet
    BY <1>1 DEF LoopOK, Dispatching
  <2>. QED  BY <2>1 DEF ReportedSet
<1>. HIDE DEF h
<1>3. ASSUME NEW c \in Requests, AfterCallback(c),
             ReadCallback(c, h) \/ WriteCallback(c, h) \/ RaiseException(c, h)
      PROVE  Called(c, h)
  <2>1. Effect(c) /\ conn[c].handle = h
    BY <1>2, <1>3, ReadEffect, WriteEffect, ExceptionEffect
  <2>. QED  BY <1>1, <1>2, <1>3, <2>1 DEF Called, ConnNext
<1>4. CASE DispatchRead
  BY <1>1, <1>2, <1>3, <1>4 DEF DispatchRead, h
<1>5. CASE DispatchWrite
  BY <1>1, <1>2, <1>3, <1>5 DEF DispatchWrite, h
<1>6. CASE DispatchError
  BY <1>1, <1>2, <1>3, <1>6 DEF DispatchError, h
<1>. QED  BY <1>4, <1>5, <1>6

(***************************************************************************)
(* Loop::timeout() ends one connection at a time.                          *)
(***************************************************************************)
LEMMA TimeoutCase ==
    ASSUME ConnInv, RaiseTimeout
    PROVE  \E h \in Handles, c \in Requests :
            /\ Called(c, h)
            /\ conn'[c].state = "CLOSED"
            /\ excepted' = excepted \cup {h}
<1>1. PICK h \in Handles, c \in Requests :
        /\ RaiseException(c, h)
        /\ AfterCallback(c)
        /\ excepted' = excepted \cup {h}
  BY DEF RaiseTimeout
<1>2. Effect(c) /\ conn[c].handle = h /\ conn'[c].state = "CLOSED"
  BY <1>1, ExceptionEffect
<1>3. Called(c, h)
  BY <1>1, <1>2 DEF RaiseTimeout, Scanning, Called, ConnNext
<1>. QED  BY <1>1, <1>2, <1>3

(***************************************************************************)
(* Every step of the proxy does to the connections what one operation of   *)
(* module ForwarderConnection does, or nothing.                            *)
(***************************************************************************)
LEMMA StepOfConnections ==
    ConnInv /\ LoopOK /\ [Next]_vars => [ConnNext]_connVars
<1>. SUFFICES ASSUME ConnInv, LoopOK, Next PROVE [ConnNext]_connVars
  BY DEF vars
<1>1. CASE Poll \/ EndDispatch \/ EndScan \/ Dequeue
  BY <1>1 DEF Poll, EndDispatch, EndScan, Dequeue
<1>2. CASE Wait
  BY <1>2 DEF Wait, ConnNext
<1>3. CASE DispatchRead \/ DispatchWrite \/ DispatchError
  <2>1. \/ UNCHANGED connVars
        \/ \E config \in Configs : SetForwarders(config)
        \/ \E c \in Requests : Called(c, Head(todo).fd)
    BY <1>3, DispatchCases DEF ListenCallback, ReloadConfiguration, HandleDnsRequest
  <2>. QED  BY <2>1 DEF Called, ConnNext
<1>4. CASE RaiseTimeout
  BY <1>4, TimeoutCase DEF Called
<1>5. ASSUME NEW r \in Requests, SendRequest(r) PROVE ConnNext
  BY <1>5 DEF SendRequest, ConnNext
<1>. QED  BY <1>1, <1>2, <1>3, <1>4, <1>5 DEF Next

-----------------------------------------------------------------------------
(* The slots of the dispatcher and the connections. *)

(***************************************************************************)
(* Nothing happens to the slots while connections stay in their states.    *)
(***************************************************************************)
LEMMA SlotsUnmoved ==
    ASSUME SlotsOK, UNCHANGED forwarderVars,
           \A r \in Requests : conn'[r].state = conn[r].state
    PROVE  SlotsOK'
BY DEF SlotsOK, forwarderVars

(***************************************************************************)
(* What the call of a connection did, to it and to no other.               *)
(***************************************************************************)
LEMMA CalledOne ==
    ASSUME ConnInv, NEW c \in Requests, NEW h, Called(c, h)
    PROVE  /\ \A d \in Requests \ {c} : conn'[d] = conn[d]
           /\ conn[c].state \in Live
           /\ conn'[c].state \in Live \cup {"CLOSED"}
           /\ conn'[c].state = "CLOSED" =>
                ~conn'[c].read /\ conn'[c].handle = NoHandle
           /\ h \in Handles \ Listening
           /\ \A d \in Requests \ {c} : conn[d].handle # h
           /\ \A g \in Listening : readFns'[g] = readFns[g]
<1>1. /\ conn' = [conn EXCEPT ![c] = conn'[c]] /\ conn[c].state \in Live
      /\ conn'[c].state # "NONE" /\ Outcome(c, h)
      /\ Fits(c, conn'[c], readFns', writeFns', exceptFns')
  BY DEF Called, Effect, Outcome
<1>2. \A d \in Requests \ {c} : conn'[d] = conn[d]
  BY <1>1 DEF ConnInv
<1>3. conn'[c].state \in Live \cup {"CLOSED"}
  BY <1>1 DEF Fits, Connections
<1>4. conn'[c].state = "CLOSED" => ~conn'[c].read /\ conn'[c].handle = NoHandle
  BY <1>1 DEF Fits, WithoutSocket, Live
<1>5. h \in Handles \ Listening /\ \A d \in Requests \ {c} : conn[d].handle # h
  BY <1>1, LiveReady DEF Called, OwnHandle
<1>6. \A g \in Listening : readFns'[g] = readFns[g]
  BY <1>1, <1>5, ConnectionAssumption DEF Outcome
<1>. QED  BY <1>1, <1>2, <1>3, <1>4, <1>5, <1>6

(***************************************************************************)
(* handleShutdown() frees the slot of exactly the connection that closed.  *)
(***************************************************************************)
LEMMA CalledSlots ==
    ASSUME ConnInv, SlotsOK, NEW c \in Requests, NEW h, Called(c, h)
    PROVE  SlotsOK'
<1>1. /\ \A d \in Requests \ {c} : conn'[d] = conn[d]
      /\ conn[c].state \in Live
      /\ conn'[c].state \in Live \cup {"CLOSED"}
  BY CalledOne
<1>2. queue' = queue /\ answered' \in {answered, answered \cup {c}}
  BY DEF Called, AfterCallback
<1>3. "CLOSED" \notin Live
  BY DEF Live
<1>4. CASE conn'[c].state = "CLOSED"
  <2>1. active' = active \ {c} /\ finished' = finished \cup {c} /\ call' = DequeueCall
    BY <1>4 DEF Called, AfterCallback
  <2>. QED  BY <1>1, <1>2, <1>3, <1>4, <2>1 DEF SlotsOK
<1>5. CASE conn'[c].state # "CLOSED"
  <2>1. active' = active /\ finished' = finished /\ call' = call
    BY <1>5 DEF Called, AfterCallback
  <2>. QED  BY <1>1, <1>2, <1>3, <1>5, <2>1 DEF SlotsOK
<1>. QED  BY <1>4, <1>5

(***************************************************************************)
(* sendRequest() takes a slot for exactly the connection it made, unless   *)
(* that has closed already.                                                *)
(***************************************************************************)
LEMMA SendSlots ==
    ASSUME ConnInv, SlotsOK, NEW r \in Requests, SendRequest(r)
    PROVE  SlotsOK'
<1>1. /\ conn[r].state = "NONE" /\ conn' = [conn EXCEPT ![r] = conn'[r]]
      /\ conn'[r].state \in {"CONNECTING", "OPEN", "CLOSED"}
  BY ConstructEffect DEF SendRequest
<1>2. \A d \in Requests \ {r} : conn'[d] = conn[d]
  BY <1>1 DEF ConnInv
<1>3. queue' = queue /\ answered' = answered
  BY DEF SendRequest
<1>4. CASE conn'[r].state \in {"CONNECTING", "OPEN"}
  <2>1. active' = active \cup {r} /\ finished' = finished /\ call' = Idle
    BY <1>4 DEF SendRequest
  <2>2. conn'[r].state \in Live /\ conn'[r].state # "CLOSED"
    BY <1>4 DEF Live
  <2>. QED  BY <1>1, <1>2, <1>3, <2>1, <2>2 DEF SlotsOK
<1>5. CASE conn'[r].state = "CLOSED"
  <2>1. active' = active /\ finished' = finished \cup {r} /\ call' = DequeueCall
    BY <1>5 DEF SendRequest
  <2>2. conn'[r].state \notin Live /\ conn[r].state \notin Live
    BY <1>1, <1>5 DEF Live
  <2>. QED  BY <1>2, <1>3, <1>5, <2>1, <2>2 DEF SlotsOK
<1>. QED  BY <1>1, <1>4, <1>5

(***************************************************************************)
(* Every step of the proxy keeps the slots and the connections together.   *)
(***************************************************************************)
LEMMA SlotsStep == ConnInv /\ LoopOK /\ SlotsOK /\ [Next]_vars => SlotsOK'
<1>. SUFFICES ASSUME ConnInv, LoopOK, SlotsOK, [Next]_vars PROVE SlotsOK'
  OBVIOUS
<1>1. CASE UNCHANGED <<connVars, forwarderVars>>
  BY <1>1, SlotsUnmoved DEF connVars
<1>2. CASE Wait
  BY <1>2, SlotsUnmoved, TickKeeps DEF Wait
<1>3. ASSUME NEW r \in Requests, HandleRequest(r), UNCHANGED connVars PROVE SlotsOK'
  <2>1. conn' = conn /\ UNCHANGED <<active, answered, finished>>
    BY <1>3 DEF HandleRequest, connVars
  <2>2. \/ call' = SendCall(r) /\ queue' = queue
        \/ queue' = Append(queue, r) /\ call' = call
    BY <1>3 DEF HandleRequest
  <2>. QED  BY <2>1, <2>2 DEF SlotsOK
<1>4. ASSUME NEW config \in Configs, SetForwarders(config), UNCHANGED forwarderVars
      PROVE  SlotsOK'
  BY <1>4, SlotsUnmoved DEF SetForwarders
<1>5. CASE DispatchRead \/ DispatchWrite \/ DispatchError
  <2>1. \/ UNCHANGED <<connVars, forwarderVars>>
        \/ \E r \in Requests : HandleRequest(r) /\ UNCHANGED connVars
        \/ \E config \in Configs : SetForwarders(config) /\ UNCHANGED forwarderVars
        \/ \E c \in Requests : Called(c, Head(todo).fd)
    BY <1>5, DispatchCases DEF ListenCallback, ReloadConfiguration, HandleDnsRequest
  <2>. QED  BY <1>1, <1>3, <1>4, <2>1, CalledSlots
<1>6. CASE RaiseTimeout
  BY <1>6, TimeoutCase, CalledSlots
<1>7. CASE Dequeue
  <2>1. conn' = conn /\ UNCHANGED <<active, answered, finished>>
    BY <1>7 DEF Dequeue, connVars
  <2>2. \/ queue # <<>> /\ call' = SendCall(Head(queue)) /\ queue' = Tail(queue)
        \/ call' = Idle /\ queue' = queue
    BY <1>7 DEF Dequeue
  <2>3. queue # <<>> => Head(queue) \in Requests /\ Tail(queue) \in Seq(Requests)
    BY DEF SlotsOK
  <2>. QED  BY <2>1, <2>2, <2>3 DEF SlotsOK
<1>8. ASSUME NEW r \in Requests, SendRequest(r) PROVE SlotsOK'
  BY <1>8, SendSlots
<1>9. CASE Poll \/ EndDispatch \/ EndScan
  BY <1>1, <1>9 DEF Poll, EndDispatch, EndScan
<1>10. CASE UNCHANGED vars
  BY <1>1, <1>10 DEF vars
<1>. QED  BY <1>2, <1>5, <1>6, <1>7, <1>8, <1>9, <1>10 DEF Next

-----------------------------------------------------------------------------
(* The loop. *)

(***************************************************************************)
(* A callback leaves alone the descriptors that the loop has yet to read   *)
(* from.                                                                   *)
(***************************************************************************)
LEMMA DispatchHolds ==
    ASSUME ConnInv, LoopOK, DispatchRead \/ DispatchWrite \/ DispatchError
    PROVE  \A i \in 1..Len(todo') : StillHeld(todo'[i], conn')
<1>. SUFFICES ASSUME NEW i \in 1..Len(todo') PROVE StillHeld(todo'[i], conn')
  OBVIOUS
<1>. DEFINE h == Head(todo).fd
            e == todo'[i]
<1>1. Dispatching /\ EventDone
  BY DispatchCases
<1>2. todo \in Seq(ReportedSet) /\ Distinct(todo) /\ todo # <<>>
  BY <1>1 DEF LoopOK, Dispatching
<1>3. \/ \E j \in 2..Len(todo) : e = todo[j]
      \/ e.fd = h /\ "POLLIN" \notin e.revents
  BY <1>1, <1>2, EventsGo
<1>4. CASE "POLLIN" \notin e.revents
  BY <1>4 DEF StillHeld
<1>5. ASSUME NEW j \in 2..Len(todo), e = todo[j], "POLLIN" \in e.revents
      PROVE  StillHeld(e, conn')
  <2>1. /\ Len(todo) \in Nat /\ 1 \in 1..Len(todo) /\ j \in 1..Len(todo) /\ j # 1
        /\ Head(todo) = todo[1] /\ todo[j] \in ReportedSet
    BY <1>2
  <2>2. e.fd # h /\ e.holder \in Requests \cup {NoRequest}
    BY <1>2, <1>5, <2>1 DEF Distinct, ReportedSet
  <2>3. StillHeld(e, conn)
    BY <1>5, <2>1 DEF LoopOK
  <2>4. CASE e.holder = NoRequest
    BY <1>5, <2>3, <2>4 DEF StillHeld
  <2>5. CASE e.holder # NoRequest
    <3>1. e.holder \in Requests /\ conn[e.holder].handle = e.fd
      BY <1>5, <2>2, <2>3, <2>5 DEF StillHeld
    <3>2. conn'[e.holder] = conn[e.holder]
      <4>1. \/ conn' = conn
            \/ \E c \in Requests : Called(c, h)
        BY DispatchCases DEF connVars, ListenCallback, ReloadConfiguration,
                             HandleDnsRequest, SetForwarders
      <4>2. ASSUME NEW c \in Requests, Called(c, h) PROVE conn'[e.holder] = conn[e.holder]
        <5>1. conn[c].handle = h
          BY <4>2 DEF Called
        <5>2. e.holder \in Requests \ {c}
          BY <2>2, <3>1, <5>1
        <5>. HIDE DEF h, e
        <5>3. \A d \in Requests \ {c} : conn'[d] = conn[d]
          BY <4>2, CalledOne
        <5>. QED  BY <5>2, <5>3
      <4>. QED  BY <4>1, <4>2
    <3>3. conn'[e.holder].handle = e.fd
      BY <3>1, <3>2
    <3>. QED  BY <2>5, <3>3 DEF StillHeld
  <2>. QED  BY <2>4, <2>5
<1>. QED  BY <1>3, <1>4, <1>5

(***************************************************************************)
(* Every step of the proxy keeps the loop's own state in order.            *)
(***************************************************************************)
LEMMA LoopStep == ConnInv /\ LoopOK /\ SlotsOK /\ [Next]_vars => LoopOK'
<1>. SUFFICES ASSUME ConnInv, LoopOK, SlotsOK, [Next]_vars PROVE LoopOK'
  OBVIOUS
<1>1. NoTimeout \in Times /\ \A t \in Times : Elapsed(t) \in Times
  BY ConnectionAssumption DEF Times, NoTimeout, Elapsed
<1>2. CASE Poll
  <2>1. /\ todo' \in Seq(ReportedSet) /\ Distinct(todo')
        /\ \A i \in 1..Len(todo') : StillHeld(todo'[i], conn)
    BY <1>2, PollReports
  <2>2. /\ pc' = "dispatch" /\ pollLeft' = NoTimeout /\ conn' = conn
        /\ UNCHANGED <<fds, excepted, earliest, earliestRead>>
    BY <1>2 DEF Poll, connVars
  <2>3. \A i \in 1..Len(todo') : StillHeld(todo'[i], conn')
    BY <2>1, <2>2 DEF StillHeld
  <2>. QED  BY <1>1, <2>1, <2>2, <2>3 DEF LoopOK
<1>3. CASE Wait
  <2>1. todo = <<>> /\ pollLeft' \in Times
    BY <1>1, <1>3 DEF Wait, LoopOK
  <2>2. UNCHANGED <<pc, fds, todo, excepted, earliest, earliestRead>>
    BY <1>3 DEF Wait
  <2>3. \A i \in 1..Len(todo') : StillHeld(todo'[i], conn')
    BY <2>1, <2>2
  <2>. QED  BY <2>1, <2>2, <2>3 DEF LoopOK
<1>4. CASE DispatchRead \/ DispatchWrite \/ DispatchError
  <2>1. Dispatching /\ EventDone
    BY <1>4, DispatchCases
  <2>2. UNCHANGED <<pc, fds, pollLeft, excepted, earliest, earliestRead>>
    BY <2>1 DEF EventDone
  <2>3. todo \in Seq(ReportedSet) /\ Distinct(todo) /\ todo # <<>> /\ pc = "dispatch"
    BY <2>1 DEF LoopOK, Dispatching
  <2>4. todo' \in Seq(ReportedSet) /\ Distinct(todo')
    BY <2>1, <2>3, EventsGo
  <2>5. \A i \in 1..Len(todo') : StillHeld(todo'[i], conn')
    BY <1>4, DispatchHolds
  <2>. QED  BY <2>2, <2>3, <2>4, <2>5 DEF LoopOK
<1>5. CASE EndDispatch
  <2>1. fds' \in Seq(PollSet) /\ Distinct(fds')
    BY <1>5, PopulateFdsExact DEF EndDispatch, LoopOK
  <2>2. /\ pc' = "read timeouts" /\ excepted' = {} /\ earliest' = NoTimeout
        /\ todo = <<>> /\ UNCHANGED <<pollLeft, todo, earliestRead>>
    BY <1>5 DEF EndDispatch
  <2>3. \A i \in 1..Len(todo') : StillHeld(todo'[i], conn')
    <3>1. todo' = <<>>
      BY <2>2
    <3>. QED  BY <3>1
  <2>. QED  BY <1>1, <2>1, <2>2, <2>3 DEF LoopOK
<1>6. CASE RaiseTimeout
  <2>1. PICK h \in Handles :
          excepted' = excepted \cup {h} /\ earliest' = EarliestOver({g \in Handles : g < h})
    BY <1>6 DEF RaiseTimeout
  <2>2. earliest' \in Times /\ excepted' \subseteq Handles
    BY <2>1, EarliestInRange DEF LoopOK
  <2>3. todo = <<>> /\ UNCHANGED <<pc, fds, pollLeft, todo, earliestRead>>
    BY <1>6 DEF RaiseTimeout, Scanning, LoopOK
  <2>4. \A i \in 1..Len(todo') : StillHeld(todo'[i], conn')
    BY <2>3
  <2>. QED  BY <2>2, <2>3, <2>4 DEF LoopOK
<1>7. CASE EndScan
  <2>1. EarliestOver(Handles) \in Times
    BY EarliestInRange DEF LoopOK
  <2>2. /\ excepted' = {} /\ earliest' = NoTimeout /\ UNCHANGED <<fds, todo>>
        /\ todo = <<>>
        /\ pc' \in {"write timeouts", "poll"}
    BY <1>7 DEF EndScan, Scanning, LoopOK
  <2>3. earliestRead' \in Times /\ pollLeft' \in Times
    BY <1>1, <1>7, <2>1 DEF EndScan, LoopOK
  <2>4. \A i \in 1..Len(todo') : StillHeld(todo'[i], conn')
    <3>1. todo' = <<>>
      BY <2>2
    <3>. QED  BY <3>1
  <2>. QED  BY <1>1, <2>2, <2>3, <2>4 DEF LoopOK
<1>8. CASE Dequeue
  BY <1>8 DEF Dequeue, loopVars, connVars, LoopOK, StillHeld
<1>9. ASSUME NEW r \in Requests, SendRequest(r) PROVE LoopOK'
  <2>1. UNCHANGED loopVars
    BY <1>9 DEF SendRequest
  <2>2. conn[r].state = "NONE" /\ conn' = [conn EXCEPT ![r] = conn'[r]]
    BY <1>9, ConstructEffect DEF SendRequest
  <2>3. conn[r].handle = 0
    BY <2>2 DEF ConnInv, Fits, Live, WithoutSocket, NoHandle
  <2>4. ASSUME NEW i \in 1..Len(todo') PROVE StillHeld(todo'[i], conn')
    <3>. DEFINE e == todo[i]
    <3>1. e \in ReportedSet /\ StillHeld(e, conn)
      <4>1. todo' = todo /\ todo \in Seq(ReportedSet)
        BY <2>1 DEF loopVars, LoopOK
      <4>2. i \in 1..Len(todo)
        BY <4>1
      <4>3. todo[i] \in ReportedSet
        BY <4>1, <4>2
      <4>4. StillHeld(todo[i], conn)
        BY <4>2 DEF LoopOK
      <4>. QED  BY <4>3, <4>4
    <3>2. /\ e.fd \in Handles /\ e.holder \in Requests \cup {NoRequest}
      BY <3>1 DEF ReportedSet
    <3>3. e.fd # 0
      BY <3>2, ConnectionAssumption
    <3>. HIDE DEF e
    <3>4. CASE "POLLIN" \in e.revents /\ e.holder # NoRequest
      <4>1. e.holder \in Requests /\ conn[e.holder].handle = e.fd
        BY <3>1, <3>2, <3>4 DEF StillHeld
      <4>2. conn'[e.holder] = conn[e.holder]
        BY <2>2, <2>3, <3>3, <4>1 DEF ConnInv
      <4>3. StillHeld(e, conn')
        BY <3>4, <4>1, <4>2 DEF StillHeld
      <4>. QED  BY <2>1, <4>3 DEF e, loopVars
    <3>5. CASE ~("POLLIN" \in e.revents /\ e.holder # NoRequest)
      <4>1. StillHeld(e, conn')
        BY <3>1, <3>5 DEF StillHeld
      <4>. QED  BY <2>1, <4>1 DEF e, loopVars
    <3>. QED  BY <3>4, <3>5
  <2>. QED  BY <2>1, <2>4 DEF loopVars, LoopOK
<1>10. CASE UNCHANGED vars
  BY <1>10 DEF vars, loopVars, connVars, LoopOK, StillHeld
<1>. QED  BY <1>2, <1>3, <1>4, <1>5, <1>6, <1>7, <1>8, <1>9, <1>10 DEF Next

-----------------------------------------------------------------------------
(* Loop::timeout() *)

(***************************************************************************)
(* When a scan finds nothing more to raise, no connection waits by the     *)
(* scanned map with its time up.                                           *)
(***************************************************************************)
LEMMA ScanFindsOverdue ==
    ASSUME ConnInv, ScanOK, EndScan, NEW c \in Requests
    PROVE  /\ pc = "read timeouts" /\ conn[c].read => conn[c].timeLeft > 0
           /\ pc = "write timeouts" /\ conn[c].write => conn[c].timeLeft > 0
<1>. DEFINE k == conn[c]
            h == k.handle
            waits == (pc = "read timeouts" /\ k.read) \/ (pc = "write timeouts" /\ k.write)
<1>1. Fits(c, k, readFns, writeFns, exceptFns) /\ k.timeLeft \in 0..Timeout
  BY DEF ConnInv, Connections
<1>2. pc \in {"read timeouts", "write timeouts"} /\ \A g \in Handles : ~Overdue(g)
  BY DEF EndScan, Scanning
<1>. SUFFICES ASSUME waits PROVE k.timeLeft > 0
  OBVIOUS
<1>. HIDE DEF waits
<1>4. k.state \in Live
  <2>. SUFFICES ASSUME k.state \notin Live PROVE FALSE
    OBVIOUS
  <2>1. k.read = FALSE /\ k.write = FALSE
    BY <1>1 DEF Fits, WithoutSocket
  <2>. QED  BY <2>1 DEF waits
<1>5. h \in Handles /\ exceptFns[h] = c
  BY <1>1, <1>4 DEF Fits
<1>6. Scanned[h].time = k.timeLeft
  BY <1>1 DEF Fits, Scanned, waits
<1>7. h \in excepted => k.timeLeft > 0
  BY <1>2, <1>4 DEF ScanOK
<1>8. k.timeLeft = 0 => Overdue(h)
  <2>1. exceptFns[h] # NoRequest
    BY <1>5, ConnectionAssumption
  <2>2. k.timeLeft = 0 => h \notin excepted
    BY <1>7
  <2>. QED  BY <1>6, <2>1, <2>2 DEF Overdue
<1>9. k.timeLeft # 0 /\ k.timeLeft \in 0..Timeout
  BY <1>1, <1>2, <1>5, <1>8
<1>. QED  BY <1>9, ConnectionAssumption

(***************************************************************************)
(* Ending a connection whose time is up, and opening others with all their *)
(* time, bring the scan forward.                                           *)
(***************************************************************************)
LEMMA ScanStep == ConnInv /\ LoopOK /\ ScanOK /\ [Next]_vars => ScanOK'
<1>. SUFFICES ASSUME ConnInv, LoopOK, ScanOK, [Next]_vars PROVE ScanOK'
  OBVIOUS
<1>1. CASE Poll
  BY <1>1 DEF Poll, ScanOK
<1>2. CASE Wait
  BY <1>2 DEF Wait, ScanOK
<1>3. CASE DispatchRead \/ DispatchWrite \/ DispatchError
  <2>1. pc' = pc /\ pc = "dispatch"
    BY <1>3, DispatchCases DEF EventDone, Dispatching
  <2>. QED  BY <2>1 DEF ScanOK
<1>4. CASE EndDispatch
  BY <1>4 DEF EndDispatch, ScanOK
<1>5. CASE RaiseTimeout
  <2>1. PICK h \in Handles, c \in Requests :
          /\ Called(c, h) /\ conn'[c].state = "CLOSED"
          /\ excepted' = excepted \cup {h}
    BY <1>5, TimeoutCase
  <2>2. /\ \A d \in Requests \ {c} : conn'[d] = conn[d] /\ conn[d].handle # h
        /\ ~conn'[c].read
    BY <2>1, CalledOne
  <2>3. conn'[c].state \notin Live
    BY <2>1 DEF Live
  <2>4. pc' = pc
    BY <1>5 DEF RaiseTimeout
  <2>. QED  BY <2>1, <2>2, <2>3, <2>4 DEF ScanOK
<1>6. CASE EndScan
  <2>1. excepted' = {} /\ conn' = conn
    BY <1>6 DEF EndScan, connVars
  <2>2. CASE pc = "read timeouts"
    <3>1. \A c \in Requests : conn[c].read => conn[c].timeLeft > 0
      BY <1>6, <2>2, ScanFindsOverdue
    <3>. QED  BY <2>1, <3>1 DEF ScanOK
  <2>3. CASE pc # "read timeouts"
    <3>1. pc' = "poll"
      BY <1>6, <2>3 DEF EndScan
    <3>. QED  BY <3>1 DEF ScanOK
  <2>. QED  BY <2>2, <2>3
<1>7. CASE Dequeue
  BY <1>7 DEF Dequeue, loopVars, connVars, ScanOK
<1>8. ASSUME NEW r \in Requests, SendRequest(r) PROVE ScanOK'
  <2>1. /\ conn' = [conn EXCEPT ![r] = conn'[r]]
        /\ conn'[r].state = "CLOSED" \/ conn'[r].timeLeft = Timeout
        /\ ConnInv'
    BY <1>8, ConstructEffect DEF SendRequest
  <2>2. \A d \in Requests \ {r} : conn'[d] = conn[d]
    BY <2>1 DEF ConnInv
  <2>3. conn'[r].state = "CLOSED" => ~conn'[r].read /\ conn'[r].state \notin Live
    <3>1. Fits(r, conn'[r], readFns', writeFns', exceptFns')
      BY <2>1 DEF ConnInv
    <3>. QED  BY <3>1 DEF Fits, WithoutSocket, Live
  <2>4. Timeout > 0
    BY ConnectionAssumption
  <2>5. UNCHANGED loopVars
    BY <1>8 DEF SendRequest
  <2>. QED  BY <2>1, <2>2, <2>3, <2>4, <2>5 DEF ScanOK, loopVars
<1>9. CASE UNCHANGED vars
  BY <1>9 DEF vars, loopVars, connVars, ScanOK
<1>. QED  BY <1>1, <1>2, <1>3, <1>4, <1>5, <1>6, <1>7, <1>8, <1>9 DEF Next

-----------------------------------------------------------------------------

(***************************************************************************)
(* When listening begins there are no connections and nothing is due.      *)
(***************************************************************************)
LEMMA ProxyInitHolds == Init => ProxyInv
<1>. SUFFICES ASSUME Init PROVE ProxyInv
  OBVIOUS
<1>1. ConnInv
  BY ConnInitHolds DEF Init
<1>2. \A r \in Requests : conn[r].state = "NONE"
  BY DEF Init, ConnInit, WithoutSocket
<1>3. SlotsOK
  BY <1>2 DEF Init, SlotsOK, Live
<1>4. fds \in Seq(PollSet) /\ Distinct(fds)
  <2>1. <<>> \in Seq(PollSet) /\ Distinct(<<>>)
    BY DEF Distinct
  <2>. QED  BY <2>1, PopulateFdsExact DEF Init
<1>5. LoopOK
  <2>1. todo = <<>> /\ todo \in Seq(ReportedSet) /\ Distinct(todo)
    BY DEF Init, Distinct
  <2>2. \A i \in 1..Len(todo) : StillHeld(todo[i], conn)
    BY <2>1
  <2>. QED  BY <1>4, <2>1, <2>2 DEF Init, LoopOK, Times
<1>6. ScanOK
  BY DEF Init, ScanOK
<1>. QED  BY <1>1, <1>3, <1>5, <1>6 DEF ProxyInv

(***************************************************************************)
(* Every step of the proxy keeps the invariant.                            *)
(***************************************************************************)
LEMMA ProxyStepKeeps == ProxyInv /\ [Next]_vars => ProxyInv'
BY StepOfConnections, ConnStepKeeps, SlotsStep, LoopStep, ScanStep DEF ProxyInv

(***************************************************************************)
(* The inductive invariant holds in every instance of the proxy.           *)
(***************************************************************************)
THEOREM ProxyInvariant == Spec => []ProxyInv
  BY ProxyInitHolds, ProxyStepKeeps, PTL DEF Spec

(***************************************************************************)
(* The running proxy implements ForwarderConnection: the loop does to the  *)
(* connections nothing but what they have registered for, so that what is  *)
(* proved of ForwarderConnection holds of the proxy.                       *)
(***************************************************************************)
THEOREM ImplementsConnections == Spec => ConnSpec
<1>1. Init => ConnInit
  BY DEF Init
<1>2. ProxyInv /\ [Next]_vars => [ConnNext]_connVars
  BY StepOfConnections DEF ProxyInv
<1>. QED  BY <1>1, <1>2, ProxyInvariant, PTL DEF Spec, ConnSpec

(***************************************************************************)
(* The invariant gives every variable its type.                            *)
(***************************************************************************)
LEMMA Typed == ProxyInv => TypeOK
<1>1. ConnInv => ConnTypeOK
  BY DEF ConnInv, Fits, MapOK, ExceptsOK, ConnTypeOK
<1>. QED
  BY <1>1 DEF ProxyInv, SlotsOK, LoopOK, TypeOK, PollSet, ReportedSet, Times

(***************************************************************************)
(* Everything the proxy keeps has its type, and the connections have       *)
(* theirs.                                                                 *)
(***************************************************************************)
THEOREM ProxyTypeCorrect == Spec => []TypeOK
BY Typed, ProxyInvariant, PTL

(***************************************************************************)
(* A request holds a slot of the dispatcher exactly while its connection   *)
(* is alive, by whatever callback the connection ends.                     *)
(***************************************************************************)
THEOREM SlotsAgree == Spec => []SlotsAreConnections
<1>1. ProxyInv => SlotsAreConnections
  BY DEF ProxyInv, SlotsOK, SlotsAreConnections
<1>. QED  BY <1>1, ProxyInvariant, PTL

(***************************************************************************)
(* A read that poll() reported, and whose socket still belongs to the      *)
(* connection that had it, is that connection's; any other finds no read   *)
(* callback.                                                               *)
(***************************************************************************)
LEMMA ReadsReach == ProxyInv => ReadsReachTheirSocket
<1>. SUFFICES ASSUME ProxyInv, Dispatching, NextEvent = "POLLIN"
              PROVE  readFns[Head(todo).fd].owner \in {NoRequest, Head(todo).holder}
  BY DEF ReadsReachTheirSocket
<1>. DEFINE e == Head(todo)
            h == e.fd
<1>1. e \in ReportedSet /\ StillHeld(e, conn)
  <2>1. todo \in Seq(ReportedSet) /\ todo # <<>>
    BY DEF ProxyInv, LoopOK, Dispatching
  <2>2. 1 \in 1..Len(todo) /\ e = todo[1]
    BY <2>1
  <2>3. todo[1] \in ReportedSet
    BY <2>1, <2>2
  <2>4. StillHeld(todo[1], conn)
    BY <2>2 DEF ProxyInv, LoopOK
  <2>. HIDE DEF e
  <2>. QED  BY <2>2, <2>3, <2>4
<1>2. h \in Handles /\ e.holder \in Requests \cup {NoRequest} /\ "POLLIN" \in e.revents
  <2>1. e.revents \in (SUBSET PollEvents) \ {{}}
    BY <1>1 DEF ReportedSet
  <2>2. "POLLIN" \in e.revents
    BY <2>1 DEF NextEvent, PollEvents
  <2>. QED  BY <1>1, <2>2 DEF ReportedSet
<1>. HIDE DEF e, h
<1>3. ASSUME NEW c \in Requests, readFns[h].owner = c PROVE c = e.holder
  <2>1. Fits(c, conn[c], readFns, writeFns, exceptFns)
    BY DEF ProxyInv, ConnInv
  <2>2. conn[c].handle = h /\ conn[c].read
    BY <1>2, <1>3, <2>1 DEF Fits, Holds
  <2>3. conn[c].state \in Live
    BY <2>1, <2>2 DEF Fits, WithoutSocket
  <2>4. h \notin Listening /\ \A d \in Requests \ {c} : conn[d].handle # h
    BY <2>2, <2>3, LiveReady DEF ProxyInv, OwnHandle
  <2>. QED  BY <1>1, <1>2, <2>4 DEF StillHeld, h
<1>4. readFns[h].owner \in Requests \cup {NoRequest}
  BY <1>2 DEF ProxyInv, ConnInv, MapOK, Registrations
<1>. QED  BY <1>3, <1>4 DEF e, h

(***************************************************************************)
(* A connection reads only what poll() reported for its own socket, however *)
(* often descriptors are closed and opened again in a pass of the loop.    *)
(***************************************************************************)
THEOREM NoStaleReads == Spec => []ReadsReachTheirSocket
BY ReadsReach, ProxyInvariant, PTL

\* A step back to poll() is in time for every connection.
InTime ==
    pc # "poll" /\ pc' = "poll" =>
        \A c \in Requests : conn[c].state \in Live => conn[c].timeLeft > 0

(***************************************************************************)
(* The scan of the writes ends with no overdue write, and no read was      *)
(* overdue when it began.                                                  *)
(***************************************************************************)
LEMMA NoneOverdue == ProxyInv /\ [Next]_vars => [InTime]_vars
<1>. SUFFICES ASSUME ProxyInv, Next, pc # "poll", pc' = "poll",
                     NEW c \in Requests, conn[c].state \in Live
              PROVE  conn[c].timeLeft > 0
  BY DEF InTime
<1>1. EndScan /\ pc = "write timeouts"
  BY DEF Next, Poll, Wait, DispatchRead, DispatchWrite, DispatchError, EventDone,
         EndDispatch, RaiseTimeout, EndScan, Scanning, Dequeue, SendRequest, loopVars
<1>2. conn[c].read \/ conn[c].write
  BY DEF ProxyInv, ConnInv, Fits
<1>3. conn[c].read => conn[c].timeLeft > 0
  BY <1>1 DEF ProxyInv, ScanOK
<1>4. conn[c].write => conn[c].timeLeft > 0
  BY <1>1, ScanFindsOverdue DEF ProxyInv
<1>. QED  BY <1>2, <1>3, <1>4

(***************************************************************************)
(* The process never starts to wait with a connection whose time is up.    *)
(***************************************************************************)
THEOREM NothingLate == Spec => NothingOverdueAtPoll
BY NoneOverdue, ProxyInvariant, PTL DEF Spec, NothingOverdueAtPoll, InTime

-----------------------------------------------------------------------------
(* The poll set. *)

\* The poll set is what is registered, with the events that are.
FdsExact ==
    /\ \A i \in 1..Len(fds) : fds[i].fd \in Registered /\ fds[i].events = EventsOf(fds[i].fd)
    /\ \A h \in Registered : \E i \in 1..Len(fds) : fds[i].fd = h

(***************************************************************************)
(* The calls of the dispatcher are told apart by their function and        *)
(* argument.                                                               *)
(***************************************************************************)
LEMMA Calls ==
    /\ Idle.fn = "none" /\ DequeueCall.fn = "dequeue"
    /\ Idle # DequeueCall
    /\ \A r : /\ SendCall(r).fn = "sendRequest" /\ SendCall(r).request = r
              /\ SendCall(r) # Idle /\ SendCall(r) # DequeueCall
    /\ \A r, s : SendCall(r) = SendCall(s) => r = s
<1>1. /\ Idle.fn = "none" /\ DequeueCall.fn = "dequeue"
      /\ \A r : SendCall(r).fn = "sendRequest" /\ SendCall(r).request = r
  BY DEF Idle, DequeueCall, SendCall
<1>2. Idle # DequeueCall
  BY <1>1
<1>3. ASSUME NEW r PROVE SendCall(r) # Idle /\ SendCall(r) # DequeueCall
  BY <1>1
<1>4. ASSUME NEW r, NEW s, SendCall(r) = SendCall(s) PROVE r = s
  BY <1>1, <1>4
<1>. QED  BY <1>1, <1>2, <1>3, <1>4

(***************************************************************************)
(* populateFds() puts all of the registrations in the poll set, and        *)
(* nothing else.                                                           *)
(***************************************************************************)
LEMMA FdsBuilt == LoopOK /\ EndDispatch => FdsExact'
<1>. SUFFICES ASSUME LoopOK, EndDispatch PROVE FdsExact'
  OBVIOUS
<1>1. fds' = PopulateFds(fds) /\ UNCHANGED <<readFns, writeFns, exceptFns>>
  BY DEF EndDispatch, connVars
<1>2. fds \in Seq(PollSet) /\ Distinct(fds)
  BY DEF LoopOK
<1>3. /\ \A i \in 1..Len(fds') :
           fds'[i].fd \in Registered /\ fds'[i].events = EventsOf(fds'[i].fd)
      /\ \A h \in Registered : \E i \in 1..Len(fds') : fds'[i].fd = h
  BY <1>1, <1>2, PopulateFdsExact
<1>4. (\A h : EventsOf(h)' = EventsOf(h)) /\ Registered' = Registered
  BY <1>1 DEF EventsOf, Registered, IsFree
<1>. QED  BY <1>1, <1>3, <1>4 DEF FdsExact

(***************************************************************************)
(* Nothing is in the poll set twice.                                       *)
(***************************************************************************)
LEMMA ExactIsRegistered == LoopOK /\ FdsExact => PollSetIsRegistered
<1>. SUFFICES ASSUME LoopOK, FdsExact PROVE
      /\ ToSet(fds) = {[fd |-> h, events |-> EventsOf(h)] : h \in Registered}
      /\ \A i, j \in DOMAIN fds : fds[i].fd = fds[j].fd => i = j
  BY DEF PollSetIsRegistered, Registered
<1>1. fds \in Seq(PollSet) /\ DOMAIN fds = 1..Len(fds) /\ Distinct(fds)
  <2>1. fds \in Seq(PollSet) /\ Distinct(fds)
    BY DEF LoopOK
  <2>. QED  BY <2>1
<1>2. ASSUME NEW i \in 1..Len(fds)
      PROVE  fds[i] = [fd |-> fds[i].fd, events |-> EventsOf(fds[i].fd)]
  <2>1. fds[i] \in PollSet
    BY <1>1
  <2>2. fds[i] = [fd |-> fds[i].fd, events |-> fds[i].events]
    BY <2>1 DEF PollSet
  <2>. QED  BY <2>2 DEF FdsExact
<1>3. ToSet(fds) \subseteq {[fd |-> h, events |-> EventsOf(h)] : h \in Registered}
  BY <1>1, <1>2 DEF FdsExact, ToSet
<1>4. ASSUME NEW h \in Registered PROVE [fd |-> h, events |-> EventsOf(h)] \in ToSet(fds)
  <2>1. PICK i \in 1..Len(fds) : fds[i].fd = h
    BY DEF FdsExact
  <2>. QED  BY <1>1, <1>2, <2>1 DEF ToSet
<1>. QED  BY <1>1, <1>3, <1>4 DEF Distinct

\* A step that ends the dispatch leaves the poll set that is registered.
Exact == pc # "read timeouts" /\ pc' = "read timeouts" => PollSetIsRegistered'

(***************************************************************************)
(* No step but that of populateFds() ends the dispatch.                    *)
(***************************************************************************)
LEMMA BuiltExact == ProxyInv /\ ProxyInv' /\ [Next]_vars => Exact
<1>. SUFFICES ASSUME ProxyInv, ProxyInv', [Next]_vars,
                     pc # "read timeouts", pc' = "read timeouts"
              PROVE  PollSetIsRegistered'
  BY DEF Exact
<1>1. EndDispatch
  BY DEF Next, Poll, Wait, DispatchRead, DispatchWrite, DispatchError, EventDone,
         RaiseTimeout, EndScan, Dequeue, SendRequest, loopVars, vars
<1>2. FdsExact'
  BY <1>1, FdsBuilt DEF ProxyInv
<1>3. LoopOK' /\ FdsExact' => PollSetIsRegistered'
  BY ExactIsRegistered, PTL
<1>. QED  BY <1>2, <1>3 DEF ProxyInv

(***************************************************************************)
(* The poll set that a pass builds is exactly what is then registered,     *)
(* each descriptor once, from whatever poll set there was.                 *)
(***************************************************************************)
THEOREM PollSetAlwaysExact == Spec => PollSetExact
BY BuiltExact, ProxyInvariant, PTL DEF Spec, PollSetExact, Exact

-----------------------------------------------------------------------------
(* The dispatcher of the running proxy. *)

\* The connections that have been told to shut down.
Closing == {c \in active : conn[c].state = "SHUTTING_DOWN"}

\* What is proved of ClientForwarders, for the dispatcher of the proxy.
Serving == INSTANCE ClientForwarders_proof WITH closing <- Closing

(***************************************************************************)
(* The dispatcher of the proxy has the calls of ClientForwarders, and has  *)
(* received the same requests.                                             *)
(***************************************************************************)
LEMMA SameCalls ==
    /\ Serving!Idle = Idle /\ Serving!DequeueCall = DequeueCall
    /\ \A r : Serving!SendCall(r) = SendCall(r)
    /\ queue \in Seq(Requests) => Serving!Seen = Received
<1>1. /\ Serving!Idle = Idle /\ Serving!DequeueCall = DequeueCall
      /\ \A r : Serving!SendCall(r) = SendCall(r)
  BY DEF Serving!Idle, Serving!DequeueCall, Serving!SendCall, Idle, DequeueCall, SendCall
<1>2. ASSUME queue \in Seq(Requests) PROVE Serving!Seen = Received
  <2>1. DOMAIN queue = 1..Len(queue)
    BY <1>2
  <2>2. Serving!Queued = ToSet(queue)
    BY <2>1 DEF Serving!Queued, ToSet
  <2>. QED  BY <1>1, <2>2 DEF Serving!Seen, Received
<1>. QED  BY <1>1, <1>2

(***************************************************************************)
(* Serving is the dispatcher that Dote names.                              *)
(***************************************************************************)
LEMMA SameDispatcher ==
    /\ Serving!Init <=> Dispatcher!Init
    /\ Serving!Next <=> Dispatcher!Next
    /\ Serving!vars = Dispatcher!vars
<1>1. Serving!Init <=> Dispatcher!Init
  BY DEF Serving!Init, Dispatcher!Init, Serving!Idle, Dispatcher!Idle, Closing
<1>2. Serving!vars = Dispatcher!vars
  BY DEF Serving!vars, Dispatcher!vars, Closing
<1>3. /\ Serving!Idle = Dispatcher!Idle /\ Serving!DequeueCall = Dispatcher!DequeueCall
      /\ \A r : Serving!SendCall(r) = Dispatcher!SendCall(r)
  BY DEF Serving!Idle, Dispatcher!Idle, Serving!DequeueCall, Dispatcher!DequeueCall,
         Serving!SendCall, Dispatcher!SendCall
<1>4. Serving!Seen = Dispatcher!Seen
  BY DEF Serving!Seen, Dispatcher!Seen, Serving!Queued, Dispatcher!Queued,
         Serving!SendCall, Dispatcher!SendCall
<1>5. Serving!Dequeue <=> Dispatcher!Dequeue
  BY <1>3 DEF Serving!Dequeue, Dispatcher!Dequeue, Closing
<1>6. ASSUME NEW r
      PROVE  /\ Serving!HandleRequest(r) <=> Dispatcher!HandleRequest(r)
             /\ Serving!SendRequestAccepted(r) <=> Dispatcher!SendRequestAccepted(r)
             /\ Serving!SendRequestRefused(r) <=> Dispatcher!SendRequestRefused(r)
             /\ Serving!HandleShutdown(r) <=> Dispatcher!HandleShutdown(r)
             /\ Serving!HandleIncoming(r) <=> Dispatcher!HandleIncoming(r)
  <2>1. Serving!HandleRequest(r) <=> Dispatcher!HandleRequest(r)
    BY <1>3, <1>4 DEF Serving!HandleRequest, Dispatcher!HandleRequest, Closing,
                      Serving!Cardinality, Dispatcher!Cardinality
  <2>2. Serving!SendRequestAccepted(r) <=> Dispatcher!SendRequestAccepted(r)
    BY <1>3 DEF Serving!SendRequestAccepted, Dispatcher!SendRequestAccepted, Closing
  <2>3. Serving!SendRequestRefused(r) <=> Dispatcher!SendRequestRefused(r)
    BY <1>3 DEF Serving!SendRequestRefused, Dispatcher!SendRequestRefused, Closing
  <2>4. Serving!HandleShutdown(r) <=> Dispatcher!HandleShutdown(r)
    BY <1>3 DEF Serving!HandleShutdown, Dispatcher!HandleShutdown,
                Serving!Release, Dispatcher!Release, Closing
  <2>5. Serving!HandleIncoming(r) <=> Dispatcher!HandleIncoming(r)
    BY <1>3 DEF Serving!HandleIncoming, Dispatcher!HandleIncoming, Serving!Respond,
                Dispatcher!Respond, Serving!Release, Dispatcher!Release, Closing
  <2>. QED  BY <2>1, <2>2, <2>3, <2>4, <2>5
<1>7. Serving!Next <=> Dispatcher!Next
  BY <1>5, <1>6 DEF Serving!Next, Dispatcher!Next
<1>. QED  BY <1>1, <1>2, <1>7

(***************************************************************************)
(* A call of a connection is for the dispatcher the response, the end, or  *)
(* nothing.                                                                *)
(***************************************************************************)
LEMMA CalledServing ==
    ASSUME ConnInv, SlotsOK, NEW c \in Requests, NEW h, Called(c, h)
    PROVE  [Serving!Next]_(Serving!vars)
<1>1. /\ \A d \in Requests \ {c} : conn'[d] = conn[d]
      /\ conn[c].state \in Live
      /\ conn'[c].state \in Live \cup {"CLOSED"}
  BY CalledOne
<1>2. c \in active /\ active \subseteq Requests
  BY <1>1 DEF SlotsOK
<1>3. /\ call = Serving!Idle /\ queue' = queue
      /\ IF delivered'[c] > delivered[c]
         THEN answered' \in {answered, answered \cup {c}}
         ELSE answered' = answered
      /\ IF conn'[c].state = "CLOSED"
         THEN /\ active' = active \ {c} /\ finished' = finished \cup {c}
              /\ call' = Serving!DequeueCall
         ELSE active' = active /\ finished' = finished /\ call' = call
  BY SameCalls DEF Called, AfterCallback
<1>4. "CLOSED" # "SHUTTING_DOWN" /\ "OPEN" # "SHUTTING_DOWN"
  OBVIOUS
<1>5. conn'[c].state = "CLOSED" => Closing' = Closing \ {c}
  BY <1>1, <1>2, <1>3 DEF Closing
<1>6. CASE /\ conn[c].state = "OPEN" /\ delivered' = [delivered EXCEPT ![c] = @ + 1]
           /\ conn'[c].state \in {"SHUTTING_DOWN", "CLOSED"}
  <2>1. delivered'[c] > delivered[c]
    BY <1>6 DEF ConnInv
  <2>2. Serving!Respond(c)
    BY <1>3, <2>1 DEF Serving!Respond
  <2>3. c \in active \ Closing
    BY <1>2, <1>4, <1>6 DEF Closing
  <2>4. CASE conn'[c].state = "CLOSED"
    <3>1. Serving!Release(c)
      BY <1>3, <1>5, <2>4 DEF Serving!Release
    <3>. QED  BY <1>3, <2>2, <2>3, <3>1 DEF Serving!Next, Serving!HandleIncoming
  <2>5. CASE conn'[c].state = "SHUTTING_DOWN"
    <3>1. active' = active /\ finished' = finished /\ call' = call
      BY <1>3, <1>4, <2>5
    <3>2. Closing' = Closing \cup {c}
      BY <1>1, <1>2, <2>5, <3>1 DEF Closing
    <3>. QED  BY <1>3, <2>2, <2>3, <3>1, <3>2 DEF Serving!Next, Serving!HandleIncoming
  <2>. QED  BY <1>6, <2>4, <2>5
<1>7. CASE /\ delivered' = delivered
           /\ conn'[c].state = "SHUTTING_DOWN" => conn[c].state = "SHUTTING_DOWN"
  <2>1. answered' = answered
    <3>1. ~(delivered'[c] > delivered[c])
      BY <1>7 DEF ConnInv
    <3>. QED  BY <1>3, <3>1
  <2>2. CASE conn'[c].state = "CLOSED"
    <3>1. Serving!Release(c)
      BY <1>3, <1>5, <2>2 DEF Serving!Release
    <3>. QED  BY <1>2, <1>3, <2>1, <3>1 DEF Serving!Next, Serving!HandleShutdown
  <2>3. CASE conn'[c].state # "CLOSED"
    <3>1. active' = active /\ finished' = finished /\ call' = call
      BY <1>3, <2>3
    <3>2. conn[c].state = "SHUTTING_DOWN" => conn'[c].state = "SHUTTING_DOWN"
      BY <1>1, <2>3, Ranks DEF Called, Effect, Live
    <3>3. Closing' = Closing
      BY <1>1, <1>2, <1>7, <3>1, <3>2 DEF Closing
    <3>. QED  BY <1>3, <2>1, <3>1, <3>3 DEF Serving!vars
  <2>. QED  BY <2>2, <2>3
<1>. QED  BY <1>6, <1>7 DEF Called, Effect

(***************************************************************************)
(* Every step of the proxy is a step of the dispatcher, or none.           *)
(***************************************************************************)
LEMMA ServingStep == ConnInv /\ LoopOK /\ SlotsOK /\ [Next]_vars => [Serving!Next]_(Serving!vars)
<1>. SUFFICES ASSUME ConnInv, LoopOK, SlotsOK, [Next]_vars
              PROVE  [Serving!Next]_(Serving!vars)
  OBVIOUS
<1>1. ASSUME UNCHANGED forwarderVars, \A r \in Requests : conn'[r].state = conn[r].state
      PROVE  [Serving!Next]_(Serving!vars)
  <2>1. Closing' = Closing
    BY <1>1 DEF Closing, forwarderVars, SlotsOK
  <2>. QED  BY <1>1, <2>1 DEF Serving!vars, forwarderVars
<1>2. CASE UNCHANGED <<connVars, forwarderVars>>
  BY <1>1, <1>2 DEF connVars
<1>3. CASE Wait
  BY <1>1, <1>3, TickKeeps DEF Wait
<1>4. ASSUME NEW r \in Requests, HandleRequest(r), UNCHANGED connVars, call = Idle
      PROVE  Serving!Next
  <2>1. Closing' = Closing
    BY <1>4 DEF HandleRequest, connVars, Closing
  <2>2. Serving!Seen = Received
    BY SameCalls DEF SlotsOK
  <2>3. Serving!HandleRequest(r)
    BY <1>4, <2>1, <2>2, SameCalls
       DEF HandleRequest, Serving!HandleRequest, Serving!Cardinality, Cardinality
  <2>. QED  BY <2>3 DEF Serving!Next
<1>5. ASSUME NEW config \in Configs, SetForwarders(config), UNCHANGED forwarderVars
      PROVE  [Serving!Next]_(Serving!vars)
  BY <1>1, <1>5 DEF SetForwarders
<1>6. CASE DispatchRead \/ DispatchWrite \/ DispatchError
  <2>1. \/ UNCHANGED <<connVars, forwarderVars>>
        \/ \E r \in Requests : HandleRequest(r) /\ UNCHANGED connVars
        \/ \E config \in Configs : SetForwarders(config) /\ UNCHANGED forwarderVars
        \/ \E c \in Requests : Called(c, Head(todo).fd)
    BY <1>6, DispatchCases DEF ListenCallback, ReloadConfiguration, HandleDnsRequest
  <2>2. call = Idle
    BY <1>6, DispatchCases DEF Dispatching
  <2>. QED  BY <1>2, <1>4, <1>5, <2>1, <2>2, CalledServing
<1>7. CASE RaiseTimeout
  BY <1>7, TimeoutCase, CalledServing
<1>8. CASE Dequeue
  <2>1. Closing' = Closing
    BY <1>8 DEF Dequeue, connVars, Closing
  <2>. QED  BY <1>8, <2>1, SameCalls DEF Dequeue, Serving!Next, Serving!Dequeue
<1>9. ASSUME NEW r \in Requests, SendRequest(r) PROVE Serving!Next
  <2>1. /\ conn[r].state = "NONE" /\ conn' = [conn EXCEPT ![r] = conn'[r]]
        /\ conn'[r].state \in {"CONNECTING", "OPEN", "CLOSED"}
    BY <1>9, ConstructEffect DEF SendRequest
  <2>2. \A d \in Requests \ {r} : conn'[d] = conn[d]
    BY <2>1 DEF ConnInv
  <2>3. r \notin active /\ active \subseteq Requests
    BY <2>1 DEF SlotsOK, Live
  <2>4. active' \in {active, active \cup {r}}
    BY <1>9 DEF SendRequest
  <2>5. conn'[r].state # "SHUTTING_DOWN"
    BY <2>1
  <2>6. Closing' = Closing
    BY <2>2, <2>3, <2>4, <2>5 DEF Closing
  <2>7. Serving!SendRequestAccepted(r) \/ Serving!SendRequestRefused(r)
    BY <1>9, <2>6, SameCalls DEF SendRequest, Serving!SendRequestAccepted,
                                 Serving!SendRequestRefused
  <2>. QED  BY <2>7 DEF Serving!Next
<1>10. CASE Poll \/ EndDispatch \/ EndScan
  BY <1>2, <1>10 DEF Poll, EndDispatch, EndScan
<1>11. CASE UNCHANGED vars
  BY <1>2, <1>11 DEF vars
<1>. QED  BY <1>3, <1>6, <1>7, <1>8, <1>9, <1>10, <1>11 DEF Next

(***************************************************************************)
(* The proxy begins as its dispatcher does.                                *)
(***************************************************************************)
LEMMA DispatcherInit == Init => Dispatcher!Init
BY SameCalls DEF Init, Dispatcher!Init, Dispatcher!Idle, Idle

(***************************************************************************)
(* Every step of the proxy is one of its dispatcher, or none.              *)
(***************************************************************************)
LEMMA DispatcherStep == ProxyInv /\ [Next]_vars => [Dispatcher!Next]_(Dispatcher!vars)
<1>. SUFFICES ASSUME ProxyInv, [Next]_vars PROVE [Dispatcher!Next]_(Dispatcher!vars)
  OBVIOUS
<1>1. Serving!Next \/ UNCHANGED Serving!vars
  BY ServingStep DEF ProxyInv
<1>2. UNCHANGED Serving!vars => UNCHANGED Dispatcher!vars
  BY DEF Serving!vars, Dispatcher!vars, Closing
<1>. QED  BY <1>1, <1>2, SameDispatcher

(***************************************************************************)
(* With the loop, the descriptors and the connections in place of the free *)
(* choices, the dispatcher still does what ClientForwarders says.          *)
(***************************************************************************)
THEOREM ImplementsDispatcher == Spec => DispatcherSpec
BY DispatcherInit, DispatcherStep, ProxyInvariant, PTL DEF Spec, DispatcherSpec, Dispatcher!Spec

(***************************************************************************)
(* The whole proxy keeps the promise of RequestService to its clients, and *)
(* what is proved of the dispatcher alone: no request waits while there is *)
(* a slot, the limit on connections holds, and a request is in one place.  *)
(***************************************************************************)
THEOREM ProxyServes ==
    Spec => /\ Serving!ServiceSpec
            /\ [](Serving!WorkConserving /\ Serving!WithinLimit /\ Serving!OnePlace)
<1>1. MaxConnections \in Nat \ {0}
  BY LoopAssumption
<1>2. Spec => Serving!Spec
  <2>1. Init => Serving!Init
    BY SameCalls DEF Init, Serving!Init, Closing
  <2>2. ProxyInv /\ [Next]_vars => [Serving!Next]_(Serving!vars)
    BY ServingStep DEF ProxyInv
  <2>. QED  BY <2>1, <2>2, ProxyInvariant, PTL DEF Spec, Serving!Spec
<1>3. Serving!Spec => Serving!ServiceSpec
  BY <1>1, Serving!ImplementsService
<1>4. Serving!Spec => []Serving!WorkConserving
  BY <1>1, Serving!AlwaysWorkConserving
<1>5. Serving!Spec => []Serving!WithinLimit
  BY <1>1, Serving!AlwaysWithinLimit
<1>6. Serving!Spec => []Serving!OnePlace
  BY <1>1, Serving!AlwaysOnePlace
<1>. QED  BY <1>2, <1>3, <1>4, <1>5, <1>6, PTL

-----------------------------------------------------------------------------
(* Fail-over in the running proxy. *)

\* What is proved of ForwarderConfig, for the list of the proxy.
Fallback == INSTANCE ForwarderConfig_proof WITH
    chosen <- {conn[c].forwarder : c \in Requests} \ {NoForwarder}

(***************************************************************************)
(* The connections of the proxy use the forwarder list as ForwarderConfig  *)
(* says.                                                                   *)
(***************************************************************************)
THEOREM ProxyImplementsConfig == Spec => ConfigSpec
BY ImplementsConnections, ImplementsConfig, PTL

(***************************************************************************)
(* Provided that the addresses in each configuration are distinct, a new   *)
(* connection of the proxy goes to a forwarder that was reported bad only  *)
(* if all of them were since the configuration was loaded.                 *)
(***************************************************************************)
THEOREM ProxyFailsOver ==
    ASSUME Config!DistinctRemotes
    PROVE  Spec => []FailsOver
<1>1. Fallback!ConfigSpec => [](Fallback!ConfigTypeOK /\ Fallback!GoodBeforeBad)
  <2>1. Fallback!DistinctRemotes
    BY DEF Config!DistinctRemotes, Fallback!DistinctRemotes
  <2>. QED  BY <2>1, ConfigsAssumption, Fallback!FailOver
<1>2. Fallback!GoodBeforeBad => FailsOver
  BY DEF Fallback!GoodBeforeBad, FailsOver, Config!GoodBeforeBad, Fallback!Bad, Config!Bad
<1>3. ConfigSpec => Fallback!ConfigSpec
  <2>1. Config!ConfigInit => Fallback!ConfigInit
    BY DEF Config!ConfigInit, Fallback!ConfigInit
  <2>2. [Config!ConfigNext]_(Config!configVars) => [Fallback!ConfigNext]_(Fallback!configVars)
    <3>1. \A list, f : Config!Demote(list, f) = Fallback!Demote(list, f)
      BY DEF Config!Demote, Fallback!Demote, Config!Rotate, Fallback!Rotate,
             Config!IsFirstMatch, Fallback!IsFirstMatch
    <3>2. \A list : Config!Preferred(list) = Fallback!Preferred(list)
      BY DEF Config!Preferred, Fallback!Preferred
    <3>3. \A f : Config!Get(f) <=> Fallback!Get(f)
      BY <3>2 DEF Config!Get, Fallback!Get
    <3>4. \A f : Config!SetBad(f) <=> Fallback!SetBad(f)
      BY <3>1, <3>2 DEF Config!SetBad, Fallback!SetBad
    <3>5. \A config : Config!SetForwarders(config) <=> Fallback!SetForwarders(config)
      BY DEF Config!SetForwarders, Fallback!SetForwarders
    <3>6. Config!ConfigNext <=> Fallback!ConfigNext
      BY <3>3, <3>4, <3>5 DEF Config!ConfigNext, Fallback!ConfigNext
    <3>7. UNCHANGED Config!configVars => UNCHANGED Fallback!configVars
      BY DEF Config!configVars, Fallback!configVars
    <3>. QED  BY <3>6, <3>7
  <2>. QED  BY <2>1, <2>2, PTL DEF ConfigSpec, Config!ConfigSpec, Fallback!ConfigSpec
<1>. QED  BY <1>1, <1>2, <1>3, ProxyImplementsConfig, PTL

-----------------------------------------------------------------------------
(* The end of the process. *)

(***************************************************************************)
(* Taking the server sockets out of the loop leaves everything else as the *)
(* invariant says, whenever it happens.                                    *)
(***************************************************************************)
LEMMA StopKeeps ==
    ASSUME ProxyInv, StopListening, UNCHANGED <<forwarderVars, loopVars>>
    PROVE  ProxyInv'
<1>1. /\ readFns \in [Handles -> Registrations] /\ MapOK(readFns, Listening)
      /\ \A c \in Requests : Fits(c, conn[c], readFns, writeFns, exceptFns)
  BY DEF ProxyInv, ConnInv, MapOK
<1>2. UNCHANGED <<forwarders, reported, conn, writeFns, exceptFns, delivered>>
  BY DEF StopListening
<1>3. NotRegistered \in Registrations /\ NotRegistered.owner = NoRequest
      /\ NotRegistered.callback = "none" /\ NotRegistered.time = NoTimeout
  BY DEF NotRegistered, Registration, Registrations, Callbacks, NoTimeout
<1>4. /\ readFns' \in [Handles -> Registrations]
      /\ \A h \in Handles :
            readFns'[h] = IF h \in Listening \ {ConfigWatch} THEN NotRegistered ELSE readFns[h]
  BY <1>1, <1>3 DEF StopListening
<1>5. MapOK(readFns', Listening)
  BY <1>1, <1>3, <1>4 DEF MapOK
<1>6. ASSUME NEW c \in Requests PROVE Fits(c, conn[c], readFns', writeFns, exceptFns)
  <2>. DEFINE k == conn[c]
  <2>1. Fits(c, k, readFns, writeFns, exceptFns) /\ k \in Connections
    BY <1>1 DEF Fits
  <2>2. k.read => k.handle \in Handles \ Listening
    BY <2>1 DEF Fits, WithoutSocket
  <2>3. ASSUME NEW h \in Handles PROVE readFns'[h].owner = c <=> readFns[h].owner = c
    <3>1. CASE h \in Listening \ {ConfigWatch}
      <4>1. readFns[h].owner # c
        BY <2>1, <2>2, <3>1 DEF Fits, Holds
      <4>2. readFns'[h].owner = NoRequest
        BY <1>3, <1>4, <3>1
      <4>. QED  BY <4>1, <4>2, ConnectionAssumption
    <3>2. CASE h \notin Listening \ {ConfigWatch}
      BY <1>4, <3>2
    <3>. QED  BY <3>1, <3>2
  <2>4. Holds(c, readFns', k.handle, k.read)
    BY <2>1, <2>3 DEF Fits, Holds
  <2>5. k.read => readFns'[k.handle] = readFns[k.handle]
    BY <1>4, <2>2
  <2>. HIDE DEF k
  <2>6. Fits(c, k, readFns', writeFns, exceptFns)
    BY <2>1, <2>4, <2>5 DEF Fits
  <2>. QED  BY <2>6 DEF k
<1>7. ConnInv'
  BY <1>2, <1>5, <1>6 DEF ProxyInv, ConnInv
<1>8. SlotsOK'
  BY <1>2 DEF ProxyInv, SlotsOK, forwarderVars
<1>9. LoopOK'
  BY <1>2 DEF ProxyInv, LoopOK, loopVars, StillHeld
<1>10. ScanOK'
  BY <1>2 DEF ProxyInv, ScanOK, loopVars
<1>. QED  BY <1>7, <1>8, <1>9, <1>10 DEF ProxyInv

(***************************************************************************)
(* What the process does besides being a proxy.                            *)
(***************************************************************************)
LEMMA LifeCases ==
    ASSUME [LifeNext]_<<vars, lifeVars>>
    PROVE  \/ ended = "no" /\ (pc = "poll" => fds # <<>>) /\ Next /\ UNCHANGED lifeVars
           \/ UNCHANGED <<vars, disposition>> /\ (UNCHANGED ended \/ RunReturns \/ ended' = "killed")
           \/ /\ ended = "no"
              /\ StopListening /\ UNCHANGED <<forwarderVars, loopVars>>
              /\ ended' \in {ended, "interrupted"}
BY DEF LifeNext, ProxyStep, RunReturns, ShutdownHandler, Kill, lifeVars

(***************************************************************************)
(* The proxy's invariant holds until the process has ended.                *)
(***************************************************************************)
LEMMA LifeInvariant == LifeSpec => []ProxyInv
<1>1. LifeInit => ProxyInv
  BY ProxyInitHolds DEF LifeInit
<1>2. ProxyInv /\ [LifeNext]_<<vars, lifeVars>> => ProxyInv'
  <2>. SUFFICES ASSUME ProxyInv, [LifeNext]_<<vars, lifeVars>> PROVE ProxyInv'
    OBVIOUS
  <2>1. CASE [Next]_vars
    BY <2>1, ProxyStepKeeps
  <2>2. CASE StopListening /\ UNCHANGED <<forwarderVars, loopVars>>
    BY <2>2, StopKeeps
  <2>. QED  BY <2>1, <2>2, LifeCases
<1>. QED  BY <1>1, <1>2, PTL DEF LifeSpec

(***************************************************************************)
(* The dispatcher does not notice the signal: what is proved of            *)
(* ClientForwarders holds until the end.                                   *)
(***************************************************************************)
LEMMA LifeServes == LifeSpec => [](Serving!WorkConserving /\ Serving!WithinLimit)
<1>1. MaxConnections \in Nat \ {0}
  BY LoopAssumption
<1>2. LifeInit => Serving!Init
  BY SameCalls DEF LifeInit, Init, Serving!Init, Closing
<1>3. ProxyInv /\ [LifeNext]_<<vars, lifeVars>> => [Serving!Next]_(Serving!vars)
  <2>. SUFFICES ASSUME ProxyInv, [LifeNext]_<<vars, lifeVars>>
                PROVE  [Serving!Next]_(Serving!vars)
    OBVIOUS
  <2>1. CASE [Next]_vars
    BY <2>1, ServingStep DEF ProxyInv
  <2>2. CASE StopListening /\ UNCHANGED <<forwarderVars, loopVars>>
    BY <2>2 DEF StopListening, forwarderVars, Serving!vars, Closing
  <2>. QED  BY <2>1, <2>2, LifeCases
<1>4. LifeSpec => Serving!Spec
  BY <1>2, <1>3, LifeInvariant, PTL DEF LifeSpec, Serving!Spec
<1>5. Serving!Spec => []Serving!WorkConserving
  BY <1>1, Serving!AlwaysWorkConserving
<1>6. Serving!Spec => []Serving!WithinLimit
  BY <1>1, Serving!AlwaysWithinLimit
<1>. QED  BY <1>4, <1>5, <1>6, PTL

(***************************************************************************)
(* The proxy does as it should with the signal at any step of it, until    *)
(* the process ends: it keeps its types, slots are held by live            *)
(* connections, reads reach their socket, poll() is not called with an     *)
(* overdue connection, the poll set is what is registered when it is       *)
(* built, and the dispatcher is that of ClientForwarders.                  *)
(***************************************************************************)
THEOREM SafeUnderSignals ==
    LifeSpec => /\ [](TypeOK /\ SlotsAreConnections /\ ReadsReachTheirSocket)
                /\ NothingOverdueAtPoll
                /\ PollSetExact
                /\ DispatcherSpec
<1>1. ProxyInv => TypeOK /\ SlotsAreConnections /\ ReadsReachTheirSocket
  BY Typed, ReadsReach DEF ProxyInv, SlotsOK, SlotsAreConnections
<1>2. ProxyInv /\ ProxyInv' /\ [LifeNext]_<<vars, lifeVars>>
        => [InTime]_vars /\ Exact /\ [Dispatcher!Next]_(Dispatcher!vars)
  <2>. SUFFICES ASSUME ProxyInv, ProxyInv', [LifeNext]_<<vars, lifeVars>>
                PROVE  [InTime]_vars /\ Exact /\ [Dispatcher!Next]_(Dispatcher!vars)
    OBVIOUS
  <2>1. CASE [Next]_vars
    BY <2>1, NoneOverdue, BuiltExact, DispatcherStep
  <2>2. CASE StopListening /\ UNCHANGED <<forwarderVars, loopVars>>
    <3>1. pc' = pc
      BY <2>2 DEF loopVars
    <3>2. InTime /\ Exact
      BY <3>1 DEF InTime, Exact
    <3>3. UNCHANGED Dispatcher!vars
      BY <2>2 DEF StopListening, forwarderVars, Dispatcher!vars
    <3>. QED  BY <3>2, <3>3
  <2>. QED  BY <2>1, <2>2, LifeCases
<1>3. LifeInit => Dispatcher!Init
  BY DispatcherInit DEF LifeInit
<1>. QED
  BY <1>1, <1>2, <1>3, LifeInvariant, PTL
     DEF LifeSpec, NothingOverdueAtPoll, PollSetExact, InTime, Exact,
         DispatcherSpec, Dispatcher!Spec

-----------------------------------------------------------------------------
(* No request is taken after the signal. *)

\* Of the callbacks of listening sockets only the configuration watch's is left.
NobodyListens ==
    \A h \in Handles : readFns[h].callback = "listen" => h = ConfigWatch

StoppedOK == Stopped => NobodyListens

(***************************************************************************)
(* The proxy itself never registers the callback of a listening socket.    *)
(***************************************************************************)
LEMMA ListenersKept ==
    ASSUME ConnInv, ConnInv', LoopOK, [Next]_vars, NobodyListens
    PROVE  NobodyListens'
<1>1. ASSUME \A g \in Listening : readFns'[g].callback = readFns[g].callback
      PROVE  NobodyListens'
  <2>. SUFFICES ASSUME NEW h \in Handles, readFns'[h].callback = "listen" PROVE h = ConfigWatch
    BY DEF NobodyListens
  <2>1. h \in Listening
    <3>1. readFns'[h].owner \in Requests \cup {NoRequest}
      BY DEF ConnInv, MapOK, Registrations
    <3>2. CASE readFns'[h].owner = NoRequest
      BY <3>2 DEF ConnInv, MapOK
    <3>3. ASSUME NEW c \in Requests, readFns'[h].owner = c PROVE FALSE
      <4>1. Fits(c, conn'[c], readFns', writeFns', exceptFns')
        BY DEF ConnInv
      <4>2. readFns'[h].callback = ReadCallbackIn(conn'[c].state)
        BY <3>3, <4>1 DEF Fits, Holds
      <4>. QED  BY <4>2 DEF ReadCallbackIn
    <3>. QED  BY <3>1, <3>2, <3>3
  <2>. QED  BY <1>1, <2>1 DEF NobodyListens
<1>2. CASE readFns' = readFns
  BY <1>2 DEF NobodyListens
<1>3. CASE Wait
  <2>1. \A g \in Handles : readFns'[g].callback = readFns[g].callback
    <3>1. readFns \in [Handles -> Registrations]
      BY DEF ConnInv, MapOK
    <3>2. readFns' = [h \in Handles |-> [readFns[h] EXCEPT !.time = Elapsed(@)]]
      BY <1>3 DEF Wait, Tick
    <3>. QED  BY <3>1, <3>2 DEF Registrations
  <2>. QED  BY <1>1, <2>1, ConnectionAssumption
<1>4. ASSUME NEW c \in Requests, NEW h, Called(c, h) PROVE NobodyListens'
  BY <1>1, <1>4, CalledOne
<1>5. CASE DispatchRead \/ DispatchWrite \/ DispatchError
  <2>1. \/ readFns' = readFns
        \/ \E c \in Requests : Called(c, Head(todo).fd)
    BY <1>5, DispatchCases DEF ListenCallback, ReloadConfiguration, HandleDnsRequest,
                               SetForwarders, connVars
  <2>. QED  BY <1>2, <1>4, <2>1
<1>6. CASE RaiseTimeout
  BY <1>4, <1>6, TimeoutCase
<1>7. ASSUME NEW r \in Requests, SendRequest(r) PROVE NobodyListens'
  BY <1>1, <1>7, ConstructEffect DEF SendRequest
<1>8. CASE Poll \/ EndDispatch \/ EndScan \/ Dequeue \/ UNCHANGED vars
  BY <1>2, <1>8 DEF Poll, EndDispatch, EndScan, Dequeue, vars, connVars
<1>. QED  BY <1>3, <1>5, <1>6, <1>7, <1>8 DEF Next

(***************************************************************************)
(* While nobody listens, a step moves requests from one place to another   *)
(* and takes none.                                                         *)
(***************************************************************************)
LEMMA NothingTaken ==
    ASSUME ConnInv, LoopOK, SlotsOK, [Next]_vars, NobodyListens
    PROVE  Received' = Received
<1>1. ASSUME UNCHANGED forwarderVars PROVE Received' = Received
  BY <1>1 DEF forwarderVars, Received
<1>2. ASSUME NEW c \in Requests, NEW h, Called(c, h) PROVE Received' = Received
  <2>1. c \in active /\ call = Idle /\ queue' = queue
    BY <1>2, CalledOne DEF SlotsOK, Called, AfterCallback
  <2>2. \/ active' = active \ {c} /\ finished' = finished \cup {c} /\ call' = DequeueCall
        \/ UNCHANGED <<active, finished, call>>
    BY <1>2 DEF Called, AfterCallback
  <2>3. \A r : Idle # SendCall(r) /\ DequeueCall # SendCall(r)
    BY Calls
  <2>. QED  BY <2>1, <2>2, <2>3 DEF Received
<1>3. CASE DispatchRead \/ DispatchWrite \/ DispatchError
  <2>1. CASE readFns[Head(todo).fd].callback = "listen" /\ ListenCallback(Head(todo).fd)
    <3>1. Head(todo).fd = ConfigWatch
      BY <1>3, <2>1, DispatchCases DEF NobodyListens
    <3>. QED  BY <1>1, <2>1, <3>1 DEF ListenCallback, ReloadConfiguration
  <2>. QED  BY <1>1, <1>2, <1>3, <2>1, DispatchCases
<1>4. CASE RaiseTimeout
  BY <1>2, <1>4, TimeoutCase
<1>5. CASE Dequeue
  <2>1. UNCHANGED <<active, finished>> /\ call = DequeueCall /\ queue \in Seq(Requests)
    BY <1>5 DEF Dequeue, SlotsOK
  <2>2. \A r : Idle # SendCall(r) /\ DequeueCall # SendCall(r)
    BY Calls
  <2>3. CASE queue = <<>>
    <3>1. call' = Idle /\ queue' = queue
      BY <1>5, <2>3 DEF Dequeue
    <3>. QED  BY <2>1, <2>2, <3>1 DEF Received
  <2>4. CASE queue # <<>>
    <3>1. call' = SendCall(Head(queue)) /\ queue' = Tail(queue)
      BY <1>5, <2>4 DEF Dequeue
    <3>2. Head(queue) \in Requests /\ ToSet(queue) = {Head(queue)} \cup ToSet(Tail(queue))
      <4>. DEFINE n == Len(queue)
                  rest == Tail(queue)
      <4>1. /\ n \in Nat \ {0} /\ DOMAIN queue = 1..n /\ Head(queue) = queue[1]
            /\ DOMAIN rest = 1..n - 1 /\ \A i \in 1..n - 1 : rest[i] = queue[i + 1]
            /\ queue[1] \in Requests
        BY <2>1, <2>4
      <4>. HIDE DEF n, rest
      <4>2. \A i \in 1..n : i = 1 \/ (i - 1 \in 1..n - 1 /\ (i - 1) + 1 = i)
        BY <4>1
      <4>3. ASSUME NEW x \in ToSet(queue) PROVE x \in {Head(queue)} \cup ToSet(rest)
        <5>1. PICK i \in 1..n : x = queue[i]
          BY <4>1 DEF ToSet
        <5>2. ASSUME i # 1 PROVE queue[i] = rest[i - 1] /\ i - 1 \in DOMAIN rest
          <6>1. i - 1 \in 1..n - 1 /\ (i - 1) + 1 = i
            BY <4>2, <5>2
          <6>2. rest[i - 1] = queue[(i - 1) + 1]
            BY <4>1, <6>1
          <6>. QED  BY <4>1, <6>1, <6>2
        <5>. QED  BY <4>1, <5>1, <5>2 DEF ToSet
      <4>4. ASSUME NEW x \in ToSet(rest) PROVE x \in ToSet(queue)
        <5>1. PICK i \in 1..n - 1 : x = rest[i]
          BY <4>1 DEF ToSet
        <5>2. i + 1 \in 1..n
          BY <4>1
        <5>. QED  BY <4>1, <5>1, <5>2 DEF ToSet
      <4>5. 1 \in 1..n
        BY <4>1
      <4>6. Head(queue) \in ToSet(queue)
        BY <4>1, <4>5 DEF ToSet
      <4>. QED  BY <4>1, <4>3, <4>4, <4>6 DEF rest
    <3>3. {r \in Requests : call' = SendCall(r)} = {Head(queue)}
      BY <3>1, <3>2, Calls
    <3>4. {r \in Requests : call = SendCall(r)} = {}
      BY <2>1, <2>2
    <3>. QED  BY <2>1, <3>1, <3>2, <3>3, <3>4 DEF Received
  <2>. QED  BY <2>3, <2>4
<1>6. ASSUME NEW r \in Requests, SendRequest(r) PROVE Received' = Received
  <2>1. {s \in Requests : call = SendCall(s)} = {r}
    BY <1>6, Calls DEF SendRequest
  <2>2. {s \in Requests : call' = SendCall(s)} = {}
    BY <1>6, Calls DEF SendRequest
  <2>3. queue' = queue /\ active' \cup finished' = active \cup finished \cup {r}
    BY <1>6 DEF SendRequest
  <2>. QED  BY <2>1, <2>2, <2>3 DEF Received
<1>7. CASE Poll \/ Wait \/ EndDispatch \/ EndScan \/ UNCHANGED vars
  BY <1>1, <1>7 DEF Poll, Wait, EndDispatch, EndScan, vars
<1>. QED  BY <1>3, <1>4, <1>5, <1>6, <1>7 DEF Next

(***************************************************************************)
(* After the shutdown signal no request is taken, not even one whose       *)
(* arrival poll() had reported before it.                                  *)
(***************************************************************************)
THEOREM NoMoreTaken == LifeSpec => TakesNoMore
<1>. DEFINE NoneTaken == Stopped => Received' = Received
<1>1. LifeInit => StoppedOK
  BY DEF LifeInit, StoppedOK, Stopped
<1>2. ProxyInv /\ ProxyInv' /\ StoppedOK /\ [LifeNext]_<<vars, lifeVars>> => StoppedOK'
  <2>. SUFFICES ASSUME ProxyInv, ProxyInv', StoppedOK, [LifeNext]_<<vars, lifeVars>>, Stopped'
                PROVE  NobodyListens'
    BY DEF StoppedOK
  <2>1. CASE [Next]_vars /\ UNCHANGED disposition
    <3>1. NobodyListens
      BY <2>1 DEF StoppedOK, Stopped
    <3>. QED  BY <2>1, <3>1, ListenersKept DEF ProxyInv
  <2>2. CASE StopListening
    <3>1. \A h \in Handles : readFns[h].callback = "listen" => h \in Listening
      BY EntriesOfMaps DEF ProxyInv
    <3>2. \A h \in Handles :
            readFns'[h] = IF h \in Listening \ {ConfigWatch} THEN NotRegistered ELSE readFns[h]
      BY <2>2 DEF StopListening
    <3>3. NotRegistered.callback # "listen"
      BY DEF NotRegistered, Registration
    <3>. QED  BY <3>1, <3>2, <3>3 DEF NobodyListens
  <2>. QED  BY <2>1, <2>2, LifeCases DEF lifeVars
<1>3. ProxyInv /\ StoppedOK /\ [LifeNext]_<<vars, lifeVars>> => [NoneTaken]_<<vars, lifeVars>>
  <2>. SUFFICES ASSUME ProxyInv, StoppedOK, [LifeNext]_<<vars, lifeVars>>, Stopped
                PROVE  Received' = Received
    OBVIOUS
  <2>1. CASE [Next]_vars
    BY <2>1, NothingTaken DEF ProxyInv, StoppedOK
  <2>2. CASE UNCHANGED forwarderVars
    BY <2>2 DEF forwarderVars, Received
  <2>. QED  BY <2>1, <2>2, LifeCases
<1>. QED  BY <1>1, <1>2, <1>3, LifeInvariant, PTL DEF LifeSpec, TakesNoMore

-----------------------------------------------------------------------------
(* The end comes when the work is done. *)

\* From the moment populateFds() leaves the poll set empty, until the loop
\* looks at it.
DoneOK ==
    pc # "dispatch" /\ fds = <<>> => active = {} /\ queue = <<>> /\ call = Idle

(***************************************************************************)
(* An empty poll set means that no connection is left, and then nothing    *)
(* waits for a slot either; without connections timeout() has nothing to   *)
(* raise that could change this.                                           *)
(***************************************************************************)
LEMMA DoneStep ==
    ASSUME ProxyInv, Serving!WorkConserving, DoneOK, [Next]_vars
    PROVE  DoneOK'
<1>. SUFFICES ASSUME pc' # "dispatch", fds' = <<>>
              PROVE  active' = {} /\ queue' = <<>> /\ call' = Idle
  BY DEF DoneOK
<1>1. CASE Poll
  BY <1>1 DEF Poll
<1>2. CASE DispatchRead \/ DispatchWrite \/ DispatchError
  BY <1>2, DispatchCases DEF ProxyInv, Dispatching, EventDone
<1>3. CASE EndDispatch
  <2>1. fds' = PopulateFds(fds) /\ call = Idle /\ UNCHANGED forwarderVars
    BY <1>3 DEF EndDispatch
  <2>2. fds \in Seq(PollSet) /\ Distinct(fds)
    BY DEF ProxyInv, LoopOK
  <2>3. \A h \in Registered : \E i \in 1..Len(fds') : fds'[i].fd = h
    BY <2>1, <2>2, PopulateFdsExact
  <2>4. Len(fds') = 0
    OBVIOUS
  <2>5. Registered = {}
    BY <2>3, <2>4
  <2>6. ASSUME NEW c \in Requests, conn[c].state \in Live PROVE FALSE
    <3>1. conn[c].handle \in Handles /\ exceptFns[conn[c].handle] = c
      BY <2>6 DEF ProxyInv, ConnInv, Fits
    <3>. QED  BY <2>5, <3>1, ConnectionAssumption DEF Registered
  <2>7. active = {}
    BY <2>6 DEF ProxyInv, SlotsOK
  <2>8. queue = <<>>
    <3>1. Cardinality(active) = 0 /\ MaxConnections # 0
      BY <2>7, FS_EmptySet, LoopAssumption
    <3>. QED  BY <2>1, <3>1, SameCalls DEF Serving!WorkConserving, Serving!Cardinality, Cardinality
  <2>. QED  BY <2>1, <2>7, <2>8 DEF forwarderVars
<1>4. CASE RaiseTimeout
  <2>1. active = {}
    BY <1>4 DEF RaiseTimeout, DoneOK
  <2>2. \A c \in Requests : conn[c].state \notin Live
    BY <2>1 DEF ProxyInv, SlotsOK
  <2>. QED  BY <1>4, <2>2, TimeoutCase, CalledOne DEF ProxyInv
<1>5. CASE Wait \/ EndScan
  BY <1>5 DEF Wait, EndScan, Scanning, forwarderVars, DoneOK
<1>6. CASE Dequeue
  BY <1>6, Calls DEF Dequeue, loopVars, DoneOK
<1>7. ASSUME NEW r \in Requests, SendRequest(r) PROVE FALSE
  BY <1>7, Calls DEF SendRequest, loopVars, DoneOK
<1>8. CASE UNCHANGED vars
  BY <1>8 DEF vars, loopVars, forwarderVars, DoneOK
<1>. QED  BY <1>1, <1>2, <1>3, <1>4, <1>5, <1>6, <1>7, <1>8 DEF Next

(***************************************************************************)
(* The loop ends by itself only when there is nothing left to do: its poll *)
(* set was built before the timeouts that may have opened connections, and *)
(* the server sockets may have left it at any moment.                      *)
(***************************************************************************)
THEOREM DrainedWhenDone == LifeSpec => []DrainsFirst
<1>1. LifeInit => DoneOK /\ DrainsFirst
  BY DEF LifeInit, Init, DoneOK, DrainsFirst
<1>2. /\ ProxyInv /\ Serving!WorkConserving /\ DoneOK /\ DrainsFirst
      /\ [LifeNext]_<<vars, lifeVars>>
      => DoneOK' /\ DrainsFirst'
  <2>. SUFFICES ASSUME ProxyInv, Serving!WorkConserving, DoneOK, DrainsFirst,
                       [LifeNext]_<<vars, lifeVars>>
                PROVE  DoneOK' /\ DrainsFirst'
    OBVIOUS
  <2>1. DoneOK'
    <3>1. CASE [Next]_vars
      BY <3>1, DoneStep
    <3>2. CASE UNCHANGED <<forwarderVars, loopVars>>
      BY <3>2 DEF forwarderVars, loopVars, DoneOK
    <3>. QED  BY <3>1, <3>2, LifeCases
  <2>2. DrainsFirst'
    <3>1. CASE RunReturns
      BY <3>1 DEF RunReturns, DoneOK, DrainsFirst, vars, forwarderVars
    <3>2. CASE ended' \notin {"no", "drained"} \/ ended' = "no"
      BY <3>2 DEF DrainsFirst
    <3>3. CASE UNCHANGED <<vars, lifeVars>>
      BY <3>3 DEF DrainsFirst, vars, forwarderVars, lifeVars
    <3>4. \/ RunReturns
          \/ ended' \notin {"no", "drained"} \/ ended' = "no"
          \/ UNCHANGED <<vars, lifeVars>>
      BY LifeCases DEF lifeVars
    <3>. QED  BY <3>1, <3>2, <3>3, <3>4
  <2>. QED  BY <2>1, <2>2
<1>. QED  BY <1>1, <1>2, LifeInvariant, LifeServes, PTL DEF LifeSpec

=============================================================================
