----------------------- MODULE ClientForwarders_proof ----------------------
(***************************************************************************)
(* Proofs about ClientForwarders for every set of requests and every       *)
(* limit: the slots are accounted for, a request is in one place, and the  *)
(* dispatcher implements RequestService.                                   *)
(***************************************************************************)
EXTENDS ClientForwarders, FiniteSetTheorems, TLAPS

(***************************************************************************)
(* WorkConserving speaks of the moments between two handlers; to keep it,  *)
(* each call that is due must know how many slots are taken.  Only a       *)
(* handler that has just found or made a free slot has a call due, and     *)
(* then one slot is free, and just one if somebody waits.                  *)
(***************************************************************************)
SlotAccounting ==
    /\ IsFiniteSet(active)
    /\ Cardinality(active) <= MaxConnections
    /\ call = Idle /\ queue # <<>> => Cardinality(active) = MaxConnections
    /\ call # Idle => Cardinality(active) < MaxConnections
    /\ call # Idle /\ queue # <<>> => Cardinality(active) = MaxConnections - 1

IInv == TypeOK /\ SlotAccounting /\ OnePlace

(***************************************************************************)
(* The kinds of calls are told apart by their function and argument.       *)
(***************************************************************************)
LEMMA CallKinds ==
    /\ Idle.fn = "none" /\ DequeueCall.fn = "dequeue"
    /\ Idle # DequeueCall
    /\ \A r : /\ SendCall(r).fn = "sendRequest"
              /\ SendCall(r).request = r
              /\ SendCall(r) # Idle
              /\ SendCall(r) # DequeueCall
    /\ \A r, s : SendCall(r) = SendCall(s) => r = s
<1>1. /\ Idle.fn = "none" /\ DequeueCall.fn = "dequeue"
      /\ \A r : SendCall(r).fn = "sendRequest" /\ SendCall(r).request = r
  BY DEF Idle, DequeueCall, SendCall
<1>2. Idle # DequeueCall
  BY <1>1
<1>3. ASSUME NEW r
      PROVE  SendCall(r) # Idle /\ SendCall(r) # DequeueCall
  BY <1>1
<1>4. ASSUME NEW r, NEW s, SendCall(r) = SendCall(s)
      PROVE  r = s
  BY <1>1, <1>4
<1>. QED  BY <1>1, <1>2, <1>3, <1>4

(***************************************************************************)
(* What the slot counts become when a connection starts and ends.          *)
(***************************************************************************)
LEMMA SlotTaken ==
    ASSUME NEW S, IsFiniteSet(S), NEW r, r \notin S
    PROVE  /\ IsFiniteSet(S \cup {r})
           /\ Cardinality(S) \in Nat
           /\ Cardinality(S \cup {r}) = Cardinality(S) + 1
BY FS_AddElement, FS_CardinalityType

LEMMA SlotFreed ==
    ASSUME NEW S, IsFiniteSet(S), NEW r, r \in S
    PROVE  /\ IsFiniteSet(S \ {r})
           /\ Cardinality(S) \in Nat
           /\ Cardinality(S \ {r}) = Cardinality(S) - 1
BY FS_RemoveElement, FS_CardinalityType

-----------------------------------------------------------------------------

(***************************************************************************)
(* Type correctness of the dispatcher.                                     *)
(***************************************************************************)
LEMMA TypeStep == TypeOK /\ [Next]_vars => TypeOK'
<1>. SUFFICES ASSUME TypeOK, [Next]_vars PROVE TypeOK'
  OBVIOUS
<1>. USE DEF TypeOK
<1>1. ASSUME Dequeue PROVE TypeOK'
  <2>1. CASE queue # <<>>
    <3>1. Head(queue) \in Requests /\ Tail(queue) \in Seq(Requests)
      BY <2>1
    <3>. QED  BY <1>1, <2>1, <3>1 DEF Dequeue
  <2>2. CASE queue = <<>>
    BY <1>1, <2>2 DEF Dequeue
  <2>. QED  BY <2>1, <2>2
<1>2. ASSUME NEW r \in Requests, HandleRequest(r) PROVE TypeOK'
  <2>1. Append(queue, r) \in Seq(Requests)
    OBVIOUS
  <2>. QED  BY <1>2, <2>1 DEF HandleRequest
<1>3. ASSUME NEW r \in Requests, SendRequestAccepted(r) PROVE TypeOK'
  BY <1>3 DEF SendRequestAccepted
<1>4. ASSUME NEW r \in Requests, SendRequestRefused(r) PROVE TypeOK'
  BY <1>4 DEF SendRequestRefused
<1>5. ASSUME NEW r \in Requests, HandleShutdown(r) PROVE TypeOK'
  BY <1>5 DEF HandleShutdown, Release
<1>6. ASSUME NEW r \in Requests, HandleIncoming(r) PROVE TypeOK'
  BY <1>6 DEF HandleIncoming, Release, Respond
<1>7. CASE UNCHANGED vars
  BY <1>7 DEF vars
<1>. QED  BY <1>1, <1>2, <1>3, <1>4, <1>5, <1>6, <1>7 DEF Next

(***************************************************************************)
(* TypeOK holds for every instance.                                        *)
(***************************************************************************)
THEOREM TypeCorrect == Spec => []TypeOK
<1>1. Init => TypeOK
  BY DEF Init, TypeOK
<1>. QED  BY <1>1, TypeStep, PTL DEF Spec

-----------------------------------------------------------------------------

(***************************************************************************)
(* Every step keeps the account of slots.                                  *)
(***************************************************************************)
LEMMA SlotStep == IInv /\ [Next]_vars => SlotAccounting'
<1>. SUFFICES ASSUME IInv, [Next]_vars PROVE SlotAccounting'
  OBVIOUS
<1>. USE MaxConnectionsAssumption DEF SlotAccounting
<1>0. Cardinality(active) \in Nat
  BY FS_CardinalityType DEF IInv
<1>1. ASSUME Dequeue PROVE SlotAccounting'
  <2>1. queue # <<>> => call' # Idle
    BY <1>1, CallKinds DEF Dequeue
  <2>2. queue = <<>> => queue' = <<>>
    BY <1>1 DEF Dequeue
  <2>3. call # Idle /\ active' = active
    BY <1>1, CallKinds DEF Dequeue
  <2>. QED  BY <1>0, <2>1, <2>2, <2>3 DEF IInv
<1>2. ASSUME NEW r \in Requests, HandleRequest(r) PROVE SlotAccounting'
  <2>1. CASE Cardinality(active) < MaxConnections
    <3>1. queue = <<>>
      BY <1>0, <1>2, <2>1 DEF IInv, HandleRequest
    <3>. QED  BY <1>2, <2>1, <3>1, CallKinds DEF IInv, HandleRequest
  <2>2. CASE ~(Cardinality(active) < MaxConnections)
    BY <1>0, <1>2, <2>2 DEF IInv, HandleRequest
  <2>. QED  BY <2>1, <2>2
<1>3. ASSUME NEW r \in Requests, SendRequestAccepted(r) PROVE SlotAccounting'
  <2>1. r \notin active
    BY <1>3 DEF IInv, OnePlace, SendRequestAccepted
  <2>2. /\ IsFiniteSet(active')
        /\ Cardinality(active') = Cardinality(active) + 1
    BY <1>3, <2>1, SlotTaken DEF IInv, SendRequestAccepted
  <2>3. call # Idle /\ call' = Idle /\ queue' = queue
    BY <1>3, CallKinds DEF SendRequestAccepted
  <2>. QED  BY <1>0, <2>2, <2>3 DEF IInv
<1>4. ASSUME NEW r \in Requests, SendRequestRefused(r) PROVE SlotAccounting'
  <2>1. /\ call # Idle /\ call' # Idle
        /\ queue' = queue /\ active' = active
    BY <1>4, CallKinds DEF SendRequestRefused
  <2>. QED  BY <2>1 DEF IInv
<1>5. ASSUME NEW r \in Requests, r \in active, call = Idle, Release(r), queue' = queue
      PROVE  SlotAccounting'
  <2>1. /\ IsFiniteSet(active')
        /\ Cardinality(active') = Cardinality(active) - 1
    BY <1>5, SlotFreed DEF IInv, Release
  <2>2. call' # Idle
    BY <1>5, CallKinds DEF Release
  <2>. QED  BY <1>0, <1>5, <2>1, <2>2 DEF IInv
<1>6. ASSUME NEW r \in Requests, HandleShutdown(r) PROVE SlotAccounting'
  BY <1>5, <1>6 DEF HandleShutdown
<1>7. ASSUME NEW r \in Requests, HandleIncoming(r) PROVE SlotAccounting'
  <2>1. CASE Release(r)
    BY <1>5, <1>7, <2>1 DEF HandleIncoming
  <2>2. CASE UNCHANGED <<active, finished, call>>
    BY <1>7, <2>2 DEF IInv, HandleIncoming
  <2>. QED  BY <1>7, <2>1, <2>2 DEF HandleIncoming
<1>8. CASE UNCHANGED vars
  BY <1>8 DEF IInv, vars
<1>. QED  BY <1>1, <1>2, <1>3, <1>4, <1>6, <1>7, <1>8 DEF Next

-----------------------------------------------------------------------------

Distinct(q) == \A i, j \in 1..Len(q) : q[i] = q[j] => i = j
Members(q) == {q[i] : i \in 1..Len(q)}

(***************************************************************************)
(* Taking the front of a queue without repetitions removes that request,   *)
(* and only that one, from the queue.                                      *)
(***************************************************************************)
LEMMA PopFront ==
    ASSUME NEW q \in Seq(Requests), q # <<>>, Distinct(q)
    PROVE  /\ Distinct(Tail(q))
           /\ Head(q) \in Members(q)
           /\ Members(Tail(q)) = Members(q) \ {Head(q)}
<1>1. /\ Len(q) \in Nat \ {0}
      /\ Head(q) = q[1]
      /\ Len(Tail(q)) = Len(q) - 1
      /\ \A i \in 1..(Len(q) - 1) : Tail(q)[i] = q[i + 1]
  OBVIOUS
<1>2. Distinct(Tail(q))
  <2>. SUFFICES ASSUME NEW i \in 1..Len(Tail(q)), NEW j \in 1..Len(Tail(q)),
                       Tail(q)[i] = Tail(q)[j]
                PROVE  i = j
    BY DEF Distinct
  <2>1. /\ i + 1 \in 1..Len(q) /\ j + 1 \in 1..Len(q)
        /\ q[i + 1] = q[j + 1]
    BY <1>1
  <2>. QED  BY <2>1 DEF Distinct
<1>3. Head(q) \in Members(q)
  BY <1>1 DEF Members
<1>4. ASSUME NEW r \in Members(Tail(q)) PROVE r \in Members(q) \ {Head(q)}
  <2>1. PICK i \in 1..Len(Tail(q)) : r = Tail(q)[i]
    BY DEF Members
  <2>2. i + 1 \in 1..Len(q) /\ r = q[i + 1] /\ 1 \in 1..Len(q) /\ i + 1 # 1
    BY <1>1, <2>1
  <2>3. r \in Members(q)
    BY <2>2 DEF Members
  <2>4. r # Head(q)
    BY <1>1, <2>2 DEF Distinct
  <2>. QED  BY <2>3, <2>4
<1>5. ASSUME NEW r \in Members(q) \ {Head(q)} PROVE r \in Members(Tail(q))
  <2>1. PICK i \in 1..Len(q) : r = q[i]
    BY DEF Members
  <2>2. i - 1 \in 1..Len(Tail(q)) /\ Tail(q)[i - 1] = r
    BY <1>1, <2>1
  <2>. QED  BY <2>2 DEF Members
<1>. QED  BY <1>2, <1>3, <1>4, <1>5

(***************************************************************************)
(* A new request at the back adds that request, and only that one.         *)
(***************************************************************************)
LEMMA PushBack ==
    ASSUME NEW q \in Seq(Requests), NEW r \in Requests,
           r \notin Members(q), Distinct(q)
    PROVE  /\ Distinct(Append(q, r))
           /\ Members(Append(q, r)) = Members(q) \cup {r}
<1>1. /\ Len(q) \in Nat
      /\ Len(Append(q, r)) = Len(q) + 1
      /\ Append(q, r)[Len(q) + 1] = r
      /\ \A i \in 1..Len(q) : Append(q, r)[i] = q[i]
  OBVIOUS
<1>2. \A i \in 1..Len(q) : q[i] # r
  BY DEF Members
<1>3. Distinct(Append(q, r))
  <2>. SUFFICES ASSUME NEW i \in 1..(Len(q) + 1), NEW j \in 1..(Len(q) + 1),
                       Append(q, r)[i] = Append(q, r)[j]
                PROVE  i = j
    BY <1>1 DEF Distinct
  <2>1. CASE i \in 1..Len(q) /\ j \in 1..Len(q)
    BY <1>1, <2>1 DEF Distinct
  <2>2. CASE i = Len(q) + 1 \/ j = Len(q) + 1
    BY <1>1, <1>2, <2>2
  <2>. QED  BY <1>1, <2>1, <2>2
<1>4. Members(Append(q, r)) \subseteq Members(q) \cup {r}
  BY <1>1 DEF Members
<1>5. Members(q) \subseteq Members(Append(q, r))
  <2>1. ASSUME NEW i \in 1..Len(q)
        PROVE  i \in 1..Len(Append(q, r)) /\ q[i] = Append(q, r)[i]
    BY <1>1
  <2>. QED  BY <2>1 DEF Members
<1>6. r \in Members(Append(q, r))
  BY <1>1 DEF Members
<1>. QED  BY <1>3, <1>4, <1>5, <1>6

(***************************************************************************)
(* Every step leaves every request in one place.                           *)
(***************************************************************************)
LEMMA PlaceStep == IInv /\ [Next]_vars => OnePlace'
<1>. SUFFICES ASSUME IInv, [Next]_vars PROVE OnePlace'
  OBVIOUS
<1>. USE DEF IInv
<1>a. OnePlace <=>
        /\ Distinct(queue)
        /\ Members(queue) \cap (active \cup finished) = {}
        /\ active \cap finished = {}
        /\ \A r \in Requests :
            call = SendCall(r) => r \notin Members(queue) \cup active \cup finished
  BY DEF OnePlace, Queued, Distinct, Members
<1>b. OnePlace' <=>
        /\ Distinct(queue')
        /\ Members(queue') \cap (active' \cup finished') = {}
        /\ active' \cap finished' = {}
        /\ \A r \in Requests :
            call' = SendCall(r) => r \notin Members(queue') \cup active' \cup finished'
  BY DEF OnePlace, Queued, Distinct, Members
<1>c. queue \in Seq(Requests)
  BY DEF TypeOK
<1>1. ASSUME Dequeue PROVE OnePlace'
  <2>1. CASE queue # <<>>
    <3>1. /\ Distinct(queue')
          /\ Head(queue) \in Members(queue)
          /\ Members(queue') = Members(queue) \ {Head(queue)}
      BY <1>1, <1>a, <1>c, <2>1, PopFront DEF Dequeue
    <3>2. \A r : call' = SendCall(r) => r = Head(queue)
      BY <1>1, <2>1, CallKinds DEF Dequeue
    <3>3. active' = active /\ finished' = finished
      BY <1>1 DEF Dequeue
    <3>. QED  BY <1>a, <1>b, <3>1, <3>2, <3>3
  <2>2. CASE queue = <<>>
    <3>1. /\ queue' = queue /\ active' = active /\ finished' = finished
          /\ \A r : call' # SendCall(r)
      BY <1>1, <2>2, CallKinds DEF Dequeue
    <3>. QED  BY <1>a, <1>b, <3>1
  <2>. QED  BY <2>1, <2>2
<1>2. ASSUME NEW r \in Requests, HandleRequest(r) PROVE OnePlace'
  <2>1. r \notin Members(queue) \cup active \cup finished
    BY <1>2 DEF HandleRequest, Seen, Queued, Members
  <2>2. active' = active /\ finished' = finished /\ \A s : call # SendCall(s)
    BY <1>2, CallKinds DEF HandleRequest
  <2>3. CASE Cardinality(active) < MaxConnections
    <3>1. queue' = queue /\ \A s : call' = SendCall(s) => s = r
      BY <1>2, <2>3, CallKinds DEF HandleRequest
    <3>. QED  BY <1>a, <1>b, <2>1, <2>2, <3>1
  <2>4. CASE ~(Cardinality(active) < MaxConnections)
    <3>1. /\ Distinct(queue')
          /\ Members(queue') = Members(queue) \cup {r}
          /\ call' = call
      BY <1>2, <1>a, <1>c, <2>1, <2>4, PushBack DEF HandleRequest
    <3>. QED  BY <1>a, <1>b, <2>1, <2>2, <3>1
  <2>. QED  BY <2>3, <2>4
<1>3. ASSUME NEW r \in Requests, SendRequestAccepted(r) PROVE OnePlace'
  <2>1. /\ call = SendCall(r) /\ active' = active \cup {r}
        /\ queue' = queue /\ finished' = finished /\ \A s : call' # SendCall(s)
    BY <1>3, CallKinds DEF SendRequestAccepted
  <2>. QED  BY <1>a, <1>b, <2>1
<1>4. ASSUME NEW r \in Requests, SendRequestRefused(r) PROVE OnePlace'
  <2>1. /\ call = SendCall(r) /\ finished' = finished \cup {r}
        /\ queue' = queue /\ active' = active /\ \A s : call' # SendCall(s)
    BY <1>4, CallKinds DEF SendRequestRefused
  <2>. QED  BY <1>a, <1>b, <2>1
<1>5. ASSUME NEW r \in Requests, r \in active, Release(r), queue' = queue
      PROVE  OnePlace'
  <2>1. \A s : call' # SendCall(s)
    BY <1>5, CallKinds DEF Release
  <2>. QED  BY <1>5, <1>a, <1>b, <2>1 DEF Release
<1>6. ASSUME NEW r \in Requests, HandleShutdown(r) PROVE OnePlace'
  BY <1>5, <1>6 DEF HandleShutdown
<1>7. ASSUME NEW r \in Requests, HandleIncoming(r) PROVE OnePlace'
  <2>1. CASE Release(r)
    BY <1>5, <1>7, <2>1 DEF HandleIncoming
  <2>2. CASE UNCHANGED <<active, finished, call>>
    BY <1>7, <1>a, <1>b, <2>2 DEF HandleIncoming
  <2>. QED  BY <1>7, <2>1, <2>2 DEF HandleIncoming
<1>8. CASE UNCHANGED vars
  BY <1>8, <1>a, <1>b DEF vars
<1>. QED  BY <1>1, <1>2, <1>3, <1>4, <1>6, <1>7, <1>8 DEF Next

-----------------------------------------------------------------------------

(***************************************************************************)
(* The inductive invariant holds in every instance.                        *)
(***************************************************************************)
THEOREM Invariant == Spec => []IInv
<1>1. Init => IInv
  <2>. SUFFICES ASSUME Init PROVE IInv
    OBVIOUS
  <2>1. TypeOK
    BY DEF Init, TypeOK
  <2>2. SlotAccounting
    BY FS_EmptySet, MaxConnectionsAssumption DEF Init, SlotAccounting
  <2>3. OnePlace
    BY CallKinds DEF Init, OnePlace, Queued
  <2>. QED  BY <2>1, <2>2, <2>3 DEF IInv
<1>2. IInv /\ [Next]_vars => IInv'
  BY TypeStep, SlotStep, PlaceStep DEF IInv
<1>. QED  BY <1>1, <1>2, PTL DEF Spec

(***************************************************************************)
(* A request waits between two handlers only if every slot is taken.       *)
(***************************************************************************)
THEOREM AlwaysWorkConserving == Spec => []WorkConserving
<1>1. IInv => WorkConserving
  BY DEF IInv, SlotAccounting, WorkConserving
<1>. QED  BY <1>1, Invariant, PTL

(***************************************************************************)
(* The -m limit holds at every moment.                                     *)
(***************************************************************************)
THEOREM AlwaysWithinLimit == Spec => []WithinLimit
<1>1. IInv => WithinLimit
  BY DEF IInv, SlotAccounting, WithinLimit
<1>. QED  BY <1>1, Invariant, PTL

(***************************************************************************)
(* A request is in one place.                                              *)
(***************************************************************************)
THEOREM AlwaysOnePlace == Spec => []OnePlace
<1>1. IInv => OnePlace
  BY DEF IInv
<1>. QED  BY <1>1, Invariant, PTL

-----------------------------------------------------------------------------

(***************************************************************************)
(* What the waiting line is in each kind of state.                         *)
(***************************************************************************)
LEMMA LineWhenIdle ==
    ASSUME call = Idle \/ call = DequeueCall
    PROVE  WaitingLine = queue
BY CallKinds DEF WaitingLine

LEMMA LineWhenSending ==
    ASSUME NEW r, call = SendCall(r)
    PROVE  WaitingLine = <<r>> \o queue
BY CallKinds DEF WaitingLine

LEMMA LineWhenIdleNext ==
    ASSUME call' = Idle \/ call' = DequeueCall
    PROVE  WaitingLine' = queue'
BY CallKinds DEF WaitingLine

LEMMA LineWhenSendingNext ==
    ASSUME NEW r, call' = SendCall(r)
    PROVE  WaitingLine' = <<r>> \o queue'
BY CallKinds DEF WaitingLine

(***************************************************************************)
(* Every step of the dispatcher is a step of RequestService, or none: a    *)
(* request that is accepted at once overtakes nobody, because nobody waits *)
(* while a slot is free.                                                   *)
(***************************************************************************)
LEMMA ServiceStep == IInv /\ [Next]_vars => [Service!Next]_(Service!vars)
<1>. SUFFICES ASSUME IInv, [Next]_vars
              PROVE  [Service!Next]_(Service!vars)
  OBVIOUS
<1>. USE DEF IInv
<1>a. /\ queue \in Seq(Requests) /\ Cardinality(active) \in Nat
      /\ MaxConnections \in Nat
  BY FS_CardinalityType, MaxConnectionsAssumption DEF TypeOK, SlotAccounting
<1>1. ASSUME Dequeue PROVE UNCHANGED Service!vars
  <2>1. WaitingLine = queue
    BY <1>1, LineWhenIdle DEF Dequeue
  <2>2. CASE queue # <<>>
    <3>1. WaitingLine' = <<Head(queue)>> \o Tail(queue)
      BY <1>1, <2>2, LineWhenSendingNext DEF Dequeue
    <3>2. <<Head(queue)>> \o Tail(queue) = queue
      BY <1>a, <2>2
    <3>. QED  BY <1>1, <2>1, <3>1, <3>2 DEF Dequeue, Service!vars
  <2>3. CASE queue = <<>>
    <3>1. WaitingLine' = queue
      BY <1>1, <2>3, LineWhenIdleNext DEF Dequeue
    <3>. QED  BY <1>1, <2>1, <3>1 DEF Dequeue, Service!vars
  <2>. QED  BY <2>2, <2>3
<1>2. ASSUME NEW r \in Requests, HandleRequest(r) PROVE Service!Arrive(r)
  <2>1. WaitingLine = queue /\ call = Idle
    BY <1>2, LineWhenIdle DEF HandleRequest
  <2>2. r \notin {queue[i] : i \in 1..Len(queue)} \cup active \cup finished
    BY <1>2 DEF HandleRequest, Seen, Queued
  <2>3. WaitingLine' = Append(queue, r)
    <3>1. CASE Cardinality(active) < MaxConnections
      <4>1. queue = <<>>
        BY <1>a, <2>1, <3>1 DEF SlotAccounting
      <4>2. WaitingLine' = <<r>> \o queue
        BY <1>2, <3>1, LineWhenSendingNext DEF HandleRequest
      <4>. QED  BY <4>1, <4>2
    <3>2. CASE ~(Cardinality(active) < MaxConnections)
      BY <1>2, <2>1, <3>2, LineWhenIdleNext DEF HandleRequest
    <3>. QED  BY <3>1, <3>2
  <2>. QED  BY <1>2, <2>1, <2>2, <2>3 DEF HandleRequest, Service!Arrive, Service!Waiting
<1>3. ASSUME NEW r \in Requests, call = SendCall(r)
      PROVE  /\ WaitingLine # <<>>
             /\ Head(WaitingLine) = r
             /\ Tail(WaitingLine) = queue
             /\ Service!SlotFree
  <2>1. WaitingLine = <<r>> \o queue
    BY <1>3, LineWhenSending
  <2>2. Cardinality(active) < MaxConnections
    BY <1>3, CallKinds DEF SlotAccounting
  <2>3. Service!SlotFree
    BY <2>2 DEF Service!SlotFree, Service!Cardinality, Cardinality
  <2>4. Head(<<r>> \o queue) = r /\ Tail(<<r>> \o queue) = queue /\ <<r>> \o queue # <<>>
    BY <1>a
  <2>. QED  BY <2>1, <2>3, <2>4
<1>4. ASSUME NEW r \in Requests, SendRequestAccepted(r) PROVE Service!Start
  <2>1. WaitingLine' = queue
    BY <1>4, LineWhenIdleNext DEF SendRequestAccepted
  <2>. QED  BY <1>3, <1>4, <2>1 DEF SendRequestAccepted, Service!Start
<1>5. ASSUME NEW r \in Requests, SendRequestRefused(r) PROVE Service!Drop
  <2>1. WaitingLine' = queue
    BY <1>5, LineWhenIdleNext DEF SendRequestRefused
  <2>. QED  BY <1>3, <1>5, <2>1 DEF SendRequestRefused, Service!Drop
<1>6. ASSUME NEW r \in Requests, r \in active, call = Idle, Release(r),
             Respond(r) \/ answered' = answered, queue' = queue
      PROVE  Service!Finish(r)
  <2>1. WaitingLine = queue /\ WaitingLine' = queue
    BY <1>6, LineWhenIdle, LineWhenIdleNext DEF Release
  <2>2. answered' = answered \/ (r \notin answered /\ answered' = answered \cup {r})
    BY <1>6 DEF Respond
  <2>. QED  BY <1>6, <2>1, <2>2 DEF Release, Service!Finish
<1>7. ASSUME NEW r \in Requests, HandleShutdown(r) PROVE Service!Finish(r)
  BY <1>6, <1>7 DEF HandleShutdown
<1>8. ASSUME NEW r \in Requests, HandleIncoming(r)
      PROVE  Service!Finish(r) \/ Service!Answer(r) \/ UNCHANGED Service!vars
  <2>1. CASE Release(r)
    BY <1>6, <1>8, <2>1 DEF HandleIncoming
  <2>2. CASE UNCHANGED <<active, finished, call>>
    <3>1. WaitingLine = queue /\ WaitingLine' = queue
      BY <1>8, <2>2, LineWhenIdle, LineWhenIdleNext DEF HandleIncoming
    <3>2. answered' = answered \/ (r \notin answered /\ answered' = answered \cup {r})
      BY <1>8 DEF HandleIncoming, Respond
    <3>. QED  BY <1>8, <2>2, <3>1, <3>2 DEF HandleIncoming, Service!Answer, Service!vars
  <2>. QED  BY <1>8, <2>1, <2>2 DEF HandleIncoming
<1>9. CASE UNCHANGED vars
  BY <1>9 DEF vars, WaitingLine, Service!vars
<1>. QED  BY <1>1, <1>2, <1>4, <1>5, <1>7, <1>8, <1>9 DEF Next, Service!Next

(***************************************************************************)
(* The dispatcher implements RequestService: requests start in the order   *)
(* they arrived, within the limit, and are answered at most once, for any  *)
(* number of requests and any limit.                                       *)
(***************************************************************************)
THEOREM ImplementsService == Spec => ServiceSpec
<1>1. Init => Service!Init
  BY CallKinds DEF Init, Service!Init, WaitingLine
<1>. QED  BY <1>1, ServiceStep, Invariant, PTL DEF Spec, ServiceSpec, Service!Spec

=============================================================================
