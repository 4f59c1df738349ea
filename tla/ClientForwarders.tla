------------------------- MODULE ClientForwarders --------------------------
(***************************************************************************)
(* The dispatcher of client requests (src/src/client_forwarders.cpp): at   *)
(* most m_maxConnections ForwarderConnections at a time, every further     *)
(* request in m_queue, and a request of the queue sent whenever a          *)
(* connection ends.                                                        *)
(*                                                                         *)
(* sendRequest() and dequeue() call each other, and handleShutdown() ends  *)
(* in dequeue(); every one of these calls is a tail call.  `call' is the   *)
(* call that is due: while it is not Idle nothing but that call can        *)
(* happen, because the process has a single thread.  So a handler with     *)
(* its trailing calls is a run of steps that no other step interrupts.     *)
(*                                                                         *)
(* A ForwarderConnection is named by the request it carries; what happens  *)
(* on the network (module ForwarderConnection) is a choice here: whether   *)
(* send() accepts the request, and when data or the end arrives.           *)
(***************************************************************************)
EXTENDS Naturals, Sequences, FiniteSets

CONSTANTS
    Requests,           \* the client requests
    MaxConnections      \* m_maxConnections

\* ConfigParser::setMaxConnections() refuses anything below 1.
ASSUME MaxConnectionsAssumption == MaxConnections \in Nat \ {0}

VARIABLES
    queue,          \* m_queue, oldest first
    active,         \* m_forwarders: requests that own a connection
    closing,        \* those whose connection was told to shut down
    call,           \* the call that is due, or Idle
    answered,       \* history: a response was sent to the client
    finished        \* history: dropped, or connection gone

vars == <<queue, active, closing, call, answered, finished>>

Idle == [fn |-> "none"]
DequeueCall == [fn |-> "dequeue"]
SendCall(r) == [fn |-> "sendRequest", request |-> r]

Queued == {queue[i] : i \in 1..Len(queue)}

\* Requests the server has received so far.
Seen ==
    Queued \cup active \cup finished
        \cup {r \in Requests : call = SendCall(r)}

-----------------------------------------------------------------------------

Init ==
    /\ queue = <<>>
    /\ active = {}
    /\ closing = {}
    /\ call = Idle
    /\ answered = {}
    /\ finished = {}

\* Mutant: the limit is compared with <=.
HandleRequestOverLimit(r) ==
    /\ call = Idle
    /\ r \notin Seen
    /\ IF Cardinality(active) <= MaxConnections
       THEN call' = SendCall(r) /\ UNCHANGED queue
       ELSE queue' = Append(queue, r) /\ UNCHANGED call
    /\ UNCHANGED <<active, closing, answered, finished>>

\* Server::handleDnsRequest() hands over a request that has just arrived.
HandleRequest(r) ==
    /\ call = Idle
    /\ r \notin Seen
    /\ IF Cardinality(active) < MaxConnections
       THEN call' = SendCall(r) /\ UNCHANGED queue
       ELSE queue' = Append(queue, r) /\ UNCHANGED call
    /\ UNCHANGED <<active, closing, answered, finished>>

\* The new connection takes the request and is kept in m_forwarders ...
SendRequestAccepted(r) ==
    /\ call = SendCall(r)
    /\ active' = active \cup {r}
    /\ call' = Idle
    /\ UNCHANGED <<queue, closing, answered, finished>>

\* Mutant: a refused request does not go on to the next one.
SendRequestRefusedStops(r) ==
    /\ call = SendCall(r)
    /\ finished' = finished \cup {r}
    /\ call' = Idle
    /\ UNCHANGED <<queue, active, closing, answered>>

\* ... or it closed while it was being constructed: the request is dropped
\* and the next one is tried.
SendRequestRefused(r) ==
    /\ call = SendCall(r)
    /\ finished' = finished \cup {r}
    /\ call' = DequeueCall
    /\ UNCHANGED <<queue, active, closing, answered>>

\* Mutant: pop_front() is forgotten.
DequeueKeepsFront ==
    /\ call = DequeueCall
    /\ IF queue # <<>> THEN call' = SendCall(Head(queue)) ELSE call' = Idle
    /\ UNCHANGED <<queue, active, closing, answered, finished>>

\* Mutant: the newest request is sent first.
DequeueNewest ==
    /\ call = DequeueCall
    /\ IF queue # <<>>
       THEN /\ call' = SendCall(queue[Len(queue)])
            /\ queue' = SubSeq(queue, 1, Len(queue) - 1)
       ELSE call' = Idle /\ UNCHANGED queue
    /\ UNCHANGED <<active, closing, answered, finished>>

Dequeue ==
    /\ call = DequeueCall
    /\ IF queue # <<>>
       THEN call' = SendCall(Head(queue)) /\ queue' = Tail(queue)
       ELSE call' = Idle /\ UNCHANGED queue
    /\ UNCHANGED <<active, closing, answered, finished>>

\* Mutant: handleShutdown() without its dequeue().
ReleaseWithoutDequeue(r) ==
    /\ active' = active \ {r}
    /\ closing' = closing \ {r}
    /\ finished' = finished \cup {r}
    /\ call' = Idle

\* Mutant: the connection is erased, its shutdown goes on.
ReleaseKeepsClosing(r) ==
    /\ active' = active \ {r}
    /\ closing' = closing
    /\ finished' = finished \cup {r}
    /\ call' = DequeueCall

\* What handleShutdown() does to the dispatcher's state.
Release(r) ==
    /\ active' = active \ {r}
    /\ closing' = closing \ {r}
    /\ finished' = finished \cup {r}
    /\ call' = DequeueCall

\* The connection of r closed (m_shutdown is called from close()).
HandleShutdown(r) ==
    /\ call = Idle
    /\ r \in active
    /\ Release(r)
    /\ UNCHANGED <<queue, answered>>

\* handleIncoming(): an invalid packet is discarded and sendmsg() may fail;
\* either way the callback goes on to shut the connection down.
Respond(r) == answered' \in {answered, answered \cup {r}}

\* Data came back for r.  shutdown() may close the connection at once, and
\* handleShutdown() then runs inside the same callback.
HandleIncoming(r) ==
    /\ call = Idle
    /\ r \in active \ closing
    /\ Respond(r)
    /\ \/ /\ closing' = closing \cup {r}
          /\ UNCHANGED <<active, finished, call>>
       \/ Release(r)
    /\ UNCHANGED queue

Next ==
    \/ Dequeue
    \/ \E r \in Requests :
        \/ HandleRequest(r)
        \/ SendRequestAccepted(r)
        \/ SendRequestRefused(r)
        \/ HandleShutdown(r)
        \/ HandleIncoming(r)

Spec == Init /\ [][Next]_vars

\* A call that is due is made: the thread does not stop inside a handler.
CallsReturn ==
    /\ WF_vars(Dequeue)
    /\ WF_vars(\E r \in Requests : SendRequestAccepted(r) \/ SendRequestRefused(r))

FairSpec == Spec /\ CallsReturn

-----------------------------------------------------------------------------

TypeOK ==
    /\ queue \in Seq(Requests)
    /\ active \subseteq Requests
    /\ closing \subseteq active
    /\ call \in {Idle, DequeueCall} \cup {SendCall(r) : r \in Requests}
    /\ answered \subseteq Requests
    /\ finished \subseteq Requests

(***************************************************************************)
(* Between two handlers a request waits in m_queue only while every slot   *)
(* of m_maxConnections is taken.  If one waited with a slot free, nothing  *)
(* but the end of some other connection would ever send it.                *)
(***************************************************************************)
WorkConserving ==
    call = Idle /\ queue # <<>> => Cardinality(active) = MaxConnections

(***************************************************************************)
(* The configured limit on connections holds at every moment, also inside  *)
(* the sendRequest()/dequeue() recursion that checks no limit itself.      *)
(***************************************************************************)
WithinLimit == Cardinality(active) <= MaxConnections

(***************************************************************************)
(* A request is in one place: it cannot be queued twice, queued and in     *)
(* flight, or brought back after its connection ended.                     *)
(***************************************************************************)
OnePlace ==
    /\ \A i, j \in 1..Len(queue) : queue[i] = queue[j] => i = j
    /\ Queued \cap (active \cup finished) = {}
    /\ active \cap finished = {}
    /\ \A r \in Requests :
        call = SendCall(r) => r \notin Queued \cup active \cup finished

(***************************************************************************)
(* Nothing stalls: provided that every connection ends one day (the job    *)
(* of the timeouts), each request that arrives is finished one day.  A     *)
(* handler that forgot to call dequeue() would leave the queue behind.     *)
(***************************************************************************)
NoRequestStalls ==
    (\A r \in Requests : (r \in active) ~> (r \notin active))
        => \A r \in Requests : (r \in Seen) ~> (r \in finished)

(***************************************************************************)
(* The dispatcher keeps the promise of RequestService.  A request that is  *)
(* in sendRequest()'s hands is still the first of the waiting line.        *)
(***************************************************************************)
WaitingLine ==
    IF call.fn = "sendRequest" THEN <<call.request>> \o queue ELSE queue

Service == INSTANCE RequestService WITH
    waiting <- WaitingLine, inFlight <- active

\* Requests start in arrival order, within the limit, answered at most once.
ServiceSpec == Service!Spec

=============================================================================
