-------------------------- MODULE RequestService ---------------------------
(***************************************************************************)
(* What the forwarding side of DoTe promises, whatever the network does:   *)
(* requests are started in the order they arrived, at most MaxConnections  *)
(* are in flight, a request leaves the waiting line only for a free slot,  *)
(* and each gets at most one answer, while it is in flight.                *)
(* ClientForwarders implements this specification.                         *)
(***************************************************************************)
EXTENDS Naturals, Sequences, FiniteSets

CONSTANTS
    Requests,           \* the client requests
    MaxConnections      \* the -m option

VARIABLES
    waiting,        \* requests that arrived and have not been started
    inFlight,       \* requests with a forwarder working on them
    answered,       \* requests whose answer was sent to the client
    finished        \* requests that nothing more will be done for

vars == <<waiting, inFlight, answered, finished>>

Waiting == {waiting[i] : i \in 1..Len(waiting)}

SlotFree == Cardinality(inFlight) < MaxConnections

Init ==
    /\ waiting = <<>>
    /\ inFlight = {}
    /\ answered = {}
    /\ finished = {}

Arrive(r) ==
    /\ r \notin Waiting \cup inFlight \cup finished
    /\ waiting' = Append(waiting, r)
    /\ UNCHANGED <<inFlight, answered, finished>>

\* The oldest waiting request takes a free slot.
Start ==
    /\ waiting # <<>>
    /\ SlotFree
    /\ waiting' = Tail(waiting)
    /\ inFlight' = inFlight \cup {Head(waiting)}
    /\ UNCHANGED <<answered, finished>>

\* The oldest waiting request could have had a slot, and no forwarder took it.
Drop ==
    /\ waiting # <<>>
    /\ SlotFree
    /\ waiting' = Tail(waiting)
    /\ finished' = finished \cup {Head(waiting)}
    /\ UNCHANGED <<inFlight, answered>>

Answer(r) ==
    /\ r \in inFlight
    /\ r \notin answered
    /\ answered' = answered \cup {r}
    /\ UNCHANGED <<waiting, inFlight, finished>>

\* r's slot is freed, with its answer sent at that moment or not.
Finish(r) ==
    /\ r \in inFlight
    /\ inFlight' = inFlight \ {r}
    /\ finished' = finished \cup {r}
    /\ \/ answered' = answered
       \/ /\ r \notin answered
          /\ answered' = answered \cup {r}
    /\ UNCHANGED waiting

Next ==
    \/ Start
    \/ Drop
    \/ \E r \in Requests : Arrive(r) \/ Answer(r) \/ Finish(r)

Spec == Init /\ [][Next]_vars

=============================================================================
