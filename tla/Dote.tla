-------------------------------- MODULE Dote -------------------------------
(***************************************************************************)
(* The running proxy: the event loop (src/src/loop.cpp) with the server    *)
(* sockets (src/src/server.cpp), the configuration watch                   *)
(* (src/src/vyatta_check.cpp), the dispatcher of requests (module          *)
(* ClientForwarders) and the connections (module ForwarderConnection)      *)
(* hanging off it.                                                         *)
(*                                                                         *)
(* The loop polls, calls the callbacks of the descriptors that poll()      *)
(* reported one by one, rebuilds the poll set, raises an exception on what *)
(* has timed out, and polls again.  A callback may close its connection,   *)
(* which sends queued requests, which opens descriptors: the calls that    *)
(* are still due are in `call', as in ClientForwarders, and nothing else   *)
(* happens until they have returned.                                       *)
(*                                                                         *)
(* Time passes while the loop waits in poll(); a pass over the callbacks   *)
(* is taken to be shorter than the one-second grain of time().             *)
(***************************************************************************)
EXTENDS ForwarderConnection, SequencesExt

CONSTANTS
    MaxConnections, \* ClientForwarders::m_maxConnections
    ConfigWatch     \* the descriptor of the inotify watch, 0 if there is none

ASSUME LoopAssumption ==
    /\ MaxConnections \in Nat \ {0}
    /\ IsFiniteSet(Handles)     \* a process has a limited number
    /\ ConfigWatch \in Listening \cup {NoHandle}

VARIABLES
    queue,          \* ClientForwarders::m_queue
    active,         \* ClientForwarders::m_forwarders
    call,           \* the call of ClientForwarders that is due, or Idle
    answered,       \* history: a response was sent to the client
    finished,       \* history: dropped, or connection gone
    pc,             \* where Loop::run() is
    fds,            \* the poll set, in order
    pollLeft,       \* seconds until poll() gives up, or NoTimeout
    todo,           \* the reported descriptors not yet dealt with
    excepted,       \* timeout(): handles an exception was raised for
    earliest,       \* timeout(): earliest deadline met so far
    earliestRead    \* timeout(): the result for m_readFunctions

forwarderVars == <<queue, active, call, answered, finished>>
loopVars == <<pc, fds, pollLeft, todo, excepted, earliest, earliestRead>>
vars == <<connVars, forwarderVars, loopVars>>

Idle == [fn |-> "none"]
DequeueCall == [fn |-> "dequeue"]
SendCall(r) == [fn |-> "sendRequest", request |-> r]

Received ==
    ToSet(queue) \cup active \cup finished
        \cup {r \in Requests : call = SendCall(r)}

-----------------------------------------------------------------------------
(* ClientForwarders, with the connections it makes. *)

\* Server::handleDnsRequest() and ClientForwarders::handleRequest().
HandleRequest(r) ==
    /\ r \notin Received
    /\ IF Cardinality(active) < MaxConnections
       THEN call' = SendCall(r) /\ UNCHANGED queue
       ELSE queue' = Append(queue, r) /\ UNCHANGED call
    /\ UNCHANGED <<active, answered, finished>>

\* Mutant: a refused request does not go on to the next one.
SendRequestStops(r) ==
    /\ call = SendCall(r)
    /\ Construct(r)
    /\ IF conn'[r].state \in {"CONNECTING", "OPEN"}
       THEN active' = active \cup {r} /\ UNCHANGED finished
       ELSE finished' = finished \cup {r} /\ UNCHANGED active
    /\ call' = Idle
    /\ UNCHANGED <<queue, answered, loopVars>>

SendRequest(r) ==
    /\ call = SendCall(r)
    /\ Construct(r)
    /\ IF conn'[r].state \in {"CONNECTING", "OPEN"}
       THEN /\ active' = active \cup {r}
            /\ call' = Idle
            /\ UNCHANGED finished
       ELSE /\ finished' = finished \cup {r}
            /\ call' = DequeueCall
            /\ UNCHANGED active
    /\ UNCHANGED <<queue, answered, loopVars>>

Dequeue ==
    /\ call = DequeueCall
    /\ IF queue # <<>>
       THEN call' = SendCall(Head(queue)) /\ queue' = Tail(queue)
       ELSE call' = Idle /\ UNCHANGED queue
    /\ UNCHANGED <<connVars, active, answered, finished, loopVars>>

\* Mutant: handleShutdown() does not find the connection to erase.
AfterCallbackKeepsSlot(c) ==
    /\ IF delivered'[c] > delivered[c]
       THEN answered' \in {answered, answered \cup {c}}
       ELSE UNCHANGED answered
    /\ IF conn'[c].state = "CLOSED"
       THEN finished' = finished \cup {c} /\ call' = DequeueCall
       ELSE UNCHANGED <<finished, call>>
    /\ UNCHANGED <<queue, active>>

\* Mutant: handleShutdown() does not go on to the queue.
AfterCallbackStops(c) ==
    /\ IF delivered'[c] > delivered[c]
       THEN answered' \in {answered, answered \cup {c}}
       ELSE UNCHANGED answered
    /\ IF conn'[c].state = "CLOSED"
       THEN active' = active \ {c} /\ finished' = finished \cup {c}
       ELSE UNCHANGED <<active, finished>>
    /\ UNCHANGED <<queue, call>>

\* A callback of c has run: handleIncoming() if it delivered data, and
\* handleShutdown() if it closed the connection.
AfterCallback(c) ==
    /\ IF delivered'[c] > delivered[c]
       THEN answered' \in {answered, answered \cup {c}}
       ELSE UNCHANGED answered
    /\ IF conn'[c].state = "CLOSED"
       THEN /\ active' = active \ {c}
            /\ finished' = finished \cup {c}
            /\ call' = DequeueCall
       ELSE UNCHANGED <<active, finished, call>>
    /\ UNCHANGED queue

-----------------------------------------------------------------------------
(* Loop::populateFds() *)

\* The members of S, smallest first.
Ascending(S) ==
    [i \in 1..Cardinality(S) |->
        CHOOSE n \in S : Cardinality({m \in S : m < n}) = i - 1]

\* The entries of a sequence at these positions, in their order.
EntriesAt(seq, positions) ==
    LET at == Ascending(positions)
    IN  [i \in DOMAIN at |-> seq[at[i]]]

EventsOf(h) ==
    (IF IsFree(readFns, h) THEN {} ELSE {"POLLIN"})
        \cup (IF IsFree(writeFns, h) THEN {} ELSE {"POLLOUT"})

\* Mutant: entries of the previous poll set are never removed.
PopulateFdsGrows(old) ==
    LET reads   == {h \in Handles : ~IsFree(readFns, h)}
        writes  == {h \in Handles : ~IsFree(writeFns, h)}
        kept    == [i \in DOMAIN old |-> old[i].fd]
        order   == kept \o Ascending((reads \cup writes) \ ToSet(kept))
    IN  [i \in DOMAIN order |-> [fd |-> order[i], events |-> EventsOf(order[i])]]

\* Mutant: the write map is left out.
PopulateFdsReadsOnly(old) ==
    LET order == Ascending({h \in Handles : ~IsFree(readFns, h)})
    IN  [i \in DOMAIN order |-> [fd |-> order[i], events |-> {"POLLIN"}]]

\* Descriptors keep their place, those with nothing registered go, and new
\* ones follow: from the read map, the write map, then the exception map.
PopulateFds(old) ==
    LET reads   == {h \in Handles : ~IsFree(readFns, h)}
        writes  == {h \in Handles : ~IsFree(writeFns, h)}
        excepts == {h \in Handles : exceptFns[h] # NoRequest}
        kept    == EntriesAt([i \in DOMAIN old |-> old[i].fd],
                             {i \in DOMAIN old :
                                old[i].fd \in reads \cup writes \cup excepts})
        order   == kept \o Ascending(reads \ ToSet(kept))
                        \o Ascending(writes \ (reads \cup ToSet(kept)))
                        \o Ascending(excepts \ (reads \cup writes \cup ToSet(kept)))
    IN  [i \in DOMAIN order |-> [fd |-> order[i], events |-> EventsOf(order[i])]]

-----------------------------------------------------------------------------
(* poll() *)

\* The connection that holds a descriptor, or NoRequest.
HolderOf(h) ==
    IF \E c \in Requests : conn[c].handle = h
    THEN CHOOSE c \in Requests : conn[c].handle = h
    ELSE NoRequest

\* A server socket that is not registered any more (module Lifecycle) stays
\* open as long as a request that came in by it is in progress.
IsOpen(h) ==
    \/ readFns[h].callback = "listen"
    \/ HolderOf(h) # NoRequest
    \/ h \in Listening \ {ConfigWatch} /\ (active # {} \/ queue # <<>>)

\* What poll() may report of an entry of its set.  POLLERR stands for
\* POLLERR, POLLHUP and POLLNVAL; a closed descriptor is always reported.
Reports(entry) ==
    IF IsOpen(entry.fd)
    THEN SUBSET (entry.events
                   \cup (IF entry.fd \in Listening THEN {} ELSE {"POLLERR"}))
    ELSE {{"POLLERR"}}

\* poll() does not block: it has waited long enough, or a descriptor of its
\* set is closed.
PollReturnsNow == pollLeft = 0 \/ \E i \in DOMAIN fds : ~IsOpen(fds[i].fd)

Poll ==
    /\ pc = "poll"
    /\ \E revents \in {f \in [DOMAIN fds -> SUBSET {"POLLIN", "POLLOUT", "POLLERR"}] :
                          \A i \in DOMAIN fds : f[i] \in Reports(fds[i])} :
        /\ pollLeft = 0 \/ \E i \in DOMAIN fds : revents[i] # {}
        /\ todo' = EntriesAt(
              [i \in DOMAIN fds |->
                  [fd |-> fds[i].fd, revents |-> revents[i],
                   holder |-> HolderOf(fds[i].fd)]],
              {i \in DOMAIN fds : revents[i] # {}})
    /\ pc' = "dispatch"
    /\ pollLeft' = NoTimeout     \* not used again before it is computed anew
    /\ UNCHANGED <<connVars, forwarderVars, fds, excepted, earliest, earliestRead>>

\* A second passes while the process is in poll().
Wait ==
    /\ pc = "poll"
    /\ Tick
    /\ pollLeft' = Elapsed(pollLeft)
    /\ UNCHANGED <<forwarderVars, pc, fds, todo, excepted, earliest, earliestRead>>

-----------------------------------------------------------------------------
(* The callbacks of the reported descriptors. *)

Dispatching == pc = "dispatch" /\ call = Idle /\ todo # <<>>

\* Mutant: errors are looked at first.
ErrorsFirst ==
    IF "POLLERR" \in Head(todo).revents THEN "POLLERR"
    ELSE IF "POLLIN" \in Head(todo).revents THEN "POLLIN" ELSE "POLLOUT"

\* The events of the descriptor in hand are looked at in this order.
NextEvent ==
    IF "POLLIN" \in Head(todo).revents THEN "POLLIN"
    ELSE IF "POLLOUT" \in Head(todo).revents THEN "POLLOUT" ELSE "POLLERR"

EventDone ==
    /\ todo' = IF Head(todo).revents = {NextEvent} THEN Tail(todo)
               ELSE [todo EXCEPT ![1].revents = @ \ {NextEvent}]
    /\ UNCHANGED <<pc, fds, pollLeft, excepted, earliest, earliestRead>>

\* The callback of a server socket.  There may be no message after all, or
\* one that is too big.
HandleDnsRequest ==
    /\ (\E r \in Requests : HandleRequest(r)) \/ UNCHANGED forwarderVars
    /\ UNCHANGED connVars

\* VyattaCheck::handleRead(): another file may have changed, or the new
\* configuration may be invalid.
ReloadConfiguration ==
    /\ (\E config \in Configs : SetForwarders(config)) \/ UNCHANGED connVars
    /\ UNCHANGED forwarderVars

ListenCallback(h) ==
    IF h = ConfigWatch THEN ReloadConfiguration ELSE HandleDnsRequest

\* Mutant: the callback is the one that was registered when poll() was called.
DispatchReadCached ==
    /\ Dispatching /\ NextEvent = "POLLIN"
    /\ LET h == Head(todo).fd
       IN  \/ IsFree(readFns, h) /\ h \notin Listening
              /\ UNCHANGED <<connVars, forwarderVars>>
           \/ h \in Listening /\ ListenCallback(h)
           \/ \E c \in Requests : ReadCallback(c, h) /\ AfterCallback(c)
    /\ EventDone

DispatchRead ==
    /\ Dispatching /\ NextEvent = "POLLIN"
    /\ LET h == Head(todo).fd
       IN  \/ IsFree(readFns, h) /\ UNCHANGED <<connVars, forwarderVars>>
           \/ readFns[h].callback = "listen" /\ ListenCallback(h)
           \/ \E c \in Requests : ReadCallback(c, h) /\ AfterCallback(c)
    /\ EventDone

DispatchWrite ==
    /\ Dispatching /\ NextEvent = "POLLOUT"
    /\ LET h == Head(todo).fd
       IN  \/ IsFree(writeFns, h) /\ UNCHANGED <<connVars, forwarderVars>>
           \/ \E c \in Requests : WriteCallback(c, h) /\ AfterCallback(c)
    /\ EventDone

DispatchError ==
    /\ Dispatching /\ NextEvent = "POLLERR"
    /\ LET h == Head(todo).fd
       IN  \/ exceptFns[h] = NoRequest /\ UNCHANGED <<connVars, forwarderVars>>
           \/ \E c \in Requests : RaiseException(c, h) /\ AfterCallback(c)
    /\ EventDone

\* The poll set is rebuilt, then timeout() begins.
EndDispatch ==
    /\ pc = "dispatch" /\ call = Idle /\ todo = <<>>
    /\ fds' = PopulateFds(fds)
    /\ pc' = "read timeouts"
    /\ excepted' = {}
    /\ earliest' = NoTimeout
    /\ UNCHANGED <<connVars, forwarderVars, pollLeft, todo, earliestRead>>

-----------------------------------------------------------------------------
(* Loop::timeout() *)

\* Mutant: m_readFunctions is scanned twice.
ScannedReadsOnly == readFns

Scanned == IF pc = "read timeouts" THEN readFns ELSE writeFns

\* timeout(now, functions) raises an exception for such an entry.
Overdue(h) ==
    /\ Scanned[h].time = 0
    /\ h \notin excepted
    /\ exceptFns[h] # NoRequest

\* `earliest' after passing over these entries of the map without raising:
\* the smallest time since the last entry without one, which is smaller than
\* any but is given up for the next.
EarliestOver(S) ==
    LET passed == {h \in S : ~IsFree(Scanned, h)}
        never  == {h \in passed : Scanned[h].time = NoTimeout}
        times  == {Scanned[h].time : h \in {g \in passed : \A n \in never : n < g}}
                    \cup (IF never = {} THEN {earliest} \ {NoTimeout} ELSE {})
    IN  IF times = {} THEN NoTimeout ELSE Min(times)

Scanning == pc \in {"read timeouts", "write timeouts"} /\ call = Idle

\* The first overdue entry is raised, and the scan starts again.
RaiseTimeout ==
    /\ Scanning
    /\ \E h \in Handles, c \in Requests :
        /\ Overdue(h)
        /\ \A g \in Handles : Overdue(g) => h <= g
        /\ RaiseException(c, h)
        /\ AfterCallback(c)
        /\ excepted' = excepted \cup {h}
        /\ earliest' = EarliestOver({g \in Handles : g < h})
    /\ UNCHANGED <<pc, fds, pollLeft, todo, earliestRead>>

\* A map without (more) overdue entries.  After the second one the smaller of
\* the two results, NoTimeout being the smallest, is the timeout of poll().
EndScan ==
    /\ Scanning
    /\ \A h \in Handles : ~Overdue(h)
    /\ LET result == EarliestOver(Handles)
       IN  IF pc = "read timeouts"
           THEN /\ earliestRead' = result
                /\ pc' = "write timeouts"
                /\ UNCHANGED pollLeft
           ELSE /\ pollLeft' = IF earliestRead < result THEN earliestRead ELSE result
                /\ earliestRead' = NoTimeout
                /\ pc' = "poll"
    /\ excepted' = {}
    /\ earliest' = NoTimeout
    /\ UNCHANGED <<connVars, forwarderVars, fds, todo>>

-----------------------------------------------------------------------------

\* Listening has begun; run() has called timeout() and populateFds() once.
Init ==
    /\ ConnInit
    /\ queue = <<>>
    /\ active = {}
    /\ call = Idle
    /\ answered = {}
    /\ finished = {}
    /\ pc = "poll"
    /\ fds = PopulateFds(<<>>)
    /\ pollLeft = NoTimeout
    /\ todo = <<>>
    /\ excepted = {}
    /\ earliest = NoTimeout
    /\ earliestRead = NoTimeout

Next ==
    \/ Poll
    \/ Wait
    \/ DispatchRead
    \/ DispatchWrite
    \/ DispatchError
    \/ EndDispatch
    \/ RaiseTimeout
    \/ EndScan
    \/ Dequeue
    \/ \E r \in Requests : SendRequest(r)

Spec == Init /\ [][Next]_vars

\* The thread goes on with what it is doing, and does not wait in a poll()
\* that has a reason to return.
Running ==
    \/ DispatchRead
    \/ DispatchWrite
    \/ DispatchError
    \/ EndDispatch
    \/ RaiseTimeout
    \/ EndScan
    \/ Dequeue
    \/ \E r \in Requests : SendRequest(r)
    \/ PollReturnsNow /\ Poll

\* Nothing is assumed of the network, nor of poll() while it may wait.  Time
\* passes, also for a process that is in poll() only now and then.
FairSpec == Spec /\ WF_vars(Running) /\ SF_vars(Wait)

-----------------------------------------------------------------------------

PollEvents == {"POLLIN", "POLLOUT", "POLLERR"}

TypeOK ==
    /\ ConnTypeOK
    /\ queue \in Seq(Requests)
    /\ active \subseteq Requests
    /\ call \in {Idle, DequeueCall} \cup {SendCall(r) : r \in Requests}
    /\ answered \subseteq Requests
    /\ finished \subseteq Requests
    /\ pc \in {"poll", "dispatch", "read timeouts", "write timeouts"}
    /\ fds \in Seq([fd : Handles, events : SUBSET {"POLLIN", "POLLOUT"}])
    /\ pollLeft \in {NoTimeout} \cup 0..Timeout
    /\ todo \in Seq([fd : Handles, revents : (SUBSET PollEvents) \ {{}},
                     holder : Requests \cup {NoRequest}])
    /\ excepted \subseteq Handles
    /\ {earliest, earliestRead} \subseteq {NoTimeout} \cup 0..Timeout

(***************************************************************************)
(* With the loop, the descriptors and the connections in place of the      *)
(* free choices, the dispatcher still does what ClientForwarders says, and *)
(* so keeps the promise of RequestService.  In particular a connection     *)
(* that ends, by whatever callback, frees its slot exactly once.           *)
(***************************************************************************)
Dispatcher == INSTANCE ClientForwarders WITH
    closing <- {c \in active : conn[c].state = "SHUTTING_DOWN"}

\* Every step of the proxy is a step of the dispatcher or none.
DispatcherSpec == Dispatcher!Spec

(***************************************************************************)
(* The connections that exist are those the dispatcher counts: a           *)
(* connection is live exactly while its request holds a slot, so the limit *)
(* on slots is a limit on sockets, and no slot leaks with a dead socket.   *)
(***************************************************************************)
SlotsAreConnections ==
    \A r \in Requests : r \in active <=> conn[r].state \in Live

(***************************************************************************)
(* Every pass of the loop ends what is overdue: the process never starts   *)
(* to wait with a connection whose time is up, whether it waits to read or *)
(* to write, and whatever the exceptions of the same pass opened.          *)
(***************************************************************************)
NothingOverdueAtPoll ==
    [][pc # "poll" /\ pc' = "poll" =>
        \A c \in Requests : conn[c].state \in Live => conn[c].timeLeft > 0]_vars

\* The poll set is what is registered, each descriptor once, with the events
\* of its current callbacks.
PollSetIsRegistered ==
    /\ ToSet(fds) =
        {[fd |-> h, events |-> EventsOf(h)] : h \in
            {g \in Handles : EventsOf(g) # {} \/ exceptFns[g] # NoRequest}}
    /\ \A i, j \in DOMAIN fds : fds[i].fd = fds[j].fd => i = j

(***************************************************************************)
(* The poll set that a pass builds is exactly what is then registered,     *)
(* although it is patched from the previous one and descriptors are used   *)
(* again.  The timeouts of the pass come after that: what they register is *)
(* not in the poll set until the next pass.                                *)
(***************************************************************************)
PollSetExact ==
    [][pc # "read timeouts" /\ pc' = "read timeouts" => PollSetIsRegistered']_vars

(***************************************************************************)
(* A connection reads only what poll() reported for its own socket: a      *)
(* reported descriptor that was closed and opened again earlier in the     *)
(* same pass never feeds the new connection the old one's POLLIN.  This is *)
(* not so of the POLLOUT and POLLERR of the same report, which reach the   *)
(* connection that the callback for POLLIN has put on the descriptor.      *)
(***************************************************************************)
ReadsReachTheirSocket ==
    Dispatching /\ NextEvent = "POLLIN" =>
        readFns[Head(todo).fd].owner \in {NoRequest, Head(todo).holder}

(***************************************************************************)
(* As long as something, for instance other clients, makes poll() return   *)
(* again and again, each request that arrives is finished: its forwarder   *)
(* answered, failed, or ran out of time.                                   *)
(***************************************************************************)
FinishedUnderTraffic ==
    []<>(pc = "dispatch") =>
        \A r \in Requests : (r \in Received) ~> (r \in finished)

(***************************************************************************)
(* "By default, forwarders have 5 seconds to reply before the request is   *)
(* dropped" (README.md:189): a request that a connection took is finished, *)
(* by the passing of time alone if the forwarder stays silent.             *)
(***************************************************************************)
DroppedInTime == \A r \in Requests : (r \in active) ~> (r \in finished)

=============================================================================
