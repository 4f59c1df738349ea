------------------------ MODULE ForwarderConnection ------------------------
(***************************************************************************)
(* The TLS connections to forwarders (src/src/forwarder_connection.cpp)    *)
(* and the callbacks they register with the event loop (the three maps of  *)
(* src/src/loop.cpp and the Registration objects of src/src/i_loop.cpp).   *)
(*                                                                         *)
(* sendRequest() makes one ForwarderConnection for one request, so a       *)
(* connection is named by its request.  Registered callbacks fire in any   *)
(* order here, and an exception may be raised at any time: module Dote     *)
(* adds the loop that decides when.  What OpenSSL answers is a choice      *)
(* among the members of SslConnection::Result.                             *)
(*                                                                         *)
(* Time is relative: a registration's time is the number of seconds left   *)
(* until the loop raises an exception, and NoTimeout stands for the 0 that *)
(* the code passes for "never".                                            *)
(***************************************************************************)
EXTENDS Integers, FiniteSets, ForwarderList

CONSTANTS
    Requests,       \* the client requests
    NoRequest,      \* the owner of a callback that is not a connection's
    NoForwarder,    \* m_forwarder of a connection that was given none
    Handles,        \* file descriptors
    Listening,      \* those of the server sockets and the inotify watch
    Timeout         \* ForwarderConfig::m_timeout, in seconds

ASSUME ConnectionAssumption ==
    /\ NoRequest \notin Requests
    /\ NoForwarder \notin Forwarders
    /\ Handles \subseteq Nat \ {0}
    /\ Listening \subseteq Handles
    /\ Timeout \in Nat \ {0}

VARIABLES
    forwarders,     \* ForwarderConfig::m_forwarders
    reported,       \* history: entries reported bad since the last load
    conn,           \* the ForwarderConnection of each request
    readFns,        \* Loop::m_readFunctions
    writeFns,       \* Loop::m_writeFunctions
    exceptFns,      \* Loop::m_exceptFunctions: the connection to call
    delivered       \* history: how often a connection delivered data

connVars ==
    <<forwarders, reported, conn, readFns, writeFns, exceptFns, delivered>>

NoHandle == 0
NoTimeout == -1

-----------------------------------------------------------------------------
(* The maps of the loop. *)

Registration(owner, callback, time) ==
    [owner |-> owner, callback |-> callback, time |-> time]

NotRegistered == Registration(NoRequest, "none", NoTimeout)

IsFree(fns, h) == fns[h].callback = "none"

\* Loop::registerRead() and registerWrite(): a handle already in the map
\* keeps its callback, and the Registration returned is not valid.
Register(fns, h, registration) ==
    IF IsFree(fns, h) THEN [fns EXCEPT ![h] = registration] ELSE fns

\* Registration::reset(), which removes the handle if the object is valid.
Reset(fns, h, valid) ==
    IF valid THEN [fns EXCEPT ![h] = NotRegistered] ELSE fns

-----------------------------------------------------------------------------
(* The connections. *)

Live == {"CONNECTING", "OPEN", "SHUTTING_DOWN"}

\* A connection whose constructor got as far as a socket.  The request is
\* already in m_buffer: send() follows the constructor at once.
Connecting(f, h) ==
    [state |-> "CONNECTING", handle |-> h, forwarder |-> f,
     timeLeft |-> Timeout, buffer |-> TRUE,
     read |-> FALSE, write |-> FALSE, except |-> exceptFns[h] = NoRequest]

WithoutSocket(state, f) ==
    [state |-> state, handle |-> NoHandle, forwarder |-> f,
     timeLeft |-> 0, buffer |-> FALSE,
     read |-> FALSE, write |-> FALSE, except |-> FALSE]

FreeHandles == Handles \ (Listening \cup {conn[c].handle : c \in Requests})

\* POSIX gives out the lowest descriptor that is not in use.
LowestFree(h) == h \in FreeHandles /\ \A g \in FreeHandles : h <= g

\* Mutant: the forwarder in use now is moved, not the one that failed.
ReportedMovesFirst(f) ==
    /\ forwarders' = Demote(forwarders, Head(forwarders))
    /\ reported' = reported \cup {f}

Reported(f) ==
    /\ forwarders' = Demote(forwarders, f)
    /\ reported' = reported \cup {f}

NotReported == UNCHANGED <<forwarders, reported>>

(***************************************************************************)
(* The parts the handlers share.  k, rf, wf and xf are the connection and  *)
(* the loop's maps as the handler has left them so far.                    *)
(***************************************************************************)
\* Mutant: the write registration outlives the socket.
CloseKeepsWrite(c, k, rf, wf, xf) ==
    /\ readFns' = Reset(rf, k.handle, k.read)
    /\ writeFns' = wf
    /\ exceptFns' = IF k.except THEN [xf EXCEPT ![k.handle] = NoRequest] ELSE xf
    /\ conn' = [conn EXCEPT ![c] = WithoutSocket("CLOSED", k.forwarder)]

\* Mutant: m_state is not set.
CloseKeepsState(c, k, rf, wf, xf) ==
    /\ readFns' = Reset(rf, k.handle, k.read)
    /\ writeFns' = Reset(wf, k.handle, k.write)
    /\ exceptFns' = IF k.except THEN [xf EXCEPT ![k.handle] = NoRequest] ELSE xf
    /\ conn' = [conn EXCEPT ![c] = WithoutSocket(k.state, k.forwarder)]

\* close(): the registrations and the socket go; m_shutdown is the caller's.
Close(c, k, rf, wf, xf) ==
    /\ readFns' = Reset(rf, k.handle, k.read)
    /\ writeFns' = Reset(wf, k.handle, k.write)
    /\ exceptFns' = IF k.except THEN [xf EXCEPT ![k.handle] = NoRequest] ELSE xf
    /\ conn' = [conn EXCEPT ![c] = WithoutSocket("CLOSED", k.forwarder)]

\* Mutant: only the write registration is dealt with.
AwaitReadUnregistered(c, k, rf, wf, callback) ==
    /\ readFns' = rf
    /\ writeFns' = Reset(wf, k.handle, k.write)
    /\ conn' = [conn EXCEPT ![c] = [k EXCEPT !.write = FALSE]]

\* NEED_READ in connect() and _shutdown().
AwaitRead(c, k, rf, wf, callback) ==
    /\ readFns' = IF k.read THEN rf
                  ELSE Register(rf, k.handle, Registration(c, callback, k.timeLeft))
    /\ writeFns' = Reset(wf, k.handle, k.write)
    /\ conn' = [conn EXCEPT ![c] = [k EXCEPT
                    !.read = k.read \/ IsFree(rf, k.handle), !.write = FALSE]]

\* NEED_WRITE in connect() and _shutdown().
AwaitWrite(c, k, rf, wf, callback) ==
    /\ writeFns' = IF k.write THEN wf
                   ELSE Register(wf, k.handle, Registration(c, callback, k.timeLeft))
    /\ readFns' = Reset(rf, k.handle, k.read)
    /\ conn' = [conn EXCEPT ![c] = [k EXCEPT
                    !.write = k.write \/ IsFree(wf, k.handle), !.read = FALSE]]

\* Mutant: the handshake's read callback is not reset first.
OpenedKeepsHandshake(c, k) ==
    LET wf == Reset(writeFns, k.handle, k.write)
    IN  /\ readFns' = Register(readFns, k.handle,
                               Registration(c, "incoming", k.timeLeft))
        /\ writeFns' = IF k.buffer
                       THEN Register(wf, k.handle,
                                     Registration(c, "outgoing", k.timeLeft))
                       ELSE wf
        /\ conn' = [conn EXCEPT ![c] = [k EXCEPT
                        !.state = "OPEN", !.read = TRUE, !.write = k.buffer]]

\* Mutant: the buffered request is left to a later send().
OpenedSendsNothing(c, k) ==
    LET rf == Reset(readFns, k.handle, k.read)
    IN  /\ readFns' = Register(rf, k.handle,
                               Registration(c, "incoming", k.timeLeft))
        /\ writeFns' = Reset(writeFns, k.handle, k.write)
        /\ conn' = [conn EXCEPT ![c] = [k EXCEPT
                        !.state = "OPEN", !.read = TRUE, !.write = FALSE]]

\* SUCCESS in connect(): from handshaking to sending and receiving.
Opened(c, k) ==
    LET rf == Reset(readFns, k.handle, k.read)
        wf == Reset(writeFns, k.handle, k.write)
    IN  /\ readFns' = Register(rf, k.handle,
                               Registration(c, "incoming", k.timeLeft))
        /\ writeFns' = IF k.buffer
                       THEN Register(wf, k.handle,
                                     Registration(c, "outgoing", k.timeLeft))
                       ELSE wf
        /\ conn' = [conn EXCEPT ![c] = [k EXCEPT
                        !.state = "OPEN",
                        !.read = IsFree(rf, k.handle),
                        !.write = k.buffer /\ IsFree(wf, k.handle)]]

\* connect(), from the constructor or as a callback.
Handshake(c, k, xf) ==
    \/ /\ \/ AwaitRead(c, k, readFns, writeFns, "connect")
          \/ AwaitWrite(c, k, readFns, writeFns, "connect")
          \/ Opened(c, k)
       /\ exceptFns' = xf
       /\ NotReported
    \/ /\ Close(c, k, readFns, writeFns, xf)
       /\ \/ Reported(k.forwarder)      \* FATAL
          \/ NotReported                \* CLOSED

\* Mutant: the callback of connect() is registered for the shutdown.
CloseNotifyReconnects(c, k, rf, wf) ==
    LET down == [k EXCEPT !.state = "SHUTTING_DOWN"]
    IN  \/ /\ \/ AwaitRead(c, down, rf, wf, "connect")
              \/ AwaitWrite(c, down, rf, wf, "connect")
           /\ UNCHANGED exceptFns
        \/ Close(c, down, rf, wf, exceptFns)

\* _shutdown(), from shutdown() or as a callback.
CloseNotify(c, k, rf, wf) ==
    LET down == [k EXCEPT !.state = "SHUTTING_DOWN"]
    IN  \/ /\ \/ AwaitRead(c, down, rf, wf, "_shutdown")
              \/ AwaitWrite(c, down, rf, wf, "_shutdown")
           /\ UNCHANGED exceptFns
        \/ Close(c, down, rf, wf, exceptFns)

-----------------------------------------------------------------------------
(* The operations. *)

\* The constructor, and the send() that sendRequest() calls next.  The new
\* connection is CLOSED if there was nothing to connect to, if there was no
\* socket (which blames the forwarder), or if connect() failed at once.
Construct(c) ==
    /\ conn[c].state = "NONE"
    /\ \/ /\ conn' = [conn EXCEPT ![c] = WithoutSocket("CLOSED", NoForwarder)]
          /\ UNCHANGED <<readFns, writeFns, exceptFns>>
          /\ NotReported
       \/ \E f \in Preferred(forwarders) :
            /\ conn' = [conn EXCEPT ![c] = WithoutSocket("CLOSED", f)]
            /\ UNCHANGED <<readFns, writeFns, exceptFns>>
            /\ Reported(f)
       \/ \E f \in Preferred(forwarders), h \in FreeHandles :
            /\ LowestFree(h)
            /\ Handshake(c, Connecting(f, h),
                         [exceptFns EXCEPT ![h] = IF @ = NoRequest THEN c ELSE @])
    /\ UNCHANGED delivered

Connect(c) ==
    /\ Handshake(c, conn[c], exceptFns)
    /\ UNCHANGED delivered

\* incoming(): nothing to read yet.
IncomingNothing(c) == UNCHANGED connVars

\* Mutant: the connection is kept open after the response.
IncomingDataStaysOpen(c) ==
    /\ delivered' = [delivered EXCEPT ![c] = @ + 1]
    /\ NotReported
    /\ UNCHANGED <<conn, readFns, writeFns, exceptFns>>

\* incoming(): data for m_incoming, whose last call is shutdown().
IncomingData(c) ==
    /\ delivered' = [delivered EXCEPT ![c] = @ + 1]
    /\ NotReported
    /\ IF conn[c].state \in {"CONNECTING", "OPEN"}
       THEN CloseNotify(c, [conn[c] EXCEPT !.read = FALSE, !.write = FALSE],
                        Reset(readFns, conn[c].handle, conn[c].read),
                        Reset(writeFns, conn[c].handle, conn[c].write))
       ELSE UNCHANGED <<conn, readFns, writeFns, exceptFns>>

\* incoming() and outgoing(): FATAL blames the forwarder, CLOSED does not.
Lost(c) ==
    /\ Close(c, conn[c], readFns, writeFns, exceptFns)
    /\ \/ Reported(conn[c].forwarder)
       \/ NotReported
    /\ UNCHANGED delivered

ContinueShutdown(c) ==
    /\ CloseNotify(c, conn[c], readFns, writeFns)
    /\ NotReported
    /\ UNCHANGED delivered

\* outgoing(): SUCCESS.
OutgoingSent(c) ==
    /\ conn' = [conn EXCEPT ![c].buffer = FALSE, ![c].write = FALSE]
    /\ writeFns' = Reset(writeFns, conn[c].handle, conn[c].write)
    /\ NotReported
    /\ UNCHANGED <<readFns, exceptFns, delivered>>

\* outgoing(): not writable after all.
OutgoingBlocked(c) == UNCHANGED connVars

\* exception(): an error event or a timeout.
Exception(c) ==
    /\ IF conn[c].state = "CONNECTING"
       THEN Reported(conn[c].forwarder)
       ELSE NotReported
    /\ Close(c, conn[c], readFns, writeFns, exceptFns)
    /\ UNCHANGED delivered

-----------------------------------------------------------------------------
(* The loop calls what is registered. *)

ReadCallback(c, h) ==
    /\ readFns[h].owner = c
    /\ \/ readFns[h].callback = "connect" /\ Connect(c)
       \/ readFns[h].callback = "incoming"
          /\ (IncomingNothing(c) \/ IncomingData(c) \/ Lost(c))
       \/ readFns[h].callback = "_shutdown" /\ ContinueShutdown(c)

WriteCallback(c, h) ==
    /\ writeFns[h].owner = c
    /\ \/ writeFns[h].callback = "connect" /\ Connect(c)
       \/ writeFns[h].callback = "outgoing"
          /\ (OutgoingBlocked(c) \/ OutgoingSent(c) \/ Lost(c))
       \/ writeFns[h].callback = "_shutdown" /\ ContinueShutdown(c)

\* Loop::raiseException()
RaiseException(c, h) ==
    /\ exceptFns[h] = c
    /\ Exception(c)

\* A second passes.
Elapsed(time) == IF time > 0 THEN time - 1 ELSE time

Tick ==
    /\ conn' = [c \in Requests |->
                    [conn[c] EXCEPT !.timeLeft = Elapsed(@)]]
    /\ readFns' = [h \in Handles |-> [readFns[h] EXCEPT !.time = Elapsed(@)]]
    /\ writeFns' = [h \in Handles |-> [writeFns[h] EXCEPT !.time = Elapsed(@)]]
    /\ UNCHANGED <<forwarders, reported, exceptFns, delivered>>

\* Dote::setForwarders()
SetForwarders(config) ==
    /\ forwarders' = config
    /\ reported' = {}
    /\ UNCHANGED <<conn, readFns, writeFns, exceptFns, delivered>>

ConnInit ==
    /\ forwarders \in Configs
    /\ reported = {}
    /\ conn = [c \in Requests |-> WithoutSocket("NONE", NoForwarder)]
    /\ readFns = [h \in Handles |->
                    IF h \in Listening
                    THEN Registration(NoRequest, "listen", NoTimeout)
                    ELSE NotRegistered]
    /\ writeFns = [h \in Handles |-> NotRegistered]
    /\ exceptFns = [h \in Handles |-> NoRequest]
    /\ delivered = [c \in Requests |-> 0]

ConnNext ==
    \/ \E c \in Requests :
        \/ Construct(c)
        \/ \E h \in Handles :
            ReadCallback(c, h) \/ WriteCallback(c, h) \/ RaiseException(c, h)
    \/ Tick
    \/ \E config \in Configs : SetForwarders(config)

ConnSpec == ConnInit /\ [][ConnNext]_connVars

-----------------------------------------------------------------------------

Callbacks == {"none", "listen", "connect", "incoming", "outgoing", "_shutdown"}

Registrations ==
    [owner : Requests \cup {NoRequest}, callback : Callbacks,
     time : Int]

Connections ==
    [state : {"NONE", "CLOSED"} \cup Live,
     handle : Handles \cup {NoHandle},
     forwarder : Forwarders \cup {NoForwarder},
     timeLeft : 0..Timeout,
     buffer : BOOLEAN, read : BOOLEAN, write : BOOLEAN, except : BOOLEAN]

ConnTypeOK ==
    /\ forwarders \in Seq(Forwarders)
    /\ reported \subseteq Forwarders
    /\ conn \in [Requests -> Connections]
    /\ readFns \in [Handles -> Registrations]
    /\ writeFns \in [Handles -> Registrations]
    /\ exceptFns \in [Handles -> Requests \cup {NoRequest}]
    /\ delivered \in [Requests -> Nat]
    /\ \A c \in Requests :
        IF conn[c].state \in Live
        THEN conn[c].handle \in Handles \ Listening
        ELSE conn[c] = WithoutSocket(conn[c].state, conn[c].forwarder)

(***************************************************************************)
(* What a connection believes it has registered is what the loop has: a    *)
(* valid Registration of a connection is the loop's entry for its handle,  *)
(* and every entry of the loop that is a connection's belongs to a live    *)
(* connection that holds the Registration for it.  Otherwise a callback    *)
(* would run on a destroyed object, or one connection would remove the     *)
(* callback of the next user of its descriptor.                            *)
(***************************************************************************)
RegistrationsAgree ==
    \A c \in Requests, h \in Handles :
        /\ readFns[h].owner = c <=> conn[c].handle = h /\ conn[c].read
        /\ writeFns[h].owner = c <=> conn[c].handle = h /\ conn[c].write
        /\ exceptFns[h] = c <=> conn[c].handle = h /\ conn[c].except

(***************************************************************************)
(* The loop can always end a connection: one that holds a socket waits to  *)
(* read or to write with its own deadline, and has the exception callback  *)
(* without which Loop::timeout() cannot close it.                          *)
(***************************************************************************)
AlwaysWatched ==
    \A c \in Requests :
        LET k == conn[c]
        IN  k.state \in Live =>
                /\ k.except
                /\ k.read \/ k.write
                /\ k.read => readFns[k.handle].time = k.timeLeft
                /\ k.write => writeFns[k.handle].time = k.timeLeft

(***************************************************************************)
(* The callback that is registered belongs to the state the connection is  *)
(* in, so no handler runs in a state it was not written for: none sends on *)
(* a connection that is handshaking or shutting down, and data that comes  *)
(* after shutdown() is never taken for a response.                         *)
(***************************************************************************)
CallbackFitsState ==
    \A c \in Requests, h \in Handles :
        /\ readFns[h].owner = c =>
            readFns[h].callback = CASE conn[c].state = "CONNECTING" -> "connect"
                                    [] conn[c].state = "OPEN" -> "incoming"
                                    [] OTHER -> "_shutdown"
        /\ writeFns[h].owner = c =>
            writeFns[h].callback = CASE conn[c].state = "CONNECTING" -> "connect"
                                     [] conn[c].state = "OPEN" -> "outgoing"
                                     [] OTHER -> "_shutdown"

(***************************************************************************)
(* A request that was accepted is not forgotten: once the handshake is     *)
(* over, an unsent request has a write callback waiting to send it, and    *)
(* the connection goes on listening for the response.                      *)
(***************************************************************************)
UnsentIsScheduled ==
    \A c \in Requests :
        conn[c].state = "OPEN" =>
            /\ conn[c].read
            /\ conn[c].buffer <=> conn[c].write

(***************************************************************************)
(* A client gets at most one response to a request, however often its      *)
(* connection is readable.                                                 *)
(***************************************************************************)
AtMostOneDelivery == \A c \in Requests : delivered[c] <= 1

StateRank ==
    [s \in {"NONE", "CLOSED"} \cup Live |->
        CASE s = "NONE" -> 0 [] s = "CONNECTING" -> 1 [] s = "OPEN" -> 2
          [] s = "SHUTTING_DOWN" -> 3 [] s = "CLOSED" -> 4]

(***************************************************************************)
(* A connection only goes forward: it is not reopened, shut down twice, or *)
(* put back to handshaking by a late callback, and its descriptor is its   *)
(* own until it is closed.                                                 *)
(***************************************************************************)
OnlyForward ==
    [][\A c \in Requests :
        /\ StateRank[conn[c].state] <= StateRank[conn'[c].state]
        /\ conn[c].state \in Live /\ conn'[c].state \in Live =>
            conn[c].handle = conn'[c].handle]_connVars

(***************************************************************************)
(* The connections use the forwarder list as module ForwarderConfig says:  *)
(* they report only forwarders that get() gave them.                       *)
(***************************************************************************)
Config == INSTANCE ForwarderConfig WITH
    chosen <- {conn[c].forwarder : c \in Requests} \ {NoForwarder}

\* Every step of a connection is a step of the forwarder list or none.
ConfigSpec == Config!ConfigSpec

(***************************************************************************)
(* Fail-over: a new connection goes to a forwarder that was reported bad   *)
(* only if all of them were since the configuration was loaded, although   *)
(* reports arrive late, from connections of other ages and of earlier      *)
(* configurations.                                                         *)
(***************************************************************************)
FailsOver == Config!GoodBeforeBad

=============================================================================
