--------------------- MODULE ForwarderConnection_proof ---------------------
(***************************************************************************)
(* Proofs about ForwarderConnection for every number of connections and    *)
(* descriptors and every timeout: connections and the loop's maps agree,   *)
(* whatever callbacks fire, time out and fail in whatever order, and       *)
(* however often descriptors are used again.                               *)
(***************************************************************************)
EXTENDS ForwarderConnection, ForwarderList_proof, TLAPS

ReadCallbackIn(state) ==
    CASE state = "CONNECTING" -> "connect"
      [] state = "OPEN" -> "incoming"
      [] OTHER -> "_shutdown"

WriteCallbackIn(state) ==
    CASE state = "CONNECTING" -> "connect"
      [] state = "OPEN" -> "outgoing"
      [] OTHER -> "_shutdown"

\* Of the entries of a map of the loop, just that of `handle' is c's, if c
\* holds a valid Registration for it.
Holds(c, fns, handle, valid) ==
    \A h \in Handles : fns[h].owner = c <=> handle = h /\ valid

\* A map of the loop in which only `listening' have callbacks that are not a
\* connection's, without a time.
MapOK(fns, listening) ==
    /\ fns \in [Handles -> Registrations]
    /\ \A h \in Handles :
        fns[h].owner = NoRequest =>
            /\ fns[h].time = NoTimeout
            /\ \/ fns[h].callback = "none"
               \/ fns[h].callback = "listen" /\ h \in listening

ExceptsOK(fns) == fns \in [Handles -> Requests \cup {NoRequest}]

\* The record k of connection c goes with the maps of the loop.
Fits(c, k, rf, wf, xf) ==
    /\ k \in Connections
    /\ Holds(c, rf, k.handle, k.read)
    /\ Holds(c, wf, k.handle, k.write)
    /\ \A h \in Handles : xf[h] = c <=> k.handle = h /\ k.except
    /\ k.read =>
        /\ rf[k.handle].callback = ReadCallbackIn(k.state)
        /\ rf[k.handle].time = k.timeLeft
    /\ k.write =>
        /\ wf[k.handle].callback = WriteCallbackIn(k.state)
        /\ wf[k.handle].time = k.timeLeft
    /\ k.state \in Live =>
        /\ k.handle \in Handles \ Listening
        /\ k.forwarder \in Forwarders
        /\ k.except
        /\ k.read \/ k.write
    /\ k.state \notin Live => k = WithoutSocket(k.state, k.forwarder)
    /\ k.state = "OPEN" => k.read /\ (k.buffer <=> k.write)
    /\ k.state = "NONE" => k.forwarder = NoForwarder

\* Data is delivered at most once, and shutdown() follows at once.
DeliveryOK(k, times) ==
    /\ times \in 0..1
    /\ k.state \in {"NONE", "CONNECTING", "OPEN"} => times = 0

(***************************************************************************)
(* The inductive invariant.  The properties the runs check say what holds  *)
(* of each connection; to keep them a handler must also know that entries  *)
(* of nobody have no callback but those of the listening sockets, so that  *)
(* registerRead() and registerWrite() on a new descriptor cannot fail, and *)
(* that nothing was delivered before the connection is told to shut down.  *)
(***************************************************************************)
ConnInv ==
    /\ forwarders \in Seq(Forwarders)
    /\ reported \subseteq Forwarders
    /\ conn \in [Requests -> Connections]
    /\ MapOK(readFns, Listening)
    /\ MapOK(writeFns, {})
    /\ ExceptsOK(exceptFns)
    /\ delivered \in [Requests -> Nat]
    /\ \A c \in Requests : Fits(c, conn[c], readFns, writeFns, exceptFns)
    /\ \A c \in Requests : DeliveryOK(conn[c], delivered[c])

-----------------------------------------------------------------------------
(* The maps of the loop. *)

\* A map in which nobody but c may hold the entry of h, and c does if valid.
MapFor(c, fns, h, valid, listening) ==
    /\ MapOK(fns, listening)
    /\ Holds(c, fns, h, valid)
    /\ fns[h].owner \in {c, NoRequest}

(***************************************************************************)
(* What a connection holds in a map depends only on whose the entries are. *)
(***************************************************************************)
LEMMA HoldsBySameOwner ==
    ASSUME NEW c, NEW old, NEW new, NEW handle, NEW valid,
           Holds(c, old, handle, valid),
           \A h \in Handles : new[h].owner = old[h].owner
    PROVE  Holds(c, new, handle, valid)
BY DEF Holds

(***************************************************************************)
(* Registration::reset(), registerRead() and registerWrite() leave the     *)
(* entries of other handles as they were.                                  *)
(***************************************************************************)
LEMMA Elsewhere ==
    ASSUME NEW fns, NEW listening, MapOK(fns, listening), NEW h, NEW valid, NEW entry,
           NEW g \in Handles \ {h}
    PROVE  /\ Reset(fns, h, valid)[g] = fns[g]
           /\ Register(fns, h, entry)[g] = fns[g]
BY DEF MapOK, Reset, Register

(***************************************************************************)
(* Registration::reset() on an entry that is the caller's, or nobody's,    *)
(* leaves the handle free.                                                 *)
(***************************************************************************)
LEMMA Resetting ==
    ASSUME NEW c \in Requests, NEW listening, NEW h \in Handles \ listening,
           NEW valid \in BOOLEAN, NEW fns, MapFor(c, fns, h, valid, listening)
    PROVE  /\ MapFor(c, Reset(fns, h, valid), h, FALSE, listening)
           /\ IsFree(Reset(fns, h, valid), h)
<1>. DEFINE new == Reset(fns, h, valid)
<1>. USE ConnectionAssumption DEF MapFor, MapOK, Holds
<1>1. NotRegistered \in Registrations /\ NotRegistered.owner = NoRequest
      /\ NotRegistered.callback = "none" /\ NotRegistered.time = NoTimeout
  BY DEF NotRegistered, Registration, Registrations, Callbacks, NoTimeout
<1>2. CASE valid
  <2>1. new = [fns EXCEPT ![h] = NotRegistered] /\ fns \in [Handles -> Registrations]
    BY <1>2 DEF Reset
  <2>2. new[h] = NotRegistered /\ \A g \in Handles \ {h} : new[g] = fns[g]
    BY <2>1
  <2>3. new \in [Handles -> Registrations]
    <3>1. NotRegistered \in Registrations
      BY <1>1
    <3>. HIDE DEF new, MapFor, MapOK, Holds
    <3>. QED  BY <2>1, <3>1
  <2>. HIDE DEF new
  <2>4. MapOK(new, listening)
    BY <1>1, <2>2, <2>3
  <2>5. \A g \in Handles : new[g].owner # c
    <3>1. NoRequest # c /\ new[h].owner # c
      BY <1>1, <2>2
    <3>2. \A g \in Handles \ {h} : fns[g].owner # c
      OBVIOUS
    <3>3. \A g \in Handles \ {h} : new[g].owner # c
      BY <2>2, <3>2
    <3>. QED  BY <3>1, <3>3
  <2>. QED  BY <1>1, <2>2, <2>4, <2>5 DEF IsFree, new
<1>3. CASE ~valid
  <2>1. new = fns
    BY <1>3 DEF Reset
  <2>2. fns[h].owner = NoRequest
    BY <1>3
  <2>. QED  BY <1>3, <2>1, <2>2 DEF IsFree
<1>. QED  BY <1>2, <1>3

(***************************************************************************)
(* Loop::registerRead() and registerWrite() succeed on a handle that is    *)
(* nobody's.                                                               *)
(***************************************************************************)
LEMMA Registering ==
    ASSUME NEW c \in Requests, NEW listening, NEW h \in Handles \ listening,
           NEW fns, MapFor(c, fns, h, FALSE, listening),
           NEW callback \in Callbacks, NEW time \in Int
    PROVE  /\ IsFree(fns, h)
           /\ MapFor(c, Register(fns, h, Registration(c, callback, time)), h,
                     TRUE, listening)
<1>. DEFINE entry == Registration(c, callback, time)
            new == Register(fns, h, entry)
<1>. USE ConnectionAssumption DEF MapFor, MapOK, Holds
<1>1. /\ entry \in Registrations /\ entry.owner = c
      /\ entry.callback = callback /\ entry.time = time
  BY DEF Registration, Registrations
<1>2. IsFree(fns, h)
  BY DEF IsFree
<1>. HIDE DEF entry
<1>3. new = [fns EXCEPT ![h] = entry]
  BY <1>2 DEF Register
<1>4. new[h] = entry /\ \A g \in Handles \ {h} : new[g] = fns[g]
  BY <1>3
<1>5. new \in [Handles -> Registrations]
  BY <1>1, <1>3
<1>. HIDE DEF new
<1>6. MapOK(new, listening)
  BY <1>1, <1>4, <1>5
<1>7. Holds(c, new, h, TRUE)
  BY <1>1, <1>4
<1>8. MapFor(c, new, h, TRUE, listening)
  BY <1>1, <1>4, <1>6, <1>7
<1>. QED  BY <1>1, <1>2, <1>4, <1>8 DEF new, entry

-----------------------------------------------------------------------------
(* What the parts the handlers share leave behind. *)

\* A handler of c may work on the record k, with the maps as it left them so
\* far: nothing but the entries of k's descriptor has changed.
Ready(c, k, rf, wf, xf) ==
    /\ k \in Connections
    /\ k.handle \in Handles \ Listening
    /\ k.forwarder \in Forwarders
    /\ k.except
    /\ k.state # "NONE"
    /\ MapFor(c, rf, k.handle, k.read, Listening)
    /\ MapFor(c, wf, k.handle, k.write, {})
    /\ ExceptsOK(xf)
    /\ xf[k.handle] = c
    /\ \A g \in Handles \ {k.handle} :
        /\ rf[g] = readFns[g]
        /\ wf[g] = writeFns[g]
        /\ xf[g] = exceptFns[g]
        /\ xf[g] # c

\* The handler has returned: c's record fits the maps, of which it changed
\* no entry but those of the descriptor h.
Outcome(c, h) ==
    /\ conn' = [conn EXCEPT ![c] = conn'[c]]
    /\ Fits(c, conn'[c], readFns', writeFns', exceptFns')
    /\ conn'[c].state # "NONE"
    /\ conn'[c].state \in Live => conn'[c].handle = h
    /\ MapOK(readFns', Listening)
    /\ MapOK(writeFns', {})
    /\ ExceptsOK(exceptFns')
    /\ readFns'[h].owner \in {c, NoRequest}
    /\ writeFns'[h].owner \in {c, NoRequest}
    /\ exceptFns'[h] \in {c, NoRequest}
    /\ \A g \in Handles \ {h} :
        /\ readFns'[g] = readFns[g]
        /\ writeFns'[g] = writeFns[g]
        /\ exceptFns'[g] = exceptFns[g]

\* The registrations that k still has are those of its state.
Scheduled(k, rf, wf) ==
    /\ k.read =>
        /\ rf[k.handle].callback = ReadCallbackIn(k.state)
        /\ rf[k.handle].time = k.timeLeft
    /\ k.write =>
        /\ wf[k.handle].callback = WriteCallbackIn(k.state)
        /\ wf[k.handle].time = k.timeLeft

(***************************************************************************)
(* The record without a socket fits maps in which nothing is c's.          *)
(***************************************************************************)
LEMMA WithoutSocketFits ==
    ASSUME NEW c \in Requests, NEW f \in Forwarders \cup {NoForwarder},
           NEW state \in {"NONE", "CLOSED"}, state = "NONE" => f = NoForwarder,
           NEW rf, NEW wf, NEW xf,
           \A h \in Handles : rf[h].owner # c /\ wf[h].owner # c /\ xf[h] # c
    PROVE  Fits(c, WithoutSocket(state, f), rf, wf, xf)
<1>. DEFINE k == WithoutSocket(state, f)
<1>1. /\ k.state = state /\ k.handle = 0 /\ k.forwarder = f /\ k.timeLeft = 0
      /\ k.buffer = FALSE /\ k.read = FALSE /\ k.write = FALSE /\ k.except = FALSE
  BY DEF WithoutSocket, NoHandle
<1>2. k \in Connections
  BY ConnectionAssumption DEF WithoutSocket, NoHandle, Connections
<1>3. k = WithoutSocket(k.state, k.forwarder)
  BY <1>1
<1>4. state \notin Live /\ state # "OPEN"
  BY DEF Live
<1>. HIDE DEF k
<1>. QED  BY <1>1, <1>2, <1>3, <1>4 DEF Fits, Holds, k

(***************************************************************************)
(* ForwarderConnection::close() takes every callback of the connection out *)
(* of the loop.                                                            *)
(***************************************************************************)
LEMMA CloseOutcome ==
    ASSUME NEW c \in Requests, conn \in [Requests -> Connections],
           NEW k, NEW rf, NEW wf, NEW xf, Ready(c, k, rf, wf, xf),
           Close(c, k, rf, wf, xf)
    PROVE  /\ Outcome(c, k.handle)
           /\ conn'[c] = WithoutSocket("CLOSED", k.forwarder)
<1>. DEFINE h == k.handle
<1>. USE ConnectionAssumption
<1>1. /\ h \in Handles \ Listening /\ h \in Handles \ {} /\ h \in Handles
      /\ k.read \in BOOLEAN /\ k.write \in BOOLEAN /\ k.forwarder \in Forwarders
      /\ k.except
  BY DEF Ready, Connections
<1>2. /\ readFns' = Reset(rf, h, k.read)
      /\ writeFns' = Reset(wf, h, k.write)
      /\ exceptFns' = [xf EXCEPT ![h] = NoRequest]
      /\ conn' = [conn EXCEPT ![c] = WithoutSocket("CLOSED", k.forwarder)]
  BY <1>1 DEF Close
<1>3. /\ MapFor(c, readFns', h, FALSE, Listening)
      /\ \A g \in Handles \ {h} : readFns'[g] = rf[g]
  <2>1. MapFor(c, rf, h, k.read, Listening)
    BY DEF Ready
  <2>. HIDE DEF h
  <2>2. MapFor(c, Reset(rf, h, k.read), h, FALSE, Listening)
    BY <1>1, <2>1, Resetting
  <2>3. \A g \in Handles \ {h} : Reset(rf, h, k.read)[g] = rf[g]
    BY <2>1, Elsewhere DEF MapFor
  <2>. QED  BY <1>2, <2>2, <2>3
<1>4. /\ MapFor(c, writeFns', h, FALSE, {})
      /\ \A g \in Handles \ {h} : writeFns'[g] = wf[g]
  <2>1. MapFor(c, wf, h, k.write, {})
    BY DEF Ready
  <2>. HIDE DEF h
  <2>2. MapFor(c, Reset(wf, h, k.write), h, FALSE, {})
    BY <1>1, <2>1, Resetting
  <2>3. \A g \in Handles \ {h} : Reset(wf, h, k.write)[g] = wf[g]
    BY <2>1, Elsewhere DEF MapFor
  <2>. QED  BY <1>2, <2>2, <2>3
<1>5. /\ ExceptsOK(exceptFns') /\ exceptFns'[h] = NoRequest
      /\ \A g \in Handles \ {h} : exceptFns'[g] = xf[g]
      /\ \A g \in Handles : exceptFns'[g] # c
  <2>1. ExceptsOK(xf) /\ \A g \in Handles \ {h} : xf[g] # c
    BY DEF Ready
  <2>. QED  BY <1>1, <1>2, <2>1 DEF ExceptsOK
<1>6. conn'[c] = WithoutSocket("CLOSED", k.forwarder)
  BY <1>2
<1>7. Fits(c, conn'[c], readFns', writeFns', exceptFns')
  <2>1. \A g \in Handles : readFns'[g].owner # c /\ writeFns'[g].owner # c
    BY <1>3, <1>4 DEF MapFor, Holds
  <2>. QED  BY <1>1, <1>5, <1>6, <2>1, WithoutSocketFits
<1>8. conn'[c].state = "CLOSED"
  BY <1>6 DEF WithoutSocket
<1>9. \A g \in Handles \ {h} :
        /\ readFns'[g] = readFns[g]
        /\ writeFns'[g] = writeFns[g]
        /\ exceptFns'[g] = exceptFns[g]
  BY <1>3, <1>4, <1>5 DEF Ready
<1>10. conn' = [conn EXCEPT ![c] = conn'[c]]
  BY <1>2, <1>6
<1>. HIDE DEF h
<1>11. Outcome(c, h)
  BY <1>3, <1>4, <1>5, <1>7, <1>8, <1>9, <1>10 DEF Outcome, MapFor, Live
<1>. QED  BY <1>6, <1>11 DEF h

(***************************************************************************)
(* What a live record must be for the maps that a handler leaves behind.   *)
(***************************************************************************)
LEMMA LiveOutcome ==
    ASSUME NEW c \in Requests, conn \in [Requests -> Connections],
           NEW new \in Connections, conn' = [conn EXCEPT ![c] = new],
           new.state \in Live, new.handle \in Handles \ Listening,
           new.forwarder \in Forwarders, new.except, new.read \/ new.write,
           new.state = "OPEN" => new.read /\ (new.buffer <=> new.write),
           MapFor(c, readFns', new.handle, new.read, Listening),
           MapFor(c, writeFns', new.handle, new.write, {}),
           ExceptsOK(exceptFns'), exceptFns'[new.handle] = c,
           Scheduled(new, readFns', writeFns'),
           \A g \in Handles \ {new.handle} :
                /\ readFns'[g] = readFns[g]
                /\ writeFns'[g] = writeFns[g]
                /\ exceptFns'[g] = exceptFns[g]
                /\ exceptFns'[g] # c
    PROVE  Outcome(c, new.handle) /\ conn'[c] = new
<1>1. conn'[c] = new
  OBVIOUS
<1>2. new.state # "NONE"
  BY DEF Live
<1>3. \A g \in Handles : exceptFns'[g] = c <=> new.handle = g /\ new.except
  OBVIOUS
<1>4. Fits(c, new, readFns', writeFns', exceptFns')
  BY <1>2, <1>3 DEF Fits, MapFor, Scheduled
<1>5. conn' = [conn EXCEPT ![c] = conn'[c]]
  BY <1>1
<1>. QED  BY <1>1, <1>2, <1>4, <1>5 DEF Outcome, MapFor

(***************************************************************************)
(* NEED_READ in connect() and _shutdown(): the connection waits to read,   *)
(* by the callback it has or by a new one, and not to write.               *)
(***************************************************************************)
LEMMA AwaitReadOutcome ==
    ASSUME NEW c \in Requests, conn \in [Requests -> Connections],
           NEW k, NEW rf, NEW wf, NEW xf, Ready(c, k, rf, wf, xf),
           Scheduled(k, rf, wf), k.state \in {"CONNECTING", "SHUTTING_DOWN"},
           AwaitRead(c, k, rf, wf, ReadCallbackIn(k.state)), exceptFns' = xf
    PROVE  /\ Outcome(c, k.handle)
           /\ conn'[c].state = k.state /\ conn'[c].forwarder = k.forwarder
           /\ conn'[c].timeLeft = k.timeLeft
<1>. DEFINE h == k.handle
            new == [k EXCEPT !.read = TRUE, !.write = FALSE]
<1>1. /\ h \in Handles \ Listening /\ h \in Handles \ {} /\ h \in Handles
      /\ k.read \in BOOLEAN /\ k.write \in BOOLEAN /\ k.forwarder \in Forwarders
      /\ k.except /\ k \in Connections /\ k.timeLeft \in Int
  BY ConnectionAssumption DEF Ready, Connections
<1>2. ReadCallbackIn(k.state) \in Callbacks
  BY DEF ReadCallbackIn, Callbacks
<1>3. /\ new \in Connections /\ new.state = k.state /\ new.handle = h
      /\ new.forwarder = k.forwarder /\ new.timeLeft = k.timeLeft
      /\ new.except = k.except /\ new.read = TRUE /\ new.write = FALSE
  BY <1>1 DEF Connections
<1>4. MapFor(c, rf, h, k.read, Listening) /\ MapFor(c, wf, h, k.write, {})
  BY DEF Ready
<1>5. writeFns' = Reset(wf, h, k.write)
  BY DEF AwaitRead
<1>6. MapFor(c, writeFns', h, FALSE, {})
  <2>. HIDE DEF h
  <2>1. MapFor(c, Reset(wf, h, k.write), h, FALSE, {})
    BY <1>1, <1>4, Resetting
  <2>. QED  BY <1>5, <2>1
<1>7. /\ MapFor(c, readFns', h, TRUE, Listening)
      /\ readFns'[h].callback = ReadCallbackIn(k.state)
      /\ readFns'[h].time = k.timeLeft
      /\ conn' = [conn EXCEPT ![c] = new]
      /\ \A g \in Handles \ {h} : readFns'[g] = rf[g]
  <2>1. CASE k.read
    <3>1. readFns' = rf /\ conn' = [conn EXCEPT ![c] = new]
      BY <2>1 DEF AwaitRead
    <3>2. k.read = TRUE
      BY <1>1, <2>1
    <3>. QED  BY <1>4, <2>1, <3>1, <3>2 DEF Scheduled
  <2>2. CASE ~k.read
    <3>1. k.read = FALSE
      BY <1>1, <2>2
    <3>2. MapFor(c, rf, h, FALSE, Listening)
      BY <1>4, <3>1
    <3>. DEFINE callback == ReadCallbackIn(k.state)
                time == k.timeLeft
                map == Register(rf, h, Registration(c, callback, time))
    <3>3. readFns' = map
      BY <2>2 DEF AwaitRead
    <3>4. IsFree(rf, h) => conn' = [conn EXCEPT ![c] = new]
      BY DEF AwaitRead
    <3>5. \A g \in Handles \ {h} : map[g] = rf[g]
      BY <3>2, Elsewhere DEF MapFor
    <3>6. callback \in Callbacks /\ time \in Int
      BY <1>1, <1>2
    <3>. HIDE DEF h, callback, time, new
    <3>7. /\ MapFor(c, map, h, TRUE, Listening) /\ IsFree(rf, h)
          /\ map[h].callback = callback /\ map[h].time = time
      <4>1. MapFor(c, map, h, TRUE, Listening)
        BY <1>1, <3>2, <3>6, Registering
      <4>2. IsFree(rf, h)
        BY <1>1, <3>2, <3>6, Registering
      <4>3. map[h] = Registration(c, callback, time)
        BY <1>1, <3>2, <4>2 DEF MapFor, MapOK, Register
      <4>4. map[h].callback = callback /\ map[h].time = time
        BY <4>3 DEF Registration
      <4>. QED  BY <4>1, <4>2, <4>4
    <3>. QED  BY <3>3, <3>4, <3>5, <3>7 DEF callback, time
  <2>. QED  BY <2>1, <2>2
<1>8. \A g \in Handles \ {h} : writeFns'[g] = wf[g]
  BY <1>4, <1>5, Elsewhere DEF MapFor
<1>9. /\ ExceptsOK(exceptFns') /\ exceptFns'[h] = c
      /\ \A g \in Handles \ {h} :
            /\ readFns'[g] = readFns[g]
            /\ writeFns'[g] = writeFns[g]
            /\ exceptFns'[g] = exceptFns[g]
            /\ exceptFns'[g] # c
  BY <1>7, <1>8 DEF Ready
<1>10. k.state \in Live /\ k.state # "OPEN"
  BY DEF Live
<1>. HIDE DEF h, new
<1>11. Scheduled(new, readFns', writeFns')
  BY <1>3, <1>7 DEF Scheduled
<1>12. /\ MapFor(c, readFns', new.handle, new.read, Listening)
       /\ MapFor(c, writeFns', new.handle, new.write, {})
  BY <1>3, <1>6, <1>7
<1>13. Outcome(c, new.handle) /\ conn'[c] = new
  <2>1. new \in Connections /\ conn' = [conn EXCEPT ![c] = new]
    BY <1>3, <1>7
  <2>2. /\ new.state \in Live /\ new.state # "OPEN"
        /\ new.handle \in Handles \ Listening /\ new.forwarder \in Forwarders
        /\ new.except /\ (new.read \/ new.write)
    BY <1>1, <1>3, <1>10
  <2>3. /\ ExceptsOK(exceptFns') /\ exceptFns'[new.handle] = c
        /\ \A g \in Handles \ {new.handle} :
              /\ readFns'[g] = readFns[g]
              /\ writeFns'[g] = writeFns[g]
              /\ exceptFns'[g] = exceptFns[g]
              /\ exceptFns'[g] # c
    BY <1>3, <1>9
  <2>. QED  BY <2>1, <2>2, <2>3, <1>11, <1>12, LiveOutcome
<1>. QED  BY <1>3, <1>13 DEF h

(***************************************************************************)
(* NEED_WRITE in connect() and _shutdown(): the connection waits to write, *)
(* by the callback it has or by a new one, and not to read.                *)
(***************************************************************************)
LEMMA AwaitWriteOutcome ==
    ASSUME NEW c \in Requests, conn \in [Requests -> Connections],
           NEW k, NEW rf, NEW wf, NEW xf, Ready(c, k, rf, wf, xf),
           Scheduled(k, rf, wf), k.state \in {"CONNECTING", "SHUTTING_DOWN"},
           AwaitWrite(c, k, rf, wf, WriteCallbackIn(k.state)), exceptFns' = xf
    PROVE  /\ Outcome(c, k.handle)
           /\ conn'[c].state = k.state /\ conn'[c].forwarder = k.forwarder
           /\ conn'[c].timeLeft = k.timeLeft
<1>. DEFINE h == k.handle
            new == [k EXCEPT !.write = TRUE, !.read = FALSE]
<1>1. /\ h \in Handles \ Listening /\ h \in Handles \ {} /\ h \in Handles
      /\ k.write \in BOOLEAN /\ k.read \in BOOLEAN /\ k.forwarder \in Forwarders
      /\ k.except /\ k \in Connections /\ k.timeLeft \in Int
  BY ConnectionAssumption DEF Ready, Connections
<1>2. WriteCallbackIn(k.state) \in Callbacks
  BY DEF WriteCallbackIn, Callbacks
<1>3. /\ new \in Connections /\ new.state = k.state /\ new.handle = h
      /\ new.forwarder = k.forwarder /\ new.timeLeft = k.timeLeft
      /\ new.except = k.except /\ new.write = TRUE /\ new.read = FALSE
  BY <1>1 DEF Connections
<1>4. MapFor(c, wf, h, k.write, {}) /\ MapFor(c, rf, h, k.read, Listening)
  BY DEF Ready
<1>5. readFns' = Reset(rf, h, k.read)
  BY DEF AwaitWrite
<1>6. MapFor(c, readFns', h, FALSE, Listening)
  <2>. HIDE DEF h
  <2>1. MapFor(c, Reset(rf, h, k.read), h, FALSE, Listening)
    BY <1>1, <1>4, Resetting
  <2>. QED  BY <1>5, <2>1
<1>7. /\ MapFor(c, writeFns', h, TRUE, {})
      /\ writeFns'[h].callback = WriteCallbackIn(k.state)
      /\ writeFns'[h].time = k.timeLeft
      /\ conn' = [conn EXCEPT ![c] = new]
      /\ \A g \in Handles \ {h} : writeFns'[g] = wf[g]
  <2>1. CASE k.write
    <3>1. writeFns' = wf /\ conn' = [conn EXCEPT ![c] = new]
      BY <2>1 DEF AwaitWrite
    <3>2. k.write = TRUE
      BY <1>1, <2>1
    <3>. QED  BY <1>4, <2>1, <3>1, <3>2 DEF Scheduled
  <2>2. CASE ~k.write
    <3>1. k.write = FALSE
      BY <1>1, <2>2
    <3>2. MapFor(c, wf, h, FALSE, {})
      BY <1>4, <3>1
    <3>. DEFINE callback == WriteCallbackIn(k.state)
                time == k.timeLeft
                map == Register(wf, h, Registration(c, callback, time))
    <3>3. writeFns' = map
      BY <2>2 DEF AwaitWrite
    <3>4. IsFree(wf, h) => conn' = [conn EXCEPT ![c] = new]
      BY DEF AwaitWrite
    <3>5. \A g \in Handles \ {h} : map[g] = wf[g]
      BY <3>2, Elsewhere DEF MapFor
    <3>6. callback \in Callbacks /\ time \in Int
      BY <1>1, <1>2
    <3>. HIDE DEF h, callback, time, new
    <3>7. /\ MapFor(c, map, h, TRUE, {}) /\ IsFree(wf, h)
          /\ map[h].callback = callback /\ map[h].time = time
      <4>1. MapFor(c, map, h, TRUE, {})
        BY <1>1, <3>2, <3>6, Registering
      <4>2. IsFree(wf, h)
        BY <1>1, <3>2, <3>6, Registering
      <4>3. map[h] = Registration(c, callback, time)
        BY <1>1, <3>2, <4>2 DEF MapFor, MapOK, Register
      <4>4. map[h].callback = callback /\ map[h].time = time
        BY <4>3 DEF Registration
      <4>. QED  BY <4>1, <4>2, <4>4
    <3>. QED  BY <3>3, <3>4, <3>5, <3>7 DEF callback, time
  <2>. QED  BY <2>1, <2>2
<1>8. \A g \in Handles \ {h} : readFns'[g] = rf[g]
  BY <1>4, <1>5, Elsewhere DEF MapFor
<1>9. /\ ExceptsOK(exceptFns') /\ exceptFns'[h] = c
      /\ \A g \in Handles \ {h} :
            /\ writeFns'[g] = writeFns[g]
            /\ readFns'[g] = readFns[g]
            /\ exceptFns'[g] = exceptFns[g]
            /\ exceptFns'[g] # c
  BY <1>7, <1>8 DEF Ready
<1>10. k.state \in Live /\ k.state # "OPEN"
  BY DEF Live
<1>. HIDE DEF h, new
<1>11. Scheduled(new, readFns', writeFns')
  BY <1>3, <1>7 DEF Scheduled
<1>12. /\ MapFor(c, readFns', new.handle, new.read, Listening)
       /\ MapFor(c, writeFns', new.handle, new.write, {})
  BY <1>3, <1>6, <1>7
<1>13. Outcome(c, new.handle) /\ conn'[c] = new
  <2>1. new \in Connections /\ conn' = [conn EXCEPT ![c] = new]
    BY <1>3, <1>7
  <2>2. /\ new.state \in Live /\ new.state # "OPEN"
        /\ new.handle \in Handles \ Listening /\ new.forwarder \in Forwarders
        /\ new.except /\ (new.read \/ new.write)
    BY <1>1, <1>3, <1>10
  <2>3. /\ ExceptsOK(exceptFns') /\ exceptFns'[new.handle] = c
        /\ \A g \in Handles \ {new.handle} :
              /\ readFns'[g] = readFns[g]
              /\ writeFns'[g] = writeFns[g]
              /\ exceptFns'[g] = exceptFns[g]
              /\ exceptFns'[g] # c
    BY <1>3, <1>9
  <2>. QED  BY <2>1, <2>2, <2>3, <1>11, <1>12, LiveOutcome
<1>. QED  BY <1>3, <1>13 DEF h

(***************************************************************************)
(* SUCCESS in connect(): the connection listens for the response, and the  *)
(* request it was given is scheduled to be sent.                           *)
(***************************************************************************)
LEMMA OpenedOutcome ==
    ASSUME NEW c \in Requests, conn \in [Requests -> Connections],
           NEW k, NEW xf, Ready(c, k, readFns, writeFns, xf),
           Opened(c, k), exceptFns' = xf
    PROVE  /\ Outcome(c, k.handle)
           /\ conn'[c].state = "OPEN" /\ conn'[c].forwarder = k.forwarder
           /\ conn'[c].timeLeft = k.timeLeft
<1>. DEFINE h == k.handle
            time == k.timeLeft
            new == [k EXCEPT !.state = "OPEN", !.read = TRUE, !.write = k.buffer]
            rf == Reset(readFns, h, k.read)
            wf == Reset(writeFns, h, k.write)
            rmap == Register(rf, h, Registration(c, "incoming", time))
            wmap == Register(wf, h, Registration(c, "outgoing", time))
<1>1. /\ h \in Handles \ Listening /\ h \in Handles \ {} /\ h \in Handles
      /\ k.read \in BOOLEAN /\ k.write \in BOOLEAN /\ k.buffer \in BOOLEAN
      /\ k.forwarder \in Forwarders /\ k.except /\ k \in Connections
      /\ time \in Int
  BY ConnectionAssumption DEF Ready, Connections
<1>2. "incoming" \in Callbacks /\ "outgoing" \in Callbacks
  BY DEF Callbacks
<1>3. /\ new \in Connections /\ new.state = "OPEN" /\ new.handle = h
      /\ new.forwarder = k.forwarder /\ new.timeLeft = time
      /\ new.except = k.except /\ new.read = TRUE /\ new.write = k.buffer
      /\ new.buffer = k.buffer
  BY <1>1 DEF Connections, Live
<1>4. MapFor(c, readFns, h, k.read, Listening) /\ MapFor(c, writeFns, h, k.write, {})
  BY DEF Ready
<1>5. /\ MapFor(c, rf, h, FALSE, Listening)
      /\ \A g \in Handles \ {h} : rf[g] = readFns[g]
  <2>1. \A g \in Handles \ {h} : rf[g] = readFns[g]
    BY <1>4, Elsewhere DEF MapFor
  <2>. HIDE DEF h
  <2>2. MapFor(c, rf, h, FALSE, Listening)
    BY <1>1, <1>4, Resetting
  <2>. QED  BY <2>1, <2>2
<1>6. /\ MapFor(c, wf, h, FALSE, {})
      /\ \A g \in Handles \ {h} : wf[g] = writeFns[g]
  <2>1. \A g \in Handles \ {h} : wf[g] = writeFns[g]
    BY <1>4, Elsewhere DEF MapFor
  <2>. HIDE DEF h
  <2>2. MapFor(c, wf, h, FALSE, {})
    BY <1>1, <1>4, Resetting
  <2>. QED  BY <2>1, <2>2
<1>7. /\ readFns' = rmap
      /\ writeFns' = IF k.buffer THEN wmap ELSE wf
      /\ IsFree(rf, h) /\ IsFree(wf, h) => conn' = [conn EXCEPT ![c] = new]
  BY <1>1 DEF Opened
<1>. HIDE DEF h, time, new, rf, wf
<1>8. /\ MapFor(c, rmap, h, TRUE, Listening)
      /\ IsFree(rf, h)
      /\ rmap[h].callback = "incoming" /\ rmap[h].time = time
      /\ \A g \in Handles \ {h} : rmap[g] = readFns[g]
  <2>1. MapFor(c, rmap, h, TRUE, Listening)
    BY <1>1, <1>2, <1>5, Registering
  <2>2. IsFree(rf, h)
    BY <1>1, <1>2, <1>5, Registering
  <2>3. rmap[h] = Registration(c, "incoming", time)
    BY <1>1, <1>5, <2>2 DEF MapFor, MapOK, Register
  <2>4. \A g \in Handles \ {h} : rmap[g] = rf[g]
    BY <1>5, Elsewhere DEF MapFor
  <2>5. rmap[h].callback = "incoming" /\ rmap[h].time = time
    BY <2>3 DEF Registration
  <2>. QED  BY <1>5, <2>1, <2>2, <2>4, <2>5
<1>9. /\ MapFor(c, wmap, h, TRUE, {})
      /\ IsFree(wf, h)
      /\ wmap[h].callback = "outgoing" /\ wmap[h].time = time
      /\ \A g \in Handles \ {h} : wmap[g] = writeFns[g]
  <2>1. MapFor(c, wmap, h, TRUE, {})
    BY <1>1, <1>2, <1>6, Registering
  <2>2. IsFree(wf, h)
    BY <1>1, <1>2, <1>6, Registering
  <2>3. wmap[h] = Registration(c, "outgoing", time)
    BY <1>1, <1>6, <2>2 DEF MapFor, MapOK, Register
  <2>4. \A g \in Handles \ {h} : wmap[g] = wf[g]
    BY <1>6, Elsewhere DEF MapFor
  <2>5. wmap[h].callback = "outgoing" /\ wmap[h].time = time
    BY <2>3 DEF Registration
  <2>. QED  BY <1>6, <2>1, <2>2, <2>4, <2>5
<1>. HIDE DEF rmap, wmap
<1>10. conn' = [conn EXCEPT ![c] = new]
  BY <1>7, <1>8, <1>9
<1>11. /\ MapFor(c, writeFns', h, k.buffer, {})
       /\ \A g \in Handles \ {h} : writeFns'[g] = writeFns[g]
       /\ k.buffer => writeFns'[h].callback = "outgoing" /\ writeFns'[h].time = time
  <2>1. CASE k.buffer
    <3>1. k.buffer = TRUE /\ writeFns' = wmap
      BY <1>1, <1>7, <2>1
    <3>. QED  BY <1>9, <3>1
  <2>2. CASE ~k.buffer
    <3>1. k.buffer = FALSE /\ writeFns' = wf
      BY <1>1, <1>7, <2>2
    <3>. QED  BY <1>6, <3>1
  <2>. QED  BY <2>1, <2>2
<1>12. /\ ExceptsOK(exceptFns') /\ exceptFns'[h] = c
       /\ \A g \in Handles \ {h} :
            exceptFns'[g] = exceptFns[g] /\ exceptFns'[g] # c
  BY DEF Ready, h
<1>13. Scheduled(new, readFns', writeFns')
  <2>1. ReadCallbackIn("OPEN") = "incoming" /\ WriteCallbackIn("OPEN") = "outgoing"
    BY DEF ReadCallbackIn, WriteCallbackIn
  <2>. QED  BY <1>3, <1>7, <1>8, <1>11, <2>1 DEF Scheduled
<1>14. /\ MapFor(c, readFns', new.handle, new.read, Listening)
       /\ MapFor(c, writeFns', new.handle, new.write, {})
  BY <1>3, <1>7, <1>8, <1>11
<1>15. new.state \in Live
  BY <1>3 DEF Live
<1>16. \A g \in Handles \ {h} :
         /\ readFns'[g] = readFns[g]
         /\ writeFns'[g] = writeFns[g]
         /\ exceptFns'[g] = exceptFns[g]
         /\ exceptFns'[g] # c
  BY <1>7, <1>8, <1>11, <1>12
<1>17. Outcome(c, new.handle) /\ conn'[c] = new
  BY <1>1, <1>3, <1>10, <1>12, <1>13, <1>14, <1>15, <1>16, LiveOutcome
<1>. QED  BY <1>3, <1>17 DEF h, time

(***************************************************************************)
(* connect(): the handshake goes on, succeeds, or the connection closes.   *)
(***************************************************************************)
LEMMA HandshakeOutcome ==
    ASSUME NEW c \in Requests, conn \in [Requests -> Connections],
           NEW k, NEW xf, Ready(c, k, readFns, writeFns, xf),
           Scheduled(k, readFns, writeFns), k.state = "CONNECTING",
           Handshake(c, k, xf)
    PROVE  /\ Outcome(c, k.handle)
           /\ conn'[c].state \in {"CONNECTING", "OPEN", "CLOSED"}
           /\ conn'[c].forwarder = k.forwarder
           /\ NotReported \/ Reported(k.forwarder)
           /\ conn'[c].state = "CLOSED" \/ conn'[c].timeLeft = k.timeLeft
<1>. USE DEF Handshake
<1>1. ReadCallbackIn(k.state) = "connect" /\ WriteCallbackIn(k.state) = "connect"
  BY DEF ReadCallbackIn, WriteCallbackIn
<1>2. CASE AwaitRead(c, k, readFns, writeFns, "connect") /\ exceptFns' = xf /\ NotReported
  BY <1>1, <1>2, AwaitReadOutcome
<1>3. CASE AwaitWrite(c, k, readFns, writeFns, "connect") /\ exceptFns' = xf /\ NotReported
  BY <1>1, <1>3, AwaitWriteOutcome
<1>4. CASE Opened(c, k) /\ exceptFns' = xf /\ NotReported
  BY <1>4, OpenedOutcome
<1>5. CASE /\ Close(c, k, readFns, writeFns, xf)
           /\ Reported(k.forwarder) \/ NotReported
  <2>1. Outcome(c, k.handle) /\ conn'[c] = WithoutSocket("CLOSED", k.forwarder)
    BY <1>5, CloseOutcome
  <2>. QED  BY <1>5, <2>1 DEF WithoutSocket
<1>. QED  BY <1>2, <1>3, <1>4, <1>5

(***************************************************************************)
(* _shutdown(): the connection goes on shutting down, or closes.           *)
(***************************************************************************)
LEMMA CloseNotifyOutcome ==
    ASSUME NEW c \in Requests, conn \in [Requests -> Connections],
           NEW k, NEW rf, NEW wf, Ready(c, k, rf, wf, exceptFns),
           Scheduled([k EXCEPT !.state = "SHUTTING_DOWN"], rf, wf),
           CloseNotify(c, k, rf, wf)
    PROVE  /\ Outcome(c, k.handle)
           /\ conn'[c].state \in {"SHUTTING_DOWN", "CLOSED"}
           /\ conn'[c].forwarder = k.forwarder
<1>. DEFINE down == [k EXCEPT !.state = "SHUTTING_DOWN"]
<1>1. k \in Connections
  BY DEF Ready
<1>2. /\ down \in Connections /\ down.state = "SHUTTING_DOWN"
      /\ down.handle = k.handle /\ down.forwarder = k.forwarder
      /\ down.except = k.except /\ down.read = k.read /\ down.write = k.write
  BY <1>1 DEF Connections, Live
<1>3. /\ \/ AwaitRead(c, down, rf, wf, "_shutdown")
         \/ AwaitWrite(c, down, rf, wf, "_shutdown")
      /\ UNCHANGED exceptFns
      \/ Close(c, down, rf, wf, exceptFns)
  BY DEF CloseNotify
<1>4. Scheduled(down, rf, wf)
  OBVIOUS
<1>. HIDE DEF down
<1>5. Ready(c, down, rf, wf, exceptFns)
  BY <1>2 DEF Ready
<1>6. /\ ReadCallbackIn(down.state) = "_shutdown"
      /\ WriteCallbackIn(down.state) = "_shutdown"
  BY <1>2 DEF ReadCallbackIn, WriteCallbackIn
<1>7. CASE AwaitRead(c, down, rf, wf, "_shutdown") /\ UNCHANGED exceptFns
  BY <1>2, <1>4, <1>5, <1>6, <1>7, AwaitReadOutcome
<1>8. CASE AwaitWrite(c, down, rf, wf, "_shutdown") /\ UNCHANGED exceptFns
  BY <1>2, <1>4, <1>5, <1>6, <1>8, AwaitWriteOutcome
<1>9. CASE Close(c, down, rf, wf, exceptFns)
  <2>1. Outcome(c, down.handle) /\ conn'[c] = WithoutSocket("CLOSED", down.forwarder)
    BY <1>5, <1>9, CloseOutcome
  <2>. QED  BY <1>2, <2>1 DEF WithoutSocket
<1>. QED  BY <1>3, <1>7, <1>8, <1>9

-----------------------------------------------------------------------------
(* The handlers, called in a state of the inductive invariant. *)

\* The descriptor h is c's, or nobody's.
OwnHandle(c, h) ==
    /\ h \in Handles \ Listening
    /\ readFns[h].owner \in {c, NoRequest}
    /\ writeFns[h].owner \in {c, NoRequest}
    /\ exceptFns[h] \in {c, NoRequest}

(***************************************************************************)
(* A connection with a callback in the loop has a socket, which nobody     *)
(* else has, and its handlers may begin.                                   *)
(***************************************************************************)
LEMMA LiveReady ==
    ASSUME ConnInv, NEW c \in Requests, conn[c].state \in Live
    PROVE  /\ Ready(c, conn[c], readFns, writeFns, exceptFns)
           /\ Scheduled(conn[c], readFns, writeFns)
           /\ OwnHandle(c, conn[c].handle)
           /\ \A d \in Requests \ {c} : conn[d].handle # conn[c].handle
<1>. DEFINE k == conn[c]
            h == k.handle
<1>1. Fits(c, k, readFns, writeFns, exceptFns) /\ k \in Connections
  BY DEF ConnInv
<1>2. /\ h \in Handles \ Listening /\ h \in Handles /\ k.forwarder \in Forwarders
      /\ k.except /\ k.state # "NONE"
  BY <1>1 DEF Fits, Live
<1>3. exceptFns[h] = c
  BY <1>1, <1>2 DEF Fits
<1>4. ASSUME NEW d \in Requests \ {c} PROVE conn[d].handle # h
  <2>1. Fits(d, conn[d], readFns, writeFns, exceptFns)
    BY DEF ConnInv
  <2>2. CASE conn[d].state \in Live
    <3>1. conn[d].handle \in Handles /\ conn[d].except
      BY <2>1, <2>2 DEF Fits
    <3>2. exceptFns[conn[d].handle] = d
      BY <2>1, <3>1 DEF Fits
    <3>. QED  BY <1>3, <3>2
  <2>3. CASE conn[d].state \notin Live
    <3>1. conn[d].handle = 0
      BY <2>1, <2>3 DEF Fits, WithoutSocket, NoHandle
    <3>. QED  BY <1>2, <3>1, ConnectionAssumption
  <2>. QED  BY <2>2, <2>3
<1>5. ASSUME NEW d \in Requests \ {c}
      PROVE  readFns[h].owner # d /\ writeFns[h].owner # d
  <2>1. Fits(d, conn[d], readFns, writeFns, exceptFns)
    BY DEF ConnInv
  <2>. QED  BY <1>2, <1>4, <2>1 DEF Fits, Holds
<1>6. /\ readFns[h].owner \in Requests \cup {NoRequest}
      /\ writeFns[h].owner \in Requests \cup {NoRequest}
  BY <1>2 DEF ConnInv, MapOK, Registrations
<1>7. readFns[h].owner \in {c, NoRequest} /\ writeFns[h].owner \in {c, NoRequest}
  BY <1>5, <1>6
<1>8. /\ MapFor(c, readFns, h, k.read, Listening)
      /\ MapFor(c, writeFns, h, k.write, {})
  BY <1>1, <1>7 DEF Fits, MapFor, ConnInv
<1>9. \A g \in Handles \ {h} : exceptFns[g] # c
  BY <1>1 DEF Fits
<1>10. Ready(c, k, readFns, writeFns, exceptFns)
  BY <1>1, <1>2, <1>3, <1>8, <1>9 DEF Ready, ConnInv
<1>11. Scheduled(k, readFns, writeFns)
  BY <1>1 DEF Fits, Scheduled
<1>. QED  BY <1>2, <1>3, <1>4, <1>7, <1>10, <1>11 DEF OwnHandle

(***************************************************************************)
(* What a handler of c does to the loop does not touch the others.         *)
(***************************************************************************)
LEMMA OthersFit ==
    ASSUME ConnInv, NEW c \in Requests, NEW h, OwnHandle(c, h), Outcome(c, h),
           NEW d \in Requests \ {c}
    PROVE  /\ conn'[d] = conn[d]
           /\ Fits(d, conn'[d], readFns', writeFns', exceptFns')
<1>. DEFINE k == conn[d]
<1>1. k \in Connections /\ Fits(d, k, readFns, writeFns, exceptFns)
  BY DEF ConnInv
<1>2. conn'[d] = k
  BY DEF Outcome, ConnInv
<1>3. ASSUME NEW g \in Handles
      PROVE  /\ readFns'[g].owner = d <=> readFns[g].owner = d
             /\ writeFns'[g].owner = d <=> writeFns[g].owner = d
             /\ exceptFns'[g] = d <=> exceptFns[g] = d
             /\ readFns[g].owner = d => readFns'[g] = readFns[g]
             /\ writeFns[g].owner = d => writeFns'[g] = writeFns[g]
  <2>1. CASE g = h
    BY <2>1, ConnectionAssumption DEF OwnHandle, Outcome
  <2>2. CASE g # h
    BY <2>2 DEF Outcome
  <2>. QED  BY <2>1, <2>2
<1>. HIDE DEF k
<1>4. /\ Holds(d, readFns', k.handle, k.read)
      /\ Holds(d, writeFns', k.handle, k.write)
      /\ \A g \in Handles : exceptFns'[g] = d <=> k.handle = g /\ k.except
  BY <1>1, <1>3 DEF Fits, Holds
<1>5. k.state \in Live => k.handle \in Handles
  BY <1>1 DEF Fits
<1>6. k.state \notin Live => ~k.read /\ ~k.write
  BY <1>1 DEF Fits, WithoutSocket
<1>7. k.read => readFns'[k.handle] = readFns[k.handle]
  BY <1>1, <1>3, <1>5, <1>6 DEF Fits, Holds
<1>8. k.write => writeFns'[k.handle] = writeFns[k.handle]
  BY <1>1, <1>3, <1>5, <1>6 DEF Fits, Holds
<1>9. Fits(d, k, readFns', writeFns', exceptFns')
  BY <1>1, <1>4, <1>7, <1>8 DEF Fits
<1>. QED  BY <1>2, <1>9 DEF k

(***************************************************************************)
(* The invariant after a step in which the loop's maps and the record of   *)
(* one connection changed, and a forwarder may have been reported.         *)
(***************************************************************************)
LEMMA StepOfOne ==
    ASSUME ConnInv, NEW c \in Requests,
           conn' = [conn EXCEPT ![c] = conn'[c]],
           MapOK(readFns', Listening), MapOK(writeFns', {}), ExceptsOK(exceptFns'),
           \A d \in Requests : Fits(d, conn'[d], readFns', writeFns', exceptFns'),
           delivered' = [delivered EXCEPT ![c] = delivered'[c]],
           DeliveryOK(conn'[c], delivered'[c]),
           NotReported \/ \E f \in Forwarders : Reported(f)
    PROVE  ConnInv'
<1>1. forwarders' \in Seq(Forwarders) /\ reported' \subseteq Forwarders
  BY DemoteType DEF ConnInv, NotReported, Reported
<1>2. conn' \in [Requests -> Connections]
  <2>1. conn'[c] \in Connections
    BY DEF Fits
  <2>. QED  BY <2>1 DEF ConnInv
<1>3. delivered' \in [Requests -> Nat]
  <2>1. delivered'[c] \in Nat
    BY DEF DeliveryOK
  <2>. QED  BY <2>1 DEF ConnInv
<1>4. ASSUME NEW d \in Requests PROVE DeliveryOK(conn'[d], delivered'[d])
  <2>1. CASE d = c
    BY <2>1
  <2>2. CASE d # c
    <3>1. conn'[d] = conn[d] /\ delivered'[d] = delivered[d]
      BY <2>2 DEF ConnInv
    <3>. QED  BY <3>1 DEF ConnInv
  <2>. QED  BY <2>1, <2>2
<1>. QED  BY <1>1, <1>2, <1>3, <1>4 DEF ConnInv

\* What a callback of c does, seen from outside.
Effect(c) ==
    /\ conn[c].state \in Live
    /\ Outcome(c, conn[c].handle)
    /\ StateRank[conn[c].state] <= StateRank[conn'[c].state]
    /\ conn'[c].forwarder = conn[c].forwarder
    /\ NotReported \/ Reported(conn[c].forwarder)
    /\ \/ /\ delivered' = delivered
          /\ conn'[c].state = "SHUTTING_DOWN" => conn[c].state = "SHUTTING_DOWN"
       \/ /\ conn[c].state = "OPEN"
          /\ delivered' = [delivered EXCEPT ![c] = @ + 1]
          /\ conn'[c].state \in {"SHUTTING_DOWN", "CLOSED"}

(***************************************************************************)
(* The order of the states.                                                *)
(***************************************************************************)
LEMMA Ranks ==
    /\ StateRank["NONE"] = 0 /\ StateRank["CONNECTING"] = 1
    /\ StateRank["OPEN"] = 2 /\ StateRank["SHUTTING_DOWN"] = 3
    /\ StateRank["CLOSED"] = 4
BY DEF StateRank, Live

(***************************************************************************)
(* A callback that has the effect of one keeps the invariant.              *)
(***************************************************************************)
LEMMA EffectKeeps ==
    ASSUME ConnInv, NEW c \in Requests, Effect(c)
    PROVE  ConnInv'
<1>. DEFINE h == conn[c].handle
<1>1. OwnHandle(c, h) /\ Outcome(c, h)
  BY LiveReady DEF Effect
<1>2. conn[c].forwarder \in Forwarders
  BY LiveReady DEF Ready, Effect
<1>. HIDE DEF h
<1>3. \A d \in Requests : Fits(d, conn'[d], readFns', writeFns', exceptFns')
  BY <1>1, OthersFit DEF Outcome
<1>4. /\ DeliveryOK(conn'[c], delivered'[c])
      /\ delivered' = [delivered EXCEPT ![c] = delivered'[c]]
  <2>. USE DEF DeliveryOK
  <2>1. /\ DeliveryOK(conn[c], delivered[c]) /\ delivered \in [Requests -> Nat]
        /\ conn[c].state \in Live /\ conn'[c].state # "NONE"
    BY DEF ConnInv, Effect, Outcome
  <2>2. CASE delivered' = delivered
    <3>1. conn'[c].state \in {"CONNECTING", "OPEN"}
            => conn[c].state \in {"CONNECTING", "OPEN"}
      BY <2>1, Ranks DEF Effect, Live
    <3>. QED  BY <2>1, <2>2, <3>1
  <2>3. CASE /\ conn[c].state = "OPEN"
             /\ delivered' = [delivered EXCEPT ![c] = @ + 1]
             /\ conn'[c].state \in {"SHUTTING_DOWN", "CLOSED"}
    BY <2>1, <2>3
  <2>. QED  BY <2>2, <2>3 DEF Effect
<1>. QED  BY <1>1, <1>2, <1>3, <1>4, StepOfOne DEF Effect, Outcome

(***************************************************************************)
(* incoming() or outgoing() finds nothing to do.                           *)
(***************************************************************************)
LEMMA NothingEffect ==
    ASSUME ConnInv, NEW c \in Requests, conn[c].state \in Live, UNCHANGED connVars
    PROVE  Effect(c)
<1>. DEFINE h == conn[c].handle
<1>1. OwnHandle(c, h) /\ Fits(c, conn[c], readFns, writeFns, exceptFns)
  BY LiveReady DEF ConnInv
<1>2. /\ conn' = conn /\ readFns' = readFns /\ writeFns' = writeFns
      /\ exceptFns' = exceptFns /\ delivered' = delivered /\ NotReported
  BY DEF connVars, NotReported
<1>3. conn' = [conn EXCEPT ![c] = conn'[c]]
  BY <1>2 DEF ConnInv
<1>4. Outcome(c, h)
  BY <1>1, <1>2, <1>3 DEF Outcome, OwnHandle, ConnInv, Live
<1>5. StateRank[conn[c].state] <= StateRank[conn'[c].state]
  BY <1>2, Ranks DEF Live
<1>. QED  BY <1>2, <1>4, <1>5 DEF Effect

(***************************************************************************)
(* connect() as a callback, in the state it was registered for.            *)
(***************************************************************************)
LEMMA ConnectEffect ==
    ASSUME ConnInv, NEW c \in Requests, conn[c].state = "CONNECTING", Connect(c)
    PROVE  Effect(c)
<1>1. conn[c].state \in Live
  BY DEF Live
<1>2. conn \in [Requests -> Connections]
  BY DEF ConnInv
<1>3. /\ Outcome(c, conn[c].handle)
      /\ conn'[c].state \in {"CONNECTING", "OPEN", "CLOSED"}
      /\ conn'[c].forwarder = conn[c].forwarder
      /\ NotReported \/ Reported(conn[c].forwarder)
  <2>1. /\ Ready(c, conn[c], readFns, writeFns, exceptFns)
        /\ Scheduled(conn[c], readFns, writeFns)
    BY <1>1, LiveReady
  <2>2. Handshake(c, conn[c], exceptFns)
    BY DEF Connect
  <2>. QED  BY <1>2, <2>1, <2>2, HandshakeOutcome
<1>4. delivered' = delivered
  BY DEF Connect
<1>. QED  BY <1>1, <1>3, <1>4, Ranks DEF Effect

(***************************************************************************)
(* Any handler that ends in close().                                       *)
(***************************************************************************)
LEMMA CloseEffect ==
    ASSUME ConnInv, NEW c \in Requests, conn[c].state \in Live,
           Close(c, conn[c], readFns, writeFns, exceptFns),
           NotReported \/ Reported(conn[c].forwarder),
           delivered' = delivered
    PROVE  Effect(c) /\ conn'[c].state = "CLOSED"
<1>1. /\ Outcome(c, conn[c].handle)
      /\ conn'[c] = WithoutSocket("CLOSED", conn[c].forwarder)
  <2>1. Ready(c, conn[c], readFns, writeFns, exceptFns)
    BY LiveReady
  <2>. QED  BY <2>1, CloseOutcome DEF ConnInv
<1>2. conn'[c].state = "CLOSED" /\ conn'[c].forwarder = conn[c].forwarder
  BY <1>1 DEF WithoutSocket
<1>3. StateRank[conn[c].state] <= StateRank[conn'[c].state]
  BY <1>2, Ranks DEF Live
<1>. QED  BY <1>1, <1>2, <1>3 DEF Effect

(***************************************************************************)
(* _shutdown() as a callback.                                              *)
(***************************************************************************)
LEMMA ShutdownEffect ==
    ASSUME ConnInv, NEW c \in Requests, conn[c].state = "SHUTTING_DOWN",
           ContinueShutdown(c)
    PROVE  Effect(c)
<1>. DEFINE k == conn[c]
<1>1. k.state \in Live
  BY DEF Live
<1>2. conn \in [Requests -> Connections] /\ k \in Connections
  BY DEF ConnInv
<1>3. /\ Ready(c, k, readFns, writeFns, exceptFns)
      /\ Scheduled(k, readFns, writeFns)
  BY <1>1, LiveReady
<1>4. [k EXCEPT !.state = "SHUTTING_DOWN"] = k
  BY <1>2 DEF Connections
<1>5. CloseNotify(c, k, readFns, writeFns) /\ NotReported /\ delivered' = delivered
  BY DEF ContinueShutdown
<1>6. /\ Outcome(c, k.handle)
      /\ conn'[c].state \in {"SHUTTING_DOWN", "CLOSED"}
      /\ conn'[c].forwarder = k.forwarder
  <2>. HIDE DEF k
  <2>1. Scheduled([k EXCEPT !.state = "SHUTTING_DOWN"], readFns, writeFns)
    BY <1>3, <1>4
  <2>. QED  BY <1>2, <1>3, <1>5, <2>1, CloseNotifyOutcome
<1>. QED  BY <1>1, <1>5, <1>6, Ranks DEF Effect

(***************************************************************************)
(* incoming() delivers a response and begins to shut down.                 *)
(***************************************************************************)
LEMMA IncomingDataEffect ==
    ASSUME ConnInv, NEW c \in Requests, conn[c].state = "OPEN", IncomingData(c)
    PROVE  Effect(c)
<1>. DEFINE old == conn[c]
            k == [old EXCEPT !.read = FALSE, !.write = FALSE]
            h == old.handle
            rf == Reset(readFns, h, old.read)
            wf == Reset(writeFns, h, old.write)
<1>1. old.state \in Live
  BY DEF Live
<1>2. conn \in [Requests -> Connections] /\ old \in Connections
  BY DEF ConnInv
<1>3. Ready(c, old, readFns, writeFns, exceptFns)
  BY <1>1, LiveReady
<1>4. /\ k \in Connections /\ k.state = old.state /\ k.handle = h
      /\ k.forwarder = old.forwarder /\ k.except = old.except
      /\ k.read = FALSE /\ k.write = FALSE
  BY <1>2 DEF Connections
<1>5. /\ CloseNotify(c, k, rf, wf) /\ NotReported
      /\ delivered' = [delivered EXCEPT ![c] = @ + 1]
  BY DEF IncomingData
<1>6. /\ MapFor(c, readFns, h, old.read, Listening)
      /\ MapFor(c, writeFns, h, old.write, {})
      /\ h \in Handles \ Listening /\ h \in Handles \ {}
      /\ old.read \in BOOLEAN /\ old.write \in BOOLEAN
  BY <1>2, <1>3 DEF Ready, Connections
<1>7. \A g \in Handles \ {h} : rf[g] = readFns[g] /\ wf[g] = writeFns[g]
  BY <1>6, Elsewhere DEF MapFor
<1>. HIDE DEF h, old
<1>8. MapFor(c, rf, h, FALSE, Listening)
  BY <1>6, Resetting
<1>9. MapFor(c, wf, h, FALSE, {})
  BY <1>6, Resetting
<1>. HIDE DEF k, rf, wf
<1>10. Ready(c, k, rf, wf, exceptFns)
  BY <1>3, <1>4, <1>7, <1>8, <1>9 DEF Ready, h
<1>11. Scheduled([k EXCEPT !.state = "SHUTTING_DOWN"], rf, wf)
  <2>1. /\ [k EXCEPT !.state = "SHUTTING_DOWN"].read = FALSE
        /\ [k EXCEPT !.state = "SHUTTING_DOWN"].write = FALSE
    BY <1>4 DEF Connections
  <2>. QED  BY <2>1 DEF Scheduled
<1>12. /\ Outcome(c, k.handle)
       /\ conn'[c].state \in {"SHUTTING_DOWN", "CLOSED"}
       /\ conn'[c].forwarder = k.forwarder
  BY <1>2, <1>5, <1>10, <1>11, CloseNotifyOutcome
<1>. QED  BY <1>1, <1>4, <1>5, <1>12, Ranks DEF Effect, h, old

(***************************************************************************)
(* outgoing() has sent the request and goes on waiting for the response.   *)
(***************************************************************************)
LEMMA OutgoingSentEffect ==
    ASSUME ConnInv, NEW c \in Requests, conn[c].state = "OPEN", OutgoingSent(c)
    PROVE  Effect(c) /\ conn'[c].state = "OPEN"
<1>. DEFINE old == conn[c]
            new == [old EXCEPT !.buffer = FALSE, !.write = FALSE]
            h == old.handle
            wf == Reset(writeFns, h, old.write)
<1>1. old.state \in Live
  BY DEF Live
<1>2. /\ conn \in [Requests -> Connections] /\ old \in Connections
      /\ Fits(c, old, readFns, writeFns, exceptFns)
  BY DEF ConnInv
<1>3. /\ Ready(c, old, readFns, writeFns, exceptFns)
      /\ Scheduled(old, readFns, writeFns)
  BY <1>1, LiveReady
<1>4. /\ new \in Connections /\ new.state = "OPEN" /\ new.handle = h
      /\ new.forwarder = old.forwarder /\ new.except = old.except
      /\ new.read = old.read /\ new.timeLeft = old.timeLeft
      /\ new.write = FALSE /\ new.buffer = FALSE
  BY <1>2 DEF Connections
<1>5. conn' = [conn EXCEPT ![c] = new]
  BY <1>2 DEF OutgoingSent
<1>6. /\ writeFns' = wf /\ readFns' = readFns /\ exceptFns' = exceptFns
      /\ delivered' = delivered /\ NotReported
  BY DEF OutgoingSent
<1>7. /\ MapFor(c, readFns, h, old.read, Listening)
      /\ MapFor(c, writeFns, h, old.write, {})
      /\ h \in Handles \ Listening /\ h \in Handles \ {}
      /\ old.write \in BOOLEAN /\ old.forwarder \in Forwarders
      /\ old.except /\ old.read
      /\ ExceptsOK(exceptFns) /\ exceptFns[h] = c
      /\ \A g \in Handles \ {h} : exceptFns[g] # c
  BY <1>2, <1>3 DEF Ready, Connections, Fits
<1>8. \A g \in Handles \ {h} : wf[g] = writeFns[g]
  BY <1>7, Elsewhere DEF MapFor
<1>. HIDE DEF h, old
<1>9. MapFor(c, wf, h, FALSE, {})
  BY <1>7, Resetting
<1>. HIDE DEF new, wf
<1>10. Scheduled(new, readFns', writeFns')
  BY <1>3, <1>4, <1>6 DEF Scheduled, ReadCallbackIn, h, old
<1>11. Outcome(c, new.handle) /\ conn'[c] = new
  <2>1. /\ MapFor(c, readFns', new.handle, new.read, Listening)
        /\ MapFor(c, writeFns', new.handle, new.write, {})
    BY <1>4, <1>6, <1>7, <1>9
  <2>2. \A g \in Handles \ {new.handle} :
            /\ readFns'[g] = readFns[g]
            /\ writeFns'[g] = writeFns[g]
            /\ exceptFns'[g] = exceptFns[g]
            /\ exceptFns'[g] # c
    BY <1>4, <1>6, <1>7, <1>8
  <2>3. new.state \in Live
    BY <1>4 DEF Live
  <2>. QED  BY <1>2, <1>4, <1>5, <1>6, <1>7, <1>10, <2>1, <2>2, <2>3, LiveOutcome
<1>. QED  BY <1>1, <1>4, <1>6, <1>11, Ranks DEF Effect, h, old

(***************************************************************************)
(* The loop calls a connection only with a callback of its state, so each  *)
(* call is one of the above, and by the connection's own descriptor.       *)
(***************************************************************************)
LEMMA ReadEffect ==
    ASSUME ConnInv, NEW c \in Requests, NEW h \in Handles, ReadCallback(c, h)
    PROVE  Effect(c) /\ conn[c].handle = h
<1>. DEFINE k == conn[c]
<1>1. Fits(c, k, readFns, writeFns, exceptFns)
  BY DEF ConnInv
<1>2. k.handle = h /\ k.read
  BY <1>1 DEF ReadCallback, Fits, Holds
<1>3. k.state \in Live
  BY <1>1, <1>2 DEF Fits, WithoutSocket
<1>4. readFns[h].callback = ReadCallbackIn(k.state)
  BY <1>1, <1>2 DEF Fits
<1>5. CASE readFns[h].callback = "connect" /\ Connect(c)
  <2>1. k.state = "CONNECTING"
    BY <1>3, <1>4, <1>5 DEF ReadCallbackIn, Live
  <2>. QED  BY <1>2, <1>5, <2>1, ConnectEffect
<1>6. CASE readFns[h].callback = "incoming" /\ IncomingNothing(c)
  BY <1>2, <1>3, <1>6, NothingEffect DEF IncomingNothing
<1>7. CASE readFns[h].callback = "incoming" /\ IncomingData(c)
  <2>1. k.state = "OPEN"
    BY <1>3, <1>4, <1>7 DEF ReadCallbackIn, Live
  <2>. QED  BY <1>2, <1>7, <2>1, IncomingDataEffect
<1>8. CASE Lost(c)
  BY <1>2, <1>3, <1>8, CloseEffect DEF Lost
<1>9. CASE readFns[h].callback = "_shutdown" /\ ContinueShutdown(c)
  <2>1. k.state = "SHUTTING_DOWN"
    BY <1>3, <1>4, <1>9 DEF ReadCallbackIn, Live
  <2>. QED  BY <1>2, <1>9, <2>1, ShutdownEffect
<1>. QED  BY <1>5, <1>6, <1>7, <1>8, <1>9 DEF ReadCallback

(***************************************************************************)
(* The same of the callbacks that wait to write.                           *)
(***************************************************************************)
LEMMA WriteEffect ==
    ASSUME ConnInv, NEW c \in Requests, NEW h \in Handles, WriteCallback(c, h)
    PROVE  Effect(c) /\ conn[c].handle = h
<1>. DEFINE k == conn[c]
<1>1. Fits(c, k, readFns, writeFns, exceptFns)
  BY DEF ConnInv
<1>2. k.handle = h /\ k.write
  BY <1>1 DEF WriteCallback, Fits, Holds
<1>3. k.state \in Live
  BY <1>1, <1>2 DEF Fits, WithoutSocket
<1>4. writeFns[h].callback = WriteCallbackIn(k.state)
  BY <1>1, <1>2 DEF Fits
<1>5. CASE writeFns[h].callback = "connect" /\ Connect(c)
  <2>1. k.state = "CONNECTING"
    BY <1>3, <1>4, <1>5 DEF WriteCallbackIn, Live
  <2>. QED  BY <1>2, <1>5, <2>1, ConnectEffect
<1>6. CASE writeFns[h].callback = "outgoing" /\ OutgoingBlocked(c)
  BY <1>2, <1>3, <1>6, NothingEffect DEF OutgoingBlocked
<1>7. CASE writeFns[h].callback = "outgoing" /\ OutgoingSent(c)
  <2>1. k.state = "OPEN"
    BY <1>3, <1>4, <1>7 DEF WriteCallbackIn, Live
  <2>. QED  BY <1>2, <1>7, <2>1, OutgoingSentEffect
<1>8. CASE Lost(c)
  BY <1>2, <1>3, <1>8, CloseEffect DEF Lost
<1>9. CASE writeFns[h].callback = "_shutdown" /\ ContinueShutdown(c)
  <2>1. k.state = "SHUTTING_DOWN"
    BY <1>3, <1>4, <1>9 DEF WriteCallbackIn, Live
  <2>. QED  BY <1>2, <1>9, <2>1, ShutdownEffect
<1>. QED  BY <1>5, <1>6, <1>7, <1>8, <1>9 DEF WriteCallback

(***************************************************************************)
(* The same of an exception, which ends the connection.                    *)
(***************************************************************************)
LEMMA ExceptionEffect ==
    ASSUME ConnInv, NEW c \in Requests, NEW h \in Handles, RaiseException(c, h)
    PROVE  Effect(c) /\ conn[c].handle = h /\ conn'[c].state = "CLOSED"
<1>. DEFINE k == conn[c]
<1>1. Fits(c, k, readFns, writeFns, exceptFns)
  BY DEF ConnInv
<1>2. k.handle = h /\ k.except
  BY <1>1 DEF RaiseException, Fits
<1>3. k.state \in Live
  BY <1>1, <1>2 DEF Fits, WithoutSocket
<1>. QED  BY <1>2, <1>3, CloseEffect DEF RaiseException, Exception

(***************************************************************************)
(* The constructor: of the three ways it can go, only the last leaves      *)
(* anything in the loop, by a descriptor that was free.                    *)
(***************************************************************************)
LEMMA ConstructEffect ==
    ASSUME ConnInv, NEW c \in Requests, Construct(c)
    PROVE  /\ ConnInv'
           /\ conn[c].state = "NONE"
           /\ conn' = [conn EXCEPT ![c] = conn'[c]]
           /\ conn'[c].state \in {"CONNECTING", "OPEN", "CLOSED"}
           /\ delivered' = delivered
           /\ conn'[c].forwarder \in Preferred(forwarders) \cup {NoForwarder}
           /\ \/ NotReported
              \/ /\ conn'[c].forwarder \in Preferred(forwarders)
                 /\ Reported(conn'[c].forwarder)
           /\ conn'[c].state = "CLOSED" \/ conn'[c].timeLeft = Timeout
           /\ \A g \in Listening : readFns'[g] = readFns[g]
<1>1. /\ conn[c].state = "NONE" /\ delivered' = delivered
      /\ conn \in [Requests -> Connections] /\ forwarders \in Seq(Forwarders)
      /\ Fits(c, conn[c], readFns, writeFns, exceptFns)
      /\ DeliveryOK(conn[c], delivered[c])
      /\ delivered \in [Requests -> Nat]
  BY DEF Construct, ConnInv
<1>2. delivered[c] = 0 /\ conn[c].handle = 0 /\ ~conn[c].read /\ ~conn[c].write
  BY <1>1 DEF DeliveryOK, Fits, Live, WithoutSocket, NoHandle
<1>3. Preferred(forwarders) \subseteq Forwarders
  <2>1. forwarders # <<>> => Head(forwarders) \in Forwarders
    BY <1>1
  <2>. QED  BY <2>1 DEF Preferred
<1>4. \A h \in Handles : readFns[h].owner # c /\ writeFns[h].owner # c /\ exceptFns[h] # c
  <2>1. ~conn[c].except
    BY <1>1 DEF Fits, Live, WithoutSocket
  <2>. QED  BY <1>1, <1>2, <2>1 DEF Fits, Holds
<1>5. delivered' = [delivered EXCEPT ![c] = delivered'[c]] /\ delivered'[c] = 0
  BY <1>1, <1>2
<1>6. ASSUME NEW f \in Preferred(forwarders) \cup {NoForwarder},
             conn' = [conn EXCEPT ![c] = WithoutSocket("CLOSED", f)],
             UNCHANGED <<readFns, writeFns, exceptFns>>,
             NotReported \/ (f \in Preferred(forwarders) /\ Reported(f))
      PROVE  /\ ConnInv'
             /\ conn' = [conn EXCEPT ![c] = conn'[c]]
             /\ conn'[c].state = "CLOSED"
             /\ conn'[c].forwarder = f
  <2>1. conn'[c] = WithoutSocket("CLOSED", f) /\ f \in Forwarders \cup {NoForwarder}
    BY <1>1, <1>3, <1>6
  <2>2. conn' = [conn EXCEPT ![c] = conn'[c]]
    BY <1>6, <2>1
  <2>3. conn'[c].state = "CLOSED" /\ conn'[c].forwarder = f
    BY <2>1 DEF WithoutSocket
  <2>4. /\ MapOK(readFns', Listening) /\ MapOK(writeFns', {}) /\ ExceptsOK(exceptFns')
    BY <1>6 DEF ConnInv
  <2>5. ASSUME NEW d \in Requests
        PROVE  Fits(d, conn'[d], readFns', writeFns', exceptFns')
    <3>1. CASE d = c
      BY <1>4, <1>6, <2>1, <3>1, WithoutSocketFits
    <3>2. CASE d # c
      <4>1. conn'[d] = conn[d]
        BY <1>1, <2>2, <3>2
      <4>. QED  BY <1>6, <4>1 DEF ConnInv
    <3>. QED  BY <3>1, <3>2
  <2>6. DeliveryOK(conn'[c], delivered'[c])
    BY <1>5 DEF DeliveryOK
  <2>7. ConnInv'
    BY <1>3, <1>5, <1>6, <2>2, <2>4, <2>5, <2>6, StepOfOne
  <2>. QED  BY <2>2, <2>3, <2>7
<1>7. ASSUME NEW f \in Preferred(forwarders), NEW h \in FreeHandles,
             Handshake(c, Connecting(f, h),
                       [exceptFns EXCEPT ![h] = IF @ = NoRequest THEN c ELSE @])
      PROVE  /\ ConnInv'
             /\ conn' = [conn EXCEPT ![c] = conn'[c]]
             /\ conn'[c].state \in {"CONNECTING", "OPEN", "CLOSED"}
             /\ conn'[c].forwarder = f
             /\ NotReported \/ Reported(f)
             /\ conn'[c].state = "CLOSED" \/ conn'[c].timeLeft = Timeout
             /\ \A g \in Listening : readFns'[g] = readFns[g]
  <2>. DEFINE k == Connecting(f, h)
              xf == [exceptFns EXCEPT ![h] = IF @ = NoRequest THEN c ELSE @]
  <2>1. h \in Handles \ Listening /\ \A d \in Requests : conn[d].handle # h
    BY DEF FreeHandles
  <2>2. /\ readFns[h].owner = NoRequest /\ writeFns[h].owner = NoRequest
        /\ exceptFns[h] = NoRequest
    <3>1. ASSUME NEW d \in Requests
          PROVE  readFns[h].owner # d /\ writeFns[h].owner # d /\ exceptFns[h] # d
      <4>1. Fits(d, conn[d], readFns, writeFns, exceptFns)
        BY DEF ConnInv
      <4>. QED  BY <2>1, <4>1 DEF Fits, Holds
    <3>2. /\ readFns[h].owner \in Requests \cup {NoRequest}
          /\ writeFns[h].owner \in Requests \cup {NoRequest}
          /\ exceptFns[h] \in Requests \cup {NoRequest}
      BY <2>1 DEF ConnInv, MapOK, ExceptsOK, Registrations
    <3>. QED  BY <3>1, <3>2
  <2>3. OwnHandle(c, h)
    BY <2>1, <2>2 DEF OwnHandle
  <2>4. /\ k.state = "CONNECTING" /\ k.handle = h /\ k.forwarder = f
        /\ k.read = FALSE /\ k.write = FALSE /\ k.except = TRUE
        /\ k.timeLeft = Timeout /\ k \in Connections
    <3>1. Timeout \in 0..Timeout /\ h \in Handles \cup {NoHandle} /\ f \in Forwarders
      BY <1>3, <2>1, ConnectionAssumption
    <3>. QED  BY <2>2, <3>1 DEF Connecting, Connections, Live
  <2>5. /\ MapFor(c, readFns, h, FALSE, Listening)
        /\ MapFor(c, writeFns, h, FALSE, {})
    BY <1>4, <2>2 DEF ConnInv, MapFor, Holds
  <2>6. /\ ExceptsOK(xf) /\ xf[h] = c
        /\ \A g \in Handles \ {h} : xf[g] = exceptFns[g] /\ xf[g] # c
    BY <1>4, <2>1, <2>2 DEF ConnInv, ExceptsOK
  <2>. HIDE DEF k, xf
  <2>7. Ready(c, k, readFns, writeFns, xf)
    BY <1>3, <2>1, <2>4, <2>5, <2>6 DEF Ready
  <2>8. Scheduled(k, readFns, writeFns)
    BY <2>4 DEF Scheduled
  <2>9. /\ Outcome(c, h)
        /\ conn'[c].state \in {"CONNECTING", "OPEN", "CLOSED"}
        /\ conn'[c].forwarder = f
        /\ NotReported \/ Reported(f)
        /\ conn'[c].state = "CLOSED" \/ conn'[c].timeLeft = Timeout
    <3>1. Handshake(c, k, xf)
      BY <1>7 DEF k, xf
    <3>. QED  BY <1>1, <2>4, <2>7, <2>8, <3>1, HandshakeOutcome
  <2>10. \A d \in Requests : Fits(d, conn'[d], readFns', writeFns', exceptFns')
    BY <2>3, <2>9, OthersFit DEF Outcome
  <2>11. DeliveryOK(conn'[c], delivered'[c])
    BY <1>5 DEF DeliveryOK
  <2>12. ConnInv'
    BY <1>3, <1>5, <2>9, <2>10, <2>11, StepOfOne DEF Outcome
  <2>13. \A g \in Listening : readFns'[g] = readFns[g]
    BY <2>1, <2>9, ConnectionAssumption DEF Outcome
  <2>. QED  BY <2>9, <2>12, <2>13 DEF Outcome
<1>. QED  BY <1>1, <1>6, <1>7 DEF Construct

(***************************************************************************)
(* A second takes the same from a registration and from the connection     *)
(* that made it.                                                           *)
(***************************************************************************)
LEMMA TickKeeps ==
    ASSUME ConnInv, Tick
    PROVE  /\ ConnInv'
           /\ \A c \in Requests :
                /\ conn'[c].state = conn[c].state
                /\ conn'[c].handle = conn[c].handle
                /\ conn'[c].forwarder = conn[c].forwarder
<1>. USE ConnectionAssumption
<1>1. /\ forwarders' = forwarders /\ reported' = reported
      /\ exceptFns' = exceptFns /\ delivered' = delivered
  BY DEF Tick
<1>2. ASSUME NEW c \in Requests
      PROVE  /\ conn'[c] \in Connections
             /\ conn'[c].state = conn[c].state
             /\ conn'[c].handle = conn[c].handle
             /\ conn'[c].forwarder = conn[c].forwarder
             /\ conn'[c].timeLeft = Elapsed(conn[c].timeLeft)
             /\ conn'[c].buffer = conn[c].buffer
             /\ conn'[c].read = conn[c].read
             /\ conn'[c].write = conn[c].write
             /\ conn'[c].except = conn[c].except
             /\ conn[c].timeLeft = 0 => conn'[c] = conn[c]
  <2>. DEFINE k == conn[c]
  <2>1. k \in Connections /\ conn'[c] = [k EXCEPT !.timeLeft = Elapsed(@)]
    BY DEF ConnInv, Tick
  <2>. HIDE DEF k
  <2>2. k.timeLeft \in 0..Timeout
    BY <2>1 DEF Connections
  <2>3. Elapsed(k.timeLeft) \in 0..Timeout /\ Elapsed(0) = 0
    BY <2>2 DEF Elapsed
  <2>4. k.timeLeft = 0 => [k EXCEPT !.timeLeft = Elapsed(@)] = k
    BY <2>1, <2>3 DEF Connections
  <2>. QED  BY <2>1, <2>3, <2>4 DEF Connections, k
<1>3. ASSUME NEW h \in Handles
      PROVE  /\ readFns'[h] \in Registrations
             /\ readFns'[h].owner = readFns[h].owner
             /\ readFns'[h].callback = readFns[h].callback
             /\ readFns'[h].time = Elapsed(readFns[h].time)
  <2>1. readFns[h] \in Registrations
    BY DEF ConnInv, MapOK
  <2>2. readFns'[h] = [readFns[h] EXCEPT !.time = Elapsed(@)]
    BY DEF Tick
  <2>. QED  BY <2>1, <2>2 DEF Registrations, Elapsed
<1>4. ASSUME NEW h \in Handles
      PROVE  /\ writeFns'[h] \in Registrations
             /\ writeFns'[h].owner = writeFns[h].owner
             /\ writeFns'[h].callback = writeFns[h].callback
             /\ writeFns'[h].time = Elapsed(writeFns[h].time)
  <2>1. writeFns[h] \in Registrations
    BY DEF ConnInv, MapOK
  <2>2. writeFns'[h] = [writeFns[h] EXCEPT !.time = Elapsed(@)]
    BY DEF Tick
  <2>. QED  BY <2>1, <2>2 DEF Registrations, Elapsed
<1>5. conn' \in [Requests -> Connections]
  <2>1. conn' = [c \in Requests |-> conn'[c]]
    BY DEF Tick
  <2>. QED  BY <1>2, <2>1
<1>6. MapOK(readFns', Listening) /\ MapOK(writeFns', {})
  <2>1. /\ readFns' = [h \in Handles |-> readFns'[h]]
        /\ writeFns' = [h \in Handles |-> writeFns'[h]]
    BY DEF Tick
  <2>2. readFns' \in [Handles -> Registrations] /\ writeFns' \in [Handles -> Registrations]
    BY <1>3, <1>4, <2>1
  <2>3. Elapsed(NoTimeout) = NoTimeout
    BY DEF Elapsed, NoTimeout
  <2>4. ASSUME NEW fns, NEW new, NEW listening, MapOK(fns, listening),
               new \in [Handles -> Registrations],
               \A h \in Handles :
                    /\ new[h].owner = fns[h].owner
                    /\ new[h].callback = fns[h].callback
                    /\ new[h].time = Elapsed(fns[h].time)
        PROVE  MapOK(new, listening)
    BY <2>3, <2>4 DEF MapOK
  <2>5. MapOK(readFns, Listening) /\ MapOK(writeFns, {})
    BY DEF ConnInv
  <2>. QED  BY <1>3, <1>4, <2>2, <2>4, <2>5
<1>7. ASSUME NEW c \in Requests
      PROVE  Fits(c, conn'[c], readFns', writeFns', exceptFns')
  <2>. DEFINE k == conn[c]
              new == conn'[c]
  <2>1. Fits(c, k, readFns, writeFns, exceptFns)
    BY DEF ConnInv
  <2>2. \A h \in Handles :
          /\ readFns'[h].owner = readFns[h].owner
          /\ writeFns'[h].owner = writeFns[h].owner
    BY <1>3, <1>4
  <2>3. CASE k.state \notin Live
    <3>1. k.timeLeft = 0 /\ k.handle = 0
      BY <2>1, <2>3 DEF Fits, WithoutSocket, NoHandle
    <3>2. new = k
      BY <1>2, <3>1
    <3>3. \A h \in Handles : k.handle # h
      BY <3>1
    <3>4. ~k.read /\ ~k.write
      BY <2>1, <2>3 DEF Fits, WithoutSocket
    <3>. HIDE DEF k
    <3>5. Holds(c, readFns', k.handle, k.read) /\ Holds(c, writeFns', k.handle, k.write)
      BY <2>1, <2>2, HoldsBySameOwner DEF Fits
    <3>6. Fits(c, k, readFns', writeFns', exceptFns')
      BY <1>1, <2>1, <3>4, <3>5 DEF Fits
    <3>. QED  BY <3>2, <3>6
  <2>4. CASE k.state \in Live
    <3>1. /\ new \in Connections /\ new.state = k.state /\ new.handle = k.handle
          /\ new.forwarder = k.forwarder /\ new.timeLeft = Elapsed(k.timeLeft)
          /\ new.buffer = k.buffer /\ new.read = k.read /\ new.write = k.write
          /\ new.except = k.except
      BY <1>2
    <3>2. k.handle \in Handles
      BY <2>1, <2>4 DEF Fits
    <3>. HIDE DEF k, new
    <3>3. Holds(c, readFns', new.handle, new.read) /\ Holds(c, writeFns', new.handle, new.write)
      <4>1. Holds(c, readFns', k.handle, k.read) /\ Holds(c, writeFns', k.handle, k.write)
        BY <2>1, <2>2, HoldsBySameOwner DEF Fits
      <4>. QED  BY <3>1, <4>1
    <3>4. new.read =>
            /\ readFns'[new.handle].callback = ReadCallbackIn(new.state)
            /\ readFns'[new.handle].time = new.timeLeft
      <4>1. k.read =>
              /\ readFns[k.handle].callback = ReadCallbackIn(k.state)
              /\ readFns[k.handle].time = k.timeLeft
        BY <2>1 DEF Fits
      <4>2. /\ readFns'[k.handle].callback = readFns[k.handle].callback
            /\ readFns'[k.handle].time = Elapsed(readFns[k.handle].time)
        BY <1>3, <3>2
      <4>. QED  BY <3>1, <4>1, <4>2
    <3>5. new.write =>
            /\ writeFns'[new.handle].callback = WriteCallbackIn(new.state)
            /\ writeFns'[new.handle].time = new.timeLeft
      <4>1. k.write =>
              /\ writeFns[k.handle].callback = WriteCallbackIn(k.state)
              /\ writeFns[k.handle].time = k.timeLeft
        BY <2>1 DEF Fits
      <4>2. /\ writeFns'[k.handle].callback = writeFns[k.handle].callback
            /\ writeFns'[k.handle].time = Elapsed(writeFns[k.handle].time)
        BY <1>4, <3>2
      <4>. QED  BY <3>1, <4>1, <4>2
    <3>6. \A h \in Handles : exceptFns'[h] = c <=> new.handle = h /\ new.except
      BY <1>1, <2>1, <3>1 DEF Fits
    <3>7. Fits(c, new, readFns', writeFns', exceptFns')
      BY <2>1, <2>4, <3>1, <3>3, <3>4, <3>5, <3>6 DEF Fits, Live
    <3>. QED  BY <3>7 DEF new
  <2>. QED  BY <2>3, <2>4
<1>8. \A c \in Requests : DeliveryOK(conn'[c], delivered'[c])
  BY <1>1, <1>2 DEF ConnInv, DeliveryOK
<1>9. ConnInv'
  BY <1>1, <1>5, <1>6, <1>7, <1>8 DEF ConnInv
<1>. QED  BY <1>2, <1>9

(***************************************************************************)
(* A reload changes the list of forwarders only.                           *)
(***************************************************************************)
LEMMA SetForwardersKeeps ==
    ASSUME ConnInv, NEW config \in Configs, SetForwarders(config)
    PROVE  ConnInv'
BY ConfigsAssumption DEF ConnInv, SetForwarders

(***************************************************************************)
(* When listening begins there are no connections, and nothing is          *)
(* registered but the callbacks of the listening descriptors.              *)
(***************************************************************************)
LEMMA ConnInitHolds == ConnInit => ConnInv
<1>. SUFFICES ASSUME ConnInit PROVE ConnInv
  OBVIOUS
<1>. USE ConnectionAssumption DEF ConnInit
<1>1. forwarders \in Seq(Forwarders) /\ reported \subseteq Forwarders
  BY ConfigsAssumption
<1>2. /\ Registration(NoRequest, "listen", NoTimeout) \in Registrations
      /\ NotRegistered \in Registrations
      /\ NotRegistered.owner = NoRequest /\ NotRegistered.callback = "none"
      /\ Registration(NoRequest, "listen", NoTimeout).owner = NoRequest
      /\ Registration(NoRequest, "listen", NoTimeout).callback = "listen"
      /\ NotRegistered.time = NoTimeout
      /\ Registration(NoRequest, "listen", NoTimeout).time = NoTimeout
  BY DEF Registration, NotRegistered, Registrations, Callbacks, NoTimeout
<1>3. MapOK(readFns, Listening) /\ MapOK(writeFns, {}) /\ ExceptsOK(exceptFns)
  BY <1>2 DEF MapOK, ExceptsOK
<1>4. ASSUME NEW c \in Requests
      PROVE  /\ Fits(c, conn[c], readFns, writeFns, exceptFns)
             /\ DeliveryOK(conn[c], delivered[c])
  <2>1. conn[c] = WithoutSocket("NONE", NoForwarder) /\ delivered[c] = 0
    OBVIOUS
  <2>2. \A h \in Handles : readFns[h].owner # c /\ writeFns[h].owner # c /\ exceptFns[h] # c
    BY <1>2
  <2>3. Fits(c, WithoutSocket("NONE", NoForwarder), readFns, writeFns, exceptFns)
    BY <2>2, WithoutSocketFits
  <2>. QED  BY <2>1, <2>3 DEF DeliveryOK
<1>5. conn \in [Requests -> Connections]
  <2>1. WithoutSocket("NONE", NoForwarder) \in Connections
    BY DEF WithoutSocket, Connections, NoHandle
  <2>. QED  BY <2>1
<1>6. delivered \in [Requests -> Nat]
  OBVIOUS
<1>. QED  BY <1>1, <1>3, <1>4, <1>5, <1>6 DEF ConnInv

(***************************************************************************)
(* Every operation of a connection, the passing of time and a reload keep  *)
(* the invariant.                                                          *)
(***************************************************************************)
LEMMA ConnStepKeeps == ConnInv /\ [ConnNext]_connVars => ConnInv'
<1>. SUFFICES ASSUME ConnInv, [ConnNext]_connVars PROVE ConnInv'
  OBVIOUS
<1>1. ASSUME NEW c \in Requests, Construct(c) PROVE ConnInv'
  BY <1>1, ConstructEffect
<1>2. ASSUME NEW c \in Requests, NEW h \in Handles,
             ReadCallback(c, h) \/ WriteCallback(c, h) \/ RaiseException(c, h)
      PROVE  ConnInv'
  BY <1>2, ReadEffect, WriteEffect, ExceptionEffect, EffectKeeps
<1>3. CASE Tick
  BY <1>3, TickKeeps
<1>4. ASSUME NEW config \in Configs, SetForwarders(config) PROVE ConnInv'
  BY <1>4, SetForwardersKeeps
<1>5. CASE UNCHANGED connVars
  BY <1>5 DEF connVars, ConnInv
<1>. QED  BY <1>1, <1>2, <1>3, <1>4, <1>5 DEF ConnNext

(***************************************************************************)
(* The inductive invariant holds in every instance.                        *)
(***************************************************************************)
THEOREM ConnInvariant == ConnSpec => []ConnInv
  BY ConnInitHolds, ConnStepKeeps, PTL DEF ConnSpec

-----------------------------------------------------------------------------
(* What the runs check. *)

(***************************************************************************)
(* The connections and the maps of the loop have their types, and a        *)
(* connection that is not live has neither socket nor registration.        *)
(***************************************************************************)
THEOREM ConnTypeCorrect == ConnSpec => []ConnTypeOK
<1>1. ConnInv => ConnTypeOK
  BY DEF ConnInv, Fits, MapOK, ExceptsOK, ConnTypeOK
<1>. QED  BY <1>1, ConnInvariant, PTL

(***************************************************************************)
(* A valid Registration of a connection is the loop's entry for its        *)
(* descriptor, and no entry of the loop outlives its connection.           *)
(***************************************************************************)
THEOREM AlwaysRegistrationsAgree == ConnSpec => []RegistrationsAgree
<1>1. ConnInv => RegistrationsAgree
  BY DEF ConnInv, Fits, Holds, RegistrationsAgree
<1>. QED  BY <1>1, ConnInvariant, PTL

(***************************************************************************)
(* A connection with a socket is always in the loop, with its deadline and *)
(* the exception callback by which Loop::timeout() ends it.                *)
(***************************************************************************)
THEOREM NeverUnwatched == ConnSpec => []AlwaysWatched
<1>1. ConnInv => AlwaysWatched
  BY DEF ConnInv, Fits, AlwaysWatched
<1>. QED  BY <1>1, ConnInvariant, PTL

(***************************************************************************)
(* Every callback in the loop is the one of its connection's state.        *)
(***************************************************************************)
THEOREM CallbacksFitStates == ConnSpec => []CallbackFitsState
<1>1. ConnInv => CallbackFitsState
  <2>. SUFFICES ASSUME ConnInv, NEW c \in Requests, NEW h \in Handles
                PROVE  /\ readFns[h].owner = c =>
                            readFns[h].callback = ReadCallbackIn(conn[c].state)
                       /\ writeFns[h].owner = c =>
                            writeFns[h].callback = WriteCallbackIn(conn[c].state)
    BY DEF CallbackFitsState, ReadCallbackIn, WriteCallbackIn
  <2>1. Fits(c, conn[c], readFns, writeFns, exceptFns)
    BY DEF ConnInv
  <2>. QED  BY <2>1 DEF Fits, Holds
<1>. QED  BY <1>1, ConnInvariant, PTL

(***************************************************************************)
(* A request that was accepted is scheduled to be sent until it was, and   *)
(* an open connection always listens for the response.                     *)
(***************************************************************************)
THEOREM NeverForgotten == ConnSpec => []UnsentIsScheduled
<1>1. ConnInv => UnsentIsScheduled
  BY DEF ConnInv, Fits, UnsentIsScheduled
<1>. QED  BY <1>1, ConnInvariant, PTL

(***************************************************************************)
(* However often its connection is readable, a request is answered once.   *)
(***************************************************************************)
THEOREM DeliversOnce == ConnSpec => []AtMostOneDelivery
<1>1. ConnInv => AtMostOneDelivery
  BY DEF ConnInv, DeliveryOK, AtMostOneDelivery
<1>. QED  BY <1>1, ConnInvariant, PTL

-----------------------------------------------------------------------------

\* What a step may do to a connection.
Forward(c) ==
    /\ StateRank[conn[c].state] <= StateRank[conn'[c].state]
    /\ conn[c].state \in Live /\ conn'[c].state \in Live =>
        conn[c].handle = conn'[c].handle

(***************************************************************************)
(* A callback moves its own connection forward and no other.               *)
(***************************************************************************)
LEMMA EffectForward ==
    ASSUME ConnInv, NEW c \in Requests, Effect(c), NEW d \in Requests
    PROVE  Forward(d)
<1>1. CASE d = c
  BY <1>1 DEF Effect, Outcome, Forward
<1>2. CASE d # c
  <2>1. conn'[d] = conn[d] /\ conn[d] \in Connections
    BY <1>2 DEF Effect, Outcome, ConnInv
  <2>. QED  BY <2>1, Ranks DEF Forward, Connections, Live
<1>. QED  BY <1>1, <1>2

(***************************************************************************)
(* No connection goes back to an earlier state or changes its descriptor.  *)
(***************************************************************************)
THEOREM NeverBack == ConnSpec => OnlyForward
<1>. DEFINE AllForward ==
                \A c \in Requests :
                    /\ StateRank[conn[c].state] <= StateRank[conn'[c].state]
                    /\ conn[c].state \in Live /\ conn'[c].state \in Live =>
                        conn[c].handle = conn'[c].handle
<1>1. ConnInv /\ [ConnNext]_connVars => [AllForward]_connVars
  <2>. SUFFICES ASSUME ConnInv, ConnNext, NEW d \in Requests PROVE Forward(d)
    BY DEF Forward
  <2>1. ASSUME conn'[d].state = conn[d].state, conn'[d].handle = conn[d].handle
        PROVE  Forward(d)
    <3>1. conn[d] \in Connections
      BY DEF ConnInv
    <3>. QED  BY <2>1, <3>1, Ranks DEF Forward, Connections, Live
  <2>2. ASSUME NEW c \in Requests, Construct(c) PROVE Forward(d)
    <3>1. /\ conn[c].state = "NONE"
          /\ conn'[c].state \in {"CONNECTING", "OPEN", "CLOSED"}
          /\ conn' = [conn EXCEPT ![c] = conn'[c]]
      BY <2>2, ConstructEffect
    <3>2. CASE d = c
      BY <3>1, <3>2, Ranks DEF Forward, Live
    <3>3. CASE d # c
      <4>1. conn'[d] = conn[d]
        BY <3>1, <3>3 DEF ConnInv
      <4>. QED  BY <2>1, <4>1
    <3>. QED  BY <3>2, <3>3
  <2>3. ASSUME NEW c \in Requests, NEW h \in Handles,
               ReadCallback(c, h) \/ WriteCallback(c, h) \/ RaiseException(c, h)
        PROVE  Forward(d)
    BY <2>3, ReadEffect, WriteEffect, ExceptionEffect, EffectForward
  <2>4. CASE Tick
    BY <2>1, <2>4, TickKeeps
  <2>5. ASSUME NEW config \in Configs, SetForwarders(config) PROVE Forward(d)
    BY <2>1, <2>5 DEF SetForwarders
  <2>. QED  BY <2>2, <2>3, <2>4, <2>5 DEF ConnNext
<1>. QED  BY <1>1, ConnInvariant, PTL DEF ConnSpec, OnlyForward

-----------------------------------------------------------------------------

\* ForwarderConfig's history of what get() answered.
Chosen == {conn[c].forwarder : c \in Requests} \ {NoForwarder}

(***************************************************************************)
(* The operations on the list that module ForwarderConfig is made of.      *)
(***************************************************************************)
LEMMA SameList ==
    /\ \A list, f : Config!Demote(list, f) = Demote(list, f)
    /\ \A list : Config!Preferred(list) = Preferred(list)
BY DEF Config!Demote, Demote, Config!Rotate, Rotate, Config!IsFirstMatch, IsFirstMatch,
       Config!Preferred, Preferred

(***************************************************************************)
(* A callback may report the forwarder its connection was given.           *)
(***************************************************************************)
LEMMA EffectIsConfigStep ==
    ASSUME ConnInv, NEW c \in Requests, Effect(c)
    PROVE  (\E f \in Forwarders : Config!SetBad(f)) \/ UNCHANGED Config!configVars
<1>1. conn[c].forwarder \in Forwarders
  BY LiveReady DEF Ready, Effect
<1>2. Chosen' = Chosen
  <2>1. \A d \in Requests : conn'[d].forwarder = conn[d].forwarder
    BY DEF Effect, Outcome, ConnInv
  <2>. QED  BY <2>1 DEF Chosen
<1>3. conn[c].forwarder \in Chosen
  BY <1>1, ConnectionAssumption DEF Chosen
<1>4. CASE NotReported
  BY <1>2, <1>4 DEF NotReported, Config!configVars, Chosen
<1>5. CASE Reported(conn[c].forwarder)
  <2>1. PICK f \in Forwarders : f = conn[c].forwarder
    BY <1>1
  <2>2. Config!SetBad(f)
    BY <1>2, <1>3, <1>5, <2>1, SameList DEF Reported, Config!SetBad, Chosen
  <2>. QED  BY <2>2
<1>. QED  BY <1>4, <1>5 DEF Effect

(***************************************************************************)
(* A new connection asks for a forwarder, and may report it at once.       *)
(***************************************************************************)
LEMMA ConstructIsConfigStep ==
    ASSUME ConnInv, NEW c \in Requests, Construct(c)
    PROVE  \/ \E f \in Forwarders : Config!Get(f) \/ Config!SetBad(f)
           \/ UNCHANGED Config!configVars
<1>0. PICK f \in Preferred(forwarders) \cup {NoForwarder} : f = conn'[c].forwarder
  BY ConstructEffect
<1>1. /\ conn[c].state = "NONE"
      /\ conn' = [conn EXCEPT ![c] = conn'[c]]
      /\ NotReported \/ (f \in Preferred(forwarders) /\ Reported(f))
  BY <1>0, ConstructEffect DEF Reported
<1>2. conn[c].forwarder = NoForwarder /\ conn \in [Requests -> Connections]
  BY <1>1 DEF ConnInv, Fits
<1>3. Preferred(forwarders) \subseteq Forwarders
  <2>1. forwarders # <<>> => Head(forwarders) \in Forwarders
    BY DEF ConnInv
  <2>. QED  BY <2>1 DEF Preferred
<1>4. \A d \in Requests : d # c => conn'[d] = conn[d]
  BY <1>1, <1>2
<1>5. Chosen' = Chosen \cup ({f} \ {NoForwarder})
  BY <1>0, <1>2, <1>4 DEF Chosen
<1>6. CASE f = NoForwarder
  <2>1. NotReported
    BY <1>1, <1>3, <1>6, ConnectionAssumption
  <2>2. Chosen' = Chosen
    BY <1>5, <1>6
  <2>. QED  BY <2>1, <2>2 DEF NotReported, Config!configVars, Chosen
<1>7. CASE f \in Preferred(forwarders)
  <2>1. f \in Forwarders /\ Chosen' = Chosen \cup {f}
    BY <1>3, <1>5, <1>7, ConnectionAssumption
  <2>2. CASE NotReported
    <3>1. Config!Get(f)
      BY <1>7, <2>1, <2>2, SameList DEF NotReported, Config!Get, Chosen
    <3>. QED  BY <2>1, <3>1
  <2>3. CASE Reported(f)
    <3>1. Config!SetBad(f)
      BY <1>7, <2>1, <2>3, SameList DEF Reported, Config!SetBad, Chosen
    <3>. QED  BY <2>1, <3>1
  <2>. QED  BY <1>1, <2>2, <2>3
<1>. QED  BY <1>6, <1>7

(***************************************************************************)
(* Time and reloads, seen from the list.                                   *)
(***************************************************************************)
LEMMA TickIsConfigStutter ==
    ASSUME ConnInv, Tick
    PROVE  UNCHANGED Config!configVars
<1>1. Chosen' = Chosen
  BY TickKeeps DEF Chosen
<1>2. forwarders' = forwarders /\ reported' = reported
  BY DEF Tick
<1>. QED  BY <1>1, <1>2 DEF Config!configVars, Chosen

(***************************************************************************)
(* Dote::setForwarders() is a reload of the list, whatever connections     *)
(* there are.                                                              *)
(***************************************************************************)
LEMMA ReloadIsConfigStep ==
    ASSUME NEW config \in Configs, SetForwarders(config)
    PROVE  Config!SetForwarders(config)
BY DEF SetForwarders, Config!SetForwarders

(***************************************************************************)
(* The initial list is one of ForwarderConfig.                             *)
(***************************************************************************)
LEMMA InitIsConfigInit == ConnInit => Config!ConfigInit
<1>. SUFFICES ASSUME ConnInit PROVE Config!ConfigInit
  OBVIOUS
<1>1. \A c \in Requests : conn[c].forwarder = NoForwarder
  BY DEF ConnInit, WithoutSocket
<1>. QED  BY <1>1 DEF ConnInit, Config!ConfigInit

(***************************************************************************)
(* Together: every step of a connection is a step of the forwarder list.   *)
(***************************************************************************)
LEMMA ConfigStep ==
    ConnInv /\ [ConnNext]_connVars => [Config!ConfigNext]_(Config!configVars)
<1>. SUFFICES ASSUME ConnInv, [ConnNext]_connVars
              PROVE  Config!ConfigNext \/ UNCHANGED Config!configVars
  OBVIOUS
<1>. USE DEF Config!ConfigNext
<1>1. ASSUME NEW c \in Requests, Construct(c)
      PROVE  Config!ConfigNext \/ UNCHANGED Config!configVars
  BY <1>1, ConstructIsConfigStep
<1>2. ASSUME NEW c \in Requests, NEW h \in Handles,
             ReadCallback(c, h) \/ WriteCallback(c, h) \/ RaiseException(c, h)
      PROVE  Config!ConfigNext \/ UNCHANGED Config!configVars
  BY <1>2, ReadEffect, WriteEffect, ExceptionEffect, EffectIsConfigStep
<1>3. CASE Tick
  BY <1>3, TickIsConfigStutter
<1>4. ASSUME NEW config \in Configs, SetForwarders(config)
      PROVE  Config!ConfigNext
  BY <1>4, ReloadIsConfigStep
<1>5. CASE UNCHANGED connVars
  BY <1>5 DEF connVars, Config!configVars
<1>. QED  BY <1>1, <1>2, <1>3, <1>4, <1>5 DEF ConnNext

(***************************************************************************)
(* The connections implement ForwarderConfig: they report only forwarders  *)
(* that get() answered them, in whatever order they fail.                  *)
(***************************************************************************)
THEOREM ImplementsConfig == ConnSpec => ConfigSpec
  BY InitIsConfigInit, ConfigStep, ConnInvariant, PTL
     DEF ConnSpec, ConfigSpec, Config!ConfigSpec

=============================================================================
