# DoTe in TLA+

DoTe is a DNS-over-TLS forwarder.  It receives DNS requests by UDP, sends each
over a TLS connection of its own to an upstream forwarder, and returns the
response.  Everything happens in one thread, in callbacks of a `poll()` loop.
The specifications in this directory model the program as its source has it
(`src/src`, `src/include`): the forwarding core, and around it configuration,
start-up, the verification of forwarders and what becomes of their responses.
Paths below are relative to those two directories.


## 1. Inventory

| Component | Source | State | Operations | Correct when |
|---|---|---|---|---|
| Server | `server.cpp` | the listening sockets and their read registrations | `addServer`, `handleDnsRequest` | each datagram that fits is handed to the dispatcher once |
| Dispatcher | `client_forwarders.cpp` | `m_forwarders` (slots), `m_queue` | `handleRequest`, `sendRequest`, `dequeue`, `handleShutdown`, `handleIncoming` | limit kept, arrival order kept, no request lost, stuck or answered twice |
| Forwarder list | `forwarder_config.cpp` | `m_forwarders`, `m_timeout` | `get`, `setBad`, `clear`, `addForwarder` | the configured order, failed forwarders last |
| Connection | `forwarder_connection.cpp` | `m_state`, `m_socket`, `m_buffer`, three registrations, the deadline | constructor, `connect`, `send`, `outgoing`, `incoming`, `shutdown`, `_shutdown`, `exception`, `close` | its callbacks fit its state, it can always be ended, it sends once, delivers once and frees its slot once |
| Event loop | `loop.cpp`, `i_loop.cpp` | read, write and exception callbacks by descriptor, the poll set | `run`, `populateFds`, `timeout`, `raiseException`, `register*`, `remove*` | each event reaches the callback it is for, each deadline is noticed |
| Configuration watch | `vyatta_check.cpp` | the inotify descriptor and its registration | `configure`, `handleRead`, `reloadConfiguration` | a valid new list replaces the old one, an invalid one changes nothing |
| `Dote` | `dote.cpp` | owns the above | constructor, `listen`, `setForwarders`, `run`, `shutdown` | |
| Process | `main.cpp` | `g_dote`, signal dispositions | start-up, `daemonise`, `dropPriviledges`, `shutdownHandler` | requests in progress are completed on shutdown, and then the process ends |
| Verification | `verify_cache.cpp`, `openssl/spki_verifier.cpp`, `openssl/context.cpp` | the cached leaf and its expiry | `verify`, `verifyTrampoline` | accepted as pin, host name and chain say |
| Host names | `openssl/hostname_verifier.cpp` | none | `isValid` | wildcard rules |
| TLS | `openssl/ssl_connection.cpp`, `ssl_factory.cpp` | the `SSL` object | `connect`, `read`, `write`, `shutdown` | OpenSSL's codes translated |
| DNS packets | `dns_packet.cpp` | the packet | `valid`, `removeEdnsPadding` | the padding option goes, the rest stays |
| Configuration | `config_parser.cpp`, `vyatta.cpp` | parsed options, the partial forwarder | `parseConfig`, `pushForwarder`, `loadConfig` | options attach to their forwarder |
| PID file | `pid_file.cpp` | the locked descriptor | constructor, destructor | the file names the process that serves |
| IP look-up | `ip_lookup.cpp` | one connection in a loop of its own | `connect` | it ends |
| Sockets, certificate helpers, logging | `socket.cpp`, `openssl/certificate_utilities.cpp`, `openssl/base64.cpp`, `log.cpp`, ... | none of interest | | |

How they interact.  `Loop::run()` calls back into the server sockets, the
configuration watch and the connections.  A server socket's callback calls
`handleRequest()`, which makes a connection or queues.  A connection asks the
forwarder list for its forwarder and reports it there when it fails; it keeps
its registrations in the loop; it calls the dispatcher when data arrives
(`m_incoming`) and from `close()` (`m_shutdown`).  The dispatcher then erases
the connection and sends the next request, so **a connection is made inside the
callback that closed another, and usually gets the descriptor that was just
closed**.  The same happens inside `Loop::timeout()`.  Most of what is hard in
this program follows from that: the loop acts on descriptors it learned about
before a callback, the scans of its maps are changed under its feet, and the
`sendRequest()`/`dequeue()` recursion runs inside all of it.

Around this core, `main()` joins the options of the command line with those of
the router, makes the PID file, binds the server sockets and runs the loop, in
which the watch repeats the first of these when the router saves.  All
connections share one `Context`, with one cached certificate and one cached
session, so what one connection was allowed decides about the next.  What is
shared between processes is the PID file and the addresses.  The hazards, each
with its line and the properties that cover it, are listed in `PROJECT.json`.


## 2. Modules

| Module | Models | Uses |
|---|---|---|
| `ForwarderList` | the list operations as functions: `std::rotate`, `setBad()`'s search, `get()` | |
| `ForwarderConfig` | the list with reports and reloads | `ForwarderList` |
| `RequestService` | abstract: what the forwarding side promises | |
| `ClientForwarders` | the dispatcher; implements `RequestService` | `RequestService` |
| `ForwarderConnection` | the connections and the registrations in the loop's maps; implements `ForwarderConfig` | `ForwarderList`, `ForwarderConfig` |
| `Dote` | the loop with everything on it; implements `ClientForwarders` and `ForwarderConfig` | `ForwarderConnection`, `ClientForwarders` |
| `Lifecycle` | signals, shutdown and the end of the loop | `Dote` |
| `ConfigParser` | the options, as functions from a parser to a parser | |
| `Vyatta` | what a router's configuration adds to a parser | `ConfigParser` |
| `VyattaCheck` | the configuration of a running process, and its watch | `Vyatta`, `ForwarderConfig` |
| `PidFile` | the system calls of the PID file, by several processes | |
| `Startup` | `main()` from the start of a process to its end, by several processes | `PidFile` |
| `HostnameVerifier` | the names of a certificate and a host name | |
| `Verification` | pin and host name, `verifyTrampoline()`, the cache | `HostnameVerifier` |
| `DnsPacket` | the header check and the removal of padding | |
| `Upstream` | connections with their sessions, certificates and responses | `Verification`, `DnsPacket` |
| `ForwarderList_proof` | lemmas about the list operations | `ForwarderList` |
| `ClientForwarders_proof`, `ForwarderConfig_proof`, `ForwarderConnection_proof`, `Startup_proof`, `Upstream_proof`, `VyattaCheck_proof` | theorems about the module of that name | that module |
| `Dote_proof` | theorems about `Dote` and `Lifecycle` | `Lifecycle`, `ForwarderConnection_proof`, instances of `ClientForwarders_proof` and `ForwarderConfig_proof` |
| `MC*` | small instances for TLC | |

Definitions whose comment begins with "Mutant:" are faulty variants of the
definition that follows them.  No specification uses them; putting one in the
place of its original shows that the property named in `PROJECT.json` notices
the fault.

### How state and actions correspond to the code

*Requests and connections.*  `sendRequest()` makes one `ForwarderConnection`
per request, so a connection is named by its request.  `active` is
`m_forwarders`, `queue` is `m_queue`.  `answered`, `finished`, `delivered`,
`chosen` and `reported` are history variables.

*Calls.*  `sendRequest()` and `dequeue()` call each other, and
`handleShutdown()` ends in `dequeue()`.  All are tail calls, so the stack need
not be modelled: `call` holds the call that is due, and while it is not `Idle`
no other handler starts.  A handler with its trailing calls is a run of steps
that nothing interrupts, which is what one thread means.

*Time.*  A deadline is kept as the number of seconds left.  `time()` has a grain
of a second and `Tick` takes one off every deadline; `NoTimeout` (-1) stands for
the 0 that the code passes for "never", and is, as 0 is there, smaller than
every deadline.  In `Dote` time passes only in `poll()`.

*Descriptors.*  A new socket gets the lowest number that is free, as POSIX has
it.  `Registration` objects are the flags `read`, `write`, `except` of a
connection: valid or not.  Registering a descriptor that is already in the map
changes nothing and gives an invalid object, as in the code.

*OpenSSL and the network.*  `connect`, `read`, `write` and `shutdown` of
`SslConnection` may give any member of `Result` at any time; whether a response
is a valid packet and whether `sendmsg()` worked is a choice.  `poll()` may
report any events that were asked for, errors on any connection, and must
report a descriptor of its set that is closed.

*The loop.*  `pc` is the position in `Loop::run()`: waiting in `poll()`,
calling the callbacks of the reported descriptors (`todo`), and the two scans of
`timeout()`.  One step is one callback.  The poll set `fds` is patched as in
`populateFds()`.

*Signals.*  `Lifecycle` adds `shutdownHandler()` between any two steps of the
proxy: the server sockets leave the loop, the signal's default action is put
back, and if the process is in `poll()` that call may fail, which ends `run()`.
A server socket stays open while a request that came in by it is in progress,
because the request shares it.

*Options.*  A command line is a sequence of options as `getopt_long()` delivers
them.  An address is its ip, its port, how it is bracketed and whether text
stands between a closing bracket and a colon or the end (`after`), which
`parseServer()` ignores together with the port.  Ips, host names and pins are
values; which of them `inet_pton()` and `Base64` understand is a parameter.  The
parsers are pure functions, one per method.  A router has a configuration that
changes (`Commit`) and is written (`Save`), which the watch notices if it works;
`cstore` may not answer a load, and then every entry looks empty, as it does
where there is no router.

*Processes.*  `Startup` has several processes.  Each system call of the PID file
is an action, as another process may come in between; a file is an inode, which
stays as long as somebody has it open, whatever becomes of its name.  `handle`
is `m_handle`, `stage` the line that the constructor or the destructor is at,
`pc` the place in `main()`.  `Die` is a kill at any step; a process that is
started again is another process.  `owned` and `orphaned` are history variables.

*Certificates.*  What OpenSSL finds wrong with a chain is any set of problems;
some of them are those of `ALLOWED_ERRORS`.  A name is a sequence of labels.
`cache` is `m_cache`, `cacheLeft` the seconds until `m_expiry`.  An entry of a
list of forwarders is a server (`remote`) and how it is to be verified, and the
same server may be in several entries, in one list or after a reload.
`session` is the `Context`'s session, with the server and the certificate it
was made with.  Every new connection offers it, whatever its entry
(`ssl_connection.cpp:53`); only the server it was made with can take it up, and
then presents no certificate and no verifier is asked (`Resume`).  `accepted`
and `latest` say, for the properties, what OpenSSL itself accepted, and `waived`
which server presented which certificate in a handshake with `disablePki`.

*Responses.*  `DnsPacket` works on bytes, as positions and lengths are all there
is to it; iterators are positions from 1.  A response is written by `Encode` from
a list of records and options, and its arrival in parts is a choice of a prefix.


## 3. Runs

| Run | Instance | Shows |
|---|---|---|
| `config` | command lines of up to 4 options for the parser; 2 of them run, with 4 router configurations, one of them invalid and one with an address of the default list | `ParsedAsWritten`, `FollowsRouter`, and `GoodBeforeBad`, `GoodOrderKept` under late reports and reloads |
| `clients` | 4 requests, 2 slots | `WorkConserving`, `WithinLimit`, `OnePlace`, the refinement of `RequestService`, and `NoRequestStalls` |
| `connection` | 3 connections, 2 free descriptors, 2 lists | `RegistrationsAgree`, `AlwaysWatched`, `CallbackFitsState`, `UnsentIsScheduled`, `AtMostOneDelivery`, `FailsOver`, `OnlyForward`, the refinement of `ForwarderConfig` |
| `dote` | `Lifecycle` with 3 requests, 2 slots, 1 signal | `SlotsAreConnections`, `PollSetExact`, `ReadsReachTheirSocket`, `NothingOverdueAtPoll`, `DrainsFirst`, `TakesNoMore`, the refinement of `ClientForwarders` |
| `dote_live` | 2 requests, 1 slot, a watch, 2 lists | `FinishedUnderTraffic`, and `FailsOver` in the whole |
| `startup` | 3 processes, 3 files, 3 addresses | `AllOrNothing`, `FileNamesServer`, `OnlyOwnersRemove` |
| `upstream` | 2 connections, 2 servers in 5 entries, 3 certificates, 2 kinds of problems, 4 responses | `AcceptedByRules`, `CacheIsFresh`, `VerifiedUnlessWaived`, `NoPartialReply`, `PaddingRemoved` |
| `dote_silent` | 1 request | `DroppedInTime` is **violated** |
| `lifecycle_exit` | 2 requests, 1 slot, 2 signals | `ExitsWhenDone` is **violated** |
| `config_pins` | as `config` | `RouterPinsApply` is **violated** |
| `upstream_session` | as `upstream` | `OpenIsVerified` is **violated** |
| `upstream_rules` | 2 connections, 1 entry | `AcceptedAsDocumented` is **violated** |

### Why the bounds are enough

Two slots and a request more than there are slots make a request wait, start
inside another connection's callback, and start on a descriptor that was just
closed while a second connection goes on.  In `dote_live` one of two requests
waits for the one slot, and what has to send it on is the end of the other.
Four requests in `clients` let two
wait, so that order matters and the recursion is two deep.  In `connection` the
two free descriptors run out, which is the constructor's failure to get a
socket.  In the runs of `Dote` descriptors suffice, and the choice of that
failure is in `Construct` anyway.  `Timeout` is 1: it separates overdue from
not yet due, and more seconds only repeat `Wait`.  The lists of three entries
distinguish moving an entry to the end from exchanging two.  A second signal
only kills (`lifecycle_exit` has two); one is enough for the end of the loop.
`dote` and `upstream` are checked up to a permutation of the requests and of the
connections: the specifications tell them apart by name only, and where they
choose one (`HolderOf`) there is one only.

Four options hold two forwarders with something between and after them, or one
with a host name, a pin and a repetition.  The lines of `config` that only test
the parser ask for a look-up, so that the model stops after them; two lines go
on.  Two of the options have text after a closing bracket, with an ip that is
taken and with one that is not.  With three processes one can end, one start and
one serve, and three files let a file without a name be open beside the one that
has it and a new one; two processes want the same two addresses, in the same
order.
`CacheSeconds` is 1: the cache is then new, old or over.  A third connection
would share cache and session with the others in no other way than the second.
The entries are one without verification, one with a pin and one with pin and
host name for the first server, one with a host name and one with both for the
second, so that each server is reached with more and with less than its session
was made with.  The certificates match by a wildcard, in spite of their common
name not at all, and but for the first character of their common name.  The
responses have no OPT record, one without padding, one with padding only, and
one with padding among other options, with records before and behind; what
arrives is all of it, all but a byte, or the header.

`clients` does not check deadlock: it has finitely many requests and ends when
all are finished.  The runs of `Lifecycle` (`dote`, `lifecycle_exit`) and
`startup` do not either: processes end.  Nor do `config` and `config_pins`, where
a command line may be refused.  The proxy itself never deadlocks, since it can
always wait, which `dote_live` checks.

### Fairness

`ClientForwarders!FairSpec` says that a call that is due is made: the thread
does not stop inside a handler.  That connections end is not assumed of the
specification; it is the hypothesis of `NoRequestStalls`.

`Dote!FairSpec` says that the thread goes on with what it is doing and leaves a
`poll()` that has a reason to return (weak fairness of `Running`), and that time
passes (strong fairness of `Wait`, since the process may be in `poll()` only now
and then).  Nothing is assumed about the network, or about when `poll()` returns
otherwise: a forwarder may stay silent for ever.  `FinishedUnderTraffic` has
the hypothesis that `poll()` returns again and again; the run `dote_silent`
shows that it cannot be left out.

### Where code and documentation disagree

1. `dote_silent`.  `README.md:189`: "By default, forwarders have 5 seconds to
   reply before the request is dropped."  `Loop::timeout()` (`loop.cpp:190`)
   takes the smaller of the two maps' earliest deadlines, and 0 means "none" in
   each.  While no connection waits to write, the result is 0 and `poll()` waits
   without a timeout, so that a silent forwarder's deadline passes unnoticed
   until another descriptor wakes the loop.
2. `lifecycle_exit`.  `main.cpp:35`: "Stop listening, which will cause us to
   exit when no more requests are in progress".  A signal during `poll()` makes
   it fail with `EINTR`, and `Loop::run()` (`loop.cpp:15`) takes that for the
   end: the requests in progress and in the queue are lost.  Outside of `poll()`
   the handler does what the comment says, which is what `DrainsFirst` and
   `TakesNoMore` show.
3. `config_pins`.  `README.md:104`: "The certificate pin may optionally be
   configured [...] and similarly the hostname pin".  `loadForwarders()`
   (`vyatta.cpp:115`) passes `-p` and `-h` on where the value is empty, so a pin
   or host name that is set does not reach the forwarder.  Everything else about
   a router's configuration arrives, which `FollowsRouter` shows.
4. `upstream_session`.  `config_parser.h:124`: "Disable certificate verification
   for the current forwarder".  The one session of the `Context` is offered to
   every new connection (`ssl_connection.cpp:53`), and a resumed handshake asks
   no verifier (`ssl_connection.cpp:146` keeps any session).  A server that is
   in one entry with `-i` and in another without, in one list or after a reload,
   takes up the session of the first for the second, which opens with a
   certificate that was never accepted.  What does hold is
   `VerifiedUnlessWaived`: it takes such a handshake with the same server.
5. `upstream_rules`.  `spki_verifier.h:26`: "2 if pin and hostname pass, 1 if
   hostname only, 0 if not valid" (and `context.cpp:151`).
   `SpkiVerifier::verify()` gives 2 for a pin that matches, also where the host
   name does not, and 1 where both match.  So a certificate with the pin and
   another name is accepted (the counterexample of the run); and one with the
   pin and the right name is refused for an untraceable chain, which the pin
   alone would make up for.  `AcceptedAsDocumented` asks for both where both are
   set; `AcceptedByRules` leaves open what the code and these comments do not
   agree on, and fixes the rest: what is right in every respect is accepted, and
   a wrong pin, a bad chain that no pin makes up for and, without a pin, the host
   of another domain are refused.

Met while modelling, and in the model as the code has it, without a run:

* `forwarder_connection.h:103`: "An exception occurred on the socket".  In
  `Loop::run()` the write and error events of a descriptor are handled after
  its read callback (`loop.cpp:27`).  If that one ends the connection, the next
  request's connection has the descriptor by then, and its write callback or its
  exception is called for what `poll()` reported of the old socket.
  `ReadsReachTheirSocket` is about reading only.
* `loop.h:99`: "Populate a poll vector with handles in m_readFunctions,
  m_writeFunctions and m_exceptFunctions".  It is populated before `timeout()`
  (`loop.cpp:32`), which may close and open connections; the next `poll()` waits
  without the events of the new one.  `PollSetExact` is about the moment at which
  the set is built.
* `dns_packet.h:18`: "Remove the EDNS padding from this packet".  The options that
  were kept are moved to the front, and then the rest of the packet over them
  (`dns_packet.cpp:168`): lengths and the other records are right, the kept
  options are not.  `PaddingRemoved` claims nothing of their bytes.
* `hostname_verifier.cpp:45`: "The hostname matches if it completely matches".
  After a difference in the very first characters both positions are 0, as they
  are after a match (`hostname_verifier.cpp:97`); and `lower()`, "A" and "Z" being
  excluded, does not compare these two without regard to case.
  `AcceptedAsDocumented` asks for a complete match, but its run stops at pin and
  host name first; `AcceptedByRules` leaves the first label of a name and names
  with these capitals open.
* `config_parser.h:104-114` lists the forms of a server, with nothing but a colon
  and a port behind the `]`.  `parseServer()` (`config_parser.cpp:82`) looks for
  the colon only: `[::1]853` and `[::1]x` are accepted and get the default port.
  `ParsedAsWritten` says that a command line that is not well-formed is refused
  unless it has such text (`EndsWithBracket`).
* The cache knows a leaf and no forwarder, as `verify_cache.h:30` has it ("1 if
  the certificate is in the cache"), while pins and host names are documented
  for each forwarder: while it holds, the leaf is accepted for an entry with
  another pin or host name too (`verify_cache.cpp:39`).  `CacheIsFresh` is about
  its age, and the properties of the rules about certificates that are not
  cached.
* `pid_file.cpp:49`: the destructor unlocks the file and then unlinks its name.
  A process that starts in between is left with a file without a name, which
  `FileNamesServer` excludes (`orphaned`).
* `README.md:181`: a look-up "will connect and return".  The end of the handshake
  resets only the exception registration (`ip_lookup.cpp:65`), so a look-up that
  had to wait keeps another registration in its loop.


## 4. Proofs

`ClientForwarders_proof`, for every set of requests and every limit of at
least 1:

* `TypeCorrect`, `AlwaysWorkConserving`, `AlwaysWithinLimit`, `AlwaysOnePlace`:
  the invariants that run `clients` checks.  None of the last three is
  inductive alone.  `sendRequest()` looks at no limit, so `WithinLimit` needs to
  know that a slot is free whenever a call is due, and `WorkConserving` needs to
  know that then just one is free if somebody waits.  That is `SlotAccounting`;
  the inductive invariant is `IInv == TypeOK /\ SlotAccounting /\ OnePlace`
  (theorem `Invariant`).
* `ImplementsService`: every step is a step of `RequestService` or changes
  nothing there.  A request that `sendRequest()` has in hand counts as the first
  of the waiting line (`WaitingLine`), so that taking it off the queue is a
  stutter, and `SlotAccounting` gives the free slot that `Start` and `Drop`
  require.

`ForwarderList_proof`: what `Rotate` puts where (`RotateAt`), that `setBad()`
rotates at an entry with the address or does nothing (`DemoteRotates`; for that
the loop must find the first match if there is any, `LeastMember`).

`ForwarderConfig_proof`, for every set of lists:

* `FailOver`: `GoodBeforeBad` is an invariant, provided that the addresses in
  each configuration are distinct (`DistinctRemotes`).  The hypothesis is
  needed: with the same address configured twice, `setBad()` moves the first of
  the two whichever failed, and its twin stays in front.  The argument: `Rotate`
  moves the entry to the end and keeps the order of the others (`RotateAt`), the
  entry is the only one with its address (`DemoteUnique`), so every other entry
  is as bad as before and the moved one is bad now.
* `TypeCorrect` (`ConfigTypeOK`) and `OrderKept` (`GoodOrderKept`) need no such
  hypothesis: whichever of the two is moved, the order of those that were not
  reported stays (`RotateKeepsOrder`).

`ForwarderConnection_proof`, for any number of connections and descriptors and
every timeout:

* The inductive invariant `ConnInv` (theorem `ConnInvariant`) says for each
  connection which callbacks it has in which map in each state, with which
  deadline, and which of its `Registration` objects are valid (`Fits`), and that
  nothing has been delivered before the connection is told to shut down
  (`DeliveryOK`).  As each that is alive has an exception callback of its own, no
  two have a descriptor in common (`LiveReady`).
  The properties that run `connection` checks are not inductive alone:
  `RegistrationsAgree` needs to know that the descriptor of a new socket has
  nothing left in the maps, since `registerRead()` and `registerWrite()` would
  fail silently otherwise, and that follows from what each state has registered
  when it closes.
* `AlwaysRegistrationsAgree`, `NeverUnwatched` (`AlwaysWatched`),
  `CallbacksFitStates` (`CallbackFitsState`), `NeverForgotten`
  (`UnsentIsScheduled`), `DeliversOnce` (`AtMostOneDelivery`) and
  `ConnTypeCorrect` follow from it, and so does the action property `NeverBack`
  (`OnlyForward`).
* `ImplementsConfig`: every step is one of `ForwarderConfig` on the list, or
  does not concern it; `chosen` is what the connections have.

`Dote_proof`, for any number of requests, slots and descriptors.  Of descriptors
it is assumed that there are finitely many (`LoopAssumption`), which lets the
poll set be a sequence.

* The inductive invariant is `ProxyInv == ConnInv /\ SlotsOK /\ LoopOK /\ ScanOK`
  (theorem `ProxyInvariant`).  `SlotsOK`: a request has a slot while its
  connection is alive.  `LoopOK`: the poll set has each descriptor once, and a
  descriptor that poll() reported as readable and whose turn has not come is
  still held by who held it then (`StillHeld`).  That is what makes
  `NoStaleReads` (`ReadsReachTheirSocket`) true: a callback closes no descriptor
  but the one in hand, so what a new connection gets has been dealt with.  It is
  not so for the events of the descriptor in hand that come after its read
  callback, which is said above.  `ScanOK`: what the scans of
  `timeout()` have behind them is not overdue.  A connection that was made
  during the scan has all of its time left, so it does not matter whether the
  scan sees it; with that `NothingLate` (`NothingOverdueAtPoll`) holds.
* `ImplementsConnections`: every step of the proxy is one of
  `ForwarderConnection`, or does not concern it.  So everything proved of the
  connections alone holds in the proxy, and with `ImplementsConfig` also
  `ProxyImplementsConfig` and, with `DistinctRemotes`, `ProxyFailsOver`
  (`FailsOver`).
* `ImplementsDispatcher` (`DispatcherSpec`): the callbacks end and answer requests
  as the dispatcher's specification lets them.  With the theorems of
  `ClientForwarders_proof` this gives `ProxyServes`: the proxy implements
  `RequestService` and has the three invariants of the dispatcher.
* `PollSetAlwaysExact` (`PollSetExact`): patching the set, in which the events of
  an entry are cleared, set anew map by map, and entries without events erased,
  gives what the maps hold, whatever was in it (`FdsBuilt`); and as nothing is in
  it twice, it is just that (`ExactIsRegistered`).
* For `Lifecycle`: `SafeUnderSignals`, that all of this but the fail-over and the
  connections' own properties holds with the signal at any step, as run `dote`
  has it: taking the server sockets away keeps `ProxyInv` (`StopKeeps`), moves no
  request and does not move the loop.  `NoMoreTaken` (`TakesNoMore`), as nothing
  but a listening socket's callback takes requests, and the proxy registers none
  (`StoppedOK`); and `DrainedWhenDone` (`DrainsFirst`): an empty poll set means that no
  connection is registered, one that is alive always is, and without one
  nothing waits, the proxy being work-conserving (`DoneOK`).

`VyattaCheck_proof`, for every set of command lines and router configurations.
`Configs` is required to hold what a process that serves may load
(`LoadsAssumption`), whatever else is in it.

* `RouterIsFollowed` (`FollowsRouter`): the inductive invariant `WatchInv` says it
  from the first load on, before there is a watch (`Following`); a commit or a
  save that could make it wrong leaves a trace in `saved`, `event` or `missed`;
  reports lose and invent no entry (`DemoteEntries`).
* `StepsAreConfig`: what happens to the list are steps of `ForwarderConfig`, so
  that `WatchKeepsOrder` (`GoodOrderKept`) and, with `DistinctRemotes`,
  `WatchFailsOver` (`GoodBeforeBad`) follow from the lemmas there.  The initial
  state is not one of `ForwarderConfig` where main() goes no further, because the
  list is empty then.
* `WatchTypeCorrect` (`WatchTypeOK`).
* `AsWritten` (`ParsedAsWritten`), for command lines of any length.  It is
  assumed of them that they are sequences, and that an address is written with
  brackets, without, or with an opening one only, and has other text behind a
  closing one at most (`CommandLinesAssumption`).  `AddressTaken` says which of
  them `parseServer()` takes (`Taken`); where no text is behind a bracket they
  are the well-formed ones.  `parseConfig()` is a fold, which is the last value
  of a run of passes, one for each option (`FoldRuns`), and `Describes(k, c, p)`
  says what the parser `p` is after `k` options, the last `-f` being at `c`:
  valid just if these options are well-formed but for such text
  (`WellFormedUpto`), with the forwarder of that `-f` as far as it has been
  written (`Partial`) and the others complete (`Holding`).  Every option
  keeps it: one that is not `-f` says something of the last forwarder only
  (`PartialJoins`) or of none (`OtherOption`), and a `-f` finds the forwarder
  before it complete and puts it in its place (`Pushed`, `NextRank`).  It needs
  no assumption about the options after a `-f` that is refused, because a parser
  that is not valid stays so and so does the command line (`PassInvalid`).
  The library's induction theorems take an operator for a parameter, which the
  provers cannot instantiate; `Induction` states the principle with a set
  instead, and follows from the smallest member of its complement.

`Startup_proof`, for any number of processes, files and addresses, whatever
lists of addresses the processes are given:

* `ServesAllOrNothing` (`AllOrNothing`): in `listen()` the addresses tried so far
  are bound while `result` is true (`BoundSoFar`), and binding takes an address
  from nobody.
* `PidFileNamesServer` (`FileNamesServer`) and `OwnersRemove`
  (`OnlyOwnersRemove`).  The property speaks of a process that serves, but its
  file is exposed from `open()` on, so the invariant is about each stage: a lock
  is of a file that its owner has open (`LocksHeld`), which is why closing
  releases just that; a PID is written only under the lock (`PidKept`); a file
  that is open has the name unless somebody removed it (`NameKept`); and a stage
  from which the name is removed comes after the lock (`OwnersOnly`).
  `StagesFitPlaces` ties the stages to `main()`.

`Upstream_proof`, for every set of forwarders, certificates, problems and
connections, and every `CacheSeconds`:

* `CacheStaysFresh` (`CacheIsFresh`): while the cache is valid, its remaining time
  and the age of the last acceptance add up to `CacheSeconds` (`CacheIsLatest`);
  a hit changes neither.
* `VerifiedOrWaived` (`VerifiedUnlessWaived`): a session, and one that a
  connection still offers, was made with a certificate that had been accepted,
  or in a handshake with `disablePki` by the server it is good for
  (`SessionIsVerified`, `LinksAreVerified`), and a session that is taken up makes
  another of which the same is so.  The proof does not look into
  `ForwardVerify`: it holds whatever the rules are.
* `RulesDecide` (`AcceptedByRules`): whatever certificates there are, with names of
  any length.  What the verifiers decide is what `Rules` says (`HandshakeByRules`),
  which writes out the code's rules, the first character left open included; and
  `RulesBetween` has them between `Documented` and `Tolerable`.  The heart of the
  first is `CheckHostnameFinds`: the comparison from the end, which stops at the
  first difference, finds a name or a wildcard just when there is one in the
  sense of these rules.  The greatest number of labels that agree exists
  (`GreatestMember`, `MatchingCounts`), so nothing is proved by induction.  The
  second compares labels, names and wildcards as the code does with how they
  ought to be compared (`LabelsCompare`, `NamesCompare`, `WildcardsCompare`,
  `HostsCompare`).  The hypothesis `PlainHosts`, that no configured host name has
  a `*`, is needed: the comparison goes past a wildcard that agrees with a `*`
  of the host.
* `NothingPartial` (`NoPartialReply`): a response whose length fits in the two
  bytes in front of it (`MessagesAssumption`) is valid only when all of it has
  arrived (`PartIsInvalid`, for a part of any size).
* `PaddingGone` (`PaddingRemoved`): for responses with any number of records, names
  and options, of which `RecordsAssumption` says what they are made of and that
  there is one OPT record or none.  The loops over the packet are runs
  (`FoldRuns`), of which each pass is followed: `NameSkipped`, `RecordSkipped` and
  `SectionSkipped` show that the walk gets from record to record, so that `Found`
  has the OPT record just where it was written.  `Removal` keeps, pass by pass,
  what `removePaddingOption()` has dealt with, how long the options are that were
  kept, and that the options not yet looked at are behind these (`Removes`); the
  option that moves up may overlap its old place.  `Shrinks` then says of every
  byte where it comes from, and `Replaced` compares them with the response without
  padding, which differs from the first in one record (`BareMessage`,
  `BodyAround`).  Nothing is said of the kept options, as in the property.

Only model-checked: the liveness properties (`NoRequestStalls`,
`FinishedUnderTraffic`), because the prover does not handle fairness.  All other
properties of the passing runs are theorems.  The five disagreements above are
counterexamples that the model checker found.


## 5. Not modelled

* `IpLookup`: a mode that ends before anything else is set up.  Its loop is that
  of `Dote` with nothing else in it, its handshake that of
  `ForwarderConnection`; only its end is its own, and is described above.
* Logging, `usage()`, `umask()` and the closing of descriptors in `daemonise()`:
  output, or one call without consequences for the rest.
* The conversions of `openssl/certificate_utilities.cpp` and
  `openssl/base64.cpp`: hashes, pins and names are values.
* The options of sockets and the ancillary data with the destination address in
  `server.cpp` and `client_forwarders.cpp`: data that no decision looks at.
* The translation of OpenSSL's error codes in `openssl/ssl_connection.cpp`: the
  result of each call is a free choice of those that the callers distinguish.
* DNS packets that contradict themselves, for which parts of `dns_packet.cpp`
  have no defined result, and names that are not a sequence of labels.
* Steps of the signal handler inside one of the loop's: `Lifecycle` puts it
  between two of them.


## 6. Plan

Written, in order of importance: the dispatcher and its abstract service, the
forwarder list, the connections, the loop, shutdown; then the parsers with the
router and the watch, the PID file with start-up, verification with host names,
cache and session, DNS packets.  Proved: the safety properties of all of them.
What could come next:

1. The part of `FailsOver` that holds with an address configured twice.
2. `AllOrNothing` and `FileNamesServer` as refinements of an abstract
   specification of one server per set of addresses.
