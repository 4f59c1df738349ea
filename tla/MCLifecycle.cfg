\* Three requests over two slots and two free descriptors: a third request
\* waits, and starts on a descriptor that has just been closed.  One signal,
\* no configuration watch.  The process may end.
CONSTANTS
    f1 = f1
    f2 = f2
    Forwarders = {f1, f2}
    Remote <- MCRemote
    Configs <- MCConfigs
    Requests = {r1, r2, r3}
    NoRequest = NoRequest
    NoForwarder = NoForwarder
    Handles = {1, 2, 3}
    Listening = {1}
    ConfigWatch = 0
    Timeout = 1
    MaxConnections = 2
    Signals = {SIGTERM}
SYMMETRY Symmetry
SPECIFICATION LifeSpec
INVARIANTS TypeOK SlotsAreConnections ReadsReachTheirSocket DrainsFirst
PROPERTIES DispatcherSpec NothingOverdueAtPoll PollSetExact TakesNoMore
CHECK_DEADLOCK FALSE
