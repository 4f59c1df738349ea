\* Two requests over one slot.  The process may end.
CONSTANTS
    f1 = f1
    f2 = f2
    Forwarders = {f1, f2}
    Remote <- MCRemote
    Configs <- MCConfigs
    Requests = {r1, r2}
    NoRequest = NoRequest
    NoForwarder = NoForwarder
    Handles = {1, 2, 3}
    Listening = {1}
    ConfigWatch = 0
    Timeout = 1
    MaxConnections = 1
    Signals = {SIGINT, SIGTERM}
SPECIFICATION LifeSpec
INVARIANT ExitsWhenDone
CHECK_DEADLOCK FALSE
