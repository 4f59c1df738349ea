\* Two requests over one slot, with a watched configuration that alternates
\* between two lists of forwarders.
CONSTANTS
    f1 = f1
    f2 = f2
    f3 = f3
    Forwarders = {f1, f2, f3}
    Remote <- MCRemote
    Configs <- MCReloads
    Requests = {r1, r2}
    NoRequest = NoRequest
    NoForwarder = NoForwarder
    Handles = {1, 2, 3}
    Listening = {1, 2}
    ConfigWatch = 2
    Timeout = 1
    MaxConnections = 1
SPECIFICATION FairSpec
INVARIANT FailsOver
PROPERTY FinishedUnderTraffic
