\* One request and a forwarder that stays silent.
CONSTANTS
    f1 = f1
    f2 = f2
    f3 = f3
    Forwarders = {f1, f2}
    Remote <- MCRemote
    Configs <- MCConfigs
    Requests = {r1}
    NoRequest = NoRequest
    NoForwarder = NoForwarder
    Handles = {1, 2}
    Listening = {1}
    ConfigWatch = 0
    Timeout = 1
    MaxConnections = 1
SPECIFICATION FairSpec
PROPERTY DroppedInTime
