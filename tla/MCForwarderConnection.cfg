\* Three connections over two free descriptors: descriptors run out and are
\* used again.  The configuration changes between two lists of forwarders that
\* overlap, while connections are open.
CONSTANTS
    f1 = f1
    f2 = f2
    f3 = f3
    Forwarders = {f1, f2, f3}
    Remote <- MCRemote
    Configs <- MCConfigs
    Requests = {r1, r2, r3}
    NoRequest = NoRequest
    NoForwarder = NoForwarder
    Handles = {1, 2, 3}
    Listening = {1}
    Timeout = 1
SPECIFICATION ConnSpec
INVARIANTS ConnTypeOK RegistrationsAgree AlwaysWatched CallbackFitsState
    UnsentIsScheduled AtMostOneDelivery FailsOver
PROPERTIES OnlyForward ConfigSpec
