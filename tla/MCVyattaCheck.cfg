\* Command lines of up to four options besides `-l', which only parse; and
\* two that run, with a router that changes between four configurations.
CONSTANTS
    V4 = {"a", "c", "d", "e", "1.1.1.1"}
    V6 = {"b"}
    Pins = {"pin"}
    CommandLines <- MCCommandLines
    Routers <- MCRouters
    Forwarders <- MCForwarders
    Remote <- MCRemote
    Configs <- MCConfigs
SPECIFICATION WatchSpec
INVARIANTS WatchTypeOK ParsedAsWritten GoodBeforeBad FollowsRouter
PROPERTY GoodOrderKept
CHECK_DEADLOCK FALSE
