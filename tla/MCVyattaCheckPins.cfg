\* A router whose forwarders have pins and host names.
CONSTANTS
    V4 = {"a", "c", "d", "e", "1.1.1.1"}
    V6 = {"b"}
    Pins = {"pin"}
    CommandLines <- MCCommandLines
    Routers <- MCRouters
    Forwarders <- MCForwarders
    Remote <- MCRemote
    Configs <- MCConfigs
SPECIFICATION WatchSpec
INVARIANT RouterPinsApply
CHECK_DEADLOCK FALSE
