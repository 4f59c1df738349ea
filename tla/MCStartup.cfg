\* Three processes with one PID file; two listen on two addresses, the third
\* on another.
CONSTANTS
    p1 = p1
    p2 = p2
    p3 = p3
    address1 = address1
    address2 = address2
    address3 = address3
    Processes = {p1, p2, p3}
    Files = {1, 2, 3}
    NoFile = 0
    Nobody = Nobody
    Addresses = {address1, address2, address3}
    Servers <- MCServers
    WithPidFile = {p1, p2, p3}
SPECIFICATION Spec
INVARIANTS StartTypeOK AllOrNothing FileNamesServer
PROPERTY OnlyOwnersRemove
CHECK_DEADLOCK FALSE
