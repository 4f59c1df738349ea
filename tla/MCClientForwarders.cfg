\* Four requests over two slots: two wait behind a full house, and more
\* requests in a row may be refused than there are slots.  The set of requests
\* is finite, so the system ends when all are finished.
CONSTANTS
    Requests = {r1, r2, r3, r4}
    MaxConnections = 2
SPECIFICATION FairSpec
INVARIANTS TypeOK WorkConserving WithinLimit OnePlace
PROPERTIES ServiceSpec NoRequestStalls
CHECK_DEADLOCK FALSE
