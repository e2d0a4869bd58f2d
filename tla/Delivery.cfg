\* Two clean chunks and one Elasticsearch rejects, two connections, faults anywhere.
SPECIFICATION FairSpec
CONSTANTS
    c1 = c1
    c2 = c2
    c3 = c3
    t1 = t1
    t2 = t2
    Chunks = {c1, c2, c3}
    Conns = {t1, t2}
    NoConn = NoConn
    Frame <- MCFrame
    Rejected <- MCRejected
    MaxAttempts = 2
    MaxFaults = 2
INVARIANTS
    DeliveryInv
    MappedBeforeFirstWrite
    DuplicatesNeedAFault
PROPERTIES
    AtLeastOnceSpec
    CleanChunksDelivered
