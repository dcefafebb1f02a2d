\* A cluster of two addresses, watched over two sessions; three requests on
\* its pooled client.
CONSTANTS
    None = None  NotYet = NotYet
    Addresses <- TwoAddresses
    PING_FANOUT_DELAY = 1
    TCP_PING_TIMEOUT = 3
    UNREACHABLE_POLLS_BEFORE_DISCONNECT = 2
    MaxSessions = 2
    MaxChanges = 2
    r1 = r1  r2 = r2  r3 = r3
    Requests <- ThreeRequests
    Settings <- SomeSettings
    Sizes <- SomeSizes
    CallCodes <- SomeCodes
    DRAIN_POLLS = 2
    MaxEvents = 2
    CLIENT_ID = "salty"
    Kilobyte = 4
    PREFETCH_FLOOR = 8
    NativeBundle = "bundle"
SPECIFICATION Spec
INVARIANTS
    WatchInvariant
    ClientInvariant
    ReasonsAreReadByTheirOwner
PROPERTIES
    
    
    
    NobodyWaitsForAWalk
CHECK_DEADLOCK FALSE
