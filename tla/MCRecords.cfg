SPECIFICATION RecordsSpec
CONSTANTS
    Callers = {"c1", "c2"}
    Artifacts = {"a1", "a2", "a3"}
    ArtifactTTL = 1
    EvictionThreshold = 3
    LastTick = 3
    Submissions = 4
    Recorders = {"w1", "w2"}
    Readers = {"r1"}
    Traces = {"x", "y"}
    TraceTypes = {"adapter", "execution"}
    MaxTraceEntries = 2
    Recordings = 3
    SocketTypes = {"tcp", "uds", "http", "grpc", "zeromq"}
    FailureThreshold = 2
    Puts = 4
    Connections = 2
    Cuts = 1
    Refusals = 3
    Capabilities <- MCCapabilities
    Clients = {"s1", "s2"}
    MaxRequests = 4
    Events = {"e", "f"}
    MaxEntries = 6
    Interferences = 1
    ExecutionIds = {"x", "y"}
    MaxRecords = 3
    Alterations = 1
    Payloads = {"p", "q"}
    Route <- MCRoute
    Rekeys = 1
    Changes = 1
CHECK_DEADLOCK FALSE
INVARIANTS RecordsTypeOK AcceptedOnceUnlessDropped NumberedByRecording ReconstructsRecordedPath
           HeardAsWritten DiscoversTheLatest TreeTellsTheTrail CertifiedAsAppended AlterationsShow
           CustodyWasHandedOn VerifiedIsAsSigned
