CONSTANTS
    Threads = {t1, t2}
    Msgs <- MCMsgs
    Ages <- MCAges
    TTL = 1
    MaxGap = 2
    Ops = {"submit", "reset"}
    Faults = {"io"}
    None = None
    Absent = Absent
    Torn = Torn
    Requests <- MCRequests
    OkThreshold = 14
    DegradedThreshold = 8
    Strip <- MCStrip
    Bits <- MCBits
    Sendable = {"PING", "SHUTDOWN"}
    Modes = {"entangled", "direct", "superdense"}
    Capacity = 1
    Burst = 1
    MaxRefills = 1
    MaxResets = 1
SPECIFICATION GatewaysFairSpec
INVARIANTS GatewaysTypeOK AckedOncePerMemory
PROPERTIES EveryRequestAnswered
