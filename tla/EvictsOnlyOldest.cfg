CONSTANTS
    Threads = {t1}
    Msgs <- MCProducedMsgs
    Ages <- MCAges
    TTL = 1
    MaxGap = 2
    Ops = {"submit", "reset"}
    Faults = {}
    None = None
    Absent = Absent
    Torn = Torn
    Requests <- MCProduced
    OkThreshold = 14
    DegradedThreshold = 8
    Strip <- MCStrip
    Bits <- MCBits
    Sendable = {"PING", "SHUTDOWN"}
    Modes = {"entangled", "direct", "superdense"}
    Capacity = 2
    Burst = 4
    MaxRefills = 0
    MaxResets = 0
SPECIFICATION GatewaysSpec
PROPERTIES EvictsOnlyOldest
