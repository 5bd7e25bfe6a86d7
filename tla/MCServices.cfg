SPECIFICATION ServicesSpec
CONSTANTS
    Contracts <- MCContracts
    Ids <- MCIds
    Id <- MCId
    Stale = {"stale"}
    Untrusted = {"untrusted"}
    Weak = {"weak"}
    Scripts <- MCScripts
    Transports <- PortTransports
    MaxFaults = 2
CHECK_DEADLOCK FALSE
INVARIANTS ExecutedOnOwnVerdict OutcomesFollowLedger
PROPERTIES Served LoopsEnd ServicesKeepLifecycle
