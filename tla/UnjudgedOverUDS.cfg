SPECIFICATION ServicesSpec
CONSTANTS
    Contracts <- MCContracts
    Ids <- MCIds
    Id <- MCId
    Stale = {"stale"}
    Untrusted = {"untrusted"}
    Weak = {"weak"}
    Scripts <- MCScripts
    Transports <- UDSOnly
    MaxFaults = 1
CHECK_DEADLOCK FALSE
INVARIANT ExecutedOnOwnVerdict
