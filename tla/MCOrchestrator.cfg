SPECIFICATION OrchestratorSpec
CONSTANTS
    Contracts <- MCContracts
    Ids <- MCContracts
    Id <- MCId
    Stale = {"stale"}
    Untrusted = {}
    Weak = {}
    Scripts <- MCScripts
    Transports = {"tcp", "http"}
    MaxFaults = 0
    CrashStages <- MCCrashStages
CHECK_DEADLOCK FALSE
INVARIANTS OrchestratorTypeOK OkIsEarned
PROPERTY RunEnds
