SPECIFICATION PipelineSpec
CONSTANTS
    Contracts <- MCContracts
    Refused = {"refused"}
    Weak = {"weak"}
    Scripts <- MCScripts
    CrashStages <- MCCrashStages
    MaxFaults = 1
CHECK_DEADLOCK FALSE
INVARIANT OkHasProof
PROPERTIES PipelineEnds PipelineKeepsLifecycle
