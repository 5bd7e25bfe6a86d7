SPECIFICATION PipelineSpec
CONSTANTS
    Contracts <- MCContracts
    Refused = {"refused"}
    Weak = {"weak"}
    Scripts <- ProducerScript
    CrashStages <- NoCrash
    MaxFaults = 0
CHECK_DEADLOCK FALSE
INVARIANT NormalRunIsOk
