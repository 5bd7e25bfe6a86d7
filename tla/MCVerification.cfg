SPECIFICATION VerificationSpec
CONSTANTS
    Producers = {"p1", "p2"}
    Keys = {"k1", "k2"}
    Types = {"Q"}
    Contracts <- MCContracts
    Vetters = {"service"}
    Verifiers = {"caller"}
    MaxAdmin = 2
    MaxFaults = 2
    Nodes = {"n1", "n2", "n3", "n4", "n5"}
    NodeOrder <- MCOrder
    ThresholdNum = 66
    ThresholdDen = 100
    Rounds = 2
    SimulatedNodes <- MCSimulated
    Policies <- MCPolicies
    Submitted <- MCSubmitted
    BatchLength = 2
    ConfigTypes = {"Q", "C"}
    ConfigMinimum = 2
    Corruption = 4
    Confident = 7
    MaxViolations = 2
    Clears = 1
    Requests <- MCRequests
    MaxFlows = 4
CHECK_DEADLOCK FALSE
INVARIANTS VerificationTypeOK RevokedNotRegistered PassedUnrevoked NeverOnFaulty QuorumDecides
           DissentersNamed HaltsAreNoted AgreementIsOnEveryResult CompletedIsEarned
PROPERTY RevocationSurvives
