SPECIFICATION SocketSpec
CONSTANTS
    SocketTypes = {"tcp"}
    FailureThreshold = 2
    Puts = 4
    Connections = 2
    Cuts = 1
    Refusals = 3
CHECK_DEADLOCK FALSE
PROPERTY ClosesAfterRecovery
