SPECIFICATION MCSpec
CONSTANTS
    NHarts = 1
    Requests <- MCRequests
    MemSize = 2
    GuestEnd = 2
    MaxRequests = 3
    MaxFaults = 1
    MaxSessions = 2
CHECK_DEADLOCK FALSE
INVARIANTS ExchangeSound RunControlSound PacketsMean
PROPERTIES RequestsAnswered
