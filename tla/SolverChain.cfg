CONSTANTS
    Byte = 2
    Word = 10
    SizeOf <- MCSizeOf
    Arrays <- MCArrays
    Paths <- MCPaths
    Conditions <- MCConditions
    Values <- MCValues
    MaxCalls = 2
SPECIFICATION Spec
CHECK_DEADLOCK FALSE
INVARIANTS AbortsOnlyOnSettled CachesSound
