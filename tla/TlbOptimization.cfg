SPECIFICATION Spec
CONSTANTS
    Fanout = 2
    TLB_ENTRIES = 2
    Ports <- MCPorts
    Tables <- MCTables
    Root = 0
    NewEntries <- MCNewEntries
    Debugger = FALSE
    MaxAccesses = 2
    MaxChanges = 1
INVARIANTS TlbIsOptimization
CHECK_DEADLOCK FALSE
