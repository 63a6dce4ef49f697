CONSTANTS
    Byte = 2
    Names <- MCNames
    NumRegs = 4
    MemSize = 8
    StartPc = 8
    Programs <- MCPrograms
    Started <- MCStarted
SPECIFICATION Spec
CHECK_DEADLOCK FALSE
INVARIANTS ConcreteIsRISCV SymbolicMeansInput Z3Agrees QueriesExact
