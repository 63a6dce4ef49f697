CONSTANTS
    Names = {"x", "y"}
    Values = {0, 1, 2}
    None = None
    NoBv = NoBv
    Programs <- AllPrograms
    Timed <- TimedPrograms
    ErrExit = FALSE
SPECIFICATION RSpec
CHECK_DEADLOCK FALSE
INVARIANTS RunFollowsGoal PathsUnique ExplorationComplete TestcasesExact
PROPERTIES ImplementsPathCoverage
