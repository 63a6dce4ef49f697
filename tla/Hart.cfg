CONSTANTS
    Lines = {7, 8}
    Reasons = {2}
    Code = {code}
    Writable = {"status", "ie", "tvec", "ideleg", "edeleg"}
    Delegable = {2}
    MppWritten = {1, 2}
    MaxCsrWrites = 3
    None = None
SPECIFICATION Spec
CHECK_DEADLOCK FALSE
INVARIANTS MachineFrameIntact WaitingIsNotified
PROPERTIES MretResumes
