SPECIFICATION MCSpec
CONSTANTS
    Irqs = {1, 2}
    MaxPriority = 2
    Written = {0, 1, 3}
    MaxTriggers = 3
    MaxWrites = 4
    GuestPolls = FALSE
    KEY_ESC = KEY_ESC
    KEY_EXIT = KEY_EXIT
CHECK_DEADLOCK FALSE
INVARIANTS NoInterruptLost TimerExact InputsFollow
PROPERTIES DeliverableIsServed BytesAreWritten QuitEnds
