CONSTANTS
    UART_FIFO_DEPTH = 1
    Keys = {KEY_A}
    KEY_ESC = KEY_ESC
    KEY_EXIT = KEY_EXIT
    MaxTyped = 2
    MaxSent = 1
    Thresholds = {0, 2}
    MaxConfigs = 0
SPECIFICATION Spec
CHECK_DEADLOCK FALSE
PROPERTY DestructorEnds
