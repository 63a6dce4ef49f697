CONSTANTS
    END = END
    ESC = ESC
    ESC_END = ESC_END
    ESC_ESC = ESC_ESC
    Bytes = {ESC, ESC_END}
    STEP = 2
    MaxSize = 5
    MaxPackets = 2
SPECIFICATION Spec
CHECK_DEADLOCK FALSE
INVARIANT RoundTrip
