SPECIFICATION MCSpec
CONSTANTS
    Cores = {0}
    scaler = 2
    Base = 3
    Quantum = 1
    MaxTime = 5
    Never = Never
    END = END
    ESC = ESC
    ESC_END = ESC_END
    ESC_ESC = ESC_ESC
    A = A
    KEY_ESC = KEY_ESC
    KEY_EXIT = KEY_EXIT
CHECK_DEADLOCK FALSE
INVARIANTS TimerOnTime ClaimedOnce PacketsIntact FramesIntact FifosSound WatermarkSignalled
PROPERTIES NoSpuriousTimer
