\* The WaitGroup of Write and Close panics when a Write that saw the logger
\* open registers while Close is being woken.
SPECIFICATION LoggerSafeSpec
CONSTANTS
    e1 = e1
    e2 = e2
    e3 = e3
    Entries = {e1, e2, e3}
    BufferSize = 2
    Threshold = 2
CHECK_DEADLOCK FALSE
INVARIANTS
    NeverPanics
