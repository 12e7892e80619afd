\* A streamed body behind two exits.
SPECIFICATION SafeSpec
CONSTANTS
    a = a
    b = b
    Requests = {a, b}
    ExitCount = 2
    MaxRetries = 1
    FailureThreshold = 2
    SuccessThreshold = 2
    Kinds <- BodyKinds
INVARIANT NotReplayed
