\* Two callers, two exits, every kind of request.
SPECIFICATION Spec
CONSTANTS
    a = a
    b = b
    Requests = {a, b}
    ExitCount = 2
    MaxRetries = 1
    FailureThreshold = 1
    SuccessThreshold = 1
    Kinds <- AllKinds
INVARIANTS
    TypeOK
    LoopBudgetLeft
    ProbeSendsOnce
    RateLimitSurfaces
PROPERTIES
    ImplementsBreaker
    EveryRequestEnds
