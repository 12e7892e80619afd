\* A rate limit, then a server error.
SPECIFICATION SafeSpec
CONSTANTS
    a = a
    b = b
    Requests = {a, b}
    ExitCount = 2
    MaxRetries = 1
    FailureThreshold = 2
    SuccessThreshold = 2
    Kinds <- ChatKinds
INVARIANT RateLimitAnswered
