\* A malformed request takes the probe token and never gives it back.
SPECIFICATION Spec
CONSTANTS
    a = a
    b = b
    c = c
    Requests = {a, b, c}
    Malformed = {c}
    FailureThreshold = 2
    SuccessThreshold = 2
PROPERTIES
    StopsOnlyUntilRecovery
