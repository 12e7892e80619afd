\* A late success gives the probe token back while a probe is out.
SPECIFICATION SafeSpec
CONSTANTS
    a = a
    b = b
    c = c
    Requests = {a, b, c}
    Malformed = {c}
    FailureThreshold = 2
    SuccessThreshold = 2
INVARIANTS
    OneProbeAtATime
