\* One worker under every change, and two under each kind of change.
SPECIFICATION MCSpec
CONSTANTS
    a1 = a1
    a2 = a2
    vpn = vpn
    w1 = w1
    w2 = w2
    NoExit = NoExit
    Workers = {w1, w2}
    Core = {a1, a2}
    Offered = {vpn}
    TierOf <- MCTierOf
    Confs <- Reloads
    ExtSets <- Comes
    BadAfter = 2
    CoolDown = 1
    LimitedCoolDown = 1
INVARIANTS
    TypeOK
    DownIsEarned
PROPERTIES
    NeverStranded
    FailoverPromiseKept
    DemotionJustified
    ReturnsToDirect
