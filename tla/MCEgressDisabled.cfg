\* A provider without source addresses, its extension exit turned off.
SPECIFICATION MCSpec
CONSTANTS
    a1 = a1
    a2 = a2
    vpn = vpn
    w1 = w1
    w2 = w2
    NoExit = NoExit
    Workers = {w1}
    Core = {a1, a2}
    Offered = {vpn}
    TierOf <- MCTierOf
    Confs <- ExtOnlyOff
    ExtSets <- Always
    BadAfter = 2
    CoolDown = 1
    LimitedCoolDown = 1
PROPERTIES
    DisabledNeverSelected
