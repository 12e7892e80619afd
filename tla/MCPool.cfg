\* Two requests, one rebuild, health that changes at will.
SPECIFICATION Spec
CONSTANTS
    a = a
    b = b
    q1 = q1
    q2 = q2
    NoMember = NoMember
    Members = {a, b}
    Requests = {q1, q2}
    Capable <- MCCapable
    Rank <- MCRank
    Weight <- MCWeight
    Shapes <- MCShapes
    MaxRebuilds = 1
INVARIANTS
    TypeOK
    CountsOnce
PROPERTIES
    EveryHealthyMemberTried
    NoStaleChoice
    EveryRequestEnds
