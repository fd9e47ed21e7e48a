SPECIFICATION PolicySpec
CONSTANTS
    Policies = {p1, p2}
    Rules = {r1, r2}
    Streams = {s1, s2}
    NoStream = NoStream
    NoPolicy = NoPolicy
    TypedLabels = 1
INVARIANT PushedPolicyIsCurrent
