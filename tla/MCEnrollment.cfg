\* Three requests, two at a time, while the administrator makes two changes.
SPECIFICATION Spec
CONSTANTS
    q1 = q1
    q2 = q2
    q3 = q3
    admins = admins
    NoRow = NoRow
    Backends = {"redb"}
    Requests = {q1, q2, q3}
    Policies = {"Open", "Controlled", "Strict"}
    RuleIds = {1, 2}
    Priorities = {1, 2}
    Claims = {admins}
    Limit = 1
    Window = 0
    Faults = TRUE
    MaxClock = 1
    MaxChanges = 2
    MaxInFlight = 2
SYMMETRY RequestSymmetry
INVARIANTS TypeOK RateOvershootBounded PolicyEnforced TierJustified
