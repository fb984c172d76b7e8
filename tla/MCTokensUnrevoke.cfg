\* A consume overlaps a revocation.
SPECIFICATION Spec
CONSTANTS
    t1 = t1
    t2 = t2
    a1 = a1
    a2 = a2
    r1 = r1
    r2 = r2
    r3 = r3
    NoRow = NoRow
    None = None
    Backends = {"redb"}
    TokenIds = {t1}
    Apps = {a1}
    Requests = {r1, r2}
    MaxUsesArgs <- UpToTwo
    ExpiryArgs <- ExpireAtOnce
    MaxClock = 1
    MaxInFlight = 2
SYMMETRY RequestSymmetry
INVARIANTS RevokedStaysRevoked
