\* Three overlapping requests on one token, over either backend.
SPECIFICATION Spec
CONSTANTS
    t1 = t1
    t2 = t2
    a1 = a1
    a2 = a2
    r1 = r1
    r2 = r2
    r3 = r3
    NoRow = NoRow
    None = None
    Backends = {"redb", "postgres"}
    TokenIds = {t1}
    Apps = {a1, a2}
    Requests = {r1, r2, r3}
    MaxUsesArgs <- UpToTwo
    ExpiryArgs <- ExpireAtOnce
    MaxClock = 1
    MaxInFlight = 3
SYMMETRY RequestSymmetry
INVARIANTS TypeOK UsesWithinMax UsesAccountedFor GrantsJustified NoOrphanTokens
PROPERTIES RevocationHolds DeletionHolds RefinesLedger
