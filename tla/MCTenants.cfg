\* Three requests, two at a time, over either backend; calls may fail.
SPECIFICATION Spec
CONSTANTS
    o1 = o1
    a1 = a1
    a2 = a2
    a3 = a3
    s1 = s1
    s2 = s2
    s3 = s3
    d1 = d1
    p1 = p1
    r1 = r1
    r2 = r2
    r3 = r3
    NoRow = NoRow
    None = None
    Backends = {"redb", "postgres"}
    Orgs = {o1}
    Apps = {a1, a2, a3}
    SinkIds = {s1, s2, s3}
    IdpIds = {d1}
    RuleIds = {p1}
    Requests = {r1, r2, r3}
    Quotas = {0, 1}
    DefaultQuota = 1
    MaxInFlight = 2
SYMMETRY Symmetry
INVARIANTS TypeOK NoOrphans OneCreateWins QuotaRespected KeypairHasFormation FormationHasKeypair
PROPERTIES QuotaChangeHolds OrgReturnsByCreateOnly DeletedSettingStaysGone
