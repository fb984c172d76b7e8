\* Two formations, two requests, two starts of each process.
SPECIFICATION Spec
CONSTANTS
    a1 = a1
    a2 = a2
    k1 = k1
    k2 = k2
    r1 = r1
    r2 = r2
    NoRow = NoRow
    None = None
    Down = Down
    Backends = {"redb", "postgres"}
    Keks = {k1, k2}
    Features = {"aws-kms"}
    Apps = {a1, a2}
    Requests = {r1, r2}
    Configs <- SixConfigs
    MaxStarts = 2
    MaxMigrations = 2
SYMMETRY Symmetry
INVARIANTS TypeOK SealedOnce ReportTrue Loadable ConfiguredMeansSealed
PROPERTIES MigrationKeepsMesh
