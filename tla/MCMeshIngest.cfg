\* Two collections, three moves of the broker, failing and hanging calls.
SPECIFICATION Spec
CONSTANTS
    c1 = c1
    c2 = c2
    d1 = d1
    d2 = d2
    v1 = v1
    v2 = v2
    p1 = p1
    None = None
    Named = {c1, c2}
    DefaultCollections = {c2}
    AppCollection = c1
    Docs = {d1, d2}
    Identified = {d1}
    Versions = {v1, v2}
    Peers = {p1}
    Intervals = {0, 5000}
    MaxMoves = 3
    MaxGlitches = 1
    MaxRestarts = 1
CHECK_DEADLOCK FALSE
INVARIANTS TypeOK ListedWasHanded EventsTrackSnapshot NoRepeat
PROPERTIES DownIsNoticed EventuallyHanded
