\* One document, two sinks of different kinds, every fault.
SPECIFICATION Spec
CONSTANTS
    d1 = d1
    d2 = d2
    Docs = {d1}
    Sinks = {1, 2}
    Kind <- WebhookNats
    MaxRetries = 1
    Faults = TRUE
    Toggles = TRUE
    MaxVersion = 2
    MaxStream = 2
    MaxStops = 1
    MaxEnds = 1
INVARIANTS TypeOK CursorOnlyPublished WatcherSurvives DisabledGetsNoMore
PROPERTIES InOrder
CHECK_DEADLOCK FALSE
