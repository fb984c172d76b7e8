\* A webhook that fails.
SPECIFICATION Spec
CONSTANTS
    d1 = d1
    d2 = d2
    Docs = {d1}
    Sinks = {1}
    Kind <- OneWebhook
    MaxRetries = 1
    Faults = TRUE
    Toggles = FALSE
    MaxVersion = 2
    MaxStream = 2
    MaxStops = 1
    MaxEnds = 1
INVARIANTS CursorMeansDelivered
CHECK_DEADLOCK FALSE
