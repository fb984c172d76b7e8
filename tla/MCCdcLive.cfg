\* Stores and sinks that answer; sinks do not change.
SPECIFICATION TaskSpec
CONSTANTS
    d1 = d1
    d2 = d2
    Docs = {d1, d2}
    Sinks = {1, 2}
    Kind <- WebhookKafka
    MaxRetries = 1
    Faults = FALSE
    Toggles = FALSE
    MaxVersion = 2
    MaxStream = 3
    MaxStops = 0
    MaxEnds = 0
PROPERTIES EventuallyDelivered
CHECK_DEADLOCK FALSE
