\* A document changes while the gateway restarts.
SPECIFICATION RestartSpec
CONSTANTS
    d1 = d1
    d2 = d2
    Docs = {d1}
    Sinks = {1}
    Kind <- OneWebhook
    MaxRetries = 1
    Faults = FALSE
    Toggles = FALSE
    MaxVersion = 2
    MaxStream = 2
    MaxStops = 1
    MaxEnds = 0
PROPERTIES EventuallyDelivered
CHECK_DEADLOCK FALSE
