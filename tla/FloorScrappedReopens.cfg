SPECIFICATION MCSpec
CONSTANTS
    Commands = {"PLAN", "SCAN", "INSPECT", "DECIDE", "ANALYSE"}
    Interleaved = {}
    Workers = {w0}
    Pair = {w1}
    Batches = {p1}
    Stations <- MCStations
    Origin <- MCOrigin
    Route <- MCRoute
    MaxHops = 2
    MaxInspections = 2
    MaxDecisions = 2
    MaxViolations = 0
PROPERTY ScrappedIsTerminal
CHECK_DEADLOCK FALSE
