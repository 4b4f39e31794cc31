SPECIFICATION MCSpec
CONSTANTS
    Commands = {"PLAN", "COMPLETE", "SCAN", "VIOLATION", "INSPECT", "RESOLVE", "DECIDE", "ANALYSE", "CLOSE"}
    Interleaved = {"PLAN", "COMPLETE", "SCAN", "VIOLATION", "INSPECT", "DECIDE", "ANALYSE", "CLOSE"}
    Workers = {w0}
    Pair = {w1, w2}
    Batches = {p1}
    Stations <- MCStations
    Origin <- MCOrigin
    Route <- MCRoute
    MaxHops = 2
    MaxInspections = 2
    MaxDecisions = 2
    MaxViolations = 0
SYMMETRY Symmetry
INVARIANTS FateHasGrounds ClosedIsPassed HopsAreCovered LedgerAddsUp FatesAreShown ScreensTellCommands
PROPERTIES MovesAreFree CompletionsAreEarned
CHECK_DEADLOCK FALSE
