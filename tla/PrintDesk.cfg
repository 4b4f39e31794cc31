SPECIFICATION Spec
CONSTANTS
    Packs = {p1, p2}
    Planned = 2
    Actuals = {1}
    Connections = {"NETWORK", "USB_AGENT", "NONE"}
    Jobs = {j1, j2}
    MaxPrints = 3
    MaxRestarts = 1
SYMMETRY Symmetry
INVARIANTS PrintsAreRecorded LabelsAreNumbered
CHECK_DEADLOCK FALSE
