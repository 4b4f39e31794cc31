SPECIFICATION MCSpec
CONSTANTS
    gundam = gundam
    zaku = zaku
    rx = rx
    ms = ms
    frame = frame
    shield = shield
    molding = molding
    Pair = {w1, w2}
    Workers = {w0}
    Products = {gundam, zaku}
    NoProduct = none
    Models = {rx, ms}
    ProductOf <- MCProductOf
    Parts = {frame, shield}
    ModelOf <- MCModelOf
    Stations = {molding}
    CatalogRoute <- MCRoute
    CatalogTimed <- MCTimed
    Quantities = {1, 3}
    PackSizes = {2}
    MaxVersion = 3
    MaxPacks = 1
SYMMETRY Symmetry
INVARIANTS ReleasedHasPacks PacksHaveProject LotAgrees
PROPERTIES ReleaseCovers KeepsPlan
CHECK_DEADLOCK FALSE
