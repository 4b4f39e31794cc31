SPECIFICATION MCSpec
CONSTANTS
    Workers = {w1, w2, w3}
    Scopes = {k1}
    Bodies = {b1, b2}
    ClaimIds = {i1, i2, i3}
    Faults = {"CRASH", "RELEASE_LOST"}
    Pair = {w1, w2}
    CreateKeys = {k1, k2}
    Rows = {r1, r2}
    Databases <- MCDatabases
    r1 = r1
    r2 = r2
    Clients = {c1, c2}
    MaxWrites = 4
    Ids = {1, 2, 3, 4}
    Limit = 2
    MaxChanges = 2
    Names = {n1, n2}
    MaxArtifacts = 2
    Kinds = {"employee", "product", "workspace"}
    MaxRequests = 3
    Uses = {"machine", "untimedPart", "anchorPack", "asset", "grant", "release"}
    Takes = {"section", "productionLine"}
    Pasts = {"retiredSubject"}
    MaxUses = 3
INVARIANTS WorkCommitsOnce VersionNamesContent OldRowsAreSeen StatusTellsArtifacts SweptIsCurrent WrappedOnce NeverStuck
PROPERTIES KeepsPromise ClaimsAreResolved StandingClaimIsFinal NoLostUpdate RunsEnd StaleEntriesGo FreshIsFresh RunsRestoreSeed
CHECK_DEADLOCK FALSE
