CONSTANTS
    p1 = p1  p2 = p2  r0 = r0  r1 = r1  r2 = r2  r3 = r3  r4 = r4
    Processes = {p1, p2}
    NoOne = NoOne
    Absent = Absent
    Requests <- Wanted
    Approvals = {"main", "later"}
    CeilingOf <- Ceiling
    PerMicro = 10
    MaxReservations = 2
    MaxLosses = 2
    Receipts <- LoggedReceipts
    Legacy <- OldFile
    MaxEvents = 4
    Worktrees = {1, 2}
    Short = {2}  Chunks = 2  MaxPrompts = 2  MaxFeatures = 3  MaxCalls = 2  MaxCrashes = 1
    Contents = {1, 2}
    Closable = {1}
    MinSupport = 1  MaxTransitions = 4  MaxClosures = 2
    Sessions = {r0, r1}
    Slices = {"first", "second"}
    Paths = {"a", "b", "env"}
    EnvFile = "env"
    Blockable = {"b"}
    Scopes <- MayAllow
    MaxChanges = 2  MaxTurns = 1  MaxHooks = 4  MaxGrants = 2
SYMMETRY Symmetry
SPECIFICATION RecordsSpec
INVARIANTS WithinCeiling ReportsAddUp GivenAsAgreed ComparesAside
PROPERTIES ChangesStayInScope
CHECK_DEADLOCK FALSE
