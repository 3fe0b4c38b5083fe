CONSTANTS
    a = a  b = b  c = c  x = x  y = y  link = link  m644 = m644  m755 = m755  w1 = w1  w2 = w2  i1 = i1  i2 = i2
    Paths = {a, b, c}
    Bodies = {x, y, link}
    Links = {link}
    Modes = {m644, m755}
    DefaultMode = m644
    LinkMode = m755
    KeepMode = KeepMode
    AnyMode = AnyMode
    Absent = Absent
    Anything = Anything
    Harnesses = {"claude-code", "opencode"}
    Profiles = {"standard", "minimal"}
    AssetsOf <- GeneratedFiles
    Script = "pretooluse"
    SharedOf <- Registered
    KindOf <- Kind
    HookOptions <- WithHook
    EntryOptions <- WithEntries
    KeptBackups = 2  MaxBuild = 2  MaxEdits = 2
    Plans <- AllPlans
    Writers = {w1}
    None = None
    Initial <- Start
    Editor <- SomeEdits
    EditsAnytime = TRUE
    MaxFaults = 3
SYMMETRY Indexing
SPECIFICATION WorktreeSpec
INVARIANTS InstallationOwnsItsOwn IndexTellsTruth
PROPERTIES KeepsUserText CommitsOnlyVerified RollbackComplete
CHECK_DEADLOCK FALSE
