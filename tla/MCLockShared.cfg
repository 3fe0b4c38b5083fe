CONSTANTS
    a = a  b = b  c = c  p = p  q = q
    Writers = {a, b, c}
    Processes = {p, q}
    ProcOf <- Shared
    Sees <- SeesAll
    KnownNamespace = TRUE
    HardLinks = TRUE
    PromptPublish = FALSE
    PromptReclaim = TRUE
    AtomicClear = TRUE
    MaxRounds = 1
    Mortal = {q}
    Faulty = {}
    None = None
SPECIFICATION SharedSpec
INVARIANTS TypeOK MutualExclusion OwnerNamesHolder ReclaimsOnlyStopped
PROPERTIES ImplementsExclusiveOwner
SYMMETRY ABAlike
CHECK_DEADLOCK FALSE
