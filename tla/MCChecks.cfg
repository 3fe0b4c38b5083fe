CONSTANTS
    sliceA = sliceA  sliceB = sliceB  p = p  q = q
    Order <- One
    Pinned = Pinned
    None = None
    Commands = {p, q}
    Modes = {"verify", "done", "accept"}
    Sources = {"v1", "v2"}
    Briefs = {"same", "design", "scope"}
    ContractOf <- Digests
    Flips = {"fails without it", "passes without it"}
    Statuses = {"passed", "failed"}
    ReviewerRules = FALSE
    MaxExecutions = 3
SPECIFICATION SettingSpec
INVARIANTS EndsOnPasses
PROPERTIES JudgesLatest HistoryGrows WaitsForReview
