CONSTANTS
    sliceA = sliceA  sliceB = sliceB  p = p  q = q
    Order <- One
    Pinned = Pinned
    None = None
    Commands = {p}
    Modes = {"done", "accept"}
    Sources = {"v1"}
    Briefs = {"same"}
    ContractOf <- Digests
    Flips = {"fails without it", "passes without it"}
    Statuses = {"passed", "failed"}
    ReviewerRules = FALSE
    MaxExecutions = 4
SPECIFICATION AcceptedSpec
INVARIANTS AcceptedMeansClosed
