CONSTANTS
    sliceA = sliceA  sliceB = sliceB
    Scopes = {sliceA, sliceB}
    MaxCalls = 2
    MaxReserved = 3
    Timeout <- Even
    Kinds = {"visp", "host"}
    Answers = {"clean", "findings", "invalid"}
    MaxEdits = 1
    MaxRevisions = 1
SPECIFICATION SettingSpec
INVARIANTS WithinBudget KeepsProductCall OneReviewInProgress
PROPERTIES SettledForGood CreditsCurrentWork
CHECK_DEADLOCK FALSE
SYMMETRY Symmetry
