CONSTANTS
    sliceA = sliceA  sliceB = sliceB
    Scopes = {sliceA}
    MaxCalls = 3
    MaxReserved = 4
    Timeout <- Even
    Kinds = {"visp"}
    Answers = {"clean"}
    MaxEdits = 0
    MaxRevisions = 0
SPECIFICATION SettingSpec
INVARIANTS OnlyReturnedFailuresBlock
CHECK_DEADLOCK FALSE
