CONSTANTS
    Brief <- TwoSlices
    Depends <- Ordered
    Judgments = {"satisfied", "failed"}
    Reports <- SomeReports
    MaxCalls = 2
    MaxSlips = 1
    MaxVersions = 12
SPECIFICATION FairSpec
PROPERTIES LoopEnds
