CONSTANTS
    item1 = item1  item2 = item2  edition1 = edition1  edition2 = edition2
    host1 = host1  host2 = host2  suite1 = suite1  suite2 = suite2
    problem = problem  Feature = Feature  Shared = Shared
    Processes = {host1, host2}
    Suites = {suite1, suite2}
    FailsOn <- FailsOnOne
    MaxTries = 1  TesterEdits = 2  MaxRevisions = 1
    Resources = {"overview", "feature"}
    MaxChanges = 1  MaxDrops = 1  MaxFailures = 1  InFlight = 2
    Tests = {item1, item2}
    Crash = Crash
    Versions = {edition1, edition2}
    FirstVersion = edition1
    Failing <- FailsIn
    SuiteSkips = FALSE
    None = None
    MaxOpen = 2
    MaxFilings = 2
    MaxReviewsPerFiling = 2
    MaxAttempts = 2
    MaxEdits = 1
    MaxCalls = 4
SPECIFICATION ProductSpec
INVARIANTS PassesAreEarned PinnedFailedAtLaunch NothingMissed
PROPERTIES RejectionsStand FindingsStand
CHECK_DEADLOCK FALSE
