CONSTANTS
    outer = outer  apart = apart  hasty = hasty
    inner1 = inner1  inner2 = inner2  inmost = inmost
    Calls = {outer, apart, hasty, inner1, inner2, inmost}
    Within <- WithinCalls
    Hasty = {hasty}
    Other = Other
    None = None
    MaxRounds = 2
    ActorMax = 3
    ReviewMax = 2
    MaxDuration = 9
    MaxUsd = 4
    Criteria = {criterion}
    Exercises = {x, y}
    Sources = {before, after}
    Sessions = {actor, critic}
    Costs <- Reports
    MaxEdits = 1
    Codes = {0, 1, 2}
    Alive = Alive
    NotStarted = NotStarted
    Failed = Failed
    TimeLimit = TRUE
    Abortable = TRUE
    here = here  again = again  old = old
    Starts = {here, again, old}
    BuildOf <- Build
    RootOf <- Root
    SlowPings = TRUE
    WithPort = {old}
    Actions <- Waiting
    MaxCaptures = 2
    Schemes = {"project", "file"}
    Commands = {TRUE, FALSE}
SPECIFICATION PartsSpec
INVARIANTS NestingSound LoopSharesBudget NothingLeftBehind
PROPERTIES CreditIsEarned NothingHangs
CHECK_DEADLOCK FALSE
