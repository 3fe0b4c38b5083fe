CONSTANTS
    a = a  b = b  c = c  x = x  y = y  link = link  m644 = m644  m755 = m755  w1 = w1  w2 = w2  here = here  there = there
    Paths = {a, b, c}
    Bodies = {x, y, link}
    Links = {link}
    Modes = {m644, m755}
    DefaultMode = m644
    LinkMode = m755
    KeepMode = KeepMode
    AnyMode = AnyMode
    Absent = Absent
    Anything = Anything
    Plans <- AllPlans
    Writers = {w1, w2}
    None = None
    Initial <- Start
    Editor <- SomeEdits
    EditsAnytime = FALSE
    MaxFaults = 8
SPECIFICATION PartsSpec
INVARIANTS AlwaysRecoverable AdviceTaken
PROPERTIES LockSettles ImplementsAtomicUpdate JournalSettles AdviceEnds
CHECK_DEADLOCK FALSE
