SPECIFICATION AllSpec
CONSTANTS
    None = None
    Accounts = {a, b}
    Money = {m}
    MaxAmount = 2
    LastDay = 2
    MaxChanges = 4
    Records = {x, y}
    Writers = {t1}
    Clerks = {p1, p2}
    Workers = {w1}
    MaxAttempts = 2
    MaxWrites = 2
    MaxClosings = 2
    MaxPacks = 1
    Entries = {e1, e2, e3}
    SealsLastDay = 4
SYMMETRY Alike
CHECK_DEADLOCK FALSE
INVARIANTS PacksHold 
PROPERTIES ClosedHolds
