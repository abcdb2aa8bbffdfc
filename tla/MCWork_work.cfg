SPECIFICATION AllSpec
CONSTANTS
    None = None
    Tasks = {t1, t2, t3}
    Files = {f1}
    Requests = {p1, p2}
    Users = {u1}
    Entries = {e1, e2}
    PbRequests = {r1}
    HourCost = 4
    Fee = 5
    Budgets = {5}
    Hours = {2}
    LastDay = 1
    MaxEdits = 2
SYMMETRY Alike
CONSTRAINT Bounded
CHECK_DEADLOCK FALSE
INVARIANTS BoardInOrder WorkWatched
PROPERTIES FinishedInTurn
