SPECIFICATION AllSpec
CONSTANTS
    None = None
    Txs = {r1, r2, r3}
    LastInvoice = 3
    Invoices = {1, 2, 3}
    Payments = {p1}
    Drafts = {d1, d2}
    Ascending = TRUE
    Requests = {r1, r2, r3}
    Keys = {k1}
    MaxPrunes = 1
    MaxFaults = 1
    Users = {ann, bo}
    ApiKeys = {k1}
    Limit = 1
    LastMinute = 1
    MaxChanges = 1
    Orgs = {o1, o2}
    Connections = {n1, n2}
    Callers = {q1, q2}
    Kept = {x1, x2}
    Empty = Empty
SYMMETRY Alike
CONSTRAINT Bounded
CHECK_DEADLOCK FALSE
INVARIANTS TypeOK  RequestsOnce AccessHeld
