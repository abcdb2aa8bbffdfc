SPECIFICATION AllSpec
CONSTANTS
    None = None
    Updates = {1, 2}
    Workers = {w1, w2}
    Users = {m1}
    Readings = {r1, r2}
    MaxAttempts = 2
    MaxTrouble = 1
    MaxChanges = 1
    Invoices = {i1}
    Quotes = {q1}
    Totals = {1, 2}
    Ids = {1, 2, 3, 4}
    Days = {1, 2}
    Walked <- InOrder
    Limit = 1
    MaxRows = 2
    MaxEdits = 1
SYMMETRY Alike
CHECK_DEADLOCK FALSE
INVARIANTS  LettersTrue ListsComplete
