SPECIFICATION Spec
CONSTANTS
    None = None
    Entries = {e1, e2}
    Expenses = {x1}
    Lines = {l1, l2}
    Invoices = {i1, i2}
    Projects = {p1}
    Users = {u1}
    Requests = {r1, r2}
    Hours = {1, 2}
    Rates = {1}
    MaxEdits = 2
SYMMETRY Alike
CHECK_DEADLOCK FALSE
INVARIANTS WorkBilled
PROPERTIES FrozenWhenIssued
