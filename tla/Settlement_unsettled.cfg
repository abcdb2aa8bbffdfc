SPECIFICATION Spec
CONSTANTS
    NoDate = NoDate
    NoPayment = NoPayment
    Nobody = Nobody
    Invoices = {i1, i2}
    Payments = {p1}
    Clerks = {c1}
    Totals = {1}
    MaxAmount = 2
    LastDay = 1
INVARIANTS DeletionSettles
