SPECIFICATION BillingSpec
CONSTANTS
    Nobody = Nobody
    StartDays = {0}
    Lengths = {1, 2}
    EndDays = {NoDay, 1}
    Limits = {NoLimit, 2}
    PerInvoice = {1, 2}
    MaxCatchUp = 1
    MaxInvoices = 1
    MaxUpdates = 1
    LastDay = 1
    NoDay = NoDay
    NoLimit = NoLimit
    Retainers = {s1, s2}
    ClientOf <- OwnClients
    Services = {v1}
    TaxRates = {x1}
    Agreed <- OneService
    Workers = {w1, w2}
    MaxDue = 1
    MaxChanges = 1
    MaxFaults = 1
    Processes = {p1, p2, p3}
    Checkers = {p3}
    Releases = {2, 5}
    Creates = {1, 3}
    MaxCrashes = 1
CONSTRAINT BillingBounded
CHECK_DEADLOCK FALSE
INVARIANTS DoneInTurn
PROPERTIES AgreementKept AllCatchUp
