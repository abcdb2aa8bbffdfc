SPECIFICATION AllSpec
CONSTANTS
    None = None
    Invoices = {p1, p2, i3}
    Txs = {x1, x2}
    LastDate = 3
    CalendarYear <- Years
    FiscalYear <- FiscalYears
    InitialSettings <- FiscalYearly
    OtherSettings <- NoOther
    MayRecount = TRUE
    MayDeduct = TRUE
    MaxValue = 3
    Window = 5
    NoNumber = NoNumber
    NoInvoice = NoInvoice
    Documents = {i1}
    Payments = {p1, p2}
    Totals = {2}
    MaxAmount = 2
    LastDay = 1
    NoDate = NoDate
    NoPayment = NoPayment
    Nobody = Nobody
    Stages = {s1, s2}
    Prices = {3}
    Changes <- Descopes
    Terms <- MixedTerms
    Edits = {1}
    Raised = {1, 2}
    ClientOf <- SomeClients
    Spent = {e1}
    Logged = {t1}
    Works = {b1, b2}
    Currencies = {aud, usd}
    Base = aud
    Bills <- SomeBills
    Outlays = {3}
    ExchangeRates = {1, 2}
    RateOne = 2
    Seconds = {1}
    Hour = 2
    LastMonth = 1
    YearLength = 2
    YearStart = 1
    MaxDocuments = 2
    b1 = b1
    b2 = b2
    k1 = k1
    k2 = k2
SYMMETRY Alike
CONSTRAINT Bounded
CHECK_DEADLOCK FALSE
INVARIANTS PaymentsSettle NumbersStand BilledAsAgreed 
 
