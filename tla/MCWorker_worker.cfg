SPECIFICATION AllSpec
CONSTANTS
    None = None
    Events = {e1, t1}
    TestEvents = {t1}
    Endpoints = {p1}
    Publishers = {w1, w2}
    Slots = {s1, s2}
    Requests = {r1}
    BatchLimit = 2
    MaxAttempts = 2
    DisableAfter = 2
    MayStall = FALSE
    MaxLost = 1
    MaxEdits = 3
    Assets = {a1}
    Sweepers = {w1, w2}
    Horizon = 1
    LastDay = 3
    MaxRenewals = 3
    Updates = {1}
    Workers = {w1}
    Users = {m1}
    Readings = {r1, r2}
    MaxHandlings = 2
    MaxTrouble = 2
    MaxChanges = 2
CHECK_DEADLOCK FALSE
INVARIANTS TypeOK PublishedOnce ExclusiveClaim DeliveriesCoherent
PROPERTIES  ImplementsLedger  NothingLeftWaiting
