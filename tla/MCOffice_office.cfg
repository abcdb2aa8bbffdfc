SPECIFICATION OfficeSpec
CONSTANTS
    Nothing = Nothing
    Tickets = {k1}
    Plans = {1, 2}
    Late = 1
    LastHour = 2
    MaxPlanEdits = 2
    Companies = {c1}
    Contacts = {p1}
    Deals = {d1}
    Leads = {l1}
    Activities = {a1}
    Callers = {r1}
CHECK_DEADLOCK FALSE
INVARIANTS RecordsKept
PROPERTIES TicketsMeasured
