------------------------------- MODULE Lists -------------------------------
(***************************************************************************)
(* The lists of the API and how they are read a page at a time: by the     *)
(* pages of the interface and by clients, which follow nextCursor until it *)
(* is null, and by the exports (exports.ts), which do the same within one  *)
(* transaction and stop at a limit.                                        *)
(*                                                                         *)
(* Ids are UUIDv7: they are drawn in the application, in the order of time,*)
(* and their rows appear when their transactions commit.  Every page is a  *)
(* statement of its own and sees what is committed by then, in an export   *)
(* too: READ COMMITTED.                                                    *)
(*                                                                         *)
(* Data: a row has the day, name or period its list may sort by, and       *)
(* whether it is what the reader asks for; a list, the order of its rows,  *)
(* what its cursor compares, and the columns it may be asked for that can  *)
(* change.  drizzle's and() does not put its parts in brackets.            *)
(***************************************************************************)
EXTENDS Integers, FiniteSets, Sequences, Functions

CONSTANTS
    Ids,            \* ids, in the order they are drawn
    Days,           \* what rows are sorted by, if not by their ids
    Walked,         \* the lists that are read
    Limit,          \* rows of a page
    MaxRows,        \* rows of an export
    MaxChanges,     \* bound on edits and deletions while a list is read
    None

VARIABLES
    table,          \* committed rows
    drawn,          \* ids of transactions under way
    reader,
    kept,           \* history: rows that were there, unchanged, since the first page
    changes

vars == <<table, drawn, reader, kept, changes>>

-----------------------------------------------------------------------------
\* The lists.
List(order, cursor, asks) == [order |-> order, cursor |-> cursor, asks |-> asks]
Newest(asks) == List("newest", "id", asks)

CompanyList     == Newest({"name", "lifecycleStage", "archivedAt"})
ClientList      == Newest({"name", "lifecycleStage", "archivedAt"})
ContactList     == Newest({"name", "email", "companyId", "archivedAt"})
LeadList        == Newest({"name", "status", "source", "archivedAt"})
DealList        == Newest({"name", "stage", "closedAt", "companyId", "contactId", "archivedAt"})
ActivityList    == List("latest", "day and id", {"companyId", "contactId", "dealId"})
DocumentList    == Newest({"title", "category", "projectId"})
ProjectList     == Newest({"name", "status", "companyId", "archivedAt"})
TaskList        == Newest({"title", "status", "milestoneId", "assigneeId"})
CommentList     == Newest({})
TicketList      == Newest({"title", "status", "priority", "type", "assigneeId", "breached"})
MessageList     == List("oldest", "id", {})
EntryList       == Newest({"projectId", "taskId", "spentOn", "billable", "running", "invoiced"})
InvoiceList     == Newest({"title", "number", "status", "companyId", "projectId", "outstanding"})
QuoteList       == Newest({"title", "number", "status", "companyId", "dealId", "optionGroupId"})
PaymentList     == Newest({"receivedOn", "invoiceId", "unallocated"})
ExpenseList     == Newest({"description", "category", "status", "incurredOn", "hasReceipt", "invoiced"})
ScheduleList    == Newest({"name", "status", "due"})
RunList         == List("latest", "id", {})
PlanList        == Newest({"name", "status"})
VisitList       == List("latest", "id", {"kind", "performedOn"})
AssetList       == Newest({"name", "kind", "status", "environment", "projectId"})
ExpiringList    == List("soonest", "id", {"expiresOn", "status"})
AccountList     == List("soonest", "id", {"kind", "currency", "archivedAt", "needsAttention"})
TransactionList == List("latest", "id", {"status", "description", "bookedOn"})
DeliveryList    == Newest({})
AuditLogList    == Newest({})

Lists ==
    [companies |-> CompanyList, clients |-> ClientList, contacts |-> ContactList, leads |-> LeadList,
     deals |-> DealList, activities |-> ActivityList, documents |-> DocumentList, projects |-> ProjectList,
     tasks |-> TaskList, comments |-> CommentList, tickets |-> TicketList, messages |-> MessageList,
     entries |-> EntryList, invoices |-> InvoiceList, quotes |-> QuoteList, payments |-> PaymentList,
     expenses |-> ExpenseList, schedules |-> ScheduleList, runs |-> RunList, plans |-> PlanList,
     visits |-> VisitList, assets |-> AssetList, expiring |-> ExpiringList, accounts |-> AccountList,
     transactions |-> TransactionList, deliveries |-> DeliveryList, auditLog |-> AuditLogList,
     settled |-> InvoiceList]

\* Lists whose cursor compares all they are sorted by.  That of the paid
\* invoices does not hold for all that is asked for: see Selected.
FollowsCursor(name) ==
    LET l == Lists[name] IN
    /\ name # "settled"
    /\ \/ l.order \in {"newest", "oldest"} /\ l.cursor = "id"
       \/ l.order = "latest" /\ l.cursor = "day and id"

\* exports.ts catalogue
Exported ==
    {"companies", "contacts", "leads", "deals", "projects", "tasks", "entries", "invoices", "payments", "expenses"}

-----------------------------------------------------------------------------
Stored   == {a \in Ids : table[a] # None}
DaysOf(l) == IF Lists[l].order \in {"newest", "oldest"} THEN {1} ELSE Days
\* A list that is asked for nothing that changes shows all there is.
RowsOf(l) == [day : DaysOf(l), asked : IF Lists[l].asks = {} THEN {TRUE} ELSE BOOLEAN]

Reading == reader.step = "reading"
\* A row is not what it was: its place or what it is asked for may differ.
Touched(a) == kept' = kept \ {a}
Change     == changes < MaxChanges /\ changes' = changes + 1

Init ==
    /\ table = [a \in Ids |-> None]
    /\ drawn = {}
    /\ \E l \in Walked, who \in {"pages", "export"} :
          /\ who = "export" => l \in Exported
          /\ reader = [list |-> l, who |-> who, step |-> "idle", cursor |-> None, shown |-> <<>>]
    /\ kept = {} /\ changes = 0

-----------------------------------------------------------------------------
\* newId, in a transaction that has yet to commit.
NewId(a) ==
    /\ table[a] = None /\ \A b \in Ids : b >= a => b \notin drawn /\ table[b] = None
    /\ drawn' = drawn \cup {a}
    /\ UNCHANGED <<table, reader, kept, changes>>

Insert(a, row) ==
    /\ a \in drawn
    /\ drawn' = drawn \ {a}
    /\ table' = [table EXCEPT ![a] = row]
    /\ UNCHANGED <<reader, kept, changes>>

Edit(a, row) ==
    /\ a \in Stored /\ row # table[a] /\ Reading /\ Change
    /\ table' = [table EXCEPT ![a] = row]
    /\ Touched(a)
    /\ UNCHANGED <<drawn, reader>>

Delete(a) ==
    /\ a \in Stored /\ Reading /\ Change
    /\ table' = [table EXCEPT ![a] = None]
    /\ Touched(a)
    /\ UNCHANGED <<drawn, reader>>

-----------------------------------------------------------------------------
\* ORDER BY
Before(l, a, b) ==
    LET x == table[a].day  y == table[b].day IN
    CASE l.order = "newest"  -> a > b
      [] l.order = "oldest"  -> a < b
      [] l.order = "latest"  -> x > y \/ (x = y /\ a > b)
      [] l.order = "soonest" -> x < y \/ (x = y /\ a > b)

\* What comes after the cursor.
After(l, c, a) ==
    \/ c = None
    \/ IF l.cursor = "day and id" THEN table[a].day < c.day \/ (table[a].day = c.day /\ a < c.id)
       ELSE IF l.order = "oldest" THEN a > c.id ELSE a < c.id

Asked == {a \in Stored : table[a].asked}

\* WHERE.  outstanding = false is "these statuses or nothing due", and what is
\* joined to it by AND holds for its second half: the cursor does not hold for
\* the first.
Selected(name, c) ==
    IF name = "settled" THEN Asked ELSE {a \in Asked : After(Lists[name], c, a)}

\* mutation: the cursor is the row that told of another page
PaginatePast(rows) ==
    IF Len(rows) > Limit
    THEN [data |-> SubSeq(rows, 1, Limit), next |-> [id |-> rows[Limit + 1], day |-> table[rows[Limit + 1]].day]]
    ELSE [data |-> rows, next |-> None]

\* paginate: limit + 1 rows were fetched; the extra one tells of another page.
Paginate(rows) ==
    IF Len(rows) > Limit
    THEN [data |-> SubSeq(rows, 1, Limit), next |-> [id |-> rows[Limit], day |-> table[rows[Limit]].day]]
    ELSE [data |-> rows, next |-> None]

\* Rows as ORDER BY gives them.
Sorted(l, rows) ==
    CHOOSE s \in [1..Cardinality(rows) -> rows] :
        \A i, j \in 1..Cardinality(rows) : i < j => Before(l, s[i], s[j])

Page(name, c) ==
    LET found == Sorted(Lists[name], Selected(name, c))
    IN Paginate(SubSeq(found, 1, IF Len(found) > Limit + 1 THEN Limit + 1 ELSE Len(found)))

FirstPage ==
    /\ reader.step = "idle"
    /\ reader' = [reader EXCEPT !.step = "reading"]
    /\ kept' = Asked
    /\ UNCHANGED <<table, drawn, changes>>

\* The next page of a reader who follows nextCursor.
NextPage ==
    LET page == Page(reader.list, reader.cursor) IN
    /\ Reading /\ reader.who = "pages"
    \* bound: a reader who is shown more than there is has seen enough
    /\ Len(reader.shown) <= Cardinality(Ids)
    /\ reader' = [reader EXCEPT !.shown = @ \o page.data, !.cursor = page.next,
                                !.step = IF page.next = None THEN "whole" ELSE "reading"]
    /\ UNCHANGED <<table, drawn, kept, changes>>

\* collectExport: rows until there are MAX_ROWS; one more is what truncates.
ExportPage ==
    LET page == Page(reader.list, reader.cursor)
        all  == reader.shown \o page.data
        cut  == Len(all) > MaxRows
    IN
    /\ Reading /\ reader.who = "export"
    /\ reader' = [reader EXCEPT !.shown = IF cut THEN SubSeq(all, 1, MaxRows) ELSE all, !.cursor = page.next,
                                !.step = IF cut THEN "truncated" ELSE IF page.next = None THEN "whole" ELSE "reading"]
    /\ UNCHANGED <<table, drawn, kept, changes>>

Write ==
    \/ \E a \in Ids : NewId(a) \/ Delete(a)
    \/ \E a \in Ids, row \in RowsOf(reader.list) : Insert(a, row) \/ Edit(a, row)

Next == Write \/ FirstPage \/ NextPage \/ ExportPage

Spec == Init /\ [][Next]_vars

-----------------------------------------------------------------------------
\* "Follow nextCursor until it is null": what was there when the reading began,
\* and stayed as it was, is shown once, whatever is added, moved or removed
\* meanwhile; only an export that says so leaves any of it out, and only when
\* it is full.
ShownOnce ==
    /\ \A a \in kept : Cardinality({i \in DOMAIN reader.shown : reader.shown[i] = a}) <= 1
    /\ reader.step = "whole" => kept \subseteq Range(reader.shown)
    /\ reader.step = "truncated" => Len(reader.shown) = MaxRows
=============================================================================
