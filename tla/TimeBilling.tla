---------------------------- MODULE TimeBilling ----------------------------
(***************************************************************************)
(* Time and expenses, from the timer to the invoice that bills them        *)
(* (time/entries.ts, time/rates.ts, finance/expenses.ts, the drafting side *)
(* of finance/invoices.ts).                                                *)
(*                                                                         *)
(* invoice.billTime and invoice.billExpenses select what is unbilled       *)
(* without locking it, and mark it by id some statements later; timer.start*)
(* looks for a running timer before it inserts one.  Those are requests of *)
(* two steps, which may fail between them.  Everything else locks the row  *)
(* it changes and is one step.                                             *)
(*                                                                         *)
(* Data: one client in one currency.  Which rows a request selects (its    *)
(* project, its dates, what is billable) is any subset of the unbilled.  A *)
(* line is what it was worked out from; its wording, quantity, tax and     *)
(* later corrections are left out.                                         *)
(***************************************************************************)
EXTENDS Integers, FiniteSets, Functions

CONSTANTS
    Entries, Expenses, Lines, Invoices, Projects, Users, Requests,
    Hours,          \* what one entry may come to
    Rates,          \* hourly rates a person may set
    MaxEdits,       \* bound on corrections by people
    None

ASSUME TimeBillingAssumption ==
    /\ Hours \subseteq Nat /\ Rates \subseteq Nat /\ MaxEdits \in Nat
    /\ Entries \cap Expenses = {}
    /\ None \notin Entries \cup Expenses \cup Lines \cup Invoices \cup Projects \cup Users \cup Nat

VARIABLES
    entry,      \* time_entries
    expense,    \* expenses
    line,       \* invoice_lines that bill time or expenses
    invoice,    \* invoices.status
    archived,   \* the projects put away
    rate,       \* default_rates, and the override of the project's member
    request,    \* the requests of two steps under way
    edits

rows == <<entry, expense>>
vars == <<entry, expense, line, invoice, archived, rate, request, edits>>

NoEntry   == [state |-> "absent", user |-> None, project |-> None, hours |-> 0,
              rate |-> None, line |-> None]
NoExpense == [state |-> "absent", amount |-> 0, line |-> None]
NoLine    == [invoice |-> None, billed |-> {}, overtaken |-> {}]
Idle      == [step |-> "idle", invoice |-> None, picked |-> {}, overtaken |-> {},
              user |-> None, project |-> None, previous |-> None]

\* RATE_SOURCES, most specific first.
RateSources == {"project_member", "member", "organization"}

Init ==
    /\ entry = [e \in Entries |-> NoEntry]
    /\ expense = [x \in Expenses |-> NoExpense]
    /\ line = [l \in Lines |-> NoLine]
    /\ invoice = [i \in Invoices |-> "absent"]
    /\ archived = {}
    /\ rate = [s \in RateSources |-> None]
    /\ request = [r \in Requests |-> Idle]
    /\ edits = 0

-----------------------------------------------------------------------------
\* Rows, and what the requests under way hold of them.

Work       == Entries \cup Expenses
LineOf(w)  == IF w \in Entries THEN entry[w].line ELSE expense[w].line
\* What a row is charged at: hours and rate, or the amount.
Worth(w)   == IF w \in Entries THEN <<entry[w].hours, entry[w].rate>> ELSE <<expense[w].amount, 1>>
Free(i)    == \A r \in Requests : request[r].step = "billing" => request[r].invoice # i
NotHeld(e) == \A r \in Requests : request[r].previous # e
Edited     == edits < MaxEdits /\ edits' = edits + 1

\* mutation: billed rows are corrected like others
ChangeableBilled(w) == w \in Entries => NotHeld(w)

\* loadChangeableEntry, loadChangeableExpense
Changeable(w) == LineOf(w) = None /\ (w \in Entries => NotHeld(w))

Items(picked) == {p.item : p \in picked}

\* A change of w overtakes the requests that have picked it.
Overtakes(w) ==
    request' = [r \in Requests |->
        IF w \in Items(request[r].picked)
        THEN [request[r] EXCEPT !.overtaken = @ \cup {w}] ELSE request[r]]

\* resolveRates
ResolveRates ==
    IF rate["project_member"] # None THEN rate["project_member"]
    ELSE IF rate["member"] # None THEN rate["member"] ELSE rate["organization"]

Running(u) == {e \in Entries : entry[e].state = "running" /\ entry[e].user = u}

-----------------------------------------------------------------------------
\* Time logged by hand, and corrections.

TimeEntryCreate(e, u, p, h) ==
    /\ entry[e].state = "absent" /\ p \notin archived
    /\ entry' = [entry EXCEPT ![e] = [state |-> "logged", user |-> u, project |-> p, hours |-> h,
                                      rate |-> ResolveRates, line |-> None]]
    /\ UNCHANGED <<expense, line, invoice, archived, rate, request, edits>>

\* Only a stopped timer has hours to correct.  Another project resolves the
\* rates again.
TimeEntryUpdate(e, p, h) ==
    /\ Edited
    /\ entry[e].state \in {"running", "logged"} /\ Changeable(e)
    /\ {entry[e].project, p} \cap archived = {}
    /\ h = 0 <=> entry[e].state = "running"
    /\ entry' = [entry EXCEPT ![e].project = p, ![e].hours = h,
                              ![e].rate = IF p = entry[e].project THEN @ ELSE ResolveRates]
    /\ Overtakes(e)
    /\ UNCHANGED <<expense, line, invoice, archived, rate>>

TimeEntryDelete(e) ==
    /\ Edited
    /\ entry[e].state \in {"running", "logged"} /\ Changeable(e) /\ entry[e].project \notin archived
    /\ entry' = [entry EXCEPT ![e] = [NoEntry EXCEPT !.state = "deleted"]]
    /\ Overtakes(e)
    /\ UNCHANGED <<expense, line, invoice, archived, rate>>

RateSet(s, v) ==
    /\ Edited
    /\ rate' = [rate EXCEPT ![s] = v]
    /\ UNCHANGED <<entry, expense, line, invoice, archived, request>>

Archive(p) ==
    /\ Edited
    /\ archived' = IF p \in archived THEN archived \ {p} ELSE archived \cup {p}
    /\ UNCHANGED <<entry, expense, line, invoice, rate, request>>

-----------------------------------------------------------------------------
\* Timers: a person has one clock.

Stopped(e, h) == [entry EXCEPT ![e].state = "logged", ![e].hours = h]

\* Also on an archived project.
TimerStop(e, h) ==
    /\ entry[e].state = "running" /\ Changeable(e)
    /\ entry' = Stopped(e, h)
    /\ UNCHANGED <<expense, line, invoice, archived, rate, request, edits>>

\* The project is read, and the running timer, if any, locked.
TimerStartRead(r, u, p) ==
    /\ request[r].step = "idle" /\ p \notin archived
    /\ \E previous \in IF Running(u) = {} THEN {None} ELSE {e \in Running(u) : NotHeld(e)} :
        request' = [request EXCEPT ![r] = [Idle EXCEPT !.step = "starting", !.user = u, !.project = p,
                                                       !.previous = previous]]
    /\ UNCHANGED <<entry, expense, line, invoice, archived, rate, edits>>

\* mutation: the unique index is missing
NoTimerKey(u, previous) == TRUE

\* time_entries_one_running_timer_key: what the lock could not settle.
OneTimerKey(u, previous) == Running(u) \subseteq {previous}

\* The one running is stopped and a new one inserted.
TimerStartWrite(r, e, h) ==
    LET s == request[r] IN
    /\ s.step = "starting" /\ entry[e].state = "absent"
    /\ OneTimerKey(s.user, s.previous)
    /\ entry' = [(IF s.previous = None THEN entry ELSE Stopped(s.previous, h)) EXCEPT
                    ![e] = [NoEntry EXCEPT !.state = "running", !.user = s.user, !.project = s.project,
                                           !.rate = ResolveRates]]
    /\ request' = [request EXCEPT ![r] = Idle]
    /\ UNCHANGED <<expense, line, invoice, archived, rate, edits>>

-----------------------------------------------------------------------------
\* Expenses.

\* createExpense: confirmed at once, or a draft read from a receipt.
ExpenseCreate(x, state, a) ==
    /\ expense[x].state = "absent"
    /\ expense' = [expense EXCEPT ![x] = [state |-> state, amount |-> a, line |-> None]]
    /\ UNCHANGED <<entry, line, invoice, archived, rate, request, edits>>

ExpenseConfirm(x) ==
    /\ expense[x].state = "draft" /\ Changeable(x)
    /\ expense' = [expense EXCEPT ![x].state = "confirmed"]
    /\ UNCHANGED <<entry, line, invoice, archived, rate, request, edits>>

ExpenseUpdate(x, a) ==
    /\ Edited
    /\ expense[x].state \in {"draft", "confirmed"} /\ Changeable(x)
    /\ expense' = [expense EXCEPT ![x].amount = a]
    /\ Overtakes(x)
    /\ UNCHANGED <<entry, line, invoice, archived, rate>>

ExpenseDelete(x) ==
    /\ Edited
    /\ expense[x].state \in {"draft", "confirmed"} /\ Changeable(x)
    /\ expense' = [expense EXCEPT ![x] = [NoExpense EXCEPT !.state = "deleted"]]
    /\ Overtakes(x)
    /\ UNCHANGED <<entry, line, invoice, archived, rate>>

-----------------------------------------------------------------------------
\* Billing onto a draft.

InvoiceCreate(i) ==
    /\ invoice[i] = "absent"
    /\ invoice' = [invoice EXCEPT ![i] = "draft"]
    /\ UNCHANGED <<entry, expense, line, archived, rate, request, edits>>

Unbilled(w) ==
    IF w \in Entries
    THEN entry[w].state = "logged" /\ entry[w].line = None /\ entry[w].rate # None
    ELSE expense[w].state = "confirmed" /\ expense[w].line = None

\* The draft is locked, and the rows asked for are selected: not locked.
BillRead(r, i, asked) ==
    /\ request[r].step = "idle" /\ invoice[i] = "draft" /\ Free(i)
    /\ request' = [request EXCEPT ![r] =
           [Idle EXCEPT !.step = "billing", !.invoice = i,
                        !.picked = {[item |-> w, worth |-> Worth(w)] : w \in {v \in asked : Unbilled(v)}}]]
    /\ UNCHANGED <<entry, expense, line, invoice, archived, rate, edits>>

InvoiceBillTime(r, i, asked)     == asked \subseteq Entries /\ BillRead(r, i, asked)
InvoiceBillExpenses(r, i, asked) == asked \subseteq Expenses /\ BillRead(r, i, asked)

\* Each on a line of its own, or the time of one rate together.  An expense
\* always has its own.
Alone(picked) == {{p} : p \in picked}
Grouped(picked) ==
    LET time == {p \in picked : p.item \in Entries} IN
    {{p \in time : p.worth[2] = v} : v \in {p.worth[2] : p \in time}} \cup Alone(picked \ time)

\* The rows marked with their lines: by id, whatever they say by now.
Marked(l, w) == [l EXCEPT !.line = w]

BillWrite(r) ==
    LET b == request[r] IN
    /\ b.step = "billing"
    /\ \E parts \in {Alone(b.picked), Grouped(b.picked)} :
       \E onto \in Injection(parts, {l \in Lines : line[l].invoice = None}) :
       LET LineFor(w) == onto[CHOOSE part \in parts : w \in Items(part)]
           Put(l)     == CHOOSE part \in parts : onto[part] = l
       IN
       /\ line' = [l \in Lines |->
              IF l \notin Range(onto) THEN [line[l] EXCEPT !.overtaken = @ \cup (Items(b.picked) \cap Items(line[l].billed))]
              ELSE [invoice |-> b.invoice, billed |-> Put(l), overtaken |-> b.overtaken \cap Items(Put(l))]]
       /\ entry' = [e \in Entries |-> IF e \in Items(b.picked) /\ entry[e].state # "deleted"
                                      THEN Marked(entry[e], LineFor(e)) ELSE entry[e]]
       /\ expense' = [x \in Expenses |-> IF x \in Items(b.picked) /\ expense[x].state # "deleted"
                                         THEN Marked(expense[x], LineFor(x)) ELSE expense[x]]
    /\ request' = [o \in Requests |->
           IF o = r THEN Idle
           ELSE [request[o] EXCEPT !.overtaken = @ \cup (Items(b.picked) \cap Items(request[o].picked))]]
    /\ UNCHANGED <<invoice, archived, rate, edits>>

\* A request refused, aborted or lost with its process.
RollBack(r) ==
    /\ request[r].step # "idle"
    /\ request' = [request EXCEPT ![r] = Idle]
    /\ UNCHANGED <<entry, expense, line, invoice, archived, rate, edits>>

\* mutation: only the time is released, and the expenses stay billed by nothing
ReleasedTime(row, ls) == IF row.line \in ls /\ "hours" \in DOMAIN row THEN [row EXCEPT !.line = None] ELSE row

\* releaseBilled: what these lines billed may be billed again.
Released(row, ls) == IF row.line \in ls THEN [row EXCEPT !.line = None] ELSE row

\* releaseBilled, and the lines deleted.
RemoveLines(ls) ==
    /\ entry' = [e \in Entries |-> Released(entry[e], ls)]
    /\ expense' = [x \in Expenses |-> Released(expense[x], ls)]
    /\ line' = [l \in Lines |-> IF l \in ls THEN NoLine ELSE line[l]]

\* mutation: lines are taken off issued invoices
AnyStatus(i) == invoice[i] # "absent"

\* requireDraft
RequireDraft(i) == invoice[i] = "draft"

InvoiceLineRemove(l) ==
    /\ Edited
    /\ line[l].invoice # None /\ RequireDraft(line[l].invoice) /\ Free(line[l].invoice)
    /\ RemoveLines({l})
    /\ UNCHANGED <<invoice, archived, rate, request>>

InvoiceDelete(i) ==
    /\ Edited
    /\ invoice[i] = "draft" /\ Free(i)
    /\ RemoveLines({l \in Lines : line[l].invoice = i})
    /\ invoice' = [invoice EXCEPT ![i] = "absent"]
    /\ UNCHANGED <<archived, rate, request>>

InvoiceSend(i) ==
    /\ invoice[i] = "draft" /\ Free(i)
    /\ invoice' = [invoice EXCEPT ![i] = "issued"]
    /\ UNCHANGED <<entry, expense, line, archived, rate, request, edits>>

\* The lines stay, and what they billed stays billed.
InvoiceCancel(i) ==
    /\ invoice[i] = "issued"
    /\ invoice' = [invoice EXCEPT ![i] = "cancelled"]
    /\ UNCHANGED <<entry, expense, line, archived, rate, request, edits>>

-----------------------------------------------------------------------------
Track ==
    \/ \E e \in Entries, u \in Users, p \in Projects, h \in Hours : TimeEntryCreate(e, u, p, h)
    \/ \E e \in Entries, p \in Projects, h \in Hours \cup {0} : TimeEntryUpdate(e, p, h)
    \/ \E e \in Entries : TimeEntryDelete(e)
    \/ \E e \in Entries, h \in Hours : TimerStop(e, h)
    \/ \E r \in Requests, u \in Users, p \in Projects : TimerStartRead(r, u, p)
    \/ \E r \in Requests, e \in Entries, h \in Hours : TimerStartWrite(r, e, h)

Spend ==
    \/ \E x \in Expenses, s \in {"draft", "confirmed"}, a \in Hours : ExpenseCreate(x, s, a)
    \/ \E x \in Expenses : ExpenseConfirm(x) \/ ExpenseDelete(x)
    \/ \E x \in Expenses, a \in Hours : ExpenseUpdate(x, a)

Bill ==
    \/ \E i \in Invoices : InvoiceCreate(i) \/ InvoiceDelete(i) \/ InvoiceSend(i) \/ InvoiceCancel(i)
    \/ \E r \in Requests, i \in Invoices :
          \/ \E asked \in SUBSET Entries : InvoiceBillTime(r, i, asked)
          \/ \E asked \in SUBSET Expenses : InvoiceBillExpenses(r, i, asked)
    \/ \E r \in Requests : BillWrite(r) \/ RollBack(r)
    \/ \E l \in Lines : InvoiceLineRemove(l)

Settings ==
    \/ \E s \in RateSources, v \in Rates \cup {None} : RateSet(s, v)
    \/ \E p \in Projects : Archive(p)

Next == Track \/ Spend \/ Bill \/ Settings

Spec == Init /\ [][Next]_vars

-----------------------------------------------------------------------------
EntryRows   == [state : {"absent", "running", "logged", "deleted"}, user : Users \cup {None},
                project : Projects \cup {None}, hours : Hours \cup {0},
                rate : Rates \cup {None}, line : Lines \cup {None}]
ExpenseRows == [state : {"absent", "draft", "confirmed", "deleted"}, amount : Hours \cup {0},
                line : Lines \cup {None}]
Picks       == [item : Work, worth : Nat \X Nat]
LineRows    == [invoice : Invoices \cup {None}, billed : SUBSET Picks, overtaken : SUBSET Work]
InvoiceStatuses == {"absent", "draft", "issued", "cancelled"}

RequestRows == [step : {"idle", "starting", "billing"}, invoice : Invoices \cup {None},
                picked : SUBSET Picks, overtaken : SUBSET Work, user : Users \cup {None},
                project : Projects \cup {None}, previous : Entries \cup {None}]

\* Rows keep their types; a row billed by a line is logged or confirmed, and
\* its line exists, on an invoice that does (their foreign keys).
TypeOK ==
    /\ entry \in [Entries -> EntryRows]
    /\ expense \in [Expenses -> ExpenseRows]
    /\ DOMAIN line = Lines /\ \A l \in Lines : line[l] \in LineRows
    /\ invoice \in [Invoices -> InvoiceStatuses]
    /\ archived \subseteq Projects
    /\ rate \in [RateSources -> Rates \cup {None}]
    /\ DOMAIN request = Requests /\ \A r \in Requests : request[r] \in RequestRows
    /\ edits \in 0..MaxEdits
    /\ \A w \in Work : LineOf(w) # None => line[LineOf(w)].invoice # None
    /\ \A l \in Lines : line[l].invoice # None => invoice[line[l].invoice] # "absent"

\* A person has one clock, however many requests to start one meet.
OneTimer == \A u \in Users : Cardinality(Running(u)) <= 1

\* A line and the rows it billed name each other, and the rows are still worth
\* what the line charges for them -- unless the row was changed or billed
\* elsewhere between being selected and being marked.
BilledAsLogged ==
    \A l \in Lines :
        /\ \A p \in line[l].billed :
              p.item \in line[l].overtaken \/ (LineOf(p.item) = l /\ Worth(p.item) = p.worth)
        /\ \A w \in Work : LineOf(w) = l => \E p \in line[l].billed : p.item = w

\* People have one clock each, and what a line charges is what was logged.
WorkBilled == TypeOK /\ OneTimer /\ BilledAsLogged

\* What an issued invoice billed stays as it is, also when it is cancelled,
\* whatever people correct or delete -- unless a request selected it before.
FrozenWhenIssued ==
    [][\A w \in Work :
          /\ LineOf(w) # None
          /\ invoice[line[LineOf(w)].invoice] \in {"issued", "cancelled"}
          /\ \A r \in Requests : \A p \in request[r].picked : p.item # w
          => UNCHANGED <<LineOf(w), Worth(w)>>]_vars

\* An hour or an expense is charged on one line only.
BilledOnce ==
    \A l1, l2 \in Lines : \A p1 \in line[l1].billed, p2 \in line[l2].billed :
        p1.item = p2.item => l1 = l2
=============================================================================
