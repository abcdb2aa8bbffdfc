------------------------------ MODULE Reports ------------------------------
(***************************************************************************)
(* The same money, counted by four queries that were written apart: the    *)
(* view of what a project earned (project_financials_v), the revenue       *)
(* report (revenue.ts), the dashboard (dashboard.ts), and the income tax   *)
(* pack of a financial year (books.ts, tax-pack.ts, fiscal.ts).            *)
(*                                                                         *)
(* What they count comes and goes by the operations that date it: an       *)
(* invoice is issued, paid, refunded or cancelled, an expense is confirmed,*)
(* time is logged, and the organization begins or ends claiming tax back.  *)
(*                                                                         *)
(* Data: a date is its month; a decimal rate is a whole number over RateOne*)
(* and a duration a whole number over Hour.  Counts, names and percentages *)
(* are left out.  Each report is read at one moment.                       *)
(***************************************************************************)
EXTENDS Integers, FiniteSets, Functions

CONSTANTS
    Invoices,           \* numbers, issued in turn
    ClientOf,           \* [Invoices -> companies]
    Expenses, Entries, Projects,
    Currencies, Base,   \* Base \in Currencies
    Bills,              \* what the lines of an invoice may be
    Amounts,            \* net amounts of expenses; their tax is 0 or 1
    Rates, RateOne,     \* exchange rates and hourly rates
    Seconds, Hour,
    LastMonth, YearLength, YearStart,
    MaxDocuments,       \* bound on what is recorded at all
    None

VARIABLES
    invoices, payments, expenses, entries,
    reclaims,           \* organization.reclaims_input_tax
    now                 \* the month it is

vars == <<invoices, payments, expenses, entries, reclaims, now>>

Months == 0..LastMonth

RoundDiv(n, d) == IF n < 0 THEN -((d - 2 * n) \div (2 * d)) ELSE (2 * n + d) \div (2 * d)
Convert(n, currency, rate) == IF currency = Base THEN n ELSE RoundDiv(n * rate, RateOne)

-----------------------------------------------------------------------------
Issued == {i \in Invoices : invoices[i] # None}

NetOfLines(lines) == SumFunction([k \in DOMAIN lines |-> lines[k].net])
TaxOfLines(lines) == SumFunction([k \in DOMAIN lines |-> lines[k].tax])

Net(i)   == NetOfLines(invoices[i].lines)
Tax(i)   == TaxOfLines(invoices[i].lines)
Gross(i) == Net(i) + Tax(i)
Due(i)   == Gross(i) - invoices[i].paid

Init ==
    /\ invoices = [i \in Invoices |-> None] /\ payments = {}
    /\ expenses = [e \in Expenses |-> None] /\ entries = [t \in Entries |-> None]
    /\ reclaims \in BOOLEAN /\ now = 0

\* Bound: documents of different kinds are of the first month and in Base.
Saved(f) == {x \in DOMAIN f : f[x] # None}
Room(f, currency) ==
    LET all == Cardinality(Saved(invoices)) + Cardinality(Saved(expenses)) + Cardinality(Saved(entries)) IN
    /\ all < MaxDocuments
    /\ Cardinality(Saved(f)) # all =>
          /\ now = 0 /\ currency = Base
          /\ \A g \in {invoices, expenses, entries} : \A x \in Saved(g) : g[x].currency = Base

InvoiceSend(i, currency, rate, lines, terms) ==
    /\ invoices[i] = None /\ (\A j \in Invoices : j < i => j \in Issued) /\ Room(invoices, currency)
    /\ currency = Base => rate = RateOne
    /\ invoices' = [invoices EXCEPT ![i] =
          [status |-> "sent", currency |-> currency, rate |-> rate, lines |-> lines, month |-> now, due |-> now + terms, paid |-> 0]]
    /\ UNCHANGED <<payments, expenses, entries, reclaims, now>>

\* Money in, or given back; the invoice is paid when nothing is due.
Receive(i, amount) ==
    /\ invoices' = [invoices EXCEPT ![i] = [@ EXCEPT !.paid = invoices[i].paid + amount, !.status = IF Due(i) = amount THEN "paid" ELSE "sent"]]
    /\ payments' = payments \cup {[invoice |-> i, n |-> Cardinality(payments), currency |-> invoices[i].currency,
                                   amount |-> amount, month |-> now]}
    /\ UNCHANGED <<expenses, entries, reclaims, now>>

PaymentRecord(i, amount) ==
    /\ i \in Issued /\ invoices[i].status = "sent" /\ payments = {} /\ amount \in 1..Due(i)
    /\ Receive(i, amount)

PaymentRefund(i) ==
    /\ i \in Issued /\ invoices[i].paid > 0
    /\ Receive(i, -invoices[i].paid)

InvoiceCancel(i) ==
    /\ i \in Issued /\ invoices[i].status # "cancelled" /\ invoices[i].paid = 0
    /\ invoices' = [invoices EXCEPT ![i].status = "cancelled"]
    /\ UNCHANGED <<payments, expenses, entries, reclaims, now>>

\* Its base amount is kept with it.
ExpenseSave(e, project, amount, tax, currency, rate) ==
    /\ expenses[e] = None /\ Room(expenses, currency)
    /\ currency = Base => rate = RateOne
    /\ \E status \in {"draft", "confirmed"}, treatment \in {"deductible", "non_deductible", "capital"} :
          expenses' = [expenses EXCEPT ![e] =
             [project |-> project, amount |-> amount, tax |-> tax, base |-> Convert(amount, currency, rate),
              currency |-> currency, month |-> now, status |-> status, treatment |-> treatment]]
    /\ UNCHANGED <<invoices, payments, entries, reclaims, now>>

ExpenseConfirm(e) ==
    /\ expenses[e] # None /\ expenses[e].status = "draft"
    /\ expenses' = [expenses EXCEPT ![e].status = "confirmed"]
    /\ UNCHANGED <<invoices, payments, entries, reclaims, now>>

TimeLog(t, project, seconds, rate, currency) ==
    /\ entries[t] = None /\ Room(entries, currency)
    /\ entries' = [entries EXCEPT ![t] =
          [project |-> project, seconds |-> seconds, rate |-> rate, currency |-> currency, month |-> now]]
    /\ UNCHANGED <<invoices, payments, expenses, reclaims, now>>

OrganizationUpdate == Saved(expenses) # {} /\ reclaims' = ~reclaims /\ UNCHANGED <<invoices, payments, expenses, entries, now>>

NextMonth == now < LastMonth /\ now' = now + 1 /\ UNCHANGED <<invoices, payments, expenses, entries, reclaims>>

Next ==
    \/ \E i \in Invoices, c \in Currencies, r \in Rates, lines \in Bills, terms \in {0, 1} : InvoiceSend(i, c, r, lines, terms)
    \/ \E i \in Issued : PaymentRecord(i, 1) \/ PaymentRecord(i, Due(i)) \/ PaymentRefund(i) \/ InvoiceCancel(i)
    \/ \E e \in Expenses, p \in Projects \cup {None}, a \in Amounts, tax \in {0, 1}, c \in Currencies, r \in Rates :
          ExpenseSave(e, p, a, tax, c, r)
    \/ \E e \in Expenses : ExpenseConfirm(e)
    \/ \E t \in Entries, p \in Projects, s \in Seconds, r \in Rates, c \in Currencies : TimeLog(t, p, s, r, c)
    \/ OrganizationUpdate \/ NextMonth

Spec == Init /\ [][Next]_vars

-----------------------------------------------------------------------------
\* revenue.ts
IsRevenue(i) == i \in Issued /\ invoices[i].status # "cancelled"

Within(month, from, to) == month \in from..to

RevenueIn(c, from, to) ==
    {i \in Invoices : IsRevenue(i) /\ invoices[i].currency = c /\ Within(invoices[i].month, from, to)}

Billed(c, from, to) == SumFunction([i \in RevenueIn(c, from, to) |-> Net(i)])

\* The part of it that some project claims.
ClaimedLines(i) == {k \in DOMAIN invoices[i].lines : invoices[i].lines[k].project # None}

AttributedIn(c, from, to) ==
    SumFunction([i \in RevenueIn(c, from, to) |-> NetOfLines([k \in ClaimedLines(i) |-> invoices[i].lines[k]])])

CollectedIn(c, from, to) ==
    SumFunction([p \in {q \in payments : q.currency = c /\ Within(q.month, from, to)} |-> p.amount])

Outstanding(c) ==
    LET open == {i \in Issued : invoices[i].status = "sent" /\ Due(i) > 0 /\ invoices[i].currency = c} IN
    [all |-> SumFunction([i \in open |-> Due(i)]),
        overdue |-> SumFunction([i \in {j \in open : invoices[j].due < now} |-> Due(i)])]

CountsAsCost(e) == expenses[e] # None /\ expenses[e].status = "confirmed"
ExpenseCost(e)  == expenses[e].amount + (IF reclaims THEN 0 ELSE expenses[e].tax)

ExpensesIn(c, from, to) ==
    SumFunction([e \in {x \in Expenses : CountsAsCost(x) /\ expenses[x].currency = c /\ Within(expenses[x].month, from, to)}
                    |-> ExpenseCost(e)])

LabourOf(t) == RoundDiv(entries[t].seconds * entries[t].rate, Hour)

LabourIn(c, from, to) ==
    SumFunction([t \in {x \in Entries : entries[x] # None /\ entries[x].currency = c /\ Within(entries[x].month, from, to)}
                    |-> LabourOf(t)])

\* Who the money came from, read whole: the report ends after 50 of them.
ClientsIn(from, to) ==
    LET among(k, c) == {i \in Invoices : /\ IsRevenue(i) /\ Within(invoices[i].month, from, to)
                                         /\ ClientOf[i] = k /\ invoices[i].currency = c}
        row(k, c) == [company |-> k, currency |-> c, billed |-> SumFunction([i \in among(k, c) |-> Net(i)]),
                      outstanding |-> SumFunction([i \in {j \in among(k, c) : invoices[j].status # "paid"} |-> Due(i)])]
    IN {row(ClientOf[i], invoices[i].currency) : i \in {j \in Invoices : IsRevenue(j) /\ Within(invoices[j].month, from, to)}}

Profit(c, from, to) == Billed(c, from, to) - ExpensesIn(c, from, to) - LabourIn(c, from, to)

-----------------------------------------------------------------------------
\* project_financials_v
LinesOf(i, p) == {k \in DOMAIN invoices[i].lines : invoices[i].lines[k].project = p}
NetOf(i, p)   == NetOfLines([k \in LinesOf(i, p) |-> invoices[i].lines[k]])

RevenueOf(p, c) == {i \in Invoices : IsRevenue(i) /\ invoices[i].currency = c /\ LinesOf(i, p) # {}}

BilledFor(p, c) == SumFunction([i \in RevenueOf(p, c) |-> NetOf(i, p)])

\* Its share of what was paid.
Share(i, p) == RoundDiv(invoices[i].paid * NetOf(i, p), Net(i))

CollectedFor(p, c) == SumFunction([i \in {j \in RevenueOf(p, c) : Net(j) # 0} |-> Share(i, p)])

LabourFor(p, c) ==
    SumFunction([t \in {x \in Entries : entries[x] # None /\ entries[x].project = p /\ entries[x].currency = c}
                    |-> RoundDiv(entries[t].seconds * entries[t].rate, Hour)])

\* mutation: drafts count, and tax never does
SpendWithDrafts(p, c) ==
    SumFunction([e \in {x \in Expenses : expenses[x] # None /\ expenses[x].project = p /\ expenses[x].currency = c}
                    |-> expenses[e].amount])

Spend(p, c) ==
    SumFunction([e \in {x \in Expenses : /\ expenses[x] # None /\ expenses[x].status = "confirmed"
                                         /\ expenses[x].project = p /\ expenses[x].currency = c}
                    |-> expenses[e].amount + (IF reclaims THEN 0 ELSE expenses[e].tax)])

\* A row for each currency a project recorded anything in.
Row(p, c) ==
    LET cost == LabourFor(p, c) + Spend(p, c)
        margin == BilledFor(p, c) - cost
    IN [project |-> p, currency |-> c, billed |-> BilledFor(p, c), collected |-> CollectedFor(p, c),
        labour |-> LabourFor(p, c), spend |-> Spend(p, c), cost |-> cost, margin |-> margin]

RecordedIn(p, c) ==
    \/ \E i \in Invoices : IsRevenue(i) /\ invoices[i].currency = c /\ LinesOf(i, p) # {}
    \/ \E t \in Entries : entries[t] # None /\ entries[t].project = p /\ entries[t].currency = c
    \/ \E e \in Expenses : CountsAsCost(e) /\ expenses[e].project = p /\ expenses[e].currency = c

\* The report of all projects, in any order and read whole: as many as are asked for, 200 at most.
Portfolio == {Row(k[1], k[2]) : k \in {x \in Projects \X Currencies : RecordedIn(x[1], x[2])}}

\* What a project's own page shows: its own currency, recorded in or not, and the others.
FinancialsFor(p, own) == [own |-> Row(p, own), others |-> {Row(p, c) : c \in {x \in Currencies \ {own} : RecordedIn(p, x)}}]

\* timeEntry.summary: the hours of a project, by whose task they were, and their cost.
Worked(p) ==
    LET of == {t \in Entries : entries[t] # None /\ entries[t].project = p} IN
    [seconds |-> SumFunction([t \in of |-> entries[t].seconds]), cost |-> SumFunction([t \in of |-> LabourOf(t)])]

-----------------------------------------------------------------------------
\* dashboard.ts
TotalBase(i) == Convert(Gross(i), invoices[i].currency, invoices[i].rate)

\* A part of a document in the base currency, in proportion.
InBase(part, gross, base) ==
    IF gross = 0 THEN 0 ELSE IF part = gross THEN base ELSE RoundDiv(base * part, gross)

\* By currency, each converted once.
InBaseOf(S, part) ==
    LET of(c) == {i \in S : invoices[i].currency = c}
        inBase(c) == InBase(SumFunction([i \in of(c) |-> part[i]]), SumFunction([i \in of(c) |-> Gross(i)]),
                            SumFunction([i \in of(c) |-> TotalBase(i)]))
    IN SumFunction([c \in Currencies |-> inBase(c)])

ExpenseBaseCost(e) ==
    LET x == expenses[e] IN
    IF reclaims \/ x.amount = 0 THEN x.base ELSE RoundDiv(x.base * (x.amount + x.tax), x.amount)

Open == {i \in Issued : invoices[i].status = "sent" /\ Due(i) > 0}

Dashboard(from, to) ==
    LET net     == [i \in Issued |-> Net(i)]
        due     == [i \in Issued |-> Due(i)]
        revenue == InBaseOf({i \in Invoices : IsRevenue(i) /\ Within(invoices[i].month, from, to)}, net)
        spent   == SumFunction([e \in {x \in Expenses : CountsAsCost(x) /\ Within(expenses[x].month, from, to)} |-> ExpenseBaseCost(e)])
        worked  == LabourIn(Base, from, to)
    IN [revenue |-> revenue, expenses |-> spent, labour |-> worked, profit |-> revenue - spent - worked,
        outstanding |-> InBaseOf(Open, due), overdue |-> InBaseOf({i \in Open : invoices[i].due < now}, due)]

-----------------------------------------------------------------------------
\* books.ts, tax-pack.ts, fiscal.ts

\* The financial year a month falls in.
FiscalYearOf(month) ==
    LET first == month - ((month - YearStart) % YearLength) IN [from |-> first, to |-> first + YearLength - 1]

Years == {FiscalYearOf(m) : m \in Months}

IncomeBase(i) == Convert(Net(i), invoices[i].currency, invoices[i].rate)

ProfitAndLoss(year) ==
    LET in(month) == Within(month, year.from, year.to)
        income    == SumFunction([i \in {j \in Invoices : IsRevenue(j) /\ in(invoices[j].month)} |-> IncomeBase(i)])
        total(t)  == SumFunction([e \in {x \in Expenses : CountsAsCost(x) /\ in(expenses[x].month) /\ expenses[x].treatment = t}
                                     |-> ExpenseBaseCost(e)])
        accounts  == income - total("deductible") - total("non_deductible")
    IN [income |-> income, capital |-> total("capital"), accounting |-> accounts, adjusted |-> accounts + total("non_deductible"),
        received |-> SumFunction([p \in {q \in payments : in(q.month)} |-> Convert(p.amount, p.currency, invoices[p.invoice].rate)])]

\* What is in the pack's files, line by line, and what it warns of.
PackFiles(year) ==
    LET in(month) == Within(month, year.from, year.to)
        issued == {i \in Invoices : IsRevenue(i) /\ in(invoices[i].month)}
        spent  == {e \in Expenses : CountsAsCost(e) /\ in(expenses[e].month)}
    IN [revenueSchedule |-> [i \in issued |-> [client |-> ClientOf[i], income |-> IncomeBase(i)]],
        expenseSchedule |-> [e \in spent |-> [treatment |-> expenses[e].treatment, cost |-> ExpenseBaseCost(e)]],
        foreign |-> (\E i \in issued : invoices[i].currency # Base) \/ (\E e \in spent : expenses[e].currency # Base),
        drafts |-> \E e \in Expenses : expenses[e] # None /\ expenses[e].status = "draft" /\ in(expenses[e].month)]

-----------------------------------------------------------------------------
InvoiceRows ==
    [status : {"sent", "paid", "cancelled"}, currency : Currencies, rate : Rates, lines : Bills, month : Months, due : Int, paid : Int]

TypeOK ==
    /\ invoices \in [Invoices -> InvoiceRows \cup {None}]
    /\ \A i \in Issued : invoices[i].paid \in 0..Gross(i) /\ invoices[i].month <= now
    /\ \A p \in payments : p.invoice \in Issued /\ p.month <= now
    /\ \A e \in Expenses : expenses[e] # None => expenses[e].amount \in Amounts /\ expenses[e].month <= now
    /\ \A t \in Entries : entries[t] # None => entries[t].project \in Projects /\ entries[t].month <= now
    /\ reclaims \in BOOLEAN /\ now \in Months

\* "so the dashboard, the revenue report, project margins, and the tax pack
\* agree": the margins of all projects come to the profit of all months, but for
\* what no project claims; and, to the unit, the dashboard and the packs say what
\* the revenue report says, where nothing is in another currency.
FiguresAgree ==
    LET unclaimed(c) == {e \in Expenses : CountsAsCost(e) /\ expenses[e].currency = c /\ expenses[e].project = None}
        clients == ClientsIn(0, LastMonth)
        one == /\ \A i \in Issued : invoices[i].currency = Base
               /\ \A e \in Expenses : expenses[e] # None => expenses[e].currency = Base
               /\ \A t \in Entries : entries[t] # None => entries[t].currency = Base
        board == Dashboard(0, LastMonth)
    IN
    /\ \A c \in Currencies :
          /\ SumFunction([r \in {x \in Portfolio : x.currency = c} |-> r.margin]) - SumFunction([e \in unclaimed(c) |-> ExpenseCost(e)])
                = Profit(c, 0, LastMonth) - (Billed(c, 0, LastMonth) - AttributedIn(c, 0, LastMonth))
          /\ SumFunction([r \in {x \in clients : x.currency = c} |-> r.billed]) = Billed(c, 0, LastMonth)
          /\ SumFunction([r \in {x \in clients : x.currency = c} |-> r.outstanding]) = Outstanding(c).all
    /\ \A p \in Projects : LET page == FinancialsFor(p, Base) IN page.others = {} => Worked(p).cost = page.own.labour
    /\ one =>
          /\ board.profit = Profit(Base, 0, LastMonth)
          /\ board.outstanding = Outstanding(Base).all /\ board.overdue = Outstanding(Base).overdue
    /\ \A y \in Years :
          LET says == ProfitAndLoss(y)
              files == PackFiles(y)
          IN /\ SumFunction([i \in DOMAIN files.revenueSchedule |-> files.revenueSchedule[i].income]) = says.income
             /\ SumFunction([e \in DOMAIN files.expenseSchedule |-> files.expenseSchedule[e].cost])
                   = says.income - says.accounting + says.capital
             /\ ~files.foreign =>
                   /\ says.income = Billed(Base, y.from, y.to)
                   /\ says.accounting - says.capital = Profit(Base, y.from, y.to) + LabourIn(Base, y.from, y.to)
             /\ one => says.received = CollectedIn(Base, y.from, y.to)

\* The projects of an invoice share what was paid on it: all of it where every
\* line has its project, "by a cent" for each project but the last.
PaymentShared ==
    \A c \in Currencies :
       LET S == {i \in Invoices : IsRevenue(i) /\ invoices[i].currency = c}
           paid == SumFunction([i \in S |-> invoices[i].paid])
           shared == SumFunction([p \in Projects |-> CollectedFor(p, c)])
           slack == Cardinality(S) * (Cardinality(Projects) - 1)
       IN (\A i \in S : Net(i) # 0 /\ LinesOf(i, None) = {}) => shared \in (paid - slack)..(paid + slack)

\* docs/development/slices/S9.md: "revenue and outstanding include it at the rate
\* recorded when it was issued", to a unit of each invoice.
OutstandingAtItsRate ==
    LET exact == SumFunction([i \in Open |-> Convert(Due(i), invoices[i].currency, invoices[i].rate)])
        n == Cardinality(Open)
    IN Dashboard(0, LastMonth).outstanding \in (exact - n)..(exact + n)
=============================================================================
