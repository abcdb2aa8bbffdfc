------------------------------ MODULE MCInvoices ------------------------------
\* Small instances of InvoiceIssuing, Settlement, BillingPlan and Reports for TLC.
\* Each has the tables of invoices as far as it needs them, so they are explored
\* side by side: a behaviour is one of the parts'.
EXTENDS InvoiceIssuing, TLC

CONSTANTS
    None, Documents, Payments, Totals, MaxAmount, LastDay, NoDate, NoPayment, Nobody,
    Stages, Prices, Changes, Terms, Edits,
    Raised, ClientOf, Spent, Logged, Works, Currencies, Base, Bills, Outlays, ExchangeRates, RateOne,
    Seconds, Hour, LastMonth, YearLength, YearStart, MaxDocuments,
    b1, b2, k1, k2

VARIABLES
    part,
    invoice, payment, clerk, settlementToday, missed,
    price, revisions, plan, stage, planTx,
    invoices, payments, expenses, entries, reclaims, now

St == INSTANCE Settlement WITH Invoices <- Documents, Clerks <- Txs, today <- settlementToday
Bp == INSTANCE BillingPlan WITH Revisions <- Payments, Requests <- Txs, tx <- planTx
Rp == INSTANCE Reports WITH
    Invoices <- Raised, Expenses <- Spent, Entries <- Logged, Projects <- Works, Amounts <- Outlays, Rates <- ExchangeRates

\* Tables are finite, amounts are whole numbers and totals no less than nothing,
\* and what is missing is no amount and no payment.
ASSUME InvoicesAssumption ==
    /\ IsFiniteSet(Documents) /\ IsFiniteSet(Payments) /\ IsFiniteSet(Stages)
    /\ Totals \subseteq Nat /\ MaxAmount \in Nat /\ LastDay \in Nat
    /\ NoPayment \notin St!PaymentRows
    /\ Prices \subseteq Int /\ Changes \subseteq Int /\ Edits \subseteq Int
    /\ Terms \subseteq [basis : Bp!Bases, worth : Int]
    /\ None \notin Int

\* What is reported on is finite, amounts and times are whole numbers and an expense
\* is no less than one.  An invoice, its credits counted, comes to no less than
\* nothing, and to nothing only if nothing is charged.
ASSUME ReportsAssumption ==
    /\ IsFiniteSet(Raised) /\ IsFiniteSet(Spent) /\ IsFiniteSet(Logged) /\ IsFiniteSet(Works) /\ IsFiniteSet(Currencies)
    /\ Base \in Currencies /\ None \notin Works \cup Rp!InvoiceRows
    /\ Outlays \subseteq Nat \ {0} /\ ExchangeRates \subseteq Nat \ {0} /\ RateOne \in Nat \ {0}
    /\ Seconds \subseteq Nat /\ Hour \in Nat \ {0} /\ LastMonth \in Nat
    /\ \A b \in Bills :
          /\ IsFiniteSet(DOMAIN b)
          /\ \A k \in DOMAIN b : b[k] \in [net : Int, tax : Int, project : Works \cup {None}]
          /\ Rp!NetOfLines(b) >= 0 /\ Rp!NetOfLines(b) + Rp!TaxOfLines(b) >= 0
          /\ Rp!NetOfLines(b) + Rp!TaxOfLines(b) = 0 => Rp!NetOfLines(b) = 0

settlementVars ==
    <<invoice, payment, clerk, settlementToday, missed>>
planVars ==
    <<price, revisions, plan, stage, planTx>>
reportsVars ==
    <<invoices, payments, expenses, entries, reclaims, now>>
allVars == <<part, vars, settlementVars, planVars, reportsVars>>

\* A part that is not explored stays as it begins, or is left blank.
NoSettlement ==
    /\ invoice = [d \in Documents |-> [status |-> None]] /\ payment = None /\ clerk = None /\ settlementToday = None /\ missed = None
NoReports ==
    /\ invoices = None /\ payments = None /\ expenses = None /\ entries = None /\ reclaims = None
    /\ now = None

AllInit ==
    \/ part = "issuing" /\ Init /\ NoSettlement /\ Bp!Init /\ price = None /\ NoReports
    \/ part = "settlement" /\ St!Init /\ Init /\ Bp!Init /\ price = None /\ NoReports
    \/ part = "plan" /\ Bp!Init /\ Init /\ NoSettlement /\ NoReports
    \/ part = "reports" /\ Rp!Init /\ Init /\ NoSettlement /\ Bp!Init /\ price = None

IssuingNext ==
    part = "issuing" /\ Next /\ UNCHANGED <<part, settlementVars, planVars, reportsVars>>
SettlementNext ==
    part = "settlement" /\ St!Next /\ UNCHANGED <<part, vars, planVars, reportsVars>>
PlanNext ==
    part = "plan" /\ Bp!Next /\ UNCHANGED <<part, vars, settlementVars, reportsVars>>
ReportsNext ==
    part = "reports" /\ Rp!Next /\ UNCHANGED <<part, vars, settlementVars, planVars>>

AllNext == IssuingNext \/ SettlementNext \/ PlanNext \/ ReportsNext
AllSpec == AllInit /\ [][AllNext]_allVars

\* Three days of a financial year that begins in April: June 2025, January 2026
\* (the same financial year) and June 2026.
Years       == <<2025, 2026, 2026>>
FiscalYears == <<2025, 2025, 2026>>

FiscalYearly == [reset |-> "fiscal_yearly", prints |-> {"fy"}]
NoOther      == {}

\* Stages of a share, a fixed amount and the balance; a price whose half is rounded.
MixedTerms ==
    {[basis |-> "percent", worth |-> 50], [basis |-> "amount", worth |-> 2], [basis |-> "balance", worth |-> 0]}
Descopes == {-2, 1}

\* Bounds: two revisions at a time take off, and only one by itself adds.
OneGrows ==
    \A r, s \in Payments :
        r # s /\ revisions[r].status # "none" /\ revisions[r].amount > 0 => revisions[s].status = "none"

\* What two invoices may be made of: lines of either project or none, one taking off.
Line(net, tax, of) == [net |-> net, tax |-> tax, project |-> of]
SomeBills == {<<Line(2, 0, b1)>>, <<Line(3, 1, b1), Line(2, 0, b2)>>, <<Line(4, 1, None), Line(-1, 0, b2)>>}
SomeClients == 1 :> k1 @@ 2 :> k2

Alike == Permutations(Txs) \cup Permutations(Payments)

Bounded ==
    /\ part = "plan" => OneGrows

\* settlement: what an invoice says was paid is what is allocated to it, no more than
\* it or the payment comes to; its status and the day it was paid follow.
PaymentsSettle == part = "settlement" => St!TypeOK /\ St!LedgerBalances /\ St!StatusInLine /\ St!PaidAtFollows

\* plan: a stage is billed at the terms it has, and a plan that is billed to the end
\* comes to the contract.
BilledAsAgreed == part = "plan" => Bp!TypeOK /\ Bp!ReleasedAsAgreed /\ Bp!PlanAddsUp

\* settlement: nothing lands on a cancelled invoice.
\* plan: no more is billed than was contracted, a statement closes the contract, and
\* a revision is accepted on the contract as it is.
ContractHonoured ==
    /\ St!CancelledIsClosed
    /\ Bp!NeverOverbilled
    /\ Bp!StatementClosesContract
    /\ Bp!AcceptedOnTheContract

\* reports: what two reports say of the same money is the same, and what was paid is
\* shared among the projects it was for.
ReportsAgree == part = "reports" => Rp!TypeOK /\ Rp!FiguresAgree /\ Rp!PaymentShared
=============================================================================
