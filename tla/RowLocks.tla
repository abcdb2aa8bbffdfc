------------------------------ MODULE RowLocks ------------------------------
(***************************************************************************)
(* The row locks the finance procedures take, and in what order.           *)
(*                                                                         *)
(* Every procedure runs in one transaction and keeps each lock to its end. *)
(* A transaction is the sequence of rows it has still to lock: payment     *)
(* rows, invoice rows, the draft being issued, the row that counts invoice *)
(* numbers.  What the transaction does with them is Settlement's business. *)
(*                                                                         *)
(* Requests are taken to name issued invoices only.  The order in which a  *)
(* cascade or a trigger's loop reaches its rows is the database's choice.  *)
(***************************************************************************)
EXTENDS Integers, Sequences, FiniteSets

CONSTANTS
    Txs,
    LastInvoice, \* the greatest id: the integers stand for ids, for their order
    Invoices,    \* issued invoices
    Payments,
    Drafts,
    Ascending    \* do all transactions visit their invoices in ascending order of id?

ASSUME RowLocksAssumption ==
    LastInvoice \in Nat /\ Invoices \subseteq 1 .. LastInvoice /\ Ascending \in BOOLEAN

VARIABLES plan, held
vars == <<plan, held>>

InvoiceRow(i) == <<"invoice", i>>
PaymentRow(p) == <<"payment", p>>
DraftRow(d)   == <<"draft", d>>
CounterRow    == <<"counter">>

Rows == {InvoiceRow(i) : i \in Invoices} \cup {PaymentRow(p) : p \in Payments}
            \cup {DraftRow(d) : d \in Drafts} \cup {CounterRow}

\* The orders in which the rows of a set of invoices may be visited.
Visits(S) == {s \in [1 .. Cardinality(S) -> S] : \A a, b \in DOMAIN s : a # b => s[a] # s[b]}
InOrder(s) == \A a, b \in DOMAIN s : a < b => s[a] < s[b]
Sorted(S) == {s \in Visits(S) : InOrder(s)}

\* mutation: the order of the request
Unsorted(S) == Visits(S)

\* allocate() locks in the order of the request, a cascade in that of the scan.
Orders(S) == IF Ascending THEN Sorted(S) ELSE Visits(S)

InvoiceRowsOf(s) == [k \in DOMAIN s |-> InvoiceRow(s[k])]

\* payment.record: the invoices of its allocations; the new payment is nobody else's.
RecordPlans == UNION {{InvoiceRowsOf(s) : s \in Orders(S)} : S \in (SUBSET Invoices) \ {{}}}

\* payment.delete and payment.update of an amount: the payment, then every
\* invoice it is put against, by the cascade or by workloom_payment_guard.
CorrectPlans == {<<PaymentRow(p)>> \o r : p \in Payments, r \in RecordPlans \cup {<<>>}}

\* payment.allocate and payment.unallocate.
AllocatePlans == {<<PaymentRow(p), InvoiceRow(i)>> : p \in Payments, i \in Invoices}

\* invoice.cancel, invoice.setDueDate, recordInvoiceView.
InvoicePlans == {<<InvoiceRow(i)>> : i \in Invoices}

\* invoice.send: the draft, the invoices it takes off in sorted order
\* (settleDeductions), and the counter (lockScope).
SendPlans ==
    UNION {{<<DraftRow(d)>> \o InvoiceRowsOf(s) \o <<CounterRow>> : s \in Sorted(S)} :
              d \in Drafts, S \in SUBSET Invoices}

Plans == RecordPlans \cup CorrectPlans \cup AllocatePlans \cup InvoicePlans \cup SendPlans

Init == plan = [t \in Txs |-> <<>>] /\ held = [t \in Txs |-> {}]

Resting(t) == plan[t] = <<>> /\ held[t] = {}
Taken      == UNION {held[t] : t \in Txs}

Begin(t) ==
    /\ Resting(t)
    /\ \E p \in Plans : plan' = [plan EXCEPT ![t] = p]
    /\ UNCHANGED held

\* SELECT ... FOR UPDATE: waits while another transaction holds the row.
Lock(t) ==
    /\ plan[t] # <<>>
    /\ \A u \in Txs \ {t} : Head(plan[t]) \notin held[u]
    /\ held' = [held EXCEPT ![t] = @ \cup {Head(plan[t])}]
    /\ plan' = [plan EXCEPT ![t] = Tail(@)]

InvoiceRows == {InvoiceRow(i) : i \in Invoices}

\* mutation: the sweep neither locks nor skips what it reads
ReadUnlocked == InvoiceRows

\* FOR UPDATE SKIP LOCKED: what is free.
SkipLocked == InvoiceRows \ Taken

\* markOverdueInvoices waits for nothing.
SweepLock(t) ==
    /\ Resting(t)
    /\ \E S \in SUBSET SkipLocked : S # {} /\ held' = [held EXCEPT ![t] = S]
    /\ UNCHANGED plan

\* The transaction commits, or a refusal rolls it back before it has every lock.
End(t) ==
    /\ held[t] # {}
    /\ held' = [held EXCEPT ![t] = {}]
    /\ plan' = [plan EXCEPT ![t] = <<>>]

Next == \E t \in Txs : Begin(t) \/ Lock(t) \/ SweepLock(t) \/ End(t)

Spec == Init /\ [][Next]_vars

-----------------------------------------------------------------------------
\* TypeOK: a transaction waits for and holds rows of the database, and no two
\* hold the same row.
TypeOK ==
    /\ plan \in [Txs -> Seq(Rows)] /\ held \in [Txs -> SUBSET Rows]
    /\ \A t, u \in Txs : t # u => held[t] \cap held[u] = {}

WaitsFor(t, u) == plan[t] # <<>> /\ t # u /\ Head(plan[t]) \in held[u]

\* NeverDeadlocked: no group of transactions ever waits for one another, each
\* for a row another of the group holds (settleAll: "two payments landing on the
\* same pair of invoices at the same moment would otherwise lock them in opposite
\* orders and deadlock").
NeverDeadlocked ==
    \A D \in (SUBSET Txs) \ {{}} : \E t \in D : \A u \in D : ~WaitsFor(t, u)
=============================================================================
