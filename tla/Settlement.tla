----------------------------- MODULE Settlement -----------------------------
(***************************************************************************)
(* Payments, refunds, and the status of the invoices they settle           *)
(* (finance/payments.ts, finance/settlement.ts, the issuing side of        *)
(* finance/invoices.ts, and the triggers of migrations 0016, 0017, 0033).  *)
(*                                                                         *)
(* A request runs in one transaction.  Most take their row locks before    *)
(* they read anything they rely on, so each is one atomic action here.     *)
(* Two do not: payment.delete and payment.unallocate read the allocations  *)
(* first and lock afterwards.  Those are carried by a clerk: one step for  *)
(* the early read, one for the locks, one for the commit.                  *)
(*                                                                         *)
(* Data: amounts are small integers, days are 0..LastDay, one currency and *)
(* one client.  Lines, taxes and numbers of an invoice are left out: a     *)
(* draft has no content here and gets its total when it is issued.         *)
(***************************************************************************)
EXTENDS Integers, FiniteSets, Functions

CONSTANTS
    Invoices,
    Payments,        \* identities of payments and refunds
    Clerks,          \* requests of the two kinds that read before they lock
    Totals,          \* what an issued invoice may ask for
    MaxAmount,       \* bound on the amount of one payment
    LastDay,         \* bound on the clock
    NoDate, NoPayment, Nobody

VARIABLES
    invoice,   \* the invoices table
    payment,   \* the payments table, each row with its allocations
    clerk,     \* transactions of payment.delete and payment.unallocate under way
    today,
    missed     \* history: invoices whose payment was deleted without settling them

vars == <<invoice, payment, clerk, today, missed>>

Statuses == {"draft", "sent", "viewed", "partially_paid", "paid", "overdue", "refunded", "cancelled"}
Kinds    == {"payment", "refund"}
Days     == 0 .. LastDay
Amounts  == 0 .. MaxAmount

InvoiceRows == [status : Statuses, total : Totals \cup {0}, due : Days \cup {NoDate},
                viewed : BOOLEAN, paidAt : BOOLEAN, paid : Int]
PaymentRows == [kind : Kinds, amount : Amounts, put : [Invoices -> Amounts]]

\* A clerk knows the payment it was asked about, the invoices its early read
\* named, whether the allocation it read is still there, its own date, the
\* invoices it has locked, and the invoice rows it has read without a lock.
Idle == [step |-> "idle", op |-> "delete", pay |-> Nobody, list |-> {}, live |-> FALSE,
         day |-> 0, held |-> {}, seen |-> <<>>]

Blank == [status |-> "draft", total |-> 0, due |-> NoDate, viewed |-> FALSE, paidAt |-> FALSE, paid |-> 0]

Init ==
    /\ invoice = [i \in Invoices |-> Blank]
    /\ payment = [p \in Payments |-> NoPayment]
    /\ clerk = [c \in Clerks |-> Idle]
    /\ today = 0
    /\ missed = {}

-----------------------------------------------------------------------------
\* Sums over the allocations

Recorded(pays) == {p \in Payments : pays[p] # NoPayment}

Put(pays, p, i) == IF pays[p] = NoPayment THEN 0 ELSE pays[p].put[i]

\* payment_allocations joined to payments, summed for one invoice and kind.
Given(pays, kind, i) ==
    SumFunctionOnSet([p \in Payments |-> Put(pays, p, i)],
                     {p \in Recorded(pays) : pays[p].kind = kind})

\* workloom_settle_invoice: a refund's allocations subtract.
Net(pays, i) == Given(pays, "payment", i) - Given(pays, "refund", i)

\* loadAllocations, summed: what of one payment is already put somewhere.
Allocated(pay) == SumFunction(pay.put)

-----------------------------------------------------------------------------
\* settlement.ts

Late(row, day) == row.due # NoDate /\ row.due < day

SettlementStatus(row, refunded, day) ==
    CASE refunded > 0 /\ row.paid <= 0  -> "refunded"
      [] row.total - row.paid <= 0      -> "paid"
      [] Late(row, day)                 -> "overdue"
      [] row.paid > 0                   -> "partially_paid"
      [] row.viewed                     -> "viewed"
      [] OTHER                          -> "sent"

\* mutation: the date is kept through any change
PaidAtSticks(status, existing) == status = "paid" \/ existing

PaidAt(status, existing) == status = "paid" \/ (status = "refunded" /\ existing)

\* settleInvoice: nothing to do for a draft, and a cancelled invoice is closed.
Settled(row, refunded, day) ==
    IF row.status \in {"draft", "cancelled"} THEN row
    ELSE LET status == SettlementStatus(row, refunded, day)
         IN  [row EXCEPT !.status = status, !.paidAt = PaidAt(status, @)]

\* mutation: the trigger sums without refusing
TriggerSilent(pays, touched) == TRUE

\* The refusals of the allocation trigger, for the invoices a change touches.
TriggerAllows(pays, touched) == \A i \in touched : Net(pays, i) \in 0 .. invoice[i].total

\* The allocation trigger has set amount_paid on the touched invoices; the
\* handler then settles the ones it knows of.
AfterAllocating(pays, touched, settled, day) ==
    [i \in Invoices |->
        LET row == IF i \in touched THEN [invoice[i] EXCEPT !.paid = Net(pays, i)] ELSE invoice[i]
        IN  IF i \in settled THEN Settled(row, Given(pays, "refund", i), day) ELSE row]

-----------------------------------------------------------------------------
\* Locks held across steps.  A clerk past its "read" step owns its payment row
\* and the invoices it took; everyone else waits for its commit.

LockedInvoices == UNION {clerk[c].held : c \in Clerks}
PaymentFree(p) == \A c \in Clerks : ~(clerk[c].step = "locked" /\ clerk[c].pay = p)

-----------------------------------------------------------------------------
\* The issuing side: invoices.ts

\* invoice.send.  No settlement runs: an invoice for nothing reads "sent".
Send(i, total, due) ==
    /\ invoice[i].status = "draft"
    /\ invoice' = [invoice EXCEPT ![i] = [@ EXCEPT !.status = "sent", !.total = total, !.due = due]]
    /\ UNCHANGED <<payment, clerk, today, missed>>

RecordInvoiceView(i) ==
    /\ i \notin LockedInvoices
    /\ invoice[i].status = "sent" /\ ~invoice[i].viewed
    /\ invoice' = [invoice EXCEPT ![i] = [@ EXCEPT !.status = "viewed", !.viewed = TRUE]]
    /\ UNCHANGED <<payment, clerk, today, missed>>

\* invoice.setDueDate.  The status is not settled again.
SetDueDate(i, due) ==
    /\ i \notin LockedInvoices
    /\ invoice[i].status \notin {"draft", "cancelled"}
    /\ invoice[i].due = NoDate
    /\ invoice' = [invoice EXCEPT ![i].due = due]
    /\ UNCHANGED <<payment, clerk, today, missed>>

Cancel(i) ==
    /\ i \notin LockedInvoices
    /\ invoice[i].status \notin {"draft", "cancelled"}
    /\ invoice[i].paid <= 0
    /\ invoice' = [invoice EXCEPT ![i].status = "cancelled"]
    /\ UNCHANGED <<payment, clerk, today, missed>>

-----------------------------------------------------------------------------
\* Payments: payments.ts

\* What an allocation may take: what is owed, or for a refund what was paid.
Room(kind, i) == IF kind = "refund" THEN invoice[i].paid ELSE invoice[i].total - invoice[i].paid

\* allocate(): only a draft is refused.
MayPut(kind, i, amount) == invoice[i].status # "draft" /\ amount <= Room(kind, i)

\* payment.record with the allocations it was sent with; 0 is no allocation.
PaymentRecord(p, kind, amount, put) ==
    LET target == {i \in Invoices : put[i] > 0}
        row    == [kind |-> kind, amount |-> amount, put |-> put]
        pays   == [payment EXCEPT ![p] = row]
    IN  /\ payment[p] = NoPayment /\ \A c \in Clerks : clerk[c].pay # p
        /\ target \cap LockedInvoices = {}
        /\ Allocated(row) <= amount
        /\ \A i \in target : MayPut(kind, i, put[i])
        /\ TriggerAllows(pays, target)
        /\ payment' = pays
        /\ invoice' = AfterAllocating(pays, target, target, today)
        /\ missed' = missed \ target
        /\ UNCHANGED <<clerk, today>>

\* mutation: a corrected amount is not compared with its allocations
AnyAmount(pay, amount) == TRUE

\* workloom_check_payment_allocated, on a corrected amount.
AmountCovers(pay, amount) == Allocated(pay) <= amount

\* payment.update of the amount.  No invoice is settled again.
PaymentUpdate(p, amount) ==
    /\ payment[p] # NoPayment /\ PaymentFree(p)
    /\ AmountCovers(payment[p], amount)
    /\ payment' = [payment EXCEPT ![p].amount = amount]
    /\ UNCHANGED <<invoice, clerk, today, missed>>

PaymentAllocate(p, i, amount) ==
    LET pays == [payment EXCEPT ![p].put[i] = amount]
    IN  /\ payment[p] # NoPayment /\ PaymentFree(p)
        /\ i \notin LockedInvoices
        /\ payment[p].put[i] = 0
        /\ amount <= payment[p].amount - Allocated(payment[p])
        /\ MayPut(payment[p].kind, i, amount)
        /\ TriggerAllows(pays, {i})
        /\ payment' = pays
        /\ invoice' = AfterAllocating(pays, {i}, {i}, today)
        /\ missed' = missed \ {i}
        /\ UNCHANGED <<clerk, today>>

\* The early reads: getPayment in payment.delete, the allocation in
\* payment.unallocate.  The transaction's date is fixed when it begins.
ReadForDelete(c, p) ==
    /\ clerk[c].step = "idle" /\ payment[p] # NoPayment
    /\ clerk' = [clerk EXCEPT ![c] =
          [Idle EXCEPT !.step = "read", !.op = "delete", !.pay = p, !.day = today,
                       !.list = {i \in Invoices : payment[p].put[i] > 0}]]
    /\ UNCHANGED <<invoice, payment, today, missed>>

ReadForUnallocate(c, p, i) ==
    /\ clerk[c].step = "idle" /\ Put(payment, p, i) > 0
    /\ clerk' = [clerk EXCEPT ![c] =
          [Idle EXCEPT !.step = "read", !.op = "unallocate", !.pay = p, !.day = today, !.list = {i}, !.live = TRUE]]
    /\ UNCHANGED <<invoice, payment, today, missed>>

\* The payment turned out to be gone when its lock was granted.
NotFound(c) ==
    /\ clerk[c].step = "read" /\ payment[clerk[c].pay] = NoPayment
    /\ clerk' = [clerk EXCEPT ![c] = Idle]
    /\ UNCHANGED <<invoice, payment, today, missed>>

\* payment.delete: the payment row is locked and deleted, and the trigger locks
\* every invoice it is put against now.  An invoice that is on the list read
\* early and no longer among those is read by settleInvoice without a lock.
LockForDelete(c) ==
    LET p    == clerk[c].pay
        held == {i \in Invoices : payment[p].put[i] > 0}
        resettled(i) == Settled(invoice[i], Given(payment, "refund", i), clerk[c].day)
        stale == {i \in clerk[c].list \ held : resettled(i) # invoice[i]}
    IN  /\ clerk[c].step = "read" /\ clerk[c].op = "delete"
        /\ payment[p] # NoPayment /\ PaymentFree(p)
        /\ held \cap LockedInvoices = {}
        /\ clerk' = [clerk EXCEPT ![c] = [@ EXCEPT !.step = "locked", !.held = held,
                                                 !.seen = [i \in stale |-> resettled(i)]]]
        /\ UNCHANGED <<invoice, payment, today, missed>>

\* mutation: the cascade is trusted to settle the invoices
DeleteSettlesNone(c) == {}

\* The invoices payment.delete settles: those of its early read that the
\* cascade has touched.
DeleteSettles(c) == clerk[c].list \cap clerk[c].held

\* mutation: the table has no such CHECK
NoCancelledCheck(i) == TRUE

\* The CHECK invoices_cancelled_check: an invoice is "cancelled" exactly when it
\* has a cancellation date, so a status written over one is refused.
CancelledCheck(i) == invoice[i].status # "cancelled"

\* The commit of payment.delete.  A refusal of the trigger or of the CHECK
\* rolls everything back.
CommitDelete(c) ==
    LET pays  == [payment EXCEPT ![clerk[c].pay] = NoPayment]
        seen  == clerk[c].seen
        stale == DOMAIN seen
        after == AfterAllocating(pays, clerk[c].held, DeleteSettles(c), clerk[c].day)
    IN  /\ clerk[c].step = "locked"
        /\ \A d \in Clerks \ {c} : stale \cap clerk[d].held = {}
        /\ IF TriggerAllows(pays, clerk[c].held) /\ \A i \in stale : CancelledCheck(i)
           THEN /\ payment' = pays
                /\ invoice' = [i \in Invoices |->
                        IF i \in stale THEN [after[i] EXCEPT !.status = seen[i].status, !.paidAt = seen[i].paidAt]
                        ELSE after[i]]
                /\ missed' = (missed \ clerk[c].held) \cup (clerk[c].held \ clerk[c].list) \cup stale
           ELSE UNCHANGED <<payment, invoice, missed>>
        /\ clerk' = [clerk EXCEPT ![c] = Idle]
        /\ UNCHANGED today

\* payment.unallocate from its locks to its commit.  The allocation is deleted
\* by its id: one that was taken off meanwhile leaves nothing to delete, and
\* the invoice is settled all the same.
CommitUnallocate(c) ==
    LET p    == clerk[c].pay
        gone == IF clerk[c].live THEN clerk[c].list ELSE {}
        pays == [payment EXCEPT ![p].put = [i \in Invoices |-> IF i \in gone THEN 0 ELSE @[i]]]
    IN  /\ clerk[c].step = "read" /\ clerk[c].op = "unallocate"
        /\ payment[p] # NoPayment /\ PaymentFree(p)
        /\ clerk[c].list \cap LockedInvoices = {}
        /\ IF TriggerAllows(pays, gone)
           THEN /\ payment' = pays
                /\ invoice' = AfterAllocating(pays, gone, clerk[c].list, clerk[c].day)
                /\ missed' = missed \ clerk[c].list
                /\ clerk' = [d \in Clerks |->
                        IF d = c THEN Idle
                        ELSE IF clerk[d].op = "unallocate" /\ clerk[d].pay = p /\ clerk[d].list = clerk[c].list
                             THEN [clerk[d] EXCEPT !.live = @ /\ gone = {}]
                             ELSE clerk[d]]
           ELSE /\ clerk' = [clerk EXCEPT ![c] = Idle]
                /\ UNCHANGED <<payment, invoice, missed>>
        /\ UNCHANGED today

-----------------------------------------------------------------------------
\* The passing of time

\* markOverdueInvoices: one transaction, FOR UPDATE SKIP LOCKED.
DueForSweep == {i \in Invoices \ LockedInvoices :
                    invoice[i].status \in {"sent", "viewed", "partially_paid"} /\ Late(invoice[i], today)}

MarkOverdueInvoices ==
    /\ DueForSweep # {}
    /\ invoice' = AfterAllocating(payment, {}, DueForSweep, today)
    /\ missed' = missed \ DueForSweep
    /\ UNCHANGED <<payment, clerk, today>>

Tick ==
    /\ today < LastDay
    /\ today' = today + 1
    /\ UNCHANGED <<invoice, payment, clerk, missed>>

-----------------------------------------------------------------------------
Issuing ==
    \E i \in Invoices :
        \/ \E total \in Totals, due \in Days \cup {NoDate} : Send(i, total, due)
        \/ RecordInvoiceView(i)
        \/ \E due \in Days : SetDueDate(i, due)
        \/ Cancel(i)

Paying ==
    \E p \in Payments, amount \in Amounts \ {0} :
        \/ \E kind \in Kinds, put \in [Invoices -> Amounts] : PaymentRecord(p, kind, amount, put)
        \/ PaymentUpdate(p, amount)
        \/ \E i \in Invoices : PaymentAllocate(p, i, amount)

Finish(c) == NotFound(c) \/ LockForDelete(c) \/ CommitDelete(c) \/ CommitUnallocate(c)

Correcting ==
    \E c \in Clerks :
        \/ \E p \in Payments : ReadForDelete(c, p)
        \/ \E p \in Payments, i \in Invoices : ReadForUnallocate(c, p, i)
        \/ Finish(c)

Next == Issuing \/ Paying \/ Correcting \/ MarkOverdueInvoices \/ Tick

Spec == Init /\ [][Next]_vars

-----------------------------------------------------------------------------
(* Properties *)

\* TypeOK: every row has the shape of its table, and the balance the trigger
\* maintains never leaves 0..total (workloom_settle_invoice).
TypeOK ==
    /\ invoice \in [Invoices -> InvoiceRows]
    /\ payment \in [Payments -> PaymentRows \cup {NoPayment}]
    /\ today \in Days /\ missed \subseteq Invoices
    /\ \A c \in Clerks :
        /\ clerk[c].step \in {"idle", "read", "locked"} /\ clerk[c].op \in {"delete", "unallocate"}
        /\ clerk[c].pay \in Payments \cup {Nobody} /\ clerk[c].live \in BOOLEAN
        /\ clerk[c].list \subseteq Invoices /\ clerk[c].held \subseteq Invoices
        /\ clerk[c].day \in Days /\ DOMAIN clerk[c].seen \subseteq Invoices
    /\ \A i \in Invoices : invoice[i].paid \in 0 .. invoice[i].total

\* LedgerBalances: what an invoice says it was paid is the sum of its
\* allocations, payments less refunds, and no payment is put further than its
\* amount (assertLedger in payments.test.ts), whatever requests interleave.
LedgerBalances ==
    /\ \A i \in Invoices : invoice[i].paid = Net(payment, i)
    /\ \A p \in Recorded(payment) : Allocated(payment[p]) <= payment[p].amount

StatusMatches(i) ==
    invoice[i].status \notin {"draft", "cancelled"} /\ invoice[i].total > 0 =>
        \E day \in 0 .. today :
            invoice[i].status = SettlementStatus(invoice[i], Given(payment, "refund", i), day)

\* StatusInLine: an issued invoice that asks for something reads as its balance
\* says on some day up to today: a status is never that of another balance, only
\* of an earlier date the sweep has still to catch up with (settlement.ts: the
\* payment and the sweep "must never disagree").  The one exception is an invoice
\* that payment.delete missed (see DeletionSettles), until it is settled again.
StatusInLine == \A i \in Invoices \ missed : StatusMatches(i)

\* DeletionSettles: the deletion of a payment leaves no invoice with the status of
\* money that is gone (payment.delete: "The invoices it settled go back to owing").
DeletionSettles == \A i \in missed : StatusMatches(i)

\* PaidAtFollows: a paid invoice has its payment date, and only one that is
\* paid, refunded or cancelled keeps one (paidAt; invoices_paid_check of 0017).
PaidAtFollows ==
    \A i \in Invoices :
        /\ invoice[i].status = "paid" => invoice[i].paidAt
        /\ invoice[i].paidAt => invoice[i].status \in {"paid", "refunded", "cancelled"}

\* CancelledIsClosed: an invoice that was cancelled stays cancelled, and an
\* issued one never becomes a draft again, even when a delete still means to
\* settle an invoice it read before the cancellation (settleInvoice writes by id).
CancelledIsClosed ==
    [][\A i \in Invoices :
        /\ invoice[i].status = "cancelled" => invoice'[i].status = "cancelled"
        /\ invoice[i].status # "draft" => invoice'[i].status # "draft"]_vars
=============================================================================
