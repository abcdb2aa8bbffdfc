--------------------------- MODULE Correspondence ---------------------------
(***************************************************************************)
(* What a client gets to see of an invoice or a quote: the mail that sends *)
(* it (emailDocument, emailQuote, transport.ts), the page behind the link  *)
(* of an invoice (openInvoiceLink), and the PDF (renderInvoicePdf,         *)
(* renderQuotePdf), while it is issued, paid, viewed and cancelled.        *)
(*                                                                         *)
(* A request is one transaction: it reads the document, with a lock or     *)
(* without, writes, commits or rolls back, and only then hands over the    *)
(* mail it built before, which may be lost.  What is written is seen by    *)
(* others when it commits.                                                 *)
(*                                                                         *)
(* Data: a document is its number, its total and what was paid; payment    *)
(* terms, addresses, and what a quote is answered are left out.            *)
(***************************************************************************)
EXTENDS Integers, FiniteSets

CONSTANTS
    Invoices, Quotes,
    Requests,           \* transactions under way at once
    Totals,             \* what a draft may come to
    None

VARIABLES
    document,           \* rows, as committed
    issued,             \* numbers given out, by kind
    request,
    seen,               \* what clients have been shown, of a document and its number
    mailed,             \* what was due, in the mail that was delivered last
    views               \* how often invoice.viewed was emitted

vars == <<document, issued, request, seen, mailed, views>>

Documents == Invoices \cup Quotes
KindOf(d) == IF d \in Invoices THEN "invoice" ELSE "quote"
Idle      == [op |-> "idle"]

Due(row) == row.total - row.paid
Active(r) == request[r] # Idle
Running(r) == Active(r) /\ request[r].step # "committed"

\* mutation: documents are read without a lock
ReadUnlocked(d) == d \in Documents

\* FOR UPDATE is granted when no running transaction holds the row.
LockFree(d) == ~\E r \in Requests : Running(r) /\ request[r].doc = d /\ request[r].holds

Init ==
    /\ document \in [Documents -> [status : {"draft"}, number : {0}, total : Totals, paid : {0}, viewed : {FALSE}, emailed : {FALSE}]]
    /\ issued = [kind \in {"invoice", "quote"} |-> 0]
    /\ request = [r \in Requests |-> Idle]
    /\ seen = {} /\ mailed = None /\ views = [d \in Invoices |-> 0]

-----------------------------------------------------------------------------
Starts(r, op, d, holds, mail) ==
    /\ ~Active(r)
    /\ request' = [request EXCEPT ![r] =
          [op |-> op, doc |-> d, step |-> "read", holds |-> holds, row |-> document[d], mail |-> mail, dues |-> {Due(document[d])}]]
    /\ UNCHANGED <<document, issued, seen, mailed, views>>

\* invoice.send, quote.send; the client is mailed when that is asked for.
Send(r, d, mail) ==
    /\ document[d].status = "draft" /\ LockFree(d)
    /\ Starts(r, "send", d, TRUE, mail)

\* invoice.email, quote.email: read without a lock, whatever became of it.
Email(r, d) ==
    /\ document[d].status # "draft"
    /\ Starts(r, "email", d, FALSE, TRUE)

\* mutation: the view is recorded from a row that was read without a lock
ViewUnlocked(r, d) ==
    /\ d \in Invoices /\ document[d].status # "draft"
    /\ Starts(r, "view", d, FALSE, FALSE)

\* recordInvoiceView, behind the client's link.
View(r, d) ==
    /\ d \in Invoices /\ document[d].status # "draft" /\ LockFree(d)
    /\ Starts(r, "view", d, TRUE, FALSE)

\* mutation: the mail states the total
MailOfTotal(row) == [number |-> row.number, total |-> row.total, due |-> row.total]

\* documentEmailPayload: built inside the transaction.
Mail(row) == [number |-> row.number, total |-> row.total, due |-> Due(row)]

\* issueNumber locks the counter of the kind until the end of the transaction.
CounterFree(r, kind) ==
    ~\E q \in Requests \ {r} : /\ Running(q) /\ request[q].op = "send" /\ request[q].step = "written"
                               /\ KindOf(request[q].doc) = kind

\* The row as the transaction will leave it, from what it read.
Written(q) ==
    CASE q.op = "send"  -> [q.row EXCEPT !.status = "sent", !.number = issued[KindOf(q.doc)] + 1, !.emailed = q.mail /\ q.doc \in Invoices]
      [] q.op = "view"  -> IF q.row.status = "sent" /\ ~q.row.viewed THEN [q.row EXCEPT !.status = "viewed", !.viewed = TRUE] ELSE q.row
      [] q.op = "email" -> [q.row EXCEPT !.emailed = q.doc \in Invoices]

\* An invoice that is mailed again is marked so, which waits for whoever holds it.
Write(r) ==
    LET q == request[r]
        marks == q.op = "email" /\ q.doc \in Invoices
    IN
    /\ Running(r) /\ q.step = "read"
    /\ q.op = "send" => CounterFree(r, KindOf(q.doc))
    /\ marks => LockFree(q.doc)
    /\ request' = [request EXCEPT ![r] = [q EXCEPT !.step = "written", !.holds = q.holds \/ marks, !.row = Written(q)]]
    /\ UNCHANGED <<document, issued, seen, mailed, views>>

Shown(q) == IF q.op = "view" THEN {[doc |-> q.doc, number |-> q.row.number, total |-> q.row.total]} ELSE {}

\* invoice.email writes one column; the others write the row they locked.
Commit(r) ==
    LET q == request[r]  d == q.doc
        first == q.op = "view" /\ q.row.viewed /\ q.row # document[d]
    IN
    /\ Running(r) /\ q.step = "written"
    /\ document' = [document EXCEPT ![d] = IF q.op = "email" THEN [@ EXCEPT !.emailed = q.row.emailed] ELSE q.row]
    /\ issued' = IF q.op = "send" THEN [issued EXCEPT ![KindOf(d)] = q.row.number] ELSE issued
    /\ views' = IF first THEN [views EXCEPT ![d] = @ + 1] ELSE views
    /\ seen' = seen \cup Shown(q)
    /\ request' = [request EXCEPT ![r] = IF q.mail THEN [@ EXCEPT !.step = "committed"] ELSE Idle]
    /\ UNCHANGED mailed

\* It fails, or the process dies: nothing was written, or the mail is lost.
Abandon(r) ==
    /\ Active(r) /\ request' = [request EXCEPT ![r] = Idle]
    /\ UNCHANGED <<document, issued, seen, mailed, views>>

\* mutation: the mail is handed over as soon as it is built
Built(r) == Active(r) /\ request[r].step \in {"written", "committed"} /\ request[r].mail

\* The hooks of a transaction run when it has committed.
Committed(r) == Active(r) /\ request[r].step = "committed" /\ request[r].mail

SendEmail(r) ==
    /\ Committed(r)
    /\ LET q == request[r]  mail == Mail(q.row) IN
       /\ seen' = seen \cup {[doc |-> q.doc, number |-> mail.number, total |-> mail.total]}
       /\ mailed' = [due |-> mail.due, dues |-> q.dues]
    /\ request' = [request EXCEPT ![r] = Idle]
    /\ UNCHANGED <<document, issued, views>>

\* The PDF behind a link that a mail carried, or that a member copied from an
\* invoice that is issued: it asks for no status.
Linked(d) == document[d].status # "draft" \/ \E x \in seen : x.doc = d

OpenPdf(d) ==
    /\ d \in Invoices /\ Linked(d)
    /\ seen' = seen \cup {[doc |-> d, number |-> document[d].number, total |-> document[d].total]}
    /\ UNCHANGED <<document, issued, request, mailed, views>>

-----------------------------------------------------------------------------
\* What else happens to a document, each in a transaction that locks it first.
\* A request that is under way takes note of what is due.
Changes(d, row) ==
    /\ LockFree(d) /\ row # document[d]
    /\ document' = [document EXCEPT ![d] = row]
    /\ request' = [r \in Requests |-> IF Active(r) /\ request[r].doc = d THEN [request[r] EXCEPT !.dues = @ \cup {Due(row)}] ELSE request[r]]
    /\ UNCHANGED <<issued, seen, mailed, views>>

EditDraft(d, total) == document[d].status = "draft" /\ Changes(d, [document[d] EXCEPT !.total = total])

\* settlementStatus, of what has no due date and no refund.
SettlementStatus(row) ==
    CASE Due(row) <= 0 -> "paid"
      [] Due(row) > 0 /\ row.paid > 0 -> "partially_paid"
      [] row.paid = 0 /\ Due(row) > 0 -> IF row.viewed THEN "viewed" ELSE "sent"

SettleInvoice(d, row) ==
    /\ d \in Invoices /\ document[d].status \notin {"draft", "cancelled"} /\ row.paid \in 0..row.total
    /\ Changes(d, [row EXCEPT !.status = SettlementStatus(row)])

PaymentRecord(d)     == SettleInvoice(d, [document[d] EXCEPT !.paid = @ + 1])
PaymentUnallocate(d) == SettleInvoice(d, [document[d] EXCEPT !.paid = @ - 1])

Cancel(d) ==
    /\ d \in Invoices /\ document[d].status \notin {"draft", "cancelled"} /\ document[d].paid = 0
    /\ Changes(d, [document[d] EXCEPT !.status = "cancelled"])

Next ==
    \/ \E r \in Requests, d \in Documents : (\E mail \in BOOLEAN : Send(r, d, mail)) \/ Email(r, d) \/ View(r, d)
    \/ \E r \in Requests : Write(r) \/ Commit(r) \/ Abandon(r) \/ SendEmail(r)
    \/ \E d \in Documents : (\E total \in Totals : EditDraft(d, total)) \/ OpenPdf(d) \/ Cancel(d)
    \/ \E d \in Invoices : PaymentRecord(d) \/ PaymentUnallocate(d)

Spec == Init /\ [][Next]_vars

-----------------------------------------------------------------------------
TypeOK ==
    /\ document \in [Documents -> [status : {"draft", "sent", "viewed", "partially_paid", "paid", "cancelled"}, number : 0..Cardinality(Documents),
                                   total : Totals, paid : Nat, viewed : BOOLEAN, emailed : BOOLEAN]]
    /\ \A d \in Documents : (document[d].number = 0) = (document[d].status = "draft")
    /\ \A d, e \in Documents : KindOf(d) = KindOf(e) /\ document[d].number = document[e].number /\ document[d].number > 0 => d = e
    /\ \A kind \in {"invoice", "quote"} : issued[kind] = Cardinality({d \in Documents : KindOf(d) = kind /\ document[d].number > 0})
    /\ \A d \in Documents, r, q \in Requests :
          Running(r) /\ Running(q) /\ request[r].doc = d /\ request[q].doc = d /\ request[r].holds /\ request[q].holds => r = q

\* "a message cannot be unsent, so it must never go out for a transaction that
\* later rolls back": whatever a client was shown, in a mail or behind a link, is
\* issued, under that number and at that total.
ShownAsIssued ==
    \A x \in seen : x.number > 0 /\ document[x.doc].number = x.number /\ document[x.doc].total = x.total

\* "Viewing is recorded once", and looking at an invoice undoes nothing: its status
\* stays the one that what was paid gives it.
ViewedOnce ==
    \A d \in Invoices :
       LET row == document[d] IN
       /\ views[d] = IF row.viewed THEN 1 ELSE 0
       /\ row.status \notin {"draft", "cancelled"} => row.status = SettlementStatus(row)

\* docs/development/slices/S14.md: "The invoice email states the amount due": one that
\* was due at some time since the request began, if not when the mail went out.
StatesWhatWasDue == mailed # None => mailed.due \in mailed.dues
=============================================================================
