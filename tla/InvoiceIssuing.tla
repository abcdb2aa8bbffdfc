--------------------------- MODULE InvoiceIssuing ---------------------------
(***************************************************************************)
(* Issuing an invoice: its number, and the earlier invoices it takes off   *)
(* (invoiceSend, settleDeductions and invoiceCancel in finance/invoices.ts,*)
(* finance/numbering.ts, numbering-format.ts, document-sequences.ts).      *)
(*                                                                         *)
(* invoice.send is one transaction of several steps: it locks the draft,   *)
(* then each invoice taken off, reads the numbering settings without a     *)
(* lock, locks the counter, and commits.  Cancelling, editing a draft and  *)
(* changing the numbering take their locks first and are atomic.           *)
(*                                                                         *)
(* Data: a date is an integer with a calendar and a financial year; a      *)
(* printed number is the years its format prints, with the counter value.  *)
(* Amounts, taxes and lines other than deductions are left out.            *)
(***************************************************************************)
EXTENDS Integers, FiniteSets

CONSTANTS
    Invoices,
    Txs,               \* requests of invoice.send under way
    LastDate,          \* dates are 1..LastDate
    CalendarYear, FiscalYear,   \* of each date
    InitialSettings,   \* how invoices are numbered: reset rule and printed years
    OtherSettings,     \* what documentSequence.update may change that to
    MayRecount,        \* may documentSequence.update move the count?
    MayDeduct,         \* may a draft take an earlier invoice off?
    MaxValue,          \* bound on the counter
    Window,            \* COLLISION_WINDOW
    NoNumber, NoInvoice

Dates == 1 .. LastDate
Printable == {"year", "fy"}
Settings == [reset : {"never", "yearly", "fiscal_yearly"}, prints : SUBSET Printable]

ASSUME InvoiceIssuingAssumption ==
    /\ LastDate \in Nat \ {0} /\ MaxValue \in Nat /\ Window \in Nat
    /\ CalendarYear \in [Dates -> Nat] /\ FiscalYear \in [Dates -> Nat]
    /\ InitialSettings \in Settings /\ OtherSettings \subseteq Settings
    /\ NoNumber \notin Nat \X Nat \X Nat /\ NoInvoice \notin Invoices

VARIABLES
    inv,       \* the invoices: status, deductions, number, and the run it was counted in
    counter,   \* document_sequences: the next value of each run
    settings,  \* the settings row of the invoice sequence
    tx,        \* transactions of invoice.send
    today,
    recounted  \* history: the runs whose count a person has moved

vars == <<inv, counter, settings, tx, today, recounted>>

-----------------------------------------------------------------------------
\* numbering-format.ts

\* Why a format cannot be used with a reset rule.
FormatProblem(s) ==
    \/ s.reset # "never" /\ s.prints = {}
    \/ s.reset = "fiscal_yearly" /\ "year" \in s.prints /\ "fy" \notin s.prints

\* formatDocumentNumber: 0 where the format prints no such year.
Printed(s, value, date) ==
    <<IF "year" \in s.prints THEN CalendarYear[date] ELSE 0,
      IF "fy" \in s.prints THEN FiscalYear[date] ELSE 0,
      value>>

\* sequenceScope
Scope(s, date) ==
    CASE s.reset = "yearly"        -> <<"year", CalendarYear[date]>>
      [] s.reset = "fiscal_yearly" -> <<"fy", FiscalYear[date]>>
      [] s.reset = "never"         -> <<"all", 0>>

Scopes == {<<"all", 0>>} \cup {<<"year", CalendarYear[d]>> : d \in Dates}
                         \cup {<<"fy", FiscalYear[d]>> : d \in Dates}

-----------------------------------------------------------------------------
Blank == [status |-> "draft", deducts |-> {}, number |-> NoNumber, scope |-> <<"all", 0>>, value |-> 0]

Idle == [step |-> "idle", invoice |-> NoInvoice, date |-> 1, checked |-> {},
         read |-> InitialSettings, scope |-> <<"all", 0>>, value |-> 0]

Init ==
    /\ inv = [i \in Invoices |-> Blank]
    /\ counter = [s \in Scopes |-> 1]
    /\ settings = InitialSettings /\ ~FormatProblem(InitialSettings)
    /\ tx = [t \in Txs |-> Idle]
    /\ today = 1 /\ recounted = {}

Standing(i) == inv[i].status \notin {"draft", "cancelled"}
Numbers     == {inv[i].number : i \in Invoices} \ {NoNumber}

\* Row locks a transaction under way keeps to its end.
LockedBy(t)       == {tx[t].invoice} \cup tx[t].checked
InvoiceFree(i)    == \A t \in Txs : i \notin LockedBy(t)

\* mutation: the counting row is read without its lock
CounterShared(s) == TRUE

CounterFree(s) == \A t \in Txs : ~(tx[t].step = "numbered" /\ tx[t].scope = s)

-----------------------------------------------------------------------------
\* invoice.send

\* loadInvoice(lock), requireDraft.
SendBegin(t, i, date) ==
    /\ tx[t].step = "idle" /\ InvoiceFree(i)
    /\ inv[i].status = "draft"
    /\ tx' = [tx EXCEPT ![t] = [Idle EXCEPT !.step = "deducting", !.invoice = i, !.date = date]]
    /\ UNCHANGED <<inv, counter, settings, today, recounted>>

\* mutation: settleDeductions reads the earlier invoice without its lock
PriorUnlocked(prior) == TRUE

\* The lock settleDeductions takes on each invoice taken off.
PriorFree(prior) == InvoiceFree(prior)

\* mutation: that the earlier invoice stands is left to the check made when it was added
TrustsDraft(i, prior) == ~\E j \in Invoices \ {i} : prior \in inv[j].deducts /\ Standing(j)

\* What settleDeductions checks again: the earlier invoice stands, and no other
\* standing invoice takes it off.
MayTakeOff(i, prior) ==
    /\ Standing(prior)
    /\ ~\E j \in Invoices \ {i} : prior \in inv[j].deducts /\ Standing(j)

\* One round of settleDeductions: lock the earlier invoice, check it again.
CheckDeduction(t, prior) ==
    LET i == tx[t].invoice
    IN  /\ tx[t].step = "deducting"
        /\ prior \in inv[i].deducts \ tx[t].checked
        /\ PriorFree(prior)
        /\ MayTakeOff(i, prior)
        /\ tx' = [tx EXCEPT ![t].checked = @ \cup {prior}]
        /\ UNCHANGED <<inv, counter, settings, today, recounted>>

\* sequenceSettings, read without a lock.
ReadSettings(t) ==
    /\ tx[t].step = "deducting" /\ inv[tx[t].invoice].deducts \subseteq tx[t].checked
    /\ tx' = [tx EXCEPT ![t].step = "formatted", ![t].read = settings]
    /\ UNCHANGED <<inv, counter, settings, today, recounted>>

\* lockScope and the increment, visible to nobody else before the commit.
TakeNumber(t) ==
    LET scope == Scope(tx[t].read, tx[t].date)
    IN  /\ tx[t].step = "formatted"
        /\ CounterFree(scope)
        /\ counter[scope] <= MaxValue
        /\ tx' = [tx EXCEPT ![t].step = "numbered", ![t].scope = scope, ![t].value = counter[scope]]
        /\ UNCHANGED <<inv, counter, settings, today, recounted>>

\* mutation: the invoice is issued first and numbered afterwards
NumberLater(t) == NoNumber

NumberOf(t) == Printed(tx[t].read, tx[t].value, tx[t].date)

\* The commit; the unique index lets no number be issued twice.
SendCommit(t) ==
    /\ tx[t].step = "numbered"
    /\ NumberOf(t) \notin Numbers
    /\ inv' = [inv EXCEPT ![tx[t].invoice] = [@ EXCEPT !.status = "sent", !.number = NumberOf(t),
                                                      !.scope = tx[t].scope, !.value = tx[t].value]]
    /\ counter' = [counter EXCEPT ![tx[t].scope] = tx[t].value + 1]
    /\ tx' = [tx EXCEPT ![t] = Idle]
    /\ UNCHANGED <<settings, today, recounted>>

\* mutation: the increment outlives the transaction, as a Postgres sequence's does
KeepsIncrement(t) ==
    IF tx[t].step = "numbered" THEN [counter EXCEPT ![tx[t].scope] = tx[t].value + 1] ELSE counter

\* What a rolled back transaction leaves of the counters.
RolledBack(t) == counter

\* A refusal, a violated index or a crash: everything is rolled back.
SendAbort(t) ==
    /\ tx[t].step # "idle"
    /\ counter' = RolledBack(t)
    /\ tx' = [tx EXCEPT ![t] = Idle]
    /\ UNCHANGED <<inv, settings, today, recounted>>

-----------------------------------------------------------------------------
\* The other requests

\* invoiceLine.addDeduction: checked now, without locking the earlier invoice.
AddDeduction(i, prior) ==
    /\ MayDeduct
    /\ inv[i].status = "draft" /\ InvoiceFree(i)
    /\ prior # i /\ Standing(prior) /\ prior \notin inv[i].deducts
    /\ inv' = [inv EXCEPT ![i].deducts = @ \cup {prior}]
    /\ UNCHANGED <<counter, settings, tx, today, recounted>>

\* invoiceLine.delete
RemoveDeduction(i, prior) ==
    /\ inv[i].status = "draft" /\ InvoiceFree(i)
    /\ prior \in inv[i].deducts
    /\ inv' = [inv EXCEPT ![i].deducts = @ \ {prior}]
    /\ UNCHANGED <<counter, settings, tx, today, recounted>>

\* invoice.cancel, of an invoice with nothing paid.
Cancel(i) ==
    /\ InvoiceFree(i) /\ Standing(i)
    /\ ~\E j \in Invoices : i \in inv[j].deducts /\ Standing(j)
    /\ inv' = [inv EXCEPT ![i].status = "cancelled"]
    /\ UNCHANGED <<counter, settings, tx, today, recounted>>

\* The values documentSequence.update looks for among the numbers issued.
Candidates(scope, target) ==
    LET stood == counter[scope] - 1
        upTo  == IF stood <= target THEN target
                 ELSE IF stood <= target + Window THEN stood ELSE target + Window
    IN  target .. upTo

\* documentSequence.update: the reset rule and format, and where the run that
\* today falls in stands.  What today would print must be free.  The settings
\* row is also the counter of a sequence that never resets.
UpdateSequence(s, target) ==
    LET scope == Scope(s, today)
    IN  /\ s # settings \/ MayRecount
        /\ CounterFree(<<"all", 0>>) /\ CounterFree(scope)
        /\ ~FormatProblem(s)
        /\ \A v \in Candidates(scope, target) : Printed(s, v, today) \notin Numbers
        /\ settings' = s
        /\ counter' = [counter EXCEPT ![scope] = target]
        /\ recounted' = recounted \cup {scope}
        /\ UNCHANGED <<inv, tx, today>>

Tick ==
    /\ today < LastDate
    /\ today' = today + 1
    /\ UNCHANGED <<inv, counter, settings, tx, recounted>>

-----------------------------------------------------------------------------
Sending(t) ==
    \/ \E i \in Invoices, date \in Dates : SendBegin(t, i, date)
    \/ \E prior \in Invoices : CheckDeduction(t, prior)
    \/ ReadSettings(t) \/ TakeNumber(t) \/ SendCommit(t) \/ SendAbort(t)

Editing ==
    \E i \in Invoices :
        \/ \E prior \in Invoices : AddDeduction(i, prior) \/ RemoveDeduction(i, prior)
        \/ Cancel(i)

Next ==
    \/ \E t \in Txs : Sending(t)
    \/ Editing
    \/ \E s \in OtherSettings \cup {settings}, target \in 1 .. MaxValue : UpdateSequence(s, target)
    \/ Tick

Spec == Init /\ [][Next]_vars

-----------------------------------------------------------------------------
(* Properties *)

\* TypeOK: every row has the shape of its table, and an invoice has a number
\* exactly when it is not a draft (invoices_number_check).
TypeOK ==
    /\ counter \in [Scopes -> 1 .. MaxValue + 1]
    /\ settings \in Settings /\ today \in Dates /\ recounted \subseteq Scopes
    /\ \A i \in Invoices :
        /\ inv[i].status \in {"draft", "sent", "cancelled"} /\ inv[i].deducts \subseteq Invoices \ {i}
        /\ (inv[i].status = "draft") = (inv[i].number = NoNumber)
    /\ \A t \in Txs :
        /\ tx[t].step \in {"idle", "deducting", "formatted", "numbered"}
        /\ tx[t].invoice \in Invoices \cup {NoInvoice} /\ tx[t].date \in Dates
        /\ tx[t].checked \subseteq Invoices /\ tx[t].read \in Settings
        /\ tx[t].scope \in Scopes /\ tx[t].value \in 0 .. MaxValue

\* Gapless: the invoices counted in a run whose count nobody has moved carry 1, 2,
\* ... up to where its counter stands, whatever was rolled back on the way (issueNumber: "if the caller rolls
\* back, so does the increment, and no number is skipped").
Gapless ==
    \A s \in Scopes \ recounted :
        {inv[i].value : i \in {j \in Invoices : inv[j].status # "draft" /\ inv[j].scope = s}} = 1 .. counter[s] - 1

\* NumberIsFresh: a number taken for an invoice is nobody else's, so the unique
\* index is only a backstop and refuses no invoice (issueNumber,
\* documentSequence.update: "never onto a number that is already taken").
NumberIsFresh ==
    \A t \in Txs : tx[t].step = "numbered" =>
        /\ NumberOf(t) \notin Numbers
        /\ \A u \in Txs \ {t} : tx[u].step = "numbered" => NumberOf(u) # NumberOf(t)

\* DeductedOnce: an invoice is taken off at most one standing invoice, though two
\* drafts may name it (settleDeductions: "two final invoices each deducting the
\* same deposit would give the money back twice").
DeductedOnce ==
    \A i, j, prior \in Invoices :
        Standing(i) /\ Standing(j) /\ prior \in inv[i].deducts /\ prior \in inv[j].deducts => i = j

\* DeductedStands: an invoice a standing one takes off is itself issued and not
\* cancelled, although it may be cancelled while the other is being issued
\* (invoice.cancel: "or the client would be credited for nothing").
DeductedStands ==
    \A i, prior \in Invoices : Standing(i) /\ prior \in inv[i].deducts => Standing(prior)

\* NumbersStand: what is issued keeps a number of its own and takes off what stands.
NumbersStand == TypeOK /\ Gapless /\ NumberIsFresh /\ DeductedOnce /\ DeductedStands

=============================================================================
