---------------------------- MODULE InvoicesProofs ----------------------------
(***************************************************************************)
(* Proofs about issuing invoices, about the payments that settle them,     *)
(* about the plan a project is billed by, about what is reported of it all *)
(* and about sums, for any number of invoices, payments, stages, revisions,*)
(* requests, ways to number, projects, clients, currencies and years.      *)
(*                                                                         *)
(* What is issued is consistent because of what the requests under way     *)
(* hold: the draft, the invoices it takes off, and the row that counts.    *)
(* What is settled is, because whoever changes an allocation sums it again *)
(* and holds the invoices it changes.                                      *)
(* What is billed is what was contracted, because a release or an          *)
(* acceptance holds the project while what it read is so.                  *)
(* What is reported agrees, because a sum by rows is the sum by columns:   *)
(* each report counts the same documents, put into other heaps.            *)
(***************************************************************************)
EXTENDS MCInvoices, Sequences, Functions, FiniteSetTheorems, WellFoundedInduction, TLAPS

-----------------------------------------------------------------------------
(* Issuing.                                                                *)

Numbered == Nat \X Nat \X Nat

InvoiceRows == [status : {"draft", "sent", "cancelled"}, deducts : SUBSET Invoices,
                number : Numbered \cup {NoNumber}, scope : Scopes, value : Nat]

TxRows == [step : {"idle", "deducting", "formatted", "numbered"}, invoice : Invoices \cup {NoInvoice},
           date : Dates, checked : SUBSET Invoices, read : Settings, scope : Scopes, value : 0 .. MaxValue]

Shape ==
    /\ inv \in [Invoices -> InvoiceRows]
    /\ counter \in [Scopes -> 1 .. MaxValue + 1]
    /\ tx \in [Txs -> TxRows]
    /\ settings \in Settings /\ today \in Dates /\ recounted \subseteq Scopes

(* A draft has no number, and no invoice takes itself off.                 *)
Drafts ==
    \A i \in Invoices :
        /\ (inv[i].status = "draft") = (inv[i].number = NoNumber)
        /\ i \notin inv[i].deducts

(* A request under way holds a draft, and when it goes on to the number it *)
(* has checked everything the draft takes off.                             *)
Sends ==
    \A t \in Txs :
        /\ tx[t].step = "idle" => tx[t].invoice = NoInvoice /\ tx[t].checked = {}
        /\ tx[t].step # "idle" => tx[t].invoice \in Invoices /\ inv[tx[t].invoice].status = "draft"
        /\ tx[t].step \in {"formatted", "numbered"} => inv[tx[t].invoice].deducts \subseteq tx[t].checked

(* Nobody holds what another holds.                                        *)
Exclusive ==
    \A t, u \in Txs : \A i \in Invoices : i \in LockedBy(t) /\ i \in LockedBy(u) => t = u

(* What has been checked stays so while it is held.                        *)
CheckedStands ==
    \A t \in Txs : \A prior \in tx[t].checked :
        /\ Standing(prior)
        /\ \A j \in Invoices : ~(prior \in inv[j].deducts /\ Standing(j))

(* A number taken is the next of its run, and nobody else's.               *)
Taken ==
    /\ \A t \in Txs : tx[t].step = "numbered" =>
          /\ tx[t].scope = Scope(tx[t].read, tx[t].date)
          /\ tx[t].value = counter[tx[t].scope]
    /\ \A t, u \in Txs : tx[t].step = "numbered" /\ tx[u].step = "numbered" /\ tx[t].scope = tx[u].scope => t = u

IssuingInv ==
    /\ Shape
    /\ Drafts
    /\ Sends
    /\ Exclusive
    /\ CheckedStands
    /\ Taken
    /\ Gapless
    /\ DeductedOnce
    /\ DeductedStands

LEMMA ScopeIsScope ==
    ASSUME NEW s \in Settings, NEW d \in Dates
    PROVE  Scope(s, d) \in Scopes
BY DEF Settings, Scope, Scopes

LEMMA PrintedIsNumber ==
    ASSUME NEW s \in Settings, NEW d \in Dates, NEW v \in Nat
    PROVE  Printed(s, v, d) \in Numbered /\ Printed(s, v, d) # NoNumber
BY InvoiceIssuingAssumption DEF Printed, Numbered

LEMMA TypeOKHolds == IssuingInv => TypeOK
BY DEF IssuingInv, Shape, Drafts, TypeOK, InvoiceRows, TxRows

LEMMA IssuingInit == Init => IssuingInv
<1> SUFFICES ASSUME Init PROVE IssuingInv
  OBVIOUS
<1>1. /\ \A i \in Invoices : inv[i] = Blank
      /\ \A t \in Txs : tx[t] = Idle
      /\ \A s \in Scopes : counter[s] = 1
  BY DEF Init
<1>2. <<"all", 0>> \in Scopes /\ 1 \in Dates /\ MaxValue \in Nat
  BY InvoiceIssuingAssumption DEF Scopes, Dates
<1>3. Blank \in InvoiceRows /\ Idle \in TxRows
  BY <1>2, InvoiceIssuingAssumption DEF Blank, Idle, InvoiceRows, TxRows
<1>4. Shape
  BY <1>2, <1>3, InvoiceIssuingAssumption DEF Init, Shape
<1>5. Drafts /\ Sends /\ CheckedStands /\ Taken
  BY <1>1 DEF Drafts, Sends, CheckedStands, Taken, Blank, Idle
<1>6. Exclusive
  BY <1>1, InvoiceIssuingAssumption DEF Exclusive, LockedBy, Idle
<1>7. Gapless
  BY <1>1 DEF Gapless, Blank
<1>8. DeductedOnce /\ DeductedStands
  BY <1>1 DEF DeductedOnce, DeductedStands, Standing, Blank
<1> QED BY <1>4, <1>5, <1>6, <1>7, <1>8 DEF IssuingInv

-----------------------------------------------------------------------------
(* A step of one request that changes no invoice and no counter: what it   *)
(* must keep of the requests.                                              *)
LEMMA TxStep ==
    ASSUME IssuingInv, NEW t \in Txs, NEW row \in TxRows,
           tx' = [tx EXCEPT ![t] = row],
           UNCHANGED <<inv, counter, settings, today, recounted>>,
           row.step = "idle" => row.invoice = NoInvoice /\ row.checked = {},
           row.step # "idle" => row.invoice \in Invoices /\ inv[row.invoice].status = "draft",
           row.step \in {"formatted", "numbered"} => inv[row.invoice].deducts \subseteq row.checked,
           \A i \in {row.invoice} \cup row.checked : i = NoInvoice \/ i \in LockedBy(t) \/ InvoiceFree(i),
           \A prior \in row.checked \ tx[t].checked :
              Standing(prior) /\ \A j \in Invoices : ~(prior \in inv[j].deducts /\ Standing(j)),
           row.step = "numbered" =>
              /\ row.scope = Scope(row.read, row.date) /\ row.value = counter[row.scope]
              /\ CounterFree(row.scope) \/ (tx[t].step = "numbered" /\ tx[t].scope = row.scope)
    PROVE  IssuingInv'
<1>1. /\ tx'[t] = row
      /\ \A u \in Txs \ {t} : tx'[u] = tx[u]
  BY DEF IssuingInv, Shape
<1>2. Shape' /\ Drafts' /\ Gapless' /\ DeductedOnce' /\ DeductedStands'
  BY DEF IssuingInv, Shape, Drafts, Gapless, DeductedOnce, DeductedStands, Standing
<1>3. Sends'
  BY <1>1 DEF IssuingInv, Sends
<1>4. Exclusive'
  <2> SUFFICES ASSUME NEW u \in Txs, NEW v \in Txs, NEW i \in Invoices,
                      i \in LockedBy(u)', i \in LockedBy(v)'
               PROVE  u = v
    BY DEF Exclusive
  <2>1. i # NoInvoice
    BY InvoiceIssuingAssumption
  <2>2. \A x \in Txs \ {t} : LockedBy(x)' = LockedBy(x)
    BY <1>1 DEF LockedBy
  <2>3. i \in LockedBy(t)' => i \in LockedBy(t) \/ \A x \in Txs : i \notin LockedBy(x)
    BY <1>1, <2>1 DEF LockedBy, InvoiceFree
  <2> QED BY <2>2, <2>3 DEF IssuingInv, Exclusive
<1>5. CheckedStands'
  BY <1>1 DEF IssuingInv, CheckedStands, Standing
<1>6. Taken'
  BY <1>1 DEF IssuingInv, Taken, CounterFree
<1> QED BY <1>2, <1>3, <1>4, <1>5, <1>6 DEF IssuingInv

LEMMA IdleRow ==
    /\ Idle \in TxRows
    /\ Idle.step = "idle" /\ Idle.invoice = NoInvoice /\ Idle.checked = {}
<1>1. <<"all", 0>> \in Scopes /\ 1 \in Dates /\ 0 \in 0 .. MaxValue
  BY InvoiceIssuingAssumption DEF Scopes, Dates
<1> QED BY <1>1, InvoiceIssuingAssumption DEF Idle, TxRows

LEMMA SendBeginStep ==
    ASSUME IssuingInv, NEW t \in Txs, NEW i \in Invoices, NEW date \in Dates, SendBegin(t, i, date)
    PROVE  IssuingInv'
<1> DEFINE row == [Idle EXCEPT !.step = "deducting", !.invoice = i, !.date = date]
<1>1. /\ tx' = [tx EXCEPT ![t] = row]
      /\ InvoiceFree(i) /\ inv[i].status = "draft"
      /\ UNCHANGED <<inv, counter, settings, today, recounted>>
  BY DEF SendBegin
<1>2. /\ row \in TxRows
      /\ row.step = "deducting" /\ row.invoice = i /\ row.checked = {}
  BY IdleRow DEF Idle, TxRows
<1> HIDE DEF row
<1> QED BY <1>1, <1>2, TxStep

LEMMA CheckDeductionStep ==
    ASSUME IssuingInv, NEW t \in Txs, NEW prior \in Invoices, CheckDeduction(t, prior)
    PROVE  IssuingInv'
<1> DEFINE row == [tx[t] EXCEPT !.checked = @ \cup {prior}]
<1>1. /\ tx' = [tx EXCEPT ![t] = row]
      /\ InvoiceFree(prior) /\ MayTakeOff(tx[t].invoice, prior)
      /\ tx[t].step = "deducting"
      /\ UNCHANGED <<inv, counter, settings, today, recounted>>
  BY DEF CheckDeduction, PriorFree
<1>2. /\ row \in TxRows
      /\ row.step = "deducting" /\ row.invoice = tx[t].invoice /\ row.checked = tx[t].checked \cup {prior}
  BY <1>1 DEF IssuingInv, Shape, TxRows
<1>3. tx[t].invoice \in Invoices /\ inv[tx[t].invoice].status = "draft"
  BY <1>1 DEF IssuingInv, Sends
<1>4. Standing(prior) /\ \A j \in Invoices : ~(prior \in inv[j].deducts /\ Standing(j))
  BY <1>1, <1>3 DEF MayTakeOff, Standing
<1>5. \A i \in {row.invoice} \cup row.checked : i = NoInvoice \/ i \in LockedBy(t) \/ InvoiceFree(i)
  BY <1>1, <1>2 DEF LockedBy
<1> HIDE DEF row
<1> QED BY <1>1, <1>2, <1>3, <1>4, <1>5, TxStep

LEMMA ReadSettingsStep ==
    ASSUME IssuingInv, NEW t \in Txs, ReadSettings(t)
    PROVE  IssuingInv'
<1> DEFINE row == [tx[t] EXCEPT !.step = "formatted", !.read = settings]
<1>1. /\ tx' = [tx EXCEPT ![t] = row]
      /\ tx[t].step = "deducting" /\ inv[tx[t].invoice].deducts \subseteq tx[t].checked
      /\ UNCHANGED <<inv, counter, settings, today, recounted>>
  <2>1. tx' = [tx EXCEPT ![t].step = "formatted", ![t].read = settings]
    BY DEF ReadSettings
  <2> QED BY <2>1 DEF ReadSettings, IssuingInv, Shape
<1>2. /\ row \in TxRows
      /\ row.step = "formatted" /\ row.invoice = tx[t].invoice /\ row.checked = tx[t].checked
  BY <1>1 DEF IssuingInv, Shape, TxRows
<1>3. tx[t].invoice \in Invoices /\ inv[tx[t].invoice].status = "draft"
  BY <1>1 DEF IssuingInv, Sends
<1>5. \A i \in {row.invoice} \cup row.checked : i \in LockedBy(t)
  BY <1>1, <1>2 DEF LockedBy
<1> HIDE DEF row
<1> QED BY <1>1, <1>2, <1>3, <1>5, TxStep

LEMMA TakeNumberStep ==
    ASSUME IssuingInv, NEW t \in Txs, TakeNumber(t)
    PROVE  IssuingInv'
<1> DEFINE scope == Scope(tx[t].read, tx[t].date)
           row   == [tx[t] EXCEPT !.step = "numbered", !.scope = scope, !.value = counter[scope]]
<1>1. /\ tx' = [tx EXCEPT ![t] = row]
      /\ tx[t].step = "formatted" /\ CounterFree(scope) /\ counter[scope] <= MaxValue
      /\ UNCHANGED <<inv, counter, settings, today, recounted>>
  <2>1. tx' = [tx EXCEPT ![t].step = "numbered", ![t].scope = scope, ![t].value = counter[scope]]
    BY DEF TakeNumber
  <2> QED BY <2>1 DEF TakeNumber, IssuingInv, Shape
<1>2. tx[t] \in TxRows /\ scope \in Scopes
  BY ScopeIsScope DEF IssuingInv, Shape, TxRows
<1>3. counter[scope] \in 0 .. MaxValue
  BY <1>1, <1>2, InvoiceIssuingAssumption DEF IssuingInv, Shape
<1> HIDE DEF scope
<1>4. /\ row \in TxRows
      /\ row.step = "numbered" /\ row.invoice = tx[t].invoice /\ row.checked = tx[t].checked
      /\ row.scope = scope /\ row.value = counter[scope] /\ row.read = tx[t].read /\ row.date = tx[t].date
  BY <1>2, <1>3 DEF TxRows
<1>5. /\ tx[t].invoice \in Invoices /\ inv[tx[t].invoice].status = "draft"
      /\ inv[tx[t].invoice].deducts \subseteq tx[t].checked
  BY <1>1 DEF IssuingInv, Sends
<1>6. \A i \in {row.invoice} \cup row.checked : i \in LockedBy(t)
  BY <1>4 DEF LockedBy
<1>7. row.scope = Scope(row.read, row.date)
  BY <1>4 DEF scope
<1> HIDE DEF row
<1> QED BY <1>1, <1>4, <1>5, <1>6, <1>7, TxStep

LEMMA SendAbortStep ==
    ASSUME IssuingInv, NEW t \in Txs, SendAbort(t)
    PROVE  IssuingInv'
<1>1. /\ tx' = [tx EXCEPT ![t] = Idle]
      /\ UNCHANGED <<inv, counter, settings, today, recounted>>
  BY DEF SendAbort, RolledBack
<1> QED BY <1>1, IdleRow, TxStep

-----------------------------------------------------------------------------
(* The commit of invoice.send.                                             *)
LEMMA SendCommitStep ==
    ASSUME IssuingInv, NEW t \in Txs, SendCommit(t)
    PROVE  IssuingInv'
<1> DEFINE i     == tx[t].invoice
           scope == tx[t].scope
           value == tx[t].value
<1>1. /\ tx[t].step = "numbered"
      /\ inv' = [inv EXCEPT ![i] = [inv[i] EXCEPT !.status = "sent", !.number = NumberOf(t),
                                                  !.scope = scope, !.value = value]]
      /\ counter' = [counter EXCEPT ![scope] = value + 1]
      /\ tx' = [tx EXCEPT ![t] = Idle]
      /\ UNCHANGED <<settings, today, recounted>>
  BY DEF SendCommit
<1>2. tx[t] \in TxRows /\ i \in Invoices /\ inv[i].status = "draft" /\ inv[i].deducts \subseteq tx[t].checked
  BY <1>1 DEF IssuingInv, Shape, Sends
<1>3. /\ scope \in Scopes /\ value \in 0 .. MaxValue /\ value \in Nat /\ value = counter[scope]
      /\ counter[scope] \in 1 .. MaxValue + 1
  BY <1>1, <1>2, InvoiceIssuingAssumption DEF IssuingInv, Shape, Taken, TxRows
<1>4. NumberOf(t) \in Numbered /\ NumberOf(t) # NoNumber
  BY <1>2, <1>3, PrintedIsNumber DEF NumberOf, TxRows
<1> DEFINE sent == [inv[i] EXCEPT !.status = "sent", !.number = NumberOf(t), !.scope = scope, !.value = value]
<1>5. /\ sent \in InvoiceRows /\ sent.status = "sent" /\ sent.deducts = inv[i].deducts
      /\ sent.number # NoNumber /\ sent.scope = scope /\ sent.value = value
  <2>1. inv[i] \in InvoiceRows
    BY <1>2 DEF IssuingInv, Shape
  <2> HIDE DEF i, scope, value
  <2> QED BY <2>1, <1>3, <1>4 DEF InvoiceRows
<1>6. /\ inv' = [inv EXCEPT ![i] = sent]
      /\ inv'[i] = sent
      /\ \A j \in Invoices \ {i} : inv'[j] = inv[j]
  BY <1>1, <1>2 DEF IssuingInv, Shape
<1>7. /\ tx'[t] = Idle
      /\ \A u \in Txs \ {t} : tx'[u] = tx[u]
      /\ counter'[scope] = value + 1
      /\ \A s \in Scopes \ {scope} : counter'[s] = counter[s]
  BY <1>1, <1>3 DEF IssuingInv, Shape
<1>8. /\ Idle \in TxRows
      /\ Idle.step = "idle" /\ Idle.invoice = NoInvoice /\ Idle.checked = {}
  BY IdleRow
<1> HIDE DEF sent
<1>9. \A u \in Txs \ {t} : i \notin LockedBy(u) /\ \A prior \in inv[i].deducts : prior \notin LockedBy(u)
  <2>1. i \in LockedBy(t) /\ \A prior \in inv[i].deducts : prior \in LockedBy(t) /\ prior \in Invoices
    BY <1>2 DEF LockedBy, TxRows
  <2> QED BY <2>1, <1>2 DEF IssuingInv, Exclusive
<1>10. \A j \in Invoices : Standing(j) => Standing(j)' /\ j # i
  BY <1>2, <1>6 DEF Standing
<1>11. \A j \in Invoices : inv'[j].deducts = inv[j].deducts /\ (Standing(j)' => Standing(j) \/ j = i)
  BY <1>5, <1>6 DEF Standing
<1> HIDE DEF i, scope, value
<1>12. Shape'
  <2>1. value + 1 \in 1 .. MaxValue + 1
    BY <1>3, InvoiceIssuingAssumption
  <2> QED BY <2>1, <1>1, <1>2, <1>3, <1>5, <1>6, <1>8 DEF IssuingInv, Shape
<1>13. Drafts'
  BY <1>2, <1>5, <1>6 DEF IssuingInv, Drafts
<1>14. Sends'
  <2> SUFFICES ASSUME NEW u \in Txs
               PROVE  /\ tx'[u].step = "idle" => tx'[u].invoice = NoInvoice /\ tx'[u].checked = {}
                      /\ tx'[u].step # "idle" => tx'[u].invoice \in Invoices /\ inv'[tx'[u].invoice].status = "draft"
                      /\ tx'[u].step \in {"formatted", "numbered"} => inv'[tx'[u].invoice].deducts \subseteq tx'[u].checked
    BY DEF Sends
  <2>1. CASE u = t
    BY <2>1, <1>7, <1>8
  <2>2. CASE u # t
    <3>1. tx'[u] = tx[u] /\ tx[u].invoice # i
      BY <2>2, <1>7, <1>9 DEF LockedBy
    <3> QED BY <3>1, <1>6 DEF IssuingInv, Sends
  <2> QED BY <2>1, <2>2
<1>15. Exclusive'
  <2>1. \A u \in Txs : u # t => LockedBy(u)' = LockedBy(u)
    BY <1>7 DEF LockedBy
  <2>2. LockedBy(t)' = {NoInvoice}
    BY <1>7, <1>8 DEF LockedBy
  <2> QED BY <2>1, <2>2, InvoiceIssuingAssumption DEF IssuingInv, Exclusive
<1>16. CheckedStands'
  <2> SUFFICES ASSUME NEW u \in Txs, NEW prior \in tx'[u].checked
               PROVE  Standing(prior)' /\ \A j \in Invoices : ~(prior \in inv'[j].deducts /\ Standing(j)')
    BY DEF CheckedStands
  <2>1. u # t /\ tx'[u] = tx[u] /\ prior \in Invoices /\ prior \in LockedBy(u)
    BY <1>7, <1>8 DEF IssuingInv, Shape, TxRows, LockedBy
  <2>2. Standing(prior) /\ \A j \in Invoices : ~(prior \in inv[j].deducts /\ Standing(j))
    BY <2>1 DEF IssuingInv, CheckedStands
  <2>3. prior \notin inv[i].deducts
    BY <2>1, <1>9
  <2> QED BY <2>1, <2>2, <2>3, <1>10, <1>11
<1>17. Taken'
  <2>1. \A u \in Txs : u # t /\ tx[u].step = "numbered" => tx[u].scope # scope
    BY <1>1 DEF IssuingInv, Taken, scope
  <2> QED BY <2>1, <1>7, <1>8 DEF IssuingInv, Taken, Shape, TxRows
<1>18. Gapless'
  <2> SUFFICES ASSUME NEW s \in Scopes \ recounted
               PROVE  {inv'[j].value : j \in {k \in Invoices : inv'[k].status # "draft" /\ inv'[k].scope = s}}
                         = 1 .. counter'[s] - 1
    BY <1>1 DEF Gapless
  <2> DEFINE counted == {k \in Invoices : inv[k].status # "draft" /\ inv[k].scope = s}
  <2>1. {inv[j].value : j \in counted} = 1 .. counter[s] - 1
    BY DEF IssuingInv, Gapless
  <2>2. CASE s # scope
    <3>1. {k \in Invoices : inv'[k].status # "draft" /\ inv'[k].scope = s} = counted
      BY <2>2, <1>2, <1>5, <1>6
    <3>2. \A k \in counted : inv'[k].value = inv[k].value
      BY <1>2, <1>6
    <3> QED BY <2>1, <2>2, <3>1, <3>2, <1>7
  <2>3. CASE s = scope
    <3>1. {k \in Invoices : inv'[k].status # "draft" /\ inv'[k].scope = s} = counted \cup {i}
      BY <2>3, <1>2, <1>5, <1>6
    <3>2. \A k \in counted : inv'[k].value = inv[k].value
      BY <1>2, <1>6
    <3>3. {inv'[j].value : j \in counted \cup {i}} = {inv[j].value : j \in counted} \cup {value}
      BY <3>2, <1>5, <1>6
    <3>4. (1 .. value - 1) \cup {value} = 1 .. value
      BY <1>3
    <3>5. value + 1 - 1 = value
      BY <1>3
    <3>6. counter[s] = value /\ counter'[s] - 1 = value
      BY <2>3, <3>5, <1>3, <1>7
    <3>7. {inv'[j].value : j \in counted \cup {i}} = 1 .. value
      BY <2>1, <3>3, <3>4, <3>6
    <3> QED BY <3>1, <3>6, <3>7
  <2> QED BY <2>2, <2>3
<1>19. DeductedOnce'
  <2> SUFFICES ASSUME NEW j \in Invoices, NEW k \in Invoices, NEW prior \in Invoices,
                      Standing(j)', Standing(k)', prior \in inv'[j].deducts, prior \in inv'[k].deducts
               PROVE  j = k
    BY DEF DeductedOnce
  <2>1. prior \in inv[i].deducts => \A l \in Invoices : ~(prior \in inv[l].deducts /\ Standing(l))
    BY <1>2 DEF IssuingInv, CheckedStands
  <2> QED BY <2>1, <1>11 DEF IssuingInv, DeductedOnce
<1>20. DeductedStands'
  <2> SUFFICES ASSUME NEW j \in Invoices, NEW prior \in Invoices, Standing(j)', prior \in inv'[j].deducts
               PROVE  Standing(prior)'
    BY DEF DeductedStands
  <2>1. prior \in inv[i].deducts => Standing(prior)
    BY <1>2 DEF IssuingInv, CheckedStands
  <2> QED BY <2>1, <1>10, <1>11 DEF IssuingInv, DeductedStands
<1> QED BY <1>12, <1>13, <1>14, <1>15, <1>16, <1>17, <1>18, <1>19, <1>20 DEF IssuingInv

-----------------------------------------------------------------------------
(* A draft nobody holds gets other deductions, or an issued invoice nobody *)
(* holds or takes off is cancelled.                                        *)
LEMMA EditStep ==
    ASSUME IssuingInv, NEW i \in Invoices, NEW row \in InvoiceRows, InvoiceFree(i),
           inv' = [inv EXCEPT ![i] = row],
           UNCHANGED <<counter, settings, tx, today, recounted>>,
           i \notin row.deducts, row.number = inv[i].number, row.scope = inv[i].scope, row.value = inv[i].value,
           \/ inv[i].status = "draft" /\ row.status = "draft"
           \/ /\ Standing(i) /\ row.status = "cancelled" /\ row.deducts = inv[i].deducts
              /\ \A j \in Invoices : ~(i \in inv[j].deducts /\ Standing(j))
    PROVE  IssuingInv'
<1>1. /\ inv'[i] = row
      /\ \A j \in Invoices \ {i} : inv'[j] = inv[j]
  BY DEF IssuingInv, Shape
<1>2. \A j \in Invoices :
         /\ (inv'[j].status = "draft") = (inv[j].status = "draft")
         /\ inv'[j].number = inv[j].number /\ inv'[j].scope = inv[j].scope /\ inv'[j].value = inv[j].value
         /\ Standing(j)' => Standing(j) /\ inv'[j].deducts = inv[j].deducts
         /\ Standing(j) => Standing(j)' \/ (j = i /\ \A k \in Invoices : ~(i \in inv[k].deducts /\ Standing(k)))
  BY <1>1 DEF Standing
<1>3. \A t \in Txs : i \notin LockedBy(t) /\ LockedBy(t)' = LockedBy(t)
  BY DEF InvoiceFree, LockedBy
<1>4. Shape' /\ Exclusive' /\ Taken'
  BY <1>3 DEF IssuingInv, Shape, Exclusive, Taken
<1>5. Drafts'
  BY <1>1, <1>2 DEF IssuingInv, Drafts
<1>6. Sends'
  <2>1. \A t \in Txs : tx[t].invoice # i
    BY <1>3 DEF LockedBy
  <2> QED BY <2>1, <1>1 DEF IssuingInv, Sends
<1>7. CheckedStands'
  <2> SUFFICES ASSUME NEW t \in Txs, NEW prior \in tx[t].checked
               PROVE  Standing(prior)' /\ \A j \in Invoices : ~(prior \in inv'[j].deducts /\ Standing(j)')
    BY DEF CheckedStands
  <2>1. prior \in Invoices /\ prior # i
    BY <1>3 DEF IssuingInv, Shape, TxRows, LockedBy
  <2> QED BY <2>1, <1>2 DEF IssuingInv, CheckedStands
<1>8. Gapless'
  <2> SUFFICES ASSUME NEW s \in Scopes \ recounted
               PROVE  {inv'[j].value : j \in {k \in Invoices : inv'[k].status # "draft" /\ inv'[k].scope = s}}
                         = 1 .. counter[s] - 1
    BY DEF Gapless
  <2> DEFINE counted == {k \in Invoices : inv[k].status # "draft" /\ inv[k].scope = s}
  <2>1. {inv[j].value : j \in counted} = 1 .. counter[s] - 1
    BY DEF IssuingInv, Gapless
  <2>2. {k \in Invoices : inv'[k].status # "draft" /\ inv'[k].scope = s} = counted
    BY <1>2
  <2>3. {inv'[j].value : j \in counted} = {inv[j].value : j \in counted}
    BY <1>2
  <2> QED BY <2>1, <2>2, <2>3
<1>9. DeductedOnce'
  BY <1>2 DEF IssuingInv, DeductedOnce
<1>10. DeductedStands'
  <2> SUFFICES ASSUME NEW j \in Invoices, NEW prior \in Invoices, Standing(j)', prior \in inv'[j].deducts
               PROVE  Standing(prior)'
    BY DEF DeductedStands
  <2>1. Standing(j) /\ prior \in inv[j].deducts
    BY <1>2
  <2>2. Standing(prior)
    BY <2>1 DEF IssuingInv, DeductedStands
  <2> QED BY <2>1, <2>2, <1>2
<1> QED BY <1>4, <1>5, <1>6, <1>7, <1>8, <1>9, <1>10 DEF IssuingInv

LEMMA EditingStep ==
    ASSUME IssuingInv, Editing
    PROVE  IssuingInv'
<1>0. \A i \in Invoices : inv[i] \in InvoiceRows /\ i \notin inv[i].deducts
  BY DEF IssuingInv, Shape, Drafts
<1>1. ASSUME NEW i \in Invoices, NEW prior \in Invoices, AddDeduction(i, prior)
      PROVE  IssuingInv'
  <2> DEFINE row == [inv[i] EXCEPT !.deducts = @ \cup {prior}]
  <2>1. /\ inv' = [inv EXCEPT ![i] = row]
        /\ inv[i].status = "draft" /\ InvoiceFree(i) /\ prior # i
        /\ UNCHANGED <<counter, settings, tx, today, recounted>>
    BY <1>1 DEF AddDeduction
  <2>2. /\ row \in InvoiceRows /\ i \notin row.deducts
        /\ row.status = inv[i].status /\ row.number = inv[i].number /\ row.scope = inv[i].scope /\ row.value = inv[i].value
    BY <1>0, <2>1 DEF InvoiceRows
  <2> HIDE DEF row
  <2> QED BY <2>1, <2>2, EditStep
<1>2. ASSUME NEW i \in Invoices, NEW prior \in Invoices, RemoveDeduction(i, prior)
      PROVE  IssuingInv'
  <2> DEFINE row == [inv[i] EXCEPT !.deducts = @ \ {prior}]
  <2>1. /\ inv' = [inv EXCEPT ![i] = row]
        /\ inv[i].status = "draft" /\ InvoiceFree(i)
        /\ UNCHANGED <<counter, settings, tx, today, recounted>>
    BY <1>2 DEF RemoveDeduction
  <2>2. /\ row \in InvoiceRows /\ i \notin row.deducts
        /\ row.status = inv[i].status /\ row.number = inv[i].number /\ row.scope = inv[i].scope /\ row.value = inv[i].value
    BY <1>0 DEF InvoiceRows
  <2> HIDE DEF row
  <2> QED BY <2>1, <2>2, EditStep
<1>3. ASSUME NEW i \in Invoices, Cancel(i)
      PROVE  IssuingInv'
  <2> DEFINE row == [inv[i] EXCEPT !.status = "cancelled"]
  <2>1. /\ inv' = [inv EXCEPT ![i] = row]
        /\ InvoiceFree(i) /\ Standing(i)
        /\ \A j \in Invoices : ~(i \in inv[j].deducts /\ Standing(j))
        /\ UNCHANGED <<counter, settings, tx, today, recounted>>
    BY <1>3 DEF Cancel
  <2>2. /\ row \in InvoiceRows /\ i \notin row.deducts /\ row.deducts = inv[i].deducts
        /\ row.status = "cancelled" /\ row.number = inv[i].number /\ row.scope = inv[i].scope /\ row.value = inv[i].value
    BY <1>0 DEF InvoiceRows
  <2> HIDE DEF row
  <2> QED BY <2>1, <2>2, EditStep
<1> QED BY <1>1, <1>2, <1>3 DEF Editing

LEMMA UpdateSequenceStep ==
    ASSUME IssuingInv, NEW s \in OtherSettings \cup {settings}, NEW target \in 1 .. MaxValue, UpdateSequence(s, target)
    PROVE  IssuingInv'
<1> DEFINE scope == Scope(s, today)
<1>1. /\ counter' = [counter EXCEPT ![scope] = target] /\ recounted' = recounted \cup {scope} /\ settings' = s
      /\ \A t \in Txs : ~(tx[t].step = "numbered" /\ tx[t].scope = scope)
      /\ UNCHANGED <<inv, tx, today>>
  BY DEF UpdateSequence, CounterFree
<1>2. s \in Settings /\ scope \in Scopes /\ target \in 1 .. MaxValue + 1
  BY ScopeIsScope, InvoiceIssuingAssumption DEF IssuingInv, Shape
<1> HIDE DEF scope
<1>3. \A x \in Scopes \ {scope} : counter'[x] = counter[x]
  BY <1>1 DEF IssuingInv, Shape
<1>4. Shape'
  BY <1>1, <1>2 DEF IssuingInv, Shape
<1>5. Drafts' /\ Sends' /\ Exclusive' /\ CheckedStands' /\ DeductedOnce' /\ DeductedStands'
  BY <1>1 DEF IssuingInv, Drafts, Sends, Exclusive, LockedBy, CheckedStands, DeductedOnce, DeductedStands, Standing
<1>6. Taken'
  <2>1. \A t \in Txs : tx[t].step = "numbered" => tx[t].scope \in Scopes \ {scope}
    BY <1>1 DEF IssuingInv, Shape, TxRows
  <2> QED BY <1>1, <1>3, <2>1 DEF IssuingInv, Taken
<1>7. Gapless'
  <2> SUFFICES ASSUME NEW x \in Scopes \ recounted'
               PROVE  {inv[j].value : j \in {k \in Invoices : inv[k].status # "draft" /\ inv[k].scope = x}}
                         = 1 .. counter'[x] - 1
    BY <1>1 DEF Gapless
  <2>1. counter'[x] = counter[x] /\ x \in Scopes \ recounted
    BY <1>1, <1>3
  <2> QED BY <2>1 DEF IssuingInv, Gapless
<1> QED BY <1>4, <1>5, <1>6, <1>7 DEF IssuingInv

LEMMA StillStep ==
    ASSUME IssuingInv, UNCHANGED <<inv, counter, settings, tx, recounted>>, today' \in Dates
    PROVE  IssuingInv'
BY DEF IssuingInv, Shape, Drafts, Sends, Exclusive, LockedBy, CheckedStands, Taken, Gapless, DeductedOnce,
       DeductedStands, Standing

(* Every step is one of these; the proofs below go through them in order.  *)
LEMMA NextCases ==
    ASSUME Next
    PROVE  \/ \E t \in Txs, i \in Invoices, date \in Dates : SendBegin(t, i, date)
           \/ \E t \in Txs, prior \in Invoices : CheckDeduction(t, prior)
           \/ \E t \in Txs : ReadSettings(t)
           \/ \E t \in Txs : TakeNumber(t)
           \/ \E t \in Txs : SendCommit(t)
           \/ \E t \in Txs : SendAbort(t)
           \/ Editing
           \/ \E s \in OtherSettings \cup {settings}, target \in 1 .. MaxValue : UpdateSequence(s, target)
           \/ Tick
BY Zenon DEF Next, Sending

LEMMA IssuingSteps == IssuingInv /\ [Next]_vars => IssuingInv'
<1> SUFFICES ASSUME IssuingInv, [Next]_vars PROVE IssuingInv'
  OBVIOUS
<1>1. ASSUME NEW t \in Txs, NEW i \in Invoices, NEW date \in Dates, SendBegin(t, i, date) PROVE IssuingInv'
  BY <1>1, SendBeginStep
<1>2. ASSUME NEW t \in Txs, NEW prior \in Invoices, CheckDeduction(t, prior) PROVE IssuingInv'
  BY <1>2, CheckDeductionStep
<1>3. ASSUME NEW t \in Txs, ReadSettings(t) PROVE IssuingInv'
  BY <1>3, ReadSettingsStep
<1>4. ASSUME NEW t \in Txs, TakeNumber(t) PROVE IssuingInv'
  BY <1>4, TakeNumberStep
<1>5. ASSUME NEW t \in Txs, SendCommit(t) PROVE IssuingInv'
  BY <1>5, SendCommitStep
<1>6. ASSUME NEW t \in Txs, SendAbort(t) PROVE IssuingInv'
  BY <1>6, SendAbortStep
<1>7. CASE Editing
  BY <1>7, EditingStep
<1>8. ASSUME NEW s \in OtherSettings \cup {settings}, NEW target \in 1 .. MaxValue, UpdateSequence(s, target)
      PROVE  IssuingInv'
  BY <1>8, UpdateSequenceStep
<1>9. CASE Tick
  <2>1. today' \in Dates /\ UNCHANGED <<inv, counter, settings, tx, recounted>>
    BY <1>9, InvoiceIssuingAssumption DEF Tick, IssuingInv, Shape, Dates
  <2> QED BY <2>1, StillStep
<1>10. CASE UNCHANGED vars
  <2>1. today' \in Dates /\ UNCHANGED <<inv, counter, settings, tx, recounted>>
    BY <1>10 DEF vars, IssuingInv, Shape
  <2> QED BY <2>1, StillStep
<1> QED BY <1>1, <1>2, <1>3, <1>4, <1>5, <1>6, <1>7, <1>8, <1>9, <1>10, NextCases, Zenon

(* Whatever is refused, rolled back, cancelled or recounted, the numbers   *)
(* of a run nobody recounted have no gap, and a standing invoice takes off *)
(* what stands and what no other standing invoice takes off.               *)
THEOREM IssuedConsistently == Spec => [](TypeOK /\ Gapless /\ DeductedOnce /\ DeductedStands)
<1>1. IssuingInv => TypeOK /\ Gapless /\ DeductedOnce /\ DeductedStands
  BY TypeOKHolds DEF IssuingInv
<1> QED BY IssuingInit, IssuingSteps, <1>1, PTL DEF Spec

-----------------------------------------------------------------------------
(***************************************************************************)
(* A number is fresh when what formats print tells the runs they count in  *)
(* apart, and documentSequence.update looks at every number it could meet. *)
(***************************************************************************)
InUse == {InitialSettings} \cup OtherSettings

(* The formats in use print alike exactly what they count alike.           *)
PrintsItsRun ==
    \A s1, s2 \in InUse : \A d1, d2 \in Dates : \A v \in Nat :
        (Scope(s1, d1) = Scope(s2, d2)) <=> (Printed(s1, v, d1) = Printed(s2, v, d2))

(* Nobody moves a count, or there are no more numbers than it looks for.   *)
LooksFarEnough == (OtherSettings = {} /\ ~MayRecount) \/ MaxValue <= Window

(* An invoice issued shows the value it was counted with, which its        *)
(* counter has passed.                                                     *)
Named ==
    \A i \in Invoices : inv[i].status # "draft" =>
        /\ inv[i].value < counter[inv[i].scope]
        /\ \E s \in InUse, d \in Dates :
              inv[i].scope = Scope(s, d) /\ inv[i].number = Printed(s, inv[i].value, d)

SettingsInUse == settings \in InUse /\ \A t \in Txs : tx[t].read \in InUse

NumberInv == IssuingInv /\ Named /\ SettingsInUse

LEMMA SameNumber ==
    ASSUME PrintsItsRun, NEW s1 \in InUse, NEW s2 \in InUse, NEW d1 \in Dates, NEW d2 \in Dates,
           NEW v1 \in Nat, NEW v2 \in Nat
    PROVE  Printed(s1, v1, d1) = Printed(s2, v2, d2) <=> v1 = v2 /\ Scope(s1, d1) = Scope(s2, d2)
<1>1. Printed(s1, v1, d1) = Printed(s2, v2, d2) => v1 = v2
  BY DEF Printed
<1> QED BY <1>1 DEF PrintsItsRun

LEMMA IssuedNumber ==
    ASSUME PrintsItsRun, NumberInv, NEW i \in Invoices, inv[i].status # "draft",
           NEW s \in InUse, NEW d \in Dates, NEW v \in Nat
    PROVE  Printed(s, v, d) = inv[i].number <=> v = inv[i].value /\ Scope(s, d) = inv[i].scope
<1>1. PICK s2 \in InUse, d2 \in Dates :
         inv[i].scope = Scope(s2, d2) /\ inv[i].number = Printed(s2, inv[i].value, d2)
  BY DEF NumberInv, Named
<1>2. inv[i].value \in Nat
  BY DEF NumberInv, IssuingInv, Shape, InvoiceRows
<1> QED BY <1>1, <1>2, SameNumber

LEMMA TakenIsFresh ==
    ASSUME PrintsItsRun, NumberInv
    PROVE  NumberIsFresh
<1> SUFFICES ASSUME NEW t \in Txs, tx[t].step = "numbered"
             PROVE  /\ NumberOf(t) \notin Numbers
                    /\ \A u \in Txs \ {t} : tx[u].step = "numbered" => NumberOf(u) # NumberOf(t)
  BY DEF NumberIsFresh
<1>1. ASSUME NEW u \in Txs, tx[u].step = "numbered"
      PROVE  /\ tx[u].read \in InUse /\ tx[u].date \in Dates /\ tx[u].value \in Nat
             /\ tx[u].scope = Scope(tx[u].read, tx[u].date) /\ tx[u].value = counter[tx[u].scope]
  <2>1. tx[u] \in TxRows
    BY DEF NumberInv, IssuingInv, Shape
  <2> QED BY <1>1, <2>1, InvoiceIssuingAssumption DEF NumberInv, SettingsInUse, IssuingInv, Taken, TxRows
<1>2. NumberOf(t) \notin Numbers
  <2> SUFFICES ASSUME NEW i \in Invoices, inv[i].number = NumberOf(t), inv[i].number # NoNumber
               PROVE  FALSE
    BY DEF Numbers
  <2>1. inv[i].status # "draft"
    BY DEF NumberInv, IssuingInv, Drafts
  <2>2. tx[t].value = inv[i].value /\ Scope(tx[t].read, tx[t].date) = inv[i].scope
    BY <1>1, <2>1, IssuedNumber DEF NumberOf
  <2>3. inv[i].value < counter[inv[i].scope] /\ inv[i].value \in Nat
    BY <2>1 DEF NumberInv, Named, IssuingInv, Shape, InvoiceRows
  <2> QED BY <1>1, <2>2, <2>3
<1>3. ASSUME NEW u \in Txs \ {t}, tx[u].step = "numbered", NumberOf(u) = NumberOf(t)
      PROVE  FALSE
  <2>1. Scope(tx[u].read, tx[u].date) = Scope(tx[t].read, tx[t].date)
    BY <1>1, <1>3, SameNumber DEF NumberOf
  <2> QED BY <1>1, <1>3, <2>1 DEF NumberInv, IssuingInv, Taken
<1> QED BY <1>2, <1>3

LEMMA NamedKept ==
    ASSUME NumberInv, SettingsInUse',
           \A i \in Invoices : inv'[i].status # "draft" =>
              /\ inv[i].status # "draft"
              /\ inv'[i].number = inv[i].number /\ inv'[i].scope = inv[i].scope /\ inv'[i].value = inv[i].value,
           \A i \in Invoices : inv[i].status # "draft" => counter'[inv[i].scope] = counter[inv[i].scope]
    PROVE  Named' /\ SettingsInUse'
BY DEF NumberInv, Named

LEMMA NumberInit == Init => NumberInv
<1> SUFFICES ASSUME Init PROVE Named /\ SettingsInUse
  BY IssuingInit DEF NumberInv
<1> QED BY DEF Init, Named, SettingsInUse, Blank, Idle, InUse

LEMMA NumberSends ==
    ASSUME NumberInv, NEW t \in Txs,
           \/ \E i \in Invoices, date \in Dates : SendBegin(t, i, date)
           \/ \E prior \in Invoices : CheckDeduction(t, prior)
           \/ ReadSettings(t) \/ TakeNumber(t) \/ SendAbort(t)
    PROVE  Named' /\ SettingsInUse'
<1>1. inv' = inv /\ counter' = counter /\ settings' = settings
  BY DEF SendBegin, CheckDeduction, ReadSettings, TakeNumber, SendAbort, RolledBack
<1>2. \A u \in Txs : u # t => tx'[u] = tx[u]
  BY DEF NumberInv, IssuingInv, Shape, SendBegin, CheckDeduction, ReadSettings, TakeNumber, SendAbort
<1>3. tx'[t].read \in {InitialSettings, settings, tx[t].read}
  <2>1. ASSUME NEW i \in Invoices, NEW date \in Dates, SendBegin(t, i, date)
        PROVE  tx'[t].read = InitialSettings
    BY <2>1 DEF NumberInv, IssuingInv, Shape, SendBegin, Idle
  <2>2. ASSUME NEW prior \in Invoices, CheckDeduction(t, prior)
        PROVE  tx'[t].read = tx[t].read
    BY <2>2 DEF NumberInv, IssuingInv, Shape, TxRows, CheckDeduction
  <2>3. CASE ReadSettings(t)
    BY <2>3 DEF NumberInv, IssuingInv, Shape, TxRows, ReadSettings
  <2>4. CASE TakeNumber(t)
    BY <2>4 DEF NumberInv, IssuingInv, Shape, TxRows, TakeNumber
  <2>5. CASE SendAbort(t)
    BY <2>5 DEF NumberInv, IssuingInv, Shape, SendAbort, Idle
  <2> QED BY <2>1, <2>2, <2>3, <2>4, <2>5
<1>4. SettingsInUse'
  BY <1>1, <1>2, <1>3 DEF NumberInv, SettingsInUse, InUse
<1> QED BY <1>1, <1>4, NamedKept

LEMMA NumberCommit ==
    ASSUME NumberInv, NEW t \in Txs, SendCommit(t)
    PROVE  Named' /\ SettingsInUse'
<1> DEFINE i == tx[t].invoice
<1>1. /\ tx[t].step = "numbered" /\ tx[t] \in TxRows /\ i \in Invoices /\ inv[i] \in InvoiceRows
      /\ inv' = [inv EXCEPT ![i] = [inv[i] EXCEPT !.status = "sent", !.number = NumberOf(t),
                                                  !.scope = tx[t].scope, !.value = tx[t].value]]
      /\ counter' = [counter EXCEPT ![tx[t].scope] = tx[t].value + 1]
      /\ tx' = [tx EXCEPT ![t] = Idle]
      /\ UNCHANGED <<settings, today, recounted>>
  BY DEF NumberInv, IssuingInv, Shape, Sends, SendCommit
<1>2. /\ tx[t].scope = Scope(tx[t].read, tx[t].date) /\ tx[t].value = counter[tx[t].scope]
      /\ tx[t].read \in InUse /\ tx[t].date \in Dates /\ tx[t].scope \in Scopes /\ tx[t].value \in Nat
  BY <1>1, InvoiceIssuingAssumption DEF NumberInv, IssuingInv, Taken, SettingsInUse, TxRows
<1>3. SettingsInUse'
  BY <1>1 DEF NumberInv, SettingsInUse, IssuingInv, Shape, Idle, InUse
<1>4. /\ inv'[i].number = NumberOf(t) /\ inv'[i].scope = tx[t].scope /\ inv'[i].value = tx[t].value
      /\ \A j \in Invoices \ {i} : inv'[j] = inv[j]
      /\ counter'[tx[t].scope] = tx[t].value + 1
      /\ \A s \in Scopes \ {tx[t].scope} : counter'[s] = counter[s]
  <2>1. DOMAIN inv = Invoices /\ DOMAIN counter = Scopes
    BY DEF NumberInv, IssuingInv, Shape
  <2> HIDE DEF i
  <2> QED BY <2>1, <1>1, <1>2 DEF InvoiceRows
<1>5. Named'
  <2> SUFFICES ASSUME NEW j \in Invoices, inv'[j].status # "draft"
               PROVE  /\ inv'[j].value < counter'[inv'[j].scope]
                      /\ \E s \in InUse, d \in Dates :
                            inv'[j].scope = Scope(s, d) /\ inv'[j].number = Printed(s, inv'[j].value, d)
    BY DEF Named
  <2>1. CASE j = i
    BY <2>1, <1>2, <1>4 DEF NumberOf
  <2>2. CASE j # i
    <3>1. inv'[j] = inv[j] /\ inv[j].scope \in Scopes /\ inv[j].value \in Nat
      BY <2>2, <1>4 DEF NumberInv, IssuingInv, Shape, InvoiceRows
    <3>2. /\ inv[j].value < counter[inv[j].scope]
          /\ \E s \in InUse, d \in Dates :
                inv[j].scope = Scope(s, d) /\ inv[j].number = Printed(s, inv[j].value, d)
      BY <3>1 DEF NumberInv, Named
    <3>3. counter'[inv[j].scope] = counter[inv[j].scope] \/ counter'[inv[j].scope] = counter[inv[j].scope] + 1
      BY <3>1, <1>2, <1>4
    <3>4. counter[inv[j].scope] \in Nat
      BY <3>1, InvoiceIssuingAssumption DEF NumberInv, IssuingInv, Shape
    <3> QED BY <3>1, <3>2, <3>3, <3>4
  <2> QED BY <2>1, <2>2
<1> QED BY <1>3, <1>5

(* Moving a count: what it passed and today's format prints is taken.      *)
LEMMA NumberUpdate ==
    ASSUME PrintsItsRun, LooksFarEnough, NumberInv,
           NEW s \in OtherSettings \cup {settings}, NEW target \in 1 .. MaxValue, UpdateSequence(s, target)
    PROVE  Named' /\ SettingsInUse'
<1> DEFINE scope == Scope(s, today)
<1>1. /\ counter' = [counter EXCEPT ![scope] = target] /\ settings' = s
      /\ \A v \in Candidates(scope, target) : Printed(s, v, today) \notin Numbers
      /\ s # settings \/ MayRecount
      /\ UNCHANGED <<inv, tx>>
  BY DEF UpdateSequence
<1>2. s \in InUse /\ s \in Settings /\ today \in Dates /\ scope \in Scopes
  BY ScopeIsScope, InvoiceIssuingAssumption DEF NumberInv, SettingsInUse, InUse, IssuingInv, Shape
<1>3. SettingsInUse'
  BY <1>1, <1>2 DEF NumberInv, SettingsInUse
<1>4. MaxValue <= Window /\ MaxValue \in Nat /\ Window \in Nat
  BY <1>1, InvoiceIssuingAssumption DEF LooksFarEnough
<1>5. ASSUME NEW i \in Invoices, inv[i].status # "draft"
      PROVE  inv[i].value < counter'[inv[i].scope]
  <2>1. /\ inv[i].value < counter[inv[i].scope] /\ inv[i].value \in Nat
        /\ inv[i].scope \in Scopes /\ counter[inv[i].scope] \in 1 .. MaxValue + 1
    BY <1>5 DEF NumberInv, Named, IssuingInv, Shape, InvoiceRows
  <2>2. CASE inv[i].scope # scope
    BY <1>1, <1>2, <2>1, <2>2 DEF NumberInv, IssuingInv, Shape
  <2>3. CASE inv[i].scope = scope
    <3>1. counter'[scope] = target
      BY <1>1, <1>2 DEF NumberInv, IssuingInv, Shape
    <3>2. inv[i].number # NoNumber /\ inv[i].number \in Numbers
      BY <1>5 DEF NumberInv, IssuingInv, Drafts, Numbers
    <3>3. inv[i].number = Printed(s, inv[i].value, today)
      BY <1>2, <1>5, <2>1, <2>3, IssuedNumber
    <3>4. inv[i].value \notin Candidates(scope, target)
      BY <1>1, <3>2, <3>3
    <3> HIDE DEF scope
    <3>5. inv[i].value >= target => inv[i].value \in Candidates(scope, target)
      BY <1>4, <2>1, <2>3 DEF Candidates
    <3> QED BY <2>1, <2>3, <3>1, <3>4, <3>5
  <2> QED BY <2>2, <2>3
<1> QED BY <1>1, <1>3, <1>5 DEF NumberInv, Named

LEMMA NumberNext == PrintsItsRun /\ LooksFarEnough /\ NumberInv /\ [Next]_vars => NumberInv'
<1> SUFFICES ASSUME PrintsItsRun, LooksFarEnough, NumberInv, [Next]_vars PROVE Named' /\ SettingsInUse'
  BY IssuingSteps DEF NumberInv
<1>1. ASSUME NEW t \in Txs,
             \/ \E i \in Invoices, date \in Dates : SendBegin(t, i, date)
             \/ \E prior \in Invoices : CheckDeduction(t, prior)
             \/ ReadSettings(t) \/ TakeNumber(t) \/ SendAbort(t)
      PROVE  Named' /\ SettingsInUse'
  BY <1>1, NumberSends
<1>2. ASSUME NEW t \in Txs, SendCommit(t) PROVE Named' /\ SettingsInUse'
  BY <1>2, NumberCommit
<1>3. ASSUME NEW i \in Invoices, NEW prior \in Invoices,
             AddDeduction(i, prior) \/ RemoveDeduction(i, prior) \/ Cancel(i)
      PROVE  Named' /\ SettingsInUse'
  <2>1. inv[i] \in InvoiceRows /\ DOMAIN inv = Invoices
    BY DEF NumberInv, IssuingInv, Shape
  <2>2. counter' = counter /\ settings' = settings /\ tx' = tx
    BY <1>3 DEF AddDeduction, RemoveDeduction, Cancel
  <2>3. SettingsInUse'
    BY <2>2 DEF NumberInv, SettingsInUse
  <2>4. \A j \in Invoices : inv'[j].status # "draft" =>
           /\ inv[j].status # "draft"
           /\ inv'[j].number = inv[j].number /\ inv'[j].scope = inv[j].scope /\ inv'[j].value = inv[j].value
    <3>1. CASE AddDeduction(i, prior)
      BY <2>1, <3>1 DEF AddDeduction, InvoiceRows
    <3>2. CASE RemoveDeduction(i, prior)
      BY <2>1, <3>2 DEF RemoveDeduction, InvoiceRows
    <3>3. CASE Cancel(i)
      BY <2>1, <3>3 DEF Cancel, InvoiceRows, Standing
    <3> QED BY <1>3, <3>1, <3>2, <3>3
  <2> QED BY <2>2, <2>3, <2>4, NamedKept
<1>4. ASSUME NEW s \in OtherSettings \cup {settings}, NEW target \in 1 .. MaxValue, UpdateSequence(s, target)
      PROVE  Named' /\ SettingsInUse'
  BY <1>4, NumberUpdate
<1>5. CASE Tick \/ UNCHANGED vars
  BY <1>5 DEF Tick, vars, NumberInv, Named, SettingsInUse
<1>6. CASE Next
  <2>1. CASE Editing
    <3>1. PICK i \in Invoices : (\E prior \in Invoices : AddDeduction(i, prior) \/ RemoveDeduction(i, prior)) \/ Cancel(i)
      BY <2>1 DEF Editing
    <3> QED BY <3>1, <1>3
  <2> QED BY <1>1, <1>2, <1>4, <1>5, <1>6, <2>1, Zenon DEF Next, Sending
<1> QED BY <1>5, <1>6

(* If the formats in use print the run they count in, and a count is moved *)
(* only where everything it could meet was looked for, the unique index    *)
(* never refuses an invoice: its number is its own, without gaps, and it   *)
(* takes off what stands, once.                                            *)
THEOREM NumbersAlwaysStand ==
    ASSUME PrintsItsRun, LooksFarEnough
    PROVE  Spec => []NumbersStand
<1>1. NumberInv => NumbersStand
  BY TakenIsFresh, TypeOKHolds DEF NumberInv, IssuingInv, NumbersStand
<1>2. NumberInv /\ [Next]_vars => NumberInv'
  BY NumberNext
<1> QED BY NumberInit, <1>1, <1>2, PTL DEF Spec

-----------------------------------------------------------------------------
(* Sums.                                                                   *)

Top(s) == CHOOSE x \in s : TRUE
Adds(g, f, D) == g = [s \in D |-> IF s = {} THEN 0 ELSE f[Top(s)] + g[s \ {Top(s)}]]
Small(S, n) == {s \in SUBSET S : Cardinality(s) <= n}

LEMMA LeastNumber ==
  ASSUME NEW T, T \subseteq Nat, T # {}
  PROVE  \E n \in T : \A m \in T : n <= m
<1>1. IsWellFoundedOn(OpToRel(<, Nat), Nat)
  BY NatLessThanWellFounded
<1>2. PICK n \in T : \A m \in T : ~(<<m, n>> \in OpToRel(<, Nat))
  BY <1>1, WFMin
<1>3. \A m \in T : ~(m < n)
  BY <1>2 DEF OpToRel
<1>4. \A m \in T : m \in Nat /\ n \in Nat
  OBVIOUS
<1>5. \A m \in T : n <= m
  BY <1>3, <1>4, SMT
<1> QED
  BY <1>5

LEMMA TopOf ==
  ASSUME NEW S, IsFiniteSet(S), NEW s \in SUBSET S, s # {}
  PROVE  /\ Top(s) \in s /\ Top(s) \in S /\ s \ {Top(s)} \in SUBSET S
         /\ IsFiniteSet(s) /\ IsFiniteSet(s \ {Top(s)})
         /\ Cardinality(s) \in Nat \ {0} /\ Cardinality(s \ {Top(s)}) = Cardinality(s) - 1
<1>1. Top(s) \in s
  BY DEF Top
<1>2. IsFiniteSet(s)
  BY FS_Subset
<1>3. /\ IsFiniteSet(s \ {Top(s)})
      /\ Cardinality(s \ {Top(s)}) = Cardinality(s) - 1
      /\ Cardinality(s) \in Nat
      /\ Cardinality(s) # 0
  BY <1>1, <1>2, FS_RemoveElement, FS_CardinalityType, FS_EmptySet
<1> QED
  BY <1>1, <1>2, <1>3

LEMMA AddsExists ==
  ASSUME NEW f, NEW S, IsFiniteSet(S), \A x \in S : f[x] \in Int
  PROVE  \E g \in [SUBSET S -> Int] : Adds(g, f, SUBSET S)
<1> DEFINE Adding(n) == \E g \in [Small(S, n) -> Int] : Adds(g, f, Small(S, n))
           Bad == {n \in Nat : ~Adding(n)}
<1>1. Adding(0)
  <2>1. \A s \in Small(S, 0) : s = {}
    <3> SUFFICES ASSUME NEW s \in Small(S, 0) PROVE s = {}
      OBVIOUS
    <3>1. IsFiniteSet(s) /\ Cardinality(s) <= 0
      BY FS_Subset DEF Small
    <3> QED
      BY <3>1, FS_CardinalityType, FS_EmptySet
  <2>2. Adds([s \in Small(S, 0) |-> 0], f, Small(S, 0))
    BY <2>1 DEF Adds
  <2> QED
    BY <2>2
<1>2. ASSUME NEW n \in Nat, Adding(n) PROVE Adding(n + 1)
  <2>1. PICK g \in [Small(S, n) -> Int] : Adds(g, f, Small(S, n))
    BY <1>2
  <2> DEFINE h == [s \in Small(S, n + 1) |-> IF s = {} THEN 0 ELSE f[Top(s)] + g[s \ {Top(s)}]]
  <2>2. \A s \in Small(S, n + 1) : s # {} => f[Top(s)] \in Int /\ s \ {Top(s)} \in Small(S, n)
    <3> SUFFICES ASSUME NEW s \in Small(S, n + 1), s # {}
                 PROVE f[Top(s)] \in Int /\ s \ {Top(s)} \in Small(S, n)
      OBVIOUS
    <3>1. s \in SUBSET S /\ Cardinality(s) <= n + 1
      BY DEF Small
    <3> QED
      BY <3>1, TopOf DEF Small
  <2>3. h \in [Small(S, n + 1) -> Int]
    BY <2>2
  <2>4. \A s \in Small(S, n) : s \in Small(S, n + 1)
    <3> SUFFICES ASSUME NEW s \in Small(S, n) PROVE s \in Small(S, n + 1)
      OBVIOUS
    <3>1. s \in SUBSET S /\ Cardinality(s) <= n /\ Cardinality(s) \in Nat
      BY FS_Subset, FS_CardinalityType DEF Small
    <3> QED
      BY <3>1 DEF Small
  <2>5. \A s \in Small(S, n) : h[s] = g[s]
    BY <2>1, <2>4 DEF Adds
  <2>6. \A s \in Small(S, n + 1) : s # {} => h[s \ {Top(s)}] = g[s \ {Top(s)}]
    BY <2>2, <2>5
  <2>7. Adds(h, f, Small(S, n + 1))
    BY <2>6 DEF Adds
  <2> QED
    BY <2>3, <2>7
<1>3. Bad = {}
  <2> SUFFICES ASSUME Bad # {} PROVE FALSE
    OBVIOUS
  <2> HIDE DEF Adding
  <2>1. PICK n \in Bad : \A m \in Bad : n <= m
    <3> HIDE DEF Bad
    <3>1. Bad \subseteq Nat
      BY DEF Bad
    <3> QED
      BY <3>1, LeastNumber
  <2>2. n # 0
    BY <1>1
  <2>3. n - 1 \in Nat /\ Adding(n - 1)
    BY <2>1, <2>2
  <2>4. Adding((n - 1) + 1)
    BY <2>3, <1>2
  <2> QED
    BY <2>4
<1>4. Cardinality(S) \in Nat /\ Small(S, Cardinality(S)) = SUBSET S
  BY FS_Subset, FS_CardinalityType DEF Small
<1> QED
  <2>1. Adding(Cardinality(S))
    BY <1>3, <1>4
  <2> QED
    BY <2>1, <1>4

LEMMA AddsAlike ==
  ASSUME NEW f, NEW g, NEW S, NEW T, T \subseteq S, IsFiniteSet(S), \A x \in T : f[x] = g[x],
         NEW a, NEW b, Adds(a, f, SUBSET S), Adds(b, g, SUBSET T)
  PROVE  \A s \in SUBSET T : a[s] = b[s]
<1> DEFINE Bad == {n \in Nat : \E s \in SUBSET T : Cardinality(s) = n /\ a[s] # b[s]}
<1> SUFFICES ASSUME NEW s0 \in SUBSET T, a[s0] # b[s0] PROVE FALSE
  OBVIOUS
<1>1. Bad # {} /\ Bad \subseteq Nat
  <2>1. Cardinality(s0) \in Nat
    BY FS_Subset, FS_CardinalityType
  <2> QED
    BY <2>1
<1>2. PICK n \in Bad : \A m \in Bad : n <= m
  <2> HIDE DEF Bad
  <2> QED
    BY <1>1, LeastNumber
<1>3. PICK s \in SUBSET T : Cardinality(s) = n /\ a[s] # b[s]
  BY <1>2
<1>4. s \in SUBSET S /\ IsFiniteSet(T)
  BY FS_Subset
<1>5. s # {}
  BY <1>3, <1>4 DEF Adds
<1>6. /\ Top(s) \in s /\ s \ {Top(s)} \in SUBSET T
      /\ Cardinality(s) \in Nat \ {0} /\ Cardinality(s \ {Top(s)}) = Cardinality(s) - 1
  BY <1>4, <1>5, TopOf
<1>7. a[s \ {Top(s)}] = b[s \ {Top(s)}]
  <2> SUFFICES ASSUME a[s \ {Top(s)}] # b[s \ {Top(s)}] PROVE FALSE
    OBVIOUS
  <2>1. n - 1 \in Bad
    BY <1>3, <1>6
  <2> QED
    BY <2>1, <1>2, <1>6, <1>3
<1>8. a[s] = f[Top(s)] + a[s \ {Top(s)}] /\ b[s] = g[Top(s)] + b[s \ {Top(s)}]
  BY <1>4, <1>5 DEF Adds
<1> QED
  BY <1>3, <1>6, <1>7, <1>8

LEMMA AddsWithin ==
  ASSUME NEW f, NEW S, NEW T, T \subseteq S, IsFiniteSet(S),
         NEW a, NEW b, Adds(a, f, SUBSET S), Adds(b, f, SUBSET T)
  PROVE  a[T] = b[T]
<1>1. \A x \in T : f[x] = f[x]
  OBVIOUS
<1>2. \A s \in SUBSET T : a[s] = b[s]
  BY <1>1, AddsAlike, SMTT(60)
<1> QED
  BY <1>2

Summing(f, S) == CHOOSE g : Adds(g, f, SUBSET S)

LEMMA SumIs ==
  ASSUME NEW f, NEW S
  PROVE  SumFunctionOnSet(f, S) = Summing(f, S)[S]
BY Zenon DEF SumFunctionOnSet, FoldFunctionOnSet, MapThenFoldSet, Adds, Top, Summing

LEMMA SummingAdds ==
  ASSUME NEW f, NEW S, IsFiniteSet(S), \A x \in S : f[x] \in Int
  PROVE  Adds(Summing(f, S), f, SUBSET S)
BY AddsExists DEF Summing

\* A sum is an integer, and depends on what is summed.
LEMMA SumInt ==
  ASSUME NEW f, NEW S, IsFiniteSet(S), \A x \in S : f[x] \in Int
  PROVE  SumFunctionOnSet(f, S) \in Int
<1>1. PICK g \in [SUBSET S -> Int] : Adds(g, f, SUBSET S)
  BY AddsExists
<1>2. Adds(Summing(f, S), f, SUBSET S)
  BY SummingAdds
<1>3. \A s \in SUBSET S : Summing(f, S)[s] = g[s]
  BY <1>1, <1>2, AddsAlike
<1> QED
  BY <1>1, <1>3, SumIs

LEMMA SumSame ==
  ASSUME NEW f, NEW g, NEW S, IsFiniteSet(S), \A x \in S : f[x] \in Int /\ f[x] = g[x]
  PROVE  SumFunctionOnSet(f, S) = SumFunctionOnSet(g, S)
<1>1. Adds(Summing(f, S), f, SUBSET S) /\ Adds(Summing(g, S), g, SUBSET S)
  BY SummingAdds
<1>2. Summing(f, S)[S] = Summing(g, S)[S]
  BY <1>1, AddsAlike
<1> QED
  BY <1>2, SumIs

LEMMA SumEmpty ==
  ASSUME NEW f
  PROVE  SumFunctionOnSet(f, {}) = 0
<1>1. IsFiniteSet({}) /\ \A x \in {} : f[x] \in Int
  BY FS_EmptySet
<1>2. Adds(Summing(f, {}), f, SUBSET {})
  BY <1>1, SummingAdds
<1>3. Summing(f, {})[{}] = 0
  BY <1>2 DEF Adds
<1> QED
  BY <1>3, SumIs

LEMMA SummingWithin ==
  ASSUME NEW f, NEW S, NEW T, T \subseteq S, IsFiniteSet(S),
         Adds(Summing(f, S), f, SUBSET S), Adds(Summing(f, T), f, SUBSET T)
  PROVE  Summing(f, S)[T] = Summing(f, T)[T]
BY AddsWithin

LEMMA SumTop ==
  ASSUME NEW f, NEW S, IsFiniteSet(S), S # {}, \A x \in S : f[x] \in Int
  PROVE  SumFunctionOnSet(f, S) = f[Top(S)] + SumFunctionOnSet(f, S \ {Top(S)})
<1>1. Adds(Summing(f, S), f, SUBSET S)
  BY SummingAdds
<1>2. Summing(f, S)[S] = f[Top(S)] + Summing(f, S)[S \ {Top(S)}]
  BY <1>1 DEF Adds
<1>3. S \ {Top(S)} \subseteq S /\ IsFiniteSet(S \ {Top(S)}) /\ \A x \in S \ {Top(S)} : f[x] \in Int
  BY TopOf
<1>4. Adds(Summing(f, S \ {Top(S)}), f, SUBSET (S \ {Top(S)}))
  BY <1>3, SummingAdds
<1>5. Summing(f, S)[S \ {Top(S)}] = Summing(f, S \ {Top(S)})[S \ {Top(S)}]
  BY <1>1, <1>3, <1>4, SummingWithin
<1> QED
  BY <1>2, <1>5, SumIs

\* Any element may be taken out of a sum.
LEMMA SumTake ==
  ASSUME NEW f, NEW S, IsFiniteSet(S), \A x \in S : f[x] \in Int, NEW e \in S
  PROVE  SumFunctionOnSet(f, S) = f[e] + SumFunctionOnSet(f, S \ {e})
<1> DEFINE Differs(s) == \E x \in s : SumFunctionOnSet(f, s) # f[x] + SumFunctionOnSet(f, s \ {x})
           Bad == {n \in Nat : \E s \in SUBSET S : Cardinality(s) = n /\ Differs(s)}
<1> SUFFICES ASSUME Differs(S) PROVE FALSE
  OBVIOUS
<1>1. Bad # {} /\ Bad \subseteq Nat
  <2> HIDE DEF Differs
  <2>1. Cardinality(S) \in Nat
    BY FS_CardinalityType
  <2> QED
    BY <2>1
<1>2. PICK n \in Bad : \A m \in Bad : n <= m
  <2> HIDE DEF Bad
  <2> QED
    BY <1>1, LeastNumber
<1>3. PICK s \in SUBSET S : Cardinality(s) = n /\ Differs(s)
  <2> HIDE DEF Differs
  <2> QED
    BY <1>2
<1>4. PICK x \in s : SumFunctionOnSet(f, s) # f[x] + SumFunctionOnSet(f, s \ {x})
  BY <1>3
<1> DEFINE y == Top(s)
<1>5. /\ y \in s /\ IsFiniteSet(s) /\ n \in Nat \ {0}
      /\ IsFiniteSet(s \ {y}) /\ Cardinality(s \ {y}) = n - 1
  BY <1>3, <1>4, TopOf
<1>6. IsFiniteSet(s \ {x}) /\ Cardinality(s \ {x}) = n - 1
  BY <1>3, <1>4, <1>5, FS_RemoveElement
<1>7. SumFunctionOnSet(f, s) = f[y] + SumFunctionOnSet(f, s \ {y})
  BY <1>5, SumTop
<1>8. x # y
  BY <1>4, <1>7
<1> HIDE DEF y
<1>9. ~Differs(s \ {x}) /\ ~Differs(s \ {y})
  <2>1. n - 1 \in Nat /\ n - 1 \notin Bad
    BY <1>2, <1>5
  <2>2. s \ {x} \in SUBSET S /\ s \ {y} \in SUBSET S
    OBVIOUS
  <2> HIDE DEF Differs
  <2> QED
    BY <2>1, <2>2, <1>5, <1>6
<1>10. SumFunctionOnSet(f, s \ {x}) = f[y] + SumFunctionOnSet(f, (s \ {x}) \ {y})
  BY <1>5, <1>8, <1>9
<1>11. SumFunctionOnSet(f, s \ {y}) = f[x] + SumFunctionOnSet(f, (s \ {y}) \ {x})
  BY <1>4, <1>8, <1>9
<1>12. (s \ {x}) \ {y} = (s \ {y}) \ {x}
  OBVIOUS
<1>13. f[x] \in Int /\ f[y] \in Int /\ SumFunctionOnSet(f, (s \ {y}) \ {x}) \in Int
  <2>1. (s \ {y}) \ {x} \in SUBSET S /\ x \in S /\ y \in S
    BY <1>5
  <2>2. IsFiniteSet((s \ {y}) \ {x})
    BY <1>5, FS_RemoveElement
  <2> QED
    BY <2>1, <2>2, SumInt
<1> DEFINE rest == SumFunctionOnSet(f, (s \ {y}) \ {x})
<1>14. SumFunctionOnSet(f, s \ {x}) = f[y] + rest /\ SumFunctionOnSet(f, s \ {y}) = f[x] + rest
  BY <1>10, <1>11, <1>12
<1>15. rest \in Int
  BY <1>13
<1> HIDE DEF rest, Bad
<1>16. f[y] + (f[x] + rest) = f[x] + (f[y] + rest)
  BY <1>13, <1>15
<1> QED
  BY <1>4, <1>7, <1>14, <1>16

LEMMA SumZero ==
  ASSUME NEW f, NEW S, IsFiniteSet(S), \A x \in S : f[x] = 0
  PROVE  SumFunctionOnSet(f, S) = 0
<1> DEFINE zero == [s \in SUBSET S |-> 0]
<1>1. Adds(zero, f, SUBSET S)
  BY DEF Adds, Top
<1>2. Adds(Summing(f, S), f, SUBSET S)
  BY <1>1 DEF Summing
<1> HIDE DEF zero
<1>3. Summing(f, S)[S] = zero[S]
  BY <1>1, <1>2, AddsWithin
<1>4. zero[S] = 0
  BY DEF zero
<1> QED
  BY <1>3, <1>4, SumIs

LEMMA SumSkip ==
  ASSUME NEW f, NEW S, IsFiniteSet(S), \A x \in S : f[x] \in Int, NEW e, e \in S => f[e] = 0
  PROVE  SumFunctionOnSet(f, S) = SumFunctionOnSet(f, S \ {e})
<1>1. CASE e \notin S
  <2>1. S \ {e} = S
    BY <1>1
  <2> QED
    BY <2>1
<1>2. CASE e \in S
  <2>1. SumFunctionOnSet(f, S) = f[e] + SumFunctionOnSet(f, S \ {e})
    BY <1>2, SumTake
  <2>2. IsFiniteSet(S \ {e}) /\ \A x \in S \ {e} : f[x] \in Int
    BY FS_RemoveElement
  <2>3. SumFunctionOnSet(f, S \ {e}) \in Int
    BY <2>2, SumInt
  <2> QED
    BY <1>2, <2>1, <2>3
<1> QED
  BY <1>1, <1>2

LEMMA SumChange ==
  ASSUME NEW f, NEW g, NEW S, IsFiniteSet(S), NEW e \in S,
         \A x \in S : f[x] \in Int /\ g[x] \in Int, \A x \in S \ {e} : f[x] = g[x]
  PROVE  SumFunctionOnSet(g, S) = SumFunctionOnSet(f, S) - f[e] + g[e]
<1>1. IsFiniteSet(S \ {e})
  BY FS_RemoveElement
<1>2. SumFunctionOnSet(f, S \ {e}) = SumFunctionOnSet(g, S \ {e}) /\ SumFunctionOnSet(g, S \ {e}) \in Int
  BY <1>1, SumSame, SumInt
<1>3. SumFunctionOnSet(f, S) = f[e] + SumFunctionOnSet(f, S \ {e})
  BY SumTake
<1>4. SumFunctionOnSet(g, S) = g[e] + SumFunctionOnSet(g, S \ {e})
  BY SumTake
<1> QED
  BY <1>2, <1>3, <1>4

\* A sum of less is no more.
LEMMA SumAtMost ==
  ASSUME NEW f, NEW g, NEW S, IsFiniteSet(S), \A x \in S : f[x] \in Int /\ g[x] \in Int /\ f[x] <= g[x]
  PROVE  SumFunctionOnSet(f, S) <= SumFunctionOnSet(g, S)
<1> DEFINE Exceeds(s) == ~(SumFunctionOnSet(f, s) <= SumFunctionOnSet(g, s))
           Bad == {n \in Nat : \E s \in SUBSET S : Cardinality(s) = n /\ Exceeds(s)}
<1> SUFFICES ASSUME Exceeds(S) PROVE FALSE
  OBVIOUS
<1>1. Bad # {} /\ Bad \subseteq Nat
  <2> HIDE DEF Exceeds
  <2>1. Cardinality(S) \in Nat
    BY FS_CardinalityType
  <2> QED
    BY <2>1
<1>2. PICK n \in Bad : \A m \in Bad : n <= m
  <2> HIDE DEF Bad
  <2> QED
    BY <1>1, LeastNumber
<1>3. PICK s \in SUBSET S : Cardinality(s) = n /\ Exceeds(s)
  <2> HIDE DEF Exceeds
  <2> QED
    BY <1>2
<1>4. s # {}
  BY <1>3, SumEmpty
<1> DEFINE y == Top(s)
<1>5. /\ y \in s /\ IsFiniteSet(s) /\ n \in Nat \ {0}
      /\ IsFiniteSet(s \ {y}) /\ Cardinality(s \ {y}) = n - 1
  BY <1>3, <1>4, TopOf
<1> HIDE DEF y
<1>6. ~Exceeds(s \ {y})
  <2>1. n - 1 \in Nat /\ n - 1 \notin Bad
    BY <1>2, <1>5
  <2>2. s \ {y} \in SUBSET S
    OBVIOUS
  <2> HIDE DEF Exceeds
  <2> QED
    BY <2>1, <2>2, <1>5
<1>7. \A x \in s : f[x] \in Int /\ g[x] \in Int /\ f[x] <= g[x]
  OBVIOUS
<1> DEFINE a == SumFunctionOnSet(f, s \ {y})  b == SumFunctionOnSet(g, s \ {y})
<1>8. SumFunctionOnSet(f, s) = f[y] + a /\ SumFunctionOnSet(g, s) = g[y] + b
  BY <1>5, <1>7, SumTake
<1>9. a \in Int /\ b \in Int
  BY <1>5, <1>7, SumInt
<1>10. a <= b
  BY <1>6
<1> HIDE DEF a, b, Bad
<1> QED
  BY <1>3, <1>5, <1>7, <1>8, <1>9, <1>10

\* What is nothing may be left out of a sum.
LEMMA SumWhere ==
  ASSUME NEW f, NEW g, NEW S, NEW T, T \subseteq S, IsFiniteSet(S), \A x \in S : g[x] \in Int,
         \A x \in T : f[x] = g[x], \A x \in S \ T : g[x] = 0
  PROVE  SumFunctionOnSet(g, S) = SumFunctionOnSet(f, T)
<1> DEFINE Differs(s) == SumFunctionOnSet(g, s) # SumFunctionOnSet(f, s \cap T)
           Bad == {n \in Nat : \E s \in SUBSET S : Cardinality(s) = n /\ Differs(s)}
<1> SUFFICES ASSUME Differs(S) PROVE FALSE
  <2>1. S \cap T = T
    OBVIOUS
  <2> QED
    BY <2>1
<1>1. Bad # {} /\ Bad \subseteq Nat
  <2> HIDE DEF Differs
  <2>1. Cardinality(S) \in Nat
    BY FS_CardinalityType
  <2> QED
    BY <2>1
<1>2. PICK n \in Bad : \A m \in Bad : n <= m
  <2> HIDE DEF Bad
  <2> QED
    BY <1>1, LeastNumber
<1>3. PICK s \in SUBSET S : Cardinality(s) = n /\ Differs(s)
  <2> HIDE DEF Differs
  <2> QED
    BY <1>2
<1>4. s # {}
  <2> SUFFICES ASSUME s = {} PROVE FALSE
    OBVIOUS
  <2>1. s \cap T = {}
    OBVIOUS
  <2> QED
    BY <1>3, <2>1, SumEmpty
<1> DEFINE y == Top(s)
<1>5. /\ y \in s /\ IsFiniteSet(s) /\ n \in Nat \ {0}
      /\ IsFiniteSet(s \ {y}) /\ Cardinality(s \ {y}) = n - 1
  BY <1>3, <1>4, TopOf
<1> HIDE DEF y
<1>6. ~Differs(s \ {y})
  <2>1. n - 1 \in Nat /\ n - 1 \notin Bad
    BY <1>2, <1>5
  <2>2. s \ {y} \in SUBSET S
    OBVIOUS
  <2> HIDE DEF Differs
  <2> QED
    BY <2>1, <2>2, <1>5
<1>7. (\A x \in s : g[x] \in Int) /\ (\A x \in s \cap T : f[x] \in Int) /\ IsFiniteSet(s \cap T)
  <2>1. s \cap T \in SUBSET s
    OBVIOUS
  <2> QED
    BY <1>5, <2>1, FS_Subset
<1>8. SumFunctionOnSet(g, s) = g[y] + SumFunctionOnSet(g, s \ {y})
  BY <1>5, <1>7, SumTake
<1>9. SumFunctionOnSet(g, s \ {y}) \in Int
  BY <1>5, <1>7, SumInt
<1>10. (s \ {y}) \cap T = (s \cap T) \ {y}
  OBVIOUS
<1>11. CASE y \in T
  <2>1. SumFunctionOnSet(f, s \cap T) = f[y] + SumFunctionOnSet(f, (s \cap T) \ {y})
    BY <1>5, <1>7, <1>11, SumTake
  <2>2. f[y] = g[y]
    BY <1>11
  <2> QED
    BY <1>3, <1>6, <1>8, <1>10, <2>1, <2>2
<1>12. CASE y \notin T
  <2>1. (s \cap T) \ {y} = s \cap T /\ g[y] = 0
    BY <1>5, <1>12
  <2> PICK rest : rest = SumFunctionOnSet(g, s \ {y})
    OBVIOUS
  <2>2. 0 + rest = rest
    BY <1>9
  <2>3. SumFunctionOnSet(g, s) = rest
    BY <1>8, <2>1, <2>2
  <2>4. rest = SumFunctionOnSet(f, s \cap T)
    BY <1>6, <1>10, <2>1
  <2> QED
    BY <1>3, <2>3, <2>4
<1> QED
  BY <1>11, <1>12

LEMMA SumAdd ==
  ASSUME NEW f, NEW S, IsFiniteSet(S), NEW e, e \notin S, \A x \in S \cup {e} : f[x] \in Int
  PROVE  SumFunctionOnSet(f, S \cup {e}) = f[e] + SumFunctionOnSet(f, S)
<1>1. IsFiniteSet(S \cup {e}) /\ (S \cup {e}) \ {e} = S
  BY FS_AddElement
<1> QED
  BY <1>1, SumTake

\* What holds of nothing, and still holds when one more is added, holds of all.
LEMMA AllTogether ==
  ASSUME NEW S, IsFiniteSet(S), NEW P, {} \in P,
         \A T \in SUBSET S : \A x \in S \ T : T \in P => T \cup {x} \in P
  PROVE  S \in P
<1> DEFINE Bad == {n \in Nat : \E s \in SUBSET S : Cardinality(s) = n /\ s \notin P}
<1> SUFFICES ASSUME S \notin P PROVE FALSE
  OBVIOUS
<1>1. Bad # {} /\ Bad \subseteq Nat
  <2>1. Cardinality(S) \in Nat
    BY FS_CardinalityType
  <2> QED
    BY <2>1
<1>2. PICK n \in Bad : \A m \in Bad : n <= m
  <2> HIDE DEF Bad
  <2> QED
    BY <1>1, LeastNumber
<1>3. PICK s \in SUBSET S : Cardinality(s) = n /\ s \notin P
  BY <1>2
<1>4. PICK y \in s : TRUE
  BY <1>3
<1>5. IsFiniteSet(s) /\ Cardinality(s \ {y}) = n - 1 /\ n \in Nat \ {0}
  BY <1>3, <1>4, FS_Subset, FS_RemoveElement, FS_CardinalityType, FS_EmptySet
<1>6. s \ {y} \in P
  BY <1>2, <1>5
<1>7. (s \ {y}) \cup {y} = s /\ s \ {y} \in SUBSET S /\ y \in S \ (s \ {y})
  BY <1>4
<1> QED
  BY <1>3, <1>6, <1>7

LEMMA SumPlus ==
  ASSUME NEW S, IsFiniteSet(S), NEW f, NEW g, NEW h,
         \A x \in S : f[x] \in Int /\ g[x] \in Int /\ h[x] = f[x] + g[x]
  PROVE  SumFunctionOnSet(h, S) = SumFunctionOnSet(f, S) + SumFunctionOnSet(g, S)
<1> DEFINE P == {T \in SUBSET S : SumFunctionOnSet(h, T) = SumFunctionOnSet(f, T) + SumFunctionOnSet(g, T)}
<1>1. {} \in P
  BY SumEmpty
<1>2. ASSUME NEW T \in SUBSET S, NEW x \in S \ T, T \in P PROVE T \cup {x} \in P
  <2>1. IsFiniteSet(T) /\ \A y \in T \cup {x} : f[y] \in Int /\ g[y] \in Int /\ h[y] \in Int
    BY FS_Subset
  <2>2. /\ SumFunctionOnSet(h, T \cup {x}) = h[x] + SumFunctionOnSet(h, T)
        /\ SumFunctionOnSet(f, T \cup {x}) = f[x] + SumFunctionOnSet(f, T)
        /\ SumFunctionOnSet(g, T \cup {x}) = g[x] + SumFunctionOnSet(g, T)
    BY <2>1, SumAdd
  <2>3. SumFunctionOnSet(f, T) \in Int /\ SumFunctionOnSet(g, T) \in Int
    BY <2>1, SumInt
  <2>4. SumFunctionOnSet(h, T) = SumFunctionOnSet(f, T) + SumFunctionOnSet(g, T)
    BY <1>2
  <2>5. f[x] \in Int /\ g[x] \in Int /\ h[x] = f[x] + g[x]
    OBVIOUS
  <2> DEFINE a == SumFunctionOnSet(f, T)  b == SumFunctionOnSet(g, T)
  <2>6. SumFunctionOnSet(h, T \cup {x}) = (f[x] + a) + (g[x] + b)
    <3>1. a \in Int /\ b \in Int /\ SumFunctionOnSet(h, T \cup {x}) = h[x] + (a + b)
      BY <2>2, <2>3, <2>4
    <3> HIDE DEF a, b
    <3> QED
      BY <3>1, <2>5
  <2> QED
    BY <2>2, <2>6
<1>3. S \in P
  <2> HIDE DEF P
  <2> QED
    BY <1>1, <1>2, AllTogether
<1> QED
  BY <1>3

LEMMA SumMinus ==
  ASSUME NEW S, IsFiniteSet(S), NEW f, NEW g, NEW h,
         \A x \in S : f[x] \in Int /\ g[x] \in Int /\ h[x] = f[x] - g[x]
  PROVE  SumFunctionOnSet(h, S) = SumFunctionOnSet(f, S) - SumFunctionOnSet(g, S)
<1>1. \A x \in S : h[x] \in Int /\ g[x] \in Int /\ f[x] = h[x] + g[x]
  OBVIOUS
<1>2. SumFunctionOnSet(f, S) = SumFunctionOnSet(h, S) + SumFunctionOnSet(g, S)
  BY <1>1, SumPlus
<1>3. SumFunctionOnSet(h, S) \in Int /\ SumFunctionOnSet(g, S) \in Int
  BY <1>1, SumInt
<1> QED
  BY <1>2, <1>3

LEMMA SumTimes ==
  ASSUME NEW S, IsFiniteSet(S), NEW f, NEW h, NEW n \in Int,
         \A x \in S : f[x] \in Int /\ h[x] = n * f[x]
  PROVE  SumFunctionOnSet(h, S) = n * SumFunctionOnSet(f, S)
<1> DEFINE P == {T \in SUBSET S : SumFunctionOnSet(h, T) = n * SumFunctionOnSet(f, T)}
<1>1. {} \in P
  BY SumEmpty
<1>2. ASSUME NEW T \in SUBSET S, NEW x \in S \ T, T \in P PROVE T \cup {x} \in P
  <2>1. IsFiniteSet(T) /\ \A y \in T \cup {x} : f[y] \in Int /\ h[y] \in Int
    BY FS_Subset
  <2>2. /\ SumFunctionOnSet(h, T \cup {x}) = h[x] + SumFunctionOnSet(h, T)
        /\ SumFunctionOnSet(f, T \cup {x}) = f[x] + SumFunctionOnSet(f, T)
    BY <2>1, SumAdd
  <2>3. SumFunctionOnSet(f, T) \in Int
    BY <2>1, SumInt
  <2>4. SumFunctionOnSet(h, T) = n * SumFunctionOnSet(f, T)
    BY <1>2
  <2>5. f[x] \in Int /\ h[x] = n * f[x]
    OBVIOUS
  <2> DEFINE a == SumFunctionOnSet(f, T)
  <2>6. SumFunctionOnSet(h, T \cup {x}) = n * (f[x] + a)
    <3>1. a \in Int /\ SumFunctionOnSet(h, T \cup {x}) = n * f[x] + n * a
      BY <2>2, <2>3, <2>4, <2>5
    <3> HIDE DEF a
    <3> QED
      BY <3>1, <2>5
  <2> QED
    BY <2>2, <2>6
<1>3. S \in P
  <2> HIDE DEF P
  <2> QED
    BY <1>1, <1>2, AllTogether
<1> QED
  BY <1>3

LEMMA SumOnes ==
  ASSUME NEW S, IsFiniteSet(S), NEW f, \A x \in S : f[x] = 1
  PROVE  SumFunctionOnSet(f, S) = Cardinality(S)
<1> DEFINE P == {T \in SUBSET S : SumFunctionOnSet(f, T) = Cardinality(T)}
<1>1. {} \in P
  BY SumEmpty, FS_EmptySet
<1>2. ASSUME NEW T \in SUBSET S, NEW x \in S \ T, T \in P PROVE T \cup {x} \in P
  <2>1. IsFiniteSet(T) /\ \A y \in T \cup {x} : f[y] \in Int
    BY FS_Subset
  <2>2. SumFunctionOnSet(f, T \cup {x}) = f[x] + SumFunctionOnSet(f, T)
    BY <2>1, SumAdd
  <2>3. Cardinality(T \cup {x}) = Cardinality(T) + 1 /\ Cardinality(T) \in Nat
    BY <2>1, FS_AddElement, FS_CardinalityType
  <2>4. SumFunctionOnSet(f, T) = Cardinality(T) /\ f[x] = 1
    BY <1>2
  <2> QED
    BY <2>2, <2>3, <2>4
<1>3. S \in P
  <2> HIDE DEF P
  <2> QED
    BY <1>1, <1>2, AllTogether
<1> QED
  BY <1>3

LEMMA SumBetween ==
  ASSUME NEW S, IsFiniteSet(S), NEW f, NEW lo \in Int, NEW hi \in Int,
         \A x \in S : f[x] \in Int /\ lo <= f[x] /\ f[x] <= hi
  PROVE  lo * Cardinality(S) <= SumFunctionOnSet(f, S) /\ SumFunctionOnSet(f, S) <= hi * Cardinality(S)
<1> DEFINE one == [x \in S |-> 1]  low == [x \in S |-> lo]  high == [x \in S |-> hi]
<1>1. \A x \in S : one[x] = 1 /\ one[x] \in Int /\ low[x] = lo * one[x] /\ high[x] = hi * one[x] /\ low[x] = lo /\ high[x] = hi
  OBVIOUS
<1> HIDE DEF one, low, high
<1>2. SumFunctionOnSet(one, S) = Cardinality(S)
  BY <1>1, SumOnes
<1>3. SumFunctionOnSet(low, S) = lo * SumFunctionOnSet(one, S)
  BY <1>1, SumTimes
<1>4. SumFunctionOnSet(high, S) = hi * SumFunctionOnSet(one, S)
  BY <1>1, SumTimes
<1>5. SumFunctionOnSet(low, S) <= SumFunctionOnSet(f, S)
  <2>1. \A x \in S : low[x] \in Int /\ f[x] \in Int /\ low[x] <= f[x]
    BY <1>1
  <2> QED
    BY <2>1, SumAtMost
<1>6. SumFunctionOnSet(f, S) <= SumFunctionOnSet(high, S)
  <2>1. \A x \in S : f[x] \in Int /\ high[x] \in Int /\ f[x] <= high[x]
    BY <1>1
  <2> QED
    BY <2>1, SumAtMost
<1> QED
  BY <1>2, <1>3, <1>4, <1>5, <1>6

\* A table may be added up by rows or by columns.
Table(S, T, row, col, rows, cols) ==
    /\ IsFiniteSet(S) /\ IsFiniteSet(T)
    /\ \A x \in S : \A y \in T : row[x][y] \in Int /\ col[y][x] = row[x][y]
    /\ \A x \in S : rows[x] = SumFunctionOnSet(row[x], T)
    /\ \A y \in T : cols[y] = SumFunctionOnSet(col[y], S)

LEMMA SumSwap ==
  ASSUME NEW S, NEW T, NEW row, NEW col, NEW rows, NEW cols, Table(S, T, row, col, rows, cols)
  PROVE  SumFunctionOnSet(rows, S) = SumFunctionOnSet(cols, T)
<1>0. /\ IsFiniteSet(S) /\ IsFiniteSet(T)
      /\ \A x \in S : \A y \in T : row[x][y] \in Int /\ col[y][x] = row[x][y]
      /\ \A x \in S : rows[x] = SumFunctionOnSet(row[x], T)
      /\ \A y \in T : cols[y] = SumFunctionOnSet(col[y], S)
  BY DEF Table
<1> USE <1>0
<1> DEFINE partly(U) == [y \in T |-> SumFunctionOnSet(col[y], U)]
           P == {U \in SUBSET S : SumFunctionOnSet(rows, U) = SumFunctionOnSet(partly(U), T)}
<1>1. {} \in P
  <2>1. \A y \in T : partly({})[y] = 0
    BY SumEmpty
  <2>2. SumFunctionOnSet(partly({}), T) = 0
    <3> HIDE DEF partly
    <3> QED
      BY <2>1, SumZero
  <2>3. SumFunctionOnSet(rows, {}) = 0
    BY SumEmpty
  <2> QED
    BY <2>2, <2>3
<1>2. ASSUME NEW U \in SUBSET S, NEW x \in S \ U, U \in P PROVE U \cup {x} \in P
  <2>1. IsFiniteSet(U)
    BY FS_Subset
  <2>2. \A z \in S : rows[z] \in Int
    BY SumInt
  <2>3. SumFunctionOnSet(rows, U \cup {x}) = rows[x] + SumFunctionOnSet(rows, U)
    BY <2>1, <2>2, SumAdd
  <2>4. \A y \in T : /\ row[x][y] \in Int /\ partly(U)[y] \in Int
                     /\ partly(U \cup {x})[y] = row[x][y] + partly(U)[y]
    <3> SUFFICES ASSUME NEW y \in T
                 PROVE /\ row[x][y] \in Int /\ SumFunctionOnSet(col[y], U) \in Int
                       /\ SumFunctionOnSet(col[y], U \cup {x}) = row[x][y] + SumFunctionOnSet(col[y], U)
      BY DEF partly
    <3>1. (\A z \in U \cup {x} : col[y][z] \in Int) /\ (\A z \in U : col[y][z] \in Int) /\ col[y][x] = row[x][y] /\ row[x][y] \in Int
      OBVIOUS
    <3>2. SumFunctionOnSet(col[y], U \cup {x}) = col[y][x] + SumFunctionOnSet(col[y], U)
      BY <3>1, <2>1, SumAdd
    <3> QED
      BY <3>1, <3>2, <2>1, SumInt
  <2>5. SumFunctionOnSet(partly(U \cup {x}), T) = SumFunctionOnSet(row[x], T) + SumFunctionOnSet(partly(U), T)
    <3> DEFINE r == row[x]  before == partly(U)  after == partly(U \cup {x})
    <3>1. \A y \in T : r[y] \in Int /\ before[y] \in Int /\ after[y] = r[y] + before[y]
      BY <2>4
    <3> HIDE DEF r, before, after
    <3>2. SumFunctionOnSet(after, T) = SumFunctionOnSet(r, T) + SumFunctionOnSet(before, T)
      BY <3>1, SumPlus
    <3> QED
      BY <3>2 DEF r, before, after
  <2>6. SumFunctionOnSet(rows, U) = SumFunctionOnSet(partly(U), T)
    BY <1>2
  <2> HIDE DEF partly
  <2> QED
    BY <2>3, <2>5, <2>6
<1>3. S \in P
  <2> HIDE DEF P
  <2> QED
    BY <1>1, <1>2, AllTogether
<1>4. SumFunctionOnSet(partly(S), T) = SumFunctionOnSet(cols, T)
  <2>1. \A y \in T : partly(S)[y] \in Int /\ partly(S)[y] = cols[y]
    <3> SUFFICES ASSUME NEW y \in T PROVE SumFunctionOnSet(col[y], S) \in Int
      OBVIOUS
    <3>1. \A z \in S : col[y][z] \in Int
      OBVIOUS
    <3> QED
      BY <3>1, SumInt
  <2> HIDE DEF partly
  <2> QED
    BY <2>1, SumSame
<1> QED
  BY <1>3, <1>4

\* Only one of them counts.
LEMMA SumOne ==
  ASSUME NEW S, IsFiniteSet(S), NEW f, NEW e \in S, f[e] \in Int, \A x \in S \ {e} : f[x] = 0
  PROVE  SumFunctionOnSet(f, S) = f[e]
<1>1. SumFunctionOnSet(f, S) = f[e] + SumFunctionOnSet(f, S \ {e})
  <2>1. \A x \in S : f[x] \in Int
    OBVIOUS
  <2> QED
    BY <2>1, SumTake
<1>2. SumFunctionOnSet(f, S \ {e}) = 0
  BY FS_RemoveElement, SumZero
<1> QED
  BY <1>1, <1>2

LEMMA SumNothing ==
  ASSUME NEW S, IsFiniteSet(S), NEW f, \A x \in S : f[x] \in Int /\ f[x] >= 0
  PROVE  /\ SumFunctionOnSet(f, S) \in Int /\ SumFunctionOnSet(f, S) >= 0
         /\ SumFunctionOnSet(f, S) = 0 => \A x \in S : f[x] = 0
<1> DEFINE none == [x \in S |-> 0]
<1>1. \A T \in SUBSET S : SumFunctionOnSet(f, T) \in Int /\ 0 <= SumFunctionOnSet(f, T)
  <2> SUFFICES ASSUME NEW T \in SUBSET S PROVE SumFunctionOnSet(f, T) \in Int /\ 0 <= SumFunctionOnSet(f, T)
    OBVIOUS
  <2>1. IsFiniteSet(T) /\ \A x \in T : none[x] = 0 /\ none[x] \in Int /\ f[x] \in Int /\ none[x] <= f[x]
    BY FS_Subset
  <2> HIDE DEF none
  <2>2. SumFunctionOnSet(none, T) = 0
    BY <2>1, SumZero
  <2>3. SumFunctionOnSet(none, T) <= SumFunctionOnSet(f, T)
    BY <2>1, SumAtMost
  <2>4. SumFunctionOnSet(f, T) \in Int
    BY <2>1, SumInt
  <2> QED
    BY <2>2, <2>3, <2>4
<1>2. ASSUME SumFunctionOnSet(f, S) = 0, NEW x \in S PROVE f[x] = 0
  <2>1. SumFunctionOnSet(f, S) = f[x] + SumFunctionOnSet(f, S \ {x})
    BY SumTake
  <2>2. SumFunctionOnSet(f, S \ {x}) \in Int /\ 0 <= SumFunctionOnSet(f, S \ {x})
    BY <1>1
  <2>3. f[x] \in Int /\ f[x] >= 0
    OBVIOUS
  <2> QED
    BY <2>1, <2>2, <2>3, <1>2
<1> QED
  BY <1>1, <1>2

\* What is added up by another name comes to the same.
LEMMA SumNamed ==
  ASSUME NEW S, IsFiniteSet(S), NEW b, NEW f, NEW g, NEW R, R = {b[x] : x \in S},
         \A x \in S : f[x] \in Int /\ g[b[x]] = f[x],
         \A x, y \in S : b[x] = b[y] => x = y
  PROVE  SumFunctionOnSet(g, R) = SumFunctionOnSet(f, S)
<1> DEFINE Of(T) == {b[x] : x \in T}
           P == {T \in SUBSET S : IsFiniteSet(Of(T)) /\ SumFunctionOnSet(g, Of(T)) = SumFunctionOnSet(f, T)}
<1>1. {} \in P
  <2>1. Of({}) = {}
    OBVIOUS
  <2> HIDE DEF Of
  <2> QED
    BY <2>1, SumEmpty, FS_EmptySet
<1>2. ASSUME NEW T \in SUBSET S, NEW x \in S \ T, T \in P PROVE T \cup {x} \in P
  <2>1. Of(T \cup {x}) = Of(T) \cup {b[x]} /\ b[x] \notin Of(T) /\ \A z \in Of(T) \cup {b[x]} : g[z] \in Int
    OBVIOUS
  <2>2. IsFiniteSet(T) /\ \A z \in T \cup {x} : f[z] \in Int
    BY FS_Subset
  <2>3. IsFiniteSet(Of(T)) /\ SumFunctionOnSet(g, Of(T)) = SumFunctionOnSet(f, T)
    BY <1>2
  <2>4. g[b[x]] = f[x]
    OBVIOUS
  <2> HIDE DEF Of
  <2>5. SumFunctionOnSet(g, Of(T) \cup {b[x]}) = g[b[x]] + SumFunctionOnSet(g, Of(T))
    BY <2>1, <2>3, SumAdd
  <2>6. SumFunctionOnSet(f, T \cup {x}) = f[x] + SumFunctionOnSet(f, T)
    BY <2>2, SumAdd
  <2>7. IsFiniteSet(Of(T) \cup {b[x]})
    BY <2>3, FS_AddElement
  <2> QED
    BY <2>1, <2>3, <2>4, <2>5, <2>6, <2>7
<1>3. S \in P
  <2> HIDE DEF P
  <2> QED
    BY <1>1, <1>2, AllTogether
<1> QED
  BY <1>3

\* What is added up by kind, for the kinds that are counted.
Parts(S, K, kind, f, g) ==
    /\ IsFiniteSet(S) /\ IsFiniteSet(K) /\ \A x \in S : f[x] \in Int
    /\ \A k \in K : g[k] = SumFunctionOnSet(f, {x \in S : kind[x] = k})

LEMMA SumParts ==
  ASSUME NEW S, NEW K, NEW kind, NEW f, NEW g, Parts(S, K, kind, f, g)
  PROVE  /\ SumFunctionOnSet(g, K) = SumFunctionOnSet(f, {x \in S : kind[x] \in K})
         /\ \A k \in K : g[k] \in Int
<1>0. /\ IsFiniteSet(S) /\ IsFiniteSet(K) /\ \A x \in S : f[x] \in Int
      /\ \A k \in K : g[k] = SumFunctionOnSet(f, {x \in S : kind[x] = k})
  BY DEF Parts
<1> DEFINE row == [x \in S |-> [k \in K |-> IF kind[x] = k THEN f[x] ELSE 0]]
           col == [k \in K |-> [x \in S |-> IF kind[x] = k THEN f[x] ELSE 0]]
           rows == [x \in S |-> SumFunctionOnSet(row[x], K)]
           cols == [k \in K |-> SumFunctionOnSet(col[k], S)]
           counted == {x \in S : kind[x] \in K}
<1>1. \A x \in S : \A k \in K : /\ row[x][k] = (IF kind[x] = k THEN f[x] ELSE 0) /\ row[x][k] \in Int
                                /\ col[k][x] = row[x][k]
  BY <1>0
<1> HIDE DEF row, col
<1>2. SumFunctionOnSet(rows, S) = SumFunctionOnSet(cols, K)
  <2>1. (\A x \in S : rows[x] = SumFunctionOnSet(row[x], K)) /\ (\A k \in K : cols[k] = SumFunctionOnSet(col[k], S))
    OBVIOUS
  <2> HIDE DEF rows, cols, counted
  <2>2. Table(S, K, row, col, rows, cols)
    BY <1>0, <1>1, <2>1 DEF Table
  <2> QED
    BY <2>2, SumSwap
<1>3. \A k \in K : cols[k] = g[k] /\ g[k] \in Int
  <2> SUFFICES ASSUME NEW k \in K PROVE SumFunctionOnSet(col[k], S) = g[k] /\ g[k] \in Int
    OBVIOUS
  <2> DEFINE T == {x \in S : kind[x] = k}
  <2>1. (\A x \in S : col[k][x] \in Int) /\ (\A x \in T : f[x] = col[k][x]) /\ (\A x \in S \ T : col[k][x] = 0) /\ T \subseteq S
    BY <1>0, <1>1
  <2>2. g[k] = SumFunctionOnSet(f, T) /\ IsFiniteSet(T)
    BY <1>0, FS_Subset
  <2> HIDE DEF T
  <2>3. SumFunctionOnSet(col[k], S) = SumFunctionOnSet(f, T)
    BY <1>0, <2>1, SumWhere
  <2> QED
    BY <1>0, <2>1, <2>2, <2>3, SumInt
<1>4. \A x \in counted : rows[x] = f[x]
  <2> SUFFICES ASSUME NEW x \in S, kind[x] \in K PROVE SumFunctionOnSet(row[x], K) = f[x]
    OBVIOUS
  <2>1. row[x][kind[x]] = f[x] /\ f[x] \in Int /\ \A k \in K \ {kind[x]} : row[x][k] = 0
    BY <1>0, <1>1
  <2> QED
    BY <1>0, <2>1, SumOne
<1>5. \A x \in S \ counted : rows[x] = 0
  <2> SUFFICES ASSUME NEW x \in S, kind[x] \notin K PROVE SumFunctionOnSet(row[x], K) = 0
    OBVIOUS
  <2>1. \A k \in K : row[x][k] = 0
    BY <1>1
  <2> QED
    BY <1>0, <2>1, SumZero
<1>6. (\A x \in S : rows[x] \in Int) /\ counted \subseteq S
  BY <1>0, <1>4, <1>5
<1>7. (\A x \in counted : f[x] = rows[x]) /\ \A k \in K : g[k] = cols[k] /\ g[k] \in Int
  BY <1>3, <1>4
<1> HIDE DEF rows, cols, counted
<1>8. SumFunctionOnSet(rows, S) = SumFunctionOnSet(f, counted)
  BY <1>0, <1>5, <1>6, <1>7, SumWhere
<1>9. SumFunctionOnSet(g, K) = SumFunctionOnSet(cols, K)
  BY <1>0, <1>7, SumSame
<1> QED
  BY <1>2, <1>7, <1>8, <1>9 DEF counted

-----------------------------------------------------------------------------
(* Payments.                                                               *)

ClerkRows ==
    [step : {"idle", "read", "locked"}, op : {"delete", "unallocate"}, pay : Payments \cup {Nobody},
     list : SUBSET Documents, live : BOOLEAN, day : 0 .. LastDay, held : SUBSET Documents,
     seen : {<<>>} \cup UNION {[S -> St!InvoiceRows] : S \in SUBSET Documents}]

PayRows == [Payments -> St!PaymentRows \cup {NoPayment}]

SettleShape ==
    /\ invoice \in [Documents -> St!InvoiceRows]
    /\ payment \in PayRows
    /\ settlementToday \in 0 .. LastDay
    /\ missed \subseteq Documents
    /\ clerk \in [Txs -> ClerkRows]

Within == \A i \in Documents : invoice[i].paid \in 0 .. invoice[i].total

DraftsBlank ==
    \A i \in Documents : invoice[i].status = "draft" =>
        invoice[i] = St!Blank /\ \A p \in Payments : St!Put(payment, p, i) = 0

(* What a status and the date of payment say of one another.               *)
Dated(row) ==
    /\ row.status = "paid" => row.paidAt
    /\ row.paidAt => row.status \in {"paid", "refunded", "cancelled"}

(* A clerk knows its payment; one that has locked it owns it, and the      *)
(* invoices it is put against.                                             *)
Clerking ==
    \A c \in Txs :
        /\ clerk[c].step # "idle" => clerk[c].pay \in Payments /\ clerk[c].day <= settlementToday
        /\ clerk[c].step # "idle" => \A i \in clerk[c].list : invoice[i].status # "draft"
        /\ clerk[c].step = "locked" =>
              /\ payment[clerk[c].pay] # NoPayment
              /\ clerk[c].held = {i \in Documents : payment[clerk[c].pay].put[i] > 0}
              /\ DOMAIN clerk[c].seen \cap clerk[c].held = {}
              /\ \A i \in DOMAIN clerk[c].seen :
                    /\ invoice[i].status # "draft"
                    /\ clerk[c].seen[i] \in St!InvoiceRows
                    /\ clerk[c].seen[i].status \notin {"draft", "cancelled"}
                    /\ Dated(clerk[c].seen[i])
              /\ \A d \in Txs : clerk[d].step = "locked" /\ clerk[d].pay = clerk[c].pay => d = c

SettleInv ==
    /\ SettleShape
    /\ Within
    /\ DraftsBlank
    /\ Clerking
    /\ St!LedgerBalances
    /\ St!StatusInLine
    /\ St!PaidAtFollows

(* What is closed stays closed.                                            *)
StaysClosed ==
    \A i \in Documents :
        /\ invoice[i].status = "cancelled" => invoice'[i].status = "cancelled"
        /\ invoice[i].status # "draft" => invoice'[i].status # "draft"

-----------------------------------------------------------------------------
LEMMA SameSum == \A f, S : St!SumFunctionOnSet(f, S) = SumFunctionOnSet(f, S)
BY Zenon DEF St!SumFunctionOnSet, St!FoldFunctionOnSet, St!MapThenFoldSet,
             SumFunctionOnSet, FoldFunctionOnSet, MapThenFoldSet

LEMMA SameSumOf == \A f : St!SumFunction(f) = SumFunctionOnSet(f, DOMAIN f)
BY SameSum, Zenon DEF St!SumFunction

(* The rows of one kind, and what each of them puts on an invoice.         *)
OfKind(pays, kind) == {p \in St!Recorded(pays) : pays[p].kind = kind}
PutOn(pays, i) == [p \in Payments |-> St!Put(pays, p, i)]

LEMMA PutIs ==
  ASSUME NEW pays \in PayRows, NEW i \in Documents, NEW p \in Payments
  PROVE  St!Put(pays, p, i) \in 0 .. MaxAmount /\ St!Put(pays, p, i) \in Nat
BY InvoicesAssumption DEF PayRows, St!PaymentRows, St!Put, St!Amounts

LEMMA GivenIs ==
  ASSUME NEW pays, NEW kind, NEW i
  PROVE  St!Given(pays, kind, i) = SumFunctionOnSet(PutOn(pays, i), OfKind(pays, kind))
BY SameSum, Zenon DEF St!Given, PutOn, OfKind

LEMMA OfKindFinite ==
  ASSUME NEW pays, NEW kind
  PROVE  IsFiniteSet(OfKind(pays, kind)) /\ OfKind(pays, kind) \subseteq Payments
<1>1. OfKind(pays, kind) \in SUBSET Payments
  BY DEF OfKind, St!Recorded
<1> QED
  BY <1>1, FS_Subset, InvoicesAssumption

(* Whoever puts nothing on an invoice, before and after, does not count.   *)
LEMMA GivenKept ==
  ASSUME NEW a \in PayRows, NEW b \in PayRows, NEW i \in Documents, NEW p,
         \A q \in Payments \ {p} : a[q] = b[q],
         p \in Payments => St!Put(a, p, i) = 0 /\ St!Put(b, p, i) = 0, NEW kind
  PROVE  St!Given(a, kind, i) = St!Given(b, kind, i)
<1> DEFINE S == OfKind(a, kind)  T == OfKind(b, kind)  f == PutOn(a, i)  g == PutOn(b, i)
<1>1. IsFiniteSet(S) /\ S \subseteq Payments /\ IsFiniteSet(T) /\ T \subseteq Payments
  BY OfKindFinite
<1>2. \A q \in Payments : f[q] \in Int /\ g[q] \in Int
  BY PutIs DEF PutOn
<1>3. p \in Payments => f[p] = 0 /\ g[p] = 0
  BY DEF PutOn
<1>4. \A q \in Payments \ {p} : f[q] = g[q]
  BY DEF PutOn, St!Put
<1>5. S \ {p} = T \ {p}
  BY DEF OfKind, St!Recorded
<1> HIDE DEF S, T, f, g
<1>6. SumFunctionOnSet(f, S) = SumFunctionOnSet(f, S \ {p})
  BY <1>1, <1>2, <1>3, SumSkip
<1>7. SumFunctionOnSet(g, T) = SumFunctionOnSet(g, T \ {p})
  BY <1>1, <1>2, <1>3, SumSkip
<1>8. SumFunctionOnSet(f, S \ {p}) = SumFunctionOnSet(g, S \ {p})
  <2>1. IsFiniteSet(S \ {p})
    BY <1>1, FS_RemoveElement
  <2>2. \A q \in S \ {p} : f[q] \in Int /\ f[q] = g[q]
    BY <1>1, <1>2, <1>4
  <2> QED
    BY <2>1, <2>2, SumSame
<1> QED
  BY <1>5, <1>6, <1>7, <1>8, GivenIs DEF S, T, f, g

(* Nor does one that puts there what it did.                               *)
LEMMA GivenSame ==
  ASSUME NEW a, NEW b, NEW i, NEW kind,
         \A q \in Payments : /\ (a[q] = NoPayment) = (b[q] = NoPayment)
                             /\ a[q] # NoPayment => a[q].kind = b[q].kind /\ a[q].put[i] = b[q].put[i]
  PROVE  St!Given(a, kind, i) = St!Given(b, kind, i)
<1>1. OfKind(a, kind) = OfKind(b, kind)
  BY DEF OfKind, St!Recorded
<1>2. PutOn(a, i) = PutOn(b, i)
  BY DEF PutOn, St!Put
<1> QED
  BY <1>1, <1>2, GivenIs

LEMMA GivenNothing ==
  ASSUME NEW pays, NEW i, NEW kind, \A p \in Payments : St!Put(pays, p, i) = 0
  PROVE  St!Given(pays, kind, i) = 0
<1>1. IsFiniteSet(OfKind(pays, kind)) /\ OfKind(pays, kind) \subseteq Payments
  BY OfKindFinite
<1>2. \A p \in OfKind(pays, kind) : PutOn(pays, i)[p] = 0
  BY <1>1 DEF PutOn
<1>3. SumFunctionOnSet(PutOn(pays, i), OfKind(pays, kind)) = 0
  BY <1>1, <1>2, SumZero
<1> QED
  BY <1>3, GivenIs

-----------------------------------------------------------------------------
Matches(row, refunded, latest) ==
    row.status \notin {"draft", "cancelled"} /\ row.total > 0 =>
        \E day \in 0 .. latest : row.status = St!SettlementStatus(row, refunded, day)

LEMMA StatusMatchesIs ==
  \A i : St!StatusMatches(i) <=> Matches(invoice[i], St!Given(payment, "refund", i), settlementToday)
BY DEF St!StatusMatches, Matches

LEMMA SettledRow ==
  ASSUME NEW row \in St!InvoiceRows, NEW refunded, NEW day, Dated(row)
  PROVE  LET new == St!Settled(row, refunded, day) IN
         /\ new \in St!InvoiceRows
         /\ new.total = row.total /\ new.paid = row.paid
         /\ row.status \in {"draft", "cancelled"} => new = row
         /\ row.status \notin {"draft", "cancelled"} =>
               /\ new.status \notin {"draft", "cancelled"}
               /\ new.status = St!SettlementStatus(new, refunded, day)
         /\ Dated(new)
<1> DEFINE new == St!Settled(row, refunded, day)
           status == St!SettlementStatus(row, refunded, day)
<1>1. status \in {"refunded", "paid", "overdue", "partially_paid", "viewed", "sent"}
  BY DEF St!SettlementStatus
<1>2. CASE row.status \in {"draft", "cancelled"}
  BY <1>2 DEF St!Settled
<1>3. CASE row.status \notin {"draft", "cancelled"}
  <2>1. new = [row EXCEPT !.status = status, !.paidAt = St!PaidAt(status, row.paidAt)]
    BY <1>3 DEF St!Settled
  <2>2. St!PaidAt(status, row.paidAt) \in BOOLEAN
    BY DEF St!PaidAt, St!InvoiceRows
  <2>3. /\ new \in St!InvoiceRows
        /\ new.status = status /\ new.paidAt = St!PaidAt(status, row.paidAt)
        /\ new.total = row.total /\ new.paid = row.paid /\ new.due = row.due /\ new.viewed = row.viewed
    BY <1>1, <2>1, <2>2 DEF St!InvoiceRows, St!Statuses
  <2> HIDE DEF new
  <2>4. St!SettlementStatus(new, refunded, day) = status
    BY <2>3 DEF St!SettlementStatus, St!Late
  <2>5. Dated(new)
    BY <1>1, <2>3 DEF Dated, St!PaidAt
  <2> QED
    BY <1>1, <1>3, <2>3, <2>4, <2>5 DEF new
<1> QED
  BY <1>2, <1>3

LEMMA AfterRow ==
  ASSUME SettleInv, NEW pays, NEW touched \in SUBSET Documents, NEW settled \in SUBSET Documents,
         NEW day \in 0 .. settlementToday, St!TriggerAllows(pays, touched),
         \A j \in Documents \ touched, kind \in St!Kinds : St!Given(pays, kind, j) = St!Given(payment, kind, j),
         NEW i \in Documents, NEW row, row = St!AfterAllocating(pays, touched, settled, day)[i]
  PROVE  /\ row \in St!InvoiceRows
         /\ row.paid = St!Net(pays, i) /\ row.paid \in 0 .. row.total
         /\ Dated(row)
         /\ (row.status = "draft") = (invoice[i].status = "draft")
         /\ invoice[i].status = "cancelled" => row.status = "cancelled"
         /\ i \notin touched /\ (i \notin settled \/ invoice[i].status = "draft") => row = invoice[i]
         /\ i \in settled \/ (i \notin touched /\ i \notin missed) =>
               Matches(row, St!Given(pays, "refund", i), settlementToday)
<1> DEFINE old == IF i \in touched THEN [invoice[i] EXCEPT !.paid = St!Net(pays, i)] ELSE invoice[i]
           refunded == St!Given(pays, "refund", i)
<1>1. row = IF i \in settled THEN St!Settled(old, refunded, day) ELSE old
  BY DEF St!AfterAllocating
<1>2. invoice[i] \in St!InvoiceRows /\ Dated(invoice[i])
  BY DEF SettleInv, SettleShape, St!PaidAtFollows, Dated
<1>3. i \in touched => St!Net(pays, i) \in 0 .. invoice[i].total
  BY DEF St!TriggerAllows
<1>4. i \notin touched => St!Net(pays, i) = invoice[i].paid /\ refunded = St!Given(payment, "refund", i)
  BY DEF SettleInv, St!LedgerBalances, St!Net, St!Kinds
<1>5. /\ old \in St!InvoiceRows /\ old.paid = St!Net(pays, i) /\ old.total = invoice[i].total
      /\ old.paid \in 0 .. old.total
      /\ old.status = invoice[i].status /\ old.paidAt = invoice[i].paidAt
      /\ i \notin touched => old = invoice[i]
  <2>1. CASE i \in touched
    <3>1. St!Net(pays, i) \in Int
      BY <1>2, <1>3, <2>1, InvoicesAssumption DEF St!InvoiceRows
    <3> QED
      BY <1>2, <1>3, <2>1, <3>1 DEF St!InvoiceRows
  <2>2. CASE i \notin touched
    BY <1>2, <1>4, <2>2 DEF SettleInv, Within
  <2> QED
    BY <2>1, <2>2
<1>6. Dated(old)
  BY <1>2, <1>5 DEF Dated
<1> HIDE DEF old, refunded
<1>7. CASE i \in settled
  <2>1. row = St!Settled(old, refunded, day)
    BY <1>1, <1>7
  <2>2. Matches(row, refunded, settlementToday)
    BY <1>5, <1>6, <2>1, SettledRow DEF Matches
  <2> QED
    BY <1>5, <1>6, <1>7, <2>1, <2>2, SettledRow DEF refunded
<1>8. CASE i \notin settled
  <2>1. row = old
    BY <1>1, <1>8
  <2>2. i \notin touched /\ i \notin missed => Matches(invoice[i], St!Given(payment, "refund", i), settlementToday)
    BY StatusMatchesIs DEF SettleInv, St!StatusInLine
  <2> QED
    BY <1>4, <1>5, <1>6, <1>8, <2>1, <2>2 DEF refunded
<1> QED
  BY <1>7, <1>8

Unclerked == SettleShape /\ Within /\ DraftsBlank /\ St!LedgerBalances /\ St!StatusInLine /\ St!PaidAtFollows

(* When each row is as the allocations say it is, all of it is.            *)
LEMMA RowsKeep ==
  ASSUME SettleInv, NEW pays \in PayRows, NEW rows \in [Documents -> St!InvoiceRows],
         payment' = pays, invoice' = rows, settlementToday' = settlementToday, missed' \subseteq Documents,
         clerk' \in [Txs -> ClerkRows],
         \A p \in St!Recorded(pays) : St!Allocated(pays[p]) <= pays[p].amount,
         \A i \in Documents :
            /\ rows[i].paid = St!Net(pays, i) /\ rows[i].paid \in 0 .. rows[i].total
            /\ Dated(rows[i])
            /\ (rows[i].status = "draft") = (invoice[i].status = "draft")
            /\ invoice[i].status = "cancelled" => rows[i].status = "cancelled"
            /\ rows[i].status = "draft" =>
                  rows[i] = invoice[i] /\ \A p \in Payments : St!Put(payment, p, i) = 0 => St!Put(pays, p, i) = 0
            /\ i \notin missed' => Matches(rows[i], St!Given(pays, "refund", i), settlementToday)
  PROVE  Unclerked' /\ StaysClosed
<1>1. SettleShape'
  BY DEF SettleShape, SettleInv, PayRows
<1>2. Within' /\ St!PaidAtFollows' /\ StaysClosed
  BY DEF Within, St!PaidAtFollows, Dated, StaysClosed
<1>3. DraftsBlank'
  <2> SUFFICES ASSUME NEW i \in Documents, rows[i].status = "draft"
               PROVE  rows[i] = St!Blank /\ \A p \in Payments : St!Put(pays, p, i) = 0
    BY DEF DraftsBlank, St!Put
  <2>1. invoice[i].status = "draft" /\ rows[i] = invoice[i]
    OBVIOUS
  <2> QED
    BY <2>1 DEF SettleInv, DraftsBlank
<1>4. St!LedgerBalances'
  BY DEF St!LedgerBalances, St!Net, St!Given, St!Recorded, St!Put, St!Allocated
<1>5. St!StatusInLine'
  <2> SUFFICES ASSUME NEW i \in Documents \ missed' PROVE St!StatusMatches(i)'
    BY DEF St!StatusInLine
  <2>1. Matches(rows[i], St!Given(pays, "refund", i), settlementToday)
    OBVIOUS
  <2>2. St!StatusMatches(i)' <=> Matches(invoice'[i], St!Given(payment', "refund", i), settlementToday')
    BY DEF St!StatusMatches, Matches, St!Given, St!Recorded, St!Put, St!SettlementStatus, St!Late
  <2> QED
    BY <2>1, <2>2
<1> QED
  BY <1>1, <1>2, <1>3, <1>4, <1>5 DEF Unclerked

(* What the handlers do with allocations: they change some, the trigger    *)
(* sums those, and the invoices the handler knows of are settled.          *)
LEMMA AllocatingKeeps ==
  ASSUME SettleInv, NEW pays \in PayRows, NEW touched \in SUBSET Documents, NEW settled \in SUBSET Documents,
         NEW day \in 0 .. settlementToday, St!TriggerAllows(pays, touched),
         \A j \in Documents \ touched, kind \in St!Kinds : St!Given(pays, kind, j) = St!Given(payment, kind, j),
         \A j \in touched : invoice[j].status # "draft",
         \A j \in Documents \ touched, p \in Payments : St!Put(payment, p, j) = 0 => St!Put(pays, p, j) = 0,
         \A p \in St!Recorded(pays) : St!Allocated(pays[p]) <= pays[p].amount,
         payment' = pays, settlementToday' = settlementToday, missed' \subseteq Documents,
         clerk' \in [Txs -> ClerkRows],
         invoice' = St!AfterAllocating(pays, touched, settled, day),
         \A j \in Documents \ missed' : j \in settled \/ (j \notin touched /\ j \notin missed)
  PROVE  Unclerked' /\ StaysClosed
<1> DEFINE rows == St!AfterAllocating(pays, touched, settled, day)
<1>1. ASSUME NEW i \in Documents
      PROVE  /\ rows[i] \in St!InvoiceRows
             /\ rows[i].paid = St!Net(pays, i) /\ rows[i].paid \in 0 .. rows[i].total
             /\ Dated(rows[i])
             /\ (rows[i].status = "draft") = (invoice[i].status = "draft")
             /\ invoice[i].status = "cancelled" => rows[i].status = "cancelled"
             /\ i \notin touched /\ (i \notin settled \/ invoice[i].status = "draft") => rows[i] = invoice[i]
             /\ i \in settled \/ (i \notin touched /\ i \notin missed) =>
                   Matches(rows[i], St!Given(pays, "refund", i), settlementToday)
  BY AfterRow
<1>2. rows \in [Documents -> St!InvoiceRows]
  BY <1>1 DEF St!AfterAllocating
<1>3. rows = invoice'
  OBVIOUS
<1> HIDE DEF rows
<1>4. \A i \in Documents : i \notin missed' => Matches(rows[i], St!Given(pays, "refund", i), settlementToday)
  BY <1>1
<1>5. \A i \in Documents : rows[i].status = "draft" =>
        rows[i] = invoice[i] /\ \A p \in Payments : St!Put(payment, p, i) = 0 => St!Put(pays, p, i) = 0
  BY <1>1
<1> QED
  BY <1>1, <1>2, <1>3, <1>4, <1>5, RowsKeep

LEMMA ClerkingKept ==
  ASSUME SettleInv, clerk' = clerk, settlementToday' \in Nat, settlementToday <= settlementToday', StaysClosed,
         \A c \in Txs : clerk[c].step = "locked" => payment'[clerk[c].pay] = payment[clerk[c].pay]
  PROVE  Clerking'
<1> SUFFICES ASSUME NEW c \in Txs
             PROVE  /\ clerk[c].step # "idle" => clerk[c].pay \in Payments /\ clerk[c].day <= settlementToday'
                    /\ clerk[c].step # "idle" => \A i \in clerk[c].list : invoice'[i].status # "draft"
                    /\ clerk[c].step = "locked" =>
                          /\ payment'[clerk[c].pay] # NoPayment
                          /\ clerk[c].held = {i \in Documents : payment'[clerk[c].pay].put[i] > 0}
                          /\ DOMAIN clerk[c].seen \cap clerk[c].held = {}
                          /\ \A i \in DOMAIN clerk[c].seen :
                                /\ invoice'[i].status # "draft"
                                /\ clerk[c].seen[i] \in St!InvoiceRows
                                /\ clerk[c].seen[i].status \notin {"draft", "cancelled"}
                                /\ Dated(clerk[c].seen[i])
                          /\ \A d \in Txs : clerk[d].step = "locked" /\ clerk[d].pay = clerk[c].pay => d = c
  BY DEF Clerking, Dated
<1>1. clerk[c] \in ClerkRows /\ settlementToday \in Nat /\ clerk[c].day \in Nat
  BY InvoicesAssumption DEF SettleInv, SettleShape, ClerkRows
<1>2. DOMAIN clerk[c].seen \subseteq Documents /\ clerk[c].list \subseteq Documents
  BY <1>1 DEF ClerkRows
<1>3. clerk[c].step # "idle" => \A i \in clerk[c].list : invoice'[i].status # "draft"
  BY <1>2 DEF SettleInv, Clerking, StaysClosed
<1> QED
  BY <1>1, <1>2, <1>3 DEF SettleInv, Clerking, StaysClosed

LEMMA OneRow ==
  ASSUME SettleInv, NEW i \in Documents, NEW row \in St!InvoiceRows,
         row.paid = invoice[i].paid, row.paid \in 0 .. row.total, Dated(row),
         row.status # "draft", invoice[i].status = "cancelled" => row.status = "cancelled",
         i \notin missed => Matches(row, St!Given(payment, "refund", i), settlementToday),
         invoice' = [invoice EXCEPT ![i] = row],
         UNCHANGED <<payment, clerk, settlementToday, missed>>
  PROVE  SettleInv' /\ StaysClosed
<1>1. invoice'[i] = row /\ \A j \in Documents : j # i => invoice'[j] = invoice[j]
  BY DEF SettleInv, SettleShape
<1>2. SettleShape'
  BY DEF SettleInv, SettleShape
<1>3. Within' /\ StaysClosed
  BY <1>1 DEF SettleInv, Within, StaysClosed
<1>4. St!PaidAtFollows'
  BY <1>1 DEF SettleInv, St!PaidAtFollows, Dated
<1>5. DraftsBlank'
  BY <1>1 DEF SettleInv, DraftsBlank, St!Put
<1>6. Clerking'
  <2>1. settlementToday \in Nat
    BY InvoicesAssumption DEF SettleInv, SettleShape
  <2> QED
    BY <1>3, <2>1, ClerkingKept
<1>7. St!LedgerBalances'
  <2>1. \A j \in Documents : invoice'[j].paid = St!Net(payment, j)
    BY <1>1 DEF SettleInv, St!LedgerBalances
  <2> QED
    BY <2>1 DEF SettleInv, St!LedgerBalances, St!Net, St!Given, St!Recorded, St!Put, St!Allocated
<1>8. St!StatusInLine'
  <2> SUFFICES ASSUME NEW j \in Documents \ missed PROVE St!StatusMatches(j)'
    BY DEF St!StatusInLine
  <2>1. Matches(invoice'[j], St!Given(payment, "refund", j), settlementToday)
    BY <1>1, StatusMatchesIs DEF SettleInv, St!StatusInLine
  <2>2. St!StatusMatches(j)' <=> Matches(invoice'[j], St!Given(payment', "refund", j), settlementToday')
    BY DEF St!StatusMatches, Matches, St!Given, St!Recorded, St!Put, St!SettlementStatus, St!Late
  <2> QED
    BY <2>1, <2>2
<1> QED
  BY <1>2, <1>3, <1>4, <1>5, <1>6, <1>7, <1>8 DEF SettleInv

LEMMA SendStep ==
  ASSUME SettleInv, NEW i \in Documents, NEW total \in Totals, NEW due \in St!Days \cup {NoDate}, St!Send(i, total, due)
  PROVE  SettleInv' /\ StaysClosed
<1> DEFINE row == [invoice[i] EXCEPT !.status = "sent", !.total = total, !.due = due]
<1>1. invoice[i].status = "draft" /\ invoice' = [invoice EXCEPT ![i] = row] /\ UNCHANGED <<payment, clerk, settlementToday, missed>>
  BY DEF St!Send
<1>2. invoice[i] = St!Blank /\ St!Given(payment, "refund", i) = 0
  BY <1>1, GivenNothing DEF SettleInv, DraftsBlank
<1>3. /\ row \in St!InvoiceRows /\ row.status = "sent" /\ row.total = total /\ row.due = due
      /\ row.paid = 0 /\ ~row.viewed /\ ~row.paidAt
  <2>1. invoice[i] \in St!InvoiceRows
    BY DEF SettleInv, SettleShape
  <2>2. invoice[i].paid = 0 /\ invoice[i].viewed = FALSE /\ invoice[i].paidAt = FALSE
    BY <1>2 DEF St!Blank
  <2> QED
    BY <2>1, <2>2 DEF St!InvoiceRows, St!Statuses
<1>4. total \in Nat /\ 0 \in 0 .. settlementToday /\ (due # NoDate => due \in Nat)
  BY InvoicesAssumption DEF SettleInv, SettleShape, St!Days
<1>5. Dated(row)
  BY <1>3 DEF Dated
<1>6. row.total > 0 => row.status = St!SettlementStatus(row, 0, 0)
  BY <1>3, <1>4 DEF St!SettlementStatus, St!Late
<1>7. Matches(row, 0, settlementToday)
  BY <1>4, <1>6 DEF Matches
<1>8. row.paid = invoice[i].paid /\ row.paid \in 0 .. row.total
  BY <1>2, <1>3, <1>4 DEF St!Blank
<1> HIDE DEF row
<1> QED
  BY <1>1, <1>2, <1>3, <1>5, <1>7, <1>8, OneRow

LEMMA ViewStep ==
  ASSUME SettleInv, NEW i \in Documents, St!RecordInvoiceView(i)
  PROVE  SettleInv' /\ StaysClosed
<1> DEFINE row == [invoice[i] EXCEPT !.status = "viewed", !.viewed = TRUE]
           refunded == St!Given(payment, "refund", i)
<1>1. /\ invoice[i].status = "sent" /\ ~invoice[i].viewed
      /\ invoice' = [invoice EXCEPT ![i] = row] /\ UNCHANGED <<payment, clerk, settlementToday, missed>>
  BY DEF St!RecordInvoiceView
<1>2. invoice[i] \in St!InvoiceRows /\ Dated(invoice[i]) /\ invoice[i].paid \in 0 .. invoice[i].total
  BY DEF SettleInv, SettleShape, Within, St!PaidAtFollows, Dated
<1>3. /\ row \in St!InvoiceRows /\ row.status = "viewed" /\ row.total = invoice[i].total /\ row.due = invoice[i].due
      /\ row.paid = invoice[i].paid /\ row.viewed /\ row.paidAt = invoice[i].paidAt
  BY <1>2 DEF St!InvoiceRows, St!Statuses
<1>4. Dated(row)
  BY <1>1, <1>2, <1>3 DEF Dated
<1> HIDE DEF row, refunded
<1>5. i \notin missed => Matches(row, refunded, settlementToday)
  <2> SUFFICES ASSUME i \notin missed, row.total > 0 PROVE \E day \in 0 .. settlementToday : row.status = St!SettlementStatus(row, refunded, day)
    BY DEF Matches
  <2>1. PICK day \in 0 .. settlementToday : invoice[i].status = St!SettlementStatus(invoice[i], refunded, day)
    BY <1>1, <1>3, StatusMatchesIs DEF Matches, refunded, SettleInv, St!StatusInLine
  <2>2. row.status = St!SettlementStatus(row, refunded, day)
    BY <1>1, <1>3, <2>1 DEF St!SettlementStatus, St!Late
  <2> QED
    BY <2>2
<1> QED
  BY <1>1, <1>2, <1>3, <1>4, <1>5, OneRow DEF refunded

LEMMA DueStep ==
  ASSUME SettleInv, NEW i \in Documents, NEW due \in St!Days, St!SetDueDate(i, due)
  PROVE  SettleInv' /\ StaysClosed
<1> DEFINE row == [invoice[i] EXCEPT !.due = due]
           refunded == St!Given(payment, "refund", i)
<1>1. /\ invoice[i].status \notin {"draft", "cancelled"} /\ invoice[i].due = NoDate
      /\ invoice' = [invoice EXCEPT ![i] = row] /\ UNCHANGED <<payment, clerk, settlementToday, missed>>
  BY DEF St!SetDueDate
<1>2. invoice[i] \in St!InvoiceRows /\ Dated(invoice[i]) /\ invoice[i].paid \in 0 .. invoice[i].total
  BY DEF SettleInv, SettleShape, Within, St!PaidAtFollows, Dated
<1>3. /\ row \in St!InvoiceRows /\ row.status = invoice[i].status /\ row.total = invoice[i].total /\ row.due = due
      /\ row.paid = invoice[i].paid /\ row.viewed = invoice[i].viewed /\ row.paidAt = invoice[i].paidAt
  BY <1>2 DEF St!InvoiceRows
<1>4. Dated(row) /\ due \in Nat /\ 0 \in 0 .. settlementToday
  BY <1>2, <1>3, InvoicesAssumption DEF Dated, St!Days, SettleInv, SettleShape
<1> HIDE DEF row, refunded
<1>5. i \notin missed => Matches(row, refunded, settlementToday)
  <2> SUFFICES ASSUME i \notin missed, row.total > 0 PROVE row.status = St!SettlementStatus(row, refunded, 0)
    BY <1>4 DEF Matches
  <2>1. PICK day \in 0 .. settlementToday : invoice[i].status = St!SettlementStatus(invoice[i], refunded, day)
    BY <1>1, <1>3, StatusMatchesIs DEF Matches, refunded, SettleInv, St!StatusInLine
  <2>2. ~St!Late(invoice[i], day) /\ ~St!Late(row, 0)
    BY <1>1, <1>3, <1>4 DEF St!Late
  <2> QED
    BY <1>3, <2>1, <2>2 DEF St!SettlementStatus
<1> QED
  BY <1>1, <1>2, <1>3, <1>4, <1>5, OneRow DEF refunded

LEMMA CancelStep ==
  ASSUME SettleInv, NEW i \in Documents, St!Cancel(i)
  PROVE  SettleInv' /\ StaysClosed
<1> DEFINE row == [invoice[i] EXCEPT !.status = "cancelled"]
<1>1. invoice' = [invoice EXCEPT ![i] = row] /\ UNCHANGED <<payment, clerk, settlementToday, missed>>
  BY DEF St!Cancel
<1>2. invoice[i] \in St!InvoiceRows /\ invoice[i].paid \in 0 .. invoice[i].total
  BY DEF SettleInv, SettleShape, Within
<1>3. /\ row \in St!InvoiceRows /\ row.status = "cancelled" /\ row.total = invoice[i].total /\ row.paid = invoice[i].paid
  BY <1>2 DEF St!InvoiceRows, St!Statuses
<1> HIDE DEF row
<1>4. Dated(row) /\ \A refunded : Matches(row, refunded, settlementToday)
  BY <1>3 DEF Dated, Matches
<1> QED
  BY <1>1, <1>2, <1>3, <1>4, OneRow

-----------------------------------------------------------------------------
(* What of a payment is put somewhere.                                     *)
LEMMA AllocatedIs ==
  ASSUME NEW pay \in St!PaymentRows
  PROVE  /\ St!Allocated(pay) = SumFunctionOnSet(pay.put, Documents)
         /\ \A i \in Documents : pay.put[i] \in 0 .. MaxAmount /\ pay.put[i] \in Nat
         /\ St!Allocated(pay) \in Int
<1>1. pay.put \in [Documents -> 0 .. MaxAmount] /\ DOMAIN pay.put = Documents
  BY DEF St!PaymentRows, St!Amounts
<1>2. \A i \in Documents : pay.put[i] \in 0 .. MaxAmount /\ pay.put[i] \in Nat /\ pay.put[i] \in Int
  BY <1>1, InvoicesAssumption
<1>3. St!Allocated(pay) = SumFunctionOnSet(pay.put, Documents)
  BY <1>1, SameSumOf DEF St!Allocated
<1>4. SumFunctionOnSet(pay.put, Documents) \in Int
  BY <1>2, SumInt, InvoicesAssumption
<1> QED
  BY <1>2, <1>3, <1>4

LEMMA AllocatedLess ==
  ASSUME NEW a \in St!PaymentRows, NEW b \in St!PaymentRows,
         \A j \in Documents : b.put[j] <= a.put[j]
  PROVE  St!Allocated(b) <= St!Allocated(a)
<1> PICK f, g : f = b.put /\ g = a.put
  OBVIOUS
<1>1. \A j \in Documents : f[j] \in Int /\ g[j] \in Int
  BY AllocatedIs
<1>2. \A j \in Documents : f[j] <= g[j]
  OBVIOUS
<1>3. SumFunctionOnSet(f, Documents) <= SumFunctionOnSet(g, Documents)
  BY <1>1, <1>2, SumAtMost, InvoicesAssumption
<1> QED
  BY <1>3, AllocatedIs

LEMMA AllocatedChanges ==
  ASSUME NEW a \in St!PaymentRows, NEW b \in St!PaymentRows, NEW i \in Documents,
         \A j \in Documents \ {i} : a.put[j] = b.put[j]
  PROVE  St!Allocated(b) = St!Allocated(a) - a.put[i] + b.put[i]
<1> PICK f, g : f = a.put /\ g = b.put
  OBVIOUS
<1>1. \A j \in Documents : f[j] \in Int /\ g[j] \in Int
  BY AllocatedIs
<1>2. SumFunctionOnSet(g, Documents) = SumFunctionOnSet(f, Documents) - f[i] + g[i]
  BY <1>1, SumChange, InvoicesAssumption
<1> QED
  BY <1>2, AllocatedIs

LEMMA PayIs ==
  ASSUME SettleInv, NEW p \in Payments, payment[p] # NoPayment
  PROVE  payment[p] \in St!PaymentRows /\ p \in St!Recorded(payment) /\ St!Allocated(payment[p]) <= payment[p].amount
BY DEF SettleInv, SettleShape, PayRows, St!Recorded, St!LedgerBalances

LEMMA RecordStep ==
  ASSUME SettleInv, NEW p \in Payments, NEW amount \in St!Amounts \ {0}, NEW kind \in St!Kinds,
         NEW put \in [Documents -> St!Amounts], St!PaymentRecord(p, kind, amount, put)
  PROVE  SettleInv' /\ StaysClosed
<1> DEFINE target == {i \in Documents : put[i] > 0}
           row    == [kind |-> kind, amount |-> amount, put |-> put]
           pays   == [payment EXCEPT ![p] = row]
<1>1. /\ payment[p] = NoPayment /\ \A c \in Txs : clerk[c].pay # p
      /\ St!Allocated(row) <= amount
      /\ \A i \in target : invoice[i].status # "draft"
      /\ St!TriggerAllows(pays, target)
      /\ payment' = pays
      /\ invoice' = St!AfterAllocating(pays, target, target, settlementToday)
      /\ missed' = missed \ target
      /\ UNCHANGED <<clerk, settlementToday>>
  BY DEF St!PaymentRecord, St!MayPut
<1>2. row \in St!PaymentRows /\ pays \in PayRows
  BY DEF St!PaymentRows, PayRows, SettleInv, SettleShape
<1>3. pays[p] = row /\ (\A q \in Payments \ {p} : pays[q] = payment[q]) /\ payment \in PayRows
  BY DEF PayRows, SettleInv, SettleShape
<1>4. \A q \in St!Recorded(pays) : St!Allocated(pays[q]) <= pays[q].amount
  <2> SUFFICES ASSUME NEW q \in St!Recorded(pays) PROVE St!Allocated(pays[q]) <= pays[q].amount
    OBVIOUS
  <2>1. q \in Payments /\ pays[q] # NoPayment
    BY DEF St!Recorded
  <2> HIDE DEF pays, row
  <2>2. CASE q = p
    BY <1>1, <1>3, <2>2 DEF row
  <2>3. CASE q # p
    BY <1>3, <2>1, <2>3, PayIs
  <2> QED
    BY <2>2, <2>3
<1>5. \A j \in Documents \ target : St!Put(payment, p, j) = 0 /\ St!Put(pays, p, j) = 0
  <2> SUFFICES ASSUME NEW j \in Documents \ target PROVE put[j] = 0
    BY <1>1, <1>3 DEF St!Put
  <2>1. put[j] \in 0 .. MaxAmount /\ ~(put[j] > 0)
    BY DEF St!Amounts
  <2> QED
    BY <2>1, InvoicesAssumption
<1> HIDE DEF pays, row
<1>6. \A j \in Documents \ target, k \in St!Kinds : St!Given(pays, k, j) = St!Given(payment, k, j)
  BY <1>2, <1>3, <1>5, GivenKept
<1>7. \A j \in Documents \ target, q \in Payments : St!Put(payment, q, j) = 0 => St!Put(pays, q, j) = 0
  BY <1>3, <1>5 DEF St!Put
<1>8. target \in SUBSET Documents /\ settlementToday \in 0 .. settlementToday /\ settlementToday \in Nat
  BY InvoicesAssumption DEF SettleInv, SettleShape
<1>9. missed' \subseteq Documents /\ (\A j \in Documents \ missed' : j \in target \/ (j \notin target /\ j \notin missed))
      /\ clerk' \in [Txs -> ClerkRows]
  BY <1>1 DEF SettleInv, SettleShape
<1> HIDE DEF target
<1>10. Unclerked' /\ StaysClosed
  BY <1>1, <1>2, <1>4, <1>6, <1>7, <1>8, <1>9, AllocatingKeeps
<1>11. \A c \in Txs : clerk[c].step = "locked" => payment'[clerk[c].pay] = payment[clerk[c].pay]
  BY <1>1, <1>3 DEF SettleInv, Clerking
<1>12. Clerking'
  BY <1>1, <1>8, <1>10, <1>11, ClerkingKept
<1> QED
  BY <1>10, <1>12 DEF SettleInv, Unclerked

LEMMA AllocateStep ==
  ASSUME SettleInv, NEW p \in Payments, NEW i \in Documents, NEW amount \in St!Amounts \ {0}, St!PaymentAllocate(p, i, amount)
  PROVE  SettleInv' /\ StaysClosed
<1> DEFINE row  == [payment[p] EXCEPT !.put[i] = amount]
           pays == [payment EXCEPT ![p].put[i] = amount]
<1>1. /\ payment[p] # NoPayment /\ \A c \in Txs : ~(clerk[c].step = "locked" /\ clerk[c].pay = p)
      /\ payment[p].put[i] = 0
      /\ amount <= payment[p].amount - St!Allocated(payment[p])
      /\ invoice[i].status # "draft"
      /\ St!TriggerAllows(pays, {i})
      /\ payment' = pays
      /\ invoice' = St!AfterAllocating(pays, {i}, {i}, settlementToday)
      /\ missed' = missed \ {i}
      /\ UNCHANGED <<clerk, settlementToday>>
  BY DEF St!PaymentAllocate, St!MayPut, St!PaymentFree
<1>2. payment[p] \in St!PaymentRows /\ payment \in PayRows /\ St!Allocated(payment[p]) <= payment[p].amount
  BY <1>1, PayIs DEF SettleInv, SettleShape
<1>3. /\ row \in St!PaymentRows /\ row.amount = payment[p].amount /\ row.kind = payment[p].kind /\ row.put[i] = amount
      /\ \A j \in Documents \ {i} : row.put[j] = payment[p].put[j]
  BY <1>2 DEF St!PaymentRows
<1>4. pays = [payment EXCEPT ![p] = row]
  BY <1>2 DEF PayRows
<1> HIDE DEF pays, row
<1>5. pays \in PayRows /\ pays[p] = row /\ \A q \in Payments \ {p} : pays[q] = payment[q]
  BY <1>2, <1>3, <1>4 DEF PayRows
<1>6. St!Allocated(row) <= row.amount
  <2>1. St!Allocated(row) = St!Allocated(payment[p]) - payment[p].put[i] + row.put[i]
    BY <1>2, <1>3, AllocatedChanges
  <2>2. amount \in Int /\ St!Allocated(payment[p]) \in Int /\ payment[p].amount \in Int
    BY <1>2, AllocatedIs, InvoicesAssumption DEF St!Amounts, St!PaymentRows
  <2> QED
    BY <1>1, <1>3, <2>1, <2>2
<1>7. \A q \in St!Recorded(pays) : St!Allocated(pays[q]) <= pays[q].amount
  <2> SUFFICES ASSUME NEW q \in Payments, pays[q] # NoPayment PROVE St!Allocated(pays[q]) <= pays[q].amount
    BY DEF St!Recorded
  <2>1. q # p => payment[q] # NoPayment /\ pays[q] = payment[q]
    BY <1>5
  <2> QED
    BY <1>5, <1>6, <2>1, PayIs
<1>8. \A j \in Documents \ {i}, k \in St!Kinds : St!Given(pays, k, j) = St!Given(payment, k, j)
  <2> SUFFICES ASSUME NEW j \in Documents \ {i}, NEW k \in St!Kinds PROVE St!Given(pays, k, j) = St!Given(payment, k, j)
    OBVIOUS
  <2>1. row # NoPayment
    BY <1>3, InvoicesAssumption
  <2> QED
    BY <1>1, <1>3, <1>5, <2>1, GivenSame
<1>9. \A j \in Documents \ {i}, q \in Payments : St!Put(payment, q, j) = 0 => St!Put(pays, q, j) = 0
  BY <1>1, <1>3, <1>5 DEF St!Put
<1>10. {i} \in SUBSET Documents /\ settlementToday \in 0 .. settlementToday /\ settlementToday \in Nat
  BY InvoicesAssumption DEF SettleInv, SettleShape
<1>11. missed' \subseteq Documents /\ (\A j \in Documents \ missed' : j \in {i} \/ (j \notin {i} /\ j \notin missed))
      /\ clerk' \in [Txs -> ClerkRows]
  BY <1>1 DEF SettleInv, SettleShape
<1>12. Unclerked' /\ StaysClosed
  BY <1>1, <1>5, <1>7, <1>8, <1>9, <1>10, <1>11, AllocatingKeeps
<1>13. \A c \in Txs : clerk[c].step = "locked" => payment'[clerk[c].pay] = payment[clerk[c].pay]
  BY <1>1, <1>5 DEF SettleInv, Clerking
<1>14. Clerking'
  BY <1>1, <1>10, <1>12, <1>13, ClerkingKept
<1> QED
  BY <1>12, <1>14 DEF SettleInv, Unclerked

LEMMA UpdateStep ==
  ASSUME SettleInv, NEW p \in Payments, NEW amount \in St!Amounts \ {0}, St!PaymentUpdate(p, amount)
  PROVE  SettleInv' /\ StaysClosed
<1> DEFINE row == [payment[p] EXCEPT !.amount = amount]
<1>1. /\ payment[p] # NoPayment /\ \A c \in Txs : ~(clerk[c].step = "locked" /\ clerk[c].pay = p)
      /\ St!Allocated(payment[p]) <= amount
      /\ payment' = [payment EXCEPT ![p].amount = amount]
      /\ UNCHANGED <<invoice, clerk, settlementToday, missed>>
  BY DEF St!PaymentUpdate, St!PaymentFree, St!AmountCovers
<1>2. payment[p] \in St!PaymentRows /\ payment \in PayRows
  BY <1>1, PayIs DEF SettleInv, SettleShape
<1>3. row \in St!PaymentRows /\ row.amount = amount /\ row.kind = payment[p].kind /\ row.put = payment[p].put
  BY <1>2 DEF St!PaymentRows
<1>4. payment' = [payment EXCEPT ![p] = row]
  BY <1>1, <1>2 DEF PayRows
<1> HIDE DEF row
<1>5. payment' \in PayRows /\ payment'[p] = row /\ row # NoPayment /\ \A q \in Payments \ {p} : payment'[q] = payment[q]
  BY <1>2, <1>3, <1>4, InvoicesAssumption DEF PayRows
<1>6. SettleShape' /\ StaysClosed
  BY <1>1, <1>5 DEF SettleInv, SettleShape, StaysClosed
<1>7. \A i \in Documents, kind \in St!Kinds : St!Given(payment', kind, i) = St!Given(payment, kind, i)
  <2> SUFFICES ASSUME NEW i \in Documents, NEW kind \in St!Kinds PROVE St!Given(payment', kind, i) = St!Given(payment, kind, i)
    OBVIOUS
  <2>1. \A q \in Payments :
          /\ (payment'[q] = NoPayment) = (payment[q] = NoPayment)
          /\ payment'[q] # NoPayment => payment'[q].kind = payment[q].kind /\ payment'[q].put[i] = payment[q].put[i]
    BY <1>1, <1>3, <1>5
  <2> QED
    BY <2>1, GivenSame
<1>8. Within' /\ St!PaidAtFollows'
  BY <1>1 DEF SettleInv, Within, St!PaidAtFollows
<1>9. DraftsBlank'
  BY <1>1, <1>3, <1>5 DEF SettleInv, DraftsBlank, St!Put
<1>10. St!LedgerBalances'
  <2>1. \A i \in Documents : invoice'[i].paid = St!Net(payment', i)
    BY <1>1, <1>7 DEF SettleInv, St!LedgerBalances, St!Net, St!Kinds
  <2>2. \A q \in St!Recorded(payment') : St!Allocated(payment'[q]) <= payment'[q].amount
    <3> SUFFICES ASSUME NEW q \in Payments, payment'[q] # NoPayment PROVE St!Allocated(payment'[q]) <= payment'[q].amount
      BY DEF St!Recorded
    <3>1. CASE q = p
      BY <1>1, <1>3, <1>5, <3>1 DEF St!Allocated
    <3>2. CASE q # p
      BY <1>5, <3>2, PayIs
    <3> QED
      BY <3>1, <3>2
  <2> QED
    BY <2>1, <2>2 DEF St!LedgerBalances, St!Net, St!Given, St!Recorded, St!Put, St!Allocated
<1>11. St!StatusInLine'
  <2> SUFFICES ASSUME NEW i \in Documents \ missed PROVE St!StatusMatches(i)'
    BY <1>1 DEF St!StatusInLine
  <2>1. Matches(invoice[i], St!Given(payment', "refund", i), settlementToday)
    BY <1>7, StatusMatchesIs DEF SettleInv, St!StatusInLine, St!Kinds
  <2>2. St!StatusMatches(i)' <=> Matches(invoice'[i], St!Given(payment', "refund", i), settlementToday')
    BY DEF St!StatusMatches, Matches, St!Given, St!Recorded, St!Put, St!SettlementStatus, St!Late
  <2> QED
    BY <1>1, <2>1, <2>2
<1>12. Clerking'
  <2>1. \A c \in Txs : clerk[c].step = "locked" => payment'[clerk[c].pay] = payment[clerk[c].pay]
    BY <1>1, <1>5 DEF SettleInv, Clerking
  <2>2. settlementToday \in Nat
    BY InvoicesAssumption DEF SettleInv, SettleShape
  <2> QED
    BY <1>1, <1>6, <2>1, <2>2, ClerkingKept
<1> QED
  BY <1>6, <1>8, <1>9, <1>10, <1>11, <1>12 DEF SettleInv

(* A step that leaves invoices and payments alone.                         *)
LEMMA MoneySame ==
  ASSUME SettleInv, UNCHANGED <<invoice, payment, missed>>, settlementToday' \in 0 .. LastDay,
         settlementToday <= settlementToday', clerk' \in [Txs -> ClerkRows]
  PROVE  Unclerked' /\ StaysClosed
<1>1. SettleShape' /\ Within' /\ St!PaidAtFollows' /\ StaysClosed
  BY DEF SettleInv, SettleShape, Within, St!PaidAtFollows, StaysClosed
<1>2. DraftsBlank' /\ St!LedgerBalances'
  BY DEF SettleInv, DraftsBlank, St!LedgerBalances, St!Net, St!Given, St!Recorded, St!Put, St!Allocated
<1>3. St!StatusInLine'
  <2> SUFFICES ASSUME NEW i \in Documents \ missed PROVE St!StatusMatches(i)'
    BY DEF St!StatusInLine
  <2>1. Matches(invoice[i], St!Given(payment, "refund", i), settlementToday)
    BY StatusMatchesIs DEF SettleInv, St!StatusInLine
  <2>2. \A day \in 0 .. settlementToday : day \in 0 .. settlementToday'
    BY InvoicesAssumption DEF SettleInv, SettleShape
  <2>3. Matches(invoice[i], St!Given(payment, "refund", i), settlementToday')
    BY <2>1, <2>2 DEF Matches
  <2>4. St!StatusMatches(i)' <=> Matches(invoice'[i], St!Given(payment', "refund", i), settlementToday')
    BY DEF St!StatusMatches, Matches, St!Given, St!Recorded, St!Put, St!SettlementStatus, St!Late
  <2> QED
    BY <2>3, <2>4
<1> QED
  BY <1>1, <1>2, <1>3 DEF Unclerked

LEMMA TickStep ==
  ASSUME SettleInv, St!Tick
  PROVE  SettleInv' /\ StaysClosed
<1>1. settlementToday' = settlementToday + 1 /\ settlementToday < LastDay /\ UNCHANGED <<invoice, payment, clerk, missed>>
  BY DEF St!Tick
<1>2. settlementToday \in Nat /\ settlementToday' \in 0 .. LastDay /\ settlementToday' \in Nat /\ settlementToday <= settlementToday'
  BY <1>1, InvoicesAssumption DEF SettleInv, SettleShape
<1>3. clerk' \in [Txs -> ClerkRows]
  BY <1>1 DEF SettleInv, SettleShape
<1>4. Unclerked' /\ StaysClosed
  BY <1>1, <1>2, <1>3, MoneySame
<1>5. Clerking'
  BY <1>1, <1>2, <1>4, ClerkingKept
<1> QED
  BY <1>4, <1>5 DEF SettleInv, Unclerked

LEMMA SweepStep ==
  ASSUME SettleInv, St!MarkOverdueInvoices
  PROVE  SettleInv' /\ StaysClosed
<1> DEFINE due == St!DueForSweep
<1>1. /\ invoice' = St!AfterAllocating(payment, {}, due, settlementToday)
      /\ missed' = missed \ due
      /\ UNCHANGED <<payment, clerk, settlementToday>>
  BY DEF St!MarkOverdueInvoices
<1>2. due \in SUBSET Documents
  BY DEF St!DueForSweep
<1> HIDE DEF due
<1>3. {} \in SUBSET Documents /\ settlementToday \in 0 .. settlementToday /\ settlementToday \in Nat
      /\ payment \in PayRows /\ clerk' \in [Txs -> ClerkRows] /\ missed' \subseteq Documents
  BY <1>1, InvoicesAssumption DEF SettleInv, SettleShape
<1>4. St!TriggerAllows(payment, {})
  BY DEF St!TriggerAllows
<1>5. \A p \in St!Recorded(payment) : St!Allocated(payment[p]) <= payment[p].amount
  BY DEF SettleInv, St!LedgerBalances
<1>6. \A j \in Documents \ missed' : j \in due \/ (j \notin {} /\ j \notin missed)
  BY <1>1
<1>7. Unclerked' /\ StaysClosed
  BY <1>1, <1>2, <1>3, <1>4, <1>5, <1>6, AllocatingKeeps
<1>8. Clerking'
  BY <1>1, <1>3, <1>7, ClerkingKept
<1> QED
  BY <1>7, <1>8 DEF SettleInv, Unclerked

-----------------------------------------------------------------------------
(* What a clerk must know at a step.                                       *)
Knows(x) ==
    /\ x.step # "idle" => x.pay \in Payments /\ x.day <= settlementToday
    /\ x.step # "idle" => \A i \in x.list : invoice[i].status # "draft"
    /\ x.step = "locked" =>
          /\ payment[x.pay] # NoPayment
          /\ x.held = {i \in Documents : payment[x.pay].put[i] > 0}
          /\ DOMAIN x.seen \cap x.held = {}
          /\ \A i \in DOMAIN x.seen :
                /\ invoice[i].status # "draft"
                /\ x.seen[i] \in St!InvoiceRows
                /\ x.seen[i].status \notin {"draft", "cancelled"}
                /\ Dated(x.seen[i])

LEMMA ClerkingIs ==
  Clerking <=> /\ \A c \in Txs : Knows(clerk[c])
               /\ \A c, d \in Txs : clerk[c].step = "locked" /\ clerk[d].step = "locked" /\ clerk[d].pay = clerk[c].pay => d = c
BY DEF Clerking, Knows

LEMMA ClerkMoves ==
  ASSUME SettleInv, NEW c \in Txs, NEW x \in ClerkRows, Knows(x),
         x.step = "locked" => \A d \in Txs : ~(clerk[d].step = "locked" /\ clerk[d].pay = x.pay),
         clerk' = [clerk EXCEPT ![c] = x], UNCHANGED <<invoice, payment, settlementToday, missed>>
  PROVE  SettleInv' /\ StaysClosed
<1>1. settlementToday' \in 0 .. LastDay /\ settlementToday <= settlementToday'
  BY InvoicesAssumption DEF SettleInv, SettleShape
<1>2. clerk' \in [Txs -> ClerkRows] /\ clerk'[c] = x /\ \A d \in Txs \ {c} : clerk'[d] = clerk[d]
  BY DEF SettleInv, SettleShape
<1>3. Unclerked' /\ StaysClosed
  BY <1>1, <1>2, MoneySame
<1>4. Clerking'
  <2>1. (\A d \in Txs : Knows(clerk[d]))
        /\ \A d, e \in Txs : clerk[d].step = "locked" /\ clerk[e].step = "locked" /\ clerk[e].pay = clerk[d].pay => e = d
    BY ClerkingIs DEF SettleInv
  <2>2. \A d \in Txs : Knows(clerk'[d])
    BY <1>2, <2>1
  <2>3. \A d, e \in Txs : clerk'[d].step = "locked" /\ clerk'[e].step = "locked" /\ clerk'[e].pay = clerk'[d].pay => e = d
    BY <1>2, <2>1
  <2> QED
    BY <2>2, <2>3 DEF Clerking, Knows, Dated
<1> QED
  BY <1>3, <1>4 DEF SettleInv, Unclerked

LEMMA IdleClerk == St!Idle \in ClerkRows /\ Knows(St!Idle) /\ St!Idle.step = "idle"
BY InvoicesAssumption DEF St!Idle, ClerkRows, Knows

LEMMA ReadForDeleteStep ==
  ASSUME SettleInv, NEW c \in Txs, NEW p \in Payments, St!ReadForDelete(c, p)
  PROVE  SettleInv' /\ StaysClosed
<1> DEFINE x == [St!Idle EXCEPT !.step = "read", !.op = "delete", !.pay = p, !.day = settlementToday,
                                !.list = {j \in Documents : payment[p].put[j] > 0}]
<1>1. settlementToday \in 0 .. LastDay /\ settlementToday <= settlementToday
  BY InvoicesAssumption DEF SettleInv, SettleShape
<1>2. payment[p] # NoPayment /\ clerk' = [clerk EXCEPT ![c] = x] /\ UNCHANGED <<invoice, payment, settlementToday, missed>>
  BY DEF St!ReadForDelete
<1>3. x \in ClerkRows /\ x.step = "read" /\ x.pay = p /\ x.day = settlementToday
      /\ x.list = {j \in Documents : payment[p].put[j] > 0}
  BY <1>1 DEF St!Idle, ClerkRows
<1>4. \A j \in x.list : invoice[j].status # "draft"
  BY <1>2, <1>3 DEF SettleInv, DraftsBlank, St!Put
<1> HIDE DEF x
<1> QED
  BY <1>1, <1>2, <1>3, <1>4, ClerkMoves DEF Knows

LEMMA ReadForUnallocateStep ==
  ASSUME SettleInv, NEW c \in Txs, NEW p \in Payments, NEW i \in Documents, St!ReadForUnallocate(c, p, i)
  PROVE  SettleInv' /\ StaysClosed
<1> DEFINE x == [St!Idle EXCEPT !.step = "read", !.op = "unallocate", !.pay = p, !.day = settlementToday,
                                !.list = {i}, !.live = TRUE]
<1>1. settlementToday \in 0 .. LastDay /\ settlementToday <= settlementToday
  BY InvoicesAssumption DEF SettleInv, SettleShape
<1>2. St!Put(payment, p, i) > 0 /\ clerk' = [clerk EXCEPT ![c] = x] /\ UNCHANGED <<invoice, payment, settlementToday, missed>>
  BY DEF St!ReadForUnallocate
<1>3. x \in ClerkRows /\ x.step = "read" /\ x.pay = p /\ x.day = settlementToday /\ x.list = {i}
  BY <1>1 DEF St!Idle, ClerkRows
<1>4. invoice[i].status # "draft"
  BY <1>2 DEF SettleInv, DraftsBlank
<1> HIDE DEF x
<1> QED
  BY <1>1, <1>2, <1>3, <1>4, ClerkMoves DEF Knows

LEMMA NotFoundStep ==
  ASSUME SettleInv, NEW c \in Txs, St!NotFound(c)
  PROVE  SettleInv' /\ StaysClosed
BY IdleClerk, ClerkMoves DEF St!NotFound

LEMMA LockStep ==
  ASSUME SettleInv, NEW c \in Txs, St!LockForDelete(c)
  PROVE  SettleInv' /\ StaysClosed
<1> DEFINE p    == clerk[c].pay
           held == {i \in Documents : payment[p].put[i] > 0}
           resettled(i) == St!Settled(invoice[i], St!Given(payment, "refund", i), clerk[c].day)
           stale == {i \in clerk[c].list \ held : resettled(i) # invoice[i]}
           seen == [i \in stale |-> resettled(i)]
           x == [clerk[c] EXCEPT !.step = "locked", !.held = held, !.seen = seen]
<1>1. /\ clerk[c].step = "read" /\ payment[p] # NoPayment
      /\ \A d \in Txs : ~(clerk[d].step = "locked" /\ clerk[d].pay = p)
      /\ clerk' = [clerk EXCEPT ![c] = x]
      /\ UNCHANGED <<invoice, payment, settlementToday, missed>>
  BY DEF St!LockForDelete, St!PaymentFree
<1>2. clerk[c] \in ClerkRows /\ p \in Payments /\ clerk[c].day <= settlementToday /\ clerk[c].list \subseteq Documents
  BY <1>1 DEF SettleInv, SettleShape, Clerking, ClerkRows
<1>3. stale \subseteq Documents /\ stale \cap held = {} /\ held \subseteq Documents
  BY <1>2
<1>4. \A i \in stale : /\ resettled(i) \in St!InvoiceRows
                       /\ invoice[i].status # "draft"
                       /\ resettled(i).status \notin {"draft", "cancelled"}
                       /\ Dated(resettled(i))
  <2> SUFFICES ASSUME NEW i \in stale
               PROVE  /\ resettled(i) \in St!InvoiceRows
                      /\ invoice[i].status # "draft"
                      /\ resettled(i).status \notin {"draft", "cancelled"}
                      /\ Dated(resettled(i))
    OBVIOUS
  <2>1. invoice[i] \in St!InvoiceRows /\ Dated(invoice[i])
    BY <1>3 DEF SettleInv, SettleShape, St!PaidAtFollows, Dated
  <2>2. resettled(i) # invoice[i]
    OBVIOUS
  <2> QED
    BY <2>1, <2>2, SettledRow
<1>5. seen \in [stale -> St!InvoiceRows] /\ DOMAIN seen = stale /\ \A i \in stale : seen[i] = resettled(i)
  BY <1>4
<1> HIDE DEF held, stale, resettled, seen
<1>6. /\ x \in ClerkRows /\ x.step = "locked" /\ x.pay = p /\ x.day = clerk[c].day /\ x.held = held /\ x.seen = seen
      /\ x.list = clerk[c].list
  <2>1. seen \in {<<>>} \cup UNION {[S -> St!InvoiceRows] : S \in SUBSET Documents}
    <3>1. [stale -> St!InvoiceRows] \in {[S -> St!InvoiceRows] : S \in SUBSET Documents}
      BY <1>3
    <3> QED
      BY <1>5, <3>1
  <2>2. held \in SUBSET Documents /\ "locked" \in {"idle", "read", "locked"}
    BY <1>3
  <2> QED
    BY <1>2, <2>1, <2>2 DEF ClerkRows
<1> HIDE DEF x
<1>7. Knows(x)
  <2>1. \A i \in clerk[c].list : invoice[i].status # "draft"
    BY <1>1 DEF SettleInv, Clerking
  <2> QED
    BY <1>1, <1>2, <1>3, <1>4, <1>5, <1>6, <2>1 DEF Knows, held
<1> QED
  BY <1>1, <1>6, <1>7, ClerkMoves

(* Clerks that go on, or are done, while a commit leaves what they hold.   *)
LEMMA ClerksKept ==
  ASSUME SettleInv, StaysClosed, settlementToday' = settlementToday,
         \A d \in Txs : \/ clerk'[d] = St!Idle
                       \/ /\ clerk'[d].step = clerk[d].step /\ clerk'[d].pay = clerk[d].pay
                          /\ clerk'[d].list = clerk[d].list /\ clerk'[d].day = clerk[d].day
                          /\ clerk'[d].held = clerk[d].held /\ clerk'[d].seen = clerk[d].seen
                          /\ clerk[d].step = "locked" => payment'[clerk[d].pay] = payment[clerk[d].pay]
  PROVE  Clerking'
<1>1. /\ \A d \in Txs : Knows(clerk[d])
      /\ \A d, e \in Txs : clerk[d].step = "locked" /\ clerk[e].step = "locked" /\ clerk[e].pay = clerk[d].pay => e = d
  BY ClerkingIs DEF SettleInv
<1>2. St!Idle.step = "idle"
  BY IdleClerk
<1>3. ASSUME NEW d \in Txs, clerk'[d].step # "idle"
      PROVE  /\ clerk[d].pay \in Payments /\ clerk[d].day <= settlementToday
             /\ \A i \in clerk[d].list : invoice'[i].status # "draft"
             /\ clerk[d].step = "locked" => \A i \in DOMAIN clerk[d].seen : invoice'[i].status # "draft"
  <2>1. clerk[d] \in ClerkRows /\ clerk[d].step # "idle"
    BY <1>2, <1>3 DEF SettleInv, SettleShape
  <2>2. clerk[d].list \subseteq Documents /\ DOMAIN clerk[d].seen \subseteq Documents
    BY <2>1 DEF ClerkRows
  <2> QED
    BY <1>1, <2>1, <2>2 DEF Knows, StaysClosed
<1>4. ASSUME NEW d \in Txs
      PROVE  Knows(clerk[d])'
  <2>1. CASE clerk'[d].step = "idle"
    BY <2>1 DEF Knows
  <2>2. CASE clerk'[d].step # "idle"
    BY <1>1, <1>2, <1>3, <2>2 DEF Knows, Dated
  <2> QED
    BY <2>1, <2>2
<1>5. \A d, e \in Txs : clerk'[d].step = "locked" /\ clerk'[e].step = "locked" /\ clerk'[e].pay = clerk'[d].pay => e = d
  BY <1>1, <1>2
<1> QED
  BY <1>4, <1>5 DEF Clerking, Knows, Dated

LEMMA DeleteCommits ==
  ASSUME SettleInv, NEW c \in Txs, St!CommitDelete(c)
  PROVE  SettleInv' /\ StaysClosed
<1> DEFINE p     == clerk[c].pay
           held  == clerk[c].held
           seen  == clerk[c].seen
           stale == DOMAIN seen
           pays  == [payment EXCEPT ![p] = NoPayment]
           after == St!AfterAllocating(pays, held, St!DeleteSettles(c), clerk[c].day)
           rows  == [i \in Documents |->
                        IF i \in stale THEN [after[i] EXCEPT !.status = seen[i].status, !.paidAt = seen[i].paidAt]
                        ELSE after[i]]
           lost  == (missed \ held) \cup (held \ clerk[c].list) \cup stale
           fits  == St!TriggerAllows(pays, held) /\ \A i \in stale : invoice[i].status # "cancelled"
<1>1. /\ clerk[c].step = "locked"
      /\ clerk' = [clerk EXCEPT ![c] = St!Idle] /\ settlementToday' = settlementToday
      /\ fits => payment' = pays /\ invoice' = rows /\ missed' = lost
      /\ ~fits => UNCHANGED <<payment, invoice, missed>>
  BY DEF St!CommitDelete, St!CancelledCheck
<1>2. CASE ~fits
  BY <1>1, <1>2, IdleClerk, ClerkMoves
<1>3. CASE fits
  <2>1. Knows(clerk[c]) /\ clerk[c] \in ClerkRows /\ payment \in PayRows
    BY ClerkingIs DEF SettleInv, SettleShape
  <2>2. /\ p \in Payments /\ clerk[c].day \in 0 .. settlementToday /\ payment[p] \in St!PaymentRows
        /\ held = {i \in Documents : payment[p].put[i] > 0} /\ stale \cap held = {}
        /\ stale \subseteq Documents /\ settlementToday \in Nat
    <3>1. /\ p \in Payments /\ clerk[c].day <= settlementToday /\ payment[p] # NoPayment
          /\ held = {i \in Documents : payment[p].put[i] > 0} /\ stale \cap held = {}
      BY <1>1, <2>1 DEF Knows
    <3>2. payment[p] \in St!PaymentRows
      BY <2>1, <3>1 DEF PayRows
    <3>3. stale \subseteq Documents /\ clerk[c].day \in 0 .. LastDay
      BY <2>1 DEF ClerkRows
    <3>4. settlementToday \in Nat
      BY InvoicesAssumption DEF SettleInv, SettleShape
    <3> QED
      BY <3>1, <3>2, <3>3, <3>4, InvoicesAssumption
  <2>3. pays \in PayRows /\ pays[p] = NoPayment /\ \A q \in Payments \ {p} : pays[q] = payment[q]
    BY <2>1, <2>2 DEF PayRows
  <2>4. \A j \in Documents \ held : St!Put(payment, p, j) = 0 /\ St!Put(pays, p, j) = 0
    BY <2>2, <2>3, AllocatedIs DEF St!Put
  <2>5. held \in SUBSET Documents /\ St!DeleteSettles(c) \subseteq held /\ St!DeleteSettles(c) = clerk[c].list \cap held
    BY <2>2 DEF St!DeleteSettles
  <2>6. St!TriggerAllows(pays, held)
    BY <1>3
  <2> HIDE DEF pays
  <2>7. \A j \in Documents \ held, k \in St!Kinds : St!Given(pays, k, j) = St!Given(payment, k, j)
    BY <2>1, <2>3, <2>4, GivenKept
  <2>8. \A q \in St!Recorded(pays) : St!Allocated(pays[q]) <= pays[q].amount
    <3> SUFFICES ASSUME NEW q \in Payments, pays[q] # NoPayment PROVE St!Allocated(pays[q]) <= pays[q].amount
      BY DEF St!Recorded
    <3>1. q # p /\ payment[q] # NoPayment /\ pays[q] = payment[q]
      BY <2>3
    <3> QED
      BY <3>1, PayIs
  <2>9. \A j \in Documents, q \in Payments : St!Put(payment, q, j) = 0 => St!Put(pays, q, j) = 0
    BY <2>3 DEF St!Put
  <2>10. \A j \in held : invoice[j].status # "draft"
    <3> SUFFICES ASSUME NEW j \in held, invoice[j].status = "draft" PROVE FALSE
      OBVIOUS
    <3>1. j \in Documents /\ payment[p].put[j] > 0
      BY <2>2
    <3>2. payment[p] # NoPayment
      BY <1>1, <2>1 DEF Knows
    <3>3. St!Put(payment, p, j) = 0
      BY <2>2, <3>1 DEF SettleInv, DraftsBlank
    <3>4. payment[p].put[j] = 0
      BY <3>2, <3>3 DEF St!Put
    <3> QED
      BY <3>1, <3>4
  <2>11. \A i \in stale : /\ invoice[i].status \notin {"draft", "cancelled"}
                          /\ seen[i] \in St!InvoiceRows /\ seen[i].status \notin {"draft", "cancelled"} /\ Dated(seen[i])
    BY <1>1, <1>3, <2>1 DEF Knows
  <2> HIDE DEF held, p, stale, seen
  <2>12. ASSUME NEW i \in Documents
         PROVE  /\ after[i] \in St!InvoiceRows
                /\ after[i].paid = St!Net(pays, i) /\ after[i].paid \in 0 .. after[i].total
                /\ Dated(after[i])
                /\ (after[i].status = "draft") = (invoice[i].status = "draft")
                /\ invoice[i].status = "cancelled" => after[i].status = "cancelled"
                /\ i \notin held => after[i] = invoice[i]
                /\ i \in St!DeleteSettles(c) \/ (i \notin held /\ i \notin missed) =>
                      Matches(after[i], St!Given(pays, "refund", i), settlementToday)
    <3>1. St!DeleteSettles(c) \in SUBSET Documents
      BY <2>5
    <3>2. i \notin held => i \notin St!DeleteSettles(c)
      BY <2>5
    <3> QED
      BY <2>2, <2>5, <2>6, <2>7, <3>1, <3>2, AfterRow
  <2> HIDE DEF after
  <2>13. ASSUME NEW i \in Documents
         PROVE  /\ rows[i] \in St!InvoiceRows
                /\ rows[i].paid = St!Net(pays, i) /\ rows[i].paid \in 0 .. rows[i].total
                /\ Dated(rows[i])
                /\ (rows[i].status = "draft") = (invoice[i].status = "draft")
                /\ invoice[i].status = "cancelled" => rows[i].status = "cancelled"
                /\ rows[i].status = "draft" => rows[i] = invoice[i]
                /\ i \notin lost => Matches(rows[i], St!Given(pays, "refund", i), settlementToday)
    <3>1. CASE i \in stale
      <4>1. /\ rows[i] \in St!InvoiceRows
            /\ rows[i].paid = after[i].paid /\ rows[i].total = after[i].total
            /\ rows[i].status = seen[i].status /\ rows[i].paidAt = seen[i].paidAt
        BY <2>11, <2>12, <3>1 DEF St!InvoiceRows
      <4>2. Dated(rows[i])
        BY <2>11, <3>1, <4>1 DEF Dated
      <4> QED
        BY <2>11, <2>12, <3>1, <4>1, <4>2
    <3>2. CASE i \notin stale
      <4>1. rows[i] = after[i]
        BY <3>2
      <4>2. rows[i].status = "draft" => i \notin held
        BY <2>10, <2>12, <4>1
      <4>3. i \notin lost => i \in St!DeleteSettles(c) \/ (i \notin held /\ i \notin missed)
        BY <2>5
      <4> QED
        BY <2>12, <4>1, <4>2, <4>3
    <3> QED
      BY <3>1, <3>2
  <2>14. rows \in [Documents -> St!InvoiceRows]
    BY <2>13
  <2>15. payment' = pays /\ invoice' = rows /\ missed' = lost
    BY <1>1, <1>3
  <2> HIDE DEF rows
  <2>16. clerk' \in [Txs -> ClerkRows] /\ clerk'[c] = St!Idle /\ \A d \in Txs \ {c} : clerk'[d] = clerk[d]
    BY <1>1, IdleClerk DEF SettleInv, SettleShape
  <2>17. missed' \subseteq Documents
    BY <2>2, <2>5, <2>15 DEF SettleInv, SettleShape
  <2>18. Unclerked' /\ StaysClosed
    BY <1>1, <2>3, <2>8, <2>9, <2>13, <2>14, <2>15, <2>16, <2>17, RowsKeep
  <2>19. \A d \in Txs \ {c} : clerk[d].step = "locked" => clerk[d].pay \in Payments \ {p}
    BY <1>1 DEF SettleInv, Clerking, p
  <2>20. Clerking'
    BY <1>1, <2>3, <2>15, <2>16, <2>18, <2>19, ClerksKept
  <2> QED
    BY <2>18, <2>20 DEF SettleInv, Unclerked
<1> QED
  BY <1>2, <1>3

LEMMA UnallocateCommits ==
  ASSUME SettleInv, NEW c \in Txs, St!CommitUnallocate(c)
  PROVE  SettleInv' /\ StaysClosed
<1> DEFINE p    == clerk[c].pay
           list == clerk[c].list
           gone == IF clerk[c].live THEN list ELSE {}
           put  == [i \in Documents |-> IF i \in gone THEN 0 ELSE payment[p].put[i]]
           row  == [payment[p] EXCEPT !.put = put]
           pays == [payment EXCEPT ![p].put = [i \in Documents |-> IF i \in gone THEN 0 ELSE @[i]]]
           others == [d \in Txs |->
                        IF d = c THEN St!Idle
                        ELSE IF clerk[d].op = "unallocate" /\ clerk[d].pay = p /\ clerk[d].list = list
                             THEN [clerk[d] EXCEPT !.live = @ /\ gone = {}]
                             ELSE clerk[d]]
           fits == St!TriggerAllows(pays, gone)
<1>1. /\ clerk[c].step = "read" /\ payment[p] # NoPayment
      /\ \A d \in Txs : ~(clerk[d].step = "locked" /\ clerk[d].pay = p)
      /\ settlementToday' = settlementToday
      /\ fits => /\ payment' = pays /\ clerk' = others /\ missed' = missed \ list
                 /\ invoice' = St!AfterAllocating(pays, gone, list, clerk[c].day)
      /\ ~fits => clerk' = [clerk EXCEPT ![c] = St!Idle] /\ UNCHANGED <<payment, invoice, missed>>
  BY DEF St!CommitUnallocate, St!PaymentFree
<1>2. CASE ~fits
  BY <1>1, <1>2, IdleClerk, ClerkMoves
<1>3. CASE fits
  <2>1. Knows(clerk[c]) /\ clerk[c] \in ClerkRows /\ payment \in PayRows
    BY ClerkingIs DEF SettleInv, SettleShape
  <2>2. /\ p \in Payments /\ clerk[c].day <= settlementToday
        /\ \A i \in list : invoice[i].status # "draft"
    BY <1>1, <2>1 DEF Knows
  <2>3. clerk[c].day \in 0 .. settlementToday /\ list \subseteq Documents /\ gone \subseteq list
    <3>1. list \subseteq Documents /\ clerk[c].day \in 0 .. LastDay
      BY <2>1 DEF ClerkRows
    <3>2. settlementToday \in Nat
      BY InvoicesAssumption DEF SettleInv, SettleShape
    <3> QED
      BY <2>2, <3>1, <3>2, InvoicesAssumption
  <2>4. payment[p] \in St!PaymentRows
    BY <1>1, <2>1, <2>2 DEF PayRows
  <2>5. \A i \in Documents : payment[p].put[i] \in St!Amounts /\ 0 \in St!Amounts
    BY <2>4, InvoicesAssumption DEF St!PaymentRows, St!Amounts
  <2>6. put \in [Documents -> St!Amounts] /\ \A i \in Documents : put[i] = IF i \in gone THEN 0 ELSE payment[p].put[i]
    BY <2>5
  <2>7. pays = [payment EXCEPT ![p] = row]
    BY <2>1, <2>2, <2>4 DEF PayRows, St!PaymentRows
  <2> HIDE DEF put, pays
  <2>8. row \in St!PaymentRows /\ row.put = put /\ row.kind = payment[p].kind /\ row.amount = payment[p].amount
    BY <2>4, <2>6 DEF St!PaymentRows
  <2> HIDE DEF row
  <2>9. pays \in PayRows /\ pays[p] = row /\ \A q \in Payments \ {p} : pays[q] = payment[q]
    BY <2>1, <2>2, <2>7, <2>8 DEF PayRows
  <2> HIDE DEF gone, list, p
  <2>10. row # NoPayment
    BY <2>8, InvoicesAssumption
  <2>11. \A j \in Documents \ gone, k \in St!Kinds : St!Given(pays, k, j) = St!Given(payment, k, j)
    <3> SUFFICES ASSUME NEW j \in Documents \ gone, NEW k \in St!Kinds PROVE St!Given(pays, k, j) = St!Given(payment, k, j)
      OBVIOUS
    <3> QED
      BY <1>1, <2>6, <2>8, <2>9, <2>10, GivenSame
  <2>12. \A j \in Documents, q \in Payments : St!Put(payment, q, j) = 0 => St!Put(pays, q, j) = 0
    BY <1>1, <2>6, <2>8, <2>9 DEF St!Put
  <2>13. St!Allocated(row) <= row.amount
    <3>1. St!Allocated(payment[p]) <= payment[p].amount
      BY <1>1, <2>2, PayIs
    <3>2. St!Allocated(row) <= St!Allocated(payment[p])
      <4>1. \A j \in Documents : row.put[j] <= payment[p].put[j]
        BY <2>4, <2>6, <2>8, AllocatedIs
      <4> QED
        BY <2>4, <2>8, <4>1, AllocatedLess
    <3>3. St!Allocated(row) \in Int /\ St!Allocated(payment[p]) \in Int /\ row.amount \in Int
      BY <2>4, <2>8, AllocatedIs, InvoicesAssumption DEF St!PaymentRows, St!Amounts
    <3> QED
      BY <2>8, <3>1, <3>2, <3>3
  <2>14. \A q \in St!Recorded(pays) : St!Allocated(pays[q]) <= pays[q].amount
    <3> SUFFICES ASSUME NEW q \in Payments, pays[q] # NoPayment PROVE St!Allocated(pays[q]) <= pays[q].amount
      BY DEF St!Recorded
    <3>1. q # p => payment[q] # NoPayment /\ pays[q] = payment[q]
      BY <2>9
    <3> QED
      BY <2>9, <2>13, <3>1, PayIs
  <2>15. payment' = pays /\ clerk' = others /\ missed' = missed \ list
         /\ invoice' = St!AfterAllocating(pays, gone, list, clerk[c].day) /\ settlementToday' = settlementToday
    BY <1>1, <1>3
  <2>16. /\ clerk' \in [Txs -> ClerkRows]
         /\ \A d \in Txs : \/ clerk'[d] = St!Idle
                           \/ /\ clerk'[d].step = clerk[d].step /\ clerk'[d].pay = clerk[d].pay
                              /\ clerk'[d].list = clerk[d].list /\ clerk'[d].day = clerk[d].day
                              /\ clerk'[d].held = clerk[d].held /\ clerk'[d].seen = clerk[d].seen
    <3>1. \A d \in Txs : clerk[d] \in ClerkRows
      BY DEF SettleInv, SettleShape
    <3>2. ASSUME NEW d \in Txs
          PROVE  LET x == [clerk[d] EXCEPT !.live = @ /\ gone = {}] IN
                 /\ x \in ClerkRows /\ x.step = clerk[d].step /\ x.pay = clerk[d].pay /\ x.list = clerk[d].list
                 /\ x.day = clerk[d].day /\ x.held = clerk[d].held /\ x.seen = clerk[d].seen
      <4> PICK b \in BOOLEAN : b = (clerk[d].live /\ gone = {})
        OBVIOUS
      <4>1. [clerk[d] EXCEPT !.live = @ /\ gone = {}] = [clerk[d] EXCEPT !.live = b]
        OBVIOUS
      <4> QED
        BY <3>1, <4>1 DEF ClerkRows
    <3>3. \A d \in Txs : clerk'[d] = others[d]
      BY <2>15
    <3>4. ASSUME NEW d \in Txs
          PROVE  /\ others[d] \in ClerkRows
                 /\ \/ others[d] = St!Idle
                    \/ /\ others[d].step = clerk[d].step /\ others[d].pay = clerk[d].pay
                       /\ others[d].list = clerk[d].list /\ others[d].day = clerk[d].day
                       /\ others[d].held = clerk[d].held /\ others[d].seen = clerk[d].seen
      BY <3>1, <3>2, IdleClerk
    <3>5. others \in [Txs -> ClerkRows]
      BY <3>4
    <3> QED
      BY <2>15, <3>3, <3>4, <3>5
  <2>17. missed' \subseteq Documents /\ (\A j \in Documents \ missed' : j \in list \/ (j \notin gone /\ j \notin missed))
         /\ gone \in SUBSET Documents /\ list \in SUBSET Documents /\ \A j \in gone : invoice[j].status # "draft"
    BY <2>2, <2>3, <2>15 DEF SettleInv, SettleShape
  <2>18. Unclerked' /\ StaysClosed
    BY <1>3, <2>3, <2>9, <2>11, <2>12, <2>14, <2>15, <2>16, <2>17, AllocatingKeeps
  <2>19. \A d \in Txs : clerk[d].step = "locked" => payment'[clerk[d].pay] = payment[clerk[d].pay]
    <3> SUFFICES ASSUME NEW d \in Txs, clerk[d].step = "locked" PROVE payment'[clerk[d].pay] = payment[clerk[d].pay]
      OBVIOUS
    <3>1. clerk[d].pay \in Payments \ {p}
      BY <1>1 DEF SettleInv, Clerking, p
    <3> QED
      BY <2>9, <2>15, <3>1
  <2>20. Clerking'
    BY <2>15, <2>16, <2>18, <2>19, ClerksKept
  <2> QED
    BY <2>18, <2>20 DEF SettleInv, Unclerked
<1> QED
  BY <1>2, <1>3

LEMMA SettleBegins ==
  ASSUME St!Init
  PROVE  SettleInv
<1>1. /\ invoice = [i \in Documents |-> St!Blank] /\ payment = [p \in Payments |-> NoPayment]
      /\ clerk = [c \in Txs |-> St!Idle] /\ settlementToday = 0 /\ missed = {}
  BY DEF St!Init
<1>2. St!Blank \in St!InvoiceRows /\ St!Blank.status = "draft" /\ St!Blank.paid = 0 /\ St!Blank.total = 0 /\ St!Blank.paidAt = FALSE
  BY DEF St!Blank, St!InvoiceRows, St!Statuses
<1>3. SettleShape
  BY <1>1, <1>2, IdleClerk, InvoicesAssumption DEF SettleShape, PayRows
<1>4. Within /\ DraftsBlank /\ St!PaidAtFollows /\ St!StatusInLine
  BY <1>1, <1>2 DEF Within, DraftsBlank, St!Put, St!PaidAtFollows, St!StatusInLine, St!StatusMatches
<1>5. Clerking
  BY <1>1, IdleClerk DEF Clerking
<1>6. St!LedgerBalances
  <2>1. \A i \in Documents, k \in St!Kinds : St!Given(payment, k, i) = 0
    BY <1>1, GivenNothing DEF St!Put
  <2>2. \A i \in Documents : invoice[i].paid = St!Net(payment, i)
    BY <1>1, <1>2, <2>1 DEF St!Net, St!Kinds
  <2> QED
    BY <1>1, <2>2 DEF St!LedgerBalances, St!Recorded
<1> QED
  BY <1>3, <1>4, <1>5, <1>6 DEF SettleInv

LEMMA SettleSteps ==
  ASSUME SettleInv, St!Next
  PROVE  SettleInv' /\ StaysClosed
<1>1. ASSUME St!Issuing PROVE SettleInv' /\ StaysClosed
  BY <1>1, SendStep, ViewStep, DueStep, CancelStep DEF St!Issuing
<1>2. ASSUME St!Paying PROVE SettleInv' /\ StaysClosed
  BY <1>2, RecordStep, UpdateStep, AllocateStep DEF St!Paying
<1>3. ASSUME St!Correcting PROVE SettleInv' /\ StaysClosed
  <2> PICK c \in Txs : \/ \E p \in Payments : St!ReadForDelete(c, p)
                       \/ \E p \in Payments, i \in Documents : St!ReadForUnallocate(c, p, i)
                       \/ St!Finish(c)
    BY <1>3 DEF St!Correcting
  <2>1. CASE \E p \in Payments : St!ReadForDelete(c, p)
    BY <2>1, ReadForDeleteStep
  <2>2. CASE \E p \in Payments, i \in Documents : St!ReadForUnallocate(c, p, i)
    BY <2>2, ReadForUnallocateStep
  <2>3. CASE St!Finish(c)
    BY <2>3, NotFoundStep, LockStep, DeleteCommits, UnallocateCommits DEF St!Finish
  <2> QED
    BY <2>1, <2>2, <2>3
<1> QED
  BY <1>1, <1>2, <1>3, SweepStep, TickStep DEF St!Next

LEMMA SettleRests ==
  ASSUME SettleInv, UNCHANGED settlementVars
  PROVE  SettleInv'
<1>1. UNCHANGED <<invoice, payment, clerk, settlementToday, missed>>
  BY DEF settlementVars
<1>2. settlementToday \in 0 .. LastDay /\ settlementToday <= settlementToday /\ clerk \in [Txs -> ClerkRows]
  BY InvoicesAssumption DEF SettleInv, SettleShape
<1>3. Unclerked' /\ StaysClosed
  BY <1>1, <1>2, MoneySame
<1>4. Clerking'
  BY <1>1, <1>2, <1>3, ClerksKept
<1> QED
  BY <1>3, <1>4 DEF SettleInv, Unclerked

LEMMA SettleTyped ==
  SettleInv => St!TypeOK
<1> SUFFICES ASSUME SettleInv PROVE St!TypeOK
  OBVIOUS
<1>1. \A c \in Txs : clerk[c] \in ClerkRows
  BY DEF SettleInv, SettleShape
<1>2. \A c \in Txs : DOMAIN clerk[c].seen \subseteq Documents
  BY <1>1 DEF ClerkRows
<1> QED
  BY <1>1, <1>2 DEF SettleInv, SettleShape, Within, PayRows, ClerkRows, St!TypeOK, St!Days

(* However records, corrections, deletions, views, sweeps and cancellations *)
(* interleave: an invoice was paid what is allocated to it, within what it *)
(* asks for; no payment is put further than its amount; and every status   *)
(* and date of payment follows, but of what payment.delete has missed.     *)
THEOREM PaymentsAlwaysSettle ==
  AllSpec => []PaymentsSettle
<1> DEFINE Inv == part = "settlement" => SettleInv
<1>1. AllInit => Inv
  BY SettleBegins DEF AllInit
<1>2. Inv /\ [AllNext]_allVars => Inv'
  <2> SUFFICES ASSUME Inv, [AllNext]_allVars, part' = "settlement" PROVE SettleInv'
    OBVIOUS
  <2>1. CASE SettlementNext
    BY <2>1, SettleSteps DEF SettlementNext
  <2>2. CASE IssuingNext
    BY <2>2 DEF IssuingNext
  <2>3. CASE PlanNext
    BY <2>3, SettleRests DEF PlanNext
  <2>4. CASE ReportsNext
    BY <2>4 DEF ReportsNext
  <2>5. CASE UNCHANGED allVars
    BY <2>5, SettleRests DEF allVars
  <2> QED
    BY <2>1, <2>2, <2>3, <2>4, <2>5 DEF AllNext
<1>3. Inv => PaymentsSettle
  BY SettleTyped DEF PaymentsSettle, SettleInv
<1> QED
  BY <1>1, <1>2, <1>3, PTL DEF AllSpec

-----------------------------------------------------------------------------
(* The billing plan.                                                       *)

(* The sums of the plan, on given tables.                                  *)
OnPlanOf(st) == {s \in Stages : st[s] # Bp!NoRow}
Counted(row) == row # Bp!NoRow /\ row.invoice \in {"draft", "issued"}
ReleasedOf(st) == Bp!SumFunction([s \in {s \in OnPlanOf(st) : st[s].invoice \in {"draft", "issued"}} |-> st[s].released])
AcceptedOf(revs) == Bp!SumFunction([r \in {r \in Payments : revs[r].status = "accepted"} |-> revs[r].amount])
ContractOf(worth, a) == IF worth # None THEN worth + a ELSE IF a = 0 THEN None ELSE a
NetOf(st, S) == Bp!SumFunction([e \in S |-> st[e].net])

(* What one row adds.                                                      *)
Weight(row) == IF Counted(row) THEN row.released ELSE 0
Gain(row) == IF row.status = "accepted" THEN row.amount ELSE 0

BilledRow(row) ==
    row # Bp!NoRow =>
        /\ row.invoice = "none" => row.released = None
        /\ row.invoice # "none" => row.released \in Nat \ {0} /\ (row.terms.basis = "amount" => row.released = row.terms.worth)

StageTable == [Stages -> Bp!StageRows \cup {Bp!NoRow}]
RevisionTable == [Payments -> Bp!RevisionRows \cup {Bp!NoRow}]
RequestRows == Bp!Releasing \cup Bp!Accepting \cup {Bp!Idle}

Orders(order, S) ==
    /\ order \in [1 .. Cardinality(S) -> S]
    /\ \A i, j \in 1 .. Cardinality(S) : order[i] = order[j] => i = j
    /\ \A s \in S : \E i \in 1 .. Cardinality(S) : order[i] = s

PlanShape ==
    /\ price \in Prices \cup {None}
    /\ revisions \in RevisionTable
    /\ stage \in StageTable
    /\ planTx \in [Txs -> RequestRows]

StagesBilled == \A s \in Stages : BilledRow(stage[s])

BalancesOnce ==
    \A s, t \in OnPlanOf(stage) : stage[s].terms.basis = "balance" /\ stage[t].terms.basis = "balance" => s = t

OneAtATime == \A p, q \in Txs : planTx[p] # Bp!Idle /\ planTx[q] # Bp!Idle => p = q

(* What a request read when it released a stage, or accepted a revision,   *)
(* is still so.                                                            *)
Releases(x) ==
    x.op = "release" =>
        /\ x.on \in Stages /\ stage[x.on] # Bp!NoRow /\ stage[x.on].invoice = "none"
        /\ x.amount \in Nat \ {0}
        /\ stage[x.on].terms.basis = "amount" => x.amount = stage[x.on].terms.worth
        /\ Bp!ContractedValue # None /\ ReleasedOf(stage) + x.amount <= Bp!ContractedValue
        /\ x.takesOff \subseteq Stages /\ x.on \notin x.takesOff
        /\ \A e \in x.takesOff : stage[e] # Bp!NoRow /\ stage[e].invoice \in {"issued", "cancelled"}
        /\ stage[x.on].statement => x.amount + NetOf(stage, x.takesOff) = Bp!ContractedValue

Accepts(x) ==
    x.op = "accept" =>
        /\ x.on \in Payments /\ revisions[x.on].status = "sent"
        /\ x.previous = Bp!ContractedValue
        /\ LET was == IF Bp!ContractedValue = None THEN 0 ELSE Bp!ContractedValue
           IN  revisions[x.on].amount # 0 => was + revisions[x.on].amount >= 0

PlanInv ==
    /\ PlanShape
    /\ Orders(plan, OnPlanOf(stage))
    /\ StagesBilled
    /\ BalancesOnce
    /\ OneAtATime
    /\ \A p \in Txs : Releases(planTx[p]) /\ Accepts(planTx[p])

(* What no step may do to the contract.                                    *)
Honoured ==
    /\ Bp!Released' > Bp!Released => Bp!ContractedValue' # None /\ Bp!Released' <= Bp!ContractedValue'
    /\ \A s \in Bp!Pending :
          (s \in Bp!OnPlan' /\ stage[s].statement /\ stage'[s].invoice = "draft") =>
              stage'[s].net + Bp!SumFunction([e \in stage'[s].takesOff |-> stage'[e].net]) = Bp!ContractedValue'
    /\ \A r \in Payments :
          (revisions[r].status = "sent" /\ revisions'[r].status = "accepted") =>
              /\ revisions'[r].previous = Bp!ContractedValue
              /\ revisions[r].amount < 0 => Bp!ContractedValue' \in Nat \cup {None}

-----------------------------------------------------------------------------
LEMMA PlanSum == \A f : Bp!SumFunction(f) = SumFunctionOnSet(f, DOMAIN f)
<1>1. \A f, S : Bp!SumFunctionOnSet(f, S) = SumFunctionOnSet(f, S)
  BY Zenon DEF Bp!SumFunctionOnSet, Bp!FoldFunctionOnSet, Bp!MapThenFoldSet,
               SumFunctionOnSet, FoldFunctionOnSet, MapThenFoldSet
<1> QED
  BY <1>1, Zenon DEF Bp!SumFunction

LEMMA ReleasedIs == Bp!Released = ReleasedOf(stage) /\ Bp!Released' = ReleasedOf(stage')
BY DEF Bp!Released, Bp!OnPlan, Bp!Counts, ReleasedOf, OnPlanOf

LEMMA ContractIs ==
  /\ Bp!ContractedValue = ContractOf(price, AcceptedOf(revisions))
  /\ Bp!ContractedValue' = ContractOf(price', AcceptedOf(revisions'))
BY DEF Bp!ContractedValue, ContractOf, AcceptedOf

LEMMA RowIs ==
  ASSUME NEW row \in Bp!StageRows
  PROVE  /\ row # Bp!NoRow /\ row.invoice \in {"none", "draft", "issued", "cancelled"}
         /\ row.terms \in Terms /\ row.terms.worth \in Int /\ row.terms.basis \in {"amount", "percent", "balance"}
         /\ row.net \in Int /\ row.takesOff \subseteq Stages /\ row.released \in Int \cup {None}
         /\ row.statement \in BOOLEAN
BY InvoicesAssumption DEF Bp!StageRows, Bp!NoRow, Bp!Bases

LEMMA ReleasedAdds ==
  ASSUME NEW st \in StageTable, \A s \in Stages : BilledRow(st[s])
  PROVE  /\ ReleasedOf(st) = SumFunctionOnSet([s \in Stages |-> Weight(st[s])], Stages)
         /\ ReleasedOf(st) \in Int
<1> DEFINE S == {s \in OnPlanOf(st) : st[s].invoice \in {"draft", "issued"}}
           f == [s \in S |-> st[s].released]
           g == [s \in Stages |-> Weight(st[s])]
<1>1. S \subseteq Stages /\ IsFiniteSet(Stages)
  BY InvoicesAssumption DEF OnPlanOf
<1>2. \A s \in Stages : g[s] \in Int
  BY DEF Weight, BilledRow, Counted
<1>3. \A s \in S : f[s] = g[s]
  BY DEF Weight, Counted, OnPlanOf
<1>4. \A s \in Stages \ S : g[s] = 0
  BY DEF Weight, Counted, OnPlanOf
<1>5. ReleasedOf(st) = SumFunctionOnSet(f, S)
  BY PlanSum DEF ReleasedOf
<1> HIDE DEF S, f, g
<1>6. SumFunctionOnSet(g, Stages) = SumFunctionOnSet(f, S)
  BY <1>1, <1>2, <1>3, <1>4, SumWhere
<1>7. SumFunctionOnSet(g, Stages) \in Int
  BY <1>1, <1>2, SumInt
<1> QED
  BY <1>5, <1>6, <1>7 DEF g

LEMMA ReleasedChanges ==
  ASSUME NEW a \in StageTable, \A s \in Stages : BilledRow(a[s]),
         NEW b \in StageTable, \A s \in Stages : BilledRow(b[s]),
         NEW s \in Stages, \A t \in Stages \ {s} : a[t] = b[t]
  PROVE  /\ ReleasedOf(b) = ReleasedOf(a) - Weight(a[s]) + Weight(b[s])
         /\ Weight(a[s]) \in Nat /\ Weight(b[s]) \in Nat
<1> PICK f, g : f = [t \in Stages |-> Weight(a[t])] /\ g = [t \in Stages |-> Weight(b[t])]
  OBVIOUS
<1>1. \A t \in Stages : f[t] \in Int /\ g[t] \in Int /\ f[t] \in Nat /\ g[t] \in Nat
  BY DEF Weight, BilledRow, Counted
<1>2. \A t \in Stages \ {s} : f[t] = g[t]
  OBVIOUS
<1>3. SumFunctionOnSet(g, Stages) = SumFunctionOnSet(f, Stages) - f[s] + g[s]
  BY <1>1, <1>2, SumChange, InvoicesAssumption
<1>4. ReleasedOf(a) = SumFunctionOnSet(f, Stages) /\ ReleasedOf(b) = SumFunctionOnSet(g, Stages)
  BY ReleasedAdds
<1> QED
  BY <1>1, <1>3, <1>4

LEMMA AcceptedAdds ==
  ASSUME NEW revs \in RevisionTable
  PROVE  /\ AcceptedOf(revs) = SumFunctionOnSet([r \in Payments |-> Gain(revs[r])], Payments)
         /\ AcceptedOf(revs) \in Int
         /\ \A r \in Payments : Gain(revs[r]) \in Int
<1> DEFINE S == {r \in Payments : revs[r].status = "accepted"}
           f == [r \in S |-> revs[r].amount]
           g == [r \in Payments |-> Gain(revs[r])]
<1>1. S \subseteq Payments /\ IsFiniteSet(Payments)
  BY InvoicesAssumption
<1>2. \A r \in Payments : g[r] \in Int
  <2> SUFFICES ASSUME NEW r \in Payments PROVE Gain(revs[r]) \in Int
    OBVIOUS
  <2>1. revs[r] = Bp!NoRow \/ revs[r].amount \in Int
    BY InvoicesAssumption DEF RevisionTable, Bp!RevisionRows
  <2> QED
    BY <2>1 DEF Gain, Bp!NoRow
<1>3. \A r \in S : f[r] = g[r]
  BY DEF Gain
<1>4. \A r \in Payments \ S : g[r] = 0
  BY DEF Gain
<1>5. AcceptedOf(revs) = SumFunctionOnSet(f, S)
  BY PlanSum DEF AcceptedOf
<1>6. \A r \in Payments : g[r] = Gain(revs[r])
  OBVIOUS
<1> HIDE DEF S, f, g
<1>7. SumFunctionOnSet(g, Payments) = SumFunctionOnSet(f, S)
  BY <1>1, <1>2, <1>3, <1>4, SumWhere
<1>8. SumFunctionOnSet(g, Payments) \in Int
  BY <1>1, <1>2, SumInt
<1> QED
  BY <1>2, <1>5, <1>6, <1>7, <1>8 DEF g

LEMMA AcceptedChanges ==
  ASSUME NEW a \in RevisionTable, NEW b \in RevisionTable, NEW r \in Payments, \A q \in Payments \ {r} : a[q] = b[q]
  PROVE  AcceptedOf(b) = AcceptedOf(a) - Gain(a[r]) + Gain(b[r])
<1> PICK f, g : f = [q \in Payments |-> Gain(a[q])] /\ g = [q \in Payments |-> Gain(b[q])]
  OBVIOUS
<1>1. \A q \in Payments : f[q] \in Int /\ g[q] \in Int
  BY AcceptedAdds
<1>2. \A q \in Payments \ {r} : f[q] = g[q]
  OBVIOUS
<1>3. SumFunctionOnSet(g, Payments) = SumFunctionOnSet(f, Payments) - f[r] + g[r]
  BY <1>1, <1>2, SumChange, InvoicesAssumption
<1>4. AcceptedOf(a) = SumFunctionOnSet(f, Payments) /\ AcceptedOf(b) = SumFunctionOnSet(g, Payments)
  BY AcceptedAdds
<1> QED
  BY <1>3, <1>4

LEMMA ContractTyped ==
  ASSUME PlanShape
  PROVE  Bp!ContractedValue \in Int \cup {None} /\ (price # None => price \in Int) /\ AcceptedOf(revisions) \in Int
<1>1. AcceptedOf(revisions) \in Int /\ (price # None => price \in Int)
  BY AcceptedAdds, InvoicesAssumption DEF PlanShape
<1> QED
  BY <1>1, ContractIs DEF ContractOf

LEMMA NetSame ==
  ASSUME NEW a \in StageTable, NEW b \in StageTable, NEW S, S \subseteq Stages,
         \A e \in S : a[e] # Bp!NoRow /\ b[e] # Bp!NoRow /\ a[e].net = b[e].net
  PROVE  NetOf(a, S) = NetOf(b, S)
<1> DEFINE f == [e \in S |-> a[e].net]  g == [e \in S |-> b[e].net]
<1>1. \A e \in S : f[e] = g[e]
  OBVIOUS
<1>2. f = g
  OBVIOUS
<1> QED
  BY <1>2 DEF NetOf

LEMMA OrdersIs ==
  \A order, S : order \in Bp!Bijection(1 .. Cardinality(S), S) <=> Orders(order, S)
BY DEF Bp!Bijection, Bp!Injection, Bp!Surjection, Bp!IsInjective, Orders

-----------------------------------------------------------------------------
(* The contract moves with the price and with what is accepted.            *)
LEMMA ContractSame ==
  ASSUME PlanInv, price' = price,
         revisions' = revisions \/
            \E r \in Payments : /\ revisions' \in RevisionTable /\ \A q \in Payments \ {r} : revisions'[q] = revisions[q]
                               /\ revisions[r].status # "accepted" /\ revisions'[r].status # "accepted"
  PROVE  Bp!ContractedValue' = Bp!ContractedValue
<1>1. CASE revisions' = revisions
  BY <1>1, ContractIs
<1>2. CASE \E r \in Payments : /\ revisions' \in RevisionTable /\ \A q \in Payments \ {r} : revisions'[q] = revisions[q]
                               /\ revisions[r].status # "accepted" /\ revisions'[r].status # "accepted"
  <2> PICK r \in Payments : /\ revisions' \in RevisionTable /\ \A q \in Payments \ {r} : revisions'[q] = revisions[q]
                            /\ revisions[r].status # "accepted" /\ revisions'[r].status # "accepted"
    BY <1>2
  <2>1. AcceptedOf(revisions') = AcceptedOf(revisions) - Gain(revisions[r]) + Gain(revisions'[r])
    BY AcceptedChanges DEF PlanInv, PlanShape
  <2>2. Gain(revisions[r]) = 0 /\ Gain(revisions'[r]) = 0
    BY DEF Gain
  <2>3. AcceptedOf(revisions) \in Int
    BY ContractTyped DEF PlanInv
  <2> QED
    BY <2>1, <2>2, <2>3, ContractIs
<1> QED
  BY <1>1, <1>2

(* What a request read stays so while its stage and what it takes off do,  *)
(* and nothing more is billed.                                             *)
LEMMA ReleasesStay ==
  ASSUME PlanInv, NEW x \in RequestRows, Releases(x), stage' \in StageTable, ReleasedOf(stage') \in Int,
         ReleasedOf(stage') <= ReleasedOf(stage), Bp!ContractedValue' = Bp!ContractedValue,
         x.op = "release" =>
            /\ stage'[x.on] = stage[x.on]
            /\ \A e \in x.takesOff : stage'[e] # Bp!NoRow /\ stage'[e].invoice \in {"issued", "cancelled"} /\ stage'[e].net = stage[e].net
  PROVE  Releases(x)'
<1> SUFFICES ASSUME x.op = "release"
             PROVE  /\ x.on \in Stages /\ stage'[x.on] # Bp!NoRow /\ stage'[x.on].invoice = "none"
                    /\ x.amount \in Nat \ {0}
                    /\ stage'[x.on].terms.basis = "amount" => x.amount = stage'[x.on].terms.worth
                    /\ Bp!ContractedValue' # None /\ ReleasedOf(stage') + x.amount <= Bp!ContractedValue'
                    /\ x.takesOff \subseteq Stages /\ x.on \notin x.takesOff
                    /\ \A e \in x.takesOff : stage'[e] # Bp!NoRow /\ stage'[e].invoice \in {"issued", "cancelled"}
                    /\ stage'[x.on].statement => x.amount + NetOf(stage', x.takesOff) = Bp!ContractedValue'
  BY DEF Releases, Bp!NoRow
<1>1. NetOf(stage', x.takesOff) = NetOf(stage, x.takesOff)
  <2>1. \A e \in x.takesOff : stage[e] # Bp!NoRow /\ stage'[e] # Bp!NoRow /\ stage[e].net = stage'[e].net
    BY DEF Releases
  <2>2. stage \in StageTable /\ x.takesOff \subseteq Stages
    BY DEF PlanInv, PlanShape, Releases
  <2> QED
    BY <2>1, <2>2, NetSame
<1>2. ReleasedOf(stage') + x.amount <= Bp!ContractedValue
  <2>1. ReleasedOf(stage) \in Int /\ Bp!ContractedValue \in Int
    BY ReleasedAdds, ContractTyped DEF PlanInv, PlanShape, StagesBilled, Releases
  <2> QED
    BY <2>1 DEF Releases
<1> QED
  BY <1>1, <1>2 DEF Releases

LEMMA AcceptsStay ==
  ASSUME PlanInv, NEW x, Accepts(x), Bp!ContractedValue' = Bp!ContractedValue,
         x.op = "accept" => revisions'[x.on] = revisions[x.on]
  PROVE  Accepts(x)'
<1> SUFFICES ASSUME x.op = "accept"
             PROVE  /\ x.on \in Payments /\ revisions'[x.on].status = "sent"
                    /\ x.previous = Bp!ContractedValue'
                    /\ revisions'[x.on].amount # 0 =>
                          (IF Bp!ContractedValue' = None THEN 0 ELSE Bp!ContractedValue') + revisions'[x.on].amount >= 0
  BY DEF Accepts
<1> QED
  BY DEF Accepts

LEMMA StageMoves ==
  ASSUME PlanInv, NEW s \in Stages, NEW row \in Bp!StageRows \cup {Bp!NoRow}, BilledRow(row),
         stage' = [stage EXCEPT ![s] = row], Orders(plan', OnPlanOf(stage')), UNCHANGED <<price, revisions, planTx>>,
         row # Bp!NoRow /\ row.terms.basis = "balance" => \A t \in OnPlanOf(stage) \ {s} : stage[t].terms.basis # "balance",
         Weight(row) <= Weight(stage[s]),
         \A p \in Txs : planTx[p].op = "release" =>
            /\ planTx[p].on # s
            /\ s \in planTx[p].takesOff => row # Bp!NoRow /\ row.invoice \in {"issued", "cancelled"} /\ row.net = stage[s].net,
         stage[s] # Bp!NoRow /\ stage[s].invoice = "none" => row = Bp!NoRow \/ row.invoice = "none"
  PROVE  PlanInv' /\ Honoured
<1>1. stage \in StageTable /\ stage' \in StageTable /\ stage'[s] = row /\ (\A t \in Stages \ {s} : stage'[t] = stage[t])
  BY DEF PlanInv, PlanShape, StageTable
<1>2. (\A t \in Stages : BilledRow(stage[t])) /\ (\A t \in Stages : BilledRow(stage'[t]))
  BY <1>1 DEF PlanInv, StagesBilled
<1>3. /\ ReleasedOf(stage') <= ReleasedOf(stage) /\ ReleasedOf(stage') \in Int /\ ReleasedOf(stage) \in Int
  <2>1. ReleasedOf(stage') \in Int /\ ReleasedOf(stage) \in Int
    BY <1>1, <1>2, ReleasedAdds
  <2>2. ReleasedOf(stage') = ReleasedOf(stage) - Weight(stage[s]) + Weight(row) /\ Weight(stage[s]) \in Nat /\ Weight(row) \in Nat
    <3> PICK a, b : a = stage /\ b = stage'
      OBVIOUS
    <3>1. /\ a \in StageTable /\ (\A t \in Stages : BilledRow(a[t])) /\ b \in StageTable /\ (\A t \in Stages : BilledRow(b[t]))
          /\ \A t \in Stages \ {s} : a[t] = b[t]
      BY <1>1, <1>2
    <3>2. ReleasedOf(b) = ReleasedOf(a) - Weight(a[s]) + Weight(b[s]) /\ Weight(a[s]) \in Nat /\ Weight(b[s]) \in Nat
      BY ONLY <3>1, ReleasedChanges
    <3> QED
      BY <1>1, <3>2
  <2> QED
    BY <2>1, <2>2
<1>4. Bp!ContractedValue' = Bp!ContractedValue
  BY ContractSame
<1>5. PlanShape' /\ StagesBilled' /\ OneAtATime'
  BY <1>1, <1>2 DEF PlanInv, PlanShape, StagesBilled, OneAtATime, Bp!Idle
<1>6. BalancesOnce'
  <2> SUFFICES ASSUME NEW a \in Stages, NEW b \in Stages, stage'[a] # Bp!NoRow, stage'[b] # Bp!NoRow,
                      stage'[a].terms.basis = "balance", stage'[b].terms.basis = "balance"
               PROVE  a = b
    BY DEF BalancesOnce, OnPlanOf, Bp!NoRow
  <2>1. \A t \in Stages \ {s} : stage[t] # Bp!NoRow /\ row # Bp!NoRow /\ row.terms.basis = "balance" => stage[t].terms.basis # "balance"
    BY DEF OnPlanOf
  <2> QED
    BY <1>1, <2>1 DEF PlanInv, BalancesOnce, OnPlanOf
<1>7. ASSUME NEW p \in Txs PROVE Releases(planTx[p])' /\ Accepts(planTx[p])'
  <2>1. planTx[p] \in RequestRows /\ Releases(planTx[p]) /\ Accepts(planTx[p])
    BY DEF PlanInv, PlanShape
  <2> PICK x : x = planTx[p]
    OBVIOUS
  <2>2. x.op = "release" =>
            /\ stage'[x.on] = stage[x.on]
            /\ \A e \in x.takesOff : stage'[e] # Bp!NoRow /\ stage'[e].invoice \in {"issued", "cancelled"} /\ stage'[e].net = stage[e].net
    BY <1>1, <2>1 DEF Releases
  <2>3. Releases(x)'
    BY <1>1, <1>3, <1>4, <2>1, <2>2, ReleasesStay
  <2>4. Accepts(x)'
    BY <1>4, <2>1, AcceptsStay
  <2> QED
    BY <2>3, <2>4
<1>8. Honoured
  <2>1. ~(Bp!Released' > Bp!Released)
    BY <1>3, ReleasedIs
  <2>2. \A t \in Bp!Pending : t \in Bp!OnPlan' => stage'[t].invoice # "draft"
    BY <1>1 DEF Bp!Pending, Bp!OnPlan
  <2> QED
    BY <2>1, <2>2 DEF Honoured
<1> QED
  BY <1>5, <1>6, <1>7, <1>8 DEF PlanInv, OnPlanOf, Orders, Bp!NoRow, Releases, Accepts

LEMMA SequenceIs ==
  ASSUME NEW T, NEW q, q \in Seq(T)
  PROVE  q \in [1 .. Len(q) -> T]
OBVIOUS

(* An order of a set gains its last, and loses one.                        *)
LEMMA OrderIs ==
  ASSUME NEW S, IsFiniteSet(S), NEW order, Orders(order, S)
  PROVE  order \in Seq(S) /\ Len(order) = Cardinality(S) /\ Cardinality(S) \in Nat
<1>1. Cardinality(S) \in Nat /\ order \in [1 .. Cardinality(S) -> S]
  BY FS_CardinalityType DEF Orders
<1> QED
  BY <1>1

LEMMA OrderGrows ==
  ASSUME NEW S, IsFiniteSet(S), NEW order, Orders(order, S), NEW s, s \notin S
  PROVE  Orders(Append(order, s), S \cup {s})
<1> PICK n, longer : n = Cardinality(S) /\ longer = Append(order, s)
  OBVIOUS
<1>1. Cardinality(S \cup {s}) = n + 1 /\ n \in Nat /\ order \in Seq(S) /\ Len(order) = n
  BY FS_AddElement, OrderIs
<1>2. longer \in [1 .. n + 1 -> S \cup {s}] /\ longer[n + 1] = s /\ \A i \in 1 .. n : longer[i] = order[i]
  <2> PICK T : T = S \cup {s}
    OBVIOUS
  <2>1. order \in Seq(T) /\ s \in T
    BY <1>1
  <2>2. longer \in Seq(T) /\ Len(longer) = n + 1 /\ longer[n + 1] = s /\ \A i \in 1 .. n : longer[i] = order[i]
    BY <1>1, <2>1
  <2>3. longer \in [1 .. n + 1 -> T]
    <3>1. longer \in [1 .. Len(longer) -> T]
      BY <2>2, SequenceIs
    <3> QED
      BY <2>2, <3>1
  <2> QED
    BY <2>2, <2>3
<1>3. ASSUME NEW i \in 1 .. n + 1, NEW j \in 1 .. n + 1, longer[i] = longer[j] PROVE i = j
  <2>1. \A k \in 1 .. n : longer[k] \in S
    BY <1>1, <1>2
  <2>2. i = n + 1 <=> j = n + 1
    BY <1>1, <1>2, <1>3, <2>1
  <2> QED
    BY <1>1, <1>2, <1>3, <2>2 DEF Orders
<1>4. ASSUME NEW x \in S \cup {s} PROVE \E i \in 1 .. n + 1 : longer[i] = x
  <2>1. CASE x = s
    BY <1>1, <1>2, <2>1
  <2>2. CASE x \in S
    <3>1. PICK i \in 1 .. n : order[i] = x
      BY <2>2 DEF Orders
    <3> QED
      BY <1>1, <1>2, <3>1
  <2> QED
    BY <2>1, <2>2
<1> QED
  BY <1>1, <1>2, <1>3, <1>4 DEF Orders

LEMMA OrderShrinks ==
  ASSUME NEW S, IsFiniteSet(S), NEW order, Orders(order, S), NEW i \in 1 .. Cardinality(S)
  PROVE  Orders([j \in 1 .. Len(order) - 1 |-> IF j < i THEN order[j] ELSE order[j + 1]], S \ {order[i]})
<1> PICK n : n = Cardinality(S)
  OBVIOUS
<1> PICK s : s = order[i]
  OBVIOUS
<1> PICK shorter : shorter = [j \in 1 .. n - 1 |-> IF j < i THEN order[j] ELSE order[j + 1]]
  OBVIOUS
<1>1. n \in Nat /\ Len(order) = n /\ i \in 1 .. n /\ s \in S
  BY OrderIs DEF Orders
<1>2. Cardinality(S \ {s}) = n - 1
  BY <1>1, FS_RemoveElement
<1>3. ASSUME NEW j \in 1 .. n - 1
      PROVE  \E k \in 1 .. n : k # i /\ shorter[j] = order[k] /\ k = (IF j < i THEN j ELSE j + 1)
  BY <1>1
<1>4. \A k, m \in 1 .. n : order[k] = order[m] => k = m
  BY DEF Orders
<1>5. shorter \in [1 .. n - 1 -> S \ {s}]
  <2>1. \A j \in 1 .. n - 1 : shorter[j] \in S \ {s}
    BY <1>1, <1>3, <1>4 DEF Orders
  <2> QED
    BY <2>1
<1>6. ASSUME NEW j \in 1 .. n - 1, NEW m \in 1 .. n - 1, shorter[j] = shorter[m] PROVE j = m
  <2>1. (IF j < i THEN j ELSE j + 1) = (IF m < i THEN m ELSE m + 1)
    BY <1>3, <1>4, <1>6
  <2> QED
    BY <1>1, <2>1
<1>7. ASSUME NEW x \in S \ {s} PROVE \E j \in 1 .. n - 1 : shorter[j] = x
  <2>1. PICK k \in 1 .. n : order[k] = x
    BY DEF Orders
  <2>2. k # i
    BY <2>1
  <2>3. CASE k < i
    BY <1>1, <2>1, <2>3
  <2>4. CASE k > i
    <3>1. k - 1 \in 1 .. n - 1 /\ ~(k - 1 < i) /\ k - 1 + 1 = k
      BY <1>1, <2>4
    <3>2. shorter[k - 1] = x
      BY <2>1, <3>1
    <3> QED
      BY <3>1, <3>2
  <2> QED
    BY <1>1, <2>2, <2>3, <2>4
<1>8. [j \in 1 .. Len(order) - 1 |-> IF j < i THEN order[j] ELSE order[j + 1]] = shorter
  BY <1>1
<1>9. Orders(shorter, S \ {s})
  BY <1>2, <1>5, <1>6, <1>7 DEF Orders
<1> QED
  BY <1>8, <1>9

LEMMA PlanFinite ==
  \A st : IsFiniteSet(OnPlanOf(st))
BY InvoicesAssumption, FS_Subset DEF OnPlanOf

LEMMA OrderStays ==
  ASSUME Orders(plan, OnPlanOf(stage)), plan' = plan, NEW s \in Stages, NEW row, row # Bp!NoRow,
         stage \in StageTable, stage' = [stage EXCEPT ![s] = row], stage[s] # Bp!NoRow
  PROVE  Orders(plan', OnPlanOf(stage'))
<1>1. OnPlanOf(stage') = OnPlanOf(stage)
  BY DEF OnPlanOf, StageTable
<1> QED
  BY <1>1

-----------------------------------------------------------------------------
LEMMA CreateStageStep ==
  ASSUME PlanInv, NEW s \in Stages, NEW t \in Terms, NEW b \in BOOLEAN, Bp!CreateStage(s, t, b)
  PROVE  PlanInv' /\ Honoured
<1> PICK row : row = Bp!NotInvoiced(t, b)
  OBVIOUS
<1>1. row \in Bp!StageRows /\ BilledRow(row) /\ row # Bp!NoRow /\ row.terms = t /\ row.invoice = "none" /\ Weight(row) = 0
  BY DEF Bp!NotInvoiced, Bp!StageRows, BilledRow, Bp!NoRow, Weight, Counted
<1>2. stage[s] = Bp!NoRow /\ stage' = [stage EXCEPT ![s] = row] /\ plan' = Append(plan, s) /\ UNCHANGED <<price, revisions, planTx>>
  BY DEF Bp!CreateStage
<1>3. OnPlanOf(stage') = OnPlanOf(stage) \cup {s} /\ s \notin OnPlanOf(stage)
  BY <1>1, <1>2 DEF OnPlanOf, PlanInv, PlanShape, StageTable
<1>4. Orders(plan', OnPlanOf(stage'))
  <2>1. Orders(Append(plan, s), OnPlanOf(stage) \cup {s})
    BY <1>3, OrderGrows, PlanFinite DEF PlanInv
  <2> QED
    BY <1>2, <1>3, <2>1
<1>5. row.terms.basis = "balance" => \A u \in OnPlanOf(stage) \ {s} : stage[u].terms.basis # "balance"
  BY <1>1 DEF Bp!CreateStage, Bp!OneBalance, Bp!OnPlan, OnPlanOf
<1>6. Weight(row) <= Weight(stage[s])
  BY <1>1, <1>2 DEF Weight, Counted
<1>7. \A p \in Txs : planTx[p].op # "release"
  BY DEF Bp!CreateStage, Bp!ProjectFree, Bp!Idle
<1> QED
  BY <1>1, <1>2, <1>4, <1>5, <1>6, <1>7, StageMoves

LEMMA UpdateStageStep ==
  ASSUME PlanInv, NEW s \in Stages, NEW t \in Terms, NEW b \in BOOLEAN, Bp!UpdateStage(s, t, b)
  PROVE  PlanInv' /\ Honoured
<1> PICK row : row = [[stage[s] EXCEPT !.terms = t] EXCEPT !.statement = b]
  OBVIOUS
<1>1. stage[s] # Bp!NoRow /\ stage[s].invoice = "none" /\ stage[s] \in Bp!StageRows /\ stage \in StageTable
  BY DEF Bp!UpdateStage, Bp!Pending, Bp!OnPlan, PlanInv, PlanShape, StageTable
<1>2. /\ row \in Bp!StageRows /\ row # Bp!NoRow
      /\ row.terms = t /\ row.invoice = "none" /\ row.released = stage[s].released /\ row.net = stage[s].net
  BY <1>1 DEF Bp!StageRows, Bp!NoRow
<1>3. BilledRow(row)
  BY <1>1, <1>2 DEF BilledRow, PlanInv, StagesBilled
<1>4. stage' = [stage EXCEPT ![s] = row] /\ plan' = plan /\ UNCHANGED <<price, revisions, planTx>>
  BY <1>1 DEF Bp!UpdateStage, StageTable
<1>5. Orders(plan', OnPlanOf(stage'))
  BY <1>1, <1>2, <1>4, OrderStays DEF PlanInv
<1>6. row.terms.basis = "balance" => \A u \in OnPlanOf(stage) \ {s} : stage[u].terms.basis # "balance"
  BY <1>2 DEF Bp!UpdateStage, Bp!OneBalance, Bp!OnPlan, OnPlanOf
<1>7. Weight(row) <= Weight(stage[s])
  BY <1>1, <1>2 DEF Weight, Counted
<1>8. ASSUME NEW p \in Txs, planTx[p].op = "release" PROVE planTx[p].on # s /\ s \notin planTx[p].takesOff
  BY <1>1, <1>8 DEF Bp!UpdateStage, Bp!StageFree, PlanInv, Releases
<1> QED
  BY <1>2, <1>3, <1>4, <1>5, <1>6, <1>7, <1>8, StageMoves

LEMMA RemoveStageStep ==
  ASSUME PlanInv, NEW s \in Stages, Bp!RemoveStage(s)
  PROVE  PlanInv' /\ Honoured
<1>1. stage[s] # Bp!NoRow /\ stage[s].invoice = "none" /\ stage[s] \in Bp!StageRows /\ stage \in StageTable
  BY DEF Bp!RemoveStage, Bp!Pending, Bp!OnPlan, PlanInv, PlanShape, StageTable
<1>2. stage' = [stage EXCEPT ![s] = Bp!NoRow] /\ UNCHANGED <<price, revisions, planTx>>
  BY DEF Bp!RemoveStage
<1>3. OnPlanOf(stage') = OnPlanOf(stage) \ {s} /\ s \in OnPlanOf(stage)
  BY <1>1, <1>2 DEF OnPlanOf, StageTable
<1>4. Orders(plan', OnPlanOf(stage'))
  <2>1. Bp!Place(s) \in 1 .. Cardinality(OnPlanOf(stage)) /\ plan[Bp!Place(s)] = s
    BY <1>3 DEF PlanInv, Orders, Bp!Place
  <2>2. Orders([j \in 1 .. Len(plan) - 1 |-> IF j < Bp!Place(s) THEN plan[j] ELSE plan[j + 1]], OnPlanOf(stage) \ {s})
    BY <2>1, OrderShrinks, PlanFinite DEF PlanInv
  <2> QED
    BY <1>3, <2>2 DEF Bp!RemoveStage
<1>5. Weight(Bp!NoRow) <= Weight(stage[s])
  BY <1>1 DEF Weight, Counted
<1>6. ASSUME NEW p \in Txs, planTx[p].op = "release" PROVE planTx[p].on # s /\ s \notin planTx[p].takesOff
  BY <1>1, <1>6 DEF Bp!RemoveStage, Bp!StageFree, PlanInv, Releases
<1>7. BilledRow(Bp!NoRow)
  BY DEF BilledRow
<1> QED
  BY <1>2, <1>4, <1>5, <1>6, <1>7, StageMoves

LEMMA EditDraftStep ==
  ASSUME PlanInv, NEW s \in Stages, NEW n \in Edits, Bp!EditDraft(s, n)
  PROVE  PlanInv' /\ Honoured
<1> PICK row : row = [stage[s] EXCEPT !.net = n]
  OBVIOUS
<1>1. stage[s] # Bp!NoRow /\ stage[s].invoice = "draft" /\ stage[s] \in Bp!StageRows /\ stage \in StageTable
  BY DEF Bp!EditDraft, PlanInv, PlanShape, StageTable
<1>2. /\ row \in Bp!StageRows /\ row # Bp!NoRow
      /\ row.terms = stage[s].terms /\ row.invoice = "draft" /\ row.released = stage[s].released
  BY <1>1, InvoicesAssumption DEF Bp!StageRows, Bp!NoRow
<1>3. BilledRow(row) /\ Weight(row) = Weight(stage[s]) /\ Weight(row) \in Nat
  BY <1>1, <1>2 DEF BilledRow, PlanInv, StagesBilled, Weight, Counted
<1>4. stage' = [stage EXCEPT ![s] = row] /\ plan' = plan /\ UNCHANGED <<price, revisions, planTx>>
  BY <1>1 DEF Bp!EditDraft, StageTable
<1>5. Orders(plan', OnPlanOf(stage'))
  BY <1>1, <1>2, <1>4, OrderStays DEF PlanInv
<1>6. row.terms.basis = "balance" => \A u \in OnPlanOf(stage) \ {s} : stage[u].terms.basis # "balance"
  BY <1>1, <1>2 DEF PlanInv, BalancesOnce, OnPlanOf
<1>8. ASSUME NEW p \in Txs, planTx[p].op = "release" PROVE planTx[p].on # s /\ s \notin planTx[p].takesOff
  BY <1>1, <1>8 DEF PlanInv, Releases
<1>9. Weight(row) <= Weight(stage[s]) /\ stage[s].invoice # "none"
  BY <1>1, <1>3
<1> QED
  BY <1>2, <1>3, <1>4, <1>5, <1>6, <1>8, <1>9, StageMoves

(* Issued, or cancelled, its invoice asks for what it asked for.           *)
LEMMA InvoiceMoves ==
  ASSUME PlanInv, NEW s \in Stages, NEW status \in {"issued", "cancelled"},
         stage[s] # Bp!NoRow, stage[s].invoice \in {"draft", "issued"},
         stage' = [stage EXCEPT ![s].invoice = status], UNCHANGED <<price, revisions, plan, planTx>>
  PROVE  PlanInv' /\ Honoured
<1> PICK row : row = [stage[s] EXCEPT !.invoice = status]
  OBVIOUS
<1>1. stage[s] \in Bp!StageRows /\ stage \in StageTable
  BY DEF PlanInv, PlanShape, StageTable
<1>2. /\ row \in Bp!StageRows /\ row # Bp!NoRow /\ row.net = stage[s].net
      /\ row.terms = stage[s].terms /\ row.invoice = status /\ row.released = stage[s].released
  BY <1>1, InvoicesAssumption DEF Bp!StageRows, Bp!NoRow
<1>3. BilledRow(row) /\ Weight(row) <= Weight(stage[s])
  BY <1>1, <1>2 DEF BilledRow, PlanInv, StagesBilled, Weight, Counted
<1>4. stage' = [stage EXCEPT ![s] = row]
  BY <1>1 DEF StageTable
<1>5. Orders(plan', OnPlanOf(stage'))
  BY <1>1, <1>2, <1>4, OrderStays DEF PlanInv
<1>6. row.terms.basis = "balance" => \A u \in OnPlanOf(stage) \ {s} : stage[u].terms.basis # "balance"
  BY <1>1, <1>2 DEF PlanInv, BalancesOnce, OnPlanOf
<1>8. ASSUME NEW p \in Txs, planTx[p].op = "release" PROVE planTx[p].on # s
  BY <1>1, <1>8 DEF PlanInv, Releases
<1>9. row.invoice \in {"issued", "cancelled"} /\ stage[s].invoice # "none"
  BY <1>2
<1> QED
  BY <1>2, <1>3, <1>4, <1>5, <1>6, <1>8, <1>9, StageMoves

LEMMA DeleteDraftStep ==
  ASSUME PlanInv, NEW s \in Stages, Bp!DeleteDraft(s)
  PROVE  PlanInv' /\ Honoured
<1> PICK row : row = Bp!NotInvoiced(stage[s].terms, stage[s].statement)
  OBVIOUS
<1>1. stage[s] # Bp!NoRow /\ stage[s].invoice = "draft" /\ stage[s] \in Bp!StageRows /\ stage \in StageTable
  BY DEF Bp!DeleteDraft, PlanInv, PlanShape, StageTable
<1>2. row \in Bp!StageRows /\ BilledRow(row) /\ row # Bp!NoRow /\ row.terms = stage[s].terms /\ row.invoice = "none" /\ Weight(row) = 0
  BY <1>1, RowIs DEF Bp!NotInvoiced, Bp!StageRows, BilledRow, Bp!NoRow, Weight, Counted
<1>3. Weight(row) <= Weight(stage[s])
  BY <1>1, <1>2 DEF BilledRow, PlanInv, StagesBilled, Weight, Counted
<1>4. stage' = [stage EXCEPT ![s] = row] /\ plan' = plan /\ UNCHANGED <<price, revisions, planTx>>
  BY <1>1 DEF Bp!DeleteDraft, StageTable
<1>5. Orders(plan', OnPlanOf(stage'))
  BY <1>1, <1>2, <1>4, OrderStays DEF PlanInv
<1>6. row.terms.basis = "balance" => \A u \in OnPlanOf(stage) \ {s} : stage[u].terms.basis # "balance"
  BY <1>1, <1>2 DEF PlanInv, BalancesOnce, OnPlanOf
<1>8. ASSUME NEW p \in Txs, planTx[p].op = "release" PROVE planTx[p].on # s /\ s \notin planTx[p].takesOff
  BY <1>1, <1>8 DEF PlanInv, Releases
<1> QED
  BY <1>2, <1>3, <1>4, <1>5, <1>6, <1>8, StageMoves

LEMMA StageSteps ==
  ASSUME PlanInv, NEW s \in Stages, Bp!StageNext(s)
  PROVE  PlanInv' /\ Honoured
<1>1. CASE \E t \in Terms, b \in BOOLEAN : Bp!CreateStage(s, t, b) \/ Bp!UpdateStage(s, t, b)
  BY <1>1, CreateStageStep, UpdateStageStep
<1>2. CASE Bp!RemoveStage(s)
  BY <1>2, RemoveStageStep
<1>3. CASE \E n \in Edits : Bp!EditDraft(s, n)
  BY <1>3, EditDraftStep
<1>4. CASE Bp!Send(s)
  <2>1. /\ stage[s] # Bp!NoRow /\ stage[s].invoice = "draft" /\ stage' = [stage EXCEPT ![s].invoice = "issued"]
        /\ UNCHANGED <<price, revisions, plan, planTx>>
    BY <1>4 DEF Bp!Send
  <2> QED
    BY <2>1, InvoiceMoves
<1>5. CASE Bp!Cancel(s)
  <2>1. /\ stage[s] # Bp!NoRow /\ stage[s].invoice = "issued" /\ stage' = [stage EXCEPT ![s].invoice = "cancelled"]
        /\ UNCHANGED <<price, revisions, plan, planTx>>
    BY <1>5 DEF Bp!Cancel
  <2> QED
    BY <2>1, InvoiceMoves
<1>6. CASE Bp!DeleteDraft(s)
  BY <1>6, DeleteDraftStep
<1> QED
  BY <1>1, <1>2, <1>3, <1>4, <1>5, <1>6 DEF Bp!StageNext

(* Nothing is billed, and what was read is so.                             *)
LEMMA NothingBilled ==
  ASSUME PlanInv, UNCHANGED <<price, revisions, stage>>
  PROVE  /\ Honoured
         /\ Bp!ContractedValue' = Bp!ContractedValue
         /\ \A x \in RequestRows : Releases(x) /\ Accepts(x) => Releases(x)' /\ Accepts(x)'
<1>1. Bp!ContractedValue' = Bp!ContractedValue
  BY ContractSame
<1>2. ReleasedOf(stage') = ReleasedOf(stage) /\ ReleasedOf(stage) \in Int /\ stage' \in StageTable
  BY ReleasedAdds DEF PlanInv, PlanShape, StagesBilled
<1>3. ASSUME NEW x \in RequestRows, Releases(x), Accepts(x) PROVE Releases(x)' /\ Accepts(x)'
  <2>1. ReleasedOf(stage') <= ReleasedOf(stage) /\ ReleasedOf(stage') \in Int
    BY <1>2
  <2>2. x.op = "release" =>
            /\ stage'[x.on] = stage[x.on]
            /\ \A e \in x.takesOff : stage'[e] # Bp!NoRow /\ stage'[e].invoice \in {"issued", "cancelled"} /\ stage'[e].net = stage[e].net
    BY <1>3 DEF Releases
  <2>3. Releases(x)'
    BY <1>1, <1>2, <1>3, <2>1, <2>2, ReleasesStay
  <2>4. Accepts(x)'
    BY <1>1, <1>3, AcceptsStay
  <2> QED
    BY <2>3, <2>4
<1>4. Honoured
  <2>1. ~(Bp!Released' > Bp!Released)
    BY <1>2, ReleasedIs
  <2>2. \A t \in Bp!Pending : t \in Bp!OnPlan' => stage'[t].invoice # "draft"
    BY DEF Bp!Pending, Bp!OnPlan
  <2> QED
    BY <2>1, <2>2 DEF Honoured
<1> QED
  BY <1>1, <1>3, <1>4

LEMMA PlanRests ==
  ASSUME PlanInv, UNCHANGED planVars
  PROVE  PlanInv' /\ Honoured
<1>1. UNCHANGED <<price, revisions, plan, stage, planTx>>
  BY DEF planVars
<1>2. PlanShape' /\ StagesBilled' /\ OneAtATime' /\ BalancesOnce' /\ Orders(plan', OnPlanOf(stage'))
  BY <1>1 DEF PlanInv, PlanShape, StagesBilled, OneAtATime, BalancesOnce, OnPlanOf, Bp!Idle, Bp!NoRow
<1>3. ASSUME NEW p \in Txs PROVE Releases(planTx[p])' /\ Accepts(planTx[p])'
  <2> PICK x : x = planTx[p]
    OBVIOUS
  <2>1. x \in RequestRows /\ Releases(x) /\ Accepts(x)
    BY DEF PlanInv, PlanShape
  <2>2. Releases(x)' /\ Accepts(x)'
    BY <1>1, <2>1, NothingBilled
  <2>3. planTx'[p] = x
    BY <1>1
  <2> QED
    BY <2>2, <2>3
<1> QED
  BY <1>1, <1>2, <1>3, NothingBilled DEF PlanInv, OnPlanOf, Orders, Bp!NoRow

LEMMA RequestMoves ==
  ASSUME PlanInv, NEW p \in Txs, NEW y \in RequestRows, Releases(y), Accepts(y),
         y = Bp!Idle \/ (\A q \in Txs : planTx[q] = Bp!Idle),
         planTx' = [planTx EXCEPT ![p] = y], UNCHANGED <<price, revisions, plan, stage>>
  PROVE  PlanInv' /\ Honoured
<1>1. planTx \in [Txs -> RequestRows]
  BY DEF PlanInv, PlanShape
<1>2. PlanShape' /\ StagesBilled' /\ OneAtATime' /\ BalancesOnce' /\ Orders(plan', OnPlanOf(stage'))
  <2>1. OneAtATime'
    BY <1>1 DEF PlanInv, OneAtATime, Bp!Idle
  <2> QED
    BY <1>1, <2>1 DEF PlanInv, PlanShape, StagesBilled, BalancesOnce, OnPlanOf, Bp!NoRow
<1>3. ASSUME NEW q \in Txs PROVE Releases(planTx[q])' /\ Accepts(planTx[q])'
  <2> PICK x : x = planTx'[q]
    OBVIOUS
  <2>1. x \in RequestRows /\ Releases(x) /\ Accepts(x)
    <3>1. x = y \/ x = planTx[q]
      BY <1>1
    <3> QED
      BY <1>1, <3>1 DEF PlanInv
  <2>2. Releases(x)' /\ Accepts(x)'
    BY <2>1, NothingBilled
  <2> QED
    BY <2>2
<1> QED
  BY <1>2, <1>3, NothingBilled DEF PlanInv, OnPlanOf, Orders, Bp!NoRow

LEMMA RollBackStep ==
  ASSUME PlanInv, NEW p \in Txs, Bp!RollBack(p)
  PROVE  PlanInv' /\ Honoured
<1>1. Releases(Bp!Idle) /\ Accepts(Bp!Idle) /\ Bp!Idle \in RequestRows
  BY DEF Releases, Accepts, Bp!Idle, RequestRows
<1> QED
  BY <1>1, RequestMoves DEF Bp!RollBack

LEMMA AcceptStep ==
  ASSUME PlanInv, NEW p \in Txs, NEW r \in Payments, Bp!Accept(p, r)
  PROVE  PlanInv' /\ Honoured
<1> PICK y : y = [op |-> "accept", on |-> r, previous |-> Bp!ContractedValue]
  OBVIOUS
<1>1. y \in RequestRows /\ y.op = "accept"
  BY ContractTyped DEF PlanInv, RequestRows, Bp!Accepting
<1>2. Releases(y) /\ Accepts(y)
  BY <1>1 DEF Releases, Accepts, Bp!Accept
<1>3. planTx' = [planTx EXCEPT ![p] = y] /\ UNCHANGED <<price, revisions, plan, stage>> /\ \A q \in Txs : planTx[q] = Bp!Idle
  BY DEF Bp!Accept, Bp!ProjectFree
<1> QED
  BY <1>1, <1>2, <1>3, RequestMoves

LEMMA ReorderStep ==
  ASSUME PlanInv, NEW order \in Bp!Bijection(DOMAIN plan, Bp!OnPlan), Bp!ReorderStages(order)
  PROVE  PlanInv' /\ Honoured
<1>1. UNCHANGED <<price, revisions, stage, planTx>> /\ plan' = order
  BY DEF Bp!ReorderStages
<1>2. DOMAIN plan = 1 .. Cardinality(OnPlanOf(stage)) /\ Bp!OnPlan = OnPlanOf(stage)
  BY DEF PlanInv, Orders, Bp!OnPlan, OnPlanOf
<1>3. Orders(order, OnPlanOf(stage))
  BY <1>2, OrdersIs
<1>4. Orders(plan', OnPlanOf(stage'))
  BY <1>1, <1>3
<1>5. PlanShape' /\ StagesBilled' /\ OneAtATime' /\ BalancesOnce'
  BY <1>1 DEF PlanInv, PlanShape, StagesBilled, OneAtATime, BalancesOnce, OnPlanOf, Bp!Idle, Bp!NoRow
<1>6. ASSUME NEW p \in Txs PROVE Releases(planTx[p])' /\ Accepts(planTx[p])'
  <2> PICK x : x = planTx[p]
    OBVIOUS
  <2>1. x \in RequestRows /\ Releases(x) /\ Accepts(x)
    BY DEF PlanInv, PlanShape
  <2>2. Releases(x)' /\ Accepts(x)'
    BY <1>1, <2>1, NothingBilled
  <2>3. planTx'[p] = x
    BY <1>1
  <2> QED
    BY <2>2, <2>3
<1> QED
  BY <1>1, <1>4, <1>5, <1>6, NothingBilled DEF PlanInv, OnPlanOf, Orders, Bp!NoRow

LEMMA NoneUnderWay ==
  ASSUME Bp!ProjectFree, planTx' = planTx
  PROVE  \A p \in Txs : Releases(planTx[p])' /\ Accepts(planTx[p])'
BY DEF Bp!ProjectFree, Bp!Idle, Releases, Accepts

LEMMA SetPriceStep ==
  ASSUME PlanInv, NEW v \in Prices \cup {None}, Bp!SetPrice(v)
  PROVE  PlanInv' /\ Honoured
<1>1. Bp!ProjectFree /\ price' = v /\ UNCHANGED <<revisions, plan, stage, planTx>>
  BY DEF Bp!SetPrice
<1>2. PlanShape' /\ StagesBilled' /\ OneAtATime' /\ BalancesOnce' /\ Orders(plan', OnPlanOf(stage'))
  BY <1>1 DEF PlanInv, PlanShape, StagesBilled, OneAtATime, BalancesOnce, OnPlanOf, Bp!Idle, Bp!NoRow
<1>3. Honoured
  <2>1. ~(Bp!Released' > Bp!Released)
    <3>1. ReleasedOf(stage) \in Int
      BY ReleasedAdds DEF PlanInv, PlanShape, StagesBilled
    <3> QED
      BY <1>1, <3>1, ReleasedIs
  <2>2. \A t \in Bp!Pending : t \in Bp!OnPlan' => stage'[t].invoice # "draft"
    BY <1>1 DEF Bp!Pending, Bp!OnPlan
  <2>3. \A r \in Payments : ~(revisions[r].status = "sent" /\ revisions'[r].status = "accepted")
    BY <1>1
  <2> QED
    BY <2>1, <2>2, <2>3 DEF Honoured
<1> QED
  BY <1>1, <1>2, <1>3, NoneUnderWay DEF PlanInv, OnPlanOf, Orders, Bp!NoRow

-----------------------------------------------------------------------------
LEMMA RevisionMoves ==
  ASSUME PlanInv, NEW r \in Payments, NEW row \in Bp!RevisionRows \cup {Bp!NoRow}, row.status # "accepted",
         revisions[r].status # "accepted", \A p \in Txs : planTx[p].op = "accept" => planTx[p].on # r,
         revisions' = [revisions EXCEPT ![r] = row], UNCHANGED <<price, plan, stage, planTx>>
  PROVE  PlanInv' /\ Honoured
<1>1. revisions \in RevisionTable /\ revisions' \in RevisionTable /\ revisions'[r] = row /\ \A q \in Payments \ {r} : revisions'[q] = revisions[q]
  BY DEF PlanInv, PlanShape, RevisionTable
<1>2. Bp!ContractedValue' = Bp!ContractedValue
  BY <1>1, ContractSame
<1>3. PlanShape' /\ StagesBilled' /\ OneAtATime' /\ BalancesOnce' /\ Orders(plan', OnPlanOf(stage'))
  BY <1>1 DEF PlanInv, PlanShape, StagesBilled, OneAtATime, BalancesOnce, OnPlanOf, Bp!Idle, Bp!NoRow
<1>4. ReleasedOf(stage') = ReleasedOf(stage) /\ ReleasedOf(stage) \in Int /\ stage' \in StageTable
  BY ReleasedAdds DEF PlanInv, PlanShape, StagesBilled
<1>5. ASSUME NEW p \in Txs PROVE Releases(planTx[p])' /\ Accepts(planTx[p])'
  <2> PICK x : x = planTx[p]
    OBVIOUS
  <2>1. x \in RequestRows /\ Releases(x) /\ Accepts(x)
    BY DEF PlanInv, PlanShape
  <2>2. ReleasedOf(stage') <= ReleasedOf(stage) /\ ReleasedOf(stage') \in Int
    BY <1>4
  <2>3. x.op = "release" =>
            /\ stage'[x.on] = stage[x.on]
            /\ \A e \in x.takesOff : stage'[e] # Bp!NoRow /\ stage'[e].invoice \in {"issued", "cancelled"} /\ stage'[e].net = stage[e].net
    BY <2>1 DEF Releases
  <2>4. Releases(x)'
    BY <1>2, <1>4, <2>1, <2>2, <2>3, ReleasesStay
  <2>5. x.op = "accept" => revisions'[x.on] = revisions[x.on]
    BY <1>1, <2>1 DEF Accepts
  <2>6. Accepts(x)'
    BY <1>2, <2>1, <2>5, AcceptsStay
  <2>7. planTx'[p] = x
    OBVIOUS
  <2> QED
    BY <2>4, <2>6, <2>7
<1>6. Honoured
  <2>1. ~(Bp!Released' > Bp!Released)
    BY <1>4, ReleasedIs
  <2>2. \A t \in Bp!Pending : t \in Bp!OnPlan' => stage'[t].invoice # "draft"
    BY DEF Bp!Pending, Bp!OnPlan
  <2>3. \A q \in Payments : ~(revisions[q].status = "sent" /\ revisions'[q].status = "accepted")
    BY <1>1
  <2> QED
    BY <2>1, <2>2, <2>3 DEF Honoured
<1> QED
  BY <1>3, <1>5, <1>6 DEF PlanInv, OnPlanOf, Orders, Bp!NoRow

LEMMA RevisionIs ==
  ASSUME PlanInv, NEW r \in Payments, revisions[r].status # "none"
  PROVE  revisions[r] \in Bp!RevisionRows /\ revisions \in RevisionTable
BY DEF PlanInv, PlanShape, RevisionTable, Bp!NoRow

LEMMA MoveRevisionStep ==
  ASSUME PlanInv, NEW r \in Payments, NEW from \in {"draft", "sent"}, NEW to \in {"sent", "declined", "withdrawn"},
         Bp!MoveRevision(r, from, to)
  PROVE  PlanInv' /\ Honoured
<1> PICK row : row = [revisions[r] EXCEPT !.status = to]
  OBVIOUS
<1>1. revisions[r].status = from /\ revisions[r] \in Bp!RevisionRows /\ revisions \in RevisionTable
  BY RevisionIs DEF Bp!MoveRevision
<1>2. row \in Bp!RevisionRows /\ row.status = to
  BY <1>1 DEF Bp!RevisionRows
<1>3. revisions' = [revisions EXCEPT ![r] = row] /\ UNCHANGED <<price, plan, stage, planTx>>
  BY <1>1 DEF Bp!MoveRevision, RevisionTable
<1>4. \A p \in Txs : planTx[p].op = "accept" => planTx[p].on # r
  BY DEF Bp!MoveRevision, Bp!RevisionFree
<1> QED
  BY <1>1, <1>2, <1>3, <1>4, RevisionMoves

LEMMA RevisionSteps ==
  ASSUME PlanInv, NEW r \in Payments, Bp!RevisionNext(r)
  PROVE  PlanInv' /\ Honoured
<1>1. ASSUME NEW a \in Changes, Bp!CreateRevision(r, a) PROVE PlanInv' /\ Honoured
  <2> PICK row : row = [status |-> "draft", amount |-> a, previous |-> None]
    OBVIOUS
  <2>1. row \in Bp!RevisionRows /\ row.status = "draft"
    BY DEF Bp!RevisionRows
  <2>2. revisions[r].status = "none" /\ revisions' = [revisions EXCEPT ![r] = row] /\ UNCHANGED <<price, plan, stage, planTx>>
    BY <1>1 DEF Bp!CreateRevision, Bp!NoRow
  <2>3. \A p \in Txs : planTx[p].op = "accept" => planTx[p].on # r
    BY <1>1 DEF Bp!CreateRevision, Bp!ProjectFree, Bp!Idle
  <2> QED
    BY <2>1, <2>2, <2>3, RevisionMoves
<1>2. ASSUME NEW a \in Changes, Bp!UpdateRevision(r, a) PROVE PlanInv' /\ Honoured
  <2> PICK row : row = [revisions[r] EXCEPT !.amount = a]
    OBVIOUS
  <2>1. revisions[r].status = "draft" /\ revisions[r] \in Bp!RevisionRows /\ revisions \in RevisionTable
    BY <1>2, RevisionIs DEF Bp!UpdateRevision
  <2>2. row \in Bp!RevisionRows /\ row.status = "draft"
    BY <2>1 DEF Bp!RevisionRows
  <2>3. revisions' = [revisions EXCEPT ![r] = row] /\ UNCHANGED <<price, plan, stage, planTx>>
    BY <1>2, <2>1 DEF Bp!UpdateRevision, RevisionTable
  <2>4. \A p \in Txs : planTx[p].op = "accept" => planTx[p].on # r
    BY <2>1 DEF PlanInv, Accepts
  <2> QED
    BY <2>1, <2>2, <2>3, <2>4, RevisionMoves
<1>3. CASE Bp!DeleteRevision(r)
  <2>1. revisions[r].status = "draft" /\ revisions' = [revisions EXCEPT ![r] = Bp!NoRow] /\ UNCHANGED <<price, plan, stage, planTx>>
    BY <1>3 DEF Bp!DeleteRevision
  <2>2. \A p \in Txs : planTx[p].op = "accept" => planTx[p].on # r
    BY <2>1 DEF PlanInv, Accepts
  <2>3. Bp!NoRow.status # "accepted"
    BY DEF Bp!NoRow
  <2> QED
    BY <2>1, <2>2, <2>3, RevisionMoves
<1>4. CASE Bp!SendRevision(r) \/ Bp!DeclineRevision(r) \/ Bp!WithdrawRevision(r)
  BY <1>4, MoveRevisionStep DEF Bp!SendRevision, Bp!DeclineRevision, Bp!WithdrawRevision
<1> QED
  BY <1>1, <1>2, <1>3, <1>4 DEF Bp!RevisionNext

(* What a stage is worth is a number.                                      *)
LEMMA TheMax ==
  ASSUME NEW x \in Int
  PROVE  Bp!Max({0, x}) = IF x >= 0 THEN x ELSE 0
BY DEF Bp!Max

LEMMA SumNumber ==
  ASSUME NEW S, S \subseteq Stages, NEW f, f = [s \in S |-> f[s]], \A s \in S : f[s] \in Int
  PROVE  Bp!SumFunction(f) = SumFunctionOnSet(f, S) /\ Bp!SumFunction(f) \in Int
<1>1. IsFiniteSet(S)
  BY InvoicesAssumption, FS_Subset
<1>2. DOMAIN f = S
  OBVIOUS
<1>3. Bp!SumFunction(f) = SumFunctionOnSet(f, S)
  BY <1>2, PlanSum
<1>4. SumFunctionOnSet(f, S) \in Int
  BY <1>1, SumInt
<1> QED
  BY <1>3, <1>4

LEMMA ShareNumber ==
  ASSUME NEW c \in Int, NEW w \in Int
  PROVE  Bp!ShareOf(c, w) \in Int
<1>1. c * w \in Int /\ (-c) * w \in Int
  OBVIOUS
<1>2. \A x \in Int : (x + 50) \div 100 \in Int /\ -((x + 50) \div 100) \in Int
  OBVIOUS
<1> QED
  BY <1>1, <1>2 DEF Bp!ShareOf

LEMMA KnownNumber ==
  ASSUME PlanInv, NEW s \in Bp!OnPlan
  PROVE  /\ Bp!Known(s) \in Int /\ stage[s] \in Bp!StageRows
         /\ s \in Bp!Pending /\ stage[s].terms.basis = "amount" => Bp!Known(s) = stage[s].terms.worth
         /\ s \in Bp!Pending /\ stage[s].terms.basis = "balance" => Bp!Known(s) = 0
<1>1. stage[s] \in Bp!StageRows /\ s \in Stages
  BY DEF PlanInv, PlanShape, StageTable, Bp!OnPlan
<1>2. /\ stage[s].terms \in Terms /\ stage[s].terms.worth \in Int /\ stage[s].terms.basis \in {"amount", "percent", "balance"}
      /\ stage[s].released \in Int \cup {None}
  BY <1>1, RowIs
<1>3. Bp!ContractedValue \in Int \cup {None}
  BY ContractTyped DEF PlanInv
<1>4. s \in Bp!Pending => stage[s].released = None
  BY <1>1 DEF Bp!Pending, PlanInv, StagesBilled, BilledRow, Bp!OnPlan
<1>5. Bp!ContractedValue # None => Bp!ShareOf(Bp!ContractedValue, stage[s].terms.worth) \in Int
  BY <1>2, <1>3, ShareNumber
<1>6. Bp!Known(s) \in Int
  BY <1>2, <1>5 DEF Bp!Known
<1> QED
  BY <1>1, <1>4, <1>6 DEF Bp!Known

LEMMA WorthNumber ==
  ASSUME PlanInv, NEW s \in Bp!OnPlan
  PROVE  /\ Bp!Worth(s) \in Int
         /\ s \in Bp!Pending /\ stage[s].terms.basis = "amount" => Bp!Worth(s) = stage[s].terms.worth
<1>1. \A t \in Bp!OnPlan : Bp!Known(t) \in Int
  BY KnownNumber
<1>2. Bp!ContractedValue \in Int \cup {None}
  BY ContractTyped DEF PlanInv
<1>3. Bp!OnPlan \subseteq Stages
  BY DEF Bp!OnPlan
<1>4. Bp!SumFunction([other \in Bp!BesideBalance(s) |-> Bp!Known(other)]) \in Int
  <2>1. Bp!BesideBalance(s) \subseteq Stages /\ Bp!BesideBalance(s) \subseteq Bp!OnPlan
    BY <1>3 DEF Bp!BesideBalance
  <2> QED
    BY <1>1, <2>1, SumNumber
<1>5. Bp!SumFunction([other \in Bp!OnPlan |-> Bp!Known(other)]) \in Int
  BY <1>1, <1>3, SumNumber
<1>6. CASE s \in Bp!Pending /\ stage[s].terms.basis = "balance"
  <2>1. Bp!ContractedValue # None =>
          Bp!Max({0, Bp!ContractedValue - Bp!SumFunction([other \in Bp!BesideBalance(s) |-> Bp!Known(other)])}) \in Int
    <3> PICK x : x = Bp!SumFunction([other \in Bp!BesideBalance(s) |-> Bp!Known(other)])
      OBVIOUS
    <3> SUFFICES ASSUME Bp!ContractedValue # None PROVE Bp!Max({0, Bp!ContractedValue - x}) \in Int
      OBVIOUS
    <3>1. Bp!ContractedValue - x \in Int
      BY <1>2, <1>4
    <3> QED
      BY <3>1, TheMax
  <2> QED
    BY <1>6, <2>1 DEF Bp!Worth
<1>7. CASE ~(s \in Bp!Pending /\ stage[s].terms.basis = "balance")
  <2>1. Bp!Worth(s) \in {Bp!Known(s)} \/
        (Bp!ContractedValue # None /\ Bp!SharesMakeTheWhole /\
            Bp!Worth(s) = Bp!Known(s) + Bp!ContractedValue - Bp!SumFunction([other \in Bp!OnPlan |-> Bp!Known(other)]))
    BY <1>7 DEF Bp!Worth
  <2>2. Bp!Worth(s) \in Int
    BY <1>1, <1>2, <1>5, <2>1
  <2>3. s \in Bp!Pending /\ stage[s].terms.basis = "amount" => ~Bp!SharesMakeTheWhole
    BY DEF Bp!SharesMakeTheWhole
  <2> QED
    BY <2>1, <2>2, <2>3, KnownNumber
<1> QED
  BY <1>6, <1>7

LEMMA NetNumber ==
  ASSUME PlanInv, NEW S, S \subseteq Bp!OnPlan
  PROVE  NetOf(stage, S) \in Int
<1>1. S \subseteq Stages /\ \A e \in S : stage[e].net \in Int
  BY KnownNumber, RowIs DEF Bp!OnPlan
<1> QED
  BY <1>1, SumNumber DEF NetOf

-----------------------------------------------------------------------------
LEMMA ReleaseStep ==
  ASSUME PlanInv, NEW p \in Txs, NEW s \in Stages, Bp!Release(p, s)
  PROVE  PlanInv' /\ Honoured
<1> PICK off : off = IF stage[s].statement THEN Bp!EarlierInvoices(s) ELSE {}
  OBVIOUS
<1> PICK y : y = [op |-> "release", on |-> s, amount |-> Bp!Worth(s), takesOff |-> off]
  OBVIOUS
<1>1. s \in Bp!Pending /\ s \in Bp!OnPlan /\ stage[s] # Bp!NoRow /\ stage[s].invoice = "none"
  BY DEF Bp!Release, Bp!Pending, Bp!OnPlan
<1>2. Bp!Worth(s) \in Nat \ {0}
  BY <1>1, WorthNumber DEF Bp!Release, Bp!WorthBilling
<1>3. off \subseteq Bp!OnPlan /\ s \notin off /\ off \subseteq Stages
  BY DEF Bp!EarlierInvoices, Bp!OnPlan
<1>4. y \in RequestRows /\ y.op = "release"
  BY <1>2, <1>3 DEF RequestRows, Bp!Releasing
<1>5. Bp!ContractedValue \in Int /\ Bp!ContractedValue # None /\ ReleasedOf(stage) + Bp!Worth(s) <= Bp!ContractedValue
  BY ContractTyped, ReleasedIs DEF PlanInv, Bp!Release
<1>6. \A e \in off : stage[e] # Bp!NoRow /\ stage[e].invoice \in {"issued", "cancelled"}
  BY DEF Bp!Release, Bp!MayBeStatement, Bp!MayTakeOff, Bp!EarlierInvoices, Bp!OnPlan
<1>7. stage[s].statement => Bp!Worth(s) + NetOf(stage, off) = Bp!ContractedValue
  <2> SUFFICES ASSUME stage[s].statement PROVE Bp!Worth(s) + NetOf(stage, off) = Bp!ContractedValue
    OBVIOUS
  <2>1. Bp!ContractedValue - NetOf(stage, off) = Bp!Worth(s)
    BY DEF Bp!Release, Bp!MayBeStatement, NetOf
  <2>2. NetOf(stage, off) \in Int
    BY <1>3, NetNumber
  <2> QED
    BY <1>2, <1>5, <2>1, <2>2
<1>8. stage[s].terms.basis = "amount" => Bp!Worth(s) = stage[s].terms.worth
  BY <1>1, WorthNumber
<1>9. Releases(y)
  BY <1>1, <1>2, <1>3, <1>5, <1>6, <1>7, <1>8 DEF Releases
<1>10. Accepts(y)
  BY <1>4 DEF Accepts
<1>11. planTx' = [planTx EXCEPT ![p] = y] /\ UNCHANGED <<price, revisions, plan, stage>> /\ \A q \in Txs : planTx[q] = Bp!Idle
  BY DEF Bp!Release, Bp!ProjectFree
<1> QED
  BY <1>4, <1>9, <1>10, <1>11, RequestMoves

LEMMA AllRest ==
  ASSUME PlanInv, NEW p \in Txs, planTx[p] # Bp!Idle, planTx' = [planTx EXCEPT ![p] = Bp!Idle]
  PROVE  /\ planTx' \in [Txs -> RequestRows] /\ OneAtATime'
         /\ \A q \in Txs : Releases(planTx[q])' /\ Accepts(planTx[q])'
<1>1. \A q \in Txs : planTx'[q] = Bp!Idle
  BY DEF PlanInv, OneAtATime, PlanShape
<1>2. planTx' \in [Txs -> RequestRows]
  BY DEF PlanInv, PlanShape, RequestRows
<1> QED
  BY <1>1, <1>2 DEF OneAtATime, Releases, Accepts, Bp!Idle

LEMMA CommitReleaseStep ==
  ASSUME PlanInv, NEW p \in Txs, Bp!CommitRelease(p)
  PROVE  PlanInv' /\ Honoured
<1> PICK x : x = planTx[p]
  OBVIOUS
<1>1. x.op = "release" /\ x \in RequestRows /\ Releases(x) /\ planTx[p] # Bp!Idle
  BY DEF Bp!CommitRelease, PlanInv, PlanShape, Bp!Idle
<1> PICK s : s = x.on
  OBVIOUS
<1>2. /\ s \in Stages /\ stage[s] # Bp!NoRow /\ stage[s].invoice = "none" /\ x.amount \in Nat \ {0}
      /\ stage[s].terms.basis = "amount" => x.amount = stage[s].terms.worth
      /\ x.takesOff \subseteq Stages /\ s \notin x.takesOff
      /\ Bp!ContractedValue # None /\ ReleasedOf(stage) + x.amount <= Bp!ContractedValue
  BY <1>1 DEF Releases
<1> PICK row : row = [stage[s] EXCEPT !.invoice = "draft", !.released = x.amount, !.net = x.amount, !.takesOff = x.takesOff]
  OBVIOUS
<1>3. stage \in StageTable /\ stage[s] \in Bp!StageRows
  BY <1>2 DEF PlanInv, PlanShape, StageTable
<1>4. /\ row \in Bp!StageRows /\ row # Bp!NoRow /\ row.terms = stage[s].terms /\ row.statement = stage[s].statement
      /\ row.invoice = "draft" /\ row.released = x.amount /\ row.net = x.amount /\ row.takesOff = x.takesOff
  <2>1. /\ row.terms = stage[s].terms /\ row.statement = stage[s].statement
        /\ row.invoice = "draft" /\ row.released = x.amount /\ row.net = x.amount /\ row.takesOff = x.takesOff
    BY <1>3 DEF Bp!StageRows
  <2>2. x.amount \in Int /\ x.takesOff \in SUBSET Stages
    BY <1>2
  <2>3. row \in Bp!StageRows
    BY <1>3, <2>2 DEF Bp!StageRows
  <2> QED
    BY <2>1, <2>3, RowIs
<1>5. stage' = [stage EXCEPT ![s] = row] /\ planTx' = [planTx EXCEPT ![p] = Bp!Idle] /\ UNCHANGED <<price, revisions, plan>>
  BY <1>3 DEF Bp!CommitRelease, StageTable
<1>6. stage' \in StageTable /\ stage'[s] = row /\ \A t \in Stages \ {s} : stage'[t] = stage[t]
  BY <1>2, <1>3, <1>4, <1>5 DEF StageTable
<1>7. BilledRow(row) /\ Weight(row) = x.amount /\ Weight(stage[s]) = 0
  BY <1>2, <1>4 DEF BilledRow, Weight, Counted
<1>8. (\A t \in Stages : BilledRow(stage[t])) /\ (\A t \in Stages : BilledRow(stage'[t]))
  BY <1>6, <1>7 DEF PlanInv, StagesBilled
<1>9. ReleasedOf(stage') = ReleasedOf(stage) + x.amount /\ ReleasedOf(stage) \in Int
  <2> PICK a, b : a = stage /\ b = stage'
    OBVIOUS
  <2>1. /\ a \in StageTable /\ (\A t \in Stages : BilledRow(a[t])) /\ b \in StageTable /\ (\A t \in Stages : BilledRow(b[t]))
        /\ (\A t \in Stages \ {s} : a[t] = b[t]) /\ s \in Stages
    BY <1>2, <1>3, <1>6, <1>8
  <2>2. ReleasedOf(b) = ReleasedOf(a) - Weight(a[s]) + Weight(b[s])
    BY ONLY <2>1, ReleasedChanges
  <2>3. ReleasedOf(a) \in Int
    BY <2>1, ReleasedAdds
  <2> QED
    BY <1>2, <1>6, <1>7, <2>2, <2>3
<1>10. Bp!ContractedValue' = Bp!ContractedValue
  BY <1>5, ContractSame
<1>11. Orders(plan', OnPlanOf(stage'))
  BY <1>2, <1>3, <1>4, <1>5, OrderStays DEF PlanInv
<1>12. BalancesOnce'
  <2> SUFFICES ASSUME NEW a \in Stages, NEW b \in Stages, stage'[a] # Bp!NoRow, stage'[b] # Bp!NoRow,
                      stage'[a].terms.basis = "balance", stage'[b].terms.basis = "balance"
               PROVE  a = b
    BY DEF BalancesOnce, OnPlanOf, Bp!NoRow
  <2>1. ASSUME NEW t \in Stages, stage'[t] # Bp!NoRow, stage'[t].terms.basis = "balance"
        PROVE  t \in OnPlanOf(stage) /\ stage[t].terms.basis = "balance"
    <3>1. CASE t = s
      <4>1. stage[s].terms.basis = "balance"
        BY <1>4, <1>6, <2>1, <3>1
      <4> QED
        BY <1>2, <3>1, <4>1 DEF OnPlanOf
    <3>2. CASE t # s
      <4>1. stage'[t] = stage[t]
        BY <1>6, <3>2
      <4> QED
        BY <2>1, <4>1 DEF OnPlanOf
    <3> QED
      BY <3>1, <3>2
  <2> QED
    BY <2>1 DEF PlanInv, BalancesOnce
<1>13. PlanInv'
  <2>1. PlanShape'
    BY <1>1, <1>5, <1>6, AllRest DEF PlanInv, PlanShape
  <2>2. StagesBilled'
    BY <1>8 DEF StagesBilled
  <2> QED
    BY <1>1, <1>5, <1>11, <1>12, <2>1, <2>2, AllRest DEF PlanInv, OnPlanOf, Orders, Bp!NoRow
<1>14. Honoured
  <2>1. Bp!ContractedValue' # None /\ Bp!Released' <= Bp!ContractedValue'
    BY <1>2, <1>9, <1>10, ReleasedIs
  <2>2. ASSUME NEW t \in Bp!Pending, stage[t].statement, stage'[t].invoice = "draft"
        PROVE  stage'[t].net + Bp!SumFunction([e \in stage'[t].takesOff |-> stage'[e].net]) = Bp!ContractedValue'
    <3>1. t \in Stages /\ stage[t].invoice = "none"
      BY DEF Bp!Pending, Bp!OnPlan
    <3>2. t = s
      BY <1>6, <2>2, <3>1
    <3>3. x.amount + NetOf(stage, x.takesOff) = Bp!ContractedValue
      BY <1>1, <2>2, <3>2 DEF Releases
    <3>4. NetOf(stage', x.takesOff) = NetOf(stage, x.takesOff)
      <4>1. \A e \in x.takesOff : stage[e] # Bp!NoRow /\ stage'[e] # Bp!NoRow /\ stage[e].net = stage'[e].net
        BY <1>1, <1>2, <1>6 DEF Releases
      <4> QED
        BY <1>2, <1>3, <1>6, <4>1, NetSame
    <3>5. stage'[t].net = x.amount /\ stage'[t].takesOff = x.takesOff
      BY <1>4, <1>6, <3>2
    <3>6. stage'[t].net + NetOf(stage', stage'[t].takesOff) = Bp!ContractedValue'
      BY <1>10, <3>3, <3>4, <3>5
    <3> QED
      BY <3>6 DEF NetOf
  <2>3. \A r \in Payments : ~(revisions[r].status = "sent" /\ revisions'[r].status = "accepted")
    BY <1>5
  <2> QED
    BY <2>1, <2>2, <2>3 DEF Honoured
<1> QED
  BY <1>13, <1>14

LEMMA CommitAcceptStep ==
  ASSUME PlanInv, NEW p \in Txs, Bp!CommitAccept(p)
  PROVE  PlanInv' /\ Honoured
<1> PICK x : x = planTx[p]
  OBVIOUS
<1>1. x.op = "accept" /\ x \in RequestRows /\ Accepts(x) /\ planTx[p] # Bp!Idle
  BY DEF Bp!CommitAccept, PlanInv, PlanShape, Bp!Idle
<1> PICK r : r = x.on
  OBVIOUS
<1>2. /\ r \in Payments /\ revisions[r].status = "sent" /\ x.previous = Bp!ContractedValue
      /\ revisions[r].amount # 0 =>
            (IF Bp!ContractedValue = None THEN 0 ELSE Bp!ContractedValue) + revisions[r].amount >= 0
  BY <1>1 DEF Accepts
<1> PICK row : row = [revisions[r] EXCEPT !.status = "accepted", !.previous = x.previous]
  OBVIOUS
<1>3. revisions \in RevisionTable /\ revisions[r] \in Bp!RevisionRows
  BY <1>2, RevisionIs
<1>4. Bp!ContractedValue \in Int \cup {None} /\ (price # None => price \in Int) /\ AcceptedOf(revisions) \in Int
  BY ContractTyped DEF PlanInv
<1>5. row \in Bp!RevisionRows /\ row.status = "accepted" /\ row.amount = revisions[r].amount /\ row.amount \in Int /\ row.previous = x.previous
  BY <1>2, <1>3, <1>4, InvoicesAssumption DEF Bp!RevisionRows
<1>6. revisions' = [revisions EXCEPT ![r] = row] /\ planTx' = [planTx EXCEPT ![p] = Bp!Idle] /\ UNCHANGED <<price, stage, plan>>
  BY <1>3 DEF Bp!CommitAccept, RevisionTable
<1>7. revisions' \in RevisionTable /\ revisions'[r] = row /\ \A q \in Payments \ {r} : revisions'[q] = revisions[q]
  BY <1>2, <1>3, <1>5, <1>6 DEF RevisionTable
<1>8. AcceptedOf(revisions') = AcceptedOf(revisions) + row.amount
  <2>1. AcceptedOf(revisions') = AcceptedOf(revisions) - Gain(revisions[r]) + Gain(revisions'[r])
    <3> PICK a, b : a = revisions /\ b = revisions'
      OBVIOUS
    <3>1. a \in RevisionTable /\ b \in RevisionTable /\ r \in Payments /\ \A q \in Payments \ {r} : a[q] = b[q]
      BY <1>2, <1>3, <1>7
    <3>2. AcceptedOf(b) = AcceptedOf(a) - Gain(a[r]) + Gain(b[r])
      BY ONLY <3>1, AcceptedChanges
    <3> QED
      BY <3>2
  <2>2. Gain(revisions[r]) = 0 /\ Gain(revisions'[r]) = row.amount
    BY <1>2, <1>5, <1>7 DEF Gain
  <2> QED
    BY <1>4, <1>5, <2>1, <2>2
<1>9. row.amount < 0 => Bp!ContractedValue' \in Nat \cup {None}
  <2> SUFFICES ASSUME row.amount < 0 PROVE Bp!ContractedValue' \in Nat \cup {None}
    OBVIOUS
  <2>1. (IF Bp!ContractedValue = None THEN 0 ELSE Bp!ContractedValue) + row.amount >= 0
    BY <1>2, <1>5
  <2>2. CASE price # None
    <3>1. Bp!ContractedValue' = price + (AcceptedOf(revisions) + row.amount)
      BY <1>6, <1>8, <2>2, ContractIs DEF ContractOf
    <3>2. Bp!ContractedValue = price + AcceptedOf(revisions)
      BY <2>2, ContractIs DEF ContractOf
    <3>3. Bp!ContractedValue \in Int /\ Bp!ContractedValue # None
      BY <1>4, <2>2, <3>2, InvoicesAssumption
    <3> QED
      BY <1>4, <1>5, <2>1, <2>2, <3>1, <3>2, <3>3
  <2>3. CASE price = None
    <3>1. Bp!ContractedValue' \in {None, AcceptedOf(revisions) + row.amount}
      BY <1>6, <1>8, <2>3, ContractIs DEF ContractOf
    <3>2. Bp!ContractedValue = IF AcceptedOf(revisions) = 0 THEN None ELSE AcceptedOf(revisions)
      BY <2>3, ContractIs DEF ContractOf
    <3>3. (IF Bp!ContractedValue = None THEN 0 ELSE Bp!ContractedValue) = AcceptedOf(revisions)
      BY <1>4, <3>2, InvoicesAssumption
    <3> QED
      BY <1>4, <1>5, <2>1, <3>1, <3>3
  <2> QED
    BY <2>2, <2>3
<1>10. PlanInv'
  <2>1. PlanShape'
    BY <1>1, <1>6, <1>7, AllRest DEF PlanInv, PlanShape
  <2>2. StagesBilled' /\ BalancesOnce' /\ Orders(plan', OnPlanOf(stage'))
    BY <1>6 DEF PlanInv, StagesBilled, BalancesOnce, OnPlanOf, Bp!NoRow
  <2> QED
    BY <1>1, <1>6, <2>1, <2>2, AllRest DEF PlanInv, OnPlanOf, Orders, Bp!NoRow
<1>11. Honoured
  <2>1. ~(Bp!Released' > Bp!Released)
    <3>1. ReleasedOf(stage) \in Int
      BY ReleasedAdds DEF PlanInv, PlanShape, StagesBilled
    <3> QED
      BY <1>6, <3>1, ReleasedIs
  <2>2. \A t \in Bp!Pending : t \in Bp!OnPlan' => stage'[t].invoice # "draft"
    BY <1>6 DEF Bp!Pending, Bp!OnPlan
  <2>3. ASSUME NEW q \in Payments, revisions[q].status = "sent", revisions'[q].status = "accepted"
        PROVE  /\ revisions'[q].previous = Bp!ContractedValue
               /\ revisions[q].amount < 0 => Bp!ContractedValue' \in Nat \cup {None}
    BY <1>2, <1>5, <1>7, <1>9, <2>3
  <2> QED
    BY <2>1, <2>2, <2>3 DEF Honoured
<1> QED
  BY <1>10, <1>11

LEMMA PlanBegins ==
  ASSUME Bp!Init
  PROVE  PlanInv
<1>1. /\ price \in Prices \cup {None} /\ revisions = [r \in Payments |-> Bp!NoRow] /\ plan = <<>>
      /\ stage = [s \in Stages |-> Bp!NoRow] /\ planTx = [p \in Txs |-> Bp!Idle]
  BY DEF Bp!Init
<1>2. OnPlanOf(stage) = {}
  BY <1>1 DEF OnPlanOf
<1>3. Orders(plan, OnPlanOf(stage))
  <2>1. Cardinality({}) = 0
    BY FS_EmptySet
  <2>2. plan \in [1 .. 0 -> {}]
    BY <1>1
  <2> QED
    BY <1>2, <2>1, <2>2 DEF Orders
<1>4. PlanShape
  BY <1>1 DEF PlanShape, RevisionTable, StageTable, RequestRows
<1>5. \A p \in Txs : Releases(planTx[p]) /\ Accepts(planTx[p])
  BY <1>1 DEF Releases, Accepts, Bp!Idle
<1> QED
  BY <1>1, <1>2, <1>3, <1>4, <1>5 DEF PlanInv, StagesBilled, BilledRow, BalancesOnce, OneAtATime

LEMMA PlanMoves ==
  ASSUME PlanInv, Bp!Next
  PROVE  PlanInv' /\ Honoured
<1>1. ASSUME NEW p \in Txs,
             \/ \E s \in Stages : Bp!Release(p, s)
             \/ \E r \in Payments : Bp!Accept(p, r)
             \/ Bp!CommitRelease(p) \/ Bp!CommitAccept(p) \/ Bp!RollBack(p)
      PROVE  PlanInv' /\ Honoured
  BY <1>1, ReleaseStep, AcceptStep, CommitReleaseStep, CommitAcceptStep, RollBackStep
<1>2. CASE \E v \in Prices \cup {None} : Bp!SetPrice(v)
  BY <1>2, SetPriceStep
<1>3. CASE \E r \in Payments : Bp!RevisionNext(r)
  BY <1>3, RevisionSteps
<1>4. CASE \E s \in Stages : Bp!StageNext(s)
  BY <1>4, StageSteps
<1>5. CASE \E order \in Bp!Bijection(DOMAIN plan, Bp!OnPlan) : Bp!ReorderStages(order)
  BY <1>5, ReorderStep
<1> QED
  BY <1>1, <1>2, <1>3, <1>4, <1>5 DEF Bp!Next

LEMMA PlaceIs ==
  ASSUME PlanInv, NEW s \in Bp!OnPlan
  PROVE  Bp!Place(s) \in 1 .. Cardinality(Bp!OnPlan) /\ plan[Bp!Place(s)] = s
<1>1. s \in OnPlanOf(stage) /\ OnPlanOf(stage) = Bp!OnPlan
  BY DEF OnPlanOf, Bp!OnPlan
<1>2. \E i \in DOMAIN plan : plan[i] = s
  BY <1>1 DEF PlanInv, Orders
<1>3. DOMAIN plan = 1 .. Cardinality(Bp!OnPlan)
  BY <1>1 DEF PlanInv, Orders
<1> QED
  BY <1>2, <1>3 DEF Bp!Place

(* One of the stages not billed is the last of them.                       *)
LEMMA OneIsLast ==
  ASSUME PlanInv, Bp!Pending # {}
  PROVE  \E last \in Bp!Pending : Bp!LastPending(last) /\ \A s \in Bp!OnPlan \ {last} : ~Bp!LastPending(s)
<1> PICK n : n = Cardinality(Bp!OnPlan)
  OBVIOUS
<1>1. IsFiniteSet(Bp!OnPlan) /\ Bp!Pending \subseteq Bp!OnPlan
  BY InvoicesAssumption, FS_Subset DEF Bp!OnPlan, Bp!Pending
<1>2. n \in Nat
  BY <1>1, FS_CardinalityType
<1>3. \A s \in Bp!Pending : Bp!Place(s) \in 1 .. n /\ plan[Bp!Place(s)] = s
  BY <1>1, PlaceIs
<1> DEFINE After == {n - Bp!Place(s) : s \in Bp!Pending}
<1>4. After \subseteq Nat /\ After # {}
  BY <1>2, <1>3
<1>5. PICK k \in After : \A m \in After : k <= m
  BY <1>4, LeastNumber
<1>6. PICK last \in Bp!Pending : k = n - Bp!Place(last)
  BY <1>5
<1>7. \A other \in Bp!Pending : Bp!Place(other) <= Bp!Place(last)
  <2> SUFFICES ASSUME NEW other \in Bp!Pending PROVE Bp!Place(other) <= Bp!Place(last)
    OBVIOUS
  <2>1. n - Bp!Place(last) <= n - Bp!Place(other)
    BY <1>5, <1>6
  <2>2. Bp!Place(last) \in Int /\ Bp!Place(other) \in Int /\ n \in Int
    BY <1>2, <1>3
  <2> QED
    BY <2>1, <2>2
<1>8. ASSUME NEW s \in Bp!OnPlan, Bp!LastPending(s) PROVE s = last
  <2>1. s \in Bp!Pending /\ Bp!Place(last) <= Bp!Place(s) /\ Bp!Place(s) <= Bp!Place(last)
    BY <1>7, <1>8 DEF Bp!LastPending
  <2>2. Bp!Place(last) \in Int /\ Bp!Place(s) \in Int
    BY <1>3, <2>1
  <2>3. Bp!Place(s) = Bp!Place(last)
    BY <2>1, <2>2
  <2> QED
    BY <1>3, <2>1, <2>3
<1> QED
  BY <1>7, <1>8 DEF Bp!LastPending

LEMMA PlannedIs ==
  ASSUME PlanInv
  PROVE  /\ Bp!Planned = SumFunctionOnSet([s \in Bp!OnPlan |-> Bp!Worth(s)], Bp!OnPlan)
         /\ Bp!SumFunction([s \in Bp!OnPlan |-> Bp!Known(s)]) = SumFunctionOnSet([s \in Bp!OnPlan |-> Bp!Known(s)], Bp!OnPlan)
         /\ SumFunctionOnSet([s \in Bp!OnPlan |-> Bp!Known(s)], Bp!OnPlan) \in Int
<1>1. \A s \in Bp!OnPlan : Bp!Known(s) \in Int
  BY KnownNumber
<1>2. Bp!OnPlan \subseteq Stages
  BY DEF Bp!OnPlan
<1>3. IsFiniteSet(Bp!OnPlan)
  BY <1>2, InvoicesAssumption, FS_Subset
<1>4. SumFunctionOnSet([s \in Bp!OnPlan |-> Bp!Known(s)], Bp!OnPlan) \in Int
  <2> PICK f : f = [s \in Bp!OnPlan |-> Bp!Known(s)]
    OBVIOUS
  <2>1. \A s \in Bp!OnPlan : f[s] \in Int
    BY <1>1
  <2> QED
    BY <1>3, <2>1, SumInt
<1> QED
  BY <1>4, PlanSum DEF Bp!Planned

LEMMA SharesAddUp ==
  ASSUME PlanInv, Bp!SharesMakeTheWhole, Bp!Pending # {}, Bp!ContractedValue # None
  PROVE  Bp!Planned = Bp!ContractedValue
<1> PICK f, g : f = [s \in Bp!OnPlan |-> Bp!Known(s)] /\ g = [s \in Bp!OnPlan |-> Bp!Worth(s)]
  OBVIOUS
<1> PICK n : n = SumFunctionOnSet(f, Bp!OnPlan)
  OBVIOUS
<1>1. PICK last \in Bp!Pending : Bp!LastPending(last) /\ \A s \in Bp!OnPlan \ {last} : ~Bp!LastPending(s)
  BY OneIsLast
<1>2. last \in Bp!OnPlan
  BY DEF Bp!Pending
<1>3. \A s \in Bp!Pending : stage[s].terms.basis = "percent"
  BY DEF Bp!SharesMakeTheWhole
<1>4. \A s \in Bp!OnPlan : f[s] \in Int /\ g[s] \in Int
  BY KnownNumber, WorthNumber
<1>5. \A s \in Bp!OnPlan \ {last} : f[s] = g[s]
  BY <1>1, <1>3 DEF Bp!Worth
<1>6. Bp!ContractedValue \in Int /\ n \in Int /\ Bp!Planned = SumFunctionOnSet(g, Bp!OnPlan)
  BY ContractTyped, PlannedIs DEF PlanInv
<1>7. g[last] = f[last] + Bp!ContractedValue - n
  <2>1. Bp!Worth(last) = Bp!Known(last) + Bp!ContractedValue - Bp!SumFunction([s \in Bp!OnPlan |-> Bp!Known(s)])
    BY <1>1, <1>3 DEF Bp!Worth
  <2> QED
    BY <1>2, <2>1, PlannedIs
<1>8. IsFiniteSet(Bp!OnPlan)
  BY InvoicesAssumption, FS_Subset DEF Bp!OnPlan
<1>9. SumFunctionOnSet(g, Bp!OnPlan) = SumFunctionOnSet(f, Bp!OnPlan) - f[last] + g[last]
  <2> PICK S : S = Bp!OnPlan
    OBVIOUS
  <2>1. IsFiniteSet(S) /\ last \in S /\ (\A s \in S : f[s] \in Int /\ g[s] \in Int) /\ \A s \in S \ {last} : f[s] = g[s]
    BY <1>2, <1>4, <1>5, <1>8
  <2>2. SumFunctionOnSet(g, S) = SumFunctionOnSet(f, S) - f[last] + g[last]
    BY ONLY <2>1, SumChange
  <2> QED
    BY <2>2
<1> QED
  BY <1>2, <1>4, <1>6, <1>7, <1>9

LEMMA BalanceAddsUp ==
  ASSUME PlanInv, NEW s \in Bp!Pending, stage[s].terms.basis = "balance", Bp!Worth(s) > 0, Bp!ContractedValue # None
  PROVE  Bp!Planned = Bp!ContractedValue
<1> PICK f, g, S : f = [other \in Bp!BesideBalance(s) |-> Bp!Known(other)] /\ g = [t \in Bp!OnPlan |-> Bp!Worth(t)] /\ S = Bp!OnPlan
  OBVIOUS
<1>1. s \in S /\ S \subseteq Stages /\ IsFiniteSet(S) /\ IsFiniteSet(S \ {s}) /\ Bp!BesideBalance(s) = S \ {s}
  BY InvoicesAssumption, FS_Subset, FS_RemoveElement DEF Bp!Pending, Bp!OnPlan, Bp!BesideBalance
<1>2. \A t \in S : g[t] \in Int
  BY WorthNumber
<1>3. \A t \in S \ {s} : f[t] \in Int /\ f[t] = g[t]
  <2> SUFFICES ASSUME NEW t \in S \ {s} PROVE Bp!Known(t) \in Int /\ Bp!Known(t) = Bp!Worth(t)
    BY <1>1
  <2>1. ~Bp!SharesMakeTheWhole
    BY DEF Bp!SharesMakeTheWhole
  <2>2. stage[t].terms.basis # "balance"
    BY <1>1 DEF PlanInv, BalancesOnce, OnPlanOf, Bp!OnPlan
  <2> QED
    BY <2>1, <2>2, KnownNumber DEF Bp!Worth
<1>4. Bp!ContractedValue \in Int
  BY ContractTyped DEF PlanInv
<1>5. SumFunctionOnSet(f, S \ {s}) \in Int /\ Bp!SumFunction(f) = SumFunctionOnSet(f, S \ {s})
  <2>1. Bp!SumFunction(f) = SumFunctionOnSet(f, S \ {s})
    BY <1>1, PlanSum
  <2> QED
    BY <1>1, <1>3, <2>1, SumInt
<1>6. Bp!Worth(s) = Bp!ContractedValue - SumFunctionOnSet(f, S \ {s})
  <2>1. Bp!Worth(s) = Bp!Max({0, Bp!ContractedValue - Bp!SumFunction(f)})
    BY DEF Bp!Worth
  <2> PICK x : x = Bp!ContractedValue - Bp!SumFunction(f)
    OBVIOUS
  <2>2. x \in Int
    BY <1>4, <1>5
  <2>3. Bp!Worth(s) = IF x >= 0 THEN x ELSE 0
    BY <2>1, <2>2, TheMax
  <2> QED
    BY <1>5, <2>2, <2>3
<1>7. SumFunctionOnSet(f, S \ {s}) = SumFunctionOnSet(g, S \ {s})
  BY <1>1, <1>3, SumSame
<1>8. SumFunctionOnSet(g, S) = g[s] + SumFunctionOnSet(g, S \ {s})
  BY <1>1, <1>2, SumTake
<1>9. Bp!Planned = SumFunctionOnSet(g, S)
  BY PlannedIs
<1> QED
  BY <1>1, <1>4, <1>5, <1>6, <1>7, <1>8, <1>9

LEMMA SameCardinality == \A S : Bp!Cardinality(S) = Cardinality(S)
BY Zenon DEF Bp!Cardinality, Cardinality

LEMMA PlanAgrees ==
  PlanInv => Bp!TypeOK /\ Bp!ReleasedAsAgreed /\ Bp!PlanAddsUp
<1> SUFFICES ASSUME PlanInv PROVE Bp!TypeOK /\ Bp!ReleasedAsAgreed /\ Bp!PlanAddsUp
  OBVIOUS
<1>1. OnPlanOf(stage) = Bp!OnPlan
  BY DEF OnPlanOf, Bp!OnPlan
<1>2. plan \in Bp!Bijection(1 .. Cardinality(Bp!OnPlan), Bp!OnPlan)
  BY <1>1, OrdersIs DEF PlanInv
<1>3. ASSUME NEW s \in Bp!OnPlan \ Bp!Pending
      PROVE  stage[s].released \in Nat \ {0} /\ (stage[s].terms.basis = "amount" => stage[s].released = stage[s].terms.worth)
  BY DEF PlanInv, StagesBilled, BilledRow, Bp!OnPlan, Bp!Pending
<1>4. Bp!TypeOK
  <2>1. /\ price \in Prices \cup {None} /\ revisions \in RevisionTable /\ stage \in StageTable /\ planTx \in [Txs -> RequestRows]
    BY DEF PlanInv, PlanShape
  <2>2. \A s \in Bp!OnPlan \ Bp!Pending : stage[s].released \in Nat \ {0}
    BY <1>3
  <2>3. planTx \in [Txs -> Bp!Releasing \cup Bp!Accepting \cup {Bp!Idle}]
    BY <2>1 DEF RequestRows
  <2> QED
    BY <1>2, <2>1, <2>2, <2>3, SameCardinality, Zenon DEF Bp!TypeOK, RevisionTable, StageTable
<1>5. Bp!ReleasedAsAgreed
  BY <1>3 DEF Bp!ReleasedAsAgreed
<1>6. Bp!PlanAddsUp
  BY SharesAddUp, BalanceAddsUp DEF Bp!PlanAddsUp
<1> QED
  BY <1>4, <1>5, <1>6

(* However releases, acceptances, prices, revisions, edits of the plan and *)
(* of the drafts interleave: a stage is billed at the terms it has, and a  *)
(* plan of shares or with a balance comes to the contract.                 *)
THEOREM BilledAlwaysAsAgreed ==
  AllSpec => []BilledAsAgreed
<1> DEFINE Inv == part = "plan" => PlanInv
<1>1. AllInit => Inv
  BY PlanBegins DEF AllInit
<1>2. Inv /\ [AllNext]_allVars => Inv'
  <2> SUFFICES ASSUME Inv, [AllNext]_allVars, part' = "plan" PROVE PlanInv'
    OBVIOUS
  <2>1. CASE PlanNext
    BY <2>1, PlanMoves DEF PlanNext
  <2>2. CASE IssuingNext
    BY <2>2 DEF IssuingNext
  <2>3. CASE SettlementNext
    BY <2>3 DEF SettlementNext
  <2>4. CASE ReportsNext
    BY <2>4 DEF ReportsNext
  <2>5. CASE UNCHANGED allVars
    BY <2>5, PlanRests DEF allVars
  <2> QED
    BY <2>1, <2>2, <2>3, <2>4, <2>5 DEF AllNext
<1>3. Inv => BilledAsAgreed
  BY PlanAgrees DEF BilledAsAgreed
<1> QED
  BY <1>1, <1>2, <1>3, PTL DEF AllSpec

(* Of the money of a contract: no invoice that was cancelled is opened     *)
(* again; what is billed is contracted for when it is; a statement closes  *)
(* the contract; and a revision is accepted on the contract as it stands.  *)
THEOREM ContractAlwaysHonoured ==
  AllSpec => ContractHonoured
<1> DEFINE Inv == (part = "plan" => PlanInv) /\ (part = "settlement" => SettleInv)
<1>1. AllInit => Inv
  BY PlanBegins, SettleBegins DEF AllInit
<1>2. Inv /\ [AllNext]_allVars => Inv' /\ [StaysClosed]_St!vars /\ [Honoured]_Bp!vars
  <2> SUFFICES ASSUME Inv, [AllNext]_allVars PROVE Inv' /\ [StaysClosed]_St!vars /\ [Honoured]_Bp!vars
    OBVIOUS
  <2>1. CASE PlanNext
    <3>1. part = "plan" /\ part' = "plan" /\ UNCHANGED settlementVars /\ Bp!Next
      BY <2>1 DEF PlanNext
    <3>2. PlanInv' /\ Honoured
      BY <3>1, PlanMoves
    <3> QED
      BY <3>1, <3>2 DEF settlementVars, St!vars
  <2>2. CASE SettlementNext
    <3>1. part = "settlement" /\ part' = "settlement" /\ UNCHANGED planVars /\ St!Next
      BY <2>2 DEF SettlementNext
    <3>2. SettleInv' /\ StaysClosed
      BY <3>1, SettleSteps
    <3> QED
      BY <3>1, <3>2 DEF planVars, Bp!vars
  <2>3. CASE IssuingNext \/ ReportsNext
    <3>1. part \notin {"plan", "settlement"} /\ part' = part /\ UNCHANGED planVars /\ UNCHANGED settlementVars
      BY <2>3 DEF IssuingNext, ReportsNext
    <3> QED
      BY <3>1 DEF planVars, Bp!vars, settlementVars, St!vars
  <2>4. CASE UNCHANGED allVars
    <3>1. part' = part /\ UNCHANGED planVars /\ UNCHANGED settlementVars
      BY <2>4 DEF allVars
    <3>2. Inv'
      BY <3>1, PlanRests, SettleRests
    <3> QED
      BY <3>1, <3>2 DEF planVars, Bp!vars, settlementVars, St!vars
  <2> QED
    BY <2>1, <2>2, <2>3, <2>4 DEF AllNext
<1>3. AllSpec => [][StaysClosed]_St!vars /\ [][Honoured]_Bp!vars
  BY <1>1, <1>2, PTL DEF AllSpec
<1>4. [][StaysClosed]_St!vars => St!CancelledIsClosed
  BY PTL DEF StaysClosed, St!CancelledIsClosed
<1>5. [][Honoured]_Bp!vars => Bp!NeverOverbilled
  <2>1. [Honoured]_Bp!vars => [Bp!Released' > Bp!Released => Bp!ContractedValue' # None /\ Bp!Released' <= Bp!ContractedValue']_Bp!vars
    BY DEF Honoured
  <2> QED
    BY <2>1, PTL DEF Bp!NeverOverbilled
<1>6. [][Honoured]_Bp!vars => Bp!StatementClosesContract
  <2>1. [Honoured]_Bp!vars =>
          [\A s \in Bp!Pending :
              (s \in Bp!OnPlan' /\ stage[s].statement /\ stage'[s].invoice = "draft") =>
                  stage'[s].net + Bp!SumFunction([e \in stage'[s].takesOff |-> stage'[e].net]) = Bp!ContractedValue']_Bp!vars
    BY DEF Honoured
  <2> QED
    BY <2>1, PTL DEF Bp!StatementClosesContract
<1>7. [][Honoured]_Bp!vars => Bp!AcceptedOnTheContract
  <2>1. [Honoured]_Bp!vars =>
          [\A r \in Payments :
              (revisions[r].status = "sent" /\ revisions'[r].status = "accepted") =>
                  /\ revisions'[r].previous = Bp!ContractedValue
                  /\ revisions[r].amount < 0 => Bp!ContractedValue' \in Nat \cup {None}]_Bp!vars
    BY DEF Honoured
  <2> QED
    BY <2>1, PTL DEF Bp!AcceptedOnTheContract
<1> QED
  BY <1>3, <1>4, <1>5, <1>6, <1>7 DEF ContractHonoured

-----------------------------------------------------------------------------
(* Rounding.                                                               *)

LEMMA DivIs ==
  ASSUME NEW a \in Int, NEW b \in Nat \ {0}
  PROVE  a \div b \in Int /\ b * (a \div b) <= a /\ a < b * (a \div b) + b
OBVIOUS

\* A quotient is rounded to the nearest whole number.
LEMMA Rounded ==
  ASSUME NEW n \in Int, NEW d \in Nat \ {0}
  PROVE  /\ Rp!RoundDiv(n, d) \in Int
         /\ 2 * (d * Rp!RoundDiv(n, d)) <= 2 * n + d /\ 2 * n - d <= 2 * (d * Rp!RoundDiv(n, d))
<1> DEFINE up == (2 * n + d) \div (2 * d)  down == (d - 2 * n) \div (2 * d)
<1>1. 2 * d \in Nat \ {0} /\ 2 * n + d \in Int /\ d - 2 * n \in Int
  OBVIOUS
<1>2. up \in Int /\ (2 * d) * up <= 2 * n + d /\ 2 * n + d < (2 * d) * up + 2 * d
  BY <1>1, DivIs
<1>3. down \in Int /\ (2 * d) * down <= d - 2 * n /\ d - 2 * n < (2 * d) * down + 2 * d
  BY <1>1, DivIs
<1>4. Rp!RoundDiv(n, d) = IF n < 0 THEN -down ELSE up
  BY DEF Rp!RoundDiv
<1> HIDE DEF up, down
<1>5. (2 * d) * up = 2 * (d * up) /\ (2 * d) * down = 2 * (d * down) /\ d * (-down) = -(d * down)
  BY <1>2, <1>3
<1>6. d * up \in Int /\ d * down \in Int
  BY <1>2, <1>3
<1> QED
  BY <1>2, <1>3, <1>4, <1>5, <1>6

LEMMA TooSmall ==
  ASSUME NEW x \in Int, NEW d \in Nat \ {0}, NEW m \in Nat, 2 * (d * x) <= m * d
  PROVE  2 * x <= m
<1> SUFFICES ASSUME 2 * x >= m + 1 PROVE FALSE
  OBVIOUS
<1>1. d * (2 * x) >= d * (m + 1)
  OBVIOUS
<1>2. d * (2 * x) = 2 * (d * x) /\ d * (m + 1) = m * d + d
  OBVIOUS
<1>3. d * x \in Int /\ m * d \in Int
  OBVIOUS
<1> QED
  BY <1>1, <1>2, <1>3

\* What divides evenly is not rounded.
LEMMA Even ==
  ASSUME NEW n \in Int, NEW d \in Nat \ {0}
  PROVE  Rp!RoundDiv(n * d, d) = n
<1> DEFINE q == Rp!RoundDiv(n * d, d)
<1>1. n * d \in Int
  OBVIOUS
<1>2. q \in Int /\ 2 * (d * q) <= 2 * (n * d) + d /\ 2 * (n * d) - d <= 2 * (d * q)
  BY <1>1, Rounded
<1> HIDE DEF q
<1>3. d * (q - n) = d * q - n * d /\ d * (n - q) = n * d - d * q /\ d * q \in Int
  BY <1>1, <1>2
<1>4. 2 * (d * (q - n)) <= 1 * d /\ 2 * (d * (n - q)) <= 1 * d
  BY <1>1, <1>2, <1>3
<1>5. q - n \in Int /\ n - q \in Int
  BY <1>2
<1>6. 2 * (q - n) <= 1 /\ 2 * (n - q) <= 1
  BY <1>4, <1>5, TooSmall
<1>7. q = n
  BY <1>2, <1>6
<1> QED
  BY <1>7 DEF q

\* Shares of a whole, each rounded, come to it but for one unit for each but the last.
LEMMA Shared ==
  ASSUME NEW P, IsFiniteSet(P), NEW w, \A p \in P : w[p] \in Int, NEW paid \in Int,
         NEW whole \in Nat \ {0}, whole = SumFunctionOnSet(w, P),
         NEW r, \A p \in P : r[p] = Rp!RoundDiv(paid * w[p], whole)
  PROVE  /\ SumFunctionOnSet(r, P) \in Int
         /\ SumFunctionOnSet(r, P) - paid <= Cardinality(P) - 1
         /\ paid - SumFunctionOnSet(r, P) <= Cardinality(P) - 1
<1> DEFINE n == Cardinality(P)
           err == [p \in P |-> 2 * (whole * r[p]) - 2 * (paid * w[p])]
           twiceR == [p \in P |-> (2 * whole) * r[p]]
           twiceW == [p \in P |-> (-(2 * paid)) * w[p]]
           sum == SumFunctionOnSet(r, P)
<1>1. n \in Nat
  BY FS_CardinalityType
<1>2. \A p \in P : /\ r[p] \in Int /\ 2 * (whole * r[p]) <= 2 * (paid * w[p]) + whole
                   /\ 2 * (paid * w[p]) - whole <= 2 * (whole * r[p])
  <2> SUFFICES ASSUME NEW p \in P
               PROVE /\ r[p] \in Int /\ 2 * (whole * r[p]) <= 2 * (paid * w[p]) + whole
                     /\ 2 * (paid * w[p]) - whole <= 2 * (whole * r[p])
    OBVIOUS
  <2>1. paid * w[p] \in Int
    OBVIOUS
  <2> QED
    BY <2>1, Rounded
<1>3. sum \in Int
  BY <1>2, SumInt
<1>4. \A p \in P : err[p] \in Int /\ -whole <= err[p] /\ err[p] <= whole
  <2> SUFFICES ASSUME NEW p \in P
               PROVE err[p] \in Int /\ -whole <= err[p] /\ err[p] <= whole
    OBVIOUS
  <2>1. whole * r[p] \in Int /\ paid * w[p] \in Int
    BY <1>2
  <2> QED
    BY <1>2, <2>1
<1>5. \A p \in P : /\ twiceR[p] = (2 * whole) * r[p] /\ twiceW[p] = (-(2 * paid)) * w[p]
                   /\ twiceR[p] \in Int /\ twiceW[p] \in Int
                   /\ err[p] = twiceR[p] + twiceW[p]
  <2> SUFFICES ASSUME NEW p \in P
               PROVE (2 * whole) * r[p] \in Int /\ (-(2 * paid)) * w[p] \in Int
                     /\ 2 * (whole * r[p]) - 2 * (paid * w[p]) = (2 * whole) * r[p] + (-(2 * paid)) * w[p]
    OBVIOUS
  <2>1. r[p] \in Int /\ w[p] \in Int
    BY <1>2
  <2> QED
    BY <2>1
<1> HIDE DEF err, twiceR, twiceW
<1>6. (-whole) * n <= SumFunctionOnSet(err, P) /\ SumFunctionOnSet(err, P) <= whole * n
  <2>1. -whole \in Int /\ whole \in Int
    OBVIOUS
  <2> QED
    BY <1>4, <2>1, SumBetween
<1>7. SumFunctionOnSet(twiceR, P) = (2 * whole) * sum
  <2> DEFINE m == 2 * whole
  <2>1. m \in Int /\ \A p \in P : r[p] \in Int /\ twiceR[p] = m * r[p]
    BY <1>2, <1>5
  <2> HIDE DEF m, sum
  <2>2. SumFunctionOnSet(twiceR, P) = m * SumFunctionOnSet(r, P)
    BY <2>1, SumTimes
  <2> QED
    BY <2>2 DEF m, sum
<1>8. SumFunctionOnSet(twiceW, P) = (-(2 * paid)) * whole
  <2> DEFINE m == -(2 * paid)
  <2>1. m \in Int /\ \A p \in P : w[p] \in Int /\ twiceW[p] = m * w[p]
    BY <1>5
  <2> HIDE DEF m
  <2>2. SumFunctionOnSet(twiceW, P) = m * SumFunctionOnSet(w, P)
    BY <2>1, SumTimes
  <2> QED
    BY <2>2 DEF m
<1>9. SumFunctionOnSet(err, P) = SumFunctionOnSet(twiceR, P) + SumFunctionOnSet(twiceW, P)
  BY <1>5, SumPlus
<1> HIDE DEF sum
<1>10. SumFunctionOnSet(err, P) = 2 * (whole * (sum - paid))
  BY <1>3, <1>7, <1>8, <1>9
<1>11. 2 * (whole * (sum - paid)) <= n * whole /\ 2 * (whole * (paid - sum)) <= n * whole
  <2>1. whole * (paid - sum) = -(whole * (sum - paid)) /\ whole * (sum - paid) \in Int
    BY <1>3
  <2>2. (-whole) * n = -(n * whole) /\ whole * n = n * whole /\ n * whole \in Int
    BY <1>1
  <2> QED
    BY <1>6, <1>10, <2>1, <2>2
<1>12. 2 * (sum - paid) <= n /\ 2 * (paid - sum) <= n
  <2>1. sum - paid \in Int /\ paid - sum \in Int
    BY <1>3
  <2> QED
    BY <1>1, <1>11, <2>1, TooSmall
<1>13. CASE n >= 2
  <2> HIDE DEF n
  <2>1. sum - paid <= n - 1 /\ paid - sum <= n - 1
    BY <1>1, <1>3, <1>12, <1>13
  <2> QED
    BY <1>3, <2>1 DEF n, sum
<1>14. CASE n = 0
  <2>1. P = {}
    BY <1>14, FS_EmptySet
  <2> QED
    BY <2>1, SumEmpty
<1>15. CASE n = 1
  <2>1. sum - paid <= 0 /\ paid - sum <= 0
    BY <1>3, <1>12, <1>15
  <2> QED
    BY <1>3, <1>15, <2>1 DEF sum
<1> QED
  BY <1>1, <1>13, <1>14, <1>15

-----------------------------------------------------------------------------
(* Reports.                                                                *)

ExpenseRow(x, upTo) ==
    /\ x.project \in Works \cup {None} /\ x.amount \in Outlays /\ x.tax \in {0, 1} /\ x.base \in Int
    /\ x.currency \in Currencies /\ x.month \in 0 .. upTo
    /\ x.status \in {"draft", "confirmed"} /\ x.treatment \in {"deductible", "non_deductible", "capital"}
    /\ x.currency = Base => x.base = x.amount

EntryRow(x, upTo) ==
    /\ x.project \in Works /\ x.seconds \in Seconds /\ x.rate \in ExchangeRates
    /\ x.currency \in Currencies /\ x.month \in 0 .. upTo

PaymentRow(p, table, upTo) ==
    /\ p.invoice \in Raised /\ table[p.invoice] # None /\ p.currency = table[p.invoice].currency
    /\ p.amount \in Int /\ p.month \in 0 .. upTo

(* What is recorded is dated no later than now, and a payment is of the    *)
(* currency of the invoice it pays.                                        *)
ReportsInv ==
    /\ invoices \in [Raised -> Rp!InvoiceRows \cup {None}]
    /\ \A i \in Rp!Issued : invoices[i].paid \in 0 .. Rp!Gross(i) /\ invoices[i].month \in 0 .. now
    /\ IsFiniteSet(payments) /\ \A p \in payments : PaymentRow(p, invoices, now)
    /\ DOMAIN expenses = Spent /\ \A e \in Spent : expenses[e] # None => ExpenseRow(expenses[e], now)
    /\ DOMAIN entries = Logged /\ \A t \in Logged : entries[t] # None => EntryRow(entries[t], now)
    /\ reclaims \in BOOLEAN /\ now \in Rp!Months

LEMMA ReportedSum == \A f : Rp!SumFunction(f) = SumFunctionOnSet(f, DOMAIN f)
BY Zenon DEF Rp!SumFunction, Rp!SumFunctionOnSet, Rp!FoldFunctionOnSet, Rp!MapThenFoldSet,
             SumFunctionOnSet, FoldFunctionOnSet, MapThenFoldSet

\* The sum over part of a table.
LEMMA ReportedPart ==
  ASSUME NEW S, IsFiniteSet(S), NEW f, NEW g, DOMAIN g = S, \A x \in S : f[x] \in Int /\ g[x] = f[x]
  PROVE  Rp!SumFunction(g) = SumFunctionOnSet(f, S) /\ Rp!SumFunction(g) \in Int
<1>1. Rp!SumFunction(g) = SumFunctionOnSet(g, S)
  BY ReportedSum
<1>2. SumFunctionOnSet(f, S) = SumFunctionOnSet(g, S)
  BY SumSame
<1>3. SumFunctionOnSet(f, S) \in Int
  BY SumInt
<1> QED
  BY <1>1, <1>2, <1>3

LEMMA LinesNumber ==
  ASSUME NEW b \in Bills
  PROVE  Rp!NetOfLines(b) \in Int /\ Rp!TaxOfLines(b) \in Int
<1> DEFINE n == [k \in DOMAIN b |-> b[k].net]  t == [k \in DOMAIN b |-> b[k].tax]
<1>1. IsFiniteSet(DOMAIN b) /\ \A k \in DOMAIN b : n[k] \in Int /\ t[k] \in Int
  BY ReportsAssumption
<1>2. DOMAIN n = DOMAIN b /\ DOMAIN t = DOMAIN b
  OBVIOUS
<1>3. Rp!NetOfLines(b) = Rp!SumFunction(n) /\ Rp!TaxOfLines(b) = Rp!SumFunction(t)
  BY DEF Rp!NetOfLines, Rp!TaxOfLines
<1> HIDE DEF n, t
<1>4. Rp!SumFunction(n) \in Int /\ Rp!SumFunction(t) \in Int
  BY <1>1, <1>2, ReportedPart
<1> QED
  BY <1>3, <1>4

LEMMA RaisedNumbers ==
  ASSUME ReportsInv, NEW i \in Rp!Issued
  PROVE  /\ i \in Raised /\ invoices[i] \in Rp!InvoiceRows /\ invoices[i].lines \in Bills
         /\ Rp!Net(i) \in Int /\ Rp!Tax(i) \in Int /\ Rp!Gross(i) \in Int /\ Rp!Due(i) \in Int
         /\ Rp!Net(i) >= 0 /\ Rp!Gross(i) >= 0 /\ (Rp!Gross(i) = 0 => Rp!Net(i) = 0)
         /\ Rp!Gross(i) = Rp!NetOfLines(invoices[i].lines) + Rp!TaxOfLines(invoices[i].lines)
         /\ Rp!Due(i) = Rp!Gross(i) - invoices[i].paid
<1>1. i \in Raised /\ invoices[i] \in Rp!InvoiceRows
  BY DEF ReportsInv, Rp!Issued
<1>2. invoices[i].lines \in Bills /\ invoices[i].paid \in Int
  BY <1>1 DEF Rp!InvoiceRows
<1>3. Rp!NetOfLines(invoices[i].lines) \in Int /\ Rp!TaxOfLines(invoices[i].lines) \in Int
  BY <1>2, LinesNumber
<1> PICK b \in Bills : b = invoices[i].lines
  BY <1>2
<1>4. /\ Rp!NetOfLines(b) >= 0 /\ Rp!NetOfLines(b) + Rp!TaxOfLines(b) >= 0
      /\ Rp!NetOfLines(b) + Rp!TaxOfLines(b) = 0 => Rp!NetOfLines(b) = 0
  BY ReportsAssumption
<1> QED
  BY <1>1, <1>2, <1>3, <1>4 DEF Rp!Due, Rp!Gross, Rp!Net, Rp!Tax

-----------------------------------------------------------------------------
(* What is reported on, step by step.                                      *)

LEMMA ReportsBegin == ASSUME Rp!Init PROVE ReportsInv
<1>1. Rp!Issued = {} /\ payments = {}
  BY DEF Rp!Init, Rp!Issued
<1>2. now \in Rp!Months /\ reclaims \in BOOLEAN
  BY ReportsAssumption DEF Rp!Init, Rp!Months
<1>3. IsFiniteSet(payments)
  BY <1>1, FS_EmptySet
<1> QED
  BY <1>1, <1>2, <1>3 DEF Rp!Init, ReportsInv

LEMMA ReportsRest == ASSUME ReportsInv, UNCHANGED reportsVars PROVE ReportsInv'
BY DEF ReportsInv, reportsVars, Rp!Issued, Rp!Gross, Rp!Net, Rp!Tax, PaymentRow, ExpenseRow, EntryRow

(* An invoice is issued, or its status and what it was paid change.        *)
LEMMA InvoiceMovesOn ==
  ASSUME ReportsInv, NEW i \in Raised, NEW row, row \in Rp!InvoiceRows,
         row.paid \in 0 .. (Rp!NetOfLines(row.lines) + Rp!TaxOfLines(row.lines)), row.month \in 0 .. now,
         i \in Rp!Issued => row.currency = invoices[i].currency,
         invoices' = [invoices EXCEPT ![i] = row], now' = now
  PROVE  /\ invoices' \in [Raised -> Rp!InvoiceRows \cup {None}]
         /\ \A j \in Rp!Issued' : invoices'[j].paid \in 0 .. Rp!Gross(j)' /\ invoices'[j].month \in 0 .. now'
         /\ \A p : PaymentRow(p, invoices, now) => PaymentRow(p, invoices', now')
         /\ i \in Rp!Issued' /\ invoices'[i] = row
<1>1. row # None
  BY ReportsAssumption
<1>2. invoices' \in [Raised -> Rp!InvoiceRows \cup {None}] /\ invoices'[i] = row /\ \A j \in Raised \ {i} : invoices'[j] = invoices[j]
  BY DEF ReportsInv
<1>3. Rp!Issued' = Rp!Issued \cup {i}
  BY <1>1, <1>2 DEF Rp!Issued
<1>4. \A j \in Raised : Rp!Gross(j)' = Rp!NetOfLines(invoices'[j].lines) + Rp!TaxOfLines(invoices'[j].lines)
  BY DEF Rp!Gross, Rp!Net, Rp!Tax
<1>5. \A j \in Raised : Rp!Gross(j) = Rp!NetOfLines(invoices[j].lines) + Rp!TaxOfLines(invoices[j].lines)
  BY DEF Rp!Gross, Rp!Net, Rp!Tax
<1>6. ASSUME NEW j \in Rp!Issued' PROVE invoices'[j].paid \in 0 .. Rp!Gross(j)' /\ invoices'[j].month \in 0 .. now'
  <2>1. CASE j = i
    BY <2>1, <1>2, <1>4
  <2>2. CASE j # i
    <3>1. j \in Rp!Issued /\ j \in Raised
      BY <1>3, <2>2 DEF Rp!Issued
    <3>2. invoices'[j] = invoices[j] /\ Rp!Gross(j)' = Rp!Gross(j)
      BY <1>2, <1>4, <1>5, <2>2, <3>1
    <3> QED
      BY <3>1, <3>2 DEF ReportsInv
  <2> QED
    BY <2>1, <2>2
<1>7. ASSUME NEW p, PaymentRow(p, invoices, now) PROVE PaymentRow(p, invoices', now')
  <2>1. p.invoice \in Raised /\ invoices[p.invoice] # None /\ p.currency = invoices[p.invoice].currency
    BY <1>7 DEF PaymentRow
  <2>2. invoices'[p.invoice].currency = invoices[p.invoice].currency /\ invoices'[p.invoice] # None
    BY <1>1, <1>2, <2>1 DEF Rp!Issued
  <2> QED
    BY <1>7, <2>1, <2>2 DEF PaymentRow
<1> QED
  BY <1>2, <1>3, <1>6, <1>7

LEMMA ReportsMove == ASSUME ReportsInv, Rp!Next PROVE ReportsInv'
<1>0. now \in Nat /\ now <= LastMonth /\ LastMonth \in Nat
  BY ReportsAssumption DEF ReportsInv, Rp!Months
<1>1. ASSUME NEW i \in Raised, NEW c \in Currencies, NEW r \in ExchangeRates, NEW lines \in Bills, NEW terms \in {0, 1},
             Rp!InvoiceSend(i, c, r, lines, terms)
      PROVE  ReportsInv'
  <2> DEFINE row == [status |-> "sent", currency |-> c, rate |-> r, lines |-> lines, month |-> now, due |-> now + terms, paid |-> 0]
  <2>1. row \in Rp!InvoiceRows
    BY <1>0 DEF Rp!InvoiceRows, ReportsInv
  <2>2. Rp!NetOfLines(lines) \in Int /\ Rp!TaxOfLines(lines) \in Int /\ Rp!NetOfLines(lines) + Rp!TaxOfLines(lines) >= 0
    BY LinesNumber, ReportsAssumption
  <2>3. row.paid \in 0 .. (Rp!NetOfLines(row.lines) + Rp!TaxOfLines(row.lines)) /\ row.month \in 0 .. now
    BY <1>0, <2>2
  <2>4. invoices' = [invoices EXCEPT ![i] = row] /\ i \notin Rp!Issued /\ UNCHANGED <<payments, expenses, entries, reclaims, now>>
    BY <1>1 DEF Rp!InvoiceSend, Rp!Issued
  <2> HIDE DEF row
  <2>5. /\ invoices' \in [Raised -> Rp!InvoiceRows \cup {None}]
        /\ \A j \in Rp!Issued' : invoices'[j].paid \in 0 .. Rp!Gross(j)' /\ invoices'[j].month \in 0 .. now'
        /\ \A p : PaymentRow(p, invoices, now) => PaymentRow(p, invoices', now')
    BY <2>1, <2>3, <2>4, InvoiceMovesOn
  <2> QED
    BY <2>4, <2>5 DEF ReportsInv, ExpenseRow, EntryRow
<1>2. ASSUME NEW i \in Rp!Issued, NEW amount \in Int, invoices[i].paid + amount \in 0 .. Rp!Gross(i), Rp!Receive(i, amount)
      PROVE  ReportsInv'
  <2> DEFINE row == [invoices[i] EXCEPT !.paid = @ + amount, !.status = IF Rp!Due(i) = amount THEN "paid" ELSE "sent"]
             p == [invoice |-> i, n |-> Rp!Cardinality(payments), currency |-> invoices[i].currency, amount |-> amount, month |-> now]
  <2>1. i \in Raised /\ invoices[i] \in Rp!InvoiceRows /\ Rp!Gross(i) = Rp!NetOfLines(invoices[i].lines) + Rp!TaxOfLines(invoices[i].lines)
    BY RaisedNumbers
  <2>2. row \in Rp!InvoiceRows /\ row.lines = invoices[i].lines /\ row.currency = invoices[i].currency
        /\ row.month = invoices[i].month /\ row.paid = invoices[i].paid + amount
    <3> PICK x \in Rp!InvoiceRows : x = invoices[i]
      BY <2>1
    <3> PICK status \in {"paid", "sent"} : status = IF Rp!Due(i) = amount THEN "paid" ELSE "sent"
      OBVIOUS
    <3>1. x.paid + amount \in Int
      BY DEF Rp!InvoiceRows
    <3>2. row = [x EXCEPT !.paid = x.paid + amount, !.status = status]
      OBVIOUS
    <3> HIDE DEF row
    <3> QED
      BY <3>1, <3>2 DEF Rp!InvoiceRows
  <2>3. row.paid \in 0 .. (Rp!NetOfLines(row.lines) + Rp!TaxOfLines(row.lines)) /\ row.month \in 0 .. now
    BY <1>2, <2>1, <2>2 DEF ReportsInv
  <2>4. invoices' = [invoices EXCEPT ![i] = row] /\ payments' = payments \cup {p} /\ UNCHANGED <<expenses, entries, reclaims, now>>
    <3>1. invoices' = [invoices EXCEPT ![i] = row]
      BY <1>2, Zenon DEF Rp!Receive
    <3>2. payments' = payments \cup {p} /\ UNCHANGED <<expenses, entries, reclaims, now>>
      BY <1>2, Zenon DEF Rp!Receive
    <3> QED
      BY <3>1, <3>2
  <2>5. p.invoice = i /\ p.currency = invoices[i].currency /\ p.amount \in Int /\ p.month \in 0 .. now
    BY <1>0, <1>2
  <2> HIDE DEF row, p
  <2>6. /\ invoices' \in [Raised -> Rp!InvoiceRows \cup {None}]
        /\ \A j \in Rp!Issued' : invoices'[j].paid \in 0 .. Rp!Gross(j)' /\ invoices'[j].month \in 0 .. now'
        /\ \A q : PaymentRow(q, invoices, now) => PaymentRow(q, invoices', now')
        /\ i \in Rp!Issued' /\ invoices'[i] = row
    BY <2>1, <2>2, <2>3, <2>4, InvoiceMovesOn
  <2>7. PaymentRow(p, invoices', now')
    BY <2>1, <2>2, <2>4, <2>5, <2>6 DEF PaymentRow, Rp!Issued
  <2>8. IsFiniteSet(payments') /\ \A q \in payments' : PaymentRow(q, invoices', now')
    BY <2>4, <2>6, <2>7, FS_AddElement DEF ReportsInv
  <2> QED
    BY <2>4, <2>6, <2>8 DEF ReportsInv, ExpenseRow, EntryRow
<1>3. ASSUME NEW i \in Rp!Issued, Rp!PaymentRecord(i, 1) \/ Rp!PaymentRecord(i, Rp!Due(i))
      PROVE  ReportsInv'
  <2>1. Rp!Gross(i) \in Int /\ Rp!Due(i) \in Int /\ Rp!Due(i) = Rp!Gross(i) - invoices[i].paid
    BY RaisedNumbers
  <2>2. invoices[i].paid \in Int /\ invoices[i].paid >= 0
    BY <2>1 DEF ReportsInv
  <2>3. PICK amount \in Int : Rp!PaymentRecord(i, amount)
    BY <1>3, <2>1
  <2>4. amount \in 1 .. Rp!Due(i) /\ Rp!Receive(i, amount)
    BY <2>3 DEF Rp!PaymentRecord
  <2>5. invoices[i].paid + amount \in 0 .. Rp!Gross(i)
    BY <2>1, <2>2, <2>4
  <2> QED
    BY <2>4, <2>5, <1>2
<1>4. ASSUME NEW i \in Rp!Issued, Rp!PaymentRefund(i)
      PROVE  ReportsInv'
  <2>1. Rp!Gross(i) \in Int /\ Rp!Gross(i) >= 0
    BY RaisedNumbers
  <2>2. invoices[i].paid \in Int
    BY <2>1 DEF ReportsInv
  <2> DEFINE amount == -invoices[i].paid
  <2>3. amount \in Int /\ invoices[i].paid + amount \in 0 .. Rp!Gross(i) /\ Rp!Receive(i, amount)
    BY <2>1, <2>2, <1>4 DEF Rp!PaymentRefund
  <2> HIDE DEF amount
  <2> QED
    BY <2>3, <1>2
<1>5. ASSUME NEW i \in Rp!Issued, Rp!InvoiceCancel(i)
      PROVE  ReportsInv'
  <2> DEFINE row == [invoices[i] EXCEPT !.status = "cancelled"]
  <2>1. i \in Raised /\ invoices[i] \in Rp!InvoiceRows /\ Rp!Gross(i) = Rp!NetOfLines(invoices[i].lines) + Rp!TaxOfLines(invoices[i].lines)
    BY RaisedNumbers
  <2>2. row \in Rp!InvoiceRows /\ row.lines = invoices[i].lines /\ row.currency = invoices[i].currency
        /\ row.month = invoices[i].month /\ row.paid = invoices[i].paid
    BY <2>1 DEF Rp!InvoiceRows
  <2>3. row.paid \in 0 .. (Rp!NetOfLines(row.lines) + Rp!TaxOfLines(row.lines)) /\ row.month \in 0 .. now
    BY <2>1, <2>2 DEF ReportsInv
  <2>4. invoices' = [invoices EXCEPT ![i] = row] /\ UNCHANGED <<payments, expenses, entries, reclaims, now>>
    BY <1>5, <2>1 DEF Rp!InvoiceCancel, ReportsInv
  <2> HIDE DEF row
  <2>5. /\ invoices' \in [Raised -> Rp!InvoiceRows \cup {None}]
        /\ \A j \in Rp!Issued' : invoices'[j].paid \in 0 .. Rp!Gross(j)' /\ invoices'[j].month \in 0 .. now'
        /\ \A q : PaymentRow(q, invoices, now) => PaymentRow(q, invoices', now')
    BY <2>1, <2>2, <2>3, <2>4, InvoiceMovesOn
  <2> QED
    BY <2>4, <2>5 DEF ReportsInv, ExpenseRow, EntryRow
<1>6. ASSUME UNCHANGED <<invoices, payments>>, now' \in Rp!Months, now <= now', reclaims' \in BOOLEAN,
             DOMAIN expenses' = Spent, \A e \in Spent : expenses'[e] # None => ExpenseRow(expenses'[e], now'),
             DOMAIN entries' = Logged, \A t \in Logged : entries'[t] # None => EntryRow(entries'[t], now')
      PROVE  ReportsInv'
  <2>1. \A m \in 0 .. now : m \in 0 .. now'
    BY <1>0, <1>6, ReportsAssumption DEF Rp!Months
  <2>2. \A p : PaymentRow(p, invoices, now) => PaymentRow(p, invoices', now')
    BY <1>6, <2>1 DEF PaymentRow, Rp!Issued
  <2>3. \A i \in Rp!Issued' : invoices'[i].paid \in 0 .. Rp!Gross(i)' /\ invoices'[i].month \in 0 .. now'
    BY <1>6, <2>1 DEF ReportsInv, Rp!Issued, Rp!Gross, Rp!Net, Rp!Tax
  <2> QED
    BY <1>6, <2>2, <2>3 DEF ReportsInv
<1>7. ASSUME NEW e \in Spent, NEW p \in Works \cup {None}, NEW a \in Outlays, NEW tax \in {0, 1}, NEW c \in Currencies,
             NEW r \in ExchangeRates, Rp!ExpenseSave(e, p, a, tax, c, r)
      PROVE  ReportsInv'
  <2>1. Rp!Convert(a, c, r) \in Int /\ (c = Base => Rp!Convert(a, c, r) = a)
    <3>1. a \in Int /\ a * r \in Int /\ RateOne \in Nat \ {0}
      BY ReportsAssumption
    <3> QED
      BY <3>1, Rounded DEF Rp!Convert
  <2> PICK base : base = Rp!Convert(a, c, r)
    OBVIOUS
  <2>2. PICK status \in {"draft", "confirmed"}, treatment \in {"deductible", "non_deductible", "capital"} :
           expenses' = [expenses EXCEPT ![e] =
              [project |-> p, amount |-> a, tax |-> tax, base |-> base, currency |-> c, month |-> now, status |-> status, treatment |-> treatment]]
    BY <1>7 DEF Rp!ExpenseSave
  <2>3. UNCHANGED <<invoices, payments, entries, reclaims, now>>
    BY <1>7 DEF Rp!ExpenseSave
  <2>4. expenses'[e] = [project |-> p, amount |-> a, tax |-> tax, base |-> base, currency |-> c, month |-> now, status |-> status, treatment |-> treatment]
        /\ DOMAIN expenses' = Spent /\ \A x \in Spent \ {e} : expenses'[x] = expenses[x]
    BY <2>2 DEF ReportsInv
  <2>5. ExpenseRow(expenses'[e], now')
    BY <1>0, <2>1, <2>3, <2>4 DEF ExpenseRow
  <2>6. \A x \in Spent : expenses'[x] # None => ExpenseRow(expenses'[x], now')
    BY <2>3, <2>4, <2>5 DEF ReportsInv, ExpenseRow
  <2> QED
    BY <2>3, <2>4, <2>6, <1>0, <1>6 DEF ReportsInv, EntryRow
<1>8. ASSUME NEW e \in Spent, Rp!ExpenseConfirm(e)
      PROVE  ReportsInv'
  <2>1. UNCHANGED <<invoices, payments, entries, reclaims, now>> /\ expenses[e] # None
        /\ expenses' = [expenses EXCEPT ![e] = [expenses[e] EXCEPT !.status = "confirmed"]]
    BY <1>8 DEF Rp!ExpenseConfirm, ReportsInv
  <2> DEFINE x == expenses[e]
  <2>2. ExpenseRow(x, now)
    BY <2>1 DEF ReportsInv
  <2>3. expenses'[e] = [x EXCEPT !.status = "confirmed"] /\ DOMAIN expenses' = Spent /\ \A y \in Spent \ {e} : expenses'[y] = expenses[y]
    BY <2>1 DEF ReportsInv
  <2>4. ExpenseRow(expenses'[e], now')
    BY <2>1, <2>2, <2>3 DEF ExpenseRow
  <2>6. \A y \in Spent : expenses'[y] # None => ExpenseRow(expenses'[y], now')
    BY <2>1, <2>3, <2>4 DEF ReportsInv, ExpenseRow
  <2> QED
    BY <2>1, <2>3, <2>6, <1>0, <1>6 DEF ReportsInv, EntryRow
<1>9. ASSUME NEW t \in Logged, NEW p \in Works, NEW s \in Seconds, NEW r \in ExchangeRates, NEW c \in Currencies,
             Rp!TimeLog(t, p, s, r, c)
      PROVE  ReportsInv'
  <2>1. UNCHANGED <<invoices, payments, expenses, reclaims, now>>
        /\ entries' = [entries EXCEPT ![t] = [project |-> p, seconds |-> s, rate |-> r, currency |-> c, month |-> now]]
    BY <1>9 DEF Rp!TimeLog
  <2>2. entries'[t] = [project |-> p, seconds |-> s, rate |-> r, currency |-> c, month |-> now]
        /\ DOMAIN entries' = Logged /\ \A x \in Logged \ {t} : entries'[x] = entries[x]
    BY <2>1 DEF ReportsInv
  <2>3. EntryRow(entries'[t], now')
    BY <1>0, <2>1, <2>2 DEF EntryRow
  <2>4. \A x \in Logged : entries'[x] # None => EntryRow(entries'[x], now')
    BY <2>1, <2>2, <2>3 DEF ReportsInv, EntryRow
  <2> QED
    BY <2>1, <2>2, <2>4, <1>0, <1>6 DEF ReportsInv, ExpenseRow
<1>10. CASE Rp!OrganizationUpdate
  <2>1. UNCHANGED <<invoices, payments, expenses, entries, now>> /\ reclaims' = ~reclaims
    BY <1>10 DEF Rp!OrganizationUpdate
  <2> QED
    BY <2>1, <1>0, <1>6 DEF ReportsInv, ExpenseRow, EntryRow
<1>11. CASE Rp!NextMonth
  <2>1. UNCHANGED <<invoices, payments, expenses, entries, reclaims>> /\ now' = now + 1 /\ now' <= LastMonth
    BY <1>0, <1>11 DEF Rp!NextMonth
  <2>2. now' \in Rp!Months /\ now <= now' /\ \A m \in 0 .. now : m \in 0 .. now'
    BY <1>0, <2>1 DEF Rp!Months
  <2>3. \A e \in Spent : expenses'[e] # None => ExpenseRow(expenses'[e], now')
    BY <2>1, <2>2 DEF ReportsInv, ExpenseRow
  <2>4. \A t \in Logged : entries'[t] # None => EntryRow(entries'[t], now')
    BY <2>1, <2>2 DEF ReportsInv, EntryRow
  <2> QED
    BY <2>1, <2>2, <2>3, <2>4, <1>6 DEF ReportsInv
<1> QED
  BY <1>1, <1>3, <1>4, <1>5, <1>7, <1>8, <1>9, <1>10, <1>11 DEF Rp!Next

-----------------------------------------------------------------------------
(* What is added up.                                                       *)

NetAt    == [i \in Raised |-> Rp!Net(i)]
DueAt    == [i \in Raised |-> Rp!Due(i)]
GrossAt  == [i \in Raised |-> Rp!Gross(i)]
PaidAt   == [i \in Raised |-> invoices[i].paid]
CostAt   == [e \in Spent |-> Rp!ExpenseCost(e)]
LabourAt == [t \in Logged |-> Rp!LabourOf(t)]
ClaimedAt == [i \in Raised |-> Rp!NetOfLines([k \in Rp!ClaimedLines(i) |-> invoices[i].lines[k]])]
LineNet(b) == [k \in DOMAIN b |-> b[k].net]

Revenues(c) == {i \in Raised : Rp!IsRevenue(i) /\ invoices[i].currency = c}
Costs(c)    == {e \in Spent : Rp!CountsAsCost(e) /\ expenses[e].currency = c}
Hours(c)    == {t \in Logged : entries[t] # None /\ entries[t].currency = c}

LEMMA ReportsFinite ==
  /\ \A S \in SUBSET Raised : IsFiniteSet(S)
  /\ \A S \in SUBSET Spent : IsFiniteSet(S)
  /\ \A S \in SUBSET Logged : IsFiniteSet(S)
  /\ \A S \in SUBSET Works : IsFiniteSet(S)
BY FS_Subset, ReportsAssumption

LEMMA SpentNumbers ==
  ASSUME ReportsInv, NEW e \in Spent, expenses[e] # None
  PROVE  /\ ExpenseRow(expenses[e], now) /\ expenses[e].amount \in Nat \ {0} /\ expenses[e].tax \in Int /\ Rp!ExpenseCost(e) \in Int
         /\ CostAt[e] = Rp!ExpenseCost(e)
         /\ Rp!ExpenseCost(e) = expenses[e].amount + (IF reclaims THEN 0 ELSE expenses[e].tax)
<1>1. ExpenseRow(expenses[e], now)
  BY DEF ReportsInv
<1> PICK x : x = expenses[e]
  OBVIOUS
<1>2. expenses[e].amount \in Nat \ {0} /\ expenses[e].tax \in Int
  <2>1. x.amount \in Outlays /\ x.tax \in {0, 1}
    BY <1>1 DEF ExpenseRow
  <2> PICK a \in Outlays : a = x.amount
    BY <2>1
  <2>2. a \in Nat \ {0}
    BY ReportsAssumption
  <2>3. x.tax \in Int
    BY <2>1
  <2> QED
    BY <2>2, <2>3
<1> QED
  BY <1>1, <1>2 DEF Rp!ExpenseCost, CostAt

LEMMA LoggedNumbers ==
  ASSUME ReportsInv, NEW t \in Logged, entries[t] # None
  PROVE  /\ EntryRow(entries[t], now) /\ Rp!LabourOf(t) \in Int /\ LabourAt[t] = Rp!LabourOf(t)
         /\ Rp!LabourOf(t) = Rp!RoundDiv(entries[t].seconds * entries[t].rate, Hour)
<1>1. EntryRow(entries[t], now)
  BY DEF ReportsInv
<1> PICK x : x = entries[t]
  OBVIOUS
<1>2. entries[t].seconds * entries[t].rate \in Int /\ Hour \in Nat \ {0}
  <2>1. x.seconds \in Seconds /\ x.rate \in ExchangeRates
    BY <1>1 DEF EntryRow
  <2> PICK s \in Seconds, r \in ExchangeRates : s = x.seconds /\ r = x.rate
    BY <2>1
  <2>2. s \in Int /\ r \in Int /\ Hour \in Nat \ {0}
    BY ReportsAssumption
  <2>3. s * r \in Int
    BY <2>2
  <2> QED
    BY <2>2, <2>3
<1> QED
  BY <1>1, <1>2, Rounded DEF Rp!LabourOf, LabourAt

LEMMA RaisedAt ==
  ASSUME ReportsInv, NEW i \in Rp!Issued
  PROVE  /\ NetAt[i] = Rp!Net(i) /\ NetAt[i] \in Int /\ DueAt[i] = Rp!Due(i) /\ DueAt[i] \in Int
         /\ GrossAt[i] = Rp!Gross(i) /\ GrossAt[i] \in Int /\ PaidAt[i] = invoices[i].paid /\ PaidAt[i] \in Int
BY RaisedNumbers DEF NetAt, DueAt, GrossAt, PaidAt, Rp!InvoiceRows

LEMMA EveryMonth ==
  ASSUME ReportsInv
  PROVE  /\ \A c : Rp!RevenueIn(c, 0, LastMonth) = Revenues(c)
         /\ \A i \in Rp!Issued : Rp!Within(invoices[i].month, 0, LastMonth)
         /\ \A e \in Spent : expenses[e] # None => Rp!Within(expenses[e].month, 0, LastMonth)
         /\ \A t \in Logged : entries[t] # None => Rp!Within(entries[t].month, 0, LastMonth)
<1>1. now \in Nat /\ now <= LastMonth /\ LastMonth \in Nat
  BY ReportsAssumption DEF ReportsInv, Rp!Months
<1>2. \A m \in 0 .. now : Rp!Within(m, 0, LastMonth)
  BY <1>1 DEF Rp!Within
<1>3. \A i \in Rp!Issued : Rp!Within(invoices[i].month, 0, LastMonth)
  BY <1>2 DEF ReportsInv
<1>4. \A c : Rp!RevenueIn(c, 0, LastMonth) = Revenues(c)
  BY <1>3 DEF Rp!RevenueIn, Revenues, Rp!IsRevenue
<1> QED
  BY <1>2, <1>3, <1>4 DEF ReportsInv, ExpenseRow, EntryRow

\* Sums over some of what is issued, spent or logged.
LEMMA BilledIs ==
  ASSUME ReportsInv, NEW c, NEW from, NEW to
  PROVE  /\ Rp!Billed(c, from, to) = SumFunctionOnSet(NetAt, Rp!RevenueIn(c, from, to))
         /\ Rp!Billed(c, from, to) \in Int
<1> DEFINE S == Rp!RevenueIn(c, from, to)
           g == [i \in S |-> Rp!Net(i)]
<1>1. IsFiniteSet(S) /\ \A i \in S : i \in Rp!Issued
  BY ReportsFinite DEF Rp!RevenueIn, Rp!IsRevenue
<1>2. DOMAIN g = S /\ \A i \in S : NetAt[i] \in Int /\ g[i] = NetAt[i]
  BY <1>1, RaisedAt
<1>3. Rp!Billed(c, from, to) = Rp!SumFunction(g)
  BY DEF Rp!Billed
<1> HIDE DEF g, S
<1> QED
  BY <1>1, <1>2, <1>3, ReportedPart DEF S

LEMMA CostsIs ==
  ASSUME ReportsInv, NEW c, NEW from, NEW to
  PROVE  /\ Rp!ExpensesIn(c, from, to) = SumFunctionOnSet(CostAt, {e \in Costs(c) : Rp!Within(expenses[e].month, from, to)})
         /\ Rp!ExpensesIn(c, from, to) \in Int
<1> DEFINE S == {x \in Spent : Rp!CountsAsCost(x) /\ expenses[x].currency = c /\ Rp!Within(expenses[x].month, from, to)}
           g == [e \in S |-> Rp!ExpenseCost(e)]
<1>1. IsFiniteSet(S) /\ S = {e \in Costs(c) : Rp!Within(expenses[e].month, from, to)}
  BY ReportsFinite DEF Costs
<1>2. DOMAIN g = S /\ \A e \in S : CostAt[e] \in Int /\ g[e] = CostAt[e]
  BY SpentNumbers DEF Rp!CountsAsCost
<1>3. Rp!ExpensesIn(c, from, to) = Rp!SumFunction(g)
  BY DEF Rp!ExpensesIn
<1> HIDE DEF g, S
<1> QED
  BY <1>1, <1>2, <1>3, ReportedPart

LEMMA LabourIs ==
  ASSUME ReportsInv, NEW c, NEW from, NEW to
  PROVE  /\ Rp!LabourIn(c, from, to) = SumFunctionOnSet(LabourAt, {t \in Hours(c) : Rp!Within(entries[t].month, from, to)})
         /\ Rp!LabourIn(c, from, to) \in Int
<1> DEFINE S == {x \in Logged : entries[x] # None /\ entries[x].currency = c /\ Rp!Within(entries[x].month, from, to)}
           g == [t \in S |-> Rp!LabourOf(t)]
<1>1. IsFiniteSet(S) /\ S = {t \in Hours(c) : Rp!Within(entries[t].month, from, to)}
  BY ReportsFinite DEF Hours
<1>2. DOMAIN g = S /\ \A t \in S : LabourAt[t] \in Int /\ g[t] = LabourAt[t]
  BY LoggedNumbers
<1>3. Rp!LabourIn(c, from, to) = Rp!SumFunction(g)
  BY DEF Rp!LabourIn
<1> HIDE DEF g, S
<1> QED
  BY <1>1, <1>2, <1>3, ReportedPart

LEMMA ClaimedIs ==
  ASSUME ReportsInv, NEW c, NEW from, NEW to, \A i \in Rp!Issued : ClaimedAt[i] \in Int
  PROVE  /\ Rp!AttributedIn(c, from, to) = SumFunctionOnSet(ClaimedAt, Rp!RevenueIn(c, from, to))
         /\ Rp!AttributedIn(c, from, to) \in Int
<1> DEFINE S == Rp!RevenueIn(c, from, to)
           g == [i \in S |-> Rp!NetOfLines([k \in Rp!ClaimedLines(i) |-> invoices[i].lines[k]])]
<1>1. IsFiniteSet(S) /\ \A i \in S : i \in Rp!Issued /\ i \in Raised
  BY ReportsFinite DEF Rp!RevenueIn, Rp!IsRevenue
<1>2. DOMAIN g = S /\ \A i \in S : ClaimedAt[i] \in Int /\ g[i] = ClaimedAt[i]
  BY <1>1 DEF ClaimedAt
<1>3. Rp!AttributedIn(c, from, to) = Rp!SumFunction(g)
  BY DEF Rp!AttributedIn
<1> HIDE DEF g, S
<1> QED
  BY <1>1, <1>2, <1>3, ReportedPart DEF S

-----------------------------------------------------------------------------
(* The lines of an invoice, by project.                                    *)

LEMMA LinesFinite ==
  ASSUME NEW b \in Bills
  PROVE  /\ IsFiniteSet(DOMAIN b)
         /\ \A k \in DOMAIN b : LineNet(b)[k] = b[k].net /\ b[k].net \in Int /\ b[k].project \in Works \cup {None}
BY ReportsAssumption DEF LineNet

LEMMA NetOfPart ==
  ASSUME NEW b \in Bills, NEW T, T \subseteq DOMAIN b
  PROVE  /\ Rp!NetOfLines([k \in T |-> b[k]]) = SumFunctionOnSet(LineNet(b), T)
         /\ Rp!NetOfLines([k \in T |-> b[k]]) \in Int
<1> DEFINE some == [k \in T |-> b[k]]
           g == [k \in DOMAIN some |-> some[k].net]
<1>1. IsFiniteSet(T)
  BY LinesFinite, FS_Subset
<1>2. DOMAIN some = T /\ \A k \in T : some[k] = b[k]
  OBVIOUS
<1>3. Rp!NetOfLines(some) = Rp!SumFunction(g)
  BY DEF Rp!NetOfLines
<1> HIDE DEF some
<1>4. DOMAIN g = T /\ \A k \in T : LineNet(b)[k] \in Int /\ g[k] = LineNet(b)[k]
  BY <1>2, LinesFinite
<1> HIDE DEF g
<1>5. Rp!SumFunction(g) = SumFunctionOnSet(LineNet(b), T) /\ Rp!SumFunction(g) \in Int
  BY <1>1, <1>4, ReportedPart
<1> QED
  BY <1>3, <1>5 DEF some

LEMMA NetOfAll ==
  ASSUME NEW b \in Bills
  PROVE  Rp!NetOfLines(b) = SumFunctionOnSet(LineNet(b), DOMAIN b)
<1>1. IsFiniteSet(DOMAIN b) /\ \A k \in DOMAIN b : LineNet(b)[k] \in Int
  BY LinesFinite
<1>2. Rp!NetOfLines(b) = Rp!SumFunction(LineNet(b))
  BY DEF Rp!NetOfLines, LineNet
<1>3. DOMAIN LineNet(b) = DOMAIN b
  BY DEF LineNet
<1> QED
  BY <1>2, <1>3, ReportedSum

\* What its projects claim of an invoice is what its lines with a project come to.
LEMMA ClaimsAddUp ==
  ASSUME ReportsInv, NEW i \in Rp!Issued, NEW w, \A p \in Works : w[p] = Rp!NetOf(i, p)
  PROVE  /\ \A p \in Works : w[p] \in Int /\ (Rp!LinesOf(i, p) = {} => w[p] = 0)
         /\ ClaimedAt[i] \in Int /\ SumFunctionOnSet(w, Works) = ClaimedAt[i]
         /\ Rp!LinesOf(i, None) = {} => ClaimedAt[i] = Rp!Net(i)
<1> PICK b \in Bills : b = invoices[i].lines
  BY RaisedNumbers
<1> DEFINE kind == [k \in DOMAIN b |-> b[k].project]
           claimed == {k \in DOMAIN b : kind[k] \in Works}
           of(p) == {k \in DOMAIN b : kind[k] = p}
<1>1. IsFiniteSet(DOMAIN b) /\ IsFiniteSet(Works) /\ i \in Raised
  BY LinesFinite, ReportsFinite, RaisedNumbers
<1>2. \A k \in DOMAIN b : LineNet(b)[k] \in Int /\ kind[k] = b[k].project /\ (kind[k] \in Works <=> kind[k] # None)
  BY LinesFinite, ReportsAssumption
<1>3. claimed = Rp!ClaimedLines(i) /\ (\A p \in Works \cup {None} : of(p) = Rp!LinesOf(i, p)) /\ claimed \subseteq DOMAIN b
  BY <1>2 DEF Rp!ClaimedLines, Rp!LinesOf
<1>4. \A p \in Works : /\ of(p) \subseteq DOMAIN b
                       /\ w[p] = Rp!NetOfLines([k \in of(p) |-> b[k]])
  BY <1>3 DEF Rp!NetOf
<1>5. ClaimedAt[i] = Rp!NetOfLines([k \in claimed |-> b[k]])
  BY <1>1, <1>3 DEF ClaimedAt
<1> HIDE DEF kind
<1>6. \A p \in Works : w[p] = SumFunctionOnSet(LineNet(b), of(p)) /\ w[p] \in Int
  <2> HIDE DEF of
  <2> QED
    BY <1>4, NetOfPart
<1>7. ClaimedAt[i] = SumFunctionOnSet(LineNet(b), claimed) /\ ClaimedAt[i] \in Int
  <2> HIDE DEF claimed
  <2> QED
    BY <1>3, <1>5, NetOfPart
<1>8. SumFunctionOnSet(w, Works) = ClaimedAt[i]
  <2>1. \A p \in Works : w[p] = SumFunctionOnSet(LineNet(b), {k \in DOMAIN b : kind[k] = p})
    BY <1>6
  <2>2. \A k \in DOMAIN b : LineNet(b)[k] \in Int
    BY <1>2
  <2>3. SumFunctionOnSet(w, Works) = SumFunctionOnSet(LineNet(b), {k \in DOMAIN b : kind[k] \in Works})
    <3> HIDE DEF of, claimed
    <3> PICK net : net = LineNet(b)
      OBVIOUS
    <3> PICK S : S = DOMAIN b
      OBVIOUS
    <3>1. IsFiniteSet(S) /\ (\A k \in S : net[k] \in Int) /\ \A p \in Works : w[p] = SumFunctionOnSet(net, {k \in S : kind[k] = p})
      BY <1>1, <2>1, <2>2
    <3>2. Parts(S, Works, kind, net, w)
      BY <1>1, <3>1 DEF Parts
    <3>3. SumFunctionOnSet(w, Works) = SumFunctionOnSet(net, {k \in S : kind[k] \in Works})
      BY <3>2, SumParts
    <3> QED
      BY <3>3
  <2> QED
    BY <1>7, <2>3
<1>9. \A p \in Works : Rp!LinesOf(i, p) = {} => w[p] = 0
  BY <1>3, <1>6, SumEmpty
<1>10. ASSUME Rp!LinesOf(i, None) = {} PROVE ClaimedAt[i] = Rp!Net(i)
  <2>1. claimed = DOMAIN b
    BY <1>2, <1>3, <1>10
  <2>2. Rp!Net(i) = Rp!NetOfLines(b)
    BY DEF Rp!Net
  <2> QED
    BY <1>7, <2>1, <2>2, NetOfAll
<1> QED
  BY <1>6, <1>7, <1>8, <1>9, <1>10

-----------------------------------------------------------------------------
(* What the projects earned is what the report of revenue says.            *)

NetFor(p)     == [i \in Raised |-> Rp!NetOf(i, p)]
ProjectOfCost == [e \in Spent |-> expenses[e].project]
ProjectOfHour == [t \in Logged |-> entries[t].project]

LEMMA RevenuesAre ==
  ASSUME NEW c
  PROVE  IsFiniteSet(Revenues(c)) /\ \A i \in Revenues(c) : i \in Raised /\ i \in Rp!Issued
BY ReportsFinite DEF Revenues, Rp!IsRevenue

LEMMA CostsAre ==
  ASSUME NEW c
  PROVE  IsFiniteSet(Costs(c)) /\ \A e \in Costs(c) : e \in Spent /\ expenses[e] # None
BY ReportsFinite DEF Costs, Rp!CountsAsCost

LEMMA HoursAre ==
  ASSUME NEW c
  PROVE  IsFiniteSet(Hours(c)) /\ \A t \in Hours(c) : t \in Logged /\ entries[t] # None
BY ReportsFinite DEF Hours

\* All that was claimed.
LEMMA ClaimedOf ==
  ASSUME ReportsInv, NEW i \in Rp!Issued
  PROVE  /\ ClaimedAt[i] \in Int /\ ClaimedAt[i] = SumFunctionOnSet([p \in Works |-> Rp!NetOf(i, p)], Works)
         /\ \A p \in Works : /\ Rp!NetOf(i, p) \in Int /\ NetFor(p)[i] = Rp!NetOf(i, p)
                             /\ Rp!LinesOf(i, p) = {} => Rp!NetOf(i, p) = 0
         /\ Rp!LinesOf(i, None) = {} => ClaimedAt[i] = Rp!Net(i)
<1> DEFINE w == [p \in Works |-> Rp!NetOf(i, p)]
<1>1. \A p \in Works : w[p] = Rp!NetOf(i, p)
  OBVIOUS
<1>2. i \in Raised
  BY RaisedNumbers
<1> HIDE DEF w
<1>3. /\ \A p \in Works : w[p] \in Int /\ (Rp!LinesOf(i, p) = {} => w[p] = 0)
      /\ ClaimedAt[i] \in Int /\ SumFunctionOnSet(w, Works) = ClaimedAt[i]
      /\ Rp!LinesOf(i, None) = {} => ClaimedAt[i] = Rp!Net(i)
  BY <1>1, ClaimsAddUp
<1> QED
  BY <1>1, <1>2, <1>3 DEF w, NetFor

LEMMA BilledForIs ==
  ASSUME ReportsInv, NEW p \in Works, NEW c
  PROVE  /\ Rp!BilledFor(p, c) = SumFunctionOnSet(NetFor(p), Revenues(c)) /\ Rp!BilledFor(p, c) \in Int
         /\ ~Rp!RecordedIn(p, c) => Rp!BilledFor(p, c) = 0
<1> DEFINE S == Revenues(c)
           T == Rp!RevenueOf(p, c)
           g == [i \in T |-> Rp!NetOf(i, p)]
           net == NetFor(p)
<1>1. T = {i \in S : Rp!LinesOf(i, p) # {}} /\ T \subseteq S
  BY DEF Rp!RevenueOf, Revenues
<1>2. IsFiniteSet(S) /\ IsFiniteSet(T)
  BY <1>1, RevenuesAre, FS_Subset
<1>3. \A i \in S : net[i] \in Int /\ net[i] = Rp!NetOf(i, p) /\ (i \notin T => net[i] = 0)
  BY <1>1, RevenuesAre, ClaimedOf
<1>4. DOMAIN g = T /\ \A i \in T : net[i] \in Int /\ g[i] = net[i]
  BY <1>1, <1>3
<1>5. Rp!BilledFor(p, c) = Rp!SumFunction(g)
  BY DEF Rp!BilledFor
<1>6. ~Rp!RecordedIn(p, c) => T = {}
  BY DEF Rp!RecordedIn, Rp!RevenueOf
<1> HIDE DEF S, T, g, net
<1>7. Rp!BilledFor(p, c) = SumFunctionOnSet(net, T) /\ Rp!BilledFor(p, c) \in Int
  BY <1>2, <1>4, <1>5, ReportedPart
<1>8. SumFunctionOnSet(net, S) = SumFunctionOnSet(net, T)
  BY <1>1, <1>2, <1>3, SumWhere
<1>9. T = {} => Rp!BilledFor(p, c) = 0
  BY <1>7, SumEmpty
<1> QED
  BY <1>6, <1>7, <1>8, <1>9 DEF S, net

LEMMA BilledForAll ==
  ASSUME ReportsInv, NEW c
  PROVE  SumFunctionOnSet([p \in Works |-> Rp!BilledFor(p, c)], Works) = Rp!AttributedIn(c, 0, LastMonth)
<1> DEFINE S == Revenues(c)
           row == [i \in S |-> [p \in Works |-> Rp!NetOf(i, p)]]
           col == [p \in Works |-> NetFor(p)]
           cols == [p \in Works |-> Rp!BilledFor(p, c)]
<1>1. \A i \in S : i \in Rp!Issued /\ i \in Raised
  BY RevenuesAre
<1>2. IsFiniteSet(S) /\ IsFiniteSet(Works)
  BY RevenuesAre, ReportsFinite
<1>3. \A i \in S : \A p \in Works : row[i][p] = Rp!NetOf(i, p) /\ col[p][i] = Rp!NetOf(i, p)
  BY <1>1, ClaimedOf
<1>4. \A i \in S : \A p \in Works : row[i][p] \in Int /\ col[p][i] = row[i][p]
  BY <1>1, <1>3, ClaimedOf
<1>5. \A i \in S : ClaimedAt[i] = SumFunctionOnSet(row[i], Works)
  <2> SUFFICES ASSUME NEW i \in S PROVE ClaimedAt[i] = SumFunctionOnSet([p \in Works |-> Rp!NetOf(i, p)], Works)
    OBVIOUS
  <2> QED
    BY <1>1, ClaimedOf
<1>6. \A p \in Works : cols[p] = SumFunctionOnSet(col[p], S)
  BY BilledForIs
<1>7. Rp!RevenueIn(c, 0, LastMonth) = S
  BY EveryMonth
<1> HIDE DEF S, row, col, cols
<1>8. Table(S, Works, row, col, ClaimedAt, cols)
  BY <1>2, <1>4, <1>5, <1>6 DEF Table
<1>9. SumFunctionOnSet(ClaimedAt, S) = SumFunctionOnSet(cols, Works)
  BY <1>8, SumSwap
<1>10. Rp!AttributedIn(c, 0, LastMonth) = SumFunctionOnSet(ClaimedAt, S)
  <2>1. \A i \in Rp!Issued : ClaimedAt[i] \in Int
    BY ClaimedOf
  <2> QED
    BY <1>7, <2>1, ClaimedIs
<1> QED
  BY <1>9, <1>10 DEF cols

LEMMA LabourForIs ==
  ASSUME ReportsInv, NEW p \in Works, NEW c
  PROVE  /\ Rp!LabourFor(p, c) = SumFunctionOnSet(LabourAt, {t \in Hours(c) : ProjectOfHour[t] = p}) /\ Rp!LabourFor(p, c) \in Int
         /\ ~Rp!RecordedIn(p, c) => Rp!LabourFor(p, c) = 0
<1> DEFINE T == {x \in Logged : entries[x] # None /\ entries[x].project = p /\ entries[x].currency = c}
           g == [t \in T |-> Rp!RoundDiv(entries[t].seconds * entries[t].rate, Hour)]
<1>1. T = {t \in Hours(c) : ProjectOfHour[t] = p} /\ IsFiniteSet(T)
  BY ReportsFinite DEF Hours, ProjectOfHour
<1>2. DOMAIN g = T /\ \A t \in T : LabourAt[t] \in Int /\ g[t] = LabourAt[t]
  BY LoggedNumbers
<1>3. Rp!LabourFor(p, c) = Rp!SumFunction(g)
  BY DEF Rp!LabourFor
<1>4. ~Rp!RecordedIn(p, c) => T = {}
  BY DEF Rp!RecordedIn
<1> HIDE DEF T, g
<1>5. Rp!LabourFor(p, c) = SumFunctionOnSet(LabourAt, T) /\ Rp!LabourFor(p, c) \in Int
  BY <1>1, <1>2, <1>3, ReportedPart
<1> QED
  BY <1>1, <1>4, <1>5, SumEmpty

LEMMA LabourForAll ==
  ASSUME ReportsInv, NEW c
  PROVE  SumFunctionOnSet([p \in Works |-> Rp!LabourFor(p, c)], Works) = Rp!LabourIn(c, 0, LastMonth)
<1> DEFINE g == [p \in Works |-> Rp!LabourFor(p, c)]
           S == Hours(c)
<1>1. IsFiniteSet(S) /\ IsFiniteSet(Works) /\ \A t \in S : LabourAt[t] \in Int
  BY HoursAre, ReportsFinite, LoggedNumbers
<1>2. \A p \in Works : g[p] = SumFunctionOnSet(LabourAt, {t \in S : ProjectOfHour[t] = p})
  BY LabourForIs
<1>3. \A t \in S : ProjectOfHour[t] \in Works
  BY HoursAre DEF ReportsInv, EntryRow, ProjectOfHour
<1>4. {t \in S : ProjectOfHour[t] \in Works} = S /\ {t \in S : Rp!Within(entries[t].month, 0, LastMonth)} = S
  BY <1>3, HoursAre, EveryMonth
<1> HIDE DEF g, S
<1>5. Parts(S, Works, ProjectOfHour, LabourAt, g)
  BY <1>1, <1>2 DEF Parts
<1>6. SumFunctionOnSet(g, Works) = SumFunctionOnSet(LabourAt, S)
  BY <1>4, <1>5, SumParts
<1> QED
  BY <1>4, <1>6, LabourIs DEF g, S

LEMMA SpendIs ==
  ASSUME ReportsInv, NEW p \in Works, NEW c
  PROVE  /\ Rp!Spend(p, c) = SumFunctionOnSet(CostAt, {e \in Costs(c) : ProjectOfCost[e] = p}) /\ Rp!Spend(p, c) \in Int
         /\ ~Rp!RecordedIn(p, c) => Rp!Spend(p, c) = 0
<1> DEFINE T == {x \in Spent : /\ expenses[x] # None /\ expenses[x].status = "confirmed"
                               /\ expenses[x].project = p /\ expenses[x].currency = c}
           g == [e \in T |-> expenses[e].amount + (IF reclaims THEN 0 ELSE expenses[e].tax)]
<1>1. T = {e \in Costs(c) : ProjectOfCost[e] = p} /\ IsFiniteSet(T)
  BY ReportsFinite DEF Costs, ProjectOfCost, Rp!CountsAsCost
<1>2. DOMAIN g = T /\ \A e \in T : CostAt[e] \in Int /\ g[e] = CostAt[e]
  BY SpentNumbers
<1>3. Rp!Spend(p, c) = Rp!SumFunction(g)
  BY DEF Rp!Spend
<1>4. ~Rp!RecordedIn(p, c) => T = {}
  BY DEF Rp!RecordedIn, Rp!CountsAsCost
<1> HIDE DEF T, g
<1>5. Rp!Spend(p, c) = SumFunctionOnSet(CostAt, T) /\ Rp!Spend(p, c) \in Int
  BY <1>1, <1>2, <1>3, ReportedPart
<1> QED
  BY <1>1, <1>4, <1>5, SumEmpty

\* What no project spent is counted too.
LEMMA SpendAll ==
  ASSUME ReportsInv, NEW c, NEW lost, lost = {e \in Costs(c) : ProjectOfCost[e] = None}
  PROVE  SumFunctionOnSet([p \in Works |-> Rp!Spend(p, c)], Works) + SumFunctionOnSet(CostAt, lost) = Rp!ExpensesIn(c, 0, LastMonth)
         /\ SumFunctionOnSet(CostAt, lost) \in Int
<1> DEFINE f == [p \in Works |-> Rp!Spend(p, c)]
           g == [p \in Works \cup {None} |-> IF p = None THEN SumFunctionOnSet(CostAt, lost) ELSE Rp!Spend(p, c)]
           S == Costs(c)
<1>1. None \notin Works /\ IsFiniteSet(Works) /\ IsFiniteSet(Works \cup {None})
  BY ReportsAssumption, FS_AddElement
<1>2. IsFiniteSet(S) /\ \A e \in S : CostAt[e] \in Int
  BY CostsAre, SpentNumbers
<1>3. \A p \in Works \cup {None} : g[p] = SumFunctionOnSet(CostAt, {e \in S : ProjectOfCost[e] = p})
  BY <1>1, SpendIs
<1>4. \A e \in S : ProjectOfCost[e] \in Works \cup {None}
  BY CostsAre DEF ReportsInv, ExpenseRow, ProjectOfCost
<1>5. {e \in S : ProjectOfCost[e] \in Works \cup {None}} = S /\ {e \in S : Rp!Within(expenses[e].month, 0, LastMonth)} = S
  BY <1>4, CostsAre, EveryMonth
<1>6. g[None] = SumFunctionOnSet(CostAt, lost) /\ \A p \in Works : f[p] = g[p]
  BY <1>1
<1> HIDE DEF f, g, S
<1>7. Parts(S, Works \cup {None}, ProjectOfCost, CostAt, g)
  BY <1>1, <1>2, <1>3 DEF Parts
<1>8. SumFunctionOnSet(g, Works \cup {None}) = SumFunctionOnSet(CostAt, S) /\ \A p \in Works \cup {None} : g[p] \in Int
  <2> PICK K : K = Works \cup {None}
    OBVIOUS
  <2> Parts(S, K, ProjectOfCost, CostAt, g)
    BY <1>7
  <2>1. SumFunctionOnSet(g, K) = SumFunctionOnSet(CostAt, {e \in S : ProjectOfCost[e] \in K})
    BY SumParts
  <2>2. \A p \in K : g[p] \in Int
    BY SumParts
  <2> QED
    BY <1>5, <2>1, <2>2
<1>9. SumFunctionOnSet(g, Works \cup {None}) = g[None] + SumFunctionOnSet(g, Works)
  BY <1>1, <1>8, SumAdd
<1>10. SumFunctionOnSet(f, Works) = SumFunctionOnSet(g, Works) /\ SumFunctionOnSet(g, Works) \in Int
  BY <1>1, <1>6, <1>8, SumSame, SumInt
<1>11. Rp!ExpensesIn(c, 0, LastMonth) = SumFunctionOnSet(CostAt, S)
  BY <1>5, CostsIs DEF S
<1>12. g[None] \in Int
  BY <1>8
<1> QED
  BY <1>6, <1>8, <1>9, <1>10, <1>11, <1>12 DEF f

MarginOf(p, c) == Rp!BilledFor(p, c) - (Rp!LabourFor(p, c) + Rp!Spend(p, c))

\* The margins of the report of all projects.
LEMMA PortfolioIs ==
  ASSUME ReportsInv, NEW c \in Currencies
  PROVE  Rp!SumFunction([r \in {x \in Rp!Portfolio : x.currency = c} |-> r.margin]) = SumFunctionOnSet([p \in Works |-> MarginOf(p, c)], Works)
<1> DEFINE P == {p \in Works : Rp!RecordedIn(p, c)}
           R == {x \in Rp!Portfolio : x.currency = c}
           b == [p \in P |-> Rp!Row(p, c)]
           f == [p \in Works |-> MarginOf(p, c)]
           g == [r \in R |-> r.margin]
<1>1. \A p : \A d : Rp!Row(p, d).project = p /\ Rp!Row(p, d).currency = d /\ Rp!Row(p, d).margin = MarginOf(p, d)
  BY DEF Rp!Row, MarginOf
<1>2. R = {b[p] : p \in P}
  <2>1. \A r \in R : \E p \in P : r = b[p]
    <3> SUFFICES ASSUME NEW r \in R PROVE \E p \in P : r = b[p]
      OBVIOUS
    <3>1. PICK k \in Works \X Currencies : Rp!RecordedIn(k[1], k[2]) /\ r = Rp!Row(k[1], k[2])
      BY DEF Rp!Portfolio
    <3>2. k[1] \in Works /\ k[2] = c
      BY <1>1, <3>1
    <3> QED
      BY <3>1, <3>2
  <2>2. \A p \in P : b[p] \in R
    <3> SUFFICES ASSUME NEW p \in P PROVE Rp!Row(p, c) \in R
      OBVIOUS
    <3>1. <<p, c>> \in Works \X Currencies /\ <<p, c>>[1] = p /\ <<p, c>>[2] = c
      OBVIOUS
    <3>2. Rp!Row(p, c) \in Rp!Portfolio
      BY <3>1 DEF Rp!Portfolio
    <3> QED
      BY <1>1, <3>2
  <2> HIDE DEF R, P, b
  <2> QED
    BY <2>1, <2>2
<1>3. \A p \in Works : f[p] \in Int /\ (p \notin P => f[p] = 0)
  <2> SUFFICES ASSUME NEW p \in Works PROVE MarginOf(p, c) \in Int /\ (~Rp!RecordedIn(p, c) => MarginOf(p, c) = 0)
    OBVIOUS
  <2>1. /\ Rp!BilledFor(p, c) \in Int /\ Rp!LabourFor(p, c) \in Int /\ Rp!Spend(p, c) \in Int
        /\ ~Rp!RecordedIn(p, c) => Rp!BilledFor(p, c) = 0 /\ Rp!LabourFor(p, c) = 0 /\ Rp!Spend(p, c) = 0
    BY BilledForIs, LabourForIs, SpendIs
  <2> QED
    BY <2>1 DEF MarginOf
<1>4. \A p \in P : b[p] = Rp!Row(p, c)
  OBVIOUS
<1>5. \A p \in P : p \in Works /\ f[p] \in Int /\ g[b[p]] = f[p]
  <2> SUFFICES ASSUME NEW p \in P PROVE g[b[p]] = f[p]
    BY <1>3
  <2>1. b[p] \in R
    BY <1>2
  <2>2. b[p].margin = f[p]
    BY <1>1
  <2> HIDE DEF R, b, f
  <2> QED
    BY <2>1, <2>2
<1>6. \A p, q \in P : b[p] = b[q] => p = q
  BY <1>1
<1>7. IsFiniteSet(P) /\ IsFiniteSet(Works) /\ P \subseteq Works
  BY ReportsFinite
<1>8. DOMAIN g = R
  OBVIOUS
<1> HIDE DEF P, R, b, f, g
<1>9. SumFunctionOnSet(g, R) = SumFunctionOnSet(f, P)
  BY <1>2, <1>5, <1>6, <1>7, SumNamed
<1>10. SumFunctionOnSet(f, Works) = SumFunctionOnSet(f, P)
  BY <1>3, <1>7, SumWhere
<1>11. Rp!SumFunction(g) = SumFunctionOnSet(g, R)
  BY <1>8, ReportedSum
<1> QED
  BY <1>9, <1>10, <1>11 DEF g, f, R

\* The margins of all projects come to the profit, but for what no project claims.
LEMMA MarginsAgree ==
  ASSUME ReportsInv, NEW c \in Currencies, NEW lost, lost = {e \in Spent : Rp!CountsAsCost(e) /\ expenses[e].currency = c /\ expenses[e].project = None}
  PROVE  Rp!SumFunction([r \in {x \in Rp!Portfolio : x.currency = c} |-> r.margin]) - Rp!SumFunction([e \in lost |-> Rp!ExpenseCost(e)])
            = Rp!Profit(c, 0, LastMonth) - (Rp!Billed(c, 0, LastMonth) - Rp!AttributedIn(c, 0, LastMonth))
<1> DEFINE bill == [p \in Works |-> Rp!BilledFor(p, c)]
           work == [p \in Works |-> Rp!LabourFor(p, c)]
           spend == [p \in Works |-> Rp!Spend(p, c)]
           cost == [p \in Works |-> Rp!LabourFor(p, c) + Rp!Spend(p, c)]
           margin == [p \in Works |-> MarginOf(p, c)]
           g == [e \in lost |-> Rp!ExpenseCost(e)]
<1>1. \A p \in Works : /\ bill[p] = Rp!BilledFor(p, c) /\ bill[p] \in Int /\ work[p] = Rp!LabourFor(p, c) /\ work[p] \in Int
                       /\ spend[p] = Rp!Spend(p, c) /\ spend[p] \in Int
  BY BilledForIs, LabourForIs, SpendIs
<1>2. \A p \in Works : cost[p] = work[p] + spend[p] /\ cost[p] \in Int /\ margin[p] = bill[p] - cost[p]
  BY <1>1 DEF MarginOf
<1>3. lost = {e \in Costs(c) : ProjectOfCost[e] = None} /\ IsFiniteSet(lost) /\ (\A e \in lost : e \in Spent /\ expenses[e] # None)
  BY ReportsFinite DEF Costs, ProjectOfCost, Rp!CountsAsCost
<1>4. DOMAIN g = lost /\ \A e \in lost : CostAt[e] \in Int /\ g[e] = CostAt[e]
  BY <1>3, SpentNumbers
<1>5. Rp!SumFunction([r \in {x \in Rp!Portfolio : x.currency = c} |-> r.margin]) = SumFunctionOnSet(margin, Works)
  BY PortfolioIs
<1>6. SumFunctionOnSet(bill, Works) = Rp!AttributedIn(c, 0, LastMonth)
  BY BilledForAll
<1>7. SumFunctionOnSet(work, Works) = Rp!LabourIn(c, 0, LastMonth)
  BY LabourForAll
<1>8. SumFunctionOnSet(spend, Works) + SumFunctionOnSet(CostAt, lost) = Rp!ExpensesIn(c, 0, LastMonth) /\ SumFunctionOnSet(CostAt, lost) \in Int
  BY <1>3, SpendAll
<1>9. IsFiniteSet(Works)
  BY ReportsFinite
<1> HIDE DEF bill, work, spend, cost, margin, g
<1>10. SumFunctionOnSet(margin, Works) = SumFunctionOnSet(bill, Works) - SumFunctionOnSet(cost, Works)
  BY <1>1, <1>2, <1>9, SumMinus
<1>11. SumFunctionOnSet(cost, Works) = SumFunctionOnSet(work, Works) + SumFunctionOnSet(spend, Works)
  BY <1>1, <1>2, <1>9, SumPlus
<1>12. SumFunctionOnSet(bill, Works) \in Int /\ SumFunctionOnSet(work, Works) \in Int /\ SumFunctionOnSet(spend, Works) \in Int
  BY <1>1, <1>9, SumInt
<1>13. Rp!SumFunction(g) = SumFunctionOnSet(CostAt, lost)
  BY <1>3, <1>4, ReportedPart
<1>14. Rp!Billed(c, 0, LastMonth) \in Int
  BY BilledIs
<1>15. SumFunctionOnSet(margin, Works) - Rp!SumFunction(g)
          = Rp!Profit(c, 0, LastMonth) - (Rp!Billed(c, 0, LastMonth) - Rp!AttributedIn(c, 0, LastMonth))
  <2> PICK B, A, L, E, s, u : B = Rp!Billed(c, 0, LastMonth) /\ A = Rp!AttributedIn(c, 0, LastMonth) /\ L = Rp!LabourIn(c, 0, LastMonth)
                       /\ E = Rp!ExpensesIn(c, 0, LastMonth) /\ s = SumFunctionOnSet(spend, Works) /\ u = SumFunctionOnSet(CostAt, lost)
    OBVIOUS
  <2>1. B \in Int /\ A \in Int /\ L \in Int /\ s \in Int /\ u \in Int /\ s + u = E
    BY <1>6, <1>7, <1>8, <1>12, <1>14
  <2>2. SumFunctionOnSet(margin, Works) = A - (L + s) /\ Rp!SumFunction(g) = u /\ Rp!Profit(c, 0, LastMonth) = B - E - L
    BY <1>6, <1>7, <1>10, <1>11, <1>13 DEF Rp!Profit
  <2>3. (A - (L + s)) - u = (B - E - L) - (B - A)
    BY <2>1
  <2> QED
    BY <2>2, <2>3
<1> QED
  BY <1>5, <1>15 DEF g

-----------------------------------------------------------------------------
(* Who the money came from.                                                *)

Among(k, c) == {i \in Raised : /\ Rp!IsRevenue(i) /\ Rp!Within(invoices[i].month, 0, LastMonth)
                               /\ ClientOf[i] = k /\ invoices[i].currency = c}
ClientRow(k, c) ==
    [company |-> k, currency |-> c, billed |-> Rp!SumFunction([i \in Among(k, c) |-> Rp!Net(i)]),
     outstanding |-> Rp!SumFunction([i \in {j \in Among(k, c) : invoices[j].status # "paid"} |-> Rp!Due(i)])]

Unpaid(c) == {i \in Revenues(c) : invoices[i].status # "paid"}

LEMMA AmongIs ==
  ASSUME ReportsInv, NEW k, NEW c
  PROVE  /\ ClientRow(k, c).company = k /\ ClientRow(k, c).currency = c
         /\ ClientRow(k, c).billed = SumFunctionOnSet(NetAt, {i \in Revenues(c) : ClientOf[i] = k}) /\ ClientRow(k, c).billed \in Int
         /\ ClientRow(k, c).outstanding = SumFunctionOnSet(DueAt, {i \in Unpaid(c) : ClientOf[i] = k})
         /\ ClientRow(k, c).outstanding \in Int
<1> DEFINE S == Among(k, c)
           T == {j \in Among(k, c) : invoices[j].status # "paid"}
           net == [i \in S |-> Rp!Net(i)]
           due == [i \in T |-> Rp!Due(i)]
<1>1. S = {i \in Revenues(c) : ClientOf[i] = k}
  BY EveryMonth, RevenuesAre DEF Among, Revenues, Rp!IsRevenue
<1>2. T = {i \in Unpaid(c) : ClientOf[i] = k} /\ T \subseteq S
  BY <1>1 DEF Unpaid
<1>3. \A i \in S : i \in Rp!Issued /\ i \in Raised
  BY <1>1, RevenuesAre
<1>4. IsFiniteSet(S) /\ IsFiniteSet(T) /\ DOMAIN net = S /\ DOMAIN due = T
  BY <1>2, <1>3, ReportsFinite
<1>5. (\A i \in S : NetAt[i] \in Int /\ net[i] = NetAt[i]) /\ (\A i \in T : DueAt[i] \in Int /\ due[i] = DueAt[i])
  BY <1>2, <1>3, RaisedAt
<1>6. ClientRow(k, c).company = k /\ ClientRow(k, c).currency = c
      /\ ClientRow(k, c).billed = Rp!SumFunction(net) /\ ClientRow(k, c).outstanding = Rp!SumFunction(due)
  BY DEF ClientRow
<1> HIDE DEF S, T, net, due
<1>7. Rp!SumFunction(net) = SumFunctionOnSet(NetAt, S) /\ Rp!SumFunction(net) \in Int
  BY <1>4, <1>5, ReportedPart
<1>8. Rp!SumFunction(due) = SumFunctionOnSet(DueAt, T) /\ Rp!SumFunction(due) \in Int
  BY <1>4, <1>5, ReportedPart
<1> QED
  BY <1>1, <1>2, <1>6, <1>7, <1>8

LEMMA ClientRowsAre ==
  ASSUME ReportsInv, NEW c
  PROVE  {x \in Rp!ClientsIn(0, LastMonth) : x.currency = c} = {ClientRow(k, c) : k \in {ClientOf[i] : i \in Revenues(c)}}
<1>1. Rp!ClientsIn(0, LastMonth) = {ClientRow(ClientOf[i], invoices[i].currency) : i \in {j \in Raised : Rp!IsRevenue(j) /\ Rp!Within(invoices[j].month, 0, LastMonth)}}
  BY DEF Rp!ClientsIn, ClientRow, Among
<1>2. \A k, d : ClientRow(k, d).currency = d
  BY DEF ClientRow
<1>3. \A i \in Raised : i \in Revenues(c) <=> Rp!IsRevenue(i) /\ Rp!Within(invoices[i].month, 0, LastMonth) /\ invoices[i].currency = c
  BY EveryMonth DEF Revenues, Rp!IsRevenue
<1>4. Revenues(c) \subseteq Raised
  BY RevenuesAre
<1> QED
  BY <1>1, <1>2, <1>3, <1>4

\* What every client was billed is what was billed, and the same of what is owed.
LEMMA ClientsAgree ==
  ASSUME ReportsInv, NEW c
  PROVE  /\ Rp!SumFunction([r \in {x \in Rp!ClientsIn(0, LastMonth) : x.currency = c} |-> r.billed]) = Rp!Billed(c, 0, LastMonth)
         /\ Rp!SumFunction([r \in {x \in Rp!ClientsIn(0, LastMonth) : x.currency = c} |-> r.outstanding]) = SumFunctionOnSet(DueAt, Unpaid(c))
<1> DEFINE K == {ClientOf[i] : i \in Revenues(c)}
           R == {x \in Rp!ClientsIn(0, LastMonth) : x.currency = c}
           b == [k \in K |-> ClientRow(k, c)]
           net == [k \in K |-> ClientRow(k, c).billed]
           due == [k \in K |-> ClientRow(k, c).outstanding]
           nets == [r \in R |-> r.billed]
           dues == [r \in R |-> r.outstanding]
<1>1. R = {b[k] : k \in K}
  <2>1. R = {ClientRow(k, c) : k \in K}
    BY ClientRowsAre
  <2> HIDE DEF R, K
  <2> QED
    BY <2>1
<1>2. IsFiniteSet(K)
  <2>1. IsFiniteSet(Revenues(c))
    BY RevenuesAre
  <2> PICK S : S = Revenues(c)
    OBVIOUS
  <2> PICK to : to = [i \in S |-> ClientOf[i]]
    OBVIOUS
  <2>2. K = {ClientOf[i] : i \in S}
    OBVIOUS
  <2> HIDE DEF K
  <2>3. to \in Surjection(S, K)
    BY <2>2 DEF Surjection
  <2> QED
    BY <2>1, <2>3, FS_Surjection
<1>3. /\ \A k \in K : net[k] \in Int /\ net[k] = SumFunctionOnSet(NetAt, {i \in Revenues(c) : ClientOf[i] = k})
      /\ \A k \in K : due[k] \in Int /\ due[k] = SumFunctionOnSet(DueAt, {i \in Unpaid(c) : ClientOf[i] = k})
  BY AmongIs
<1>4. \A k \in K : nets[b[k]] = net[k] /\ dues[b[k]] = due[k]
  <2> SUFFICES ASSUME NEW k \in K PROVE nets[b[k]] = net[k] /\ dues[b[k]] = due[k]
    OBVIOUS
  <2>1. b[k] \in R /\ b[k].billed = net[k] /\ b[k].outstanding = due[k]
    BY <1>1
  <2> HIDE DEF R, b, net, due
  <2> QED
    BY <2>1
<1>5. \A k, l \in K : b[k] = b[l] => k = l
  <2>1. \A k \in K : b[k].company = k
    BY AmongIs
  <2> HIDE DEF K, b
  <2> QED
    BY <2>1
<1>6. DOMAIN nets = R /\ DOMAIN dues = R
  OBVIOUS
<1>7. {i \in Revenues(c) : ClientOf[i] \in K} = Revenues(c) /\ {i \in Unpaid(c) : ClientOf[i] \in K} = Unpaid(c)
  BY DEF Unpaid
<1>8. IsFiniteSet(Revenues(c)) /\ IsFiniteSet(Unpaid(c)) /\ Unpaid(c) \subseteq Revenues(c)
  BY RevenuesAre, FS_Subset DEF Unpaid
<1>9. /\ \A i \in Revenues(c) : NetAt[i] \in Int
      /\ \A i \in Unpaid(c) : DueAt[i] \in Int
  BY <1>8, RevenuesAre, RaisedAt
<1> HIDE DEF K, R, b, net, due, nets, dues
<1>10. SumFunctionOnSet(nets, R) = SumFunctionOnSet(net, K)
  <2>1. \A k \in K : net[k] \in Int /\ nets[b[k]] = net[k]
    BY <1>3, <1>4
  <2> QED
    BY <1>1, <1>2, <1>5, <2>1, SumNamed
<1>16. SumFunctionOnSet(dues, R) = SumFunctionOnSet(due, K)
  <2>1. \A k \in K : due[k] \in Int /\ dues[b[k]] = due[k]
    BY <1>3, <1>4
  <2> QED
    BY <1>1, <1>2, <1>5, <2>1, SumNamed
<1>11. Parts(Revenues(c), K, ClientOf, NetAt, net) /\ Parts(Unpaid(c), K, ClientOf, DueAt, due)
  BY <1>2, <1>3, <1>8, <1>9 DEF Parts
<1>12. SumFunctionOnSet(net, K) = SumFunctionOnSet(NetAt, Revenues(c))
  BY <1>7, <1>11, SumParts
<1>13. SumFunctionOnSet(due, K) = SumFunctionOnSet(DueAt, Unpaid(c))
  BY <1>7, <1>11, SumParts
<1>14. Rp!Billed(c, 0, LastMonth) = SumFunctionOnSet(NetAt, Revenues(c))
  BY BilledIs, EveryMonth
<1>15. Rp!SumFunction(nets) = SumFunctionOnSet(nets, R) /\ Rp!SumFunction(dues) = SumFunctionOnSet(dues, R)
  BY <1>6, ReportedSum
<1> QED
  BY <1>10, <1>12, <1>13, <1>14, <1>15, <1>16 DEF R, nets, dues

OpenIn(c) == {i \in Rp!Issued : invoices[i].status = "sent" /\ Rp!Due(i) > 0 /\ invoices[i].currency = c}

LEMMA OutstandingIs ==
  ASSUME ReportsInv, NEW c
  PROVE  /\ Rp!Outstanding(c).all = SumFunctionOnSet(DueAt, OpenIn(c))
         /\ Rp!Outstanding(c).overdue = SumFunctionOnSet(DueAt, {i \in OpenIn(c) : invoices[i].due < now})
         /\ Rp!Outstanding(c).all = SumFunctionOnSet(DueAt, Unpaid(c))
<1> DEFINE S == OpenIn(c)
           T == {i \in OpenIn(c) : invoices[i].due < now}
           f == [i \in S |-> Rp!Due(i)]
           g == [i \in T |-> Rp!Due(i)]
<1>1. S \subseteq Rp!Issued /\ S \subseteq Raised /\ T \subseteq S
  BY DEF OpenIn, Rp!Issued
<1>2. IsFiniteSet(S) /\ IsFiniteSet(T) /\ IsFiniteSet(Unpaid(c))
  BY <1>1, ReportsFinite, RevenuesAre, FS_Subset DEF Unpaid
<1>3. (\A i \in S : DueAt[i] \in Int /\ f[i] = DueAt[i]) /\ (\A i \in T : DueAt[i] \in Int /\ g[i] = DueAt[i])
  BY <1>1, RaisedAt
<1>4. DOMAIN f = S /\ DOMAIN g = T
  OBVIOUS
<1>5. Rp!Outstanding(c).all = Rp!SumFunction(f) /\ Rp!Outstanding(c).overdue = Rp!SumFunction(g)
  BY DEF Rp!Outstanding, OpenIn
<1>6. S \subseteq Unpaid(c)
  BY DEF OpenIn, Unpaid, Revenues, Rp!Issued, Rp!IsRevenue
<1>7. \A i \in Unpaid(c) : DueAt[i] \in Int /\ (i \notin S => DueAt[i] = 0)
  <2> SUFFICES ASSUME NEW i \in Unpaid(c) PROVE DueAt[i] \in Int /\ (i \notin S => DueAt[i] = 0)
    OBVIOUS
  <2>1. i \in Rp!Issued /\ invoices[i].status # "paid" /\ invoices[i].status # "cancelled" /\ invoices[i].currency = c
    BY DEF Unpaid, Revenues, Rp!IsRevenue
  <2>2. invoices[i] \in Rp!InvoiceRows /\ Rp!Gross(i) \in Int /\ Rp!Due(i) = Rp!Gross(i) - invoices[i].paid /\ Rp!Due(i) \in Int
    BY <2>1, RaisedNumbers
  <2>3. invoices[i].status = "sent"
    BY <2>1, <2>2 DEF Rp!InvoiceRows
  <2>4. invoices[i].paid \in 0 .. Rp!Gross(i)
    BY <2>1 DEF ReportsInv
  <2>5. Rp!Due(i) >= 0
    BY <2>2, <2>4
  <2>6. i \notin S => ~(Rp!Due(i) > 0)
    BY <2>1, <2>3 DEF OpenIn
  <2> QED
    BY <2>1, <2>2, <2>5, <2>6, RaisedAt
<1> HIDE DEF S, T, f, g
<1>8. Rp!SumFunction(f) = SumFunctionOnSet(DueAt, S) /\ Rp!SumFunction(g) = SumFunctionOnSet(DueAt, T)
  BY <1>2, <1>3, <1>4, ReportedPart
<1>9. SumFunctionOnSet(DueAt, Unpaid(c)) = SumFunctionOnSet(DueAt, S)
  BY <1>2, <1>3, <1>6, <1>7, SumWhere
<1> QED
  BY <1>5, <1>8, <1>9 DEF S, T

\* The page of a project that has recorded nothing in another currency.
LEMMA PageAgrees ==
  ASSUME ReportsInv, NEW p \in Works, Rp!FinancialsFor(p, Base).others = {}
  PROVE  Rp!Worked(p).cost = Rp!FinancialsFor(p, Base).own.labour
<1> DEFINE S == {t \in Logged : entries[t] # None /\ entries[t].project = p}
           f == [t \in S |-> Rp!LabourOf(t)]
<1>1. \A c \in Currencies \ {Base} : ~Rp!RecordedIn(p, c)
  BY DEF Rp!FinancialsFor
<1>2. \A t \in S : entries[t].currency \in Currencies /\ Rp!RecordedIn(p, entries[t].currency)
  BY LoggedNumbers DEF Rp!RecordedIn, EntryRow
<1>3. S = {t \in Hours(Base) : ProjectOfHour[t] = p} /\ IsFiniteSet(S)
  BY <1>1, <1>2, ReportsFinite DEF Hours, ProjectOfHour
<1>4. DOMAIN f = S /\ \A t \in S : LabourAt[t] \in Int /\ f[t] = LabourAt[t]
  BY LoggedNumbers
<1>5. Rp!Worked(p).cost = Rp!SumFunction(f) /\ Rp!FinancialsFor(p, Base).own.labour = Rp!LabourFor(p, Base)
  BY DEF Rp!Worked, Rp!FinancialsFor, Rp!Row
<1> HIDE DEF S, f
<1>6. Rp!SumFunction(f) = SumFunctionOnSet(LabourAt, S)
  BY <1>3, <1>4, ReportedPart
<1> QED
  BY <1>3, <1>5, <1>6, LabourForIs

-----------------------------------------------------------------------------
(* The dashboard, where nothing is in another currency.                    *)

OneCurrency ==
    /\ \A i \in Rp!Issued : invoices[i].currency = Base
    /\ \A e \in Spent : expenses[e] # None => expenses[e].currency = Base
    /\ \A t \in Logged : entries[t] # None => entries[t].currency = Base

\* A total is its own share of a total.
LEMMA InBaseWhole ==
  ASSUME NEW m \in Int, NEW gross \in Int, gross >= 0, gross = 0 => m = 0
  PROVE  Rp!InBase(m, gross, gross) = m
<1>1. CASE gross = 0
  BY <1>1 DEF Rp!InBase
<1>2. CASE gross # 0 /\ m = gross
  BY <1>2 DEF Rp!InBase
<1>3. CASE gross # 0 /\ m # gross
  <2>1. gross \in Nat \ {0} /\ gross * m = m * gross
    BY <1>3
  <2>2. Rp!RoundDiv(m * gross, gross) = m
    BY <2>1, Even
  <2> QED
    BY <1>3, <2>1, <2>2 DEF Rp!InBase
<1> QED
  BY <1>1, <1>2, <1>3

LEMMA InBaseOne ==
  ASSUME ReportsInv, NEW S \in SUBSET Rp!Issued, \A i \in S : invoices[i].currency = Base,
         NEW m, \A i \in S : m[i] \in Int /\ (Rp!Gross(i) = 0 => m[i] = 0)
  PROVE  Rp!InBaseOf(S, m) = SumFunctionOnSet(m, S)
<1> DEFINE of(c) == {i \in S : invoices[i].currency = c}
           parts(c) == [i \in of(c) |-> m[i]]
           grosses(c) == [i \in of(c) |-> Rp!Gross(i)]
           bases(c) == [i \in of(c) |-> Rp!TotalBase(i)]
           inBase(c) == Rp!InBase(Rp!SumFunction(parts(c)), Rp!SumFunction(grosses(c)), Rp!SumFunction(bases(c)))
           g == [c \in Currencies |-> inBase(c)]
<1>1. Rp!InBaseOf(S, m) = Rp!SumFunction(g)
  BY DEF Rp!InBaseOf
<1>2. IsFiniteSet(S) /\ IsFiniteSet(Currencies) /\ Base \in Currencies
  <2>1. S \subseteq Raised
    BY DEF Rp!Issued
  <2> QED
    BY <2>1, ReportsFinite, ReportsAssumption
<1>3. ASSUME NEW c \in Currencies \ {Base} PROVE inBase(c) = 0
  <2>1. of(c) = {}
    OBVIOUS
  <2>2. DOMAIN grosses(c) = {}
    BY <2>1
  <2>3. Rp!SumFunction(grosses(c)) = 0
    <3> HIDE DEF grosses
    <3> QED
      BY <2>2, ReportedSum, SumEmpty
  <2> HIDE DEF parts, grosses, bases
  <2> QED
    BY <2>3 DEF Rp!InBase
<1>4. inBase(Base) = SumFunctionOnSet(m, S) /\ SumFunctionOnSet(m, S) \in Int
  <2>1. of(Base) = S
    OBVIOUS
  <2>2. DOMAIN parts(Base) = S /\ DOMAIN grosses(Base) = S /\ DOMAIN bases(Base) = S
    BY <2>1
  <2>3. \A i \in S : parts(Base)[i] = m[i] /\ grosses(Base)[i] = GrossAt[i] /\ bases(Base)[i] = GrossAt[i] /\ GrossAt[i] \in Int /\ GrossAt[i] >= 0
    <3> SUFFICES ASSUME NEW i \in S
                 PROVE  Rp!Gross(i) = GrossAt[i] /\ Rp!TotalBase(i) = GrossAt[i] /\ GrossAt[i] \in Int /\ GrossAt[i] >= 0
      BY <2>1
    <3>1. Rp!Gross(i) \in Int /\ Rp!Gross(i) >= 0 /\ GrossAt[i] = Rp!Gross(i)
      BY RaisedNumbers, RaisedAt
    <3>2. Rp!TotalBase(i) = Rp!Gross(i)
      BY DEF Rp!TotalBase, Rp!Convert
    <3> QED
      BY <3>1, <3>2
  <2> PICK p, q, r : p = parts(Base) /\ q = grosses(Base) /\ r = bases(Base)
    OBVIOUS
  <2> HIDE DEF parts, grosses, bases
  <2>4. Rp!SumFunction(p) = SumFunctionOnSet(m, S) /\ Rp!SumFunction(p) \in Int
    <3>1. DOMAIN p = S /\ \A i \in S : m[i] \in Int /\ p[i] = m[i]
      BY <2>2, <2>3
    <3> QED
      BY <1>2, <3>1, ReportedPart
  <2>5. Rp!SumFunction(q) = SumFunctionOnSet(GrossAt, S) /\ Rp!SumFunction(q) \in Int
    <3>1. DOMAIN q = S /\ \A i \in S : GrossAt[i] \in Int /\ q[i] = GrossAt[i]
      BY <2>2, <2>3
    <3> QED
      BY <1>2, <3>1, ReportedPart
  <2>6. Rp!SumFunction(r) = SumFunctionOnSet(GrossAt, S)
    <3>1. DOMAIN r = S /\ \A i \in S : GrossAt[i] \in Int /\ r[i] = GrossAt[i]
      BY <2>2, <2>3
    <3> QED
      BY <1>2, <3>1, ReportedPart
  <2>7. SumFunctionOnSet(GrossAt, S) >= 0 /\ (SumFunctionOnSet(GrossAt, S) = 0 => \A i \in S : GrossAt[i] = 0)
    BY <1>2, <2>3, SumNothing
  <2>8. ASSUME SumFunctionOnSet(GrossAt, S) = 0 PROVE SumFunctionOnSet(m, S) = 0
    <3>1. \A i \in S : Rp!Gross(i) = 0
      BY <2>7, <2>8, RaisedAt
    <3>2. \A i \in S : m[i] = 0
      BY <3>1
    <3> QED
      BY <1>2, <3>2, SumZero
  <2>9. Rp!InBase(Rp!SumFunction(p), Rp!SumFunction(q), Rp!SumFunction(q)) = Rp!SumFunction(p)
    BY <2>4, <2>5, <2>7, <2>8, InBaseWhole
  <2> QED
    BY <2>4, <2>5, <2>6, <2>9
<1>5. DOMAIN g = Currencies /\ g[Base] = SumFunctionOnSet(m, S) /\ g[Base] \in Int /\ \A c \in Currencies \ {Base} : g[c] = 0
  <2> HIDE DEF inBase
  <2> QED
    BY <1>2, <1>3, <1>4
<1> HIDE DEF g
<1>6. SumFunctionOnSet(g, Currencies) = g[Base]
  BY <1>2, <1>5, SumOne
<1> QED
  BY <1>1, <1>5, <1>6, ReportedSum

\* What an expense in the base currency cost.
LEMMA CostInBase ==
  ASSUME ReportsInv, NEW e \in Spent, expenses[e] # None
  PROVE  /\ Rp!ExpenseBaseCost(e) \in Int
         /\ expenses[e].currency = Base => Rp!ExpenseBaseCost(e) = Rp!ExpenseCost(e)
<1> PICK x : x = expenses[e]
  OBVIOUS
<1>1. ExpenseRow(x, now) /\ x.amount \in Nat \ {0} /\ x.tax \in Int
  BY SpentNumbers
<1>2. x.base \in Int /\ (x.currency = Base => x.base = x.amount)
  BY <1>1 DEF ExpenseRow
<1>3. Rp!ExpenseBaseCost(e) = IF reclaims \/ x.amount = 0 THEN x.base ELSE Rp!RoundDiv(x.base * (x.amount + x.tax), x.amount)
  BY DEF Rp!ExpenseBaseCost
<1>4. Rp!ExpenseCost(e) = x.amount + (IF reclaims THEN 0 ELSE x.tax)
  BY DEF Rp!ExpenseCost
<1> PICK a, tax, base : a = x.amount /\ tax = x.tax /\ base = x.base
  OBVIOUS
<1>5. a \in Nat \ {0} /\ a \in Int /\ tax \in Int /\ base \in Int /\ a + tax \in Int
  BY <1>1, <1>2
<1>6. base * (a + tax) \in Int
  BY <1>5
<1>7. Rp!RoundDiv(base * (a + tax), a) \in Int
  BY <1>5, <1>6, Rounded
<1>8. ASSUME x.currency = Base PROVE Rp!RoundDiv(base * (a + tax), a) = a + tax
  <2>1. base * (a + tax) = (a + tax) * a
    BY <1>2, <1>5, <1>8
  <2>2. Rp!RoundDiv((a + tax) * a, a) = a + tax
    BY <1>5, Even
  <2> QED
    BY <2>1, <2>2
<1>9. reclaims \in BOOLEAN
  BY DEF ReportsInv
<1> QED
  BY <1>2, <1>3, <1>4, <1>5, <1>7, <1>8, <1>9

SpentIn(from, to) == {x \in Spent : Rp!CountsAsCost(x) /\ Rp!Within(expenses[x].month, from, to)}
BaseCostAt == [e \in Spent |-> Rp!ExpenseBaseCost(e)]

LEMMA SpentInIs ==
  ASSUME ReportsInv, NEW from, NEW to
  PROVE  /\ IsFiniteSet(SpentIn(from, to))
         /\ \A e \in SpentIn(from, to) : e \in Spent /\ expenses[e] # None
         /\ \A e \in SpentIn(from, to) : BaseCostAt[e] = Rp!ExpenseBaseCost(e) /\ BaseCostAt[e] \in Int
         /\ (\A e \in SpentIn(from, to) : expenses[e].currency = Base)
               => SumFunctionOnSet(BaseCostAt, SpentIn(from, to)) = Rp!ExpensesIn(Base, from, to)
<1> DEFINE S == SpentIn(from, to)
<1>1. IsFiniteSet(S) /\ \A e \in S : e \in Spent /\ expenses[e] # None
  BY ReportsFinite DEF SpentIn, Rp!CountsAsCost
<1>2. \A e \in S : BaseCostAt[e] = Rp!ExpenseBaseCost(e) /\ BaseCostAt[e] \in Int
  BY <1>1, CostInBase DEF BaseCostAt
<1>3. ASSUME \A e \in S : expenses[e].currency = Base PROVE SumFunctionOnSet(BaseCostAt, S) = Rp!ExpensesIn(Base, from, to)
  <2>1. S = {e \in Costs(Base) : Rp!Within(expenses[e].month, from, to)}
    BY <1>3 DEF SpentIn, Costs
  <2>2. \A e \in S : CostAt[e] \in Int /\ CostAt[e] = BaseCostAt[e]
    BY <1>1, <1>2, <1>3, CostInBase, SpentNumbers
  <2> HIDE DEF S
  <2>3. SumFunctionOnSet(CostAt, S) = SumFunctionOnSet(BaseCostAt, S)
    BY <1>1, <2>2, SumSame
  <2> QED
    BY <2>1, <2>3, CostsIs
<1> QED
  BY <1>1, <1>2, <1>3

LEMMA DashboardAgrees ==
  ASSUME ReportsInv, OneCurrency
  PROVE  /\ Rp!Dashboard(0, LastMonth).profit = Rp!Profit(Base, 0, LastMonth)
         /\ Rp!Dashboard(0, LastMonth).outstanding = Rp!Outstanding(Base).all
         /\ Rp!Dashboard(0, LastMonth).overdue = Rp!Outstanding(Base).overdue
<1> DEFINE net == [i \in Rp!Issued |-> Rp!Net(i)]
           due == [i \in Rp!Issued |-> Rp!Due(i)]
           R == {i \in Raised : Rp!IsRevenue(i) /\ Rp!Within(invoices[i].month, 0, LastMonth)}
           E == SpentIn(0, LastMonth)
           late == {i \in Rp!Open : invoices[i].due < now}
           cost == [e \in E |-> Rp!ExpenseBaseCost(e)]
<1>1. R = Rp!RevenueIn(Base, 0, LastMonth) /\ R \subseteq Rp!Issued
  BY DEF OneCurrency, Rp!RevenueIn, Rp!IsRevenue
<1>2. Rp!Open = OpenIn(Base) /\ late = {i \in OpenIn(Base) : invoices[i].due < now} /\ Rp!Open \subseteq Rp!Issued /\ late \subseteq Rp!Issued
  BY DEF OneCurrency, Rp!Open, OpenIn
<1>3. \A i \in Rp!Issued : invoices[i].currency = Base /\ net[i] = NetAt[i] /\ due[i] = DueAt[i] /\ NetAt[i] \in Int /\ DueAt[i] \in Int
  BY RaisedAt DEF OneCurrency
<1>4. \A i \in Rp!Issued : Rp!Gross(i) = 0 => net[i] = 0 /\ due[i] = 0
  <2> SUFFICES ASSUME NEW i \in Rp!Issued, Rp!Gross(i) = 0 PROVE Rp!Net(i) = 0 /\ Rp!Due(i) = 0
    OBVIOUS
  <2>1. invoices[i].paid \in 0 .. Rp!Gross(i)
    BY DEF ReportsInv
  <2> QED
    BY <2>1, RaisedNumbers
<1>5. \A e \in E : expenses[e].currency = Base
  BY SpentInIs DEF OneCurrency
<1>6. /\ Rp!Dashboard(0, LastMonth).profit = Rp!InBaseOf(R, net) - Rp!SumFunction(cost) - Rp!LabourIn(Base, 0, LastMonth)
      /\ Rp!Dashboard(0, LastMonth).outstanding = Rp!InBaseOf(Rp!Open, due)
      /\ Rp!Dashboard(0, LastMonth).overdue = Rp!InBaseOf(late, due)
  BY DEF Rp!Dashboard, SpentIn
<1>7. DOMAIN cost = E /\ \A e \in E : BaseCostAt[e] \in Int /\ cost[e] = BaseCostAt[e]
  BY SpentInIs
<1>8. IsFiniteSet(Rp!Issued)
  BY ReportsFinite DEF Rp!Issued
<1> HIDE DEF net, due, R, late, cost
<1>9. Rp!InBaseOf(R, net) = Rp!Billed(Base, 0, LastMonth)
  <2>1. Rp!InBaseOf(R, net) = SumFunctionOnSet(net, R)
    BY <1>1, <1>3, <1>4, InBaseOne
  <2>2. SumFunctionOnSet(NetAt, R) = SumFunctionOnSet(net, R)
    BY <1>1, <1>3, <1>8, FS_Subset, SumSame
  <2> QED
    BY <1>1, <2>1, <2>2, BilledIs
<1>10. ASSUME NEW S \in SUBSET Rp!Issued PROVE Rp!InBaseOf(S, due) = SumFunctionOnSet(DueAt, S)
  <2>1. Rp!InBaseOf(S, due) = SumFunctionOnSet(due, S)
    BY <1>3, <1>4, InBaseOne
  <2>2. SumFunctionOnSet(DueAt, S) = SumFunctionOnSet(due, S)
    BY <1>3, <1>8, FS_Subset, SumSame
  <2> QED
    BY <2>1, <2>2
<1>11. Rp!SumFunction(cost) = Rp!ExpensesIn(Base, 0, LastMonth)
  <2>1. Rp!SumFunction(cost) = SumFunctionOnSet(BaseCostAt, E)
    <3>1. IsFiniteSet(E)
      BY SpentInIs
    <3> HIDE DEF E
    <3> QED
      BY <1>7, <3>1, ReportedPart
  <2> QED
    BY <1>5, <2>1, SpentInIs
<1>12. Rp!Profit(Base, 0, LastMonth) = Rp!Billed(Base, 0, LastMonth) - Rp!ExpensesIn(Base, 0, LastMonth) - Rp!LabourIn(Base, 0, LastMonth)
  BY DEF Rp!Profit
<1> QED
  BY <1>2, <1>6, <1>9, <1>10, <1>11, <1>12, OutstandingIs

-----------------------------------------------------------------------------
(* The pack of a financial year.                                           *)

IssuedIn(y) == {i \in Raised : Rp!IsRevenue(i) /\ Rp!Within(invoices[i].month, y.from, y.to)}
IncomeAt    == [i \in Raised |-> Rp!IncomeBase(i)]
Treatments  == {"deductible", "non_deductible", "capital"}
Treated     == [e \in Spent |-> expenses[e].treatment]
SpentAs(y, t) == SumFunctionOnSet(BaseCostAt, {e \in SpentIn(y.from, y.to) : Treated[e] = t})

LEMMA IncomeIs ==
  ASSUME ReportsInv, NEW i \in Rp!Issued
  PROVE  /\ Rp!IncomeBase(i) \in Int /\ IncomeAt[i] = Rp!IncomeBase(i)
         /\ invoices[i].currency = Base => Rp!IncomeBase(i) = Rp!Net(i)
<1>1. i \in Raised /\ invoices[i] \in Rp!InvoiceRows /\ Rp!Net(i) \in Int
  BY RaisedNumbers
<1> PICK r \in ExchangeRates : r = invoices[i].rate
  BY <1>1 DEF Rp!InvoiceRows
<1> PICK n : n = Rp!Net(i)
  OBVIOUS
<1>2. r \in Int /\ RateOne \in Nat \ {0}
  BY ReportsAssumption
<1>3. n * r \in Int
  BY <1>1, <1>2
<1>4. Rp!RoundDiv(n * r, RateOne) \in Int
  BY <1>2, <1>3, Rounded
<1> QED
  BY <1>1, <1>4 DEF IncomeAt, Rp!IncomeBase, Rp!Convert

LEMMA IssuedInIs ==
  ASSUME ReportsInv, NEW y
  PROVE  /\ IsFiniteSet(IssuedIn(y)) /\ \A i \in IssuedIn(y) : i \in Raised /\ i \in Rp!Issued
         /\ \A i \in IssuedIn(y) : IncomeAt[i] \in Int /\ IncomeAt[i] = Rp!IncomeBase(i)
         /\ SumFunctionOnSet(IncomeAt, IssuedIn(y)) \in Int
         /\ (\A i \in IssuedIn(y) : invoices[i].currency = Base)
               => SumFunctionOnSet(IncomeAt, IssuedIn(y)) = Rp!Billed(Base, y.from, y.to)
<1> DEFINE S == IssuedIn(y)
<1>1. IsFiniteSet(S) /\ \A i \in S : i \in Raised /\ i \in Rp!Issued
  BY ReportsFinite DEF IssuedIn, Rp!IsRevenue
<1>2. \A i \in S : IncomeAt[i] \in Int /\ IncomeAt[i] = Rp!IncomeBase(i)
  BY <1>1, IncomeIs
<1>3. SumFunctionOnSet(IncomeAt, S) \in Int
  <2> HIDE DEF S
  <2> QED
    BY <1>1, <1>2, SumInt
<1>4. ASSUME \A i \in S : invoices[i].currency = Base PROVE SumFunctionOnSet(IncomeAt, S) = Rp!Billed(Base, y.from, y.to)
  <2>1. S = Rp!RevenueIn(Base, y.from, y.to)
    BY <1>4 DEF IssuedIn, Rp!RevenueIn
  <2>2. \A i \in S : NetAt[i] \in Int /\ NetAt[i] = IncomeAt[i]
    BY <1>1, <1>2, <1>4, IncomeIs, RaisedAt
  <2> HIDE DEF S
  <2>3. SumFunctionOnSet(NetAt, S) = SumFunctionOnSet(IncomeAt, S)
    BY <1>1, <2>2, SumSame
  <2> QED
    BY <2>1, <2>3, BilledIs
<1> QED
  BY <1>1, <1>2, <1>3, <1>4

\* What was spent, by how it is treated.
LEMMA SpentByTreatment ==
  ASSUME ReportsInv, NEW y
  PROVE  /\ \A t \in Treatments : SpentAs(y, t) \in Int
         /\ SpentAs(y, "deductible") + SpentAs(y, "non_deductible") + SpentAs(y, "capital") = SumFunctionOnSet(BaseCostAt, SpentIn(y.from, y.to))
<1> DEFINE S == SpentIn(y.from, y.to)
           g == [t \in Treatments |-> SpentAs(y, t)]
<1>1. IsFiniteSet(S) /\ \A e \in S : e \in Spent /\ expenses[e] # None /\ BaseCostAt[e] \in Int
  BY SpentInIs
<1>2. \A e \in S : Treated[e] \in Treatments
  BY <1>1, SpentNumbers DEF Treated, Treatments, ExpenseRow
<1>3. \A t \in Treatments : g[t] = SumFunctionOnSet(BaseCostAt, {e \in S : Treated[e] = t}) /\ g[t] = SpentAs(y, t)
  BY DEF SpentAs
<1>4. IsFiniteSet({}) /\ IsFiniteSet({"capital"}) /\ IsFiniteSet({"capital"} \cup {"non_deductible"})
      /\ IsFiniteSet({"capital"} \cup {"non_deductible"} \cup {"deductible"})
  BY FS_EmptySet, FS_AddElement, FS_Singleton
<1>5. Treatments = {"capital"} \cup {"non_deductible"} \cup {"deductible"}
  BY DEF Treatments
<1>6. {e \in S : Treated[e] \in Treatments} = S
  BY <1>2
<1> HIDE DEF S, g
<1>7. Parts(S, Treatments, Treated, BaseCostAt, g)
  BY <1>1, <1>3, <1>4, <1>5 DEF Parts
<1>8. SumFunctionOnSet(g, Treatments) = SumFunctionOnSet(BaseCostAt, S)
  BY <1>6, <1>7, SumParts
<1>9. \A t \in Treatments : g[t] \in Int
  BY <1>7, SumParts
<1>10. g["capital"] \in Int /\ g["non_deductible"] \in Int /\ g["deductible"] \in Int
  BY <1>9 DEF Treatments
<1>11. SumFunctionOnSet(g, {"capital"}) = g["capital"]
  BY <1>4, <1>10, SumOne
<1>12. SumFunctionOnSet(g, {"capital"} \cup {"non_deductible"}) = g["non_deductible"] + SumFunctionOnSet(g, {"capital"})
  <2>1. "non_deductible" \notin {"capital"} /\ \A t \in {"capital"} \cup {"non_deductible"} : g[t] \in Int
    BY <1>10
  <2> QED
    BY <1>4, <2>1, SumAdd
<1>13. SumFunctionOnSet(g, {"capital"} \cup {"non_deductible"} \cup {"deductible"})
          = g["deductible"] + SumFunctionOnSet(g, {"capital"} \cup {"non_deductible"})
  <2>1. "deductible" \notin {"capital"} \cup {"non_deductible"} /\ \A t \in {"capital"} \cup {"non_deductible"} \cup {"deductible"} : g[t] \in Int
    BY <1>10
  <2> QED
    BY <1>4, <2>1, SumAdd
<1>14. SumFunctionOnSet(g, Treatments) = g["deductible"] + (g["non_deductible"] + g["capital"])
  BY <1>5, <1>11, <1>12, <1>13
<1>15. g["capital"] = SpentAs(y, "capital") /\ g["non_deductible"] = SpentAs(y, "non_deductible") /\ g["deductible"] = SpentAs(y, "deductible")
  BY <1>3 DEF Treatments
<1>16. \A t \in Treatments : SpentAs(y, t) \in Int
  BY <1>3, <1>9
<1> PICK d, n, k : d = g["deductible"] /\ n = g["non_deductible"] /\ k = g["capital"]
  OBVIOUS
<1>17. d + n + k = d + (n + k) /\ d = SpentAs(y, "deductible") /\ n = SpentAs(y, "non_deductible") /\ k = SpentAs(y, "capital")
  BY <1>10, <1>15
<1> QED
  BY <1>8, <1>14, <1>16, <1>17 DEF S

LEMMA ProfitAndLossIs ==
  ASSUME ReportsInv, NEW y
  PROVE  LET income == SumFunctionOnSet(IncomeAt, IssuedIn(y)) IN
         /\ Rp!ProfitAndLoss(y).income = income
         /\ Rp!ProfitAndLoss(y).capital = SpentAs(y, "capital")
         /\ Rp!ProfitAndLoss(y).accounting = income - SpentAs(y, "deductible") - SpentAs(y, "non_deductible")
<1> DEFINE f == [i \in IssuedIn(y) |-> Rp!IncomeBase(i)]
           some(t) == {x \in Spent : Rp!CountsAsCost(x) /\ Rp!Within(expenses[x].month, y.from, y.to) /\ expenses[x].treatment = t}
           total(t) == Rp!SumFunction([e \in some(t) |-> Rp!ExpenseBaseCost(e)])
<1>1. /\ Rp!ProfitAndLoss(y).income = Rp!SumFunction(f)
      /\ Rp!ProfitAndLoss(y).capital = total("capital")
      /\ Rp!ProfitAndLoss(y).accounting = Rp!SumFunction(f) - total("deductible") - total("non_deductible")
  BY DEF Rp!ProfitAndLoss, IssuedIn
<1>2. Rp!SumFunction(f) = SumFunctionOnSet(IncomeAt, IssuedIn(y))
  <2> PICK S : S = IssuedIn(y)
    OBVIOUS
  <2>1. IsFiniteSet(S) /\ DOMAIN f = S /\ \A i \in S : IncomeAt[i] \in Int /\ f[i] = IncomeAt[i]
    BY IssuedInIs
  <2> HIDE DEF f
  <2>2. Rp!SumFunction(f) = SumFunctionOnSet(IncomeAt, S)
    BY <2>1, ReportedPart
  <2> QED
    BY <2>2
<1>3. ASSUME NEW t PROVE total(t) = SpentAs(y, t)
  <2> DEFINE T == some(t)  g == [e \in T |-> Rp!ExpenseBaseCost(e)]
  <2>1. T = {e \in SpentIn(y.from, y.to) : Treated[e] = t} /\ T \subseteq SpentIn(y.from, y.to)
    BY DEF SpentIn, Treated
  <2>2. IsFiniteSet(T)
    <3> HIDE DEF T
    <3> QED
      BY <2>1, SpentInIs, FS_Subset
  <2>3. DOMAIN g = T /\ \A e \in T : BaseCostAt[e] \in Int /\ g[e] = BaseCostAt[e]
    BY <2>1, SpentInIs
  <2>4. total(t) = Rp!SumFunction(g)
    OBVIOUS
  <2> HIDE DEF T, g, total
  <2>5. Rp!SumFunction(g) = SumFunctionOnSet(BaseCostAt, T)
    BY <2>2, <2>3, ReportedPart
  <2> QED
    BY <2>1, <2>4, <2>5 DEF SpentAs
<1> HIDE DEF f, total
<1> QED
  BY <1>1, <1>2, <1>3

LEMMA PackAddsUp ==
  ASSUME ReportsInv, NEW y
  PROVE  LET says == Rp!ProfitAndLoss(y)
             files == Rp!PackFiles(y)
         IN /\ Rp!SumFunction([i \in DOMAIN files.revenueSchedule |-> files.revenueSchedule[i].income]) = says.income
            /\ Rp!SumFunction([e \in DOMAIN files.expenseSchedule |-> files.expenseSchedule[e].cost]) = says.income - says.accounting + says.capital
            /\ ~files.foreign =>
                  /\ says.income = Rp!Billed(Base, y.from, y.to)
                  /\ says.accounting - says.capital = Rp!Profit(Base, y.from, y.to) + Rp!LabourIn(Base, y.from, y.to)
<1> DEFINE files == Rp!PackFiles(y)
           says == Rp!ProfitAndLoss(y)
           S == IssuedIn(y)
           E == SpentIn(y.from, y.to)
           revenue == files.revenueSchedule
           spent == files.expenseSchedule
           f == [i \in DOMAIN revenue |-> revenue[i].income]
           g == [e \in DOMAIN spent |-> spent[e].cost]
           income == SumFunctionOnSet(IncomeAt, S)
           cost == SumFunctionOnSet(BaseCostAt, E)
<1>1. /\ revenue = [i \in S |-> [client |-> ClientOf[i], income |-> Rp!IncomeBase(i)]]
      /\ spent = [e \in E |-> [treatment |-> expenses[e].treatment, cost |-> Rp!ExpenseBaseCost(e)]]
      /\ files.foreign <=> (\E i \in S : invoices[i].currency # Base) \/ (\E e \in E : expenses[e].currency # Base)
  BY DEF Rp!PackFiles, IssuedIn, SpentIn
<1> HIDE DEF revenue, spent, files
<1>2. DOMAIN revenue = S /\ DOMAIN spent = E /\ (\A i \in S : revenue[i].income = Rp!IncomeBase(i)) /\ (\A e \in E : spent[e].cost = Rp!ExpenseBaseCost(e))
  BY <1>1
<1>3. DOMAIN f = S /\ \A i \in S : IncomeAt[i] \in Int /\ f[i] = IncomeAt[i]
  BY <1>2, IssuedInIs
<1>4. DOMAIN g = E /\ \A e \in E : BaseCostAt[e] \in Int /\ g[e] = BaseCostAt[e]
  BY <1>2, SpentInIs
<1>5. IsFiniteSet(S) /\ IsFiniteSet(E) /\ income \in Int
  BY IssuedInIs, SpentInIs
<1> HIDE DEF S, E, f, g
<1>6. Rp!SumFunction(f) = income
  BY <1>3, <1>5, ReportedPart
<1>7. Rp!SumFunction(g) = cost
  BY <1>4, <1>5, ReportedPart
<1>8. says.income = income /\ says.capital = SpentAs(y, "capital")
      /\ says.accounting = income - SpentAs(y, "deductible") - SpentAs(y, "non_deductible")
  BY ProfitAndLossIs DEF S
<1>9. /\ SpentAs(y, "deductible") \in Int /\ SpentAs(y, "non_deductible") \in Int /\ SpentAs(y, "capital") \in Int
      /\ SpentAs(y, "deductible") + SpentAs(y, "non_deductible") + SpentAs(y, "capital") = cost
  BY SpentByTreatment DEF Treatments, E
<1>10. says.income - says.accounting + says.capital = cost /\ says.accounting - says.capital = income - cost /\ cost \in Int
  BY <1>5, <1>8, <1>9
<1>11. ASSUME ~files.foreign
       PROVE  /\ says.income = Rp!Billed(Base, y.from, y.to)
              /\ says.accounting - says.capital = Rp!Profit(Base, y.from, y.to) + Rp!LabourIn(Base, y.from, y.to)
  <2>1. (\A i \in S : invoices[i].currency = Base) /\ (\A e \in E : expenses[e].currency = Base)
    BY <1>1, <1>11
  <2>2. income = Rp!Billed(Base, y.from, y.to)
    BY <2>1, IssuedInIs DEF S
  <2>3. cost = Rp!ExpensesIn(Base, y.from, y.to)
    BY <2>1, SpentInIs DEF E
  <2>4. Rp!LabourIn(Base, y.from, y.to) \in Int
    BY LabourIs
  <2>5. Rp!Profit(Base, y.from, y.to) = income - cost - Rp!LabourIn(Base, y.from, y.to)
    BY <2>2, <2>3 DEF Rp!Profit
  <2> QED
    BY <1>5, <1>8, <1>10, <2>2, <2>4, <2>5
<1> QED
  BY <1>6, <1>7, <1>8, <1>10, <1>11 DEF f, g, revenue, spent, files

LEMMA ReceivedAgrees ==
  ASSUME ReportsInv, OneCurrency, NEW y
  PROVE  Rp!ProfitAndLoss(y).received = Rp!CollectedIn(Base, y.from, y.to)
<1> DEFINE S == {q \in payments : Rp!Within(q.month, y.from, y.to)}
           T == {q \in payments : q.currency = Base /\ Rp!Within(q.month, y.from, y.to)}
           f == [p \in S |-> Rp!Convert(p.amount, p.currency, invoices[p.invoice].rate)]
           g == [p \in T |-> p.amount]
<1>1. \A p \in payments : p.currency = Base
  BY DEF ReportsInv, PaymentRow, OneCurrency, Rp!Issued
<1>2. S = T
  BY <1>1
<1>3. f = g
  BY <1>1, <1>2 DEF Rp!Convert
<1>4. Rp!ProfitAndLoss(y).received = Rp!SumFunction(f) /\ Rp!CollectedIn(Base, y.from, y.to) = Rp!SumFunction(g)
  BY DEF Rp!ProfitAndLoss, Rp!CollectedIn
<1> QED
  BY <1>3, <1>4

LEMMA FiguresAlwaysAgree == ASSUME ReportsInv PROVE Rp!FiguresAgree
<1>1. ASSUME NEW c \in Currencies
      PROVE  /\ Rp!SumFunction([r \in {x \in Rp!Portfolio : x.currency = c} |-> r.margin])
                   - Rp!SumFunction([e \in {e \in Spent : Rp!CountsAsCost(e) /\ expenses[e].currency = c /\ expenses[e].project = None} |-> Rp!ExpenseCost(e)])
                = Rp!Profit(c, 0, LastMonth) - (Rp!Billed(c, 0, LastMonth) - Rp!AttributedIn(c, 0, LastMonth))
             /\ Rp!SumFunction([r \in {x \in Rp!ClientsIn(0, LastMonth) : x.currency = c} |-> r.billed]) = Rp!Billed(c, 0, LastMonth)
             /\ Rp!SumFunction([r \in {x \in Rp!ClientsIn(0, LastMonth) : x.currency = c} |-> r.outstanding]) = Rp!Outstanding(c).all
  BY MarginsAgree, ClientsAgree, OutstandingIs
<1>2. \A p \in Works : Rp!FinancialsFor(p, Base).others = {} => Rp!Worked(p).cost = Rp!FinancialsFor(p, Base).own.labour
  BY PageAgrees
<1>3. OneCurrency => /\ Rp!Dashboard(0, LastMonth).profit = Rp!Profit(Base, 0, LastMonth)
                     /\ Rp!Dashboard(0, LastMonth).outstanding = Rp!Outstanding(Base).all
                     /\ Rp!Dashboard(0, LastMonth).overdue = Rp!Outstanding(Base).overdue
  BY DashboardAgrees
<1>4. ASSUME NEW y
      PROVE  LET says == Rp!ProfitAndLoss(y)
                 files == Rp!PackFiles(y)
             IN /\ Rp!SumFunction([i \in DOMAIN files.revenueSchedule |-> files.revenueSchedule[i].income]) = says.income
                /\ Rp!SumFunction([e \in DOMAIN files.expenseSchedule |-> files.expenseSchedule[e].cost]) = says.income - says.accounting + says.capital
                /\ ~files.foreign =>
                      /\ says.income = Rp!Billed(Base, y.from, y.to)
                      /\ says.accounting - says.capital = Rp!Profit(Base, y.from, y.to) + Rp!LabourIn(Base, y.from, y.to)
                /\ OneCurrency => says.received = Rp!CollectedIn(Base, y.from, y.to)
  BY PackAddsUp, ReceivedAgrees
<1> QED
  BY <1>1, <1>2, <1>3, <1>4 DEF Rp!FiguresAgree, OneCurrency

-----------------------------------------------------------------------------
(* What was paid, shared among the projects.                               *)

ShareAt(p) == [i \in Raised |-> Rp!Share(i, p)]

\* Each invoice's shares come to what was paid on it, but for a unit for each project but one.
LEMMA SharedOf ==
  ASSUME ReportsInv, NEW i \in Rp!Issued, Rp!Net(i) # 0
  PROVE  /\ \A p \in Works : /\ Rp!Share(i, p) \in Int /\ ShareAt(p)[i] = Rp!Share(i, p)
                             /\ Rp!LinesOf(i, p) = {} => Rp!Share(i, p) = 0
         /\ Rp!LinesOf(i, None) = {} =>
               LET sum == SumFunctionOnSet([p \in Works |-> Rp!Share(i, p)], Works) IN
               sum \in Int /\ sum - PaidAt[i] <= Cardinality(Works) - 1 /\ PaidAt[i] - sum <= Cardinality(Works) - 1
<1> DEFINE w == [p \in Works |-> Rp!NetOf(i, p)]
           r == [p \in Works |-> Rp!Share(i, p)]
<1>1. i \in Raised /\ Rp!Net(i) \in Nat \ {0} /\ PaidAt[i] = invoices[i].paid /\ PaidAt[i] \in Int
  BY RaisedNumbers, RaisedAt
<1>2. \A p \in Works : w[p] = Rp!NetOf(i, p) /\ w[p] \in Int
  BY ClaimedOf
<1> PICK whole, paid : whole = Rp!Net(i) /\ paid = PaidAt[i]
  OBVIOUS
<1>3. \A p \in Works : r[p] = Rp!RoundDiv(paid * w[p], whole)
  BY <1>1 DEF Rp!Share
<1>4. \A p \in Works : r[p] = Rp!Share(i, p) /\ ShareAt(p)[i] = r[p]
  BY <1>1 DEF ShareAt
<1>5. whole \in Nat \ {0} /\ paid \in Int /\ IsFiniteSet(Works)
  BY <1>1, ReportsFinite
<1>6. Rp!LinesOf(i, None) = {} => SumFunctionOnSet(w, Works) = whole
  BY ClaimedOf
<1>7. \A p \in Works : Rp!LinesOf(i, p) = {} => w[p] = 0
  BY <1>2, ClaimedOf
<1> HIDE DEF w, r
<1>8. \A p \in Works : r[p] \in Int /\ (w[p] = 0 => r[p] = 0)
  <2> SUFFICES ASSUME NEW p \in Works PROVE r[p] \in Int /\ (w[p] = 0 => r[p] = 0)
    OBVIOUS
  <2> PICK n : n = w[p]
    OBVIOUS
  <2>1. n \in Int /\ r[p] = Rp!RoundDiv(paid * n, whole)
    BY <1>2, <1>3
  <2>2. paid * n \in Int
    BY <1>5, <2>1
  <2>3. Rp!RoundDiv(paid * n, whole) \in Int
    BY <1>5, <2>2, Rounded
  <2>4. Rp!RoundDiv(0 * whole, whole) = 0
    BY <1>5, Even
  <2>5. n = 0 => paid * n = 0 * whole
    BY <1>5
  <2> QED
    BY <2>1, <2>3, <2>4, <2>5
<1>9. ASSUME Rp!LinesOf(i, None) = {}
      PROVE  /\ SumFunctionOnSet(r, Works) \in Int
             /\ SumFunctionOnSet(r, Works) - paid <= Cardinality(Works) - 1 /\ paid - SumFunctionOnSet(r, Works) <= Cardinality(Works) - 1
  <2>1. whole = SumFunctionOnSet(w, Works)
    BY <1>6, <1>9
  <2>2. \A p \in Works : w[p] \in Int
    BY <1>2
  <2> QED
    BY <1>3, <1>5, <2>1, <2>2, Shared
<1> QED
  BY <1>4, <1>7, <1>8, <1>9 DEF r

LEMMA CollectedForIs ==
  ASSUME ReportsInv, NEW c, \A i \in Revenues(c) : Rp!Net(i) # 0, NEW p \in Works
  PROVE  Rp!CollectedFor(p, c) = SumFunctionOnSet(ShareAt(p), Revenues(c))
<1> DEFINE S == Revenues(c)
           T == {j \in Rp!RevenueOf(p, c) : Rp!Net(j) # 0}
           g == [i \in T |-> Rp!Share(i, p)]
           share == ShareAt(p)
<1>1. T = {i \in S : Rp!LinesOf(i, p) # {}} /\ T \subseteq S
  BY DEF Rp!RevenueOf, Revenues
<1>2. IsFiniteSet(S) /\ IsFiniteSet(T)
  BY <1>1, RevenuesAre, FS_Subset
<1>3. \A i \in S : share[i] \in Int /\ share[i] = Rp!Share(i, p) /\ (i \notin T => share[i] = 0)
  BY <1>1, RevenuesAre, SharedOf
<1>4. DOMAIN g = T /\ \A i \in T : share[i] \in Int /\ g[i] = share[i]
  BY <1>1, <1>3
<1>5. Rp!CollectedFor(p, c) = Rp!SumFunction(g)
  BY DEF Rp!CollectedFor
<1> HIDE DEF S, T, g, share
<1>6. Rp!CollectedFor(p, c) = SumFunctionOnSet(share, T)
  BY <1>2, <1>4, <1>5, ReportedPart
<1>7. SumFunctionOnSet(share, S) = SumFunctionOnSet(share, T)
  BY <1>1, <1>2, <1>3, SumWhere
<1> QED
  BY <1>6, <1>7 DEF S, share

LEMMA SharesComeToIt ==
  ASSUME ReportsInv, NEW c, \A i \in Revenues(c) : Rp!Net(i) # 0 /\ Rp!LinesOf(i, None) = {}
  PROVE  LET paid == SumFunctionOnSet(PaidAt, Revenues(c))
             shared == SumFunctionOnSet([p \in Works |-> Rp!CollectedFor(p, c)], Works)
             slack == Cardinality(Revenues(c)) * (Cardinality(Works) - 1)
         IN paid \in Int /\ shared \in Int /\ slack \in Int /\ shared - paid <= slack /\ paid - shared <= slack
<1> DEFINE S == Revenues(c)
           row == [i \in S |-> [p \in Works |-> Rp!Share(i, p)]]
           col == [p \in Works |-> ShareAt(p)]
           rows == [i \in S |-> SumFunctionOnSet([p \in Works |-> Rp!Share(i, p)], Works)]
           cols == [p \in Works |-> Rp!CollectedFor(p, c)]
           off == [i \in S |-> rows[i] - PaidAt[i]]
           n == Cardinality(Works) - 1
           paid == SumFunctionOnSet(PaidAt, S)
           shared == SumFunctionOnSet(cols, Works)
<1>1. \A i \in S : i \in Rp!Issued /\ i \in Raised
  BY RevenuesAre
<1>2. IsFiniteSet(S) /\ IsFiniteSet(Works) /\ Cardinality(S) \in Nat /\ Cardinality(Works) \in Nat /\ n \in Int
  BY RevenuesAre, ReportsFinite, FS_CardinalityType
<1>3. \A i \in S : \A p \in Works : row[i][p] = Rp!Share(i, p) /\ col[p][i] = Rp!Share(i, p) /\ Rp!Share(i, p) \in Int
  BY <1>1, SharedOf
<1>4. \A i \in S : \A p \in Works : row[i][p] \in Int /\ col[p][i] = row[i][p]
  BY <1>3
<1>5. \A i \in S : rows[i] = SumFunctionOnSet(row[i], Works)
  OBVIOUS
<1>6. \A p \in Works : cols[p] = SumFunctionOnSet(col[p], S)
  BY CollectedForIs
<1>7. \A i \in S : PaidAt[i] \in Int /\ rows[i] \in Int /\ rows[i] - PaidAt[i] <= n /\ PaidAt[i] - rows[i] <= n
  <2> SUFFICES ASSUME NEW i \in S PROVE PaidAt[i] \in Int /\ rows[i] \in Int /\ rows[i] - PaidAt[i] <= n /\ PaidAt[i] - rows[i] <= n
    OBVIOUS
  <2>1. rows[i] = SumFunctionOnSet([p \in Works |-> Rp!Share(i, p)], Works)
    OBVIOUS
  <2>2. PaidAt[i] \in Int
    BY <1>1, RaisedAt
  <2> QED
    BY <1>1, <2>1, <2>2, SharedOf
<1>8. \A i \in S : off[i] = rows[i] - PaidAt[i]
  OBVIOUS
<1> HIDE DEF S, row, col, rows, cols, off, n
<1>9. \A i \in S : off[i] \in Int /\ -n <= off[i] /\ off[i] <= n
  BY <1>2, <1>7, <1>8
<1>10. Table(S, Works, row, col, rows, cols)
  BY <1>2, <1>4, <1>5, <1>6 DEF Table
<1>11. SumFunctionOnSet(rows, S) = shared
  BY <1>10, SumSwap
<1>12. SumFunctionOnSet(off, S) = SumFunctionOnSet(rows, S) - paid
  BY <1>2, <1>7, <1>8, SumMinus
<1>13. SumFunctionOnSet(rows, S) \in Int /\ paid \in Int
  BY <1>2, <1>7, SumInt
<1>14. (-n) * Cardinality(S) <= SumFunctionOnSet(off, S) /\ SumFunctionOnSet(off, S) <= n * Cardinality(S)
  <2> PICK lo \in Int, hi \in Int : lo = -n /\ hi = n
    BY <1>2
  <2>1. \A i \in S : off[i] \in Int /\ lo <= off[i] /\ off[i] <= hi
    BY <1>9
  <2>2. lo * Cardinality(S) <= SumFunctionOnSet(off, S) /\ SumFunctionOnSet(off, S) <= hi * Cardinality(S)
    BY <1>2, <2>1, SumBetween
  <2> QED
    BY <2>2
<1>15. Cardinality(S) * n \in Int /\ n * Cardinality(S) = Cardinality(S) * n /\ (-n) * Cardinality(S) = -(Cardinality(S) * n)
  BY <1>2
<1>16. paid \in Int /\ shared \in Int /\ Cardinality(S) * n \in Int /\ shared - paid <= Cardinality(S) * n /\ paid - shared <= Cardinality(S) * n
  BY <1>11, <1>12, <1>13, <1>14, <1>15
<1> QED
  BY <1>16 DEF S, n, cols

LEMMA PaymentAlwaysShared == ASSUME ReportsInv PROVE Rp!PaymentShared
<1> SUFFICES ASSUME NEW c \in Currencies, \A i \in Revenues(c) : Rp!Net(i) # 0 /\ Rp!LinesOf(i, None) = {}
             PROVE  LET S == Revenues(c)
                        paid == Rp!SumFunction([i \in S |-> invoices[i].paid])
                        shared == Rp!SumFunction([p \in Works |-> Rp!CollectedFor(p, c)])
                        slack == Rp!Cardinality(S) * (Rp!Cardinality(Works) - 1)
                    IN shared \in (paid - slack) .. (paid + slack)
  BY DEF Rp!PaymentShared, Revenues
<1> DEFINE S == Revenues(c)
           f == [i \in S |-> invoices[i].paid]
           g == [p \in Works |-> Rp!CollectedFor(p, c)]
<1>1. Rp!Cardinality(S) = Cardinality(S) /\ Rp!Cardinality(Works) = Cardinality(Works)
  BY Zenon DEF Rp!Cardinality, Cardinality
<1>2. IsFiniteSet(S) /\ \A i \in S : i \in Raised /\ i \in Rp!Issued
  BY RevenuesAre
<1>3. DOMAIN f = S /\ DOMAIN g = Works /\ \A i \in S : PaidAt[i] \in Int /\ f[i] = PaidAt[i]
  BY <1>2, RaisedAt
<1>4. Rp!SumFunction(g) = SumFunctionOnSet(g, Works)
  <2> HIDE DEF g
  <2> QED
    BY <1>3, ReportedSum
<1>5. Rp!SumFunction(f) = SumFunctionOnSet(PaidAt, S)
  <2> HIDE DEF f, S
  <2> QED
    BY <1>2, <1>3, ReportedPart
<1> DEFINE paid == SumFunctionOnSet(PaidAt, S)
           shared == SumFunctionOnSet(g, Works)
           slack == Cardinality(S) * (Cardinality(Works) - 1)
<1>6. paid \in Int /\ shared \in Int /\ slack \in Int /\ shared - paid <= slack /\ paid - shared <= slack
  BY SharesComeToIt
<1> HIDE DEF paid, shared, slack
<1>7. shared \in (paid - slack) .. (paid + slack)
  BY <1>6
<1> HIDE DEF f, g, S
<1> QED
  BY <1>1, <1>4, <1>5, <1>7 DEF paid, shared, slack, f, g, S

LEMMA ReportsTyped == ASSUME ReportsInv PROVE Rp!TypeOK
<1>1. now \in Nat
  BY ReportsAssumption DEF ReportsInv, Rp!Months
<1>2. \A m \in 0 .. now : m <= now
  BY <1>1
<1>3. \A i \in Rp!Issued : invoices[i].paid \in 0 .. Rp!Gross(i) /\ invoices[i].month <= now
  BY <1>2 DEF ReportsInv
<1>4. \A p \in payments : p.invoice \in Rp!Issued /\ p.month <= now
  BY <1>2 DEF ReportsInv, PaymentRow, Rp!Issued
<1>5. \A e \in Spent : expenses[e] # None => expenses[e].amount \in Outlays /\ expenses[e].month <= now
  BY <1>2 DEF ReportsInv, ExpenseRow
<1>6. \A t \in Logged : entries[t] # None => entries[t].project \in Works /\ entries[t].month <= now
  BY <1>2 DEF ReportsInv, EntryRow
<1> QED
  BY <1>3, <1>4, <1>5, <1>6 DEF ReportsInv, Rp!TypeOK

(* What two reports say of the same money is the same, and what was paid   *)
(* on an invoice is shared among the projects it was for: revenue.ts,      *)
(* dashboard.ts, books.ts, tax-pack.ts and project_financials_v.           *)
THEOREM ReportsAlwaysAgree == AllSpec => []ReportsAgree
<1> DEFINE Inv == part = "reports" => ReportsInv
<1>1. AllInit => Inv
  BY ReportsBegin DEF AllInit
<1>2. Inv /\ [AllNext]_allVars => Inv'
  <2> SUFFICES ASSUME Inv, [AllNext]_allVars PROVE Inv'
    OBVIOUS
  <2>1. CASE ReportsNext
    BY <2>1, ReportsMove DEF ReportsNext
  <2>2. CASE IssuingNext \/ SettlementNext \/ PlanNext
    BY <2>2 DEF IssuingNext, SettlementNext, PlanNext
  <2>3. CASE UNCHANGED allVars
    BY <2>3, ReportsRest DEF allVars
  <2> QED
    BY <2>1, <2>2, <2>3 DEF AllNext
<1>3. Inv => ReportsAgree
  BY ReportsTyped, FiguresAlwaysAgree, PaymentAlwaysShared DEF ReportsAgree
<1> QED
  BY <1>1, <1>2, <1>3, PTL DEF AllSpec
=============================================================================
