---------------------------- MODULE BillingProofs ----------------------------
(***************************************************************************)
(* Proofs about billing: time and expenses, for any number of entries,     *)
(* expenses, lines, invoices, people and requests; recurring schedules,    *)
(* for any calendar, agreement and number of periods, and the sweep over   *)
(* any number of them; and the processes that come up to serve.            *)
(*                                                                         *)
(* That a line charges what was logged is not inductive: it rests on what  *)
(* the requests under way have selected, and on the draft each has locked. *)
(* That no period is forgotten rests on where the next run falls: all      *)
(* periods before it have been dealt with.                                 *)
(***************************************************************************)
EXTENDS TimeBilling, MCBilling, FiniteSetTheorems, WellFoundedInduction, TLAPS

(* Every step is one of these; the proofs below go through them in order.  *)
LEMMA NextCases ==
    ASSUME Next
    PROVE  \/ \E e \in Entries, u \in Users, p \in Projects, h \in Hours : TimeEntryCreate(e, u, p, h)
           \/ \E e \in Entries, p \in Projects, h \in Hours \cup {0} : TimeEntryUpdate(e, p, h)
           \/ \E e \in Entries : TimeEntryDelete(e)
           \/ \E e \in Entries, h \in Hours : TimerStop(e, h)
           \/ \E r \in Requests, u \in Users, p \in Projects : TimerStartRead(r, u, p)
           \/ \E r \in Requests, e \in Entries, h \in Hours : TimerStartWrite(r, e, h)
           \/ \E x \in Expenses, s \in {"draft", "confirmed"}, a \in Hours : ExpenseCreate(x, s, a)
           \/ \E x \in Expenses : ExpenseConfirm(x)
           \/ \E x \in Expenses : ExpenseDelete(x)
           \/ \E x \in Expenses, a \in Hours : ExpenseUpdate(x, a)
           \/ \E i \in Invoices : InvoiceCreate(i)
           \/ \E i \in Invoices : InvoiceDelete(i)
           \/ \E i \in Invoices : InvoiceSend(i)
           \/ \E i \in Invoices : InvoiceCancel(i)
           \/ \E r \in Requests, i \in Invoices, asked \in SUBSET Work : BillRead(r, i, asked)
           \/ \E r \in Requests : BillWrite(r)
           \/ \E r \in Requests : RollBack(r)
           \/ \E l \in Lines : InvoiceLineRemove(l)
           \/ \E s \in RateSources, v \in Rates \cup {None} : RateSet(s, v)
           \/ \E p \in Projects : Archive(p)
BY Zenon DEF Next, Track, Spend, Bill, Settings, InvoiceBillTime, InvoiceBillExpenses, Work

-----------------------------------------------------------------------------
(***************************************************************************)
(* The inductive invariant.                                                *)
(***************************************************************************)
StateOf(w) == IF w \in Entries THEN entry[w].state ELSE expense[w].state

(* TypeOK, without what rows say of each other.                            *)
Shape ==
    /\ entry \in [Entries -> EntryRows]
    /\ expense \in [Expenses -> ExpenseRows]
    /\ DOMAIN line = Lines /\ \A l \in Lines : line[l] \in LineRows
    /\ invoice \in [Invoices -> InvoiceStatuses]
    /\ archived \subseteq Projects
    /\ rate \in [RateSources -> Rates \cup {None}]
    /\ DOMAIN request = Requests /\ \A r \in Requests : request[r] \in RequestRows
    /\ edits \in 0..MaxEdits

References ==
    /\ \A w \in Work : LineOf(w) # None => line[LineOf(w)].invoice # None
    /\ \A l \in Lines : line[l].invoice # None => invoice[line[l].invoice] # "absent"

(* One timer runs for a person.                                            *)
OneRunning ==
    \A e1, e2 \in Entries :
        /\ entry[e1].state = "running" /\ entry[e2].state = "running"
        /\ entry[e1].user = entry[e2].user
        => e1 = e2

(* Only finished work is on a line.                                        *)
BilledState == \A w \in Work : LineOf(w) # None => StateOf(w) \in {"logged", "confirmed"}

(* A request to start a timer has locked the one that runs.                *)
Started ==
    \A r \in Requests : request[r].previous # None =>
        /\ request[r].step = "starting"
        /\ entry[request[r].previous].state = "running"
        /\ \A q \in Requests : request[q].previous = request[r].previous => q = r

(* A request that bills has locked a draft, picks each row once, and is    *)
(* overtaken by whoever changes or bills the row before it does.           *)
Picked ==
    \A r \in Requests :
        /\ request[r].step = "billing" => request[r].invoice \in Invoices /\ invoice[request[r].invoice] = "draft"
        /\ request[r].step # "billing" => request[r].picked = {}
        /\ \A p, q \in request[r].picked : p.item = q.item => p = q
        /\ \A p \in request[r].picked :
              /\ StateOf(p.item) \in {"logged", "confirmed", "deleted"}
              /\ \/ p.item \in request[r].overtaken
                 \/ LineOf(p.item) = None /\ StateOf(p.item) # "deleted" /\ Worth(p.item) = p.worth

TimeInv ==
    /\ Shape
    /\ References
    /\ OneRunning
    /\ BilledState
    /\ Started
    /\ Picked
    /\ BilledAsLogged

LEMMA TypeOKParts == TypeOK <=> Shape /\ References
BY DEF TypeOK, Shape, References

LEMMA TimeInit == Init => TimeInv
<1> SUFFICES ASSUME Init PROVE TimeInv
  OBVIOUS
<1>1. /\ \A e \in Entries : entry[e] = NoEntry
      /\ \A x \in Expenses : expense[x] = NoExpense
      /\ \A l \in Lines : line[l] = NoLine
      /\ \A r \in Requests : request[r] = Idle
  BY DEF Init
<1>2. Shape
  BY TimeBillingAssumption
  DEF Init, Shape, NoEntry, NoExpense, NoLine, Idle, EntryRows, ExpenseRows, LineRows, InvoiceStatuses,
      RequestRows, RateSources
<1>3. \A w \in Work : LineOf(w) = None
  BY <1>1 DEF LineOf, Work, NoEntry, NoExpense
<1>4. References /\ BilledState /\ BilledAsLogged
  BY <1>1, <1>3, TimeBillingAssumption DEF References, BilledState, BilledAsLogged, NoLine
<1>5. OneRunning /\ Started /\ Picked
  BY <1>1 DEF OneRunning, Started, Picked, NoEntry, Idle
<1> QED BY <1>2, <1>4, <1>5 DEF TimeInv

-----------------------------------------------------------------------------
(* What a row of work is.                                                  *)
LEMMA WorkRows ==
    ASSUME Shape, NEW w \in Work
    PROVE  /\ w \in Entries => w \notin Expenses /\ entry[w] \in EntryRows
           /\ w \notin Entries => w \in Expenses /\ expense[w] \in ExpenseRows
           /\ LineOf(w) \in Lines \cup {None}
           /\ LineOf(w) # None => LineOf(w) \in Lines
BY TimeBillingAssumption DEF Shape, Work, LineOf, EntryRows, ExpenseRows

LEMMA PickItems ==
    ASSUME Shape, NEW r \in Requests, NEW p \in request[r].picked
    PROVE  p \in Picks /\ p.item \in Work /\ p.worth \in Nat \X Nat
BY DEF Shape, RequestRows, Picks

(* A step that leaves lines and invoices alone, and changes or creates no  *)
(* row that is billed, and none that is picked but by overtaking.          *)
LEMMA Corrected ==
    ASSUME TimeInv, Shape', OneRunning', Started', UNCHANGED <<line, invoice>>,
           \A w \in Work :
              \/ LineOf(w)' = LineOf(w) /\ Worth(w)' = Worth(w) /\ StateOf(w)' = StateOf(w)
              \/ /\ LineOf(w) = None /\ LineOf(w)' = None
                 /\ \A r \in Requests : w \in Items(request[r].picked) =>
                       /\ w \in request'[r].overtaken \/ request'[r].picked = {}
                       /\ StateOf(w)' \in {"logged", "confirmed", "deleted"},
           \A r \in Requests :
              \/ request'[r].picked = {} /\ request'[r].step # "billing"
              \/ /\ request'[r].step = request[r].step /\ request'[r].invoice = request[r].invoice
                 /\ request'[r].picked = request[r].picked
                 /\ request[r].overtaken \subseteq request'[r].overtaken
    PROVE  TimeInv'
<1>1. References' /\ BilledState'
  <2>1. \A w \in Work : LineOf(w)' # None => LineOf(w)' = LineOf(w) /\ StateOf(w)' = StateOf(w)
    OBVIOUS
  <2> QED BY <2>1 DEF TimeInv, References, BilledState
<1>2. Picked'
  <2> SUFFICES ASSUME NEW r \in Requests
               PROVE  /\ request'[r].step = "billing" =>
                            request'[r].invoice \in Invoices /\ invoice'[request'[r].invoice] = "draft"
                      /\ request'[r].step # "billing" => request'[r].picked = {}
                      /\ \A p, q \in request'[r].picked : p.item = q.item => p = q
                      /\ \A p \in request'[r].picked :
                            /\ StateOf(p.item)' \in {"logged", "confirmed", "deleted"}
                            /\ \/ p.item \in request'[r].overtaken
                               \/ LineOf(p.item)' = None /\ StateOf(p.item)' # "deleted" /\ Worth(p.item)' = p.worth
    BY Zenon DEF Picked
  <2>1. CASE request'[r].picked = {} /\ request'[r].step # "billing"
    BY <2>1
  <2>2. CASE /\ request'[r].step = request[r].step /\ request'[r].invoice = request[r].invoice
             /\ request'[r].picked = request[r].picked
             /\ request[r].overtaken \subseteq request'[r].overtaken
    <3>1. /\ request'[r].step = "billing" =>
                request'[r].invoice \in Invoices /\ invoice'[request'[r].invoice] = "draft"
          /\ request'[r].step # "billing" => request'[r].picked = {}
          /\ \A p, q \in request'[r].picked : p.item = q.item => p = q
      BY <2>2 DEF TimeInv, Picked
    <3>2. ASSUME NEW p \in request[r].picked
          PROVE  /\ StateOf(p.item)' \in {"logged", "confirmed", "deleted"}
                 /\ \/ p.item \in request'[r].overtaken
                    \/ LineOf(p.item)' = None /\ StateOf(p.item)' # "deleted" /\ Worth(p.item)' = p.worth
      <4>1. p.item \in Work /\ p.item \in Items(request[r].picked)
        BY PickItems DEF TimeInv, Items
      <4>2. /\ StateOf(p.item) \in {"logged", "confirmed", "deleted"}
            /\ \/ p.item \in request[r].overtaken
               \/ LineOf(p.item) = None /\ StateOf(p.item) # "deleted" /\ Worth(p.item) = p.worth
        BY DEF TimeInv, Picked
      <4> QED BY <2>2, <4>1, <4>2
    <3> QED BY <2>2, <3>1, <3>2
  <2> QED BY <2>1, <2>2
<1>3. BilledAsLogged'
  <2>1. \A w \in Work : LineOf(w) # None \/ LineOf(w)' # None => LineOf(w)' = LineOf(w) /\ Worth(w)' = Worth(w)
    OBVIOUS
  <2>2. \A l \in Lines : \A p \in line[l].billed : p.item \in Work /\ l # None
    BY TimeBillingAssumption DEF TimeInv, Shape, LineRows, Picks
  <2> QED BY <2>1, <2>2 DEF TimeInv, BilledAsLogged
<1> QED BY <1>1, <1>2, <1>3 DEF TimeInv

-----------------------------------------------------------------------------
(***************************************************************************)
(* One row is corrected.                                                   *)
(***************************************************************************)
LEMMA EntryCorrected ==
    ASSUME TimeInv, Shape', OneRunning', Started', UNCHANGED <<expense, line, invoice>>,
           NEW e \in Entries,
           entry[e].line = None, entry'[e].line = None,
           \A f \in Entries \ {e} : entry'[f] = entry[f],
           \A r \in Requests : e \in Items(request[r].picked) =>
               /\ e \in request'[r].overtaken
               /\ entry'[e].state \in {"logged", "confirmed", "deleted"},
           \A r \in Requests :
              \/ request'[r].picked = {} /\ request'[r].step # "billing"
              \/ /\ request'[r].step = request[r].step /\ request'[r].invoice = request[r].invoice
                 /\ request'[r].picked = request[r].picked
                 /\ request[r].overtaken \subseteq request'[r].overtaken
    PROVE  TimeInv'
<1>1. ASSUME NEW w \in Work
      PROVE  \/ LineOf(w)' = LineOf(w) /\ Worth(w)' = Worth(w) /\ StateOf(w)' = StateOf(w)
             \/ /\ LineOf(w) = None /\ LineOf(w)' = None
                /\ \A r \in Requests : w \in Items(request[r].picked) =>
                      /\ w \in request'[r].overtaken \/ request'[r].picked = {}
                      /\ StateOf(w)' \in {"logged", "confirmed", "deleted"}
  <2>1. CASE w = e
    BY <2>1 DEF LineOf, StateOf
  <2>2. CASE w # e
    BY <2>2 DEF LineOf, Worth, StateOf
  <2> QED BY <2>1, <2>2
<1> QED BY <1>1, Corrected

LEMMA ExpenseCorrected ==
    ASSUME TimeInv, Shape', OneRunning', Started', UNCHANGED <<entry, line, invoice>>,
           NEW x \in Expenses,
           expense[x].line = None, expense'[x].line = None,
           \A y \in Expenses \ {x} : expense'[y] = expense[y],
           \A r \in Requests : x \in Items(request[r].picked) =>
               /\ \/ x \in request'[r].overtaken
                  \/ expense'[x] = expense[x]
               /\ expense'[x].state \in {"logged", "confirmed", "deleted"},
           \A r \in Requests :
              \/ request'[r].picked = {} /\ request'[r].step # "billing"
              \/ /\ request'[r].step = request[r].step /\ request'[r].invoice = request[r].invoice
                 /\ request'[r].picked = request[r].picked
                 /\ request[r].overtaken \subseteq request'[r].overtaken
    PROVE  TimeInv'
<1>0. x \notin Entries /\ x \in Work
  BY TimeBillingAssumption DEF Work
<1>1. ASSUME NEW w \in Work
      PROVE  \/ LineOf(w)' = LineOf(w) /\ Worth(w)' = Worth(w) /\ StateOf(w)' = StateOf(w)
             \/ /\ LineOf(w) = None /\ LineOf(w)' = None
                /\ \A r \in Requests : w \in Items(request[r].picked) =>
                      /\ w \in request'[r].overtaken \/ request'[r].picked = {}
                      /\ StateOf(w)' \in {"logged", "confirmed", "deleted"}
  <2>1. CASE w # x \/ expense'[x] = expense[x]
    <3>1. w \in Entries \/ w \in Expenses
      BY DEF Work
    <3> QED BY <2>1, <3>1, <1>0 DEF LineOf, Worth, StateOf
  <2>2. CASE w = x /\ expense'[x] # expense[x]
    BY <2>2, <1>0 DEF LineOf, StateOf
  <2> QED BY <2>1, <2>2
<1> QED BY <1>1, Corrected

(* A row that is not picked: it is absent, running, or a draft.            *)
LEMMA NotPicked ==
    ASSUME TimeInv, NEW w \in Work, StateOf(w) \notin {"logged", "confirmed", "deleted"}
    PROVE  /\ \A r \in Requests : w \notin Items(request[r].picked)
           /\ LineOf(w) = None
BY DEF TimeInv, BilledState, Picked, Items

LEMMA ResolvedRate ==
    ASSUME Shape
    PROVE  ResolveRates \in Rates \cup {None}
BY DEF Shape, ResolveRates, RateSources

LEMMA Overtaken ==
    ASSUME Shape, NEW w \in Work, Overtakes(w)
    PROVE  /\ DOMAIN request' = Requests /\ \A r \in Requests : request'[r] \in RequestRows
           /\ \A r \in Requests :
                 /\ request'[r].step = request[r].step /\ request'[r].invoice = request[r].invoice
                 /\ request'[r].picked = request[r].picked
                 /\ request'[r].previous = request[r].previous
                 /\ request[r].overtaken \subseteq request'[r].overtaken
                 /\ w \in Items(request[r].picked) => w \in request'[r].overtaken
<1>1. DOMAIN request' = Requests
  BY DEF Overtakes
<1>2. ASSUME NEW r \in Requests
      PROVE  /\ request'[r] \in RequestRows
             /\ request'[r].step = request[r].step /\ request'[r].invoice = request[r].invoice
             /\ request'[r].picked = request[r].picked
             /\ request'[r].previous = request[r].previous
             /\ request[r].overtaken \subseteq request'[r].overtaken
             /\ w \in Items(request[r].picked) => w \in request'[r].overtaken
  <2>1. request[r] \in RequestRows
    BY DEF Shape
  <2>2. CASE w \in Items(request[r].picked)
    <3>1. request'[r] = [request[r] EXCEPT !.overtaken = @ \cup {w}]
      BY <2>2 DEF Overtakes
    <3> QED BY <2>1, <3>1 DEF RequestRows
  <2>3. CASE w \notin Items(request[r].picked)
    <3>1. request'[r] = request[r]
      BY <2>3 DEF Overtakes
    <3> QED BY <2>1, <2>3, <3>1
  <2> QED BY <2>2, <2>3
<1> QED BY <1>1, <1>2

(* Whoever is starting a timer keeps the row it locked.                    *)
LEMMA StartedKept ==
    ASSUME TimeInv,
           \A r \in Requests : request'[r].previous # None =>
              /\ request'[r].previous = request[r].previous /\ request'[r].step = request[r].step,
           \A r \in Requests : request'[r].previous # None => entry'[request[r].previous].state = "running"
    PROVE  Started'
BY DEF TimeInv, Started

-----------------------------------------------------------------------------
(* Time.                                                                   *)
LEMMA CreateStep ==
    ASSUME TimeInv, NEW e \in Entries, NEW u \in Users, NEW p \in Projects, NEW h \in Hours,
           TimeEntryCreate(e, u, p, h)
    PROVE  TimeInv'
<1>1. /\ entry' = [entry EXCEPT ![e] = [state |-> "logged", user |-> u, project |-> p, hours |-> h,
                                        rate |-> ResolveRates, line |-> None]]
      /\ entry[e].state = "absent"
      /\ UNCHANGED <<expense, line, invoice, archived, rate, request, edits>>
  BY DEF TimeEntryCreate
<1>2. Shape
  BY DEF TimeInv
<1>3. Shape'
  BY <1>1, <1>2, ResolvedRate DEF Shape, EntryRows
<1>4. /\ entry'[e].state = "logged" /\ entry'[e].line = None
      /\ \A f \in Entries \ {e} : entry'[f] = entry[f]
  BY <1>1, <1>2 DEF Shape
<1>5. OneRunning'
  BY <1>4 DEF TimeInv, OneRunning
<1>6. Started'
  BY <1>1, <1>2, <1>4, StartedKept DEF TimeInv, Started, Shape, RequestRows
<1>7. entry[e].line = None /\ \A r \in Requests : e \notin Items(request[r].picked)
  BY <1>1, NotPicked DEF Work, StateOf, LineOf
<1> QED BY <1>1, <1>3, <1>4, <1>5, <1>6, <1>7, EntryCorrected

(* Who corrects a row finds it unbilled, and not locked by another timer.  *)
LEMMA UpdateStep ==
    ASSUME TimeInv, NEW e \in Entries, NEW p \in Projects, NEW h \in Hours \cup {0},
           TimeEntryUpdate(e, p, h)
    PROVE  TimeInv'
<1>1. /\ entry' = [entry EXCEPT ![e].project = p, ![e].hours = h,
                              ![e].rate = IF p = entry[e].project THEN @ ELSE ResolveRates]
      /\ entry[e].state \in {"running", "logged"} /\ entry[e].line = None /\ NotHeld(e)
      /\ Overtakes(e) /\ Edited
      /\ UNCHANGED <<expense, line, invoice, archived, rate>>
  BY DEF TimeEntryUpdate, Changeable, LineOf
<1>2. Shape /\ entry[e] \in EntryRows
  BY DEF TimeInv, Shape
<1>3. /\ entry'[e] \in EntryRows /\ entry'[e].state = entry[e].state /\ entry'[e].line = None
      /\ entry'[e].user = entry[e].user
      /\ \A f \in Entries \ {e} : entry'[f] = entry[f]
      /\ DOMAIN entry' = Entries
  <2> DEFINE v == IF p = entry[e].project THEN entry[e].rate ELSE ResolveRates
  <2>1. v \in Rates \cup {None}
    BY <1>2, ResolvedRate DEF EntryRows
  <2>2. entry' = [entry EXCEPT ![e] = [entry[e] EXCEPT !.project = p, !.hours = h, !.rate = v]]
    BY <1>1, <1>2 DEF Shape, EntryRows
  <2> HIDE DEF v
  <2>3. /\ entry'[e] = [entry[e] EXCEPT !.project = p, !.hours = h, !.rate = v]
        /\ \A f \in Entries \ {e} : entry'[f] = entry[f]
        /\ DOMAIN entry' = Entries
    BY <1>2, <2>2 DEF Shape
  <2> QED BY <1>1, <1>2, <2>1, <2>3, ZenonT(40) DEF EntryRows
<1>4. /\ DOMAIN request' = Requests /\ \A r \in Requests : request'[r] \in RequestRows
      /\ \A r \in Requests :
            /\ request'[r].step = request[r].step /\ request'[r].invoice = request[r].invoice
            /\ request'[r].picked = request[r].picked
            /\ request'[r].previous = request[r].previous
            /\ request[r].overtaken \subseteq request'[r].overtaken
            /\ e \in Items(request[r].picked) => e \in request'[r].overtaken
  BY <1>1, <1>2, Overtaken DEF Work
<1>5. Shape'
  <2>1. entry' \in [Entries -> EntryRows]
    BY <1>1, <1>2, <1>3 DEF Shape
  <2>2. edits' \in 0..MaxEdits
    BY <1>1, <1>2, TimeBillingAssumption DEF Shape, Edited
  <2> QED BY <1>1, <1>2, <1>4, <2>1, <2>2 DEF Shape
<1>6. OneRunning'
  BY <1>3 DEF TimeInv, OneRunning
<1>7. Started'
  BY <1>1, <1>3, <1>4, StartedKept DEF TimeInv, Started, Shape, RequestRows
<1>8. \A r \in Requests : e \in Items(request[r].picked) => entry'[e].state \in {"logged", "confirmed", "deleted"}
  <2>1. entry[e].state = "running" => \A r \in Requests : e \notin Items(request[r].picked)
    BY NotPicked DEF Work, StateOf
  <2> QED BY <1>1, <1>3, <2>1
<1> QED BY <1>1, <1>3, <1>4, <1>5, <1>6, <1>7, <1>8, EntryCorrected

LEMMA DeleteStep ==
    ASSUME TimeInv, NEW e \in Entries, TimeEntryDelete(e)
    PROVE  TimeInv'
<1>1. /\ entry' = [entry EXCEPT ![e] = [NoEntry EXCEPT !.state = "deleted"]]
      /\ entry[e].line = None /\ NotHeld(e)
      /\ Overtakes(e) /\ Edited
      /\ UNCHANGED <<expense, line, invoice, archived, rate>>
  BY DEF TimeEntryDelete, Changeable, LineOf
<1>2. Shape
  BY DEF TimeInv
<1>3. /\ entry'[e] \in EntryRows /\ entry'[e].state = "deleted" /\ entry'[e].line = None
      /\ \A f \in Entries \ {e} : entry'[f] = entry[f]
      /\ DOMAIN entry' = Entries
  BY <1>1, <1>2 DEF Shape, EntryRows, NoEntry
<1>4. /\ DOMAIN request' = Requests /\ \A r \in Requests : request'[r] \in RequestRows
      /\ \A r \in Requests :
            /\ request'[r].step = request[r].step /\ request'[r].invoice = request[r].invoice
            /\ request'[r].picked = request[r].picked
            /\ request'[r].previous = request[r].previous
            /\ request[r].overtaken \subseteq request'[r].overtaken
            /\ e \in Items(request[r].picked) => e \in request'[r].overtaken
  BY <1>1, <1>2, Overtaken DEF Work
<1>5. Shape'
  <2>1. entry' \in [Entries -> EntryRows]
    BY <1>1, <1>2, <1>3 DEF Shape
  <2>2. edits' \in 0..MaxEdits
    BY <1>1, <1>2, TimeBillingAssumption DEF Shape, Edited
  <2> QED BY <1>1, <1>2, <1>4, <2>1, <2>2 DEF Shape
<1>6. OneRunning'
  BY <1>3 DEF TimeInv, OneRunning
<1>7. Started'
  <2>1. \A r \in Requests : request[r].previous # e
    BY <1>1 DEF NotHeld
  <2> QED BY <1>2, <1>3, <1>4, <2>1, StartedKept DEF TimeInv, Started, Shape, RequestRows
<1> QED BY <1>1, <1>3, <1>4, <1>5, <1>6, <1>7, EntryCorrected

LEMMA StopStep ==
    ASSUME TimeInv, NEW e \in Entries, NEW h \in Hours, TimerStop(e, h)
    PROVE  TimeInv'
<1>1. /\ entry' = [entry EXCEPT ![e].state = "logged", ![e].hours = h]
      /\ entry[e].state = "running" /\ entry[e].line = None /\ NotHeld(e)
      /\ UNCHANGED <<expense, line, invoice, archived, rate, request, edits>>
  BY DEF TimerStop, Changeable, LineOf, Stopped
<1>2. Shape /\ entry[e] \in EntryRows
  BY DEF TimeInv, Shape
<1>3. /\ entry'[e] \in EntryRows /\ entry'[e].state = "logged" /\ entry'[e].line = None
      /\ \A f \in Entries \ {e} : entry'[f] = entry[f]
  BY <1>1, <1>2 DEF Shape, EntryRows
<1>4. Shape'
  <2>1. entry' \in [Entries -> EntryRows]
    BY <1>1, <1>2, <1>3 DEF Shape
  <2> QED BY <1>1, <1>2, <2>1 DEF Shape
<1>5. OneRunning'
  BY <1>3 DEF TimeInv, OneRunning
<1>6. Started'
  <2>1. \A r \in Requests : request[r].previous # e
    BY <1>1 DEF NotHeld
  <2> QED BY <1>1, <1>2, <1>3, <2>1, StartedKept DEF TimeInv, Started, Shape, RequestRows
<1>7. \A r \in Requests : e \notin Items(request[r].picked)
  BY <1>1, NotPicked DEF Work, StateOf
<1> QED BY <1>1, <1>3, <1>4, <1>5, <1>6, <1>7, EntryCorrected

(* Nothing is logged, billed or selected.                                  *)
LEMMA StartReadStep ==
    ASSUME TimeInv, NEW r \in Requests, NEW u \in Users, NEW p \in Projects,
           TimerStartRead(r, u, p)
    PROVE  TimeInv'
<1>1. Shape /\ request[r].step = "idle" /\ UNCHANGED <<entry, expense, line, invoice, archived, rate, edits>>
  BY DEF TimerStartRead, TimeInv
<1>2. PICK previous \in IF Running(u) = {} THEN {None} ELSE {e \in Running(u) : NotHeld(e)} :
        request' = [request EXCEPT ![r] = [Idle EXCEPT !.step = "starting", !.user = u, !.project = p,
                                                       !.previous = previous]]
  BY DEF TimerStartRead
<1>3. \/ previous = None
      \/ previous \in Entries /\ entry[previous].state = "running" /\ NotHeld(previous)
  BY <1>2 DEF Running
<1>4. /\ DOMAIN request' = Requests
      /\ request'[r].step = "starting" /\ request'[r].picked = {} /\ request'[r].previous = previous
      /\ request'[r] \in RequestRows
      /\ \A q \in Requests \ {r} : request'[q] = request[q]
  BY <1>1, <1>2, <1>3 DEF Shape, Idle, RequestRows
<1>5. Shape'
  BY <1>1, <1>4 DEF Shape
<1>6. OneRunning'
  BY <1>1 DEF TimeInv, OneRunning
<1>7. Started'
  BY <1>1, <1>3, <1>4 DEF TimeInv, Started, NotHeld
<1>8. \A w \in Work : LineOf(w)' = LineOf(w) /\ Worth(w)' = Worth(w) /\ StateOf(w)' = StateOf(w)
  BY <1>1 DEF LineOf, Worth, StateOf
<1>9. \A q \in Requests :
         \/ request'[q].picked = {} /\ request'[q].step # "billing"
         \/ /\ request'[q].step = request[q].step /\ request'[q].invoice = request[q].invoice
            /\ request'[q].picked = request[q].picked
            /\ request[q].overtaken \subseteq request'[q].overtaken
  BY <1>4
<1> QED BY <1>1, <1>5, <1>6, <1>7, <1>8, <1>9, Corrected

LEMMA StartWriteStep ==
    ASSUME TimeInv, NEW r \in Requests, NEW e \in Entries, NEW h \in Hours,
           TimerStartWrite(r, e, h)
    PROVE  TimeInv'
<1> DEFINE u == request[r].user
           b == request[r].previous
<1>1. /\ Shape /\ request[r].step = "starting" /\ entry[e].state = "absent"
      /\ Running(u) \subseteq {b}
      /\ UNCHANGED <<expense, line, invoice, archived, rate, edits>>
      /\ request' = [request EXCEPT ![r] = Idle]
  BY DEF TimerStartWrite, OneTimerKey, TimeInv
<1>2. entry' = [(IF b = None THEN entry ELSE [entry EXCEPT ![b].state = "logged", ![b].hours = h]) EXCEPT
                    ![e] = [NoEntry EXCEPT !.state = "running", !.user = u, !.project = request[r].project,
                                           !.rate = ResolveRates]]
  BY DEF TimerStartWrite, Stopped
<1>3. /\ request[r] \in RequestRows
      /\ b # None => b \in Entries /\ entry[b].state = "running" /\ b # e
  BY <1>1 DEF TimeInv, Started, Shape, RequestRows
<1>4. /\ DOMAIN entry' = Entries
      /\ entry'[e] \in EntryRows /\ entry'[e].state = "running" /\ entry'[e].user = u /\ entry'[e].line = None
      /\ \A f \in Entries \ {e, b} : entry'[f] = entry[f]
  BY <1>1, <1>2, <1>3, ResolvedRate DEF Shape, EntryRows, NoEntry, RequestRows
<1>5. ASSUME b # None
      PROVE  /\ entry'[b] \in EntryRows /\ entry'[b].state = "logged" /\ entry'[b].line = entry[b].line
  <2>1. entry'[b] = [entry[b] EXCEPT !.state = "logged", !.hours = h]
    BY <1>1, <1>2, <1>3, <1>5 DEF Shape
  <2> QED BY <1>1, <1>3, <1>5, <2>1, ZenonT(40) DEF Shape, EntryRows
<1>6. /\ DOMAIN request' = Requests
      /\ request'[r] = Idle
      /\ \A q \in Requests \ {r} : request'[q] = request[q]
  BY <1>1 DEF Shape
<1>7. Shape'
  <2>1. entry' \in [Entries -> EntryRows]
    <3>1. ASSUME NEW f \in Entries PROVE entry'[f] \in EntryRows
      <4>1. CASE f \notin {e, b}
        <5>1. entry'[f] = entry[f] /\ entry[f] \in EntryRows
          BY <1>1, <1>4, <4>1 DEF Shape
        <5> QED BY <5>1
      <4>2. CASE f = b
        <5>1. b # None
          BY <4>2, TimeBillingAssumption
        <5> QED BY <1>5, <4>2, <5>1
      <4> QED BY <1>4, <4>1, <4>2
    <3>2. entry' = [f \in Entries |-> entry'[f]]
      BY <1>1, <1>2 DEF Shape
    <3> QED BY <3>1, <3>2
  <2>2. Idle \in RequestRows
    BY DEF Idle, RequestRows
  <2> QED BY <1>1, <1>6, <2>1, <2>2 DEF Shape
<1> HIDE DEF b, u
<1>8. OneRunning'
  <2> SUFFICES ASSUME NEW e1 \in Entries, NEW e2 \in Entries,
                      entry'[e1].state = "running", entry'[e2].state = "running",
                      entry'[e1].user = entry'[e2].user
               PROVE  e1 = e2
    BY DEF OneRunning
  <2>1. e1 # b /\ e2 # b
    BY <1>3, <1>5, TimeBillingAssumption
  <2>2. CASE e1 # e /\ e2 # e
    BY <1>4, <2>1, <2>2 DEF TimeInv, OneRunning
  <2>3. ASSUME NEW f \in Entries \ {e, b}, entry'[f].state = "running"
        PROVE  entry'[f].user # u
    <3>1. entry[f].state = "running" /\ entry'[f].user = entry[f].user
      BY <1>4, <2>3
    <3> QED BY <1>1, <3>1 DEF Running
  <2> QED BY <1>4, <2>1, <2>2, <2>3
<1>9. Started'
  <2>1. ASSUME NEW q \in Requests, request'[q].previous # None
        PROVE  /\ q # r /\ request[q].previous \notin {e, b}
               /\ entry[request[q].previous].state = "running" /\ request[q].previous \in Entries
    <3>1. q # r /\ request'[q] = request[q]
      BY <1>6, <2>1 DEF Idle
    <3>2. /\ entry[request[q].previous].state = "running"
          /\ \A o \in Requests : request[o].previous = request[q].previous => o = q
          /\ request[q].previous \in Entries
      BY <2>1, <3>1, <1>1 DEF TimeInv, Started, Shape, RequestRows
    <3> QED BY <1>1, <3>1, <3>2 DEF b
  <2> QED BY <1>4, <1>6, <2>1, StartedKept
<1>10. ASSUME NEW w \in Work
       PROVE  \/ LineOf(w)' = LineOf(w) /\ Worth(w)' = Worth(w) /\ StateOf(w)' = StateOf(w)
              \/ /\ LineOf(w) = None /\ LineOf(w)' = None
                 /\ \A q \in Requests : w \notin Items(request[q].picked)
  <2>1. CASE w \notin {e, b} \/ w \notin Entries
    BY <1>1, <1>4, <2>1 DEF LineOf, Worth, StateOf
  <2>2. CASE w \in {e, b} /\ w \in Entries
    <3>1. StateOf(w) \notin {"logged", "confirmed", "deleted"}
      <4>1. b = None \/ b # None
        OBVIOUS
      <4> QED BY <1>1, <1>3, <2>2, <4>1, TimeBillingAssumption DEF StateOf
    <3>2. LineOf(w) = None /\ \A q \in Requests : w \notin Items(request[q].picked)
      BY <3>1, NotPicked
    <3>3. LineOf(w)' = None
      <4>1. w = b => b # None
        BY <2>2, TimeBillingAssumption
      <4> QED BY <1>4, <1>5, <2>2, <3>2, <4>1 DEF LineOf
    <3> QED BY <3>2, <3>3
  <2> QED BY <2>1, <2>2
<1>11. \A q \in Requests :
         \/ request'[q].picked = {} /\ request'[q].step # "billing"
         \/ /\ request'[q].step = request[q].step /\ request'[q].invoice = request[q].invoice
            /\ request'[q].picked = request[q].picked
            /\ request[q].overtaken \subseteq request'[q].overtaken
  BY <1>6 DEF Idle
<1> QED BY <1>1, <1>7, <1>8, <1>9, <1>10, <1>11, Corrected

-----------------------------------------------------------------------------
(* Expenses.                                                               *)
LEMMA ExpenseStep ==
    ASSUME TimeInv, NEW x \in Expenses,
           \/ \E s \in {"draft", "confirmed"}, a \in Hours : ExpenseCreate(x, s, a)
           \/ ExpenseConfirm(x)
    PROVE  TimeInv'
<1>1. /\ UNCHANGED <<entry, line, invoice, archived, rate, request, edits>>
      /\ expense[x].state \in {"absent", "draft"}
  BY DEF ExpenseCreate, ExpenseConfirm
<1>2. Shape /\ x \in Work /\ x \notin Entries /\ expense[x] \in ExpenseRows
  BY TimeBillingAssumption DEF TimeInv, Shape, Work
<1>3. expense[x].line = None /\ \A r \in Requests : x \notin Items(request[r].picked)
  BY <1>1, <1>2, NotPicked DEF StateOf, LineOf
<1>4. /\ DOMAIN expense' = Expenses /\ expense'[x] \in ExpenseRows /\ expense'[x].line = None
      /\ \A y \in Expenses \ {x} : expense'[y] = expense[y]
      /\ expense' = [y \in Expenses |-> expense'[y]]
  <2>1. CASE ExpenseConfirm(x)
    <3>1. expense' = [expense EXCEPT ![x].state = "confirmed"]
      BY <2>1 DEF ExpenseConfirm
    <3> QED BY <1>2, <1>3, <3>1 DEF Shape, ExpenseRows
  <2>2. CASE \E s \in {"draft", "confirmed"}, a \in Hours : ExpenseCreate(x, s, a)
    <3>1. PICK s \in {"draft", "confirmed"}, a \in Hours :
              expense' = [expense EXCEPT ![x] = [state |-> s, amount |-> a, line |-> None]]
      BY <2>2 DEF ExpenseCreate
    <3> QED BY <1>2, <3>1 DEF Shape, ExpenseRows
  <2> QED BY <2>1, <2>2
<1>5. Shape'
  <2>1. expense' \in [Expenses -> ExpenseRows]
    BY <1>2, <1>4 DEF Shape
  <2> QED BY <1>1, <1>2, <2>1 DEF Shape
<1>6. OneRunning' /\ Started'
  BY <1>1 DEF TimeInv, OneRunning, Started
<1>7. \A r \in Requests :
         \/ request'[r].picked = {} /\ request'[r].step # "billing"
         \/ /\ request'[r].step = request[r].step /\ request'[r].invoice = request[r].invoice
            /\ request'[r].picked = request[r].picked
            /\ request[r].overtaken \subseteq request'[r].overtaken
  BY <1>1
<1> QED BY <1>1, <1>3, <1>4, <1>5, <1>6, <1>7, ExpenseCorrected

LEMMA ExpenseEditStep ==
    ASSUME TimeInv, NEW x \in Expenses,
           ExpenseDelete(x) \/ \E a \in Hours : ExpenseUpdate(x, a)
    PROVE  TimeInv'
<1>1. /\ UNCHANGED <<entry, line, invoice, archived, rate>>
      /\ expense[x].state \in {"draft", "confirmed"} /\ Changeable(x)
      /\ Overtakes(x) /\ Edited
  BY DEF ExpenseDelete, ExpenseUpdate
<1>2. Shape /\ x \in Work /\ x \notin Entries /\ expense[x] \in ExpenseRows
  BY TimeBillingAssumption DEF TimeInv, Shape, Work
<1>3. expense[x].line = None
  BY <1>1, <1>2 DEF Changeable, LineOf
<1>4. /\ DOMAIN expense' = Expenses /\ expense'[x] \in ExpenseRows /\ expense'[x].line = None
      /\ expense'[x].state \in {"deleted", expense[x].state}
      /\ \A y \in Expenses \ {x} : expense'[y] = expense[y]
      /\ expense' = [y \in Expenses |-> expense'[y]]
  <2>1. CASE ExpenseDelete(x)
    BY <1>2, <2>1 DEF ExpenseDelete, Shape, ExpenseRows, NoExpense
  <2>2. ASSUME NEW a \in Hours, ExpenseUpdate(x, a)
        PROVE  /\ DOMAIN expense' = Expenses /\ expense'[x] \in ExpenseRows /\ expense'[x].line = None
               /\ expense'[x].state \in {"deleted", expense[x].state}
               /\ \A y \in Expenses \ {x} : expense'[y] = expense[y]
               /\ expense' = [y \in Expenses |-> expense'[y]]
    <3>1. expense' = [expense EXCEPT ![x].amount = a]
      BY <2>2 DEF ExpenseUpdate
    <3> QED BY <1>2, <1>3, <3>1 DEF Shape, ExpenseRows
  <2> QED BY <2>1, <2>2
<1>5. /\ DOMAIN request' = Requests /\ \A r \in Requests : request'[r] \in RequestRows
      /\ \A r \in Requests :
            /\ request'[r].step = request[r].step /\ request'[r].invoice = request[r].invoice
            /\ request'[r].picked = request[r].picked
            /\ request'[r].previous = request[r].previous
            /\ request[r].overtaken \subseteq request'[r].overtaken
            /\ x \in Items(request[r].picked) => x \in request'[r].overtaken
  BY <1>1, <1>2, Overtaken
<1>6. Shape'
  <2>1. expense' \in [Expenses -> ExpenseRows]
    BY <1>2, <1>4 DEF Shape
  <2>2. edits' \in 0..MaxEdits
    BY <1>1, <1>2, TimeBillingAssumption DEF Shape, Edited
  <2> QED BY <1>1, <1>2, <1>5, <2>1, <2>2 DEF Shape
<1>7. OneRunning'
  BY <1>1 DEF TimeInv, OneRunning
<1>8. Started'
  BY <1>1, <1>5, StartedKept DEF TimeInv, Started
<1>9. \A r \in Requests : x \in Items(request[r].picked) => expense'[x].state \in {"logged", "confirmed", "deleted"}
  <2>1. expense[x].state = "draft" => \A r \in Requests : x \notin Items(request[r].picked)
    BY <1>2, NotPicked DEF StateOf
  <2> QED BY <1>1, <1>4, <2>1
<1> QED BY <1>1, <1>3, <1>4, <1>5, <1>6, <1>7, <1>8, <1>9, ExpenseCorrected

-----------------------------------------------------------------------------
(***************************************************************************)
(* Invoices.                                                               *)
(***************************************************************************)
(* A draft is created or issued, an invoice cancelled: no request has it.  *)
LEMMA InvoiceStep ==
    ASSUME TimeInv, NEW i \in Invoices, InvoiceCreate(i) \/ InvoiceSend(i) \/ InvoiceCancel(i)
    PROVE  TimeInv'
<1>1. /\ UNCHANGED <<entry, expense, line, archived, rate, request, edits>>
      /\ \E s \in {"draft", "issued", "cancelled"} : invoice' = [invoice EXCEPT ![i] = s]
      /\ Free(i) \/ invoice[i] # "draft"
  BY DEF InvoiceCreate, InvoiceSend, InvoiceCancel
<1>2. Shape
  BY DEF TimeInv
<1>3. /\ invoice' \in [Invoices -> InvoiceStatuses] /\ invoice'[i] # "absent"
      /\ \A j \in Invoices \ {i} : invoice'[j] = invoice[j]
  BY <1>1, <1>2 DEF Shape, InvoiceStatuses
<1>4. Shape'
  BY <1>1, <1>2, <1>3 DEF Shape
<1>5. \A w \in Work : LineOf(w)' = LineOf(w) /\ Worth(w)' = Worth(w) /\ StateOf(w)' = StateOf(w)
  BY <1>1 DEF LineOf, Worth, StateOf
<1>6. References'
  <2>1. \A l \in Lines : line[l].invoice \in Invoices \cup {None}
    BY <1>2 DEF Shape, LineRows
  <2> QED BY <1>1, <1>3, <1>5, <2>1 DEF TimeInv, References
<1>7. OneRunning' /\ BilledState' /\ Started' /\ BilledAsLogged'
  BY <1>1, <1>5, PickItems DEF TimeInv, OneRunning, BilledState, Started, BilledAsLogged, Shape, LineRows, Picks
<1>8. Picked'
  <2>1. \A r \in Requests : request[r].step = "billing" => request[r].invoice # i
    BY <1>1 DEF Free, TimeInv, Picked
  <2>2. \A r \in Requests : \A p \in request[r].picked : p.item \in Work
    BY <1>2, PickItems
  <2> QED BY <1>1, <1>3, <1>5, <2>1, <2>2 DEF TimeInv, Picked
<1> QED BY <1>4, <1>6, <1>7, <1>8 DEF TimeInv

LEMMA BillReadStep ==
    ASSUME TimeInv, NEW r \in Requests, NEW i \in Invoices, NEW asked \in SUBSET Work,
           BillRead(r, i, asked)
    PROVE  TimeInv'
<1> DEFINE picks == {[item |-> w, worth |-> Worth(w)] : w \in {v \in asked : Unbilled(v)}}
<1>1. /\ Shape /\ invoice[i] = "draft"
      /\ request' = [request EXCEPT ![r] = [Idle EXCEPT !.step = "billing", !.invoice = i, !.picked = picks]]
      /\ UNCHANGED <<entry, expense, line, invoice, archived, rate, edits>>
  BY DEF BillRead, TimeInv
<1>2. ASSUME NEW w \in asked, Unbilled(w)
      PROVE  Worth(w) \in Nat \X Nat /\ LineOf(w) = None /\ StateOf(w) \in {"logged", "confirmed"}
  BY <1>1, <1>2, WorkRows, TimeBillingAssumption
  DEF Unbilled, Worth, LineOf, StateOf, EntryRows, ExpenseRows
<1>3. /\ \A p \in picks : /\ p \in Picks /\ LineOf(p.item) = None
                          /\ StateOf(p.item) \in {"logged", "confirmed"} /\ Worth(p.item) = p.worth
      /\ \A p, q \in picks : p.item = q.item => p = q
  BY <1>2 DEF Picks
<1> HIDE DEF picks
<1>4. /\ DOMAIN request' = Requests /\ request'[r] \in RequestRows
      /\ request'[r].step = "billing" /\ request'[r].invoice = i /\ request'[r].picked = picks
      /\ request'[r].previous = None
      /\ \A q \in Requests \ {r} : request'[q] = request[q]
  BY <1>1, <1>3 DEF Shape, RequestRows, Idle
<1>5. Shape'
  BY <1>1, <1>4 DEF Shape
<1>6. \A w \in Work : LineOf(w)' = LineOf(w) /\ Worth(w)' = Worth(w) /\ StateOf(w)' = StateOf(w)
  BY <1>1 DEF LineOf, Worth, StateOf
<1>7. References' /\ OneRunning' /\ BilledState'
  BY <1>1, <1>6 DEF TimeInv, References, OneRunning, BilledState
<1>8. BilledAsLogged'
  <2>1. \A l \in Lines : \A p \in line[l].billed : p.item \in Work
    BY <1>1 DEF Shape, LineRows, Picks
  <2> QED BY <1>1, <1>6, <2>1 DEF TimeInv, BilledAsLogged
<1>9. Started'
  BY <1>1, <1>4 DEF TimeInv, Started
<1>10. Picked'
  <2> SUFFICES ASSUME NEW q \in Requests
               PROVE  /\ request'[q].step = "billing" =>
                            request'[q].invoice \in Invoices /\ invoice'[request'[q].invoice] = "draft"
                      /\ request'[q].step # "billing" => request'[q].picked = {}
                      /\ \A p, o \in request'[q].picked : p.item = o.item => p = o
                      /\ \A p \in request'[q].picked :
                            /\ StateOf(p.item)' \in {"logged", "confirmed", "deleted"}
                            /\ \/ p.item \in request'[q].overtaken
                               \/ LineOf(p.item)' = None /\ StateOf(p.item)' # "deleted" /\ Worth(p.item)' = p.worth
    BY Zenon DEF Picked
  <2>1. \A p \in request'[q].picked : p.item \in Work
    BY <1>3, <1>4, <1>1, PickItems DEF Picks
  <2>2. CASE q = r
    BY <1>1, <1>3, <1>4, <1>6, <2>1, <2>2
  <2>3. CASE q # r
    BY <1>1, <1>4, <1>6, <2>1, <2>3 DEF TimeInv, Picked
  <2> QED BY <2>2, <2>3
<1> QED BY <1>5, <1>7, <1>8, <1>9, <1>10 DEF TimeInv

(* What is taken off a draft is released, and nothing else is.             *)
LEMMA LinesRemoved ==
    ASSUME TimeInv, NEW ls \in SUBSET Lines, RemoveLines(ls), Edited,
           UNCHANGED <<archived, rate, request>>,
           invoice' \in [Invoices -> InvoiceStatuses],
           \A j \in Invoices : invoice'[j] = invoice[j] \/ (Free(j) /\ {l \in Lines : line[l].invoice = j} \subseteq ls)
    PROVE  TimeInv'
<1>1. Shape
  BY DEF TimeInv
<1>2. /\ entry' = [e \in Entries |-> Released(entry[e], ls)]
      /\ expense' = [x \in Expenses |-> Released(expense[x], ls)]
      /\ line' = [l \in Lines |-> IF l \in ls THEN NoLine ELSE line[l]]
  BY DEF RemoveLines
<1>3. /\ \A e \in Entries : /\ entry'[e] \in EntryRows /\ entry'[e].state = entry[e].state
                            /\ entry'[e].user = entry[e].user /\ entry'[e].hours = entry[e].hours
                            /\ entry'[e].rate = entry[e].rate
                            /\ entry'[e].line = IF entry[e].line \in ls THEN None ELSE entry[e].line
      /\ \A x \in Expenses : /\ expense'[x] \in ExpenseRows /\ expense'[x].state = expense[x].state
                             /\ expense'[x].amount = expense[x].amount
                             /\ expense'[x].line = IF expense[x].line \in ls THEN None ELSE expense[x].line
  <2>1. ASSUME NEW e \in Entries
        PROVE  /\ entry'[e] \in EntryRows /\ entry'[e].state = entry[e].state
               /\ entry'[e].user = entry[e].user /\ entry'[e].hours = entry[e].hours
               /\ entry'[e].rate = entry[e].rate
               /\ entry'[e].line = IF entry[e].line \in ls THEN None ELSE entry[e].line
    <3>1. entry[e] \in EntryRows
      BY <1>1 DEF Shape
    <3>2. entry'[e] = IF entry[e].line \in ls THEN [entry[e] EXCEPT !.line = None] ELSE entry[e]
      BY <1>2 DEF Released
    <3> QED BY <3>1, <3>2 DEF EntryRows
  <2>2. ASSUME NEW x \in Expenses
        PROVE  /\ expense'[x] \in ExpenseRows /\ expense'[x].state = expense[x].state
               /\ expense'[x].amount = expense[x].amount
               /\ expense'[x].line = IF expense[x].line \in ls THEN None ELSE expense[x].line
    <3>1. expense[x] \in ExpenseRows
      BY <1>1 DEF Shape
    <3>2. expense'[x] = IF expense[x].line \in ls THEN [expense[x] EXCEPT !.line = None] ELSE expense[x]
      BY <1>2 DEF Released
    <3> QED BY <3>1, <3>2 DEF ExpenseRows
  <2> QED BY <2>1, <2>2
<1>4. ASSUME NEW w \in Work
      PROVE  /\ Worth(w)' = Worth(w) /\ StateOf(w)' = StateOf(w)
             /\ LineOf(w)' = IF LineOf(w) \in ls THEN None ELSE LineOf(w)
  BY <1>3 DEF LineOf, Worth, StateOf, Work
<1>5. Shape'
  <2>1. \A l \in Lines : line'[l] \in LineRows
    BY <1>1, <1>2 DEF Shape, LineRows, NoLine
  <2>2. entry' \in [Entries -> EntryRows] /\ expense' \in [Expenses -> ExpenseRows] /\ DOMAIN line' = Lines
    BY <1>2, <1>3
  <2>3. edits' \in 0..MaxEdits
    BY <1>1, TimeBillingAssumption DEF Shape, Edited
  <2> QED BY <1>1, <2>1, <2>2, <2>3 DEF Shape
<1>6. References'
  <2>1. \A w \in Work : LineOf(w)' # None => line'[LineOf(w)'].invoice # None
    BY <1>1, <1>2, <1>4, WorkRows DEF TimeInv, References
  <2>2. ASSUME NEW l \in Lines, line'[l].invoice # None
        PROVE  invoice'[line'[l].invoice] # "absent"
    <3>1. l \notin ls /\ line'[l] = line[l] /\ line[l].invoice \in Invoices
      BY <1>1, <1>2, <2>2 DEF NoLine, Shape, LineRows
    <3> QED BY <2>2, <3>1 DEF TimeInv, References
  <2> QED BY <2>1, <2>2 DEF References
<1>7. OneRunning' /\ Started'
  BY <1>1, <1>3 DEF TimeInv, OneRunning, Started, Shape, RequestRows
<1>8. BilledState'
  BY <1>4 DEF TimeInv, BilledState
<1>9. Picked'
  <2>1. \A r \in Requests : \A p \in request[r].picked : p.item \in Work
    BY <1>1, PickItems
  <2>2. \A r \in Requests : request[r].step = "billing" =>
           request[r].invoice \in Invoices /\ invoice'[request[r].invoice] = "draft"
    BY DEF TimeInv, Picked, Free
  <2> QED BY <1>4, <2>1, <2>2, TimeBillingAssumption DEF TimeInv, Picked
<1>10. BilledAsLogged'
  <2>1. \A l \in Lines : \A p \in line[l].billed : p.item \in Work
    BY <1>1 DEF Shape, LineRows, Picks
  <2>2. \A l \in Lines : l # None
    BY TimeBillingAssumption
  <2>3. ASSUME NEW l \in ls
        PROVE  line'[l].billed = {} /\ \A w \in Work : LineOf(w)' # l
    BY <1>2, <1>4, <2>2, <2>3 DEF NoLine
  <2>4. ASSUME NEW l \in Lines \ ls
        PROVE  /\ line'[l] = line[l]
               /\ \A w \in Work : LineOf(w)' = l <=> LineOf(w) = l
    BY <1>2, <1>4, <2>2, <2>4
  <2> QED BY <1>4, <2>1, <2>3, <2>4 DEF TimeInv, BilledAsLogged
<1> QED BY <1>5, <1>6, <1>7, <1>8, <1>9, <1>10 DEF TimeInv

LEMMA RemoveStep ==
    ASSUME TimeInv,
           (\E l \in Lines : InvoiceLineRemove(l)) \/ (\E i \in Invoices : InvoiceDelete(i))
    PROVE  TimeInv'
<1>1. CASE \E l \in Lines : InvoiceLineRemove(l)
  <2>1. PICK l \in Lines : InvoiceLineRemove(l)
    BY <1>1
  <2>2. /\ RemoveLines({l}) /\ Edited /\ UNCHANGED <<archived, rate, request, invoice>>
    BY <2>1 DEF InvoiceLineRemove
  <2>3. invoice' \in [Invoices -> InvoiceStatuses]
    BY <2>2 DEF TimeInv, Shape
  <2> QED BY <2>2, <2>3, LinesRemoved
<1>2. CASE \E i \in Invoices : InvoiceDelete(i)
  <2>1. PICK i \in Invoices : InvoiceDelete(i)
    BY <1>2
  <2>2. /\ RemoveLines({l \in Lines : line[l].invoice = i}) /\ Edited /\ Free(i)
        /\ UNCHANGED <<archived, rate, request>> /\ invoice' = [invoice EXCEPT ![i] = "absent"]
    BY <2>1 DEF InvoiceDelete
  <2>3. /\ invoice' \in [Invoices -> InvoiceStatuses]
        /\ \A j \in Invoices \ {i} : invoice'[j] = invoice[j]
    BY <2>2 DEF TimeInv, Shape, InvoiceStatuses
  <2> QED BY <2>2, <2>3, LinesRemoved
<1> QED BY <1>1, <1>2

-----------------------------------------------------------------------------
(***************************************************************************)
(* Marking what was selected.                                              *)
(***************************************************************************)
(* However rows are gathered on lines, each is on one line.                *)
LEMMA PartsOnce ==
    ASSUME NEW P, NEW parts \in {Alone(P), Grouped(P)}
    PROVE  /\ \A share \in parts : share \subseteq P
           /\ \A p \in P : \E share \in parts : p \in share
           /\ \A a, b \in parts : \A p : p \in a /\ p \in b => a = b
<1>1. CASE parts = Alone(P)
  <2>1. /\ \A share \in parts : \E p \in P : share = {p}
        /\ \A p \in P : {p} \in parts
    BY <1>1 DEF Alone
  <2>2. \A p \in P : p \in {p}
    OBVIOUS
  <2>3. \A p \in P : \E share \in parts : p \in share
    BY <2>1, <2>2
  <2>4. ASSUME NEW share \in parts PROVE share \subseteq P
    BY <2>1
  <2>5. ASSUME NEW a \in parts, NEW b \in parts, NEW p, p \in a, p \in b PROVE a = b
    <3>1. PICK q \in P : a = {q}
      BY <2>1
    <3>2. PICK o \in P : b = {o}
      BY <2>1
    <3>3. p = q /\ p = o
      BY <2>5, <3>1, <3>2
    <3> QED BY <3>1, <3>2, <3>3
  <2> QED BY <2>3, <2>4, <2>5
<1>2. CASE parts = Grouped(P)
  <2> DEFINE time == {p \in P : p.item \in Entries}
             Rated(v) == {p \in time : p.worth[2] = v}
  <2>1. parts = {Rated(v) : v \in {p.worth[2] : p \in time}} \cup Alone(P \ time)
    BY <1>2 DEF Grouped
  <2>2. ASSUME NEW share \in parts
        PROVE  \/ \E v : share = Rated(v)
               \/ \E p \in P \ time : share = {p}
    BY <2>1 DEF Alone
  <2>3. \A p \in time : Rated(p.worth[2]) \in parts /\ p \in Rated(p.worth[2])
    BY <2>1
  <2>4. \A p \in P \ time : {p} \in parts
    BY <2>1 DEF Alone
  <2>5. \A v : Rated(v) \subseteq time /\ \A p \in Rated(v) : p.worth[2] = v
    OBVIOUS
  <2>6. time \subseteq P
    OBVIOUS
  <2> HIDE DEF time
  <2>7. \A p \in P : \E share \in parts : p \in share
    BY <2>3, <2>4
  <2>8. \A share \in parts : share \subseteq P
    BY <2>2, <2>5, <2>6
  <2>9. ASSUME NEW a \in parts, NEW b \in parts, NEW p, p \in a, p \in b
        PROVE  a = b
    <3>1. CASE \E v : a = Rated(v)
      <4>1. p \in time /\ a = Rated(p.worth[2])
        BY <2>5, <2>9, <3>1
      <4>2. b = Rated(p.worth[2])
        BY <2>2, <2>5, <2>9, <4>1
      <4> QED BY <4>1, <4>2
    <3>2. CASE \E q \in P \ time : a = {q}
      <4>1. p \notin time /\ a = {p}
        BY <2>9, <3>2
      <4>2. b = {p}
        BY <2>2, <2>5, <2>9, <4>1
      <4> QED BY <4>1, <4>2
    <3> QED BY <2>2, <3>1, <3>2
  <2> QED BY <2>7, <2>8, <2>9
<1> QED BY <1>1, <1>2

LEMMA BillWriteStep ==
    ASSUME TimeInv, NEW r \in Requests, BillWrite(r)
    PROVE  TimeInv'
<1> DEFINE P == request[r].picked
           late == request[r].overtaken
           draft == request[r].invoice
<1>1. /\ Shape /\ request[r].step = "billing"
      /\ UNCHANGED <<invoice, archived, rate, edits>>
      /\ request' = [o \in Requests |->
             IF o = r THEN Idle
             ELSE [request[o] EXCEPT !.overtaken = @ \cup (Items(P) \cap Items(request[o].picked))]]
  BY DEF BillWrite, TimeInv
<1>2. PICK parts \in {Alone(P), Grouped(P)} :
       \E onto \in Injection(parts, {l \in Lines : line[l].invoice = None}) :
       LET LineFor(w) == onto[CHOOSE share \in parts : w \in Items(share)]
           Put(l)     == CHOOSE share \in parts : onto[share] = l
       IN
       /\ line' = [l \in Lines |->
              IF l \notin Range(onto) THEN [line[l] EXCEPT !.overtaken = @ \cup (Items(P) \cap Items(line[l].billed))]
              ELSE [invoice |-> draft, billed |-> Put(l), overtaken |-> late \cap Items(Put(l))]]
       /\ entry' = [e \in Entries |-> IF e \in Items(P) /\ entry[e].state # "deleted"
                                      THEN Marked(entry[e], LineFor(e)) ELSE entry[e]]
       /\ expense' = [x \in Expenses |-> IF x \in Items(P) /\ expense[x].state # "deleted"
                                         THEN Marked(expense[x], LineFor(x)) ELSE expense[x]]
  BY DEF BillWrite
<1>3. PICK onto \in Injection(parts, {l \in Lines : line[l].invoice = None}) :
       LET LineFor(w) == onto[CHOOSE share \in parts : w \in Items(share)]
           Put(l)     == CHOOSE share \in parts : onto[share] = l
       IN
       /\ line' = [l \in Lines |->
              IF l \notin Range(onto) THEN [line[l] EXCEPT !.overtaken = @ \cup (Items(P) \cap Items(line[l].billed))]
              ELSE [invoice |-> draft, billed |-> Put(l), overtaken |-> late \cap Items(Put(l))]]
       /\ entry' = [e \in Entries |-> IF e \in Items(P) /\ entry[e].state # "deleted"
                                      THEN Marked(entry[e], LineFor(e)) ELSE entry[e]]
       /\ expense' = [x \in Expenses |-> IF x \in Items(P) /\ expense[x].state # "deleted"
                                         THEN Marked(expense[x], LineFor(x)) ELSE expense[x]]
  BY <1>2
<1> DEFINE LineFor(w) == onto[CHOOSE share \in parts : w \in Items(share)]
           Put(l)     == CHOOSE share \in parts : onto[share] = l
           fresh      == Range(onto)
<1>4. /\ line' = [l \in Lines |->
              IF l \notin fresh THEN [line[l] EXCEPT !.overtaken = @ \cup (Items(P) \cap Items(line[l].billed))]
              ELSE [invoice |-> draft, billed |-> Put(l), overtaken |-> late \cap Items(Put(l))]]
      /\ entry' = [e \in Entries |-> IF e \in Items(P) /\ entry[e].state # "deleted"
                                     THEN Marked(entry[e], LineFor(e)) ELSE entry[e]]
      /\ expense' = [x \in Expenses |-> IF x \in Items(P) /\ expense[x].state # "deleted"
                                        THEN Marked(expense[x], LineFor(x)) ELSE expense[x]]
  BY <1>3
<1>5. /\ draft \in Invoices /\ invoice[draft] = "draft"
      /\ \A p, q \in P : p.item = q.item => p = q
      /\ \A p \in P :
            /\ p \in Picks /\ p.item \in Work
            /\ StateOf(p.item) \in {"logged", "confirmed", "deleted"}
            /\ \/ p.item \in late
               \/ LineOf(p.item) = None /\ StateOf(p.item) # "deleted" /\ Worth(p.item) = p.worth
  BY <1>1, PickItems DEF TimeInv, Picked
<1>6. /\ \A share \in parts : share \subseteq P
      /\ \A p \in P : \E share \in parts : p \in share
      /\ \A a, b \in parts : \A p : p \in a /\ p \in b => a = b
  BY PartsOnce
<1>7. /\ onto \in [parts -> {l \in Lines : line[l].invoice = None}]
      /\ \A a, b \in parts : onto[a] = onto[b] => a = b
      /\ fresh = {onto[share] : share \in parts}
  BY DEF Injection, IsInjective, Range
<1>8. \A l \in fresh : /\ l \in Lines /\ line[l].invoice = None
                       /\ Put(l) \in parts /\ onto[Put(l)] = l
  BY <1>7
<1>9. ASSUME NEW p \in P
      PROVE  /\ LineFor(p.item) \in fresh
             /\ \A l \in fresh : p \in Put(l) <=> LineFor(p.item) = l
  <2> DEFINE share == CHOOSE share \in parts : p.item \in Items(share)
  <2>1. \A a \in parts : p.item \in Items(a) <=> p \in a
    BY <1>5, <1>6 DEF Items
  <2>2. share \in parts /\ p \in share
    BY <1>6, <2>1
  <2>3. LineFor(p.item) = onto[share]
    OBVIOUS
  <2> HIDE DEF share, LineFor, Put, fresh
  <2> QED BY <1>6, <1>7, <1>8, <2>2, <2>3
<1>10. \A l \in fresh : Put(l) \subseteq P
  BY <1>6, <1>8
<1>11. \A w \in Items(P) : LineFor(w) \in fresh /\ \E p \in P : p.item = w
  BY <1>9 DEF Items
<1> HIDE DEF LineFor, Put, fresh, P, late, draft
<1>12. /\ \A l \in Lines \ fresh :
             /\ line'[l].invoice = line[l].invoice /\ line'[l].billed = line[l].billed
             /\ line'[l].overtaken = line[l].overtaken \cup (Items(P) \cap Items(line[l].billed))
             /\ line'[l] \in LineRows
       /\ \A l \in fresh :
             /\ line'[l].invoice = draft /\ line'[l].billed = Put(l)
             /\ line'[l].overtaken = late \cap Items(Put(l))
             /\ line'[l] \in LineRows
       /\ DOMAIN line' = Lines
  <2>1. ASSUME NEW l \in Lines \ fresh
        PROVE  /\ line'[l].invoice = line[l].invoice /\ line'[l].billed = line[l].billed
               /\ line'[l].overtaken = line[l].overtaken \cup (Items(P) \cap Items(line[l].billed))
               /\ line'[l] \in LineRows
    <3>1. line[l] \in LineRows
      BY <1>1 DEF Shape
    <3>2. line'[l] = [line[l] EXCEPT !.overtaken = @ \cup (Items(P) \cap Items(line[l].billed))]
      BY <1>4, <2>1
    <3>3. Items(line[l].billed) \subseteq Work
      BY <3>1 DEF LineRows, Picks, Items
    <3> QED BY <3>1, <3>2, <3>3 DEF LineRows
  <2>2. ASSUME NEW l \in fresh
        PROVE  /\ line'[l].invoice = draft /\ line'[l].billed = Put(l)
               /\ line'[l].overtaken = late \cap Items(Put(l))
               /\ line'[l] \in LineRows
    <3>1. l \in Lines
      BY <1>8
    <3>2. line'[l] = [invoice |-> draft, billed |-> Put(l), overtaken |-> late \cap Items(Put(l))]
      BY <1>4, <2>2, <3>1
    <3>3. Put(l) \in SUBSET Picks /\ Items(Put(l)) \subseteq Work
      BY <1>5, <1>10, <2>2 DEF Items
    <3> QED BY <1>5, <3>2, <3>3 DEF LineRows
  <2> QED BY <1>4, <2>1, <2>2
<1>13. ASSUME NEW w \in Work
       PROVE  /\ Worth(w)' = Worth(w) /\ StateOf(w)' = StateOf(w)
              /\ LineOf(w)' = IF w \in Items(P) /\ StateOf(w) # "deleted" THEN LineFor(w) ELSE LineOf(w)
  <2>1. CASE w \in Entries
    <3>1. entry[w] \in EntryRows
      BY <1>1, <2>1 DEF Shape
    <3>2. entry'[w] = IF w \in Items(P) /\ entry[w].state # "deleted" THEN Marked(entry[w], LineFor(w)) ELSE entry[w]
      BY <1>4, <2>1
    <3> QED BY <2>1, <3>1, <3>2 DEF Worth, StateOf, LineOf, EntryRows, Marked
  <2>2. CASE w \notin Entries
    <3>1. w \in Expenses /\ expense[w] \in ExpenseRows
      BY <1>1, <2>2 DEF Shape, Work
    <3>2. expense'[w] = IF w \in Items(P) /\ expense[w].state # "deleted"
                        THEN Marked(expense[w], LineFor(w)) ELSE expense[w]
      BY <1>4, <3>1
    <3> QED BY <2>2, <3>1, <3>2 DEF Worth, StateOf, LineOf, ExpenseRows, Marked
  <2> QED BY <2>1, <2>2
<1>14. \A e \in Entries : entry'[e].state = entry[e].state /\ entry'[e].user = entry[e].user
  BY <1>1, <1>4 DEF Shape, EntryRows, Marked
<1>15. /\ DOMAIN request' = Requests
       /\ request'[r] = Idle
       /\ \A o \in Requests \ {r} :
             /\ request'[o].step = request[o].step /\ request'[o].invoice = request[o].invoice
             /\ request'[o].picked = request[o].picked /\ request'[o].previous = request[o].previous
             /\ request'[o].overtaken = request[o].overtaken \cup (Items(P) \cap Items(request[o].picked))
             /\ request'[o] \in RequestRows
  <2>1. ASSUME NEW o \in Requests \ {r}
        PROVE  /\ request'[o].step = request[o].step /\ request'[o].invoice = request[o].invoice
               /\ request'[o].picked = request[o].picked /\ request'[o].previous = request[o].previous
               /\ request'[o].overtaken = request[o].overtaken \cup (Items(P) \cap Items(request[o].picked))
               /\ request'[o] \in RequestRows
    <3>1. request[o] \in RequestRows
      BY <1>1 DEF Shape
    <3>2. request'[o] = [request[o] EXCEPT !.overtaken = @ \cup (Items(P) \cap Items(request[o].picked))]
      BY <1>1, <2>1
    <3>3. Items(request[o].picked) \subseteq Work
      BY <3>1 DEF RequestRows, Picks, Items
    <3> QED BY <3>1, <3>2, <3>3 DEF RequestRows
  <2> QED BY <1>1, <2>1
<1>16. Shape'
  <2>1. entry' \in [Entries -> EntryRows]
    <3>1. \A e \in Entries : entry'[e] \in EntryRows
      <4> SUFFICES ASSUME NEW e \in Entries PROVE entry'[e] \in EntryRows
        OBVIOUS
      <4>1. entry[e] \in EntryRows
        BY <1>1 DEF Shape
      <4>2. CASE e \in Items(P) /\ entry[e].state # "deleted"
        <5>1. entry'[e] = [entry[e] EXCEPT !.line = LineFor(e)] /\ LineFor(e) \in Lines
          BY <1>4, <1>8, <1>11, <4>2 DEF Marked
        <5> QED BY <4>1, <5>1 DEF EntryRows
      <4>3. CASE ~(e \in Items(P) /\ entry[e].state # "deleted")
        BY <1>4, <4>1, <4>3
      <4> QED BY <4>2, <4>3
    <3> QED BY <1>4, <3>1
  <2>2. expense' \in [Expenses -> ExpenseRows]
    <3>1. \A x \in Expenses : expense'[x] \in ExpenseRows
      BY <1>1, <1>4, <1>8, <1>11 DEF Shape, ExpenseRows, Marked
    <3> QED BY <1>4, <3>1
  <2>3. Idle \in RequestRows
    BY DEF Idle, RequestRows
  <2>4. \A l \in Lines : line'[l] \in LineRows
    BY <1>12
  <2> QED BY <1>1, <1>12, <1>15, <2>1, <2>2, <2>3, <2>4 DEF Shape
<1>17. References'
  <2>1. draft # None
    BY <1>5, TimeBillingAssumption
  <2>2. \A l \in Lines : line'[l].invoice = line[l].invoice \/ (line'[l].invoice = draft /\ l \in fresh)
    BY <1>12
  <2>3. ASSUME NEW w \in Work, LineOf(w)' # None
        PROVE  line'[LineOf(w)'].invoice # None
    <3>1. CASE LineOf(w)' \in fresh
      BY <1>12, <2>1, <3>1
    <3>2. CASE LineOf(w)' = LineOf(w) /\ LineOf(w) \notin fresh
      <4>1. LineOf(w) \in Lines /\ line[LineOf(w)].invoice # None
        BY <1>1, <2>3, <3>2, WorkRows DEF TimeInv, References
      <4> QED BY <1>12, <3>2, <4>1
    <3> QED BY <1>11, <1>13, <3>1, <3>2
  <2> QED BY <1>1, <1>5, <2>2, <2>3 DEF TimeInv, References
<1>18. OneRunning'
  BY <1>14 DEF TimeInv, OneRunning
<1>19. BilledState'
  <2>1. \A w \in Items(P) : StateOf(w) \in {"logged", "confirmed", "deleted"}
    BY <1>5, <1>11
  <2> QED BY <1>13, <2>1 DEF TimeInv, BilledState
<1>20. Started'
  <2>1. request[r].previous = None
    BY <1>1 DEF TimeInv, Started
  <2>2. \A o \in Requests : request'[o].previous # None =>
           /\ o # r /\ request'[o].previous = request[o].previous /\ request'[o].step = request[o].step
           /\ request[o].previous \in Entries /\ entry[request[o].previous].state = "running"
    <3> SUFFICES ASSUME NEW o \in Requests, request'[o].previous # None
                 PROVE  /\ o # r /\ request'[o].previous = request[o].previous
                        /\ request'[o].step = request[o].step
                        /\ request[o].previous \in Entries /\ entry[request[o].previous].state = "running"
      OBVIOUS
    <3>1. o # r
      BY <1>15 DEF Idle
    <3>2. request'[o].previous = request[o].previous /\ request'[o].step = request[o].step
      BY <1>15, <3>1
    <3>3. request[o].previous \in Entries /\ entry[request[o].previous].state = "running"
      BY <1>1, <3>2 DEF TimeInv, Started, Shape, RequestRows
    <3> QED BY <3>1, <3>2, <3>3
  <2> QED BY <1>14, <2>2, StartedKept
<1>21. Picked'
  <2> SUFFICES ASSUME NEW o \in Requests
               PROVE  /\ request'[o].step = "billing" =>
                            request'[o].invoice \in Invoices /\ invoice'[request'[o].invoice] = "draft"
                      /\ request'[o].step # "billing" => request'[o].picked = {}
                      /\ \A p, q \in request'[o].picked : p.item = q.item => p = q
                      /\ \A p \in request'[o].picked :
                            /\ StateOf(p.item)' \in {"logged", "confirmed", "deleted"}
                            /\ \/ p.item \in request'[o].overtaken
                               \/ LineOf(p.item)' = None /\ StateOf(p.item)' # "deleted" /\ Worth(p.item)' = p.worth
    BY Zenon DEF Picked
  <2>1. CASE o = r
    BY <1>15, <2>1 DEF Idle
  <2>2. CASE o # r
    <3>1. /\ request'[o].step = "billing" =>
                request'[o].invoice \in Invoices /\ invoice'[request'[o].invoice] = "draft"
          /\ request'[o].step # "billing" => request'[o].picked = {}
          /\ \A p, q \in request'[o].picked : p.item = q.item => p = q
      <4>1. /\ request[o].step = "billing" =>
                  request[o].invoice \in Invoices /\ invoice[request[o].invoice] = "draft"
            /\ request[o].step # "billing" => request[o].picked = {}
            /\ \A p, q \in request[o].picked : p.item = q.item => p = q
        BY DEF TimeInv, Picked
      <4>2. /\ request'[o].step = request[o].step /\ request'[o].invoice = request[o].invoice
            /\ request'[o].picked = request[o].picked
        BY <1>15, <2>2
      <4> QED BY <1>1, <4>1, <4>2
    <3>2. ASSUME NEW p \in request[o].picked
          PROVE  /\ StateOf(p.item)' \in {"logged", "confirmed", "deleted"}
                 /\ \/ p.item \in request'[o].overtaken
                    \/ LineOf(p.item)' = None /\ StateOf(p.item)' # "deleted" /\ Worth(p.item)' = p.worth
      <4>1. p.item \in Work /\ p.item \in Items(request[o].picked)
        BY <1>1, PickItems DEF Items
      <4>2. /\ StateOf(p.item) \in {"logged", "confirmed", "deleted"}
            /\ \/ p.item \in request[o].overtaken
               \/ LineOf(p.item) = None /\ StateOf(p.item) # "deleted" /\ Worth(p.item) = p.worth
        BY DEF TimeInv, Picked
      <4> QED BY <1>13, <1>15, <2>2, <4>1, <4>2
    <3> QED BY <1>15, <2>2, <3>1, <3>2
  <2> QED BY <2>1, <2>2
<1>22. BilledAsLogged'
  <2> SUFFICES ASSUME NEW l \in Lines
               PROVE  /\ \A p \in line'[l].billed :
                            p.item \in line'[l].overtaken \/ (LineOf(p.item)' = l /\ Worth(p.item)' = p.worth)
                      /\ \A w \in Work : LineOf(w)' = l => \E p \in line'[l].billed : p.item = w
    BY Zenon DEF BilledAsLogged
  <2>1. CASE l \in fresh
    <3>1. ASSUME NEW p \in Put(l)
          PROVE  p.item \in line'[l].overtaken \/ (LineOf(p.item)' = l /\ Worth(p.item)' = p.worth)
      <4>1. p \in P /\ p.item \in Items(P) /\ p.item \in Items(Put(l)) /\ LineFor(p.item) = l
        BY <1>9, <1>10, <2>1 DEF Items
      <4> QED BY <1>5, <1>12, <1>13, <2>1, <4>1
    <3>2. ASSUME NEW w \in Work, LineOf(w)' = l
          PROVE  \E p \in Put(l) : p.item = w
      <4>1. LineOf(w) # l
        BY <1>8, <2>1, TimeBillingAssumption DEF TimeInv, References
      <4>2. w \in Items(P) /\ LineFor(w) = l
        BY <1>13, <3>2, <4>1
      <4> QED BY <1>9, <1>11, <2>1, <4>2
    <3> QED BY <1>12, <2>1, <3>1, <3>2
  <2>2. CASE l \notin fresh
    <3>1. ASSUME NEW p \in line[l].billed
          PROVE  p.item \in line'[l].overtaken \/ (LineOf(p.item)' = l /\ Worth(p.item)' = p.worth)
      <4>1. p.item \in Work /\ p.item \in Items(line[l].billed)
        BY <1>1 DEF Shape, LineRows, Picks, Items
      <4> QED BY <1>12, <1>13, <2>2, <4>1 DEF TimeInv, BilledAsLogged
    <3>2. ASSUME NEW w \in Work, LineOf(w)' = l
          PROVE  \E p \in line[l].billed : p.item = w
      <4>1. LineOf(w) = l
        BY <1>11, <1>13, <2>2, <3>2
      <4> QED BY <4>1 DEF TimeInv, BilledAsLogged
    <3> QED BY <1>12, <2>2, <3>1, <3>2
  <2> QED BY <2>1, <2>2
<1> QED BY <1>16, <1>17, <1>18, <1>19, <1>20, <1>21, <1>22 DEF TimeInv

(* A request is given up.                                                  *)
LEMMA RollBackStep ==
    ASSUME TimeInv, NEW r \in Requests, RollBack(r)
    PROVE  TimeInv'
<1>1. /\ Shape /\ request' = [request EXCEPT ![r] = Idle]
      /\ UNCHANGED <<entry, expense, line, invoice, archived, rate, edits>>
  BY DEF RollBack, TimeInv
<1>2. /\ DOMAIN request' = Requests /\ request'[r] = Idle /\ Idle \in RequestRows
      /\ \A q \in Requests \ {r} : request'[q] = request[q]
  BY <1>1 DEF Shape, Idle, RequestRows
<1>3. Shape'
  BY <1>1, <1>2 DEF Shape
<1>4. OneRunning' /\ Started'
  <2>1. \A q \in Requests : request'[q].previous # None => q # r /\ request'[q] = request[q]
    BY <1>2 DEF Idle
  <2> QED BY <1>1, <2>1 DEF TimeInv, OneRunning, Started
<1>5. \A w \in Work : LineOf(w)' = LineOf(w) /\ Worth(w)' = Worth(w) /\ StateOf(w)' = StateOf(w)
  BY <1>1 DEF LineOf, Worth, StateOf
<1>6. \A q \in Requests :
         \/ request'[q].picked = {} /\ request'[q].step # "billing"
         \/ /\ request'[q].step = request[q].step /\ request'[q].invoice = request[q].invoice
            /\ request'[q].picked = request[q].picked
            /\ request[q].overtaken \subseteq request'[q].overtaken
  BY <1>2 DEF Idle
<1> QED BY <1>1, <1>3, <1>4, <1>5, <1>6, Corrected

(* Rates and archives leave what is logged and billed alone.               *)
LEMMA SettingsStep ==
    ASSUME TimeInv,
           \/ \E s \in RateSources, v \in Rates \cup {None} : RateSet(s, v)
           \/ \E p \in Projects : Archive(p)
    PROVE  TimeInv'
<1>1. UNCHANGED <<entry, expense, line, invoice, request>> /\ Edited /\ Shape
  BY DEF RateSet, Archive, TimeInv
<1>2. Shape'
  <2>1. edits' \in 0..MaxEdits
    BY <1>1, TimeBillingAssumption DEF Shape, Edited
  <2>2. rate' \in [RateSources -> Rates \cup {None}] /\ archived' \subseteq Projects
    BY <1>1 DEF Shape, RateSet, Archive
  <2> QED BY <1>1, <2>1, <2>2 DEF Shape
<1>3. OneRunning' /\ Started'
  BY <1>1 DEF TimeInv, OneRunning, Started
<1>4. \A w \in Work : LineOf(w)' = LineOf(w) /\ Worth(w)' = Worth(w) /\ StateOf(w)' = StateOf(w)
  BY <1>1 DEF LineOf, Worth, StateOf
<1>5. \A q \in Requests :
         /\ request'[q].step = request[q].step /\ request'[q].invoice = request[q].invoice
         /\ request'[q].picked = request[q].picked
         /\ request[q].overtaken \subseteq request'[q].overtaken
  BY <1>1
<1> QED BY <1>1, <1>2, <1>3, <1>4, <1>5, Corrected

LEMMA StutterStep ==
    ASSUME TimeInv, UNCHANGED vars
    PROVE  TimeInv'
<1>1. UNCHANGED <<entry, expense, line, invoice, archived, rate, request, edits>>
  BY DEF vars
<1>2. \A w \in Work : LineOf(w)' = LineOf(w) /\ Worth(w)' = Worth(w) /\ StateOf(w)' = StateOf(w)
  BY <1>1 DEF LineOf, Worth, StateOf
<1>3. Shape' /\ OneRunning' /\ Started'
  BY <1>1 DEF TimeInv, Shape, OneRunning, Started
<1> QED BY <1>1, <1>2, <1>3, Corrected

LEMMA TimeNext == TimeInv /\ [Next]_vars => TimeInv'
<1> SUFFICES ASSUME TimeInv, Next PROVE TimeInv'
  BY StutterStep
<1>1. CASE \/ \E e \in Entries, u \in Users, p \in Projects, h \in Hours : TimeEntryCreate(e, u, p, h)
           \/ \E e \in Entries, p \in Projects, h \in Hours \cup {0} : TimeEntryUpdate(e, p, h)
           \/ \E e \in Entries : TimeEntryDelete(e)
           \/ \E e \in Entries, h \in Hours : TimerStop(e, h)
  BY <1>1, CreateStep, UpdateStep, DeleteStep, StopStep
<1>2. CASE \/ \E r \in Requests, u \in Users, p \in Projects : TimerStartRead(r, u, p)
           \/ \E r \in Requests, e \in Entries, h \in Hours : TimerStartWrite(r, e, h)
  BY <1>2, StartReadStep, StartWriteStep
<1>3. CASE \/ \E x \in Expenses, s \in {"draft", "confirmed"}, a \in Hours : ExpenseCreate(x, s, a)
           \/ \E x \in Expenses : ExpenseConfirm(x)
           \/ \E x \in Expenses : ExpenseDelete(x)
           \/ \E x \in Expenses, a \in Hours : ExpenseUpdate(x, a)
  BY <1>3, ExpenseStep, ExpenseEditStep
<1>4. CASE \/ \E i \in Invoices : InvoiceCreate(i)
           \/ \E i \in Invoices : InvoiceDelete(i)
           \/ \E i \in Invoices : InvoiceSend(i)
           \/ \E i \in Invoices : InvoiceCancel(i)
           \/ \E l \in Lines : InvoiceLineRemove(l)
  BY <1>4, InvoiceStep, RemoveStep
<1>5. CASE \/ \E r \in Requests, i \in Invoices, asked \in SUBSET Work : BillRead(r, i, asked)
           \/ \E r \in Requests : BillWrite(r)
           \/ \E r \in Requests : RollBack(r)
  BY <1>5, BillReadStep, BillWriteStep, RollBackStep
<1>6. CASE \/ \E s \in RateSources, v \in Rates \cup {None} : RateSet(s, v)
           \/ \E p \in Projects : Archive(p)
  BY <1>6, SettingsStep
<1> QED BY <1>1, <1>2, <1>3, <1>4, <1>5, <1>6, NextCases

-----------------------------------------------------------------------------
(* A person's running timers are at most one.                              *)
LEMMA OneClock ==
    ASSUME OneRunning
    PROVE  OneTimer
<1> SUFFICES ASSUME NEW u \in Users PROVE Cardinality(Running(u)) <= 1
  BY DEF OneTimer
<1>1. CASE Running(u) = {}
  BY <1>1, FS_EmptySet
<1>2. CASE Running(u) # {}
  <2>1. PICK e \in Running(u) : TRUE
    BY <1>2
  <2>2. Running(u) = {e}
    BY <2>1 DEF Running, OneRunning
  <2> QED BY <2>2, FS_Singleton
<1> QED BY <1>1, <1>2

(* At any moment a person has one clock, a row is billed by a line that    *)
(* exists on an invoice that exists, and a line and the rows it billed name*)
(* each other and agree on what was charged, unless the row changed hands  *)
(* between being selected and being marked.                                *)
THEOREM WorkBilledAlways == Spec => []WorkBilled
<1>1. TimeInv => WorkBilled
  BY OneClock, TypeOKParts DEF TimeInv, WorkBilled
<1> QED BY TimeInit, TimeNext, <1>1, PTL DEF Spec

(* What keeps an issued invoice's rows: corrections ask for an unbilled    *)
(* row, lines come off drafts only, and a bill marks only what it picked.  *)
LEMMA FrozenStep ==
    ASSUME TimeInv, Next, NEW w \in Work, LineOf(w) # None,
           invoice[line[LineOf(w)].invoice] \in {"issued", "cancelled"},
           \A r \in Requests : \A p \in request[r].picked : p.item # w
    PROVE  LineOf(w)' = LineOf(w) /\ Worth(w)' = Worth(w)
<1>1. /\ Shape /\ StateOf(w) \in {"logged", "confirmed"}
      /\ w \in Entries <=> w \notin Expenses
      /\ w \notin Entries <=> w \in Expenses
  BY TimeBillingAssumption DEF TimeInv, BilledState, Work
<1>2. CASE \/ \E e \in Entries, u \in Users, p \in Projects, h \in Hours : TimeEntryCreate(e, u, p, h)
           \/ \E e \in Entries, p \in Projects, h \in Hours \cup {0} : TimeEntryUpdate(e, p, h)
           \/ \E e \in Entries : TimeEntryDelete(e)
           \/ \E e \in Entries, h \in Hours : TimerStop(e, h)
  <2>1. PICK e \in Entries : /\ entry[e].state \notin {"logged", "confirmed"} \/ LineOf(e) = None
                             /\ \E row : entry' = [entry EXCEPT ![e] = row]
                             /\ expense' = expense
    <3>1. CASE \E e \in Entries, u \in Users, p \in Projects, h \in Hours : TimeEntryCreate(e, u, p, h)
      BY <3>1 DEF TimeEntryCreate
    <3>2. CASE \E e \in Entries, p \in Projects, h \in Hours \cup {0} : TimeEntryUpdate(e, p, h)
      <4>1. PICK e \in Entries, p \in Projects, h \in Hours \cup {0} : TimeEntryUpdate(e, p, h)
        BY <3>2
      <4>2. entry' = [entry EXCEPT ![e] = entry'[e]]
        BY <4>1, <1>1 DEF TimeEntryUpdate, Shape, EntryRows
      <4> QED BY <4>1, <4>2 DEF TimeEntryUpdate, Changeable
    <3>3. CASE \E e \in Entries : TimeEntryDelete(e)
      BY <3>3 DEF TimeEntryDelete, Changeable
    <3>4. CASE \E e \in Entries, h \in Hours : TimerStop(e, h)
      <4>1. PICK e \in Entries, h \in Hours : TimerStop(e, h)
        BY <3>4
      <4>2. entry' = [entry EXCEPT ![e] = [@ EXCEPT !.state = "logged", !.hours = h]]
        BY <4>1, <1>1 DEF TimerStop, Stopped, Shape
      <4> QED BY <4>1, <4>2 DEF TimerStop, Changeable
    <3> QED BY <1>2, <3>1, <3>2, <3>3, <3>4
  <2>2. w # e
    BY <1>1, <2>1 DEF StateOf
  <2> QED BY <1>1, <2>1, <2>2 DEF LineOf, Worth, Shape
<1>3. CASE \E r \in Requests, e \in Entries, h \in Hours : TimerStartWrite(r, e, h)
  <2>1. PICK r \in Requests, e \in Entries, h \in Hours : TimerStartWrite(r, e, h)
    BY <1>3
  <2>2. /\ request[r].previous # None => request[r].previous \in Entries /\ entry[request[r].previous].state = "running"
    BY <1>1 DEF TimeInv, Started, Shape, RequestRows
  <2>3. /\ entry[e].state = "absent" /\ expense' = expense
        /\ \A f \in Entries : f # e /\ f # request[r].previous => entry'[f] = entry[f]
    BY <1>1, <2>1 DEF TimerStartWrite, Stopped, Shape
  <2>4. w \in Entries => w # e /\ w # request[r].previous
    BY <1>1, <2>2, <2>3, TimeBillingAssumption DEF StateOf
  <2> QED BY <1>1, <2>3, <2>4 DEF LineOf, Worth
<1>4. CASE \/ \E x \in Expenses, s \in {"draft", "confirmed"}, a \in Hours : ExpenseCreate(x, s, a)
           \/ \E x \in Expenses : ExpenseConfirm(x)
           \/ \E x \in Expenses : ExpenseDelete(x)
           \/ \E x \in Expenses, a \in Hours : ExpenseUpdate(x, a)
  <2>1. PICK x \in Expenses : /\ expense[x].state = "absent" \/ LineOf(x) = None
                              /\ \E row : expense' = [expense EXCEPT ![x] = row]
                              /\ entry' = entry
    <3>1. CASE \E x \in Expenses, s \in {"draft", "confirmed"}, a \in Hours : ExpenseCreate(x, s, a)
      BY <3>1 DEF ExpenseCreate
    <3>2. CASE \E x \in Expenses : ExpenseConfirm(x)
      <4>1. PICK x \in Expenses : ExpenseConfirm(x)
        BY <3>2
      <4>2. expense' = [expense EXCEPT ![x] = [@ EXCEPT !.state = "confirmed"]]
        BY <4>1, <1>1 DEF ExpenseConfirm, Shape
      <4> QED BY <4>1, <4>2 DEF ExpenseConfirm, Changeable
    <3>3. CASE \E x \in Expenses : ExpenseDelete(x)
      BY <3>3 DEF ExpenseDelete, Changeable
    <3>4. CASE \E x \in Expenses, a \in Hours : ExpenseUpdate(x, a)
      <4>1. PICK x \in Expenses, a \in Hours : ExpenseUpdate(x, a)
        BY <3>4
      <4>2. expense' = [expense EXCEPT ![x] = [@ EXCEPT !.amount = a]]
        BY <4>1, <1>1 DEF ExpenseUpdate, Shape
      <4> QED BY <4>1, <4>2 DEF ExpenseUpdate, Changeable
    <3> QED BY <1>4, <3>1, <3>2, <3>3, <3>4
  <2>2. w # x
    BY <1>1, <2>1 DEF StateOf
  <2> QED BY <1>1, <2>1, <2>2 DEF LineOf, Worth, Shape
<1>5. CASE \/ \E l \in Lines : InvoiceLineRemove(l)
           \/ \E i \in Invoices : InvoiceDelete(i)
  <2>1. PICK ls \in SUBSET Lines : /\ RemoveLines(ls)
                                   /\ \A l \in ls : invoice[line[l].invoice] = "draft"
    <3>1. CASE \E l \in Lines : InvoiceLineRemove(l)
      <4>1. PICK l \in Lines : InvoiceLineRemove(l)
        BY <3>1
      <4>2. RemoveLines({l}) /\ invoice[line[l].invoice] = "draft"
        BY <4>1 DEF InvoiceLineRemove, RequireDraft
      <4> QED BY <4>2
    <3>2. CASE \E i \in Invoices : InvoiceDelete(i)
      <4>1. PICK i \in Invoices : InvoiceDelete(i)
        BY <3>2
      <4>2. RemoveLines({l \in Lines : line[l].invoice = i}) /\ invoice[i] = "draft"
        BY <4>1 DEF InvoiceDelete
      <4>3. /\ {l \in Lines : line[l].invoice = i} \in SUBSET Lines
            /\ \A l \in {l \in Lines : line[l].invoice = i} : invoice[line[l].invoice] = "draft"
        BY <4>2
      <4> QED BY <4>2, <4>3
    <3> QED BY <1>5, <3>1, <3>2
  <2>2. LineOf(w) \notin ls
    BY <2>1
  <2> QED BY <1>1, <2>1, <2>2 DEF LineOf, Worth, RemoveLines, Released
<1>6. CASE \E r \in Requests : BillWrite(r)
  <2>1. PICK r \in Requests : BillWrite(r)
    BY <1>6
  <2>2. w \notin Items(request[r].picked)
    BY DEF Items
  <2>3. /\ w \in Entries => entry'[w] = entry[w]
        /\ w \in Expenses => expense'[w] = expense[w]
    BY <2>1, <2>2 DEF BillWrite
  <2> QED BY <1>1, <2>3 DEF LineOf, Worth
<1>7. CASE UNCHANGED rows
  BY <1>1, <1>7 DEF rows, LineOf, Worth
<1>8. \/ \E r \in Requests, u \in Users, p \in Projects : TimerStartRead(r, u, p)
      \/ \E i \in Invoices : InvoiceCreate(i)
      \/ \E i \in Invoices : InvoiceSend(i)
      \/ \E i \in Invoices : InvoiceCancel(i)
      \/ \E r \in Requests, i \in Invoices, asked \in SUBSET Work : BillRead(r, i, asked)
      \/ \E r \in Requests : RollBack(r)
      \/ \E s \in RateSources, v \in Rates \cup {None} : RateSet(s, v)
      \/ \E p \in Projects : Archive(p)
      => UNCHANGED rows
  BY DEF rows, TimerStartRead, InvoiceCreate, InvoiceSend, InvoiceCancel, BillRead, RollBack, RateSet, Archive
<1> QED BY <1>2, <1>3, <1>4, <1>5, <1>6, <1>7, <1>8, NextCases

(* What an issued invoice billed stays as it is, whatever people correct,  *)
(* delete or cancel, unless a request had selected it before.              *)
THEOREM FrozenAlways == Spec => FrozenWhenIssued
<1>1. TimeInv /\ [Next]_vars =>
        [\A w \in Work :
          /\ LineOf(w) # None
          /\ invoice[line[LineOf(w)].invoice] \in {"issued", "cancelled"}
          /\ \A r \in Requests : \A p \in request[r].picked : p.item # w
          => UNCHANGED <<LineOf(w), Worth(w)>>]_vars
  BY FrozenStep
<1> QED BY TimeInit, TimeNext, <1>1, PTL DEF Spec, FrozenWhenIssued

-----------------------------------------------------------------------------
(* Numbers.                                                                *)
LEMMA LeastNumber ==
  ASSUME NEW T, T \subseteq Nat, T # {}
  PROVE  \E n \in T : \A m \in T : n <= m
<1>1. IsWellFoundedOn(OpToRel(<, Nat), Nat)
  BY NatLessThanWellFounded
<1>2. PICK n \in T : \A m \in T : ~(<<m, n>> \in OpToRel(<, Nat))
  BY <1>1, WFMin
<1>3. \A m \in T : ~(m < n)
  BY <1>2 DEF OpToRel
<1>4. \A m \in T : m \in Nat /\ n \in Nat
  OBVIOUS
<1>5. \A m \in T : n <= m
  BY <1>3, <1>4, SMT
<1> QED
  BY <1>5

LEMMA GreatestNumber ==
  ASSUME NEW T, T \subseteq Nat, T # {}, NEW b \in Nat, \A m \in T : m <= b
  PROVE  \E n \in T : \A m \in T : m <= n
<1> DEFINE Bounds == {n \in Nat : \A m \in T : m <= n}
<1>1. b \in Bounds
  OBVIOUS
<1>2. PICK n \in Bounds : \A m \in Bounds : n <= m
  BY <1>1, LeastNumber
<1>3. CASE n \in T
  BY <1>2, <1>3
<1>4. CASE n \notin T
  <2>1. PICK m \in T : TRUE
    OBVIOUS
  <2>2. m \in Nat /\ m <= n /\ m # n
    BY <1>2, <1>4
  <2>3. n - 1 \in Nat
    BY <1>2, <2>2
  <2>4. \A k \in T : k <= n - 1
    BY <1>2, <1>4
  <2>5. n - 1 \in Bounds
    BY <2>3, <2>4
  <2> QED BY <1>2, <2>3, <2>5
<1> QED BY <1>3, <1>4

LEMMA TimesGrows ==
  ASSUME NEW l \in Nat \ {0}, NEW j \in Nat, NEW k \in Nat
  PROVE  /\ l * j \in Nat /\ l * (j + 1) = l * j + l
         /\ j < k => l * j + l <= l * k
         /\ j <= k => l * j <= l * k
<1>1. l * j \in Nat /\ l * (j + 1) = l * j + l
  OBVIOUS
<1>2. ASSUME j < k PROVE l * j + l <= l * k
  <2>1. PICK d \in Nat : k = j + 1 + d
    <3>1. k - j - 1 \in Nat /\ k = j + 1 + (k - j - 1)
      BY <1>2
    <3> QED BY <3>1
  <2>2. l * k = l * j + l + l * d
    BY <2>1
  <2>3. l * d \in Nat
    OBVIOUS
  <2> QED BY <1>1, <2>2, <2>3
<1> QED BY <1>1, <1>2

LEMMA PartsOf ==
  ASSUME NEW l \in Nat \ {0}, NEW n \in Nat
  PROVE  /\ n \div l \in Nat /\ l * (n \div l) <= n /\ n < l * (n \div l) + l
         /\ \A k \in Nat : n = l * k => n \div l = k
<1>1. n \div l \in Nat /\ l * (n \div l) <= n /\ n < l * (n \div l) + l
  OBVIOUS
<1>2. ASSUME NEW k \in Nat, n = l * k PROVE n \div l = k
  <2> DEFINE q == n \div l
  <2>1. q \in Nat /\ l * q <= l * k /\ l * k < l * q + l
    BY <1>1, <1>2
  <2> HIDE DEF q
  <2>2. ~(q < k) /\ ~(k < q)
    BY <2>1, TimesGrows
  <2>3. q = k
    BY <2>1, <2>2
  <2> QED BY <2>3 DEF q
<1> QED BY <1>1, <1>2

-----------------------------------------------------------------------------
(* The calendar of a schedule.                                             *)
LEMMA ScheduleCardinality == \A S : Sd!Cardinality(S) = Cardinality(S)
BY Zenon DEF Sd!Cardinality, Cardinality

Ended(s) == s.status = "ended"

Scheduled(s) ==
    /\ s \in [status : {"active", "paused", "ended"}, startOn : StartDays, len : Lengths,
              next : Nat \cup {NoDay}, endOn : EndDays, max : Limits, per : PerInvoice]
    /\ Ended(s) <=> s.next = NoDay

LEMMA ScheduledIs ==
  ASSUME NEW s, Scheduled(s)
  PROVE  /\ s.startOn \in Nat /\ s.len \in Nat \ {0} /\ s.per \in Nat \ {0}
         /\ s.next \in Nat \cup {NoDay} /\ (s.next \in Nat <=> ~Ended(s))
         /\ s.endOn \in Nat \cup {NoDay} /\ s.max \in (Nat \ {0}) \cup {NoLimit}
<1>1. /\ s.startOn \in StartDays /\ s.len \in Lengths /\ s.per \in PerInvoice /\ s.next \in Nat \cup {NoDay}
      /\ s.endOn \in EndDays /\ s.max \in Limits /\ (Ended(s) <=> s.next = NoDay)
  BY DEF Scheduled
<1>2. NoDay \notin Nat
  BY BillingAssumption
<1> QED BY <1>1, <1>2, BillingAssumption

LEMMA PeriodsApart ==
  ASSUME NEW s, Scheduled(s), NEW j \in Nat, NEW k \in Nat
  PROVE  /\ Sd!PeriodStart(s, j) \in Nat
         /\ Sd!PeriodAt(s, j) = [from |-> Sd!PeriodStart(s, j), to |-> Sd!PeriodStart(s, j + 1) - 1]
         /\ Sd!PeriodStart(s, j + 1) - 1 \in Nat
         /\ j < k => Sd!PeriodStart(s, j + 1) <= Sd!PeriodStart(s, k)
         /\ j < k <=> Sd!PeriodStart(s, j) < Sd!PeriodStart(s, k)
         /\ j = k <=> Sd!PeriodStart(s, j) = Sd!PeriodStart(s, k)
<1>1. PICK a \in Nat : a = s.startOn
  BY ScheduledIs
<1>2. PICK l \in Nat \ {0} : l = s.len
  BY ScheduledIs
<1>3. \A i \in Nat : Sd!PeriodStart(s, i) = a + l * i /\ l * i \in Nat /\ l * (i + 1) = l * i + l
  BY <1>1, <1>2, TimesGrows DEF Sd!PeriodStart
<1>4. j < k => l * j + l <= l * k
  BY TimesGrows
<1>5. k < j => l * k + l <= l * j
  BY TimesGrows
<1>6. Sd!PeriodAt(s, j) = [from |-> Sd!PeriodStart(s, j), to |-> Sd!PeriodStart(s, j + 1) - 1]
  BY DEF Sd!PeriodAt, Sd!PeriodEnd
<1>7. PICK x \in Nat, y \in Nat : x = l * j /\ y = l * k
  BY <1>3
<1>8. /\ Sd!PeriodStart(s, j) = a + x /\ Sd!PeriodStart(s, k) = a + y /\ Sd!PeriodStart(s, j + 1) = a + x + l
      /\ (j < k => x + l <= y) /\ (k < j => y + l <= x) /\ (j = k => x = y)
  BY <1>3, <1>4, <1>5, <1>7
<1>9. /\ j < k => Sd!PeriodStart(s, j + 1) <= Sd!PeriodStart(s, k)
      /\ j < k <=> Sd!PeriodStart(s, j) < Sd!PeriodStart(s, k)
      /\ j = k <=> Sd!PeriodStart(s, j) = Sd!PeriodStart(s, k)
  BY ONLY <1>1, <1>2, <1>7, <1>8, j \in Nat, k \in Nat, SMT
<1> QED BY ONLY <1>1, <1>2, <1>6, <1>7, <1>8, <1>9, SMT

LEMMA IndexIs ==
  ASSUME NEW s, Scheduled(s), NEW day \in Nat
  PROVE  /\ Sd!PeriodIndexOf(s, day) \in Nat
         /\ \A k \in Nat : day = Sd!PeriodStart(s, k) => Sd!PeriodIndexOf(s, day) = k
<1>1. s.startOn \in Nat /\ s.len \in Nat \ {0}
  BY ScheduledIs
<1>2. Sd!PeriodIndexOf(s, day) \in Nat
  <2>1. CASE day < s.startOn
    BY <2>1 DEF Sd!PeriodIndexOf
  <2>2. CASE ~(day < s.startOn)
    <3>1. day - s.startOn \in Nat
      BY <1>1, <2>2
    <3> QED BY <1>1, <2>2, <3>1, PartsOf DEF Sd!PeriodIndexOf
  <2> QED BY <2>1, <2>2
<1>3. ASSUME NEW k \in Nat, day = Sd!PeriodStart(s, k) PROVE Sd!PeriodIndexOf(s, day) = k
  <2>1. s.len * k \in Nat /\ day = s.startOn + s.len * k
    BY <1>1, <1>3, TimesGrows DEF Sd!PeriodStart
  <2>2. ~(day < s.startOn) /\ day - s.startOn = s.len * k /\ day - s.startOn \in Nat
    BY ONLY <1>1, <2>1, day \in Nat, SMT
  <2>3. Sd!PeriodIndexOf(s, day) = (day - s.startOn) \div s.len
    BY <2>2 DEF Sd!PeriodIndexOf
  <2> QED BY <1>1, <2>2, <2>3, PartsOf
<1> QED BY <1>2, <1>3

(* One of the next periods has not been billed: there are not so many that *)
(* were.                                                                   *)
LEMMA NextUnbilledIs ==
  ASSUME NEW s, Scheduled(s), NEW from \in Nat, NEW starts, IsFiniteSet(starts)
  PROVE  LET n == Sd!NextUnbilledIndex(s, from, starts)
         IN  /\ n \in Nat /\ n >= from /\ Sd!PeriodStart(s, n) \notin starts
             /\ n <= from + Cardinality(starts)
             /\ \A j \in Nat : from <= j /\ j < n => Sd!PeriodStart(s, j) \in starts
<1> DEFINE c == Cardinality(starts)
           Q(k) == Sd!PeriodStart(s, k) \notin starts /\ \A j \in from .. k - 1 : Sd!PeriodStart(s, j) \in starts
<1>1. c \in Nat
  BY FS_CardinalityType
<1>2. \E k \in from .. from + c : Sd!PeriodStart(s, k) \notin starts
  <2> SUFFICES ASSUME \A k \in from .. from + c : Sd!PeriodStart(s, k) \in starts PROVE FALSE
    OBVIOUS
  <2> DEFINE S == from .. from + c
             f == [k \in S |-> Sd!PeriodStart(s, k)]
  <2>1. f \in [S -> starts]
    OBVIOUS
  <2>2. from \in Int /\ from + c \in Int /\ ~(from > from + c) /\ (from + c) - from + 1 = c + 1
    BY <1>1
  <2>3. IsFiniteSet(S) /\ Cardinality(S) = c + 1
    BY <2>2, FS_Interval
  <2>4. Cardinality(starts) < Cardinality(S)
    BY <1>1, <2>3
  <2>5. \A j, k \in S : j # k => f[j] # f[k]
    <3>1. \A k \in S : k \in Nat
      BY <1>1
    <3> QED BY <3>1, PeriodsApart
  <2> HIDE DEF f, S
  <2> QED BY <2>1, <2>3, <2>4, <2>5, FS_PigeonHole
<1>3. \E k \in from .. from + c : Q(k)
  <2> DEFINE T == {k \in from .. from + c : Sd!PeriodStart(s, k) \notin starts}
  <2>1. T \subseteq Nat /\ T # {}
    BY <1>1, <1>2
  <2>2. PICK k \in T : \A m \in T : k <= m
    BY <2>1, LeastNumber
  <2>3. \A j \in from .. k - 1 : j \notin T /\ j \in from .. from + c
    BY <1>1, <2>1, <2>2
  <2>4. Q(k)
    BY <2>2, <2>3
  <2> QED BY <2>2, <2>4
<1>4. Sd!NextUnbilledIndex(s, from, starts) = CHOOSE k \in from .. from + c : Q(k)
  BY ScheduleCardinality DEF Sd!NextUnbilledIndex
<1> HIDE DEF Q
<1>5. PICK n : n = Sd!NextUnbilledIndex(s, from, starts)
  OBVIOUS
<1>6. n \in from .. from + c /\ Q(n)
  BY <1>3, <1>4, <1>5
<1>7. \A j \in Nat : from <= j /\ j < n => j \in from .. n - 1
  BY <1>1, <1>6
<1> QED BY <1>1, <1>5, <1>6, <1>7 DEF Q

(* The periods a schedule bills next: the first that are open, and those   *)
(* before the last of them are open no more.                               *)
LEMMA PastEndIs ==
  ASSUME NEW s, Scheduled(s), NEW i \in Nat, NEW j \in Nat
  PROVE  /\ Sd!PastEnd(s, Sd!PeriodStart(s, i)) <=> ~(s.endOn = NoDay \/ Sd!PeriodStart(s, i) <= s.endOn)
         /\ i <= j /\ Sd!PastEnd(s, Sd!PeriodStart(s, i)) => Sd!PastEnd(s, Sd!PeriodStart(s, j))
<1>1. PICK x \in Nat, y \in Nat : x = Sd!PeriodStart(s, i) /\ y = Sd!PeriodStart(s, j)
  BY PeriodsApart
<1>2. i <= j => x <= y
  <2>1. (i < j <=> x < y) /\ (i = j <=> x = y)
    BY <1>1, PeriodsApart
  <2> QED BY <1>1, <2>1
<1>3. s.endOn \in Nat \cup {NoDay}
  BY ScheduledIs
<1>4. CASE s.endOn = NoDay
  BY <1>4 DEF Sd!PastEnd
<1>5. CASE s.endOn # NoDay
  BY <1>1, <1>2, <1>3, <1>5 DEF Sd!PastEnd
<1> QED BY <1>4, <1>5

LEMMA IndicesAre ==
  ASSUME NEW s, Scheduled(s), NEW from \in Nat, NEW n \in Nat \ {0}, NEW starts, IsFiniteSet(starts)
  PROVE  LET I == Sd!UnbilledIndices(s, from, n, starts)
         IN  /\ I \subseteq Nat /\ IsFiniteSet(I) /\ Cardinality(I) \in Nat /\ Cardinality(I) <= n
             /\ \A k \in I : k >= from /\ k <= from + n + Cardinality(starts)
                             /\ Sd!PeriodStart(s, k) \notin starts /\ ~Sd!PastEnd(s, Sd!PeriodStart(s, k))
             /\ \A i \in I : \A k \in Nat : from <= k /\ k <= i => Sd!PeriodStart(s, k) \in starts \/ k \in I
             /\ I = {} => Sd!PastEnd(s, Sd!PeriodStart(s, Sd!NextUnbilledIndex(s, from, starts)))
<1> DEFINE c == Cardinality(starts)
           Open(k) == Sd!PeriodStart(s, k) \notin starts /\ (s.endOn = NoDay \/ Sd!PeriodStart(s, k) <= s.endOn)
           open == {k \in from .. from + n + c : Open(k)}
           Before(k) == {j \in open : j < k}
           I == {k \in open : Cardinality(Before(k)) < n}
<1>1. c \in Nat
  BY FS_CardinalityType
<1>2. I = Sd!UnbilledIndices(s, from, n, starts)
  BY ScheduleCardinality DEF Sd!UnbilledIndices
<1>3. \A k \in Nat : Open(k) <=> Sd!PeriodStart(s, k) \notin starts /\ ~Sd!PastEnd(s, Sd!PeriodStart(s, k))
  BY PastEndIs
<1>4. open \subseteq Nat /\ IsFiniteSet(open)
  <2>1. from .. from + n + c \subseteq Nat /\ IsFiniteSet(from .. from + n + c)
    BY <1>1, FS_Interval
  <2> QED BY <2>1, FS_Subset
<1>5. \A k : IsFiniteSet(Before(k)) /\ Cardinality(Before(k)) \in Nat
  BY <1>4, FS_Subset, FS_CardinalityType
<1>6. \A j, k \in Nat : j <= k => Cardinality(Before(j)) <= Cardinality(Before(k))
  <2> SUFFICES ASSUME NEW j \in Nat, NEW k \in Nat, j <= k PROVE Cardinality(Before(j)) <= Cardinality(Before(k))
    OBVIOUS
  <2>1. Before(j) \in SUBSET Before(k)
    BY <1>4
  <2> HIDE DEF Before
  <2> QED BY <1>5, <2>1, FS_Subset
<1>7. I \subseteq open /\ IsFiniteSet(I) /\ Cardinality(I) \in Nat
  BY <1>4, FS_Subset, FS_CardinalityType
<1>8. Cardinality(I) <= n
  <2>1. CASE I = {}
    <3> HIDE DEF I
    <3>1. Cardinality(I) = 0
      BY <2>1, FS_EmptySet
    <3> QED BY <3>1
  <2>2. CASE I # {}
    <3>1. I \subseteq Nat /\ from + n + c \in Nat /\ \A m \in I : m <= from + n + c
      BY <1>1
    <3> HIDE DEF I, c
    <3>2. PICK m \in I : \A k \in I : k <= m
      BY <2>2, <3>1, GreatestNumber
    <3> USE DEF I
    <3>3. I \ {m} \in SUBSET Before(m)
      BY <1>4, <3>2
    <3>4. Cardinality(I \ {m}) <= Cardinality(Before(m)) /\ Cardinality(Before(m)) < n
      BY <1>5, <3>2, <3>3, FS_Subset
    <3> HIDE DEF I, Before
    <3>5. Cardinality(I \ {m}) = Cardinality(I) - 1
      BY <1>7, <3>2, FS_RemoveElement
    <3> QED BY <1>5, <1>7, <3>4, <3>5
  <2> QED BY <2>1, <2>2
<1>9. ASSUME NEW i \in I, NEW k \in Nat, from <= k, k <= i PROVE Sd!PeriodStart(s, k) \in starts \/ k \in I
  <2> SUFFICES ASSUME Sd!PeriodStart(s, k) \notin starts PROVE k \in I
    OBVIOUS
  <2>1. i \in Nat /\ i <= from + n + c /\ Open(i) /\ Cardinality(Before(i)) < n
    BY <1>1
  <2>2. Open(k)
    BY <1>3, <1>9, <2>1, PastEndIs
  <2>3. k \in open
    BY <1>1, <1>9, <2>1, <2>2
  <2>4. Cardinality(Before(k)) < n
    <3>1. Cardinality(Before(k)) <= Cardinality(Before(i))
      BY <1>6, <1>9, <2>1
    <3> QED BY <1>5, <2>1, <3>1
  <2> QED BY <2>3, <2>4
<1>10. ASSUME I = {} PROVE Sd!PastEnd(s, Sd!PeriodStart(s, Sd!NextUnbilledIndex(s, from, starts)))
  <2>1. open = {}
    <3> SUFFICES ASSUME open # {} PROVE FALSE
      OBVIOUS
    <3> HIDE DEF open
    <3>1. PICK k \in open : \A j \in open : k <= j
      BY <1>4, LeastNumber
    <3>2. Before(k) = {}
      <4> SUFFICES ASSUME NEW j \in open, j < k PROVE FALSE
        OBVIOUS
      <4>1. j \in Nat /\ k \in Nat /\ k <= j
        BY <1>4, <3>1
      <4> QED BY <4>1
    <3>3. Cardinality(Before(k)) = 0
      BY <3>2, FS_EmptySet
    <3> QED BY <1>10, <3>1, <3>3
  <2>2. PICK m : m = Sd!NextUnbilledIndex(s, from, starts)
    OBVIOUS
  <2>3. m \in Nat /\ m >= from /\ m <= from + c /\ Sd!PeriodStart(s, m) \notin starts
    BY <2>2, NextUnbilledIs
  <2>4. m \in from .. from + n + c
    BY <1>1, <2>3
  <2> QED BY <1>3, <2>1, <2>2, <2>3, <2>4
<1>11. \A k \in I : k >= from /\ k <= from + n + c
                    /\ Sd!PeriodStart(s, k) \notin starts /\ ~Sd!PastEnd(s, Sd!PeriodStart(s, k))
  BY <1>1, <1>3
<1>12. I \subseteq Nat
  BY <1>4
<1> HIDE DEF I
<1> QED BY <1>2, <1>7, <1>8, <1>9, <1>10, <1>11, <1>12

-----------------------------------------------------------------------------
(* The invoices a schedule raised.                                         *)
PeriodRows == [from : Nat, to : Nat]

Invoiced(invs) ==
    /\ IsFiniteSet(invs)
    /\ invs \subseteq [periods : SUBSET PeriodRows, status : {"draft", "sent"}]
    /\ \A v \in invs : v.periods # {} /\ IsFiniteSet(v.periods)

LEMMA InvoicedIs ==
  ASSUME NEW invs, Invoiced(invs)
  PROVE  /\ IsFiniteSet(Sd!Billed(invs)) /\ Sd!Billed(invs) \subseteq PeriodRows
         /\ IsFiniteSet(Sd!BilledStarts(invs))
         /\ Sd!GeneratedCount(invs) = Cardinality(Sd!Billed(invs)) /\ Sd!GeneratedCount(invs) \in Nat
<1> DEFINE P == {v.periods : v \in invs}
           B == Sd!Billed(invs)
           S == {p.from : p \in B}
<1>1. IsFiniteSet(P)
  <2> DEFINE f == [v \in invs |-> v.periods]
  <2>1. f \in Surjection(invs, P)
    BY DEF Surjection
  <2> HIDE DEF f, P
  <2> QED BY <2>1, FS_Surjection DEF Invoiced
<1>2. \A T \in P : IsFiniteSet(T)
  BY DEF Invoiced
<1>3. B = UNION P
  BY DEF Sd!Billed
<1>4. B \subseteq PeriodRows
  BY <1>3 DEF Invoiced
<1> HIDE DEF P, B
<1>5. IsFiniteSet(B)
  BY <1>1, <1>2, <1>3, FS_UNION
<1>6. IsFiniteSet(S)
  <2> DEFINE f == [p \in B |-> p.from]
  <2>1. f \in Surjection(B, S)
    BY DEF Surjection
  <2> HIDE DEF f, S
  <2> QED BY <1>5, <2>1, FS_Surjection
<1>7. Sd!BilledStarts(invs) = S
  BY DEF Sd!BilledStarts, B
<1>8. Sd!GeneratedCount(invs) = Cardinality(B)
  BY ScheduleCardinality DEF Sd!GeneratedCount, B
<1> QED BY <1>4, <1>5, <1>6, <1>7, <1>8, FS_CardinalityType DEF B

(* As long as the calendar is not moved: what was billed are periods of it, *)
(* each once.                                                              *)
OnCalendar(s, invs) ==
    /\ \A p \in Sd!Billed(invs) : \E k \in Nat : p = Sd!PeriodAt(s, k)
    /\ \A v, w \in invs : v # w => v.periods \cap w.periods = {}

(* Up to its next day, or to the end of the agreement, a schedule has      *)
(* dealt with all its periods.                                             *)
Accounted(s, dealt) ==
    IF Ended(s) THEN \A k \in Nat : Sd!PastEnd(s, Sd!PeriodStart(s, k)) \/ Sd!PeriodAt(s, k) \in dealt
    ELSE \E n \in Nat : s.next = Sd!PeriodStart(s, n) /\ \A k \in Nat : k < n => Sd!PeriodAt(s, k) \in dealt

LEMMA StartsAre ==
  ASSUME NEW s, Scheduled(s), NEW invs, OnCalendar(s, invs), NEW k \in Nat
  PROVE  Sd!PeriodStart(s, k) \in Sd!BilledStarts(invs) <=> Sd!PeriodAt(s, k) \in Sd!Billed(invs)
<1>1. ASSUME Sd!PeriodStart(s, k) \in Sd!BilledStarts(invs) PROVE Sd!PeriodAt(s, k) \in Sd!Billed(invs)
  <2>1. PICK p \in Sd!Billed(invs) : p.from = Sd!PeriodStart(s, k)
    BY <1>1 DEF Sd!BilledStarts
  <2>2. PICK j \in Nat : p = Sd!PeriodAt(s, j)
    BY <2>1 DEF OnCalendar
  <2>3. p.from = Sd!PeriodStart(s, j)
    BY <2>2, PeriodsApart
  <2>4. Sd!PeriodStart(s, j) = Sd!PeriodStart(s, k)
    BY <2>1, <2>3
  <2>5. j = k
    BY <2>4, PeriodsApart
  <2> QED BY <2>1, <2>2, <2>5
<1>2. ASSUME Sd!PeriodAt(s, k) \in Sd!Billed(invs) PROVE Sd!PeriodStart(s, k) \in Sd!BilledStarts(invs)
  <2>1. Sd!PeriodAt(s, k).from = Sd!PeriodStart(s, k)
    BY PeriodsApart
  <2> QED BY <1>2, <2>1 DEF Sd!BilledStarts
<1> QED BY <1>1, <1>2

-----------------------------------------------------------------------------
(* One call of raiseInvoiceFor.                                            *)
SameTerms(s, t) ==
    t.startOn = s.startOn /\ t.len = s.len /\ t.endOn = s.endOn /\ t.max = s.max /\ t.per = s.per

LEMMA SameTermsAre ==
  ASSUME NEW s, NEW t, SameTerms(s, t)
  PROVE  /\ \A k : Sd!PeriodStart(t, k) = Sd!PeriodStart(s, k) /\ Sd!PeriodAt(t, k) = Sd!PeriodAt(s, k)
         /\ \A day : Sd!PastEnd(t, day) <=> Sd!PastEnd(s, day)
         /\ \A invs : Sd!NoneRemain(t, invs) <=> Sd!NoneRemain(s, invs)
         /\ \A invs : OnCalendar(t, invs) <=> OnCalendar(s, invs)
<1>1. \A k : Sd!PeriodStart(t, k) = Sd!PeriodStart(s, k)
  BY DEF SameTerms, Sd!PeriodStart
<1>2. \A k : Sd!PeriodAt(t, k) = Sd!PeriodAt(s, k)
  BY <1>1 DEF Sd!PeriodAt, Sd!PeriodEnd
<1>3. \A day : Sd!PastEnd(t, day) <=> Sd!PastEnd(s, day)
  BY DEF SameTerms, Sd!PastEnd
<1>4. \A invs : Sd!NoneRemain(t, invs) <=> Sd!NoneRemain(s, invs)
  BY DEF SameTerms, Sd!NoneRemain
<1> QED BY <1>1, <1>2, <1>3, <1>4 DEF OnCalendar

LEMMA EndedIs ==
  ASSUME NEW s, Scheduled(s)
  PROVE  Scheduled(Sd!Ended(s)) /\ SameTerms(s, Sd!Ended(s)) /\ Ended(Sd!Ended(s)) /\ Sd!Ended(s).next = NoDay
<1>1. PICK t : t = Sd!Ended(s)
  OBVIOUS
<1>2. t = [s EXCEPT !.status = "ended", !.next = NoDay]
  BY <1>1 DEF Sd!Ended
<1>3. t.status = "ended" /\ t.next = NoDay /\ SameTerms(s, t)
      /\ t \in [status : {"active", "paused", "ended"}, startOn : StartDays, len : Lengths,
                next : Nat \cup {NoDay}, endOn : EndDays, max : Limits, per : PerInvoice]
  BY <1>2 DEF Scheduled, SameTerms
<1> QED BY <1>1, <1>3 DEF Scheduled, Ended

LEMMA MovedOnIs ==
  ASSUME NEW s, Scheduled(s), ~Ended(s), NEW day \in Nat, NEW t, t = [s EXCEPT !.next = day]
  PROVE  Scheduled(t) /\ SameTerms(s, t) /\ t.status = s.status /\ t.next = day
<1>1. t.status = s.status /\ t.next = day /\ SameTerms(s, t)
      /\ t \in [status : {"active", "paused", "ended"}, startOn : StartDays, len : Lengths,
                next : Nat \cup {NoDay}, endOn : EndDays, max : Limits, per : PerInvoice]
  BY DEF Scheduled, SameTerms
<1>2. day # NoDay
  BY BillingAssumption
<1> QED BY <1>1, <1>2 DEF Scheduled, Ended

(* What such a call makes of a schedule and its invoices.                  *)
BillsOn(s, invs, t, raised) ==
    /\ Scheduled(t) /\ SameTerms(s, t)
    /\ Invoiced(raised) /\ invs \subseteq raised
    /\ OnCalendar(s, invs) => OnCalendar(t, raised)
    /\ \A p \in Sd!Billed(raised) \ Sd!Billed(invs) :
          ~Sd!PastEnd(s, p.from) /\ (s.max # NoLimit => Sd!GeneratedCount(raised) <= s.max)
    /\ \A off : OnCalendar(s, invs) /\ s.max = NoLimit /\ Accounted(s, Sd!Billed(invs) \cup off)
                   => Accounted(t, Sd!Billed(raised) \cup off)

LEMMA AdvanceIs ==
  ASSUME NEW s, Scheduled(s), s.status = "active", NEW invs, Invoiced(invs),
         NEW from \in Nat, from = Sd!PeriodIndexOf(s, s.next), NEW n \in Nat \ {0},
         s.max # NoLimit => Sd!GeneratedCount(invs) + n <= s.max,
         NEW I, I = Sd!UnbilledIndices(s, from, n, Sd!BilledStarts(invs)), I # {}
  PROVE  BillsOn(s, invs, Sd!Advance(s, invs, I)[1], Sd!Advance(s, invs, I)[2])
<1> DEFINE starts == Sd!BilledStarts(invs)
           c == Cardinality(starts)
           after(row) == invs \cup {row}
<1>1. IsFiniteSet(starts) /\ c \in Nat
  BY InvoicedIs, FS_CardinalityType
<1>2. /\ I \subseteq Nat /\ IsFiniteSet(I) /\ Cardinality(I) \in Nat /\ Cardinality(I) <= n
      /\ \A k \in I : k >= from /\ k <= from + n + c
                      /\ Sd!PeriodStart(s, k) \notin starts /\ ~Sd!PastEnd(s, Sd!PeriodStart(s, k))
      /\ \A i \in I : \A k \in Nat : from <= k /\ k <= i => Sd!PeriodStart(s, k) \in starts \/ k \in I
  BY <1>1, IndicesAre
<1>3. PICK last : last = CHOOSE k \in I : \A j \in I : j <= k
  OBVIOUS
<1>4. last \in I /\ \A j \in I : j <= last
  <2>1. from + n + c \in Nat
    BY <1>1
  <2> HIDE DEF c
  <2>2. \E k \in I : \A j \in I : j <= k
    BY <1>2, <2>1, GreatestNumber
  <2> QED BY <1>3, <2>2
<1>5. PICK row : row = [periods |-> {Sd!PeriodAt(s, k) : k \in I}, status |-> "draft"]
  OBVIOUS
<1>6. PICK raised : raised = invs \cup {row}
  OBVIOUS
<1>7. /\ row \in [periods : SUBSET PeriodRows, status : {"draft", "sent"}] /\ row.periods # {}
      /\ IsFiniteSet(row.periods) /\ Cardinality(row.periods) <= n /\ Cardinality(row.periods) \in Nat
  <2>1. \A k \in I : Sd!PeriodAt(s, k) \in PeriodRows
    BY <1>2, PeriodsApart DEF PeriodRows
  <2>2. IsFiniteSet(row.periods) /\ Cardinality(row.periods) <= Cardinality(I)
    <3> DEFINE f == [k \in I |-> Sd!PeriodAt(s, k)]
    <3>1. f \in Surjection(I, row.periods)
      BY <1>5 DEF Surjection
    <3> HIDE DEF f
    <3> QED BY <1>2, <3>1, FS_Surjection
  <2>3. Cardinality(row.periods) \in Nat
    BY <2>2, FS_CardinalityType
  <2> QED BY <1>2, <1>5, <2>1, <2>2, <2>3
<1>8. Invoiced(raised) /\ invs \subseteq raised /\ Sd!Billed(raised) = Sd!Billed(invs) \cup row.periods
  <2>1. IsFiniteSet(raised)
    BY <1>6, FS_AddElement DEF Invoiced
  <2>2. Invoiced(raised)
    BY <1>6, <1>7, <2>1 DEF Invoiced
  <2>3. Sd!Billed(raised) = Sd!Billed(invs) \cup row.periods
    BY <1>6 DEF Sd!Billed
  <2> QED BY <1>6, <2>2, <2>3
<1>9. PICK m : m = Sd!NextUnbilledIndex(s, last + 1, Sd!BilledStarts(raised))
  OBVIOUS
<1>10. /\ m \in Nat /\ m >= last + 1
       /\ \A j \in Nat : last + 1 <= j /\ j < m => Sd!PeriodStart(s, j) \in Sd!BilledStarts(raised)
  <2>1. last + 1 \in Nat /\ IsFiniteSet(Sd!BilledStarts(raised))
    BY <1>2, <1>4, <1>8, InvoicedIs
  <2> QED BY <1>9, <2>1, NextUnbilledIs
<1>11. PICK day : day = Sd!PeriodStart(s, m)
  OBVIOUS
<1>12. PICK onward : onward = [s EXCEPT !.next = day]
  OBVIOUS
<1>13. PICK t : t = IF Sd!NoneRemain(s, raised) \/ Sd!PastEnd(s, day) THEN Sd!Ended(onward) ELSE onward
  OBVIOUS
<1>14. Sd!Advance(s, invs, I) = <<t, raised>>
  BY <1>3, <1>5, <1>6, <1>9, <1>11, <1>12, <1>13 DEF Sd!Advance
<1>15. Scheduled(onward) /\ SameTerms(s, onward) /\ onward.status = s.status /\ onward.next = day /\ ~Ended(s)
  <2>1. day \in Nat /\ ~Ended(s)
    BY <1>10, <1>11, PeriodsApart DEF Ended
  <2> QED BY <1>12, <2>1, MovedOnIs
<1>16. Scheduled(t) /\ SameTerms(s, t)
  <2>1. Scheduled(Sd!Ended(onward)) /\ SameTerms(onward, Sd!Ended(onward))
    BY <1>15, EndedIs
  <2> QED BY <1>13, <1>15, <2>1 DEF SameTerms
<1>17. ASSUME OnCalendar(s, invs) PROVE OnCalendar(s, raised)
  <2>1. \A p \in Sd!Billed(raised) : \E k \in Nat : p = Sd!PeriodAt(s, k)
    BY <1>2, <1>5, <1>8, <1>17 DEF OnCalendar
  <2>2. \A k \in I : Sd!PeriodAt(s, k) \notin Sd!Billed(invs)
    BY <1>2, <1>17, StartsAre
  <2>3. \A v \in invs : v.periods \cap row.periods = {}
    BY <1>5, <2>2 DEF Sd!Billed
  <2>4. \A v, w \in raised : v # w => v.periods \cap w.periods = {}
    BY <1>6, <1>17, <2>3 DEF OnCalendar
  <2> QED BY <2>1, <2>4 DEF OnCalendar
<1>18. ASSUME NEW p \in Sd!Billed(raised) \ Sd!Billed(invs)
       PROVE  ~Sd!PastEnd(s, p.from) /\ (s.max # NoLimit => Sd!GeneratedCount(raised) <= s.max)
  <2>1. PICK k \in I : p = Sd!PeriodAt(s, k)
    BY <1>5, <1>8
  <2>2. p.from = Sd!PeriodStart(s, k)
    BY <1>2, <2>1, PeriodsApart
  <2>3. ASSUME s.max # NoLimit PROVE Sd!GeneratedCount(raised) <= s.max
    <3> DEFINE b == Cardinality(Sd!Billed(invs))
               e == Cardinality(row.periods)
               x == Cardinality(Sd!Billed(invs) \cap row.periods)
    <3>1. /\ IsFiniteSet(Sd!Billed(invs)) /\ b \in Nat /\ Sd!GeneratedCount(invs) = b
          /\ Sd!GeneratedCount(raised) = Cardinality(Sd!Billed(raised))
      BY <1>8, InvoicedIs
    <3>2. Cardinality(Sd!Billed(raised)) = b + e - x
      BY <1>7, <1>8, <3>1, FS_Union
    <3>3. x \in Nat
      BY <3>1, FS_Intersection, FS_CardinalityType
    <3>4. e \in Nat /\ e <= n
      BY <1>7
    <3>5. b + n <= s.max /\ s.max \in Nat
      BY <2>3, <3>1, ScheduledIs
    <3> HIDE DEF b, e, x
    <3> QED BY <3>1, <3>2, <3>3, <3>4, <3>5
  <2> QED BY <1>2, <2>1, <2>2, <2>3
<1>19. ASSUME NEW off, OnCalendar(s, invs), s.max = NoLimit, Accounted(s, Sd!Billed(invs) \cup off)
       PROVE  Accounted(t, Sd!Billed(raised) \cup off)
  <2> DEFINE dealt == Sd!Billed(raised) \cup off
  <2>1. PICK q \in Nat : s.next = Sd!PeriodStart(s, q) /\ \A k \in Nat : k < q => Sd!PeriodAt(s, k) \in Sd!Billed(invs) \cup off
    BY <1>15, <1>19 DEF Accounted
  <2>2. q = from
    <3>1. s.next \in Nat
      BY <1>15, ScheduledIs
    <3> QED BY <2>1, <3>1, IndexIs
  <2>3. \A k \in Nat : k < m => Sd!PeriodAt(s, k) \in dealt
    <3> SUFFICES ASSUME NEW k \in Nat, k < m PROVE Sd!PeriodAt(s, k) \in dealt
      OBVIOUS
    <3>1. CASE k < from
      BY <1>8, <2>1, <2>2, <3>1
    <3>2. CASE from <= k /\ k <= last
      <4>1. Sd!PeriodStart(s, k) \in starts \/ k \in I
        BY <1>2, <1>4, <3>2
      <4>2. CASE k \in I
        BY <1>5, <1>8, <4>2
      <4>3. CASE Sd!PeriodStart(s, k) \in starts
        BY <1>8, <1>19, <4>3, StartsAre
      <4> QED BY <4>1, <4>2, <4>3
    <3>3. CASE last + 1 <= k
      <4>1. Sd!PeriodStart(s, k) \in Sd!BilledStarts(raised)
        BY <1>10, <3>3
      <4> QED BY <1>17, <1>19, <4>1, StartsAre
    <3>4. last \in Nat
      BY <1>2, <1>4
    <3> QED BY <3>1, <3>2, <3>3, <3>4
  <2>4. \A k : Sd!PeriodStart(t, k) = Sd!PeriodStart(s, k) /\ Sd!PeriodAt(t, k) = Sd!PeriodAt(s, k)
        /\ (Sd!PastEnd(t, Sd!PeriodStart(s, k)) <=> Sd!PastEnd(s, Sd!PeriodStart(s, k)))
    BY <1>16, SameTermsAre
  <2> HIDE DEF dealt
  <2>5. CASE Sd!PastEnd(s, day)
    <3>1. t = Sd!Ended(onward) /\ Ended(t)
      BY <1>13, <1>15, <2>5, EndedIs
    <3>2. \A k \in Nat : Sd!PastEnd(s, Sd!PeriodStart(s, k)) \/ Sd!PeriodAt(s, k) \in dealt
      <4>1. \A k \in Nat : m <= k => Sd!PastEnd(s, Sd!PeriodStart(s, k))
        BY <1>10, <1>11, <2>5, PastEndIs
      <4>2. \A k \in Nat : m <= k \/ k < m
        BY <1>10
      <4> QED BY <2>3, <4>1, <4>2
    <3> QED BY <2>4, <3>1, <3>2 DEF Accounted, dealt
  <2>6. CASE ~Sd!PastEnd(s, day)
    <3>1. t = onward /\ ~Ended(t)
      BY <1>13, <1>15, <1>19, <2>6 DEF Sd!NoneRemain, Ended
    <3>2. t.next = Sd!PeriodStart(t, m)
      BY <1>11, <1>15, <2>4, <3>1
    <3> QED BY <1>10, <2>3, <2>4, <3>1, <3>2 DEF Accounted, dealt
  <2> QED BY <2>5, <2>6
<1>20. OnCalendar(s, invs) => OnCalendar(t, raised)
  BY <1>16, <1>17, SameTermsAre
<1>21. BillsOn(s, invs, t, raised)
  BY <1>8, <1>16, <1>18, <1>19, <1>20 DEF BillsOn
<1> QED BY <1>14, <1>21

LEMMA RaisedIs ==
  ASSUME NEW s, Scheduled(s), NEW invs, Invoiced(invs), NEW force \in BOOLEAN, NEW wanted \in Nat \ {0}
  PROVE  BillsOn(s, invs, Sd!Raised(s, invs, force, wanted)[1], Sd!Raised(s, invs, force, wanted)[2])
<1>1. BillsOn(s, invs, s, invs)
  BY DEF BillsOn, SameTerms
<1>2. SameTerms(s, Sd!Ended(s)) /\ Scheduled(Sd!Ended(s)) /\ Ended(Sd!Ended(s))
  BY EndedIs
<1>3. PICK r : r = Sd!Raised(s, invs, force, wanted)
  OBVIOUS
<1>4. CASE Sd!Waits(s, force)
  <2>1. r = <<s, invs>>
    BY <1>3, <1>4 DEF Sd!Raised
  <2> QED BY <1>1, <1>3, <2>1
<1>5. ASSUME ~Sd!Waits(s, force) PROVE s.status = "active" /\ ~Ended(s) /\ s.next \in Nat
  <2>1. s.status = "active" /\ ~Ended(s)
    BY <1>5 DEF Sd!Waits, Ended
  <2> QED BY <2>1, ScheduledIs
<1>6. \A k : /\ Sd!PeriodStart(Sd!Ended(s), k) = Sd!PeriodStart(s, k) /\ Sd!PeriodAt(Sd!Ended(s), k) = Sd!PeriodAt(s, k)
             /\ \A day : Sd!PastEnd(Sd!Ended(s), day) <=> Sd!PastEnd(s, day)
  BY <1>2, SameTermsAre
<1>7. ASSUME NEW n \in Nat, Sd!PastEnd(s, Sd!PeriodStart(s, n)), NEW dealt,
             \A k \in Nat : k < n => Sd!PeriodAt(s, k) \in dealt
      PROVE  Accounted(Sd!Ended(s), dealt)
  <2>1. \A k \in Nat : n <= k => Sd!PastEnd(s, Sd!PeriodStart(s, k))
    BY <1>7, PastEndIs
  <2>2. \A k \in Nat : n <= k \/ k < n
    OBVIOUS
  <2> QED BY <1>2, <1>6, <1>7, <2>1, <2>2 DEF Accounted
<1>8. ASSUME \A off : OnCalendar(s, invs) /\ s.max = NoLimit /\ Accounted(s, Sd!Billed(invs) \cup off)
                         => Accounted(Sd!Ended(s), Sd!Billed(invs) \cup off)
      PROVE  BillsOn(s, invs, Sd!Ended(s), invs)
  <2>1. OnCalendar(s, invs) => OnCalendar(Sd!Ended(s), invs)
    BY <1>2, SameTermsAre
  <2> QED BY <1>2, <1>8, <2>1 DEF BillsOn
<1>9. CASE ~Sd!Waits(s, force) /\ (Sd!NoneRemain(s, invs) \/ Sd!PastEnd(s, s.next))
  <2>1. r = <<Sd!Ended(s), invs>>
    BY <1>3, <1>9 DEF Sd!Raised
  <2>2. ASSUME NEW off, OnCalendar(s, invs), s.max = NoLimit, Accounted(s, Sd!Billed(invs) \cup off)
        PROVE  Accounted(Sd!Ended(s), Sd!Billed(invs) \cup off)
    <3>1. PICK n \in Nat : s.next = Sd!PeriodStart(s, n) /\ \A k \in Nat : k < n => Sd!PeriodAt(s, k) \in Sd!Billed(invs) \cup off
      BY <1>5, <1>9, <2>2 DEF Accounted
    <3>2. Sd!PastEnd(s, Sd!PeriodStart(s, n))
      BY <1>9, <2>2, <3>1 DEF Sd!NoneRemain
    <3> QED BY <1>7, <3>1, <3>2
  <2> QED BY <1>3, <1>8, <2>1, <2>2
<1>10. CASE ~Sd!Waits(s, force) /\ ~(Sd!NoneRemain(s, invs) \/ Sd!PastEnd(s, s.next))
  <2> DEFINE from == Sd!PeriodIndexOf(s, s.next)
             n == Sd!Wanted(s, invs, wanted)
             I == Sd!UnbilledIndices(s, from, n, Sd!BilledStarts(invs))
  <2>1. from \in Nat /\ IsFiniteSet(Sd!BilledStarts(invs))
    BY <1>5, <1>10, IndexIs, InvoicedIs
  <2>2. n \in Nat \ {0} /\ (s.max # NoLimit => Sd!GeneratedCount(invs) + n <= s.max)
    <3>1. PICK g \in Nat : g = Sd!GeneratedCount(invs)
      BY InvoicedIs
    <3>2. CASE s.max = NoLimit
      <4>1. n = wanted
        BY <3>2 DEF Sd!Wanted
      <4> QED BY <3>2, <4>1
    <3>3. CASE s.max # NoLimit
      <4>1. s.max \in Nat /\ ~(g >= s.max)
        BY <1>10, <3>1, <3>3, ScheduledIs DEF Sd!NoneRemain
      <4>2. n = IF wanted <= s.max - g THEN wanted ELSE s.max - g
        BY <3>1, <3>3 DEF Sd!Wanted
      <4> HIDE DEF n
      <4>3. n \in Nat \ {0} /\ g + n <= s.max
        BY <3>1, <4>1, <4>2
      <4> QED BY <3>1, <4>3
    <3> QED BY <3>2, <3>3
  <2>3. r = IF I = {} THEN <<Sd!Ended(s), invs>> ELSE Sd!Advance(s, invs, I)
    BY <1>3, <1>10, Zenon DEF Sd!Raised
  <2> HIDE DEF from, n
  <2>4. CASE I # {}
    <3>1. BillsOn(s, invs, Sd!Advance(s, invs, I)[1], Sd!Advance(s, invs, I)[2])
      <4>1. from = Sd!PeriodIndexOf(s, s.next)
        BY DEF from
      <4>2. PICK J : J = I
        OBVIOUS
      <4> QED BY <1>5, <1>10, <2>1, <2>2, <2>4, <4>1, <4>2, AdvanceIs
    <3> QED BY <1>3, <2>3, <2>4, <3>1
  <2>5. CASE I = {}
    <3>1. r = <<Sd!Ended(s), invs>>
      BY <2>3, <2>5
    <3>2. PICK m : m = Sd!NextUnbilledIndex(s, from, Sd!BilledStarts(invs))
      OBVIOUS
    <3>3. /\ m \in Nat /\ m >= from
          /\ \A j \in Nat : from <= j /\ j < m => Sd!PeriodStart(s, j) \in Sd!BilledStarts(invs)
      BY <2>1, <3>2, NextUnbilledIs
    <3>4. Sd!PastEnd(s, Sd!PeriodStart(s, m))
      BY <2>1, <2>2, <2>5, <3>2, IndicesAre
    <3>5. ASSUME NEW off, OnCalendar(s, invs), s.max = NoLimit, Accounted(s, Sd!Billed(invs) \cup off)
          PROVE  Accounted(Sd!Ended(s), Sd!Billed(invs) \cup off)
      <4> DEFINE dealt == Sd!Billed(invs) \cup off
      <4>1. PICK q \in Nat : s.next = Sd!PeriodStart(s, q) /\ \A k \in Nat : k < q => Sd!PeriodAt(s, k) \in dealt
        BY <1>5, <1>10, <3>5 DEF Accounted
      <4>2. q = from
        BY <1>5, <1>10, <4>1, IndexIs DEF from
      <4>3. \A k \in Nat : from <= k /\ k < m => Sd!PeriodAt(s, k) \in dealt
        BY <3>3, <3>5, StartsAre
      <4> HIDE DEF dealt
      <4>4. \A k \in Nat : k < m => Sd!PeriodAt(s, k) \in dealt
        <5>1. \A k \in Nat : k < from \/ from <= k
          BY <2>1
        <5> QED BY <4>1, <4>2, <4>3, <5>1
      <4>5. Accounted(Sd!Ended(s), dealt)
        BY <1>7, <3>3, <3>4, <4>4
      <4> QED BY <4>5 DEF dealt
    <3> QED BY <1>3, <1>8, <3>1, <3>5
  <2> QED BY <2>4, <2>5
<1> QED BY <1>4, <1>9, <1>10

LEMMA BillsOnOn ==
  ASSUME NEW s, NEW i, NEW t, NEW j, NEW u, NEW k, Invoiced(i), BillsOn(s, i, t, j), BillsOn(t, j, u, k)
  PROVE  BillsOn(s, i, u, k)
<1>1. /\ Scheduled(u) /\ SameTerms(s, t) /\ SameTerms(t, u) /\ Invoiced(j) /\ Invoiced(k) /\ i \subseteq j /\ j \subseteq k
  BY DEF BillsOn
<1>2. SameTerms(s, u) /\ s.max = t.max
  BY <1>1 DEF SameTerms
<1>3. OnCalendar(s, i) => OnCalendar(u, k)
  BY DEF BillsOn
<1>4. ASSUME NEW p \in Sd!Billed(k) \ Sd!Billed(i)
      PROVE  ~Sd!PastEnd(s, p.from) /\ (s.max # NoLimit => Sd!GeneratedCount(k) <= s.max)
  <2>1. CASE p \notin Sd!Billed(j)
    <3>1. ~Sd!PastEnd(t, p.from) /\ (t.max # NoLimit => Sd!GeneratedCount(k) <= t.max)
      BY <1>4, <2>1 DEF BillsOn
    <3> QED BY <1>1, <1>2, <3>1, SameTermsAre
  <2>2. CASE p \in Sd!Billed(j)
    <3>1. ~Sd!PastEnd(s, p.from) /\ (s.max # NoLimit => Sd!GeneratedCount(j) <= s.max)
      BY <1>4, <2>2 DEF BillsOn
    <3>2. CASE Sd!Billed(k) = Sd!Billed(j)
      BY <3>1, <3>2 DEF Sd!GeneratedCount
    <3>3. CASE Sd!Billed(k) # Sd!Billed(j)
      <4>1. PICK q : q \in Sd!Billed(k) \ Sd!Billed(j)
        BY <1>1, <3>3 DEF Sd!Billed
      <4>2. t.max # NoLimit => Sd!GeneratedCount(k) <= t.max
        BY <4>1 DEF BillsOn
      <4> QED BY <1>2, <3>1, <4>2
    <3> QED BY <3>2, <3>3
  <2> QED BY <2>1, <2>2
<1>5. ASSUME NEW off, OnCalendar(s, i), s.max = NoLimit, Accounted(s, Sd!Billed(i) \cup off)
      PROVE  Accounted(u, Sd!Billed(k) \cup off)
  <2>1. OnCalendar(t, j) /\ Accounted(t, Sd!Billed(j) \cup off)
    BY <1>5 DEF BillsOn
  <2> QED BY <1>2, <1>5, <2>1 DEF BillsOn
<1> QED BY <1>1, <1>2, <1>3, <1>4, <1>5 DEF BillsOn

(* The passes of one sweep: as many calls as MaxCatchUp, each going on     *)
(* from where the one before left off.                                     *)
RaisedNext(x) == Sd!Raised(x[1], x[2], FALSE, schedule.per)

Passes(g, n) == g = [m \in 0..n |-> IF m = 0 THEN <<schedule, invoices>> ELSE RaisedNext(g[m - 1])]

LEMMA PassesExist ==
  ASSUME NEW N \in Nat
  PROVE  \E g : Passes(g, N)
<1> DEFINE Bad == {n \in Nat : ~ \E g : Passes(g, n)}
<1> SUFFICES ASSUME Bad # {} PROVE FALSE
  OBVIOUS
<1>1. PICK n \in Bad : \A m \in Bad : n <= m
  BY LeastNumber
<1>2. CASE n = 0
  <2> DEFINE g == [m \in 0..0 |-> <<schedule, invoices>>]
  <2>1. \A m \in 0..0 : m = 0
    OBVIOUS
  <2>2. g = [m \in 0..0 |-> IF m = 0 THEN <<schedule, invoices>> ELSE RaisedNext(g[m - 1])]
    BY <2>1
  <2>3. Passes(g, 0)
    BY <2>2 DEF Passes
  <2> QED BY <1>1, <1>2, <2>3
<1>3. CASE n # 0
  <2>1. n - 1 \in Nat /\ ~(n <= n - 1)
    BY <1>3
  <2>2. PICK g : Passes(g, n - 1)
    BY <1>1, <2>1
  <2> DEFINE h == [m \in 0..n |-> IF m = n THEN RaisedNext(g[n - 1]) ELSE g[m]]
  <2>3. ASSUME NEW m \in 0..n PROVE h[m] = IF m = 0 THEN <<schedule, invoices>> ELSE RaisedNext(h[m - 1])
    <3>1. CASE m = n
      <4>1. m # 0 /\ m - 1 \in 0..n /\ m - 1 # n /\ h[m - 1] = g[m - 1]
        BY <1>3, <3>1
      <4>2. h[m] = RaisedNext(g[n - 1])
        BY <3>1
      <4> HIDE DEF h
      <4> QED BY <3>1, <4>1, <4>2
    <3>2. CASE m # n
      <4>1. m \in 0..(n - 1) /\ h[m] = g[m]
        BY <3>2
      <4>2. g[m] = IF m = 0 THEN <<schedule, invoices>> ELSE RaisedNext(g[m - 1])
        BY <2>2, <4>1 DEF Passes
      <4>3. m # 0 => h[m - 1] = g[m - 1]
        BY <4>1
      <4> HIDE DEF h
      <4> QED BY <4>1, <4>2, <4>3
    <3> QED BY <3>1, <3>2
  <2>4. h = [m \in 0..n |-> h[m]]
    OBVIOUS
  <2> HIDE DEF h
  <2>5. h = [m \in 0..n |-> IF m = 0 THEN <<schedule, invoices>> ELSE RaisedNext(h[m - 1])]
    BY <2>3, <2>4
  <2>6. Passes(h, n)
    BY <2>5 DEF Passes
  <2> QED BY <1>1, <2>6
<1> QED BY <1>2, <1>3

LEMMA PassesBill ==
  ASSUME NEW g, NEW N \in Nat, Passes(g, N), Scheduled(schedule), Invoiced(invoices), NEW n \in 0..N
  PROVE  BillsOn(schedule, invoices, g[n][1], g[n][2])
<1> DEFINE Good(m) == BillsOn(schedule, invoices, g[m][1], g[m][2])
           Bad == {m \in 0..N : ~Good(m)}
<1> SUFFICES ASSUME Bad # {} PROVE FALSE
  OBVIOUS
<1>1. Bad \subseteq Nat
  OBVIOUS
<1> HIDE DEF Bad
<1>2. PICK m \in Bad : \A k \in Bad : m <= k
  BY <1>1, LeastNumber
<1> USE DEF Bad
<1>3. g[m] = IF m = 0 THEN <<schedule, invoices>> ELSE RaisedNext(g[m - 1])
  BY DEF Passes
<1>4. CASE m = 0
  <2>1. g[m][1] = schedule /\ g[m][2] = invoices
    BY <1>3, <1>4
  <2>2. BillsOn(schedule, invoices, schedule, invoices)
    BY DEF BillsOn, SameTerms
  <2> QED BY <2>1, <2>2
<1>5. CASE m # 0
  <2>1. m - 1 \in 0..N /\ ~(m <= m - 1)
    BY <1>5
  <2>2. Good(m - 1)
    BY <1>2, <2>1
  <2> DEFINE t == g[m - 1][1]
             raised == g[m - 1][2]
  <2>3. Scheduled(t) /\ Invoiced(raised)
    BY <2>2 DEF BillsOn
  <2>4. g[m] = Sd!Raised(t, raised, FALSE, schedule.per) /\ schedule.per \in Nat \ {0}
    BY <1>3, <1>5, ScheduledIs DEF RaisedNext
  <2> HIDE DEF t, raised
  <2>5. BillsOn(t, raised, g[m][1], g[m][2])
    BY <2>3, <2>4, RaisedIs
  <2>6. BillsOn(schedule, invoices, t, raised)
    BY <2>2 DEF t, raised
  <2> QED BY <2>5, <2>6, BillsOnOn
<1> QED BY <1>4, <1>5

LEMMA SweepBills ==
  ASSUME Scheduled(schedule), Invoiced(invoices), Sd!Sweep
  PROVE  /\ BillsOn(schedule, invoices, schedule', invoices')
         /\ UNCHANGED <<blocked, today, updates, letOff, moved, closed>>
<1> DEFINE pass == CHOOSE g : Passes(g, MaxCatchUp)
<1>1. Passes(pass, MaxCatchUp)
  BY PassesExist, BillingAssumption
<1>2. schedule' = pass[MaxCatchUp][1] /\ invoices' = pass[MaxCatchUp][2]
      /\ UNCHANGED <<blocked, today, updates, letOff, moved, closed>>
  BY DEF Sd!Sweep, Sd!Take, Sd!history, Passes, RaisedNext
<1>3. PICK g : g = pass
  OBVIOUS
<1> HIDE DEF pass
<1>4. MaxCatchUp \in Nat /\ MaxCatchUp \in 0..MaxCatchUp
  BY BillingAssumption
<1>5. BillsOn(schedule, invoices, g[MaxCatchUp][1], g[MaxCatchUp][2])
  BY <1>1, <1>3, <1>4, PassesBill
<1> QED BY <1>2, <1>3, <1>5

-----------------------------------------------------------------------------
(* What holds of a schedule and its invoices.                              *)
ScheduleInv ==
    /\ Scheduled(schedule) /\ Invoiced(invoices)
    /\ blocked \in BOOLEAN /\ today \in 0 .. LastDay
    /\ updates \in Nat /\ moved \in BOOLEAN /\ closed \in BOOLEAN
    /\ updates = 0 => ~moved
    /\ ~moved => OnCalendar(schedule, invoices)
    /\ updates = 0 /\ ~closed /\ schedule.max = NoLimit => Accounted(schedule, Sd!Billed(invoices) \cup letOff)

LEMMA ScheduleInit == Sd!Init => ScheduleInv
<1> SUFFICES ASSUME Sd!Init PROVE ScheduleInv
  OBVIOUS
<1>1. PICK startOn \in StartDays, len \in Lengths, endOn \in EndDays, max \in Limits, per \in PerInvoice :
        schedule = [status |-> "active", startOn |-> startOn, len |-> len, next |-> startOn,
                    endOn |-> endOn, max |-> max, per |-> per]
  BY DEF Sd!Init
<1>2. /\ invoices = {} /\ blocked = FALSE /\ today = 0
      /\ updates = 0 /\ letOff = {} /\ moved = FALSE /\ closed = FALSE
  BY DEF Sd!Init
<1>3. startOn \in Nat /\ startOn # NoDay /\ len \in Nat
  BY BillingAssumption
<1>4. Scheduled(schedule) /\ ~Ended(schedule) /\ schedule.next = startOn
  BY <1>1, <1>3 DEF Scheduled, Ended
<1>5. Invoiced({}) /\ Sd!Billed({}) = {}
  BY FS_EmptySet DEF Invoiced, Sd!Billed
<1>6. OnCalendar(schedule, {})
  BY <1>5 DEF OnCalendar
<1>7. Sd!PeriodStart(schedule, 0) = startOn
  BY <1>1, <1>3 DEF Sd!PeriodStart
<1>8. Accounted(schedule, {})
  BY <1>4, <1>7 DEF Accounted
<1>9. today \in 0 .. LastDay
  BY <1>2, BillingAssumption
<1> QED BY <1>2, <1>4, <1>5, <1>6, <1>8, <1>9 DEF ScheduleInv

LEMMA AccountedWithin ==
  ASSUME NEW s, NEW D, NEW E, D \subseteq E, Accounted(s, D)
  PROVE  Accounted(s, E)
<1>1. CASE Ended(s)
  BY <1>1 DEF Accounted
<1>2. CASE ~Ended(s)
  BY <1>2 DEF Accounted
<1> QED BY <1>1, <1>2

LEMMA ScheduleHolds == ScheduleInv => Sd!TypeOK /\ Sd!NoDayBilledTwice /\ Sd!NothingForgotten
<1> SUFFICES ASSUME ScheduleInv PROVE Sd!TypeOK /\ Sd!NoDayBilledTwice /\ Sd!NothingForgotten
  OBVIOUS
<1>1. Scheduled(schedule) /\ Invoiced(invoices)
  BY DEF ScheduleInv
<1>2. Sd!TypeOK
  <2>1. schedule \in Sd!Schedules /\ (schedule.status = "ended") = (schedule.next = NoDay)
    BY <1>1 DEF Scheduled, Ended, Sd!Schedules
  <2>2. \A v \in invoices : v.status \in {"draft", "sent"} /\ v.periods # {}
    BY <1>1 DEF Invoiced
  <2> QED BY <2>1, <2>2 DEF ScheduleInv, Sd!TypeOK
<1>3. ASSUME ~moved PROVE Sd!BilledOnce
  <2>1. OnCalendar(schedule, invoices)
    BY <1>3 DEF ScheduleInv
  <2>2. ASSUME NEW p \in Sd!Billed(invoices), NEW q \in Sd!Billed(invoices), Sd!Overlap(p, q) PROVE p = q
    <3>1. PICK j \in Nat, k \in Nat : p = Sd!PeriodAt(schedule, j) /\ q = Sd!PeriodAt(schedule, k)
      BY <2>1 DEF OnCalendar
    <3>2. /\ p.from = Sd!PeriodStart(schedule, j) /\ p.to = Sd!PeriodStart(schedule, j + 1) - 1
          /\ q.from = Sd!PeriodStart(schedule, k) /\ q.to = Sd!PeriodStart(schedule, k + 1) - 1
      BY <1>1, <3>1, PeriodsApart
    <3>3. p.from <= q.to /\ q.from <= p.to
      BY <2>2 DEF Sd!Overlap
    <3>4. PICK a \in Int, b \in Int, x \in Int, y \in Int :
            /\ a = Sd!PeriodStart(schedule, j) /\ b = Sd!PeriodStart(schedule, j + 1)
            /\ x = Sd!PeriodStart(schedule, k) /\ y = Sd!PeriodStart(schedule, k + 1)
      <4>1. j + 1 \in Nat /\ k + 1 \in Nat
        OBVIOUS
      <4>2. \A i \in Nat : Sd!PeriodStart(schedule, i) \in Int
        <5>1. \A i \in Nat : Sd!PeriodStart(schedule, i) \in Nat
          BY <1>1, PeriodsApart
        <5> QED BY <5>1
      <4> QED BY <4>1, <4>2
    <3>5. (j < k => b <= x) /\ (k < j => y <= a)
      BY <1>1, <3>4, PeriodsApart
    <3>6. a <= y - 1 /\ x <= b - 1
      BY <3>2, <3>3, <3>4
    <3>7. j = k
      BY <3>4, <3>5, <3>6
    <3> QED BY <3>1, <3>7
  <2> QED BY <2>1, <2>2 DEF Sd!BilledOnce, OnCalendar
<1>4. Sd!NothingForgotten
  <2> SUFFICES ASSUME schedule.status # "ended", ~closed, schedule.max = NoLimit, updates = 0,
                      NEW day \in schedule.startOn .. schedule.next - 1
               PROVE  \E p \in Sd!Billed(invoices) \cup letOff : day \in p.from .. p.to
    BY Zenon DEF Sd!NothingForgotten
  <2>1. PICK n \in Nat : /\ schedule.next = Sd!PeriodStart(schedule, n)
                         /\ \A k \in Nat : k < n => Sd!PeriodAt(schedule, k) \in Sd!Billed(invoices) \cup letOff
    BY DEF ScheduleInv, Accounted, Ended
  <2>2. PICK l \in Nat \ {0}, a \in Nat : l = schedule.len /\ a = schedule.startOn
    BY <1>1, ScheduledIs
  <2>3. day - a \in Nat /\ day < schedule.next /\ day \in Int /\ schedule.next \in Nat
    <3>1. schedule.next \in Nat
      BY <1>1, <2>1, PeriodsApart
    <3> QED BY <2>2, <3>1
  <2>4. PICK k \in Nat : l * k <= day - a /\ day - a < l * k + l
    BY <2>2, <2>3, PartsOf
  <2>5. /\ Sd!PeriodStart(schedule, k) = a + l * k /\ Sd!PeriodStart(schedule, k + 1) = a + l * (k + 1)
        /\ l * k \in Nat /\ l * (k + 1) = l * k + l
    BY <2>2, TimesGrows DEF Sd!PeriodStart
  <2>6. PICK x \in Nat : x = l * k
    BY <2>5
  <2>7. Sd!PeriodStart(schedule, k) <= day /\ day <= Sd!PeriodStart(schedule, k + 1) - 1
        /\ Sd!PeriodStart(schedule, k) \in Nat /\ Sd!PeriodStart(schedule, k + 1) - 1 \in Int
    BY ONLY <2>2, <2>3, <2>4, <2>5, <2>6, SMT
  <2>8. Sd!PeriodStart(schedule, k) < Sd!PeriodStart(schedule, n)
    BY <2>1, <2>3, <2>7
  <2>9. k < n
    BY <1>1, <2>8, PeriodsApart
  <2>10. /\ Sd!PeriodAt(schedule, k).from = Sd!PeriodStart(schedule, k)
         /\ Sd!PeriodAt(schedule, k).to = Sd!PeriodStart(schedule, k + 1) - 1
    BY <1>1, PeriodsApart
  <2>11. day \in Sd!PeriodAt(schedule, k).from .. Sd!PeriodAt(schedule, k).to
    BY <2>3, <2>7, <2>10
  <2> QED BY <2>1, <2>9, <2>11
<1> QED BY <1>2, <1>3, <1>4 DEF Sd!NoDayBilledTwice

(* A step that bills.                                                      *)
LEMMA BillsOnMoves ==
  ASSUME ScheduleInv, BillsOn(schedule, invoices, schedule', invoices'),
         UNCHANGED <<blocked, today, updates, letOff, moved, closed>>
  PROVE  ScheduleInv' /\ Sd!BillsWithin
<1>1. PICK s, i, t, j : s = schedule /\ i = invoices /\ t = schedule' /\ j = invoices'
  OBVIOUS
<1>2. BillsOn(s, i, t, j)
  BY <1>1
<1>3. Scheduled(t) /\ SameTerms(s, t) /\ Invoiced(j) /\ (OnCalendar(s, i) => OnCalendar(t, j)) /\ t.max = s.max
  BY <1>2 DEF BillsOn, SameTerms
<1>4. Sd!BillsWithin
  <2>1. \A p \in Sd!Billed(j) \ Sd!Billed(i) :
          ~Sd!PastEnd(s, p.from) /\ (s.max # NoLimit => Sd!GeneratedCount(j) <= s.max)
    BY <1>2 DEF BillsOn
  <2> QED BY <1>1, <2>1 DEF Sd!BillsWithin
<1>5. ASSUME updates = 0, ~closed, t.max = NoLimit PROVE Accounted(t, Sd!Billed(j) \cup letOff)
  <2>1. OnCalendar(s, i) /\ Accounted(s, Sd!Billed(i) \cup letOff)
    BY <1>1, <1>3, <1>5 DEF ScheduleInv
  <2> QED BY <1>2, <1>3, <1>5, <2>1 DEF BillsOn
<1>6. moved \/ OnCalendar(t, j)
  BY <1>1, <1>3 DEF ScheduleInv
<1>7. ScheduleInv'
  BY <1>1, <1>3, <1>5, <1>6 DEF ScheduleInv
<1> QED BY <1>4, <1>7

(* A step that bills nothing.                                              *)
LEMMA NothingBilled ==
  ASSUME Sd!Billed(invoices') \subseteq Sd!Billed(invoices)
  PROVE  Sd!BillsWithin
BY DEF Sd!BillsWithin

LEMMA UpdateMoves ==
  ASSUME ScheduleInv, NEW moves \in BOOLEAN, NEW startOn \in StartDays, NEW len \in Lengths, NEW endOn \in EndDays,
         NEW max \in Limits, NEW per \in PerInvoice, Sd!Update(moves, startOn, len, endOn, max, per)
  PROVE  ScheduleInv' /\ Sd!BillsWithin
<1> DEFINE from == IF schedule.next = NoDay THEN startOn ELSE schedule.next
<1>1. PICK s : s = [schedule EXCEPT !.startOn = startOn, !.len = len, !.endOn = endOn, !.max = max, !.per = per]
  OBVIOUS
<1>2. /\ moves \/ (startOn = schedule.startOn /\ len = schedule.len)
      /\ schedule' = IF moves /\ s.status # "ended" THEN [s EXCEPT !.next = Sd!Reanchored(s, from)] ELSE s
      /\ updates' = updates + 1 /\ moved' = (moved \/ moves)
      /\ UNCHANGED <<invoices, blocked, today, letOff, closed>>
  BY <1>1, Zenon DEF Sd!Update
<1>3. Scheduled(s) /\ s.startOn = startOn /\ s.len = len /\ s.next = schedule.next /\ s.status = schedule.status
  BY <1>1 DEF ScheduleInv, Scheduled, Ended
<1>4. from \in Nat
  <2>1. startOn \in Nat /\ schedule.next \in Nat \cup {NoDay}
    BY BillingAssumption, ScheduledIs DEF ScheduleInv
  <2> QED BY <2>1
<1>5. Sd!Reanchored(s, from) \in Nat
  <2> HIDE DEF from
  <2>1. Sd!PeriodIndexOf(s, from) + 1 \in Nat
    BY <1>3, <1>4, IndexIs
  <2> QED BY <1>3, <2>1, PeriodsApart DEF Sd!Reanchored
<1>6. PICK t : t = schedule'
  OBVIOUS
<1>7. Scheduled(t) /\ t.startOn = startOn /\ t.len = len
  <2>1. CASE moves /\ s.status # "ended"
    <3>1. t = [s EXCEPT !.next = Sd!Reanchored(s, from)]
      BY <1>2, <1>6, <2>1
    <3> HIDE DEF from
    <3> QED BY <1>3, <1>5, <2>1, <3>1, MovedOnIs DEF Ended, SameTerms
  <2>2. CASE ~(moves /\ s.status # "ended")
    BY <1>2, <1>3, <1>6, <2>2
  <2> QED BY <2>1, <2>2
<1>8. ASSUME ~moved, ~moves PROVE OnCalendar(t, invoices)
  <2>1. t.startOn = schedule.startOn /\ t.len = schedule.len
    BY <1>2, <1>7, <1>8
  <2>2. \A k : Sd!PeriodAt(t, k) = Sd!PeriodAt(schedule, k)
    BY <2>1 DEF Sd!PeriodAt, Sd!PeriodEnd, Sd!PeriodStart
  <2> QED BY <1>8, <2>2 DEF ScheduleInv, OnCalendar
<1>9. updates' \in Nat /\ updates' # 0
  BY <1>2 DEF ScheduleInv
<1>10. ScheduleInv'
  BY <1>2, <1>6, <1>7, <1>8, <1>9 DEF ScheduleInv
<1> QED BY <1>2, <1>10, NothingBilled

LEMMA ChangeStatusMoves ==
  ASSUME ScheduleInv, NEW st \in {"active", "paused", "ended"}, Sd!ChangeStatus(st)
  PROVE  ScheduleInv' /\ Sd!BillsWithin
<1>1. Scheduled(schedule) /\ Invoiced(invoices)
  BY DEF ScheduleInv
<1>2. PICK m : m = Sd!NextUnbilledIndex(schedule, 0, Sd!BilledStarts(invoices))
  OBVIOUS
<1>3. m \in Nat /\ \A j \in Nat : 0 <= j /\ j < m => Sd!PeriodStart(schedule, j) \in Sd!BilledStarts(invoices)
  BY <1>1, <1>2, InvoicedIs, NextUnbilledIs
<1>4. PICK day : day = IF st = "ended" THEN NoDay
                       ELSE IF schedule.next = NoDay THEN Sd!PeriodStart(schedule, m) ELSE schedule.next
  OBVIOUS
<1>5. /\ schedule' = [schedule EXCEPT !.status = st, !.next = day]
      /\ closed' = (st = "ended" \/ (closed /\ schedule.status # "ended"))
      /\ UNCHANGED <<invoices, blocked, today, updates, letOff, moved>>
  BY <1>2, <1>4 DEF Sd!ChangeStatus
<1>6. day \in Nat \cup {NoDay} /\ (st = "ended" <=> day = NoDay)
  <2>1. Sd!PeriodStart(schedule, m) \in Nat
    BY <1>1, <1>3, PeriodsApart
  <2>2. NoDay \notin Nat /\ schedule.next \in Nat \cup {NoDay}
    BY <1>1, BillingAssumption, ScheduledIs
  <2> QED BY <1>4, <2>1, <2>2
<1>7. PICK t : t = schedule'
  OBVIOUS
<1>8. Scheduled(t) /\ SameTerms(schedule, t) /\ t.status = st /\ t.next = day
  BY <1>1, <1>5, <1>6, <1>7 DEF Scheduled, SameTerms, Ended
<1>9. moved \/ OnCalendar(t, invoices)
  BY <1>8, SameTermsAre DEF ScheduleInv
<1>10. ASSUME updates = 0, ~closed', t.max = NoLimit PROVE Accounted(t, Sd!Billed(invoices) \cup letOff)
  <2>1. st # "ended" /\ (schedule.status = "ended" \/ ~closed) /\ schedule.max = NoLimit
    BY <1>5, <1>8, <1>10 DEF SameTerms
  <2>2. \A k : Sd!PeriodStart(t, k) = Sd!PeriodStart(schedule, k) /\ Sd!PeriodAt(t, k) = Sd!PeriodAt(schedule, k)
    BY <1>8, SameTermsAre
  <2>3. CASE schedule.status = "ended"
    <3>1. t.next = Sd!PeriodStart(schedule, m)
      BY <1>1, <1>4, <1>8, <2>1, <2>3 DEF Scheduled, Ended
    <3>2. OnCalendar(schedule, invoices)
      BY <1>10 DEF ScheduleInv
    <3>3. \A k \in Nat : k < m => Sd!PeriodAt(schedule, k) \in Sd!Billed(invoices)
      BY <1>1, <1>3, <3>2, StartsAre
    <3> QED BY <1>3, <1>8, <2>1, <2>2, <3>1, <3>3 DEF Accounted, Ended
  <2>4. CASE schedule.status # "ended"
    <3>1. t.next = schedule.next
      BY <1>1, <1>4, <1>8, <2>1, <2>4 DEF Scheduled, Ended
    <3>2. Accounted(schedule, Sd!Billed(invoices) \cup letOff)
      BY <1>10, <2>1, <2>4 DEF ScheduleInv
    <3> QED BY <1>8, <2>1, <2>2, <2>4, <3>1, <3>2 DEF Accounted, Ended
  <2> QED BY <2>3, <2>4
<1>11. closed' \in BOOLEAN
  BY <1>5
<1>12. ScheduleInv'
  BY <1>5, <1>7, <1>8, <1>9, <1>10, <1>11 DEF ScheduleInv
<1> QED BY <1>5, <1>12, NothingBilled

LEMMA SendMoves ==
  ASSUME ScheduleInv, NEW v \in invoices, Sd!Send(v)
  PROVE  ScheduleInv' /\ Sd!BillsWithin
<1>1. PICK u : u = [v EXCEPT !.status = "sent"]
  OBVIOUS
<1>2. PICK raised : raised = (invoices \ {v}) \cup {u}
  OBVIOUS
<1>3. invoices' = raised /\ UNCHANGED <<schedule, blocked, today, updates, letOff, moved, closed>>
  BY <1>1, <1>2 DEF Sd!Send, Sd!history
<1>4. Invoiced(invoices)
  BY DEF ScheduleInv
<1>5. u \in [periods : SUBSET PeriodRows, status : {"draft", "sent"}] /\ u.periods = v.periods
  BY <1>1, <1>4 DEF Invoiced
<1>6. Invoiced(raised)
  <2>1. IsFiniteSet(raised)
    BY <1>2, <1>4, FS_RemoveElement, FS_AddElement DEF Invoiced
  <2> QED BY <1>2, <1>4, <1>5, <2>1 DEF Invoiced
<1>7. Sd!Billed(raised) = Sd!Billed(invoices)
  BY <1>2, <1>5 DEF Sd!Billed
<1>8. moved \/ OnCalendar(schedule, raised)
  BY <1>2, <1>5, <1>7 DEF OnCalendar, ScheduleInv
<1>9. ScheduleInv'
  <2>1. Sd!Billed(invoices)' = Sd!Billed(raised)
    BY <1>3
  <2> QED BY <1>3, <1>6, <1>7, <1>8 DEF ScheduleInv
<1> QED BY <1>3, <1>7, <1>9, NothingBilled

(* The schedule after a draft is deleted to be billed again.               *)
LEMMA RewoundIs ==
  ASSUME ScheduleInv, NEW v \in invoices
  PROVE  LET t == Sd!Rewound(schedule, v)
         IN  /\ Scheduled(t) /\ SameTerms(schedule, t)
             /\ \E day \in Nat :
                  /\ \A p \in v.periods : day <= p.from
                  /\ \E p \in v.periods : p.from = day
                  /\ \/ t = schedule /\ Ended(t) /\ (schedule.max = NoLimit => Sd!PastEnd(schedule, day))
                     \/ ~Ended(t) /\ Ended(schedule) /\ t.next = day /\ ~Sd!PastEnd(schedule, day)
                     \/ ~Ended(t) /\ ~Ended(schedule) /\ t.next = IF schedule.next < day THEN schedule.next ELSE day
<1>1. Scheduled(schedule) /\ Invoiced(invoices)
  BY DEF ScheduleInv
<1>2. v.periods # {} /\ v.periods \subseteq PeriodRows
  BY <1>1 DEF Invoiced
<1> DEFINE days == {p.from : p \in v.periods}
<1>3. days \subseteq Nat /\ days # {}
  BY <1>2 DEF PeriodRows
<1>4. \E d \in days : \A p \in v.periods : d <= p.from
  <2>1. PICK d \in days : \A e \in days : d <= e
    BY <1>3, LeastNumber
  <2> QED BY <2>1
<1>5. PICK day : day = CHOOSE d \in days : \A p \in v.periods : d <= p.from
  OBVIOUS
<1>6. day \in days /\ \A p \in v.periods : day <= p.from
  BY <1>4, <1>5
<1>7. day \in Nat /\ day # NoDay /\ \E p \in v.periods : p.from = day
  BY <1>3, <1>6, BillingAssumption
<1> DEFINE Reopens(d) == /\ schedule.status = "ended"
                         /\ ~Sd!PastEnd(schedule, d)
                         /\ schedule.max = NoLimit \/ Sd!GeneratedCount(invoices) - Sd!Cardinality(v.periods) < schedule.max
           Back(d) == IF schedule.status = "ended" /\ ~Reopens(d) THEN schedule
                      ELSE [schedule EXCEPT !.next = Sd!RewoundTo(schedule, d), !.status = IF Reopens(d) THEN "active" ELSE schedule.status]
           reopen == Reopens(day)
<1>8. PICK t : t = Sd!Rewound(schedule, v)
  OBVIOUS
<1>9. t = IF schedule.status = "ended" /\ ~reopen THEN schedule
          ELSE [schedule EXCEPT !.next = Sd!RewoundTo(schedule, day), !.status = IF reopen THEN "active" ELSE schedule.status]
  <2>1. t = Back(CHOOSE d \in days : \A p \in v.periods : d <= p.from)
    BY <1>8 DEF Sd!Rewound
  <2> HIDE DEF Back
  <2>2. t = Back(day)
    BY <1>5, <2>1
  <2> QED BY <2>2 DEF Back
<1>10. CASE schedule.status = "ended" /\ ~reopen
  <2>1. t = schedule /\ Ended(t) /\ (schedule.max = NoLimit => Sd!PastEnd(schedule, day))
    BY <1>9, <1>10 DEF Ended
  <2>2. Scheduled(t) /\ SameTerms(schedule, t)
    BY <1>1, <2>1 DEF SameTerms
  <2> QED BY <1>6, <1>7, <1>8, <2>1, <2>2
<1>11. CASE reopen
  <2>1. schedule.next = NoDay
    BY <1>1, <1>11 DEF Scheduled, Ended
  <2>2. Sd!RewoundTo(schedule, day) = day
    BY <2>1 DEF Sd!RewoundTo
  <2>3. t = [schedule EXCEPT !.next = day, !.status = "active"]
    BY <1>9, <1>11, <2>2
  <2>4. Scheduled(t) /\ SameTerms(schedule, t) /\ t.next = day /\ t.status = "active"
    BY <1>1, <1>7, <2>3 DEF Scheduled, SameTerms, Ended
  <2>5. ~Ended(t) /\ Ended(schedule) /\ ~Sd!PastEnd(schedule, day)
    BY <1>11, <2>4 DEF Ended
  <2> QED BY <1>6, <1>7, <1>8, <2>4, <2>5
<1>12. CASE schedule.status # "ended"
  <2>1. schedule.next \in Nat /\ schedule.next # NoDay
    BY <1>1, <1>12, ScheduledIs DEF Ended, Scheduled
  <2>2. PICK to : to = IF schedule.next < day THEN schedule.next ELSE day
    OBVIOUS
  <2>3. Sd!RewoundTo(schedule, day) = to /\ to \in Nat /\ to # NoDay
    BY <1>7, <2>1, <2>2 DEF Sd!RewoundTo
  <2>4. t = [schedule EXCEPT !.next = to, !.status = schedule.status]
    BY <1>9, <1>12, <2>3
  <2>5. Scheduled(t) /\ SameTerms(schedule, t) /\ t.next = to /\ t.status = schedule.status
    BY <1>1, <2>3, <2>4, <1>12 DEF Scheduled, SameTerms, Ended
  <2>6. ~Ended(t) /\ ~Ended(schedule)
    BY <1>12, <2>5 DEF Ended
  <2> QED BY <1>6, <1>7, <1>8, <2>2, <2>5, <2>6
<1> QED BY <1>10, <1>11, <1>12

LEMMA DeleteDraftMoves ==
  ASSUME ScheduleInv, NEW v \in invoices, NEW mode \in {"rebill", "skip"}, Sd!DeleteDraft(v, mode)
  PROVE  ScheduleInv' /\ Sd!BillsWithin
<1>1. PICK raised : raised = invoices \ {v}
  OBVIOUS
<1>2. /\ invoices' = raised /\ UNCHANGED <<blocked, today, updates, moved, closed>>
      /\ schedule' = IF mode = "rebill" THEN Sd!Rewound(schedule, v) ELSE schedule
      /\ letOff' = IF mode = "skip" THEN letOff \cup v.periods ELSE letOff
  BY <1>1 DEF Sd!DeleteDraft
<1>3. Scheduled(schedule) /\ Invoiced(invoices)
  BY DEF ScheduleInv
<1>4. Invoiced(raised) /\ raised \subseteq invoices
  BY <1>1, <1>3, FS_RemoveElement DEF Invoiced
<1>5. Sd!Billed(raised) \subseteq Sd!Billed(invoices) /\ Sd!Billed(invoices) \subseteq Sd!Billed(raised) \cup v.periods
  BY <1>1 DEF Sd!Billed
<1>6. moved \/ OnCalendar(schedule, raised)
  BY <1>4, <1>5 DEF ScheduleInv, OnCalendar
<1>7. CASE mode = "skip"
  <2>1. schedule' = schedule /\ letOff' = letOff \cup v.periods
    BY <1>2, <1>7
  <2>2. updates = 0 /\ ~closed /\ schedule.max = NoLimit => Accounted(schedule, Sd!Billed(raised) \cup letOff')
    <3>1. Sd!Billed(invoices) \cup letOff \subseteq Sd!Billed(raised) \cup (letOff \cup v.periods)
      BY <1>5
    <3> QED BY <2>1, <3>1, AccountedWithin DEF ScheduleInv
  <2>3. ScheduleInv'
    BY <1>2, <1>3, <1>4, <1>6, <2>1, <2>2 DEF ScheduleInv
  <2> QED BY <1>2, <1>5, <2>3, NothingBilled
<1>8. CASE mode = "rebill"
  <2>1. PICK t : t = Sd!Rewound(schedule, v)
    OBVIOUS
  <2>2. schedule' = t /\ letOff' = letOff
    BY <1>2, <1>8, <2>1
  <2>3. Scheduled(t) /\ SameTerms(schedule, t)
    BY <2>1, RewoundIs
  <2>4. moved \/ OnCalendar(t, raised)
    BY <1>6, <2>3, SameTermsAre
  <2>5. ASSUME updates = 0, ~closed, t.max = NoLimit PROVE Accounted(t, Sd!Billed(raised) \cup letOff)
    <3> DEFINE dealt == Sd!Billed(invoices) \cup letOff
               left == Sd!Billed(raised) \cup letOff
    <3>1. OnCalendar(schedule, invoices) /\ schedule.max = NoLimit /\ Accounted(schedule, dealt)
      BY <2>3, <2>5 DEF ScheduleInv, SameTerms
    <3>2. PICK day \in Nat :
             /\ \A p \in v.periods : day <= p.from
             /\ \E p \in v.periods : p.from = day
             /\ \/ t = schedule /\ Ended(t) /\ (schedule.max = NoLimit => Sd!PastEnd(schedule, day))
                \/ ~Ended(t) /\ Ended(schedule) /\ t.next = day /\ ~Sd!PastEnd(schedule, day)
                \/ ~Ended(t) /\ ~Ended(schedule) /\ t.next = IF schedule.next < day THEN schedule.next ELSE day
      BY <2>1, RewoundIs
    <3>3. PICK e \in Nat : day = Sd!PeriodStart(schedule, e)
      <4>1. PICK p \in v.periods : p.from = day
        BY <3>2
      <4>2. p \in Sd!Billed(invoices)
        BY <4>1 DEF Sd!Billed
      <4>3. PICK e \in Nat : p = Sd!PeriodAt(schedule, e)
        BY <3>1, <4>2 DEF OnCalendar
      <4>4. p.from = Sd!PeriodStart(schedule, e)
        BY <1>3, <4>3, PeriodsApart
      <4> QED BY <4>1, <4>4
    <3>4. ASSUME NEW k \in Nat, k < e, Sd!PeriodAt(schedule, k) \in dealt PROVE Sd!PeriodAt(schedule, k) \in left
      <4>1. Sd!PeriodStart(schedule, k) < day /\ Sd!PeriodStart(schedule, k) \in Nat
            /\ Sd!PeriodAt(schedule, k).from = Sd!PeriodStart(schedule, k)
        BY <1>3, <3>3, <3>4, PeriodsApart
      <4>2. Sd!PeriodAt(schedule, k) \notin v.periods
        <5> SUFFICES ASSUME Sd!PeriodAt(schedule, k) \in v.periods PROVE FALSE
          OBVIOUS
        <5>1. day <= Sd!PeriodAt(schedule, k).from
          BY <3>2
        <5> QED BY <4>1, <5>1
      <4> QED BY <1>5, <3>4, <4>2
    <3>5. \A k : Sd!PeriodStart(t, k) = Sd!PeriodStart(schedule, k) /\ Sd!PeriodAt(t, k) = Sd!PeriodAt(schedule, k)
      BY <2>3, SameTermsAre
    <3>6. \A d : Sd!PastEnd(t, d) <=> Sd!PastEnd(schedule, d)
      BY <2>3, SameTermsAre
    <3> HIDE DEF dealt, left
    <3>7. \A k \in Nat : k < e \/ e <= k
      OBVIOUS
    <3>8. CASE t = schedule /\ Ended(t) /\ Sd!PastEnd(schedule, day)
      <4>1. \A k \in Nat : e <= k => Sd!PastEnd(schedule, Sd!PeriodStart(schedule, k))
        BY <1>3, <3>3, <3>8, PastEndIs
      <4>2. \A k \in Nat : Sd!PastEnd(schedule, Sd!PeriodStart(schedule, k)) \/ Sd!PeriodAt(schedule, k) \in dealt
        BY <3>1, <3>8 DEF Accounted
      <4>3. \A k \in Nat : Sd!PastEnd(schedule, Sd!PeriodStart(schedule, k)) \/ Sd!PeriodAt(schedule, k) \in left
        BY <3>4, <3>7, <4>1, <4>2
      <4> QED BY <3>8, <4>3 DEF Accounted, left
    <3>9. CASE ~Ended(t) /\ Ended(schedule) /\ t.next = day /\ ~Sd!PastEnd(schedule, day)
      <4>1. \A k \in Nat : k < e => ~Sd!PastEnd(schedule, Sd!PeriodStart(schedule, k))
        BY <1>3, <3>3, <3>9, PastEndIs
      <4>2. \A k \in Nat : k < e => Sd!PeriodAt(schedule, k) \in left
        BY <3>1, <3>4, <3>9, <4>1 DEF Accounted
      <4> QED BY <3>3, <3>5, <3>9, <4>2 DEF Accounted, left
    <3>10. CASE ~Ended(t) /\ ~Ended(schedule) /\ t.next = IF schedule.next < day THEN schedule.next ELSE day
      <4>1. PICK n \in Nat : schedule.next = Sd!PeriodStart(schedule, n) /\ \A k \in Nat : k < n => Sd!PeriodAt(schedule, k) \in dealt
        BY <3>1, <3>10 DEF Accounted
      <4>2. schedule.next < day <=> n < e
        BY <1>3, <3>3, <4>1, PeriodsApart
      <4>3. CASE n < e
        <5>1. t.next = Sd!PeriodStart(schedule, n) /\ \A k \in Nat : k < n => Sd!PeriodAt(schedule, k) \in left
          <6>1. \A k \in Nat : k < n => k < e
            BY <4>3
          <6> QED BY <3>4, <3>10, <4>1, <4>2, <4>3, <6>1
        <5> QED BY <3>5, <3>10, <5>1 DEF Accounted, left
      <4>4. CASE ~(n < e)
        <5>1. t.next = Sd!PeriodStart(schedule, e) /\ \A k \in Nat : k < e => Sd!PeriodAt(schedule, k) \in left
          <6>1. \A k \in Nat : k < e => k < n
            BY <4>4
          <6> QED BY <3>3, <3>4, <3>10, <4>1, <4>2, <4>4, <6>1
        <5> QED BY <3>5, <3>10, <5>1 DEF Accounted, left
      <4> QED BY <4>3, <4>4
    <3> QED BY <3>1, <3>2, <3>8, <3>9, <3>10
  <2>6. ScheduleInv'
    BY <1>2, <1>4, <2>2, <2>3, <2>4, <2>5 DEF ScheduleInv
  <2> QED BY <1>2, <1>5, <2>6, NothingBilled
<1> QED BY <1>7, <1>8

LEMMA GenerateBills ==
  ASSUME Scheduled(schedule), Invoiced(invoices), NEW force \in BOOLEAN, Sd!Generate(force)
  PROVE  /\ BillsOn(schedule, invoices, schedule', invoices')
         /\ UNCHANGED <<blocked, today, updates, letOff, moved, closed>>
<1>1. PICK explicit \in BOOLEAN, periods \in PerInvoice :
        /\ Sd!Take(Sd!Raised(schedule, invoices, force, IF explicit THEN periods ELSE schedule.per))
        /\ UNCHANGED <<blocked, today, updates, letOff, moved, closed>>
  BY Zenon DEF Sd!Generate, Sd!history
<1>2. PICK wanted : wanted = IF explicit THEN periods ELSE schedule.per
  OBVIOUS
<1>3. wanted \in Nat \ {0}
  BY <1>2, ScheduledIs, BillingAssumption
<1>4. PICK r : r = Sd!Raised(schedule, invoices, force, wanted)
  OBVIOUS
<1>5. schedule' = r[1] /\ invoices' = r[2]
  BY <1>1, <1>2, <1>4 DEF Sd!Take
<1>6. BillsOn(schedule, invoices, r[1], r[2])
  BY <1>3, <1>4, RaisedIs
<1> QED BY <1>1, <1>5, <1>6

LEMMA ScheduleKeeps == ScheduleInv /\ [Sd!Next]_(Sd!vars) => ScheduleInv' /\ [Sd!BillsWithin]_(Sd!vars)
<1> SUFFICES ASSUME ScheduleInv, Sd!Next \/ UNCHANGED Sd!vars PROVE ScheduleInv' /\ [Sd!BillsWithin]_(Sd!vars)
  OBVIOUS
<1>1. CASE UNCHANGED Sd!vars
  BY <1>1 DEF Sd!vars, ScheduleInv
<1>2. Scheduled(schedule) /\ Invoiced(invoices)
  BY DEF ScheduleInv
<1>3. CASE Sd!Sweep
  BY <1>2, <1>3, SweepBills, BillsOnMoves
<1>4. ASSUME NEW force \in BOOLEAN, Sd!Generate(force) PROVE ScheduleInv' /\ Sd!BillsWithin
  BY <1>2, <1>4, GenerateBills, BillsOnMoves
<1>5. CASE Sd!Block
  <2>1. UNCHANGED <<schedule, invoices, today, updates, letOff, moved, closed>> /\ blocked' \in BOOLEAN
    BY <1>5 DEF Sd!Block, Sd!history
  <2> QED BY <2>1, NothingBilled DEF ScheduleInv
<1>6. CASE Sd!Tick
  <2>1. UNCHANGED <<schedule, invoices, blocked, updates, letOff, moved, closed>> /\ today' \in 0 .. LastDay
    BY <1>6, BillingAssumption DEF Sd!Tick, Sd!history, ScheduleInv
  <2> QED BY <2>1, NothingBilled DEF ScheduleInv
<1> QED BY <1>1, <1>3, <1>4, <1>5, <1>6, UpdateMoves, ChangeStatusMoves, SendMoves, DeleteDraftMoves DEF Sd!Next

-----------------------------------------------------------------------------
(* The sweep over several schedules.                                       *)
LEMMA SweepCardinality == \A S : Bw!Cardinality(S) = Cardinality(S)
BY Zenon DEF Bw!Cardinality, Cardinality

SweepDrafts == [period : Nat, lines : SUBSET Bw!Lines]

SweepRows ==
    [step : {"idle", "next", "raise"}, todo : SUBSET Retainers, now : Retainers \cup {Nobody},
     attempt : Nat, drafts : [Retainers -> SUBSET SweepDrafts]]

SweepShape ==
    /\ lines \in [Retainers -> SUBSET Bw!Lines]
    /\ status \in [Retainers -> {"active", "paused", "deleted"}]
    /\ putAway \subseteq Bw!Catalogue \cup Bw!Clients
    /\ arrived \in [Retainers -> 0..MaxDue] /\ billed \in [Retainers -> Nat]
    /\ \A s \in Retainers : billed[s] <= arrived[s]
    /\ lock \in [Retainers -> Workers \cup {Nobody}]
    /\ sweep \in [Workers -> SweepRows]
    /\ \A w \in Workers : sweep[w].step = "raise" => sweep[w].now \in Retainers

(* Whoever has drafts for a schedule holds its row, and they are for the   *)
(* next periods of it, one each.                                           *)
Drafting(w, s) ==
    LET drafts == sweep[w].drafts[s]
    IN  /\ IsFiniteSet(drafts)
        /\ drafts # {} => lock[s] = w /\ sweep[w].step # "idle"
        /\ billed[s] + Cardinality(drafts) <= arrived[s]
        /\ \A d \in drafts : d.lines = lines[s] /\ d.period \in billed[s] + 1 .. billed[s] + Cardinality(drafts)

SweepInv == SweepShape /\ \A w \in Workers, s \in Retainers : Drafting(w, s)

LEMMA SweepCounts ==
    ASSUME SweepInv, NEW w \in Workers, NEW s \in Retainers
    PROVE  /\ billed[s] \in Nat /\ arrived[s] \in Nat /\ Cardinality(sweep[w].drafts[s]) \in Nat
           /\ Bw!Drafted(w, s) = Cardinality(sweep[w].drafts[s])
           /\ billed[s] + Cardinality(sweep[w].drafts[s]) <= arrived[s]
           /\ (Cardinality(sweep[w].drafts[s]) = 0 <=> sweep[w].drafts[s] = {})
           /\ sweep[w] \in SweepRows
<1>1. Drafting(w, s) /\ sweep[w] \in SweepRows /\ billed[s] \in Nat /\ arrived[s] \in 0..MaxDue
  BY DEF SweepInv, SweepShape
<1>2. IsFiniteSet(sweep[w].drafts[s]) /\ billed[s] + Cardinality(sweep[w].drafts[s]) <= arrived[s]
  BY <1>1, Zenon DEF Drafting
<1>3. Cardinality(sweep[w].drafts[s]) \in Nat /\ (Cardinality(sweep[w].drafts[s]) = 0 <=> sweep[w].drafts[s] = {})
  BY <1>2, FS_CardinalityType, FS_EmptySet
<1>4. arrived[s] \in Nat
  BY <1>1, BillingAssumption
<1>5. Bw!Drafted(w, s) = Cardinality(sweep[w].drafts[s])
  BY SweepCardinality DEF Bw!Drafted
<1> QED BY <1>1, <1>2, <1>3, <1>4, <1>5

LEMMA SweepHolds == SweepInv => Bw!TypeOK /\ Bw!BillsTheLines
<1> SUFFICES ASSUME SweepInv PROVE Bw!TypeOK /\ Bw!BillsTheLines
  OBVIOUS
<1>1. Bw!TypeOK
  <2>1. ASSUME NEW s \in Retainers PROVE billed[s] \in 0..arrived[s]
    BY BillingAssumption DEF SweepInv, SweepShape
  <2> QED BY <2>1 DEF SweepInv, SweepShape, SweepRows, Bw!TypeOK
<1>2. ASSUME NEW w \in Workers, NEW s \in Retainers, NEW d \in sweep[w].drafts[s]
      PROVE  /\ d.lines = lines[s] /\ d.period \in billed[s] + 1 .. arrived[s]
             /\ \A v \in Workers \ {w} : sweep[v].drafts[s] = {}
  <2>1. Drafting(w, s) /\ \A v \in Workers : Drafting(v, s)
    BY DEF SweepInv
  <2>2. /\ d.lines = lines[s] /\ d.period \in billed[s] + 1 .. billed[s] + Cardinality(sweep[w].drafts[s])
        /\ lock[s] = w
    BY <2>1 DEF Drafting
  <2>3. d.period \in billed[s] + 1 .. arrived[s]
    BY <2>2, SweepCounts
  <2>4. \A v \in Workers \ {w} : sweep[v].drafts[s] = {}
    BY <2>1, <2>2, Zenon DEF Drafting
  <2> QED BY <2>2, <2>3, <2>4
<1>3. Bw!BillsTheLines
  BY <1>2 DEF Bw!BillsTheLines
<1> QED BY <1>1, <1>3

LEMMA SweepInit == Bw!Init => SweepInv
<1> SUFFICES ASSUME Bw!Init PROVE SweepInv
  OBVIOUS
<1>1. /\ lines \in [Retainers -> Agreed] /\ status = [s \in Retainers |-> "active"] /\ putAway = {}
      /\ arrived = [s \in Retainers |-> 0] /\ billed = [s \in Retainers |-> 0]
      /\ lock = [s \in Retainers |-> Nobody] /\ sweep = [w \in Workers |-> Bw!Idle]
  BY DEF Bw!Init
<1>2. Bw!Idle \in SweepRows /\ Bw!Idle.step = "idle" /\ \A s \in Retainers : Bw!Idle.drafts[s] = {}
  BY DEF Bw!Idle, Bw!Nothing, SweepRows
<1>3. lines \in [Retainers -> SUBSET Bw!Lines]
  BY <1>1, BillingAssumption DEF Bw!Lines, Bw!Catalogue
<1>4. SweepShape
  BY <1>1, <1>2, <1>3, BillingAssumption DEF SweepShape
<1>5. \A w \in Workers, s \in Retainers : Drafting(w, s)
  <2> SUFFICES ASSUME NEW w \in Workers, NEW s \in Retainers PROVE Drafting(w, s)
    OBVIOUS
  <2>1. sweep[w].drafts[s] = {} /\ billed[s] = 0 /\ arrived[s] = 0
    BY <1>1, <1>2
  <2> QED BY <2>1, FS_EmptySet DEF Drafting
<1> QED BY <1>4, <1>5 DEF SweepInv

(* A schedule nobody has drafts for.                                       *)
LEMMA Undrafted ==
    ASSUME NEW w \in Workers, NEW s \in Retainers, SweepShape, sweep[w].drafts[s] = {}
    PROVE  Drafting(w, s)
<1>1. billed[s] \in Nat /\ billed[s] <= arrived[s]
  BY DEF SweepShape
<1>2. IsFiniteSet({}) /\ Cardinality({}) = 0
  BY FS_EmptySet
<1> QED BY <1>1, <1>2 DEF Drafting

(* People change a schedule that no sweep holds, and those sweeps go on.   *)
LEMMA PeopleMove ==
    ASSUME SweepInv, SweepShape', UNCHANGED <<lock, sweep>>,
           \A s \in Retainers : lock[s] = Nobody \/ (lines'[s] = lines[s] /\ billed'[s] = billed[s] /\ arrived'[s] >= arrived[s])
    PROVE  SweepInv'
<1> SUFFICES ASSUME NEW w \in Workers, NEW s \in Retainers PROVE Drafting(w, s)'
  BY DEF SweepInv
<1>1. Drafting(w, s)
  BY DEF SweepInv
<1>2. CASE sweep[w].drafts[s] = {}
  <2>1. sweep'[w].drafts[s] = {}
    BY <1>2
  <2>2. billed'[s] \in Nat /\ billed'[s] <= arrived'[s]
    BY DEF SweepShape
  <2>3. IsFiniteSet({}) /\ Cardinality({}) = 0
    BY FS_EmptySet
  <2> QED BY <2>1, <2>2, <2>3 DEF Drafting
<1>3. CASE sweep[w].drafts[s] # {}
  <2>1. lock[s] = w
    BY <1>1, <1>3 DEF Drafting
  <2>2. lock[s] # Nobody
    BY <2>1, BillingAssumption
  <2>3. lines'[s] = lines[s] /\ billed'[s] = billed[s] /\ arrived'[s] >= arrived[s] /\ arrived'[s] \in Int
    BY <2>2, BillingAssumption DEF SweepShape
  <2> QED BY <1>1, <2>3, SweepCounts DEF Drafting
<1> QED BY <1>2, <1>3

LEMMA PeopleKeep == SweepInv /\ Bw!People => SweepInv'
<1> SUFFICES ASSUME SweepInv, Bw!People PROVE SweepInv'
  OBVIOUS
<1>1. SweepShape
  BY DEF SweepInv
<1>2. ASSUME NEW s \in Retainers, Bw!Edit(s),
             lines' \in [Retainers -> SUBSET Bw!Lines], status' \in [Retainers -> {"active", "paused", "deleted"}],
             \A t \in Retainers \ {s} : lines'[t] = lines[t]
      PROVE  SweepInv'
  <2>1. /\ lock[s] = Nobody /\ UNCHANGED <<putAway, arrived, billed, lock, sweep>>
    BY <1>2 DEF Bw!Edit, Bw!ScheduleFree
  <2>2. SweepShape'
    BY <1>1, <1>2, <2>1 DEF SweepShape
  <2>3. \A t \in Retainers : lock[t] = Nobody \/ (lines'[t] = lines[t] /\ billed'[t] = billed[t] /\ arrived'[t] >= arrived[t])
    <3>1. \A t \in Retainers : arrived[t] \in Int
      BY <1>1 DEF SweepShape
    <3> QED BY <1>2, <2>1, <3>1
  <2> QED BY <2>1, <2>2, <2>3, PeopleMove
<1>3. ASSUME NEW s \in Retainers, Bw!ChangeStatus(s) PROVE SweepInv'
  BY <1>1, <1>2, <1>3 DEF Bw!ChangeStatus, SweepShape
<1>4. ASSUME NEW s \in Retainers, Bw!Delete(s) PROVE SweepInv'
  BY <1>1, <1>2, <1>4 DEF Bw!Delete, SweepShape
<1>5. ASSUME NEW s \in Retainers, NEW x \in Bw!Lines, Bw!LineAdd(s, x) PROVE SweepInv'
  <2>1. lines' = [lines EXCEPT ![s] = lines[s] \cup {x}] /\ status' = status /\ Bw!Edit(s)
    BY <1>5 DEF Bw!LineAdd
  <2> QED BY <1>1, <1>2, <2>1 DEF SweepShape
<1>6. ASSUME NEW s \in Retainers, NEW x \in Bw!Lines, Bw!LineRemove(s, x) PROVE SweepInv'
  <2>1. lines' = [lines EXCEPT ![s] = lines[s] \ {x}] /\ status' = status /\ Bw!Edit(s)
    BY <1>6 DEF Bw!LineRemove
  <2> QED BY <1>1, <1>2, <2>1 DEF SweepShape
<1>7. ASSUME NEW s \in Retainers, NEW x \in Bw!Lines, NEW y \in Bw!Lines, Bw!LineUpdate(s, x, y) PROVE SweepInv'
  <2>1. lines' = [lines EXCEPT ![s] = (lines[s] \ {x}) \cup {y}] /\ status' = status /\ Bw!Edit(s)
    BY <1>7 DEF Bw!LineUpdate
  <2> QED BY <1>1, <1>2, <2>1 DEF SweepShape
<1>8. \A t \in Retainers : arrived[t] \in Int /\ billed[t] \in Nat
  BY <1>1 DEF SweepShape
<1>9. ASSUME NEW s \in Retainers, Bw!Generate(s) PROVE SweepInv'
  <2>1. /\ lock[s] = Nobody /\ billed[s] < arrived[s] /\ billed' = [billed EXCEPT ![s] = billed[s] + 1]
        /\ UNCHANGED <<lines, status, putAway, arrived, lock, sweep>>
    BY <1>9 DEF Bw!Generate, Bw!ScheduleFree, Bw!DueNow
  <2>2. \A t \in Retainers : billed'[t] = IF t = s THEN billed[s] + 1 ELSE billed[t]
    BY <1>1, <2>1 DEF SweepShape
  <2>3. SweepShape'
    BY <1>1, <1>8, <2>1, <2>2 DEF SweepShape
  <2> QED BY <1>8, <2>1, <2>2, <2>3, PeopleMove
<1>10. ASSUME NEW s \in Retainers, Bw!Tick(s) PROVE SweepInv'
  <2>1. /\ arrived[s] < MaxDue /\ arrived' = [arrived EXCEPT ![s] = arrived[s] + 1]
        /\ UNCHANGED <<lines, status, putAway, billed, lock, sweep>>
    BY <1>10 DEF Bw!Tick
  <2>2. \A t \in Retainers : arrived'[t] = IF t = s THEN arrived[s] + 1 ELSE arrived[t]
    BY <1>1, <2>1 DEF SweepShape
  <2>3. arrived[s] + 1 \in 0..MaxDue
    BY <1>1, <2>1, BillingAssumption DEF SweepShape
  <2>4. SweepShape'
    BY <1>1, <1>8, <2>1, <2>2, <2>3 DEF SweepShape
  <2> QED BY <1>8, <2>1, <2>2, <2>4, PeopleMove
<1>11. ASSUME NEW x \in Bw!Catalogue \cup Bw!Clients, Bw!ArchiveProcedure(x) PROVE SweepInv'
  <2>1. /\ putAway' \subseteq putAway \cup {x} /\ UNCHANGED <<lines, status, arrived, billed, lock, sweep>>
    BY <1>11 DEF Bw!ArchiveProcedure
  <2>2. SweepShape'
    <3>1. putAway' \subseteq Bw!Catalogue \cup Bw!Clients
      BY <1>1, <1>11, <2>1 DEF SweepShape
    <3> QED BY <1>1, <2>1, <3>1 DEF SweepShape
  <2> QED BY <1>8, <2>1, <2>2, PeopleMove
<1> QED BY <1>3, <1>4, <1>5, <1>6, <1>7, <1>9, <1>10, <1>11 DEF Bw!People

(* One sweep moves, drafting nothing new.                                  *)
LEMMA SweepOneMoves ==
    ASSUME SweepInv, NEW w \in Workers, NEW x \in SweepRows, UNCHANGED <<lines, status, putAway, arrived, billed, lock>>,
           sweep' = [sweep EXCEPT ![w] = x], x.drafts = sweep[w].drafts,
           x.step # "idle", x.step = "raise" => x.now \in Retainers
    PROVE  SweepInv'
<1>1. sweep'[w] = x /\ \A v \in Workers \ {w} : sweep'[v] = sweep[v]
  BY DEF SweepInv, SweepShape
<1>2. SweepShape'
  BY <1>1 DEF SweepInv, SweepShape
<1>3. ASSUME NEW v \in Workers, NEW s \in Retainers PROVE Drafting(v, s)'
  <2>1. Drafting(v, s) /\ sweep'[v].drafts[s] = sweep[v].drafts[s]
        /\ (sweep[v].step # "idle" => sweep'[v].step # "idle")
    BY <1>1 DEF SweepInv
  <2> QED BY <2>1 DEF Drafting
<1> QED BY <1>2, <1>3 DEF SweepInv

(* A sweep ends: its rows are let go, and it has no drafts any more.       *)
LEMMA LetGoIs ==
    ASSUME SweepShape, NEW w \in Workers, Bw!LetGo(w)
    PROVE  /\ lock' \in [Retainers -> Workers \cup {Nobody}]
           /\ \A s \in Retainers : lock[s] # w => lock'[s] = lock[s]
<1>1. lock' = [s \in Retainers |-> IF lock[s] = w THEN Bw!NextHolder(w, s) ELSE lock[s]]
  BY DEF Bw!LetGo
<1>2. ASSUME NEW s \in Retainers PROVE Bw!NextHolder(w, s) \in Workers \cup {Nobody}
  <2> DEFINE waiting == {v \in Workers \ {w} : Bw!WaitsFor(v, w) /\ sweep[v].now = s}
  <2>1. waiting # {} => (CHOOSE v \in waiting : TRUE) \in Workers
    OBVIOUS
  <2> QED BY <2>1 DEF Bw!NextHolder
<1> QED BY <1>1, <1>2 DEF SweepShape

LEMMA SweepEnds ==
    ASSUME SweepInv, NEW w \in Workers, UNCHANGED <<lines, status, putAway, arrived>>,
           sweep' = [sweep EXCEPT ![w] = Bw!Idle], Bw!LetGo(w),
           billed' \in [Retainers -> Nat],
           \A s \in Retainers : \/ billed'[s] = billed[s]
                                \/ sweep[w].drafts[s] # {} /\ billed'[s] = billed[s] + Bw!Drafted(w, s)
    PROVE  SweepInv'
<1>1. sweep'[w] = Bw!Idle /\ \A v \in Workers \ {w} : sweep'[v] = sweep[v]
  BY DEF SweepInv, SweepShape
<1>2. Bw!Idle \in SweepRows /\ Bw!Idle.step = "idle" /\ \A s \in Retainers : Bw!Idle.drafts[s] = {}
  BY DEF Bw!Idle, Bw!Nothing, SweepRows
<1>3. \A s \in Retainers : billed'[s] <= arrived'[s]
  <2> SUFFICES ASSUME NEW s \in Retainers PROVE billed'[s] <= arrived[s]
    OBVIOUS
  <2>1. billed[s] <= arrived[s]
    BY DEF SweepInv, SweepShape
  <2> QED BY <2>1, SweepCounts
<1>4. SweepShape'
  <2>1. SweepShape
    BY DEF SweepInv
  <2> QED BY <1>1, <1>2, <1>3, <2>1, LetGoIs DEF SweepShape
<1>5. ASSUME NEW v \in Workers, NEW s \in Retainers PROVE Drafting(v, s)'
  <2>1. billed'[s] \in Nat /\ billed'[s] <= arrived'[s]
    BY <1>3
  <2>2. CASE sweep'[v].drafts[s] = {}
    <3>1. IsFiniteSet(sweep'[v].drafts[s]) /\ Cardinality(sweep'[v].drafts[s]) = 0
      BY <2>2, FS_EmptySet
    <3>2. billed'[s] + 0 <= arrived'[s]
      BY <2>1
    <3> QED BY <2>2, <3>1, <3>2 DEF Drafting
  <2>3. CASE sweep'[v].drafts[s] # {}
    <3>1. v # w /\ sweep'[v] = sweep[v]
      BY <1>1, <1>2, <2>3
    <3>2. Drafting(v, s) /\ Drafting(w, s)
      BY DEF SweepInv
    <3>3. lock[s] = v
      BY <2>3, <3>1, <3>2, Zenon DEF Drafting
    <3>4. sweep[w].drafts[s] = {}
      BY <3>1, <3>2, <3>3, Zenon DEF Drafting
    <3>5. billed'[s] = billed[s] /\ lock'[s] = lock[s]
      <4>1. SweepShape
        BY DEF SweepInv
      <4> QED BY <3>1, <3>3, <3>4, <4>1, LetGoIs
    <3> QED BY <3>1, <3>2, <3>5 DEF Drafting
  <2> QED BY <2>2, <2>3
<1> QED BY <1>4, <1>5 DEF SweepInv

(* One call of raiseInvoiceFor for the sweep: a draft for the next period. *)
LEMMA RaiseKeeps ==
    ASSUME SweepInv, NEW w \in Workers, Bw!Raise(w)
    PROVE  SweepInv'
<1> DEFINE s == sweep[w].now
           after == [sweep[w] EXCEPT !.step = "next", !.now = Nobody]
           draft == [period |-> billed[s] + Bw!Drafted(w, s) + 1, lines |-> lines[s]]
           more  == [sweep[w] EXCEPT !.drafts[s] = sweep[w].drafts[s] \cup {draft}, !.attempt = sweep[w].attempt + 1]
           gone  == status[s] = "deleted" \/ (Bw!Due(w, s) /\ (Bw!Blocked(s) \/ ~Bw!Priceable(s)))
           onto  == IF ~Bw!Due(w, s) THEN after
                    ELSE IF more.attempt = MaxCatchUp THEN [more EXCEPT !.step = "next", !.now = Nobody]
                    ELSE more
<1>1. /\ sweep[w].step = "raise" /\ lock[s] \in {Nobody, w}
      /\ UNCHANGED <<lines, status, putAway, arrived, billed>>
      /\ \/ gone /\ Bw!Abort(w)
         \/ ~gone /\ lock' = [lock EXCEPT ![s] = w] /\ sweep' = [sweep EXCEPT ![w] = onto]
  BY Zenon DEF Bw!Raise, Bw!ScheduleFree
<1>2. SweepShape /\ sweep[w] \in SweepRows /\ s \in Retainers
  BY <1>1 DEF SweepInv, SweepShape
<1>3. CASE gone /\ Bw!Abort(w)
  <2>1. sweep' = [sweep EXCEPT ![w] = Bw!Idle] /\ Bw!LetGo(w)
    BY <1>3 DEF Bw!Abort
  <2>2. billed' \in [Retainers -> Nat] /\ billed' = billed
    BY <1>1, <1>2 DEF SweepShape
  <2> QED BY <1>1, <2>1, <2>2, SweepEnds
<1>4. CASE ~gone /\ lock' = [lock EXCEPT ![s] = w] /\ sweep' = [sweep EXCEPT ![w] = onto]
  <2> DEFINE Grown == Bw!Due(w, s) /\ \A t \in Retainers : onto.drafts[t] = IF t = s THEN sweep[w].drafts[s] \cup {draft} ELSE sweep[w].drafts[t]
             Same  == \A t \in Retainers : onto.drafts[t] = sweep[w].drafts[t]
  <2>1. onto \in SweepRows /\ onto.step # "idle" /\ (onto.step = "raise" => onto.now \in Retainers) /\ (Grown \/ Same)
    <3>1. CASE ~Bw!Due(w, s)
      <4>1. onto = after
        BY <3>1
      <4>2. after \in SweepRows /\ after.step = "next" /\ after.drafts = sweep[w].drafts
        BY <1>2 DEF SweepRows
      <4> QED BY <4>1, <4>2
    <3>2. CASE Bw!Due(w, s)
      <4>1. draft \in SweepDrafts
        BY <1>2, SweepCounts DEF SweepDrafts, SweepShape
      <4>2. PICK d : d = draft
        OBVIOUS
      <4>3. PICK m : m = [sweep[w] EXCEPT !.drafts[s] = sweep[w].drafts[s] \cup {d}, !.attempt = sweep[w].attempt + 1]
        OBVIOUS
      <4>9. [sweep[w].drafts EXCEPT ![s] = sweep[w].drafts[s] \cup {d}] \in [Retainers -> SUBSET SweepDrafts]
        BY <1>2, <4>1, <4>2 DEF SweepRows
      <4>10. m = [step |-> "raise", todo |-> sweep[w].todo, now |-> s, attempt |-> sweep[w].attempt + 1,
                  drafts |-> [sweep[w].drafts EXCEPT ![s] = sweep[w].drafts[s] \cup {d}]]
        BY <1>1, <1>2, <4>3 DEF SweepRows
      <4>4. m \in SweepRows /\ m.step = "raise" /\ m.now = s
            /\ \A t \in Retainers : m.drafts[t] = IF t = s THEN sweep[w].drafts[s] \cup {d} ELSE sweep[w].drafts[t]
        BY <1>2, <4>9, <4>10 DEF SweepRows
      <4>5. [m EXCEPT !.step = "next", !.now = Nobody] \in SweepRows
            /\ [m EXCEPT !.step = "next", !.now = Nobody].step = "next"
            /\ [m EXCEPT !.step = "next", !.now = Nobody].drafts = m.drafts
        BY <4>4 DEF SweepRows
      <4>6. more = m
        BY <4>2, <4>3
      <4>7. onto = IF m.attempt = MaxCatchUp THEN [m EXCEPT !.step = "next", !.now = Nobody] ELSE m
        BY <3>2, <4>6
      <4> HIDE DEF onto, more, draft
      <4>8. onto \in SweepRows /\ onto.step \in {"next", "raise"} /\ (onto.step = "raise" => onto.now = s) /\ onto.drafts = m.drafts
        BY <4>4, <4>5, <4>7
      <4> QED BY <1>2, <3>2, <4>2, <4>4, <4>8
    <3> QED BY <3>1, <3>2
  <2> HIDE DEF onto
  <2>2. /\ sweep'[w] = onto /\ \A v \in Workers \ {w} : sweep'[v] = sweep[v]
        /\ lock'[s] = w /\ \A t \in Retainers \ {s} : lock'[t] = lock[t]
    BY <1>2, <1>4 DEF SweepShape
  <2>3. SweepShape'
    BY <1>1, <1>2, <1>4, <2>1, <2>2 DEF SweepShape
  <2>4. ASSUME NEW v \in Workers, NEW t \in Retainers PROVE Drafting(v, t)'
    <3>1. Drafting(v, t)
      BY DEF SweepInv
    <3>2. sweep[v].drafts[t] # {} => lock'[t] = v
      <4>1. sweep[v].drafts[t] # {} => lock[t] = v
        BY <3>1 DEF Drafting
      <4> QED BY <1>1, <2>2, <4>1, BillingAssumption
    <3>3. CASE sweep'[v].drafts[t] = sweep[v].drafts[t]
      <4>1. sweep[v].step # "idle" => sweep'[v].step # "idle"
        BY <2>1, <2>2
      <4> QED BY <1>1, <3>1, <3>2, <3>3, <4>1 DEF Drafting
    <3>4. CASE sweep'[v].drafts[t] # sweep[v].drafts[t]
      <4>1. v = w /\ t = s /\ Bw!Due(w, s) /\ sweep'[w].drafts[s] = sweep[w].drafts[s] \cup {draft}
        BY <2>1, <2>2, <3>4
      <4> DEFINE n == Cardinality(sweep[w].drafts[s])
      <4>2. n \in Nat /\ billed[s] \in Nat /\ arrived[s] \in Nat /\ Bw!Drafted(w, s) = n
        BY <1>2, SweepCounts
      <4>3. billed[s] + n < arrived[s]
        BY <4>1, <4>2 DEF Bw!Due
      <4>4. draft.period = billed[s] + n + 1 /\ draft.lines = lines[s]
        BY <4>2
      <4>5. /\ IsFiniteSet(sweep[w].drafts[s])
            /\ \A d \in sweep[w].drafts[s] : d.lines = lines[s] /\ d.period \in billed[s] + 1 .. billed[s] + n
        BY <3>1, <4>1 DEF Drafting
      <4>6. draft \notin sweep[w].drafts[s]
        BY <4>2, <4>4, <4>5
      <4> HIDE DEF draft
      <4>7. IsFiniteSet(sweep'[w].drafts[s]) /\ Cardinality(sweep'[w].drafts[s]) = n + 1
        BY <4>1, <4>5, <4>6, FS_AddElement
      <4> HIDE DEF n
      <4>8. \A d \in sweep'[w].drafts[s] : d.lines = lines[s] /\ d.period \in billed[s] + 1 .. billed[s] + (n + 1)
        BY <4>1, <4>2, <4>4, <4>5
      <4>9. sweep'[w].step # "idle" /\ lock'[s] = w
        BY <2>1, <2>2
      <4>10. billed'[s] = billed[s] /\ arrived'[s] = arrived[s] /\ lines'[s] = lines[s]
        BY <1>1
      <4>11. billed[s] + (n + 1) <= arrived[s]
        BY <4>2, <4>3
      <4>12. /\ IsFiniteSet(sweep'[v].drafts[t]) /\ Cardinality(sweep'[v].drafts[t]) = n + 1
             /\ lock'[t] = v /\ sweep'[v].step # "idle" /\ billed'[t] + (n + 1) <= arrived'[t]
             /\ \A d \in sweep'[v].drafts[t] : d.lines = lines'[t] /\ d.period \in billed'[t] + 1 .. billed'[t] + (n + 1)
        BY <4>1, <4>7, <4>8, <4>9, <4>10, <4>11
      <4> QED BY <4>12 DEF Drafting
    <3> QED BY <3>3, <3>4
  <2> QED BY <2>3, <2>4 DEF SweepInv
<1> QED BY <1>1, <1>3, <1>4

LEMMA SweepKeeps == SweepInv /\ [Bw!Next]_(Bw!vars) => SweepInv'
<1> SUFFICES ASSUME SweepInv, Bw!Next \/ UNCHANGED Bw!vars PROVE SweepInv'
  OBVIOUS
<1>1. CASE UNCHANGED Bw!vars
  BY <1>1 DEF Bw!vars, SweepInv, SweepShape, Drafting
<1>2. SweepShape /\ billed \in [Retainers -> Nat]
  BY DEF SweepInv, SweepShape
<1>3. ASSUME NEW w \in Workers, Bw!Begin(w) PROVE SweepInv'
  <2>1. UNCHANGED <<lines, status, putAway, arrived, billed, lock>>
        /\ sweep' = [sweep EXCEPT ![w] = [sweep[w] EXCEPT !.step = "next", !.todo = Bw!DueNow]]
    BY <1>3 DEF Bw!Begin
  <2>2. PICK x : x = [sweep[w] EXCEPT !.step = "next", !.todo = Bw!DueNow]
    OBVIOUS
  <2>3. x \in SweepRows /\ x.step = "next" /\ x.drafts = sweep[w].drafts
    BY <1>2, <2>2 DEF SweepShape, SweepRows, Bw!DueNow
  <2> QED BY <2>1, <2>2, <2>3, SweepOneMoves
<1>4. ASSUME NEW w \in Workers, Bw!Ask(w) PROVE SweepInv'
  <2>1. UNCHANGED <<lines, status, putAway, arrived, billed, lock>>
    BY <1>4 DEF Bw!Ask
  <2>2. PICK s \in sweep[w].todo :
          sweep' = [sweep EXCEPT ![w] = [sweep[w] EXCEPT !.todo = sweep[w].todo \ {s},
                                             !.step = IF Bw!Skipped(s) THEN "next" ELSE "raise",
                                             !.now = IF Bw!Skipped(s) THEN Nobody ELSE s,
                                             !.attempt = 0]]
    BY <1>4 DEF Bw!Ask
  <2>3. PICK x : x = [sweep[w] EXCEPT !.todo = sweep[w].todo \ {s},
                                      !.step = IF Bw!Skipped(s) THEN "next" ELSE "raise",
                                      !.now = IF Bw!Skipped(s) THEN Nobody ELSE s,
                                      !.attempt = 0]
    OBVIOUS
  <2>4. sweep[w] \in SweepRows /\ s \in Retainers
    BY <1>2 DEF SweepShape, SweepRows
  <2>5. x \in SweepRows /\ x.step # "idle" /\ (x.step = "raise" => x.now \in Retainers) /\ x.drafts = sweep[w].drafts
    BY <2>3, <2>4 DEF SweepRows
  <2> QED BY <2>1, <2>2, <2>3, <2>5, SweepOneMoves
<1>5. ASSUME NEW w \in Workers, Bw!Abort(w), UNCHANGED <<lines, status, putAway, arrived, billed>> PROVE SweepInv'
  BY <1>2, <1>5, SweepEnds DEF Bw!Abort
<1>6. ASSUME NEW w \in Workers, Bw!Deadlock(w) PROVE SweepInv'
  BY <1>5, <1>6 DEF Bw!Deadlock
<1>7. ASSUME NEW w \in Workers, Bw!Crash(w) PROVE SweepInv'
  BY <1>5, <1>7 DEF Bw!Crash
<1>8. ASSUME NEW w \in Workers, Bw!Commit(w) PROVE SweepInv'
  <2>1. /\ billed' = [s \in Retainers |-> billed[s] + Bw!Drafted(w, s)] /\ UNCHANGED <<lines, status, putAway, arrived>>
        /\ sweep' = [sweep EXCEPT ![w] = Bw!Idle] /\ Bw!LetGo(w)
    BY <1>8 DEF Bw!Commit
  <2>2. ASSUME NEW s \in Retainers
        PROVE  /\ billed'[s] \in Nat
               /\ billed'[s] = billed[s] \/ (sweep[w].drafts[s] # {} /\ billed'[s] = billed[s] + Bw!Drafted(w, s))
    <3>1. billed'[s] = billed[s] + Bw!Drafted(w, s)
      BY <2>1
    <3> QED BY <3>1, SweepCounts
  <2>3. billed' \in [Retainers -> Nat]
    BY <2>1, <2>2
  <2> QED BY <2>1, <2>2, <2>3, SweepEnds
<1> QED BY <1>1, <1>3, <1>4, <1>6, <1>7, <1>8, PeopleKeep, RaiseKeeps DEF Bw!Next, Bw!SweepStep

-----------------------------------------------------------------------------
(* Processes that come up.                                                 *)
Holding == {"locked", "read", "migrated", "failed"}

ProcessRows ==
    [step : {"down", "start", "locked", "read", "migrated", "failed", "check", "serving"},
     release : Releases \cup {Nobody}, last : Nat]

BootShape ==
    /\ process \in [Processes -> ProcessRows]
    /\ applied \in [Bt!Migrations -> {0, 1}]
    /\ Processes = {} => \A m \in Bt!Migrations : applied[m] = 0
    /\ bootLock \in Processes \cup {Nobody}
    /\ \A p \in Processes : process[p].step # "down" => process[p].release \in Releases
    /\ \A p \in Processes : process[p].step \in {"start"} \cup Holding => p \notin Checkers

(* Whoever has the lock is migrating, and nobody else.                     *)
OneMigrates == \A p \in Processes : process[p].step \in Holding <=> bootLock = p

(* What was applied is what some release carries, and a process that has   *)
(* read the last one has read how far that is.                             *)
Level(n) == Bt!Done = 1..n

InTurn ==
    /\ \E n \in Releases \cup {0} : Level(n)
    /\ \A p \in Processes : process[p].step = "read" => Level(process[p].last)

UpToDate ==
    \A p \in Processes \ Checkers :
        process[p].step \in {"migrated", "check", "serving"} => 1..process[p].release \subseteq Bt!Done

BootInv == BootShape /\ OneMigrates /\ InTurn /\ UpToDate

LEMMA BootInit == Bt!Init => BootInv
<1> SUFFICES ASSUME Bt!Init PROVE BootInv
  OBVIOUS
<1>1. /\ applied = [m \in Bt!Migrations |-> 0] /\ bootLock = Nobody
      /\ process = [p \in Processes |-> Bt!Down]
  BY DEF Bt!Init
<1>2. Bt!Down \in ProcessRows /\ Bt!Down.step = "down"
  BY DEF Bt!Down, ProcessRows
<1>3. BootShape
  BY <1>1, <1>2 DEF BootShape, Holding
<1>4. OneMigrates /\ UpToDate
  BY <1>1, <1>2, BillingAssumption DEF OneMigrates, UpToDate, Holding
<1>5. Bt!Done = {}
  BY <1>1 DEF Bt!Done
<1>6. Level(0)
  BY <1>5 DEF Level
<1>7. InTurn
  BY <1>1, <1>2, <1>6 DEF InTurn
<1> QED BY <1>3, <1>4, <1>7 DEF BootInv

LEMMA BootCardinality == \A S : Bt!Cardinality(S) = Cardinality(S)
BY Zenon DEF Bt!Cardinality, Cardinality

LEMMA ReleasesAre ==
    /\ \A n \in Releases : 1..n \subseteq Bt!Migrations /\ n \in Nat
    /\ \A m \in Bt!Migrations : m \in Nat /\ m >= 1 /\ \A k \in 1..m : k \in Bt!Migrations
<1>1. \A n \in Releases : 1..n \subseteq Bt!Migrations /\ n \in Nat
  BY BillingAssumption DEF Bt!Migrations
<1>2. ASSUME NEW m \in Bt!Migrations PROVE m \in Nat /\ m >= 1 /\ \A k \in 1..m : k \in Bt!Migrations
  <2>1. PICK n \in Releases : m \in 1..n
    BY DEF Bt!Migrations
  <2>2. n \in Nat /\ 1..n \subseteq Bt!Migrations
    BY <1>1
  <2>3. m \in Nat /\ m >= 1 /\ \A k \in 1..m : k \in 1..n
    BY <2>1, <2>2
  <2> QED BY <2>2, <2>3
<1> QED BY <1>1, <1>2

LEMMA LastDoneIs ==
    ASSUME BootInv
    PROVE  Level(Bt!LastDone) /\ Bt!LastDone \in Nat
<1>1. PICK n \in Releases \cup {0} : Level(n)
  BY DEF BootInv, InTurn
<1>2. n \in Nat
  BY BillingAssumption
<1>3. CASE n = 0
  BY <1>1, <1>3 DEF Level, Bt!LastDone
<1>4. CASE n # 0
  <2>1. n \in Bt!Done /\ \A k \in Bt!Done : k <= n
    BY <1>1, <1>2, <1>4 DEF Level
  <2>2. \A m \in Bt!Done : (\A k \in Bt!Done : k <= m) => m = n
    <3> SUFFICES ASSUME NEW m \in Bt!Done, \A k \in Bt!Done : k <= m PROVE m = n
      OBVIOUS
    <3>1. m \in 1..n /\ n <= m
      BY <1>1, <2>1 DEF Level
    <3> QED BY <1>2, <3>1
  <2>3. Bt!LastDone = n
    BY <2>1, <2>2, Zenon DEF Bt!LastDone
  <2> QED BY <1>1, <1>2, <2>3
<1> QED BY <1>3, <1>4

LEMMA BootHolds == BootInv => Bt!TypeOK /\ Bt!MigratedOnce /\ Bt!ServesProtected
<1> SUFFICES ASSUME BootInv PROVE Bt!TypeOK /\ Bt!MigratedOnce /\ Bt!ServesProtected
  OBVIOUS
<1>1. PICK n \in Releases \cup {0} : Bt!Done = 1..n
  BY DEF BootInv, InTurn, Level
<1>2. n \in Nat
  BY BillingAssumption
<1>3. Bt!MigratedOnce
  <2>1. \A m \in Bt!Migrations : applied[m] <= 1
    BY DEF BootInv, BootShape
  <2>2. \A m \in Bt!Done : \A k \in Bt!Migrations : k < m => k \in Bt!Done
    BY <1>1, <1>2, ReleasesAre
  <2> QED BY <2>1, <2>2 DEF Bt!MigratedOnce
<1>4. Bt!Unprotected = {}
  <2> SUFFICES ASSUME NEW m \in Creates, m \in Bt!Done, m + 1 \notin Bt!Done PROVE FALSE
    BY DEF Bt!Unprotected
  <2>1. m \in Nat /\ 1 <= m /\ m <= n /\ n \in Releases
    BY <1>1, <1>2
  <2>2. m + 1 <= n
    BY <2>1, BillingAssumption
  <2> QED BY <1>1, <1>2, <2>1, <2>2
<1>5. Bt!ServesProtected
  BY <1>4 DEF Bt!ServesProtected, BootInv, UpToDate
<1>6. Bt!TypeOK
  <2>1. Cardinality(Processes) \in Nat /\ (Processes # {} => Cardinality(Processes) >= 1)
    BY BillingAssumption, FS_CardinalityType, FS_EmptySet
  <2>2. \A m \in Bt!Migrations : applied[m] \in 0..Bt!Cardinality(Processes) + MaxCrashes
    <3>1. Bt!Cardinality(Processes) = Cardinality(Processes) /\ MaxCrashes \in Nat
      BY BootCardinality, BillingAssumption
    <3> SUFFICES ASSUME NEW m \in Bt!Migrations PROVE applied[m] \in 0..Bt!Cardinality(Processes) + MaxCrashes
      OBVIOUS
    <3>2. applied[m] \in {0, 1} /\ (Processes = {} => applied[m] = 0)
      BY DEF BootInv, BootShape
    <3> QED BY <2>1, <3>1, <3>2
  <2>3. applied \in [Bt!Migrations -> 0..Bt!Cardinality(Processes) + MaxCrashes]
    BY <2>2 DEF BootInv, BootShape
  <2>4. bootLock \in (Processes \ Checkers) \cup {Nobody}
    BY DEF BootInv, BootShape, OneMigrates
  <2> QED BY <2>3, <2>4 DEF BootInv, BootShape, ProcessRows, Bt!TypeOK
<1> QED BY <1>3, <1>5, <1>6

(* One process moves, and no migration is applied.                         *)
LEMMA ProcessMoves ==
    ASSUME BootInv, UNCHANGED applied, NEW p \in Processes, NEW x \in ProcessRows,
           process' = [process EXCEPT ![p] = x],
           bootLock' \in Processes \cup {Nobody},
           x.step \in Holding <=> bootLock' = p,
           \A q \in Processes \ {p} : bootLock' = q <=> bootLock = q,
           x.step # "down" => x.release \in Releases,
           x.step \in {"start"} \cup Holding => p \notin Checkers,
           x.step = "read" => Level(x.last),
           p \notin Checkers /\ x.step \in {"migrated", "check", "serving"} => 1..x.release \subseteq Bt!Done
    PROVE  BootInv'
<1>1. /\ process'[p] = x /\ \A q \in Processes \ {p} : process'[q] = process[q]
      /\ process' \in [Processes -> ProcessRows]
  BY DEF BootInv, BootShape
<1>2. Bt!Done' = Bt!Done
  BY DEF Bt!Done
<1>3. BootShape'
  BY <1>1 DEF BootInv, BootShape
<1>4. OneMigrates'
  BY <1>1 DEF BootInv, OneMigrates
<1>5. InTurn'
  BY <1>1, <1>2 DEF BootInv, InTurn, Level
<1>6. UpToDate'
  BY <1>1, <1>2 DEF BootInv, UpToDate
<1> QED BY <1>3, <1>4, <1>5, <1>6 DEF BootInv

LEMMA StartMoves ==
    ASSUME BootInv, NEW p \in Processes, NEW n \in Releases, Bt!Start(p, n)
    PROVE  BootInv'
<1> DEFINE x == [step |-> IF p \in Checkers THEN "check" ELSE "start", release |-> n, last |-> 0]
<1>1. process[p] = Bt!Down /\ process' = [process EXCEPT ![p] = x] /\ UNCHANGED <<applied, bootLock>>
  BY DEF Bt!Start
<1>2. /\ x \in ProcessRows /\ x.release \in Releases /\ x.step \notin Holding /\ x.step # "read"
      /\ x.step = "start" => p \notin Checkers
      /\ p \notin Checkers => x.step \notin {"migrated", "check", "serving"}
  BY DEF ProcessRows, Holding
<1>3. bootLock # p
  BY <1>1 DEF BootInv, OneMigrates, Bt!Down, Holding
<1> HIDE DEF x
<1> QED BY <1>1, <1>2, <1>3, ProcessMoves DEF BootInv, BootShape

LEMMA LockMoves ==
    ASSUME BootInv, NEW p \in Processes, Bt!Lock(p)
    PROVE  BootInv'
<1>1. /\ process[p].step = "start" /\ bootLock = Nobody /\ bootLock' = p /\ UNCHANGED applied
      /\ process' = [process EXCEPT ![p] = [process[p] EXCEPT !.step = "locked"]]
  BY DEF Bt!Lock, Bt!LockFree
<1>2. PICK x : x = [process[p] EXCEPT !.step = "locked"]
  OBVIOUS
<1>3. x \in ProcessRows /\ x.step = "locked" /\ x.release = process[p].release
  BY <1>2 DEF BootInv, BootShape, ProcessRows
<1>4. process[p].release \in Releases /\ p \notin Checkers
  BY <1>1 DEF BootInv, BootShape
<1>5. \A q \in Processes \ {p} : bootLock' = q <=> bootLock = q
  BY <1>1, BillingAssumption
<1> QED BY <1>1, <1>2, <1>3, <1>4, <1>5, ProcessMoves DEF Holding

LEMMA ReadLastMoves ==
    ASSUME BootInv, NEW p \in Processes, Bt!ReadLast(p)
    PROVE  BootInv'
<1>1. /\ process[p].step = "locked" /\ UNCHANGED <<applied, bootLock>>
      /\ process' = [process EXCEPT ![p] = [process[p] EXCEPT !.step = "read", !.last = Bt!LastDone]]
  BY DEF Bt!ReadLast
<1>2. PICK x : x = [process[p] EXCEPT !.step = "read", !.last = Bt!LastDone]
  OBVIOUS
<1>3. x \in ProcessRows /\ x.step = "read" /\ x.release = process[p].release /\ x.last = Bt!LastDone
  BY <1>2, LastDoneIs DEF BootInv, BootShape, ProcessRows
<1>4. Level(x.last)
  BY <1>3, LastDoneIs
<1>5. process[p].release \in Releases /\ p \notin Checkers /\ bootLock = p
  BY <1>1 DEF BootInv, BootShape, OneMigrates, Holding
<1>6. bootLock' = bootLock /\ bootLock \in Processes
  BY <1>1, <1>5
<1> QED BY <1>1, <1>2, <1>3, <1>4, <1>5, <1>6, ProcessMoves DEF Holding

LEMMA MigrateMoves ==
    ASSUME BootInv, NEW p \in Processes, Bt!Migrate(p)
    PROVE  BootInv'
<1> DEFINE q == process[p]
           todo == (q.last + 1)..q.release
<1>1. q.step = "read" /\ UNCHANGED bootLock
  BY DEF Bt!Migrate
<1>2. /\ bootLock = p /\ q.release \in Releases /\ q.release \in Nat /\ q.last \in Nat /\ Level(q.last) /\ p \notin Checkers
      /\ q \in ProcessRows
  BY <1>1, BillingAssumption DEF BootInv, BootShape, OneMigrates, InTurn, Holding, ProcessRows
<1>3. Bt!Done = 1..q.last
  BY <1>2 DEF Level
<1>4. todo \cap Bt!Done = {} /\ todo \subseteq Bt!Migrations
  <2>1. todo \subseteq 1..q.release
    BY <1>2
  <2> QED BY <1>2, <1>3, <2>1, ReleasesAre
<1>5. /\ applied' = [m \in Bt!Migrations |-> IF m \in todo THEN applied[m] + 1 ELSE applied[m]]
      /\ process' = [process EXCEPT ![p] = [process[p] EXCEPT !.step = "migrated"]]
  BY <1>4 DEF Bt!Migrate, Bt!Pending
<1>6. \A m \in Bt!Migrations : applied[m] \in {0, 1} /\ (m \in Bt!Done <=> applied[m] = 1)
  BY DEF BootInv, BootShape, Bt!Done
<1>7. \A m \in Bt!Migrations : applied'[m] \in {0, 1} /\ (applied'[m] = 1 <=> m \in Bt!Done \/ m \in todo)
  BY <1>4, <1>5, <1>6
<1>8. Bt!Done' = Bt!Done \cup todo
  <2>1. Bt!Done' = {m \in Bt!Migrations : applied'[m] > 0}
    BY DEF Bt!Done, Bt!Migrations
  <2>2. Bt!Done \subseteq Bt!Migrations
    BY DEF Bt!Done
  <2>3. \A m \in Bt!Migrations : applied'[m] > 0 <=> applied'[m] = 1
    BY <1>7
  <2> QED BY <1>4, <1>7, <2>1, <2>2, <2>3
<1>9. PICK n \in Releases \cup {0} : Bt!Done = 1..n
  BY DEF BootInv, InTurn, Level
<1>10. n \in Nat
  BY BillingAssumption
<1>11. \/ q.last < q.release /\ Bt!Done' = 1..q.release
       \/ q.release <= q.last /\ Bt!Done' = 1..n
  BY <1>2, <1>3, <1>8, <1>9, <1>10
<1>12. 1..q.release \subseteq Bt!Done'
  BY <1>2, <1>3, <1>8
<1>13. /\ process'[p].step = "migrated" /\ process'[p].release = q.release /\ process'[p] \in ProcessRows
       /\ \A r \in Processes \ {p} : process'[r] = process[r]
  BY <1>2, <1>5 DEF BootInv, BootShape, ProcessRows
<1>14. BootShape'
  <2>1. process' \in [Processes -> ProcessRows]
    BY <1>5, <1>13 DEF BootInv, BootShape
  <2>2. applied' \in [Bt!Migrations -> {0, 1}]
    BY <1>5, <1>7
  <2> QED BY <1>1, <1>2, <1>13, <2>1, <2>2 DEF BootInv, BootShape, Holding, Bt!Migrations
<1>15. OneMigrates'
  BY <1>1, <1>2, <1>13 DEF BootInv, OneMigrates, Holding
<1>16. InTurn'
  <2>1. \A r \in Processes : process'[r].step # "read"
    BY <1>2, <1>13 DEF BootInv, OneMigrates, Holding
  <2>2. \E k \in Releases \cup {0} : Bt!Done' = 1..k
    BY <1>2, <1>11
  <2> QED BY <2>1, <2>2 DEF InTurn, Level
<1>17. UpToDate'
  BY <1>8, <1>12, <1>13 DEF BootInv, UpToDate
<1> QED BY <1>14, <1>15, <1>16, <1>17 DEF BootInv

(* A process that ends lets go of the lock.                                *)
LEMMA LetsGo ==
    ASSUME BootInv, NEW p \in Processes
    PROVE  /\ Bt!Released(p) \in Processes \cup {Nobody} /\ Bt!Released(p) # p
           /\ \A q \in Processes \ {p} : Bt!Released(p) = q <=> bootLock = q
BY BillingAssumption DEF BootInv, BootShape, Bt!Released

LEMMA EndMoves ==
    ASSUME BootInv, NEW p \in Processes,
           UNCHANGED applied /\ process' = [process EXCEPT ![p] = Bt!Down]
             /\ (bootLock' = Bt!Released(p) \/ (bootLock # p /\ bootLock' = bootLock))
    PROVE  BootInv'
<1>1. Bt!Down \in ProcessRows /\ Bt!Down.step = "down"
  BY DEF Bt!Down, ProcessRows
<1>2. bootLock' \in Processes \cup {Nobody} /\ bootLock' # p /\ \A q \in Processes \ {p} : bootLock' = q <=> bootLock = q
  BY LetsGo DEF BootInv, BootShape
<1>3. PICK x : x = Bt!Down
  OBVIOUS
<1> QED BY <1>1, <1>2, <1>3, ProcessMoves DEF Holding

LEMMA UnlockMoves ==
    ASSUME BootInv, NEW p \in Processes, Bt!Unlock(p)
    PROVE  BootInv'
<1>1. process[p].step \in {"migrated", "failed"} /\ bootLock' = Bt!Released(p) /\ UNCHANGED applied
  BY DEF Bt!Unlock
<1>2. CASE process[p].step = "failed"
  BY <1>1, <1>2, EndMoves DEF Bt!Unlock
<1>3. CASE process[p].step = "migrated"
  <2>1. process' = [process EXCEPT ![p] = [process[p] EXCEPT !.step = "check"]]
    BY <1>3 DEF Bt!Unlock
  <2>2. PICK x : x = [process[p] EXCEPT !.step = "check"]
    OBVIOUS
  <2>3. x \in ProcessRows /\ x.step = "check" /\ x.release = process[p].release
    BY <2>2 DEF BootInv, BootShape, ProcessRows
  <2>4. x.release \in Releases /\ p \notin Checkers /\ 1..x.release \subseteq Bt!Done
    BY <1>3, <2>3 DEF BootInv, BootShape, UpToDate, Holding
  <2> QED BY <1>1, <2>1, <2>2, <2>3, <2>4, LetsGo, ProcessMoves DEF Holding
<1> QED BY <1>1, <1>2, <1>3

LEMMA CheckMoves ==
    ASSUME BootInv, NEW p \in Processes, Bt!Check(p)
    PROVE  BootInv'
<1>1. process[p].step = "check" /\ UNCHANGED <<applied, bootLock>>
  BY DEF Bt!Check
<1>2. bootLock # p
  BY <1>1 DEF BootInv, OneMigrates, Holding
<1>3. CASE ~Bt!Intact
  BY <1>1, <1>2, <1>3, EndMoves DEF Bt!Check
<1>4. CASE Bt!Intact
  <2>1. process' = [process EXCEPT ![p] = [process[p] EXCEPT !.step = "serving"]]
    BY <1>4 DEF Bt!Check
  <2>2. PICK x : x = [process[p] EXCEPT !.step = "serving"]
    OBVIOUS
  <2>3. x \in ProcessRows /\ x.step = "serving" /\ x.release = process[p].release
    BY <2>2 DEF BootInv, BootShape, ProcessRows
  <2>4. x.release \in Releases /\ (p \notin Checkers => 1..x.release \subseteq Bt!Done)
    BY <1>1, <2>3 DEF BootInv, BootShape, UpToDate
  <2>5. bootLock' = bootLock /\ bootLock' \in Processes \cup {Nobody}
    BY <1>1 DEF BootInv, BootShape
  <2> QED BY <1>1, <1>2, <2>1, <2>2, <2>3, <2>4, <2>5, ProcessMoves DEF Holding
<1> QED BY <1>3, <1>4

LEMMA BootKeeps == BootInv /\ [Bt!Next]_(Bt!vars) => BootInv'
<1> SUFFICES ASSUME BootInv, Bt!Next \/ UNCHANGED Bt!vars PROVE BootInv'
  OBVIOUS
<1>1. CASE UNCHANGED Bt!vars
  BY <1>1 DEF Bt!vars, BootInv, BootShape, OneMigrates, InTurn, UpToDate, Level, Bt!Done, Bt!Migrations
<1>2. ASSUME NEW p \in Processes, Bt!Progress(p) PROVE BootInv'
  BY <1>2, StartMoves, LockMoves, ReadLastMoves, MigrateMoves, UnlockMoves, CheckMoves DEF Bt!Progress
<1>3. ASSUME NEW p \in Processes, Bt!Crash(p) PROVE BootInv'
  <2>1. UNCHANGED applied /\ process' = [process EXCEPT ![p] = Bt!Down] /\ bootLock' = Bt!Released(p)
    BY <1>3 DEF Bt!Crash
  <2> QED BY <2>1, EndMoves
<1> QED BY <1>1, <1>2, <1>3 DEF Bt!Next

-----------------------------------------------------------------------------
(* The parts side by side.                                                 *)
BillingInv == ScheduleInv /\ SweepInv /\ BootInv

LEMMA BillingBegins == BillingInit => BillingInv
<1> SUFFICES ASSUME BillingInit PROVE BillingInv
  OBVIOUS
<1>1. Sd!Init /\ Bw!Init /\ Bt!Init
  BY Zenon DEF BillingInit, Plain
<1> QED BY <1>1, ScheduleInit, SweepInit, BootInit DEF BillingInv

LEMMA BillingKeeps ==
    BillingInv /\ [BillingNext]_billingVars => BillingInv' /\ [Sd!BillsWithin]_(Sd!vars)
<1> SUFFICES ASSUME BillingInv, [BillingNext]_billingVars PROVE BillingInv' /\ [Sd!BillsWithin]_(Sd!vars)
  OBVIOUS
<1>1. [Sd!Next]_(Sd!vars) /\ [Bw!Next]_(Bw!vars) /\ [Bt!Next]_(Bt!vars)
  BY Zenon DEF BillingNext, ScheduleNext, SweepNext, BootNext, billingVars, scheduleVars, sweepVars, bootVars,
    Sd!vars, Bw!vars, Bt!vars
<1> QED BY <1>1, ScheduleKeeps, SweepKeeps, BootKeeps DEF BillingInv

(* No day is billed twice and no period is left behind, whatever is        *)
(* deleted, billed ahead, paused or resumed; a sweep drafts what each      *)
(* schedule has, for periods of its own; and migrations are applied once,  *)
(* in their turn, before anything is served.                               *)
THEOREM DoneAlwaysInTurn == BillingSpec => []DoneInTurn
<1>1. BillingInv => DoneInTurn
  BY ScheduleHolds, SweepHolds, BootHolds DEF BillingInv, DoneInTurn
<1> QED BY BillingBegins, BillingKeeps, <1>1, PTL DEF BillingSpec

(* No step bills more periods than are agreed, nor one that starts after   *)
(* the agreement ends, however many periods it bills at once.              *)
THEOREM AgreementAlwaysKept == BillingSpec => AgreementKept
BY BillingBegins, BillingKeeps, PTL DEF BillingSpec, AgreementKept, Sd!WithinAgreement
=============================================================================
