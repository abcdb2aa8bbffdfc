---------------------------- MODULE BillingSweep ----------------------------
(***************************************************************************)
(* The hourly sweep over an organization's billing schedules               *)
(* (generateDueInvoices and raiseInvoiceFor in finance/billing-            *)
(* schedules.ts; worker/maintenance.ts): one transaction for all of them,  *)
(* beside people who change their lines, archive what those name, and bill *)
(* by hand.  What one schedule bills, and when, is in BillingSchedule.     *)
(*                                                                         *)
(* Whether a schedule is blocked is asked before its row is locked, and    *)
(* again behind the lock, where a blocked one throws and takes the sweep   *)
(* with it.  A handler of people locks the row first, or locks nothing:    *)
(* each is one action.                                                     *)
(*                                                                         *)
(* Data: a line is what it names, a service or a tax rate, or "plain"; a   *)
(* "huge" one is accepted and cannot be priced (its amount is past what a  *)
(* number holds).  Periods are counted.                                    *)
(***************************************************************************)
EXTENDS Integers, FiniteSets

CONSTANTS
    Schedules, ClientOf,        \* the client of each schedule
    Services, TaxRates,
    Agreed,                     \* what lines a schedule is set up with
    Workers,
    MaxCatchUp,                 \* MAX_CATCH_UP
    MaxDue, MaxEdits, MaxFaults,    \* bounds
    None

VARIABLES
    lines, status, archived,
    arrived, billed,    \* periods that have begun, and those committed invoices bill
    lock,               \* FOR UPDATE on a schedule
    sweep,
    edits, faults

vars == <<lines, status, archived, arrived, billed, lock, sweep, edits, faults>>

Catalogue == Services \cup TaxRates
Lines     == Catalogue \cup {"plain", "huge"}
Clients   == {ClientOf[s] : s \in Schedules}

Nothing == [s \in Schedules |-> {}]
Idle    == [step |-> "idle", todo |-> {}, now |-> None, attempt |-> 0, drafts |-> Nothing]

\* billingSchedule.create
Init ==
    /\ lines \in [Schedules -> Agreed]
    /\ status = [s \in Schedules |-> "active"]
    /\ archived = {}
    /\ arrived = [s \in Schedules |-> 0] /\ billed = [s \in Schedules |-> 0]
    /\ lock = [s \in Schedules |-> None]
    /\ sweep = [w \in Workers |-> Idle]
    /\ edits = 0 /\ faults = 0

-----------------------------------------------------------------------------
\* scheduleBlocker; the lines of a deleted schedule went with it.
Blocked(s) == lines[s] = {} \/ lines[s] \cap archived # {} \/ ClientOf[s] \in archived

\* newLineValues and recalculate have a price for every line.
Priceable(s) == "huge" \notin lines[s]

\* A draft is the lines it bills of the period it is for.
Drafted(w, s) == Cardinality(sweep[w].drafts[s])
Due(w, s)     == status[s] = "active" /\ billed[s] + Drafted(w, s) < arrived[s]

DueNow == {s \in Schedules : status[s] = "active" /\ billed[s] < arrived[s]}

\* mutation: the row is read without a lock
ScheduleUnlocked(w, s) == TRUE

ScheduleFree(w, s) == lock[s] \in {None, w}

-----------------------------------------------------------------------------
\* The sweep of worker w.
Begin(w) ==
    /\ sweep[w].step = "idle" /\ DueNow # {}
    /\ sweep' = [sweep EXCEPT ![w].step = "next", ![w].todo = DueNow]
    /\ UNCHANGED <<lines, status, archived, arrived, billed, lock, edits, faults>>

\* mutation: nobody asks before the row is locked
NeverAsked(s) == FALSE

Skipped(s) == Blocked(s)

Ask(w) ==
    /\ sweep[w].step = "next"
    /\ \E s \in sweep[w].todo :
         sweep' = [sweep EXCEPT ![w].todo = @ \ {s},
                                ![w].step = IF Skipped(s) THEN "next" ELSE "raise",
                                ![w].now = IF Skipped(s) THEN None ELSE s,
                                ![w].attempt = 0]
    /\ UNCHANGED <<lines, status, archived, arrived, billed, lock, edits, faults>>

WaitsFor(w, v) == sweep[w].step = "raise" /\ lock[sweep[w].now] = v

\* A row that is let go is given to who waits for it.
NextHolder(w, s) ==
    LET waiting == {v \in Workers \ {w} : WaitsFor(v, w) /\ sweep[v].now = s}
    IN  IF waiting = {} THEN None ELSE CHOOSE v \in waiting : TRUE

LetGo(w) == lock' = [s \in Schedules |-> IF lock[s] = w THEN NextHolder(w, s) ELSE lock[s]]

Abort(w) == sweep' = [sweep EXCEPT ![w] = Idle] /\ LetGo(w)

\* One call of raiseInvoiceFor: an invoice, null, or the end of the whole sweep.
Raise(w) ==
    LET s     == sweep[w].now
        after == [sweep[w] EXCEPT !.step = "next", !.now = None]
        draft == [period |-> billed[s] + Drafted(w, s) + 1, lines |-> lines[s]]
        more  == [sweep[w] EXCEPT !.drafts[s] = @ \cup {draft}, !.attempt = @ + 1]
    IN
    /\ sweep[w].step = "raise" /\ ScheduleFree(w, s)
    /\ IF status[s] = "deleted" \/ (Due(w, s) /\ (Blocked(s) \/ ~Priceable(s)))
       THEN Abort(w)
       ELSE /\ lock' = [lock EXCEPT ![s] = w]
            /\ sweep' = [sweep EXCEPT ![w] =
                 IF ~Due(w, s) THEN after
                 ELSE IF more.attempt = MaxCatchUp THEN [more EXCEPT !.step = "next", !.now = None]
                 ELSE more]
    /\ UNCHANGED <<lines, status, archived, arrived, billed, edits, faults>>

Commit(w) ==
    /\ sweep[w].step = "next" /\ sweep[w].todo = {}
    /\ billed' = [s \in Schedules |-> billed[s] + Drafted(w, s)]
    /\ sweep' = [sweep EXCEPT ![w] = Idle] /\ LetGo(w)
    /\ UNCHANGED <<lines, status, archived, arrived, edits, faults>>

\* Two sweeps that wait for each other: the database ends one of them.
Deadlock(w) ==
    /\ \E v \in Workers \ {w} : WaitsFor(w, v) /\ WaitsFor(v, w)
    /\ Abort(w)
    /\ UNCHANGED <<lines, status, archived, arrived, billed, edits, faults>>

\* The worker dies, or loses the database.
Crash(w) ==
    /\ sweep[w].step # "idle" /\ faults < MaxFaults
    /\ faults' = faults + 1
    /\ Abort(w)
    /\ UNCHANGED <<lines, status, archived, arrived, billed, edits>>

SweepStep(w) == Begin(w) \/ Ask(w) \/ Raise(w) \/ Commit(w) \/ Deadlock(w)

-----------------------------------------------------------------------------
\* People.
Edit(s) ==
    /\ edits < MaxEdits /\ edits' = edits + 1   \* bound
    /\ status[s] # "deleted" /\ ScheduleFree(None, s)
    /\ UNCHANGED <<archived, arrived, billed, lock, sweep, faults>>

LineAdd(s, x) ==
    /\ Edit(s)
    /\ x \notin archived
    /\ lines' = [lines EXCEPT ![s] = @ \cup {x}] /\ UNCHANGED status

LineRemove(s, x) ==
    /\ Edit(s)
    /\ x \in lines[s]
    /\ lines' = [lines EXCEPT ![s] = @ \ {x}] /\ UNCHANGED status

\* A line keeps its service; its tax rate and its amount may change.
LineUpdate(s, x, y) ==
    /\ Edit(s)
    /\ x \in lines[s] \ Services /\ y \notin archived \cup Services
    /\ lines' = [lines EXCEPT ![s] = (@ \ {x}) \cup {y}] /\ UNCHANGED status

ChangeStatus(s) ==
    /\ Edit(s)
    /\ status' = [status EXCEPT ![s] = IF @ = "active" THEN "paused" ELSE "active"] /\ UNCHANGED lines

Delete(s) ==
    /\ Edit(s)
    /\ status' = [status EXCEPT ![s] = "deleted"]
    /\ lines' = [lines EXCEPT ![s] = {}]

\* billingSchedule.generate
Generate(s) ==
    /\ ScheduleFree(None, s)
    /\ s \in DueNow /\ ~Blocked(s) /\ Priceable(s)
    /\ billed' = [billed EXCEPT ![s] = @ + 1]
    /\ UNCHANGED <<lines, status, archived, arrived, lock, sweep, edits, faults>>

\* service.archive, taxRate.archive, company.archive, and their restoring.
ArchiveProcedure(x) ==
    /\ edits < MaxEdits /\ edits' = edits + 1   \* bound
    /\ archived' = IF x \in archived THEN archived \ {x} ELSE archived \cup {x}
    /\ UNCHANGED <<lines, status, arrived, billed, lock, sweep, faults>>

\* A period begins.
Tick(s) ==
    /\ arrived[s] < MaxDue
    /\ arrived' = [arrived EXCEPT ![s] = @ + 1]
    /\ UNCHANGED <<lines, status, archived, billed, lock, sweep, edits, faults>>

People ==
    \/ \E s \in Schedules : ChangeStatus(s) \/ Delete(s) \/ Generate(s) \/ Tick(s)
    \/ \E s \in Schedules, x \in Lines : LineAdd(s, x) \/ LineRemove(s, x) \/ \E y \in Lines : LineUpdate(s, x, y)
    \/ \E x \in Catalogue \cup Clients : ArchiveProcedure(x)

Next == People \/ \E w \in Workers : SweepStep(w) \/ Crash(w)

Spec == Init /\ [][Next]_vars

\* The worker sweeps every hour, and its transactions come to an end.
FairSpec == Spec /\ \A w \in Workers : WF_vars(SweepStep(w))

-----------------------------------------------------------------------------
TypeOK ==
    /\ lines \in [Schedules -> SUBSET Lines]
    /\ status \in [Schedules -> {"active", "paused", "deleted"}]
    /\ archived \subseteq Catalogue \cup Clients
    /\ arrived \in [Schedules -> 0..MaxDue]
    /\ \A s \in Schedules : billed[s] \in 0..arrived[s]
    /\ lock \in [Schedules -> Workers \cup {None}]
    /\ \A w \in Workers : sweep[w].step \in {"idle", "next", "raise"} /\ sweep[w].todo \subseteq Schedules

\* No sweep is about to commit a draft for a period that another has billed or
\* bills too, nor one that states other lines than the schedule has by then.
BillsTheLines ==
    \A w \in Workers, s \in Schedules : \A d \in sweep[w].drafts[s] :
        /\ d.lines = lines[s] /\ d.period \in billed[s] + 1 .. arrived[s]
        /\ \A v \in Workers \ {w} : sweep[v].drafts[s] = {}

\* A schedule with a period due is billed, however its neighbours are blocked,
\* paused or deleted, and whichever sweeps fail ("one broken retainer should not
\* mean nobody else gets billed this month"), as long as all lines can be priced.
OthersBilled ==
    LET Fine == \A s \in Schedules : Priceable(s)
    IN  \A s \in Schedules :
            (Fine /\ s \in DueNow /\ ~Blocked(s)) ~> (~Fine \/ s \notin DueNow \/ Blocked(s))
=============================================================================
