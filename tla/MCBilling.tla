------------------------------ MODULE MCBilling ------------------------------
\* Small instances of BillingSchedule, BillingSweep and Boot for TLC: one schedule and
\* its calendar, the sweep over several, and the processes coming up.  They are
\* explored side by side: a behaviour is one of the parts'.
EXTENDS Integers, FiniteSets

CONSTANTS
    StartDays, Lengths, EndDays, Limits, PerInvoice, MaxCatchUp, MaxInvoices, MaxUpdates, LastDay, NoDay, NoLimit,
    Nobody, Retainers, ClientOf, Services, TaxRates, Agreed, Workers, MaxDue, MaxChanges, MaxFaults,
    Processes, Checkers, Releases, Creates, MaxCrashes

\* A migration that creates a table is followed in its release by the one that protects it.
ASSUME BillingAssumption ==
    /\ StartDays \subseteq Nat /\ Lengths \subseteq Nat \ {0}
    /\ PerInvoice \subseteq Nat \ {0}
    /\ NoDay \notin Int /\ EndDays \subseteq Nat \cup {NoDay}
    /\ NoLimit \notin Int /\ Limits \subseteq (Nat \ {0}) \cup {NoLimit}
    /\ MaxCatchUp \in Nat \ {0}
    /\ MaxInvoices \in Nat /\ MaxUpdates \in Nat /\ LastDay \in Nat
    /\ MaxDue \in Nat /\ Nobody \notin Workers \cup Processes
    /\ Agreed \subseteq SUBSET (Services \cup TaxRates \cup {"plain", "huge"})
    /\ IsFiniteSet(Processes) /\ MaxCrashes \in Nat
    /\ Releases \subseteq Nat /\ Creates \subseteq Nat
    /\ \A m \in Creates, n \in Releases : m <= n => m + 1 <= n

VARIABLES
    part,
    schedule, invoices, blocked, today, updates, letOff, moved, closed,
    lines, status, putAway, arrived, billed, lock, sweep, changes, faults,
    applied, bootLock, process, crashes

Sd == INSTANCE BillingSchedule
Bw == INSTANCE BillingSweep WITH Schedules <- Retainers, None <- Nobody, MaxEdits <- MaxChanges, archived <- putAway, edits <- changes
Bt == INSTANCE Boot WITH Workers <- Checkers, None <- Nobody, lock <- bootLock

scheduleVars ==
    <<schedule, invoices, blocked, today, updates, letOff, moved, closed>>
sweepVars ==
    <<lines, status, putAway, arrived, billed, lock, sweep, changes, faults>>
bootVars ==
    <<applied, bootLock, process, crashes>>
billingVars == <<part, scheduleVars, sweepVars, bootVars>>

\* A part that is not explored stays as it begins.
Plain == Sd!Init /\ schedule.len = 1 /\ schedule.per = 1 /\ schedule.endOn = NoDay /\ schedule.max = NoLimit

BillingInit ==
    \/ part = "schedule" /\ Sd!Init /\ Bw!Init /\ Bt!Init
    \/ part = "sweep" /\ Bw!Init /\ Plain /\ Bt!Init
    \/ part = "boot" /\ Bt!Init /\ Plain /\ Bw!Init

\* A step of one part, while the others stay as they are.
ScheduleStep(step) == part = "schedule" /\ step /\ UNCHANGED <<part, sweepVars, bootVars>>
SweepStep(step)    == part = "sweep" /\ step /\ UNCHANGED <<part, scheduleVars, bootVars>>
BootStep(step)     == part = "boot" /\ step /\ UNCHANGED <<part, scheduleVars, sweepVars>>

ScheduleNext ==
    part = "schedule" /\ Sd!Next /\ UNCHANGED <<part, sweepVars, bootVars>>
SweepNext ==
    part = "sweep" /\ Bw!Next /\ UNCHANGED <<part, scheduleVars, bootVars>>
BootNext ==
    part = "boot" /\ Bt!Next /\ UNCHANGED <<part, scheduleVars, sweepVars>>

BillingNext == ScheduleNext \/ SweepNext \/ BootNext
BillingSpec ==
    /\ BillingInit
    /\ [][BillingNext]_billingVars
    /\ WF_billingVars(ScheduleStep(Sd!Sweep))
    /\ \A w \in Workers : WF_billingVars(SweepStep(Bw!SweepStep(w)))
    /\ \A p \in Processes : WF_billingVars(BootStep(Bt!Progress(p))) /\ SF_billingVars(BootStep(Bt!Lock(p)))

\* A client each, and one service to begin with.
OwnClients == [s \in Retainers |-> s]
OneService == {Services}

\* Bounds: an agreement has a last day or a number of periods, not both, and only
\* where periods are short; so are those of which it bills several at a time.  It
\* is edited while its client and its lines are there.
OneLimit ==
    /\ updates > 0 => ~blocked
    /\ schedule.endOn = NoDay \/ schedule.max = NoLimit
    /\ schedule.len = 1 \/ (schedule.per = 1 /\ schedule.endOn = NoDay /\ schedule.max = NoLimit)

BillingBounded ==
    /\ part = "schedule" => OneLimit

\* schedule: no day is billed twice, and no period is left behind.
\* sweep: a draft states the lines its schedule has, for a period of its own.
\* boot: a migration is applied once and in its turn, and what serves is protected.
DoneInTurn ==
    /\ part = "schedule" => Sd!TypeOK /\ Sd!NoDayBilledTwice /\ Sd!NothingForgotten
    /\ part = "sweep" => Bw!TypeOK /\ Bw!BillsTheLines
    /\ part = "boot" => Bt!TypeOK /\ Bt!MigratedOnce /\ Bt!ServesProtected

\* schedule: nothing is billed beyond what was agreed.
AgreementKept == Sd!WithinAgreement

\* schedule: one with a period due is billed up to date.
\* sweep: so is each of several, whatever is the matter with the others.
\* boot: every process comes to serve.
AllCatchUp == (part = "schedule" => Sd!CatchesUp) /\ Bw!OthersBilled /\ (part = "boot" => Bt!EventuallyServing)
=============================================================================
