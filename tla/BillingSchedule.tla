-------------------------- MODULE BillingSchedule --------------------------
(***************************************************************************)
(* One recurring billing schedule and the draft invoices it raises         *)
(* (finance/billing-schedules.ts, finance/recurrence.ts, invoice.delete in *)
(* finance/invoices.ts, the constraints of migrations 0019, 0020, 0036).   *)
(*                                                                         *)
(* Every handler locks the schedule row before it reads it, so each is one *)
(* atomic action: what can go wrong is a legal sequence of calls.          *)
(*                                                                         *)
(* Data: days are integers and a period is `len` days, as with             *)
(* interval_unit = 'week'.  An invoice is the set of periods it bills.     *)
(* Lines, prices and the layout of the invoice are left out.               *)
(***************************************************************************)
EXTENDS Integers, FiniteSets

CONSTANTS
    StartDays, Lengths,      \* what create and update may be given
    EndDays,                 \* last days of an agreement, or NoDay
    Limits,                  \* max_occurrences, or NoLimit
    PerInvoice,              \* periods_per_invoice, and `periods` of generate
    MaxCatchUp,              \* MAX_CATCH_UP
    MaxInvoices, MaxUpdates, LastDay,    \* bounds
    NoDay, NoLimit

VARIABLES
    schedule,
    invoices,   \* the invoices it raised: the periods each bills, and its status
    blocked,    \* scheduleBlocker: an archived client, a deleted tax rate, no lines
    today,
    updates,    \* calls of billingSchedule.update so far
    letOff,     \* history: the periods whose draft was deleted with `skip`
    moved,      \* history: was its calendar moved?
    closed      \* history: did a person end the schedule, which nobody resumed since?

vars == <<schedule, invoices, blocked, today, updates, letOff, moved, closed>>
history == <<updates, letOff, moved, closed>>

-----------------------------------------------------------------------------
\* recurrence.ts

PeriodStart(s, k) == s.startOn + s.len * k

\* mutation: a period ends on the day the next one starts
PeriodEndInclusive(s, k) == PeriodStart(s, k + 1)

PeriodEnd(s, k) == PeriodStart(s, k + 1) - 1

\* The period a date belongs to; 0 for any date before the second period.
PeriodIndexOf(s, date) == IF date < s.startOn THEN 0 ELSE (date - s.startOn) \div s.len

PeriodAt(s, k) == [from |-> PeriodStart(s, k), to |-> PeriodEnd(s, k)]

Billed(invs)       == UNION {v.periods : v \in invs}
BilledStarts(invs) == {p.from : p \in Billed(invs)}

\* The first period at or after `from` whose start has not been billed.
NextUnbilledIndex(s, from, starts) ==
    CHOOSE k \in from .. from + Cardinality(starts) :
        /\ PeriodStart(s, k) \notin starts
        /\ \A j \in from .. k - 1 : PeriodStart(s, j) \in starts

\* The next n unbilled periods, those that start after the agreement ends left out.
UnbilledIndices(s, from, n, starts) ==
    LET open == {k \in from .. from + n + Cardinality(starts) :
                    PeriodStart(s, k) \notin starts /\ (s.endOn = NoDay \/ PeriodStart(s, k) <= s.endOn)}
    IN  {k \in open : Cardinality({j \in open : j < k}) < n}

GeneratedCount(invs) == Cardinality(Billed(invs))

NoneRemain(s, invs) == s.max # NoLimit /\ GeneratedCount(invs) >= s.max

\* mutation: an explicit number of periods ignores the limit of the agreement
WantsAll(s, invs, wanted) == wanted

\* How many periods to bill: what is wanted, within what the agreement has left.
Wanted(s, invs, wanted) ==
    IF s.max = NoLimit \/ wanted <= s.max - GeneratedCount(invs) THEN wanted
    ELSE s.max - GeneratedCount(invs)

-----------------------------------------------------------------------------
\* raiseInvoiceFor, on the schedule and its invoices

\* mutation: ending leaves the day of the next run
EndedOnly(s) == [s EXCEPT !.status = "ended"]

\* endSchedule
Ended(s) == [s EXCEPT !.status = "ended", !.next = NoDay]

\* mutation: a period is due the day after it starts
DueLater(s) == s.next < today

Due(s) == s.next <= today

\* Nothing to raise: paused, ended, or not due.
Waits(s, force) == s.status # "active" \/ (~force /\ ~Due(s))

PastEnd(s, day) == s.endOn # NoDay /\ day > s.endOn

\* The invoice for the next unbilled periods, and the schedule moved past them.
Advance(s, invs, indices) ==
    LET row   == [periods |-> {PeriodAt(s, k) : k \in indices}, status |-> "draft"]
        after == invs \cup {row}
        last  == CHOOSE k \in indices : \A j \in indices : j <= k
        next  == PeriodStart(s, NextUnbilledIndex(s, last + 1, BilledStarts(after)))
        onward == [s EXCEPT !.next = next]
    IN  <<IF NoneRemain(s, after) \/ PastEnd(s, next) THEN Ended(onward) ELSE onward, after>>

\* <<schedule, invoices>> after one call; unchanged when it returns null.
Raised(s, invs, force, wanted) ==
    IF Waits(s, force) THEN <<s, invs>>
    ELSE IF NoneRemain(s, invs) \/ PastEnd(s, s.next) THEN <<Ended(s), invs>>
    ELSE LET indices == UnbilledIndices(s, PeriodIndexOf(s, s.next), Wanted(s, invs, wanted), BilledStarts(invs))
         IN  IF indices = {} THEN <<Ended(s), invs>> ELSE Advance(s, invs, indices)

\* `periods` asked for explicitly must be there to bill.
EnoughLeft(s, invs, periods) ==
    /\ ~(s.max # NoLimit /\ periods > s.max - GeneratedCount(invs))
    /\ Cardinality(UnbilledIndices(s, PeriodIndexOf(s, s.next), periods, BilledStarts(invs))) \in {0, periods}

Take(result) == \E r \in {result} : schedule' = r[1] /\ invoices' = r[2]

-----------------------------------------------------------------------------
Schedules == [status : {"active", "paused", "ended"}, startOn : StartDays, len : Lengths,
              next : Nat \cup {NoDay}, endOn : EndDays, max : Limits, per : PerInvoice]

\* billingSchedule.create
Init ==
    /\ \E startOn \in StartDays, len \in Lengths, endOn \in EndDays, max \in Limits, per \in PerInvoice :
        /\ ~(endOn # NoDay /\ endOn < startOn)
        /\ schedule = [status |-> "active", startOn |-> startOn, len |-> len, next |-> startOn,
                       endOn |-> endOn, max |-> max, per |-> per]
    /\ invoices = {} /\ blocked = FALSE /\ today = 0
    /\ updates = 0 /\ letOff = {} /\ moved = FALSE /\ closed = FALSE

\* generateDueInvoices, for this schedule: one transaction, up to MaxCatchUp invoices.
Sweep ==
    LET pass[n \in 0 .. MaxCatchUp] ==
            IF n = 0 THEN <<schedule, invoices>>
            ELSE LET so == pass[n - 1] IN Raised(so[1], so[2], FALSE, schedule.per)
    IN  /\ schedule.status = "active" /\ Due(schedule) /\ ~blocked
        /\ Take(pass[MaxCatchUp])
        /\ UNCHANGED <<blocked, today, history>>

\* billingSchedule.generate.  A blocked schedule is refused only where it has
\* something to bill; the default number of periods is the schedule's own.
Generate(force) ==
    \E explicit \in BOOLEAN, periods \in PerInvoice :
        LET wanted == IF explicit THEN periods ELSE schedule.per
            ends   == NoneRemain(schedule, invoices) \/ PastEnd(schedule, schedule.next)
        IN  /\ ~Waits(schedule, force)
            /\ ~blocked \/ ends
            /\ explicit /\ ~ends => EnoughLeft(schedule, invoices, periods)
            /\ Take(Raised(schedule, invoices, force, wanted))
            /\ schedule.next <= LastDay /\ Cardinality(invoices') <= MaxInvoices  \* bounds
            /\ UNCHANGED <<blocked, today, history>>

\* Where the next run falls in a moved calendar.
Reanchored(s, from) ==
    PeriodStart(s, IF from <= s.startOn THEN 0 ELSE PeriodIndexOf(s, from) + 1)

\* billingSchedule.update.  Naming the start day or the interval moves the
\* calendar, even to where it was.
Update(moves, startOn, len, endOn, max, per) ==
    LET s    == [schedule EXCEPT !.startOn = startOn, !.len = len, !.endOn = endOn, !.max = max, !.per = per]
        from == IF schedule.next = NoDay THEN startOn ELSE schedule.next
    IN  /\ moves \/ (startOn = schedule.startOn /\ len = schedule.len)
        /\ ~PastEnd(s, startOn)
        /\ schedule' = IF moves /\ s.status # "ended" THEN [s EXCEPT !.next = Reanchored(s, from)] ELSE s
        /\ updates < MaxUpdates /\ updates' = updates + 1  \* bound
        /\ moved' = (moved \/ moves)
        /\ UNCHANGED <<invoices, blocked, today, letOff, closed>>

\* billingSchedule.changeStatus
ChangeStatus(status) ==
    LET first == PeriodStart(schedule, NextUnbilledIndex(schedule, 0, BilledStarts(invoices)))
        next  == IF status = "ended" THEN NoDay
                 ELSE IF schedule.next = NoDay THEN first ELSE schedule.next
    IN  /\ schedule.status # status
        /\ schedule' = [schedule EXCEPT !.status = status, !.next = next]
        /\ closed' = (status = "ended" \/ (closed /\ schedule.status # "ended"))
        /\ UNCHANGED <<invoices, blocked, today, updates, letOff, moved>>

\* invoice.send: the invoice, and with it the record of its periods, stays.
Send(v) ==
    /\ v.status = "draft"
    /\ invoices' = (invoices \ {v}) \cup {[v EXCEPT !.status = "sent"]}
    /\ UNCHANGED <<schedule, blocked, today, history>>

\* mutation: deleting a draft frees its periods and leaves the next run
StaysPut(s, earliest) == s.next

\* The day a rewound schedule goes back to.
RewoundTo(s, earliest) == IF s.next # NoDay /\ s.next < earliest THEN s.next ELSE earliest

\* rewindSchedulesForInvoice in mode `rebill`.
Rewound(s, v) ==
    LET earliest == CHOOSE d \in {p.from : p \in v.periods} : \A p \in v.periods : d <= p.from
        reopen   == /\ s.status = "ended"
                    /\ ~PastEnd(s, earliest)
                    /\ s.max = NoLimit \/ GeneratedCount(invoices) - Cardinality(v.periods) < s.max
    IN  IF s.status = "ended" /\ ~reopen THEN s
        ELSE [s EXCEPT !.next = RewoundTo(s, earliest), !.status = IF reopen THEN "active" ELSE @]

\* invoice.delete of a draft the schedule raised; its periods go with it.
DeleteDraft(v, mode) ==
    /\ v.status = "draft"
    /\ invoices' = invoices \ {v}
    /\ schedule' = IF mode = "rebill" THEN Rewound(schedule, v) ELSE schedule
    /\ letOff' = IF mode = "skip" THEN letOff \cup v.periods ELSE letOff
    /\ UNCHANGED <<blocked, today, updates, moved, closed>>

\* A client is archived or restored, a tax rate goes, lines are added or removed.
Block ==
    /\ blocked' = ~blocked
    /\ UNCHANGED <<schedule, invoices, today, history>>

Tick ==
    /\ today < LastDay
    /\ today' = today + 1
    /\ UNCHANGED <<schedule, invoices, blocked, history>>

Next ==
    \/ Sweep \/ \E force \in BOOLEAN : Generate(force)
    \/ \E moves \in BOOLEAN, startOn \in StartDays, len \in Lengths, endOn \in EndDays,
          max \in Limits, per \in PerInvoice : Update(moves, startOn, len, endOn, max, per)
    \/ \E status \in {"active", "paused", "ended"} : ChangeStatus(status)
    \/ \E v \in invoices : Send(v) \/ \E mode \in {"rebill", "skip"} : DeleteDraft(v, mode)
    \/ Block \/ Tick

Spec == Init /\ [][Next]_vars

\* The worker sweeps every hour.
FairSpec == Spec /\ WF_vars(Sweep)

-----------------------------------------------------------------------------
(* Properties *)

\* TypeOK: the schedule has the shape of its row, and a day to run next exactly
\* while it has not ended (billing_schedules_next_run_check).
TypeOK ==
    /\ schedule \in Schedules /\ (schedule.status = "ended") = (schedule.next = NoDay)
    /\ \A v \in invoices : v.status \in {"draft", "sent"} /\ v.periods # {}
    /\ blocked \in BOOLEAN /\ today \in 0 .. LastDay /\ {moved, closed} \subseteq BOOLEAN

Overlap(p, q) == p.from <= q.to /\ q.from <= p.to

\* No two billed periods share a day, and no two invoices a period.
BilledOnce ==
    /\ \A p, q \in Billed(invoices) : Overlap(p, q) => p = q
    /\ \A v, w \in invoices : v # w => v.periods \cap w.periods = {}

\* NoDayBilledTwice: no day is in two periods that were billed, by one invoice or
\* by two, whatever was deleted, rewound, paused or billed ahead, as long as the
\* calendar is not moved (S16.md: the unique key "makes billing any month twice
\* impossible").
NoDayBilledTwice == ~moved => BilledOnce

\* WithinAgreement: a step that bills a period bills no more of them than the
\* agreement has, and none that starts after it ends, as the agreement stands by
\* then: it may be cut short below what was already billed.
BillsWithin ==
    \A p \in Billed(invoices') \ Billed(invoices) :
        /\ ~PastEnd(schedule, p.from)
        /\ schedule.max # NoLimit => GeneratedCount(invoices') <= schedule.max

WithinAgreement == [][BillsWithin]_vars

\* NothingForgotten: every day before the next run is in a period that was billed,
\* or that a person let the client off (changeStatus: a schedule "skips no
\* period: it resumes where it left off"; S16.md: deleting a draft "no longer
\* loses its periods").  Not of a schedule a person closed and a deletion reopened
\* (see ClosedStaysClosed), nor of an agreement of a number of periods: both may
\* end with an earlier period open, and are reopened at the deleted one.  Nor of
\* one whose calendar or terms were changed, which may jump past an open period.
NothingForgotten ==
    schedule.status # "ended" /\ ~closed /\ schedule.max = NoLimit /\ updates = 0 =>
        \A day \in schedule.startOn .. schedule.next - 1 :
            \E p \in Billed(invoices) \cup letOff : day \in p.from .. p.to

\* ClosedStaysClosed: a schedule a person ended bills nothing more until a person
\* resumes it; only one "that ended because these periods used it up" is reopened
\* by deleting a draft (rewindSchedulesForInvoice).
ClosedStaysClosed == closed => schedule.status = "ended"

\* CatchesUp: a schedule with a period due is billed up to date, though each sweep
\* raises only so many, unless it is paused, ended or blocked, or drafts are
\* deleted for ever.
CatchesUp ==
    <>[][GeneratedCount(invoices') >= GeneratedCount(invoices)]_vars =>
        ((schedule.status = "active" /\ schedule.next <= today /\ ~blocked)
            ~> (schedule.status # "active" \/ schedule.next > today \/ blocked))
=============================================================================
