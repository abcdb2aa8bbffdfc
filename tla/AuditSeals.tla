----------------------------- MODULE AuditSeals -----------------------------
(***************************************************************************)
(* The audit log and its daily seals (audit.ts, audit-seals.ts), sealed by *)
(* the hourly maintenance of one or more workers.                          *)
(*                                                                         *)
(* An entry carries the time its transaction began and is there for others *)
(* when it commits.  A seal holds what its day held when it was made and   *)
(* the digest of the seal before; a digest is what it was made from, so    *)
(* that two are equal only when that was.                                  *)
(***************************************************************************)
EXTENDS Naturals, Sequences, FiniteSets

CONSTANTS
    Entries, Sealers,
    LastDay,        \* bound on the clock
    None

VARIABLES
    today,          \* the clock, UTC
    entry,          \* audit_logs, and the transactions that will write to it
    seal,           \* audit_seals, by day: unique (organization, day)
    sealer          \* transactions that seal

vars == <<today, entry, seal, sealer>>

Days    == 1..LastDay
Resting == [days |-> {}, previous |-> <<>>, made |-> <<>>, at |-> 0]

\* days not yet sealed, the digest before them, and the seals inserted.
Init ==
    /\ today = 1
    /\ entry = [e \in Entries |-> [state |-> "none", day |-> 0, late |-> FALSE]]
    /\ seal = <<>>
    /\ sealer = [s \in Sealers |-> Resting]

Sealing(s)  == sealer[s].at > 0
Written     == {e \in Entries : entry[e].state = "written"}
DayEntries(d) == {e \in Written : entry[e].day = d}
DaysOf(es)  == {entry[e].day : e \in es}
Least(S)    == CHOOSE d \in S : \A x \in S : d <= x

\* sealDigest: of the digest before and the entries of the day, in order.
SealDigest(previous, es) == Append(previous, es)

-----------------------------------------------------------------------------
Begin(e) ==
    /\ entry[e].state = "none"
    /\ entry' = [entry EXCEPT ![e].state = "open", ![e].day = today]
    /\ UNCHANGED <<today, seal, sealer>>

\* writeAuditEntry, and the commit of the request it belongs to.
WriteAuditEntry(e) ==
    /\ entry[e].state = "open"
    /\ entry' = [entry EXCEPT ![e].state = "written", ![e].late = today > entry[e].day]
    /\ UNCHANGED <<today, seal, sealer>>

Midnight ==
    /\ today < LastDay /\ today' = today + 1
    /\ UNCHANGED <<entry, seal, sealer>>

\* mutation: today is sealed as well
OverToday(d, now) == d <= now

Over(d, now) == d < now

Last == IF seal = <<>> THEN [day |-> 0, digest |-> <<>>] ELSE seal[Len(seal)]

\* sealAuditLog reads the last seal, then the days after it that are over.
SealAuditLog(s) ==
    /\ ~Sealing(s)
    /\ LET due == {d \in DaysOf(Written) : d > Last.day /\ Over(d, today)} IN
       /\ due # {}
       /\ sealer' = [sealer EXCEPT ![s] =
              [days |-> due, previous |-> Last.digest, made |-> <<>>, at |-> Last.day + 1]]
    /\ UNCHANGED <<today, entry, seal>>

\* mutation: any number of seals for a day
AnyKey(d) == TRUE

\* audit_seals_day_key: a row another transaction inserted, and has not
\* committed, is waited for.
DayKey(d) ==
    /\ \A i \in DOMAIN seal : seal[i].day # d
    /\ \A o \in Sealers : \A i \in DOMAIN sealer[o].made : sealer[o].made[i].day # d

\* The entries of the next day are read, and its seal is inserted.
SealDay(s) ==
    /\ sealer[s].days # {}
    /\ LET d    == Least(sealer[s].days)
           dig  == SealDigest(sealer[s].previous, DayEntries(d))
       IN /\ DayKey(d)
          /\ sealer' = [sealer EXCEPT
                 ![s].days = @ \ {d}, ![s].previous = dig,
                 ![s].made = Append(@, [day |-> d, digest |-> dig, previous |-> sealer[s].previous])]
    /\ UNCHANGED <<today, entry, seal>>

Commit(s) ==
    /\ Sealing(s) /\ sealer[s].days = {}
    /\ seal' = seal \o sealer[s].made
    /\ sealer' = [sealer EXCEPT ![s] = Resting]
    /\ UNCHANGED <<today, entry>>

\* The day is sealed already, or the worker dies.
RollBack(s) ==
    /\ Sealing(s)
    /\ sealer' = [sealer EXCEPT ![s] = Resting]
    /\ UNCHANGED <<today, entry, seal>>

Next ==
    \/ Midnight
    \/ \E e \in Entries : Begin(e) \/ WriteAuditEntry(e)
    \/ \E s \in Sealers : SealAuditLog(s) \/ SealDay(s) \/ Commit(s) \/ RollBack(s)

Spec == Init /\ [][Next]_vars

-----------------------------------------------------------------------------
\* auditSeal.verify: every digest is made again, from the entries found now.
Intact(i) ==
    LET before == IF i = 1 THEN <<>> ELSE seal[i - 1].digest IN
    seal[i].digest = SealDigest(before, DayEntries(seal[i].day)) /\ seal[i].previous = before

Stray == {d \in DaysOf(Written) : d <= Last.day /\ \A i \in DOMAIN seal : seal[i].day # d}

AuditSealVerify == (\A i \in DOMAIN seal : Intact(i)) /\ Stray = {}

TypeOK ==
    /\ today \in Days
    /\ \A e \in Entries : entry[e].state = "none" \/ entry[e].day \in 1..today
    /\ \A i, j \in DOMAIN seal : i < j => seal[i].day < seal[j].day

\* When every request ends on the day it began, whichever workers seal which
\* days at once, and whatever they died at: the seals are one chain, no day
\* before the last is left out, and each is of all that its day held.
SealsVerify == (\A e \in Written : ~entry[e].late) => AuditSealVerify

\* "say whether any sealed day has changed since" (auditSeal.verify): no entry
\* here is ever changed, so it never should.
NoFalseAlarm == AuditSealVerify
=============================================================================
