--------------------------- MODULE ProjectBudgets ---------------------------
(***************************************************************************)
(* How a project is billed and what it may cost, who works on it for a     *)
(* fixed fee, and the sweep that tells when its budget is used up          *)
(* (projects/projects.ts, project-types.ts, budget.ts, project-budget.ts,  *)
(* time/rates.ts).                                                         *)
(*                                                                         *)
(* Time is logged with the cost of the moment it was begun; putting        *)
(* somebody on a fee counts what was logged without locking it; a sweep    *)
(* reads the costs and then records what was crossed.                      *)
(*                                                                         *)
(* Data: one project and one type; an entry is an hour; a month is two     *)
(* days, and the other periods are like it; no expenses and no estimates.  *)
(***************************************************************************)
EXTENDS Integers, FiniteSets, FiniteSetsExt

CONSTANTS
    Users, Entries, Requests, Workers,
    HourCost,       \* what an hour costs without a fee
    Fee,            \* a fixed fee
    Budgets, Hours, \* the budgets people set, in money and in hours
    LastDay,        \* bound on the calendar
    MaxEdits,       \* bound on changes by people
    None

VARIABLES
    today,
    project,
    type,       \* project_types
    fee,        \* project_members: None, "hourly" or "fixed"
    entry,      \* time_entries
    alerts,     \* project_budget_alerts
    twice,      \* history: the alerts announced again
    request, sweep,
    excused,    \* history: who was put on a fee beside time logged before or meanwhile
    edits

people == <<project, type, fee>>
vars == <<today, people, entry, alerts, twice, request, sweep, excused, edits>>

Models     == {"fixed_price", "retainer", "hourly"}
Periods    == {"total", "month"}
Thresholds == {80, 100}
Measures   == {"cost", "hours"}
Days       == 0..LastDay
Keys       == Measures \X Days \X Thresholds
NoEntry    == [user |-> None, day |-> 0, cost |-> 0]
Idle       == [op |-> "idle", user |-> None, to |-> None, cost |-> 0, rebase |-> FALSE, early |-> FALSE]

Init ==
    /\ today = 0
    /\ project = None
    /\ type = [model |-> "hourly", period |-> "total", archived |-> FALSE]
    /\ fee = [u \in Users |-> None]
    /\ entry = [e \in Entries |-> NoEntry]
    /\ alerts = {} /\ twice = {}
    /\ request = [r \in Requests |-> Idle]
    /\ sweep = [w \in Workers |-> None]
    /\ excused = {}
    /\ edits = 0

Tick == /\ today < LastDay /\ today' = today + 1
        /\ UNCHANGED <<people, entry, alerts, twice, request, sweep, excused, edits>>

Edited == edits < MaxEdits /\ edits' = edits + 1
Or(x, y) == IF x = None THEN y ELSE x
Stored == project # None
Active == Stored /\ ~project.archived
Others == <<today, entry, alerts, twice, request, sweep, excused>>

-----------------------------------------------------------------------------
\* The project and its type.

\* assertBillingTerms
Agreed(p) ==
    /\ p.model = "retainer" => p.contract = None
    /\ p.model = "fixed_price" => p.period = "total"

\* assertDefaults
ProjectTypeUpdate(model, period, archived) ==
    /\ Edited
    /\ model = "fixed_price" => period = "total"
    /\ type' = [model |-> model, period |-> period, archived |-> archived]
    /\ type' # type
    /\ UNCHANGED <<project, fee, Others>>

ModelFor(typed, model, contract) ==
    Or(model, IF typed THEN type.model ELSE IF contract # None THEN "fixed_price" ELSE "hourly")

PeriodFor(typed, model, period) ==
    Or(period, IF model = "fixed_price" THEN "total"
               ELSE IF typed THEN type.period ELSE IF model = "retainer" THEN "month" ELSE "total")

ProjectCreate(typed, model, period, contract, budget, hours) ==
    LET m == ModelFor(typed, model, contract)
        p == [model |-> m, period |-> PeriodFor(typed, m, period), contract |-> contract,
              budget |-> budget, hours |-> hours, start |-> None, created |-> today,
              status |-> "active", archived |-> FALSE] IN
    /\ ~Stored /\ (typed => ~type.archived) /\ Agreed(p)
    /\ project' = p
    /\ UNCHANGED <<type, fee, Others, edits>>

ProjectUpdate(patch) ==
    LET p == [f \in DOMAIN project |-> IF f \in DOMAIN patch THEN patch[f] ELSE project[f]] IN
    /\ Stored /\ Edited /\ Agreed(p) /\ p # project
    /\ project' = p
    /\ UNCHANGED <<type, fee, Others>>

ProjectChangeStatus(to) ==
    /\ Active /\ Edited /\ project.status # to
    /\ project' = [project EXCEPT !.status = to]
    /\ UNCHANGED <<type, fee, Others>>

\* project.archive and project.restore
ProjectArchive(yes) ==
    /\ Stored /\ Edited /\ project.archived # yes
    /\ project' = [project EXCEPT !.archived = yes]
    /\ UNCHANGED <<type, fee, Others>>

-----------------------------------------------------------------------------
\* Who works on it.

OnFee(u)   == fee[u] = "fixed"
Costed(u)  == {e \in Entries : entry[e].user = u /\ entry[e].cost > 0}
Under(u)   == {r \in Requests : request[r].op = "log" /\ request[r].user = u}

\* insertMember: nobody is on a project twice.
NotYetMember(u) == fee[u] = None

\* Somebody may join with a fee, whatever time they have logged before.
ProjectMemberAdd(u, to) ==
    /\ Active /\ Edited /\ NotYetMember(u)
    /\ fee' = [fee EXCEPT ![u] = to]
    /\ excused' = IF to # "hourly" /\ (Costed(u) # {} \/ Under(u) # {}) THEN excused \cup {u} ELSE excused
    /\ UNCHANGED <<today, project, type, entry, alerts, twice, request, sweep>>

\* An update of the row that has gone fails.
ProjectMemberRemove(u) ==
    /\ fee[u] # None /\ Edited
    /\ fee' = [fee EXCEPT ![u] = None]
    /\ request' = [r \in Requests |-> IF request[r].op = "update" /\ request[r].user = u THEN Idle ELSE request[r]]
    /\ UNCHANGED <<today, project, type, entry, alerts, twice, sweep, excused>>

\* Going onto a fee is refused while time is logged by the hour, unless that
\* time is to cost nothing from now on.
ProjectMemberUpdateBegin(r, u, to, rebase) ==
    LET starts == to # "hourly" /\ ~OnFee(u) /\ Costed(u) # {} IN
    /\ fee[u] \notin {None, to} /\ request[r] = Idle /\ Edited
    /\ starts => rebase
    /\ request' = [request EXCEPT ![r] = [Idle EXCEPT !.op = "update", !.user = u, !.to = to, !.rebase = starts]]
    /\ UNCHANGED <<today, people, entry, alerts, twice, sweep, excused>>

\* mutation: time that was logged keeps its cost
Unrebased(r) == entry

Rebased(r) ==
    [e \in Entries |-> IF request[r].rebase /\ entry[e].user = request[r].user
                       THEN [entry[e] EXCEPT !.cost = 0] ELSE entry[e]]

\* Time logged since it was counted is rewritten when there was some to rewrite.
ProjectMemberUpdate(r) ==
    LET u == request[r].user IN
    /\ request[r].op = "update"
    /\ fee' = [fee EXCEPT ![u] = request[r].to]
    /\ entry' = Rebased(r)
    /\ excused' = IF request[r].to # "hourly" /\ ~request[r].rebase /\ Costed(u) # {} THEN excused \cup {u} ELSE excused
    /\ request' = [request EXCEPT ![r] = Idle]
    /\ UNCHANGED <<today, project, type, alerts, twice, sweep, edits>>

-----------------------------------------------------------------------------
\* Time.

\* mutation: a fee does not change what an hour costs
HourlyRate(u) == HourCost

\* snapshotRates
SnapshotRate(u) == IF OnFee(u) THEN 0 ELSE HourCost

TimeEntryBegin(r, u) ==
    /\ Active /\ request[r] = Idle
    /\ request' = [request EXCEPT ![r] = [Idle EXCEPT !.op = "log", !.user = u, !.cost = SnapshotRate(u), !.early = ~OnFee(u)]]
    /\ UNCHANGED <<today, people, entry, alerts, twice, sweep, excused, edits>>

TimeEntryInsert(r, e, day) ==
    LET u == request[r].user IN
    /\ request[r].op = "log" /\ entry[e] = NoEntry /\ day <= today
    /\ entry' = [entry EXCEPT ![e] = [user |-> u, day |-> day, cost |-> request[r].cost]]
    /\ excused' = IF OnFee(u) /\ request[r].early THEN excused \cup {u} ELSE excused
    /\ request' = [request EXCEPT ![r] = Idle]
    /\ UNCHANGED <<today, people, alerts, twice, sweep, edits>>

TimeEntryDelete(e) ==
    /\ entry[e] # NoEntry /\ Edited
    /\ entry' = [entry EXCEPT ![e] = NoEntry]
    /\ UNCHANGED <<today, people, alerts, twice, request, sweep, excused>>

-----------------------------------------------------------------------------
\* Budgets.

\* budgetWindow: the days of the month, or all of them.
Window == IF project.period = "total" THEN Days ELSE {d \in Days : d \div 2 = today \div 2}
InWindow == {e \in Entries : entry[e].user # None /\ entry[e].day \in Window}

\* A fee counts towards the whole of a project, and not towards a month.
Cost ==
    MapThenSumSet(LAMBDA e : entry[e].cost, InWindow)
      + IF project.period = "total" THEN Fee * Cardinality({u \in Users : OnFee(u)}) ELSE 0

\* usedPercent
UsedPercent(used, limit) ==
    IF limit <= 0 THEN (IF used > 0 THEN 1000 ELSE 0) ELSE (used * 100) \div limit

Limit(measure) == IF measure = "cost" THEN project.budget ELSE project.hours
Used(measure)  == IF measure = "cost" THEN Cost ELSE Cardinality(InWindow)
Exceeds(measure) == Limit(measure) # None /\ Used(measure) > Limit(measure)

\* budgetStatus
Crossed == {x \in Measures \X Thresholds : Limit(x[1]) # None /\ UsedPercent(Used(x[1]), Limit(x[1])) >= x[2]}

PeriodStart ==
    IF project.period # "total" THEN (today \div 2) * 2 ELSE Or(project.start, project.created)

\* budgetedProjects
Budgeted == Active /\ project.status # "completed" /\ (project.budget # None \/ project.hours # None)

\* What the sweep would announce now, and has not.
Due == IF Budgeted THEN {k \in Keys : <<k[1], k[3]>> \in Crossed /\ k[2] = PeriodStart} ELSE {}

\* The costs are read.  A sweep with nothing to announce is left out.
SweepRead(w) ==
    /\ sweep[w] = None /\ ~(Due \subseteq alerts)
    /\ sweep' = [sweep EXCEPT ![w] = Due]
    /\ UNCHANGED <<today, people, entry, alerts, twice, request, excused, edits>>

\* mutation: what was announced is not looked up
AllRead(w) == sweep[w]

\* On conflict nothing is inserted, and nothing announced.
Fresh(w) == sweep[w] \ alerts

SweepWrite(w) ==
    /\ sweep[w] # None
    /\ alerts' = alerts \cup sweep[w]
    /\ twice' = twice \cup (Fresh(w) \cap alerts)
    /\ sweep' = [sweep EXCEPT ![w] = None]
    /\ UNCHANGED <<today, people, entry, request, excused, edits>>

-----------------------------------------------------------------------------
Patches ==
    [model : Models, period : Periods] \cup [contract : {None, 1}]
      \cup [budget : Budgets \cup {None}] \cup [hours : Hours \cup {None}] \cup [start : {1}]

Next ==
    \/ Tick
    \/ \E period \in Periods, model \in Models, yes \in BOOLEAN : ProjectTypeUpdate(model, period, yes)
    \/ \E typed \in BOOLEAN, model \in Models \cup {None}, period \in Periods \cup {None}, contract \in {None, 1} :
          \E budget \in Budgets \cup {None}, hours \in Hours \cup {None} :
              ProjectCreate(typed, model, period, contract, budget, hours)
    \/ \E patch \in Patches : ProjectUpdate(patch)
    \/ \E to \in {"active", "completed"} : ProjectChangeStatus(to)
    \/ \E yes \in BOOLEAN : ProjectArchive(yes)
    \/ \E u \in Users :
          \/ \E to \in {"hourly", "fixed"} :
                \/ ProjectMemberAdd(u, to)
                \/ \E r \in Requests, rebase \in BOOLEAN : ProjectMemberUpdateBegin(r, u, to, rebase)
          \/ ProjectMemberRemove(u)
          \/ \E r \in Requests : TimeEntryBegin(r, u)
    \/ \E r \in Requests : ProjectMemberUpdate(r) \/ \E e \in Entries, day \in Days : TimeEntryInsert(r, e, day)
    \/ \E e \in Entries : TimeEntryDelete(e)
    \/ \E w \in Workers : SweepRead(w) \/ SweepWrite(w)

Spec == Init /\ [][Next]_vars

-----------------------------------------------------------------------------
\* What the database checks holds before it is asked, whatever a type, a
\* default and a patch come to; and a budget that is exceeded has crossed its
\* thresholds, rounded down as percentages are.
TypeOK ==
    /\ today \in Days
    /\ type.model = "fixed_price" => type.period = "total"
    /\ \A u \in Users : fee[u] \in {None, "hourly", "fixed"}
    /\ Stored =>
         /\ project.model \in Models /\ project.period \in Periods
         /\ project.model = "retainer" => project.contract = None
         /\ project.model = "fixed_price" => project.period = "total"
         /\ \A m \in Measures : Exceeds(m) => {m} \X Thresholds \subseteq Crossed

\* The work of somebody paid a fee is not paid by the hour as well, unless
\* they joined with the fee or were being put on it while they logged time.
CountedOnce == \A u \in Users : OnFee(u) /\ Costed(u) # {} => u \in excused

\* An alert is announced once in its period, by whichever worker comes first,
\* and no budget is used up that was not nearly used up before.
ToldOnce ==
    /\ twice = {}
    /\ \A k \in alerts : k[3] = 100 => <<k[1], k[2], 80>> \in alerts
=============================================================================
