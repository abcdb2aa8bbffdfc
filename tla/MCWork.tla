-------------------------------- MODULE MCWork --------------------------------
\* Small instances of TaskBoard and ProjectBudgets for TLC.  They share no table,
\* so they are explored side by side: a behaviour is one of the parts'.
EXTENDS TaskBoard, TLC

CONSTANTS
    Users, Entries, PbRequests, HourCost, Fee, Budgets, Hours, LastDay, MaxEdits

\* Nobody sets a budget below nothing (projects_budget_check, projects_budget_hours_check).
ASSUME WorkAssumption ==
    /\ IsFiniteSet(Users) /\ IsFiniteSet(Entries)
    /\ None \notin Users /\ None \notin {"hourly", "fixed"} /\ None \notin Int
    /\ HourCost \in Nat /\ Fee \in Nat
    /\ Budgets \subseteq Nat /\ Hours \subseteq Nat
    /\ LastDay \in Nat /\ MaxEdits \in Nat

VARIABLES
    part,
    today, project, type, fee, entry, alerts, twice, budgetsRequest, sweep, excused, edits

Pb == INSTANCE ProjectBudgets WITH Requests <- PbRequests, Workers <- Requests, request <- budgetsRequest

budgetsVars ==
    <<today, project, type, fee, entry, alerts, twice, budgetsRequest, sweep, excused, edits>>
allVars == <<part, vars, budgetsVars>>

\* A part that is not explored stays as it begins, or is left blank.
NoBudgets ==
    /\ today = None /\ project = None /\ type = None /\ fee = None /\ entry = None
    /\ alerts = None /\ twice = None /\ budgetsRequest = None /\ sweep = None /\ excused = None
    /\ edits = None

AllInit ==
    \/ part = "board" /\ Init /\ NoBudgets
    \/ part = "budgets" /\ Pb!Init /\ Init

BoardNext ==
    part = "board" /\ Next /\ UNCHANGED <<part, budgetsVars>>
BudgetsNext ==
    part = "budgets" /\ Pb!Next /\ UNCHANGED <<part, vars>>

AllNext == BoardNext \/ BudgetsNext
AllSpec == AllInit /\ [][AllNext]_allVars

\* Bounds: milestones, dependencies and files are looked at one at a time, and
\* three tasks only with dependencies and none cancelled.
OneAtATime ==
    /\ marked # None => deps = {} /\ storage = {}
    /\ deps # {} => storage = {}
    /\ marked # None \/ storage # {} => \E t \in Tasks : ~Stored(t)
    /\ (\A t \in Tasks : Stored(t)) => \A t \in Tasks : status[t] # "cancelled"

\* Bounds: one budget at a time, and none while time is logged or somebody is
\* put on a fee and two workers sweep; no work on a project whose type was changed.
OneBudget ==
    Pb!Stored =>
       /\ None \in {project.budget, project.hours}
       /\ \A r \in PbRequests : budgetsRequest[r].op = "update" => project.budget = None /\ project.hours = None
       /\ (\A w \in Requests : sweep[w] # None) => \A r \in PbRequests : budgetsRequest[r] = Pb!Idle
       /\ type # [model |-> "hourly", period |-> "total", archived |-> FALSE] =>
             (\A u \in Users : fee[u] = None) /\ (\A r \in PbRequests : budgetsRequest[r] = Pb!Idle)

Alike == Permutations(Tasks) \cup Permutations(Requests)

Bounded ==
    /\ part = "board" => OneAtATime
    /\ part = "budgets" => OneBudget

\* board: tasks never wait for each other in a circle.
\* budgets: the total holds every entry once, and a threshold is told once.
WorkWatched ==
    /\ part = "budgets" => Pb!TypeOK /\ Pb!CountedOnce /\ Pb!ToldOnce
    /\ part = "board" => NoLoop
=============================================================================
