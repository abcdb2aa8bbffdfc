------------------------------- MODULE Renewals -------------------------------
(***************************************************************************)
(* Infrastructure assets and the hourly sweep that announces what is       *)
(* coming up for renewal (infrastructure/assets.ts).                       *)
(*                                                                         *)
(* A sweep is one transaction: it reads what is due without locking it and *)
(* updates it row by row by id.  Each update locks its row, and shows when *)
(* the sweep commits.  Two workers may sweep at once.                      *)
(*                                                                         *)
(* Data: three of the five statuses; pending and suspended are treated as  *)
(* active is.                                                              *)
(***************************************************************************)
EXTENDS Integers, FiniteSets

CONSTANTS
    Assets, Workers,
    Horizon,        \* EXPIRY_HORIZON_DAYS
    LastDay,        \* bound on the calendar
    MaxEdits,       \* bound on changes by people
    None

VARIABLES
    today,
    asset,      \* infrastructure_assets
    sweep,      \* the transactions of the sweep
    said,       \* history: the assets announced since their date was set, and
                \* not marked since by a sweep that had read another date
    edits

vars == <<today, asset, sweep, said, edits>>

Dates    == 0..LastDay
Live     == {"active"}
Statuses == {"active", "expired", "decommissioned"}
NoAsset  == [status |-> "absent", expires |-> None, noticed |-> None, decommissioned |-> FALSE]
\* What a sweep has read, what it has updated, and which rows changed since.
Resting  == [day |-> None, read |-> [a \in Assets |-> None], marked |-> {}, overtaken |-> {}]

Init ==
    /\ today = 0
    /\ asset = [a \in Assets |-> NoAsset]
    /\ sweep = [w \in Workers |-> Resting]
    /\ said = {}
    /\ edits = 0

Tick == /\ today < LastDay /\ today' = today + 1
        /\ UNCHANGED <<asset, sweep, said, edits>>

Stored(a)    == asset[a].status # "absent"
Sweeping(w)  == sweep[w] # Resting
Unlocked(a)  == \A w \in Workers : a \notin sweep[w].marked
Edited       == edits < MaxEdits /\ edits' = edits + 1
\* A change of the rows overtakes whoever has read them.
Overtaking(rows) ==
    [w \in Workers |-> [sweep[w] EXCEPT !.overtaken = IF Sweeping(w) THEN @ \cup rows ELSE @]]

-----------------------------------------------------------------------------
\* People.

InfrastructureAssetCreate(a, date) ==
    /\ asset[a].status = "absent" /\ Edited
    /\ asset' = [asset EXCEPT ![a] = [NoAsset EXCEPT !.status = "active", !.expires = date]]
    /\ sweep' = Overtaking({a})
    /\ UNCHANGED <<today, said>>

\* mutation: a renewal does not arm the notice
NeverArmed(x, status, date) ==
    [x EXCEPT !.status = status, !.expires = date, !.decommissioned = (status = "decommissioned")]

\* A moved date has not been announced, whoever moved it and wherever to.
\* Putting an asset away is stamped, in whatever status it was.
Patched(x, status, date) ==
    [x EXCEPT !.status = status, !.expires = date,
              !.noticed = IF date = x.expires THEN @ ELSE None,
              !.decommissioned = (status = "decommissioned")]

InfrastructureAssetUpdate(a, status, date) ==
    /\ Stored(a) /\ Unlocked(a) /\ Edited
    /\ Patched(asset[a], status, date) # asset[a]
    /\ asset' = [asset EXCEPT ![a] = Patched(@, status, date)]
    /\ said' = IF date = asset[a].expires THEN said ELSE said \ {a}
    /\ sweep' = Overtaking({a})
    /\ UNCHANGED today

InfrastructureAssetDelete(a) ==
    /\ Stored(a) /\ Unlocked(a) /\ Edited
    /\ asset' = [asset EXCEPT ![a] = NoAsset]
    /\ said' = said \ {a}
    /\ sweep' = Overtaking({a})
    /\ UNCHANGED today

-----------------------------------------------------------------------------
\* sweepExpiringAssets

Due(a) ==
    /\ asset[a].expires # None /\ asset[a].expires <= today + Horizon
    /\ asset[a].status \in Live
    /\ asset[a].noticed # asset[a].expires

\* A sweep that finds nothing due changes nothing, and is left out.
SweepRead(w) ==
    /\ ~Sweeping(w) /\ \E a \in Assets : Due(a)
    /\ sweep' = [sweep EXCEPT ![w] = [Resting EXCEPT
                    !.day = today,
                    !.read = [a \in Assets |-> IF Due(a) THEN asset[a].expires ELSE None]]]
    /\ UNCHANGED <<today, asset, said, edits>>

ToDo(w)    == {a \in Assets : sweep[w].read[a] # None} \ sweep[w].marked
Passed(w, a) == sweep[w].read[a] < sweep[w].day

\* mutation: an asset that has just been put away expires
RefusedIfGone(w, a) == ~Stored(a)

\* An asset put away cannot have expired, the database says.
Refused(w, a) == ~Stored(a) \/ (Passed(w, a) /\ asset[a].decommissioned)

\* The update waits for whoever holds the row, and does not ask again whether
\* it is due.
SweepMark(w, a) ==
    /\ a \in ToDo(w) /\ Unlocked(a) /\ ~Refused(w, a)
    /\ sweep' = [sweep EXCEPT ![w].marked = @ \cup {a}]
    /\ UNCHANGED <<today, asset, said, edits>>

\* One row that cannot be marked undoes the sweep.
SweepFails(w) ==
    /\ Sweeping(w) /\ \E a \in ToDo(w) : Unlocked(a) /\ Refused(w, a)
    /\ sweep' = [sweep EXCEPT ![w] = Resting]
    /\ UNCHANGED <<today, asset, said, edits>>

\* mutation: the status alone says that an asset was announced
MarkedByStatus(w, a) ==
    [asset[a] EXCEPT !.status = IF Passed(w, a) THEN "expired" ELSE @]

Marked(w, a) ==
    [asset[a] EXCEPT !.noticed = sweep[w].read[a],
                     !.status = IF Passed(w, a) THEN "expired" ELSE @]

SweepCommit(w) ==
    /\ Sweeping(w) /\ ToDo(w) = {}
    /\ asset' = [a \in Assets |-> IF a \in sweep[w].marked THEN Marked(w, a) ELSE asset[a]]
    /\ said' = (said \ sweep[w].marked) \cup {a \in sweep[w].marked : sweep[w].read[a] = asset[a].expires}
    /\ sweep' = [Overtaking(sweep[w].marked) EXCEPT ![w] = Resting]
    /\ UNCHANGED <<today, edits>>

SweepStep(w) ==
    \/ SweepRead(w) \/ SweepFails(w) \/ SweepCommit(w)
    \/ \E a \in Assets : SweepMark(w, a)

-----------------------------------------------------------------------------
Next ==
    \/ Tick
    \/ \E a \in Assets :
          \/ \E date \in Dates \cup {None} :
                \/ InfrastructureAssetCreate(a, date)
                \/ \E status \in Statuses : InfrastructureAssetUpdate(a, status, date)
          \/ InfrastructureAssetDelete(a)
    \/ \E w \in Workers : SweepStep(w)

\* The calendar advances, and a worker that is up sweeps every hour.
Fairness ==
    /\ WF_vars(Tick)
    /\ \A w \in Workers : WF_vars(SweepStep(w))

Spec == Init /\ [][Next]_vars

FairSpec == Spec /\ Fairness

-----------------------------------------------------------------------------
\* The check of the database holds before it is asked, and rows are updated by
\* one sweep at a time.
TypeOK ==
    /\ today \in Dates
    /\ \A a \in Assets :
         /\ asset[a].status \in Statuses \cup {"absent"}
         /\ asset[a].decommissioned <=> asset[a].status = "decommissioned"
         /\ {asset[a].expires, asset[a].noticed} \subseteq Dates \cup {None}
    /\ \A v, w \in Workers : v # w => sweep[v].marked \cap sweep[w].marked = {}
    /\ said \subseteq {a \in Assets : Stored(a)}

\* "An unchanged date is announced once" (schema), and only what is in sight
\* is: by sweeps that nobody overtook.  A sweep that was may announce a date
\* twice, mark as expired what has just been renewed, or forget what was said.
NoticeOnce ==
    [][ \A w \in Workers : SweepCommit(w) => \A a \in sweep[w].marked \ sweep[w].overtaken :
          /\ a \notin said /\ asset[a].status \in Live
          /\ asset[a].expires <= today + Horizon
          /\ asset'[a].status = "expired" => asset[a].expires < today ]_vars

InSight(a) == asset[a].status \in Live /\ asset[a].expires \in 0..(today + Horizon)

\* What comes into sight is announced, again when its date was moved, or somebody changes it.
EventuallyAnnounced ==
    \A a \in Assets : (InSight(a) /\ a \notin said) ~> (a \in said \/ ~InSight(a))

\* "And marks as expired anything whose date has passed without one": an asset
\* still active on a day after its date does not stay so.
EventuallyExpired ==
    \A a \in Assets : (asset[a].status \in Live /\ asset[a].expires \in 0..(today - 1))
                         ~> ~(asset[a].status \in Live /\ asset[a].expires \in 0..(today - 1))
=============================================================================
