------------------------------ MODULE TaskBoard ------------------------------
(***************************************************************************)
(* The tasks of a project, what each waits for, and the files kept with    *)
(* them (projects/tasks.ts, milestones.ts, attachments.ts, projects.ts).   *)
(*                                                                         *)
(* Whether two tasks may depend on one another is asked under the lock of  *)
(* the project; whether a task may be finished, under its own.  Rows that  *)
(* refer to a task wait for whoever has locked it.  A file is stored       *)
(* before its row is, and removed after its row has gone.                  *)
(*                                                                         *)
(* Data: one project and one milestone; todo stands for the open statuses. *)
(***************************************************************************)
EXTENDS Integers, FiniteSets

CONSTANTS Tasks, Files, Requests, None

ASSUME TaskBoardAssumption ==
    /\ IsFiniteSet(Tasks) /\ IsFiniteSet(Requests)
    /\ None \notin Tasks /\ None \notin Nat

VARIABLES
    archived,   \* the project
    status,     \* tasks
    marked,     \* the tasks of the milestone, None when there is no milestone
    deps,       \* task_dependencies: <<task, the task it waits for>>
    row,        \* attachments: the task each is on
    storage,    \* the files that are stored
    request,    \* what is under way, and the rows it has locked
    reopened,   \* history: tasks opened again while somebody was finishing another
    missed      \* history: files whose row went with a task that had not listed them

board == <<archived, status, marked, deps>>
files == <<row, storage, missed>>
vars  == <<board, files, request, reopened>>

Statuses == {"absent", "todo", "done", "cancelled"}
Idle     == [op |-> "idle", task |-> None, other |-> None, files |-> {}]

Init ==
    /\ archived = FALSE
    /\ status = [t \in Tasks |-> "absent"]
    /\ marked = None
    /\ deps = {}
    /\ row = [f \in Files |-> None]
    /\ storage = {}
    /\ request = [r \in Requests |-> Idle]
    /\ reopened = {} /\ missed = {}

Stored(t)     == status[t] # "absent"
Finished(t)   == status[t] \in {"done", "cancelled"}
Doing(op)     == {r \in Requests : request[r].op = op}
\* A request that links tasks holds the project, one that finishes a task the task.
ProjectFree   == Doing("link") = {}
TaskFree(t)   == \A r \in Doing("finish") : request[r].task # t
Becomes(r, x) == request' = [request EXCEPT ![r] = x]
Begins(r, op, t, other, fs) ==
    request[r] = Idle /\ Becomes(r, [op |-> op, task |-> t, other |-> other, files |-> fs])

-----------------------------------------------------------------------------
\* The project and its milestone.

\* project.archive and project.restore
Archive(yes) ==
    /\ ProjectFree /\ archived # yes
    /\ archived' = yes
    /\ UNCHANGED <<status, marked, deps, files, request, reopened>>

MilestoneCreate ==
    /\ ~archived /\ ProjectFree /\ marked = None
    /\ marked' = {}
    /\ UNCHANGED <<archived, status, deps, files, request, reopened>>

\* Its tasks stay, without it.
MilestoneDelete ==
    /\ ~archived /\ marked # None
    /\ \A t \in marked : TaskFree(t)
    /\ marked' = None
    /\ UNCHANGED <<archived, status, deps, files, request, reopened>>

-----------------------------------------------------------------------------
\* Tasks.

TaskCreate(t) ==
    /\ ~archived /\ ProjectFree /\ ~Stored(t)
    /\ status' = [status EXCEPT ![t] = "todo"]
    /\ UNCHANGED <<archived, marked, deps, files, request, reopened>>

\* A task moves into the milestone or out of it.
TaskUpdate(t) ==
    /\ ~archived /\ Stored(t) /\ TaskFree(t) /\ marked # None
    /\ marked' = IF t \in marked THEN marked \ {t} ELSE marked \cup {t}
    /\ UNCHANGED <<archived, status, deps, files, request, reopened>>

\* Any status but done is taken up at once.
TaskChangeStatus(t, to) ==
    /\ ~archived /\ Stored(t) /\ TaskFree(t) /\ to \notin {"absent", "done", status[t]}
    /\ status' = [status EXCEPT ![t] = to]
    /\ reopened' = IF Finished(t) /\ to = "todo" /\ Doing("finish") # {} THEN reopened \cup {t} ELSE reopened
    /\ UNCHANGED <<archived, marked, deps, files, request>>

OpenDependencies(t) == {d \in deps : d[1] = t /\ ~Finished(d[2])}

\* The task is locked, and what it waits for is counted.
TaskFinishBegin(r, t) ==
    /\ ~archived /\ Stored(t) /\ TaskFree(t) /\ status[t] # "done"
    /\ OpenDependencies(t) = {}
    /\ Begins(r, "finish", t, None, {})
    /\ UNCHANGED <<board, files, reopened>>

TaskFinish(r) ==
    /\ request[r].op = "finish"
    /\ status' = [status EXCEPT ![request[r].task] = "done"]
    /\ Becomes(r, Idle)
    /\ reopened' = IF Cardinality(Doing("finish")) = 1 THEN {} ELSE reopened
    /\ UNCHANGED <<archived, marked, deps, files>>

\* The files of the task are listed before it is deleted.
TaskDeleteBegin(r, t) ==
    /\ ~archived /\ Stored(t)
    /\ Begins(r, "delete", t, None, {f \in Files : row[f] = t})
    /\ UNCHANGED <<board, files, reopened>>

\* What refers to the task goes with it.
TaskDelete(r) ==
    LET t    == request[r].task
        gone == {f \in Files : row[f] = t} IN
    /\ request[r].op = "delete" /\ Stored(t) /\ TaskFree(t)
    /\ status' = [status EXCEPT ![t] = "absent"]
    /\ marked' = IF marked = None THEN None ELSE marked \ {t}
    /\ deps' = {d \in deps : t \notin {d[1], d[2]}}
    /\ row' = [f \in Files |-> IF f \in gone THEN None ELSE row[f]]
    /\ missed' = missed \cup (gone \ request[r].files)
    /\ Becomes(r, [Idle EXCEPT !.op = "remove", !.files = request[r].files])
    /\ UNCHANGED <<archived, storage, reopened>>

-----------------------------------------------------------------------------
\* What waits for what.

\* Both tasks are read before anything is locked.
TaskDependencyAdd(r, t, other) ==
    /\ t # other /\ Stored(t) /\ Stored(other)
    /\ Begins(r, "ask", t, other, {})
    /\ UNCHANGED <<board, files, reopened>>

\* The tasks that a task waits for, directly or not.
Reachable(from) ==
    LET reach[n \in 0..Cardinality(Tasks)] ==
          IF n = 0 THEN {from} ELSE reach[n - 1] \cup {d[2] : d \in {x \in deps : x[1] \in reach[n - 1]}} IN
    reach[Cardinality(Tasks)] \ {from}

\* mutation: the project is not locked
UnlockedProject(r) ==
    request[r].op = "ask" /\ ~archived /\ request[r].task \notin Reachable(request[r].other)

\* The project is locked, and a loop is looked for.
NoCycle(r) ==
    request[r].op = "ask" /\ ~archived /\ ProjectFree /\ request[r].task \notin Reachable(request[r].other)

TaskDependencyCheck(r) ==
    /\ NoCycle(r)
    /\ Becomes(r, [request[r] EXCEPT !.op = "link"])
    /\ UNCHANGED <<board, files, reopened>>

\* mutation: the row does not wait for the tasks it names
LinkableBeside(r) == Stored(request[r].task) /\ Stored(request[r].other)

Linkable(r) ==
    \A t \in {request[r].task, request[r].other} : Stored(t) /\ TaskFree(t)

TaskDependencyInsert(r) ==
    /\ request[r].op = "link" /\ Linkable(r)
    /\ deps' = deps \cup {<<request[r].task, request[r].other>>}
    /\ Becomes(r, Idle)
    /\ UNCHANGED <<archived, status, marked, files, reopened>>

TaskDependencyRemove(d) ==
    /\ d \in deps
    /\ deps' = deps \ {d}
    /\ UNCHANGED <<archived, status, marked, files, request, reopened>>

-----------------------------------------------------------------------------
\* Files.

\* Stored first, under a key of its own.
AttachmentUpload(r, t, f) ==
    /\ ~archived /\ Stored(t)
    /\ row[f] = None /\ f \notin storage /\ \A q \in Requests : f \notin request[q].files
    /\ Begins(r, "upload", t, None, {f})
    /\ storage' = storage \cup {f}
    /\ UNCHANGED <<board, row, missed, reopened>>

AttachmentInsert(r) ==
    LET t == request[r].task IN
    /\ request[r].op = "upload" /\ Stored(t) /\ TaskFree(t)
    /\ row' = [f \in Files |-> IF f \in request[r].files THEN t ELSE row[f]]
    /\ Becomes(r, Idle)
    /\ UNCHANGED <<board, storage, missed, reopened>>

AttachmentDelete(r, f) ==
    /\ row[f] # None
    /\ Begins(r, "remove", None, None, {f})
    /\ row' = [row EXCEPT ![f] = None]
    /\ UNCHANGED <<board, storage, missed, reopened>>

\* After the commit that removed their rows, or the rollback of their upload.
FilesRemoved(r) ==
    /\ request[r].op = "remove"
    /\ storage' = storage \ request[r].files
    /\ Becomes(r, Idle)
    /\ UNCHANGED <<board, row, missed, reopened>>

\* mutation: the file of an upload is forgotten when it fails
Forgotten(r) == Idle

\* Only an upload has something to undo.
Undone(r) ==
    IF request[r].op = "upload" THEN [Idle EXCEPT !.op = "remove", !.files = request[r].files] ELSE Idle

\* A request may fail before it commits.
RollBack(r) ==
    /\ request[r].op \notin {"idle", "remove"}
    /\ Becomes(r, Undone(r))
    /\ UNCHANGED <<board, files, reopened>>

-----------------------------------------------------------------------------
\* What is shown: cancelled tasks do not count, and a percentage is rounded down.
Counted == {t \in Tasks : status[t] \in {"todo", "done"}}
ProgressPercent(ts) ==
    IF ts = {} THEN None ELSE (Cardinality({t \in ts : status[t] = "done"}) * 100) \div Cardinality(ts)

Next ==
    \/ \E yes \in BOOLEAN : Archive(yes)
    \/ MilestoneCreate \/ MilestoneDelete
    \/ \E t \in Tasks : TaskCreate(t) \/ TaskUpdate(t) \/ (\E to \in Statuses : TaskChangeStatus(t, to))
    \/ \E d \in deps : TaskDependencyRemove(d)
    \/ \E r \in Requests :
          \/ \E t \in Tasks :
                \/ TaskFinishBegin(r, t) \/ TaskDeleteBegin(r, t)
                \/ \E other \in Tasks : TaskDependencyAdd(r, t, other)
                \/ \E f \in Files : AttachmentUpload(r, t, f)
          \/ TaskFinish(r) \/ TaskDelete(r) \/ TaskDependencyCheck(r) \/ TaskDependencyInsert(r)
          \/ AttachmentInsert(r) \/ FilesRemoved(r) \/ RollBack(r)
          \/ \E f \in Files : AttachmentDelete(r, f)

Spec == Init /\ [][Next]_vars

-----------------------------------------------------------------------------
\* Rows refer to rows that are there, and a project is complete when it is.
TypeOK ==
    /\ archived \in BOOLEAN /\ \A t \in Tasks : status[t] \in Statuses
    /\ marked # None => \A t \in marked : Stored(t)
    /\ \A d \in deps : Stored(d[1]) /\ Stored(d[2])
    /\ \A f \in Files : row[f] # None => Stored(row[f])
    /\ ProgressPercent(Counted) = 100 <=> Counted # {} /\ \A t \in Tasks : status[t] # "todo"

\* No task waits for itself, through however many others: two dependencies
\* added at once may not close a loop either.
NoLoop == \A d \in deps : d[1] \notin Reachable(d[2])

\* A task is finished when everything it waits for is, even if somebody makes
\* it wait for more meanwhile; only what is opened again meanwhile is not seen.
FinishedInTurn ==
    [][ status' # status => \A t \in Tasks : status[t] # "done" /\ status'[t] = "done" =>
          \A d \in OpenDependencies(t) : d[2] \in reopened ]_vars

\* A file is kept as long as a row names it and until its upload has failed,
\* and no longer, but for one added to a task that was being deleted.
FilesFollowRows ==
    \A f \in Files :
      /\ row[f] # None => f \in storage
      /\ f \in storage => row[f] # None \/ f \in missed \/ \E r \in Requests : f \in request[r].files

\* What is on the board is there, and so is every file that is named.
BoardInOrder == TypeOK /\ FilesFollowRows
=============================================================================
