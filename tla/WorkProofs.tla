------------------------------ MODULE WorkProofs ------------------------------
(***************************************************************************)
(* Proofs about the tasks of a project, their files and its budget, for    *)
(* any number of tasks, files, entries and requests under way.             *)
(*                                                                         *)
(* A task waits for others, and a file is stored before it has a row: both *)
(* stay right because of what the requests under way hold.  That no task   *)
(* waits for itself rests on sets that nothing leads out of, and on a loop *)
(* being looked for by whoever alone may add a dependency.                 *)
(***************************************************************************)
EXTENDS MCWork, FiniteSetTheorems, WellFoundedInduction, TLAPS

Ops == {"idle", "finish", "delete", "ask", "link", "upload", "remove"}
RequestRows == [op : Ops, task : Tasks \cup {None}, other : Tasks \cup {None}, files : SUBSET Files]

Shape ==
    /\ archived \in BOOLEAN
    /\ status \in [Tasks -> Statuses]
    /\ deps \subseteq Tasks \X Tasks
    /\ row \in [Files -> Tasks \cup {None}]
    /\ request \in [Requests -> RequestRows]
    /\ \A r \in Requests :
        /\ request[r].op \in {"finish", "delete", "ask", "link", "upload"} => request[r].task \in Tasks
        /\ request[r].op \in {"ask", "link"} => request[r].other \in Tasks

(* Rows refer to rows that are there.                                      *)
References ==
    /\ marked # None => \A t \in marked : t \in Tasks /\ Stored(t)
    /\ \A d \in deps : Stored(d[1]) /\ Stored(d[2])
    /\ \A f \in Files : row[f] # None => Stored(row[f])

(* What a task that is being finished waits for was opened meanwhile.      *)
Waiting ==
    \A r \in Doing("finish") : \A d \in OpenDependencies(request[r].task) : d[2] \in reopened

(* An upload has a file of its own; a request that deletes or removes has  *)
(* files that are on its task still, or on none.                           *)
Handling ==
    \A r \in Requests : \A f \in request[r].files :
        /\ request[r].op = "upload" =>
              /\ row[f] = None /\ f \in storage
              /\ \A q \in Requests : f \in request[q].files => q = r
        /\ request[r].op = "remove" => row[f] = None
        /\ request[r].op = "delete" => row[f] \in {request[r].task, None}

(* A file has a row, or somebody who will give it one or remove it.        *)
Kept ==
    \A f \in Files :
        /\ row[f] # None => f \in storage
        /\ f \in storage =>
              \/ row[f] # None
              \/ f \in missed
              \/ \E r \in Requests : request[r].op \in {"upload", "remove"} /\ f \in request[r].files

BoardInv ==
    /\ Shape
    /\ References
    /\ Waiting
    /\ Handling
    /\ Kept

LEMMA BoardInit == Init => BoardInv
<1> SUFFICES ASSUME Init PROVE BoardInv
  OBVIOUS
<1>1. \A r \in Requests : request[r] = Idle
  BY DEF Init
<1>2. Shape
  BY <1>1 DEF Init, Shape, Statuses, Idle, RequestRows, Ops
<1>3. References /\ Kept
  BY DEF Init, References, Kept
<1>4. Waiting /\ Handling
  BY <1>1 DEF Waiting, Handling, Doing, Idle
<1> QED BY <1>2, <1>3, <1>4 DEF BoardInv

-----------------------------------------------------------------------------
(* A percentage of 100 says that every task that counts is done.           *)
LEMMA HundredPercent ==
    ASSUME NEW m \in Nat, NEW n \in Nat, m <= n, n > 0
    PROVE  (m * 100) \div n = 100 <=> m = n
<1>1. m = n => (m * 100) \div n = 100
  OBVIOUS
<1>2. m < n => (m * 100) \div n # 100
  OBVIOUS
<1> QED BY <1>1, <1>2

LEMMA CompleteWhenItIs ==
    ASSUME Shape
    PROVE  ProgressPercent(Counted) = 100 <=> Counted # {} /\ \A t \in Tasks : status[t] # "todo"
<1> DEFINE done == {t \in Counted : status[t] = "done"}
<1>1. IsFiniteSet(Counted) /\ IsFiniteSet(done) /\ done \subseteq Counted
  BY TaskBoardAssumption, FS_Subset DEF Counted
<1>2. /\ Cardinality(done) \in Nat /\ Cardinality(Counted) \in Nat /\ Cardinality(done) <= Cardinality(Counted)
      /\ Cardinality(done) = Cardinality(Counted) => done = Counted
  BY <1>1, FS_CardinalityType, FS_Subset
<1>3. CASE Counted = {}
  BY <1>3, TaskBoardAssumption DEF ProgressPercent
<1>4. CASE Counted # {}
  <2>1. Cardinality(Counted) > 0
    BY <1>1, <1>2, <1>4, FS_EmptySet
  <2>2. ProgressPercent(Counted) = (Cardinality(done) * 100) \div Cardinality(Counted)
    BY <1>4 DEF ProgressPercent
  <2>3. ProgressPercent(Counted) = 100 <=> Cardinality(done) = Cardinality(Counted)
    BY <1>2, <2>1, <2>2, HundredPercent
  <2>4. Cardinality(done) = Cardinality(Counted) <=> done = Counted
    BY <1>2
  <2>5. done = Counted <=> \A t \in Tasks : status[t] # "todo"
    BY DEF Counted, Shape, Statuses
  <2> QED BY <1>4, <2>3, <2>4, <2>5
<1> QED BY <1>3, <1>4

LEMMA BoardOrder == BoardInv => BoardInOrder
BY CompleteWhenItIs DEF BoardInv, Shape, References, Kept, BoardInOrder, TypeOK, FilesFollowRows

-----------------------------------------------------------------------------
(* A step that leaves files and requests alone.                            *)
LEMMA BoardStep ==
    ASSUME BoardInv, UNCHANGED <<row, storage, missed, request>>, Shape', References', Waiting'
    PROVE  BoardInv'
BY DEF BoardInv, Handling, Kept

LEMMA ProjectStep ==
    ASSUME BoardInv,
           (\E yes \in BOOLEAN : Archive(yes)) \/ MilestoneCreate \/ MilestoneDelete
              \/ (\E t \in Tasks : TaskUpdate(t)) \/ (\E d \in deps : TaskDependencyRemove(d))
    PROVE  BoardInv'
<1>1. /\ status' = status /\ deps' \subseteq deps /\ archived' \in BOOLEAN
      /\ UNCHANGED <<row, storage, missed, request, reopened>>
  BY DEF Archive, MilestoneCreate, MilestoneDelete, TaskUpdate, TaskDependencyRemove, files, BoardInv, Shape
<1>2. marked' # None => \A t \in marked' : t \in Tasks /\ Stored(t)
  BY DEF Archive, MilestoneCreate, MilestoneDelete, TaskUpdate, TaskDependencyRemove, BoardInv, References, Shape
<1>3. Shape'
  BY <1>1 DEF BoardInv, Shape
<1>4. References'
  BY <1>1, <1>2 DEF BoardInv, References, Stored
<1>5. Waiting'
  BY <1>1 DEF BoardInv, Waiting, Doing, OpenDependencies, Finished
<1> QED BY <1>1, <1>3, <1>4, <1>5, BoardStep

LEMMA CreateStep ==
    ASSUME BoardInv, NEW t \in Tasks, TaskCreate(t)
    PROVE  BoardInv'
<1>1. /\ ~Stored(t) /\ status' = [status EXCEPT ![t] = "todo"]
      /\ UNCHANGED <<archived, marked, deps, row, storage, missed, request, reopened>>
  BY DEF TaskCreate, files
<1>2. \A x \in Tasks : x # t => status'[x] = status[x]
  BY <1>1 DEF BoardInv, Shape
<1>3. status'[t] = "todo" /\ status[t] = "absent"
  BY <1>1 DEF BoardInv, Shape, Stored
<1>4. Shape'
  BY <1>1 DEF BoardInv, Shape, Statuses
<1>5. \A x \in Tasks : (Stored(x) => Stored(x)') /\ (Finished(x)' <=> Finished(x))
  BY <1>2, <1>3 DEF Stored, Finished
<1>6. References'
  BY <1>1, <1>5 DEF BoardInv, References, Shape
<1>7. Waiting'
  BY <1>1, <1>5 DEF BoardInv, Waiting, Doing, OpenDependencies, Shape
<1> QED BY <1>1, <1>4, <1>6, <1>7, BoardStep

LEMMA ChangeStatusStep ==
    ASSUME BoardInv, NEW t \in Tasks, NEW to \in Statuses, TaskChangeStatus(t, to)
    PROVE  BoardInv'
<1>1. /\ Stored(t) /\ to \notin {"absent", "done", status[t]}
      /\ status' = [status EXCEPT ![t] = to]
      /\ reopened' = IF Finished(t) /\ to = "todo" /\ Doing("finish") # {} THEN reopened \cup {t} ELSE reopened
      /\ UNCHANGED <<archived, marked, deps, row, storage, missed, request>>
  BY DEF TaskChangeStatus, files
<1>2. status'[t] = to /\ \A x \in Tasks : x # t => status'[x] = status[x]
  BY <1>1 DEF BoardInv, Shape
<1>3. to \in {"todo", "cancelled"}
  BY <1>1 DEF Statuses
<1>4. Shape'
  BY <1>1 DEF BoardInv, Shape
<1>5. \A x \in Tasks : Stored(x) => Stored(x)'
  BY <1>2, <1>3 DEF Stored
<1>6. References'
  BY <1>1, <1>5 DEF BoardInv, References, Shape
<1>7. Waiting'
  <2> SUFFICES ASSUME NEW r \in Doing("finish"), NEW d \in deps, d[1] = request[r].task, ~Finished(d[2])'
               PROVE  d[2] \in reopened'
    BY <1>1 DEF Waiting, Doing, OpenDependencies
  <2>1. d[2] \in Tasks /\ Doing("finish") # {}
    BY DEF BoardInv, Shape
  <2>2. CASE ~Finished(d[2])
    BY <2>2, <1>1 DEF BoardInv, Waiting, OpenDependencies
  <2>3. CASE Finished(d[2])
    <3>1. d[2] = t /\ to = "todo"
      BY <2>1, <2>3, <1>2, <1>3 DEF Finished
    <3> QED BY <2>1, <2>3, <3>1, <1>1
  <2> QED BY <2>2, <2>3
<1> QED BY <1>1, <1>4, <1>6, <1>7, BoardStep

-----------------------------------------------------------------------------
(* A step of one request: what it must keep of the others.                 *)
LEMMA RequestStep ==
    ASSUME BoardInv, NEW r \in Requests, NEW new \in RequestRows, request' = [request EXCEPT ![r] = new],
           archived' = archived, status' \in [Tasks -> Statuses], deps' \subseteq Tasks \X Tasks,
           row' \in [Files -> Tasks \cup {None}],
           new.op \in {"finish", "delete", "ask", "link", "upload"} => new.task \in Tasks,
           new.op \in {"ask", "link"} => new.other \in Tasks,
           References', Waiting', Handling', Kept'
    PROVE  BoardInv'
BY DEF BoardInv, Shape

(* A request that touches no row, and has no file that another might miss. *)
LEMMA QuietStep ==
    ASSUME BoardInv, NEW r \in Requests, NEW new \in RequestRows, request' = [request EXCEPT ![r] = new],
           UNCHANGED <<archived, status, marked, row, storage, missed, reopened>>,
           deps' \subseteq Tasks \X Tasks, \A d \in deps' : Stored(d[1]) /\ Stored(d[2]),
           \A d \in deps' \ deps : TaskFree(d[1]),
           request[r].op \notin {"upload", "remove"},
           new.op \notin {"upload", "remove"},
           new.op \in {"finish", "delete", "ask", "link", "upload"} => new.task \in Tasks,
           new.op \in {"ask", "link"} => new.other \in Tasks,
           new.op = "finish" => OpenDependencies(new.task) = {} /\ deps' = deps,
           new.op # "delete" => new.files \subseteq request[r].files,
           new.op = "delete" => \A f \in new.files : row[f] = new.task
    PROVE  BoardInv'
<1>1. request'[r] = new /\ \A q \in Requests : q # r => request'[q] = request[q]
  BY DEF BoardInv, Shape
<1>2. References'
  BY DEF BoardInv, References, Stored
<1>3. Waiting'
  <2> SUFFICES ASSUME NEW q \in Requests, request'[q].op = "finish",
                      NEW d \in deps', d[1] = request'[q].task, ~Finished(d[2])
               PROVE  d[2] \in reopened
    BY DEF Waiting, Doing, OpenDependencies, Finished
  <2>1. CASE q = r
    BY <2>1, <1>1 DEF OpenDependencies
  <2>2. CASE q # r
    <3>1. request'[q] = request[q] /\ q \in Doing("finish")
      BY <2>2, <1>1 DEF Doing
    <3>2. d \in deps
      BY <3>1 DEF TaskFree
    <3> QED BY <3>1, <3>2 DEF BoardInv, Waiting, OpenDependencies
  <2> QED BY <2>1, <2>2
<1>4. Handling'
  <2> SUFFICES ASSUME NEW q \in Requests, NEW f \in request'[q].files
               PROVE  /\ request'[q].op = "upload" =>
                            /\ row[f] = None /\ f \in storage
                            /\ \A p \in Requests : f \in request'[p].files => p = q
                      /\ request'[q].op = "remove" => row[f] = None
                      /\ request'[q].op = "delete" => row[f] \in {request'[q].task, None}
    BY DEF Handling
  <2>1. CASE q = r
    BY <2>1, <1>1
  <2>2. CASE q # r
    <3>1. request'[q] = request[q]
      BY <2>2, <1>1
    <3>2. /\ request[q].op = "upload" =>
                /\ row[f] = None /\ f \in storage
                /\ \A p \in Requests : f \in request[p].files => p = q
          /\ request[q].op = "remove" => row[f] = None
          /\ request[q].op = "delete" => row[f] \in {request[q].task, None}
      BY <3>1 DEF BoardInv, Handling
    <3>3. request[q].op = "upload" => f \notin new.files
      <4>1. request[q].op = "upload" => row[f] = None /\ f \notin request[r].files
        BY <2>2, <3>2
      <4>2. new.op = "delete" => None \notin {row[g] : g \in new.files}
        BY TaskBoardAssumption
      <4> QED BY <4>1, <4>2
    <3> QED BY <3>1, <3>2, <3>3, <1>1
  <2> QED BY <2>1, <2>2
<1>5. Kept'
  BY <1>1 DEF BoardInv, Kept
<1> QED BY <1>2, <1>3, <1>4, <1>5, RequestStep DEF BoardInv, Shape

LEMMA BeginsQuietly ==
    ASSUME BoardInv, NEW r \in Requests, NEW t \in Tasks,
           \/ TaskFinishBegin(r, t) \/ TaskDeleteBegin(r, t) \/ \E other \in Tasks : TaskDependencyAdd(r, t, other)
    PROVE  BoardInv'
<1>1. \A d \in deps : Stored(d[1]) /\ Stored(d[2])
  BY DEF BoardInv, References
<1>2. deps \subseteq Tasks \X Tasks
  BY DEF BoardInv, Shape
<1>3. request[r] = Idle => request[r].op = "idle" /\ request[r].files = {}
  BY DEF Idle
<1>4. CASE TaskFinishBegin(r, t)
  <2> DEFINE new == [op |-> "finish", task |-> t, other |-> None, files |-> {}]
  <2>1. /\ request[r] = Idle /\ request' = [request EXCEPT ![r] = new] /\ OpenDependencies(t) = {}
        /\ UNCHANGED <<archived, status, marked, deps, row, storage, missed, reopened>>
    BY <1>4 DEF TaskFinishBegin, Begins, Becomes, board, files
  <2>2. /\ new \in RequestRows /\ new.op = "finish" /\ new.task = t /\ new.files = {}
    BY DEF RequestRows, Ops
  <2> HIDE DEF new
  <2> QED BY <1>1, <1>2, <1>3, <2>1, <2>2, QuietStep
<1>5. CASE TaskDeleteBegin(r, t)
  <2> DEFINE new == [op |-> "delete", task |-> t, other |-> None, files |-> {f \in Files : row[f] = t}]
  <2>1. /\ request[r] = Idle /\ request' = [request EXCEPT ![r] = new]
        /\ UNCHANGED <<archived, status, marked, deps, row, storage, missed, reopened>>
    BY <1>5 DEF TaskDeleteBegin, Begins, Becomes, board, files
  <2>2. /\ new \in RequestRows /\ new.op = "delete" /\ new.task = t /\ \A f \in new.files : row[f] = t
    BY DEF RequestRows, Ops
  <2> HIDE DEF new
  <2> QED BY <1>1, <1>2, <1>3, <2>1, <2>2, QuietStep
<1>6. ASSUME NEW other \in Tasks, TaskDependencyAdd(r, t, other)
      PROVE  BoardInv'
  <2> DEFINE new == [op |-> "ask", task |-> t, other |-> other, files |-> {}]
  <2>1. /\ request[r] = Idle /\ request' = [request EXCEPT ![r] = new]
        /\ UNCHANGED <<archived, status, marked, deps, row, storage, missed, reopened>>
    BY <1>6 DEF TaskDependencyAdd, Begins, Becomes, board, files
  <2>2. /\ new \in RequestRows /\ new.op = "ask" /\ new.task = t /\ new.other = other /\ new.files = {}
    BY DEF RequestRows, Ops
  <2> HIDE DEF new
  <2> QED BY <1>1, <1>2, <1>3, <2>1, <2>2, QuietStep
<1> QED BY <1>4, <1>5, <1>6

LEMMA LinkSteps ==
    ASSUME BoardInv, NEW r \in Requests, TaskDependencyCheck(r) \/ TaskDependencyInsert(r)
    PROVE  BoardInv'
<1>1. /\ \A d \in deps : Stored(d[1]) /\ Stored(d[2])
      /\ deps \subseteq Tasks \X Tasks /\ request[r] \in RequestRows
  BY DEF BoardInv, References, Shape
<1>2. CASE TaskDependencyCheck(r)
  <2> DEFINE new == [request[r] EXCEPT !.op = "link"]
  <2>1. /\ request[r].op = "ask" /\ request' = [request EXCEPT ![r] = new]
        /\ UNCHANGED <<archived, status, marked, deps, row, storage, missed, reopened>>
    BY <1>2 DEF TaskDependencyCheck, NoCycle, Becomes, board, files
  <2>2. request[r].task \in Tasks /\ request[r].other \in Tasks
    BY <2>1 DEF BoardInv, Shape
  <2>3. /\ new \in RequestRows /\ new.op = "link" /\ new.task = request[r].task /\ new.other = request[r].other
        /\ new.files = request[r].files
    BY <1>1 DEF RequestRows, Ops
  <2> HIDE DEF new
  <2> QED BY <1>1, <2>1, <2>2, <2>3, QuietStep
<1>3. CASE TaskDependencyInsert(r)
  <2>1. /\ request[r].op = "link" /\ Linkable(r) /\ request' = [request EXCEPT ![r] = Idle]
        /\ deps' = deps \cup {<<request[r].task, request[r].other>>}
        /\ UNCHANGED <<archived, status, marked, row, storage, missed, reopened>>
    BY <1>3 DEF TaskDependencyInsert, Becomes, files
  <2>2. request[r].task \in Tasks /\ request[r].other \in Tasks
    BY <2>1 DEF BoardInv, Shape
  <2>3. Idle \in RequestRows /\ Idle.op = "idle" /\ Idle.files = {}
    BY DEF Idle, RequestRows, Ops
  <2>4. /\ deps' \subseteq Tasks \X Tasks
        /\ \A d \in deps' : Stored(d[1]) /\ Stored(d[2])
        /\ \A d \in deps' \ deps : TaskFree(d[1])
    BY <1>1, <2>1, <2>2 DEF Linkable
  <2> QED BY <2>1, <2>3, <2>4, QuietStep
<1> QED BY <1>2, <1>3

LEMMA FinishStep ==
    ASSUME BoardInv, NEW r \in Requests, TaskFinish(r)
    PROVE  BoardInv'
<1> DEFINE t == request[r].task
<1>1. /\ request[r].op = "finish"
      /\ status' = [status EXCEPT ![t] = "done"]
      /\ request' = [request EXCEPT ![r] = Idle]
      /\ reopened' = IF Cardinality(Doing("finish")) = 1 THEN {} ELSE reopened
      /\ UNCHANGED <<archived, marked, deps, row, storage, missed>>
  BY DEF TaskFinish, Becomes, files
<1>2. /\ t \in Tasks /\ status'[t] = "done" /\ \A x \in Tasks : x # t => status'[x] = status[x]
      /\ request'[r] = Idle /\ \A q \in Requests : q # r => request'[q] = request[q]
  BY <1>1 DEF BoardInv, Shape
<1> HIDE DEF t
<1>3. Idle \in RequestRows /\ Idle.op = "idle" /\ Idle.files = {}
  BY DEF Idle, RequestRows, Ops
<1>4. \A x \in Tasks : (Stored(x) => Stored(x)') /\ (Finished(x) => Finished(x)')
  BY <1>2 DEF Stored, Finished
<1>5. References'
  BY <1>1, <1>4 DEF BoardInv, References, Shape
<1>6. Waiting'
  <2> SUFFICES ASSUME NEW q \in Requests, request'[q].op = "finish",
                      NEW d \in deps, d[1] = request'[q].task, ~Finished(d[2])'
               PROVE  d[2] \in reopened'
    BY <1>1 DEF Waiting, Doing, OpenDependencies
  <2>1. q # r /\ request'[q] = request[q] /\ q \in Doing("finish") /\ r \in Doing("finish")
    BY <1>1, <1>2, <1>3 DEF Doing
  <2>2. d[2] \in Tasks
    BY DEF BoardInv, Shape
  <2>3. d[2] \in reopened
    BY <2>1, <2>2, <1>4 DEF BoardInv, Waiting, OpenDependencies
  <2>4. Cardinality(Doing("finish")) # 1
    <3>1. IsFiniteSet(Doing("finish"))
      BY TaskBoardAssumption, FS_Subset DEF Doing
    <3>2. IsFiniteSet({q}) /\ Cardinality({q}) = 1
      BY FS_Singleton
    <3>3. IsFiniteSet({q} \cup {r}) /\ Cardinality({q} \cup {r}) = 2 /\ {q} \cup {r} \subseteq Doing("finish")
      <4>1. IsFiniteSet({q} \cup {r}) /\ Cardinality({q} \cup {r}) = Cardinality({q}) + 1
        BY <2>1, <3>2, FS_AddElement
      <4> QED BY <2>1, <3>2, <4>1
    <3>4. Cardinality({q} \cup {r}) <= Cardinality(Doing("finish"))
      BY <3>1, <3>3, FS_Subset
    <3> QED BY <3>3, <3>4
  <2> QED BY <2>3, <2>4, <1>1
<1>7. Handling'
  BY <1>1, <1>2, <1>3 DEF BoardInv, Handling
<1>8. Kept'
  BY <1>1, <1>2 DEF BoardInv, Kept
<1>9. status' \in [Tasks -> Statuses]
  BY <1>1 DEF BoardInv, Shape, Statuses
<1> QED BY <1>1, <1>3, <1>5, <1>6, <1>7, <1>8, <1>9, RequestStep DEF BoardInv, Shape

LEMMA DeleteStep ==
    ASSUME BoardInv, NEW r \in Requests, TaskDelete(r)
    PROVE  BoardInv'
<1> DEFINE t    == request[r].task
           gone == {f \in Files : row[f] = t}
           new  == [Idle EXCEPT !.op = "remove", !.files = request[r].files]
<1>1. /\ request[r].op = "delete" /\ Stored(t) /\ TaskFree(t)
      /\ status' = [status EXCEPT ![t] = "absent"]
      /\ marked' = IF marked = None THEN None ELSE marked \ {t}
      /\ deps' = {d \in deps : t \notin {d[1], d[2]}}
      /\ row' = [f \in Files |-> IF f \in gone THEN None ELSE row[f]]
      /\ missed' = missed \cup (gone \ request[r].files)
      /\ request' = [request EXCEPT ![r] = new]
      /\ UNCHANGED <<archived, storage, reopened>>
  BY DEF TaskDelete, Becomes
<1>2. /\ t \in Tasks /\ status'[t] = "absent" /\ \A x \in Tasks : x # t => status'[x] = status[x]
      /\ request'[r] = new /\ \A q \in Requests : q # r => request'[q] = request[q]
      /\ request[r].files \subseteq Files
  BY <1>1 DEF BoardInv, Shape, RequestRows
<1>3. new \in RequestRows /\ new.op = "remove" /\ new.files = request[r].files
  BY <1>2 DEF Idle, RequestRows, Ops
<1>4. \A f \in Files : row'[f] = IF row[f] = t THEN None ELSE row[f]
  BY <1>1
<1> HIDE DEF t, new
<1>5. References'
  <2>1. \A x \in Tasks : x # t /\ Stored(x) => Stored(x)'
    BY <1>2 DEF Stored
  <2>2. marked' # None => \A x \in marked' : x \in Tasks /\ Stored(x)'
    BY <2>1, <1>1 DEF BoardInv, References
  <2>3. \A d \in deps' : Stored(d[1])' /\ Stored(d[2])'
    BY <2>1, <1>1 DEF BoardInv, References, Shape
  <2>4. \A f \in Files : row'[f] # None => Stored(row[f])' /\ row'[f] = row[f]
    BY <2>1, <1>4 DEF BoardInv, References, Shape
  <2> QED BY <2>2, <2>3, <2>4 DEF References
<1>6. Waiting'
  <2> SUFFICES ASSUME NEW q \in Requests, request'[q].op = "finish",
                      NEW d \in deps', d[1] = request'[q].task, ~Finished(d[2])'
               PROVE  d[2] \in reopened
    BY <1>1 DEF Waiting, Doing, OpenDependencies
  <2>1. request'[q] = request[q] /\ q \in Doing("finish")
    BY <1>2, <1>3 DEF Doing
  <2>2. d \in deps /\ d[2] \in Tasks /\ d[2] # t
    BY <1>1 DEF BoardInv, Shape
  <2>3. ~Finished(d[2])
    BY <2>2, <1>2 DEF Finished
  <2> QED BY <2>1, <2>2, <2>3 DEF BoardInv, Waiting, OpenDependencies
<1>7. Handling'
  <2> SUFFICES ASSUME NEW q \in Requests, NEW f \in request'[q].files
               PROVE  /\ request'[q].op = "upload" =>
                            /\ row'[f] = None /\ f \in storage
                            /\ \A p \in Requests : f \in request'[p].files => p = q
                      /\ request'[q].op = "remove" => row'[f] = None
                      /\ request'[q].op = "delete" => row'[f] \in {request'[q].task, None}
    BY <1>1 DEF Handling
  <2>1. \A p \in Requests : request'[p].files = request[p].files
    BY <1>2, <1>3
  <2>2. f \in Files /\ f \in request[q].files
    BY <2>1 DEF BoardInv, Shape, RequestRows
  <2>3. CASE q = r
    <3>1. row[f] \in {t, None}
      BY <2>2, <2>3, <1>1 DEF BoardInv, Handling, t
    <3> QED BY <3>1, <2>2, <2>3, <1>2, <1>3, <1>4
  <2>4. CASE q # r
    <3>1. request'[q] = request[q]
      BY <2>4, <1>2
    <3> QED BY <3>1, <2>1, <2>2, <1>4 DEF BoardInv, Handling
  <2> QED BY <2>3, <2>4
<1>8. Kept'
  <2> SUFFICES ASSUME NEW f \in Files
               PROVE  /\ row'[f] # None => f \in storage
                      /\ f \in storage =>
                            \/ row'[f] # None
                            \/ f \in missed'
                            \/ \E q \in Requests : request'[q].op \in {"upload", "remove"} /\ f \in request'[q].files
    BY <1>1 DEF Kept
  <2>1. row'[f] # None => f \in storage
    BY <1>4 DEF BoardInv, Kept
  <2>2. ASSUME f \in storage
        PROVE  \/ row'[f] # None
               \/ f \in missed'
               \/ \E q \in Requests : request'[q].op \in {"upload", "remove"} /\ f \in request'[q].files
    <3>1. CASE row[f] = t
      BY <3>1, <1>1, <1>2, <1>3
    <3>2. CASE row[f] # t /\ row[f] # None
      BY <3>2, <1>4
    <3>3. CASE row[f] = None /\ f \in missed
      BY <3>3, <1>1
    <3>4. ASSUME NEW q \in Requests, request[q].op \in {"upload", "remove"}, f \in request[q].files
          PROVE  request'[q].op \in {"upload", "remove"} /\ f \in request'[q].files
      BY <3>4, <1>1, <1>2
    <3> QED BY <2>2, <3>1, <3>2, <3>3, <3>4 DEF BoardInv, Kept
  <2> QED BY <2>1, <2>2
<1>9. /\ status' \in [Tasks -> Statuses] /\ deps' \subseteq Tasks \X Tasks
      /\ row' \in [Files -> Tasks \cup {None}]
  BY <1>1 DEF BoardInv, Shape, Statuses
<1> HIDE DEF gone
<1> QED BY <1>1, <1>3, <1>5, <1>6, <1>7, <1>8, <1>9, RequestStep

-----------------------------------------------------------------------------
(* A step of one request that moves files only.                            *)
LEMMA FileStep ==
    ASSUME BoardInv, NEW r \in Requests, NEW new \in RequestRows, request' = [request EXCEPT ![r] = new],
           UNCHANGED <<archived, status, marked, deps, missed, reopened>>,
           new.op \in {"idle", "upload", "remove"},
           new.op = "upload" => new.task \in Tasks,
           row' \in [Files -> Tasks \cup {None}], \A f \in Files : row'[f] # None => Stored(row'[f]),
           Handling', Kept'
    PROVE  BoardInv'
<1>1. request'[r] = new /\ \A q \in Requests : q # r => request'[q] = request[q]
  BY DEF BoardInv, Shape
<1>2. References'
  BY DEF BoardInv, References, Stored
<1>3. Waiting'
  <2>1. \A q \in Doing("finish")' : q \in Doing("finish") /\ request'[q] = request[q]
    BY <1>1 DEF Doing
  <2> QED BY <2>1 DEF BoardInv, Waiting, OpenDependencies, Finished
<1> QED BY <1>2, <1>3, RequestStep DEF BoardInv, Shape

LEMMA UploadStep ==
    ASSUME BoardInv, NEW r \in Requests, NEW t \in Tasks, NEW f \in Files, AttachmentUpload(r, t, f)
    PROVE  BoardInv'
<1> DEFINE new == [op |-> "upload", task |-> t, other |-> None, files |-> {f}]
<1>1. /\ row[f] = None /\ f \notin storage /\ \A q \in Requests : f \notin request[q].files
      /\ request[r] = Idle /\ request' = [request EXCEPT ![r] = new]
      /\ storage' = storage \cup {f}
      /\ UNCHANGED <<archived, status, marked, deps, row, missed, reopened>>
  BY DEF AttachmentUpload, Begins, Becomes, board
<1>2. new \in RequestRows /\ new.op = "upload" /\ new.task = t /\ new.files = {f}
  BY DEF RequestRows, Ops
<1> HIDE DEF new
<1>3. request'[r] = new /\ \A q \in Requests : q # r => request'[q] = request[q]
  BY <1>1 DEF BoardInv, Shape
<1>4. Handling'
  BY <1>1, <1>2, <1>3 DEF BoardInv, Handling
<1>5. Kept'
  BY <1>1, <1>2, <1>3 DEF BoardInv, Kept, Idle
<1> QED BY <1>1, <1>2, <1>4, <1>5, FileStep DEF BoardInv, Shape, References

LEMMA InsertStep ==
    ASSUME BoardInv, NEW r \in Requests, AttachmentInsert(r)
    PROVE  BoardInv'
<1> DEFINE t == request[r].task
<1>1. /\ request[r].op = "upload" /\ Stored(t)
      /\ row' = [f \in Files |-> IF f \in request[r].files THEN t ELSE row[f]]
      /\ request' = [request EXCEPT ![r] = Idle]
      /\ UNCHANGED <<archived, status, marked, deps, storage, missed, reopened>>
  BY DEF AttachmentInsert, Becomes, board
<1>2. t \in Tasks /\ t # None
  BY <1>1, TaskBoardAssumption DEF BoardInv, Shape
<1>3. request'[r] = Idle /\ \A q \in Requests : q # r => request'[q] = request[q]
  BY <1>1 DEF BoardInv, Shape
<1>4. Idle \in RequestRows /\ Idle.op = "idle" /\ Idle.files = {}
  BY DEF Idle, RequestRows, Ops
<1>5. /\ \A f \in Files : row'[f] = IF f \in request[r].files THEN t ELSE row[f]
      /\ row' \in [Files -> Tasks \cup {None}]
  BY <1>1, <1>2 DEF BoardInv, Shape
<1> HIDE DEF t
<1>6. \A f \in Files : row'[f] # None => Stored(row'[f])
  BY <1>1, <1>5 DEF BoardInv, References
<1>7. \A f \in request[r].files : f \in Files /\ f \in storage /\ \A q \in Requests : f \in request[q].files => q = r
  BY <1>1 DEF BoardInv, Handling, Shape, RequestRows
<1>8. Handling'
  <2> SUFFICES ASSUME NEW q \in Requests, NEW f \in request'[q].files
               PROVE  /\ request'[q].op = "upload" =>
                            /\ row'[f] = None /\ f \in storage
                            /\ \A p \in Requests : f \in request'[p].files => p = q
                      /\ request'[q].op = "remove" => row'[f] = None
                      /\ request'[q].op = "delete" => row'[f] \in {request'[q].task, None}
    BY <1>1 DEF Handling
  <2>1. q # r /\ request'[q] = request[q]
    BY <1>3, <1>4
  <2>2. f \in Files /\ f \notin request[r].files
    BY <2>1, <1>7 DEF BoardInv, Shape, RequestRows
  <2>3. row'[f] = row[f]
    BY <2>2, <1>5
  <2>4. \A p \in Requests : f \in request'[p].files => f \in request[p].files
    BY <1>3, <1>4
  <2> QED BY <2>1, <2>3, <2>4 DEF BoardInv, Handling
<1>9. Kept'
  <2> SUFFICES ASSUME NEW f \in Files
               PROVE  /\ row'[f] # None => f \in storage
                      /\ f \in storage =>
                            \/ row'[f] # None
                            \/ f \in missed
                            \/ \E q \in Requests : request'[q].op \in {"upload", "remove"} /\ f \in request'[q].files
    BY <1>1 DEF Kept
  <2>1. CASE f \in request[r].files
    BY <2>1, <1>2, <1>5, <1>7
  <2>2. CASE f \notin request[r].files
    <3>1. row'[f] = row[f]
      BY <2>2, <1>5
    <3> QED BY <3>1, <2>2, <1>3 DEF BoardInv, Kept
  <2> QED BY <2>1, <2>2
<1> QED BY <1>1, <1>4, <1>5, <1>6, <1>8, <1>9, FileStep

LEMMA DetachStep ==
    ASSUME BoardInv, NEW r \in Requests, NEW f \in Files, AttachmentDelete(r, f)
    PROVE  BoardInv'
<1> DEFINE new == [op |-> "remove", task |-> None, other |-> None, files |-> {f}]
<1>1. /\ row[f] # None
      /\ request[r] = Idle /\ request' = [request EXCEPT ![r] = new]
      /\ row' = [row EXCEPT ![f] = None]
      /\ UNCHANGED <<archived, status, marked, deps, storage, missed, reopened>>
  BY DEF AttachmentDelete, Begins, Becomes, board
<1>2. new \in RequestRows /\ new.op = "remove" /\ new.files = {f}
  BY DEF RequestRows, Ops
<1> HIDE DEF new
<1>3. /\ request'[r] = new /\ \A q \in Requests : q # r => request'[q] = request[q]
      /\ row'[f] = None /\ \A g \in Files : g # f => row'[g] = row[g]
      /\ row' \in [Files -> Tasks \cup {None}]
  BY <1>1 DEF BoardInv, Shape
<1>4. \A g \in Files : row'[g] # None => Stored(row'[g])
  BY <1>3 DEF BoardInv, References
<1>5. Handling'
  <2> SUFFICES ASSUME NEW q \in Requests, NEW g \in request'[q].files
               PROVE  /\ request'[q].op = "upload" =>
                            /\ row'[g] = None /\ g \in storage
                            /\ \A p \in Requests : g \in request'[p].files => p = q
                      /\ request'[q].op = "remove" => row'[g] = None
                      /\ request'[q].op = "delete" => row'[g] \in {request'[q].task, None}
    BY <1>1 DEF Handling
  <2>1. CASE q = r
    BY <2>1, <1>2, <1>3
  <2>2. CASE q # r
    <3>1. request'[q] = request[q] /\ g \in Files
      BY <2>2, <1>3 DEF BoardInv, Shape, RequestRows
    <3>2. request[q].op = "upload" => g # f
      BY <3>1, <1>1 DEF BoardInv, Handling
    <3> QED BY <3>1, <3>2, <1>2, <1>3 DEF BoardInv, Handling
  <2> QED BY <2>1, <2>2
<1>6. Kept'
  <2> SUFFICES ASSUME NEW g \in Files
               PROVE  /\ row'[g] # None => g \in storage
                      /\ g \in storage =>
                            \/ row'[g] # None
                            \/ g \in missed
                            \/ \E q \in Requests : request'[q].op \in {"upload", "remove"} /\ g \in request'[q].files
    BY <1>1 DEF Kept
  <2>1. CASE g = f
    BY <2>1, <1>2, <1>3
  <2>2. CASE g # f
    BY <2>2, <1>1, <1>3 DEF BoardInv, Kept, Idle
  <2> QED BY <2>1, <2>2
<1> QED BY <1>1, <1>2, <1>3, <1>4, <1>5, <1>6, FileStep

LEMMA RemovedStep ==
    ASSUME BoardInv, NEW r \in Requests, FilesRemoved(r)
    PROVE  BoardInv'
<1>1. /\ request[r].op = "remove"
      /\ storage' = storage \ request[r].files
      /\ request' = [request EXCEPT ![r] = Idle]
      /\ UNCHANGED <<archived, status, marked, deps, row, missed, reopened>>
  BY DEF FilesRemoved, Becomes, board
<1>2. Idle \in RequestRows /\ Idle.op = "idle" /\ Idle.files = {}
  BY DEF Idle, RequestRows, Ops
<1>3. request'[r] = Idle /\ \A q \in Requests : q # r => request'[q] = request[q]
  BY <1>1 DEF BoardInv, Shape
<1>4. Handling'
  BY <1>1, <1>2, <1>3 DEF BoardInv, Handling
<1>5. Kept'
  BY <1>1, <1>2, <1>3 DEF BoardInv, Kept, Handling
<1> QED BY <1>1, <1>2, <1>4, <1>5, FileStep DEF BoardInv, Shape, References

LEMMA RollBackStep ==
    ASSUME BoardInv, NEW r \in Requests, RollBack(r)
    PROVE  BoardInv'
<1>1. /\ request[r].op \notin {"idle", "remove"}
      /\ request' = [request EXCEPT ![r] = Undone(r)]
      /\ UNCHANGED <<archived, status, marked, deps, row, storage, missed, reopened>>
  BY DEF RollBack, Becomes, board, files
<1>2. request[r] \in RequestRows
  BY DEF BoardInv, Shape
<1>3. /\ Undone(r) \in RequestRows /\ Undone(r).op \in {"idle", "remove"}
      /\ request[r].op = "upload" => Undone(r).op = "remove" /\ Undone(r).files = request[r].files
      /\ request[r].op # "upload" => Undone(r).files = {}
  BY <1>2 DEF Undone, Idle, RequestRows, Ops
<1>4. request'[r] = Undone(r) /\ \A q \in Requests : q # r => request'[q] = request[q]
  BY <1>1 DEF BoardInv, Shape
<1>5. Handling'
  BY <1>1, <1>3, <1>4 DEF BoardInv, Handling
<1>6. Kept'
  BY <1>1, <1>3, <1>4 DEF BoardInv, Kept
<1> QED BY <1>1, <1>3, <1>5, <1>6, FileStep DEF BoardInv, Shape, References

-----------------------------------------------------------------------------
(* Every step is one of these; the proofs below go through them in order.  *)
LEMMA NextCases ==
    ASSUME Next
    PROVE  \/ \/ \E yes \in BOOLEAN : Archive(yes)
              \/ MilestoneCreate \/ MilestoneDelete
              \/ \E t \in Tasks : TaskUpdate(t)
              \/ \E d \in deps : TaskDependencyRemove(d)
           \/ \E t \in Tasks : TaskCreate(t)
           \/ \E t \in Tasks, to \in Statuses : TaskChangeStatus(t, to)
           \/ \E r \in Requests, t \in Tasks :
                 TaskFinishBegin(r, t) \/ TaskDeleteBegin(r, t) \/ \E other \in Tasks : TaskDependencyAdd(r, t, other)
           \/ \E r \in Requests : TaskDependencyCheck(r) \/ TaskDependencyInsert(r)
           \/ \E r \in Requests : TaskFinish(r)
           \/ \E r \in Requests : TaskDelete(r)
           \/ \E r \in Requests, t \in Tasks, f \in Files : AttachmentUpload(r, t, f)
           \/ \E r \in Requests : AttachmentInsert(r)
           \/ \E r \in Requests, f \in Files : AttachmentDelete(r, f)
           \/ \E r \in Requests : FilesRemoved(r)
           \/ \E r \in Requests : RollBack(r)
BY Zenon DEF Next

LEMMA BoardKeeps == BoardInv /\ [Next]_vars => BoardInv'
<1> SUFFICES ASSUME BoardInv, [Next]_vars PROVE BoardInv'
  OBVIOUS
<1>1. CASE Next
  BY <1>1, NextCases, ProjectStep, CreateStep, ChangeStatusStep, BeginsQuietly, LinkSteps, FinishStep, DeleteStep,
     UploadStep, InsertStep, DetachStep, RemovedStep, RollBackStep, Zenon
<1>2. CASE UNCHANGED vars
  BY <1>2 DEF vars, board, files, BoardInv, Shape, References, Stored, Waiting, Doing, OpenDependencies, Finished,
     Handling, Kept
<1> QED BY <1>1, <1>2

(* What is on the board refers to what is there, a project is at 100       *)
(* percent when it is complete, and a file is stored while a row names it  *)
(* and no longer, but where it was added to a task being deleted.          *)
THEOREM BoardAlwaysInOrder == Spec => []BoardInOrder
BY BoardInit, BoardKeeps, BoardOrder, PTL DEF Spec

-----------------------------------------------------------------------------
(* Only the step that finishes a task makes one done.                      *)
LEMMA DoneByFinishing ==
    ASSUME BoardInv, [Next]_vars, NEW t \in Tasks, status[t] # "done", status'[t] = "done"
    PROVE  \E r \in Requests : request[r].op = "finish" /\ request[r].task = t
<1>1. Next
  BY DEF vars, board
<1>2. status' # status
  OBVIOUS
<1>3. CASE \E x \in Tasks : TaskCreate(x)
  BY <1>3 DEF BoardInv, Shape, TaskCreate
<1>4. CASE \E x \in Tasks, to \in Statuses : TaskChangeStatus(x, to)
  BY <1>4 DEF BoardInv, Shape, TaskChangeStatus
<1>5. CASE \E r \in Requests : TaskDelete(r)
  BY <1>5 DEF BoardInv, Shape, TaskDelete
<1>6. CASE \E r \in Requests : TaskFinish(r)
  BY <1>6 DEF BoardInv, Shape, TaskFinish
<1>7. ~(\/ \E yes \in BOOLEAN : Archive(yes)
        \/ MilestoneCreate \/ MilestoneDelete
        \/ \E x \in Tasks : TaskUpdate(x)
        \/ \E d \in deps : TaskDependencyRemove(d))
  BY <1>2 DEF Archive, MilestoneCreate, MilestoneDelete, TaskUpdate, TaskDependencyRemove
<1>8. ~(\E r \in Requests, x \in Tasks :
           TaskFinishBegin(r, x) \/ TaskDeleteBegin(r, x) \/ \E other \in Tasks : TaskDependencyAdd(r, x, other))
  BY <1>2 DEF TaskFinishBegin, TaskDeleteBegin, TaskDependencyAdd, board
<1>9. ~(\E r \in Requests : TaskDependencyCheck(r) \/ TaskDependencyInsert(r))
  BY <1>2 DEF TaskDependencyCheck, TaskDependencyInsert, board
<1>10. /\ ~(\E r \in Requests, x \in Tasks, f \in Files : AttachmentUpload(r, x, f))
       /\ ~(\E r \in Requests, f \in Files : AttachmentDelete(r, f))
  BY <1>2 DEF AttachmentUpload, AttachmentDelete, board
<1>11. ~(\E r \in Requests : AttachmentInsert(r)) /\ ~(\E r \in Requests : FilesRemoved(r)) /\ ~(\E r \in Requests : RollBack(r))
  BY <1>2 DEF AttachmentInsert, FilesRemoved, RollBack, board
<1> QED BY <1>1, <1>3, <1>4, <1>5, <1>6, <1>7, <1>8, <1>9, <1>10, <1>11, NextCases, Zenon

(* A task is done when all it waits for is, but for what was opened again  *)
(* between the question and the answer.                                    *)
THEOREM AlwaysFinishedInTurn == Spec => FinishedInTurn
<1>1. BoardInv /\ [Next]_vars =>
         [ status' # status => \A t \in Tasks : status[t] # "done" /\ status'[t] = "done" =>
             \A d \in OpenDependencies(t) : d[2] \in reopened ]_vars
  BY DoneByFinishing DEF BoardInv, Waiting, Doing
<1> QED BY BoardInit, BoardKeeps, <1>1, PTL DEF Spec, FinishedInTurn

-----------------------------------------------------------------------------
(* What a task waits for, through any number of others.                    *)

LEMMA LeastNumber ==
  ASSUME NEW T, T \subseteq Nat, T # {}
  PROVE  \E n \in T : \A m \in T : n <= m
<1>1. IsWellFoundedOn(OpToRel(<, Nat), Nat)
  BY NatLessThanWellFounded
<1>2. PICK n \in T : \A m \in T : ~(<<m, n>> \in OpToRel(<, Nat))
  BY <1>1, WFMin
<1>3. \A m \in T : ~(m < n)
  BY <1>2 DEF OpToRel
<1>4. \A m \in T : m \in Nat /\ n \in Nat
  OBVIOUS
<1>5. \A m \in T : n <= m
  BY <1>3, <1>4, SMT
<1> QED
  BY <1>5

(* What is reached in n steps, and the sets nothing leads out of.          *)
Onward(S) == S \cup {d[2] : d \in {x \in deps : x[1] \in S}}
Reaches(g, from, n) == g = [k \in 0..n |-> IF k = 0 THEN {from} ELSE Onward(g[k - 1])]
Closed(S) == \A d \in deps : d[1] \in S => d[2] \in S

LEMMA TasksCounted == Cardinality(Tasks) \in Nat
BY TaskBoardAssumption, FS_CardinalityType

LEMMA ReachesExists ==
  ASSUME NEW from \in Tasks, deps \subseteq Tasks \X Tasks, NEW N \in Nat
  PROVE  \E g \in [0..N -> SUBSET Tasks] : Reaches(g, from, N)
<1> DEFINE Reaching(n) == \E g \in [0..n -> SUBSET Tasks] : Reaches(g, from, n)
           Bad == {n \in Nat : ~Reaching(n)}
<1>1. Reaching(0)
  <2> DEFINE g == [k \in 0..0 |-> {from}]
  <2>1. g \in [0..0 -> SUBSET Tasks] /\ g = [k \in 0..0 |-> IF k = 0 THEN {from} ELSE Onward(g[k - 1])]
    OBVIOUS
  <2> QED
    BY <2>1 DEF Reaches
<1>2. ASSUME NEW n \in Nat, Reaching(n) PROVE Reaching(n + 1)
  <2>1. PICK g \in [0..n -> SUBSET Tasks] : Reaches(g, from, n)
    BY <1>2
  <2> DEFINE h == [k \in 0..n + 1 |-> IF k = 0 THEN {from} ELSE Onward(g[k - 1])]
  <2>2. \A S \in SUBSET Tasks : Onward(S) \in SUBSET Tasks
    BY DEF Onward
  <2>3. \A k \in 0..n + 1 : k # 0 => k - 1 \in 0..n
    OBVIOUS
  <2>4. h \in [0..n + 1 -> SUBSET Tasks]
    <3>1. \A k \in 0..n + 1 : h[k] \in SUBSET Tasks
      <4> SUFFICES ASSUME NEW k \in 0..n + 1 PROVE h[k] \in SUBSET Tasks
        OBVIOUS
      <4>1. CASE k = 0
        BY <4>1
      <4>2. CASE k # 0
        <5>1. g[k - 1] \in SUBSET Tasks
          BY <2>3, <4>2
        <5> QED BY <4>2, <5>1, <2>2
      <4> QED BY <4>1, <4>2
    <3> QED BY <3>1
  <2>5. \A k \in 0..n : h[k] = g[k]
    <3> SUFFICES ASSUME NEW k \in 0..n PROVE h[k] = g[k]
      OBVIOUS
    <3>1. k \in 0..n + 1
      OBVIOUS
    <3>2. g[k] = IF k = 0 THEN {from} ELSE Onward(g[k - 1])
      BY <2>1, Zenon DEF Reaches
    <3> QED BY <3>1, <3>2, Zenon
  <2>6. Reaches(h, from, n + 1)
    <3>1. \A k \in 0..n + 1 : k # 0 => g[k - 1] = h[k - 1]
      BY <2>3, <2>5
    <3>2. h = [k \in 0..n + 1 |-> IF k = 0 THEN {from} ELSE Onward(h[k - 1])]
      BY <3>1
    <3> HIDE DEF h
    <3> QED BY <3>2 DEF Reaches
  <2> QED
    BY <2>4, <2>6
<1>3. Bad = {}
  <2> SUFFICES ASSUME Bad # {} PROVE FALSE
    OBVIOUS
  <2> HIDE DEF Reaching
  <2>1. PICK n \in Bad : \A m \in Bad : n <= m
    <3> HIDE DEF Bad
    <3>1. Bad \subseteq Nat
      BY DEF Bad
    <3> QED
      BY <3>1, LeastNumber
  <2>2. n # 0
    BY <1>1
  <2>3. n - 1 \in Nat /\ Reaching(n - 1)
    BY <2>1, <2>2
  <2>4. Reaching((n - 1) + 1)
    BY <2>3, <1>2
  <2> QED
    BY <2>4
<1> QED
  BY <1>3

(* Reachable is closed under what waits for what, and within every closed  *)
(* set that its beginning is in.                                           *)
LEMMA ReachableIs ==
  ASSUME NEW from \in Tasks, deps \subseteq Tasks \X Tasks
  PROVE  \E g \in [0..Cardinality(Tasks) -> SUBSET Tasks] :
            /\ Reachable(from) = g[Cardinality(Tasks)] \ {from}
            /\ g[0] = {from} /\ \A k \in 1..Cardinality(Tasks) : g[k] = Onward(g[k - 1])
<1> DEFINE N == Cardinality(Tasks)
           reach == CHOOSE g : Reaches(g, from, N)
<1>0. N \in Nat
  BY TasksCounted
<1> HIDE DEF N
<1>1. PICK h \in [0..N -> SUBSET Tasks] : Reaches(h, from, N)
  BY <1>0, ReachesExists
<1>2. Reaches(reach, from, N)
  BY <1>1
<1>3. Reachable(from) = reach[N] \ {from}
  BY Zenon DEF Reachable, Reaches, Onward, N
<1> HIDE DEF reach
<1>4. reach[0] = {from} /\ \A k \in 1..N : reach[k] = Onward(reach[k - 1])
  <2>1. \A k \in 0..N : reach[k] = IF k = 0 THEN {from} ELSE Onward(reach[k - 1])
    BY <1>2, Zenon DEF Reaches
  <2>2. 0 \in 0..N /\ \A k \in 1..N : k \in 0..N /\ k # 0
    BY <1>0
  <2> QED BY <2>1, <2>2, Zenon
<1>5. \A k \in 0..N : reach[k] \in SUBSET Tasks
  <2> DEFINE Bad == {k \in 0..N : reach[k] \notin SUBSET Tasks}
  <2> SUFFICES ASSUME Bad # {} PROVE FALSE
    OBVIOUS
  <2>1. PICK k \in Bad : \A m \in Bad : k <= m
    <3>1. Bad \subseteq Nat
      BY <1>0
    <3> HIDE DEF Bad
    <3> QED BY <3>1, LeastNumber
  <2>2. k \in 1..N
    BY <1>0, <1>4, <2>1
  <2>3. k - 1 \in 0..N /\ k - 1 \notin Bad
    BY <1>0, <2>1, <2>2
  <2>4. reach[k - 1] \in SUBSET Tasks
    BY <2>3
  <2>5. reach[k] \in SUBSET Tasks
    BY <1>4, <2>2, <2>4 DEF Onward
  <2> QED BY <2>1, <2>5
<1>6. reach = [k \in 0..N |-> reach[k]]
  BY <1>2 DEF Reaches
<1>7. reach \in [0..N -> SUBSET Tasks]
  BY <1>5, <1>6
<1> QED
  BY <1>3, <1>4, <1>7 DEF N

LEMMA ReachableCloses ==
  ASSUME NEW from \in Tasks, deps \subseteq Tasks \X Tasks
  PROVE  Closed(Reachable(from) \cup {from}) /\ Reachable(from) \cup {from} \in SUBSET Tasks
<1> DEFINE N == Cardinality(Tasks)
<1>0. N \in Nat
  BY TasksCounted
<1>1. PICK g \in [0..N -> SUBSET Tasks] :
            /\ Reachable(from) = g[N] \ {from}
            /\ g[0] = {from} /\ \A k \in 1..N : g[k] = Onward(g[k - 1])
  BY ReachableIs
<1> DEFINE Good(k) == from \in g[k] /\ (Closed(g[k]) \/ Cardinality(g[k]) >= k + 1)
           Bad == {k \in 0..N : ~Good(k)}
<1> HIDE DEF N
<1>2. Good(0)
  <2>1. Cardinality({from}) = 1 /\ g[0] = {from}
    BY <1>1, FS_Singleton
  <2> QED BY <2>1
<1>3. ASSUME NEW k \in 1..N, Good(k - 1) PROVE Good(k)
  <2>0. k - 1 \in 0..N /\ k \in 0..N
    BY <1>0
  <2>1. g[k - 1] \in SUBSET Tasks /\ g[k] \in SUBSET Tasks /\ g[k] = Onward(g[k - 1])
    BY <1>1, <2>0
  <2>2. g[k - 1] \subseteq g[k] /\ from \in g[k]
    BY <1>3, <2>1 DEF Onward
  <2>3. CASE Closed(g[k - 1])
    <3>1. g[k] = g[k - 1]
      BY <2>1, <2>3 DEF Closed, Onward
    <3> QED BY <2>2, <2>3, <3>1
  <2>4. CASE ~Closed(g[k - 1])
    <3>1. g[k] # g[k - 1]
      BY <2>1, <2>4 DEF Closed, Onward
    <3>2. IsFiniteSet(g[k]) /\ IsFiniteSet(g[k - 1])
      BY <2>1, TaskBoardAssumption, FS_Subset
    <3>3. /\ Cardinality(g[k]) \in Nat /\ Cardinality(g[k - 1]) \in Nat
          /\ Cardinality(g[k - 1]) <= Cardinality(g[k])
          /\ Cardinality(g[k - 1]) # Cardinality(g[k])
      BY <2>2, <3>1, <3>2, FS_Subset, FS_CardinalityType
    <3>4. Cardinality(g[k - 1]) >= (k - 1) + 1
      BY <1>3, <2>4
    <3> QED BY <2>2, <3>3, <3>4
  <2> QED BY <2>3, <2>4
<1>4. Good(N)
  <2>1. Bad = {}
    <3> SUFFICES ASSUME Bad # {} PROVE FALSE
      OBVIOUS
    <3> HIDE DEF Good
    <3>1. PICK k \in Bad : \A m \in Bad : k <= m
      <4>1. Bad \subseteq Nat
        BY <1>0
      <4> HIDE DEF Bad
      <4> QED BY <4>1, LeastNumber
    <3>2. k \in 1..N
      BY <1>0, <1>2, <3>1
    <3>3. k - 1 \in 0..N /\ k - 1 \notin Bad
      BY <1>0, <3>1, <3>2
    <3> QED BY <1>3, <3>1, <3>2, <3>3
  <2> HIDE DEF Good
  <2> QED BY <1>0, <2>1
<1>5. g[N] \in SUBSET Tasks
  BY <1>0, <1>1
<1>6. Cardinality(g[N]) <= N /\ Cardinality(g[N]) \in Nat
  BY <1>5, TaskBoardAssumption, FS_Subset, FS_CardinalityType DEF N
<1>7. Closed(g[N]) /\ from \in g[N]
  BY <1>0, <1>4, <1>6
<1>8. Reachable(from) \cup {from} = g[N]
  BY <1>1, <1>7
<1> QED BY <1>5, <1>7, <1>8

LEMMA ReachableWithin ==
  ASSUME NEW from \in Tasks, deps \subseteq Tasks \X Tasks, NEW S, Closed(S), from \in S
  PROVE  Reachable(from) \subseteq S
<1> DEFINE N == Cardinality(Tasks)
<1>0. N \in Nat
  BY TasksCounted
<1>1. PICK g \in [0..N -> SUBSET Tasks] :
            /\ Reachable(from) = g[N] \ {from}
            /\ g[0] = {from} /\ \A k \in 1..N : g[k] = Onward(g[k - 1])
  BY ReachableIs
<1> DEFINE Bad == {k \in 0..N : ~(g[k] \subseteq S)}
<1> HIDE DEF N
<1>2. Bad = {}
  <2> SUFFICES ASSUME Bad # {} PROVE FALSE
    OBVIOUS
  <2>1. PICK k \in Bad : \A m \in Bad : k <= m
    <3>1. Bad \subseteq Nat
      BY <1>0
    <3> HIDE DEF Bad
    <3> QED BY <3>1, LeastNumber
  <2>2. k \in 1..N
    BY <1>0, <1>1, <2>1
  <2>3. k - 1 \in 0..N /\ k - 1 \notin Bad
    BY <1>0, <2>1, <2>2
  <2>4. g[k - 1] \subseteq S
    BY <2>3
  <2>5. g[k] = Onward(g[k - 1])
    BY <1>1, <2>2
  <2>6. g[k] \subseteq S
    BY <2>4, <2>5 DEF Onward, Closed
  <2> QED BY <2>1, <2>6
<1>3. g[N] \subseteq S
  BY <1>0, <1>2
<1> QED BY <1>1, <1>3

-----------------------------------------------------------------------------
(* No task waits for itself: each dependency has a set that it leads into, *)
(* that nothing leads out of, and that its own task is not in.             *)
Apart(d) == \E S \in SUBSET Tasks : Closed(S) /\ d[2] \in S /\ d[1] \notin S

LoopFree == \A d \in deps : Apart(d)

(* One request at a time is about to add a dependency, and it may.         *)
LinksOne ==
    /\ \A q, r \in Doing("link") : q = r
    /\ \A r \in Doing("link") : Apart(<<request[r].task, request[r].other>>)
    /\ \A r \in Doing("ask") : request[r].task # request[r].other

LoopInv == BoardInv /\ LoopFree /\ LinksOne

LEMMA LoopFreeIs == LoopInv => NoLoop
<1> SUFFICES ASSUME LoopInv, NEW d \in deps PROVE d[1] \notin Reachable(d[2])
  BY DEF NoLoop
<1>1. deps \subseteq Tasks \X Tasks /\ d[2] \in Tasks
  BY DEF LoopInv, BoardInv, Shape
<1>2. PICK S \in SUBSET Tasks : Closed(S) /\ d[2] \in S /\ d[1] \notin S
  BY DEF LoopInv, LoopFree, Apart
<1>3. Reachable(d[2]) \subseteq S
  BY <1>1, <1>2, ReachableWithin
<1> QED BY <1>2, <1>3

LEMMA LoopInit == Init => LoopInv
<1> SUFFICES ASSUME Init PROVE LoopInv
  OBVIOUS
<1>1. LoopFree
  BY DEF Init, LoopFree
<1>2. Doing("link") = {} /\ Doing("ask") = {}
  BY DEF Init, Doing, Idle
<1> QED BY <1>1, <1>2, BoardInit DEF LoopInv, LinksOne

(* Fewer dependencies leave apart what was.                                *)
LEMMA FewerApart ==
    ASSUME NEW d, Apart(d), deps' \subseteq deps
    PROVE  Apart(d)'
BY DEF Apart, Closed

(* Nothing is added, and no request comes to ask or to link.               *)
LEMMA NoMoreLinks ==
    ASSUME LoopInv, BoardInv', deps' \subseteq deps,
           \A r \in Requests : request'[r].op \in {"ask", "link"} => request'[r] = request[r]
    PROVE  LoopInv'
<1>1. LoopFree'
  <2> SUFFICES ASSUME NEW d \in deps' PROVE Apart(d)'
    BY DEF LoopFree
  <2>1. d \in deps /\ Apart(d)
    BY DEF LoopInv, LoopFree
  <2> QED BY <2>1, FewerApart
<1>2. /\ Doing("link")' \subseteq Doing("link") /\ Doing("ask")' \subseteq Doing("ask")
      /\ \A r \in Doing("link")' : request'[r] = request[r]
      /\ \A r \in Doing("ask")' : request'[r] = request[r]
  BY DEF Doing
<1>3. \A r \in Doing("link")' : Apart(<<request[r].task, request[r].other>>)'
  <2> SUFFICES ASSUME NEW r \in Doing("link")' PROVE Apart(<<request[r].task, request[r].other>>)'
    OBVIOUS
  <2>1. PICK d : d = <<request[r].task, request[r].other>> /\ d = <<request'[r].task, request'[r].other>>
    BY <1>2
  <2>2. Apart(d)
    BY <1>2, <2>1 DEF LoopInv, LinksOne
  <2>3. Apart(d)'
    BY <2>2, FewerApart
  <2> QED BY <2>1, <2>3
<1>4. LinksOne'
  <2>1. \A q, r \in Doing("link")' : q = r
    BY <1>2 DEF LoopInv, LinksOne
  <2>2. \A r \in Doing("link")' : Apart(<<request[r].task, request[r].other>>)'
    BY <1>3
  <2>3. \A r \in Doing("ask")' : request[r].task # request[r].other
    BY <1>2 DEF LoopInv, LinksOne
  <2> QED BY <1>2, <2>1, <2>2, <2>3 DEF LinksOne
<1> QED BY <1>1, <1>4 DEF LoopInv

LEMMA AskKeepsApart ==
    ASSUME LoopInv, BoardInv', NEW r \in Requests, NEW t \in Tasks, NEW other \in Tasks, TaskDependencyAdd(r, t, other)
    PROVE  LoopInv'
<1>1. /\ request[r] = Idle /\ t # other /\ UNCHANGED deps
      /\ request' = [request EXCEPT ![r] = [op |-> "ask", task |-> t, other |-> other, files |-> {}]]
  BY DEF TaskDependencyAdd, Begins, Becomes, board
<1>2. /\ request'[r] = [op |-> "ask", task |-> t, other |-> other, files |-> {}]
      /\ \A q \in Requests : q # r => request'[q] = request[q]
  BY <1>1 DEF LoopInv, BoardInv, Shape
<1>3. Doing("link")' = Doing("link") /\ \A q \in Doing("link") : request'[q] = request[q]
  BY <1>1, <1>2 DEF Doing, Idle
<1>4. \A q \in Doing("ask")' : request'[q].task # request'[q].other
  BY <1>1, <1>2 DEF Doing, LoopInv, LinksOne
<1>5. \A d : Apart(d)' = Apart(d)
  BY <1>1 DEF Apart, Closed
<1>6. LoopFree'
  BY <1>1, <1>5 DEF LoopInv, LoopFree
<1>7. LinksOne'
  BY <1>3, <1>4, <1>5 DEF LoopInv, LinksOne
<1> QED BY <1>6, <1>7 DEF LoopInv

LEMMA CheckKeepsApart ==
    ASSUME LoopInv, BoardInv', NEW r \in Requests, TaskDependencyCheck(r)
    PROVE  LoopInv'
<1>1. /\ request[r].op = "ask" /\ Doing("link") = {} /\ UNCHANGED deps
      /\ request[r].task \notin Reachable(request[r].other)
      /\ request' = [request EXCEPT ![r] = [request[r] EXCEPT !.op = "link"]]
  BY DEF TaskDependencyCheck, NoCycle, ProjectFree, Becomes, board
<1>2. /\ request'[r].op = "link" /\ request'[r].task = request[r].task /\ request'[r].other = request[r].other
      /\ \A q \in Requests : q # r => request'[q] = request[q]
  BY <1>1 DEF LoopInv, BoardInv, Shape, RequestRows
<1>3. Doing("link")' = {r} /\ Doing("ask")' \subseteq Doing("ask") \ {r}
  BY <1>1, <1>2 DEF Doing
<1>4. request[r].task \in Tasks /\ request[r].other \in Tasks /\ request[r].task # request[r].other
      /\ deps \subseteq Tasks \X Tasks
  BY <1>1 DEF LoopInv, BoardInv, Shape, LinksOne, Doing
<1>5. PICK S : S = Reachable(request[r].other) \cup {request[r].other}
  OBVIOUS
<1>6. Closed(S) /\ S \in SUBSET Tasks
  BY <1>4, <1>5, ReachableCloses
<1>7. Apart(<<request[r].task, request[r].other>>)
  BY <1>1, <1>4, <1>5, <1>6 DEF Apart
<1>8. \A d : Apart(d)' = Apart(d)
  BY <1>1 DEF Apart, Closed
<1>9. LoopFree'
  BY <1>1, <1>8 DEF LoopInv, LoopFree
<1>10. LinksOne'
  <2>1. \A q \in Doing("ask")' : request'[q].task # request'[q].other
    BY <1>2, <1>3 DEF LoopInv, LinksOne, Doing
  <2>2. \A q \in Doing("link")' : <<request'[q].task, request'[q].other>> = <<request[r].task, request[r].other>>
    BY <1>2, <1>3
  <2>3. \A q \in Doing("link")' : Apart(<<request[q].task, request[q].other>>)'
    BY <2>2, <1>7, <1>8
  <2> QED BY <1>3, <2>1, <2>3 DEF LinksOne
<1> QED BY <1>9, <1>10 DEF LoopInv

(* What was apart stays apart when a dependency is added that is.          *)
LEMMA LinkedApart ==
    ASSUME NEW d, Apart(d), NEW t, NEW other, Apart(<<t, other>>), deps' = deps \cup {<<t, other>>},
           d = <<t, other>> \/ d \in deps
    PROVE  Apart(d)'
<1>1. PICK S \in SUBSET Tasks : Closed(S) /\ other \in S /\ t \notin S
  BY DEF Apart
<1>2. PICK D \in SUBSET Tasks : Closed(D) /\ d[2] \in D /\ d[1] \notin D
  BY DEF Apart
<1>3. \A C \in SUBSET Tasks : Closed(C) /\ (t \in C => other \in C) => Closed(C)'
  BY DEF Closed
<1>4. CASE t \notin D
  BY <1>2, <1>3, <1>4 DEF Apart
<1>5. CASE t \in D /\ d[1] \notin S
  <2>1. Closed(D \cup S) /\ D \cup S \in SUBSET Tasks
    BY <1>1, <1>2 DEF Closed
  <2>2. Closed(D \cup S)'
    BY <1>1, <1>3, <2>1
  <2> QED BY <1>2, <1>5, <2>1, <2>2 DEF Apart
<1>6. CASE t \in D /\ d[1] \in S
  <2>1. Closed(D \cap S) /\ D \cap S \in SUBSET Tasks
    BY <1>1, <1>2 DEF Closed
  <2>2. Closed(D \cap S)'
    BY <1>1, <1>3, <2>1
  <2>3. d[2] \in S
    BY <1>1, <1>6 DEF Closed
  <2> QED BY <1>2, <2>1, <2>2, <2>3 DEF Apart
<1> QED BY <1>4, <1>5, <1>6

LEMMA InsertKeepsApart ==
    ASSUME LoopInv, BoardInv', NEW r \in Requests, TaskDependencyInsert(r)
    PROVE  LoopInv'
<1>1. /\ request[r].op = "link"
      /\ deps' = deps \cup {<<request[r].task, request[r].other>>}
      /\ request' = [request EXCEPT ![r] = Idle]
  BY DEF TaskDependencyInsert, Becomes
<1>2. request'[r] = Idle /\ \A q \in Requests : q # r => request'[q] = request[q]
  BY <1>1 DEF LoopInv, BoardInv, Shape
<1>3. r \in Doing("link") /\ Apart(<<request[r].task, request[r].other>>)
  BY <1>1 DEF LoopInv, LinksOne, Doing
<1>4. LoopFree'
  <2> SUFFICES ASSUME NEW d \in deps' PROVE Apart(d)'
    BY DEF LoopFree
  <2>1. PICK t, other : t = request[r].task /\ other = request[r].other
    OBVIOUS
  <2>2. d = <<t, other>> \/ d \in deps
    BY <1>1, <2>1
  <2>3. Apart(d) /\ Apart(<<t, other>>) /\ deps' = deps \cup {<<t, other>>}
    BY <1>1, <1>3, <2>1, <2>2 DEF LoopInv, LoopFree
  <2> QED BY <2>2, <2>3, LinkedApart
<1>5. Doing("link")' = {}
  BY <1>2, <1>3 DEF LoopInv, LinksOne, Doing, Idle
<1>6. \A q \in Doing("ask")' : request'[q].task # request'[q].other
  BY <1>2 DEF LoopInv, LinksOne, Doing, Idle
<1>7. LinksOne'
  BY <1>5, <1>6 DEF LinksOne
<1> QED BY <1>4, <1>7 DEF LoopInv

LEMMA LoopNext == LoopInv /\ [Next]_vars => LoopInv'
<1> SUFFICES ASSUME LoopInv, [Next]_vars PROVE LoopInv'
  OBVIOUS
<1>1. BoardInv /\ BoardInv'
  BY BoardKeeps DEF LoopInv
<1>2. CASE UNCHANGED vars
  <2>1. deps' = deps /\ request' = request
    BY <1>2 DEF vars, board
  <2> QED BY <1>1, <2>1, NoMoreLinks
<1>3. CASE \/ \E yes \in BOOLEAN : Archive(yes)
           \/ MilestoneCreate \/ MilestoneDelete
           \/ \E t \in Tasks : TaskCreate(t) \/ TaskUpdate(t) \/ (\E to \in Statuses : TaskChangeStatus(t, to))
           \/ \E d \in deps : TaskDependencyRemove(d)
  <2>1. deps' \subseteq deps /\ request' = request
    BY <1>3 DEF Archive, MilestoneCreate, MilestoneDelete, TaskCreate, TaskUpdate, TaskChangeStatus, TaskDependencyRemove
  <2> QED BY <1>1, <2>1, NoMoreLinks
<1>4. ASSUME NEW r \in Requests,
             \/ \E t \in Tasks :
                   \/ TaskFinishBegin(r, t) \/ TaskDeleteBegin(r, t)
                   \/ \E f \in Files : AttachmentUpload(r, t, f)
             \/ TaskFinish(r) \/ TaskDelete(r)
             \/ AttachmentInsert(r) \/ FilesRemoved(r) \/ RollBack(r)
             \/ \E f \in Files : AttachmentDelete(r, f)
      PROVE  LoopInv'
  <2>1. /\ deps' \subseteq deps
        /\ \E x : x.op \notin {"ask", "link"} /\ request' = [request EXCEPT ![r] = x]
    <3>1. CASE \E t \in Tasks : TaskFinishBegin(r, t)
      BY <3>1 DEF TaskFinishBegin, Begins, Becomes, board
    <3>2. CASE \E t \in Tasks : TaskDeleteBegin(r, t)
      BY <3>2 DEF TaskDeleteBegin, Begins, Becomes, board
    <3>3. CASE \E t \in Tasks, f \in Files : AttachmentUpload(r, t, f)
      BY <3>3 DEF AttachmentUpload, Begins, Becomes, board
    <3>4. CASE TaskFinish(r)
      BY <3>4 DEF TaskFinish, Becomes, Idle
    <3>5. CASE TaskDelete(r)
      BY <3>5 DEF TaskDelete, Becomes, Idle
    <3>6. CASE AttachmentInsert(r)
      BY <3>6 DEF AttachmentInsert, Becomes, Idle, board
    <3>7. CASE FilesRemoved(r)
      BY <3>7 DEF FilesRemoved, Becomes, Idle, board
    <3>8. CASE RollBack(r)
      <4>1. Undone(r).op \notin {"ask", "link"}
        BY DEF Undone, Idle
      <4>2. deps' = deps /\ request' = [request EXCEPT ![r] = Undone(r)]
        BY <3>8 DEF RollBack, Becomes, board
      <4> QED BY <4>1, <4>2
    <3>9. CASE \E f \in Files : AttachmentDelete(r, f)
      BY <3>9 DEF AttachmentDelete, Begins, Becomes, board
    <3> QED BY <1>4, <3>1, <3>2, <3>3, <3>4, <3>5, <3>6, <3>7, <3>8, <3>9
  <2>2. \A q \in Requests : request'[q].op \in {"ask", "link"} => request'[q] = request[q]
    BY <1>1, <2>1 DEF BoardInv, Shape
  <2> QED BY <1>1, <2>1, <2>2, NoMoreLinks
<1>5. CASE \E r \in Requests, t \in Tasks, other \in Tasks : TaskDependencyAdd(r, t, other)
  BY <1>1, <1>5, AskKeepsApart
<1>6. CASE \E r \in Requests : TaskDependencyCheck(r)
  BY <1>1, <1>6, CheckKeepsApart
<1>7. CASE \E r \in Requests : TaskDependencyInsert(r)
  BY <1>1, <1>7, InsertKeepsApart
<1>8. Next \/ UNCHANGED vars
  OBVIOUS
<1> QED BY <1>2, <1>3, <1>4, <1>5, <1>6, <1>7, <1>8, Zenon DEF Next

-----------------------------------------------------------------------------
(* The budget of a project.                                                *)

BudgetProject ==
    [model : Pb!Models, period : Pb!Periods, contract : {None, 1}, budget : Budgets \cup {None},
     hours : Hours \cup {None}, start : {None, 1}, created : Nat, status : {"active", "completed"},
     archived : BOOLEAN]

BudgetRequests ==
    [op : {"idle", "log", "update"}, user : Users \cup {None}, to : {None, "hourly", "fixed"},
     cost : Nat, rebase : BOOLEAN, early : BOOLEAN]

BudgetShape ==
    /\ today \in Pb!Days
    /\ project \in BudgetProject \cup {None} /\ (project # None => Pb!Agreed(project))
    /\ type \in [model : Pb!Models, period : Pb!Periods, archived : BOOLEAN]
    /\ type.model = "fixed_price" => type.period = "total"
    /\ fee \in [Users -> {None, "hourly", "fixed"}]
    /\ entry \in [Entries -> [user : Users \cup {None}, day : Nat, cost : Nat]]
    /\ budgetsRequest \in [PbRequests -> BudgetRequests]

(* What was begun by somebody on a fee costs nothing.                      *)
LoggedFree ==
    \A r \in PbRequests : budgetsRequest[r].op = "log" /\ ~budgetsRequest[r].early => budgetsRequest[r].cost = 0

(* What is told to be used up is told to be nearly used up.                *)
Warned(alarms) == \A k \in alarms : k[3] = 100 => <<k[1], k[2], 80>> \in alarms

Telling ==
    /\ DOMAIN sweep = Requests /\ \A w \in Requests : sweep[w] # None => Warned(sweep[w])
    /\ Warned(alerts)
    /\ twice = {}

BudgetInv == BudgetShape /\ LoggedFree /\ Pb!CountedOnce /\ Telling

LEMMA BudgetInit == Pb!Init => BudgetInv
<1> SUFFICES ASSUME Pb!Init PROVE BudgetInv
  OBVIOUS
<1>1. today = 0 /\ project = None /\ type = [model |-> "hourly", period |-> "total", archived |-> FALSE]
      /\ fee = [u \in Users |-> None] /\ entry = [e \in Entries |-> Pb!NoEntry]
      /\ budgetsRequest = [r \in PbRequests |-> Pb!Idle]
  BY DEF Pb!Init
<1>2. BudgetShape
  <2>1. Pb!NoEntry \in [user : Users \cup {None}, day : Nat, cost : Nat] /\ Pb!Idle \in BudgetRequests
    BY DEF Pb!NoEntry, Pb!Idle, BudgetRequests
  <2>2. today \in Pb!Days
    BY <1>1, WorkAssumption DEF Pb!Days
  <2> QED BY <1>1, <2>1, <2>2 DEF BudgetShape, Pb!Models, Pb!Periods
<1>3. LoggedFree
  BY <1>1 DEF LoggedFree, Pb!Idle
<1>4. Pb!CountedOnce
  BY <1>1, WorkAssumption DEF Pb!CountedOnce, Pb!OnFee
<1>5. Telling
  BY DEF Pb!Init, Telling, Warned
<1> QED BY <1>2, <1>3, <1>4, <1>5 DEF BudgetInv

-----------------------------------------------------------------------------
(* What the entries of a set cost together is an integer.                  *)
Top(s) == CHOOSE x \in s : TRUE
Costs(g, D) == g = [s \in D |-> IF s = {} THEN 0 ELSE entry[Top(s)].cost + g[s \ {Top(s)}]]
Small(S, n) == {s \in SUBSET S : Cardinality(s) <= n}

LEMMA TopOf ==
  ASSUME NEW S, IsFiniteSet(S), NEW s \in SUBSET S, s # {}
  PROVE  /\ Top(s) \in s /\ Top(s) \in S /\ s \ {Top(s)} \in SUBSET S
         /\ IsFiniteSet(s) /\ IsFiniteSet(s \ {Top(s)})
         /\ Cardinality(s) \in Nat \ {0} /\ Cardinality(s \ {Top(s)}) = Cardinality(s) - 1
<1>1. Top(s) \in s
  BY DEF Top
<1>2. IsFiniteSet(s)
  BY FS_Subset
<1>3. /\ IsFiniteSet(s \ {Top(s)})
      /\ Cardinality(s \ {Top(s)}) = Cardinality(s) - 1
      /\ Cardinality(s) \in Nat
      /\ Cardinality(s) # 0
  BY <1>1, <1>2, FS_RemoveElement, FS_CardinalityType, FS_EmptySet
<1> QED
  BY <1>1, <1>2, <1>3

LEMMA CostsExist ==
  ASSUME NEW S, IsFiniteSet(S), \A x \in S : entry[x].cost \in Int
  PROVE  \E g \in [SUBSET S -> Int] : Costs(g, SUBSET S)
<1> DEFINE Adding(n) == \E g \in [Small(S, n) -> Int] : Costs(g, Small(S, n))
           Bad == {n \in Nat : ~Adding(n)}
<1>1. Adding(0)
  <2>1. \A s \in Small(S, 0) : s = {}
    <3> SUFFICES ASSUME NEW s \in Small(S, 0) PROVE s = {}
      OBVIOUS
    <3>1. IsFiniteSet(s) /\ Cardinality(s) <= 0
      BY FS_Subset DEF Small
    <3> QED
      BY <3>1, FS_CardinalityType, FS_EmptySet
  <2>2. Costs([s \in Small(S, 0) |-> 0], Small(S, 0))
    BY <2>1 DEF Costs
  <2> QED
    BY <2>2
<1>2. ASSUME NEW n \in Nat, Adding(n) PROVE Adding(n + 1)
  <2>1. PICK g \in [Small(S, n) -> Int] : Costs(g, Small(S, n))
    BY <1>2
  <2> DEFINE h == [s \in Small(S, n + 1) |-> IF s = {} THEN 0 ELSE entry[Top(s)].cost + g[s \ {Top(s)}]]
  <2>2. \A s \in Small(S, n + 1) : s # {} => entry[Top(s)].cost \in Int /\ s \ {Top(s)} \in Small(S, n)
    <3> SUFFICES ASSUME NEW s \in Small(S, n + 1), s # {}
                 PROVE entry[Top(s)].cost \in Int /\ s \ {Top(s)} \in Small(S, n)
      OBVIOUS
    <3>1. s \in SUBSET S /\ Cardinality(s) <= n + 1
      BY DEF Small
    <3>2. Top(s) \in S /\ s \ {Top(s)} \in SUBSET S /\ Cardinality(s \ {Top(s)}) = Cardinality(s) - 1 /\ Cardinality(s) \in Nat
      BY <3>1, TopOf
    <3> QED
      BY <3>1, <3>2 DEF Small
  <2>3. h \in [Small(S, n + 1) -> Int]
    BY <2>2
  <2>4. \A s \in Small(S, n) : s \in Small(S, n + 1)
    <3> SUFFICES ASSUME NEW s \in Small(S, n) PROVE s \in Small(S, n + 1)
      OBVIOUS
    <3>1. s \in SUBSET S /\ Cardinality(s) <= n /\ Cardinality(s) \in Nat
      BY FS_Subset, FS_CardinalityType DEF Small
    <3> QED
      BY <3>1 DEF Small
  <2>5. \A s \in Small(S, n) : h[s] = g[s]
    BY <2>1, <2>4 DEF Costs
  <2>6. \A s \in Small(S, n + 1) : s # {} => h[s \ {Top(s)}] = g[s \ {Top(s)}]
    BY <2>2, <2>5
  <2>7. Costs(h, Small(S, n + 1))
    BY <2>6 DEF Costs
  <2> QED
    BY <2>3, <2>7
<1>3. Bad = {}
  <2> SUFFICES ASSUME Bad # {} PROVE FALSE
    OBVIOUS
  <2> HIDE DEF Adding
  <2>1. PICK n \in Bad : \A m \in Bad : n <= m
    <3> HIDE DEF Bad
    <3>1. Bad \subseteq Nat
      BY DEF Bad
    <3> QED
      BY <3>1, LeastNumber
  <2>2. n # 0
    BY <1>1
  <2>3. n - 1 \in Nat /\ Adding(n - 1)
    BY <2>1, <2>2
  <2>4. Adding((n - 1) + 1)
    BY <2>3, <1>2
  <2> QED
    BY <2>4
<1>4. Cardinality(S) \in Nat /\ Small(S, Cardinality(S)) = SUBSET S
  BY FS_Subset, FS_CardinalityType DEF Small
<1> QED
  <2>1. Adding(Cardinality(S))
    BY <1>3, <1>4
  <2> QED
    BY <2>1, <1>4

LEMMA CostsInt ==
  ASSUME NEW S, IsFiniteSet(S), \A x \in S : entry[x].cost \in Int, NEW g, Costs(g, SUBSET S)
  PROVE  g[S] \in Int
<1> DEFINE Bad == {n \in Nat : \E s \in SUBSET S : Cardinality(s) = n /\ g[s] \notin Int}
<1> SUFFICES ASSUME g[S] \notin Int PROVE FALSE
  OBVIOUS
<1>1. Bad # {} /\ Bad \subseteq Nat
  <2>1. Cardinality(S) \in Nat
    BY FS_CardinalityType
  <2> QED
    BY <2>1
<1>2. PICK n \in Bad : \A m \in Bad : n <= m
  <2> HIDE DEF Bad
  <2> QED
    BY <1>1, LeastNumber
<1>3. PICK s \in SUBSET S : Cardinality(s) = n /\ g[s] \notin Int
  BY <1>2
<1>4. g[s] = IF s = {} THEN 0 ELSE entry[Top(s)].cost + g[s \ {Top(s)}]
  BY Zenon DEF Costs
<1>5. s # {}
  BY <1>3, <1>4
<1>6. /\ Top(s) \in S /\ s \ {Top(s)} \in SUBSET S
      /\ Cardinality(s) \in Nat \ {0} /\ Cardinality(s \ {Top(s)}) = Cardinality(s) - 1
  BY <1>5, TopOf
<1>7. n - 1 \notin Bad /\ n - 1 \in Nat
  BY <1>2, <1>3, <1>6
<1>8. g[s \ {Top(s)}] \in Int
  BY <1>3, <1>6, <1>7
<1> QED
  BY <1>3, <1>4, <1>5, <1>6, <1>8

LEMMA SameCardinality == \A S : Pb!Cardinality(S) = Cardinality(S)
BY Zenon DEF Pb!Cardinality, Cardinality

LEMMA CostInt ==
  ASSUME BudgetShape
  PROVE  Pb!Cost \in Int /\ Cardinality(Pb!InWindow) \in Nat
<1> DEFINE sums == CHOOSE g : Costs(g, SUBSET Pb!InWindow)
           total == Pb!MapThenSumSet(LAMBDA e : entry[e].cost, Pb!InWindow)
<1>1. Pb!InWindow \subseteq Entries /\ IsFiniteSet(Pb!InWindow)
  BY WorkAssumption, FS_Subset DEF Pb!InWindow
<1>2. \A e \in Pb!InWindow : entry[e].cost \in Int
  BY <1>1 DEF BudgetShape
<1>3. total = sums[Pb!InWindow]
  BY Zenon DEF Pb!MapThenSumSet, Pb!MapThenFoldSet, Costs, Top
<1>4. Costs(sums, SUBSET Pb!InWindow)
  BY <1>1, <1>2, CostsExist
<1>5. total \in Int
  BY <1>1, <1>2, <1>3, <1>4, CostsInt
<1>6. Cardinality({u \in Users : Pb!OnFee(u)}) \in Nat
  BY WorkAssumption, FS_Subset, FS_CardinalityType
<1>7. Fee * Cardinality({u \in Users : Pb!OnFee(u)}) \in Nat
  BY <1>6, WorkAssumption
<1>8. Pb!Cost = total + IF project.period = "total" THEN Fee * Cardinality({u \in Users : Pb!OnFee(u)}) ELSE 0
  BY SameCardinality, Zenon DEF Pb!Cost
<1> HIDE DEF total
<1> QED BY <1>1, <1>5, <1>7, <1>8, FS_CardinalityType

LEMMA Quotient ==
  ASSUME NEW a \in Int, NEW b \in Nat \ {0}
  PROVE  /\ (a * 100) \div b \in Int
         /\ a > b => (a * 100) \div b >= 100
<1>1. (a * 100) \div b \in Int
  OBVIOUS
<1>2. ASSUME a > b PROVE (a * 100) \div b >= 100
  BY <1>2
<1> QED BY <1>1, <1>2

LEMMA UsedIs ==
  ASSUME BudgetShape, project # None, NEW m \in Pb!Measures, Pb!Limit(m) # None
  PROVE  /\ Pb!Limit(m) \in Nat /\ Pb!Used(m) \in Int
         /\ Pb!UsedPercent(Pb!Used(m), Pb!Limit(m)) \in Int
         /\ Pb!Used(m) > Pb!Limit(m) => Pb!UsedPercent(Pb!Used(m), Pb!Limit(m)) >= 100
<1>1. project \in BudgetProject
  BY DEF BudgetShape
<1>2. Pb!Limit(m) \in Nat
  BY <1>1, WorkAssumption DEF Pb!Limit, BudgetProject
<1>3. Pb!Used(m) \in Int
  BY CostInt, SameCardinality DEF Pb!Used
<1>4. CASE Pb!Limit(m) <= 0
  BY <1>2, <1>3, <1>4 DEF Pb!UsedPercent
<1>5. CASE ~(Pb!Limit(m) <= 0)
  BY <1>2, <1>3, <1>5, Quotient DEF Pb!UsedPercent
<1> QED BY <1>2, <1>3, <1>4, <1>5

(* A budget that is exceeded has crossed what it is measured against, and  *)
(* one that is used up is nearly used up.                                  *)
LEMMA CrossedBoth ==
  ASSUME BudgetShape, project # None, NEW m \in Pb!Measures
  PROVE  /\ Pb!Exceeds(m) => {m} \X Pb!Thresholds \subseteq Pb!Crossed
         /\ <<m, 100>> \in Pb!Crossed => <<m, 80>> \in Pb!Crossed
<1>1. CASE Pb!Limit(m) = None
  BY <1>1 DEF Pb!Exceeds, Pb!Crossed
<1>2. CASE Pb!Limit(m) # None
  <2>1. PICK p \in Int : p = Pb!UsedPercent(Pb!Used(m), Pb!Limit(m))
    BY <1>2, UsedIs
  <2>2. \A x \in Pb!Thresholds : <<m, x>> \in Pb!Crossed <=> p >= x
    BY <1>2, <2>1 DEF Pb!Crossed, Pb!Thresholds
  <2>3. Pb!Exceeds(m) => p >= 100
    BY <1>2, <2>1, UsedIs DEF Pb!Exceeds
  <2>4. \A x \in Pb!Thresholds : p >= 100 => p >= x
    BY DEF Pb!Thresholds
  <2>5. 80 \in Pb!Thresholds /\ 100 \in Pb!Thresholds
    BY DEF Pb!Thresholds
  <2> QED BY <2>2, <2>3, <2>4, <2>5
<1> QED BY <1>1, <1>2

LEMMA DueWarned == BudgetShape => Warned(Pb!Due)
<1> SUFFICES ASSUME BudgetShape, NEW k \in Pb!Due, k[3] = 100 PROVE <<k[1], k[2], 80>> \in Pb!Due
  BY DEF Warned
<1>1. Pb!Budgeted /\ k \in Pb!Keys /\ <<k[1], 100>> \in Pb!Crossed /\ k[2] = Pb!PeriodStart
  BY DEF Pb!Due
<1>2. project # None /\ k[1] \in Pb!Measures /\ k[2] \in Pb!Days
  BY <1>1 DEF Pb!Budgeted, Pb!Active, Pb!Stored, Pb!Keys
<1>3. <<k[1], 80>> \in Pb!Crossed
  BY <1>1, <1>2, CrossedBoth
<1>4. <<k[1], k[2], 80>> \in Pb!Keys
  BY <1>2 DEF Pb!Keys, Pb!Thresholds
<1> QED BY <1>1, <1>3, <1>4 DEF Pb!Due

LEMMA BudgetHolds == BudgetInv => Pb!TypeOK /\ Pb!CountedOnce /\ Pb!ToldOnce
<1> SUFFICES ASSUME BudgetInv PROVE Pb!TypeOK /\ Pb!CountedOnce /\ Pb!ToldOnce
  OBVIOUS
<1>1. Pb!CountedOnce /\ Pb!ToldOnce
  BY DEF BudgetInv, Telling, Warned, Pb!ToldOnce
<1>2. ASSUME Pb!Stored
      PROVE  /\ project.model \in Pb!Models /\ project.period \in Pb!Periods
             /\ project.model = "retainer" => project.contract = None
             /\ project.model = "fixed_price" => project.period = "total"
             /\ \A m \in Pb!Measures : Pb!Exceeds(m) => {m} \X Pb!Thresholds \subseteq Pb!Crossed
  <2>1. project # None /\ project \in BudgetProject /\ Pb!Agreed(project)
    BY <1>2 DEF Pb!Stored, BudgetInv, BudgetShape
  <2>2. \A m \in Pb!Measures : Pb!Exceeds(m) => {m} \X Pb!Thresholds \subseteq Pb!Crossed
    BY <2>1, CrossedBoth DEF BudgetInv
  <2> QED BY <2>1, <2>2 DEF BudgetProject, Pb!Agreed
<1>3. today \in Pb!Days /\ (type.model = "fixed_price" => type.period = "total")
      /\ \A u \in Users : fee[u] \in {None, "hourly", "fixed"}
  BY DEF BudgetInv, BudgetShape
<1> QED BY <1>1, <1>2, <1>3 DEF Pb!TypeOK

-----------------------------------------------------------------------------
(* A step that leaves the project, its type and the sweeps alone.          *)
LEMMA Untold ==
    ASSUME Telling, UNCHANGED <<alerts, twice, sweep>>
    PROVE  Telling'
BY DEF Telling, Warned

(* A step that logs nothing and puts nobody on a fee.                      *)
LEMMA Uncounted ==
    ASSUME BudgetInv, UNCHANGED <<fee, entry, excused, budgetsRequest>>
    PROVE  LoggedFree' /\ Pb!CountedOnce'
BY DEF BudgetInv, LoggedFree, Pb!CountedOnce, Pb!OnFee, Pb!Costed

LEMMA TickStep ==
    ASSUME BudgetInv, Pb!Tick
    PROVE  BudgetInv'
<1>1. today' = today + 1 /\ today < LastDay
      /\ UNCHANGED <<project, type, fee, entry, excused, budgetsRequest, alerts, twice, sweep>>
  BY DEF Pb!Tick, Pb!people
<1>2. today' \in Pb!Days
  BY <1>1, WorkAssumption DEF BudgetInv, BudgetShape, Pb!Days
<1>3. BudgetShape'
  BY <1>1, <1>2 DEF BudgetInv, BudgetShape, Pb!Agreed, Pb!Days
<1> QED BY <1>1, <1>3, Untold, Uncounted DEF BudgetInv

LEMMA TypeStep ==
    ASSUME BudgetInv, NEW model \in Pb!Models, NEW period \in Pb!Periods, NEW yes \in BOOLEAN,
           Pb!ProjectTypeUpdate(model, period, yes)
    PROVE  BudgetInv'
<1>1. /\ type' = [model |-> model, period |-> period, archived |-> yes]
      /\ model = "fixed_price" => period = "total"
      /\ UNCHANGED <<today, project, fee, entry, excused, budgetsRequest, alerts, twice, sweep>>
  BY DEF Pb!ProjectTypeUpdate, Pb!Others
<1>2. BudgetShape'
  BY <1>1 DEF BudgetInv, BudgetShape, Pb!Agreed, Pb!Days
<1> QED BY <1>1, <1>2, Untold, Uncounted DEF BudgetInv

(* A step that changes the project, or makes it.                           *)
LEMMA ProjectMade ==
    ASSUME BudgetInv, project' \in BudgetProject, Pb!Agreed(project'),
           UNCHANGED <<today, type, fee, entry, excused, budgetsRequest, alerts, twice, sweep>>
    PROVE  BudgetInv'
<1>1. BudgetShape'
  BY DEF BudgetInv, BudgetShape, Pb!Agreed, Pb!Days
<1> QED BY <1>1, Untold, Uncounted DEF BudgetInv

LEMMA TermsAre ==
    ASSUME BudgetShape, NEW typed \in BOOLEAN, NEW model \in Pb!Models \cup {None}, NEW period \in Pb!Periods \cup {None},
           NEW contract
    PROVE  /\ Pb!ModelFor(typed, model, contract) \in Pb!Models
           /\ \A m : Pb!PeriodFor(typed, m, period) \in Pb!Periods
BY DEF Pb!ModelFor, Pb!PeriodFor, Pb!Or, Pb!Models, Pb!Periods, BudgetShape

LEMMA CreateProject ==
    ASSUME BudgetInv, NEW typed \in BOOLEAN, NEW model \in Pb!Models \cup {None}, NEW period \in Pb!Periods \cup {None},
           NEW contract \in {None, 1}, NEW budget \in Budgets \cup {None}, NEW hours \in Hours \cup {None},
           Pb!ProjectCreate(typed, model, period, contract, budget, hours)
    PROVE  BudgetInv'
<1> DEFINE m == Pb!ModelFor(typed, model, contract)
           p == [model |-> m, period |-> Pb!PeriodFor(typed, m, period), contract |-> contract,
                 budget |-> budget, hours |-> hours, start |-> None, created |-> today,
                 status |-> "active", archived |-> FALSE]
<1>1. /\ project' = p /\ Pb!Agreed(p)
      /\ UNCHANGED <<today, type, fee, entry, excused, budgetsRequest, alerts, twice, sweep>>
  BY DEF Pb!ProjectCreate, Pb!Others
<1>2. p.model \in Pb!Models /\ p.period \in Pb!Periods
  BY TermsAre DEF BudgetInv
<1>3. today \in Nat
  BY WorkAssumption DEF BudgetInv, BudgetShape, Pb!Days
<1>4. p \in BudgetProject
  BY <1>2, <1>3 DEF BudgetProject
<1> HIDE DEF p
<1> QED BY <1>1, <1>4, ProjectMade

LEMMA UpdateProject ==
    ASSUME BudgetInv, NEW patch \in Pb!Patches, Pb!ProjectUpdate(patch)
    PROVE  BudgetInv'
<1> DEFINE p == [f \in DOMAIN project |-> IF f \in DOMAIN patch THEN patch[f] ELSE project[f]]
<1>1. /\ project' = p /\ Pb!Agreed(p) /\ project # None
      /\ UNCHANGED <<today, type, fee, entry, excused, budgetsRequest, alerts, twice, sweep>>
  BY DEF Pb!ProjectUpdate, Pb!Others, Pb!Stored
<1>2. project \in BudgetProject
  BY <1>1 DEF BudgetInv, BudgetShape
<1>3. p \in BudgetProject
  <2>1. CASE patch \in [model : Pb!Models, period : Pb!Periods]
    BY <1>2, <2>1 DEF BudgetProject
  <2>2. CASE patch \in [contract : {None, 1}]
    BY <1>2, <2>2 DEF BudgetProject
  <2>3. CASE patch \in [budget : Budgets \cup {None}]
    BY <1>2, <2>3 DEF BudgetProject
  <2>4. CASE patch \in [hours : Hours \cup {None}]
    BY <1>2, <2>4 DEF BudgetProject
  <2>5. CASE patch \in [start : {1}]
    BY <1>2, <2>5 DEF BudgetProject
  <2> QED BY <2>1, <2>2, <2>3, <2>4, <2>5 DEF Pb!Patches
<1> HIDE DEF p
<1> QED BY <1>1, <1>3, ProjectMade

LEMMA MarkProject ==
    ASSUME BudgetInv,
           (\E to \in {"active", "completed"} : Pb!ProjectChangeStatus(to)) \/ (\E yes \in BOOLEAN : Pb!ProjectArchive(yes))
    PROVE  BudgetInv'
<1>1. /\ \/ \E to \in {"active", "completed"} : project' = [project EXCEPT !.status = to]
         \/ \E yes \in BOOLEAN : project' = [project EXCEPT !.archived = yes]
      /\ project # None
      /\ UNCHANGED <<today, type, fee, entry, excused, budgetsRequest, alerts, twice, sweep>>
  BY DEF Pb!ProjectChangeStatus, Pb!ProjectArchive, Pb!Others, Pb!Stored, Pb!Active
<1>2. project \in BudgetProject /\ Pb!Agreed(project)
  BY <1>1 DEF BudgetInv, BudgetShape
<1>3. project' \in BudgetProject /\ Pb!Agreed(project')
  BY <1>1, <1>2 DEF BudgetProject, Pb!Agreed
<1> QED BY <1>1, <1>3, ProjectMade

LEMMA JoinStep ==
    ASSUME BudgetInv, NEW u \in Users, NEW to \in {"hourly", "fixed"}, Pb!ProjectMemberAdd(u, to)
    PROVE  BudgetInv'
<1>1. /\ fee' = [fee EXCEPT ![u] = to]
      /\ excused' = IF to # "hourly" /\ (Pb!Costed(u) # {} \/ Pb!Under(u) # {}) THEN excused \cup {u} ELSE excused
      /\ UNCHANGED <<today, project, type, entry, alerts, twice, budgetsRequest, sweep>>
  BY DEF Pb!ProjectMemberAdd
<1>2. BudgetShape'
  BY <1>1 DEF BudgetInv, BudgetShape, Pb!Agreed, Pb!Days
<1>3. LoggedFree'
  BY <1>1 DEF BudgetInv, LoggedFree
<1>4. Pb!CountedOnce'
  BY <1>1 DEF BudgetInv, BudgetShape, Pb!CountedOnce, Pb!OnFee, Pb!Costed
<1> QED BY <1>1, <1>2, <1>3, <1>4, Untold DEF BudgetInv

LEMMA LeaveStep ==
    ASSUME BudgetInv, NEW u \in Users, Pb!ProjectMemberRemove(u)
    PROVE  BudgetInv'
<1>1. /\ fee' = [fee EXCEPT ![u] = None]
      /\ budgetsRequest' = [r \in PbRequests |->
             IF budgetsRequest[r].op = "update" /\ budgetsRequest[r].user = u THEN Pb!Idle ELSE budgetsRequest[r]]
      /\ UNCHANGED <<today, project, type, entry, alerts, twice, sweep, excused>>
  BY DEF Pb!ProjectMemberRemove
<1>2. Pb!Idle \in BudgetRequests /\ Pb!Idle.op = "idle"
  BY DEF Pb!Idle, BudgetRequests
<1>3. BudgetShape'
  BY <1>1, <1>2 DEF BudgetInv, BudgetShape, Pb!Agreed, Pb!Days
<1>4. LoggedFree'
  BY <1>1, <1>2 DEF BudgetInv, LoggedFree
<1>5. Pb!CountedOnce'
  BY <1>1, WorkAssumption DEF BudgetInv, BudgetShape, Pb!CountedOnce, Pb!OnFee, Pb!Costed
<1> QED BY <1>1, <1>3, <1>4, <1>5, Untold DEF BudgetInv

(* A request begins: what it logs without the old rate is free.            *)
LEMMA BeginStep ==
    ASSUME BudgetInv, NEW r \in PbRequests, NEW x \in BudgetRequests, budgetsRequest' = [budgetsRequest EXCEPT ![r] = x],
           x.op = "log" /\ ~x.early => x.cost = 0,
           UNCHANGED <<today, project, type, fee, entry, alerts, twice, sweep, excused>>
    PROVE  BudgetInv'
<1>1. BudgetShape'
  BY DEF BudgetInv, BudgetShape, Pb!Agreed, Pb!Days
<1>2. LoggedFree'
  BY DEF BudgetInv, BudgetShape, LoggedFree
<1>3. Pb!CountedOnce'
  BY DEF BudgetInv, Pb!CountedOnce, Pb!OnFee, Pb!Costed
<1> QED BY <1>1, <1>2, <1>3, Untold DEF BudgetInv

LEMMA AgreeStep ==
    ASSUME BudgetInv, NEW r \in PbRequests, NEW u \in Users, NEW to \in {"hourly", "fixed"}, NEW rebase \in BOOLEAN,
           Pb!ProjectMemberUpdateBegin(r, u, to, rebase)
    PROVE  BudgetInv'
<1>1. PICK starts \in BOOLEAN :
        /\ budgetsRequest' = [budgetsRequest EXCEPT ![r] = [Pb!Idle EXCEPT !.op = "update", !.user = u, !.to = to, !.rebase = starts]]
        /\ UNCHANGED <<today, project, type, fee, entry, alerts, twice, sweep, excused>>
  BY DEF Pb!ProjectMemberUpdateBegin, Pb!people
<1>2. PICK x : x = [Pb!Idle EXCEPT !.op = "update", !.user = u, !.to = to, !.rebase = starts]
  OBVIOUS
<1>3. x \in BudgetRequests /\ x.op = "update"
  BY <1>2 DEF Pb!Idle, BudgetRequests
<1> QED BY <1>1, <1>2, <1>3, BeginStep

LEMMA LogStep ==
    ASSUME BudgetInv, NEW r \in PbRequests, NEW u \in Users, Pb!TimeEntryBegin(r, u)
    PROVE  BudgetInv'
<1>1. /\ budgetsRequest' = [budgetsRequest EXCEPT ![r] =
               [Pb!Idle EXCEPT !.op = "log", !.user = u, !.cost = Pb!SnapshotRate(u), !.early = ~Pb!OnFee(u)]]
      /\ UNCHANGED <<today, project, type, fee, entry, alerts, twice, sweep, excused>>
  BY DEF Pb!TimeEntryBegin, Pb!people
<1>2. Pb!SnapshotRate(u) \in Nat /\ (Pb!OnFee(u) => Pb!SnapshotRate(u) = 0) /\ Pb!OnFee(u) \in BOOLEAN
  BY WorkAssumption DEF Pb!SnapshotRate, Pb!OnFee
<1>3. PICK x : x = [Pb!Idle EXCEPT !.op = "log", !.user = u, !.cost = Pb!SnapshotRate(u), !.early = ~Pb!OnFee(u)]
  OBVIOUS
<1>4. x \in BudgetRequests /\ (~x.early => x.cost = 0)
  BY <1>2, <1>3 DEF Pb!Idle, BudgetRequests
<1> QED BY <1>1, <1>3, <1>4, BeginStep

LEMMA RebaseStep ==
    ASSUME BudgetInv, NEW r \in PbRequests, Pb!ProjectMemberUpdate(r)
    PROVE  BudgetInv'
<1> DEFINE q == budgetsRequest[r]
<1>1. /\ q.op = "update"
      /\ fee' = [fee EXCEPT ![q.user] = q.to]
      /\ entry' = Pb!Rebased(r)
      /\ excused' = IF q.to # "hourly" /\ ~q.rebase /\ Pb!Costed(q.user) # {} THEN excused \cup {q.user} ELSE excused
      /\ budgetsRequest' = [budgetsRequest EXCEPT ![r] = Pb!Idle]
      /\ UNCHANGED <<today, project, type, alerts, twice, sweep>>
  BY DEF Pb!ProjectMemberUpdate
<1>2. q \in BudgetRequests
  BY DEF BudgetInv, BudgetShape
<1>3. Pb!Idle \in BudgetRequests /\ Pb!Idle.op = "idle"
  BY DEF Pb!Idle, BudgetRequests
<1>4. \A e \in Entries : entry[e] \in [user : Users \cup {None}, day : Nat, cost : Nat]
  BY DEF BudgetInv, BudgetShape
<1>5. \A e \in Entries :
        /\ entry'[e] \in [user : Users \cup {None}, day : Nat, cost : Nat]
        /\ entry'[e].user = entry[e].user
        /\ entry'[e].cost = IF q.rebase /\ entry[e].user = q.user THEN 0 ELSE entry[e].cost
  BY <1>1, <1>4 DEF Pb!Rebased
<1>6. entry' \in [Entries -> [user : Users \cup {None}, day : Nat, cost : Nat]]
  BY <1>1, <1>5 DEF Pb!Rebased
<1>7. BudgetShape'
  BY <1>1, <1>2, <1>3, <1>6 DEF BudgetInv, BudgetShape, BudgetRequests, Pb!Agreed, Pb!Days
<1>8. LoggedFree'
  BY <1>1, <1>3 DEF BudgetInv, BudgetShape, LoggedFree
<1>9. Pb!CountedOnce'
  <2> SUFFICES ASSUME NEW u \in Users, Pb!OnFee(u)', Pb!Costed(u)' # {} PROVE u \in excused'
    BY DEF Pb!CountedOnce
  <2>1. PICK e \in Entries : entry'[e].user = u /\ entry'[e].cost > 0
    BY DEF Pb!Costed
  <2>2. entry[e].user = u /\ entry[e].cost > 0 /\ e \in Pb!Costed(u)
    BY <2>1, <1>4, <1>5 DEF Pb!Costed
  <2>3. CASE u # q.user
    BY <1>1, <2>2, <2>3 DEF BudgetInv, BudgetShape, Pb!CountedOnce, Pb!OnFee
  <2>4. CASE u = q.user
    <3>1. fee'[u] = q.to /\ q.to = "fixed"
      BY <1>1, <2>4 DEF BudgetInv, BudgetShape, Pb!OnFee
    <3>2. ~q.rebase
      BY <1>5, <2>1, <2>2, <2>4
    <3> QED BY <1>1, <2>2, <2>4, <3>1, <3>2
  <2> QED BY <2>3, <2>4
<1> QED BY <1>1, <1>7, <1>8, <1>9, Untold DEF BudgetInv

LEMMA LoggedStep ==
    ASSUME BudgetInv, NEW r \in PbRequests, NEW e \in Entries, NEW day \in Pb!Days, Pb!TimeEntryInsert(r, e, day)
    PROVE  BudgetInv'
<1> DEFINE q == budgetsRequest[r]
<1>1. /\ q.op = "log"
      /\ entry' = [entry EXCEPT ![e] = [user |-> q.user, day |-> day, cost |-> q.cost]]
      /\ excused' = IF Pb!OnFee(q.user) /\ q.early THEN excused \cup {q.user} ELSE excused
      /\ budgetsRequest' = [budgetsRequest EXCEPT ![r] = Pb!Idle]
      /\ UNCHANGED <<today, project, type, fee, alerts, twice, sweep>>
  BY DEF Pb!TimeEntryInsert, Pb!people
<1>2. q \in BudgetRequests /\ day \in Nat
  BY WorkAssumption DEF BudgetInv, BudgetShape, Pb!Days
<1>3. Pb!Idle \in BudgetRequests /\ Pb!Idle.op = "idle"
  BY DEF Pb!Idle, BudgetRequests
<1>4. BudgetShape'
  BY <1>1, <1>2, <1>3 DEF BudgetInv, BudgetShape, BudgetRequests, Pb!Agreed, Pb!Days
<1>5. LoggedFree'
  BY <1>1, <1>3 DEF BudgetInv, BudgetShape, LoggedFree
<1>6. Pb!CountedOnce'
  <2> SUFFICES ASSUME NEW u \in Users, Pb!OnFee(u)', Pb!Costed(u)' # {} PROVE u \in excused'
    BY DEF Pb!CountedOnce
  <2>1. PICK i \in Entries : entry'[i].user = u /\ entry'[i].cost > 0
    BY DEF Pb!Costed
  <2>2. CASE i # e
    <3>1. i \in Pb!Costed(u) /\ Pb!OnFee(u)
      BY <1>1, <2>1, <2>2 DEF BudgetInv, BudgetShape, Pb!Costed, Pb!OnFee
    <3> QED BY <1>1, <3>1 DEF BudgetInv, Pb!CountedOnce
  <2>3. CASE i = e
    <3>1. entry'[e] = [user |-> q.user, day |-> day, cost |-> q.cost]
      BY <1>1 DEF BudgetInv, BudgetShape
    <3>2. q.user = u /\ q.cost > 0 /\ Pb!OnFee(u)
      BY <1>1, <2>1, <2>3, <3>1 DEF Pb!OnFee
    <3>3. q.early
      BY <1>1, <1>2, <3>2 DEF BudgetInv, LoggedFree, BudgetRequests
    <3> QED BY <1>1, <3>2, <3>3
  <2> QED BY <2>2, <2>3
<1> QED BY <1>1, <1>4, <1>5, <1>6, Untold DEF BudgetInv

LEMMA EntryGone ==
    ASSUME BudgetInv, NEW e \in Entries, Pb!TimeEntryDelete(e)
    PROVE  BudgetInv'
<1>1. /\ entry' = [entry EXCEPT ![e] = Pb!NoEntry]
      /\ UNCHANGED <<today, project, type, fee, alerts, twice, sweep, excused, budgetsRequest>>
  BY DEF Pb!TimeEntryDelete, Pb!people
<1>2. Pb!NoEntry \in [user : Users \cup {None}, day : Nat, cost : Nat] /\ ~(Pb!NoEntry.cost > 0)
  BY DEF Pb!NoEntry
<1>3. BudgetShape'
  BY <1>1, <1>2 DEF BudgetInv, BudgetShape, Pb!Agreed, Pb!Days
<1>4. LoggedFree'
  BY <1>1 DEF BudgetInv, LoggedFree
<1>5. \A u \in Users : Pb!Costed(u)' \subseteq Pb!Costed(u)
  BY <1>1, <1>2 DEF BudgetInv, BudgetShape, Pb!Costed
<1>6. Pb!CountedOnce'
  BY <1>1, <1>5 DEF BudgetInv, Pb!CountedOnce, Pb!OnFee
<1> QED BY <1>1, <1>3, <1>4, <1>6, Untold DEF BudgetInv

LEMMA TellStep ==
    ASSUME BudgetInv, NEW w \in Requests, Pb!SweepRead(w) \/ Pb!SweepWrite(w)
    PROVE  BudgetInv'
<1>1. UNCHANGED <<today, project, type, fee, entry, excused, budgetsRequest>>
  BY DEF Pb!SweepRead, Pb!SweepWrite, Pb!people
<1>2. BudgetShape'
  BY <1>1 DEF BudgetInv, BudgetShape, Pb!Agreed, Pb!Days
<1>3. Telling'
  <2>1. CASE Pb!SweepRead(w)
    <3>1. UNCHANGED <<alerts, twice>> /\ sweep' = [sweep EXCEPT ![w] = Pb!Due] /\ Warned(Pb!Due)
      BY <2>1, DueWarned DEF Pb!SweepRead, BudgetInv
    <3>2. PICK due : due = Pb!Due /\ Warned(due) /\ sweep' = [sweep EXCEPT ![w] = due]
      BY <3>1
    <3> QED BY <3>1, <3>2 DEF BudgetInv, Telling, Warned
  <2>2. CASE Pb!SweepWrite(w)
    <3>1. /\ sweep[w] # None /\ alerts' = alerts \cup sweep[w] /\ sweep' = [sweep EXCEPT ![w] = None]
          /\ twice' = twice
      BY <2>2 DEF Pb!SweepWrite, Pb!Fresh
    <3> QED BY <3>1 DEF BudgetInv, Telling, Warned
  <2> QED BY <2>1, <2>2
<1> QED BY <1>1, <1>2, <1>3, Uncounted DEF BudgetInv

LEMMA BudgetNext == BudgetInv /\ [Pb!Next]_(Pb!vars) => BudgetInv'
<1> SUFFICES ASSUME BudgetInv, Pb!Next \/ UNCHANGED Pb!vars PROVE BudgetInv'
  OBVIOUS
<1>1. CASE UNCHANGED Pb!vars
  <2>1. UNCHANGED <<today, project, type, fee, entry, alerts, twice, budgetsRequest, sweep, excused>>
    BY <1>1 DEF Pb!vars, Pb!people
  <2>2. BudgetShape'
    BY <2>1 DEF BudgetInv, BudgetShape, Pb!Agreed, Pb!Days
  <2> QED BY <2>1, <2>2, Untold, Uncounted DEF BudgetInv
<1>2. ASSUME NEW u \in Users,
             \/ \E to \in {"hourly", "fixed"} :
                   \/ Pb!ProjectMemberAdd(u, to)
                   \/ \E r \in PbRequests, rebase \in BOOLEAN : Pb!ProjectMemberUpdateBegin(r, u, to, rebase)
             \/ Pb!ProjectMemberRemove(u)
             \/ \E r \in PbRequests : Pb!TimeEntryBegin(r, u)
      PROVE  BudgetInv'
  BY <1>2, JoinStep, AgreeStep, LeaveStep, LogStep
<1>3. ASSUME NEW r \in PbRequests, Pb!ProjectMemberUpdate(r) \/ \E e \in Entries, day \in Pb!Days : Pb!TimeEntryInsert(r, e, day)
      PROVE  BudgetInv'
  BY <1>3, RebaseStep, LoggedStep
<1>4. CASE \E typed \in BOOLEAN, model \in Pb!Models \cup {None}, period \in Pb!Periods \cup {None}, contract \in {None, 1} :
              \E budget \in Budgets \cup {None}, hours \in Hours \cup {None} :
                  Pb!ProjectCreate(typed, model, period, contract, budget, hours)
  BY <1>4, CreateProject
<1>5. CASE \E period \in Pb!Periods, model \in Pb!Models, yes \in BOOLEAN : Pb!ProjectTypeUpdate(model, period, yes)
  BY <1>5, TypeStep
<1>6. CASE \E patch \in Pb!Patches : Pb!ProjectUpdate(patch)
  BY <1>6, UpdateProject
<1>7. CASE (\E to \in {"active", "completed"} : Pb!ProjectChangeStatus(to)) \/ (\E yes \in BOOLEAN : Pb!ProjectArchive(yes))
  BY <1>7, MarkProject
<1>8. CASE \E e \in Entries : Pb!TimeEntryDelete(e)
  BY <1>8, EntryGone
<1>9. CASE \E w \in Requests : Pb!SweepRead(w) \/ Pb!SweepWrite(w)
  BY <1>9, TellStep
<1> QED BY <1>1, <1>2, <1>3, <1>4, <1>5, <1>6, <1>7, <1>8, <1>9, TickStep, Zenon DEF Pb!Next

-----------------------------------------------------------------------------
(* Both side by side.                                                      *)
WorkInv == LoopInv /\ (part = "budgets" => BudgetInv)

LEMMA WorkInit == AllInit => WorkInv
BY LoopInit, BudgetInit DEF AllInit, WorkInv

LEMMA WorkKeeps == WorkInv /\ [AllNext]_allVars => WorkInv'
<1> SUFFICES ASSUME WorkInv, [AllNext]_allVars PROVE WorkInv'
  OBVIOUS
<1>1. CASE BoardNext
  <2>1. part = "board" /\ part' = part /\ Next
    BY <1>1 DEF BoardNext
  <2> QED BY <2>1, LoopNext DEF WorkInv
<1>2. CASE BudgetsNext
  <2>1. part = "budgets" /\ part' = part /\ Pb!Next /\ UNCHANGED vars
    BY <1>2 DEF BudgetsNext
  <2> QED BY <2>1, LoopNext, BudgetNext DEF WorkInv
<1>3. CASE UNCHANGED allVars
  <2>1. part' = part /\ UNCHANGED vars /\ UNCHANGED Pb!vars
    BY <1>3 DEF allVars, budgetsVars, Pb!vars, Pb!people
  <2> QED BY <2>1, LoopNext, BudgetNext DEF WorkInv
<1> QED BY <1>1, <1>2, <1>3 DEF AllNext

(* No task waits for itself, though two dependencies are added at once;    *)
(* work that is paid by a fee is not counted by the hour as well, a budget *)
(* that is exceeded has crossed its thresholds, and each is told once.     *)
THEOREM WorkAlwaysWatched == AllSpec => [](BoardInOrder /\ WorkWatched)
<1>1. WorkInv => BoardInOrder /\ WorkWatched
  BY BoardOrder, LoopFreeIs, BudgetHolds DEF WorkInv, LoopInv, WorkWatched
<1> QED BY WorkInit, WorkKeeps, <1>1, PTL DEF AllSpec
=============================================================================
