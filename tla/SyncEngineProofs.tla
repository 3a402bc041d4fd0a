-------------------------- MODULE SyncEngineProofs --------------------------
(***************************************************************************)
(* Proofs about SyncEngine, for every number of tasks, goroutines, paths    *)
(* and polls, and for every listing.                                        *)
(***************************************************************************)
EXTENDS SyncEngine, SumTheorems, SequenceTheorems

-----------------------------------------------------------------------------
(* Facts about the operators of SyncDiff                                    *)

\* A diff of two listings is a list of well-formed items, and an item
\* conflicts exactly when its action says so.
LEMMA CalculateDiffType ==
    ASSUME NEW local \in Listing, NEW remote \in Listing, NEW s
    PROVE  /\ CalculateDiff(local, remote, s) \in Diffs
           /\ \A p \in Paths : LET item == CalculateDiff(local, remote, s)[p]
                               IN  item.conflict <=> item.action = "conflict"
<1> DEFINE Act(p) == DiffAction(local[p], remote[p], s)
<1>1. \A p \in Paths : local[p] \in Entry /\ remote[p] \in Entry
  BY DEF Listing
<1>2. \A p \in Paths : Act(p) \in Actions
  BY DEF DiffAction, CompareBoth, NewestAction, Actions, Transfers, Uploads, Downloads
<1> HIDE DEF Act
<1>3. CalculateDiff(local, remote, s) =
        [p \in Paths |-> [local |-> local[p], remote |-> remote[p], action |-> Act(p),
                          conflict |-> Act(p) = "conflict", resolution |-> "none"]]
  BY DEF CalculateDiff, Act
<1>4. ASSUME NEW p \in Paths
      PROVE  CalculateDiff(local, remote, s)[p] \in DiffItem
  <2>1. (Act(p) = "conflict") \in BOOLEAN
    OBVIOUS
  <2> QED
    BY <1>1, <1>2, <1>3, <2>1 DEF DiffItem
<1>5. ASSUME NEW p \in Paths
      PROVE  CalculateDiff(local, remote, s)[p].conflict
                <=> CalculateDiff(local, remote, s)[p].action = "conflict"
  <2>1. CalculateDiff(local, remote, s)[p] =
          [local |-> local[p], remote |-> remote[p], action |-> Act(p),
           conflict |-> Act(p) = "conflict", resolution |-> "none"]
    BY <1>3
  <2>2. CalculateDiff(local, remote, s)[p].action = Act(p)
    BY <2>1
  <2>3. CalculateDiff(local, remote, s)[p].conflict = (Act(p) = "conflict")
    BY <2>1
  <2> QED
    BY <2>2, <2>3
<1>6. CalculateDiff(local, remote, s) \in Diffs
  BY <1>3, <1>4 DEF Diffs
<1> QED
  BY <1>5, <1>6

LEMMA NoDiffsType == NoDiffs \in Diffs /\ ItemPaths(NoDiffs) = {} /\ ~HasConflict(NoDiffs)
  BY DEF NoDiffs, Diffs, DiffItem, Entry, Actions, ItemPaths, HasConflict

\* Resolving an item leaves an item that is decided.
LEMMA ResolveType ==
    ASSUME NEW item \in DiffItem, NEW choice \in UserChoices
    PROVE  /\ Resolve(item, choice) \in DiffItem
           /\ ~Resolve(item, choice).conflict
           /\ Resolve(item, choice).action \in Transfers \cup {"in_sync"}
<1>1. ResolvedAction(item, choice) \in Transfers \cup {"in_sync"}
  BY DEF ResolvedAction, Transfers, Uploads, Downloads
<1> QED
  BY <1>1 DEF Resolve, DiffItem, Actions

\* The items of a task are finitely many.
LEMMA ItemPathsFinite ==
    ASSUME NEW diffs
    PROVE  /\ ItemPaths(diffs) \subseteq Paths
           /\ IsFiniteSet(ItemPaths(diffs))
           /\ Cardinality(ItemPaths(diffs)) \in Nat
  BY PathsAssumption, FS_Subset, FS_CardinalityType DEF ItemPaths

LEMMA UnreadableType == ListFiles \subseteq Listing
  BY InputAssumption DEF ListFiles, Unreadable, Listing, Entry

LEMMA PercentType ==
    ASSUME NEW n \in Nat, NEW total \in Nat, total > 0
    PROVE  Percent(n, total) \in Nat
  BY DEF Percent

-----------------------------------------------------------------------------
(* Facts about the two operations on the queue                              *)

\* InsertAt makes room for one element and moves the rest back by one.
LEMMA InsertAtProperties ==
    ASSUME NEW S, NEW q \in Seq(S), NEW e \in S, NEW k \in 1..(Len(q) + 1)
    PROVE  /\ InsertAt(q, k, e) \in Seq(S)
           /\ Len(InsertAt(q, k, e)) = Len(q) + 1
           /\ \A i \in 1..(Len(q) + 1) :
                 InsertAt(q, k, e)[i] =
                    IF i < k THEN q[i] ELSE IF i = k THEN e ELSE q[i - 1]
<1> DEFINE a == SubSeq(q, 1, k - 1)
           b == SubSeq(q, k, Len(q))
<1>1. a \in Seq(S) /\ Len(a) = k - 1 /\ \A i \in 1..(k - 1) : a[i] = q[i]
  BY SubSeqProperties
<1>2. b \in Seq(S) /\ Len(b) = Len(q) + 1 - k
      /\ \A i \in 1..(Len(q) + 1 - k) : b[i] = q[k + i - 1]
  BY SubSeqProperties
<1> HIDE DEF a, b
<1>3. a \o <<e>> \in Seq(S) /\ Len(a \o <<e>>) = k
      /\ \A i \in 1..k : (a \o <<e>>)[i] = IF i < k THEN q[i] ELSE e
  BY <1>1
<1>4. InsertAt(q, k, e) = (a \o <<e>>) \o b
  BY DEF InsertAt, a, b
<1>5. /\ InsertAt(q, k, e) \in Seq(S)
      /\ Len(InsertAt(q, k, e)) = Len(q) + 1
      /\ \A i \in 1..(Len(q) + 1) :
            InsertAt(q, k, e)[i] =
               IF i <= k THEN (a \o <<e>>)[i] ELSE b[i - k]
  <2> DEFINE c == a \o <<e>>
  <2> HIDE DEF c
  <2>1. c \in Seq(S) /\ Len(c) = k
    BY <1>3 DEF c
  <2>2. /\ c \o b \in Seq(S)
        /\ Len(c \o b) = Len(c) + Len(b)
        /\ \A i \in 1..(Len(c) + Len(b)) :
              (c \o b)[i] = IF i <= Len(c) THEN c[i] ELSE b[i - Len(c)]
    BY <1>2, <2>1, ConcatProperties
  <2>3. Len(c) + Len(b) = Len(q) + 1
    BY <1>2, <2>1
  <2> QED
    BY <1>4, <2>1, <2>2, <2>3 DEF c
<1>6. ASSUME NEW i \in 1..(Len(q) + 1), i > k
      PROVE  b[i - k] = q[i - 1]
  <2>1. Len(q) \in Nat
    OBVIOUS
  <2>2. i - k \in 1..(Len(q) + 1 - k) /\ k + (i - k) - 1 = i - 1
    BY <1>6, <2>1
  <2> QED
    BY <1>2, <2>2
<1>7. ASSUME NEW i \in 1..(Len(q) + 1)
      PROVE  InsertAt(q, k, e)[i] =
                IF i < k THEN q[i] ELSE IF i = k THEN e ELSE q[i - 1]
  <2>1. CASE i <= k
    <3>1. InsertAt(q, k, e)[i] = (a \o <<e>>)[i]
      BY <1>5, <2>1
    <3>2. i \in 1..k
      BY <2>1
    <3> QED
      BY <1>3, <2>1, <3>1, <3>2
  <2>2. CASE i > k
    BY <1>5, <1>6, <2>2
  <2> QED
    BY <2>1, <2>2
<1> QED
  BY <1>5, <1>7

\* RemoveAt takes out one element and moves the rest up by one.
LEMMA RemoveAtProperties ==
    ASSUME NEW S, NEW q \in Seq(S), NEW k \in 1..Len(q)
    PROVE  /\ RemoveAt(q, k) \in Seq(S)
           /\ Len(RemoveAt(q, k)) = Len(q) - 1
           /\ \A i \in 1..(Len(q) - 1) :
                 RemoveAt(q, k)[i] = IF i < k THEN q[i] ELSE q[i + 1]
<1> DEFINE a == SubSeq(q, 1, k - 1)
           b == SubSeq(q, k + 1, Len(q))
<1>1. a \in Seq(S) /\ Len(a) = k - 1 /\ \A i \in 1..(k - 1) : a[i] = q[i]
  BY SubSeqProperties
<1>2. b \in Seq(S) /\ Len(b) = Len(q) - k
      /\ \A i \in 1..(Len(q) - k) : b[i] = q[k + i]
  BY SubSeqProperties
<1> HIDE DEF a, b
<1>3. RemoveAt(q, k) = a \o b
  BY DEF RemoveAt, a, b
<1>4. /\ a \o b \in Seq(S)
      /\ Len(a \o b) = Len(a) + Len(b)
      /\ \A i \in 1..(Len(a) + Len(b)) :
            (a \o b)[i] = IF i <= Len(a) THEN a[i] ELSE b[i - Len(a)]
  BY <1>1, <1>2, ConcatProperties
<1>5. ASSUME NEW i \in 1..(Len(q) - 1), i >= k
      PROVE  b[i - (k - 1)] = q[i + 1]
  <2>1. Len(q) \in Nat
    OBVIOUS
  <2>2. i - (k - 1) \in 1..(Len(q) - k) /\ k + (i - (k - 1)) = i + 1
    BY <1>5, <2>1
  <2> QED
    BY <1>2, <2>2
<1>6. Len(a) + Len(b) = Len(q) - 1
  BY <1>1, <1>2
<1>7. ASSUME NEW i \in 1..(Len(q) - 1)
      PROVE  RemoveAt(q, k)[i] = IF i < k THEN q[i] ELSE q[i + 1]
  <2>1. RemoveAt(q, k)[i] = IF i <= k - 1 THEN a[i] ELSE b[i - (k - 1)]
    BY <1>1, <1>3, <1>4, <1>6
  <2>2. CASE i < k
    <3>1. i <= k - 1 /\ i \in 1..(k - 1)
      BY <2>2
    <3> QED
      BY <1>1, <2>1, <2>2, <3>1
  <2>3. CASE ~(i < k)
    <3>1. ~(i <= k - 1) /\ i >= k
      BY <2>3
    <3> QED
      BY <1>5, <2>1, <2>3, <3>1
  <2> QED
    BY <2>2, <2>3
<1> QED
  BY <1>3, <1>4, <1>6, <1>7

-----------------------------------------------------------------------------
(* Type correctness                                                         *)

LEMMA NoTaskType == NoTask \in SyncTask
  BY NoDiffsType DEF NoTask, SyncTask, Statuses, Strategies, NewestWins

LEMMA IdleType == Idle \in Worker
  BY BoundsAssumption DEF Idle, Worker

LEMMA CountedType ==
    ASSUME NEW task \in SyncTask
    PROVE  Counted(task) \in SyncTask
<1>1. task.total > 0 => Percent(task.processed + 1, task.total) \in Nat
  BY PercentType DEF SyncTask
<1> DEFINE pct == IF task.total > 0
                   THEN Percent(task.processed + 1, task.total) ELSE task.percentage
<1>2. task.processed + 1 \in Nat /\ pct \in Nat
  BY <1>1 DEF SyncTask
<1>3. Counted(task) = [task EXCEPT !.processed = task.processed + 1, !.percentage = pct]
  BY DEF Counted, SyncTask
<1> HIDE DEF pct
<1> QED
  BY <1>2, <1>3 DEF SyncTask

LEMMA ListedType ==
    ASSUME NEW task \in SyncTask, NEW diffs \in Diffs
    PROVE  Listed(task, diffs) \in SyncTask
  BY ItemPathsFinite DEF Listed, SyncTask, Statuses

LEMMA DecidedType ==
    ASSUME NEW task \in SyncTask, NEW diffs \in Diffs
    PROVE  Decided(task, diffs) \in SyncTask
  BY DEF Decided, SyncTask, Statuses

LEMMA CompletedType ==
    ASSUME NEW task \in SyncTask
    PROVE  Completed(task) \in SyncTask
<1> DEFINE full == 100
<1>1. full \in Nat /\ Completed(task) = [task EXCEPT !.status = "completed", !.percentage = full]
  BY DEF Completed
<1> HIDE DEF full
<1> QED
  BY <1>1 DEF SyncTask, Statuses

LEMMA AdvancedType ==
    ASSUME NEW worker \in Worker, NEW p, NEW n \in Nat,
           WorkerOK(worker, n), worker.pc # "idle"
    PROVE  Advanced(worker, p) \in Worker /\ WorkerOK(Advanced(worker, p), n)
<1> DEFINE rest == worker.todo \ {p}
           zero == 0
<1>1. rest \in SUBSET Paths /\ zero \in 0..PollLimit /\ zero \in Nat
  BY BoundsAssumption DEF Worker
<1>2. Advanced(worker, p) =
        [worker EXCEPT !.pc = "exec", !.todo = rest, !.job = zero, !.polls = zero]
  BY DEF Advanced
<1>3. WorkerOK(Advanced(worker, p), n)
  BY <1>2 DEF WorkerOK, Worker
<1> HIDE DEF rest, zero
<1> QED
  BY <1>1, <1>2, <1>3 DEF Worker

LEMMA PolledType ==
    ASSUME NEW worker \in Worker, NEW n \in Nat,
           WorkerOK(worker, n), worker.pc = "wait"
    PROVE  Polled(worker) \in Worker /\ WorkerOK(Polled(worker), n)
<1> DEFINE k  == worker.polls + 1
           pc == IF k < PollLimit THEN "wait" ELSE "count"
<1>1. k \in 0..PollLimit
  BY BoundsAssumption DEF Worker, WorkerOK
<1>2. Polled(worker) = [worker EXCEPT !.polls = k, !.pc = pc]
  BY DEF Polled
<1> HIDE DEF k
<1>3. Polled(worker) \in Worker
  BY <1>1, <1>2 DEF Worker
<1>4. WorkerOK(Polled(worker), n)
  BY <1>1, <1>2 DEF WorkerOK, Worker
<1> QED
  BY <1>3, <1>4

\* One goroutine moves on and the rest stay where they are.
LEMMA WorkerReplaced ==
    ASSUME NEW ws \in [Workers -> Worker], NEW n \in Nat, NEW m \in Nat, n <= m,
           \A v \in Workers : WorkerOK(ws[v], n),
           NEW w \in Workers, NEW new \in Worker, WorkerOK(new, m)
    PROVE  /\ [ws EXCEPT ![w] = new] \in [Workers -> Worker]
           /\ \A v \in Workers : WorkerOK([ws EXCEPT ![w] = new][v], m)
<1>1. \A v \in Workers : WorkerOK(ws[v], m)
  BY DEF WorkerOK, Worker
<1> QED
  BY <1>1

LEMMA IdleOK == ASSUME NEW n \in Nat PROVE WorkerOK(Idle, n)
  BY DEF WorkerOK, Idle

LEMMA RequestType ==
    ASSUME NEW t \in TaskIds, NEW p \in Paths, NEW action
    PROVE  [task |-> t, path |-> p, direction |-> Direction(action)] \in TransferRequest
  BY DEF Direction, TransferRequest

\* No step leaves the types: the induction step of TypeCorrect.
LEMMA TypeStep ==
    ASSUME TypeOK, [Next]_vars
    PROVE  TypeOK'
<1> USE DEF TypeOK
<1>0. Len(jobs) \in Nat
  BY DEF Bridge!JobTypeOK
<1>1. ASSUME NEW n \in PriorityInputs, NEW s \in StrategyInputs, EnqueueTask(n, s)
      PROVE  TypeOK'
  <2> DEFINE t   == taskCounter + 1
             pr  == Default(n, 0, 2)
             st  == Default(s, "", NewestWins)
             new == [NoTask EXCEPT !.status = "queued", !.priority = pr, !.strategy = st]
  <2>1. t \in TaskIds /\ taskCounter' \in 0..MaxTasks
    BY <1>1, BoundsAssumption DEF EnqueueTask, TaskIds
  <2>2. pr \in Priorities
    <3>1. n \in 0..3
      BY InputAssumption
    <3> QED
      BY <3>1 DEF Default, Priorities
  <2>3. st \in Strategies
    BY InputAssumption DEF Default, Strategies
  <2>4. tasks' = [tasks EXCEPT ![t] = new]
    BY <1>1 DEF EnqueueTask
  <2> HIDE DEF pr, st
  <2>5. new \in SyncTask
    BY <2>2, <2>3, NoTaskType DEF SyncTask, Statuses
  <2>6. tasks' \in [TaskIds -> SyncTask]
    BY <2>1, <2>4, <2>5
  <2>7. queue' \in Seq(TaskIds)
    <3>1. PICK k \in 1..(Len(queue) + 1) : queue' = InsertAt(queue, k, t)
      BY <1>1 DEF EnqueueTask, SortedIn
    <3> QED
      BY <2>1, <3>1, InsertAtProperties
  <2> QED
    BY <1>1, <2>1, <2>6, <2>7 DEF EnqueueTask, Bridge!JobTypeOK
<1>2. ASSUME NEW w \in Workers, ProcessNextInQueue(w)
      PROVE  TypeOK'
  <2>1. PICK i \in 1..Len(queue) :
          /\ queue' = RemoveAt(queue, i)
          /\ tasks' = [tasks EXCEPT ![queue[i]].status = "in_progress"]
          /\ workers' = [workers EXCEPT ![w] =
                           [Idle EXCEPT !.pc = "list", !.task = queue[i]]]
    BY <1>2 DEF ProcessNextInQueue
  <2> DEFINE new == [Idle EXCEPT !.pc = "list", !.task = queue[i]]
  <2>2. queue[i] \in TaskIds
    OBVIOUS
  <2>3. tasks' \in [TaskIds -> SyncTask]
    BY <2>1, <2>2, ZenonT(60) DEF SyncTask, Statuses
  <2>4. queue' \in Seq(TaskIds)
    BY <2>1, RemoveAtProperties
  <2>5. new \in Worker
    BY <2>2, IdleType DEF Worker
  <2>6. WorkerOK(new, Len(jobs))
    BY <2>2 DEF WorkerOK, Idle
  <2> HIDE DEF new
  <2>7. workers' \in [Workers -> Worker] /\ \A v \in Workers : WorkerOK(workers'[v], Len(jobs))
    BY <1>0, <2>1, <2>5, <2>6, WorkerReplaced DEF new
  <2> QED
    BY <1>2, <2>3, <2>4, <2>7 DEF ProcessNextInQueue, Bridge!JobTypeOK
<1>3. CASE ProcessEmptyQueue
  BY <1>3 DEF ProcessEmptyQueue, Bridge!JobTypeOK
<1>4. ASSUME NEW w \in Workers, RunSyncTask(w)
      PROVE  TypeOK'
  <2> DEFINE t == workers[w].task
  <2>1. t \in TaskIds
    BY <1>4 DEF RunSyncTask, WorkerOK
  <2>2. PICK local \in ListFiles, remote \in ListFiles :
          LET diffs == CalculateDiff(local, remote, tasks[t].strategy)
          IN  /\ tasks' = [tasks EXCEPT ![t] = Listed(@, diffs)]
              /\ workers' = [workers EXCEPT ![w] =
                    IF HasConflict(diffs) THEN Idle
                    ELSE [@ EXCEPT !.pc = "exec", !.todo = ItemPaths(diffs)]]
    BY <1>4 DEF RunSyncTask
  <2> DEFINE diffs == CalculateDiff(local, remote, tasks[t].strategy)
             new   == IF HasConflict(diffs) THEN Idle
                      ELSE [workers[w] EXCEPT !.pc = "exec", !.todo = ItemPaths(diffs)]
  <2>3. diffs \in Diffs
    BY UnreadableType, CalculateDiffType
  <2>4. tasks' = [tasks EXCEPT ![t] = Listed(tasks[t], diffs)]
        /\ workers' = [workers EXCEPT ![w] = new]
    BY <2>1, <2>2
  <2> HIDE DEF diffs
  <2>5. tasks' \in [TaskIds -> SyncTask]
    BY <2>1, <2>3, <2>4, ListedType
  <2>6. new \in Worker
    <3>1. ItemPaths(diffs) \in SUBSET Paths
      BY ItemPathsFinite
    <3>2. [workers[w] EXCEPT !.pc = "exec", !.todo = ItemPaths(diffs)] \in Worker
      BY <3>1 DEF Worker
    <3> QED
      BY <3>2, IdleType
  <2>7. WorkerOK(new, Len(jobs))
    <3>1. WorkerOK([workers[w] EXCEPT !.pc = "exec", !.todo = ItemPaths(diffs)], Len(jobs))
      BY <1>4, <2>1 DEF WorkerOK, Worker, RunSyncTask
    <3> QED
      BY <1>0, <3>1, IdleOK
  <2> HIDE DEF new
  <2>8. workers' \in [Workers -> Worker] /\ \A v \in Workers : WorkerOK(workers'[v], Len(jobs))
    BY <1>0, <2>4, <2>6, <2>7, WorkerReplaced
  <2> QED
    BY <1>4, <2>5, <2>8 DEF RunSyncTask, Bridge!JobTypeOK
<1>5. ASSUME NEW w \in Workers, NEW p \in Paths, ExecInSync(w, p)
      PROVE  TypeOK'
  <2>1. workers[w].task \in TaskIds
    BY <1>5 DEF ExecInSync, WorkerOK
  <2>2. tasks' \in [TaskIds -> SyncTask]
    BY <1>5, <2>1, CountedType DEF ExecInSync
  <2>3. Advanced(workers[w], p) \in Worker /\ WorkerOK(Advanced(workers[w], p), Len(jobs))
    BY <1>0, <1>5, AdvancedType DEF ExecInSync
  <2>4. workers' = [workers EXCEPT ![w] = Advanced(workers[w], p)]
    BY <1>5 DEF ExecInSync
  <2>5. workers' \in [Workers -> Worker] /\ \A v \in Workers : WorkerOK(workers'[v], Len(jobs))
    BY <1>0, <2>3, <2>4, WorkerReplaced
  <2> QED
    BY <1>5, <2>2, <2>5 DEF ExecInSync, Bridge!JobTypeOK
<1>6. ASSUME NEW w \in Workers, NEW p \in Paths, ExecTransfer(w, p)
      PROVE  TypeOK'
  <2> DEFINE req == [task |-> workers[w].task, path |-> p,
                     direction |-> Direction(tasks[workers[w].task].diffs[p].action)]
             job == [req |-> req, status |-> "in_progress", bytes |-> 0]
             id  == Len(jobs) + 1
             new == [workers[w] EXCEPT !.pc = "wait", !.job = id]
  <2>1. workers[w].task \in TaskIds
    BY <1>6 DEF ExecTransfer, WorkerOK
  <2>2. job \in Bridge!Job
    BY <2>1, RequestType DEF Bridge!Job
  <2>3. jobs' = Append(jobs, job) /\ workers' = [workers EXCEPT ![w] = new]
    BY <1>6 DEF ExecTransfer, Bridge!Transfer
  <2> HIDE DEF job
  <2>4. jobs' \in Seq(Bridge!Job) /\ Len(jobs') = id
    BY <2>2, <2>3 DEF Bridge!JobTypeOK
  <2>5. id \in Nat /\ id \in 1..id /\ Len(jobs) <= id
    BY <1>0
  <2>6. WorkerOK(workers[w], Len(jobs)) /\ workers[w].pc = "exec" /\ workers[w].polls < PollLimit
    BY <1>6, BoundsAssumption DEF ExecTransfer, WorkerOK
  <2> HIDE DEF id
  <2>7. new \in Worker /\ WorkerOK(new, id)
    BY <2>1, <2>5, <2>6 DEF Worker, WorkerOK
  <2> HIDE DEF new
  <2>8. workers' \in [Workers -> Worker] /\ \A v \in Workers : WorkerOK(workers'[v], id)
    BY <1>0, <2>3, <2>5, <2>7, WorkerReplaced
  <2> QED
    BY <1>6, <2>4, <2>8 DEF ExecTransfer, Bridge!JobTypeOK
<1>7. ASSUME NEW w \in Workers, NEW p \in Paths, CountItem(w, p)
      PROVE  TypeOK'
  <2>1. workers[w].task \in TaskIds
    BY <1>7 DEF CountItem, WorkerOK
  <2>2. tasks' \in [TaskIds -> SyncTask]
    BY <1>7, <2>1, CountedType DEF CountItem
  <2>3. Advanced(workers[w], p) \in Worker /\ WorkerOK(Advanced(workers[w], p), Len(jobs))
    BY <1>0, <1>7, AdvancedType DEF CountItem
  <2>4. workers' = [workers EXCEPT ![w] = Advanced(workers[w], p)]
    BY <1>7 DEF CountItem
  <2>5. workers' \in [Workers -> Worker] /\ \A v \in Workers : WorkerOK(workers'[v], Len(jobs))
    BY <1>0, <2>3, <2>4, WorkerReplaced
  <2> QED
    BY <1>7, <2>2, <2>5 DEF CountItem, Bridge!JobTypeOK
<1>8. ASSUME NEW w \in Workers, PollSettled(w)
      PROVE  TypeOK'
  <2> DEFINE t   == workers[w].task
             sum == tasks[t].bytes + jobs[workers[w].job].bytes
             new == [workers[w] EXCEPT !.pc = "count"]
  <2>1. t \in TaskIds /\ workers[w].job \in 1..Len(jobs)
    BY <1>8 DEF PollSettled, WorkerOK
  <2>2. jobs[workers[w].job].bytes \in Nat
    <3>1. jobs[workers[w].job] \in Bridge!Job
      BY <2>1 DEF Bridge!JobTypeOK
    <3> QED
      BY <3>1 DEF Bridge!Job
  <2>3. sum \in Nat
    BY <2>1, <2>2, SMTT(60) DEF SyncTask
  <2>4. tasks' = [tasks EXCEPT ![t] = [tasks[t] EXCEPT !.bytes = sum]]
    BY <1>8, <2>1 DEF PollSettled, SyncTask
  <2>5. workers' = [workers EXCEPT ![w] = new]
    BY <1>8 DEF PollSettled
  <2>6. new \in Worker /\ WorkerOK(new, Len(jobs))
    BY <1>8, <2>1 DEF Worker, WorkerOK, PollSettled
  <2> HIDE DEF sum, new
  <2>7. tasks' \in [TaskIds -> SyncTask]
    BY <2>1, <2>3, <2>4 DEF SyncTask
  <2>8. workers' \in [Workers -> Worker] /\ \A v \in Workers : WorkerOK(workers'[v], Len(jobs))
    BY <1>0, <2>5, <2>6, WorkerReplaced
  <2> QED
    BY <1>8, <2>7, <2>8 DEF PollSettled, Bridge!JobTypeOK
<1>9. ASSUME NEW w \in Workers, PollPending(w)
      PROVE  TypeOK'
  <2>1. Polled(workers[w]) \in Worker /\ WorkerOK(Polled(workers[w]), Len(jobs))
    BY <1>0, <1>9, PolledType DEF PollPending
  <2>2. workers' = [workers EXCEPT ![w] = Polled(workers[w])]
    BY <1>9 DEF PollPending
  <2>3. workers' \in [Workers -> Worker] /\ \A v \in Workers : WorkerOK(workers'[v], Len(jobs))
    BY <1>0, <2>1, <2>2, WorkerReplaced
  <2> QED
    BY <1>9, <2>3 DEF PollPending, Bridge!JobTypeOK
<1>10. ASSUME NEW w \in Workers, FinishTask(w)
       PROVE  TypeOK'
  <2>1. workers[w].task \in TaskIds
    BY <1>10 DEF FinishTask, WorkerOK
  <2>2. tasks' \in [TaskIds -> SyncTask]
    BY <1>10, <2>1, CompletedType DEF FinishTask
  <2>3. workers' = [workers EXCEPT ![w] = Idle]
    BY <1>10 DEF FinishTask
  <2>4. workers' \in [Workers -> Worker] /\ \A v \in Workers : WorkerOK(workers'[v], Len(jobs))
    BY <1>0, <2>3, IdleType, IdleOK, WorkerReplaced
  <2> QED
    BY <1>10, <2>2, <2>4 DEF FinishTask, Bridge!JobTypeOK
<1>11. ASSUME NEW t \in TaskIds, NEW p \in Paths, NEW c \in UserChoices,
              NEW w \in Workers, ResolveConflict(t, p, c, w)
       PROVE  TypeOK'
  <2> DEFINE diffs == [tasks[t].diffs EXCEPT ![p] = Resolve(@, c)]
             new   == [Idle EXCEPT !.pc = "exec", !.task = t, !.todo = ItemPaths(diffs)]
  <2>1. diffs \in Diffs
    BY ResolveType DEF SyncTask, Diffs
  <2>2. tasks' = [tasks EXCEPT ![t] = Decided(tasks[t], diffs)]
    BY <1>11 DEF ResolveConflict
  <2>3. workers' = workers \/ workers' = [workers EXCEPT ![w] = new]
    BY <1>11 DEF ResolveConflict
  <2> HIDE DEF diffs
  <2>4. tasks' \in [TaskIds -> SyncTask]
    BY <2>1, <2>2, DecidedType
  <2>5. ItemPaths(diffs) \in SUBSET Paths
    BY ItemPathsFinite
  <2>6. new \in Worker /\ WorkerOK(new, Len(jobs))
    <3>1. new \in Worker
      BY <2>5, IdleType DEF Worker
    <3>2. WorkerOK(new, Len(jobs))
      BY DEF WorkerOK, Idle
    <3> QED
      BY <3>1, <3>2
  <2> HIDE DEF new
  <2>7. workers' \in [Workers -> Worker] /\ \A v \in Workers : WorkerOK(workers'[v], Len(jobs))
    BY <1>0, <2>3, <2>6, WorkerReplaced
  <2> QED
    BY <1>11, <2>4, <2>7 DEF ResolveConflict, Bridge!JobTypeOK
<1>12. CASE JobSettles
  <2>1. PICK i \in DOMAIN jobs : Bridge!Complete(i) \/ Bridge!Fail(i)
    BY <1>12 DEF JobSettles, Bridge!Settle
  <2>2. jobs' \in Seq(Bridge!Job) /\ Len(jobs') = Len(jobs)
    <3>1. jobs[i] \in Bridge!Job
      BY DEF Bridge!JobTypeOK
    <3>2. PICK new \in Bridge!Job : jobs' = [jobs EXCEPT ![i] = new]
      BY <2>1, <3>1, InputAssumption
         DEF Bridge!Complete, Bridge!Fail, Bridge!Job, Bridge!Settled
    <3> QED
      BY <3>2, ExceptSeq DEF Bridge!JobTypeOK
  <2> QED
    BY <1>12, <2>2 DEF JobSettles, Bridge!JobTypeOK
<1>13. CASE UNCHANGED vars
  BY <1>13 DEF vars, Bridge!JobTypeOK
<1> QED
  BY <1>1, <1>2, <1>3, <1>4, <1>5, <1>6, <1>7, <1>8, <1>9, <1>10, <1>11, <1>12, <1>13
     DEF Next, Caller, Dispatch, WorkerStep

LEMMA TypeInit == Init => TypeOK
  BY BoundsAssumption, NoTaskType, IdleType, IdleOK
     DEF Init, TypeOK, Bridge!JobInit, Bridge!JobTypeOK

\* In every reachable state, of any instance, the engine's variables and the
\* goroutines' local ones have their types: job ids are valid and no
\* waitBridgeJob polls more often than PollLimit.
THEOREM TypeCorrect == Spec => []TypeOK
<1>1. Init => TypeOK
  BY TypeInit
<1>2. TypeOK /\ [Next]_vars => TypeOK'
  BY TypeStep
<1> QED
  BY <1>1, <1>2, PTL DEF Spec


-----------------------------------------------------------------------------
(***************************************************************************)
(* The safety properties of SyncEngine, proved for every instance.          *)
(*                                                                         *)
(* The argument has three layers. The first is about who works on what: the  *)
(* queue, the goroutines still to come, and the one goroutine of a task in  *)
(* progress.  It is inductive given the types.  The second is about what    *)
(* is done: items, conflicts and counts.  It rests on the first, because a  *)
(* task's record is only ever changed by the one goroutine that carries it, *)
(* or while it is held for a conflict and has none.  The third, at the end, *)
(* is about what was handed to the bridge and counted for it.               *)
(***************************************************************************)

-----------------------------------------------------------------------------
(* Layer 1                                                                  *)

IdsInOrder == \A t \in TaskIds : tasks[t].status = "none" <=> t > taskCounter

Dispatching == IdsInOrder /\ QueueInOrder /\ QueueCovered /\ OneExecutor

\* The queue is untouched by a step that leaves it alone and neither queues a
\* task, nor unqueues one, nor changes a priority.
LEMMA QueueQuiet ==
    ASSUME QueueInOrder, queue' = queue, TypeOK,
           \A t \in TaskIds :
              /\ tasks'[t].priority = tasks[t].priority
              /\ tasks'[t].status = "queued" <=> tasks[t].status = "queued"
    PROVE  QueueInOrder'
<1>1. \A i \in 1..Len(queue) : queue[i] \in TaskIds
  BY DEF TypeOK
<1> QED
  BY <1>1 DEF QueueInOrder

\* A goroutine moves on with its task.
LEMMA GoroutineGoesOn ==
    ASSUME TypeOK, Dispatching, NEW w \in Workers, Busy(w),
           NEW nw \in Worker, nw.pc # "idle", nw.task = workers[w].task,
           NEW nt \in SyncTask, nt.status = tasks[workers[w].task].status,
           nt.priority = tasks[workers[w].task].priority,
           tasks' = [tasks EXCEPT ![workers[w].task] = nt],
           workers' = [workers EXCEPT ![w] = nw],
           UNCHANGED <<queue, spawned, taskCounter>>
    PROVE  Dispatching'
<1>1. workers[w].task \in TaskIds
  BY DEF TypeOK, WorkerOK, Busy
<1>2. \A t \in TaskIds : /\ tasks'[t].priority = tasks[t].priority
                         /\ tasks'[t].status = tasks[t].status
  BY <1>1 DEF TypeOK
<1>3. QueueInOrder'
  BY <1>2, QueueQuiet DEF Dispatching
<1>4. \A v \in Workers : /\ Busy(v)' <=> Busy(v)
                         /\ workers'[v].task = workers[v].task
  BY DEF Busy, TypeOK
<1>5. OneExecutor'
  <2>1. \A v \in Workers : Busy(v) => workers[v].task \in TaskIds
    BY DEF TypeOK, WorkerOK, Busy
  <2>2. \A v \in Workers, t \in TaskIds : Carries(v, t)' <=> Carries(v, t)
    BY <1>4 DEF Carries
  <2> QED
    BY <1>2, <1>4, <2>1, <2>2 DEF Dispatching, OneExecutor
<1> QED
  BY <1>2, <1>3, <1>5 DEF Dispatching, IdsInOrder, QueueCovered

\* A goroutine ends, and its task is in progress no longer.
LEMMA GoroutineEnds ==
    ASSUME TypeOK, Dispatching, NEW w \in Workers, Busy(w),
           NEW nt \in SyncTask, nt.status \in {"conflict", "completed"},
           nt.priority = tasks[workers[w].task].priority,
           tasks' = [tasks EXCEPT ![workers[w].task] = nt],
           workers' = [workers EXCEPT ![w] = Idle],
           UNCHANGED <<queue, taskCounter>>, spawned' \in Nat, spawned' >= spawned
    PROVE  Dispatching'
<1> DEFINE t == workers[w].task
<1>1. t \in TaskIds /\ tasks[t].status = "in_progress"
  BY DEF TypeOK, WorkerOK, Busy, Dispatching, OneExecutor
<1>2. \A u \in TaskIds : /\ tasks'[u].priority = tasks[u].priority
                         /\ u # t => tasks'[u].status = tasks[u].status
                         /\ tasks'[t].status \in {"conflict", "completed"}
  BY <1>1 DEF TypeOK
<1>3. QueueInOrder'
  <2>1. \A u \in TaskIds : tasks'[u].status = "queued" <=> tasks[u].status = "queued"
    BY <1>1, <1>2
  <2> QED
    BY <1>2, <2>1, QueueQuiet DEF Dispatching
<1>4. IdsInOrder'
  BY <1>1, <1>2 DEF Dispatching, IdsInOrder
<1>5. QueueCovered'
  BY DEF TypeOK, Dispatching, QueueCovered
<1>6. OneExecutor'
  <2>1. \A v \in Workers : /\ Busy(v)' <=> Busy(v) /\ v # w
                           /\ v # w => workers'[v] = workers[v]
    BY DEF Busy, TypeOK, Idle
  <2>2. \A v \in Workers : Busy(v) => workers[v].task \in TaskIds
    BY DEF TypeOK, WorkerOK, Busy
  <2>3. \A v \in Workers : Busy(v)' => tasks'[workers'[v].task].status = "in_progress"
    <3> SUFFICES ASSUME NEW v \in Workers, Busy(v)'
                 PROVE  tasks'[workers'[v].task].status = "in_progress"
      OBVIOUS
    <3>1. Busy(v) /\ v # w /\ workers'[v] = workers[v]
      BY <2>1
    <3>2. workers[v].task # t
      BY <3>1 DEF Dispatching, OneExecutor
    <3> QED
      BY <1>2, <2>2, <3>1, <3>2 DEF Dispatching, OneExecutor
  <2>4. \A u \in TaskIds : tasks'[u].status = "in_progress" =>
                              \E v \in Workers : Carries(v, u)'
    <3> SUFFICES ASSUME NEW u \in TaskIds, tasks'[u].status = "in_progress"
                 PROVE  \E v \in Workers : Carries(v, u)'
      OBVIOUS
    <3>1. u # t /\ tasks[u].status = "in_progress"
      BY <1>2
    <3>2. PICK v \in Workers : Carries(v, u)
      BY <3>1 DEF Dispatching, OneExecutor
    <3> QED
      BY <2>1, <3>1, <3>2 DEF Carries
  <2>5. \A u, v \in Workers :
          Busy(u)' /\ Busy(v)' /\ workers'[u].task = workers'[v].task => u = v
    BY <2>1 DEF Dispatching, OneExecutor
  <2> QED
    BY <2>3, <2>4, <2>5 DEF OneExecutor
<1> QED
  BY <1>3, <1>4, <1>5, <1>6 DEF Dispatching

\* An idle goroutine takes a task that none carries.
LEMMA GoroutineStarts ==
    ASSUME TypeOK, OneExecutor, NEW w \in Workers, ~Busy(w),
           NEW t \in TaskIds, tasks[t].status # "in_progress",
           NEW nw \in Worker, nw.pc # "idle", nw.task = t,
           NEW nt \in SyncTask, nt.status = "in_progress",
           tasks' = [tasks EXCEPT ![t] = nt],
           workers' = [workers EXCEPT ![w] = nw]
    PROVE  OneExecutor'
<1>1. \A v \in Workers : /\ Busy(v)' <=> Busy(v) \/ v = w
                         /\ v # w => workers'[v] = workers[v]
                         /\ workers'[w].task = t
  BY DEF Busy, TypeOK
<1>2. \A v \in Workers : Busy(v) => workers[v].task \in TaskIds /\ workers[v].task # t
  BY DEF TypeOK, WorkerOK, Busy, OneExecutor
<1>3. \A u \in TaskIds : u # t => tasks'[u] = tasks[u]
  BY DEF TypeOK
<1>4. tasks'[t].status = "in_progress"
  BY DEF TypeOK
<1>5. \A v \in Workers : Busy(v)' => tasks'[workers'[v].task].status = "in_progress"
  BY <1>1, <1>2, <1>3, <1>4 DEF OneExecutor
<1>6. \A u \in TaskIds : tasks'[u].status = "in_progress" =>
                            \E v \in Workers : Carries(v, u)'
  <2> SUFFICES ASSUME NEW u \in TaskIds, tasks'[u].status = "in_progress"
               PROVE  \E v \in Workers : Carries(v, u)'
    OBVIOUS
  <2>1. CASE u = t
    BY <1>1, <2>1 DEF Carries
  <2>2. CASE u # t
    <3>1. PICK v \in Workers : Carries(v, u)
      BY <1>3, <2>2 DEF OneExecutor
    <3> QED
      BY <1>1, <3>1 DEF Carries
  <2> QED
    BY <2>1, <2>2
<1>7. \A u, v \in Workers :
        Busy(u)' /\ Busy(v)' /\ workers'[u].task = workers'[v].task => u = v
  BY <1>1, <1>2 DEF OneExecutor
<1> QED
  BY <1>5, <1>6, <1>7 DEF OneExecutor

\* The new id is behind all those in use, so the new task goes to its place.
LEMMA EnqueueKeepsOrder ==
    ASSUME TypeOK, Dispatching, NEW n \in PriorityInputs, NEW s \in StrategyInputs,
           EnqueueTask(n, s)
    PROVE  Dispatching'
<1> DEFINE t == taskCounter + 1
           p == Default(n, 0, 2)
<1>1. t \in TaskIds /\ tasks[t].status = "none"
  BY BoundsAssumption DEF TypeOK, EnqueueTask, TaskIds, Dispatching, IdsInOrder
<1>2. \A u \in TaskIds : u # t => tasks'[u] = tasks[u]
  BY DEF TypeOK, EnqueueTask
<1>3. tasks'[t].status = "queued" /\ tasks'[t].priority = p
  BY <1>1 DEF TypeOK, EnqueueTask, NoTask
<1>4. p \in Int
  <2>1. n \in 0..3
    BY InputAssumption
  <2> QED
    BY <2>1 DEF Default
<1> HIDE DEF p
<1>5. PICK k \in 1..(Len(queue) + 1) :
        /\ \A i \in 1..(k - 1) : tasks[queue[i]].priority <= p
        /\ \A i \in k..Len(queue) : tasks[queue[i]].priority > p
        /\ queue' = InsertAt(queue, k, t)
  BY DEF EnqueueTask, SortedIn, p
<1>6. /\ queue' \in Seq(TaskIds)
      /\ Len(queue') = Len(queue) + 1
      /\ \A i \in 1..(Len(queue) + 1) :
            queue'[i] = IF i < k THEN queue[i] ELSE IF i = k THEN t ELSE queue[i - 1]
  <2>1. queue \in Seq(TaskIds)
    BY DEF TypeOK
  <2>2. /\ InsertAt(queue, k, t) \in Seq(TaskIds)
        /\ Len(InsertAt(queue, k, t)) = Len(queue) + 1
        /\ \A i \in 1..(Len(queue) + 1) :
              InsertAt(queue, k, t)[i] =
                 IF i < k THEN queue[i] ELSE IF i = k THEN t ELSE queue[i - 1]
    <3>1. t \in TaskIds
      BY <1>1
    <3> HIDE DEF t
    <3> QED
      BY <2>1, <3>1, InsertAtProperties, SMTT(60)
  <2> QED
    BY <1>5, <2>2
<1>7. Len(queue) \in Nat /\ \A i \in 1..Len(queue) :
        queue[i] \in TaskIds /\ queue[i] < t /\ tasks'[queue[i]] = tasks[queue[i]]
  <2>1. \A i \in 1..Len(queue) : queue[i] \in TaskIds
    BY DEF TypeOK
  <2>2. \A i \in 1..Len(queue) : tasks[queue[i]].status = "queued"
    BY <2>1 DEF Dispatching, QueueInOrder
  <2>3. \A i \in 1..Len(queue) : ~(queue[i] > taskCounter)
    BY <2>1, <2>2 DEF Dispatching, IdsInOrder
  <2> QED
    BY <1>2, <2>1, <2>3 DEF TypeOK, TaskIds
<1>8. IdsInOrder'
  <2>1. taskCounter' = t
    BY DEF EnqueueTask
  <2> QED
    BY <1>1, <1>2, <1>3, <2>1, SMTT(60) DEF Dispatching, IdsInOrder, TypeOK, TaskIds
<1>9. \A u \in TaskIds :
        tasks'[u].status = "queued" <=> \E i \in 1..Len(queue') : queue'[i] = u
  <2> SUFFICES ASSUME NEW u \in TaskIds
               PROVE  tasks'[u].status = "queued" <=> \E i \in 1..Len(queue') : queue'[i] = u
    OBVIOUS
  <2>1. CASE u = t
    BY <1>3, <1>6, <1>7, <2>1
  <2>2. CASE u # t
    <3>1. tasks'[u].status = "queued" <=> \E i \in 1..Len(queue) : queue[i] = u
      BY <1>2, <2>2 DEF Dispatching, QueueInOrder
    <3>2. ASSUME NEW i \in 1..Len(queue), queue[i] = u
          PROVE  \E j \in 1..Len(queue') : queue'[j] = u
      <4>1. CASE i < k
        BY <1>6, <1>7, <3>2, <4>1
      <4>2. CASE ~(i < k)
        <5>1. i + 1 \in 1..(Len(queue) + 1) /\ ~(i + 1 < k) /\ i + 1 # k /\ (i + 1) - 1 = i
          BY <1>7, <4>2
        <5>2. queue'[i + 1] = queue[i]
          BY <1>6, <5>1
        <5> QED
          BY <1>6, <3>2, <5>1, <5>2
      <4> QED
        BY <4>1, <4>2
    <3>3. ASSUME NEW j \in 1..Len(queue'), queue'[j] = u
          PROVE  \E i \in 1..Len(queue) : queue[i] = u
      <4>1. j # k
        BY <1>6, <2>2, <3>3
      <4>2. CASE j < k
        BY <1>6, <1>7, <3>3, <4>2
      <4>3. CASE j > k
        <5>1. j - 1 \in 1..Len(queue) /\ queue'[j] = queue[j - 1]
          BY <1>6, <1>7, <4>3
        <5> QED
          BY <3>3, <5>1
      <4> QED
        BY <1>6, <1>7, <4>1, <4>2, <4>3
    <3> QED
      BY <3>1, <3>2, <3>3
  <2> QED
    BY <2>1, <2>2
<1>10. ASSUME NEW i \in 1..Len(queue'), NEW j \in 1..Len(queue'), i < j
       PROVE  \/ tasks'[queue'[i]].priority < tasks'[queue'[j]].priority
              \/ /\ tasks'[queue'[i]].priority = tasks'[queue'[j]].priority
                 /\ queue'[i] < queue'[j]
  <2> DEFINE Bef(a, b) == \/ tasks[a].priority < tasks[b].priority
                          \/ tasks[a].priority = tasks[b].priority /\ a < b
  <2>1. \A a, b \in 1..Len(queue) : a < b => Bef(queue[a], queue[b])
    BY DEF Dispatching, QueueInOrder
  <2>2. \A a \in 1..Len(queue) : tasks[queue[a]].priority \in Int
    <3>1. \A a \in 1..Len(queue) : tasks[queue[a]] \in SyncTask
      BY <1>7 DEF TypeOK
    <3>2. ASSUME NEW task \in SyncTask PROVE task.priority \in Int
      BY DEF SyncTask, Priorities
    <3> QED
      BY <3>1, <3>2
  <2>3. CASE j < k
    <3>1. queue'[i] = queue[i] /\ queue'[j] = queue[j] /\ i \in 1..Len(queue) /\ j \in 1..Len(queue)
      BY <1>6, <1>7, <1>10, <2>3
    <3> QED
      BY <1>7, <1>10, <2>1, <3>1
  <2>4. CASE j = k
    <3>1. queue'[i] = queue[i] /\ queue'[j] = t /\ i \in 1..Len(queue) /\ i \in 1..(k - 1)
      BY <1>6, <1>7, <1>10, <2>4
    <3> QED
      BY <1>3, <1>4, <1>5, <1>7, <2>2, <3>1, SMTT(60)
  <2>5. CASE j > k /\ i < k
    <3>1. /\ queue'[i] = queue[i] /\ queue'[j] = queue[j - 1]
          /\ i \in 1..Len(queue) /\ j - 1 \in 1..Len(queue) /\ i < j - 1
      BY <1>6, <1>7, <1>10, <2>5
    <3>2. Bef(queue[i], queue[j - 1])
      BY <2>1, <3>1
    <3> QED
      BY <1>7, <3>1, <3>2
  <2>6. CASE j > k /\ i = k
    <3>1. queue'[i] = t /\ queue'[j] = queue[j - 1] /\ j - 1 \in 1..Len(queue) /\ j - 1 \in k..Len(queue)
      BY <1>6, <1>7, <1>10, <2>6
    <3> QED
      BY <1>3, <1>4, <1>5, <1>7, <2>2, <3>1
  <2>7. CASE j > k /\ i > k
    <3>1. /\ queue'[i] = queue[i - 1] /\ queue'[j] = queue[j - 1]
          /\ i - 1 \in 1..Len(queue) /\ j - 1 \in 1..Len(queue) /\ i - 1 < j - 1
      BY <1>6, <1>7, <1>10, <2>7
    <3>2. Bef(queue[i - 1], queue[j - 1])
      BY <2>1, <3>1
    <3> QED
      BY <1>7, <3>1, <3>2
  <2> QED
    BY <1>6, <1>7, <2>3, <2>4, <2>5, <2>6, <2>7
<1>11. QueueInOrder'
  BY <1>9, <1>10 DEF QueueInOrder
<1>12. QueueCovered'
  BY <1>6, <1>7 DEF TypeOK, Dispatching, QueueCovered, EnqueueTask
<1>13. OneExecutor'
  <2>1. workers' = workers
    BY DEF EnqueueTask
  <2>2. \A v \in Workers : Busy(v) => workers[v].task \in TaskIds /\ workers[v].task # t
    BY <1>1 DEF TypeOK, WorkerOK, Busy, Dispatching, OneExecutor
  <2>3. \A u \in TaskIds : tasks'[u].status = "in_progress" =>
           \E v \in Workers : Carries(v, u)
    BY <1>2, <1>3 DEF Dispatching, OneExecutor
  <2> QED
    BY <1>2, <2>1, <2>2, <2>3 DEF Dispatching, OneExecutor, Busy, Carries
<1> QED
  BY <1>8, <1>11, <1>12, <1>13 DEF Dispatching

\* The entry that processNextInQueue removes is the head of the queue.
LEMMA FirstQueuedIsHead ==
    ASSUME TypeOK, QueueInOrder
    PROVE  /\ \A i \in 1..Len(queue) : IsFirstQueued(i) <=> i = 1
           /\ \A i \in 1..Len(queue) : queue[i] \in TaskIds /\ tasks[queue[i]].status = "queued"
<1>1. \A i \in 1..Len(queue) : queue[i] \in TaskIds
  BY DEF TypeOK
<1>2. \A i \in 1..Len(queue) : tasks[queue[i]].status = "queued"
  BY <1>1 DEF QueueInOrder
<1>3. Len(queue) \in Nat
  BY DEF TypeOK
<1>4. ASSUME NEW i \in 1..Len(queue)
      PROVE  IsFirstQueued(i) <=> i = 1
  <2>1. i = 1 => IsFirstQueued(i)
    BY <1>2 DEF IsFirstQueued
  <2>2. i # 1 => 1 \in 1..(i - 1) /\ 1 \in 1..Len(queue)
    BY <1>3
  <2> QED
    BY <1>2, <2>1, <2>2 DEF IsFirstQueued
<1> QED
  BY <1>1, <1>2, <1>4

LEMMA DequeueKeepsOrder ==
    ASSUME TypeOK, Dispatching, NEW w \in Workers, ProcessNextInQueue(w)
    PROVE  Dispatching'
<1>1. PICK i \in 1..Len(queue) :
        /\ IsFirstQueued(i)
        /\ queue' = RemoveAt(queue, i)
        /\ tasks' = [tasks EXCEPT ![queue[i]].status = "in_progress"]
        /\ workers' = [workers EXCEPT ![w] =
                         [Idle EXCEPT !.pc = "list", !.task = queue[i]]]
  BY DEF ProcessNextInQueue
<1> DEFINE t  == queue[1]
           nt == [tasks[t] EXCEPT !.status = "in_progress"]
           nw == [Idle EXCEPT !.pc = "list", !.task = t]
<1>2. i = 1 /\ t \in TaskIds /\ tasks[t].status = "queued"
  BY <1>1, FirstQueuedIsHead DEF Dispatching
<1>3. /\ queue' \in Seq(TaskIds)
      /\ Len(queue') = Len(queue) - 1
      /\ \A j \in 1..(Len(queue) - 1) : queue'[j] = queue[j + 1]
  <2>1. queue \in Seq(TaskIds) /\ 1 \in 1..Len(queue)
    BY <1>2 DEF TypeOK
  <2>2. /\ RemoveAt(queue, 1) \in Seq(TaskIds)
        /\ Len(RemoveAt(queue, 1)) = Len(queue) - 1
        /\ \A j \in 1..(Len(queue) - 1) :
              RemoveAt(queue, 1)[j] = IF j < 1 THEN queue[j] ELSE queue[j + 1]
    BY <2>1, RemoveAtProperties
  <2> QED
    BY <1>1, <1>2, <2>2
<1>4. tasks' = [tasks EXCEPT ![t] = nt] /\ workers' = [workers EXCEPT ![w] = nw]
  BY <1>1, <1>2
<1>5. nt \in SyncTask /\ nt.status = "in_progress" /\ nt.priority = tasks[t].priority
  BY <1>2, ZenonT(60) DEF TypeOK, SyncTask, Statuses
<1>6. nw \in Worker /\ nw.pc # "idle" /\ nw.task = t
  BY <1>2, IdleType DEF Worker, Idle
<1>7. ~Busy(w)
  BY DEF ProcessNextInQueue, Busy
<1> HIDE DEF nt, nw
<1>8. OneExecutor'
  BY <1>2, <1>4, <1>5, <1>6, <1>7, GoroutineStarts DEF Dispatching
<1>9. \A u \in TaskIds : /\ tasks'[u].priority = tasks[u].priority
                         /\ u # t => tasks'[u].status = tasks[u].status
  BY <1>2, <1>4, <1>5 DEF TypeOK
<1>10. tasks'[t].status = "in_progress"
  BY <1>2, <1>4, <1>5 DEF TypeOK
<1>11. IdsInOrder'
  BY <1>2, <1>9, <1>10 DEF Dispatching, IdsInOrder, ProcessNextInQueue
<1>12. Len(queue) \in Nat /\ \A j \in 1..Len(queue) : queue[j] \in TaskIds
  BY DEF TypeOK
<1>13. QueueCovered'
  BY <1>3, <1>12 DEF ProcessNextInQueue, Dispatching, QueueCovered, TypeOK
<1>14. \A j \in 1..Len(queue) : j # 1 => queue[j] # t
  <2> SUFFICES ASSUME NEW j \in 1..Len(queue), j # 1
               PROVE  queue[j] # t
    OBVIOUS
  <2>1. 1 \in 1..Len(queue) /\ 1 < j
    BY <1>12
  <2>2. tasks[t].priority \in Int /\ t \in Int
    <3>1. tasks[t] \in SyncTask
      BY <1>2 DEF TypeOK
    <3> QED
      BY <1>2, <3>1 DEF SyncTask, Priorities, TaskIds
  <2> QED
    BY <2>1, <2>2 DEF Dispatching, QueueInOrder
<1>15. QueueInOrder'
  <2>1. ASSUME NEW u \in TaskIds
        PROVE  tasks'[u].status = "queued" <=> \E j \in 1..Len(queue') : queue'[j] = u
    <3>1. CASE u = t
      <4>1. \A j \in 1..Len(queue') : j + 1 \in 1..Len(queue) /\ j + 1 # 1
        BY <1>3, <1>12
      <4> QED
        BY <1>3, <1>10, <1>14, <3>1, <4>1
    <3>2. CASE u # t
      <4>1. tasks'[u].status = "queued" <=> \E j \in 1..Len(queue) : queue[j] = u
        BY <1>9, <3>2 DEF Dispatching, QueueInOrder
      <4>2. ASSUME NEW j \in 1..Len(queue), queue[j] = u
            PROVE  \E h \in 1..Len(queue') : queue'[h] = u
        <5>1. j # 1
          BY <3>2, <4>2
        <5>2. j - 1 \in 1..(Len(queue) - 1) /\ (j - 1) + 1 = j
          BY <1>12, <5>1
        <5> QED
          BY <1>3, <4>2, <5>2
      <4>3. ASSUME NEW h \in 1..Len(queue'), queue'[h] = u
            PROVE  \E j \in 1..Len(queue) : queue[j] = u
        <5>1. h + 1 \in 1..Len(queue) /\ queue'[h] = queue[h + 1]
          BY <1>3, <1>12
        <5> QED
          BY <4>3, <5>1
      <4> QED
        BY <4>1, <4>2, <4>3
    <3> QED
      BY <3>1, <3>2
  <2>2. ASSUME NEW h \in 1..Len(queue'), NEW j \in 1..Len(queue'), h < j
        PROVE  \/ tasks'[queue'[h]].priority < tasks'[queue'[j]].priority
               \/ /\ tasks'[queue'[h]].priority = tasks'[queue'[j]].priority
                  /\ queue'[h] < queue'[j]
    <3>1. /\ h + 1 \in 1..Len(queue) /\ j + 1 \in 1..Len(queue) /\ h + 1 < j + 1
          /\ queue'[h] = queue[h + 1] /\ queue'[j] = queue[j + 1]
      BY <1>3, <1>12, <2>2
    <3>2. \/ tasks[queue[h + 1]].priority < tasks[queue[j + 1]].priority
          \/ /\ tasks[queue[h + 1]].priority = tasks[queue[j + 1]].priority
             /\ queue[h + 1] < queue[j + 1]
      BY <3>1 DEF Dispatching, QueueInOrder
    <3> QED
      BY <1>9, <1>12, <3>1, <3>2
  <2> QED
    BY <2>1, <2>2 DEF QueueInOrder
<1> QED
  BY <1>8, <1>11, <1>13, <1>15 DEF Dispatching

LEMMA DispatchingStep ==
    ASSUME TypeOK, TypeOK', Dispatching, [Next]_vars
    PROVE  Dispatching'
<1>0. /\ workers \in [Workers -> Worker] /\ workers' \in [Workers -> Worker]
      /\ tasks \in [TaskIds -> SyncTask] /\ tasks' \in [TaskIds -> SyncTask]
      /\ \A w \in Workers : Busy(w) => workers[w].task \in TaskIds
  BY DEF TypeOK, WorkerOK, Busy
<1>1. ASSUME NEW n \in PriorityInputs, NEW s \in StrategyInputs, EnqueueTask(n, s)
      PROVE  Dispatching'
  BY <1>1, EnqueueKeepsOrder
<1>2. ASSUME NEW w \in Workers, ProcessNextInQueue(w)
      PROVE  Dispatching'
  BY <1>2, DequeueKeepsOrder
<1>3. CASE ProcessEmptyQueue
  <2>1. Len(queue) = 0
    <3>1. Len(queue) \in Nat
      BY DEF TypeOK
    <3>2. Len(queue) # 0 => 1 \in 1..Len(queue)
      BY <3>1
    <3> QED
      BY <1>3, <3>1, <3>2, FirstQueuedIsHead DEF ProcessEmptyQueue, Dispatching
  <2>2. QueueCovered'
    BY <1>3, <2>1 DEF ProcessEmptyQueue, QueueCovered, TypeOK
  <2> QED
    BY <1>3, <2>2 DEF ProcessEmptyQueue, Dispatching, IdsInOrder, QueueInOrder,
                      OneExecutor, Busy, Carries
<1>4. ASSUME NEW w \in Workers, RunSyncTask(w)
      PROVE  Dispatching'
  <2> DEFINE t == workers[w].task
  <2>1. Busy(w) /\ t \in TaskIds /\ tasks[t].status = "in_progress"
    BY <1>0, <1>4 DEF RunSyncTask, Busy, Dispatching, OneExecutor
  <2>2. PICK local \in ListFiles, remote \in ListFiles :
          LET diffs == CalculateDiff(local, remote, tasks[t].strategy)
          IN  /\ tasks' = [tasks EXCEPT ![t] = Listed(@, diffs)]
              /\ workers' = [workers EXCEPT ![w] =
                    IF HasConflict(diffs) THEN Idle
                    ELSE [@ EXCEPT !.pc = "exec", !.todo = ItemPaths(diffs)]]
    BY <1>4 DEF RunSyncTask
  <2> DEFINE diffs == CalculateDiff(local, remote, tasks[t].strategy)
             nt    == Listed(tasks[t], diffs)
             nw    == [workers[w] EXCEPT !.pc = "exec", !.todo = ItemPaths(diffs)]
  <2>3. tasks' = [tasks EXCEPT ![t] = nt]
    BY <2>2
  <2>4. workers' = [workers EXCEPT ![w] = IF HasConflict(diffs) THEN Idle ELSE nw]
    BY <1>0, <2>2
  <2> HIDE DEF diffs
  <2>5. nt \in SyncTask
    BY <1>0, <2>1, <2>3
  <2>6. nt.priority = tasks[t].priority
        /\ nt.status = IF HasConflict(diffs) THEN "conflict" ELSE "in_progress"
    BY <1>0, <2>1 DEF Listed, SyncTask
  <2>7. UNCHANGED <<queue, spawned, taskCounter>> /\ spawned' \in Nat /\ spawned' >= spawned
    BY <1>4 DEF RunSyncTask, TypeOK
  <2> HIDE DEF nt
  <2>8. CASE HasConflict(diffs)
    BY <2>1, <2>3, <2>4, <2>5, <2>6, <2>7, <2>8, GoroutineEnds
  <2>9. CASE ~HasConflict(diffs)
    <3>1. workers' = [workers EXCEPT ![w] = nw]
      BY <2>4, <2>9
    <3>2. nw.pc # "idle" /\ nw.task = t
      BY <1>0 DEF Worker
    <3>3. nw \in Worker
      BY <1>0, <3>1
    <3> HIDE DEF nw
    <3> QED
      BY <2>1, <2>3, <2>5, <2>6, <2>7, <2>9, <3>1, <3>2, <3>3, GoroutineGoesOn
  <2> QED
    BY <2>8, <2>9
<1>5. ASSUME NEW w \in Workers, NEW p \in Paths, ExecInSync(w, p) \/ CountItem(w, p)
      PROVE  Dispatching'
  <2> DEFINE t  == workers[w].task
             nt == Counted(tasks[t])
             nw == Advanced(workers[w], p)
  <2>1. Busy(w) /\ t \in TaskIds
    BY <1>0, <1>5 DEF ExecInSync, CountItem, Busy
  <2>2. tasks' = [tasks EXCEPT ![t] = nt] /\ workers' = [workers EXCEPT ![w] = nw]
        /\ UNCHANGED <<queue, spawned, taskCounter>>
    BY <1>5 DEF ExecInSync, CountItem
  <2>3. nt \in SyncTask /\ nt.status = tasks[t].status /\ nt.priority = tasks[t].priority
    BY <1>0, <2>1, CountedType DEF Counted, SyncTask
  <2>4. nw \in Worker /\ nw.pc # "idle" /\ nw.task = t
    <3>1. nw \in Worker
      BY <1>0, <2>2
    <3> QED
      BY <1>0, <3>1 DEF Advanced, Worker
  <2> HIDE DEF nt, nw
  <2> QED
    BY <2>1, <2>2, <2>3, <2>4, GoroutineGoesOn
<1>6. ASSUME NEW w \in Workers, NEW p \in Paths, ExecTransfer(w, p)
      PROVE  Dispatching'
  <2> DEFINE t  == workers[w].task
             nw == [workers[w] EXCEPT !.pc = "wait", !.job = Len(jobs) + 1]
  <2>1. Busy(w) /\ t \in TaskIds
    BY <1>0, <1>6 DEF ExecTransfer, Busy
  <2>2. tasks' = [tasks EXCEPT ![t] = tasks[t]] /\ workers' = [workers EXCEPT ![w] = nw]
        /\ UNCHANGED <<queue, spawned, taskCounter>>
    BY <1>0, <1>6 DEF ExecTransfer
  <2>3. nw \in Worker
    BY <1>0, <2>2
  <2>4. nw.pc # "idle" /\ nw.task = t
    BY <1>0 DEF Worker
  <2> HIDE DEF nw
  <2> QED
    BY <1>0, <2>1, <2>2, <2>3, <2>4, GoroutineGoesOn
<1>7. ASSUME NEW w \in Workers, PollSettled(w)
      PROVE  Dispatching'
  <2> DEFINE t  == workers[w].task
             nt == [tasks[t] EXCEPT !.bytes = tasks[t].bytes + jobs[workers[w].job].bytes]
             nw == [workers[w] EXCEPT !.pc = "count"]
  <2>1. Busy(w) /\ t \in TaskIds
    BY <1>0, <1>7 DEF PollSettled, Busy
  <2>2. tasks' = [tasks EXCEPT ![t] = nt] /\ workers' = [workers EXCEPT ![w] = nw]
        /\ UNCHANGED <<queue, spawned, taskCounter>>
    BY <1>0, <1>7, <2>1 DEF PollSettled, SyncTask
  <2>3. nt \in SyncTask /\ nw \in Worker
    BY <1>0, <2>1, <2>2
  <2>4. nt.status = tasks[t].status /\ nt.priority = tasks[t].priority
    BY <1>0, <2>1 DEF SyncTask
  <2>5. nw.pc # "idle" /\ nw.task = t
    BY <1>0 DEF Worker
  <2> HIDE DEF nt, nw
  <2> QED
    BY <2>1, <2>2, <2>3, <2>4, <2>5, GoroutineGoesOn
<1>8. ASSUME NEW w \in Workers, PollPending(w)
      PROVE  Dispatching'
  <2> DEFINE t  == workers[w].task
             nw == Polled(workers[w])
  <2>1. Busy(w) /\ t \in TaskIds
    BY <1>0, <1>8 DEF PollPending, Busy
  <2>2. tasks' = [tasks EXCEPT ![t] = tasks[t]] /\ workers' = [workers EXCEPT ![w] = nw]
        /\ UNCHANGED <<queue, spawned, taskCounter>>
    BY <1>0, <1>8 DEF PollPending
  <2>3. nw \in Worker
    BY <1>0, <2>2
  <2>4. nw.pc # "idle" /\ nw.task = t
    BY <1>0 DEF Worker, Polled
  <2> HIDE DEF nw
  <2> QED
    BY <1>0, <2>1, <2>2, <2>3, <2>4, GoroutineGoesOn
<1>9. ASSUME NEW w \in Workers, FinishTask(w)
      PROVE  Dispatching'
  <2> DEFINE t  == workers[w].task
             nt == Completed(tasks[t])
  <2>1. Busy(w) /\ t \in TaskIds
    BY <1>0, <1>9 DEF FinishTask, Busy
  <2>2. tasks' = [tasks EXCEPT ![t] = nt] /\ workers' = [workers EXCEPT ![w] = Idle]
        /\ UNCHANGED <<queue, taskCounter>> /\ spawned' \in Nat /\ spawned' >= spawned
    BY <1>9 DEF FinishTask, TypeOK
  <2>3. nt \in SyncTask /\ nt.status = "completed" /\ nt.priority = tasks[t].priority
    BY <1>0, <2>1, CompletedType, ZenonT(60) DEF Completed, SyncTask
  <2> HIDE DEF nt
  <2> QED
    BY <2>1, <2>2, <2>3, GoroutineEnds
<1>10. ASSUME NEW t \in TaskIds, NEW p \in Paths, NEW c \in UserChoices,
              NEW w \in Workers, ResolveConflict(t, p, c, w)
       PROVE  Dispatching'
  <2> DEFINE diffs == [tasks[t].diffs EXCEPT ![p] = Resolve(@, c)]
             nt    == Decided(tasks[t], diffs)
             nw    == [Idle EXCEPT !.pc = "exec", !.task = t, !.todo = ItemPaths(diffs)]
  <2>1. tasks' = [tasks EXCEPT ![t] = nt]
    BY <1>10 DEF ResolveConflict
  <2>2. workers' = IF Resumes(tasks[t], diffs) THEN [workers EXCEPT ![w] = nw] ELSE workers
    BY <1>10 DEF ResolveConflict
  <2>3. UNCHANGED <<queue, spawned, taskCounter>> /\ ~Busy(w)
    BY <1>10 DEF ResolveConflict, Busy
  <2> HIDE DEF diffs
  <2>4. nt \in SyncTask
    BY <1>0, <2>1
  <2>5. nt.priority = tasks[t].priority
        /\ nt.status = IF Resumes(tasks[t], diffs) THEN "in_progress" ELSE tasks[t].status
    BY <1>0 DEF Decided, SyncTask
  <2> HIDE DEF nt
  <2>6. CASE Resumes(tasks[t], diffs)
    <3>1. tasks[t].status = "conflict"
      BY <2>6 DEF Resumes
    <3>2. workers' = [workers EXCEPT ![w] = nw]
      BY <2>2, <2>6
    <3>3. nw.pc # "idle" /\ nw.task = t
      BY DEF Idle
    <3>4. nw \in Worker
      BY <1>0, <3>2
    <3> HIDE DEF nw
    <3>5. OneExecutor'
      BY <2>1, <2>3, <2>4, <2>5, <2>6, <3>1, <3>2, <3>3, <3>4, GoroutineStarts DEF Dispatching
    <3>6. \A u \in TaskIds : /\ tasks'[u].priority = tasks[u].priority
                             /\ u # t => tasks'[u].status = tasks[u].status
      BY <1>0, <2>1, <2>5
    <3>7. tasks'[t].status = "in_progress"
      BY <1>0, <2>1, <2>5, <2>6
    <3>8. QueueInOrder' /\ IdsInOrder'
      <4>1. \A u \in TaskIds : tasks'[u].status = "queued" <=> tasks[u].status = "queued"
        BY <3>1, <3>6, <3>7
      <4>2. \A u \in TaskIds : tasks'[u].status = "none" <=> tasks[u].status = "none"
        BY <3>1, <3>6, <3>7
      <4>3. QueueInOrder'
        BY <2>3, <3>6, <4>1, QueueQuiet DEF Dispatching
      <4> QED
        BY <2>3, <4>2, <4>3 DEF Dispatching, IdsInOrder
    <3> QED
      BY <2>3, <3>5, <3>8 DEF Dispatching, QueueCovered
  <2>7. CASE ~Resumes(tasks[t], diffs)
    <3>1. \A u \in TaskIds : /\ tasks'[u].priority = tasks[u].priority
                             /\ tasks'[u].status = tasks[u].status
      BY <1>0, <2>1, <2>5, <2>7
    <3>2. workers' = workers
      BY <2>2, <2>7
    <3>3. QueueInOrder'
      BY <2>3, <3>1, QueueQuiet DEF Dispatching
    <3>4. OneExecutor'
      BY <1>0, <3>1, <3>2 DEF Dispatching, OneExecutor, Busy, Carries
    <3> QED
      BY <2>3, <3>1, <3>3, <3>4 DEF Dispatching, IdsInOrder, QueueCovered
  <2> QED
    BY <2>6, <2>7
<1>11. CASE JobSettles
  BY <1>11 DEF JobSettles, Dispatching, IdsInOrder, QueueInOrder, QueueCovered,
               OneExecutor, Busy, Carries
<1>12. CASE UNCHANGED vars
  BY <1>12 DEF vars, Dispatching, IdsInOrder, QueueInOrder, QueueCovered,
               OneExecutor, Busy, Carries
<1> QED
  BY <1>1, <1>2, <1>3, <1>4, <1>5, <1>6, <1>7, <1>8, <1>9, <1>10, <1>11, <1>12
     DEF Next, Caller, Dispatch, WorkerStep

LEMMA DispatchingInit == Init => Dispatching
<1> SUFFICES ASSUME Init PROVE Dispatching
  OBVIOUS
<1>1. \A t \in TaskIds : tasks[t].status = "none" /\ t > taskCounter
  BY BoundsAssumption DEF Init, NoTask, TaskIds
<1>2. \A w \in Workers : ~Busy(w)
  BY DEF Init, Busy, Idle
<1> QED
  BY <1>1, <1>2 DEF Init, Dispatching, IdsInOrder, QueueInOrder, QueueCovered,
                    OneExecutor, Carries

\* The queue, the goroutines to come and the executors are right in every
\* reachable state.
THEOREM DispatchingCorrect == Spec => []Dispatching
<1>1. Init => Dispatching
  BY DispatchingInit
<1>2. TypeOK /\ TypeOK' /\ Dispatching /\ [Next]_vars => Dispatching'
  BY DispatchingStep
<1> QED
  BY <1>1, <1>2, TypeCorrect, PTL DEF Spec

\* e.queue always holds exactly the queued tasks, most urgent first and in
\* the order of their ids among equals, however many tasks there are.
THEOREM QueueAlwaysInOrder == Spec => []QueueInOrder
<1>1. Dispatching => QueueInOrder
  BY DEF Dispatching
<1> QED
  BY <1>1, DispatchingCorrect, PTL

\* No task is ever left in the queue without a goroutine coming for it,
\* although a task that ends in a conflict wakes nobody.
THEOREM NoLostWakeup == Spec => []QueueCovered
<1>1. Dispatching => QueueCovered
  BY DEF Dispatching
<1> QED
  BY <1>1, DispatchingCorrect, PTL

\* No two goroutines ever carry the same task, and a task is in progress
\* exactly while one does, whatever callers of ResolveConflict do.
THEOREM NeverTwoExecutors == Spec => []OneExecutor
<1>1. Dispatching => OneExecutor
  BY DEF Dispatching
<1> QED
  BY <1>1, DispatchingCorrect, PTL

-----------------------------------------------------------------------------
(***************************************************************************)
(* The second layer of the safety argument for SyncEngine: what a task's    *)
(* record says about its items, its conflicts and its progress.  Books is   *)
(* the inductive invariant, stated record by record: a record is right by   *)
(* itself (RecordOK), a goroutine agrees with the record of the task it     *)
(* carries (PairOK), and a job belongs to a task that was released to the   *)
(* bridge (JobsOK).  OneExecutor makes the split work: a step of one        *)
(* goroutine disturbs one record, and no other goroutine carries it.        *)
(***************************************************************************)

RecordOK(task) ==
    /\ task.status \in {"none", "queued"} => task.diffs = NoDiffs
    /\ task.status \in {"none", "queued", "conflict"} =>
          task.processed = 0 /\ task.percentage = 0
    /\ \A p \in Paths : task.diffs[p].conflict <=> task.diffs[p].action = "conflict"
    /\ task.status = "conflict" <=> HasConflict(task.diffs)
    /\ task.total = Cardinality(ItemPaths(task.diffs))
    /\ task.status = "completed" => task.processed = task.total
    /\ task.percentage >= 100 => task.processed = task.total
    /\ task.status = "none" => task.bytes = 0
    /\ task.percentage <= 100
    /\ task.status # "completed" /\ task.total > 0 =>
          task.percentage = Percent(task.processed, task.total)

InExec(worker) == worker.pc \in {"exec", "wait", "count"}

PairOK(worker, task) ==
    /\ worker.pc = "list" =>
          task.diffs = NoDiffs /\ task.processed = 0 /\ task.percentage = 0
    /\ InExec(worker) => task.processed + Cardinality(worker.todo) = task.total

\* In task map ts and goroutines ws, t has been released to the bridge.
Released(t, ts, ws) == \/ ts[t].status = "completed"
                       \/ \E w \in Workers : InExec(ws[w]) /\ ws[w].task = t

JobsOK == \A i \in DOMAIN jobs : Released(jobs[i].req.task, tasks, workers)

Books ==
    /\ \A t \in TaskIds : RecordOK(tasks[t])
    /\ \A w \in Workers : Busy(w) => PairOK(workers[w], tasks[workers[w].task])
    /\ JobsOK

-----------------------------------------------------------------------------

LEMMA JobTask ==
    ASSUME TypeOK
    PROVE  \A i \in DOMAIN jobs : jobs[i] \in Bridge!Job /\ jobs[i].req.task \in TaskIds
<1>1. \A i \in DOMAIN jobs : jobs[i] \in Bridge!Job
  BY DEF TypeOK, Bridge!JobTypeOK
<1> QED
  BY <1>1 DEF Bridge!Job, TransferRequest

\* A step of goroutine w that changes the record of task t, which no other
\* goroutine carries, and hands to the bridge at most a job of t.
LEMMA OneRecordChanges ==
    ASSUME TypeOK, Dispatching, Books, NEW w \in Workers, NEW t \in TaskIds,
           tasks[t].status # "completed",
           \A v \in Workers : Carries(v, t) => v = w,
           Busy(w) => workers[w].task = t,
           NEW nt \in SyncTask, RecordOK(nt), tasks' = [tasks EXCEPT ![t] = nt],
           NEW nw \in Worker, workers' = [workers EXCEPT ![w] = nw],
           nw.pc # "idle" => nw.task = t /\ PairOK(nw, nt),
           Executing(w) => InExec(nw) \/ nt.status = "completed",
           \A i \in DOMAIN jobs' :
              \/ i \in DOMAIN jobs /\ jobs'[i].req = jobs[i].req
              \/ jobs'[i].req.task = t /\ InExec(nw)
    PROVE  Books'
<1>1. \A u \in TaskIds : tasks'[u] = IF u = t THEN nt ELSE tasks[u]
  BY DEF TypeOK
<1>2. \A v \in Workers : workers'[v] = IF v = w THEN nw ELSE workers[v]
  BY DEF TypeOK
<1>3. \A v \in Workers : Busy(v) => workers[v].task \in TaskIds
  BY DEF TypeOK, WorkerOK, Busy
<1>4. \A u \in TaskIds : RecordOK(tasks'[u])
  BY <1>1 DEF Books
<1>5. ASSUME NEW v \in Workers, Busy(v)'
      PROVE  PairOK(workers'[v], tasks'[workers'[v].task])
  <2>1. CASE v = w
    BY <1>1, <1>2, <1>5, <2>1 DEF Busy
  <2>2. CASE v # w
    <3>1. Busy(v) /\ workers'[v] = workers[v]
      BY <1>2, <1>5, <2>2 DEF Busy
    <3>2. workers[v].task # t
      BY <2>2, <3>1 DEF Carries
    <3> QED
      BY <1>1, <1>3, <3>1, <3>2 DEF Books
  <2> QED
    BY <2>1, <2>2
<1>6. ASSUME NEW u \in TaskIds, u # t, Released(u, tasks, workers)
      PROVE  Released(u, tasks', workers')
  <2>1. CASE tasks[u].status = "completed"
    BY <1>1, <1>6, <2>1 DEF Released
  <2>2. ASSUME NEW v \in Workers, InExec(workers[v]), workers[v].task = u
        PROVE  Released(u, tasks', workers')
    <3>1. v # w
      BY <1>6, <2>2 DEF Busy, InExec
    <3>2. workers'[v] = workers[v]
      BY <1>2, <3>1
    <3> QED
      BY <2>2, <3>2 DEF Released
  <2> QED
    BY <1>6, <2>1, <2>2 DEF Released
<1>7. InExec(nw) => Released(t, tasks', workers')
  <2> SUFFICES ASSUME InExec(nw) PROVE Released(t, tasks', workers')
    OBVIOUS
  <2>1. nw.task = t
    BY DEF InExec
  <2> QED
    BY <1>2, <2>1 DEF Released
<1>8. Released(t, tasks, workers) => Released(t, tasks', workers')
  <2> SUFFICES ASSUME Released(t, tasks, workers) PROVE Released(t, tasks', workers')
    OBVIOUS
  <2>1. Executing(w)
    <3>1. PICK v \in Workers : InExec(workers[v]) /\ workers[v].task = t
      BY DEF Released
    <3>2. Carries(v, t)
      BY <3>1 DEF Carries, Busy, InExec
    <3> QED
      BY <3>1, <3>2 DEF Executing, InExec
  <2>2. CASE InExec(nw)
    BY <1>7, <2>2
  <2>3. CASE nt.status = "completed"
    BY <1>1, <2>3 DEF Released
  <2> QED
    BY <2>1, <2>2, <2>3
<1>9. JobsOK'
  <2>1. ASSUME NEW i \in DOMAIN jobs'
        PROVE  Released(jobs'[i].req.task, tasks', workers')
    <3>1. CASE i \in DOMAIN jobs /\ jobs'[i].req = jobs[i].req
      <4>1. jobs[i].req.task \in TaskIds /\ Released(jobs[i].req.task, tasks, workers)
        BY <3>1, JobTask DEF Books, JobsOK
      <4> QED
        BY <1>6, <1>8, <3>1, <4>1
    <3>2. CASE jobs'[i].req.task = t /\ InExec(nw)
      BY <1>7, <3>2
    <3> QED
      BY <3>1, <3>2
  <2> QED
    BY <2>1 DEF JobsOK, Released, InExec
<1> QED
  BY <1>4, <1>5, <1>9 DEF Books, Busy, PairOK, RecordOK

-----------------------------------------------------------------------------
(* What the changes of one record keep                                      *)

LEMMA TodoFinite ==
    ASSUME NEW worker \in Worker
    PROVE  IsFiniteSet(worker.todo) /\ Cardinality(worker.todo) \in Nat
  BY PathsAssumption, FS_Subset, FS_CardinalityType DEF Worker

LEMMA NoDiffsOK ==
    /\ ~HasConflict(NoDiffs)
    /\ Cardinality(ItemPaths(NoDiffs)) = 0
    /\ \A p \in Paths : NoDiffs[p].conflict <=> NoDiffs[p].action = "conflict"
<1>1. \A p \in Paths : ~NoDiffs[p].conflict /\ NoDiffs[p].action = "none"
  BY DEF NoDiffs
<1> QED
  BY <1>1, NoDiffsType, FS_EmptySet

\* The percentage reaches 100 only with the last item.
LEMMA PercentBelow ==
    ASSUME NEW n \in Nat, NEW total \in Nat, n < total
    PROVE  Percent(n, total) < 100
  BY DEF Percent

LEMMA PercentEnds ==
    ASSUME NEW total \in Nat \ {0}
    PROVE  Percent(0, total) = 0 /\ Percent(total, total) = 100
  BY DEF Percent

LEMMA PercentRises ==
    ASSUME NEW n \in Nat, NEW total \in Nat \ {0}
    PROVE  Percent(n, total) <= Percent(n + 1, total)
  BY DEF Percent

\* Counting an item and leaving it behind keep the sum.
LEMMA CountingKeepsBooks ==
    ASSUME NEW task \in SyncTask, NEW worker \in Worker, NEW p \in worker.todo,
           RecordOK(task), InExec(worker), PairOK(worker, task),
           task.status = "in_progress"
    PROVE  /\ RecordOK(Counted(task))
           /\ PairOK(Advanced(worker, p), Counted(task))
           /\ InExec(Advanced(worker, p))
<1> DEFINE c == Counted(task)
           a == Advanced(worker, p)
           r == worker.todo \ {p}
           n == task.processed + 1
<1>1. Cardinality(r) \in Nat /\ Cardinality(r) = Cardinality(worker.todo) - 1
  <2>1. IsFiniteSet(worker.todo) /\ Cardinality(worker.todo) \in Nat
    BY TodoFinite
  <2>2. IsFiniteSet(r) /\ Cardinality(r) = Cardinality(worker.todo) - 1
    BY <2>1, FS_RemoveElement
  <2> QED
    BY <2>2, FS_CardinalityType
<1>2. n \in Nat \ {0} /\ task.total \in Nat /\ n + Cardinality(r) = task.total
  <2>1. Cardinality(worker.todo) \in Nat
    BY TodoFinite
  <2> QED
    BY <1>1, <2>1 DEF PairOK, SyncTask
<1>3. a.pc = "exec" /\ a.todo = r
  BY DEF Advanced, Worker
<1>4. /\ c.status = "in_progress" /\ c.diffs = task.diffs /\ c.total = task.total
      /\ c.processed = n /\ c.percentage = Percent(n, task.total)
  BY <1>1, <1>2 DEF Counted, SyncTask
<1> HIDE DEF c, a, r
<1>5. c.percentage >= 100 => c.processed = c.total
  <2>1. n < task.total => Percent(n, task.total) < 100
    BY <1>2, PercentBelow
  <2>2. Percent(n, task.total) \in Nat
    <3>1. task.total > 0
      BY <1>1, <1>2
    <3> QED
      BY <1>2, <3>1, PercentType
  <2>3. ~(n < task.total) => n = task.total
    BY <1>1, <1>2
  <2>4. n < task.total => ~(Percent(n, task.total) >= 100)
    BY <2>1, <2>2
  <2> HIDE DEF n
  <2> QED
    BY <1>4, <2>3, <2>4
<1>6. RecordOK(c)
  <2>1. Percent(n, task.total) <= 100
    <3>1. n < task.total => Percent(n, task.total) < 100
      BY <1>2, PercentBelow
    <3>2. n = task.total => Percent(n, task.total) = 100
      BY <1>2, PercentEnds
    <3>3. n < task.total \/ n = task.total
      BY <1>1, <1>2
    <3>4. Percent(n, task.total) \in Nat
      BY <1>2, <3>3, PercentType
    <3> HIDE DEF n
    <3> QED
      BY <3>1, <3>2, <3>3, <3>4
  <2> HIDE DEF n
  <2> QED
    BY <1>4, <1>5, <2>1 DEF RecordOK
<1>7. PairOK(a, c) /\ InExec(a)
  BY <1>2, <1>3, <1>4 DEF PairOK, InExec
<1> QED
  BY <1>6, <1>7 DEF c, a

\* Storing the diff of two listings.
LEMMA ListingKeepsBooks ==
    ASSUME NEW task \in SyncTask, RecordOK(task), task.status = "in_progress",
           task.processed = 0, task.percentage = 0, NEW diffs \in Diffs,
           \A p \in Paths : diffs[p].conflict <=> diffs[p].action = "conflict"
    PROVE  RecordOK(Listed(task, diffs))
<1> DEFINE l == Listed(task, diffs)
<1>1. /\ l.status = IF HasConflict(diffs) THEN "conflict" ELSE "in_progress"
      /\ l.diffs = diffs /\ l.total = Cardinality(ItemPaths(diffs))
      /\ l.processed = 0 /\ l.percentage = 0
  BY DEF Listed, SyncTask
<1>2. l.total > 0 => Percent(0, l.total) = 0
  BY <1>1, ItemPathsFinite, PercentEnds
<1> HIDE DEF l
<1> QED
  BY <1>1, <1>2 DEF RecordOK, l

\* Deciding an item of a held task: the items stay the same, the decided one
\* conflicts no longer, and the task is held exactly while another does.
LEMMA DecidingKeepsBooks ==
    ASSUME NEW task \in SyncTask, RecordOK(task), NEW p \in Paths, NEW c \in UserChoices,
           task.diffs[p].conflict, NEW diffs,
           diffs = [task.diffs EXCEPT ![p] = Resolve(@, c)]
    PROVE  /\ task.status = "conflict"
           /\ RecordOK(Decided(task, diffs))
           /\ ItemPaths(diffs) = ItemPaths(task.diffs)
<1> DEFINE d == Decided(task, diffs)
<1>1. task.status = "conflict" /\ task.processed = 0 /\ task.percentage = 0
  BY DEF RecordOK, HasConflict
<1>2. task.diffs \in Diffs /\ task.diffs[p] \in DiffItem
  BY DEF SyncTask, Diffs
<1>3. \A q \in Paths : q # p => diffs[q] = task.diffs[q]
  BY <1>2 DEF Diffs
<1>4. ~diffs[p].conflict /\ diffs[p].action \in Transfers \cup {"in_sync"}
  <2>1. diffs[p] = Resolve(task.diffs[p], c)
    BY <1>2 DEF Diffs
  <2> QED
    BY <1>2, <2>1, ResolveType
<1>5. task.diffs[p].action = "conflict"
  BY DEF RecordOK
<1>6. ItemPaths(diffs) = ItemPaths(task.diffs)
  BY <1>3, <1>4, <1>5 DEF ItemPaths, Transfers, Uploads, Downloads
<1>7. \A q \in Paths : diffs[q].conflict <=> diffs[q].action = "conflict"
  BY <1>3, <1>4 DEF RecordOK, Transfers, Uploads, Downloads
<1>8. /\ d.status = IF HasConflict(diffs) THEN "conflict" ELSE "in_progress"
      /\ d.diffs = diffs /\ d.total = task.total
      /\ d.processed = 0 /\ d.percentage = 0
  BY <1>1 DEF Decided, Resumes, SyncTask
<1> HIDE DEF d
<1>9. RecordOK(d)
  <2>1. task.total = Cardinality(ItemPaths(task.diffs))
    BY DEF RecordOK
  <2>2. task.total > 0 => Percent(0, task.total) = 0
    BY <1>1 DEF RecordOK
  <2> QED
    BY <1>6, <1>7, <1>8, <2>1, <2>2 DEF RecordOK
<1> QED
  BY <1>1, <1>6, <1>9 DEF d

-----------------------------------------------------------------------------
(* The induction                                                            *)

\* What the first layer says about the task of a busy goroutine.
LEMMA CarriedTask ==
    ASSUME TypeOK, Dispatching, NEW w \in Workers, Busy(w)
    PROVE  /\ workers[w].task \in TaskIds
           /\ tasks[workers[w].task] \in SyncTask
           /\ workers[w] \in Worker
           /\ tasks[workers[w].task].status = "in_progress"
           /\ \A v \in Workers : Carries(v, workers[w].task) => v = w
<1>1. workers[w].task \in TaskIds
  BY DEF TypeOK, WorkerOK, Busy
<1> QED
  BY <1>1 DEF TypeOK, Dispatching, OneExecutor, Carries

\* A step of a caller on a task that no goroutine carries.
LEMMA UncarriedRecordChanges ==
    ASSUME TypeOK, Dispatching, Books, NEW t \in TaskIds,
           tasks[t].status \notin {"in_progress", "completed"},
           NEW nt \in SyncTask, RecordOK(nt), tasks' = [tasks EXCEPT ![t] = nt],
           UNCHANGED <<workers, jobs>>
    PROVE  Books'
<1>1. \A u \in TaskIds : tasks'[u] = IF u = t THEN nt ELSE tasks[u]
  BY DEF TypeOK
<1>2. \A v \in Workers : Busy(v) => workers[v].task \in TaskIds /\ workers[v].task # t
  BY DEF TypeOK, WorkerOK, Busy, Dispatching, OneExecutor
<1>3. \A u \in TaskIds : RecordOK(tasks'[u])
  BY <1>1 DEF Books
<1>4. \A v \in Workers : Busy(v)' => PairOK(workers'[v], tasks'[workers'[v].task])
  <2> SUFFICES ASSUME NEW v \in Workers, Busy(v)'
               PROVE  PairOK(workers'[v], tasks'[workers'[v].task])
    OBVIOUS
  <2>1. Busy(v)
    BY DEF Busy
  <2> QED
    BY <1>1, <1>2, <2>1 DEF Books
<1>5. ASSUME NEW i \in DOMAIN jobs'
      PROVE  Released(jobs'[i].req.task, tasks', workers')
  <2> DEFINE u == jobs[i].req.task
  <2>1. u \in TaskIds /\ Released(u, tasks, workers)
    BY JobTask DEF Books, JobsOK
  <2>2. u # t
    BY <1>2, <2>1 DEF Released, InExec, Busy
  <2>3. tasks'[u] = tasks[u]
    BY <1>1, <2>1, <2>2
  <2> QED
    BY <2>1, <2>3 DEF Released
<1> QED
  BY <1>3, <1>4, <1>5 DEF Books, Busy, PairOK, RecordOK, JobsOK, Released, InExec

LEMMA BooksStep ==
    ASSUME TypeOK, TypeOK', Dispatching, Books, [Next]_vars
    PROVE  Books'
<1>0. /\ workers \in [Workers -> Worker] /\ workers' \in [Workers -> Worker]
      /\ tasks \in [TaskIds -> SyncTask] /\ tasks' \in [TaskIds -> SyncTask]
  BY DEF TypeOK
<1>1. ASSUME NEW n \in PriorityInputs, NEW s \in StrategyInputs, EnqueueTask(n, s)
      PROVE  Books'
  <2> DEFINE t  == taskCounter + 1
             pr == Default(n, 0, 2)
             st == Default(s, "", NewestWins)
             nt == [NoTask EXCEPT !.status = "queued", !.priority = pr, !.strategy = st]
  <2>1. t \in TaskIds /\ tasks[t].status = "none"
    BY <1>1, BoundsAssumption DEF TypeOK, EnqueueTask, TaskIds, Dispatching, IdsInOrder
  <2>2. tasks' = [tasks EXCEPT ![t] = nt] /\ UNCHANGED <<workers, jobs>>
    BY <1>1 DEF EnqueueTask
  <2> HIDE DEF pr, st
  <2>3. nt \in SyncTask
    BY <1>0, <2>1, <2>2
  <2>4. /\ nt.status = "queued" /\ nt.diffs = NoDiffs
        /\ nt.total = 0 /\ nt.processed = 0 /\ nt.percentage = 0
    BY DEF NoTask
  <2> HIDE DEF nt, t
  <2>5. RecordOK(nt)
    BY <2>4, NoDiffsOK DEF RecordOK
  <2> QED
    BY <2>1, <2>2, <2>3, <2>5, UncarriedRecordChanges
<1>2. ASSUME NEW w \in Workers, ProcessNextInQueue(w)
      PROVE  Books'
  <2>1. PICK i \in 1..Len(queue) :
          /\ IsFirstQueued(i)
          /\ tasks' = [tasks EXCEPT ![queue[i]].status = "in_progress"]
          /\ workers' = [workers EXCEPT ![w] =
                           [Idle EXCEPT !.pc = "list", !.task = queue[i]]]
    BY <1>2 DEF ProcessNextInQueue
  <2> DEFINE t  == queue[i]
             nt == [tasks[t] EXCEPT !.status = "in_progress"]
             nw == [Idle EXCEPT !.pc = "list", !.task = t]
  <2>2. t \in TaskIds /\ tasks[t].status = "queued" /\ tasks[t] \in SyncTask
    BY <2>1 DEF TypeOK, IsFirstQueued
  <2>3. tasks' = [tasks EXCEPT ![t] = nt] /\ workers' = [workers EXCEPT ![w] = nw]
    BY <2>1
  <2>4. nt \in SyncTask /\ nw \in Worker
    BY <1>0, <2>2, <2>3
  <2>5. /\ nt.status = "in_progress" /\ nt.diffs = tasks[t].diffs /\ nt.total = tasks[t].total
        /\ nt.processed = tasks[t].processed /\ nt.percentage = tasks[t].percentage
    BY <2>2 DEF SyncTask
  <2>6. nw.pc = "list" /\ nw.task = t
    BY DEF Idle
  <2>7. RecordOK(tasks[t])
    BY <2>2 DEF Books
  <2>8. ~Busy(w) /\ jobs' = jobs
    BY <1>2 DEF ProcessNextInQueue, Busy
  <2>9. \A v \in Workers : Carries(v, t) => v = w
    BY <2>2 DEF Carries, Dispatching, OneExecutor
  <2> HIDE DEF nt, nw, t
  <2>10. RecordOK(nt) /\ PairOK(nw, nt)
    BY <2>2, <2>5, <2>6, <2>7, NoDiffsOK DEF RecordOK, PairOK, InExec
  <2>11. ~Executing(w)
    BY <2>8 DEF Executing, Busy
  <2> QED
    BY <2>2, <2>3, <2>4, <2>6, <2>8, <2>9, <2>10, <2>11, OneRecordChanges
<1>3. CASE ProcessEmptyQueue
  BY <1>3 DEF ProcessEmptyQueue, Books, Busy, PairOK, RecordOK, JobsOK, Released, InExec
<1>4. ASSUME NEW w \in Workers, RunSyncTask(w)
      PROVE  Books'
  <2> DEFINE t == workers[w].task
  <2>1. Busy(w) /\ workers[w].pc = "list"
    BY <1>4 DEF RunSyncTask, Busy
  <2>2. /\ t \in TaskIds /\ tasks[t] \in SyncTask /\ tasks[t].status = "in_progress"
        /\ \A v \in Workers : Carries(v, t) => v = w
    BY <2>1, CarriedTask
  <2>3. PICK local \in ListFiles, remote \in ListFiles :
          LET diffs == CalculateDiff(local, remote, tasks[t].strategy)
          IN  /\ tasks' = [tasks EXCEPT ![t] = Listed(@, diffs)]
              /\ workers' = [workers EXCEPT ![w] =
                    IF HasConflict(diffs) THEN Idle
                    ELSE [@ EXCEPT !.pc = "exec", !.todo = ItemPaths(diffs)]]
    BY <1>4 DEF RunSyncTask
  <2> DEFINE diffs == CalculateDiff(local, remote, tasks[t].strategy)
             nt    == Listed(tasks[t], diffs)
             go    == [workers[w] EXCEPT !.pc = "exec", !.todo = ItemPaths(diffs)]
             nw    == IF HasConflict(diffs) THEN Idle ELSE go
  <2>4. diffs \in Diffs /\ \A p \in Paths : diffs[p].conflict <=> diffs[p].action = "conflict"
    BY UnreadableType, CalculateDiffType
  <2>5. tasks' = [tasks EXCEPT ![t] = nt] /\ workers' = [workers EXCEPT ![w] = nw]
    BY <1>0, <2>2, <2>3
  <2> HIDE DEF diffs
  <2>6. nt \in SyncTask
    BY <1>0, <2>2, <2>5
  <2>7. nw \in Worker
    BY <1>0, <2>5
  <2>8. tasks[t].processed = 0 /\ tasks[t].percentage = 0 /\ RecordOK(tasks[t])
    BY <2>1, <2>2 DEF Books, PairOK
  <2>9. RecordOK(nt)
    BY <2>2, <2>4, <2>8, ListingKeepsBooks
  <2>10. nw.pc # "idle" => nw.task = t /\ PairOK(nw, nt)
    <3>1. nt.processed = 0 /\ nt.total = Cardinality(ItemPaths(diffs))
      BY <2>2, <2>8 DEF Listed, SyncTask
    <3>2. go.pc = "exec" /\ go.task = t /\ go.todo = ItemPaths(diffs)
      BY <1>0 DEF Worker
    <3>3. Cardinality(ItemPaths(diffs)) \in Nat
      BY ItemPathsFinite
    <3> HIDE DEF nt, go
    <3>4. PairOK(go, nt)
      BY <3>1, <3>2, <3>3 DEF PairOK
    <3> QED
      BY <3>2, <3>4 DEF Idle
  <2>11. jobs' = jobs /\ ~Executing(w)
    BY <1>4, <2>1 DEF RunSyncTask, Executing
  <2> HIDE DEF nt, nw
  <2> QED
    BY <2>1, <2>2, <2>5, <2>6, <2>7, <2>9, <2>10, <2>11, OneRecordChanges
<1>5. ASSUME NEW w \in Workers, NEW p \in Paths, ExecInSync(w, p) \/ CountItem(w, p)
      PROVE  Books'
  <2> DEFINE t  == workers[w].task
             nt == Counted(tasks[t])
             nw == Advanced(workers[w], p)
  <2>1. Busy(w) /\ InExec(workers[w]) /\ p \in workers[w].todo /\ jobs' = jobs
    BY <1>5 DEF ExecInSync, CountItem, Busy, InExec, IsNext
  <2>2. /\ t \in TaskIds /\ tasks[t] \in SyncTask /\ tasks[t].status = "in_progress"
        /\ \A v \in Workers : Carries(v, t) => v = w
    BY <2>1, CarriedTask
  <2>3. tasks' = [tasks EXCEPT ![t] = nt] /\ workers' = [workers EXCEPT ![w] = nw]
    BY <1>5 DEF ExecInSync, CountItem
  <2>4. nt \in SyncTask /\ nw \in Worker
    BY <1>0, <2>2, <2>3
  <2>5. nw.task = t
    BY <1>0 DEF Advanced, Worker
  <2>6. RecordOK(nt) /\ PairOK(nw, nt) /\ InExec(nw)
    <3>1. RecordOK(tasks[t]) /\ PairOK(workers[w], tasks[t])
      BY <2>1, <2>2 DEF Books
    <3> QED
      BY <1>0, <2>1, <2>2, <3>1, CountingKeepsBooks
  <2> HIDE DEF nt, nw
  <2> QED
    BY <2>1, <2>2, <2>3, <2>4, <2>5, <2>6, OneRecordChanges
<1>6. ASSUME NEW w \in Workers, NEW p \in Paths, ExecTransfer(w, p)
      PROVE  Books'
  <2> DEFINE t  == workers[w].task
             nw == [workers[w] EXCEPT !.pc = "wait", !.job = Len(jobs) + 1]
             req == [task |-> t, path |-> p,
                     direction |-> Direction(tasks[t].diffs[p].action)]
  <2>1. Busy(w) /\ InExec(workers[w])
    BY <1>6 DEF ExecTransfer, Busy, InExec
  <2>2. /\ t \in TaskIds /\ tasks[t] \in SyncTask /\ tasks[t].status = "in_progress"
        /\ \A v \in Workers : Carries(v, t) => v = w
    BY <2>1, CarriedTask
  <2>3. tasks' = [tasks EXCEPT ![t] = tasks[t]] /\ workers' = [workers EXCEPT ![w] = nw]
    BY <1>0, <1>6 DEF ExecTransfer
  <2>4. nw \in Worker
    BY <1>0, <2>3
  <2>5. nw.pc = "wait" /\ nw.task = t /\ nw.todo = workers[w].todo
    BY <1>0 DEF Worker
  <2>6. RecordOK(tasks[t]) /\ PairOK(workers[w], tasks[t])
    BY <2>1, <2>2 DEF Books
  <2>7. \A i \in DOMAIN jobs' :
          \/ i \in DOMAIN jobs /\ jobs'[i].req = jobs[i].req
          \/ jobs'[i].req.task = t
    <3> DEFINE job == [req |-> req, status |-> "in_progress", bytes |-> 0]
    <3>1. jobs' = Append(jobs, job) /\ job.req.task = t
      BY <1>6 DEF ExecTransfer, Bridge!Transfer
    <3>2. jobs \in Seq(Bridge!Job)
      BY DEF TypeOK, Bridge!JobTypeOK
    <3> HIDE DEF job
    <3> QED
      BY <3>1, <3>2
  <2> HIDE DEF nw
  <2>8. PairOK(nw, tasks[t]) /\ InExec(nw)
    BY <2>1, <2>5, <2>6 DEF PairOK, InExec
  <2> QED
    BY <2>1, <2>2, <2>3, <2>4, <2>5, <2>6, <2>7, <2>8, OneRecordChanges
<1>7. ASSUME NEW w \in Workers, PollSettled(w)
      PROVE  Books'
  <2> DEFINE t  == workers[w].task
             nt == [tasks[t] EXCEPT !.bytes = tasks[t].bytes + jobs[workers[w].job].bytes]
             nw == [workers[w] EXCEPT !.pc = "count"]
  <2>1. Busy(w) /\ InExec(workers[w]) /\ jobs' = jobs
    BY <1>7 DEF PollSettled, Busy, InExec
  <2>2. /\ t \in TaskIds /\ tasks[t] \in SyncTask /\ tasks[t].status = "in_progress"
        /\ \A v \in Workers : Carries(v, t) => v = w
    BY <2>1, CarriedTask
  <2>3. tasks' = [tasks EXCEPT ![t] = nt] /\ workers' = [workers EXCEPT ![w] = nw]
    BY <1>0, <1>7, <2>2 DEF PollSettled, SyncTask
  <2>4. nt \in SyncTask /\ nw \in Worker
    BY <1>0, <2>2, <2>3
  <2>5. nw.pc = "count" /\ nw.task = t /\ nw.todo = workers[w].todo
    BY <1>0 DEF Worker
  <2>6. /\ nt.status = tasks[t].status /\ nt.diffs = tasks[t].diffs /\ nt.total = tasks[t].total
        /\ nt.processed = tasks[t].processed /\ nt.percentage = tasks[t].percentage
    BY <2>2 DEF SyncTask
  <2>7. RecordOK(tasks[t]) /\ PairOK(workers[w], tasks[t])
    BY <2>1, <2>2 DEF Books
  <2> HIDE DEF nt, nw
  <2>8. RecordOK(nt)
    BY <2>2, <2>6, <2>7 DEF RecordOK
  <2>9. PairOK(nw, nt) /\ InExec(nw)
    BY <2>1, <2>5, <2>6, <2>7 DEF PairOK, InExec
  <2> QED
    BY <2>1, <2>2, <2>3, <2>4, <2>5, <2>8, <2>9, OneRecordChanges
<1>8. ASSUME NEW w \in Workers, PollPending(w)
      PROVE  Books'
  <2> DEFINE t  == workers[w].task
             nw == Polled(workers[w])
  <2>1. Busy(w) /\ InExec(workers[w]) /\ jobs' = jobs
    BY <1>8 DEF PollPending, Busy, InExec
  <2>2. /\ t \in TaskIds /\ tasks[t] \in SyncTask /\ tasks[t].status = "in_progress"
        /\ \A v \in Workers : Carries(v, t) => v = w
    BY <2>1, CarriedTask
  <2>3. tasks' = [tasks EXCEPT ![t] = tasks[t]] /\ workers' = [workers EXCEPT ![w] = nw]
    BY <1>0, <1>8 DEF PollPending
  <2>4. nw \in Worker
    BY <1>0, <2>3
  <2>5. nw.pc \in {"wait", "count"} /\ nw.task = t /\ nw.todo = workers[w].todo
    BY <1>0 DEF Worker, Polled
  <2>6. RecordOK(tasks[t]) /\ PairOK(workers[w], tasks[t])
    BY <2>1, <2>2 DEF Books
  <2> HIDE DEF nw
  <2>7. PairOK(nw, tasks[t]) /\ InExec(nw)
    BY <2>1, <2>5, <2>6 DEF PairOK, InExec
  <2> QED
    BY <2>1, <2>2, <2>3, <2>4, <2>5, <2>6, <2>7, OneRecordChanges
<1>9. ASSUME NEW w \in Workers, FinishTask(w)
      PROVE  Books'
  <2> DEFINE t  == workers[w].task
             nt == Completed(tasks[t])
  <2>1. Busy(w) /\ InExec(workers[w]) /\ workers[w].todo = {} /\ jobs' = jobs
    BY <1>9 DEF FinishTask, Busy, InExec
  <2>2. /\ t \in TaskIds /\ tasks[t] \in SyncTask /\ tasks[t].status = "in_progress"
        /\ \A v \in Workers : Carries(v, t) => v = w
    BY <2>1, CarriedTask
  <2>3. tasks' = [tasks EXCEPT ![t] = nt] /\ workers' = [workers EXCEPT ![w] = Idle]
    BY <1>9 DEF FinishTask
  <2>4. nt \in SyncTask /\ Idle \in Worker /\ Idle.pc = "idle"
    BY <1>0, <2>2, <2>3, IdleType DEF Idle
  <2>5. /\ nt.status = "completed" /\ nt.diffs = tasks[t].diffs /\ nt.total = tasks[t].total
        /\ nt.processed = tasks[t].processed /\ nt.percentage = 100
    BY <2>2 DEF Completed, SyncTask
  <2>6. RecordOK(tasks[t]) /\ PairOK(workers[w], tasks[t])
    BY <2>1, <2>2 DEF Books
  <2>7. tasks[t].processed = tasks[t].total
    <3>1. Cardinality(workers[w].todo) = 0
      BY <2>1, FS_EmptySet
    <3> QED
      BY <2>1, <2>2, <2>6, <3>1 DEF PairOK, SyncTask
  <2> HIDE DEF nt
  <2>8. RecordOK(nt)
    <3>1. /\ ~HasConflict(nt.diffs) /\ nt.total = Cardinality(ItemPaths(nt.diffs))
          /\ \A p \in Paths : nt.diffs[p].conflict <=> nt.diffs[p].action = "conflict"
      BY <2>2, <2>5, <2>6 DEF RecordOK
    <3>2. nt.processed = nt.total
      BY <2>5, <2>7
    <3> QED
      BY <2>5, <3>1, <3>2 DEF RecordOK
  <2>9. nt.status = "completed" /\ tasks[t].status # "completed"
    BY <2>2, <2>5
  <2> QED
    BY <2>1, <2>2, <2>3, <2>4, <2>8, <2>9, OneRecordChanges
<1>10. ASSUME NEW t \in TaskIds, NEW p \in Paths, NEW c \in UserChoices,
              NEW w \in Workers, ResolveConflict(t, p, c, w)
       PROVE  Books'
  <2> DEFINE diffs == [tasks[t].diffs EXCEPT ![p] = Resolve(@, c)]
             nt    == Decided(tasks[t], diffs)
             nw    == [Idle EXCEPT !.pc = "exec", !.task = t, !.todo = ItemPaths(diffs)]
  <2>1. tasks' = [tasks EXCEPT ![t] = nt] /\ jobs' = jobs
    BY <1>10 DEF ResolveConflict
  <2>2. workers' = IF Resumes(tasks[t], diffs) THEN [workers EXCEPT ![w] = nw] ELSE workers
    BY <1>10 DEF ResolveConflict
  <2>3. ~Busy(w) /\ tasks[t].diffs[p].conflict /\ tasks[t] \in SyncTask /\ RecordOK(tasks[t])
    BY <1>0, <1>10 DEF ResolveConflict, Busy, Books
  <2>4. /\ tasks[t].status = "conflict" /\ RecordOK(nt)
        /\ ItemPaths(diffs) = ItemPaths(tasks[t].diffs)
    BY <2>3, DecidingKeepsBooks
  <2> HIDE DEF diffs
  <2>5. nt \in SyncTask
    BY <1>0, <2>1
  <2>6. CASE Resumes(tasks[t], diffs)
    <3>1. workers' = [workers EXCEPT ![w] = nw]
      BY <2>2, <2>6
    <3>2. nw.pc = "exec" /\ nw.task = t /\ nw.todo = ItemPaths(diffs)
      BY DEF Idle
    <3>3. nw \in Worker
      BY <1>0, <3>1
    <3>4. nt.processed = 0 /\ nt.total = Cardinality(ItemPaths(diffs))
      BY <2>3, <2>4 DEF Decided, SyncTask, RecordOK
    <3>5. Cardinality(ItemPaths(diffs)) \in Nat
      BY ItemPathsFinite
    <3> HIDE DEF nw, nt
    <3>6. PairOK(nw, nt) /\ InExec(nw)
      BY <3>2, <3>4, <3>5 DEF PairOK, InExec
    <3>7. \A v \in Workers : Carries(v, t) => v = w
      BY <2>4 DEF Carries, Dispatching, OneExecutor
    <3>8. ~Executing(w)
      BY <2>3 DEF Executing, Busy
    <3> QED
      BY <2>1, <2>3, <2>4, <2>5, <3>1, <3>2, <3>3, <3>6, <3>7, <3>8, OneRecordChanges
  <2>7. CASE ~Resumes(tasks[t], diffs)
    <3> HIDE DEF nt
    <3> QED
      BY <2>1, <2>2, <2>4, <2>5, <2>7, UncarriedRecordChanges
  <2> QED
    BY <2>6, <2>7
<1>11. CASE JobSettles
  <2>1. PICK i \in DOMAIN jobs : Bridge!Complete(i) \/ Bridge!Fail(i)
    BY <1>11 DEF JobSettles, Bridge!Settle
  <2>2. DOMAIN jobs' = DOMAIN jobs /\ \A j \in DOMAIN jobs : jobs'[j].req = jobs[j].req
    <3>1. jobs[i] \in Bridge!Job
      BY JobTask
    <3>2. PICK new : jobs' = [jobs EXCEPT ![i] = new] /\ new.req = jobs[i].req
      BY <2>1, <3>1 DEF Bridge!Complete, Bridge!Fail, Bridge!Job
    <3>3. jobs \in Seq(Bridge!Job)
      BY DEF TypeOK, Bridge!JobTypeOK
    <3> QED
      BY <3>2, <3>3
  <2>3. UNCHANGED <<tasks, workers>>
    BY <1>11 DEF JobSettles
  <2> QED
    BY <2>2, <2>3 DEF Books, Busy, PairOK, RecordOK, JobsOK, Released, InExec
<1>12. CASE UNCHANGED vars
  BY <1>12 DEF vars, Books, Busy, PairOK, RecordOK, JobsOK, Released, InExec
<1> QED
  BY <1>1, <1>2, <1>3, <1>4, <1>5, <1>6, <1>7, <1>8, <1>9, <1>10, <1>11, <1>12
     DEF Next, Caller, Dispatch, WorkerStep

LEMMA BooksInit == Init => Books
<1> SUFFICES ASSUME Init PROVE Books
  OBVIOUS
<1>1. \A t \in TaskIds : tasks[t] = NoTask
  BY DEF Init
<1>2. RecordOK(NoTask)
  <2>1. /\ NoTask.status = "none" /\ NoTask.diffs = NoDiffs
        /\ NoTask.total = 0 /\ NoTask.processed = 0 /\ NoTask.percentage = 0
        /\ NoTask.bytes = 0
    BY DEF NoTask
  <2> QED
    BY <2>1, NoDiffsOK DEF RecordOK
<1>3. \A w \in Workers : ~Busy(w)
  BY DEF Init, Busy, Idle
<1>4. JobsOK
  BY DEF Init, Bridge!JobInit, JobsOK
<1> QED
  BY <1>1, <1>2, <1>3, <1>4 DEF Books

\* The records of all tasks, the goroutines that carry them and the jobs of
\* the bridge agree in every reachable state.
THEOREM BooksCorrect == Spec => []Books
<1>1. Init => Books
  BY BooksInit
<1>2. TypeOK /\ TypeOK' /\ Dispatching /\ Books /\ [Next]_vars => Books'
  BY BooksStep
<1> QED
  BY <1>1, <1>2, TypeCorrect, DispatchingCorrect, PTL DEF Spec

-----------------------------------------------------------------------------
(* What follows                                                             *)

\* Until its last conflict is decided no file of a task is handed to the
\* bridge, and deciding the last one never leaves a task held.
THEOREM ConflictsAlwaysHold == Spec => []ConflictsHoldTask
<1>1. TypeOK /\ Dispatching /\ Books => ConflictsHoldTask
  <2> SUFFICES ASSUME TypeOK, Dispatching, Books PROVE ConflictsHoldTask
    OBVIOUS
  <2>1. \A t \in TaskIds : tasks[t].status = "conflict" <=> HasConflict(tasks[t].diffs)
    BY DEF Books, RecordOK
  <2>2. ASSUME NEW i \in DOMAIN jobs
        PROVE  tasks[jobs[i].req.task].status # "conflict"
    <3>1. Released(jobs[i].req.task, tasks, workers)
      BY DEF Books, JobsOK
    <3> QED
      BY <3>1 DEF Released, InExec, Busy, Dispatching, OneExecutor
  <2> QED
    BY <2>1, <2>2 DEF ConflictsHoldTask
<1> QED
  BY <1>1, TypeCorrect, DispatchingCorrect, BooksCorrect, PTL

\* ProcessedFiles and what is left to visit always add up to TotalFiles, so a
\* completed task has counted each item once and 100 percent is never early.
THEOREM ProgressAlwaysExact == Spec => []ProgressExact
<1>1. TypeOK /\ Books => ProgressExact
  <2> SUFFICES ASSUME TypeOK, Books PROVE ProgressExact
    OBVIOUS
  <2>1. \A w \in Workers : Executing(w) =>
          tasks[workers[w].task].processed + Cardinality(workers[w].todo)
             = tasks[workers[w].task].total
    BY DEF Books, PairOK, InExec, Executing, Busy
  <2>2. \A t \in TaskIds :
          /\ tasks[t].total = Cardinality(ItemPaths(tasks[t].diffs))
          /\ tasks[t].status = "completed" => tasks[t].processed = tasks[t].total
          /\ tasks[t].percentage >= 100 => tasks[t].processed = tasks[t].total
    BY DEF Books, RecordOK
  <2> QED
    BY <2>1, <2>2 DEF ProgressExact
<1> QED
  BY <1>1, TypeCorrect, BooksCorrect, PTL

\* A task has no items before it is listed, counts nothing before it is
\* executed, and every job belongs to a task that was released.
THEOREM TaskHistoryCorrect == Spec => []TaskHistory
<1>1. Dispatching /\ Books => TaskHistory
  <2> SUFFICES ASSUME Dispatching, Books PROVE TaskHistory
    OBVIOUS
  <2>1. \A t \in TaskIds :
          /\ tasks[t].status = "none" <=> t > taskCounter
          /\ tasks[t].status \in {"none", "queued"} => tasks[t].diffs = NoDiffs
          /\ tasks[t].status \in {"none", "queued", "conflict"} =>
                tasks[t].processed = 0 /\ tasks[t].percentage = 0
          /\ \A p \in Paths :
                tasks[t].diffs[p].conflict <=> tasks[t].diffs[p].action = "conflict"
    BY DEF Dispatching, IdsInOrder, Books, RecordOK
  <2>2. \A w \in Workers : workers[w].pc = "list" =>
          LET task == tasks[workers[w].task]
          IN  task.diffs = NoDiffs /\ task.processed = 0 /\ task.percentage = 0
    BY DEF Books, PairOK, Busy
  <2>3. \A i \in DOMAIN jobs :
          \/ tasks[jobs[i].req.task].status = "completed"
          \/ \E w \in Workers : Carries(w, jobs[i].req.task) /\ Executing(w)
    BY DEF Books, JobsOK, Released, InExec, Carries, Busy, Executing
  <2> QED
    BY <2>1, <2>2, <2>3 DEF TaskHistory
<1> QED
  BY <1>1, DispatchingCorrect, BooksCorrect, PTL

\* executeTaskActions may read task.Diffs without the lock: no step, and in
\* particular no ResolveConflict, changes the items of an executing task.
THEOREM ExecutorReadsStableItems == Spec => NoWriteUnderExecutor
<1> DEFINE Stable == \A w \in Workers : Executing(w) =>
                        tasks'[workers[w].task].diffs = tasks[workers[w].task].diffs
<1>1. TypeOK /\ Dispatching /\ Books /\ [Next]_vars => [Stable]_vars
  <2> SUFFICES ASSUME TypeOK, Dispatching, Books, [Next]_vars,
                      NEW w \in Workers, Executing(w)
               PROVE  tasks'[workers[w].task].diffs = tasks[workers[w].task].diffs
    OBVIOUS
  <2> DEFINE u == workers[w].task
  <2>0. tasks \in [TaskIds -> SyncTask] /\ Busy(w)
    BY DEF TypeOK, Busy, Executing
  <2>1. /\ u \in TaskIds /\ tasks[u] \in SyncTask /\ tasks[u].status = "in_progress"
        /\ \A v \in Workers : Carries(v, u) => v = w
    BY <2>0, CarriedTask
  <2>2. ASSUME NEW n \in PriorityInputs, NEW s \in StrategyInputs, EnqueueTask(n, s)
        PROVE  tasks'[u].diffs = tasks[u].diffs
    <3>1. taskCounter + 1 # u
      BY <2>1, <2>2, BoundsAssumption
         DEF TypeOK, EnqueueTask, TaskIds, Dispatching, IdsInOrder
    <3> QED
      BY <2>0, <2>1, <2>2, <3>1 DEF EnqueueTask
  <2>3. ASSUME NEW v \in Workers, ProcessNextInQueue(v)
        PROVE  tasks'[u].diffs = tasks[u].diffs
    BY <2>0, <2>1, <2>3 DEF ProcessNextInQueue, SyncTask
  <2>4. ASSUME NEW v \in Workers, RunSyncTask(v)
        PROVE  tasks'[u].diffs = tasks[u].diffs
    <3>1. workers[v].task # u
      BY <2>1, <2>4 DEF RunSyncTask, Carries, Busy, Executing
    <3> QED
      BY <2>0, <2>1, <2>4, <3>1 DEF RunSyncTask
  <2>5. ASSUME NEW v \in Workers, NEW p \in Paths, ExecInSync(v, p) \/ CountItem(v, p)
        PROVE  tasks'[u].diffs = tasks[u].diffs
    <3>1. Counted(tasks[u]).diffs = tasks[u].diffs
      BY <2>1 DEF Counted, SyncTask
    <3> QED
      BY <2>0, <2>1, <2>5, <3>1 DEF ExecInSync, CountItem
  <2>6. ASSUME NEW v \in Workers, PollSettled(v)
        PROVE  tasks'[u].diffs = tasks[u].diffs
    BY <2>0, <2>1, <2>6 DEF PollSettled, SyncTask
  <2>7. ASSUME NEW v \in Workers, FinishTask(v)
        PROVE  tasks'[u].diffs = tasks[u].diffs
    <3>1. Completed(tasks[u]).diffs = tasks[u].diffs
      BY <2>1 DEF Completed, SyncTask
    <3> QED
      BY <2>0, <2>1, <2>7, <3>1 DEF FinishTask
  <2>8. ASSUME NEW t \in TaskIds, NEW p \in Paths, NEW c \in UserChoices,
               NEW v \in Workers, ResolveConflict(t, p, c, v)
        PROVE  tasks'[u].diffs = tasks[u].diffs
    <3>1. t # u
      BY <2>1, <2>8 DEF ResolveConflict, Books, RecordOK, HasConflict
    <3> QED
      BY <2>0, <2>1, <2>8, <3>1 DEF ResolveConflict
  <2> QED
    BY <2>2, <2>3, <2>4, <2>5, <2>6, <2>7, <2>8
       DEF Next, Caller, Dispatch, WorkerStep, ProcessEmptyQueue, ExecTransfer,
           PollPending, JobSettles, vars
<1> QED
  BY <1>1, TypeCorrect, DispatchingCorrect, BooksCorrect, PTL DEF Spec, NoWriteUnderExecutor

\* A record that a step may put in the place of another: the caller who polls
\* sees nothing go back.
Follows(old, new) ==
    /\ old.percentage <= new.percentage
    /\ old.bytes <= new.bytes
    /\ old.status = "completed" => new = old

LEMMA CountingFollows ==
    ASSUME NEW task \in SyncTask, NEW worker \in Worker, NEW p \in worker.todo,
           RecordOK(task), InExec(worker), PairOK(worker, task),
           task.status = "in_progress"
    PROVE  Follows(task, Counted(task))
<1>1. task.total \in Nat \ {0} /\ task.processed \in Nat
  <2>1. Cardinality(worker.todo) \in Nat \ {0}
    BY TodoFinite, FS_EmptySet
  <2> QED
    BY <2>1 DEF PairOK, SyncTask
<1>2. task.percentage = Percent(task.processed, task.total)
  BY <1>1 DEF RecordOK
<1>3. task.percentage <= Percent(task.processed + 1, task.total)
  BY <1>1, <1>2, PercentRises
<1>4. /\ Counted(task).percentage = Percent(task.processed + 1, task.total)
      /\ Counted(task).bytes = task.bytes /\ task.bytes \in Nat
  BY <1>1 DEF Counted, SyncTask
<1> QED
  BY <1>3, <1>4 DEF Follows

\* Every step replaces the record of one task, by one that follows it, or none.
LEMMA RecordsFollow ==
    ASSUME TypeOK, Dispatching, Books, Next
    PROVE  \/ tasks' = tasks
           \/ \E t \in TaskIds : \E nt : Follows(tasks[t], nt) /\ tasks' = [tasks EXCEPT ![t] = nt]
<1> DEFINE Goal == \/ tasks' = tasks
                   \/ \E t \in TaskIds : \E nt :
                         Follows(tasks[t], nt) /\ tasks' = [tasks EXCEPT ![t] = nt]
<1>0. /\ tasks \in [TaskIds -> SyncTask] /\ workers \in [Workers -> Worker]
      /\ \A t \in TaskIds : RecordOK(tasks[t])
  BY DEF TypeOK, Books
<1>1. ASSUME NEW n \in PriorityInputs, NEW s \in StrategyInputs, EnqueueTask(n, s)
      PROVE  Goal
  <2> DEFINE t  == taskCounter + 1
             nt == [NoTask EXCEPT !.status = "queued", !.priority = Default(n, 0, 2),
                                  !.strategy = Default(s, "", NewestWins)]
  <2>1. t \in TaskIds /\ tasks[t].status = "none" /\ tasks' = [tasks EXCEPT ![t] = nt]
    BY <1>1, BoundsAssumption DEF TypeOK, EnqueueTask, TaskIds, Dispatching, IdsInOrder
  <2>2. tasks[t].percentage = 0 /\ tasks[t].bytes = 0
    BY <1>0, <2>1 DEF RecordOK
  <2>3. nt.percentage = 0 /\ nt.bytes = 0
    BY DEF NoTask
  <2> HIDE DEF nt, t
  <2>4. Follows(tasks[t], nt)
    BY <2>1, <2>2, <2>3 DEF Follows
  <2> QED
    BY <2>1, <2>4
<1>2. ASSUME NEW w \in Workers, ProcessNextInQueue(w)
      PROVE  Goal
  <2>1. PICK i \in 1..Len(queue) :
          /\ IsFirstQueued(i)
          /\ tasks' = [tasks EXCEPT ![queue[i]].status = "in_progress"]
    BY <1>2 DEF ProcessNextInQueue
  <2> DEFINE t  == queue[i]
             nt == [tasks[t] EXCEPT !.status = "in_progress"]
  <2>2. /\ t \in TaskIds /\ tasks[t].status = "queued" /\ tasks[t] \in SyncTask
        /\ tasks' = [tasks EXCEPT ![t] = nt]
    BY <2>1 DEF TypeOK, IsFirstQueued
  <2>3. Follows(tasks[t], nt)
    BY <2>2 DEF Follows, SyncTask
  <2> QED
    BY <2>2, <2>3
<1>3. ASSUME NEW w \in Workers, RunSyncTask(w)
      PROVE  Goal
  <2> DEFINE t == workers[w].task
  <2>1. Busy(w)
    BY <1>3 DEF RunSyncTask, Busy
  <2>2. t \in TaskIds /\ tasks[t] \in SyncTask /\ tasks[t].status = "in_progress"
    BY <2>1, CarriedTask
  <2>3. PICK diffs : tasks' = [tasks EXCEPT ![t] = Listed(tasks[t], diffs)]
    BY <1>3 DEF RunSyncTask
  <2>4. Follows(tasks[t], Listed(tasks[t], diffs))
    BY <2>2 DEF Follows, Listed, SyncTask
  <2> QED
    BY <2>2, <2>3, <2>4
<1>4. ASSUME NEW w \in Workers, NEW p \in Paths, ExecInSync(w, p) \/ CountItem(w, p)
      PROVE  Goal
  <2> DEFINE t == workers[w].task
  <2>1. Busy(w) /\ InExec(workers[w]) /\ p \in workers[w].todo
    BY <1>4 DEF ExecInSync, CountItem, Busy, InExec, IsNext
  <2>2. /\ t \in TaskIds /\ tasks[t] \in SyncTask /\ tasks[t].status = "in_progress"
        /\ PairOK(workers[w], tasks[t])
    BY <2>1, CarriedTask DEF Books
  <2>3. Follows(tasks[t], Counted(tasks[t]))
    BY <1>0, <2>1, <2>2, CountingFollows
  <2>4. tasks' = [tasks EXCEPT ![t] = Counted(tasks[t])]
    BY <1>4 DEF ExecInSync, CountItem
  <2> QED
    BY <2>2, <2>3, <2>4
<1>5. ASSUME NEW w \in Workers, PollSettled(w)
      PROVE  Goal
  <2> DEFINE t  == workers[w].task
             nt == [tasks[t] EXCEPT !.bytes = tasks[t].bytes + jobs[workers[w].job].bytes]
  <2>1. Busy(w) /\ workers[w].pc = "wait"
    BY <1>5 DEF PollSettled, Busy
  <2>2. t \in TaskIds /\ tasks[t] \in SyncTask /\ tasks[t].status = "in_progress"
    BY <2>1, CarriedTask
  <2>3. jobs[workers[w].job].bytes \in Nat
    <3>1. workers[w].job \in DOMAIN jobs
      BY <2>1 DEF TypeOK, WorkerOK, Bridge!JobTypeOK
    <3> QED
      BY <3>1, JobTask DEF Bridge!Job
  <2>4. tasks' = [tasks EXCEPT ![t] = nt]
    BY <1>0, <1>5, <2>2 DEF PollSettled, SyncTask
  <2>5. Follows(tasks[t], nt)
    BY <2>2, <2>3 DEF Follows, SyncTask
  <2> QED
    BY <2>2, <2>4, <2>5
<1>6. ASSUME NEW w \in Workers, FinishTask(w)
      PROVE  Goal
  <2> DEFINE t == workers[w].task
  <2>1. Busy(w) /\ tasks' = [tasks EXCEPT ![t] = Completed(tasks[t])]
    BY <1>6 DEF FinishTask, Busy
  <2>2. t \in TaskIds /\ tasks[t] \in SyncTask /\ tasks[t].status = "in_progress"
    BY <2>1, CarriedTask
  <2>3. tasks[t].percentage <= 100
    BY <1>0, <2>2 DEF RecordOK
  <2>4. Follows(tasks[t], Completed(tasks[t]))
    BY <2>2, <2>3 DEF Follows, Completed, SyncTask
  <2> QED
    BY <2>1, <2>2, <2>4
<1>7. ASSUME NEW t \in TaskIds, NEW p \in Paths, NEW c \in UserChoices,
             NEW w \in Workers, ResolveConflict(t, p, c, w)
      PROVE  Goal
  <2> DEFINE diffs == [tasks[t].diffs EXCEPT ![p] = Resolve(@, c)]
  <2>1. tasks' = [tasks EXCEPT ![t] = Decided(tasks[t], diffs)] /\ tasks[t].diffs[p].conflict
    BY <1>7 DEF ResolveConflict
  <2>2. tasks[t] \in SyncTask /\ tasks[t].status = "conflict"
    BY <1>0, <2>1 DEF RecordOK, HasConflict
  <2> HIDE DEF diffs
  <2>3. Follows(tasks[t], Decided(tasks[t], diffs))
    BY <2>2 DEF Follows, Decided, SyncTask
  <2> QED
    BY <2>1, <2>3
<1>8. \/ tasks' = tasks
      \/ \E n \in PriorityInputs, s \in StrategyInputs : EnqueueTask(n, s)
      \/ \E w \in Workers : \/ ProcessNextInQueue(w) \/ RunSyncTask(w)
                            \/ \E p \in Paths : ExecInSync(w, p) \/ CountItem(w, p)
                            \/ PollSettled(w) \/ FinishTask(w)
      \/ \E t \in TaskIds, p \in Paths, c \in UserChoices, w \in Workers :
            ResolveConflict(t, p, c, w)
  BY DEF Next, Caller, Dispatch, WorkerStep, ProcessEmptyQueue, ExecTransfer, PollPending,
         JobSettles
<1> QED
  BY <1>1, <1>2, <1>3, <1>4, <1>5, <1>6, <1>7, <1>8

\* A caller that polls GetTaskProgress never sees the percentage or the bytes
\* go back, nor anything change after "completed", whatever else the engine does.
THEOREM PolledProgressNeverGoesBack == Spec => ProgressNeverGoesBack
<1> DEFINE Onward(t) == LET old == GetTaskProgress(t)
                            new == GetTaskProgress(t)'
                        IN  /\ old.percentage <= new.percentage
                            /\ old.bytesTransferred <= new.bytesTransferred
                            /\ old.status = "completed" => new = old
<1>1. TypeOK /\ Dispatching /\ Books /\ [Next]_vars => [\A t \in TaskIds : Onward(t)]_vars
  <2> SUFFICES ASSUME TypeOK, Dispatching, Books, Next, NEW t \in TaskIds
               PROVE  Onward(t)
    OBVIOUS
  <2>1. Follows(tasks[t], tasks'[t])
    <3>1. tasks[t] \in SyncTask /\ tasks \in [TaskIds -> SyncTask]
      BY DEF TypeOK
    <3>2. Follows(tasks[t], tasks[t])
      BY <3>1 DEF Follows, SyncTask
    <3>3. ASSUME NEW u \in TaskIds, NEW nt, Follows(tasks[u], nt),
                 tasks' = [tasks EXCEPT ![u] = nt]
          PROVE  Follows(tasks[t], tasks'[t])
      <4>1. tasks'[t] = IF t = u THEN nt ELSE tasks[t]
        BY <3>1, <3>3
      <4> QED
        BY <3>2, <3>3, <4>1
    <3> QED
      BY <3>2, <3>3, RecordsFollow
  <2> QED
    BY <2>1 DEF Follows, GetTaskProgress
<1> QED
  BY <1>1, TypeCorrect, DispatchingCorrect, BooksCorrect, PTL DEF Spec, ProgressNeverGoesBack

-----------------------------------------------------------------------------
(***************************************************************************)
(* SyncEngine implements TaskBoard, for every instance: queue, goroutines   *)
(* and bridge jobs are hidden, and every step of the engine is one step of  *)
(* the board or none.  The first layer gives the order of service, the      *)
(* second one that a task starts with nothing undecided and is released     *)
(* exactly when its last conflict is decided.                               *)
(***************************************************************************)

Phase     == [t \in TaskIds |-> tasks[t].status]
Urgency   == [t \in TaskIds |-> tasks[t].priority]
Open(diffs) == {p \in Paths : diffs[p].conflict}
Undecided == [t \in TaskIds |-> Open(tasks[t].diffs)]

\* What a change of one record is on the board.
LEMMA BoardUpdate ==
    ASSUME TypeOK, NEW t \in TaskIds, NEW nt \in SyncTask, tasks' = [tasks EXCEPT ![t] = nt]
    PROVE  /\ Phase' = [Phase EXCEPT ![t] = nt.status]
           /\ Urgency' = [Urgency EXCEPT ![t] = nt.priority]
           /\ Undecided' = [Undecided EXCEPT ![t] = Open(nt.diffs)]
           /\ Phase[t] = tasks[t].status
           /\ Urgency[t] = tasks[t].priority
           /\ Undecided[t] = Open(tasks[t].diffs)
<1>1. \A u \in TaskIds : tasks'[u] = IF u = t THEN nt ELSE tasks[u]
  BY DEF TypeOK
<1>2. Phase' = [Phase EXCEPT ![t] = nt.status]
  <2>1. \A u \in TaskIds : tasks'[u].status = IF u = t THEN nt.status ELSE tasks[u].status
    BY <1>1
  <2> QED
    BY <2>1, Zenon DEF Phase
<1>3. Urgency' = [Urgency EXCEPT ![t] = nt.priority]
  <2>1. \A u \in TaskIds : tasks'[u].priority = IF u = t THEN nt.priority ELSE tasks[u].priority
    BY <1>1
  <2> QED
    BY <2>1, Zenon DEF Urgency
<1>4. Undecided' = [Undecided EXCEPT ![t] = Open(nt.diffs)]
  <2>1. \A u \in TaskIds :
          Open(tasks'[u].diffs) = IF u = t THEN Open(nt.diffs) ELSE Open(tasks[u].diffs)
    BY <1>1
  <2> QED
    BY <2>1, Zenon DEF Undecided, Open
<1> QED
  BY <1>2, <1>3, <1>4 DEF Phase, Urgency, Undecided

BoardQuiet == UNCHANGED <<Phase, Urgency, Undecided>>

\* A change that keeps status, priority and items shows nothing.
LEMMA QuietUpdate ==
    ASSUME TypeOK, NEW t \in TaskIds, NEW nt \in SyncTask, tasks' = [tasks EXCEPT ![t] = nt],
           nt.status = tasks[t].status, nt.priority = tasks[t].priority,
           Open(nt.diffs) = Open(tasks[t].diffs)
    PROVE  BoardQuiet
<1>1. [Phase EXCEPT ![t] = Phase[t]] = Phase
  BY DEF Phase
<1>2. [Urgency EXCEPT ![t] = Urgency[t]] = Urgency
  BY DEF Urgency
<1>3. [Undecided EXCEPT ![t] = Undecided[t]] = Undecided
  BY DEF Undecided
<1>4. /\ Phase' = [Phase EXCEPT ![t] = nt.status]
      /\ Urgency' = [Urgency EXCEPT ![t] = nt.priority]
      /\ Undecided' = [Undecided EXCEPT ![t] = Open(nt.diffs)]
  BY BoardUpdate
<1>5. nt.status = Phase[t] /\ nt.priority = Urgency[t] /\ Open(nt.diffs) = Undecided[t]
  BY DEF Phase, Urgency, Undecided
<1>6. Phase' = Phase /\ Urgency' = Urgency /\ Undecided' = Undecided
  BY <1>1, <1>2, <1>3, <1>4, <1>5
<1> QED
  BY <1>6 DEF BoardQuiet

BoardStep == Board!BoardNext \/ BoardQuiet

LEMMA EnqueueSubmits ==
    ASSUME TypeOK, TypeOK', Dispatching, Books,
           NEW n \in PriorityInputs, NEW s \in StrategyInputs, EnqueueTask(n, s)
    PROVE  BoardStep
<1> DEFINE pr == Default(n, 0, 2)
           st == Default(s, "", NewestWins)
           nt == [NoTask EXCEPT !.status = "queued", !.priority = pr, !.strategy = st]
<1>1. PICK t \in TaskIds : t = taskCounter + 1
  BY BoundsAssumption DEF TypeOK, EnqueueTask, TaskIds
<1>2. /\ tasks[t].status = "none"
      /\ \A u \in TaskIds : u < t => tasks[u].status # "none"
  BY <1>1 DEF TypeOK, TaskIds, Dispatching, IdsInOrder
<1>3. tasks' = [tasks EXCEPT ![t] = nt]
  BY <1>1 DEF EnqueueTask
<1>4. pr \in Priorities
  <2>1. n \in 0..3
    BY InputAssumption
  <2> QED
    BY <2>1 DEF Default, Priorities
<1> HIDE DEF pr, st
<1>5. nt.status = "queued" /\ nt.priority = pr /\ nt.diffs = NoDiffs
  BY DEF NoTask
<1>6. tasks[t].diffs = NoDiffs
  BY <1>2 DEF Books, RecordOK
<1>7. nt \in SyncTask
  BY <1>3 DEF TypeOK
<1> HIDE DEF nt
<1>8. /\ Phase' = [Phase EXCEPT ![t] = "queued"]
      /\ Urgency' = [Urgency EXCEPT ![t] = pr]
      /\ Undecided' = Undecided
  <2>1. /\ Phase' = [Phase EXCEPT ![t] = nt.status]
        /\ Urgency' = [Urgency EXCEPT ![t] = nt.priority]
        /\ Undecided' = [Undecided EXCEPT ![t] = Open(nt.diffs)]
        /\ Undecided[t] = Open(tasks[t].diffs)
    BY <1>3, <1>7, BoardUpdate
  <2>2. [Undecided EXCEPT ![t] = Undecided[t]] = Undecided
    BY DEF Undecided
  <2> QED
    BY <1>5, <1>6, <2>1, <2>2
<1>9. Board!Submit(t)
  BY <1>2, <1>4, <1>8 DEF Board!Submit, Phase, Urgency, Undecided, Open
<1> QED
  BY <1>9 DEF BoardStep, Board!BoardNext

\* The task that processNextInQueue takes is the one to be served first.
LEMMA DequeueStarts ==
    ASSUME TypeOK, TypeOK', Dispatching, NEW w \in Workers, ProcessNextInQueue(w)
    PROVE  BoardStep
<1>1. PICK i \in 1..Len(queue) :
        /\ IsFirstQueued(i)
        /\ tasks' = [tasks EXCEPT ![queue[i]].status = "in_progress"]
  BY DEF ProcessNextInQueue
<1>2. i = 1
  BY <1>1, FirstQueuedIsHead DEF Dispatching
<1>3. PICK t \in TaskIds : t = queue[1]
  BY <1>1, <1>2 DEF TypeOK
<1>4. tasks[t].status = "queued" /\ tasks[t] \in SyncTask
  BY <1>1, <1>2, <1>3 DEF IsFirstQueued, TypeOK
<1>5. \A u \in TaskIds : tasks[u].status = "queued" =>
        \/ tasks[t].priority < tasks[u].priority
        \/ tasks[t].priority = tasks[u].priority /\ t <= u
  <2> SUFFICES ASSUME NEW u \in TaskIds, tasks[u].status = "queued"
               PROVE  \/ tasks[t].priority < tasks[u].priority
                      \/ tasks[t].priority = tasks[u].priority /\ t <= u
    OBVIOUS
  <2>1. PICK j \in 1..Len(queue) : queue[j] = u
    BY DEF Dispatching, QueueInOrder
  <2>2. CASE j = 1
    BY <1>3, <2>1, <2>2 DEF TaskIds
  <2>3. CASE j # 1
    <3>1. 1 \in 1..Len(queue) /\ 1 < j
      BY <1>1, <1>2, <2>3
    <3>2. \/ tasks[queue[1]].priority < tasks[queue[j]].priority
          \/ tasks[queue[1]].priority = tasks[queue[j]].priority /\ queue[1] < queue[j]
      BY <3>1 DEF Dispatching, QueueInOrder
    <3> QED
      BY <1>3, <2>1, <3>2 DEF TaskIds
  <2> QED
    BY <2>2, <2>3
<1> DEFINE nt == [tasks[t] EXCEPT !.status = "in_progress"]
<1>6. tasks' = [tasks EXCEPT ![t] = nt]
  BY <1>1, <1>2, <1>3
<1>7. nt \in SyncTask
  BY <1>6 DEF TypeOK
<1>8. nt.status = "in_progress" /\ nt.priority = tasks[t].priority /\ nt.diffs = tasks[t].diffs
  BY <1>4 DEF SyncTask
<1> HIDE DEF nt
<1>9. Phase' = [Phase EXCEPT ![t] = "in_progress"] /\ UNCHANGED <<Urgency, Undecided>>
  <2>1. /\ Phase' = [Phase EXCEPT ![t] = nt.status]
        /\ Urgency' = [Urgency EXCEPT ![t] = nt.priority]
        /\ Undecided' = [Undecided EXCEPT ![t] = Open(nt.diffs)]
        /\ Undecided[t] = Open(tasks[t].diffs) /\ Urgency[t] = tasks[t].priority
    BY <1>6, <1>7, BoardUpdate
  <2>2. [Undecided EXCEPT ![t] = Undecided[t]] = Undecided
        /\ [Urgency EXCEPT ![t] = Urgency[t]] = Urgency
    BY DEF Undecided, Urgency
  <2> QED
    BY <1>8, <2>1, <2>2
<1>10. Board!Start(t)
  BY <1>4, <1>5, <1>9 DEF Board!Start, Board!Before, Phase, Urgency, Undecided, Open
<1> QED
  BY <1>10 DEF BoardStep, Board!BoardNext

\* A listing with conflicts holds the task; one without shows nothing.
LEMMA ListingHolds ==
    ASSUME TypeOK, TypeOK', Dispatching, Books, NEW w \in Workers, RunSyncTask(w)
    PROVE  BoardStep
<1>1. Busy(w) /\ workers[w].pc = "list"
  BY DEF RunSyncTask, Busy
<1>2. PICK t \in TaskIds : t = workers[w].task
  BY <1>1, CarriedTask
<1>3. tasks[t] \in SyncTask /\ tasks[t].status = "in_progress" /\ tasks[t].diffs = NoDiffs
  BY <1>1, <1>2, CarriedTask DEF Books, PairOK
<1>4. PICK local \in ListFiles, remote \in ListFiles :
        tasks' = [tasks EXCEPT ![t] =
                    Listed(@, CalculateDiff(local, remote, tasks[t].strategy))]
  BY <1>2 DEF RunSyncTask
<1> DEFINE diffs == CalculateDiff(local, remote, tasks[t].strategy)
           nt    == Listed(tasks[t], diffs)
<1>5. tasks' = [tasks EXCEPT ![t] = nt]
  BY <1>4
<1> HIDE DEF diffs
<1>6. nt \in SyncTask
  BY <1>5 DEF TypeOK
<1>7. /\ nt.status = IF HasConflict(diffs) THEN "conflict" ELSE "in_progress"
      /\ nt.priority = tasks[t].priority /\ nt.diffs = diffs
  BY <1>3 DEF Listed, SyncTask
<1> HIDE DEF nt
<1>8. Open(NoDiffs) = {} /\ (Open(diffs) = {} <=> ~HasConflict(diffs))
  BY NoDiffsType DEF Open, HasConflict
<1>9. CASE HasConflict(diffs)
  <2>1. /\ Phase' = [Phase EXCEPT ![t] = "conflict"]
        /\ Urgency' = Urgency
        /\ Undecided' = [Undecided EXCEPT ![t] = Open(diffs)]
    <3>1. /\ Phase' = [Phase EXCEPT ![t] = nt.status]
          /\ Urgency' = [Urgency EXCEPT ![t] = nt.priority]
          /\ Undecided' = [Undecided EXCEPT ![t] = Open(nt.diffs)]
          /\ Urgency[t] = tasks[t].priority
      BY <1>5, <1>6, BoardUpdate
    <3>2. [Urgency EXCEPT ![t] = Urgency[t]] = Urgency
      BY DEF Urgency
    <3> QED
      BY <1>7, <1>9, <3>1, <3>2
  <2>2. Open(diffs) \in (SUBSET Paths) \ {{}}
    BY <1>8, <1>9 DEF Open
  <2> DEFINE S == Open(diffs)
  <2> HIDE DEF S
  <2>3. S \in (SUBSET Paths) \ {{}} /\ Undecided' = [Undecided EXCEPT ![t] = S]
    BY <2>1, <2>2 DEF S
  <2>4. Board!Hold(t)
    BY <1>3, <2>1, <2>3 DEF Board!Hold, Phase, Urgency, Undecided, Open
  <2> QED
    BY <2>4 DEF BoardStep, Board!BoardNext
<1>10. CASE ~HasConflict(diffs)
  <2>1. nt.status = tasks[t].status /\ Open(nt.diffs) = Open(tasks[t].diffs)
    BY <1>3, <1>7, <1>8, <1>10
  <2> QED
    BY <1>5, <1>6, <1>7, <2>1, QuietUpdate DEF BoardStep
<1> QED
  BY <1>9, <1>10

LEMMA FinishFinishes ==
    ASSUME TypeOK, TypeOK', Dispatching, NEW w \in Workers, FinishTask(w)
    PROVE  BoardStep
<1>1. Busy(w)
  BY DEF FinishTask, Busy
<1>2. PICK t \in TaskIds : t = workers[w].task
  BY <1>1, CarriedTask
<1>3. tasks[t] \in SyncTask /\ tasks[t].status = "in_progress"
  BY <1>1, <1>2, CarriedTask
<1> DEFINE nt == Completed(tasks[t])
<1>4. tasks' = [tasks EXCEPT ![t] = nt]
  BY <1>2 DEF FinishTask
<1>5. nt \in SyncTask
  BY <1>4 DEF TypeOK
<1>6. nt.status = "completed" /\ nt.priority = tasks[t].priority /\ nt.diffs = tasks[t].diffs
  BY <1>3 DEF Completed, SyncTask
<1> HIDE DEF nt
<1>7. Phase' = [Phase EXCEPT ![t] = "completed"] /\ UNCHANGED <<Urgency, Undecided>>
  <2>1. /\ Phase' = [Phase EXCEPT ![t] = nt.status]
        /\ Urgency' = [Urgency EXCEPT ![t] = nt.priority]
        /\ Undecided' = [Undecided EXCEPT ![t] = Open(nt.diffs)]
        /\ Undecided[t] = Open(tasks[t].diffs) /\ Urgency[t] = tasks[t].priority
    BY <1>4, <1>5, BoardUpdate
  <2>2. [Undecided EXCEPT ![t] = Undecided[t]] = Undecided
        /\ [Urgency EXCEPT ![t] = Urgency[t]] = Urgency
    BY DEF Undecided, Urgency
  <2> QED
    BY <1>6, <2>1, <2>2
<1>8. Board!Finish(t)
  BY <1>3, <1>7 DEF Board!Finish, Phase, Urgency, Undecided, Open
<1> QED
  BY <1>8 DEF BoardStep, Board!BoardNext

\* A decision closes one conflict, and the last one releases the task.
LEMMA ResolveDecides ==
    ASSUME TypeOK, TypeOK', Books, NEW t \in TaskIds, NEW p \in Paths,
           NEW c \in UserChoices, NEW w \in Workers, ResolveConflict(t, p, c, w)
    PROVE  BoardStep
<1> DEFINE diffs == [tasks[t].diffs EXCEPT ![p] = Resolve(@, c)]
           nt    == Decided(tasks[t], diffs)
<1>1. tasks' = [tasks EXCEPT ![t] = nt] /\ tasks[t].diffs[p].conflict
  BY DEF ResolveConflict
<1>2. tasks[t] \in SyncTask /\ RecordOK(tasks[t])
  BY DEF TypeOK, Books
<1>3. tasks[t].status = "conflict"
  BY <1>1, <1>2, DecidingKeepsBooks
<1>4. Open(diffs) = Open(tasks[t].diffs) \ {p}
  <2>1. tasks[t].diffs \in Diffs /\ tasks[t].diffs[p] \in DiffItem
    BY <1>2 DEF SyncTask, Diffs
  <2>2. ~diffs[p].conflict
    BY <2>1, ResolveType DEF Diffs
  <2>3. \A q \in Paths : q # p => diffs[q] = tasks[t].diffs[q]
    BY <2>1 DEF Diffs
  <2> HIDE DEF diffs
  <2> QED
    BY <2>2, <2>3 DEF Open
<1>5. nt \in SyncTask
  BY <1>1 DEF TypeOK
<1> HIDE DEF diffs
<1>6. HasConflict(diffs) <=> Open(diffs) # {}
  BY DEF HasConflict, Open
<1>7. p \in Open(tasks[t].diffs)
  BY <1>1 DEF Open
<1>8. /\ nt.status = IF Open(tasks[t].diffs) = {p} THEN "in_progress" ELSE "conflict"
      /\ nt.priority = tasks[t].priority /\ nt.diffs = diffs
  <2>1. /\ nt.status = IF HasConflict(diffs) THEN "conflict" ELSE "in_progress"
        /\ nt.priority = tasks[t].priority /\ nt.diffs = diffs
    BY <1>2, <1>3 DEF Decided, Resumes, SyncTask
  <2>2. Open(diffs) = {} <=> Open(tasks[t].diffs) = {p}
    BY <1>4, <1>7
  <2> QED
    BY <1>6, <2>1, <2>2
<1> HIDE DEF nt
<1>9. /\ Phase' = [Phase EXCEPT ![t] =
                     IF Undecided[t] = {p} THEN "in_progress" ELSE Phase[t]]
      /\ Urgency' = Urgency
      /\ Undecided' = [Undecided EXCEPT ![t] = Undecided[t] \ {p}]
      /\ Phase[t] = "conflict" /\ p \in Undecided[t]
  <2>1. /\ Phase' = [Phase EXCEPT ![t] = nt.status]
        /\ Urgency' = [Urgency EXCEPT ![t] = nt.priority]
        /\ Undecided' = [Undecided EXCEPT ![t] = Open(nt.diffs)]
        /\ Undecided[t] = Open(tasks[t].diffs) /\ Urgency[t] = tasks[t].priority
        /\ Phase[t] = tasks[t].status
    BY <1>1, <1>5, BoardUpdate
  <2>2. [Urgency EXCEPT ![t] = Urgency[t]] = Urgency
    BY DEF Urgency
  <2> QED
    BY <1>3, <1>4, <1>7, <1>8, <2>1, <2>2
<1>10. Board!Decide(t, p)
  BY <1>9 DEF Board!Decide, Phase, Urgency, Undecided, Open
<1> QED
  BY <1>10 DEF BoardStep, Board!BoardNext

\* Counting, polling and handing a file to the bridge show nothing.
LEMMA WorkIsHidden ==
    ASSUME TypeOK, TypeOK', NEW w \in Workers,
           \/ \E p \in Paths : ExecInSync(w, p) \/ CountItem(w, p)
           \/ PollSettled(w)
    PROVE  BoardQuiet
<1>1. PICK t \in TaskIds : t = workers[w].task
  BY DEF ExecInSync, CountItem, PollSettled, TypeOK, WorkerOK
<1>2. tasks[t] \in SyncTask
  BY DEF TypeOK
<1>3. CASE PollSettled(w)
  <2> DEFINE nt == [tasks[t] EXCEPT !.bytes = tasks[t].bytes + jobs[workers[w].job].bytes]
  <2>1. tasks' = [tasks EXCEPT ![t] = nt]
    BY <1>1, <1>2, <1>3 DEF PollSettled, SyncTask, TypeOK
  <2>2. nt \in SyncTask
    BY <2>1 DEF TypeOK
  <2>3. nt.status = tasks[t].status /\ nt.priority = tasks[t].priority
        /\ nt.diffs = tasks[t].diffs
    BY <1>2 DEF SyncTask
  <2> HIDE DEF nt
  <2> QED
    BY <2>1, <2>2, <2>3, QuietUpdate
<1>4. ASSUME NEW p \in Paths, ExecInSync(w, p) \/ CountItem(w, p)
      PROVE  BoardQuiet
  <2> DEFINE nt == Counted(tasks[t])
  <2>1. tasks' = [tasks EXCEPT ![t] = nt]
    BY <1>1, <1>4 DEF ExecInSync, CountItem
  <2>2. nt \in SyncTask
    BY <2>1 DEF TypeOK
  <2>3. nt.status = tasks[t].status /\ nt.priority = tasks[t].priority
        /\ nt.diffs = tasks[t].diffs
    BY <1>2 DEF Counted, SyncTask
  <2> HIDE DEF nt
  <2> QED
    BY <2>1, <2>2, <2>3, QuietUpdate
<1> QED
  BY <1>3, <1>4

LEMMA RefinementStep ==
    ASSUME TypeOK, TypeOK', Dispatching, Books, [Next]_vars
    PROVE  BoardStep
<1>1. ASSUME tasks' = tasks
      PROVE  BoardStep
  BY <1>1 DEF BoardStep, BoardQuiet, Phase, Urgency, Undecided
<1>2. ASSUME NEW w \in Workers, WorkerStep(w)
      PROVE  BoardStep
  BY <1>1, <1>2, ListingHolds, FinishFinishes, WorkIsHidden
     DEF WorkerStep, ExecTransfer, PollPending, BoardStep
<1>3. CASE Dispatch
  BY <1>1, <1>3, DequeueStarts DEF Dispatch, ProcessEmptyQueue
<1>4. CASE Caller
  BY <1>4, EnqueueSubmits, ResolveDecides DEF Caller
<1> QED
  BY <1>1, <1>2, <1>3, <1>4 DEF Next, JobSettles, vars

LEMMA RefinementInit == Init => Board!BoardInit
<1> SUFFICES ASSUME Init PROVE Board!BoardInit
  OBVIOUS
<1>1. \A t \in TaskIds : tasks[t] = NoTask
  BY DEF Init
<1>2. NoTask.status = "none" /\ NoTask.priority = 0 /\ NoTask.diffs = NoDiffs
  BY DEF NoTask
<1>3. {p \in Paths : NoDiffs[p].conflict} = {}
  BY NoDiffsType DEF HasConflict
<1> QED
  BY <1>1, <1>2, <1>3 DEF Board!BoardInit

\* The engine keeps the promises of TaskBoard in every instance: tasks start
\* in order of priority and submission, a task with conflicts is held until
\* the last one is decided, and every step a caller can see is one of these.
THEOREM EngineImplementsBoard == Spec => ImplementsBoard
<1>1. Init => Board!BoardInit
  BY RefinementInit
<1>2. TypeOK /\ TypeOK' /\ Dispatching /\ Books /\ [Next]_vars
         => [Board!BoardNext]_(Board!boardVars)
  <2> SUFFICES ASSUME BoardStep PROVE [Board!BoardNext]_(Board!boardVars)
    BY RefinementStep
  <2> QED
    BY DEF BoardStep, BoardQuiet, Board!boardVars, Phase, Urgency, Undecided, Open
<1> QED
  BY <1>1, <1>2, TypeCorrect, DispatchingCorrect, BooksCorrect, PTL
     DEF Spec, ImplementsBoard, Board!BoardSpec

-----------------------------------------------------------------------------
(***************************************************************************)
(* The jobs that the engine hands to the bridge: which items they are for,  *)
(* and the bytes that are counted for them.  Ledger is inductive given the  *)
(* layers before: an executor has handed over what its task has to transfer *)
(* and is no longer ahead of it, it waits for a job of its own task, and    *)
(* what was counted is covered by the jobs that nobody waits for any more.  *)
(***************************************************************************)

Moves(diffs) == {p \in Paths : diffs[p].action \in Transfers}

\* What is ahead of a goroutine that executes.
LeftOf(worker) == IF worker.pc \in {"wait", "count"}
                  THEN {p \in worker.todo : ~IsNext(p, worker.todo)}
                  ELSE worker.todo

JobPaths(js, t) == {js[i].req.path : i \in {j \in DOMAIN js : js[j].req.task = t}}

Fits(req, diffs) ==
    diffs[req.path].action \in IF req.direction = "upload" THEN Uploads ELSE Downloads

\* Nobody waits for the job i.
Free(i, ws) == \A w \in Workers : ws[w].pc = "wait" => ws[w].job # i
Countable(js, t, ws) == {i \in DOMAIN js : js[i].req.task = t /\ Free(i, ws)}
BytesIn(js) == [i \in DOMAIN js |-> js[i].bytes]

Once(js) == \A i, j \in DOMAIN js :
    js[i].req.task = js[j].req.task /\ js[i].req.path = js[j].req.path => i = j

\* A job that has not settled reports nothing.
Fresh(js) == \A i \in DOMAIN js : js[i].status = "in_progress" => js[i].bytes = 0

Handed(js, ts, ws) ==
    /\ \A i \in DOMAIN js : Fits(js[i].req, ts[js[i].req.task].diffs)
    /\ \A t \in TaskIds : ts[t].status = "completed" =>
          JobPaths(js, t) = Moves(ts[t].diffs)
    /\ \A w \in Workers : InExec(ws[w]) =>
          JobPaths(js, ws[w].task) = Moves(ts[ws[w].task].diffs) \ LeftOf(ws[w])
    /\ \A w \in Workers : ws[w].pc = "wait" =>
          ws[w].job \in DOMAIN js /\ js[ws[w].job].req.task = ws[w].task

Backed(js, ts, ws) ==
    \A t \in TaskIds : ts[t].bytes <= SumOver(BytesIn(js), Countable(js, t, ws))

Ledger == /\ Once(jobs) /\ Fresh(jobs)
          /\ Handed(jobs, tasks, workers) /\ Backed(jobs, tasks, workers)

-----------------------------------------------------------------------------

LEMMA JobsAre ==
    ASSUME TypeOK
    PROVE  /\ jobs \in Seq(Bridge!Job) /\ Len(jobs) \in Nat /\ DOMAIN jobs = 1..Len(jobs)
           /\ IsFiniteSet(DOMAIN jobs)
           /\ \A i \in DOMAIN jobs : /\ jobs[i] \in Bridge!Job /\ jobs[i].bytes \in Nat
                                     /\ jobs[i].req \in TransferRequest
                                     /\ jobs[i].req.task \in TaskIds /\ jobs[i].req.path \in Paths
<1>1. jobs \in Seq(Bridge!Job)
  BY DEF TypeOK, Bridge!JobTypeOK
<1>2. Len(jobs) \in Nat /\ DOMAIN jobs = 1..Len(jobs)
  BY <1>1
<1>3. IsFiniteSet(DOMAIN jobs)
  BY <1>2, FS_Interval
<1>4. \A i \in DOMAIN jobs : jobs[i] \in Bridge!Job
  BY <1>1, <1>2
<1> QED
  BY <1>1, <1>2, <1>3, <1>4 DEF Bridge!Job, TransferRequest

\* A sum over what can be counted, and what makes it larger.
LEMMA CountableSum ==
    ASSUME NEW js, NEW n \in Nat, DOMAIN js = 1..n, \A i \in DOMAIN js : js[i].bytes \in Nat,
           NEW S, S \subseteq DOMAIN js
    PROVE  /\ IsFiniteSet(S) /\ \A x \in S : BytesIn(js)[x] \in Nat /\ BytesIn(js)[x] = js[x].bytes
           /\ SumOver(BytesIn(js), S) \in Nat
<1>1. IsFiniteSet(S)
  BY FS_Interval, FS_Subset
<1>2. \A x \in S : BytesIn(js)[x] \in Nat /\ BytesIn(js)[x] = js[x].bytes
  BY DEF BytesIn
<1> QED
  BY <1>1, <1>2, SumType

\* A task that is neither completed nor executed has no jobs.
LEMMA NoJobsYet ==
    ASSUME TypeOK, Books, NEW t \in TaskIds, tasks[t].status # "completed",
           \A v \in Workers : Carries(v, t) => ~Executing(v)
    PROVE  \A i \in DOMAIN jobs : jobs[i].req.task # t
<1> SUFFICES ASSUME NEW i \in DOMAIN jobs, jobs[i].req.task = t PROVE FALSE
  OBVIOUS
<1>1. PICK v \in Workers : InExec(workers[v]) /\ workers[v].task = t
  BY DEF Books, JobsOK, Released
<1> QED
  BY <1>1 DEF Carries, Busy, Executing, InExec

\* The record of task t becomes nt and the goroutine w that carries it becomes
\* nw, which agree with each other and with the jobs.
Agreed(w, t, nt, nw) ==
    /\ nt.diffs = tasks[t].diffs \/ \A i \in DOMAIN jobs : jobs[i].req.task # t
    /\ nt.status = "completed" => JobPaths(jobs, t) = Moves(nt.diffs)
    /\ InExec(nw) => nw.task = t /\ JobPaths(jobs, t) = Moves(nt.diffs) \ LeftOf(nw)
    /\ nw.pc = "wait" => workers[w].pc = "wait" /\ nw.job = workers[w].job
    /\ \/ nt.bytes = tasks[t].bytes
       \/ /\ workers[w].pc = "wait" /\ nw.pc # "wait"
          /\ nt.bytes = tasks[t].bytes + jobs[workers[w].job].bytes

LEMMA OneTaskMoves ==
    ASSUME TypeOK, Ledger, NEW w \in Workers, NEW t \in TaskIds,
           \A v \in Workers : Carries(v, t) => v = w,
           Busy(w) => workers[w].task = t,
           NEW nt \in SyncTask, tasks' = [tasks EXCEPT ![t] = nt],
           NEW nw \in Worker, workers' = [workers EXCEPT ![w] = nw], jobs' = jobs,
           Agreed(w, t, nt, nw)
    PROVE  Ledger'
<1> SUFFICES ASSUME
      nt.diffs = tasks[t].diffs \/ \A i \in DOMAIN jobs : jobs[i].req.task # t,
      nt.status = "completed" => JobPaths(jobs, t) = Moves(nt.diffs),
      InExec(nw) => nw.task = t /\ JobPaths(jobs, t) = Moves(nt.diffs) \ LeftOf(nw),
      nw.pc = "wait" => workers[w].pc = "wait" /\ nw.job = workers[w].job,
      \/ nt.bytes = tasks[t].bytes
      \/ /\ workers[w].pc = "wait" /\ nw.pc # "wait"
         /\ nt.bytes = tasks[t].bytes + jobs[workers[w].job].bytes
    PROVE Ledger'
  BY DEF Agreed
<1>1. \A u \in TaskIds : tasks'[u] = IF u = t THEN nt ELSE tasks[u]
  BY DEF TypeOK
<1>2. \A v \in Workers : workers'[v] = IF v = w THEN nw ELSE workers[v]
  BY DEF TypeOK
<1>3. \A v \in Workers : Busy(v) => workers[v].task \in TaskIds
  BY DEF TypeOK, WorkerOK, Busy
<1>4. \A v \in Workers : v # w /\ Busy(v) => workers[v].task # t
  BY DEF Carries
<1>5. Once(jobs') /\ Fresh(jobs') /\ Handed(jobs, tasks, workers) /\ Backed(jobs, tasks, workers)
  BY DEF Ledger
<1>6. Handed(jobs', tasks', workers')
  <2>1. ASSUME NEW i \in DOMAIN jobs PROVE Fits(jobs[i].req, tasks'[jobs[i].req.task].diffs)
    <3>1. jobs[i].req.task \in TaskIds
      BY JobsAre
    <3>2. Fits(jobs[i].req, tasks[jobs[i].req.task].diffs)
      BY <1>5 DEF Handed
    <3>3. tasks'[jobs[i].req.task].diffs = tasks[jobs[i].req.task].diffs
      BY <1>1, <3>1
    <3> QED
      BY <3>2, <3>3
  <2>2. ASSUME NEW u \in TaskIds, tasks'[u].status = "completed"
        PROVE  JobPaths(jobs, u) = Moves(tasks'[u].diffs)
    BY <1>1, <1>5, <2>2 DEF Handed
  <2>3. ASSUME NEW v \in Workers, InExec(workers'[v])
        PROVE  JobPaths(jobs, workers'[v].task)
                 = Moves(tasks'[workers'[v].task].diffs) \ LeftOf(workers'[v])
    <3>1. CASE v = w
      BY <1>1, <1>2, <2>3, <3>1
    <3>2. CASE v # w
      <4>1. workers'[v] = workers[v] /\ Busy(v)
        BY <1>2, <2>3, <3>2 DEF Busy, InExec
      <4>2. workers[v].task \in TaskIds /\ workers[v].task # t
        BY <1>3, <1>4, <3>2, <4>1
      <4>3. tasks'[workers[v].task] = tasks[workers[v].task]
        BY <1>1, <4>2
      <4> QED
        BY <1>5, <2>3, <4>1, <4>3 DEF Handed
    <3> QED
      BY <3>1, <3>2
  <2>4. ASSUME NEW v \in Workers, workers'[v].pc = "wait"
        PROVE  workers'[v].job \in DOMAIN jobs /\ jobs[workers'[v].job].req.task = workers'[v].task
    <3>1. CASE v = w
      <4>1. /\ workers'[v] = nw /\ workers[w].pc = "wait" /\ nw.job = workers[w].job
            /\ nw.task = t /\ workers[w].task = t
        BY <1>2, <2>4, <3>1 DEF InExec, Busy
      <4> QED
        BY <1>5, <4>1 DEF Handed
    <3>2. CASE v # w
      BY <1>2, <1>5, <2>4, <3>2 DEF Handed
    <3> QED
      BY <3>1, <3>2
  <2> QED
    BY <2>1, <2>2, <2>3, <2>4 DEF Handed
<1>7. Backed(jobs', tasks', workers')
  <2> SUFFICES ASSUME NEW u \in TaskIds
               PROVE  tasks'[u].bytes <= SumOver(BytesIn(jobs), Countable(jobs, u, workers'))
    BY DEF Backed
  <2>1. PICK A : A = Countable(jobs, u, workers)
    OBVIOUS
  <2>2. PICK B : B = Countable(jobs, u, workers')
    OBVIOUS
  <2>3. PICK f : f = BytesIn(jobs)
    OBVIOUS
  <2>4. A \subseteq DOMAIN jobs /\ B \subseteq DOMAIN jobs
    BY <2>1, <2>2 DEF Countable
  <2>5. /\ IsFiniteSet(A) /\ IsFiniteSet(B) /\ SumOver(f, A) \in Nat /\ SumOver(f, B) \in Nat
        /\ \A x \in B : f[x] \in Nat /\ f[x] = jobs[x].bytes
    BY <2>3, <2>4, JobsAre, CountableSum
  <2>6. A \subseteq B
    <3>1. ASSUME NEW i, Free(i, workers) PROVE Free(i, workers')
      BY <1>2, <3>1 DEF Free
    <3> QED
      BY <2>1, <2>2, <3>1 DEF Countable
  <2>7. SumOver(f, A) <= SumOver(f, B)
    BY <2>5, <2>6, SumSubset
  <2>8. tasks[u].bytes <= SumOver(f, A) /\ tasks[u].bytes \in Nat /\ tasks'[u].bytes \in Nat
    BY <1>1, <1>5, <2>1, <2>3 DEF Backed, TypeOK, SyncTask
  <2>9. CASE tasks'[u].bytes = tasks[u].bytes
    BY <2>2, <2>3, <2>5, <2>7, <2>8, <2>9
  <2>10. CASE tasks'[u].bytes # tasks[u].bytes
    <3>1. PICK j : j = workers[w].job
      OBVIOUS
    <3>2. /\ u = t /\ workers[w].pc = "wait" /\ nw.pc # "wait"
          /\ tasks'[u].bytes = tasks[u].bytes + jobs[j].bytes
      BY <1>1, <2>10, <3>1
    <3>3. Busy(w) /\ workers[w].task = t /\ j \in DOMAIN jobs /\ jobs[j].req.task = t
      BY <1>5, <3>1, <3>2 DEF Busy, Handed
    <3>4. j \notin A
      BY <2>1, <3>1, <3>2 DEF Countable, Free
    <3>5. j \in B
      <4>1. ASSUME NEW v \in Workers, workers'[v].pc = "wait", workers'[v].job = j PROVE FALSE
        <5>1. v # w
          BY <1>2, <3>2, <4>1
        <5>2. workers[v].pc = "wait" /\ workers[v].job = j
          BY <1>2, <4>1, <5>1
        <5>3. workers[v].task = t
          BY <1>5, <3>3, <5>2 DEF Handed
        <5> QED
          BY <1>4, <5>1, <5>2, <5>3 DEF Busy
      <4>2. Free(j, workers')
        BY <4>1 DEF Free
      <4> QED
        BY <2>2, <3>2, <3>3, <4>2 DEF Countable
    <3>6. A \subseteq B \ {j} /\ IsFiniteSet(B \ {j}) /\ \A x \in B \ {j} : f[x] \in Nat
      BY <2>5, <2>6, <3>4, FS_Subset
    <3>7. SumOver(f, B) = f[j] + SumOver(f, B \ {j})
      BY <2>5, <3>5, SumRemove
    <3>8. SumOver(f, A) <= SumOver(f, B \ {j})
      BY <3>6, SumSubset
    <3>9. SumOver(f, B \ {j}) \in Nat /\ f[j] = jobs[j].bytes /\ f[j] \in Nat
      BY <2>5, <3>5, <3>6, SumType
    <3> QED
      BY <2>2, <2>3, <2>5, <2>8, <3>2, <3>7, <3>8, <3>9
  <2> QED
    BY <2>9, <2>10
<1> QED
  BY <1>5, <1>6, <1>7 DEF Ledger, Once, Fresh, Handed, Backed, Fits, JobPaths, Moves, LeftOf, InExec,
                          BytesIn, Countable, Free

\* A caller changes the record of a task that no goroutine carries.
LEMMA UncarriedTaskMoves ==
    ASSUME TypeOK, Dispatching, Books, Ledger, NEW t \in TaskIds,
           tasks[t].status \notin {"in_progress", "completed"},
           NEW nt \in SyncTask, tasks' = [tasks EXCEPT ![t] = nt],
           nt.status # "completed", nt.bytes = tasks[t].bytes,
           UNCHANGED <<workers, jobs>>
    PROVE  Ledger'
<1>1. \A u \in TaskIds : tasks'[u] = IF u = t THEN nt ELSE tasks[u]
  BY DEF TypeOK
<1>2. \A v \in Workers : Busy(v) => workers[v].task \in TaskIds /\ workers[v].task # t
  BY DEF TypeOK, WorkerOK, Busy, Dispatching, OneExecutor
<1>3. \A i \in DOMAIN jobs : jobs[i].req.task # t /\ jobs[i].req.task \in TaskIds
  BY <1>2, JobsAre, NoJobsYet DEF Carries
<1>4. /\ Once(jobs) /\ Fresh(jobs)
      /\ Handed(jobs, tasks, workers) /\ Backed(jobs, tasks, workers)
  BY DEF Ledger
<1>5. Handed(jobs, tasks', workers)
  <2>1. \A i \in DOMAIN jobs : Fits(jobs[i].req, tasks'[jobs[i].req.task].diffs)
    BY <1>1, <1>3, <1>4 DEF Handed
  <2>2. \A u \in TaskIds : tasks'[u].status = "completed" =>
           JobPaths(jobs, u) = Moves(tasks'[u].diffs)
    BY <1>1, <1>4 DEF Handed
  <2>3. ASSUME NEW w \in Workers, InExec(workers[w])
        PROVE  JobPaths(jobs, workers[w].task)
                 = Moves(tasks'[workers[w].task].diffs) \ LeftOf(workers[w])
    <3>1. tasks'[workers[w].task] = tasks[workers[w].task]
      BY <1>1, <1>2, <2>3 DEF InExec, Busy
    <3> QED
      BY <1>4, <2>3, <3>1 DEF Handed
  <2> QED
    BY <1>4, <2>1, <2>2, <2>3 DEF Handed
<1>6. Backed(jobs, tasks', workers)
  BY <1>1, <1>4 DEF Backed
<1> QED
  BY <1>4, <1>5, <1>6 DEF Ledger

\* The least of a set of positions is the only one.
LEMMA NextIsOne ==
    ASSUME NEW todo \in SUBSET Paths, NEW p, IsNext(p, todo)
    PROVE  {q \in todo : ~IsNext(q, todo)} = todo \ {p}
<1>1. \A q \in todo : q \in Nat
  BY PathsAssumption
<1>2. ASSUME NEW q \in todo, IsNext(q, todo) PROVE q = p
  BY <1>1, <1>2 DEF IsNext
<1> QED
  BY <1>2

\* A file is handed to the bridge: for the first time, in the direction of its
\* action, and counted by nobody until the executor has waited for it.
LEMMA HandOver ==
    ASSUME TypeOK, Dispatching, Ledger, NEW w \in Workers, NEW p \in Paths, ExecTransfer(w, p)
    PROVE  Ledger'
<1> DEFINE t   == workers[w].task
           a   == tasks[t].diffs[p].action
           n   == Len(jobs) + 1
           nw  == [workers[w] EXCEPT !.pc = "wait", !.job = n]
           req == [task |-> t, path |-> p, direction |-> Direction(a)]
           job == [req |-> req, status |-> "in_progress", bytes |-> 0]
<1>1. /\ Busy(w) /\ workers[w].pc = "exec" /\ InExec(workers[w]) /\ IsNext(p, workers[w].todo)
      /\ a \in Transfers /\ tasks' = tasks
  BY DEF ExecTransfer, Busy, InExec
<1>2. /\ t \in TaskIds /\ tasks[t] \in SyncTask /\ tasks[t].status = "in_progress"
      /\ workers[w] \in Worker
      /\ \A v \in Workers : Carries(v, t) => v = w
  BY <1>1, CarriedTask
<1>3. \A v \in Workers : workers'[v] = IF v = w THEN nw ELSE workers[v]
  BY DEF ExecTransfer, TypeOK
<1>4. nw.pc = "wait" /\ nw.task = t /\ nw.todo = workers[w].todo /\ nw.job = n
  BY <1>2 DEF Worker
<1>5. /\ n \in Nat /\ n \notin DOMAIN jobs /\ DOMAIN jobs' = 1..n
      /\ DOMAIN jobs' = DOMAIN jobs \cup {n}
      /\ jobs'[n] = job /\ \A i \in DOMAIN jobs : jobs'[i] = jobs[i]
  <2>1. jobs \in Seq(Bridge!Job) /\ Len(jobs) \in Nat /\ DOMAIN jobs = 1..Len(jobs)
    BY JobsAre
  <2>2. jobs' = Append(jobs, job)
    BY DEF ExecTransfer, Bridge!Transfer
  <2> HIDE DEF job
  <2> QED
    BY <2>1, <2>2
<1>6. job.req = req /\ job.status = "in_progress" /\ job.bytes = 0
  OBVIOUS
<1>7. req.task = t /\ req.path = p /\ req.direction = Direction(a)
  OBVIOUS
<1>8. /\ Once(jobs) /\ Fresh(jobs)
      /\ Handed(jobs, tasks, workers) /\ Backed(jobs, tasks, workers)
  BY DEF Ledger
<1> HIDE DEF t, a, n, nw, req, job
<1>9. p \in workers[w].todo /\ p \in Moves(tasks[t].diffs) /\ workers[w].todo \in SUBSET Paths
  BY <1>1, <1>2 DEF IsNext, Moves, a, Worker
<1>10. JobPaths(jobs, t) = Moves(tasks[t].diffs) \ workers[w].todo
  BY <1>1, <1>8 DEF Handed, LeftOf, t
<1>11. ASSUME NEW i \in DOMAIN jobs PROVE ~(jobs[i].req.task = t /\ jobs[i].req.path = p)
  <2>1. jobs[i].req.task = t => jobs[i].req.path \in JobPaths(jobs, t)
    BY DEF JobPaths
  <2> QED
    BY <1>9, <1>10, <2>1
<1>12. Once(jobs') /\ Fresh(jobs')
  <2>1. Once(jobs')
    BY <1>5, <1>6, <1>7, <1>8, <1>11 DEF Once
  <2> QED
    BY <1>5, <1>6, <1>8, <2>1 DEF Fresh
<1>13. JobPaths(jobs', t) = JobPaths(jobs, t) \cup {p}
  <2>1. jobs'[n].req.task = t /\ jobs'[n].req.path = p /\ n \in DOMAIN jobs'
    BY <1>5, <1>6, <1>7
  <2>2. ASSUME NEW q \in JobPaths(jobs', t) PROVE q \in JobPaths(jobs, t) \cup {p}
    <3>1. PICK i \in DOMAIN jobs' : jobs'[i].req.task = t /\ jobs'[i].req.path = q
      BY <2>2 DEF JobPaths
    <3> QED
      BY <1>5, <2>1, <3>1 DEF JobPaths
  <2>3. p \in JobPaths(jobs', t)
    BY <2>1 DEF JobPaths
  <2>4. ASSUME NEW q \in JobPaths(jobs, t) PROVE q \in JobPaths(jobs', t)
    <3>1. PICK i \in DOMAIN jobs : jobs[i].req.task = t /\ jobs[i].req.path = q
      BY <2>4 DEF JobPaths
    <3> QED
      BY <1>5, <3>1 DEF JobPaths
  <2> QED
    BY <2>2, <2>3, <2>4
<1>14. \A u : u # t => JobPaths(jobs', u) = JobPaths(jobs, u)
  BY <1>5, <1>6, <1>7 DEF JobPaths
<1>15. Handed(jobs', tasks, workers')
  <2>1. ASSUME NEW i \in DOMAIN jobs' PROVE Fits(jobs'[i].req, tasks[jobs'[i].req.task].diffs)
    <3>1. CASE i = n
      BY <1>1, <1>5, <1>6, <1>7, <3>1 DEF Fits, Direction, Transfers, Uploads, Downloads, a
    <3>2. CASE i \in DOMAIN jobs
      BY <1>5, <1>8, <3>2 DEF Handed
    <3> QED
      BY <1>5, <3>1, <3>2
  <2>2. \A u \in TaskIds : tasks[u].status = "completed" =>
           JobPaths(jobs', u) = Moves(tasks[u].diffs)
    BY <1>2, <1>8, <1>14 DEF Handed
  <2>3. ASSUME NEW v \in Workers, InExec(workers'[v])
        PROVE  JobPaths(jobs', workers'[v].task)
                 = Moves(tasks[workers'[v].task].diffs) \ LeftOf(workers'[v])
    <3>1. CASE v = w
      <4>1. LeftOf(nw) = workers[w].todo \ {p}
        BY <1>1, <1>4, <1>9, NextIsOne DEF LeftOf
      <4>2. JobPaths(jobs', t) = Moves(tasks[t].diffs) \ LeftOf(nw)
        BY <1>9, <1>10, <1>13, <4>1
      <4> QED
        BY <1>3, <1>4, <3>1, <4>2
    <3>2. CASE v # w
      <4>1. workers'[v] = workers[v] /\ InExec(workers[v])
        BY <1>3, <2>3, <3>2
      <4>2. workers[v].task # t
        BY <1>2, <3>2, <4>1 DEF Carries, Busy, InExec
      <4> QED
        BY <1>8, <1>14, <4>1, <4>2 DEF Handed
    <3> QED
      BY <3>1, <3>2
  <2>4. ASSUME NEW v \in Workers, workers'[v].pc = "wait"
        PROVE  workers'[v].job \in DOMAIN jobs' /\ jobs'[workers'[v].job].req.task = workers'[v].task
    <3>1. CASE v = w
      BY <1>3, <1>4, <1>5, <1>6, <1>7, <3>1
    <3>2. CASE v # w
      BY <1>3, <1>5, <1>8, <2>4, <3>2 DEF Handed
    <3> QED
      BY <3>1, <3>2
  <2> QED
    BY <2>1, <2>2, <2>3, <2>4 DEF Handed
<1>16. Backed(jobs', tasks, workers')
  <2> SUFFICES ASSUME NEW u \in TaskIds
               PROVE  tasks[u].bytes <= SumOver(BytesIn(jobs'), Countable(jobs', u, workers'))
    BY DEF Backed
  <2>1. PICK A : A = Countable(jobs, u, workers)
    OBVIOUS
  <2>2. PICK f : f = BytesIn(jobs)
    OBVIOUS
  <2>3. PICK g : g = BytesIn(jobs')
    OBVIOUS
  <2>4. Countable(jobs', u, workers') = A
    <3>1. ~Free(n, workers')
      BY <1>3, <1>4 DEF Free
    <3>2. ASSUME NEW i \in DOMAIN jobs PROVE Free(i, workers') <=> Free(i, workers)
      <4>1. i # n
        BY <1>5
      <4> QED
        BY <1>1, <1>3, <1>4, <4>1 DEF Free
    <3> QED
      BY <1>5, <2>1, <3>1, <3>2 DEF Countable
  <2>5. A \subseteq DOMAIN jobs
    BY <2>1 DEF Countable
  <2>6. IsFiniteSet(A) /\ \A x \in A : f[x] \in Nat /\ f[x] = jobs[x].bytes
    BY <2>2, <2>5, JobsAre, CountableSum
  <2>7. \A x \in A : g[x] = f[x]
    <3>1. \A x \in DOMAIN jobs' : g[x] = jobs'[x].bytes
      BY <2>3 DEF BytesIn
    <3> QED
      BY <1>5, <2>5, <2>6, <3>1
  <2>8. SumOver(g, A) = SumOver(f, A)
    BY <2>6, <2>7, SumSame
  <2> QED
    BY <1>8, <2>1, <2>2, <2>3, <2>4, <2>8 DEF Backed
<1> QED
  BY <1>1, <1>12, <1>15, <1>16
     DEF Ledger, Once, Fresh, Handed, Backed, Fits, JobPaths, Moves, LeftOf, InExec,
         BytesIn, Countable, Free

\* A job settles: it belongs to the same item, and its bytes only rise.
LEMMA Settling ==
    ASSUME TypeOK, TypeOK', Ledger, JobSettles
    PROVE  Ledger'
<1>1. PICK i \in DOMAIN jobs : Bridge!Complete(i) \/ Bridge!Fail(i)
  BY DEF JobSettles, Bridge!Settle
<1>2. UNCHANGED <<tasks, workers>>
  BY DEF JobSettles
<1>3. /\ jobs \in Seq(Bridge!Job) /\ Len(jobs) \in Nat /\ DOMAIN jobs = 1..Len(jobs)
      /\ \A j \in DOMAIN jobs : jobs[j] \in Bridge!Job /\ jobs[j].bytes \in Nat
  BY JobsAre
<1>4. /\ Once(jobs) /\ Fresh(jobs)
      /\ Handed(jobs, tasks, workers) /\ Backed(jobs, tasks, workers)
  BY DEF Ledger
<1>5. PICK new : /\ jobs' = [jobs EXCEPT ![i] = new] /\ new.req = jobs[i].req
                 /\ new.status # "in_progress"
  <2>1. CASE Bridge!Complete(i)
    <3>1. PICK b \in JobBytes :
             jobs' = [jobs EXCEPT ![i] = [@ EXCEPT !.status = "completed", !.bytes = b]]
      BY <2>1 DEF Bridge!Complete
    <3>2. PICK new : new = [jobs[i] EXCEPT !.status = "completed", !.bytes = b]
      OBVIOUS
    <3>3. new.req = jobs[i].req /\ new.status = "completed"
      BY <1>3, <3>2 DEF Bridge!Job
    <3>4. jobs' = [jobs EXCEPT ![i] = new]
      BY <3>1, <3>2
    <3> QED
      BY <3>3, <3>4
  <2>2. CASE Bridge!Fail(i)
    <3>1. PICK new : new = [jobs[i] EXCEPT !.status = "failed"]
      OBVIOUS
    <3>2. new.req = jobs[i].req /\ new.status = "failed"
      BY <1>3, <3>1 DEF Bridge!Job
    <3>3. jobs' = [jobs EXCEPT ![i] = new]
      BY <2>2, <3>1 DEF Bridge!Fail
    <3> QED
      BY <3>2, <3>3
  <2> QED
    BY <1>1, <2>1, <2>2
<1>6. DOMAIN jobs' = DOMAIN jobs /\ \A j \in DOMAIN jobs : jobs'[j] = IF j = i THEN new ELSE jobs[j]
  BY <1>3, <1>5
<1>7. \A j \in DOMAIN jobs : jobs'[j].req = jobs[j].req /\ (j # i => jobs'[j] = jobs[j])
  BY <1>5, <1>6
<1>8. \A j \in DOMAIN jobs' : jobs'[j].bytes \in Nat
  <2>1. jobs' \in Seq(Bridge!Job)
    BY DEF TypeOK, Bridge!JobTypeOK
  <2>2. \A j \in DOMAIN jobs' : jobs'[j] \in Bridge!Job
    BY <2>1
  <2> QED
    BY <2>2 DEF Bridge!Job
<1>9. jobs[i].bytes = 0
  BY <1>1, <1>4 DEF Fresh, Bridge!Complete, Bridge!Fail
<1>10. \A j \in DOMAIN jobs : jobs[j].bytes <= jobs'[j].bytes
  BY <1>3, <1>6, <1>7, <1>8, <1>9
<1>11. Once(jobs') /\ Fresh(jobs')
  BY <1>4, <1>5, <1>6, <1>7 DEF Once, Fresh
<1>12. \A u : JobPaths(jobs', u) = JobPaths(jobs, u)
  BY <1>6, <1>7 DEF JobPaths
<1>13. Handed(jobs', tasks, workers)
  <2>1. \A j \in DOMAIN jobs' : Fits(jobs'[j].req, tasks[jobs'[j].req.task].diffs)
    BY <1>4, <1>6, <1>7 DEF Handed
  <2>2. \A w \in Workers : workers[w].pc = "wait" =>
          workers[w].job \in DOMAIN jobs' /\ jobs'[workers[w].job].req.task = workers[w].task
    BY <1>4, <1>6, <1>7 DEF Handed
  <2> QED
    BY <1>4, <1>12, <2>1, <2>2 DEF Handed
<1>14. Backed(jobs', tasks, workers)
  <2> SUFFICES ASSUME NEW u \in TaskIds
               PROVE  tasks[u].bytes <= SumOver(BytesIn(jobs'), Countable(jobs', u, workers))
    BY DEF Backed
  <2>1. PICK A : A = Countable(jobs, u, workers)
    OBVIOUS
  <2>2. PICK f : f = BytesIn(jobs)
    OBVIOUS
  <2>3. PICK g : g = BytesIn(jobs')
    OBVIOUS
  <2>4. Countable(jobs', u, workers) = A
    BY <1>6, <1>7, <2>1 DEF Countable
  <2>5. A \subseteq DOMAIN jobs
    BY <2>1 DEF Countable
  <2>6. IsFiniteSet(A) /\ \A x \in A : f[x] \in Nat /\ f[x] = jobs[x].bytes
    BY <1>3, <2>2, <2>5, CountableSum
  <2>7. \A x \in A : g[x] \in Nat /\ f[x] <= g[x]
    <3>1. \A x \in DOMAIN jobs' : g[x] = jobs'[x].bytes
      BY <2>3 DEF BytesIn
    <3> QED
      BY <1>6, <1>8, <1>10, <2>5, <2>6, <3>1
  <2>8. SumOver(f, A) <= SumOver(g, A) /\ SumOver(f, A) \in Nat /\ SumOver(g, A) \in Nat
    BY <2>6, <2>7, SumMonotone, SumType
  <2>9. tasks[u].bytes \in Nat /\ tasks[u].bytes <= SumOver(f, A)
    BY <1>4, <2>1, <2>2 DEF Backed, TypeOK, SyncTask
  <2> QED
    BY <2>3, <2>4, <2>8, <2>9
<1>15. Handed(jobs', tasks', workers') /\ Backed(jobs', tasks', workers')
  BY <1>2, <1>13, <1>14
<1> QED
  BY <1>11, <1>15 DEF Ledger, Once, Fresh, Handed, Backed, Fits, JobPaths, Moves, LeftOf, InExec,
                      BytesIn, Countable, Free

LEMMA NoPaths ==
    ASSUME NEW t, \A i \in DOMAIN jobs : jobs[i].req.task # t
    PROVE  JobPaths(jobs, t) = {}
  BY DEF JobPaths

LEMMA LedgerStep ==
    ASSUME TypeOK, TypeOK', Dispatching, Books, Ledger, [Next]_vars
    PROVE  Ledger'
<1>0. /\ workers \in [Workers -> Worker] /\ workers' \in [Workers -> Worker]
      /\ tasks \in [TaskIds -> SyncTask] /\ tasks' \in [TaskIds -> SyncTask]
      /\ Handed(jobs, tasks, workers)
  BY DEF TypeOK, Ledger
<1>1. ASSUME NEW n \in PriorityInputs, NEW s \in StrategyInputs, EnqueueTask(n, s)
      PROVE  Ledger'
  <2> DEFINE t  == taskCounter + 1
             pr == Default(n, 0, 2)
             st == Default(s, "", NewestWins)
             nt == [NoTask EXCEPT !.status = "queued", !.priority = pr, !.strategy = st]
  <2>1. t \in TaskIds /\ tasks[t].status = "none"
    BY <1>1, BoundsAssumption DEF TypeOK, EnqueueTask, TaskIds, Dispatching, IdsInOrder
  <2>2. tasks' = [tasks EXCEPT ![t] = nt] /\ UNCHANGED <<workers, jobs>>
    BY <1>1 DEF EnqueueTask
  <2> HIDE DEF pr, st
  <2>3. nt \in SyncTask
    BY <1>0, <2>1, <2>2
  <2>4. nt.status = "queued" /\ nt.bytes = 0
    BY DEF NoTask
  <2>5. tasks[t].bytes = 0
    BY <2>1 DEF Books, RecordOK
  <2> HIDE DEF nt, t
  <2> QED
    BY <2>1, <2>2, <2>3, <2>4, <2>5, UncarriedTaskMoves
<1>2. ASSUME NEW w \in Workers, ProcessNextInQueue(w)
      PROVE  Ledger'
  <2>1. PICK i \in 1..Len(queue) :
          /\ IsFirstQueued(i)
          /\ tasks' = [tasks EXCEPT ![queue[i]].status = "in_progress"]
          /\ workers' = [workers EXCEPT ![w] =
                           [Idle EXCEPT !.pc = "list", !.task = queue[i]]]
    BY <1>2 DEF ProcessNextInQueue
  <2> DEFINE t  == queue[i]
             nt == [tasks[t] EXCEPT !.status = "in_progress"]
             nw == [Idle EXCEPT !.pc = "list", !.task = t]
  <2>2. t \in TaskIds /\ tasks[t].status = "queued" /\ tasks[t] \in SyncTask
    BY <2>1 DEF TypeOK, IsFirstQueued
  <2>3. tasks' = [tasks EXCEPT ![t] = nt] /\ workers' = [workers EXCEPT ![w] = nw]
    BY <2>1
  <2>4. nt \in SyncTask /\ nw \in Worker
    BY <1>0, <2>2, <2>3
  <2>5. nt.status = "in_progress" /\ nt.diffs = tasks[t].diffs /\ nt.bytes = tasks[t].bytes
    BY <2>2 DEF SyncTask
  <2>6. nw.pc = "list"
    BY DEF Idle
  <2>7. ~Busy(w) /\ jobs' = jobs
    BY <1>2 DEF ProcessNextInQueue, Busy
  <2>8. \A v \in Workers : Carries(v, t) => v = w
    BY <2>2 DEF Carries, Dispatching, OneExecutor
  <2> HIDE DEF nt, nw, t
  <2>9. ~InExec(nw) /\ nw.pc # "wait"
    BY <2>6 DEF InExec
  <2>10. Agreed(w, t, nt, nw)
    BY <2>5, <2>9 DEF Agreed
  <2> QED
    BY <2>2, <2>3, <2>4, <2>7, <2>8, <2>10, OneTaskMoves
<1>3. CASE ProcessEmptyQueue
  BY <1>3 DEF ProcessEmptyQueue, Ledger
<1>4. ASSUME NEW w \in Workers, RunSyncTask(w)
      PROVE  Ledger'
  <2> DEFINE t == workers[w].task
  <2>1. Busy(w) /\ workers[w].pc = "list"
    BY <1>4 DEF RunSyncTask, Busy
  <2>2. /\ t \in TaskIds /\ tasks[t] \in SyncTask /\ tasks[t].status = "in_progress"
        /\ \A v \in Workers : Carries(v, t) => v = w
    BY <2>1, CarriedTask
  <2>3. PICK local \in ListFiles, remote \in ListFiles :
          LET diffs == CalculateDiff(local, remote, tasks[t].strategy)
          IN  /\ tasks' = [tasks EXCEPT ![t] = Listed(@, diffs)]
              /\ workers' = [workers EXCEPT ![w] =
                    IF HasConflict(diffs) THEN Idle
                    ELSE [@ EXCEPT !.pc = "exec", !.todo = ItemPaths(diffs)]]
    BY <1>4 DEF RunSyncTask
  <2> DEFINE diffs == CalculateDiff(local, remote, tasks[t].strategy)
             nt    == Listed(tasks[t], diffs)
             go    == [workers[w] EXCEPT !.pc = "exec", !.todo = ItemPaths(diffs)]
             nw    == IF HasConflict(diffs) THEN Idle ELSE go
  <2>4. tasks' = [tasks EXCEPT ![t] = nt] /\ workers' = [workers EXCEPT ![w] = nw]
    BY <1>0, <2>2, <2>3
  <2> HIDE DEF diffs
  <2>5. nt \in SyncTask
    BY <1>0, <2>2, <2>4
  <2>6. nw \in Worker
    BY <1>0, <2>4
  <2>7. jobs' = jobs /\ ~Executing(w)
    BY <1>4, <2>1 DEF RunSyncTask, Executing
  <2>8. \A i \in DOMAIN jobs : jobs[i].req.task # t
    BY <2>2, <2>7, NoJobsYet
  <2>9. JobPaths(jobs, t) = {}
    BY <2>8, NoPaths
  <2>10. nt.status # "completed" /\ nt.bytes = tasks[t].bytes /\ nt.diffs = diffs
    BY <2>2 DEF Listed, SyncTask
  <2>11. /\ nw.pc # "wait"
         /\ InExec(nw) => nw.task = t /\ Moves(nt.diffs) \ LeftOf(nw) = {}
    <3>1. go.pc = "exec" /\ go.task = t /\ go.todo = ItemPaths(diffs)
      BY <1>0 DEF Worker
    <3>2. Idle.pc = "idle" /\ ~InExec(Idle)
      BY DEF Idle, InExec
    <3> HIDE DEF go, nt
    <3>3. LeftOf(go) = ItemPaths(diffs)
      BY <3>1 DEF LeftOf
    <3>4. Moves(diffs) \ ItemPaths(diffs) = {}
      BY DEF Moves, ItemPaths, Transfers, Uploads, Downloads
    <3> QED
      BY <2>10, <3>1, <3>2, <3>3, <3>4
  <2> HIDE DEF nt, nw
  <2>12. Agreed(w, t, nt, nw)
    BY <2>8, <2>9, <2>10, <2>11 DEF Agreed
  <2> QED
    BY <2>1, <2>2, <2>4, <2>5, <2>6, <2>7, <2>12, OneTaskMoves
<1>5. ASSUME NEW w \in Workers, NEW p \in Paths, ExecInSync(w, p) \/ CountItem(w, p)
      PROVE  Ledger'
  <2> DEFINE t  == workers[w].task
             nt == Counted(tasks[t])
             nw == Advanced(workers[w], p)
  <2>1. /\ Busy(w) /\ InExec(workers[w]) /\ IsNext(p, workers[w].todo) /\ jobs' = jobs
        /\ \/ workers[w].pc = "exec" /\ tasks[t].diffs[p].action \notin Transfers
           \/ workers[w].pc = "count"
    BY <1>5 DEF ExecInSync, CountItem, Busy, InExec
  <2>2. /\ t \in TaskIds /\ tasks[t] \in SyncTask /\ tasks[t].status = "in_progress"
        /\ workers[w] \in Worker
        /\ \A v \in Workers : Carries(v, t) => v = w
    BY <2>1, CarriedTask
  <2>3. tasks' = [tasks EXCEPT ![t] = nt] /\ workers' = [workers EXCEPT ![w] = nw]
    BY <1>5 DEF ExecInSync, CountItem
  <2>4. nt \in SyncTask /\ nw \in Worker
    BY <1>0, <2>2, <2>3
  <2>5. nw.task = t /\ nw.pc = "exec" /\ nw.todo = workers[w].todo \ {p}
    BY <2>2 DEF Advanced, Worker
  <2>6. nt.status = tasks[t].status /\ nt.diffs = tasks[t].diffs /\ nt.bytes = tasks[t].bytes
    BY <2>2 DEF Counted, SyncTask
  <2>7. JobPaths(jobs, t) = Moves(tasks[t].diffs) \ LeftOf(workers[w])
    BY <1>0, <2>1 DEF Handed
  <2> HIDE DEF nt, nw, t
  <2>8. LeftOf(nw) = workers[w].todo \ {p}
    BY <2>5 DEF LeftOf
  <2>9. Moves(tasks[t].diffs) \ LeftOf(workers[w]) = Moves(tasks[t].diffs) \ LeftOf(nw)
    <3>1. CASE workers[w].pc = "exec" /\ tasks[t].diffs[p].action \notin Transfers
      <4>1. p \notin Moves(tasks[t].diffs)
        BY <3>1 DEF Moves
      <4>2. LeftOf(workers[w]) = workers[w].todo
        BY <3>1 DEF LeftOf
      <4> QED
        BY <2>8, <4>1, <4>2
    <3>2. CASE workers[w].pc = "count"
      <4>1. workers[w].todo \in SUBSET Paths
        BY <2>2 DEF Worker
      <4>2. LeftOf(workers[w]) = workers[w].todo \ {p}
        BY <2>1, <3>2, <4>1, NextIsOne DEF LeftOf
      <4> QED
        BY <2>8, <4>2
    <3> QED
      BY <2>1, <3>1, <3>2
  <2>10. nw.pc # "wait" /\ t = workers[w].task
    BY <2>5 DEF t
  <2>11. Agreed(w, t, nt, nw)
    BY <2>2, <2>5, <2>6, <2>7, <2>9, <2>10 DEF Agreed
  <2> QED
    BY <2>1, <2>2, <2>3, <2>4, <2>10, <2>11, OneTaskMoves
<1>6. ASSUME NEW w \in Workers, NEW p \in Paths, ExecTransfer(w, p)
      PROVE  Ledger'
  BY <1>6, HandOver
<1>7. ASSUME NEW w \in Workers, PollSettled(w)
      PROVE  Ledger'
  <2> DEFINE t  == workers[w].task
             nt == [tasks[t] EXCEPT !.bytes = tasks[t].bytes + jobs[workers[w].job].bytes]
             nw == [workers[w] EXCEPT !.pc = "count"]
  <2>1. Busy(w) /\ InExec(workers[w]) /\ workers[w].pc = "wait" /\ jobs' = jobs
    BY <1>7 DEF PollSettled, Busy, InExec
  <2>2. /\ t \in TaskIds /\ tasks[t] \in SyncTask /\ tasks[t].status = "in_progress"
        /\ \A v \in Workers : Carries(v, t) => v = w
    BY <2>1, CarriedTask
  <2>3. tasks' = [tasks EXCEPT ![t] = nt] /\ workers' = [workers EXCEPT ![w] = nw]
    BY <1>0, <1>7, <2>2 DEF PollSettled, SyncTask
  <2>4. nt \in SyncTask /\ nw \in Worker
    BY <1>0, <2>2, <2>3
  <2>5. nw.pc = "count" /\ nw.task = t /\ nw.todo = workers[w].todo
    BY <1>0 DEF Worker
  <2>6. /\ nt.status = tasks[t].status /\ nt.diffs = tasks[t].diffs
        /\ nt.bytes = tasks[t].bytes + jobs[workers[w].job].bytes
    BY <2>2 DEF SyncTask
  <2>7. JobPaths(jobs, t) = Moves(tasks[t].diffs) \ LeftOf(workers[w])
    BY <1>0, <2>1 DEF Handed
  <2> HIDE DEF nt, nw, t
  <2>8. LeftOf(nw) = LeftOf(workers[w])
    BY <2>1, <2>5 DEF LeftOf
  <2>9. nw.pc # "wait" /\ t = workers[w].task
    BY <2>5 DEF t
  <2>10. Agreed(w, t, nt, nw)
    BY <2>1, <2>2, <2>5, <2>6, <2>7, <2>8, <2>9 DEF Agreed
  <2> QED
    BY <2>1, <2>2, <2>3, <2>4, <2>9, <2>10, OneTaskMoves
<1>8. ASSUME NEW w \in Workers, PollPending(w)
      PROVE  Ledger'
  <2> DEFINE t  == workers[w].task
             nw == Polled(workers[w])
  <2>1. Busy(w) /\ InExec(workers[w]) /\ workers[w].pc = "wait" /\ jobs' = jobs
    BY <1>8 DEF PollPending, Busy, InExec
  <2>2. /\ t \in TaskIds /\ tasks[t] \in SyncTask /\ tasks[t].status = "in_progress"
        /\ \A v \in Workers : Carries(v, t) => v = w
    BY <2>1, CarriedTask
  <2>3. tasks' = [tasks EXCEPT ![t] = tasks[t]] /\ workers' = [workers EXCEPT ![w] = nw]
    BY <1>0, <1>8 DEF PollPending
  <2>4. nw \in Worker
    BY <1>0, <2>3
  <2>5. /\ nw.pc \in {"wait", "count"} /\ nw.task = t
        /\ nw.todo = workers[w].todo /\ nw.job = workers[w].job
    BY <1>0 DEF Worker, Polled
  <2>6. JobPaths(jobs, t) = Moves(tasks[t].diffs) \ LeftOf(workers[w])
    BY <1>0, <2>1 DEF Handed
  <2> HIDE DEF nw, t
  <2>7. LeftOf(nw) = LeftOf(workers[w])
    BY <2>1, <2>5 DEF LeftOf
  <2>8. t = workers[w].task
    BY DEF t
  <2>9. Agreed(w, t, tasks[t], nw)
    BY <2>1, <2>2, <2>5, <2>6, <2>7 DEF Agreed
  <2> QED
    BY <2>1, <2>2, <2>3, <2>4, <2>8, <2>9, OneTaskMoves
<1>9. ASSUME NEW w \in Workers, FinishTask(w)
      PROVE  Ledger'
  <2> DEFINE t  == workers[w].task
             nt == Completed(tasks[t])
  <2>1. /\ Busy(w) /\ InExec(workers[w]) /\ workers[w].pc = "exec" /\ workers[w].todo = {}
        /\ jobs' = jobs
    BY <1>9 DEF FinishTask, Busy, InExec
  <2>2. /\ t \in TaskIds /\ tasks[t] \in SyncTask /\ tasks[t].status = "in_progress"
        /\ \A v \in Workers : Carries(v, t) => v = w
    BY <2>1, CarriedTask
  <2>3. tasks' = [tasks EXCEPT ![t] = nt] /\ workers' = [workers EXCEPT ![w] = Idle]
    BY <1>9 DEF FinishTask
  <2>4. nt \in SyncTask /\ Idle \in Worker /\ Idle.pc # "wait" /\ ~InExec(Idle)
    BY <1>0, <2>2, <2>3, IdleType DEF Idle, InExec
  <2>5. nt.diffs = tasks[t].diffs /\ nt.bytes = tasks[t].bytes
    BY <2>2 DEF Completed, SyncTask
  <2>6. JobPaths(jobs, t) = Moves(tasks[t].diffs)
    <3>1. LeftOf(workers[w]) = {}
      BY <2>1 DEF LeftOf
    <3> QED
      BY <1>0, <2>1, <3>1 DEF Handed
  <2> HIDE DEF nt
  <2>7. Agreed(w, t, nt, Idle)
    BY <2>4, <2>5, <2>6 DEF Agreed
  <2> HIDE DEF t
  <2>8. t = workers[w].task
    BY DEF t
  <2> QED
    BY <2>1, <2>2, <2>3, <2>4, <2>7, <2>8, OneTaskMoves
<1>10. ASSUME NEW t \in TaskIds, NEW p \in Paths, NEW c \in UserChoices,
              NEW w \in Workers, ResolveConflict(t, p, c, w)
       PROVE  Ledger'
  <2> DEFINE diffs == [tasks[t].diffs EXCEPT ![p] = Resolve(@, c)]
             nt    == Decided(tasks[t], diffs)
             nw    == [Idle EXCEPT !.pc = "exec", !.task = t, !.todo = ItemPaths(diffs)]
  <2>1. tasks' = [tasks EXCEPT ![t] = nt] /\ jobs' = jobs
    BY <1>10 DEF ResolveConflict
  <2>2. workers' = IF Resumes(tasks[t], diffs) THEN [workers EXCEPT ![w] = nw] ELSE workers
    BY <1>10 DEF ResolveConflict
  <2>3. ~Busy(w) /\ tasks[t] \in SyncTask /\ tasks[t].status = "conflict"
    <3>1. tasks[t].diffs[p].conflict /\ RecordOK(tasks[t])
      BY <1>10 DEF ResolveConflict, Books
    <3> QED
      BY <1>0, <1>10, <3>1 DEF ResolveConflict, Busy, RecordOK, HasConflict
  <2> HIDE DEF diffs
  <2>4. nt \in SyncTask
    BY <1>0, <2>1
  <2>5. nt.status # "completed" /\ nt.bytes = tasks[t].bytes /\ nt.diffs = diffs
    BY <2>3 DEF Decided, SyncTask
  <2>6. CASE Resumes(tasks[t], diffs)
    <3>1. workers' = [workers EXCEPT ![w] = nw]
      BY <2>2, <2>6
    <3>2. nw.pc = "exec" /\ nw.task = t /\ nw.todo = ItemPaths(diffs)
      BY DEF Idle
    <3>3. nw \in Worker
      BY <1>0, <3>1
    <3>4. \A v \in Workers : ~Carries(v, t)
      BY <2>3 DEF Carries, Dispatching, OneExecutor
    <3>5. \A i \in DOMAIN jobs : jobs[i].req.task # t
      BY <2>3, <3>4, NoJobsYet
    <3>6. JobPaths(jobs, t) = {}
      BY <3>5, NoPaths
    <3> HIDE DEF nw, nt
    <3>7. LeftOf(nw) = ItemPaths(diffs)
      BY <3>2 DEF LeftOf
    <3>8. Moves(diffs) \ ItemPaths(diffs) = {}
      BY DEF Moves, ItemPaths, Transfers, Uploads, Downloads
    <3>9. Agreed(w, t, nt, nw)
      BY <2>5, <3>2, <3>5, <3>6, <3>7, <3>8 DEF Agreed
    <3> QED
      BY <2>1, <2>3, <2>4, <3>1, <3>3, <3>4, <3>9, OneTaskMoves
  <2>7. CASE ~Resumes(tasks[t], diffs)
    <3> HIDE DEF nt
    <3> QED
      BY <2>1, <2>2, <2>3, <2>4, <2>5, <2>7, UncarriedTaskMoves
  <2> QED
    BY <2>6, <2>7
<1>11. CASE JobSettles
  BY <1>11, Settling
<1>12. CASE UNCHANGED vars
  BY <1>12 DEF vars, Ledger
<1> QED
  BY <1>1, <1>2, <1>3, <1>4, <1>5, <1>6, <1>7, <1>8, <1>9, <1>10, <1>11, <1>12
     DEF Next, Caller, Dispatch, WorkerStep

LEMMA LedgerInit == Init => Ledger
<1> SUFFICES ASSUME Init PROVE Ledger
  OBVIOUS
<1>1. jobs = <<>> /\ DOMAIN jobs = {}
  BY DEF Init, Bridge!JobInit
<1>2. \A t \in TaskIds : tasks[t].status = "none" /\ tasks[t].bytes = 0
  BY DEF Init, NoTask
<1>3. \A w \in Workers : workers[w].pc = "idle"
  BY DEF Init, Idle
<1>4. Once(jobs) /\ Fresh(jobs)
  BY <1>1 DEF Once, Fresh
<1>5. Handed(jobs, tasks, workers)
  BY <1>1, <1>2, <1>3 DEF Handed, InExec
<1>6. ASSUME NEW t \in TaskIds
      PROVE  tasks[t].bytes <= SumOver(BytesIn(jobs), Countable(jobs, t, workers))
  <2>1. Countable(jobs, t, workers) = {}
    BY <1>1 DEF Countable
  <2> QED
    BY <1>2, <2>1, SumEmpty
<1> QED
  BY <1>4, <1>5, <1>6 DEF Ledger, Backed

\* The jobs of the bridge, the goroutines that wait for them and the bytes
\* counted for them agree in every reachable state.
THEOREM LedgerCorrect == Spec => []Ledger
<1>1. Init => Ledger
  BY LedgerInit
<1>2. TypeOK /\ TypeOK' /\ Dispatching /\ Books /\ Ledger /\ [Next]_vars => Ledger'
  BY LedgerStep
<1> QED
  BY <1>1, <1>2, TypeCorrect, DispatchingCorrect, BooksCorrect, PTL DEF Spec

\* executeTaskActions hands every item that calls for a transfer to
\* Bridge.Transfer exactly once and in the direction of its action, whatever
\* the other goroutines, the callers and the bridge do, and no other item.
THEOREM JobsAlwaysFollowDecisions == Spec => []JobsFollowDecisions
<1>1. TypeOK /\ Dispatching /\ Ledger => JobsFollowDecisions
  <2> SUFFICES ASSUME TypeOK, Dispatching, Ledger PROVE JobsFollowDecisions
    OBVIOUS
  <2>1. Once(jobs) /\ Handed(jobs, tasks, workers)
    BY DEF Ledger
  <2>2. ASSUME NEW t \in TaskIds, Started(t)
        PROVE  JobPaths(jobs, t) = ToTransfer(t) \ Ahead(t)
    <3>1. Moves(tasks[t].diffs) = ToTransfer(t)
      BY DEF Moves, ToTransfer
    <3>2. CASE tasks[t].status = "completed"
      <4>1. {v \in Workers : Carries(v, t)} = {}
        BY <3>2 DEF Dispatching, OneExecutor, Carries
      <4>2. Ahead(t) = {}
        BY <4>1 DEF Ahead
      <4> QED
        BY <2>1, <3>1, <3>2, <4>2 DEF Handed
    <3>3. ASSUME NEW w \in Workers, Carries(w, t), Executing(w)
          PROVE  JobPaths(jobs, t) = ToTransfer(t) \ Ahead(t)
      <4>1. {v \in Workers : Carries(v, t)} = {w}
        BY <3>3 DEF Dispatching, OneExecutor, Carries
      <4>2. Ahead(t) = LeftOf(workers[w])
        BY <4>1 DEF Ahead, LeftOf
      <4>3. InExec(workers[w]) /\ workers[w].task = t
        BY <3>3 DEF InExec, Executing, Carries
      <4> QED
        BY <2>1, <3>1, <4>2, <4>3 DEF Handed
    <3> QED
      BY <2>2, <3>2, <3>3 DEF Started
  <2>3. \A i, j \in DOMAIN jobs :
          jobs[i].req.task = jobs[j].req.task /\ jobs[i].req.path = jobs[j].req.path => i = j
    BY <2>1 DEF Once
  <2>4. \A i \in DOMAIN jobs : Fits(jobs[i].req, tasks[jobs[i].req.task].diffs)
    BY <2>1 DEF Handed
  <2> QED
    BY <2>2, <2>3, <2>4 DEF JobsFollowDecisions, JobPaths, Fits
<1> QED
  BY <1>1, TypeCorrect, DispatchingCorrect, LedgerCorrect, PTL

\* BytesTransferred of a task never exceeds what its jobs report together: no
\* job is counted twice, and none before it has settled.
THEOREM BytesAlwaysBacked == Spec => []BytesBacked
<1>1. TypeOK /\ Ledger => BytesBacked
  <2> SUFFICES ASSUME TypeOK, Ledger, NEW t \in TaskIds
               PROVE  tasks[t].bytes <= MapThenSumSet(LAMBDA i : Reported[i], JobsOf(t))
    BY Zenon DEF BytesBacked
  <2>1. PICK f : f = Reported
    OBVIOUS
  <2>2. PICK S : S = JobsOf(t)
    OBVIOUS
  <2>3. PICK A : A = Countable(jobs, t, workers)
    OBVIOUS
  <2>4. A \subseteq S /\ S \subseteq DOMAIN jobs /\ f = BytesIn(jobs)
    BY <2>1, <2>2, <2>3 DEF Countable, JobsOf, Reported, BytesIn
  <2>5. IsFiniteSet(S) /\ (\A x \in S : f[x] \in Nat) /\ SumOver(f, S) \in Nat
    BY <2>4, JobsAre, CountableSum
  <2>6. SumOver(f, A) \in Nat
    BY <2>4, JobsAre, CountableSum
  <2>7. SumOver(f, A) <= SumOver(f, S)
    BY <2>4, <2>5, SumSubset
  <2>8. tasks[t].bytes <= SumOver(f, A) /\ tasks[t].bytes \in Nat
    BY <2>3, <2>4 DEF Ledger, Backed, TypeOK, SyncTask
  <2>9. tasks[t].bytes <= SumOver(f, S)
    BY <2>5, <2>6, <2>7, <2>8
  <2>10. MapThenSumSet(LAMBDA i : Reported[i], JobsOf(t)) = SumOver(Reported, JobsOf(t))
    BY SumIsSumOver
  <2> QED
    BY <2>1, <2>2, <2>9, <2>10
<1> QED
  BY <1>1, TypeCorrect, LedgerCorrect, PTL
=============================================================================
