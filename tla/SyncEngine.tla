----------------------------- MODULE SyncEngine -----------------------------
(***************************************************************************)
(* The sync engine (core/internal/sync/sync.go): its task map, its priority *)
(* queue, and the goroutines that EnqueueTask, ResolveConflict and the end  *)
(* of a task start.  A step is what one goroutine does between two points   *)
(* where another may run: a section under Engine.mu, or a call of the       *)
(* bridge.  The bridge is the job table it promises to be (JobTable).       *)
(*                                                                         *)
(* Two places spawn `go e.processNextInQueue()`.  A goroutine that has not  *)
(* yet taken the lock has no state of its own, so those are only counted    *)
(* (spawned), from the end of the section whose code goes on to spawn it;   *)
(* one that has found a task is a worker.                                   *)
(***************************************************************************)
EXTENDS SyncDiff, Sequences, SequencesExt

CONSTANTS
    MaxTasks,         \* bound: the tasks ever enqueued
    Workers,          \* names for the goroutines that carry a task
    PollLimit,        \* how often waitBridgeJob polls (50 in the code)
    Listings,         \* what a readable directory may list
    PriorityInputs,   \* the Priority values callers pass; 0 is "not set"
    StrategyInputs,   \* the Strategy values callers pass; "" is "not set"
    JobBytes          \* the byte counts a completed job may report

ASSUME BoundsAssumption ==
    /\ MaxTasks \in Nat
    /\ PollLimit \in Nat \ {0}
    /\ IsFiniteSet(Workers)
ASSUME InputAssumption ==
    /\ Listings \subseteq Listing
    /\ PriorityInputs \subseteq 0..3
    /\ StrategyInputs \subseteq Strategies \cup {""}
    /\ JobBytes \subseteq Nat

VARIABLES
    taskCounter,   \* Engine.taskCounter
    tasks,         \* Engine.tasks: id -> SyncTask
    queue,         \* Engine.queue: the ids of the queued tasks
    spawned,       \* processNextInQueue goroutines before their first lock
    workers,       \* goroutines inside runSyncTask or executeTaskActions
    jobs           \* Bridge.jobs

vars == <<taskCounter, tasks, queue, spawned, workers, jobs>>

TaskIds    == 1..MaxTasks
Priorities == 1..3
Statuses   == {"none", "queued", "in_progress", "conflict", "completed"}

SyncTask == [status : Statuses, priority : Priorities \cup {0},
             strategy : Strategies, diffs : Diffs, total : Nat,
             processed : Nat, percentage : Nat, bytes : Nat]

NoTask == [status |-> "none", priority |-> 0, strategy |-> NewestWins,
           diffs |-> NoDiffs, total |-> 0, processed |-> 0,
           percentage |-> 0, bytes |-> 0]

\* "list": before runSyncTask's listings; "exec": at the head of the loop of
\* executeTaskActions; "wait": in waitBridgeJob; "count": after it.
Worker == [pc : {"idle", "list", "exec", "wait", "count"},
           task : TaskIds \cup {0}, todo : SUBSET Paths,
           job : Nat, polls : 0..PollLimit]

Idle == [pc |-> "idle", task |-> 0, todo |-> {}, job |-> 0, polls |-> 0]

\* A Transfer call: srcPath and dstPath are the path joined to the two
\* directories of the task, and swapped for a download.
TransferRequest ==
    [task : TaskIds, path : Paths, direction : {"upload", "download"}]

Bridge == INSTANCE JobTable WITH Requests <- TransferRequest

-----------------------------------------------------------------------------

Init ==
    /\ taskCounter = 0
    /\ tasks = [t \in TaskIds |-> NoTask]
    /\ queue = <<>>
    /\ spawned = 0
    /\ workers = [w \in Workers |-> Idle]
    /\ Bridge!JobInit

(* EnqueueTask                                                             *)

Default(value, unset, default) == IF value = unset THEN default ELSE value

\* Slip_*: plausible slips in the code, which the properties must notice.
Slip_BeforeEquals(q, t, priority, result) ==
    \E k \in 1..(Len(q) + 1) :
        /\ \A i \in 1..(k - 1)    : tasks[q[i]].priority < priority
        /\ \A i \in k..Len(q)     : tasks[q[i]].priority >= priority
        /\ result = InsertAt(q, k, t)

\* sort.SliceStable of a sorted queue with t appended: t goes behind every
\* task that is at least as urgent.
SortedIn(q, t, priority, result) ==
    \E k \in 1..(Len(q) + 1) :
        /\ \A i \in 1..(k - 1)    : tasks[q[i]].priority <= priority
        /\ \A i \in k..Len(q)     : tasks[q[i]].priority > priority
        /\ result = InsertAt(q, k, t)

Slip_SpawnIfQueueEmpty(priority, strategy) ==
    LET t == taskCounter + 1
        p == Default(priority, 0, 2)
    IN  /\ taskCounter < MaxTasks
        /\ taskCounter' = t
        /\ tasks' = [tasks EXCEPT ![t] =
              [NoTask EXCEPT !.status = "queued", !.priority = p,
                             !.strategy = Default(strategy, "", NewestWins)]]
        /\ SortedIn(queue, t, p, queue')
        /\ spawned' = IF queue = <<>> THEN spawned + 1 ELSE spawned
        /\ UNCHANGED <<workers, jobs>>

EnqueueTask(priority, strategy) ==
    LET t == taskCounter + 1
        p == Default(priority, 0, 2)
    IN  /\ taskCounter < MaxTasks
        /\ taskCounter' = t
        /\ tasks' = [tasks EXCEPT ![t] =
              [NoTask EXCEPT !.status = "queued", !.priority = p,
                             !.strategy = Default(strategy, "", NewestWins)]]
        /\ SortedIn(queue, t, p, queue')
        /\ spawned' = spawned + 1
        /\ UNCHANGED <<workers, jobs>>

(* processNextInQueue                                                      *)

Slip_LastQueued(i) ==
    /\ i \in 1..Len(queue)
    /\ tasks[queue[i]].status = "queued"
    /\ \A j \in (i + 1)..Len(queue) : tasks[queue[j]].status # "queued"

IsFirstQueued(i) ==
    /\ i \in 1..Len(queue)
    /\ tasks[queue[i]].status = "queued"
    /\ \A j \in 1..(i - 1) : tasks[queue[j]].status # "queued"

ProcessNextInQueue(w) ==
    /\ spawned > 0
    /\ workers[w].pc = "idle"
    /\ \E i \in 1..Len(queue) :
          /\ IsFirstQueued(i)
          /\ queue' = RemoveAt(queue, i)
          /\ tasks' = [tasks EXCEPT ![queue[i]].status = "in_progress"]
          /\ workers' = [workers EXCEPT ![w] =
                           [Idle EXCEPT !.pc = "list", !.task = queue[i]]]
    /\ spawned' = spawned - 1
    /\ UNCHANGED <<taskCounter, jobs>>

ProcessEmptyQueue ==
    /\ spawned > 0
    /\ ~ \E i \in 1..Len(queue) : IsFirstQueued(i)
    /\ spawned' = spawned - 1
    /\ UNCHANGED <<taskCounter, tasks, queue, workers, jobs>>

(* runSyncTask                                                             *)

\* A listing the bridge and then os.ReadDir cannot give is taken for an
\* empty directory: both errors are dropped.
Unreadable == [p \in Paths |-> Absent]
ListFiles  == Listings \cup {Unreadable}

Slip_TotalOfTransfers(task, diffs) ==
    [task EXCEPT !.diffs = diffs,
                 !.total = Cardinality({p \in Paths : diffs[p].action \in Transfers}),
                 !.status = IF HasConflict(diffs) THEN "conflict" ELSE @]

\* task.Diffs and TotalFiles are stored, and the conflict test made, in one
\* section under the lock.  (TotalBytes is TotalBytes(diffs), see SyncDiff.)
Listed(task, diffs) ==
    [task EXCEPT !.diffs = diffs, !.total = Cardinality(ItemPaths(diffs)),
                 !.status = IF HasConflict(diffs) THEN "conflict" ELSE @]

RunSyncTask(w) ==
    LET t == workers[w].task
    IN  /\ workers[w].pc = "list"
        /\ \E local, remote \in ListFiles :
              LET diffs == CalculateDiff(local, remote, tasks[t].strategy)
              IN  /\ tasks' = [tasks EXCEPT ![t] = Listed(@, diffs)]
                  /\ workers' = [workers EXCEPT ![w] =
                        IF HasConflict(diffs) THEN Idle
                        ELSE [@ EXCEPT !.pc = "exec", !.todo = ItemPaths(diffs)]]
        /\ UNCHANGED <<taskCounter, queue, spawned, jobs>>

(* executeTaskActions                                                      *)

Percent(processed, total) == (100 * processed) \div total

Counted(task) ==
    [task EXCEPT !.processed = @ + 1,
                 !.percentage = IF task.total > 0
                                THEN Percent(task.processed + 1, task.total)
                                ELSE @]

\* The loop takes the items in the order of their paths.
IsNext(p, todo) == p \in todo /\ \A q \in todo : p <= q

\* The loop is at its head again, with p behind it.
Advanced(worker, p) ==
    [worker EXCEPT !.pc = "exec", !.todo = worker.todo \ {p},
                   !.job = 0, !.polls = 0]

ExecInSync(w, p) ==
    LET t == workers[w].task
    IN  /\ workers[w].pc = "exec"
        /\ IsNext(p, workers[w].todo)
        /\ tasks[t].diffs[p].action \notin Transfers
        /\ tasks' = [tasks EXCEPT ![t] = Counted(@)]
        /\ workers' = [workers EXCEPT ![w] = Advanced(@, p)]
        /\ UNCHANGED <<taskCounter, queue, spawned, jobs>>

Slip_UpdatesDownload(action) == IF action = "create_remote" THEN "upload" ELSE "download"

Direction(action) == IF action \in Uploads THEN "upload" ELSE "download"

ExecTransfer(w, p) ==
    LET t      == workers[w].task
        action == tasks[t].diffs[p].action
    IN  /\ workers[w].pc = "exec"
        /\ IsNext(p, workers[w].todo)
        /\ action \in Transfers
        /\ Bridge!Transfer([task |-> t, path |-> p,
                            direction |-> Direction(action)])
        /\ workers' = [workers EXCEPT ![w] =
                         [@ EXCEPT !.pc = "wait", !.job = Len(jobs) + 1]]
        /\ UNCHANGED <<taskCounter, tasks, queue, spawned>>

Slip_NoBreak(w) ==
    LET job == jobs[workers[w].job]
    IN  /\ workers[w].pc = "wait"
        /\ job.status \in Bridge!Settled
        /\ tasks' = [tasks EXCEPT ![workers[w].task].bytes = @ + job.bytes]
        /\ workers' = [workers EXCEPT ![w].polls = @ + 1,
              ![w].pc = IF workers[w].polls + 1 < PollLimit THEN "wait" ELSE "count"]
        /\ UNCHANGED <<taskCounter, queue, spawned, jobs>>

Slip_AssignBytes(w) ==
    LET job == jobs[workers[w].job]
    IN  /\ workers[w].pc = "wait"
        /\ job.status \in Bridge!Settled
        /\ tasks' = [tasks EXCEPT ![workers[w].task].bytes = job.bytes]
        /\ workers' = [workers EXCEPT ![w].pc = "count"]
        /\ UNCHANGED <<taskCounter, queue, spawned, jobs>>

\* One round of waitBridgeJob that finds the job settled, ...
PollSettled(w) ==
    LET job == jobs[workers[w].job]
    IN  /\ workers[w].pc = "wait"
        /\ job.status \in Bridge!Settled
        /\ tasks' = [tasks EXCEPT ![workers[w].task].bytes = @ + job.bytes]
        /\ workers' = [workers EXCEPT ![w].pc = "count"]
        /\ UNCHANGED <<taskCounter, queue, spawned, jobs>>

Slip_OnePollMore(worker) ==
    [worker EXCEPT !.polls = worker.polls + 1,
                   !.pc = IF worker.polls + 1 <= PollLimit THEN "wait" ELSE "count"]

Slip_PollForever(worker) == worker

\* ... and one that does not; after the last one the job is given up.
Polled(worker) ==
    [worker EXCEPT !.polls = worker.polls + 1,
                   !.pc = IF worker.polls + 1 < PollLimit THEN "wait" ELSE "count"]

PollPending(w) ==
    /\ workers[w].pc = "wait"
    /\ jobs[workers[w].job].status \notin Bridge!Settled
    /\ workers' = [workers EXCEPT ![w] = Polled(@)]
    /\ UNCHANGED <<taskCounter, tasks, queue, spawned, jobs>>

CountItem(w, p) ==
    /\ workers[w].pc = "count"
    /\ IsNext(p, workers[w].todo)
    /\ tasks' = [tasks EXCEPT ![workers[w].task] = Counted(@)]
    /\ workers' = [workers EXCEPT ![w] = Advanced(@, p)]
    /\ UNCHANGED <<taskCounter, queue, spawned, jobs>>

Slip_OnlyPercentage(task) == [task EXCEPT !.percentage = 100]

Completed(task) == [task EXCEPT !.status = "completed", !.percentage = 100]

FinishTask(w) ==
    /\ workers[w].pc = "exec"
    /\ workers[w].todo = {}
    /\ tasks' = [tasks EXCEPT ![workers[w].task] = Completed(@)]
    /\ workers' = [workers EXCEPT ![w] = Idle]
    /\ spawned' = spawned + 1
    /\ UNCHANGED <<taskCounter, queue, jobs>>

(* ResolveConflict: w is the goroutine it starts with the last conflict     *)

Slip_ResumeAtOnce(task, diffs) == task.status = "conflict"

Resumes(task, diffs) == ~HasConflict(diffs) /\ task.status = "conflict"

Slip_StaysHeld(task, diffs) == [task EXCEPT !.diffs = diffs]

Decided(task, diffs) ==
    [task EXCEPT !.diffs = diffs,
                 !.status = IF Resumes(task, diffs) THEN "in_progress" ELSE task.status]

Slip_ResolveAnyItem(t, p, choice, w) ==
    LET diffs == [tasks[t].diffs EXCEPT ![p] = Resolve(@, choice)]
    IN  /\ tasks[t].diffs[p].action # "none"
        /\ workers[w].pc = "idle"
        /\ tasks' = [tasks EXCEPT ![t] = Decided(@, diffs)]
        /\ workers' = IF Resumes(tasks[t], diffs)
                      THEN [workers EXCEPT ![w] =
                              [Idle EXCEPT !.pc = "exec", !.task = t,
                                           !.todo = ItemPaths(diffs)]]
                      ELSE workers
        /\ UNCHANGED <<taskCounter, queue, spawned, jobs>>

ResolveConflict(t, p, choice, w) ==
    LET diffs == [tasks[t].diffs EXCEPT ![p] = Resolve(@, choice)]
    IN  /\ tasks[t].diffs[p].conflict
        /\ workers[w].pc = "idle"
        /\ tasks' = [tasks EXCEPT ![t] = Decided(@, diffs)]
        /\ workers' = IF Resumes(tasks[t], diffs)
                      THEN [workers EXCEPT ![w] =
                              [Idle EXCEPT !.pc = "exec", !.task = t,
                                           !.todo = ItemPaths(diffs)]]
                      ELSE workers
        /\ UNCHANGED <<taskCounter, queue, spawned, jobs>>

JobSettles == Bridge!Settle /\ UNCHANGED <<taskCounter, tasks, queue, spawned, workers>>

-----------------------------------------------------------------------------

WorkerStep(w) ==
    \/ RunSyncTask(w)
    \/ \E p \in Paths : ExecInSync(w, p) \/ ExecTransfer(w, p) \/ CountItem(w, p)
    \/ PollSettled(w)
    \/ PollPending(w)
    \/ FinishTask(w)

Dispatch == ProcessEmptyQueue \/ \E w \in Workers : ProcessNextInQueue(w)

Caller ==
    \/ \E n \in PriorityInputs, s \in StrategyInputs : EnqueueTask(n, s)
    \/ \E t \in TaskIds, p \in Paths, c \in UserChoices, w \in Workers :
          ResolveConflict(t, p, c, w)

Next == Caller \/ Dispatch \/ (\E w \in Workers : WorkerStep(w)) \/ JobSettles

Spec == Init /\ [][Next]_vars

\* The Go scheduler runs every goroutine that can run.  Callers owe nothing,
\* and neither does a transfer: a copy may hang on a dead mount.
Fairness == WF_vars(Dispatch) /\ \A w \in Workers : WF_vars(WorkerStep(w))

FairSpec == Spec /\ Fairness

-----------------------------------------------------------------------------
(* Properties                                                              *)

Busy(w)       == workers[w].pc # "idle"
Executing(w)  == workers[w].pc \in {"exec", "wait", "count"}
Carries(w, t) == Busy(w) /\ workers[w].task = t

\* A goroutine carries a task of the map, polls a job at most PollLimit times,
\* and the job it waits for is one of the n jobs the bridge has given out.
WorkerOK(worker, n) ==
    /\ worker.pc # "idle" => worker.task \in TaskIds
    /\ worker.pc \in {"wait", "count"} => worker.job \in 1..n
    /\ worker.pc = "wait" => worker.polls < PollLimit
    /\ worker.pc \in {"idle", "list", "exec"} => worker.polls = 0

\* Type correctness, of the goroutines' local variables too.
TypeOK ==
    /\ taskCounter \in 0..MaxTasks
    /\ tasks \in [TaskIds -> SyncTask]
    /\ queue \in Seq(TaskIds)
    /\ spawned \in Nat
    /\ workers \in [Workers -> Worker]
    /\ Bridge!JobTypeOK
    /\ \A w \in Workers : WorkerOK(workers[w], Len(jobs))

\* The slice e.queue holds the tasks with status "queued", each once, the
\* most urgent first and equals in the order they were enqueued: the stable
\* sort in EnqueueTask and the removal in processNextInQueue keep it so.
QueueInOrder ==
    /\ \A t \in TaskIds :
          tasks[t].status = "queued" <=> \E i \in 1..Len(queue) : queue[i] = t
    /\ \A i, j \in 1..Len(queue) : i < j =>
          \/ tasks[queue[i]].priority < tasks[queue[j]].priority
          \/ /\ tasks[queue[i]].priority = tasks[queue[j]].priority
             /\ queue[i] < queue[j]

\* No lost wake-up: for every task in the queue there is a processNextInQueue
\* goroutine still to come.  A goroutine that ends in a conflict spawns no
\* successor, so this rests on each EnqueueTask having spawned its own.
QueueCovered == Len(queue) <= spawned

\* A task is "in_progress" exactly while one goroutine carries it, and never
\* two: neither the dispatcher nor ResolveConflict starts a second executor.
OneExecutor ==
    /\ \A w \in Workers : Busy(w) => tasks[workers[w].task].status = "in_progress"
    /\ \A t \in TaskIds : tasks[t].status = "in_progress" =>
                             \E w \in Workers : Carries(w, t)
    /\ \A v, w \in Workers :
          Busy(v) /\ Busy(w) /\ workers[v].task = workers[w].task => v = w

\* An undecided item holds its whole task: while one exists the status is
\* "conflict", nothing of the task has been handed to the bridge, and when the
\* last one is resolved the status is "conflict" no longer.
ConflictsHoldTask ==
    /\ \A t \in TaskIds : tasks[t].status = "conflict" <=> HasConflict(tasks[t].diffs)
    /\ \A i \in DOMAIN jobs : tasks[jobs[i].req.task].status # "conflict"

\* ProcessedFiles counts every item once: what is counted and what the
\* executor still has to visit make up TotalFiles, and a completed task has
\* counted them all; the percentage is 100 only after the last item.
ProgressExact ==
    /\ \A w \in Workers : Executing(w) =>
          LET task == tasks[workers[w].task]
          IN  task.processed + Cardinality(workers[w].todo) = task.total
    /\ \A t \in TaskIds :
          /\ tasks[t].total = Cardinality(ItemPaths(tasks[t].diffs))
          /\ tasks[t].status = "completed" => tasks[t].processed = tasks[t].total
          /\ tasks[t].percentage >= 100 => tasks[t].processed = tasks[t].total

\* The facts about a task's past that the proofs need beside the above: ids
\* are given out in order; a task has no items before it is listed and counts
\* nothing before it is executed; a job belongs to a task that is executing or
\* completed; a conflict is an item whose action is undecided.
TaskHistory ==
    /\ \A t \in TaskIds :
          /\ tasks[t].status = "none" <=> t > taskCounter
          /\ tasks[t].status \in {"none", "queued"} => tasks[t].diffs = NoDiffs
          /\ tasks[t].status \in {"none", "queued", "conflict"} =>
                tasks[t].processed = 0 /\ tasks[t].percentage = 0
          /\ \A p \in Paths :
                tasks[t].diffs[p].conflict <=> tasks[t].diffs[p].action = "conflict"
    /\ \A w \in Workers : workers[w].pc = "list" =>
          LET task == tasks[workers[w].task]
          IN  task.diffs = NoDiffs /\ task.processed = 0 /\ task.percentage = 0
    /\ \A i \in DOMAIN jobs :
          \/ tasks[jobs[i].req.task].status = "completed"
          \/ \E w \in Workers : Carries(w, jobs[i].req.task) /\ Executing(w)

\* The paths of t that are still ahead of its executor.
Ahead(t) == UNION {IF workers[w].pc \in {"wait", "count"}
                   THEN {p \in workers[w].todo : ~IsNext(p, workers[w].todo)}
                   ELSE workers[w].todo : w \in {v \in Workers : Carries(v, t)}}

Started(t)  == tasks[t].status = "completed"
               \/ \E w \in Workers : Carries(w, t) /\ Executing(w)
ToTransfer(t) == {p \in Paths : tasks[t].diffs[p].action \in Transfers}

\* Every item that calls for a transfer is handed to the bridge exactly once,
\* in the direction its action says, and no other item ever is.
JobsFollowDecisions ==
    /\ \A i, j \in DOMAIN jobs :
          jobs[i].req.task = jobs[j].req.task /\ jobs[i].req.path = jobs[j].req.path
             => i = j
    /\ \A i \in DOMAIN jobs :
          LET req == jobs[i].req
          IN  tasks[req.task].diffs[req.path].action \in
                 IF req.direction = "upload" THEN Uploads ELSE Downloads
    /\ \A t \in TaskIds : Started(t) =>
          {jobs[i].req.path : i \in {j \in DOMAIN jobs : jobs[j].req.task = t}}
             = ToTransfer(t) \ Ahead(t)

JobsOf(t) == {i \in DOMAIN jobs : jobs[i].req.task = t}
Reported  == [i \in DOMAIN jobs |-> jobs[i].bytes]

\* BytesTransferred never counts a job twice or one that has not settled: it
\* is at most what the task's settled jobs report together.
BytesBacked ==
    \A t \in TaskIds : tasks[t].bytes <= MapThenSumSet(LAMBDA i : Reported[i], JobsOf(t))

\* executeTaskActions reads task.Diffs without the lock; ResolveConflict
\* writes the same items under it.  The two never meet: no step changes the
\* items of a task that a goroutine is executing.
NoWriteUnderExecutor ==
    [][\A w \in Workers : Executing(w) =>
          tasks'[workers[w].task].diffs = tasks[workers[w].task].diffs]_vars

\* What GetTaskProgress copies out for a caller.
GetTaskProgress(t) ==
    [status |-> tasks[t].status, percentage |-> tasks[t].percentage,
     bytesTransferred |-> tasks[t].bytes, totalBytes |-> TotalBytes(tasks[t].diffs)]

\* A caller that polls GetTaskProgress never sees the percentage or the bytes
\* go back, nor anything change once it has seen "completed".
ProgressNeverGoesBack ==
    [][\A t \in TaskIds :
          LET old == GetTaskProgress(t)
              new == GetTaskProgress(t)'
          IN  /\ old.percentage <= new.percentage
              /\ old.bytesTransferred <= new.bytesTransferred
              /\ old.status = "completed" => new = old]_vars

\* The engine keeps the promises of TaskBoard: goroutines, queue and bridge
\* jobs are hidden, the statuses, priorities and open conflicts are not.
Board == INSTANCE TaskBoard WITH
    Tasks <- TaskIds, Items <- Paths, Urgencies <- Priorities,
    phase <- [t \in TaskIds |-> tasks[t].status],
    urgency <- [t \in TaskIds |-> tasks[t].priority],
    undecided <- [t \in TaskIds |-> {p \in Paths : tasks[t].diffs[p].conflict}]

ImplementsBoard     == Board!BoardSpec
ImplementsFairBoard == Board!FairBoardSpec

\* Whatever the bridge does with its jobs, a task that was enqueued is
\* completed or asks for a decision: waitBridgeJob gives up after PollLimit.
EveryTaskServed ==
    \A t \in TaskIds :
        tasks[t].status = "queued" ~> tasks[t].status \in {"conflict", "completed"}

\* A task reported "completed" has brought over every file that differed: what
\* a caller that waits for the status takes it to mean.
CompletedMeansTransferred ==
    \A t \in TaskIds : tasks[t].status = "completed" =>
        \A p \in ToTransfer(t) : \E i \in JobsOf(t) :
            jobs[i].req.path = p /\ jobs[i].status = "completed"
=============================================================================
