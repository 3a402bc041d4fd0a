------------------------- MODULE TuiTransfersProofs -------------------------
(***************************************************************************)
(* Proofs about TuiTransfers, for any number of commands under way and any  *)
(* number of tasks: types, NeverStopsLooking and CompleteIsTrue.            *)
(*                                                                         *)
(* CompleteIsTrue needs more than itself: as long as nothing has misled the *)
(* client there is one chain of polls, it is about the client's task, and a *)
(* message that says "done" is about a task that has been at 100 percent.   *)
(***************************************************************************)
EXTENDS TuiTransfers, TLAPS

Looked(i) == tasks[i].percentage >= 100 \/ tasks[i].status = "completed"

\* What GetProgress calls done has been at 100 percent.
TasksHonest == \A i \in DOMAIN tasks : Looked(i) => tasks[i].reached

OneChain ==
    /\ \A s, r \in Following : s = r
    /\ \A s \in Following : slots[s].task = client.task

DoneIsTrue ==
    /\ \A s \in Slots : slots[s].kind = "progress" /\ slots[s].done =>
          Report(slots[s].task).reached
    /\ client.status = "complete" => Report(client.task).reached

TransfersInv ==
    /\ TransfersTypeOK
    /\ NeverStopsLooking
    /\ TasksHonest
    /\ ~misled => OneChain /\ DoneIsTrue

USE SlotsAssumption

LEMMA FreeType == Free \in Slot /\ Free.kind = "free"
  BY DEF Free, Message, Slot, Kinds

LEMMA InitCorrect == TransfersInit => TransfersInv
  <1> SUFFICES ASSUME TransfersInit PROVE TransfersInv
    OBVIOUS
  <1> USE DEF TransfersInit
  <1>1. TransfersTypeOK
    <2>1. client \in Client /\ ~client.active
      BY DEF Client
    <2>2. slots \in [Slots -> Slot]
      BY FreeType
    <2>3. tasks \in Seq(Task)
      OBVIOUS
    <2>5. misled \in BOOLEAN
      BY Zenon
    <2>4. \A s \in Slots : slots[s].kind = "free"
      BY FreeType
    <2> QED
      BY <2>1, <2>2, <2>3, <2>4, <2>5 DEF TransfersTypeOK, Following
  <1>2. NeverStopsLooking
    BY DEF NeverStopsLooking
  <1>3. TasksHonest
    BY DEF TasksHonest
  <1>4. OneChain /\ DoneIsTrue
    BY FreeType DEF OneChain, DoneIsTrue, Following
  <1> QED
    BY <1>1, <1>2, <1>3, <1>4 DEF TransfersInv

\* What the server does to a task: it stays a task, and what has been at 100
\* percent stays so.
LEMMA MoveFacts ==
    ASSUME NEW old \in Task, NEW new \in Moves(old)
    PROVE  /\ new \in Task
           /\ old.reached => new.reached
           /\ (old.percentage >= 100 \/ old.status = "completed" => old.reached)
              => (new.percentage >= 100 \/ new.status = "completed" => new.reached)
  <1>1. \/ new = [old EXCEPT !.percentage = 100, !.reached = TRUE]
        \/ new = [status |-> "completed", percentage |-> 100, reached |-> TRUE]
        \/ new = [old EXCEPT !.status = "failed"]
        \/ new = [old EXCEPT !.status = "failed", !.percentage = 0]
    <2>1. old.status = "open"
      BY DEF Moves
    <2> QED
      BY <2>1 DEF Moves
  <1>2. new \in Task
    <2>1. CASE new = [old EXCEPT !.percentage = 100, !.reached = TRUE]
      BY <2>1 DEF Task
    <2>2. CASE new = [status |-> "completed", percentage |-> 100, reached |-> TRUE]
      BY <2>2 DEF Task
    <2>3. CASE new = [old EXCEPT !.status = "failed"]
      BY <2>3 DEF Task
    <2>4. CASE new = [old EXCEPT !.status = "failed", !.percentage = 0]
      BY <2>4 DEF Task
    <2> QED
      BY <1>1, <2>1, <2>2, <2>3, <2>4
  <1>3. CASE new = [old EXCEPT !.percentage = 100, !.reached = TRUE]
    BY <1>2, <1>3 DEF Task
  <1>4. CASE new = [status |-> "completed", percentage |-> 100, reached |-> TRUE]
    BY <1>2, <1>4
  <1>5. CASE new = [old EXCEPT !.status = "failed"]
    <2>1. /\ new.percentage = old.percentage
          /\ new.reached = old.reached
          /\ new.status = "failed"
      BY <1>5 DEF Task
    <2> QED
      BY <1>2, <2>1
  <1>6. CASE new = [old EXCEPT !.status = "failed", !.percentage = 0]
    <2>1. /\ new.percentage = 0
          /\ new.reached = old.reached
          /\ new.status = "failed"
      BY <1>6 DEF Task
    <2> QED
      BY <1>2, <2>1
  <1> QED
    BY <1>1, <1>3, <1>4, <1>5, <1>6

\* What has been at 100 percent stays so: a task is never forgotten or set
\* back, except by a restart.
LEMMA ReachedStays ==
    ASSUME TransfersTypeOK, NEW i \in Nat, Report(i).reached,
           \/ UNCHANGED tasks
           \/ StartTask
           \/ \E k \in DOMAIN tasks : TaskMoves(k)
    PROVE  Report(i).reached'
  <1>1. i \in DOMAIN tasks /\ tasks[i].reached
    BY DEF Report, NotFound
  <1>2. i \in DOMAIN tasks' /\ tasks'[i].reached
    <2>1. CASE UNCHANGED tasks
      BY <2>1, <1>1
    <2>2. CASE StartTask
      BY <2>2, <1>1 DEF StartTask, TransfersTypeOK
    <2>3. ASSUME NEW k \in DOMAIN tasks, TaskMoves(k)
          PROVE  i \in DOMAIN tasks' /\ tasks'[i].reached
      <3>1. PICK new \in Moves(tasks[k]) : tasks' = [tasks EXCEPT ![k] = new]
        BY <2>3 DEF TaskMoves
      <3>2. tasks[k] \in Task
        BY <2>3 DEF TransfersTypeOK
      <3>3. k = i => new.reached
        BY <3>1, <3>2, <1>1, MoveFacts
      <3> QED
        BY <3>1, <3>3, <1>1 DEF TransfersTypeOK
    <2> QED
      BY <2>1, <2>2, <2>3
  <1> QED
    BY <1>2 DEF Report
-----------------------------------------------------------------------------
(* Types                                                                   *)

\* What a slot may hold: the id of a task, if it is followed or to be.
GoodMessage(msg) ==
    /\ msg \in Slot
    /\ msg.kind \in {"poll", "progress", "tick", "started"} => msg.task \in 1..MaxTasks

LEMMA SlotsStayGood ==
    ASSUME TransfersTypeOK, NEW s \in Slots, NEW msg, GoodMessage(msg), Becomes(s, msg)
    PROVE  /\ slots' \in [Slots -> Slot]
           /\ \A r \in Slots : (r \in Following \/ slots[r].kind = "started")' =>
                 slots'[r].task \in 1..MaxTasks
  BY DEF TransfersTypeOK, GoodMessage, Becomes, Following

LEMMA TypeStep ==
    ASSUME TransfersTypeOK, [TransfersNext]_transferVars
    PROVE  TransfersTypeOK'
  <1> USE DEF TransfersTypeOK
  <1>1. ASSUME NEW S \in SUBSET Slots, Ask(S)
        PROVE  TransfersTypeOK'
    <2>1. Message("start", 0, FALSE) \in Slot /\ Message("start", 0, FALSE).kind = "start"
      BY DEF Message, Slot, Kinds
    <2>2. slots' \in [Slots -> Slot]
      BY <1>1, <2>1 DEF Ask
    <2>3. \A r \in Slots : (r \in Following \/ slots[r].kind = "started")' =>
                 slots'[r].task \in 1..MaxTasks
      BY <1>1, <2>1 DEF Ask, Following
    <2> QED
      BY <1>1, <2>2, <2>3 DEF Ask
  <1>2. ASSUME NEW s \in Slots, SlotStep(s)
        PROVE  TransfersTypeOK'
    <2>1. CASE StartSucceeds(s)
      <3>1. NewTask \in Task
        BY DEF NewTask, Task
      <3>2. Len(tasks) + 1 \in 1..MaxTasks /\ tasks' \in Seq(Task)
        BY <2>1, <3>1 DEF StartSucceeds, StartTask
      <3>3. GoodMessage(Message("started", Len(tasks) + 1, FALSE))
        BY <3>2 DEF GoodMessage, Message, Slot, Kinds
      <3> QED
        BY <2>1, <3>2, <3>3, SlotsStayGood DEF StartSucceeds
    <2>2. CASE StartFails(s)
      <3>1. NewTask \in Task
        BY DEF NewTask, Task
      <3>2. tasks' \in Seq(Task)
        BY <2>2, <3>1 DEF StartFails, StartTask
      <3>3. GoodMessage(Message("refused", 0, FALSE))
        BY DEF GoodMessage, Message, Slot, Kinds
      <3> QED
        BY <2>2, <3>2, <3>3, SlotsStayGood DEF StartFails
    <2>3. CASE OnStarted(s)
      <3>1. slots[s].task \in 1..MaxTasks
        BY <2>3 DEF OnStarted
      <3>2. GoodMessage(Message("poll", slots[s].task, FALSE))
        BY <3>1 DEF GoodMessage, Message, Slot, Kinds
      <3>3. client' \in Client /\ client'.task = slots[s].task
        <4>1. client' = [active |-> TRUE, task |-> slots[s].task, status |-> "started"]
          BY <2>3 DEF OnStarted
        <4> QED
          BY <4>1, <3>1 DEF Client
      <3>4. misled' \in BOOLEAN
        BY <2>3, Zenon DEF OnStarted
      <3> QED
        <4>1. Becomes(s, Message("poll", slots[s].task, FALSE)) /\ UNCHANGED tasks
          BY <2>3 DEF OnStarted
        <4> QED
          BY <4>1, <3>1, <3>2, <3>3, <3>4, SlotsStayGood
    <2>4. CASE OnRefused(s)
      <3>1. GoodMessage(Free)
        BY FreeType DEF GoodMessage
      <3>2. client' \in Client /\ client'.active = client.active /\ client'.task = client.task
        BY <2>4 DEF OnRefused, Client
      <3> QED
        BY <2>4, <3>1, <3>2, SlotsStayGood DEF OnRefused
    <2>5. CASE CheckProgress(s)
      <3>1. slots[s].task \in 1..MaxTasks
        BY <2>5 DEF CheckProgress, Following
      <3>2. Done(Report(slots[s].task)) \in BOOLEAN
        BY Zenon DEF Done
      <3>3. GoodMessage(Message("progress", slots[s].task, Done(Report(slots[s].task))))
        BY <3>1, <3>2 DEF GoodMessage, Message, Slot, Kinds
      <3> QED
        BY <2>5, <3>3, SlotsStayGood DEF CheckProgress
    <2>6. CASE CheckFails(s)
      <3>1. slots[s].task \in 1..MaxTasks
        BY <2>6 DEF CheckFails, Following
      <3>2. GoodMessage(Message("progress", slots[s].task, TRUE))
        BY <3>1 DEF GoodMessage, Message, Slot, Kinds
      <3> QED
        BY <2>6, <3>2, SlotsStayGood DEF CheckFails
    <2>7. CASE OnProgress(s)
      <3>1. slots[s].task \in 1..MaxTasks
        BY <2>7 DEF OnProgress, Following
      <3>2. GoodMessage(Free) /\ GoodMessage(Message("tick", slots[s].task, FALSE))
        BY <3>1, FreeType DEF GoodMessage, Message, Slot, Kinds
      <3>3. CASE slots[s].done
        <4>1. client' \in Client /\ ~client'.active
          <5>1. client' = [client EXCEPT !.active = FALSE, !.status = "complete"]
            BY <2>7, <3>3 DEF OnProgress
          <5> QED
            BY <5>1 DEF Client
        <4> QED
          <5>1. Becomes(s, Free) /\ UNCHANGED <<tasks, misled>>
            BY <2>7, <3>3 DEF OnProgress
          <5> QED
            BY <5>1, <3>2, <4>1, SlotsStayGood
      <3>4. CASE ~slots[s].done
        BY <2>7, <3>2, <3>4, SlotsStayGood DEF OnProgress
      <3> QED
        BY <3>3, <3>4
    <2>8. CASE OnTick(s)
      <3>1. GoodMessage(Free)
        BY FreeType DEF GoodMessage
      <3>2. client.active => GoodMessage(Message("poll", client.task, FALSE))
        BY DEF GoodMessage, Message, Slot, Kinds
      <3> QED
        BY <2>8, <3>1, <3>2, SlotsStayGood DEF OnTick
    <2> QED
      BY <1>2, <2>1, <2>2, <2>3, <2>4, <2>5, <2>6, <2>7, <2>8 DEF SlotStep
  <1>3. ASSUME NEW i \in DOMAIN tasks, TaskMoves(i)
        PROVE  TransfersTypeOK'
    <2>1. PICK new \in Moves(tasks[i]) : tasks' = [tasks EXCEPT ![i] = new]
      BY <1>3 DEF TaskMoves
    <2>2. tasks[i] \in Task /\ new \in Task
      BY <2>1, MoveFacts
    <2>3. tasks' \in Seq(Task)
      BY <2>1, <2>2
    <2> QED
      BY <1>3, <2>3 DEF TaskMoves, Following
  <1>4. CASE ServerRestarts
    BY <1>4 DEF ServerRestarts, Following
  <1>5. CASE UNCHANGED transferVars
    BY <1>5 DEF transferVars, Following
  <1> QED
    BY <1>1, <1>2, <1>3, <1>4, <1>5 DEF TransfersNext
-----------------------------------------------------------------------------
(* NeverStopsLooking                                                       *)

LEMMA MessageKind ==
    ASSUME NEW kind, NEW task, NEW done
    PROVE  /\ Message(kind, task, done).kind = kind
           /\ Message(kind, task, done).task = task
           /\ Message(kind, task, done).done = done
  BY DEF Message

LEMMA ChainAfter ==
    ASSUME TransfersTypeOK, NEW s \in Slots, NEW kind, NEW task, NEW done,
           Becomes(s, Message(kind, task, done))
    PROVE  /\ slots'[s].kind = kind /\ slots'[s].task = task /\ slots'[s].done = done
           /\ \A r \in Slots \ {s} : slots'[r] = slots[r]
           /\ kind \in {"poll", "progress", "tick"} => Following' = Following \cup {s}
           /\ kind \notin {"poll", "progress", "tick"} => Following' = Following \ {s}
  BY MessageKind DEF TransfersTypeOK, Becomes, Following

LEMMA FreeAfter ==
    ASSUME TransfersTypeOK, NEW s \in Slots, Becomes(s, Free)
    PROVE  /\ slots'[s].kind = "free"
           /\ \A r \in Slots \ {s} : slots'[r] = slots[r]
           /\ Following' = Following \ {s}
  BY FreeType DEF TransfersTypeOK, Becomes, Following

\* Asking touches free slots only.
LEMMA AskAfter ==
    ASSUME TransfersTypeOK, NEW S \in SUBSET Slots, Ask(S)
    PROVE  /\ Following' = Following
           /\ \A r \in Following : slots'[r] = slots[r]
           /\ \A r \in Slots : slots'[r].kind = "progress" => slots'[r] = slots[r]
  <1>1. Message("start", 0, FALSE).kind = "start"
    BY DEF Message
  <1>2. \A r \in Slots : IF r \in S THEN slots'[r].kind = "start" /\ slots[r].kind = "free"
                                   ELSE slots'[r] = slots[r]
    <2>1. slots' = [s \in Slots |-> IF s \in S THEN Message("start", 0, FALSE) ELSE slots[s]]
      BY DEF Ask
    <2>2. \A r \in S : slots[r].kind = "free"
      BY FreeType DEF Ask
    <2> QED
      BY <1>1, <2>1, <2>2
  <1>3. Following' = Following
    BY <1>2 DEF Following
  <1> QED
    BY <1>2, <1>3 DEF Following

LEMMA LookingStep ==
    ASSUME TransfersTypeOK, NeverStopsLooking, [TransfersNext]_transferVars
    PROVE  NeverStopsLooking'
  <1> USE DEF NeverStopsLooking
  <1>1. ASSUME NEW S \in SUBSET Slots, Ask(S)
        PROVE  NeverStopsLooking'
    BY <1>1, AskAfter DEF Ask
  <1>2. ASSUME NEW s \in Slots, SlotStep(s)
        PROVE  NeverStopsLooking'
    <2>1. CASE StartSucceeds(s)
      <3>1. s \notin Following
        BY <2>1 DEF StartSucceeds, Following
      <3>2. Following' = Following
        <4>1. Becomes(s, Message("started", Len(tasks) + 1, FALSE))
          BY <2>1 DEF StartSucceeds
        <4>2. Following' = Following \ {s}
          BY <4>1 DEF TransfersTypeOK, Becomes, Following, Message
        <4> QED
          BY <3>1, <4>2
      <3> QED
        BY <2>1, <3>2 DEF StartSucceeds
    <2>2. CASE StartFails(s)
      <3>1. s \notin Following
        BY <2>2 DEF StartFails, Following
      <3>2. Following' = Following
        <4>1. Becomes(s, Message("refused", 0, FALSE))
          BY <2>2 DEF StartFails
        <4>2. Following' = Following \ {s}
          BY <4>1 DEF TransfersTypeOK, Becomes, Following, Message
        <4> QED
          BY <3>1, <4>2
      <3> QED
        BY <2>2, <3>2 DEF StartFails
    <2>3. CASE OnStarted(s)
      <3>1. Becomes(s, Message("poll", slots[s].task, FALSE))
        BY <2>3 DEF OnStarted
      <3>2. s \in Following'
        BY <3>1 DEF TransfersTypeOK, Becomes, Following, Message
      <3> QED
        BY <3>2
    <2>4. CASE OnRefused(s)
      <3>1. s \notin Following
        BY <2>4 DEF OnRefused, Following
      <3>2. Following' = Following
        BY <2>4, <3>1, FreeAfter DEF OnRefused
      <3>3. client'.active = client.active
        BY <2>4 DEF OnRefused, TransfersTypeOK, Client
      <3> QED
        BY <3>2, <3>3
    <2>5. CASE CheckProgress(s)
      BY <2>5, ChainAfter DEF CheckProgress
    <2>6. CASE CheckFails(s)
      <3>1. Becomes(s, Message("progress", slots[s].task, TRUE))
        BY <2>6 DEF CheckFails
      <3>2. s \in Following'
        BY <3>1 DEF TransfersTypeOK, Becomes, Following, Message
      <3> QED
        BY <3>2
    <2>7. CASE OnProgress(s)
      <3>1. CASE slots[s].done
        <4>1. client' = [client EXCEPT !.active = FALSE, !.status = "complete"]
          BY <2>7, <3>1 DEF OnProgress
        <4>2. ~client'.active
          BY <4>1 DEF TransfersTypeOK, Client
        <4> QED
          BY <4>2
      <3>2. CASE ~slots[s].done
        <4>1. Becomes(s, Message("tick", slots[s].task, FALSE))
          BY <2>7, <3>2 DEF OnProgress
        <4>2. Following' = Following \cup {s}
          BY <4>1, ChainAfter
        <4> QED
          BY <4>2
      <3> QED
        BY <3>1, <3>2
    <2>8. CASE OnTick(s)
      <3>1. CASE client.active
        <4>1. Becomes(s, Message("poll", client.task, FALSE))
          BY <2>8, <3>1 DEF OnTick
        <4>2. Following' = Following \cup {s}
          BY <4>1, ChainAfter
        <4> QED
          BY <4>2
      <3>2. CASE ~client.active
        BY <2>8, <3>2 DEF OnTick
      <3> QED
        BY <3>1, <3>2
    <2> QED
      BY <1>2, <2>1, <2>2, <2>3, <2>4, <2>5, <2>6, <2>7, <2>8 DEF SlotStep
  <1>3. CASE (\E i \in DOMAIN tasks : TaskMoves(i)) \/ ServerRestarts
    BY <1>3 DEF TaskMoves, ServerRestarts, Following
  <1>4. CASE UNCHANGED transferVars
    BY <1>4 DEF transferVars, Following
  <1> QED
    BY <1>1, <1>2, <1>3, <1>4 DEF TransfersNext
-----------------------------------------------------------------------------
(* CompleteIsTrue                                                          *)

LEMMA HonestStep ==
    ASSUME TransfersTypeOK, TasksHonest, [TransfersNext]_transferVars
    PROVE  TasksHonest'
  <1> USE DEF TasksHonest, Looked
  <1>1. CASE UNCHANGED tasks
    BY <1>1
  <1>2. CASE StartTask
    <2>1. NewTask.percentage = 0 /\ NewTask.status = "open"
      BY DEF NewTask
    <2>2. /\ DOMAIN tasks' = 1..(Len(tasks) + 1)
          /\ tasks'[Len(tasks) + 1] = NewTask
          /\ \A i \in DOMAIN tasks : tasks'[i] = tasks[i]
      BY <1>2 DEF StartTask, TransfersTypeOK, NewTask, Task
    <2> QED
      BY <2>1, <2>2 DEF TransfersTypeOK
  <1>3. ASSUME NEW k \in DOMAIN tasks, TaskMoves(k)
        PROVE  TasksHonest'
    <2>1. PICK new \in Moves(tasks[k]) : tasks' = [tasks EXCEPT ![k] = new]
      BY <1>3 DEF TaskMoves
    <2>2. tasks[k] \in Task
      BY DEF TransfersTypeOK
    <2>3. new.percentage >= 100 \/ new.status = "completed" => new.reached
      BY <2>1, <2>2, MoveFacts
    <2> QED
      BY <2>1, <2>3 DEF TransfersTypeOK
  <1>4. CASE ServerRestarts
    BY <1>4 DEF ServerRestarts
  <1> QED
    BY <1>1, <1>2, <1>3, <1>4
       DEF TransfersNext, SlotStep, Ask, StartSucceeds, StartFails, OnStarted, OnRefused,
           CheckProgress, CheckFails, OnProgress, OnTick, transferVars

\* A message that says "done" under ~misled', and a client that says so, are
\* about a task that has been at 100 percent, now and after the step.
LEMMA TruthStep ==
    ASSUME TransfersInv, [TransfersNext]_transferVars, ~misled'
    PROVE  (OneChain /\ DoneIsTrue)'
  <1>0. ~misled
    BY Zenon DEF TransfersNext, SlotStep, Ask, StartSucceeds, StartFails, OnStarted, OnRefused,
       CheckProgress, CheckFails, OnProgress, OnTick, TaskMoves, ServerRestarts, transferVars
  <1>a. TransfersTypeOK /\ TasksHonest /\ OneChain /\ DoneIsTrue
    BY <1>0 DEF TransfersInv
  <1>b. \A s \in Slots : slots[s].task \in Nat
    BY <1>a DEF TransfersTypeOK, Slot
  <1>c. client.task \in Nat
    BY <1>a DEF TransfersTypeOK, Client
  <1>1. ASSUME NEW S \in SUBSET Slots, Ask(S)
        PROVE  (OneChain /\ DoneIsTrue)'
    <2>1. UNCHANGED <<client, tasks>>
      BY <1>1 DEF Ask
    <2>2. OneChain'
      BY <1>1, <1>a, <2>1, AskAfter DEF OneChain
    <2>3. DoneIsTrue'
      BY <1>1, <1>a, <2>1, AskAfter DEF DoneIsTrue, Report
    <2> QED
      BY <2>2, <2>3
  <1>2. ASSUME NEW s \in Slots, StartSucceeds(s) \/ StartFails(s)
        PROVE  (OneChain /\ DoneIsTrue)'
    <2>1. s \notin Following /\ (UNCHANGED tasks \/ StartTask) /\ UNCHANGED client
      BY <1>2 DEF StartSucceeds, StartFails, Following
    <2>2. /\ slots'[s].kind \in {"started", "refused"}
          /\ \A r \in Slots \ {s} : slots'[r] = slots[r]
      BY <1>2, <1>a DEF StartSucceeds, StartFails, Becomes, Message, TransfersTypeOK
    <2>3. Following' = Following
      BY <2>1, <2>2 DEF Following
    <2>4. OneChain'
      BY <1>a, <2>1, <2>2, <2>3 DEF OneChain, Following
    <2>5. DoneIsTrue'
      BY <1>a, <1>b, <1>c, <2>1, <2>2, ReachedStays DEF DoneIsTrue
    <2> QED
      BY <2>4, <2>5
  <1>3. ASSUME NEW s \in Slots, OnStarted(s)
        PROVE  (OneChain /\ DoneIsTrue)'
    <2>1. Following = {}
      BY <1>3, Zenon DEF OnStarted
    <2>2. /\ slots'[s].kind = "poll" /\ slots'[s].task = slots[s].task
          /\ \A r \in Slots \ {s} : slots'[r] = slots[r]
      BY <1>3, <1>a DEF OnStarted, Becomes, Message, TransfersTypeOK
    <2>3. client'.task = slots[s].task /\ client'.status = "started" /\ UNCHANGED tasks
      BY <1>3 DEF OnStarted
    <2>4. Following' = {s}
      BY <2>1, <2>2 DEF Following
    <2>5. OneChain'
      BY <2>2, <2>3, <2>4 DEF OneChain
    <2>6. DoneIsTrue'
      BY <1>a, <2>2, <2>3 DEF DoneIsTrue, Report
    <2> QED
      BY <2>5, <2>6
  <1>4. ASSUME NEW s \in Slots, OnRefused(s)
        PROVE  (OneChain /\ DoneIsTrue)'
    <2>1. s \notin Following /\ UNCHANGED tasks
      BY <1>4 DEF OnRefused, Following
    <2>2. client'.task = client.task /\ client'.status = "failed"
      BY <1>4, <1>a DEF OnRefused, TransfersTypeOK, Client
    <2>3. /\ slots'[s].kind = "free" /\ Following' = Following
          /\ \A r \in Slots \ {s} : slots'[r] = slots[r]
      BY <1>4, <1>a, <2>1, FreeAfter DEF OnRefused
    <2>4. OneChain'
      BY <1>a, <2>1, <2>2, <2>3 DEF OneChain, Following
    <2>5. DoneIsTrue'
      BY <1>a, <2>1, <2>2, <2>3 DEF DoneIsTrue, Report
    <2> QED
      BY <2>4, <2>5
  <1>5. ASSUME NEW s \in Slots, CheckProgress(s)
        PROVE  (OneChain /\ DoneIsTrue)'
    <2>1. s \in Following /\ UNCHANGED <<client, tasks>>
      BY <1>5 DEF CheckProgress, Following
    <2>2. /\ slots'[s].kind = "progress" /\ slots'[s].task = slots[s].task
          /\ slots'[s].done = Done(Report(slots[s].task))
          /\ \A r \in Slots \ {s} : slots'[r] = slots[r]
      BY <1>5, <1>a DEF CheckProgress, Becomes, Message, TransfersTypeOK
    <2>3. Following' = Following
      BY <2>1, <2>2 DEF Following
    <2>4. OneChain'
      BY <1>a, <2>1, <2>2, <2>3 DEF OneChain, Following
    <2>5. Done(Report(slots[s].task)) => Report(slots[s].task).reached
      BY <1>a DEF Done, Report, NotFound, TasksHonest, Looked
    <2>6. DoneIsTrue'
      BY <1>a, <2>1, <2>2, <2>5 DEF DoneIsTrue, Report
    <2> QED
      BY <2>4, <2>6
  <1>6. ASSUME NEW s \in Slots, CheckFails(s)
        PROVE  FALSE
    BY <1>6 DEF CheckFails
  <1>7. ASSUME NEW s \in Slots, OnProgress(s)
        PROVE  (OneChain /\ DoneIsTrue)'
    <2>1. s \in Following /\ UNCHANGED tasks
      BY <1>7 DEF OnProgress, Following
    <2>2. slots[s].task = client.task
      BY <1>a, <2>1 DEF OneChain
    <2>3. CASE slots[s].done
      <3>1. client' = [client EXCEPT !.active = FALSE, !.status = "complete"]
        BY <1>7, <2>3 DEF OnProgress
      <3>2. client'.task = client.task
        BY <1>a, <3>1 DEF TransfersTypeOK, Client
      <3>3. /\ slots'[s].kind = "free" /\ Following' = Following \ {s}
            /\ \A r \in Slots \ {s} : slots'[r] = slots[r]
        BY <1>7, <1>a, <2>3, FreeAfter DEF OnProgress
      <3>4. Report(client.task).reached
        BY <1>7, <1>a, <2>2, <2>3 DEF DoneIsTrue, OnProgress
      <3>5. OneChain'
        BY <1>a, <3>2, <3>3 DEF OneChain, Following
      <3>6. DoneIsTrue'
        BY <1>a, <2>1, <3>2, <3>3, <3>4 DEF DoneIsTrue, Report
      <3> QED
        BY <3>5, <3>6
    <2>4. CASE ~slots[s].done
      <3>1. /\ slots'[s].kind = "tick" /\ slots'[s].task = slots[s].task
            /\ \A r \in Slots \ {s} : slots'[r] = slots[r]
        BY <1>7, <1>a, <2>4 DEF OnProgress, Becomes, Message, TransfersTypeOK
      <3>2. UNCHANGED client
        BY <1>7, <2>4 DEF OnProgress
      <3>3. Following' = Following
        BY <2>1, <3>1 DEF Following
      <3>4. OneChain'
        BY <1>a, <3>1, <3>2, <3>3 DEF OneChain, Following
      <3>5. DoneIsTrue'
        BY <1>a, <2>1, <3>1, <3>2 DEF DoneIsTrue, Report
      <3> QED
        BY <3>4, <3>5
    <2> QED
      BY <2>3, <2>4
  <1>8. ASSUME NEW s \in Slots, OnTick(s)
        PROVE  (OneChain /\ DoneIsTrue)'
    <2>1. s \in Following /\ UNCHANGED <<client, tasks>>
      BY <1>8 DEF OnTick, Following
    <2>2. /\ slots'[s].kind \in {"poll", "free"}
          /\ slots'[s].kind = "poll" => slots'[s].task = client.task
          /\ \A r \in Slots \ {s} : slots'[r] = slots[r]
      BY <1>8, <1>a DEF OnTick, Becomes, Message, Free, TransfersTypeOK
    <2>3. OneChain'
      BY <1>a, <2>1, <2>2 DEF OneChain, Following
    <2>4. DoneIsTrue'
      BY <1>a, <2>1, <2>2 DEF DoneIsTrue, Report
    <2> QED
      BY <2>3, <2>4
  <1>9. ASSUME NEW k \in DOMAIN tasks, TaskMoves(k)
        PROVE  (OneChain /\ DoneIsTrue)'
    <2>1. UNCHANGED <<client, slots>>
      BY <1>9 DEF TaskMoves
    <2>2. OneChain'
      BY <1>a, <2>1 DEF OneChain, Following
    <2>3. DoneIsTrue'
      BY <1>9, <1>a, <1>b, <1>c, <2>1, ReachedStays DEF DoneIsTrue
    <2> QED
      BY <2>2, <2>3
  <1>10. CASE ServerRestarts
    BY <1>10 DEF ServerRestarts
  <1>11. CASE UNCHANGED transferVars
    BY <1>11, <1>a DEF transferVars, OneChain, DoneIsTrue, Following, Report
  <1> QED
    BY <1>1, <1>2, <1>3, <1>4, <1>5, <1>6, <1>7, <1>8, <1>9, <1>10, <1>11
       DEF TransfersNext, SlotStep
-----------------------------------------------------------------------------
(* Theorems                                                                *)

\* The inductive invariant holds in every state of the specification.
THEOREM TransfersInvariant == TransfersSpec => []TransfersInv
  <1>1. TransfersInv /\ [TransfersNext]_transferVars => TransfersInv'
    BY TypeStep, LookingStep, HonestStep, TruthStep DEF TransfersInv
  <1> QED
    BY InitCorrect, <1>1, PTL DEF TransfersSpec

\* Types; only ids that the server gave out are followed.
THEOREM TransfersTypeCorrect == TransfersSpec => []TransfersTypeOK
  <1>1. TransfersInv => TransfersTypeOK
    BY DEF TransfersInv
  <1> QED
    BY <1>1, TransfersInvariant, PTL

\* A transfer that is shown as active is looked at again, in every interleaving
\* of any number of commands, messages, failures and restarts.
THEOREM AlwaysLooking == TransfersSpec => []NeverStopsLooking
  <1>1. TransfersInv => NeverStopsLooking
    BY DEF TransfersInv
  <1> QED
    BY <1>1, TransfersInvariant, PTL

\* "Transfer Complete" is true of the transfer it is about, as long as nothing
\* has misled the client.
THEOREM CompleteAlwaysTrue == TransfersSpec => []CompleteIsTrue
  <1>1. TransfersInv => CompleteIsTrue
    BY DEF TransfersInv, DoneIsTrue, CompleteIsTrue
  <1> QED
    BY <1>1, TransfersInvariant, PTL
=============================================================================
