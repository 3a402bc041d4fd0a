---------------------------- MODULE TuiTransfers ----------------------------
(***************************************************************************)
(* How the terminal client follows the transfers and syncs it has asked for *)
(* (cli/internal/tui/update.go).  Bubble Tea runs every command on a        *)
(* goroutine of its own and gives the messages they return to Update one at *)
(* a time, in whatever order they arrive.  A command that has called the    *)
(* server and a message that has not been handled yet are two stages of one *)
(* slot.  A progress message does not say which task it is about; the task  *)
(* in the slot is there for the properties.                                 *)
(***************************************************************************)
EXTENDS Naturals, Sequences, FiniteSets

CONSTANTS
    Slots,      \* bound: the commands and messages under way at once
    MaxTasks    \* bound: the tasks and jobs of the server

ASSUME SlotsAssumption == IsFiniteSet(Slots) /\ MaxTasks \in Nat

VARIABLES
    client,     \* TransferActive, TaskId, and what the status line says
    slots,      \* slot -> a command or a message under way
    tasks,      \* the server's tasks and jobs, as GetProgress reports them
    misled      \* a GetProgress call has failed, a transfer has started while
                \* another was followed, or the server has been restarted
                \* or replaced by another

transferVars == <<client, slots, tasks, misled>>

\* "start": transferFileCmd or syncFilesCmd before its RPC; "started",
\* "refused": transferStartedMsg; "poll": checkProgressCmd before its RPC;
\* "progress": progressMsg; "tick": the half second's sleep and its tickMsg.
Kinds == {"free", "start", "started", "refused", "poll", "progress", "tick"}
Slot  == [kind : Kinds, task : Nat, done : BOOLEAN]
Message(kind, task, done) == [kind |-> kind, task |-> task, done |-> done]
Free  == Message("free", 0, FALSE)

Client == [active : BOOLEAN, task : Nat,
           status : {"other", "started", "failed", "complete"}]

\* open: queued, in progress or held in conflict; which one, and whether it ever
\* ends, is up to the server.  reached: it has been at 100 percent.
Task == [status : {"open", "completed", "failed"}, percentage : {0, 100}, reached : BOOLEAN]

Following == {s \in Slots : slots[s].kind \in {"poll", "progress", "tick"}}

TransfersInit ==
    /\ client = [active |-> FALSE, task |-> 0, status |-> "other"]
    /\ slots = [s \in Slots |-> Free]
    /\ tasks = <<>>
    /\ misled = FALSE

Becomes(s, message) == slots' = [slots EXCEPT ![s] = message]

\* The keys that ask for transfers: F4 for a sync, Enter in the copy dialog for
\* one, F5 for all that are selected.
Ask(S) ==
    /\ S # {}
    /\ \A s \in S : slots[s] = Free
    /\ slots' = [s \in Slots |-> IF s \in S THEN Message("start", 0, FALSE) ELSE slots[s]]
    /\ UNCHANGED <<client, tasks, misled>>

(* transferFileCmd and syncFilesCmd: the RPCs Transfer and Sync             *)

NewTask == [status |-> "open", percentage |-> 0, reached |-> FALSE]
StartTask == Len(tasks) < MaxTasks /\ tasks' = Append(tasks, NewTask)

StartSucceeds(s) ==
    /\ slots[s].kind = "start"
    /\ StartTask
    /\ Becomes(s, Message("started", Len(tasks) + 1, FALSE))
    /\ UNCHANGED <<client, misled>>

\* No connection, an error, or a timeout: then the server may have started.
StartFails(s) ==
    /\ slots[s].kind = "start"
    /\ UNCHANGED tasks \/ StartTask
    /\ Becomes(s, Message("refused", 0, FALSE))
    /\ UNCHANGED <<client, misled>>

\* case transferStartedMsg
OnStarted(s) ==
    /\ slots[s].kind = "started"
    /\ client' = [active |-> TRUE, task |-> slots[s].task, status |-> "started"]
    /\ Becomes(s, Message("poll", slots[s].task, FALSE))
    /\ misled' = (misled \/ Following # {})
    /\ UNCHANGED tasks

Slip_IgnoresRefusal(s) ==
    /\ slots[s].kind = "refused"
    /\ client' = [active |-> TRUE, task |-> slots[s].task, status |-> "started"]
    /\ Becomes(s, Message("poll", slots[s].task, FALSE))
    /\ UNCHANGED <<tasks, misled>>

OnRefused(s) ==
    /\ slots[s].kind = "refused"
    /\ client' = [client EXCEPT !.status = "failed"]
    /\ Becomes(s, Free)
    /\ UNCHANGED <<tasks, misled>>

(* checkProgressCmd: the RPC GetProgress                                   *)

Slip_PastHundred(task) == task.percentage > 100
Slip_AnyEnd(task) == task.percentage >= 100 \/ task.status \in {"completed", "failed"}

Done(task) == task.percentage >= 100 \/ task.status = "completed"

\* StatusService.GetProgress
NotFound == [status |-> "not_found", percentage |-> 0, reached |-> FALSE]
Report(id) == IF id \in DOMAIN tasks THEN tasks[id] ELSE NotFound

CheckProgress(s) ==
    /\ slots[s].kind = "poll"
    /\ Becomes(s, Message("progress", slots[s].task, Done(Report(slots[s].task))))
    /\ UNCHANGED <<client, tasks, misled>>

\* An error is reported as the end of the transfer.
CheckFails(s) ==
    /\ slots[s].kind = "poll"
    /\ Becomes(s, Message("progress", slots[s].task, TRUE))
    /\ misled' = TRUE
    /\ UNCHANGED <<client, tasks>>

\* case progressMsg
OnProgress(s) ==
    /\ slots[s].kind = "progress"
    /\ IF slots[s].done
       THEN /\ client' = [client EXCEPT !.active = FALSE, !.status = "complete"]
            /\ Becomes(s, Free)
       ELSE /\ Becomes(s, Message("tick", slots[s].task, FALSE))
            /\ UNCHANGED client
    /\ UNCHANGED <<tasks, misled>>

Slip_TickOfItsTask(s) ==
    /\ slots[s].kind = "tick"
    /\ Becomes(s, IF client.active /\ client.task = slots[s].task /\ client.status = "started"
                  THEN Message("poll", client.task, FALSE) ELSE Free)
    /\ UNCHANGED <<client, tasks, misled>>

\* case tickMsg: it asks about the task of the moment.
OnTick(s) ==
    /\ slots[s].kind = "tick"
    /\ Becomes(s, IF client.active THEN Message("poll", client.task, FALSE) ELSE Free)
    /\ UNCHANGED <<client, tasks, misled>>

(* The server's side: what the engine and the bridge do to a task           *)

\* A job that fails keeps or loses its percentage.
Moves(old) ==
    IF old.status # "open" THEN {}
    ELSE {[old EXCEPT !.percentage = 100, !.reached = TRUE],
          [status |-> "completed", percentage |-> 100, reached |-> TRUE],
          [old EXCEPT !.status = "failed"],
          [old EXCEPT !.status = "failed", !.percentage = 0]}

TaskMoves(i) ==
    /\ \E new \in Moves(tasks[i]) : tasks' = [tasks EXCEPT ![i] = new]
    /\ UNCHANGED <<client, slots, misled>>

\* Tasks and jobs are in memory only, and every server counts their ids from 1.
\* A connection to another server while a transfer is followed (grpcConnectedMsg
\* replaces StatusClient) is the same to the client: its ids meet another table.
ServerRestarts ==
    /\ tasks # <<>>
    /\ tasks' = <<>>
    /\ misled' = TRUE
    /\ UNCHANGED <<client, slots>>

SlotStep(s) ==
    \/ StartSucceeds(s) \/ StartFails(s) \/ OnStarted(s) \/ OnRefused(s)
    \/ CheckProgress(s) \/ CheckFails(s) \/ OnProgress(s) \/ OnTick(s)

TransfersNext ==
    \/ \E S \in SUBSET Slots : Ask(S)
    \/ \E s \in Slots : SlotStep(s)
    \/ \E i \in DOMAIN tasks : TaskMoves(i)
    \/ ServerRestarts

TransfersSpec == TransfersInit /\ [][TransfersNext]_transferVars

\* Every RPC has a timeout, the sleep ends, and Bubble Tea hands every message
\* to Update.  The server owes nothing.
TransfersFairness == \A s \in Slots : WF_transferVars(SlotStep(s))

FairTransfersSpec == TransfersSpec /\ TransfersFairness
-----------------------------------------------------------------------------
(* Properties                                                              *)

\* Types; what is followed is the id of a task, never that of a refused one.
TransfersTypeOK ==
    /\ client \in Client
    /\ slots \in [Slots -> Slot]
    /\ tasks \in Seq(Task)
    /\ misled \in BOOLEAN
    /\ client.active => client.task \in 1..MaxTasks
    /\ \A s \in Slots : s \in Following \/ slots[s].kind = "started" =>
          slots[s].task \in 1..MaxTasks

\* The progress bar is never left behind: while the client shows a transfer as
\* active there is a poll, an answer or a tick under way that will look at it
\* again, even when answers about other transfers end their own chains.
NeverStopsLooking == client.active => Following # {}

\* Of one transfer at a time the client reports the truth: unless a GetProgress
\* call has failed, two transfers overlapped or the server was restarted (its
\* ids begin anew), "Transfer Complete" means that the transfer it
\* was following has been at 100 percent.
CompleteIsTrue ==
    client.status = "complete" /\ ~misled =>
        Report(client.task).reached

\* A transfer that has completed is reported, or another has taken its place,
\* or the server has forgotten it: then the client asks for ever, or until
\* a new task has its id.
CompletionReported ==
    \A t \in 1..MaxTasks :
        LET reportable == client.active /\ client.task = t /\ Report(t).status = "completed"
        IN  reportable ~> ~reportable
=============================================================================
