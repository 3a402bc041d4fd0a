# Total Connect: TLA+ verification project

Total Connect is a file manager built around a fork of rclone: a gRPC server
(`src/core`) with a sync engine, a transfer bridge and a credential vault, and
a terminal client (`src/cli`). The rest of the repository (`backend`, `cmd`,
`fs`, `lib`, `vfs`, ...) is the rclone tree, third-party code; of it only the
write-back queue of the VFS cache is modelled. This directory holds TLA+ models
of the program's own logic, the TLC configurations that check them, and TLAPS
proofs of what matters most.

## Inventory

| Part | State | Operations | Model |
|---|---|---|---|
| Sync engine, `core/internal/sync/sync.go` | `tasks`, `queue`, `taskCounter` under `Engine.mu`; one goroutine per dispatch or resumed task | `EnqueueTask`/`Sync`, `processNextInQueue`, `runSyncTask`, `executeTaskActions`, `waitBridgeJob`, `ResolveConflict`, `GetTaskProgress`, `CalculateDiff` | `SyncDiff`, `SyncEngine`, abstract `TaskBoard` |
| Bridge, `bridge/internal/rclone/bridge.go` | `jobs` under `Bridge.mu`; one goroutine per transfer; the disk | `Transfer`, `executeTransfer`, `copyLocalFile`, `copyLocalDir`, `GetProgress`, `ListFiles`, `ListRemotes` | `Bridge`, abstract `JobTable` |
| Vault, `core/internal/vault/vault.go` | key, salt, hash, ciphertexts under `Vault.mu` | `Unlock`, `Lock`, `AddCredential`, `GetCredential`, `AddSSHKey`, `GetSSHKey` | `Vault`, abstract `SecretStore` |
| Vault RPCs, `VaultService` in `core/internal/server/server.go` | `lastPassphrase` under its own mutex | `Unlock`, `Lock`, `AddCredential`, `GetSSHKey`, `ensureUnlocked` | `VaultService` |
| File and status RPCs, same file | none of their own; two directories of files | `Sync`, `Delete`; `Transfer`, `GetProgress`; `List`, `Health` | `SyncFiles` (the first two), `TuiTransfers` (the next two) |
| Server life cycle, same file | `grpcServer`, `listener`, unprotected | `Serve`, `Stop` | not modelled |
| Terminal client, `cli/internal/tui` | the Bubble Tea model; commands and messages under way | key handlers, asynchronous commands and the handlers of their messages | `TuiTransfers`, `TuiSession` |
| Profiles, `cli/internal/tui/profiles.go` | a file rewritten in place | load, save | `TuiSession` |
| Configuration, `core/internal/config/config.go` | a file rewritten in place | load, save; nothing but tests calls them | not modelled |
| Write-back queue, `vfs/vfscache/writeback/writeback.go` | `items` (heap), `lookup`, `uploads`, `expiry`, `timer` under `WriteBack.mu`; one goroutine per upload | `Add`, `Remove`, `Rename`, `SetExpiry`, `_cancelUpload`, `processItems`, `upload` | `Writeback` |
| Rendering, logger, generated gRPC code, the rest of rclone | | | not modelled |

How the parts interact: an RPC handler runs on its own goroutine and calls the
engine, the bridge or the vault directly. The engine calls `Bridge.ListFiles`
and `Bridge.Transfer`, then polls `Bridge.GetProgress` at most 50 times, 20 ms
apart. Nothing calls back; the only signals are the goroutines that
`EnqueueTask`, `ResolveConflict` and the end of a task start. Clients poll
`GetProgress` for tasks and jobs. In the client, every RPC runs on a goroutine
of its own and comes back to the update loop as a message, in any order. The
write-back queue is called by the VFS, and calls back into it to upload a file.

What is hard here: every task has its goroutine and there is no limit on them;
the executor reads a task's items outside the lock; a goroutine that ends in a
conflict starts no successor; a copy may fail, hang, or outlive the poller that
gave up on it; two copies may write one file; two mutexes guard the vault, and
the RPCs release theirs before the vault operation; a copy stamps its target
with the present, so that an unfinished one looks like the newest file; the
client's messages do not say which request they answer; a cancelled upload is
waited for with the mutex given up; errors are dropped in many places.
`PROJECT.json` lists these hazards line by line with the properties that cover
them.

## Modules

### Sync engine

`SyncDiff` is the pure part: `CalculateDiff` as a function of two listings and
a strategy, and what `ResolveConflict` makes of an item. Paths are numbers in
the order `sort.Strings` gives the names. A time unit is a second, so the window
`modDiff < 2.0` is `ModWindow = 2`.

`SyncEngine` has one action per section that a goroutine runs without another
one getting in between:

| Action | Code |
|---|---|
| `EnqueueTask` | defaults, stable sort, spawn |
| `ProcessNextInQueue`, `ProcessEmptyQueue` | `processNextInQueue`, with a task and without |
| `RunSyncTask` | the two listings, the diff, the totals and the conflict test |
| `ExecInSync`, `ExecTransfer`, `CountItem`, `FinishTask` | the loop of `executeTaskActions` and what follows it |
| `PollSettled`, `PollPending` | one round of `waitBridgeJob` |
| `ResolveConflict` | one call that finds its conflict (the others change nothing) |
| `JobSettles` | the bridge, as `JobTable` promises it |

The variables `tasks`, `queue` and `taskCounter` are the fields of `Engine`.
`spawned` counts the `processNextInQueue` goroutines that have not taken the
lock; `workers` holds the local variables of those that carry a task; `jobs` is
the bridge's table. A listing is any of `Listings` or an empty one: the errors
of `ListFiles` and of `os.ReadDir` are both dropped, so an unreadable directory
looks empty. The action does not keep the two listings apart in time: what they
return is arbitrary anyway. `TotalBytes` is a function of the items
(`TotalBytes(diffs)`); percentages are whole numbers.

A user's choice is "local", "remote", or "skip", which stands for every other
string. Not modelled: a task id supplied by the caller, which no caller in the
repository does, and `DeleteExtraneous`, which the engine stores and never
reads. `ResolveConflict` takes an idle worker name even when it does not resume
the task, so the runs have a name to spare.

`TaskBoard` is what the engine promises its callers: tasks start most urgent
first and equals in order of submission, a started task completes or is held
with a set of paths to decide, and it completes once all are decided.

### Bridge

`Bridge` has a goroutine per `Transfer` call that tries rclone and falls back on
copying local files block by block, over one shared `disk`. Reading a block and
writing it are two steps, so that other goroutines may empty or fill the files
in between; a write past the end of a file that was emptied leaves a `Hole`. The
final and the intermediate `updateProgress` calls are as in the code, the 100 of
100 bytes of a directory included. Files appear and change, but are not deleted
under a running copy; a directory has files only. rclone is external: `NewFs`
takes a directory or a path where there is nothing, and `CopyFile` succeeds only
if the source directory has a file of its own name, which is what the arguments
the bridge gives it amount to for local paths. Any file operation may fail.
The properties speak of jobs that are `Undisturbed`: nobody else writes their
files, and their own targets are apart from each other and from their sources
(nothing stops a caller from copying a directory into itself).

`JobTable` is the promise that the engine relies on, and `Bridge` is shown to
implement it: a job settles at most once, never changes afterwards, and counts
no bytes if it failed. `SyncEngine` instantiates `JobTable`, not `Bridge`.

### Vault

`Vault` has one action per operation, since each holds `Vault.mu` throughout.
Argon2id and AES-GCM are external and ideal: a derived key stands for exactly
its passphrase and salt, a ciphertext opens with the key that sealed it only,
and `rand.Reader` does not fail. `VaultService` adds the RPCs: `Unlock` and
`Lock` are one action each; `AddCredential` and `GetSSHKey` are two,
`ensureUnlocked` and then the vault operation, because the mutex is released in
between. Code inside the server may add SSH keys through `Vault()`; locking and
unlocking is done by the RPCs only, as in the repository.

`SecretStore` is what the vault promises: the first passphrase owns the store
for good, no other opens it, and a secret stays what it is until its slot is
put again. In the refinement a slot shows what the owner's key makes of the
ciphertext in it, so sealing with any other key would make a secret vanish.

What the models show besides: an `AddCredential` before the first `Unlock` makes
"default" the passphrase for good; after `Lock`, `AddCredential` and `GetSSHKey`
unlock the vault again by themselves (the server's tests expect it); a wrong
`Unlock` leaves an unlocked vault unlocked; `AddCredential("")` stores under
"default" while `GetCredential("")` looks for the empty name.

### Files

`SyncFiles` is what syncs do to the files, the composition of the RPCs, the
engine and the bridge at the grain where contents and times matter. It uses
`SyncDiff` for the decisions. A task lists one side, then the other, and works
off its items; a copy empties its target and later fills it, and each of these
steps interleaves with edits, deletions, other tasks and the clock. `edit`
numbers what a user wrote to a path; a target being filled has edit 0, and so
has a copy of it. `newest` is the last edit that has not been deleted.
`WaitBridgeJob` may be taken before the copy has settled, which is how
`waitBridgeJob` gives up. A listing may come out empty, because errors are
dropped. The strategy is `newest_wins`, the one that the `Sync` RPC asks for.

Four things can cost an edit in this code, and the set `mishaps` records which
of them has happened: a directory that could not be read (`unreadable`), an edit
or a deletion while a task or a copy is at work (`edited`), a task that lists
while another holds listings or a copy runs (`overlap`), and a task that lists
a file that a failed copy left short (`remains`). The properties say that
nothing else can, and TLC finds a loss as soon as one of them is allowed.

### Terminal client

`TuiTransfers` follows the transfers a client has asked for. A slot holds a
command (`start`, `poll`, `tick`) or the message that it has become (`started`,
`refused`, `progress`); a step is one RPC, or one call of `Update`. Asking opens
one slot or several at once (F5 copies all that is selected). The server's tasks
go to 100 percent, complete or fail when they like; a request may fail before or
after the server has acted; the server may restart, which empties its tables and
begins its ids anew. A connection to another server while a transfer is followed
(F3 or F9; `grpcConnectedMsg` replaces `StatusClient`) has the same effect, ids
that meet another table, and `ServerRestarts` stands for it too. `misled` records
that an RPC has failed, that transfers overlapped, or that the server restarted
or was replaced: then the client may say "Transfer Complete" of a transfer that
is not.

`TuiSession` is the rest of the update loop: connecting, the remote pane, the
dialogs for new directories, profiles and the vault, and `profiles.json`. A call
keeps the clients that the model had when the command was made, so that an
answer may come from a server that has been left. The vaults are the servers':
a restart of a server locks its vault, and other clients lock it or unlock it,
by `Unlock` or, through `ensureUnlocked`, by `AddCredential` and `GetSSHKey`; a
client is told nothing of it. `SaveProfiles` has three outcomes, since
`os.WriteFile` empties the file before it writes: the file is written, is as it
was, or cannot be read; the error is dropped, and the client goes on or dies.
`troubles` records what may make the display wrong: calls of one kind that were
under way together (`connect`, `list`, `unlock`), a vault call that failed
(`failed`), a change of server or a restart of the client with a vault open
(`moved`), a vault changed by a restart or by others (`elsewhere`), a save that
failed and left the file alone (`stale`) or cut short (`broken`). The four about
the vault end with an `Unlock` or a `Lock` that succeeds by itself with the
server the client is connected to, the two about the file with the next save
that succeeds. Enter in the mkdir dialog without a name closes it and falls
through to the pane, as in the code. Left out are the local pane, the
selections, the mouse and the wording of the status line.

### Write-back queue

`Writeback` has one action per section under `WriteBack.mu`. A call that finds
its file uploading cancels it, gives the mutex up, reads the channel to wait for
and waits: three steps, since the item may have ended, and be uploading again,
between any two. An item that is put back on the heap in that time is uploaded
twice at once; the first of the two to end closes the channel of the other, and
the second then closes a channel that is closed, which ends the program
(`UploadPanics`). `items` keeps every item ever made, on the heap or not, in
`lookup` or not, as pointers held by goroutines do. Names are abstracted: the
files in the way of a `Rename` are any others. `processItems` pops what has
expired in the order of `Less`, up to the transfer limit. An upload may succeed
although it was cancelled, and fail for other reasons with a longer delay.
`pending` has the files with a change that no upload has taken: an upload that
began before the change does not count. The delay is positive: with
`--vfs-write-back 0` the cache stores a file when it is closed and never calls
`Add` (`item.go`, `syncWriteBack`). The statistics, `cancelUpload`, which only
tests use, and the end of the queue are left out: when the VFS shuts its cache
down it cancels `wb.ctx`, and `processItems` returns at once from then on. What
is still on the heap is not scheduled again; the next start finds it in the
cache on disk.

## Runs

| Run | Instance | Question |
|---|---|---|
| `engine_items` | 1 task, 2 paths, 4 listings and the empty one on both sides, both strategies, `PollLimit` 2 | Do items, counts, bytes, jobs and conflicts of a task stay consistent whatever the listings, the jobs and the user do? |
| `engine_queue` | 4 tasks, 4 priority inputs, 5 goroutines, empty directories | Is the queue sorted and stable under enqueueing and dispatching in any order? |
| `engine_live` | 2 tasks, 2 goroutines, 1 path, `ask_user`, with fairness | Can two tasks get in each other's way: two executors, a lost wake-up, a step the board does not allow? Is every task completed or held, even if no job ever settles? |
| `bridge_jobs` | 2 transfers of 4 kinds over 4 files, 6 disks | Are copies exact, repeated copies harmless and progress honest? |
| `vault_rpcs` | 2 clients, 4 passphrases with "" and "default", 2 salts, 2 names, 2 values | Is any secret ever sealed with a key that does not come back, or the dropped unlock error ever real? |
| `sync_files` | 1 path, 2 sizes, 3 edits, 2 syncs, 2 seconds | Is the last edit of a file ever lost without a mishap, and do the sides agree when a task is over? |
| `tui_transfers` | 2 tasks, 3 slots, with fairness | Does the client keep looking, tell the truth about one transfer at a time, and report what has completed? |
| `tui_session` | 2 servers, 3 paths, 2 profiles, 2 calls under way, 6 keys | Is what is shown of the pane, the vault and the profiles what there is? |
| `writeback` | 2 files, 1 caller, 2 transfers, 2 items, 3 uploads | Is any change forgotten, the heap ever left without a timer, an upload counted twice or not at all? |
| `engine_completed` | 1 task, 1 path | Does "completed" mean transferred? It does not (below). |
| `sync_again` | 1 path, 1 edit, 2 syncs | Is it harmless to ask for a sync again? It is not (below). |
| `writeback_again` | 1 file, 1 caller, a delay of 1, `SetExpiry` | Is an item that is uploading off the heap? Not always (below). |

Bounds. `MaxTasks`, `MaxJobs` and `MaxBytes` bound counters; the theorems have
the first for every value. `PollLimit` is 50 in the code and 1 or 2 in the runs:
a round that is not the last and the last one both occur. Two paths give an item
ahead of the executor and one behind it; the listings put a file against an
older one, one in the two-second window, one of equal time and another size, a
directory, and nothing. Two tasks are enough for a race between executors and
four for a queue with an equal before and behind and a removal between. Two
transfers are enough for one writer to disturb another. In `sync_files` paths do
not interact but through one task's order of work, and two seconds reach both
sides of the window of `ModWindow`; the third edit meets a copy of the first
and an edit of the other side. Three slots give a poll of an earlier transfer
beside a new one that starts. In `tui_session` six keys open a dialog, use a
profile, reconnect and still move; servers restart and other clients act at any
time. In `writeback` one caller and three uploads
are enough for a file that is uploaded twice at once while the other one has to
wait, and for the panic that follows; more callers are left to the proof.

Worker, client, call and caller names are symmetric; the two liveness runs use
no symmetry. Only the vault run checks for deadlock: the others come to rest
when the bounded number of tasks, keys or uploads is used up, as the program
does when there is nothing left to do.

Fairness. `engine_live`: weak fairness of the dispatching goroutines and
of each goroutine that carries a task, which is what the Go scheduler gives a
goroutine that can run; all its waits are bounded. None for callers, and none
for the bridge: a copy may hang on a dead mount. Liveness therefore rests on
`waitBridgeJob` giving up. In the code a bridge listing that hangs would hold
its goroutine too; the model takes listings to return. `tui_transfers`: weak
fairness of every slot. Each RPC of the client has a timeout, the half second's
sleep ends, and Bubble Tea hands every message to `Update`; the server owes
nothing.

Findings. `engine_completed` reaches a task that is "completed" while its only
transfer has failed (or is still running): `executeTaskActions` sets the status
whatever became of the jobs, and nothing assigns "failed". The tests of engine
and server take "completed" to mean that the files are there.

`sync_again` loses a file with one edit, two syncs and no failure. The first
sync's copy has emptied its target, which is stamped with the present, and
may outlive `waitBridgeJob` (a large file on a slow disk). The second sync, which
need only overlap with that copy, whether the first task is over or not, lists
the empty target as the newer file and `newest_wins` copies it back over the
source; what the first copy still reads of the source is empty too.

`writeback_again` puts an item on the heap that is uploading. `_cancelUpload`
waits for the upload it cancelled with the mutex given up. The upload ends and is
put back for a retry, `SetExpiry` (the remote control's `vfs/queue-set-expiry`)
makes it due, and it is started again before the caller goes on and pushes the
item; a delay as short as the caller's way back to the mutex would do as well. `processItems` then starts a
second upload of it. The three properties of the `writeback` run hold all the
same, and that is proved.

Every property of a passing run has a mutant, a slip a programmer might have
made (`Slip_*` beside the definition it replaces), under which TLC finds the
property violated.

## Proofs

All theorems hold for every value of the constants that satisfies the named
assumptions:

* engine: finitely many paths numbered by naturals and goroutine names, a
  positive `PollLimit`, inputs of the right types (`PathsAssumption`,
  `AbsentAssumption`, `BoundsAssumption`, `InputAssumption`);
* vault: nil is none of the values it stands in for, and the empty and the
  default strings are among the inputs (`NoneAssumption`, `InputsAssumption`);
* bridge: a missing file is neither a block nor contents, disks and requests
  are about the same files (`BlocksAssumption`, `DisksAssumption`,
  `RequestsAssumption`);
* files: sizes that are positive and an `Absent` that is no file
  (`SizesAssumption`, `FileAssumption`);
* client: finitely many slots (`SlotsAssumption`); a listing for every directory
  of every server, and a broken profile file that is no list of profiles
  (`SessionAssumption`);
* write-back queue: finitely many handles numbered by positive naturals, at
  least one transfer, a positive delay and natural bounds (`WritebackAssumption`).

`SyncEngineProofs`. `TypeOK` is inductive (`TypeCorrect`); the rest has four
parts.

1. `Dispatching`, relative to `TypeOK`: who works on what. None of its parts is
   inductive alone: that a dequeued task has no executor yet needs the queue to
   hold only queued tasks, that the head of the queue is the task to start needs
   its order, and that `ResolveConflict` starts no second executor needs a held
   task to have none. `QueueAlwaysInOrder`, `NoLostWakeup` and
   `NeverTwoExecutors` follow.
2. `Books`, relative to both: the counts and items of a task agree with how far
   it has come. `ConflictsAlwaysHold`, `ProgressAlwaysExact` and
   `TaskHistoryCorrect` follow, and from them that no step writes the items an
   executor is reading without the lock (`ExecutorReadsStableItems`): an
   executing task is in progress, a task in progress has no conflict, and
   `ResolveConflict` writes conflicts only. `PolledProgressNeverGoesBack` needs
   the percentage of an unfinished task to be the one of its counts, at most
   100, and that counting raises it (`PercentRises`); every step then replaces
   one record by one that follows it (`RecordsFollow`).
3. Every step of the engine is a step of `TaskBoard` or leaves it alone
   (`EngineImplementsBoard`).
4. `Ledger`, relative to the first two: the bridge's jobs of a task are of
   different items, exactly those that its executor has done with and that call
   for a transfer (`Handed`), and the bytes counted for a task are at most the
   sum over those of its jobs that its executor no longer waits for (`Backed`).
   It is that exception which makes counting a job once inductive.
   `JobsAlwaysFollowDecisions` and `BytesAlwaysBacked` follow.

`BridgeProofs`. `BInv` is inductive. `GoroutineOK` fits a goroutine's locals to
the line it is at. `ReadingOK` says that the block in the buffer is still the
one in the source. `CopyingOK` says of an undisturbed job that its counters are
the sums of the sizes of the files there are and of those it has passed, that
what is behind it is copied, and that the percentage shown is at most what that
comes to: a percentage of 100 then leaves no block to copy. `RefilledOK` is for
several jobs that make the same copy, each of which empties the target that the
others are filling: at every moment one of them vouches for what is in it, the
one that emptied it last by the blocks up to its offset. Once all have completed
that is the whole file. `CopiesAreExact`, `RepeatedCopiesAreOne`, `FullIsCopied`
and `PercentagesRise` follow; `BridgeIsJobTable` says that the bridge keeps what
`JobTable` promises, with any byte counts, which is what `SyncEngine` takes from
it.

`VaultProofs`. Types, `OneKey` and `RememberedOpens` are inductive together
(`VaultInvariant`): a stored secret is under the owner's key because the key in
use always is, and the remembered passphrase opens the vault because only
successful unlocks are remembered and the fallback is what unlocked it if none
was. `DroppedErrorNeverOccurs` and `KeysAlwaysAnswered` follow: whatever other
clients do between the two halves of `GetSSHKey`, what is stored opens with the
key in use. Vault and RPCs implement `SecretStore` (`VaultImplementsStore`), and
an unlocked vault gives every credential back (`CredentialsAlwaysReadable`).

`SyncFilesProofs`, for any number of files, edits, tasks and copies. As long as
no mishap has happened the files are `Calm`: one task at most is past its first
listing (`OneAtWork`), what it listed and decided still holds (`ListingHolds`,
`DecisionsHold`), the copies under way are of different files and of items the
task has done with (`CopiesApart`, `ItemsApart`), each reads from a side that
has the last edit (`SourcesWhole`), and of two edits the last is not the older
file (`LastIsLatest`), which is what makes `newest_wins` right. The lemma
`DecisionRight` has that argument; `SourcesUntouched` says that no copy writes
what another has yet to read. `NewestAlwaysSurvives` follows. For
`SidesAgreeAfterSync` every path of a task that has decided is `Accounted` for:
the sides agree, its copy is still to start, or a copy of it has not completed.
That a copy which completes makes the sides agree for good needs every copy
under way to be the task's own (`CopiesOwned`).

`TuiTransfersProofs`, for any number of slots and tasks. `TransfersTypeOK` and
`NeverStopsLooking` are inductive with the truth of one transfer: until the
client is misled there is at most one chain of polls (`OneChain`), it is about
the task the client shows, and an answer that says done is about a task that has
been at 100 percent (`DoneIsTrue`). Without the first, the end of one chain could
be told of another's task. `TransfersTypeCorrect`, `AlwaysLooking` and
`CompleteAlwaysTrue` follow.

`TuiSessionProofs`, for any number of servers, directories, profiles and calls.
Three of the properties are about a moment when nothing is under way; the
invariant `SessionInv` says what the one call that is under way is about. A
listing is for the directory that is shown and comes from the server that is
dialled (`Pane`); a vault call is for that server, and the vault is as it was
before the call or as its answer says (`VaultShown`). A vault call that succeeds
while it is the only one under way (`Alone`) makes that true again whatever was
before, and so the exceptions end there. `SaveProfilesKeeps` has the ways a save
may end. `CursorsStayInRange`, `PaneShowsTheDirectory`, `VaultShownAsItIs` and
`ProfilesAreKept` follow.

`WritebackProofs`, for any number of files, callers, transfers and uploads and
any positive delay. `WbInv` has the three properties of the run, which need each other: a
file in `lookup` is on the heap or uploading (`KnownOK`), and a timer that does
not run is at rest or has just fired (`TimerOK`), so that the early return of
`_resetTimer` leaves no item without one. The counter is the number of the
goroutines that are not over even when a file is uploaded twice, and `Popped`
takes no more items than there are transfers left (`PoppedFits`).
`TransfersLimited`, `HeadIsScheduled` and `NoChangeForgotten` follow.

`SumTheorems` has what the others use of sums: `MapThenSumSet` over a finite set
gains what is added to the set, and a larger set or larger numbers have no
smaller sum. They are proved by induction on finite sets, stated for a set of
good subsets and not for a predicate (`FiniteInduction`), which the provers can
instantiate.

Only model-checked: `EveryTaskServed`, `CompletionReported` and
`ImplementsFairBoard`, because liveness under fairness is beyond this prover.
Every other property of a passing run is the statement of a theorem, but for
`ImplementsJobTable`, which has the byte counts of the run's instance where
`BridgeIsJobTable` has all of them.

## Not modelled, and the plan

* `Serve` and `Stop` of the server: two assignments and an unsynchronised read
  of `grpcServer`. A `Stop` that comes before the assignment stops nothing; there
  is no other state to relate it to. `cmd/tc-server`, which would call them,
  does not match the packages and does not build.
* `config.go` and the password functions of `profiles.go`: no code but tests
  calls them.
* The client's local pane, selections, mouse and status line, and its rendering:
  synchronous, or pure functions of the model.
* The logger and the generated gRPC code.
* rclone, which is nearly all of the repository's lines: a separate project,
  vendored as a fork. What this program uses of it is external in `Bridge`. The
  write-back queue is modelled because it is its most delicate piece of
  concurrent state that stands alone; the storage backends, the commands and the
  file system layer are out of the scope of this project.

What is left to do: liveness of the write-back queue (a file that is not changed
any more is uploaded, if uploads succeed from some time on) as a run of its own,
and the step part of the refinement from `TuiTransfers` to an abstract list of
transfers, if one is worth stating.
