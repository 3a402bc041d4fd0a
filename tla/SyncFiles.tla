----------------------------- MODULE SyncFiles ------------------------------
(***************************************************************************)
(* What syncing does to the files themselves: the RPCs Sync and Delete      *)
(* (FileService in core/internal/server/server.go), the decisions of the    *)
(* engine (SyncDiff) and the copies of the bridge, over two directories     *)
(* whose files have contents and modification times.                        *)
(*                                                                         *)
(* SyncEngine and Bridge have the details of a task and of a copy.  Here a  *)
(* task lists one side, then the other, and works off its items one by one; *)
(* a copy empties its target and later fills it.  A time unit is a second.  *)
(* The directories hold files only, and no file is deleted under a copy.    *)
(***************************************************************************)
EXTENDS SyncDiff, Sequences

CONSTANTS
    Sizes,      \* the sizes an edit may leave a file with
    MaxClock,   \* bound: the seconds that pass
    MaxEdits,   \* bound: the edits of a file
    MaxSyncs    \* bound: the calls of Sync

ASSUME SizesAssumption == Sizes \subseteq Nat \ {0}
ASSUME FileBoundsAssumption ==
    MaxClock \in Nat /\ MaxEdits \in Nat /\ MaxSyncs \in Nat

VARIABLES
    clock,      \* the time that the file system stamps on what it writes
    files,      \* side -> path -> the file there, or Absent
    newest,     \* path -> the last edit whose result has not been deleted
    syncs,      \* the tasks; pc, the first listing, and the items to do
    copies,     \* the transfer jobs, in the order of their ids
    mishaps     \* what has happened that may cost an edit (see below)

fileVars == <<clock, files, newest, syncs, copies, mishaps>>

Sides == {"local", "remote"}
Other(side) == IF side = "local" THEN "remote" ELSE "local"

\* edit numbers what a user wrote; 0 is a copy that is not, or never will be,
\* complete, and what a copy of such a file makes.
File == [edit : Nat, size : Nat, time : Nat]
ASSUME FileAssumption == Absent \notin File
Partial(time) == [edit |-> 0, size |-> 0, time |-> time]

SyncState == [pc : {"local", "remote", "exec", "wait", "over"},
              seen : Listing, todo : [Paths -> Actions], copy : Nat]
CopyState == [pc : {"open", "write", "completed", "failed"},
              task : Nat, path : Paths, from : Sides]
Mishaps   == {"unreadable", "edited", "overlap", "remains"}

EmptyListing == [p \in Paths |-> Absent]
NothingToDo  == [p \in Paths |-> "none"]

Running(c) == copies[c].pc \in {"open", "write"}
Busy       == \/ \E t \in DOMAIN syncs : syncs[t].pc # "over"
              \/ \E c \in DOMAIN copies : Running(c)

FilesInit ==
    /\ clock = 0
    /\ files = [side \in Sides |-> EmptyListing]
    /\ newest = [p \in Paths |-> 0]
    /\ syncs = <<>>
    /\ copies = <<>>
    /\ mishaps = {}

Tick ==
    /\ clock < MaxClock
    /\ clock' = clock + 1
    /\ UNCHANGED <<files, newest, syncs, copies, mishaps>>

(* The users of the files                                                  *)

Noted(mishap, happened) == mishaps' = mishaps \cup (IF happened THEN {mishap} ELSE {})

Edit(side, p, size) ==
    /\ newest[p] < MaxEdits
    /\ newest' = [newest EXCEPT ![p] = @ + 1]
    /\ files' = [files EXCEPT ![side][p] =
                   [edit |-> newest[p] + 1, size |-> size, time |-> clock]]
    /\ Noted("edited", Busy)
    /\ UNCHANGED <<clock, syncs, copies>>

\* FileService.Delete.  A file that is still on the other side comes back with
\* the next sync: nothing tells a deleted file from one not copied yet.
Delete(side, p) ==
    /\ files[side][p] # Absent
    /\ ~ \E c \in DOMAIN copies : Running(c) /\ copies[c].path = p
    /\ files' = [files EXCEPT ![side][p] = Absent]
    /\ newest' = [newest EXCEPT ![p] = IF files[Other(side)][p] = Absent THEN 0
                                       ELSE files[Other(side)][p].edit]
    /\ Noted("edited", Busy)
    /\ UNCHANGED <<clock, syncs, copies>>

(* A task: FileService.Sync, runSyncTask and executeTaskActions            *)

Sync ==
    /\ Len(syncs) < MaxSyncs
    /\ syncs' = Append(syncs, [pc |-> "local", seen |-> EmptyListing,
                               todo |-> NothingToDo, copy |-> 0])
    /\ UNCHANGED <<clock, files, newest, copies, mishaps>>

Info(file) ==
    IF file = Absent THEN Absent
    ELSE [size |-> file.size, isDir |-> FALSE, modTime |-> file.time]
ListingOf(side) == [p \in Paths |-> Info(files[side][p])]

\* Another task holds a listing it has not worked off, or a copy that its
\* task has given up on is under way.
Interferes(t) ==
    \/ \E u \in DOMAIN syncs \ {t} : syncs[u].pc \in {"remote", "exec", "wait"}
    \/ \E c \in DOMAIN copies : Running(c)

\* A file that is not whole and that nobody is filling.
LeftPartial(side, p) ==
    /\ files[side][p] # Absent
    /\ files[side][p].edit = 0
    /\ ~ \E c \in DOMAIN copies : Running(c)

\* The errors of ListFiles and os.ReadDir are dropped: a directory that
\* cannot be read is taken for an empty one.
ListSide(t, side, listing) ==
    /\ listing \in {ListingOf(side), EmptyListing}
    /\ mishaps' = mishaps
         \cup (IF listing # ListingOf(side) THEN {"unreadable"} ELSE {})
         \cup (IF Interferes(t) THEN {"overlap"} ELSE {})
         \cup (IF \E p \in Paths : LeftPartial(side, p) THEN {"remains"} ELSE {})

ListLocal(t) ==
    /\ syncs[t].pc = "local"
    /\ \E listing \in {ListingOf("local"), EmptyListing} :
          /\ ListSide(t, "local", listing)
          /\ syncs' = [syncs EXCEPT ![t] =
                         [@ EXCEPT !.pc = "remote", !.seen = listing]]
    /\ UNCHANGED <<clock, files, newest, copies>>

Slip_UploadsOnly(local, remote) ==
    [p \in Paths |-> LET action == DiffAction(local[p], remote[p], NewestWins)
                     IN  IF action \in Uploads THEN action ELSE "none"]

Decisions(local, remote) ==
    [p \in Paths |-> LET action == DiffAction(local[p], remote[p], NewestWins)
                     IN  IF action \in Transfers THEN action ELSE "none"]

ListRemote(t) ==
    /\ syncs[t].pc = "remote"
    /\ \E listing \in {ListingOf("remote"), EmptyListing} :
          /\ ListSide(t, "remote", listing)
          /\ syncs' = [syncs EXCEPT ![t] =
                         [@ EXCEPT !.pc = "exec", !.seen = EmptyListing,
                                   !.todo = Decisions(syncs[t].seen, listing)]]
    /\ UNCHANGED <<clock, files, newest, copies>>

StartCopy(t, p) ==
    /\ syncs[t].pc = "exec"
    /\ syncs[t].todo[p] # "none"
    /\ \A q \in Paths : syncs[t].todo[q] # "none" => p <= q
    /\ copies' = Append(copies,
          [pc |-> "open", task |-> t, path |-> p,
           from |-> IF syncs[t].todo[p] \in Uploads THEN "local" ELSE "remote"])
    /\ syncs' = [syncs EXCEPT ![t] =
                   [@ EXCEPT !.pc = "wait", !.copy = Len(copies) + 1]]
    /\ UNCHANGED <<clock, files, newest, mishaps>>

\* waitBridgeJob returns when the job has settled, and after a second anyway.
WaitBridgeJob(t) ==
    /\ syncs[t].pc = "wait"
    /\ syncs' = [syncs EXCEPT ![t] =
          [@ EXCEPT !.pc = "exec", !.copy = 0,
                    !.todo[copies[syncs[t].copy].path] = "none"]]
    /\ UNCHANGED <<clock, files, newest, copies, mishaps>>

FinishSync(t) ==
    /\ syncs[t].pc = "exec"
    /\ syncs[t].todo = NothingToDo
    /\ syncs' = [syncs EXCEPT ![t].pc = "over"]
    /\ UNCHANGED <<clock, files, newest, copies, mishaps>>

(* A copy: copyLocalFile                                                   *)

SourceOf(c) == files[copies[c].from][copies[c].path]
Put(c, file) == files' = [files EXCEPT ![Other(copies[c].from)][copies[c].path] = file]

CopyGoes(c, pc) ==
    /\ copies' = [copies EXCEPT ![c].pc = pc]
    /\ UNCHANGED <<clock, newest, syncs, mishaps>>

\* os.Open and os.Create, which empties the target and stamps it.
OpenCopy(c) ==
    /\ copies[c].pc = "open"
    /\ SourceOf(c) # Absent
    /\ Put(c, Partial(clock))
    /\ CopyGoes(c, "write")

\* The target gets the time of the last write, not the time of the source.
WriteCopy(c) ==
    /\ copies[c].pc = "write"
    /\ Put(c, [SourceOf(c) EXCEPT !.time = clock])
    /\ CopyGoes(c, "completed")

FailCopy(c) ==
    /\ Running(c)
    /\ CopyGoes(c, "failed")
    /\ UNCHANGED files

SyncStep(t) ==
    \/ ListLocal(t) \/ ListRemote(t) \/ WaitBridgeJob(t) \/ FinishSync(t)
    \/ \E p \in Paths : StartCopy(t, p)

CopyStep(c) == OpenCopy(c) \/ WriteCopy(c) \/ FailCopy(c)

FilesNext ==
    \/ Tick
    \/ \E side \in Sides, p \in Paths : Delete(side, p)
    \/ \E side \in Sides, p \in Paths, size \in Sizes : Edit(side, p, size)
    \/ Sync
    \/ \E t \in DOMAIN syncs : SyncStep(t)
    \/ \E c \in DOMAIN copies : CopyStep(c)

FilesSpec == FilesInit /\ [][FilesNext]_fileVars
-----------------------------------------------------------------------------
(* Properties                                                              *)

\* Types, and that a waiting task waits for a copy of its own.
FilesTypeOK ==
    /\ clock \in Nat
    /\ files \in [Sides -> [Paths -> File \cup {Absent}]]
    /\ newest \in [Paths -> Nat]
    /\ syncs \in Seq(SyncState)
    /\ copies \in Seq(CopyState)
    /\ mishaps \subseteq Mishaps
    /\ \A t \in DOMAIN syncs : syncs[t].pc = "wait" =>
          syncs[t].copy \in DOMAIN copies /\ copies[syncs[t].copy].task = t

Survives(p) ==
    \/ newest[p] = 0
    \/ \E side \in Sides : files[side][p] # Absent /\ files[side][p].edit = newest[p]

\* No sync costs the last edit of a file, in whatever order the sides were
\* edited, however close in time, and even if a copy fails or goes on after
\* its task: at every moment one side has it whole.  The exceptions are the
\* mishaps: a directory that could not be read, an edit while a sync is at
\* work, a task that lists while another or a copy is at work, and a task that
\* lists what a failed copy has left.
NewestSurvives == mishaps = {} => \A p \in Paths : Survives(p)

Agree(p) ==
    LET l == files["local"][p]
        r == files["remote"][p]
    IN  \/ l # Absent /\ r # Absent /\ l.edit = r.edit
        \/ DiffAction(Info(l), Info(r), NewestWins) \in {"none", "in_sync"}

\* A task whose copies have all completed leaves both sides with the same
\* contents, but for files that look alike in size and time.
SyncAgrees ==
    [][\A t \in DOMAIN syncs :
          /\ syncs[t].pc # "over" /\ syncs'[t].pc = "over"
          /\ mishaps = {}
          /\ \A c \in DOMAIN copies : copies[c].task = t => copies[c].pc = "completed"
          => \A p \in Paths : Agree(p)]_fileVars

\* What the engine's test of a bidirectional sync expects, of any number of
\* syncs: the files end up on both sides.  Overlapping is all that may happen.
SyncingAgainIsHarmless ==
    mishaps \subseteq {"overlap"} /\ ~Busy => \A p \in Paths : Survives(p)
=============================================================================
