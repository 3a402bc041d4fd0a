------------------------------- MODULE Bridge -------------------------------
(***************************************************************************)
(* The transfer jobs of the bridge (bridge/internal/rclone/bridge.go): one  *)
(* goroutine per Transfer call, which tries rclone, falls back on copying   *)
(* local files block by block, and reports through Bridge.jobs.  All the    *)
(* goroutines work on one disk; Bridge.mu protects the job table and        *)
(* nothing else.                                                            *)
(*                                                                         *)
(* A file is a sequence of blocks (the code copies 32 KB at a time), and    *)
(* sizes are counted in blocks.  Percentages are whole numbers.             *)
(***************************************************************************)
EXTENDS Naturals, Sequences, FiniteSetsExt

CONSTANTS
    Files,      \* local files, by their full path
    Blocks,     \* what a block may hold
    Hole,       \* the zeroes of a block that was skipped over
    Missing,    \* no such file
    Disks,      \* the contents of the disk to start from
    Requests,   \* the transfers callers ask for
    MaxJobs,    \* bound: the calls of Transfer
    MaxBytes    \* bound: the bytes a job reports

Content == Seq(Blocks \cup {Hole})

\* A request names the files it will walk over, each with its target: one for
\* a file, those in it in walk order for a directory (of files only).  own is
\* the file of a directory that has the directory's own name, with the target
\* rclone gives it.
Request == [dir : BOOLEAN, pairs : Seq(Files \X Files), own : Seq(Files \X Files)]

ASSUME BlocksAssumption == Missing \notin Blocks \cup {Hole}
ASSUME DisksAssumption ==
    Disks \subseteq [Files -> Content \cup {Missing}] /\ Missing \notin Content
ASSUME RequestsAssumption ==
    /\ MaxJobs \in Nat /\ MaxBytes \in Nat
    /\ \A req \in Requests : /\ req \in Request
                             /\ Len(req.own) <= 1
                             /\ ~req.dir => Len(req.pairs) = 1 /\ req.own = <<>>

VARIABLES
    disk,        \* file -> its content or Missing
    jobs,        \* Bridge.jobs: the i-th element is the job "job-i"
    transfers    \* the i-th element: the local state of executeTransfer of job i

bridgeVars == <<disk, jobs, transfers>>

\* "try": before NewFs; "rclone": before CopyFile; "stat": before os.Stat;
\* "next": before the next file of the walk; "read", "write": in the loop of
\* copyLocalFile; "over": returned.
Goroutine == [pc : {"try", "rclone", "stat", "next", "read", "write", "over"},
              walked : Nat,    \* how many of the pairs are copied
              copied : Nat,    \* totalCopied, in blocks of the current file
              before : Nat,    \* copiedSize: what the files before it had
              size : Nat,      \* info.Size() of the current file
              total : Nat,     \* totalSize
              buf : Blocks \cup {Hole, Missing}]

Fresh == [pc |-> "try", walked |-> 0, copied |-> 0, before |-> 0, size |-> 0,
          total |-> 0, buf |-> Missing]

Progress == [req : Requests, status : {"in_progress", "completed", "failed"},
             bytes : Nat, total : Nat, percentage : Nat]

BridgeInit ==
    /\ disk \in Disks
    /\ jobs = <<>>
    /\ transfers = <<>>

Transfer(req) ==
    /\ Len(jobs) < MaxJobs
    /\ jobs' = Append(jobs, [req |-> req, status |-> "in_progress", bytes |-> 0,
                             total |-> 0, percentage |-> 0])
    /\ transfers' = Append(transfers, Fresh)
    /\ UNCHANGED disk

UpdateProgress(job, bytes, total, status) ==
    [job EXCEPT !.bytes = bytes, !.total = total, !.status = status,
                !.percentage = CASE total > 0 -> (100 * bytes) \div total
                                 [] total = 0 /\ status = "completed" -> 100
                                 [] OTHER -> @]

Update(i, bytes, total, status) ==
    jobs' = [jobs EXCEPT ![i] = UpdateProgress(@, bytes, total, status)]

Goes(i, goroutine) == transfers' = [transfers EXCEPT ![i] = goroutine]

Walk(i)   == jobs[i].req.pairs
Source(i) == Walk(i)[transfers[i].walked + 1][1]
Target(i) == Walk(i)[transfers[i].walked + 1][2]

\* The size of all the files that are there: srcFs.List and the first walk of
\* copyLocalDir.
Present(req)  == {k \in 1..Len(req.pairs) : disk[req.pairs[k][1]] # Missing}
Sizes(req)    == [k \in Present(req) |-> Len(disk[req.pairs[k][1]])]
TreeSize(req) == LET size == Sizes(req)
                 IN  MapThenSumSet(LAMBDA k : size[k], Present(req))

(* executeTransfer: the attempt with rclone                                *)

\* NewFs refuses a path that is a file (fs.ErrorIsFile) and may refuse any
\* other; it takes a directory, and a path where there is nothing.
NewFsFails(i) ==
    /\ transfers[i].pc = "try"
    /\ Goes(i, [transfers[i] EXCEPT !.pc = "stat"])
    /\ UNCHANGED <<disk, jobs>>

NewFsSucceeds(i) ==
    /\ transfers[i].pc = "try"
    /\ jobs[i].req.dir \/ disk[Source(i)] = Missing
    /\ LET total == TreeSize(jobs[i].req)
       IN  /\ Update(i, 0, total, "in_progress")
           /\ Goes(i, [transfers[i] EXCEPT !.pc = "rclone", !.total = total])
    /\ UNCHANGED disk

\* Slip_*: plausible slips in the code, which the properties must notice.
Slip_NoReturn(i) ==
    /\ transfers[i].pc = "rclone"
    /\ \E pair \in Range(jobs[i].req.own) :
          /\ disk[pair[1]] # Missing
          /\ disk' = [disk EXCEPT ![pair[2]] = disk[pair[1]]]
    /\ Update(i, transfers[i].total, transfers[i].total, "completed")
    /\ Goes(i, [transfers[i] EXCEPT !.pc = "stat"])

\* CopyFile looks for the base name of src inside src: only a directory that
\* contains a file of its own name has it.  rclone replaces the target whole.
CopyFileSucceeds(i) ==
    /\ transfers[i].pc = "rclone"
    /\ \E pair \in Range(jobs[i].req.own) :
          /\ disk[pair[1]] # Missing
          /\ disk' = [disk EXCEPT ![pair[2]] = disk[pair[1]]]
    /\ Update(i, transfers[i].total, transfers[i].total, "completed")
    /\ Goes(i, [transfers[i] EXCEPT !.pc = "over"])

CopyFileFails(i) ==
    /\ transfers[i].pc = "rclone"
    /\ Goes(i, [transfers[i] EXCEPT !.pc = "stat"])
    /\ UNCHANGED <<disk, jobs>>

(* executeTransfer: the local copy                                         *)

StatSucceeds(i) ==
    /\ transfers[i].pc = "stat"
    /\ jobs[i].req.dir \/ disk[Source(i)] # Missing
    /\ LET total == TreeSize(jobs[i].req)
       IN  /\ Goes(i, [transfers[i] EXCEPT !.pc = "next", !.total = total])
           /\ IF jobs[i].req.dir THEN UNCHANGED jobs
                                 ELSE Update(i, 0, total, "in_progress")
    /\ UNCHANGED disk

\* A file that the walk does not list is passed by.
Skip(i) ==
    /\ transfers[i].pc = "next"
    /\ jobs[i].req.dir
    /\ transfers[i].walked < Len(Walk(i))
    /\ disk[Source(i)] = Missing
    /\ Goes(i, [transfers[i] EXCEPT !.walked = @ + 1])
    /\ UNCHANGED <<disk, jobs>>

Slip_OpenKeepsOld(i) ==
    /\ transfers[i].pc = "next"
    /\ transfers[i].walked < Len(Walk(i))
    /\ disk[Source(i)] # Missing
    /\ disk' = [disk EXCEPT ![Target(i)] = IF @ = Missing THEN <<>> ELSE @]
    /\ Goes(i, [transfers[i] EXCEPT !.pc = "read", !.copied = 0,
                                    !.size = Len(disk[Source(i)])])
    /\ UNCHANGED jobs

\* os.Create empties a target that is already there.
OpenFile(i) ==
    /\ transfers[i].pc = "next"
    /\ transfers[i].walked < Len(Walk(i))
    /\ disk[Source(i)] # Missing
    /\ disk' = [disk EXCEPT ![Target(i)] = <<>>]
    /\ Goes(i, [transfers[i] EXCEPT !.pc = "read", !.copied = 0,
                                    !.size = Len(disk[Source(i)])])
    /\ UNCHANGED jobs

ReadBlock(i) ==
    /\ transfers[i].pc = "read"
    /\ transfers[i].copied < Len(disk[Source(i)])
    /\ Goes(i, [transfers[i] EXCEPT !.pc = "write",
                                    !.buf = disk[Source(i)][transfers[i].copied + 1]])
    /\ UNCHANGED <<disk, jobs>>

\* A write at offset k of a file that another goroutine may have emptied.
Written(content, k, block) ==
    [j \in 1..(IF k > Len(content) THEN k ELSE Len(content)) |->
        CASE j = k                       -> block
          [] j # k /\ j <= Len(content)  -> content[j]
          [] OTHER                       -> Hole]

Slip_OnlyThisFile(i) == transfers[i].copied + 1

Slip_SizeAddedFirst(i) == transfers[i].before + transfers[i].size + transfers[i].copied + 1

\* What progressCallback is told after a write: for a directory, with the
\* sizes of the files before this one.
Reported(i) == transfers[i].before + transfers[i].copied + 1

WriteBlock(i) ==
    /\ transfers[i].pc = "write"
    /\ disk' = [disk EXCEPT ![Target(i)] =
                  Written(@, transfers[i].copied + 1, transfers[i].buf)]
    /\ Update(i, Reported(i), transfers[i].total, "in_progress")
    /\ Goes(i, [transfers[i] EXCEPT !.pc = "read", !.copied = @ + 1, !.buf = Missing])

EndOfFile(i) ==
    /\ transfers[i].pc = "read"
    /\ transfers[i].copied >= Len(disk[Source(i)])
    /\ Goes(i, [transfers[i] EXCEPT !.pc = "next", !.walked = @ + 1, !.copied = 0,
                                    !.before = @ + transfers[i].size, !.size = 0])
    /\ UNCHANGED <<disk, jobs>>

\* A directory reports 100 of 100 bytes whatever its size.
Finish(i) ==
    /\ transfers[i].pc = "next"
    /\ transfers[i].walked = Len(Walk(i))
    /\ IF jobs[i].req.dir THEN Update(i, 100, 100, "completed")
       ELSE Update(i, transfers[i].total, transfers[i].total, "completed")
    /\ Goes(i, [transfers[i] EXCEPT !.pc = "over"])
    /\ UNCHANGED disk

Slip_FailKeepsBytes(i) ==
    /\ transfers[i].pc \in {"stat", "next", "read", "write"}
    /\ Update(i, jobs[i].bytes, jobs[i].total, "failed")
    /\ Goes(i, [transfers[i] EXCEPT !.pc = "over"])
    /\ UNCHANGED disk

\* os.Stat fails on a path that is not there, and any file operation may
\* fail.  What was written stays.
Fail(i) ==
    /\ transfers[i].pc \in {"stat", "next", "read", "write"}
    /\ transfers[i].pc = "next" => transfers[i].walked < Len(Walk(i))
    /\ LET known == transfers[i].pc # "stat" /\ ~jobs[i].req.dir
       IN  Update(i, 0, IF known THEN transfers[i].total ELSE 0, "failed")
    /\ Goes(i, [transfers[i] EXCEPT !.pc = "over"])
    /\ UNCHANGED disk

GetProgress(i) ==
    IF i \in DOMAIN jobs THEN jobs[i]
    ELSE [status |-> "not_found", bytes |-> 0, total |-> 0, percentage |-> 0]

Step(i) ==
    \/ NewFsFails(i) \/ NewFsSucceeds(i) \/ CopyFileSucceeds(i) \/ CopyFileFails(i)
    \/ StatSucceeds(i) \/ Skip(i) \/ OpenFile(i) \/ ReadBlock(i) \/ WriteBlock(i)
    \/ EndOfFile(i) \/ Finish(i) \/ Fail(i)

BridgeNext ==
    \/ \E req \in Requests : Transfer(req)
    \/ \E i \in DOMAIN jobs : Step(i)

BridgeSpec == BridgeInit /\ [][BridgeNext]_bridgeVars
-----------------------------------------------------------------------------
(* Properties                                                              *)

\* Types, and that a goroutine has returned exactly when its job is settled.
BridgeTypeOK ==
    /\ disk \in [Files -> Content \cup {Missing}]
    /\ jobs \in Seq(Progress)
    /\ transfers \in Seq(Goroutine)
    /\ Len(transfers) = Len(jobs)
    /\ \A i \in DOMAIN jobs :
          /\ jobs[i].status = "in_progress" <=> transfers[i].pc # "over"
          /\ transfers[i].walked <= Len(Walk(i))
          /\ transfers[i].pc \in {"read", "write"} => transfers[i].walked < Len(Walk(i))

Pairs(req)   == Range(req.pairs) \cup Range(req.own)
Sources(req) == {pair[1] : pair \in Pairs(req)}
Targets(req) == {pair[2] : pair \in Pairs(req)}
Touched(req) == Targets(req) \cup Sources(req)

\* The request copies its files to places of their own: nothing in the code
\* stops a caller from copying a directory into itself.
Apart(req) ==
    /\ Targets(req) \cap Sources(req) = {}
    /\ \A k, l \in 1..Len(req.pairs) : k # l => req.pairs[k][2] # req.pairs[l][2]

\* Whether job j writes a file that job i reads or writes.
Disturbs(j, i) == Targets(jobs[j].req) \cap Touched(jobs[i].req) # {}
\* Nobody else writes a file of job i, and it does not write its own sources.
Undisturbed(i) == /\ Apart(jobs[i].req)
                  /\ \A j \in DOMAIN jobs \ {i} : ~Disturbs(j, i)

Same(pair) == disk[pair[2]] = disk[pair[1]]
InPlace(i) == \A k \in 1..Len(Walk(i)) :
                 disk[Walk(i)[k][1]] # Missing => Same(Walk(i)[k])

\* While no other job writes its files, a job has an exact copy of every file
\* it has walked over and an exact prefix of the one it is at; when it says
\* "completed" every file is in place.  (Not so a directory with a file of its
\* own name: rclone copies that one and the job is over.)
CopiesExactly ==
    \A i \in DOMAIN jobs : Undisturbed(i) /\ jobs[i].req.own = <<>> =>
        /\ \A k \in 1..transfers[i].walked :
              disk[Walk(i)[k][1]] # Missing => Same(Walk(i)[k])
        /\ transfers[i].pc \in {"read", "write"} =>
              disk[Target(i)] = SubSeq(disk[Source(i)], 1, transfers[i].copied)
        /\ jobs[i].status = "completed" => InPlace(i)

\* Two tasks on the same directories ask for the same copy twice, and the two
\* goroutines empty and fill one target at the same time.  Once all of them
\* have completed, the target is the source all the same.
RepeatedCopiesAgree ==
    \A i \in DOMAIN jobs :
        /\ jobs[i].req.own = <<>> /\ Apart(jobs[i].req)
        /\ \A j \in DOMAIN jobs : j = i \/ Disturbs(j, i) =>
              jobs[j].req = jobs[i].req /\ jobs[j].status = "completed"
        => InPlace(i)

\* A client takes a percentage of 100 for the end, whatever the status (the
\* TUI does).  It may: every block is in place by then, if no other job
\* interfered.
FullMeansCopied ==
    \A i \in DOMAIN jobs :
        Undisturbed(i) /\ jobs[i].req.own = <<>> /\ GetProgress(i).percentage >= 100 =>
            \A k \in 1..Len(Walk(i)) :
                disk[Walk(i)[k][1]] \notin {Missing, <<>>} => Same(Walk(i)[k])

\* The percentage that GetProgress gives never falls, over rclone's attempt
\* and from file to file of a directory, unless the job fails.
PercentageRises ==
    [][\A i \in DOMAIN jobs :
          Undisturbed(i) /\ jobs'[i].status # "failed" =>
              jobs[i].percentage <= jobs'[i].percentage]_bridgeVars

\* The job table as the engine sees it: it asks for the bytes of a settled job
\* only, and the rest of the progress is hidden.
Table == INSTANCE JobTable WITH
    JobBytes <- 0..MaxBytes,
    jobs <- [i \in 1..Len(jobs) |->
               [req |-> jobs[i].req, status |-> jobs[i].status,
                bytes |-> IF jobs[i].status = "in_progress" THEN 0 ELSE jobs[i].bytes]]

\* The bridge is the JobTable that the sync engine relies on: a job settles
\* once, never changes again, and counts no bytes when it has failed.
ImplementsJobTable == Table!JobSpec
=============================================================================
