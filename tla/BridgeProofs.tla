---------------------------- MODULE BridgeProofs ----------------------------
(***************************************************************************)
(* Proofs about Bridge, for every number of jobs, requests, files and       *)
(* blocks.                                                                  *)
(*                                                                         *)
(* BInv, the inductive invariant, has one part per thing that could go      *)
(* wrong.  GoroutineOK: a goroutine's locals fit its place in the code.     *)
(* ReadingOK: the block in its buffer is still the source's.  CopyingOK:    *)
(* a job that nobody disturbs has counted the files it has passed, copied   *)
(* them and a prefix of the one it is at, and shown no more than that.      *)
(* RefilledOK: several jobs that make the same copy empty and fill one      *)
(* target at once; some one of them always vouches for what is in it.       *)
(***************************************************************************)
EXTENDS Bridge, SumTheorems

\* A goroutine inside copyDirWithProgress or copyFileWithProgress.
Copying == {"next", "read", "write"}

\* The locals of goroutine i fit the line it is at, and its job's status.
JobOK(i) ==
    /\ jobs[i].status = "in_progress" <=> transfers[i].pc # "over"
    /\ transfers[i].walked <= Len(Walk(i))
    /\ transfers[i].pc \in {"try", "rclone", "stat"} =>
          transfers[i].walked = 0 /\ transfers[i].before = 0
    /\ transfers[i].pc \notin {"read", "write", "over"} => transfers[i].copied = 0
    /\ transfers[i].pc \in {"read", "write"} =>
          /\ transfers[i].walked < Len(Walk(i))
          /\ disk[Source(i)] # Missing /\ disk[Target(i)] # Missing
    /\ transfers[i].pc = "write" => transfers[i].buf # Missing
    /\ jobs[i].status = "completed" /\ jobs[i].req.own = <<>> =>
          transfers[i].walked = Len(Walk(i))
GoroutineOK == \A i \in DOMAIN jobs : JobOK(i)

\* Whoever writes a file of req makes the same copy.
Quiet(req) ==
    /\ Apart(req)
    /\ \A j \in DOMAIN jobs : Targets(jobs[j].req) \cap Touched(req) # {} => jobs[j].req = req

\* The source of a quiet copy is as long as Stat said, and the block in the
\* buffer is the one at the offset.
Reading(i) ==
    transfers[i].pc \in {"read", "write"} =>
        /\ transfers[i].size = Len(disk[Source(i)])
        /\ transfers[i].copied <= transfers[i].size
        /\ transfers[i].pc = "write" =>
              /\ transfers[i].copied < transfers[i].size
              /\ transfers[i].buf = disk[Source(i)][transfers[i].copied + 1]
ReadingOK == \A i \in DOMAIN jobs : Quiet(jobs[i].req) => Reading(i)

\* The files that goroutine i has walked over, and a percentage.
Passed(i) == {k \in Present(jobs[i].req) : k <= transfers[i].walked}
Pct(b, t) == IF t > 0 THEN (100 * b) \div t ELSE 0

\* The local variables of the directory copy hold the sizes of all its files
\* and of those it has passed.
Counted(i) ==
    transfers[i].pc \in Copying =>
        /\ transfers[i].total = SumOver(Sizes(jobs[i].req), Present(jobs[i].req))
        /\ transfers[i].before = SumOver(Sizes(jobs[i].req), Passed(i))
\* What is behind is copied, and what it is at is copied up to the offset.
Copied(i) ==
    /\ \A k \in 1..transfers[i].walked : disk[Walk(i)[k][1]] # Missing => Same(Walk(i)[k])
    /\ transfers[i].pc \in {"read", "write"} =>
          disk[Target(i)] = SubSeq(disk[Source(i)], 1, transfers[i].copied)
\* Every block of the copy is in place; and no percentage says more than that.
Full(i) == \A k \in 1..Len(Walk(i)) :
              disk[Walk(i)[k][1]] \notin {Missing, <<>>} => Same(Walk(i)[k])
Shown(i) ==
    /\ transfers[i].pc \in {"try", "rclone", "stat"} => jobs[i].percentage = 0
    /\ transfers[i].pc \in Copying =>
          jobs[i].percentage <= Pct(transfers[i].before + transfers[i].copied, transfers[i].total)
    /\ transfers[i].pc = "over" /\ jobs[i].req.own = <<>> /\ jobs[i].percentage >= 100 => Full(i)
CopyingOK == \A i \in DOMAIN jobs : Undisturbed(i) => Counted(i) /\ Copied(i) /\ Shown(i)

\* Goroutine j copies the k-th file of its walk; it has opened it; the jobs
\* for one request.
At(j, k) == transfers[j].walked = k - 1 /\ transfers[j].pc \in {"read", "write"}
Opened(j, k) == transfers[j].walked >= k \/ At(j, k)
Group(req) == {j \in DOMAIN jobs : jobs[j].req = req}
\* What job j vouches for, of a target t of the source s: once it has failed
\* nothing, while it copies the blocks up to its offset, and then all of it.
Holds(j, k, s, t) ==
    \/ jobs[j].status = "failed"
    \/ /\ At(j, k) /\ transfers[j].copied <= Len(t)
       /\ \A p \in 1..transfers[j].copied : t[p] = s[p]
    \/ transfers[j].walked >= k /\ t = s
\* The job that truncated t last, or one behind it, vouches for t.
Refilled(s, t, k, req) ==
    /\ t # Missing /\ Len(t) <= Len(s)
    /\ \E j \in Group(req) : Holds(j, k, s, t)
RefilledOK ==
    \A req \in Requests : Quiet(req) /\ req.own = <<>> =>
        \A k \in Present(req) : (\E j \in Group(req) : Opened(j, k)) =>
            Refilled(disk[req.pairs[k][1]], disk[req.pairs[k][2]], k, req)
BInv == BridgeTypeOK /\ GoroutineOK /\ ReadingOK /\ CopyingOK /\ RefilledOK
-----------------------------------------------------------------------------
(* Facts about percentages                                                  *)

LEMMA DivType ==
    ASSUME NEW a \in Nat, NEW t \in Nat, t > 0
    PROVE  a \div t \in Nat
  OBVIOUS

LEMMA DivMono ==
    ASSUME NEW a \in Nat, NEW b \in Nat, NEW t \in Nat, t > 0, a <= b
    PROVE  a \div t <= b \div t
  OBVIOUS

LEMMA DivFull ==
    ASSUME NEW b \in Nat, NEW t \in Nat, t > 0
    PROVE  /\ (100 * t) \div t = 100
           /\ b <= t => (100 * b) \div t <= 100
           /\ (100 * b) \div t >= 100 => b >= t
  OBVIOUS

-----------------------------------------------------------------------------
(* What the steps of a goroutine change                                     *)

Statuses == {"in_progress", "completed", "failed"}

\* updateProgress.
NewPct(old, b, t, st) ==
    IF t > 0 THEN (100 * b) \div t ELSE IF st = "completed" THEN 100 ELSE old

Updated(old, new, b, t, st) ==
    /\ new.req = old.req /\ new.status = st /\ new.bytes = b /\ new.total = t
    /\ new.percentage = NewPct(old.percentage, b, t, st)

\* What a step of goroutine i may change: its own job, its own locals, and of
\* the files only the targets of its request.
JobsStep(i) ==
    /\ jobs' \in Seq(Progress) /\ Len(jobs') = Len(jobs)
    /\ jobs'[i].req = jobs[i].req
    /\ \A j \in DOMAIN jobs \ {i} : jobs'[j] = jobs[j]
TransfersStep(i) ==
    /\ transfers' \in Seq(Goroutine) /\ Len(transfers') = Len(jobs)
    /\ \A j \in DOMAIN jobs \ {i} : transfers'[j] = transfers[j]
DiskStep(req) ==
    /\ disk' \in [Files -> Content \cup {Missing}]
    /\ \A f \in Files : disk[f] # Missing => disk'[f] # Missing
    /\ \A f \in Files : f \notin Targets(req) => disk'[f] = disk[f]
Frame(i) == JobsStep(i) /\ TransfersStep(i) /\ DiskStep(jobs[i].req)

LEMMA GoesEffect ==
    ASSUME BridgeTypeOK, NEW i \in DOMAIN jobs, NEW g \in Goroutine, Goes(i, g)
    PROVE  TransfersStep(i) /\ transfers'[i] = g
<1>1. /\ jobs \in Seq(Progress) /\ transfers \in Seq(Goroutine)
      /\ Len(transfers) = Len(jobs)
  BY DEF BridgeTypeOK
<1> QED
  BY <1>1 DEF Goes, TransfersStep

LEMMA UpdateFields ==
    ASSUME NEW job \in Progress, NEW b \in Nat, NEW t \in Nat,
           NEW st \in Statuses,
           NEW new, new = UpdateProgress(job, b, t, st)
    PROVE  new \in Progress /\ Updated(job, new, b, t, st)
<1> DEFINE p == NewPct(job.percentage, b, t, st)
           q == (100 * b) \div t
<1>1. t > 0 => q \in Nat
  BY DivType
<1>2. p \in Nat
  BY <1>1 DEF NewPct, Progress
<1>3. (CASE t > 0 -> q
         [] t = 0 /\ st = "completed" -> 100
         [] OTHER -> job.percentage) = p
  <2> HIDE DEF q
  <2>1. p = IF t > 0 THEN q ELSE IF st = "completed" THEN 100 ELSE job.percentage
    BY Zenon DEF NewPct, q
  <2> HIDE DEF p
  <2>2. CASE t > 0
    BY <2>1, <2>2
  <2>3. CASE t = 0
    BY <2>1, <2>3
  <2> QED
    BY <2>2, <2>3
<1>4. new = [job EXCEPT !.bytes = b, !.total = t, !.status = st, !.percentage = p]
  BY <1>3, Zenon DEF UpdateProgress
<1> HIDE DEF p
<1>5. /\ new \in Progress
      /\ new.req = job.req /\ new.status = st /\ new.bytes = b /\ new.total = t
      /\ new.percentage = p
  BY <1>2, <1>4 DEF Progress, Statuses
<1> QED
  BY <1>5 DEF p, Updated

LEMMA UpdateEffect ==
    ASSUME BridgeTypeOK, NEW i \in DOMAIN jobs, NEW b \in Nat, NEW t \in Nat,
           NEW st \in Statuses, Update(i, b, t, st)
    PROVE  JobsStep(i) /\ Updated(jobs[i], jobs'[i], b, t, st)
<1>1. jobs \in Seq(Progress) /\ jobs[i] \in Progress
  BY DEF BridgeTypeOK
<1>0. PICK new : new = UpdateProgress(jobs[i], b, t, st)
  OBVIOUS
<1>2. jobs' = [jobs EXCEPT ![i] = new]
  BY <1>0 DEF Update
<1>3. new \in Progress /\ Updated(jobs[i], new, b, t, st)
  BY <1>0, <1>1, UpdateFields
<1>4. /\ jobs' \in Seq(Progress)
      /\ Len(jobs') = Len(jobs)
      /\ jobs'[i] = new
      /\ \A j \in DOMAIN jobs \ {i} : jobs'[j] = jobs[j]
  BY <1>1, <1>2, <1>3
<1> QED
  BY <1>3, <1>4 DEF JobsStep, Updated

LEMMA JobTypes ==
    ASSUME BridgeTypeOK, NEW i \in DOMAIN jobs
    PROVE  /\ DOMAIN jobs = 1..Len(jobs) /\ DOMAIN transfers = DOMAIN jobs
           /\ jobs[i] \in Progress /\ transfers[i] \in Goroutine
           /\ jobs[i].req \in Requests /\ jobs[i].req \in Request
           /\ Walk(i) \in Seq(Files \X Files)
           /\ transfers[i].walked < Len(Walk(i)) =>
                 /\ transfers[i].walked + 1 \in 1..Len(Walk(i))
                 /\ Source(i) \in Files /\ Target(i) \in Files
                 /\ Source(i) \in Sources(jobs[i].req) /\ Target(i) \in Targets(jobs[i].req)
<1>1. /\ DOMAIN jobs = 1..Len(jobs) /\ DOMAIN transfers = DOMAIN jobs
      /\ jobs[i] \in Progress /\ transfers[i] \in Goroutine
  BY DEF BridgeTypeOK
<1>2. jobs[i].req \in Requests /\ jobs[i].req \in Request /\ transfers[i].walked \in Nat
  BY <1>1, RequestsAssumption DEF Progress, Goroutine
<1>3. Walk(i) \in Seq(Files \X Files)
  BY <1>2 DEF Request, Walk
<1>4. ASSUME transfers[i].walked < Len(Walk(i))
      PROVE  /\ transfers[i].walked + 1 \in 1..Len(Walk(i))
             /\ Source(i) \in Files /\ Target(i) \in Files
             /\ Source(i) \in Sources(jobs[i].req) /\ Target(i) \in Targets(jobs[i].req)
  <2>1. transfers[i].walked + 1 \in 1..Len(Walk(i))
    BY <1>2, <1>3, <1>4
  <2>2. Walk(i)[transfers[i].walked + 1] \in Files \X Files
    BY <1>3, <2>1
  <2>3. Walk(i)[transfers[i].walked + 1] \in Pairs(jobs[i].req)
    BY <1>3, <2>1 DEF Pairs, Walk, Range
  <2> QED
    BY <2>1, <2>2, <2>3 DEF Source, Target, Sources, Targets
<1> QED
  BY <1>1, <1>2, <1>3, <1>4

LEMMA SizesType ==
    ASSUME NEW req \in Request, disk \in [Files -> Content \cup {Missing}]
    PROVE  /\ IsFiniteSet(Present(req))
           /\ \A k \in Present(req) : /\ req.pairs[k][1] \in Files
                                      /\ disk[req.pairs[k][1]] \in Content
                                      /\ Sizes(req)[k] = Len(disk[req.pairs[k][1]])
                                      /\ Sizes(req)[k] \in Nat
           /\ TreeSize(req) = SumOver(Sizes(req), Present(req))
           /\ TreeSize(req) \in Nat
<1>1. req.pairs \in Seq(Files \X Files)
  BY DEF Request
<1>2. IsFiniteSet(Present(req))
  <2>1. IsFiniteSet(1..Len(req.pairs))
    BY <1>1, FS_Interval
  <2> QED
    BY <2>1, FS_Subset DEF Present
<1>3. ASSUME NEW k \in Present(req)
      PROVE  /\ req.pairs[k][1] \in Files
             /\ disk[req.pairs[k][1]] \in Content
             /\ Sizes(req)[k] = Len(disk[req.pairs[k][1]])
             /\ Sizes(req)[k] \in Nat
  <2>1. req.pairs[k] \in Files \X Files /\ disk[req.pairs[k][1]] # Missing
    BY <1>1 DEF Present
  <2>2. req.pairs[k][1] \in Files
    BY <2>1
  <2>3. disk[req.pairs[k][1]] \in Content
    BY <2>1, <2>2
  <2> QED
    BY <2>2, <2>3 DEF Sizes, Content
<1>4. TreeSize(req) = SumOver(Sizes(req), Present(req))
  BY SumIsSumOver DEF TreeSize
<1>5. TreeSize(req) \in Nat
  BY <1>2, <1>3, <1>4, SumType
<1> QED
  BY <1>2, <1>3, <1>4, <1>5

LEMMA WrittenType ==
    ASSUME NEW content \in Content, NEW k \in Nat, NEW block \in Blocks \cup {Hole}
    PROVE  Written(content, k, block) \in Content
<1> DEFINE n == IF k > Len(content) THEN k ELSE Len(content)
<1>1. n \in Nat
  BY DEF Content
<1>2. \A j \in 1..n : Written(content, k, block)[j] \in Blocks \cup {Hole}
  BY DEF Written, Content
<1>3. \E w : w = Written(content, k, block) /\ w = [j \in 1..n |-> w[j]]
  BY DEF Written
<1>4. PICK w : w = Written(content, k, block) /\ w = [j \in 1..n |-> w[j]]
  BY <1>3
<1> HIDE DEF n
<1>5. \A j \in 1..n : w[j] \in Blocks \cup {Hole}
  BY <1>2, <1>4
<1>6. w \in Seq(Blocks \cup {Hole})
  BY <1>1, <1>4, <1>5
<1> QED
  BY <1>4, <1>6 DEF Content

LEMMA DiskUnchanged ==
    ASSUME BridgeTypeOK, NEW req, UNCHANGED disk
    PROVE  DiskStep(req)
  BY DEF DiskStep, BridgeTypeOK

LEMMA DiskWritten ==
    ASSUME BridgeTypeOK, NEW req, NEW f \in Files, f \in Targets(req), NEW c \in Content,
           disk' = [disk EXCEPT ![f] = c]
    PROVE  DiskStep(req)
  BY DisksAssumption DEF DiskStep, BridgeTypeOK

LEMMA JobsUnchanged ==
    ASSUME BridgeTypeOK, NEW i \in DOMAIN jobs, UNCHANGED jobs
    PROVE  JobsStep(i)
  BY DEF JobsStep, BridgeTypeOK

LEMMA StepFrame ==
    ASSUME BridgeTypeOK, GoroutineOK, NEW i \in DOMAIN jobs, Step(i)
    PROVE  Frame(i)
<1> DEFINE r == jobs[i].req
           t == transfers[i]
<1>1. /\ t \in Goroutine /\ r \in Request /\ jobs[i] \in Progress
      /\ disk \in [Files -> Content \cup {Missing}]
      /\ TreeSize(r) \in Nat
  BY JobTypes, SizesType DEF BridgeTypeOK
<1>2. CASE NewFsFails(i)
  <2>1. [t EXCEPT !.pc = "stat"] \in Goroutine
    BY <1>1 DEF Goroutine
  <2> QED
    BY <1>2, <2>1, GoesEffect, DiskUnchanged, JobsUnchanged DEF NewFsFails, Frame
<1>3. CASE NewFsSucceeds(i)
  <2>1. [t EXCEPT !.pc = "rclone", !.total = TreeSize(r)] \in Goroutine
    BY <1>1 DEF Goroutine
  <2>2. TransfersStep(i)
    BY <1>3, <2>1, GoesEffect DEF NewFsSucceeds
  <2>3. JobsStep(i)
    BY <1>1, <1>3, UpdateEffect DEF NewFsSucceeds, Statuses
  <2> QED
    BY <1>3, <2>2, <2>3, DiskUnchanged DEF NewFsSucceeds, Frame
<1>4. CASE CopyFileSucceeds(i)
  <2>1. [t EXCEPT !.pc = "over"] \in Goroutine /\ t.total \in Nat
    BY <1>1 DEF Goroutine
  <2>2. TransfersStep(i)
    BY <1>4, <2>1, GoesEffect DEF CopyFileSucceeds
  <2>3. JobsStep(i)
    BY <1>4, <2>1, UpdateEffect DEF CopyFileSucceeds, Statuses
  <2>4. PICK pair \in Range(r.own) : /\ disk[pair[1]] # Missing
                                     /\ disk' = [disk EXCEPT ![pair[2]] = disk[pair[1]]]
    BY <1>4 DEF CopyFileSucceeds
  <2>5. pair \in Files \X Files
    BY <1>1, <2>4 DEF Request, Range
  <2>6. /\ pair[2] \in Files /\ pair[1] \in Files
        /\ pair[2] \in Targets(r) /\ disk[pair[1]] \in Content
    BY <1>1, <2>4, <2>5 DEF Targets, Pairs
  <2>7. DiskStep(r)
    BY <2>4, <2>6, DiskWritten
  <2> QED
    BY <2>2, <2>3, <2>7 DEF Frame
<1>5. CASE CopyFileFails(i)
  <2>1. [t EXCEPT !.pc = "stat"] \in Goroutine
    BY <1>1 DEF Goroutine
  <2> QED
    BY <1>5, <2>1, GoesEffect, DiskUnchanged, JobsUnchanged DEF CopyFileFails, Frame
<1>6. CASE StatSucceeds(i)
  <2>1. [t EXCEPT !.pc = "next", !.total = TreeSize(r)] \in Goroutine
    BY <1>1 DEF Goroutine
  <2>2. TransfersStep(i)
    BY <1>6, <2>1, GoesEffect DEF StatSucceeds
  <2>3. JobsStep(i)
    BY <1>1, <1>6, UpdateEffect, JobsUnchanged DEF StatSucceeds, Statuses
  <2> QED
    BY <1>6, <2>2, <2>3, DiskUnchanged DEF StatSucceeds, Frame
<1>7. CASE Skip(i)
  <2>1. [t EXCEPT !.walked = @ + 1] \in Goroutine
    BY <1>1 DEF Goroutine
  <2> QED
    BY <1>7, <2>1, GoesEffect, DiskUnchanged, JobsUnchanged DEF Skip, Frame
<1>8. CASE OpenFile(i)
  <2>1. /\ Source(i) \in Files /\ Target(i) \in Files /\ Target(i) \in Targets(r)
        /\ disk[Source(i)] \in Content
    BY <1>1, <1>8, JobTypes DEF OpenFile
  <2>2. <<>> \in Content /\ Len(disk[Source(i)]) \in Nat
    BY <2>1 DEF Content
  <2>3. DiskStep(r)
    BY <1>8, <2>1, <2>2, DiskWritten DEF OpenFile
  <2>4. [t EXCEPT !.pc = "read", !.copied = 0, !.size = Len(disk[Source(i)])] \in Goroutine
    BY <1>1, <2>2 DEF Goroutine
  <2> QED
    BY <1>8, <2>3, <2>4, GoesEffect, JobsUnchanged DEF OpenFile, Frame
<1>9. CASE ReadBlock(i)
  <2>1. t.walked < Len(Walk(i)) /\ disk[Source(i)] # Missing
    BY <1>9 DEF ReadBlock, BridgeTypeOK, GoroutineOK, JobOK
  <2>2. disk[Source(i)] \in Content /\ t.copied \in Nat
    BY <1>1, <2>1, JobTypes DEF Goroutine
  <2>3. disk[Source(i)][t.copied + 1] \in Blocks \cup {Hole}
    BY <1>9, <2>2 DEF ReadBlock, Content
  <2>4. [t EXCEPT !.pc = "write", !.buf = disk[Source(i)][t.copied + 1]] \in Goroutine
    BY <1>1, <2>3 DEF Goroutine
  <2> QED
    BY <1>9, <2>4, GoesEffect, DiskUnchanged, JobsUnchanged DEF ReadBlock, Frame
<1>10. CASE WriteBlock(i)
  <2>1. /\ t.walked < Len(Walk(i)) /\ disk[Target(i)] # Missing /\ t.buf # Missing
        /\ t.copied \in Nat /\ t.total \in Nat /\ t.before \in Nat
        /\ t.buf \in Blocks \cup {Hole, Missing}
    BY <1>1, <1>10 DEF WriteBlock, BridgeTypeOK, GoroutineOK, JobOK, Goroutine
  <2>2. Target(i) \in Files /\ Target(i) \in Targets(r) /\ disk[Target(i)] \in Content
    BY <1>1, <2>1, JobTypes
  <2>3. Written(disk[Target(i)], t.copied + 1, t.buf) \in Content
    <3>1. t.copied + 1 \in Nat /\ t.buf \in Blocks \cup {Hole}
      BY <2>1
    <3> HIDE DEF t
    <3> QED
      BY <2>2, <3>1, WrittenType, Zenon
  <2>4. DiskStep(r)
    BY <1>10, <2>2, <2>3, DiskWritten DEF WriteBlock
  <2>5. [t EXCEPT !.pc = "read", !.copied = @ + 1, !.buf = Missing] \in Goroutine
    <3>1. t.copied + 1 \in Nat
      BY <2>1
    <3> HIDE DEF t
    <3> QED
      BY <1>1, <3>1 DEF Goroutine
  <2>6. TransfersStep(i)
    BY <1>10, <2>5, GoesEffect DEF WriteBlock
  <2>7. Reported(i) \in Nat
    BY <2>1 DEF Reported
  <2>8. JobsStep(i)
    BY <1>10, <2>1, <2>7, UpdateEffect DEF WriteBlock, Statuses
  <2> QED
    BY <2>4, <2>6, <2>8 DEF Frame
<1>11. CASE EndOfFile(i)
  <2>1. [t EXCEPT !.pc = "next", !.walked = @ + 1, !.copied = 0,
                  !.before = @ + t.size, !.size = 0] \in Goroutine
    <3>1. t.walked + 1 \in Nat /\ t.before + t.size \in Nat
      BY <1>1 DEF Goroutine
    <3> HIDE DEF t
    <3> QED
      BY <1>1, <3>1 DEF Goroutine
  <2> QED
    BY <1>11, <2>1, GoesEffect, DiskUnchanged, JobsUnchanged DEF EndOfFile, Frame
<1>12. CASE Finish(i)
  <2>1. [t EXCEPT !.pc = "over"] \in Goroutine /\ t.total \in Nat
    BY <1>1 DEF Goroutine
  <2>2. TransfersStep(i)
    BY <1>12, <2>1, GoesEffect DEF Finish
  <2>3. JobsStep(i)
    BY <1>12, <2>1, UpdateEffect DEF Finish, Statuses
  <2> QED
    BY <1>12, <2>2, <2>3, DiskUnchanged DEF Finish, Frame
<1>13. CASE Fail(i)
  <2>1. [t EXCEPT !.pc = "over"] \in Goroutine /\ t.total \in Nat
    BY <1>1 DEF Goroutine
  <2>2. TransfersStep(i)
    BY <1>13, <2>1, GoesEffect DEF Fail
  <2>3. JobsStep(i)
    BY <1>13, <2>1, UpdateEffect DEF Fail, Statuses
  <2> QED
    BY <1>13, <2>2, <2>3, DiskUnchanged DEF Fail, Frame
<1> QED
  BY <1>2, <1>3, <1>4, <1>5, <1>6, <1>7, <1>8, <1>9, <1>10, <1>11, <1>12, <1>13 DEF Step

LEMMA Numbers ==
    ASSUME BridgeTypeOK, NEW i \in DOMAIN jobs
    PROVE  /\ transfers[i].walked \in Nat /\ transfers[i].copied \in Nat
           /\ transfers[i].before \in Nat /\ transfers[i].size \in Nat
           /\ transfers[i].total \in Nat /\ Reported(i) \in Nat
           /\ TreeSize(jobs[i].req) \in Nat /\ jobs[i].percentage \in Nat
<1>1. jobs[i].req \in Request /\ transfers[i] \in Goroutine /\ jobs[i] \in Progress
  BY JobTypes
<1>2. TreeSize(jobs[i].req) \in Nat
  BY <1>1, SizesType DEF BridgeTypeOK
<1>3. /\ transfers[i].walked \in Nat /\ transfers[i].copied \in Nat
      /\ transfers[i].before \in Nat /\ transfers[i].size \in Nat
      /\ transfers[i].total \in Nat /\ jobs[i].percentage \in Nat
  BY <1>1 DEF Goroutine, Progress
<1> QED
  BY <1>2, <1>3 DEF Reported

LEMMA GoesAt ==
    ASSUME BridgeTypeOK, NEW i \in DOMAIN jobs, NEW g, Goes(i, g)
    PROVE  transfers'[i] = g
<1>1. i \in DOMAIN transfers
  BY JobTypes
<1> QED
  BY <1>1 DEF Goes

LEMMA NewFsFailsEffect ==
    ASSUME BridgeTypeOK, NEW i \in DOMAIN jobs, NewFsFails(i)
    PROVE  /\ transfers'[i] = [transfers[i] EXCEPT !.pc = "stat"]
           /\ jobs'[i] = jobs[i]
  BY GoesAt DEF NewFsFails

LEMMA NewFsSucceedsEffect ==
    ASSUME BridgeTypeOK, NEW i \in DOMAIN jobs, NewFsSucceeds(i)
    PROVE  /\ transfers'[i] = [transfers[i] EXCEPT !.pc = "rclone", !.total = TreeSize(jobs[i].req)]
           /\ Updated(jobs[i], jobs'[i], 0, TreeSize(jobs[i].req), "in_progress")
  BY Numbers, GoesAt, UpdateEffect DEF NewFsSucceeds, Statuses

LEMMA CopyFileSucceedsEffect ==
    ASSUME BridgeTypeOK, NEW i \in DOMAIN jobs, CopyFileSucceeds(i)
    PROVE  /\ transfers'[i] = [transfers[i] EXCEPT !.pc = "over"]
           /\ Updated(jobs[i], jobs'[i], transfers[i].total, transfers[i].total, "completed")
  BY Numbers, GoesAt, UpdateEffect DEF CopyFileSucceeds, Statuses

LEMMA CopyFileFailsEffect ==
    ASSUME BridgeTypeOK, NEW i \in DOMAIN jobs, CopyFileFails(i)
    PROVE  /\ transfers'[i] = [transfers[i] EXCEPT !.pc = "stat"]
           /\ jobs'[i] = jobs[i]
  BY GoesAt DEF CopyFileFails

LEMMA StatSucceedsEffect ==
    ASSUME BridgeTypeOK, NEW i \in DOMAIN jobs, StatSucceeds(i)
    PROVE  /\ transfers'[i] = [transfers[i] EXCEPT !.pc = "next", !.total = TreeSize(jobs[i].req)]
           /\ \/ jobs[i].req.dir /\ jobs'[i] = jobs[i]
              \/ ~jobs[i].req.dir /\ Updated(jobs[i], jobs'[i], 0, TreeSize(jobs[i].req), "in_progress")
  BY Numbers, GoesAt, UpdateEffect DEF StatSucceeds, Statuses

LEMMA SkipEffect ==
    ASSUME BridgeTypeOK, NEW i \in DOMAIN jobs, Skip(i)
    PROVE  /\ transfers'[i] = [transfers[i] EXCEPT !.walked = @ + 1]
           /\ jobs'[i] = jobs[i]
  BY GoesAt DEF Skip

LEMMA OpenFileEffect ==
    ASSUME BridgeTypeOK, NEW i \in DOMAIN jobs, OpenFile(i)
    PROVE  /\ transfers'[i] = [transfers[i] EXCEPT !.pc = "read", !.copied = 0,
                                               !.size = Len(disk[Source(i)])]
           /\ jobs'[i] = jobs[i]
  BY GoesAt DEF OpenFile

LEMMA ReadBlockEffect ==
    ASSUME BridgeTypeOK, NEW i \in DOMAIN jobs, ReadBlock(i)
    PROVE  /\ transfers'[i] = [transfers[i] EXCEPT !.pc = "write",
                               !.buf = disk[Source(i)][transfers[i].copied + 1]]
           /\ jobs'[i] = jobs[i]
  BY GoesAt DEF ReadBlock

LEMMA WriteBlockEffect ==
    ASSUME BridgeTypeOK, NEW i \in DOMAIN jobs, WriteBlock(i)
    PROVE  /\ transfers'[i] = [transfers[i] EXCEPT !.pc = "read", !.copied = @ + 1, !.buf = Missing]
           /\ Updated(jobs[i], jobs'[i], Reported(i), transfers[i].total, "in_progress")
  BY Numbers, GoesAt, UpdateEffect DEF WriteBlock, Statuses

LEMMA EndOfFileEffect ==
    ASSUME BridgeTypeOK, NEW i \in DOMAIN jobs, EndOfFile(i)
    PROVE  /\ transfers'[i] = [transfers[i] EXCEPT !.pc = "next", !.walked = @ + 1, !.copied = 0,
                               !.before = @ + transfers[i].size, !.size = 0]
           /\ jobs'[i] = jobs[i]
  BY GoesAt DEF EndOfFile

LEMMA FinishEffect ==
    ASSUME BridgeTypeOK, NEW i \in DOMAIN jobs, Finish(i)
    PROVE  /\ transfers'[i] = [transfers[i] EXCEPT !.pc = "over"]
           /\ \E n \in {100, transfers[i].total} : Updated(jobs[i], jobs'[i], n, n, "completed")
  BY Numbers, GoesAt, UpdateEffect DEF Finish, Statuses

LEMMA FailEffect ==
    ASSUME BridgeTypeOK, NEW i \in DOMAIN jobs, Fail(i)
    PROVE  /\ transfers'[i] = [transfers[i] EXCEPT !.pc = "over"]
           /\ \E n \in {0, transfers[i].total} : Updated(jobs[i], jobs'[i], 0, n, "failed")
  BY Numbers, GoesAt, UpdateEffect DEF Fail, Statuses

-----------------------------------------------------------------------------
(* Types                                                                    *)

LEMMA OtherJobOK ==
    ASSUME BridgeTypeOK, GoroutineOK, NEW i \in DOMAIN jobs, NEW j \in DOMAIN jobs,
           j # i, Frame(i)
    PROVE  JobOK(j)'
<1>1. jobs'[j] = jobs[j] /\ transfers'[j] = transfers[j]
  BY DEF Frame, JobsStep, TransfersStep
<1>2. Walk(j)' = Walk(j) /\ Source(j)' = Source(j) /\ Target(j)' = Target(j)
  BY <1>1 DEF Walk, Source, Target
<1>3. transfers[j].pc \in {"read", "write"} =>
        disk'[Source(j)] # Missing /\ disk'[Target(j)] # Missing
  <2>1. JobOK(j)
    BY DEF GoroutineOK
  <2>2. transfers[j].pc \in {"read", "write"} =>
          /\ Source(j) \in Files /\ Target(j) \in Files
          /\ disk[Source(j)] # Missing /\ disk[Target(j)] # Missing
    BY <2>1, JobTypes DEF JobOK
  <2> QED
    BY <2>2 DEF Frame, DiskStep
<1> QED
  BY <1>1, <1>2, <1>3 DEF GoroutineOK, JobOK

LEMMA OwnJobOK ==
    ASSUME BridgeTypeOK, GoroutineOK, NEW i \in DOMAIN jobs, Step(i)
    PROVE  JobOK(i)'
<1> DEFINE t == transfers[i]
<1>1. Frame(i) /\ JobOK(i) /\ t \in Goroutine /\ Walk(i) \in Seq(Files \X Files)
  BY StepFrame, JobTypes DEF GoroutineOK
<1>2. /\ jobs'[i].req = jobs[i].req /\ Walk(i)' = Walk(i)
      /\ transfers'[i].walked = t.walked => Source(i)' = Source(i) /\ Target(i)' = Target(i)
  BY <1>1 DEF Frame, JobsStep, Walk, Source, Target
<1>3. \A f \in Files : disk[f] # Missing => disk'[f] # Missing
  BY <1>1 DEF Frame, DiskStep
<1>4. /\ jobs[i].status \in Statuses
      /\ t.walked \in Nat /\ t.copied \in Nat /\ Len(Walk(i)) \in Nat
  BY <1>1, JobTypes DEF Progress, Statuses, Goroutine
<1>5. t.walked < Len(Walk(i)) => Source(i) \in Files /\ Target(i) \in Files
  BY JobTypes
<1>6. CASE NewFsFails(i)
  <2> QED
    BY <1>1, <1>2, <1>3, <1>4, <1>5, <1>6, NewFsFailsEffect
    DEF NewFsFails, JobOK, Goroutine, Updated, Statuses
<1>7. CASE NewFsSucceeds(i)
  <2>1. /\ transfers'[i].pc = "rclone" /\ transfers'[i].walked = t.walked
        /\ transfers'[i].copied = t.copied /\ transfers'[i].before = t.before
    BY <1>1, <1>7, NewFsSucceedsEffect DEF Goroutine
  <2> QED
    BY <1>1, <1>2, <1>3, <1>4, <1>5, <1>7, <2>1, NewFsSucceedsEffect
    DEF NewFsSucceeds, JobOK, Updated, Statuses
<1>8. CASE CopyFileSucceeds(i)
  <2>1. jobs[i].req.own # <<>>
    <3>1. Range(jobs[i].req.own) # {}
      BY <1>8 DEF CopyFileSucceeds
    <3> QED
      BY <3>1 DEF Range
  <2> QED
    BY <1>1, <1>2, <1>3, <1>4, <1>5, <1>8, <2>1, CopyFileSucceedsEffect
    DEF CopyFileSucceeds, JobOK, Goroutine, Updated, Statuses
<1>9. CASE CopyFileFails(i)
  <2> QED
    BY <1>1, <1>2, <1>3, <1>4, <1>5, <1>9, CopyFileFailsEffect
    DEF CopyFileFails, JobOK, Goroutine, Updated, Statuses
<1>10. CASE StatSucceeds(i)
  <2>1. /\ transfers'[i].pc = "next" /\ transfers'[i].walked = t.walked
        /\ transfers'[i].copied = t.copied
    BY <1>1, <1>10, StatSucceedsEffect DEF Goroutine
  <2> QED
    BY <1>1, <1>2, <1>3, <1>4, <1>5, <1>10, <2>1, StatSucceedsEffect
    DEF StatSucceeds, JobOK, Updated, Statuses
<1>11. CASE Skip(i)
  <2> QED
    BY <1>1, <1>2, <1>3, <1>4, <1>5, <1>11, SkipEffect
    DEF Skip, JobOK, Goroutine, Updated, Statuses
<1>12. CASE OpenFile(i)
  <2>1. disk'[Target(i)] = <<>> /\ <<>> # Missing
    <3>1. <<>> \in Content
      BY DEF Content
    <3>2. Target(i) \in DOMAIN disk
      BY <1>5, <1>12 DEF OpenFile, BridgeTypeOK
    <3> QED
      BY <1>12, <3>1, <3>2, DisksAssumption DEF OpenFile
  <2>2. /\ transfers'[i].pc = "read" /\ transfers'[i].walked = t.walked
        /\ jobs'[i] = jobs[i]
    BY <1>1, <1>12, OpenFileEffect DEF Goroutine
  <2> QED
    BY <1>1, <1>2, <1>3, <1>4, <1>5, <1>12, <2>1, <2>2, OpenFileEffect
    DEF OpenFile, JobOK, Updated, Statuses
<1>13. CASE ReadBlock(i)
  <2>1. disk[Source(i)][t.copied + 1] # Missing
    <3>1. disk[Source(i)] \in Content
      BY <1>1, <1>5, <1>13 DEF ReadBlock, JobOK, BridgeTypeOK
    <3>2. disk[Source(i)][t.copied + 1] \in Blocks \cup {Hole}
      BY <1>4, <1>13, <3>1 DEF ReadBlock, Content
    <3> QED
      BY <3>2, BlocksAssumption
  <2>2. /\ transfers'[i].pc = "write" /\ transfers'[i].walked = t.walked
        /\ transfers'[i].buf = disk[Source(i)][t.copied + 1] /\ jobs'[i] = jobs[i]
    BY <1>1, <1>13, ReadBlockEffect DEF Goroutine
  <2> QED
    BY <1>1, <1>2, <1>3, <1>4, <1>5, <1>13, <2>1, <2>2, ReadBlockEffect
    DEF ReadBlock, JobOK, Updated, Statuses
<1>14. CASE WriteBlock(i)
  <2>1. /\ transfers'[i].pc = "read" /\ transfers'[i].walked = t.walked
        /\ transfers'[i].copied = t.copied + 1 /\ transfers'[i].before = t.before
    BY <1>1, <1>14, WriteBlockEffect DEF Goroutine
  <2> QED
    BY <1>1, <1>2, <1>3, <1>4, <1>5, <1>14, <2>1, WriteBlockEffect
    DEF WriteBlock, JobOK, Updated, Statuses
<1>15. CASE EndOfFile(i)
  <2>1. /\ transfers'[i].pc = "next" /\ transfers'[i].walked = t.walked + 1
        /\ transfers'[i].copied = 0 /\ jobs'[i] = jobs[i]
    BY <1>1, <1>15, EndOfFileEffect DEF Goroutine
  <2> QED
    <3>1. /\ t.pc = "read" /\ jobs[i].status = "in_progress"
          /\ t.walked + 1 <= Len(Walk(i))
      BY <1>1, <1>4, <1>15 DEF EndOfFile, JobOK
    <3> QED
      BY <1>2, <2>1, <3>1 DEF JobOK
<1>16. CASE Finish(i)
  <2> QED
    BY <1>1, <1>2, <1>3, <1>4, <1>5, <1>16, FinishEffect
    DEF Finish, JobOK, Goroutine, Updated, Statuses
<1>17. CASE Fail(i)
  <2> QED
    BY <1>1, <1>2, <1>3, <1>4, <1>5, <1>17, FailEffect
    DEF Fail, JobOK, Goroutine, Updated, Statuses
<1> QED
  BY <1>6, <1>7, <1>8, <1>9, <1>10, <1>11, <1>12, <1>13, <1>14, <1>15, <1>16, <1>17 DEF Step

LEMMA TransferEffect ==
    ASSUME BridgeTypeOK, NEW req \in Requests, Transfer(req)
    PROVE  /\ jobs' \in Seq(Progress) /\ transfers' \in Seq(Goroutine)
           /\ Len(jobs') = Len(jobs) + 1 /\ Len(transfers') = Len(jobs) + 1
           /\ DOMAIN jobs' = DOMAIN jobs \cup {Len(jobs) + 1}
           /\ Len(jobs) + 1 \notin DOMAIN jobs
           /\ \A j \in DOMAIN jobs : jobs'[j] = jobs[j] /\ transfers'[j] = transfers[j]
           /\ transfers'[Len(jobs) + 1] = Fresh
           /\ jobs'[Len(jobs) + 1] = [req |-> req, status |-> "in_progress", bytes |-> 0,
                                      total |-> 0, percentage |-> 0]
           /\ disk' = disk
<1> DEFINE job == [req |-> req, status |-> "in_progress", bytes |-> 0,
                   total |-> 0, percentage |-> 0]
<1>1. job \in Progress /\ Fresh \in Goroutine
  BY DEF Progress, Fresh, Goroutine
<1>2. /\ jobs \in Seq(Progress) /\ transfers \in Seq(Goroutine)
      /\ Len(transfers) = Len(jobs)
  BY DEF BridgeTypeOK
<1>3. jobs' = Append(jobs, job) /\ transfers' = Append(transfers, Fresh) /\ disk' = disk
  BY DEF Transfer
<1> HIDE DEF job
<1>4. /\ jobs' \in Seq(Progress) /\ transfers' \in Seq(Goroutine)
      /\ Len(jobs') = Len(jobs) + 1 /\ Len(transfers') = Len(jobs) + 1
      /\ jobs'[Len(jobs) + 1] = job /\ transfers'[Len(jobs) + 1] = Fresh
      /\ \A j \in 1..Len(jobs) : jobs'[j] = jobs[j] /\ transfers'[j] = transfers[j]
  BY <1>1, <1>2, <1>3
<1>5. DOMAIN jobs = 1..Len(jobs) /\ DOMAIN jobs' = 1..(Len(jobs) + 1) /\ Len(jobs) \in Nat
  BY <1>2, <1>4
<1>6. DOMAIN jobs' = DOMAIN jobs \cup {Len(jobs) + 1} /\ Len(jobs) + 1 \notin DOMAIN jobs
  BY <1>5
<1> QED
  BY <1>3, <1>4, <1>5, <1>6 DEF job

LEMMA FrameDomain ==
    ASSUME BridgeTypeOK, NEW i \in DOMAIN jobs, Frame(i)
    PROVE  DOMAIN jobs' = DOMAIN jobs
  BY DEF BridgeTypeOK, Frame, JobsStep

LEMMA TypeFromParts ==
    ASSUME disk \in [Files -> Content \cup {Missing}],
           jobs \in Seq(Progress), transfers \in Seq(Goroutine),
           Len(transfers) = Len(jobs), GoroutineOK
    PROVE  BridgeTypeOK
  BY DEF BridgeTypeOK, GoroutineOK, JobOK

LEMMA TypesInit == BridgeInit => BridgeTypeOK /\ GoroutineOK
<1> SUFFICES ASSUME BridgeInit PROVE BridgeTypeOK /\ GoroutineOK
  OBVIOUS
<1>1. DOMAIN jobs = {} /\ jobs \in Seq(Progress) /\ transfers \in Seq(Goroutine)
      /\ Len(transfers) = Len(jobs)
  BY DEF BridgeInit
<1>2. GoroutineOK
  BY <1>1 DEF GoroutineOK
<1>3. disk \in [Files -> Content \cup {Missing}]
  BY DisksAssumption DEF BridgeInit
<1> QED
  BY <1>1, <1>2, <1>3, TypeFromParts

LEMMA TypesNext ==
    BridgeTypeOK /\ GoroutineOK /\ [BridgeNext]_bridgeVars => (BridgeTypeOK /\ GoroutineOK)'
<1> SUFFICES ASSUME BridgeTypeOK, GoroutineOK, [BridgeNext]_bridgeVars
             PROVE  BridgeTypeOK' /\ GoroutineOK'
  OBVIOUS
<1>1. ASSUME NEW i \in DOMAIN jobs, Step(i)
      PROVE  BridgeTypeOK' /\ GoroutineOK'
  <2>1. Frame(i) /\ DOMAIN jobs' = DOMAIN jobs
    BY <1>1, StepFrame, FrameDomain
  <2>2. GoroutineOK'
    BY <1>1, <2>1, OtherJobOK, OwnJobOK DEF GoroutineOK
  <2>3. BridgeTypeOK'
    BY <2>1, <2>2 DEF Frame, JobsStep, TransfersStep, DiskStep, BridgeTypeOK, GoroutineOK, JobOK
  <2> QED
    BY <2>2, <2>3
<1>2. ASSUME NEW req \in Requests, Transfer(req)
      PROVE  BridgeTypeOK' /\ GoroutineOK'
  <2>1. ASSUME NEW j \in DOMAIN jobs PROVE JobOK(j)'
    <3>1. jobs'[j] = jobs[j] /\ transfers'[j] = transfers[j] /\ disk' = disk
      BY <1>2, TransferEffect
    <3> QED
      BY <3>1 DEF GoroutineOK, JobOK, Walk, Source, Target
  <2>2. ASSUME NEW n, n = Len(jobs) + 1 PROVE JobOK(n)'
    <3>1. /\ transfers'[n] = Fresh
          /\ jobs'[n] = [req |-> req, status |-> "in_progress", bytes |-> 0,
                         total |-> 0, percentage |-> 0]
      BY <1>2, <2>2, TransferEffect
    <3>2. /\ jobs'[n].status = "in_progress" /\ jobs'[n].req = req
          /\ transfers'[n].pc = "try" /\ transfers'[n].walked = 0
          /\ transfers'[n].before = 0 /\ transfers'[n].copied = 0
      BY <3>1 DEF Fresh
    <3>3. Len(req.pairs) \in Nat
      BY RequestsAssumption DEF Request
    <3> QED
      BY <3>2, <3>3 DEF JobOK, Walk
  <2>3. GoroutineOK'
    <3>1. \A j \in DOMAIN jobs' : j \in DOMAIN jobs \/ j = Len(jobs) + 1
      <4>1. DOMAIN jobs' = DOMAIN jobs \cup {Len(jobs) + 1}
        BY <1>2, TransferEffect
      <4> QED
        BY <4>1
    <3> QED
      BY <2>1, <2>2, <3>1 DEF GoroutineOK
  <2>4. BridgeTypeOK'
    BY <1>2, <2>3, TransferEffect DEF BridgeTypeOK, GoroutineOK, JobOK
  <2> QED
    BY <2>3, <2>4
<1>3. CASE UNCHANGED bridgeVars
  BY <1>3 DEF bridgeVars, BridgeTypeOK, GoroutineOK, JobOK, Walk, Source, Target
<1> QED
  BY <1>1, <1>2, <1>3 DEF BridgeNext

-----------------------------------------------------------------------------
(* Whose files a step may change                                            *)

LEMMA FilesOf ==
    ASSUME NEW req \in Request, NEW k \in 1..Len(req.pairs)
    PROVE  /\ req.pairs[k][1] \in Files /\ req.pairs[k][2] \in Files
           /\ req.pairs[k][1] \in Sources(req) /\ req.pairs[k][2] \in Targets(req)
<1>1. req.pairs \in Seq(Files \X Files)
  BY DEF Request
<1>2. req.pairs[k] \in Files \X Files /\ req.pairs[k] \in Pairs(req)
  BY <1>1 DEF Pairs, Range
<1> QED
  BY <1>2 DEF Sources, Targets

LEMMA UndisturbedQuiet ==
    ASSUME NEW i \in DOMAIN jobs, Undisturbed(i)
    PROVE  Quiet(jobs[i].req)
  BY DEF Undisturbed, Disturbs, Quiet

LEMMA QuietSources ==
    ASSUME BridgeTypeOK, NEW req, Quiet(req), NEW i \in DOMAIN jobs, Frame(i)
    PROVE  \A f \in Files : f \in Sources(req) => disk'[f] = disk[f]
<1> SUFFICES ASSUME NEW f \in Files, f \in Sources(req), f \in Targets(jobs[i].req)
             PROVE  FALSE
  BY DEF Frame, DiskStep
<1>1. f \in Targets(jobs[i].req) \cap Touched(req)
  BY DEF Touched
<1>2. jobs[i].req = req
  BY <1>1 DEF Quiet
<1>3. f \in Targets(req) \cap Sources(req)
  BY <1>2
<1> QED
  BY <1>3 DEF Quiet, Apart

LEMMA UndisturbedFiles ==
    ASSUME BridgeTypeOK, NEW j \in DOMAIN jobs, Undisturbed(j),
           NEW i \in DOMAIN jobs, i # j, Frame(i)
    PROVE  \A f \in Files : f \in Touched(jobs[j].req) => disk'[f] = disk[f]
  BY DEF Undisturbed, Disturbs, Frame, DiskStep

LEMMA RequestsKept ==
    ASSUME BridgeTypeOK, NEW i \in DOMAIN jobs, Frame(i)
    PROVE  /\ DOMAIN jobs' = DOMAIN jobs
           /\ \A j \in DOMAIN jobs : jobs'[j].req = jobs[j].req
           /\ \A req : Quiet(req)' => Quiet(req)
           /\ \A j \in DOMAIN jobs : Undisturbed(j)' => Undisturbed(j)
<1>1. DOMAIN jobs' = DOMAIN jobs
  BY FrameDomain
<1>2. \A j \in DOMAIN jobs : jobs'[j].req = jobs[j].req
  BY DEF Frame, JobsStep
<1>3. \A req : Quiet(req)' => Quiet(req)
  BY <1>1, <1>2 DEF Quiet
<1>4. ASSUME NEW j \in DOMAIN jobs, Undisturbed(j)' PROVE Undisturbed(j)
  BY <1>1, <1>2, <1>4 DEF Undisturbed, Disturbs
<1> QED
  BY <1>1, <1>2, <1>3, <1>4

LEMMA RequestsGrow ==
    ASSUME BridgeTypeOK, NEW r \in Requests, Transfer(r)
    PROVE  /\ \A req : Quiet(req)' => Quiet(req)
           /\ \A j \in DOMAIN jobs : Undisturbed(j)' => Undisturbed(j)
<1>1. DOMAIN jobs \subseteq DOMAIN jobs' /\ \A j \in DOMAIN jobs : jobs'[j].req = jobs[j].req
  BY TransferEffect
<1>3. \A req : Quiet(req)' => Quiet(req)
  BY <1>1 DEF Quiet
<1>4. ASSUME NEW j \in DOMAIN jobs, Undisturbed(j)' PROVE Undisturbed(j)
  BY <1>1, <1>4 DEF Undisturbed, Disturbs
<1> QED
  BY <1>3, <1>4

LEMMA SizesKept ==
    ASSUME BridgeTypeOK, NEW j \in DOMAIN jobs, jobs'[j].req = jobs[j].req,
           \A f \in Files : f \in Sources(jobs[j].req) => disk'[f] = disk[f]
    PROVE  /\ Present(jobs[j].req)' = Present(jobs[j].req)
           /\ Sizes(jobs[j].req)' = Sizes(jobs[j].req)
<1>1. \A k \in 1..Len(jobs[j].req.pairs) :
        disk'[jobs[j].req.pairs[k][1]] = disk[jobs[j].req.pairs[k][1]]
  BY JobTypes, FilesOf
<1>2. Present(jobs[j].req)' = Present(jobs[j].req)
  BY <1>1 DEF Present
<1>3. \A k \in Present(jobs[j].req) :
        Len(disk'[jobs[j].req.pairs[k][1]]) = Len(disk[jobs[j].req.pairs[k][1]])
  BY <1>1 DEF Present
<1>4. Sizes(jobs[j].req)' = [k \in Present(jobs[j].req)' |-> Len(disk'[jobs[j].req.pairs[k][1]])]
  BY DEF Sizes
<1> QED
  BY <1>2, <1>3, <1>4 DEF Sizes
-----------------------------------------------------------------------------
(* What a goroutine reads                                                   *)

LEMMA ReadingStep ==
    ASSUME BridgeTypeOK, GoroutineOK, ReadingOK, NEW i \in DOMAIN jobs, Step(i)
    PROVE  ReadingOK'
<1>1. Frame(i)
  BY StepFrame
<1> SUFFICES ASSUME NEW j \in DOMAIN jobs, Quiet(jobs[j].req)
             PROVE  Reading(j)'
  <2>1. /\ DOMAIN jobs' = DOMAIN jobs
        /\ \A j \in DOMAIN jobs : jobs'[j].req = jobs[j].req
        /\ \A req : Quiet(req)' => Quiet(req)
    BY <1>1, RequestsKept
  <2>2. ASSUME NEW j \in DOMAIN jobs', Quiet(jobs[j].req)' PROVE Quiet(jobs[j].req)
    <3>1. PICK req : req = jobs[j].req
      OBVIOUS
    <3>2. req = jobs'[j].req
      BY <2>1, <2>2, <3>1
    <3>3. Quiet(req)'
      BY <2>2, <3>2 DEF Quiet
    <3> QED
      BY <2>1, <3>1, <3>3
  <2> QED
    BY <2>1, <2>2 DEF ReadingOK
<1>2. /\ jobs'[j].req = jobs[j].req /\ Walk(j)' = Walk(j)
      /\ transfers'[j].walked = transfers[j].walked => Source(j)' = Source(j)
  BY <1>1, RequestsKept DEF Walk, Source
<1>3. transfers[j].walked < Len(Walk(j)) => disk'[Source(j)] = disk[Source(j)]
  BY <1>1, JobTypes, QuietSources
<1>4. Reading(j) /\ JobOK(j)
  BY DEF ReadingOK, GoroutineOK
<1>5. CASE j # i
  <2>1. transfers'[j] = transfers[j]
    BY <1>1, <1>5 DEF Frame, TransfersStep
  <2> QED
    BY <1>2, <1>3, <1>4, <2>1 DEF Reading, JobOK
<1>6. CASE j = i
  <2> DEFINE t == transfers[i]
  <2>0. t \in Goroutine
    BY JobTypes
  <2>1. CASE OpenFile(i)
    <3>1. /\ transfers'[i].pc = "read" /\ transfers'[i].walked = t.walked
          /\ transfers'[i].copied = 0 /\ transfers'[i].size = Len(disk[Source(i)])
      BY <2>0, <2>1, OpenFileEffect DEF Goroutine
    <3>2. t.walked < Len(Walk(i)) /\ disk[Source(i)] # Missing
      BY <2>1 DEF OpenFile
    <3>3. disk[Source(i)] \in Content
      BY <3>2, JobTypes DEF BridgeTypeOK
    <3>4. Len(disk[Source(i)]) \in Nat
      BY <3>3 DEF Content
    <3> QED
      BY <1>2, <1>3, <1>6, <3>1, <3>2, <3>4 DEF Reading
  <2>2. CASE ReadBlock(i)
    <3>1. /\ transfers'[i].pc = "write" /\ transfers'[i].walked = t.walked
          /\ transfers'[i].copied = t.copied /\ transfers'[i].size = t.size
          /\ transfers'[i].buf = disk[Source(i)][t.copied + 1]
      BY <2>0, <2>2, ReadBlockEffect DEF Goroutine
    <3> QED
      BY <1>2, <1>3, <1>4, <1>6, <2>2, <3>1 DEF Reading, ReadBlock, JobOK
  <2>3. CASE WriteBlock(i)
    <3>1. /\ transfers'[i].pc = "read" /\ transfers'[i].walked = t.walked
          /\ transfers'[i].copied = t.copied + 1 /\ transfers'[i].size = t.size
      BY <2>0, <2>3, WriteBlockEffect DEF Goroutine
    <3>2. t.copied \in Nat /\ t.size \in Nat
      BY <2>0 DEF Goroutine
    <3> QED
      BY <1>2, <1>3, <1>4, <1>6, <2>3, <3>1, <3>2 DEF Reading, WriteBlock, JobOK
  <2>4. CASE ~(OpenFile(i) \/ ReadBlock(i) \/ WriteBlock(i))
    <3>1. transfers'[i].pc \notin {"read", "write"}
      <4>1. CASE NewFsFails(i)
        BY <2>0, <4>1, NewFsFailsEffect DEF Goroutine
      <4>2. CASE NewFsSucceeds(i)
        BY <2>0, <4>2, NewFsSucceedsEffect DEF Goroutine
      <4>3. CASE CopyFileSucceeds(i)
        BY <2>0, <4>3, CopyFileSucceedsEffect DEF Goroutine
      <4>4. CASE CopyFileFails(i)
        BY <2>0, <4>4, CopyFileFailsEffect DEF Goroutine
      <4>5. CASE StatSucceeds(i)
        BY <2>0, <4>5, StatSucceedsEffect DEF Goroutine
      <4>6. CASE Skip(i)
        BY <2>0, <4>6, SkipEffect DEF Goroutine, Skip
      <4>7. CASE EndOfFile(i)
        BY <2>0, <4>7, EndOfFileEffect DEF Goroutine
      <4>8. CASE Finish(i)
        BY <2>0, <4>8, FinishEffect DEF Goroutine
      <4>9. CASE Fail(i)
        BY <2>0, <4>9, FailEffect DEF Goroutine
      <4> QED
        BY <2>4, <4>1, <4>2, <4>3, <4>4, <4>5, <4>6, <4>7, <4>8, <4>9 DEF Step
    <3> QED
      BY <1>6, <3>1 DEF Reading
  <2> QED
    BY <2>1, <2>2, <2>3, <2>4
<1> QED
  BY <1>5, <1>6

LEMMA ReadingGrows ==
    ASSUME BridgeTypeOK, ReadingOK, NEW r \in Requests, Transfer(r)
    PROVE  ReadingOK'
<1> SUFFICES ASSUME NEW j \in DOMAIN jobs', Quiet(jobs[j].req)' PROVE Reading(j)'
  BY DEF ReadingOK
<1>1. CASE j \in DOMAIN jobs
  <2>1. jobs'[j] = jobs[j] /\ transfers'[j] = transfers[j] /\ disk' = disk
    BY <1>1, TransferEffect
  <2>2. PICK req : req = jobs[j].req /\ req = jobs'[j].req
    BY <2>1
  <2>3. Quiet(req)'
    BY <2>2 DEF Quiet
  <2>4. Quiet(req)
    BY <2>3, RequestsGrow
  <2> QED
    BY <1>1, <2>1, <2>2, <2>4 DEF ReadingOK, Reading, Source, Walk
<1>2. CASE j \notin DOMAIN jobs
  <2>1. DOMAIN jobs' = DOMAIN jobs \cup {Len(jobs) + 1}
    BY TransferEffect
  <2>2. j = Len(jobs) + 1
    BY <1>2, <2>1
  <2>3. transfers'[j] = Fresh
    BY <2>2, TransferEffect
  <2> QED
    BY <2>3 DEF Reading, Fresh
<1> QED
  BY <1>1, <1>2
-----------------------------------------------------------------------------
(* What a goroutine has counted                                             *)

LEMMA Room ==
    ASSUME BridgeTypeOK, NEW i \in DOMAIN jobs, JobOK(i), Counted(i), Reading(i),
           transfers[i].pc \in Copying
    PROVE  /\ transfers[i].before + transfers[i].copied <= transfers[i].total
           /\ transfers[i].pc \in {"read", "write"} =>
                 transfers[i].before + transfers[i].size <= transfers[i].total
<1> DEFINE req == jobs[i].req
           w == transfers[i].walked + 1
<1>1. req \in Request /\ disk \in [Files -> Content \cup {Missing}]
  BY JobTypes DEF BridgeTypeOK
<1>2. IsFiniteSet(Present(req)) /\ \A k \in Present(req) : Sizes(req)[k] \in Nat
  BY <1>1, SizesType
<1>3. IsFiniteSet(Passed(i)) /\ Passed(i) \in SUBSET Present(req)
  BY <1>2, FS_Subset DEF Passed
<1>4. /\ transfers[i].total = SumOver(Sizes(req), Present(req))
      /\ transfers[i].before = SumOver(Sizes(req), Passed(i))
  BY DEF Counted
<1>5. /\ transfers[i].before \in Nat /\ transfers[i].copied \in Nat
      /\ transfers[i].size \in Nat /\ transfers[i].total \in Nat
      /\ transfers[i].walked \in Nat
  BY Numbers
<1>6. CASE transfers[i].pc = "next"
  <2>1. SumOver(Sizes(req), Passed(i)) <= SumOver(Sizes(req), Present(req))
    BY <1>2, <1>3, SumSubset
  <2>2. transfers[i].copied = 0
    BY <1>6 DEF JobOK
  <2> QED
    BY <1>4, <1>5, <1>6, <2>1, <2>2
<1>7. CASE transfers[i].pc \in {"read", "write"}
  <2>1. /\ w \in Present(req) /\ w \notin Passed(i)
        /\ Sizes(req)[w] = transfers[i].size
    <3>1. transfers[i].walked < Len(Walk(i)) /\ disk[Source(i)] # Missing
      BY <1>7 DEF JobOK
    <3>2. w \in 1..Len(req.pairs) /\ Source(i) = req.pairs[w][1]
      BY <3>1, JobTypes DEF Source, Walk
    <3>3. w \in Present(req)
      BY <3>1, <3>2 DEF Present
    <3>4. Sizes(req)[w] = Len(disk[Source(i)])
      BY <3>2, <3>3 DEF Sizes
    <3> QED
      BY <1>5, <1>7, <3>3, <3>4 DEF Passed, Reading
  <2>2. /\ Passed(i) \cup {w} \in SUBSET Present(req)
        /\ \A k \in Passed(i) \cup {w} : Sizes(req)[k] \in Nat
    BY <1>2, <1>3, <2>1
  <2> HIDE DEF req, w
  <2>3. SumOver(Sizes(req), Passed(i) \cup {w}) = Sizes(req)[w] + SumOver(Sizes(req), Passed(i))
    BY <1>3, <2>1, <2>2, SumAdd
  <2>4. SumOver(Sizes(req), Passed(i) \cup {w}) <= SumOver(Sizes(req), Present(req))
    BY <1>2, <2>2, SumSubset
  <2>5. transfers[i].copied <= transfers[i].size
    BY <1>7 DEF Reading
  <2> QED
    BY <1>4, <1>5, <2>1, <2>3, <2>4, <2>5
<1> QED
  BY <1>6, <1>7 DEF Copying

Fits(sizes, D, k, n, total) ==
    /\ n \in Nat /\ SumOver(sizes, D) \in Nat
    /\ SumOver(sizes, D \cup {k}) = n + SumOver(sizes, D)
    /\ n + SumOver(sizes, D) <= total

\* One more file of the walk takes its size from what is left.
LEMMA RoomFor ==
    ASSUME BridgeTypeOK, NEW i \in DOMAIN jobs, Counted(i), transfers[i].pc \in Copying,
           NEW D \in SUBSET Present(jobs[i].req), NEW k \in Present(jobs[i].req), k \notin D
    PROVE  Fits(Sizes(jobs[i].req), D, k, Len(disk[Walk(i)[k][1]]), transfers[i].total)
<1> DEFINE req == jobs[i].req
<1>1. req \in Request /\ disk \in [Files -> Content \cup {Missing}]
  BY JobTypes DEF BridgeTypeOK
<1>2. /\ IsFiniteSet(Present(req)) /\ \A l \in Present(req) : Sizes(req)[l] \in Nat
      /\ Sizes(req)[k] = Len(disk[Walk(i)[k][1]])
  BY <1>1, SizesType DEF Walk
<1>3. IsFiniteSet(D) /\ D \cup {k} \in SUBSET Present(req)
  BY <1>2, FS_Subset
<1>4. transfers[i].total = SumOver(Sizes(req), Present(req))
  BY DEF Counted
<1> HIDE DEF req
<1>5. SumOver(Sizes(req), D \cup {k}) = Sizes(req)[k] + SumOver(Sizes(req), D)
  BY <1>2, <1>3, SumAdd
<1>6. SumOver(Sizes(req), D \cup {k}) <= SumOver(Sizes(req), Present(req))
  BY <1>2, <1>3, SumSubset
<1>7. SumOver(Sizes(req), D) \in Nat
  BY <1>2, <1>3, SumType
<1> QED
  BY <1>2, <1>4, <1>5, <1>6, <1>7 DEF req, Fits

LEMMA WholeSubSeq ==
    ASSUME NEW s \in Content
    PROVE  SubSeq(s, 1, Len(s)) = s
  BY DEF Content

LEMMA AllReported ==
    ASSUME BridgeTypeOK, NEW i \in DOMAIN jobs, JobOK(i), Counted(i), Reading(i),
           Copied(i), Shown(i), transfers[i].pc \in Copying, jobs[i].percentage >= 100
    PROVE  Full(i)
<1> DEFINE req == jobs[i].req
           t == transfers[i]
           w == t.walked + 1
<1>1. /\ t.before \in Nat /\ t.copied \in Nat /\ t.size \in Nat /\ t.total \in Nat
      /\ t.walked \in Nat /\ jobs[i].percentage \in Nat
  BY Numbers
<1>2. t.before + t.copied = t.total
  <2>1. jobs[i].percentage <= Pct(t.before + t.copied, t.total)
    BY DEF Shown
  <2>2. t.total > 0 /\ jobs[i].percentage <= (100 * (t.before + t.copied)) \div t.total
    BY <1>1, <2>1 DEF Pct
  <2>3. PICK b \in Nat, n \in Nat : b = t.before + t.copied /\ n = t.total
    BY <1>1
  <2>4. n > 0 /\ (100 * b) \div n >= 100
    <3>1. n > 0 /\ (100 * b) \div n \in Nat /\ jobs[i].percentage <= (100 * b) \div n
      BY <2>2, <2>3, DivType
    <3> QED
      BY <1>1, <3>1
  <2>5. b >= n
    BY <2>4, DivFull
  <2>6. b <= n
    BY <2>3, Room
  <2> QED
    BY <2>3, <2>5, <2>6
<1> SUFFICES ASSUME NEW k \in 1..Len(Walk(i)), disk[Walk(i)[k][1]] \notin {Missing, <<>>},
                    k > t.walked
             PROVE  Same(Walk(i)[k])
  BY <1>1 DEF Full, Copied
<1>3. k \in Present(req)
  BY DEF Present, Walk
<1>4. disk[Walk(i)[k][1]] \in Content /\ Len(disk[Walk(i)[k][1]]) > 0
  <2>1. disk[Walk(i)[k][1]] \in Content
    BY <1>3, JobTypes, SizesType DEF BridgeTypeOK, Walk
  <2> QED
    BY <2>1 DEF Content
<1>5. Passed(i) \in SUBSET Present(req) /\ k \notin Passed(i) /\ w \notin Passed(i)
  BY <1>1 DEF Passed
<1>6. t.before = SumOver(Sizes(req), Passed(i))
  BY DEF Counted
<1>7. CASE t.pc = "next"
  <2>1. t.copied = 0
    BY <1>7 DEF JobOK
  <2>2. Len(disk[Walk(i)[k][1]]) + t.before <= t.total
    <3>1. Fits(Sizes(req), Passed(i), k, Len(disk[Walk(i)[k][1]]), t.total)
      BY <1>3, <1>5, RoomFor
    <3> QED
      BY <1>6, <3>1 DEF Fits
  <2>3. Len(disk[Walk(i)[k][1]]) \in Nat
    BY <1>4 DEF Content
  <2> QED
    BY <1>1, <1>2, <1>4, <2>1, <2>2, <2>3
<1>8. CASE t.pc \in {"read", "write"}
  <2>1. t.size = Len(disk[Source(i)]) /\ t.copied <= t.size
    BY <1>8 DEF Reading
  <2>2. t.before + t.size <= t.total
    BY <1>8, Room
  <2>3. t.copied = t.size
    <3>1. PICK b \in Nat, c \in Nat, n \in Nat :
             /\ b = t.before /\ c = t.copied /\ n = t.size
             /\ b + c = t.total /\ b + n <= t.total /\ c <= n
      BY <1>1, <1>2, <2>1, <2>2, Zenon
    <3> QED
      BY <3>1
  <2>4. Source(i) = Walk(i)[w][1] /\ Target(i) = Walk(i)[w][2]
    BY DEF Source, Target
  <2>5. CASE k = w
    <3>1. disk[Target(i)] = SubSeq(disk[Source(i)], 1, Len(disk[Source(i)]))
      BY <1>8, <2>1, <2>3 DEF Copied
    <3>2. disk[Source(i)] \in Content
      BY <1>4, <2>4, <2>5
    <3> QED
      BY <2>4, <2>5, <3>1, <3>2, WholeSubSeq DEF Same
  <2>6. CASE k # w
    <3>1. w \in Present(req)
      <4>1. w \in 1..Len(Walk(i)) /\ disk[Source(i)] # Missing
        BY <1>8, JobTypes DEF JobOK
      <4> QED
        BY <2>4, <4>1 DEF Present, Walk
    <3>2. /\ Passed(i) \cup {w} \in SUBSET Present(req) /\ k \notin Passed(i) \cup {w}
      BY <1>5, <2>6, <3>1
    <3>3. SumOver(Sizes(req), Passed(i) \cup {w}) = t.size + t.before
      <4>1. Fits(Sizes(req), Passed(i), w, Len(disk[Walk(i)[w][1]]), t.total)
        BY <1>5, <3>1, RoomFor
      <4> QED
        BY <1>6, <2>1, <2>4, <4>1 DEF Fits
    <3>4. Len(disk[Walk(i)[k][1]]) + (t.size + t.before) <= t.total
      <4>1. Fits(Sizes(req), Passed(i) \cup {w}, k, Len(disk[Walk(i)[k][1]]), t.total)
        BY <1>3, <3>2, RoomFor
      <4> QED
        BY <3>3, <4>1 DEF Fits
    <3>5. Len(disk[Walk(i)[k][1]]) \in Nat
      BY <1>4 DEF Content
    <3> QED
      BY <1>1, <1>2, <1>4, <2>3, <3>4, <3>5
  <2> QED
    BY <2>5, <2>6
<1> QED
  BY <1>7, <1>8 DEF Copying

-----------------------------------------------------------------------------
(* Steps of other jobs leave an undisturbed one as it is                    *)

LEMMA CopyingOther ==
    ASSUME BridgeTypeOK, GoroutineOK, CopyingOK, NEW i \in DOMAIN jobs, Frame(i),
           NEW j \in DOMAIN jobs, j # i, Undisturbed(j)
    PROVE  Counted(j)' /\ Copied(j)' /\ Shown(j)'
<1>1. jobs'[j] = jobs[j] /\ transfers'[j] = transfers[j] /\ Walk(j)' = Walk(j)
  BY DEF Frame, JobsStep, TransfersStep, Walk
<1>2. Counted(j) /\ Copied(j) /\ Shown(j) /\ JobOK(j)
  BY DEF CopyingOK, GoroutineOK
<1>3. \A f \in Files : f \in Touched(jobs[j].req) => disk'[f] = disk[f]
  BY UndisturbedFiles
<1>4. \A k \in 1..Len(Walk(j)) : /\ disk'[Walk(j)[k][1]] = disk[Walk(j)[k][1]]
                                 /\ disk'[Walk(j)[k][2]] = disk[Walk(j)[k][2]]
  <2>1. \A k \in 1..Len(Walk(j)) :
          /\ Walk(j)[k][1] \in Files /\ Walk(j)[k][2] \in Files
          /\ Walk(j)[k][1] \in Touched(jobs[j].req)
          /\ Walk(j)[k][2] \in Touched(jobs[j].req)
    BY JobTypes, FilesOf DEF Walk, Touched
  <2> QED
    BY <1>3, <2>1
<1>5. Counted(j)'
  <2>1. \A f \in Files : f \in Sources(jobs[j].req) => disk'[f] = disk[f]
    BY <1>3 DEF Touched
  <2>2. Present(jobs[j].req)' = Present(jobs[j].req) /\ Sizes(jobs[j].req)' = Sizes(jobs[j].req)
    BY <1>1, <2>1, SizesKept
  <2>3. Passed(j)' = Passed(j)
    BY <1>1, <2>2 DEF Passed
  <2> QED
    BY <1>1, <1>2, <2>2, <2>3 DEF Counted
<1>6. transfers[j].walked \in Nat /\ transfers[j].walked <= Len(Walk(j))
  BY <1>2, Numbers DEF JobOK
<1>7. \A k \in 1..transfers[j].walked : k \in 1..Len(Walk(j))
  BY <1>6, JobTypes
<1>8. transfers[j].pc \in {"read", "write"} => transfers[j].walked + 1 \in 1..Len(Walk(j))
  BY <1>2, JobTypes DEF JobOK
<1>9. Copied(j)'
  <2>1. \A k \in 1..transfers'[j].walked :
          disk'[Walk(j)[k][1]] # Missing => disk'[Walk(j)[k][2]] = disk'[Walk(j)[k][1]]
    BY <1>1, <1>2, <1>4, <1>7 DEF Copied, Same
  <2>2. transfers[j].pc \in {"read", "write"} =>
          disk'[Target(j)] = disk[Target(j)] /\ disk'[Source(j)] = disk[Source(j)]
    BY <1>4, <1>8 DEF Source, Target
  <2>3. Source(j)' = Source(j) /\ Target(j)' = Target(j)
    BY <1>1 DEF Source, Target
  <2> QED
    BY <1>1, <1>2, <2>1, <2>2, <2>3 DEF Copied, Same
<1>10. Shown(j)'
  BY <1>1, <1>2, <1>4 DEF Shown, Full, Same
<1> QED
  BY <1>5, <1>9, <1>10
-----------------------------------------------------------------------------
(* The steps of an undisturbed job                                          *)

LEMMA OwnFiles ==
    ASSUME BridgeTypeOK, GoroutineOK, NEW i \in DOMAIN jobs, Step(i), Undisturbed(i)
    PROVE  /\ jobs'[i].req = jobs[i].req /\ Walk(i)' = Walk(i)
           /\ Present(jobs[i].req)' = Present(jobs[i].req)
           /\ Sizes(jobs[i].req)' = Sizes(jobs[i].req)
           /\ \A k \in 1..Len(Walk(i)) : disk'[Walk(i)[k][1]] = disk[Walk(i)[k][1]]
<1>1. Frame(i)
  BY StepFrame
<1>2. jobs'[i].req = jobs[i].req /\ Walk(i)' = Walk(i)
  BY <1>1 DEF Frame, JobsStep, Walk
<1>3. \A f \in Files : f \in Sources(jobs[i].req) => disk'[f] = disk[f]
  BY <1>1, UndisturbedQuiet, QuietSources
<1>4. \A k \in 1..Len(Walk(i)) : disk'[Walk(i)[k][1]] = disk[Walk(i)[k][1]]
  BY <1>3, JobTypes, FilesOf DEF Walk
<1> QED
  BY <1>2, <1>3, <1>4, SizesKept

LEMMA CopiedNothing ==
    ASSUME NEW i, transfers[i].walked = 0, transfers[i].pc \notin {"read", "write"}
    PROVE  Copied(i)
  BY DEF Copied

LEMMA ZeroPct ==
    ASSUME NEW t \in Nat PROVE NewPct(0, 0, t, "in_progress") = 0
  BY DEF NewPct

\* Before the local copy nothing is copied, counted or shown.
LEMMA CopyingEarly ==
    ASSUME BridgeTypeOK, GoroutineOK, NEW i \in DOMAIN jobs, Step(i), Shown(i),
           \/ NewFsFails(i) \/ NewFsSucceeds(i) \/ CopyFileSucceeds(i) \/ CopyFileFails(i)
    PROVE  Counted(i)' /\ Copied(i)' /\ Shown(i)'
<1> DEFINE t == transfers[i]
<1>1. t \in Goroutine /\ JobOK(i) /\ t.total \in Nat /\ TreeSize(jobs[i].req) \in Nat
  BY JobTypes, Numbers DEF GoroutineOK
<1>2. t.walked = 0 /\ jobs[i].percentage = 0
  BY <1>1 DEF NewFsFails, NewFsSucceeds, CopyFileSucceeds, CopyFileFails, JobOK, Shown
<1>3. transfers'[i].walked = 0 /\ transfers'[i].pc \in {"rclone", "stat", "over"}
  <2>1. CASE NewFsFails(i) \/ CopyFileFails(i)
    BY <1>1, <1>2, <2>1, NewFsFailsEffect, CopyFileFailsEffect DEF Goroutine
  <2>2. CASE NewFsSucceeds(i)
    BY <1>1, <1>2, <2>2, NewFsSucceedsEffect DEF Goroutine
  <2>3. CASE CopyFileSucceeds(i)
    BY <1>1, <1>2, <2>3, CopyFileSucceedsEffect DEF Goroutine
  <2> QED
    BY <2>1, <2>2, <2>3
<1>4. Counted(i)' /\ Copied(i)'
  BY <1>3, CopiedNothing DEF Counted, Copied, Copying
<1>5. CASE NewFsFails(i) \/ CopyFileFails(i)
  <2>1. jobs'[i].percentage = 0 /\ transfers'[i].pc = "stat"
    BY <1>1, <1>2, <1>5, NewFsFailsEffect, CopyFileFailsEffect DEF Goroutine
  <2> QED
    BY <1>4, <2>1 DEF Shown, Copying
<1>6. CASE NewFsSucceeds(i)
  <2>1. transfers'[i].pc = "rclone"
    BY <1>1, <1>6, NewFsSucceedsEffect DEF Goroutine
  <2>2. jobs'[i].percentage = NewPct(0, 0, TreeSize(jobs[i].req), "in_progress")
    BY <1>2, <1>6, NewFsSucceedsEffect DEF Updated
  <2>3. jobs'[i].percentage = 0
    BY <1>1, <2>2, ZeroPct
  <2> QED
    BY <1>4, <2>1, <2>3 DEF Shown, Copying
<1>7. CASE CopyFileSucceeds(i)
  <2>1. jobs[i].req.own # <<>>
    <3>1. Range(jobs[i].req.own) # {}
      BY <1>7 DEF CopyFileSucceeds
    <3> QED
      BY <3>1 DEF Range
  <2>2. jobs'[i].req = jobs[i].req
    BY StepFrame DEF Frame, JobsStep
  <2>3. transfers'[i].pc = "over"
    BY <1>1, <1>7, CopyFileSucceedsEffect DEF Goroutine
  <2> QED
    BY <1>4, <2>1, <2>2, <2>3 DEF Shown, Copying
<1> QED
  BY <1>5, <1>6, <1>7

LEMMA CopyingStat ==
    ASSUME BridgeTypeOK, GoroutineOK, NEW i \in DOMAIN jobs, Step(i), Undisturbed(i),
           Shown(i), StatSucceeds(i)
    PROVE  Counted(i)' /\ Copied(i)' /\ Shown(i)'
<1> DEFINE t == transfers[i]
           req == jobs[i].req
<1>1. t \in Goroutine /\ JobOK(i) /\ TreeSize(req) \in Nat /\ req \in Request
  BY JobTypes, Numbers DEF GoroutineOK
<1>2. t.walked = 0 /\ jobs[i].percentage = 0 /\ t.before = 0 /\ t.copied = 0
  BY <1>1 DEF StatSucceeds, JobOK, Shown
<1>3. /\ transfers'[i].walked = 0 /\ transfers'[i].pc = "next" /\ transfers'[i].before = 0
      /\ transfers'[i].total = TreeSize(req) /\ transfers'[i].copied = 0
  <2>1. transfers'[i] = [t EXCEPT !.pc = "next", !.total = TreeSize(req)]
    BY StatSucceedsEffect
  <2> HIDE DEF t, req
  <2> QED
    BY <1>1, <1>2, <2>1 DEF Goroutine
<1>4. Copied(i)'
  BY <1>3 DEF Copied
<1>5. Present(req)' = Present(req) /\ Sizes(req)' = Sizes(req)
  BY OwnFiles
<1>6. Passed(i)' = {}
  BY <1>3, <1>5 DEF Passed, Present
<1>7. TreeSize(req) = SumOver(Sizes(req), Present(req))
  BY <1>1, SizesType DEF BridgeTypeOK
<1>8. Counted(i)'
  BY <1>3, <1>5, <1>6, <1>7, SumEmpty DEF Counted
<1>9. jobs'[i].percentage = 0
  <2>1. CASE req.dir
    BY <1>2, <2>1, StatSucceedsEffect
  <2>2. CASE ~req.dir
    <3>1. jobs'[i].percentage = NewPct(0, 0, TreeSize(req), "in_progress")
      BY <1>2, <2>2, StatSucceedsEffect DEF Updated
    <3> QED
      BY <1>1, <3>1, ZeroPct
  <2> QED
    BY <2>1, <2>2
<1>10. Pct(0, TreeSize(req)) \in Nat
  BY <1>1, DivType DEF Pct
<1> QED
  BY <1>3, <1>4, <1>8, <1>9, <1>10 DEF Shown, Copying

LEMMA CopyingSkip ==
    ASSUME BridgeTypeOK, GoroutineOK, NEW i \in DOMAIN jobs, Step(i), Undisturbed(i),
           Counted(i), Copied(i), Shown(i), Skip(i)
    PROVE  Counted(i)' /\ Copied(i)' /\ Shown(i)'
<1> DEFINE t == transfers[i]
           req == jobs[i].req
<1>1. t \in Goroutine /\ t.walked \in Nat
  BY JobTypes, Numbers
<1>2. /\ transfers'[i].walked = t.walked + 1 /\ transfers'[i].pc = "next"
      /\ transfers'[i].before = t.before /\ transfers'[i].copied = t.copied
      /\ transfers'[i].total = t.total /\ jobs'[i] = jobs[i] /\ disk' = disk /\ t.pc = "next"
      /\ disk[Walk(i)[t.walked + 1][1]] = Missing
  BY <1>1, SkipEffect DEF Goroutine, Skip, Source
<1>3. /\ Present(req)' = Present(req) /\ Sizes(req)' = Sizes(req) /\ Walk(i)' = Walk(i)
  BY OwnFiles
<1>4. Passed(i)' = Passed(i)
  <2>1. t.walked + 1 \notin Present(req)
    BY <1>2 DEF Present, Walk
  <2>2. \A k \in Present(req) : k \in Nat
    BY DEF Present
  <2> QED
    BY <1>1, <1>2, <1>3, <2>1, <2>2 DEF Passed
<1>5. Counted(i)'
  BY <1>2, <1>3, <1>4 DEF Counted, Copying
<1>6. Copied(i)'
  BY <1>1, <1>2, <1>3 DEF Copied, Same
<1>7. Shown(i)'
  BY <1>2 DEF Shown, Copying
<1> QED
  BY <1>5, <1>6, <1>7

LEMMA CopyingRead ==
    ASSUME BridgeTypeOK, GoroutineOK, NEW i \in DOMAIN jobs, Step(i), Undisturbed(i),
           Counted(i), Copied(i), Shown(i), ReadBlock(i)
    PROVE  Counted(i)' /\ Copied(i)' /\ Shown(i)'
<1> DEFINE t == transfers[i]
<1>1. t \in Goroutine
  BY JobTypes
<1>2. /\ transfers'[i].walked = t.walked /\ transfers'[i].pc = "write"
      /\ transfers'[i].before = t.before /\ transfers'[i].copied = t.copied
      /\ transfers'[i].total = t.total /\ jobs'[i] = jobs[i] /\ disk' = disk /\ t.pc = "read"
  BY <1>1, ReadBlockEffect DEF Goroutine, ReadBlock
<1>3. /\ Present(jobs[i].req)' = Present(jobs[i].req)
      /\ Sizes(jobs[i].req)' = Sizes(jobs[i].req) /\ Walk(i)' = Walk(i)
  BY OwnFiles
<1>4. /\ Passed(i)' = Passed(i) /\ Source(i)' = Source(i) /\ Target(i)' = Target(i)
  BY <1>2, <1>3 DEF Passed, Source, Target
<1>5. Counted(i)'
  BY <1>2, <1>3, <1>4 DEF Counted, Copying
<1>6. Copied(i)'
  BY <1>2, <1>3, <1>4 DEF Copied, Same
<1>7. Shown(i)'
  BY <1>2 DEF Shown, Copying
<1> QED
  BY <1>5, <1>6, <1>7

LEMMA OtherTargets ==
    ASSUME BridgeTypeOK, NEW i \in DOMAIN jobs, Apart(jobs[i].req),
           transfers[i].walked < Len(Walk(i)), NEW c, disk' = [disk EXCEPT ![Target(i)] = c]
    PROVE  \A k \in 1..Len(Walk(i)) : k # transfers[i].walked + 1 =>
              disk'[Walk(i)[k][2]] = disk[Walk(i)[k][2]]
<1> SUFFICES ASSUME NEW k \in 1..Len(Walk(i)), k # transfers[i].walked + 1
             PROVE  Walk(i)[k][2] # Target(i) /\ Walk(i)[k][2] \in Files
  BY DEF BridgeTypeOK
<1>1. transfers[i].walked + 1 \in 1..Len(Walk(i)) /\ Walk(i)[k][2] \in Files
  BY JobTypes, FilesOf DEF Walk
<1> QED
  BY <1>1 DEF Apart, Walk, Target

LEMMA CopyingOpen ==
    ASSUME BridgeTypeOK, GoroutineOK, NEW i \in DOMAIN jobs, Step(i), Undisturbed(i),
           Counted(i), Copied(i), Shown(i), OpenFile(i)
    PROVE  Counted(i)' /\ Copied(i)' /\ Shown(i)'
<1> DEFINE t == transfers[i]
<1>1. t \in Goroutine /\ JobOK(i) /\ t.walked \in Nat
  BY JobTypes, Numbers DEF GoroutineOK
<1>2. /\ transfers'[i].walked = t.walked /\ transfers'[i].pc = "read"
      /\ transfers'[i].before = t.before /\ transfers'[i].copied = 0
      /\ transfers'[i].total = t.total /\ jobs'[i] = jobs[i] /\ t.pc = "next"
  BY <1>1, OpenFileEffect DEF Goroutine, OpenFile
<1>3. /\ Present(jobs[i].req)' = Present(jobs[i].req)
      /\ Sizes(jobs[i].req)' = Sizes(jobs[i].req) /\ Walk(i)' = Walk(i)
      /\ \A k \in 1..Len(Walk(i)) : disk'[Walk(i)[k][1]] = disk[Walk(i)[k][1]]
  BY OwnFiles
<1>4. /\ Passed(i)' = Passed(i) /\ Source(i)' = Source(i) /\ Target(i)' = Target(i)
  BY <1>2, <1>3 DEF Passed, Source, Target
<1>5. Counted(i)'
  BY <1>2, <1>3, <1>4 DEF Counted, Copying
<1>6. t.copied = 0 /\ t.walked < Len(Walk(i))
  BY <1>1, <1>2 DEF JobOK, OpenFile
<1>7. Shown(i)'
  BY <1>2, <1>6 DEF Shown, Copying
<1>8. \A k \in 1..t.walked : /\ k \in 1..Len(Walk(i))
                             /\ disk'[Walk(i)[k][2]] = disk[Walk(i)[k][2]]
  <2>1. \A k \in 1..t.walked : k \in 1..Len(Walk(i)) /\ k # t.walked + 1
    BY <1>1, <1>6, JobTypes
  <2>2. Apart(jobs[i].req) /\ disk' = [disk EXCEPT ![Target(i)] = <<>>]
    BY DEF Undisturbed, OpenFile
  <2> QED
    BY <1>6, <2>1, <2>2, OtherTargets
<1>9. disk'[Target(i)] = <<>> /\ SubSeq(disk[Source(i)], 1, 0) = <<>>
  <2>1. Target(i) \in Files /\ disk[Source(i)] \in Content
    BY <1>6, JobTypes DEF OpenFile, BridgeTypeOK
  <2> QED
    BY <2>1 DEF OpenFile, BridgeTypeOK, Content
<1>10. disk'[Source(i)] = disk[Source(i)]
  BY <1>3, <1>6, JobTypes DEF Source
<1>11. Copied(i)'
  BY <1>2, <1>3, <1>4, <1>8, <1>9, <1>10 DEF Copied, Same
<1> QED
  BY <1>5, <1>7, <1>11

\* One more block of a copy that is a prefix makes it the next prefix.
LEMMA WrittenPrefix ==
    ASSUME NEW s \in Content, NEW c \in Nat, c < Len(s)
    PROVE  Written(SubSeq(s, 1, c), c + 1, s[c + 1]) = SubSeq(s, 1, c + 1)
<1>1. /\ SubSeq(s, 1, c) = [j \in 1..c |-> s[j]] /\ Len(SubSeq(s, 1, c)) = c
      /\ SubSeq(s, 1, c + 1) = [j \in 1..(c + 1) |-> s[j]]
  BY DEF Content
<1> DEFINE p == SubSeq(s, 1, c)
<1>2. \A j \in 1..c : p[j] = s[j]
  BY <1>1
<1>3. Len(p) = c
  BY <1>1
<1> HIDE DEF p
<1>4. Written(p, c + 1, s[c + 1]) = [j \in 1..(c + 1) |-> s[j]]
  BY <1>2, <1>3 DEF Written
<1> QED
  BY <1>1, <1>4 DEF p

LEMMA CopyingWrite ==
    ASSUME BridgeTypeOK, GoroutineOK, NEW i \in DOMAIN jobs, Step(i), Undisturbed(i),
           Reading(i), Counted(i), Copied(i), Shown(i), WriteBlock(i)
    PROVE  Counted(i)' /\ Copied(i)' /\ Shown(i)'
<1> DEFINE t == transfers[i]
<1>1. /\ t \in Goroutine /\ JobOK(i) /\ t.walked \in Nat /\ t.copied \in Nat
      /\ t.before \in Nat /\ t.size \in Nat /\ t.total \in Nat
  BY JobTypes, Numbers DEF GoroutineOK
<1>2. /\ transfers'[i].walked = t.walked /\ transfers'[i].pc = "read"
      /\ transfers'[i].before = t.before /\ transfers'[i].copied = t.copied + 1
      /\ transfers'[i].total = t.total /\ t.pc = "write"
  BY <1>1, WriteBlockEffect DEF Goroutine, WriteBlock
<1>3. /\ Present(jobs[i].req)' = Present(jobs[i].req)
      /\ Sizes(jobs[i].req)' = Sizes(jobs[i].req) /\ Walk(i)' = Walk(i)
      /\ \A k \in 1..Len(Walk(i)) : disk'[Walk(i)[k][1]] = disk[Walk(i)[k][1]]
  BY OwnFiles
<1>4. /\ Passed(i)' = Passed(i) /\ Source(i)' = Source(i) /\ Target(i)' = Target(i)
  BY <1>2, <1>3 DEF Passed, Source, Target
<1>5. Counted(i)'
  BY <1>2, <1>3, <1>4 DEF Counted, Copying
<1>6. /\ t.walked < Len(Walk(i)) /\ disk[Source(i)] # Missing
      /\ t.size = Len(disk[Source(i)]) /\ t.copied < t.size
      /\ t.buf = disk[Source(i)][t.copied + 1]
  BY <1>1, <1>2 DEF JobOK, Reading
<1>7. Shown(i)'
  <2>1. t.before + t.size <= t.total
    BY <1>1, <1>2, Room DEF Copying
  <2>2. jobs'[i].percentage
          = NewPct(jobs[i].percentage, t.before + t.copied + 1, t.total, "in_progress")
    BY WriteBlockEffect DEF Updated, Reported
  <2>3. t.total > 0 /\ (t.before + t.copied) + 1 = t.before + (t.copied + 1)
    <3>1. t.copied < t.size
      BY <1>6
    <3>2. /\ t.copied \in Nat /\ t.before \in Nat /\ t.size \in Nat /\ t.total \in Nat
      BY <1>1
    <3> HIDE DEF t
    <3> QED
      BY <2>1, <3>1, <3>2
  <2>4. jobs'[i].percentage = Pct(t.before + (t.copied + 1), t.total)
    BY <2>2, <2>3 DEF NewPct, Pct
  <2>5. Pct(t.before + (t.copied + 1), t.total) \in Nat
    BY <1>1, <2>3, DivType DEF Pct
  <2> QED
    BY <1>2, <2>4, <2>5 DEF Shown, Copying
<1>8. \A k \in 1..t.walked : /\ k \in 1..Len(Walk(i))
                             /\ disk'[Walk(i)[k][2]] = disk[Walk(i)[k][2]]
  <2>1. \A k \in 1..t.walked : k \in 1..Len(Walk(i)) /\ k # t.walked + 1
    BY <1>1, <1>6, JobTypes
  <2>2. /\ Apart(jobs[i].req)
        /\ disk' = [disk EXCEPT ![Target(i)] = Written(disk[Target(i)], t.copied + 1, t.buf)]
    BY DEF Undisturbed, WriteBlock
  <2> QED
    BY <1>6, <2>1, <2>2, OtherTargets
<1>9. disk'[Target(i)] = SubSeq(disk[Source(i)], 1, t.copied + 1)
  <2>1. Target(i) \in Files /\ disk[Source(i)] \in Content
    BY <1>6, JobTypes DEF BridgeTypeOK
  <2>2. disk'[Target(i)] = Written(disk[Target(i)], t.copied + 1, t.buf)
    BY <2>1 DEF WriteBlock, BridgeTypeOK
  <2>3. disk[Target(i)] = SubSeq(disk[Source(i)], 1, t.copied)
    BY <1>2 DEF Copied
  <2> QED
    BY <1>1, <1>6, <2>1, <2>2, <2>3, WrittenPrefix
<1>10. disk'[Source(i)] = disk[Source(i)]
  BY <1>3, <1>6, JobTypes DEF Source
<1>11. Copied(i)'
  BY <1>2, <1>3, <1>4, <1>8, <1>9, <1>10 DEF Copied, Same
<1> QED
  BY <1>5, <1>7, <1>11

LEMMA CopyingEnd ==
    ASSUME BridgeTypeOK, GoroutineOK, NEW i \in DOMAIN jobs, Step(i), Undisturbed(i),
           Reading(i), Counted(i), Copied(i), Shown(i), EndOfFile(i)
    PROVE  Counted(i)' /\ Copied(i)' /\ Shown(i)'
<1> DEFINE t == transfers[i]
           w == t.walked + 1
<1>1. /\ t \in Goroutine /\ JobOK(i) /\ t.walked \in Nat /\ t.copied \in Nat
      /\ t.before \in Nat /\ t.size \in Nat /\ t.total \in Nat
  BY JobTypes, Numbers DEF GoroutineOK
<1>2. /\ transfers'[i].walked = t.walked + 1 /\ transfers'[i].pc = "next"
      /\ transfers'[i].before = t.before + t.size /\ transfers'[i].copied = 0
      /\ transfers'[i].total = t.total
  <2>1. transfers'[i] = [t EXCEPT !.pc = "next", !.walked = @ + 1, !.copied = 0,
                                  !.before = @ + t.size, !.size = 0]
    BY EndOfFileEffect
  <2> HIDE DEF t
  <2> QED
    BY <1>1, <2>1 DEF Goroutine
<1>3. jobs'[i] = jobs[i] /\ t.pc = "read" /\ disk' = disk
  BY EndOfFileEffect DEF EndOfFile
<1>4. /\ Present(jobs[i].req)' = Present(jobs[i].req)
      /\ Sizes(jobs[i].req)' = Sizes(jobs[i].req) /\ Walk(i)' = Walk(i)
  BY OwnFiles
<1>5. /\ t.walked < Len(Walk(i)) /\ disk[Source(i)] # Missing
      /\ t.size = Len(disk[Source(i)]) /\ t.copied <= t.size
      /\ t.copied >= Len(disk[Source(i)])
  BY <1>1, <1>3 DEF JobOK, Reading, EndOfFile
<1>6. t.copied = t.size
  BY <1>1, <1>5
<1>7. Source(i) = Walk(i)[w][1] /\ Target(i) = Walk(i)[w][2] /\ w \in 1..Len(Walk(i))
  BY <1>5, JobTypes DEF Source, Target
<1>8. Counted(i)'
  <2>1. w \in Present(jobs[i].req) /\ w \notin Passed(i)
    <3>1. w \in Present(jobs[i].req)
      BY <1>5, <1>7 DEF Present, Walk
    <3>2. ~(w <= t.walked)
      BY <1>1
    <3> QED
      BY <3>1, <3>2 DEF Passed
  <2>2. Passed(i)' = Passed(i) \cup {w}
    <3>1. \A k \in Present(jobs[i].req) : k \in Nat
      BY DEF Present
    <3>2. \A k \in Present(jobs[i].req) : k <= t.walked + 1 <=> k <= t.walked \/ k = w
      BY <1>1, <3>1
    <3>3. Passed(i)' = {k \in Present(jobs[i].req) : k <= t.walked + 1}
      BY <1>2, <1>4 DEF Passed
    <3> QED
      BY <2>1, <3>2, <3>3 DEF Passed
  <2>3. Passed(i) \in SUBSET Present(jobs[i].req)
    BY DEF Passed
  <2>4. Fits(Sizes(jobs[i].req), Passed(i), w, Len(disk[Walk(i)[w][1]]), t.total)
    BY <1>3, <2>1, <2>3, RoomFor DEF Copying
  <2>5. /\ t.before = SumOver(Sizes(jobs[i].req), Passed(i))
        /\ t.total = SumOver(Sizes(jobs[i].req), Present(jobs[i].req))
    BY <1>3 DEF Counted, Copying
  <2>6. SumOver(Sizes(jobs[i].req), Passed(i) \cup {w}) = t.before + t.size
    <3>1. Len(disk[Walk(i)[w][1]]) = t.size
      BY <1>5, <1>7
    <3>2. SumOver(Sizes(jobs[i].req), Passed(i) \cup {w}) = t.size + t.before
      BY <2>4, <2>5, <3>1, Zenon DEF Fits
    <3> QED
      BY <1>1, <3>2
  <2>7. /\ SumOver(Sizes(jobs[i].req), Passed(i))' = t.before + t.size
        /\ SumOver(Sizes(jobs[i].req), Present(jobs[i].req))' = t.total
    BY <1>4, <2>2, <2>5, <2>6
  <2> QED
    BY <1>2, <2>7 DEF Counted
<1>9. Copied(i)'
  <2>1. disk[Target(i)] = disk[Source(i)]
    <3>1. disk[Source(i)] \in Content
      BY <1>5, JobTypes DEF BridgeTypeOK
    <3>2. disk[Target(i)] = SubSeq(disk[Source(i)], 1, Len(disk[Source(i)]))
      BY <1>3, <1>5, <1>6 DEF Copied
    <3> QED
      BY <3>1, <3>2, WholeSubSeq
  <2>2. \A k \in 1..transfers'[i].walked : k \in 1..t.walked \/ k = w
    <3>1. PICK n \in Nat : n = t.walked /\ transfers'[i].walked = n + 1 /\ w = n + 1
      BY <1>1, <1>2, Zenon
    <3>2. \A k \in 1..(n + 1) : k \in 1..n \/ k = n + 1
      OBVIOUS
    <3> QED
      BY <3>1, <3>2, Zenon
  <2>3. \A k \in 1..t.walked : disk[Walk(i)[k][1]] # Missing =>
          disk[Walk(i)[k][2]] = disk[Walk(i)[k][1]]
    BY DEF Copied, Same
  <2>4. \A k \in 1..transfers'[i].walked : disk'[Walk(i)[k][1]] # Missing =>
          disk'[Walk(i)[k][2]] = disk'[Walk(i)[k][1]]
    BY <1>3, <1>7, <2>1, <2>2, <2>3
  <2>5. transfers'[i].pc \notin {"read", "write"}
    BY <1>2
  <2> QED
    BY <1>4, <2>4, <2>5, Zenon DEF Copied, Same
<1>10. Shown(i)'
  <2>1. transfers'[i].before + transfers'[i].copied = t.before + t.copied
    BY <1>1, <1>2, <1>6
  <2> QED
    BY <1>2, <1>3, <2>1 DEF Shown, Copying
<1> QED
  BY <1>8, <1>9, <1>10

LEMMA CopyingOver ==
    ASSUME BridgeTypeOK, GoroutineOK, NEW i \in DOMAIN jobs, Step(i), Undisturbed(i),
           Reading(i), Counted(i), Copied(i), Shown(i), Finish(i) \/ Fail(i)
    PROVE  Counted(i)' /\ Copied(i)' /\ Shown(i)'
<1> DEFINE t == transfers[i]
<1>1. t \in Goroutine /\ JobOK(i) /\ t.total \in Nat /\ jobs[i].percentage \in Nat
  BY JobTypes, Numbers DEF GoroutineOK
<1>2. /\ transfers'[i].walked = t.walked /\ transfers'[i].pc = "over" /\ disk' = disk
  BY <1>1, FinishEffect, FailEffect DEF Goroutine, Finish, Fail
<1>3. Walk(i)' = Walk(i) /\ jobs'[i].req = jobs[i].req
  BY OwnFiles
<1>4. Counted(i)' /\ Copied(i)'
  BY <1>2, <1>3 DEF Counted, Copied, Copying, Same
<1>5. Full(i) => Full(i)'
  BY <1>2, <1>3 DEF Full, Same
<1>6. jobs'[i].percentage >= 100 => Full(i)
  <2>1. CASE Finish(i)
    BY <2>1 DEF Finish, Full, Copied
  <2>2. CASE Fail(i)
    <3> SUFFICES ASSUME jobs'[i].percentage >= 100 PROVE Full(i)
      OBVIOUS
    <3>1. PICK n \in {0, t.total} :
            jobs'[i].percentage = NewPct(jobs[i].percentage, 0, n, "failed")
      BY <2>2, FailEffect DEF Updated
    <3>2. jobs[i].percentage >= 100
      BY <1>1, <3>1 DEF NewPct
    <3>3. t.pc \in Copying
      BY <1>1, <2>2, <3>2 DEF Fail, Shown, Copying
    <3> QED
      BY <1>1, <3>2, <3>3, AllReported
  <2> QED
    BY <2>1, <2>2
<1>7. Shown(i)'
  BY <1>2, <1>5, <1>6 DEF Shown, Copying
<1> QED
  BY <1>4, <1>7
-----------------------------------------------------------------------------
(* Jobs that make the same copy                                             *)

\* What a step of job i does to its claim on the k-th target, unless it writes
\* that target.
LEMMA ClaimKept ==
    ASSUME BridgeTypeOK, GoroutineOK, NEW i \in DOMAIN jobs, Step(i), Reading(i),
           jobs[i].req.own = <<>>, NEW k \in Present(jobs[i].req),
           NEW s \in Content, s = disk[Walk(i)[k][1]], NEW t \in Content, Len(t) <= Len(s),
           k = transfers[i].walked + 1 => ~(OpenFile(i) \/ WriteBlock(i))
    PROVE  /\ Holds(i, k, s, t) => Holds(i, k, s, t)'
           /\ Opened(i, k)' => Opened(i, k)
<1> DEFINE g == transfers[i]
<1>1. /\ g \in Goroutine /\ JobOK(i) /\ g.walked \in Nat /\ g.copied \in Nat
      /\ k \in Nat /\ Len(s) \in Nat /\ Len(t) \in Nat
  <2>1. g \in Goroutine /\ JobOK(i) /\ g.walked \in Nat /\ g.copied \in Nat
    BY JobTypes, Numbers DEF GoroutineOK
  <2>2. k \in Nat
    BY DEF Present
  <2>3. Len(s) \in Nat /\ Len(t) \in Nat
    BY DEF Content
  <2> QED
    BY <2>1, <2>2, <2>3
<1>2. CASE NewFsFails(i)
  <2>1. /\ transfers'[i].pc = "stat" /\ transfers'[i].walked = g.walked
        /\ jobs'[i] = jobs[i] /\ g.pc = "try"
    BY <1>1, <1>2, NewFsFailsEffect DEF Goroutine, NewFsFails
  <2> QED
    BY <2>1 DEF Holds, Opened, At
<1>3. CASE NewFsSucceeds(i)
  <2>1. /\ transfers'[i].pc = "rclone" /\ transfers'[i].walked = g.walked
        /\ jobs[i].status = "in_progress" /\ g.pc = "try"
    BY <1>1, <1>3, NewFsSucceedsEffect DEF Goroutine, NewFsSucceeds, JobOK
  <2> QED
    BY <2>1 DEF Holds, Opened, At
<1>4. CASE CopyFileSucceeds(i)
  BY <1>4 DEF CopyFileSucceeds, Range
<1>5. CASE CopyFileFails(i)
  <2>1. /\ transfers'[i].pc = "stat" /\ transfers'[i].walked = g.walked
        /\ jobs'[i] = jobs[i] /\ g.pc = "rclone"
    BY <1>1, <1>5, CopyFileFailsEffect DEF Goroutine, CopyFileFails
  <2> QED
    BY <2>1 DEF Holds, Opened, At
<1>6. CASE StatSucceeds(i)
  <2>1. /\ transfers'[i].pc = "next" /\ transfers'[i].walked = g.walked
        /\ jobs[i].status = "in_progress" /\ g.pc = "stat"
    BY <1>1, <1>6, StatSucceedsEffect DEF Goroutine, StatSucceeds, JobOK
  <2> QED
    BY <2>1 DEF Holds, Opened, At
<1>7. CASE Skip(i)
  <2>1. /\ transfers'[i].pc = "next" /\ transfers'[i].walked = g.walked + 1
        /\ jobs'[i] = jobs[i] /\ g.pc = "next" /\ disk[Walk(i)[g.walked + 1][1]] = Missing
    BY <1>1, <1>7, SkipEffect DEF Goroutine, Skip, Source
  <2>2. k # g.walked + 1
    BY <2>1 DEF Present, Walk
  <2> QED
    BY <1>1, <2>1, <2>2 DEF Holds, Opened, At
<1>8. CASE OpenFile(i)
  <2>1. /\ transfers'[i].pc = "read" /\ transfers'[i].walked = g.walked
        /\ jobs'[i] = jobs[i] /\ g.pc = "next" /\ k # g.walked + 1
    BY <1>1, <1>8, OpenFileEffect DEF Goroutine, OpenFile
  <2> QED
    BY <1>1, <2>1 DEF Holds, Opened, At
<1>9. CASE ReadBlock(i)
  <2>1. /\ transfers'[i].pc = "write" /\ transfers'[i].walked = g.walked
        /\ jobs'[i] = jobs[i] /\ g.pc = "read" /\ transfers'[i].copied = g.copied
    BY <1>1, <1>9, ReadBlockEffect DEF Goroutine, ReadBlock
  <2> QED
    BY <1>1, <2>1 DEF Holds, Opened, At
<1>10. CASE WriteBlock(i)
  <2>1. /\ transfers'[i].pc = "read" /\ transfers'[i].walked = g.walked
        /\ g.pc = "write" /\ jobs[i].status = "in_progress" /\ k # g.walked + 1
    BY <1>1, <1>10, WriteBlockEffect DEF Goroutine, WriteBlock, JobOK
  <2> QED
    BY <1>1, <2>1 DEF Holds, Opened, At
<1>11. CASE EndOfFile(i)
  <2>1. transfers'[i].pc = "next" /\ transfers'[i].walked = g.walked + 1
    BY <1>1, <1>11, EndOfFileEffect DEF Goroutine
  <2>2. jobs'[i] = jobs[i] /\ g.pc = "read" /\ g.copied >= Len(disk[Source(i)])
    BY <1>11, EndOfFileEffect DEF EndOfFile
  <2>3. ASSUME At(i, k), g.copied <= Len(t), \A p \in 1..g.copied : t[p] = s[p]
        PROVE  t = s
    <3>1. s = disk[Source(i)]
      BY <1>1, <2>3 DEF At, Source
    <3>2. g.copied = Len(t) /\ Len(t) = Len(s)
      BY <1>1, <2>2, <2>3, <3>1
    <3> QED
      BY <2>3, <3>2 DEF Content
  <2> QED
    <3>1. At(i, k) => k = g.walked + 1
      BY <1>1 DEF At
    <3>2. At(i, k) \/ g.walked >= k => transfers'[i].walked >= k
      BY <1>1, <2>1, <3>1
    <3>3. Opened(i, k)' => Opened(i, k)
      BY <1>1, <2>1, <2>2 DEF Opened, At
    <3>4. Holds(i, k, s, t) => Holds(i, k, s, t)'
      BY <2>2, <2>3, <3>2 DEF Holds
    <3> QED
      BY <3>3, <3>4
<1>12. CASE Finish(i)
  <2>1. /\ transfers'[i].pc = "over" /\ transfers'[i].walked = g.walked
        /\ jobs[i].status = "in_progress" /\ g.pc = "next"
    BY <1>1, <1>12, FinishEffect DEF Goroutine, Finish, JobOK
  <2> QED
    BY <2>1 DEF Holds, Opened, At
<1>13. CASE Fail(i)
  <2>1. /\ transfers'[i].pc = "over" /\ transfers'[i].walked = g.walked
        /\ jobs'[i].status = "failed"
    BY <1>1, <1>13, FailEffect DEF Goroutine, Updated
  <2> QED
    BY <2>1 DEF Holds, Opened, At
<1> QED
  BY <1>2, <1>3, <1>4, <1>5, <1>6, <1>7, <1>8, <1>9, <1>10, <1>11, <1>12, <1>13 DEF Step

\* A right block written into a target leaves it no longer than the source,
\* no shorter than it was, and right wherever it was right before.
LEMMA WrittenRight ==
    ASSUME NEW s \in Content, NEW t \in Content, Len(t) <= Len(s),
           NEW c \in Nat, c < Len(s)
    PROVE  LET new == Written(t, c + 1, s[c + 1])
           IN  /\ Len(new) <= Len(s) /\ Len(t) <= Len(new) /\ c + 1 <= Len(new)
               /\ new[c + 1] = s[c + 1]
               /\ \A p \in 1..Len(t) : t[p] = s[p] => new[p] = s[p]
               /\ t = s => new = s
<1> DEFINE n == IF c + 1 > Len(t) THEN c + 1 ELSE Len(t)
           new == Written(t, c + 1, s[c + 1])
<1>1. n \in Nat /\ n <= Len(s) /\ Len(t) <= n /\ c + 1 <= n
  BY DEF Content
<1>2. new = [j \in 1..n |-> CASE j = c + 1 -> s[c + 1]
                              [] j # c + 1 /\ j <= Len(t) -> t[j]
                              [] OTHER -> Hole]
  BY DEF Written
<1> HIDE DEF new
<1>3. Len(new) = n
  BY <1>1, <1>2
<1>4. new[c + 1] = s[c + 1]
  BY <1>1, <1>2
<1>5. \A p \in 1..Len(t) : p # c + 1 => new[p] = t[p]
  BY <1>1, <1>2
<1>6. \A p \in 1..Len(t) : t[p] = s[p] => new[p] = s[p]
  BY <1>4, <1>5
<1>7. t = s => new = s
  <2> SUFFICES ASSUME t = s PROVE new = s
    OBVIOUS
  <2>1. n = Len(s) /\ \A p \in 1..n : new[p] = s[p]
    BY <1>4, <1>5 DEF Content
  <2>2. new = [p \in 1..n |-> new[p]] /\ s = [p \in 1..Len(s) |-> s[p]]
    BY <1>2 DEF Content
  <2> QED
    BY <2>1, <2>2
<1> QED
  BY <1>1, <1>3, <1>4, <1>6, <1>7 DEF new

\* A step of a job of the group that makes the copy req.
LEMMA RefilledOwn ==
    ASSUME BridgeTypeOK, GoroutineOK, ReadingOK, RefilledOK, NEW i \in DOMAIN jobs, Step(i),
           NEW req \in Requests, Quiet(req), req.own = <<>>, jobs[i].req = req,
           NEW k \in Present(req), \E j \in Group(req) : Opened(j, k)'
    PROVE  Refilled(disk[req.pairs[k][1]], disk[req.pairs[k][2]], k, req)'
<1> DEFINE g == transfers[i]
           w == g.walked + 1
<1>1. /\ Frame(i) /\ req \in Request /\ Reading(i) /\ JobOK(i) /\ Walk(i) = req.pairs
      /\ g \in Goroutine /\ g.walked \in Nat /\ g.copied \in Nat
  BY StepFrame, JobTypes, Numbers DEF ReadingOK, GoroutineOK, Walk
<1>2. PICK s, t : s = disk[req.pairs[k][1]] /\ t = disk[req.pairs[k][2]]
  OBVIOUS
<1>3. /\ k \in 1..Len(req.pairs) /\ s \in Content /\ Len(s) \in Nat
      /\ req.pairs[k][1] \in Files /\ req.pairs[k][2] \in Files
  BY <1>1, <1>2, SizesType, FilesOf DEF Present, BridgeTypeOK, Content
<1>4. disk'[req.pairs[k][1]] = s
  BY <1>1, <1>2, <1>3, FilesOf, QuietSources
<1>5. /\ DOMAIN jobs' = DOMAIN jobs /\ Group(req)' = Group(req) /\ i \in Group(req)
      /\ \A j \in Group(req) \ {i} : jobs'[j] = jobs[j] /\ transfers'[j] = transfers[j]
  BY <1>1, RequestsKept DEF Group, Frame, JobsStep, TransfersStep
<1>6. \A j \in Group(req) \ {i} : /\ Opened(j, k)' => Opened(j, k)
                                  /\ \A u : Holds(j, k, s, u) => Holds(j, k, s, u)'
  BY <1>5 DEF Opened, Holds, At
<1>7. (\E j \in Group(req) : Opened(j, k)) => Refilled(s, t, k, req)
  BY <1>2 DEF RefilledOK
<1>8. CASE k = w /\ OpenFile(i)
  <2>1. /\ transfers'[i].walked = g.walked /\ transfers'[i].pc = "read"
        /\ transfers'[i].copied = 0
    BY <1>1, <1>8, OpenFileEffect DEF Goroutine
  <2>2. disk'[req.pairs[k][2]] = <<>>
    BY <1>1, <1>3, <1>8 DEF OpenFile, Target, BridgeTypeOK
  <2>3. <<>> # Missing /\ Len(<<>>) <= Len(s)
    <3>1. <<>> \in Content
      BY DEF Content
    <3> QED
      BY <1>3, <3>1, DisksAssumption
  <2>4. Holds(i, k, s, <<>>)'
    BY <1>1, <1>8, <2>1 DEF Holds, At
  <2> QED
    BY <1>4, <1>5, <2>2, <2>3, <2>4 DEF Refilled
<1>9. CASE k = w /\ WriteBlock(i)
  <2>1. /\ transfers'[i].walked = g.walked /\ transfers'[i].pc = "read"
        /\ transfers'[i].copied = g.copied + 1 /\ g.pc = "write"
        /\ jobs[i].status = "in_progress"
    BY <1>1, <1>9, WriteBlockEffect DEF Goroutine, WriteBlock, JobOK
  <2>2. /\ Source(i) = req.pairs[k][1] /\ Target(i) = req.pairs[k][2]
        /\ g.copied < Len(s) /\ g.buf = s[g.copied + 1]
    <3>1. Source(i) = req.pairs[k][1] /\ Target(i) = req.pairs[k][2]
      BY <1>1, <1>9 DEF Source, Target
    <3> QED
      BY <1>1, <1>2, <2>1, <3>1 DEF Reading
  <2>3. Refilled(s, t, k, req)
    <3>1. Opened(i, k)
      BY <1>1, <1>9, <2>1 DEF Opened, At
    <3> QED
      BY <1>5, <1>7, <3>1
  <2>4. t \in Content /\ Len(t) <= Len(s)
    <3>1. Len(t) <= Len(s) /\ t # Missing
      BY <2>3 DEF Refilled
    <3> QED
      BY <1>2, <1>3, <3>1 DEF BridgeTypeOK
  <2>5. PICK u : u = Written(t, g.copied + 1, s[g.copied + 1])
    OBVIOUS
  <2>6. disk'[req.pairs[k][2]] = u
    BY <1>2, <1>3, <1>9, <2>2, <2>5 DEF WriteBlock, BridgeTypeOK
  <2>7. /\ Len(u) <= Len(s) /\ Len(t) <= Len(u) /\ g.copied + 1 <= Len(u)
        /\ u[g.copied + 1] = s[g.copied + 1]
        /\ \A p \in 1..Len(t) : t[p] = s[p] => u[p] = s[p]
        /\ t = s => u = s
    BY <1>1, <1>3, <2>2, <2>4, <2>5, WrittenRight
  <2>8. u # Missing
    <3>1. u \in Content
      <4>1. s[g.copied + 1] \in Blocks \cup {Hole}
        BY <1>1, <1>3, <2>2 DEF Content
      <4> QED
        BY <1>1, <2>4, <2>5, <4>1, WrittenType
    <3> QED
      BY <3>1, DisksAssumption
  <2>9. Len(t) \in Nat /\ Len(u) \in Nat
    <3>1. u \in Content
      BY <1>1, <1>3, <2>6, <2>8 DEF Frame, DiskStep
    <3> QED
      BY <2>4, <3>1 DEF Content
  <2>10. PICK j \in Group(req) : Holds(j, k, s, t)
    BY <2>3 DEF Refilled
  <2>11. transfers[j].copied \in Nat
    BY <2>10, Numbers DEF Group
  <2>12. Holds(j, k, s, u)
    <3>1. CASE jobs[j].status = "failed"
      BY <3>1 DEF Holds
    <3>2. CASE /\ At(j, k) /\ transfers[j].copied <= Len(t)
               /\ \A p \in 1..transfers[j].copied : t[p] = s[p]
      <4>1. transfers[j].copied <= Len(u)
        BY <2>7, <2>9, <2>11, <3>2
      <4>2. \A p \in 1..transfers[j].copied : u[p] = s[p]
        BY <2>7, <2>9, <2>11, <3>2
      <4> QED
        BY <3>2, <4>1, <4>2 DEF Holds
    <3>3. CASE transfers[j].walked >= k /\ t = s
      BY <2>7, <3>3 DEF Holds
    <3> QED
      BY <2>10, <3>1, <3>2, <3>3 DEF Holds
  <2>13. Holds(j, k, s, u)'
    <3>1. CASE j # i
      BY <1>6, <2>12, <3>1
    <3>2. CASE j = i
      <4>1. ~(g.walked >= k)
        BY <1>1, <1>9
      <4>2. \A p \in 1..g.copied : u[p] = s[p]
        BY <2>1, <2>12, <3>2, <4>1 DEF Holds
      <4>3. \A p \in 1..(g.copied + 1) : u[p] = s[p]
        BY <1>1, <2>7, <4>2
      <4>4. At(i, k)'
        BY <1>1, <1>9, <2>1 DEF At
      <4> QED
        BY <2>1, <2>7, <3>2, <4>3, <4>4 DEF Holds
    <3> QED
      BY <3>1, <3>2
  <2> QED
    BY <1>4, <1>5, <2>6, <2>7, <2>8, <2>13 DEF Refilled
<1>10. CASE ~(k = w /\ (OpenFile(i) \/ WriteBlock(i)))
  <2>1. disk'[req.pairs[k][2]] = t
    <3>1. CASE OpenFile(i)
      <4>1. disk' = [disk EXCEPT ![Target(i)] = <<>>] /\ g.walked < Len(Walk(i))
        BY <3>1 DEF OpenFile
      <4> QED
        BY <1>1, <1>2, <1>3, <1>10, <3>1, <4>1, OtherTargets DEF Quiet
    <3>2. CASE WriteBlock(i)
      <4>1. /\ disk' = [disk EXCEPT ![Target(i)] = Written(disk[Target(i)], g.copied + 1, g.buf)]
            /\ g.walked < Len(Walk(i))
        BY <1>1, <3>2 DEF WriteBlock, JobOK
      <4> QED
        BY <1>1, <1>2, <1>3, <1>10, <3>2, <4>1, OtherTargets DEF Quiet
    <3>3. CASE ~(OpenFile(i) \/ WriteBlock(i))
      <4>1. ~CopyFileSucceeds(i)
        BY DEF CopyFileSucceeds, Range
      <4>2. disk' = disk
        BY <3>3, <4>1 DEF Step, NewFsFails, NewFsSucceeds, CopyFileFails, StatSucceeds, Skip,
           ReadBlock, EndOfFile, Finish, Fail
      <4> QED
        BY <1>2, <4>2
    <3> QED
      BY <3>1, <3>2, <3>3
  <2>2. ASSUME t \in Content, Len(t) <= Len(s)
        PROVE  Holds(i, k, s, t) => Holds(i, k, s, t)'
    BY <1>1, <1>2, <1>3, <1>10, <2>2, ClaimKept
  <2>3. Opened(i, k)' => Opened(i, k)
    <3>1. <<>> \in Content /\ Len(<<>>) <= Len(s)
      BY <1>3 DEF Content
    <3> QED
      BY <1>1, <1>2, <1>3, <1>10, <3>1, ClaimKept
  <2>4. Refilled(s, t, k, req)
    BY <1>6, <1>7, <2>3
  <2>5. t \in Content /\ Len(t) <= Len(s) /\ t # Missing
    BY <1>2, <1>3, <2>4 DEF Refilled, BridgeTypeOK
  <2>6. \E j \in Group(req) : Holds(j, k, s, t)'
    BY <1>6, <2>2, <2>4, <2>5 DEF Refilled
  <2> QED
    BY <1>4, <1>5, <2>1, <2>5, <2>6 DEF Refilled
<1> QED
  BY <1>8, <1>9, <1>10

LEMMA PresentKept ==
    ASSUME BridgeTypeOK, NEW req \in Requests, Quiet(req), NEW i \in DOMAIN jobs, Frame(i)
    PROVE  Present(req)' = Present(req)
<1>1. req \in Request
  BY RequestsAssumption
<1>2. \A k \in 1..Len(req.pairs) : disk'[req.pairs[k][1]] = disk[req.pairs[k][1]]
  BY <1>1, FilesOf, QuietSources
<1> QED
  BY <1>2 DEF Present

LEMMA RefilledStep ==
    ASSUME BridgeTypeOK, GoroutineOK, ReadingOK, RefilledOK, NEW i \in DOMAIN jobs, Step(i)
    PROVE  RefilledOK'
<1>1. Frame(i)
  BY StepFrame
<1> SUFFICES ASSUME NEW req \in Requests, Quiet(req)', req.own = <<>>,
                    NEW k \in Present(req)', \E j \in Group(req)' : Opened(j, k)'
             PROVE  Refilled(disk[req.pairs[k][1]], disk[req.pairs[k][2]], k, req)'
  BY DEF RefilledOK
<1>2. Quiet(req) /\ Group(req)' = Group(req)
  BY <1>1, RequestsKept DEF Group
<1>3. k \in Present(req) /\ req \in Request
  BY <1>1, <1>2, PresentKept, RequestsAssumption
<1>4. CASE jobs[i].req = req
  BY <1>2, <1>3, <1>4, RefilledOwn
<1>5. CASE jobs[i].req # req
  <2>1. \A j \in Group(req) : jobs'[j] = jobs[j] /\ transfers'[j] = transfers[j]
    BY <1>1, <1>5 DEF Group, Frame, JobsStep, TransfersStep
  <2>2. /\ disk'[req.pairs[k][1]] = disk[req.pairs[k][1]]
        /\ disk'[req.pairs[k][2]] = disk[req.pairs[k][2]]
    <3>1. Targets(jobs[i].req) \cap Touched(req) = {}
      BY <1>2, <1>5 DEF Quiet
    <3>2. k \in 1..Len(req.pairs)
      BY <1>3 DEF Present
    <3>3. /\ req.pairs[k][1] \in Files /\ req.pairs[k][2] \in Files
          /\ req.pairs[k][1] \in Touched(req) /\ req.pairs[k][2] \in Touched(req)
      BY <1>3, <3>2, FilesOf DEF Touched
    <3> QED
      BY <1>1, <3>1, <3>3 DEF Frame, DiskStep
  <2>3. \E j \in Group(req) : Opened(j, k)
    BY <1>2, <2>1 DEF Opened, At
  <2>4. Refilled(disk[req.pairs[k][1]], disk[req.pairs[k][2]], k, req)
    BY <1>2, <1>3, <2>3 DEF RefilledOK
  <2>5. PICK u, v : u = disk[req.pairs[k][1]] /\ v = disk[req.pairs[k][2]]
    OBVIOUS
  <2>6. \A j \in Group(req) : Holds(j, k, u, v) => Holds(j, k, u, v)'
    BY <2>1 DEF Holds, At
  <2> QED
    BY <1>2, <2>2, <2>4, <2>5, <2>6 DEF Refilled
<1> QED
  BY <1>4, <1>5

LEMMA RefilledGrows ==
    ASSUME BridgeTypeOK, RefilledOK, NEW r \in Requests, Transfer(r)
    PROVE  RefilledOK'
<1> SUFFICES ASSUME NEW req \in Requests, Quiet(req)', req.own = <<>>,
                    NEW k \in Present(req)', \E j \in Group(req)' : Opened(j, k)'
             PROVE  Refilled(disk[req.pairs[k][1]], disk[req.pairs[k][2]], k, req)'
  BY DEF RefilledOK
<1>1. /\ disk' = disk /\ DOMAIN jobs' = DOMAIN jobs \cup {Len(jobs) + 1}
      /\ \A j \in DOMAIN jobs : jobs'[j] = jobs[j] /\ transfers'[j] = transfers[j]
      /\ transfers'[Len(jobs) + 1] = Fresh
  BY TransferEffect
<1>2. Quiet(req) /\ k \in Present(req) /\ k \in Nat /\ k > 0
  BY <1>1, RequestsGrow DEF Present
<1>3. PICK j \in Group(req)' : Opened(j, k)'
  OBVIOUS
<1>4. j \in DOMAIN jobs
  <2>1. ~(transfers'[Len(jobs) + 1].walked >= k) /\ transfers'[Len(jobs) + 1].pc = "try"
    BY <1>1, <1>2 DEF Fresh
  <2>2. j # Len(jobs) + 1
    BY <1>3, <2>1 DEF Opened, At
  <2> QED
    BY <1>1, <2>2 DEF Group
<1>5. j \in Group(req) /\ Opened(j, k)
  BY <1>1, <1>3, <1>4 DEF Group, Opened, At
<1>6. Refilled(disk[req.pairs[k][1]], disk[req.pairs[k][2]], k, req)
  BY <1>2, <1>5 DEF RefilledOK
<1>7. PICK u, v : u = disk[req.pairs[k][1]] /\ v = disk[req.pairs[k][2]]
  OBVIOUS
<1>8. \A l \in Group(req) : l \in Group(req)' /\ (Holds(l, k, u, v) => Holds(l, k, u, v)')
  BY <1>1 DEF Group, Holds, At
<1> QED
  BY <1>1, <1>6, <1>7, <1>8 DEF Refilled

LEMMA CopyingStep ==
    ASSUME BridgeTypeOK, GoroutineOK, ReadingOK, CopyingOK, NEW i \in DOMAIN jobs, Step(i)
    PROVE  CopyingOK'
<1>1. Frame(i)
  BY StepFrame
<1> SUFFICES ASSUME NEW j \in DOMAIN jobs, Undisturbed(j)
             PROVE  Counted(j)' /\ Copied(j)' /\ Shown(j)'
  BY <1>1, RequestsKept DEF CopyingOK
<1>2. CASE j # i
  BY <1>1, <1>2, CopyingOther
<1>3. CASE j = i
  <2>1. Undisturbed(i) /\ Counted(i) /\ Copied(i) /\ Shown(i) /\ Reading(i)
    BY <1>3, UndisturbedQuiet DEF CopyingOK, ReadingOK
  <2>2. CASE NewFsFails(i) \/ NewFsSucceeds(i) \/ CopyFileSucceeds(i) \/ CopyFileFails(i)
    BY <1>3, <2>1, <2>2, CopyingEarly
  <2>3. CASE StatSucceeds(i)
    BY <1>3, <2>1, <2>3, CopyingStat
  <2>4. CASE Skip(i)
    BY <1>3, <2>1, <2>4, CopyingSkip
  <2>5. CASE OpenFile(i)
    BY <1>3, <2>1, <2>5, CopyingOpen
  <2>6. CASE ReadBlock(i)
    BY <1>3, <2>1, <2>6, CopyingRead
  <2>7. CASE WriteBlock(i)
    BY <1>3, <2>1, <2>7, CopyingWrite
  <2>8. CASE EndOfFile(i)
    BY <1>3, <2>1, <2>8, CopyingEnd
  <2>9. CASE Finish(i) \/ Fail(i)
    BY <1>3, <2>1, <2>9, CopyingOver
  <2> QED
    BY <2>2, <2>3, <2>4, <2>5, <2>6, <2>7, <2>8, <2>9 DEF Step
<1> QED
  BY <1>2, <1>3

LEMMA CopyingGrows ==
    ASSUME BridgeTypeOK, CopyingOK, NEW r \in Requests, Transfer(r)
    PROVE  CopyingOK'
<1> SUFFICES ASSUME NEW j \in DOMAIN jobs', Undisturbed(j)'
             PROVE  Counted(j)' /\ Copied(j)' /\ Shown(j)'
  BY DEF CopyingOK
<1>1. /\ disk' = disk /\ DOMAIN jobs' = DOMAIN jobs \cup {Len(jobs) + 1}
  BY TransferEffect
<1>2. CASE j \in DOMAIN jobs
  <2>1. jobs'[j] = jobs[j] /\ transfers'[j] = transfers[j]
    BY <1>2, TransferEffect
  <2>2. Counted(j) /\ Copied(j) /\ Shown(j)
    BY <1>2, RequestsGrow DEF CopyingOK
  <2>3. /\ Walk(j)' = Walk(j) /\ Source(j)' = Source(j) /\ Target(j)' = Target(j)
        /\ Present(jobs[j].req)' = Present(jobs[j].req)
        /\ Sizes(jobs[j].req)' = Sizes(jobs[j].req) /\ Passed(j)' = Passed(j)
    BY <1>1, <2>1 DEF Walk, Source, Target, Present, Sizes, Passed
  <2>4. Counted(j)'
    BY <2>1, <2>2, <2>3 DEF Counted
  <2>5. Copied(j)'
    BY <1>1, <2>1, <2>2, <2>3 DEF Copied, Same
  <2>6. Shown(j)'
    BY <1>1, <2>1, <2>2, <2>3 DEF Shown, Full, Same
  <2> QED
    BY <2>4, <2>5, <2>6
<1>3. CASE j = Len(jobs) + 1
  <2>1. transfers'[j] = Fresh
    BY <1>3, TransferEffect
  <2>2. jobs'[j] = [req |-> r, status |-> "in_progress", bytes |-> 0,
                    total |-> 0, percentage |-> 0]
    BY <1>3, TransferEffect
  <2>3. transfers'[j].pc = "try" /\ transfers'[j].walked = 0 /\ jobs'[j].percentage = 0
    BY <2>1, <2>2 DEF Fresh
  <2> QED
    BY <2>3 DEF Counted, Copied, Shown, Copying
<1> QED
  BY <1>1, <1>2, <1>3

-----------------------------------------------------------------------------
(* The inductive invariant                                                  *)

LEMMA BInvInit == BridgeInit => BInv
<1> SUFFICES ASSUME BridgeInit PROVE BInv
  OBVIOUS
<1>1. DOMAIN jobs = {}
  BY DEF BridgeInit
<1>2. ReadingOK /\ CopyingOK /\ RefilledOK
  BY <1>1 DEF ReadingOK, CopyingOK, RefilledOK, Group
<1> QED
  BY <1>2, TypesInit DEF BInv

LEMMA BInvNext == BInv /\ [BridgeNext]_bridgeVars => BInv'
<1> SUFFICES ASSUME BInv, [BridgeNext]_bridgeVars PROVE BInv'
  OBVIOUS
<1>1. BridgeTypeOK /\ GoroutineOK /\ ReadingOK /\ CopyingOK /\ RefilledOK
  BY DEF BInv
<1>2. BridgeTypeOK' /\ GoroutineOK'
  BY <1>1, TypesNext
<1>3. ASSUME NEW i \in DOMAIN jobs, Step(i)
      PROVE  ReadingOK' /\ CopyingOK' /\ RefilledOK'
  BY <1>1, <1>3, ReadingStep, CopyingStep, RefilledStep
<1>4. ASSUME NEW r \in Requests, Transfer(r)
      PROVE  ReadingOK' /\ CopyingOK' /\ RefilledOK'
  BY <1>1, <1>4, ReadingGrows, CopyingGrows, RefilledGrows
<1>5. ASSUME UNCHANGED bridgeVars
      PROVE  ReadingOK' /\ CopyingOK' /\ RefilledOK'
  <2>1. disk' = disk /\ jobs' = jobs /\ transfers' = transfers
    BY <1>5 DEF bridgeVars
  <2>2. \A req : Quiet(req)' = Quiet(req) /\ Present(req)' = Present(req)
                 /\ Sizes(req)' = Sizes(req) /\ Group(req)' = Group(req)
    BY <2>1 DEF Quiet, Present, Sizes, Group
  <2>3. \A j : Source(j)' = Source(j) /\ Target(j)' = Target(j) /\ Walk(j)' = Walk(j)
    BY <2>1 DEF Source, Target, Walk
  <2>4. ReadingOK'
    BY <1>1, <2>1, <2>2, <2>3 DEF ReadingOK, Reading
  <2>5. CopyingOK'
    <3> SUFFICES ASSUME NEW j \in DOMAIN jobs, Undisturbed(j)'
                 PROVE  Counted(j)' /\ Copied(j)' /\ Shown(j)'
      BY <2>1 DEF CopyingOK
    <3>1. Undisturbed(j)
      BY <2>1 DEF Undisturbed, Disturbs
    <3>2. Counted(j) /\ Copied(j) /\ Shown(j)
      BY <1>1, <3>1 DEF CopyingOK
    <3>3. Counted(j)'
      BY <2>1, <3>2 DEF Counted, Passed, Present, Sizes
    <3>4. Copied(j)'
      BY <2>1, <2>3, <3>2 DEF Copied, Same
    <3>5. Shown(j)'
      BY <2>1, <2>3, <3>2 DEF Shown, Full, Same
    <3> QED
      BY <3>3, <3>4, <3>5
  <2>6. RefilledOK'
    <3>1. \A j, k : Opened(j, k)' = Opened(j, k)
      BY <2>1 DEF Opened, At
    <3>2. \A j, k, u, v : Holds(j, k, u, v)' = Holds(j, k, u, v)
      BY <2>1 DEF Holds, At
    <3> SUFFICES ASSUME NEW req \in Requests, Quiet(req), req.own = <<>>,
                        NEW k \in Present(req), \E j \in Group(req) : Opened(j, k)
                 PROVE  Refilled(disk[req.pairs[k][1]], disk[req.pairs[k][2]], k, req)'
      BY <2>2, <3>1 DEF RefilledOK
    <3>3. Refilled(disk[req.pairs[k][1]], disk[req.pairs[k][2]], k, req)
      BY <1>1 DEF RefilledOK
    <3> QED
      BY <2>1, <2>2, <3>2, <3>3 DEF Refilled
  <2> QED
    BY <2>4, <2>5, <2>6
<1>6. ReadingOK' /\ CopyingOK' /\ RefilledOK'
  BY <1>3, <1>4, <1>5 DEF BridgeNext
<1> QED
  BY <1>2, <1>6 DEF BInv

\* The job table, the goroutines of executeTransfer and the files they copy
\* agree in every reachable state, however their steps interleave.
THEOREM BridgeInvariant == BridgeSpec => []BInv
  BY BInvInit, BInvNext, PTL DEF BridgeSpec

\* A goroutine has returned exactly when its job has settled, and never walks
\* past the last file of its directory.
THEOREM BridgeTypes == BridgeSpec => []BridgeTypeOK
<1>1. BInv => BridgeTypeOK
  BY DEF BInv
<1> QED
  BY <1>1, BridgeInvariant, PTL

-----------------------------------------------------------------------------
(* The properties                                                           *)

\* A job whose files nobody else writes leaves behind it an exact copy of
\* every file that was there, and "completed" means all of them.
THEOREM CopiesAreExact == BridgeSpec => []CopiesExactly
<1>1. BInv => CopiesExactly
  <2> SUFFICES ASSUME BInv, NEW i \in DOMAIN jobs, Undisturbed(i), jobs[i].req.own = <<>>
               PROVE  /\ \A k \in 1..transfers[i].walked :
                            disk[Walk(i)[k][1]] # Missing => Same(Walk(i)[k])
                      /\ transfers[i].pc \in {"read", "write"} =>
                            disk[Target(i)] = SubSeq(disk[Source(i)], 1, transfers[i].copied)
                      /\ jobs[i].status = "completed" => InPlace(i)
    BY DEF CopiesExactly
  <2>1. Copied(i) /\ JobOK(i)
    BY DEF BInv, CopyingOK, GoroutineOK
  <2>2. jobs[i].status = "completed" => transfers[i].walked = Len(Walk(i))
    BY <2>1 DEF JobOK
  <2> QED
    BY <2>1, <2>2 DEF Copied, InPlace
<1> QED
  BY <1>1, BridgeInvariant, PTL

\* However many jobs make the same copy at the same time, each truncating the
\* target the others are filling: when all have completed it is the source.
THEOREM RepeatedCopiesAreOne == BridgeSpec => []RepeatedCopiesAgree
<1>1. BInv => RepeatedCopiesAgree
  <2> SUFFICES ASSUME BInv, NEW i \in DOMAIN jobs, jobs[i].req.own = <<>>, Apart(jobs[i].req),
                      \A j \in DOMAIN jobs : j = i \/ Disturbs(j, i) =>
                         jobs[j].req = jobs[i].req /\ jobs[j].status = "completed",
                      NEW k \in 1..Len(Walk(i)), disk[Walk(i)[k][1]] # Missing
               PROVE  Same(Walk(i)[k])
    BY DEF RepeatedCopiesAgree, InPlace
  <2> DEFINE req == jobs[i].req
  <2>1. BridgeTypeOK /\ GoroutineOK /\ RefilledOK
    BY DEF BInv
  <2>2. req \in Requests /\ req \in Request /\ Walk(i) = req.pairs /\ k \in Present(req)
    BY <2>1, JobTypes DEF Present, Walk
  <2>3. Quiet(req)
    BY DEF Quiet, Disturbs
  <2>4. i \in Group(req) /\ Opened(i, k)
    <3>1. jobs[i].status = "completed"
      OBVIOUS
    <3>2. transfers[i].walked = Len(Walk(i))
      BY <2>1, <3>1 DEF GoroutineOK, JobOK
    <3> QED
      BY <2>1, <3>2, JobTypes DEF Group, Opened
  <2>5. Refilled(disk[req.pairs[k][1]], disk[req.pairs[k][2]], k, req)
    BY <2>1, <2>2, <2>3, <2>4 DEF RefilledOK
  <2>6. PICK j \in Group(req) : Holds(j, k, disk[req.pairs[k][1]], disk[req.pairs[k][2]])
    BY <2>5 DEF Refilled
  <2>7. Disturbs(j, i)
    <3>1. req.pairs[k][2] \in Targets(req)
      BY <2>2, FilesOf
    <3> QED
      BY <2>6, <3>1 DEF Disturbs, Touched, Group
  <2>8. jobs[j].status = "completed" /\ transfers[j].pc = "over"
    <3>1. j \in DOMAIN jobs
      BY <2>6 DEF Group
    <3>2. jobs[j].status = "completed"
      BY <2>7, <3>1
    <3> QED
      BY <2>1, <3>1, <3>2 DEF GoroutineOK, JobOK
  <2>9. disk[req.pairs[k][2]] = disk[req.pairs[k][1]]
    BY <2>6, <2>8 DEF Holds, At
  <2> QED
    BY <2>2, <2>9 DEF Same
<1> QED
  BY <1>1, BridgeInvariant, PTL

\* GetProgress says 100 percent only when every block is in place, of a job
\* that nobody disturbs.
THEOREM FullIsCopied == BridgeSpec => []FullMeansCopied
<1>1. BInv => FullMeansCopied
  <2> SUFFICES ASSUME BInv, NEW i \in DOMAIN jobs, Undisturbed(i), jobs[i].req.own = <<>>,
                      jobs[i].percentage >= 100
               PROVE  Full(i)
    BY DEF FullMeansCopied, Full, GetProgress
  <2>1. /\ BridgeTypeOK /\ JobOK(i) /\ Reading(i) /\ Counted(i) /\ Copied(i) /\ Shown(i)
    BY UndisturbedQuiet DEF BInv, GoroutineOK, ReadingOK, CopyingOK
  <2>2. CASE transfers[i].pc \in {"try", "rclone", "stat"}
    BY <2>1, <2>2 DEF Shown
  <2>3. CASE transfers[i].pc \in Copying
    BY <2>1, <2>3, AllReported
  <2>4. CASE transfers[i].pc = "over"
    BY <2>1, <2>4 DEF Shown
  <2>5. transfers[i].pc \in {"try", "rclone", "stat", "next", "read", "write", "over"}
    BY <2>1, JobTypes DEF Goroutine
  <2> QED
    BY <2>2, <2>3, <2>4, <2>5 DEF Copying
<1> QED
  BY <1>1, BridgeInvariant, PTL

\* A full count is shown as 100.
LEMMA FullPct ==
    ASSUME NEW old \in Nat, NEW n \in Nat
    PROVE  NewPct(old, n, n, "completed") = 100
<1>1. CASE n > 0
  BY <1>1, DivFull DEF NewPct
<1>2. CASE n = 0
  BY <1>2 DEF NewPct
<1> QED
  BY <1>1, <1>2

LEMMA PercentageStep ==
    ASSUME BInv, NEW i \in DOMAIN jobs, Step(i), Undisturbed(i), jobs'[i].status # "failed"
    PROVE  jobs[i].percentage <= jobs'[i].percentage
<1> DEFINE t == transfers[i]
<1>1. /\ BridgeTypeOK /\ JobOK(i) /\ Reading(i) /\ Counted(i) /\ Shown(i)
  BY UndisturbedQuiet DEF BInv, GoroutineOK, ReadingOK, CopyingOK
<1>2. /\ t.before \in Nat /\ t.copied \in Nat /\ t.total \in Nat /\ t.size \in Nat
      /\ jobs[i].percentage \in Nat
  BY <1>1, Numbers
<1>3. jobs'[i].percentage \in Nat
  <2>1. Frame(i)
    BY StepFrame DEF BInv
  <2>2. jobs'[i] \in Progress
    BY <1>1, <2>1 DEF Frame, JobsStep, BridgeTypeOK
  <2> QED
    BY <2>2 DEF Progress
<1>4. CASE t.pc \in {"try", "rclone", "stat"}
  BY <1>1, <1>2, <1>3, <1>4 DEF Shown
<1>5. CASE WriteBlock(i)
  <2>1. t.pc = "write" /\ t.pc \in Copying
    BY <1>5 DEF WriteBlock, Copying
  <2>2. t.before + t.size <= t.total /\ t.copied < t.size
    BY <1>1, <2>1, Room DEF Reading
  <2>3. t.total > 0
    BY <1>2, <2>2
  <2>4. jobs[i].percentage <= (100 * (t.before + t.copied)) \div t.total
    BY <1>1, <2>1, <2>3 DEF Shown, Pct
  <2>5. jobs'[i].percentage = (100 * (t.before + t.copied + 1)) \div t.total
    BY <1>1, <1>5, <2>3, WriteBlockEffect DEF Updated, Reported, NewPct
  <2>6. PICK a \in Nat, b \in Nat, n \in Nat :
          /\ a = 100 * (t.before + t.copied) /\ b = 100 * (t.before + t.copied + 1)
          /\ n = t.total
    BY <1>2
  <2>7. a <= b
    BY <1>2, <2>6
  <2>8. a \div n <= b \div n /\ a \div n \in Nat
    BY <2>3, <2>6, <2>7, DivMono, DivType
  <2> QED
    BY <1>2, <1>3, <2>4, <2>5, <2>6, <2>8
<1>6. CASE Finish(i)
  <2>1. t.pc \in Copying
    BY <1>6 DEF Finish, Copying
  <2>2. jobs'[i].percentage = 100
    <3>1. PICK n \in {100, t.total} : Updated(jobs[i], jobs'[i], n, n, "completed")
      BY <1>1, <1>6, FinishEffect
    <3>2. jobs'[i].percentage = NewPct(jobs[i].percentage, n, n, "completed")
      BY <3>1 DEF Updated
    <3>3. n \in Nat
      BY <1>2
    <3> QED
      BY <1>2, <3>2, <3>3, FullPct
  <2>3. jobs[i].percentage <= Pct(t.before + t.copied, t.total)
    BY <1>1, <2>1 DEF Shown
  <2>4. PICK b \in Nat, n \in Nat : b = t.before + t.copied /\ n = t.total
    BY <1>2
  <2>5. b <= n
    BY <1>1, <2>1, <2>4, Room
  <2>6. Pct(b, n) \in Nat /\ Pct(b, n) <= 100
    BY <2>5, DivFull, DivType DEF Pct
  <2> QED
    BY <1>2, <2>2, <2>3, <2>4, <2>6
<1>7. CASE Skip(i) \/ OpenFile(i) \/ ReadBlock(i) \/ EndOfFile(i)
  <2>1. jobs' = jobs
    BY <1>7 DEF Skip, OpenFile, ReadBlock, EndOfFile
  <2> QED
    BY <1>2, <2>1
<1>8. CASE Fail(i)
  BY <1>1, <1>8, FailEffect DEF Updated
<1> QED
  BY <1>4, <1>5, <1>6, <1>7, <1>8
  DEF Step, NewFsFails, NewFsSucceeds, CopyFileSucceeds, CopyFileFails, StatSucceeds

\* No step makes the percentage of a job fall, from rclone's attempt to the
\* local copy and from file to file, unless the job fails or is disturbed.
THEOREM PercentagesRise == BridgeSpec => PercentageRises
<1> DEFINE Rises == \A i \in DOMAIN jobs :
                       Undisturbed(i) /\ jobs'[i].status # "failed" =>
                           jobs[i].percentage <= jobs'[i].percentage
<1>1. BInv /\ [BridgeNext]_bridgeVars => [Rises]_bridgeVars
  <2> SUFFICES ASSUME BInv, BridgeNext, NEW i \in DOMAIN jobs, Undisturbed(i),
                      jobs'[i].status # "failed"
               PROVE  jobs[i].percentage <= jobs'[i].percentage
    OBVIOUS
  <2>0. BridgeTypeOK /\ GoroutineOK /\ jobs[i].percentage \in Nat
    BY Numbers DEF BInv
  <2>1. ASSUME NEW j \in DOMAIN jobs, Step(j)
        PROVE  jobs[i].percentage <= jobs'[i].percentage
    <3>1. CASE j = i
      BY <2>1, <3>1, PercentageStep
    <3>2. CASE j # i
      <4>1. jobs'[i] = jobs[i]
        BY <2>0, <2>1, <3>2, StepFrame DEF Frame, JobsStep
      <4> QED
        BY <2>0, <4>1
    <3> QED
      BY <3>1, <3>2
  <2>2. ASSUME NEW req \in Requests, Transfer(req)
        PROVE  jobs[i].percentage <= jobs'[i].percentage
    <3>1. jobs'[i] = jobs[i]
      BY <2>0, <2>2, TransferEffect
    <3> QED
      BY <2>0, <3>1
  <2> QED
    BY <2>1, <2>2 DEF BridgeNext
<1> QED
  BY <1>1, BridgeInvariant, PTL DEF BridgeSpec, PercentageRises

-----------------------------------------------------------------------------
(* The bridge as a JobTable                                                 *)

LEMMA StepStatus ==
    ASSUME BridgeTypeOK, GoroutineOK, NEW i \in DOMAIN jobs, Step(i)
    PROVE  /\ jobs[i].status = "in_progress"
           /\ jobs'[i].status = "failed" => jobs'[i].bytes = 0
<1>1. JobOK(i)
  BY DEF GoroutineOK
<1>2. jobs[i].status = "in_progress"
  BY <1>1 DEF JobOK, Step, NewFsFails, NewFsSucceeds, CopyFileSucceeds, CopyFileFails,
              StatSucceeds, Skip, OpenFile, ReadBlock, WriteBlock, EndOfFile, Finish, Fail
<1>3. CASE NewFsFails(i)
  BY <1>2, <1>3, NewFsFailsEffect DEF Updated
<1>4. CASE NewFsSucceeds(i)
  BY <1>2, <1>4, NewFsSucceedsEffect DEF Updated
<1>5. CASE CopyFileSucceeds(i)
  BY <1>2, <1>5, CopyFileSucceedsEffect DEF Updated
<1>6. CASE CopyFileFails(i)
  BY <1>2, <1>6, CopyFileFailsEffect DEF Updated
<1>7. CASE StatSucceeds(i)
  BY <1>2, <1>7, StatSucceedsEffect DEF Updated
<1>8. CASE Skip(i)
  BY <1>2, <1>8, SkipEffect DEF Updated
<1>9. CASE OpenFile(i)
  BY <1>2, <1>9, OpenFileEffect DEF Updated
<1>10. CASE ReadBlock(i)
  BY <1>2, <1>10, ReadBlockEffect DEF Updated
<1>11. CASE WriteBlock(i)
  BY <1>2, <1>11, WriteBlockEffect DEF Updated
<1>12. CASE EndOfFile(i)
  BY <1>2, <1>12, EndOfFileEffect DEF Updated
<1>13. CASE Finish(i)
  BY <1>2, <1>13, FinishEffect DEF Updated
<1>14. CASE Fail(i)
  BY <1>2, <1>14, FailEffect DEF Updated
<1> QED
  BY <1>2, <1>3, <1>4, <1>5, <1>6, <1>7, <1>8, <1>9, <1>10, <1>11, <1>12, <1>13, <1>14 DEF Step

\* A job as the engine sees it.
Visible(job) == [req |-> job.req, status |-> job.status,
                 bytes |-> IF job.status = "in_progress" THEN 0 ELSE job.bytes]
JobsSeen == [i \in 1..Len(jobs) |-> Visible(jobs[i])]

AnyTable == INSTANCE JobTable WITH JobBytes <- Nat, jobs <- JobsSeen

\* Bridge.Transfer, its goroutines and GetProgress keep the promises that the
\* proofs about SyncEngine take from the bridge, with any byte counts.
THEOREM BridgeIsJobTable == BridgeSpec => AnyTable!JobSpec
<1>1. BridgeInit => AnyTable!JobInit
  BY DEF BridgeInit, AnyTable!JobInit, JobsSeen
<1>2. BInv /\ [BridgeNext]_bridgeVars => [AnyTable!JobNext]_JobsSeen
  <2> SUFFICES ASSUME BInv, BridgeNext, JobsSeen' # JobsSeen PROVE AnyTable!JobNext
    BY DEF bridgeVars, JobsSeen, Visible
  <2>0. BridgeTypeOK /\ GoroutineOK /\ DOMAIN jobs = 1..Len(jobs) /\ Len(jobs) \in Nat
    BY DEF BInv, BridgeTypeOK
  <2>1. ASSUME NEW i \in DOMAIN jobs, Step(i)
        PROVE  AnyTable!JobNext
    <3>1. /\ Frame(i) /\ Len(jobs') = Len(jobs) /\ jobs'[i].req = jobs[i].req
          /\ \A j \in 1..Len(jobs) : j # i => Visible(jobs'[j]) = Visible(jobs[j])
      BY <2>0, <2>1, StepFrame DEF Frame, JobsStep
    <3>2. JobsSeen' = [JobsSeen EXCEPT ![i] = Visible(jobs'[i])]
      BY <2>0, <3>1 DEF JobsSeen
    <3>3. JobsSeen[i] = Visible(jobs[i]) /\ DOMAIN JobsSeen = 1..Len(jobs)
      BY <2>0 DEF JobsSeen
    <3>4. Visible(jobs'[i]) # Visible(jobs[i])
      <4>1. Visible(jobs'[i]) = Visible(jobs[i]) => JobsSeen' = JobsSeen
        BY <3>2, <3>3 DEF JobsSeen
      <4> QED
        BY <4>1
    <3>5. JobOK(i) /\ JobOK(i)'
      BY <2>0, <2>1, OwnJobOK DEF GoroutineOK
    <3>6. /\ jobs[i].status = "in_progress"
          /\ jobs'[i].status = "failed" => jobs'[i].bytes = 0
      BY <2>0, <2>1, StepStatus
    <3>7. jobs'[i].status \in Statuses /\ jobs'[i].bytes \in Nat
      <4>1. jobs'[i] \in Progress
        BY <2>0, <3>1 DEF Frame, JobsStep
      <4> QED
        BY <4>1 DEF Progress, Statuses
    <3>8. JobsSeen[i] = [req |-> jobs[i].req, status |-> "in_progress", bytes |-> 0]
      BY <3>3, <3>6 DEF Visible
    <3>9. Visible(jobs'[i]) = [req |-> jobs[i].req, status |-> jobs'[i].status,
                               bytes |-> IF jobs'[i].status = "in_progress" THEN 0
                                         ELSE jobs'[i].bytes]
      BY <3>1 DEF Visible
    <3>10. CASE jobs'[i].status = "in_progress"
      BY <3>3, <3>4, <3>8, <3>9, <3>10
    <3>11. CASE jobs'[i].status = "completed"
      <4>1. PICK b \in Nat : b = jobs'[i].bytes
        BY <3>7
      <4>2. Visible(jobs'[i]) = [req |-> jobs[i].req, status |-> "completed", bytes |-> b]
        BY <3>9, <3>11, <4>1
      <4>3. [JobsSeen[i] EXCEPT !.status = "completed", !.bytes = b]
              = [req |-> jobs[i].req, status |-> "completed", bytes |-> b]
        <5>1. PICK x : x = [JobsSeen[i] EXCEPT !.status = "completed", !.bytes = b]
          OBVIOUS
        <5>2. x.req = jobs[i].req /\ x.status = "completed" /\ x.bytes = b
          BY <3>8, <5>1
        <5>3. x = [f \in {"req", "status", "bytes"} |-> x[f]]
          BY <3>8, <5>1
        <5>4. x = [req |-> jobs[i].req, status |-> "completed", bytes |-> b]
          BY <5>2, <5>3
        <5> QED
          BY <5>1, <5>4
      <4>4. JobsSeen' = [JobsSeen EXCEPT
                          ![i] = [JobsSeen[i] EXCEPT !.status = "completed", !.bytes = b]]
        BY <3>2, <4>2, <4>3
      <4>5. AnyTable!Complete(i)
        <5>1. JobsSeen[i].status = "in_progress"
          BY <3>8
        <5> QED
          BY <4>1, <4>4, <5>1 DEF AnyTable!Complete
      <4> QED
        BY <2>0, <2>1, <3>3, <4>5 DEF AnyTable!JobNext, AnyTable!Settle
    <3>12. CASE jobs'[i].status = "failed"
      <4>1. Visible(jobs'[i]) = [JobsSeen[i] EXCEPT !.status = "failed"]
        BY <3>6, <3>8, <3>9, <3>12
      <4>2. AnyTable!Fail(i)
        BY <3>2, <3>8, <4>1 DEF AnyTable!Fail
      <4> QED
        BY <2>0, <2>1, <3>3, <4>2 DEF AnyTable!JobNext, AnyTable!Settle
    <3> QED
      BY <3>7, <3>10, <3>11, <3>12 DEF Statuses
  <2>2. ASSUME NEW req \in Requests, Transfer(req)
        PROVE  AnyTable!JobNext
    <3> DEFINE n == Len(jobs) + 1
               job == [req |-> req, status |-> "in_progress", bytes |-> 0]
    <3>1. /\ Len(jobs') = n /\ \A j \in 1..Len(jobs) : jobs'[j] = jobs[j]
          /\ jobs'[n] = [req |-> req, status |-> "in_progress", bytes |-> 0,
                         total |-> 0, percentage |-> 0]
      BY <2>0, <2>2, TransferEffect
    <3>2. Visible(jobs'[n]) = job
      BY <3>1 DEF Visible
    <3>3. JobsSeen' = [j \in 1..n |-> Visible(jobs'[j])]
      BY <3>1 DEF JobsSeen
    <3>4. Append(JobsSeen, job) = [j \in 1..n |-> IF j = n THEN job ELSE Visible(jobs[j])]
      <4>1. /\ JobsSeen = [j \in 1..Len(jobs) |-> Visible(jobs[j])]
            /\ Len(JobsSeen) = Len(jobs)
        BY <2>0 DEF JobsSeen
      <4> HIDE DEF job
      <4> QED
        BY <2>0, <4>1
    <3>5. \A j \in 1..n : j = n \/ j \in 1..Len(jobs)
      BY <2>0
    <3>6. JobsSeen' = Append(JobsSeen, job)
      <4> HIDE DEF job
      <4> QED
        BY <3>1, <3>2, <3>3, <3>4, <3>5
    <3> QED
      BY <3>6 DEF AnyTable!JobNext, AnyTable!Transfer
  <2> QED
    BY <2>1, <2>2 DEF BridgeNext
<1> QED
  BY <1>1, <1>2, BridgeInvariant, PTL DEF BridgeSpec, AnyTable!JobSpec
=============================================================================
