--------------------------- MODULE SyncFilesProofs ---------------------------
(***************************************************************************)
(* Proofs that no sync costs the last edit of a file (NewestSurvives) and   *)
(* that a task leaves both sides alike (SyncAgrees), for any number of      *)
(* paths, edits, tasks and copies.                                          *)
(*                                                                         *)
(* As long as no mishap has happened the files are Calm: one task at most   *)
(* is past its first listing, what it has listed and decided still holds,   *)
(* its copies go from a side that has the last edit and write to different  *)
(* files, and of two edits of a file the last one has the later time.       *)
(* For the second, every path of a task that has decided is accounted for:  *)
(* the sides agree, its copy is still to start, or it has not completed.    *)
(***************************************************************************)
EXTENDS SyncFiles, TLAPS

\* The side has the last edit of the file.
Whole(side, p) == files[side][p] # Absent /\ files[side][p].edit = newest[p]

SourceSide(action) == IF action \in Uploads THEN "local" ELSE "remote"

Working(t) == syncs[t].pc \in {"remote", "exec", "wait"}
Deciding(t) == syncs[t].pc \in {"exec", "wait"}

\* What holds of the files whatever happens.
FilesSound ==
    /\ \A side \in Sides, p \in Paths : files[side][p] # Absent =>
          /\ files[side][p].edit <= newest[p]
          /\ files[side][p].time <= clock
    /\ \A c \in DOMAIN copies : copies[c].pc = "write" => SourceOf(c) # Absent

OneAtWork == \A t, u \in DOMAIN syncs : Working(t) /\ Working(u) => t = u

\* Between its two listings a task is alone, and the first one is still true.
ListingHolds ==
    \A t \in DOMAIN syncs : syncs[t].pc = "remote" =>
        /\ syncs[t].seen = ListingOf("local")
        /\ \A c \in DOMAIN copies : ~Running(c)
        /\ \A p \in Paths : files["local"][p] = Absent \/ files["local"][p].edit # 0

DecisionsHold ==
    \A t \in DOMAIN syncs : Deciding(t) =>
        \A p \in Paths : syncs[t].todo[p] # "none" => Whole(SourceSide(syncs[t].todo[p]), p)

\* A task waits for the copy of an item it still has, and all other copies
\* under way are of items it has no more.
ItemsApart ==
    \A t \in DOMAIN syncs :
        /\ syncs[t].pc = "wait" =>
             LET copy == copies[syncs[t].copy] IN
             /\ syncs[t].todo[copy.path] # "none"
             /\ copy.from = SourceSide(syncs[t].todo[copy.path])
        /\ Deciding(t) => \A c \in DOMAIN copies :
             Running(c) /\ ~(syncs[t].pc = "wait" /\ c = syncs[t].copy) =>
                 syncs[t].todo[copies[c].path] = "none"

CopiesApart ==
    \A c, d \in DOMAIN copies :
        Running(c) /\ Running(d) /\ copies[c].path = copies[d].path => c = d

SourcesWhole ==
    \A c \in DOMAIN copies : Running(c) => Whole(copies[c].from, copies[c].path)

\* Of two different edits, the last one is not the older file.
LastIsLatest ==
    \A side \in Sides, p \in Paths :
        /\ files[side][p] # Absent /\ files[side][p].edit = newest[p]
        /\ files[Other(side)][p] # Absent
        /\ files[Other(side)][p].edit \notin {0, newest[p]}
        => files[side][p].time >= files[Other(side)][p].time

Calm ==
    /\ OneAtWork
    /\ ListingHolds
    /\ DecisionsHold
    /\ ItemsApart
    /\ CopiesApart
    /\ SourcesWhole
    /\ LastIsLatest
    /\ \A p \in Paths : Survives(p)

FilesInv ==
    /\ FilesTypeOK
    /\ FilesSound
    /\ mishaps = {} => Calm

USE PathsAssumption, AbsentAssumption, FileAssumption

-----------------------------------------------------------------------------
(* What the actions do to the variables                                    *)

LEMMA SidesFacts ==
    /\ Sides = {"local", "remote"}
    /\ \A side \in Sides : Other(side) \in Sides /\ Other(side) # side
                           /\ Other(Other(side)) = side
    /\ \A s, side \in Sides : s # side => s = Other(side)
    /\ \A action : SourceSide(action) \in Sides
  BY DEF Sides, Other, SourceSide

LEMMA SyncsAfter ==
    ASSUME FilesTypeOK, NEW t \in DOMAIN syncs, NEW sync \in SyncState,
           syncs' = [syncs EXCEPT ![t] = sync]
    PROVE  /\ syncs' \in Seq(SyncState)
           /\ DOMAIN syncs' = DOMAIN syncs
           /\ syncs'[t] = sync
           /\ \A u \in DOMAIN syncs : u # t => syncs'[u] = syncs[u]
  BY DEF FilesTypeOK

LEMMA CopyMoved ==
    ASSUME NEW copy \in CopyState, NEW pc \in {"open", "write", "completed", "failed"}
    PROVE  LET moved == [copy EXCEPT !.pc = pc] IN
           /\ moved \in CopyState
           /\ moved.pc = pc /\ moved.task = copy.task
           /\ moved.path = copy.path /\ moved.from = copy.from
  BY DEF CopyState

\* The elements of the two sequences and of the file table.
LEMMA Typed ==
    ASSUME FilesTypeOK
    PROVE  /\ \A t \in DOMAIN syncs : syncs[t] \in SyncState
           /\ \A c \in DOMAIN copies : /\ copies[c] \in CopyState
                                       /\ copies[c].from \in Sides
                                       /\ copies[c].path \in Paths
           /\ \A side \in Sides, p \in Paths : files[side][p] # Absent =>
                files[side][p] \in File
           /\ \A p \in Paths : newest[p] \in Nat
  <1>1. /\ \A t \in DOMAIN syncs : syncs[t] \in SyncState
        /\ \A c \in DOMAIN copies : copies[c] \in CopyState
    BY DEF FilesTypeOK
  <1>2. \A copy \in CopyState : copy.from \in Sides /\ copy.path \in Paths
    BY DEF CopyState
  <1>3. \A side \in Sides, p \in Paths : files[side][p] # Absent => files[side][p] \in File
    BY DEF FilesTypeOK
  <1>4. \A p \in Paths : newest[p] \in Nat
    BY DEF FilesTypeOK
  <1> QED
    BY <1>1, <1>2, <1>3, <1>4

LEMMA CopiesAfter ==
    ASSUME FilesTypeOK, NEW c \in DOMAIN copies,
           NEW pc \in {"open", "write", "completed", "failed"},
           copies' = [copies EXCEPT ![c].pc = pc]
    PROVE  /\ copies' \in Seq(CopyState)
           /\ DOMAIN copies' = DOMAIN copies
           /\ copies'[c].pc = pc
           /\ \A d \in DOMAIN copies : /\ d # c => copies'[d].pc = copies[d].pc
                                       /\ copies'[d].path = copies[d].path
                                       /\ copies'[d].from = copies[d].from
                                       /\ copies'[d].task = copies[d].task
  <1> DEFINE moved == [copies[c] EXCEPT !.pc = pc]
  <1>1. copies \in Seq(CopyState) /\ copies[c] \in CopyState
    BY Typed DEF FilesTypeOK
  <1>2. /\ moved \in CopyState
        /\ moved.pc = pc /\ moved.task = copies[c].task
        /\ moved.path = copies[c].path /\ moved.from = copies[c].from
    BY <1>1, CopyMoved
  <1>3. copies' = [copies EXCEPT ![c] = moved]
    OBVIOUS
  <1> HIDE DEF moved
  <1>4. /\ copies' \in Seq(CopyState) /\ DOMAIN copies' = DOMAIN copies
        /\ copies'[c] = moved
        /\ \A d \in DOMAIN copies : d # c => copies'[d] = copies[d]
    BY <1>1, <1>2, <1>3
  <1> QED
    BY <1>2, <1>4

LEMMA InfoTyped ==
    ASSUME FilesTypeOK, NEW side \in Sides
    PROVE  /\ ListingOf(side) \in Listing
           /\ EmptyListing \in Listing
           /\ \A p \in Paths : ListingOf(side)[p] = Info(files[side][p])
           /\ \A p \in Paths : Info(files[side][p]) = Absent <=> files[side][p] = Absent
           /\ \A p \in Paths : files[side][p] # Absent =>
                Info(files[side][p]) = [size |-> files[side][p].size, isDir |-> FALSE,
                                        modTime |-> files[side][p].time]
  <1>1. \A p \in Paths : files[side][p] # Absent =>
           [size |-> files[side][p].size, isDir |-> FALSE,
            modTime |-> files[side][p].time] \in FileInfo
    BY Typed DEF File, FileInfo
  <1>2. \A p \in Paths : Info(files[side][p]) \in Entry
    BY <1>1 DEF Info, Entry
  <1>3. ListingOf(side) \in Listing /\ EmptyListing \in Listing
    BY <1>2 DEF ListingOf, EmptyListing, Listing, Entry
  <1>4. \A p \in Paths : ListingOf(side)[p] = Info(files[side][p])
    BY DEF ListingOf
  <1>5. \A p \in Paths : Info(files[side][p]) = Absent <=> files[side][p] = Absent
    BY <1>1 DEF Info
  <1> QED
    BY <1>3, <1>4, <1>5 DEF Info

LEMMA ListsInto ==
    ASSUME FilesTypeOK, NEW t \in DOMAIN syncs, ListLocal(t)
    PROVE  \E listing \in {ListingOf("local"), EmptyListing}, sync \in SyncState :
              /\ ListSide(t, "local", listing)
              /\ syncs' = [syncs EXCEPT ![t] = sync]
              /\ sync.pc = "remote" /\ sync.seen = listing
  <1>1. PICK listing \in {ListingOf("local"), EmptyListing} :
           /\ ListSide(t, "local", listing)
           /\ syncs' = [syncs EXCEPT ![t] =
                          [@ EXCEPT !.pc = "remote", !.seen = listing]]
    BY DEF ListLocal
  <1>2. listing \in Listing
    BY InfoTyped DEF Sides
  <1> DEFINE sync == [syncs[t] EXCEPT !.pc = "remote", !.seen = listing]
  <1>3. \A old \in SyncState :
           LET new == [old EXCEPT !.pc = "remote", !.seen = listing]
           IN  new \in SyncState /\ new.pc = "remote" /\ new.seen = listing
    BY <1>2 DEF SyncState
  <1>4. sync \in SyncState /\ sync.pc = "remote" /\ sync.seen = listing
    BY <1>3, Typed
  <1>5. syncs' = [syncs EXCEPT ![t] = sync]
    BY <1>1
  <1> QED
    BY <1>1, <1>4, <1>5

LEMMA ActionsTyped == \A loc, rem : DiffAction(loc, rem, NewestWins) \in Actions
  BY DEF DiffAction, CompareBoth, NewestAction, Actions, Transfers, Uploads, Downloads,
         NewestWins, AskUser

LEMMA DecidesInto ==
    ASSUME FilesTypeOK, NEW t \in DOMAIN syncs, ListRemote(t)
    PROVE  \E listing \in {ListingOf("remote"), EmptyListing}, sync \in SyncState :
              /\ ListSide(t, "remote", listing)
              /\ syncs' = [syncs EXCEPT ![t] = sync]
              /\ sync.pc = "exec" /\ sync.todo = Decisions(syncs[t].seen, listing)
  <1>1. PICK listing \in {ListingOf("remote"), EmptyListing} :
           /\ ListSide(t, "remote", listing)
           /\ syncs' = [syncs EXCEPT ![t] =
                          [@ EXCEPT !.pc = "exec", !.seen = EmptyListing,
                                    !.todo = Decisions(syncs[t].seen, listing)]]
    BY DEF ListRemote
  <1> DEFINE todo == Decisions(syncs[t].seen, listing)
  <1>2. todo \in [Paths -> Actions]
    BY ActionsTyped DEF Decisions, Actions
  <1>3. EmptyListing \in Listing
    BY DEF EmptyListing, Listing, Entry
  <1> HIDE DEF todo
  <1> DEFINE sync == [syncs[t] EXCEPT !.pc = "exec", !.seen = EmptyListing, !.todo = todo]
  <1>4. \A old \in SyncState :
           LET new == [old EXCEPT !.pc = "exec", !.seen = EmptyListing, !.todo = todo]
           IN  new \in SyncState /\ new.pc = "exec" /\ new.todo = todo
    BY <1>2, <1>3 DEF SyncState
  <1>5. sync \in SyncState /\ sync.pc = "exec" /\ sync.todo = todo
    BY <1>4, Typed
  <1>6. syncs' = [syncs EXCEPT ![t] = sync]
    BY <1>1 DEF todo
  <1> QED
    BY <1>1, <1>5, <1>6 DEF todo

LEMMA StartsInto ==
    ASSUME FilesTypeOK, NEW t \in DOMAIN syncs, NEW p \in Paths, StartCopy(t, p)
    PROVE  /\ \E sync \in SyncState :
                /\ syncs' = [syncs EXCEPT ![t] = sync]
                /\ sync.pc = "wait" /\ sync.todo = syncs[t].todo
                /\ sync.copy = Len(copies) + 1
           /\ copies' \in Seq(CopyState)
           /\ DOMAIN copies' = DOMAIN copies \cup {Len(copies) + 1}
           /\ Len(copies) + 1 \notin DOMAIN copies
           /\ \A c \in DOMAIN copies : copies'[c] = copies[c]
           /\ copies'[Len(copies) + 1] = [pc |-> "open", task |-> t, path |-> p,
                                          from |-> SourceSide(syncs[t].todo[p])]
  <1> DEFINE copy == [pc |-> "open", task |-> t, path |-> p,
                      from |-> SourceSide(syncs[t].todo[p])]
  <1> DEFINE sync == [syncs[t] EXCEPT !.pc = "wait", !.copy = Len(copies) + 1]
  <1>1. copies \in Seq(CopyState) /\ Len(copies) + 1 \in Nat /\ t \in Nat
    BY DEF FilesTypeOK
  <1>2. copy \in CopyState
    BY <1>1, SidesFacts DEF CopyState
  <1>3. copies' = Append(copies, copy)
    BY DEF StartCopy, SourceSide
  <1>4. \A old \in SyncState, n \in Nat :
           LET new == [old EXCEPT !.pc = "wait", !.copy = n]
           IN  new \in SyncState /\ new.pc = "wait" /\ new.todo = old.todo /\ new.copy = n
    BY DEF SyncState
  <1>5. sync \in SyncState /\ sync.pc = "wait" /\ sync.todo = syncs[t].todo
        /\ sync.copy = Len(copies) + 1
    BY <1>1, <1>4, Typed
  <1>6. syncs' = [syncs EXCEPT ![t] = sync]
    BY DEF StartCopy
  <1> HIDE DEF copy, sync
  <1>7. /\ copies' \in Seq(CopyState)
        /\ DOMAIN copies' = DOMAIN copies \cup {Len(copies) + 1}
        /\ Len(copies) + 1 \notin DOMAIN copies
        /\ \A c \in DOMAIN copies : copies'[c] = copies[c]
        /\ copies'[Len(copies) + 1] = copy
    BY <1>1, <1>2, <1>3
  <1> QED
    BY <1>5, <1>6, <1>7 DEF copy

LEMMA WaitsInto ==
    ASSUME FilesTypeOK, NEW t \in DOMAIN syncs, WaitBridgeJob(t)
    PROVE  \E sync \in SyncState :
              /\ syncs' = [syncs EXCEPT ![t] = sync]
              /\ sync.pc = "exec"
              /\ sync.todo[copies[syncs[t].copy].path] = "none"
              /\ \A p \in Paths : p # copies[syncs[t].copy].path =>
                    sync.todo[p] = syncs[t].todo[p]
  <1> DEFINE path == copies[syncs[t].copy].path
  <1> DEFINE sync == [syncs[t] EXCEPT !.pc = "exec", !.copy = 0,
                        !.todo[path] = "none"]
  <1>1. path \in Paths
    BY Typed DEF FilesTypeOK, WaitBridgeJob
  <1>2. syncs' = [syncs EXCEPT ![t] = sync]
    BY DEF WaitBridgeJob
  <1> HIDE DEF path
  <1>3. ASSUME NEW old \in SyncState
        PROVE  LET new == [old EXCEPT !.pc = "exec", !.copy = 0,
                             !.todo[path] = "none"]
               IN  /\ new \in SyncState /\ new.pc = "exec"
                   /\ new.todo[path] = "none"
                   /\ \A p \in Paths : p # path => new.todo[p] = old.todo[p]
    <2> DEFINE todo == [old.todo EXCEPT ![path] = "none"]
    <2>1. old.todo \in [Paths -> Actions]
      BY DEF SyncState
    <2>2. /\ todo \in [Paths -> Actions] /\ todo[path] = "none"
          /\ \A p \in Paths : p # path => todo[p] = old.todo[p]
      BY <1>1, <2>1 DEF Actions
    <2> HIDE DEF todo
    <2> DEFINE new == [old EXCEPT !.pc = "exec", !.copy = 0, !.todo = todo]
    <2>3. new \in SyncState /\ new.pc = "exec" /\ new.todo = todo
      BY <2>2 DEF SyncState
    <2>4. new = [old EXCEPT !.pc = "exec", !.copy = 0, !.todo[path] = "none"]
      BY DEF todo
    <2> QED
      BY <2>2, <2>3, <2>4
  <1>4. /\ sync \in SyncState /\ sync.pc = "exec" /\ sync.todo[path] = "none"
        /\ \A p \in Paths : p # path => sync.todo[p] = syncs[t].todo[p]
    BY <1>3, Typed
  <1> HIDE DEF sync
  <1> QED
    BY <1>2, <1>4 DEF path

LEMMA FinishesInto ==
    ASSUME FilesTypeOK, NEW t \in DOMAIN syncs, FinishSync(t)
    PROVE  \E sync \in SyncState :
              syncs' = [syncs EXCEPT ![t] = sync] /\ sync.pc = "over"
  <1> DEFINE sync == [syncs[t] EXCEPT !.pc = "over"]
  <1>1. syncs' = [syncs EXCEPT ![t] = sync]
    BY DEF FinishSync
  <1>2. \A old \in SyncState :
           LET new == [old EXCEPT !.pc = "over"] IN new \in SyncState /\ new.pc = "over"
    BY DEF SyncState
  <1>3. sync \in SyncState /\ sync.pc = "over"
    BY <1>2, Typed
  <1> QED
    BY <1>1, <1>3

LEMMA SyncAppends ==
    ASSUME FilesTypeOK, Sync
    PROVE  /\ syncs' \in Seq(SyncState)
           /\ DOMAIN syncs' = DOMAIN syncs \cup {Len(syncs) + 1}
           /\ \A u \in DOMAIN syncs : syncs'[u] = syncs[u]
           /\ syncs'[Len(syncs) + 1].pc = "local"
  <1> DEFINE sync == [pc |-> "local", seen |-> EmptyListing, todo |-> NothingToDo, copy |-> 0]
  <1>1. sync \in SyncState /\ sync.pc = "local"
    BY DEF SyncState, EmptyListing, Listing, Entry, NothingToDo, Actions
  <1>2. syncs' = Append(syncs, sync) /\ syncs \in Seq(SyncState)
    BY DEF Sync, FilesTypeOK
  <1> HIDE DEF sync
  <1> QED
    BY <1>1, <1>2

-----------------------------------------------------------------------------
(* Types, and what holds of the files whatever happens                     *)

LEMMA InitCorrect == FilesInit => FilesInv
  <1> SUFFICES ASSUME FilesInit PROVE FilesInv
    OBVIOUS
  <1> USE DEF FilesInit
  <1>1. FilesTypeOK
    BY DEF FilesTypeOK, EmptyListing, Mishaps
  <1>2. \A side \in Sides, p \in Paths : files[side][p] = Absent
    BY DEF EmptyListing
  <1>3. FilesSound
    BY <1>2 DEF FilesSound
  <1>4. /\ OneAtWork /\ ListingHolds /\ DecisionsHold /\ ItemsApart
        /\ CopiesApart /\ SourcesWhole
    BY DEF OneAtWork, ListingHolds, DecisionsHold, ItemsApart, CopiesApart, SourcesWhole
  <1>5. LastIsLatest
    BY <1>2 DEF LastIsLatest
  <1>6. \A p \in Paths : Survives(p)
    BY DEF Survives
  <1> QED
    BY <1>1, <1>3, <1>4, <1>5, <1>6 DEF FilesInv, Calm

\* A step that leaves files, edits and copies alone, and replaces one task.
LEMMA TaskStepTyped ==
    ASSUME FilesTypeOK, NEW t \in DOMAIN syncs, NEW sync \in SyncState,
           syncs' = [syncs EXCEPT ![t] = sync], sync.pc # "wait",
           UNCHANGED <<clock, files, newest, copies>>, mishaps' \subseteq Mishaps
    PROVE  FilesTypeOK'
  BY SyncsAfter DEF FilesTypeOK

\* A step that leaves edits and tasks alone, and moves one copy.
LEMMA CopyStepTyped ==
    ASSUME FilesTypeOK, NEW c \in DOMAIN copies,
           NEW pc \in {"open", "write", "completed", "failed"}, CopyGoes(c, pc),
           files' \in [Sides -> [Paths -> File \cup {Absent}]]
    PROVE  FilesTypeOK'
  <1>1. /\ copies' \in Seq(CopyState) /\ DOMAIN copies' = DOMAIN copies
        /\ \A d \in DOMAIN copies : copies'[d].task = copies[d].task
    BY CopiesAfter DEF CopyGoes
  <1>2. UNCHANGED <<clock, newest, syncs, mishaps>>
    BY DEF CopyGoes
  <1> QED
    BY <1>1, <1>2 DEF FilesTypeOK

LEMMA FileMade ==
    ASSUME FilesTypeOK
    PROVE  /\ Partial(clock) \in File /\ Partial(clock).edit = 0
           /\ Partial(clock).time = clock
           /\ \A file \in File :
                LET copied == [file EXCEPT !.time = clock] IN
                copied \in File /\ copied.edit = file.edit /\ copied.time = clock
  BY DEF FilesTypeOK, File, Partial

LEMMA EditMakes ==
    ASSUME FilesTypeOK, NEW side \in Sides, NEW p \in Paths, NEW size \in Sizes,
           Edit(side, p, size)
    PROVE  /\ files' \in [Sides -> [Paths -> File \cup {Absent}]]
           /\ files'[side][p] # Absent
           /\ files'[side][p].edit = newest[p] + 1
           /\ files'[side][p].time = clock
           /\ \A s \in Sides, q \in Paths : s # side \/ q # p => files'[s][q] = files[s][q]
           /\ newest' \in [Paths -> Nat]
           /\ newest'[p] = newest[p] + 1
           /\ \A q \in Paths : q # p => newest'[q] = newest[q]
  <1> DEFINE file == [edit |-> newest[p] + 1, size |-> size, time |-> clock]
  <1>1. newest[p] \in Nat /\ size \in Nat /\ clock \in Nat
    BY SizesAssumption DEF FilesTypeOK
  <1>2. file \in File /\ file # Absent
    BY <1>1 DEF File
  <1>3. files' = [files EXCEPT ![side][p] = file]
    BY DEF Edit
  <1>4. newest' = [newest EXCEPT ![p] = newest[p] + 1] /\ newest \in [Paths -> Nat]
    BY DEF Edit, FilesTypeOK
  <1>5. /\ newest' \in [Paths -> Nat]
        /\ newest'[p] = newest[p] + 1
        /\ \A q \in Paths : q # p => newest'[q] = newest[q]
    BY <1>1, <1>4
  <1>6. file.edit = newest[p] + 1 /\ file.time = clock
    OBVIOUS
  <1> HIDE DEF file
  <1>7. /\ files' \in [Sides -> [Paths -> File \cup {Absent}]]
        /\ files'[side][p] = file
        /\ \A s \in Sides, q \in Paths : s # side \/ q # p => files'[s][q] = files[s][q]
    BY <1>2, <1>3 DEF FilesTypeOK
  <1> QED
    BY <1>2, <1>5, <1>6, <1>7

LEMMA DeleteMakes ==
    ASSUME FilesTypeOK, NEW side \in Sides, NEW p \in Paths, Delete(side, p)
    PROVE  /\ files' \in [Sides -> [Paths -> File \cup {Absent}]]
           /\ files'[side][p] = Absent
           /\ \A s \in Sides, q \in Paths : s # side \/ q # p => files'[s][q] = files[s][q]
           /\ newest' \in [Paths -> Nat]
           /\ newest'[p] = IF files[Other(side)][p] = Absent THEN 0
                           ELSE files[Other(side)][p].edit
           /\ \A q \in Paths : q # p => newest'[q] = newest[q]
  <1> DEFINE left == IF files[Other(side)][p] = Absent THEN 0
                     ELSE files[Other(side)][p].edit
  <1>1. files[Other(side)][p] # Absent => files[Other(side)][p] \in File
    BY Typed, SidesFacts
  <1>2. \A file \in File : file.edit \in Nat
    BY DEF File
  <1>3. left \in Nat
    BY <1>1, <1>2
  <1>4. newest' = [newest EXCEPT ![p] = left] /\ newest \in [Paths -> Nat]
    BY DEF Delete, FilesTypeOK
  <1> HIDE DEF left
  <1>5. /\ newest' \in [Paths -> Nat]
        /\ newest'[p] = left
        /\ \A q \in Paths : q # p => newest'[q] = newest[q]
    BY <1>3, <1>4
  <1>6. files' = [files EXCEPT ![side][p] = Absent]
    BY DEF Delete
  <1>7. /\ files' \in [Sides -> [Paths -> File \cup {Absent}]]
        /\ files'[side][p] = Absent
        /\ \A s \in Sides, q \in Paths : s # side \/ q # p => files'[s][q] = files[s][q]
    BY <1>6 DEF FilesTypeOK
  <1> QED
    BY <1>5, <1>7 DEF left

LEMMA MishapsTyped ==
    ASSUME FilesTypeOK,
           \/ Noted("edited", Busy)
           \/ \E t \in DOMAIN syncs, side \in Sides : \E listing : ListSide(t, side, listing)
    PROVE  mishaps' \subseteq Mishaps /\ (mishaps' = {} => mishaps = {})
  BY DEF FilesTypeOK, Mishaps, Noted, ListSide

\* What a copy makes of its target.
LEMMA OpenMakes ==
    ASSUME FilesTypeOK, NEW c \in DOMAIN copies, OpenCopy(c)
    PROVE  LET target == Other(copies[c].from)
               path   == copies[c].path
           IN  /\ files' \in [Sides -> [Paths -> File \cup {Absent}]]
               /\ files'[target][path] # Absent
               /\ files'[target][path].edit = 0
               /\ files'[target][path].time = clock
               /\ \A s \in Sides, q \in Paths : s # target \/ q # path =>
                     files'[s][q] = files[s][q]
  <1> DEFINE target == Other(copies[c].from)
             path   == copies[c].path
             file   == Partial(clock)
  <1>1. target \in Sides /\ path \in Paths
    BY Typed, SidesFacts
  <1>2. files' = [files EXCEPT ![target][path] = file]
    BY DEF OpenCopy, Put
  <1>3. file \in File /\ file.edit = 0 /\ file.time = clock
    BY FileMade
  <1> HIDE DEF target, path, file
  <1>4. /\ files' \in [Sides -> [Paths -> File \cup {Absent}]]
        /\ files'[target][path] = file
        /\ \A s \in Sides, q \in Paths : s # target \/ q # path =>
              files'[s][q] = files[s][q]
    BY <1>1, <1>2, <1>3 DEF FilesTypeOK
  <1> QED
    BY <1>3, <1>4 DEF target, path

LEMMA WriteMakes ==
    ASSUME FilesTypeOK, FilesSound, NEW c \in DOMAIN copies, WriteCopy(c)
    PROVE  LET target == Other(copies[c].from)
               path   == copies[c].path
           IN  /\ files' \in [Sides -> [Paths -> File \cup {Absent}]]
               /\ SourceOf(c) # Absent
               /\ files'[target][path] # Absent
               /\ files'[target][path].edit = SourceOf(c).edit
               /\ files'[target][path].time = clock
               /\ \A s \in Sides, q \in Paths : s # target \/ q # path =>
                     files'[s][q] = files[s][q]
  <1> DEFINE target == Other(copies[c].from)
             path   == copies[c].path
             file   == [SourceOf(c) EXCEPT !.time = clock]
  <1>1. copies[c].from \in Sides /\ target \in Sides /\ path \in Paths
    BY Typed, SidesFacts
  <1>2. SourceOf(c) # Absent
    BY DEF WriteCopy, FilesSound
  <1>3. SourceOf(c) \in File
    BY <1>1, <1>2, Typed DEF SourceOf
  <1>4. file \in File /\ file.edit = SourceOf(c).edit /\ file.time = clock
    BY <1>3, FileMade
  <1>5. files' = [files EXCEPT ![target][path] = file]
    BY DEF WriteCopy, Put
  <1> HIDE DEF target, path, file
  <1>6. /\ files' \in [Sides -> [Paths -> File \cup {Absent}]]
        /\ files'[target][path] = file
        /\ \A s \in Sides, q \in Paths : s # target \/ q # path =>
              files'[s][q] = files[s][q]
    BY <1>1, <1>4, <1>5 DEF FilesTypeOK
  <1> QED
    BY <1>2, <1>4, <1>6 DEF target, path

\* A step that changes neither the files nor the copies.
LEMMA SoundUnchanged ==
    ASSUME FilesTypeOK, FilesSound, UNCHANGED <<files, newest, copies>>,
           clock' \in {clock, clock + 1}
    PROVE  FilesSound'
  <1>1. \A file \in File : file.time \in Nat
    BY DEF File
  <1>2. clock \in Nat
    BY DEF FilesTypeOK
  <1>3. \A side \in Sides, p \in Paths : files[side][p] # Absent =>
           files[side][p].time <= clock'
    BY <1>1, <1>2, Typed DEF FilesSound
  <1> QED
    BY <1>3 DEF FilesSound, SourceOf

LEMMA TaskStepSound ==
    ASSUME FilesTypeOK, FilesSound, NEW t \in DOMAIN syncs, SyncStep(t)
    PROVE  FilesTypeOK' /\ FilesSound'
  <1>1. CASE ListLocal(t)
    <2>1. UNCHANGED <<clock, files, newest, copies>>
      BY <1>1 DEF ListLocal
    <2>2. PICK listing \in {ListingOf("local"), EmptyListing}, sync \in SyncState :
             /\ ListSide(t, "local", listing)
             /\ syncs' = [syncs EXCEPT ![t] = sync]
             /\ sync.pc = "remote" /\ sync.seen = listing
      BY <1>1, ListsInto
    <2>3. mishaps' \subseteq Mishaps
      BY <2>2, MishapsTyped, SidesFacts
    <2> QED
      BY <2>1, <2>2, <2>3, TaskStepTyped, SoundUnchanged
  <1>2. CASE ListRemote(t)
    <2>1. UNCHANGED <<clock, files, newest, copies>>
      BY <1>2 DEF ListRemote
    <2>2. PICK listing \in {ListingOf("remote"), EmptyListing}, sync \in SyncState :
             /\ ListSide(t, "remote", listing)
             /\ syncs' = [syncs EXCEPT ![t] = sync]
             /\ sync.pc = "exec"
      BY <1>2, DecidesInto
    <2>3. mishaps' \subseteq Mishaps
      BY <2>2, MishapsTyped, SidesFacts
    <2> QED
      BY <2>1, <2>2, <2>3, TaskStepTyped, SoundUnchanged
  <1>3. CASE WaitBridgeJob(t)
    <2>1. UNCHANGED <<clock, files, newest, copies, mishaps>>
      BY <1>3 DEF WaitBridgeJob
    <2>2. PICK sync \in SyncState : syncs' = [syncs EXCEPT ![t] = sync] /\ sync.pc = "exec"
      BY <1>3, WaitsInto
    <2>3. mishaps' \subseteq Mishaps
      BY <2>1 DEF FilesTypeOK
    <2> QED
      BY <2>1, <2>2, <2>3, TaskStepTyped, SoundUnchanged
  <1>4. CASE FinishSync(t)
    <2>1. UNCHANGED <<clock, files, newest, copies, mishaps>>
      BY <1>4 DEF FinishSync
    <2>2. PICK sync \in SyncState : syncs' = [syncs EXCEPT ![t] = sync] /\ sync.pc = "over"
      BY <1>4, FinishesInto
    <2>3. mishaps' \subseteq Mishaps
      BY <2>1 DEF FilesTypeOK
    <2> QED
      BY <2>1, <2>2, <2>3, TaskStepTyped, SoundUnchanged
  <1>5. ASSUME NEW p \in Paths, StartCopy(t, p)
        PROVE  FilesTypeOK' /\ FilesSound'
    <2>1. UNCHANGED <<clock, files, newest, mishaps>>
      BY <1>5 DEF StartCopy
    <2>2. PICK sync \in SyncState :
             /\ syncs' = [syncs EXCEPT ![t] = sync]
             /\ sync.pc = "wait" /\ sync.copy = Len(copies) + 1
      BY <1>5, StartsInto
    <2>3. /\ syncs' \in Seq(SyncState)
          /\ DOMAIN syncs' = DOMAIN syncs
          /\ syncs'[t] = sync
          /\ \A u \in DOMAIN syncs : u # t => syncs'[u] = syncs[u]
      BY <2>2, SyncsAfter
    <2>4. /\ copies' \in Seq(CopyState)
          /\ DOMAIN copies' = DOMAIN copies \cup {Len(copies) + 1}
          /\ \A c \in DOMAIN copies : copies'[c] = copies[c]
          /\ copies'[Len(copies) + 1] = [pc |-> "open", task |-> t, path |-> p,
                                         from |-> SourceSide(syncs[t].todo[p])]
      BY <1>5, StartsInto
    <2>5. copies'[Len(copies) + 1].task = t /\ copies'[Len(copies) + 1].pc = "open"
      BY <2>4
    <2>6. \A u \in DOMAIN syncs' : syncs'[u].pc = "wait" =>
             syncs'[u].copy \in DOMAIN copies' /\ copies'[syncs'[u].copy].task = u
      BY <2>2, <2>3, <2>4, <2>5 DEF FilesTypeOK
    <2>7. FilesTypeOK'
      BY <2>1, <2>3, <2>4, <2>6 DEF FilesTypeOK
    <2>8. \A c \in DOMAIN copies' : copies'[c].pc = "write" =>
             c \in DOMAIN copies /\ copies'[c] = copies[c]
      BY <2>4, <2>5
    <2>9. FilesSound'
      BY <2>1, <2>8 DEF FilesSound, SourceOf
    <2> QED
      BY <2>7, <2>9
  <1> QED
    BY <1>1, <1>2, <1>3, <1>4, <1>5 DEF SyncStep

LEMMA CopyStepSound ==
    ASSUME FilesTypeOK, FilesSound, NEW c \in DOMAIN copies, CopyStep(c)
    PROVE  FilesTypeOK' /\ FilesSound'
  <1> DEFINE target == Other(copies[c].from)
             path   == copies[c].path
  <1>0. /\ copies[c].from \in Sides /\ target \in Sides /\ path \in Paths
        /\ target # copies[c].from
    BY Typed, SidesFacts
  <1>a. \A p \in Paths : newest[p] >= 0
    BY Typed
  <1>1. CASE OpenCopy(c)
    <2>1. CopyGoes(c, "write") /\ SourceOf(c) # Absent
      BY <1>1 DEF OpenCopy
    <2>2. /\ files' \in [Sides -> [Paths -> File \cup {Absent}]]
          /\ files'[target][path] # Absent
          /\ files'[target][path].edit = 0
          /\ files'[target][path].time = clock
          /\ \A s \in Sides, q \in Paths : s # target \/ q # path => files'[s][q] = files[s][q]
      BY <1>1, OpenMakes
    <2>3. FilesTypeOK'
      BY <2>1, <2>2, CopyStepTyped
    <2>4. /\ UNCHANGED <<clock, newest>> /\ clock \in Nat
          /\ DOMAIN copies' = DOMAIN copies
          /\ \A d \in DOMAIN copies : /\ d # c => copies'[d].pc = copies[d].pc
                                      /\ copies'[d].path = copies[d].path
                                      /\ copies'[d].from = copies[d].from
      BY <2>1, CopiesAfter DEF CopyGoes, FilesTypeOK
    <2> HIDE DEF target, path
    <2>5. \A s \in Sides, p \in Paths : files'[s][p] # Absent =>
             files'[s][p].edit <= newest'[p] /\ files'[s][p].time <= clock'
      <3> SUFFICES ASSUME NEW s \in Sides, NEW p \in Paths, files'[s][p] # Absent
                   PROVE  files'[s][p].edit <= newest'[p] /\ files'[s][p].time <= clock'
        OBVIOUS
      <3>1. CASE s = target /\ p = path
        BY <1>a, <2>2, <2>4, <3>1
      <3>2. CASE ~(s = target /\ p = path)
        BY <2>2, <2>4, <3>2 DEF FilesSound
      <3> QED
        BY <3>1, <3>2
    <2>6. \A d \in DOMAIN copies' : copies'[d].pc = "write" =>
             files'[copies'[d].from][copies'[d].path] # Absent
      <3> SUFFICES ASSUME NEW d \in DOMAIN copies, copies'[d].pc = "write"
                   PROVE  files'[copies[d].from][copies[d].path] # Absent
        BY <2>4
      <3>1. files[copies[d].from][copies[d].path] # Absent
        BY <2>1, <2>4 DEF FilesSound, SourceOf
      <3>2. copies[d].from \in Sides /\ copies[d].path \in Paths
        BY Typed
      <3> QED
        BY <2>2, <3>1, <3>2
    <2> QED
      BY <2>3, <2>5, <2>6 DEF FilesSound, SourceOf
  <1>2. CASE WriteCopy(c)
    <2>1. CopyGoes(c, "completed")
      BY <1>2 DEF WriteCopy
    <2>2. /\ files' \in [Sides -> [Paths -> File \cup {Absent}]]
          /\ SourceOf(c) # Absent
          /\ files'[target][path] # Absent
          /\ files'[target][path].edit = SourceOf(c).edit
          /\ files'[target][path].time = clock
          /\ \A s \in Sides, q \in Paths : s # target \/ q # path => files'[s][q] = files[s][q]
      BY <1>2, WriteMakes
    <2>3. FilesTypeOK'
      BY <2>1, <2>2, CopyStepTyped
    <2>4. /\ UNCHANGED <<clock, newest>> /\ clock \in Nat
          /\ DOMAIN copies' = DOMAIN copies
          /\ copies'[c].pc = "completed"
          /\ \A d \in DOMAIN copies : /\ d # c => copies'[d].pc = copies[d].pc
                                      /\ copies'[d].path = copies[d].path
                                      /\ copies'[d].from = copies[d].from
      BY <2>1, CopiesAfter DEF CopyGoes, FilesTypeOK
    <2>7. SourceOf(c).edit <= newest[path]
      BY <1>0, <2>2 DEF FilesSound, SourceOf
    <2> HIDE DEF target, path
    <2>5. \A s \in Sides, p \in Paths : files'[s][p] # Absent =>
             files'[s][p].edit <= newest'[p] /\ files'[s][p].time <= clock'
      <3> SUFFICES ASSUME NEW s \in Sides, NEW p \in Paths, files'[s][p] # Absent
                   PROVE  files'[s][p].edit <= newest'[p] /\ files'[s][p].time <= clock'
        OBVIOUS
      <3>1. CASE s = target /\ p = path
        BY <2>2, <2>4, <2>7, <3>1
      <3>2. CASE ~(s = target /\ p = path)
        BY <2>2, <2>4, <3>2 DEF FilesSound
      <3> QED
        BY <3>1, <3>2
    <2>6. \A d \in DOMAIN copies' : copies'[d].pc = "write" =>
             files'[copies'[d].from][copies'[d].path] # Absent
      <3> SUFFICES ASSUME NEW d \in DOMAIN copies, copies'[d].pc = "write"
                   PROVE  files'[copies[d].from][copies[d].path] # Absent
        BY <2>4
      <3>1. files[copies[d].from][copies[d].path] # Absent
        BY <2>4 DEF FilesSound, SourceOf
      <3>2. copies[d].from \in Sides /\ copies[d].path \in Paths
        BY Typed
      <3> QED
        BY <2>2, <3>1, <3>2
    <2> QED
      BY <2>3, <2>5, <2>6 DEF FilesSound, SourceOf
  <1>3. CASE FailCopy(c)
    <2>1. CopyGoes(c, "failed") /\ UNCHANGED files
      BY <1>3 DEF FailCopy
    <2>2. FilesTypeOK'
      BY <2>1, CopyStepTyped DEF FilesTypeOK
    <2>3. /\ UNCHANGED <<clock, newest>>
          /\ DOMAIN copies' = DOMAIN copies
          /\ copies'[c].pc = "failed"
          /\ \A d \in DOMAIN copies : /\ d # c => copies'[d].pc = copies[d].pc
                                      /\ copies'[d].path = copies[d].path
                                      /\ copies'[d].from = copies[d].from
      BY <2>1, CopiesAfter DEF CopyGoes
    <2>4. FilesSound'
      BY <2>1, <2>3 DEF FilesSound, SourceOf
    <2> QED
      BY <2>2, <2>4
  <1> QED
    BY <1>1, <1>2, <1>3 DEF CopyStep

LEMMA UserStepSound ==
    ASSUME FilesTypeOK, FilesSound, NEW side \in Sides, NEW p \in Paths,
           Delete(side, p) \/ \E size \in Sizes : Edit(side, p, size)
    PROVE  FilesTypeOK' /\ FilesSound'
  <1>1. UNCHANGED <<clock, syncs, copies>> /\ Noted("edited", Busy)
    BY DEF Delete, Edit
  <1>2. mishaps' \subseteq Mishaps /\ clock \in Nat
    BY <1>1, MishapsTyped DEF FilesTypeOK
  <1>3. \A file \in File : file.edit \in Nat /\ file.time \in Nat
    BY DEF File
  <1>4. CASE Delete(side, p)
    <2>1. /\ files' \in [Sides -> [Paths -> File \cup {Absent}]]
          /\ files'[side][p] = Absent
          /\ \A s \in Sides, q \in Paths : s # side \/ q # p => files'[s][q] = files[s][q]
          /\ newest' \in [Paths -> Nat]
          /\ newest'[p] = IF files[Other(side)][p] = Absent THEN 0
                          ELSE files[Other(side)][p].edit
          /\ \A q \in Paths : q # p => newest'[q] = newest[q]
      BY <1>4, DeleteMakes
    <2>2. FilesTypeOK'
      BY <1>1, <1>2, <2>1 DEF FilesTypeOK
    <2>3. ASSUME NEW s \in Sides, NEW q \in Paths, files'[s][q] # Absent
          PROVE  files'[s][q].edit <= newest'[q] /\ files'[s][q].time <= clock'
      <3>1. files'[s][q] = files[s][q] /\ ~(s = side /\ q = p)
        BY <2>1, <2>3
      <3>2. files[s][q] \in File
        BY <2>3, <3>1, Typed
      <3>3. CASE q = p
        <4>1. s = Other(side)
          BY <3>1, <3>3, SidesFacts
        <4>2. newest'[p] = files[s][q].edit
          BY <2>1, <2>3, <3>1, <3>3, <4>1
        <4>3. files[s][q].edit \in Nat /\ files[s][q].time <= clock
          BY <1>3, <2>3, <3>1, <3>2 DEF FilesSound
        <4>4. files[s][q].edit <= newest'[q]
          BY <3>3, <4>2, <4>3
        <4> QED
          BY <1>1, <3>1, <4>3, <4>4
      <3>4. CASE q # p
        BY <1>1, <2>1, <2>3, <3>1, <3>4 DEF FilesSound
      <3> QED
        BY <3>3, <3>4
    <2>4. \A c \in DOMAIN copies : copies[c].pc = "write" =>
             files'[copies[c].from][copies[c].path] # Absent
      <3> SUFFICES ASSUME NEW c \in DOMAIN copies, copies[c].pc = "write"
                   PROVE  files'[copies[c].from][copies[c].path] # Absent
        OBVIOUS
      <3>1. copies[c].path # p
        BY <1>4 DEF Delete, Running
      <3>2. copies[c].from \in Sides /\ copies[c].path \in Paths
        BY Typed
      <3> QED
        BY <2>1, <3>1, <3>2 DEF FilesSound, SourceOf
    <2> QED
      BY <1>1, <2>2, <2>3, <2>4 DEF FilesSound, SourceOf
  <1>5. ASSUME NEW size \in Sizes, Edit(side, p, size)
        PROVE  FilesTypeOK' /\ FilesSound'
    <2>1. /\ files' \in [Sides -> [Paths -> File \cup {Absent}]]
          /\ files'[side][p] # Absent
          /\ files'[side][p].edit = newest[p] + 1
          /\ files'[side][p].time = clock
          /\ \A s \in Sides, q \in Paths : s # side \/ q # p => files'[s][q] = files[s][q]
          /\ newest' \in [Paths -> Nat]
          /\ newest'[p] = newest[p] + 1
          /\ \A q \in Paths : q # p => newest'[q] = newest[q]
      BY <1>5, EditMakes
    <2>2. FilesTypeOK'
      BY <1>1, <1>2, <2>1 DEF FilesTypeOK
    <2>3. ASSUME NEW s \in Sides, NEW q \in Paths, files'[s][q] # Absent
          PROVE  files'[s][q].edit <= newest'[q] /\ files'[s][q].time <= clock'
      <3>1. CASE s = side /\ q = p
        <4>0. newest[p] \in Nat
          BY Typed
        <4>1. newest[p] + 1 <= newest[p] + 1 /\ clock <= clock
          BY <1>2, <4>0
        <4>2. files'[s][q].edit = newest[p] + 1 /\ newest'[q] = newest[p] + 1
          BY <2>1, <3>1, Zenon
        <4>3. files'[s][q].time = clock /\ clock' = clock
          BY <1>1, <2>1, <3>1, Zenon
        <4> QED
          BY <4>1, <4>2, <4>3, Zenon
      <3>2. CASE ~(s = side /\ q = p)
        <4>1. files'[s][q] = files[s][q] /\ files[s][q] \in File /\ newest[q] \in Nat
          BY <2>1, <2>3, <3>2, Typed
        <4>2. newest[q] <= newest'[q]
          BY <2>1, <4>1
        <4>3. files[s][q].edit <= newest[q] /\ files[s][q].time <= clock
          BY <2>3, <4>1 DEF FilesSound
        <4>4. newest'[q] \in Nat /\ files[s][q].edit \in Nat
          BY <1>3, <2>1, <4>1
        <4> QED
          BY <1>1, <4>1, <4>2, <4>3, <4>4
      <3> QED
        BY <3>1, <3>2
    <2>4. \A c \in DOMAIN copies : copies[c].pc = "write" =>
             files'[copies[c].from][copies[c].path] # Absent
      BY <2>1, Typed DEF FilesSound, SourceOf
    <2> QED
      BY <1>1, <2>2, <2>3, <2>4 DEF FilesSound, SourceOf
  <1> QED
    BY <1>4, <1>5

-----------------------------------------------------------------------------
(* Without a mishap the files stay calm                                    *)

LEMMA CalmUnchanged ==
    ASSUME Calm, UNCHANGED <<files, newest, syncs, copies>>
    PROVE  Calm'
  BY DEF Calm, OneAtWork, ListingHolds, DecisionsHold, ItemsApart, CopiesApart,
         SourcesWhole, LastIsLatest, Survives, Working, Deciding, Running, Whole, ListingOf

\* The part of Calm that is about the files alone.
LEMMA FilesCalmUnchanged ==
    ASSUME Calm, UNCHANGED <<files, newest>>
    PROVE  LastIsLatest' /\ \A p \in Paths : Survives(p)'
  BY DEF Calm, LastIsLatest, Survives

LEMMA UserStepCalm ==
    ASSUME FilesTypeOK, FilesSound, Calm, mishaps' = {},
           NEW side \in Sides, NEW p \in Paths,
           Delete(side, p) \/ \E size \in Sizes : Edit(side, p, size)
    PROVE  Calm'
  <1>1. UNCHANGED <<clock, syncs, copies>> /\ Noted("edited", Busy)
    BY DEF Delete, Edit
  <1>2. /\ \A t \in DOMAIN syncs : syncs[t].pc = "over"
        /\ \A c \in DOMAIN copies : ~Running(c)
    BY <1>1 DEF Noted, Busy
  <1>3. /\ \A t \in DOMAIN syncs' : syncs'[t].pc = "over"
        /\ \A c \in DOMAIN copies' : ~Running(c)'
    BY <1>1, <1>2 DEF Running
  <1>4. /\ OneAtWork' /\ ListingHolds' /\ DecisionsHold' /\ ItemsApart'
        /\ CopiesApart' /\ SourcesWhole'
    BY <1>3 DEF OneAtWork, ListingHolds, DecisionsHold, ItemsApart, CopiesApart,
                SourcesWhole, Working, Deciding
  <1>5. Other(side) \in Sides /\ Other(side) # side /\ Other(Other(side)) = side
        /\ \A s \in Sides : s = side \/ s = Other(side)
    BY SidesFacts
  <1>6. CASE Delete(side, p)
    <2>1. /\ files'[side][p] = Absent
          /\ \A s \in Sides, q \in Paths : s # side \/ q # p => files'[s][q] = files[s][q]
          /\ newest'[p] = IF files[Other(side)][p] = Absent THEN 0
                          ELSE files[Other(side)][p].edit
          /\ \A q \in Paths : q # p => newest'[q] = newest[q]
      BY <1>6, DeleteMakes
    <2>2. LastIsLatest'
      <3> SUFFICES ASSUME NEW s \in Sides, NEW q \in Paths,
                          files'[s][q] # Absent, files'[s][q].edit = newest'[q],
                          files'[Other(s)][q] # Absent,
                          files'[Other(s)][q].edit \notin {0, newest'[q]}
                   PROVE  files'[s][q].time >= files'[Other(s)][q].time
        BY DEF LastIsLatest
      <3>1. q # p
        BY <1>5, <2>1
      <3>2. /\ files'[s][q] = files[s][q] /\ files'[Other(s)][q] = files[Other(s)][q]
            /\ newest'[q] = newest[q]
        BY <2>1, <3>1, SidesFacts
      <3> QED
        BY <3>2 DEF Calm, LastIsLatest
    <2>3. \A q \in Paths : Survives(q)'
      <3> SUFFICES ASSUME NEW q \in Paths PROVE Survives(q)'
        OBVIOUS
      <3>1. CASE q = p
        BY <1>5, <2>1, <3>1 DEF Survives
      <3>2. CASE q # p
        BY <2>1, <3>2 DEF Calm, Survives
      <3> QED
        BY <3>1, <3>2
    <2> QED
      BY <1>4, <2>2, <2>3 DEF Calm
  <1>7. ASSUME NEW size \in Sizes, Edit(side, p, size)
        PROVE  Calm'
    <2>1. /\ files'[side][p] # Absent
          /\ files'[side][p].edit = newest[p] + 1
          /\ files'[side][p].time = clock
          /\ \A s \in Sides, q \in Paths : s # side \/ q # p => files'[s][q] = files[s][q]
          /\ newest'[p] = newest[p] + 1
          /\ \A q \in Paths : q # p => newest'[q] = newest[q]
      BY <1>7, EditMakes
    <2>2. LastIsLatest'
      <3> SUFFICES ASSUME NEW s \in Sides, NEW q \in Paths,
                          files'[s][q] # Absent, files'[s][q].edit = newest'[q],
                          files'[Other(s)][q] # Absent,
                          files'[Other(s)][q].edit \notin {0, newest'[q]}
                   PROVE  files'[s][q].time >= files'[Other(s)][q].time
        BY DEF LastIsLatest
      <3>1. CASE q # p
        <4>1. /\ files'[s][q] = files[s][q] /\ files'[Other(s)][q] = files[Other(s)][q]
              /\ newest'[q] = newest[q]
          BY <2>1, <3>1, SidesFacts
        <4> QED
          BY <4>1 DEF Calm, LastIsLatest
      <3>2. CASE q = p /\ s = side
        <4>1. files'[Other(s)][q] = files[Other(s)][q]
          BY <1>5, <2>1, <3>2
        <4>2. files[Other(s)][q].time <= clock /\ files[Other(s)][q] \in File
          BY <1>5, <3>2, <4>1, Typed DEF FilesSound
        <4>3. files[Other(s)][q].time \in Nat /\ clock \in Nat
          BY <4>2 DEF File, FilesTypeOK
        <4>4. files'[s][q].time = clock
          BY <2>1, <3>2
        <4> QED
          BY <4>1, <4>2, <4>3, <4>4
      <3>3. CASE q = p /\ s # side
        <4>1. files'[s][q] = files[s][q] /\ files'[s][q].edit = newest[p] + 1
          BY <2>1, <3>3
        <4>2. files[s][q].edit <= newest[p] /\ newest[p] \in Nat
          BY <3>3, <4>1, Typed DEF FilesSound
        <4> QED
          BY <4>1, <4>2
      <3> QED
        BY <3>1, <3>2, <3>3
    <2>3. \A q \in Paths : Survives(q)'
      <3> SUFFICES ASSUME NEW q \in Paths PROVE Survives(q)'
        OBVIOUS
      <3>1. CASE q = p
        BY <1>5, <2>1, <3>1 DEF Survives
      <3>2. CASE q # p
        BY <2>1, <3>2 DEF Calm, Survives
      <3> QED
        BY <3>1, <3>2
    <2> QED
      BY <1>4, <2>2, <2>3 DEF Calm
  <1> QED
    BY <1>6, <1>7

\* A decision made from two true listings of whole files is about a source that
\* has the last edit.
LEMMA DecisionRight ==
    ASSUME FilesTypeOK, FilesSound, Calm, NEW p \in Paths,
           \A side \in Sides : files[side][p] = Absent \/ files[side][p].edit # 0,
           Decisions(ListingOf("local"), ListingOf("remote"))[p] # "none"
    PROVE  Whole(SourceSide(Decisions(ListingOf("local"), ListingOf("remote"))[p]), p)
  <1> DEFINE l == files["local"][p]
             r == files["remote"][p]
             action == DiffAction(Info(l), Info(r), NewestWins)
  <1>0. "local" \in Sides /\ "remote" \in Sides
        /\ Other("local") = "remote" /\ Other("remote") = "local"
    BY DEF Sides, Other
  <1>1. /\ Decisions(ListingOf("local"), ListingOf("remote"))[p] = action
        /\ action \in Transfers
    BY <1>0, InfoTyped DEF Decisions
  <1>2. /\ Info(l) = Absent <=> l = Absent
        /\ l # Absent => Info(l) = [size |-> l.size, isDir |-> FALSE, modTime |-> l.time]
        /\ Info(r) = Absent <=> r = Absent
        /\ r # Absent => Info(r) = [size |-> r.size, isDir |-> FALSE, modTime |-> r.time]
    BY <1>0, InfoTyped
  <1>3. \A file \in File : file.edit \in Nat /\ file.time \in Nat
    BY DEF File
  <1>4. ASSUME NEW side \in Sides, files[side][p] # Absent
        PROVE  /\ newest[p] # 0 /\ files[side][p].edit # 0
               /\ files[side][p].time \in Nat
    <2>1. files[side][p] \in File /\ newest[p] \in Nat
      BY <1>4, Typed
    <2>2. files[side][p].edit \in Nat /\ files[side][p].edit # 0 /\ files[side][p].time \in Nat
      BY <1>3, <1>4, <2>1
    <2>3. files[side][p].edit <= newest[p]
      BY <1>4 DEF FilesSound
    <2> QED
      BY <2>1, <2>2, <2>3
  <1>5. newest[p] # 0 => Whole("local", p) \/ Whole("remote", p)
    <2>1. Survives(p)
      BY DEF Calm
    <2> QED
      BY <2>1, SidesFacts DEF Survives, Whole
  <1>6. CASE l = Absent /\ r = Absent
    <2>1. action = "none"
      BY <1>2, <1>6 DEF DiffAction
    <2> QED
      BY <1>1, <2>1 DEF Transfers, Uploads, Downloads
  <1>7. CASE l # Absent /\ r = Absent
    <2>1. action = "create_remote"
      BY <1>2, <1>7 DEF DiffAction
    <2>2. Whole("local", p)
      BY <1>0, <1>4, <1>5, <1>7 DEF Whole
    <2> QED
      BY <1>1, <2>1, <2>2 DEF SourceSide, Uploads
  <1>8. CASE l = Absent /\ r # Absent
    <2>1. action = "create_local"
      BY <1>2, <1>8 DEF DiffAction
    <2>2. Whole("remote", p)
      BY <1>0, <1>4, <1>5, <1>8 DEF Whole
    <2> QED
      BY <1>1, <2>1, <2>2 DEF SourceSide, Uploads
  <1>9. CASE l # Absent /\ r # Absent
    <2>1. l.time \in Nat /\ r.time \in Nat /\ l.edit # 0 /\ r.edit # 0 /\ newest[p] # 0
      BY <1>0, <1>4, <1>9
    <2>2. action = CompareBoth(Info(l), Info(r), NewestWins)
      BY <1>2, <1>9 DEF DiffAction
    <2>3. /\ Info(l).isDir = FALSE /\ Info(r).isDir = FALSE
          /\ Info(l).modTime = l.time /\ Info(r).modTime = r.time
      BY <1>2, <1>9
    <2>4. action = "in_sync" \/ action = NewestAction(Info(l), Info(r))
      BY <2>2, <2>3 DEF CompareBoth, NewestWins, AskUser
    <2>5. \/ action = "update_remote" /\ l.time > r.time
          \/ action = "update_local" /\ r.time > l.time
          \/ action = "in_sync"
      BY <2>3, <2>4 DEF NewestAction
    <2>6. action # "in_sync"
      BY <1>1 DEF Transfers, Uploads, Downloads
    <2>7. /\ Whole("local", p) /\ r.edit # newest[p] => l.time >= r.time
          /\ Whole("remote", p) /\ l.edit # newest[p] => r.time >= l.time
      BY <1>0, <1>9, <2>1 DEF Calm, LastIsLatest, Whole
    <2>8. CASE action = "update_remote" /\ l.time > r.time
      <3>1. Whole("local", p)
        BY <1>5, <1>9, <2>1, <2>7, <2>8 DEF Whole
      <3> QED
        BY <1>1, <2>8, <3>1 DEF SourceSide, Uploads
    <2>9. CASE action = "update_local" /\ r.time > l.time
      <3>1. Whole("remote", p)
        BY <1>5, <1>9, <2>1, <2>7, <2>9 DEF Whole
      <3> QED
        BY <1>1, <2>9, <3>1 DEF SourceSide, Uploads
    <2> QED
      BY <2>5, <2>6, <2>8, <2>9
  <1> QED
    BY <1>6, <1>7, <1>8, <1>9

\* A listing without a mishap is true, and taken while nobody else is at work.
LEMMA ListedAlone ==
    ASSUME NEW t \in DOMAIN syncs, NEW side \in Sides, NEW listing,
           ListSide(t, side, listing), mishaps' = {}
    PROVE  /\ listing = ListingOf(side)
           /\ \A u \in DOMAIN syncs : Working(u) => u = t
           /\ \A c \in DOMAIN copies : ~Running(c)
           /\ \A p \in Paths : files[side][p] = Absent \/ files[side][p].edit # 0
  <1>1. listing = ListingOf(side)
    BY DEF ListSide
  <1>2. ~Interferes(t)
    BY DEF ListSide
  <1>3. \A p \in Paths : ~LeftPartial(side, p)
    BY DEF ListSide
  <1>4. \A c \in DOMAIN copies : ~Running(c)
    BY <1>2 DEF Interferes
  <1>5. \A u \in DOMAIN syncs : Working(u) => u = t
    BY <1>2 DEF Interferes, Working
  <1> QED
    BY <1>1, <1>3, <1>4, <1>5 DEF LeftPartial

LEMMA ListLocalCalm ==
    ASSUME FilesTypeOK, FilesSound, Calm, mishaps' = {},
           NEW t \in DOMAIN syncs, ListLocal(t)
    PROVE  Calm'
  <1>1. UNCHANGED <<files, newest, copies>>
    BY DEF ListLocal
  <1>2. PICK listing \in {ListingOf("local"), EmptyListing}, sync \in SyncState :
           /\ ListSide(t, "local", listing)
           /\ syncs' = [syncs EXCEPT ![t] = sync]
           /\ sync.pc = "remote" /\ sync.seen = listing
    BY ListsInto
  <1>3. /\ DOMAIN syncs' = DOMAIN syncs /\ syncs'[t] = sync
        /\ \A u \in DOMAIN syncs : u # t => syncs'[u] = syncs[u]
    BY <1>2, SyncsAfter
  <1>4. /\ listing = ListingOf("local")
        /\ \A u \in DOMAIN syncs : Working(u) => u = t
        /\ \A c \in DOMAIN copies : ~Running(c)
        /\ \A p \in Paths : files["local"][p] = Absent \/ files["local"][p].edit # 0
    BY <1>2, ListedAlone, SidesFacts
  <1>5. \A u \in DOMAIN syncs' : Working(u)' => u = t
    BY <1>3, <1>4 DEF Working
  <1>6. OneAtWork'
    BY <1>5 DEF OneAtWork
  <1>7. \A c \in DOMAIN copies' : ~Running(c)'
    BY <1>1, <1>4 DEF Running
  <1>8. ListingHolds'
    <2>1. ListingOf("local")' = ListingOf("local")
      BY <1>1 DEF ListingOf
    <2>2. \A u \in DOMAIN syncs' : syncs'[u].pc = "remote" => u = t
      BY <1>5 DEF Working
    <2> QED
      BY <1>1, <1>2, <1>3, <1>4, <1>7, <2>1, <2>2 DEF ListingHolds
  <1>9. \A u \in DOMAIN syncs' : ~Deciding(u)'
    BY <1>2, <1>3, <1>5 DEF Working, Deciding
  <1>10. DecisionsHold' /\ ItemsApart'
    BY <1>9 DEF DecisionsHold, ItemsApart, Deciding
  <1>11. CopiesApart' /\ SourcesWhole'
    BY <1>7 DEF CopiesApart, SourcesWhole
  <1> QED
    BY <1>1, <1>6, <1>8, <1>10, <1>11, FilesCalmUnchanged DEF Calm

LEMMA ListRemoteCalm ==
    ASSUME FilesTypeOK, FilesSound, Calm, mishaps' = {},
           NEW t \in DOMAIN syncs, ListRemote(t)
    PROVE  Calm'
  <1>1. UNCHANGED <<files, newest, copies>> /\ syncs[t].pc = "remote"
    BY DEF ListRemote
  <1>2. PICK listing \in {ListingOf("remote"), EmptyListing}, sync \in SyncState :
           /\ ListSide(t, "remote", listing)
           /\ syncs' = [syncs EXCEPT ![t] = sync]
           /\ sync.pc = "exec" /\ sync.todo = Decisions(syncs[t].seen, listing)
    BY DecidesInto
  <1>3. /\ DOMAIN syncs' = DOMAIN syncs /\ syncs'[t] = sync
        /\ \A u \in DOMAIN syncs : u # t => syncs'[u] = syncs[u]
    BY <1>2, SyncsAfter
  <1>4. /\ listing = ListingOf("remote")
        /\ \A u \in DOMAIN syncs : Working(u) => u = t
        /\ \A c \in DOMAIN copies : ~Running(c)
        /\ \A p \in Paths : files["remote"][p] = Absent \/ files["remote"][p].edit # 0
    BY <1>2, ListedAlone, SidesFacts
  <1>5. /\ syncs[t].seen = ListingOf("local")
        /\ \A p \in Paths : files["local"][p] = Absent \/ files["local"][p].edit # 0
    BY <1>1 DEF Calm, ListingHolds
  <1>6. \A u \in DOMAIN syncs' : Working(u)' => u = t
    BY <1>3, <1>4 DEF Working
  <1>7. OneAtWork'
    BY <1>6 DEF OneAtWork
  <1>8. \A c \in DOMAIN copies' : ~Running(c)'
    BY <1>1, <1>4 DEF Running
  <1>9. \A u \in DOMAIN syncs' : syncs'[u].pc # "remote" /\ syncs'[u].pc # "wait"
    BY <1>2, <1>3, <1>6 DEF Working
  <1>10. ListingHolds' /\ ItemsApart'
    BY <1>8, <1>9 DEF ListingHolds, ItemsApart
  <1>11. DecisionsHold'
    <2> SUFFICES ASSUME NEW p \in Paths, sync.todo[p] # "none"
                 PROVE  Whole(SourceSide(sync.todo[p]), p)
      BY <1>1, <1>3, <1>6 DEF DecisionsHold, Working, Deciding, Whole
    <2>1. sync.todo[p] = Decisions(ListingOf("local"), ListingOf("remote"))[p]
      BY <1>2, <1>4, <1>5
    <2>2. \A side \in Sides : files[side][p] = Absent \/ files[side][p].edit # 0
      BY <1>4, <1>5, SidesFacts
    <2> QED
      BY <2>1, <2>2, DecisionRight
  <1>12. CopiesApart' /\ SourcesWhole'
    BY <1>8 DEF CopiesApart, SourcesWhole
  <1> QED
    BY <1>1, <1>7, <1>10, <1>11, <1>12, FilesCalmUnchanged DEF Calm

LEMMA StartCopyCalm ==
    ASSUME FilesTypeOK, Calm, NEW t \in DOMAIN syncs, NEW p \in Paths, StartCopy(t, p)
    PROVE  Calm'
  <1> DEFINE n == Len(copies) + 1
  <1>1. /\ UNCHANGED <<files, newest>> /\ syncs[t].pc = "exec"
        /\ syncs[t].todo[p] # "none"
    BY DEF StartCopy
  <1>2. PICK sync \in SyncState :
           /\ syncs' = [syncs EXCEPT ![t] = sync]
           /\ sync.pc = "wait" /\ sync.todo = syncs[t].todo /\ sync.copy = n
    BY StartsInto
  <1>3. /\ DOMAIN syncs' = DOMAIN syncs /\ syncs'[t] = sync
        /\ \A u \in DOMAIN syncs : u # t => syncs'[u] = syncs[u]
    BY <1>2, SyncsAfter
  <1>4. /\ DOMAIN copies' = DOMAIN copies \cup {n} /\ n \notin DOMAIN copies
        /\ \A c \in DOMAIN copies : copies'[c] = copies[c]
        /\ copies'[n] = [pc |-> "open", task |-> t, path |-> p,
                         from |-> SourceSide(syncs[t].todo[p])]
    BY StartsInto
  <1>5. copies'[n].path = p /\ copies'[n].from = SourceSide(syncs[t].todo[p])
    BY <1>4
  <1> HIDE DEF n
  <1>6. \A u \in DOMAIN syncs : Working(u) => u = t
    BY <1>1 DEF Calm, OneAtWork, Working
  <1>7. \A u \in DOMAIN syncs' : Working(u)' => u = t
    BY <1>3, <1>6 DEF Working
  <1>8. OneAtWork'
    BY <1>7 DEF OneAtWork
  <1>9. \A u \in DOMAIN syncs' : syncs'[u].pc # "remote"
    BY <1>2, <1>3, <1>7 DEF Working
  <1>10. ListingHolds'
    BY <1>9 DEF ListingHolds
  <1>11. \A q \in Paths : syncs[t].todo[q] # "none" => Whole(SourceSide(syncs[t].todo[q]), q)
    BY <1>1 DEF Calm, DecisionsHold, Deciding
  <1>12. \A u \in DOMAIN syncs' : Deciding(u)' => u = t
    BY <1>7 DEF Working, Deciding
  <1>13. DecisionsHold'
    BY <1>1, <1>2, <1>3, <1>11, <1>12 DEF DecisionsHold, Whole
  <1>14. \A c \in DOMAIN copies' : Running(c)' /\ c # n =>
            /\ c \in DOMAIN copies /\ Running(c) /\ copies'[c] = copies[c]
            /\ syncs[t].todo[copies[c].path] = "none"
    BY <1>1, <1>4 DEF Calm, ItemsApart, Deciding, Running
  <1>15. ItemsApart'
    <2> SUFFICES ASSUME NEW u \in DOMAIN syncs'
                 PROVE  /\ syncs'[u].pc = "wait" =>
                             /\ syncs'[u].todo[copies'[syncs'[u].copy].path] # "none"
                             /\ copies'[syncs'[u].copy].from =
                                  SourceSide(syncs'[u].todo[copies'[syncs'[u].copy].path])
                        /\ Deciding(u)' => \A c \in DOMAIN copies' :
                             Running(c)' /\ ~(syncs'[u].pc = "wait" /\ c = syncs'[u].copy) =>
                                 syncs'[u].todo[copies'[c].path] = "none"
      BY DEF ItemsApart
    <2>1. CASE u = t
      BY <1>1, <1>2, <1>3, <1>5, <1>14, <2>1
    <2>2. CASE u # t
      BY <1>12, <2>2 DEF Deciding
    <2> QED
      BY <2>1, <2>2
  <1>16. CopiesApart'
    BY <1>1, <1>4, <1>5, <1>14 DEF Calm, CopiesApart
  <1>17. SourcesWhole'
    BY <1>1, <1>4, <1>5, <1>11, <1>14 DEF Calm, SourcesWhole, Whole
  <1> QED
    BY <1>1, <1>8, <1>10, <1>13, <1>15, <1>16, <1>17, FilesCalmUnchanged DEF Calm

LEMMA WaitCalm ==
    ASSUME FilesTypeOK, Calm, NEW t \in DOMAIN syncs, WaitBridgeJob(t)
    PROVE  Calm'
  <1> DEFINE path == copies[syncs[t].copy].path
  <1>1. UNCHANGED <<files, newest, copies>> /\ syncs[t].pc = "wait"
    BY DEF WaitBridgeJob
  <1>2. PICK sync \in SyncState :
           /\ syncs' = [syncs EXCEPT ![t] = sync]
           /\ sync.pc = "exec" /\ sync.todo[path] = "none"
           /\ \A p \in Paths : p # path => sync.todo[p] = syncs[t].todo[p]
    BY WaitsInto
  <1>3. /\ DOMAIN syncs' = DOMAIN syncs /\ syncs'[t] = sync
        /\ \A u \in DOMAIN syncs : u # t => syncs'[u] = syncs[u]
    BY <1>2, SyncsAfter
  <1>4. \A u \in DOMAIN syncs' : Working(u)' => u = t
    BY <1>1, <1>3 DEF Calm, OneAtWork, Working
  <1>5. OneAtWork'
    BY <1>4 DEF OneAtWork
  <1>6. \A u \in DOMAIN syncs' : syncs'[u].pc # "remote" /\ (Deciding(u)' => u = t)
    BY <1>2, <1>3, <1>4 DEF Working, Deciding
  <1>7. ListingHolds'
    BY <1>6 DEF ListingHolds
  <1>8. DecisionsHold'
    <2>1. \A p \in Paths : sync.todo[p] # "none" =>
             sync.todo[p] = syncs[t].todo[p] /\ Whole(SourceSide(syncs[t].todo[p]), p)
      BY <1>1, <1>2 DEF Calm, DecisionsHold, Deciding
    <2> QED
      BY <1>1, <1>3, <1>6, <2>1 DEF DecisionsHold, Whole
  <1>9. ItemsApart'
    <2>1. \A c \in DOMAIN copies : Running(c) => sync.todo[copies[c].path] = "none"
      <3> SUFFICES ASSUME NEW c \in DOMAIN copies, Running(c)
                   PROVE  sync.todo[copies[c].path] = "none"
        OBVIOUS
      <3>1. copies[c].path \in Paths
        BY Typed
      <3>2. CASE copies[c].path = path
        BY <1>2, <3>2
      <3>3. CASE copies[c].path # path
        <4>1. syncs[t].todo[copies[c].path] = "none"
          BY <1>1, <3>3 DEF Calm, ItemsApart, Deciding
        <4> QED
          BY <1>2, <3>1, <3>3, <4>1
      <3> QED
        BY <3>2, <3>3
    <2>2. \A u \in DOMAIN syncs' : syncs'[u].pc # "wait"
      BY <1>2, <1>3, <1>6 DEF Deciding
    <2> QED
      BY <1>1, <1>3, <1>6, <2>1, <2>2 DEF ItemsApart, Running
  <1>10. CopiesApart' /\ SourcesWhole'
    BY <1>1 DEF Calm, CopiesApart, SourcesWhole, Whole, Running
  <1> QED
    BY <1>1, <1>5, <1>7, <1>8, <1>9, <1>10, FilesCalmUnchanged DEF Calm

\* A task is over, or has just been asked for: nobody new is at work.
LEMMA IdleTaskCalm ==
    ASSUME FilesTypeOK, Calm, UNCHANGED <<files, newest, copies>>,
           \A u \in DOMAIN syncs' : \/ u \in DOMAIN syncs /\ syncs'[u] = syncs[u]
                                    \/ syncs'[u].pc \in {"local", "over"}
    PROVE  Calm'
  <1>1. \A u \in DOMAIN syncs' : Working(u)' =>
           u \in DOMAIN syncs /\ syncs'[u] = syncs[u] /\ Working(u)
    BY DEF Working
  <1>2. OneAtWork'
    BY <1>1 DEF Calm, OneAtWork
  <1>3. ListingOf("local")' = ListingOf("local")
    BY DEF ListingOf
  <1>4. ListingHolds'
    BY <1>1, <1>3 DEF Calm, ListingHolds, Working, Running
  <1>5. \A u \in DOMAIN syncs' : Deciding(u)' =>
           u \in DOMAIN syncs /\ syncs'[u] = syncs[u] /\ Deciding(u)
    BY DEF Deciding
  <1>6. DecisionsHold'
    BY <1>5 DEF Calm, DecisionsHold, Whole
  <1>7. ItemsApart'
    BY <1>5 DEF Calm, ItemsApart, Running, Deciding
  <1>8. CopiesApart' /\ SourcesWhole'
    BY DEF Calm, CopiesApart, SourcesWhole, Whole, Running
  <1> QED
    BY <1>2, <1>4, <1>6, <1>7, <1>8, FilesCalmUnchanged DEF Calm

\* The frame of a step of a running copy: it touches no file but its target,
\* and no other copy.
TouchesOnly(c) ==
    /\ UNCHANGED <<newest, syncs, mishaps>>
    /\ DOMAIN copies' = DOMAIN copies
    /\ \A d \in DOMAIN copies :
          /\ Running(d)' => Running(d)
          /\ copies'[d].path = copies[d].path /\ copies'[d].from = copies[d].from
    /\ \A s \in Sides, q \in Paths :
          s # Other(copies[c].from) \/ q # copies[c].path => files'[s][q] = files[s][q]

\* The target of a running copy is no source that has to stay whole.
LEMMA SourcesUntouched ==
    ASSUME FilesTypeOK, Calm, NEW c \in DOMAIN copies, Running(c), TouchesOnly(c)
    PROVE  OneAtWork' /\ ListingHolds' /\ DecisionsHold' /\ ItemsApart'
           /\ CopiesApart' /\ SourcesWhole'
  <1>1. UNCHANGED <<newest, syncs>> /\ DOMAIN copies' = DOMAIN copies
    BY DEF TouchesOnly
  <1>2. OneAtWork'
    BY <1>1 DEF Calm, OneAtWork, Working
  <1>3. ListingHolds'
    BY <1>1 DEF Calm, ListingHolds
  <1>4. ASSUME NEW s \in Sides, NEW q \in Paths, Whole(s, q),
               s = copies[c].from \/ q # copies[c].path
        PROVE  files'[s][q] # Absent /\ files'[s][q].edit = newest[q]
    <2>1. s # Other(copies[c].from) \/ q # copies[c].path
      BY <1>4, Typed, SidesFacts
    <2>2. files'[s][q] = files[s][q]
      BY <2>1 DEF TouchesOnly
    <2> QED
      BY <1>4, <2>2 DEF Whole
  <1>5. DecisionsHold'
    <2> SUFFICES ASSUME NEW t \in DOMAIN syncs, Deciding(t),
                        NEW q \in Paths, syncs[t].todo[q] # "none"
                 PROVE  LET s == SourceSide(syncs[t].todo[q]) IN
                        files'[s][q] # Absent /\ files'[s][q].edit = newest[q]
      BY <1>1 DEF DecisionsHold, Deciding, Whole
    <2>1. Whole(SourceSide(syncs[t].todo[q]), q)
      BY DEF Calm, DecisionsHold
    <2>2. SourceSide(syncs[t].todo[q]) = copies[c].from \/ q # copies[c].path
      BY DEF Calm, ItemsApart
    <2> QED
      BY <1>4, <2>1, <2>2, SidesFacts
  <1>6. ItemsApart'
    <2>1. ASSUME NEW t \in DOMAIN syncs, syncs[t].pc = "wait"
          PROVE  syncs[t].copy \in DOMAIN copies
      BY <2>1 DEF FilesTypeOK
    <2> QED
      BY <1>1, <2>1 DEF Calm, ItemsApart, TouchesOnly, Deciding
  <1>7. CopiesApart'
    BY <1>1 DEF Calm, CopiesApart, TouchesOnly
  <1>8. SourcesWhole'
    <2> SUFFICES ASSUME NEW d \in DOMAIN copies, Running(d)
                 PROVE  /\ files'[copies[d].from][copies[d].path] # Absent
                        /\ files'[copies[d].from][copies[d].path].edit
                             = newest[copies[d].path]
      BY <1>1 DEF SourcesWhole, TouchesOnly, Whole
    <2>1. Whole(copies[d].from, copies[d].path)
      BY DEF Calm, SourcesWhole
    <2>2. copies[d].from = copies[c].from \/ copies[d].path # copies[c].path
      BY DEF Calm, CopiesApart
    <2> QED
      BY <1>4, <2>1, <2>2, Typed
  <1> QED
    BY <1>2, <1>3, <1>5, <1>6, <1>7, <1>8

LEMMA CopyStepCalm ==
    ASSUME FilesTypeOK, FilesSound, Calm, NEW c \in DOMAIN copies, CopyStep(c)
    PROVE  Calm'
  <1> DEFINE source == copies[c].from
             target == Other(copies[c].from)
             path   == copies[c].path
  <1>0. /\ source \in Sides /\ target \in Sides /\ path \in Paths
        /\ target # source /\ Other(target) = source
        /\ \A s \in Sides : s = source \/ s = target
    BY Typed, SidesFacts
  <1>1. Running(c)
    BY DEF CopyStep, OpenCopy, WriteCopy, FailCopy, Running
  <1>2. Whole(source, path)
    BY <1>1 DEF Calm, SourcesWhole
  <1>3. ASSUME NEW pc \in {"write", "completed", "failed"}, CopyGoes(c, pc),
               \A s \in Sides, q \in Paths :
                  s # target \/ q # path => files'[s][q] = files[s][q]
        PROVE  TouchesOnly(c)
    <2>1. /\ DOMAIN copies' = DOMAIN copies
          /\ \A d \in DOMAIN copies : /\ d # c => copies'[d].pc = copies[d].pc
                                      /\ copies'[d].path = copies[d].path
                                      /\ copies'[d].from = copies[d].from
      BY <1>3, CopiesAfter DEF CopyGoes
    <2>2. \A d \in DOMAIN copies : Running(d)' => Running(d)
      BY <1>1, <2>1 DEF Running
    <2> QED
      BY <1>3, <2>1, <2>2 DEF TouchesOnly, CopyGoes
  <1>4. ASSUME TouchesOnly(c) PROVE \A p \in Paths : Survives(p)'
    <2> SUFFICES ASSUME NEW p \in Paths PROVE Survives(p)'
      OBVIOUS
    <2>1. newest' = newest
      BY <1>4 DEF TouchesOnly
    <2>2. CASE p = path
      <3>1. files'[source][path] = files[source][path]
        BY <1>0, <1>4 DEF TouchesOnly
      <3> QED
        BY <1>0, <1>2, <2>1, <2>2, <3>1 DEF Whole, Survives
    <2>3. CASE p # path
      <3>1. \A s \in Sides : files'[s][p] = files[s][p]
        BY <1>4, <2>3 DEF TouchesOnly
      <3> QED
        BY <2>1, <3>1 DEF Calm, Survives
    <2> QED
      BY <2>2, <2>3
  <1>5. ASSUME TouchesOnly(c), files'[target][path] # Absent,
               files'[target][path].edit \in {0, newest[path]}
        PROVE  LastIsLatest'
    <2> SUFFICES ASSUME NEW s \in Sides, NEW q \in Paths,
                        files'[s][q] # Absent, files'[s][q].edit = newest'[q],
                        files'[Other(s)][q] # Absent,
                        files'[Other(s)][q].edit \notin {0, newest'[q]}
                 PROVE  files'[s][q].time >= files'[Other(s)][q].time
      BY DEF LastIsLatest
    <2>1. newest' = newest
      BY <1>5 DEF TouchesOnly
    <2>2. q # path
      <3> SUFFICES ASSUME q = path PROVE FALSE
        OBVIOUS
      <3>1. Other(s) = source
        BY <1>0, <1>5, <2>1, SidesFacts
      <3>2. files'[source][path] = files[source][path]
        BY <1>0, <1>5 DEF TouchesOnly
      <3> QED
        BY <1>2, <2>1, <3>1, <3>2 DEF Whole
    <2>3. files'[s][q] = files[s][q] /\ files'[Other(s)][q] = files[Other(s)][q]
      <3>1. Other(s) \in Sides
        BY SidesFacts
      <3> QED
        BY <1>5, <2>2, <3>1 DEF TouchesOnly
    <2> QED
      BY <2>1, <2>3 DEF Calm, LastIsLatest
  <1>6. CASE OpenCopy(c)
    <2>1. /\ files'[target][path] # Absent /\ files'[target][path].edit = 0
          /\ \A s \in Sides, q \in Paths : s # target \/ q # path => files'[s][q] = files[s][q]
      BY <1>6, OpenMakes
    <2>2. TouchesOnly(c)
      BY <1>3, <1>6, <2>1 DEF OpenCopy
    <2> QED
      BY <1>1, <1>4, <1>5, <2>1, <2>2, SourcesUntouched DEF Calm
  <1>7. CASE WriteCopy(c)
    <2>1. /\ files'[target][path] # Absent
          /\ files'[target][path].edit = SourceOf(c).edit
          /\ \A s \in Sides, q \in Paths : s # target \/ q # path => files'[s][q] = files[s][q]
      BY <1>7, WriteMakes
    <2>2. SourceOf(c).edit = newest[path]
      BY <1>2 DEF Whole, SourceOf
    <2>3. TouchesOnly(c)
      BY <1>3, <1>7, <2>1 DEF WriteCopy
    <2> QED
      BY <1>1, <1>4, <1>5, <2>1, <2>2, <2>3, SourcesUntouched DEF Calm
  <1>8. CASE FailCopy(c)
    <2>1. UNCHANGED files
      BY <1>8 DEF FailCopy
    <2>2. TouchesOnly(c)
      BY <1>3, <1>8, <2>1 DEF FailCopy
    <2>3. UNCHANGED newest
      BY <2>2 DEF TouchesOnly
    <2> QED
      BY <1>1, <2>1, <2>2, <2>3, SourcesUntouched, FilesCalmUnchanged DEF Calm
  <1> QED
    BY <1>6, <1>7, <1>8 DEF CopyStep

-----------------------------------------------------------------------------
(* The theorems                                                            *)

LEMMA StepCorrect == FilesInv /\ [FilesNext]_fileVars => FilesInv'
  <1> SUFFICES ASSUME FilesInv, [FilesNext]_fileVars PROVE FilesInv'
    OBVIOUS
  <1>0. FilesTypeOK /\ FilesSound /\ (mishaps = {} => Calm)
    BY DEF FilesInv
  <1>1. CASE Tick
    <2>1. UNCHANGED <<files, newest, syncs, copies, mishaps>> /\ clock' = clock + 1
      BY <1>1 DEF Tick
    <2>2. FilesTypeOK'
      BY <1>0, <2>1 DEF FilesTypeOK
    <2>3. FilesSound'
      BY <1>0, <2>1, SoundUnchanged
    <2> QED
      BY <1>0, <2>1, <2>2, <2>3, CalmUnchanged DEF FilesInv
  <1>2. ASSUME NEW side \in Sides, NEW p \in Paths,
               Delete(side, p) \/ \E size \in Sizes : Edit(side, p, size)
        PROVE  FilesInv'
    <2>1. FilesTypeOK' /\ FilesSound'
      BY <1>0, <1>2, UserStepSound
    <2>2. mishaps' = {} => mishaps = {}
      BY <1>0, <1>2, MishapsTyped DEF Delete, Edit
    <2>3. mishaps' = {} => Calm'
      BY <1>0, <1>2, <2>2, UserStepCalm
    <2> QED
      BY <2>1, <2>3 DEF FilesInv
  <1>3. CASE Sync
    <2>1. UNCHANGED <<clock, files, newest, copies, mishaps>>
      BY <1>3 DEF Sync
    <2>2. /\ syncs' \in Seq(SyncState)
          /\ DOMAIN syncs' = DOMAIN syncs \cup {Len(syncs) + 1}
          /\ \A u \in DOMAIN syncs : syncs'[u] = syncs[u]
          /\ syncs'[Len(syncs) + 1].pc = "local"
      BY <1>0, <1>3, SyncAppends
    <2>3. FilesTypeOK'
      BY <1>0, <2>1, <2>2 DEF FilesTypeOK
    <2>4. FilesSound'
      BY <1>0, <2>1, SoundUnchanged
    <2>5. mishaps = {} => Calm'
      BY <1>0, <2>1, <2>2, IdleTaskCalm
    <2> QED
      BY <2>1, <2>3, <2>4, <2>5 DEF FilesInv
  <1>4. ASSUME NEW t \in DOMAIN syncs, SyncStep(t)
        PROVE  FilesInv'
    <2>1. FilesTypeOK' /\ FilesSound'
      BY <1>0, <1>4, TaskStepSound
    <2>2. ASSUME mishaps' = {} PROVE Calm'
      <3>1. CASE ListLocal(t)
        <4>1. mishaps = {}
          BY <1>0, <2>2, <3>1, MishapsTyped, SidesFacts DEF ListLocal
        <4> QED
          BY <1>0, <2>2, <3>1, <4>1, ListLocalCalm
      <3>2. CASE ListRemote(t)
        <4>1. mishaps = {}
          BY <1>0, <2>2, <3>2, MishapsTyped, SidesFacts DEF ListRemote
        <4> QED
          BY <1>0, <2>2, <3>2, <4>1, ListRemoteCalm
      <3>3. CASE WaitBridgeJob(t)
        <4>1. mishaps = {}
          BY <2>2, <3>3 DEF WaitBridgeJob
        <4> QED
          BY <1>0, <3>3, <4>1, WaitCalm
      <3>4. CASE FinishSync(t)
        <4>1. mishaps = {} /\ UNCHANGED <<files, newest, copies>>
          BY <2>2, <3>4 DEF FinishSync
        <4>2. PICK sync \in SyncState : syncs' = [syncs EXCEPT ![t] = sync] /\ sync.pc = "over"
          BY <1>0, <3>4, FinishesInto
        <4>3. /\ DOMAIN syncs' = DOMAIN syncs /\ syncs'[t] = sync
              /\ \A u \in DOMAIN syncs : u # t => syncs'[u] = syncs[u]
          BY <1>0, <4>2, SyncsAfter
        <4>4. \A u \in DOMAIN syncs' : \/ u \in DOMAIN syncs /\ syncs'[u] = syncs[u]
                                       \/ syncs'[u].pc \in {"local", "over"}
          BY <4>2, <4>3
        <4> QED
          BY <1>0, <4>1, <4>4, IdleTaskCalm
      <3>5. ASSUME NEW p \in Paths, StartCopy(t, p) PROVE Calm'
        <4>1. mishaps = {}
          BY <2>2, <3>5 DEF StartCopy
        <4> QED
          BY <1>0, <3>5, <4>1, StartCopyCalm
      <3> QED
        BY <1>4, <3>1, <3>2, <3>3, <3>4, <3>5 DEF SyncStep
    <2> QED
      BY <2>1, <2>2 DEF FilesInv
  <1>5. ASSUME NEW c \in DOMAIN copies, CopyStep(c)
        PROVE  FilesInv'
    <2>1. FilesTypeOK' /\ FilesSound'
      BY <1>0, <1>5, CopyStepSound
    <2>2. mishaps' = mishaps
      BY <1>5 DEF CopyStep, OpenCopy, WriteCopy, FailCopy, CopyGoes
    <2>3. mishaps = {} => Calm'
      BY <1>0, <1>5, CopyStepCalm
    <2> QED
      BY <2>1, <2>2, <2>3 DEF FilesInv
  <1>6. CASE UNCHANGED fileVars
    <2>1. UNCHANGED <<clock, files, newest, syncs, copies, mishaps>>
      BY <1>6 DEF fileVars
    <2>2. FilesTypeOK'
      BY <1>0, <2>1 DEF FilesTypeOK
    <2>3. FilesSound'
      BY <1>0, <2>1, SoundUnchanged
    <2> QED
      BY <1>0, <2>1, <2>2, <2>3, CalmUnchanged DEF FilesInv
  <1> QED
    BY <1>1, <1>2, <1>3, <1>4, <1>5, <1>6 DEF FilesNext

\* FilesInv holds in every state: files, tasks and copies have their types,
\* and without a mishap the files are Calm.
THEOREM FilesInvariant == FilesSpec => []FilesInv
  BY InitCorrect, StepCorrect, PTL DEF FilesSpec

\* For any number of files, edits, syncs and copies that fail or outlive their
\* task (FileService.Sync, runSyncTask, executeTaskActions, copyLocalFile): the
\* last edit of a file is whole on one side, unless one of the mishaps happened.
THEOREM NewestAlwaysSurvives == FilesSpec => []NewestSurvives
  <1>1. FilesInv => NewestSurvives
    BY DEF FilesInv, Calm, NewestSurvives
  <1> QED
    BY <1>1, FilesInvariant, PTL

-----------------------------------------------------------------------------
(* What a task leaves behind                                               *)

\* The copies under way while a task works off its items are its own.
CopiesOwned ==
    \A t \in DOMAIN syncs : Deciding(t) =>
        \A c \in DOMAIN copies : Running(c) => copies[c].task = t

\* The task has yet to start the copy of this path.
ToCopy(t, p) ==
    /\ syncs[t].todo[p] # "none"
    /\ ~(syncs[t].pc = "wait" /\ copies[syncs[t].copy].path = p)

\* A copy of this path that the task has started has not completed.
Unfinished(t, p) ==
    \E c \in DOMAIN copies :
        copies[c].task = t /\ copies[c].path = p /\ copies[c].pc # "completed"

Accounted(t, p) == Agree(p) \/ ToCopy(t, p) \/ Unfinished(t, p)

AllAccounted ==
    \A t \in DOMAIN syncs : Deciding(t) => \A p \in Paths : Accounted(t, p)

Settling == CopiesOwned /\ AllAccounted

AgreeInv == FilesInv /\ (mishaps = {} => Settling)

\* A step that leaves the files and the copies alone, and adds no task with
\* decisions nor changes one that has some.
LEMMA SettlingUnchanged ==
    ASSUME Settling, UNCHANGED <<files, copies>>,
           \A t \in DOMAIN syncs' :
              \/ t \in DOMAIN syncs /\ syncs'[t] = syncs[t]
              \/ ~Deciding(t)'
    PROVE  Settling'
  <1>1. CopiesOwned'
    BY DEF Settling, CopiesOwned, Deciding, Running
  <1>2. ASSUME NEW t \in DOMAIN syncs', Deciding(t)', NEW p \in Paths
        PROVE  Accounted(t, p)'
    <2>1. t \in DOMAIN syncs /\ syncs'[t] = syncs[t]
      BY <1>2
    <2>2. Accounted(t, p)
      BY <1>2, <2>1 DEF Settling, AllAccounted, Deciding
    <2>3. Agree(p) => Agree(p)'
      BY DEF Agree
    <2>4. ToCopy(t, p) => ToCopy(t, p)'
      BY <2>1 DEF ToCopy
    <2>5. Unfinished(t, p) => Unfinished(t, p)'
      BY DEF Unfinished
    <2> QED
      BY <2>2, <2>3, <2>4, <2>5 DEF Accounted
  <1> QED
    BY <1>1, <1>2 DEF Settling, AllAccounted

\* What newest_wins leaves alone does not differ.
LEMMA NothingLeftOut ==
    ASSUME FilesTypeOK, NEW p \in Paths,
           Decisions(ListingOf("local"), ListingOf("remote"))[p] = "none"
    PROVE  Agree(p)
  <1> DEFINE loc == Info(files["local"][p])
             rem == Info(files["remote"][p])
  <1>1. /\ ListingOf("local")[p] = loc /\ ListingOf("remote")[p] = rem
        /\ loc # Absent => loc.isDir = FALSE
        /\ rem # Absent => rem.isDir = FALSE
    <2>1. ListingOf("local")[p] = loc /\ ListingOf("remote")[p] = rem
      BY DEF ListingOf
    <2>2. \A file : Info(file) # Absent => Info(file).isDir = FALSE
      BY DEF Info
    <2> QED
      BY <2>1, <2>2
  <1> HIDE DEF loc, rem
  <1> DEFINE action == DiffAction(loc, rem, NewestWins)
  <1>2. action \in Actions
    BY ActionsTyped
  <1>3. action # "conflict"
    BY <1>1 DEF DiffAction, CompareBoth, NewestAction, NewestWins, AskUser
  <1> HIDE DEF action
  <1>4. (IF action \in Transfers THEN action ELSE "none") = "none"
    BY <1>1 DEF Decisions, action
  <1>5. "none" \notin Transfers
    BY DEF Transfers, Uploads, Downloads
  <1>6. action \in {"none", "in_sync"}
    BY <1>2, <1>3, <1>4, <1>5 DEF Actions
  <1> QED
    BY <1>6 DEF Agree, action, loc, rem

LEMMA ListRemoteSettling ==
    ASSUME FilesTypeOK, Calm, mishaps' = {}, NEW t \in DOMAIN syncs, ListRemote(t)
    PROVE  Settling'
  <1>1. UNCHANGED <<files, copies>> /\ syncs[t].pc = "remote"
    BY DEF ListRemote
  <1>2. PICK listing \in {ListingOf("remote"), EmptyListing}, sync \in SyncState :
           /\ ListSide(t, "remote", listing)
           /\ syncs' = [syncs EXCEPT ![t] = sync]
           /\ sync.pc = "exec" /\ sync.todo = Decisions(syncs[t].seen, listing)
    BY DecidesInto
  <1>3. /\ DOMAIN syncs' = DOMAIN syncs /\ syncs'[t] = sync
        /\ \A u \in DOMAIN syncs : u # t => syncs'[u] = syncs[u]
    BY <1>2, SyncsAfter
  <1>4. /\ listing = ListingOf("remote")
        /\ \A u \in DOMAIN syncs : Working(u) => u = t
        /\ \A c \in DOMAIN copies : ~Running(c)
    BY <1>2, ListedAlone, SidesFacts
  <1>5. syncs[t].seen = ListingOf("local")
    BY <1>1 DEF Calm, ListingHolds
  <1>6. \A u \in DOMAIN syncs' : Deciding(u)' => u = t
    BY <1>3, <1>4 DEF Working, Deciding
  <1>7. CopiesOwned'
    BY <1>1, <1>4 DEF CopiesOwned, Running
  <1>8. ASSUME NEW p \in Paths PROVE Accounted(t, p)'
    <2>1. sync.todo[p] = "none" => Agree(p)
      BY <1>2, <1>4, <1>5, NothingLeftOut
    <2>2. Agree(p) => Agree(p)'
      BY <1>1 DEF Agree
    <2>3. sync.todo[p] # "none" => ToCopy(t, p)'
      BY <1>2, <1>3 DEF ToCopy
    <2> QED
      BY <2>1, <2>2, <2>3 DEF Accounted
  <1> QED
    BY <1>6, <1>7, <1>8 DEF Settling, AllAccounted

LEMMA StartCopySettling ==
    ASSUME FilesTypeOK, Calm, Settling,
           NEW t \in DOMAIN syncs, NEW p \in Paths, StartCopy(t, p)
    PROVE  Settling'
  <1> DEFINE n == Len(copies) + 1
  <1>1. UNCHANGED files /\ syncs[t].pc = "exec"
    BY DEF StartCopy
  <1>2. PICK sync \in SyncState :
           /\ syncs' = [syncs EXCEPT ![t] = sync]
           /\ sync.pc = "wait" /\ sync.todo = syncs[t].todo /\ sync.copy = n
    BY StartsInto
  <1>3. /\ DOMAIN syncs' = DOMAIN syncs /\ syncs'[t] = sync
        /\ \A u \in DOMAIN syncs : u # t => syncs'[u] = syncs[u]
    BY <1>2, SyncsAfter
  <1>4. /\ DOMAIN copies' = DOMAIN copies \cup {n}
        /\ \A c \in DOMAIN copies : copies'[c] = copies[c]
        /\ copies'[n] = [pc |-> "open", task |-> t, path |-> p,
                         from |-> SourceSide(syncs[t].todo[p])]
    BY StartsInto
  <1>5. copies'[n].pc = "open" /\ copies'[n].task = t /\ copies'[n].path = p
    BY <1>4
  <1> HIDE DEF n
  <1>6. \A u \in DOMAIN syncs' : Deciding(u)' => u = t
    BY <1>1, <1>3 DEF Calm, OneAtWork, Working, Deciding
  <1>7. CopiesOwned'
    <2>1. \A c \in DOMAIN copies : Running(c) => copies[c].task = t
      BY <1>1 DEF Settling, CopiesOwned, Deciding
    <2>2. \A c \in DOMAIN copies' : Running(c)' => copies'[c].task = t
      BY <1>4, <1>5, <2>1 DEF Running
    <2> QED
      BY <1>6, <2>2 DEF CopiesOwned
  <1>8. ASSUME NEW q \in Paths PROVE Accounted(t, q)'
    <2>1. Accounted(t, q)
      BY <1>1 DEF Settling, AllAccounted, Deciding
    <2>2. CASE q = p
      <3>1. Unfinished(t, q)'
        BY <1>4, <1>5, <2>2 DEF Unfinished
      <3> QED
        BY <3>1 DEF Accounted
    <2>3. CASE q # p
      <3>1. Agree(q) => Agree(q)'
        BY <1>1 DEF Agree
      <3>2. ToCopy(t, q) => ToCopy(t, q)'
        BY <1>2, <1>3, <1>5, <2>3 DEF ToCopy
      <3>3. Unfinished(t, q) => Unfinished(t, q)'
        BY <1>4 DEF Unfinished
      <3> QED
        BY <2>1, <3>1, <3>2, <3>3 DEF Accounted
    <2> QED
      BY <2>2, <2>3
  <1> QED
    BY <1>6, <1>7, <1>8 DEF Settling, AllAccounted

LEMMA WaitSettling ==
    ASSUME FilesTypeOK, Calm, Settling, NEW t \in DOMAIN syncs, WaitBridgeJob(t)
    PROVE  Settling'
  <1>1. UNCHANGED <<files, copies>> /\ syncs[t].pc = "wait"
    BY DEF WaitBridgeJob
  <1>2. PICK sync \in SyncState :
           /\ syncs' = [syncs EXCEPT ![t] = sync]
           /\ sync.pc = "exec"
           /\ sync.todo[copies[syncs[t].copy].path] = "none"
           /\ \A p \in Paths : p # copies[syncs[t].copy].path =>
                 sync.todo[p] = syncs[t].todo[p]
    BY WaitsInto
  <1>3. /\ DOMAIN syncs' = DOMAIN syncs /\ syncs'[t] = sync
        /\ \A u \in DOMAIN syncs : u # t => syncs'[u] = syncs[u]
    BY <1>2, SyncsAfter
  <1>4. \A u \in DOMAIN syncs' : Deciding(u)' => u = t
    BY <1>1, <1>3 DEF Calm, OneAtWork, Working, Deciding
  <1>5. CopiesOwned'
    BY <1>1, <1>3, <1>4 DEF Settling, CopiesOwned, Deciding, Running
  <1>6. ASSUME NEW p \in Paths PROVE Accounted(t, p)'
    <2>1. Accounted(t, p)
      BY <1>1 DEF Settling, AllAccounted, Deciding
    <2>2. Agree(p) => Agree(p)'
      BY <1>1 DEF Agree
    <2>3. ToCopy(t, p) => ToCopy(t, p)'
      BY <1>1, <1>2, <1>3 DEF ToCopy
    <2>4. Unfinished(t, p) => Unfinished(t, p)'
      BY <1>1 DEF Unfinished
    <2> QED
      BY <2>1, <2>2, <2>3, <2>4 DEF Accounted
  <1> QED
    BY <1>4, <1>5, <1>6 DEF Settling, AllAccounted

\* A copy that fills its target makes the sides agree; until then, and if it
\* fails, it is unfinished.
LEMMA CopyStepSettling ==
    ASSUME FilesTypeOK, FilesSound, Settling, NEW c \in DOMAIN copies, CopyStep(c)
    PROVE  Settling'
  <1> DEFINE target == Other(copies[c].from)
  <1>p. PICK path : path = copies[c].path
    OBVIOUS
  <1>0. /\ copies[c].from \in Sides /\ target \in Sides /\ path \in Paths
        /\ target # copies[c].from
    BY <1>p, Typed, SidesFacts
  <1>1. PICK pc \in {"write", "completed", "failed"} :
           /\ CopyGoes(c, pc)
           /\ pc = "completed" => WriteCopy(c)
    BY DEF CopyStep, OpenCopy, WriteCopy, FailCopy
  <1>2. /\ DOMAIN copies' = DOMAIN copies
        /\ copies'[c].pc = pc
        /\ \A d \in DOMAIN copies : /\ d # c => copies'[d].pc = copies[d].pc
                                    /\ copies'[d].path = copies[d].path
                                    /\ copies'[d].task = copies[d].task
        /\ UNCHANGED syncs
    BY <1>1, CopiesAfter DEF CopyGoes
  <1>3. \A s \in Sides, q \in Paths : q # path => files'[s][q] = files[s][q]
    BY <1>p, OpenMakes, WriteMakes DEF CopyStep, FailCopy
  <1>4. Running(c)
    BY DEF CopyStep, OpenCopy, WriteCopy, FailCopy, Running
  <1>5. \A d \in DOMAIN copies : Running(d)' => Running(d)
    BY <1>2, <1>4 DEF Running
  <1>6. CopiesOwned'
    BY <1>2, <1>5 DEF Settling, CopiesOwned, Deciding
  <1>7. WriteCopy(c) => Agree(path)'
    <2> SUFFICES ASSUME WriteCopy(c) PROVE Agree(path)'
      OBVIOUS
    <2>1. /\ SourceOf(c) # Absent
          /\ files'[target][path] # Absent
          /\ files'[target][path].edit = SourceOf(c).edit
          /\ files'[copies[c].from][path] = SourceOf(c)
      BY <1>p, <1>0, WriteMakes DEF SourceOf
    <2>2. \/ target = "local" /\ copies[c].from = "remote"
          \/ target = "remote" /\ copies[c].from = "local"
      BY <1>0, SidesFacts
    <2> HIDE DEF target
    <2>3. /\ files'["local"][path] # Absent /\ files'["remote"][path] # Absent
          /\ files'["local"][path].edit = files'["remote"][path].edit
      BY <2>1, <2>2
    <2> QED
      BY <2>3 DEF Agree
  <1>8. ASSUME NEW t \in DOMAIN syncs, Deciding(t), NEW p \in Paths
        PROVE  Accounted(t, p)'
    <2>1. Accounted(t, p)
      BY <1>8 DEF Settling, AllAccounted
    <2>2. CASE p = path
      <3>1. copies[c].task = t
        BY <1>4, <1>8 DEF Settling, CopiesOwned
      <3>2. pc # "completed" => Unfinished(t, p)'
        BY <1>p, <1>2, <2>2, <3>1 DEF Unfinished
      <3> QED
        BY <1>1, <1>7, <2>2, <3>2 DEF Accounted
    <2>3. CASE p # path
      <3>1. Agree(p) => Agree(p)'
        BY <1>3, <2>3, SidesFacts DEF Agree
      <3>2. ToCopy(t, p) => ToCopy(t, p)'
        <4>1. syncs[t].pc = "wait" => syncs[t].copy \in DOMAIN copies
          BY DEF FilesTypeOK
        <4> QED
          BY <1>2, <4>1 DEF ToCopy
      <3>3. Unfinished(t, p) => Unfinished(t, p)'
        BY <1>p, <1>2, <2>3 DEF Unfinished
      <3> QED
        BY <2>1, <3>1, <3>2, <3>3 DEF Accounted
    <2> QED
      BY <2>2, <2>3
  <1>9. AllAccounted'
    BY <1>2, <1>8 DEF AllAccounted, Deciding
  <1> QED
    BY <1>6, <1>9 DEF Settling

LEMMA AgreeInitially == FilesInit => AgreeInv
  BY InitCorrect DEF AgreeInv, Settling, CopiesOwned, AllAccounted, FilesInit

LEMMA AgreeKept == AgreeInv /\ [FilesNext]_fileVars => AgreeInv'
  <1> SUFFICES ASSUME AgreeInv, [FilesNext]_fileVars, mishaps' = {}
               PROVE  Settling'
    BY StepCorrect DEF AgreeInv
  <1>0. FilesTypeOK /\ FilesSound /\ (mishaps = {} => Calm /\ Settling)
    BY DEF AgreeInv, FilesInv
  <1>1. CASE Tick \/ UNCHANGED fileVars
    <2>1. UNCHANGED <<files, syncs, copies, mishaps>>
      BY <1>1 DEF Tick, fileVars
    <2> QED
      BY <1>0, <2>1, SettlingUnchanged
  <1>2. ASSUME NEW side \in Sides, NEW p \in Paths,
               Delete(side, p) \/ \E size \in Sizes : Edit(side, p, size)
        PROVE  Settling'
    <2>1. UNCHANGED <<syncs, copies>> /\ Noted("edited", Busy)
      BY <1>2 DEF Delete, Edit
    <2>2. \A t \in DOMAIN syncs' : ~Deciding(t)'
      BY <2>1 DEF Noted, Busy, Deciding
    <2> QED
      BY <2>2 DEF Settling, CopiesOwned, AllAccounted
  <1>3. CASE Sync
    <2>1. UNCHANGED <<files, copies, mishaps>>
      BY <1>3 DEF Sync
    <2>2. /\ DOMAIN syncs' = DOMAIN syncs \cup {Len(syncs) + 1}
          /\ \A u \in DOMAIN syncs : syncs'[u] = syncs[u]
          /\ syncs'[Len(syncs) + 1].pc = "local"
      BY <1>0, <1>3, SyncAppends
    <2>3. \A t \in DOMAIN syncs' : \/ t \in DOMAIN syncs /\ syncs'[t] = syncs[t]
                                   \/ ~Deciding(t)'
      BY <2>2 DEF Deciding
    <2> QED
      BY <1>0, <2>1, <2>3, SettlingUnchanged
  <1>4. ASSUME NEW t \in DOMAIN syncs, SyncStep(t)
        PROVE  Settling'
    <2>1. CASE ListLocal(t)
      <3>1. mishaps = {} /\ UNCHANGED <<files, copies>>
        BY <1>0, <2>1, MishapsTyped, SidesFacts DEF ListLocal
      <3>2. PICK sync \in SyncState : syncs' = [syncs EXCEPT ![t] = sync] /\ sync.pc = "remote"
        BY <1>0, <2>1, ListsInto
      <3>3. /\ DOMAIN syncs' = DOMAIN syncs /\ syncs'[t] = sync
            /\ \A u \in DOMAIN syncs : u # t => syncs'[u] = syncs[u]
        BY <1>0, <3>2, SyncsAfter
      <3>4. ~Deciding(t)'
        BY <3>2, <3>3 DEF Deciding
      <3> QED
        BY <1>0, <3>1, <3>3, <3>4, SettlingUnchanged
    <2>2. CASE ListRemote(t)
      <3>1. mishaps = {}
        BY <1>0, <2>2, MishapsTyped, SidesFacts DEF ListRemote
      <3> QED
        BY <1>0, <2>2, <3>1, ListRemoteSettling
    <2>3. CASE WaitBridgeJob(t)
      <3>1. mishaps = {}
        BY <2>3 DEF WaitBridgeJob
      <3> QED
        BY <1>0, <2>3, <3>1, WaitSettling
    <2>4. CASE FinishSync(t)
      <3>1. mishaps = {} /\ UNCHANGED <<files, copies>>
        BY <2>4 DEF FinishSync
      <3>2. PICK sync \in SyncState : syncs' = [syncs EXCEPT ![t] = sync] /\ sync.pc = "over"
        BY <1>0, <2>4, FinishesInto
      <3>3. /\ DOMAIN syncs' = DOMAIN syncs /\ syncs'[t] = sync
            /\ \A u \in DOMAIN syncs : u # t => syncs'[u] = syncs[u]
        BY <1>0, <3>2, SyncsAfter
      <3>4. ~Deciding(t)'
        BY <3>2, <3>3 DEF Deciding
      <3> QED
        BY <1>0, <3>1, <3>3, <3>4, SettlingUnchanged
    <2>5. ASSUME NEW p \in Paths, StartCopy(t, p) PROVE Settling'
      <3>1. mishaps = {}
        BY <2>5 DEF StartCopy
      <3> QED
        BY <1>0, <2>5, <3>1, StartCopySettling
    <2> QED
      BY <1>4, <2>1, <2>2, <2>3, <2>4, <2>5 DEF SyncStep
  <1>5. ASSUME NEW c \in DOMAIN copies, CopyStep(c)
        PROVE  Settling'
    <2>1. mishaps = {}
      BY <1>5 DEF CopyStep, OpenCopy, WriteCopy, FailCopy, CopyGoes
    <2> QED
      BY <1>0, <1>5, <2>1, CopyStepSettling
  <1> QED
    BY <1>1, <1>2, <1>3, <1>4, <1>5 DEF FilesNext

\* Only the end of a task's work makes it over.
LEMMA OverByFinishing ==
    ASSUME FilesTypeOK, [FilesNext]_fileVars, NEW t \in DOMAIN syncs,
           syncs[t].pc # "over", syncs'[t].pc = "over"
    PROVE  FinishSync(t)
  <1>1. ASSUME NEW u \in DOMAIN syncs, SyncStep(u) PROVE FinishSync(t)
    <2>1. ASSUME NEW sync \in SyncState, syncs' = [syncs EXCEPT ![u] = sync],
                 sync.pc # "over"
          PROVE  FALSE
      BY <2>1, SyncsAfter
    <2>2. ~ListLocal(u)
      BY <2>1, ListsInto
    <2>3. ~ListRemote(u)
      BY <2>1, DecidesInto
    <2>4. ~WaitBridgeJob(u)
      BY <2>1, WaitsInto
    <2>5. \A p \in Paths : ~StartCopy(u, p)
      BY <2>1, StartsInto
    <2>6. FinishSync(u)
      BY <1>1, <2>2, <2>3, <2>4, <2>5 DEF SyncStep
    <2>7. PICK sync \in SyncState : syncs' = [syncs EXCEPT ![u] = sync]
      BY <2>6, FinishesInto
    <2>8. u = t
      BY <2>7, SyncsAfter
    <2> QED
      BY <2>6, <2>8
  <1>2. CASE Sync
    BY <1>2, SyncAppends
  <1>3. UNCHANGED syncs => FALSE
    OBVIOUS
  <1>4. ASSUME NEW c \in DOMAIN copies, CopyStep(c) PROVE UNCHANGED syncs
    BY <1>4 DEF CopyStep, OpenCopy, WriteCopy, FailCopy, CopyGoes
  <1>5. Tick \/ UNCHANGED fileVars => UNCHANGED syncs
    BY DEF Tick, fileVars
  <1>6. ASSUME NEW side \in Sides, NEW p \in Paths,
               Delete(side, p) \/ \E size \in Sizes : Edit(side, p, size)
        PROVE  UNCHANGED syncs
    BY <1>6 DEF Delete, Edit
  <1> QED
    BY <1>1, <1>2, <1>3, <1>4, <1>5, <1>6 DEF FilesNext

\* For any number of files, tasks and copies: a task of FileService.Sync that
\* ends, with every copy it started completed and without a mishap before,
\* leaves the two sides with the same contents, but for files that
\* CalculateDiff takes for the same.  The tasks that gave up waiting for a copy
\* (waitBridgeJob) are included, if the copy has completed since.
THEOREM SidesAgreeAfterSync == FilesSpec => SyncAgrees
  <1>1. AgreeInv /\ [FilesNext]_fileVars =>
          [\A t \in DOMAIN syncs :
             /\ syncs[t].pc # "over" /\ syncs'[t].pc = "over"
             /\ mishaps = {}
             /\ \A c \in DOMAIN copies : copies[c].task = t => copies[c].pc = "completed"
             => \A p \in Paths : Agree(p)]_fileVars
    <2> SUFFICES ASSUME AgreeInv, [FilesNext]_fileVars, mishaps = {},
                        NEW t \in DOMAIN syncs,
                        syncs[t].pc # "over", syncs'[t].pc = "over",
                        \A c \in DOMAIN copies :
                           copies[c].task = t => copies[c].pc = "completed",
                        NEW p \in Paths
                 PROVE  Agree(p)
      OBVIOUS
    <2>1. FilesTypeOK /\ AllAccounted
      BY DEF AgreeInv, FilesInv, Settling
    <2>2. syncs[t].pc = "exec" /\ syncs[t].todo = NothingToDo
      BY <2>1, OverByFinishing DEF FinishSync
    <2>3. Accounted(t, p) /\ ~ToCopy(t, p) /\ ~Unfinished(t, p)
      BY <2>1, <2>2 DEF AllAccounted, Deciding, ToCopy, Unfinished, NothingToDo
    <2> QED
      BY <2>3 DEF Accounted
  <1> QED
    BY <1>1, AgreeInitially, AgreeKept, PTL DEF FilesSpec, SyncAgrees
=============================================================================
