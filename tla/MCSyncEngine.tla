---------------------------- MODULE MCSyncEngine ----------------------------
(* Small instances of SyncEngine for TLC. *)
EXTENDS SyncEngine, TLC

File(size, time) == [size |-> size, isDir |-> FALSE, modTime |-> time]
Directory        == [size |-> -1, isDir |-> TRUE, modTime |-> 9]

TwoPaths == {1, 2}
OnePath  == {1}

\* On path 1 a file against one inside and one outside the modification window
\* and against a directory; on path 2 a file on one side, or on both with
\* different sizes and the same time.
TwoPathListings ==
    { (1 :> File(1, 0) @@ 2 :> Absent),
      (1 :> File(1, 1) @@ 2 :> Absent),
      (1 :> File(1, 3) @@ 2 :> File(2, 5)),
      (1 :> Directory  @@ 2 :> File(1, 5)) }

\* A file, a newer version of it, and nothing (a listing that failed).
OnePathListings == { (1 :> File(1, 0)), (1 :> File(1, 3)) }

NoListings == {}

AllPriorities  == {0, 1, 2, 3}
OnePriority    == {0}
AllStrategies  == {"", AskUser}
OneStrategy    == {NewestWins}
AskOnly        == {AskUser}
SomeBytes      == {0, 2}
OneBytes       == {2}

WorkerSymmetry == Permutations(Workers)
=============================================================================
