------------------------------ MODULE SyncDiff ------------------------------
(***************************************************************************)
(* The pure part of the sync engine (core/internal/sync/sync.go): what      *)
(* CalculateDiff decides for every path that either side of a task lists,   *)
(* and what ResolveConflict turns a conflicting decision into.              *)
(*                                                                         *)
(* A listing is a function from Paths to an entry or Absent.  Paths are     *)
(* natural numbers, standing for names in the order sort.Strings gives      *)
(* them; a time unit is one second.                                         *)
(***************************************************************************)
EXTENDS Integers, FiniteSets, FiniteSetsExt

CONSTANTS
    Paths,      \* the names a listing may contain, as their sort positions
    Absent      \* "this side does not list the path": a nil *bridge.FileInfo

ASSUME PathsAssumption == Paths \subseteq Nat /\ IsFiniteSet(Paths)

NewestWins == "newest_wins"
AskUser    == "ask_user"
Strategies == {NewestWins, AskUser}

\* A bridge.FileInfo.  A directory's size may be -1: rclone reports no size.
FileInfo == [size : Int, isDir : BOOLEAN, modTime : Int]
Entry    == FileInfo \cup {Absent}
Listing  == [Paths -> Entry]

ASSUME AbsentAssumption == Absent \notin FileInfo

Uploads   == {"create_remote", "update_remote"}
Downloads == {"create_local", "update_local"}
Transfers == Uploads \cup Downloads
\* The DiffAction values some code path assigns ("delete_local" and
\* "delete_remote" are declared and never assigned); "none" marks the paths
\* that no DiffItem of the task is about.
Actions   == Transfers \cup {"conflict", "in_sync", "none"}
UserChoices == {"local", "remote", "skip"}

DiffItem == [local : Entry, remote : Entry, action : Actions,
             conflict : BOOLEAN, resolution : UserChoices \cup {"none"}]
Diffs    == [Paths -> DiffItem]

-----------------------------------------------------------------------------
(* CalculateDiff                                                           *)

\* Two files count as modified together below this distance: modDiff < 2.0.
ModWindow == 2

Abs(n) == IF n < 0 THEN -n ELSE n

SameFile(loc, rem) ==
    loc.size = rem.size /\ Abs(loc.modTime - rem.modTime) < ModWindow

Slip_OldestWins(loc, rem) ==
    CASE loc.modTime < rem.modTime -> "update_remote"
      [] rem.modTime < loc.modTime -> "update_local"
      [] OTHER                     -> "in_sync"

NewestAction(loc, rem) ==
    CASE loc.modTime > rem.modTime -> "update_remote"
      [] rem.modTime > loc.modTime -> "update_local"
      [] OTHER                     -> "in_sync"

\* Both sides list the path.
CompareBoth(loc, rem, strategy) ==
    CASE loc.isDir /\ rem.isDir                       -> "in_sync"
      [] loc.isDir # rem.isDir                        -> "conflict"
      [] ~loc.isDir /\ ~rem.isDir /\ SameFile(loc, rem) -> "in_sync"
      [] OTHER -> IF strategy = AskUser THEN "conflict"
                                        ELSE NewestAction(loc, rem)

DiffAction(loc, rem, strategy) ==
    CASE loc = Absent /\ rem = Absent -> "none"
      [] loc # Absent /\ rem = Absent -> "create_remote"
      [] loc = Absent /\ rem # Absent -> "create_local"
      [] OTHER                        -> CompareBoth(loc, rem, strategy)

CalculateDiff(local, remote, strategy) ==
    [p \in Paths |->
        LET action == DiffAction(local[p], remote[p], strategy)
        IN  [local |-> local[p], remote |-> remote[p], action |-> action,
             conflict |-> action = "conflict", resolution |-> "none"]]

-----------------------------------------------------------------------------
(* What the engine reads off a list of items                                *)

NoDiffs == [p \in Paths |->
    [local |-> Absent, remote |-> Absent, action |-> "none",
     conflict |-> FALSE, resolution |-> "none"]]

\* The paths that have an item; the executor visits them in sort order.
ItemPaths(diffs)   == {p \in Paths : diffs[p].action # "none"}
HasConflict(diffs) == \E p \in Paths : diffs[p].conflict

ItemSize(item) ==
    CASE item.local # Absent                         -> item.local.size
      [] item.local = Absent /\ item.remote # Absent -> item.remote.size
      [] OTHER                                       -> 0

TotalBytes(diffs) == MapThenSumSet(LAMBDA p : ItemSize(diffs[p]), Paths)

-----------------------------------------------------------------------------
(* ResolveConflict: the action a conflicting item gets from a choice        *)

ResolvedAction(item, choice) ==
    CASE choice = "local"  -> IF item.remote = Absent THEN "create_remote"
                                                      ELSE "update_remote"
      [] choice = "remote" -> IF item.local = Absent THEN "create_local"
                                                     ELSE "update_local"
      [] OTHER             -> "in_sync"

Resolve(item, choice) ==
    [item EXCEPT !.conflict = FALSE, !.resolution = choice,
                 !.action = ResolvedAction(item, choice)]
=============================================================================
