---------------------------- MODULE MCTuiSession ----------------------------
(* A small instance of TuiSession for TLC. *)
EXTENDS TuiSession, TLC

\* Listings name their items relative to the directory: the path of "sub" in
\* "/" is "sub", and from there the way up leads to ".".
SomePaths == {"/", "sub", "."}
SomeDir   == [p \in SomePaths |-> IF p = "/" THEN "/" ELSE "."]

File(path) == [path |-> path, isDir |-> FALSE, up |-> FALSE]
Sub        == [path |-> "sub", isDir |-> TRUE, up |-> FALSE]
Up(path)   == [path |-> SomeDir[path], isDir |-> TRUE, up |-> TRUE]

SomeItems ==
    [s \in {"a", "b"} |-> [p \in SomePaths |->
        CASE s = "a" /\ p = "/" -> <<Sub, File("."), File("/")>>
          [] s = "a" /\ p # "/" -> <<Up(p), File(p)>>
          [] s = "b" /\ p = "/" -> <<Sub>>
          [] OTHER              -> <<Up(p)>>]]

CallSymmetry == Permutations(Calls)

TwoProfiles == <<[server |-> "b", path |-> "sub"], [server |-> "a", path |-> ""]>>
=============================================================================
