------------------------------ MODULE MCBridge ------------------------------
(* A small instance of Bridge for TLC. *)
EXTENDS Bridge, TLC

\* a1, a2 are the files of directory a, and b1, b2 their places in directory b.
Copy(src, dst) == [dir |-> FALSE, pairs |-> <<<<src, dst>>>>, own |-> <<>>]
Whole    == [dir |-> TRUE, pairs |-> <<<<"a1", "b1">>, <<"a2", "b2">>>>, own |-> <<>>]
OwnNamed == [dir |-> TRUE, pairs |-> <<<<"a1", "b1">>, <<"a2", "b2">>>>,
             own |-> <<<<"a2", "b2">>>>]

\* Uploads of a file and of the directory, and a download the other way.
SomeRequests == {Copy("a1", "b1"), Copy("b2", "a2"), Whole, OwnNamed}

SomeFiles == {"a1", "a2", "b1", "b2"}

\* The target of the first copy is there already and longer; a2 is there,
\* empty or missing, and b2 too.
SomeDisks ==
    { [f \in SomeFiles |-> CASE f = "a1" -> <<"x", "y">>
                             [] f = "b1" -> <<"o", "o", "o">>
                             [] f = "a2" -> a2
                             [] f = "b2" -> b2] :
        a2 \in {<<"z">>, <<>>, Missing}, b2 \in {<<"o">>, Missing} }

SomeBlocks == {"x", "y", "z", "o"}
=============================================================================
