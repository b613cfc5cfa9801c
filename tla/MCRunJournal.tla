---------------------------- MODULE MCRunJournal ----------------------------
(* A directory with one child and three top-level paths after it. *)
EXTENDS RunJournal

CONSTANTS a, ax, b, c, d, c1

TreePaths == {a, ax, b, c, d}
TreeAbove == [p \in TreePaths |-> IF p = ax THEN {a} ELSE {}]
TreeLess == {<<a, ax>>, <<a, b>>, <<a, c>>, <<a, d>>, <<ax, b>>, <<ax, c>>,
             <<ax, d>>, <<b, c>>, <<b, d>>, <<c, d>>}

\* a and a/x differ in kind, content and mode.  The others are absent or one
\* same file, so that two of them, and a/x, can be renamed at once.
Small ==
    {m \in Manifests :
        /\ \A e \in Contents : m[a] # File(e, TRUE)
        /\ \A p \in {b, c, d} : m[p] \in {None, File(c1, FALSE)}}

MCInit == base \in Small /\ target \in Small /\ Init

MCSpec == MCInit /\ [][Next]_vars
=============================================================================
