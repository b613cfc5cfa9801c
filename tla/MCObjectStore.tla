--------------------------- MODULE MCObjectStore ---------------------------
(* Small instances of ObjectStore for TLC. *)
EXTENDS ObjectStore, TLC

\* Processes, paths and contents are interchangeable.
Symmetry == Permutations(Procs) \cup Permutations(Paths) \cup Permutations(Contents)
                \cup Permutations(Ckpts)
=============================================================================
