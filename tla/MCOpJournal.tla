---------------------------- MODULE MCOpJournal -----------------------------
EXTENDS OpJournal, TLC

\* Recorders, compactors and bases play symmetric parts.
Symmetry == Permutations(Recorders) \cup Permutations(Compactors) \cup Permutations(Bases)
=============================================================================
