---------------------------- MODULE MCSharedBuffer ----------------------------
EXTENDS SharedBuffer, TLC

\* Runtimes, objects and clones are interchangeable.
Symmetry == Permutations(Runtimes) \cup Permutations(Objs) \cup Permutations(Clones)

=============================================================================
