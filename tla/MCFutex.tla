------------------------------- MODULE MCFutex -------------------------------
EXTENDS Futex, TLC

\* Agents of one kind are interchangeable, and so are offsets and values.
Symmetry == Permutations(Agents \ Interruptible)
            \cup Permutations(Interruptible \ HandlersWait)
            \cup Permutations(Interruptible \cap HandlersWait)
            \cup Permutations(Offsets) \cup Permutations(Values)

=============================================================================
