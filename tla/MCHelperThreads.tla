--------------------------- MODULE MCHelperThreads ---------------------------
(* HelperThreads for TLC: how many tasks of each kind the main thread submits. *)
EXTENDS HelperThreads, TLC

\* Masters enough to occupy every thread, and work that is no current task.
ThreeMasters == [k \in Submitted |-> CASE k = "promise" -> 2
                                       [] k \in {"parse", "ionFree"} -> 1
                                       [] OTHER -> 0]

\* One task of each kind that the main thread waits for in its own way.
OneOfEach == [k \in Submitted |-> IF k \in {"gc", "ionFree"} THEN 0 ELSE 1]

\* Two compilations of wasm modules.
TwoPromises == [k \in Submitted |-> IF k = "promise" THEN 2 ELSE 0]

\* EraseIf selects what SelectSeq does.
ASSUME EraseIfAssumption ==
    \A n \in 0..4, t \in 1..3 : \A s \in [1..n -> 1..3] :
        EraseIf(s, t) = SelectSeq(s, LAMBDA o : o # t)

ThreadSymmetry == Permutations(Threads)

=============================================================================
