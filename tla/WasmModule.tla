------------------------------ MODULE WasmModule ------------------------------
(***************************************************************************)
(* The life of a streamed module: WasmStream compiles it with the baseline *)
(* compiler and ends with its promise task, and WasmTiering, started by      *)
(* ModuleGenerator::finishModule() on the thread that compiled it,         *)
(* replaces its code while JS threads that have got the module call it.    *)
(***************************************************************************)
EXTENDS WasmStream, WasmTiering

vars == <<streamVars, tierVars>>

Init == StreamInit /\ TierInit

\* finishModule() starts tier 2 if the mode is Tier1; a module compiled in one
\* tier, or deserialized, has none.
CompileModule ==
    /\ MakesModule
    /\ StartTier2 \/ UNCHANGED tierVars

\* Script gets the module from the promise, and other threads get it from there.
Call(c, f) == promise = "resolved" /\ CallExport(c, f) /\ UNCHANGED streamVars

\* A task from which no script gets a module leaves nothing more to do.
Terminated == TaskDeleted /\ promise # "resolved" /\ UNCHANGED vars

Next ==
    \/ StreamStep /\ UNCHANGED tierVars
    \/ CompileModule
    \/ (GeneratorStep \/ DestroyTask) /\ UNCHANGED streamVars
    \/ \E c \in Callers : \/ InCall(c) /\ UNCHANGED streamVars
                          \/ \E f \in Funcs : Call(c, f)
    \/ Terminated

(***************************************************************************)
(* The helper thread runs, the stream thread returns from the callback it  *)
(* is in, and the JS thread runs what is dispatched to it.  Nobody need    *)
(* deliver or end the stream, call an export or finish tier 2, and nothing *)
(* is assumed of the order in which mutexes are granted.                   *)
(***************************************************************************)
Fairness ==
    /\ WF_vars(InCallback /\ UNCHANGED tierVars)
    /\ WF_vars((HelperStep \/ FinishModule(FALSE)) /\ UNCHANGED tierVars)
    /\ WF_vars(Resolve /\ UNCHANGED tierVars)

Spec == Init /\ [][Next]_vars /\ Fairness

-----------------------------------------------------------------------------
\* The variables of both parts keep their types.
TypeOK == StreamTypeOK /\ TierTypeOK

=============================================================================
