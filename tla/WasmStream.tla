------------------------------ MODULE WasmStream ------------------------------
(***************************************************************************)
(* CompileStreamTask (wasm/WasmJS.cpp): WebAssembly.compileStreaming().    *)
(* A stream thread feeds the bytes of a response to the task through its   *)
(* StreamConsumer callbacks; once the code section begins a helper thread  *)
(* compiles what has arrived (CompileStreaming(), wasm/WasmCompile.cpp);   *)
(* the JS thread resolves the promise and destroys the task.               *)
(*                                                                         *)
(* The three share streamState_, exclusiveCodeBytesEnd_ and                *)
(* exclusiveStreamEnd_, each with a lock and a condition variable of its   *)
(* own; one critical section is one action.  What follows a dispatch is    *)
(* module OffThreadPromise.  The code section has CodeSize pieces; of the  *)
(* sections before and after it only their presence is kept.               *)
(***************************************************************************)
EXTENDS Naturals

CONSTANT CodeSize  \* codeSection_.size, in pieces

ASSUME CodeSizeAssumption == CodeSize \in Nat \ {0}

VARIABLES
    streamState,  \* streamState_
    stream,       \* the stream thread: where it is in a callback, and the
                  \* pieces of its chunk that are still to be consumed
    received,     \* codeBytesEnd_, the stream thread's own
    codeBytesEnd, \* exclusiveCodeBytesEnd_
    reached,      \* exclusiveStreamEnd_->reached
    streamFailed, \* streamFailed_
    outcome,      \* what of module_, streamError_ and compileError_ is set;
                  \* "streamOOM" is a streamError_ of StreamOOMCode
    helper,       \* the helper thread: where it is in execute(), the pieces it
                  \* has decoded, and the condition variable it sleeps on
    promise,      \* "dispatched" to the JS thread; then the task is deleted and
                  \* the promise settled, or left "unsettled" for ever
    dispatches    \* history: calls of dispatchResolveAndDestroy()

streamVars == <<streamState, stream, received, codeBytesEnd, reached, streamFailed,
                outcome, helper, promise, dispatches>>
sharedData == <<codeBytesEnd, reached, streamFailed>>

StreamStates == {"Env", "Code", "Tail", "Closed"}
\* "ready" is between two callbacks, "gone" after the last one.
StreamPlaces == {"none", "ready", "start", "started", "code", "copied", "tail",
                 "failBytes", "failEnd", "end", "close", "dispatch", "gone"}
HelperPlaces == {"none", "queued", "env", "code", "end", "tail", "close",
                 "dispatch", "gone"}
Conditions   == {"no", "bytes", "end", "closed"}

StreamTypeOK ==
    /\ streamState \in StreamStates
    /\ stream \in [at : StreamPlaces, chunk : 0..(CodeSize + 1)]
    /\ received \in 0..CodeSize /\ codeBytesEnd \in 0..CodeSize
    /\ reached \in BOOLEAN /\ streamFailed \in BOOLEAN
    /\ outcome \subseteq {"module", "streamError", "streamOOM", "compileError"}
    /\ helper \in [at : HelperPlaces, decoded : 0..CodeSize, asleep : Conditions]
    /\ promise \in {"pending", "dispatched", "resolved", "rejected", "unsettled",
                    "dropped"}
    /\ dispatches \in Nat

StreamInit ==
    /\ streamState = "Env"
    /\ stream = [at |-> "none", chunk |-> 0]
    /\ received = 0 /\ codeBytesEnd = 0
    /\ reached = FALSE /\ streamFailed = FALSE /\ outcome = {}
    /\ helper = [at |-> "none", decoded |-> 0, asleep |-> "no"]
    /\ promise = "pending" /\ dispatches = 0

StreamGoto(place) == stream' = [stream EXCEPT !.at = place]
StreamReturns     == stream' = [at |-> "ready", chunk |-> 0]
HelperGoto(place) == helper' = [helper EXCEPT !.at = place]

\* notify_one() on a condition variable, on which only the helper can sleep.
NotifyHelper(c) ==
    helper' = IF helper.asleep = c THEN [helper EXCEPT !.asleep = "no"] ELSE helper

-----------------------------------------------------------------------------
\* The JS thread hands the task to the stream (ResolveResponse_OnFulfilled());
\* if the embedding refuses, the promise is rejected and the task deleted.
ConsumeStream ==
    /\ stream.at = "none" /\ promise = "pending"
    /\ \/ StreamGoto("ready") /\ UNCHANGED promise
       \/ promise' = "dropped" /\ UNCHANGED stream
    /\ UNCHANGED <<streamState, received, sharedData, outcome, helper, dispatches>>

\* What the promise may be when resolve() has returned.  An error is reported
\* and rejects the promise, unless there is no memory or no exception to do so:
\* resolve() returns false, and run() drops the exception.
RejectWithPendingException == {"rejected", "unsettled"}

\* StreamOOMCode is reported on the context and rejects nothing.
RejectWithStreamErrorNumber ==
    IF "streamOOM" \in outcome THEN {"unsettled"} ELSE RejectWithPendingException

\* The event loop runs the task: resolve(), whose failure is ignored, then
\* delete.  With a module, the warnings may fail to be reported, and the module
\* to be wrapped or its imports to be read; instantiating it is another task.
Resolve ==
    /\ promise = "dispatched"
    /\ promise' \in CASE "module" \in outcome ->
                          {"resolved"} \cup RejectWithPendingException
                     [] outcome \cap {"streamError", "streamOOM"} # {} ->
                          RejectWithStreamErrorNumber
                     [] OTHER -> RejectWithPendingException
    /\ UNCHANGED <<streamState, stream, received, sharedData, outcome, helper,
                   dispatches>>

Dispatched == promise' = "dispatched" /\ dispatches' = dispatches + 1

-----------------------------------------------------------------------------
\* Stream callbacks that find streamState_ in Env.

\* setClosedAndDestroyBeforeHelperThreadStarted(), its first half.
SetClosedBeforeHelperThreadStarted ==
    streamState' = "Closed" /\ StreamGoto("dispatch")

RejectBeforeHelperThreadStarted(error) ==
    /\ outcome' = outcome \cup {error}
    /\ SetClosedBeforeHelperThreadStarted

\* Its second half, dispatchResolveAndDestroy(), after which the stream thread
\* must not touch the task.
DispatchBeforeHelperThreadStarted ==
    /\ stream.at = "dispatch"
    /\ Dispatched
    /\ StreamGoto("gone")
    /\ UNCHANGED <<streamState, received, sharedData, outcome, helper>>

\* consumeChunk() in Env: no code section yet; or it begins, and the chunk may
\* hold pieces of it and of what follows; or the section is too large or there
\* is no memory, which get the same StreamOOMCode.
ConsumeEnv ==
    /\ stream.at = "ready" /\ streamState = "Env"
    /\ \/ UNCHANGED <<stream, streamState, outcome>>
       \/ /\ \E n \in 0..(CodeSize + 1) : stream' = [at |-> "start", chunk |-> n]
          /\ UNCHANGED <<streamState, outcome>>
       \/ RejectBeforeHelperThreadStarted("streamOOM")
    /\ UNCHANGED <<received, sharedData, helper, promise, dispatches>>

\* StartOffThreadPromiseHelperTask(this).
StartOffThread ==
    /\ stream.at = "start"
    /\ \/ /\ HelperGoto("queued") /\ StreamGoto("started")
          /\ UNCHANGED <<streamState, outcome>>
       \/ RejectBeforeHelperThreadStarted("streamOOM") /\ UNCHANGED helper
    /\ UNCHANGED <<received, sharedData, promise, dispatches>>

\* "Set the state to Code iff StartOffThreadPromiseHelperTask() succeeds"; the
\* rest of the chunk is consumed by a recursive call.
EnterCode ==
    /\ stream.at = "started"
    /\ streamState' = "Code"
    /\ IF stream.chunk > 0 THEN StreamGoto("code") ELSE StreamReturns
    /\ UNCHANGED <<received, sharedData, outcome, helper, promise, dispatches>>

\* streamEnd() in Env compiles the buffer on the stream thread, and
\* consumeOptimizedEncoding() deserializes; either may give no module, with an
\* error, for lack of memory, or without saying why.
StreamEndInEnv(module) ==
    /\ stream.at = "ready" /\ streamState = "Env"
    /\ \E o \in IF module THEN {{"module"}} ELSE {{}, {"compileError"}, {"streamOOM"}} :
         outcome' = o
    /\ SetClosedBeforeHelperThreadStarted
    /\ UNCHANGED <<received, sharedData, helper, promise, dispatches>>

-----------------------------------------------------------------------------
\* Stream callbacks after the helper thread was started.

ConsumeChunk ==
    /\ stream.at = "ready" /\ streamState \in {"Code", "Tail"}
    /\ \E n \in 1..(CodeSize + 1) :
         stream' = [at |-> IF streamState = "Code" THEN "code" ELSE "tail", chunk |-> n]
    /\ UNCHANGED <<streamState, received, sharedData, outcome, helper, promise,
                   dispatches>>

ConsumeCodeUnbounded == \* mutant: the chunk is copied without a look at the end
    /\ stream.at = "code"
    /\ received' = received + stream.chunk
    /\ codeBytesEnd' = received + stream.chunk
    /\ stream' = [at |-> "copied", chunk |-> 0]
    /\ NotifyHelper("bytes")
    /\ UNCHANGED <<streamState, reached, streamFailed, outcome, promise, dispatches>>

\* consumeChunk() in Code: copy, and publish the new end.
ConsumeCode ==
    /\ stream.at = "code"
    /\ LET n == IF stream.chunk < CodeSize - received THEN stream.chunk
                ELSE CodeSize - received
       IN  /\ received' = received + n
           /\ codeBytesEnd' = received + n
           /\ stream' = [at |-> "copied", chunk |-> stream.chunk - n]
    /\ NotifyHelper("bytes")
    /\ UNCHANGED <<streamState, reached, streamFailed, outcome, promise, dispatches>>

EnterTail ==
    /\ stream.at = "copied"
    /\ IF received < CodeSize
       THEN StreamReturns /\ UNCHANGED streamState
       ELSE /\ streamState' = "Tail"
            /\ IF stream.chunk > 0 THEN StreamGoto("tail") ELSE StreamReturns
    /\ UNCHANGED <<received, sharedData, outcome, helper, promise, dispatches>>

RejectWithoutFlag(error) == \* mutant: streamFailed_ is not set
    /\ outcome' = outcome \cup {error}
    /\ StreamGoto("failBytes")
    /\ UNCHANGED streamFailed

\* rejectAndDestroyAfterHelperThreadStarted() up to its first lock.
RejectAfterHelperThreadStarted(error) ==
    /\ outcome' = outcome \cup {error}
    /\ streamFailed' = TRUE
    /\ StreamGoto("failBytes")

\* consumeChunk() in Tail: the bytes are appended, or there is no memory.
ConsumeTail ==
    /\ stream.at = "tail"
    /\ \/ StreamReturns /\ UNCHANGED <<outcome, streamFailed>>
       \/ RejectAfterHelperThreadStarted("streamOOM")
    /\ UNCHANGED <<streamState, received, codeBytesEnd, reached, helper, promise,
                   dispatches>>

\* streamError(), after the helper thread was started and before.
StreamError ==
    /\ stream.at = "ready"
    /\ \/ /\ streamState = "Env" /\ RejectBeforeHelperThreadStarted("streamError")
          /\ UNCHANGED streamFailed
       \/ /\ streamState \in {"Code", "Tail"}
          /\ RejectAfterHelperThreadStarted("streamError")
          /\ UNCHANGED streamState
    /\ UNCHANGED <<received, codeBytesEnd, reached, helper, promise, dispatches>>

NotifyCodeBytes ==
    /\ stream.at = "failBytes"
    /\ NotifyHelper("bytes")
    /\ StreamGoto("failEnd")
    /\ UNCHANGED <<streamState, received, sharedData, outcome, promise, dispatches>>

NotifyStreamEnd ==
    /\ stream.at = "failEnd"
    /\ NotifyHelper("end")
    /\ StreamGoto("close")
    /\ UNCHANGED <<streamState, received, sharedData, outcome, promise, dispatches>>

\* streamEnd() in Code or Tail, first critical section.
StreamEnd ==
    /\ stream.at = "ready" /\ streamState \in {"Code", "Tail"}
    /\ reached' = TRUE
    /\ NotifyHelper("end")
    /\ StreamGoto("close")
    /\ UNCHANGED <<streamState, received, codeBytesEnd, streamFailed, outcome,
                   promise, dispatches>>

\* setClosedAndDestroyAfterHelperThreadStarted().
SetClosedAfterHelperThreadStarted ==
    /\ stream.at = "close"
    /\ streamState' = "Closed"
    /\ NotifyHelper("closed")
    /\ StreamGoto("gone")
    /\ UNCHANGED <<received, sharedData, outcome, promise, dispatches>>

-----------------------------------------------------------------------------
\* The helper thread, in runTask(): execute(), then dispatchResolveAndDestroy().

Awake(place) == helper.at = place /\ helper.asleep = "no"
Sleep(c)     == helper' = [helper EXCEPT !.asleep = c]

\* CompileStreaming() returns no module, with or without an error.
GiveUp(error) ==
    /\ HelperGoto("close")
    /\ outcome' = outcome \cup (IF error THEN {"compileError"} ELSE {})

helperLeaves == <<streamState, stream, received, sharedData, promise, dispatches>>

RunTask ==
    /\ helper.at = "queued"
    /\ HelperGoto("env")
    /\ UNCHANGED <<helperLeaves, outcome>>

DecodeEnv ==
    /\ helper.at = "env"
    /\ \/ HelperGoto("code") /\ UNCHANGED outcome
       \/ \E error \in BOOLEAN : GiveUp(error)
    /\ UNCHANGED helperLeaves

\* DecodeCodeSection(): waitForBytes() for the next piece, which may be wrong.
\* The generator also stops when it sees that the stream has failed.
DecodeCode ==
    /\ Awake("code")
    /\ \/ /\ codeBytesEnd > helper.decoded
          /\ \/ /\ helper' = [helper EXCEPT !.decoded = @ + 1,
                     !.at = IF helper.decoded + 1 = CodeSize THEN "end" ELSE "code"]
                /\ UNCHANGED outcome
             \/ \E error \in BOOLEAN : GiveUp(error)
       \/ codeBytesEnd <= helper.decoded /\ streamFailed /\ GiveUp(FALSE)
       \/ codeBytesEnd <= helper.decoded /\ ~streamFailed /\ Sleep("bytes")
          /\ UNCHANGED outcome
    /\ UNCHANGED helperLeaves

AwaitStreamEnd ==
    /\ Awake("end")
    /\ \/ reached /\ HelperGoto("tail") /\ UNCHANGED outcome
       \/ ~reached /\ streamFailed /\ GiveUp(FALSE)
       \/ ~reached /\ ~streamFailed /\ Sleep("end") /\ UNCHANGED outcome
    /\ UNCHANGED helperLeaves

\* DecodeModuleTail(), CreateBytecode() and finishModule().
FinishModule(module) ==
    /\ helper.at = "tail"
    /\ \/ module /\ HelperGoto("close") /\ outcome' = outcome \cup {"module"}
       \/ ~module /\ \E error \in BOOLEAN : GiveUp(error)
    /\ UNCHANGED helperLeaves

AwaitNothing == \* mutant: execute() does not wait for Closed
    /\ Awake("close")
    /\ HelperGoto("dispatch")
    /\ UNCHANGED <<helperLeaves, outcome>>

AwaitClosed ==
    /\ Awake("close")
    /\ IF streamState = "Closed" THEN HelperGoto("dispatch") ELSE Sleep("closed")
    /\ UNCHANGED <<helperLeaves, outcome>>

DispatchResolveAndDestroy ==
    /\ helper.at = "dispatch"
    /\ Dispatched
    /\ HelperGoto("gone")
    /\ UNCHANGED <<streamState, stream, received, sharedData, outcome>>

\* A condition variable may wake its waiter without a notification.
SpuriousHelperWakeup ==
    /\ helper.asleep # "no"
    /\ helper' = [helper EXCEPT !.asleep = "no"]
    /\ UNCHANGED <<helperLeaves, outcome>>

-----------------------------------------------------------------------------
\* What the stream thread does in a callback it is in, and the callbacks.
InCallback ==
    \/ StartOffThread \/ EnterCode \/ ConsumeCode \/ EnterTail \/ ConsumeTail
    \/ NotifyCodeBytes \/ NotifyStreamEnd \/ SetClosedAfterHelperThreadStarted
    \/ DispatchBeforeHelperThreadStarted

Callback == ConsumeEnv \/ ConsumeChunk \/ StreamError \/ StreamEnd

HelperStep == \/ RunTask \/ DecodeEnv \/ DecodeCode \/ AwaitStreamEnd
              \/ AwaitClosed \/ DispatchResolveAndDestroy

\* All that does not make a module.
StreamStep == \/ ConsumeStream \/ Resolve \/ InCallback \/ Callback
              \/ HelperStep \/ SpuriousHelperWakeup
              \/ StreamEndInEnv(FALSE) \/ FinishModule(FALSE)

\* The two ways to compile a module, and the cached one.
MakesModule == StreamEndInEnv(TRUE) \/ FinishModule(TRUE)

-----------------------------------------------------------------------------
\* Properties.

TaskDeleted == promise \in {"resolved", "rejected", "unsettled", "dropped"}
Truncated   == reached /\ received < CodeSize

\* The task is dispatched once, by the stream thread or by the helper, and is
\* deleted only when neither will touch it again ("lest consumeChunk() or
\* streamEnd() be called on a dead object"); resolve() finds the stream closed,
\* and a module only if nothing failed and every byte of the stream had been
\* seen by the compiler.
DestroyedWhenDone ==
    /\ dispatches <= 1
    /\ promise = "dispatched" \/ TaskDeleted =>
         stream.at \in {"none", "gone"} /\ helper.at \in {"none", "gone"}
    /\ promise = "dispatched" =>
         /\ streamState = "Closed"
         /\ "module" \in outcome =>
              /\ outcome = {"module"} /\ ~streamFailed
              /\ helper.at # "none" => reached /\ received = CodeSize

\* Every stream that has been closed gets its task dispatched, resolved and
\* destroyed and its helper thread back, whichever way it ended and however far
\* the helper was, except one that ended inside the code section.  The promise
\* need not be settled: resolve() may fail.
ClosedStreamIsDestroyed == (streamState = "Closed" /\ ~Truncated) ~> TaskDeleted

\* The same without the exception: "the helper thread will
\* dispatchResolveAndDestroy() after execute() returns, but execute() wait()s
\* for state to be Closed".
EveryStreamIsDestroyed == (streamState = "Closed") ~> TaskDeleted

=============================================================================
