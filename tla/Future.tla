------------------------------- MODULE Future -------------------------------
(***************************************************************************)
(* future/: futures that goroutines fulfill, callbacks that are registered *)
(* while that happens, and a future derived from others by Combine,        *)
(* CombineNoShortCircuit, Map or FlatMap, with or without a context.       *)
(*                                                                         *)
(* Sources are fulfilled by the goroutines Go starts, or by several that   *)
(* share a promise.  One more goroutine awaits the sources one after the   *)
(* other and fulfills the derived future.  A result is the set of those    *)
(* the error comes from; the empty set is a value.                         *)
(***************************************************************************)
EXTENDS Naturals, FiniteSets

CONSTANTS
    N,            \* number of sources
    Completers,   \* of each source: the goroutines that fulfill it
    Modes,        \* how the derived future may be made
    Watchers,     \* callbacks
    On,           \* the future each callback is registered with, 0 the derived one
    Hears         \* of each callback: "result", "success" or "error"

Sources == 1..N
Futures == 0..N
Go == UNION {Completers[f] : f \in Sources}   \* goroutines that fulfill sources
Comb == "comb"                                \* the one of the derived future
Gs == Go \cup {Comb}
Ctx == 0                                      \* whose error a canceled context is
Fn == N + 1                                   \* ... and the function given to Map
Unfulfilled == {N + 2}                        \* no result yet
AllModes == {"combine", "combineCtx", "all", "allCtx", "map", "mapCtx"}

\* A goroutine fulfills one future; Map and FlatMap have a source.
ASSUME FutureAssumption ==
    /\ N \in Nat /\ Modes \subseteq AllModes
    /\ N = 0 => Modes \cap {"map", "mapCtx"} = {}
    /\ Completers \in [Sources -> SUBSET Go] /\ {Comb, "nobody"} \cap Go = {}
    /\ \A e, f \in Sources : e # f => Completers[e] \cap Completers[f] = {}
    /\ On \in [Watchers -> Futures]
    /\ Hears \in [Watchers -> {"result", "success", "error"}]

VARIABLES
    mode,        \* how the derived future is made
    once,        \* sync.Once of each future: "free", "busy" or "done"
    mu,          \* the goroutine that holds the mutex of each future, or "nobody"
    result,      \* of each future, Unfulfilled before it is written
    ready,       \* whether resultReady of each future is closed
    callbacks,   \* the callbacks registered with each future
    fpc,         \* where each goroutine is
    res,         \* what each goroutine fulfills its future with
    todo,        \* the callbacks fulfill has taken out of the lists
    at,          \* the source the derived future's goroutine awaits
    errs,        \* the errors it has collected
    wpc,         \* whether each callback was registered: "out" or "over"
    calls,       \* how often each callback was started
    fcanceled    \* whether the context is canceled

futVars == <<once, mu, result, ready, callbacks>>
goVars  == <<fpc, res, todo, at, errs>>
futureVars == <<mode, futVars, goVars, wpc, calls, fcanceled>>

Of(g) == IF g = Comb THEN 0 ELSE CHOOSE f \in Sources : g \in Completers[f]

FutureInit ==
    /\ mode \in Modes
    /\ once = [f \in Futures |-> "free"]
    /\ mu = [f \in Futures |-> "nobody"]
    /\ result = [f \in Futures |-> Unfulfilled]
    /\ ready = [f \in Futures |-> FALSE]
    /\ callbacks = [f \in Futures |-> {}]
    /\ fpc = [g \in Gs |-> "run"]
    /\ res = [g \in Gs |-> {}] /\ todo = res
    /\ at = 1 /\ errs = {}
    /\ wpc = [w \in Watchers |-> "out"]
    /\ calls = [w \in Watchers |-> 0]
    /\ fcanceled = FALSE

-----------------------------------------------------------------------------
(* Pieces; those named ..._x are wrong on purpose.                         *)

Goto(g, from, to) == fpc[g] = from /\ fpc' = [fpc EXCEPT ![g] = to]

\* A callback of this kind is called for this result.
Matches_x(w, r) == Hears[w] = "error" => r # {}
Matches(w, r) ==
    CASE Hears[w] = "result"  -> TRUE
      [] Hears[w] = "success" -> r = {}
      [] Hears[w] = "error"   -> r # {}

\* Each callback of ws that matches is started in a goroutine of its own.
Invoke(ws, r) ==
    calls' = [w \in Watchers |-> IF w \in ws /\ Matches(w, r) THEN calls[w] + 1 ELSE calls[w]]

\* The mutex can be taken.
Free_x(f) == TRUE
Free(f) == mu[f] = "nobody"

Mapped == mode \in {"map", "mapCtx"}

\* The derived future has all the sources it waits for.
Awaited_x == at >= N
Awaited == at > (IF Mapped THEN 1 ELSE N)

\* The channel of a future is closed, so that its result may be read.
Signaled(f) == ready[f]

WithContext == mode \in {"combineCtx", "allCtx", "mapCtx"}
StopsAtError == mode \notin {"all", "allCtx"}

-----------------------------------------------------------------------------
(* A goroutine of Go runs its function; a panic counts as an error.        *)
Finish_x(g, ok) ==
    /\ g \in Go
    /\ Goto(g, "run", IF ok THEN "once" ELSE "over")
    /\ UNCHANGED <<mode, futVars, res, todo, at, errs, wpc, calls, fcanceled>>
Finish(g, ok) ==
    /\ g \in Go
    /\ Goto(g, "run", "once")
    /\ res' = [res EXCEPT ![g] = IF ok THEN {} ELSE {Of(g)}]
    /\ UNCHANGED <<mode, futVars, todo, at, errs, wpc, calls, fcanceled>>

-----------------------------------------------------------------------------
(* The goroutine of the derived future                                     *)

CombEnds(r) ==
    /\ fpc[Comb] \in {"run", "wait"}
    /\ fpc' = [fpc EXCEPT ![Comb] = "once"]
    /\ res' = [res EXCEPT ![Comb] = r]
    /\ UNCHANGED <<mode, futVars, todo, at, errs, wpc, calls, fcanceled>>

CombGoesOn(es) ==
    /\ fpc[Comb] \in {"run", "wait"}
    /\ fpc' = [fpc EXCEPT ![Comb] = "run"]
    /\ at' = at + 1 /\ errs' = es
    /\ UNCHANGED <<mode, futVars, res, todo, wpc, calls, fcanceled>>

\* The Combine functions look at the context before they await a source.
CombCanceled ==
    /\ WithContext /\ ~Mapped /\ fcanceled /\ ~Awaited
    /\ fpc[Comb] = "run" /\ CombEnds({Ctx})

\* AwaitContext finds no result and waits for that or the context ...
CombWaits ==
    /\ WithContext /\ ~Awaited /\ ~Signaled(at)
    /\ Goto(Comb, "run", "wait")
    /\ UNCHANGED <<mode, futVars, res, todo, at, errs, wpc, calls, fcanceled>>

\* ... and if both come, either.  A canceled wait counts as an error of the source.
CombGivesUp ==
    /\ fpc[Comb] = "wait" /\ fcanceled
    /\ IF StopsAtError THEN CombEnds({Ctx}) ELSE CombGoesOn(errs \cup {Ctx})

\* Await or AwaitContext of the next source.
CombAwaits ==
    /\ ~Awaited /\ Signaled(at)
    /\ IF StopsAtError /\ result[at] # {} THEN CombEnds(result[at])
                                          ELSE CombGoesOn(errs \cup result[at])

\* Everything was awaited; Map calls its function, which may fail.
CombDone ==
    /\ Awaited
    /\ \/ CombEnds(errs)
       \/ Mapped /\ CombEnds({Fn})

-----------------------------------------------------------------------------
(* fulfill                                                                 *)

\* Whether once.Do lets a goroutine in.
FirstTime_x(f) == once[f] # "busy"
FirstTime(f) == once[f] = "free"

\* The callbacks are taken out and the result is written under the mutex ...
EnterOnce(g) ==
    /\ FirstTime(Of(g)) /\ Free(Of(g))
    /\ Goto(g, "once", "close")
    /\ once' = [once EXCEPT ![Of(g)] = "busy"]
    /\ mu' = [mu EXCEPT ![Of(g)] = g]
    /\ todo' = [todo EXCEPT ![g] = callbacks[Of(g)]]
    /\ callbacks' = [callbacks EXCEPT ![Of(g)] = {}]
    /\ result' = [result EXCEPT ![Of(g)] = res[g]]
    /\ UNCHANGED <<mode, ready, res, at, errs, wpc, calls, fcanceled>>

\* A later call waits for the first and does nothing.
SkipOnce(g) ==
    /\ once[Of(g)] = "done" /\ ~FirstTime(Of(g))
    /\ Goto(g, "once", "over")
    /\ UNCHANGED <<mode, futVars, res, todo, at, errs, wpc, calls, fcanceled>>

\* ... then everybody is told and the mutex given back.
CloseReady(g) ==
    /\ Goto(g, "close", "invoke")
    /\ ready' = [ready EXCEPT ![Of(g)] = TRUE]
    /\ mu' = [mu EXCEPT ![Of(g)] = "nobody"]
    /\ UNCHANGED <<mode, once, result, callbacks, res, todo, at, errs, wpc, calls, fcanceled>>

InvokeAll(g) ==
    /\ Goto(g, "invoke", "over")
    /\ Invoke(todo[g], res[g])
    /\ once' = [once EXCEPT ![Of(g)] = "done"]
    /\ UNCHANGED <<mode, mu, result, ready, callbacks, res, todo, at, errs, wpc, fcanceled>>

-----------------------------------------------------------------------------
(* OnResult, OnSuccess, OnError and their variants with a context          *)

Watch(w) ==
    /\ wpc[w] = "out" /\ Free(On[w])
    /\ wpc' = [wpc EXCEPT ![w] = "over"]
    /\ IF ready[On[w]]
       THEN Invoke({w}, result[On[w]]) /\ UNCHANGED callbacks
       ELSE callbacks' = [callbacks EXCEPT ![On[w]] = @ \cup {w}] /\ UNCHANGED calls
    /\ UNCHANGED <<mode, once, mu, result, ready, goVars, fcanceled>>

-----------------------------------------------------------------------------
CancelAwait ==
    /\ ~fcanceled
    /\ fcanceled' = TRUE
    /\ UNCHANGED <<mode, futVars, goVars, wpc, calls>>

-----------------------------------------------------------------------------
CombStep == CombCanceled \/ CombWaits \/ CombGivesUp \/ CombAwaits \/ CombDone
FulfillStep(g) ==
    \/ EnterOnce(g) \/ SkipOnce(g) \/ CloseReady(g) \/ InvokeAll(g)

FutureNext ==
    \/ \E g \in Gs : FulfillStep(g) \/ \E ok \in BOOLEAN : Finish(g, ok)
    \/ CombStep
    \/ \E w \in Watchers : Watch(w)
    \/ CancelAwait

FutureSpec == FutureInit /\ [][FutureNext]_futureVars

\* Every goroutine goes on and functions return.
FutureFairness ==
    /\ \A g \in Gs : WF_futureVars(FulfillStep(g))
    /\ \A g \in Go : WF_futureVars(\E ok \in BOOLEAN : Finish(g, ok))
    /\ WF_futureVars(CombStep)

FutureFairSpec == FutureSpec /\ FutureFairness

-----------------------------------------------------------------------------
(* Safety                                                                  *)

Culprits == Sources \cup {Ctx, Fn}

FutureTypeOK ==
    /\ mode \in Modes /\ fcanceled \in BOOLEAN
    /\ once \in [Futures -> {"free", "busy", "done"}]
    /\ mu \in [Futures -> Gs \cup {"nobody"}]
    /\ result \in [Futures -> (SUBSET Culprits) \cup {Unfulfilled}]
    /\ ready \in [Futures -> BOOLEAN]
    /\ callbacks \in [Futures -> SUBSET Watchers]
    /\ fpc \in [Gs -> {"run", "wait", "once", "close", "invoke", "over"}]
    /\ res \in [Gs -> SUBSET Culprits] /\ todo \in [Gs -> SUBSET Watchers]
    /\ at \in 1..(N + 1) /\ errs \subseteq Culprits
    /\ wpc \in [Watchers -> {"out", "over"}]
    /\ calls \in [Watchers -> Nat]

\* A callback is called at most once, after the future is fulfilled, and only
\* for a result it was registered for, however the registration and the
\* fulfillment overlap.
CallbacksFit ==
    FutureTypeOK /\
    \A w \in Watchers :
       /\ calls[w] <= 1
       /\ calls[w] = 1 => ready[On[w]] /\ Matches(w, result[On[w]])
                          /\ (Hears[w] = "success" => result[On[w]] = {})

\* "later calls are ignored": the result anybody has seen never changes.
ResultIsFinal == [][\A f \in Futures : ready[f] => ready'[f] /\ result'[f] = result[f]]_futureVars

\* A derived value means that every source it awaits succeeded; an error is
\* that of the first source in order that failed (Combine, Map), of all that
\* failed (CombineNoShortCircuit), of the context, or of the function.
Failed == {f \in Sources : ready[f] /\ result[f] # {}}
AllReady == \A f \in Sources : ready[f]
Good(r) == r = {} /\ Failed = {} /\ AllReady
Outcome(r) ==
    /\ mode = "combine" =>
          Good(r) \/ \E f \in Failed : /\ r = {f}
                                      /\ \A e \in 1..(f - 1) : ready[e] /\ e \notin Failed
    /\ mode = "combineCtx" =>
          Good(r) \/ (fcanceled /\ r = {Ctx}) \/ \E f \in Failed : r = {f}
    /\ mode = "all" => AllReady /\ r = Failed
    /\ mode = "allCtx" => (fcanceled /\ Ctx \in r) \/ (AllReady /\ r = Failed)
    /\ Mapped =>
          \/ 1 \in Failed /\ r = {1}
          \/ ready[1] /\ 1 \notin Failed /\ r \in {{}, {Fn}}
          \/ WithContext /\ fcanceled /\ r = {Ctx}
CombineIsTrue == ready[0] => Outcome(result[0])

\* Callbacks and derived futures tell what has happened.
FutureIsTrue == CallbacksFit /\ CombineIsTrue

-----------------------------------------------------------------------------
(* Liveness                                                                *)

\* Every future is fulfilled once the functions have returned: nobody waits
\* for a mutex, a once or a source for ever.
AllFulfilled == <>(\A f \in Futures : ready[f])

\* A callback that was registered is called if its kind fits the result, also
\* when it came while the future was being fulfilled.
CallbacksRun ==
    []<>(\A w \in Watchers :
            wpc[w] = "over" /\ ready[On[w]] /\ Matches(w, result[On[w]]) => calls[w] = 1)

=============================================================================
