--------------------------- MODULE Simultaneously ---------------------------
(***************************************************************************)
(* simultaneously/executor.go, collector.go and simultaneously.go: calls   *)
(* of DoCtxWithExecutor run their callbacks on one defaultExecutor, whose  *)
(* buffered channel sem holds a token for every callback that may still be *)
(* started.  The calling goroutine starts the callbacks one after the      *)
(* other with GoContext, then collects one result of each, and cleans up.  *)
(* Close takes all tokens and closes sem.  MapSlice, FlatMapSlice and      *)
(* their siblings for maps and sets are such calls, with callbacks that    *)
(* write into a result under a mutex.                                      *)
(*                                                                         *)
(* A callback that panics has failed: executeCallback recovers.  A callback *)
(* may itself call DoCtxWithExecutor on its executor, or close it: nothing *)
(* keeps it from that.                                                     *)
(***************************************************************************)
EXTENDS Naturals, Sequences, FiniteSets

CONSTANTS
    Callers,        \* who calls DoCtxWithExecutor, once each
    Size,           \* number of callbacks of each call
    MaxConcurrent,  \* tokens of the executor
    Closers,        \* who calls Close of the executor
    Cancellable,    \* the calls whose context may be canceled from outside
    Nestings        \* which callback each of them may be part of

Tasks == UNION {{<<c, i>> : i \in 1..Size[c]} : c \in Callers}
Of(c) == {t \in Tasks : t[1] = c}
Outside == <<>>

ASSUME SimultaneouslyAssumption ==
    /\ MaxConcurrent \in Nat \ {0}
    /\ Size \in [Callers -> Nat]
    /\ Cancellable \subseteq Callers
    /\ IsFiniteSet(Callers)
    /\ Nestings \subseteq [Callers \cup Closers -> Tasks \cup {Outside}]

VARIABLES
    sem,        \* tokens in the channel sem
    closed,     \* the flag closed
    semClosed,  \* whether the channel sem is closed
    drained,    \* tokens Close has taken
    early,      \* whether Close was called before the calls had returned
    kpc,        \* where each closer is
    within,     \* the callback each call is made in, or Outside
    pc,         \* where each caller is
    next,       \* the callback each caller starts, or the number of all plus one
    canceled,   \* whether the context of each call is canceled
    outside,    \* whether it was canceled from outside
    wg,         \* counter of the collector's WaitGroup
    errorChan,  \* errors waiting for the collector: the callbacks they come from
    doneChan,   \* successes waiting for the collector
    gone,       \* whether the collector has closed both channels
    errs,       \* errors collected, in the order of collection
    got,        \* results collected
    tpc,        \* where each callback is
    holds,      \* the callbacks whose goroutine has a token
    outcome,    \* how each callback ended
    crashed     \* a send on, or a close of, a closed channel

execVars == <<sem, closed, semClosed, drained, early, kpc, within>>
callVars == <<pc, next, canceled, outside, wg, errorChan, doneChan, gone, errs, got>>
taskVars == <<tpc, holds, outcome>>
vars == <<execVars, callVars, taskVars, crashed>>

Init ==
    /\ within \in Nestings
    /\ sem = MaxConcurrent /\ closed = FALSE /\ semClosed = FALSE /\ drained = 0 /\ early = FALSE
    /\ kpc = [k \in Closers |-> "out"]
    /\ pc = [c \in Callers |-> "first"]
    /\ next = [c \in Callers |-> 1]
    /\ canceled = [c \in Callers |-> FALSE] /\ outside = canceled
    /\ wg = [c \in Callers |-> 0]
    /\ errorChan = [c \in Callers |-> <<>>] /\ doneChan = wg
    /\ gone = canceled /\ errs = errorChan /\ got = wg
    /\ tpc = [t \in Tasks |-> "new"] /\ holds = {}
    /\ outcome = [t \in Tasks |-> "none"]
    /\ crashed = FALSE

-----------------------------------------------------------------------------
(* Pieces of the steps; those named ..._x are wrong on purpose.            *)

Current(c) == <<c, next[c]>>

Goto(c, from, to) == pc[c] = from /\ pc' = [pc EXCEPT ![c] = to]
GotoT(t, from, to) == tpc[t] = from /\ tpc' = [tpc EXCEPT ![t] = to]

\* A call made in a callback goes on in the goroutine of the callback, as long
\* as that is running.
Active(g) == within[g] # Outside => tpc[within[g]] = "fn"

\* What a callback has begun: a call that has not returned, a Close that waits.
Calling(t) ==
    \/ \E c \in Callers : within[c] = t /\ <<pc[c], next[c]>> # <<"first", 1>> /\ pc[c] # "returned"
    \/ \E k \in Closers : within[k] = t /\ kpc[k] = "drain"

\* A goroutine puts a token into sem.
Give_x(t) == UNCHANGED sem
Give(t) == sem' = sem + 1

\* done is called with an error before the callback was started.
Refuse(c, why) ==
    /\ outcome' = [outcome EXCEPT ![Current(c)] = why]
    /\ tpc' = [tpc EXCEPT ![Current(c)] = "report"]

\* What is left of a Close that has taken n tokens.
AllDrained_x(n) == n + 1 >= MaxConcurrent
AllDrained(n) == n >= MaxConcurrent

\* The collector closes its channels once every callback has called Done.
AllDone_x(c) == TRUE
AllDone(c) == wg[c] = 0

\* The context an error leaves behind.
Canceling(t) == [canceled EXCEPT ![t[1]] = @ \/ outcome[t] # "ok"]

\* The collector has one result of every callback.
Complete(c) == got[c] = Size[c]

-----------------------------------------------------------------------------
(* The caller: launchAll and GoContext                                     *)

\* waitGroup.Add and the first check of closed.
First(c) ==
    /\ next[c] <= Size[c]
    /\ wg' = [wg EXCEPT ![c] = @ + 1]
    /\ IF closed THEN Goto(c, "first", "inDone") /\ Refuse(c, "closed")
                 ELSE Goto(c, "first", "select") /\ UNCHANGED <<tpc, outcome>>
    /\ UNCHANGED <<execVars, next, canceled, outside, errorChan, doneChan, gone, errs, got,
                   holds, crashed>>

SelectCanceled(c) ==
    /\ canceled[c]
    /\ Goto(c, "select", "inDone")
    /\ Refuse(c, "canceled")
    /\ UNCHANGED <<execVars, next, canceled, outside, wg, errorChan, doneChan, gone, errs,
                   got, holds, crashed>>

\* A token is received, or the zero value of the closed channel.
SelectToken(c) ==
    /\ sem > 0 \/ semClosed
    /\ sem' = IF sem > 0 THEN sem - 1 ELSE sem
    /\ Goto(c, "select", "second")
    /\ UNCHANGED <<closed, semClosed, drained, early, kpc, within, next, canceled, outside, wg,
                   errorChan, doneChan, gone, errs, got, taskVars, crashed>>

\* The second check of closed.  The goroutine of the callback is started ...
Start(c) ==
    /\ ~closed
    /\ Goto(c, "second", "first")
    /\ tpc' = [tpc EXCEPT ![Current(c)] = "go"]
    /\ holds' = holds \cup {Current(c)}
    /\ next' = [next EXCEPT ![c] = @ + 1]
    /\ UNCHANGED <<execVars, canceled, outside, wg, errorChan, doneChan, gone, errs, got,
                   outcome, crashed>>

\* ... or the token goes back; the send panics if Close has closed sem.
PutBack(c) ==
    /\ closed
    /\ Goto(c, "second", "inDone")
    /\ IF semClosed THEN crashed' = TRUE /\ UNCHANGED sem
                    ELSE Give(Current(c)) /\ UNCHANGED crashed
    /\ Refuse(c, "closed")
    /\ UNCHANGED <<closed, semClosed, drained, early, kpc, within, next, canceled, outside, wg,
                   errorChan, doneChan, gone, errs, got, holds>>

\* The call of done by the caller itself has returned.
Refused(c) ==
    /\ Goto(c, "inDone", "first")
    /\ tpc[Current(c)] = "over"
    /\ next' = [next EXCEPT ![c] = @ + 1]
    /\ UNCHANGED <<execVars, canceled, outside, wg, errorChan, doneChan, gone, errs, got,
                   taskVars, crashed>>

-----------------------------------------------------------------------------
(* The caller: collectResults and cleanup                                  *)

Launched(c) == pc[c] = "first" /\ next[c] > Size[c]

CollectError(c) ==
    /\ Launched(c) /\ ~Complete(c) /\ errorChan[c] # <<>>
    /\ errs' = [errs EXCEPT ![c] = Append(@, Head(errorChan[c]))]
    /\ errorChan' = [errorChan EXCEPT ![c] = Tail(@)]
    /\ got' = [got EXCEPT ![c] = @ + 1]
    /\ UNCHANGED <<execVars, pc, next, canceled, outside, wg, doneChan, gone, taskVars,
                   crashed>>

CollectDone(c) ==
    /\ Launched(c) /\ ~Complete(c) /\ doneChan[c] > 0
    /\ doneChan' = [doneChan EXCEPT ![c] = @ - 1]
    /\ got' = [got EXCEPT ![c] = @ + 1]
    /\ UNCHANGED <<execVars, pc, next, canceled, outside, wg, errorChan, gone, errs,
                   taskVars, crashed>>

\* cleanup waits, closes the channels; then the context is canceled.
Return(c) ==
    /\ Launched(c) /\ Complete(c) /\ AllDone(c)
    /\ pc' = [pc EXCEPT ![c] = "returned"]
    /\ gone' = [gone EXCEPT ![c] = TRUE]
    /\ canceled' = [canceled EXCEPT ![c] = TRUE]
    /\ UNCHANGED <<execVars, next, outside, wg, errorChan, doneChan, errs, got, taskVars,
                   crashed>>

-----------------------------------------------------------------------------
(* The goroutine of a callback: executeCallback, done, the token           *)

\* The context is canceled before the callback is run.
Skip(t) ==
    /\ canceled[t[1]]
    /\ GotoT(t, "go", "report")
    /\ outcome' = [outcome EXCEPT ![t] = "canceled"]
    /\ UNCHANGED <<execVars, callVars, holds, crashed>>

Run(t) ==
    /\ ~canceled[t[1]]
    /\ GotoT(t, "go", "fn")
    /\ UNCHANGED <<execVars, callVars, holds, outcome, crashed>>

\* The callback returns, after what it calls; it may notice that its context is
\* canceled.
End(t, how) ==
    /\ ~Calling(t)
    /\ how \in {"ok", "failed"} \cup {x \in {"canceled"} : canceled[t[1]]}
    /\ GotoT(t, "fn", "report")
    /\ outcome' = [outcome EXCEPT ![t] = how]
    /\ UNCHANGED <<execVars, callVars, holds, crashed>>

\* done: an error cancels the context of the call ...
Report(t) ==
    /\ GotoT(t, "report", "send")
    /\ canceled' = Canceling(t)
    /\ UNCHANGED <<execVars, pc, next, outside, wg, errorChan, doneChan, gone, errs, got,
                   holds, outcome, crashed>>

\* ... the result is sent; on a closed channel the send panics ...
Send(t) ==
    /\ GotoT(t, "send", "signal")
    /\ IF outcome[t] = "ok"
       THEN doneChan' = [doneChan EXCEPT ![t[1]] = @ + 1] /\ UNCHANGED errorChan
       ELSE errorChan' = [errorChan EXCEPT ![t[1]] = Append(@, t)] /\ UNCHANGED doneChan
    /\ crashed' = gone[t[1]]
    /\ UNCHANGED <<execVars, pc, next, canceled, outside, wg, gone, errs, got, holds, outcome>>

\* ... and the deferred waitGroup.Done runs.
Signal(t) ==
    /\ GotoT(t, "signal", IF t \in holds THEN "release" ELSE "over")
    /\ wg' = [wg EXCEPT ![t[1]] = @ - 1]
    /\ UNCHANGED <<execVars, pc, next, canceled, outside, errorChan, doneChan, gone, errs,
                   got, holds, outcome, crashed>>

Release(t) ==
    /\ GotoT(t, "release", "over")
    /\ holds' = holds \ {t}
    /\ Give(t)
    /\ crashed' = semClosed
    /\ UNCHANGED <<closed, semClosed, drained, early, kpc, within, callVars, outcome>>

-----------------------------------------------------------------------------
(* Close, and the context from outside                                     *)

Close(k) ==
    /\ kpc[k] = "out" /\ Active(k)
    /\ kpc' = [kpc EXCEPT ![k] = IF closed THEN "refused" ELSE "drain"]
    /\ closed' = TRUE
    /\ early' = (early \/ \E c \in Callers : pc[c] # "returned")
    /\ UNCHANGED <<sem, semClosed, drained, within, callVars, taskVars, crashed>>

Drain(k) ==
    /\ kpc[k] = "drain" /\ ~AllDrained(drained) /\ sem > 0
    /\ sem' = sem - 1 /\ drained' = drained + 1
    /\ UNCHANGED <<closed, semClosed, early, kpc, within, callVars, taskVars, crashed>>

CloseSem(k) ==
    /\ kpc[k] = "drain" /\ AllDrained(drained)
    /\ semClosed' = TRUE
    /\ kpc' = [kpc EXCEPT ![k] = "returned"]
    /\ UNCHANGED <<sem, closed, drained, early, within, callVars, taskVars, crashed>>

CancelOutside(c) ==
    /\ c \in Cancellable /\ ~outside[c] /\ pc[c] # "returned"
    /\ canceled' = [canceled EXCEPT ![c] = TRUE]
    /\ outside' = [outside EXCEPT ![c] = TRUE]
    /\ UNCHANGED <<execVars, pc, next, wg, errorChan, doneChan, gone, errs, got, taskVars,
                   crashed>>

-----------------------------------------------------------------------------
CallerStep(c) ==
    /\ Active(c)
    /\ \/ First(c) \/ SelectCanceled(c) \/ SelectToken(c) \/ Start(c) \/ PutBack(c)
       \/ Refused(c) \/ CollectError(c) \/ CollectDone(c) \/ Return(c)

TaskStep(t) ==
    \/ Skip(t) \/ Run(t) \/ \E how \in {"ok", "failed", "canceled"} : End(t, how)
    \/ Report(t) \/ Send(t) \/ Signal(t) \/ Release(t)

CloserStep(k) == Drain(k) \/ CloseSem(k)

\* A panic outside of a callback ends the process.
Next ==
    /\ ~crashed
    /\ \/ \E c \in Callers : CallerStep(c) \/ CancelOutside(c)
       \/ \E t \in Tasks : TaskStep(t)
       \/ \E k \in Closers : Close(k) \/ CloserStep(k)

Spec == Init /\ [][Next]_vars

\* Every goroutine that can go on does, a callback returns, and a receive on
\* sem is served in the order of arrival: whoever waits gets a token in the end.
Fairness ==
    /\ \A c \in Callers : WF_vars(~crashed /\ CallerStep(c)) /\ SF_vars(~crashed /\ Active(c) /\ SelectToken(c))
    /\ \A t \in Tasks : WF_vars(~crashed /\ TaskStep(t))
    /\ \A k \in Closers : SF_vars(~crashed /\ CloserStep(k))

FairSpec == Spec /\ Fairness
-----------------------------------------------------------------------------
(* Safety                                                                  *)

TypeOK ==
    /\ sem \in 0..MaxConcurrent /\ drained \in 0..MaxConcurrent
    /\ early \in BOOLEAN /\ closed \in BOOLEAN /\ semClosed \in BOOLEAN /\ crashed \in BOOLEAN
    /\ kpc \in [Closers -> {"out", "refused", "drain", "returned"}]
    /\ pc \in [Callers -> {"first", "select", "second", "inDone", "returned"}]
    /\ \A c \in Callers : /\ next[c] \in 1..(Size[c] + 1)
                          /\ wg[c] \in 0..Size[c] /\ doneChan[c] \in 0..Size[c]
                          /\ got[c] \in 0..Size[c]
                          /\ errorChan[c] \in Seq(Of(c)) /\ errs[c] \in Seq(Of(c))
    /\ canceled \in [Callers -> BOOLEAN] /\ outside \in [Callers -> BOOLEAN]
    /\ gone \in [Callers -> BOOLEAN]
    /\ tpc \in [Tasks -> {"new", "go", "fn", "report", "send", "signal", "release", "over"}]
    /\ outcome \in [Tasks -> {"none", "ok", "failed", "canceled", "closed"}]
    /\ holds \subseteq Tasks

\* Callers that have taken a token and not yet decided what to do with it.
Deciding == {c \in Callers : pc[c] = "second"}

\* No token is lost or made up, whichever way a callback or a refused start
\* ends: at most MaxConcurrent callbacks run at once.
TokensConserved ==
    /\ TypeOK
    /\ ~semClosed => sem + drained + Cardinality(holds) + Cardinality(Deciding) = MaxConcurrent

\* A call returns when none of its callbacks is running or about to run, and
\* none is about to use what the call has cleaned up.
ReturnsAfterAll ==
    \A c \in Callers : gone[c] => \A t \in Of(c) : tpc[t] \in {"release", "over"}

\* A call reports no error only if every one of its callbacks ran and succeeded
\* (MapSlice returns its outputs only then).
NilMeansAllRan ==
    \A c \in Callers :
       pc[c] = "returned" /\ errs[c] = <<>> => \A t \in Of(c) : outcome[t] = "ok"

\* A callback is skipped, or told to stop, only if there is a reason: another
\* callback of the same call ended with an error, or the caller canceled.
CancelHasCause ==
    \A c \in Callers :
       canceled[c] => \/ outside[c] \/ pc[c] = "returned"
                      \/ \E t \in Of(c) : outcome[t] \in {"failed", "closed"}

\* What a returned call says of its callbacks, and a skipped one of the others.
ResultsAreTrue == ReturnsAfterAll /\ NilMeansAllRan /\ CancelHasCause

\* Close returns when no callback runs and every later start is refused.
CloseWaits ==
    (\E k \in Closers : kpc[k] = "returned") => holds = {} /\ closed

\* "Now that all goroutines are done, it's safe to close the channel": nobody
\* sends on a closed channel.
NoCrash == ~crashed

\* An executor nobody closes while calls run on it (the one DoCtx makes for
\* itself) brings nobody down.
CrashIsShared == crashed => early

\* What the executor promises of its tokens, of Close and of a crash.
ExecutorIsSound == TokensConserved /\ CloseWaits /\ CrashIsShared

-----------------------------------------------------------------------------
(* Liveness                                                                *)

\* Every token is with a callback that waits for one, in a call on its own
\* executor or in its Close.
Starved == sem = 0 /\ holds # {} /\ \A t \in holds : tpc[t] = "fn" /\ Calling(t)

\* Every call returns, with callbacks that fail, panic or are refused, with a
\* Close at any time, unless that Close makes a call panic; and Close returns
\* although callers keep asking for tokens.  Only callbacks that wait for each
\* other's tokens keep them from it.
CallsOver == crashed \/ \A c \in Callers : within[c] = Outside => pc[c] = "returned"
Closing == \E k \in Closers : kpc[k] = "drain"
CallsReturn == <>[]Starved \/ (<>CallsOver /\ (Closing ~> ~Closing))

=============================================================================
