------------------------------ MODULE CallsProofs ------------------------------
(***************************************************************************)
(* What holds of the helpers that run what a caller gives them.            *)
(* Simultaneously, for any number of calls, of callbacks, of tokens and of *)
(* goroutines that Close.  That which is made on demand, used by many and  *)
(* closed: a lazy value, for any number of goroutines that Get it; a       *)
(* connection pool, for any number of users, idle and dialed connections;  *)
(* the shutdown of a program, for any number of hooks, tasks and signals.  *)
(* retry.Do for any options, with any number of attempts that were given   *)
(* up and still run; and the budget of retries, for any buckets, limits    *)
(* and times.                                                              *)
(***************************************************************************)
EXTENDS Simultaneously, Retry, Budget, Lazy, ConnPool, Shutdown, DistinctSequences,
        FiniteSetTheorems, NaturalsInduction, TLAPS

-----------------------------------------------------------------------------
(* Simultaneously: the inductive invariant                                 *)

Busy == {"go", "fn", "report", "send", "signal"}
Told == {"signal", "release", "over"}
Silent == {"new", "go", "fn"}

\* The callbacks of c that waitGroup counts: from Add, before they start, to Done.
Open(c) ==
    {t \in Of(c) : tpc[t] \in Busy \/ (pc[c] \in {"select", "second"} /\ t = Current(c))}

\* The callbacks of c whose success, or whose error, was sent.
Good(c) == {t \in Of(c) : tpc[t] \in Told /\ outcome[t] = "ok"}
Failures(c) == {t \in Of(c) : tpc[t] \in Told /\ outcome[t] # "ok"}

Typed ==
    /\ sem \in Nat /\ drained \in 0..MaxConcurrent
    /\ early \in BOOLEAN /\ closed \in BOOLEAN /\ semClosed \in BOOLEAN /\ crashed \in BOOLEAN
    /\ kpc \in [Closers -> {"out", "refused", "drain", "returned"}]
    /\ pc \in [Callers -> {"first", "select", "second", "inDone", "returned"}]
    /\ next \in [Callers -> Nat] /\ wg \in [Callers -> Int]
    /\ doneChan \in [Callers -> Nat] /\ got \in [Callers -> Nat]
    /\ errorChan \in [Callers -> Seq(Tasks)] /\ errs \in [Callers -> Seq(Tasks)]
    /\ canceled \in [Callers -> BOOLEAN] /\ outside \in [Callers -> BOOLEAN]
    /\ gone \in [Callers -> BOOLEAN]
    /\ tpc \in [Tasks -> Busy \cup Told \cup Silent]
    /\ outcome \in [Tasks -> {"none", "ok", "failed", "canceled", "closed"}]
    /\ holds \subseteq Tasks /\ IsFiniteSet(holds)

\* A caller starts its callbacks in order, and is over when it has started all.
Launches ==
    \A c \in Callers :
       /\ next[c] \in 1..(Size[c] + 1)
       /\ pc[c] \in {"select", "second", "inDone"} => next[c] <= Size[c]
       /\ pc[c] = "returned" => next[c] > Size[c]
       /\ gone[c] <=> pc[c] = "returned"
       /\ \A i \in 1..Size[c] :
             tpc[<<c, i>>] = "new" <=> i > next[c] \/ (i = next[c] /\ pc[c] # "inDone")

\* The outcome of a callback is decided once.
Outcomes == \A t \in Tasks : outcome[t] = "none" <=> tpc[t] \in Silent

\* Whoever has a token has started, and gives it back before it is over.
Holding ==
    /\ \A t \in holds : tpc[t] \notin {"new", "over"}
    /\ \A t \in Tasks : tpc[t] = "release" => t \in holds

\* The errors in a channel and among the collected are of the caller's callbacks.
Own == \A c \in Callers : errorChan[c] \in Seq(Of(c)) /\ errs[c] \in Seq(Of(c))

Tokens ==
    ~semClosed => sem + drained + Cardinality(holds) + Cardinality(Deciding) = MaxConcurrent

\* What Close has found and left.
Shut ==
    /\ semClosed => closed /\ sem = 0 /\ holds = {}
    /\ \A k \in Closers : /\ kpc[k] = "drain" => closed
                          /\ kpc[k] = "returned" => semClosed
    /\ closed => early \/ \A c \in Callers : pc[c] = "returned"
    /\ crashed => early

Waiting == \A c \in Callers : wg[c] = Cardinality(Open(c))

\* Errors that wait for the collector, and errors collected.
Unread(c) == Len(errorChan[c])
ReadSoFar(c) == Len(errs[c])

Tallied ==
    \A c \in Callers :
       /\ doneChan[c] + got[c] = Cardinality(Good(c)) + ReadSoFar(c)
       /\ Unread(c) + ReadSoFar(c) = Cardinality(Failures(c))
       /\ ReadSoFar(c) <= got[c] /\ got[c] <= Size[c]
       /\ pc[c] = "returned" => got[c] = Size[c]

Causes ==
    /\ CancelHasCause
    /\ \A t \in Tasks : outcome[t] = "canceled" => canceled[t[1]]

IInv ==
    /\ Typed /\ Launches /\ Outcomes /\ Holding /\ Own /\ Tokens /\ Shut
    /\ Waiting /\ Tallied /\ ReturnsAfterAll /\ Causes

-----------------------------------------------------------------------------
(* Callbacks                                                               *)

\* A callback is named by its call and its number, and a call has Size of them.
LEMMA TaskFacts ==
    /\ \A c \in Callers : \A i \in 1..Size[c] : <<c, i>> \in Tasks /\ <<c, i>> \in Of(c)
    /\ \A t \in Tasks : t[1] \in Callers /\ t[2] \in 1..Size[t[1]] /\ t = <<t[1], t[2]>>
                        /\ t \in Of(t[1])
    /\ \A c \in Callers : Of(c) \subseteq Tasks /\ \A t \in Of(c) : t[1] = c
BY SimultaneouslyAssumption DEF Tasks, Of

LEMMA OfFinite ==
    ASSUME NEW c \in Callers
    PROVE  IsFiniteSet(Of(c)) /\ Cardinality(Of(c)) <= Size[c] /\ Cardinality(Of(c)) \in Nat
<1> DEFINE f == [i \in 1..Size[c] |-> <<c, i>>]
<1>1. Size[c] \in Nat
    BY SimultaneouslyAssumption
<1>2. f \in Surjection(1..Size[c], Of(c))
  <2>1. f \in [1..Size[c] -> Of(c)]
      BY TaskFacts
  <2>2. \A t \in Of(c) : \E i \in 1..Size[c] : f[i] = t
      BY TaskFacts
  <2>3. QED
      BY <2>1, <2>2 DEF Surjection
<1>3. IsFiniteSet(1..Size[c]) /\ Cardinality(1..Size[c]) = Size[c]
    BY <1>1, FS_Interval
<1> HIDE DEF f
<1>4. IsFiniteSet(Of(c)) /\ Cardinality(Of(c)) <= Size[c]
    BY <1>2, <1>3, FS_Surjection
<1>5. QED
    BY <1>4, FS_CardinalityType

\* A set of callbacks of one call is no larger than the call, and if it is as
\* large it is all of them.
LEMMA PartOf ==
    ASSUME NEW c \in Callers, NEW S \in SUBSET Of(c)
    PROVE  /\ IsFiniteSet(S) /\ Cardinality(S) \in Nat /\ Cardinality(S) <= Size[c]
           /\ Cardinality(S) >= Size[c] => S = Of(c)
<1>1. /\ IsFiniteSet(S) /\ Cardinality(S) <= Cardinality(Of(c))
      /\ Cardinality(Of(c)) = Cardinality(S) => Of(c) = S
    BY OfFinite, FS_Subset
<1>2. Cardinality(S) \in Nat
    BY <1>1, FS_CardinalityType
<1>3. Size[c] \in Nat
    BY SimultaneouslyAssumption
<1>4. QED
    BY <1>1, <1>2, <1>3, OfFinite

-----------------------------------------------------------------------------
(* The initial states                                                      *)

\* At first no callback has started, no token is taken and nobody waits.
LEMMA InitIInv == Init => IInv
<1> SUFFICES ASSUME Init PROVE IInv
    OBVIOUS
<1> USE DEF Init
<1>1. \A c \in Callers : Open(c) = {} /\ Good(c) = {} /\ Failures(c) = {}
    BY TaskFacts DEF Open, Good, Failures, Busy, Told
<1>2. Deciding = {} /\ holds = {} /\ Cardinality({}) = 0 /\ IsFiniteSet({})
    BY FS_EmptySet DEF Deciding
<1>3. MaxConcurrent \in Nat /\ \A c \in Callers : Size[c] \in Nat
    BY SimultaneouslyAssumption
<1>4. Typed
  <2>1. errorChan \in [Callers -> Seq(Tasks)] /\ errs \in [Callers -> Seq(Tasks)]
      OBVIOUS
  <2>2. /\ sem \in Nat /\ drained \in 0..MaxConcurrent
        /\ next \in [Callers -> Nat] /\ wg \in [Callers -> Int]
        /\ doneChan \in [Callers -> Nat] /\ got \in [Callers -> Nat]
      BY <1>3
  <2>3. /\ kpc \in [Closers -> {"out", "refused", "drain", "returned"}]
        /\ pc \in [Callers -> {"first", "select", "second", "inDone", "returned"}]
        /\ tpc \in [Tasks -> Busy \cup Told \cup Silent]
        /\ outcome \in [Tasks -> {"none", "ok", "failed", "canceled", "closed"}]
      BY DEF Silent
  <2>4. QED
      BY <2>1, <2>2, <2>3, <1>2 DEF Typed
<1>5. Launches
  <2> SUFFICES ASSUME NEW c \in Callers, NEW i \in 1..Size[c]
               PROVE  /\ next[c] \in 1..(Size[c] + 1)
                      /\ tpc[<<c, i>>] = "new" <=> i > next[c] \/ (i = next[c] /\ pc[c] # "inDone")
      BY <1>3 DEF Launches
  <2>1. tpc[<<c, i>>] = "new"
      BY TaskFacts
  <2>2. QED
      BY <2>1, <1>3
<1>6. Outcomes /\ Holding /\ Own /\ Shut /\ Causes /\ ReturnsAfterAll
    BY <1>2 DEF Outcomes, Holding, Own, Shut, Causes, CancelHasCause, ReturnsAfterAll, Silent
<1>7. Tokens
    BY <1>2, <1>3 DEF Tokens
<1>8. Waiting /\ Tallied
  <2> SUFFICES ASSUME NEW c \in Callers
               PROVE  /\ wg[c] = Cardinality(Open(c)) /\ got[c] <= Size[c]
                      /\ doneChan[c] + got[c] = Cardinality(Good(c)) + ReadSoFar(c)
                      /\ Unread(c) + ReadSoFar(c) = Cardinality(Failures(c))
                      /\ ReadSoFar(c) <= got[c] /\ pc[c] # "returned"
      BY DEF Waiting, Tallied
  <2>1. Cardinality(Open(c)) = 0 /\ Cardinality(Good(c)) = 0 /\ Cardinality(Failures(c)) = 0
      BY <1>1, <1>2
  <2>2. /\ wg[c] = 0 /\ got[c] = 0 /\ doneChan[c] = 0 /\ pc[c] = "first"
        /\ ReadSoFar(c) = 0 /\ Unread(c) = 0
      BY DEF ReadSoFar, Unread
  <2>3. QED
      BY <2>1, <2>2, <1>3
<1>9. QED
    BY <1>4, <1>5, <1>6, <1>7, <1>8 DEF IInv

-----------------------------------------------------------------------------
(* The steps, one conjunct of the invariant at a time                      *)

\* A caller that has not started all its callbacks has one it is about to start.
LEMMA CurrentFacts ==
    ASSUME IInv, NEW c \in Callers, next[c] <= Size[c]
    PROVE  /\ Current(c) \in Tasks /\ Current(c) \in Of(c) /\ Current(c)[1] = c
           /\ next[c] \in 1..Size[c] /\ Current(c) = <<c, next[c]>>
<1>1. next[c] \in 1..(Size[c] + 1) /\ Size[c] \in Nat
    BY SimultaneouslyAssumption DEF IInv, Launches
<1>2. next[c] \in 1..Size[c]
    BY <1>1
<1>3. QED
    BY <1>2, TaskFacts DEF Current

\* Adding or removing one callback leaves the holders finite.
LEMMA HoldersFinite ==
    ASSUME IsFiniteSet(holds), NEW t
    PROVE  IsFiniteSet(holds \cup {t}) /\ IsFiniteSet(holds \ {t})
BY FS_AddElement, FS_RemoveElement

\* Every variable keeps its type, whichever goroutine goes on.
LEMMA TypedStep == IInv /\ [Next]_vars => Typed'
<1> SUFFICES ASSUME IInv, [Next]_vars PROVE Typed'
    OBVIOUS
<1>1. Typed /\ MaxConcurrent \in Nat
    BY SimultaneouslyAssumption DEF IInv
<1>2. CASE UNCHANGED vars
    BY <1>1, <1>2 DEF Typed, vars, execVars, callVars, taskVars
<1>3. ASSUME NEW c \in Callers, CallerStep(c) PROVE Typed'
  <2>1. CASE First(c)
    <3>1. next[c] <= Size[c] /\ Current(c) \in Tasks
        BY <2>1, CurrentFacts DEF First
    <3>2. tpc' \in [Tasks -> Busy \cup Told \cup Silent]
        BY <1>1, <2>1, <3>1 DEF First, Typed, Refuse, Busy
    <3>3. outcome' \in [Tasks -> {"none", "ok", "failed", "canceled", "closed"}]
        BY <1>1, <2>1, <3>1 DEF First, Typed, Refuse
    <3>4. /\ pc' \in [Callers -> {"first", "select", "second", "inDone", "returned"}]
          /\ wg' \in [Callers -> Int]
      <4>1. \/ pc' = [pc EXCEPT ![c] = "inDone"]
            \/ pc' = [pc EXCEPT ![c] = "select"]
          BY <2>1 DEF First, Goto
      <4>2. wg' = [wg EXCEPT ![c] = @ + 1]
          BY <2>1 DEF First
      <4>3. pc' \in [Callers -> {"first", "select", "second", "inDone", "returned"}]
          BY <1>1, <4>1 DEF Typed
      <4>4. wg' \in [Callers -> Int]
          BY <1>1, <4>2 DEF Typed
      <4>5. QED
          BY <4>3, <4>4
    <3>5. QED
        BY <1>1, <2>1, <3>2, <3>3, <3>4 DEF First, Typed, execVars
  <2>2. CASE SelectCanceled(c)
    <3>1. pc[c] = "select" /\ next[c] <= Size[c] /\ Current(c) \in Tasks
        BY <2>2, CurrentFacts DEF SelectCanceled, Goto, IInv, Launches
    <3>2. QED
        BY <1>1, <2>2, <3>1 DEF SelectCanceled, Typed, Goto, Refuse, Busy, execVars
  <2>3. CASE SelectToken(c)
      BY <1>1, <2>3 DEF SelectToken, Typed, Goto, taskVars
  <2>4. CASE Start(c)
    <3>1. pc[c] = "second" /\ next[c] <= Size[c] /\ Current(c) \in Tasks
        BY <2>4, CurrentFacts DEF Start, Goto, IInv, Launches
    <3>2. IsFiniteSet(holds')
        BY <2>4, <1>1, HoldersFinite DEF Start, Typed
    <3>3. QED
        BY <1>1, <2>4, <3>1, <3>2 DEF Start, Typed, Goto, Busy, execVars
  <2>5. CASE PutBack(c)
    <3>1. pc[c] = "second" /\ next[c] <= Size[c] /\ Current(c) \in Tasks
        BY <2>5, CurrentFacts DEF PutBack, Goto, IInv, Launches
    <3>2. sem' \in Nat /\ crashed' \in BOOLEAN
      <4>1. (sem' = sem + 1 /\ crashed' = crashed) \/ (sem' = sem /\ crashed' = TRUE)
          BY <2>5 DEF PutBack, Give
      <4>2. sem' = sem + 1 \/ sem' = sem
          BY <4>1
      <4>3. crashed' = crashed \/ crashed' = TRUE
          BY <4>1
      <4>4. sem' \in Nat
          BY <1>1, <4>2 DEF Typed
      <4>5. QED
          BY <1>1, <4>3, <4>4 DEF Typed
    <3>3. /\ pc' \in [Callers -> {"first", "select", "second", "inDone", "returned"}]
          /\ tpc' \in [Tasks -> Busy \cup Told \cup Silent]
          /\ outcome' \in [Tasks -> {"none", "ok", "failed", "canceled", "closed"}]
        BY <1>1, <2>5, <3>1 DEF PutBack, Typed, Goto, Refuse, Busy
    <3>4. QED
        BY <1>1, <2>5, <3>2, <3>3 DEF PutBack, Typed
  <2>6. CASE Refused(c)
      BY <1>1, <2>6 DEF Refused, Typed, Goto, execVars, taskVars
  <2>7. CASE CollectError(c)
    <3>1. errorChan[c] \in Seq(Tasks) /\ errs[c] \in Seq(Tasks) /\ errorChan[c] # <<>>
        BY <1>1, <2>7 DEF CollectError, Typed
    <3>2. /\ Tail(errorChan[c]) \in Seq(Tasks)
          /\ Append(errs[c], Head(errorChan[c])) \in Seq(Tasks)
        BY <3>1
    <3>3. QED
        BY <1>1, <2>7, <3>2 DEF CollectError, Typed, execVars, taskVars
  <2>8. CASE CollectDone(c)
      BY <1>1, <2>8 DEF CollectDone, Typed, execVars, taskVars
  <2>9. CASE Return(c)
      BY <1>1, <2>9 DEF Return, Typed, execVars, taskVars
  <2>10. QED
      BY <1>3, <2>1, <2>2, <2>3, <2>4, <2>5, <2>6, <2>7, <2>8, <2>9 DEF CallerStep
<1>4. ASSUME NEW c \in Callers, CancelOutside(c) PROVE Typed'
    BY <1>1, <1>4 DEF CancelOutside, Typed, execVars, taskVars
<1>5. ASSUME NEW t \in Tasks, TaskStep(t) PROVE Typed'
  <2>1. t[1] \in Callers
      BY TaskFacts
  <2>2. CASE Skip(t)
      BY <1>1, <2>2 DEF Skip, Typed, GotoT, Busy, execVars, callVars
  <2>3. CASE Run(t)
      BY <1>1, <2>3 DEF Run, Typed, GotoT, Busy, execVars, callVars
  <2>4. CASE \E how \in {"ok", "failed", "canceled"} : End(t, how)
      BY <1>1, <2>4 DEF End, Typed, GotoT, Busy, execVars, callVars
  <2>5. CASE Report(t)
      BY <1>1, <2>1, <2>5 DEF Report, Canceling, Typed, GotoT, Busy, execVars
  <2>6. CASE Send(t)
    <3>1. errorChan[t[1]] \in Seq(Tasks) /\ Append(errorChan[t[1]], t) \in Seq(Tasks)
        BY <1>1, <2>1 DEF Typed
    <3>2. doneChan' \in [Callers -> Nat] /\ errorChan' \in [Callers -> Seq(Tasks)]
      <4>1. \/ /\ doneChan' = [doneChan EXCEPT ![t[1]] = @ + 1]
               /\ errorChan' = errorChan
            \/ /\ doneChan' = doneChan
               /\ errorChan' = [errorChan EXCEPT ![t[1]] = Append(@, t)]
          BY <2>6 DEF Send
      <4>2. doneChan \in [Callers -> Nat] /\ errorChan \in [Callers -> Seq(Tasks)]
          BY <1>1 DEF Typed
      <4>3. doneChan' \in [Callers -> Nat]
          BY <2>1, <4>1, <4>2
      <4>4. errorChan' \in [Callers -> Seq(Tasks)]
          BY <2>1, <3>1, <4>1, <4>2
      <4>5. QED
          BY <4>3, <4>4
    <3>3. tpc' \in [Tasks -> Busy \cup Told \cup Silent]
        BY <1>1, <2>6 DEF Send, Typed, GotoT, Busy
    <3>4. crashed' \in BOOLEAN
        BY <1>1, <2>1, <2>6 DEF Send, Typed
    <3>5. QED
        BY <1>1, <2>6, <3>2, <3>3, <3>4 DEF Send, Typed, execVars
  <2>7. CASE Signal(t)
      BY <1>1, <2>1, <2>7 DEF Signal, Typed, GotoT, Told, execVars
  <2>8. CASE Release(t)
    <3>1. IsFiniteSet(holds')
        BY <2>8, <1>1, HoldersFinite DEF Release, Typed
    <3>2. QED
        BY <1>1, <2>8, <3>1 DEF Release, Typed, GotoT, Told, Give, callVars
  <2>9. QED
      BY <1>5, <2>2, <2>3, <2>4, <2>5, <2>6, <2>7, <2>8 DEF TaskStep
<1>6. ASSUME NEW k \in Closers, Close(k) \/ CloserStep(k) PROVE Typed'
  <2>1. CASE Close(k)
      BY <1>1, <2>1 DEF Close, Typed, callVars, taskVars
  <2>2. CASE Drain(k)
      BY <1>1, <2>2 DEF Drain, AllDrained, Typed, callVars, taskVars
  <2>3. CASE CloseSem(k)
      BY <1>1, <2>3 DEF CloseSem, Typed, callVars, taskVars
  <2>4. QED
      BY <1>6, <2>1, <2>2, <2>3 DEF CloserStep
<1>7. QED
    BY <1>2, <1>3, <1>4, <1>5, <1>6 DEF Next

\* What a goroutine of a callback, a closer or a canceler leaves alone.
LEMMA TaskEffects ==
    ASSUME Typed, NEW t \in Tasks, TaskStep(t)
    PROVE  /\ UNCHANGED <<pc, next, gone, errs, got, closed, semClosed, drained, early, kpc, outside>>
           /\ tpc[t] # "new" /\ tpc'[t] # "new" /\ tpc' = [tpc EXCEPT ![t] = tpc'[t]]
           /\ outcome' = [outcome EXCEPT ![t] = outcome'[t]]
<1>1. tpc[t] # "new" /\ \E s \in (Busy \cup Told) \ {"go"} : tpc' = [tpc EXCEPT ![t] = s]
    BY DEF TaskStep, Skip, Run, End, Report, Send, Signal, Release, GotoT, Busy, Told
<1>2. outcome' = outcome \/ \E how : outcome' = [outcome EXCEPT ![t] = how]
    BY DEF TaskStep, Skip, Run, End, Report, Send, Signal, Release
<1>3. /\ tpc \in [Tasks -> Busy \cup Told \cup Silent]
      /\ outcome \in [Tasks -> {"none", "ok", "failed", "canceled", "closed"}]
    BY DEF Typed
<1>4. outcome' = [outcome EXCEPT ![t] = outcome'[t]]
    BY <1>2, <1>3
<1>5. PICK s \in (Busy \cup Told) \ {"go"} : tpc' = [tpc EXCEPT ![t] = s]
    BY <1>1
<1>6. tpc'[t] = s /\ s # "new"
    BY <1>5, <1>3 DEF Busy, Told
<1>7. UNCHANGED <<pc, next, gone, errs, got, closed, semClosed, drained, early, kpc, outside>>
    BY DEF TaskStep, Skip, Run, End, Report, Send, Signal, Release, execVars, callVars
<1>8. QED
    BY <1>1, <1>4, <1>5, <1>6, <1>7

\* The callbacks before the current one have started and the later ones have not.
LEMMA LaunchesStep == IInv /\ [Next]_vars => Launches'
<1> SUFFICES ASSUME IInv, [Next]_vars PROVE Launches'
    OBVIOUS
<1>1. Typed /\ Launches /\ \A c \in Callers : Size[c] \in Nat
    BY SimultaneouslyAssumption DEF IInv
<1>2. CASE UNCHANGED <<pc, next, gone, tpc>>
    BY <1>1, <1>2 DEF Launches
<1>3. ASSUME NEW c \in Callers, CallerStep(c) PROVE Launches'
  <2> DEFINE L(d) == /\ next[d] \in 1..(Size[d] + 1)
                     /\ pc[d] \in {"select", "second", "inDone"} => next[d] <= Size[d]
                     /\ pc[d] = "returned" => next[d] > Size[d]
                     /\ gone[d] <=> pc[d] = "returned"
                     /\ \A i \in 1..Size[d] :
                          tpc[<<d, i>>] = "new" <=> i > next[d] \/ (i = next[d] /\ pc[d] # "inDone")
  <2>1. \A d \in Callers : L(d)
      BY <1>1 DEF Launches
  <2>2. (\A d \in Callers : L(d)') => Launches'
      BY DEF Launches
  <2>3. \A d \in Callers : d # c => L(d)'
    <3> SUFFICES ASSUME NEW d \in Callers, d # c PROVE L(d)'
        OBVIOUS
    <3>1. pc'[d] = pc[d] /\ next'[d] = next[d] /\ gone'[d] = gone[d]
        BY <1>1, <1>3 DEF CallerStep, First, SelectCanceled, SelectToken, Start, PutBack, Refused,
              CollectError, CollectDone, Return, Goto, Typed
    <3>2. tpc' = tpc \/ \E s : tpc' = [tpc EXCEPT ![Current(c)] = s]
        BY <1>3 DEF CallerStep, First, SelectCanceled, SelectToken, Start, PutBack, Refused,
              CollectError, CollectDone, Return, Refuse, taskVars
    <3>3. \A i \in 1..Size[d] : <<d, i>> \in Tasks /\ <<d, i>> # Current(c)
        BY TaskFacts DEF Current
    <3>4. \A i \in 1..Size[d] : tpc'[<<d, i>>] = tpc[<<d, i>>]
        BY <1>1, <3>2, <3>3 DEF Typed
    <3>5. QED
        BY <2>1, <3>1, <3>4
  <2>4. L(c)'
    <3>1. L(c) /\ Size[c] \in Nat
        BY <1>1, <2>1
    <3>2. \A i \in 1..Size[c] : <<c, i>> \in Tasks
        BY TaskFacts
    <3>3. CASE UNCHANGED <<pc, next, gone, tpc>>
        BY <3>1, <3>3
    <3>4. CASE First(c)
      <4>1. pc[c] = "first" /\ next[c] <= Size[c] /\ UNCHANGED <<next, gone>>
          BY <3>4 DEF First, Goto
      <4>2. \/ pc'[c] = "select" /\ UNCHANGED tpc
            \/ pc'[c] = "inDone" /\ tpc' = [tpc EXCEPT ![<<c, next[c]>>] = "report"]
          BY <1>1, <3>4 DEF First, Goto, Refuse, Typed, Current
      <4>3. CASE pc'[c] = "select" /\ UNCHANGED tpc
          BY <3>1, <4>1, <4>3
      <4>4. CASE pc'[c] = "inDone" /\ tpc' = [tpc EXCEPT ![<<c, next[c]>>] = "report"]
        <5>1. \A i \in 1..Size[c] :
                 tpc'[<<c, i>>] = IF i = next[c] THEN "report" ELSE tpc[<<c, i>>]
            BY <1>1, <3>2, <4>4 DEF Typed
        <5>2. QED
            BY <3>1, <4>1, <4>4, <5>1
      <4>5. QED
          BY <4>2, <4>3, <4>4
    <3>5. CASE SelectCanceled(c) \/ PutBack(c)
      <4>1. /\ pc[c] \in {"select", "second"} /\ pc'[c] = "inDone" /\ UNCHANGED <<next, gone>>
            /\ tpc' = [tpc EXCEPT ![<<c, next[c]>>] = "report"]
          BY <1>1, <3>5 DEF SelectCanceled, PutBack, Goto, Refuse, Typed, Current
      <4>2. QED
          BY <1>1, <3>1, <3>2, <4>1 DEF Typed
    <3>6. CASE SelectToken(c)
      <4>1. /\ pc[c] = "select" /\ pc'[c] = "second" /\ UNCHANGED <<next, gone, tpc>>
          BY <1>1, <3>6 DEF SelectToken, Goto, Typed, taskVars
      <4>2. QED
          BY <3>1, <4>1
    <3>7. CASE Start(c)
      <4>1. /\ pc[c] = "second" /\ pc'[c] = "first" /\ next'[c] = next[c] + 1 /\ UNCHANGED gone
            /\ tpc' = [tpc EXCEPT ![<<c, next[c]>>] = "go"]
          BY <1>1, <3>7 DEF Start, Goto, Typed, Current
      <4>2. QED
          BY <1>1, <3>1, <3>2, <4>1 DEF Typed
    <3>8. CASE Refused(c)
      <4>1. /\ pc[c] = "inDone" /\ pc'[c] = "first" /\ next'[c] = next[c] + 1
            /\ UNCHANGED <<gone, tpc>>
          BY <1>1, <3>8 DEF Refused, Goto, Typed, taskVars
      <4>2. QED
          BY <3>1, <4>1
    <3>9. CASE Return(c)
      <4>1. /\ pc[c] = "first" /\ next[c] > Size[c] /\ UNCHANGED <<next, tpc>>
            /\ pc'[c] = "returned" /\ gone'[c] = TRUE
          BY <1>1, <3>9 DEF Return, Launched, Typed, taskVars
      <4>2. QED
          BY <3>1, <4>1
    <3>10. QED
        BY <1>3, <3>3, <3>4, <3>5, <3>6, <3>7, <3>8, <3>9
           DEF CallerStep, CollectError, CollectDone, taskVars
  <2>5. QED
      BY <2>2, <2>3, <2>4
<1>4. ASSUME NEW t \in Tasks, TaskStep(t) PROVE Launches'
  <2>1. /\ UNCHANGED <<pc, next, gone>>
        /\ tpc[t] # "new" /\ tpc'[t] # "new" /\ tpc' = [tpc EXCEPT ![t] = tpc'[t]]
      BY <1>1, <1>4, TaskEffects
  <2>2. \A u \in Tasks : tpc'[u] = "new" <=> tpc[u] = "new"
      BY <1>1, <2>1 DEF Typed
  <2>3. QED
      BY <1>1, <2>1, <2>2, TaskFacts DEF Launches
<1>5. QED
  <2>1. ASSUME NEW c \in Callers, CancelOutside(c) PROVE UNCHANGED <<pc, next, gone, tpc>>
      BY <2>1 DEF CancelOutside, taskVars
  <2>2. ASSUME NEW k \in Closers, Close(k) \/ CloserStep(k)
        PROVE UNCHANGED <<pc, next, gone, tpc>>
      BY <2>2 DEF Close, CloserStep, Drain, CloseSem, callVars, taskVars
  <2>3. QED
      BY <1>2, <1>3, <1>4, <2>1, <2>2 DEF Next, vars, callVars, taskVars

\* What a caller does to its callbacks: nothing, or it refuses or starts the current one.
TurnsAway(c) ==
    /\ tpc[Current(c)] = "new" /\ tpc' = [tpc EXCEPT ![Current(c)] = "report"]
    /\ \/ outcome' = [outcome EXCEPT ![Current(c)] = "closed"]
       \/ outcome' = [outcome EXCEPT ![Current(c)] = "canceled"] /\ canceled[c]
    /\ pc[c] \in {"first", "select", "second"} /\ next[c] <= Size[c]
    /\ UNCHANGED <<holds, next, gone, canceled>> /\ pc' = [pc EXCEPT ![c] = "inDone"]

Starts(c) ==
    /\ tpc[Current(c)] = "new" /\ tpc' = [tpc EXCEPT ![Current(c)] = "go"]
    /\ pc[c] = "second" /\ pc' = [pc EXCEPT ![c] = "first"] /\ next[c] <= Size[c]
    /\ holds' = holds \cup {Current(c)} /\ UNCHANGED <<outcome, gone, canceled>>

\* A step of a caller is one of the three.
LEMMA CallerEffects ==
    ASSUME IInv, NEW c \in Callers, CallerStep(c)
    PROVE  UNCHANGED taskVars \/ TurnsAway(c) \/ Starts(c)
<1>1. ASSUME next[c] <= Size[c], pc[c] # "inDone" PROVE tpc[Current(c)] = "new"
    BY <1>1, CurrentFacts DEF IInv, Launches
<1>2. pc[c] \in {"select", "second", "inDone"} => next[c] <= Size[c]
    BY DEF IInv, Launches
<1>3. CASE First(c)
  <2>1. CASE closed
      BY <1>1, <1>3, <2>1 DEF First, Goto, Refuse, TurnsAway
  <2>2. CASE ~closed
      BY <1>3, <2>2 DEF First, taskVars
  <2>3. QED
      BY <2>1, <2>2
<1>4. CASE SelectCanceled(c)
    BY <1>1, <1>2, <1>4 DEF SelectCanceled, Goto, Refuse, TurnsAway
<1>5. CASE PutBack(c)
    BY <1>1, <1>2, <1>5 DEF PutBack, Goto, Refuse, TurnsAway
<1>6. CASE Start(c)
    BY <1>1, <1>2, <1>6 DEF Start, Goto, Starts
<1>7. QED
    BY <1>3, <1>4, <1>5, <1>6 DEF CallerStep, SelectToken, Refused, CollectError, CollectDone,
       Return, taskVars

\* What the other goroutines leave alone.
LEMMA OthersEffects ==
    /\ \A c \in Callers : CancelOutside(c) => UNCHANGED <<execVars, pc, next, wg, errorChan,
          doneChan, gone, errs, got, taskVars, crashed>>
    /\ \A k \in Closers : Close(k) \/ CloserStep(k) => UNCHANGED <<callVars, taskVars, crashed>>
BY DEF CancelOutside, Close, CloserStep, Drain, CloseSem

\* A callback has an outcome from the moment it ends, or is refused, on.
LEMMA OutcomesStep == IInv /\ [Next]_vars => Outcomes'
<1> SUFFICES ASSUME IInv, [Next]_vars PROVE Outcomes'
    OBVIOUS
<1>1. Typed /\ Outcomes
    BY DEF IInv
<1>2. CASE UNCHANGED taskVars
    BY <1>1, <1>2 DEF Outcomes, taskVars
<1>3. ASSUME NEW c \in Callers, CallerStep(c) PROVE Outcomes'
  <2>1. CASE TurnsAway(c)
      BY <1>1, <2>1, CurrentFacts DEF TurnsAway, Outcomes, Typed, Silent
  <2>2. CASE Starts(c)
      BY <1>1, <2>2, CurrentFacts DEF Starts, Outcomes, Typed, Silent
  <2>3. QED
      BY <1>2, <1>3, <2>1, <2>2, CallerEffects
<1>4. ASSUME NEW t \in Tasks, TaskStep(t) PROVE Outcomes'
  <2>1. CASE Skip(t) \/ \E how \in {"ok", "failed", "canceled"} : End(t, how)
    <3>1. PICK how \in {"ok", "failed", "canceled"} : outcome' = [outcome EXCEPT ![t] = how]
        BY <2>1 DEF Skip, End
    <3>2. tpc' = [tpc EXCEPT ![t] = "report"]
        BY <2>1 DEF Skip, End, GotoT
    <3>3. QED
        BY <1>1, <3>1, <3>2 DEF Outcomes, Typed, Silent
  <2>2. CASE Run(t)
      BY <1>1, <2>2 DEF Run, GotoT, Outcomes, Typed, Silent
  <2>3. CASE Report(t) \/ Send(t) \/ Signal(t) \/ Release(t)
    <3>1. PICK s \in {"send", "signal", "release", "over"} : tpc' = [tpc EXCEPT ![t] = s]
        BY <2>3 DEF Report, Send, Signal, Release, GotoT
    <3>2. tpc[t] \notin Silent /\ UNCHANGED outcome
        BY <2>3 DEF Report, Send, Signal, Release, GotoT, Silent
    <3>3. QED
        BY <1>1, <3>1, <3>2 DEF Outcomes, Typed, Silent
  <2>4. QED
      BY <1>4, <2>1, <2>2, <2>3 DEF TaskStep
<1>5. QED
    BY <1>2, <1>3, <1>4, OthersEffects DEF Next, vars

\* The token of a callback is taken before it starts and released at its end.
LEMMA HoldingStep == IInv /\ [Next]_vars => Holding'
<1> SUFFICES ASSUME IInv, [Next]_vars PROVE Holding'
    OBVIOUS
<1>1. Typed /\ Holding
    BY DEF IInv
<1>2. CASE UNCHANGED taskVars
    BY <1>1, <1>2 DEF Holding, taskVars
<1>3. ASSUME NEW c \in Callers, CallerStep(c) PROVE Holding'
  <2>1. CASE TurnsAway(c)
      BY <1>1, <2>1, CurrentFacts DEF TurnsAway, Holding, Typed
  <2>2. CASE Starts(c)
      BY <1>1, <2>2, CurrentFacts DEF Starts, Holding, Typed
  <2>3. QED
      BY <1>2, <1>3, <2>1, <2>2, CallerEffects
<1>4. ASSUME NEW t \in Tasks, TaskStep(t) PROVE Holding'
  <2>1. CASE Skip(t) \/ Run(t) \/ \E how \in {"ok", "failed", "canceled"} : End(t, how)
      BY <1>1, <2>1 DEF Skip, Run, End, GotoT, Holding, Typed
  <2>2. CASE Report(t) \/ Send(t)
      BY <1>1, <2>2 DEF Report, Send, GotoT, Holding, Typed
  <2>3. CASE Signal(t)
      BY <1>1, <2>3 DEF Signal, GotoT, Holding, Typed
  <2>4. CASE Release(t)
      BY <1>1, <2>4 DEF Release, GotoT, Holding, Typed
  <2>5. QED
      BY <1>4, <2>1, <2>2, <2>3, <2>4 DEF TaskStep
<1>5. QED
    BY <1>2, <1>3, <1>4, OthersEffects DEF Next, vars

\* An error reaches only the call of the callback that ended with it.
LEMMA OwnStep == IInv /\ [Next]_vars => Own'
<1> SUFFICES ASSUME IInv, [Next]_vars PROVE Own'
    OBVIOUS
<1>1. Typed /\ Own
    BY DEF IInv
<1>2. CASE UNCHANGED <<errorChan, errs>>
    BY <1>1, <1>2 DEF Own
<1>3. ASSUME NEW c \in Callers, CollectError(c) PROVE Own'
  <2>1. errorChan[c] \in Seq(Of(c)) /\ errs[c] \in Seq(Of(c)) /\ errorChan[c] # <<>>
      BY <1>1, <1>3 DEF CollectError, Own
  <2>2. /\ Tail(errorChan[c]) \in Seq(Of(c))
        /\ Append(errs[c], Head(errorChan[c])) \in Seq(Of(c))
      BY <2>1
  <2>3. /\ errorChan' = [errorChan EXCEPT ![c] = Tail(@)]
        /\ errs' = [errs EXCEPT ![c] = Append(@, Head(errorChan[c]))]
      BY <1>3 DEF CollectError
  <2>4. QED
      BY <1>1, <2>2, <2>3 DEF Own, Of, Typed
<1>4. ASSUME NEW t \in Tasks, Send(t) PROVE Own'
  <2>1. t \in Of(t[1]) /\ t[1] \in Callers
      BY TaskFacts
  <2>2. errs' = errs /\ (errorChan' = errorChan
                         \/ errorChan' = [errorChan EXCEPT ![t[1]] = Append(@, t)])
      BY <1>4 DEF Send
  <2>3. Append(errorChan[t[1]], t) \in Seq(Of(t[1]))
      BY <1>1, <2>1 DEF Own
  <2>4. CASE errorChan' = [errorChan EXCEPT ![t[1]] = Append(@, t)]
    <3> SUFFICES ASSUME NEW d \in Callers PROVE errorChan'[d] \in Seq(Of(d))
        BY <1>1, <2>2 DEF Own, Of
    <3>1. CASE d = t[1]
        BY <1>1, <2>3, <2>4, <3>1 DEF Typed
    <3>2. CASE d # t[1]
        BY <1>1, <2>4, <3>2 DEF Typed, Own
    <3>3. QED
        BY <3>1, <3>2
  <2>5. QED
      BY <1>2, <2>2, <2>4
<1>5. ASSUME NEW c \in Callers, CallerStep(c) PROVE Own'
    BY <1>2, <1>3, <1>5 DEF CallerStep, First, SelectCanceled, SelectToken, Start, PutBack,
       Refused, CollectDone, Return
<1>6. ASSUME NEW t \in Tasks, TaskStep(t) PROVE Own'
    BY <1>2, <1>4, <1>6 DEF TaskStep, Skip, Run, End, Report, Signal, Release, callVars
<1>7. QED
    BY <1>2, <1>5, <1>6, OthersEffects DEF Next, vars, callVars

\* There are finitely many callers that decide, one more or less with a change of one.
LEMMA DecidingFacts ==
    /\ IsFiniteSet(Deciding) /\ Cardinality(Deciding) \in Nat
    /\ \A c \in Callers : /\ c \notin Deciding =>
                               Cardinality(Deciding \cup {c}) = Cardinality(Deciding) + 1
                          /\ c \in Deciding =>
                               Cardinality(Deciding \ {c}) = Cardinality(Deciding) - 1
<1>1. IsFiniteSet(Callers) /\ Deciding \subseteq Callers
    BY SimultaneouslyAssumption DEF Deciding
<1>2. IsFiniteSet(Deciding)
    BY <1>1, FS_Subset
<1>3. QED
    BY <1>2, FS_CardinalityType, FS_AddElement, FS_RemoveElement

\* No step loses or makes a token, until sem is closed.
LEMMA TokensStep == IInv /\ [Next]_vars => Tokens'
<1> SUFFICES ASSUME IInv, [Next]_vars, ~semClosed'
             PROVE  (sem + drained + Cardinality(holds) + Cardinality(Deciding))' = MaxConcurrent
    BY DEF Tokens
<1> DEFINE Sum == sem + drained + Cardinality(holds) + Cardinality(Deciding)
<1>1. /\ Typed /\ Tokens /\ Holding /\ Launches /\ MaxConcurrent \in Nat
      /\ Cardinality(holds) \in Nat /\ Cardinality(Deciding) \in Nat
    BY SimultaneouslyAssumption, DecidingFacts, FS_CardinalityType DEF IInv, Typed
<1>2. ~semClosed
    BY <1>1 DEF Next, CallerStep, First, SelectCanceled, SelectToken, Start, PutBack, Refused,
       CollectError, CollectDone, Return, CancelOutside, TaskStep, Skip, Run, End, Report, Send,
       Signal, Release, Close, CloserStep, Drain, CloseSem, execVars, vars
<1>3. Sum = MaxConcurrent
    BY <1>1, <1>2 DEF Tokens
<1>4. CASE UNCHANGED <<sem, drained, holds, Deciding>>
    BY <1>3, <1>4
<1>5. ASSUME NEW c \in Callers, CallerStep(c) PROVE Sum' = MaxConcurrent
  <2>1. CASE SelectToken(c)
    <3>1. sem > 0 /\ sem' = sem - 1 /\ UNCHANGED <<drained, holds>>
        BY <1>2, <2>1 DEF SelectToken, taskVars
    <3>2. c \notin Deciding /\ Deciding' = Deciding \cup {c}
        BY <1>1, <2>1 DEF SelectToken, Goto, Deciding, Typed
    <3>3. Cardinality(Deciding)' = Cardinality(Deciding) + 1
        BY <3>2, DecidingFacts
    <3>4. QED
        BY <1>1, <1>3, <3>1, <3>3 DEF Typed
  <2>2. CASE Start(c)
    <3>1. pc[c] = "second" /\ UNCHANGED <<sem, drained>> /\ holds' = holds \cup {Current(c)}
        BY <2>2 DEF Start, Goto, execVars
    <3>2. c \in Deciding /\ Deciding' = Deciding \ {c}
        BY <1>1, <2>2 DEF Start, Goto, Deciding, Typed
    <3>3. Cardinality(Deciding)' = Cardinality(Deciding) - 1
        BY <3>2, DecidingFacts
    <3>4. Current(c) \notin holds
        BY <1>1, <3>1, CurrentFacts DEF Launches, Holding
    <3>5. Cardinality(holds') = Cardinality(holds) + 1
        BY <1>1, <3>1, <3>4, FS_AddElement DEF Typed
    <3>6. QED
        BY <1>1, <1>3, <3>1, <3>3, <3>5 DEF Typed
  <2>3. CASE PutBack(c)
    <3>1. sem' = sem + 1 /\ UNCHANGED <<drained, holds>>
        BY <1>2, <2>3 DEF PutBack, Give
    <3>2. c \in Deciding /\ Deciding' = Deciding \ {c}
        BY <1>1, <2>3 DEF PutBack, Goto, Deciding, Typed
    <3>3. Cardinality(Deciding)' = Cardinality(Deciding) - 1
        BY <3>2, DecidingFacts
    <3>4. QED
        BY <1>1, <1>3, <3>1, <3>3 DEF Typed
  <2>4. CASE First(c) \/ SelectCanceled(c) \/ Refused(c) \/ CollectError(c) \/ CollectDone(c)
             \/ Return(c)
    <3>1. UNCHANGED <<sem, drained, holds>>
        BY <2>4 DEF First, SelectCanceled, Refused, CollectError, CollectDone, Return,
           execVars, taskVars
    <3>2. pc[c] # "second" /\ (pc' = pc \/ \E to \in {"select", "inDone", "first", "returned"} :
                                              pc' = [pc EXCEPT ![c] = to])
        BY <2>4 DEF First, SelectCanceled, Refused, CollectError, CollectDone, Return, Launched, Goto
    <3>3. Deciding' = Deciding
        BY <1>1, <3>2 DEF Deciding, Typed
    <3>4. QED
        BY <1>4, <3>1, <3>3
  <2>5. QED
      BY <1>5, <2>1, <2>2, <2>3, <2>4 DEF CallerStep
<1>6. ASSUME NEW t \in Tasks, TaskStep(t) PROVE Sum' = MaxConcurrent
  <2>1. Deciding' = Deciding /\ drained' = drained
      BY <1>1, <1>6, TaskEffects DEF Deciding
  <2>2. CASE Release(t)
    <3>1. t \in holds /\ holds' = holds \ {t} /\ sem' = sem + 1
        BY <1>1, <2>2 DEF Release, GotoT, Holding, Give
    <3>2. Cardinality(holds') = Cardinality(holds) - 1
        BY <1>1, <3>1, FS_RemoveElement DEF Typed
    <3>3. QED
        BY <1>1, <1>3, <2>1, <3>1, <3>2 DEF Typed
  <2>3. CASE Skip(t) \/ Run(t) \/ (\E how \in {"ok", "failed", "canceled"} : End(t, how))
             \/ Report(t) \/ Send(t) \/ Signal(t)
      BY <1>4, <2>1, <2>3 DEF Skip, Run, End, Report, Send, Signal, execVars
  <2>4. QED
      BY <1>6, <2>2, <2>3 DEF TaskStep
<1>7. ASSUME NEW k \in Closers, Close(k) \/ CloserStep(k) PROVE Sum' = MaxConcurrent
  <2>1. Deciding' = Deciding /\ holds' = holds
      BY <1>7 DEF Close, CloserStep, Drain, CloseSem, Deciding, callVars, taskVars
  <2>2. CASE Drain(k)
      BY <1>1, <1>3, <2>1, <2>2 DEF Drain, Typed
  <2>3. CASE Close(k) \/ CloseSem(k)
      BY <1>4, <2>1, <2>3 DEF Close, CloseSem
  <2>4. QED
      BY <1>7, <2>2, <2>3 DEF CloserStep
<1>8. ASSUME NEW c \in Callers, CancelOutside(c) PROVE UNCHANGED <<sem, drained, holds, Deciding>>
    BY <1>8 DEF CancelOutside, Deciding, execVars, taskVars
<1>9. QED
    BY <1>4, <1>5, <1>6, <1>7, <1>8 DEF Next, vars, execVars, callVars, taskVars, Deciding

\* A Close that returns has taken every token, and a call that goes on after a
\* Close has asked has made that Close early.
LEMMA ShutStep == IInv /\ [Next]_vars => Shut'
<1> SUFFICES ASSUME IInv, [Next]_vars PROVE Shut'
    OBVIOUS
<1>1. /\ Typed /\ Tokens /\ Holding /\ Launches /\ Shut /\ ReturnsAfterAll /\ MaxConcurrent \in Nat
      /\ Cardinality(holds) \in Nat /\ Cardinality(Deciding) \in Nat
    BY SimultaneouslyAssumption, DecidingFacts, FS_CardinalityType DEF IInv, Typed
<1>2. CASE UNCHANGED <<execVars, holds, pc, crashed>>
    BY <1>1, <1>2 DEF Shut, execVars
<1>3. ASSUME NEW c \in Callers, CallerStep(c) PROVE Shut'
  <2>1. pc[c] # "returned" /\ (closed => early)
      BY <1>1, <1>3 DEF Shut, CallerStep, First, SelectCanceled, SelectToken, Start, PutBack,
         Refused, CollectError, CollectDone, Return, Goto, Launched
  <2>2. UNCHANGED <<closed, semClosed, early, kpc>>
      BY <1>3 DEF CallerStep, First, SelectCanceled, SelectToken, Start, PutBack,
         Refused, CollectError, CollectDone, Return, execVars
  <2>3. ASSUME semClosed PROVE sem' = sem /\ holds' = holds
    <3>1. closed /\ sem = 0
        BY <1>1, <2>3 DEF Shut
    <3>2. CASE SelectToken(c)
        BY <3>1, <3>2 DEF SelectToken, taskVars
    <3>3. CASE PutBack(c)
        BY <2>3, <3>3 DEF PutBack
    <3>4. QED
        BY <1>3, <3>1, <3>2, <3>3 DEF CallerStep, First, SelectCanceled, Start, Refused,
           CollectError, CollectDone, Return, execVars, taskVars
  <2>4. crashed' => crashed \/ closed
      BY <1>3 DEF CallerStep, First, SelectCanceled, SelectToken, Start, PutBack,
         Refused, CollectError, CollectDone, Return
  <2>5. QED
      BY <1>1, <2>1, <2>2, <2>3, <2>4 DEF Shut
<1>4. ASSUME NEW t \in Tasks, TaskStep(t) PROVE Shut'
  <2>1. UNCHANGED <<pc, closed, semClosed, drained, early, kpc>>
      BY <1>1, <1>4, TaskEffects
  <2>2. CASE Release(t)
    <3>1. t \in holds /\ ~semClosed /\ crashed' = FALSE
        BY <1>1, <2>2 DEF Release, GotoT, Holding, Shut, Typed
    <3>2. QED
        BY <1>1, <2>1, <3>1 DEF Shut
  <2>3. CASE Send(t)
    <3>1. ~gone[t[1]]
        BY <1>1, <2>3, TaskFacts DEF Send, GotoT, ReturnsAfterAll
    <3>2. ~crashed' /\ UNCHANGED <<execVars, holds>>
        BY <2>3, <3>1 DEF Send
    <3>3. QED
        BY <1>1, <2>1, <3>2 DEF Shut, execVars
  <2>4. QED
      BY <1>2, <1>4, <2>1, <2>2, <2>3 DEF TaskStep, Skip, Run, End, Report, Signal
<1>5. ASSUME NEW k \in Closers, Close(k) PROVE Shut'
  <2>1. /\ closed' = TRUE
        /\ (kpc' = [kpc EXCEPT ![k] = "refused"] \/ kpc' = [kpc EXCEPT ![k] = "drain"])
        /\ early' = (early \/ \E c \in Callers : pc[c] # "returned")
        /\ UNCHANGED <<sem, semClosed, holds, pc, crashed>>
      BY <1>5 DEF Close, callVars, taskVars
  <2>2. \A j \in Closers : kpc'[j] = "returned" => kpc[j] = "returned"
      BY <1>1, <2>1 DEF Typed
  <2>3. QED
      BY <1>1, <2>1, <2>2 DEF Shut
<1>6. ASSUME NEW k \in Closers, Drain(k) PROVE Shut'
  <2>1. sem > 0 /\ ~semClosed /\ UNCHANGED <<closed, semClosed, early, kpc, holds, pc, crashed>>
      BY <1>1, <1>6 DEF Drain, Shut, Typed, callVars, taskVars
  <2>2. QED
      BY <1>1, <2>1 DEF Shut
<1>7. ASSUME NEW k \in Closers, CloseSem(k) PROVE Shut'
  <2>1. /\ kpc[k] = "drain" /\ drained >= MaxConcurrent /\ semClosed' = TRUE
        /\ kpc' = [kpc EXCEPT ![k] = "returned"]
        /\ UNCHANGED <<sem, closed, early, holds, pc, crashed>>
      BY <1>7 DEF CloseSem, AllDrained, callVars, taskVars
  <2>2. sem = 0 /\ holds = {}
    <3>1. CASE semClosed
        BY <1>1, <3>1 DEF Shut
    <3>2. CASE ~semClosed
      <4>1. sem = 0 /\ Cardinality(holds) = 0
          BY <1>1, <2>1, <3>2 DEF Tokens, Typed
      <4>2. QED
          BY <1>1, <4>1, FS_EmptySet DEF Typed
    <3>3. QED
        BY <3>1, <3>2
  <2>3. \A j \in Closers : kpc'[j] = "drain" => kpc[j] = "drain"
      BY <1>1, <2>1 DEF Typed
  <2>4. QED
      BY <1>1, <2>1, <2>2, <2>3 DEF Shut
<1>8. QED
    BY <1>2, <1>3, <1>4, <1>5, <1>6, <1>7, OthersEffects
       DEF Next, CloserStep, vars, callVars, taskVars

\* A caller changes nothing of another call or of its callbacks.
LEMMA Elsewhere ==
    ASSUME IInv, NEW c \in Callers, CallerStep(c), NEW d \in Callers, d # c
    PROVE  /\ pc'[d] = pc[d] /\ next'[d] = next[d] /\ wg'[d] = wg[d] /\ gone'[d] = gone[d]
           /\ doneChan'[d] = doneChan[d] /\ errorChan'[d] = errorChan[d]
           /\ got'[d] = got[d] /\ errs'[d] = errs[d] /\ canceled'[d] = canceled[d]
           /\ \A t \in Of(d) : tpc'[t] = tpc[t] /\ outcome'[t] = outcome[t]
<1>1. Typed
    BY DEF IInv
<1>2. pc'[d] = pc[d] /\ next'[d] = next[d] /\ wg'[d] = wg[d]
    BY <1>1 DEF Typed, CallerStep, First, SelectCanceled, SelectToken, Start, PutBack, Refused,
       CollectError, CollectDone, Return, Goto
<1>3. gone'[d] = gone[d] /\ canceled'[d] = canceled[d]
    BY <1>1 DEF Typed, CallerStep, First, SelectCanceled, SelectToken, Start, PutBack, Refused,
       CollectError, CollectDone, Return
<1>4. /\ doneChan'[d] = doneChan[d] /\ errorChan'[d] = errorChan[d]
      /\ got'[d] = got[d] /\ errs'[d] = errs[d]
    BY <1>1 DEF Typed, CallerStep, First, SelectCanceled, SelectToken, Start, PutBack, Refused,
       CollectError, CollectDone, Return
<1>5. \A t \in Of(d) : t \in Tasks /\ t # Current(c)
    BY TaskFacts DEF Current
<1>6. \A t \in Of(d) : tpc'[t] = tpc[t] /\ outcome'[t] = outcome[t]
  <2>1. CASE UNCHANGED taskVars
      BY <2>1 DEF taskVars
  <2>2. CASE TurnsAway(c)
      BY <1>1, <1>5, <2>2 DEF TurnsAway, Typed
  <2>3. CASE Starts(c)
      BY <1>1, <1>5, <2>3 DEF Starts, Typed
  <2>4. QED
      BY <2>1, <2>2, <2>3, CallerEffects
<1>7. QED
    BY <1>2, <1>3, <1>4, <1>6

\* A callback changes nothing of another one.
LEMMA OtherTasks ==
    ASSUME IInv, NEW t \in Tasks, TaskStep(t), NEW u \in Tasks, u # t
    PROVE  tpc'[u] = tpc[u] /\ outcome'[u] = outcome[u]
BY TaskEffects DEF IInv, Typed

\* A call returns after the last of its callbacks.
LEMMA ReturnsAfterAllStep == IInv /\ [Next]_vars => ReturnsAfterAll'
<1> SUFFICES ASSUME IInv, [Next]_vars, NEW c \in Callers, gone'[c], NEW t \in Of(c)
             PROVE  tpc'[t] \in {"release", "over"}
    BY DEF ReturnsAfterAll, Of, Tasks
<1>1. /\ Typed /\ Launches /\ Waiting /\ ReturnsAfterAll /\ t \in Tasks /\ t[1] = c
    BY TaskFacts DEF IInv
<1>2. CASE UNCHANGED <<gone, tpc>>
    BY <1>1, <1>2 DEF ReturnsAfterAll
<1>3. ASSUME NEW d \in Callers, CallerStep(d) PROVE tpc'[t] \in {"release", "over"}
  <2>1. CASE d # c
    <3>1. gone[c] /\ tpc'[t] = tpc[t]
        BY <1>3, <2>1, Elsewhere
    <3>2. QED
        BY <1>1, <3>1 DEF ReturnsAfterAll
  <2>2. CASE d = c /\ ~gone[c]
    <3>1. Return(c)
        BY <1>1, <1>3, <2>2 DEF Typed, CallerStep, First, SelectCanceled, SelectToken, Start,
           PutBack, Refused, CollectError, CollectDone
    <3>2. pc[c] = "first" /\ next[c] > Size[c] /\ wg[c] = 0 /\ tpc' = tpc
        BY <3>1 DEF Return, Launched, AllDone, taskVars
    <3>3. Open(c) \in SUBSET Of(c) /\ Cardinality(Open(c)) = 0
        BY <1>1, <3>2 DEF Open, Waiting
    <3>4. Open(c) = {}
        BY <3>3, PartOf, FS_EmptySet
    <3>5. tpc[t] \notin Busy
        BY <3>4 DEF Open
    <3>6. t[2] \in 1..Size[c] /\ t = <<c, t[2]>> /\ Size[c] \in Nat
        BY <1>1, TaskFacts, SimultaneouslyAssumption
    <3>7. tpc[t] # "new"
      <4>1. /\ next[c] \in 1..(Size[c] + 1)
            /\ tpc[<<c, t[2]>>] = "new" <=> t[2] > next[c] \/ (t[2] = next[c] /\ pc[c] # "inDone")
          BY <1>1, <3>6 DEF Launches
      <4>2. QED
          BY <3>2, <3>6, <4>1
    <3>8. QED
        BY <1>1, <3>2, <3>5, <3>7 DEF Typed, Busy, Told, Silent
  <2>3. CASE d = c /\ gone[c]
    <3>1. pc[c] = "returned"
        BY <1>1, <2>3 DEF Launches
    <3>2. FALSE
        BY <1>3, <2>3, <3>1 DEF CallerStep, First, SelectCanceled, SelectToken, Start, PutBack,
           Refused, CollectError, CollectDone, Return, Goto, Launched
    <3>3. QED
        BY <3>2
  <2>4. QED
      BY <2>1, <2>2, <2>3
<1>4. ASSUME NEW u \in Tasks, TaskStep(u) PROVE tpc'[t] \in {"release", "over"}
  <2>1. gone[c] /\ tpc[t] \in {"release", "over"}
      BY <1>1, <1>4, TaskEffects DEF ReturnsAfterAll
  <2>2. CASE u # t
      BY <1>1, <1>4, <2>1, <2>2, OtherTasks
  <2>3. CASE u = t
      BY <1>1, <1>4, <2>1, <2>3 DEF Typed, TaskStep, Skip, Run, End, Report, Send, Signal,
         Release, GotoT
  <2>4. QED
      BY <2>2, <2>3
<1>5. QED
    BY <1>2, <1>3, <1>4, OthersEffects DEF Next, vars, callVars, taskVars

\* One callback more, or less, in a set of callbacks of a call.
LEMMA OneMore ==
    ASSUME NEW c \in Callers, NEW S \in SUBSET Of(c), NEW t \in Of(c)
    PROVE  /\ t \notin S => Cardinality(S \cup {t}) = Cardinality(S) + 1
           /\ t \in S => Cardinality(S \ {t}) = Cardinality(S) - 1
BY PartOf, FS_AddElement, FS_RemoveElement

\* The WaitGroup counts the callbacks that were announced and are not over.
LEMMA WaitingStep == IInv /\ [Next]_vars => Waiting'
<1> SUFFICES ASSUME IInv, [Next]_vars, NEW c \in Callers
             PROVE  wg'[c] = Cardinality(Open(c)')
    BY DEF Waiting
<1>1. /\ Typed /\ Launches /\ Waiting /\ Open(c) \in SUBSET Of(c)
      /\ wg[c] = Cardinality(Open(c)) /\ Cardinality(Open(c)) \in Nat
    BY PartOf DEF IInv, Open, Waiting
<1>2. CASE wg'[c] = wg[c] /\ Open(c)' = Open(c)
    BY <1>1, <1>2
<1>3. ASSUME NEW d \in Callers, CallerStep(d) PROVE wg'[c] = Cardinality(Open(c)')
  <2>1. CASE d # c
    <3>1. /\ wg'[c] = wg[c] /\ pc'[c] = pc[c] /\ next'[c] = next[c]
          /\ \A t \in Of(c) : tpc'[t] = tpc[t]
        BY <1>3, <2>1, Elsewhere
    <3>2. Open(c)' = Open(c)
        BY <3>1 DEF Open, Current
    <3>3. QED
        BY <1>2, <3>1, <3>2
  <2>2. CASE d = c /\ First(c)
    <3>1. pc[c] = "first" /\ next[c] <= Size[c] /\ next' = next /\ wg'[c] = wg[c] + 1
        BY <1>1, <2>2 DEF First, Goto, Typed
    <3>2. /\ Current(c) \in Of(c) /\ Current(c) \in Tasks /\ tpc[Current(c)] = "new"
        BY <1>1, <3>1, CurrentFacts DEF Launches
    <3>3. Current(c) \notin Open(c)
        BY <3>1, <3>2 DEF Open, Busy
    <3>4. Open(c)' = Open(c) \cup {Current(c)}
      <4>1. CASE closed
        <5>1. pc'[c] = "inDone" /\ tpc' = [tpc EXCEPT ![Current(c)] = "report"]
            BY <1>1, <2>2, <4>1 DEF First, Goto, Refuse, Typed
        <5>2. \A t \in Of(c) : tpc'[t] = IF t = Current(c) THEN "report" ELSE tpc[t]
            BY <1>1, <5>1, TaskFacts DEF Typed
        <5>3. QED
            BY <3>1, <3>2, <5>1, <5>2 DEF Open, Busy
      <4>2. CASE ~closed
        <5>1. pc'[c] = "select" /\ tpc' = tpc
            BY <1>1, <2>2, <4>2 DEF First, Goto, Typed
        <5>2. QED
            BY <3>1, <3>2, <5>1 DEF Open, Current
      <4>3. QED
          BY <4>1, <4>2
    <3>5. Cardinality(Open(c)') = Cardinality(Open(c)) + 1
        BY <1>1, <3>2, <3>3, <3>4, OneMore
    <3>6. QED
        BY <1>1, <3>1, <3>5
  <2>3. CASE d = c /\ (SelectCanceled(c) \/ PutBack(c))
    <3>1. /\ pc[c] \in {"select", "second"} /\ pc'[c] = "inDone" /\ next' = next /\ wg' = wg
          /\ tpc' = [tpc EXCEPT ![Current(c)] = "report"]
        BY <1>1, <2>3 DEF SelectCanceled, PutBack, Goto, Refuse, Typed
    <3>2. Current(c) \in Of(c)
        BY <1>1, <3>1, CurrentFacts DEF Launches
    <3>3. \A t \in Of(c) : tpc'[t] = IF t = Current(c) THEN "report" ELSE tpc[t]
        BY <1>1, <3>1, TaskFacts DEF Typed
    <3>4. Open(c)' = Open(c)
        BY <3>1, <3>2, <3>3 DEF Open, Busy
    <3>5. QED
        BY <1>2, <3>1, <3>4
  <2>4. CASE d = c /\ SelectToken(c)
    <3>1. pc[c] = "select" /\ pc'[c] = "second" /\ UNCHANGED <<next, wg, tpc>>
        BY <1>1, <2>4 DEF SelectToken, Goto, Typed, taskVars
    <3>2. Open(c)' = Open(c)
        BY <3>1 DEF Open, Current
    <3>3. QED
        BY <1>2, <3>1, <3>2
  <2>5. CASE d = c /\ Start(c)
    <3>1. /\ pc[c] = "second" /\ pc'[c] = "first" /\ wg' = wg
          /\ tpc' = [tpc EXCEPT ![Current(c)] = "go"]
        BY <1>1, <2>5 DEF Start, Goto, Typed
    <3>2. Current(c) \in Of(c)
        BY <1>1, <3>1, CurrentFacts DEF Launches
    <3>3. \A t \in Of(c) : tpc'[t] = IF t = Current(c) THEN "go" ELSE tpc[t]
        BY <1>1, <3>1, TaskFacts DEF Typed
    <3>4. Open(c)' = Open(c)
        BY <3>1, <3>2, <3>3 DEF Open, Busy
    <3>5. QED
        BY <1>2, <3>1, <3>4
  <2>6. CASE d = c /\ (Refused(c) \/ CollectError(c) \/ CollectDone(c) \/ Return(c))
    <3>1. /\ pc[c] \in {"inDone", "first"} /\ pc'[c] \in {"inDone", "first", "returned"}
          /\ UNCHANGED <<wg, tpc>>
        BY <1>1, <2>6 DEF Refused, CollectError, CollectDone, Return, Launched, Goto, Typed, taskVars
    <3>2. Open(c)' = Open(c)
        BY <3>1 DEF Open
    <3>3. QED
        BY <1>2, <3>1, <3>2
  <2>7. QED
      BY <1>3, <2>1, <2>2, <2>3, <2>4, <2>5, <2>6 DEF CallerStep
<1>4. ASSUME NEW u \in Tasks, TaskStep(u) PROVE wg'[c] = Cardinality(Open(c)')
  <2>1. pc' = pc /\ next' = next /\ tpc[u] # "new" /\ tpc' = [tpc EXCEPT ![u] = tpc'[u]]
      BY <1>1, <1>4, TaskEffects
  <2>2. \A t \in Of(c) : t # u => tpc'[t] = tpc[t]
      BY <1>1, <2>1, TaskFacts DEF Typed
  <2>3. CASE Signal(u) /\ u \in Of(c)
    <3>1. u[1] = c /\ tpc[u] = "signal" /\ tpc'[u] \in {"release", "over"} /\ wg'[c] = wg[c] - 1
        BY <1>1, <2>3, TaskFacts DEF Signal, GotoT, Typed
    <3>2. u \in Open(c)
        BY <2>3, <3>1 DEF Open, Busy
    <3>3. pc[c] \in {"select", "second"} => u # Current(c)
        BY <1>1, <2>1, CurrentFacts DEF Launches
    <3>4. Open(c)' = Open(c) \ {u}
        BY <2>1, <2>2, <3>1, <3>3 DEF Open, Busy, Current
    <3>5. Cardinality(Open(c)') = Cardinality(Open(c)) - 1
        BY <1>1, <2>3, <3>2, <3>4, OneMore
    <3>6. QED
        BY <1>1, <3>1, <3>5
  <2>4. CASE Signal(u) /\ u \notin Of(c)
    <3>1. u[1] # c /\ wg'[c] = wg[c]
        BY <1>1, <2>4, TaskFacts DEF Signal, Typed, Of
    <3>2. Open(c)' = Open(c)
        BY <2>1, <2>2, <2>4 DEF Open, Current
    <3>3. QED
        BY <1>2, <3>1, <3>2
  <2>5. CASE ~Signal(u)
    <3>1. wg' = wg /\ (tpc'[u] \in Busy <=> tpc[u] \in Busy)
        BY <1>1, <1>4, <2>5 DEF TaskStep, Skip, Run, End, Report, Send, Release, GotoT, Busy,
           Typed, callVars
    <3>2. Open(c)' = Open(c)
        BY <2>1, <2>2, <3>1 DEF Open, Current
    <3>3. QED
        BY <1>2, <3>1, <3>2
  <2>6. QED
      BY <2>3, <2>4, <2>5
<1>5. ASSUME UNCHANGED <<pc, next, wg, tpc>> PROVE wg'[c] = Cardinality(Open(c)')
  <2>1. Open(c)' = Open(c)
      BY <1>5 DEF Open, Current
  <2>2. QED
      BY <1>2, <1>5, <2>1
<1>6. QED
    BY <1>3, <1>4, <1>5, OthersEffects DEF Next, vars, callVars, taskVars

\* What is in the channels and what was collected are the results sent: a call
\* that has one result of each callback has the results of all of them.
LEMMA TalliedStep == IInv /\ [Next]_vars => Tallied'
<1> DEFINE C(c) == /\ doneChan[c] + got[c] = Cardinality(Good(c)) + ReadSoFar(c)
                   /\ Unread(c) + ReadSoFar(c) = Cardinality(Failures(c))
                   /\ ReadSoFar(c) <= got[c] /\ got[c] <= Size[c]
                   /\ pc[c] = "returned" => got[c] = Size[c]
<1> SUFFICES ASSUME IInv, [Next]_vars, NEW c \in Callers PROVE C(c)'
    BY DEF Tallied
<1>1. /\ Typed /\ Launches /\ C(c) /\ Size[c] \in Nat /\ got[c] \in Nat /\ doneChan[c] \in Nat
      /\ errorChan[c] \in Seq(Tasks) /\ errs[c] \in Seq(Tasks)
      /\ ReadSoFar(c) \in Nat /\ Unread(c) \in Nat
    BY SimultaneouslyAssumption DEF IInv, Tallied, Typed, ReadSoFar, Unread
<1>2. /\ Good(c) \in SUBSET Of(c) /\ Failures(c) \in SUBSET Of(c)
      /\ Cardinality(Good(c)) \in Nat /\ Cardinality(Failures(c)) \in Nat
    BY PartOf DEF Good, Failures
<1>3. ASSUME \A t \in Of(c) : (tpc'[t] \in Told <=> tpc[t] \in Told)
                              /\ (tpc[t] \in Told => outcome'[t] = outcome[t])
      PROVE  Good(c)' = Good(c) /\ Failures(c)' = Failures(c)
    BY <1>3 DEF Good, Failures
<1>4. ASSUME Good(c)' = Good(c), Failures(c)' = Failures(c), pc'[c] = pc[c],
             UNCHANGED <<doneChan[c], got[c], errs[c], errorChan[c]>>
      PROVE  C(c)'
    BY <1>1, <1>4 DEF ReadSoFar, Unread
<1>5. ASSUME NEW d \in Callers, CallerStep(d) PROVE C(c)'
  <2>1. CASE d # c
      BY <1>3, <1>4, <1>5, <2>1, Elsewhere
  <2>2. CASE d = c
    <3>1. \A t \in Of(c) : (tpc'[t] \in Told <=> tpc[t] \in Told)
                           /\ (tpc[t] \in Told => outcome'[t] = outcome[t])
      <4>1. CASE UNCHANGED taskVars
          BY <4>1 DEF taskVars
      <4>2. CASE TurnsAway(c)
        <5>1. \A t \in Of(c) : t # Current(c) => tpc'[t] = tpc[t] /\ outcome'[t] = outcome[t]
            BY <1>1, <4>2, TaskFacts DEF TurnsAway, Typed
        <5>2. tpc[Current(c)] = "new" /\ tpc'[Current(c)] = "report"
            BY <1>1, <4>2, CurrentFacts DEF TurnsAway, Typed
        <5>3. QED
            BY <5>1, <5>2 DEF Told
      <4>3. CASE Starts(c)
        <5>1. \A t \in Of(c) : t # Current(c) => tpc'[t] = tpc[t] /\ outcome'[t] = outcome[t]
            BY <1>1, <4>3, TaskFacts DEF Starts, Typed
        <5>2. tpc[Current(c)] = "new" /\ tpc'[Current(c)] = "go"
            BY <1>1, <4>3, CurrentFacts DEF Starts, Typed
        <5>3. QED
            BY <5>1, <5>2 DEF Told
      <4>4. QED
          BY <1>5, <2>2, <4>1, <4>2, <4>3, CallerEffects
    <3>2. Good(c)' = Good(c) /\ Failures(c)' = Failures(c)
        BY <1>3, <3>1
    <3>3. CASE CollectError(c)
      <4>1. /\ got'[c] = got[c] + 1 /\ doneChan' = doneChan /\ pc' = pc
            /\ pc[c] = "first" /\ got[c] # Size[c]
          BY <1>1, <3>3 DEF CollectError, Launched, Complete, Typed
      <4>2. ReadSoFar(c)' = ReadSoFar(c) + 1 /\ Unread(c)' = Unread(c) - 1
        <5>1. /\ errs'[c] = Append(errs[c], Head(errorChan[c]))
              /\ errorChan'[c] = Tail(errorChan[c]) /\ errorChan[c] # <<>>
            BY <1>1, <3>3 DEF CollectError, Typed
        <5>2. QED
            BY <1>1, <5>1 DEF ReadSoFar, Unread
      <4>3. got[c] + 1 <= Size[c] /\ pc'[c] # "returned"
          BY <1>1, <4>1
      <4>4. doneChan'[c] + got'[c] = Cardinality(Good(c)) + ReadSoFar(c)'
        <5>1. doneChan[c] + got[c] = Cardinality(Good(c)) + ReadSoFar(c)
            BY <1>1
        <5>2. doneChan[c] \in Nat /\ got[c] \in Nat /\ Cardinality(Good(c)) \in Nat /\ ReadSoFar(c) \in Nat
            BY <1>1, <1>2
        <5>3. doneChan'[c] = doneChan[c] /\ got'[c] = got[c] + 1
            BY <4>1
        <5>4. QED
            BY <4>2, <5>1, <5>2, <5>3
      <4>5. Unread(c)' + ReadSoFar(c)' = Cardinality(Failures(c)) /\ ReadSoFar(c)' <= got'[c]
        <5>1. Unread(c) + ReadSoFar(c) = Cardinality(Failures(c)) /\ ReadSoFar(c) <= got[c]
            BY <1>1
        <5>2. Unread(c) \in Nat /\ ReadSoFar(c) \in Nat /\ got[c] \in Nat /\ Cardinality(Failures(c)) \in Nat
            BY <1>1, <1>2
        <5>3. got'[c] = got[c] + 1
            BY <4>1
        <5>4. QED
            BY <4>2, <5>1, <5>2, <5>3
      <4>6. QED
          BY <3>2, <4>1, <4>3, <4>4, <4>5
    <3>4. CASE CollectDone(c)
      <4>1. /\ doneChan'[c] = doneChan[c] - 1 /\ got'[c] = got[c] + 1
            /\ errs' = errs /\ errorChan' = errorChan /\ pc' = pc
            /\ pc[c] = "first" /\ got[c] # Size[c]
          BY <1>1, <3>4 DEF CollectDone, Launched, Complete, Typed
      <4>2. ReadSoFar(c)' = ReadSoFar(c) /\ Unread(c)' = Unread(c)
          BY <4>1 DEF ReadSoFar, Unread
      <4>3. got[c] + 1 <= Size[c] /\ pc'[c] # "returned"
          BY <1>1, <4>1
      <4>4. doneChan'[c] + got'[c] = Cardinality(Good(c)) + ReadSoFar(c)'
          BY <1>1, <1>2, <4>1, <4>2
      <4>5. Unread(c)' + ReadSoFar(c)' = Cardinality(Failures(c)) /\ ReadSoFar(c)' <= got'[c]
          BY <1>1, <1>2, <4>1, <4>2
      <4>6. QED
          BY <3>2, <4>1, <4>3, <4>4, <4>5
    <3>5. CASE Return(c)
      <4>1. got[c] = Size[c] /\ UNCHANGED <<doneChan, got, errs, errorChan>>
          BY <3>5 DEF Return, Complete
      <4>2. QED
          BY <1>1, <3>2, <4>1 DEF ReadSoFar, Unread
    <3>6. CASE First(c) \/ SelectCanceled(c) \/ SelectToken(c) \/ Start(c) \/ PutBack(c) \/ Refused(c)
      <4>1. UNCHANGED <<doneChan, got, errs, errorChan>> /\ pc'[c] # "returned"
          BY <1>1, <3>6 DEF First, SelectCanceled, SelectToken, Start, PutBack, Refused, Goto, Typed
      <4>2. QED
          BY <1>1, <3>2, <4>1 DEF ReadSoFar, Unread
    <3>7. QED
        BY <1>5, <2>2, <3>3, <3>4, <3>5, <3>6 DEF CallerStep
  <2>3. QED
      BY <2>1, <2>2
<1>6. ASSUME NEW u \in Tasks, TaskStep(u) PROVE C(c)'
  <2>1. UNCHANGED <<pc, got, errs>>
      BY <1>1, <1>6, TaskEffects
  <2>2. \A t \in Of(c) : t # u => tpc'[t] = tpc[t] /\ outcome'[t] = outcome[t]
      BY <1>6, TaskFacts, OtherTasks
  <2>3. CASE Send(u) /\ u \in Of(c)
    <3>1. /\ u[1] = c /\ tpc[u] = "send" /\ tpc'[u] = "signal" /\ outcome' = outcome
          BY <1>1, <2>3, TaskFacts DEF Send, GotoT, Typed
    <3>2. u \notin Good(c) /\ u \notin Failures(c)
        BY <3>1 DEF Good, Failures, Told
    <3>3. CASE outcome[u] = "ok"
      <4>1. Good(c)' = Good(c) \cup {u} /\ Failures(c)' = Failures(c)
          BY <2>2, <2>3, <3>1, <3>3 DEF Good, Failures, Told
      <4>2. Cardinality(Good(c)') = Cardinality(Good(c)) + 1
          BY <1>2, <2>3, <3>2, <4>1, OneMore
      <4>3. doneChan' = [doneChan EXCEPT ![c] = @ + 1] /\ errorChan' = errorChan
          BY <2>3, <3>1, <3>3 DEF Send
      <4>4. doneChan'[c] = doneChan[c] + 1
          BY <1>1, <4>3 DEF Typed
      <4>5. ReadSoFar(c)' = ReadSoFar(c) /\ Unread(c)' = Unread(c)
          BY <2>1, <4>3 DEF ReadSoFar, Unread
      <4>6. QED
          BY <1>1, <1>2, <2>1, <4>1, <4>2, <4>3, <4>4, <4>5
    <3>4. CASE outcome[u] # "ok"
      <4>1. Failures(c)' = Failures(c) \cup {u} /\ Good(c)' = Good(c)
          BY <2>2, <2>3, <3>1, <3>4 DEF Good, Failures, Told
      <4>2. Cardinality(Failures(c)') = Cardinality(Failures(c)) + 1
          BY <1>2, <2>3, <3>2, <4>1, OneMore
      <4>3. errorChan' = [errorChan EXCEPT ![c] = Append(@, u)] /\ doneChan' = doneChan
          BY <2>3, <3>1, <3>4 DEF Send
      <4>4. errorChan'[c] = Append(errorChan[c], u)
          BY <1>1, <4>3 DEF Typed
      <4>5. Unread(c)' = Unread(c) + 1
          BY <1>1, <4>4 DEF Unread
      <4>6. ReadSoFar(c)' = ReadSoFar(c)
          BY <2>1 DEF ReadSoFar
      <4>7. QED
          BY <1>1, <1>2, <2>1, <4>1, <4>2, <4>3, <4>5, <4>6
    <3>5. QED
        BY <3>3, <3>4
  <2>4. CASE ~(Send(u) /\ u \in Of(c))
    <3>1. UNCHANGED <<doneChan[c], errorChan[c]>>
      <4>1. CASE Send(u)
          BY <1>1, <2>4, <4>1, TaskFacts DEF Send, Typed, Of
      <4>2. CASE ~Send(u)
          BY <1>6, <4>2 DEF TaskStep, Skip, Run, End, Report, Signal, Release, callVars
      <4>3. QED
          BY <4>1, <4>2
    <3>2. u \in Of(c) => (tpc'[u] \in Told <=> tpc[u] \in Told)
                         /\ (tpc[u] \in Told => outcome'[u] = outcome[u])
        BY <1>1, <1>6, <2>4 DEF TaskStep, Skip, Run, End, Report, Signal, Release, GotoT, Told, Typed
    <3>3. QED
        BY <1>3, <1>4, <2>1, <2>2, <3>1, <3>2
  <2>5. QED
      BY <2>3, <2>4
<1>7. ASSUME UNCHANGED <<pc, doneChan, got, errs, errorChan, taskVars>> PROVE C(c)'
  <2>1. Good(c)' = Good(c) /\ Failures(c)' = Failures(c)
      BY <1>7 DEF Good, Failures, taskVars
  <2>2. QED
      BY <1>4, <1>7, <2>1
<1>8. QED
    BY <1>5, <1>6, <1>7, OthersEffects DEF Next, vars, callVars

\* A cancellation has a reason, and the reason stays.
LEMMA CausesStep == IInv /\ [Next]_vars => Causes'
<1> DEFINE Cause(c) == \/ outside[c] \/ pc[c] = "returned"
                       \/ \E t \in Of(c) : outcome[t] \in {"failed", "closed"}
<1> SUFFICES ASSUME IInv, [Next]_vars
             PROVE  /\ \A c \in Callers : canceled'[c] => Cause(c)'
                    /\ \A t \in Tasks : outcome'[t] = "canceled" => canceled'[t[1]]
    BY DEF Causes, CancelHasCause
<1>1. /\ Typed /\ Launches /\ Outcomes
      /\ \A c \in Callers : canceled[c] => Cause(c)
      /\ \A t \in Tasks : outcome[t] = "canceled" => canceled[t[1]]
    BY DEF IInv, Causes, CancelHasCause
<1> DEFINE Kept == \A t \in Tasks : outcome[t] # "none" => outcome'[t] = outcome[t]
           Stay == \A c \in Callers : /\ pc[c] = "returned" => pc'[c] = "returned"
                                      /\ outside[c] => outside'[c]
                                      /\ canceled[c] => canceled'[c]
<1>2. ASSUME Kept, Stay, NEW c \in Callers, Cause(c) PROVE Cause(c)'
    BY <1>2, TaskFacts
<1>3. CASE UNCHANGED <<canceled, outside, pc, outcome>>
    BY <1>1, <1>3
<1>4. ASSUME NEW c \in Callers, CallerStep(c)
      PROVE  /\ \A d \in Callers : canceled'[d] => Cause(d)'
             /\ \A t \in Tasks : outcome'[t] = "canceled" => canceled'[t[1]]
  <2>1. outside' = outside /\ pc[c] # "returned"
      BY <1>4 DEF CallerStep, First, SelectCanceled, SelectToken, Start, PutBack, Refused,
         CollectError, CollectDone, Return, Goto, Launched
  <2>2. CASE Return(c)
    <3>1. /\ canceled' = [canceled EXCEPT ![c] = TRUE] /\ pc' = [pc EXCEPT ![c] = "returned"]
          /\ outcome' = outcome
        BY <2>2 DEF Return, taskVars
    <3>2. \A d \in Callers : /\ d # c => canceled'[d] = canceled[d] /\ pc'[d] = pc[d]
                             /\ canceled[d] => canceled'[d]
        BY <1>1, <3>1 DEF Typed
    <3>3. pc'[c] = "returned"
        BY <1>1, <3>1 DEF Typed
    <3>4. ASSUME NEW d \in Callers, canceled'[d] PROVE Cause(d)'
      <4>1. CASE d = c
          BY <3>3, <4>1
      <4>2. CASE d # c
          BY <1>1, <2>1, <3>1, <3>2, <3>4, <4>2
      <4>3. QED
          BY <4>1, <4>2
    <3>5. QED
        BY <1>1, <3>1, <3>2, <3>4, TaskFacts
  <2>3. CASE ~Return(c)
    <3>1. canceled' = canceled
        BY <1>4, <2>3 DEF CallerStep, First, SelectCanceled, SelectToken, Start, PutBack, Refused,
           CollectError, CollectDone
    <3>2. \A d \in Callers : pc[d] = "returned" => pc'[d] = "returned"
        BY <1>4, <2>1, Elsewhere
    <3>3. CASE outcome' = outcome
        BY <1>1, <2>1, <3>1, <3>2, <3>3
    <3>4. CASE TurnsAway(c)
      <4>1. /\ Current(c) \in Tasks /\ Current(c)[1] = c /\ outcome[Current(c)] = "none"
          BY <1>1, <3>4, CurrentFacts DEF TurnsAway, Outcomes, Silent
      <4>2. \A t \in Tasks : t # Current(c) => outcome'[t] = outcome[t]
          BY <1>1, <3>4 DEF TurnsAway, Typed
      <4>3. outcome'[Current(c)] = "canceled" => canceled[c]
          BY <1>1, <3>4, <4>1 DEF TurnsAway, Typed
      <4>4. Kept /\ Stay
          BY <2>1, <3>1, <3>2, <4>1, <4>2
      <4>5. \A d \in Callers : Cause(d) => Cause(d)'
          BY <1>2, <4>4
      <4>6. QED
          BY <1>1, <3>1, <4>1, <4>2, <4>3, <4>5
    <3>5. QED
        BY <1>4, <3>3, <3>4, CallerEffects DEF taskVars, Starts
  <2>4. QED
      BY <2>2, <2>3
<1>5. ASSUME NEW t \in Tasks, TaskStep(t)
      PROVE  /\ \A d \in Callers : canceled'[d] => Cause(d)'
             /\ \A u \in Tasks : outcome'[u] = "canceled" => canceled'[u[1]]
  <2>1. pc' = pc /\ outside' = outside /\ \A u \in Tasks : u # t => outcome'[u] = outcome[u]
      BY <1>1, <1>5, TaskEffects, OtherTasks
  <2>2. CASE Report(t)
    <3>1. /\ canceled' = [canceled EXCEPT ![t[1]] = @ \/ outcome[t] # "ok"] /\ outcome' = outcome
          /\ tpc[t] = "report" /\ t[1] \in Callers /\ t \in Of(t[1])
        BY <2>2, TaskFacts DEF Report, Canceling, GotoT
    <3>2. outcome[t] \in {"ok", "failed", "canceled", "closed"}
        BY <1>1, <3>1 DEF Outcomes, Typed, Silent
    <3>3. outcome[t] # "ok" => Cause(t[1])
        BY <1>1, <3>1, <3>2
    <3>4. \A d \in Callers : /\ d # t[1] => canceled'[d] = canceled[d]
                             /\ canceled[d] => canceled'[d]
                             /\ canceled'[d] => canceled[d] \/ (d = t[1] /\ outcome[t] # "ok")
        BY <1>1, <3>1 DEF Typed
    <3>5. \A d \in Callers : Cause(d) => Cause(d)'
        BY <2>1, <3>1
    <3>6. QED
        BY <1>1, <3>1, <3>3, <3>4, <3>5, TaskFacts
  <2>3. CASE ~Report(t)
    <3>1. canceled' = canceled
        BY <1>5, <2>3 DEF TaskStep, Skip, Run, End, Send, Signal, Release, callVars
    <3>2. outcome' = outcome \/ (tpc[t] \in Silent /\ (outcome'[t] = "canceled" => canceled[t[1]]))
        BY <1>1, <1>5, <2>3 DEF TaskStep, Skip, Run, End, Send, Signal, Release, GotoT, Silent, Typed
    <3>3. Kept /\ Stay
        BY <1>1, <2>1, <3>1, <3>2 DEF Outcomes
    <3>4. \A d \in Callers : Cause(d) => Cause(d)'
        BY <1>2, <3>3
    <3>5. QED
        BY <1>1, <2>1, <3>1, <3>2, <3>4
  <2>4. QED
      BY <2>2, <2>3
<1>6. ASSUME NEW c \in Callers, CancelOutside(c)
      PROVE  /\ \A d \in Callers : canceled'[d] => Cause(d)'
             /\ \A t \in Tasks : outcome'[t] = "canceled" => canceled'[t[1]]
  <2>1. /\ canceled' = [canceled EXCEPT ![c] = TRUE] /\ outside' = [outside EXCEPT ![c] = TRUE]
        /\ UNCHANGED <<pc, outcome>>
      BY <1>6 DEF CancelOutside, taskVars
  <2>2. \A d \in Callers : /\ d # c => canceled'[d] = canceled[d] /\ outside'[d] = outside[d]
                           /\ canceled[d] => canceled'[d]
      BY <1>1, <2>1 DEF Typed
  <2>3. outside'[c]
      BY <1>1, <2>1 DEF Typed
  <2>4. ASSUME NEW d \in Callers, canceled'[d] PROVE Cause(d)'
    <3>1. CASE d = c
        BY <2>3, <3>1
    <3>2. CASE d # c
        BY <1>1, <2>1, <2>2, <2>4, <3>2
    <3>3. QED
        BY <3>1, <3>2
  <2>5. QED
      BY <1>1, <2>1, <2>2, <2>4, TaskFacts
<1>7. QED
    BY <1>3, <1>4, <1>5, <1>6, OthersEffects DEF Next, vars, callVars, taskVars

-----------------------------------------------------------------------------
(* The theorems                                                            *)

\* Every step keeps the invariant.
LEMMA StepIInv == IInv /\ [Next]_vars => IInv'
BY TypedStep, LaunchesStep, OutcomesStep, HoldingStep, OwnStep, TokensStep, ShutStep,
   WaitingStep, TalliedStep, ReturnsAfterAllStep, CausesStep DEF IInv

\* The invariant holds of every behaviour of the executor and of its calls.
THEOREM ExecutorInvariant == Spec => []IInv
BY InitIInv, StepIInv, PTL DEF Spec

\* Every variable has its type, and every channel and counter its bound.
LEMMA InBounds == IInv => TypeOK
<1> SUFFICES ASSUME IInv PROVE TypeOK
    OBVIOUS
<1>1. /\ Typed /\ Own /\ Launches /\ Tokens /\ Shut /\ Waiting /\ Tallied /\ MaxConcurrent \in Nat
      /\ Cardinality(holds) \in Nat /\ Cardinality(Deciding) \in Nat
    BY SimultaneouslyAssumption, DecidingFacts, FS_CardinalityType DEF IInv, Typed
<1>2. sem \in 0..MaxConcurrent
  <2>1. CASE semClosed
      BY <1>1, <2>1 DEF Shut
  <2>2. CASE ~semClosed
      BY <1>1, <2>2 DEF Tokens, Typed
  <2>3. QED
      BY <2>1, <2>2
<1>3. ASSUME NEW c \in Callers
      PROVE  /\ next[c] \in 1..(Size[c] + 1) /\ wg[c] \in 0..Size[c]
             /\ doneChan[c] \in 0..Size[c] /\ got[c] \in 0..Size[c]
             /\ errorChan[c] \in Seq(Of(c)) /\ errs[c] \in Seq(Of(c))
  <2>1. Size[c] \in Nat /\ got[c] \in Nat /\ doneChan[c] \in Nat /\ ReadSoFar(c) \in Nat
      BY <1>1, SimultaneouslyAssumption DEF Typed, ReadSoFar
  <2>2. Open(c) \in SUBSET Of(c) /\ Good(c) \in SUBSET Of(c)
      BY DEF Open, Good
  <2>3. /\ Cardinality(Open(c)) \in Nat /\ Cardinality(Open(c)) <= Size[c]
        /\ Cardinality(Good(c)) \in Nat /\ Cardinality(Good(c)) <= Size[c]
      BY <2>2, PartOf
  <2>4. wg[c] \in 0..Size[c]
      BY <1>1, <2>1, <2>3 DEF Waiting
  <2>5. doneChan[c] \in 0..Size[c] /\ got[c] \in 0..Size[c]
    <3>1. doneChan[c] + got[c] = Cardinality(Good(c)) + ReadSoFar(c) /\ ReadSoFar(c) <= got[c]
          /\ got[c] <= Size[c]
        BY <1>1 DEF Tallied
    <3>2. QED
        BY <2>1, <2>3, <3>1
  <2>6. next[c] \in 1..(Size[c] + 1)
      BY <1>1 DEF Launches
  <2>7. QED
      BY <1>1, <2>4, <2>5, <2>6 DEF Own
<1>4. /\ tpc \in [Tasks -> {"new", "go", "fn", "report", "send", "signal", "release", "over"}]
      /\ outcome \in [Tasks -> {"none", "ok", "failed", "canceled", "closed"}]
    BY <1>1 DEF Typed, Busy, Told, Silent
<1>5. QED
    BY <1>1, <1>2, <1>3, <1>4 DEF Typed, TypeOK

\* The tokens of the executor are conserved through every start, refusal and
\* release, Close returns when they are all back, and only a Close amid the calls
\* makes a send panic.
THEOREM ExecutorSound == Spec => []ExecutorIsSound
<1>1. IInv => ExecutorIsSound
  <2> SUFFICES ASSUME IInv PROVE ExecutorIsSound
      OBVIOUS
  <2>1. TokensConserved
      BY InBounds DEF IInv, Tokens, TokensConserved
  <2>2. CloseWaits /\ CrashIsShared
      BY DEF IInv, Shut, CloseWaits, CrashIsShared
  <2>3. QED
      BY <2>1, <2>2 DEF ExecutorIsSound
<1>2. QED
    BY <1>1, ExecutorInvariant, PTL

\* A call that returns without an error has run all its callbacks to success, a
\* call that returns at all leaves none of them running, and a callback is told
\* to stop only for a reason.
THEOREM CallsTruthful == Spec => []ResultsAreTrue
<1>1. IInv => NilMeansAllRan
  <2> SUFFICES ASSUME IInv, NEW c \in Callers, pc[c] = "returned", errs[c] = <<>>,
                      NEW t \in Of(c)
               PROVE  outcome[t] = "ok"
      BY DEF NilMeansAllRan
  <2>1. /\ got[c] = Size[c] /\ doneChan[c] + got[c] = Cardinality(Good(c)) + ReadSoFar(c)
        /\ got[c] \in Nat /\ doneChan[c] \in Nat
      BY DEF IInv, Tallied, Typed
  <2>2. ReadSoFar(c) = 0
      BY DEF ReadSoFar
  <2>3. Good(c) \in SUBSET Of(c)
      BY DEF Good
  <2>4. Cardinality(Good(c)) \in Nat
      BY <2>3, PartOf
  <2>5. Cardinality(Good(c)) >= Size[c]
      BY <2>1, <2>2, <2>4
  <2>6. Good(c) = Of(c)
      BY <2>3, <2>5, PartOf
  <2>7. QED
      BY <2>6 DEF Good
<1>2. IInv => ResultsAreTrue
    BY <1>1 DEF IInv, Causes, ResultsAreTrue
<1>3. QED
    BY <1>2, ExecutorInvariant, PTL

-----------------------------------------------------------------------------
(* A lazy value: the inductive invariant                                   *)

LazyTyped ==
    /\ lkind \in {"of", "err"} /\ create \in BOOLEAN /\ lvalue \in {"nil", "made", "set"}
    /\ lonce \in Nat /\ guard \in Getters \cup {"free", "done"} /\ done \in BOOLEAN
    /\ lpc \in [Getters -> {"out", "do", "inside", "making", "clear", "recover", "read", "over"}]
    /\ mine \in [Getters -> Nat]
    /\ lret \in [Getters -> {"none", "zero", "made", "set", "error", "panic"}]
    /\ lspc \in {"out", "create", "value", "over"} /\ made \in {0, 1}
    /\ raced \in BOOLEAN /\ excused \in SUBSET Getters

\* Nobody else is where the Once or the mutex lets in one; while a panic is
\* being recovered the Once counts as done.
Guarded ==
    \A g \in Getters :
       /\ lpc[g] \in {"inside", "making", "clear"} => guard = g
       /\ IsOf /\ lpc[g] = "recover" => guard = "done" /\ \A h \in Getters : lpc[h] = "recover" => h = g

\* The create function is only there while it has made nothing, or until the
\* one that made the value clears it.
OneValue ==
    /\ \A g \in Getters : lpc[g] = "making" => made = 0
    /\ made = 1 /\ create => \E g \in Getters : lpc[g] = "clear"
    /\ \A g \in Getters : lpc[g] = "clear" => lvalue # "nil"

Setting == lspc \in {"create", "value"}
Recovering == IsOf /\ \E h \in Getters : lpc[h] = "recover"

\* As long as there is no value, what makes a Get skip the create function is a
\* Set or a panic, and whoever is in a Get meanwhile is excused.
NilHasCause ==
    /\ \A g \in ActiveGets : Setting \/ Recovering \/ (IsOf /\ mine[g] < lonce) => g \in excused
    /\ lvalue = "nil" => /\ ~create => Setting
                         /\ ~IsOf /\ done => Setting
                         /\ IsOf /\ guard = "done" => Setting \/ Recovering
                         /\ \A g \in Getters : lpc[g] = "read" => g \in excused /\ (~IsOf => Setting)
    /\ ZeroIsExcused

\* After Set has cleared the create function only one that runs can make a value.
SetIsLast ==
    /\ lspc \in {"value", "over"} =>
          ~create /\ \A g \in Getters : lpc[g] = "making" => raced
    /\ SetStays

LInv == LazyTyped /\ Guarded /\ OneValue /\ NilHasCause /\ SetIsLast

-----------------------------------------------------------------------------
(* The proof: the initial states, and the steps one conjunct at a time     *)

\* At first there is a create function, no value, and nobody is in a Get.
LEMMA InitLInv == LazyInit => LInv
<1> SUFFICES ASSUME LazyInit PROVE LInv
    OBVIOUS
<1>1. LazyTyped
    BY DEF LazyInit, LazyTyped
<1>2. ActiveGets = {} /\ ~Recovering
    BY DEF LazyInit, ActiveGets, Recovering
<1>3. Guarded /\ OneValue
    BY DEF LazyInit, Guarded, OneValue
<1>4. NilHasCause
    BY <1>2 DEF LazyInit, NilHasCause, ZeroIsExcused
<1>5. SetIsLast
    BY DEF LazyInit, SetIsLast, SetStays
<1>6. QED
    BY <1>1, <1>3, <1>4, <1>5 DEF LInv

\* Every variable keeps its type; a second value is never made.
LEMMA LazyTypedStep == LInv /\ [LazyNext]_lazyVars => LazyTyped'
<1> SUFFICES ASSUME LInv, [LazyNext]_lazyVars PROVE LazyTyped'
    OBVIOUS
<1>1. LazyTyped /\ OneValue
    BY DEF LInv
<1>2. CASE UNCHANGED lazyVars
    BY <1>1, <1>2 DEF LazyTyped, lazyVars
<1>3. CASE Set
    BY <1>1, <1>3 DEF LazyTyped, Set, SetFlag, SetCreate, SetValue, ActiveGets
<1>4. ASSUME NEW g \in Getters, StartGet(g) PROVE LazyTyped'
    BY <1>1, <1>4 DEF LazyTyped, StartGet, GetGoto
<1>5. ASSUME NEW g \in Getters, GetStep(g) PROVE LazyTyped'
  <2>1. CASE SkipMaking(g) \/ Enter(g) \/ Begin(g) \/ Read(g)
    <3>1. CASE SkipMaking(g) \/ Enter(g)
        BY <1>1, <3>1 DEF LazyTyped, SkipMaking, Enter, GetGoto
    <3>2. CASE Begin(g)
        BY <1>1, <3>2 DEF LazyTyped, Begin, GetGoto
    <3>3. CASE Read(g)
        BY <1>1, <3>3 DEF LazyTyped, Read, GetGoto
    <3>4. QED
        BY <2>1, <3>1, <3>2, <3>3
  <2>2. CASE NotNeeded(g)
      BY <1>1, <2>2 DEF LazyTyped, NotNeeded, GetGoto, Leave
  <2>3. CASE Make(g)
      BY <1>1, <2>3 DEF LazyTyped, OneValue, Make, GetGoto
  <2>4. CASE Clear(g) \/ Fail(g)
      BY <1>1, <2>4 DEF LazyTyped, Clear, Fail, GetGoto, Leave
  <2>5. CASE Panic(g)
      BY <1>1, <2>5 DEF LazyTyped, Panic, GetGoto, Leave, ActiveGets
  <2>6. CASE Recover(g)
    <3>1. lonce' \in Nat /\ guard' \in Getters \cup {"free", "done"}
        BY <1>1, <2>6 DEF LazyTyped, Recover
    <3>2. done' \in BOOLEAN
        BY <1>1, <2>6 DEF LazyTyped, Recover
    <3>3. QED
        BY <1>1, <2>6, <3>1, <3>2 DEF LazyTyped, Recover, GetGoto
  <2>7. QED
      BY <1>5, <2>1, <2>2, <2>3, <2>4, <2>5, <2>6 DEF GetStep
<1>6. QED
    BY <1>2, <1>3, <1>4, <1>5 DEF LazyNext

\* One at a time is inside.
LEMMA GuardedStep == LInv /\ [LazyNext]_lazyVars => Guarded'
<1> SUFFICES ASSUME LInv, [LazyNext]_lazyVars PROVE Guarded'
    OBVIOUS
<1>1. LazyTyped /\ Guarded
    BY DEF LInv
<1>2. CASE UNCHANGED <<lkind, guard, lpc>>
    BY <1>1, <1>2 DEF Guarded, IsOf
<1>3. ASSUME NEW g \in Getters, StartGet(g) PROVE Guarded'
    BY <1>1, <1>3 DEF LazyTyped, Guarded, StartGet, GetGoto, IsOf
<1>4. ASSUME NEW g \in Getters, GetStep(g) PROVE Guarded'
  <2>1. CASE SkipMaking(g) \/ Read(g)
      BY <1>1, <2>1 DEF LazyTyped, Guarded, SkipMaking, Read, GetGoto, IsOf
  <2>2. CASE Enter(g)
      BY LazyNames, <1>1, <2>2 DEF LazyTyped, Guarded, Enter, GetGoto, IsOf
  <2>3. CASE Begin(g) \/ Make(g)
      BY <1>1, <2>3 DEF LazyTyped, Guarded, Begin, Make, GetGoto, IsOf
  <2>4. CASE NotNeeded(g) \/ Clear(g) \/ Fail(g)
      BY LazyNames, <1>1, <2>4 DEF LazyTyped, Guarded, NotNeeded, Clear, Fail, GetGoto, Leave, IsOf
  <2>5. CASE Panic(g)
      BY LazyNames, <1>1, <2>5 DEF LazyTyped, Guarded, Panic, GetGoto, Leave, IsOf
  <2>6. CASE Recover(g)
      BY LazyNames, <1>1, <2>6 DEF LazyTyped, Guarded, Recover, GetGoto, IsOf
  <2>7. QED
      BY <1>4, <2>1, <2>2, <2>3, <2>4, <2>5, <2>6 DEF GetStep
<1>5. QED
    BY <1>2, <1>3, <1>4 DEF LazyNext, lazyVars, Set, SetFlag, SetCreate, SetValue

\* Once a value was made, nobody starts to make another one.
LEMMA OneValueStep == LInv /\ [LazyNext]_lazyVars => OneValue'
<1> SUFFICES ASSUME LInv, [LazyNext]_lazyVars PROVE OneValue'
    OBVIOUS
<1>1. LazyTyped /\ Guarded /\ OneValue
    BY DEF LInv
<1>2. CASE UNCHANGED <<create, lvalue, lpc, made>>
    BY <1>1, <1>2 DEF OneValue
<1>3. CASE Set
  <2>1. CASE SetFlag
      BY <1>1, <2>1 DEF OneValue, SetFlag
  <2>2. CASE SetCreate
      BY <1>1, <2>2 DEF OneValue, SetCreate
  <2>3. CASE SetValue
      BY <1>1, <2>3 DEF OneValue, SetValue
  <2>4. QED
      BY <1>3, <2>1, <2>2, <2>3 DEF Set
<1>4. ASSUME NEW g \in Getters, StartGet(g) PROVE OneValue'
    BY <1>1, <1>4 DEF LazyTyped, OneValue, StartGet, GetGoto
<1>5. ASSUME NEW g \in Getters, GetStep(g) PROVE OneValue'
  <2>1. CASE SkipMaking(g) \/ Enter(g) \/ NotNeeded(g) \/ Fail(g) \/ Panic(g) \/ Recover(g)
      BY <1>1, <2>1 DEF LazyTyped, OneValue, SkipMaking, Enter, NotNeeded, Fail, Panic, Recover, GetGoto
  <2>2. CASE Begin(g)
    <3>1. create /\ guard = g /\ made = 0
        BY <1>1, <2>2 DEF LazyTyped, Guarded, OneValue, Begin, Needed, GetGoto
    <3>2. QED
        BY <1>1, <2>2, <3>1 DEF LazyTyped, OneValue, Begin, GetGoto
  <2>3. CASE Make(g)
    <3>1. \A h \in Getters : h # g => lpc[h] # "making"
        BY <1>1, <2>3 DEF Guarded, Make, GetGoto
    <3>2. QED
        BY <1>1, <2>3, <3>1 DEF LazyTyped, OneValue, Make, GetGoto
  <2>4. CASE Clear(g)
      BY <1>1, <2>4 DEF LazyTyped, OneValue, Clear, GetGoto
  <2>5. CASE Read(g)
      BY <1>1, <2>5 DEF LazyTyped, OneValue, Read, GetGoto
  <2>6. QED
      BY <1>5, <2>1, <2>2, <2>3, <2>4, <2>5 DEF GetStep
<1>6. QED
    BY <1>2, <1>3, <1>4, <1>5 DEF LazyNext, lazyVars

\* A value that was Set is replaced only by a create function that was running.
LEMMA SetIsLastStep == LInv /\ [LazyNext]_lazyVars => SetIsLast'
<1> SUFFICES ASSUME LInv, [LazyNext]_lazyVars PROVE SetIsLast'
    OBVIOUS
<1>1. LazyTyped /\ SetIsLast
    BY DEF LInv
<1>2. CASE UNCHANGED <<create, lvalue, lpc, lspc, raced>>
    BY <1>1, <1>2 DEF SetIsLast, SetStays
<1>3. CASE Set
  <2>1. CASE SetFlag
      BY <1>1, <2>1 DEF SetIsLast, SetStays, SetFlag
  <2>2. CASE SetCreate
      BY <1>1, <2>2 DEF SetIsLast, SetStays, SetCreate
  <2>3. CASE SetValue
      BY <1>1, <2>3 DEF SetIsLast, SetStays, SetValue
  <2>4. QED
      BY <1>3, <2>1, <2>2, <2>3 DEF Set
<1>4. ASSUME NEW g \in Getters, StartGet(g) PROVE SetIsLast'
    BY <1>1, <1>4 DEF LazyTyped, SetIsLast, SetStays, StartGet, GetGoto
<1>5. ASSUME NEW g \in Getters, GetStep(g) PROVE SetIsLast'
  <2>1. CASE SkipMaking(g) \/ Enter(g) \/ NotNeeded(g) \/ Fail(g) \/ Panic(g) \/ Recover(g)
      BY <1>1, <2>1 DEF LazyTyped, SetIsLast, SetStays, SkipMaking, Enter, NotNeeded, Fail, Panic,
         Recover, GetGoto
  <2>2. CASE Begin(g) \/ Make(g) \/ Clear(g) \/ Read(g)
      BY <1>1, <2>2 DEF LazyTyped, SetIsLast, SetStays, Begin, Needed, Make, Clear, Read, GetGoto
  <2>3. QED
      BY <1>5, <2>1, <2>2 DEF GetStep
<1>6. QED
    BY <1>2, <1>3, <1>4, <1>5 DEF LazyNext, lazyVars

\* A Get that finds neither a value nor a way to make one overlaps with a Set or
\* with a panic.
LEMMA NilHasCauseStep == LInv /\ [LazyNext]_lazyVars => NilHasCause'
<1> SUFFICES ASSUME LInv, [LazyNext]_lazyVars PROVE NilHasCause'
    OBVIOUS
<1>1. LazyTyped /\ Guarded /\ OneValue /\ NilHasCause
    BY DEF LInv
<1>2. CASE UNCHANGED lazyVars
    BY <1>1, <1>2 DEF NilHasCause, ActiveGets, Setting, Recovering, ZeroIsExcused, IsOf, lazyVars
<1>3. CASE SetFlag
    BY <1>1, <1>3 DEF NilHasCause, ActiveGets, Setting, Recovering, ZeroIsExcused, IsOf, SetFlag
<1>4. CASE SetCreate
    BY <1>1, <1>4 DEF NilHasCause, ActiveGets, Setting, Recovering, ZeroIsExcused, IsOf, SetCreate
<1>5. CASE SetValue
    BY <1>1, <1>5 DEF NilHasCause, ActiveGets, Setting, Recovering, ZeroIsExcused, IsOf, SetValue
<1>6. ASSUME NEW g \in Getters, StartGet(g) PROVE NilHasCause'
    BY <1>1, <1>6 DEF NilHasCause, LazyTyped, ActiveGets, Setting, Recovering, ZeroIsExcused, IsOf,
       StartGet, GetGoto
<1>7. ASSUME NEW g \in Getters, GetStep(g) PROVE NilHasCause'
  <2>1. CASE SkipMaking(g)
      BY <1>1, <2>1 DEF NilHasCause, LazyTyped, ActiveGets, Setting, Recovering, ZeroIsExcused, IsOf,
         SkipMaking, Over, GetGoto
  <2>2. CASE Enter(g)
      BY LazyNames, <1>1, <2>2 DEF NilHasCause, LazyTyped, ActiveGets, Setting, Recovering, ZeroIsExcused, IsOf,
         Enter, GetGoto
  <2>3. CASE NotNeeded(g)
      BY <1>1, <2>3 DEF NilHasCause, LazyTyped, ActiveGets, Setting, Recovering, ZeroIsExcused, IsOf,
         NotNeeded, Needed, Leave, GetGoto
  <2>4. CASE Begin(g)
      BY <1>1, <2>4 DEF NilHasCause, LazyTyped, ActiveGets, Setting, Recovering, ZeroIsExcused, IsOf,
         Begin, GetGoto
  <2>5. CASE Make(g)
      BY <1>1, <2>5 DEF NilHasCause, LazyTyped, ActiveGets, Setting, Recovering, ZeroIsExcused, IsOf,
         Make, GetGoto
  <2>6. CASE Clear(g)
      BY <1>1, <2>6 DEF NilHasCause, OneValue, LazyTyped, ActiveGets, Setting, Recovering,
         ZeroIsExcused, IsOf, Clear, GetGoto
  <2>7. CASE Fail(g)
      BY <1>1, <2>7 DEF NilHasCause, LazyTyped, ActiveGets, Setting, Recovering, ZeroIsExcused, IsOf,
         Fail, Leave, GetGoto
  <2>8. CASE Panic(g)
      BY <1>1, <2>8 DEF NilHasCause, LazyTyped, ActiveGets, Setting, Recovering, ZeroIsExcused, IsOf,
         Panic, Leave, GetGoto
  <2>9. CASE Recover(g)
      BY <1>1, <2>9 DEF NilHasCause, Guarded, LazyTyped, ActiveGets, Setting, Recovering,
         ZeroIsExcused, IsOf, Recover, GetGoto
  <2>10. CASE Read(g)
      BY <1>1, <2>10 DEF NilHasCause, LazyTyped, ActiveGets, Setting, Recovering, ZeroIsExcused, IsOf,
         Read, GetGoto
  <2>11. QED
      BY <1>7, <2>1, <2>2, <2>3, <2>4, <2>5, <2>6, <2>7, <2>8, <2>9, <2>10 DEF GetStep
<1>8. QED
    BY <1>2, <1>3, <1>4, <1>5, <1>6, <1>7 DEF LazyNext, Set

-----------------------------------------------------------------------------
(* A lazy value: the theorems                                              *)

\* The invariant holds of every behaviour of a lazy value.
THEOREM LazyInvariant == LazySpec => []LInv
<1>1. LInv /\ [LazyNext]_lazyVars => LInv'
    BY LazyTypedStep, GuardedStep, OneValueStep, SetIsLastStep, NilHasCauseStep DEF LInv
<1>2. QED
    BY InitLInv, <1>1, PTL DEF LazySpec

\* The create function makes one value in one goroutine, a Get without a value
\* overlaps with a Set or with a panic, and a value that was Set stays.
THEOREM LazyIsSound == LazySpec => []LazyIsTrue
<1>1. LInv => LazyIsTrue
  <2> SUFFICES ASSUME LInv PROVE LazyIsTrue
      OBVIOUS
  <2>1. MadeOnce
      BY DEF LInv, LazyTyped, Guarded, MadeOnce
  <2>2. ZeroIsExcused /\ SetStays
      BY DEF LInv, NilHasCause, SetIsLast
  <2>3. QED
      BY <2>1, <2>2 DEF LazyIsTrue
<1>2. QED
    BY LazyInvariant, <1>1, PTL

-----------------------------------------------------------------------------
(* A pool of connections: the inductive invariant                          *)

ConnTyped ==
    /\ conns \in Seq(Conns) /\ open \in BOOLEAN /\ cclosed \in BOOLEAN /\ cpanic \in BOOLEAN
    /\ closer \in {"out", "marked", "drain", "over"}
    /\ upc \in [Users -> {"out", "take", "use", "send"}]
    /\ conn \in [Users -> 0..MaxConns] /\ dialed \in 0..MaxConns /\ shut \in SUBSET Conns

\* Whoever uses a connection or gives it back has one, and nobody else; the
\* channel is closed before it is drained.
Control ==
    /\ \A u \in Users : conn[u] # 0 <=> upc[u] \in {"use", "send"}
    /\ closer \in {"drain", "over"} => ~open

\* What ConnsKept says of the places of the connections.
Placed ==
    /\ IsInjective(conns)
    /\ \A u, v \in Users : conn[u] = conn[v] /\ conn[u] # 0 => u = v
    /\ Range(conns) \cap InUse = {} /\ shut \cap (Range(conns) \cup InUse) = {}
    /\ 1..dialed = Range(conns) \cup InUse \cup shut

\* The channel holds no more than its capacity, and nothing once it is drained.
Within == Len(conns) <= ConnSize /\ (closer = "over" => conns = <<>>)

CInv == ConnTyped /\ Control /\ Placed /\ Within

-----------------------------------------------------------------------------
(* Where connections go                                                    *)

\* A user without a connection gets one that nobody has.
LEMMA Obtain ==
    ASSUME ConnTyped, NEW u \in Users, conn[u] = 0, NEW c \in Conns, conn' = [conn EXCEPT ![u] = c]
    PROVE  InUse' = InUse \cup {c}
<1>1. \A v \in Users : conn'[v] = IF v = u THEN c ELSE conn[v]
    BY DEF ConnTyped
<1>2. c # 0
    BY DEF Conns
<1>3. QED
    BY <1>1, <1>2 DEF InUse

\* A user lets go of a connection that no other user has.
LEMMA LetGo ==
    ASSUME ConnTyped, Placed, NEW u \in Users, conn[u] # 0, conn' = [conn EXCEPT ![u] = 0]
    PROVE  InUse' = InUse \ {conn[u]} /\ conn[u] \in InUse
<1>1. \A v \in Users : conn'[v] = IF v = u THEN 0 ELSE conn[v]
    BY DEF ConnTyped
<1>2. \A v \in Users : v # u => conn[v] # conn[u]
    BY DEF Placed
<1>3. QED
    BY <1>1, <1>2 DEF InUse

\* The oldest idle connection leaves the channel.
LEMMA Oldest ==
    ASSUME ConnTyped, Placed, conns # <<>>
    PROVE  /\ Tail(conns) \in Seq(Conns) /\ Head(conns) \in Conns /\ Head(conns) \in Range(conns)
           /\ IsInjective(Tail(conns)) /\ Range(Tail(conns)) = Range(conns) \ {Head(conns)}
           /\ Len(Tail(conns)) = Len(conns) - 1 /\ Len(conns) \in Nat
<1>1. conns \in Seq(Conns) /\ IsInjective(conns)
    BY DEF ConnTyped, Placed
<1>2. Len(Tail(conns)) = Len(conns) - 1 /\ Len(conns) \in Nat
    BY <1>1
<1>3. QED
    BY <1>1, <1>2, TailOfDistinct

-----------------------------------------------------------------------------
(* The initial states, and the steps                                       *)

\* At first the channel is open and empty and nobody has a connection.
LEMMA InitCInv == ConnInit => CInv
<1> SUFFICES ASSUME ConnInit PROVE CInv
    OBVIOUS
<1>1. InUse = {} /\ Range(conns) = {} /\ 1..dialed = {} /\ Len(conns) = 0 /\ IsInjective(conns)
    BY DEF ConnInit, InUse, Range, IsInjective
<1>2. ConnTyped
  <2>1. 0 \in 0..MaxConns /\ <<>> \in Seq(Conns)
      BY ConnBounds
  <2>2. QED
      BY <2>1 DEF ConnInit, ConnTyped
<1>3. Control
    BY DEF ConnInit, Control
<1>4. Placed /\ Within
    BY ConnBounds, <1>1 DEF ConnInit, Placed, Within
<1>5. QED
    BY <1>2, <1>3, <1>4 DEF CInv

\* A step that moves no connection.
LEMMA Unmoved ==
    ASSUME CInv, UNCHANGED <<conns, conn, dialed, shut>>,
           upc' \in [Users -> {"out", "take", "use", "send"}],
           \A u \in Users : upc'[u] \in {"use", "send"} <=> upc[u] \in {"use", "send"},
           open' \in BOOLEAN, cclosed' \in BOOLEAN, cpanic' \in BOOLEAN,
           closer' \in {"out", "marked", "drain", "over"},
           closer' \in {"drain", "over"} => ~open',
           closer' = "over" => conns = <<>>
    PROVE  CInv'
<1>1. InUse' = InUse
    BY DEF InUse
<1>2. ConnTyped' /\ Control' /\ Within'
    BY DEF CInv, ConnTyped, Control, Within
<1>3. Placed'
    BY <1>1 DEF CInv, Placed
<1>4. QED
    BY <1>2, <1>3 DEF CInv

\* A user closes the connection it has.
LEMMA Discarded ==
    ASSUME CInv, NEW u \in Users, NEW from \in {"use", "send"}, Discard(u, from)
    PROVE  CInv'
<1>1. /\ upc[u] = from /\ upc' = [upc EXCEPT ![u] = "out"] /\ shut' = shut \cup {conn[u]}
      /\ conn' = [conn EXCEPT ![u] = 0] /\ UNCHANGED <<conns, open, cclosed, closer, dialed, cpanic>>
    BY DEF Discard, UserGoto, Hold
<1>2. conn[u] # 0 /\ conn[u] \in Conns
    BY <1>1 DEF CInv, Control, ConnTyped, Conns
<1>3. InUse' = InUse \ {conn[u]} /\ conn[u] \in InUse
    BY <1>1, <1>2, LetGo DEF CInv
<1>4. ConnTyped'
  <2>1. conn' \in [Users -> 0..MaxConns]
      BY ConnBounds, <1>1 DEF CInv, ConnTyped
  <2>2. QED
      BY <1>1, <1>2, <2>1 DEF CInv, ConnTyped
<1>5. Control' /\ Within'
    BY <1>1 DEF CInv, ConnTyped, Control, Within
<1>6. Placed'
  <2>1. \A v, w \in Users : conn'[v] = conn'[w] /\ conn'[v] # 0 => v = w
      BY <1>1 DEF CInv, ConnTyped, Placed
  <2>2. conns' = conns /\ dialed' = dialed
      BY <1>1
  <2>3. QED
      BY <1>1, <1>3, <2>1, <2>2 DEF CInv, Placed
<1>7. QED
    BY <1>4, <1>5, <1>6 DEF CInv

\* An idle connection is handed to a user.
LEMMA Taken == ASSUME CInv, NEW u \in Users, Take(u) PROVE CInv'
<1>1. /\ upc[u] = "take" /\ upc' = [upc EXCEPT ![u] = "use"] /\ conns # <<>>
      /\ conn' = [conn EXCEPT ![u] = Head(conns)] /\ conns' = Tail(conns)
      /\ UNCHANGED <<open, cclosed, closer, dialed, shut, cpanic>>
    BY DEF Take, UserGoto, Hold
<1>2. /\ Tail(conns) \in Seq(Conns) /\ Head(conns) \in Conns /\ Head(conns) \in Range(conns)
      /\ IsInjective(Tail(conns)) /\ Range(Tail(conns)) = Range(conns) \ {Head(conns)}
      /\ Len(Tail(conns)) = Len(conns) - 1 /\ Len(conns) \in Nat
    BY <1>1, Oldest DEF CInv
<1>3. conn[u] = 0 /\ Head(conns) # 0 /\ Head(conns) \in 0..MaxConns
    BY <1>1, <1>2 DEF CInv, Control, Conns
<1>4. InUse' = InUse \cup {Head(conns)}
    BY <1>1, <1>2, <1>3, Obtain DEF CInv
<1>5. ConnTyped'
    BY <1>1, <1>2, <1>3 DEF CInv, ConnTyped
<1>6. Control'
    BY <1>1, <1>3 DEF CInv, ConnTyped, Control
<1>7. Within'
  <2>1. closer # "over" /\ Len(conns) <= ConnSize
      BY <1>1 DEF CInv, Within
  <2>2. Len(conns') = Len(conns) - 1
      BY <1>1, <1>2
  <2>3. Len(conns') <= ConnSize
      BY ConnBounds, <1>2, <2>1, <2>2
  <2>4. QED
      BY <1>1, <2>1, <2>3 DEF Within
<1>8. Placed'
  <2>1. \A v \in Users : conn[v] # Head(conns)
      BY <1>2, <1>3 DEF CInv, Placed, InUse
  <2>2. \A v, w \in Users : conn'[v] = conn'[w] /\ conn'[v] # 0 => v = w
      BY <1>1, <2>1 DEF CInv, ConnTyped, Placed
  <2>3. Range(conns') = Range(conns) \ {Head(conns)} /\ IsInjective(conns')
      BY <1>1, <1>2
  <2>4. QED
      BY <1>1, <1>2, <1>4, <2>2, <2>3 DEF CInv, Placed
<1>9. QED
    BY <1>5, <1>6, <1>7, <1>8 DEF CInv

\* A connection is made for a user.
LEMMA Dialed == ASSUME CInv, NEW u \in Users, Dial(u) PROVE CInv'
<1>1. /\ upc[u] = "take" /\ upc' = [upc EXCEPT ![u] = "use"] /\ dialed < MaxConns
      /\ conn' = [conn EXCEPT ![u] = dialed + 1] /\ dialed' = dialed + 1
      /\ UNCHANGED <<conns, open, cclosed, closer, shut, cpanic>>
    BY DEF Dial, UserGoto, Hold
<1>2. dialed + 1 \in Conns /\ dialed + 1 # 0 /\ dialed + 1 \in 0..MaxConns /\ dialed \in Nat
    BY ConnBounds, <1>1 DEF CInv, ConnTyped, Conns
<1>3. conn[u] = 0
    BY <1>1 DEF CInv, Control
<1>4. InUse' = InUse \cup {dialed + 1}
    BY <1>1, <1>2, <1>3, Obtain DEF CInv
<1>5. ConnTyped'
    BY <1>1, <1>2 DEF CInv, ConnTyped
<1>6. Control' /\ Within'
    BY <1>1, <1>2 DEF CInv, ConnTyped, Control, Within
<1>7. Placed'
  <2>1. dialed + 1 \notin 1..dialed /\ 1..(dialed + 1) = 1..dialed \cup {dialed + 1}
      BY <1>2
  <2>2. dialed + 1 \notin Range(conns) \cup InUse \cup shut
      BY <2>1 DEF CInv, Placed
  <2>3. \A v \in Users : conn[v] # dialed + 1
      BY <1>2, <2>2 DEF InUse
  <2>4. \A v, w \in Users : conn'[v] = conn'[w] /\ conn'[v] # 0 => v = w
      BY <1>1, <2>3 DEF CInv, ConnTyped, Placed
  <2>5. 1..dialed' = 1..dialed \cup {dialed + 1} /\ conns' = conns /\ shut' = shut
      BY <1>1, <2>1
  <2>6. QED
      BY <1>4, <2>2, <2>4, <2>5 DEF CInv, Placed
<1>8. QED
    BY <1>5, <1>6, <1>7 DEF CInv

\* A user gives its connection back to the channel.
LEMMA GivenBack ==
    ASSUME CInv, NEW u \in Users, upc[u] = "send", open, Fits, upc' = [upc EXCEPT ![u] = "out"],
           conns' = Append(conns, conn[u]), conn' = [conn EXCEPT ![u] = 0],
           UNCHANGED <<open, cclosed, closer, dialed, shut, cpanic>>
    PROVE  CInv'
<1>1. conn[u] # 0 /\ conn[u] \in Conns
    BY DEF CInv, Control, ConnTyped, Conns
<1>2. InUse' = InUse \ {conn[u]} /\ conn[u] \in InUse
    BY <1>1, LetGo DEF CInv
<1>3. conn[u] \notin Range(conns) /\ conns \in Seq(Conns) /\ IsInjective(conns)
    BY <1>2 DEF CInv, Placed, ConnTyped
<1>4. /\ conns' \in Seq(Conns) /\ IsInjective(conns') /\ Range(conns') = Range(conns) \cup {conn[u]}
    BY <1>1, <1>3, AppendDistinct
<1>5. ConnTyped' /\ Control'
  <2>1. conn' \in [Users -> 0..MaxConns]
      BY ConnBounds DEF CInv, ConnTyped
  <2>2. ConnTyped'
      BY <1>4, <2>1 DEF CInv, ConnTyped
  <2>3. QED
      BY <2>2 DEF CInv, ConnTyped, Control
<1>6. Within'
  <2>1. Len(conns') = Len(conns) + 1 /\ Len(conns) \in Nat /\ Len(conns) < ConnSize
      BY <1>3 DEF Fits
  <2>2. Len(conns') <= ConnSize
      BY ConnBounds, <2>1
  <2>3. closer' # "over"
      BY DEF CInv, Control
  <2>4. QED
      BY <2>2, <2>3 DEF Within
<1>7. Placed'
  <2>1. \A v, w \in Users : conn'[v] = conn'[w] /\ conn'[v] # 0 => v = w
      BY DEF CInv, ConnTyped, Placed
  <2>2. QED
      BY <1>2, <1>4, <2>1 DEF CInv, Placed
<1>8. QED
    BY <1>5, <1>6, <1>7 DEF CInv

\* Close takes an idle connection out of the channel and closes it.
LEMMA Drained ==
    ASSUME CInv, closer = "drain", conns # <<>>, conns' = Tail(conns),
           shut' = shut \cup {Head(conns)},
           UNCHANGED <<open, cclosed, closer, upc, conn, dialed, cpanic>>
    PROVE  CInv'
<1>1. /\ Tail(conns) \in Seq(Conns) /\ Head(conns) \in Conns /\ Head(conns) \in Range(conns)
      /\ IsInjective(Tail(conns)) /\ Range(Tail(conns)) = Range(conns) \ {Head(conns)}
      /\ Len(Tail(conns)) = Len(conns) - 1 /\ Len(conns) \in Nat
    BY Oldest DEF CInv
<1>2. InUse' = InUse
    BY DEF InUse
<1>3. ConnTyped' /\ Control'
    BY <1>1 DEF CInv, ConnTyped, Control
<1>4. Within'
  <2>1. Len(conns') = Len(conns) - 1 /\ Len(conns) <= ConnSize
      BY <1>1 DEF CInv, Within
  <2>2. Len(conns') <= ConnSize
      BY ConnBounds, <1>1, <2>1
  <2>3. QED
      BY <2>2 DEF Within
<1>5. Placed'
    BY <1>1, <1>2 DEF CInv, Placed
<1>6. QED
    BY <1>3, <1>4, <1>5 DEF CInv

\* Every step is one of these.
LEMMA StepCInv == CInv /\ [ConnNext]_connVars => CInv'
<1> SUFFICES ASSUME CInv, [ConnNext]_connVars PROVE CInv'
    OBVIOUS
<1>1. ConnTyped /\ Control /\ Within
    BY DEF CInv
<1>2. CASE UNCHANGED connVars
    BY <1>1, <1>2, Unmoved DEF connVars, ConnTyped, Control, Within
<1>3. CASE CloseMarks \/ CloseConns
    BY <1>1, <1>3, Unmoved DEF CloseMarks, CloseConns, ConnTyped, Control
<1>4. CASE CloseDrains
  <2>1. CASE conns = <<>>
      BY <1>1, <1>4, <2>1, Unmoved DEF CloseDrains, ConnTyped, Control
  <2>2. CASE conns # <<>>
      BY <1>4, <2>2, Drained DEF CloseDrains
  <2>3. QED
      BY <2>1, <2>2
<1>5. ASSUME NEW u \in Users, Get(u) \/ DialFails(u) PROVE CInv'
    BY <1>1, <1>5, Unmoved DEF Get, DialFails, UserGoto, ConnTyped, Control, Within
<1>6. ASSUME NEW u \in Users, Put(u) PROVE CInv'
  <2>1. CASE cclosed
      BY <1>6, <2>1, Discarded DEF Put
  <2>2. CASE ~cclosed
      BY <1>1, <1>6, <2>2, Unmoved DEF Put, UserGoto, ConnTyped, Control, Within
  <2>3. QED
      BY <2>1, <2>2
<1>7. ASSUME NEW u \in Users, SendBack(u) PROVE CInv'
  <2>1. CASE ~open
      BY <1>1, <1>7, <2>1, Unmoved DEF SendBack, ConnTyped, Control, Within
  <2>2. CASE open /\ Fits
      BY <1>7, <2>2, GivenBack DEF SendBack, UserGoto, Hold
  <2>3. CASE open /\ ~Fits
      BY <1>7, <2>3, Discarded DEF SendBack
  <2>4. QED
      BY <2>1, <2>2, <2>3
<1>8. ASSUME NEW u \in Users, QueryFails(u) PROVE CInv'
    BY <1>8, Discarded DEF QueryFails
<1>9. QED
    BY <1>2, <1>3, <1>4, <1>5, <1>6, <1>7, <1>8, Taken, Dialed DEF ConnNext, CloseStep

-----------------------------------------------------------------------------
(* A pool of connections: the theorem                                      *)

\* No connection is lost, shared or used after it was closed, whatever Get, Put
\* and Close do at the same time, and a Close that is over leaves none idle.
THEOREM ConnectionsAreKept == ConnSpec => []ConnsKept
<1>1. CInv => ConnsKept
  <2> SUFFICES ASSUME CInv PROVE ConnsKept
      OBVIOUS
  <2>1. Range(conns) \subseteq Conns
    <3>1. conns \in Seq(Conns)
        BY DEF CInv, ConnTyped
    <3>2. QED
        BY <3>1 DEF Range
  <2>2. QED
      BY <2>1 DEF CInv, Placed, Within, ConnsKept
<1>2. QED
    BY InitCInv, StepCInv, <1>1, PTL DEF ConnSpec

-----------------------------------------------------------------------------
(* A shutdown: the inductive invariant                                     *)

Hooks == Regs \cup Submitters \cup {"pool"}

DownTyped ==
    /\ kind \in {"handler", "drainable"} /\ channel \in {"open", "closed", "nil"}
    /\ buffer \in {0, 1} /\ signals \in Nat
    /\ spc \in {"out", "send", "blocked", "over", "forever"}
    /\ smut \in Cleaners \cup {"free"}
    /\ hooks \in Seq(Hooks) /\ due \in Seq(Hooks) /\ ran \in Seq(Hooks) /\ wrote \in SUBSET Hooks
    /\ once \in Drainers \cup {"free", "done"}
    /\ dpc \in [Cleaners -> {"out", "wait", "close", "clear", "lock", "hooks", "cancel", "over"}]
    /\ intake \in BOOLEAN /\ scanceled \in BOOLEAN /\ spanic \in BOOLEAN
    /\ pool \in {"none", "making", "up", "stopped"}
    /\ job \in [Submitters -> {"out", "make", "submit", "run", "lock", "last", "refused", "over"}]

\* Where the handler is says what it did to the channel, and how many signals
\* it has received; each of them was sent.
Received == IF dpc["handler"] = "close" THEN IF channel = "open" THEN 1 ELSE 2
            ELSE IF channel = "open" THEN 0 ELSE 1
Sent == signals + IF spc \in {"over", "forever"} THEN 1 ELSE 0
Counted ==
    /\ channel = "open" => dpc["handler"] \in {"wait", "close"}
    /\ channel = "closed" <=> dpc["handler"] = "clear"
    /\ spc = "blocked" /\ channel = "open" => buffer = 1
    /\ Received + buffer <= Sent

\* The handler cleans up itself, or one of those that call DrainComplete does.
OneCleans ==
    /\ kind = "handler" => once = "free" /\ \A c \in Drainers : dpc[c] = "out"
    /\ kind = "drainable" =>
          /\ dpc["handler"] \notin {"lock", "hooks"}
          /\ \A c \in Drainers : dpc[c] \in {"lock", "hooks", "cancel"} <=> once = c
    /\ \A c \in Cleaners : dpc[c] = "hooks" <=> smut = c

\* No cleanup has begun.
Pending == IF kind = "handler" THEN channel # "nil" \/ dpc["handler"] = "lock"
           ELSE once = "free" \/ \E c \in Drainers : dpc[c] = "lock"

\* Until then no hook was run; while it goes on the hooks are those it took, and
\* when the mutex is free it has run all of them.
Hooked ==
    /\ IsInjective(hooks) /\ IsInjective(due)
    /\ IsPrefix(ran, due)
    /\ wrote = Range(ran) \cup Range(hooks)
    /\ Pending => due = <<>> /\ ran = <<>> /\ ~scanceled
    /\ smut = "free" => ran = due
    /\ smut # "free" => hooks = due /\ ~scanceled
    /\ "pool" \in Range(ran) => pool = "stopped" /\ Unfinished = {}

DInv == DownTyped /\ Counted /\ OneCleans /\ Hooked /\ CrashHasCause

-----------------------------------------------------------------------------
(* The initial states and the types                                        *)

LEMMA InitDInv == DownInit => DInv
<1> SUFFICES ASSUME DownInit PROVE DInv
    OBVIOUS
<1>1. DownTyped
    BY EmptySeq DEF DownInit, DownTyped, Cleaners, Drainers
<1>2. Counted /\ OneCleans /\ CrashHasCause
    BY DEF DownInit, Counted, Received, Sent, OneCleans, CrashHasCause, Cleaners, Drainers
<1>3. Hooked
  <2>1. DOMAIN hooks = {} /\ hooks = <<>> /\ due = <<>> /\ ran = <<>>
      BY DEF DownInit
  <2>2. IsInjective(hooks) /\ Range(hooks) = {}
      BY <2>1 DEF IsInjective, Range
  <2>3. IsPrefix(ran, due)
      BY <2>1, EmptySeq DEF IsPrefix
  <2>4. QED
      BY <2>1, <2>2, <2>3 DEF DownInit, Hooked
<1>4. QED
    BY <1>1, <1>2, <1>3 DEF DInv

LEMMA DownTypedStep == DInv /\ [DownNext]_downVars => DownTyped'
<1> SUFFICES ASSUME DInv, [DownNext]_downVars PROVE DownTyped'
    OBVIOUS
<1> USE DEF DInv, DownTyped, DownGoto, TaskGoto, signaling, cleaning, working, ending
<1>1. CASE UNCHANGED downVars
    BY <1>1 DEF downVars
<1>2. CASE SignalSent \/ ShutdownCalled \/ ShutdownSends
  <2>1. CASE SignalSent
    <3>1. signals' \in Nat
        BY <2>1 DEF SignalSent
    <3>2. buffer' \in {0, 1}
        BY <2>1 DEF SignalSent
    <3>3. spanic' \in BOOLEAN
        BY <2>1 DEF SignalSent
    <3>4. QED
        BY <2>1, <3>1, <3>2, <3>3 DEF SignalSent
  <2>2. CASE ShutdownCalled
      BY <2>2 DEF ShutdownCalled
  <2>3. CASE ShutdownSends
    <3>1. spc' \in {spc, "forever", "blocked", "over"}
        BY <2>3 DEF ShutdownSends
    <3>2. buffer' \in {0, 1} /\ spanic' \in BOOLEAN
        BY <2>3 DEF ShutdownSends
    <3>3. QED
        BY <2>3, <3>1, <3>2 DEF ShutdownSends
  <2>4. QED
      BY <1>2, <2>1, <2>2, <2>3
<1>3. CASE Handler
  <2>1. \/ dpc' = dpc
        \/ \E x \in {"close", "clear", "lock", "cancel", "over"} :
              dpc' = [dpc EXCEPT !["handler"] = x]
      BY <1>3 DEF Handler, Receive, CloseSignals, ClearChannel, LoopEnds
  <2>2. dpc' \in [Cleaners -> {"out", "wait", "close", "clear", "lock", "hooks", "cancel", "over"}]
      BY <2>1
  <2>3. /\ channel' \in {"open", "closed", "nil"} /\ buffer' \in {0, 1}
        /\ spc' \in {"out", "send", "blocked", "over", "forever"} /\ spanic' \in BOOLEAN
      BY <1>3 DEF Handler, Receive, CloseSignals, ClearChannel, LoopEnds
  <2>4. UNCHANGED <<kind, signals, cleaning, once, intake, scanceled, working>>
      BY <1>3 DEF Handler, Receive, CloseSignals, ClearChannel, LoopEnds
  <2>5. /\ smut' = smut /\ hooks' = hooks /\ due' = due /\ ran' = ran /\ wrote' = wrote
        /\ pool' = pool /\ job' = job
      BY <2>4
  <2>6. QED
      BY <2>2, <2>3, <2>4, <2>5
<1>4. ASSUME NEW c \in Drainers, DrainComplete(c) \/ DrainDone(c) PROVE DownTyped'
    BY <1>4 DEF DrainComplete, DrainDone, DrainOnce, Cleaners
<1>5. ASSUME NEW c \in Cleaners, CleanupBegins(c) PROVE DownTyped'
    BY <1>5 DEF CleanupBegins
<1>6. ASSUME NEW c \in Cleaners, StopPool(c) PROVE DownTyped'
    BY <1>6 DEF StopPool
<1>7. ASSUME NEW c \in Cleaners, RunHook(c) PROVE DownTyped'
  <2>1. ran' \in Seq(Hooks)
      BY <1>7, PrefixGrows DEF RunHook, More, NextHook, Hooked
  <2>2. QED
      BY <1>7, <2>1 DEF RunHook
<1>8. ASSUME NEW c \in Cleaners, CleanupEnds(c) PROVE DownTyped'
    BY <1>8, EmptySeq DEF CleanupEnds
<1>9. ASSUME NEW c \in Cleaners, CancelContexts(c) PROVE DownTyped'
    BY <1>9 DEF CancelContexts, Cancels, Cleaners
<1>10. ASSUME NEW h \in Hooks, Register(h) PROVE hooks' \in Seq(Hooks) /\ wrote' \in SUBSET Hooks
    BY <1>10, AppendProperties DEF Register
<1>11. ASSUME NEW r \in Regs, BeforeShutdown(r) PROVE DownTyped'
    BY <1>11, <1>10 DEF BeforeShutdown, Register, Hooks
<1>12. ASSUME NEW t \in Submitters, PoolMade(t) \/ TaskRegisters(t) PROVE DownTyped'
  <2>1. CASE PoolMade(t)
      BY <2>1, <1>10 DEF PoolMade, Register, Hooks
  <2>2. CASE TaskRegisters(t)
      BY <2>2, <1>10 DEF TaskRegisters, Register, Hooks
  <2>3. QED
      BY <1>12, <2>1, <2>2
<1>13. ASSUME NEW t \in Submitters, MakePool(t) \/ Submit(t) \/ TaskAsks(t) \/ TaskEnds(t)
       PROVE  DownTyped'
    BY <1>13 DEF MakePool, Submit, TaskAsks, TaskEnds
<1>14. QED
    BY <1>1, <1>2, <1>3, <1>4, <1>5, <1>6, <1>7, <1>8, <1>9, <1>11, <1>12, <1>13
    DEF DownNext, Cleanup

-----------------------------------------------------------------------------
(* The signals and the handler                                             *)

LEMMA CountedStep == DInv /\ [DownNext]_downVars => Counted' /\ CrashHasCause'
<1> SUFFICES ASSUME DInv, [DownNext]_downVars PROVE Counted' /\ CrashHasCause'
    OBVIOUS
<1>0. DownTyped /\ Counted /\ CrashHasCause /\ OneCleans
    BY DEF DInv
<1>1. ASSUME UNCHANGED <<signaling, spanic>>, dpc'["handler"] = dpc["handler"]
      PROVE  Counted' /\ CrashHasCause'
    BY <1>0, <1>1 DEF Counted, Received, Sent, CrashHasCause, signaling
<1>2. CASE UNCHANGED downVars
    BY <1>1, <1>2 DEF downVars, signaling
<1>3. CASE SignalSent
    BY <1>0, <1>3 DEF SignalSent, Counted, Received, Sent, CrashHasCause, DownTyped, ending
<1>4. CASE ShutdownCalled
    BY <1>0, <1>4 DEF ShutdownCalled, Counted, Received, Sent, CrashHasCause, DownTyped, ending
<1>5. CASE ShutdownSends
    BY <1>0, <1>5 DEF ShutdownSends, Counted, Received, Sent, CrashHasCause, DownTyped, ending
<1>6. CASE Receive
    BY <1>0, <1>6 DEF Receive, DownGoto, Counted, Received, Sent, CrashHasCause, DownTyped, Cleaners
<1>7. CASE CloseSignals
    BY <1>0, <1>7
    DEF CloseSignals, DownGoto, Counted, Received, Sent, CrashHasCause, DownTyped, Cleaners
<1>8. CASE ClearChannel
    BY <1>0, <1>8
    DEF ClearChannel, DownGoto, Counted, Received, Sent, CrashHasCause, DownTyped, Cleaners
<1>9. CASE LoopEnds
    BY <1>0, <1>9
    DEF LoopEnds, DownGoto, Counted, Received, Sent, CrashHasCause, DownTyped, Cleaners, signaling
<1>10. ASSUME NEW c \in Drainers, DrainComplete(c) \/ DrainDone(c)
       PROVE  Counted' /\ CrashHasCause'
  <2>1. dpc'["handler"] = dpc["handler"]
      BY <1>0, <1>10 DEF DrainComplete, DrainDone, DownGoto, DownTyped, Drainers, Cleaners
  <2>2. UNCHANGED <<signaling, spanic>>
      BY <1>10 DEF DrainComplete, DrainDone
  <2>3. QED
      BY <1>1, <2>1, <2>2
<1>11. ASSUME NEW c \in Cleaners, c \in Drainers \/ c = "handler",
              dpc[c] \in {"lock", "hooks", "cancel"},
              UNCHANGED <<signaling, spanic>>,
              dpc' = dpc \/ \E to \in {"hooks", "cancel", "wait"} : 
                               dpc' = [dpc EXCEPT ![c] = to] 
       PROVE  Counted' /\ CrashHasCause'
    BY <1>0, <1>1, <1>11
    DEF DownTyped, Cleaners, Drainers, Counted, Received, Sent, CrashHasCause, signaling
<1>12. ASSUME NEW c \in Cleaners, Cleanup(c) PROVE Counted' /\ CrashHasCause'
    BY <1>0, <1>1, <1>11, <1>12
    DEF Cleanup, CleanupBegins, StopPool, RunHook, CleanupEnds, CancelContexts, DownGoto, Cleaners,
        ending, Drainers, DownTyped
<1>13. ASSUME NEW r \in Regs, BeforeShutdown(r) PROVE Counted' /\ CrashHasCause'
    BY <1>1, <1>13 DEF BeforeShutdown, ending
<1>14. ASSUME NEW t \in Submitters, \/ MakePool(t) \/ PoolMade(t) \/ Submit(t)
                                    \/ TaskAsks(t) \/ TaskRegisters(t) \/ TaskEnds(t)
       PROVE  Counted' /\ CrashHasCause'
    BY <1>1, <1>14 DEF MakePool, PoolMade, Submit, TaskAsks, TaskRegisters, TaskEnds, ending
<1>15. QED
    BY <1>2, <1>3, <1>4, <1>5, <1>6, <1>7, <1>8, <1>9, <1>10, <1>12, <1>13, <1>14
    DEF DownNext, Handler

-----------------------------------------------------------------------------
(* One cleanup                                                             *)

LEMMA OneCleansStep == DInv /\ [DownNext]_downVars => OneCleans'
<1> SUFFICES ASSUME DInv, [DownNext]_downVars PROVE OneCleans'
    OBVIOUS
<1>0. DownTyped /\ OneCleans /\ Counted
    BY DEF DInv
<1>1. ASSUME UNCHANGED <<kind, once, smut, dpc>> PROVE OneCleans'
    BY <1>0, <1>1 DEF OneCleans
<1>2. CASE UNCHANGED downVars
    BY <1>1, <1>2 DEF downVars
<1>3. CASE SignalSent \/ ShutdownCalled \/ ShutdownSends
    BY <1>1, <1>3 DEF SignalSent, ShutdownCalled, ShutdownSends, cleaning, ending
<1>4. CASE Receive \/ LoopEnds
    BY <1>0, <1>4
    DEF Receive, LoopEnds, DownGoto, OneCleans, DownTyped, Cleaners, Drainers, cleaning
<1>5. CASE CloseSignals
    BY <1>0, <1>5 DEF CloseSignals, DownGoto, OneCleans, DownTyped, Cleaners, Drainers, cleaning
<1>6. CASE ClearChannel
    BY <1>0, <1>6 DEF ClearChannel, DownGoto, OneCleans, DownTyped, Cleaners, Drainers, cleaning
<1>7. ASSUME NEW c \in Drainers, DrainComplete(c) PROVE OneCleans'
    BY <1>0, <1>7
    DEF DrainComplete, DrainOnce, DownGoto, OneCleans, DownTyped, Cleaners, Drainers, cleaning
<1>8. ASSUME NEW c \in Drainers, DrainDone(c) PROVE OneCleans'
    BY <1>0, <1>8 DEF DrainDone, DownGoto, OneCleans, DownTyped, Cleaners, Drainers, cleaning
<1>9. ASSUME NEW c \in Cleaners, CleanupBegins(c) PROVE OneCleans'
    BY <1>0, <1>9 DEF CleanupBegins, DownGoto, OneCleans, DownTyped, Cleaners, Drainers
<1>10. ASSUME NEW c \in Cleaners, StopPool(c) \/ RunHook(c) PROVE OneCleans'
    BY <1>1, <1>10 DEF StopPool, RunHook, cleaning, ending
<1>11. ASSUME NEW c \in Cleaners, CleanupEnds(c) PROVE OneCleans'
    BY <1>0, <1>11 DEF CleanupEnds, DownGoto, OneCleans, DownTyped, Cleaners, Drainers
<1>12. ASSUME NEW c \in Cleaners, CancelContexts(c) PROVE OneCleans'
    BY <1>0, <1>12 DEF CancelContexts, DownGoto, OneCleans, DownTyped, Cleaners, Drainers, cleaning
<1>13. ASSUME NEW r \in Regs, BeforeShutdown(r) PROVE OneCleans'
    BY <1>1, <1>13 DEF BeforeShutdown, Register, ending
<1>14. ASSUME NEW t \in Submitters, \/ MakePool(t) \/ PoolMade(t) \/ Submit(t)
                                    \/ TaskAsks(t) \/ TaskRegisters(t) \/ TaskEnds(t)
       PROVE  OneCleans'
    BY <1>1, <1>14
    DEF MakePool, PoolMade, Submit, TaskAsks, TaskRegisters, TaskEnds, Register, cleaning, ending
<1>15. QED
    BY <1>2, <1>3, <1>4, <1>5, <1>6, <1>7, <1>8, <1>9, <1>10, <1>11, <1>12, <1>13, <1>14
    DEF DownNext, Handler, Cleanup

-----------------------------------------------------------------------------
(* The hooks                                                               *)

\* A cleanup that waits for the mutex is the first; one that has it or is over
\* was not.
LEMMA Stages ==
    ASSUME DInv, NEW c \in Cleaners
    PROVE  /\ dpc[c] = "lock" => Pending
           /\ dpc[c] \in {"hooks", "cancel"} /\ Cancels(c) => ~Pending
           /\ dpc[c] = "hooks" => Cancels(c)
           /\ dpc[c] = "cancel" /\ Cancels(c) => smut = "free"
    BY DEF DInv, DownTyped, Counted, OneCleans, Pending, Cancels, Cleaners, Drainers

\* The steps that leave the hooks alone.
LEMMA QuietHooked ==
    ASSUME DInv, UNCHANGED <<cleaning, scanceled>>, Pending' => Pending,
           pool = "stopped" => pool' = "stopped" /\ (Unfinished = {} => Unfinished' = {})
    PROVE  Hooked'
    BY DEF DInv, Hooked, cleaning

\* A hook is taken while no cleanup has the mutex.
LEMMA RegisterHooked ==
    ASSUME DInv, NEW h \in Hooks, Register(h), UNCHANGED <<kind, channel, once, dpc, scanceled>>,
           "pool" \in Range(ran) => pool' = "stopped" /\ Unfinished' = {}
    PROVE  Hooked'
<1>1. h \notin Range(hooks) /\ smut = "free" /\ UNCHANGED <<smut, due, ran>>
    BY DEF DInv, Hooked, Register, MutFree
<1>2. IsInjective(hooks') /\ Range(hooks') = Range(hooks) \cup {h}
    BY <1>1, AppendDistinct DEF DInv, DownTyped, Hooked, Register
<1>3. wrote' = Range(ran') \cup Range(hooks')
    BY <1>1, <1>2 DEF DInv, Hooked, Register
<1>4. Pending' = Pending
    BY DEF Pending
<1>5. QED
    BY <1>1, <1>2, <1>3, <1>4 DEF DInv, Hooked

\* cleanup takes the hooks, before it no hook was run.
LEMMA BeginHooked == ASSUME DInv, NEW c \in Cleaners, CleanupBegins(c) PROVE Hooked'
<1>1. Pending /\ dpc[c] = "lock" /\ smut = "free"
    BY Stages DEF CleanupBegins, DownGoto
<1>2. due' = hooks /\ hooks' = hooks /\ ran' = ran /\ ran = <<>> /\ ~scanceled /\ wrote' = wrote
      /\ scanceled' = scanceled /\ smut' = c /\ c # "free" /\ pool' = pool /\ job' = job
    BY <1>1 DEF DInv, Hooked, CleanupBegins, Cleaners, Drainers, working
<1>3. IsPrefix(ran', due')
  <2>1. hooks \in Seq(Hooks) /\ <<>> \in Seq(Hooks) /\ Len(<<>>) = 0
      BY EmptySeq DEF DInv, DownTyped
  <2>2. Len(<<>>) <= Len(hooks)
      BY <2>1, LenProperties
  <2>3. \A i \in 1..Len(<<>>) : <<>>[i] = hooks[i]
      BY <2>1
  <2>4. QED
      BY <1>2, <2>1, <2>2, <2>3, PrefixElements
<1>4. ~Pending'
    BY <1>1 DEF DInv, DownTyped, Counted, OneCleans, Pending, CleanupBegins, DownGoto, Cleaners,
                Drainers, signaling
<1>5. "pool" \notin Range(ran)
    BY <1>2 DEF Range
<1>6. QED
    BY <1>2, <1>3, <1>4, <1>5 DEF DInv, Hooked

\* cleanup runs the next of them.
LEMMA RunHooked == ASSUME DInv, NEW c \in Cleaners, RunHook(c) PROVE Hooked'
<1>1. smut = c /\ c # "free" /\ dpc[c] = "hooks"
    BY DEF DInv, OneCleans, RunHook, Cleaners, Drainers
<1>2. hooks = due /\ ~Pending
    BY <1>1, Stages DEF DInv, Hooked
<1>3. /\ NextHook \in Range(due) /\ ran' = Append(ran, NextHook)
      /\ IsPrefix(ran', due) /\ Range(ran') = Range(ran) \cup {NextHook}
    BY PrefixGrows DEF DInv, DownTyped, Hooked, RunHook, More, NextHook
<1>4. /\ UNCHANGED <<kind, channel, once, dpc, smut, hooks, due, wrote, scanceled, pool, job>>
      /\ NextHook = "pool" => pool = "stopped" /\ Unfinished = {}
    BY DEF RunHook, signaling, ending, working
<1>5. Pending' = Pending /\ Unfinished' = Unfinished
    BY <1>4 DEF Pending, Unfinished
<1>6. wrote' = Range(ran') \cup Range(hooks')
    BY <1>2, <1>3, <1>4 DEF DInv, Hooked
<1>7. QED
    BY <1>1, <1>2, <1>3, <1>4, <1>5, <1>6 DEF DInv, Hooked

\* cleanup ends: all that it took were run.
LEMMA EndHooked == ASSUME DInv, NEW c \in Cleaners, CleanupEnds(c) PROVE Hooked'
<1>1. smut = c /\ c # "free" /\ dpc[c] = "hooks" /\ dpc' = [dpc EXCEPT ![c] = "cancel"]
    BY DEF DInv, OneCleans, CleanupEnds, DownGoto, Cleaners, Drainers
<1>2. hooks = due /\ ~Pending
    BY <1>1, Stages DEF DInv, Hooked
<1>3. ran = due
    BY PrefixIsWhole DEF DInv, DownTyped, Hooked, CleanupEnds, More
<1>4. /\ UNCHANGED <<kind, channel, once, due, ran, wrote, scanceled, pool, job>>
      /\ hooks' = <<>> /\ smut' = "free"
    BY DEF CleanupEnds, signaling, working
<1>5. ~Pending'
    BY <1>1, <1>2, <1>4 DEF Pending, DInv, DownTyped, Cleaners, Drainers
<1>6. IsInjective(hooks') /\ Range(hooks') = {}
    BY <1>4 DEF IsInjective, Range
<1>7. Unfinished' = Unfinished
    BY <1>4 DEF Unfinished
<1>8. QED
    BY <1>2, <1>3, <1>4, <1>5, <1>6, <1>7 DEF DInv, Hooked

\* The contexts are canceled after that.
LEMMA CancelHooked == ASSUME DInv, NEW c \in Cleaners, CancelContexts(c) PROVE Hooked'
<1>1. dpc[c] = "cancel" /\ UNCHANGED <<kind, cleaning, channel, pool, job>>
    BY DEF CancelContexts, DownGoto, signaling, working
<1>2. Unfinished' = Unfinished
    BY <1>1 DEF Unfinished
<1>3. Pending' => Pending
    BY <1>1 DEF CancelContexts, DownGoto, Pending, DInv, DownTyped, OneCleans, Cleaners, Drainers
<1>4. CASE ~Cancels(c)
    BY <1>1, <1>2, <1>3, <1>4, QuietHooked DEF CancelContexts, DInv, DownTyped
<1>5. CASE Cancels(c)
  <2>1. ~Pending /\ smut = "free"
      BY <1>1, <1>5, Stages
  <2>2. QED
      BY <1>1, <1>2, <1>3, <2>1 DEF DInv, Hooked, cleaning
<1>6. QED
    BY <1>4, <1>5

LEMMA HookedStep == DInv /\ [DownNext]_downVars => Hooked'
<1> SUFFICES ASSUME DInv, [DownNext]_downVars PROVE Hooked'
    OBVIOUS
<1>0. DownTyped /\ OneCleans /\ Counted /\ Hooked
    BY DEF DInv
<1>1. CASE UNCHANGED downVars
    BY <1>1, QuietHooked DEF downVars, cleaning, Pending, Unfinished
<1>2. CASE SignalSent \/ ShutdownCalled \/ ShutdownSends
  <2>1. UNCHANGED <<kind, channel, cleaning, ending, working>>
      BY <1>2 DEF SignalSent, ShutdownCalled, ShutdownSends
  <2>2. QED
      BY <2>1, QuietHooked DEF ending, working, Pending, Unfinished
<1>3. CASE Handler
  <2>1. UNCHANGED <<kind, cleaning, once, scanceled, working>>
      BY <1>3 DEF Handler, Receive, CloseSignals, ClearChannel, LoopEnds
  <2>2. \A c \in Drainers : dpc'[c] = dpc[c]
      BY <1>3, <1>0 DEF Handler, Receive, CloseSignals, ClearChannel, LoopEnds, DownGoto,
                        DownTyped, Cleaners, Drainers
  <2>3. channel = "nil" => channel' = "nil" /\ (dpc'["handler"] = "lock" => dpc["handler"] = "lock")
      BY <1>3, <1>0 DEF Handler, Receive, CloseSignals, ClearChannel, LoopEnds, DownGoto,
                        DownTyped, Cleaners, Drainers, Counted, signaling
  <2>4. Pending' => Pending
      BY <2>1, <2>2, <2>3 DEF Pending
  <2>5. QED
      BY <2>1, <2>4, QuietHooked DEF working, Unfinished
<1>4. ASSUME NEW c \in Drainers, DrainComplete(c) \/ DrainDone(c) PROVE Hooked'
  <2>1. UNCHANGED <<kind, channel, cleaning, scanceled, working>>
      BY <1>4 DEF DrainComplete, DrainDone, signaling
  <2>2. Pending' => Pending
      BY <1>0, <1>4, <2>1 DEF DrainComplete, DrainDone, DrainOnce, DownGoto, Pending, DownTyped,
                              Cleaners, Drainers
  <2>3. QED
      BY <2>1, <2>2, QuietHooked DEF working, Unfinished
<1>5. ASSUME NEW c \in Cleaners, StopPool(c) PROVE Hooked'
    BY <1>5, QuietHooked DEF StopPool, signaling, ending, Pending, Unfinished
<1>6. ASSUME NEW c \in Cleaners, Cleanup(c) PROVE Hooked'
    BY <1>5, <1>6, BeginHooked, RunHooked, EndHooked, CancelHooked DEF Cleanup
<1>7. ASSUME NEW r \in Regs, BeforeShutdown(r) PROVE Hooked'
  <2>1. Register(r) /\ r \in Hooks
        /\ UNCHANGED <<kind, channel, once, dpc, scanceled, pool, job>>
      BY <1>7 DEF BeforeShutdown, signaling, ending, working, Hooks
  <2>2. Unfinished' = Unfinished
      BY <2>1 DEF Unfinished
  <2>3. QED
      BY <1>0, <2>1, <2>2, RegisterHooked DEF Hooked
<1>8. ASSUME NEW t \in Submitters, PoolMade(t) PROVE Hooked'
  <2>1. Register("pool") /\ "pool" \in Hooks /\ UNCHANGED <<kind, channel, once, dpc, scanceled>>
      BY <1>8 DEF PoolMade, signaling, ending, Hooks
  <2>2. "pool" \notin Range(ran)
      BY <1>0, <2>1 DEF Hooked, Register
  <2>3. QED
      BY <2>1, <2>2, RegisterHooked
<1>9. ASSUME NEW t \in Submitters, TaskRegisters(t) PROVE Hooked'
  <2>1. Register(t) /\ t \in Hooks /\ UNCHANGED <<kind, channel, once, dpc, scanceled, pool>>
      BY <1>9 DEF TaskRegisters, signaling, ending, Hooks
  <2>2. t \in Unfinished
      BY <1>9 DEF TaskRegisters, TaskGoto, Unfinished
  <2>3. QED
      BY <1>0, <2>1, <2>2, RegisterHooked DEF Hooked
<1>10. ASSUME NEW t \in Submitters, MakePool(t) \/ Submit(t) \/ TaskAsks(t) \/ TaskEnds(t)
       PROVE  Hooked'
  <2>1. UNCHANGED <<kind, channel, once, dpc, cleaning, scanceled>>
      BY <1>10 DEF MakePool, Submit, TaskAsks, TaskEnds, signaling, ending
  <2>2. pool = "stopped" => pool' = "stopped" /\ (Unfinished = {} => Unfinished' = {})
      BY <1>0, <1>10 DEF MakePool, Submit, TaskAsks, TaskEnds, TaskGoto, Unfinished, DownTyped
  <2>3. QED
      BY <2>1, <2>2, QuietHooked DEF Pending
<1>11. QED
    BY <1>1, <1>2, <1>3, <1>4, <1>6, <1>7, <1>8, <1>9, <1>10 DEF DownNext

-----------------------------------------------------------------------------
(* A shutdown: the theorem                                                 *)

\* Every hook that BeforeShutdown has taken was run, once and in order, or is
\* still registered; the context is canceled after the hooks that the cleanup
\* took and after the tasks of the worker pool; and only a second request for
\* a shutdown makes the program panic.
THEOREM ShutdownInOrder == DownSpec => []ShutdownIsOrderly
<1>1. DInv /\ [DownNext]_downVars => DInv'
    BY DownTypedStep, CountedStep, OneCleansStep, HookedStep DEF DInv
<1>2. DInv => ShutdownIsOrderly
  <2> SUFFICES ASSUME DInv PROVE HooksKept /\ CrashHasCause
      BY DEF ShutdownIsOrderly
  <2>1. IsPrefix(ran, due) /\ IsInjective(ran)
      BY PrefixDistinct DEF DInv, DownTyped, Hooked
  <2>2. wrote = ToSet(ran) \cup ToSet(hooks)
      BY DEF DInv, Hooked, Range, ToSet
  <2>3. Contains(ran, "pool") => "pool" \in Range(ran)
    <3>1. DOMAIN ran = 1..Len(ran)
        BY LenProperties DEF DInv, DownTyped
    <3>2. QED
        BY <3>1 DEF Contains, Range
  <2>4. scanceled => ran = due /\ (Contains(ran, "pool") => Unfinished = {})
      BY <2>3 DEF DInv, Hooked
  <2>5. QED
      BY <2>1, <2>2, <2>4 DEF HooksKept, DInv
<1>3. QED
    BY InitDInv, <1>1, <1>2, PTL DEF DownSpec

-----------------------------------------------------------------------------
(* Retry: the inductive invariant                                          *)

Results == {"ok", "error", "permanent"}
Decided == rpc \in {"return", "read", "over"}

RetryTyped ==
    /\ opts \in Options /\ n \in 0 .. opts.attempts
    /\ rpc \in {"top", "await", "delay", "return", "read", "over"}
    /\ outer \in [Numbers -> {"none", "start", "load", "wait", "begin", "op", "end"}]
    /\ inner \in [Numbers -> {"none", "lock", "begin", "op", "end"}]
    /\ fut \in [Numbers -> Results \cup {"none", "timeout", "canceled"}]
    /\ answer \in [Numbers -> Results \cup {"none"}]
    /\ ended \in [Numbers -> Results \cup {"none"}]
    /\ mut \in Numbers \cup {NoAttempt} /\ out \in Numbers \cup {NoAttempt}
    /\ value \in Numbers \cup {NoAttempt}
    /\ running \in BOOLEAN /\ rcanceled \in BOOLEAN
    /\ err \in Results \cup {"none", "timeout", "canceled", "exhausted"}
    /\ late \subseteq Numbers

\* Where the goroutines of an attempt are says which of them has the mutex,
\* which futures are fulfilled, and whether the operation may have ended.
Places ==
    \A k \in Numbers :
       /\ opts.timeout =>
             /\ mut = k <=> inner[k] \in {"begin", "op"}
             /\ outer[k] \notin {"begin", "op"}
             /\ inner[k] # "none" => outer[k] \in {"wait", "end"}
             /\ ended[k] # "none" => inner[k] = "end"
       /\ ~opts.timeout =>
             /\ mut = k <=> outer[k] \in {"begin", "op"}
             /\ outer[k] \notin {"load", "wait"} /\ inner[k] = "none"
             /\ ended[k] # "none" => outer[k] = "end"
       /\ fut[k] # "none" <=> outer[k] = "end"
       /\ answer[k] # "none" <=> inner[k] = "end"

\* The attempts come one after the other; one the budget refuses never starts.
InTurn ==
    \A k \in Numbers :
       k > n \/ (k = n /\ (rpc = "top" \/ err = "exhausted")) =>
          outer[k] = "none" /\ inner[k] = "none"

\* What a future holds is what the operation has returned, until Do stops those
\* that wait; and Do goes on to the next attempt only after an error.
FuturesAreTrue ==
    \A k \in Numbers :
       /\ fut[k] \in {"error", "permanent"} => ended[k] = fut[k]
       /\ answer[k] \in {"error", "permanent"} => ended[k] = answer[k]
       /\ running /\ fut[k] = "ok" => ended[k] = "ok"
       /\ running /\ answer[k] = "ok" => ended[k] = "ok"
       /\ fut[k] = "timeout" => opts.timeout
       /\ fut[k] = "canceled" => rcanceled

Passed ==
    \A k \in Numbers :
       k < n \/ (k = n /\ rpc = "delay") =>
          rcanceled \/ fut[k] \in {"error", "timeout", "canceled"}

\* The error of the attempt that Do has seen last, which is the one before at
\* the top of the loop.
Reported ==
    /\ running <=> rpc \notin {"read", "over"}
    /\ rpc \in {"await", "delay"} => n \in Numbers
    /\ err = "timeout" => opts.timeout
    /\ err = "canceled" => rcanceled
    /\ err \in {"ok", "permanent", "exhausted"} => Decided /\ n \in Numbers
    /\ err \in {"ok", "permanent"} => ended[n] = err
    /\ err = "exhausted" => opts.budget /\ n > 0
    /\ err = "error" => \/ rpc = "delay" /\ ended[n] = "error"
                        \/ rpc = "await" /\ n > 0
                        \/ rpc = "top" /\ n > 0 /\ ended[n - 1] = "error"
                        \/ Decided /\ n = opts.attempts /\ ended[n - 1] = "error"
    /\ Decided /\ n \in Numbers => err \in {"ok", "permanent", "exhausted", "canceled"}

\* An operation that begins once Do has returned had the mutex by then: no other
\* is about to begin, and none will be.
Latest ==
    /\ running => late = {}
    /\ \A j \in late : \A k \in Numbers : k \in late \/ AtBegin(k) => j = k /\ ~AtBegin(k)
    /\ \A k \in late : rcanceled \/ fut[k] \in {"timeout", "canceled"}

\* Once the operation of the attempt has ended, what was written is its value, or
\* comes from one that was given up.
Written == n \in Numbers /\ ended[n] # "none" => out = n \/ GivenUp(out)

RInv ==
    /\ RetryTyped /\ Places /\ InTurn /\ FuturesAreTrue /\ Passed /\ Reported
    /\ Written /\ Latest /\ ValueIsTrue /\ DelayIsCapped

-----------------------------------------------------------------------------
(* Retry: numbers and delays                                               *)

LEMMA Counting ==
    ASSUME opts \in Options, n \in 0 .. opts.attempts
    PROVE  /\ opts.attempts \in Nat /\ opts.attempts > 0 /\ Numbers \subseteq Int
           /\ NoAttempt \notin Numbers /\ 0 \in Numbers
           /\ n \in Int /\ n >= 0
           /\ n < opts.attempts <=> n \in Numbers
           /\ n > 0 => n - 1 \in Numbers
           /\ \A k \in Numbers : k < n <=> k \in 0 .. n - 1
           /\ \A k \in 0 .. n - 1 : k \in Numbers
           /\ n = opts.attempts => \A k \in Numbers : k < n
    BY OptionsAssumption DEF Numbers, NoAttempt

\* The conversion of a float to an integer, and the clamp after it.
LEMMA DelayClamped ==
    ASSUME opts \in Options, NEW k \in Numbers, NEW d \in Delay(k)
    PROVE  d \in Nat /\ d <= MaxDelay
<1> DEFINE f == Base * Factor ^ k
           m == 2 ^ (Width - 1)
<1>1. m \in Int /\ f \in Int
  <2>1. Factor ^ k \in Nat /\ Base \in Nat /\ m \in Nat
      BY DelayAssumption DEF Numbers
  <2> DEFINE p == Factor ^ k
  <2>2. p \in Nat => Base * p \in Int
    <3> HIDE DEF p
    <3>1. QED
        BY <2>1
  <2>3. QED
      BY <2>1, <2>2
<1>2. PICK c \in (IF f < m THEN {f} ELSE {-m, m - 1}) :
             d = IF c < Base THEN Base ELSE IF c > MaxDelay THEN MaxDelay ELSE c
    BY DEF Delay
<1> HIDE DEF f, m
<1>3. c \in Int
    BY <1>1, <1>2
<1>4. QED
    BY <1>2, <1>3, DelayAssumption

LEMMA JitterWithin ==
    ASSUME opts \in Options, NEW d \in Nat, d <= MaxDelay, NEW e \in Jittered(d)
    PROVE  e \in 0 .. MaxDelay
<1>1. opts.jitter \in Int /\ MaxDelay \in Nat
    BY OptionsAssumption, DelayAssumption
<1> DEFINE j == opts.jitter
<1>2. CASE j < 0
    BY <1>1, <1>2 DEF Jittered
<1>3. CASE j > 0 /\ j < 10
  <2>1. PICK i \in 1 .. 9 : i = 10 - j
      BY <1>1, <1>3
  <2>2. e \in (i * d) \div 10 .. d
      BY <1>3, <2>1 DEF Jittered
  <2>3. i * d \in Nat /\ (i * d) \div 10 \in Nat
    <3>1. i \in {1, 2, 3, 4, 5, 6, 7, 8, 9}
        OBVIOUS
    <3>2. QED
        BY <3>1
  <2>4. QED
      BY <1>1, <2>2, <2>3
<1>4. CASE ~(j < 0) /\ ~(j > 0 /\ j < 10)
    BY <1>1, <1>4 DEF Jittered
<1>5. QED
    BY <1>2, <1>3, <1>4

-----------------------------------------------------------------------------
(* Retry: the initial states                                               *)

LEMMA InitRInv == RetryInit => RInv
<1> SUFFICES ASSUME RetryInit PROVE RInv
    OBVIOUS
<1>1. opts \in Options /\ n = 0 /\ opts.attempts \in Nat /\ opts.attempts > 0
    BY OptionsAssumption DEF RetryInit
<1>2. NoAttempt \notin Numbers /\ \A k \in Numbers : ~(k < n)
    BY <1>1 DEF Numbers, NoAttempt
<1>3. \A k \in Numbers : /\ outer[k] = "none" /\ inner[k] = "none" /\ fut[k] = "none"
                         /\ answer[k] = "none" /\ ended[k] = "none"
    BY DEF RetryInit
<1>4. RetryTyped
  <2>1. n \in 0 .. opts.attempts
      BY <1>1
  <2>2. QED
      BY <1>1, <2>1 DEF RetryInit, RetryTyped, Results
<1>5. Places
    BY <1>2, <1>3 DEF RetryInit, Places
<1>6. InTurn /\ FuturesAreTrue /\ Passed
    BY <1>2, <1>3 DEF RetryInit, InTurn, FuturesAreTrue, Passed
<1>7. Reported /\ Written /\ Latest /\ ValueIsTrue
    BY <1>3 DEF RetryInit, Reported, Decided, Written, Latest, ValueIsTrue
<1>8. DelayIsCapped
    BY DelayAssumption DEF RetryInit, DelayIsCapped
<1>9. QED
    BY <1>4, <1>5, <1>6, <1>7, <1>8 DEF RInv

-----------------------------------------------------------------------------
(* Retry: the goroutines of an attempt                                     *)

\* A future that holds something keeps it, and so does the end of an operation.
Stable ==
    /\ UNCHANGED <<opts, loop, running, rcanceled>>
    /\ \A k \in Numbers : /\ fut[k] # "none" => fut'[k] = fut[k]
                          /\ ended[k] # "none" => ended'[k] = ended[k]

LEMMA StableKeeps ==
    ASSUME RInv, Stable
    PROVE  /\ Passed' /\ Reported' /\ ValueIsTrue' /\ DelayIsCapped'
           /\ UNCHANGED <<ended, out>> => Written'
           /\ UNCHANGED late /\ (\A k \in Numbers : AtBegin(k)' => AtBegin(k) \/ running) => Latest'
<1>1. UNCHANGED <<opts, rpc, n, err, delay, value, running, rcanceled>> /\ Numbers' = Numbers
    BY DEF Stable, loop, Numbers
<1>2. \A k \in Numbers : fut[k] \in {"error", "timeout", "canceled"} => fut'[k] = fut[k]
    BY DEF Stable
<1>3. Passed'
    BY <1>1, <1>2 DEF RInv, Passed
<1>4. (n > 0 => n - 1 \in Numbers) /\ (n = opts.attempts => n > 0)
    BY Counting DEF RInv, RetryTyped
<1>5. \A k \in Numbers : ended[k] # "none" => ended'[k] = ended[k]
    BY DEF Stable
<1>6. Reported'
    BY <1>1, <1>4, <1>5 DEF RInv, Reported, Decided
<1>7. ASSUME NEW k, GivenUp(k) PROVE GivenUp(k)'
  <2>1. k \in Numbers
      BY <1>7, Counting DEF RInv, RetryTyped, GivenUp
  <2>2. QED
      BY <1>1, <1>2, <1>7, <2>1 DEF GivenUp
<1>8. ValueIsTrue'
    BY <1>1, <1>7 DEF RInv, ValueIsTrue
<1>9. DelayIsCapped'
    BY <1>1 DEF RInv, DelayIsCapped
<1>10. UNCHANGED <<ended, out>> => Written'
    BY <1>1, <1>7 DEF RInv, Written
<1>11. ASSUME UNCHANGED late, \A k \in Numbers : AtBegin(k)' => AtBegin(k) \/ running
       PROVE  Latest'
  <2>1. \A k \in late : rcanceled' \/ fut'[k] \in {"timeout", "canceled"}
      BY <1>1, <1>2 DEF RInv, Latest, RetryTyped
  <2>2. QED
      BY <1>1, <1>11, <2>1 DEF RInv, Latest, RetryTyped
<1>12. QED
    BY <1>3, <1>6, <1>8, <1>9, <1>10, <1>11

\* Once Do has decided, what it has not seen the end of was given up.
LEMMA Abandoned ==
    ASSUME RInv, NEW k \in Numbers, mut = k, Decided
    PROVE  rcanceled \/ fut[k] \in {"timeout", "canceled"}
<1>1. /\ ended[k] = "none" /\ (outer[k] # "none" \/ inner[k] # "none")
      /\ opts.timeout \in BOOLEAN /\ k \in Int /\ n \in Int
    BY OptionsAssumption, Counting DEF RInv, RetryTyped, Places
<1>2. CASE k < n
  <2>1. fut[k] # "error"
      BY <1>1 DEF RInv, FuturesAreTrue
  <2>2. QED
      BY <1>2, <2>1 DEF RInv, Passed
<1>3. CASE k = n
  <2>1. ended[n] = "none" /\ err # "exhausted"
      BY <1>1, <1>3 DEF RInv, InTurn
  <2>2. err \in {"ok", "permanent", "canceled"}
      BY <1>3, <2>1 DEF RInv, Reported
  <2>3. QED
      BY <2>1, <2>2 DEF RInv, Reported
<1>4. CASE k > n
    BY <1>1, <1>4 DEF RInv, InTurn
<1>5. QED
    BY <1>1, <1>2, <1>3, <1>4

\* An attempt waits for the mutex, for the operation or for its time.
LEMMA WorkStep ==
    ASSUME RInv, NEW k \in Numbers, Goroutine(k)
    PROVE  RInv'
<1>0. /\ RetryTyped /\ Places /\ InTurn /\ FuturesAreTrue /\ Reported /\ Latest
      /\ NoAttempt \notin Numbers /\ opts.timeout \in BOOLEAN
    BY Counting, OptionsAssumption DEF RInv, RetryTyped
<1>1. /\ UNCHANGED <<opts, rpc, n, err, delay, value, running, rcanceled, ended, out>>
      /\ Numbers' = Numbers
    BY DEF Goroutine, Barrier, Load, LockInner, LockOuter, Begins, TimedEnd, loop, Numbers
<1>2. ~Begins(k) => UNCHANGED late
    BY DEF Goroutine, Barrier, Load, LockInner, LockOuter, TimedEnd
<1>3. CASE Barrier(k) \/ Load(k)
  <2>0. /\ UNCHANGED <<answer, mut, late>> /\ opts.timeout /\ outer[k] \in {"start", "load"}
        /\ outer' = [outer EXCEPT ![k] = outer'[k]] /\ outer'[k] \in {"load", "wait", "end"}
        /\ inner' = [inner EXCEPT ![k] = IF outer'[k] = "wait" THEN "lock" ELSE inner[k]]
        /\ fut' = [fut EXCEPT ![k] = IF outer'[k] = "end" THEN "ok" ELSE fut[k]]
        /\ outer'[k] = "end" => ~running
      BY <1>0, <1>3 DEF Barrier, Load, RetryTyped, Places
  <2>1. RetryTyped'
      BY <1>0, <1>1, <2>0 DEF RetryTyped, Results
  <2>2. Places' /\ InTurn'
      BY <1>0, <1>1, <2>0 DEF RetryTyped, Places, InTurn
  <2>3. FuturesAreTrue'
      BY <1>0, <1>1, <2>0 DEF RetryTyped, FuturesAreTrue
  <2>4. Stable
      BY <1>0, <1>1, <2>0 DEF RetryTyped, Places, Stable, loop
  <2>5. \A j \in Numbers : AtBegin(j)' => AtBegin(j)
      BY <1>0, <1>1, <2>0 DEF RetryTyped, AtBegin
  <2>6. QED
      BY <1>1, <2>0, <2>1, <2>2, <2>3, <2>4, <2>5, StableKeeps DEF RInv
<1>4. CASE LockInner(k)
  <2>0. UNCHANGED <<outer, fut, late>>
      BY <1>4 DEF LockInner
  <2>1. RetryTyped'
      BY <1>0, <1>1, <1>4 DEF RetryTyped, LockInner, Locks, Results
  <2>2. Places' /\ InTurn'
      BY <1>0, <1>1, <1>4 DEF RetryTyped, LockInner, Locks, Places, InTurn
  <2>3. FuturesAreTrue'
      BY <1>0, <1>1, <1>4 DEF RetryTyped, LockInner, FuturesAreTrue
  <2>4. Stable
      BY <1>0, <1>1, <1>4 DEF RetryTyped, LockInner, Places, Stable, loop
  <2>5. \A j \in Numbers : AtBegin(j)' => AtBegin(j) \/ running
      BY <1>0, <1>1, <1>4 DEF RetryTyped, AtBegin, LockInner
  <2>6. QED
      BY <1>1, <2>0, <2>1, <2>2, <2>3, <2>4, <2>5, StableKeeps DEF RInv
<1>5. CASE LockOuter(k)
  <2>0. UNCHANGED <<inner, answer, late>>
      BY <1>5 DEF LockOuter
  <2>1. RetryTyped'
      BY <1>0, <1>1, <1>5 DEF RetryTyped, LockOuter, Locks, Results
  <2>2. Places' /\ InTurn'
      BY <1>0, <1>1, <1>5 DEF RetryTyped, LockOuter, Locks, Places, InTurn
  <2>3. FuturesAreTrue'
      BY <1>0, <1>1, <1>5 DEF RetryTyped, LockOuter, FuturesAreTrue
  <2>4. Stable
      BY <1>0, <1>1, <1>5 DEF RetryTyped, LockOuter, Places, Stable, loop
  <2>5. \A j \in Numbers : AtBegin(j)' => AtBegin(j) \/ running
      BY <1>0, <1>1, <1>5 DEF RetryTyped, AtBegin, LockOuter
  <2>6. QED
      BY <1>1, <2>0, <2>1, <2>2, <2>3, <2>4, <2>5, StableKeeps DEF RInv
<1>6. CASE Begins(k)
  <2>0. /\ UNCHANGED <<fut, answer, mut>> /\ AtBegin(k) /\ mut = k
        /\ opts.timeout => inner[k] = "begin" /\ inner' = [inner EXCEPT ![k] = "op"] /\ outer' = outer
        /\ ~opts.timeout => outer[k] = "begin" /\ outer' = [outer EXCEPT ![k] = "op"] /\ inner' = inner
        /\ late' \subseteq late \cup {k} /\ (~Decided \/ running => late' = late)
      BY <1>0, <1>6 DEF Begins, AtBegin, Places, RetryTyped, Reported, Decided
  <2>1. RetryTyped'
      BY <1>0, <1>1, <2>0 DEF RetryTyped
  <2>2. Places' /\ InTurn'
      BY <1>0, <1>1, <2>0 DEF RetryTyped, Places, InTurn
  <2>3. FuturesAreTrue'
      BY <1>0, <1>1, <2>0 DEF RetryTyped, FuturesAreTrue
  <2>4. Stable
      BY <1>0, <1>1, <2>0 DEF RetryTyped, Stable, loop
  <2>5. \A j \in Numbers : AtBegin(j) <=> j = k
      BY <1>0, <2>0 DEF Places, AtBegin, RetryTyped
  <2>6. \A j \in Numbers : ~AtBegin(j)'
      BY <1>0, <2>0, <2>5 DEF AtBegin, Places, RetryTyped
  <2>7. late = {}
      BY <1>0, <2>0 DEF Latest, RetryTyped
  <2>8. Latest'
      BY <1>0, <1>1, <2>0, <2>6, <2>7, Abandoned DEF Latest
  <2>9. QED
      BY <1>1, <2>1, <2>2, <2>3, <2>4, <2>8, StableKeeps DEF RInv
<1>7. CASE TimedEnd(k)
  <2>0. PICK e \in Results \cup {"timeout", "canceled"} :
             /\ fut' = [fut EXCEPT ![k] = e]
             /\ e \in Results => answer[k] = e
             /\ e = "canceled" => rcanceled
      BY <1>0, <1>7 DEF TimedEnd, RetryTyped, Results
  <2>1. RetryTyped'
      BY <1>0, <1>0, <1>1, <1>7, <2>0 DEF RetryTyped, TimedEnd, Results
  <2>2. Places' /\ InTurn'
      BY <1>0, <1>1, <1>7, <2>0 DEF RetryTyped, TimedEnd, Places, InTurn, Results
  <2>3. FuturesAreTrue'
      BY <1>0, <1>1, <1>7, <2>0 DEF RetryTyped, TimedEnd, Places, FuturesAreTrue, Results
  <2>4. Stable
      BY <1>0, <1>1, <1>7, <2>0 DEF RetryTyped, TimedEnd, Places, Stable, loop
  <2>5. UNCHANGED late /\ \A j \in Numbers : AtBegin(j)' => AtBegin(j)
      BY <1>0, <1>1, <1>7 DEF RetryTyped, AtBegin, TimedEnd
  <2>6. QED
      BY <1>1, <2>1, <2>2, <2>3, <2>4, <2>5, StableKeeps DEF RInv
<1>8. QED
    BY <1>3, <1>4, <1>5, <1>6, <1>7 DEF Goroutine

\* An operation ends: if Do is at a later attempt it has given this one up.
LEMMA EndStep ==
    ASSUME RInv, NEW k \in Numbers, Ends(k)
    PROVE  RInv'
<1>0. RetryTyped /\ Places /\ InTurn /\ FuturesAreTrue /\ Passed /\ NoAttempt \notin Numbers
    BY Counting DEF RInv, RetryTyped
<1>1. /\ UNCHANGED <<opts, rpc, n, err, delay, value, running, rcanceled, late>>
      /\ Numbers' = Numbers /\ mut = k /\ mut' = NoAttempt /\ out' = k
    BY <1>0, OptionsAssumption DEF Ends, loop, Numbers, Places, RetryTyped
<1>2. PICK e \in Results :
         /\ ended' = [ended EXCEPT ![k] = e]
         /\ opts.timeout => /\ inner' = [inner EXCEPT ![k] = "end"]
                            /\ answer' = [answer EXCEPT ![k] = e] /\ UNCHANGED <<outer, fut>>
         /\ ~opts.timeout => /\ outer' = [outer EXCEPT ![k] = "end"]
                             /\ fut' = [fut EXCEPT ![k] = e] /\ UNCHANGED <<inner, answer>>
    BY DEF Ends, Results
<1>3. ended[k] = "none" /\ (~opts.timeout => fut[k] = "none") /\ opts.timeout \in BOOLEAN
    BY <1>0, <1>1, OptionsAssumption DEF Places, RetryTyped
<1>4. RetryTyped'
    BY <1>0, <1>1, <1>2, <1>3 DEF RetryTyped, Results
<1>5. Places'
    BY <1>0, <1>1, <1>2, <1>3 DEF RetryTyped, Places, Results
<1>6. InTurn'
    BY <1>0, <1>1, <1>2, <1>3 DEF RetryTyped, Places, InTurn, Results
<1>7. FuturesAreTrue'
    BY <1>0, <1>1, <1>2, <1>3 DEF RetryTyped, FuturesAreTrue, Results, Places
<1>8. Stable
    BY <1>0, <1>1, <1>2, <1>3 DEF RetryTyped, Stable, loop
<1>9. Written'
  <2>1. k \in Int /\ n \in Int /\ (k < n => k \in 0 .. n - 1)
      BY <1>0, Counting DEF RetryTyped
  <2>2. ~(k > n)
      BY <1>0, <1>1 DEF InTurn, Places, RetryTyped
  <2>3. CASE k = n
      BY <1>1, <2>3 DEF Written
  <2>4. CASE k < n
    <3>1. fut[k] # "error"
        BY <1>0, <1>3 DEF FuturesAreTrue
    <3>2. rcanceled \/ fut[k] \in {"timeout", "canceled"}
        BY <1>0, <2>4, <3>1 DEF Passed
    <3>3. rcanceled' \/ fut'[k] \in {"timeout", "canceled"}
        BY <1>1, <1>3, <3>2, <1>8 DEF Stable
    <3>4. QED
        BY <1>1, <2>1, <2>4, <3>3 DEF Written, GivenUp
  <2>5. QED
      BY <2>1, <2>2, <2>3, <2>4
<1>10. \A j \in Numbers : AtBegin(j)' => AtBegin(j)
    BY <1>0, <1>1, <1>2, <1>3 DEF AtBegin, RetryTyped
<1>11. QED
    BY <1>1, <1>4, <1>5, <1>6, <1>7, <1>8, <1>9, <1>10, StableKeeps DEF RInv

-----------------------------------------------------------------------------
(* Retry: the loop of Do                                                   *)

\* The goroutines stay where they are; Do stops them, and its context is over,
\* once and for all.
LEMMA LoopKeeps ==
    ASSUME RInv, UNCHANGED <<opts, work>>, running' => running, rcanceled => rcanceled'
    PROVE  Numbers' = Numbers /\ Places' /\ FuturesAreTrue' /\ Latest'
<1>1. UNCHANGED <<opts, outer, inner, fut, answer, mut, out, ended, late>>
    BY DEF work
<1>2. Numbers' = Numbers /\ \A k : AtBegin(k)' <=> AtBegin(k)
    BY <1>1 DEF Numbers, AtBegin
<1>3. QED
    BY <1>1, <1>2 DEF RInv, Places, FuturesAreTrue, Latest

LEMMA LoopStep ==
    ASSUME RInv, Do \/ CancelDo, ~Attempt
    PROVE  RInv'
<1>0. /\ RetryTyped /\ Places /\ InTurn /\ FuturesAreTrue /\ Passed /\ Reported
      /\ Written /\ ValueIsTrue /\ DelayIsCapped
    BY DEF RInv
<1>1. UNCHANGED <<opts, work>> /\ (running' => running) /\ (rcanceled => rcanceled')
    BY <1>0 DEF Do, Exhausted, NoBudget, Await, DelayCanceled, DelayOver, StopRunning, ReadValue,
                CancelDo, RetryTyped
<1>2. Numbers' = Numbers /\ Places' /\ FuturesAreTrue' /\ Latest'
    BY <1>1, LoopKeeps
<1>3. UNCHANGED <<opts, outer, inner, fut, answer, mut, out, ended, late>>
    BY <1>1 DEF work
<1>4. /\ opts.attempts \in Nat /\ n \in Int /\ n >= 0 /\ Numbers \subseteq Int /\ 0 \in Numbers
      /\ n < opts.attempts <=> n \in Numbers
      /\ n = opts.attempts => n > 0 /\ \A k \in Numbers : k < n
      /\ opts.timeout \in BOOLEAN /\ opts.budget \in BOOLEAN
    BY <1>0, Counting, OptionsAssumption DEF RetryTyped
<1>5. CASE Exhausted
  <2>1. UNCHANGED <<n, err, running, rcanceled, delay, value>> /\ rpc = "top" /\ rpc' = "return"
        /\ n = opts.attempts
      BY <1>5 DEF Exhausted, EndDo
  <2>2. RetryTyped'
      BY <1>0, <1>2, <1>3, <2>1 DEF RetryTyped
  <2>3. InTurn' /\ Passed'
      BY <1>0, <1>2, <1>3, <1>4, <2>1 DEF InTurn, Passed
  <2>4. Reported'
      BY <1>0, <1>2, <1>3, <1>4, <2>1 DEF Reported, Decided
  <2>5. Written' /\ ValueIsTrue' /\ DelayIsCapped'
      BY <1>0, <1>2, <1>3, <2>1 DEF Written, GivenUp, ValueIsTrue, DelayIsCapped
  <2>6. QED
      BY <1>2, <2>2, <2>3, <2>4, <2>5 DEF RInv
<1>6. CASE NoBudget
  <2>1. /\ UNCHANGED <<n, running, rcanceled, delay, value>> /\ rpc = "top" /\ rpc' = "return"
        /\ n \in Numbers /\ n > 0 /\ opts.budget /\ err' = "exhausted"
      BY <1>4, <1>6 DEF NoBudget, EndDo
  <2>2. RetryTyped'
      BY <1>0, <1>2, <1>3, <2>1 DEF RetryTyped
  <2>3. InTurn' /\ Passed'
      BY <1>0, <1>2, <1>3, <1>4, <2>1 DEF InTurn, Passed
  <2>4. Reported'
      BY <1>0, <1>2, <1>3, <1>4, <2>1 DEF Reported, Decided
  <2>5. Written' /\ ValueIsTrue' /\ DelayIsCapped'
      BY <1>0, <1>2, <1>3, <2>1 DEF Written, GivenUp, ValueIsTrue, DelayIsCapped
  <2>6. QED
      BY <1>2, <2>2, <2>3, <2>4, <2>5 DEF RInv
<1>7. CASE Await
  <2>1. UNCHANGED <<n, running, rcanceled, value>> /\ rpc = "await" /\ n \in Numbers /\ running
      BY <1>0, <1>7 DEF Await, Reported
  <2>2. PICK e \in Seen :
           /\ err' = e
           /\ e \in {"ok", "permanent"} => rpc' = "return" /\ delay' = delay
           /\ e \notin {"ok", "permanent"} =>
                 rpc' = "delay" /\ \E d \in Delay(n) : delay' \in Jittered(d)
      BY <1>7 DEF Await, EndDo
  <2>3. (e = "canceled" /\ rcanceled) \/ (e = fut[n] /\ fut[n] # "none")
      BY <2>2 DEF Seen
  <2>4. /\ e \in Results \cup {"timeout", "canceled"} /\ (e = "canceled" => rcanceled)
        /\ e = "timeout" => opts.timeout
        /\ e \in Results => ended[n] = e
      BY <1>0, <2>1, <2>3 DEF RetryTyped, FuturesAreTrue, Results
  <2>5. DelayIsCapped'
    <3>1. CASE delay' = delay
        BY <1>0, <3>1 DEF DelayIsCapped
    <3>2. CASE \E d \in Delay(n) : delay' \in Jittered(d)
        BY <1>0, <2>1, <3>2, DelayClamped, JitterWithin DEF DelayIsCapped, RetryTyped
    <3>3. QED
        BY <2>2, <3>1, <3>2
  <2>6. RetryTyped'
      BY <1>0, <1>2, <1>3, <2>1, <2>2, <2>4 DEF RetryTyped
  <2>7. InTurn'
      BY <1>0, <1>2, <1>3, <2>1, <2>2, <2>4 DEF InTurn, Results
  <2>8. Passed'
      BY <1>0, <1>2, <1>3, <2>1, <2>2, <2>3, <2>4 DEF Passed, Results
  <2>9. Reported'
      BY <1>0, <1>2, <1>3, <2>1, <2>2, <2>4 DEF Reported, Decided, Results
  <2>10. Written' /\ ValueIsTrue'
      BY <1>0, <1>2, <1>3, <2>1, <2>2 DEF Written, GivenUp, ValueIsTrue
  <2>11. QED
      BY <1>2, <2>5, <2>6, <2>7, <2>8, <2>9, <2>10 DEF RInv
<1>8. CASE DelayCanceled
  <2>1. /\ UNCHANGED <<n, running, rcanceled, value>> /\ rpc = "delay" /\ rpc' = "return"
        /\ err' = "canceled" /\ rcanceled /\ delay' = 0
      BY <1>8 DEF DelayCanceled, EndDo
  <2>2. RetryTyped'
      BY <1>0, <1>2, <1>3, <2>1 DEF RetryTyped
  <2>3. InTurn' /\ Passed'
      BY <1>0, <1>2, <1>3, <2>1 DEF InTurn, Passed
  <2>4. Reported'
      BY <1>0, <1>2, <1>3, <2>1 DEF Reported, Decided
  <2>5. Written' /\ ValueIsTrue'
      BY <1>0, <1>2, <1>3, <2>1 DEF Written, GivenUp, ValueIsTrue
  <2>6. DelayIsCapped'
      BY <2>1, DelayAssumption DEF DelayIsCapped
  <2>7. QED
      BY <1>2, <2>2, <2>3, <2>4, <2>5, <2>6 DEF RInv
<1>9. CASE DelayOver
  <2>1. /\ UNCHANGED <<err, running, rcanceled, value>> /\ rpc = "delay" /\ rpc' = "top"
        /\ n \in Numbers /\ n' = n + 1 /\ delay' = 0
      BY <1>0, <1>9 DEF DelayOver, Reported
  <2>2. n' \in 0 .. opts.attempts /\ n' > 0 /\ n' - 1 = n /\ n' # n
        /\ \A k \in Numbers : /\ k < n' <=> k < n \/ k = n
                              /\ k > n' \/ k = n' => k > n
      BY <1>4, <2>1
  <2>3. RetryTyped'
      BY <1>0, <1>2, <1>3, <2>1, <2>2 DEF RetryTyped
  <2>4. InTurn' /\ Passed'
      BY <1>0, <1>2, <1>3, <2>1, <2>2 DEF InTurn, Passed
  <2>5. Reported'
      BY <1>0, <1>2, <1>3, <2>1, <2>2 DEF Reported, Decided
  <2>6. n' \in Numbers => ended[n'] = "none"
      BY <1>0, <1>4, <2>2 DEF InTurn, Places
  <2>7. Written' /\ ValueIsTrue'
      BY <1>0, <1>2, <1>3, <2>1, <2>6 DEF Written, ValueIsTrue
  <2>8. DelayIsCapped'
      BY <2>1, DelayAssumption DEF DelayIsCapped
  <2>9. QED
      BY <1>2, <2>3, <2>4, <2>5, <2>7, <2>8 DEF RInv
<1>10. CASE StopRunning
  <2>1. UNCHANGED <<n, err, rcanceled, value, delay>> /\ rpc = "return" /\ rpc' = "read"
        /\ running' = FALSE
      BY <1>10 DEF StopRunning
  <2>2. RetryTyped'
      BY <1>0, <1>2, <1>3, <2>1 DEF RetryTyped
  <2>3. InTurn' /\ Passed'
      BY <1>0, <1>2, <1>3, <2>1 DEF InTurn, Passed
  <2>4. Reported'
      BY <1>0, <1>2, <1>3, <2>1 DEF Reported, Decided
  <2>5. Written' /\ ValueIsTrue' /\ DelayIsCapped'
      BY <1>0, <1>2, <1>3, <2>1 DEF Written, GivenUp, ValueIsTrue, DelayIsCapped
  <2>6. QED
      BY <1>2, <2>2, <2>3, <2>4, <2>5 DEF RInv
<1>11. CASE ReadValue
  <2>1. UNCHANGED <<n, err, rcanceled, running, delay>> /\ rpc = "read" /\ rpc' = "over"
        /\ value' = IF err = "ok" THEN out ELSE NoAttempt
      BY <1>11 DEF ReadValue
  <2>2. RetryTyped'
      BY <1>0, <1>2, <1>3, <2>1 DEF RetryTyped
  <2>3. InTurn' /\ Passed'
      BY <1>0, <1>2, <1>3, <2>1 DEF InTurn, Passed
  <2>4. Reported'
      BY <1>0, <1>2, <1>3, <2>1 DEF Reported, Decided
  <2>5. err = "ok" => out = n \/ GivenUp(out)
      BY <1>0 DEF Reported, Written
  <2>6. Written' /\ ValueIsTrue' /\ DelayIsCapped'
      BY <1>0, <1>2, <1>3, <2>1, <2>5 DEF Written, GivenUp, ValueIsTrue, DelayIsCapped
  <2>7. QED
      BY <1>2, <2>2, <2>3, <2>4, <2>6 DEF RInv
<1>12. CASE CancelDo
  <2>1. UNCHANGED <<n, rpc, err, running, delay, value>> /\ rcanceled' = TRUE
      BY <1>12 DEF CancelDo, loop
  <2>2. RetryTyped'
      BY <1>0, <1>2, <1>3, <2>1 DEF RetryTyped
  <2>3. InTurn' /\ Passed'
      BY <1>0, <1>2, <1>3, <2>1 DEF InTurn, Passed
  <2>4. Reported'
      BY <1>0, <1>2, <1>3, <2>1 DEF Reported, Decided
  <2>5. Written' /\ ValueIsTrue' /\ DelayIsCapped'
      BY <1>0, <1>2, <1>3, <2>1 DEF Written, GivenUp, ValueIsTrue, DelayIsCapped
  <2>6. QED
      BY <1>2, <2>2, <2>3, <2>4, <2>5 DEF RInv
<1>13. QED
    BY <1>5, <1>6, <1>7, <1>8, <1>9, <1>10, <1>11, <1>12 DEF Do

\* The goroutine of the next attempt starts.
LEMMA AttemptStep == ASSUME RInv, Attempt PROVE RInv'
<1>0. /\ RetryTyped /\ Places /\ InTurn /\ FuturesAreTrue /\ Passed /\ Reported
      /\ Written /\ Latest /\ ValueIsTrue /\ DelayIsCapped
    BY DEF RInv
<1>1. /\ UNCHANGED <<opts, n, inner, fut, answer, mut, running, rcanceled, err, delay, out, value,
                     ended, late>>
      /\ rpc = "top" /\ rpc' = "await" /\ n \in Numbers /\ Numbers' = Numbers
      /\ outer[n] = "none" /\ outer' = [outer EXCEPT ![n] = "start"] /\ n \in Int /\ n >= 0
      /\ 0 \in Numbers
    BY <1>0, Counting DEF Attempt, RetryTyped, InTurn, Numbers
<1>2. RetryTyped'
    BY <1>0, <1>1 DEF RetryTyped
<1>3. Places'
    BY <1>0, <1>1 DEF RetryTyped, Places
<1>4. err # "exhausted"
    BY <1>0, <1>1 DEF Reported, Decided
<1>5. InTurn' /\ FuturesAreTrue' /\ Passed'
    BY <1>0, <1>1, <1>4 DEF RetryTyped, InTurn, FuturesAreTrue, Passed
<1>6. Reported'
    BY <1>0, <1>1 DEF Reported, Decided
<1>7. Written' /\ ValueIsTrue' /\ DelayIsCapped'
    BY <1>0, <1>1 DEF Written, GivenUp, ValueIsTrue, DelayIsCapped
<1>8. Latest'
  <2>1. \A k \in Numbers : AtBegin(k)' => AtBegin(k)
      BY <1>0, <1>1 DEF RetryTyped, AtBegin
  <2>2. QED
      BY <1>0, <1>1, <2>1 DEF Latest, RetryTyped
<1>9. QED
    BY <1>2, <1>3, <1>5, <1>6, <1>7, <1>8 DEF RInv

-----------------------------------------------------------------------------
(* Retry: the theorems                                                     *)

\* The invariant holds of every call of Do.
THEOREM RetryInvariant == RetrySpec => []RInv
<1>1. RInv /\ [RetryNext]_retryVars => RInv'
  <2>1. ASSUME RInv, UNCHANGED retryVars PROVE RInv'
      BY <2>1 DEF retryVars, RInv, RetryTyped, Places, InTurn, FuturesAreTrue, Passed, Reported,
                  Written, GivenUp, Latest, AtBegin, ValueIsTrue, DelayIsCapped, Numbers, Decided
  <2>2. QED
      BY <2>1, LoopStep, AttemptStep, WorkStep, EndStep DEF RetryNext
<1>2. QED
    BY InitRInv, <1>1, PTL DEF RetrySpec

\* What Do returns is what the operation of its last attempt has returned, or the
\* limit that stopped it; one operation at most begins once it has returned, that
\* of an attempt that was given up; the value is
\* that of the successful operation or of one that was given up; and no delay is
\* longer than MaxDelay, whatever overflows.
THEOREM RetryTruthful == RetrySpec => []RetryIsTrue
<1>1. RInv => RetryIsTrue
  <2> SUFFICES ASSUME RInv PROVE RetryIsTrue
      OBVIOUS
  <2>1. n < opts.attempts <=> n \in Numbers
      BY Counting DEF RInv, RetryTyped
  <2>2. \A k \in Numbers : outer[k] = "none" /\ inner[k] = "none" => ended[k] = "none" /\ mut # k
      BY OptionsAssumption DEF RInv, RetryTyped, Places
  <2>3. ErrorIsTrue
    <3> SUFFICES ASSUME Decided PROVE LET last == IF n = opts.attempts THEN n - 1 ELSE n
                                   IN  /\ err \in {"ok", "permanent", "error"} => ended[last] = err
                                       /\ err = "timeout" => opts.timeout
                                       /\ err = "canceled" => rcanceled
                                       /\ err = "exhausted" =>
                                             opts.budget /\ ended[n] = "none" /\ n > 0
        BY DEF ErrorIsTrue, Decided
    <3>1. err \in {"ok", "permanent"} => n # opts.attempts /\ ended[n] = err
        BY <2>1 DEF RInv, RetryTyped, Reported, Numbers
    <3>2. err = "error" => n = opts.attempts /\ ended[n - 1] = err
        BY DEF RInv, Reported, Decided
    <3>3. err = "exhausted" => ended[n] = "none"
        BY <2>2 DEF RInv, InTurn, Reported
    <3>4. QED
        BY <3>1, <3>2, <3>3 DEF RInv, Reported
  <2>4. OneLate
      BY <2>2 DEF RInv, RetryTyped, InTurn, Latest, OneLate
  <2>5. QED
      BY <2>3, <2>4 DEF RetryIsTrue, RInv
<1>2. QED
    BY RetryInvariant, <1>1, PTL

-----------------------------------------------------------------------------
(* The budget of retries: what time is made of                             *)

BL == BucketLength
BN == BucketNum

\* The number of the bucket that a time is in.
Slot(t) == t \div BucketLength

LEMMA InSlot ==
    ASSUME NEW t \in Nat
    PROVE  /\ Slot(t) \in Nat /\ t % BL \in 0 .. BL - 1
           /\ t = BL * Slot(t) + (t % BL) /\ timeRoundDown(t) = BL * Slot(t)
<1>1. BucketLength \in Nat /\ BucketLength > 0
    BY BudgetAssumption
<1>2. /\ t \div BucketLength \in Nat /\ t % BucketLength \in 0 .. BucketLength - 1
      /\ t = BucketLength * (t \div BucketLength) + (t % BucketLength)
    BY <1>1
<1> DEFINE q == t \div BucketLength  m == t % BucketLength
<1>3. BucketLength * q \in Nat
    BY <1>1, <1>2
<1>4. t - m = BucketLength * q
    <2> HIDE DEF q, m
    <2>1. q \in Nat /\ m \in Nat /\ t = BucketLength * q + m
        BY <1>1, <1>2 DEF q, m
    <2>2. QED
        BY <1>1, <1>3, <2>1
<1>5. QED
    BY <1>2, <1>4 DEF Slot, timeRoundDown, BL

LEMMA SlotIs ==
    ASSUME NEW t \in Nat, NEW b \in Int
    PROVE  Slot(t) = b <=> t >= BL * b /\ t < BL * b + BL
<1>1. BL \in Nat /\ BL > 0
    BY BudgetAssumption DEF BL
<1> DEFINE q == Slot(t)  m == t % BL
<1>2. q \in Nat /\ m \in 0 .. BL - 1 /\ t = BL * q + m
    BY InSlot
<1> HIDE DEF q, m
<1>3. q = b => t >= BL * b /\ t < BL * b + BL
    BY <1>1, <1>2
<1>4. ASSUME q < b PROVE t < BL * b
    <2>1. BL * (q + 1) <= BL * b
        BY <1>1, <1>2, <1>4
    <2>2. BL * (q + 1) = BL * q + BL
        BY <1>1, <1>2
    <2>3. QED
        BY <1>1, <1>2, <2>1, <2>2
<1>5. ASSUME b < q PROVE t >= BL * b + BL
    <2>1. BL * (b + 1) <= BL * q
        BY <1>1, <1>2, <1>5
    <2>2. BL * (b + 1) = BL * b + BL
        BY <1>1, <1>2
    <2>3. QED
        BY <1>1, <1>2, <2>1, <2>2
<1>6. BL * b \in Int
    BY <1>1
<1>7. QED
    BY <1>1, <1>2, <1>3, <1>4, <1>5, <1>6 DEF q

LEMMA SlotsGrow ==
    ASSUME NEW t \in Nat, NEW u \in Nat, t <= u
    PROVE  /\ Slot(t) <= Slot(u)
           /\ timeRoundDown(u) <= t <=> Slot(t) = Slot(u)
           /\ (timeRoundDown(u) - timeRoundDown(t)) \div BucketLength = Slot(u) - Slot(t)
<1>1. BL \in Nat /\ BL > 0
    BY BudgetAssumption DEF BL
<1> DEFINE p == Slot(t)  q == Slot(u)
<1>2. p \in Nat /\ q \in Nat /\ timeRoundDown(t) = BL * p /\ timeRoundDown(u) = BL * q
    BY InSlot
<1>3. /\ t >= BL * p /\ t < BL * p + BL
      /\ u >= BL * q /\ u < BL * q + BL
    BY <1>2, SlotIs
<1> HIDE DEF p, q
<1>4. BL * p \in Nat /\ BL * q \in Nat
    BY <1>1, <1>2
<1>5. p <= q
    <2>1. SUFFICES ASSUME q < p PROVE FALSE
        BY <1>2
    <2>2. BL * (q + 1) <= BL * p
        BY <1>1, <1>2, <2>1
    <2>3. BL * (q + 1) = BL * q + BL
        BY <1>1, <1>2
    <2>4. QED
        BY <1>1, <1>3, <1>4, <2>2, <2>3
<1>6. BL * q <= t <=> p = q
    <2>1. CASE p = q
        BY <1>3, <2>1
    <2>2. CASE p < q
        <3>1. BL * (p + 1) <= BL * q
            BY <1>1, <1>2, <2>2
        <3>2. BL * (p + 1) = BL * p + BL
            BY <1>1, <1>2
        <3>3. QED
            BY <1>1, <1>3, <1>4, <2>2, <3>1, <3>2
    <2>3. QED
        BY <1>2, <1>5, <2>1, <2>2
<1>7. (BL * q - BL * p) \div BL = q - p
    <2> DEFINE d == q - p
    <2>1. d \in Nat /\ BL * q - BL * p = BL * d
        BY <1>1, <1>2, <1>5
    <2> HIDE DEF d
    <2>2. BL * d \in Nat
        BY <1>1, <2>1
    <2>3. Slot(BL * d) = d
        BY <1>1, <2>1, <2>2, SlotIs
    <2>4. QED
        BY <2>1, <2>3 DEF Slot, BL, d
<1>8. QED
    BY <1>2, <1>5, <1>6, <1>7 DEF p, q, BL

-----------------------------------------------------------------------------
(* The inductive invariant                                                 *)

Rates == [counts : Seq(Nat), lastUpdate : Nat \cup {Never}]

\* The events that are in slot b.
Events(es, b) == {j \in DOMAIN es : Slot(es[j]) = b}

\* A movingRate that was first used at f, and the events es it has counted:
\* each bucket has the events of its slot.
Counts(r, es, f) ==
    /\ r.lastUpdate \in Nat /\ Len(r.counts) \in 1 .. BN + 1
    /\ f \in Nat /\ f <= r.lastUpdate
    /\ \A j \in DOMAIN es : es[j] <= r.lastUpdate
    /\ \A i \in DOMAIN r.counts :
          r.counts[i] = Cardinality(Events(es, Slot(r.lastUpdate) - (Len(r.counts) - i)))
    /\ Len(r.counts) <= BN => Slot(r.lastUpdate) - (Len(r.counts) - 1) = Slot(f)

Sound(r, es, f) ==
    /\ r \in Rates /\ es \in Seq(Nat) /\ f \in Nat \cup {Never}
    /\ r.lastUpdate = Never <=> f = Never
    /\ f = Never => r = Fresh /\ es = <<>>
    /\ f # Never => Counts(r, es, f)

BudgetTyped ==
    /\ now \in Nat
    /\ DOMAIN rates = Kinds /\ DOMAIN events = Kinds /\ DOMAIN first = Kinds
    /\ rates = [k \in Kinds |-> rates[k]]
    /\ events = [k \in Kinds |-> events[k]]
    /\ first = [k \in Kinds |-> first[k]]

BInv ==
    /\ BudgetTyped
    /\ \A k \in Kinds : Sound(rates[k], events[k], first[k]) /\ rates[k].lastUpdate <= now
    /\ RefusalIsDue

-----------------------------------------------------------------------------
(* What the operations of a movingRate do                                  *)

\* shift: of the buckets and of so many new ones after them, those are kept that
\* the window has room for.
LEMMA ShiftKeepsTheLast ==
    ASSUME NEW c \in Seq(Nat), NEW num \in Nat \ {0}, Len(c) \in 1 .. BN + 1
    PROVE  LET s == shift(c, num)
               del == Len(c) + num - Len(s)
           IN  /\ s \in Seq(Nat) /\ Len(s) \in 1 .. BN + 1
               /\ Len(s) <= BN => del = 0
               /\ \A i \in 1 .. Len(s) :
                     /\ del + i \in Nat \ {0}
                     /\ s[i] = IF del + i <= Len(c) THEN c[del + i] ELSE 0
<1>1. BN \in Nat /\ BN > 0
    BY BudgetAssumption DEF BN
<1> DEFINE L == Len(c)
           new == IF num > BN + 1 THEN BN + 1 ELSE num
           zeros == [i \in 1 .. new |-> 0]
           all == c \o zeros
           d == Len(all) - (BN + 1)
           s == shift(c, num)
<1>2. new \in Nat \ {0} /\ new <= num /\ new <= BN + 1 /\ (new < num => new = BN + 1)
    BY <1>1
<1>3. zeros \in Seq(Nat) /\ Len(zeros) = new
    <2> HIDE DEF new
    <2>1. QED
        BY <1>2
<1>4. /\ all \in Seq(Nat) /\ Len(all) = L + new
      /\ \A i \in 1 .. L + new : all[i] = IF i <= L THEN c[i] ELSE 0
    <2> HIDE DEF new, zeros
    <2>1. all \in Seq(Nat) /\ Len(all) = L + new
        BY <1>3, ConcatProperties
    <2>2. ASSUME NEW i \in 1 .. L + new PROVE all[i] = IF i <= L THEN c[i] ELSE 0
        <3>1. CASE i <= L
            BY <1>3, <3>1
        <3>2. CASE ~(i <= L)
            <4>1. L \in Nat /\ i - L \in 1 .. new
                BY <1>2, <3>2
            <4>2. all[i] = zeros[i - L]
                BY <1>3, <3>2, <4>1, ConcatProperties
            <4>3. zeros[i - L] = 0
                BY <4>1 DEF zeros
            <4>4. QED
                BY <3>2, <4>2, <4>3
        <3>3. QED
            BY <3>1, <3>2
    <2>3. QED
        BY <2>1, <2>2
<1>5. s = IF d > 0 THEN SubSeq(all, d + 1, Len(all)) ELSE all
    BY DEF shift, BN
<1>6. L \in 1 .. BN + 1
    OBVIOUS
<1> HIDE DEF s, all, zeros, new, L
<1>7. CASE d > 0
    <2>1. d \in Nat /\ d <= L /\ Len(all) \in Nat /\ d + 1 <= Len(all)
        BY <1>1, <1>2, <1>4, <1>6, <1>7
    <2> HIDE DEF d
    <2>2. s = SubSeq(all, d + 1, Len(all))
        BY <1>5, <1>7
    <2>3. /\ s \in Seq(Nat) /\ Len(s) = Len(all) - d
          /\ \A i \in 1 .. Len(all) - d : s[i] = all[d + i]
        <3>1. d + 1 \in 1 .. Len(all) + 1 /\ Len(all) \in d .. Len(all)
            BY <2>1
        <3>2. all \in Seq(Nat)
            BY <1>4
        <3>3. Len(all) - (d + 1) + 1 = Len(all) - d
            BY <2>1
        <3>4. /\ SubSeq(all, d + 1, Len(all)) \in Seq(Nat)
              /\ Len(SubSeq(all, d + 1, Len(all))) = Len(all) - d
            BY <2>1, <3>1, <3>2, <3>3, SubSeqProperties
        <3>5. ASSUME NEW i \in 1 .. Len(all) - d
              PROVE  SubSeq(all, d + 1, Len(all))[i] = all[d + i]
            <4>1. d + 1 + i - 1 = d + i
                BY <2>1
            <4>2. SubSeq(all, d + 1, Len(all))[i] = all[d + 1 + i - 1]
                BY <2>1, <3>1, <3>2, <3>3, SubSeqProperties
            <4>3. QED
                BY <4>1, <4>2
        <3>6. QED
            BY <2>2, <3>4, <3>5
    <2>4. Len(s) = BN + 1
        BY <1>1, <2>1, <2>3 DEF d
    <2>5. L + num - Len(s) = d + (num - new)
        <3>1. Len(s) = L + new - d /\ d \in Nat /\ L \in Nat
            BY <1>1, <1>2, <1>4, <1>6, <2>1, <2>3
        <3>2. QED
            BY <1>2, <3>1
    <2>6. ASSUME NEW i \in 1 .. Len(s)
          PROVE  LET del == L + num - Len(s)
                 IN  /\ del + i \in Nat \ {0}
                     /\ s[i] = IF del + i <= L THEN c[del + i] ELSE 0
        <3>1. i \in 1 .. Len(all) - d /\ d + i \in 1 .. L + new
            BY <1>2, <1>4, <1>6, <2>1, <2>3
        <3>2. s[i] = IF d + i <= L THEN c[d + i] ELSE 0
            BY <1>4, <2>3, <3>1
        <3>3. CASE new = num
            <4>1. L + num - Len(s) = d
                BY <1>2, <2>1, <2>5, <3>3
            <4>2. QED
                BY <2>1, <3>1, <3>2, <4>1
        <3>4. CASE new < num
            <4>1. d = L
                BY <1>1, <1>2, <1>4, <1>6, <3>4 DEF d
            <4>2. ~(d + i <= L) /\ ~(L + num - Len(s) + i <= L) /\ L + num - Len(s) + i \in Nat \ {0}
                BY <1>2, <1>6, <2>1, <2>5, <3>1, <3>4, <4>1
            <4>3. s[i] = 0
                BY <3>2, <4>2
            <4>4. QED
                BY <4>2, <4>3
        <3>5. QED
            BY <1>2, <3>3, <3>4
    <2>7. QED
        BY <1>1, <2>3, <2>4, <2>6 DEF s, L
<1>8. CASE ~(d > 0)
    <2>1. s = all /\ L + new <= BN + 1
        BY <1>1, <1>2, <1>4, <1>5, <1>6, <1>8
    <2>2. new = num /\ L + num - Len(s) = 0
        BY <1>1, <1>2, <1>4, <1>6, <2>1
    <2>3. Len(s) \in 1 .. BN + 1 /\ s \in Seq(Nat)
        BY <1>1, <1>2, <1>4, <1>6, <2>1
    <2>4. ASSUME NEW i \in 1 .. Len(s) PROVE s[i] = IF i <= L THEN c[i] ELSE 0
        BY <1>4, <2>1
    <2>5. ASSUME NEW i \in 1 .. Len(s)
          PROVE  LET del == L + num - Len(s)
                 IN  /\ del + i \in Nat \ {0}
                     /\ s[i] = IF del + i <= L THEN c[del + i] ELSE 0
        <3>1. 0 + i = i /\ i \in Nat \ {0}
            BY <2>3
        <3>2. L + num - Len(s) + i = i
            BY <2>2, <3>1
        <3>3. QED
            BY <2>4, <3>1, <3>2
    <2>6. QED
        BY <2>2, <2>3, <2>5 DEF s, L
<1>9. d \in Int
    BY <1>1, <1>2, <1>4, <1>6
<1>10. QED
    BY <1>7, <1>8

\* A bucket that begins after the last event has none.
LEMMA LaterIsEmpty ==
    ASSUME NEW es \in Seq(Nat), NEW t \in Nat, \A j \in DOMAIN es : es[j] <= t,
           NEW b \in Int, b > Slot(t)
    PROVE  Cardinality(Events(es, b)) = 0
<1>1. ASSUME NEW j \in DOMAIN es PROVE Slot(es[j]) # b
    <2>1. es[j] \in Nat /\ es[j] <= t
        BY DOMAIN es = 1 .. Len(es)
    <2>2. Slot(es[j]) \in Nat /\ Slot(t) \in Nat /\ Slot(es[j]) <= Slot(t)
        BY <2>1, InSlot, SlotsGrow
    <2>3. QED
        BY <2>2
<1>2. Events(es, b) = {}
    BY <1>1 DEF Events
<1>3. QED
    BY <1>2, FS_EmptySet

LEMMA ForwardIsSound ==
    ASSUME NEW r, NEW es, NEW f, NEW t \in Nat, Sound(r, es, f), r.lastUpdate <= t
    PROVE  /\ Sound(forward(r, t), es, IF f = Never THEN t ELSE f)
           /\ forward(r, t).lastUpdate = t
<1>1. BN \in Nat /\ BN > 0
    BY BudgetAssumption DEF BN
<1>2. Never \notin Nat
    BY DEF Never
<1> DEFINE g == forward(r, t)  u == IF f = Never THEN t ELSE f
<1>3. /\ g.lastUpdate = t /\ u \in Nat /\ u # Never
      /\ g = [counts |-> g.counts, lastUpdate |-> g.lastUpdate]
    BY <1>2 DEF forward, Sound
<1>4. CASE f = Never
    <2>1. r.lastUpdate = Never /\ es = <<>> /\ g.counts = <<0>> /\ u = t
        BY <1>4 DEF Sound, forward
    <2>2. es \in Seq(Nat) /\ Events(es, Slot(t) - (1 - 1)) = {} /\ DOMAIN es = {}
        BY <2>1 DEF Events
    <2>3. Cardinality({}) = 0
        BY FS_EmptySet
    <2>4. g.counts \in Seq(Nat) /\ Len(g.counts) = 1 /\ g.counts[1] = 0 /\ DOMAIN g.counts = {1}
        BY <2>1
    <2>5. Slot(t) \in Nat
        BY InSlot
    <2> HIDE DEF g, u
    <2>6. Counts(g, es, u)
        <3>1. /\ Len(g.counts) \in 1 .. BN + 1 /\ u <= t
              /\ Slot(t) - (Len(g.counts) - 1) = Slot(u)
            BY <1>1, <2>1, <2>4, <2>5
        <3>2. ASSUME NEW i \in DOMAIN g.counts
              PROVE  g.counts[i] = Cardinality(Events(es, Slot(t) - (Len(g.counts) - i)))
            <4>1. i = 1 /\ Len(g.counts) - i = 1 - 1
                BY <2>4, <3>2
            <4>2. QED
                BY <2>2, <2>3, <2>4, <4>1
        <3>3. QED
            BY <1>3, <2>2, <3>1, <3>2 DEF Counts
    <2>7. g \in Rates
        BY <1>3, <2>4 DEF Rates
    <2>8. QED
        BY <1>2, <1>3, <2>2, <2>6, <2>7 DEF Sound, g, u
<1>5. CASE f # Never
    <2> DEFINE c == r.counts  L == Len(c)  last == r.lastUpdate
    <2>1. /\ r \in Rates /\ es \in Seq(Nat) /\ last # Never /\ Counts(r, es, f) /\ u = f
        BY <1>5 DEF Sound
    <2>2. c \in Seq(Nat) /\ L \in 1 .. BN + 1 /\ last \in Nat /\ f \in Nat /\ f <= last
        BY <2>1 DEF Rates, Counts
    <2>3. ASSUME NEW j \in DOMAIN es PROVE es[j] \in Nat /\ es[j] <= last /\ es[j] <= t
        <3>1. es[j] \in Nat
            BY <2>1, DOMAIN es = 1 .. Len(es)
        <3>2. QED
            BY <2>1, <2>2, <3>1 DEF Counts
    <2>4. ASSUME NEW i \in 1 .. L PROVE c[i] = Cardinality(Events(es, Slot(last) - (L - i)))
        BY <2>1, <2>2, DOMAIN c = 1 .. L DEF Counts
    <2>5. L <= BN => Slot(last) - (L - 1) = Slot(f)
        BY <2>1 DEF Counts
    <2>6. /\ Slot(last) \in Nat /\ Slot(t) \in Nat /\ Slot(f) \in Nat /\ Slot(last) <= Slot(t)
          /\ timeRoundDown(t) <= last <=> Slot(last) = Slot(t)
          /\ Crossed(r, t) = Slot(t) - Slot(last)
        BY <2>2, InSlot, SlotsGrow DEF Crossed
    <2>7. g.counts = IF timeRoundDown(t) <= last THEN c ELSE shift(c, Crossed(r, t))
        BY <2>1 DEF forward
    <2>8. f <= t
        BY <2>2
    <2> HIDE DEF L, c, last, g, u
    <2>9. CASE Slot(last) = Slot(t)
        <3>1. g.counts = c
            BY <2>6, <2>7, <2>9
        <3>2. DOMAIN c = 1 .. L /\ Len(c) = L
            BY <2>2 DEF L
        <3>3. Counts(g, es, f)
            BY <1>3, <2>2, <2>3, <2>4, <2>5, <2>8, <2>9, <3>1, <3>2 DEF Counts
        <3>4. g \in Rates
            BY <1>3, <2>2, <3>1 DEF Rates
        <3>5. QED
            BY <1>2, <1>3, <2>1, <3>3, <3>4 DEF Sound, g, u
    <2>10. CASE Slot(last) < Slot(t)
        <3> DEFINE num == Slot(t) - Slot(last)  s == shift(c, num)  del == L + num - Len(s)
        <3>1. num \in Nat \ {0} /\ g.counts = s
            BY <2>6, <2>7, <2>10
        <3>2. /\ s \in Seq(Nat) /\ Len(s) \in 1 .. BN + 1
              /\ Len(s) <= BN => del = 0
              /\ \A i \in 1 .. Len(s) :
                    /\ del + i \in Nat \ {0}
                    /\ s[i] = IF del + i <= L THEN c[del + i] ELSE 0
            BY <2>2, <3>1, ShiftKeepsTheLast DEF L
        <3> DEFINE M == Len(s)
        <3>3. M \in 1 .. BN + 1 /\ DOMAIN s = 1 .. M
            BY <3>2
        <3> HIDE DEF s, M
        <3>4. ASSUME NEW i \in 1 .. M
              PROVE  s[i] = Cardinality(Events(es, Slot(t) - (M - i)))
            <4>1. del + i \in Nat \ {0} /\ s[i] = IF del + i <= L THEN c[del + i] ELSE 0
                BY <3>2 DEF M
            <4>2. Slot(t) - (M - i) = Slot(last) - (L - (del + i))
                <5> DEFINE p == Slot(last)  q == Slot(t)
                <5>1. p \in Nat /\ q \in Nat /\ L \in Nat /\ M \in Nat /\ i \in Nat
                    BY <1>1, <2>2, <2>6, <3>3
                <5>2. del = L + (q - p) - M
                    BY DEF M
                <5> HIDE DEF p, q, del
                <5>3. q - (M - i) = p - (L - (del + i))
                    BY <5>1, <5>2
                <5>4. QED
                    BY <5>3 DEF p, q
            <4> DEFINE e == del + i
            <4>3. e \in Nat \ {0}
                BY <4>1
            <4> HIDE DEF e, del
            <4>4. CASE e <= L
                <5>1. e \in 1 .. L
                    BY <2>2, <4>3, <4>4
                <5>2. QED
                    BY <2>4, <4>1, <4>2, <4>4, <5>1 DEF e
            <4>5. CASE ~(e <= L)
                <5> DEFINE b == Slot(last) - (L - e)
                <5>1. b \in Int /\ b > Slot(last)
                    BY <2>2, <2>6, <4>3, <4>5
                <5> HIDE DEF b
                <5>2. Cardinality(Events(es, b)) = 0
                    BY <2>1, <2>2, <2>3, <5>1, LaterIsEmpty
                <5>3. QED
                    BY <4>1, <4>2, <4>5, <5>2 DEF e, b
            <4>6. QED
                BY <4>4, <4>5
        <3>5. ASSUME M <= BN PROVE Slot(t) - (M - 1) = Slot(f)
            <4>1. L + num - M = 0
                BY <3>2, <3>5 DEF M
            <4>2. L <= BN
                BY <1>1, <2>2, <3>1, <3>3, <3>5, <4>1
            <4>3. Slot(last) - (L - 1) = Slot(f)
                BY <2>5, <4>2
            <4> DEFINE p == Slot(last)  q == Slot(t)  w == Slot(f)
            <4>4. p \in Nat /\ q \in Nat /\ L \in Nat /\ M \in Nat
                BY <1>1, <2>2, <2>6, <3>3
            <4>5. L + (q - p) - M = 0 /\ p - (L - 1) = w
                BY <4>1, <4>3
            <4> HIDE DEF p, q, w
            <4>6. q - (M - 1) = w
                BY <4>4, <4>5
            <4>7. QED
                BY <4>6 DEF q, w
        <3>6. Counts(g, es, f)
            BY <1>3, <2>2, <2>3, <2>8, <3>1, <3>3, <3>4, <3>5 DEF Counts, M
        <3>7. g \in Rates
            BY <1>3, <3>1, <3>2 DEF Rates
        <3>8. QED
            BY <1>2, <1>3, <2>1, <3>6, <3>7 DEF Sound, g, u
    <2>11. QED
        BY <2>6, <2>9, <2>10
<1>6. QED
    BY <1>4, <1>5

\* An event at the time that the movingRate is at.
LEMMA AddIsSound ==
    ASSUME NEW r, NEW es, NEW f, NEW t \in Nat, Sound(r, es, f), r.lastUpdate <= t
    PROVE  /\ Sound(Add(r, t, 1), Append(es, t), IF f = Never THEN t ELSE f)
           /\ Add(r, t, 1).lastUpdate = t
<1> DEFINE h == forward(r, t)  u == IF f = Never THEN t ELSE f
           c == h.counts  L == Len(c)
           g == [h EXCEPT !.counts[Len(h.counts)] = @ + 1]
           fs == Append(es, t)
<1>1. Sound(h, es, u) /\ h.lastUpdate = t
    BY ForwardIsSound
<1>2. u \in Nat /\ u # Never
    BY <1>1, BudgetAssumption DEF Sound, Never
<1>3. h \in Rates /\ es \in Seq(Nat) /\ Counts(h, es, u)
    BY <1>1, <1>2 DEF Sound
<1>4. Add(r, t, 1) = g
    BY DEF Add
<1> HIDE DEF h, u
<1>5. c \in Seq(Nat) /\ L \in 1 .. BN + 1 /\ DOMAIN c = 1 .. L /\ u <= t
    BY <1>1, <1>3 DEF Rates, Counts
<1>6. g.counts = [c EXCEPT ![L] = @ + 1] /\ g.lastUpdate = t
    BY <1>1, <1>3 DEF Rates
<1> DEFINE d == g.counts
<1>7. d \in Seq(Nat) /\ Len(d) = L /\ g \in Rates /\ DOMAIN d = 1 .. L
    <2>1. c \in [1 .. L -> Nat] /\ L \in 1 .. L /\ c[L] + 1 \in Nat
        BY <1>5
    <2>2. d \in [1 .. L -> Nat]
        BY <1>6, <2>1
    <2>3. L \in Nat
        BY <1>5
    <2>4. d \in Seq(Nat) /\ Len(d) = L
        <3> HIDE DEF d, L
        <3>1. QED
            BY <2>2, <2>3
    <2>5. g \in Rates
        BY <1>1, <1>3, <2>4 DEF Rates
    <2>6. QED
        BY <2>2, <2>4, <2>5
<1>8. /\ fs \in Seq(Nat) /\ DOMAIN fs = (DOMAIN es) \cup {Len(es) + 1}
      /\ fs[Len(es) + 1] = t /\ \A j \in DOMAIN es : fs[j] = es[j]
      /\ Len(es) + 1 \notin DOMAIN es
    <2>1. fs \in Seq(Nat) /\ Len(fs) = Len(es) + 1 /\ fs[Len(es) + 1] = t
          /\ \A j \in 1 .. Len(es) : fs[j] = es[j]
        BY <1>3, AppendProperties
    <2>2. DOMAIN fs = 1 .. Len(fs) /\ DOMAIN es = 1 .. Len(es) /\ Len(es) \in Nat
        BY <1>3, <2>1
    <2>3. QED
        BY <2>1, <2>2
<1> HIDE DEF g, fs, d
<1>9. ASSUME NEW b \in Int
      PROVE  Events(fs, b) = IF b = Slot(t) THEN Events(es, b) \cup {Len(es) + 1}
                             ELSE Events(es, b)
    BY <1>8 DEF Events
<1>10. ASSUME NEW b \in Int
       PROVE  IsFiniteSet(Events(es, b)) /\ Len(es) + 1 \notin Events(es, b)
    <2>1. IsFiniteSet(1 .. Len(es)) /\ DOMAIN es = 1 .. Len(es)
        BY <1>3, FS_Interval
    <2>2. Events(es, b) \subseteq 1 .. Len(es)
        BY <2>1 DEF Events
    <2>3. QED
        BY <1>8, <2>1, <2>2, FS_Subset
<1>11. \A i \in 1 .. L : c[i] = Cardinality(Events(es, Slot(t) - (L - i)))
    BY <1>1, <1>3, <1>5 DEF Counts
<1>12. Slot(t) \in Nat /\ L \in Nat
    <2>1. L \in Nat
        BY <1>5
    <2>2. QED
        BY <2>1, InSlot
<1> HIDE DEF L
<1>13. ASSUME NEW i \in 1 .. L
       PROVE  d[i] = Cardinality(Events(fs, Slot(t) - (L - i)))
    <2> DEFINE b == Slot(t) - (L - i)
    <2>1. b \in Int /\ (b = Slot(t) <=> i = L)
        BY <1>12, <1>13
    <2> HIDE DEF b
    <2>2. c[i] = Cardinality(Events(es, b))
        BY <1>11 DEF b
    <2>3. CASE i = L
        <3>1. d[i] = c[i] + 1
            BY <1>5, <1>6, <2>3 DEF d, L
        <3>2. Events(fs, b) = Events(es, b) \cup {Len(es) + 1}
            BY <1>9, <2>1, <2>3
        <3>3. Cardinality(Events(fs, b)) = Cardinality(Events(es, b)) + 1
            BY <1>10, <2>1, <3>2, FS_AddElement
        <3>4. QED
            BY <2>2, <3>1, <3>3 DEF b
    <2>4. CASE i # L
        <3>1. d[i] = c[i]
            BY <1>5, <1>6, <2>4 DEF d, L
        <3>2. Events(fs, b) = Events(es, b)
            BY <1>9, <2>1, <2>4
        <3>3. QED
            BY <2>2, <3>1, <3>2 DEF b
    <2>5. QED
        BY <2>3, <2>4
<1>14. Counts(g, fs, u)
    <2>1. \A j \in DOMAIN fs : fs[j] <= t
        <3>1. \A j \in DOMAIN es : es[j] <= t
            BY <1>1, <1>3 DEF Counts
        <3>2. QED
            BY <1>8, <3>1
    <2>2. L <= BN => Slot(t) - (L - 1) = Slot(u)
        BY <1>1, <1>3 DEF Counts, L
    <2>3. QED
        BY <1>2, <1>5, <1>6, <1>7, <1>13, <2>1, <2>2 DEF Counts, d
<1>15. g.lastUpdate # Never
    BY <1>6 DEF Never
<1>16. Sound(g, fs, u)
    BY <1>2, <1>7, <1>8, <1>14, <1>15 DEF Sound
<1>17. QED
    BY <1>4, <1>6, <1>16 DEF u, fs

-----------------------------------------------------------------------------
(* What the rates are                                                      *)

LEMMA FirstIndex ==
    ASSUME NEW S \in SUBSET Nat, S # {}
    PROVE  \E x \in S : \A y \in S : x <= y
<1> DEFINE R == OpToRel(<, Nat)
<1>1. IsWellFoundedOn(R, Nat)
    BY NatLessThanWellFounded
<1>2. ASSUME NEW x \in Nat, NEW y \in Nat PROVE <<x, y>> \in R <=> x < y
    BY DEF OpToRel
<1> HIDE DEF R
<1>3. PICK x \in S : \A y \in S : <<y, x>> \notin R
    BY <1>1, WFMin
<1>4. \A y \in S : ~(y < x)
    BY <1>2, <1>3
<1>5. QED
    BY <1>4

\* The first so many numbers of a sequence can be added up.
SumsTo(g, s, num) ==
    /\ g \in [0 .. num -> Nat] /\ g[0] = 0
    /\ \A i \in 1 .. num : g[i] = g[i - 1] + s[i]

LEMMA SumsExist ==
    ASSUME NEW s \in Seq(Nat), NEW num \in 0 .. Len(s)
    PROVE  \E g : SumsTo(g, s, num)
<1> DEFINE Bad == {m \in 0 .. Len(s) : ~\E g : SumsTo(g, s, m)}
<1>1. SUFFICES ASSUME Bad # {} PROVE FALSE
    OBVIOUS
<1>2. PICK m \in Bad : \A k \in Bad : m <= k
    <2>1. Bad \in SUBSET Nat
        OBVIOUS
    <2> HIDE DEF Bad
    <2>2. QED
        BY <1>1, <2>1, FirstIndex
<1>3. m \in 0 .. Len(s) /\ Len(s) \in Nat /\ ~\E g : SumsTo(g, s, m)
    BY <1>2
<1>4. CASE m = 0
    <2> DEFINE z == [i \in 0 .. 0 |-> 0]
    <2>1. SumsTo(z, s, 0)
        BY DEF SumsTo
    <2>2. QED
        BY <1>3, <1>4, <2>1
<1>5. CASE m # 0
    <2>1. m - 1 \in 0 .. Len(s) /\ ~(m <= m - 1) /\ m \in Nat
        BY <1>3, <1>5
    <2>2. PICK g : SumsTo(g, s, m - 1)
        BY <1>2, <2>1
    <2> DEFINE h == [i \in 0 .. m |-> IF i = m THEN g[m - 1] + s[m] ELSE g[i]]
    <2>3. g[m - 1] \in Nat /\ s[m] \in Nat
        BY <1>3, <1>5, <2>1, <2>2 DEF SumsTo
    <2>4. h \in [0 .. m -> Nat]
        <3>1. ASSUME NEW i \in 0 .. m, i # m PROVE g[i] \in Nat
            BY <2>1, <2>2, <3>1 DEF SumsTo
        <3>2. QED
            BY <2>3, <3>1
    <2>5. h[0] = 0
        BY <1>5, <2>1, <2>2 DEF SumsTo
    <2>6. ASSUME NEW i \in 1 .. m PROVE h[i] = h[i - 1] + s[i]
        <3>1. i - 1 \in 0 .. m /\ i - 1 # m /\ h[i - 1] = g[i - 1]
            BY <2>1
        <3>2. CASE i = m
            BY <3>1, <3>2
        <3>3. CASE i # m
            <4>1. i \in 1 .. m - 1
                BY <2>1, <3>3
            <4>2. h[i] = g[i] /\ g[i] = g[i - 1] + s[i]
                BY <2>1, <2>2, <3>3, <4>1 DEF SumsTo
            <4>3. QED
                BY <3>1, <4>2
        <3>4. QED
            BY <3>2, <3>3
    <2> HIDE DEF h
    <2>7. SumsTo(h, s, m)
        BY <2>4, <2>5, <2>6 DEF SumsTo
    <2>8. QED
        BY <1>3, <2>7
<1>6. QED
    BY <1>4, <1>5

LEMMA TotalIsNatural ==
    ASSUME NEW s \in Seq(Nat)
    PROVE  Total(s) \in Nat
<1> DEFINE N == 0 .. Len(s)
           IsSum(f) == f = [i \in N |-> IF i = 0 THEN 0 ELSE f[i - 1] + s[i]]
           upTo == CHOOSE f : IsSum(f)
<1>1. Total(s) = upTo[Len(s)]
    BY DEF Total
<1>2. Len(s) \in Nat /\ Len(s) \in N
    OBVIOUS
<1>3. PICK g : SumsTo(g, s, Len(s))
    BY <1>2, SumsExist
<1>4. IsSum(g)
    <2>1. ASSUME NEW i \in N PROVE g[i] = IF i = 0 THEN 0 ELSE g[i - 1] + s[i]
        BY <1>2, <1>3 DEF SumsTo
    <2>2. g = [i \in N |-> g[i]]
        BY <1>3 DEF SumsTo
    <2>3. QED
        BY <2>1, <2>2
<1> HIDE DEF IsSum
<1>5. IsSum(upTo)
    BY <1>4
<1> HIDE DEF upTo
<1>6. \A i \in N : upTo[i] = IF i = 0 THEN 0 ELSE upTo[i - 1] + s[i]
    BY <1>5 DEF IsSum
<1> DEFINE Bad == {i \in N : upTo[i] \notin Nat}
<1>7. Bad = {}
    <2>1. SUFFICES ASSUME Bad # {} PROVE FALSE
        OBVIOUS
    <2>2. PICK i \in Bad : \A k \in Bad : i <= k
        <3>1. Bad \in SUBSET Nat
            OBVIOUS
        <3> HIDE DEF Bad
        <3>2. QED
            BY <2>1, <3>1, FirstIndex
    <2>3. i \in N /\ upTo[i] \notin Nat
        BY <2>2
    <2>4. i # 0
        BY <1>6, <2>3
    <2>5. i - 1 \in N /\ ~(i <= i - 1)
        BY <1>2, <2>3, <2>4
    <2>6. upTo[i - 1] \in Nat
        BY <2>2, <2>5
    <2>7. s[i] \in Nat
        BY <1>2, <2>3, <2>4
    <2>8. QED
        BY <1>6, <2>3, <2>4, <2>6, <2>7
<1>8. QED
    BY <1>1, <1>2, <1>7

LEMMA RateIsNotNegative ==
    ASSUME NEW r \in Rates, r.lastUpdate \in Nat, Len(r.counts) \in 1 .. BN + 1
    PROVE  /\ count(r) \in Nat /\ Rate(r)[2] \in Nat
           /\ Rate(r)[1] = count(r)
<1>1. BL \in Nat /\ BL > 0 /\ BN \in Nat
    BY BudgetAssumption DEF BL, BN
<1> DEFINE c == r.counts  m == r.lastUpdate % BucketLength  L == Len(c)
<1>2. c \in Seq(Nat) /\ L \in Nat /\ L >= 1
    BY <1>1 DEF Rates
<1>3. m \in 0 .. BL - 1
    BY InSlot DEF BL
<1>4. Head(c) \in Nat /\ Tail(c) \in Seq(Nat)
    BY <1>2
<1>5. Total(c) \in Nat /\ Total(Tail(c)) \in Nat
    BY <1>2, <1>4, TotalIsNatural
<1> HIDE DEF m
<1>6. count(r) \in Nat
    <2> DEFINE x == Total(c)  y == Total(Tail(c))  z == Head(c)
    <2>1. x \in Nat /\ y \in Nat /\ z \in Nat
        BY <1>4, <1>5
    <2>2. count(r) = IF Len(c) <= BN THEN BL * x ELSE (BL - m) * z + BL * y
        BY DEF count, BL, BN, m
    <2> HIDE DEF x, y, z
    <2>3. BL * x \in Nat /\ BL * y \in Nat /\ (BL - m) \in Nat
        BY <1>1, <1>3, <2>1
    <2> DEFINE w == BL - m
    <2>4. w * z \in Nat
        <3> HIDE DEF w
        <3>1. QED
            BY <2>1, <2>3 DEF w
    <2>5. QED
        BY <2>2, <2>3, <2>4
<1>7. second(r) \in Nat
    <2>1. second(r) = IF L <= BN THEN (L - 1) * BL + m ELSE BN * BL
        BY DEF second, BL, BN, m
    <2> HIDE DEF L
    <2> DEFINE e == L - 1
    <2>2. e \in Nat
        BY <1>2
    <2> HIDE DEF e
    <2>3. e * BL \in Nat /\ BN * BL \in Nat
        BY <1>1, <2>2
    <2>4. QED
        BY <1>3, <1>1, <2>1, <2>3 DEF e
<1>8. BL * second(r) \in Nat
    BY <1>1, <1>7
<1>9. QED
    BY <1>6, <1>8 DEF Rate, BL

\* A movingRate that has counted nothing is not too much of anything.
LEMMA NothingIsNotTooMuch ==
    ASSUME NEW x \in Nat, NEW p \in Nat, NEW q \in Nat,
           Greater(Quotient(<<0, x>>, <<p, q>>), RatioLimit)
    PROVE  FALSE
<1> DEFINE a == RatioLimit[1]  b == RatioLimit[2]
<1>1. a \in Nat /\ b \in Nat /\ b > 0
    BY BudgetAssumption
<1>2. CASE x = 0 \/ (q = 0 /\ p = 0)
    <2>1. Quotient(<<0, x>>, <<p, q>>) = <<0, 0>>
        BY <1>2 DEF Quotient
    <2>2. QED
        BY <2>1 DEF Greater
<1>3. CASE x # 0 /\ q = 0 /\ p # 0
    <2>1. Quotient(<<0, x>>, <<p, q>>) = <<0, 1>>
        BY <1>3 DEF Quotient
    <2>2. 0 * b > a * 1
        BY <2>1 DEF Greater
    <2>3. QED
        BY <1>1, <2>2
<1>4. CASE x # 0 /\ q # 0
    <2>1. Quotient(<<0, x>>, <<p, q>>) = <<0 * q, p * x>>
        BY <1>4 DEF Quotient
    <2>2. p * x \in Nat /\ 0 * q = 0
        OBVIOUS
    <2> DEFINE y == p * x
    <2>3. IF y = 0 THEN 0 > 0 ELSE 0 * b > a * y
        BY <2>1, <2>2 DEF Greater
    <2> HIDE DEF y
    <2>4. y \in Nat
        BY <2>2 DEF y
    <2>5. a * y \in Nat
        BY <1>1, <2>4
    <2>6. QED
        BY <1>1, <2>3, <2>4, <2>5
<1>5. QED
    BY <1>2, <1>3, <1>4

LEMMA RefusedForSome ==
    ASSUME NEW i \in Rates, i.lastUpdate \in Nat, Len(i.counts) \in 1 .. BN + 1,
           NEW r \in Rates, r.lastUpdate \in Nat, Len(r.counts) \in 1 .. BN + 1,
           Refuses(i, r)
    PROVE  count(r) > 0 /\ Greater(Rate(i), RateLimit)
<1>1. /\ count(r) \in Nat /\ Rate(r) = <<count(r), Rate(r)[2]>> /\ Rate(r)[2] \in Nat
      /\ Rate(i) = <<Rate(i)[1], Rate(i)[2]>> /\ Rate(i)[1] \in Nat /\ Rate(i)[2] \in Nat
    BY RateIsNotNegative DEF Rate
<1>2. Greater(Rate(i), RateLimit) /\ Greater(Quotient(Rate(r), Rate(i)), RatioLimit)
    BY DEF Refuses
<1>3. ASSUME count(r) = 0 PROVE FALSE
    <2> DEFINE x == Rate(r)[2]  p == Rate(i)[1]  q == Rate(i)[2]
    <2>1. Greater(Quotient(<<0, x>>, <<p, q>>), RatioLimit)
        BY <1>1, <1>2, <1>3
    <2>2. x \in Nat /\ p \in Nat /\ q \in Nat
        BY <1>1
    <2> HIDE DEF x, p, q
    <2>3. QED
        BY <2>1, <2>2, NothingIsNotTooMuch
<1>4. QED
    BY <1>1, <1>2, <1>3

-----------------------------------------------------------------------------
(* The steps                                                               *)

LEMMA BudgetBegins ==
    ASSUME BudgetInit
    PROVE  BInv
<1>1. BudgetTyped
    BY DEF BudgetInit, BudgetTyped
<1>2. ASSUME NEW k \in Kinds
      PROVE  Sound(rates[k], events[k], first[k]) /\ rates[k].lastUpdate <= now
    <2>1. rates[k] = Fresh /\ events[k] = <<>> /\ first[k] = Never /\ now = 0
        BY DEF BudgetInit
    <2>2. Fresh \in Rates /\ Fresh.lastUpdate = Never /\ <<>> \in Seq(Nat)
        BY DEF Fresh, Rates
    <2>3. QED
        BY <2>1, <2>2 DEF Sound, Never
<1>3. RefusalIsDue
    BY DEF BudgetInit, RefusalIsDue
<1>4. QED
    BY <1>1, <1>2, <1>3 DEF BInv

\* What a movingRate is after it has been used now, and after an event.
LEMMA UsedNow ==
    ASSUME BInv, NEW k \in Kinds
    PROVE  /\ now \in Nat
           /\ Sound(forward(rates[k], now), events[k], Used(k))
           /\ forward(rates[k], now).lastUpdate = now
           /\ Sound(Add(rates[k], now, 1), Append(events[k], now), Used(k))
           /\ Add(rates[k], now, 1).lastUpdate = now
<1>1. now \in Nat /\ Sound(rates[k], events[k], first[k]) /\ rates[k].lastUpdate <= now
    BY DEF BInv, BudgetTyped
<1>2. QED
    BY <1>1, ForwardIsSound, AddIsSound DEF Used

LEMMA BudgetSteps ==
    ASSUME BInv, [BudgetNext]_budgetVars
    PROVE  BInv'
<1>1. CASE SendInitial
    <2> DEFINE k == "initial"  r == Add(rates[k], now, 1)
    <2>1. k \in Kinds /\ now \in Nat /\ Sound(r, Append(events[k], now), Used(k)) /\ r.lastUpdate = now
        BY UsedNow DEF Kinds
    <2>2. /\ DOMAIN rates = Kinds /\ DOMAIN events = Kinds /\ DOMAIN first = Kinds
        BY DEF BInv, BudgetTyped
    <2> HIDE DEF r
    <2>3. /\ rates' = [rates EXCEPT ![k] = r] /\ first' = [first EXCEPT ![k] = Used(k)]
          /\ events' = [events EXCEPT ![k] = Append(@, now)]
          /\ sent' = [retry |-> FALSE, ok |-> TRUE] /\ now' = now
        BY <1>1 DEF SendInitial, r
    <2>4. BudgetTyped'
        BY <2>1, <2>2, <2>3 DEF BudgetTyped
    <2>5. ASSUME NEW l \in Kinds
          PROVE  (Sound(rates[l], events[l], first[l]) /\ rates[l].lastUpdate <= now)'
        <3>1. CASE l = k
            BY <2>1, <2>2, <2>3, <3>1
        <3>2. CASE l # k
            <4>1. Sound(rates[l], events[l], first[l]) /\ rates[l].lastUpdate <= now
                BY DEF BInv
            <4>2. rates'[l] = rates[l] /\ events'[l] = events[l] /\ first'[l] = first[l]
                BY <2>2, <2>3, <3>2
            <4>3. QED
                BY <2>3, <4>1, <4>2
        <3>3. QED
            BY <3>1, <3>2
    <2>6. RefusalIsDue'
        BY <2>3 DEF RefusalIsDue
    <2>7. QED
        BY <2>4, <2>5, <2>6 DEF BInv
<1>2. CASE SendRetry
    <2> DEFINE i == forward(rates["initial"], now)
               r == forward(rates["retried"], now)
               ok == ~Refuses(i, r)
    <2>1. /\ now \in Nat /\ Kinds = {"initial", "retried"}
          /\ Sound(i, events["initial"], Used("initial")) /\ i.lastUpdate = now
          /\ Sound(r, events["retried"], Used("retried")) /\ r.lastUpdate = now
          /\ Sound(Add(r, now, 1), Append(events["retried"], now), Used("retried"))
          /\ Add(r, now, 1).lastUpdate = now
        <3>1. "initial" \in Kinds /\ "retried" \in Kinds /\ Kinds = {"initial", "retried"}
            BY DEF Kinds
        <3>2. /\ now \in Nat
              /\ Sound(i, events["initial"], Used("initial")) /\ i.lastUpdate = now
              /\ Sound(r, events["retried"], Used("retried")) /\ r.lastUpdate = now
            BY <3>1, UsedNow
        <3>3. Used("retried") # Never
            BY <3>1, <3>2 DEF Used, Never
        <3> HIDE DEF r
        <3>4. /\ Sound(Add(r, now, 1), Append(events["retried"], now), Used("retried"))
              /\ Add(r, now, 1).lastUpdate = now
            BY <3>2, <3>3, AddIsSound
        <3>5. QED
            BY <3>1, <3>2, <3>4
    <2>2. DOMAIN rates = Kinds /\ DOMAIN events = Kinds /\ DOMAIN first = Kinds
        BY DEF BInv, BudgetTyped
    <2>3. /\ rates' = [initial |-> i, retried |-> IF ok THEN Add(r, now, 1) ELSE r]
          /\ events' = IF ok THEN [events EXCEPT !["retried"] = Append(@, now)] ELSE events
          /\ first' = [k \in Kinds |-> Used(k)]
          /\ sent' = [retry |-> TRUE, ok |-> ok] /\ now' = now
        BY <1>2 DEF SendRetry
    <2> HIDE DEF i, r, ok
    <2>4. /\ DOMAIN rates' = Kinds /\ DOMAIN events' = Kinds /\ DOMAIN first' = Kinds
          /\ events'["initial"] = events["initial"]
          /\ rates'["initial"] = i
        BY <2>1, <2>2, <2>3
    <2>5. BudgetTyped'
        <3>1. rates' = [k \in Kinds |-> rates'[k]]
            BY <2>1, <2>3
        <3>2. events = [k \in Kinds |-> events[k]]
            BY DEF BInv, BudgetTyped
        <3>3. events' = [k \in Kinds |-> events'[k]]
            BY <2>2, <2>3, <3>2
        <3>4. first' = [k \in Kinds |-> first'[k]]
            BY <2>3
        <3>5. QED
            BY <2>1, <2>3, <2>4, <3>1, <3>3, <3>4 DEF BudgetTyped
    <2>6. (Sound(rates["initial"], events["initial"], first["initial"])
           /\ rates["initial"].lastUpdate <= now)'
        BY <2>1, <2>3, <2>4
    <2>7. (Sound(rates["retried"], events["retried"], first["retried"])
           /\ rates["retried"].lastUpdate <= now)'
        <3>1. first'["retried"] = Used("retried")
            BY <2>1, <2>3
        <3>2. CASE ok
            BY <2>1, <2>2, <2>3, <3>1, <3>2
        <3>3. CASE ~ok
            BY <2>1, <2>2, <2>3, <3>1, <3>3
        <3>4. QED
            BY <3>2, <3>3
    <2>8. RefusalIsDue'
        <3>1. SUFFICES ASSUME ~ok PROVE RefusalIsDue'
            BY <2>3 DEF RefusalIsDue
        <3>2. rates'["retried"] = r /\ rates'["initial"] = i /\ sent'.retry
            BY <2>3, <3>1
        <3>3. Used("initial") # Never /\ Used("retried") # Never
            BY <2>1 DEF Used, Never
        <3>4. /\ i \in Rates /\ Len(i.counts) \in 1 .. BN + 1 /\ i.lastUpdate \in Nat
              /\ r \in Rates /\ Len(r.counts) \in 1 .. BN + 1 /\ r.lastUpdate \in Nat
            BY <2>1, <3>3 DEF Sound, Counts
        <3>5. count(r) > 0 /\ Greater(Rate(i), RateLimit)
            BY <3>1, <3>4, RefusedForSome DEF ok
        <3>6. QED
            BY <3>2, <3>5 DEF RefusalIsDue
    <2>9. QED
        BY <2>1, <2>5, <2>6, <2>7, <2>8 DEF BInv
<1>3. ASSUME NEW d \in {1, BucketLength, BucketNum * BucketLength}, Tick(d)
      PROVE  BInv'
    <2>1. d \in Nat
        <3>1. BucketLength \in Nat /\ BucketNum \in Nat
            BY BudgetAssumption
        <3>2. BucketNum * BucketLength \in Nat
            BY <3>1
        <3>3. QED
            BY <3>1, <3>2
    <2>2. now' = now + d /\ UNCHANGED <<rates, events, sent, first>>
        BY <1>3 DEF Tick
    <2>3. /\ BudgetTyped /\ now \in Nat /\ RefusalIsDue
          /\ \A k \in Kinds : Sound(rates[k], events[k], first[k]) /\ rates[k].lastUpdate <= now
        BY DEF BInv, BudgetTyped
    <2>4. \A k \in Kinds : rates[k].lastUpdate \in Int
        BY <2>3 DEF Sound, Rates, Never
    <2>5. BudgetTyped' /\ RefusalIsDue'
        BY <2>1, <2>2, <2>3 DEF BudgetTyped, RefusalIsDue
    <2>6. \A k \in Kinds : rates[k].lastUpdate <= now + d
        BY <2>1, <2>3, <2>4
    <2>7. (\A k \in Kinds : Sound(rates[k], events[k], first[k]) /\ rates[k].lastUpdate <= now)'
        BY <2>2, <2>3, <2>6
    <2>8. QED
        BY <2>5, <2>7 DEF BInv
<1>4. CASE UNCHANGED budgetVars
    BY <1>4 DEF BInv, BudgetTyped, budgetVars, RefusalIsDue
<1>5. QED
    BY <1>1, <1>2, <1>3, <1>4 DEF BudgetNext

\* The buckets are those that WindowIsTrue tells of.
LEMMA WindowFollows ==
    ASSUME BInv
    PROVE  WindowIsTrue
<1> SUFFICES ASSUME NEW k \in Kinds, rates[k].lastUpdate # Never
             PROVE  LET r == rates[k]
                    IN  /\ \A i \in DOMAIN r.counts : r.counts[i] = InBucket(k, i)
                        /\ Len(r.counts) <= BucketNum + 1
                        /\ Len(r.counts) <= BucketNum => BucketStart(k, 1) = timeRoundDown(first[k])
                        /\ timeRoundDown(now) > r.lastUpdate => Crossed(r, now) > 0
    BY DEF WindowIsTrue
<1> DEFINE r == rates[k]  es == events[k]  f == first[k]  last == r.lastUpdate  L == Len(r.counts)
<1>1. /\ BL \in Nat /\ BL > 0 /\ BN \in Nat /\ now \in Nat /\ last <= now
      /\ r \in Rates /\ es \in Seq(Nat) /\ Counts(r, es, f)
    BY BudgetAssumption DEF BInv, BudgetTyped, Sound, BL, BN
<1>2. /\ last \in Nat /\ f \in Nat /\ L \in 1 .. BN + 1 /\ L \in Nat
      /\ DOMAIN r.counts = 1 .. L
      /\ L <= BN => Slot(last) - (L - 1) = Slot(f)
      /\ \A i \in DOMAIN r.counts : r.counts[i] = Cardinality(Events(es, Slot(last) - (L - i)))
    BY <1>1 DEF Rates, Counts
<1>3. /\ Slot(last) \in Nat /\ Slot(f) \in Nat /\ Slot(now) \in Nat /\ Slot(last) <= Slot(now)
      /\ timeRoundDown(last) = BL * Slot(last) /\ timeRoundDown(f) = BL * Slot(f)
      /\ timeRoundDown(now) <= last <=> Slot(last) = Slot(now)
      /\ Crossed(r, now) = Slot(now) - Slot(last)
    BY <1>1, <1>2, InSlot, SlotsGrow DEF Crossed
<1>4. ASSUME NEW i \in 1 .. L PROVE BucketStart(k, i) = BL * (Slot(last) - (L - i))
    <2>1. BucketStart(k, i) = BL * Slot(last) - (L - i) * BL
        BY <1>3 DEF BucketStart, BL
    <2> DEFINE q == Slot(last)
    <2>2. q \in Nat /\ i \in Int
        BY <1>3
    <2> HIDE DEF q, L
    <2>3. BL * q - (L - i) * BL = BL * (q - (L - i))
        BY <1>1, <1>2, <2>2
    <2>4. QED
        BY <2>1, <2>3 DEF q
<1>5. ASSUME NEW i \in 1 .. L PROVE r.counts[i] = InBucket(k, i)
    <2> DEFINE b == Slot(last) - (L - i)
    <2>1. b \in Int /\ BucketStart(k, i) = BL * b
        BY <1>2, <1>3, <1>4
    <2> HIDE DEF b
    <2>2. \A j \in DOMAIN es : es[j] \in Nat
        BY <1>1
    <2>3. \A j \in DOMAIN es : Slot(es[j]) = b <=>
              es[j] >= BucketStart(k, i) /\ es[j] < BucketStart(k, i) + BucketLength
        BY <2>1, <2>2, SlotIs DEF BL
    <2>4. InBucket(k, i) = Cardinality(Events(es, b))
        BY <2>3 DEF InBucket, Events
    <2>5. QED
        BY <1>2, <2>4 DEF b
<1>6. L <= BN => BucketStart(k, 1) = timeRoundDown(f)
    <2>1. 1 \in 1 .. L
        BY <1>2
    <2>2. QED
        BY <1>2, <1>3, <1>4, <2>1
<1>7. timeRoundDown(now) > last => Crossed(r, now) > 0
    <2>1. timeRoundDown(now) \in Int
        <3>1. timeRoundDown(now) = BL * Slot(now)
            BY <1>1, InSlot
        <3>2. QED
            BY <1>1, <1>3, <3>1
    <2>2. QED
        BY <1>2, <1>3, <2>1
<1>8. QED
    BY <1>2, <1>5, <1>6, <1>7 DEF BN

THEOREM BudgetInvariant == BudgetSpec => []BInv
<1>1. BudgetInit => BInv
    BY BudgetBegins
<1>2. BInv /\ [BudgetNext]_budgetVars => BInv'
    BY BudgetSteps
<1>3. QED
    BY <1>1, <1>2, PTL DEF BudgetSpec

THEOREM BudgetsTellTruly == BudgetSpec => []BudgetIsTrue
<1>1. BInv => BudgetIsTrue
    BY WindowFollows DEF BInv, BudgetIsTrue
<1>2. QED
    BY <1>1, BudgetInvariant, PTL

================================================================================
