-------------------------------- MODULE Retry --------------------------------
(***************************************************************************)
(* retry/: Do calls an operation until it succeeds.  Each attempt runs it  *)
(* in a goroutine of its own (with a timeout, in a second one) under one   *)
(* mutex, and an attempt that is given up, because its time or the context *)
(* is over, stays behind: it may hold the mutex, or get it later.          *)
(*                                                                         *)
(* The operation of attempt n writes the number n to out as it ends: that  *)
(* is what the operation of a ValueRunner does.  Whether a retry budget    *)
(* lets a retry through is up to the module Budget.                        *)
(***************************************************************************)
EXTENDS Integers, Sequences, FiniteSets

CONSTANTS
    Options,   \* what a runner is made with: [attempts, timeout, jitter, budget]
    Base, MaxDelay, Factor,
    Width      \* a delay that does not fit into so many bits overflows

\* The attempts are limited (0 would be no limit).
ASSUME OptionsAssumption ==
    \A o \in Options : /\ o.attempts \in Nat \ {0} /\ o.jitter \in Int
                      /\ o.timeout \in BOOLEAN /\ o.budget \in BOOLEAN

\* A delay is clamped between Base and MaxDelay; the powers in it are numbers.
ASSUME DelayAssumption ==
    /\ Base \in Nat /\ MaxDelay \in Nat /\ Base <= MaxDelay
    /\ 2 ^ (Width - 1) \in Nat
    /\ \A o \in Options : \A k \in 0 .. o.attempts - 1 : Factor ^ k \in Nat

NoAttempt == -1

VARIABLES
    opts,        \* the options
    rpc,         \* of Do: "top", "await", "delay", "return", "read" or "over"
    n,           \* attemptIndex
    outer,       \* the goroutine of each attempt: "none", "start", "load", "wait",
                 \* "begin", "op" or "end"
    inner,       \* the one of callWithTimeout: "none", "lock", "begin", "op" or "end"
    fut,         \* what the future of each attempt holds: "none" or its result
    answer,      \* what the inner future holds
    mut,         \* the attempt whose goroutine has the mutex, or NoAttempt
    running,     \* the flag of that name
    rcanceled,   \* whether the context of the caller is over
    err,         \* the error of the last attempt
    delay,       \* the delay before the next one
    out,         \* the attempt whose operation has written the value last
    value,       \* what the call has returned
    ended,       \* the attempts whose operation has run, with how it ended
    late         \* the attempts whose operation began after Do had returned

retryVars == <<opts, rpc, n, outer, inner, fut, answer, mut, running, rcanceled,
               err, delay, out, value, ended, late>>
loop == <<rpc, n, err, delay, value>>
Numbers == 0 .. opts.attempts - 1
work == <<outer, inner, fut, answer, mut, out, ended, late>>

RetryInit ==
    /\ opts \in Options
    /\ rpc = "top" /\ n = 0
    /\ outer = [k \in Numbers |-> "none"] /\ inner = outer
    /\ fut = outer /\ answer = outer /\ ended = outer
    /\ mut = NoAttempt /\ running = TRUE /\ rcanceled = FALSE
    /\ err = "none" /\ delay = 0 /\ out = NoAttempt /\ value = NoAttempt /\ late = {}

-----------------------------------------------------------------------------
(* Delays; definitions named ..._x are wrong on purpose                    *)

\* The conversion of a float that is too large gives the smallest or, on other
\* machines, the largest number.
Delay_x(attempt) == {Base * Factor ^ attempt}
Delay(attempt) ==
    LET f == Base * Factor ^ attempt
        ds == IF f < 2 ^ (Width - 1) THEN {f} ELSE {-(2 ^ (Width - 1)), 2 ^ (Width - 1) - 1}
    IN  {IF d < Base THEN Base ELSE IF d > MaxDelay THEN MaxDelay ELSE d : d \in ds}

\* In tenths: a negative one leaves d as it is; between 0 and 1 that part of d is
\* random; 0 makes all of it random, as 1 does.
Jittered(d) ==
    CASE opts.jitter < 0 -> {d}
      [] opts.jitter > 0 /\ opts.jitter < 10 -> ((10 - opts.jitter) * d) \div 10 .. d
      [] OTHER -> 0 .. d

-----------------------------------------------------------------------------
(* Do                                                                      *)

EndDo(e) == rpc' = "return" /\ err' = e

\* The loop is over.
Exhausted ==
    /\ rpc = "top" /\ n = opts.attempts
    /\ EndDo(err)
    /\ UNCHANGED <<opts, n, work, running, rcanceled, delay, value>>

\* The budget refuses a retry, never the first call.
NoBudget ==
    /\ rpc = "top" /\ n < opts.attempts /\ n > 0 /\ opts.budget
    /\ EndDo("exhausted")
    /\ UNCHANGED <<opts, n, work, running, rcanceled, delay, value>>

Attempt ==
    /\ rpc = "top" /\ n < opts.attempts
    /\ rpc' = "await"
    /\ outer' = [outer EXCEPT ![n] = "start"]
    /\ UNCHANGED <<opts, n, inner, fut, answer, mut, running, rcanceled, err, delay, out, value,
                   ended, late>>

\* What AwaitContext returns, which is up to chance if both are there.
Seen == (IF fut[n] = "none" THEN {} ELSE {fut[n]}) \cup (IF rcanceled THEN {"canceled"} ELSE {})

\* Success and a permanent error end the loop.
Await ==
    /\ rpc = "await"
    /\ \E e \in Seen :
          IF e \in {"ok", "permanent"} THEN EndDo(e) /\ UNCHANGED delay
          ELSE /\ rpc' = "delay" /\ err' = e
               /\ \E d \in Delay(n) : delay' \in Jittered(d)
    /\ UNCHANGED <<opts, n, work, running, rcanceled, value>>

DelayCanceled ==
    /\ rpc = "delay" /\ rcanceled
    /\ EndDo("canceled") /\ delay' = 0
    /\ UNCHANGED <<opts, n, work, running, rcanceled, value>>

DelayOver ==
    /\ rpc = "delay"
    /\ rpc' = "top" /\ n' = n + 1 /\ delay' = 0
    /\ UNCHANGED <<opts, work, running, rcanceled, err, value>>

\* The deferred running.Store(false); then a ValueRunner reads the value.
StopRunning_x == rpc = "return" /\ rpc' = "read" /\ UNCHANGED <<opts, n, work, running, rcanceled, err, delay, value>>
StopRunning ==
    /\ rpc = "return"
    /\ rpc' = "read" /\ running' = FALSE
    /\ UNCHANGED <<opts, n, work, rcanceled, err, delay, value>>

ReadValue ==
    /\ rpc = "read"
    /\ rpc' = "over"
    /\ value' = IF err = "ok" THEN out ELSE NoAttempt
    /\ UNCHANGED <<opts, n, work, running, rcanceled, err, delay>>

CancelDo ==
    /\ ~rcanceled /\ rpc \notin {"return", "read", "over"}
    /\ rcanceled' = TRUE
    /\ UNCHANGED <<opts, loop, work, running>>

Do == Exhausted \/ NoBudget \/ Attempt \/ Await \/ DelayCanceled \/ DelayOver \/ StopRunning \/ ReadValue

-----------------------------------------------------------------------------
(* The goroutines of an attempt                                            *)

\* callWithTimeout locks and unlocks the mutex, then looks at running; then the
\* time begins.
Barrier(k) ==
    /\ opts.timeout /\ outer[k] = "start" /\ mut = NoAttempt
    /\ outer' = [outer EXCEPT ![k] = "load"]
    /\ UNCHANGED <<opts, loop, running, rcanceled, inner, fut, answer, mut, out, ended, late>>

Load(k) ==
    /\ outer[k] = "load"
    /\ IF running
       THEN /\ outer' = [outer EXCEPT ![k] = "wait"]
            /\ inner' = [inner EXCEPT ![k] = "lock"]
            /\ UNCHANGED fut
       ELSE /\ outer' = [outer EXCEPT ![k] = "end"]
            /\ fut' = [fut EXCEPT ![k] = "ok"]
            /\ UNCHANGED inner
    /\ UNCHANGED <<opts, loop, running, rcanceled, answer, mut, out, ended, late>>

\* Under the mutex, the flag is read once more.  Do may return after that: the
\* operation begins all the same.
Locks(k) ==
    /\ mut = NoAttempt
    /\ IF running THEN mut' = k ELSE UNCHANGED mut

LockInner(k) ==
    /\ inner[k] = "lock" /\ Locks(k)
    /\ inner' = [inner EXCEPT ![k] = IF running THEN "begin" ELSE "end"]
    /\ answer' = [answer EXCEPT ![k] = IF running THEN "none" ELSE "ok"]
    /\ UNCHANGED <<opts, loop, running, rcanceled, outer, fut, out, ended, late>>

LockOuter(k) ==
    /\ ~opts.timeout /\ outer[k] = "start" /\ Locks(k)
    /\ outer' = [outer EXCEPT ![k] = IF running THEN "begin" ELSE "end"]
    /\ fut' = [fut EXCEPT ![k] = IF running THEN "none" ELSE "ok"]
    /\ UNCHANGED <<opts, loop, running, rcanceled, inner, answer, out, ended, late>>

AtBegin(k) == "begin" \in {outer[k], inner[k]}
Begins(k) ==
    /\ AtBegin(k)
    /\ IF opts.timeout THEN inner' = [inner EXCEPT ![k] = "op"] /\ UNCHANGED outer
       ELSE outer' = [outer EXCEPT ![k] = "op"] /\ UNCHANGED inner
    /\ late' = IF rpc \in {"read", "over"} THEN late \cup {k} ELSE late
    /\ UNCHANGED <<opts, loop, running, rcanceled, fut, answer, mut, out, ended>>

\* The operation ends: with success, an error (a panic is one), or one that is
\* not Temporary.
Ends(k) ==
    /\ "op" \in {outer[k], inner[k]}
    /\ \E e \in {"ok", "error", "permanent"} :
          /\ ended' = [ended EXCEPT ![k] = e]
          /\ IF opts.timeout THEN /\ inner' = [inner EXCEPT ![k] = "end"]
                           /\ answer' = [answer EXCEPT ![k] = e]
                           /\ UNCHANGED <<outer, fut>>
             ELSE /\ outer' = [outer EXCEPT ![k] = "end"]
                  /\ fut' = [fut EXCEPT ![k] = e]
                  /\ UNCHANGED <<inner, answer>>
    /\ out' = k /\ mut' = NoAttempt
    /\ UNCHANGED <<opts, loop, running, rcanceled, late>>

\* The inner future is there, its time is over, or the context is.
TimedEnd(k) ==
    /\ outer[k] = "wait"
    /\ \E e \in (IF answer[k] = "none" THEN {} ELSE {answer[k]})
                \cup {"timeout"} \cup (IF rcanceled THEN {"canceled"} ELSE {}) :
          fut' = [fut EXCEPT ![k] = e]
    /\ outer' = [outer EXCEPT ![k] = "end"]
    /\ UNCHANGED <<opts, loop, running, rcanceled, inner, answer, mut, out, ended, late>>

Goroutine(k) == Barrier(k) \/ Load(k) \/ LockInner(k) \/ LockOuter(k) \/ Begins(k) \/ TimedEnd(k)

RetryNext == Do \/ CancelDo \/ \E k \in Numbers : Goroutine(k) \/ Ends(k)
RetrySpec == RetryInit /\ [][RetryNext]_retryVars

Most == CHOOSE a \in {o.attempts : o \in Options} : \A o \in Options : o.attempts <= a

\* Goroutines go on, and an operation returns at last.
RetryFairness ==
    /\ WF_retryVars(Do)
    /\ \A k \in 0 .. Most - 1 : WF_retryVars(k \in Numbers /\ Goroutine(k)) /\ WF_retryVars(k \in Numbers /\ Ends(k))

-----------------------------------------------------------------------------
(* Properties                                                              *)

\* What Do returns is what the operation of its last attempt has returned, or
\* that its time, the context or the budget was over.
ErrorIsTrue ==
    rpc \in {"return", "read", "over"} =>
        LET last == IF n = opts.attempts THEN n - 1 ELSE n
        IN  /\ err \in {"ok", "permanent", "error"} => ended[last] = err
            /\ err = "timeout" => opts.timeout
            /\ err = "canceled" => rcanceled
            /\ err = "exhausted" => opts.budget /\ ended[n] = "none" /\ n > 0

\* Once Do has returned, one operation may begin, no more: that of an attempt
\* that was given up, and had seen the flag under the mutex before.  And the
\* attempts are never more than were allowed, one operation each.
OneLate ==
    /\ \A j, k \in late : j = k
    /\ \A k \in late : rcanceled \/ fut[k] \in {"timeout", "canceled"}
    /\ \A k \in Numbers : k > n => ended[k] = "none" /\ mut # k

\* "returning the successful result": the value is that of the operation that
\* succeeded, unless one of an attempt that was given up has run after it.
GivenUp(k) == k \in 0 .. n - 1 /\ (rcanceled \/ fut[k] \in {"timeout", "canceled"})
ValueIsTrue ==
    rpc = "over" /\ err = "ok" =>
        \/ value = n
        \/ GivenUp(value)

\* "The delay is capped at Max", with any jitter, and although it overflows.
DelayIsCapped == delay \in 0 .. MaxDelay

RetryIsTrue == ErrorIsTrue /\ OneLate /\ ValueIsTrue /\ DelayIsCapped

\* Do returns if the operation does: no attempt waits for the mutex for ever.
DoOver == rpc = "over"
DoReturns == <>DoOver

=============================================================================
