------------------------------- MODULE Budget -------------------------------
(***************************************************************************)
(* retry/budget.go: a Budget lets every first call through and counts the  *)
(* calls and the retries of the last while in buckets of time; a retry is  *)
(* refused while there are too many.  Time goes in ticks, so many to a     *)
(* bucket; rates are fractions <<calls, time>> of integers, calls in parts *)
(* of a tick as well.                                                      *)
(***************************************************************************)
EXTENDS Integers, Sequences, FiniteSets

CONSTANTS
    BucketLength,   \* ticks of a bucket
    BucketNum,      \* buckets of the window
    RateLimit,      \* Budget.Rate, in calls per tick: <<calls, ticks>>
    RatioLimit,     \* Budget.Ratio: <<retries, calls>>
    MaxTime,        \* bound on the time
    MaxCalls        \* bound on the calls and on the retries: [initial, retried]

ASSUME BudgetAssumption ==
    /\ BucketLength \in Nat \ {0} /\ BucketNum \in Nat \ {0}
    /\ RateLimit \in Nat \X (Nat \ {0}) /\ RatioLimit \in Nat \X (Nat \ {0})
    /\ MaxTime \in Nat

VARIABLES
    now,        \* the time
    rates,      \* the movingRate of calls and of retries: [counts, lastUpdate]
    events,     \* the times of the calls and of the retries that went through
    sent,       \* what sendOK has said last: [retry, ok]
    first       \* when each movingRate was first used, or Never

budgetVars == <<now, rates, events, sent, first>>

Never == -1
Kinds == {"initial", "retried"}
Fresh == [counts |-> <<>>, lastUpdate |-> Never]

BudgetInit ==
    /\ now = 0
    /\ rates = [k \in Kinds |-> Fresh]
    /\ events = [k \in Kinds |-> <<>>]
    /\ first = [k \in Kinds |-> Never]
    /\ sent = [retry |-> FALSE, ok |-> TRUE]

-----------------------------------------------------------------------------
(* movingRate; definitions named ..._x are wrong on purpose                *)

timeRoundDown(t) == t - (t % BucketLength)

\* New buckets come, old ones go; one more than the window is kept.
shift(counts, n) ==
    LET new == IF n > BucketNum + 1 THEN BucketNum + 1 ELSE n
        all == counts \o [i \in 1 .. new |-> 0]
        del == Len(all) - (BucketNum + 1)
    IN  IF del > 0 THEN SubSeq(all, del + 1, Len(all)) ELSE all

\* How many ends of buckets have gone by.
Crossed(r, t) == (timeRoundDown(t) - timeRoundDown(r.lastUpdate)) \div BucketLength

forward_x(r, t) ==
    IF r.lastUpdate = Never THEN [counts |-> <<0>>, lastUpdate |-> t]
    ELSE IF Crossed(r, t) = 0 THEN r
    ELSE [counts |-> shift(r.counts, 1), lastUpdate |-> t]
forward(r, t) ==
    [counts |-> IF r.lastUpdate = Never THEN <<0>>
                ELSE IF timeRoundDown(t) <= r.lastUpdate THEN r.counts
                ELSE shift(r.counts, Crossed(r, t)),
     lastUpdate |-> t]

Add(r, t, k) ==
    LET f == forward(r, t) IN [f EXCEPT !.counts[Len(f.counts)] = @ + k]

Total(s) ==
    LET upTo[i \in 0 .. Len(s)] == IF i = 0 THEN 0 ELSE upTo[i - 1] + s[i]
    IN  upTo[Len(s)]

\* Of the oldest bucket of a full history only the part in the window counts;
\* in parts of a tick.
count(r) ==
    IF Len(r.counts) <= BucketNum THEN BucketLength * Total(r.counts)
    ELSE (BucketLength - (r.lastUpdate % BucketLength)) * Head(r.counts)
         + BucketLength * Total(Tail(r.counts))

second(r) ==
    IF Len(r.counts) <= BucketNum
    THEN (Len(r.counts) - 1) * BucketLength + (r.lastUpdate % BucketLength)
    ELSE BucketNum * BucketLength

\* Rate, of a movingRate that is at the time asked for: a fraction, whose
\* denominator is zero at the start of the first bucket.
Rate(r) == <<count(r), BucketLength * second(r)>>

\* x > y for floating-point numbers: x / 0 is infinite, and 0 / 0 and what comes
\* of two infinite ones compare as false.
Greater(x, y) == IF x[2] = 0 THEN x[1] > 0 ELSE x[1] * y[2] > y[1] * x[2]

\* x / y of two rates.
Quotient(x, y) ==
    CASE x[2] = 0 /\ (x[1] = 0 \/ y[2] = 0) -> <<0, 0>>
      [] x[2] = 0 /\ x[1] # 0 /\ y[2] # 0 -> <<1, 0>>
      [] x[2] # 0 /\ y[2] = 0 -> IF y[1] = 0 THEN <<0, 0>> ELSE <<0, 1>>
      [] OTHER -> <<x[1] * y[2], y[1] * x[2]>>

-----------------------------------------------------------------------------
(* sendOK                                                                  *)

Refuses(i, r) == Greater(Rate(i), RateLimit) /\ Greater(Quotient(Rate(r), Rate(i)), RatioLimit)

Here(k) == Len(events[k]) < MaxCalls[k]
Used(k) == IF first[k] = Never THEN now ELSE first[k]

SendInitial ==
    /\ Here("initial")
    /\ rates' = [rates EXCEPT !["initial"] = Add(@, now, 1)]
    /\ events' = [events EXCEPT !["initial"] = Append(@, now)]
    /\ first' = [first EXCEPT !["initial"] = Used("initial")]
    /\ sent' = [retry |-> FALSE, ok |-> TRUE]
    /\ UNCHANGED now

SendRetry ==
    LET i == forward(rates["initial"], now)
        r == forward(rates["retried"], now)
        ok == ~Refuses(i, r)
    IN  /\ Here("retried")
        /\ rates' = [initial |-> i, retried |-> IF ok THEN Add(r, now, 1) ELSE r]
        /\ events' = IF ok THEN [events EXCEPT !["retried"] = Append(@, now)] ELSE events
        /\ first' = [k \in Kinds |-> Used(k)]
        /\ sent' = [retry |-> TRUE, ok |-> ok]
        /\ UNCHANGED now

\* Time goes on, sometimes for long.
Tick(d) ==
    /\ now + d <= MaxTime
    /\ now' = now + d
    /\ UNCHANGED <<rates, events, sent, first>>

BudgetNext == SendInitial \/ SendRetry \/ \E d \in {1, BucketLength, BucketNum * BucketLength} : Tick(d)
BudgetSpec == BudgetInit /\ [][BudgetNext]_budgetVars

-----------------------------------------------------------------------------
(* Properties                                                              *)

\* The start of bucket i of a movingRate, and the events in it.
BucketStart(k, i) ==
    timeRoundDown(rates[k].lastUpdate) - (Len(rates[k].counts) - i) * BucketLength
InBucket(k, i) ==
    Cardinality({j \in DOMAIN events[k] :
        events[k][j] >= BucketStart(k, i) /\ events[k][j] < BucketStart(k, i) + BucketLength})

\* Whatever gaps there are between the calls, each bucket holds the number of the
\* events in its time, the first bucket is that of the first use or the one the
\* window begins in, and so the assertion that stops forward never fails.
WindowIsTrue ==
    \A k \in Kinds :
        LET r == rates[k]
        IN  r.lastUpdate # Never =>
            /\ \A i \in DOMAIN r.counts : r.counts[i] = InBucket(k, i)
            /\ Len(r.counts) <= BucketNum + 1
            /\ Len(r.counts) <= BucketNum => BucketStart(k, 1) = timeRoundDown(first[k])
            /\ timeRoundDown(now) > r.lastUpdate => Crossed(r, now) > 0

\* A call is never refused; a retry only if some retry was let through in the
\* window, and calls have come faster than the limit.
RefusalIsDue ==
    ~sent.ok => /\ sent.retry
                /\ count(rates["retried"]) > 0
                /\ Greater(Rate(rates["initial"]), RateLimit)

BudgetIsTrue == WindowIsTrue /\ RefusalIsDue

=============================================================================
