------------------------------ MODULE MCCalls ------------------------------
(***************************************************************************)
(* What runs the functions of a caller, for TLC: the executor of           *)
(* simultaneously, the functions that map a container with it, retry.Do    *)
(* and the budget of retries, a lazy value, a pool of connections that are *)
(* dialed, and the hooks and tasks of a shutdown.  Each on its own: part   *)
(* says which of them runs.                                                *)
(***************************************************************************)
EXTENDS Simultaneously, Retry, Budget, Lazy, ConnPool, Shutdown, TLC

CONSTANTS c1, c2, Parts, Nil

VARIABLES part,
    fn, own, hashed, input, exec, gpc, task, outputs, filled, gcanceled, goutside, ret

executor == vars
gather == <<fn, own, hashed, input, exec, gpc, task, outputs, filled, gcanceled, goutside, ret>>
retry == retryVars
budget == budgetVars
lazy == lazyVars
conn_pool == connVars
down == downVars
small == <<lazy, conn_pool, down>>

-----------------------------------------------------------------------------
SizeTwoOne == c1 :> 2 @@ c2 :> 1
SizeThree == c1 :> 3

\* Calls side by side; one, or a Close, in a callback of the other.
Apart == [g \in Callers \cup Closers |-> Outside]
Nested == {Apart, [Apart EXCEPT ![c2] = <<c1, 1>>]} \cup
          {[Apart EXCEPT ![k] = <<c1, 1>>] : k \in Closers}
SideBySide == {Apart}

\* j and k have the same hash; u is of a type that has none.
Pair(k, v) == [key |-> k, value |-> v]
Hash == [k \in {"j", "k", "l", "m", "u"} |->
            CASE k \in {"j", "k"} -> 1 [] k = "l" -> 2 [] OTHER -> 3]
Inputs == {Nil, <<>>, <<Pair("j", 1), Pair("l", 2)>>,
           <<Pair("j", 1), Pair("l", 2), Pair("m", 1)>>, <<Pair("u", 1)>>}
Answers == [k \in {"j", "l", "m", "u"} |->
   CASE k = "j" -> {<<Pair("j", 1)>>, <<>>, <<Pair("l", 1), Pair("j", 1)>>}
     [] k = "l" -> {<<Pair("j", 2)>>, <<Pair("l", 2)>>}
     [] OTHER -> {<<Pair("l", 3)>>, <<Pair("k", 3), Pair("l", 3)>>, <<Pair("u", 1)>>}]

G == INSTANCE Gather WITH Unhashable <- {"u"}, pc <- gpc, canceled <- gcanceled,
                          outside <- goutside, out <- filled

Opts(a, t, j, b) == [attempts |-> a, timeout |-> t, jitter |-> j, budget |-> b]
RetryOptions == {Opts(2, TRUE, 5, TRUE), Opts(3, FALSE, 0, FALSE), Opts(2, FALSE, -10, TRUE)}

Half == <<1, 2>>
FewCalls == [initial |-> 3, retried |-> 2]

-----------------------------------------------------------------------------
PartsInit ==
    /\ part \in Parts
    /\ Init /\ (part # "executor" => within = Apart)
    /\ G!Init /\ (part # "gather" => fn = G!MapSlice /\ own /\ input = Nil)
    /\ RetryInit /\ (part # "retry" => opts = Opts(2, FALSE, -10, TRUE))
    /\ BudgetInit
    /\ LazyInit /\ (part # "lazy" => lkind = "of")
    /\ ConnInit
    /\ DownInit /\ (part # "down" => kind = "handler")

PartsNext ==
    \/ part = "executor" /\ Next /\ UNCHANGED <<part, gather, retry, budget, small>>
    \/ part = "gather" /\ G!Next /\ UNCHANGED <<part, executor, retry, budget, small>>
    \/ part = "retry" /\ RetryNext /\ UNCHANGED <<part, executor, gather, budget, small>>
    \/ part = "budget" /\ BudgetNext /\ UNCHANGED <<part, executor, gather, retry, small>>
    \/ /\ UNCHANGED <<part, executor, gather, retry, budget>>
       /\ \/ part = "lazy" /\ LazyNext /\ UNCHANGED <<conn_pool, down>>
          \/ part = "conn" /\ ConnNext /\ UNCHANGED <<lazy, down>>
          \/ part = "down" /\ DownNext /\ UNCHANGED <<lazy, conn_pool>>

Spec7 == PartsInit /\ [][PartsNext]_<<part, executor, gather, retry, budget, small>>

\* The fairness of the parts, each for the one that runs.  What waits for a
\* token or for a mutex that others take again and again gets it at last: one
\* strong fairness for the i-th such goroutine of each part, as only one part
\* runs, and only one goroutine of a shutdown cleans up.
Runs == part = "executor" /\ ~crashed
Getting == part = "lazy"
Ending == part = "down" /\ Alive
Turn == c1 :> 1 @@ c2 :> 2 @@ "a" :> 1 @@ "b" :> 2 @@ "c" :> 3
Obtains(i) ==
    \/ /\ Runs /\ UNCHANGED <<lazy, down>>
       /\ \/ \E c \in Callers : Turn[c] = i /\ Active(c) /\ SelectToken(c)
          \/ \E k \in Closers : i = 3 /\ CloserStep(k)
    \/ /\ Getting /\ UNCHANGED <<executor, down>>
       /\ \E g \in Getters : Turn[g] = i /\ Enter(g)
    \/ /\ Ending /\ UNCHANGED <<executor, lazy>>
       /\ \/ \E c \in Cleaners : i = 1 /\ CleanupBegins(c)
          \/ \E t \in Submitters : i = 2 /\ TaskRegisters(t)
PartsFair ==
    /\ Spec7
    /\ \A i \in 1 .. 3 : SF_<<executor, lazy, down>>(Obtains(i))
    /\ \A c \in Callers : WF_vars(Runs /\ CallerStep(c))
    /\ \A t \in Tasks : WF_vars(Runs /\ TaskStep(t))
    /\ WF_gather(part = "gather" /\ G!Step)
    /\ WF_retry(part = "retry" /\ Do)
    /\ \A k \in 0 .. Most - 1 :
          /\ WF_retry(part = "retry" /\ k \in Numbers /\ Goroutine(k))
          /\ WF_retry(part = "retry" /\ k \in Numbers /\ Ends(k))
    /\ \A g \in Getters : WF_lazy(Getting /\ GetStep(g))
    /\ WF_down(Ending /\ Handler) /\ WF_down(Ending /\ ShutdownSends)
    /\ WF_down(Ending /\ Timeout)
    /\ \A c \in Cleaners : WF_down(Ending /\ Cleanup(c))
    /\ \A t \in Submitters : WF_down(Ending /\ TaskEnds(t)) /\ WF_down(Ending /\ PoolMade(t))

-----------------------------------------------------------------------------
\* The properties of the modules.
GatherIsTrue == G!GatherIsTrue

\* Every call comes to an end: of DoCtx, of the functions that map a container
\* and of retry.Do, which begin at once; of Close and of Get of a lazy value,
\* when they have begun; and so does a shutdown.  Only callbacks that call their
\* own executor can keep each other from it.
AllReturn ==
    \/ <>[]Starved
    \/ /\ <>(/\ part = "executor" => CallsOver
             /\ part = "gather" => G!GatherOver
             /\ part = "retry" => DoOver)
       /\ Closing \/ ~GetsOver \/ channel # "open" ~>
             /\ part = "executor" => ~Closing
             /\ part = "lazy" => GetsOver
             /\ part = "down" => ShutdownOver

=============================================================================
