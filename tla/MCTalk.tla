------------------------------ MODULE MCTalk ------------------------------
(***************************************************************************)
(* How goroutines hand each other messages and results, for TLC: an actor, *)
(* with every kind of inbox, bounded and not, and futures, two sources and *)
(* one derived from them, the first source with two goroutines that        *)
(* fulfill it; each on its own: part says which of them runs.              *)
(***************************************************************************)
EXTENDS Actor, Future, TLC

CONSTANTS c1, c2, c3, Parts

VARIABLES part

\* A call of each kind, with weights that tie in a bucket of gpq only.
KindThree == c1 :> "request" @@ c2 :> "requestCtx" @@ c3 :> "send"
WeightThree == c1 :> 0 @@ c2 :> 2 @@ c3 :> 0
KindTwo == c1 :> "request" @@ c2 :> "send"
WeightTwo == c1 :> 0 @@ c2 :> 0

Box(k, b) == [kind |-> k, bound |-> b]
AllInboxes ==
    {Box("unbuffered", 0), Box("buffered", 1), Box("buffered", 2), Box("infinite", 0),
     Box("heap", 0), Box("heap", 1), Box("gpq", 0), Box("gpq", 1)}

\* Callbacks on a source and on the derived future.
FutureCompleters == 1 :> {"p", "q"} @@ 2 :> {"r"}
FutureOn == "v" :> 1 @@ "w" :> 0
FutureHears == "v" :> "success" @@ "w" :> "error"

actor == vars
future == futureVars

-----------------------------------------------------------------------------
PartsInit ==
    /\ part \in Parts
    /\ Init /\ (part # "actor" => inbox = Box("unbuffered", 0))
    /\ FutureInit /\ (part # "future" => mode = "map")

PartsNext ==
    \/ part = "actor" /\ Next /\ UNCHANGED <<part, future>>
    \/ part = "future" /\ FutureNext /\ UNCHANGED <<part, actor>>

\* The fairness of Actor and of Future, each for the part that runs.
PartsSpec ==
    /\ PartsInit /\ [][PartsNext]_<<part, actor, future>>
    /\ WF_actor(part = "actor" /\ LoopStep) /\ WF_actor(part = "actor" /\ PumpStep)
    /\ WF_actor(part = "actor" /\ StopClose)
    /\ \A c \in Callers :
          /\ WF_actor(part = "actor" /\ SendPanic(c)) /\ WF_actor(part = "actor" /\ Enqueue(c))
          /\ WF_actor(part = "actor" /\ TakeDirect(c))
    /\ \A g \in {"p", "q", "r", "comb"} : WF_future(part = "future" /\ FulfillStep(g))
    /\ \A g \in {"p", "q", "r"} :
          WF_future(part = "future" /\ \E ok \in BOOLEAN : Finish(g, ok))
    /\ WF_future(part = "future" /\ CombStep)

-----------------------------------------------------------------------------
\* Nothing that was accepted or begun is left: the messages of an actor, its
\* end, every future and the callbacks that fit its result.
TalkEnds ==
    /\ StopEnds /\ AcceptedIsHandled
    /\ part = "future" => AllFulfilled
    /\ CallbacksRun

=============================================================================
