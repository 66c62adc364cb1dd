----------------------------- MODULE MCMachines -----------------------------
(***************************************************************************)
(* For TLC: the state machines of statemachine/ (the engine, the composite *)
(* actions, the rules and fixes for configurations), the layers of closer/ *)
(* and using/, the resolvers of dns/, the environment of envutil/ and      *)
(* startup/, the contexts and the transports, each on its own; part says   *)
(* which of them runs.                                                     *)
(***************************************************************************)
EXTENDS Engine, Actions, Closing, Using, Environment, Transport, TLC

CONSTANTS MaxFixes, Dialers, MaxCNAMEDepth, MaxAttempts, MaxNow

VARIABLES part,
    config, fix,
    world, setup, now, cache, dpc, ask, todo, records, tries, ips, late, conn, dcalls,
    readers, whole, refused, was, turns,
    ctxs, ended, gone, vals, first, swapped, sets

-----------------------------------------------------------------------------
(* Machines for the engine, after the fixtures of statemachine/testing     *)

If(op, val) == [op |-> op, key |-> "k", val |-> val]
Edge(from, to, cond) == [from |-> from, to |-> to, cond |-> cond]
Act(next) == [type |-> "action", next |-> next]
End == [type |-> "final"]
Machine(states, transitions) ==
    [initial |-> "start", finals |-> {"end"}, cancelable |-> TRUE,
     states |-> states, transitions |-> transitions]

Linear == Machine(
    [start |-> Act(""), middle |-> Act(""), end |-> End],
    <<Edge("start", "middle", If("always", "")), Edge("middle", "end", If("always", ""))>>)
Loop == Machine(
    [start |-> Act("end"), retry |-> Act("retry"), end |-> End],
    <<Edge("start", "retry", If("always", "")), Edge("retry", "retry", If("not", "")),
      Edge("retry", "end", If("other", ""))>>)
Branching == [Machine(
    [start |-> [type |-> "choice", choices |-> {"left", "right", "nowhere", "end"}],
     left |-> Act("right"), right |-> Act("start"), end |-> End],
    <<Edge("start", "left", If("==", "x")), Edge("start", "right", If("!=", "x")),
      Edge("left", "end", If("is", "")), Edge("left", "right", If("==", "true")),
      Edge("right", "start", If("not", ""))>>) EXCEPT !.cancelable = FALSE]
Custom == Machine(
    [start |-> [type |-> "custom",
                answers |-> {[NoResult EXCEPT !.next = "b", !.data = "k" :> "true"],
                             [NoResult EXCEPT !.next = "b", !.complete = TRUE]}],
     b |-> Act("start"), end |-> Act("b")],
    <<Edge("start", "b", If("is", "")), Edge("start", "end", If("always", "")),
      Edge("b", "start", If("always", "")), Edge("start", "gone", If("always", "")),
      Edge("end", "gone", If("always", ""))>>)

TestMachines == {Linear, Loop, Branching, Custom}

-----------------------------------------------------------------------------
(* Trees of composite actions                                              *)

Node(kind, kids) ==
    [kind |-> kind, kids |-> kids, key |-> "x", max |-> 2, lenient |-> FALSE,
     required |-> {"a"}, merge |-> "all", checked |-> FALSE]
Leaf(key) == [Node("leaf", <<>>) EXCEPT !.key = key]
AB == <<"a", "b">>
CD == <<"c", "d">>
Flat(root) == "root" :> root @@ "a" :> Leaf("x") @@ "b" :> Leaf("y")
Only(root, a) ==
    "root" :> root @@ "a" :> a @@ [n \in Range(a.kids) |-> Leaf(IF n = "c" THEN "x" ELSE "y")]
Deep(root, a) == Only(root, a) @@ "b" :> Leaf("y")
TestTrees ==
    {Flat(Node(k, AB)) :
        k \in {"sequence", "conditional", "try", "branch", "progressive", "parallel"}}
    \cup {Deep(Node("parallel", AB), Node("validated", CD)),
          Deep([Node("validated", AB) EXCEPT !.checked = TRUE], Node("parallel", CD)),
          Deep([Node("validated", AB) EXCEPT !.checked = TRUE, !.lenient = TRUE], Node("try", CD)),
          Only(Node("retry", <<"a">>), Node("sequence", CD)),
          Only([Node("retry", <<"a">>) EXCEPT !.max = 0], Node("branch", CD)),
          Only([Node("backoff", <<"a">>) EXCEPT !.max = 0], Node("branch", CD)),
          Deep(Node("progressive", AB), Node("retry", <<"c">>)),
          Deep([Node("merge", AB) EXCEPT !.merge = "first"], Node("retry", <<"c">>)),
          Deep([Node("merge", AB) EXCEPT !.merge = "majority", !.lenient = TRUE], Node("merge", CD)),
          Deep(Node("merge", AB), Node("parallel", CD))}

-----------------------------------------------------------------------------
(* Configurations: three states that act, one that ends                    *)

State(n, type) ==
    [name |-> n, type |-> type, onError |-> "",
     actions |-> IF type = "action" THEN <<"noop">> ELSE <<>>]
To(n, l) == [i \in DOMAIN l |-> Edge(n, l[i], "always")]
All == {"s", "t", "u", "f"}
Lists == {<<>>} \cup {<<x>> : x \in All} \cup {<<x, y>> : x, y \in All}
Configs ==
    {[initial |-> "s", finals |-> fs,
      states |-> <<State("s", "action"), State("t", "action"), State("u", "action"),
                   State("f", "final")>>,
      transitions |-> To("s", a) \o To("t", b) \o To("u", c)] :
        a \in Lists, b \in Lists, c \in {l \in Lists : Len(l) < 2}, fs \in {<<"f">>, <<"t">>}}

V == INSTANCE Validator WITH Fresh <- "z"

-----------------------------------------------------------------------------
(* Closers and resources                                                   *)

\* Chains of one to three wrappers, innermost first; lists with each kind of closer.
TestWishes == {<<>>, <<"once", "once">>, <<"panic", "panic">>, <<"cancelable", "once">>,
           <<"once", "panic">>, <<"panic", "once">>, <<"once", "cancelable">>,
           <<"once", "writer">>, <<"panic", "once", "reader">>}
TestLists == {<<"func", "nil", "channel">>, <<"func">>}
TestKinds == {"nil", "File", "OpenFile", "Writer", "TempDir", "TempFile"}

-----------------------------------------------------------------------------
(* Servers of dns/: one that follows CNAMEs, one that knows the zone in    *)
(* another order and with other TTLs, one that lies; a circle with an    *)
(* address beside it; a long chain                                         *)

Rec(name, type, value, ttl) == [name |-> name, type |-> type, value |-> value, ttl |-> ttl]
Chain == <<Rec("h", "CNAME", "g", 1), Rec("g", "A", "a4", 3), Rec("g", "AAAA", "a6", 1)>>
Older == <<Rec("g", "A", "a4", 1), Rec("h", "CNAME", "g", 1), Rec("g", "AAAA", "a6", 2)>>
Lie == <<Rec("h", "A", "p4", 4)>>
Circle == <<Rec("h", "CNAME", "g", 1), Rec("g", "CNAME", "f", 1), Rec("f", "CNAME", "g", 1),
            Rec("g", "CNAME", "e", 1), Rec("e", "A", "a4", 1)>>
Long == <<Rec("h", "CNAME", "g", 1), Rec("g", "CNAME", "f", 1), Rec("f", "CNAME", "e", 1),
          Rec("e", "A", "a4", 1)>>
Server(zone, rec) == [zone |-> zone, recursive |-> rec]
AnyWorld == [x |-> Server(Chain, TRUE), y |-> Server(Older, FALSE), z |-> Server(Lie, FALSE)]
Setup(servers, strategy, filter, cached) ==
    [servers |-> servers, strategy |-> strategy, filter |-> filter, cached |-> cached,
     minTTL |-> 1, maxTTL |-> 3]
AnySetup == Setup(<<"x", "y", "z">>, "consensus", FALSE, TRUE)

S == INSTANCE Resolve WITH
        Worlds <- {AnyWorld,
                   [x |-> Server(Circle, FALSE), y |-> Server(Circle, TRUE),
                    z |-> Server(Circle, TRUE)],
                   [x |-> Server(Long, FALSE), y |-> Server(Long, TRUE), z |-> Server(Lie, FALSE)]},
        Setups <- {AnySetup, Setup(<<"x", "z">>, "race", TRUE, TRUE),
                   Setup(<<"z", "y">>, "fallback", FALSE, FALSE),
                   Setup(<<"x", "z">>, "compare", TRUE, FALSE)},
        Host <- "h", Networks <- {"tcp", "tcp4", "tcp6"}, Addrs <- {"a6", "p4"},
        Family <- [a4 |-> 4, a6 |-> 6, p4 |-> 4], Rejected <- {"p4"}, Rogue <- "z",
        Callers <- Dialers, MaxCalls <- 2, maxCachedTTLSeconds <- 2, Weather <- {"up", "cut", "short"},
        pc <- dpc, calls <- dcalls, n <- tries
dns == <<world, setup, now, cache, dpc, ask, todo, records, tries, ips, late, conn, dcalls>>

-----------------------------------------------------------------------------
(* Starts of a process: files that overlap, with and without override; one *)
(* that cannot be read; no file at all; an audit file that cannot be opened*)

EnvFile(variables) == [ok |-> TRUE, vars |-> variables]
BadFile == [ok |-> FALSE, vars |-> <<>>]
FileX == EnvFile("x" :> "1" @@ "y" :> "1")
FileY == EnvFile("y" :> "2")
Start(files, override, record, dedup, watching, auditing, debug, asks) ==
    [files |-> files, allowOverride |-> override, record |-> record, dedup |-> dedup,
     observers |-> watching, audit |-> auditing, debug |-> debug, asks |-> asks]
AnyStart == Start(<<FileX, FileY>>, FALSE, FALSE, TRUE, <<"o", "q">>, "ok", FALSE, <<"x">>)

TestStarts ==
    {AnyStart,
     Start(<<FileX, BadFile>>, TRUE, TRUE, FALSE, <<"o">>, "no", FALSE, <<>>),
     Start(<<FileY, FileX>>, TRUE, FALSE, FALSE, <<>>, "no", TRUE, <<"x">>),
     Start(<<>>, FALSE, FALSE, TRUE, <<>>, "no", TRUE, <<"x">>),
     Start(<<FileY>>, FALSE, FALSE, TRUE, <<>>, "cannot", FALSE, <<>>)}
TestEnvironments == {[x |-> "0", y |-> ""]}

-----------------------------------------------------------------------------
(* Readers of the environment; contexts; callers of Get for a transport    *)

AnyPair == <<"good", "bad">>
R == INSTANCE Readers WITH
        Vars <- [1 .. 2 -> {"unset", "good", "bad", "empty"}]
                \cup {<<"good", "good", "good", "good", "bad">>,
                      <<"good", "bad", "unset", "good", "good", "empty">>},
        Overrides <- {1}, MaxOps <- 5, n <- turns
reading == <<readers, whole, refused, was, turns>>

C == INSTANCE Contexts WITH Keys <- {"k"}, Values <- {"v"}, Nil <- "", MaxCtx <- 4, MaxSets <- 2,
        closed <- ended, loader <- vals
ctx == <<ctxs, ended, gone, vals, first, swapped, sets>>

TestOptions == {{}, {"tls"}, {"amp", "public", "tls"}, {"amp", "tls"}, {"public"},
                {"enhanced", "cache"}, {"unpooled", "raw"}}
TestContexts == {[transport |-> t, pooled |-> p] : t \in {"none", "other"}, p \in BOOLEAN}
AnyAsk == [opts |-> {}, override |-> "none", ctx |-> [transport |-> "none", pooled |-> TRUE]]

-----------------------------------------------------------------------------
\* A part that does not run has one state.
Idle(p, state) == IF part = p THEN TRUE ELSE state
Init ==
    /\ part \in {"engine", "actions", "validator", "closing", "using", "dns", "environment",
                 "readers", "contexts", "transport"}
    /\ EngineInit /\ Idle("engine", machine = Linear /\ values["k"] = "true")
    /\ ActionsInit /\ Idle("actions", tree = Flat(Node("sequence", AB))
                                /\ data["main"] = [k \in {"x", "y"} |-> 0])
    /\ Idle("validator", config = CHOOSE c \in Configs : TRUE) /\ V!Init
    /\ Idle("closing", layers = <<>> /\ list = <<"func">>) /\ ClosingInit
    /\ Idle("using", res = "File") /\ UsingInit
    /\ Idle("dns", world = AnyWorld /\ setup = AnySetup) /\ S!Init
    /\ Idle("environment", opts = AnyStart) /\ EnvironmentInit
    /\ Idle("readers", readers = [i \in {1, 2} |-> R!get(AnyPair[i], FALSE)]) /\ R!Init
    /\ C!Init
    /\ Idle("transport", want = [c \in Clients |-> AnyAsk]) /\ TransportInit

\* Of all that the parts have, only what belongs to p changes.
Keep(p, q, state) == IF p = q THEN TRUE ELSE UNCHANGED state
Alone(p) ==
    /\ part' = part
    /\ Keep(p, "engine", engine) /\ Keep(p, "actions", actionVars)
    /\ Keep(p, "validator", <<config, fix>>) /\ Keep(p, "closing", closingVars)
    /\ Keep(p, "using", usingVars) /\ Keep(p, "dns", dns)
    /\ Keep(p, "environment", environmentVars) /\ Keep(p, "readers", reading)
    /\ Keep(p, "contexts", ctx) /\ Keep(p, "transport", transportVars)

Next ==
    \/ part = "engine" /\ EngineNext /\ Alone("engine")
    \/ part = "actions" /\ ActionsNext /\ Alone("actions")
    \/ part = "validator" /\ V!Next /\ Alone("validator")
    \/ part = "closing" /\ ClosingNext /\ Alone("closing")
    \/ part = "using" /\ UsingNext /\ Alone("using")
    \/ part = "dns" /\ S!Next /\ Alone("dns")
    \/ part = "environment" /\ EnvironmentNext /\ Alone("environment")
    \/ part = "readers" /\ R!Next /\ Alone("readers")
    \/ part = "contexts" /\ C!Next /\ Alone("contexts")
    \/ part = "transport" /\ TransportNext /\ Alone("transport")

vars == <<part, engine, actionVars, config, fix, closingVars, usingVars, dns, environmentVars,
          reading, ctx, transportVars>>

\* The fairness of Engine and of Actions, each for the part that runs.
Spec ==
    /\ Init /\ [][Next]_vars
    /\ WF_engine(part = "engine" /\ EngineStep)
    /\ WF_actionVars(part = "actions" /\ ActionsNext)

-----------------------------------------------------------------------------
\* The properties of the modules, each for the part that runs.
RulesAreTrue == part = "validator" => V!RulesAreTrue
LookupsAreTrue ==
    /\ part = "dns" => S!ResolveIsTrue
    /\ part = "readers" => R!ReadersAreTrue
LifetimesAreTrue ==
    /\ part = "contexts" => C!ContextsAreTrue
    /\ UsingIsTrue /\ TransportIsTrue

\* "All-or-nothing: if any Reader has an error or is missing, the result will too".
CombineIsAllOrNothing == part = "readers" => R!CombineIsAllOrNothing

\* What a step of a merge and of a fix may never do.
WorkIsKept == MergeKeeps /\ V!FixesKeepValidity

\* Every execution that is canceled, and every composite action, comes to an end.
MachinesEnd == CancelEnds /\ (part = "actions" => ActionsEnd)

=============================================================================
