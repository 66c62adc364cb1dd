----------------------------- MODULE Validator -----------------------------
(***************************************************************************)
(* statemachine/config.go and builder.go, the rules and the fixes of       *)
(* statemachine/validator.  A configuration is data: an initial state,     *)
(* final states, states and transitions, in the order they were written.   *)
(* The rules say what is wrong with it, and fixes edit it, one after the   *)
(* other.  Texts of messages, names and suggestions are left out.          *)
(***************************************************************************)
EXTENDS Naturals, Sequences, FiniteSets
LOCAL INSTANCE SequencesExt

CONSTANTS
    Configs,    \* the configurations to start from
    Fresh,      \* a name that no state has
    MaxFixes    \* bound on the fixes applied

VARIABLES
    config,     \* [initial, finals, states, transitions]
    fix         \* the fixes that were tried: [name, state, ok] each, with the state that is
                \* removed, renamed or marked, or that a transition is added to

vars == <<config, fix>>

Names(c) == {s.name : s \in Range(c.states)}
Edges(c) == {<<t.from, t.to>> : t \in Range(c.transitions)}

-----------------------------------------------------------------------------
(* Config.Validate, the engine and the builder                             *)

\* stateExists: of the initial state, the final states, and both ends of each
\* transition.
StatesExist(c) ==
    /\ c.initial \in Names(c)
    /\ Range(c.finals) \subseteq Names(c)
    /\ \A e \in Edges(c) : {e[1], e[2]} \subseteq Names(c)

\* What the loading of a configuration demands.
Validate(c) ==
    /\ c.finals # <<>> /\ c.states # <<>>
    /\ StatesExist(c)
    /\ \A i, j \in DOMAIN c.states : i # j => c.states[i].name # c.states[j].name
    /\ \A s \in Range(c.states) :
          /\ s.type # "conditional"
          /\ s.type = "action" => s.actions # <<>>
          /\ \A k \in Range(s.actions) : k \notin {"validation", "conditional"}

\* The kinds of action a factory can make; the last two fail by themselves.
BuiltIn == {"noop", "sequence", "retry", "validation", "conditional"}
Makes(kind, registered) ==
    kind \in registered \/ (kind \in BuiltIn /\ kind \notin {"validation", "conditional"})

\* NewEngine validates, then makes each state from its configuration.
NewEngine(c, registered) ==
    /\ Validate(c)
    /\ \A s \in Range(c.states) :
          \/ s.type = "final"
          \/ s.type = "action" /\ \A k \in Range(s.actions) : Makes(k, registered)

\* The states a builder is given as functions are kept aside; an action of
\* kind "sampling" stands in for each in the configuration.
Placeholder(n) == [name |-> n, type |-> "action", actions |-> <<"sampling">>, onError |-> ""]
Always(from, to) == [from |-> from, to |-> to, cond |-> "always"]
AddActionState(c, n, next) ==
    [c EXCEPT !.states = Append(@, Placeholder(n)),
              !.transitions = IF next = "" THEN @ ELSE Append(@, Always(n, next))]

-----------------------------------------------------------------------------
(* The rules                                                               *)

\* The breadth-first search of findReachableStates and of the first rule: what
\* the edges lead to from the states seen.
RECURSIVE Spread(_, _)
Spread(edges, seen) ==
    LET next == seen \cup {e[2] : e \in {d \in edges : d[1] \in seen}}
    IN  IF next = seen THEN seen ELSE Spread(edges, next)

findReachableStates(c) == Spread(Edges(c), {c.initial})
unreachableState(c) == Names(c) \ findReachableStates(c)

missingTransition(c) ==
    {n \in Names(c) : n \notin Range(c.finals) /\ \A e \in Edges(c) : e[1] # n}

duplicateTransition(c) ==
    {i \in DOMAIN c.transitions : \E j \in 1 .. i - 1 : c.transitions[j] = c.transitions[i]}

\* reachableFrom: with a visited set, for each final state.
reachableFrom(c, n) == Spread(Edges(c), {n}) \cap Range(c.finals) # {}

Targets(c, n) ==
    [i \in DOMAIN SelectSeq(c.transitions, LAMBDA t : t.from = n) |->
        SelectSeq(c.transitions, LAMBDA t : t.from = n)[i].to]

\* The depth-first search: it ends at the first cycle it meets, with the states
\* on its way still on the recursion stack, and warns if the cycle has no exit.
RECURSIVE Dfs(_, _, _)
Dfs_x(c, n, st) == [st EXCEPT !.visited = @ \cup {n}]
Dfs(c, n, st) ==
    LET Visit(acc, next) ==
            IF acc.found THEN acc
            ELSE IF next \notin acc.visited THEN Dfs(c, next, acc)
            ELSE IF next \notin acc.stack THEN acc
            ELSE [acc EXCEPT !.found = TRUE,
                             !.warned = IF reachableFrom(c, n) THEN @ ELSE @ \cup {n}]
        begun == [st EXCEPT !.visited = @ \cup {n}, !.stack = @ \cup {n}]
        ended == FoldLeft(Visit, begun, Targets(c, n))
    IN  IF ended.found THEN ended ELSE [ended EXCEPT !.stack = @ \ {n}]

cyclicTransition(c) ==
    FoldLeft(LAMBDA acc, s : IF s.name \in acc.visited THEN acc
                             ELSE Dfs(c, s.name, [acc EXCEPT !.found = FALSE]),
             [visited |-> {}, stack |-> {}, warned |-> {}, found |-> FALSE],
             c.states).warned

\* ValidateWithRules: errors make a configuration invalid, warnings do so in
\* strict mode.
Valid(c) == unreachableState(c) = {} /\ missingTransition(c) = {} /\ duplicateTransition(c) = {}
ValidStrict(c) == Valid(c) /\ cyclicTransition(c) = {}

-----------------------------------------------------------------------------
(* The fixes                                                               *)

Apply(name, state, ok, c) ==
    /\ Len(fix) < MaxFixes
    /\ fix' = Append(fix, [name |-> name, state |-> state, ok |-> ok])
    /\ config' = IF ok THEN c ELSE config

AddMissingTransition(from, to) ==
    Apply("add", to, <<from, to>> \notin Edges(config),
          [config EXCEPT !.transitions = Append(@, Always(from, to))])

\* The state goes and so do its transitions; final states and error handlers
\* that name it stay.
RemoveUnreachableState(n) ==
    Apply("remove", n, n \in Names(config),
          [config EXCEPT
             !.states = SelectSeq(@, LAMBDA s : s.name # n),
             !.transitions = SelectSeq(@, LAMBDA t : n \notin {t.from, t.to})])

RenameState_x(old, new) ==
    LET To(n) == IF n = old THEN new ELSE n
    IN  Apply("rename", old, new \notin Names(config) /\ old \in Names(config),
              [config EXCEPT
                 !.initial = To(@),
                 !.states = [i \in DOMAIN @ |-> [@[i] EXCEPT !.name = To(@)]],
                 !.transitions = [i \in DOMAIN @ |-> [@[i] EXCEPT !.from = To(@), !.to = To(@)]]])

\* All that names the state follows: the initial state, final states, both ends
\* of transitions, error handlers.
RenameState(old, new) ==
    LET To(n) == IF n = old THEN new ELSE n
    IN  Apply("rename", old, new \notin Names(config) /\ old \in Names(config),
              [config EXCEPT
                 !.initial = To(@),
                 !.finals = [i \in DOMAIN @ |-> To(@[i])],
                 !.states = [i \in DOMAIN @ |-> [@[i] EXCEPT !.name = To(@), !.onError = To(@)]],
                 !.transitions = [i \in DOMAIN @ |-> [@[i] EXCEPT !.from = To(@), !.to = To(@)]]])

MarkAsFinalState(n) ==
    Apply("mark", n, n \notin Range(config.finals) /\ n \in Names(config),
          [config EXCEPT !.finals = Append(@, n)])

\* The first of the equal transitions is kept.
RemoveDuplicateTransition(t) ==
    LET Same(i) == config.transitions[i] = t
        first(i) == \A j \in 1 .. i - 1 : ~Same(j)
        kept == SelectSeq([i \in DOMAIN config.transitions |-> i],
                          LAMBDA i : ~Same(i) \/ first(i))
    IN  Apply("dedupe", t.from, Len(kept) < Len(config.transitions),
              [config EXCEPT !.transitions = [i \in DOMAIN kept |-> config.transitions[kept[i]]]])

Init == config \in Configs /\ fix = <<>>

Next ==
    \/ \E n \in Names(config) :
          \/ \E m \in Names(config) \cup {Fresh} : AddMissingTransition(n, m)
          \/ RemoveUnreachableState(n)
          \/ \E m \in {Fresh, config.initial} : RenameState(n, m)
          \/ MarkAsFinalState(n)
    \/ \E t \in Range(config.transitions) : RemoveDuplicateTransition(t)

Spec == Init /\ [][Next]_vars

-----------------------------------------------------------------------------
(* Properties                                                              *)

\* States one can be in for ever once there: no final state can be reached.
Trapped(c) == {n \in Names(c) : ~reachableFrom(c, n)}

\* The search of cyclicTransitionRule is cut short by every cycle, and its
\* stack keeps states of searches that are over: it warns of an endless loop
\* nevertheless if and only if there is one, a cycle no final state can be
\* reached from.
LoopsAreFound(c) ==
    cyclicTransition(c) # {} <=>
        \E n \in Trapped(c) : n \in Spread(Edges(c), {e[2] : e \in {d \in Edges(c) : d[1] = n}})

\* From every state of a configuration that is valid in strict mode, an end can
\* be reached, and from the initial state every state.
ValidCanEnd(c) ==
    Validate(c) /\ ValidStrict(c) =>
        \A n \in Names(c) : reachableFrom(c, n) /\ n \in findReachableStates(c)

\* A builder that was given a state as a function makes no engine unless the
\* program has registered the kind its placeholder is of.
PlaceholdersNeedSampling(c) ==
    \A next \in Names(c) : ~NewEngine(AddActionState(c, Fresh, next), {})

RulesAreTrue == LoopsAreFound(config) /\ ValidCanEnd(config) /\ PlaceholdersNeedSampling(config)

\* A fix that applies leaves a configuration that can be loaded as it was,
\* except for two: a transition may be added to a state that does not exist, and
\* a final state that was unreachable is removed and stays final.  A renaming
\* changes no verdict.
FixesKeepValidity ==
    [][\A i \in DOMAIN fix' \ DOMAIN fix : LET f == fix'[i] IN
       Validate(config) /\ f.ok =>
          /\ \/ Validate(config')
             \/ f.name = "add" /\ f.state \notin Names(config)
             \/ f.name = "remove" /\ (f.state \in Range(config.finals) \/ f.state = config.initial)
          /\ f.name = "rename" =>
                /\ Valid(config') <=> Valid(config)
                /\ ValidStrict(config') <=> ValidStrict(config)
          /\ f.name = "dedupe" => Edges(config') = Edges(config)]_vars

=============================================================================
