------------------------------- MODULE Engine -------------------------------
(***************************************************************************)
(* statemachine/: Execute walks a machine from state to state.  A state    *)
(* runs and says which state it would like next; the transitions, tried in *)
(* the order they were registered, decide.  An Execute that ended in an    *)
(* error can be called again with the same context and goes on from the    *)
(* current state.  The engine is the TestEngine of statemachine/testing,   *)
(* whose hooks keep a trace.  Spans, metrics, logs and times are left out; *)
(* so are conditions given as functions.                                   *)
(***************************************************************************)
EXTENDS Naturals, Sequences, FiniteSets, SequencesExt, FiniteSetsExt

CONSTANTS
    Machines,   \* [initial, finals, states, transitions, cancelable]
    DataKeys,   \* keys of the data of a context
    Texts,      \* values that are not Boolean
    MaxPath     \* bound on the states a context goes through

ASSUME EngineAssumption ==
    \A m \in Machines :
       /\ m.transitions \in Seq(Range(m.transitions))
       /\ \A s \in DOMAIN m.states : m.states[s].type \in {"action", "choice", "final", "custom"}

Values == {"true", "false"} \cup Texts
Absent == "absent"
Unset == "unset"

VARIABLES
    machine,    \* the engine's states and transitions
    current,    \* smCtx.CurrentState
    path,       \* smCtx.PathHistory
    history,    \* smCtx.History
    values,     \* smCtx.Data
    trace,      \* the trace of the TestEngine: [state, failed] each
    pc,         \* "out", "loop", "state" or "ran"
    result,     \* the TransitionResult of the state that ran
    canceled,   \* whether the Go context of the call is over
    ret,        \* how the last call ended
    begun       \* path, history and current state as the call began

engine == <<machine, current, path, history, values, trace, pc, result, canceled, ret, begun>>
smCtx == <<current, path, history, values>>

NoResult == [next |-> "", data |-> <<>>, complete |-> FALSE]

EngineInit ==
    /\ machine \in Machines
    /\ current = Unset
    /\ path = <<>> /\ history = <<>> /\ trace = <<>>
    /\ values \in [DataKeys -> {Absent, "true"}]
    /\ pc = "out" /\ result = NoResult
    /\ canceled = FALSE /\ ret = "none"
    /\ begun = [path |-> 0, history |-> 0, current |-> Unset]

-----------------------------------------------------------------------------
(* Transitions                                                             *)

\* evaluateExpression: a key that is not there, or not Boolean, is not equal to
\* anything and counts as not true.
Holds(c) ==
    CASE c.op = "always" -> TRUE
      [] c.op = "==" -> values[c.key] = c.val
      [] c.op = "!=" -> values[c.key] # c.val
      [] c.op = "is" -> values[c.key] = "true"
      [] c.op = "not" -> values[c.key] # "true"

\* buildTransitionFromConfig: no condition is "always", and an expression of
\* another form makes an error each time it is evaluated.
Condition(t) ==
    IF t.cond.op = "other" THEN "error" ELSE IF Holds(t.cond) THEN "yes" ELSE "no"

\* The transitions that a loop of findTransition stops at.
Stops(to) ==
    {i \in DOMAIN machine.transitions :
        LET t == machine.transitions[i]
        IN  t.from = current /\ t.to \in to /\ Condition(t) # "no"}

\* The one taken: a transition to the preferred state comes before all others.
findTransition_x(preferred) ==
    LET all == Stops({t.to : t \in Range(machine.transitions)})
    IN  IF all = {} THEN 0 ELSE Min(all)
findTransition(preferred) ==
    LET first == Stops({preferred})
        all == Stops({t.to : t \in Range(machine.transitions)})
    IN  IF first # {} THEN Min(first) ELSE IF all # {} THEN Min(all) ELSE 0

-----------------------------------------------------------------------------
(* Execute                                                                 *)

Return(how) == pc' = "out" /\ ret' = how /\ result' = NoResult

Execute ==
    /\ pc = "out" /\ Len(path) < MaxPath
    /\ pc' = "loop" /\ ret' = "none" /\ canceled' = FALSE
    /\ current' = IF current = Unset THEN machine.initial ELSE current
    /\ begun' = [path |-> Len(path), history |-> Len(history), current |-> current']
    /\ UNCHANGED <<machine, path, history, values, trace, result>>

Cancel ==
    /\ pc # "out" /\ ~canceled
    /\ canceled' = TRUE
    /\ UNCHANGED <<machine, smCtx, trace, pc, result, ret, begun>>

\* The context is looked at between two states, if the engine is to.
Stopped_x == FALSE
Stopped == machine.cancelable /\ canceled

EndCanceled ==
    /\ pc = "loop" /\ Stopped
    /\ Return("canceled")
    /\ UNCHANGED <<machine, smCtx, trace, canceled, begun>>

EndNotFound ==
    /\ pc = "loop" /\ ~Stopped
    /\ current \notin DOMAIN machine.states
    /\ Return("error")
    /\ UNCHANGED <<machine, smCtx, trace, canceled, begun>>

\* The state is appended to the path, and the "start" hooks run.
Enter ==
    /\ pc = "loop" /\ ~Stopped
    /\ current \in DOMAIN machine.states
    /\ Len(path) < MaxPath
    /\ pc' = "state"
    /\ path' = Append(path, current)
    /\ trace' = Append(trace, [state |-> current, failed |-> FALSE])
    /\ UNCHANGED <<machine, current, history, values, result, canceled, ret, begun>>

\* What states answer: ActionState its next state; ConditionalState what its
\* function says; FinalState itself, and that this is the end; a state of the
\* program anything.
Answers(s) ==
    CASE s.type = "action" -> {[NoResult EXCEPT !.next = s.next]}
      [] s.type = "choice" -> {[NoResult EXCEPT !.next = n] : n \in s.choices}
      [] s.type = "final" -> {[NoResult EXCEPT !.next = current, !.complete = TRUE]}
      [] s.type = "custom" -> s.answers

\* What an action may have done to the data, also one that failed.
Writes(s) ==
    {values} \cup IF s.type = "action"
                THEN {[values EXCEPT ![k] = v] : k \in DataKeys, v \in Values} ELSE {}

StateSucceeds ==
    /\ pc = "state"
    /\ result' \in Answers(machine.states[current])
    /\ values' \in Writes(machine.states[current])
    /\ pc' = "ran"
    /\ UNCHANGED <<machine, current, path, history, trace, canceled, ret, begun>>

StateFails ==
    /\ pc = "state" /\ machine.states[current].type # "final"
    /\ values' \in Writes(machine.states[current])
    /\ trace' = [trace EXCEPT ![Len(trace)].failed = TRUE]
    /\ Return("error")
    /\ UNCHANGED <<machine, current, path, history, canceled, begun>>

\* The end: said by the state, or a final state is the one it would like next,
\* which is neither entered nor recorded.
Complete == result.complete \/ result.next \in machine.finals

EndComplete ==
    /\ pc = "ran" /\ Complete
    /\ current' = result.next
    /\ Return("ok")
    /\ UNCHANGED <<machine, path, history, values, trace, canceled, begun>>

Taken == findTransition(result.next)
Reached_x == result.next
Reached == machine.transitions[Taken].to

EndNoTransition ==
    /\ pc = "ran" /\ ~Complete
    /\ Taken = 0 \/ (Taken # 0 /\ Condition(machine.transitions[Taken]) = "error")
    /\ Return("error")
    /\ UNCHANGED <<machine, smCtx, trace, canceled, begun>>

\* The data of the result is merged when the transition has been chosen.
Transit ==
    /\ pc = "ran" /\ ~Complete
    /\ Taken # 0 /\ Condition(machine.transitions[Taken]) = "yes"
    /\ current' = Reached
    /\ history' = Append(history, [from |-> current, to |-> current'])
    /\ values' = [k \in DataKeys |-> IF k \in DOMAIN result.data THEN result.data[k] ELSE values[k]]
    /\ pc' = "loop" /\ result' = NoResult
    /\ UNCHANGED <<machine, path, trace, canceled, ret, begun>>

EngineStep ==
    \/ EndCanceled \/ EndNotFound \/ Enter \/ StateSucceeds \/ StateFails
    \/ EndComplete \/ EndNoTransition \/ Transit

EngineNext == Execute \/ Cancel \/ EngineStep
EngineSpec == EngineInit /\ [][EngineNext]_engine

\* The engine goes on; a state that runs returns.
EngineFairness == WF_engine(EngineStep)

-----------------------------------------------------------------------------
(* The assertions and matchers of the TestEngine                           *)

StateWasVisited(n) == \E i \in DOMAIN trace : trace[i].state = n
TransitionWasTaken(from, to) ==
    \E i \in 1 .. Len(trace) - 1 : trace[i].state = from /\ trace[i + 1].state = to
AssertFinalState(n) == trace # <<>> /\ trace[Len(trace)].state = n
ExecutionFailed == trace # <<>> /\ trace[Len(trace)].failed

-----------------------------------------------------------------------------
(* Properties                                                              *)

\* The transitions of this call, and the states it has entered.
Moves == SubSeq(history, begun.history + 1, Len(history))
Entered == SubSeq(path, begun.path + 1, Len(path))

\* The path and the history tell the same story: from where the call began,
\* each state entered is where the transition before has led, and the current
\* state is the end of it unless a final state was jumped to.
PathFitsHistory ==
    begun.current # Unset =>
        LET way == <<begun.current>> \o [i \in DOMAIN Moves |-> Moves[i].to]
        IN  /\ Entered = SubSeq(way, 1, Len(Entered))
            /\ Len(way) - Len(Entered) \in (IF pc = "loop" THEN {1} ELSE {0, 1})
            /\ \A i \in DOMAIN Moves : Moves[i].from = way[i]
            /\ ret # "ok" => current = way[Len(way)]

\* A transition that was not registered is never taken.
HistoryIsRegistered ==
    \A i \in DOMAIN history :
        \E t \in Range(machine.transitions) : t.from = history[i].from /\ t.to = history[i].to

\* A call that ends without an error is in a state that some state has called
\* the end.  One that does not fail in a state leaves no failure in the trace.
EndIsTrue ==
    ret = "ok" =>
        /\ \/ current \in machine.finals
           \/ machine.states[path[Len(path)]].type \in {"final", "custom"}
        /\ ~ExecutionFailed

\* What the TestEngine asserts: a state visited was entered; a transition it
\* says was taken was, or the state failed and was entered again by a later
\* call, or a later call began elsewhere.  The final state it sees is the last
\* one entered, which is not the one the machine is in after a jump.
AssertionsAreTrue ==
    /\ \A n \in DOMAIN machine.states : StateWasVisited(n) <=> n \in Range(path)
    /\ \A t \in Range(machine.transitions) :
          begun.path = 0 =>
              (TransitionWasTaken(t.from, t.to)
                 <=> \E i \in 1 .. Len(path) - 1 : history[i] = [from |-> t.from, to |-> t.to])
    /\ ret = "ok" /\ ~AssertFinalState(current) =>
          \/ current \in machine.finals
          \/ machine.states[path[Len(path)]].type = "custom"

PathIsTrue == PathFitsHistory /\ HistoryIsRegistered /\ EndIsTrue /\ AssertionsAreTrue

\* A step to another state goes to the state that was asked for if a transition
\* to it may be taken, and otherwise is the first that may be taken; what the
\* state has just returned does not count yet.  An error moves nothing, and
\* after a cancellation no state is entered.
StepsAreTrue ==
    [][/\ pc = "ran" /\ pc' = "loop" =>
             LET ts == machine.transitions
                 ok(i) == ts[i].from = current /\ Condition(ts[i]) = "yes"
                 asked == \E i \in DOMAIN ts : ok(i) /\ ts[i].to = result.next
             IN  \E i \in DOMAIN ts :
                    /\ ok(i) /\ ts[i].to = current'
                    /\ asked => current' = result.next
                    /\ ~asked => \A j \in 1 .. i - 1 : ~ok(j)
       /\ ret' \in {"error", "canceled"} /\ ret = "none" => UNCHANGED <<current, path, history>>
       /\ path' # path => ~(canceled /\ machine.cancelable)]_engine

\* "Check for context cancellation": a call that is canceled returns, unless the
\* engine was told not to look, and one that is not has no end but the machine's.
CancelEnds == canceled /\ machine.cancelable ~> pc = "out"

=============================================================================
