---------------------------- MODULE MachineProofs ----------------------------
(***************************************************************************)
(* Six of the machines of MCMachines, for any constants.  The path, the    *)
(* history and the trace of Engine tell one story, and each step takes the *)
(* transition it should.  The start of Environment makes of the files what *)
(* it should while its reads are recorded.  What Transport gives a client  *)
(* is what the client asked for.  The composite actions of Actions report  *)
(* what their kids have done, whatever the tree.  Then any chain of        *)
(* closers, for any callers that close, cancel and write; and any number   *)
(* of overlapping uses of a resource.                                      *)
(***************************************************************************)
EXTENDS Engine, Actions, Environment, Transport, Closing, Using, DistinctSequences,
        WellFoundedInduction, SequenceTheorems, FiniteSetTheorems, TLAPS

-----------------------------------------------------------------------------
(* Least elements                                                          *)

LEMMA LeastNatural ==
    ASSUME NEW S \in SUBSET Nat, S # {}
    PROVE  Min(S) \in S /\ \A y \in S : Min(S) <= y
<1> DEFINE R == OpToRel(<, Nat)
<1>1. IsWellFoundedOn(R, Nat)
    BY NatLessThanWellFounded
<1>2. ASSUME NEW x \in Nat, NEW y \in Nat PROVE <<x, y>> \in R <=> x < y
    BY DEF OpToRel
<1> HIDE DEF R
<1>3. \E x \in S : \A y \in S : <<y, x>> \notin R
    BY <1>1, WFMin
<1>4. \E x \in S : \A y \in S : x <= y
    <2>1. PICK x \in S : \A y \in S : <<y, x>> \notin R
        BY <1>3
    <2>2. \A y \in S : ~(y < x)
        BY <1>2, <2>1
    <2>3. QED
        BY <2>2
<1>5. QED
    BY <1>4 DEF Min

-----------------------------------------------------------------------------
(* The inductive invariant                                                 *)

Names == DOMAIN machine.states
TypeOf(s) == machine.states[s].type

EngineTyped ==
    /\ machine \in Machines
    /\ path \in Seq(Names)
    /\ trace \in Seq([state : Names, failed : BOOLEAN])
    /\ \E S : history \in Seq([from : S, to : S])
    /\ pc \in {"out", "loop", "state", "ran"}

\* Where the way of this call, the i-th move behind it, has led.
Way(i) == IF i = 0 THEN begun.current ELSE history[begun.history + i].to
Walked == Len(history) - begun.history
Visited == Len(path) - begun.path

Story ==
    /\ begun.path \in 0 .. Len(path) /\ begun.history \in 0 .. Len(history)
    /\ path = <<>> => history = <<>>
    /\ begun.path = 0 => begun.history = 0
    /\ \A i \in 1 .. Visited : path[begun.path + i] = Way(i - 1)
    /\ \A i \in 1 .. Walked : history[begun.history + i].from = Way(i - 1)
    /\ Visited = Walked \/ Visited = Walked + 1
    /\ pc = "loop" => Visited = Walked
    /\ pc \in {"state", "ran"} => Visited = Walked + 1
    /\ ret # "ok" => current = Way(Walked)

Registered ==
    \A i \in 1 .. Len(history) :
        \E t \in Range(machine.transitions) : t.from = history[i].from /\ t.to = history[i].to

\* The trace is the path; the state that runs is the last one of both.
Traced ==
    /\ Len(trace) = Len(path)
    /\ \A i \in 1 .. Len(path) : trace[i].state = path[i]
    /\ pc \in {"state", "ran"} => path # <<>> /\ current = path[Len(path)] /\ ~trace[Len(path)].failed

EndKept ==
    /\ pc # "out" => ret = "none"
    /\ pc = "ran" /\ result.complete =>
          \/ TypeOf(current) = "custom"
          \/ TypeOf(current) = "final" /\ result.next = current
    /\ ret = "ok" =>
          /\ path # <<>> /\ ~trace[Len(path)].failed
          /\ \/ current \in machine.finals
             \/ TypeOf(path[Len(path)]) = "custom"
             \/ TypeOf(path[Len(path)]) = "final" /\ current = path[Len(path)]

EInv == EngineTyped /\ Story /\ Registered /\ Traced /\ EndKept

-----------------------------------------------------------------------------
(* The initial states                                                      *)

LEMMA EngineInitInv == EngineInit => EInv
<1> SUFFICES ASSUME EngineInit PROVE EInv
    OBVIOUS
<1>1. /\ path = <<>> /\ history = <<>> /\ trace = <<>> /\ Len(path) = 0 /\ Len(history) = 0
      /\ pc = "out" /\ ret = "none" /\ begun.path = 0 /\ begun.history = 0
      /\ current = begun.current
    BY DEF EngineInit
<1>2. EngineTyped
    BY <1>1 DEF EngineInit, EngineTyped
<1>3. Story
    BY <1>1 DEF Story, Way, Walked, Visited
<1>4. Registered /\ Traced /\ EndKept
    BY <1>1 DEF Registered, Traced, EndKept
<1>5. QED
    BY <1>2, <1>3, <1>4 DEF EInv

-----------------------------------------------------------------------------
(* The steps                                                               *)

\* What a step leaves alone that changes neither the path nor the history.
LEMMA StoryStays ==
    ASSUME Story, UNCHANGED <<path, history, begun>>,
           ret' # "ok" => current' = current /\ ret # "ok",
           pc' = "loop" => pc = "loop", pc' \in {"state", "ran"} => pc \in {"state", "ran"}
    PROVE  Story'
<1>1. \A i : Way(i)' = Way(i)
    BY DEF Way
<1>2. Walked' = Walked /\ Visited' = Visited
    BY DEF Walked, Visited
<1>3. QED
    BY <1>1, <1>2 DEF Story

LEMMA Numbers ==
    ASSUME EInv
    PROVE  /\ Len(path) \in Nat /\ Len(history) \in Nat /\ Len(trace) = Len(path)
           /\ DOMAIN path = 1 .. Len(path) /\ DOMAIN history = 1 .. Len(history)
           /\ DOMAIN trace = 1 .. Len(path)
           /\ path = <<>> <=> Len(path) = 0
           /\ history = <<>> <=> Len(history) = 0
<1>1. PICK S : history \in Seq([from : S, to : S])
    BY DEF EInv, EngineTyped
<1>2. path \in Seq(Names) /\ trace \in Seq([state : Names, failed : BOOLEAN])
    BY DEF EInv, EngineTyped
<1>3. Len(trace) = Len(path)
    BY DEF EInv, Traced
<1>4. QED
    BY <1>1, <1>2, <1>3, LenProperties, EmptySeq

\* A call that ends: with an error it stays where it is.
LEMMA EndKeeps ==
    ASSUME EInv, pc # "out", pc' = "out", ret' \in {"error", "canceled"},
           UNCHANGED <<machine, current, path, history, trace, begun>>
    PROVE  EInv'
<1>1. EngineTyped' /\ Registered' /\ Traced'
    BY DEF EInv, EngineTyped, Names, Registered, Traced
<1>2. Story'
    BY StoryStays DEF EInv, EndKept
<1>3. EndKept'
    BY DEF EndKept
<1>4. QED
    BY <1>1, <1>2, <1>3 DEF EInv

LEMMA ExecuteKeeps ==
    ASSUME EInv, Execute
    PROVE  EInv'
<1>1. EngineTyped' /\ Registered' /\ Traced' /\ EndKept'
    BY DEF EInv, EngineTyped, Names, Registered, Traced, EndKept, Execute
<1>2. /\ begun'.path = Len(path) /\ begun'.history = Len(history) /\ begun'.current = current'
      /\ UNCHANGED <<path, history>> /\ pc' = "loop" /\ ret' = "none"
    BY DEF Execute
<1>3. path = <<>> => history = <<>>
    BY DEF EInv, Story
<1> DEFINE P == Len(path)  H == Len(history)
<1>4. P \in Nat /\ H \in Nat /\ (P = 0 => H = 0)
    BY <1>3, Numbers
<1>5. begun'.path = P /\ begun'.history = H /\ Walked' = H - H /\ Visited' = P - P
    BY <1>2 DEF Walked, Visited
<1>6. Way(0)' = current'
    BY <1>2 DEF Way
<1>7. Len(path') = P /\ Len(history') = H
    BY <1>2
<1> HIDE DEF P, H
<1>8. Walked' = 0 /\ Visited' = 0
    BY <1>4, <1>5
<1>9. Story'
    BY <1>2, <1>3, <1>4, <1>5, <1>6, <1>7, <1>8 DEF Story
<1>10. QED
    BY <1>1, <1>9 DEF EInv

\* A state is entered: the path grows by where the way has led.
LEMMA EnterKeeps ==
    ASSUME EInv, Enter
    PROVE  EInv'
<1>1. /\ pc = "loop" /\ pc' = "state" /\ path' = Append(path, current)
      /\ trace' = Append(trace, [state |-> current, failed |-> FALSE])
      /\ current \in Names
      /\ UNCHANGED <<machine, current, history, ret, begun>>
    BY DEF Enter, Names
<1>2. path \in Seq(Names) /\ trace \in Seq([state : Names, failed : BOOLEAN])
    BY DEF EInv, EngineTyped
<1>3. EngineTyped'
    BY <1>1, <1>2, AppendProperties DEF EInv, EngineTyped, Names
<1> DEFINE P == Len(path)  H == Len(history)
           b == begun.path  h == begun.history
<1>4. P \in Nat /\ H \in Nat /\ Len(trace) = P
    BY Numbers
<1>5. Len(path') = P + 1 /\ path'[P + 1] = current /\ \A i \in 1 .. P : path'[i] = path[i]
    BY <1>1, <1>2, <1>4, AppendProperties
<1>6. /\ Len(trace') = P + 1 /\ trace'[P + 1] = [state |-> current, failed |-> FALSE]
      /\ \A i \in 1 .. P : trace'[i] = trace[i]
    BY <1>1, <1>2, <1>4, AppendProperties
<1>11. begun'.path = b /\ begun'.history = h /\ Len(history') = H
    BY <1>1
<1>7. /\ b \in 0 .. P /\ h \in 0 .. H /\ (b = 0 => h = 0)
      /\ \A i \in 1 .. Visited : path[b + i] = Way(i - 1)
      /\ \A i \in 1 .. Walked : history[h + i].from = Way(i - 1)
      /\ Visited = Walked
      /\ current = Way(Walked)
      /\ ret = "none"
    BY <1>1 DEF EInv, Story, EndKept
<1>8. \A i : Way(i)' = Way(i)
    BY <1>1 DEF Way
<1>9. path' # <<>>
    BY <1>1, <1>2, AppendProperties
<1>10. Visited = P - b /\ Visited' = P + 1 - b /\ Walked = H - h /\ Walked' = H - h
    <2>1. Len(path) = P /\ Len(history) = H /\ begun.path = b /\ begun.history = h
        OBVIOUS
    <2>2. Len(path') = P + 1
        BY <1>5
    <2> HIDE DEF P, H, b, h
    <2>3. Visited = P - b /\ Walked = H - h
        BY <2>1 DEF Visited, Walked
    <2>4. Visited' = P + 1 - b
        BY <1>4, <1>7, <1>11, <2>2 DEF Visited
    <2>5. Walked' = H - h
        BY <2>1, <1>11 DEF Walked
    <2>6. QED
        BY <2>3, <2>4, <2>5
<1>12. Traced'
    <2>1. \A i \in 1 .. P : trace[i].state = path[i]
        BY DEF EInv, Traced
    <2> HIDE DEF P
    <2>2. \A i \in 1 .. P + 1 : trace'[i].state = path'[i]
        BY <1>4, <1>5, <1>6, <2>1
    <2>3. QED
        BY <1>1, <1>5, <1>6, <1>9, <2>2 DEF Traced
<1>13. Story'
    <2> HIDE DEF P, H, b, h
    <2>1. \A i \in 1 .. Visited' : path'[b + i] = Way(i - 1)
        <3> SUFFICES ASSUME NEW i \in 1 .. P + 1 - b PROVE path'[b + i] = Way(i - 1)
            BY <1>10
        <3>1. CASE i \in 1 .. P - b
            BY <1>4, <1>5, <1>10, <1>7, <3>1
        <3>2. CASE i = P + 1 - b
            <4>1. b + i = P + 1 /\ i - 1 = Walked
                BY <1>4, <1>10, <1>7, <3>2
            <4>2. QED
                BY <1>5, <1>7, <4>1
        <3>3. QED
            BY <1>4, <1>7, <3>1, <3>2
    <2>2. Visited' = Walked' + 1
        BY <1>4, <1>10, <1>7
    <2>3. b \in 0 .. Len(path') /\ h \in 0 .. H
        BY <1>4, <1>5, <1>7
    <2>4. \A i \in 1 .. Walked' : history'[h + i].from = Way(i - 1)
        BY <1>1, <1>10, <1>7
    <2>5. current' = Way(Walked')
        BY <1>1, <1>10, <1>7
    <2>6. QED
        BY <1>1, <1>8, <1>9, <1>7, <1>11, <2>1, <2>2, <2>3, <2>4, <2>5 DEF Story
<1>14. Registered' /\ EndKept'
    BY <1>1, <1>7 DEF EInv, Registered, EndKept
<1>15. QED
    BY <1>3, <1>12, <1>13, <1>14 DEF EInv

LEMMA SucceedsKeeps ==
    ASSUME EInv, StateSucceeds
    PROVE  EInv'
<1>1. /\ pc = "state" /\ pc' = "ran" /\ result' \in Answers(machine.states[current])
      /\ UNCHANGED <<machine, current, path, history, trace, ret, begun>>
    BY DEF StateSucceeds
<1>2. EngineTyped' /\ Registered' /\ Traced'
    BY <1>1 DEF EInv, EngineTyped, Names, Registered, Traced
<1>3. Story'
    BY <1>1, StoryStays DEF EInv, EndKept
<1>4. current \in Names
    <2>1. current = path[Len(path)] /\ path # <<>>
        BY <1>1 DEF EInv, Traced
    <2>2. path \in Seq(Names) /\ Len(path) \in 1 .. Len(path)
        BY <2>1, Numbers DEF EInv, EngineTyped
    <2>3. QED
        BY <2>1, <2>2, ElementOfSeq
<1>5. TypeOf(current) \in {"action", "choice", "final", "custom"}
    BY <1>4, EngineAssumption DEF EInv, EngineTyped, Names, TypeOf
<1>6. result'.complete => \/ TypeOf(current) = "custom"
                          \/ TypeOf(current) = "final" /\ result'.next = current
    BY <1>1, <1>5 DEF Answers, NoResult, TypeOf
<1>7. EndKept'
    BY <1>1, <1>6 DEF EInv, EndKept, TypeOf
<1>8. QED
    BY <1>2, <1>3, <1>7 DEF EInv

LEMMA FailsKeeps ==
    ASSUME EInv, StateFails
    PROVE  EInv'
<1>1. /\ pc = "state" /\ pc' = "out" /\ ret' = "error"
      /\ trace' = [trace EXCEPT ![Len(trace)].failed = TRUE]
      /\ UNCHANGED <<machine, current, path, history, begun>>
    BY DEF StateFails, Return
<1>2. trace \in Seq([state : Names, failed : BOOLEAN]) /\ DOMAIN trace = 1 .. Len(path)
      /\ Len(trace) \in 1 .. Len(path) /\ Len(path) \in Nat /\ Len(trace) = Len(path)
    BY <1>1, Numbers DEF EInv, EngineTyped, Traced
<1>3. trace' = [trace EXCEPT ![Len(trace)] = [trace[Len(trace)] EXCEPT !.failed = TRUE]]
    BY <1>1
<1>4. [trace[Len(trace)] EXCEPT !.failed = TRUE] \in [state : Names, failed : BOOLEAN]
    <2>1. trace[Len(trace)] \in [state : Names, failed : BOOLEAN]
        BY <1>2, ElementOfSeq
    <2>2. QED
        BY <2>1
<1>5. trace' \in Seq([state : Names, failed : BOOLEAN]) /\ Len(trace') = Len(trace)
    BY <1>2, <1>3, <1>4, ExceptSeq
<1>6. \A i \in 1 .. Len(path) : trace'[i].state = trace[i].state
    <2> TAKE i \in 1 .. Len(path)
    <2>1. CASE i = Len(trace)
        <3>1. trace[i] \in [state : Names, failed : BOOLEAN]
            BY <1>2, ElementOfSeq
        <3>2. trace'[i] = [trace[i] EXCEPT !.failed = TRUE]
            BY <1>2, <1>3, <2>1
        <3>3. QED
            BY <3>1, <3>2
    <2>2. CASE i # Len(trace)
        BY <1>2, <1>3, <2>2
    <2>3. QED
        BY <2>1, <2>2
<1>7. EngineTyped'
    BY <1>1, <1>5 DEF EInv, EngineTyped, Names
<1>8. Traced'
    BY <1>1, <1>5, <1>6 DEF EInv, Traced
<1>9. Story'
    BY <1>1, StoryStays DEF EInv, EndKept
<1>10. Registered' /\ EndKept'
    BY <1>1 DEF EInv, Registered, EndKept
<1>11. QED
    BY <1>7, <1>8, <1>9, <1>10 DEF EInv

\* A call that ends where a state has said that it ends, or would like to end.
LEMMA CompleteKeeps ==
    ASSUME EInv, EndComplete
    PROVE  EInv'
<1>1. /\ pc = "ran" /\ pc' = "out" /\ ret' = "ok" /\ Complete /\ current' = result.next
      /\ UNCHANGED <<machine, path, history, trace, begun>>
    BY DEF EndComplete, Return
<1>2. EngineTyped' /\ Registered'
    BY <1>1 DEF EInv, EngineTyped, Names, Registered
<1>3. Traced'
    BY <1>1 DEF EInv, Traced
<1>4. Story'
    BY <1>1, StoryStays DEF EInv, EndKept
<1>5. path # <<>> /\ current = path[Len(path)] /\ ~trace[Len(path)].failed
    BY <1>1 DEF EInv, Traced
<1>6. \/ current' \in machine.finals
      \/ TypeOf(current) = "custom"
      \/ TypeOf(current) = "final" /\ current' = current
    BY <1>1 DEF Complete, EInv, EndKept
<1>7. EndKept'
    BY <1>1, <1>5, <1>6 DEF EndKept, TypeOf
<1>8. QED
    BY <1>2, <1>3, <1>4, <1>7 DEF EInv

\* The transition that is taken is one that leaves the current state.
LEMMA TakenStops ==
    ASSUME EInv, Taken # 0
    PROVE  /\ Taken \in DOMAIN machine.transitions /\ machine.transitions[Taken].from = current
           /\ \/ Taken \in Stops({result.next})
              \/ /\ Stops({result.next}) = {}
                 /\ \A i \in Stops({t.to : t \in Range(machine.transitions)}) : Taken <= i
<1> DEFINE first == Stops({result.next})
           all == Stops({t.to : t \in Range(machine.transitions)})
<1>1. machine.transitions \in Seq(Range(machine.transitions))
    BY EngineAssumption DEF EInv, EngineTyped
<1>2. DOMAIN machine.transitions \subseteq Nat
    BY <1>1, LenProperties
<1>3. first \subseteq Nat /\ all \subseteq Nat
    BY <1>2 DEF Stops
<1>4. Taken = IF first # {} THEN Min(first) ELSE IF all # {} THEN Min(all) ELSE 0
    BY DEF Taken, findTransition
<1>5. CASE first # {}
    <2>1. Taken \in first
        BY <1>3, <1>4, <1>5, LeastNatural
    <2>2. QED
        BY <2>1 DEF Stops
<1>6. CASE first = {}
    <2>1. Taken \in all /\ \A i \in all : Taken <= i
        BY <1>3, <1>4, <1>6, LeastNatural
    <2>2. QED
        BY <1>6, <2>1 DEF Stops
<1>7. QED
    BY <1>5, <1>6

\* A transition: the way grows by where it leads.
LEMMA TransitKeeps ==
    ASSUME EInv, Transit
    PROVE  EInv'
<1> DEFINE r == [from |-> current, to |-> current']
<1>1. /\ pc = "ran" /\ pc' = "loop" /\ Taken # 0 /\ current' = machine.transitions[Taken].to
      /\ history' = Append(history, r)
      /\ UNCHANGED <<machine, path, trace, ret, begun>>
    BY DEF Transit, Reached
<1>2. PICK S : history \in Seq([from : S, to : S])
    BY DEF EInv, EngineTyped
<1> DEFINE T == S \cup {current, current'}
<1>3. history \in Seq([from : T, to : T]) /\ r \in [from : T, to : T]
    <2>1. [from : S, to : S] \subseteq [from : T, to : T]
        OBVIOUS
    <2>2. QED
        BY <1>2, <2>1, SeqMonotonic
<1> HIDE DEF T
<1> DEFINE P == Len(path)  H == Len(history)
           b == begun.path  h == begun.history
<1>4. P \in Nat /\ H \in Nat /\ DOMAIN history = 1 .. H
    BY Numbers
<1>5. Len(history') = H + 1 /\ history'[H + 1] = r /\ \A i \in 1 .. H : history'[i] = history[i]
    BY <1>1, <1>3, <1>4, AppendProperties
<1>6. history' \in Seq([from : T, to : T])
    BY <1>1, <1>3, AppendProperties
<1>7. /\ b \in 0 .. P /\ h \in 0 .. H /\ (b = 0 => h = 0) /\ path # <<>>
      /\ \A i \in 1 .. Visited : path[b + i] = Way(i - 1)
      /\ \A i \in 1 .. Walked : history[h + i].from = Way(i - 1)
      /\ Visited = Walked + 1
      /\ current = Way(Walked)
      /\ ret = "none"
    BY <1>1 DEF EInv, Story, EndKept, Traced
<1>8. begun'.path = b /\ begun'.history = h /\ begun'.current = begun.current /\ Len(path') = P
    BY <1>1
<1>9. Visited = P - b /\ Visited' = P - b /\ Walked = H - h /\ Walked' = H + 1 - h
    <2>1. Len(path) = P /\ Len(history) = H /\ begun.path = b /\ begun.history = h
        OBVIOUS
    <2>2. Len(history') = H + 1
        BY <1>5
    <2> HIDE DEF P, H, b, h
    <2>3. Visited = P - b /\ Walked = H - h
        BY <2>1 DEF Visited, Walked
    <2>4. Visited' = P - b
        BY <1>8 DEF Visited
    <2>5. Walked' = H + 1 - h
        BY <1>4, <1>7, <1>8, <2>2 DEF Walked
    <2>6. QED
        BY <2>3, <2>4, <2>5
<1>10. /\ \A i \in 0 .. Walked : Way(i)' = Way(i)
       /\ \A i : i = Walked + 1 => Way(i)' = current'
    <2>1. \A i : Way(i)' = IF i = 0 THEN begun'.current ELSE history'[begun'.history + i].to
        BY DEF Way
    <2>2. \A i : Way(i) = IF i = 0 THEN begun.current ELSE history[h + i].to
        BY DEF Way
    <2> HIDE DEF P, H, b, h
    <2>3. \A i \in 0 .. Walked : Way(i)' = Way(i)
        <3> TAKE i \in 0 .. Walked
        <3>1. CASE i = 0
            BY <1>8, <2>1, <2>2, <3>1
        <3>2. CASE i # 0
            <4>1. h + i \in 1 .. H
                BY <1>4, <1>7, <1>9, <3>2
            <4>2. QED
                BY <1>5, <1>8, <2>1, <2>2, <3>2, <4>1
        <3>3. QED
            BY <3>1, <3>2
    <2>4. r.to = current'
        OBVIOUS
    <2> HIDE DEF r
    <2>5. ASSUME NEW i, i = Walked + 1 PROVE Way(i)' = current'
        <3>1. i # 0 /\ h + i = H + 1
            BY <1>4, <1>7, <1>9, <2>5
        <3>2. QED
            BY <1>5, <1>8, <2>1, <2>4, <3>1
    <2>6. QED
        BY <2>3, <2>5
<1>11. Story'
    <2> HIDE DEF P, H, b, h
    <2>0. r.from = current
        OBVIOUS
    <2> HIDE DEF r
    <2>1. \A i \in 1 .. Visited' : path'[b + i] = Way(i - 1)'
        <3> SUFFICES ASSUME NEW i \in 1 .. P - b PROVE path[b + i] = Way(i - 1)'
            BY <1>1, <1>9
        <3>1. i \in 1 .. Visited /\ i - 1 \in 0 .. Walked
            BY <1>4, <1>7, <1>9
        <3>2. QED
            BY <1>7, <1>10, <3>1
    <2>2. \A i \in 1 .. Walked' : history'[h + i].from = Way(i - 1)'
        <3> SUFFICES ASSUME NEW i \in 1 .. H + 1 - h PROVE history'[h + i].from = Way(i - 1)'
            BY <1>9
        <3>1. CASE i \in 1 .. H - h
            <4>1. i \in 1 .. Walked /\ i - 1 \in 0 .. Walked /\ h + i \in 1 .. H
                BY <1>4, <1>7, <1>9, <3>1
            <4>2. QED
                BY <1>5, <1>7, <1>10, <4>1
        <3>2. CASE i = H + 1 - h
            <4>1. h + i = H + 1 /\ i - 1 = Walked /\ Walked \in 0 .. Walked
                BY <1>4, <1>7, <1>9, <3>2
            <4>2. QED
                BY <1>5, <1>7, <1>10, <2>0, <4>1
        <3>3. QED
            BY <1>4, <1>7, <3>1, <3>2
    <2>3. Visited' = Walked'
        BY <1>4, <1>7, <1>9
    <2>4. b \in 0 .. P /\ h \in 0 .. Len(history')
        BY <1>4, <1>5, <1>7
    <2>5. \A i : i = Walked' => Way(i)' = current'
        BY <1>4, <1>7, <1>9, <1>10
    <2>6. (current = Way(Walked))'
        BY <2>5
    <2>7. QED
        BY <1>1, <1>7, <1>8, <2>1, <2>2, <2>3, <2>4, <2>6 DEF Story
<1>12. Registered'
    <2>1. \E t \in Range(machine.transitions) : t.from = current /\ t.to = current'
        BY <1>1, TakenStops DEF Range
    <2>2. r.from = current /\ r.to = current'
        OBVIOUS
    <2> HIDE DEF H, r
    <2>3. \A i \in 1 .. H + 1 :
            \E t \in Range(machine.transitions) : t.from = history'[i].from /\ t.to = history'[i].to
        <3> TAKE i \in 1 .. H + 1
        <3>1. CASE i = H + 1
            BY <1>5, <2>1, <2>2, <3>1
        <3>2. CASE i \in 1 .. H
            <4>1. \A j \in 1 .. Len(history) : \E t \in Range(machine.transitions) :
                      t.from = history[j].from /\ t.to = history[j].to
                BY DEF EInv, Registered
            <4>2. QED
                BY <1>5, <3>2, <4>1 DEF H
        <3>3. QED
            BY <1>4, <3>1, <3>2
    <2>4. QED
        BY <1>1, <1>5, <2>3 DEF Registered
<1>13. EngineTyped' /\ Traced' /\ EndKept'
    BY <1>1, <1>6, <1>7 DEF EInv, EngineTyped, Names, Traced, EndKept
<1>14. QED
    BY <1>11, <1>12, <1>13 DEF EInv

LEMMA EngineStepKeeps == EInv /\ [EngineNext]_engine => EInv'
<1> SUFFICES ASSUME EInv, [EngineNext]_engine PROVE EInv'
    OBVIOUS
<1>1. CASE UNCHANGED engine
    <2>1. EngineTyped' /\ Registered' /\ Traced' /\ EndKept'
        BY <1>1 DEF engine, EInv, EngineTyped, Names, Registered, Traced, EndKept, TypeOf
    <2>2. Story'
        BY <1>1 DEF engine, EInv, Story, Way, Walked, Visited
    <2>3. QED
        BY <2>1, <2>2 DEF EInv
<1>2. CASE Cancel
    <2>1. EngineTyped' /\ Registered' /\ Traced' /\ EndKept'
        BY <1>2 DEF Cancel, smCtx, EInv, EngineTyped, Names, Registered, Traced, EndKept, TypeOf
    <2>2. Story'
        BY <1>2 DEF Cancel, smCtx, EInv, Story, Way, Walked, Visited
    <2>3. QED
        BY <2>1, <2>2 DEF EInv
<1>3. CASE EndCanceled \/ EndNotFound \/ EndNoTransition
    BY <1>3, EndKeeps DEF EndCanceled, EndNotFound, EndNoTransition, Return, smCtx
<1>4. QED
    BY <1>1, <1>2, <1>3, ExecuteKeeps, EnterKeeps, SucceedsKeeps, FailsKeeps, CompleteKeeps,
       TransitKeeps DEF EngineNext, EngineStep

\* The invariant: the states that a call has entered are where its transitions
\* have led, each of which was registered; and the trace is the path.
THEOREM EngineInvariant == EngineSpec => []EInv
    BY EngineInitInv, EngineStepKeeps, PTL DEF EngineSpec

-----------------------------------------------------------------------------
(* What follows from the invariant                                         *)

LEMMA PathFits == EInv => PathFitsHistory
<1> SUFFICES ASSUME EInv PROVE PathFitsHistory
    OBVIOUS
<1> DEFINE P == Len(path)  H == Len(history)
           b == begun.path  h == begun.history
           way == <<begun.current>> \o [i \in DOMAIN Moves |-> Moves[i].to]
<1>1. PICK S : history \in Seq([from : S, to : S])
    BY DEF EInv, EngineTyped
<1>2. path \in Seq(Names)
    BY DEF EInv, EngineTyped
<1>3. P \in Nat /\ H \in Nat /\ b \in 0 .. P /\ h \in 0 .. H
    BY Numbers DEF EInv, Story
<1>4. /\ \A i \in 1 .. Visited : path[b + i] = Way(i - 1)
      /\ \A i \in 1 .. Walked : history[h + i].from = Way(i - 1)
      /\ Visited = Walked \/ Visited = Walked + 1
      /\ pc = "loop" => Visited = Walked
      /\ ret # "ok" => current = Way(Walked)
    BY DEF EInv, Story
<1>5. Visited = P - b /\ Walked = H - h
    BY DEF Visited, Walked
<1>6. /\ Moves \in Seq([from : S, to : S]) /\ Len(Moves) = H - h
      /\ \A i \in 1 .. H - h : Moves[i] = history[h + i]
    <2>0. Len(history) = H
        OBVIOUS
    <2>1. \A i \in h + 1 .. H : history[i] \in [from : S, to : S]
        <3> HIDE DEF H, h
        <3> TAKE i \in h + 1 .. H
        <3>1. i \in 1 .. H
            BY <1>3
        <3>2. i \in 1 .. Len(history)
            BY <2>0, <3>1
        <3>3. QED
            BY <1>1, <3>2, ElementOfSeq
    <2>2. h + 1 \in Int /\ H \in Int
        BY <1>3
    <2>3. Moves = SubSeq(history, h + 1, H)
        BY DEF Moves
    <2> HIDE DEF H, h
    <2>4. /\ Moves \in Seq([from : S, to : S])
          /\ Len(Moves) = IF h + 1 <= H THEN H - (h + 1) + 1 ELSE 0
          /\ \A i \in 1 .. H - (h + 1) + 1 : Moves[i] = history[h + 1 + i - 1]
        BY <2>1, <2>2, <2>3, SubSeqProperties
    <2>5. Len(Moves) = H - h
        BY <1>3, <2>4
    <2>6. H - (h + 1) + 1 = H - h /\ \A i \in 1 .. H - h : h + 1 + i - 1 = h + i
        BY <1>3
    <2>7. QED
        BY <2>4, <2>5, <2>6
<1>7. /\ Entered \in Seq(Names) /\ Len(Entered) = P - b
      /\ \A i \in 1 .. P - b : Entered[i] = path[b + i]
    <2>1. \A i \in b + 1 .. P : path[i] \in Names
        BY <1>2, <1>3, ElementOfSeq
    <2>2. b + 1 \in Int /\ P \in Int
        BY <1>3
    <2>3. Entered = SubSeq(path, b + 1, P)
        BY DEF Entered
    <2> HIDE DEF P, b
    <2>4. /\ Entered \in Seq(Names)
          /\ Len(Entered) = IF b + 1 <= P THEN P - (b + 1) + 1 ELSE 0
          /\ \A i \in 1 .. P - (b + 1) + 1 : Entered[i] = path[b + 1 + i - 1]
        BY <2>1, <2>2, <2>3, SubSeqProperties
    <2>5. Len(Entered) = P - b
        BY <1>3, <2>4
    <2>6. P - (b + 1) + 1 = P - b /\ \A i \in 1 .. P - b : b + 1 + i - 1 = b + i
        BY <1>3
    <2>7. QED
        BY <2>4, <2>5, <2>6
<1>8. \E T : way \in Seq(T)
      /\ Len(way) = H - h + 1
      /\ \A i \in 1 .. H - h + 1 : way[i] = Way(i - 1)
    <2> DEFINE T == S \cup {begun.current}
               rest == [i \in DOMAIN Moves |-> Moves[i].to]
               n == H - h
    <2>1. n \in Nat /\ DOMAIN Moves = 1 .. n
        BY <1>3, <1>6, LenProperties
    <2>2. \A i \in 1 .. n : Moves[i].to \in T /\ Moves[i].to = history[h + i].to
        <3>1. Len(Moves) = n /\ \A i \in 1 .. n : Moves[i] = history[h + i]
            BY <1>6
        <3> HIDE DEF n, H, h
        <3> TAKE i \in 1 .. n
        <3>2. Moves[i] \in [from : S, to : S]
            BY <1>6, <3>1, ElementOfSeq
        <3>3. Moves[i].to \in S
            BY <3>2
        <3>4. Moves[i] = history[h + i]
            BY <3>1
        <3>5. QED
            BY <3>3, <3>4
    <2>3. rest \in Seq(T) /\ Len(rest) = n
        <3> HIDE DEF T, n
        <3>1. rest = [i \in 1 .. n |-> Moves[i].to]
            BY <2>1
        <3>2. \A i \in 1 .. n : Moves[i].to \in T
            BY <2>2
        <3>3. rest \in [1 .. n -> T]
            BY <3>1, <3>2
        <3> HIDE DEF rest
        <3>4. rest \in Seq(T)
            BY <2>1, <3>3, SeqDef
        <3>5. QED
            BY <2>1, <3>3, <3>4, LenProperties
    <2>4. <<begun.current>> \in Seq(T) /\ Len(<<begun.current>>) = 1 /\ <<begun.current>>[1] = begun.current
        OBVIOUS
    <2>5. \A i \in 1 .. n : rest[i] = history[h + i].to
        BY <2>1, <2>2
    <2>6. way = <<begun.current>> \o rest
        OBVIOUS
    <2> DEFINE c == <<begun.current>>
    <2> HIDE DEF T, rest, n, c
    <2>7. c \in Seq(T) /\ Len(c) = 1 /\ c[1] = begun.current /\ way = c \o rest
        BY <2>4, <2>6 DEF c
    <2> HIDE DEF way
    <2>8. /\ way \in Seq(T) /\ Len(way) = 1 + n
          /\ \A i \in 1 .. 1 + n : way[i] = IF i <= 1 THEN c[i] ELSE rest[i - 1]
        <3>1. /\ c \o rest \in Seq(T) /\ Len(c \o rest) = Len(c) + Len(rest)
              /\ \A i \in 1 .. Len(c) + Len(rest) :
                    (c \o rest)[i] = IF i <= Len(c) THEN c[i] ELSE rest[i - Len(c)]
            BY <2>3, <2>7, ConcatProperties
        <3>2. QED
            BY <2>3, <2>7, <3>1
    <2>9. \A i \in 1 .. 1 + n : way[i] = Way(i - 1)
        <3> TAKE i \in 1 .. 1 + n
        <3>1. CASE i = 1
            BY <2>1, <2>7, <2>8, <3>1 DEF Way
        <3>2. CASE i # 1
            <4>1. i - 1 \in 1 .. n /\ i - 1 # 0 /\ ~(i <= 1)
                BY <2>1, <3>2
            <4>2. QED
                BY <2>5, <2>8, <4>1 DEF Way, h
        <3>3. QED
            BY <3>1, <3>2
    <2>10. 1 + n = n + 1
        BY <2>1
    <2>11. QED
        BY <2>8, <2>9, <2>10 DEF n
<1> HIDE DEF way
<1>9. PICK T : way \in Seq(T)
      /\ Len(way) = H - h + 1 /\ \A i \in 1 .. H - h + 1 : way[i] = Way(i - 1)
    BY <1>8
<1> HIDE DEF P, H, b, h
<1>10. P - b \in Nat /\ H - h \in Nat /\ (P - b = H - h \/ P - b = H - h + 1)
    BY <1>3, <1>4, <1>5
<1>11. Entered = SubSeq(way, 1, Len(Entered))
    <2>1. \A i \in 1 .. P - b : way[i] \in T
        <3> TAKE i \in 1 .. P - b
        <3>1. i \in 1 .. Len(way)
            BY <1>9, <1>10
        <3>2. QED
            BY <1>9, <3>1, ElementOfSeq
    <2> DEFINE w == SubSeq(way, 1, P - b)  N == P - b
    <2>2. /\ w \in Seq(T) /\ Len(w) = IF 1 <= P - b THEN P - b - 1 + 1 ELSE 0
          /\ \A i \in 1 .. P - b - 1 + 1 : w[i] = way[1 + i - 1]
        BY <1>10, <2>1, SubSeqProperties
    <2> HIDE DEF w
    <2>3. Len(w) = P - b /\ \A i \in 1 .. P - b : w[i] = way[i]
        BY <1>10, <2>2
    <2>4. \A i \in 1 .. P - b : w[i] = Entered[i]
        <3> TAKE i \in 1 .. P - b
        <3>1. i \in 1 .. Visited /\ i \in 1 .. H - h + 1
            BY <1>5, <1>10
        <3>2. w[i] = way[i]
            BY <2>3
        <3>3. way[i] = Way(i - 1)
            BY <1>9, <3>1
        <3>4. Entered[i] = path[b + i]
            BY <1>7
        <3>5. path[b + i] = Way(i - 1)
            BY <1>4, <3>1
        <3>6. QED
            BY <3>2, <3>3, <3>4, <3>5
    <2>5. w = Entered
        BY <1>7, <2>2, <2>3, <2>4, SeqEqual
    <2>6. QED
        BY <1>7, <2>5 DEF w
<1>12. Len(way) - Len(Entered) \in (IF pc = "loop" THEN {1} ELSE {0, 1})
    BY <1>4, <1>5, <1>7, <1>9, <1>10
<1>13. \A i \in DOMAIN Moves : Moves[i].from = way[i]
    <2> TAKE i \in DOMAIN Moves
    <2>1. i \in 1 .. H - h
        BY <1>6, <1>10, LenProperties
    <2>2. i \in 1 .. H - h + 1
        BY <1>10, <2>1
    <2>3. QED
        BY <1>4, <1>5, <1>6, <1>9, <2>1, <2>2
<1>14. ret # "ok" => current = way[Len(way)]
    BY <1>4, <1>5, <1>9, <1>10
<1>15. QED
    BY <1>11, <1>12, <1>13, <1>14 DEF PathFitsHistory, way

LEMMA RestOfPath == EInv => HistoryIsRegistered /\ EndIsTrue /\ AssertionsAreTrue
<1> SUFFICES ASSUME EInv PROVE HistoryIsRegistered /\ EndIsTrue /\ AssertionsAreTrue
    OBVIOUS
<1>1. /\ Len(path) \in Nat /\ Len(history) \in Nat /\ Len(trace) = Len(path)
      /\ DOMAIN path = 1 .. Len(path) /\ DOMAIN history = 1 .. Len(history)
      /\ DOMAIN trace = 1 .. Len(path) /\ path = <<>> <=> Len(path) = 0
    BY Numbers
<1>2. \A i \in 1 .. Len(path) : trace[i].state = path[i]
    BY DEF EInv, Traced
<1>3. trace = <<>> <=> path = <<>>
    BY <1>1, EmptySeq DEF EInv, EngineTyped
<1>4. HistoryIsRegistered
    BY <1>1 DEF EInv, Registered, HistoryIsRegistered
<1>5. EndIsTrue
    BY <1>1 DEF EInv, EndKept, EndIsTrue, ExecutionFailed, TypeOf
<1>6. \A n \in DOMAIN machine.states : StateWasVisited(n) <=> n \in Range(path)
    BY <1>1, <1>2 DEF StateWasVisited, Range
<1>7. ASSUME begun.path = 0, NEW t \in Range(machine.transitions)
      PROVE  TransitionWasTaken(t.from, t.to)
                <=> \E i \in 1 .. Len(path) - 1 : history[i] = [from |-> t.from, to |-> t.to]
    <2> DEFINE P == Len(path)  H == Len(history)
    <2>1. begun.history = 0 /\ Visited = P /\ Walked = H
        <3>1. begun.history = 0
            BY <1>7 DEF EInv, Story
        <3>2. QED
            BY <1>1, <1>7, <3>1 DEF Visited, Walked
    <2>2. PICK S : history \in Seq([from : S, to : S])
        BY DEF EInv, EngineTyped
    <2>3. \A i \in 1 .. H : history[i] = [from |-> history[i].from, to |-> history[i].to]
        <3>1. \A i \in 1 .. H : history[i] \in [from : S, to : S]
            BY <1>1, <2>2, ElementOfSeq
        <3>2. QED
            BY <3>1
    <2>4. /\ \A i \in 1 .. P : path[0 + i] = Way(i - 1)
          /\ \A i \in 1 .. H : history[0 + i].from = Way(i - 1)
          /\ P = H \/ P = H + 1
        BY <1>7, <2>1 DEF EInv, Story
    <2>5. \A i : i # 0 => Way(i) = history[0 + i].to
        BY <2>1 DEF Way
    <2>6. P \in Nat /\ H \in Nat
        BY <1>1
    <2>7. \A i \in 1 .. P : trace[i].state = path[i]
        BY <1>2
    <2>8. Len(trace) = P
        BY <1>1
    <2> HIDE DEF P, H
    <2>9. \A i \in 1 .. P - 1 : /\ i \in 1 .. H /\ i + 1 \in 1 .. P /\ i \in 1 .. P
                                /\ i # 0 /\ i + 1 - 1 = i /\ 0 + i = i /\ 0 + (i + 1) = i + 1
        BY <2>4, <2>6
    <2>10. \A i \in 1 .. P - 1 : path[i] = history[i].from /\ path[i + 1] = history[i].to
        BY <2>4, <2>5, <2>9
    <2>11. \A i \in 1 .. P - 1 :
              (trace[i].state = t.from /\ trace[i + 1].state = t.to)
                 <=> history[i] = [from |-> t.from, to |-> t.to]
        <3> TAKE i \in 1 .. P - 1
        <3>1. i \in 1 .. P /\ i + 1 \in 1 .. P /\ i \in 1 .. H
            BY <2>9
        <3>2. trace[i].state = history[i].from
            BY <2>7, <2>10, <3>1
        <3>3. trace[i + 1].state = history[i].to
            BY <2>7, <2>10, <3>1
        <3>4. history[i] = [from |-> history[i].from, to |-> history[i].to]
            BY <2>3, <3>1
        <3>5. ASSUME trace[i].state = t.from, trace[i + 1].state = t.to
              PROVE  history[i] = [from |-> t.from, to |-> t.to]
            BY <3>2, <3>3, <3>4, <3>5
        <3>6. ASSUME history[i] = [from |-> t.from, to |-> t.to]
              PROVE  trace[i].state = t.from /\ trace[i + 1].state = t.to
            <4>1. history[i].from = t.from /\ history[i].to = t.to
                BY <3>6
            <4>2. QED
                BY <3>2, <3>3, <4>1
        <3>7. QED
            BY <3>5, <3>6
    <2>12. Len(path) = P
        BY DEF P
    <2>13. QED
        BY <2>8, <2>11, <2>12 DEF TransitionWasTaken
<1>8. ASSUME ret = "ok", ~AssertFinalState(current)
      PROVE  current \in machine.finals \/ machine.states[path[Len(path)]].type = "custom"
    <2>1. path # <<>> /\ Len(path) \in 1 .. Len(path)
        BY <1>1, <1>8 DEF EInv, EndKept
    <2>2. current # path[Len(path)]
        BY <1>1, <1>2, <1>3, <1>8, <2>1 DEF AssertFinalState
    <2>3. QED
        BY <1>8, <2>2 DEF EInv, EndKept, TypeOf
<1>9. AssertionsAreTrue
    BY <1>6, <1>7, <1>8 DEF AssertionsAreTrue
<1>10. QED
    BY <1>4, <1>5, <1>9

\* Execute of statemachine/engine.go keeps a path and a history that tell the same
\* story, of registered transitions only; it reports an end where there is one; and
\* what a TestEngine asserts of the states and transitions is what happened.
THEOREM EnginePathIsTrue == EngineSpec => []PathIsTrue
<1>1. EInv => PathIsTrue
    BY PathFits, RestOfPath DEF PathIsTrue
<1>2. QED
    BY EngineInvariant, <1>1, PTL

\* findTransition takes the transition to the state that was asked for if there is
\* one that holds, and the first one that holds otherwise; an error moves nothing;
\* and no state is entered after a cancellation that the engine looks for.
THEOREM EngineTakesTheRightOne == EngineSpec => StepsAreTrue
<1> DEFINE ok(i) == machine.transitions[i].from = current /\ Condition(machine.transitions[i]) = "yes"
           asked == \E i \in DOMAIN machine.transitions :
                       ok(i) /\ machine.transitions[i].to = result.next
           all == {t.to : t \in Range(machine.transitions)}
<1>1. ASSUME EInv, [EngineNext]_engine, pc = "ran", pc' = "loop"
      PROVE  \E i \in DOMAIN machine.transitions :
                /\ ok(i) /\ machine.transitions[i].to = current'
                /\ asked => current' = result.next
                /\ ~asked => \A j \in 1 .. i - 1 : ~ok(j)
    <2>1. Transit
        BY <1>1 DEF EngineNext, EngineStep, engine, Execute, Cancel, EndCanceled, EndNotFound, Enter,
                    StateSucceeds, StateFails, EndComplete, EndNoTransition, Return
    <2>2. Taken # 0 /\ current' = machine.transitions[Taken].to
          /\ Condition(machine.transitions[Taken]) = "yes"
        BY <2>1 DEF Transit, Reached
    <2>3. Taken \in DOMAIN machine.transitions /\ ok(Taken)
        BY <1>1, <2>2, TakenStops
    <2>4. ASSUME asked PROVE current' = result.next
        <3>1. PICK i \in DOMAIN machine.transitions : ok(i) /\ machine.transitions[i].to = result.next
            BY <2>4
        <3>2. i \in Stops({result.next})
            BY <3>1 DEF Stops
        <3>3. Taken \in Stops({result.next})
            BY <1>1, <2>2, <3>2, TakenStops
        <3>4. QED
            BY <2>2, <3>3 DEF Stops
    <2>5. ASSUME ~asked, NEW j \in 1 .. Taken - 1, ok(j) PROVE FALSE
        <3>1. Taken \notin Stops({result.next})
            BY <2>3, <2>5 DEF Stops
        <3>2. \A i \in Stops(all) : Taken <= i
            BY <1>1, <2>2, <3>1, TakenStops
        <3>3. DOMAIN machine.transitions = 1 .. Len(machine.transitions)
              /\ Len(machine.transitions) \in Nat
            BY <1>1, EngineAssumption, LenProperties DEF EInv, EngineTyped
        <3>4. j \in DOMAIN machine.transitions /\ ~(Taken <= j)
            BY <2>3, <3>3
        <3>5. machine.transitions[j].to \in all
            BY <3>4 DEF Range
        <3>6. j \in Stops(all)
            BY <2>5, <3>4, <3>5 DEF Stops
        <3>7. QED
            BY <3>2, <3>4, <3>6
    <2>6. QED
        BY <2>2, <2>3, <2>4, <2>5
<1>2. ASSUME EInv, [EngineNext]_engine, ret' \in {"error", "canceled"}, ret = "none"
      PROVE  UNCHANGED <<current, path, history>>
    BY <1>2 DEF EngineNext, EngineStep, engine, Execute, Cancel, EndCanceled, EndNotFound, Enter,
                StateSucceeds, StateFails, EndComplete, EndNoTransition, Transit, Return, smCtx
<1>3. ASSUME EInv, [EngineNext]_engine, path' # path
      PROVE  ~(canceled /\ machine.cancelable)
    BY <1>3 DEF EngineNext, EngineStep, engine, Execute, Cancel, EndCanceled, EndNotFound, Enter,
                StateSucceeds, StateFails, EndComplete, EndNoTransition, Transit, smCtx, Stopped
<1>4. QED
    BY <1>1, <1>2, <1>3, EngineInvariant, PTL DEF EngineSpec, StepsAreTrue

-----------------------------------------------------------------------------
(* The environment: the inductive invariant                                *)

Watchers == UNION {Range(s.observers) : s \in Starts}
Event == [id : Nat, key : Keys \cup {"none"}, by : Procs \cup {"none"}, dedup : BOOLEAN,
          after : SUBSET Nat, fresh : BOOLEAN]
Reading == {"check", "seen", "mark", "append", "notify", "call"}

EnvironmentTyped ==
    /\ opts \in Starts /\ env0 \in Environments
    /\ env = [k \in Keys |-> env[k]] /\ DOMAIN loader \subseteq Keys
    /\ stage \in {"start", "ask", "setup", "dedup", "reset", "register", "load", "set", "done",
                  "failed"}
    /\ dedupKeys \in BOOLEAN /\ hasObservers \in BOOLEAN /\ observers \subseteq Watchers
    /\ epc \in [Procs -> Reading \cup {"idle"}] /\ ev \in [Procs -> Event]
    /\ copy \in [Procs -> SUBSET Watchers] /\ due \in [Procs -> SUBSET Watchers]
    /\ reads \in Nat /\ kept \subseteq Event
    /\ events \in Seq(Event) /\ batch \in Seq(Event)
    /\ writer \in {"off", "wait", "write", "gone"} /\ output \in {"none", "open", "closed"}
    /\ hung \in BOOLEAN /\ down \in BOOLEAN
    /\ stage = "ask" => ahead \in Seq(Keys)
    /\ stage \in {"reset", "register"} => ahead \in Seq(Watchers)
    /\ stage = "set" => ahead \in Seq(DOMAIN loader)

\* What the loader has of the first n files.
Vars(i) == DOMAIN opts.files[i].vars
LoadedFrom(k, n, i) ==
    /\ i \in 1 .. n /\ k \in Vars(i) /\ loader[k] = opts.files[i].vars[k]
    /\ \A j \in 1 .. n : j > i => k \notin Vars(j)
MergedTo(n) ==
    \A k \in Keys :
       IF k \in DOMAIN loader THEN \E i \in 1 .. n : LoadedFrom(k, n, i)
       ELSE \A i \in 1 .. n : k \notin Vars(i)
FilesOk(n) == \A i \in 1 .. n : opts.files[i].ok
Files == Len(opts.files)

\* Files are loaded in their order; nothing is set before all of them are.
Loading ==
    /\ stage \in {"start", "ask", "setup", "dedup", "reset", "register"} => loader = <<>>
    /\ stage = "load" =>
          /\ ahead \in Seq(Range(opts.files))
          /\ \E n \in 0 .. Files :
                /\ Len(ahead) = Files - n /\ \A i \in 1 .. Len(ahead) : ahead[i] = opts.files[n + i]
                /\ FilesOk(n) /\ MergedTo(n)
    /\ stage \in {"set", "done"} => FilesOk(Files) /\ MergedTo(Files)

\* What the start makes of a variable, at once or when its turn comes.
Final(k) ==
    IF k \in DOMAIN loader /\ (env0[k] = NotSet \/ opts.allowOverride) THEN loader[k] ELSE env0[k]
Setting ==
    /\ stage \in {"start", "ask", "setup", "dedup", "reset", "register", "load"} => env = env0
    /\ stage = "set" =>
          \A k \in Keys : env[k] = Final(k) \/ (env[k] = env0[k] /\ k \in Range(ahead))
    /\ stage = "done" => \A k \in Keys : env[k] = Final(k)
    /\ stage = "failed" => env = env0 \/ FilesOk(Files)

\* Who writes has a file; nothing is shut down before the start is over.
Auditing ==
    /\ stage \notin {"done", "failed"} =>
          writer = "off" /\ output = "none" /\ ~hung /\ ~down /\ "audit" \notin hooks
    /\ batch # <<>> => writer = "write"
    /\ writer = "off" <=> output = "none"
    /\ "audit" \in hooks => writer # "off"

\* Reads are numbered, and recorded once.
Numbered ==
    /\ \A e \in kept : e.id <= reads
    /\ \A p \in Procs : epc[p] \in Reading =>
          /\ ev[p].by = p /\ ev[p].id <= reads
          /\ \A q \in Procs : q # p /\ epc[q] \in Reading => ev[q].id # ev[p].id
          /\ epc[p] \notin {"notify", "call"} => \A e \in kept : e.id # ev[p].id

\* A key that was marked is among those seen, unless they were reset since; who found it not
\* seen after a mark it knows of, or its own, has looked after the reset.
MarksAreSeen ==
    \A e \in Marked :
       /\ dedupKeys /\ (e.fresh => ResetOver)
       /\ e.fresh \/ ~ResetOver => e.key \in seenKeys
       /\ \A i \in e.after : \E f \in Marked : f.id = i
MarksAreFirst ==
    \A e, f \in Marked : e.key = f.key /\ e # f =>
       /\ e.id \in f.after => ~e.fresh /\ f.fresh
       /\ e.by = f.by => e.fresh # f.fresh
About(p) ==
    /\ epc[p] \in {"seen", "mark"} => dedupKeys /\ ev[p].dedup
    /\ epc[p] = "mark" =>
          /\ \A i \in ev[p].after : \E f \in Marked : f.id = i
          /\ \A e \in Marked : e.key = ev[p].key /\ (e.id \in ev[p].after \/ e.by = p) =>
                ~e.fresh /\ ResetOver
Deduplicated ==
    /\ dedupKeys => stage \notin {"start", "ask", "setup", "dedup"}
    /\ MarksAreSeen /\ MarksAreFirst /\ \A p \in Procs : About(p)

\* Those a read owes its event to are registered, or in its copy, or told.
Watching ==
    /\ hasObservers <=> observers # {}
    /\ \A p \in Procs :
          /\ epc[p] \in Reading \ {"call"} => due[p] \subseteq observers
          /\ epc[p] = "call" => \A o \in due[p] : o \in copy[p] \/ <<o, ev[p].id>> \in told
    /\ missed = {}

NInv == /\ EnvironmentTyped /\ Loading /\ Setting /\ Auditing /\ EventsAreKept /\ Numbered
        /\ Deduplicated /\ Watching

-----------------------------------------------------------------------------
(* A transport: the inductive invariant                                    *)

TransportTyped ==
    /\ \A c \in Clients : want[c].ctx \in Contexts
    /\ tpc \in [Clients -> {"out", "options", "choose", "got", "sent", "over"}]
    /\ pooled \in {{}, {TRUE}, {FALSE}}
    /\ given = [c \in Clients |-> given[c]] /\ prefer = [c \in Clients |-> prefer[c]]
    /\ body = [c \in Clients |-> body[c]] /\ decoder = [c \in Clients |-> decoder[c]]
    /\ \A f \in DOMAIN instances : instances[f] \in Clients

\* What is shared was chosen for the options and a default that is the same for all.
Choosing ==
    \A c \in Clients :
       /\ tpc[c] = "choose" => pooled # {} /\ prefer[c] = (TRUE \in pooled)
       /\ tpc[c] \in {"out", "options", "choose"} => given[c] = NoTransport
       /\ Shared(c) => /\ pooled # {} /\ prefer[c] = (TRUE \in pooled)
                       /\ given[c].flags = Chosen(c) /\ given[c].flags \in DOMAIN instances
                       /\ given[c].by = instances[given[c].flags]
                       /\ given[c].decompressor = Decompressed(c)

\* There is no body before the request, and none open after it but one that was refused.
Bodies ==
    \A c \in Clients :
       /\ tpc[c] \in {"out", "options", "choose", "got"} => body[c] = "none" /\ decoder[c] = "none"
       /\ tpc[c] = "over" => (body[c] # "open" /\ decoder[c] # "open") \/ decoder[c] = "refused"

TInv == TransportTyped /\ Choosing /\ Bodies

-----------------------------------------------------------------------------
(* The environment: the initial states and the types                       *)

LEMMA StartsTyped ==
    ASSUME opts \in Starts
    PROVE  /\ opts.files \in Seq(Range(opts.files)) /\ Files \in Nat
           /\ DOMAIN opts.files = 1 .. Files /\ (opts.files = <<>> <=> Files = 0)
           /\ \A i \in 1 .. Files : Vars(i) \subseteq Keys /\ opts.files[i].ok \in BOOLEAN
           /\ opts.dedup \in BOOLEAN /\ opts.asks \in Seq(Keys)
           /\ opts.observers \in Seq(Watchers)
<1>1. /\ opts.files \in Seq(Range(opts.files)) /\ opts.dedup \in BOOLEAN /\ opts.asks \in Seq(Keys)
      /\ opts.observers \in Seq(Range(opts.observers))
      /\ \A f \in Range(opts.files) : f.ok \in BOOLEAN /\ DOMAIN f.vars \subseteq Keys
    BY EnvironmentAssumption
<1>2. Len(opts.files) \in Nat /\ DOMAIN opts.files = 1 .. Len(opts.files)
    BY <1>1, LenProperties
<1>3. opts.files = <<>> <=> Len(opts.files) = 0
    BY <1>1, EmptySeq
<1>4. \A i \in DOMAIN opts.files : opts.files[i] \in Range(opts.files)
    BY DEF Range
<1>5. Range(opts.observers) \subseteq Watchers
    BY DEF Watchers
<1>6. opts.observers \in Seq(Watchers)
    BY <1>1, <1>5, SeqMonotonic
<1>7. QED
    BY <1>1, <1>2, <1>3, <1>4, <1>6 DEF Files, Vars

LEMMA EnvironmentInitInv == EnvironmentInit => NInv
<1> SUFFICES ASSUME EnvironmentInit PROVE NInv
    OBVIOUS
<1>1. /\ opts \in Starts /\ env0 \in Environments /\ env = env0 /\ stage = "start"
      /\ loader = <<>> /\ ~dedupKeys /\ dedupKeys \in BOOLEAN /\ hasObservers = FALSE
      /\ observers = {} /\ epc = [p \in Procs |-> "idle"] /\ ev = [p \in Procs |-> NoEvent]
      /\ copy = [p \in Procs |-> {}] /\ due = [p \in Procs |-> {}] /\ reads = 0 /\ kept = {}
      /\ events = <<>> /\ batch = <<>> /\ written = {} /\ lost = {} /\ missed = {}
      /\ writer = "off" /\ output = "none" /\ hung = FALSE /\ down = FALSE /\ hooks = {}
    BY DEF EnvironmentInit
<1>2. NoEvent \in Event
    BY DEF NoEvent, NewEvent, Event
<1>3. <<>> \in Seq(Event) /\ Range(<<>>) = {} /\ IsInjective(<<>>)
    BY DEF Range, IsInjective
<1>4. env = [k \in Keys |-> env[k]]
    BY <1>1, EnvironmentAssumption
<1>5. EnvironmentTyped
  <2>1. DOMAIN loader = {} /\ observers \subseteq Watchers
      BY <1>1
  <2>2. /\ epc \in [Procs -> Reading \cup {"idle"}] /\ ev \in [Procs -> Event]
        /\ copy \in [Procs -> SUBSET Watchers] /\ due \in [Procs -> SUBSET Watchers]
      BY <1>1, <1>2
  <2>3. /\ events \in Seq(Event) /\ batch \in Seq(Event) /\ kept \subseteq Event /\ reads \in Nat
      BY <1>1, <1>3
  <2>4. QED
      BY <1>1, <1>4, <2>1, <2>2, <2>3 DEF EnvironmentTyped
<1>6. Loading /\ Setting
    BY <1>1 DEF Loading, Setting
<1>7. Auditing /\ Numbered /\ Deduplicated
    BY <1>1 DEF Auditing, Numbered, Deduplicated, MarksAreSeen, MarksAreFirst, About, Marked,
                Reading
<1>8. EventsAreKept
    BY <1>1, <1>3 DEF EventsAreKept, Held
<1>9. Watching
    BY <1>1 DEF Watching, Reading
<1>10. QED
    BY <1>5, <1>6, <1>7, <1>8, <1>9 DEF NInv

\* A read begins, by a goroutine of the program or in the start; it goes on.
Begins(p) ==
    /\ \E key \in Keys : get(p, key)
    /\ UNCHANGED <<recorder, watchers, events>>
Goes(p) == observerEnv(p) \/ shouldRecordKey(p) \/ Record(p) \/ notifyObservers(p) \/ Tell(p)

LEMMA BeginTyped ==
    ASSUME EnvironmentTyped, NEW p \in Procs, Begins(p)
    PROVE  /\ epc' \in [Procs -> Reading \cup {"idle"}] /\ ev' \in [Procs -> Event]
           /\ copy' \in [Procs -> SUBSET Watchers] /\ due' \in [Procs -> SUBSET Watchers]
           /\ reads' \in Nat /\ kept' \subseteq Event /\ events' \in Seq(Event)
           /\ dedupKeys' \in BOOLEAN /\ hasObservers' \in BOOLEAN /\ observers' \subseteq Watchers
<1>1. PICK key \in Keys : get(p, key)
    BY DEF Begins
<1>2. NewEvent(reads + 1, key, p) \in Event
    BY DEF NewEvent, Event, EnvironmentTyped
<1>3. epc' \in [Procs -> Reading \cup {"idle"}] /\ ev' \in [Procs -> Event]
    BY <1>1, <1>2 DEF get, ReadGoes, EnvironmentTyped, Reading
<1>4. reads' \in Nat /\ due' \in [Procs -> SUBSET Watchers]
    BY <1>1 DEF get, EnvironmentTyped
<1>5. QED
    BY <1>1, <1>3, <1>4 DEF get, Begins, recorder, watchers, EnvironmentTyped

LEMMA GoTyped ==
    ASSUME EnvironmentTyped, NEW p \in Procs, Goes(p)
    PROVE  /\ epc' \in [Procs -> Reading \cup {"idle"}] /\ ev' \in [Procs -> Event]
           /\ copy' \in [Procs -> SUBSET Watchers] /\ due' = due
           /\ reads' = reads /\ kept' \subseteq Event /\ events' \in Seq(Event)
<1>1. epc' \in [Procs -> Reading \cup {"idle"}] /\ due' = due /\ reads' = reads
    BY DEF Goes, observerEnv, shouldRecordKey, Record, notifyObservers, Tell, ReadGoes,
           EnvironmentTyped, Reading
<1>2. ev' \in [Procs -> Event]
  <2>1. CASE ev' = ev
      BY <2>1 DEF EnvironmentTyped
  <2>2. CASE ev' = [ev EXCEPT ![p].dedup = dedupKeys]
    <3>1. [ev[p] EXCEPT !.dedup = dedupKeys] \in Event
      <4>1. ev[p] \in Event /\ dedupKeys \in BOOLEAN
          BY DEF EnvironmentTyped
      <4>2. QED
          BY <4>1 DEF Event
    <3>2. ev' = [ev EXCEPT ![p] = [ev[p] EXCEPT !.dedup = dedupKeys]]
        BY <2>2
    <3>3. QED
        BY <3>1, <3>2 DEF EnvironmentTyped
  <2>3. CASE ev' = [ev EXCEPT ![p].after = {e.id : e \in {m \in Marked : m.key = ev[p].key}}]
    <3>1. Marked \subseteq Event
        BY DEF Marked, EnvironmentTyped
    <3>2. {e.id : e \in {m \in Marked : m.key = ev[p].key}} \in SUBSET Nat
        BY <3>1 DEF Event
    <3> DEFINE as == {e.id : e \in {m \in Marked : m.key = ev[p].key}}
    <3> HIDE DEF as
    <3>3. [ev[p] EXCEPT !.after = as] \in Event
      <4>1. ev[p] \in Event /\ as \in SUBSET Nat
          BY <3>2 DEF EnvironmentTyped, as
      <4>2. QED
          BY <4>1 DEF Event
    <3>4. ev' = [ev EXCEPT ![p] = [ev[p] EXCEPT !.after = as]]
        BY <2>3 DEF as
    <3>5. QED
        BY <3>3, <3>4 DEF EnvironmentTyped
  <2>4. CASE ev' = [ev EXCEPT ![p].fresh = ResetOver]
    <3>1. ResetOver = TRUE \/ ResetOver = FALSE
        BY Zenon DEF ResetOver
    <3>2. [ev[p] EXCEPT !.fresh = ResetOver] \in Event
      <4>1. ev[p] \in Event
          BY DEF EnvironmentTyped
      <4>2. QED
          BY <3>1, <4>1 DEF Event
    <3>3. ev' = [ev EXCEPT ![p] = [ev[p] EXCEPT !.fresh = ResetOver]]
        BY <2>4
    <3>4. QED
        BY <3>2, <3>3 DEF EnvironmentTyped
  <2>5. QED
      BY <2>1, <2>2, <2>3, <2>4
         DEF Goes, observerEnv, shouldRecordKey, Record, notifyObservers, Tell
<1>3. copy' \in [Procs -> SUBSET Watchers]
  <2>1. copy \in [Procs -> SUBSET Watchers] /\ observers \subseteq Watchers
      BY DEF EnvironmentTyped
  <2>2. \/ copy' = copy
        \/ copy' = [copy EXCEPT ![p] = IF hasObservers THEN observers ELSE {}]
        \/ \E o \in copy[p] : copy' = [copy EXCEPT ![p] = copy[p] \ {o}]
      BY DEF Goes, observerEnv, shouldRecordKey, Record, notifyObservers, Tell
  <2>3. QED
      BY <2>1, <2>2
<1>4. kept' \subseteq Event /\ events' \in Seq(Event)
  <2>1. CASE Record(p)
    <3>1. ev[p] \in Event
        BY DEF EnvironmentTyped
    <3>2. QED
        BY <2>1, <3>1, AppendProperties DEF Record, EnvironmentTyped
  <2>2. CASE ~Record(p)
      BY <2>2 DEF Goes, observerEnv, shouldRecordKey, notifyObservers, Tell, EnvironmentTyped
  <2>3. QED
      BY <2>1, <2>2
<1>5. QED
    BY <1>1, <1>2, <1>3, <1>4

\* The actions of the start, but those of a read.
Begun ==
    ConfigureEnvironment \/ setupEnvutil \/ EnableDedupKeys \/ ResetSeenKeys \/ RegisterObserver
       \/ AllRegistered \/ LoadFile \/ Loaded \/ Setenv
Asked == Ask /\ ahead # <<>>
AllAsked == Ask /\ ahead = <<>>

LEMMA BegunTyped ==
    ASSUME EnvironmentTyped, Loading, UNCHANGED <<opts, env0>>,
           Begun \/ Asked \/ AllAsked \/ setupAuditFile
    PROVE  /\ env' = [k \in Keys |-> env'[k]] /\ DOMAIN loader' \subseteq Keys
           /\ stage' \in {"ask", "setup", "dedup", "reset", "register", "load", "set", "done",
                          "failed"}
           /\ stage' = "ask" => ahead' \in Seq(Keys)
           /\ stage' \in {"reset", "register"} => ahead' \in Seq(Watchers)
           /\ stage' = "set" => ahead' \in Seq(DOMAIN loader')
<1>1. /\ opts.files \in Seq(Range(opts.files)) /\ opts.asks \in Seq(Keys)
      /\ opts.observers \in Seq(Watchers)
    BY StartsTyped DEF EnvironmentTyped
<1>2. env = [k \in Keys |-> env[k]] /\ DOMAIN loader \subseteq Keys
    BY DEF EnvironmentTyped
<1>3. CASE ConfigureEnvironment
    BY <1>1, <1>2, <1>3 DEF ConfigureEnvironment
<1>4. CASE Asked \/ AllAsked
  <2>1. UNCHANGED <<env, loader>> /\ stage = "ask" /\ ahead \in Seq(Keys)
      BY <1>4 DEF Asked, AllAsked, Ask, EnvironmentTyped
  <2>2. CASE ahead # <<>>
    <3>1. ahead' = Tail(ahead) /\ stage' = stage
        BY <1>4, <2>2 DEF Asked, AllAsked, Ask
    <3>2. Tail(ahead) \in Seq(Keys)
        BY <2>1, <2>2, HeadTailProperties
    <3>3. QED
        BY <1>2, <2>1, <3>1, <3>2
  <2>3. CASE ahead = <<>>
      BY <1>2, <1>4, <2>1, <2>3 DEF Asked, AllAsked, Ask
  <2>4. QED
      BY <2>2, <2>3
<1>5. CASE setupEnvutil \/ EnableDedupKeys \/ ResetSeenKeys
    BY <1>1, <1>2, <1>5 DEF setupEnvutil, EnableDedupKeys, ResetSeenKeys, EnvironmentTyped
<1>6. CASE RegisterObserver
  <2>1. /\ UNCHANGED <<env, loader, stage>> /\ stage = "register" /\ ahead \in Seq(Watchers)
        /\ ahead # <<>> /\ ahead' = Tail(ahead)
      BY <1>6 DEF RegisterObserver, EnvironmentTyped
  <2>2. Tail(ahead) \in Seq(Watchers)
      BY <2>1, HeadTailProperties
  <2>3. QED
      BY <1>2, <2>1, <2>2
<1>7. CASE AllRegistered
    BY <1>2, <1>7 DEF AllRegistered
<1>8. CASE LoadFile
  <2>1. /\ env' = env /\ stage' \in {"load", "failed"} /\ stage = "load" /\ ahead # <<>>
        /\ loader' = loader \/ DOMAIN loader' = DOMAIN loader \cup DOMAIN Head(ahead).vars
      BY <1>8 DEF LoadFile
  <2>2. Head(ahead) \in Range(opts.files)
      BY <2>1, HeadTailProperties DEF Loading
  <2>3. DOMAIN Head(ahead).vars \subseteq Keys
      BY <2>2, EnvironmentAssumption DEF EnvironmentTyped
  <2>4. QED
      BY <1>2, <2>1, <2>3
<1>9. CASE Loaded
  <2>1. /\ UNCHANGED <<env, loader>> /\ stage' = "set"
        /\ ahead' \in [1 .. Cardinality(DOMAIN loader) -> DOMAIN loader]
      BY <1>9 DEF Loaded
  <2>2. IsFiniteSet(DOMAIN loader)
      BY <1>2, EnvironmentAssumption, FS_Subset
  <2>3. Cardinality(DOMAIN loader) \in Nat
      BY <2>2, FS_CardinalityType
  <2> DEFINE m == Cardinality(DOMAIN loader)
  <2> HIDE DEF m
  <2>4. ahead' \in Seq(DOMAIN loader)
    <3>1. m \in Nat /\ ahead' \in [1 .. m -> DOMAIN loader]
        BY <2>1, <2>3 DEF m
    <3>2. QED
        BY <3>1, SeqDef
  <2>5. QED
      BY <1>2, <2>1, <2>4
<1>10. CASE Setenv
  <2>1. /\ UNCHANGED <<loader, stage>> /\ stage = "set" /\ ahead \in Seq(DOMAIN loader)
        /\ ahead # <<>> /\ ahead' = Tail(ahead)
        /\ env' = env \/ \E k, x : env' = [env EXCEPT ![k] = x]
      BY <1>10 DEF Setenv, EnvironmentTyped
  <2>2. Tail(ahead) \in Seq(DOMAIN loader)
      BY <2>1, HeadTailProperties
  <2>3. env' = [k \in Keys |-> env'[k]]
      BY <1>2, <2>1
  <2>4. QED
      BY <1>2, <2>1, <2>2, <2>3
<1>11. CASE setupAuditFile
    BY <1>2, <1>11 DEF setupAuditFile
<1>12. QED
    BY <1>3, <1>4, <1>5, <1>6, <1>7, <1>8, <1>9, <1>10, <1>11 DEF Begun

-----------------------------------------------------------------------------
(* The environment: the kinds of steps                                     *)

\* The start sets up what reads look at, or asks for a variable itself.
SetsUp ==
    /\ (Begun /\ UNCHANGED audit) \/ (AllAsked /\ UNCHANGED audit) \/ setupAuditFile
    /\ UNCHANGED <<opts, env0, down, reader, events>>
Asking ==
    /\ Asked /\ Begins(MainProc)
    /\ UNCHANGED <<opts, env0, env, stage, loader, audit, hooks, down>>
Beginning(p) == Begins(p) /\ UNCHANGED <<opts, env0, start, audit, hooks, down>>
Going(p) ==
    /\ Goes(p)
    /\ UNCHANGED <<opts, env0, start, recording, dedupKeys, watchers, audit, hooks, down>>

EnvironmentMoves ==
    \/ SetsUp \/ Asking \/ Ending
    \/ \E p \in Procs : Beginning(p) \/ Going(p)
    \/ \E o \in observers : Unregister(o)

LEMMA EveryMove ==
    ASSUME EnvironmentTyped, EnvironmentNext PROVE EnvironmentMoves
<1>1. CASE Starting
  <2>1. CASE Begun /\ UNCHANGED audit
      BY <1>1, <2>1 DEF Starting, Begun, ConfigureEnvironment, setupEnvutil, EnableDedupKeys,
             ResetSeenKeys, RegisterObserver, AllRegistered, LoadFile, Loaded, Setenv, SetsUp,
             EnvironmentMoves
  <2>2. CASE Ask /\ UNCHANGED audit
    <3>1. CASE ahead = <<>>
        BY <1>1, <2>2, <3>1 DEF Starting, Ask, AllAsked, SetsUp, EnvironmentMoves
    <3>2. CASE ahead # <<>>
      <4>1. /\ get(MainProc, Head(ahead)) /\ stage = "ask"
            /\ UNCHANGED <<env, stage, loader, recorder, watchers, events, hooks>>
          BY <2>2, <3>2 DEF Ask
      <4>2. Head(ahead) \in Keys
          BY <3>2, <4>1, HeadTailProperties DEF EnvironmentTyped
      <4>3. Begins(MainProc) /\ Asked
          BY <2>2, <3>2, <4>1, <4>2 DEF Begins, Asked
      <4>4. QED
          BY <1>1, <2>2, <4>1, <4>3 DEF Starting, Asking, EnvironmentMoves
    <3>3. QED
        BY <3>1, <3>2
  <2>3. CASE setupAuditFile
      BY <1>1, <2>3 DEF Starting, setupAuditFile, SetsUp, EnvironmentMoves
  <2>4. QED
      BY <1>1, <2>1, <2>2, <2>3 DEF Starting, Begun
<1>2. CASE Ending
    BY <1>2 DEF EnvironmentMoves
<1>3. CASE \E o \in observers : Unregister(o)
    BY <1>3 DEF EnvironmentMoves
<1>4. ASSUME NEW p \in Procs, Read(p) PROVE EnvironmentMoves
    BY <1>4 DEF Read, Beginning, Begins, EnvironmentMoves
<1>5. ASSUME NEW p \in Procs, Observed(p) PROVE EnvironmentMoves
    BY <1>5 DEF Observed, Going, Goes, EnvironmentMoves
<1>6. QED
    BY <1>1, <1>2, <1>3, <1>4, <1>5 DEF EnvironmentNext

LEMMA SetupTyped ==
    ASSUME EnvironmentTyped, SetsUp
    PROVE  /\ dedupKeys' \in BOOLEAN /\ hasObservers' \in BOOLEAN /\ observers' \subseteq Watchers
           /\ batch' = batch /\ writer' \in {"off", "wait", "write", "gone"}
           /\ output' \in {"none", "open", "closed"} /\ hung' = hung
<1>1. opts.dedup \in BOOLEAN
    BY StartsTyped DEF EnvironmentTyped
<1>2. CASE RegisterObserver /\ UNCHANGED audit
  <2>1. ahead \in Seq(Watchers) /\ ahead # <<>> /\ observers' = observers \cup {Head(ahead)}
        /\ hasObservers' = TRUE /\ dedupKeys' = dedupKeys
      BY <1>2 DEF RegisterObserver, EnvironmentTyped, recorder
  <2>2. Head(ahead) \in Watchers
      BY <2>1, HeadTailProperties
  <2>3. QED
      BY <1>2, <2>1, <2>2 DEF EnvironmentTyped, audit
<1>3. CASE setupAuditFile
    BY <1>3 DEF setupAuditFile, EnvironmentTyped, recorder, watchers
<1>4. CASE (setupEnvutil \/ EnableDedupKeys \/ ResetSeenKeys) /\ UNCHANGED audit
    BY <1>1, <1>4 DEF setupEnvutil, EnableDedupKeys, ResetSeenKeys, EnvironmentTyped, watchers,
                      audit
<1>5. CASE /\ ConfigureEnvironment \/ AllRegistered \/ LoadFile \/ Loaded \/ Setenv \/ AllAsked
           /\ UNCHANGED audit
    BY <1>5 DEF ConfigureEnvironment, AllRegistered, LoadFile, Loaded, Setenv, AllAsked, Ask,
                EnvironmentTyped, recorder, watchers, audit
<1>6. QED
    BY <1>2, <1>3, <1>4, <1>5 DEF SetsUp, Begun

LEMMA EndingTyped ==
    ASSUME EnvironmentTyped, Ending
    PROVE  /\ events' \in Seq(Event) /\ batch' \in Seq(Event)
           /\ writer' \in {"off", "wait", "write", "gone"}
           /\ output' \in {"none", "open", "closed"} /\ hung' \in BOOLEAN /\ down' \in BOOLEAN
<1>1. <<>> \in Seq(Event) /\ events \in Seq(Event) /\ batch \in Seq(Event)
    BY DEF EnvironmentTyped
<1>2. batch # <<>> => Tail(batch) \in Seq(Event)
    BY <1>1, HeadTailProperties
<1>3. QED
    BY <1>1, <1>2 DEF Ending, CollectRecordingEvents, WriteEvent, Synced, Gone, Shutdown,
           CancelAudit, CloseOutput, EnvironmentTyped, audit

LEMMA EnvironmentTypedStep ==
    ASSUME EnvironmentTyped, Loading, EnvironmentMoves PROVE EnvironmentTyped'
<1>1. CASE SetsUp
  <2>1. UNCHANGED <<opts, env0, down, reader, events>>
        /\ (Begun \/ AllAsked \/ setupAuditFile)
      BY <1>1 DEF SetsUp
  <2>2. /\ env' = [k \in Keys |-> env'[k]] /\ DOMAIN loader' \subseteq Keys
        /\ stage' \in {"ask", "setup", "dedup", "reset", "register", "load", "set", "done",
                       "failed"}
        /\ stage' = "ask" => ahead' \in Seq(Keys)
        /\ stage' \in {"reset", "register"} => ahead' \in Seq(Watchers)
        /\ stage' = "set" => ahead' \in Seq(DOMAIN loader')
      BY <2>1, BegunTyped
  <2>3. QED
      BY <1>1, <2>1, <2>2, SetupTyped DEF EnvironmentTyped, reader
<1>2. CASE Asking
  <2>1. /\ env' = [k \in Keys |-> env'[k]] /\ DOMAIN loader' \subseteq Keys
        /\ stage' = "ask" => ahead' \in Seq(Keys)
        /\ stage' \in {"reset", "register"} => ahead' \in Seq(Watchers)
        /\ stage' = "set" => ahead' \in Seq(DOMAIN loader')
      BY <1>2, BegunTyped DEF Asking
  <2>2. QED
      BY <1>2, <2>1, BeginTyped, EnvironmentAssumption DEF Asking, EnvironmentTyped, audit
<1>3. ASSUME NEW p \in Procs, Beginning(p) PROVE EnvironmentTyped'
    BY <1>3, BeginTyped DEF Beginning, EnvironmentTyped, audit, start
<1>4. ASSUME NEW p \in Procs, Going(p) PROVE EnvironmentTyped'
    BY <1>4, GoTyped DEF Going, EnvironmentTyped, audit, start, watchers
<1>5. CASE Ending
    BY <1>5, EndingTyped DEF Ending, EnvironmentTyped, start, recorder, watchers, reader
<1>6. ASSUME NEW o \in observers, Unregister(o) PROVE EnvironmentTyped'
  <2>1. /\ observers' \subseteq Watchers /\ hasObservers' \in BOOLEAN
        /\ due' \in [Procs -> SUBSET Watchers]
      BY <1>6 DEF Unregister, Removed, EnvironmentTyped
  <2>2. QED
      BY <1>6, <2>1 DEF Unregister, EnvironmentTyped, start, recorder, audit
<1>7. QED
    BY <1>1, <1>2, <1>3, <1>4, <1>5, <1>6 DEF EnvironmentMoves

-----------------------------------------------------------------------------
(* The environment: what is loaded and set                                 *)

\* The head of a list and those in its tail are those in the list.
LEMMA HeadOrTail ==
    ASSUME NEW S, NEW s \in Seq(S), s # <<>>
    PROVE  \A x \in Range(s) : x = Head(s) \/ x \in Range(Tail(s))
<1>1. /\ DOMAIN s = 1 .. Len(s) /\ Len(s) \in Nat /\ Head(s) = s[1]
      /\ Tail(s) \in Seq(S) /\ Len(Tail(s)) = Len(s) - 1
      /\ \A i \in 1 .. Len(Tail(s)) : Tail(s)[i] = s[i + 1]
    BY HeadTailProperties, LenProperties
<1>2. DOMAIN Tail(s) = 1 .. Len(Tail(s))
    BY <1>1, LenProperties
<1> DEFINE n == Len(s)
           t == Tail(s)
<1>3. /\ DOMAIN s = 1 .. n /\ n \in Nat /\ Head(s) = s[1] /\ DOMAIN t = 1 .. n - 1
      /\ \A i \in 1 .. n - 1 : t[i] = s[i + 1]
    BY <1>1, <1>2
<1> HIDE DEF n, t
<1>4. ASSUME NEW i \in 1 .. n, i # 1 PROVE s[i] \in Range(t)
  <2>1. i - 1 \in 1 .. n - 1 /\ (i - 1) + 1 = i
      BY <1>3, <1>4
  <2>2. t[i - 1] = s[i]
      BY <1>3, <2>1
  <2>3. QED
      BY <1>3, <2>1, <2>2 DEF Range
<1>5. \A x \in Range(s) : x = Head(s) \/ x \in Range(t)
    BY <1>3, <1>4 DEF Range
<1>6. QED
    BY <1>5 DEF t

\* One more file: its variables replace those of the files before it.
LEMMA MergeOne ==
    ASSUME NEW n \in Nat, MergedTo(n), opts' = opts,
           loader' = [k \in DOMAIN loader \cup Vars(n + 1) |->
                        IF k \in Vars(n + 1) THEN opts.files[n + 1].vars[k] ELSE loader[k]]
    PROVE  MergedTo(n + 1)'
<1>1. \A i : Vars(i)' = Vars(i)
    BY DEF Vars
<1>2. SUFFICES ASSUME NEW k \in Keys
               PROVE  IF k \in DOMAIN loader' THEN \E i \in 1 .. n + 1 : LoadedFrom(k, n + 1, i)'
                      ELSE \A i \in 1 .. n + 1 : k \notin Vars(i)
    BY <1>1 DEF MergedTo
<1>3. CASE k \in Vars(n + 1)
  <2>1. k \in DOMAIN loader' /\ loader'[k] = opts.files[n + 1].vars[k]
      BY <1>3
  <2>2. \A j \in 1 .. n + 1 : ~(j > n + 1)
      OBVIOUS
  <2>3. n + 1 \in 1 .. n + 1
      OBVIOUS
  <2>4. LoadedFrom(k, n + 1, n + 1)'
      BY <1>1, <1>3, <2>1, <2>2, <2>3 DEF LoadedFrom
  <2>5. QED
      BY <2>1, <2>3, <2>4
<1>4. CASE k \notin Vars(n + 1) /\ k \in DOMAIN loader
  <2>1. k \in DOMAIN loader' /\ loader'[k] = loader[k]
      BY <1>4
  <2>2. PICK i \in 1 .. n : LoadedFrom(k, n, i)
      BY <1>4 DEF MergedTo
  <2>3. i \in 1 .. n + 1 /\ \A j \in 1 .. n + 1 : j \in 1 .. n \/ j = n + 1
      OBVIOUS
  <2>4. LoadedFrom(k, n + 1, i)'
      BY <1>1, <1>4, <2>1, <2>2, <2>3 DEF LoadedFrom
  <2>5. QED
      BY <2>1, <2>3, <2>4
<1>5. CASE k \notin Vars(n + 1) /\ k \notin DOMAIN loader
  <2>1. k \notin DOMAIN loader'
      BY <1>5
  <2>2. \A j \in 1 .. n + 1 : j \in 1 .. n \/ j = n + 1
      OBVIOUS
  <2>3. \A i \in 1 .. n + 1 : k \notin Vars(i)
      BY <1>5, <2>2 DEF MergedTo
  <2>4. QED
      BY <2>1, <2>3
<1>6. QED
    BY <1>3, <1>4, <1>5

LEMMA LoadFileKeeps ==
    ASSUME EnvironmentTyped, Loading, LoadFile, opts' = opts, stage' = "load"
    PROVE  Loading'
<1>1. /\ stage = "load" /\ ahead # <<>> /\ ahead' = Tail(ahead) /\ Head(ahead).ok
      /\ loader' = [k \in DOMAIN loader \cup DOMAIN Head(ahead).vars |->
                      IF k \in DOMAIN Head(ahead).vars THEN Head(ahead).vars[k] ELSE loader[k]]
    BY DEF LoadFile
<1>2. ahead \in Seq(Range(opts.files))
    BY <1>1 DEF Loading
<1>3. PICK n \in 0 .. Files :
          /\ Len(ahead) = Files - n /\ \A i \in 1 .. Len(ahead) : ahead[i] = opts.files[n + i]
          /\ FilesOk(n) /\ MergedTo(n)
    BY <1>1 DEF Loading
<1>4. /\ Tail(ahead) \in Seq(Range(opts.files)) /\ Len(Tail(ahead)) = Len(ahead) - 1
      /\ \A i \in 1 .. Len(Tail(ahead)) : Tail(ahead)[i] = ahead[i + 1]
      /\ Head(ahead) = ahead[1] /\ Len(ahead) \in Nat /\ Len(ahead) # 0
    BY <1>1, <1>2, HeadTailProperties, LenProperties, EmptySeq
<1> DEFINE a == Len(ahead)
           b == Len(Tail(ahead))
<1>5. /\ a \in Nat /\ a # 0 /\ b = a - 1 /\ a = Files - n /\ Files \in Nat
      /\ \A i \in 1 .. a : ahead[i] = opts.files[n + i]
      /\ \A i \in 1 .. b : Tail(ahead)[i] = ahead[i + 1]
    BY <1>3, <1>4, StartsTyped DEF EnvironmentTyped
<1> HIDE DEF a, b
<1>6. /\ n + 1 \in 0 .. Files /\ n \in Nat /\ b = Files - (n + 1) /\ 1 \in 1 .. a
      /\ \A i \in 1 .. b : i + 1 \in 1 .. a /\ n + (i + 1) = (n + 1) + i
  <2> DEFINE c == Files
  <2>1. /\ a \in Nat /\ a # 0 /\ b = a - 1 /\ a = c - n /\ c \in Nat /\ n \in 0 .. c
      BY <1>5
  <2> HIDE DEF c
  <2>2. n + 1 \in 0 .. c /\ n \in Nat /\ b = c - (n + 1) /\ 1 \in 1 .. a
      BY <2>1
  <2>3. \A i \in 1 .. b : i + 1 \in 1 .. a /\ n + (i + 1) = (n + 1) + i
      BY <2>1
  <2>4. QED
      BY <2>2, <2>3 DEF c
<1>7. Head(ahead) = opts.files[n + 1]
    BY <1>4, <1>5, <1>6
<1>8. \A i \in 1 .. b : Tail(ahead)[i] = opts.files[(n + 1) + i]
    BY <1>5, <1>6
<1>9. MergedTo(n + 1)'
    BY <1>1, <1>3, <1>6, <1>7, MergeOne DEF Vars
<1>10. FilesOk(n + 1)'
  <2>1. \A i \in 1 .. n + 1 : i \in 1 .. n \/ i = n + 1
      BY <1>6
  <2>2. QED
      BY <1>1, <1>3, <1>7, <2>1 DEF FilesOk
<1>11. Files' = Files
    BY DEF Files
<1>12. /\ Len(ahead') = Files - (n + 1)
       /\ \A i \in 1 .. Len(ahead') : ahead'[i] = opts.files[(n + 1) + i]
    BY <1>1, <1>6, <1>8 DEF b
<1>13. QED
    BY <1>1, <1>4, <1>6, <1>9, <1>10, <1>11, <1>12 DEF Loading

LEMMA LoadingStep ==
    ASSUME EnvironmentTyped, Loading, EnvironmentMoves PROVE Loading'
<1>1. /\ opts.files \in Seq(Range(opts.files)) /\ Files \in Nat
      /\ DOMAIN opts.files = 1 .. Files /\ (opts.files = <<>> <=> Files = 0)
    BY StartsTyped DEF EnvironmentTyped
<1>2. opts' = opts /\ Files' = Files
    BY DEF EnvironmentMoves, SetsUp, Asking, Ending, Beginning, Going, Unregister, Files
<1>3. CASE UNCHANGED <<stage, loader>> /\ (ahead' = ahead \/ stage # "load")
  <2>1. \A n : MergedTo(n)' = MergedTo(n) /\ FilesOk(n)' = FilesOk(n)
      BY <1>2, <1>3 DEF MergedTo, FilesOk, LoadedFrom, Vars
  <2>2. QED
      BY <1>2, <1>3, <2>1 DEF Loading
<1>4. CASE SetsUp
  <2>1. CASE \/ ConfigureEnvironment \/ setupEnvutil \/ EnableDedupKeys \/ ResetSeenKeys
             \/ AllAsked
      BY <2>1 DEF Loading, ConfigureEnvironment, setupEnvutil, EnableDedupKeys, ResetSeenKeys,
         AllAsked, Ask
  <2>2. CASE RegisterObserver \/ Setenv
      BY <1>3, <2>2 DEF RegisterObserver, Setenv
  <2>3. CASE AllRegistered
    <3>1. /\ loader' = <<>> /\ ahead' = opts.files
          /\ stage' = IF opts.files = <<>> THEN "done" ELSE "load"
        BY <2>3 DEF AllRegistered, Loading
    <3>2. MergedTo(0)' /\ FilesOk(0)'
        BY <1>2, <3>1 DEF MergedTo, FilesOk
    <3>3. CASE opts.files = <<>>
        BY <1>1, <1>2, <3>1, <3>2, <3>3 DEF Loading
    <3>4. CASE opts.files # <<>>
      <4>1. /\ 0 \in 0 .. Files /\ Len(ahead') = Files - 0
            /\ \A i \in 1 .. Len(ahead') : ahead'[i] = opts.files[0 + i]
          BY <1>1, <3>1 DEF Files
      <4>2. QED
          BY <1>1, <1>2, <3>1, <3>2, <3>4, <4>1 DEF Loading
    <3>5. QED
        BY <3>3, <3>4
  <2>4. CASE LoadFile
    <3>1. CASE stage' = "load"
        BY <1>2, <2>4, <3>1, LoadFileKeeps
    <3>2. CASE stage' # "load"
      <4>1. stage' = "failed"
          BY <2>4, <3>2 DEF LoadFile
      <4>2. QED
          BY <4>1 DEF Loading
    <3>3. QED
        BY <3>1, <3>2
  <2>5. CASE Loaded
    <3>1. stage = "load" /\ ahead = <<>> /\ stage' = "set" /\ loader' = loader
        BY <2>5 DEF Loaded
    <3>2. PICK n \in 0 .. Files : Len(ahead) = Files - n /\ FilesOk(n) /\ MergedTo(n)
        BY <3>1 DEF Loading
    <3>3. Len(ahead) = 0
        BY <3>1
    <3>4. n = Files
        BY <1>1, <3>2, <3>3
    <3>5. FilesOk(Files)' /\ MergedTo(Files)'
        BY <1>2, <3>1, <3>2, <3>4 DEF FilesOk, MergedTo, LoadedFrom, Vars
    <3>6. QED
        BY <3>1, <3>5 DEF Loading
  <2>6. CASE setupAuditFile
    <3>1. stage = "set" /\ stage' \in {"done", "failed"} /\ loader' = loader
        BY <2>6 DEF setupAuditFile
    <3>2. FilesOk(Files) /\ MergedTo(Files)
        BY <3>1 DEF Loading
    <3>3. FilesOk(Files)' /\ MergedTo(Files)'
        BY <1>2, <3>1, <3>2 DEF FilesOk, MergedTo, LoadedFrom, Vars
    <3>4. QED
        BY <3>1, <3>3 DEF Loading
  <2>7. QED
      BY <1>4, <2>1, <2>2, <2>3, <2>4, <2>5, <2>6 DEF SetsUp, Begun
<1>5. CASE ~SetsUp
  <2>1. UNCHANGED <<stage, loader>> /\ (ahead' = ahead \/ stage # "load")
      BY <1>5 DEF EnvironmentMoves, Asking, Asked, Ask, Ending, Beginning, Going, Unregister, start
  <2>2. QED
      BY <1>3, <2>1
<1>6. QED
    BY <1>4, <1>5

LEMMA SettingStep ==
    ASSUME EnvironmentTyped, Loading, Setting, EnvironmentMoves PROVE Setting'
<1>1. opts' = opts /\ env0' = env0 /\ Files' = Files
    BY DEF EnvironmentMoves, SetsUp, Asking, Ending, Beginning, Going, Unregister, Files
<1>2. FilesOk(Files)' = FilesOk(Files)
    BY <1>1 DEF FilesOk
<1>3. env = [k \in Keys |-> env[k]] /\ env0 = [k \in Keys |-> env0[k]]
    BY EnvironmentAssumption DEF EnvironmentTyped
<1>4. CASE UNCHANGED <<stage, loader, env>> /\ (ahead' = ahead \/ stage # "set")
  <2>1. \A k : Final(k)' = Final(k)
      BY <1>1, <1>4 DEF Final
  <2>2. QED
      BY <1>1, <1>2, <1>4, <2>1 DEF Setting
<1>5. CASE SetsUp
  <2>1. CASE \/ ConfigureEnvironment \/ setupEnvutil \/ EnableDedupKeys \/ ResetSeenKeys
             \/ AllAsked
      BY <1>1, <2>1 DEF Setting, ConfigureEnvironment, setupEnvutil, EnableDedupKeys, ResetSeenKeys,
         AllAsked, Ask
  <2>2. CASE RegisterObserver
      BY <1>4, <2>2 DEF RegisterObserver
  <2>3. CASE AllRegistered
    <3>1. loader' = <<>> /\ env' = env0 /\ stage' \in {"done", "load"}
        BY <2>3 DEF AllRegistered, Loading, Setting
    <3>2. \A k : Final(k)' = env0[k]
        BY <1>1, <3>1 DEF Final
    <3>3. QED
        BY <1>1, <3>1, <3>2 DEF Setting
  <2>4. CASE LoadFile
      BY <1>1, <2>4 DEF LoadFile, Setting
  <2>5. CASE Loaded
    <3>1. /\ stage' = "set" /\ UNCHANGED <<env, loader>> /\ env = env0
          /\ Range(ahead') = DOMAIN loader
        BY <2>5 DEF Loaded, Setting
    <3>2. \A k : k \notin DOMAIN loader => Final(k)' = env0[k]
        BY <1>1, <3>1 DEF Final
    <3>3. QED
        BY <1>1, <3>1, <3>2 DEF Setting
  <2>6. CASE Setenv
    <3>1. /\ UNCHANGED <<stage, loader>> /\ stage = "set" /\ ahead # <<>> /\ ahead' = Tail(ahead)
          /\ env' = IF env[Head(ahead)] = NotSet \/ opts.allowOverride
                    THEN [env EXCEPT ![Head(ahead)] = loader[Head(ahead)]] ELSE env
        BY <2>6 DEF Setenv
    <3>2. ahead \in Seq(DOMAIN loader)
        BY <3>1 DEF EnvironmentTyped
    <3>3. Head(ahead) \in DOMAIN loader
        BY <3>1, <3>2, HeadTailProperties
    <3>4. Head(ahead) \in Keys
        BY <3>3 DEF EnvironmentTyped
    <3>5. \A k : Final(k)' = Final(k)
        BY <1>1, <3>1 DEF Final
    <3>6. \A k \in Keys : env[k] = Final(k) \/ (env[k] = env0[k] /\ k \in Range(ahead))
        BY <3>1 DEF Setting
    <3>7. env'[Head(ahead)] = Final(Head(ahead))
      <4> DEFINE h == Head(ahead)
      <4>1. env[h] = Final(h) \/ env[h] = env0[h]
          BY <3>4, <3>6
      <4>2. env'[h] = IF env[h] = NotSet \/ opts.allowOverride THEN loader[h] ELSE env[h]
          BY <1>3, <3>1, <3>4
      <4>3. QED
          BY <3>3, <4>1, <4>2 DEF Final
    <3>8. ASSUME NEW k \in Keys, k # Head(ahead)
          PROVE  env'[k] = Final(k) \/ (env'[k] = env0[k] /\ k \in Range(Tail(ahead)))
      <4>1. env'[k] = env[k]
          BY <1>3, <3>1, <3>8
      <4>2. k \in Range(ahead) => k \in Range(Tail(ahead))
          BY <3>1, <3>2, <3>8, HeadOrTail
      <4>3. QED
          BY <3>6, <4>1, <4>2
    <3>9. QED
        BY <1>1, <3>1, <3>5, <3>7, <3>8 DEF Setting
  <2>7. CASE setupAuditFile
    <3>1. /\ stage = "set" /\ stage' \in {"done", "failed"} /\ UNCHANGED <<env, loader>>
          /\ ahead = <<>>
        BY <2>7 DEF setupAuditFile
    <3>2. Range(ahead) = {}
        BY <3>1 DEF Range
    <3>3. \A k : Final(k)' = Final(k)
        BY <1>1, <3>1 DEF Final
    <3>4. FilesOk(Files)
        BY <3>1 DEF Loading
    <3>5. QED
        BY <1>1, <1>2, <3>1, <3>2, <3>3, <3>4 DEF Setting
  <2>8. QED
      BY <1>5, <2>1, <2>2, <2>3, <2>4, <2>5, <2>6, <2>7 DEF SetsUp, Begun
<1>6. CASE ~SetsUp
  <2>1. UNCHANGED <<stage, loader, env>> /\ (ahead' = ahead \/ stage # "set")
      BY <1>6 DEF EnvironmentMoves, Asking, Asked, Ask, Ending, Beginning, Going, Unregister, start
  <2>2. QED
      BY <1>4, <2>1
<1>7. QED
    BY <1>5, <1>6
-----------------------------------------------------------------------------
(* The environment: the record and the audit file                          *)

LEMMA AuditingStep ==
    ASSUME EnvironmentTyped, Auditing, EnvironmentMoves PROVE Auditing'
<1>1. CASE SetsUp /\ UNCHANGED audit
  <2>1. stage \notin {"done", "failed"} /\ ("audit" \in hooks' => "audit" \in hooks)
        /\ down' = down
    <3>1. CASE setupAuditFile
        BY <1>1, <3>1 DEF setupAuditFile, SetsUp, audit, Auditing
    <3>2. CASE Begun \/ AllAsked
        BY <1>1, <3>2 DEF SetsUp, Begun, AllAsked, ConfigureEnvironment, Ask, setupEnvutil,
               EnableDedupKeys, ResetSeenKeys, RegisterObserver, AllRegistered, LoadFile, Loaded,
               Setenv
    <3>3. QED
        BY <1>1, <3>1, <3>2 DEF SetsUp
  <2>2. QED
      BY <1>1, <2>1 DEF Auditing, audit
<1>2. CASE setupAuditFile /\ SetsUp
    BY <1>2 DEF setupAuditFile, SetsUp, Auditing
<1>3. CASE UNCHANGED <<audit, stage, hooks, down>>
    BY <1>3 DEF Auditing, audit
<1>4. CASE Ending
  <2>1. stage' = stage
      BY <1>4 DEF Ending, start
  <2>2. CASE CollectRecordingEvents \/ WriteEvent \/ Synced \/ Gone
      BY <2>1, <2>2 DEF CollectRecordingEvents, WriteEvent, Synced, Gone, Auditing
  <2>3. CASE Shutdown \/ CancelAudit \/ CloseOutput
      BY <2>1, <2>3 DEF Shutdown, CancelAudit, CloseOutput, Auditing, audit
  <2>4. QED
      BY <1>4, <2>2, <2>3 DEF Ending
<1>5. ASSUME NEW o \in observers, Unregister(o) PROVE Auditing'
  <2>1. /\ UNCHANGED <<audit, stage, down>> /\ ("audit" \in hooks' => "audit" \in hooks)
      BY <1>5 DEF Unregister, start
  <2>2. QED
      BY <2>1 DEF Auditing, audit
<1>6. QED
    BY <1>1, <1>2, <1>3, <1>4, <1>5
       DEF EnvironmentMoves, SetsUp, Asking, Beginning, Going, start

\* A read that is about to record its event has not done so.
LEMMA NotYetKept ==
    ASSUME Numbered, NEW p \in Procs, epc[p] = "append" PROVE ev[p] \notin kept
BY DEF Numbered, Reading

LEMMA EventsAreKeptStep ==
    ASSUME EnvironmentTyped, Auditing, EventsAreKept, Numbered, EnvironmentMoves
    PROVE  EventsAreKept'
<1>1. CASE UNCHANGED <<events, kept, batch, written, lost>>
    BY <1>1 DEF EventsAreKept, Held
<1>2. CASE setupAuditFile /\ SetsUp
    BY <1>1, <1>2 DEF setupAuditFile, SetsUp, reader
<1>3. ASSUME NEW p \in Procs, Record(p), Going(p) PROVE EventsAreKept'
  <2>1. /\ epc[p] = "append" /\ events' = Append(events, ev[p]) /\ kept' = kept \cup {ev[p]}
        /\ UNCHANGED <<batch, written, lost>>
      BY <1>3 DEF Record, ReadGoes, Going, audit
  <2>2. ev[p] \notin kept
      BY <2>1, NotYetKept
  <2>3. ev[p] \notin Held \cup written \cup lost
      BY <2>2 DEF EventsAreKept
  <2>4. events \in Seq(Event) /\ ev[p] \in Event /\ IsInjective(events) /\ ev[p] \notin Range(events)
      BY <2>3 DEF EnvironmentTyped, EventsAreKept, Held
  <2>5. IsInjective(events') /\ Range(events') = Range(events) \cup {ev[p]}
      BY <2>1, <2>4, AppendDistinct
  <2>6. Held' = Held \cup {ev[p]}
      BY <2>1, <2>5 DEF Held
  <2>7. Range(events') \cap Range(batch') = {}
      BY <2>1, <2>3, <2>5 DEF EventsAreKept, Held
  <2>8. QED
      BY <2>1, <2>3, <2>5, <2>6, <2>7 DEF EventsAreKept
<1>4. CASE Ending
  <2>1. kept' = kept
      BY <1>4 DEF Ending, reader
  <2>2. CASE CollectRecordingEvents
    <3>1. /\ batch' = events /\ events' = <<>> /\ batch = <<>>
          /\ UNCHANGED <<written, lost>>
        BY <2>2 DEF CollectRecordingEvents, Auditing
    <3>2. Range(<<>>) = {} /\ IsInjective(<<>>)
        BY DEF Range, IsInjective
    <3>3. Held' = Held /\ Range(events') = {} /\ Range(batch') = Range(events)
        BY <3>1, <3>2 DEF Held
    <3>4. QED
        BY <2>1, <3>1, <3>2, <3>3 DEF EventsAreKept
  <2>3. CASE WriteEvent
    <3>1. /\ batch # <<>> /\ batch' = Tail(batch) /\ UNCHANGED events
          /\ \/ written' = written \cup {Head(batch)} /\ lost' = lost
             \/ lost' = lost \cup {Head(batch)} /\ written' = written
        BY <2>3 DEF WriteEvent
    <3>2. batch \in Seq(Event) /\ IsInjective(batch)
        BY DEF EnvironmentTyped, EventsAreKept
    <3>3. /\ Head(batch) \in Range(batch) /\ IsInjective(batch')
          /\ Range(batch') = Range(batch) \ {Head(batch)}
        BY <3>1, <3>2, TailOfDistinct
    <3>4. Head(batch) \notin Range(events) \cup written \cup lost
        BY <3>3 DEF EventsAreKept, Held
    <3>5. Held' = Held \ {Head(batch)} /\ Head(batch) \in Held
        BY <3>1, <3>3, <3>4 DEF Held
    <3>6. Range(events') \cap Range(batch') = {} /\ IsInjective(events')
        BY <3>1, <3>3 DEF EventsAreKept
    <3>7. Held' \cup written' \cup lost' = kept'
        BY <2>1, <3>1, <3>5 DEF EventsAreKept
    <3>8. Held' \cap (written' \cup lost') = {} /\ written' \cap lost' = {}
        BY <3>1, <3>4, <3>5 DEF EventsAreKept
    <3>9. QED
        BY <3>3, <3>6, <3>7, <3>8 DEF EventsAreKept
  <2>4. CASE Synced \/ Gone \/ Shutdown \/ CancelAudit \/ CloseOutput
      BY <1>1, <2>1, <2>4 DEF Synced, Gone, Shutdown, CancelAudit, CloseOutput, audit
  <2>5. QED
      BY <1>4, <2>2, <2>3, <2>4 DEF Ending
<1>5. ASSUME NEW p \in Procs, Going(p), ~Record(p) PROVE EventsAreKept'
    BY <1>1, <1>5 DEF Going, Goes, observerEnv, shouldRecordKey, notifyObservers, Tell, audit
<1>6. CASE SetsUp /\ UNCHANGED audit
    BY <1>1, <1>6 DEF SetsUp, audit, reader
<1>7. CASE Asking \/ \E p \in Procs : Beginning(p)
    BY <1>1, <1>7 DEF Asking, Beginning, Begins, get, audit
<1>8. CASE \E o \in observers : Unregister(o)
    BY <1>1, <1>8 DEF Unregister, audit
<1>9. QED
    BY <1>2, <1>3, <1>4, <1>5, <1>6, <1>7, <1>8 DEF EnvironmentMoves, SetsUp

LEMMA BeginNumbered ==
    ASSUME EnvironmentTyped, Numbered, NEW p \in Procs, Begins(p) PROVE Numbered'
<1>1. PICK key \in Keys : get(p, key)
    BY DEF Begins
<1>2. /\ reads \in Nat /\ reads' = reads + 1 /\ kept' = kept
      /\ epc \in [Procs -> Reading \cup {"idle"}] /\ ev \in [Procs -> Event]
      /\ \A e \in Event : e.id \in Nat
    BY <1>1 DEF get, EnvironmentTyped, Event
<1>3. ev'[p].id = reads + 1 /\ ev'[p].by = p /\ epc'[p] \notin {"notify", "call"}
    BY <1>1, <1>2 DEF get, NewEvent, ReadGoes
<1>4. \A q \in Procs : q # p => ev'[q] = ev[q] /\ epc'[q] = epc[q]
    BY <1>1, <1>2 DEF get, ReadGoes
<1>5. \A e \in kept : e.id \in Nat /\ e.id <= reads
    BY <1>2 DEF Numbered, EnvironmentTyped
<1>6. \A q \in Procs : ev[q].id \in Nat
    BY <1>2
<1>7. \A q \in Procs : q # p /\ epc[q] \in Reading => ev[q].id <= reads
    BY DEF Numbered
<1>8. \A e \in kept' : e.id <= reads' /\ e.id # reads + 1
    BY <1>2, <1>5
<1>9. \A q \in Procs : q # p /\ epc'[q] \in Reading => ev'[q].id <= reads' /\ ev'[q].id # reads + 1
    BY <1>2, <1>4, <1>6, <1>7
<1>10. ASSUME NEW q \in Procs, epc'[q] \in Reading
       PROVE  /\ ev'[q].by = q /\ ev'[q].id <= reads'
              /\ \A r \in Procs : r # q /\ epc'[r] \in Reading => ev'[r].id # ev'[q].id
              /\ epc'[q] \notin {"notify", "call"} => \A e \in kept' : e.id # ev'[q].id
  <2>1. CASE q = p
    <3>1. ev'[q].id <= reads'
        BY <1>2, <1>3, <2>1
    <3>2. QED
        BY <1>3, <1>8, <1>9, <2>1, <3>1
  <2>2. CASE q # p
    <3>1. /\ ev[q].by = q
          /\ \A r \in Procs : r # q /\ epc[r] \in Reading => ev[r].id # ev[q].id
          /\ epc[q] \notin {"notify", "call"} => \A e \in kept : e.id # ev[q].id
        BY <1>4, <1>10, <2>2 DEF Numbered
    <3>2. QED
        BY <1>2, <1>3, <1>4, <1>9, <1>10, <2>2, <3>1
  <2>3. QED
      BY <2>1, <2>2
<1>11. QED
    BY <1>8, <1>10 DEF Numbered

\* A read keeps its event once.
Keeps(p) ==
    \/ kept' = kept /\ (epc[p] \in {"notify", "call"} => epc'[p] \in {"call", "idle"})
    \/ epc[p] = "append" /\ epc'[p] = "notify" /\ kept' = kept \cup {ev[p]}

\* The event of a read keeps its number as the read goes on.
LEMMA SameNumbers ==
    ASSUME EnvironmentTyped, NEW p \in Procs, Goes(p)
    PROVE  /\ \A q \in Procs : /\ ev'[q].id = ev[q].id /\ ev'[q].by = ev[q].by
                               /\ ev'[q].key = ev[q].key
           /\ \A q \in Procs : q # p => ev'[q] = ev[q] /\ epc'[q] = epc[q]
           /\ epc[p] \in Reading /\ reads' = reads /\ due' = due
           /\ Keeps(p)
<1>1. ev \in [Procs -> Event] /\ epc \in [Procs -> Reading \cup {"idle"}]
    BY DEF EnvironmentTyped
<1>2. \/ ev' = ev
      \/ \E x : \/ ev' = [ev EXCEPT ![p].dedup = x] \/ ev' = [ev EXCEPT ![p].after = x]
                \/ ev' = [ev EXCEPT ![p].fresh = x]
    BY DEF Goes, observerEnv, shouldRecordKey, Record, notifyObservers, Tell
<1>3. \A q \in Procs : /\ ev'[q].id = ev[q].id /\ ev'[q].by = ev[q].by
                       /\ ev'[q].key = ev[q].key /\ (q # p => ev'[q] = ev[q])
    BY <1>1, <1>2 DEF Event
<1>4. \A q \in Procs : q # p => epc'[q] = epc[q]
    BY <1>1 DEF Goes, observerEnv, shouldRecordKey, Record, notifyObservers, Tell, ReadGoes
<1>5. epc[p] \in Reading /\ reads' = reads /\ due' = due
    BY DEF Goes, observerEnv, shouldRecordKey, Record, notifyObservers, Tell, ReadGoes, Reading
<1>6. CASE Record(p)
  <2>1. Keeps(p)
      BY <1>1, <1>6 DEF Record, ReadGoes, Keeps
  <2>2. QED
      BY <1>3, <1>4, <1>5, <2>1
<1>7. CASE ~Record(p)
  <2>1. kept' = kept
      BY <1>7 DEF Goes, observerEnv, shouldRecordKey, notifyObservers, Tell
  <2>2. epc[p] \in {"notify", "call"} => epc'[p] \in {"call", "idle"}
      BY <1>1, <1>7 DEF Goes, observerEnv, shouldRecordKey, notifyObservers, Tell, ReadGoes
  <2>3. Keeps(p)
      BY <2>1, <2>2 DEF Keeps
  <2>4. QED
      BY <1>3, <1>4, <1>5, <2>3
<1>8. QED
    BY <1>6, <1>7

LEMMA GoNumbered ==
    ASSUME EnvironmentTyped, Numbered, NEW p \in Procs, Goes(p) PROVE Numbered'
<1>1. /\ \A q \in Procs : ev'[q].id = ev[q].id /\ ev'[q].by = ev[q].by
      /\ \A q \in Procs : q # p => epc'[q] = epc[q]
      /\ epc[p] \in Reading /\ reads' = reads
    BY SameNumbers
<1>2. \A q \in Procs : epc'[q] \in Reading => epc[q] \in Reading
    BY <1>1
<1>3. ev[p].id <= reads
    BY <1>1 DEF Numbered
<1>4. \/ kept' = kept /\ (epc[p] \in {"notify", "call"} => epc'[p] \in {"call", "idle"})
      \/ epc[p] = "append" /\ epc'[p] = "notify" /\ kept' = kept \cup {ev[p]}
  <2>1. Keeps(p)
      BY SameNumbers
  <2>2. QED
      BY <2>1 DEF Keeps
<1>5. \A e \in kept' : e.id <= reads'
    BY <1>1, <1>3, <1>4 DEF Numbered
<1>6. ASSUME NEW q \in Procs, epc'[q] \in Reading
      PROVE  /\ ev'[q].by = q /\ ev'[q].id <= reads'
             /\ \A r \in Procs : r # q /\ epc'[r] \in Reading => ev'[r].id # ev'[q].id
             /\ epc'[q] \notin {"notify", "call"} => \A e \in kept' : e.id # ev'[q].id
  <2>1. /\ ev[q].by = q /\ ev[q].id <= reads
        /\ \A r \in Procs : r # q /\ epc[r] \in Reading => ev[r].id # ev[q].id
        /\ epc[q] \notin {"notify", "call"} => \A e \in kept : e.id # ev[q].id
      BY <1>2, <1>6 DEF Numbered
  <2>2. ASSUME epc'[q] \notin {"notify", "call"}, NEW e \in kept' PROVE e.id # ev'[q].id
    <3>1. epc[q] \notin {"notify", "call"}
        BY <1>1, <1>4, <1>6, <2>2 DEF Reading
    <3>2. CASE e \in kept
        BY <1>1, <2>1, <3>1, <3>2
    <3>3. CASE e \notin kept
        BY <1>1, <1>4, <2>1, <2>2, <3>3
    <3>4. QED
        BY <3>2, <3>3
  <2>3. QED
      BY <1>1, <1>2, <2>1, <2>2
<1>7. QED
    BY <1>5, <1>6 DEF Numbered

LEMMA NumberedStep ==
    ASSUME EnvironmentTyped, Numbered, EnvironmentMoves PROVE Numbered'
<1>1. CASE UNCHANGED <<epc, ev, reads, kept>>
    BY <1>1 DEF Numbered
<1>2. QED
    BY <1>1, BeginNumbered, GoNumbered, EnvironmentAssumption
       DEF EnvironmentMoves, SetsUp, Asking, Beginning, Going, Ending, Unregister, reader

-----------------------------------------------------------------------------
(* The environment: keys that are recorded once                            *)

\* Nothing is marked, and who is about to mark was so before.
LEMMA NothingMarked ==
    ASSUME Deduplicated, Marked' = Marked, ResetOver' = ResetOver, dedupKeys' = dedupKeys,
           stage' = stage, seenKeys \subseteq seenKeys',
           \A p \in Procs : \/ epc'[p] = epc[p] /\ ev'[p] = ev[p]
                            \/ epc'[p] \notin {"seen", "mark"}
                            \/ About(p)'
    PROVE  Deduplicated'
<1>1. MarksAreSeen' /\ MarksAreFirst'
    BY DEF Deduplicated, MarksAreSeen, MarksAreFirst
<1>2. ASSUME NEW p \in Procs PROVE About(p)'
    BY <1>2 DEF Deduplicated, About
<1>3. QED
    BY <1>1, <1>2 DEF Deduplicated

\* The number of a read that has not marked its key belongs to no event that was marked.
LEMMA NotYetMarked ==
    ASSUME Numbered, NEW p \in Procs, epc[p] = "mark"
    PROVE  \A e \in Marked : e.id # ev[p].id
BY DEF Numbered, Reading, Marked

\* A read marks its key.
LEMMA MarkDeduplicated ==
    ASSUME EnvironmentTyped, Numbered, Deduplicated, NEW p \in Procs, Going(p),
           shouldRecordKey(p), epc[p] = "mark"
    PROVE  Deduplicated'
<1> DEFINE m == ev'[p]
<1>1. ev \in [Procs -> Event] /\ epc \in [Procs -> Reading \cup {"idle"}]
    BY DEF EnvironmentTyped
<1>2. /\ epc'[p] = "append" /\ seenKeys' = seenKeys \cup {ev[p].key}
      /\ UNCHANGED <<kept, dedupKeys, stage>> /\ ev' = [ev EXCEPT ![p].fresh = ResetOver]
      /\ \A q \in Procs : q # p => ev'[q] = ev[q] /\ epc'[q] = epc[q]
    BY <1>1 DEF shouldRecordKey, ReadGoes, Going, start
<1>3. /\ m.id = ev[p].id /\ m.key = ev[p].key /\ m.by = p /\ m.dedup /\ m.after = ev[p].after
      /\ m.fresh = ResetOver
  <2>1. ev[p].by = p /\ ev[p].dedup
      BY DEF Numbered, Reading, Deduplicated, About
  <2>2. QED
      BY <1>1, <1>2, <2>1 DEF Event
<1> HIDE DEF m
<1>4. Marked' = Marked \cup {m} /\ ResetOver' = ResetOver
  <2>1. {ev'[q] : q \in {r \in Procs : epc'[r] = "append"}}
          = {ev[q] : q \in {r \in Procs : epc[r] = "append"}} \cup {m}
      BY <1>2 DEF m
  <2>2. QED
      BY <1>2, <1>3, <2>1 DEF Marked, ResetOver
<1>5. /\ \A e \in Marked : e.id # m.id
      /\ \A i \in m.after : \E f \in Marked : f.id = i
      /\ \A e \in Marked : e.key = m.key /\ (e.id \in m.after \/ e.by = p) =>
            ~e.fresh /\ m.fresh
      /\ dedupKeys
    BY <1>3, NotYetMarked DEF Deduplicated, About
<1>6. MarksAreSeen'
  <2>1. ASSUME NEW e \in Marked \cup {m}
        PROVE  /\ dedupKeys /\ (e.fresh => ResetOver)
               /\ e.fresh \/ ~ResetOver => e.key \in seenKeys'
               /\ \A i \in e.after : \E f \in Marked : f.id = i
      BY <1>2, <1>3, <1>5 DEF Deduplicated, MarksAreSeen
  <2>2. QED
      BY <1>2, <1>4, <2>1 DEF MarksAreSeen
<1>7. \A e \in Marked : m.id \notin e.after
    BY <1>5 DEF Deduplicated, MarksAreSeen
<1>8. MarksAreFirst'
  <2>1. m.id \notin m.after
      BY <1>5
  <2>2. ASSUME NEW e \in Marked \cup {m}, NEW f \in Marked \cup {m}, e.key = f.key, e # f
        PROVE  /\ e.id \in f.after => ~e.fresh /\ f.fresh
               /\ e.by = f.by => e.fresh # f.fresh
      BY <1>3, <1>5, <1>7, <2>2 DEF Deduplicated, MarksAreFirst
  <2>3. QED
      BY <1>4, <2>2 DEF MarksAreFirst
<1>9. ASSUME NEW q \in Procs PROVE About(q)'
  <2>1. CASE q = p
      BY <1>2, <2>1 DEF About
  <2>2. CASE q # p
    <3>1. About(q) /\ epc'[q] = epc[q] /\ ev'[q] = ev[q]
        BY <1>2, <2>2 DEF Deduplicated
    <3>2. epc[q] = "mark" => m.id \notin ev[q].after
        BY <1>5, <3>1 DEF About
    <3>3. QED
        BY <1>2, <1>3, <1>4, <2>2, <3>1, <3>2 DEF About
  <2>3. QED
      BY <2>1, <2>2
<1>10. QED
    BY <1>2, <1>6, <1>8, <1>9 DEF Deduplicated

LEMMA GoDeduplicated ==
    ASSUME EnvironmentTyped, Numbered, Deduplicated, NEW p \in Procs, Going(p) PROVE Deduplicated'
<1>1. /\ \A q \in Procs : q # p => ev'[q] = ev[q] /\ epc'[q] = epc[q]
      /\ UNCHANGED <<dedupKeys, stage>> /\ epc[p] \in Reading
    BY SameNumbers DEF Going, start
<1>2. ev \in [Procs -> Event] /\ epc \in [Procs -> Reading \cup {"idle"}]
    BY DEF EnvironmentTyped
<1>3. ResetOver' = ResetOver
    BY <1>1 DEF ResetOver
<1>4. CASE observerEnv(p)
  <2>1. /\ UNCHANGED <<kept, seenKeys>> /\ epc[p] = "check"
        /\ epc'[p] = IF ~recording THEN "notify" ELSE IF dedupKeys THEN "seen" ELSE "append"
        /\ ev'[p].dedup = dedupKeys
      BY <1>2, <1>4 DEF observerEnv, ReadGoes, Event
  <2>2. Marked' = Marked
      BY <1>1, <2>1 DEF Marked
  <2>3. About(p)'
      BY <1>1, <2>1 DEF About
  <2>4. QED
      BY <1>1, <1>3, <2>1, <2>2, <2>3, NothingMarked
<1>5. CASE shouldRecordKey(p) /\ epc[p] = "seen"
  <2>1. /\ UNCHANGED <<kept, seenKeys>>
        /\ epc'[p] = IF ev[p].key \in seenKeys THEN "notify" ELSE "mark"
        /\ ev' = [ev EXCEPT ![p].after = {e.id : e \in {m \in Marked : m.key = ev[p].key}}]
      BY <1>2, <1>5 DEF shouldRecordKey, ReadGoes
  <2>2. /\ ev'[p].after = {e.id : e \in {m \in Marked : m.key = ev[p].key}}
        /\ ev'[p].key = ev[p].key /\ ev'[p].dedup = ev[p].dedup
      BY <1>2, <2>1 DEF Event
  <2>3. Marked' = Marked
      BY <1>1, <1>5, <2>1 DEF Marked
  <2>4. About(p)'
    <3>1. ev[p].key \notin seenKeys =>
             \A e \in Marked : e.key = ev[p].key => ~e.fresh /\ ResetOver
        BY DEF Deduplicated, MarksAreSeen
    <3>2. dedupKeys /\ ev[p].dedup
        BY <1>5 DEF Deduplicated, About
    <3>3. \A i \in ev'[p].after : \E f \in Marked : f.id = i
        BY <2>2
    <3>4. QED
        BY <1>1, <1>3, <2>1, <2>2, <2>3, <3>1, <3>2, <3>3 DEF About
  <2>5. QED
      BY <1>1, <1>3, <2>1, <2>3, <2>4, NothingMarked
<1>6. CASE shouldRecordKey(p) /\ epc[p] = "mark"
    BY <1>6, MarkDeduplicated
<1>7. CASE Record(p)
  <2>1. /\ UNCHANGED <<ev, seenKeys>> /\ kept' = kept \cup {ev[p]} /\ epc[p] = "append"
        /\ epc'[p] = "notify"
      BY <1>2, <1>7 DEF Record, ReadGoes
  <2>2. Marked' = Marked
      BY <1>1, <2>1 DEF Marked
  <2>3. QED
      BY <1>1, <1>3, <2>1, <2>2, NothingMarked
<1>8. CASE notifyObservers(p) \/ Tell(p)
  <2>1. /\ UNCHANGED <<kept, ev, seenKeys>> /\ epc'[p] \in {"call", "idle"}
        /\ epc[p] \in {"notify", "call"}
      BY <1>2, <1>8 DEF notifyObservers, Tell, ReadGoes
  <2>2. Marked' = Marked
      BY <1>1, <2>1 DEF Marked
  <2>3. QED
      BY <1>1, <1>3, <2>1, <2>2, NothingMarked
<1>9. shouldRecordKey(p) => epc[p] \in {"seen", "mark"}
    BY DEF shouldRecordKey, ReadGoes
<1>10. QED
    BY <1>4, <1>5, <1>6, <1>7, <1>8, <1>9 DEF Going, Goes

LEMMA BeginDeduplicated ==
    ASSUME EnvironmentTyped, Deduplicated, NEW p \in Procs, Begins(p), stage' = stage
    PROVE  Deduplicated'
<1>1. /\ UNCHANGED <<kept, dedupKeys, seenKeys>> /\ epc'[p] \in {"check", "idle"}
      /\ epc[p] = "idle" /\ \A q \in Procs : q # p => ev'[q] = ev[q] /\ epc'[q] = epc[q]
    BY DEF Begins, get, ReadGoes, recorder, EnvironmentTyped
<1>2. Marked' = Marked /\ ResetOver' = ResetOver
    BY <1>1 DEF Marked, ResetOver
<1>3. QED
    BY <1>1, <1>2, NothingMarked

LEMMA SetupDeduplicated ==
    ASSUME EnvironmentTyped, Deduplicated, SetsUp PROVE Deduplicated'
<1>1. UNCHANGED <<kept, epc, ev>> /\ Marked' = Marked
    BY DEF SetsUp, reader, Marked
<1>2. CASE EnableDedupKeys
  <2>1. stage = "dedup" /\ stage' \in {"reset", "register"} /\ ~dedupKeys
      BY <1>2 DEF EnableDedupKeys, Deduplicated
  <2>2. Marked = {} /\ \A p \in Procs : epc[p] \notin {"seen", "mark"}
      BY <2>1 DEF Deduplicated, MarksAreSeen, About
  <2>3. QED
      BY <1>1, <2>1, <2>2 DEF Deduplicated, MarksAreSeen, MarksAreFirst, About
<1>3. CASE ResetSeenKeys
  <2>1. ~ResetOver /\ ResetOver' /\ dedupKeys' = dedupKeys /\ stage' = "register"
      BY <1>3 DEF ResetSeenKeys, ResetOver
  <2>2. \A e \in Marked : ~e.fresh
      BY <2>1 DEF Deduplicated, MarksAreSeen
  <2>3. MarksAreSeen' /\ MarksAreFirst'
      BY <1>1, <2>1, <2>2 DEF Deduplicated, MarksAreSeen, MarksAreFirst
  <2>4. ASSUME NEW p \in Procs PROVE About(p)'
      BY <1>1, <2>1, <2>2 DEF Deduplicated, About
  <2>5. QED
      BY <2>1, <2>3, <2>4 DEF Deduplicated
<1>4. CASE ~EnableDedupKeys /\ ~ResetSeenKeys
  <2>1. /\ UNCHANGED <<dedupKeys, seenKeys>> /\ (ResetOver' <=> ResetOver)
        /\ stage' \in {"start", "ask", "setup", "dedup"} => stage \in {"start", "ask", "setup"}
    <3>1. CASE ConfigureEnvironment \/ setupEnvutil \/ AllAsked
        BY <3>1 DEF ConfigureEnvironment, setupEnvutil, AllAsked, Ask, recorder, ResetOver
    <3>2. CASE RegisterObserver \/ AllRegistered \/ LoadFile \/ Loaded \/ Setenv \/ setupAuditFile
        BY <3>2 DEF RegisterObserver, AllRegistered, LoadFile, Loaded, Setenv, setupAuditFile,
               recorder, ResetOver
    <3>3. QED
        BY <1>4, <3>1, <3>2 DEF SetsUp, Begun
  <2>2. MarksAreSeen' /\ MarksAreFirst' /\ \A p \in Procs : About(p)'
      BY <1>1, <2>1 DEF Deduplicated, MarksAreSeen, MarksAreFirst, About
  <2>3. QED
      BY <2>1, <2>2 DEF Deduplicated
<1>5. QED
    BY <1>2, <1>3, <1>4

LEMMA DeduplicatedStep ==
    ASSUME EnvironmentTyped, Numbered, Deduplicated, EnvironmentMoves PROVE Deduplicated'
<1>1. CASE UNCHANGED <<stage, dedupKeys, seenKeys, kept, epc, ev>>
  <2>1. Marked' = Marked /\ ResetOver' = ResetOver
      BY <1>1 DEF Marked, ResetOver
  <2>2. QED
      BY <1>1, <2>1, NothingMarked
<1>2. CASE Ending \/ \E o \in observers : Unregister(o)
    BY <1>1, <1>2 DEF Ending, Unregister, start, recorder, reader
<1>3. CASE Asking \/ \E p \in Procs : Beginning(p)
    BY <1>3, BeginDeduplicated, EnvironmentAssumption DEF Asking, Beginning, start
<1>4. QED
    BY <1>2, <1>3, SetupDeduplicated, GoDeduplicated DEF EnvironmentMoves

LEMMA KeptAreFirst == Deduplicated => FirstOnly
BY DEF Deduplicated, MarksAreFirst, Marked, FirstOnly

-----------------------------------------------------------------------------
(* The environment: who is told                                            *)

LEMMA GoWatching ==
    ASSUME EnvironmentTyped, Watching, NEW p \in Procs, Going(p) PROVE Watching'
<1>1. /\ \A q \in Procs : ev'[q].id = ev[q].id
      /\ \A q \in Procs : q # p => epc'[q] = epc[q]
      /\ due' = due /\ UNCHANGED <<observers, hasObservers>>
    BY SameNumbers DEF Going, watchers
<1>2. /\ epc \in [Procs -> Reading \cup {"idle"}] /\ copy \in [Procs -> SUBSET Watchers]
    BY DEF EnvironmentTyped
<1>3. /\ hasObservers <=> observers # {}
      /\ missed = {}
    BY DEF Watching
<1>4. ASSUME NEW q \in Procs
      PROVE  /\ epc[q] \in Reading \ {"call"} => due[q] \subseteq observers
             /\ epc[q] = "call" => \A o \in due[q] : o \in copy[q] \/ <<o, ev[q].id>> \in told
    BY DEF Watching
<1>5. CASE observerEnv(p) \/ shouldRecordKey(p) \/ Record(p)
  <2>1. /\ UNCHANGED <<copy, told, missed>> /\ epc[p] \in Reading \ {"call"}
        /\ epc'[p] # "call"
      BY <1>2, <1>5 DEF observerEnv, shouldRecordKey, Record, ReadGoes, Reading
  <2>2. QED
      BY <1>1, <1>3, <1>4, <2>1 DEF Watching
<1>6. CASE notifyObservers(p)
  <2>1. /\ told' = told /\ due[p] \subseteq observers
        /\ epc'[p] = IF hasObservers /\ observers # {} THEN "call" ELSE "idle"
        /\ copy'[p] = IF hasObservers THEN observers ELSE {}
        /\ \A q \in Procs : q # p => copy'[q] = copy[q]
        /\ missed' = IF epc'[p] = "idle" THEN missed \cup Missed(p, told) ELSE missed
      BY <1>2, <1>4, <1>6 DEF notifyObservers, ReadGoes, Reading
  <2>2. missed' = {}
      BY <1>3, <2>1 DEF Missed
  <2>3. epc'[p] = "call" => copy'[p] = observers
      BY <2>1
  <2>4. epc'[p] \notin Reading \ {"call"}
      BY <2>1 DEF Reading
  <2>5. QED
      BY <1>1, <1>3, <1>4, <2>1, <2>2, <2>3, <2>4 DEF Watching
<1>7. CASE Tell(p)
  <2>1. PICK o \in copy[p] :
           /\ copy' = [copy EXCEPT ![p] = @ \ {o}] /\ told' = told \cup {<<o, ev[p].id>>}
           /\ epc' = [epc EXCEPT ![p] = IF copy[p] = {o} THEN "idle" ELSE "call"]
           /\ missed' = IF copy[p] = {o} THEN missed \cup Missed(p, told') ELSE missed
      BY <1>7 DEF Tell
  <2>2. epc[p] = "call"
      BY <1>7 DEF Tell
  <2>3. \A w \in due[p] : w \in copy[p] \ {o} \/ <<w, ev[p].id>> \in told'
      BY <1>4, <2>1, <2>2
  <2>4. missed' = {}
      BY <1>3, <2>1, <2>3 DEF Missed
  <2>5. /\ copy'[p] = copy[p] \ {o} /\ \A q \in Procs : q # p => copy'[q] = copy[q]
        /\ epc'[p] \in {"idle", "call"} /\ told \subseteq told'
      BY <1>2, <2>1
  <2>6. epc'[p] \notin Reading \ {"call"}
      BY <2>5 DEF Reading
  <2>7. QED
      BY <1>1, <1>3, <1>4, <2>3, <2>4, <2>5, <2>6 DEF Watching
<1>8. QED
    BY <1>5, <1>6, <1>7 DEF Going, Goes

LEMMA BeginWatching ==
    ASSUME EnvironmentTyped, Watching, NEW p \in Procs, Begins(p) PROVE Watching'
<1>1. /\ UNCHANGED <<copy, told, missed, observers, hasObservers>>
      /\ epc'[p] \in {"check", "idle"} /\ due'[p] = observers
      /\ \A q \in Procs : q # p => ev'[q] = ev[q] /\ epc'[q] = epc[q] /\ due'[q] = due[q]
    BY DEF Begins, get, ReadGoes, watchers, EnvironmentTyped
<1>2. QED
    BY <1>1 DEF Watching

LEMMA WatchingStep ==
    ASSUME EnvironmentTyped, Watching, EnvironmentMoves PROVE Watching'
<1>1. CASE UNCHANGED <<watchers, epc, ev, copy, told, due, missed>>
    BY <1>1 DEF Watching, watchers
<1>2. CASE RegisterObserver /\ SetsUp
  <2>1. /\ observers \subseteq observers' /\ observers' # {} /\ hasObservers' = TRUE
        /\ UNCHANGED <<epc, ev, copy, told, due, missed>>
      BY <1>2 DEF RegisterObserver, SetsUp, reader
  <2>2. QED
      BY <2>1 DEF Watching
<1>3. CASE SetsUp /\ ~RegisterObserver
    BY <1>1, <1>3 DEF SetsUp, Begun, AllAsked, ConfigureEnvironment, Ask, setupEnvutil,
           EnableDedupKeys, ResetSeenKeys, AllRegistered, LoadFile, Loaded, Setenv, setupAuditFile, reader
<1>4. CASE Ending
    BY <1>1, <1>4 DEF Ending, reader
<1>5. ASSUME NEW o \in observers, Unregister(o) PROVE Watching'
  <2>1. /\ observers' = observers \ {o} /\ hasObservers' = (observers # {o})
        /\ due' = [p \in Procs |-> due[p] \ {o}]
        /\ UNCHANGED <<epc, ev, copy, told, missed>>
      BY <1>5 DEF Unregister, Removed
  <2>2. QED
      BY <1>5, <2>1 DEF Watching
<1>6. CASE Asking \/ \E p \in Procs : Beginning(p)
    BY <1>6, BeginWatching, EnvironmentAssumption DEF Asking, Beginning
<1>7. QED
    BY <1>2, <1>3, <1>4, <1>5, <1>6, GoWatching DEF EnvironmentMoves

-----------------------------------------------------------------------------
(* The environment: the theorems                                           *)

LEMMA EnvironmentStep == NInv /\ [EnvironmentNext]_environmentVars => NInv'
<1>1. CASE NInv /\ EnvironmentNext
  <2>1. EnvironmentMoves
      BY <1>1, EveryMove DEF NInv
  <2>2. EnvironmentTyped' /\ Loading' /\ Setting'
      BY <1>1, <2>1, EnvironmentTypedStep, LoadingStep, SettingStep DEF NInv
  <2>3. Auditing' /\ EventsAreKept' /\ Numbered'
      BY <1>1, <2>1, AuditingStep, EventsAreKeptStep, NumberedStep DEF NInv
  <2>4. Deduplicated' /\ Watching'
      BY <1>1, <2>1, DeduplicatedStep, WatchingStep DEF NInv
  <2>5. QED
      BY <2>2, <2>3, <2>4 DEF NInv
<1>2. CASE NInv /\ UNCHANGED environmentVars
  <2>1. UNCHANGED <<opts, env0, env, stage, ahead, loader, recording, dedupKeys, seenKeys,
                    hasObservers, observers, epc, ev, copy, reads, told, due, missed, kept,
                    events, batch, written, lost, writer, output, hung, hooks, down>>
      BY <1>2 DEF environmentVars, start, recorder, watchers, reader, audit
  <2>2. EnvironmentTyped' /\ Auditing' /\ EventsAreKept' /\ Numbered'
      BY <1>2, <2>1 DEF NInv, EnvironmentTyped, Auditing, EventsAreKept, Held, Numbered
  <2>3. Deduplicated' /\ Watching'
    <3>1. Marked' = Marked /\ ResetOver' = ResetOver
        BY <2>1 DEF Marked, ResetOver
    <3>2. QED
        BY <1>2, <2>1, <3>1, NothingMarked DEF NInv, Watching
  <2>4. Loading'
    <3>1. \A n : MergedTo(n)' = MergedTo(n) /\ FilesOk(n)' = FilesOk(n)
        BY <2>1 DEF MergedTo, FilesOk, LoadedFrom, Vars
    <3>2. QED
        BY <1>2, <2>1, <3>1 DEF NInv, Loading, Files
  <2>5. Setting'
      BY <1>2, <2>1 DEF NInv, Setting, Final, FilesOk, Files
  <2>6. QED
      BY <2>2, <2>3, <2>4, <2>5 DEF NInv
<1>3. QED
    BY <1>1, <1>2

\* In every start: what is loaded is the files so far in their order, a variable is final or
\* still to be set, reads are numbered and their events recorded once, and a key that was
\* marked is seen until the reset of EnableDedupKeys (startup.go, envutil/record.go).
THEOREM EnvironmentInvariant == EnvironmentSpec => []NInv
<1>1. QED
    BY EnvironmentInitInv, EnvironmentStep, PTL DEF EnvironmentSpec

\* When the start is over the environment is the merge of the files over or under what was
\* set; until every file is loaded nothing is set.
LEMMA FilesMerged == NInv => EnvIsMerged
<1> SUFFICES ASSUME NInv PROVE EnvIsMerged
    OBVIOUS
<1>1. /\ Files \in Nat /\ DOMAIN opts.files = 1 .. Files
    BY StartsTyped DEF NInv, EnvironmentTyped
<1>2. env = [k \in Keys |-> env[k]] /\ env0 = [k \in Keys |-> env0[k]]
    BY EnvironmentAssumption DEF NInv, EnvironmentTyped
<1>3. CASE \A i \in DOMAIN opts.files : opts.files[i].ok
  <2>1. ASSUME stage = "done", NEW k \in Keys
        PROVE  IF InNoFile(k) \/ (env0[k] # NotSet /\ ~opts.allowOverride)
               THEN env[k] = env0[k]
               ELSE \E i \in DOMAIN opts.files : FromFile(k, i)
    <3>1. env[k] = Final(k) /\ MergedTo(Files)
        BY <2>1 DEF NInv, Setting, Loading
    <3>2. CASE k \in DOMAIN loader
      <4>1. PICK i \in 1 .. Files : LoadedFrom(k, Files, i)
          BY <3>1, <3>2 DEF MergedTo
      <4>2. ~InNoFile(k)
          BY <1>1, <4>1 DEF LoadedFrom, InNoFile, Vars
      <4>3. env[k] = loader[k] => FromFile(k, i)
          BY <1>1, <4>1 DEF LoadedFrom, FromFile, Vars
      <4>4. QED
          BY <1>1, <3>1, <3>2, <4>2, <4>3 DEF Final
    <3>3. CASE k \notin DOMAIN loader
      <4>1. InNoFile(k)
          BY <1>1, <3>1, <3>3 DEF MergedTo, InNoFile, Vars
      <4>2. QED
          BY <3>1, <3>3, <4>1 DEF Final
    <3>4. QED
        BY <3>2, <3>3
  <2>2. QED
      BY <1>3, <2>1 DEF EnvIsMerged
<1>4. CASE ~\A i \in DOMAIN opts.files : opts.files[i].ok
  <2>1. ~FilesOk(Files)
      BY <1>1, <1>4 DEF FilesOk
  <2>2. stage \notin {"set", "done"}
      BY <2>1 DEF NInv, Loading
  <2>3. env = env0
      BY <2>1, <2>2 DEF NInv, Setting, EnvironmentTyped
  <2>4. QED
      BY <1>4, <2>3 DEF EnvIsMerged
<1>5. QED
    BY <1>3, <1>4

\* EnvironmentIsTrue: the environment is what the files make of it; an event is recorded,
\* written or dropped by a failed write, once; with the keys deduplicated a goroutine records
\* a key once before and once after the reset of EnableDedupKeys, and no two do that look
\* one after the other's mark, but around it; no observer misses a read it was registered
\* for (startup/startup.go, envutil/record.go).
THEOREM EnvironmentsAreTrue == EnvironmentSpec => []EnvironmentIsTrue
<1>1. NInv => EnvironmentIsTrue
    BY FilesMerged, KeptAreFirst DEF NInv, Watching, AllTold, EnvironmentIsTrue
<1>2. QED
    BY <1>1, EnvironmentInvariant, PTL


-----------------------------------------------------------------------------
(* A transport: the steps                                                  *)

LEMMA TransportInitInv == TransportInit => TInv
<1> SUFFICES ASSUME TransportInit PROVE TInv
    OBVIOUS
<1>1. /\ tpc = [c \in Clients |-> "out"] /\ pooled = {} /\ prefer = [c \in Clients |-> TRUE]
      /\ DOMAIN instances = {} /\ given = [c \in Clients |-> NoTransport]
      /\ body = [c \in Clients |-> "none"] /\ decoder = [c \in Clients |-> "none"]
    BY DEF TransportInit
<1>2. \A c \in Clients : want[c].ctx \in Contexts
    BY DEF TransportInit, Asks
<1>3. TransportTyped
    BY <1>1, <1>2 DEF TransportTyped
<1>4. \A c \in Clients : ~Shared(c)
    BY <1>1, TransportAssumption DEF Shared, NoTransport
<1>5. Choosing /\ Bodies
    BY <1>1, <1>4 DEF Choosing, Bodies
<1>6. QED
    BY <1>3, <1>5 DEF TInv

\* Somebody else's step.
LEMMA OtherClientsStay ==
    ASSUME TInv, NEW c \in Clients, NEW d \in Clients, d # c, want' = want,
           given' = given \/ (\E g : given' = [given EXCEPT ![c] = g]),
           prefer' = prefer \/ (\E p : prefer' = [prefer EXCEPT ![c] = p])
    PROVE  /\ given'[d] = given[d] /\ prefer'[d] = prefer[d]
           /\ Shared(d)' = Shared(d) /\ Chosen(d)' = Chosen(d) /\ Decompressed(d)' = Decompressed(d)
<1>1. given'[d] = given[d] /\ prefer'[d] = prefer[d]
    BY DEF TInv, TransportTyped
<1>2. QED
    BY <1>1 DEF Shared, Chosen, Decompressed, flagsOf

LEMMA ContextKeeps ==
    ASSUME TInv, NEW c \in Clients, getTransportFromContext(c)
    PROVE  TInv'
<1>1. /\ UNCHANGED <<want, pooled, prefer, instances, body, decoder>> /\ tpc[c] = "out"
    BY DEF getTransportFromContext, ClientGoes
<1>2. given[c] = NoTransport /\ body[c] = "none" /\ decoder[c] = "none"
    BY <1>1 DEF TInv, Choosing, Bodies
<1>3. \/ tpc' = [tpc EXCEPT ![c] = "got"]
         /\ given' = [given EXCEPT ![c] = [NoTransport EXCEPT !.by = want[c].ctx.transport]]
      \/ tpc' = [tpc EXCEPT ![c] = "options"] /\ given' = given
    BY DEF getTransportFromContext, ClientGoes, Given
<1>4. TransportTyped'
    BY <1>1, <1>3 DEF TInv, TransportTyped
<1>5. ~Shared(c)'
  <2>1. want[c].ctx.transport \notin Clients /\ "none" \notin Clients
      BY TransportAssumption DEF TInv, TransportTyped
  <2>2. given'[c].by = want[c].ctx.transport \/ given'[c].by = "none"
      BY <1>2, <1>3 DEF NoTransport, TInv, TransportTyped
  <2>3. QED
      BY <2>1, <2>2 DEF Shared
<1>6. Choosing'
  <2> SUFFICES ASSUME NEW d \in Clients
               PROVE  /\ tpc'[d] = "choose" => pooled' # {} /\ prefer'[d] = (TRUE \in pooled')
                      /\ tpc'[d] \in {"out", "options", "choose"} => given'[d] = NoTransport
                      /\ Shared(d)' => /\ pooled' # {} /\ prefer'[d] = (TRUE \in pooled')
                           /\ given'[d].flags = Chosen(d)' /\ given'[d].flags \in DOMAIN instances'
                           /\ given'[d].by = instances'[given'[d].flags]
                           /\ given'[d].decompressor = Decompressed(d)'
      BY DEF Choosing
  <2>1. CASE d = c
      BY <1>2, <1>3, <1>5, <2>1 DEF TInv, TransportTyped
  <2>2. CASE d # c
    <3>1. tpc'[d] = tpc[d]
        BY <1>3, <2>2 DEF TInv, TransportTyped
    <3>2. /\ given'[d] = given[d] /\ prefer'[d] = prefer[d]
          /\ Shared(d)' = Shared(d) /\ Chosen(d)' = Chosen(d) /\ Decompressed(d)' = Decompressed(d)
        BY <1>1, <1>3, <2>2, OtherClientsStay
    <3>3. /\ tpc[d] = "choose" => pooled # {} /\ prefer[d] = (TRUE \in pooled)
          /\ tpc[d] \in {"out", "options", "choose"} => given[d] = NoTransport
          /\ Shared(d) => /\ pooled # {} /\ prefer[d] = (TRUE \in pooled)
                          /\ given[d].flags = Chosen(d) /\ given[d].flags \in DOMAIN instances
                          /\ given[d].by = instances[given[d].flags]
                          /\ given[d].decompressor = Decompressed(d)
        BY DEF TInv, Choosing
    <3>4. QED
        BY <1>1, <3>1, <3>2, <3>3
  <2>3. QED
      BY <2>1, <2>2
<1>7. Bodies'
    BY <1>1, <1>2, <1>3 DEF TInv, TransportTyped, Bodies
<1>8. QED
    BY <1>4, <1>6, <1>7 DEF TInv

LEMMA OptionsKeep ==
    ASSUME TInv, NEW c \in Clients, readOptions(c)
    PROVE  TInv'
<1>1. /\ UNCHANGED <<want, instances, given, body, decoder>> /\ tpc[c] = "options"
      /\ tpc' = [tpc EXCEPT ![c] = "choose"]
      /\ prefer' = [prefer EXCEPT ![c] = \E p \in pooled' : p]
      /\ pooled' = IF pooled = {} THEN {want[c].ctx.pooled} ELSE pooled
    BY DEF readOptions, ClientGoes
<1>2. given[c] = NoTransport /\ body[c] = "none" /\ decoder[c] = "none"
    BY <1>1 DEF TInv, Choosing, Bodies
<1>3. want[c].ctx.pooled \in BOOLEAN
    BY TransportAssumption DEF TInv, TransportTyped
<1>4. pooled' \in {{TRUE}, {FALSE}} /\ (pooled # {} => pooled' = pooled)
  <2>1. want[c].ctx.pooled = TRUE \/ want[c].ctx.pooled = FALSE
      BY <1>3
  <2>2. QED
      BY <1>1, <2>1 DEF TInv, TransportTyped
<1>5. (\E p \in pooled' : p) = (TRUE \in pooled')
  <2>1. CASE pooled' = {TRUE}
      BY <2>1, Zenon
  <2>2. CASE pooled' = {FALSE}
    <3>1. (TRUE \in pooled') = FALSE
        BY <2>2
    <3>2. (\E p \in pooled' : p) = FALSE
        BY <2>2
    <3>3. QED
        BY <3>1, <3>2
  <2>3. QED
      BY <1>4, <2>1, <2>2
<1>6. TransportTyped'
    BY <1>1, <1>4 DEF TInv, TransportTyped
<1>7. ~Shared(c)'
    BY <1>1, <1>2, TransportAssumption DEF Shared, NoTransport
<1>8. Choosing'
  <2> SUFFICES ASSUME NEW d \in Clients
               PROVE  /\ tpc'[d] = "choose" => pooled' # {} /\ prefer'[d] = (TRUE \in pooled')
                      /\ tpc'[d] \in {"out", "options", "choose"} => given'[d] = NoTransport
                      /\ Shared(d)' => /\ pooled' # {} /\ prefer'[d] = (TRUE \in pooled')
                           /\ given'[d].flags = Chosen(d)' /\ given'[d].flags \in DOMAIN instances'
                           /\ given'[d].by = instances'[given'[d].flags]
                           /\ given'[d].decompressor = Decompressed(d)'
      BY DEF Choosing
  <2>1. CASE d = c
    <3>1. prefer'[c] = (TRUE \in pooled')
        BY <1>1, <1>5 DEF TInv, TransportTyped
    <3>2. QED
        BY <1>1, <1>2, <1>4, <1>7, <2>1, <3>1
  <2>2. CASE d # c
    <3>1. tpc'[d] = tpc[d]
        BY <1>1, <2>2 DEF TInv, TransportTyped
    <3>2. /\ given'[d] = given[d] /\ prefer'[d] = prefer[d]
          /\ Shared(d)' = Shared(d) /\ Chosen(d)' = Chosen(d) /\ Decompressed(d)' = Decompressed(d)
        BY <1>1, <2>2, OtherClientsStay
    <3>3. /\ tpc[d] = "choose" => pooled # {} /\ prefer[d] = (TRUE \in pooled)
          /\ tpc[d] \in {"out", "options", "choose"} => given[d] = NoTransport
          /\ Shared(d) => /\ pooled # {} /\ prefer[d] = (TRUE \in pooled)
                          /\ given[d].flags = Chosen(d) /\ given[d].flags \in DOMAIN instances
                          /\ given[d].by = instances[given[d].flags]
                          /\ given[d].decompressor = Decompressed(d)
        BY DEF TInv, Choosing
    <3>4. QED
        BY <1>1, <1>4, <3>1, <3>2, <3>3
  <2>3. QED
      BY <2>1, <2>2
<1>9. Bodies'
    BY <1>1, <1>2 DEF TInv, TransportTyped, Bodies
<1>10. QED
    BY <1>6, <1>8, <1>9 DEF TInv

LEMMA InstanceKeeps ==
    ASSUME TInv, NEW c \in Clients, getTransportInstance(c)
    PROVE  TInv'
<1> DEFINE f == Chosen(c)
           by == IF f \in DOMAIN instances THEN instances[f] ELSE c
           mine == [NoTransport EXCEPT !.by = Mine, !.decompressor = Decompressed(c)]
           shared == [flags |-> f, by |-> by, decompressor |-> Decompressed(c)]
<1>1. /\ UNCHANGED <<want, pooled, prefer, body, decoder>> /\ tpc[c] = "choose"
      /\ tpc' = [tpc EXCEPT ![c] = "got"]
    BY DEF getTransportInstance, ClientGoes
<1>2. \/ given' = [given EXCEPT ![c] = mine] /\ instances' = instances
      \/ /\ given' = [given EXCEPT ![c] = shared]
         /\ instances' = [g \in DOMAIN instances \cup {f} |-> IF g = f THEN by ELSE instances[g]]
    BY DEF getTransportInstance
<1>3. /\ pooled # {} /\ prefer[c] = (TRUE \in pooled)
      /\ body[c] = "none" /\ decoder[c] = "none"
    BY <1>1 DEF TInv, Choosing, Bodies
<1>4. /\ \A g \in DOMAIN instances : g \in DOMAIN instances' /\ instances'[g] = instances[g]
      /\ \A g \in DOMAIN instances' : instances'[g] \in Clients
    BY <1>2 DEF TInv, TransportTyped
<1>5. Chosen(c)' = f /\ Decompressed(c)' = Decompressed(c)
    BY <1>1 DEF Chosen, Decompressed, flagsOf
<1>6. Shared(c)' => /\ given'[c].flags = f /\ f \in DOMAIN instances'
                    /\ given'[c].by = instances'[f] /\ given'[c].decompressor = Decompressed(c)
  <2>1. CASE given' = [given EXCEPT ![c] = mine] /\ instances' = instances
    <3>1. given'[c].by = Mine
        BY <2>1 DEF NoTransport, TInv, TransportTyped
    <3>2. QED
        BY <3>1, TransportAssumption DEF Shared
  <2>2. CASE /\ given' = [given EXCEPT ![c] = shared]
             /\ instances' = [g \in DOMAIN instances \cup {f} |-> IF g = f THEN by ELSE instances[g]]
    <3>1. given'[c] = shared
        BY <2>2 DEF TInv, TransportTyped
    <3>2. f \in DOMAIN instances' /\ instances'[f] = by
        BY <2>2
    <3>3. QED
        BY <3>1, <3>2
  <2>3. QED
      BY <1>2, <2>1, <2>2
<1>7. TransportTyped'
  <2>1. given' = [d \in Clients |-> given'[d]]
      BY <1>2 DEF TInv, TransportTyped
  <2>2. QED
      BY <1>1, <1>4, <2>1 DEF TInv, TransportTyped
<1>8. Choosing'
  <2> SUFFICES ASSUME NEW d \in Clients
               PROVE  /\ tpc'[d] = "choose" => pooled' # {} /\ prefer'[d] = (TRUE \in pooled')
                      /\ tpc'[d] \in {"out", "options", "choose"} => given'[d] = NoTransport
                      /\ Shared(d)' => /\ pooled' # {} /\ prefer'[d] = (TRUE \in pooled')
                           /\ given'[d].flags = Chosen(d)' /\ given'[d].flags \in DOMAIN instances'
                           /\ given'[d].by = instances'[given'[d].flags]
                           /\ given'[d].decompressor = Decompressed(d)'
      BY DEF Choosing
  <2>1. CASE d = c
    <3>1. tpc'[c] = "got"
        BY <1>1 DEF TInv, TransportTyped
    <3>2. QED
        BY <1>1, <1>3, <1>5, <1>6, <2>1, <3>1
  <2>2. CASE d # c
    <3>1. tpc'[d] = tpc[d]
        BY <1>1, <2>2 DEF TInv, TransportTyped
    <3>2. /\ given'[d] = given[d] /\ prefer'[d] = prefer[d]
          /\ Shared(d)' = Shared(d) /\ Chosen(d)' = Chosen(d) /\ Decompressed(d)' = Decompressed(d)
        BY <1>1, <1>2, <2>2, OtherClientsStay
    <3>3. /\ tpc[d] = "choose" => pooled # {} /\ prefer[d] = (TRUE \in pooled)
          /\ tpc[d] \in {"out", "options", "choose"} => given[d] = NoTransport
          /\ Shared(d) => /\ pooled # {} /\ prefer[d] = (TRUE \in pooled)
                          /\ given[d].flags = Chosen(d) /\ given[d].flags \in DOMAIN instances
                          /\ given[d].by = instances[given[d].flags]
                          /\ given[d].decompressor = Decompressed(d)
        BY DEF TInv, Choosing
    <3>4. QED
        BY <1>1, <1>4, <3>1, <3>2, <3>3
  <2>3. QED
      BY <2>1, <2>2
<1>9. Bodies'
    BY <1>1, <1>3 DEF TInv, TransportTyped, Bodies
<1>10. QED
    BY <1>7, <1>8, <1>9 DEF TInv

\* The request and its body: what was given stays what it is.
RoundTrips(c) == RoundTripFails(c) \/ Plain(c) \/ Compressed(c) \/ Malformed(c) \/ CloseBody(c)
LEMMA RoundTripKeeps ==
    ASSUME TInv, NEW c \in Clients, RoundTrips(c)
    PROVE  TInv'
<1>1. /\ UNCHANGED <<want, pooled, prefer, instances, given>>
      /\ tpc[c] \in {"got", "sent"} /\ tpc' = [tpc EXCEPT ![c] = tpc'[c]]
      /\ tpc'[c] \in {"sent", "over"}
    BY DEF RoundTrips, RoundTripFails, Plain, Compressed, Malformed, CloseBody, ClientGoes,
           TInv, TransportTyped
<1>2. /\ body' = [body EXCEPT ![c] = body'[c]] /\ decoder' = [decoder EXCEPT ![c] = decoder'[c]]
    BY DEF RoundTrips, RoundTripFails, Plain, Compressed, Malformed, CloseBody,
           TInv, TransportTyped
<1>3. tpc'[c] = "over" => (body'[c] # "open" /\ decoder'[c] # "open") \/ decoder'[c] = "refused"
    BY DEF RoundTrips, RoundTripFails, Plain, Compressed, Malformed, CloseBody, ClientGoes,
           TInv, TransportTyped, Bodies
<1>4. TransportTyped'
  <2>1. tpc' \in [Clients -> {"out", "options", "choose", "got", "sent", "over"}]
      BY <1>1 DEF TInv, TransportTyped
  <2>2. /\ body' = [d \in Clients |-> body'[d]] /\ decoder' = [d \in Clients |-> decoder'[d]]
      BY <1>2 DEF TInv, TransportTyped
  <2>3. QED
      BY <1>1, <2>1, <2>2 DEF TInv, TransportTyped
<1>5. \A d \in Clients : /\ Shared(d)' = Shared(d) /\ Chosen(d)' = Chosen(d)
                         /\ Decompressed(d)' = Decompressed(d)
    BY <1>1 DEF Shared, Chosen, Decompressed, flagsOf
<1>6. \A d \in Clients : d # c => tpc'[d] = tpc[d] /\ body'[d] = body[d] /\ decoder'[d] = decoder[d]
    BY <1>1, <1>2 DEF TInv, TransportTyped
<1>7. Choosing'
  <2>1. \A d \in Clients : tpc'[d] \in {"out", "options", "choose"} => tpc'[d] = tpc[d]
      BY <1>1, <1>6
  <2>2. Choosing
      BY DEF TInv
  <2>3. QED
      BY <1>1, <1>5, <2>1, <2>2 DEF Choosing
<1>8. Bodies'
    BY <1>1, <1>3, <1>6 DEF TInv, Bodies
<1>9. QED
    BY <1>4, <1>7, <1>8 DEF TInv

LEMMA TransportStepKeeps == TInv /\ [TransportNext]_transportVars => TInv'
<1> SUFFICES ASSUME TInv, [TransportNext]_transportVars PROVE TInv'
    OBVIOUS
<1>1. CASE UNCHANGED transportVars
  <2>1. TransportTyped' /\ Bodies'
      BY <1>1 DEF transportVars, TInv, TransportTyped, Bodies
  <2>2. \A c \in Clients : /\ Shared(c)' = Shared(c) /\ Chosen(c)' = Chosen(c)
                            /\ Decompressed(c)' = Decompressed(c)
      BY <1>1 DEF transportVars, Shared, Chosen, Decompressed, flagsOf
  <2>3. Choosing'
      BY <1>1, <2>2 DEF transportVars, TInv, Choosing
  <2>4. QED
      BY <2>1, <2>3 DEF TInv
<1>2. CASE TransportNext
  <2>1. PICK c \in Clients : \/ getTransportFromContext(c) \/ readOptions(c)
                             \/ getTransportInstance(c) \/ RoundTrips(c)
      BY <1>2 DEF TransportNext, RoundTrips
  <2>2. QED
      BY <2>1, ContextKeeps, OptionsKeep, InstanceKeeps, RoundTripKeeps
<1>3. QED
    BY <1>1, <1>2

-----------------------------------------------------------------------------
(* A transport: the theorems                                               *)

\* The invariant: whoever has a shared transport has the one that was made for its
\* options and a default that is the same for all.
THEOREM TransportInvariant == TransportSpec => []TInv
    BY TransportInitInv, TransportStepKeeps, PTL DEF TransportSpec

\* Get of http/transport/instances.go gives what was asked for, the same to all who ask
\* for the same; it refuses private addresses to exactly those who ask for the dialer of
\* dns/ and for public addresses only; and a body left open is one the decoder refused.
THEOREM TransportsAreTrue == TransportSpec => []TransportIsTrue
<1>1. TInv => TransportIsTrue
  <2> SUFFICES ASSUME TInv PROVE TransportIsTrue
      OBVIOUS
  <2>1. AsAsked
    <3>1. SUFFICES ASSUME NEW c \in Clients, Shared(c)
                   PROVE  /\ "tls" \in given[c].flags <=> "tls" \in want[c].opts
                          /\ "amp" \in given[c].flags <=> "amp" \in want[c].opts
                          /\ RefusesPrivate(given[c].flags) <=> RefusesPrivate(want[c].opts)
                          /\ given[c].decompressor => "raw" \in given[c].flags
        BY DEF AsAsked
    <3>2. given[c].flags = Chosen(c) /\ given[c].decompressor = Decompressed(c)
        BY <3>1 DEF TInv, Choosing
    <3>3. "amp" \in Chosen(c) <=> "amp" \in want[c].opts
        BY DEF Chosen, flagsOf, Flags
    <3>4. "tls" \in Chosen(c) <=> "tls" \in want[c].opts
        BY DEF Chosen, flagsOf, Flags
    <3>5. RefusesPrivate(Chosen(c)) <=> RefusesPrivate(want[c].opts)
        BY DEF Chosen, flagsOf, Flags, RefusesPrivate
    <3>6. "enhanced" \in want[c].opts => "raw" \in Chosen(c)
        BY DEF Chosen, flagsOf, Flags
    <3>7. QED
        BY <3>2, <3>3, <3>4, <3>5, <3>6 DEF Decompressed
  <2>2. SameForAll
    <3>1. SUFFICES ASSUME NEW c \in Clients, NEW d \in Clients, Shared(c), Shared(d),
                          want[c].opts = want[d].opts
                   PROVE  given[c].flags = given[d].flags /\ given[c].by = given[d].by
        BY DEF SameForAll
    <3>2. /\ prefer[c] = prefer[d] /\ given[c].flags = Chosen(c) /\ given[d].flags = Chosen(d)
          /\ given[c].by = instances[given[c].flags] /\ given[d].by = instances[given[d].flags]
        BY <3>1 DEF TInv, Choosing
    <3>3. Chosen(c) = Chosen(d)
        BY <3>1, <3>2 DEF Chosen, flagsOf
    <3>4. QED
        BY <3>2, <3>3
  <2>3. BodiesAreClosed
      BY DEF BodiesAreClosed, TInv, Bodies
  <2>4. QED
      BY <2>1, <2>2, <2>3 DEF TransportIsTrue
<1>2. QED
    BY <1>1, TransportInvariant, PTL

-----------------------------------------------------------------------------
(* The composite actions: what a node waits for and what it has behind it  *)

Active == {"called", "run"}

ActionsTyped ==
    /\ tree \in Trees
    /\ st \in [Nodes -> {"idle", "called", "run", "ok", "failed"}]
    /\ at \in [Nodes -> Nat] /\ kid \in [Nodes -> Nat]
    /\ last \in [Nodes -> {"none", "ok", "failed"}]
    /\ DOMAIN note = Nodes

\* The kids a running node waits for: the one it called last, or all of them.
Awaited(n) ==
    IF Concurrent(n) THEN (IF at[n] = 1 THEN AllKids(n) ELSE {})
    ELSE IF kid[n] = 0 THEN {} ELSE {kid[n]}

\* Nobody is on its way whom its parent does not wait for.
OnlyAwaited(n) ==
    \A i \in AllKids(n) : st[Kids(n)[i]] \in Active => st[n] = "run" /\ i \in Awaited(n)

AwaitedCome(n) ==
    /\ Awaited(n) \subseteq AllKids(n)
    /\ \A i \in Awaited(n) :
          \/ st[Kids(n)[i]] \in Active
          \/ st[Kids(n)[i]] \in {"ok", "failed"} /\ last[Kids(n)[i]] = st[Kids(n)[i]]

\* How far a running node has come, of which the last call but one are over: i is
\* its at, k its kid, and l how its kids have ended last.
KidsBefore(n, i, l) == \A j \in AllKids(n) : j < i => l[Kids(n)[j]] = "ok"
Come(n, i, k, l) ==
    CASE Kind(n) = "sequence" -> k = i /\ i <= Len(Kids(n)) /\ KidsBefore(n, i, l)
      [] Kind(n) = "validated" ->
            k = i /\ i <= Len(Kids(n)) /\ (tree[n].lenient \/ KidsBefore(n, i, l))
      [] Kind(n) \in {"retry", "backoff"} -> k = (IF i = 0 THEN 0 ELSE 1)
      [] Kind(n) = "try" -> k = i /\ i <= 2 /\ (i = 2 => l[Kids(n)[1]] = "failed")
      [] Kind(n) \in {"branch", "conditional"} -> i <= 1 /\ (i = 0 <=> k = 0)
      [] Kind(n) = "progressive" ->
            /\ k \in {0, i} /\ i <= Len(Kids(n))
            /\ \A j \in AllKids(n) : Kids(n)[j] \in tree[n].required /\ j <= i =>
                  IF j = i THEN k = j ELSE l[Kids(n)[j]] = "ok"
      [] OTHER -> Concurrent(n) => i \in {0, 1}
Progress(n) == Come(n, at[n], kid[n], last)

NodeIsTrue(n) ==
    /\ OnlyAwaited(n)
    /\ st[n] = "run" => AwaitedCome(n) /\ Progress(n)
    /\ st[n] = "ok" => OkMeans(n)
    /\ st[n] = "failed" => FailedMeans(n)

ActionsIInv == ActionsTyped /\ \A n \in Nodes : NodeIsTrue(n)

-----------------------------------------------------------------------------

LEMMA TreeFacts ==
    ASSUME ActionsTyped
    PROVE  /\ Root \in Nodes
           /\ \A n \in Nodes :
                 /\ Kids(n) \in Seq(Nodes \ {Root, n})
                 /\ \A i \in AllKids(n) : Kids(n)[i] \in Nodes /\ Kids(n)[i] # n
                 /\ AllKids(n) = 1 .. Len(Kids(n)) /\ Len(Kids(n)) \in Nat
                 /\ \A i, j \in AllKids(n) : Kids(n)[i] = Kids(n)[j] => i = j
                 /\ tree[n].max \in Nat
                 /\ Kind(n) = "leaf" => AllKids(n) = {}
                 /\ Kind(n) \in {"retry", "backoff"} => Len(Kids(n)) = 1
                 /\ Kind(n) = "try" => Len(Kids(n)) = 2
                 /\ Kind(n) \in {"leaf", "sequence", "conditional", "retry", "try", "validated",
                        "branch", "backoff", "progressive", "parallel", "merge"}
           /\ \A n, m \in Nodes : n # m =>
                 \A i \in AllKids(n), j \in AllKids(m) : Kids(n)[i] # Kids(m)[j]
<1>1. IsTree(tree)
    BY ActionsAssumption DEF ActionsTyped
<1>2. Root \in Nodes
    BY <1>1 DEF IsTree, Nodes
<1>3. ASSUME NEW n \in Nodes
      PROVE  /\ Kids(n) \in Seq(Nodes \ {Root, n})
             /\ \A i, j \in AllKids(n) : Kids(n)[i] = Kids(n)[j] => i = j
             /\ tree[n].max \in Nat
             /\ Kind(n) = "leaf" => Kids(n) = <<>>
             /\ Kind(n) \in {"retry", "backoff"} => Len(Kids(n)) = 1
             /\ Kind(n) = "try" => Len(Kids(n)) = 2
             /\ Kind(n) \in {"leaf", "sequence", "conditional", "retry", "try", "validated",
                        "branch", "backoff", "progressive", "parallel", "merge"}
    BY <1>1 DEF IsTree, Nodes, Kids, Kind, AllKids
<1>4. ASSUME NEW n \in Nodes
      PROVE  /\ \A i \in AllKids(n) : Kids(n)[i] \in Nodes /\ Kids(n)[i] # n
             /\ AllKids(n) = 1 .. Len(Kids(n)) /\ Len(Kids(n)) \in Nat
    <2> DEFINE ks == Kids(n)
    <2>1. ks \in Seq(Nodes \ {Root, n})
        BY <1>3
    <2> HIDE DEF ks
    <2>2. /\ DOMAIN ks = 1 .. Len(ks) /\ Len(ks) \in Nat
          /\ \A i \in DOMAIN ks : ks[i] \in Nodes \ {Root, n}
        BY <2>1
    <2>3. QED
        BY <2>2 DEF ks, AllKids
<1>5. ASSUME NEW n \in Nodes, Kind(n) = "leaf"
      PROVE  AllKids(n) = {}
    <2>1. Kids(n) = <<>>
        BY <1>3, <1>5
    <2>2. QED
        BY <2>1 DEF AllKids
<1>6. ASSUME NEW n \in Nodes, NEW m \in Nodes, n # m, NEW i \in AllKids(n), NEW j \in AllKids(m)
      PROVE  Kids(n)[i] # Kids(m)[j]
    <2>1. Range(Kids(n)) \cap Range(Kids(m)) = {}
        BY <1>1, <1>6 DEF IsTree, Nodes, Kids
    <2>2. Kids(n)[i] \in Range(Kids(n)) /\ Kids(m)[j] \in Range(Kids(m))
        BY DEF Range, AllKids
    <2>3. QED
        BY <2>1, <2>2
<1>7. QED
    BY <1>2, <1>3, <1>4, <1>5, <1>6

\* Who takes a step is on its way, and waits for nobody who is.
LEMMA StepsAreQuiet ==
    ASSUME ActionsIInv, NEW m \in Nodes, ActionStep(m)
    PROVE  /\ st[m] \in Active
           /\ \A i \in AllKids(m) : st[Kids(m)[i]] \notin Active
<1>1. st[m] \in Active
    BY DEF ActionStep, BeginAction, LeafEnds, Turn, Fork, Join, Merge, Active
<1>2. ASSUME NEW i \in AllKids(m), st[Kids(m)[i]] \in Active
      PROVE  FALSE
    <2>1. st[m] = "run" /\ i \in Awaited(m)
        BY <1>2 DEF ActionsIInv, NodeIsTrue, OnlyAwaited
    <2>2. CASE BeginAction(m)
        BY <2>1, <2>2 DEF BeginAction
    <2>3. CASE LeafEnds(m)
        BY <2>3, TreeFacts DEF LeafEnds, ActionsIInv
    <2>4. CASE Turn(m)
        <3>1. kid[m] # 0 /\ i = kid[m]
            BY <2>1, <2>4 DEF Turn, Awaited
        <3>2. st[Kids(m)[kid[m]]] \in {"ok", "failed"}
            BY <3>1, <2>4 DEF Turn
        <3>3. QED
            BY <3>1, <3>2, <1>2 DEF Active
    <2>5. CASE Fork(m)
        BY <2>1, <2>5 DEF Fork, Awaited
    <2>6. CASE Join(m) \/ Merge(m)
        <3>1. st[Kids(m)[i]] \in {"ok", "failed"}
            BY <2>6 DEF Join, Merge, Over, AllKids
        <3>2. QED
            BY <3>1, <1>2 DEF Active
    <2>7. QED
        BY <2>2, <2>3, <2>4, <2>5, <2>6 DEF ActionStep
<1>3. QED
    BY <1>1, <1>2


-----------------------------------------------------------------------------
(* What a node decides to do next fits how far it has come                 *)

\* How the kid that was called last has ended.
Outcome(n) == IF kid[n] = 0 THEN "none" ELSE st[Kids(n)[kid[n]]]

\* What success and failure mean, if v is the note that is left.
OkWith(n, v) ==
    CASE Kind(n) \in {"retry", "backoff"} -> 1 \in LastOk(n) /\ v \in 1 .. at[n]
      [] Kind(n) = "try" -> v \in LastOk(n) /\ (v = 1 <=> 1 \in LastOk(n))
      [] Kind(n) = "validated" -> v = 0 /\ ~tree[n].lenient => LastOk(n) = AllKids(n)
      [] OTHER -> OkMeans(n)

Fits(n, c) ==
    /\ c.do \in {"call", "skip", "ok", "failed"}
    /\ c.do = "call" => c.kid \in AllKids(n) /\ Come(n, at[n] + 1, c.kid, last)
    /\ c.do = "skip" =>
          /\ at[n] + 1 \in AllKids(n)
          /\ Come(n, at[n] + 1, 0, [last EXCEPT ![Kids(n)[at[n] + 1]] = "none"])
    /\ c.do = "ok" => OkWith(n, c.note)
    /\ c.do = "failed" => FailedMeans(n)

LEMMA CallsAre ==
    ASSUME NEW k, NEW how, NEW v
    PROVE  /\ Calls(k).do = "call" /\ Calls(k).kid = k
           /\ Ends(how, v).do = how /\ Ends(how, v).note = v
           /\ Skip.do = "skip"
    BY DEF Calls, Ends, Skip

\* How the kid that was called last has ended is what its parent gets to know.
LEMMA OutcomeIsLast ==
    ASSUME ActionsIInv, NEW n \in Nodes, st[n] = "run", ~Concurrent(n),
           kid[n] # 0 => Outcome(n) \in {"ok", "failed"}
    PROVE  kid[n] # 0 => kid[n] \in AllKids(n) /\ last[Kids(n)[kid[n]]] = Outcome(n)
<1> SUFFICES ASSUME kid[n] # 0
             PROVE  kid[n] \in AllKids(n) /\ last[Kids(n)[kid[n]]] = Outcome(n)
    OBVIOUS
<1>1. AwaitedCome(n) /\ kid[n] \in Awaited(n)
    BY DEF ActionsIInv, NodeIsTrue, Awaited
<1>2. st[Kids(n)[kid[n]]] \in {"ok", "failed"}
    BY DEF Outcome
<1>3. QED
    BY <1>1, <1>2 DEF AwaitedCome, Active, Outcome

LEMMA SequenceFits ==
    ASSUME ActionsIInv, NEW n \in Nodes, st[n] = "run", Kind(n) = "sequence",
           kid[n] # 0 => Outcome(n) \in {"ok", "failed"},
           NEW c \in Sequence(n, at[n], Outcome(n))
    PROVE  Fits(n, c)
<1> DEFINE len == Len(Kids(n))
<1>1. /\ kid[n] = at[n] /\ at[n] <= len /\ at[n] \in Nat /\ len \in Nat
      /\ AllKids(n) = 1 .. len
      /\ \A j \in AllKids(n) : j < at[n] => last[Kids(n)[j]] = "ok"
    BY TreeFacts DEF ActionsIInv, ActionsTyped, NodeIsTrue, Progress, Come, KidsBefore
<1>2. kid[n] # 0 => kid[n] \in AllKids(n) /\ last[Kids(n)[kid[n]]] = Outcome(n)
    BY OutcomeIsLast DEF Concurrent
<1>3. kid[n] = 0 => Outcome(n) = "none"
    BY DEF Outcome
<1> HIDE DEF len
<1>4. CASE Outcome(n) = "failed"
    <2>1. c.do = "failed" /\ LastOk(n) # AllKids(n)
        BY <1>2, <1>3, <1>4, CallsAre DEF Sequence, LastOk, AllKids
    <2>2. QED
        BY <2>1 DEF Fits, FailedMeans
<1>5. CASE Outcome(n) # "failed"
    <2>1. \A j \in AllKids(n) : j <= at[n] => last[Kids(n)[j]] = "ok"
        BY <1>1, <1>2, <1>5
    <2>2. CASE at[n] = len
        <3>1. c.do = "ok" /\ LastOk(n) = AllKids(n)
            BY <1>1, <1>5, <2>1, <2>2, CallsAre DEF Sequence, LastOk, AllKids, len
        <3>2. QED
            BY <3>1 DEF Fits, OkWith, OkMeans
    <2>3. CASE at[n] # len
        <3>1. c.do = "call" /\ c.kid = at[n] + 1
            BY <1>5, <2>3, CallsAre DEF Sequence, len
        <3>2. c.kid \in AllKids(n) /\ at[n] + 1 <= len
            BY <1>1, <2>3, <3>1
        <3>3. KidsBefore(n, at[n] + 1, last)
            BY <1>1, <2>1 DEF KidsBefore
        <3>4. QED
            BY <3>1, <3>2, <3>3 DEF Fits, Come, len
    <2>4. QED
        BY <2>2, <2>3
<1>6. QED
    BY <1>4, <1>5

LEMMA ValidatedFits ==
    ASSUME ActionsIInv, NEW n \in Nodes, st[n] = "run", Kind(n) = "validated",
           kid[n] # 0 => Outcome(n) \in {"ok", "failed"},
           NEW c \in ValidatedSequence(n, at[n], Outcome(n))
    PROVE  Fits(n, c)
<1> DEFINE len == Len(Kids(n))
           strict == ~tree[n].lenient
<1>1. /\ kid[n] = at[n] /\ at[n] <= len /\ at[n] \in Nat /\ len \in Nat
      /\ AllKids(n) = 1 .. len
      /\ strict => \A j \in AllKids(n) : j < at[n] => last[Kids(n)[j]] = "ok"
    BY TreeFacts DEF ActionsIInv, ActionsTyped, NodeIsTrue, Progress, Come, KidsBefore
<1>2. kid[n] # 0 => kid[n] \in AllKids(n) /\ last[Kids(n)[kid[n]]] = Outcome(n)
    BY OutcomeIsLast DEF Concurrent
<1>3. kid[n] = 0 => Outcome(n) = "none"
    BY DEF Outcome
<1>4. \/ Outcome(n) = "failed" /\ strict /\ c = Ends("ok", at[n])
      \/ /\ Outcome(n) # "failed" \/ ~strict
         /\ c = IF at[n] = len THEN Ends("ok", 0) ELSE Calls(at[n] + 1)
      \/ at[n] > 0 /\ tree[n].checked /\ c = Ends("failed", at[n])
      \/ at[n] > 0 /\ c = Ends("ok", at[n])
    BY DEF ValidatedSequence
<1> HIDE DEF len, strict
<1>5. CASE c = Ends("ok", at[n]) /\ at[n] # 0
    <2>1. c.do = "ok" /\ c.note # 0
        BY <1>5, CallsAre
    <2>2. QED
        BY <2>1 DEF Fits, OkWith
<1>6. CASE c = Ends("failed", at[n]) /\ tree[n].checked
    <2>1. c.do = "failed"
        BY <1>6, CallsAre
    <2>2. QED
        BY <2>1, <1>6 DEF Fits, FailedMeans
<1>7. CASE /\ Outcome(n) # "failed" \/ ~strict
           /\ c = IF at[n] = len THEN Ends("ok", 0) ELSE Calls(at[n] + 1)
    <2>1. strict => \A j \in AllKids(n) : j <= at[n] => last[Kids(n)[j]] = "ok"
        BY <1>1, <1>2, <1>7
    <2>2. CASE at[n] = len
        <3>1. c.do = "ok"
            BY <1>7, <2>2, CallsAre
        <3>2. strict => LastOk(n) = AllKids(n)
            BY <1>1, <2>1, <2>2 DEF LastOk, AllKids
        <3>3. QED
            BY <3>1, <3>2 DEF Fits, OkWith, strict
    <2>3. CASE at[n] # len
        <3>1. c.do = "call" /\ c.kid = at[n] + 1
            BY <1>7, <2>3, CallsAre
        <3>2. c.kid \in AllKids(n) /\ at[n] + 1 <= len
            BY <1>1, <2>3, <3>1
        <3>3. tree[n].lenient \/ KidsBefore(n, at[n] + 1, last)
            BY <1>1, <2>1 DEF KidsBefore, strict
        <3>4. QED
            BY <3>1, <3>2, <3>3 DEF Fits, Come, len
    <2>4. QED
        BY <2>2, <2>3
<1>8. QED
    BY <1>1, <1>3, <1>4, <1>5, <1>6, <1>7

\* A retry and a retry with backoff call their only kid again and again.
LEMMA RetryFits ==
    ASSUME ActionsIInv, NEW n \in Nodes, st[n] = "run", Kind(n) \in {"retry", "backoff"},
           kid[n] # 0 => Outcome(n) \in {"ok", "failed"},
           NEW c \in Retry(n, at[n], Outcome(n)) \cup RetryWithBackoff(n, at[n], Outcome(n)),
           Kind(n) = "retry" => c \in Retry(n, at[n], Outcome(n)),
           Kind(n) = "backoff" => c \in RetryWithBackoff(n, at[n], Outcome(n))
    PROVE  Fits(n, c)
<1>1. /\ kid[n] = (IF at[n] = 0 THEN 0 ELSE 1) /\ at[n] \in Nat
      /\ AllKids(n) = 1 .. 1 /\ tree[n].max \in Nat
    <2>1. Progress(n) /\ at[n] \in Nat
        BY DEF ActionsIInv, ActionsTyped, NodeIsTrue
    <2>2. AllKids(n) = 1 .. Len(Kids(n)) /\ Len(Kids(n)) = 1 /\ tree[n].max \in Nat
        BY TreeFacts DEF ActionsIInv
    <2>3. QED
        BY <2>1, <2>2 DEF Progress, Come
<1>2. at[n] # 0 => last[Kids(n)[1]] = Outcome(n) /\ Outcome(n) \in {"ok", "failed"}
    BY <1>1, OutcomeIsLast DEF Concurrent
<1>3. at[n] = 0 => Outcome(n) = "none"
    BY <1>1 DEF Outcome
<1>4. \/ Outcome(n) = "ok" /\ c = Ends("ok", at[n])
      \/ c = Calls(1)
      \/ Outcome(n) # "ok" /\ c = Ends("failed", at[n])
         /\ (at[n] > 0 \/ (Kind(n) = "retry" /\ tree[n].max = 0))
    BY <1>1 DEF Retry, RetryWithBackoff
<1>5. CASE Outcome(n) = "ok" /\ c = Ends("ok", at[n])
    <2>1. c.do = "ok" /\ c.note = at[n]
        BY <1>5, CallsAre
    <2>2. at[n] # 0 /\ last[Kids(n)[1]] = "ok"
        BY <1>2, <1>3, <1>5
    <2>3. 1 \in LastOk(n) /\ c.note \in 1 .. at[n]
        BY <1>1, <2>1, <2>2 DEF LastOk, AllKids
    <2>4. QED
        BY <2>1, <2>3 DEF Fits, OkWith
<1>6. CASE c = Calls(1)
    <2>1. c.do = "call" /\ c.kid = 1
        BY <1>6, CallsAre
    <2>2. QED
        BY <1>1, <2>1 DEF Fits, Come
<1>7. CASE /\ Outcome(n) # "ok" /\ c = Ends("failed", at[n])
           /\ at[n] > 0 \/ (Kind(n) = "retry" /\ tree[n].max = 0)
    <2>1. c.do = "failed"
        BY <1>7, CallsAre
    <2>2. at[n] > 0 => 1 \notin LastOk(n)
        BY <1>1, <1>2, <1>7 DEF LastOk
    <2>3. FailedMeans(n)
        BY <1>7, <2>2 DEF FailedMeans
    <2>4. QED
        BY <2>1, <2>3 DEF Fits
<1>8. QED
    BY <1>4, <1>5, <1>6, <1>7

LEMMA TryFits ==
    ASSUME ActionsIInv, NEW n \in Nodes, st[n] = "run", Kind(n) = "try",
           kid[n] # 0 => Outcome(n) \in {"ok", "failed"},
           NEW c \in TryWithFallback(n, at[n], Outcome(n))
    PROVE  Fits(n, c)
<1>1. /\ kid[n] = at[n] /\ at[n] \in {0, 1, 2} /\ AllKids(n) = {1, 2}
      /\ at[n] = 2 => last[Kids(n)[1]] = "failed"
    <2>1. Progress(n) /\ at[n] \in Nat
        BY DEF ActionsIInv, ActionsTyped, NodeIsTrue
    <2>2. AllKids(n) = 1 .. Len(Kids(n)) /\ Len(Kids(n)) = 2
        BY TreeFacts DEF ActionsIInv
    <2>3. QED
        BY <2>1, <2>2 DEF Progress, Come
<1>2. at[n] # 0 => last[Kids(n)[at[n]]] = Outcome(n) /\ Outcome(n) \in {"ok", "failed"}
    BY <1>1, OutcomeIsLast DEF Concurrent
<1>3. CASE at[n] = 0
    <2>1. c.do = "call" /\ c.kid = 1
        BY <1>3, CallsAre DEF TryWithFallback
    <2>2. QED
        BY <1>1, <1>3, <2>1 DEF Fits, Come
<1>4. CASE at[n] = 1 /\ Outcome(n) = "ok"
    <2>1. c.do = "ok" /\ c.note = 1
        BY <1>4, CallsAre DEF TryWithFallback
    <2>2. 1 \in LastOk(n)
        BY <1>1, <1>2, <1>4 DEF LastOk, AllKids
    <2>3. QED
        BY <2>1, <2>2 DEF Fits, OkWith
<1>5. CASE at[n] = 1 /\ Outcome(n) = "failed"
    <2>1. c.do = "call" /\ c.kid = 2
        BY <1>5, CallsAre DEF TryWithFallback
    <2>2. last[Kids(n)[1]] = "failed"
        BY <1>2, <1>5
    <2>3. QED
        BY <1>1, <1>5, <2>1, <2>2 DEF Fits, Come
<1>6. CASE at[n] = 2
    <2>1. /\ c.do = Outcome(n)
          /\ Outcome(n) = "ok" => c.note = 2
        BY <1>6, CallsAre DEF TryWithFallback
    <2>2. 1 \notin LastOk(n) /\ (2 \in LastOk(n) <=> Outcome(n) = "ok") /\ LastOk(n) \subseteq {1, 2}
        BY <1>1, <1>2, <1>6 DEF LastOk, AllKids
    <2>3. CASE Outcome(n) = "ok"
        BY <2>1, <2>2, <2>3 DEF Fits, OkWith
    <2>4. CASE Outcome(n) = "failed"
        <3>1. LastOk(n) = {}
            BY <2>2, <2>4
        <3>2. QED
            BY <2>1, <2>4, <3>1 DEF Fits, FailedMeans
    <2>5. QED
        BY <1>2, <1>6, <2>3, <2>4
<1>7. QED
    BY <1>1, <1>2, <1>3, <1>4, <1>5, <1>6

\* A branch calls one kid at most and ends as that one has ended.
LEMMA BranchFits ==
    ASSUME ActionsIInv, NEW n \in Nodes, st[n] = "run", Kind(n) \in {"branch", "conditional"},
           kid[n] # 0 => Outcome(n) \in {"ok", "failed"},
           NEW c \in Conditional(n, at[n], Outcome(n)) \cup ConditionalBranch(n, at[n], Outcome(n))
    PROVE  Fits(n, c)
<1>1. /\ at[n] <= 1 /\ (at[n] = 0 <=> kid[n] = 0) /\ at[n] \in Nat
      /\ AllKids(n) = 1 .. Len(Kids(n)) /\ Len(Kids(n)) \in Nat
    <2>1. Progress(n) /\ at[n] \in Nat
        BY DEF ActionsIInv, ActionsTyped, NodeIsTrue
    <2>2. AllKids(n) = 1 .. Len(Kids(n)) /\ Len(Kids(n)) \in Nat
        BY TreeFacts DEF ActionsIInv
    <2>3. QED
        BY <2>1, <2>2 DEF Progress, Come
<1>2. at[n] # 0 => /\ kid[n] \in AllKids(n) /\ last[Kids(n)[kid[n]]] = Outcome(n)
                   /\ Outcome(n) \in {"ok", "failed"}
    BY <1>1, OutcomeIsLast DEF Concurrent
<1>3. CASE at[n] = 0
    <2> DEFINE len == Len(Kids(n))
    <2>1. \/ c = Ends("failed", 0) \/ c = Ends("ok", 0)
          \/ \E k \in 1 .. len : c = Calls(k)
        <3>1. CASE c \in Conditional(n, at[n], Outcome(n))
            <4>1. \/ c = Ends("failed", 0)
                  \/ \E k \in 1 .. 2 : c = IF k <= len THEN Calls(k) ELSE Ends("ok", 0)
                BY <3>1, <1>3 DEF Conditional
            <4>2. QED
                BY <4>1, <1>1
        <3>2. CASE c \in ConditionalBranch(n, at[n], Outcome(n))
            BY <3>2, <1>3 DEF ConditionalBranch
        <3>3. QED
            BY <3>1, <3>2
    <2> HIDE DEF len
    <2>2. CASE c = Ends("failed", 0) \/ c = Ends("ok", 0)
        <3>1. c.do \in {"ok", "failed"}
            BY <2>2, CallsAre
        <3>2. OkMeans(n) /\ FailedMeans(n)
            BY <1>1, <1>3 DEF OkMeans, FailedMeans
        <3>3. OkWith(n, c.note)
            BY <3>2 DEF OkWith
        <3>4. QED
            BY <3>1, <3>2, <3>3 DEF Fits
    <2>3. CASE \E k \in 1 .. len : c = Calls(k)
        <3>1. c.do = "call" /\ c.kid \in 1 .. len
            BY <2>3, CallsAre
        <3>2. Come(n, at[n] + 1, c.kid, last)
            BY <1>1, <1>3, <3>1 DEF Come
        <3>3. QED
            BY <1>1, <3>1, <3>2 DEF Fits, len
    <2>4. QED
        BY <2>1, <2>2, <2>3
<1>4. CASE at[n] # 0
    <2>1. c.do = Outcome(n)
        BY <1>4, CallsAre DEF Conditional, ConditionalBranch
    <2>2. FailedMeans(n)
        BY DEF FailedMeans
    <2>3. Outcome(n) = "ok" => OkMeans(n)
        <3>1. Outcome(n) = "ok" => kid[n] \in LastOk(n)
            BY <1>2, <1>4 DEF LastOk, AllKids
        <3>2. QED
            BY <3>1 DEF OkMeans
    <2>4. Outcome(n) = "ok" => OkWith(n, c.note)
        BY <2>3 DEF OkWith
    <2>5. QED
        BY <1>2, <1>4, <2>1, <2>2, <2>4 DEF Fits
<1>5. QED
    BY <1>3, <1>4

LEMMA ProgressiveFits ==
    ASSUME ActionsIInv, NEW n \in Nodes, st[n] = "run", Kind(n) = "progressive",
           kid[n] # 0 => Outcome(n) \in {"ok", "failed"},
           NEW c \in ProgressiveDisclosure(n, at[n], Outcome(n))
    PROVE  Fits(n, c)
<1> DEFINE len == Len(Kids(n))
           required(j) == Kids(n)[j] \in tree[n].required
<1>1. /\ kid[n] \in {0, at[n]} /\ at[n] <= len /\ at[n] \in Nat /\ len \in Nat
      /\ AllKids(n) = 1 .. len
      /\ \A j \in AllKids(n) : required(j) /\ j < at[n] => last[Kids(n)[j]] = "ok"
      /\ \A j \in AllKids(n) : required(j) /\ j = at[n] => kid[n] = j
    <2>1. Progress(n) /\ at[n] \in Nat
        BY DEF ActionsIInv, ActionsTyped, NodeIsTrue
    <2>2. AllKids(n) = 1 .. len /\ len \in Nat
        BY TreeFacts DEF ActionsIInv
    <2>3. /\ kid[n] \in {0, at[n]} /\ at[n] <= len
          /\ \A j \in AllKids(n) : required(j) /\ j <= at[n] =>
                IF j = at[n] THEN kid[n] = j ELSE last[Kids(n)[j]] = "ok"
        BY <2>1 DEF Progress, Come
    <2> HIDE DEF len, required
    <2>4. \A j \in AllKids(n) : required(j) /\ j < at[n] => last[Kids(n)[j]] = "ok"
        BY <2>1, <2>2, <2>3
    <2>5. \A j \in AllKids(n) : required(j) /\ j = at[n] => kid[n] = j
        BY <2>1, <2>2, <2>3
    <2>6. QED
        BY <2>1, <2>2, <2>3, <2>4, <2>5
<1>2. kid[n] # 0 => kid[n] \in AllKids(n) /\ last[Kids(n)[kid[n]]] = Outcome(n)
    BY OutcomeIsLast DEF Concurrent
<1>3. kid[n] = 0 => Outcome(n) = "none"
    BY DEF Outcome
<1>4. \A i, j \in AllKids(n) : Kids(n)[i] = Kids(n)[j] => i = j
    BY TreeFacts DEF ActionsIInv
<1>5. \A j \in AllKids(n) : last[Kids(n)[j]] \in {"none", "ok", "failed"} /\ Kids(n)[j] \in DOMAIN last
    BY TreeFacts DEF ActionsIInv, ActionsTyped
<1>6. \/ Outcome(n) = "failed" /\ c = Ends("failed", 0)
      \/ at[n] = len /\ c = Ends("ok", 0) /\ ~(Outcome(n) = "failed" /\ required(at[n]))
      \/ at[n] # len /\ c = Calls(at[n] + 1) /\ ~(Outcome(n) = "failed" /\ required(at[n]))
      \/ c = Ends("failed", 0)
      \/ /\ at[n] # len /\ c = Skip /\ ~required(at[n] + 1)
         /\ ~(Outcome(n) = "failed" /\ required(at[n]))
    BY DEF ProgressiveDisclosure
<1> HIDE DEF len, required
<1>7. CASE c = Ends("failed", 0)
    <2>1. c.do = "failed"
        BY <1>7, CallsAre
    <2>2. FailedMeans(n)
        BY DEF FailedMeans
    <2>3. QED
        BY <2>1, <2>2 DEF Fits
<1>8. CASE ~(Outcome(n) = "failed" /\ required(at[n]))
    <2>1. \A j \in AllKids(n) : required(j) /\ j <= at[n] => last[Kids(n)[j]] = "ok"
        <3>1. ASSUME NEW j \in AllKids(n), required(j), j = at[n]
              PROVE  last[Kids(n)[j]] = "ok"
            BY <1>1, <1>2, <1>8, <3>1
        <3>2. QED
            BY <1>1, <3>1
    <2>2. CASE at[n] = len /\ c = Ends("ok", 0)
        <3>1. c.do = "ok"
            BY <2>2, CallsAre
        <3>2. \A j \in AllKids(n) : required(j) => j \in LastOk(n)
            BY <1>1, <2>1, <2>2 DEF LastOk, AllKids
        <3>3. OkMeans(n)
            BY <3>2 DEF OkMeans, required
        <3>4. QED
            BY <3>1, <3>3 DEF Fits, OkWith
    <2>3. CASE at[n] # len /\ c = Calls(at[n] + 1)
        <3>1. c.do = "call" /\ c.kid = at[n] + 1
            BY <2>3, CallsAre
        <3>2. c.kid \in AllKids(n) /\ at[n] + 1 <= len
            BY <1>1, <2>3, <3>1
        <3>3. ASSUME NEW j \in AllKids(n), required(j), j <= at[n] + 1
              PROVE  IF j = at[n] + 1 THEN c.kid = j ELSE last[Kids(n)[j]] = "ok"
            BY <1>1, <2>1, <3>1, <3>3
        <3>4. Come(n, at[n] + 1, c.kid, last)
            BY <3>1, <3>2, <3>3 DEF Come, len, required
        <3>5. QED
            BY <3>1, <3>2, <3>4 DEF Fits
    <2>4. CASE at[n] # len /\ c = Skip /\ ~required(at[n] + 1)
        <3> DEFINE l == [last EXCEPT ![Kids(n)[at[n] + 1]] = "none"]
        <3>1. c.do = "skip"
            BY <2>4, CallsAre
        <3>2. at[n] + 1 \in AllKids(n) /\ at[n] + 1 <= len
            BY <1>1, <2>4
        <3>3. ASSUME NEW j \in AllKids(n), required(j), j <= at[n] + 1
              PROVE  j # at[n] + 1 /\ l[Kids(n)[j]] = "ok"
            <4>1. j # at[n] + 1 /\ j <= at[n]
                BY <1>1, <2>4, <3>3
            <4>2. Kids(n)[j] # Kids(n)[at[n] + 1]
                BY <1>4, <3>2, <4>1
            <4>3. l[Kids(n)[j]] = last[Kids(n)[j]]
                BY <1>5, <4>2
            <4>4. QED
                BY <2>1, <3>3, <4>1, <4>3
        <3> HIDE DEF l
        <3>4. Come(n, at[n] + 1, 0, l)
            BY <3>2, <3>3 DEF Come, len, required
        <3>5. QED
            BY <3>1, <3>2, <3>4 DEF Fits, l
    <2>5. QED
        BY <1>6, <1>7, <2>2, <2>3, <2>4
<1>9. QED
    BY <1>6, <1>7, <1>8

LEMMA DecisionsFit ==
    ASSUME ActionsIInv, NEW n \in Nodes, st[n] = "run", ~Concurrent(n),
           kid[n] # 0 => Outcome(n) \in {"ok", "failed"},
           NEW c \in Decisions(n, at[n], Outcome(n))
    PROVE  Fits(n, c)
<1>1. CASE Kind(n) = "sequence"
    BY <1>1, SequenceFits DEF Decisions
<1>2. CASE Kind(n) = "validated"
    BY <1>2, ValidatedFits DEF Decisions
<1>3. CASE Kind(n) = "retry"
    BY <1>3, RetryFits DEF Decisions
<1>4. CASE Kind(n) = "backoff"
    BY <1>4, RetryFits DEF Decisions
<1>5. CASE Kind(n) = "try"
    BY <1>5, TryFits DEF Decisions
<1>6. CASE Kind(n) = "branch"
    BY <1>6, BranchFits DEF Decisions
<1>7. CASE Kind(n) = "conditional"
    BY <1>7, BranchFits DEF Decisions
<1>8. CASE Kind(n) = "progressive"
    BY <1>8, ProgressiveFits DEF Decisions
<1>9. CASE Kind(n) = "leaf"
    BY <1>9 DEF Decisions
<1>10. QED
    BY <1>1, <1>2, <1>3, <1>4, <1>5, <1>6, <1>7, <1>8, <1>9, TreeFacts
    DEF ActionsIInv, Concurrent

-----------------------------------------------------------------------------
(* What a step of a node leaves alone, and the node itself after it        *)

IsKid(n, m) == \E i \in AllKids(m) : Kids(m)[i] = n

GoesAlone(m) ==
    /\ tree' = tree
    /\ ActionsTyped'
    /\ \A n \in Nodes \ {m} : at'[n] = at[n] /\ kid'[n] = kid[n] /\ note'[n] = note[n]
    /\ \A n \in Nodes \ {m} : ~IsKid(n, m) => st'[n] = st[n] /\ last'[n] = last[n]
    /\ \A n \in Nodes \ {m} : IsKid(n, m) => st'[n] \in {st[n], "idle", "called"}
    /\ st'[m] = "run" \/ (st'[m] \in {"ok", "failed"} /\ last'[m] = st'[m])

LEMMA SameTree ==
    ASSUME tree' = tree, NEW n
    PROVE  /\ Nodes' = Nodes /\ Kids(n)' = Kids(n) /\ Kind(n)' = Kind(n)
           /\ AllKids(n)' = AllKids(n) /\ Concurrent(n)' = Concurrent(n)
           /\ tree'[n] = tree[n]
    BY DEF Nodes, Kids, Kind, AllKids, Concurrent

\* The end of a node, told as what it has behind it means.
LEMMA NodeEndKeeps ==
    ASSUME ActionsIInv, NEW m \in Nodes, ActionStep(m), tree' = tree, at' = at, kid' = kid,
           NEW how \in {"ok", "failed"}, EndAction(m, how),
           DOMAIN note' = Nodes, \A n \in Nodes \ {m} : note'[n] = note[n],
           how = "ok" => OkWith(m, note'[m]),
           how = "failed" => FailedMeans(m)
    PROVE  GoesAlone(m) /\ NodeIsTrue(m)'
<1>1. ActionsTyped
    BY DEF ActionsIInv
<1>2. st' = [st EXCEPT ![m] = how] /\ last' = [last EXCEPT ![m] = how]
    BY DEF EndAction
<1>3. /\ st'[m] = how /\ last'[m] = how
      /\ \A n \in Nodes \ {m} : st'[n] = st[n] /\ last'[n] = last[n]
    BY <1>1, <1>2 DEF ActionsTyped
<1>4. ActionsTyped'
    BY <1>1, <1>2, SameTree DEF ActionsTyped
<1>5. \A i \in AllKids(m) : /\ Kids(m)[i] \in Nodes \ {m}
                            /\ st'[Kids(m)[i]] = st[Kids(m)[i]]
                            /\ last'[Kids(m)[i]] = last[Kids(m)[i]]
    BY <1>1, <1>3, TreeFacts
<1>6. GoesAlone(m)
    BY <1>3, <1>4 DEF GoesAlone
<1>7. OnlyAwaited(m)'
    <2>1. \A i \in AllKids(m) : st'[Kids(m)[i]] \notin Active
        BY <1>5, StepsAreQuiet
    <2>2. QED
        BY <2>1, SameTree DEF OnlyAwaited
<1>8. LastOk(m)' = LastOk(m)
    BY <1>5, SameTree DEF LastOk, AllKids
<1>9. ASSUME how = "ok"
      PROVE  OkMeans(m)'
    <2>1. OkWith(m, note'[m])
        BY <1>9
    <2> DEFINE v == note'[m]
    <2>2. CASE Kind(m) \in {"retry", "backoff"}
        <3>1. 1 \in LastOk(m) /\ v \in 1 .. at[m]
            BY <2>1, <2>2 DEF OkWith
        <3>2. QED
            BY <2>2, <3>1, <1>8, SameTree DEF OkMeans
    <2>3. CASE Kind(m) = "try"
        <3>1. v \in LastOk(m) /\ (v = 1 <=> 1 \in LastOk(m))
            BY <2>1, <2>3 DEF OkWith
        <3>2. QED
            BY <2>3, <3>1, <1>8, SameTree DEF OkMeans
    <2>4. CASE Kind(m) = "validated"
        <3>1. v = 0 /\ ~tree[m].lenient => LastOk(m) = AllKids(m)
            BY <2>1, <2>4 DEF OkWith
        <3>2. QED
            BY <2>4, <3>1, <1>8, SameTree DEF OkMeans
    <2>5. CASE Kind(m) \notin {"retry", "backoff", "try", "validated"}
        <3>1. OkMeans(m)
            BY <2>1, <2>5 DEF OkWith
        <3>2. QED
            BY <2>5, <3>1, <1>8, SameTree DEF OkMeans
    <2>6. QED
        BY <2>2, <2>3, <2>4, <2>5
<1>10. ASSUME how = "failed"
       PROVE  FailedMeans(m)'
    <2>1. FailedMeans(m)
        BY <1>10
    <2>2. QED
        BY <2>1, <1>8, SameTree DEF FailedMeans
<1>11. QED
    BY <1>3, <1>6, <1>7, <1>9, <1>10 DEF NodeIsTrue

LEMMA BeginKeeps ==
    ASSUME ActionsIInv, NEW m \in Nodes, BeginAction(m)
    PROVE  GoesAlone(m) /\ NodeIsTrue(m)'
<1>1. ActionsTyped
    BY DEF ActionsIInv
<1>2. /\ st' = [st EXCEPT ![m] = "run"] /\ at' = [at EXCEPT ![m] = 0]
      /\ kid' = [kid EXCEPT ![m] = 0] /\ note' = [note EXCEPT ![m] = 0]
      /\ last' = last /\ tree' = tree
    BY DEF BeginAction
<1>3. /\ st'[m] = "run" /\ at'[m] = 0 /\ kid'[m] = 0
      /\ \A n \in Nodes \ {m} :
            st'[n] = st[n] /\ at'[n] = at[n] /\ kid'[n] = kid[n] /\ note'[n] = note[n]
    BY <1>1, <1>2 DEF ActionsTyped
<1>4. ActionsTyped'
    BY <1>1, <1>2, SameTree DEF ActionsTyped
<1>5. \A i \in AllKids(m) : Kids(m)[i] \in Nodes \ {m} /\ st'[Kids(m)[i]] = st[Kids(m)[i]]
    BY <1>1, <1>3, TreeFacts
<1>6. GoesAlone(m)
    BY <1>2, <1>3, <1>4 DEF GoesAlone
<1>7. \A i \in AllKids(m) : st'[Kids(m)[i]] \notin Active
    BY <1>5, StepsAreQuiet DEF ActionStep
<1>8. OnlyAwaited(m)'
    BY <1>2, <1>7, SameTree DEF OnlyAwaited
<1>9. AwaitedCome(m)'
    <2>1. Awaited(m)' = {}
        BY <1>2, <1>3, SameTree DEF Awaited
    <2>2. QED
        BY <2>1 DEF AwaitedCome
<1>10. Progress(m)'
    <2>1. AllKids(m) = 1 .. Len(Kids(m)) /\ Len(Kids(m)) \in Nat
        BY <1>1, TreeFacts
    <2> DEFINE len == Len(Kids(m))
               kids == AllKids(m)
    <2> HIDE DEF len, kids
    <2>2. 0 <= len /\ \A j \in kids : ~(j < 0) /\ ~(j <= 0)
        BY <2>1 DEF len, kids
    <2>3. Len(Kids(m))' = len /\ AllKids(m)' = kids
        BY <1>2, SameTree DEF len, kids
    <2>4. QED
        BY <1>3, <2>2, <2>3, SameTree DEF Progress, Come, KidsBefore
<1>11. QED
    BY <1>3, <1>6, <1>8, <1>9, <1>10 DEF NodeIsTrue

LEMMA LeafKeeps ==
    ASSUME ActionsIInv, NEW m \in Nodes, LeafEnds(m)
    PROVE  GoesAlone(m) /\ NodeIsTrue(m)'
<1>1. PICK how \in {"ok", "failed"} : EndAction(m, how)
    BY DEF LeafEnds
<1>2. Kind(m) = "leaf" /\ tree' = tree /\ at' = at /\ kid' = kid /\ note' = note
    BY DEF LeafEnds
<1>3. OkWith(m, note'[m]) /\ FailedMeans(m)
    BY <1>2 DEF OkWith, OkMeans, FailedMeans
<1>4. DOMAIN note' = Nodes
    BY <1>2 DEF ActionsIInv, ActionsTyped
<1>5. ActionStep(m)
    BY DEF ActionStep
<1>6. QED
    BY <1>1, <1>2, <1>3, <1>4, <1>5, NodeEndKeeps

LEMMA JoinKeeps ==
    ASSUME ActionsIInv, NEW m \in Nodes, Join(m) \/ Merge(m)
    PROVE  GoesAlone(m) /\ NodeIsTrue(m)'
<1> DEFINE good == AllOk(m) \/ (Kind(m) = "merge" /\ tree[m].lenient)
           how == IF good THEN "ok" ELSE "failed"
<1>1. /\ st[m] = "run" /\ Concurrent(m) /\ Over(m) /\ EndAction(m, how)
      /\ tree' = tree /\ at' = at /\ kid' = kid
      /\ DOMAIN note' = DOMAIN note /\ \A n \in Nodes \ {m} : note'[n] = note[n]
    <2>1. CASE Join(m)
        BY <2>1 DEF Join, Concurrent
    <2>2. CASE Merge(m)
        BY <2>2 DEF Merge, Concurrent
    <2>3. QED
        BY <2>1, <2>2
<1>2. DOMAIN note' = Nodes
    BY <1>1 DEF ActionsIInv, ActionsTyped
<1>3. AllOk(m) <=> LastOk(m) = AllKids(m)
    <2>1. Awaited(m) = AllKids(m)
        BY <1>1 DEF Awaited, Over
    <2>2. AwaitedCome(m)
        BY <1>1 DEF ActionsIInv, NodeIsTrue
    <2>3. \A i \in AllKids(m) : /\ last[Kids(m)[i]] = st[Kids(m)[i]]
        BY <1>1, <2>1, <2>2 DEF AwaitedCome, Over, Active, AllKids
    <2>4. QED
        BY <2>3 DEF AllOk, LastOk, AllKids
<1>4. how = "ok" => OkWith(m, note'[m])
    BY <1>1, <1>3 DEF OkWith, OkMeans, Concurrent
<1>5. how = "failed" => FailedMeans(m)
    BY <1>1, <1>3 DEF FailedMeans, Concurrent
<1>6. ActionStep(m) /\ how \in {"ok", "failed"}
    BY DEF ActionStep
<1> HIDE DEF how
<1>7. QED
    BY <1>1, <1>2, <1>4, <1>5, <1>6, NodeEndKeeps

LEMMA ForkKeeps ==
    ASSUME ActionsIInv, NEW m \in Nodes, Fork(m)
    PROVE  GoesAlone(m) /\ NodeIsTrue(m)'
<1>1. ActionsTyped
    BY DEF ActionsIInv
<1>2. /\ st[m] = "run" /\ Concurrent(m) /\ at' = [at EXCEPT ![m] = 1]
      /\ st' = [n \in Nodes |-> IF n \in Range(Kids(m)) THEN "called" ELSE st[n]]
      /\ tree' = tree /\ kid' = kid /\ last' = last /\ note' = note
    BY DEF Fork
<1>3. \A n \in Nodes : n \in Range(Kids(m)) <=> IsKid(n, m)
    BY DEF Range, IsKid, AllKids
<1>4. \A n \in Nodes : st'[n] = IF IsKid(n, m) THEN "called" ELSE st[n]
    BY <1>2, <1>3
<1>5. ~IsKid(m, m) /\ \A i \in AllKids(m) : Kids(m)[i] \in Nodes /\ IsKid(Kids(m)[i], m)
    BY <1>1, TreeFacts DEF IsKid
<1>6. /\ st'[m] = "run" /\ at'[m] = 1 /\ \A n \in Nodes \ {m} : at'[n] = at[n]
      /\ \A i \in AllKids(m) : st'[Kids(m)[i]] = "called"
    BY <1>1, <1>2, <1>4, <1>5 DEF ActionsTyped
<1>7. ActionsTyped'
    <2>1. st' \in [Nodes -> {"idle", "called", "run", "ok", "failed"}]
        BY <1>1, <1>2 DEF ActionsTyped
    <2>2. at' \in [Nodes -> Nat]
        BY <1>1, <1>2 DEF ActionsTyped
    <2>3. QED
        BY <1>1, <1>2, <2>1, <2>2, SameTree DEF ActionsTyped
<1>8. GoesAlone(m)
    BY <1>2, <1>4, <1>6, <1>7 DEF GoesAlone
<1>9. Awaited(m)' = AllKids(m) /\ AllKids(m)' = AllKids(m) /\ Kids(m)' = Kids(m)
    BY <1>2, <1>6, SameTree DEF Awaited
<1>10. OnlyAwaited(m)' /\ AwaitedCome(m)'
    BY <1>6, <1>9 DEF OnlyAwaited, AwaitedCome, Active
<1>11. Progress(m)'
    <2>1. Kind(m)' \in {"parallel", "merge"}
        BY <1>2, SameTree DEF Concurrent
    <2>2. QED
        BY <1>6, <2>1 DEF Progress, Come
<1>12. QED
    BY <1>6, <1>8, <1>10, <1>11 DEF NodeIsTrue

\* The next kid is called, or passed over and k is 0.
GoesOn(m, k) ==
    /\ k \in Nat /\ (k # 0 => k \in AllKids(m))
    /\ tree' = tree /\ note' = note
    /\ at' = [at EXCEPT ![m] = @ + 1] /\ kid' = [kid EXCEPT ![m] = k]
    /\ last' \in [Nodes -> {"none", "ok", "failed"}]
    /\ st' \in [Nodes -> {"idle", "called", "run", "ok", "failed"}]
    /\ \A n \in Nodes : ~IsKid(n, m) => last'[n] = last[n] /\ st'[n] = st[n]
    /\ \A i \in AllKids(m) : IF i = k THEN st'[Kids(m)[i]] = "called"
                             ELSE st'[Kids(m)[i]] \in {st[Kids(m)[i]], "idle"}
    /\ Come(m, at[m] + 1, k, last')

LEMMA GoesOnKeeps ==
    ASSUME ActionsIInv, NEW m \in Nodes, ActionStep(m), st[m] = "run", ~Concurrent(m),
           NEW k, GoesOn(m, k)
    PROVE  GoesAlone(m) /\ NodeIsTrue(m)'
<1>1. ActionsTyped
    BY DEF ActionsIInv
<1>2. ~IsKid(m, m) /\ \A i \in AllKids(m) : Kids(m)[i] \in Nodes /\ IsKid(Kids(m)[i], m)
    BY <1>1, TreeFacts DEF IsKid
<1>3. /\ st'[m] = "run" /\ at'[m] = at[m] + 1 /\ kid'[m] = k
      /\ \A n \in Nodes \ {m} : at'[n] = at[n] /\ kid'[n] = kid[n]
    BY <1>1, <1>2 DEF ActionsTyped, GoesOn
<1>4. \A n \in Nodes : IsKid(n, m) => st'[n] \in {st[n], "idle", "called"}
    BY DEF IsKid, GoesOn
<1>5. ActionsTyped'
    <2>1. at' \in [Nodes -> Nat] /\ kid' \in [Nodes -> Nat]
        BY <1>1 DEF ActionsTyped, GoesOn
    <2>2. QED
        BY <1>1, <2>1, SameTree DEF ActionsTyped, GoesOn
<1>6. GoesAlone(m)
    BY <1>3, <1>4, <1>5 DEF GoesAlone, GoesOn
<1>7. /\ \A i \in AllKids(m) : i = k => st'[Kids(m)[i]] = "called"
      /\ \A i \in AllKids(m) : i # k => st'[Kids(m)[i]] \notin Active
    BY StepsAreQuiet DEF Active, GoesOn
<1>8. Awaited(m)' = IF k = 0 THEN {} ELSE {k}
    BY <1>3, SameTree DEF Awaited, GoesOn
<1>9. OnlyAwaited(m)' /\ AwaitedCome(m)'
    <2>1. 0 \notin AllKids(m)
        <3>1. AllKids(m) = 1 .. Len(Kids(m)) /\ Len(Kids(m)) \in Nat
            BY <1>1, TreeFacts
        <3>2. QED
            BY <3>1
    <2>2. Kids(m)' = Kids(m) /\ AllKids(m)' = AllKids(m)
        BY SameTree DEF GoesOn
    <2>3. \A i \in AllKids(m) : st'[Kids(m)[i]] \in Active => i = k /\ k # 0
        BY <1>7, <2>1
    <2>4. OnlyAwaited(m)'
        BY <1>3, <1>8, <2>2, <2>3 DEF OnlyAwaited
    <2>5. \A i \in Awaited(m)' : i \in AllKids(m) /\ st'[Kids(m)[i]] \in Active
        BY <1>7, <1>8 DEF Active, GoesOn
    <2>6. QED
        BY <2>2, <2>4, <2>5 DEF AwaitedCome
<1>10. Progress(m)'
    <2>1. Kids(m)' = Kids(m) /\ AllKids(m)' = AllKids(m) /\ Kind(m)' = Kind(m)
          /\ Concurrent(m)' = Concurrent(m) /\ tree'[m] = tree[m]
        BY SameTree DEF GoesOn
    <2>2. QED
        BY <1>3, <2>1 DEF Progress, Come, KidsBefore, GoesOn
<1>11. QED
    BY <1>3, <1>6, <1>9, <1>10 DEF NodeIsTrue

LEMMA TurnKeeps ==
    ASSUME ActionsIInv, NEW m \in Nodes, Turn(m)
    PROVE  GoesAlone(m) /\ NodeIsTrue(m)'
<1> DEFINE called == IF kid[m] = 0 THEN m ELSE Kids(m)[kid[m]]
           away == IF called = m THEN "run" ELSE "idle"
<1>1. ActionsTyped /\ ActionStep(m) /\ st[m] = "run" /\ ~Concurrent(m) /\ tree' = tree
    BY DEF ActionsIInv, Turn, ActionStep
<1>2. kid[m] # 0 => Outcome(m) \in {"ok", "failed"}
    BY DEF Turn, Outcome
<1>3. PICK c \in Decisions(m, at[m], Outcome(m)) :
          CASE c.do = "call" ->
                 /\ st' = [[st EXCEPT ![called] = away] EXCEPT ![Kids(m)[c.kid]] = "called"]
                 /\ at' = [at EXCEPT ![m] = @ + 1] /\ kid' = [kid EXCEPT ![m] = c.kid]
                 /\ UNCHANGED <<last, arrived, note>>
            [] c.do = "skip" ->
                 /\ st' = [st EXCEPT ![called] = away]
                 /\ at' = [at EXCEPT ![m] = @ + 1] /\ kid' = [kid EXCEPT ![m] = 0]
                 /\ last' = [last EXCEPT ![Kids(m)[at[m] + 1]] = "none"]
                 /\ UNCHANGED <<arrived, note>>
            [] OTHER ->
                 /\ EndAction(m, c.do) /\ note' = [note EXCEPT ![m] = c.note]
                 /\ UNCHANGED <<at, kid>>
    BY Zenon DEF Turn, Outcome
<1>4. Fits(m, c)
    BY <1>1, <1>2, DecisionsFit
<1>5. kid[m] # 0 => kid[m] \in AllKids(m)
    BY <1>1, <1>2, OutcomeIsLast
<1>6. ~IsKid(m, m) /\ \A i \in AllKids(m) : Kids(m)[i] \in Nodes /\ Kids(m)[i] # m /\ IsKid(Kids(m)[i], m)
    BY <1>1, TreeFacts DEF IsKid
<1>7. called \in Nodes /\ (called = m \/ IsKid(called, m)) /\ (called = m => away = "run")
      /\ (called # m => away = "idle")
    BY <1>5, <1>6
<1> HIDE DEF called, away
<1>8. CASE c.do = "call"
    <2> DEFINE next == Kids(m)[c.kid]
    <2>1. c.kid \in AllKids(m) /\ Come(m, at[m] + 1, c.kid, last)
        BY <1>4, <1>8 DEF Fits
    <2>2. /\ st' = [[st EXCEPT ![called] = away] EXCEPT ![next] = "called"]
          /\ at' = [at EXCEPT ![m] = @ + 1] /\ kid' = [kid EXCEPT ![m] = c.kid]
          /\ last' = last /\ note' = note
        BY <1>3, <1>8
    <2>3. next \in Nodes /\ next # m /\ IsKid(next, m) /\ c.kid \in Nat
          /\ \A i \in AllKids(m) : Kids(m)[i] = next => i = c.kid
        <3>1. AllKids(m) = 1 .. Len(Kids(m)) /\ Len(Kids(m)) \in Nat
            BY <1>1, TreeFacts
        <3>2. \A i, j \in AllKids(m) : Kids(m)[i] = Kids(m)[j] => i = j
            BY <1>1, TreeFacts
        <3>3. c.kid \in Nat
            BY <2>1, <3>1
        <3>4. QED
            BY <1>6, <2>1, <3>2, <3>3
    <2> HIDE DEF next
    <2>4. /\ st' \in [Nodes -> {"idle", "called", "run", "ok", "failed"}]
          /\ st'[next] = "called"
          /\ \A n \in Nodes \ {next} : st'[n] = IF n = called THEN away ELSE st[n]
        BY <1>1, <1>7, <2>2, <2>3 DEF ActionsTyped
    <2>5. \A n \in Nodes : ~IsKid(n, m) => st'[n] = st[n] /\ last'[n] = last[n]
        BY <1>1, <1>7, <2>2, <2>3, <2>4
    <2>6. \A i \in AllKids(m) : IF i = c.kid THEN st'[Kids(m)[i]] = "called"
                                ELSE st'[Kids(m)[i]] \in {st[Kids(m)[i]], "idle"}
        BY <1>6, <1>7, <2>3, <2>4 DEF next
    <2>7. last' \in [Nodes -> {"none", "ok", "failed"}] /\ Come(m, at[m] + 1, c.kid, last')
        BY <1>1, <2>1, <2>2 DEF ActionsTyped
    <2> DEFINE k == c.kid
    <2>8. k \in Nat /\ (k # 0 => k \in AllKids(m)) /\ kid' = [kid EXCEPT ![m] = k]
        BY <2>1, <2>2, <2>3
    <2>9. GoesOn(m, k)
        BY Zenon, <1>1, <2>2, <2>4, <2>5, <2>6, <2>7, <2>8 DEF GoesOn
    <2>10. QED
        BY <1>1, <2>9, GoesOnKeeps
<1>9. CASE c.do = "skip"
    <2> DEFINE next == Kids(m)[at[m] + 1]
    <2>1. at[m] + 1 \in AllKids(m) /\ Come(m, at[m] + 1, 0, [last EXCEPT ![next] = "none"])
        BY <1>4, <1>9 DEF Fits
    <2>2. /\ st' = [st EXCEPT ![called] = away]
          /\ at' = [at EXCEPT ![m] = @ + 1] /\ kid' = [kid EXCEPT ![m] = 0]
          /\ last' = [last EXCEPT ![next] = "none"] /\ note' = note
        BY <1>3, <1>9
    <2>3. next \in Nodes /\ next # m /\ IsKid(next, m)
        BY <1>6, <2>1
    <2>4. 0 \notin AllKids(m)
        <3>1. AllKids(m) = 1 .. Len(Kids(m)) /\ Len(Kids(m)) \in Nat
            BY <1>1, TreeFacts
        <3>2. QED
            BY <3>1
    <2> HIDE DEF next
    <2>5. /\ st' \in [Nodes -> {"idle", "called", "run", "ok", "failed"}]
          /\ \A n \in Nodes : st'[n] = IF n = called THEN away ELSE st[n]
        BY <1>1, <1>7, <2>2 DEF ActionsTyped
    <2>6. /\ last' \in [Nodes -> {"none", "ok", "failed"}]
          /\ \A n \in Nodes \ {next} : last'[n] = last[n]
        BY <1>1, <2>2, <2>3 DEF ActionsTyped
    <2>7. \A n \in Nodes : ~IsKid(n, m) => st'[n] = st[n] /\ last'[n] = last[n]
        BY <1>1, <1>7, <2>3, <2>5, <2>6
    <2>8. \A i \in AllKids(m) : IF i = 0 THEN st'[Kids(m)[i]] = "called"
                                ELSE st'[Kids(m)[i]] \in {st[Kids(m)[i]], "idle"}
        BY <1>6, <1>7, <2>4, <2>5
    <2>9. Come(m, at[m] + 1, 0, last')
        BY <2>1, <2>2
    <2>10. GoesOn(m, 0)
        BY Zenon, <1>1, <2>2, <2>5, <2>6, <2>7, <2>8, <2>9 DEF GoesOn
    <2>11. QED
        BY <1>1, <2>10, GoesOnKeeps
<1>10. CASE c.do \in {"ok", "failed"}
    <2>1. EndAction(m, c.do) /\ note' = [note EXCEPT ![m] = c.note] /\ at' = at /\ kid' = kid
        BY <1>3, <1>10
    <2>2. DOMAIN note' = Nodes /\ note'[m] = c.note /\ \A n \in Nodes \ {m} : note'[n] = note[n]
        BY <1>1, <2>1 DEF ActionsTyped
    <2>3. /\ c.do = "ok" => OkWith(m, note'[m])
          /\ c.do = "failed" => FailedMeans(m)
        BY <1>4, <2>2 DEF Fits
    <2>4. QED
        BY <1>1, <1>10, <2>1, <2>2, <2>3, NodeEndKeeps
<1>11. QED
    BY <1>4, <1>8, <1>9, <1>10 DEF Fits

-----------------------------------------------------------------------------
(* The other nodes                                                         *)

\* The parent of the node that takes a step waits for it.
LEMMA ParentKeeps ==
    ASSUME ActionsIInv, NEW m \in Nodes, ActionStep(m), GoesAlone(m), NEW n \in Nodes \ {m}, IsKid(m, n)
    PROVE  NodeIsTrue(n)'
<1>1. ActionsTyped
    BY DEF ActionsIInv
<1>2. PICK j \in AllKids(n) : Kids(n)[j] = m
    BY DEF IsKid
<1>3. IsKid(n, m) => st[n] \notin Active
    BY StepsAreQuiet DEF IsKid
<1>4. st[n] = "run" /\ j \in Awaited(n)
    BY <1>2, StepsAreQuiet DEF ActionsIInv, NodeIsTrue, OnlyAwaited
<1>5. /\ tree' = tree /\ at'[n] = at[n] /\ kid'[n] = kid[n] /\ st'[n] = "run"
      /\ Kids(n)' = Kids(n) /\ AllKids(n)' = AllKids(n) /\ Kind(n)' = Kind(n)
      /\ Concurrent(n)' = Concurrent(n) /\ Awaited(n)' = Awaited(n)
    <2>1. ~IsKid(n, m)
        BY <1>3, <1>4 DEF Active
    <2>2. tree' = tree /\ at'[n] = at[n] /\ kid'[n] = kid[n] /\ st'[n] = "run"
        BY <1>4, <2>1 DEF GoesAlone
    <2>3. /\ Kids(n)' = Kids(n) /\ AllKids(n)' = AllKids(n) /\ Kind(n)' = Kind(n)
          /\ Concurrent(n)' = Concurrent(n)
        BY <2>2, SameTree
    <2>4. QED
        BY <2>2, <2>3 DEF Awaited
<1>6. ASSUME NEW i \in AllKids(n), i # j
      PROVE  st'[Kids(n)[i]] = st[Kids(n)[i]] /\ last'[Kids(n)[i]] = last[Kids(n)[i]]
    <2>1. Kids(n)[i] \in Nodes /\ Kids(n)[i] # m
        BY <1>1, <1>2, <1>6, TreeFacts
    <2>2. ~IsKid(Kids(n)[i], m)
        <3>1. \A k \in AllKids(m) : Kids(n)[i] # Kids(m)[k]
            BY <1>1, TreeFacts
        <3>2. QED
            BY <3>1 DEF IsKid
    <2>3. QED
        BY <2>1, <2>2 DEF GoesAlone
<1>7. OnlyAwaited(n) /\ AwaitedCome(n) /\ Progress(n)
    BY <1>4 DEF ActionsIInv, NodeIsTrue
<1>8. OnlyAwaited(n)'
    <2>1. \A i \in AllKids(n) : st'[Kids(n)[i]] \in Active => i \in Awaited(n)
        BY <1>4, <1>6, <1>7 DEF OnlyAwaited
    <2>2. QED
        BY <1>5, <2>1 DEF OnlyAwaited
<1>9. AwaitedCome(n)'
    <2>1. \/ st'[m] \in Active
          \/ st'[m] \in {"ok", "failed"} /\ last'[m] = st'[m]
        BY DEF GoesAlone, Active
    <2>2. ASSUME NEW i \in Awaited(n)
          PROVE  \/ st'[Kids(n)[i]] \in Active
                 \/ /\ st'[Kids(n)[i]] \in {"ok", "failed"}
                    /\ last'[Kids(n)[i]] = st'[Kids(n)[i]]
        <3>1. CASE i = j
            BY <1>2, <2>1, <3>1
        <3>2. CASE i # j
            BY <1>6, <1>7, <3>2 DEF AwaitedCome
        <3>3. QED
            BY <3>1, <3>2
    <2>3. QED
        BY <1>5, <1>7, <2>2 DEF AwaitedCome
<1>10. Progress(n)'
    <2>1. CASE Concurrent(n)
        <3>1. Kind(n) \in {"parallel", "merge"}
            BY <2>1 DEF Concurrent
        <3>2. at[n] \in {0, 1}
            BY <1>7, <2>1, <3>1 DEF Progress, Come
        <3>3. QED
            BY <1>5, <3>1, <3>2 DEF Progress, Come
    <2>2. CASE ~Concurrent(n)
        <3>1. j = kid[n]
            BY <1>4, <2>2 DEF Awaited
        <3>2. \A i \in AllKids(n) : i # kid[n] => last'[Kids(n)[i]] = last[Kids(n)[i]]
            BY <1>6, <3>1
        <3>3. Come(n, at[n], kid[n], last)
            BY <1>7 DEF Progress
        <3>4. at[n] \in Nat /\ AllKids(n) = 1 .. Len(Kids(n)) /\ Len(Kids(n)) \in Nat
            BY <1>1, TreeFacts DEF ActionsTyped
        <3>5. \A i \in AllKids(n) : i \in Nat /\ (i < kid[n] => i # kid[n])
            BY <3>1, <3>4
        <3>6. Come(n, at[n], kid[n], last')
            <4>1. CASE Kind(n) = "sequence"
                BY <3>2, <3>3, <3>5, <4>1 DEF Come, KidsBefore
            <4>2. CASE Kind(n) = "validated"
                BY <3>2, <3>3, <3>5, <4>2 DEF Come, KidsBefore
            <4>3. CASE Kind(n) = "try"
                <5>1. kid[n] = at[n] /\ at[n] <= 2 /\ (at[n] = 2 => last[Kids(n)[1]] = "failed")
                    BY <3>3, <4>3 DEF Come
                <5>2. at[n] = 2 => last'[Kids(n)[1]] = last[Kids(n)[1]]
                    <6>1. Len(Kids(n)) = 2
                        BY <1>1, <4>3, TreeFacts
                    <6>2. 1 \in AllKids(n)
                        BY <3>4, <6>1
                    <6>3. QED
                        BY <3>2, <5>1, <6>2
                <5>3. QED
                    BY <4>3, <5>1, <5>2 DEF Come
            <4>4. CASE Kind(n) = "progressive"
                <5>1. /\ kid[n] \in {0, at[n]} /\ at[n] <= Len(Kids(n))
                      /\ \A i \in AllKids(n) : Kids(n)[i] \in tree[n].required /\ i <= at[n] =>
                            IF i = at[n] THEN kid[n] = i ELSE last[Kids(n)[i]] = "ok"
                    BY <3>3, <4>4 DEF Come
                <5>2. kid[n] = at[n]
                    BY <3>1, <3>4, <5>1
                <5>3. \A i \in AllKids(n) : Kids(n)[i] \in tree[n].required /\ i <= at[n] =>
                            IF i = at[n] THEN kid[n] = i ELSE last'[Kids(n)[i]] = "ok"
                    BY <3>2, <5>1, <5>2
                <5>4. QED
                    BY <4>4, <5>1, <5>3 DEF Come
            <4>5. CASE Kind(n) \in {"retry", "backoff"}
                BY <3>3, <4>5 DEF Come
            <4>6. CASE Kind(n) \in {"branch", "conditional"}
                BY <3>3, <4>6 DEF Come
            <4>7. CASE Kind(n) = "leaf"
                BY <3>3, <4>7 DEF Come, Concurrent
            <4>8. QED
                BY <1>1, <2>2, <4>1, <4>2, <4>3, <4>4, <4>5, <4>6, <4>7, TreeFacts DEF Concurrent
        <3>7. QED
            BY <1>5, <3>6 DEF Progress, Come, KidsBefore
    <2>3. QED
        BY <2>1, <2>2
<1>11. QED
    BY <1>5, <1>8, <1>9, <1>10 DEF NodeIsTrue

\* All the others keep what they have behind them.
LEMMA RestKeeps ==
    ASSUME ActionsIInv, NEW m \in Nodes, ActionStep(m), GoesAlone(m), NEW n \in Nodes \ {m}, ~IsKid(m, n)
    PROVE  NodeIsTrue(n)'
<1>1. ActionsTyped
    BY DEF ActionsIInv
<1>2. /\ tree' = tree /\ at'[n] = at[n] /\ kid'[n] = kid[n] /\ note'[n] = note[n]
      /\ Kids(n)' = Kids(n) /\ AllKids(n)' = AllKids(n) /\ Kind(n)' = Kind(n)
      /\ Concurrent(n)' = Concurrent(n) /\ tree'[n] = tree[n]
    BY SameTree DEF GoesAlone
<1>3. ASSUME NEW i \in AllKids(n)
      PROVE  st'[Kids(n)[i]] = st[Kids(n)[i]] /\ last'[Kids(n)[i]] = last[Kids(n)[i]]
    <2>1. Kids(n)[i] \in Nodes /\ Kids(n)[i] # m
        BY <1>1, TreeFacts DEF IsKid
    <2>2. ~IsKid(Kids(n)[i], m)
        <3>1. \A k \in AllKids(m) : Kids(n)[i] # Kids(m)[k]
            BY <1>1, TreeFacts
        <3>2. QED
            BY <3>1 DEF IsKid
    <2>3. QED
        BY <2>1, <2>2 DEF GoesAlone
<1>4. st'[n] = st[n] \/ (st'[n] \in {"idle", "called"} /\ st[n] \notin Active)
    <2>1. CASE IsKid(n, m)
        BY <2>1, StepsAreQuiet DEF GoesAlone, IsKid
    <2>2. CASE ~IsKid(n, m)
        BY <2>2 DEF GoesAlone
    <2>3. QED
        BY <2>1, <2>2
<1>5. NodeIsTrue(n)
    BY DEF ActionsIInv
<1>6. Awaited(n)' = Awaited(n) /\ LastOk(n)' = LastOk(n)
    BY <1>2, <1>3 DEF Awaited, LastOk, AllKids
<1>7. OnlyAwaited(n)'
    BY <1>2, <1>3, <1>4, <1>5, <1>6 DEF NodeIsTrue, OnlyAwaited, Active
<1>8. ASSUME st'[n] = "run"
      PROVE  AwaitedCome(n)' /\ Progress(n)'
    <2>1. AwaitedCome(n) /\ Progress(n)
        BY <1>4, <1>5, <1>8 DEF NodeIsTrue
    <2>2. AwaitedCome(n)'
        BY <1>2, <1>3, <1>6, <2>1 DEF AwaitedCome
    <2>3. Kind(n) = "try" => 1 \in AllKids(n)
        <3>1. AllKids(n) = 1 .. Len(Kids(n)) /\ (Kind(n) = "try" => Len(Kids(n)) = 2)
            BY <1>1, TreeFacts
        <3>2. QED
            BY <3>1
    <2>4. Progress(n)'
        BY <1>2, <1>3, <2>1, <2>3 DEF Progress, Come, KidsBefore
    <2>5. QED
        BY <2>2, <2>4
<1>9. ASSUME st'[n] = "ok"
      PROVE  OkMeans(n)'
    <2>1. OkMeans(n)
        BY <1>4, <1>5, <1>9 DEF NodeIsTrue
    <2>2. QED
        BY <1>2, <1>6, <2>1 DEF OkMeans
<1>10. ASSUME st'[n] = "failed"
       PROVE  FailedMeans(n)'
    <2>1. FailedMeans(n)
        BY <1>4, <1>5, <1>10 DEF NodeIsTrue
    <2>2. QED
        BY <1>2, <1>6, <2>1 DEF FailedMeans
<1>11. QED
    BY <1>7, <1>8, <1>9, <1>10 DEF NodeIsTrue

-----------------------------------------------------------------------------
LEMMA ActionsBegin == ActionsInit => ActionsIInv
<1> SUFFICES ASSUME ActionsInit
             PROVE  ActionsIInv
    OBVIOUS
<1>1. /\ tree \in Trees
      /\ st = [n \in Nodes |-> IF n = Root THEN "called" ELSE "idle"]
      /\ at = [n \in Nodes |-> 0] /\ kid = at
      /\ last = [n \in Nodes |-> "none"] /\ note = [n \in Nodes |-> 0]
    BY DEF ActionsInit
<1>2. ActionsTyped
    BY <1>1 DEF ActionsTyped
<1>3. ASSUME NEW n \in Nodes
      PROVE  NodeIsTrue(n)
    <2>1. \A i \in AllKids(n) : Kids(n)[i] \in Nodes \ {Root}
        <3>1. Kids(n) \in Seq(Nodes \ {Root, n})
            BY <1>2, TreeFacts
        <3>2. QED
            BY <3>1 DEF AllKids
    <2>2. \A i \in AllKids(n) : st[Kids(n)[i]] = "idle"
        BY <1>1, <2>1
    <2>3. OnlyAwaited(n)
        BY <2>2 DEF OnlyAwaited, Active
    <2>4. st[n] \in {"called", "idle"}
        BY <1>1
    <2>5. QED
        BY <2>3, <2>4 DEF NodeIsTrue
<1>4. QED
    BY <1>2, <1>3 DEF ActionsIInv

LEMMA ActionsStepOn == ActionsIInv /\ [ActionsNext]_actionVars => ActionsIInv'
<1> SUFFICES ASSUME ActionsIInv, [ActionsNext]_actionVars
             PROVE  ActionsIInv'
    OBVIOUS
<1>1. CASE ActionsNext
    <2>1. PICK m \in Nodes : ActionStep(m)
        BY <1>1 DEF ActionsNext
    <2>2. GoesAlone(m) /\ NodeIsTrue(m)'
        BY <2>1, BeginKeeps, LeafKeeps, TurnKeeps, ForkKeeps, JoinKeeps DEF ActionStep
    <2>3. \A n \in Nodes \ {m} : NodeIsTrue(n)'
        BY <2>1, <2>2, ParentKeeps, RestKeeps
    <2>4. ActionsTyped' /\ Nodes' = Nodes
        BY <2>2 DEF GoesAlone, Nodes
    <2>5. QED
        BY <2>2, <2>3, <2>4 DEF ActionsIInv
<1>2. CASE UNCHANGED actionVars
    <2>1. /\ tree' = tree /\ st' = st /\ at' = at /\ kid' = kid /\ last' = last
          /\ note' = note
        BY <1>2 DEF actionVars
    <2>2. ActionsTyped' /\ Nodes' = Nodes
        BY <2>1, SameTree DEF ActionsIInv, ActionsTyped
    <2>3. ASSUME NEW n \in Nodes
          PROVE  NodeIsTrue(n)'
        <3>1. NodeIsTrue(n)
            BY DEF ActionsIInv
        <3>2. /\ Kids(n)' = Kids(n) /\ AllKids(n)' = AllKids(n) /\ Kind(n)' = Kind(n)
              /\ Concurrent(n)' = Concurrent(n)
            BY <2>1, SameTree
        <3>3. LastOk(n)' = LastOk(n) /\ Awaited(n)' = Awaited(n)
            BY <2>1, <3>2 DEF LastOk, Awaited, AllKids
        <3>4. OnlyAwaited(n)' = OnlyAwaited(n) /\ AwaitedCome(n)' = AwaitedCome(n)
            BY <2>1, <3>2, <3>3 DEF OnlyAwaited, AwaitedCome
        <3>5. Progress(n)' <=> Progress(n)
            BY <2>1, <3>2 DEF Progress, Come, KidsBefore
        <3>6. (OkMeans(n)' <=> OkMeans(n)) /\ (FailedMeans(n)' <=> FailedMeans(n))
            BY <2>1, <3>2, <3>3 DEF OkMeans, FailedMeans
        <3>7. QED
            BY <2>1, <3>1, <3>4, <3>5, <3>6 DEF NodeIsTrue
    <2>4. QED
        BY <2>2, <2>3 DEF ActionsIInv
<1>3. QED
    BY <1>1, <1>2

\* Who is on its way is awaited by its parent, and each node that runs has behind
\* it what its kind asks for; see NodeIsTrue.
THEOREM ActionsInvariant == ActionsSpec => []ActionsIInv
    BY ActionsBegin, ActionsStepOn, PTL DEF ActionsSpec

\* A composite action says that it has succeeded or failed only when those of its
\* kids have that it stands for.
THEOREM ActionsReportTruly == ActionsSpec => []ReportIsTrue
<1>1. ActionsIInv => ReportIsTrue
    BY DEF ActionsIInv, NodeIsTrue, ReportIsTrue
<1>2. QED
    BY <1>1, ActionsInvariant, PTL

(***************************************************************************)
(* Closing                                                                 *)
(***************************************************************************)

-----------------------------------------------------------------------------
(* The inductive invariant                                                 *)

ClosingTyped ==
    /\ layers \in Seq(LayerKinds) /\ list \in Seq({"func", "channel", "nil"})
    /\ mut \in [Layers -> CloseCallers \cup {None}]
    /\ closed \subseteq Layers
    /\ done \in [DOMAIN list -> Nat]
    /\ cpc \in [CloseCallers -> {"out", "down", "in", "up", "write"}]
    /\ depth \in [CloseCallers -> 0 .. Bottom]
    /\ place \in [CloseCallers -> 1 .. Len(list) + 1]
    /\ got \in [CloseCallers -> [errs : SUBSET Nat, panic : BOOLEAN]]
    /\ began \in [CloseCallers -> SUBSET closed]

\* Where a call can be on its way down and on its way up.
Stations ==
    \A t \in CloseCallers :
       /\ cpc[t] = "down" => depth[t] # 0
       /\ cpc[t] = "in" => /\ depth[t] = Bottom /\ place[t] \in DOMAIN list
                           /\ list[place[t]] # "nil"
       /\ cpc[t] = "up" => depth[t] # Bottom

\* The call has gone down through the layer, and has not come back through it.
Passed(t, d) ==
    \/ cpc[t] \in {"down", "in"} /\ depth[t] > d
    \/ cpc[t] = "up" /\ depth[t] >= d

\* The mutex of a CloseOnce is with the call that is below it, and not for nothing.
Guarding ==
    \A d \in Layers : \A t \in CloseCallers :
       mut[d] = t <=> layers[d] = "once" /\ Passed(t, d)
NotYet == \A d \in Layers : mut[d] # None => d \notin closed

\* A panic stops at the next HandlePanic on its way up.
Panicking ==
    \A t \in CloseCallers : got[t].panic =>
       /\ cpc[t] \notin {"down", "in"}
       /\ \A d \in Layers : layers[d] = "panic" => depth[t] >= d

\* What a call has gone through without an error is closed.
Clean ==
    \A t \in CloseCallers : got[t] = Ok =>
       \A i \in DOMAIN list : i < place[t] => list[i] = "nil" \/ done[i] > 0

\* A call that has begun after a cancel does not get far, nor does a late write.
InTime ==
    \A t \in CloseCallers :
       /\ cpc[t] = "write" => 1 \notin began[t]
       /\ layers # <<>> /\ layers[1] = "cancelable" /\ cpc[t] \in {"down", "in"} /\ depth[t] > 1
             => 1 \notin began[t]

\* The only closer of a list has closed: a CloseOnce above it knows, or is about to
\* be told by the call that has its mutex.
Succeeded(t) == got[t] = Ok /\ (cpc[t] = "up" \/ (cpc[t] = "down" /\ place[t] = 2))
Told ==
    Len(list) = 1 =>
       /\ \A t \in CloseCallers : cpc[t] \in {"down", "in"} /\ place[t] = 1 => got[t] = Ok
       /\ \A d \in Layers : layers[d] = "once" =>
             /\ done[1] <= 1
             /\ done[1] = 1 => d \in closed \/ \E t \in CloseCallers : mut[d] = t /\ Succeeded(t)

CloInv ==
    ClosingTyped /\ Stations /\ Guarding /\ NotYet /\ Panicking /\ Clean /\ InTime /\ Told

-----------------------------------------------------------------------------
(* Steps                                                                   *)

LEMMA Shapes ==
    ASSUME ClosingTyped
    PROVE  /\ Bottom \in Nat \ {0} /\ Layers = 1 .. Bottom - 1
           /\ Len(list) \in Nat /\ DOMAIN list = 1 .. Len(list)
           /\ layers # <<>> <=> Bottom > 1
           /\ \A d \in Layers : layers[d] \in LayerKinds
           /\ \A i \in DOMAIN list : list[i] \in {"func", "channel", "nil"}
<1>1. layers \in Seq(LayerKinds) /\ list \in Seq({"func", "channel", "nil"})
    BY DEF ClosingTyped
<1>2. Len(layers) \in Nat /\ DOMAIN layers = 1 .. Len(layers)
      /\ Len(list) \in Nat /\ DOMAIN list = 1 .. Len(list)
    BY <1>1, LenProperties
<1>3. layers = <<>> <=> Len(layers) = 0
    BY <1>1, EmptySeq
<1> DEFINE n == Len(layers)
<1>4. Bottom = n + 1
    BY DEF Bottom
<1> HIDE DEF n
<1>5. n \in Nat /\ Layers = 1 .. n /\ (layers = <<>> <=> n = 0)
    BY <1>2, <1>3 DEF n, Layers
<1>6. Layers = 1 .. Bottom - 1 /\ Bottom \in Nat \ {0} /\ (layers # <<>> <=> Bottom > 1)
    BY <1>4, <1>5
<1>7. \A d \in Layers : layers[d] \in LayerKinds
    BY <1>1, <1>2, ElementOfSeq DEF Layers
<1>8. \A i \in DOMAIN list : list[i] \in {"func", "channel", "nil"}
    BY <1>1, <1>2, ElementOfSeq
<1>9. QED
    BY <1>2, <1>6, <1>7, <1>8

\* A step of a call, or the beginning of one.
CallMoves(t) ==
    \/ closeOnceImpl(t) \/ panicHandlingImpl(t) \/ cancelableCloser(t) \/ writerClose(t)
    \/ Closer(t) \/ Succeeds(t) \/ Fails(t) \/ Panics(t) \/ Up(t) \/ CloseReturns(t)
    \/ WriteEnds(t) \/ Close(t) \/ cancel(t) \/ Write(t)

LEMMA EveryStepMoves ==
    ASSUME [ClosingNext]_closingVars
    PROVE  UNCHANGED closingVars \/ \E t \in CloseCallers : CallMoves(t)
    BY DEF ClosingNext, ClosingStep, customCloser, channelCloserImpl, CallMoves

\* The chain and the list do not change, and no flag is taken back.
LEMMA ShapeStays ==
    ASSUME NEW t \in CloseCallers, CallMoves(t)
    PROVE  /\ layers' = layers /\ list' = list
           /\ Layers' = Layers /\ Bottom' = Bottom
           /\ closed \subseteq closed'
<1>1. layers' = layers /\ list' = list
    BY DEF CallMoves, closeOnceImpl, panicHandlingImpl, cancelableCloser, writerClose, Closer,
           Succeeds, Fails, Panics, Up, CloseReturns, WriteEnds, Close, cancel, Write, shape
<1>2. closed \subseteq closed'
    BY DEF CallMoves, closeOnceImpl, panicHandlingImpl, cancelableCloser, writerClose, Closer,
           Succeeds, Fails, Panics, Up, CloseReturns, WriteEnds, Close, cancel, Write
<1>3. QED
    BY <1>1, <1>2 DEF Layers, Bottom

LEMMA ClosingInitInv == ClosingInit => CloInv
<1> SUFFICES ASSUME ClosingInit PROVE CloInv
    OBVIOUS
<1>1. layers \in Seq(LayerKinds) /\ list \in Seq({"func", "channel", "nil"})
    BY ClosingAssumption DEF ClosingInit
<1>2. Len(layers) \in Nat /\ Len(list) \in Nat
    BY <1>1, LenProperties
<1>3. Bottom \in Nat /\ 1 \in 0 .. Bottom
    BY <1>2 DEF Bottom
<1>4. 1 \in 1 .. Len(list) + 1
    BY <1>2
<1>5. mut \in [Layers -> CloseCallers \cup {None}] /\ closed \subseteq Layers
      /\ done \in [DOMAIN list -> Nat]
    BY DEF ClosingInit
<1>6. /\ cpc \in [CloseCallers -> {"out", "down", "in", "up", "write"}]
      /\ depth \in [CloseCallers -> 0 .. Bottom]
      /\ place \in [CloseCallers -> 1 .. Len(list) + 1]
      /\ got \in [CloseCallers -> [errs : SUBSET Nat, panic : BOOLEAN]]
      /\ began \in [CloseCallers -> SUBSET closed]
    BY <1>3, <1>4 DEF ClosingInit, Ok
<1>7. ClosingTyped
    BY <1>1, <1>5, <1>6 DEF ClosingTyped
<1>8. Layers = 1 .. Bottom - 1
    BY <1>7, Shapes
<1>9. Stations /\ Guarding /\ NotYet /\ InTime
    BY <1>8, ClosingAssumption DEF ClosingInit, Stations, Guarding, NotYet, Passed, InTime
<1>10. Panicking
    BY DEF ClosingInit, Ok, Panicking
<1>11. Clean
    BY <1>7, Shapes DEF ClosingInit, Clean
<1>12. Told
    <2>1. Len(list) = 1 => done[1] = 0
        BY <1>7, Shapes DEF ClosingInit
    <2>2. QED
        BY <2>1 DEF ClosingInit, Told
<1>13. QED
    BY <1>7, <1>9, <1>10, <1>11, <1>12 DEF CloInv

LEMMA ClosingTypedStep ==
    ASSUME CloInv, NEW t \in CloseCallers, CallMoves(t)
    PROVE  ClosingTyped'
<1> USE DEF CallMoves
<1>1. ClosingTyped /\ Stations
    BY DEF CloInv
<1>2. /\ layers' = layers /\ list' = list /\ Layers' = Layers /\ Bottom' = Bottom
      /\ closed \subseteq closed'
    BY ShapeStays
<1>3. /\ Bottom \in Nat \ {0} /\ Layers = 1 .. Bottom - 1
      /\ Len(list) \in Nat /\ DOMAIN list = 1 .. Len(list)
    BY <1>1, Shapes
<1>4. mut' \in [Layers -> CloseCallers \cup {None}]
    BY <1>1 DEF ClosingTyped, closeOnceImpl, panicHandlingImpl, cancelableCloser, writerClose,
       Closer, Succeeds, Fails, Panics, Up, CloseReturns, WriteEnds, Close, cancel, Write
<1>5. closed' \subseteq Layers
  <2>1. CASE writerClose(t)
      BY <1>1, <2>1 DEF ClosingTyped, writerClose, Has
  <2>2. CASE cancel(t)
    <3>1. 1 \in Layers
        BY <1>1, <1>3, <2>2, Shapes DEF cancel
    <3>2. QED
        BY <1>1, <2>2, <3>1 DEF ClosingTyped, cancel
  <2>3. CASE Up(t)
    <3>1. depth[t] \in Layers
        BY <1>1, <1>3, <2>3 DEF ClosingTyped, Stations, Up
    <3>2. QED
        BY <1>1, <2>3, <3>1 DEF ClosingTyped, Up
  <2>4. CASE ~writerClose(t) /\ ~cancel(t) /\ ~Up(t)
      BY <1>1, <2>4 DEF ClosingTyped, closeOnceImpl, panicHandlingImpl, cancelableCloser,
         Closer, Succeeds, Fails, Panics, CloseReturns, WriteEnds, Close, Write
  <2>5. QED
      BY <2>1, <2>2, <2>3, <2>4
<1>6. done' \in [DOMAIN list -> Nat]
    BY <1>1 DEF ClosingTyped, Stations, closeOnceImpl, panicHandlingImpl, cancelableCloser,
       writerClose, Closer, Succeeds, Fails, Panics, Up, CloseReturns, WriteEnds, Close, cancel,
       Write, Goto
<1>7. cpc' \in [CloseCallers -> {"out", "down", "in", "up", "write"}]
    BY <1>1 DEF ClosingTyped, closeOnceImpl, panicHandlingImpl, cancelableCloser, writerClose,
       Closer, Succeeds, Fails, Panics, Up, CloseReturns, WriteEnds, Close, cancel, Write, Goto
<1>8. depth' \in [CloseCallers -> 0 .. Bottom]
  <2>1. depth[t] \in 0 .. Bottom
      BY <1>1 DEF ClosingTyped
  <2>2. CASE closeOnceImpl(t) \/ panicHandlingImpl(t) \/ cancelableCloser(t) \/ writerClose(t)
    <3>1. depth[t] + 1 \in 0 .. Bottom /\ depth[t] - 1 \in 0 .. Bottom
        BY <1>3, <2>1, <2>2 DEF closeOnceImpl, panicHandlingImpl, cancelableCloser, writerClose, Has
    <3>2. \/ depth' = [depth EXCEPT ![t] = depth[t] + 1]
          \/ depth' = [depth EXCEPT ![t] = depth[t] - 1]
        BY <2>2 DEF closeOnceImpl, panicHandlingImpl, cancelableCloser, writerClose, Deeper
    <3>3. QED
        BY <1>1, <3>1, <3>2 DEF ClosingTyped
  <2>3. CASE Closer(t) \/ Panics(t) \/ Up(t)
    <3>1. depth[t] > 0
        BY <1>1, <1>3, <2>3 DEF Closer, Panics, Up, Stations, Goto
    <3>2. depth[t] - 1 \in 0 .. Bottom
        BY <1>3, <2>1, <3>1
    <3>3. depth' = depth \/ depth' = [depth EXCEPT ![t] = depth[t] - 1]
        BY <2>3 DEF Closer, Panics, Up
    <3>4. QED
        BY <1>1, <3>2, <3>3 DEF ClosingTyped
  <2>4. CASE Close(t)
    <3>1. 1 \in 0 .. Bottom
        BY <1>3
    <3>2. QED
        BY <1>1, <2>4, <3>1 DEF ClosingTyped, Close
  <2>5. CASE UNCHANGED depth
      BY <1>1, <2>5 DEF ClosingTyped
  <2>6. QED
      BY <2>2, <2>3, <2>4, <2>5 DEF Succeeds, Fails, CloseReturns, WriteEnds, cancel, Write
<1>9. place' \in [CloseCallers -> 1 .. Len(list) + 1]
    BY <1>1, <1>3 DEF ClosingTyped, Stations, closeOnceImpl, panicHandlingImpl, cancelableCloser,
       writerClose, Closer, Succeeds, Fails, Panics, Up, CloseReturns, WriteEnds, Close, cancel,
       Write, Goto
<1>10. got' \in [CloseCallers -> [errs : SUBSET Nat, panic : BOOLEAN]]
  <2> DEFINE G == [errs : SUBSET Nat, panic : BOOLEAN]
  <2>0. got \in [CloseCallers -> G]
      BY <1>1 DEF ClosingTyped
  <2>1. place[t] \in Nat /\ got[t] \in [errs : SUBSET Nat, panic : BOOLEAN]
    <3>1. got[t] \in G
        BY <2>0
    <3>2. place[t] \in 1 .. Len(list) + 1
        BY <1>1 DEF ClosingTyped
    <3>3. QED
        BY <1>3, <3>1, <3>2
  <2>2. CASE Fails(t)
    <3>1. got' = [got EXCEPT ![t].errs = got[t].errs \cup {place[t]}]
        BY <2>2 DEF Fails
    <3>2. got[t].errs \cup {place[t]} \in SUBSET Nat
        BY <2>1
    <3>3. QED
        BY <1>1, <3>1, <3>2 DEF ClosingTyped
  <2>3. CASE Panics(t) \/ Close(t)
    <3>1. \/ got' = [got EXCEPT ![t] = [errs |-> {}, panic |-> TRUE]]
          \/ got' = [got EXCEPT ![t] = [errs |-> {}, panic |-> FALSE]]
        BY <2>3 DEF Panics, Close, Ok
    <3>2. \A b \in BOOLEAN : [errs |-> {}, panic |-> b] \in [errs : SUBSET Nat, panic : BOOLEAN]
        OBVIOUS
    <3>3. QED
        BY <1>1, <3>1, <3>2 DEF ClosingTyped
  <2>4. CASE Up(t)
    <3>1. got' = [got EXCEPT ![t] = [errs |-> {place[t]}, panic |-> FALSE]] \/ got' = got
        BY <2>4 DEF Up
    <3> DEFINE r == [errs |-> {place[t]}, panic |-> FALSE]
    <3>2. r \in G
        BY <2>1
    <3> HIDE DEF G, r
    <3>3. [got EXCEPT ![t] = r] \in [CloseCallers -> G]
        BY <2>0, <3>2
    <3>4. got' \in [CloseCallers -> G]
        BY <2>0, <3>1, <3>3 DEF r
    <3>5. QED
        BY <3>4 DEF G
  <2>5. CASE UNCHANGED got
      BY <1>1, <2>5 DEF ClosingTyped
  <2>6. QED
      BY <2>2, <2>3, <2>4, <2>5 DEF closeOnceImpl, panicHandlingImpl, cancelableCloser, writerClose,
         Closer, Succeeds, CloseReturns, WriteEnds, cancel, Write
<1>11. began' \in [CloseCallers -> SUBSET closed']
    BY <1>1, <1>2 DEF ClosingTyped, closeOnceImpl, panicHandlingImpl, cancelableCloser, writerClose,
       Closer, Succeeds, Fails, Panics, Up, CloseReturns, WriteEnds, Close, cancel, Write, Call
<1>12. QED
    BY <1>1, <1>2, <1>4, <1>5, <1>6, <1>7, <1>8, <1>9, <1>10, <1>11 DEF ClosingTyped

LEMMA StationsStep ==
    ASSUME CloInv, NEW t \in CloseCallers, CallMoves(t)
    PROVE  Stations'
<1> USE DEF CallMoves
<1>1. ClosingTyped /\ Stations
    BY DEF CloInv
<1>2. /\ layers' = layers /\ list' = list /\ Layers' = Layers /\ Bottom' = Bottom
    BY ShapeStays
<1>3. Bottom \in Nat \ {0} /\ Layers = 1 .. Bottom - 1
    BY <1>1, Shapes
<1>4. \A u \in CloseCallers : cpc'[u] = "down" => depth'[u] # 0
  <2>1. depth[t] \in Nat /\ depth[t] + 1 # 0
      BY <1>1, <1>3 DEF ClosingTyped
  <2>2. CASE closeOnceImpl(t) \/ cancelableCloser(t)
      BY <1>1, <2>1, <2>2 DEF ClosingTyped, Stations, closeOnceImpl, cancelableCloser, Goto, Deeper
  <2>3. CASE panicHandlingImpl(t) \/ writerClose(t)
      BY <1>1, <2>1, <2>3 DEF ClosingTyped, Stations, panicHandlingImpl, writerClose, Deeper
  <2>4. CASE Closer(t) \/ Succeeds(t) \/ Fails(t)
      BY <1>1, <1>3, <2>4 DEF ClosingTyped, Stations, Closer, Succeeds, Fails, Goto, Bottom
  <2>5. CASE Close(t)
      BY <1>1, <2>5 DEF ClosingTyped, Stations, Close, Goto
  <2>6. CASE Panics(t) \/ CloseReturns(t) \/ WriteEnds(t) \/ Write(t) \/ Up(t) \/ cancel(t)
      BY <1>1, <2>6 DEF ClosingTyped, Stations, Panics, CloseReturns, WriteEnds, Write, Up, cancel, Goto
  <2>7. QED
      BY <2>2, <2>3, <2>4, <2>5, <2>6
<1>5. \A u \in CloseCallers : cpc'[u] = "in" =>
         depth'[u] = Bottom /\ place'[u] \in DOMAIN list /\ list[place'[u]] # "nil"
    BY <1>1, <1>3 DEF ClosingTyped, Stations, closeOnceImpl, panicHandlingImpl, cancelableCloser,
       writerClose, Closer, Succeeds, Fails, Panics, Up, CloseReturns, WriteEnds, Close, cancel,
       Write, Goto, Has, Deeper
<1>6. \A u \in CloseCallers : cpc'[u] = "up" => depth'[u] # Bottom
    BY <1>1, <1>3 DEF ClosingTyped, Stations, closeOnceImpl, panicHandlingImpl, cancelableCloser,
       writerClose, Closer, Succeeds, Fails, Panics, Up, CloseReturns, WriteEnds, Close, cancel,
       Write, Goto, Has, Deeper
<1>7. QED
    BY <1>2, <1>4, <1>5, <1>6 DEF Stations

\* Of the mutexes and the places of calls a step changes one thing at most: a call
\* takes the mutex of the CloseOnce that it goes through, or comes up through a
\* layer and gives back the mutex if there is one.
Enters(t) ==
    /\ depth[t] \in Layers /\ layers[depth[t]] = "once" /\ mut[depth[t]] = None
    /\ depth[t] \notin closed /\ closed' = closed
    /\ ~Passed(t, depth[t]) /\ mut' = [mut EXCEPT ![depth[t]] = t]
    /\ \A u \in CloseCallers, d \in Layers :
          Passed(u, d)' <=> Passed(u, d) \/ (u = t /\ d = depth[t])
Leaves(t) ==
    /\ depth[t] \in Layers /\ Passed(t, depth[t])
    /\ mut' = IF mut[depth[t]] = t THEN [mut EXCEPT ![depth[t]] = None] ELSE mut
    /\ closed' = closed \/ (closed' = closed \cup {depth[t]} /\ mut[depth[t]] = t)
    /\ \A u \in CloseCallers, d \in Layers :
          Passed(u, d)' <=> Passed(u, d) /\ ~(u = t /\ d = depth[t])
Stays ==
    /\ mut' = mut
    /\ \A d \in Layers : layers[d] = "once" => (d \in closed' <=> d \in closed)
    /\ \A u \in CloseCallers, d \in Layers :
          layers[d] = "once" => (Passed(u, d)' <=> Passed(u, d))

LEMMA OtherCallsStay ==
    ASSUME CloInv, NEW t \in CloseCallers, CallMoves(t),
           NEW u \in CloseCallers, u # t
    PROVE  cpc'[u] = cpc[u] /\ depth'[u] = depth[u] /\ place'[u] = place[u] /\ got'[u] = got[u]
<1>1. ClosingTyped
    BY DEF CloInv
<1>2. QED
    BY <1>1 DEF CallMoves, ClosingTyped, closeOnceImpl, panicHandlingImpl, cancelableCloser,
       writerClose, Closer, Succeeds, Fails, Panics, Up, CloseReturns, WriteEnds, Close, cancel,
       Write, Goto, Deeper

LEMMA Ways ==
    ASSUME CloInv, NEW t \in CloseCallers, CallMoves(t)
    PROVE  Enters(t) \/ Leaves(t) \/ Stays
<1>1. ClosingTyped /\ Stations
    BY DEF CloInv
<1>2. /\ Bottom \in Nat \ {0} /\ Layers = 1 .. Bottom - 1
      /\ layers # <<>> <=> Bottom > 1
    BY <1>1, Shapes
<1>3. \A u \in CloseCallers : u # t => \A d : Passed(u, d)' <=> Passed(u, d)
    BY OtherCallsStay DEF Passed
<1>4. depth[t] \in 0 .. Bottom
    BY <1>1 DEF ClosingTyped
<1>5. ASSUME mut' = mut,
             \A d \in Layers : layers[d] = "once" => (d \in closed' <=> d \in closed),
             \A d \in Layers : layers[d] = "once" => (Passed(t, d)' <=> Passed(t, d))
      PROVE  Stays
    BY <1>3, <1>5 DEF Stays
<1>6. CASE closeOnceImpl(t)
  <2>1. /\ depth[t] \in Layers /\ layers[depth[t]] = "once" /\ mut[depth[t]] = None
        /\ closed' = closed /\ cpc[t] = "down"
      BY <1>6 DEF closeOnceImpl, Has, Goto
  <2>2. CASE depth[t] \in closed
    <3>1. mut' = mut /\ cpc'[t] = "up" /\ depth'[t] = depth[t] - 1
        BY <1>1, <1>6, <2>2 DEF closeOnceImpl, Goto, ClosingTyped
    <3>2. \A d \in Layers : Passed(t, d)' <=> Passed(t, d)
        BY <1>2, <1>4, <2>1, <3>1 DEF Passed
    <3>3. QED
        BY <1>5, <2>1, <3>1, <3>2
  <2>3. CASE depth[t] \notin closed
    <3>1. mut' = [mut EXCEPT ![depth[t]] = t] /\ cpc'[t] = "down" /\ depth'[t] = depth[t] + 1
        BY <1>1, <1>6, <2>3 DEF closeOnceImpl, Deeper, ClosingTyped
    <3>2. \A d \in Layers : Passed(t, d)' <=> Passed(t, d) \/ d = depth[t]
        BY <1>2, <1>4, <2>1, <3>1 DEF Passed
    <3>3. ~Passed(t, depth[t])
        BY <1>4, <2>1 DEF Passed
    <3>4. QED
        BY <1>3, <2>1, <2>3, <3>1, <3>2, <3>3 DEF Enters
  <2>4. QED
      BY <2>2, <2>3
<1>7. CASE panicHandlingImpl(t) \/ cancelableCloser(t) \/ writerClose(t)
  <2>1. /\ depth[t] \in Layers /\ layers[depth[t]] # "once" /\ cpc[t] = "down" /\ mut' = mut
        /\ closed' = closed \/ closed' = closed \cup {depth[t]}
      BY <1>7 DEF panicHandlingImpl, cancelableCloser, writerClose, Has, Goto
  <2>2. \/ cpc'[t] = "up" /\ depth'[t] = depth[t] - 1
        \/ cpc'[t] = "down" /\ depth'[t] = depth[t] + 1
      BY <1>1, <1>7 DEF panicHandlingImpl, cancelableCloser, writerClose, Goto, Deeper, ClosingTyped
  <2>3. \A d \in Layers : d # depth[t] => (Passed(t, d)' <=> Passed(t, d))
      BY <1>2, <1>4, <2>1, <2>2 DEF Passed
  <2>4. QED
      BY <1>5, <2>1, <2>3
<1>8. CASE Closer(t)
  <2>1. depth[t] = Bottom /\ mut' = mut /\ closed' = closed /\ cpc[t] = "down"
      BY <1>8 DEF Closer, Goto
  <2>2. \/ cpc'[t] \in {"down", "in"} /\ depth'[t] = depth[t]
        \/ cpc'[t] = "up" /\ depth'[t] = depth[t] - 1
      BY <1>1, <1>8 DEF Closer, Goto, ClosingTyped
  <2>3. \A d \in Layers : Passed(t, d)' <=> Passed(t, d)
      BY <1>2, <2>1, <2>2 DEF Passed
  <2>4. QED
      BY <1>5, <2>1, <2>3
<1>9. CASE Succeeds(t) \/ Fails(t)
  <2>1. mut' = mut /\ closed' = closed /\ cpc[t] = "in" /\ cpc'[t] = "down" /\ depth'[t] = depth[t]
      BY <1>1, <1>9 DEF Succeeds, Fails, Goto, ClosingTyped
  <2>2. QED
      BY <1>5, <2>1 DEF Passed
<1>10. CASE Panics(t)
  <2>1. /\ mut' = mut /\ closed' = closed /\ cpc[t] = "in" /\ cpc'[t] = "up"
        /\ depth[t] = Bottom /\ depth'[t] = depth[t] - 1
      BY <1>1, <1>10 DEF Panics, Goto, ClosingTyped, Stations
  <2>2. \A d \in Layers : Passed(t, d)' <=> Passed(t, d)
      BY <1>2, <2>1 DEF Passed
  <2>3. QED
      BY <1>5, <2>1, <2>2
<1>11. CASE Up(t)
  <2>1. /\ depth[t] \in Layers /\ cpc[t] = "up" /\ cpc'[t] = "up" /\ depth'[t] = depth[t] - 1
        /\ mut' = IF mut[depth[t]] = t THEN [mut EXCEPT ![depth[t]] = None] ELSE mut
        /\ closed' = closed \/ (closed' = closed \cup {depth[t]} /\ mut[depth[t]] = t)
      BY <1>1, <1>2, <1>4, <1>11 DEF Up, ClosingTyped, Stations
  <2>2. \A d \in Layers : Passed(t, d)' <=> Passed(t, d) /\ d # depth[t]
      BY <1>2, <1>4, <2>1 DEF Passed
  <2>3. Passed(t, depth[t])
      BY <1>4, <2>1 DEF Passed
  <2>4. QED
      BY <1>3, <2>1, <2>2, <2>3 DEF Leaves
<1>12. CASE CloseReturns(t)
  <2>1. /\ mut' = mut /\ closed' = closed /\ cpc[t] = "up" /\ cpc'[t] = "out" /\ depth[t] = 0
      BY <1>1, <1>12 DEF CloseReturns, Goto, ClosingTyped
  <2>2. \A d \in Layers : ~Passed(t, d) /\ ~Passed(t, d)'
      BY <1>2, <2>1 DEF Passed
  <2>3. QED
      BY <1>5, <2>1, <2>2
<1>13. CASE Close(t)
  <2>1. /\ mut' = mut /\ closed' = closed /\ cpc[t] = "out" /\ cpc'[t] = "down" /\ depth'[t] = 1
      BY <1>1, <1>13 DEF Close, Goto, ClosingTyped
  <2>2. \A d \in Layers : ~Passed(t, d) /\ ~Passed(t, d)'
      BY <1>2, <2>1 DEF Passed
  <2>3. QED
      BY <1>5, <2>1, <2>2
<1>14. CASE WriteEnds(t) \/ cancel(t) \/ Write(t)
  <2>1. /\ mut' = mut /\ cpc[t] \in {"out", "write"} /\ cpc'[t] \in {"out", "write"}
        /\ closed' = closed \/ (closed' = closed \cup {1} /\ layers[1] = "cancelable")
      BY <1>1, <1>14 DEF WriteEnds, cancel, Write, Goto, ClosingTyped
  <2>2. QED
      BY <1>5, <2>1 DEF Passed
<1>15. QED
    BY <1>6, <1>7, <1>8, <1>9, <1>10, <1>11, <1>12, <1>13, <1>14 DEF CallMoves

LEMMA GuardingStep ==
    ASSUME CloInv, NEW t \in CloseCallers, CallMoves(t)
    PROVE  Guarding' /\ NotYet'
<1>1. ClosingTyped /\ Guarding /\ NotYet
    BY DEF CloInv
<1>2. layers' = layers /\ Layers' = Layers
    BY ShapeStays
<1>3. \A d \in Layers : mut[d] \in CloseCallers \cup {None} /\ mut \in [Layers -> CloseCallers \cup {None}]
    BY <1>1 DEF ClosingTyped
<1>4. None \notin CloseCallers
    BY ClosingAssumption
<1>5. CASE Enters(t)
  <2>1. \A d \in Layers : mut'[d] = IF d = depth[t] THEN t ELSE mut[d]
      BY <1>3, <1>5 DEF Enters
  <2>2. \A d \in Layers : \A u \in CloseCallers :
           mut'[d] = u <=> layers[d] = "once" /\ Passed(u, d)'
    <3> TAKE d \in Layers
    <3> TAKE u \in CloseCallers
    <3>1. mut[d] = u <=> layers[d] = "once" /\ Passed(u, d)
        BY <1>1 DEF Guarding
    <3>2. Passed(u, d)' <=> Passed(u, d) \/ (u = t /\ d = depth[t])
        BY <1>5 DEF Enters
    <3>3. CASE d = depth[t]
        BY <1>4, <1>5, <2>1, <3>1, <3>2, <3>3 DEF Enters
    <3>4. CASE d # depth[t]
        BY <2>1, <3>1, <3>2, <3>4
    <3>5. QED
        BY <3>3, <3>4
  <2>3. NotYet'
      BY <1>1, <1>2, <1>5, <2>1 DEF NotYet, Enters
  <2>4. QED
      BY <1>2, <2>2, <2>3 DEF Guarding
<1>6. CASE Leaves(t)
  <2>1. \A d \in Layers : mut'[d] = IF d = depth[t] /\ mut[d] = t THEN None ELSE mut[d]
      BY <1>3, <1>6 DEF Leaves
  <2>2. \A d \in Layers : \A u \in CloseCallers :
           mut'[d] = u <=> layers[d] = "once" /\ Passed(u, d)'
    <3> TAKE d \in Layers
    <3> TAKE u \in CloseCallers
    <3>1. /\ mut[d] = u <=> layers[d] = "once" /\ Passed(u, d)
          /\ mut[d] = t <=> layers[d] = "once" /\ Passed(t, d)
        BY <1>1 DEF Guarding
    <3>2. Passed(u, d)' <=> Passed(u, d) /\ ~(u = t /\ d = depth[t])
        BY <1>6 DEF Leaves
    <3>3. CASE d = depth[t]
        BY <1>4, <1>6, <2>1, <3>1, <3>2, <3>3 DEF Leaves
    <3>4. CASE d # depth[t]
        BY <2>1, <3>1, <3>2, <3>4
    <3>5. QED
        BY <3>3, <3>4
  <2>3. NotYet'
    <3> SUFFICES ASSUME NEW d \in Layers, mut'[d] # None PROVE d \notin closed'
        BY <1>2 DEF NotYet
    <3>1. mut[d] # None /\ ~(d = depth[t] /\ mut[d] = t)
        BY <2>1
    <3>2. QED
        BY <1>1, <1>6, <3>1 DEF NotYet, Leaves
  <2>4. QED
      BY <1>2, <2>2, <2>3 DEF Guarding
<1>7. CASE Stays
  <2>1. Guarding'
      BY <1>1, <1>2, <1>7 DEF Guarding, Stays
  <2>2. NotYet'
    <3> SUFFICES ASSUME NEW d \in Layers, mut[d] # None PROVE d \notin closed'
        BY <1>2, <1>7 DEF NotYet, Stays
    <3>1. layers[d] = "once"
        BY <1>1, <1>3 DEF Guarding
    <3>2. QED
        BY <1>1, <1>7, <3>1 DEF NotYet, Stays
  <2>3. QED
      BY <2>1, <2>2
<1>8. QED
    BY <1>5, <1>6, <1>7, Ways

LEMMA PanickingStep ==
    ASSUME CloInv, NEW t \in CloseCallers, CallMoves(t)
    PROVE  Panicking'
<1>1. ClosingTyped /\ Stations /\ Panicking
    BY DEF CloInv
<1>2. layers' = layers /\ Layers' = Layers
    BY ShapeStays
<1>3. /\ Bottom \in Nat \ {0} /\ Layers = 1 .. Bottom - 1 /\ depth[t] \in 0 .. Bottom
    BY <1>1, Shapes DEF ClosingTyped
<1>4. SUFFICES ASSUME got'[t].panic
               PROVE  /\ cpc'[t] \notin {"down", "in"}
                      /\ \A d \in Layers : layers[d] = "panic" => depth'[t] >= d
    <2>1. \A u \in CloseCallers : u # t => cpc'[u] = cpc[u] /\ depth'[u] = depth[u] /\ got'[u] = got[u]
        BY OtherCallsStay
    <2>2. QED
        BY <1>1, <1>2, <1>4, <2>1 DEF Panicking
<1>5. CASE Panics(t)
  <2>1. cpc'[t] = "up" /\ depth[t] = Bottom /\ depth'[t] = depth[t] - 1
      BY <1>1, <1>5 DEF Panics, Goto, ClosingTyped, Stations
  <2>2. QED
      BY <1>3, <2>1
<1>6. CASE Up(t)
  <2>1. cpc'[t] = "up" /\ depth'[t] = depth[t] - 1 /\ depth[t] \in Layers
      BY <1>1, <1>3, <1>6 DEF Up, ClosingTyped, Stations
  <2>2. got[t].panic /\ ~Has(t, "panic")
      BY <1>1, <1>4, <1>6 DEF Up, ClosingTyped
  <2>3. \A d \in Layers : layers[d] = "panic" => depth[t] >= d /\ d # depth[t]
      BY <1>1, <2>1, <2>2 DEF Panicking, Has
  <2>4. QED
      BY <1>3, <2>1, <2>3
<1>7. CASE Close(t)
    BY <1>1, <1>4, <1>7 DEF Close, Ok, ClosingTyped
<1>8. CASE Fails(t)
  <2>1. got[t].panic /\ cpc[t] = "in"
      BY <1>1, <1>4, <1>8 DEF Fails, Goto, ClosingTyped
  <2>2. QED
      BY <1>1, <2>1 DEF Panicking
<1>9. CASE UNCHANGED got /\ ~Panics(t) /\ ~Up(t) /\ ~Close(t) /\ ~Fails(t)
  <2>1. got[t].panic /\ cpc[t] \notin {"down", "in"}
        /\ \A d \in Layers : layers[d] = "panic" => depth[t] >= d
      BY <1>1, <1>4, <1>9 DEF Panicking
  <2>2. cpc'[t] \notin {"down", "in"} /\ depth'[t] = depth[t]
    <3>1. CASE CloseReturns(t) \/ WriteEnds(t) \/ cancel(t) \/ Write(t)
        BY <1>1, <2>1, <3>1 DEF CloseReturns, WriteEnds, cancel, Write, Goto, ClosingTyped
    <3>2. CASE closeOnceImpl(t) \/ panicHandlingImpl(t) \/ cancelableCloser(t) \/ writerClose(t)
               \/ Closer(t) \/ Succeeds(t)
        BY <2>1, <3>2 DEF closeOnceImpl, panicHandlingImpl, cancelableCloser, writerClose, Closer,
           Succeeds, Goto
    <3>3. QED
        BY <1>9, <3>1, <3>2 DEF CallMoves
  <2>3. QED
      BY <2>1, <2>2
<1>10. QED
    BY <1>5, <1>6, <1>7, <1>8, <1>9 DEF CallMoves, closeOnceImpl, panicHandlingImpl,
       cancelableCloser, writerClose, Closer, Succeeds, CloseReturns, WriteEnds, cancel, Write

LEMMA CleanStep ==
    ASSUME CloInv, NEW t \in CloseCallers, CallMoves(t)
    PROVE  Clean'
<1>1. ClosingTyped /\ Stations /\ Clean
    BY DEF CloInv
<1>2. list' = list
    BY ShapeStays
<1>3. Len(list) \in Nat /\ DOMAIN list = 1 .. Len(list) /\ place[t] \in 1 .. Len(list) + 1
    BY <1>1, Shapes DEF ClosingTyped
<1>4. \A u \in CloseCallers : u # t => place'[u] = place[u] /\ got'[u] = got[u]
    BY OtherCallsStay
<1>5. \A i \in DOMAIN list : done[i] > 0 => done'[i] > 0
  <2>1. done' = done \/ done' = [done EXCEPT ![place[t]] = done[place[t]] + 1]
      BY DEF CallMoves, closeOnceImpl, panicHandlingImpl, cancelableCloser, writerClose, Closer,
         Succeeds, Fails, Panics, Up, CloseReturns, WriteEnds, Close, cancel, Write
  <2>2. \A i \in DOMAIN list : done[i] \in Nat
      BY <1>1 DEF ClosingTyped
  <2>3. \A i \in DOMAIN list : done'[i] = done[i] \/ done'[i] = done[i] + 1
      BY <1>1, <2>1 DEF ClosingTyped
  <2>4. QED
      BY <2>2, <2>3
<1>6. SUFFICES ASSUME got'[t] = Ok, NEW i \in DOMAIN list, i < place'[t]
               PROVE  list[i] = "nil" \/ done'[i] > 0
    BY <1>1, <1>2, <1>4, <1>5, <1>6 DEF Clean
<1>7. CASE Succeeds(t)
  <2>1. got[t] = Ok /\ place'[t] = place[t] + 1 /\ place[t] \in DOMAIN list
        /\ done' = [done EXCEPT ![place[t]] = done[place[t]] + 1]
      BY <1>1, <1>6, <1>7 DEF Succeeds, Goto, ClosingTyped, Stations
  <2>2. CASE i = place[t]
    <3>1. done'[i] = done[i] + 1 /\ done[i] \in Nat
        BY <1>1, <2>1, <2>2 DEF ClosingTyped
    <3>2. QED
        BY <3>1
  <2>3. CASE i # place[t]
    <3>1. i < place[t]
        BY <1>3, <1>6, <2>1, <2>3
    <3>2. QED
        BY <1>1, <1>5, <2>1, <3>1 DEF Clean
  <2>4. QED
      BY <2>2, <2>3
<1>8. CASE Closer(t)
  <2>1. got[t] = Ok /\ done' = done
        /\ (place'[t] = place[t] \/ (place'[t] = place[t] + 1 /\ list[place[t]] = "nil"))
      BY <1>1, <1>6, <1>8 DEF Closer, ClosingTyped
  <2>2. i < place[t] \/ list[i] = "nil"
      BY <1>3, <1>6, <2>1
  <2>3. QED
      BY <1>1, <2>1, <2>2 DEF Clean
<1>9. CASE Fails(t)
  <2>1. got'[t].errs = got[t].errs \cup {place[t]}
      BY <1>1, <1>9 DEF Fails, ClosingTyped
  <2>2. QED
      BY <1>6, <2>1 DEF Ok
<1>10. CASE Panics(t)
  <2>1. got'[t].panic = TRUE
      BY <1>1, <1>10 DEF Panics, ClosingTyped
  <2>2. QED
      BY <1>6, <2>1 DEF Ok
<1>11. CASE Up(t)
  <2>1. got'[t] = got[t] \/ got'[t].errs = {place[t]}
      BY <1>1, <1>11 DEF Up, ClosingTyped
  <2>2. got[t] = Ok /\ place'[t] = place[t] /\ done' = done
      BY <1>6, <1>11, <2>1 DEF Ok, Up
  <2>3. QED
      BY <1>1, <1>6, <2>2 DEF Clean
<1>12. CASE Close(t)
  <2>1. place'[t] = 1
      BY <1>1, <1>12 DEF Close, ClosingTyped
  <2>2. QED
      BY <1>3, <1>6, <2>1
<1>13. CASE UNCHANGED <<got, place, done>>
    BY <1>1, <1>6, <1>13 DEF Clean
<1>14. QED
    BY <1>7, <1>8, <1>9, <1>10, <1>11, <1>12, <1>13 DEF CallMoves, closeOnceImpl,
       panicHandlingImpl, cancelableCloser, writerClose, CloseReturns, WriteEnds, cancel, Write

LEMMA InTimeStep ==
    ASSUME CloInv, NEW t \in CloseCallers, CallMoves(t)
    PROVE  InTime'
<1>1. ClosingTyped /\ Stations /\ InTime
    BY DEF CloInv
<1>2. layers' = layers
    BY ShapeStays
<1>3. /\ Bottom \in Nat \ {0} /\ Layers = 1 .. Bottom - 1 /\ depth[t] \in 0 .. Bottom
      /\ layers # <<>> <=> Bottom > 1
    BY <1>1, Shapes DEF ClosingTyped
<1>4. \A u \in CloseCallers : u # t => began'[u] = began[u]
    BY <1>1 DEF CallMoves, ClosingTyped, closeOnceImpl, panicHandlingImpl, cancelableCloser,
       writerClose, Closer, Succeeds, Fails, Panics, Up, CloseReturns, WriteEnds, Close, cancel,
       Write, Call
<1>5. \A u \in CloseCallers : u # t => cpc'[u] = cpc[u] /\ depth'[u] = depth[u]
    BY OtherCallsStay
<1>6. SUFFICES /\ cpc'[t] = "write" => 1 \notin began'[t]
               /\ layers # <<>> /\ layers[1] = "cancelable" /\ cpc'[t] \in {"down", "in"}
                  /\ depth'[t] > 1 => 1 \notin began'[t]
    BY <1>1, <1>2, <1>4, <1>5, <1>6 DEF InTime
<1>7. CASE Close(t)
  <2>1. cpc'[t] = "down" /\ depth'[t] = 1
      BY <1>1, <1>7 DEF Close, Goto, ClosingTyped
  <2>2. QED
      BY <2>1
<1>8. CASE Write(t)
    BY <1>1, <1>8 DEF Write, Goto, Call, ClosingTyped
<1>9. CASE cancel(t)
    BY <1>1, <1>9 DEF cancel, ClosingTyped
<1>10. ASSUME began' = began, cpc'[t] = "write" => cpc[t] = "write",
              cpc'[t] \in {"down", "in"} /\ depth'[t] > 1 /\ layers # <<>> /\ layers[1] = "cancelable"
                 => 1 \notin began[t]
       PROVE  /\ cpc'[t] = "write" => 1 \notin began'[t]
              /\ layers # <<>> /\ layers[1] = "cancelable" /\ cpc'[t] \in {"down", "in"}
                 /\ depth'[t] > 1 => 1 \notin began'[t]
    BY <1>1, <1>10 DEF InTime
<1>11. CASE closeOnceImpl(t) \/ panicHandlingImpl(t) \/ writerClose(t)
  <2>1. began' = began /\ cpc'[t] # "write" /\ cpc[t] = "down" /\ depth[t] \in Layers
        /\ layers[depth[t]] # "cancelable"
      BY <1>1, <1>11 DEF closeOnceImpl, panicHandlingImpl, writerClose, Goto, Has, ClosingTyped
  <2>2. layers[1] = "cancelable" => depth[t] > 1
      BY <1>3, <2>1
  <2>3. QED
      BY <1>1, <1>10, <2>1, <2>2 DEF InTime
<1>12. CASE cancelableCloser(t)
  <2>1. began' = began /\ cpc'[t] # "write" /\ cpc[t] = "down" /\ depth[t] \in Layers
        /\ (cpc'[t] = "down" => depth[t] \notin closed) /\ cpc'[t] # "in"
      BY <1>1, <1>12 DEF cancelableCloser, Goto, Has, ClosingTyped
  <2>2. began[t] \subseteq closed
      BY <1>1 DEF ClosingTyped
  <2>3. depth[t] = 1 \/ depth[t] > 1
      BY <1>3, <2>1
  <2>4. QED
      BY <1>1, <1>10, <2>1, <2>2, <2>3 DEF InTime
<1>13. CASE Closer(t) \/ Succeeds(t) \/ Fails(t)
  <2>1. began' = began /\ cpc'[t] # "write" /\ cpc[t] \in {"down", "in"} /\ depth[t] = Bottom
      BY <1>1, <1>13 DEF Closer, Succeeds, Fails, Goto, Stations, ClosingTyped
  <2>2. QED
      BY <1>1, <1>3, <1>10, <2>1 DEF InTime
<1>14. CASE Panics(t) \/ Up(t) \/ CloseReturns(t) \/ WriteEnds(t)
  <2>1. began' = began /\ cpc'[t] \in {"up", "out"}
      BY <1>1, <1>14 DEF Panics, Up, CloseReturns, WriteEnds, Goto, ClosingTyped
  <2>2. QED
      BY <1>10, <2>1
<1>15. QED
    BY <1>7, <1>8, <1>9, <1>11, <1>12, <1>13, <1>14 DEF CallMoves

LEMMA ToldStep ==
    ASSUME CloInv, NEW t \in CloseCallers, CallMoves(t)
    PROVE  Told'
<1>1. ClosingTyped /\ Stations /\ Guarding /\ NotYet /\ Told
    BY DEF CloInv
<1>2. layers' = layers /\ list' = list /\ Layers' = Layers /\ closed \subseteq closed'
    BY ShapeStays
<1>3. SUFFICES ASSUME Len(list) = 1 PROVE Told'
    BY <1>2 DEF Told
<1>4. /\ Bottom \in Nat \ {0} /\ Layers = 1 .. Bottom - 1 /\ DOMAIN list = {1}
    BY <1>1, <1>3, Shapes
<1>5. \A u \in CloseCallers : u # t =>
         cpc'[u] = cpc[u] /\ place'[u] = place[u] /\ got'[u] = got[u]
    BY OtherCallsStay
<1>6. \A u \in CloseCallers : place[u] \in {1, 2}
    BY <1>1, <1>3 DEF ClosingTyped
<1>7. \A u \in CloseCallers : cpc'[u] \in {"down", "in"} /\ place'[u] = 1 => got'[u] = Ok
  <2>1. SUFFICES ASSUME cpc'[t] \in {"down", "in"}, place'[t] = 1 PROVE got'[t] = Ok
      BY <1>1, <1>3, <1>5, <2>1 DEF Told
  <2>2. CASE Close(t)
      BY <1>1, <2>2 DEF Close, ClosingTyped
  <2>3. CASE Succeeds(t) \/ Fails(t)
    <3>1. place'[t] = place[t] + 1
        BY <1>1, <2>3 DEF Succeeds, Fails, ClosingTyped
    <3>2. QED
        BY <1>6, <2>1, <3>1
  <2>4. CASE Closer(t)
    <3>1. got'[t] = got[t] /\ cpc[t] = "down" /\ (place'[t] = place[t] \/ place'[t] = place[t] + 1)
        BY <1>1, <2>4 DEF Closer, Goto, ClosingTyped
    <3>2. QED
        BY <1>1, <1>3, <1>6, <2>1, <3>1 DEF Told
  <2>5. CASE closeOnceImpl(t) \/ panicHandlingImpl(t) \/ cancelableCloser(t) \/ writerClose(t)
    <3>1. got'[t] = got[t] /\ cpc[t] = "down" /\ place'[t] = place[t]
        BY <2>5 DEF closeOnceImpl, panicHandlingImpl, cancelableCloser, writerClose, Goto
    <3>2. QED
        BY <1>1, <1>3, <2>1, <3>1 DEF Told
  <2>6. CASE Panics(t) \/ Up(t) \/ CloseReturns(t) \/ WriteEnds(t) \/ cancel(t) \/ Write(t)
      BY <1>1, <2>1, <2>6 DEF Panics, Up, CloseReturns, WriteEnds, cancel, Write, Goto, ClosingTyped
  <2>7. QED
      BY <2>2, <2>3, <2>4, <2>5, <2>6 DEF CallMoves
<1>8. ASSUME NEW d \in Layers, layers[d] = "once"
      PROVE  /\ done'[1] <= 1
             /\ done'[1] = 1 => d \in closed' \/ \E u \in CloseCallers : mut'[d] = u /\ Succeeded(u)'
  <2>1. /\ done[1] <= 1
        /\ done[1] = 1 => d \in closed \/ \E u \in CloseCallers : mut[d] = u /\ Succeeded(u)
      BY <1>1, <1>3, <1>8 DEF Told
  <2>2. \A u \in CloseCallers : mut[d] = u <=> Passed(u, d)
      BY <1>1, <1>8 DEF Guarding
  <2>3. (Guarding /\ NotYet)'
      BY GuardingStep
  <2>4. \A u \in CloseCallers : mut'[d] = u <=> Passed(u, d)'
      BY <1>2, <1>8, <2>3 DEF Guarding
  <2>5. CASE Succeeds(t)
    <3>1. /\ cpc[t] = "in" /\ depth[t] = Bottom /\ place[t] = 1 /\ mut' = mut
          /\ cpc'[t] = "down" /\ place'[t] = place[t] + 1 /\ got'[t] = got[t]
          /\ done' = [done EXCEPT ![1] = done[1] + 1]
        BY <1>1, <1>4, <2>5 DEF Succeeds, Goto, Stations, ClosingTyped
    <3>2. mut[d] = t
        BY <1>4, <2>2, <3>1 DEF Passed
    <3>3. got[t] = Ok
        BY <1>1, <1>3, <3>1 DEF Told
    <3>4. Succeeded(t)'
        BY <3>1, <3>3 DEF Succeeded
    <3>5. done[1] # 1
      <4>1. d \notin closed
          BY <1>1, <3>2, ClosingAssumption DEF NotYet
      <4>2. ~Succeeded(t)
          BY <3>1 DEF Succeeded
      <4>3. QED
          BY <2>1, <3>2, <4>1, <4>2
    <3>6. done[1] \in Nat /\ done'[1] = done[1] + 1
        BY <1>1, <1>4, <3>1 DEF ClosingTyped
    <3>7. done'[1] <= 1
        BY <2>1, <3>5, <3>6
    <3>8. QED
        BY <3>1, <3>2, <3>4, <3>7
  <2>6. CASE ~Succeeds(t)
    <3>1. done' = done
        BY <2>6 DEF CallMoves, closeOnceImpl, panicHandlingImpl, cancelableCloser, writerClose,
           Closer, Fails, Panics, Up, CloseReturns, WriteEnds, Close, cancel, Write
    <3>2. SUFFICES ASSUME NEW u \in CloseCallers, mut[d] = u, Succeeded(u), d \notin closed'
                   PROVE  mut'[d] = u /\ Succeeded(u)'
        BY <1>2, <2>1, <3>1, <3>2
    <3>3. CASE u # t
      <4>1. cpc'[u] = cpc[u] /\ place'[u] = place[u] /\ got'[u] = got[u] /\ depth'[u] = depth[u]
          BY <3>3, OtherCallsStay
      <4>2. QED
          BY <2>2, <2>4, <3>2, <4>1 DEF Passed, Succeeded
    <3>4. CASE u = t
      <4>1. /\ got[t] = Ok /\ Passed(t, d)
            /\ cpc[t] = "up" \/ (cpc[t] = "down" /\ place[t] = 2)
          BY <2>2, <3>2, <3>4 DEF Succeeded
      <4>2. CASE Up(t)
        <5>1. mut[d] = t /\ cpc'[t] = "up" /\ depth'[t] = depth[t] - 1 /\ cpc[t] = "up"
              /\ ~got[t].panic
            BY <1>1, <3>2, <3>4, <4>1, <4>2 DEF Up, ClosingTyped, Ok
        <5>2. got'[t] = Ok
            BY <4>1, <4>2, <5>1 DEF Up
        <5>3. depth[t] # d
            BY <3>2, <4>1, <4>2, <5>1 DEF Up
        <5>4. depth'[t] >= d
          <6>1. depth[t] \in 0 .. Bottom /\ depth[t] >= d
              BY <1>1, <4>1, <5>1 DEF Passed, ClosingTyped
          <6>2. QED
              BY <1>4, <5>1, <5>3, <6>1
        <5>5. QED
            BY <2>4, <3>4, <5>1, <5>2, <5>4 DEF Passed, Succeeded
      <4>3. CASE Closer(t)
        <5>1. /\ cpc[t] = "down" /\ place[t] = 2 /\ cpc'[t] = "up" /\ depth[t] = Bottom
              /\ depth'[t] = depth[t] - 1 /\ got'[t] = got[t]
            BY <1>1, <1>4, <4>1, <4>3 DEF Closer, Goto, ClosingTyped
        <5>2. depth'[t] >= d
            BY <1>4, <5>1
        <5>3. QED
            BY <2>4, <3>4, <4>1, <5>1, <5>2 DEF Passed, Succeeded
      <4>4. CASE closeOnceImpl(t) \/ panicHandlingImpl(t) \/ cancelableCloser(t) \/ writerClose(t)
        <5>1. /\ cpc[t] = "down" /\ place'[t] = place[t] /\ got'[t] = got[t]
              /\ \/ cpc'[t] = "down" /\ depth'[t] = depth[t] + 1
                 \/ cpc'[t] = "up" /\ depth'[t] = depth[t] - 1
            BY <1>1, <4>4 DEF closeOnceImpl, panicHandlingImpl, cancelableCloser, writerClose,
               Goto, Deeper, ClosingTyped
        <5>2. depth[t] > d /\ depth[t] \in 0 .. Bottom
            BY <1>1, <4>1, <5>1 DEF Passed, ClosingTyped
        <5>3. Passed(t, d)'
            BY <1>4, <5>1, <5>2 DEF Passed
        <5>4. QED
            BY <2>4, <3>4, <4>1, <5>1, <5>3 DEF Succeeded
      <4>5. CASE CloseReturns(t)
        <5>1. cpc[t] = "up" /\ depth[t] = 0
            BY <4>5 DEF CloseReturns, Goto
        <5>2. QED
            BY <1>4, <4>1, <5>1 DEF Passed
      <4>6. QED
          BY <2>6, <4>1, <4>2, <4>3, <4>4, <4>5 DEF CallMoves, Fails, Panics, WriteEnds, Close,
             cancel, Write, Goto
    <3>5. QED
        BY <3>3, <3>4
  <2>7. QED
      BY <2>5, <2>6
<1>9. QED
    BY <1>2, <1>7, <1>8 DEF Told

LEMMA ClosingStepKeeps == CloInv /\ [ClosingNext]_closingVars => CloInv'
<1> SUFFICES ASSUME CloInv, [ClosingNext]_closingVars PROVE CloInv'
    OBVIOUS
<1>1. CASE UNCHANGED closingVars
    BY <1>1 DEF closingVars, CloInv, ClosingTyped, Stations, Guarding, NotYet, Panicking, Clean,
       InTime, Told, Passed, Succeeded, Layers, Bottom
<1>2. CASE \E t \in CloseCallers : CallMoves(t)
    BY <1>2, ClosingTypedStep, StationsStep, GuardingStep, PanickingStep, CleanStep, InTimeStep,
       ToldStep DEF CloInv
<1>3. QED
    BY <1>1, <1>2, EveryStepMoves

\* The invariant: the mutex of a CloseOnce is with the call that has gone down through
\* it, and the list below it was closed if and only if it knows, or will be told.
THEOREM ClosingInvariant == ClosingSpec => []CloInv
    BY ClosingInitInv, ClosingStepKeeps, PTL DEF ClosingSpec

\* CloseOnce of closer/closer.go closes once unless the close failed, and with one call
\* at a time; a nil error means that everything is closed; no panic passes a
\* HandlePanic or leaves a mutex locked; nothing is done after a cancel.
THEOREM ClosersAreTrue == ClosingSpec => []ClosingIsTrue
<1>1. ASSUME CloInv PROVE ClosingIsTrue
  <2>1. ClosingTyped /\ Stations /\ Guarding /\ NotYet /\ Panicking /\ Clean /\ InTime /\ Told
      BY <1>1 DEF CloInv
  <2>2. /\ Bottom \in Nat \ {0} /\ Layers = 1 .. Bottom - 1
        /\ Len(list) \in Nat /\ DOMAIN list = 1 .. Len(list)
        /\ layers # <<>> <=> Bottom > 1
      BY <2>1, Shapes
  <2>3. OnceIsOnce
    <3> SUFFICES ASSUME NEW d \in Layers, layers[d] = "once"
                 PROVE  /\ Cardinality({t \in CloseCallers : cpc[t] = "in"}) <= 1
                        /\ (\E i \in DOMAIN list : list[i] # "nil" /\ done[i] > 1) => Len(list) > 1
        BY DEF OnceIsOnce, Below
    <3> DEFINE In == {t \in CloseCallers : cpc[t] = "in"}
    <3>1. \A t \in In : mut[d] = t
        BY <2>1, <2>2 DEF Stations, Guarding, Passed
    <3>2. In = {} \/ \E t \in CloseCallers : In = {t}
        BY <3>1
    <3>3. Cardinality({}) = 0 /\ \A t \in CloseCallers : Cardinality({t}) = 1
        BY FS_EmptySet, FS_Singleton
    <3>4. Cardinality(In) <= 1
        BY <3>2, <3>3
    <3>5. ASSUME NEW i \in DOMAIN list, done[i] > 1 PROVE Len(list) > 1
      <4>1. CASE Len(list) = 1
        <5>1. done[1] <= 1
            BY <2>1, <4>1 DEF Told
        <5>2. i = 1 /\ done[i] \in Nat
            BY <2>1, <2>2, <4>1 DEF ClosingTyped
        <5>3. QED
            BY <3>5, <5>1, <5>2
      <4>2. CASE Len(list) # 1
          BY <2>2, <4>2
      <4>3. QED
          BY <4>1, <4>2
    <3>6. QED
        BY <3>4, <3>5
  <2>4. NilMeansClosed
    <3>1. \A t \in CloseCallers : place[t] > Len(list) => \A i \in DOMAIN list : i < place[t]
        BY <2>1, <2>2 DEF ClosingTyped
    <3>2. QED
        BY <2>1, <3>1 DEF Clean, NilMeansClosed
  <2>5. PanicsAreHeld
    <3> SUFFICES ASSUME NEW t \in CloseCallers
                 PROVE  /\ Below("panic") /\ depth[t] = 0 => ~got[t].panic
                        /\ cpc[t] = "out" => \A d \in Layers : mut[d] # t
        BY DEF PanicsAreHeld
    <3>1. ASSUME NEW d \in Layers, layers[d] = "panic", depth[t] = 0, got[t].panic PROVE FALSE
      <4>1. depth[t] >= d
          BY <2>1, <3>1 DEF Panicking
      <4>2. QED
          BY <2>2, <3>1, <4>1
    <3>2. cpc[t] = "out" => \A d \in Layers : mut[d] # t
        BY <2>1 DEF Guarding, Passed
    <3>3. QED
        BY <3>1, <3>2 DEF Below
  <2>6. LateIsNothing
    <3> SUFFICES ASSUME NEW t \in CloseCallers
                 PROVE  /\ cpc[t] = "write" => 1 \notin began[t]
                        /\ layers # <<>> /\ layers[1] = "cancelable" /\ 1 \in began[t] => cpc[t] # "in"
        BY DEF LateIsNothing
    <3>1. cpc[t] = "in" /\ layers # <<>> => depth[t] > 1
        BY <2>1, <2>2 DEF Stations
    <3>2. QED
        BY <2>1, <3>1 DEF InTime
  <2>7. QED
      BY <2>3, <2>4, <2>5, <2>6 DEF ClosingIsTrue
<1>2. QED
    BY <1>1, ClosingInvariant, PTL

(***************************************************************************)
(* Using                                                                   *)
(***************************************************************************)

-----------------------------------------------------------------------------
(* The inductive invariant                                                 *)

UsingPlaces ==
    {<<p, 0>> : p \in {"new", "reset", "made", "deferred", "ended"}}
       \cup {<<"closing", i>> : i \in 1 .. 3}
At(u, p) == upc[u] = <<p, 0>>

UsingTyped ==
    /\ res \in Kinds /\ released \in BOOLEAN
    /\ upc \in [Uses -> UsingPlaces]
    /\ open \subseteq Uses /\ exists \subseteq Uses
    /\ gave \subseteq Uses /\ again \subseteq gave
    /\ fault \in [Uses -> SUBSET {"create", "func", "panic", "close", "nil"}]

\* Nothing is made of a nil resource.
NilMakesNothing == res = "nil" => \A u \in Uses : upc[u] \in {<<"new", 0>>, <<"ended", 0>>}

\* The flag is set as long as somebody has released since the last reset.
FlagIsTrue == released <=> gave # again

\* A Use that has nothing yet, and one that never gets anything.
Empty(u) == u \notin open /\ u \notin exists /\ u \notin gave
NothingYet ==
    \A u \in Uses :
       /\ At(u, "new") \/ At(u, "reset") => Empty(u) /\ fault[u] = {}
       /\ fault[u] \cap {"create", "nil"} # {} => At(u, "ended") /\ Empty(u)

\* There is no more of it than the constructor makes; and until its closer runs the
\* handle is open.
OnlyMade ==
    \A u \in Uses :
       /\ u \in exists => res \in {"TempDir", "TempFile"}
       /\ u \in open => res # "TempDir"
       /\ At(u, "made") /\ res \in {"OpenFile", "TempFile"} => u \in open

\* What was kept, and not forgotten by a reset, is not given to the closer.
Keeping ==
    \A u \in Uses : u \in gave /\ u \notin again =>
       /\ At(u, "made") \/ At(u, "deferred") \/ At(u, "ended")
       /\ res \in {"OpenFile", "TempFile"} => u \in open

\* The closer has given back what it has come by.
Back(u, thing) == (thing = "handle" => u \notin open) /\ (thing = "file" => u \notin exists)
GivingBack ==
    res # "nil" /\ gave = {} =>
       \A u \in Uses :
          /\ \A i \in 1 .. 3 : upc[u] = <<"closing", i>> =>
                \A j \in DOMAIN CloserSteps : j < i => Back(u, CloserSteps[j])
          /\ At(u, "ended") /\ "close" \notin fault[u] =>
                \A j \in DOMAIN CloserSteps : Back(u, CloserSteps[j])

UInv == UsingTyped /\ NilMakesNothing /\ FlagIsTrue /\ NothingYet /\ OnlyMade /\ Keeping /\ GivingBack

-----------------------------------------------------------------------------
(* Steps                                                                   *)

LEMMA Constructors ==
    ASSUME UsingTyped, res # "nil"
    PROVE  /\ res \in {"File", "OpenFile", "CreateFile", "Writer", "Reader", "ReadWriter",
                       "TempDir", "TempFile"}
           /\ "handle" \in NewResource[res].makes <=>
                 res \in {"OpenFile", "CreateFile", "Writer", "Reader", "ReadWriter", "TempFile"}
           /\ "file" \in NewResource[res].makes <=> res \in {"TempDir", "TempFile"}
           /\ res \in {"File", "OpenFile", "CreateFile"} => CloserSteps = <<"handle">>
           /\ res \in {"Writer", "Reader", "ReadWriter"} => CloserSteps = <<>>
           /\ res = "TempDir" => CloserSteps = <<"file">>
           /\ res = "TempFile" => CloserSteps = <<"handle", "file">>
<1>1. DOMAIN NewResource = {"File", "OpenFile", "CreateFile", "Writer", "Reader", "ReadWriter",
                            "TempDir", "TempFile"}
    BY DEF NewResource
<1>2. res \in DOMAIN NewResource
    BY UsingAssumption DEF UsingTyped
<1>3. res \in {"File", "OpenFile", "CreateFile", "Writer", "Reader", "ReadWriter",
               "TempDir", "TempFile"}
    BY <1>1, <1>2
<1>4. CASE res = "File"
    BY <1>4 DEF NewResource, CloserSteps, File, WrapCloser
<1>5. CASE res \in {"OpenFile", "CreateFile"}
    BY <1>5 DEF NewResource, CloserSteps, OpenFile, CreateFile, WrapCloser
<1>6. CASE res \in {"Writer", "Reader", "ReadWriter"}
    BY <1>6 DEF NewResource, CloserSteps, Writer, Reader, ReadWriter
<1>7. CASE res = "TempDir"
    BY <1>7 DEF NewResource, CloserSteps, TempDir
<1>8. CASE res = "TempFile"
    BY <1>8 DEF NewResource, CloserSteps, TempFile
<1>9. QED
    BY <1>3, <1>4, <1>5, <1>6, <1>7, <1>8

LEMMA PlacesDiffer ==
    ASSUME NEW p, NEW q, NEW i, NEW j
    PROVE  <<p, i>> = <<q, j>> <=> p = q /\ i = j
    OBVIOUS

\* A step of a Use.
UseMoves(u) ==
    \/ UseNil(u) \/ Use(u) \/ CreateFails(u) \/ use(u) \/ Release(u) \/ FuncEnds(u) \/ Deferred(u)
    \/ \E i \in 1 .. 3 : Closes(u, i)

LEMMA EveryUseMoves ==
    ASSUME [UsingNext]_usingVars
    PROVE  UNCHANGED usingVars \/ \E u \in Uses : UseMoves(u)
    BY DEF UsingNext, UsingStep, UseMoves

LEMMA UsingInitInv == UsingInit => UInv
<1> SUFFICES ASSUME UsingInit PROVE UInv
    OBVIOUS
<1>1. UsingTyped
    BY DEF UsingInit, UsingTyped, UsingPlaces
<1>2. NilMakesNothing /\ FlagIsTrue /\ NothingYet
    BY DEF UsingInit, NilMakesNothing, FlagIsTrue, NothingYet, Empty
<1>3. OnlyMade /\ Keeping /\ GivingBack
    BY PlacesDiffer DEF UsingInit, OnlyMade, Keeping, GivingBack, At
<1>4. QED
    BY <1>1, <1>2, <1>3 DEF UInv

LEMMA UsingTypedStep ==
    ASSUME UInv, NEW u \in Uses, UseMoves(u)
    PROVE  UsingTyped' /\ CloserSteps' = CloserSteps
<1>1. UsingTyped
    BY DEF UInv
<1>2. res' = res
    BY DEF UseMoves, UseNil, Use, CreateFails, use, Release, FuncEnds, Deferred, Closes
<1>3. upc' \in [Uses -> UsingPlaces]
  <2>1. \A p \in {"new", "reset", "made", "deferred", "ended"} : <<p, 0>> \in UsingPlaces
      BY DEF UsingPlaces
  <2>2. \A i \in 1 .. 3 : <<"closing", i>> \in UsingPlaces
      BY DEF UsingPlaces
  <2>3. CASE UseNil(u) \/ Use(u) \/ CreateFails(u) \/ use(u) \/ FuncEnds(u)
      BY <1>1, <2>1, <2>3 DEF UsingTyped, UseNil, Use, CreateFails, use, FuncEnds, Proceed
  <2>4. CASE Release(u)
      BY <1>1, <2>4 DEF UsingTyped, Release
  <2>5. CASE Deferred(u)
    <3>1. \/ upc' = [upc EXCEPT ![u] = <<"ended", 0>>]
          \/ upc' = [upc EXCEPT ![u] = <<"closing", 1>>]
        BY <2>5 DEF Deferred, Proceed
    <3>2. <<"ended", 0>> \in UsingPlaces /\ <<"closing", 1>> \in UsingPlaces
        BY <2>1, <2>2
    <3>3. QED
        BY <1>1, <3>1, <3>2 DEF UsingTyped
  <2>6. ASSUME NEW i \in 1 .. 3, Closes(u, i) PROVE upc' \in [Uses -> UsingPlaces]
    <3>1. \/ upc' = [upc EXCEPT ![u] = <<"ended", 0>>]
          \/ upc' = [upc EXCEPT ![u] = <<"closing", i + 1>>] /\ ~(i > Len(CloserSteps))
        BY <2>6 DEF Closes
    <3>2. ~(i > Len(CloserSteps)) => i + 1 \in 1 .. 3
      <4>1. res # "nil"
          BY <1>1, <2>6, PlacesDiffer DEF UInv, NilMakesNothing, Closes
      <4>2. CloserSteps \in {<<>>, <<"handle">>, <<"file">>, <<"handle", "file">>}
          BY <1>1, <4>1, Constructors
      <4>3. Len(CloserSteps) \in 0 .. 2
          BY <4>2
      <4>4. QED
          BY <4>3
    <3>3. <<"ended", 0>> \in UsingPlaces
        BY <2>1
    <3>4. QED
        BY <1>1, <2>2, <3>1, <3>2, <3>3 DEF UsingTyped
  <2>7. QED
      BY <2>3, <2>4, <2>5, <2>6 DEF UseMoves
<1>4. released' \in BOOLEAN /\ gave' \subseteq Uses /\ again' \subseteq gave'
    BY <1>1 DEF UsingTyped, UseMoves, UseNil, Use, CreateFails, use, Release, FuncEnds, Deferred, Closes
<1>5. open' \subseteq Uses /\ exists' \subseteq Uses
    BY <1>1 DEF UsingTyped, UseMoves, UseNil, Use, CreateFails, use, Release, FuncEnds, Deferred, Closes
<1>6. fault' \in [Uses -> SUBSET {"create", "func", "panic", "close", "nil"}]
  <2>1. \/ fault' = fault
        \/ \E f \in {"create", "func", "panic", "close", "nil"} :
              fault' = [fault EXCEPT ![u] = fault[u] \cup {f}]
      BY DEF UseMoves, UseNil, Use, CreateFails, use, Release, FuncEnds, Deferred, Closes, Fault
  <2>2. QED
      BY <1>1, <2>1 DEF UsingTyped
<1>7. QED
    BY <1>1, <1>2, <1>3, <1>4, <1>5, <1>6 DEF UsingTyped, CloserSteps

\* What the others have and where they are stays.
LEMMA OtherUsesStay ==
    ASSUME UInv, NEW u \in Uses, UseMoves(u), NEW v \in Uses, v # u
    PROVE  /\ upc'[v] = upc[v] /\ fault'[v] = fault[v]
           /\ v \in open' <=> v \in open
           /\ v \in exists' <=> v \in exists
           /\ v \in gave' <=> v \in gave
<1>1. UsingTyped
    BY DEF UInv
<1>2. upc'[v] = upc[v]
    BY <1>1 DEF UsingTyped, UseMoves, UseNil, Use, CreateFails, use, Release, FuncEnds, Deferred,
       Closes, Proceed
<1>3. fault'[v] = fault[v]
    BY <1>1 DEF UsingTyped, UseMoves, UseNil, Use, CreateFails, use, Release, FuncEnds, Deferred,
       Closes, Fault
<1>4. /\ v \in open' <=> v \in open
      /\ v \in exists' <=> v \in exists
      /\ v \in gave' <=> v \in gave
    BY DEF UseMoves, UseNil, Use, CreateFails, use, Release, FuncEnds, Deferred, Closes
<1>5. QED
    BY <1>2, <1>3, <1>4

\* The flag is reset by a Use that begins and set by a Release, and by nothing else.
LEMMA FlagStep ==
    ASSUME UInv, NEW u \in Uses, UseMoves(u)
    PROVE  /\ FlagIsTrue'
           /\ again' = again \/ again' = gave'
           /\ gave' = gave \/ (gave' = gave \cup {u} /\ again' = again /\ Release(u))
<1>1. UsingTyped /\ FlagIsTrue
    BY DEF UInv
<1>2. CASE Release(u)
    BY <1>1, <1>2 DEF Release, FlagIsTrue, UsingTyped
<1>3. CASE ~Release(u)
  <2>1. gave' = gave
      BY <1>3 DEF UseMoves, UseNil, Use, CreateFails, use, FuncEnds, Deferred, Closes
  <2>2. (released' = released /\ again' = again) \/ (released' = FALSE /\ again' = gave)
      BY <1>3 DEF UseMoves, UseNil, Use, CreateFails, use, FuncEnds, Deferred, Closes
  <2>3. QED
      BY <1>1, <2>1, <2>2 DEF FlagIsTrue
<1>4. QED
    BY <1>2, <1>3

\* Where a step leaves the Use that makes it, and from where.
LEMMA Proceeds ==
    ASSUME UInv, NEW u \in Uses, UseMoves(u)
    PROVE  \/ UseNil(u) /\ At(u, "new") /\ At(u, "ended")'
           \/ Use(u) /\ At(u, "new") /\ At(u, "reset")'
           \/ CreateFails(u) /\ At(u, "reset") /\ At(u, "ended")'
           \/ use(u) /\ At(u, "reset") /\ At(u, "made")'
           \/ Release(u) /\ At(u, "made") /\ At(u, "made")'
           \/ FuncEnds(u) /\ At(u, "made") /\ At(u, "deferred")'
           \/ Deferred(u) /\ At(u, "deferred") /\ released /\ At(u, "ended")'
           \/ Deferred(u) /\ At(u, "deferred") /\ ~released /\ upc'[u] = <<"closing", 1>>
           \/ \E i \in 1 .. 3 :
                 /\ Closes(u, i) /\ upc[u] = <<"closing", i>>
                 /\ \/ At(u, "ended")' /\ (i > Len(CloserSteps) \/ "close" \in fault'[u])
                    \/ upc'[u] = <<"closing", i + 1>>
<1>1. UsingTyped
    BY DEF UInv
<1>2. upc \in [Uses -> UsingPlaces] /\ fault \in [Uses -> SUBSET {"create", "func", "panic", "close", "nil"}]
    BY <1>1 DEF UsingTyped
<1>3. ASSUME NEW i \in 1 .. 3, Closes(u, i)
      PROVE  /\ upc[u] = <<"closing", i>>
             /\ \/ At(u, "ended")' /\ (i > Len(CloserSteps) \/ "close" \in fault'[u])
                \/ upc'[u] = <<"closing", i + 1>>
    BY <1>2, <1>3 DEF Closes, Fault, At
<1>4. QED
    BY <1>2, <1>3 DEF UseMoves, UseNil, Use, CreateFails, use, Release, FuncEnds, Deferred, Proceed, At

LEMMA NothingStep ==
    ASSUME UInv, NEW u \in Uses, UseMoves(u)
    PROVE  NilMakesNothing' /\ NothingYet'
<1>1. UsingTyped /\ NilMakesNothing /\ NothingYet
    BY DEF UInv
<1>2. res' = res
    BY DEF UseMoves, UseNil, Use, CreateFails, use, Release, FuncEnds, Deferred, Closes
<1>3. \A v \in Uses : v # u =>
         /\ upc'[v] = upc[v] /\ fault'[v] = fault[v]
         /\ Empty(v) => Empty(v)'
    BY OtherUsesStay DEF Empty
<1>4. \A i : <<"closing", i>> # <<"new", 0>> /\ <<"closing", i>> # <<"ended", 0>>
             /\ <<"closing", i>> # <<"reset", 0>>
    BY PlacesDiffer
<1>5. <<"new", 0>> # <<"ended", 0>> /\ <<"new", 0>> # <<"reset", 0>> /\ <<"reset", 0>> # <<"ended", 0>>
      /\ <<"made", 0>> \notin {<<"new", 0>>, <<"reset", 0>>, <<"ended", 0>>}
      /\ <<"deferred", 0>> \notin {<<"new", 0>>, <<"reset", 0>>, <<"ended", 0>>}
    BY PlacesDiffer
<1>6. NilMakesNothing'
  <2>1. SUFFICES ASSUME res = "nil" PROVE At(u, "ended")'
      BY <1>1, <1>2, <1>3, <2>1 DEF NilMakesNothing, At
  <2>2. At(u, "new") \/ At(u, "ended")
      BY <1>1, <2>1 DEF NilMakesNothing, At
  <2>3. QED
      BY <1>4, <1>5, <2>1, <2>2, Proceeds DEF At, Use
<1>7. /\ (At(u, "new") \/ At(u, "reset"))' => Empty(u)' /\ fault'[u] = {}
      /\ fault'[u] \cap {"create", "nil"} # {} => At(u, "ended")' /\ Empty(u)'
  <2>1. CASE UseNil(u) \/ CreateFails(u)
    <3>1. Empty(u) /\ (At(u, "ended"))'
        BY <1>1, <1>4, <1>5, <2>1 DEF NothingYet, UseNil, CreateFails, Proceed, At, UsingTyped
    <3>2. Empty(u)'
        BY <2>1, <3>1 DEF Empty, UseNil, CreateFails
    <3>3. QED
        BY <1>5, <3>1, <3>2 DEF At
  <2>2. CASE Use(u)
    <3>1. Empty(u) /\ fault[u] = {} /\ fault' = fault
        BY <1>1, <2>2 DEF NothingYet, Use, Proceed, At
    <3>2. Empty(u)'
        BY <2>2, <3>1 DEF Empty, Use
    <3>3. QED
        BY <3>1, <3>2
  <2>3. CASE use(u) \/ Release(u) \/ FuncEnds(u) \/ Deferred(u) \/ \E i \in 1 .. 3 : Closes(u, i)
    <3>1. ~At(u, "ended") /\ ~At(u, "new")
        BY <1>4, <1>5, <2>3 DEF use, Release, FuncEnds, Deferred, Closes, Proceed, At
    <3>2. fault[u] \cap {"create", "nil"} = {}
        BY <1>1, <3>1 DEF NothingYet
    <3>3. fault'[u] \cap {"create", "nil"} = {}
        BY <1>1, <2>3, <3>2 DEF use, Release, FuncEnds, Deferred, Closes, Fault, UsingTyped
    <3>4. ~At(u, "new")' /\ ~At(u, "reset")'
        BY <1>4, <1>5, <3>1, Proceeds DEF At, UseNil, Use, CreateFails, Proceed
    <3>5. QED
        BY <3>3, <3>4
  <2>4. QED
      BY <2>1, <2>2, <2>3 DEF UseMoves
<1>8. NothingYet'
    BY <1>1, <1>3, <1>7 DEF NothingYet, At
<1>9. QED
    BY <1>6, <1>8

LEMMA OnlyMadeStep ==
    ASSUME UInv, NEW u \in Uses, UseMoves(u)
    PROVE  OnlyMade'
<1>1. UsingTyped /\ NilMakesNothing /\ OnlyMade
    BY DEF UInv
<1>2. res' = res
    BY DEF UseMoves, UseNil, Use, CreateFails, use, Release, FuncEnds, Deferred, Closes
<1>3. \A v \in Uses : v # u =>
         /\ upc'[v] = upc[v] /\ (v \in open' <=> v \in open) /\ (v \in exists' <=> v \in exists)
    BY OtherUsesStay
<1>4. SUFFICES /\ u \in exists' => res \in {"TempDir", "TempFile"}
               /\ u \in open' => res # "TempDir"
               /\ At(u, "made")' /\ res \in {"OpenFile", "TempFile"} => u \in open'
    BY <1>1, <1>2, <1>3, <1>4 DEF OnlyMade, At
<1>5. CASE use(u)
  <2>1. res # "nil"
      BY <1>1, <1>5, PlacesDiffer DEF use, Proceed, NilMakesNothing
  <2>2. /\ open' = IF "handle" \in NewResource[res].makes \/ res = "File" THEN open \cup {u} ELSE open
        /\ exists' = IF "file" \in NewResource[res].makes THEN exists \cup {u} ELSE exists
      BY <1>5 DEF use
  <2>3. QED
      BY <1>1, <2>1, <2>2, Constructors DEF OnlyMade
<1>6. CASE ~use(u)
  <2>1. open' \subseteq open /\ exists' \subseteq exists
      BY <1>6 DEF UseMoves, UseNil, Use, CreateFails, Release, FuncEnds, Deferred, Closes
  <2>2. At(u, "made")' => At(u, "made") /\ open' = open
    <3> HAVE At(u, "made")'
    <3>1. Release(u) /\ At(u, "made")
        BY <1>6, Proceeds, PlacesDiffer DEF At
    <3>2. QED
        BY <3>1 DEF Release
  <2>3. QED
      BY <1>1, <2>1, <2>2 DEF OnlyMade
<1>7. QED
    BY <1>5, <1>6

LEMMA KeepingStep ==
    ASSUME UInv, NEW u \in Uses, UseMoves(u)
    PROVE  Keeping'
<1>1. UsingTyped /\ Keeping /\ OnlyMade /\ FlagIsTrue /\ NothingYet
    BY DEF UInv
<1>2. res' = res
    BY DEF UseMoves, UseNil, Use, CreateFails, use, Release, FuncEnds, Deferred, Closes
<1>3. \A v \in Uses : v # u =>
         /\ upc'[v] = upc[v] /\ (v \in open' <=> v \in open) /\ (v \in gave' <=> v \in gave)
    BY OtherUsesStay
<1>4. \A v \in Uses : v \in gave' /\ v \notin again' => v \notin again
    BY <1>1, FlagStep DEF UsingTyped
<1>5. SUFFICES ASSUME u \in gave', u \notin again'
               PROVE  /\ (At(u, "made") \/ At(u, "deferred") \/ At(u, "ended"))'
                      /\ res \in {"OpenFile", "TempFile"} => u \in open'
    BY <1>1, <1>2, <1>3, <1>4, <1>5 DEF Keeping, At
<1>6. CASE Release(u)
  <2>1. At(u, "made") /\ At(u, "made")' /\ open' = open
      BY <1>6 DEF Release, At
  <2>2. QED
      BY <1>1, <2>1 DEF OnlyMade
<1>7. CASE ~Release(u)
  <2>1. u \in gave /\ u \notin again
      BY <1>4, <1>5, <1>7, FlagStep
  <2>2. (At(u, "made") \/ At(u, "deferred") \/ At(u, "ended"))
        /\ (res \in {"OpenFile", "TempFile"} => u \in open)
      BY <1>1, <2>1 DEF Keeping
  <2>3. released
      BY <1>1, <2>1 DEF FlagIsTrue
  <2>4. (At(u, "made") \/ At(u, "deferred") \/ At(u, "ended"))'
        /\ (FuncEnds(u) \/ Deferred(u))
      BY <1>7, <2>2, <2>3, Proceeds, PlacesDiffer DEF At
  <2>5. open' = open
      BY <2>4 DEF FuncEnds, Deferred
  <2>6. QED
      BY <2>2, <2>4, <2>5
<1>8. QED
    BY <1>6, <1>7

LEMMA GivingBackStep ==
    ASSUME UInv, NEW u \in Uses, UseMoves(u)
    PROVE  GivingBack'
<1>1. UsingTyped /\ GivingBack /\ FlagIsTrue /\ NothingYet
    BY DEF UInv
<1>2. res' = res /\ CloserSteps' = CloserSteps
    BY UsingTypedStep DEF UseMoves, UseNil, Use, CreateFails, use, Release, FuncEnds, Deferred, Closes
<1>3. gave \subseteq gave'
    BY FlagStep
<1>4. SUFFICES ASSUME res # "nil", gave' = {}, NEW v \in Uses
               PROVE  /\ \A i \in 1 .. 3 : upc'[v] = <<"closing", i>> =>
                            \A j \in DOMAIN CloserSteps : j < i => Back(v, CloserSteps[j])'
                      /\ At(v, "ended")' /\ "close" \notin fault'[v] =>
                            \A j \in DOMAIN CloserSteps : Back(v, CloserSteps[j])'
    BY <1>2, <1>4 DEF GivingBack, Back
<1>5. /\ gave = {} /\ ~released
      /\ \A i \in 1 .. 3 : upc[v] = <<"closing", i>> =>
            \A j \in DOMAIN CloserSteps : j < i => Back(v, CloserSteps[j])
      /\ At(v, "ended") /\ "close" \notin fault[v] =>
            \A j \in DOMAIN CloserSteps : Back(v, CloserSteps[j])
    BY <1>1, <1>3, <1>4 DEF GivingBack, FlagIsTrue, UsingTyped
<1>6. CASE v # u
  <2>1. /\ upc'[v] = upc[v] /\ fault'[v] = fault[v]
        /\ (v \in open' <=> v \in open) /\ (v \in exists' <=> v \in exists)
      BY <1>6, OtherUsesStay
  <2>2. QED
      BY <1>2, <1>5, <2>1 DEF At, Back
<1>7. CASE v = u
  <2>1. CASE UseNil(u) \/ CreateFails(u)
    <3>1. Empty(u) /\ At(u, "ended")' /\ open' = open /\ exists' = exists
        BY <1>1, <2>1 DEF NothingYet, UseNil, CreateFails, Proceed, At, UsingTyped
    <3>2. QED
        BY <1>2, <1>7, <3>1, PlacesDiffer DEF Empty, At, Back
  <2>2. CASE Use(u) \/ use(u) \/ Release(u) \/ FuncEnds(u)
    <3>1. At(u, "reset")' \/ At(u, "made")' \/ At(u, "deferred")'
        BY <1>1, <2>2 DEF Use, use, Release, FuncEnds, Proceed, At, UsingTyped
    <3>2. QED
        BY <1>7, <3>1, PlacesDiffer DEF At
  <2>3. CASE Deferred(u)
    <3>1. upc'[u] = <<"closing", 1>>
        BY <1>1, <1>5, <2>3 DEF Deferred, Proceed, UsingTyped
    <3>2. \A i : upc'[u] = <<"closing", i>> => i = 1
        BY <3>1, PlacesDiffer
    <3>3. ~At(u, "ended")'
        BY <3>1, PlacesDiffer DEF At
    <3>4. CloserSteps \in {<<>>, <<"handle">>, <<"file">>, <<"handle", "file">>}
        BY <1>1, <1>4, Constructors
    <3>5. \A j \in DOMAIN CloserSteps : ~(j < 1)
        BY <3>4
    <3>6. \A i \in 1 .. 3 : upc'[v] = <<"closing", i>> =>
             \A j \in DOMAIN CloserSteps : j < i => Back(v, CloserSteps[j])'
      <4>1. SUFFICES ASSUME NEW i \in 1 .. 3, upc'[v] = <<"closing", i>>
                     PROVE  \A j \in DOMAIN CloserSteps : ~(j < i)
          BY Zenon
      <4>2. i = 1
          BY <1>7, <3>2, <4>1
      <4>3. QED
          BY <3>5, <4>2
    <3>7. QED
        BY <1>7, <3>3, <3>6, Zenon
  <2>4. ASSUME NEW k \in 1 .. 3, Closes(u, k)
        PROVE  /\ \A i \in 1 .. 3 : upc'[u] = <<"closing", i>> =>
                     \A j \in DOMAIN CloserSteps : j < i => Back(u, CloserSteps[j])'
               /\ At(u, "ended")' /\ "close" \notin fault'[u] =>
                     \A j \in DOMAIN CloserSteps : Back(u, CloserSteps[j])'
    <3>1. upc[u] = <<"closing", k>> /\ upc \in [Uses -> UsingPlaces]
          /\ fault \in [Uses -> SUBSET {"create", "func", "panic", "close", "nil"}]
        BY <1>1, <2>4 DEF Closes, UsingTyped
    <3>2. open' \subseteq open /\ exists' \subseteq exists
        BY <2>4 DEF Closes
    <3>3. \A j \in DOMAIN CloserSteps : j < k => Back(u, CloserSteps[j])'
        BY <1>2, <1>5, <1>7, <3>1, <3>2 DEF Back
    <3>4. CloserSteps \in {<<>>, <<"handle">>, <<"file">>, <<"handle", "file">>}
        BY <1>1, <1>4, Constructors
    <3>5. DOMAIN CloserSteps = 1 .. Len(CloserSteps) /\ Len(CloserSteps) \in Nat
        BY <3>4
    <3>6. CASE k > Len(CloserSteps)
      <4>1. \A j \in DOMAIN CloserSteps : Back(u, CloserSteps[j])'
          BY <3>3, <3>5, <3>6
      <4>2. QED
          BY <4>1
    <3>7. CASE ~(k > Len(CloserSteps))
      <4>1. CASE upc'[u] = <<"closing", k + 1>>
        <5>1. \A i : upc'[u] = <<"closing", i>> => i = k + 1
            BY <4>1, PlacesDiffer
        <5>2. ~At(u, "ended")'
            BY <4>1, PlacesDiffer DEF At
        <5>3. Back(u, CloserSteps[k])'
          <6>1. upc' # [upc EXCEPT ![u] = <<"ended", 0>>]
              BY <3>1, <5>2 DEF At
          <6>2. /\ open' = IF CloserSteps[k] = "handle" THEN open \ {u} ELSE open
                /\ exists' = IF CloserSteps[k] = "file" THEN exists \ {u} ELSE exists
              BY <2>4, <3>7, <6>1 DEF Closes
          <6>3. QED
              BY <1>2, <6>2 DEF Back
        <5>4. \A j \in DOMAIN CloserSteps : j < k + 1 => Back(u, CloserSteps[j])'
            BY <3>3, <3>5, <5>3
        <5>5. QED
            BY <5>1, <5>2, <5>4
      <4>2. CASE At(u, "ended")' /\ "close" \in fault'[u]
          BY <4>2, PlacesDiffer DEF At
      <4>3. QED
          BY <2>4, <3>1, <3>7, <4>1, <4>2 DEF Closes, At, Fault
    <3>8. QED
        BY <3>6, <3>7
  <2>5. QED
      BY <1>7, <2>1, <2>2, <2>3, <2>4 DEF UseMoves
<1>8. QED
    BY <1>6, <1>7

LEMMA UsingStepKeeps == UInv /\ [UsingNext]_usingVars => UInv'
<1> SUFFICES ASSUME UInv, [UsingNext]_usingVars PROVE UInv'
    OBVIOUS
<1>1. CASE UNCHANGED usingVars
    BY <1>1 DEF usingVars, UInv, UsingTyped, NilMakesNothing, FlagIsTrue, NothingYet, OnlyMade,
       Keeping, GivingBack, Empty, At, Back, CloserSteps
<1>2. CASE \E u \in Uses : UseMoves(u)
    BY <1>2, UsingTypedStep, FlagStep, NothingStep, OnlyMadeStep, KeepingStep, GivingBackStep DEF UInv
<1>3. QED
    BY <1>1, <1>2, EveryUseMoves

\* The invariant: the flag is set as long as a Release was not forgotten, and until it
\* is, what was kept stays away from the closer.
THEOREM UsingInvariant == UsingSpec => []UInv
    BY UsingInitInv, UsingStepKeeps, PTL DEF UsingSpec

\* Use of using/using.go gives back what it has created unless a closer failed or
\* somebody released; what was released is kept unless another Use began after it.
THEOREM UsesAreTrue == UsingSpec => []UsingIsTrue
<1>1. ASSUME UInv PROVE UsingIsTrue
  <2>1. UsingTyped /\ NothingYet /\ OnlyMade /\ Keeping /\ GivingBack
      BY <1>1 DEF UInv
  <2>2. CreatedIsClosed
    <3> SUFFICES ASSUME NEW u \in Uses, Ended(u), "close" \notin fault[u], gave = {}
                 PROVE  u \notin exists /\ (res # "nil" /\ CloserSteps # <<>> => u \notin open)
        BY DEF CreatedIsClosed
    <3>1. CASE res = "nil"
      <4>1. u \notin exists
          BY <2>1, <3>1 DEF OnlyMade
      <4>2. QED
          BY <3>1, <4>1
    <3>2. CASE res # "nil"
      <4>1. \A j \in DOMAIN CloserSteps : Back(u, CloserSteps[j])
          BY <2>1, <3>2 DEF GivingBack, Ended, At
      <4>2. CASE res \in {"File", "OpenFile", "CreateFile"}
        <5>1. CloserSteps = <<"handle">> /\ u \notin exists
            BY <2>1, <3>2, <4>2, Constructors DEF OnlyMade
        <5>2. 1 \in DOMAIN CloserSteps /\ CloserSteps[1] = "handle"
            BY <5>1
        <5>3. QED
            BY <4>1, <5>1, <5>2 DEF Back
      <4>3. CASE res \in {"Writer", "Reader", "ReadWriter"}
          BY <2>1, <3>2, <4>3, Constructors DEF OnlyMade
      <4>4. CASE res = "TempDir"
        <5>1. CloserSteps = <<"file">> /\ u \notin open
            BY <2>1, <3>2, <4>4, Constructors DEF OnlyMade
        <5>2. 1 \in DOMAIN CloserSteps /\ CloserSteps[1] = "file"
            BY <5>1
        <5>3. QED
            BY <4>1, <5>1, <5>2 DEF Back
      <4>5. CASE res = "TempFile"
        <5>1. CloserSteps = <<"handle", "file">>
            BY <2>1, <3>2, <4>5, Constructors
        <5>2. /\ 1 \in DOMAIN CloserSteps /\ CloserSteps[1] = "handle"
              /\ 2 \in DOMAIN CloserSteps /\ CloserSteps[2] = "file"
            BY <5>1
        <5>3. QED
            BY <4>1, <5>2 DEF Back
      <4>6. QED
          BY <2>1, <3>2, <4>2, <4>3, <4>4, <4>5, Constructors
    <3>3. QED
        BY <3>1, <3>2
  <2>3. KeptIsKept
      BY <2>1 DEF KeptIsKept, Keeping, UsingTyped
  <2>4. OnlyOwnIsClosed
      BY <2>1 DEF OnlyOwnIsClosed, NothingYet, Empty
  <2>5. QED
      BY <2>2, <2>3, <2>4 DEF UsingIsTrue
<1>2. QED
    BY <1>1, UsingInvariant, PTL

==============================================================================
