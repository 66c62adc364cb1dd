------------------------------- MODULE Gather -------------------------------
(***************************************************************************)
(* map.go, ordered_map.go, set.go, ordered_set.go and slice.go of          *)
(* simultaneously: a callback for every item of a container transforms it, *)
(* and the results make a new container.  What DoCtxWithExecutor does with *)
(* the callbacks is the business of Simultaneously: here it starts them in *)
(* order, at most so many at once, cancels the rest after an error, and    *)
(* returns when all are over.                                              *)
(*                                                                         *)
(* A container is the sequence of its entries, in any order if it has      *)
(* none; an element of a set or a slice is an entry without a value.       *)
(***************************************************************************)
EXTENDS Naturals, Sequences, FiniteSets
LOCAL INSTANCE SequencesExt

CONSTANTS
    Inputs,         \* sequences of entries, or Nil
    Answers,        \* what a transform may return for a key: sequences of entries
    Hash,           \* of keys
    Unhashable,     \* keys of a type that cannot be hashed
    MaxConcurrent,  \* the parameter of that name, 0 for as many as there are items
    Nil

Entry(k, v) == [key |-> k, value |-> v]

-----------------------------------------------------------------------------
(* The functions of the package: what each takes, whether its transform    *)
(* returns many results, and what it makes of them                         *)

MapGoMap == [from |-> "go", many |-> FALSE, into |-> "map"]
FlatMapGoMap == [from |-> "go", many |-> TRUE, into |-> "map"]
MapMap == [from |-> "map", many |-> FALSE, into |-> "map"]
FlatMapMap == [from |-> "map", many |-> TRUE, into |-> "map"]
MapOrderedMap == [from |-> "omap", many |-> FALSE, into |-> "omap"]
FlatMapOrderedMap == [from |-> "omap", many |-> TRUE, into |-> "omap"]
MapSet == [from |-> "set", many |-> FALSE, into |-> "set"]
FlatMapSet == [from |-> "set", many |-> TRUE, into |-> "set"]
MapOrderedSet == [from |-> "oset", many |-> FALSE, into |-> "oset"]
FlatMapOrderedSet == [from |-> "oset", many |-> TRUE, into |-> "oset"]
MapSlice == [from |-> "slice", many |-> FALSE, into |-> "slice"]
FlatMapSlice == [from |-> "slice", many |-> TRUE, into |-> "slice"]

Functions == {MapGoMap, FlatMapGoMap, MapMap, FlatMapMap, MapOrderedMap, FlatMapOrderedMap,
              MapSet, FlatMapSet, MapOrderedSet, FlatMapOrderedSet, MapSlice, FlatMapSlice}

VARIABLES
    fn,         \* the function that was called
    own,        \* whether it makes an executor of its own, rather than get one
    hashed,     \* whether the input has a hash function, as trees do not
    input,      \* the container it was given
    exec,       \* its own executor: "none", "open" or "closed"
    pc,         \* "called", "parallel", "built" or "returned"
    task,       \* each item's callback: "new", "started", "added" or "failed"
    outputs,    \* what each transform has returned
    out,        \* the container the callbacks add to
    canceled,   \* the context of the callbacks
    outside,    \* whether it was canceled from outside
    ret         \* [err, value]

vars == <<fn, own, hashed, input, exec, pc, task, outputs, out, canceled, outside, ret>>

Items == IF input = Nil THEN {} ELSE DOMAIN input
Ordered == fn.into \in {"omap", "oset", "slice"}
Limit == IF MaxConcurrent = 0 \/ MaxConcurrent > Cardinality(Items)
         THEN Cardinality(Items) ELSE MaxConcurrent

NoError(v) == [err |-> "no", value |-> v]
Error == [err |-> "error", value |-> Nil]
Panic == [err |-> "panic", value |-> Nil]

Init ==
    /\ fn \in Functions /\ own \in BOOLEAN /\ input \in Inputs
    /\ hashed \in (IF fn.from \in {"map", "set"} THEN BOOLEAN ELSE {TRUE})
    /\ exec = "none" /\ pc = "called"
    /\ task = [i \in Items |-> "new"]
    /\ outputs = [i \in Items |-> <<>>]
    /\ out = <<>>
    /\ canceled = FALSE /\ outside = FALSE /\ ret = NoError(Nil)

-----------------------------------------------------------------------------
(* Adding to a container; those named ..._x are wrong on purpose           *)

\* Add of maps and sets.  An entry of the same key is overwritten in a map and
\* kept in a set; one with another key of the same hash is an error.
AddAll(c, es) ==
    LET Add(r, e) ==
            LET same == {i \in DOMAIN r.box : Hash[r.box[i].key] = Hash[e.key]}
            IN  IF r.err \/ ~hashed \/ e.key \in Unhashable
                   \/ \E i \in same : r.box[i].key # e.key
                THEN [r EXCEPT !.err = TRUE]
                ELSE IF same = {} THEN [r EXCEPT !.box = Append(@, e)]
                ELSE IF fn.into \in {"set", "oset"} THEN r
                ELSE [r EXCEPT !.box = [i \in DOMAIN @ |-> IF i \in same THEN e ELSE @[i]]]
    IN  FoldLeft(Add, [box |-> c, err |-> FALSE], es)

\* The results as they go into an ordered container: by the index of the item.
InOrder_x == FlattenSeq([i \in DOMAIN outputs |-> outputs[Len(input) + 1 - i]])
InOrder == FlattenSeq(outputs)

-----------------------------------------------------------------------------
(* The calls                                                               *)

\* Nil in, nil out, before an executor is made.  A slice of nothing makes one.
ReturnNil ==
    /\ pc = "called"
    /\ input = Nil \/ (fn.from = "slice" /\ input = <<>>)
    /\ pc' = "returned"
    /\ exec' = IF own /\ input # Nil THEN "closed" ELSE exec
    /\ UNCHANGED <<fn, own, hashed, input, task, outputs, out, canceled, outside, ret>>

\* FromGoMap panics about a key that it cannot add; the executor is closed by
\* a deferred call.
BadGoMap == fn.from = "go" /\ \E i \in Items : input[i].key \in Unhashable
FromGoMapPanics ==
    /\ pc = "called" /\ BadGoMap
    /\ pc' = "returned" /\ ret' = Panic
    /\ exec' = IF own THEN "closed" ELSE exec
    /\ UNCHANGED <<fn, own, hashed, input, task, outputs, out, canceled, outside>>

Launch ==
    /\ pc = "called" /\ ~BadGoMap
    /\ input # Nil /\ ~(fn.from = "slice" /\ input = <<>>)
    /\ pc' = "parallel"
    /\ exec' = IF own THEN "open" ELSE exec
    /\ UNCHANGED <<fn, own, hashed, input, task, outputs, out, canceled, outside, ret>>

Running == {i \in Items : task[i] = "started"}

\* The executor starts the callbacks in order.
Start(i) ==
    /\ pc = "parallel" /\ task[i] = "new"
    /\ \A j \in Items : j < i => task[j] # "new"
    /\ Cardinality(Running) < Limit
    /\ task' = [task EXCEPT ![i] = "started"]
    /\ UNCHANGED <<fn, own, hashed, input, exec, pc, outputs, out, canceled, outside, ret>>

\* A callback that is refused, sees that the context is over, or whose transform
\* fails or panics.  A FlatMap ranges over the map it gets: a nil one panics.
Fail(i) ==
    /\ task[i] = "started" \/ (task[i] = "new" /\ canceled /\ pc = "parallel")
    /\ task' = [task EXCEPT ![i] = "failed"]
    /\ canceled' = TRUE
    /\ UNCHANGED <<fn, own, hashed, input, exec, pc, outputs, out, outside, ret>>

\* A transform has returned: for an ordered container its result is kept by
\* index; for another it is added at once, under the mutex.
Transformed(i) ==
    /\ task[i] = "started"
    /\ \E es \in Answers[input[i].key] :
          LET r == AddAll(out, es)
          IN  /\ fn.many \/ Len(es) = 1
              /\ outputs' = [outputs EXCEPT ![i] = es]
              /\ out' = IF Ordered THEN out ELSE r.box
              /\ task' = [task EXCEPT ![i] = IF ~Ordered /\ r.err THEN "failed" ELSE "added"]
              /\ canceled' = (canceled \/ (~Ordered /\ r.err))
    /\ UNCHANGED <<fn, own, hashed, input, exec, pc, outside, ret>>

Cancel ==
    /\ pc = "parallel" /\ ~outside
    /\ outside' = TRUE /\ canceled' = TRUE
    /\ UNCHANGED <<fn, own, hashed, input, exec, pc, task, outputs, out, ret>>

\* DoCtxWithExecutor returns.  An error drops what was added; the ordered
\* containers are filled now.  A slice of no results is nil.
AllOver == \A i \in Items : task[i] \in {"added", "failed"}
Build ==
    LET r == AddAll(<<>>, InOrder)
    IN  CASE \E i \in Items : task[i] = "failed" -> Error
          [] fn.into = "slice" /\ InOrder = <<>> -> NoError(Nil)
          [] fn.into = "slice" /\ InOrder # <<>> -> NoError(InOrder)
          [] Ordered /\ fn.into # "slice" -> IF r.err THEN Error ELSE NoError(r.box)
          [] OTHER -> NoError(out)

Finish ==
    /\ pc = "parallel" /\ AllOver
    /\ ret' = Build
    /\ pc' = "returned"
    /\ exec' = IF own THEN "closed" ELSE exec
    /\ UNCHANGED <<fn, own, hashed, input, task, outputs, out, canceled, outside>>

Step ==
    \/ ReturnNil \/ FromGoMapPanics \/ Launch \/ Finish
    \/ \E i \in Items : Start(i) \/ Fail(i) \/ Transformed(i)
Next == Step \/ Cancel
Spec == Init /\ [][Next]_vars

\* A call goes on: transforms return, and the executor starts what it can.
Fairness == WF_vars(Step)

-----------------------------------------------------------------------------
(* Properties                                                              *)

\* What one goroutine would make of the results in the order p of the items.
OneByOne(p) == AddAll(<<>>, FlattenSeq([i \in DOMAIN p |-> outputs[p[i]]]))
Orders == {p \in [Items -> Items] : \A i, j \in Items : i # j => p[i] # p[j]}

\* "Order is preserved": a function that returns an ordered container returns
\* what one goroutine would, whichever transform is done first; the others
\* what it would in some order.
ResultIsSequential ==
    ret.err = "no" /\ pc = "returned" /\ input # Nil /\ Items # {} =>
        IF fn.into = "slice"
        THEN ret.value = IF FlattenSeq(outputs) = <<>> THEN Nil ELSE FlattenSeq(outputs)
        ELSE IF Ordered
        THEN ~OneByOne([i \in Items |-> i]).err /\ ret.value = OneByOne([i \in Items |-> i]).box
        ELSE \E p \in Orders : ~OneByOne(p).err /\ Range(ret.value) = Range(OneByOne(p).box)

\* Nothing but a result says that all went well, and nothing went wrong without
\* a cause: an item that failed, or results that no container can hold.
ErrorsAreTrue ==
    pc = "returned" =>
        /\ ret.err # "no" => ret.value = Nil
        /\ ret.err = "no" /\ input # Nil => \A i \in Items : task[i] = "added"
        /\ ret.err = "error" => \/ \E i \in Items : task[i] = "failed"
                                \/ \E i, j \in Items : AddAll(outputs[i], outputs[j]).err

\* No callback outlives the call, no more run at once than were asked for, and
\* an executor of its own is closed, also after a panic.
CallEndsClean ==
    /\ Cardinality(Running) <= Limit
    /\ pc = "returned" => Running = {} /\ exec # "open"

GatherIsTrue == ResultIsSequential /\ ErrorsAreTrue /\ CallEndsClean

\* Every call ends, with errors, panics and a cancellation at any time.
GatherOver == pc = "returned"
GatherReturns == <>GatherOver

=============================================================================
