------------------------------- MODULE Locked -------------------------------
(***************************************************************************)
(* The thread-safe wrappers of maps/ and set/: two containers, each with a *)
(* sync.RWMutex of its own, and callers that ask, change and combine them. *)
(*                                                                         *)
(* A container is the set of its keys.  Every method locks its own mutex   *)
(* for the whole call; Union and Intersection call the other container,    *)
(* which locks its own, with the first lock held.                          *)
(***************************************************************************)
EXTENDS FiniteSets

CONSTANTS
    Elements, None,
    Movers,      \* the callers of Add, Remove and Contains, one call each
    Joiners,     \* the callers of Union and Intersection, one call each
    Supplied,    \* the keys for which a default container has an entry
    Defaults,    \* the values of wraps, ...
    Contents,    \* ... of content to begin with, ...
    Joined       \* and of the containers whose Union or Intersection is called

Threads == Movers \cup Joiners
Maps == {"x", "y"}

ASSUME LockedAssumption ==
    /\ Movers \cap Joiners = {} /\ None \notin Threads \cup Maps
    /\ Joined \subseteq Maps
    /\ Defaults \subseteq [Maps -> BOOLEAN]
    /\ Contents \subseteq [Maps -> SUBSET Elements]

VARIABLES
    wraps,      \* of each container: whether what it wraps supplies defaults
    content,    \* of each container: its keys
    readers,    \* of each mutex: the threads that hold a read lock, ...
    nested,     \* ... those among them that hold two
    queued,     \* those that wait in RLock
    writer,     \* the thread that has announced a Lock, or None
    call,       \* of each thread: [op, map, other, key]
    pc,         \* of each thread: where it is
    result,     \* of each joiner: the keys of the container it makes
    left,       \* of each joiner: the keys that it still has to ask for
    possible    \* of each joiner: the results that one moment of its call would give

lockedVars == <<wraps, content, readers, nested, queued, writer, call, pc, result, left, possible>>
lock == <<readers, nested, queued, writer>>

Calls == [op : {"Add", "Remove", "Contains"}, map : Maps, other : {None}, key : Elements]
Joins == [op : {"Union", "Intersection"}, map : Joined, other : Maps, key : {None}]

LockedInit ==
    /\ wraps \in Defaults
    /\ content \in Contents
    /\ readers = [m \in Maps |-> {}] /\ nested = [m \in Maps |-> {}]
    /\ queued = [m \in Maps |-> {}] /\ writer = [m \in Maps |-> None]
    /\ call \in {c \in [Threads -> Calls \cup Joins] :
                   \A t \in Threads : IF t \in Movers THEN c[t] \in Calls ELSE c[t] \in Joins}
    /\ pc = [t \in Threads |-> "start"]
    /\ result = [t \in Threads |-> {}] /\ left = [t \in Threads |-> {}]
    /\ possible = [t \in Threads |-> {}]

-----------------------------------------------------------------------------
(* sync.RWMutex: a Lock that waits keeps new readers out; the readers that *)
(* wait when it is unlocked are let in before the next writer              *)

Goto(t, l) == pc' = [pc EXCEPT ![t] = l]

RLock(t, m, here, next) ==
    /\ pc[t] = here /\ t \notin queued[m]
    /\ \/ /\ writer[m] = None
          /\ readers' = [readers EXCEPT ![m] = @ \cup {t}]
          /\ nested' = [nested EXCEPT ![m] = IF t \in readers[m] THEN @ \cup {t} ELSE @]
          /\ Goto(t, next) /\ UNCHANGED <<queued, writer>>
       \/ /\ writer[m] # None
          /\ queued' = [queued EXCEPT ![m] = @ \cup {t}]
          /\ UNCHANGED <<readers, nested, writer, pc>>

RUnlock(t, m) ==
    /\ nested' = [nested EXCEPT ![m] = @ \ {t}]
    /\ readers' = [readers EXCEPT ![m] = IF t \in nested[m] THEN @ ELSE @ \ {t}]
    /\ UNCHANGED <<queued, writer>>

Announce(t, m) ==
    /\ pc[t] = "start" /\ writer[m] = None
    /\ writer' = [writer EXCEPT ![m] = t]
    /\ Goto(t, "wait")
    /\ UNCHANGED <<readers, nested, queued>>

Locked(t, m) == writer[m] = t /\ readers[m] = {}

\* Where a thread goes whose RLock has been granted.
After(t) == IF pc[t] = "start" THEN "inside" ELSE "asking"

Unlock(t, m) ==
    /\ writer' = [writer EXCEPT ![m] = None]
    /\ readers' = [readers EXCEPT ![m] = queued[m]]
    /\ queued' = [queued EXCEPT ![m] = {}]
    /\ pc' = [u \in Threads |-> IF u = t THEN "done"
                                ELSE IF u \in queued[m] THEN After(u) ELSE pc[u]]
    /\ UNCHANGED nested

-----------------------------------------------------------------------------
Op(t, ops, m) == call[t].op \in ops /\ m = call[t].map
Rest == <<wraps, call>>

\* What a joiner would return if its whole call took place now.
Now(c, t) ==
    LET x == c[call[t].map] y == c[call[t].other]
        has == IF wraps[call[t].other] THEN y \cup Supplied ELSE y
    IN  IF call[t].op = "Union" THEN x \cup y ELSE x \cap has
Watch(c) ==
    possible' = [t \in Threads |->
                   IF t \in Joiners /\ pc[t] \notin {"start", "done"} THEN possible[t] \cup {Now(c, t)}
                   ELSE possible[t]]

\* Add, AddAll, Remove and Clear: the call of the wrapped container is made
\* under the lock.
Write(t, m) ==
    /\ Op(t, {"Add", "Remove"}, m) /\ pc[t] = "inside"
    /\ content' = [content EXCEPT ![m] = IF call[t].op = "Add" THEN @ \cup {call[t].key}
                                         ELSE @ \ {call[t].key}]
    /\ Watch(content') /\ Unlock(t, m)
    /\ UNCHANGED <<Rest, result, left>>

Lock_x(t, m) ==
    /\ Op(t, {"Add", "Remove"}, m) /\ RLock(t, m, "start", "inside")
    /\ UNCHANGED <<Rest, content, result, left, possible>>
Lock(t, m) ==
    /\ Op(t, {"Add", "Remove"}, m)
    /\ \/ Announce(t, m)
       \/ pc[t] = "wait" /\ Locked(t, m) /\ Goto(t, "inside") /\ UNCHANGED lock
    /\ UNCHANGED <<Rest, content, result, left, possible>>

\* Get, Contains and Size: what is wrapped may add a default, under the read lock.
Adds(m, k) == wraps[m] /\ k \in Supplied /\ k \notin content[m]
Read(t, m) ==
    /\ Op(t, {"Contains"}, m) /\ pc[t] = "inside"
    /\ content' = [content EXCEPT ![m] = IF Adds(m, call[t].key) THEN @ \cup {call[t].key} ELSE @]
    /\ Watch(content') /\ RUnlock(t, m) /\ Goto(t, "done")
    /\ UNCHANGED <<Rest, result, left>>

\* Every other method starts with a read lock of its own container.
Enter(t, m) ==
    /\ Op(t, {"Contains", "Union", "Intersection"}, m) /\ RLock(t, m, "start", "inside")
    /\ UNCHANGED <<Rest, content, result, left, possible>>

\* What is wrapped copies its entries, which nobody changes meanwhile.
Copy(t, m) ==
    /\ t \in Joiners /\ Op(t, {"Union", "Intersection"}, m) /\ pc[t] = "inside"
    /\ result' = [result EXCEPT ![t] = IF call[t].op = "Union" THEN content[m] ELSE {}]
    /\ left' = [left EXCEPT ![t] = IF call[t].op = "Union" THEN {} ELSE content[m]]
    /\ possible' = [possible EXCEPT ![t] = {Now(content, t)}]
    /\ Goto(t, IF call[t].op = "Intersection" /\ content[m] = {} THEN "leaving" ELSE "other")
    /\ UNCHANGED <<Rest, content, lock>>

\* other.Seq, or other.Contains for the next key: with a read lock of its own.
EnterOther(t, o) ==
    /\ t \in Joiners /\ o = call[t].other /\ RLock(t, o, "other", "asking")
    /\ UNCHANGED <<Rest, content, result, left, possible>>

Snapshot(t, o) ==
    /\ Op(t, {"Union"}, call[t].map) /\ o = call[t].other /\ pc[t] = "asking"
    /\ result' = [result EXCEPT ![t] = @ \cup content[o]]
    /\ RUnlock(t, o) /\ Goto(t, "leaving")
    /\ UNCHANGED <<Rest, content, left, possible>>

AskOther_x(t, o) ==
    /\ Op(t, {"Intersection"}, call[t].map) /\ o = call[t].other /\ pc[t] = "asking"
    /\ \E k \in left[t] :
          /\ left' = [left EXCEPT ![t] = @ \ {k}]
          /\ content' = [content EXCEPT ![o] = IF Adds(o, k) THEN @ \cup {k} ELSE @]
          /\ result' = [result EXCEPT ![t] = IF k \in content'[o] THEN @ \cup {k} ELSE @]
          /\ Goto(t, "other")
    /\ Watch(content') /\ RUnlock(t, o)
    /\ UNCHANGED Rest
AskOther(t, o) ==
    /\ Op(t, {"Intersection"}, call[t].map) /\ o = call[t].other /\ pc[t] = "asking"
    /\ \E k \in left[t] :
          /\ left' = [left EXCEPT ![t] = @ \ {k}]
          /\ content' = [content EXCEPT ![o] = IF Adds(o, k) THEN @ \cup {k} ELSE @]
          /\ result' = [result EXCEPT ![t] = IF k \in content'[o] THEN @ \cup {k} ELSE @]
          /\ Goto(t, IF left[t] = {k} THEN "leaving" ELSE "other")
    /\ Watch(content') /\ RUnlock(t, o)
    /\ UNCHANGED Rest

Leave(t, m) ==
    /\ t \in Joiners /\ m = call[t].map /\ pc[t] = "leaving"
    /\ RUnlock(t, m) /\ Goto(t, "done")
    /\ UNCHANGED <<Rest, content, result, left, possible>>

LockedNext ==
    \E t \in Threads, m \in Maps :
       \/ Lock(t, m) \/ Write(t, m)
       \/ Enter(t, m) \/ Read(t, m)
       \/ Copy(t, m) \/ EnterOther(t, m) \/ Snapshot(t, m) \/ AskOther(t, m) \/ Leave(t, m)

LockedSpec == LockedInit /\ [][LockedNext]_lockedVars

-----------------------------------------------------------------------------
(* Safety                                                                  *)

LockedTypeOK ==
    /\ wraps \in [Maps -> BOOLEAN] /\ content \in [Maps -> SUBSET Elements]
    /\ readers \in [Maps -> SUBSET Threads] /\ nested \in [Maps -> SUBSET Threads]
    /\ queued \in [Maps -> SUBSET Threads] /\ writer \in [Maps -> Threads \cup {None}]
    /\ call \in [Threads -> Calls \cup Joins]
    /\ pc \in [Threads -> {"start", "wait", "inside", "other", "asking", "leaving", "done"}]
    /\ result \in [Threads -> SUBSET Elements] /\ left \in [Threads -> SUBSET Elements]
    /\ possible \in [Threads -> SUBSET SUBSET Elements]

\* The threads that are in the code of the container m itself, and those among
\* them that change it.
Inside(m) ==
    {t \in Threads : \/ m = call[t].map /\ pc[t] \in {"inside", "other", "asking", "leaving"}
                     \/ m = call[t].other /\ pc[t] = "asking"}
Changing(m) ==
    {t \in Inside(m) :
        \/ call[t].op \in {"Add", "Remove"}
        \/ call[t].op = "Contains" /\ Adds(m, call[t].key)
        \/ m = call[t].other /\ call[t].op = "Intersection" /\ \E k \in left[t] : Adds(m, k)}

\* "allowing multiple simultaneous readers or a single exclusive writer": whoever
\* changes what is wrapped is alone there, unless that supplies defaults: then
\* even Get and Contains change it, under a read lock.
OneWriter(m) == Changing(m) # {} => Cardinality(Inside(m)) = 1
WritersAreAlone == \A m \in Maps : ~wraps[m] => OneWriter(m)

\* A Union is what one moment of the call would give, though the containers are
\* locked one after the other; an Intersection asks key by key, and returns at
\* most what some moments would give together.
JoinsAreTrue ==
    \A t \in Joiners : pc[t] \in {"leaving", "done"} /\ ~wraps[call[t].map] =>
       \/ call[t].op = "Union" /\ result[t] \in possible[t]
       \/ call[t].op = "Intersection" /\ result[t] \subseteq UNION possible[t]

\* A thread that can do nothing, because it has returned or another one has a lock.
Waits(t) ==
    \/ pc[t] = "done"
    \/ \E m \in Maps : t \in queued[m]
    \/ call[t].op \in {"Add", "Remove"} /\ pc[t] = "start" /\ writer[call[t].map] # None
    \/ pc[t] = "wait" /\ readers[call[t].map] # {}

\* Nobody is stuck, unless a Union or Intersection waits for a second read lock
\* with one in its hands: a writer that came in between waits for the first one.
NobodyIsStuck ==
    \/ \E t \in Threads : ~Waits(t)
    \/ \A t \in Threads : pc[t] = "done"
    \/ \E t \in Joiners : pc[t] = "other" /\ t \in queued[call[t].other]

LockedIsTrue == LockedTypeOK /\ WritersAreAlone /\ JoinsAreTrue /\ NobodyIsStuck

\* Whoever does not wait for a lock goes on: no other step of a call can fail to come.
NobodyElseWaits == (ENABLED LockedNext) <=> \E t \in Threads : ~Waits(t)

=============================================================================
