------------------------------ MODULE Wrappers ------------------------------
(***************************************************************************)
(* Hash maps and sets, plain and ordered, in layers of wrappers: those     *)
(* that lock and those that supply defaults, in any order.  A call goes    *)
(* through the layers, one after the other, down to the container; a call  *)
(* that takes a function calls it back for the entries, and that function  *)
(* may call the container it was given to, from the outermost layer.       *)
(*                                                                         *)
(* A container is the set of its keys.  What each wrapper does with each   *)
(* method is a table per type; what the values are is left to Containers,  *)
(* and calls that join two containers to Locked.                           *)
(***************************************************************************)
EXTENDS Naturals, Sequences, FiniteSets

CONSTANTS
    Stored,     \* the keys
    Defaulted,  \* those for which a default container has an entry
    Nobody,
    Wishes,     \* sequences of the wrappers that are put on a container, the last one outermost
    Callers,
    CallsOf     \* of each caller: the calls it may make

Nothing == {}

\* Calls that take no function, and calls that do.  A function that is called back
\* makes one of the first, if it calls the container at all: that bounds the depth
\* of the calls.
PlainMethods == {"Add", "Remove", "Contains", "Clone", "Entries"}
Callbacks == {"ForEach", "Filter", "FilterNot", "Map", "FlatMap", "Seq", "ForAll", "Exists", "FindFirst"}
Methods == PlainMethods \cup Callbacks

ASSUME WrappersAssumption ==
    /\ Nobody \notin Callers
    /\ \A w \in Wishes : w \in Seq({"safe", "default"})
    /\ \A t \in Callers : CallsOf[t] \in SUBSET [m : Methods, key : Stored, back : PlainMethods \cup {"none"}]

-----------------------------------------------------------------------------
(* The tables.  A wrapper that locks: the methods that take the write lock *)
(* and those that hold the read lock until they return, ...                *)

SafeMapCalls ==
    [write |-> {"Add", "Remove", "Clear"},
     read |-> {"Get", "GetOrElse", "Contains", "Size", "Entries", "Clone", "Keys"},
     copy |-> {"Seq"}, again |-> {"Clone"}]
SafeOrderedMapCalls == SafeMapCalls

\* ... those that copy the entries with the read lock and then call the function
\* without it, and those whose result is wrapped again.
SafeMapCallbacks_x ==
    [copy |-> {"ForAll", "Exists", "FindFirst"},
     read |-> {"Filter", "FilterNot", "Map", "FlatMap", "ForEach"},
     again |-> {"Filter", "FilterNot", "Map", "FlatMap"}]
SafeMapCallbacks ==
    [copy |-> {"ForEach", "ForAll", "Exists", "FindFirst"},
     read |-> {"Filter", "FilterNot", "Map", "FlatMap"},
     again |-> {"Filter", "FilterNot", "Map", "FlatMap"}]
SafeOrderedMapCallbacks == SafeMapCallbacks
SafeSet ==
    [write |-> {"Add", "AddAll", "Remove", "Clear"},
     read |-> {"Contains", "Size", "Entries", "Clone", "Filter", "FilterNot"},
     copy |-> {"Seq"}, again |-> {"Clone", "Filter", "FilterNot"}]
SafeOrderedSet == SafeSet

\* A wrapper that supplies defaults: the methods that ask for a key and may add
\* it, those it does itself by other methods, and those it wraps the result of.
DefaultMapCalls == [ask |-> {"Get", "GetOrElse", "Contains"}, own |-> Nothing, again |-> {"Clone"}]
DefaultMapCallbacks == [own |-> Nothing, again |-> {"Filter", "FilterNot", "Map", "FlatMap"}]
DefaultOrderedMapCalls == DefaultMapCalls
DefaultOrderedMapCallbacks == DefaultMapCallbacks
DefaultSet == [ask |-> {"Contains"}, own |-> {"Filter", "FilterNot"}, again |-> {"Clone"}]
DefaultOrderedSet == DefaultSet

\* What is wrapped: the methods that call a function for every entry, and those
\* that stop when it says so.
HashMapCallbacks ==
    [all |-> {"ForEach", "Filter", "FilterNot", "Map", "FlatMap"},
     some |-> {"Seq", "ForAll", "Exists", "FindFirst"}]
OrderedHashMapCallbacks == HashMapCallbacks
SetCallbacks == [all |-> {"Filter", "FilterNot"}, some |-> {"Seq"}]
OrderedSetCallbacks == SetCallbacks

Safe(kind) ==
    LET both(c, d) == [write |-> c.write, read |-> c.read \cup d.read, copy |-> c.copy \cup d.copy,
                       again |-> c.again \cup d.again]
    IN  CASE kind = "map" -> both(SafeMapCalls, SafeMapCallbacks)
          [] kind = "omap" -> both(SafeOrderedMapCalls, SafeOrderedMapCallbacks)
          [] kind = "set" -> SafeSet
          [] kind = "oset" -> SafeOrderedSet
Default(kind) ==
    LET both(c, d) == [ask |-> c.ask, own |-> c.own \cup d.own, again |-> c.again \cup d.again]
    IN  CASE kind = "map" -> both(DefaultMapCalls, DefaultMapCallbacks)
          [] kind = "omap" -> both(DefaultOrderedMapCalls, DefaultOrderedMapCallbacks)
          [] kind = "set" -> DefaultSet
          [] kind = "oset" -> DefaultOrderedSet
Base(kind) ==
    CASE kind = "map" -> HashMapCallbacks
      [] kind = "omap" -> OrderedHashMapCallbacks
      [] kind = "set" -> SetCallbacks
      [] kind = "oset" -> OrderedSetCallbacks

\* What is thread-safe is not wrapped again.  A default map on another one takes
\* its place, with a copy of the entries; default sets are stacked.
NewThreadSafe(s) == IF s # <<>> /\ Head(s) = "safe" THEN s ELSE <<"safe">> \o s
NewDefault(kind, s) ==
    IF kind \in {"map", "omap"} /\ s # <<>> /\ Head(s) = "default" THEN s ELSE <<"default">> \o s
Wrap(kind, w, s) == IF w = "safe" THEN NewThreadSafe(s) ELSE NewDefault(kind, s)
Build(kind, wish) ==
    LET s[i \in 0 .. Len(wish)] == IF i = 0 THEN <<>> ELSE Wrap(kind, wish[i], s[i - 1])
    IN  s[Len(wish)]

-----------------------------------------------------------------------------
VARIABLES
    sort,       \* "map", "omap", "set" or "oset"
    stack,      \* the layers, outermost first
    inside,     \* the keys in the container
    reading,    \* of each layer: how many read locks each caller holds
    writing,    \* of each layer: the caller that has the lock or waits for it, or Nobody
    calls,      \* of each caller: [m, key, back], back the method its function calls
    frames      \* of each caller: the calls that are under way, innermost last

wrapperVars == <<sort, stack, inside, reading, writing, calls, frames>>
shape == <<sort, stack, calls>>
locks == <<reading, writing>>

Frame(m, l, k) == [m |-> m, l |-> l, key |-> k, at |-> "enter", found |-> FALSE, todo |-> {}]
Bottom == Len(stack) + 1
Takes(m) == m \in Base(sort).all \cup Base(sort).some

WrappersInit ==
    /\ sort \in {"map", "omap", "set", "oset"}
    /\ stack \in {Build(sort, w) : w \in Wishes}
    /\ inside \in {{}, Stored \ Defaulted}
    /\ reading = [l \in 1 .. Len(stack) |-> [t \in Callers |-> 0]]
    /\ writing = [l \in 1 .. Len(stack) |-> Nobody]
    /\ \E f \in [Callers -> UNION {CallsOf[t] : t \in Callers}] :
          /\ \A t \in Callers : f[t] \in CallsOf[t]
          /\ \A t \in Callers : f[t].back # "none" => Takes(f[t].m)
          /\ \A t \in Callers : f[t].m \in PlainMethods \/ Takes(f[t].m)
          /\ calls = f
    /\ frames = [t \in Callers |-> <<Frame(calls[t].m, 1, calls[t].key)>>]

-----------------------------------------------------------------------------
(* Frames                                                                  *)

Running(t) == frames[t] # <<>>
Top(t) == frames[t][Len(frames[t])]
Layer(f) == IF f.l = Bottom THEN "base" ELSE stack[f.l]
Is(t, layer, at) == Running(t) /\ Layer(Top(t)) = layer /\ Top(t).at = at
Method(t) == Top(t).m

SetTop(t, f) == frames' = [frames EXCEPT ![t][Len(frames[t])] = f]
Push(t, f, g) == frames' = [frames EXCEPT ![t] = Append([@ EXCEPT ![Len(@)] = f], g)]
\* The innermost call returns found, or the entries that the one before it copies.
Return(t, found, entries) ==
    LET n == Len(frames[t])
        below == frames[t][n - 1]
        told == [below EXCEPT !.found = found,
                              !.todo = IF below.m = "Entries" \/ below.at = "copied" THEN entries ELSE @]
    IN  frames' = [frames EXCEPT ![t] = IF n = 1 THEN <<>>
                                        ELSE Append(SubSeq(@, 1, n - 2), told)]

Down(f, m) == Frame(m, f.l + 1, f.key)
At(f, at) == [f EXCEPT !.at = at]

-----------------------------------------------------------------------------
(* The layers that lock                                                    *)

\* A Lock that waits keeps new readers out.
LayerRLock(t, l) ==
    /\ writing[l] = Nobody
    /\ reading' = [reading EXCEPT ![l][t] = @ + 1]
    /\ UNCHANGED writing
LayerRUnlock(t, l) == reading' = [reading EXCEPT ![l][t] = @ - 1] /\ UNCHANGED writing

Writes(f) == f.m \in Safe(sort).write
Copies(f) == f.m \in Safe(sort).copy

LayerAnnounce(t) ==
    LET f == Top(t)
    IN  /\ Is(t, "safe", "enter") /\ Writes(f) /\ writing[f.l] = Nobody
        /\ writing' = [writing EXCEPT ![f.l] = t]
        /\ SetTop(t, At(f, "lock"))
        /\ UNCHANGED <<shape, inside, reading>>

LayerLock(t) ==
    LET f == Top(t)
    IN  /\ Is(t, "safe", "lock") /\ \A u \in Callers : reading[f.l][u] = 0
        /\ Push(t, At(f, "unlock"), Down(f, f.m))
        /\ UNCHANGED <<shape, inside, locks>>

LayerUnlock(t) ==
    LET f == Top(t)
    IN  /\ Is(t, "safe", "unlock")
        /\ writing' = [writing EXCEPT ![f.l] = Nobody]
        /\ Return(t, f.found, f.todo)
        /\ UNCHANGED <<shape, inside, reading>>

LayerRead(t) ==
    LET f == Top(t)
    IN  /\ Is(t, "safe", "enter") /\ ~Writes(f) /\ LayerRLock(t, f.l)
        /\ Push(t, At(f, IF Copies(f) THEN "copied" ELSE "runlock"),
                Down(f, IF Copies(f) THEN "Entries" ELSE f.m))
        /\ UNCHANGED <<shape, inside>>

ReadEnds(t) ==
    LET f == Top(t)
    IN  /\ Is(t, "safe", "runlock") /\ LayerRUnlock(t, f.l)
        /\ Return(t, f.found, f.todo)
        /\ UNCHANGED <<shape, inside>>

\* What was copied is visited without the lock.
Copied(t) ==
    LET f == Top(t)
    IN  /\ Is(t, "safe", "copied") /\ LayerRUnlock(t, f.l)
        /\ SetTop(t, At(f, "visit"))
        /\ UNCHANGED <<shape, inside>>

-----------------------------------------------------------------------------
(* The layers that supply defaults                                         *)

Asks(f) == f.m \in Default(sort).ask
Owns(f) == f.m \in Default(sort).own

Pass(t) ==
    LET f == Top(t)
    IN  /\ Is(t, "default", "enter") /\ ~Owns(f)
        /\ Push(t, At(f, IF Asks(f) THEN "asked" ELSE "passed"), Down(f, f.m))
        /\ UNCHANGED <<shape, inside, locks>>

\* addDefaultForKey, addDefaultForElement.
Asked(t) ==
    LET f == Top(t)
    IN  /\ Is(t, "default", "asked")
        /\ IF f.found \/ f.key \notin Defaulted THEN Return(t, f.found, f.todo)
           ELSE Push(t, At(f, "added"), Down(f, "Add"))
        /\ UNCHANGED <<shape, inside, locks>>

\* Filter of a default set: it makes a copy, empties that, and ranges over Seq.
Own(t) ==
    LET f == Top(t)
    IN  /\ \/ Is(t, "default", "enter") /\ Owns(f) /\ Push(t, At(f, "cloned"), Down(f, "Clone"))
           \/ Is(t, "default", "cloned") /\ Push(t, At(f, "passed"), Down(f, "Seq"))
        /\ UNCHANGED <<shape, inside, locks>>

Passed(t) ==
    LET f == Top(t)
    IN  /\ Is(t, "default", "passed") \/ Is(t, "default", "added")
        /\ Return(t, f.found \/ f.at = "added", f.todo)
        /\ UNCHANGED <<shape, inside, locks>>

-----------------------------------------------------------------------------
(* The container, and functions that are called back                       *)

Do(t) ==
    LET f == Top(t)
    IN  /\ Is(t, "base", "enter") /\ ~Takes(f.m)
        /\ inside' = CASE f.m = "Add" -> inside \cup {f.key}
                        [] f.m = "Remove" -> inside \ {f.key}
                        [] OTHER -> inside
        /\ Return(t, f.key \in inside, inside)
        /\ UNCHANGED <<shape, locks>>

Loop(t) ==
    /\ Is(t, "base", "enter") /\ Takes(Method(t))
    /\ SetTop(t, [At(Top(t), "visit") EXCEPT !.todo = inside])
    /\ UNCHANGED <<shape, inside, locks>>

\* The next entry: the container skips those that have gone since.
Visit(t) ==
    LET f == Top(t)
        here == IF Layer(f) = "base" THEN f.todo \cap inside ELSE f.todo
    IN  /\ Running(t) /\ f.at = "visit"
        /\ \E k \in here :
              LET g == [f EXCEPT !.todo = here \ {k}]
              IN  IF calls[t].back = "none" THEN SetTop(t, g)
                  ELSE Push(t, g, Frame(calls[t].back, 1, calls[t].key))
        /\ UNCHANGED <<shape, inside, locks>>

VisitEnds(t) ==
    LET f == Top(t)
        here == IF Layer(f) = "base" THEN f.todo \cap inside ELSE f.todo
    IN  /\ Running(t) /\ f.at = "visit"
        /\ here = {} \/ f.m \in Base(sort).some
        /\ Return(t, FALSE, {})
        /\ UNCHANGED <<shape, inside, locks>>

Step(t) ==
    \/ LayerAnnounce(t) \/ LayerLock(t) \/ LayerUnlock(t) \/ LayerRead(t) \/ ReadEnds(t) \/ Copied(t)
    \/ Pass(t) \/ Asked(t) \/ Own(t) \/ Passed(t)
    \/ Do(t) \/ Loop(t) \/ Visit(t) \/ VisitEnds(t)

WrappersNext == \E t \in Callers : Step(t)
WrappersSpec == WrappersInit /\ [][WrappersNext]_wrapperVars

-----------------------------------------------------------------------------
(* Properties                                                              *)

\* Who waits for a lock: one that others hold or, to write, wait for.
IsWaiting(t) ==
    \/ Is(t, "safe", "enter") /\ writing[Top(t).l] # Nobody
    \/ Is(t, "safe", "lock") /\ \E u \in Callers : reading[Top(t).l][u] # 0

\* Callers wait for locks only: as long as one that runs waits for none, there is a step.
OthersGoOn == (ENABLED WrappersNext) <=> \E t \in Callers : Running(t) /\ ~IsWaiting(t)

HoldsLock(t) == \E l \in DOMAIN reading : reading[l][t] > 0
InCallback(t) == \E i \in 2 .. Len(frames[t]) : frames[t][i].l = 1
DefaultSetOnTop == sort \in {"set", "oset"} /\ stack # <<>> /\ stack[1] = "default"

\* Callers do not all wait, unless the function of a Filter, a FilterNot, a Map
\* or a FlatMap calls the container, which still has the read lock then: those
\* of ForEach, ForAll, Exists and FindFirst, and the body of a range over Seq,
\* may call whatever they like, through any layers; so may that of a Filter of
\* a default set that is on top of the lock.
NoCallerIsStuck ==
    \/ \E t \in Callers : Running(t) /\ ~IsWaiting(t)
    \/ \A t \in Callers : ~Running(t)
    \/ \E t \in Callers :
          /\ calls[t].m \in {"Filter", "FilterNot", "Map", "FlatMap"}
          /\ InCallback(t) /\ HoldsLock(t) /\ ~DefaultSetOnTop

\* Under a lock that supplies nothing itself whoever changes the container is
\* alone there, although a layer above the lock makes one call into two.
InBase(t) == \E i \in DOMAIN frames[t] : frames[t][i].l = Bottom
Changes(t) == \E i \in DOMAIN frames[t] :
                 frames[t][i].l = Bottom /\ frames[t][i].m \in {"Add", "Remove"}
LocksLast == stack # <<>> /\ stack[Len(stack)] = "safe"
ChangersAreAlone ==
    LocksLast => \A t, u \in Callers : t # u /\ Changes(t) => ~InBase(u)

\* The containers that a call makes are wrapped as the one it was made of: what
\* is filtered out of a thread-safe or a default container is one, too.
Again(l, m) == IF stack[l] = "safe" THEN m \in Safe(sort).again
               ELSE m \in Default(sort).again \cup Default(sort).own
Result(m) ==
    LET s[l \in 1 .. Bottom] == IF l = Bottom THEN <<>>
                                ELSE IF Again(l, m) THEN <<stack[l]>> \o s[l + 1] ELSE s[l + 1]
    IN  s[1]
WrapsAreKept ==
    \A m \in {"Clone", "Filter", "FilterNot"}
             \cup (IF sort \in {"map", "omap"} THEN {"Map", "FlatMap"} ELSE {}) : Result(m) = stack

WrappersAreTrue == NoCallerIsStuck /\ ChangersAreAlone /\ WrapsAreKept

=============================================================================
