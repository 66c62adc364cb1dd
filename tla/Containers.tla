----------------------------- MODULE Containers -----------------------------
(***************************************************************************)
(* The hash maps and hash sets of maps/ and set/, plain and ordered, the   *)
(* wrappers that give a missing key a default, and an iteration whose body *)
(* changes the container.                                                  *)
(*                                                                         *)
(* Two containers of one kind, "a" and "b", that share the hash function;  *)
(* the calls that make a new container put it in the place of one of them. *)
(* A slice of keys is a sequence: what the array behind it still holds     *)
(* past its end is kept only for an iteration that can see it.             *)
(***************************************************************************)
EXTENDS Naturals, Sequences, FiniteSets, TLC

CONSTANTS
    Keys, Values, Kinds,
    Hash,            \* the hash of each key; several keys may have the same
    Unhashable,      \* the keys whose UpdateHash fails
    DefaultOf,       \* what getDefaultValue returns for a key: NoDefault, or the
                     \* element it supplies (a map gets DefaultValue for the key itself)
    DefaultValue, NoDefault, None,
    Renames, Filters,
    Wrappings,       \* the values of default to begin with
    MaxOther,        \* a bound: the keys that "b" is given
    MaxCalls         \* a bound: the calls in the body of an iteration

SE == INSTANCE SequencesExt

Boxes == {"a", "b"}
Hashes == {Hash[k] : k \in Keys}

VARIABLES
    kind,      \* "map", "omap", "set" or "oset"
    default,   \* of each container: whether it is wrapped in a default map or set
    data,      \* data or elements, of each container: the entry under each hash
    order,     \* orderedKeys or order
    ret,       \* the last call, with what it returned; no step depends on it
    loop       \* the iteration over "a" that is under way

vars == <<kind, default, data, order, ret, loop>>

isSet == kind \in {"set", "oset"}
ordered == kind \in {"omap", "oset"}

Box(b) == [data |-> data[b], order |-> order[b]]
Empty == [data |-> [h \in Hashes |-> None], order |-> <<>>]
Entry(k, v) == [key |-> k, value |-> v]

Init ==
    /\ kind \in Kinds
    /\ default \in Wrappings
    /\ data = [b \in Boxes |-> Empty.data]
    /\ order = [b \in Boxes |-> <<>>]
    /\ ret = <<>>
    /\ loop = None

-----------------------------------------------------------------------------
(* One container: each method returns the box it leaves and its results    *)

Collision(t, k) == LET prev == t.data[Hash[k]] IN prev # None /\ prev.key # k
Fails(t, k) == k \in Unhashable \/ Collision(t, k)
Free(t, k) == t.data[Hash[k]] = None

KeySeq(s) == [i \in DOMAIN s |-> s[i].key]

Done(t) == [box |-> t, err |-> FALSE]
Failed(t) == [box |-> t, err |-> TRUE]

HashMapAdd(t, k, v) ==
    IF Fails(t, k) THEN Failed(t) ELSE Done([t EXCEPT !.data[Hash[k]] = Entry(k, v)])

OrderedHashMapAdd_x(t, k, v) ==
    IF Fails(t, k) THEN Failed(t)
    ELSE Done([data |-> [t.data EXCEPT ![Hash[k]] = Entry(k, v)], order |-> Append(t.order, k)])
OrderedHashMapAdd(t, k, v) ==
    IF Fails(t, k) THEN Failed(t)
    ELSE Done([data |-> [t.data EXCEPT ![Hash[k]] = Entry(k, v)],
               order |-> IF Free(t, k) THEN Append(t.order, k) ELSE t.order])

\* An element that is there stays what it is.
SetAdd(t, k) ==
    IF Fails(t, k) THEN Failed(t)
    ELSE IF ~Free(t, k) THEN Done(t)
    ELSE Done([t EXCEPT !.data[Hash[k]] = Entry(k, DefaultValue)])

OrderedSetAdd(t, k) ==
    IF Fails(t, k) THEN Failed(t)
    ELSE IF ~Free(t, k) THEN Done(t)
    ELSE Done([SetAdd(t, k).box EXCEPT !.order = Append(@, k)])

AddTo(t, k, v) ==
    CASE kind = "map" -> HashMapAdd(t, k, v)
      [] kind = "omap" -> OrderedHashMapAdd(t, k, v)
      [] kind = "set" -> SetAdd(t, k)
      [] kind = "oset" -> OrderedSetAdd(t, k)

HashMapRemove_x(t, k) ==
    IF k \in Unhashable THEN Failed(t) ELSE Done([t EXCEPT !.data[Hash[k]] = None])
HashMapRemove(t, k) ==
    IF Fails(t, k) THEN Failed(t) ELSE Done([t EXCEPT !.data[Hash[k]] = None])

OrderedHashMapRemove(t, k) ==
    IF Fails(t, k) THEN Failed(t)
    ELSE Done([data |-> [t.data EXCEPT ![Hash[k]] = None],
               order |-> IF Free(t, k) THEN t.order ELSE SE!RemoveFirst(t.order, k)])

\* A collision is no error here.
SetRemove(t, k) ==
    CASE k \in Unhashable -> Failed(t)
      [] k \notin Unhashable /\ Collision(t, k) -> Done(t)
      [] OTHER -> Done([t EXCEPT !.data[Hash[k]] = None])

OrderedSetRemove(t, k) ==
    IF Fails(t, k) THEN Failed(t)
    ELSE IF Free(t, k) THEN Done(t)
    ELSE Done([SetRemove(t, k).box EXCEPT !.order = SelectSeq(@, LAMBDA j : j # k)])

RemoveFrom(t, k) ==
    CASE kind = "map" -> HashMapRemove(t, k)
      [] kind = "omap" -> OrderedHashMapRemove(t, k)
      [] kind = "set" -> SetRemove(t, k)
      [] kind = "oset" -> OrderedSetRemove(t, k)

\* addDefaultForKey and addDefaultForElement.
AddDefault(t, k) ==
    LET e == IF isSet THEN DefaultOf[k] ELSE k
        r == AddTo(t, e, DefaultValue)
    IN  IF DefaultOf[k] = NoDefault THEN [box |-> t, err |-> FALSE, value |-> None]
        ELSE [box |-> r.box, err |-> r.err, value |-> IF r.err THEN None ELSE DefaultValue]

\* Get and Contains of a container that is wrapped or not; value is None if the
\* key was not found.
Lookup(t, wrapped, k) ==
    IF Fails(t, k) THEN [box |-> t, err |-> TRUE, value |-> None]
    ELSE IF ~Free(t, k) THEN [box |-> t, err |-> FALSE, value |-> t.data[Hash[k]].value]
    ELSE IF wrapped THEN AddDefault(t, k)
    ELSE [box |-> t, err |-> FALSE, value |-> None]

\* The orders in which Seq may yield the entries: that of the slice, or any.
Walks(t) ==
    IF ordered THEN {[i \in DOMAIN t.order |-> t.data[Hash[t.order[i]]]]}
    ELSE SE!SetToSeqs({t.data[h] : h \in Hashes} \ {None})

\* The entries of one box do not clash: where they are only added to an empty
\* one, any order will do.
Walk(t) == CHOOSE w \in Walks(t) : TRUE

\* The entries of a sequence are added one by one, until an Add fails ...
AddUntilError(t, entries) ==
    SE!FoldLeft(LAMBDA r, e : IF r.err THEN r ELSE AddTo(r.box, e.key, e.value),
                Done(t), entries)
\* ... or with the errors ignored.
AddAndIgnore(t, entries) ==
    SE!FoldLeft(LAMBDA r, e : AddTo(r, e.key, e.value).box, t, entries)

-----------------------------------------------------------------------------
(* An iteration, with a body that may call the container                   *)

\* The array that the iteration reads, after the slice has become new in place.
Overlay(cells, new) == [i \in DOMAIN cells |-> IF i <= Len(new) THEN new[i] ELSE cells[i]]

\* The iteration after "a" got the slice new; fresh if that has an array of its own.
Track(new, fresh, removed) ==
    IF loop = None THEN None
    ELSE [loop EXCEPT !.live = @ /\ ~fresh,
                      !.cells = IF loop.live /\ ~fresh THEN Overlay(@, new) ELSE @,
                      !.cut = @ \/ removed, !.calls = @ + 1]

\* Whether append may find that the array is full.  How far it reaches past the
\* cells of the iteration is not known.
MayGrow(b) == loop # None /\ b = "a" /\ Len(order["a"]) >= Len(loop.cells)

\* Seq.  The wrapper of maps/thread_safe.go copies the entries first; the others
\* range over the slice as it is now, of the array as it will be.  An iteration
\* over a Go map is not modelled.
LoopBegins(safe) ==
    /\ loop = None
    /\ safe \/ ordered
    /\ Box("b") = Empty /\ default = [b \in Boxes |-> FALSE]    \* a bound: no other part is tried
    /\ \E w \in Walks(Box("a")) :
          loop' = [safe |-> safe, live |-> ~safe, start |-> w, i |-> 1, seen |-> <<>>,
                   cells |-> KeySeq(w), cut |-> FALSE, calls |-> 0]
    /\ UNCHANGED <<kind, default, data, order, ret>>

\* An ordered map looks the key up, and skips it if there is nothing under its
\* hash; an ordered set yields the element of the slice.
LoopSteps ==
    /\ loop # None /\ loop.i \in DOMAIN loop.cells
    /\ LET cell == loop.cells[loop.i]
           entry == IF loop.safe THEN loop.start[loop.i]
                    ELSE IF isSet THEN Entry(cell, DefaultValue)
                    ELSE data["a"][Hash[cell]]
       IN  loop' = [loop EXCEPT !.i = @ + 1,
                                !.seen = IF entry = None THEN @ ELSE Append(@, entry)]
    /\ UNCHANGED <<kind, default, data, order, ret>>

LoopEnds ==
    /\ loop # None
    /\ loop' = None
    /\ UNCHANGED <<kind, default, data, order, ret>>

-----------------------------------------------------------------------------
(* The calls                                                               *)

\* The call of op, of the box b with the arguments x, has returned r.
Return(op, b, x, r) == ret' = <<op, b>> \o x \o <<r>>
Outcome(r) == IF r.err THEN "error" ELSE "ok"

Becomes(b, t) ==
    /\ data' = [data EXCEPT ![b] = t.data]
    /\ order' = [order EXCEPT ![b] = t.order]
    /\ UNCHANGED <<kind, default>>

\* The call made b the box t, by appending to its slice or by leaving that alone.
Appends(b, t) ==
    /\ Becomes(b, t)
    /\ \E fresh \in BOOLEAN :
          /\ fresh => MayGrow(b) /\ t.order # order[b]
          /\ loop' = IF b = "a" THEN Track(t.order, fresh, FALSE) ELSE loop

\* While an iteration runs its body calls "a", a few times; "b" is given few keys.
KeysOf(t) == {t.data[h].key : h \in {i \in Hashes : t.data[i] # None}}
Idle(b) == IF loop = None THEN TRUE ELSE b = "a" /\ loop.calls < MaxCalls
Callable(b) == Idle(b) /\ (b = "b" => Cardinality(KeysOf(Box("b"))) < MaxOther)

Add(b, k, v) ==
    LET r == AddTo(Box(b), k, v)
    IN  Callable(b) /\ Appends(b, r.box) /\ Return("Add", b, <<k, v>>, Outcome(r))

\* The slice of an ordered map is shifted in place, that of an ordered set copied.
Remove_x(b, k) ==
    LET r == RemoveFrom(Box(b), k)
    IN  /\ Callable(b) /\ Becomes(b, r.box) /\ Return("Remove", b, <<k>>, Outcome(r))
        /\ loop' = IF b = "a" /\ r.box # Box("a") THEN Track(r.box.order, FALSE, TRUE) ELSE loop
Remove(b, k) ==
    LET r == RemoveFrom(Box(b), k)
    IN  /\ Callable(b) /\ Becomes(b, r.box) /\ Return("Remove", b, <<k>>, Outcome(r))
        /\ loop' = IF b = "a" /\ r.box # Box("a") THEN Track(r.box.order, isSet, TRUE) ELSE loop

Clear(b) ==
    /\ Idle(b)
    /\ Becomes(b, Empty) /\ Return("Clear", b, <<>>, "ok")
    /\ loop' = IF b = "a" THEN Track(<<>>, TRUE, TRUE) ELSE loop

Answer(r, yes) == IF r.err THEN "error" ELSE IF r.value = None THEN "no" ELSE yes

Get(b, k) ==
    LET r == Lookup(Box(b), default[b], k)
    IN  /\ ~isSet /\ Callable(b) /\ Appends(b, r.box)
        /\ Return("Get", b, <<k>>, Answer(r, r.value))

Contains(b, k) ==
    LET r == Lookup(Box(b), default[b], k)
    IN  /\ Callable(b) /\ Appends(b, r.box)
        /\ Return("Contains", b, <<k>>, Answer(r, "yes"))

Makes(t) == loop = None /\ Becomes("a", t) /\ UNCHANGED loop

Union ==
    \E w \in Walks(Box("b")) :
       LET r == AddUntilError(Empty, Walk(Box("a")) \o w)
       IN  Makes(IF r.err THEN Box("a") ELSE r.box) /\ Return("Union", "a", <<>>, Outcome(r))

\* The other container is asked for each key, which may give it the key.
Intersection ==
    \E w \in Walks(Box("a")) :
       LET Meet(r, e) ==
             LET c == Lookup(r.other, default["b"], e.key)
             IN  IF r.err THEN r
                 ELSE [box |-> IF c.err \/ c.value = None THEN r.box
                               ELSE AddTo(r.box, e.key, e.value).box,
                       other |-> c.box, err |-> c.err]
           r == SE!FoldLeft(Meet, [box |-> Empty, other |-> Box("b"), err |-> FALSE], w)
           mine == IF r.err THEN Box("a") ELSE r.box
       IN  /\ loop = None
           /\ data' = [b \in Boxes |-> IF b = "a" THEN mine.data ELSE r.other.data]
           /\ order' = [b \in Boxes |-> IF b = "a" THEN mine.order ELSE r.other.order]
           /\ Return("Intersection", "a", <<>>, Outcome(r))
           /\ UNCHANGED <<kind, default, loop>>

\* Filter, and FilterNot of the complement.
Filter ==
    \E S \in Filters :
       /\ Makes(AddAndIgnore(Empty, SelectSeq(Walk(Box("a")), LAMBDA e : e.key \in S)))
       /\ Return("Filter", "a", <<S>>, "ok")

\* Map of a map, and FlatMap to maps of one entry, with a function that renames.
Map ==
    \E f \in Renames, w \in Walks(Box("a")) :
       /\ ~isSet
       /\ Makes(AddAndIgnore(Empty, [i \in DOMAIN w |-> Entry(f[w[i].key], w[i].value)]))
       /\ Return("Map", "a", <<f>>, "ok")

Clone ==
    LET w == Walk(Box("a"))
    IN  /\ loop = None /\ Len(w) <= MaxOther
        /\ Becomes("b", AddAndIgnore(Empty, w)) /\ UNCHANGED loop
        /\ Return("Clone", "a", <<>>, "ok")

Next ==
    \/ \E b \in Boxes, k \in Keys :
          \/ Remove(b, k) \/ Get(b, k) \/ Contains(b, k)
          \/ \E v \in (IF isSet THEN {DefaultValue} ELSE Values) : Add(b, k, v)
    \/ \E b \in Boxes : Clear(b)
    \/ Union \/ Intersection \/ Filter \/ Map \/ Clone
    \/ \E safe \in BOOLEAN : LoopBegins(safe)
    \/ LoopSteps \/ LoopEnds

Spec == Init /\ [][Next]_vars

-----------------------------------------------------------------------------
(* Safety                                                                  *)

Content(b) == {data[b][h] : h \in Hashes} \ {None}

TypeOK ==
    /\ kind \in Kinds /\ default \in Wrappings
    /\ data \in [Boxes -> [Hashes -> {None} \cup [key : Keys, value : Values \cup {DefaultValue}]]]
    /\ \A b \in Boxes : order[b] \in Seq(Keys)

\* An entry is under the hash of its key, and the slice of an ordered container
\* holds the keys of the entries, each of them once.
IndexesAgree ==
    /\ TypeOK
    /\ \A b \in Boxes :
          /\ \A h \in Hashes : data[b][h] # None => Hash[data[b][h].key] = h
          /\ ~ordered => order[b] = <<>>
          /\ ordered => SE!ToSet(order[b]) = KeysOf(Box(b))
          /\ \A i, j \in DOMAIN order[b] : i # j => order[b][i] # order[b][j]

\* What an iteration yields.  One over a thread-safe map sees what was there when
\* it began, whatever is done to the map, and so does one over an ordered set.  One
\* over an ordered map yields the keys that were there, in their order, unless its
\* body removes a key: the others move to the left under it then.
LoopsAreTrue ==
    loop # None =>
    LET past == SubSeq(loop.start, 1, loop.i - 1)
    IN  /\ loop.safe => loop.seen = past
        /\ isSet \/ ~loop.cut => KeySeq(loop.seen) = KeySeq(past)

\* The containers are dictionaries: a hash function that is not injective makes
\* them refuse a key, and never lose or confuse one; the slice is the order in
\* which the keys were added; a default is made for a missing key only.
Held(b) == [k \in KeysOf(Box(b)) |-> data[b][Hash[k]].value]
Clash(j, k) == j # k /\ Hash[j] = Hash[k]
InsertsOf(b, k) ==
    IF ~default[b] \/ DefaultOf[k] = NoDefault THEN {}
    ELSE {Entry(IF isSet THEN DefaultOf[k] ELSE k, DefaultValue)}
D == INSTANCE Dictionary WITH
       held <- [b \in Boxes |-> Held(b)], line <- order, Invalid <- Unhashable,
       Values <- Values \cup {DefaultValue}, lax <- kind = "set",
       inserts <- [b \in Boxes |-> [k \in Keys |-> InsertsOf(b, k)]]
ImplementsDictionary == D!Spec

=============================================================================
