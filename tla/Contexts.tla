------------------------------ MODULE Contexts ------------------------------
(***************************************************************************)
(* contexts/ and what rests on it: contexts that are done when both their  *)
(* parents are, contexts that ignore the life of theirs, contexts whose    *)
(* inside can be swapped, and those that carry several values, such as the *)
(* overrides a Loader of envutil/ makes.                                   *)
(*                                                                         *)
(* A context is known by its number; those it is made from have smaller    *)
(* ones, except for what is swapped into an atomic one.  The contexts of   *)
(* the standard library are modelled from the way they are used here.      *)
(***************************************************************************)
EXTENDS Naturals, Sequences
LOCAL INSTANCE SequencesExt

CONSTANTS Keys, Values, Nil, MaxCtx, MaxSets

VARIABLES
    ctxs,       \* [kind, parents, vals, chans]
    closed,     \* the contexts whose own Done channel is closed
    gone,       \* of each Batman: the parents its goroutine has seen die
    loader,     \* the variables of a Loader
    first,      \* history: what each context said of each key as it was made
    swapped,    \* the atomic contexts that were swapped
    sets        \* a bound: how often the loader was changed

vars == <<ctxs, closed, gone, loader, first, swapped, sets>>

Ctx(kind, parents, vals, chans) ==
    [kind |-> kind, parents |-> parents, vals |-> vals, chans |-> chans]
Is(c, kind) == ctxs[c].kind = kind
Parent(c) == ctxs[c].parents[1]

-----------------------------------------------------------------------------
(* The methods of a context; definitions named ..._x are wrong on purpose  *)

\* The context that owns the channel Done gives: 0 for one that never closes.
RECURSIVE Done(_)
Done(c) ==
    CASE Is(c, "background") \/ Is(c, "ignore") -> 0
      [] Is(c, "cancel") \/ Is(c, "batman") -> c
      [] OTHER -> Done(Parent(c))
IsDone(c) == Done(c) \in closed
IsContextAlive(c) == ~IsDone(c)

RECURSIVE Err(_)
Err(c) ==
    CASE Is(c, "background") \/ Is(c, "ignore") -> FALSE
      [] Is(c, "cancel") -> c \in closed
      [] OTHER -> \E i \in DOMAIN ctxs[c].parents : Err(ctxs[c].parents[i])

RECURSIVE Says(_, _)
Says(x, k) ==
    CASE x.kind = "background" -> Nil
      [] x.kind = "values" /\ k \in DOMAIN x.vals -> x.vals[k]
      [] x.kind = "batman" /\ Says(ctxs[x.parents[1]], k) = Nil -> Says(ctxs[x.parents[2]], k)
      [] OTHER -> Says(ctxs[x.parents[1]], k)
Value(c, k) == Says(ctxs[c], k)

\* Whether what a context is made from can be, or was, swapped.
RECURSIVE Swaps(_, _)
Swaps(c, kinds) ==
    c \in kinds \/ \E i \in DOMAIN ctxs[c].parents : Swaps(ctxs[c].parents[i], kinds)
RECURSIVE From(_, _)
From(c, a) == c = a \/ \E i \in DOMAIN ctxs[c].parents : From(ctxs[c].parents[i], a)

-----------------------------------------------------------------------------
Init ==
    /\ ctxs = <<Ctx("background", <<>>, <<>>, <<>>)>>
    /\ closed = {} /\ gone = [c \in 1 .. MaxCtx |-> {}]
    /\ loader = <<>> /\ first = <<[k \in Keys |-> Nil]>>
    /\ swapped = {} /\ sets = 0

Make(x) ==
    /\ Len(ctxs) < MaxCtx /\ ctxs' = Append(ctxs, x)
    /\ first' = Append(first, [k \in Keys |-> Says(x, k)])
    /\ UNCHANGED <<closed, gone, loader, swapped, sets>>

\* context.WithCancel waits for the channel its parent has now.
WithCancel(p) == Make(Ctx("cancel", <<p>>, <<>>, <<Done(p)>>))
Cancel(c) ==
    /\ Is(c, "cancel") /\ c \notin closed /\ closed' = closed \cup {c}
    /\ UNCHANGED <<ctxs, gone, loader, first, swapped, sets>>
Propagate(c) == ctxs[c].chans # <<>> /\ ctxs[c].chans[1] \in closed /\ Cancel(c)

WithValue(p, k, v) == Make(Ctx("values", <<p>>, [x \in {k} |-> v], <<>>))
WithIgnoreLifecycle(p) == Make(Ctx("ignore", <<p>>, <<>>, <<>>))

\* The goroutine of a Batman waits for the channels its parents have as it starts.
NewBatmanContext(mom, dad) ==
    Make(Ctx("batman", <<mom, dad>>, <<>>, <<Done(mom), Done(dad)>>))
ParentDies(b, i) ==
    /\ Is(b, "batman") /\ i \notin gone[b] /\ ctxs[b].chans[i] \in closed
    /\ gone' = [gone EXCEPT ![b] = @ \cup {i}]
    /\ UNCHANGED <<ctxs, closed, loader, first, swapped, sets>>
Orphaned_x(b) == gone[b] # {}
Orphaned(b) == gone[b] = {1, 2}
BatmanIsBorn(b) ==
    /\ Is(b, "batman") /\ b \notin closed /\ Orphaned(b)
    /\ closed' = closed \cup {b}
    /\ UNCHANGED <<ctxs, gone, loader, first, swapped, sets>>

\* A context that is made from an atomic one is not put into it: looking for a value
\* would not end.
NewAtomic(p) == Make(Ctx("atomic", <<p>>, <<>>, <<>>))
Swap(a, c) ==
    /\ Is(a, "atomic") /\ Parent(a) # c /\ ~From(c, a)
    /\ ctxs' = [ctxs EXCEPT ![a].parents = <<c>>]
    /\ swapped' = swapped \cup {a}
    /\ UNCHANGED <<closed, gone, loader, first, sets>>

\* The variables are copied; a loader that has none leaves the context as it is.
EnhanceContext(p) == DOMAIN loader # {} /\ Make(Ctx("values", <<p>>, loader, <<>>))

Loads(l) ==
    /\ sets < MaxSets /\ sets' = sets + 1 /\ loader' = l
    /\ UNCHANGED <<ctxs, closed, gone, first, swapped>>
Without(k) == [x \in DOMAIN loader \ {k} |-> loader[x]]
Set(k, v) == Loads([x \in DOMAIN loader \cup {k} |-> IF x = k THEN v ELSE loader[x]])
Delete(k) == k \in DOMAIN loader /\ Loads(Without(k))
Clear == DOMAIN loader # {} /\ Loads(<<>>)

Load == Clear \/ \E k \in Keys : Delete(k) \/ \E v \in Values : Set(k, v)
\* What happens by itself.
Turn ==
    \E c \in DOMAIN ctxs :
       Propagate(c) \/ ParentDies(c, 1) \/ ParentDies(c, 2) \/ BatmanIsBorn(c)
Next ==
    \/ Load \/ Turn
    \/ \E c \in DOMAIN ctxs :
          \/ Cancel(c) \/ WithCancel(c) \/ WithIgnoreLifecycle(c) \/ NewAtomic(c)
          \/ EnhanceContext(c)
          \/ \E k \in Keys, v \in Values : WithValue(c, k, v)
          \/ \E d \in DOMAIN ctxs : NewBatmanContext(c, d) \/ Swap(c, d)
Spec == Init /\ [][Next]_vars

-----------------------------------------------------------------------------
(* Properties                                                              *)

\* "only becomes Done when BOTH parent contexts are done": both have been, and if neither
\* can be swapped, both still are.
BothAreDead ==
    \A b \in closed : Is(b, "batman") =>
       /\ \A i \in {1, 2} : ctxs[b].chans[i] \in closed
       /\ ~Swaps(b, swapped) => \A i \in {1, 2} : ~IsContextAlive(ctxs[b].parents[i])

\* Who sees that a context is done finds out why, whatever it is made from; only a swap
\* can take the reason away.
DoneSaysWhy == \A c \in DOMAIN ctxs : IsDone(c) /\ ~Swaps(c, swapped) => Err(c)

\* A cancellation does not get through a context that ignores it.
Sheltered(c) == Is(c, "ignore") \/ (ctxs[c].kind \in {"values", "atomic"} /\ Is(Parent(c), "ignore"))
ShelterHolds == \A c \in DOMAIN ctxs : Sheltered(c) => IsContextAlive(c) /\ ~Err(c)

\* What a context says of a key does not change with the loader it was enhanced by, with
\* contexts that are made from it, or with cancellations; only with a swap.
SaysTheSame ==
    \A c \in DOMAIN ctxs, k \in Keys : Value(c, k) # first[c][k] => Swaps(c, swapped)

ContextsAreTrue == BothAreDead /\ DoneSaysWhy /\ ShelterHolds /\ SaysTheSame

=============================================================================
