----------------------------- MODULE Dictionary -----------------------------
(***************************************************************************)
(* What maps.Map, maps.OrderedMap, set.Set and set.OrderedSet promise,     *)
(* whatever holds the entries: two dictionaries, "a" and "b".  A key that  *)
(* clashes with another one is refused and nothing else is lost; a key     *)
(* that is missing may be given a default when it is asked for.            *)
(***************************************************************************)
EXTENDS Sequences, TLC

CONSTANTS
    Keys, Values,
    Clash(_, _),       \* two keys that no dictionary can hold at once
    Invalid,           \* the keys that are always refused
    Renames, Filters

VARIABLES
    lax,       \* whether the removal of a clashing key is silent
    ordered,   \* whether line is kept
    inserts,   \* of each dictionary: the entries it makes when it is asked for a key it lacks
    held,    \* of each dictionary: the keys it holds, and their values
    line,    \* of each dictionary: its keys in the order they were added
    ret      \* the last call, with what it returned

\* The call of op, of the dictionary b with the arguments x, has returned r.
Return(op, b, x, r) == ret' = <<op, b>> \o x \o <<r>>
Keep == UNCHANGED <<line, held>>

Refused(b, k) == k \in Invalid \/ \E j \in DOMAIN held[b] : Clash(j, k)
Holds(b, k) == k \in DOMAIN held[b]
Extended(s, k) == IF ordered /\ k \notin {s[i] : i \in DOMAIN s} THEN Append(s, k) ELSE s
Restricted(f, S) == [k \in DOMAIN f \cap S |-> f[k]]

Insert(b, k, v) ==
    /\ line' = [line EXCEPT ![b] = Extended(@, k)]
    /\ held' = [held EXCEPT ![b] = (k :> v) @@ @]

-----------------------------------------------------------------------------
Init ==
    /\ held = [b \in {"a", "b"} |-> <<>>]
    /\ line = [b \in {"a", "b"} |-> <<>>]
    /\ ret = <<>>

Add(b, k, v) ==
    \/ Return("Add", b, <<k, v>>, "error") /\ Refused(b, k) /\ Keep
    \/ Return("Add", b, <<k, v>>, "ok") /\ ~Refused(b, k) /\ Insert(b, k, v)

Remove(b, k) ==
    \/ /\ Return("Remove", b, <<k>>, IF lax /\ k \notin Invalid THEN "ok" ELSE "error")
       /\ Refused(b, k) /\ Keep
    \/ /\ Return("Remove", b, <<k>>, "ok")
       /\ ~Refused(b, k)
       /\ line' = [line EXCEPT ![b] = SelectSeq(@, LAMBDA j : j # k)]
       /\ held' = [held EXCEPT ![b] = Restricted(@, Keys \ {k})]

Clear(b) ==
    /\ Return("Clear", b, <<>>, "ok")
    /\ line' = [line EXCEPT ![b] = <<>>]
    /\ held' = [held EXCEPT ![b] = <<>>]

\* yes(v) is the answer for a key with the value v.
Ask(op, b, k, yes(_)) ==
    \/ /\ Return(op, b, <<k>>, "error") /\ Keep
       /\ Refused(b, k) \/ (~Holds(b, k) /\ \E e \in inserts[b][k] : Refused(b, e.key))
    \/ /\ Return(op, b, <<k>>, "no") /\ Keep
       /\ ~Refused(b, k) /\ ~Holds(b, k) /\ inserts[b][k] = {}
    \/ Holds(b, k) /\ Return(op, b, <<k>>, yes(held[b][k])) /\ Keep
    \/ \E e \in inserts[b][k] :
          /\ Return(op, b, <<k>>, yes(e.value))
          /\ ~Refused(b, k) /\ ~Holds(b, k) /\ ~Refused(b, e.key) /\ Insert(b, e.key, e.value)
Get(b, k) == Ask("Get", b, k, LAMBDA v : v)
Contains(b, k) == Ask("Contains", b, k, LAMBDA v : "yes")

Disjoint == \A j \in DOMAIN held["a"], k \in DOMAIN held["b"] : ~Clash(j, k)

\* "the value from other takes precedence", "the key maintains its original position".
Union ==
    \/ Return("Union", "a", <<>>, "error") /\ ~Disjoint /\ Keep
    \/ /\ Return("Union", "a", <<>>, "ok")
       /\ Disjoint
       /\ line' = [line EXCEPT !["a"] = @ \o SelectSeq(line["b"], LAMBDA k : ~Holds("a", k))]
       /\ held' = [held EXCEPT !["a"] = held["b"] @@ @]

\* The keys that the other one holds, or gives a default; those are added to it,
\* even when the intersection fails because of another key.
Intersection ==
    LET new == UNION {inserts["b"][k] : k \in DOMAIN held["a"] \ DOMAIN held["b"]}
        both == {k \in DOMAIN held["a"] : Holds("b", k) \/ inserts["b"][k] # {}}
        grown(S) == held["b"] @@ [k \in {e.key : e \in S} |-> (CHOOSE e \in S : e.key = k).value]
    IN  \/ /\ Return("Intersection", "a", <<>>, "ok")
           /\ held' = [held EXCEPT !["a"] = Restricted(@, both), !["b"] = grown(new)]
           /\ \A k \in DOMAIN held["a"] : ~Refused("b", k)
           /\ line'["a"] = SelectSeq(line["a"], LAMBDA k : k \in both)
           /\ SubSeq(line'["b"], 1, Len(line["b"])) = line["b"]
        \/ /\ Return("Intersection", "a", <<>>, "error")
           /\ \E S \in SUBSET new : held' = [held EXCEPT !["b"] = grown(S)]
           /\ \E j \in DOMAIN held["a"] \cup {e.key : e \in new}, k \in DOMAIN held'["b"] :
                 Clash(j, k)
           /\ line'["a"] = line["a"]
           /\ SubSeq(line'["b"], 1, Len(line["b"])) = line["b"]

Filter ==
    \E S \in Filters :
       /\ Return("Filter", "a", <<S>>, "ok")
       /\ line' = [line EXCEPT !["a"] = SelectSeq(@, LAMBDA k : k \in S)]
       /\ held' = [held EXCEPT !["a"] = Restricted(@, S)]

\* Every new key is there, with the value of one of its sources, or gave way to
\* one that clashes with it.
Map ==
    \E f \in Renames :
       LET image == {f[k] : k \in DOMAIN held["a"]}
           new == held'["a"]
       IN  /\ Return("Map", "a", <<f>>, "ok")
           /\ line'["b"] = line["b"] /\ held'["b"] = held["b"]
           /\ \A k \in DOMAIN new :
                 k \notin Invalid /\ \E j \in DOMAIN held["a"] : f[j] = k /\ held["a"][j] = new[k]
           /\ \A k \in image \ Invalid : k \in DOMAIN new \/ \E j \in DOMAIN new : Clash(j, k)
           /\ \A j, k \in DOMAIN new : ~Clash(j, k)

Clone ==
    /\ Return("Clone", "a", <<>>, "ok")
    /\ line' = [line EXCEPT !["b"] = line["a"]]
    /\ held' = [held EXCEPT !["b"] = held["a"]]

\* Every step is a call.
Next ==
    /\ ret' # <<>>
    /\ \/ \E b \in {"a", "b"}, k \in Keys :
             \/ Remove(b, k) \/ Get(b, k) \/ Contains(b, k)
             \/ \E v \in Values : Add(b, k, v)
       \/ \E b \in {"a", "b"} : Clear(b)
       \/ Union \/ Intersection \/ Filter \/ Map \/ Clone

sort == <<lax, ordered, inserts>>
Spec == Init /\ [][Next /\ UNCHANGED sort]_<<sort, held, line, ret>>
=============================================================================
