------------------------------ MODULE CaseMap ------------------------------
(***************************************************************************)
(* CaseInsensitiveMap of maps/maps.go: three Go maps that index the same   *)
(* entries, by key, by key in lower case, and the key by its lower case.   *)
(* Two of them, a and b: the calls that make a new one put it in b.        *)
(***************************************************************************)
EXTENDS Naturals, Sequences, FiniteSets, TLC

SE == INSTANCE SequencesExt

CONSTANTS
    Keys, Lower,    \* Lower of each key, a key itself
    Values, MaxSize \* a bound: the keys of b

VARIABLES cs, ci, kl,   \* of each: the three Go maps
          told          \* of each: what its entries should be, the last key of each lower case

vars == <<cs, ci, kl, told>>

Both == {"a", "b"}
Without(f, k) == [x \in DOMAIN f \ {k} |-> f[x]]
Map(b) == [cs |-> cs[b], ci |-> ci[b], kl |-> kl[b], told |-> told[b]]
Empty == [cs |-> <<>>, ci |-> <<>>, kl |-> <<>>, told |-> <<>>]

Init ==
    /\ cs = [b \in Both |-> <<>>] /\ ci = cs /\ kl = cs /\ told = cs

-----------------------------------------------------------------------------
(* Definitions named ..._x are wrong on purpose.                           *)

\* The key that had the same lower case gives way.
Added_x(m, k, v) ==
    LET e == [key |-> k, value |-> v]
    IN  [cs |-> (k :> e) @@ m.cs, ci |-> (Lower[k] :> e) @@ m.ci, kl |-> (Lower[k] :> k) @@ m.kl,
         told |-> (Lower[k] :> e) @@ m.told]
Added(m, k, v) ==
    LET e == [key |-> k, value |-> v]
        l == Lower[k]
        old == IF l \in DOMAIN m.kl /\ m.kl[l] # k THEN Without(m.cs, m.kl[l]) ELSE m.cs
    IN  [cs |-> (k :> e) @@ old, ci |-> (l :> e) @@ m.ci, kl |-> (l :> k) @@ m.kl,
         told |-> (l :> e) @@ m.told]

\* kl is left as it is.  A key that was never there has "" in kl: cs loses that one.
Removed(m, k) ==
    LET l == Lower[k]
    IN  [cs |-> Without(m.cs, IF l \in DOMAIN m.kl THEN m.kl[l] ELSE ""),
         ci |-> Without(m.ci, l), kl |-> m.kl, told |-> Without(m.told, l)]

\* AddAll, Clone, Merge, Filter range over a Go map: in any order.
AddedAll(m, es) == SE!FoldLeft(LAMBDA r, e : Added(r, e.key, e.value), m, es)
Entries(b) == {cs[b][k] : k \in DOMAIN cs[b]}

Put(b, m) ==
    /\ cs' = [cs EXCEPT ![b] = m.cs] /\ ci' = [ci EXCEPT ![b] = m.ci]
    /\ kl' = [kl EXCEPT ![b] = m.kl] /\ told' = [told EXCEPT ![b] = m.told]

Small(m) == Cardinality(DOMAIN m.cs) <= MaxSize

Add(b, k, v) == Put(b, Added(Map(b), k, v)) /\ (b = "b" => Small(Added(Map(b), k, v)))
Remove(b, k) == Put(b, Removed(Map(b), k))
Clear(b) == Put(b, Empty)

\* NewCaseInsensitiveMap of a Go map, whose keys may differ in nothing but case.
New ==
    \E S \in SUBSET Keys, v \in Values :
       /\ Cardinality(S) <= MaxSize
       /\ \E w \in SE!SetToSeqs({[key |-> k, value |-> v] : k \in S}) : Put("b", AddedAll(Empty, w))

Clone == Small(Map("a")) /\ Put("b", AddedAll(Empty, SE!SetToSeq(Entries("a"))))
Filter ==
    \E S \in SUBSET Keys :
       /\ Cardinality(S) <= MaxSize
       /\ Put("b", AddedAll(Empty, SE!SetToSeq({e \in Entries("a") : e.key \in S})))
\* Merge and MergeAll of b, or of a itself.
Merge == \E b \in Both : \E w \in SE!SetToSeqs(Entries(b)) : Put("a", AddedAll(Map("a"), w))

Next ==
    \/ \E b \in Both, k \in Keys : Remove(b, k) \/ \E v \in Values : Add(b, k, v)
    \/ \E b \in Both : Clear(b)
    \/ New \/ Clone \/ Filter \/ Merge

Spec == Init /\ [][Next]_vars

-----------------------------------------------------------------------------
\* Get and ContainsKey, of either kind.
Get(b, k, caseSensitive) ==
    IF caseSensitive THEN IF k \in DOMAIN cs[b] THEN {cs[b][k]} ELSE {}
    ELSE IF Lower[k] \in DOMAIN ci[b] THEN {ci[b][Lower[k]]} ELSE {}

\* The last key and value that were given for a lower case, and no other, are
\* found under every spelling if case does not matter and under its own if it
\* does, after any calls: the stale entries of kl never show.  Only the key ""
\* may be lost to one of the two.
CasesAgree ==
    \A b \in Both, k \in Keys \ {""} :
       /\ Get(b, k, FALSE) = {told[b][l] : l \in DOMAIN told[b] \cap {Lower[k]}}
       /\ Get(b, k, TRUE) = {e \in Get(b, k, FALSE) : e.key = k}
       /\ Cardinality(DOMAIN cs[b] \ {""}) = Cardinality(DOMAIN ci[b] \ {""})

=============================================================================
