----------------------------- MODULE SearchTrees -----------------------------
(***************************************************************************)
(* What the operators of RedBlack do to a tree, for any number of keys:    *)
(* rotations, insertions and removals keep a search tree a search tree,    *)
(* and a search finds what is in it.                                       *)
(*                                                                         *)
(* There is no induction on trees: Shape says for each node which keys are *)
(* at and below it, and what takes an induction is one on the numbers up   *)
(* to MaxKey (SetInduction), as the number of keys below a node falls on   *)
(* each way down.                                                          *)
(***************************************************************************)
EXTENDS RedBlack, FiniteSetTheorems, NaturalsInduction, TLAPS

-----------------------------------------------------------------------------
(* Induction, on a set of numbers; and functions that are defined by it    *)

LEMMA LeastOf ==
    ASSUME NEW S \in SUBSET Nat, S # {}
    PROVE  \E x \in S : \A y \in S : x <= y
<1> DEFINE R == OpToRel(<, Nat)
<1>1. IsWellFoundedOn(R, Nat)
    BY NatLessThanWellFounded
<1>2. ASSUME NEW x \in Nat, NEW y \in Nat PROVE <<x, y>> \in R <=> x < y
    BY DEF OpToRel
<1> HIDE DEF R
<1>3. PICK x \in S : \A y \in S : <<y, x>> \notin R
    BY <1>1, WFMin
<1>4. \A y \in S : ~(y < x)
    BY <1>2, <1>3
<1>5. QED
    BY <1>4

LEMMA SetInduction ==
    ASSUME NEW N \in Nat, NEW B, 0 \in B, \A i \in 1 .. N : i - 1 \in B => i \in B
    PROVE  \A i \in 0 .. N : i \in B
<1> DEFINE Bad == {i \in 0 .. N : i \notin B}
<1>1. SUFFICES ASSUME Bad # {} PROVE FALSE
    OBVIOUS
<1>2. Bad \in SUBSET Nat
    OBVIOUS
<1>3. PICK i \in Bad : \A j \in Bad : i <= j
    <2> HIDE DEF Bad
    <2>1. QED
        BY <1>1, <1>2, LeastOf
<1>4. i \in 1 .. N /\ i \notin B
    BY <1>3
<1>5. i - 1 \in 0 .. N /\ ~(i <= i - 1)
    BY <1>4
<1>6. QED
    BY <1>3, <1>4, <1>5

Iterated(f, S, a, g, n) ==
    f \in [0 .. n -> S] /\ f[0] = a /\ \A i \in 1 .. n : f[i] = g[f[i - 1]]

LEMMA IteratesExist ==
    ASSUME NEW S, NEW a \in S, NEW g \in [S -> S], NEW N \in Nat
    PROVE  \E f : Iterated(f, S, a, g, N)
<1> DEFINE Good(f, n) == Iterated(f, S, a, g, n)
           B == {n \in Nat : \E f : Good(f, n)}
<1>1. 0 \in B
    <2>1. Good([i \in 0 .. 0 |-> a], 0)
        BY DEF Iterated
    <2>2. QED
        BY <2>1
<1>2. ASSUME NEW n \in 1 .. N, n - 1 \in B PROVE n \in B
    <2>1. PICK f : Good(f, n - 1)
        BY <1>2
    <2> DEFINE h == [i \in 0 .. n |-> IF i = n THEN g[f[n - 1]] ELSE f[i]]
    <2>2. n \in Nat /\ n - 1 \in 0 .. n - 1
        OBVIOUS
    <2>3. f[n - 1] \in S /\ g[f[n - 1]] \in S
        BY <2>1, <2>2 DEF Iterated
    <2>4. h \in [0 .. n -> S]
        <3>1. ASSUME NEW i \in 0 .. n, i # n PROVE f[i] \in S
            <4>1. i \in 0 .. n - 1
                BY <2>2, <3>1
            <4>2. QED
                BY <2>1, <4>1 DEF Iterated
        <3>2. QED
            BY <2>3, <3>1
    <2>5. h[0] = a
        BY <2>1, <2>2 DEF Iterated
    <2>6. ASSUME NEW i \in 1 .. n PROVE h[i] = g[h[i - 1]]
        <3>1. h[i - 1] = f[i - 1]
            BY <2>2
        <3>2. CASE i = n
            BY <3>1, <3>2
        <3>3. CASE i # n
            <4>1. i \in 1 .. n - 1
                BY <2>2, <3>3
            <4>2. f[i] = g[f[i - 1]]
                BY <2>1, <4>1 DEF Iterated
            <4>3. QED
                BY <3>1, <3>3, <4>2
        <3>4. QED
            BY <3>2, <3>3
    <2> HIDE DEF h
    <2>7. Good(h, n)
        BY <2>4, <2>5, <2>6 DEF Iterated
    <2>8. QED
        BY <2>2, <2>7
<1> HIDE DEF Good
<1>3. N \in B
    <2> HIDE DEF B
    <2>1. \A i \in 0 .. N : i \in B
        BY <1>1, <1>2, SetInduction
    <2>2. QED
        BY <2>1
<1>4. QED
    BY <1>3 DEF Good

-----------------------------------------------------------------------------
(* One field of one node                                                   *)

Nodes == [red : BOOLEAN, left : Links, right : Links, parent : Links]
Trees == [root : Links, node : [Keys -> Nodes]]
LinkFields == {"left", "right", "parent"}

LEMMA TreesAre ==
    ASSUME NEW t \in Trees
    PROVE  /\ t.root \in Links
           /\ \A k \in Keys : /\ t.node[k].red \in BOOLEAN
                              /\ \A f \in LinkFields : t.node[k][f] \in Links
    BY DEF Trees, Nodes, LinkFields

Relinked(t, r, k, f, v) ==
    /\ r \in Trees /\ r.root = t.root
    /\ \A j \in Keys : r.node[j].red = t.node[j].red
    /\ \A j \in Keys, h \in LinkFields :
          r.node[j][h] = IF j = k /\ h = f THEN v ELSE t.node[j][h]

LEMMA SetIs ==
    ASSUME NEW t \in Trees, NEW k \in Links, NEW f \in LinkFields, NEW v \in Links
    PROVE  Relinked(t, Set(t, k, f, v), k, f, v)
<1>1. CASE k = nil
    BY <1>1 DEF Set, Keys, nil, Links, Relinked
<1>2. CASE k # nil
    <2> DEFINE n == t.node[k]  m == [n EXCEPT ![f] = v]
    <2>1. k \in Keys /\ n \in Nodes
        BY <1>2 DEF Links, Trees
    <2>2. /\ m \in Nodes /\ m.red = n.red
          /\ \A h \in LinkFields : m[h] = IF h = f THEN v ELSE n[h]
        <3>1. n = [red |-> n.red, left |-> n.left, right |-> n.right, parent |-> n.parent]
            BY <2>1 DEF Nodes
        <3>2. m = [red |-> n.red, left |-> IF f = "left" THEN v ELSE n.left,
                   right |-> IF f = "right" THEN v ELSE n.right,
                   parent |-> IF f = "parent" THEN v ELSE n.parent]
            BY <3>1 DEF LinkFields
        <3>3. QED
            BY <2>1, <3>2 DEF LinkFields, Nodes
    <2> HIDE DEF m
    <2>3. Set(t, k, f, v) = [t EXCEPT !.node[k] = m]
        BY <1>2 DEF Set, m
    <2>4. t = [root |-> t.root, node |-> t.node] /\ t.node \in [Keys -> Nodes]
        BY DEF Trees
    <2>5. Set(t, k, f, v) = [root |-> t.root, node |-> [t.node EXCEPT ![k] = m]]
        BY <2>3, <2>4
    <2>6. QED
        BY <2>1, <2>2, <2>4, <2>5 DEF Trees, Relinked
<1>3. QED
    BY <1>1, <1>2

Repainted(t, r, k, v) ==
    /\ r \in Trees /\ r.root = t.root
    /\ \A j \in Keys : r.node[j].red = IF j = k THEN v ELSE t.node[j].red
    /\ \A j \in Keys, h \in LinkFields : r.node[j][h] = t.node[j][h]

LEMMA SetRedIs ==
    ASSUME NEW t \in Trees, NEW k \in Links, NEW v \in BOOLEAN
    PROVE  Repainted(t, Set(t, k, "red", v), k, v)
<1>1. CASE k = nil
    BY <1>1 DEF Set, Keys, nil, Links, Repainted
<1>2. CASE k # nil
    <2> DEFINE n == t.node[k]  m == [n EXCEPT !["red"] = v]
    <2>1. k \in Keys /\ n \in Nodes
        BY <1>2 DEF Links, Trees
    <2>2. /\ m \in Nodes /\ m.red = v
          /\ \A h \in LinkFields : m[h] = n[h]
        BY <2>1 DEF Nodes, LinkFields
    <2> HIDE DEF m
    <2>3. Set(t, k, "red", v) = [t EXCEPT !.node[k] = m]
        BY <1>2 DEF Set, m
    <2>4. t = [root |-> t.root, node |-> t.node] /\ t.node \in [Keys -> Nodes]
        BY DEF Trees
    <2>5. Set(t, k, "red", v) = [root |-> t.root, node |-> [t.node EXCEPT ![k] = m]]
        BY <2>3, <2>4
    <2>6. QED
        BY <2>1, <2>2, <2>4, <2>5 DEF Trees, Repainted
<1>3. QED
    BY <1>1, <1>2

-----------------------------------------------------------------------------
(* Search trees: what is in the subtree of each node                       *)

Below(s, j, k) == IF s = "left" THEN j < k ELSE k < j

\* The nodes S make a search tree, of which sub says what is at and below each.
Shape(t, S, sub) ==
    /\ t \in Trees /\ S \in SUBSET Keys /\ sub \in [Links -> SUBSET S]
    /\ sub[nil] = {} /\ sub[t.root] = S
    /\ t.root # nil => t.root \in S /\ t.node[t.root].parent = nil
    /\ \A k \in S :
          /\ sub[k] = {k} \cup sub[t.node[k].left] \cup sub[t.node[k].right]
          /\ \A s \in Sides :
                /\ t.node[k][s] \in S \cup {nil}
                /\ t.node[k][s] # nil => t.node[t.node[k][s]].parent = k
                /\ \A j \in sub[t.node[k][s]] : Below(s, j, k)
    /\ \A k \in Keys \ S : t.node[k] = Unused

LEMMA SidesAre ==
    /\ Sides = {"left", "right"} /\ "left" # "right" /\ Sides \subseteq LinkFields
    /\ "parent" \in LinkFields /\ "parent" \notin Sides
    /\ \A s \in Sides : Other(s) \in Sides /\ Other(s) # s /\ Other(Other(s)) = s
                        /\ Sides = {s, Other(s)}
    BY DEF Sides, LinkFields, Other

LEMMA KeysAre ==
    /\ MaxKey \in Nat /\ Keys \in SUBSET Nat /\ nil \notin Keys /\ nil = 0
    /\ Links = Keys \cup {nil} /\ IsFiniteSet(Keys) /\ Cardinality(Keys) = MaxKey
<1>1. MaxKey \in Nat
    BY MaxKeyAssumption
<1>2. IsFiniteSet(Keys) /\ Cardinality(Keys) = MaxKey
    BY <1>1, FS_Interval DEF Keys
<1>3. QED
    BY <1>1, <1>2 DEF Keys, nil, Links

\* What is next to node a.
Kin(t, S, sub, a) ==
    /\ a \in Keys /\ a # nil /\ a \in Nat /\ a \in sub[a] /\ sub[a] \subseteq S
    /\ \A s \in Sides :
          /\ t.node[a][s] \in S \cup {nil}
          /\ t.node[a][s] # nil => t.node[t.node[a][s]].parent = a /\ t.node[a][s] \in sub[a]
                                   /\ t.node[a][s] # a
          /\ sub[a] = {a} \cup sub[t.node[a][s]] \cup sub[t.node[a][Other(s)]]
          /\ sub[t.node[a][s]] \subseteq sub[a] /\ a \notin sub[t.node[a][s]]
          /\ sub[t.node[a][s]] \cap sub[t.node[a][Other(s)]] = {}
          /\ t.node[a][s] # nil => t.node[a][s] # t.node[a][Other(s)]

LEMMA KinOf ==
    ASSUME NEW t, NEW S, NEW sub, Shape(t, S, sub), NEW a \in S
    PROVE  Kin(t, S, sub, a)
<1>1. a \in Keys /\ a # nil /\ a \in Nat /\ a \in sub[a] /\ sub[a] \subseteq S
    BY KeysAre DEF Shape
<1>2. ASSUME NEW s \in Sides
      PROVE  /\ t.node[a][s] \in S \cup {nil}
             /\ t.node[a][s] # nil => t.node[t.node[a][s]].parent = a
             /\ sub[a] = {a} \cup sub[t.node[a][s]] \cup sub[t.node[a][Other(s)]]
             /\ \A j \in sub[t.node[a][s]] : Below(s, j, a)
             /\ sub[t.node[a][s]] \subseteq S
    <2>1. /\ t.node[a][s] \in S \cup {nil}
          /\ t.node[a][s] # nil => t.node[t.node[a][s]].parent = a
          /\ \A j \in sub[t.node[a][s]] : Below(s, j, a)
        BY DEF Shape
    <2>2. sub[a] = {a} \cup sub[t.node[a].left] \cup sub[t.node[a].right]
        BY DEF Shape
    <2>3. sub[a] = {a} \cup sub[t.node[a][s]] \cup sub[t.node[a][Other(s)]]
        BY <2>2 DEF Sides, Other
    <2>4. t.node[a][s] \in Links /\ sub \in [Links -> SUBSET S]
        BY <2>1, KeysAre DEF Shape
    <2>5. QED
        BY <2>1, <2>3, <2>4
<1>3. ASSUME NEW s \in Sides
      PROVE  /\ a \notin sub[t.node[a][s]]
             /\ sub[t.node[a][s]] \cap sub[t.node[a][Other(s)]] = {}
    <2>1. \A j \in S : j \in Nat
        BY KeysAre DEF Shape
    <2>2. \A j \in S : ~(Below(s, j, a) /\ Below(Other(s), j, a)) /\ ~Below(s, a, a)
        BY <1>1, <2>1 DEF Below, Other, Sides
    <2>3. QED
        BY <1>2, <2>2, SidesAre
<1>4. ASSUME NEW s \in Sides, t.node[a][s] # nil
      PROVE  t.node[a][s] \in sub[t.node[a][s]]
    BY <1>2, <1>4 DEF Shape
<1>5. QED
    <2>1. \A s \in Sides : /\ t.node[a][s] # nil => t.node[a][s] # a /\ t.node[a][s] # t.node[a][Other(s)]
                           /\ t.node[a][s] # nil => t.node[a][s] \in sub[a]
        BY <1>2, <1>3, <1>4
    <2>2. QED
        BY <1>1, <1>2, <1>3, <2>1 DEF Kin

LEMMA Near ==
    ASSUME NEW t, NEW S, NEW sub, Shape(t, S, sub), NEW a \in S
    PROVE  /\ a \in Keys /\ a # nil /\ a \in Nat /\ a \in sub[a] /\ sub[a] \subseteq S
           /\ \A s \in Sides :
                 /\ t.node[a][s] \in S \cup {nil}
                 /\ t.node[a][s] # nil => t.node[t.node[a][s]].parent = a /\ t.node[a][s] \in sub[a]
                                          /\ t.node[a][s] # a
                 /\ sub[a] = {a} \cup sub[t.node[a][s]] \cup sub[t.node[a][Other(s)]]
                 /\ sub[t.node[a][s]] \subseteq sub[a] /\ a \notin sub[t.node[a][s]]
                 /\ sub[t.node[a][s]] \cap sub[t.node[a][Other(s)]] = {}
                 /\ t.node[a][s] # nil => t.node[a][s] # t.node[a][Other(s)]
    BY KinOf DEF Kin

LEMMA SubsAreFinite ==
    ASSUME NEW t, NEW S, NEW sub, Shape(t, S, sub), NEW a \in Links
    PROVE  IsFiniteSet(sub[a]) /\ Cardinality(sub[a]) \in 0 .. MaxKey
<1>1. sub[a] \subseteq Keys
    BY DEF Shape
<1>2. QED
    BY <1>1, KeysAre, FS_Subset, FS_CardinalityType

\* What is below a node has its parent there, and whatever is below itself.
LEMMA Deep ==
    ASSUME NEW t, NEW S, NEW sub, Shape(t, S, sub)
    PROVE  \A a \in S : \A c \in sub[a] :
              /\ sub[c] \subseteq sub[a]
              /\ c # a => /\ t.node[c].parent \in sub[a] \cap S
                          /\ \E s \in Sides : t.node[t.node[c].parent][s] = c
<1> DEFINE Fine(a) ==
        \A c \in sub[a] :
           /\ sub[c] \subseteq sub[a]
           /\ c # a => /\ t.node[c].parent \in sub[a] \cap S
                       /\ \E s \in Sides : t.node[t.node[c].parent][s] = c
    B == {n \in Nat : \A a \in S : Cardinality(sub[a]) <= n => Fine(a)}
<1>1. 0 \in B
    <2>1. ASSUME NEW a \in S, Cardinality(sub[a]) <= 0 PROVE FALSE
        <3>1. a \in sub[a] /\ a \in Links
            BY Near, KeysAre
        <3>2. Cardinality(sub[a]) = 0 /\ IsFiniteSet(sub[a])
            BY <2>1, <3>1, SubsAreFinite, KeysAre
        <3>3. QED
            BY <3>1, <3>2, FS_EmptySet
    <2>2. QED
        BY <2>1
<1>2. ASSUME NEW n \in 1 .. MaxKey, n - 1 \in B PROVE n \in B
    <2> HIDE DEF Fine
    <2>1. SUFFICES ASSUME NEW a \in S, Cardinality(sub[a]) <= n PROVE Fine(a)
        OBVIOUS
    <2>2. ASSUME NEW s \in Sides, t.node[a][s] # nil PROVE Fine(t.node[a][s])
        <3> DEFINE c == t.node[a][s]
        <3>1. c \in S /\ a \in sub[a] /\ a \notin sub[c] /\ sub[c] \subseteq sub[a]
            BY <2>2, Near
        <3> HIDE DEF c
        <3>2. c \in Links /\ a \in Links
            BY <3>1, KeysAre DEF Shape
        <3>3. /\ sub[c] # sub[a] /\ IsFiniteSet(sub[a])
              /\ Cardinality(sub[c]) \in Nat /\ Cardinality(sub[a]) \in Nat /\ n \in Nat
            BY <3>1, <3>2, SubsAreFinite
        <3>4. Cardinality(sub[c]) < Cardinality(sub[a])
            BY <3>1, <3>3, FS_Subset
        <3>5. Cardinality(sub[c]) <= n - 1
            BY <2>1, <3>3, <3>4
        <3>6. QED
            BY <1>2, <3>1, <3>5 DEF c
    <2>3. ASSUME NEW c \in sub[a]
          PROVE  /\ sub[c] \subseteq sub[a]
                 /\ c # a => /\ t.node[c].parent \in sub[a] \cap S
                             /\ \E s \in Sides : t.node[t.node[c].parent][s] = c
        <3>1. CASE c = a
            BY <3>1
        <3>2. CASE c # a
            <4>1. PICK s \in Sides : c \in sub[t.node[a][s]]
                BY <3>2, Near, SidesAre
            <4>2. t.node[a][s] # nil /\ sub[t.node[a][s]] \subseteq sub[a]
                <5>1. Kin(t, S, sub, a)
                    BY KinOf
                <5>2. sub[nil] = {}
                    BY DEF Shape
                <5>3. QED
                    BY <4>1, <5>1, <5>2 DEF Kin
            <4>3. Fine(t.node[a][s])
                BY <2>2, <4>2
            <4>4. sub[c] \subseteq sub[a]
                BY <4>1, <4>2, <4>3 DEF Fine
            <4>5. CASE c = t.node[a][s]
                <5>1. t.node[c].parent = a /\ a \in sub[a]
                    BY <4>2, <4>5, Near
                <5>2. QED
                    BY <4>4, <4>5, <5>1
            <4>6. CASE c # t.node[a][s]
                <5>1. /\ t.node[c].parent \in sub[t.node[a][s]] \cap S
                      /\ \E q \in Sides : t.node[t.node[c].parent][q] = c
                    BY <4>1, <4>3, <4>6 DEF Fine
                <5>2. QED
                    BY <4>2, <4>4, <5>1
            <4>7. QED
                BY <4>5, <4>6
        <3>3. QED
            BY <3>1, <3>2
    <2>4. QED
        BY <2>3 DEF Fine
<1> HIDE DEF B, Fine
<1>3. \A n \in 0 .. MaxKey : n \in B
    BY <1>1, <1>2, SetInduction, KeysAre
<1>4. ASSUME NEW a \in S PROVE Fine(a)
    <2>1. a \in Links
        BY Near, KeysAre
    <2>2. Cardinality(sub[a]) \in 0 .. MaxKey
        BY <2>1, SubsAreFinite
    <2>3. QED
        BY <1>3, <2>2 DEF B
<1>5. QED
    BY <1>4 DEF Fine

\* Every node but the root is a child of its parent, of one node and on one side.
LEMMA Parents ==
    ASSUME NEW t, NEW S, NEW sub, Shape(t, S, sub)
    PROVE  /\ S # {} => t.root \in S /\ t.root # nil
           /\ S = {} => t.root = nil
           /\ \A c \in S :
                 /\ c = t.root <=> t.node[c].parent = nil
                 /\ c # t.root => /\ t.node[c].parent \in S /\ t.node[c].parent # c
                                  /\ \E s \in Sides : t.node[t.node[c].parent][s] = c
           /\ \A a, b \in S, s, q \in Sides :
                 t.node[a][s] # nil /\ t.node[a][s] = t.node[b][q] => a = b /\ s = q
           /\ \A a \in S, s \in Sides : t.node[a][s] # nil => t.node[a][s] # t.root
<1>1. t.root \in Links /\ sub[t.root] = S /\ sub[nil] = {} /\ (t.root # nil => t.root \in S)
    BY DEF Shape, Trees
<1>2. /\ S # {} => t.root \in S /\ t.root # nil
      /\ S = {} => t.root = nil
    BY <1>1
<1>3. ASSUME NEW c \in S
      PROVE  /\ c = t.root <=> t.node[c].parent = nil
             /\ c # t.root => /\ t.node[c].parent \in S /\ t.node[c].parent # c
                              /\ \E s \in Sides : t.node[t.node[c].parent][s] = c
    <2>1. t.root \in S /\ c \in sub[t.root] /\ t.node[t.root].parent = nil /\ t.root # nil
        BY <1>1, <1>2 DEF Shape
    <2>2. c # t.root => /\ t.node[c].parent \in S
                        /\ \E s \in Sides : t.node[t.node[c].parent][s] = c
        BY <2>1, Deep
    <2>3. nil \notin S
        BY KeysAre DEF Shape
    <2>4. c # t.root => t.node[c].parent # c
        BY <2>2, <2>3, Near
    <2>5. QED
        BY <2>1, <2>2, <2>3, <2>4
<1>4. ASSUME NEW a \in S, NEW b \in S, NEW s \in Sides, NEW q \in Sides,
             t.node[a][s] # nil, t.node[a][s] = t.node[b][q]
      PROVE  a = b /\ s = q
    <2>1. a = b
        BY <1>4, Near
    <2>2. s # q => q = Other(s)
        BY SidesAre
    <2>3. QED
        BY <1>4, <2>1, <2>2, Near
<1>5. ASSUME NEW a \in S, NEW s \in Sides, t.node[a][s] # nil PROVE t.node[a][s] # t.root
    <2>1. t.node[t.node[a][s]].parent = a /\ a # nil
        BY <1>5, Near
    <2>2. QED
        BY <2>1 DEF Shape
<1>6. QED
    BY <1>2, <1>3, <1>4, <1>5

-----------------------------------------------------------------------------
(* Where a search leads                                                    *)

\* One link further on the way to k.
Onward(t, k, p) ==
    IF p.this \in {nil, k} THEN p
    ELSE LET d == IF k < p.this THEN "left" ELSE "right"
         IN  [this |-> t.node[p.this][d], parent |-> p.this, dir |-> d]

Start(t) == [this |-> t.root, parent |-> nil, dir |-> "left"]
Places == [this : Links, parent : Links, dir : Sides]

\* The search for k is right so far: k would be on side dir of parent, and on the
\* side of parent from whatever is above.
OnTheWay(t, S, sub, k, p) ==
    /\ p \in Places /\ p.this \in S \cup {nil} /\ p.parent \in S \cup {nil}
    /\ p.parent = nil => p.this = t.root
    /\ p.parent # nil =>
          /\ t.node[p.parent][p.dir] = p.this
          /\ \A a \in S, s \in Sides :
                p.parent \in sub[t.node[a][s]] \/ (a = p.parent /\ s = p.dir) => Below(s, k, a)
    /\ k \in S => k \in sub[p.this]

LEMMA OneParent ==
    ASSUME NEW t, NEW S, NEW sub, Shape(t, S, sub), NEW a \in S, NEW b \in S, NEW s \in Sides, NEW q \in Sides,
           t.node[a][s] # nil, t.node[a][s] = t.node[b][q]
    PROVE  a = b /\ s = q
    BY Parents

LEMMA RootAlone ==
    ASSUME NEW t, NEW S, NEW sub, Shape(t, S, sub), NEW c \in S
    PROVE  c = t.root <=> t.node[c].parent = nil
    BY Parents

LEMMA WayGoesOn ==
    ASSUME NEW t, NEW S, NEW sub, Shape(t, S, sub), NEW k \in Keys, NEW p,
           OnTheWay(t, S, sub, k, p)
    PROVE  OnTheWay(t, S, sub, k, Onward(t, k, p))
<1>1. CASE p.this \in {nil, k}
    BY <1>1 DEF Onward
<1>2. CASE p.this \notin {nil, k}
    <2> DEFINE q == p.this  d == IF k < q THEN "left" ELSE "right"
               r == Onward(t, k, p)
    <2>1. q \in S /\ q # nil /\ q # k /\ q \in Nat /\ k \in Nat /\ p.parent \in S \cup {nil}
        BY <1>2, KeysAre DEF OnTheWay, Shape
    <2>2. d \in Sides /\ r = [this |-> t.node[q][d], parent |-> q, dir |-> d]
        BY <1>2, SidesAre DEF Onward
    <2>3. Below(d, k, q)
        BY <2>1 DEF Below
    <2> HIDE DEF q, d, r
    <2>4. t.node[q][d] \in S \cup {nil}
        BY <2>1, <2>2, Near
    <2>5. r \in Places
        BY <2>1, <2>2, <2>4, KeysAre DEF Places, Shape
    <2>6. ASSUME NEW a \in S, NEW s \in Sides, q \in sub[t.node[a][s]]
          PROVE  Below(s, k, a)
        <3> DEFINE c == t.node[a][s]
        <3>1. c \in S /\ c # nil
            BY <2>6, Near, KeysAre DEF Shape
        <3>2. CASE q = c
            <4>1. q # t.root
                BY <3>1, <3>2, Parents
            <4>2. p.parent # nil /\ t.node[p.parent][p.dir] = q /\ p.dir \in Sides
                BY <4>1 DEF OnTheWay, Places, q
            <4>3. a = p.parent /\ s = p.dir
                BY <2>1, <3>1, <3>2, <4>2, Parents
            <4>4. QED
                BY <4>2, <4>3 DEF OnTheWay
        <3>3. CASE q # c
            <4>1. t.node[q].parent \in sub[c] \cap S
                BY <2>6, <3>1, <3>3, Deep
            <4>2. q # t.root
                BY <2>1, <4>1, Parents, KeysAre DEF Shape
            <4>3. p.parent # nil /\ t.node[p.parent][p.dir] = q /\ p.dir \in Sides
                BY <4>2 DEF OnTheWay, Places, q
            <4>4. t.node[q].parent = p.parent
                BY <2>1, <4>3, Near
            <4>5. QED
                BY <4>1, <4>3, <4>4 DEF OnTheWay
        <3>4. QED
            BY <3>2, <3>3
    <2>7. k \in S => k \in sub[t.node[q][d]]
        <3>1. SUFFICES ASSUME k \in S PROVE k \in sub[t.node[q][d]]
            OBVIOUS
        <3>2. k \in sub[q]
            BY <3>1 DEF OnTheWay, q
        <3>3. k \in sub[t.node[q][d]] \/ k \in sub[t.node[q][Other(d)]]
            BY <2>1, <2>2, <3>2, Near
        <3>4. ~Below(Other(d), k, q)
            BY <2>1, <2>3, <2>2 DEF Below, Other, Sides
        <3>5. k \notin sub[t.node[q][Other(d)]]
            BY <2>1, <2>2, <3>4, SidesAre DEF Shape
        <3>6. QED
            BY <3>3, <3>5
    <2>8. QED
        BY <2>1, <2>2, <2>3, <2>4, <2>5, <2>6, <2>7 DEF OnTheWay, r
<1>3. QED
    BY <1>1, <1>2

\* As far as the search has not ended, it has left a node behind with each link.
LEMMA WayIsShort ==
    ASSUME NEW t, NEW S, NEW sub, Shape(t, S, sub), NEW k \in Keys, NEW p,
           OnTheWay(t, S, sub, k, p), NEW n \in Nat,
           p.this \notin {nil, k} => Cardinality(sub[p.this]) <= n
    PROVE  LET r == Onward(t, k, p)
           IN  r.this \notin {nil, k} => Cardinality(sub[r.this]) <= n - 1
<1> DEFINE r == Onward(t, k, p)  q == p.this
<1>1. SUFFICES ASSUME r.this \notin {nil, k} PROVE Cardinality(sub[r.this]) <= n - 1
    OBVIOUS
<1>2. q \notin {nil, k}
    BY <1>1 DEF Onward
<1>3. PICK d \in Sides : r.this = t.node[q][d]
    BY <1>2, SidesAre DEF Onward
<1>4. q \in S
    BY <1>2 DEF OnTheWay
<1> HIDE DEF r, q
<1>5. /\ q \in sub[q] /\ q \notin sub[r.this] /\ sub[r.this] \subseteq sub[q]
      /\ r.this \in Links /\ q \in Links
    <2>1. r.this \in S \cup {nil} /\ q \in Keys
        BY <1>3, <1>4, Near
    <2>2. q \in sub[q] /\ q \notin sub[r.this] /\ sub[r.this] \subseteq sub[q]
        BY <1>3, <1>4, Near
    <2>3. QED
        BY <2>1, <2>2, KeysAre DEF Shape
<1>6. /\ IsFiniteSet(sub[q]) /\ Cardinality(sub[q]) \in Nat
      /\ Cardinality(sub[r.this]) \in Nat /\ sub[q] # sub[r.this]
    BY <1>5, SubsAreFinite
<1>7. Cardinality(sub[r.this]) < Cardinality(sub[q])
    BY <1>5, <1>6, FS_Subset
<1>8. Cardinality(sub[q]) <= n
    BY <1>2 DEF q
<1>9. QED
    BY <1>6, <1>7, <1>8

LEMMA SearchIs ==
    ASSUME NEW t, NEW S, NEW sub, Shape(t, S, sub), NEW k \in Keys
    PROVE  /\ OnTheWay(t, S, sub, k, Search(t, k))
           /\ Search(t, k).this = IF k \in S THEN k ELSE nil
<1> DEFINE N == 0 .. MaxKey
           IsPath(f) == f = [i \in N |->
               IF i = 0 THEN [this |-> t.root, parent |-> nil, dir |-> "left"]
               ELSE LET p == f[i - 1]
                        d == IF k < p.this THEN "left" ELSE "right"
                    IN  IF p.this \in {nil, k} THEN p
                        ELSE [this |-> t.node[p.this][d], parent |-> p.this, dir |-> d]]
           path == CHOOSE f : IsPath(f)
           g == [p \in Places |-> Onward(t, k, p)]
<1>1. Search(t, k) = path[MaxKey]
    BY DEF Search
<1>2. MaxKey \in Nat /\ t \in Trees
    BY KeysAre DEF Shape
<1>3. Start(t) \in Places
    BY <1>2, TreesAre, KeysAre, SidesAre DEF Start, Places
<1>4. g \in [Places -> Places]
    <2>1. ASSUME NEW p \in Places, p.this \notin {nil, k}, NEW d \in Sides
          PROVE  [this |-> t.node[p.this][d], parent |-> p.this, dir |-> d] \in Places
        <3>1. p.this \in Keys /\ p.this \in Links
            BY <2>1, KeysAre DEF Places
        <3>2. t.node[p.this][d] \in Links
            BY <1>2, <3>1, TreesAre, SidesAre
        <3>3. QED
            BY <3>1, <3>2 DEF Places
    <2>2. ASSUME NEW p \in Places PROVE Onward(t, k, p) \in Places
        BY <2>1, SidesAre DEF Onward
    <2>3. QED
        BY <2>2
<1>5. PICK f \in [N -> Places] : f[0] = Start(t) /\ \A i \in 1 .. MaxKey : f[i] = g[f[i - 1]]
    <2> DEFINE a == Start(t)
    <2>1. a \in Places
        BY <1>3
    <2> HIDE DEF g, IsPath, path, a
    <2>2. \E f : Iterated(f, Places, a, g, MaxKey)
        BY <1>2, <1>4, <2>1, IteratesExist
    <2>3. QED
        BY <2>2 DEF a, Iterated
<1>6. IsPath(f)
    <2>1. ASSUME NEW i \in N
          PROVE  f[i] = IF i = 0 THEN Start(t) ELSE Onward(t, k, f[i - 1])
        <3>1. CASE i = 0
            BY <1>5, <3>1
        <3>2. CASE i # 0
            <4>1. i \in 1 .. MaxKey /\ i - 1 \in N
                BY <1>2, <3>2
            <4>2. f[i] = g[f[i - 1]] /\ f[i - 1] \in Places
                BY <1>5, <4>1
            <4>3. QED
                BY <3>2, <4>2
        <3>3. QED
            BY <3>1, <3>2
    <2>2. f = [i \in N |-> IF i = 0 THEN Start(t) ELSE Onward(t, k, f[i - 1])]
        BY <1>5, <2>1
    <2>3. QED
        BY <2>2 DEF Start, Onward
<1>7. path = [i \in N |-> IF i = 0 THEN Start(t) ELSE Onward(t, k, path[i - 1])]
    <2>1. IsPath(path)
        <3> HIDE DEF IsPath
        <3>1. QED
            BY <1>6
    <2> HIDE DEF path
    <2>2. QED
        BY <2>1 DEF Start, Onward
<1> HIDE DEF path
<1>8. /\ path[0] = Start(t)
      /\ \A i \in 1 .. MaxKey : path[i] = Onward(t, k, path[i - 1])
    BY <1>2, <1>7
<1> DEFINE B == {i \in N : /\ OnTheWay(t, S, sub, k, path[i])
                           /\ path[i].this \notin {nil, k} =>
                                 Cardinality(sub[path[i].this]) <= MaxKey - i}
<1>9. 0 \in B
    <2>1. OnTheWay(t, S, sub, k, Start(t))
        <3>1. t.root \in S \cup {nil} /\ sub[t.root] = S
            BY <1>2, Parents DEF Shape
        <3>2. QED
            BY <1>3, <3>1 DEF OnTheWay, Start
    <2>2. Cardinality(sub[t.root]) <= MaxKey - 0
        BY <1>2, TreesAre, SubsAreFinite
    <2>3. QED
        BY <1>2, <1>8, <2>1, <2>2 DEF Start
<1>10. ASSUME NEW i \in 1 .. MaxKey, i - 1 \in B PROVE i \in B
    <2>1. MaxKey - (i - 1) \in Nat /\ i \in N /\ MaxKey - (i - 1) - 1 = MaxKey - i
        BY <1>2
    <2> DEFINE n == MaxKey - (i - 1)
    <2>2. /\ OnTheWay(t, S, sub, k, path[i - 1])
          /\ path[i - 1].this \notin {nil, k} => Cardinality(sub[path[i - 1].this]) <= n
        BY <1>10
    <2>3. path[i] = Onward(t, k, path[i - 1])
        BY <1>8
    <2> HIDE DEF n
    <2>4. n \in Nat /\ n - 1 = MaxKey - i
        BY <2>1 DEF n
    <2>5. OnTheWay(t, S, sub, k, path[i])
        BY <2>2, <2>3, WayGoesOn
    <2>6. path[i].this \notin {nil, k} => Cardinality(sub[path[i].this]) <= n - 1
        BY <2>2, <2>3, <2>4, WayIsShort
    <2>7. QED
        BY <2>1, <2>4, <2>5, <2>6
<1> HIDE DEF B
<1>11. \A i \in N : i \in B
    BY <1>2, <1>9, <1>10, SetInduction
<1> DEFINE r == path[MaxKey]
<1>12. /\ OnTheWay(t, S, sub, k, r)
       /\ r.this \notin {nil, k} => Cardinality(sub[r.this]) <= 0
    <2>1. MaxKey \in B /\ MaxKey - MaxKey = 0
        BY <1>2, <1>11
    <2>2. QED
        BY <2>1 DEF B
<1> HIDE DEF r
<1>13. r.this \in {nil, k}
    <2>1. SUFFICES ASSUME r.this \notin {nil, k} PROVE FALSE
        OBVIOUS
    <2>2. r.this \in S /\ r.this \in Links
        BY <1>12, <2>1, KeysAre DEF OnTheWay, Shape
    <2>3. r.this \in sub[r.this]
        BY <2>2, Near
    <2>4. IsFiniteSet(sub[r.this]) /\ Cardinality(sub[r.this]) = 0
        BY <1>12, <2>1, <2>2, <1>2, SubsAreFinite
    <2>5. QED
        BY <2>3, <2>4, FS_EmptySet
<1>14. r.this = IF k \in S THEN k ELSE nil
    BY <1>12, <1>13, KeysAre DEF OnTheWay, Shape
<1>15. QED
    BY <1>1, <1>12, <1>14 DEF r

-----------------------------------------------------------------------------
(* The least node of a subtree                                             *)

Leftward(t, m) == IF t.node[m].left = nil THEN m ELSE t.node[m].left

\* Whatever is at or below k and not at or below m is greater than what is.
Leftmost(sub, k, m) ==
    m \in sub[k] /\ \A j \in sub[k] \ sub[m], i \in sub[m] : i < j

LEMMA LeftwardIs ==
    ASSUME NEW t, NEW S, NEW sub, Shape(t, S, sub), NEW k \in S, NEW m \in S,
           Leftmost(sub, k, m)
    PROVE  /\ Leftward(t, m) \in S /\ Leftmost(sub, k, Leftward(t, m))
           /\ \A n \in Nat : t.node[m].left # nil /\ Cardinality(sub[m]) <= n =>
                 Cardinality(sub[Leftward(t, m)]) <= n - 1
<1>1. CASE t.node[m].left = nil
    BY <1>1 DEF Leftward
<1>2. CASE t.node[m].left # nil
    <2> DEFINE c == t.node[m].left
    <2>1. "left" \in Sides /\ Other("left") = "right"
        BY DEF Sides, Other
    <2>2. /\ c \in S /\ c \in sub[m] /\ m \in sub[m] /\ m \notin sub[c] /\ sub[c] \subseteq sub[m]
          /\ sub[m] = {m} \cup sub[c] \cup sub[t.node[m].right] /\ c \in sub[c]
          /\ sub[m] \subseteq S /\ sub[k] \subseteq S
        BY <1>2, <2>1, Near
    <2>3. /\ \A j \in sub[c] : j < m
          /\ \A j \in sub[t.node[m].right] : m < j
        BY <2>1, SidesAre DEF Shape, Below
    <2>4. Leftward(t, m) = c
        BY <1>2 DEF Leftward
    <2> HIDE DEF c
    <2>5. \A j \in S : j \in Nat
        BY KeysAre DEF Shape
    <2>6. sub[m] \subseteq sub[k]
        BY Deep DEF Leftmost
    <2>7. Leftmost(sub, k, c)
        <3>1. c \in sub[k]
            BY <2>2, <2>6
        <3>2. ASSUME NEW j \in sub[k] \ sub[c], NEW i \in sub[c] PROVE i < j
            <4>1. i \in Nat /\ j \in Nat /\ m \in Nat /\ i < m
                BY <2>2, <2>3, <2>5
            <4>2. CASE j \notin sub[m]
                BY <2>2, <4>2 DEF Leftmost
            <4>3. CASE j \in sub[m]
                BY <2>2, <2>3, <4>1, <4>3
            <4>4. QED
                BY <4>2, <4>3
        <3>3. QED
            BY <3>1, <3>2 DEF Leftmost
    <2>8. m \in Links /\ c \in Links
        BY <2>2, KeysAre DEF Shape
    <2>9. /\ IsFiniteSet(sub[m]) /\ Cardinality(sub[m]) \in Nat /\ Cardinality(sub[c]) \in Nat
        BY <2>8, SubsAreFinite
    <2>10. Cardinality(sub[c]) < Cardinality(sub[m])
        BY <2>2, <2>9, FS_Subset
    <2>11. \A n \in Nat : Cardinality(sub[m]) <= n => Cardinality(sub[c]) <= n - 1
        BY <2>9, <2>10
    <2>12. QED
        BY <2>2, <2>4, <2>7, <2>11
<1>3. QED
    BY <1>1, <1>2

LEMMA MinimumIs ==
    ASSUME NEW t, NEW S, NEW sub, Shape(t, S, sub), NEW k \in S
    PROVE  LET y == Minimum(t, k)
           IN  /\ y \in sub[k] /\ y \in S /\ t.node[y].left = nil
               /\ \A j \in sub[k] : j = y \/ y < j
<1> DEFINE N == 0 .. MaxKey
           IsPath(f) == f = [i \in N |->
               IF i = 0 THEN k
               ELSE LET x == f[i - 1] IN IF t.node[x].left = nil THEN x ELSE t.node[x].left]
           path == CHOOSE f : IsPath(f)
           g == [m \in S |-> IF t.node[m].left = nil THEN m ELSE t.node[m].left]
<1>1. Minimum(t, k) = path[MaxKey]
    BY DEF Minimum
<1>2. MaxKey \in Nat /\ t \in Trees /\ "left" \in Sides
    BY KeysAre DEF Shape, Sides
<1>3. g \in [S -> S]
    <2>1. \A m \in S : t.node[m].left \in S \cup {nil}
        BY <1>2, Near
    <2>2. QED
        BY <2>1
<1>4. PICK f \in [N -> S] : f[0] = k /\ \A i \in 1 .. MaxKey : f[i] = g[f[i - 1]]
    <2> HIDE DEF g, IsPath, path
    <2>1. \E f : Iterated(f, S, k, g, MaxKey)
        BY <1>2, <1>3, IteratesExist
    <2>2. QED
        BY <2>1 DEF Iterated
<1>5. IsPath(f)
    <2>1. ASSUME NEW i \in N
          PROVE  f[i] = IF i = 0 THEN k ELSE Leftward(t, f[i - 1])
        <3>1. CASE i = 0
            BY <1>4, <3>1
        <3>2. CASE i # 0
            <4>1. i \in 1 .. MaxKey /\ i - 1 \in N
                BY <1>2, <3>2
            <4>2. f[i] = g[f[i - 1]] /\ f[i - 1] \in S
                BY <1>4, <4>1
            <4>3. QED
                BY <3>2, <4>2 DEF Leftward
        <3>3. QED
            BY <3>1, <3>2
    <2>2. f = [i \in N |-> IF i = 0 THEN k ELSE Leftward(t, f[i - 1])]
        BY <1>4, <2>1
    <2>3. QED
        BY <2>2 DEF Leftward
<1>6. path = [i \in N |-> IF i = 0 THEN k ELSE Leftward(t, path[i - 1])]
    <2>1. IsPath(path)
        <3> HIDE DEF IsPath
        <3>1. QED
            BY <1>5
    <2> HIDE DEF path
    <2>2. QED
        BY <2>1 DEF Leftward
<1> HIDE DEF path
<1>7. /\ path[0] = k
      /\ \A i \in 1 .. MaxKey : path[i] = Leftward(t, path[i - 1])
    BY <1>2, <1>6
<1> DEFINE B == {i \in N : /\ path[i] \in S /\ Leftmost(sub, k, path[i])
                           /\ t.node[path[i]].left # nil =>
                                 Cardinality(sub[path[i]]) <= MaxKey - i}
<1>8. 0 \in B
    <2>1. k \in sub[k] /\ k \in Links
        BY Near, KeysAre
    <2>2. Cardinality(sub[k]) <= MaxKey - 0
        BY <1>2, <2>1, SubsAreFinite
    <2>3. QED
        BY <1>2, <1>7, <2>1, <2>2 DEF Leftmost
<1>9. ASSUME NEW i \in 1 .. MaxKey, i - 1 \in B PROVE i \in B
    <2> DEFINE n == MaxKey - (i - 1)  m == path[i - 1]
    <2>1. n \in Nat /\ i \in N /\ n - 1 = MaxKey - i
        BY <1>2
    <2>2. /\ m \in S /\ Leftmost(sub, k, m)
          /\ t.node[m].left # nil => Cardinality(sub[m]) <= n
        BY <1>9
    <2>3. path[i] = Leftward(t, m)
        BY <1>7
    <2> HIDE DEF n, m
    <2>4. path[i] \in S /\ Leftmost(sub, k, path[i])
        BY <2>2, <2>3, LeftwardIs
    <2>5. t.node[path[i]].left # nil => Cardinality(sub[path[i]]) <= n - 1
        <3>1. t.node[path[i]].left # nil => t.node[m].left # nil
            BY <2>3 DEF Leftward
        <3>2. QED
            BY <2>1, <2>2, <2>3, <3>1, LeftwardIs
    <2>6. QED
        BY <2>1, <2>4, <2>5
<1> HIDE DEF B
<1>10. \A i \in N : i \in B
    BY <1>2, <1>8, <1>9, SetInduction
<1> DEFINE y == path[MaxKey]
<1>11. /\ y \in S /\ Leftmost(sub, k, y)
       /\ t.node[y].left # nil => Cardinality(sub[y]) <= 0
    <2>1. MaxKey \in B /\ MaxKey - MaxKey = 0
        BY <1>2, <1>10
    <2>2. QED
        BY <2>1 DEF B
<1> HIDE DEF y
<1>12. t.node[y].left = nil
    <2>1. SUFFICES ASSUME t.node[y].left # nil PROVE FALSE
        OBVIOUS
    <2>2. y \in sub[y] /\ y \in Links
        BY <1>11, Near, KeysAre
    <2>3. IsFiniteSet(sub[y]) /\ Cardinality(sub[y]) = 0
        BY <1>2, <1>11, <2>1, <2>2, SubsAreFinite
    <2>4. QED
        BY <2>2, <2>3, FS_EmptySet
<1>13. ASSUME NEW j \in sub[k] PROVE j = y \/ y < j
    <2>1. y \in sub[y]
        BY <1>11, Near
    <2>2. CASE j \notin sub[y]
        BY <1>11, <2>1, <2>2 DEF Leftmost
    <2>3. CASE j \in sub[y]
        <3>1. "right" \in Sides /\ sub[nil] = {}
              /\ sub[y] = {y} \cup sub[t.node[y].left] \cup sub[t.node[y].right]
            BY <1>11 DEF Shape, Sides
        <3>2. \A i \in sub[t.node[y].right] : Below("right", i, y)
            BY <1>11, <3>1 DEF Shape
        <3>3. QED
            BY <1>12, <2>3, <3>1, <3>2 DEF Below
    <2>4. QED
        BY <2>2, <2>3
<1>14. QED
    BY <1>1, <1>11, <1>12, <1>13 DEF Leftmost, y

-----------------------------------------------------------------------------
(* What transplanting and rotating do to each link                         *)

\* Node u is a child of its parent, on one side, and of no other node.
Hung(t, u) ==
    /\ \A j \in Keys, q \in Sides : t.node[j][q] = u => j = t.node[u].parent
    /\ t.node[u].parent # nil =>
          \E q \in Sides : /\ t.node[t.node[u].parent][q] = u
                           /\ t.node[t.node[u].parent][Other(q)] # u

LEMMA ShapeHangs ==
    ASSUME NEW t, NEW S, NEW sub, Shape(t, S, sub), NEW u \in S
    PROVE  Hung(t, u) /\ u \in Keys /\ u # nil
<1>1. u \in Keys /\ u # nil
    BY Near
<1>2. ASSUME NEW j \in Keys, NEW q \in Sides, t.node[j][q] = u PROVE j = t.node[u].parent
    <2>1. CASE j \in S
        BY <1>1, <1>2, <2>1, Near
    <2>2. CASE j \notin S
        <3>1. t.node[j] = Unused
            BY <2>2 DEF Shape
        <3>2. t.node[j][q] = nil
            BY <3>1 DEF Unused, Sides
        <3>3. QED
            BY <1>1, <1>2, <3>2
    <2>3. QED
        BY <2>1, <2>2
<1>3. ASSUME t.node[u].parent # nil
      PROVE  \E q \in Sides : /\ t.node[t.node[u].parent][q] = u
                              /\ t.node[t.node[u].parent][Other(q)] # u
    <2>1. t.node[u].parent \in S
        BY <1>3, Parents
    <2>2. PICK q \in Sides : t.node[t.node[u].parent][q] = u
        BY <1>3, Parents
    <2>3. t.node[t.node[u].parent][Other(q)] # u
        BY <1>1, <2>1, <2>2, Near
    <2>4. QED
        BY <2>2, <2>3
<1>4. QED
    BY <1>1, <1>2, <1>3 DEF Hung

\* Whatever led to u leads to v, and v is below what u was below.
Moved(t, r, u, v) ==
    /\ r \in Trees
    /\ r.root = IF t.node[u].parent = nil THEN v ELSE t.root
    /\ \A j \in Keys : r.node[j].red = t.node[j].red
    /\ \A j \in Keys : r.node[j].parent = IF j = v THEN t.node[u].parent ELSE t.node[j].parent
    /\ \A j \in Keys, q \in Sides : r.node[j][q] = IF t.node[j][q] = u THEN v ELSE t.node[j][q]

LEMMA TransplantIs ==
    ASSUME NEW t \in Trees, NEW u \in Keys, NEW v \in Links, Hung(t, u)
    PROVE  Moved(t, Transplant(t, u, v), u, v)
<1> DEFINE p == t.node[u].parent
           d == SideOf(t, u)
           down == IF p = nil THEN [t EXCEPT !.root = v] ELSE Set(t, p, d, v)
           r == Set(down, v, "parent", p)
<1>1. Transplant(t, u, v) = r
    BY DEF Transplant
<1>2. /\ p \in Links /\ d \in Sides /\ d \in LinkFields /\ "parent" \in LinkFields
    BY TreesAre DEF SideOf, Sides, LinkFields
<1>3. ASSUME p # nil
      PROVE  \A j \in Keys, q \in Sides : t.node[j][q] = u <=> j = p /\ q = d
    <2>1. PICK e \in Sides : t.node[p][e] = u /\ t.node[p][Other(e)] # u
        BY <1>3 DEF Hung
    <2>2. d = IF t.node[p]["left"] = u THEN "left" ELSE "right"
        BY DEF SideOf
    <2>3. Other("left") = "right" /\ Other("right") = "left"
        BY DEF Other
    <2>4. e = d
        BY <2>1, <2>2, <2>3 DEF Sides
    <2>5. \A q \in Sides : q = d \/ q = Other(d)
        BY <1>2, SidesAre
    <2>6. p \in Keys
        BY <1>2, <1>3, KeysAre
    <2>7. QED
        BY <2>1, <2>4, <2>5, <2>6 DEF Hung
<1>4. ASSUME p = nil PROVE \A j \in Keys, q \in Sides : t.node[j][q] # u
    BY <1>4, KeysAre DEF Hung
<1> HIDE DEF p, d
<1>5. /\ down \in Trees /\ down.root = IF p = nil THEN v ELSE t.root
      /\ \A j \in Keys : down.node[j].red = t.node[j].red /\ down.node[j].parent = t.node[j].parent
      /\ \A j \in Keys, q \in Sides : down.node[j][q] = IF t.node[j][q] = u THEN v ELSE t.node[j][q]
    <2>1. CASE p = nil
        <3>1. t = [root |-> t.root, node |-> t.node] /\ t.node \in [Keys -> Nodes]
            BY DEF Trees
        <3>2. down = [root |-> v, node |-> t.node]
            BY <2>1, <3>1
        <3>3. QED
            BY <2>1, <1>4, <3>1, <3>2 DEF Trees
    <2>2. CASE p # nil
        <3>1. down = Set(t, p, d, v)
            BY <2>2
        <3>2. /\ down \in Trees /\ down.root = t.root
              /\ \A j \in Keys : down.node[j].red = t.node[j].red
              /\ \A j \in Keys, h \in LinkFields :
                    down.node[j][h] = IF j = p /\ h = d THEN v ELSE t.node[j][h]
            <4>1. Relinked(t, down, p, d, v)
                BY <1>2, <3>1, SetIs
            <4>2. QED
                BY <4>1 DEF Relinked
        <3> HIDE DEF down
        <3>3. \A j \in Keys : down.node[j]["parent"] = t.node[j]["parent"]
            BY <1>2, <3>2, SidesAre
        <3>4. \A j \in Keys, q \in Sides : down.node[j][q] = IF t.node[j][q] = u THEN v ELSE t.node[j][q]
            BY <1>3, <2>2, <3>2, SidesAre
        <3>5. QED
            BY <2>2, <3>2, <3>3, <3>4
    <2>3. QED
        BY <2>1, <2>2
<1> HIDE DEF down
<1>6. /\ r \in Trees /\ r.root = down.root
      /\ \A j \in Keys : r.node[j].red = down.node[j].red
      /\ \A j \in Keys, h \in LinkFields :
            r.node[j][h] = IF j = v /\ h = "parent" THEN p ELSE down.node[j][h]
    <2>1. Relinked(down, r, v, "parent", p)
        BY <1>2, <1>5, SetIs
    <2>2. QED
        BY <2>1 DEF Relinked
<1> HIDE DEF r
<1>7. \A j \in Keys : r.node[j]["parent"] = IF j = v THEN p ELSE t.node[j]["parent"]
    BY <1>2, <1>5, <1>6
<1>8. \A j \in Keys, q \in Sides : r.node[j][q] = IF t.node[j][q] = u THEN v ELSE t.node[j][q]
    BY <1>5, <1>6, SidesAre
<1>9. QED
    BY <1>1, <1>5, <1>6, <1>7, <1>8 DEF Moved, p

\* The child x of y and y change places, and a child of x changes sides.
Turned(t, r, y, s, x, inner) ==
    /\ r \in Trees
    /\ r.root = IF t.node[y].parent = nil THEN x ELSE t.root
    /\ \A j \in Keys : r.node[j].red = t.node[j].red
    /\ \A j \in Keys : r.node[j].parent =
          IF j = y THEN x ELSE IF j = x THEN t.node[y].parent ELSE IF j = inner THEN y
          ELSE t.node[j].parent
    /\ \A j \in Keys, q \in Sides : r.node[j][q] =
          IF j = x /\ q = s THEN y ELSE IF j = y /\ q = Other(s) THEN inner
          ELSE IF t.node[j][q] = y THEN x ELSE t.node[j][q]

\* Three generations of a tree: y, its child x, and the child inner of that one.
LEMMA Generations ==
    ASSUME NEW t, NEW S, NEW sub, Shape(t, S, sub), NEW y \in S, NEW s \in Sides,
           NEW x, x = t.node[y][Other(s)], x # nil, NEW inner, inner = t.node[x][s]
    PROVE  /\ x \in S /\ x \in Keys /\ y \in Keys /\ y # nil /\ x # y
           /\ inner \in S \cup {nil} /\ inner \in Links /\ inner # x /\ inner # y
           /\ t.node[x].parent = y /\ (inner # nil => t.node[inner].parent = x)
           /\ t.node[y].parent \in Links /\ t.node[y].parent \notin {x, y}
           /\ (inner # nil => t.node[y].parent # inner)
<1>1. Other(s) \in Sides /\ Other(Other(s)) = s
    BY SidesAre
<1>2. x \in S /\ x \in Keys /\ y \in Keys /\ y # nil /\ x # y /\ t.node[x].parent = y
    BY <1>1, Near, KeysAre
<1>3. inner \in S \cup {nil} /\ inner # x /\ (inner # nil => t.node[inner].parent = x)
    BY <1>2, Near
<1>4. inner \in Links /\ t.node[y].parent \in Links
    BY <1>2, <1>3, KeysAre, TreesAre, SidesAre DEF Shape
<1>5. x \in sub[y] /\ y \notin sub[x] /\ sub[x] \subseteq sub[y] /\ (inner # nil => inner \in sub[x])
    BY <1>1, <1>2, Near
<1>6. t.node[y].parent # y
    BY <1>2, Parents
<1>7. ASSUME t.node[y].parent \in S PROVE y \in sub[t.node[y].parent] /\ t.node[y].parent \notin sub[y]
    <2> DEFINE p == t.node[y].parent
    <2>0. y # t.root
        BY <1>7, Parents, KeysAre DEF Shape
    <2>1. PICK q \in Sides : t.node[p][q] = y
        BY <2>0, Parents
    <2>2. y \in sub[p] /\ p \notin sub[t.node[p][q]]
        BY <1>2, <1>7, <2>1, Near
    <2>3. QED
        BY <2>1, <2>2
<1>8. t.node[y].parent \in S \cup {nil} /\ nil \notin S
    <2>1. nil \notin S
        BY KeysAre DEF Shape
    <2>2. QED
        BY <2>1, Parents
<1>9. t.node[y].parent # x
    BY <1>2, <1>5, <1>7
<1>10. inner # nil => t.node[y].parent # inner
    BY <1>3, <1>5, <1>7
<1>11. inner # y
    BY <1>2, <1>5
<1>12. QED
    BY <1>2, <1>3, <1>4, <1>6, <1>9, <1>10, <1>11

LEMMA RotateIs ==
    ASSUME NEW t, NEW S, NEW sub, Shape(t, S, sub), NEW y \in S, NEW s \in Sides,
           NEW x, x = t.node[y][Other(s)], x # nil, NEW inner, inner = t.node[x][s]
    PROVE  Turned(t, Rotate(t, y, s), y, s, x, inner)
<1> DEFINE o == Other(s)  p == t.node[y].parent
           a == Set(t, y, o, inner)
           moved == Set(a, inner, "parent", y)
           b == Transplant(moved, y, x)
           c == Set(b, x, s, y)
           r == Set(c, y, "parent", x)
<1>1. Rotate(t, y, s) = r
    <2>1. Rotate(t, y, s) = Lift(t, y, s, x, inner)
        BY DEF Rotate
    <2>2. Lift(t, y, s, x, inner) = r
        BY DEF Lift
    <2>3. QED
        BY <2>1, <2>2
<1>2. /\ x \in S /\ x \in Keys /\ y \in Keys /\ y # nil /\ x # y
      /\ inner \in S \cup {nil} /\ inner \in Links /\ inner # x /\ inner # y
      /\ t.node[x].parent = y /\ (inner # nil => t.node[inner].parent = x)
      /\ p \in Links /\ p \notin {x, y} /\ (inner # nil => p # inner)
    BY Generations
<1>3. /\ o \in Sides /\ o \in LinkFields /\ s \in LinkFields /\ "parent" \in LinkFields
      /\ o # s /\ o # "parent" /\ s # "parent" /\ Other(o) = s /\ x \in Links /\ y \in Links
      /\ t \in Trees /\ \A q \in Sides : q \in LinkFields /\ q # "parent"
    BY <1>2, SidesAre, KeysAre DEF Shape
<1>4. Hung(t, y)
    BY ShapeHangs
<1> HIDE DEF o, p
<1>5. /\ a \in Trees /\ a.root = t.root
      /\ \A j \in Keys : a.node[j].red = t.node[j].red
      /\ \A j \in Keys, h \in LinkFields : a.node[j][h] = IF j = y /\ h = o THEN inner ELSE t.node[j][h]
    <2>1. Relinked(t, a, y, o, inner)
        BY <1>2, <1>3, SetIs
    <2>2. QED
        BY <2>1 DEF Relinked
<1> HIDE DEF a
<1>6. /\ moved \in Trees /\ moved.root = a.root
      /\ \A j \in Keys : moved.node[j].red = a.node[j].red
      /\ \A j \in Keys, h \in LinkFields :
            moved.node[j][h] = IF j = inner /\ h = "parent" THEN y ELSE a.node[j][h]
    <2>1. Relinked(a, moved, inner, "parent", y)
        BY <1>2, <1>3, <1>5, SetIs
    <2>2. QED
        BY <2>1 DEF Relinked
<1> HIDE DEF moved
<1>7. /\ \A j \in Keys, q \in Sides : moved.node[j][q] = IF j = y /\ q = o THEN inner ELSE t.node[j][q]
      /\ \A j \in Keys : moved.node[j]["parent"] = IF j = inner THEN y ELSE t.node[j]["parent"]
    BY <1>3, <1>5, <1>6
<1>8. Hung(moved, y)
    <2>1. moved.node[y]["parent"] = p
        BY <1>2, <1>7 DEF p
    <2>2. \A j \in Keys, q \in Sides : moved.node[j][q] = y => j = p
        BY <1>2, <1>4, <1>7 DEF Hung, p
    <2>3. ASSUME p # nil PROVE \E q \in Sides : moved.node[p][q] = y /\ moved.node[p][Other(q)] # y
        <3>1. PICK q \in Sides : t.node[p][q] = y /\ t.node[p][Other(q)] # y
            BY <1>4, <2>3 DEF Hung, p
        <3>2. Other(q) \in Sides /\ p \in Keys /\ p # y
            BY <1>2, <2>3, SidesAre, KeysAre
        <3>3. moved.node[p][q] = y /\ moved.node[p][Other(q)] # y
            BY <1>7, <3>1, <3>2
        <3>4. QED
            BY <3>3
    <2>4. QED
        BY <2>1, <2>2, <2>3 DEF Hung
<1>9. Moved(moved, b, y, x)
    BY <1>2, <1>3, <1>6, <1>8, TransplantIs
<1> HIDE DEF b
<1>10. /\ b \in Trees /\ b.root = IF p = nil THEN x ELSE t.root
       /\ \A j \in Keys : b.node[j].red = t.node[j].red
       /\ \A j \in Keys : b.node[j]["parent"] = IF j = x THEN p ELSE moved.node[j]["parent"]
       /\ \A j \in Keys, q \in Sides :
             b.node[j][q] = IF moved.node[j][q] = y THEN x ELSE moved.node[j][q]
    <2>1. moved.node[y]["parent"] = p
        BY <1>2, <1>7 DEF p
    <2>2. QED
        BY <1>5, <1>6, <1>9, <2>1 DEF Moved
<1>11. /\ c \in Trees /\ c.root = b.root
       /\ \A j \in Keys : c.node[j].red = b.node[j].red
       /\ \A j \in Keys, h \in LinkFields : c.node[j][h] = IF j = x /\ h = s THEN y ELSE b.node[j][h]
    <2>1. Relinked(b, c, x, s, y)
        BY <1>2, <1>3, <1>10, SetIs
    <2>2. QED
        BY <2>1 DEF Relinked
<1> HIDE DEF c
<1>12. /\ r \in Trees /\ r.root = c.root
       /\ \A j \in Keys : r.node[j].red = c.node[j].red
       /\ \A j \in Keys, h \in LinkFields :
             r.node[j][h] = IF j = y /\ h = "parent" THEN x ELSE c.node[j][h]
    <2>1. Relinked(c, r, y, "parent", x)
        BY <1>2, <1>3, <1>11, SetIs
    <2>2. QED
        BY <2>1 DEF Relinked
<1> HIDE DEF r
<1>13. ASSUME NEW j \in Keys
       PROVE  r.node[j]["parent"] = IF j = y THEN x ELSE IF j = x THEN p ELSE IF j = inner THEN y
                                    ELSE t.node[j]["parent"]
    <2>1. c.node[j]["parent"] = b.node[j]["parent"]
        BY <1>3, <1>11
    <2>2. r.node[j]["parent"] = IF j = y THEN x ELSE c.node[j]["parent"]
        BY <1>3, <1>12
    <2>3. QED
        BY <1>7, <1>10, <2>1, <2>2
<1>14. ASSUME NEW j \in Keys, NEW q \in Sides
       PROVE  r.node[j][q] = IF j = x /\ q = s THEN y ELSE IF j = y /\ q = o THEN inner
                             ELSE IF t.node[j][q] = y THEN x ELSE t.node[j][q]
    <2>1. c.node[j][q] = IF j = x /\ q = s THEN y ELSE b.node[j][q]
        BY <1>3, <1>11
    <2>2. r.node[j][q] = c.node[j][q]
        BY <1>3, <1>12
    <2>3. b.node[j][q] = IF j = y /\ q = o THEN inner ELSE IF t.node[j][q] = y THEN x ELSE t.node[j][q]
        BY <1>2, <1>7, <1>10
    <2>4. QED
        BY <1>2, <2>1, <2>2, <2>3
<1>15. r.root = (IF p = nil THEN x ELSE t.root) /\ \A j \in Keys : r.node[j].red = t.node[j].red
    BY <1>10, <1>11, <1>12
<1>16. QED
    BY <1>1, <1>12, <1>13, <1>14, <1>15 DEF Turned, o, p

-----------------------------------------------------------------------------
(* Painting and rotating leave a search tree of the same nodes             *)

LEMMA PaintShape ==
    ASSUME NEW t, NEW S, NEW sub, Shape(t, S, sub), NEW k \in S \cup {nil}, NEW v \in BOOLEAN,
           NEW r, Repainted(t, r, k, v)
    PROVE  Shape(r, S, sub)
<1>1. /\ r \in Trees /\ r.root = t.root
      /\ \A j \in Keys : r.node[j].left = t.node[j].left /\ r.node[j].right = t.node[j].right
                         /\ r.node[j].parent = t.node[j].parent
      /\ \A j \in Keys, s \in Sides : r.node[j][s] = t.node[j][s]
    <2>1. \A j \in Keys, h \in LinkFields : r.node[j][h] = t.node[j][h]
        BY DEF Repainted
    <2>2. "left" \in LinkFields /\ "right" \in LinkFields /\ "parent" \in LinkFields
          /\ \A s \in Sides : s \in LinkFields
        BY DEF LinkFields, Sides
    <2>3. QED
        BY <2>1, <2>2 DEF Repainted
<1>2. S \in SUBSET Keys /\ nil \notin S
    BY KeysAre DEF Shape
<1>3. ASSUME NEW j \in Keys \ S PROVE r.node[j] = Unused
    <2>1. t.node[j] = Unused /\ r.node[j] \in Nodes /\ r.node[j].red = t.node[j].red
        <3>1. j # k
            BY <1>2, KeysAre
        <3>2. QED
            BY <3>1 DEF Shape, Repainted, Trees
    <2>2. r.node[j].left = nil /\ r.node[j].right = nil /\ r.node[j].parent = nil
          /\ r.node[j].red = FALSE
        BY <1>1, <2>1 DEF Unused
    <2>3. QED
        BY <2>1, <2>2 DEF Nodes, Unused
<1>4. ASSUME NEW a \in S
      PROVE  /\ sub[a] = {a} \cup sub[r.node[a].left] \cup sub[r.node[a].right]
             /\ \A s \in Sides :
                   /\ r.node[a][s] \in S \cup {nil}
                   /\ r.node[a][s] # nil => r.node[r.node[a][s]].parent = a
                   /\ \A j \in sub[r.node[a][s]] : Below(s, j, a)
    <2>1. a \in Keys
        BY <1>2
    <2>2. sub[a] = {a} \cup sub[r.node[a].left] \cup sub[r.node[a].right]
        BY <1>1, <2>1 DEF Shape
    <2>3. ASSUME NEW s \in Sides
          PROVE  /\ r.node[a][s] \in S \cup {nil}
                 /\ r.node[a][s] # nil => r.node[r.node[a][s]].parent = a
                 /\ \A j \in sub[r.node[a][s]] : Below(s, j, a)
        <3>1. r.node[a][s] = t.node[a][s]
            BY <1>1, <2>1
        <3>2. /\ t.node[a][s] \in S \cup {nil}
              /\ t.node[a][s] # nil => t.node[t.node[a][s]].parent = a
              /\ \A j \in sub[t.node[a][s]] : Below(s, j, a)
            BY DEF Shape
        <3>3. t.node[a][s] # nil => t.node[a][s] \in Keys
            BY <1>2, <3>2
        <3>4. QED
            BY <1>1, <3>1, <3>2, <3>3
    <2>4. QED
        BY <2>2, <2>3
<1>5. r.root # nil => r.root \in S /\ r.node[r.root].parent = nil
    BY <1>1, <1>2 DEF Shape
<1>6. QED
    BY <1>1, <1>3, <1>4, <1>5 DEF Shape

\* The nodes at and below each node, once y was turned to side s.
TurnedSub(t, sub, y, s, x, inner) ==
    [a \in Links |-> IF a = x THEN sub[y]
                     ELSE IF a = y THEN {y} \cup sub[t.node[y][s]] \cup sub[inner]
                     ELSE sub[a]]

LEMMA RotateShape ==
    ASSUME NEW t, NEW S, NEW sub, Shape(t, S, sub), NEW y \in S, NEW s \in Sides,
           NEW x, x = t.node[y][Other(s)], x # nil, NEW inner, inner = t.node[x][s],
           NEW r, Turned(t, r, y, s, x, inner)
    PROVE  Shape(r, S, TurnedSub(t, sub, y, s, x, inner))
<1> DEFINE o == Other(s)  p == t.node[y].parent  z == t.node[y][s]
           new == TurnedSub(t, sub, y, s, x, inner)
<1>1. /\ x \in S /\ x \in Keys /\ y \in Keys /\ y # nil /\ x # y
      /\ inner \in S \cup {nil} /\ inner \in Links /\ inner # x /\ inner # y
      /\ t.node[x].parent = y /\ (inner # nil => t.node[inner].parent = x)
      /\ p \in Links /\ p \notin {x, y} /\ (inner # nil => p # inner)
    BY Generations
<1>2. /\ o \in Sides /\ o # s /\ Other(o) = s /\ \A q \in Sides : q = s \/ q = o
      /\ S \in SUBSET Keys /\ nil \notin S /\ \A j \in S : j \in Links
      /\ Links = Keys \cup {nil} /\ nil \notin Keys /\ sub[nil] = {}
    BY SidesAre, KeysAre DEF Shape
<1>3. /\ z \in S \cup {nil} /\ z # x /\ z # y
      /\ sub[y] = {y} \cup sub[z] \cup sub[x] /\ sub[z] \subseteq S /\ sub[x] \subseteq S
      /\ z # inner \/ z = nil
    <2> HIDE DEF z, o, p, new
    <2>1. /\ z \in S \cup {nil} /\ sub[y] = {y} \cup sub[z] \cup sub[x] /\ sub[y] \subseteq S
          /\ z # nil => z # y /\ z # x /\ t.node[z].parent = y
        <3>1. Kin(t, S, sub, y)
            BY KinOf
        <3>2. /\ t.node[y][s] \in S \cup {nil} /\ sub[y] \subseteq S
              /\ t.node[y][s] # nil => /\ t.node[t.node[y][s]].parent = y /\ t.node[y][s] # y
                                       /\ t.node[y][s] # x
              /\ sub[y] = {y} \cup sub[t.node[y][s]] \cup sub[x]
            BY <3>1 DEF Kin
        <3>3. QED
            BY <3>2 DEF z
    <2>2. QED
        BY <1>1, <2>1
<1>4. /\ sub[x] = {x} \cup sub[inner] \cup sub[t.node[x][o]] /\ sub[inner] \subseteq S
      /\ t.node[x][o] # y /\ t.node[x][o] # x /\ t.node[x][o] \in S \cup {nil}
    <2> HIDE DEF o, p, z, new
    <2>1. Kin(t, S, sub, x) /\ Kin(t, S, sub, y)
        BY <1>1, KinOf
    <2>2. /\ sub[x] = {x} \cup sub[inner] \cup sub[t.node[x][o]]
          /\ sub[inner] \subseteq sub[x] /\ sub[x] \subseteq S
        BY <2>1 DEF Kin, o
    <2>3. /\ t.node[x][o] # x /\ t.node[x][o] \in S \cup {nil}
          /\ t.node[x][o] # nil => t.node[x][o] \in sub[x]
        BY <1>2, <2>1 DEF Kin
    <2>4. y \notin sub[x]
        BY <1>2, <2>1 DEF Kin, o
    <2>5. t.node[x][o] # y
        BY <1>1, <2>3, <2>4
    <2>6. QED
        BY <2>2, <2>3, <2>5
<1>5. /\ \A j \in Keys : r.node[j].parent =
            IF j = y THEN x ELSE IF j = x THEN p ELSE IF j = inner THEN y ELSE t.node[j].parent
      /\ \A j \in Keys, q \in Sides : r.node[j][q] =
            IF j = x /\ q = s THEN y ELSE IF j = y /\ q = o THEN inner
            ELSE IF t.node[j][q] = y THEN x ELSE t.node[j][q]
      /\ r \in Trees /\ r.root = (IF p = nil THEN x ELSE t.root)
      /\ \A j \in Keys : r.node[j].red = t.node[j].red
    BY DEF Turned
<1>6. \A j \in S, q \in Sides : t.node[j][q] = x => j = y /\ q = o
    <2>1. ASSUME NEW j \in S, NEW q \in Sides, t.node[j][q] = x PROVE j = y /\ q = o
        <3>1. t.node[y][o] = x /\ o \in Sides
            BY <1>2
        <3>2. t.node[j][q] # nil /\ t.node[j][q] = t.node[y][o]
            BY <2>1, <3>1
        <3>3. QED
            BY <3>1, <3>2, OneParent
    <2>2. QED
        BY <2>1
<1>7. /\ new[x] = sub[y] /\ new[y] = {y} \cup sub[z] \cup sub[inner]
      /\ \A j \in Links : j # x /\ j # y => new[j] = sub[j]
    BY <1>1, <1>2 DEF TurnedSub
<1>8. new \in [Links -> SUBSET S]
    <2>1. sub[y] \subseteq S /\ y \in S /\ sub \in [Links -> SUBSET S]
        <3>1. sub \in [Links -> SUBSET S] /\ y \in Links
            BY <1>1, <1>2 DEF Shape
        <3>2. QED
            BY <3>1
    <2>2. QED
        BY <1>3, <1>4, <2>1 DEF TurnedSub
<1> HIDE DEF o, p, z, new
\* the two that turned
<1>10. /\ r.node[x][s] = y /\ r.node[x][o] = t.node[x][o]
       /\ r.node[y][o] = inner /\ r.node[y][s] = z
       /\ r.node[x].parent = p /\ r.node[y].parent = x
    <2>1. r.node[x].parent = p /\ r.node[y].parent = x
        BY <1>1, <1>5
    <2>2. t.node[y][s] = z /\ s \in Sides
        BY DEF z
    <2>3. r.node[x][s] = y
        BY <1>1, <1>2, <1>5
    <2>4. r.node[x][o] = t.node[x][o]
        <3>1. x \in Keys /\ o \in Sides /\ o # s /\ x # y /\ t.node[x][o] # y
            BY <1>1, <1>2, <1>4
        <3>2. r.node[x][o] = IF x = x /\ o = s THEN y ELSE IF x = y /\ o = o THEN inner
                             ELSE IF t.node[x][o] = y THEN x ELSE t.node[x][o]
            BY <1>5, <3>1
        <3>3. QED
            BY <3>1, <3>2
    <2>5. r.node[y][o] = inner
        BY <1>1, <1>2, <1>5
    <2>6. r.node[y][s] = z
        BY <1>1, <1>2, <1>3, <1>5, <2>2
    <2>7. QED
        BY <2>1, <2>3, <2>4, <2>5, <2>6
<1>11. /\ new[t.node[x][o]] = sub[t.node[x][o]] /\ new[inner] = sub[inner] /\ new[z] = sub[z]
    BY <1>1, <1>2, <1>3, <1>4, <1>7
<1>12. /\ new[x] = {x} \cup new[r.node[x][s]] \cup new[r.node[x][o]]
       /\ new[y] = {y} \cup new[r.node[y][s]] \cup new[r.node[y][o]]
    BY <1>3, <1>4, <1>7, <1>10, <1>11
<1>13. /\ \A j \in sub[z] : Below(s, j, y)
       /\ \A j \in sub[x] : Below(o, j, y)
       /\ \A j \in sub[inner] : Below(s, j, x)
       /\ \A j \in sub[t.node[x][o]] : Below(o, j, x)
    BY <1>1, <1>2 DEF Shape, z, o
<1>14. \A j \in new[y] : Below(s, j, x)
    <2>1. Below(o, x, y)
        <3>1. Kin(t, S, sub, x)
            BY <1>1, KinOf
        <3>2. x \in sub[x]
            BY <3>1 DEF Kin
        <3>3. QED
            BY <1>13, <3>2
    <2>2. x \in Nat /\ y \in Nat /\ \A j \in sub[z] : j \in Nat
        BY <1>1, <1>2, <1>3, KeysAre
    <2>3. Below(s, y, x)
        BY <1>2, <2>1, <2>2 DEF Below, Sides
    <2>4. ASSUME NEW j \in sub[z] PROVE Below(s, j, x)
        <3>1. Below(s, j, y) /\ j \in Nat
            BY <1>13, <2>2
        <3>2. QED
            BY <2>2, <2>3, <3>1 DEF Below
    <2>5. QED
        BY <1>7, <1>13, <2>3, <2>4
\* a node that stays where it is
<1>15. ASSUME NEW a \in S, a # x, a # y
       PROVE  /\ new[a] = {a} \cup new[r.node[a].left] \cup new[r.node[a].right]
              /\ \A q \in Sides :
                    /\ r.node[a][q] \in S \cup {nil}
                    /\ r.node[a][q] # nil => r.node[r.node[a][q]].parent = a
                    /\ \A j \in new[r.node[a][q]] : Below(q, j, a)
    <2>1. ASSUME NEW q \in Sides
          PROVE  /\ new[r.node[a][q]] = sub[t.node[a][q]]
                 /\ r.node[a][q] \in S \cup {nil}
                 /\ r.node[a][q] # nil => r.node[r.node[a][q]].parent = a
        <3>1. r.node[a][q] = IF t.node[a][q] = y THEN x ELSE t.node[a][q]
            BY <1>2, <1>5, <1>15
        <3>2. t.node[a][q] \in S \cup {nil} /\ (t.node[a][q] # nil => t.node[t.node[a][q]].parent = a)
            BY DEF Shape
        <3>3. CASE t.node[a][q] = y
            BY <1>1, <1>5, <1>7, <3>1, <3>2, <3>3 DEF p
        <3>4. CASE t.node[a][q] # y
            <4>1. t.node[a][q] # x
                BY <1>6, <1>15
            <4>2. t.node[a][q] # nil => t.node[a][q] # inner
                BY <1>1, <1>15, <3>2
            <4>3. r.node[a][q] = t.node[a][q] /\ t.node[a][q] \in Links
                BY <1>2, <3>1, <3>2, <3>4
            <4>4. new[r.node[a][q]] = sub[t.node[a][q]]
                BY <1>7, <3>4, <4>1, <4>3
            <4>5. t.node[a][q] # nil => r.node[t.node[a][q]].parent = t.node[t.node[a][q]].parent
                BY <1>2, <1>5, <3>2, <3>4, <4>1, <4>2
            <4>6. QED
                BY <3>2, <4>3, <4>4, <4>5
        <3>5. QED
            BY <3>3, <3>4
    <2>2. "left" \in Sides /\ "right" \in Sides
        BY DEF Sides
    <2>3. new[r.node[a]["left"]] = sub[t.node[a]["left"]] /\ new[r.node[a]["right"]] = sub[t.node[a]["right"]]
        BY <2>1, <2>2
    <2>4. new[a] = sub[a]
        BY <1>2, <1>7, <1>15
    <2>5. sub[a] = {a} \cup sub[t.node[a]["left"]] \cup sub[t.node[a]["right"]]
        BY DEF Shape
    <2>6. \A q \in Sides : \A j \in sub[t.node[a][q]] : Below(q, j, a)
        BY DEF Shape
    <2>7. QED
        BY <2>1, <2>3, <2>4, <2>5, <2>6
<1>16. ASSUME NEW a \in S, NEW q \in Sides
       PROVE  /\ r.node[a][q] \in S \cup {nil}
              /\ r.node[a][q] # nil => r.node[r.node[a][q]].parent = a
              /\ \A j \in new[r.node[a][q]] : Below(q, j, a)
    <2>1. CASE a # x /\ a # y
        BY <1>15, <2>1
    <2>2. CASE a = x
        <3>1. CASE q = s
            BY <1>1, <1>10, <1>14, <2>2, <3>1
        <3>2. CASE q = o
            <4>1. t.node[x][o] # nil => t.node[t.node[x][o]].parent = x
                <5>1. Kin(t, S, sub, x)
                    BY <1>1, KinOf
                <5>2. QED
                    BY <1>2, <5>1 DEF Kin
            <4>2. t.node[x][o] # nil => t.node[x][o] # inner
                <5>1. ASSUME t.node[x][o] # nil, t.node[x][o] = t.node[x][s] PROVE FALSE
                    <6>1. o = s
                        BY <1>1, <1>2, <5>1, OneParent
                    <6>2. QED
                        BY <1>2, <6>1
                <5>2. QED
                    BY <5>1
            <4>3. t.node[x][o] # nil => r.node[t.node[x][o]].parent = x
                BY <1>2, <1>4, <1>5, <4>1, <4>2
            <4>4. QED
                BY <1>4, <1>10, <1>11, <1>13, <2>2, <3>2, <4>3
        <3>3. QED
            BY <1>2, <3>1, <3>2
    <2>3. CASE a = y
        <3>1. CASE q = s
            <4>1. z # nil => t.node[z].parent = y
                BY <1>1 DEF Shape, z
            <4>2. z # nil => r.node[z].parent = y
                BY <1>2, <1>3, <1>5, <4>1
            <4>3. QED
                BY <1>3, <1>10, <1>11, <1>13, <2>3, <3>1, <4>2
        <3>2. CASE q = o
            <4>1. inner # nil => r.node[inner].parent = y
                BY <1>1, <1>2, <1>5
            <4>2. sub[inner] \subseteq sub[x]
                BY <1>4
            <4>3. QED
                BY <1>1, <1>10, <1>11, <1>13, <2>3, <3>2, <4>1, <4>2
        <3>3. QED
            BY <1>2, <3>1, <3>2
    <2>4. QED
        BY <2>1, <2>2, <2>3
<1>17. ASSUME NEW a \in S PROVE new[a] = {a} \cup new[r.node[a].left] \cup new[r.node[a].right]
    <2>1. CASE a # x /\ a # y
        BY <1>15, <2>1
    <2>2. CASE a = x \/ a = y
        <3>1. new[a] = {a} \cup new[r.node[a][s]] \cup new[r.node[a][o]]
            BY <1>12, <2>2
        <3>2. {s, o} = {"left", "right"}
            BY <1>2 DEF Sides
        <3>3. CASE s = "left"
            BY <3>1, <3>2, <3>3
        <3>4. CASE s = "right"
            BY <3>1, <3>2, <3>4
        <3>5. QED
            BY <3>3, <3>4 DEF Sides
    <2>3. QED
        BY <2>1, <2>2
<1>18. ASSUME NEW j \in Keys \ S PROVE r.node[j] = Unused
    <2>1. t.node[j] = Unused /\ j # x /\ j # y /\ j # inner /\ j # nil
        <3>1. t.node[j] = Unused
            BY DEF Shape
        <3>2. QED
            BY <1>1, <1>2, <3>1
    <2>2. r.node[j] \in Nodes /\ r.node[j].red = FALSE /\ r.node[j].parent = nil
        BY <1>5, <2>1 DEF Trees, Unused
    <2>3. \A q \in Sides : t.node[j][q] = nil
        BY <2>1 DEF Unused, Sides
    <2>4. \A q \in Sides : r.node[j][q] = nil
        BY <1>1, <1>5, <2>1, <2>3
    <2>5. r.node[j].left = nil /\ r.node[j].right = nil
        BY <2>4 DEF Sides
    <2>6. QED
        BY <2>2, <2>5 DEF Nodes, Unused
<1>19. r.root \in S /\ r.root # nil /\ r.node[r.root].parent = nil /\ new[r.root] = S
    <2>1. CASE p = nil
        <3>1. y = t.root
            BY <2>1, Parents DEF p
        <3>2. QED
            <4>1. sub[t.root] = S
                BY DEF Shape
            <4>2. r.root = x /\ r.node[x].parent = nil /\ new[x] = S
                BY <1>5, <1>7, <1>10, <2>1, <3>1, <4>1
            <4>3. QED
                BY <1>1, <1>2, <4>2
    <2>2. CASE p # nil
        <3>1. t.root # y /\ t.root \in S /\ t.root # x /\ t.root # inner /\ t.node[t.root].parent = nil
            <4>1. t.root # y
                BY <2>2, Parents DEF p
            <4>2. t.root \in S /\ t.root # nil
                BY Parents
            <4>3. t.node[t.root].parent = nil
                BY <4>2 DEF Shape
            <4>4. QED
                BY <1>1, <1>2, <4>1, <4>2, <4>3
        <3>2. new[t.root] = sub[t.root] /\ r.node[t.root].parent = nil
            BY <1>2, <1>5, <1>7, <3>1
        <3>3. QED
            BY <1>2, <1>5, <2>2, <3>1, <3>2 DEF Shape
    <2>3. QED
        BY <2>1, <2>2
<1>20. new[nil] = {}
    BY <1>1, <1>2, <1>7
<1>21. Shape(r, S, new)
    BY <1>2, <1>5, <1>8, <1>16, <1>17, <1>18, <1>19, <1>20 DEF Shape
<1>22. QED
    BY <1>21 DEF new

-----------------------------------------------------------------------------
(* A node that comes into the tree                                         *)

\* The new node k hangs on side d of p.
Inserted(t, r, k, p, d) ==
    /\ r \in Trees /\ r.root = t.root
    /\ \A j \in Keys : r.node[j].red = (j = k \/ t.node[j].red)
    /\ \A j \in Keys : r.node[j].parent = IF j = k THEN p ELSE t.node[j].parent
    /\ \A j \in Keys, q \in Sides : r.node[j][q] = IF j = p /\ q = d THEN k ELSE t.node[j][q]

LEMMA InsertIs ==
    ASSUME NEW t \in Trees, NEW k \in Keys, NEW p \in Links, NEW d \in Sides
    PROVE  Inserted(t, Set(Set(Paint(t, k, "red"), k, "parent", p), p, d, k), k, p, d)
<1> DEFINE a == Set(t, k, "red", TRUE)
           b == Set(a, k, "parent", p)
           r == Set(b, p, d, k)
<1>1. Set(Set(Paint(t, k, "red"), k, "parent", p), p, d, k) = r
    BY DEF Paint
<1>2. /\ k \in Links /\ d \in LinkFields /\ "parent" \in LinkFields /\ d # "parent"
      /\ \A q \in Sides : q \in LinkFields /\ q # "parent"
    BY KeysAre, SidesAre
<1>3. Repainted(t, a, k, TRUE)
    BY <1>2, SetRedIs
<1> HIDE DEF a
<1>4. Relinked(a, b, k, "parent", p)
    BY <1>2, <1>3, SetIs DEF Repainted
<1> HIDE DEF b
<1>5. Relinked(b, r, p, d, k)
    BY <1>2, <1>4, SetIs DEF Relinked
<1> HIDE DEF r
<1>6. ASSUME NEW j \in Keys, NEW q \in Sides
      PROVE  r.node[j][q] = IF j = p /\ q = d THEN k ELSE t.node[j][q]
    <2>1. q \in LinkFields /\ q # "parent"
        BY <1>2
    <2>2. r.node[j][q] = IF j = p /\ q = d THEN k ELSE b.node[j][q]
        BY <1>5, <2>1 DEF Relinked
    <2>3. b.node[j][q] = a.node[j][q]
        BY <1>4, <2>1 DEF Relinked
    <2>4. a.node[j][q] = t.node[j][q]
        BY <1>3, <2>1 DEF Repainted
    <2>5. QED
        BY <2>2, <2>3, <2>4
<1>7. ASSUME NEW j \in Keys
      PROVE  r.node[j]["parent"] = IF j = k THEN p ELSE t.node[j]["parent"]
    <2>1. r.node[j]["parent"] = b.node[j]["parent"]
        BY <1>2, <1>5 DEF Relinked
    <2>2. b.node[j]["parent"] = IF j = k THEN p ELSE a.node[j]["parent"]
        BY <1>2, <1>4 DEF Relinked
    <2>3. a.node[j]["parent"] = t.node[j]["parent"]
        BY <1>2, <1>3 DEF Repainted
    <2>4. QED
        BY <2>1, <2>2, <2>3
<1>8. ASSUME NEW j \in Keys PROVE r.node[j].red = (j = k \/ t.node[j].red)
    <2>1. r.node[j].red = b.node[j].red /\ b.node[j].red = a.node[j].red
        BY <1>4, <1>5 DEF Relinked
    <2>2. a.node[j].red = IF j = k THEN TRUE ELSE t.node[j].red
        BY <1>3 DEF Repainted
    <2>3. t.node[j].red \in BOOLEAN
        BY TreesAre
    <2>4. QED
        BY <2>1, <2>2, <2>3
<1>9. r \in Trees /\ r.root = t.root
    BY <1>3, <1>4, <1>5 DEF Relinked, Repainted
<1>10. QED
    BY <1>1, <1>6, <1>7, <1>8, <1>9 DEF Inserted

InsertedSub(sub, k, p) ==
    [a \in Links |-> IF a = k THEN {k} ELSE IF p \in sub[a] THEN sub[a] \cup {k} ELSE sub[a]]

LEMMA InsertShape ==
    ASSUME NEW t, NEW S, NEW sub, Shape(t, S, sub), NEW k \in Keys \ S, NEW p \in S, NEW d \in Sides,
           t.node[p][d] = nil,
           \A a \in S, s \in Sides : p \in sub[t.node[a][s]] \/ (a = p /\ s = d) => Below(s, k, a),
           NEW r, Inserted(t, r, k, p, d)
    PROVE  Shape(r, S \cup {k}, InsertedSub(sub, k, p))
<1> DEFINE new == InsertedSub(sub, k, p)  T == S \cup {k}
<1>1. /\ S \in SUBSET Keys /\ nil \notin S /\ k # nil /\ k # p /\ p \in Keys /\ p # nil
      /\ Links = Keys \cup {nil} /\ sub[nil] = {} /\ sub \in [Links -> SUBSET S]
      /\ t.root \in S /\ t.node[t.root].parent = nil /\ sub[t.root] = S /\ t \in Trees
    BY KeysAre, Parents DEF Shape
<1>2. new[k] = {k} /\ \A a \in Links : a # k =>
                         new[a] = IF p \in sub[a] THEN sub[a] \cup {k} ELSE sub[a]
    BY <1>1 DEF InsertedSub
<1>3. new \in [Links -> SUBSET T]
    BY <1>1 DEF InsertedSub
<1> HIDE DEF new
<1>4. new[nil] = {}
    BY <1>1, <1>2
<1>5. \A q \in Sides : t.node[k][q] = nil
    BY DEF Shape, Unused, Sides
<1>6. /\ r \in Trees /\ r.root = t.root
      /\ \A j \in Keys : r.node[j].red = (j = k \/ t.node[j].red)
      /\ \A j \in Keys : r.node[j].parent = IF j = k THEN p ELSE t.node[j].parent
      /\ \A j \in Keys, q \in Sides : r.node[j][q] = IF j = p /\ q = d THEN k ELSE t.node[j][q]
    BY DEF Inserted
<1>7. \A q \in Sides : r.node[k][q] = nil
    BY <1>1, <1>5, <1>6
<1>8. r.root \in T /\ r.node[r.root].parent = nil /\ new[r.root] = T
    <2>1. t.root # k /\ t.root \in Keys /\ p \in sub[t.root]
        BY <1>1
    <2>2. QED
        <3>1. r.root \in T /\ r.node[r.root].parent = nil
            BY <1>1, <1>6, <2>1
        <3>2. new[t.root] = S \cup {k}
            BY <1>1, <1>2, <2>1
        <3>3. QED
            BY <1>6, <3>1, <3>2
<1>9. ASSUME NEW a \in S, NEW q \in Sides
      PROVE  /\ r.node[a][q] \in T \cup {nil}
             /\ r.node[a][q] # nil => r.node[r.node[a][q]].parent = a
             /\ \A j \in new[r.node[a][q]] : Below(q, j, a)
             /\ new[r.node[a][q]] = sub[t.node[a][q]] \cup
                   IF p \in sub[t.node[a][q]] \/ (a = p /\ q = d) THEN {k} ELSE {}
    <2>1. /\ t.node[a][q] \in S \cup {nil}
          /\ t.node[a][q] # nil => t.node[t.node[a][q]].parent = a
          /\ \A j \in sub[t.node[a][q]] : Below(q, j, a)
        BY DEF Shape
    <2>2. CASE a = p /\ q = d
        <3>1. r.node[a][q] = k /\ r.node[k].parent = a
            BY <1>1, <1>6, <2>2
        <3>2. sub[t.node[a][q]] = {} /\ new[k] = {k} /\ Below(q, k, a)
            BY <1>1, <1>2, <2>2
        <3>3. QED
            BY <2>2, <3>1, <3>2
    <2>3. CASE ~(a = p /\ q = d)
        <3>1. r.node[a][q] = t.node[a][q] /\ t.node[a][q] # k /\ t.node[a][q] \in Links
            BY <1>1, <1>6, <2>1, <2>3
        <3>2. t.node[a][q] # nil => r.node[t.node[a][q]].parent = a
            BY <1>1, <1>6, <2>1, <3>1
        <3>3. new[t.node[a][q]] = IF p \in sub[t.node[a][q]] THEN sub[t.node[a][q]] \cup {k}
                                  ELSE sub[t.node[a][q]]
            BY <1>2, <3>1
        <3>4. p \in sub[t.node[a][q]] => Below(q, k, a)
            OBVIOUS
        <3>5. QED
            BY <2>1, <2>3, <3>1, <3>2, <3>3, <3>4
    <2>4. QED
        BY <2>2, <2>3
<1>10. ASSUME NEW a \in S PROVE new[a] = {a} \cup new[r.node[a].left] \cup new[r.node[a].right]
    <2> DEFINE l == t.node[a]["left"]  m == t.node[a]["right"]
    <2>1. sub[a] = {a} \cup sub[l] \cup sub[m]
        BY DEF Shape
    <2>2. /\ new[r.node[a]["left"]] = sub[l] \cup IF p \in sub[l] \/ (a = p /\ d = "left") THEN {k} ELSE {}
          /\ new[r.node[a]["right"]] = sub[m] \cup IF p \in sub[m] \/ (a = p /\ d = "right") THEN {k} ELSE {}
        BY <1>9 DEF Sides
    <2>3. new[a] = IF p \in sub[a] THEN sub[a] \cup {k} ELSE sub[a]
        BY <1>1, <1>2
    <2>4. p \in sub[a] <=> p \in sub[l] \/ p \in sub[m] \/ (a = p /\ d = "left") \/ (a = p /\ d = "right")
        BY <2>1 DEF Sides
    <2> HIDE DEF l, m
    <2>5. QED
        BY <2>1, <2>2, <2>3, <2>4
<1>11. /\ new[k] = {k} \cup new[r.node[k].left] \cup new[r.node[k].right]
       /\ \A q \in Sides : r.node[k][q] = nil /\ new[r.node[k][q]] = {}
    <2>1. r.node[k].left = nil /\ r.node[k].right = nil
        BY <1>7 DEF Sides
    <2>2. QED
        BY <1>2, <1>4, <1>7, <2>1
<1>12. ASSUME NEW j \in Keys \ T PROVE r.node[j] = Unused
    <2>1. t.node[j] = Unused /\ j # k /\ j # p
        BY <1>1 DEF Shape
    <2>2. r.node[j] \in Nodes /\ r.node[j].red = FALSE /\ r.node[j].parent = nil
        <3>1. t.node[j].red = FALSE /\ t.node[j].parent = nil
            BY <2>1 DEF Unused
        <3>2. r.node[j] \in Nodes /\ r.node[j].red \in BOOLEAN
            BY <1>6 DEF Trees, Nodes
        <3>3. r.node[j].red = (j = k \/ t.node[j].red) /\ r.node[j].parent = t.node[j].parent
            BY <1>6, <2>1
        <3>4. QED
            BY <2>1, <3>1, <3>2, <3>3
    <2>3. \A q \in Sides : r.node[j][q] = nil
        BY <1>6, <2>1 DEF Unused, Sides
    <2>4. r.node[j].left = nil /\ r.node[j].right = nil
        BY <2>3 DEF Sides
    <2>5. QED
        BY <2>2, <2>4 DEF Nodes, Unused
<1>13. Shape(r, T, new)
    <2>1. T \in SUBSET Keys
        BY <1>1
    <2>2. \A a \in T : /\ new[a] = {a} \cup new[r.node[a].left] \cup new[r.node[a].right]
                       /\ \A q \in Sides :
                             /\ r.node[a][q] \in T \cup {nil}
                             /\ r.node[a][q] # nil => r.node[r.node[a][q]].parent = a
                             /\ \A j \in new[r.node[a][q]] : Below(q, j, a)
        BY <1>9, <1>10, <1>11
    <2> HIDE DEF T
    <2>3. QED
        BY <1>3, <1>4, <1>6, <1>8, <1>12, <2>1, <2>2 DEF Shape
<1>14. QED
    BY <1>13 DEF new

\* The first node of an empty tree.
LEMMA PlantShape ==
    ASSUME NEW t, NEW sub, Shape(t, {}, sub), NEW k \in Keys
    PROVE  LET r == [Set(t, k, "red", FALSE) EXCEPT !.root = k]
           IN  /\ Shape(r, {k}, [a \in Links |-> IF a = k THEN {k} ELSE {}])
               /\ r.node = t.node /\ r.root = k
<1> DEFINE m == Set(t, k, "red", FALSE)  r == [m EXCEPT !.root = k]
           new == [a \in Links |-> IF a = k THEN {k} ELSE {}]
<1>1. t \in Trees /\ \A j \in Keys : t.node[j] = Unused
    BY DEF Shape
<1>2. k \in Links /\ nil \in Links /\ nil # k /\ Links = Keys \cup {nil}
    BY KeysAre
<1>3. Repainted(t, m, k, FALSE)
    BY <1>1, <1>2, SetRedIs
<1> HIDE DEF m
<1>4. m \in Trees /\ \A j \in Keys : m.node[j] = Unused
    <2>1. m \in Trees
        BY <1>3 DEF Repainted
    <2>2. ASSUME NEW j \in Keys PROVE m.node[j] = Unused
        <3>1. m.node[j] \in Nodes /\ m.node[j].red = FALSE
            <4>1. t.node[j].red = FALSE
                BY <1>1 DEF Unused
            <4>2. m.node[j].red = IF j = k THEN FALSE ELSE t.node[j].red
                BY <1>3 DEF Repainted
            <4>3. m.node[j] \in Nodes
                BY <2>1 DEF Trees
            <4>4. QED
                BY <4>1, <4>2, <4>3
        <3>2. /\ m.node[j]["left"] = t.node[j]["left"] /\ m.node[j]["right"] = t.node[j]["right"]
              /\ m.node[j]["parent"] = t.node[j]["parent"]
            BY <1>3 DEF Repainted, LinkFields
        <3>3. m.node[j].left = nil /\ m.node[j].right = nil /\ m.node[j].parent = nil
            BY <1>1, <3>2 DEF Unused
        <3>4. QED
            BY <3>1, <3>3 DEF Nodes, Unused
    <2>3. QED
        BY <2>1, <2>2
<1>5. /\ m = [root |-> m.root, node |-> m.node] /\ m.node \in [Keys -> Nodes]
      /\ t.node \in [Keys -> Nodes]
    BY <1>1, <1>4 DEF Trees
<1>6. r = [root |-> k, node |-> m.node]
    BY <1>5
<1>7. m.node = t.node
    BY <1>1, <1>4, <1>5
<1>8. /\ r \in Trees /\ r.root = k /\ r.node = t.node /\ \A j \in Keys : r.node[j] = Unused
    BY <1>2, <1>1, <1>5, <1>6, <1>7 DEF Trees
<1> HIDE DEF r
<1>9. /\ new \in [Links -> SUBSET {k}] /\ new[nil] = {} /\ new[k] = {k}
    BY <1>2
<1> HIDE DEF new
<1>10. /\ r.node[k].left = nil /\ r.node[k].right = nil /\ r.node[k].parent = nil
       /\ \A q \in Sides : r.node[k][q] = nil
    BY <1>8 DEF Unused, Sides
<1>11. Shape(r, {k}, new)
    BY <1>2, <1>8, <1>9, <1>10 DEF Shape
<1>12. QED
    BY <1>8, <1>11 DEF r, m, new

-----------------------------------------------------------------------------
(* A node that leaves the tree: its only child takes its place, or, if it  *)
(* has two, the next node does                                             *)

\* Node y left, and x is where y was.
Contracted(t, r, y, x) ==
    /\ r \in Trees
    /\ r.root = IF t.node[y].parent = nil THEN x ELSE t.root
    /\ r.node[y] = Unused
    /\ \A j \in Keys \ {y} :
          /\ r.node[j].red = t.node[j].red
          /\ r.node[j].parent = IF j = x THEN t.node[y].parent ELSE t.node[j].parent
          /\ \A q \in Sides : r.node[j][q] = IF t.node[j][q] = y THEN x ELSE t.node[j][q]

\* Node y has no child but x.
OnlyChild(t, y, x) ==
    \E s \in Sides : t.node[y][s] = x /\ t.node[y][Other(s)] = nil

LEMMA ContractShape ==
    ASSUME NEW t, NEW S, NEW sub, Shape(t, S, sub), NEW y \in S, NEW x, OnlyChild(t, y, x),
           NEW r, Contracted(t, r, y, x)
    PROVE  Shape(r, S \ {y}, [a \in Links |-> sub[a] \ {y}])
<1> DEFINE T == S \ {y}  new == [a \in Links |-> sub[a] \ {y}]  p == t.node[y].parent
<1>1. PICK s \in Sides : t.node[y][s] = x /\ t.node[y][Other(s)] = nil
    BY DEF OnlyChild
<1>2. /\ S \in SUBSET Keys /\ nil \notin S /\ y \in Keys /\ y # nil
      /\ Links = Keys \cup {nil} /\ sub[nil] = {} /\ sub \in [Links -> SUBSET S] /\ nil \notin Keys
      /\ t.root \in S /\ t.node[t.root].parent = nil /\ sub[t.root] = S /\ t \in Trees
    BY KeysAre, Parents DEF Shape
<1>3. /\ x \in S \cup {nil} /\ x # y /\ x \in Links
      /\ x # nil => t.node[x].parent = y
      /\ sub[y] = {y} \cup sub[x] /\ y \notin sub[x]
    <2>1. /\ x \in S \cup {nil} /\ (x # nil => t.node[x].parent = y /\ x # y)
          /\ sub[y] = {y} \cup sub[t.node[y][s]] \cup sub[t.node[y][Other(s)]]
          /\ y \notin sub[t.node[y][s]]
        BY <1>1, Near
    <2>2. QED
        BY <1>1, <1>2, <2>1
<1>4. /\ r \in Trees
      /\ r.root = (IF t.node[y].parent = nil THEN x ELSE t.root)
      /\ r.node[y] = Unused
      /\ \A j \in Keys \ {y} :
            /\ r.node[j].red = t.node[j].red
            /\ r.node[j].parent = IF j = x THEN t.node[y].parent ELSE t.node[j].parent
            /\ \A q \in Sides : r.node[j][q] = IF t.node[j][q] = y THEN x ELSE t.node[j][q]
    BY DEF Contracted
<1>5. new \in [Links -> SUBSET T] /\ \A a \in Links : new[a] = sub[a] \ {y}
    BY <1>2
<1> HIDE DEF new
<1>6. /\ p \in S \cup {nil} /\ p # y /\ (p = nil <=> y = t.root)
      /\ p # nil => t.node[p][SideOf(t, y)] = y \/ \E q \in Sides : t.node[p][q] = y
    BY <1>2, Parents
<1>7. ASSUME NEW a \in T, NEW q \in Sides
      PROVE  /\ new[r.node[a][q]] = sub[t.node[a][q]] \ {y}
             /\ r.node[a][q] \in T \cup {nil}
             /\ r.node[a][q] # nil => r.node[r.node[a][q]].parent = a
             /\ \A j \in new[r.node[a][q]] : Below(q, j, a)
    <2>1. /\ t.node[a][q] \in S \cup {nil}
          /\ t.node[a][q] # nil => t.node[t.node[a][q]].parent = a
          /\ \A j \in sub[t.node[a][q]] : Below(q, j, a)
        BY DEF Shape
    <2>2. r.node[a][q] = IF t.node[a][q] = y THEN x ELSE t.node[a][q]
        BY <1>2, <1>4
    <2>3. CASE t.node[a][q] = y
        <3>1. r.node[a][q] = x /\ p = a
            BY <1>2, <2>1, <2>2, <2>3
        <3>2. new[x] = sub[x] \ {y} /\ sub[y] \ {y} = sub[x] \ {y}
            BY <1>3, <1>5
        <3>3. x # nil => r.node[x].parent = p
            BY <1>2, <1>3, <1>4
        <3>4. QED
            BY <1>3, <2>1, <2>3, <3>1, <3>2, <3>3
    <2>4. CASE t.node[a][q] # y
        <3>1. r.node[a][q] = t.node[a][q] /\ t.node[a][q] \in T \cup {nil}
            BY <2>1, <2>2, <2>4
        <3>2. t.node[a][q] \in Links
            BY <1>2, <2>1
        <3>3. t.node[a][q] # nil => t.node[a][q] # x
            BY <1>3, <2>1
        <3>4. t.node[a][q] # nil => r.node[t.node[a][q]].parent = a
            BY <1>2, <1>4, <2>1, <2>4, <3>3
        <3>5. new[t.node[a][q]] = sub[t.node[a][q]] \ {y}
            BY <1>5, <3>2
        <3>6. QED
            BY <2>1, <3>1, <3>4, <3>5
    <2>5. QED
        BY <2>3, <2>4
<1>8. ASSUME NEW a \in T PROVE new[a] = {a} \cup new[r.node[a].left] \cup new[r.node[a].right]
    <2>1. sub[a] = {a} \cup sub[t.node[a]["left"]] \cup sub[t.node[a]["right"]]
        BY DEF Shape
    <2>2. /\ new[r.node[a]["left"]] = sub[t.node[a]["left"]] \ {y}
          /\ new[r.node[a]["right"]] = sub[t.node[a]["right"]] \ {y}
        BY <1>7 DEF Sides
    <2>3. new[a] = sub[a] \ {y} /\ a # y
        BY <1>2, <1>5
    <2>4. QED
        BY <2>1, <2>2, <2>3
<1>9. ASSUME NEW j \in Keys \ T PROVE r.node[j] = Unused
    <2>1. CASE j = y
        BY <1>4, <2>1
    <2>2. CASE j # y
        <3>1. t.node[j] = Unused /\ j # x
            BY <1>2, <1>3, <2>2 DEF Shape
        <3>2. r.node[j].red = FALSE /\ r.node[j].parent = nil /\ r.node[j] \in Nodes
            BY <1>4, <2>2, <3>1 DEF Unused, Trees
        <3>3. \A q \in Sides : r.node[j][q] = nil
            BY <1>2, <1>4, <2>2, <3>1 DEF Unused, Sides
        <3>4. r.node[j].left = nil /\ r.node[j].right = nil
            BY <3>3 DEF Sides
        <3>5. QED
            BY <3>2, <3>4 DEF Nodes, Unused
    <2>3. QED
        BY <2>1, <2>2
<1>10. new[r.root] = T /\ (r.root # nil => r.root \in T /\ r.node[r.root].parent = nil)
    <2>1. CASE p = nil
        <3>1. r.root = x /\ y = t.root
            BY <1>4, <1>6, <2>1
        <3>2. new[x] = T
            BY <1>2, <1>3, <1>5, <3>1
        <3>3. x # nil => r.node[x].parent = nil
            BY <1>2, <1>3, <1>4, <2>1
        <3>4. QED
            BY <1>3, <3>1, <3>2, <3>3
    <2>2. CASE p # nil
        <3>1. r.root = t.root /\ t.root # y /\ t.root # x
            BY <1>2, <1>3, <1>4, <1>6, <2>2
        <3>2. new[t.root] = T
            BY <1>2, <1>5
        <3>3. r.node[t.root].parent = nil
            BY <1>2, <1>4, <3>1
        <3>4. QED
            BY <1>2, <3>1, <3>2, <3>3
    <2>3. QED
        BY <2>1, <2>2
<1>11. new[nil] = {} /\ T \in SUBSET Keys
    BY <1>2, <1>5
<1> HIDE DEF T
<1>12. Shape(r, T, new)
    BY <1>4, <1>5, <1>7, <1>8, <1>9, <1>10, <1>11 DEF Shape
<1>13. QED
    BY <1>12 DEF T, new

\* Node z left, and y is where z was, with all it had.
Replaced(t, r, z, y) ==
    /\ r \in Trees
    /\ r.root = IF t.root = z THEN y ELSE t.root
    /\ r.node[z] = Unused
    /\ \A j \in Keys \ {z} :
          /\ r.node[j].red = IF j = y THEN t.node[z].red ELSE t.node[j].red
          /\ r.node[j].parent =
                IF j = y THEN t.node[z].parent
                ELSE IF t.node[j].parent = z THEN y ELSE t.node[j].parent
          /\ \A q \in Sides :
                r.node[j][q] = IF j = y THEN t.node[z][q] ELSE IF t.node[j][q] = z THEN y ELSE t.node[j][q]

\* y is in the order of the tree where z is.
InPlaceOf(t, S, sub, z, y) ==
    /\ \A a \in S, s \in Sides : z \in sub[t.node[a][s]] => Below(s, y, a)
    /\ \A s \in Sides : \A j \in sub[t.node[z][s]] : Below(s, j, y)

Swap(A, z, y) == IF z \in A THEN (A \ {z}) \cup {y} ELSE A
ReplacedSub(sub, z, y) ==
    [a \in Links |-> IF a = y THEN Swap(sub[z], z, y) ELSE IF a = z THEN {} ELSE Swap(sub[a], z, y)]

LEMMA ReplaceShape ==
    ASSUME NEW t, NEW S, NEW sub, Shape(t, S, sub), NEW z \in S, NEW y \in Keys \ S,
           InPlaceOf(t, S, sub, z, y), NEW r, Replaced(t, r, z, y)
    PROVE  Shape(r, (S \ {z}) \cup {y}, ReplacedSub(sub, z, y))
<1> DEFINE T == (S \ {z}) \cup {y}  new == ReplacedSub(sub, z, y)
           To(c) == IF c = z THEN y ELSE c
<1>1. /\ S \in SUBSET Keys /\ nil \notin S /\ y \in Keys /\ y # nil /\ z # nil /\ z # y
      /\ Links = Keys \cup {nil} /\ sub[nil] = {} /\ sub \in [Links -> SUBSET S] /\ nil \notin Keys
      /\ t.root \in S /\ t.node[t.root].parent = nil /\ sub[t.root] = S /\ t \in Trees
      /\ z \in sub[z]
    BY KeysAre, Parents, Near DEF Shape
<1>2. new \in [Links -> SUBSET T]
    BY <1>1 DEF ReplacedSub, Swap
<1>3. \A c \in S \cup {nil} : /\ To(c) \in T \cup {nil} /\ new[To(c)] = Swap(sub[c], z, y)
                              /\ To(c) = nil <=> c = nil
    BY <1>1 DEF ReplacedSub
<1>4. new[nil] = {}
    BY <1>1 DEF ReplacedSub, Swap
<1> HIDE DEF new
<1>5. /\ r \in Trees
      /\ r.root = To(t.root)
      /\ r.node[z] = Unused
      /\ \A j \in Keys \ {z} :
            /\ r.node[j].red = IF j = y THEN t.node[z].red ELSE t.node[j].red
            /\ r.node[j].parent = IF j = y THEN t.node[z].parent ELSE To(t.node[j].parent)
            /\ \A q \in Sides :
                  r.node[j][q] = IF j = y THEN t.node[z][q] ELSE To(t.node[j][q])
    BY DEF Replaced
<1>6. ASSUME NEW a \in S, NEW q \in Sides
      PROVE  /\ r.node[To(a)][q] = To(t.node[a][q])
             /\ t.node[a][q] \in S \cup {nil}
             /\ t.node[a][q] # nil => r.node[To(t.node[a][q])].parent = To(a)
             /\ \A j \in Swap(sub[t.node[a][q]], z, y) : Below(q, j, To(a))
    <2>1. /\ t.node[a][q] \in S \cup {nil}
          /\ t.node[a][q] # nil => t.node[t.node[a][q]].parent = a
          /\ \A j \in sub[t.node[a][q]] : Below(q, j, a)
          /\ z \in sub[t.node[a][q]] => Below(q, y, a)
          /\ t.node[a][q] # a /\ a \notin sub[t.node[a][q]]
        <3>1. /\ t.node[a][q] \in S \cup {nil}
              /\ t.node[a][q] # nil => t.node[t.node[a][q]].parent = a
              /\ \A j \in sub[t.node[a][q]] : Below(q, j, a)
            BY DEF Shape
        <3>2. z \in sub[t.node[a][q]] => Below(q, y, a)
            BY DEF InPlaceOf
        <3>3. a \notin sub[t.node[a][q]] /\ a # nil /\ (t.node[a][q] # nil => t.node[a][q] # a)
            BY Near
        <3>4. QED
            BY <3>1, <3>2, <3>3
    <2>2. r.node[To(a)][q] = To(t.node[a][q])
        BY <1>1, <1>5, <2>1
    <2>3. ASSUME t.node[a][q] # nil PROVE r.node[To(t.node[a][q])].parent = To(a)
        <3> DEFINE c == t.node[a][q]
        <3>1. c \in S /\ t.node[c].parent = a /\ c # a
            BY <2>1, <2>3
        <3> HIDE DEF c
        <3>2. CASE c = z
            <4>1. r.node[y].parent = t.node[z].parent
                BY <1>1, <1>5
            <4>2. QED
                BY <3>1, <3>2, <4>1 DEF c
        <3>3. CASE c # z
            <4>1. c \in Keys /\ c # y /\ r.node[c].parent = To(t.node[c].parent)
                BY <1>1, <1>5, <3>1, <3>3
            <4>2. QED
                BY <3>1, <3>3, <4>1 DEF c
        <3>4. QED
            BY <3>2, <3>3
    <2>4. ASSUME NEW j \in Swap(sub[t.node[a][q]], z, y) PROVE Below(q, j, To(a))
        <3>1. CASE a = z
            <4>1. j \in sub[t.node[z][q]]
                BY <2>1, <2>4, <3>1 DEF Swap
            <4>2. QED
                BY <3>1, <4>1 DEF InPlaceOf
        <3>2. CASE a # z
            BY <2>1, <2>4, <3>2 DEF Swap
        <3>3. QED
            BY <3>1, <3>2
    <2>5. QED
        BY <2>1, <2>2, <2>3, <2>4
<1>7. ASSUME NEW a \in S
      PROVE  new[To(a)] = {To(a)} \cup new[r.node[To(a)].left] \cup new[r.node[To(a)].right]
    <2> DEFINE l == t.node[a]["left"]  m == t.node[a]["right"]
    <2>1. sub[a] = {a} \cup sub[l] \cup sub[m] /\ a \notin sub[l] /\ a \notin sub[m]
        <3>1. "left" \in Sides /\ "right" \in Sides
            BY DEF Sides
        <3>2. a \notin sub[l] /\ a \notin sub[m]
            BY <3>1, Near
        <3>3. QED
            BY <3>2 DEF Shape
    <2>2. /\ r.node[To(a)]["left"] = To(l) /\ r.node[To(a)]["right"] = To(m)
          /\ l \in S \cup {nil} /\ m \in S \cup {nil}
        BY <1>6 DEF Sides
    <2>3. new[To(l)] = Swap(sub[l], z, y) /\ new[To(m)] = Swap(sub[m], z, y)
          /\ new[To(a)] = Swap(sub[a], z, y)
        BY <1>3, <2>2
    <2>4. sub[a] \subseteq S
        BY Near
    <2> HIDE DEF l, m
    <2>5. y \notin sub[a]
        BY <2>4
    <2>6. Swap(sub[a], z, y) = {To(a)} \cup Swap(sub[l], z, y) \cup Swap(sub[m], z, y)
        BY <2>1, <2>5 DEF Swap
    <2> HIDE DEF To
    <2>7. QED
        BY <2>2, <2>3, <2>6
<1>8. ASSUME NEW a \in T
      PROVE  /\ new[a] = {a} \cup new[r.node[a].left] \cup new[r.node[a].right]
             /\ \A q \in Sides :
                   /\ r.node[a][q] \in T \cup {nil}
                   /\ r.node[a][q] # nil => r.node[r.node[a][q]].parent = a
                   /\ \A j \in new[r.node[a][q]] : Below(q, j, a)
    <2>1. PICK b \in S : To(b) = a
        BY <1>1
    <2> HIDE DEF To, T
    <2>2. new[a] = {a} \cup new[r.node[a].left] \cup new[r.node[a].right]
        BY <1>7, <2>1
    <2>3. ASSUME NEW q \in Sides
          PROVE  /\ r.node[a][q] \in T \cup {nil}
                 /\ r.node[a][q] # nil => r.node[r.node[a][q]].parent = a
                 /\ \A j \in new[r.node[a][q]] : Below(q, j, a)
        <3>1. r.node[a][q] = To(t.node[b][q]) /\ t.node[b][q] \in S \cup {nil}
            BY <1>6, <2>1
        <3>2. r.node[a][q] \in T \cup {nil} /\ new[r.node[a][q]] = Swap(sub[t.node[b][q]], z, y)
            BY <1>3, <3>1
        <3>3. r.node[a][q] # nil => r.node[r.node[a][q]].parent = a
            BY <1>3, <1>6, <2>1, <3>1
        <3>4. \A j \in Swap(sub[t.node[b][q]], z, y) : Below(q, j, a)
            BY <1>6, <2>1
        <3>5. QED
            BY <3>2, <3>3, <3>4
    <2>4. QED
        BY <2>2, <2>3
<1>9. ASSUME NEW j \in Keys \ T PROVE r.node[j] = Unused
    <2>1. CASE j = z
        BY <1>5, <2>1
    <2>2. CASE j # z
        <3>1. t.node[j] = Unused /\ j # y
            BY <1>1, <2>2 DEF Shape
        <3>2. r.node[j].red = FALSE /\ r.node[j].parent = nil /\ r.node[j] \in Nodes
            BY <1>1, <1>5, <2>2, <3>1 DEF Unused, Trees
        <3>3. \A q \in Sides : r.node[j][q] = nil
            BY <1>1, <1>5, <2>2, <3>1 DEF Unused, Sides
        <3>4. r.node[j].left = nil /\ r.node[j].right = nil
            BY <3>3 DEF Sides
        <3>5. QED
            BY <3>2, <3>4 DEF Nodes, Unused
    <2>3. QED
        BY <2>1, <2>2
<1>10. new[r.root] = T /\ r.root \in T /\ r.node[r.root].parent = nil
    <2>1. new[r.root] = Swap(S, z, y) /\ r.root \in T
        BY <1>1, <1>3, <1>5
    <2>2. Swap(S, z, y) = T
        BY DEF Swap
    <2>3. r.node[r.root].parent = nil
        <3>1. CASE t.root = z
            BY <1>1, <1>5, <3>1
        <3>2. CASE t.root # z
            BY <1>1, <1>5, <3>2
        <3>3. QED
            BY <3>1, <3>2
    <2>4. QED
        BY <2>1, <2>2, <2>3
<1>11. T \in SUBSET Keys
    BY <1>1
<1> HIDE DEF T
<1>12. Shape(r, T, new)
    BY <1>2, <1>4, <1>5, <1>8, <1>9, <1>10, <1>11 DEF Shape
<1>13. QED
    BY <1>12 DEF T, new

-----------------------------------------------------------------------------
(* Remove does that                                                        *)

Erased(t, k) == [root |-> t.root, node |-> [t.node EXCEPT ![k] = Unused]]

LEMMA ErasedIs ==
    ASSUME NEW t \in Trees, NEW k \in Keys
    PROVE  /\ Erased(t, k) \in Trees /\ Erased(t, k).root = t.root
           /\ \A j \in Keys : Erased(t, k).node[j] = IF j = k THEN Unused ELSE t.node[j]
<1>1. Unused \in Nodes
    BY KeysAre DEF Unused, Nodes
<1>2. t.root \in Links /\ t.node \in [Keys -> Nodes]
    BY DEF Trees
<1>3. QED
    BY <1>1, <1>2 DEF Erased, Trees

LEMMA ContractIs ==
    ASSUME NEW t, NEW S, NEW sub, Shape(t, S, sub), NEW y \in S, NEW x \in Links
    PROVE  Contracted(t, Erased(Transplant(t, y, x), y), y, x)
<1> DEFINE m == Transplant(t, y, x)
<1>1. t \in Trees /\ Hung(t, y) /\ y \in Keys
    BY ShapeHangs DEF Shape
<1>2. Moved(t, m, y, x)
    BY <1>1, TransplantIs
<1> HIDE DEF m
<1>3. /\ Erased(m, y) \in Trees /\ Erased(m, y).root = m.root
      /\ \A j \in Keys : Erased(m, y).node[j] = IF j = y THEN Unused ELSE m.node[j]
    BY <1>1, <1>2, ErasedIs DEF Moved
<1>4. Contracted(t, Erased(m, y), y, x)
    BY <1>1, <1>2, <1>3 DEF Moved, Contracted
<1>5. QED
    BY <1>4 DEF m

\* What y was linked to takes its place, and y has what was on the right of z:
\* the first half of a splice.
Ousted(t, r, z, y, x) ==
    /\ r \in Trees /\ r.root = t.root
    /\ \A j \in Keys : r.node[j].red = t.node[j].red
    /\ r.node[z].parent = t.node[z].parent
    /\ \A j \in Keys \ {y, z} :
          /\ r.node[j].parent =
                IF j = x THEN IF t.node[y].parent = z THEN y ELSE t.node[y].parent
                ELSE IF j = t.node[z].right THEN y ELSE t.node[j].parent
          /\ \A q \in Sides : r.node[j][q] = IF t.node[j][q] = y THEN x ELSE t.node[j][q]
    /\ r.node[y].right = IF t.node[z].right = y THEN x ELSE t.node[z].right
    /\ \A q \in Sides : r.node[y][q] # z /\ r.node[z][q] # z

\* Node z has two children, and y is the next node, without a left one.
NextBelow(t, S, z, y, x) ==
    LET l == t.node[z].left
        m == t.node[z].right
        p == t.node[y].parent
        g == t.node[z].parent
    IN  /\ z \in S /\ y \in S /\ l \in S /\ m \in S /\ p \in S /\ x \in S \cup {nil} /\ g \in S \cup {nil}
        /\ x = t.node[y].right /\ t.node[y].left = nil
        /\ z # y /\ l # y /\ l # z /\ l # m /\ m # z /\ x # y /\ x # z /\ x # l /\ p # y
        /\ p = z <=> m = y
        /\ m = y \/ m # x
        /\ g \notin {y, z, l, m} /\ (g # nil => g # x)
        /\ t.node[l].parent = z /\ t.node[m].parent = z
        /\ x # nil => t.node[x].parent = y
        /\ p # nil /\ (p = z \/ p # l)
        /\ t.root = z <=> g = nil
        /\ t.root # y

LEMMA NextIs ==
    ASSUME NEW t, NEW S, NEW sub, Shape(t, S, sub), NEW z \in S,
           t.node[z].left # nil, t.node[z].right # nil,
           NEW y, y = Minimum(t, t.node[z].right)
    PROVE  /\ NextBelow(t, S, z, y, t.node[y].right)
           /\ y \in sub[t.node[z].right] /\ \A j \in sub[t.node[z].right] : j = y \/ y < j
<1> DEFINE l == t.node[z]["left"]  m == t.node[z]["right"]  x == t.node[y]["right"]
           p == t.node[y].parent  g == t.node[z].parent
<1>1. "left" \in Sides /\ "right" \in Sides /\ Other("left") = "right" /\ Other("right") = "left"
    BY DEF Sides, Other
<1>2. /\ l \in S /\ m \in S /\ l # z /\ m # z /\ l # m
      /\ t.node[l].parent = z /\ t.node[m].parent = z
      /\ sub[l] \cap sub[m] = {} /\ z \notin sub[l] /\ z \notin sub[m] /\ sub[m] \subseteq sub[z]
      /\ sub[l] \subseteq sub[z]
    <2>1. l # nil /\ m # nil
        OBVIOUS
    <2>2. l \in S \cup {nil} /\ m \in S \cup {nil}
        BY <1>1, Near
    <2>3. l \in S /\ m \in S
        BY <2>1, <2>2
    <2>4. l # z /\ m # z /\ t.node[l].parent = z /\ t.node[m].parent = z /\ l # m
        BY <1>1, <2>1, Near
    <2>5. sub[l] \cap sub[m] = {} /\ z \notin sub[l] /\ z \notin sub[m] /\ sub[m] \subseteq sub[z]
          /\ sub[l] \subseteq sub[z]
        <3>1. z \notin sub[l] /\ z \notin sub[m] /\ sub[m] \subseteq sub[z] /\ sub[l] \subseteq sub[z]
            BY <1>1, Near
        <3>2. \A s \in Sides : sub[t.node[z][s]] \cap sub[t.node[z][Other(s)]] = {}
            BY Near
        <3>3. QED
            BY <1>1, <3>1, <3>2
    <2>6. QED
        BY <2>3, <2>4, <2>5
<1>3. l \in sub[l] /\ m \in sub[m] /\ z \in sub[z]
    BY <1>2, Near
<1>4. y \in sub[m] /\ y \in S /\ t.node[y].left = nil /\ \A j \in sub[m] : j = y \/ y < j
    BY <1>2, MinimumIs
<1> HIDE DEF l, m, g, p, x
<1>5. y # z /\ y # l
    BY <1>2, <1>3, <1>4
<1>6. x \in S \cup {nil} /\ (x # nil => t.node[x].parent = y) /\ x # y
      /\ sub[x] \subseteq sub[y] /\ (x # nil => x \in sub[y])
    <2>1. x \in S \cup {nil} /\ (x # nil => t.node[x].parent = y /\ x # y /\ x \in sub[y]) /\ sub[x] \subseteq sub[y]
        BY <1>1, <1>4, Near DEF x
    <2>2. y # nil
        BY <1>4, Near
    <2>3. QED
        BY <2>1, <2>2
<1>7. sub[y] \subseteq sub[m]
    BY <1>2, <1>4, Deep
<1>8. x # z /\ x # l /\ (m = y \/ m # x)
    <2>1. z # nil /\ l # nil /\ m # nil
        BY <1>2, KeysAre DEF Shape
    <2>2. x # nil => x \in sub[m]
        BY <1>6, <1>7
    <2>3. QED
        BY <1>2, <1>3, <1>5, <1>6, <2>1, <2>2
<1>9. /\ p \in S /\ p # nil /\ p # y /\ p # l /\ (p = z <=> m = y)
    <2>1. CASE m = y
        BY <1>2, <1>5, <2>1, KeysAre DEF p, Shape
    <2>2. CASE m # y
        <3>1. p \in sub[m] \cap S
            BY <1>2, <1>4, <2>2, Deep DEF p
        <3>2. p # z /\ p # l /\ p # nil
            BY <1>2, <1>3, <3>1, KeysAre DEF Shape
        <3>3. p # y
            BY <1>4, <3>1, <3>2, Parents DEF p
        <3>4. QED
            BY <2>2, <3>1, <3>2, <3>3
    <2>3. QED
        BY <2>1, <2>2
<1>10. t.root # y
    BY <1>4, <1>9, Parents DEF p
<1>11. (t.root = z <=> g = nil) /\ g \in S \cup {nil} /\ g # z
    <2>1. (t.root = z <=> g = nil) /\ (t.root # z => g \in S /\ g # z)
        BY Parents DEF g
    <2>2. z # nil
        BY Near
    <2>3. QED
        BY <2>1, <2>2
<1>12. ASSUME g # nil PROVE g \notin sub[z]
    <2>1. z # t.root /\ g \in S
        BY <1>11, <1>12
    <2>2. PICK q \in Sides : t.node[g][q] = z
        BY <2>1, Parents DEF g
    <2>3. ASSUME g \in sub[z] PROVE FALSE
        <3>1. g \notin sub[t.node[g][q]]
            BY <2>1, Near
        <3>2. QED
            BY <2>2, <2>3, <3>1
    <2>4. QED
        BY <2>3
<1>13. g \notin {y, z, l, m} /\ (g # nil => g # x)
    <2>1. y \in sub[z] /\ l \in sub[z] /\ m \in sub[z] /\ (x # nil => x \in sub[z])
        BY <1>2, <1>3, <1>4, <1>6, <1>7
    <2>2. y # nil /\ l # nil /\ m # nil
        BY <1>2, <1>4, KeysAre DEF Shape
    <2>3. QED
        BY <1>11, <1>12, <2>1, <2>2
<1>14. NextBelow(t, S, z, y, t.node[y].right)
    BY <1>2, <1>4, <1>5, <1>6, <1>8, <1>9, <1>10, <1>11, <1>13 DEF NextBelow, l, m, x, p, g
<1>15. QED
    BY <1>4, <1>14 DEF m

LEMMA NearNextOusted ==
    ASSUME NEW t, NEW S, NEW sub, Shape(t, S, sub), NEW z, NEW y, NEW x, NextBelow(t, S, z, y, x),
           t.node[y].parent = z
    PROVE  Ousted(t, Set(t, x, "parent", y), z, y, x)
<1> DEFINE r == Set(t, x, "parent", y)
<1>1. /\ t \in Trees /\ x \in Links /\ y \in Links /\ "parent" \in LinkFields
      /\ \A q \in Sides : q \in LinkFields /\ q # "parent"
      /\ z \in Keys /\ y \in Keys /\ "right" \in Sides
    BY KeysAre, SidesAre DEF NextBelow, Shape, Sides
<1>2. Relinked(t, r, x, "parent", y)
    BY <1>1, SetIs
<1> HIDE DEF r
<1>3. /\ r \in Trees /\ r.root = t.root /\ \A j \in Keys : r.node[j].red = t.node[j].red
      /\ \A j \in Keys, q \in Sides : r.node[j][q] = t.node[j][q]
      /\ \A j \in Keys : r.node[j]["parent"] = IF j = x THEN y ELSE t.node[j]["parent"]
    BY <1>1, <1>2 DEF Relinked
<1>4. Hung(t, y) /\ Hung(t, z)
    BY ShapeHangs DEF NextBelow
<1>5. ASSUME NEW j \in Keys \ {y, z}, NEW q \in Sides PROVE t.node[j][q] # y
    BY <1>4 DEF Hung
<1>6. ASSUME NEW q \in Sides PROVE t.node[y][q] # z /\ t.node[z][q] # z
    BY <1>1, <1>4 DEF Hung, NextBelow
<1>7. /\ r.node[z].parent = t.node[z].parent
      /\ t.node[z].right = y /\ r.node[y].right = x
    <2>1. r.node[y]["right"] = t.node[y]["right"]
        BY <1>1, <1>3
    <2>2. QED
        BY <1>1, <1>3, <2>1 DEF NextBelow
<1>8. \A j \in Keys \ {y, z} :
          /\ r.node[j].parent = IF j = x THEN y ELSE t.node[j].parent
          /\ \A q \in Sides : r.node[j][q] = IF t.node[j][q] = y THEN x ELSE t.node[j][q]
    BY <1>3, <1>5
<1>9. \A q \in Sides : r.node[y][q] # z /\ r.node[z][q] # z
    BY <1>1, <1>3, <1>6
<1>10. QED
    BY <1>3, <1>7, <1>8, <1>9 DEF Ousted, r

LEMMA FarNextOusted ==
    ASSUME NEW t, NEW S, NEW sub, Shape(t, S, sub), NEW z, NEW y, NEW x, NextBelow(t, S, z, y, x),
           t.node[y].parent # z
    PROVE  LET o == Set(Transplant(t, y, x), y, "right", t.node[z].right)
           IN  Ousted(t, Set(o, o.node[y].right, "parent", y), z, y, x)
<1> DEFINE m == t.node[z].right
           a == Transplant(t, y, x)
           o == Set(a, y, "right", m)
           r == Set(o, o.node[y].right, "parent", y)
<1>1. /\ t \in Trees /\ x \in Links /\ y \in Links /\ "parent" \in LinkFields /\ m \in Links
      /\ \A q \in Sides : q \in LinkFields /\ q # "parent"
      /\ z \in Keys /\ y \in Keys /\ "right" \in LinkFields /\ "right" \in Sides /\ "right" # "parent"
    BY KeysAre, SidesAre DEF NextBelow, Shape, Sides, LinkFields
<1>2. /\ m # y /\ m # x /\ m # z /\ x # y /\ x # z /\ z # y /\ t.node[y].parent # nil
      /\ t.node[m].parent = z
    BY DEF NextBelow
<1>3. Hung(t, y) /\ Hung(t, z)
    BY ShapeHangs DEF NextBelow
<1>4. Moved(t, a, y, x)
    BY <1>1, <1>3, TransplantIs
<1> HIDE DEF a, m
<1>5. Relinked(a, o, y, "right", m)
    BY <1>1, <1>4, SetIs DEF Moved
<1>6. o.node[y]["right"] = m
    BY <1>1, <1>5 DEF Relinked
<1>7. r = Set(o, m, "parent", y)
    BY <1>6
<1> HIDE DEF o
<1>8. Relinked(o, r, m, "parent", y)
    <2>1. o \in Trees
        BY <1>5 DEF Relinked
    <2>2. QED
        BY <1>1, <1>7, <2>1, SetIs
<1> HIDE DEF r
<1>9. ASSUME NEW j \in Keys, NEW q \in Sides
      PROVE  r.node[j][q] = IF j = y /\ q = "right" THEN m
                            ELSE IF t.node[j][q] = y THEN x ELSE t.node[j][q]
    <2>1. q \in LinkFields /\ q # "parent"
        BY <1>1
    <2>2. r.node[j][q] = o.node[j][q]
        BY <1>8, <2>1 DEF Relinked
    <2>3. o.node[j][q] = IF j = y /\ q = "right" THEN m ELSE a.node[j][q]
        BY <1>5, <2>1 DEF Relinked
    <2>4. a.node[j][q] = IF t.node[j][q] = y THEN x ELSE t.node[j][q]
        BY <1>4 DEF Moved
    <2>5. QED
        BY <2>2, <2>3, <2>4
<1>10. ASSUME NEW j \in Keys
       PROVE  r.node[j]["parent"] = IF j = m THEN y ELSE IF j = x THEN t.node[y].parent
                                    ELSE t.node[j]["parent"]
    <2>1. r.node[j]["parent"] = IF j = m THEN y ELSE o.node[j]["parent"]
        BY <1>1, <1>8 DEF Relinked
    <2>2. o.node[j]["parent"] = a.node[j]["parent"]
        BY <1>1, <1>5 DEF Relinked
    <2>3. a.node[j]["parent"] = IF j = x THEN t.node[y].parent ELSE t.node[j]["parent"]
        BY <1>4 DEF Moved
    <2>4. QED
        BY <2>1, <2>2, <2>3
<1>11. r \in Trees /\ r.root = t.root /\ \A j \in Keys : r.node[j].red = t.node[j].red
    BY <1>2, <1>4, <1>5, <1>8 DEF Relinked, Moved
<1>12. ASSUME NEW q \in Sides PROVE r.node[y][q] # z /\ r.node[z][q] # z
    <2>1. t.node[y][q] # z /\ t.node[z][q] # z
        BY <1>1, <1>3 DEF Hung, NextBelow
    <2>2. QED
        BY <1>1, <1>2, <1>9, <2>1
<1>13. /\ r.node[z].parent = t.node[z].parent /\ r.node[y].right = m
    <2>1. r.node[y]["right"] = m
        BY <1>1, <1>9
    <2>2. QED
        BY <1>1, <1>2, <1>10, <2>1
<1>14. ASSUME NEW j \in Keys \ {y, z}
       PROVE  /\ r.node[j].parent = IF j = x THEN t.node[y].parent
                                    ELSE IF j = m THEN y ELSE t.node[j].parent
              /\ \A q \in Sides : r.node[j][q] = IF t.node[j][q] = y THEN x ELSE t.node[j][q]
    BY <1>2, <1>9, <1>10
<1>15. Ousted(t, r, z, y, x)
    BY <1>2, <1>11, <1>12, <1>13, <1>14 DEF Ousted, m
<1>16. QED
    BY <1>15 DEF r, o, a, m

\* The second half: y takes the place and the color of z, and its left child l.
Installed(t, r, z, y, l, c) ==
    /\ r \in Trees
    /\ r.root = IF t.node[z].parent = nil THEN y ELSE t.root
    /\ \A j \in Keys : r.node[j].red = IF j = y THEN c ELSE t.node[j].red
    /\ \A j \in Keys : r.node[j].parent = IF j = l THEN y ELSE IF j = y THEN t.node[z].parent
                                          ELSE t.node[j].parent
    /\ \A j \in Keys, q \in Sides :
          r.node[j][q] = IF j = y /\ q = "left" THEN l
                         ELSE IF t.node[j][q] = z THEN y ELSE t.node[j][q]

LEMMA InstallIs ==
    ASSUME NEW t \in Trees, NEW z \in Keys, NEW y \in Keys, NEW l \in Keys, NEW c \in BOOLEAN, Hung(t, z)
    PROVE  Installed(t, Set(Set(Set(Transplant(t, z, y), y, "left", l), l, "parent", y), y, "red", c),
                     z, y, l, c)
<1> DEFINE a == Transplant(t, z, y)
           b == Set(a, y, "left", l)
           d == Set(b, l, "parent", y)
           r == Set(d, y, "red", c)
<1>1. /\ y \in Links /\ l \in Links /\ "parent" \in LinkFields /\ "left" \in LinkFields /\ "left" # "parent"
      /\ \A q \in Sides : q \in LinkFields /\ q # "parent"
    BY KeysAre, SidesAre DEF LinkFields
<1>2. Moved(t, a, z, y)
    BY <1>1, TransplantIs
<1> HIDE DEF a
<1>3. Relinked(a, b, y, "left", l)
    BY <1>1, <1>2, SetIs DEF Moved
<1> HIDE DEF b
<1>4. Relinked(b, d, l, "parent", y)
    <2>1. b \in Trees
        BY <1>3 DEF Relinked
    <2>2. QED
        BY <1>1, <2>1, SetIs
<1> HIDE DEF d
<1>5. Repainted(d, r, y, c)
    BY <1>1, <1>4, SetRedIs DEF Relinked
<1> HIDE DEF r
<1>6. ASSUME NEW j \in Keys, NEW q \in Sides
      PROVE  r.node[j][q] = IF j = y /\ q = "left" THEN l
                            ELSE IF t.node[j][q] = z THEN y ELSE t.node[j][q]
    <2>1. q \in LinkFields /\ q # "parent"
        BY <1>1
    <2>2. r.node[j][q] = d.node[j][q]
        BY <1>5, <2>1 DEF Repainted
    <2>3. d.node[j][q] = b.node[j][q]
        BY <1>4, <2>1 DEF Relinked
    <2>4. b.node[j][q] = IF j = y /\ q = "left" THEN l ELSE a.node[j][q]
        BY <1>3, <2>1 DEF Relinked
    <2>5. a.node[j][q] = IF t.node[j][q] = z THEN y ELSE t.node[j][q]
        BY <1>2 DEF Moved
    <2>6. QED
        BY <2>2, <2>3, <2>4, <2>5
<1>7. ASSUME NEW j \in Keys
      PROVE  r.node[j]["parent"] = IF j = l THEN y ELSE IF j = y THEN t.node[z].parent
                                   ELSE t.node[j]["parent"]
    <2>1. r.node[j]["parent"] = d.node[j]["parent"]
        BY <1>1, <1>5 DEF Repainted
    <2>2. d.node[j]["parent"] = IF j = l THEN y ELSE b.node[j]["parent"]
        BY <1>1, <1>4 DEF Relinked
    <2>3. b.node[j]["parent"] = a.node[j]["parent"]
        BY <1>1, <1>3 DEF Relinked
    <2>4. a.node[j]["parent"] = IF j = y THEN t.node[z].parent ELSE t.node[j]["parent"]
        BY <1>2 DEF Moved
    <2>5. QED
        BY <2>1, <2>2, <2>3, <2>4
<1>8. ASSUME NEW j \in Keys PROVE r.node[j].red = IF j = y THEN c ELSE t.node[j].red
    BY <1>2, <1>3, <1>4, <1>5 DEF Moved, Relinked, Repainted
<1>9. r \in Trees /\ r.root = IF t.node[z].parent = nil THEN y ELSE t.root
    BY <1>2, <1>3, <1>4, <1>5 DEF Moved, Relinked, Repainted
<1>10. Installed(t, r, z, y, l, c)
    BY <1>6, <1>7, <1>8, <1>9 DEF Installed
<1>11. QED
    BY <1>10 DEF r, d, b, a

LEMMA SpliceIs ==
    ASSUME NEW t, NEW S, NEW sub, Shape(t, S, sub), NEW z, NEW y, NEW x, NextBelow(t, S, z, y, x)
    PROVE  \E u : /\ Ousted(t, u, z, y, x)
                  /\ Installed(u, Splice(t, z, y), z, y, t.node[z].left, t.node[z].red)
<1> DEFINE l == t.node[z].left  c == t.node[z].red
           o == Set(Transplant(t, y, x), y, "right", t.node[z].right)
           u == IF t.node[y].parent = z THEN Set(t, x, "parent", y)
                ELSE Set(o, o.node[y].right, "parent", y)
<1>1. Ousted(t, u, z, y, x)
    BY NearNextOusted, FarNextOusted
<1>2. t.node[y].right = x
    BY DEF NextBelow
<1>3. Splice(t, z, y) = Set(Set(Set(Transplant(u, z, y), y, "left", l), l, "parent", y), y, "red", c)
    BY <1>2 DEF Splice
<1> HIDE DEF u
<1>4. /\ z \in Keys /\ y \in Keys /\ l \in Keys /\ c \in BOOLEAN /\ u \in Trees /\ t \in Trees
      /\ S \in SUBSET Keys /\ nil \notin Keys /\ Links = Keys \cup {nil}
    BY <1>1, TreesAre, KeysAre DEF NextBelow, Ousted, Shape
<1>5. Hung(t, z)
    BY ShapeHangs DEF NextBelow
<1>6. Hung(u, z)
    <2> DEFINE g == t.node[z].parent
    <2>1. u.node[z].parent = g
        BY <1>1 DEF Ousted
    <2>2. g \in S \cup {nil} /\ g # y /\ g # z /\ x # z /\ y # z
        BY DEF NextBelow
    <2>3. ASSUME NEW j \in Keys, NEW q \in Sides, u.node[j][q] = z PROVE j = g
        <3>1. j # y /\ j # z
            BY <1>1, <2>3 DEF Ousted
        <3>2. u.node[j][q] = IF t.node[j][q] = y THEN x ELSE t.node[j][q]
            BY <1>1, <3>1 DEF Ousted
        <3>3. t.node[j][q] = z
            BY <2>2, <2>3, <3>2
        <3>4. QED
            BY <1>5, <3>3 DEF Hung
    <2>4. ASSUME g # nil PROVE \E q \in Sides : u.node[g][q] = z /\ u.node[g][Other(q)] # z
        <3>1. PICK q \in Sides : t.node[g][q] = z /\ t.node[g][Other(q)] # z
            BY <1>5, <2>4 DEF Hung
        <3>2. g \in Keys \ {y, z} /\ Other(q) \in Sides
            BY <1>4, <2>2, <2>4, SidesAre
        <3>3. /\ u.node[g][q] = IF t.node[g][q] = y THEN x ELSE t.node[g][q]
              /\ u.node[g][Other(q)] = IF t.node[g][Other(q)] = y THEN x ELSE t.node[g][Other(q)]
            BY <1>1, <3>2 DEF Ousted
        <3>4. QED
            BY <2>2, <3>1, <3>3
    <2> HIDE DEF g
    <2>5. QED
        BY <2>1, <2>3, <2>4 DEF Hung
<1>7. Installed(u, Splice(t, z, y), z, y, l, c)
    BY <1>3, <1>4, <1>6, InstallIs
<1>8. QED
    BY <1>1, <1>7

\* A node with at most one child.
LEMMA RemoveOne ==
    ASSUME NEW t, NEW S, NEW sub, Shape(t, S, sub), NEW k \in S, NEW x,
           IF t.node[k].left = nil THEN x = t.node[k].right
                                   ELSE x = t.node[k].left /\ t.node[k].right = nil
    PROVE  /\ OnlyChild(t, k, x) /\ x \in S \cup {nil} /\ x # k /\ (x # nil => t.node[x].parent = k)
           /\ Contracted(t, Erased(Transplant(t, k, x), k), k, x)
<1>1. "left" \in Sides /\ "right" \in Sides /\ Other("left") = "right" /\ Other("right") = "left"
    BY DEF Sides, Other
<1>2. OnlyChild(t, k, x)
    <2>1. CASE t.node[k].left = nil
        <3>1. t.node[k]["right"] = x /\ t.node[k]["left"] = nil
            BY <2>1
        <3>2. QED
            BY <1>1, <3>1 DEF OnlyChild
    <2>2. CASE t.node[k].left # nil
        <3>1. t.node[k]["left"] = x /\ t.node[k]["right"] = nil
            BY <2>2
        <3>2. QED
            BY <1>1, <3>1 DEF OnlyChild
    <2>3. QED
        BY <2>1, <2>2
<1>3. PICK s \in Sides : t.node[k][s] = x
    BY <1>2 DEF OnlyChild
<1>4. x \in S \cup {nil} /\ (x # nil => x # k /\ t.node[x].parent = k) /\ k # nil
    BY <1>3, Near
<1>5. x \in Links
    BY <1>4, KeysAre DEF Shape
<1>6. Contracted(t, Erased(Transplant(t, k, x), k), k, x)
    BY <1>5, ContractIs
<1>7. QED
    BY <1>2, <1>4, <1>6

\* A node with two children: the next one leaves its place and takes that of z.
LEMMA RemoveTwo ==
    ASSUME NEW t, NEW S, NEW sub, Shape(t, S, sub), NEW z \in S,
           t.node[z].left # nil, t.node[z].right # nil,
           NEW y, y = Minimum(t, t.node[z].right), NEW x, x = t.node[y].right
    PROVE  /\ y \in S /\ y # z /\ OnlyChild(t, y, x) /\ x \in S \cup {nil} /\ x # y /\ x # z
           /\ x # nil => t.node[x].parent = y
           /\ \E m : /\ Contracted(t, m, y, x)
                     /\ InPlaceOf(m, S \ {y}, [a \in Links |-> sub[a] \ {y}], z, y)
                     /\ Replaced(m, Erased(Splice(t, z, y), z), z, y)
<1> DEFINE l == t.node[z].left  w == t.node[z].right  p == t.node[y].parent  g == t.node[z].parent
           m == Erased(Transplant(t, y, x), y)
           T == S \ {y}  new == [a \in Links |-> sub[a] \ {y}]
           q == Splice(t, z, y)
           r == Erased(q, z)
<1>1. NextBelow(t, S, z, y, x) /\ y \in sub[w] /\ \A j \in sub[w] : j = y \/ y < j
    BY NextIs
<1>2. /\ z \in S /\ y \in S /\ l \in S /\ w \in S /\ p \in S /\ x \in S \cup {nil} /\ g \in S \cup {nil}
      /\ x = t.node[y].right /\ t.node[y].left = nil
      /\ z # y /\ l # y /\ l # z /\ l # w /\ w # z /\ x # y /\ x # z /\ x # l /\ p # y
      /\ p = z <=> w = y
      /\ w = y \/ w # x
      /\ g \notin {y, z, l, w} /\ (g # nil => g # x)
      /\ t.node[l].parent = z /\ t.node[w].parent = z
      /\ x # nil => t.node[x].parent = y
      /\ p # nil /\ (p = z \/ p # l)
      /\ t.root = z <=> g = nil
      /\ t.root # y
    BY <1>1 DEF NextBelow
<1>3. OnlyChild(t, y, x)
    <2>1. "right" \in Sides /\ Other("right") = "left" /\ t.node[y]["right"] = x /\ t.node[y]["left"] = nil
        BY <1>2 DEF Sides, Other
    <2>2. QED
        BY <2>1 DEF OnlyChild
<1>4. /\ S \in SUBSET Keys /\ nil \notin Keys /\ Links = Keys \cup {nil} /\ x \in Links
      /\ y \in Keys /\ z \in Keys /\ l \in Keys /\ w \in Keys /\ x \in Links /\ t \in Trees
    BY <1>2, KeysAre DEF Shape
<1>5. Contracted(t, m, y, x)
    BY <1>2, <1>4, ContractIs
<1>6. PICK u : Ousted(t, u, z, y, x) /\ Installed(u, q, z, y, l, t.node[z].red)
    BY <1>1, SpliceIs
<1> HIDE DEF m, q, l, w, p, g
<1>7. \A j \in Keys : r.node[j] = IF j = z THEN Unused ELSE q.node[j]
    BY <1>4, <1>6, ErasedIs DEF Installed
<1>8. r \in Trees /\ r.root = q.root
    BY <1>4, <1>6, ErasedIs DEF Installed
<1> HIDE DEF r
<1>9. \A j \in Keys \ {y} :
         /\ m.node[j].red = t.node[j].red
         /\ m.node[j].parent = IF j = x THEN p ELSE t.node[j].parent
         /\ \A s \in Sides : m.node[j][s] = IF t.node[j][s] = y THEN x ELSE t.node[j][s]
    BY <1>5 DEF Contracted, p
<1>10. m.root = t.root
    BY <1>2, <1>5 DEF Contracted, p
<1>11. r.root = IF m.root = z THEN y ELSE m.root
    <2>1. q.root = IF u.node[z].parent = nil THEN y ELSE u.root
        BY <1>6 DEF Installed
    <2>2. u.root = t.root /\ u.node[z].parent = g
        BY <1>6 DEF Ousted, g
    <2>3. QED
        BY <1>2, <1>8, <1>10, <2>1, <2>2
<1>12. ASSUME NEW j \in Keys \ {z}
       PROVE  r.node[j].red = IF j = y THEN m.node[z].red ELSE m.node[j].red
    <2>1. q.node[j].red = IF j = y THEN t.node[z].red ELSE t.node[j].red
        <3>1. q.node[j].red = IF j = y THEN t.node[z].red ELSE u.node[j].red
            BY <1>6 DEF Installed
        <3>2. u.node[j].red = t.node[j].red
            BY <1>6 DEF Ousted
        <3>3. QED
            BY <3>1, <3>2
    <2>2. m.node[z].red = t.node[z].red
        BY <1>2, <1>4, <1>9
    <2>3. j # y => m.node[j].red = t.node[j].red
        BY <1>9
    <2>4. QED
        BY <1>7, <2>1, <2>2, <2>3
<1>13. ASSUME NEW j \in Keys \ {z}
       PROVE  r.node[j].parent = IF j = y THEN m.node[z].parent
                                 ELSE IF m.node[j].parent = z THEN y ELSE m.node[j].parent
    <2>1. q.node[j].parent = IF j = l THEN y ELSE IF j = y THEN g ELSE u.node[j].parent
        BY <1>6 DEF Installed, Ousted, g
    <2>2. r.node[j].parent = q.node[j].parent
        BY <1>7
    <2>3. CASE j = y
        <3>1. m.node[z].parent = g
            BY <1>2, <1>4, <1>9 DEF g
        <3>2. QED
            BY <1>2, <2>1, <2>2, <2>3, <3>1
    <2>4. CASE j # y
        <3>1. m.node[j].parent = IF j = x THEN p ELSE t.node[j].parent
            BY <1>9, <2>4
        <3>2. u.node[j].parent = IF j = x THEN IF p = z THEN y ELSE p
                                 ELSE IF j = w THEN y ELSE t.node[j].parent
            BY <1>6, <2>4 DEF Ousted, p, w
        <3>3. t.node[j].parent = z <=> j = l \/ j = w
            <4>1. CASE j \in S
                <5>1. ASSUME t.node[j].parent = z PROVE j = l \/ j = w
                    <6>1. j # t.root
                        <7>1. z # nil
                            BY <1>4
                        <7>2. QED
                            BY <4>1, <5>1, <7>1, RootAlone
                    <6>2. PICK s \in Sides : t.node[z][s] = j
                        BY <4>1, <5>1, <6>1, Parents
                    <6>3. QED
                        BY <6>2 DEF Sides, l, w
                <5>2. QED
                    BY <1>2, <5>1
            <4>2. CASE j \notin S
                <5>1. t.node[j].parent = nil
                    BY <4>2 DEF Shape, Unused
                <5>2. QED
                    BY <1>2, <1>4, <4>2, <5>1
            <4>3. QED
                BY <4>1, <4>2
        <3>4. CASE j = x
            BY <1>2, <2>1, <2>2, <2>4, <3>1, <3>2, <3>4
        <3>5. CASE j # x
            BY <1>2, <2>1, <2>2, <2>4, <3>1, <3>2, <3>3, <3>5
        <3>6. QED
            BY <3>4, <3>5
    <2>5. QED
        BY <2>3, <2>4
<1>14. ASSUME NEW j \in Keys \ {z}, NEW s \in Sides
       PROVE  r.node[j][s] = IF j = y THEN m.node[z][s] ELSE IF m.node[j][s] = z THEN y ELSE m.node[j][s]
    <2>1. q.node[j][s] = IF j = y /\ s = "left" THEN l ELSE IF u.node[j][s] = z THEN y ELSE u.node[j][s]
        BY <1>6 DEF Installed
    <2>2. r.node[j][s] = q.node[j][s]
        BY <1>7
    <2>3. CASE j = y
        <3>1. m.node[z][s] = IF t.node[z][s] = y THEN x ELSE t.node[z][s]
            <4>1. z \in Keys \ {y}
                BY <1>2, <1>4
            <4>2. QED
                BY <1>9, <4>1
        <3>2. CASE s = "left"
            BY <1>2, <2>1, <2>2, <2>3, <3>1, <3>2 DEF l
        <3>3. CASE s = "right"
            <4>1. u.node[y][s] = IF t.node[z][s] = y THEN x ELSE t.node[z][s]
                BY <1>6, <3>3 DEF Ousted
            <4>2. u.node[y][s] # z
                BY <1>6 DEF Ousted
            <4>3. QED
                BY <2>1, <2>2, <2>3, <3>1, <3>3, <4>1, <4>2
        <3>4. QED
            BY <3>2, <3>3 DEF Sides
    <2>4. CASE j # y
        <3>1. u.node[j][s] = IF t.node[j][s] = y THEN x ELSE t.node[j][s]
            BY <1>6, <2>4 DEF Ousted
        <3>2. m.node[j][s] = IF t.node[j][s] = y THEN x ELSE t.node[j][s]
            BY <1>9, <2>4
        <3>3. QED
            BY <2>1, <2>2, <2>4, <3>1, <3>2
    <2>5. QED
        BY <2>3, <2>4
<1>15. Replaced(m, r, z, y)
    <2>1. r.node[z] = Unused
        BY <1>4, <1>7
    <2>2. QED
        BY <1>8, <1>11, <1>12, <1>13, <1>14, <2>1 DEF Replaced
<1>16. InPlaceOf(m, T, new, z, y)
    <2>1. y \in Nat /\ z \in Nat /\ \A j \in S : j \in Nat
        BY <1>4, KeysAre
    <2>2. "left" \in Sides /\ "right" \in Sides /\ Other("left") = "right"
        BY DEF Sides, Other
    <2>3. /\ \A j \in sub[l] : Below("left", j, z) /\ j \in S
          /\ \A j \in sub[w] : Below("right", j, z) /\ j \in S
        <3>1. \A s \in Sides : \A j \in sub[t.node[z][s]] : Below(s, j, z)
            BY <1>2 DEF Shape
        <3>2. sub[l] \subseteq S /\ sub[w] \subseteq S
            <4>1. Kin(t, S, sub, z)
                BY <1>2, KinOf
            <4>2. sub[z] \subseteq S /\ \A s \in Sides : sub[t.node[z][s]] \subseteq sub[z]
                BY <4>1 DEF Kin
            <4>3. QED
                BY <2>2, <4>2 DEF l, w
        <3>3. QED
            BY <2>2, <3>1, <3>2 DEF l, w
    <2>4. sub[w] \subseteq sub[z] /\ z < y
        <3>1. sub[t.node[z]["right"]] \subseteq sub[z]
            <4>1. Kin(t, S, sub, z)
                BY <1>2, KinOf
            <4>2. QED
                BY <2>2, <4>1 DEF Kin
        <3>2. Below("right", y, z)
            BY <1>1, <2>3 DEF w
        <3>3. QED
            BY <3>1, <3>2 DEF Below, w
    <2>5. \A a \in Links : new[a] \subseteq sub[a]
        OBVIOUS
    <2>6. /\ new[x] = sub[x] /\ sub[y] \ {y} = sub[x] /\ new[y] = sub[x]
        <3>1. y \notin sub[x] /\ sub[y] = {y} \cup sub[x]
            <4>1. y \notin sub[t.node[y]["right"]]
                <5>1. Kin(t, S, sub, y)
                    BY <1>2, KinOf
                <5>2. QED
                    BY <2>2, <5>1 DEF Kin
            <4>2. sub[y] = {y} \cup sub[t.node[y].left] \cup sub[t.node[y].right] /\ sub[nil] = {}
                BY <1>2 DEF Shape
            <4>3. QED
                BY <1>2, <4>1, <4>2
        <3>2. QED
            BY <1>4, <3>1
    <2>7. ASSUME NEW a \in T, NEW s \in Sides
          PROVE  new[m.node[a][s]] = sub[t.node[a][s]] \ {y}
        <3>1. m.node[a][s] = IF t.node[a][s] = y THEN x ELSE t.node[a][s]
            BY <1>4, <1>9
        <3>2. t.node[a][s] \in Links
            BY <1>4 DEF Shape
        <3>3. QED
            BY <2>6, <3>1, <3>2
    <2> HIDE DEF new
    <2>8. ASSUME NEW a \in T, NEW s \in Sides, z \in new[m.node[a][s]] PROVE Below(s, y, a)
        <3>1. z \in sub[t.node[a][s]] /\ a \in S /\ a # y
            BY <2>7, <2>8
        <3>2. t.node[a][s] \in S
            BY <3>1, Near DEF Shape
        <3>3. y \in sub[t.node[a][s]]
            <4>1. sub[z] \subseteq sub[t.node[a][s]]
                BY <3>1, <3>2, Deep
            <4>2. QED
                BY <1>1, <2>4, <4>1 DEF w
        <3>4. QED
            BY <3>1, <3>3 DEF Shape
    <2>9. ASSUME NEW s \in Sides, NEW j \in new[m.node[z][s]] PROVE Below(s, j, y)
        <3>1. j \in sub[t.node[z][s]] \ {y}
            BY <1>2, <2>7, <2>9
        <3>2. CASE s = "left"
            <4>1. j < z /\ j \in Nat
                BY <2>1, <2>3, <3>1, <3>2 DEF Below, l
            <4>2. QED
                BY <2>1, <2>4, <3>2, <4>1 DEF Below
        <3>3. CASE s = "right"
            BY <1>1, <3>1, <3>3 DEF Below, w
        <3>4. QED
            BY <3>2, <3>3 DEF Sides
    <2>10. QED
        BY <2>8, <2>9 DEF InPlaceOf
<1>17. QED
    BY <1>2, <1>3, <1>5, <1>15, <1>16 DEF r, q

=============================================================================
