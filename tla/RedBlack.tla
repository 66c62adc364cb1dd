------------------------------ MODULE RedBlack ------------------------------
(***************************************************************************)
(* maps/red_black_tree.go and set/red_black_tree.go: the same tree twice.  *)
(*                                                                         *)
(* Remove moves nodes and never keys, so a node is known by its key; 0 is  *)
(* nil.  The mirrored halves of the code are one definition here, with the *)
(* side as a parameter.  Add and Remove change the tree up to their fixup  *)
(* in one step; each turn of a fixup's loop is a step of its own.          *)
(***************************************************************************)
EXTENDS Naturals, FiniteSets

CONSTANT MaxKey
ASSUME MaxKeyAssumption == MaxKey \in Nat \ {0}

Keys == 1..MaxKey
nil == 0
Links == Keys \cup {nil}
Sides == {"left", "right"}
Other(s) == IF s = "left" THEN "right" ELSE "left"

VARIABLES
    root,
    node,    \* of each key: its color, children and parent; Unused outside the tree
    fix,     \* the fixup that runs: "none", "put" or "delete"; "crash" after a nil dereference
    at,      \* the node it is at
    skewed,  \* whether a black leaf was removed, which no fixup makes up for
    asked    \* the last call; no step depends on it

tree == <<root, node, fix, at, skewed>>
vars == <<tree, asked>>

Unused == [red |-> FALSE, left |-> nil, right |-> nil, parent |-> nil]

Init ==
    /\ root = nil
    /\ node = [k \in Keys |-> Unused]
    /\ fix = "none" /\ at = nil
    /\ skewed = FALSE
    /\ asked = <<>>

-----------------------------------------------------------------------------
(* Operators on a tree, a record of a root and nodes                       *)

Tree == [root |-> root, node |-> node]

\* Field f of node k becomes v; a child that is nil has no parent to set.
Set(t, k, f, v) == IF k = nil THEN t ELSE [t EXCEPT !.node[k] = [@ EXCEPT ![f] = v]]

IsRed(t, k) == k # nil /\ t.node[k].red
Paint(t, k, c) == Set(t, k, "red", c = "red")
SideOf(t, k) == IF t.node[t.node[k].parent].left = k THEN "left" ELSE "right"

\* v takes the place of u under the parent of u, which v keeps as its own.
Transplant(t, u, v) ==
    LET p == t.node[u].parent
        down == IF p = nil THEN [t EXCEPT !.root = v] ELSE Set(t, p, SideOf(t, u), v)
    IN  Set(down, v, "parent", p)

\* rotateLeft or rotateRight at y: its other child x takes its place, and the
\* inner child of x takes that of x.
Rotate_x(t, y, s) ==
    LET x == t.node[y][Other(s)]
    IN  IF x = nil THEN t
        ELSE Set(Set(Set(Transplant(t, y, x), y, Other(s), t.node[x][s]), x, s, y), y, "parent", x)
Lift(t, y, s, x, inner) ==
    LET moved == Set(Set(t, y, Other(s), inner), inner, "parent", y)
    IN  Set(Set(Transplant(moved, y, x), x, s, y), y, "parent", x)
Rotate(t, y, s) ==
    LET x == t.node[y][Other(s)]
    IN  IF x = nil THEN t ELSE Lift(t, y, s, x, t.node[x][s])

\* internalLookup: where the search for k is after i links, and the node and
\* the side it came from.
Search(t, k) ==
    LET path[i \in 0..MaxKey] ==
          IF i = 0 THEN [this |-> t.root, parent |-> nil, dir |-> "left"]
          ELSE LET p == path[i - 1]
                   d == IF k < p.this THEN "left" ELSE "right"
               IN  IF p.this \in {nil, k} THEN p
                   ELSE [this |-> t.node[p.this][d], parent |-> p.this, dir |-> d]
    IN  path[MaxKey]

Found(t, k) == Search(t, k).this = k

Minimum(t, k) ==
    LET m[i \in 0..MaxKey] ==
          IF i = 0 THEN k
          ELSE LET x == m[i - 1] IN IF t.node[x].left = nil THEN x ELSE t.node[x].left
    IN  m[MaxKey]

Become(t) == root' = t.root /\ node' = t.node /\ skewed' = (skewed /\ t.root # nil)
Fixup(f, k) == fix' = f /\ at' = k

-----------------------------------------------------------------------------
(* Operations                                                              *)

Add(k) ==
    LET s == Search(Tree, k)
    IN  /\ fix = "none"
        /\ asked' = <<"Add", k>>
        /\ IF root = nil THEN
              Become([Set(Tree, k, "red", FALSE) EXCEPT !.root = k]) /\ UNCHANGED <<fix, at>>
           ELSE IF s.this = k THEN UNCHANGED tree     \* only the value changes
           ELSE /\ Become(Set(Set(Paint(Tree, k, "red"), k, "parent", s.parent), s.parent, s.dir, k))
                /\ Fixup("put", k)

\* A node with two children is replaced by the least node y on its right.
Splice_x(t, z, y) ==
    LET x == t.node[y].right
        out == IF t.node[y].parent = z THEN t
               ELSE LET o == Set(Transplant(t, y, x), y, "right", t.node[z].right)
                    IN  Set(o, o.node[y].right, "parent", y)
    IN  Set(Transplant(out, z, y), y, "red", t.node[z].red)
Splice(t, z, y) ==
    LET x == t.node[y].right
        out == IF t.node[y].parent = z
               THEN Set(t, x, "parent", y)
               ELSE LET o == Set(Transplant(t, y, x), y, "right", t.node[z].right)
                    IN  Set(o, o.node[y].right, "parent", y)
        in == Transplant(out, z, y)
        full == Set(Set(in, y, "left", t.node[z].left), t.node[z].left, "parent", y)
    IN  Set(full, y, "red", t.node[z].red)

\* The fixup runs if a black node y went and is not replaced by nil.
NeedsFixup_x(y, x) == node[y].red /\ x # nil
NeedsFixup(y, x) == ~node[y].red /\ x # nil

Remove(k) ==
    LET n == node[k]
        y == IF n.left # nil /\ n.right # nil THEN Minimum(Tree, n.right) ELSE k
        x == IF n.left = nil THEN n.right ELSE IF n.right = nil THEN n.left ELSE node[y].right
        t == IF y = k THEN Transplant(Tree, k, x) ELSE Splice(Tree, k, y)
    IN  /\ fix = "none"
        /\ Found(Tree, k)
        /\ asked' = <<"Remove", k>>
        /\ root' = t.root /\ node' = [t.node EXCEPT ![k] = Unused]
        /\ skewed' = (t.root # nil /\ (skewed \/ (~node[y].red /\ x = nil)))
        /\ IF NeedsFixup(y, x) THEN Fixup("delete", x) ELSE UNCHANGED <<fix, at>>

Clear ==
    /\ fix = "none"
    /\ asked' = <<"Clear">>
    /\ Become([root |-> nil, node |-> [k \in Keys |-> Unused]])
    /\ UNCHANGED <<fix, at>>

-----------------------------------------------------------------------------
(* fixupPut                                                                *)

PutEnd_x ==
    /\ fix = "put" /\ ~IsRed(Tree, node[at].parent)
    /\ Fixup("none", nil)
    /\ UNCHANGED <<root, node, skewed>>
PutEnd ==
    /\ fix = "put" /\ ~IsRed(Tree, node[at].parent)
    /\ Become(Paint(Tree, root, "black"))
    /\ Fixup("none", nil)

PutStep ==
    LET p == node[at].parent
        g == node[p].parent
        s == SideOf(Tree, p)
        uncle == node[g][Other(s)]
        red == Paint(Paint(Paint(Tree, p, "black"), uncle, "black"), g, "red")
        inner == at # node[p][s]
        z == IF inner THEN p ELSE at
        straight == IF inner THEN Rotate(Tree, p, s) ELSE Tree
        black == Paint(Paint(straight, straight.node[z].parent, "black"), g, "red")
    IN  /\ fix = "put" /\ IsRed(Tree, p)
        /\ IF g = nil THEN Fixup("crash", nil) /\ UNCHANGED <<root, node, skewed>>
           ELSE IF IsRed(Tree, uncle) THEN Become(red) /\ Fixup("put", g)
           ELSE Become(Rotate(black, g, Other(s))) /\ Fixup("put", z)

-----------------------------------------------------------------------------
(* fixupDelete                                                             *)

DeleteEnd ==
    /\ fix = "delete" /\ (at = root \/ IsRed(Tree, at))
    /\ Become(Paint(Tree, at, "black"))
    /\ Fixup("none", nil)

\* w is the sibling after a red one was rotated up, near and far its children.
DeleteStep ==
    LET p == node[at].parent
        s == SideOf(Tree, at)
        o == Other(s)
        t == IF IsRed(Tree, node[p][o])
             THEN Rotate(Paint(Paint(Tree, node[p][o], "black"), p, "red"), p, s) ELSE Tree
        w == t.node[p][o]
        near == t.node[w][s]
        far == t.node[w][o]
        t2 == IF IsRed(t, far) THEN t
              ELSE Rotate(Paint(Paint(t, near, "black"), w, "red"), w, o)
        w2 == t2.node[p][o]
        t3 == Paint(Paint(Set(t2, w2, "red", t2.node[p].red), p, "black"), t2.node[w2][o], "black")
        up == Rotate(t3, p, s)
    IN  /\ fix = "delete" /\ at # root /\ ~IsRed(Tree, at)
        /\ IF w = nil THEN Become(t) /\ Fixup("delete", at)
           ELSE IF ~IsRed(t, near) /\ ~IsRed(t, far)
                THEN Become(Paint(t, w, "red")) /\ Fixup("delete", p)
           ELSE Become(up) /\ Fixup("delete", up.root)

-----------------------------------------------------------------------------
FixStep == (PutEnd \/ PutStep \/ DeleteEnd \/ DeleteStep) /\ UNCHANGED asked
Next == Clear \/ FixStep \/ \E k \in Keys : Add(k) \/ Remove(k)
Spec == Init /\ [][Next]_vars

\* A call that was made is executed.
FairSpec == Spec /\ WF_vars(FixStep)

-----------------------------------------------------------------------------
(* Safety                                                                  *)

Content == {k \in Keys : k = root \/ \E p \in Keys, s \in Sides : node[p][s] = k}

TypeOK ==
    /\ root \in Links
    /\ node \in [Keys -> [red : BOOLEAN, left : Links, right : Links, parent : Links]]
    /\ fix \in {"none", "put", "delete", "crash"} /\ at \in Links /\ skewed \in BOOLEAN
    /\ at = nil <=> fix \in {"none", "crash"}

\* The nodes form a tree: whoever has a parent is its child and the other way
\* round, and a search finds every node that is linked and no other.
IsTree ==
    /\ TypeOK
    /\ root # nil => node[root].parent = nil
    /\ \A k \in Keys :
          /\ \A s \in Sides : node[k][s] # nil => node[node[k][s]].parent = k
          /\ node[k].parent # nil => \E s \in Sides : node[node[k].parent][s] = k
          /\ Found(Tree, k) <=> k \in Content
          /\ k \notin Content => node[k] = Unused

\* "The root is black", "Red nodes cannot have red children", between calls; for
\* this reason a fixup never follows a link that is nil.
Colored ==
    /\ fix # "crash"
    /\ fix = "none" =>
       /\ ~IsRed(Tree, root)
       /\ \A k \in Keys : node[k].red => ~IsRed(Tree, node[k].left) /\ ~IsRed(Tree, node[k].right)

\* The tree is a sorted set: it holds what was added and not removed, also
\* while a fixup moves nodes around.
Sorted == INSTANCE SortedKeys WITH keys <- Content
ImplementsSortedKeys == Sorted!Spec

\* "Every path from root to leaf contains the same number of black nodes",
\* unless a black leaf was removed.
BlackAbove(k) ==
    LET up[i \in 0..MaxKey] ==    \* the i-th node on the way to the root
          IF i = 0 THEN k ELSE LET x == up[i - 1] IN IF x = nil THEN nil ELSE node[x].parent
    IN  {up[i] : i \in 0..MaxKey} \ ({nil} \cup {j \in Keys : node[j].red})
Leaves == {k \in Content : nil \in {node[k].left, node[k].right}}

Balanced ==
    fix = "none" /\ ~skewed =>
       \A j, k \in Leaves : Cardinality(BlackAbove(j)) = Cardinality(BlackAbove(k))

\* The tree is a red-black tree, while fixups run and between calls.
TreeIsLegal == IsTree /\ Colored /\ Balanced

-----------------------------------------------------------------------------
(* Liveness                                                                *)

\* A call returns, unless a black leaf was removed.
ReturnsUnlessSkewed == (fix # "none") ~> (fix = "none" \/ skewed)

\* "It maintains O(log n) performance for insertions, deletions, and lookups":
\* every call returns.
Returns == (fix # "none") ~> (fix = "none")

=============================================================================
