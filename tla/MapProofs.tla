------------------------------ MODULE MapProofs ------------------------------
(***************************************************************************)
(* Two things that maps and sets rest on, for any number of keys, callers  *)
(* and containers.                                                         *)
(*                                                                         *)
(* The tree of RedBlack stays a red-black tree, while fixups run and       *)
(* between calls, and holds the keys that a sorted set holds.  Legal is    *)
(* the invariant: it says what a fixup has left to mend, and for the black *)
(* nodes on each path it supplies the numbers (Heights) that a recursive   *)
(* count would return.                                                     *)
(*                                                                         *)
(* The locks of Locked keep a container to one writer, and its joins are   *)
(* true.                                                                   *)
(***************************************************************************)
EXTENDS SearchTrees, Locked, FiniteSetTheorems, TLAPS

-----------------------------------------------------------------------------
(* The same, of trees that have some shape                                 *)

HasShape(t, S) == \E sub : Shape(t, S, sub)

\* Who is whose child and parent.
Related(t, S) ==
    /\ nil \notin S /\ S \in SUBSET Keys /\ t \in Trees
    /\ S # {} => t.root \in S
    /\ S = {} => t.root = nil
    /\ \A c \in S :
          /\ c = t.root <=> t.node[c].parent = nil
          /\ c # t.root => /\ t.node[c].parent \in S /\ t.node[c].parent # c
                           /\ SideOf(t, c) \in Sides /\ t.node[t.node[c].parent][SideOf(t, c)] = c
    /\ \A a \in S, s \in Sides :
          /\ t.node[a][s] \in S \cup {nil} /\ t.node[a][s] # a
          /\ t.node[a][s] # nil => /\ t.node[t.node[a][s]].parent = a
                                   /\ t.node[a][s] # t.root
                                   /\ t.node[a][s] # t.node[a][Other(s)]
                                   /\ SideOf(t, t.node[a][s]) = s
    /\ \A a, b \in S, s, q \in Sides :
          t.node[a][s] # nil /\ t.node[a][s] = t.node[b][q] => a = b /\ s = q
    /\ \A j \in S : t.node[j].red \in BOOLEAN

LEMMA FamilyOf ==
    ASSUME NEW t, NEW S, HasShape(t, S)
    PROVE  Related(t, S)
<1>1. PICK sub : Shape(t, S, sub)
    BY DEF HasShape
<1>2. nil \notin S /\ S \in SUBSET Keys /\ t \in Trees
    BY <1>1, KeysAre DEF Shape
<1>3. (S # {} => t.root \in S) /\ (S = {} => t.root = nil)
    BY <1>1, Parents
<1>4. ASSUME NEW a \in S, NEW s \in Sides
      PROVE  /\ t.node[a][s] \in S \cup {nil} /\ t.node[a][s] # a
             /\ t.node[a][s] # nil => /\ t.node[t.node[a][s]].parent = a
                                      /\ t.node[a][s] # t.root
                                      /\ t.node[a][s] # t.node[a][Other(s)]
    <2>1. t.node[a][s] \in S \cup {nil} /\ a # nil
        BY <1>1, Near
    <2>2. t.node[a][s] # nil => /\ t.node[t.node[a][s]].parent = a
                                /\ t.node[a][s] # a
                                /\ t.node[a][s] # t.node[a][Other(s)]
        BY <1>1, Near
    <2>3. t.node[a][s] # nil => t.node[a][s] # t.root
        BY <1>1, Parents
    <2>4. QED
        BY <2>1, <2>2, <2>3
<1>5. \A a, b \in S, s, q \in Sides :
         t.node[a][s] # nil /\ t.node[a][s] = t.node[b][q] => a = b /\ s = q
    BY <1>1, Parents
<1>6. ASSUME NEW c \in S, NEW a \in S, NEW s \in Sides, t.node[a][s] = c
      PROVE  SideOf(t, c) = s
    <2>1. c # nil
        BY <1>2
    <2>2. t.node[c].parent = a
        BY <1>4, <1>6, <2>1
    <2>3. SideOf(t, c) = IF t.node[a]["left"] = c THEN "left" ELSE "right"
        BY <2>2 DEF SideOf
    <2>4. t.node[a]["left"] = c => s = "left"
        BY <1>5, <1>6, <2>1 DEF Sides
    <2>5. QED
        BY <1>6, <2>3, <2>4 DEF Sides
<1>7. ASSUME NEW c \in S
      PROVE  /\ c = t.root <=> t.node[c].parent = nil
             /\ c # t.root => /\ t.node[c].parent \in S /\ t.node[c].parent # c
                              /\ SideOf(t, c) \in Sides /\ t.node[t.node[c].parent][SideOf(t, c)] = c
    <2>1. /\ c = t.root <=> t.node[c].parent = nil
          /\ c # t.root => /\ t.node[c].parent \in S /\ t.node[c].parent # c
                           /\ \E s \in Sides : t.node[t.node[c].parent][s] = c
        BY <1>1, Parents
    <2>2. QED
        BY <1>6, <2>1
<1>8. \A j \in S : t.node[j].red \in BOOLEAN
    BY <1>2, TreesAre
<1>9. \A a \in S, s \in Sides : t.node[a][s] # nil => SideOf(t, t.node[a][s]) = s
    <2>1. \A a \in S, s \in Sides : t.node[a][s] # nil => t.node[a][s] \in S
        BY <1>4
    <2>2. QED
        BY <1>6, <2>1
<1>10. QED
    BY <1>2, <1>3, <1>4, <1>5, <1>7, <1>8, <1>9 DEF Related

LEMMA Family ==
    ASSUME NEW t, NEW S, HasShape(t, S)
    PROVE  /\ nil \notin S /\ S \in SUBSET Keys /\ t \in Trees
           /\ S # {} => t.root \in S
           /\ S = {} => t.root = nil
           /\ \A c \in S :
                 /\ c = t.root <=> t.node[c].parent = nil
                 /\ c # t.root => /\ t.node[c].parent \in S /\ t.node[c].parent # c
                                  /\ SideOf(t, c) \in Sides /\ t.node[t.node[c].parent][SideOf(t, c)] = c
           /\ \A a \in S, s \in Sides :
                 /\ t.node[a][s] \in S \cup {nil} /\ t.node[a][s] # a
                 /\ t.node[a][s] # nil => /\ t.node[t.node[a][s]].parent = a
                                          /\ t.node[a][s] # t.root
                                          /\ t.node[a][s] # t.node[a][Other(s)]
                                          /\ SideOf(t, t.node[a][s]) = s
           /\ \A a, b \in S, s, q \in Sides :
                 t.node[a][s] # nil /\ t.node[a][s] = t.node[b][q] => a = b /\ s = q
           /\ \A j \in S : t.node[j].red \in BOOLEAN
    BY FamilyOf DEF Related

\* Only the color of k changed, if k is not nil.
Repaints(t, r, S, k, v) ==
    /\ r.root = t.root
    /\ \A j \in S : /\ r.node[j].red = IF j = k THEN v ELSE t.node[j].red
                    /\ r.node[j].parent = t.node[j].parent
                    /\ \A q \in Sides : r.node[j][q] = t.node[j][q]

LEMMA SetRedKeeps ==
    ASSUME NEW t, NEW S, HasShape(t, S), NEW k \in S \cup {nil}, NEW v \in BOOLEAN
    PROVE  LET r == Set(t, k, "red", v)
           IN  HasShape(r, S) /\ Repaints(t, r, S, k, v)
<1> DEFINE r == Set(t, k, "red", v)
<1>1. PICK sub : Shape(t, S, sub)
    BY DEF HasShape
<1>2. k \in Links /\ t \in Trees /\ S \in SUBSET Keys
    BY Family, KeysAre
<1>3. Repainted(t, r, k, v)
    BY <1>2, SetRedIs
<1> HIDE DEF r
<1>4. HasShape(r, S)
    BY <1>1, <1>3, PaintShape DEF HasShape
<1>5. ASSUME NEW j \in S
      PROVE  /\ r.node[j].red = IF j = k THEN v ELSE t.node[j].red
             /\ r.node[j].parent = t.node[j].parent
             /\ \A q \in Sides : r.node[j][q] = t.node[j][q]
    <2>1. \A h \in LinkFields : r.node[j][h] = t.node[j][h]
        BY <1>2, <1>3 DEF Repainted
    <2>2. \A q \in Sides : r.node[j][q] = t.node[j][q]
        BY <2>1, SidesAre
    <2>3. r.node[j]["parent"] = t.node[j]["parent"]
        BY <2>1, SidesAre
    <2>4. r.node[j].red = IF j = k THEN v ELSE t.node[j].red
        BY <1>2, <1>3 DEF Repainted
    <2>5. QED
        BY <2>2, <2>3, <2>4
<1>6. r.root = t.root
    BY <1>3 DEF Repainted
<1>7. QED
    BY <1>4, <1>5, <1>6 DEF Repaints, r

LEMMA PaintKeeps ==
    ASSUME NEW t, NEW S, HasShape(t, S), NEW k \in S \cup {nil}, NEW c
    PROVE  HasShape(Paint(t, k, c), S) /\ Repaints(t, Paint(t, k, c), S, k, c = "red")
<1>1. (c = "red") \in BOOLEAN /\ Paint(t, k, c) = Set(t, k, "red", c = "red")
    BY DEF Paint
<1>2. QED
    BY <1>1, SetRedKeeps

\* Each link is what it was, but for the three that turned.
Rotated(t, r, S, y, s, x, inner) ==
    /\ r.root = IF t.root = y THEN x ELSE t.root
    /\ \A j \in S : r.node[j].red = t.node[j].red
    /\ r.node[x][s] = y /\ r.node[y][Other(s)] = inner
    /\ r.node[x][Other(s)] = t.node[x][Other(s)] /\ r.node[y][s] = t.node[y][s]
    /\ r.node[y].parent = x
    /\ \A a \in S, q \in Sides :
          \/ a = x /\ q = s /\ r.node[a][q] = y
          \/ a = y /\ q = Other(s) /\ r.node[a][q] = inner
          \/ a \notin {x, y} /\ t.node[a][q] = y /\ r.node[a][q] = x
          \/ /\ r.node[a][q] = t.node[a][q] /\ t.node[a][q] \notin {x, y}
             /\ t.node[a][q] = nil \/ t.node[a][q] # inner
             /\ ~(a = x /\ q = s) /\ ~(a = y /\ q = Other(s))
    /\ \A j \in S \ {x, y, inner} : r.node[j].parent = t.node[j].parent

LEMMA RotateKeeps ==
    ASSUME NEW t, NEW S, HasShape(t, S), NEW y \in S, NEW s \in Sides,
           NEW x, x = t.node[y][Other(s)], x # nil
    PROVE  /\ HasShape(Rotate(t, y, s), S)
           /\ Rotated(t, Rotate(t, y, s), S, y, s, x, t.node[x][s])
           /\ x \in S /\ x # y /\ t.node[x][s] \in S \cup {nil} /\ t.node[x][s] \notin {x, y}
           /\ t.node[x][Other(s)] # y /\ t.node[y].parent # x
<1> DEFINE r == Rotate(t, y, s)  inner == t.node[x][s]  o == Other(s)
<1>1. PICK sub : Shape(t, S, sub)
    BY DEF HasShape
<1>2. Turned(t, r, y, s, x, inner)
    BY <1>1, RotateIs
<1>3. HasShape(r, S)
    BY <1>1, <1>2, RotateShape DEF HasShape
<1> HIDE DEF r
<1>4. /\ x \in S /\ x \in Keys /\ y \in Keys /\ y # nil /\ x # y
      /\ inner \in S \cup {nil} /\ inner \in Links /\ inner # x /\ inner # y
      /\ t.node[x].parent = y /\ (inner # nil => t.node[inner].parent = x)
      /\ t.node[y].parent # x
    BY <1>1, Generations
<1> HIDE DEF inner
<1>5. o \in Sides /\ o # s /\ S \in SUBSET Keys /\ nil \notin S
    BY SidesAre, Family
<1> HIDE DEF o
<1>6. t.node[x][o] # y /\ t.node[y][s] # y /\ t.node[x][o] # x /\ t.node[y][s] # x
    <2>1. t.node[x][o] = y => t.node[y].parent = x
        BY <1>4, <1>5, Family
    <2>2. t.node[y][s] # y /\ t.node[x][o] # x
        BY <1>4, <1>5, Family
    <2>3. t.node[y][s] # x
        BY <1>4, <1>5, Family DEF o
    <2>4. QED
        BY <1>4, <2>1, <2>2, <2>3
<1>7. \A j \in S, q \in Sides : r.node[j][q] =
          IF j = x /\ q = s THEN y ELSE IF j = y /\ q = o THEN inner
          ELSE IF t.node[j][q] = y THEN x ELSE t.node[j][q]
    BY <1>2, <1>5 DEF Turned, o
<1>8. r.node[x][s] = y /\ r.node[y][o] = inner
    BY <1>4, <1>5, <1>7
<1>9. r.node[x][o] = t.node[x][o] /\ r.node[y][s] = t.node[y][s]
    <2>1. r.node[x][o] = IF x = x /\ o = s THEN y ELSE IF x = y /\ o = o THEN inner
                         ELSE IF t.node[x][o] = y THEN x ELSE t.node[x][o]
        BY <1>4, <1>5, <1>7
    <2>2. r.node[y][s] = IF y = x /\ s = s THEN y ELSE IF y = y /\ s = o THEN inner
                         ELSE IF t.node[y][s] = y THEN x ELSE t.node[y][s]
        BY <1>4, <1>5, <1>7
    <2>3. QED
        BY <1>4, <1>5, <1>6, <2>1, <2>2
<1>10. ASSUME NEW a \in S, NEW q \in Sides
       PROVE  \/ a = x /\ q = s /\ r.node[a][q] = y
              \/ a = y /\ q = o /\ r.node[a][q] = inner
              \/ a \notin {x, y} /\ t.node[a][q] = y /\ r.node[a][q] = x
              \/ /\ r.node[a][q] = t.node[a][q] /\ t.node[a][q] \notin {x, y}
                 /\ t.node[a][q] = nil \/ t.node[a][q] # inner
                 /\ ~(a = x /\ q = s) /\ ~(a = y /\ q = o)
    <2>1. CASE a = x /\ q = s
        BY <1>8, <2>1
    <2>2. CASE a = y /\ q = o
        BY <1>8, <2>2
    <2>3. CASE ~(a = x /\ q = s) /\ ~(a = y /\ q = o)
        <3>1. r.node[a][q] = IF t.node[a][q] = y THEN x ELSE t.node[a][q]
            BY <1>7, <2>3
        <3>2. t.node[a][q] = x => a = y /\ q = o
            BY <1>4, <1>5, Family DEF o
        <3>3. t.node[a][q] # nil /\ t.node[a][q] = inner => a = x /\ q = s
            BY <1>4, Family DEF inner
        <3>4. t.node[a][q] = y => a # y /\ a # x
            <4>1. t.node[a][q] = y => t.node[y].parent = a /\ a # y
                BY <1>4, Family
            <4>2. QED
                BY <1>4, <4>1
        <3>5. QED
            BY <2>3, <3>1, <3>2, <3>3, <3>4
    <2>4. QED
        BY <2>1, <2>2, <2>3
<1>11. r.root = IF t.root = y THEN x ELSE t.root
    BY <1>2, Family DEF Turned
<1>12. (\A j \in S : r.node[j].red = t.node[j].red) /\ r.node[y].parent = x
       /\ \A j \in S \ {x, y, inner} : r.node[j].parent = t.node[j].parent
    BY <1>2, <1>4, <1>5 DEF Turned
<1>13. Rotated(t, r, S, y, s, x, inner)
    BY <1>8, <1>9, <1>10, <1>11, <1>12 DEF Rotated, o
<1>14. QED
    BY <1>3, <1>4, <1>6, <1>13 DEF r, inner, o

-----------------------------------------------------------------------------
(* Colors, and the number of black nodes below                             *)

\* Two red nodes, one above the other, are only at up or above down.
RedsAt(t, S, up, down) ==
    \A a \in S, s \in Sides :
       t.node[a].red /\ t.node[a][s] \in S /\ t.node[t.node[a][s]].red => a = up \/ t.node[a][s] = down

RootAt(t, S, e) == S # {} /\ t.root # e => ~t.node[t.root].red

\* How much node j, or nil, adds to a path; a red node at e stands for two.
Counts(t, j, e) == IF j = nil \/ (t.node[j].red /\ j # e) THEN 0 ELSE 1

\* h counts the black nodes on each path down.
Heights(t, S, h, e) ==
    /\ h \in [Links -> Nat] /\ h[nil] = 0
    /\ \A a \in S, s \in Sides : h[a] = h[t.node[a][s]] + Counts(t, t.node[a][s], e)

Extra(f, e) == IF f = "delete" THEN e ELSE nil

\* A tree of the nodes S while the fixup f is at e; sk says that it is skewed.
Legal(t, S, f, e, sk) ==
    /\ HasShape(t, S) /\ f \in {"none", "put", "delete"} /\ e \in S \cup {nil} /\ (e = nil <=> f = "none")
    /\ RedsAt(t, S, Extra(f, e), e) /\ RootAt(t, S, e)
    /\ f = "put" => t.node[e].red
    /\ sk \/ \E h : Heights(t, S, h, Extra(f, e))
    /\ f = "delete" => sk \/ t.node[e].red

SameTree(t, r, S) ==
    /\ HasShape(r, S) /\ r.root = t.root
    /\ \A j \in S : r.node[j].parent = t.node[j].parent /\ \A q \in Sides : r.node[j][q] = t.node[j][q]

\* Painting changes the color of one node at most.
Tinted(t, r, S, k, v) ==
    SameTree(t, r, S) /\ \A j \in S : r.node[j].red = IF j = k THEN v ELSE t.node[j].red

LEMMA PaintTree ==
    ASSUME NEW t, NEW S, HasShape(t, S), NEW k \in S \cup {nil}
    PROVE  /\ Tinted(t, Paint(t, k, "black"), S, k, FALSE)
           /\ Tinted(t, Paint(t, k, "red"), S, k, TRUE)
<1>1. ASSUME NEW c, NEW v, v = (c = "red") PROVE Tinted(t, Paint(t, k, c), S, k, v)
    <2>1. HasShape(Paint(t, k, c), S) /\ Repaints(t, Paint(t, k, c), S, k, v)
        BY <1>1, PaintKeeps
    <2>2. QED
        BY <2>1 DEF Repaints, SameTree, Tinted
<1>2. FALSE = ("black" = "red") /\ TRUE = ("red" = "red")
    OBVIOUS
<1>3. QED
    BY <1>1, <1>2

LEMMA SameTrees ==
    ASSUME NEW t, NEW r, NEW u, NEW S, SameTree(t, r, S), SameTree(r, u, S)
    PROVE  SameTree(t, u, S)
    BY DEF SameTree

LEMMA SameHeights ==
    ASSUME NEW t, NEW r, NEW S, SameTree(t, r, S), NEW h, NEW e, NEW d, Heights(t, S, h, e),
           \A a \in S, s \in Sides : Counts(r, t.node[a][s], d) = Counts(t, t.node[a][s], e)
    PROVE  Heights(r, S, h, d)
    BY DEF SameTree, Heights

LEMMA NoHeights ==
    ASSUME NEW t, NEW e
    PROVE  \E h : Heights(t, {}, h, e)
<1>1. Heights(t, {}, [a \in Links |-> 0], e)
    BY KeysAre DEF Heights
<1>2. QED
    BY <1>1

-----------------------------------------------------------------------------
(* fixupPut                                                                *)

LEMMA PutEndLegal ==
    ASSUME NEW t, NEW S, NEW e, NEW sk, Legal(t, S, "put", e, sk), ~IsRed(t, t.node[e].parent)
    PROVE  Legal(Paint(t, t.root, "black"), S, "none", nil, sk)
<1> DEFINE r == Paint(t, t.root, "black")
<1>1. HasShape(t, S) /\ e \in S /\ e # nil /\ t.node[e].red
    BY DEF Legal
<1>2. t.root \in S /\ nil \notin S /\ t.root # nil
    BY <1>1, Family
<1>3. SameTree(t, r, S) /\ \A j \in S : r.node[j].red = IF j = t.root THEN FALSE ELSE t.node[j].red
    <2>1. Tinted(t, r, S, t.root, FALSE)
        BY <1>1, <1>2, PaintTree
    <2>2. QED
        BY <2>1 DEF Tinted
<1> HIDE DEF r
<1>4. ASSUME NEW a \in S, NEW s \in Sides, r.node[a].red, r.node[a][s] \in S, r.node[r.node[a][s]].red
      PROVE  FALSE
    <2>1. r.node[a][s] = t.node[a][s] /\ t.node[a].red /\ t.node[t.node[a][s]].red
        BY <1>3, <1>4 DEF SameTree
    <2>2. t.node[a][s] = e
        BY <1>2, <1>4, <2>1 DEF Legal, RedsAt, Extra
    <2>3. t.node[e].parent = a /\ a # nil
        BY <1>1, <1>2, <2>2, Family
    <2>4. QED
        BY <2>1, <2>3 DEF IsRed
<1>5. RedsAt(r, S, nil, nil)
    BY <1>4 DEF RedsAt
<1>6. RootAt(r, S, nil)
    BY <1>2, <1>3 DEF RootAt, SameTree
<1>7. ASSUME NEW h, Heights(t, S, h, nil) PROVE Heights(r, S, h, nil)
    <2>1. ASSUME NEW a \in S, NEW s \in Sides PROVE Counts(r, t.node[a][s], nil) = Counts(t, t.node[a][s], nil)
        <3>1. t.node[a][s] \in S \cup {nil} /\ (t.node[a][s] # nil => t.node[a][s] # t.root)
            BY <1>1, Family
        <3>2. QED
            BY <1>3, <3>1 DEF Counts
    <2>2. QED
        BY <1>3, <1>7, <2>1, SameHeights
<1>8. sk \/ \E h : Heights(r, S, h, nil)
    BY <1>7 DEF Legal, Extra
<1>9. QED
    BY <1>3, <1>5, <1>6, <1>8 DEF Legal, Extra, SameTree, r

\* What fixupPut finds two levels up from e.
Uncles(t, S, e, p, g, s) ==
    /\ p \in S /\ g \in S /\ s \in Sides /\ Other(s) \in Sides /\ Other(s) # s
    /\ e # p /\ e # g /\ p # g
    /\ t.node[p].red /\ ~t.node[g].red /\ t.node[e].red
    /\ t.node[g][s] = p /\ t.node[g][Other(s)] \in (S \cup {nil}) \ {e, p, g}
    /\ \E q \in Sides : t.node[p][q] = e
    /\ \A a \in S, q \in Sides : t.node[a][q] = e => a = p
    /\ \A a \in S, q \in Sides : t.node[a][q] = p => a = g /\ q = s
    /\ \A q \in Sides : t.node[p][q] # g /\ t.node[e][q] # g /\ t.node[e][q] # p /\ t.node[e][q] # e
    /\ t.root # e /\ t.root # p /\ ~t.node[t.root].red /\ t.root \in S

LEMMA NoCycle ==
    ASSUME NEW t, NEW S, HasShape(t, S), NEW a \in S, NEW s \in Sides, t.node[a][s] # nil, NEW q \in Sides
    PROVE  t.node[t.node[a][s]][q] # a
<1> DEFINE c == t.node[a][s]
<1>1. PICK sub : Shape(t, S, sub)
    BY DEF HasShape
<1>2. c \in S /\ a \notin sub[c] /\ sub[c] \subseteq S /\ a # nil
    BY <1>1, Near
<1> HIDE DEF c
<1>3. t.node[c][q] # nil => t.node[c][q] \in sub[c]
    BY <1>1, <1>2, Near
<1>4. t.node[c][q] # a
    BY <1>2, <1>3
<1>5. QED
    BY <1>4 DEF c

LEMMA UnclesAre ==
    ASSUME NEW t, NEW S, NEW e, NEW sk, Legal(t, S, "put", e, sk),
           NEW p, p = t.node[e].parent, IsRed(t, p), NEW g, g = t.node[p].parent,
           NEW s, s = SideOf(t, p)
    PROVE  g # nil /\ Uncles(t, S, e, p, g, s)
<1>1. HasShape(t, S) /\ e \in S /\ e # nil /\ t.node[e].red /\ nil \notin S
    BY Family DEF Legal
<1>0. Related(t, S)
    BY <1>1, FamilyOf
<1>2. p # nil /\ t.node[p].red
    BY DEF IsRed
<1>3. e # t.root /\ p \in S /\ p # e /\ SideOf(t, e) \in Sides /\ t.node[p][SideOf(t, e)] = e
    BY <1>0, <1>1, <1>2 DEF Related
<1>4. t.root \in S /\ ~t.node[t.root].red
    BY <1>0, <1>1, <1>3 DEF Related, Legal, RootAt
<1>5. p # t.root
    BY <1>2, <1>4
<1>6. g \in S /\ g # nil /\ g # p /\ s \in Sides /\ t.node[g][s] = p
    BY <1>0, <1>1, <1>3, <1>5 DEF Related
<1>7. Other(s) \in Sides /\ Other(s) # s /\ Other(Other(s)) = s
    BY <1>6, SidesAre
<1>8. ~t.node[g].red
    BY <1>2, <1>3, <1>6 DEF Legal, RedsAt, Extra
<1>9. e # g
    BY <1>1, <1>8
<1>10. t.node[g][Other(s)] \in S \cup {nil} /\ t.node[g][Other(s)] # g /\ t.node[g][Other(s)] # p
       /\ t.node[g][Other(s)] # e
    <2> DEFINE w == Other(s)
    <2>0. w \in Sides /\ w # s /\ g \in S /\ s \in Sides /\ t.node[g][s] = p
        BY <1>6, <1>7
    <2> HIDE DEF w
    <2>1. t.node[g][w] \in S \cup {nil} /\ t.node[g][w] # g
        BY <1>0, <2>0 DEF Related
    <2>2. t.node[g][w] # p
        <3>1. \A a, b \in S, d, q \in Sides :
                 t.node[a][d] # nil /\ t.node[a][d] = t.node[b][q] => a = b /\ d = q
            BY <1>0 DEF Related
        <3>2. QED
            BY <1>2, <2>0, <3>1
    <2>3. t.node[g][w] = e => t.node[e].parent = g
        <3>1. \A a \in S, d \in Sides : t.node[a][d] # nil => t.node[t.node[a][d]].parent = a
            BY <1>0 DEF Related
        <3>2. QED
            BY <1>1, <2>0, <3>1
    <2>4. QED
        BY <1>6, <2>1, <2>2, <2>3 DEF w
<1>11. \A a \in S, q \in Sides : t.node[a][q] = e => a = p
    <2>1. \A a \in S, q \in Sides : t.node[a][q] # nil => t.node[t.node[a][q]].parent = a
        BY <1>0 DEF Related
    <2>2. QED
        BY <1>1, <2>1
<1>12. \A a \in S, q \in Sides : t.node[a][q] = p => a = g /\ q = s
    BY <1>0, <1>1, <1>2, <1>6 DEF Related
<1>13. ASSUME NEW q \in Sides
       PROVE  t.node[p][q] # g /\ t.node[e][q] # g /\ t.node[e][q] # p /\ t.node[e][q] # e
    <2>1. t.node[e][q] # e /\ t.node[e][q] # p
        <3>1. t.node[e][q] # e
            BY <1>0, <1>1 DEF Related
        <3>2. QED
            BY <1>1, <1>9, <1>12, <3>1
    <2>2. t.node[p][q] # g
        BY <1>1, <1>2, <1>6, NoCycle
    <2>3. t.node[e][q] # g
        <3>1. PICK sub : Shape(t, S, sub)
            BY <1>1 DEF HasShape
        <3>2. ASSUME t.node[e][q] = g PROVE FALSE
            <4>1. g \in sub[e] /\ e \in sub[p] /\ p \in sub[g]
                <5>1. \A b \in S, d \in Sides : t.node[b][d] # nil => t.node[b][d] \in sub[b]
                    BY <3>1, Near
                <5>2. QED
                    BY <1>1, <1>2, <1>3, <1>6, <3>2, <5>1
            <4>2. sub[p] \subseteq sub[g] /\ sub[e] \subseteq sub[p]
                <5>1. \A a \in S : \A c \in sub[a] : sub[c] \subseteq sub[a]
                    BY <3>1, Deep
                <5>2. QED
                    BY <1>3, <1>6, <4>1, <5>1
            <4>3. e \in sub[t.node[e][q]]
                <5>1. sub[g] \subseteq sub[e]
                    BY <1>1, <3>1, <4>1, Deep
                <5>2. QED
                    BY <3>2, <4>1, <4>2, <5>1
            <4>4. e \notin sub[t.node[e][q]]
                BY <1>1, <3>1, Near
            <4>5. QED
                BY <4>3, <4>4
        <3>3. QED
            BY <3>2
    <2>4. QED
        BY <2>1, <2>2, <2>3
<1>14. QED
    BY <1>1, <1>2, <1>3, <1>4, <1>5, <1>6, <1>7, <1>8, <1>9, <1>10, <1>11, <1>12, <1>13 DEF Uncles

LEMMA PutRedLegal ==
    ASSUME NEW t, NEW S, NEW e, NEW sk, Legal(t, S, "put", e, sk),
           NEW p, NEW g, NEW s, Uncles(t, S, e, p, g, s),
           NEW u, u = t.node[g][Other(s)], IsRed(t, u)
    PROVE  Legal(Paint(Paint(Paint(t, p, "black"), u, "black"), g, "red"), S, "put", g, sk)
<1> DEFINE a1 == Paint(t, p, "black")
           a2 == Paint(a1, u, "black")
           r == Paint(a2, g, "red")
<1>1. HasShape(t, S) /\ e \in S /\ nil \notin S
    BY Family DEF Legal
<1>2. /\ p \in S /\ g \in S /\ u \in S /\ s \in Sides /\ Other(s) \in Sides
      /\ t.node[u].red /\ u # p /\ u # g /\ u # e /\ p # g /\ e # p /\ e # g /\ ~t.node[g].red
      /\ t.root # e /\ t.root # p /\ ~t.node[t.root].red /\ t.root \in S
      /\ t.node[p].red /\ t.node[g][s] = p
    BY DEF Uncles, IsRed
<1>3. Tinted(t, a1, S, p, FALSE)
    BY <1>1, <1>2, PaintTree
<1> HIDE DEF a1
<1>4. Tinted(a1, a2, S, u, FALSE)
    <2>1. HasShape(a1, S)
        BY <1>3 DEF SameTree, Tinted
    <2>2. QED
        BY <1>2, <2>1, PaintTree
<1> HIDE DEF a2
<1>5. Tinted(a2, r, S, g, TRUE)
    <2>1. HasShape(a2, S)
        BY <1>4 DEF SameTree, Tinted
    <2>2. QED
        BY <1>2, <2>1, PaintTree
<1> HIDE DEF r
<1>6. SameTree(t, r, S)
    BY <1>3, <1>4, <1>5, SameTrees DEF Tinted
<1>7. \A j \in S : r.node[j].red = IF j = g THEN TRUE ELSE IF j \in {u, p} THEN FALSE ELSE t.node[j].red
    BY <1>3, <1>4, <1>5 DEF Tinted
<1>8. ASSUME NEW a \in S, NEW q \in Sides, r.node[a].red, r.node[a][q] \in S, r.node[r.node[a][q]].red
      PROVE  r.node[a][q] = g
    <2>1. r.node[a][q] = t.node[a][q]
        BY <1>6 DEF SameTree
    <2>2. CASE a = g
        <3>1. t.node[g][q] \in {p, u}
            BY <1>2, SidesAre
        <3>2. QED
            BY <1>2, <1>7, <1>8, <2>1, <2>2, <3>1
    <2>3. CASE a # g
        <3>1. a \notin {p, u} /\ t.node[a].red
            BY <1>7, <1>8, <2>3
        <3>2. t.node[a][q] # g => t.node[t.node[a][q]].red
            BY <1>7, <1>8, <2>1
        <3>3. t.node[a][q] # g => t.node[a][q] = e
            BY <1>1, <1>8, <2>1, <3>1, <3>2 DEF Legal, RedsAt, Extra
        <3>4. t.node[a][q] = e => a = p
            BY DEF Uncles
        <3>5. QED
            BY <2>1, <3>1, <3>3, <3>4
    <2>4. QED
        BY <2>2, <2>3
<1>9. RedsAt(r, S, nil, g)
    BY <1>8 DEF RedsAt
<1>10. RootAt(r, S, g)
    <2>1. r.root = t.root
        BY <1>6 DEF SameTree
    <2>2. t.root # g => r.node[t.root].red = (IF t.root \in {u, p} THEN FALSE ELSE t.node[t.root].red)
        BY <1>2, <1>7
    <2>3. QED
        BY <1>2, <2>1, <2>2 DEF RootAt
<1>11. ASSUME NEW h, Heights(t, S, h, nil) PROVE \E k : Heights(r, S, k, nil)
    <2> DEFINE k == [h EXCEPT ![g] = @ + 1]
    <2>1. /\ h \in [Links -> Nat] /\ h[nil] = 0
          /\ \A a \in S, q \in Sides : h[a] = h[t.node[a][q]] + Counts(t, t.node[a][q], nil)
        BY <1>11 DEF Heights
    <2>2. g \in Links /\ \A j \in S : j \in Links
        BY <1>1, <1>2, Family, KeysAre
    <2>3. k \in [Links -> Nat] /\ k[g] = h[g] + 1 /\ \A j \in Links \ {g} : k[j] = h[j]
        BY <2>1, <2>2
    <2> HIDE DEF k
    <2>4. ASSUME NEW a \in S, NEW q \in Sides
          PROVE  k[a] = k[r.node[a][q]] + Counts(r, r.node[a][q], nil)
        <3> DEFINE c == t.node[a][q]
        <3>1. r.node[a][q] = c /\ c \in S \cup {nil} /\ c # a
            BY <1>1, <1>6, Family DEF SameTree
        <3>2. h[a] = h[c] + Counts(t, c, nil) /\ h[a] \in Nat /\ h[c] \in Nat
            BY <2>1, <2>2, <3>1, KeysAre
        <3> HIDE DEF c
        <3>3. CASE c = g
            <4>1. Counts(t, g, nil) = 1 /\ Counts(r, g, nil) = 0
                BY <1>1, <1>2, <1>7 DEF Counts
            <4>2. k[c] = h[c] + 1 /\ k[a] = h[a]
                BY <2>2, <2>3, <3>1, <3>3
            <4>3. QED
                BY <3>1, <3>2, <3>3, <4>1, <4>2
        <3>4. CASE a = g
            <4>1. c \in {p, u}
                BY <1>2, <3>4, SidesAre DEF c
            <4>2. Counts(t, c, nil) = 0 /\ Counts(r, c, nil) = 1
                BY <1>1, <1>2, <1>7, <4>1 DEF Counts
            <4>3. k[a] = h[a] + 1 /\ k[c] = h[c]
                BY <1>2, <2>2, <2>3, <3>4, <4>1
            <4>4. QED
                BY <3>1, <3>2, <4>2, <4>3
        <3>5. CASE c # g /\ a # g
            <4>1. c \notin {p, u}
                <5>1. c = p => a = g
                    BY DEF Uncles, c
                <5>2. c = u => a = g
                    BY <1>1, <1>2, Family DEF c
                <5>3. QED
                    BY <3>5, <5>1, <5>2
            <4>2. Counts(r, c, nil) = Counts(t, c, nil)
                BY <1>7, <3>1, <3>5, <4>1 DEF Counts
            <4>3. c \in Links /\ a \in Links
                BY <2>2, <3>1, KeysAre
            <4>4. k[a] = h[a] /\ k[c] = h[c]
                BY <2>3, <3>5, <4>3
            <4>5. QED
                BY <3>1, <3>2, <4>2, <4>4
        <3>6. QED
            BY <3>3, <3>4, <3>5
    <2>5. k[nil] = 0
        BY <1>1, <1>2, <2>1, <2>3, KeysAre
    <2>6. Heights(r, S, k, nil)
        BY <2>3, <2>4, <2>5 DEF Heights
    <2>7. QED
        BY <2>6
<1>12. sk \/ \E h : Heights(r, S, h, nil)
    BY <1>11 DEF Legal, Extra
<1>13. r.node[g].red /\ g # nil
    BY <1>1, <1>2, <1>7
<1>14. Legal(r, S, "put", g, sk)
    BY <1>2, <1>6, <1>9, <1>10, <1>12, <1>13 DEF Legal, Extra, SameTree
<1>15. QED
    BY <1>14 DEF r, a2, a1

\* r is t0 turned at y, around the red node x, which got the color of y.
TurnsRed(t0, t, r, S, y, s, x, inner) ==
    /\ HasShape(t0, S) /\ SameTree(t0, t, S) /\ y \in S /\ s \in Sides
    /\ x \in S /\ x = t0.node[y][Other(s)] /\ x # y /\ inner = t0.node[x][s] /\ inner \notin {x, y}
    /\ Rotated(t, r, S, y, s, x, inner)
    /\ t0.node[x].red /\ t.node[y].red /\ t.node[x].red = t0.node[y].red
    /\ \A j \in S \ {x, y} : t.node[j].red = t0.node[j].red

\* That leaves as many black nodes on every path.
LEMMA TurnHeights ==
    ASSUME NEW t0, NEW t, NEW r, NEW S, NEW y, NEW s, NEW x, NEW inner,
           TurnsRed(t0, t, r, S, y, s, x, inner), NEW h, Heights(t0, S, h, nil)
    PROVE  Heights(r, S, h, nil)
<1>0. /\ HasShape(t0, S) /\ SameTree(t0, t, S) /\ y \in S /\ s \in Sides
      /\ x \in S /\ x = t0.node[y][Other(s)] /\ x # y /\ inner = t0.node[x][s] /\ inner \notin {x, y}
      /\ Rotated(t, r, S, y, s, x, inner)
      /\ t0.node[x].red /\ t.node[y].red /\ t.node[x].red = t0.node[y].red
      /\ \A j \in S \ {x, y} : t.node[j].red = t0.node[j].red
    BY DEF TurnsRed
<1>1. nil \notin S /\ inner \in S \cup {nil} /\ Other(s) \in Sides
    <2>1. nil \notin S /\ t0.node[x][s] \in S \cup {nil}
        BY <1>0, Family
    <2>2. QED
        BY <1>0, <2>1, SidesAre
<1>2. /\ h \in [Links -> Nat] /\ h[nil] = 0
      /\ \A a \in S, q \in Sides : h[a] = h[t0.node[a][q]] + Counts(t0, t0.node[a][q], nil)
    BY DEF Heights
<1>3. \A j \in S : j \in Links
    BY <1>0, Family, KeysAre
<1>4. h[x] \in Nat /\ h[y] \in Nat /\ h[inner] \in Nat
    BY <1>0, <1>1, <1>2, <1>3, KeysAre
<1>5. \A j \in S : r.node[j].red = t.node[j].red
    BY <1>0 DEF Rotated
<1>6. x # nil /\ y # nil
    BY <1>0, <1>1
<1>7. h[y] = h[x]
    <2>1. Counts(t0, x, nil) = 0
        BY <1>0, <1>6 DEF Counts
    <2>2. h[y] = h[t0.node[y][Other(s)]] + Counts(t0, t0.node[y][Other(s)], nil)
        <3>1. y \in S /\ Other(s) \in Sides
            BY <1>0, <1>1
        <3>2. QED
            BY <1>2, <3>1
    <2>3. t0.node[y][Other(s)] = x
        BY <1>0
    <2>4. QED
        BY <1>4, <2>1, <2>2, <2>3
<1>8. Counts(r, y, nil) = 0 /\ Counts(r, x, nil) = Counts(t0, y, nil)
    BY <1>0, <1>5, <1>6 DEF Counts
<1>9. \A j \in (S \cup {nil}) \ {x, y} : Counts(r, j, nil) = Counts(t0, j, nil)
    BY <1>0, <1>5 DEF Counts
<1>10. \A a \in S, q \in Sides : t.node[a][q] = t0.node[a][q]
    BY <1>0 DEF SameTree
<1>11. ASSUME NEW a \in S, NEW q \in Sides
       PROVE  h[a] = h[r.node[a][q]] + Counts(r, r.node[a][q], nil)
    <2>1. \/ a = x /\ q = s /\ r.node[a][q] = y
          \/ a = y /\ q = Other(s) /\ r.node[a][q] = inner
          \/ a \notin {x, y} /\ t.node[a][q] = y /\ r.node[a][q] = x
          \/ r.node[a][q] = t.node[a][q] /\ t.node[a][q] \notin {x, y}
        <3>1. Rotated(t, r, S, y, s, x, inner)
            BY <1>0
        <3>2. \A j \in S, e \in Sides :
                 \/ j = x /\ e = s /\ r.node[j][e] = y
                 \/ j = y /\ e = Other(s) /\ r.node[j][e] = inner
                 \/ j \notin {x, y} /\ t.node[j][e] = y /\ r.node[j][e] = x
                 \/ /\ r.node[j][e] = t.node[j][e] /\ t.node[j][e] \notin {x, y}
                    /\ t.node[j][e] = nil \/ t.node[j][e] # inner
                    /\ ~(j = x /\ e = s) /\ ~(j = y /\ e = Other(s))
            BY Zenon, <3>1 DEF Rotated
        <3>3. QED
            BY <3>2
    <2>2. CASE a = x /\ q = s /\ r.node[a][q] = y
        BY <1>4, <1>7, <1>8, <2>2
    <2>3. CASE a = y /\ q = Other(s) /\ r.node[a][q] = inner
        <3>1. h[x] = h[inner] + Counts(t0, inner, nil)
            BY <1>0, <1>2
        <3>2. QED
            BY <1>0, <1>1, <1>7, <1>9, <2>3, <3>1
    <2>4. CASE t.node[a][q] = y /\ r.node[a][q] = x
        <3>1. h[a] = h[y] + Counts(t0, y, nil)
            <4>1. t0.node[a][q] = y
                BY <1>10, <2>4
            <4>2. QED
                BY <1>2, <4>1
        <3>2. QED
            BY <1>7, <1>8, <2>4, <3>1
    <2>5. CASE r.node[a][q] = t.node[a][q] /\ t.node[a][q] \notin {x, y}
        <3>1. h[a] = h[t.node[a][q]] + Counts(t0, t.node[a][q], nil)
            <4>1. t0.node[a][q] = t.node[a][q]
                BY <1>10
            <4>2. QED
                BY <1>2, <4>1
        <3>2. t.node[a][q] \in S \cup {nil}
            <4>1. Related(t0, S)
                BY <1>0, FamilyOf
            <4>2. t0.node[a][q] \in S \cup {nil}
                BY <4>1 DEF Related
            <4>3. QED
                BY <1>10, <4>2
        <3>3. QED
            BY <1>9, <2>5, <3>1, <3>2
    <2>6. QED
        BY <2>1, <2>2, <2>3, <2>4, <2>5
<1>12. QED
    BY <1>2, <1>11 DEF Heights

\* Two red nodes z and p and the black one above them are on one line.
Straight(t, S, z, p, g, s) ==
    /\ HasShape(t, S) /\ s \in Sides /\ Other(s) \in Sides /\ Other(s) # s /\ Other(Other(s)) = s
    /\ z \in S /\ p \in S /\ g \in S /\ z # p /\ z # g /\ p # g
    /\ t.node[g][s] = p /\ t.node[p][s] = z /\ t.node[z].parent = p
    /\ t.node[z].red /\ t.node[p].red /\ ~t.node[g].red
    /\ ~IsRed(t, t.node[p][Other(s)]) /\ ~IsRed(t, t.node[g][Other(s)])
    /\ RedsAt(t, S, nil, z)
    /\ t.root \in S /\ ~t.node[t.root].red /\ t.root # p

LEMMA StraightIs ==
    ASSUME NEW t, NEW S, NEW e, NEW sk, Legal(t, S, "put", e, sk),
           NEW p, NEW g, NEW s, Uncles(t, S, e, p, g, s), ~IsRed(t, t.node[g][Other(s)]),
           NEW z, z = (IF e # t.node[p][s] THEN p ELSE e),
           NEW u, u = (IF e # t.node[p][s] THEN Rotate(t, p, s) ELSE t)
    PROVE  /\ Straight(u, S, z, u.node[z].parent, g, s)
           /\ \A h : Heights(t, S, h, nil) => Heights(u, S, h, nil)
<1>1. /\ HasShape(t, S) /\ e \in S /\ e # nil /\ t.node[e].red /\ nil \notin S
      /\ RedsAt(t, S, nil, e)
    BY Family DEF Legal, Extra
<1>2. /\ p \in S /\ g \in S /\ s \in Sides /\ Other(s) \in Sides /\ Other(s) # s /\ Other(Other(s)) = s
      /\ e # p /\ e # g /\ p # g
      /\ t.node[p].red /\ ~t.node[g].red /\ t.node[e].red
      /\ t.node[g][s] = p /\ t.node[g][Other(s)] \in (S \cup {nil}) \ {e, p, g}
      /\ t.root # e /\ t.root # p /\ ~t.node[t.root].red /\ t.root \in S
    BY SidesAre DEF Uncles
<1>3. ASSUME NEW a \in S, NEW q \in Sides, t.node[a].red, t.node[a][q] \in S, t.node[t.node[a][q]].red
      PROVE  t.node[a][q] = e /\ a = p
    <2>1. t.node[a][q] = e
        BY <1>1, <1>3 DEF RedsAt
    <2>2. QED
        BY <2>1, <1>3 DEF Uncles
<1>4. CASE e = t.node[p][s]
    <2>1. u = t /\ z = e
        BY <1>4
    <2>2. t.node[e].parent = p
        BY <1>1, <1>2, <1>4, Family
    <2>3. ~IsRed(t, t.node[p][Other(s)])
        <3>1. t.node[p][Other(s)] \in S \cup {nil} /\ t.node[p][Other(s)] # e
            BY <1>1, <1>2, <1>4, Family
        <3>2. QED
            BY <1>2, <1>3, <3>1 DEF IsRed
    <2>4. QED
        BY <1>1, <1>2, <1>4, <2>1, <2>2, <2>3 DEF Straight
<1>5. CASE e # t.node[p][s]
    <2> DEFINE inner == t.node[e][s]
    <2>1. z = p /\ u = Rotate(t, p, s)
        BY <1>5
    <2>2. e = t.node[p][Other(s)]
        <3>1. PICK q \in Sides : t.node[p][q] = e
            BY DEF Uncles
        <3>2. QED
            BY <1>2, <1>5, <3>1, SidesAre
    <2>3. /\ HasShape(u, S) /\ Rotated(t, u, S, p, s, e, inner)
          /\ inner \in S \cup {nil} /\ inner \notin {e, p}
        BY <1>1, <1>2, <2>1, <2>2, RotateKeeps
    <2> HIDE DEF inner
    <2>4. /\ u.node[e][s] = p /\ u.node[p].parent = e /\ u.node[e][Other(s)] = t.node[e][Other(s)]
          /\ u.root = t.root /\ \A j \in S : u.node[j].red = t.node[j].red
        BY <1>2, <2>3 DEF Rotated
    <2>5. \A a \in S, q \in Sides :
             \/ a = e /\ q = s /\ u.node[a][q] = p
             \/ a = p /\ q = Other(s) /\ u.node[a][q] = inner
             \/ a \notin {e, p} /\ t.node[a][q] = p /\ u.node[a][q] = e
             \/ u.node[a][q] = t.node[a][q] /\ t.node[a][q] \notin {e, p}
        BY <2>3 DEF Rotated
    <2>6. u.node[g][s] = e /\ u.node[g][Other(s)] = t.node[g][Other(s)]
        BY <1>2, <2>5
    <2>7. ~IsRed(u, u.node[e][Other(s)])
        <3>1. t.node[e][Other(s)] \in S \cup {nil}
            BY <1>1, <1>2, Family
        <3>2. QED
            BY <1>1, <1>2, <1>3, <2>4, <3>1 DEF IsRed
    <2>8. ~IsRed(u, u.node[g][Other(s)])
        BY <1>2, <2>4, <2>6 DEF IsRed
    <2>9. ASSUME NEW a \in S, NEW q \in Sides, u.node[a].red, u.node[a][q] \in S, u.node[u.node[a][q]].red
          PROVE  u.node[a][q] = p
        <3>1. t.node[a].red /\ t.node[u.node[a][q]].red
            BY <2>4, <2>9
        <3>2. CASE a = p /\ u.node[a][q] = inner
            <4>1. t.node[e][s] \in S /\ t.node[t.node[e][s]].red
                BY <2>9, <3>1, <3>2 DEF inner
            <4>2. QED
                BY <1>1, <1>2, <1>3, <4>1
        <3>3. CASE t.node[a][q] = p
            BY <1>2, <3>1, <3>3 DEF Uncles
        <3>4. CASE u.node[a][q] = t.node[a][q] /\ t.node[a][q] \notin {e, p}
            BY <1>3, <2>9, <3>1, <3>4
        <3>5. QED
            BY <2>5, <3>2, <3>3, <3>4
    <2>10. RedsAt(u, S, nil, p)
        BY <2>9 DEF RedsAt
    <2>11. Straight(u, S, z, u.node[z].parent, g, s)
        BY <1>1, <1>2, <2>1, <2>3, <2>4, <2>6, <2>7, <2>8, <2>10 DEF Straight
    <2>12. ASSUME NEW h, Heights(t, S, h, nil) PROVE Heights(u, S, h, nil)
        <3>1. SameTree(t, t, S)
            BY <1>1 DEF SameTree
        <3>2. t.node[e].red = t.node[p].red
            BY <1>1, <1>2, Family
        <3>3. inner = t.node[e][s]
            BY DEF inner
        <3>4. QED
            <4>1. TurnsRed(t, t, u, S, p, s, e, inner)
                BY <1>1, <1>2, <2>2, <2>3, <3>1, <3>2, <3>3 DEF TurnsRed
            <4>2. QED
                BY <2>12, <4>1, TurnHeights
    <2>13. QED
        BY <2>11, <2>12
<1>6. QED
    BY <1>4, <1>5

LEMMA PutTurnLegal ==
    ASSUME NEW t, NEW S, NEW z, NEW p, NEW g, NEW s, Straight(t, S, z, p, g, s), NEW sk,
           sk \/ \E h : Heights(t, S, h, nil)
    PROVE  Legal(Rotate(Paint(Paint(t, p, "black"), g, "red"), g, Other(s)), S, "put", z, sk)
<1> DEFINE a == Paint(t, p, "black")
           b == Paint(a, g, "red")
           o == Other(s)
           r == Rotate(b, g, o)
           inner == t.node[p][o]
<1>1. /\ HasShape(t, S) /\ s \in Sides /\ o \in Sides /\ o # s /\ Other(o) = s
      /\ z \in S /\ p \in S /\ g \in S /\ z # p /\ z # g /\ p # g
      /\ t.node[g][s] = p /\ t.node[p][s] = z /\ t.node[z].parent = p
      /\ t.node[z].red /\ t.node[p].red /\ ~t.node[g].red
      /\ ~IsRed(t, inner) /\ ~IsRed(t, t.node[g][o])
      /\ RedsAt(t, S, nil, z)
      /\ t.root \in S /\ ~t.node[t.root].red /\ t.root # p
    BY DEF Straight
<1>2. nil \notin S
    BY <1>1, Family
<1> HIDE DEF o
<1>3. Tinted(t, a, S, p, FALSE)
    BY <1>1, PaintTree
<1> HIDE DEF a
<1>4. Tinted(a, b, S, g, TRUE)
    <2>1. HasShape(a, S)
        BY <1>3 DEF SameTree, Tinted
    <2>2. QED
        BY <1>1, <2>1, PaintTree
<1> HIDE DEF b
<1>5. SameTree(t, b, S)
    BY <1>3, <1>4, SameTrees DEF Tinted
<1>6. \A j \in S : b.node[j].red = IF j = g THEN TRUE ELSE IF j = p THEN FALSE ELSE t.node[j].red
    BY <1>3, <1>4 DEF Tinted
<1>7. /\ HasShape(b, S) /\ b.root = t.root /\ b.node[g][s] = p /\ b.node[p][o] = inner
      /\ \A j \in S, q \in Sides : b.node[j][q] = t.node[j][q]
    BY <1>1, <1>5 DEF SameTree
<1>8. /\ HasShape(r, S) /\ Rotated(b, r, S, g, o, p, inner)
      /\ inner \in S \cup {nil} /\ inner \notin {p, g}
    <2>1. p = b.node[g][Other(o)] /\ p # nil
        BY <1>1, <1>2, <1>7
    <2>2. /\ HasShape(Rotate(b, g, o), S) /\ Rotated(b, Rotate(b, g, o), S, g, o, p, b.node[p][o])
          /\ b.node[p][o] \in S \cup {nil} /\ b.node[p][o] \notin {p, g}
        BY <1>1, <1>7, <2>1, RotateKeeps
    <2>3. QED
        BY <1>7, <2>2
<1> HIDE DEF r, inner
<1>9. /\ r.root = (IF t.root = g THEN p ELSE t.root)
      /\ \A j \in S : r.node[j].red = b.node[j].red
      /\ \A j \in S, q \in Sides :
             \/ j = p /\ q = o /\ r.node[j][q] = g
             \/ j = g /\ q = Other(o) /\ r.node[j][q] = inner
             \/ j \notin {p, g} /\ t.node[j][q] = g /\ r.node[j][q] = p
             \/ /\ r.node[j][q] = t.node[j][q] /\ t.node[j][q] \notin {p, g}
                /\ ~(j = g /\ q = Other(o))
    BY <1>7, <1>8 DEF Rotated
<1>10. ASSUME NEW j \in S, NEW q \in Sides, r.node[j].red, r.node[j][q] \in S, r.node[r.node[j][q]].red
       PROVE  FALSE
    <2>1. j # p /\ r.node[j][q] # p
        BY <1>1, <1>6, <1>9, <1>10
    <2>2. CASE j = g /\ r.node[j][q] = inner
        BY <1>1, <1>2, <1>6, <1>8, <1>9, <1>10, <2>2 DEF IsRed
    <2>3. CASE /\ r.node[j][q] = t.node[j][q] /\ t.node[j][q] \notin {p, g}
               /\ ~(j = g /\ q = Other(o))
        <3>1. t.node[t.node[j][q]].red
            BY <1>6, <1>9, <1>10, <2>3
        <3>2. CASE j = g
            <4>1. q = o
                BY <1>1, <2>3, <3>2, SidesAre
            <4>2. QED
                BY <1>1, <1>2, <1>10, <2>3, <3>1, <3>2, <4>1 DEF IsRed
        <3>3. CASE j # g
            <4>1. t.node[j].red
                BY <1>6, <1>9, <1>10, <2>1, <3>3
            <4>2. t.node[j][q] = z
                BY <1>1, <1>2, <1>10, <2>3, <3>1, <4>1 DEF RedsAt
            <4>3. j = p
                BY <1>1, <1>2, <4>2, Family
            <4>4. QED
                BY <2>1, <4>3
        <3>4. QED
            BY <3>2, <3>3
    <2>4. QED
        BY <1>9, <2>1, <2>2, <2>3
<1>11. RedsAt(r, S, nil, z)
    BY <1>10 DEF RedsAt
<1>12. RootAt(r, S, z)
    <2>1. ~r.node[r.root].red
        <3>1. CASE t.root = g
            <4>1. r.root = p /\ ~b.node[p].red
                BY <1>1, <1>6, <1>9, <3>1
            <4>2. QED
                BY <1>1, <1>9, <4>1
        <3>2. CASE t.root # g
            <4>1. r.root = t.root /\ b.node[t.root].red = t.node[t.root].red
                BY <1>1, <1>6, <1>9, <3>2
            <4>2. QED
                BY <1>1, <1>9, <4>1
        <3>3. QED
            BY <3>1, <3>2
    <2>2. QED
        BY <2>1 DEF RootAt
<1>13. ASSUME NEW h, Heights(t, S, h, nil) PROVE Heights(r, S, h, nil)
    <2>1. b.node[p].red = t.node[g].red /\ b.node[g].red
        <3>1. t.node[g].red \in BOOLEAN
            BY <1>1, Family
        <3>2. QED
            BY <1>1, <1>6, <3>1
    <2>2. p = t.node[g][Other(o)] /\ inner = t.node[p][o]
        BY <1>1 DEF inner
    <2>3. \A j \in S \ {p, g} : b.node[j].red = t.node[j].red
        BY <1>6
    <2>4. QED
        <3>1. TurnsRed(t, b, r, S, g, o, p, inner)
            BY <1>1, <1>5, <1>8, <2>1, <2>2, <2>3 DEF TurnsRed
        <3>2. QED
            BY <1>13, <3>1, TurnHeights
<1>14. r.node[z].red
    <2>1. z \in S /\ z # p /\ z # g /\ t.node[z].red
        BY <1>1
    <2>2. b.node[z].red = t.node[z].red
        BY <1>6, <2>1
    <2>3. QED
        BY <1>9, <2>1, <2>2
<1>15. sk \/ \E h : Heights(r, S, h, nil)
    BY <1>13
<1>16. Legal(r, S, "put", z, sk)
    BY <1>1, <1>2, <1>8, <1>11, <1>12, <1>14, <1>15 DEF Legal, Extra
<1>17. QED
    BY <1>16 DEF r, b, a, o

-----------------------------------------------------------------------------
(* fixupDelete                                                             *)

LEMMA DeleteEndLegal ==
    ASSUME NEW t, NEW S, NEW e, NEW sk, Legal(t, S, "delete", e, sk), e = t.root \/ IsRed(t, e)
    PROVE  Legal(Paint(t, e, "black"), S, "none", nil, sk)
<1> DEFINE r == Paint(t, e, "black")
<1>1. HasShape(t, S) /\ e \in S /\ e # nil /\ nil \notin S /\ RedsAt(t, S, e, e) /\ RootAt(t, S, e)
    BY Family DEF Legal, Extra
<1>2. Tinted(t, r, S, e, FALSE)
    BY <1>1, PaintTree
<1> HIDE DEF r
<1>3. SameTree(t, r, S) /\ \A j \in S : r.node[j].red = IF j = e THEN FALSE ELSE t.node[j].red
    BY <1>2 DEF Tinted
<1>4. ASSUME NEW a \in S, NEW s \in Sides, r.node[a].red, r.node[a][s] \in S, r.node[r.node[a][s]].red
      PROVE  FALSE
    <2>1. r.node[a][s] = t.node[a][s] /\ t.node[a].red /\ t.node[t.node[a][s]].red
          /\ a # e /\ t.node[a][s] # e
        BY <1>3, <1>4 DEF SameTree
    <2>2. QED
        BY <1>1, <1>4, <2>1 DEF RedsAt
<1>5. RedsAt(r, S, nil, nil)
    BY <1>4 DEF RedsAt
<1>6. RootAt(r, S, nil)
    <2>1. t.root \in S /\ r.root = t.root
        BY <1>1, <1>3, Family DEF SameTree
    <2>2. t.root # e => ~t.node[t.root].red
        BY <1>1 DEF RootAt
    <2>3. QED
        BY <1>3, <2>1, <2>2 DEF RootAt
<1>7. ASSUME NEW h, Heights(t, S, h, e) PROVE Heights(r, S, h, nil)
    <2>1. ASSUME NEW a \in S, NEW s \in Sides PROVE Counts(r, t.node[a][s], nil) = Counts(t, t.node[a][s], e)
        <3>1. t.node[a][s] \in S \cup {nil}
            BY <1>1, Family
        <3>2. QED
            BY <1>1, <1>3, <3>1 DEF Counts
    <2>2. QED
        BY <1>3, <1>7, <2>1, SameHeights
<1>8. sk \/ \E h : Heights(r, S, h, nil)
    BY <1>7 DEF Legal, Extra
<1>9. QED
    BY <1>3, <1>5, <1>6, <1>8 DEF Legal, Extra, SameTree, r

\* No red node has a red child, and the root is black.
Clean(t, S) ==
    /\ HasShape(t, S) /\ S # {} /\ ~t.node[t.root].red
    /\ \A a \in S, s \in Sides : ~(t.node[a].red /\ t.node[a][s] \in S /\ t.node[t.node[a][s]].red)

LEMMA CleanIsLegal ==
    ASSUME NEW t, NEW S, Clean(t, S), NEW e \in S
    PROVE  Legal(t, S, "delete", e, TRUE)
<1>1. e # nil
    BY Family DEF Clean
<1>2. QED
    BY <1>1 DEF Clean, Legal, RedsAt, RootAt, Extra

LEMMA BlackIsClean ==
    ASSUME NEW t, NEW S, NEW e, NEW sk, Legal(t, S, "delete", e, sk), e # t.root, ~IsRed(t, e)
    PROVE  /\ Clean(t, S) /\ e \in S /\ e # nil /\ ~t.node[e].red /\ sk
<1>1. HasShape(t, S) /\ e \in S /\ e # nil /\ RedsAt(t, S, e, e) /\ RootAt(t, S, e)
    BY DEF Legal, Extra
<1>2. ~t.node[e].red
    BY <1>1 DEF IsRed
<1>3. sk
    BY <1>2 DEF Legal
<1>4. QED
    BY <1>1, <1>2, <1>3 DEF Clean, RedsAt, RootAt

\* A red child turned up leaves the tree clean, if the other child is black.
LEMMA TurnClean ==
    ASSUME NEW t0, NEW t, NEW r, NEW S, NEW y, NEW s, NEW x, NEW inner,
           TurnsRed(t0, t, r, S, y, s, x, inner), Clean(t0, S), HasShape(r, S), ~IsRed(t0, t0.node[y][s])
    PROVE  Clean(r, S)
<1>1. /\ HasShape(t0, S) /\ SameTree(t0, t, S) /\ y \in S /\ s \in Sides
      /\ x \in S /\ x = t0.node[y][Other(s)] /\ x # y /\ inner = t0.node[x][s] /\ inner \notin {x, y}
      /\ Rotated(t, r, S, y, s, x, inner)
      /\ t0.node[x].red /\ t.node[y].red /\ t.node[x].red = t0.node[y].red
      /\ \A j \in S \ {x, y} : t.node[j].red = t0.node[j].red
    BY DEF TurnsRed
<1>2. /\ ~t0.node[t0.root].red /\ t0.root \in S
      /\ \A a \in S, q \in Sides : ~(t0.node[a].red /\ t0.node[a][q] \in S /\ t0.node[t0.node[a][q]].red)
    BY <1>1, Family DEF Clean
<1>3. Other(s) \in Sides /\ nil \notin S
    BY <1>1, SidesAre, Family
<1>4. ~t0.node[y].red /\ ~t.node[x].red
    BY <1>1, <1>2, <1>3
<1>5. /\ \A j \in S : r.node[j].red = t.node[j].red
      /\ r.root = IF t0.root = y THEN x ELSE t0.root
      /\ \A a \in S, q \in Sides : t.node[a][q] = t0.node[a][q]
    <2>1. Rotated(t, r, S, y, s, x, inner) /\ SameTree(t0, t, S)
        BY <1>1
    <2>2. (\A j \in S : r.node[j].red = t.node[j].red) /\ r.root = IF t.root = y THEN x ELSE t.root
        BY Zenon, <2>1 DEF Rotated
    <2>3. t.root = t0.root /\ \A a \in S, q \in Sides : t.node[a][q] = t0.node[a][q]
        BY <2>1 DEF SameTree
    <2>4. QED
        BY <2>2, <2>3
<1>0. x \in S /\ y \in S /\ x # y /\ t.node[y].red
    BY <1>1
<1>01. \A j \in S \ {x, y} : r.node[j].red = t0.node[j].red
    <2>1. \A j \in S \ {x, y} : t.node[j].red = t0.node[j].red
        BY <1>1
    <2>2. QED
        BY <1>5, <2>1
<1>02. \A a \in S, q \in Sides :
          \/ a = x /\ q = s /\ r.node[a][q] = y
          \/ a = y /\ q = Other(s) /\ r.node[a][q] = inner
          \/ a \notin {x, y} /\ t.node[a][q] = y /\ r.node[a][q] = x
          \/ /\ r.node[a][q] = t.node[a][q] /\ t.node[a][q] \notin {x, y}
             /\ t.node[a][q] = nil \/ t.node[a][q] # inner
             /\ ~(a = x /\ q = s) /\ ~(a = y /\ q = Other(s))
    <2>1. Rotated(t, r, S, y, s, x, inner)
        BY <1>1
    <2>2. QED
        BY Zenon, <2>1 DEF Rotated
<1>6. ASSUME NEW a \in S, NEW q \in Sides, r.node[a].red, r.node[a][q] \in S, r.node[r.node[a][q]].red
      PROVE  FALSE
    <2>1. \/ a = x /\ q = s /\ r.node[a][q] = y
          \/ a = y /\ q = Other(s) /\ r.node[a][q] = inner
          \/ a \notin {x, y} /\ t0.node[a][q] = y /\ r.node[a][q] = x
          \/ r.node[a][q] = t0.node[a][q] /\ t0.node[a][q] \notin {x, y} /\ ~(a = y /\ q = Other(s))
        <3>1. \/ a = x /\ q = s /\ r.node[a][q] = y
              \/ a = y /\ q = Other(s) /\ r.node[a][q] = inner
              \/ a \notin {x, y} /\ t.node[a][q] = y /\ r.node[a][q] = x
              \/ /\ r.node[a][q] = t.node[a][q] /\ t.node[a][q] \notin {x, y}
                 /\ t.node[a][q] = nil \/ t.node[a][q] # inner
                 /\ ~(a = x /\ q = s) /\ ~(a = y /\ q = Other(s))
            BY <1>02
        <3>2. t.node[a][q] = t0.node[a][q]
            BY <1>5
        <3>3. QED
            BY <3>1, <3>2
    <2>2. a # x /\ r.node[a][q] # x
        <3>1. ~r.node[x].red
            BY <1>0, <1>4, <1>5
        <3>2. QED
            BY <1>6, <3>1
    <2>3. CASE a = y /\ r.node[a][q] = inner
        <3>1. inner \in S \ {x, y} /\ r.node[inner].red
            BY <1>1, <1>6, <2>3
        <3>2. QED
            <4>1. t0.node[inner].red
                BY <1>01, <3>1
            <4>2. t0.node[x][s] = inner /\ t0.node[x].red /\ x \in S /\ s \in Sides
                BY <1>1
            <4>3. QED
                BY <1>2, <3>1, <4>1, <4>2
    <2>4. CASE r.node[a][q] = t0.node[a][q] /\ t0.node[a][q] \notin {x, y} /\ ~(a = y /\ q = Other(s))
        <3>1. t0.node[t0.node[a][q]].red
            BY <1>01, <1>6, <2>4
        <3>2. CASE a = y
            <4>1. q = s
                BY <1>1, <2>4, <3>2, SidesAre
            <4>2. QED
                BY <1>3, <1>6, <2>4, <3>1, <3>2, <4>1 DEF IsRed
        <3>3. CASE a # y
            <4>1. t0.node[a].red
                BY <1>01, <1>6, <2>2, <3>3
            <4>2. QED
                BY <1>2, <1>6, <2>4, <3>1, <4>1
        <3>4. QED
            BY <3>2, <3>3
    <2>5. QED
        BY <2>1, <2>2, <2>3, <2>4
<1>7. ~r.node[r.root].red
    <2>1. CASE t0.root = y
        <3>1. r.root = x /\ x \in S
            BY <1>0, <1>5, <2>1
        <3>2. QED
            BY <1>4, <1>5, <3>1
    <2>2. CASE t0.root # y
        <3>1. t0.root # x /\ r.root = t0.root
            BY <1>1, <1>2, <1>5, <2>2
        <3>2. QED
            BY <1>2, <1>0, <1>01, <2>2, <3>1
    <2>3. QED
        BY <2>1, <2>2
<1>8. QED
    BY <1>6, <1>7 DEF Clean

\* Two nodes painted, then turned: what both of the rotations that come first do.
PaintedAndTurned(t, u, S, y, s, x) ==
    /\ Clean(u, S) /\ x \in S /\ x # y
    /\ \E b : SameTree(t, b, S) /\ Rotated(b, u, S, y, s, x, t.node[x][s])
    /\ \A j \in S \ {x, y} : u.node[j].red = t.node[j].red
    /\ u.node[y].red /\ ~u.node[x].red

LEMMA PaintTurn ==
    ASSUME NEW t, NEW S, Clean(t, S), NEW y \in S, NEW s \in Sides, NEW x, x = t.node[y][Other(s)],
           IsRed(t, x), ~IsRed(t, t.node[y][s])
    PROVE  PaintedAndTurned(t, Rotate(Paint(Paint(t, x, "black"), y, "red"), y, s), S, y, s, x)
<1> DEFINE a == Paint(t, x, "black")  b == Paint(a, y, "red")  u == Rotate(b, y, s)
<1>1. /\ HasShape(t, S) /\ nil \notin S /\ x # nil /\ t.node[x].red /\ Other(s) \in Sides
    BY Family, SidesAre DEF Clean, IsRed
<1>2. x \in S /\ x # y
    BY <1>1, Family
<1>3. ~t.node[y].red
    BY <1>1, <1>2 DEF Clean
<1>4. Tinted(t, a, S, x, FALSE)
    BY <1>1, <1>2, PaintTree
<1> HIDE DEF a
<1>5. Tinted(a, b, S, y, TRUE)
    <2>1. HasShape(a, S)
        BY <1>4 DEF SameTree, Tinted
    <2>2. QED
        BY <2>1, PaintTree
<1> HIDE DEF b
<1>6. SameTree(t, b, S)
    BY <1>4, <1>5, SameTrees DEF Tinted
<1>7. \A j \in S : b.node[j].red = IF j = y THEN TRUE ELSE IF j = x THEN FALSE ELSE t.node[j].red
    BY <1>4, <1>5 DEF Tinted
<1>8. HasShape(b, S) /\ \A j \in S, q \in Sides : b.node[j][q] = t.node[j][q]
    BY <1>6 DEF SameTree
<1>9. /\ HasShape(u, S) /\ Rotated(b, u, S, y, s, x, t.node[x][s])
      /\ t.node[x][s] \notin {x, y}
    <2>1. x = b.node[y][Other(s)] /\ b.node[x][s] = t.node[x][s]
        BY <1>1, <1>2, <1>8
    <2>2. /\ HasShape(u, S) /\ Rotated(b, u, S, y, s, x, b.node[x][s])
          /\ b.node[x][s] \notin {x, y}
        BY <1>1, <1>8, <2>1, RotateKeeps
    <2>3. QED
        BY <2>1, <2>2
<1> HIDE DEF u
<1>10. \A j \in S : u.node[j].red = b.node[j].red
    BY <1>9 DEF Rotated
<1>11. b.node[x].red = t.node[y].red /\ b.node[y].red /\ ~b.node[x].red
       /\ \A j \in S \ {x, y} : b.node[j].red = t.node[j].red
    <2>1. t.node[y].red \in BOOLEAN
        BY <1>1, Family
    <2>2. QED
        BY <1>2, <1>3, <1>7, <2>1
<1>12. TurnsRed(t, b, u, S, y, s, x, t.node[x][s])
    BY <1>1, <1>2, <1>6, <1>9, <1>11 DEF TurnsRed
<1>13. Clean(u, S)
    BY <1>9, <1>12, TurnClean
<1>14. QED
    <2>1. PaintedAndTurned(t, u, S, y, s, x)
        BY <1>2, <1>6, <1>9, <1>10, <1>11, <1>13 DEF PaintedAndTurned
    <2>2. QED
        BY <2>1 DEF u, b, a

\* The last rotation: the sibling x, whose outer child is red, takes the place and
\* the color of the parent p, and all below it are black.
Lifted(t, p, s) ==
    LET o == Other(s)
        x == t.node[p][o]
        a == Paint(Paint(Set(t, x, "red", t.node[p].red), p, "black"), t.node[x][o], "black")
    IN  Rotate(a, p, s)

LEMMA LiftClean ==
    ASSUME NEW t, NEW S, Clean(t, S), NEW p \in S, NEW s \in Sides, NEW x, x = t.node[p][Other(s)], x # nil,
           NEW f, f = t.node[x][Other(s)], IsRed(t, f)
    PROVE  Clean(Lifted(t, p, s), S)
<1> DEFINE o == Other(s)
           a == Set(t, x, "red", t.node[p].red)  b == Paint(a, p, "black")  d == Paint(b, f, "black")
           r == Rotate(d, p, s)
           inner == t.node[x][s]
<1>1. Lifted(t, p, s) = r
    BY DEF Lifted
<1>2. /\ HasShape(t, S) /\ nil \notin S /\ o \in Sides /\ t.node[f].red /\ f # nil
      /\ t.node[p].red \in BOOLEAN /\ t.root \in S /\ ~t.node[t.root].red
      /\ \A j \in S, q \in Sides : ~(t.node[j].red /\ t.node[j][q] \in S /\ t.node[t.node[j][q]].red)
    BY SidesAre, Family DEF Clean, IsRed
<1>3. x \in S /\ x # p /\ f \in S /\ f # x /\ x # t.root /\ f # t.root
    <2>1. x \in S /\ x # p /\ x # t.root
        BY <1>2, Family
    <2>2. f \in S /\ f # x /\ f # t.root
        <3>1. Related(t, S)
            BY <1>2, FamilyOf
        <3>2. t.node[x][o] \in S \cup {nil} /\ t.node[x][o] # x /\ (t.node[x][o] # nil => t.node[x][o] # t.root)
            BY <1>2, <2>1, <3>1 DEF Related
        <3>3. QED
            BY <1>2, <3>2
    <2>3. QED
        BY <2>1, <2>2
<1>4. f # p
    BY <1>2, NoCycle
<1>5. HasShape(a, S) /\ Repaints(t, a, S, x, t.node[p].red)
    BY <1>2, <1>3, SetRedKeeps
<1> HIDE DEF a
<1>6. Tinted(t, a, S, x, t.node[p].red)
    BY <1>5 DEF Repaints, Tinted, SameTree
<1>7. Tinted(a, b, S, p, FALSE)
    BY <1>5, PaintTree
<1> HIDE DEF b
<1>8. Tinted(b, d, S, f, FALSE)
    <2>1. HasShape(b, S)
        BY <1>7 DEF SameTree, Tinted
    <2>2. QED
        BY <1>3, <2>1, PaintTree
<1> HIDE DEF d
<1>9. SameTree(t, d, S)
    <2>1. SameTree(t, a, S) /\ SameTree(a, b, S) /\ SameTree(b, d, S)
        BY <1>6, <1>7, <1>8 DEF Tinted
    <2>2. SameTree(t, b, S)
        BY <2>1, SameTrees
    <2>3. QED
        BY <2>1, <2>2, SameTrees
<1>10. HasShape(d, S) /\ d.root = t.root /\ \A j \in S, q \in Sides : d.node[j][q] = t.node[j][q]
    BY <1>9 DEF SameTree
<1>11. \A j \in S : d.node[j].red = IF j = f THEN FALSE ELSE IF j = p THEN FALSE
                                    ELSE IF j = x THEN t.node[p].red ELSE t.node[j].red
    BY <1>6, <1>7, <1>8 DEF Tinted
<1>12. HasShape(r, S) /\ Rotated(d, r, S, p, s, x, inner)
    <2>1. x = d.node[p][Other(s)] /\ d.node[x][s] = inner
        <3>1. d.node[p][Other(s)] = t.node[p][Other(s)]
            BY <1>2, <1>10
        <3>2. d.node[x][s] = t.node[x][s]
            BY <1>3, <1>10
        <3>3. QED
            BY <3>1, <3>2
    <2>2. HasShape(r, S) /\ Rotated(d, r, S, p, s, x, d.node[x][s])
        <3>1. HasShape(d, S) /\ d.node[p][Other(s)] # nil
            BY <1>10, <2>1
        <3>2. x = d.node[p][Other(s)]
            BY <2>1
        <3>3. QED
            BY <3>1, <3>2, RotateKeeps
    <2>3. QED
        BY <2>1, <2>2
<1> HIDE DEF r, inner
<1>13. /\ r.root = (IF t.root = p THEN x ELSE t.root)
       /\ \A j \in S : r.node[j].red = d.node[j].red
       /\ \A j \in S, q \in Sides :
             \/ j = x /\ q = s /\ r.node[j][q] = p
             \/ j = p /\ q = o /\ r.node[j][q] = inner
             \/ j \notin {x, p} /\ t.node[j][q] = p /\ r.node[j][q] = x
             \/ r.node[j][q] = t.node[j][q] /\ t.node[j][q] \notin {x, p} /\ ~(j = x /\ q = s)
    <2>1. /\ r.root = IF d.root = p THEN x ELSE d.root
          /\ \A j \in S : r.node[j].red = d.node[j].red
          /\ \A j \in S, q \in Sides :
                \/ j = x /\ q = s /\ r.node[j][q] = p
                \/ j = p /\ q = Other(s) /\ r.node[j][q] = inner
                \/ j \notin {x, p} /\ d.node[j][q] = p /\ r.node[j][q] = x
                \/ /\ r.node[j][q] = d.node[j][q] /\ d.node[j][q] \notin {x, p}
                   /\ d.node[j][q] = nil \/ d.node[j][q] # inner
                   /\ ~(j = x /\ q = s) /\ ~(j = p /\ q = Other(s))
        BY Zenon, <1>12 DEF Rotated
    <2>2. r.root = (IF t.root = p THEN x ELSE t.root)
        BY <1>10, <2>1
    <2>3. ASSUME NEW j \in S, NEW q \in Sides
          PROVE  \/ j = x /\ q = s /\ r.node[j][q] = p
                 \/ j = p /\ q = o /\ r.node[j][q] = inner
                 \/ j \notin {x, p} /\ t.node[j][q] = p /\ r.node[j][q] = x
                 \/ r.node[j][q] = t.node[j][q] /\ t.node[j][q] \notin {x, p} /\ ~(j = x /\ q = s)
        <3>1. d.node[j][q] = t.node[j][q]
            BY <1>10
        <3>2. QED
            BY <2>1, <3>1
    <2>4. QED
        BY <2>1, <2>2, <2>3
<1>14. /\ ~r.node[p].red /\ ~r.node[f].red /\ r.node[x].red = t.node[p].red
       /\ \A j \in S \ {p, f, x} : r.node[j].red = t.node[j].red
    <2>1. p \in S /\ f \in S /\ x \in S /\ f # p /\ x # p /\ f # x
        BY <1>3, <1>4
    <2>2. d.node[p].red = FALSE /\ d.node[f].red = FALSE /\ d.node[x].red = t.node[p].red
        BY <1>11, <2>1
    <2>3. \A j \in S \ {p, f, x} : d.node[j].red = t.node[j].red
        BY <1>11
    <2>4. \A j \in S : r.node[j].red = d.node[j].red
        BY <1>13
    <2>5. QED
        BY <2>1, <2>2, <2>3, <2>4
<1>15. ASSUME NEW j \in S, NEW q \in Sides, r.node[j].red, r.node[j][q] \in S, r.node[r.node[j][q]].red
       PROVE  FALSE
    <2>1. j \notin {p, f} /\ r.node[j][q] \notin {p, f}
        BY <1>14, <1>15
    <2>2. CASE j \notin {x, p} /\ t.node[j][q] = p /\ r.node[j][q] = x
        BY <1>2, <1>14, <1>15, <2>1, <2>2
    <2>3. CASE r.node[j][q] = t.node[j][q] /\ t.node[j][q] \notin {x, p} /\ ~(j = x /\ q = s)
        <3>1. t.node[t.node[j][q]].red
            BY <1>14, <1>15, <2>1, <2>3
        <3>2. CASE j = x
            <4>1. q = o
                BY <2>3, <3>2, SidesAre
            <4>2. QED
                BY <2>1, <2>3, <3>2, <4>1
        <3>3. CASE j # x
            BY <1>2, <1>14, <1>15, <2>1, <2>3, <3>1, <3>3
        <3>4. QED
            BY <3>2, <3>3
    <2>4. QED
        BY <1>13, <2>1, <2>2, <2>3
<1>16. ~r.node[r.root].red
    <2>1. CASE t.root = p
        BY <1>2, <1>13, <1>14, <2>1
    <2>2. CASE t.root # p
        <3>1. t.root \in S \ {p, f, x} /\ r.root = t.root
            BY <1>2, <1>3, <1>13, <2>2
        <3>2. r.node[t.root].red = t.node[t.root].red
            BY <1>14, <3>1
        <3>3. QED
            BY <1>2, <3>1, <3>2
    <2>3. QED
        BY <2>1, <2>2
<1>17. QED
    BY <1>1, <1>12, <1>15, <1>16, <1>2 DEF Clean

LEMMA RecolorLegal ==
    ASSUME NEW t, NEW S, Clean(t, S), NEW p \in S, NEW s \in Sides, NEW w, w = t.node[p][s], w # nil,
           \A q \in Sides : ~IsRed(t, t.node[w][q])
    PROVE  Legal(Paint(t, w, "red"), S, "delete", p, TRUE)
<1> DEFINE r == Paint(t, w, "red")
<1>1. HasShape(t, S) /\ nil \notin S /\ p # nil /\ t.root \in S /\ ~t.node[t.root].red
    BY Family DEF Clean
<1>2. w \in S /\ w # t.root
    BY <1>1, Family
<1>3. Tinted(t, r, S, w, TRUE)
    BY <1>1, <1>2, PaintTree
<1> HIDE DEF r
<1>4. SameTree(t, r, S) /\ \A j \in S : r.node[j].red = IF j = w THEN TRUE ELSE t.node[j].red
    BY <1>3 DEF Tinted
<1>5. ASSUME NEW a \in S, NEW q \in Sides, r.node[a].red, r.node[a][q] \in S, r.node[r.node[a][q]].red
      PROVE  a = p
    <2>1. r.node[a][q] = t.node[a][q]
        BY <1>4 DEF SameTree
    <2>2. CASE t.node[a][q] = w
        BY <1>1, <2>2, Family
    <2>3. CASE t.node[a][q] # w
        <3>1. t.node[t.node[a][q]].red
            BY <1>4, <1>5, <2>1, <2>3
        <3>2. CASE a = w
            BY <1>1, <1>5, <2>1, <3>1, <3>2 DEF IsRed
        <3>3. CASE a # w
            <4>1. t.node[a].red
                BY <1>4, <1>5, <3>3
            <4>2. QED
                BY <1>5, <2>1, <3>1, <4>1 DEF Clean
        <3>4. QED
            BY <3>2, <3>3
    <2>4. QED
        BY <2>2, <2>3
<1>6. RootAt(r, S, p)
    BY <1>1, <1>2, <1>4 DEF RootAt, SameTree
<1>7. RedsAt(r, S, p, p)
    BY <1>5 DEF RedsAt
<1>8. QED
    BY <1>1, <1>4, <1>6, <1>7 DEF Legal, Extra, SameTree, r

\* The rotations of a turn of the loop of fixupDelete: a red sibling, and a red
\* inner child of the sibling.
FirstTurn(t, p, s) ==
    LET w == t.node[p][Other(s)]
    IN  IF IsRed(t, w) THEN Rotate(Paint(Paint(t, w, "black"), p, "red"), p, s) ELSE t
SecondTurn(t, p, s) ==
    LET w == t.node[p][Other(s)]
        near == t.node[w][s]
    IN  IF IsRed(t, t.node[w][Other(s)]) THEN t
        ELSE Rotate(Paint(Paint(t, near, "black"), w, "red"), w, Other(s))

LEMMA FirstTurnClean ==
    ASSUME NEW t, NEW S, Clean(t, S), NEW p \in S, NEW s \in Sides, ~IsRed(t, t.node[p][s])
    PROVE  Clean(FirstTurn(t, p, s), S)
<1> DEFINE w == t.node[p][Other(s)]
<1>1. CASE IsRed(t, w)
    <2>1. PaintedAndTurned(t, Rotate(Paint(Paint(t, w, "black"), p, "red"), p, s), S, p, s, w)
        BY <1>1, PaintTurn
    <2>2. FirstTurn(t, p, s) = Rotate(Paint(Paint(t, w, "black"), p, "red"), p, s)
        BY <1>1 DEF FirstTurn
    <2>3. QED
        BY <2>1, <2>2 DEF PaintedAndTurned
<1>2. CASE ~IsRed(t, w)
    BY <1>2 DEF FirstTurn
<1>3. QED
    BY <1>1, <1>2

\* The sibling of the node that misses a black node, and its outer child, are ready.
Ready(t, S, p, s) ==
    LET w == t.node[p][Other(s)]
    IN  Clean(t, S) /\ w # nil /\ IsRed(t, t.node[w][Other(s)])

LEMMA SecondTurnClean ==
    ASSUME NEW t, NEW S, Clean(t, S), NEW p \in S, NEW s \in Sides, NEW w, w = t.node[p][Other(s)], w # nil,
           IsRed(t, t.node[w][s]) \/ IsRed(t, t.node[w][Other(s)])
    PROVE  Ready(SecondTurn(t, p, s), S, p, s)
<1>1. HasShape(t, S) /\ nil \notin S /\ Other(s) \in Sides /\ Other(Other(s)) = s /\ Other(s) # s
    BY SidesAre, Family DEF Clean
<1>2. w \in S /\ w # p
    BY <1>1, Family
<1>3. CASE IsRed(t, t.node[w][Other(s)])
    <2>1. SecondTurn(t, p, s) = t
        BY <1>3 DEF SecondTurn
    <2>2. QED
        BY <1>3, <2>1 DEF Ready
<1>4. CASE ~IsRed(t, t.node[w][Other(s)])
    <2> DEFINE o == Other(s)
               near == t.node[w][s]
               r == Rotate(Paint(Paint(t, near, "black"), w, "red"), w, o)
    <2>1. SecondTurn(t, p, s) = r
        BY <1>4 DEF SecondTurn
    <2>2. IsRed(t, near) /\ near = t.node[w][Other(o)] /\ o \in Sides
        BY <1>1, <1>4
    <2>3. PaintedAndTurned(t, r, S, w, o, near)
        BY <1>2, <1>4, <2>2, PaintTurn
    <2>4. near # p /\ near # nil
        BY <1>1, <1>2, <2>2, NoCycle DEF IsRed
    <2> HIDE DEF r, near
    <2>5. PICK b : SameTree(t, b, S) /\ Rotated(b, r, S, w, o, near, t.node[near][o])
        BY <2>3 DEF PaintedAndTurned
    <2>6. r.node[near][o] = w
        BY <2>5 DEF Rotated
    <2>7. b.node[p][o] = w
        BY <2>2, <2>5 DEF SameTree
    <2>8. r.node[p][o] = near
        <3>1. \/ p = near
              \/ p = w
              \/ r.node[p][o] = near
              \/ b.node[p][o] \notin {near, w}
            BY <2>2, <2>5 DEF Rotated
        <3>2. QED
            BY <1>2, <2>4, <2>7, <3>1
    <2>9. Clean(r, S) /\ r.node[w].red
        BY <2>3 DEF PaintedAndTurned
    <2>10. Ready(r, S, p, s)
        BY <1>1, <1>2, <2>4, <2>6, <2>8, <2>9 DEF Ready, IsRed
    <2>11. QED
        BY <2>1, <2>10
<1>5. QED
    BY <1>3, <1>4

LEMMA LiftLegal ==
    ASSUME NEW t, NEW S, NEW p \in S, NEW s \in Sides, Ready(t, S, p, s)
    PROVE  Legal(Lifted(t, p, s), S, "delete", Lifted(t, p, s).root, TRUE)
<1> DEFINE r == Lifted(t, p, s)
<1>1. Clean(r, S)
    BY LiftClean DEF Ready
<1> HIDE DEF r
<1>2. r.root \in S
    BY <1>1, Family DEF Clean
<1>3. Legal(r, S, "delete", r.root, TRUE)
    BY <1>1, <1>2, CleanIsLegal
<1>4. QED
    BY <1>3 DEF r

\* A turn of that loop: where it leaves the tree r and the node d it is at.
DeleteTurn(t0, e, r, d) ==
    LET p == t0.node[e].parent
        s == SideOf(t0, e)
        t == FirstTurn(t0, p, s)
        w == t.node[p][Other(s)]
        near == t.node[w][s]
        far == t.node[w][Other(s)]
    IN  IF w = nil THEN r = t /\ d = e
        ELSE IF ~IsRed(t, near) /\ ~IsRed(t, far) THEN r = Paint(t, w, "red") /\ d = p
        ELSE r = Lifted(SecondTurn(t, p, s), p, s) /\ d = r.root

LEMMA DeleteStepLegal ==
    ASSUME NEW t0, NEW S, NEW e, NEW sk, Legal(t0, S, "delete", e, sk), e # t0.root, ~IsRed(t0, e),
           NEW r, NEW d, DeleteTurn(t0, e, r, d)
    PROVE  sk /\ Legal(r, S, "delete", d, sk)
<1> DEFINE p == t0.node[e].parent
           s == SideOf(t0, e)
           t == FirstTurn(t0, p, s)
           w == t.node[p][Other(s)]
           near == t.node[w][s]
           far == t.node[w][Other(s)]
<1>1. Clean(t0, S) /\ e \in S /\ e # nil /\ ~t0.node[e].red /\ sk
    BY BlackIsClean
<1>2. HasShape(t0, S) /\ nil \notin S
    BY <1>1, Family DEF Clean
<1>3. p \in S /\ p # nil /\ s \in Sides /\ t0.node[p][s] = e
    BY <1>1, <1>2, Family
<1>4. Clean(t, S)
    <2>1. ~IsRed(t0, t0.node[p][s])
        BY <1>3
    <2>2. QED
        BY <1>1, <1>3, <2>1, FirstTurnClean
<1>5. IF w = nil THEN r = t /\ d = e
      ELSE IF ~IsRed(t, near) /\ ~IsRed(t, far) THEN r = Paint(t, w, "red") /\ d = p
      ELSE r = Lifted(SecondTurn(t, p, s), p, s) /\ d = r.root
    BY DEF DeleteTurn
<1> HIDE DEF p, s, t
<1>6. Legal(r, S, "delete", d, TRUE)
    <2>1. CASE w = nil
        BY <1>1, <1>4, <1>5, <2>1, CleanIsLegal
    <2>2. CASE w # nil /\ ~IsRed(t, near) /\ ~IsRed(t, far)
        <3>1. Other(s) \in Sides /\ \A q \in Sides : q \in {s, Other(s)}
            BY <1>3, SidesAre
        <3>2. \A q \in Sides : ~IsRed(t, t.node[w][q])
            BY <2>2, <3>1
        <3>3. Legal(Paint(t, w, "red"), S, "delete", p, TRUE)
            BY <1>3, <1>4, <2>2, <3>1, <3>2, RecolorLegal
        <3>4. QED
            BY <1>5, <2>2, <3>3
    <2>3. CASE w # nil /\ (IsRed(t, near) \/ IsRed(t, far))
        <3>1. Ready(SecondTurn(t, p, s), S, p, s)
            BY <1>3, <1>4, <2>3, SecondTurnClean
        <3>2. Legal(Lifted(SecondTurn(t, p, s), p, s), S, "delete", Lifted(SecondTurn(t, p, s), p, s).root, TRUE)
            BY <1>3, <3>1, LiftLegal
        <3>3. QED
            BY <1>5, <2>3, <3>2
    <2>4. QED
        BY <2>1, <2>2, <2>3
<1>7. Legal(r, S, "delete", d, sk)
    BY <1>1, <1>6 DEF Legal
<1>8. QED
    BY <1>1, <1>7

-----------------------------------------------------------------------------
(* Calls                                                                   *)

\* An empty tree is not skewed.
LEMMA EmptyIsNotSkewed ==
    ASSUME NEW t, NEW S, NEW f, NEW e, NEW sk, Legal(t, S, f, e, sk)
    PROVE  Legal(t, S, f, e, sk /\ t.root # nil)
<1>1. CASE t.root # nil
    <2>1. CASE sk
        BY <1>1, <2>1 DEF Legal
    <2>2. CASE ~sk
        BY <2>2 DEF Legal
    <2>3. QED
        BY <2>1, <2>2
<1>2. CASE t.root = nil
    <2>1. HasShape(t, S) /\ nil \notin S /\ e \in S \cup {nil} /\ (e = nil <=> f = "none")
          /\ f \in {"none", "put", "delete"} /\ RedsAt(t, S, Extra(f, e), e) /\ RootAt(t, S, e)
        BY Family DEF Legal
    <2>2. S = {}
        BY <1>2, <2>1, Family
    <2>3. f = "none"
        BY <2>1, <2>2
    <2>4. \E h : Heights(t, S, h, Extra(f, e))
        BY <2>2, NoHeights
    <2>5. QED
        BY <2>1, <2>3, <2>4 DEF Legal
<1>3. QED
    BY <1>1, <1>2

LEMMA PlantLegal ==
    ASSUME NEW t, HasShape(t, {}), NEW k \in Keys, NEW sk
    PROVE  Legal([Set(t, k, "red", FALSE) EXCEPT !.root = k], {k}, "none", nil, sk)
<1> DEFINE r == [Set(t, k, "red", FALSE) EXCEPT !.root = k]
<1>1. PICK sub : Shape(t, {}, sub)
    BY DEF HasShape
<1>2. HasShape(r, {k}) /\ r.node = t.node /\ r.root = k
    BY <1>1, PlantShape DEF HasShape
<1> HIDE DEF r
<1>3. r.node[k] = Unused /\ k # nil
    BY <1>1, <1>2, KeysAre DEF Shape
<1>4. ~r.node[k].red /\ \A s \in Sides : r.node[k][s] = nil
    BY <1>3 DEF Unused, Sides
<1>5. Heights(r, {k}, [a \in Links |-> 0], nil)
    <2>1. Counts(r, nil, nil) = 0 /\ nil \in Links /\ k \in Links
        BY KeysAre DEF Counts
    <2>2. \A a \in {k}, s \in Sides : r.node[a][s] = nil
        BY <1>4
    <2>3. QED
        BY <2>1, <2>2 DEF Heights
<1>6. RedsAt(r, {k}, nil, nil) /\ RootAt(r, {k}, nil)
    BY <1>2, <1>4 DEF RedsAt, RootAt
<1>7. Legal(r, {k}, "none", nil, sk)
    BY <1>2, <1>5, <1>6 DEF Legal, Extra
<1>8. QED
    BY <1>7 DEF r

LEMMA InsertedLegal ==
    ASSUME NEW t, NEW S, NEW sk, Legal(t, S, "none", nil, sk), NEW k \in Keys \ S, NEW p \in S, NEW d \in Sides,
           t.node[p][d] = nil, NEW r, Inserted(t, r, k, p, d), HasShape(r, S \cup {k})
    PROVE  Legal(r, S \cup {k}, "put", k, sk)
<1>1. HasShape(t, S) /\ nil \notin S /\ S \in SUBSET Keys /\ t.root \in S /\ k # nil /\ k \in Keys
      /\ RedsAt(t, S, nil, nil) /\ RootAt(t, S, nil)
    BY Family, KeysAre DEF Legal, Extra
<1>2. /\ r.root = t.root
      /\ \A j \in S \cup {k} : r.node[j].red = (j = k \/ t.node[j].red)
      /\ \A j \in S \cup {k}, q \in Sides : r.node[j][q] = IF j = p /\ q = d THEN k ELSE t.node[j][q]
    BY <1>1 DEF Inserted
<1>3. t.node[k] = Unused
    BY <1>1 DEF HasShape, Shape
<1>4. \A q \in Sides : t.node[k][q] = nil
    BY <1>3 DEF Unused, Sides
<1>5. k # p
    OBVIOUS
<1>6. ASSUME NEW a \in S \cup {k}, NEW q \in Sides, r.node[a].red, r.node[a][q] \in S \cup {k},
             r.node[r.node[a][q]].red, r.node[a][q] # k
      PROVE  FALSE
    <2>1. r.node[a][q] = t.node[a][q] /\ ~(a = p /\ q = d)
        BY <1>2, <1>6
    <2>2. a # k
        BY <1>1, <1>4, <1>6, <2>1
    <2>3. a \in S /\ t.node[a].red /\ t.node[a][q] \in S /\ t.node[t.node[a][q]].red
        BY <1>2, <1>6, <2>1, <2>2
    <2>4. QED
        BY <1>1, <2>3 DEF RedsAt
<1>7. RedsAt(r, S \cup {k}, nil, k)
    BY <1>6 DEF RedsAt
<1>8. RootAt(r, S \cup {k}, k)
    <2>1. ~t.node[t.root].red /\ t.root # k
        BY <1>1 DEF RootAt
    <2>2. QED
        BY <1>1, <1>2, <2>1 DEF RootAt
<1>9. r.node[k].red
    BY <1>2
<1>10. ASSUME NEW h, Heights(t, S, h, nil)
       PROVE  \E g : Heights(r, S \cup {k}, g, nil)
    <2> DEFINE g == [h EXCEPT ![k] = 0]
    <2>1. /\ h \in [Links -> Nat] /\ h[nil] = 0
          /\ \A a \in S, q \in Sides : h[a] = h[t.node[a][q]] + Counts(t, t.node[a][q], nil)
        BY <1>10 DEF Heights
    <2>2. g \in [Links -> Nat] /\ g[k] = 0 /\ \A j \in Links \ {k} : g[j] = h[j]
        BY <1>1, <2>1, KeysAre
    <2> HIDE DEF g
    <2>3. Counts(r, nil, nil) = 0 /\ Counts(t, nil, nil) = 0 /\ Counts(r, k, nil) = 0
        BY <1>1, <1>9 DEF Counts
    <2>4. S \subseteq Links \ {k} /\ nil \in Links \ {k}
        BY <1>1, KeysAre
    <2>5. g[nil] = 0
        BY <2>1, <2>2, <2>4
    <2>6. ASSUME NEW a \in S \cup {k}, NEW q \in Sides
          PROVE  g[a] = g[r.node[a][q]] + Counts(r, r.node[a][q], nil)
        <3>1. CASE a = k
            <4>1. r.node[a][q] = nil
                BY <1>2, <1>4, <1>5, <3>1
            <4>2. QED
                BY <2>2, <2>3, <2>5, <3>1, <4>1
        <3>2. CASE a = p /\ q = d
            <4>1. h[p] = 0 /\ g[p] = h[p]
                BY <2>1, <2>2, <2>3, <2>4
            <4>2. r.node[a][q] = k
                BY <1>2, <3>2
            <4>3. QED
                BY <2>2, <2>3, <3>2, <4>1, <4>2
        <3>3. CASE a # k /\ ~(a = p /\ q = d)
            <4> DEFINE c == t.node[a][q]
            <4>1. a \in S /\ r.node[a][q] = c /\ c \in S \cup {nil}
                BY <1>1, <1>2, <3>3, Family
            <4>2. h[a] = h[c] + Counts(t, c, nil)
                BY <2>1, <4>1
            <4> HIDE DEF c
            <4>3. Counts(r, c, nil) = Counts(t, c, nil)
                <5>1. CASE c = nil
                    BY <2>3, <5>1
                <5>2. CASE c # nil
                    <6>1. c \in S /\ c # k
                        BY <4>1, <5>2
                    <6>2. r.node[c].red = t.node[c].red
                        <7>1. r.node[c].red = (c = k \/ t.node[c].red) /\ t.node[c].red \in BOOLEAN
                            BY <1>1, <1>2, <6>1, Family
                        <7>2. QED
                            BY <6>1, <7>1
                    <6>3. QED
                        BY <6>2 DEF Counts
                <5>3. QED
                    BY <5>1, <5>2
            <4>4. g[a] = h[a] /\ g[c] = h[c]
                BY <2>2, <2>4, <4>1
            <4>5. QED
                BY <4>1, <4>2, <4>3, <4>4
        <3>4. QED
            BY <3>1, <3>2, <3>3
    <2>7. Heights(r, S \cup {k}, g, nil)
        BY <2>2, <2>5, <2>6 DEF Heights
    <2>8. QED
        BY <2>7
<1>11. sk \/ \E g : Heights(r, S \cup {k}, g, nil)
    BY <1>10 DEF Legal, Extra
<1>12. QED
    BY <1>1, <1>7, <1>8, <1>9, <1>11 DEF Legal, Extra

LEMMA AddLegal ==
    ASSUME NEW t, NEW S, NEW sk, Legal(t, S, "none", nil, sk), S # {}, NEW k \in Keys \ S,
           NEW s, s = Search(t, k)
    PROVE  Legal(Set(Set(Paint(t, k, "red"), k, "parent", s.parent), s.parent, s.dir, k), S \cup {k}, "put", k, sk)
<1> DEFINE p == s.parent  d == s.dir
           r == Set(Set(Paint(t, k, "red"), k, "parent", p), p, d, k)
<1>1. HasShape(t, S)
    BY DEF Legal
<1>2. PICK sub : Shape(t, S, sub)
    BY <1>1 DEF HasShape
<1>3. nil \notin S /\ t.root \in S /\ t \in Trees /\ S \in SUBSET Keys
    BY <1>1, Family
<1>4. OnTheWay(t, S, sub, k, s) /\ s.this = nil
    BY <1>2, SearchIs
<1>5. /\ s \in Places /\ p \in S /\ t.node[p][d] = nil
      /\ \A a \in S, q \in Sides : p \in sub[t.node[a][q]] \/ (a = p /\ q = d) => Below(q, k, a)
    BY <1>3, <1>4 DEF OnTheWay
<1>6. d \in Sides /\ p \in Links
    BY <1>5 DEF Places
<1>7. Inserted(t, r, k, p, d)
    BY <1>3, <1>6, InsertIs
<1> HIDE DEF r, p, d
<1>8. Shape(r, S \cup {k}, InsertedSub(sub, k, p))
    BY <1>2, <1>5, <1>6, <1>7, InsertShape
<1>9. HasShape(r, S \cup {k})
    BY <1>8 DEF HasShape
<1>10. Legal(r, S \cup {k}, "put", k, sk)
    BY <1>5, <1>6, <1>7, <1>9, InsertedLegal
<1>11. QED
    BY <1>10 DEF r, p, d

\* Where the fixup is once node y is gone and x in its place, and what that skews.
Misses(t, y, x) == ~t.node[y].red /\ x # nil
FixupAfter(t, y, x) == IF Misses(t, y, x) THEN "delete" ELSE "none"
PlaceAfter(t, y, x) == IF Misses(t, y, x) THEN x ELSE nil
Skews(t, y, x) == ~t.node[y].red /\ x = nil

LEMMA ContractedHeights ==
    ASSUME NEW t, NEW S, NEW y \in S, HasShape(t, S), RedsAt(t, S, nil, nil), NEW x, OnlyChild(t, y, x),
           NEW r, Contracted(t, r, y, x), HasShape(r, S \ {y}), NEW h, Heights(t, S, h, nil),
           ~Skews(t, y, x)
    PROVE  Heights(r, S \ {y}, h, PlaceAfter(t, y, x)) /\ (Misses(t, y, x) => t.node[x].red)
<1> DEFINE e == PlaceAfter(t, y, x)
<1>1. /\ nil \notin S /\ S \in SUBSET Keys /\ y # nil
      /\ \A j \in S \cup {nil} : j \in Links
    BY Family, KeysAre
<1>2. PICK s \in Sides : t.node[y][s] = x /\ t.node[y][Other(s)] = nil
    BY DEF OnlyChild
<1>3. x \in S \cup {nil} /\ x # y /\ Other(s) \in Sides
    BY <1>2, Family, SidesAre
<1>4. /\ h \in [Links -> Nat] /\ h[nil] = 0
      /\ \A a \in S, q \in Sides : h[a] = h[t.node[a][q]] + Counts(t, t.node[a][q], nil)
    BY DEF Heights
<1>5. \A u, i : Counts(u, nil, i) = 0
    BY DEF Counts
<1>6. h[y] = 0
    <2>1. h[y] = h[nil] + Counts(t, nil, nil)
        BY <1>2, <1>3, <1>4
    <2>2. QED
        BY <1>4, <1>5, <2>1
<1>7. h[x] = 0 /\ Counts(t, x, nil) = 0
    <2>1. h[y] = h[x] + Counts(t, x, nil)
        BY <1>2, <1>4
    <2>2. h[x] \in Nat /\ Counts(t, x, nil) \in Nat
        BY <1>1, <1>3, <1>4 DEF Counts
    <2>3. QED
        BY <1>6, <2>1, <2>2
<1>8. x # nil => t.node[x].red
    BY <1>7 DEF Counts
<1>9. t.node[y].red => x = nil
    <2>1. ASSUME t.node[y].red, x # nil PROVE FALSE
        <3>1. t.node[y][s] \in S /\ t.node[t.node[y][s]].red /\ y # nil
            BY <1>1, <1>2, <1>3, <1>8, <2>1
        <3>2. t.node[y][s] # nil
            BY <1>2, <2>1
        <3>3. QED
            BY <2>1, <3>1, <3>2 DEF RedsAt
    <2>2. QED
        BY <2>1
<1>10. /\ Counts(r, x, e) = Counts(t, y, nil)
       /\ x # nil => e = x
    <2>1. CASE t.node[y].red
        BY <1>5, <1>9, <2>1 DEF Counts
    <2>2. CASE ~t.node[y].red
        <3>1. x # nil /\ e = x
            BY <2>2 DEF Skews, PlaceAfter, Misses
        <3>2. QED
            BY <1>1, <2>2, <3>1 DEF Counts
    <2>3. QED
        BY <2>1, <2>2
<1>11. /\ \A j \in S \ {y} : r.node[j].red = t.node[j].red
       /\ \A j \in S \ {y}, q \in Sides : r.node[j][q] = IF t.node[j][q] = y THEN x ELSE t.node[j][q]
    BY <1>1 DEF Contracted
<1>12. e \in {x, nil}
    BY DEF PlaceAfter
<1> HIDE DEF e
<1>13. ASSUME NEW a \in S \ {y}, NEW q \in Sides
       PROVE  h[a] = h[r.node[a][q]] + Counts(r, r.node[a][q], e)
    <2> DEFINE c == t.node[a][q]
    <2>1. c \in S \cup {nil} /\ h[a] = h[c] + Counts(t, c, nil)
        BY <1>4, Family
    <2>2. c # nil => t.node[c].parent = a
        BY Family
    <2>3. x # nil => t.node[x].parent = y
        BY <1>2, Family
    <2>4. r.node[a][q] = IF c = y THEN x ELSE c
        BY <1>11
    <2> HIDE DEF c
    <2>5. CASE c = y
        BY <1>6, <1>7, <1>10, <2>1, <2>4, <2>5
    <2>6. CASE c # y /\ c # nil
        <3>1. c # x /\ c # e
            BY <1>12, <2>2, <2>3, <2>6
        <3>2. r.node[c].red = t.node[c].red
            BY <1>11, <2>1, <2>6
        <3>3. Counts(r, c, e) = Counts(t, c, nil)
            BY <2>6, <3>1, <3>2 DEF Counts
        <3>4. QED
            BY <2>1, <2>4, <2>6, <3>3
    <2>7. CASE c = nil
        <3>1. r.node[a][q] = nil
            BY <1>1, <2>4, <2>7
        <3>2. QED
            BY <1>4, <1>5, <2>1, <2>7, <3>1
    <2>8. QED
        BY <2>5, <2>6, <2>7
<1>14. Heights(r, S \ {y}, h, e)
    BY <1>4, <1>13 DEF Heights
<1>15. QED
    BY <1>8, <1>14 DEF e, Misses

LEMMA ContractedLegal ==
    ASSUME NEW t, NEW S, NEW sk, Legal(t, S, "none", nil, sk), NEW y \in S, NEW x, OnlyChild(t, y, x),
           NEW r, Contracted(t, r, y, x), HasShape(r, S \ {y})
    PROVE  Legal(r, S \ {y}, FixupAfter(t, y, x), PlaceAfter(t, y, x), sk \/ Skews(t, y, x))
<1> DEFINE T == S \ {y}  f == FixupAfter(t, y, x)  e == PlaceAfter(t, y, x)
<1>1. /\ HasShape(t, S) /\ RedsAt(t, S, nil, nil) /\ RootAt(t, S, nil) /\ nil \notin S /\ S \in SUBSET Keys
      /\ t.root \in S
    BY Family DEF Legal, Extra
<1>2. x \in S \cup {nil} /\ x # y /\ \E s \in Sides : t.node[y][s] = x
    <2>1. PICK s \in Sides : t.node[y][s] = x
        BY DEF OnlyChild
    <2>2. QED
        BY <1>1, <2>1, Family
<1>3. /\ \A j \in T : r.node[j].red = t.node[j].red
      /\ \A j \in T, q \in Sides : r.node[j][q] = IF t.node[j][q] = y THEN x ELSE t.node[j][q]
      /\ r.root = IF t.node[y].parent = nil THEN x ELSE t.root
    BY <1>1 DEF Contracted
<1>4. /\ f \in {"none", "delete"} /\ e \in T \cup {nil} /\ (e = nil <=> f = "none")
      /\ Extra(f, e) = e
    BY <1>2 DEF FixupAfter, PlaceAfter, Misses, Extra
<1>5. e = IF Misses(t, y, x) THEN x ELSE nil
    BY DEF PlaceAfter
<1> HIDE DEF e, f
<1>6. ASSUME NEW a \in T, NEW q \in Sides, r.node[a].red, r.node[a][q] \in T, r.node[r.node[a][q]].red
      PROVE  r.node[a][q] = e
    <2>1. t.node[a].red
        BY <1>3, <1>6
    <2>2. CASE t.node[a][q] = y
        <3>1. ~t.node[y].red
            BY <1>1, <2>1, <2>2 DEF RedsAt
        <3>2. r.node[a][q] = x
            BY <1>3, <2>2
        <3>3. x # nil
            BY <1>1, <1>6, <3>2
        <3>4. QED
            BY <1>5, <3>1, <3>2, <3>3 DEF Misses
    <2>3. CASE t.node[a][q] # y
        <3>1. r.node[a][q] = t.node[a][q]
            BY <1>3, <2>3
        <3>2. t.node[t.node[a][q]].red /\ t.node[a][q] \in S /\ t.node[a][q] # nil
            BY <1>1, <1>3, <1>6, <3>1
        <3>3. QED
            BY <1>1, <2>1, <3>2 DEF RedsAt
    <2>4. QED
        BY <2>2, <2>3
<1>7. RedsAt(r, T, Extra(f, e), e)
    BY <1>6 DEF RedsAt
<1>8. RootAt(r, T, e)
    <2>1. SUFFICES ASSUME T # {}, r.root # e PROVE ~r.node[r.root].red
        BY DEF RootAt
    <2>2. r.root \in T /\ r.root # nil
        <3>1. T # {} => r.root \in T
            <4>1. HasShape(r, T)
                OBVIOUS
            <4> HIDE DEF T
            <4>2. QED
                BY <4>1, Family
        <3>2. QED
            BY <1>1, <2>1, <3>1
    <2>3. ~t.node[t.root].red
        BY <1>1 DEF RootAt
    <2>4. CASE t.node[y].parent = nil
        <3>1. y = t.root /\ r.root = x
            BY <1>1, <1>3, <2>4, Family
        <3>2. Misses(t, y, x)
            BY <2>2, <2>3, <3>1 DEF Misses
        <3>3. QED
            BY <1>5, <2>1, <3>1, <3>2
    <2>5. CASE t.node[y].parent # nil
        <3>1. r.root = t.root
            BY <1>3, <2>5
        <3>2. QED
            BY <1>3, <2>2, <2>3, <3>1
    <2>6. QED
        BY <2>4, <2>5
<1>9. ASSUME ~sk, ~Skews(t, y, x)
      PROVE  (\E h : Heights(r, T, h, e)) /\ (f = "delete" => r.node[e].red)
    <2>1. PICK h : Heights(t, S, h, nil)
        BY <1>9 DEF Legal, Extra
    <2>2. Heights(r, T, h, e) /\ (Misses(t, y, x) => t.node[x].red)
        BY <1>1, <1>9, <2>1, ContractedHeights DEF e
    <2>3. ASSUME f = "delete" PROVE r.node[e].red
        <3>1. e # nil /\ e \in T
            BY <1>4, <2>3
        <3>2. Misses(t, y, x) /\ e = x
            BY <1>5, <3>1
        <3>3. QED
            BY <1>3, <2>2, <3>1, <3>2
    <2>4. QED
        BY <2>2, <2>3
<1>10. Legal(r, T, f, e, sk \/ Skews(t, y, x))
    BY <1>4, <1>7, <1>8, <1>9 DEF Legal
<1>11. QED
    BY <1>10 DEF f, e

\* y takes the place of z, which changes nothing but the name.
LEMMA ReplacedLegal ==
    ASSUME NEW t, NEW T, NEW f, NEW e, NEW sk, Legal(t, T, f, e, sk), NEW z \in T, NEW y \in Keys \ T, e # z,
           NEW r, Replaced(t, r, z, y), HasShape(r, (T \ {z}) \cup {y})
    PROVE  Legal(r, (T \ {z}) \cup {y}, f, e, sk)
<1> DEFINE U == (T \ {z}) \cup {y}
           To(j) == IF j = z THEN y ELSE j
           x == Extra(f, e)
<1>1. /\ HasShape(t, T) /\ nil \notin T /\ T \in SUBSET Keys /\ t.root \in T /\ y # nil /\ y \notin T /\ z # nil
      /\ x \in {e, nil} /\ e \in T \cup {nil} /\ y # e
    BY Family, KeysAre DEF Legal, Extra
<1>2. /\ \A j \in U : r.node[j].red = IF j = y THEN t.node[z].red ELSE t.node[j].red
      /\ \A j \in U, q \in Sides :
            r.node[j][q] = IF j = y THEN t.node[z][q] ELSE IF t.node[j][q] = z THEN y ELSE t.node[j][q]
      /\ r.root = IF t.root = z THEN y ELSE t.root
    BY <1>1 DEF Replaced
<1>3. ASSUME NEW a \in T
      PROVE  /\ To(a) \in U /\ r.node[To(a)].red = t.node[a].red
             /\ \A q \in Sides : r.node[To(a)][q] = To(t.node[a][q])
    <2>1. CASE a = z
        <3>1. \A q \in Sides : t.node[z][q] # z
            BY <1>1, Family
        <3>2. QED
            BY <1>2, <2>1, <3>1
    <2>2. CASE a # z
        BY <1>1, <1>2, <2>2
    <2>3. QED
        BY <2>1, <2>2
<1>4. r.root = To(t.root)
    BY <1>2
<1>5. /\ \A b \in U : \E a \in T : b = To(a)
      /\ \A b \in T \cup {nil} : /\ To(b) = nil <=> b = nil
                                 /\ To(b) = e <=> b = e
                                 /\ To(b) = x <=> b = x
                                 /\ To(b) \in U <=> b \in T
    BY <1>1
<1>6. U # {} /\ T # {} /\ e \in U \cup {nil}
    BY <1>1
<1>7. \A a \in T, q \in Sides : t.node[a][q] \in T \cup {nil}
    BY <1>1, Family
<1> HIDE DEF To, U, x
<1>8. RedsAt(r, U, x, e)
    <2>1. ASSUME NEW b \in U, NEW q \in Sides, r.node[b].red, r.node[b][q] \in U, r.node[r.node[b][q]].red
          PROVE  b = x \/ r.node[b][q] = e
        <3>1. PICK a \in T : b = To(a)
            BY <1>5
        <3>2. r.node[b][q] = To(t.node[a][q]) /\ t.node[a].red
            BY <1>3, <2>1, <3>1
        <3>3. t.node[a][q] \in T
            BY <1>5, <1>7, <2>1, <3>2
        <3>4. t.node[t.node[a][q]].red
            BY <1>3, <2>1, <3>2, <3>3
        <3>5. a = x \/ t.node[a][q] = e
            BY <3>2, <3>3, <3>4 DEF Legal, RedsAt, x
        <3>6. QED
            BY <1>5, <3>1, <3>2, <3>3, <3>5
    <2>2. QED
        BY <2>1 DEF RedsAt
<1>9. RootAt(r, U, e)
    <2>1. t.root # e => ~t.node[t.root].red
        BY <1>6 DEF Legal, RootAt
    <2>2. QED
        BY <1>1, <1>3, <1>4, <1>5, <2>1 DEF RootAt
<1>10. \A a \in T \cup {nil} : Counts(r, To(a), x) = Counts(t, a, x)
    <2>1. TAKE a \in T \cup {nil}
    <2>2. CASE a = nil
        <3>1. To(a) = nil
            BY <1>5, <2>2
        <3>2. QED
            BY <2>2, <3>1 DEF Counts
    <2>3. CASE a \in T
        <3>1. r.node[To(a)].red = t.node[a].red
            BY <1>3, <2>3
        <3>2. (To(a) = nil <=> a = nil) /\ (To(a) = x <=> a = x)
            BY <1>5
        <3>3. QED
            BY <3>1, <3>2 DEF Counts
    <2>4. QED
        BY <2>2, <2>3
<1>11. ASSUME NEW h, Heights(t, T, h, x)
       PROVE  \E g : Heights(r, U, g, x)
    <2> DEFINE g == [h EXCEPT ![y] = h[z]]
    <2>1. /\ h \in [Links -> Nat] /\ h[nil] = 0
          /\ \A a \in T, q \in Sides : h[a] = h[t.node[a][q]] + Counts(t, t.node[a][q], x)
        BY <1>11 DEF Heights
    <2>2. z \in Links /\ y \in Links /\ \A a \in T \cup {nil} : a \in Links
        BY <1>1, KeysAre
    <2>3. g \in [Links -> Nat] /\ g[y] = h[z] /\ \A j \in Links \ {y} : g[j] = h[j]
        BY <2>1, <2>2
    <2> HIDE DEF g
    <2>4. \A a \in T \cup {nil} : g[To(a)] = h[a]
        BY <1>1, <2>2, <2>3 DEF To
    <2>5. ASSUME NEW b \in U, NEW q \in Sides
          PROVE  g[b] = g[r.node[b][q]] + Counts(r, r.node[b][q], x)
        <3>1. PICK a \in T : b = To(a)
            BY <1>5
        <3>2. r.node[b][q] = To(t.node[a][q])
            BY <1>3, <3>1
        <3>3. t.node[a][q] \in T \cup {nil}
            BY <1>7
        <3>4. h[a] = h[t.node[a][q]] + Counts(t, t.node[a][q], x)
            BY <2>1
        <3>5. g[b] = h[a] /\ g[To(t.node[a][q])] = h[t.node[a][q]]
            BY <2>4, <3>1, <3>3
        <3>6. QED
            BY <1>10, <3>2, <3>3, <3>4, <3>5
    <2>6. g[nil] = 0
        BY <1>1, <2>1, <2>2, <2>3
    <2>7. Heights(r, U, g, x)
        BY <2>3, <2>5, <2>6 DEF Heights
    <2>8. QED
        BY <2>7
<1>12. sk \/ \E g : Heights(r, U, g, x)
    BY <1>11 DEF Legal, x
<1>13. \A a \in T : a = e => r.node[a].red = t.node[a].red
    BY <1>3, <1>5
<1>14. e # nil => r.node[e].red = t.node[e].red
    BY <1>1, <1>13
<1>15. QED
    <2>1. f \in {"none", "put", "delete"} /\ (e = nil <=> f = "none")
        BY DEF Legal
    <2>2. f = "put" => r.node[e].red
        BY <1>14, <2>1 DEF Legal
    <2>3. f = "delete" => sk \/ r.node[e].red
        BY <1>14, <2>1 DEF Legal
    <2>4. Legal(r, U, f, e, sk)
        BY <1>6, <1>8, <1>9, <1>12, <2>1, <2>2, <2>3 DEF Legal, x, U
    <2>5. QED
        BY <2>4 DEF U

\* Remove, with the names it has in the code, makes r of t.
Removal(t, k, y, x, r) ==
    LET n == t.node[k]
    IN  /\ y = IF n.left # nil /\ n.right # nil THEN Minimum(t, n.right) ELSE k
        /\ x = IF n.left = nil THEN n.right ELSE IF n.right = nil THEN n.left ELSE t.node[y].right
        /\ r = Erased(IF y = k THEN Transplant(t, k, x) ELSE Splice(t, k, y), k)

LEMMA RemoveLegal ==
    ASSUME NEW t, NEW S, NEW sk, Legal(t, S, "none", nil, sk), NEW k \in S, NEW y, NEW x, NEW r,
           Removal(t, k, y, x, r)
    PROVE  Legal(r, S \ {k}, FixupAfter(t, y, x), PlaceAfter(t, y, x), sk \/ Skews(t, y, x))
<1> DEFINE l == t.node[k].left  w == t.node[k].right
<1>1. HasShape(t, S)
    BY DEF Legal
<1>2. PICK sub : Shape(t, S, sub)
    BY <1>1 DEF HasShape
<1>3. k \in S /\ S \in SUBSET Keys /\ nil \notin S
    BY <1>1, Family
<1>4. CASE l = nil \/ w = nil
    <2>1. y = k /\ IF l = nil THEN x = w ELSE x = l /\ w = nil
        BY <1>4 DEF Removal
    <2>2. r = Erased(Transplant(t, k, x), k)
        BY <2>1 DEF Removal
    <2>3. OnlyChild(t, k, x) /\ Contracted(t, r, k, x)
        BY <1>2, <2>1, <2>2, RemoveOne
    <2>4. Shape(r, S \ {k}, [a \in Links |-> sub[a] \ {k}])
        BY <1>2, <2>3, ContractShape
    <2>5. HasShape(r, S \ {k})
        BY <2>4 DEF HasShape
    <2>6. Legal(r, S \ {k}, FixupAfter(t, k, x), PlaceAfter(t, k, x), sk \/ Skews(t, k, x))
        BY <2>3, <2>5, ContractedLegal
    <2>7. QED
        BY <2>1, <2>6
<1>5. CASE l # nil /\ w # nil
    <2>1. y = Minimum(t, w) /\ x = t.node[y].right
        BY <1>5 DEF Removal
    <2>2. /\ y \in S /\ y # k /\ OnlyChild(t, y, x) /\ x \in S \cup {nil} /\ x # y /\ x # k
          /\ \E m : /\ Contracted(t, m, y, x)
                    /\ InPlaceOf(m, S \ {y}, [a \in Links |-> sub[a] \ {y}], k, y)
                    /\ Replaced(m, Erased(Splice(t, k, y), k), k, y)
        BY <1>2, <1>5, <2>1, RemoveTwo
    <2>3. r = Erased(Splice(t, k, y), k)
        BY <2>2 DEF Removal
    <2>4. PICK m : /\ Contracted(t, m, y, x)
                   /\ InPlaceOf(m, S \ {y}, [a \in Links |-> sub[a] \ {y}], k, y)
                   /\ Replaced(m, r, k, y)
        BY <2>2, <2>3
    <2>5. Shape(m, S \ {y}, [a \in Links |-> sub[a] \ {y}])
        BY <1>2, <2>2, <2>4, ContractShape
    <2> DEFINE T == S \ {y}  new == [a \in Links |-> sub[a] \ {y}]
               f == FixupAfter(t, y, x)  e == PlaceAfter(t, y, x)  ss == sk \/ Skews(t, y, x)
    <2>6. HasShape(m, T)
        BY <2>5 DEF HasShape
    <2>7. Legal(m, T, f, e, ss)
        BY <2>2, <2>4, <2>6, ContractedLegal
    <2>8. k \in T /\ y \in Keys \ T /\ (T \ {k}) \cup {y} = S \ {k}
        BY <1>3, <2>2
    <2>9. e # k
        BY <1>3, <2>2 DEF PlaceAfter
    <2>10. Shape(m, T, new) /\ InPlaceOf(m, T, new, k, y)
        BY <2>4, <2>5
    <2> HIDE DEF T, new, f, e, ss
    <2>11. Shape(r, (T \ {k}) \cup {y}, ReplacedSub(new, k, y))
        BY <2>4, <2>8, <2>10, ReplaceShape
    <2>12. HasShape(r, (T \ {k}) \cup {y})
        BY <2>11 DEF HasShape
    <2>13. Legal(r, (T \ {k}) \cup {y}, f, e, ss)
        BY <2>4, <2>7, <2>8, <2>9, <2>12, ReplacedLegal
    <2>14. Legal(r, S \ {k}, f, e, ss)
        BY <2>8, <2>13
    <2>15. QED
        BY <2>14 DEF f, e, ss
<1>6. QED
    BY <1>4, <1>5

LEMMA ClearLegal ==
    ASSUME NEW sk
    PROVE  Legal([root |-> nil, node |-> [k \in Keys |-> Unused]], {}, "none", nil, sk)
<1> DEFINE r == [root |-> nil, node |-> [k \in Keys |-> Unused]]
<1>1. r.root = nil /\ r.node = [k \in Keys |-> Unused]
    OBVIOUS
<1>2. Unused \in Nodes /\ nil \in Links
    BY KeysAre DEF Unused, Nodes
<1>3. r \in Trees
    BY <1>2 DEF Trees
<1> HIDE DEF r
<1>4. Shape(r, {}, [a \in Links |-> {}])
    BY <1>1, <1>2, <1>3 DEF Shape
<1>5. HasShape(r, {})
    BY <1>4 DEF HasShape
<1>6. \E h : Heights(r, {}, h, nil)
    BY NoHeights
<1>7. Legal(r, {}, "none", nil, sk)
    BY <1>5, <1>6 DEF Legal, RedsAt, RootAt, Extra
<1>8. QED
    BY <1>7 DEF r

-----------------------------------------------------------------------------
(* The inductive invariant                                                 *)

Holds(S) == skewed \in BOOLEAN /\ Legal(Tree, S, fix, at, skewed)

\* The tree is a legal one of some keys, and the fixup is where it may be.
RInv == \E S : Holds(S)

LEMMA Becomes ==
    ASSUME NEW S, NEW t, NEW f, NEW e, Legal(t, S, f, e, skewed), skewed \in BOOLEAN,
           root' = t.root, node' = t.node, skewed' = (skewed /\ t.root # nil), fix' = f, at' = e
    PROVE  Holds(S)'
<1>1. t \in Trees
    BY Family DEF Legal
<1>2. t = [root |-> t.root, node |-> t.node]
    BY <1>1 DEF Trees
<1>3. Tree' = t
    BY <1>2 DEF Tree
<1>4. Legal(t, S, f, e, skewed /\ t.root # nil)
    BY EmptyIsNotSkewed
<1>5. Legal(Tree', S, fix', at', skewed')
    BY <1>3, <1>4
<1>6. QED
    BY <1>5 DEF Holds

LEMMA Stays ==
    ASSUME NEW S, Holds(S), UNCHANGED tree
    PROVE  Holds(S)'
<1>1. Tree' = Tree /\ fix' = fix /\ at' = at /\ skewed' = skewed
    BY DEF tree, Tree
<1>2. QED
    BY <1>1 DEF Holds

LEMMA TreeIs ==
    ASSUME NEW S, Holds(S)
    PROVE  /\ HasShape(Tree, S) /\ Tree.root = root /\ Tree.node = node /\ (S = {} <=> root = nil)
           /\ S \in SUBSET Keys /\ (fix = "none" => at = nil)
<1>1. HasShape(Tree, S) /\ Tree.root = root /\ Tree.node = node
    BY DEF Holds, Legal, Tree
<1>2. QED
    BY <1>1, Family DEF Holds, Legal

LEMMA AddHolds ==
    ASSUME NEW S, Holds(S), NEW k \in Keys, Add(k)
    PROVE  Holds(S \cup {k})'
<1> DEFINE s == Search(Tree, k)
<1>1. /\ HasShape(Tree, S) /\ Tree.root = root /\ (S = {} <=> root = nil) /\ fix = "none" /\ at = nil
      /\ Legal(Tree, S, "none", nil, skewed) /\ skewed \in BOOLEAN
    <2>1. fix = "none"
        BY DEF Add
    <2>2. QED
        BY <2>1, TreeIs DEF Holds
<1>2. s.this = IF k \in S THEN k ELSE nil
    BY <1>1, SearchIs DEF HasShape
<1>3. k # nil
    BY KeysAre
<1>4. CASE root = nil
    <2> DEFINE r == [Set(Tree, k, "red", FALSE) EXCEPT !.root = k]
    <2>1. Become(r) /\ UNCHANGED <<fix, at>>
        BY <1>4 DEF Add
    <2>2. Legal(r, {k}, "none", nil, skewed)
        BY <1>1, <1>4, PlantLegal
    <2> HIDE DEF r
    <2>3. Holds({k})'
        BY <1>1, <2>1, <2>2, Becomes DEF Become
    <2>4. S \cup {k} = {k}
        BY <1>1, <1>4
    <2>5. QED
        BY <2>3, <2>4
<1>5. CASE root # nil /\ s.this = k
    <2>1. k \in S
        BY <1>2, <1>3, <1>5
    <2>2. S \cup {k} = S
        BY <2>1
    <2>3. UNCHANGED tree
        BY <1>5 DEF Add
    <2>4. QED
        BY <2>2, <2>3, Stays
<1>6. CASE root # nil /\ s.this # k
    <2> DEFINE r == Set(Set(Paint(Tree, k, "red"), k, "parent", s.parent), s.parent, s.dir, k)
    <2>1. Become(r) /\ Fixup("put", k)
        BY <1>6 DEF Add
    <2>2. S # {} /\ k \in Keys \ S
        BY <1>1, <1>2, <1>6
    <2>3. Legal(r, S \cup {k}, "put", k, skewed)
        BY <1>1, <2>2, AddLegal
    <2> HIDE DEF r
    <2>4. QED
        BY <1>1, <2>1, <2>3, Becomes DEF Become, Fixup
<1>7. QED
    BY <1>4, <1>5, <1>6

LEMMA RemoveHolds ==
    ASSUME NEW S, Holds(S), NEW k \in Keys, Remove(k)
    PROVE  Holds(S \ {k})'
<1> DEFINE n == node[k]
           y == IF n.left # nil /\ n.right # nil THEN Minimum(Tree, n.right) ELSE k
           x == IF n.left = nil THEN n.right ELSE IF n.right = nil THEN n.left ELSE node[y].right
           t == IF y = k THEN Transplant(Tree, k, x) ELSE Splice(Tree, k, y)
           r == Erased(t, k)
<1>1. /\ HasShape(Tree, S) /\ Tree.root = root /\ Tree.node = node /\ fix = "none" /\ at = nil
      /\ Legal(Tree, S, "none", nil, skewed) /\ skewed \in BOOLEAN
    <2>1. fix = "none"
        BY DEF Remove
    <2>2. QED
        BY <2>1, TreeIs DEF Holds
<1>2. k \in S
    <2>1. Search(Tree, k).this = IF k \in S THEN k ELSE nil
        BY <1>1, SearchIs DEF HasShape
    <2>2. Search(Tree, k).this = k /\ k # nil
        BY KeysAre DEF Remove, Found
    <2>3. QED
        BY <2>1, <2>2
<1>3. Removal(Tree, k, y, x, r)
    BY <1>1 DEF Removal
<1>4. /\ root' = t.root /\ node' = [t.node EXCEPT ![k] = Unused]
      /\ skewed' = (t.root # nil /\ (skewed \/ (~node[y].red /\ x = nil)))
      /\ IF ~node[y].red /\ x # nil THEN Fixup("delete", x) ELSE UNCHANGED <<fix, at>>
    BY DEF Remove, NeedsFixup
<1>5. r.root = t.root /\ r.node = [t.node EXCEPT ![k] = Unused]
    BY DEF Erased
<1> HIDE DEF y, x, t, r
<1> DEFINE ss == skewed \/ Skews(Tree, y, x)  f == FixupAfter(Tree, y, x)  e == PlaceAfter(Tree, y, x)
<1>6. Legal(r, S \ {k}, f, e, ss)
    BY <1>1, <1>2, <1>3, RemoveLegal
<1>7. Legal(r, S \ {k}, f, e, ss /\ r.root # nil)
    BY <1>6, EmptyIsNotSkewed
<1>8. fix' = f /\ at' = e
    <2>1. CASE ~node[y].red /\ x # nil
        <3>1. Misses(Tree, y, x)
            BY <1>1, <2>1 DEF Misses
        <3>2. QED
            BY <1>4, <2>1, <3>1 DEF Fixup, FixupAfter, PlaceAfter
    <2>2. CASE ~(~node[y].red /\ x # nil)
        <3>1. ~Misses(Tree, y, x)
            BY <1>1, <2>2 DEF Misses
        <3>2. QED
            BY <1>1, <1>4, <2>2, <3>1 DEF FixupAfter, PlaceAfter
    <2>3. QED
        BY <2>1, <2>2
<1>9. skewed' = (ss /\ r.root # nil)
    BY <1>1, <1>4, <1>5 DEF Skews
<1>10. r = [root |-> r.root, node |-> r.node]
    <2>1. r \in Trees
        BY <1>6, Family DEF Legal
    <2>2. QED
        BY <2>1 DEF Trees
<1>11. Tree' = r
    BY <1>4, <1>5, <1>10 DEF Tree
<1> HIDE DEF ss, f, e
<1>12. Legal(Tree', S \ {k}, fix', at', skewed')
    BY <1>7, <1>8, <1>9, <1>11
<1>13. skewed' \in BOOLEAN
    BY <1>4
<1>14. QED
    BY <1>12, <1>13 DEF Holds

LEMMA ClearHolds ==
    ASSUME NEW S, Holds(S), Clear
    PROVE  Holds({})'
<1> DEFINE r == [root |-> nil, node |-> [k \in Keys |-> Unused]]
<1>1. fix = "none" /\ at = nil /\ skewed \in BOOLEAN /\ Become(r) /\ UNCHANGED <<fix, at>>
    BY TreeIs DEF Clear, Holds
<1>2. Legal(r, {}, "none", nil, skewed)
    BY ClearLegal
<1> HIDE DEF r
<1>3. QED
    BY <1>1, <1>2, Becomes DEF Become

LEMMA PutHolds ==
    ASSUME NEW S, Holds(S), PutEnd \/ PutStep
    PROVE  Holds(S)'
<1>1. /\ HasShape(Tree, S) /\ Tree.root = root /\ Tree.node = node /\ fix = "put" /\ skewed \in BOOLEAN
      /\ Legal(Tree, S, "put", at, skewed)
    <2>1. fix = "put"
        BY DEF PutEnd, PutStep
    <2>2. QED
        BY <2>1, TreeIs DEF Holds
<1>2. CASE PutEnd
    <2> DEFINE r == Paint(Tree, Tree.root, "black")
    <2>1. Legal(r, S, "none", nil, skewed)
        BY <1>1, <1>2, PutEndLegal DEF PutEnd
    <2>2. Become(r) /\ Fixup("none", nil)
        BY <1>1, <1>2 DEF PutEnd
    <2> HIDE DEF r
    <2>3. QED
        BY <1>1, <2>1, <2>2, Becomes DEF Become, Fixup
<1>3. CASE PutStep
    <2> DEFINE p == node[at].parent
               g == node[p].parent
               s == SideOf(Tree, p)
               uncle == node[g][Other(s)]
               red == Paint(Paint(Paint(Tree, p, "black"), uncle, "black"), g, "red")
               inner == at # node[p][s]
               z == IF inner THEN p ELSE at
               straight == IF inner THEN Rotate(Tree, p, s) ELSE Tree
               black == Paint(Paint(straight, straight.node[z].parent, "black"), g, "red")
               r == Rotate(black, g, Other(s))
    <2>1. /\ IsRed(Tree, p)
          /\ IF g = nil THEN Fixup("crash", nil) /\ UNCHANGED <<root, node, skewed>>
             ELSE IF IsRed(Tree, uncle) THEN Become(red) /\ Fixup("put", g)
             ELSE Become(r) /\ Fixup("put", z)
        BY <1>3 DEF PutStep
    <2>2. g # nil /\ Uncles(Tree, S, at, p, g, s)
        BY <1>1, <2>1, UnclesAre
    <2>3. CASE IsRed(Tree, uncle)
        <3>1. Legal(red, S, "put", g, skewed)
            BY <1>1, <2>2, <2>3, PutRedLegal
        <3>2. Become(red) /\ Fixup("put", g)
            BY <2>1, <2>2, <2>3
        <3> HIDE DEF red, g
        <3>3. QED
            BY <1>1, <3>1, <3>2, Becomes DEF Become, Fixup
    <2>4. CASE ~IsRed(Tree, uncle)
        <3>1. Become(r) /\ Fixup("put", z)
            BY <2>1, <2>2, <2>4
        <3>2. /\ Straight(straight, S, z, straight.node[z].parent, g, s)
              /\ \A h : Heights(Tree, S, h, nil) => Heights(straight, S, h, nil)
            BY <1>1, <2>2, <2>4, StraightIs
        <3> HIDE DEF z, straight, g, s
        <3>3. skewed \/ \E h : Heights(straight, S, h, nil)
            BY <1>1, <3>2 DEF Legal, Extra
        <3>4. Legal(r, S, "put", z, skewed)
            BY <3>2, <3>3, PutTurnLegal
        <3> HIDE DEF r
        <3>5. QED
            BY <1>1, <3>1, <3>4, Becomes DEF Become, Fixup
    <2>5. QED
        BY <2>3, <2>4
<1>4. QED
    BY <1>2, <1>3

LEMMA DeleteHolds ==
    ASSUME NEW S, Holds(S), DeleteEnd \/ DeleteStep
    PROVE  Holds(S)'
<1>1. /\ HasShape(Tree, S) /\ Tree.root = root /\ Tree.node = node /\ fix = "delete" /\ skewed \in BOOLEAN
      /\ Legal(Tree, S, "delete", at, skewed)
    <2>1. fix = "delete"
        BY DEF DeleteEnd, DeleteStep
    <2>2. QED
        BY <2>1, TreeIs DEF Holds
<1>2. CASE DeleteEnd
    <2> DEFINE r == Paint(Tree, at, "black")
    <2>1. Legal(r, S, "none", nil, skewed)
        BY <1>1, <1>2, DeleteEndLegal DEF DeleteEnd
    <2>2. Become(r) /\ Fixup("none", nil)
        BY <1>1, <1>2 DEF DeleteEnd
    <2> HIDE DEF r
    <2>3. QED
        BY <1>1, <2>1, <2>2, Becomes DEF Become, Fixup
<1>3. CASE DeleteStep
    <2>1. \E r, d : DeleteTurn(Tree, at, r, d) /\ Become(r) /\ Fixup("delete", d)
        <3> DEFINE p == node[at].parent
                   s == SideOf(Tree, at)
                   o == Other(s)
                   t == IF IsRed(Tree, node[p][o])
                        THEN Rotate(Paint(Paint(Tree, node[p][o], "black"), p, "red"), p, s) ELSE Tree
                   w == t.node[p][o]
                   near == t.node[w][s]
                   far == t.node[w][o]
                   t2 == IF IsRed(t, far) THEN t
                         ELSE Rotate(Paint(Paint(t, near, "black"), w, "red"), w, o)
                   w2 == t2.node[p][o]
                   t3 == Paint(Paint(Set(t2, w2, "red", t2.node[p].red), p, "black"), t2.node[w2][o], "black")
                   up == Rotate(t3, p, s)
        <3>1. IF w = nil THEN Become(t) /\ Fixup("delete", at)
              ELSE IF ~IsRed(t, near) /\ ~IsRed(t, far)
                   THEN Become(Paint(t, w, "red")) /\ Fixup("delete", p)
              ELSE Become(up) /\ Fixup("delete", up.root)
            BY <1>3 DEF DeleteStep
        <3>2. up = Lifted(t2, p, s)
            BY DEF Lifted
        <3> HIDE DEF up, t3, w2
        <3>3. t2 = SecondTurn(t, p, s)
            BY DEF SecondTurn
        <3> HIDE DEF t2
        <3>4. t = FirstTurn(Tree, p, s) /\ p = Tree.node[at].parent
            BY <1>1 DEF FirstTurn
        <3> HIDE DEF t, p, s
        <3>5. ASSUME NEW r, NEW d,
                     IF w = nil THEN r = t /\ d = at
                     ELSE IF ~IsRed(t, near) /\ ~IsRed(t, far) THEN r = Paint(t, w, "red") /\ d = p
                     ELSE r = up /\ d = r.root
              PROVE  DeleteTurn(Tree, at, r, d)
            BY <3>2, <3>3, <3>4, <3>5 DEF DeleteTurn, s
        <3> HIDE DEF near, far, w, o
        <3>6. CASE w = nil
            BY <3>1, <3>5, <3>6
        <3>7. CASE w # nil /\ ~IsRed(t, near) /\ ~IsRed(t, far)
            BY <3>1, <3>5, <3>7
        <3>8. CASE w # nil /\ ~(~IsRed(t, near) /\ ~IsRed(t, far))
            BY <3>1, <3>5, <3>8
        <3>9. QED
            BY <3>6, <3>7, <3>8
    <2>2. PICK r, d : DeleteTurn(Tree, at, r, d) /\ Become(r) /\ Fixup("delete", d)
        BY <2>1
    <2>3. at # Tree.root /\ ~IsRed(Tree, at)
        BY <1>1, <1>3 DEF DeleteStep
    <2>4. Legal(r, S, "delete", d, skewed)
        BY <1>1, <2>2, <2>3, DeleteStepLegal
    <2>5. QED
        BY <1>1, <2>2, <2>4, Becomes DEF Become, Fixup
<1>4. QED
    BY <1>2, <1>3

LEMMA ContentOf ==
    ASSUME NEW t, NEW S, HasShape(t, S)
    PROVE  {k \in Keys : k = t.root \/ \E p \in Keys, s \in Sides : t.node[p][s] = k} = S
<1> DEFINE C == {k \in Keys : k = t.root \/ \E p \in Keys, s \in Sides : t.node[p][s] = k}
<1>1. /\ nil \notin S /\ nil \notin Keys /\ S \in SUBSET Keys
      /\ S # {} => t.root \in S
      /\ S = {} => t.root = nil
      /\ \A c \in S : c # t.root => /\ t.node[c].parent \in S /\ SideOf(t, c) \in Sides
                                    /\ t.node[t.node[c].parent][SideOf(t, c)] = c
      /\ \A a \in S, s \in Sides : t.node[a][s] \in S \cup {nil}
    BY Family, KeysAre
<1>2. \A a \in Keys \ S, s \in Sides : t.node[a][s] = nil
    <2>1. \A a \in Keys \ S : t.node[a] = Unused
        BY DEF HasShape, Shape
    <2>2. QED
        BY <2>1 DEF Unused, Sides
<1>3. ASSUME NEW k \in S PROVE k \in C
    BY <1>1
<1>4. ASSUME NEW k \in C PROVE k \in S
    <2>1. k \in Keys /\ k # nil
        BY <1>1
    <2>2. CASE k = t.root
        BY <1>1, <2>1, <2>2
    <2>3. CASE \E p \in Keys, s \in Sides : t.node[p][s] = k
        BY <1>1, <1>2, <2>1, <2>3
    <2>4. QED
        BY <2>2, <2>3
<1>5. QED
    BY <1>3, <1>4

LEMMA ContentIs ==
    ASSUME NEW S, Holds(S)
    PROVE  Content = S
<1>1. HasShape(Tree, S) /\ Tree.root = root /\ Tree.node = node
    BY TreeIs
<1>2. {k \in Keys : k = Tree.root \/ \E p \in Keys, s \in Sides : Tree.node[p][s] = k} = S
    BY <1>1, ContentOf
<1>3. QED
    BY <1>1, <1>2 DEF Content

LEMMA ContentBecomes ==
    ASSUME NEW S, Holds(S)'
    PROVE  Content' = S
<1> DEFINE t == [root |-> root', node |-> node']
<1>1. HasShape(t, S) /\ t.root = root' /\ t.node = node'
    BY DEF Holds, Legal, Tree
<1> HIDE DEF t
<1>2. {k \in Keys : k = t.root \/ \E p \in Keys, s \in Sides : t.node[p][s] = k} = S
    BY <1>1, ContentOf
<1>3. QED
    BY <1>1, <1>2 DEF Content

LEMMA TypesHold ==
    ASSUME NEW S, Holds(S)
    PROVE  TypeOK
<1>1. HasShape(Tree, S) /\ Tree.root = root /\ Tree.node = node /\ S \in SUBSET Keys
    BY TreeIs
<1>2. root \in Links /\ node \in [Keys -> Nodes]
    <2>1. Tree \in Trees
        BY <1>1, Family
    <2>2. QED
        BY <1>1, <2>1 DEF Trees
<1>3. /\ fix \in {"none", "put", "delete"} /\ at \in S \cup {nil} /\ (at = nil <=> fix = "none")
      /\ skewed \in BOOLEAN
    BY DEF Holds, Legal
<1>4. at \in Links
    BY <1>1, <1>3, KeysAre
<1>5. QED
    BY <1>2, <1>3, <1>4 DEF TypeOK, Nodes

LEMMA TreeHolds ==
    ASSUME NEW S, Holds(S)
    PROVE  IsTree
<1>1. HasShape(Tree, S) /\ Tree.root = root /\ Tree.node = node /\ S \in SUBSET Keys
    BY TreeIs
<1>2. TypeOK /\ Content = S
    BY TypesHold, ContentIs
<1>3. /\ nil \notin S /\ nil \notin Keys
      /\ S # {} => root \in S
      /\ S = {} => root = nil
      /\ \A c \in S : /\ c = root <=> node[c].parent = nil
                      /\ c # root => /\ node[c].parent \in S /\ SideOf(Tree, c) \in Sides
                                     /\ node[node[c].parent][SideOf(Tree, c)] = c
      /\ \A a \in S, s \in Sides : node[a][s] # nil => node[node[a][s]].parent = a
    <2> DEFINE t == Tree
    <2>1. HasShape(t, S)
        BY <1>1
    <2> HIDE DEF t
    <2>2. /\ nil \notin S /\ nil \notin Keys
          /\ S # {} => t.root \in S
          /\ S = {} => t.root = nil
          /\ \A c \in S : /\ c = t.root <=> t.node[c].parent = nil
                          /\ c # t.root => /\ t.node[c].parent \in S /\ SideOf(t, c) \in Sides
                                           /\ t.node[t.node[c].parent][SideOf(t, c)] = c
          /\ \A a \in S, s \in Sides : t.node[a][s] # nil => t.node[t.node[a][s]].parent = a
        BY <2>1, Family, KeysAre
    <2>3. t.root = root /\ t.node = node /\ t = Tree
        BY <1>1 DEF t
    <2>4. QED
        BY <2>2, <2>3
<1>4. \A k \in Keys \ S : node[k] = Unused
    BY <1>1 DEF HasShape, Shape
<1>5. ASSUME NEW k \in Keys
      PROVE  /\ \A s \in Sides : node[k][s] # nil => node[node[k][s]].parent = k
             /\ node[k].parent # nil => \E s \in Sides : node[node[k].parent][s] = k
             /\ k \notin S => node[k] = Unused
    <2>1. CASE k \in S
        BY <1>3, <2>1
    <2>2. CASE k \notin S
        <3>1. node[k] = Unused
            BY <1>4, <2>2
        <3>2. node[k].parent = nil /\ \A s \in Sides : node[k][s] = nil
            BY <3>1 DEF Unused, Sides
        <3>3. QED
            BY <3>1, <3>2
    <2>3. QED
        BY <2>1, <2>2
<1>6. ASSUME NEW k \in Keys PROVE Found(Tree, k) <=> k \in Content
    <2>1. Search(Tree, k).this = IF k \in S THEN k ELSE nil
        BY <1>1, SearchIs DEF HasShape
    <2>2. QED
        BY <1>2, <1>3, <2>1 DEF Found
<1>7. root # nil => node[root].parent = nil
    BY <1>3
<1>8. QED
    BY <1>2, <1>5, <1>6, <1>7 DEF IsTree

LEMMA ColorsHold ==
    ASSUME NEW S, Holds(S)
    PROVE  Colored
<1>1. HasShape(Tree, S) /\ Tree.root = root /\ Tree.node = node /\ S \in SUBSET Keys
    BY TreeIs
<1>2. fix # "crash"
    BY DEF Holds, Legal
<1>3. ASSUME fix = "none"
      PROVE  /\ ~IsRed(Tree, root)
             /\ \A k \in Keys : node[k].red => ~IsRed(Tree, node[k].left) /\ ~IsRed(Tree, node[k].right)
    <2>1. at = nil /\ RedsAt(Tree, S, nil, nil) /\ RootAt(Tree, S, nil)
        BY <1>3 DEF Holds, Legal, Extra
    <2>2. nil \notin S /\ (S = {} => root = nil)
        BY <1>1, Family
    <2>3. ~IsRed(Tree, root)
        BY <1>1, <2>1, <2>2 DEF RootAt, IsRed
    <2>4. ASSUME NEW k \in Keys, node[k].red, NEW s \in Sides PROVE ~IsRed(Tree, node[k][s])
        <3>1. k \in S
            <4>1. k \notin S => node[k] = Unused
                BY <1>1 DEF HasShape, Shape
            <4>2. QED
                BY <2>4, <4>1 DEF Unused
        <3>2. node[k][s] \in S \cup {nil} /\ k # nil
            BY <1>1, <2>2, <3>1, Family
        <3>3. QED
            BY <1>1, <2>1, <2>2, <2>4, <3>1, <3>2 DEF RedsAt, IsRed
    <2>5. QED
        BY <2>3, <2>4 DEF Sides
<1>4. QED
    BY <1>2, <1>3 DEF Colored

LEMMA StartHolds ==
    ASSUME Init
    PROVE  Holds({})
<1> DEFINE r == [root |-> nil, node |-> [k \in Keys |-> Unused]]
<1>1. Tree = r /\ fix = "none" /\ at = nil /\ skewed = FALSE
    BY DEF Init, Tree
<1>2. Legal(r, {}, "none", nil, FALSE)
    BY ClearLegal
<1>3. QED
    BY <1>1, <1>2 DEF Holds

\* Each step leaves the tree a legal one, and does to its keys what a sorted set does.
LEMMA StepsHold ==
    ASSUME NEW S, Holds(S), [Next]_vars
    PROVE  \E R : Holds(R)' /\ [Sorted!Next]_(<<Content, asked>>)
<1>1. Content = S
    BY ContentIs
<1>2. ASSUME NEW R, Holds(R)' PROVE Content' = R
    BY <1>2, ContentBecomes
<1>3. CASE Clear
    <2>1. Holds({})'
        BY <1>3, ClearHolds
    <2>2. Sorted!Clear
        BY <1>2, <1>3, <2>1 DEF Clear, Sorted!Clear
    <2>3. QED
        BY <2>1, <2>2 DEF Sorted!Next
<1>4. ASSUME NEW k \in Keys, Add(k) PROVE \E R : Holds(R)' /\ [Sorted!Next]_(<<Content, asked>>)
    <2>1. Holds(S \cup {k})'
        BY <1>4, AddHolds
    <2>2. Sorted!Add(k)
        BY <1>1, <1>2, <1>4, <2>1 DEF Add, Sorted!Add
    <2>3. QED
        BY <2>1, <2>2 DEF Sorted!Next
<1>5. ASSUME NEW k \in Keys, Remove(k) PROVE \E R : Holds(R)' /\ [Sorted!Next]_(<<Content, asked>>)
    <2>1. Holds(S \ {k})'
        BY <1>5, RemoveHolds
    <2>2. Sorted!Remove(k)
        BY <1>1, <1>2, <1>5, <2>1 DEF Remove, Sorted!Remove
    <2>3. QED
        BY <2>1, <2>2 DEF Sorted!Next
<1>6. CASE FixStep
    <2>1. Holds(S)'
        BY <1>6, PutHolds, DeleteHolds DEF FixStep
    <2>2. Content' = Content /\ asked' = asked
        BY <1>1, <1>2, <1>6, <2>1 DEF FixStep
    <2>3. QED
        BY <2>1, <2>2
<1>7. CASE UNCHANGED vars
    <2>1. Holds(S)' /\ asked' = asked
        BY <1>7, Stays DEF vars
    <2>2. Content' = Content
        BY <1>1, <1>2, <2>1
    <2>3. QED
        BY <2>1, <2>2
<1>8. QED
    BY <1>3, <1>4, <1>5, <1>6, <1>7 DEF Next

\* The tree of maps/red_black_tree.go (and of set/red_black_tree.go) is a search
\* tree of some keys at every step of a put, a deletion and their fixups, with
\* one thing to mend at most, at the node the fixup is at.
THEOREM TreeInvariant == Spec => []RInv
<1>1. Init => RInv
    BY StartHolds DEF RInv
<1>2. RInv /\ [Next]_vars => RInv'
    <2>1. SUFFICES ASSUME RInv, [Next]_vars PROVE RInv'
        OBVIOUS
    <2>2. PICK S : Holds(S)
        BY <2>1 DEF RInv
    <2>3. \E R : Holds(R)'
        BY <2>1, <2>2, StepsHold
    <2>4. QED
        BY <2>3 DEF RInv
<1>3. QED
    BY <1>1, <1>2, PTL DEF Spec

\* Add, Remove and Clear change the keys of the tree as they change a set: an
\* insertion hangs one node, a removal cuts one off and loses none of those it
\* moves (maps/red_black_tree.go, put, delete, transplant), and no fixup adds or
\* loses a node, however it turns the tree.
THEOREM TreeImplementsSortedKeys == Spec => ImplementsSortedKeys
<1>1. Init => Sorted!Init
    <2>1. SUFFICES ASSUME Init PROVE Sorted!Init
        OBVIOUS
    <2>2. Content = {}
        BY <2>1, StartHolds, ContentIs
    <2>3. QED
        BY <2>1, <2>2 DEF Init, Sorted!Init
<1>2. RInv /\ [Next]_vars => [Sorted!Next]_(<<Content, asked>>)
    <2>1. SUFFICES ASSUME RInv, [Next]_vars PROVE [Sorted!Next]_(<<Content, asked>>)
        OBVIOUS
    <2>2. PICK S : Holds(S)
        BY <2>1 DEF RInv
    <2>3. QED
        BY <2>1, <2>2, StepsHold
<1>3. QED
    BY <1>1, <1>2, TreeInvariant, PTL DEF Spec, ImplementsSortedKeys, Sorted!Spec

-----------------------------------------------------------------------------
(* The way up from a node                                                  *)

Upward(t, x) == IF x = nil THEN nil ELSE t.node[x].parent
WayUp(t, k, f) == f \in [0 .. MaxKey -> Links] /\ f[0] = k /\ \A i \in 1 .. MaxKey : f[i] = Upward(t, f[i - 1])
Reached(f) == {f[i] : i \in 0 .. MaxKey} \ {nil}

LEMMA LargerAbove ==
    ASSUME NEW t, NEW S, NEW sub, Shape(t, S, sub), NEW k \in S, k # t.root
    PROVE  LET p == t.node[k].parent
           IN  /\ p \in S /\ sub[k] \subseteq sub[p] /\ p \notin sub[k]
               /\ Cardinality(sub[k]) + 1 <= Cardinality(sub[p])
<1> DEFINE p == t.node[k].parent
<1>1. p \in S /\ \E s \in Sides : t.node[p][s] = k
    BY Parents
<1>2. k \in S /\ k # nil
    BY Near
<1> HIDE DEF p
<1>3. sub[k] \subseteq sub[p] /\ p \notin sub[k] /\ p \in sub[p]
    BY <1>1, <1>2, Near
<1>4. k \in Links /\ p \in Links
    BY <1>1, KeysAre DEF Shape
<1>5. /\ IsFiniteSet(sub[p]) /\ Cardinality(sub[p]) \in Nat /\ Cardinality(sub[k]) \in Nat
      /\ Cardinality(sub[k]) <= Cardinality(sub[p]) /\ Cardinality(sub[k]) # Cardinality(sub[p])
    BY <1>3, <1>4, SubsAreFinite, FS_Subset, KeysAre
<1>6. QED
    BY <1>1, <1>3, <1>5 DEF p

\* It ends above the root, and visits what has the node below it.
LEMMA WayUpIs ==
    ASSUME NEW t, NEW S, NEW sub, Shape(t, S, sub), NEW k \in S, NEW f, WayUp(t, k, f)
    PROVE  /\ f[MaxKey] = nil
           /\ \A i \in 0 .. MaxKey : f[i] # nil => f[i] \in S /\ k \in sub[f[i]]
<1>1. MaxKey \in Nat /\ f \in [0 .. MaxKey -> Links] /\ f[0] = k
      /\ \A i \in 1 .. MaxKey : f[i] = Upward(t, f[i - 1])
    BY KeysAre DEF WayUp
<1> DEFINE B == {i \in 0 .. MaxKey : f[i] # nil => /\ f[i] \in S /\ k \in sub[f[i]]
                                                  /\ Cardinality(sub[f[i]]) >= i + 1}
<1>2. 0 \in B
    <2>1. k \in sub[k] /\ k \in Links
        BY Near, KeysAre
    <2>2. IsFiniteSet(sub[k]) /\ Cardinality(sub[k]) \in 0 .. MaxKey
        BY <2>1, SubsAreFinite
    <2>3. Cardinality(sub[k]) # 0
        BY <2>1, <2>2, FS_EmptySet
    <2>4. Cardinality(sub[k]) >= 0 + 1
        BY <1>1, <2>2, <2>3
    <2>5. QED
        BY <1>1, <2>1, <2>4
<1>3. ASSUME NEW i \in 1 .. MaxKey, i - 1 \in B PROVE i \in B
    <2> DEFINE c == f[i - 1]  p == f[i]
    <2>1. i \in 0 .. MaxKey /\ i - 1 \in 0 .. MaxKey
        BY <1>1
    <2>2. SUFFICES ASSUME p # nil PROVE p \in S /\ k \in sub[p] /\ Cardinality(sub[p]) >= i + 1
        BY <2>1
    <2>3. c # nil /\ p = t.node[c].parent
        BY <1>1, <2>2 DEF Upward
    <2>4. c \in S /\ k \in sub[c] /\ Cardinality(sub[c]) >= i
        BY <1>3, <2>3
    <2> HIDE DEF c, p
    <2>5. c # t.root
        BY <2>2, <2>3, <2>4, Parents
    <2>6. p \in S /\ sub[c] \subseteq sub[p] /\ Cardinality(sub[c]) + 1 <= Cardinality(sub[p])
        BY <2>3, <2>4, <2>5, LargerAbove
    <2>7. c \in Links /\ p \in Links
        BY <2>4, <2>6, KeysAre DEF Shape
    <2>8. Cardinality(sub[c]) \in Nat /\ Cardinality(sub[p]) \in Nat
        BY <2>7, SubsAreFinite, KeysAre
    <2>9. QED
        BY <2>4, <2>6, <2>8
<1> HIDE DEF B
<1>4. \A i \in 0 .. MaxKey : i \in B
    BY <1>1, <1>2, <1>3, SetInduction
<1>5. f[MaxKey] = nil
    <2>1. SUFFICES ASSUME f[MaxKey] # nil PROVE FALSE
        OBVIOUS
    <2>2. MaxKey \in B
        BY <1>1, <1>4
    <2>3. Cardinality(sub[f[MaxKey]]) >= MaxKey + 1 /\ f[MaxKey] \in Links
        BY <1>1, <2>1, <2>2 DEF B
    <2>4. Cardinality(sub[f[MaxKey]]) \in 0 .. MaxKey
        BY <2>3, SubsAreFinite
    <2>5. QED
        BY <1>1, <2>3, <2>4
<1>6. QED
    BY <1>4, <1>5 DEF B

LEMMA RootReaches ==
    ASSUME NEW t, NEW S, NEW sub, Shape(t, S, sub), t.root \in S, NEW f, WayUp(t, t.root, f)
    PROVE  Reached(f) = {t.root}
<1>1. MaxKey \in Nat /\ f[0] = t.root /\ t.root # nil /\ t.node[t.root].parent = nil
      /\ \A i \in 1 .. MaxKey : f[i] = Upward(t, f[i - 1])
    BY KeysAre DEF WayUp, Shape
<1> DEFINE B == {i \in 0 .. MaxKey : i # 0 => f[i] = nil}
<1>2. 0 \in B
    BY <1>1
<1>3. ASSUME NEW i \in 1 .. MaxKey, i - 1 \in B PROVE i \in B
    <2>1. f[i - 1] \in {nil, t.root}
        BY <1>1, <1>3
    <2>2. f[i] = nil
        BY <1>1, <2>1 DEF Upward
    <2>3. QED
        BY <1>1, <2>2
<1> HIDE DEF B
<1>4. \A i \in 0 .. MaxKey : i \in B
    BY <1>1, <1>2, <1>3, SetInduction
<1>5. \A i \in 0 .. MaxKey : i = 0 \/ f[i] = nil
    BY <1>4 DEF B
<1>6. 0 \in 0 .. MaxKey
    BY <1>1
<1>7. QED
    BY <1>1, <1>5, <1>6 DEF Reached

LEMMA ChildReaches ==
    ASSUME NEW t, NEW S, NEW sub, Shape(t, S, sub), NEW k \in S, k # t.root,
           NEW f, WayUp(t, k, f), NEW g, WayUp(t, t.node[k].parent, g)
    PROVE  Reached(f) = Reached(g) \cup {k} /\ k \notin Reached(g)
<1> DEFINE p == t.node[k].parent
<1>1. /\ MaxKey \in Nat /\ f[0] = k /\ g[0] = p
      /\ \A i \in 1 .. MaxKey : f[i] = Upward(t, f[i - 1])
      /\ \A i \in 1 .. MaxKey : g[i] = Upward(t, g[i - 1])
    BY KeysAre DEF WayUp
<1>2. p \in S /\ sub[k] \subseteq sub[p] /\ p \notin sub[k] /\ k # nil
    BY LargerAbove, Near
<1>3. g[MaxKey] = nil /\ \A i \in 0 .. MaxKey : g[i] # nil => g[i] \in S /\ p \in sub[g[i]]
    BY <1>2, WayUpIs
<1> DEFINE B == {i \in 0 .. MaxKey : i # 0 => f[i] = g[i - 1]}
<1>4. 0 \in B
    BY <1>1
<1>5. ASSUME NEW i \in 1 .. MaxKey, i - 1 \in B PROVE i \in B
    <2>1. i \in 0 .. MaxKey /\ f[i] = Upward(t, f[i - 1])
        BY <1>1
    <2>2. CASE i - 1 = 0
        <3>1. f[i - 1] = k /\ g[i - 1] = p
            BY <1>1, <2>2
        <3>2. f[i] = p
            BY <1>2, <2>1, <3>1 DEF Upward
        <3>3. QED
            BY <2>1, <3>1, <3>2
    <2>3. CASE i - 1 # 0
        <3>1. i - 1 \in 1 .. MaxKey
            BY <1>1, <2>3
        <3>2. f[i - 1] = g[(i - 1) - 1]
            BY <1>5, <2>3
        <3>3. g[i - 1] = Upward(t, g[(i - 1) - 1])
            BY <1>1, <3>1
        <3>4. f[i] = g[i - 1]
            BY <2>1, <3>2, <3>3
        <3>5. QED
            BY <2>1, <3>4
    <2>4. QED
        BY <2>2, <2>3
<1> HIDE DEF B
<1>6. \A i \in 0 .. MaxKey : i \in B
    BY <1>1, <1>4, <1>5, SetInduction
<1>7. \A i \in 1 .. MaxKey : f[i] = g[i - 1]
    <2>1. ASSUME NEW i \in 1 .. MaxKey PROVE f[i] = g[i - 1]
        <3>1. i \in B /\ i # 0
            BY <1>1, <1>6
        <3>2. QED
            BY <3>1 DEF B
    <2>2. QED
        BY <2>1
<1> HIDE DEF p
<1>8. ASSUME NEW x \in Reached(f) PROVE x \in Reached(g) \cup {k}
    <2>1. PICK i \in 0 .. MaxKey : x = f[i]
        BY DEF Reached
    <2>2. CASE i = 0
        BY <1>1, <2>1, <2>2
    <2>3. CASE i # 0
        <3>1. i \in 1 .. MaxKey /\ i - 1 \in 0 .. MaxKey
            BY <1>1, <2>3
        <3>2. x = g[i - 1]
            BY <1>7, <2>1, <3>1
        <3>3. QED
            BY <3>1, <3>2 DEF Reached
    <2>4. QED
        BY <2>2, <2>3
<1>9. ASSUME NEW x \in Reached(g) PROVE x \in Reached(f)
    <2>1. PICK i \in 0 .. MaxKey : x = g[i] /\ x # nil
        BY DEF Reached
    <2>2. i # MaxKey
        BY <1>3, <2>1
    <2>3. i + 1 \in 1 .. MaxKey /\ i + 1 \in 0 .. MaxKey /\ (i + 1) - 1 = i
        BY <1>1, <2>2
    <2>4. f[i + 1] = g[(i + 1) - 1]
        BY <1>7, <2>3
    <2>5. f[i + 1] = x
        BY <2>1, <2>3, <2>4
    <2>6. QED
        BY <2>1, <2>3, <2>5 DEF Reached
<1>10. k \in Reached(f)
    <2>1. 0 \in 0 .. MaxKey
        BY <1>1
    <2>2. QED
        BY <1>1, <1>2, <2>1 DEF Reached
<1>11. k \notin Reached(g)
    <2>1. SUFFICES ASSUME k \in Reached(g) PROVE FALSE
        OBVIOUS
    <2>2. p \in sub[k]
        BY <1>3, <2>1 DEF Reached
    <2>3. QED
        BY <1>2, <2>2
<1>12. QED
    BY <1>8, <1>9, <1>10, <1>11

\* The black nodes on the way up.
LEMMA BlackAboveIs ==
    ASSUME NEW S, Holds(S), NEW k \in S
    PROVE  \E f : WayUp(Tree, k, f) /\ BlackAbove(k) = Reached(f) \ {j \in Keys : node[j].red}
<1> DEFINE N == 0 .. MaxKey
           IsPath(f) == f = [i \in N |->
               IF i = 0 THEN k ELSE LET x == f[i - 1] IN IF x = nil THEN nil ELSE node[x].parent]
           up == CHOOSE f : IsPath(f)
           g == [x \in Links |-> IF x = nil THEN nil ELSE node[x].parent]
<1>1. BlackAbove(k) = {up[i] : i \in N} \ ({nil} \cup {j \in Keys : node[j].red})
    BY DEF BlackAbove
<1>2. MaxKey \in Nat /\ nil \in Links /\ k \in Links /\ Links = Keys \cup {nil}
    BY TreeIs, KeysAre
<1>3. g \in [Links -> Links]
    <2>1. node \in [Keys -> Nodes]
        BY TypesHold DEF TypeOK, Nodes
    <2>2. \A x \in Keys : node[x].parent \in Links
        BY <2>1 DEF Nodes
    <2>3. QED
        BY <1>2, <2>2
<1>4. PICK f \in [N -> Links] : f[0] = k /\ \A i \in 1 .. MaxKey : f[i] = g[f[i - 1]]
    <2> HIDE DEF g, IsPath, up
    <2>1. \E f : Iterated(f, Links, k, g, MaxKey)
        BY <1>2, <1>3, IteratesExist
    <2>2. QED
        BY <2>1 DEF Iterated
<1>5. IsPath(f)
    <2>1. ASSUME NEW i \in N
          PROVE  f[i] = IF i = 0 THEN k ELSE IF f[i - 1] = nil THEN nil ELSE node[f[i - 1]].parent
        <3>1. CASE i = 0
            BY <1>4, <3>1
        <3>2. CASE i # 0
            <4>1. i \in 1 .. MaxKey /\ i - 1 \in N
                BY <1>2, <3>2
            <4>2. f[i] = g[f[i - 1]] /\ f[i - 1] \in Links
                BY <1>4, <4>1
            <4>3. QED
                BY <3>2, <4>2
        <3>3. QED
            BY <3>1, <3>2
    <2>2. f = [i \in N |-> IF i = 0 THEN k ELSE IF f[i - 1] = nil THEN nil ELSE node[f[i - 1]].parent]
        BY <1>4, <2>1
    <2>3. QED
        BY <2>2
<1>6. IsPath(up)
    <2> HIDE DEF IsPath
    <2>1. QED
        BY <1>5
<1> HIDE DEF up
<1>7. /\ up[0] = k
      /\ \A i \in 1 .. MaxKey : up[i] = IF up[i - 1] = nil THEN nil ELSE node[up[i - 1]].parent
    BY <1>2, <1>6
<1>8. \A i \in N : f[i] = up[i]
    <2>1. \A i \in 1 .. MaxKey : f[i] = IF f[i - 1] = nil THEN nil ELSE node[f[i - 1]].parent
        <3>1. TAKE i \in 1 .. MaxKey
        <3>2. i - 1 \in N
            BY <1>2
        <3>3. f[i] = g[f[i - 1]] /\ f[i - 1] \in Links
            BY <1>4, <3>2
        <3>4. QED
            BY <3>3
    <2>2. f[0] = up[0]
        BY <1>4, <1>7
    <2>3. \A i \in 1 .. MaxKey : f[i - 1] = up[i - 1] => f[i] = up[i]
        BY <1>7, <2>1
    <2> HIDE DEF g, IsPath
    <2> DEFINE B == {i \in N : f[i] = up[i]}
    <2>4. 0 \in B /\ \A i \in 1 .. MaxKey : i - 1 \in B => i \in B
        BY <1>2, <2>2, <2>3
    <2> HIDE DEF B
    <2>5. \A i \in 0 .. MaxKey : i \in B
        BY <1>2, <2>4, SetInduction
    <2>6. QED
        BY <2>5 DEF B
<1>9. WayUp(Tree, k, f)
    <2>1. \A i \in 1 .. MaxKey : f[i] = Upward(Tree, f[i - 1])
        <3>1. TAKE i \in 1 .. MaxKey
        <3>2. i - 1 \in N
            BY <1>2
        <3>3. f[i] = g[f[i - 1]] /\ f[i - 1] \in Links
            BY <1>4, <3>2
        <3>4. Tree.node = node
            BY TreeIs
        <3>5. QED
            BY <3>3, <3>4 DEF Upward
    <2>2. QED
        BY <1>4, <2>1 DEF WayUp
<1> HIDE DEF g, IsPath
<1>10. BlackAbove(k) = Reached(f) \ {j \in Keys : node[j].red}
    <2>1. {up[i] : i \in N} = {f[i] : i \in N}
        BY <1>8
    <2>2. QED
        BY <1>1, <2>1 DEF Reached
<1>11. QED
    BY <1>9, <1>10

\* As many black nodes are above a node, with it, and below it as on any way from
\* the root down.
LEMMA BlackIsConstant ==
    ASSUME NEW S, Holds(S), NEW h, Heights(Tree, S, h, nil), RootAt(Tree, S, nil), NEW k \in S
    PROVE  /\ IsFiniteSet(BlackAbove(k)) /\ Cardinality(BlackAbove(k)) \in Nat /\ h[k] \in Nat
           /\ Cardinality(BlackAbove(k)) + h[k] = h[root] + 1
<1> DEFINE t == Tree
           red == {j \in Keys : node[j].red}
           C(j) == Cardinality(BlackAbove(j))
<1>1. HasShape(t, S) /\ t.root = root /\ t.node = node /\ S \in SUBSET Keys
    BY TreeIs
<1>2. PICK sub : Shape(t, S, sub)
    BY <1>1 DEF HasShape
<1>3. MaxKey \in Nat /\ nil \notin S /\ S \subseteq Links /\ root \in S /\ IsFiniteSet(Keys)
    BY <1>1, Family, KeysAre
<1>4. /\ h \in [Links -> Nat]
      /\ \A a \in S, q \in Sides : h[a] = h[t.node[a][q]] + Counts(t, t.node[a][q], nil)
    BY DEF Heights
<1> HIDE DEF t
<1>5. ASSUME NEW j \in S
      PROVE  \E f : WayUp(t, j, f) /\ BlackAbove(j) = Reached(f) \ red /\ Reached(f) \subseteq S
    <2>1. PICK f : WayUp(t, j, f) /\ BlackAbove(j) = Reached(f) \ red
        BY BlackAboveIs DEF t
    <2>2. Reached(f) \subseteq S
        BY <1>2, <2>1, WayUpIs DEF Reached
    <2>3. QED
        BY <2>1, <2>2
<1>6. \A j \in S : IsFiniteSet(BlackAbove(j)) /\ C(j) \in Nat
    <2>1. \A j \in S : BlackAbove(j) \subseteq Keys
        BY <1>1, <1>5
    <2>2. QED
        BY <1>3, <2>1, FS_Subset, FS_CardinalityType
<1>7. C(root) = 1
    <2>1. PICK f : WayUp(t, root, f) /\ BlackAbove(root) = Reached(f) \ red
        BY <1>3, <1>5
    <2>2. Reached(f) = {root}
        BY <1>1, <1>2, <1>3, <2>1, RootReaches
    <2>3. root \notin red
        BY <1>1, <1>3 DEF RootAt, t
    <2>4. BlackAbove(root) = {root}
        BY <2>1, <2>2, <2>3
    <2>5. QED
        BY <2>4, FS_Singleton
<1>8. ASSUME NEW j \in S, j # root
      PROVE  /\ t.node[j].parent \in S
             /\ C(j) + h[j] = C(t.node[j].parent) + h[t.node[j].parent]
    <2> DEFINE p == t.node[j].parent
    <2>1. p \in S /\ SideOf(t, j) \in Sides /\ t.node[p][SideOf(t, j)] = j
        BY <1>1, <1>8, Family
    <2>2. h[p] = h[j] + Counts(t, j, nil) /\ h[p] \in Nat /\ h[j] \in Nat
        BY <1>3, <1>4, <2>1
    <2> HIDE DEF p
    <2>3. PICK f : WayUp(t, j, f) /\ BlackAbove(j) = Reached(f) \ red
        BY <1>5
    <2>4. PICK g : WayUp(t, p, g) /\ BlackAbove(p) = Reached(g) \ red
        BY <1>5, <2>1
    <2>5. Reached(f) = Reached(g) \cup {j} /\ j \notin Reached(g)
        BY <1>1, <1>2, <1>8, <2>3, <2>4, ChildReaches DEF p
    <2>6. C(j) = C(p) + Counts(t, j, nil)
        <3>1. CASE j \in red
            <4>1. BlackAbove(j) = BlackAbove(p)
                BY <2>3, <2>4, <2>5, <3>1
            <4>2. Counts(t, j, nil) = 0
                BY <1>1, <1>3, <3>1 DEF Counts
            <4>3. QED
                BY <1>6, <2>1, <4>1, <4>2
        <3>2. CASE j \notin red
            <4>1. BlackAbove(j) = BlackAbove(p) \cup {j} /\ j \notin BlackAbove(p)
                BY <2>3, <2>4, <2>5, <3>2
            <4>2. j # nil /\ ~t.node[j].red
                BY <1>1, <1>3, <3>2
            <4>3. Counts(t, j, nil) = 1
                BY <4>2 DEF Counts
            <4>4. IsFiniteSet(BlackAbove(p))
                BY <1>6, <2>1
            <4>5. C(j) = C(p) + 1
                BY <4>1, <4>4, FS_AddElement
            <4>6. QED
                BY <4>3, <4>5
        <3>3. QED
            BY <3>1, <3>2
    <2>7. C(p) \in Nat /\ C(j) \in Nat /\ Counts(t, j, nil) \in Nat
        BY <1>6, <2>1 DEF Counts
    <2> HIDE DEF C
    <2>8. C(j) + h[j] = C(p) + h[p]
        BY <2>2, <2>6, <2>7
    <2>9. QED
        BY <2>1, <2>8 DEF p
<1> HIDE DEF C
<1> DEFINE Fine(j) == C(j) + h[j] = h[root] + 1
           B == {n \in 0 .. MaxKey : \A j \in S : Cardinality(sub[j]) >= MaxKey - n => Fine(j)}
<1>9. Fine(root)
    BY <1>3, <1>4, <1>7
<1>10. ASSUME NEW j \in S, j # root
       PROVE  /\ Cardinality(sub[j]) \in 0 .. MaxKey /\ Cardinality(sub[t.node[j].parent]) \in 0 .. MaxKey
              /\ Cardinality(sub[j]) + 1 <= Cardinality(sub[t.node[j].parent])
    <2>1. Cardinality(sub[j]) + 1 <= Cardinality(sub[t.node[j].parent])
        BY <1>1, <1>2, <1>10, LargerAbove
    <2>2. j \in Links /\ t.node[j].parent \in Links
        BY <1>3, <1>8, <1>10
    <2>3. QED
        BY <1>2, <2>1, <2>2, SubsAreFinite
<1>11. 0 \in B
    <2>1. ASSUME NEW j \in S, Cardinality(sub[j]) >= MaxKey - 0, j # root PROVE FALSE
        BY <1>3, <1>10, <2>1
    <2> HIDE DEF Fine
    <2>2. QED
        BY <1>3, <1>9, <2>1
<1>12. ASSUME NEW n \in 1 .. MaxKey, n - 1 \in B PROVE n \in B
    <2>1. ASSUME NEW j \in S, Cardinality(sub[j]) >= MaxKey - n, j # root PROVE Fine(j)
        <3>1. t.node[j].parent \in S /\ Cardinality(sub[t.node[j].parent]) >= MaxKey - (n - 1)
            BY <1>3, <1>8, <1>10, <2>1
        <3>2. Fine(t.node[j].parent)
            BY <1>12, <3>1
        <3>3. QED
            BY <1>8, <2>1, <3>2
    <2> HIDE DEF Fine
    <2>2. QED
        BY <1>3, <1>9, <2>1
<1> HIDE DEF Fine, B
<1>13. \A n \in 0 .. MaxKey : n \in B
    BY <1>3, <1>11, <1>12, SetInduction
<1>14. Fine(k)
    <2>1. MaxKey \in B
        BY <1>3, <1>13
    <2>2. Cardinality(sub[k]) \in 0 .. MaxKey
        BY <1>2, <1>3, SubsAreFinite
    <2>3. Cardinality(sub[k]) >= MaxKey - MaxKey
        BY <1>3, <2>2
    <2>4. QED
        BY <2>1, <2>3 DEF B
<1>15. C(k) + h[k] = h[root] + 1 /\ h[k] \in Nat
    BY <1>3, <1>4, <1>14 DEF Fine
<1>16. QED
    BY <1>6, <1>15 DEF C

LEMMA BlacksHold ==
    ASSUME NEW S, Holds(S)
    PROVE  Balanced
<1>1. SUFFICES ASSUME fix = "none", ~skewed, NEW j \in Leaves, NEW k \in Leaves
               PROVE  Cardinality(BlackAbove(j)) = Cardinality(BlackAbove(k))
    BY DEF Balanced
<1>2. HasShape(Tree, S) /\ Tree.root = root /\ Tree.node = node
    BY TreeIs
<1>3. RootAt(Tree, S, nil) /\ \E h : Heights(Tree, S, h, nil)
    BY <1>1, TreeIs DEF Holds, Legal, Extra
<1>4. PICK h : Heights(Tree, S, h, nil)
    BY <1>3
<1>5. ASSUME NEW a \in Leaves PROVE a \in S /\ h[a] = 0
    <2>1. a \in Content /\ nil \in {node[a].left, node[a].right}
        BY DEF Leaves
    <2>2. a \in S /\ \E s \in Sides : Tree.node[a][s] = nil
        BY <1>2, <2>1, ContentIs DEF Sides
    <2>3. h[a] = h[nil] + Counts(Tree, nil, nil) /\ h[nil] = 0
        BY <1>4, <2>2 DEF Heights
    <2>4. QED
        BY <2>2, <2>3 DEF Counts
<1>6. \A a \in Leaves : Cardinality(BlackAbove(a)) \in Nat /\ Cardinality(BlackAbove(a)) = h[root] + 1
    <2>1. TAKE a \in Leaves
    <2>2. a \in S /\ h[a] = 0
        BY <1>5
    <2>3. Cardinality(BlackAbove(a)) \in Nat /\ Cardinality(BlackAbove(a)) + h[a] = h[root] + 1
        BY <1>3, <1>4, <2>2, BlackIsConstant
    <2>4. QED
        BY <2>2, <2>3
<1>7. QED
    BY <1>6

\* The tree stays a red-black tree: every link has its way back and the order is
\* kept, no red node has a red child but where a fixup is, and between calls all
\* paths have as many black nodes, until deletions have skewed it: fixupPut and
\* fixupDelete in maps/red_black_tree.go, for any number of keys.
THEOREM TreeStaysLegal == Spec => []TreeIsLegal
<1>1. RInv => TreeIsLegal
    BY TreeHolds, ColorsHold, BlacksHold DEF RInv, TreeIsLegal
<1>2. QED
    BY <1>1, TreeInvariant, PTL

-----------------------------------------------------------------------------
(* The locks of Locked: the inductive invariant                            *)

Changer(t) == call[t].op \in {"Add", "Remove"}
Held == {"inside", "other", "asking", "leaving"}

LockedTyped ==
    /\ LockedTypeOK
    /\ \A t \in Movers : call[t] \in Calls
    /\ \A t \in Joiners : call[t] \in Joins

\* Where each kind of call can be.
Spots ==
    \A t \in Threads :
       /\ call[t].map \in Maps
       /\ pc[t] \in {"other", "asking", "leaving"} => t \in Joiners
       /\ pc[t] = "wait" => Changer(t)

\* What the mutexes hold is what the threads are doing.
Writing == 
    \A m \in Maps, t \in Threads :
       writer[m] = t <=> Changer(t) /\ m = call[t].map /\ pc[t] \in {"wait", "inside"}
Alone == \A t \in Threads : Changer(t) /\ pc[t] = "inside" => readers[call[t].map] = {}
Reading ==
    \A m \in Maps, t \in Threads :
       t \in readers[m] <=>
          /\ ~Changer(t)
          /\ \/ m = call[t].map /\ pc[t] \in Held
             \/ m = call[t].other /\ pc[t] = "asking"
Nesting ==
    \A m \in Maps, t \in Threads :
       t \in nested[m] <=> m = call[t].map /\ m = call[t].other /\ pc[t] = "asking"
Queueing ==
    \A m \in Maps, t \in Threads :
       t \in queued[m] =>
          /\ writer[m] # None /\ ~Changer(t)
          /\ \/ m = call[t].map /\ pc[t] = "start"
             \/ m = call[t].other /\ pc[t] = "other"

\* What a join has put together, and what it has still to ask.
Amid(t) == pc[t] \in {"other", "asking"}
Ending(t) == pc[t] \in {"leaving", "done"}
JoinHolds(t) ==
    /\ Amid(t) => Now(content, t) \in possible[t]
    /\ call[t].op = "Intersection" =>
          /\ Amid(t) => left[t] \subseteq content[call[t].map] /\ left[t] # {}
          /\ Amid(t) \/ Ending(t) => result[t] \subseteq UNION possible[t]
    /\ call[t].op = "Union" /\ ~wraps[call[t].map] =>
          /\ Amid(t) => result[t] = content[call[t].map]
          /\ Ending(t) => result[t] \in possible[t]
Joining == \A t \in Joiners : JoinHolds(t)

Mutexes == Spots /\ Writing /\ Alone /\ Reading /\ Nesting /\ Queueing
LInv == LockedTyped /\ Mutexes /\ Joining

-----------------------------------------------------------------------------
(* Types                                                                   *)

LEMMA Operations ==
    ASSUME LockedTyped
    PROVE  /\ \A t \in Movers : call[t].op \in {"Add", "Remove", "Contains"} /\ call[t].map \in Maps
                               /\ call[t].other = None /\ call[t].key \in Elements
           /\ \A t \in Joiners : call[t].op \in {"Union", "Intersection"} /\ call[t].map \in Maps
                                /\ call[t].other \in Maps
BY LockedAssumption DEF LockedTyped, Calls, Joins

LEMMA NowTyped ==
    ASSUME LockedTyped, NEW c \in [Maps -> SUBSET Elements], NEW t \in Joiners
    PROVE  Now(c, t) \subseteq Elements
<1>1. call[t].map \in Maps /\ call[t].other \in Maps
    BY Operations
<1>2. c[call[t].map] \subseteq Elements /\ c[call[t].other] \subseteq Elements
    BY <1>1
<1>3. QED
    BY <1>2 DEF Now

LEMMA Watched ==
    ASSUME LockedTyped, content' \in [Maps -> SUBSET Elements], Watch(content')
    PROVE  /\ possible' \in [Threads -> SUBSET SUBSET Elements]
           /\ \A t \in Joiners : Amid(t) => Now(content', t) \in possible'[t]
           /\ \A t \in Threads : possible[t] \subseteq possible'[t]
<1>1. \A t \in Joiners : Now(content', t) \in SUBSET Elements
    BY NowTyped
<1>2. possible \in [Threads -> SUBSET SUBSET Elements]
    BY DEF LockedTyped, LockedTypeOK
<1>3. possible' = [t \in Threads |-> IF t \in Joiners /\ pc[t] \notin {"start", "done"}
                                     THEN possible[t] \cup {Now(content', t)} ELSE possible[t]]
    BY DEF Watch
<1>4. \A t \in Threads : possible'[t] \in SUBSET SUBSET Elements /\ possible[t] \subseteq possible'[t]
    BY <1>1, <1>2, <1>3
<1>5. DOMAIN possible' = Threads
    BY <1>3
<1>6. \A t \in Joiners : Amid(t) => Now(content', t) \in possible'[t]
    BY <1>3 DEF Amid, Threads
<1>7. QED
    BY <1>3, <1>4, <1>6

\* What every step keeps, and what the operations of a mutex keep.
LockTyped ==
    /\ readers \in [Maps -> SUBSET Threads] /\ nested \in [Maps -> SUBSET Threads]
    /\ queued \in [Maps -> SUBSET Threads] /\ writer \in [Maps -> Threads \cup {None}]
    /\ pc \in [Threads -> {"start", "wait", "inside", "other", "asking", "leaving", "done"}]
DataTyped ==
    /\ content \in [Maps -> SUBSET Elements]
    /\ result \in [Threads -> SUBSET Elements] /\ left \in [Threads -> SUBSET Elements]
    /\ possible \in [Threads -> SUBSET SUBSET Elements]

LEMMA TypesAreTwo ==
    ASSUME LockedTyped, LockTyped', DataTyped', UNCHANGED <<wraps, call>>
    PROVE  LockedTyped'
BY DEF LockedTyped, LockedTypeOK, LockTyped, DataTyped

LEMMA RLockTyped ==
    ASSUME LockTyped, NEW t \in Threads, NEW m \in Maps, NEW here, NEW next \in {"inside", "asking"},
           RLock(t, m, here, next)
    PROVE  LockTyped'
<1>1. CASE writer[m] = None
    BY <1>1 DEF RLock, LockTyped, Goto
<1>2. CASE writer[m] # None
    BY <1>2 DEF RLock, LockTyped
<1>3. QED
    BY <1>1, <1>2

LEMMA RUnlockTyped ==
    ASSUME LockTyped, NEW t \in Threads, NEW m \in Maps, NEW next \in {"leaving", "other", "done"},
           RUnlock(t, m), Goto(t, next)
    PROVE  LockTyped'
BY DEF RUnlock, LockTyped, Goto

LEMMA UnlockTyped ==
    ASSUME LockTyped, NEW t \in Threads, NEW m \in Maps, Unlock(t, m)
    PROVE  LockTyped'
<1>1. pc' \in [Threads -> {"start", "wait", "inside", "other", "asking", "leaving", "done"}]
    BY DEF Unlock, LockTyped, After
<1>2. QED
    BY <1>1 DEF Unlock, LockTyped

LEMMA TypedStep ==
    ASSUME LockedTyped, [LockedNext]_lockedVars
    PROVE  LockedTyped'
<1>1. LockTyped /\ DataTyped
    BY DEF LockedTyped, LockedTypeOK, LockTyped, DataTyped
<1>2. CASE UNCHANGED lockedVars
    BY <1>2 DEF lockedVars, LockedTyped, LockedTypeOK
<1>3. ASSUME NEW t \in Threads, NEW m \in Maps, Lock(t, m)
      PROVE  LockedTyped'
    <2>1. LockTyped'
        BY <1>1, <1>3 DEF Lock, Announce, Goto, lock, LockTyped
    <2>2. QED
        BY <1>1, <1>3, <2>1, TypesAreTwo DEF Lock, Rest, DataTyped
<1>4. ASSUME NEW t \in Threads, NEW m \in Maps, Write(t, m)
      PROVE  LockedTyped'
    <2>1. t \in Movers
        BY <1>4, Operations DEF Write, Op, Threads
    <2>2. content' \in [Maps -> SUBSET Elements]
        BY <1>1, <1>4, <2>1, Operations DEF Write, DataTyped
    <2>3. QED
        BY <1>1, <1>4, <2>2, Watched, UnlockTyped, TypesAreTwo DEF Write, Rest, DataTyped
<1>5. ASSUME NEW t \in Threads, NEW m \in Maps, Enter(t, m)
      PROVE  LockedTyped'
    BY <1>1, <1>5, RLockTyped, TypesAreTwo DEF Enter, Rest, DataTyped
<1>6. ASSUME NEW t \in Threads, NEW m \in Maps, Read(t, m)
      PROVE  LockedTyped'
    <2>1. t \in Movers
        BY <1>6, Operations DEF Read, Op, Threads
    <2>2. content' \in [Maps -> SUBSET Elements]
        BY <1>1, <1>6, <2>1, Operations DEF Read, DataTyped
    <2>3. QED
        BY <1>1, <1>6, <2>2, Watched, RUnlockTyped, TypesAreTwo DEF Read, Rest, DataTyped
<1>7. ASSUME NEW t \in Threads, NEW m \in Maps, Copy(t, m)
      PROVE  LockedTyped'
    <2>1. LockTyped'
        BY <1>1, <1>7 DEF Copy, Goto, lock, LockTyped
    <2>2. Now(content, t) \in SUBSET Elements
        BY <1>1, <1>7, NowTyped DEF Copy, DataTyped
    <2>3. DataTyped'
        BY <1>1, <1>7, <2>2 DEF Copy, DataTyped
    <2>4. QED
        BY <1>7, <2>1, <2>3, TypesAreTwo DEF Copy, Rest
<1>8. ASSUME NEW t \in Threads, NEW m \in Maps, EnterOther(t, m)
      PROVE  LockedTyped'
    BY <1>1, <1>8, RLockTyped, TypesAreTwo DEF EnterOther, Rest, DataTyped
<1>9. ASSUME NEW t \in Threads, NEW m \in Maps, Snapshot(t, m)
      PROVE  LockedTyped'
    <2>1. DataTyped'
        BY <1>1, <1>9 DEF Snapshot, DataTyped
    <2>2. QED
        BY <1>1, <1>9, <2>1, RUnlockTyped, TypesAreTwo DEF Snapshot, Rest
<1>10. ASSUME NEW t \in Threads, NEW m \in Maps, AskOther(t, m)
       PROVE  LockedTyped'
    <2> PICK k \in left[t] :
          /\ left' = [left EXCEPT ![t] = @ \ {k}]
          /\ content' = [content EXCEPT ![m] = IF Adds(m, k) THEN @ \cup {k} ELSE @]
          /\ result' = [result EXCEPT ![t] = IF k \in content'[m] THEN @ \cup {k} ELSE @]
          /\ Goto(t, IF left[t] = {k} THEN "leaving" ELSE "other")
        BY <1>10 DEF AskOther
    <2>1. k \in Elements
        BY <1>1 DEF DataTyped
    <2>2. content' \in [Maps -> SUBSET Elements]
        BY <1>1, <2>1 DEF DataTyped
    <2>3. DataTyped'
        BY <1>1, <1>10, <2>1, <2>2, Watched DEF AskOther, DataTyped
    <2>4. LockTyped'
        BY <1>1, <1>10, RUnlockTyped DEF AskOther
    <2>5. QED
        BY <1>10, <2>3, <2>4, TypesAreTwo DEF AskOther, Rest
<1>11. ASSUME NEW t \in Threads, NEW m \in Maps, Leave(t, m)
       PROVE  LockedTyped'
    BY <1>1, <1>11, RUnlockTyped, TypesAreTwo DEF Leave, Rest, DataTyped
<1>12. QED
    BY <1>2, <1>3, <1>4, <1>5, <1>6, <1>7, <1>8, <1>9, <1>10, <1>11 DEF LockedNext

-----------------------------------------------------------------------------
(* The initial states                                                      *)

LEMMA LockedInitInv == LockedInit => LInv
<1> SUFFICES ASSUME LockedInit PROVE LInv
    OBVIOUS
<1> USE LockedAssumption
<1>1. LockedTyped
    BY DEF LockedInit, LockedTyped, LockedTypeOK, Threads
<1>2. Mutexes
    <2>1. \A t \in Threads : pc[t] = "start"
        BY DEF LockedInit
    <2>2. \A m \in Maps : readers[m] = {} /\ nested[m] = {} /\ queued[m] = {} /\ writer[m] = None
        BY DEF LockedInit
    <2>3. Spots /\ Writing
        BY <1>1, <2>1, <2>2, Operations DEF Spots, Writing, Threads
    <2>4. Alone /\ Reading
        BY <2>1, <2>2 DEF Alone, Reading, Held
    <2>5. Nesting /\ Queueing
        BY <2>1, <2>2 DEF Nesting, Queueing
    <2>6. QED
        BY <2>3, <2>4, <2>5 DEF Mutexes
<1>3. Joining
    BY DEF LockedInit, Joining, JoinHolds, Amid, Ending, Threads
<1>4. QED
    BY <1>1, <1>2, <1>3 DEF LInv

-----------------------------------------------------------------------------
(* The mutexes                                                             *)

\* A thread that takes a step by which no mutex changes.
LEMMA MoveKeeps ==
    ASSUME LockTyped, Mutexes, UNCHANGED <<call, lock>>, NEW t \in Joiners,
           pc[t] = "inside", ~Changer(t), NEW next \in {"leaving", "other"}, Goto(t, next)
    PROVE  Mutexes'
<1> USE DEF lock
<1>1. pc'[t] = next /\ \A u \in Threads \ {t} : pc'[u] = pc[u]
    BY DEF Goto, LockTyped, Threads
<1>2. \A u \in Threads : Changer(u)' <=> Changer(u)
    BY DEF Changer
<1>3. (Spots /\ Writing /\ Alone)'
    BY <1>1, <1>2 DEF Mutexes, Spots, Writing, Alone, Changer
<1>4. Reading'
    BY <1>1, <1>2 DEF Mutexes, Reading, Held
<1>5. (Nesting /\ Queueing)'
    BY <1>1, <1>2 DEF Mutexes, Nesting, Queueing
<1>6. QED
    BY <1>3, <1>4, <1>5 DEF Mutexes

LEMMA RLockKeeps ==
    ASSUME LockTyped, Mutexes, UNCHANGED call, NEW t \in Threads, NEW m \in Maps, ~Changer(t),
           NEW here, NEW next, RLock(t, m, here, next),
           \/ here = "start" /\ next = "inside" /\ m = call[t].map
           \/ here = "other" /\ next = "asking" /\ m = call[t].other /\ t \in Joiners
    PROVE  Mutexes'
<1>1. \A u \in Threads : Changer(u)' <=> Changer(u)
    BY DEF Changer
<1>2. CASE writer[m] = None
    <2>1. /\ pc'[t] = next /\ \A u \in Threads \ {t} : pc'[u] = pc[u]
          /\ UNCHANGED <<queued, writer>>
        BY <1>2 DEF RLock, Goto, LockTyped
    <2>2. \A n \in Maps, u \in Threads : u \in readers'[n] <=> u \in readers[n] \/ (u = t /\ n = m)
        BY <1>2 DEF RLock, LockTyped
    <2>3. \A n \in Maps, u \in Threads :
             u \in nested'[n] <=> u \in nested[n] \/ (u = t /\ n = m /\ t \in readers[m])
        BY <1>2 DEF RLock, LockTyped
    <2>4. pc[t] = here /\ \A n \in Maps : t \notin queued[n]
        BY <1>2 DEF RLock, Mutexes, Queueing
    <2>5. (Spots /\ Writing)'
        BY <1>1, <2>1, <2>4 DEF Mutexes, Spots, Writing
    <2>6. Alone'
      <3> SUFFICES ASSUME NEW u \in Threads, Changer(u), pc'[u] = "inside"
                   PROVE  readers'[call[u].map] = {}
        BY <1>1 DEF Alone
      <3>1. u # t /\ pc[u] = "inside"
        BY <2>1
      <3>2. readers[call[u].map] = {} 
        BY <3>1 DEF Mutexes, Alone
      <3>3. call[u].map # m
        BY <3>1, <1>2, LockedAssumption DEF Mutexes, Writing
      <3>4. call[u].map \in Maps
        BY DEF Mutexes, Spots
      <3>5. QED
        BY <3>2, <3>3, <3>4, <1>2 DEF RLock, LockTyped
    <2>7. Reading'
        BY <1>1, <2>1, <2>2, <2>4 DEF Mutexes, Reading, Held
    <2>8. Nesting'
        BY <1>1, <2>1, <2>3, <2>4 DEF Mutexes, Nesting, Reading, Held
    <2>9. Queueing'
        BY <1>1, <2>1, <2>4 DEF Mutexes, Queueing
    <2>10. QED
        BY <2>5, <2>6, <2>7, <2>8, <2>9 DEF Mutexes
<1>3. CASE writer[m] # None
    <2>1. UNCHANGED <<pc, readers, nested, writer>> /\ pc[t] = here
        BY <1>3 DEF RLock
    <2>2. \A n \in Maps, u \in Threads : u \in queued'[n] <=> u \in queued[n] \/ (u = t /\ n = m)
        BY <1>3 DEF RLock, LockTyped
    <2>3. (Spots /\ Writing /\ Alone)'
        BY <1>1, <2>1 DEF Mutexes, Spots, Writing, Alone, Changer
    <2>4. (Reading /\ Nesting)'
        BY <1>1, <2>1 DEF Mutexes, Reading, Nesting, Held
    <2>5. Queueing'
        BY <1>1, <1>3, <2>1, <2>2 DEF Mutexes, Queueing
    <2>6. QED
        BY <2>3, <2>4, <2>5 DEF Mutexes
<1>4. QED
    BY <1>2, <1>3

LEMMA RUnlockKeeps ==
    ASSUME LockTyped, Mutexes, UNCHANGED call, NEW t \in Threads, NEW m \in Maps, ~Changer(t),
           NEW next, RUnlock(t, m), Goto(t, next),
           \/ t \in Joiners /\ m = call[t].other /\ pc[t] = "asking" /\ next \in {"other", "leaving"}
           \/ m = call[t].map /\ pc[t] \in {"inside", "leaving"} /\ next = "done"
              /\ ~(m = call[t].other /\ pc[t] = "asking")
    PROVE  Mutexes'
<1>1. \A u \in Threads : Changer(u)' <=> Changer(u)
    BY DEF Changer
<1>2. /\ pc'[t] = next /\ \A u \in Threads \ {t} : pc'[u] = pc[u]
      /\ UNCHANGED <<queued, writer>>
    BY DEF RUnlock, Goto, LockTyped
<1>3. \A n \in Maps, u \in Threads :
         u \in readers'[n] <=> u \in readers[n] /\ ~(u = t /\ n = m /\ t \notin nested[m])
    BY DEF RUnlock, LockTyped
<1>4. \A n \in Maps, u \in Threads : u \in nested'[n] <=> u \in nested[n] /\ ~(u = t /\ n = m)
    BY DEF RUnlock, LockTyped
<1>5. (Spots /\ Writing)'
    BY <1>1, <1>2 DEF Mutexes, Spots, Writing
<1>6. Alone'
  <2> SUFFICES ASSUME NEW u \in Threads, Changer(u), pc'[u] = "inside"
               PROVE  readers'[call[u].map] = {}
    BY <1>1 DEF Alone
  <2>1. u # t /\ pc[u] = "inside"
    BY <1>2
  <2>2. readers[call[u].map] = {} 
    BY <2>1 DEF Mutexes, Alone
  <2>3. call[u].map \in Maps
    BY DEF Mutexes, Spots
  <2>4. QED
    BY <2>2, <2>3 DEF RUnlock, LockTyped
<1>7. Reading'
    BY <1>1, <1>2, <1>3 DEF Mutexes, Reading, Nesting, Held
<1>8. Nesting'
    BY <1>1, <1>2, <1>4 DEF Mutexes, Nesting
<1>9. Queueing'
    BY <1>1, <1>2 DEF Mutexes, Queueing
<1>10. QED
    BY <1>5, <1>6, <1>7, <1>8, <1>9 DEF Mutexes

LEMMA LockKeeps ==
    ASSUME LockTyped, Mutexes, NEW t \in Threads, NEW m \in Maps, Lock(t, m)
    PROVE  Mutexes'
<1>1. /\ Changer(t) /\ m = call[t].map /\ UNCHANGED <<readers, nested, queued>>
      /\ \A u \in Threads : Changer(u)' <=> Changer(u)
      /\ UNCHANGED call
    BY DEF Lock, Announce, lock, Changer, Op, Rest
<1>2. CASE Announce(t, m)
    <2>1. pc[t] = "start" /\ pc'[t] = "wait" /\ \A u \in Threads \ {t} : pc'[u] = pc[u]
        BY <1>2 DEF Announce, Goto, LockTyped
    <2>2. writer[m] = None /\ writer'[m] = t /\ \A n \in Maps \ {m} : writer'[n] = writer[n]
        BY <1>2 DEF Announce, LockTyped
    <2>3. Spots'
        BY <1>1, <2>1 DEF Mutexes, Spots
    <2>4. Writing'
        BY <1>1, <2>1, <2>2, LockedAssumption DEF Mutexes, Writing
    <2>5. Alone'
        BY <1>1, <2>1 DEF Mutexes, Alone
    <2>6. (Reading /\ Nesting)'
        BY <1>1, <2>1 DEF Mutexes, Reading, Nesting, Held
    <2>7. Queueing'
        BY <1>1, <2>1, <2>2, LockedAssumption DEF Mutexes, Queueing
    <2>8. QED
        BY <2>3, <2>4, <2>5, <2>6, <2>7 DEF Mutexes
<1>3. CASE pc[t] = "wait" /\ Locked(t, m) /\ Goto(t, "inside") /\ UNCHANGED lock
    <2>1. pc'[t] = "inside" /\ \A u \in Threads \ {t} : pc'[u] = pc[u]
        BY <1>3 DEF Goto, LockTyped
    <2>2. readers[m] = {} /\ UNCHANGED writer
        BY <1>3 DEF Locked, lock
    <2>3. (Spots /\ Writing)'
        BY <1>1, <1>3, <2>1, <2>2 DEF Mutexes, Spots, Writing
    <2>4. Alone'
        BY <1>1, <2>1, <2>2 DEF Mutexes, Alone
    <2>5. (Reading /\ Nesting)'
        BY <1>1, <1>3, <2>1 DEF Mutexes, Reading, Nesting, Held
    <2>6. Queueing'
        BY <1>1, <1>3, <2>1, <2>2 DEF Mutexes, Queueing
    <2>7. QED
        BY <2>3, <2>4, <2>5, <2>6 DEF Mutexes
<1>4. QED
    BY <1>2, <1>3 DEF Lock

\* The readers that waited hold their locks when the writer has gone.
LEMMA UnlockKeeps ==
    ASSUME LockTyped, Mutexes, UNCHANGED call, NEW t \in Threads, NEW m \in Maps, Changer(t),
           m = call[t].map, pc[t] = "inside", Unlock(t, m)
    PROVE  Mutexes'
<1>1. \A u \in Threads : Changer(u)' <=> Changer(u)
    BY DEF Changer
<1>2. writer[m] = t /\ readers[m] = {}
    BY DEF Mutexes, Writing, Alone
<1>3. /\ pc'[t] = "done"
      /\ \A u \in Threads \ {t} : pc'[u] = IF u \in queued[m] THEN After(u) ELSE pc[u]
    BY DEF Unlock
<1>4. /\ writer'[m] = None /\ readers'[m] = queued[m] /\ queued'[m] = {}
      /\ \A n \in Maps \ {m} : writer'[n] = writer[n] /\ readers'[n] = readers[n]
                                /\ queued'[n] = queued[n]
      /\ UNCHANGED nested
    BY DEF Unlock, LockTyped
<1>5. \A u \in queued[m] : /\ u \in Threads /\ u # t /\ ~Changer(u)
                            /\ \/ m = call[u].map /\ pc[u] = "start" /\ pc'[u] = "inside"
                               \/ m = call[u].other /\ pc[u] = "other" /\ pc'[u] = "asking"
                                  /\ m # call[u].map
  <2> TAKE u \in queued[m]
  <2>1. /\ u \in Threads /\ ~Changer(u)
        /\ \/ m = call[u].map /\ pc[u] = "start"
           \/ m = call[u].other /\ pc[u] = "other"
    BY DEF Mutexes, Queueing, LockTyped
  <2>2. pc[u] = "other" => m # call[u].map
    BY <1>2, <2>1 DEF Mutexes, Reading, Held
  <2>3. QED
    BY <1>3, <2>1, <2>2 DEF After
<1>6. \A u \in Threads \ {t} : u \notin queued[m] => pc'[u] = pc[u]
    BY <1>3
<1>7. Spots'
    BY <1>1, <1>3, <1>5, <1>6 DEF Mutexes, Spots
<1>8. Writing'
    BY <1>1, <1>2, <1>3, <1>4, <1>5, <1>6, LockedAssumption DEF Mutexes, Writing
<1>9. Alone'
  <2> SUFFICES ASSUME NEW u \in Threads, Changer(u), pc'[u] = "inside"
               PROVE  readers'[call[u].map] = {}
    BY <1>1 DEF Alone
  <2>1. u # t /\ pc[u] = "inside"
    BY <1>3, <1>5, <1>6
  <2>2. readers[call[u].map] = {} /\ call[u].map # m
    BY <2>1, <1>2 DEF Mutexes, Alone, Writing
  <2>3. call[u].map \in Maps
    BY DEF Mutexes, Spots
  <2>4. QED
    BY <2>2, <2>3 DEF Unlock, LockTyped
<1>10. Reading'
    BY <1>1, <1>2, <1>3, <1>4, <1>5, <1>6 DEF Mutexes, Reading, Held
<1>11. Nesting'
    BY <1>1, <1>3, <1>4, <1>5, <1>6 DEF Mutexes, Nesting
<1>12. Queueing'
    BY <1>1, <1>2, <1>3, <1>4, <1>5, <1>6 DEF Mutexes, Queueing
<1>13. QED
    BY <1>7, <1>8, <1>9, <1>10, <1>11, <1>12 DEF Mutexes

LEMMA MutexesStep ==
    ASSUME LInv, [LockedNext]_lockedVars
    PROVE  Mutexes'
<1>1. LockTyped /\ Mutexes /\ LockedTyped
    BY DEF LInv, LockedTyped, LockedTypeOK, LockTyped
<1>2. CASE UNCHANGED lockedVars
    BY <1>1, <1>2 DEF lockedVars, Mutexes, Spots, Writing, Alone, Reading, Nesting, Queueing, Changer
<1>3. ASSUME NEW t \in Threads, NEW m \in Maps, Lock(t, m)
      PROVE  Mutexes'
    BY <1>1, <1>3, LockKeeps
<1>4. ASSUME NEW t \in Threads, NEW m \in Maps, Write(t, m)
      PROVE  Mutexes'
    <2>1. Changer(t) /\ m = call[t].map /\ pc[t] = "inside" /\ Unlock(t, m) /\ UNCHANGED call
        BY <1>4 DEF Write, Op, Changer, Rest
    <2>2. QED
        BY <1>1, <2>1, UnlockKeeps
<1>5. ASSUME NEW t \in Threads, NEW m \in Maps, Enter(t, m)
      PROVE  Mutexes'
    <2>1. ~Changer(t) /\ m = call[t].map /\ RLock(t, m, "start", "inside") /\ UNCHANGED call
        BY <1>5 DEF Enter, Op, Changer, Rest
    <2>2. QED
        BY <1>1, <2>1, RLockKeeps
<1>6. ASSUME NEW t \in Threads, NEW m \in Maps, Read(t, m)
      PROVE  Mutexes'
    <2>1. ~Changer(t) /\ m = call[t].map /\ pc[t] = "inside" /\ RUnlock(t, m) /\ Goto(t, "done")
          /\ UNCHANGED call
        BY <1>6 DEF Read, Op, Changer, Rest
    <2>2. QED
        BY <1>1, <2>1, RUnlockKeeps
<1>7. ASSUME NEW t \in Threads, NEW m \in Maps, Copy(t, m)
      PROVE  Mutexes'
    <2>1. t \in Joiners /\ ~Changer(t) /\ pc[t] = "inside" /\ UNCHANGED <<call, lock>>
        BY <1>7 DEF Copy, Op, Changer, Rest
    <2>2. \E next \in {"leaving", "other"} : Goto(t, next)
        BY <1>7 DEF Copy
    <2>3. QED
        BY <1>1, <2>1, <2>2, MoveKeeps
<1>8. ASSUME NEW t \in Threads, NEW m \in Maps, EnterOther(t, m)
      PROVE  Mutexes'
    <2>1. t \in Joiners /\ m = call[t].other /\ RLock(t, m, "other", "asking") /\ UNCHANGED call
        BY <1>8 DEF EnterOther, Rest
    <2>2. ~Changer(t)
        BY <1>1, <2>1, Operations DEF Changer
    <2>3. QED
        BY <1>1, <2>1, <2>2, RLockKeeps
<1>9. ASSUME NEW t \in Threads, NEW m \in Maps, Snapshot(t, m)
      PROVE  Mutexes'
    <2>1. m = call[t].other /\ pc[t] = "asking" /\ ~Changer(t) /\ RUnlock(t, m) /\ Goto(t, "leaving")
          /\ UNCHANGED call
        BY <1>9 DEF Snapshot, Op, Changer, Rest
    <2>2. t \in Joiners
        BY <1>1, <2>1 DEF Mutexes, Spots
    <2>3. QED
        BY <1>1, <2>1, <2>2, RUnlockKeeps
<1>10. ASSUME NEW t \in Threads, NEW m \in Maps, AskOther(t, m)
       PROVE  Mutexes'
    <2>1. m = call[t].other /\ pc[t] = "asking" /\ ~Changer(t) /\ RUnlock(t, m) /\ UNCHANGED call
        BY <1>10 DEF AskOther, Op, Changer, Rest
    <2>2. t \in Joiners
        BY <1>1, <2>1 DEF Mutexes, Spots
    <2>3. \E next \in {"leaving", "other"} : Goto(t, next)
        BY <1>10 DEF AskOther
    <2>4. QED
        BY <1>1, <2>1, <2>2, <2>3, RUnlockKeeps
<1>11. ASSUME NEW t \in Threads, NEW m \in Maps, Leave(t, m)
       PROVE  Mutexes'
    <2>1. t \in Joiners /\ m = call[t].map /\ pc[t] = "leaving" /\ RUnlock(t, m) /\ Goto(t, "done")
          /\ UNCHANGED call
        BY <1>11 DEF Leave, Rest
    <2>2. ~Changer(t)
        BY <1>1, <2>1, Operations DEF Changer
    <2>3. QED
        BY <1>1, <2>1, <2>2, RUnlockKeeps
<1>12. QED
    BY <1>2, <1>3, <1>4, <1>5, <1>6, <1>7, <1>8, <1>9, <1>10, <1>11 DEF LockedNext

-----------------------------------------------------------------------------
(* The joins                                                               *)

\* A join that nothing has happened to but the grant or the release of a lock, while
\* what it has copied stays what it was; a container with defaults may grow.
Unmoved(t) ==
    /\ UNCHANGED <<call, wraps>>
    /\ result'[t] = result[t] /\ left'[t] = left[t] /\ possible[t] \subseteq possible'[t]
    /\ \/ pc'[t] = pc[t]
       \/ pc'[t] = "inside"
       \/ pc[t] = "other" /\ pc'[t] = "asking"
       \/ pc[t] = "leaving" /\ pc'[t] = "done"
    /\ Amid(t) => /\ Now(content, t)' \in possible'[t]
                  /\ content[call[t].map] \subseteq content'[call[t].map]
                  /\ ~wraps[call[t].map] => content'[call[t].map] = content[call[t].map]

LEMMA UnmovedHolds ==
    ASSUME NEW t \in Joiners, JoinHolds(t), Unmoved(t)
    PROVE  JoinHolds(t)'
<1>1. call'[t] = call[t] /\ wraps' = wraps
    BY DEF Unmoved
<1>2. /\ Amid(t)' => Amid(t)
      /\ Ending(t)' => Ending(t)
    BY DEF Unmoved, Amid, Ending
<1>3. Amid(t)' => Now(content, t)' \in possible'[t]
    BY <1>2 DEF Unmoved
<1>4. ASSUME call[t].op = "Intersection", Amid(t)'
      PROVE  left'[t] \subseteq content'[call[t].map] /\ left'[t] # {}
    BY <1>2, <1>4 DEF Unmoved, JoinHolds
<1>5. ASSUME call[t].op = "Intersection", Amid(t)' \/ Ending(t)'
      PROVE  result'[t] \subseteq UNION possible'[t]
    <2>1. result[t] \subseteq UNION possible[t]
        BY <1>2, <1>5 DEF JoinHolds
    <2>2. QED
        BY <2>1 DEF Unmoved
<1>6. ASSUME call[t].op = "Union", ~wraps[call[t].map]
      PROVE  /\ Amid(t)' => result'[t] = content'[call[t].map]
             /\ Ending(t)' => result'[t] \in possible'[t]
    BY <1>2, <1>6 DEF Unmoved, JoinHolds
<1>7. QED
    BY <1>1, <1>3, <1>4, <1>5, <1>6 DEF JoinHolds

\* Steps that change no container and put nothing together.
LEMMA DataStays ==
    ASSUME LInv, UNCHANGED <<call, wraps, content, result, left, possible>>, NEW t \in Joiners,
           \/ pc'[t] = pc[t]
           \/ pc'[t] = "inside"
           \/ pc[t] = "other" /\ pc'[t] = "asking"
           \/ pc[t] = "leaving" /\ pc'[t] = "done"
    PROVE  JoinHolds(t)'
<1>1. JoinHolds(t)
    BY DEF LInv, Joining
<1>2. Now(content, t)' = Now(content, t)
    BY DEF Now
<1>3. Unmoved(t)
    BY <1>1, <1>2 DEF Unmoved, JoinHolds
<1>4. QED
    BY <1>1, <1>3, UnmovedHolds

\* Steps that change the container m, whoever makes them.
LEMMA DataGrows ==
    ASSUME LInv, UNCHANGED <<call, wraps>>, DataTyped', Watch(content'), NEW m \in Maps,
           \A n \in Maps \ {m} : content'[n] = content[n],
           NEW t \in Joiners, result'[t] = result[t], left'[t] = left[t],
           pc'[t] = pc[t] \/ pc'[t] = "inside" \/ (pc[t] = "other" /\ pc'[t] = "asking"),
           Amid(t) /\ m = call[t].map =>
              content[m] \subseteq content'[m] /\ (~wraps[m] => content'[m] = content[m])
    PROVE  JoinHolds(t)'
<1>1. JoinHolds(t) /\ LockedTyped
    BY DEF LInv, Joining
<1>2. call[t].map \in Maps
    BY <1>1, Operations
<1>3. /\ Amid(t) => Now(content', t) \in possible'[t]
      /\ possible[t] \subseteq possible'[t]
    BY <1>1, Watched DEF DataTyped, Threads
<1>4. Now(content, t)' = Now(content', t)
    BY DEF Now
<1>5. Unmoved(t)
    BY <1>2, <1>3, <1>4 DEF Unmoved
<1>6. QED
    BY <1>1, <1>5, UnmovedHolds

LEMMA JoiningStep ==
    ASSUME LInv, [LockedNext]_lockedVars
    PROVE  Joining'
<1>1. LockTyped /\ Mutexes /\ LockedTyped /\ DataTyped /\ DataTyped'
    <2>1. LockedTyped'
        BY TypedStep DEF LInv
    <2>2. QED
        BY <2>1 DEF LInv, LockedTyped, LockedTypeOK, LockTyped, DataTyped
<1> SUFFICES ASSUME NEW u \in Joiners PROVE JoinHolds(u)'
    BY DEF Joining
<1>2. u \in Threads /\ JoinHolds(u) /\ call[u].map \in Maps /\ call[u].other \in Maps
    BY <1>1, Operations DEF LInv, Joining, Threads
<1>3. CASE UNCHANGED lockedVars
    BY <1>3, DataStays DEF lockedVars
<1>4. ASSUME NEW t \in Threads, NEW m \in Maps, Lock(t, m)
      PROVE  JoinHolds(u)'
    <2>1. t # u
        BY <1>1, <1>4, Operations DEF Lock, Op
    <2>2. pc'[u] = pc[u]
        BY <1>1, <1>2, <1>4, <2>1 DEF Lock, Announce, Goto, LockTyped
    <2>3. QED
        BY <1>4, <2>2, DataStays DEF Lock, Rest
<1>5. ASSUME NEW t \in Threads, NEW m \in Maps, Write(t, m)
      PROVE  JoinHolds(u)'
    <2>1. t # u /\ readers[m] = {}
        BY <1>1, <1>5, Operations DEF Write, Op, Mutexes, Alone, Changer
    <2>2. Amid(u) => m # call[u].map
        BY <1>1, <1>2, <2>1, Operations DEF Mutexes, Reading, Held, Amid, Changer
    <2>3. pc'[u] = pc[u] \/ pc'[u] = "inside" \/ (pc[u] = "other" /\ pc'[u] = "asking")
        BY <1>1, <1>2, <1>5, <2>1 DEF Write, Unlock, After, Mutexes, Queueing
    <2>4. \A n \in Maps \ {m} : content'[n] = content[n]
        BY <1>1, <1>5 DEF Write, DataTyped
    <2>5. Watch(content') /\ UNCHANGED <<call, wraps, result, left>>
        BY <1>5 DEF Write, Rest
    <2>6. QED
        BY <1>1, <2>2, <2>3, <2>4, <2>5, DataGrows
<1>6. ASSUME NEW t \in Threads, NEW m \in Maps, Enter(t, m)
      PROVE  JoinHolds(u)'
    <2>1. pc'[u] = pc[u] \/ pc'[u] = "inside"
        BY <1>1, <1>2, <1>6 DEF Enter, RLock, Goto, LockTyped
    <2>2. QED
        BY <1>6, <2>1, DataStays DEF Enter, Rest
<1>7. ASSUME NEW t \in Threads, NEW m \in Maps, Read(t, m)
      PROVE  JoinHolds(u)'
    <2>1. t # u
        BY <1>1, <1>7, Operations DEF Read, Op
    <2>2. pc'[u] = pc[u]
        BY <1>1, <1>2, <1>7, <2>1 DEF Read, Goto, LockTyped
    <2>3. content[m] \subseteq content'[m] /\ (~wraps[m] => content'[m] = content[m])
        BY <1>1, <1>7 DEF Read, Adds, DataTyped
    <2>4. \A n \in Maps \ {m} : content'[n] = content[n]
        BY <1>1, <1>7 DEF Read, DataTyped
    <2>5. Watch(content') /\ UNCHANGED <<call, wraps, result, left>>
        BY <1>7 DEF Read, Rest
    <2>6. QED
        BY <1>1, <2>2, <2>3, <2>4, <2>5, DataGrows
<1>8. ASSUME NEW t \in Threads, NEW m \in Maps, Copy(t, m)
      PROVE  JoinHolds(u)'
    <2>1. CASE u # t
        <3>1. /\ pc'[u] = pc[u] /\ result'[u] = result[u] /\ left'[u] = left[u]
              /\ possible'[u] = possible[u] /\ UNCHANGED <<call, wraps, content>>
            BY <1>1, <1>2, <1>8, <2>1 DEF Copy, Goto, LockTyped, DataTyped, Rest
        <3>2. Now(content, u)' = Now(content, u)
            BY <3>1 DEF Now
        <3>3. Unmoved(u)
            BY <1>2, <3>1, <3>2 DEF Unmoved, JoinHolds
        <3>4. QED
            BY <1>2, <3>3, UnmovedHolds
    <2>2. CASE u = t
        <3>1. m = call[u].map /\ UNCHANGED <<call, wraps, content>> /\ possible'[u] = {Now(content, u)}
            BY <1>1, <1>2, <1>8, <2>2 DEF Copy, Op, Rest, DataTyped
        <3>2. Now(content, u)' = Now(content, u)
            BY <3>1 DEF Now
        <3>3. CASE call[u].op = "Union"
            <4>1. result'[u] = content[m] /\ pc'[u] = "other"
                BY <1>1, <1>2, <1>8, <2>2, <3>3 DEF Copy, Goto, LockTyped, DataTyped
            <4>2. QED
                BY <3>1, <3>2, <3>3, <4>1 DEF JoinHolds, Amid, Ending
        <3>4. CASE call[u].op = "Intersection"
            <4>1. /\ result'[u] = {} /\ left'[u] = content[m]
                  /\ pc'[u] = IF content[m] = {} THEN "leaving" ELSE "other"
                BY <1>1, <1>2, <1>8, <2>2, <3>4 DEF Copy, Goto, LockTyped, DataTyped
            <4>2. QED
                BY <3>1, <3>2, <3>4, <4>1 DEF JoinHolds, Amid, Ending
        <3>5. QED
            BY <1>1, <3>3, <3>4, Operations
    <2>3. QED
        BY <2>1, <2>2
<1>9. ASSUME NEW t \in Threads, NEW m \in Maps, EnterOther(t, m)
      PROVE  JoinHolds(u)'
    <2>1. pc'[u] = pc[u] \/ (pc[u] = "other" /\ pc'[u] = "asking")
        BY <1>1, <1>2, <1>9 DEF EnterOther, RLock, Goto, LockTyped
    <2>2. QED
        BY <1>9, <2>1, DataStays DEF EnterOther, Rest
<1>10. ASSUME NEW t \in Threads, NEW m \in Maps, Snapshot(t, m)
       PROVE  JoinHolds(u)'
    <2>0. UNCHANGED <<call, wraps, content, left, possible>>
        BY <1>10 DEF Snapshot, Rest
    <2>1. CASE u # t
        <3>1. pc'[u] = pc[u] /\ result'[u] = result[u]
            BY <1>1, <1>2, <1>10, <2>1 DEF Snapshot, Goto, LockTyped, DataTyped
        <3>2. Now(content, u)' = Now(content, u)
            BY <2>0 DEF Now
        <3>3. Unmoved(u)
            BY <1>2, <2>0, <3>1, <3>2 DEF Unmoved, JoinHolds
        <3>4. QED
            BY <1>2, <3>3, UnmovedHolds
    <2>2. CASE u = t
        <3>1. /\ call[u].op = "Union" /\ Amid(u) /\ pc'[u] = "leaving"
              /\ result'[u] = result[u] \cup content[call[u].other]
            BY <1>1, <1>2, <1>10, <2>2 DEF Snapshot, Op, Goto, LockTyped, DataTyped, Amid
        <3>2. ~wraps[call[u].map] => result'[u] = Now(content, u)
            BY <1>2, <3>1 DEF JoinHolds, Now
        <3>3. Now(content, u) \in possible[u]
            BY <1>2, <3>1 DEF JoinHolds
        <3>4. QED
            BY <2>0, <3>1, <3>2, <3>3 DEF JoinHolds, Amid, Ending
    <2>3. QED
        BY <2>1, <2>2
<1>11. ASSUME NEW t \in Threads, NEW m \in Maps, AskOther(t, m)
       PROVE  JoinHolds(u)'
    <2> PICK k \in left[t] :
          /\ left' = [left EXCEPT ![t] = @ \ {k}]
          /\ content' = [content EXCEPT ![m] = IF Adds(m, k) THEN @ \cup {k} ELSE @]
          /\ result' = [result EXCEPT ![t] = IF k \in content'[m] THEN @ \cup {k} ELSE @]
          /\ Goto(t, IF left[t] = {k} THEN "leaving" ELSE "other")
        BY <1>11 DEF AskOther
    <2>0. /\ Watch(content') /\ UNCHANGED <<call, wraps>>
          /\ call[t].op = "Intersection" /\ m = call[t].other /\ pc[t] = "asking"
        BY <1>11 DEF AskOther, Rest, Op
    <2>1. content[m] \subseteq content'[m] /\ (~wraps[m] => content'[m] = content[m])
        BY <1>1 DEF Adds, DataTyped
    <2>2. \A n \in Maps \ {m} : content'[n] = content[n]
        BY <1>1 DEF DataTyped
    <2>3. CASE u # t
        <3>1. pc'[u] = pc[u] /\ result'[u] = result[u] /\ left'[u] = left[u]
            BY <1>1, <1>2, <2>3 DEF Goto, LockTyped, DataTyped
        <3>2. QED
            BY <1>1, <2>0, <2>1, <2>2, <3>1, DataGrows
    <2>4. CASE u = t
        <3>1. Amid(u) /\ left[u] \subseteq content[call[u].map] /\ result[u] \subseteq UNION possible[u]
            BY <1>2, <2>0, <2>4 DEF JoinHolds, Amid
        <3>2. content[call[u].map] \subseteq content'[call[u].map]
            BY <1>2, <2>1, <2>2
        <3>3. left'[u] = left[u] \ {k} /\ pc'[u] = IF left[u] = {k} THEN "leaving" ELSE "other"
            BY <1>1, <1>2, <2>4 DEF Goto, LockTyped, DataTyped
        <3>4. Now(content', u) \in possible'[u] /\ possible[u] \subseteq possible'[u]
            BY <1>1, <1>2, <2>0, <3>1, Watched DEF DataTyped
        <3>5. Now(content, u)' = Now(content', u)
            BY <2>0 DEF Now
        <3>6. k \in content'[m] => k \in Now(content', u)
            BY <2>0, <2>4, <3>1, <3>2 DEF Now
        <3>7. result'[u] \subseteq UNION possible'[u]
            <4>1. result'[u] = IF k \in content'[m] THEN result[u] \cup {k} ELSE result[u]
                BY <1>1, <1>2, <2>4 DEF DataTyped
            <4>2. QED
                BY <3>1, <3>4, <3>6, <4>1
        <3>8. Amid(u)' => left'[u] \subseteq content'[call[u].map] /\ left'[u] # {}
            BY <2>4, <3>1, <3>2, <3>3 DEF Amid
        <3>9. QED
            BY <2>0, <2>4, <3>4, <3>5, <3>7, <3>8 DEF JoinHolds
    <2>5. QED
        BY <2>3, <2>4
<1>12. ASSUME NEW t \in Threads, NEW m \in Maps, Leave(t, m)
       PROVE  JoinHolds(u)'
    <2>1. pc'[u] = pc[u] \/ (pc[u] = "leaving" /\ pc'[u] = "done")
        BY <1>1, <1>2, <1>12 DEF Leave, Goto, LockTyped
    <2>2. QED
        BY <1>12, <2>1, DataStays DEF Leave, Rest
<1>13. QED
    BY <1>3, <1>4, <1>5, <1>6, <1>7, <1>8, <1>9, <1>10, <1>11, <1>12 DEF LockedNext

-----------------------------------------------------------------------------
(* What follows from the invariant                                         *)

\* The invariant: the threads hold the locks that the code says they hold, and
\* what a join has put together is true of the moments it has seen.
THEOREM LockedInvariant == LockedSpec => []LInv
<1>1. LInv /\ [LockedNext]_lockedVars => LInv'
    BY TypedStep, MutexesStep, JoiningStep DEF LInv
<1>2. QED
    BY LockedInitInv, <1>1, PTL DEF LockedSpec

LEMMA WritersApart == LInv => WritersAreAlone
<1> SUFFICES ASSUME LInv, NEW m \in Maps, ~wraps[m], NEW t \in Changing(m)
             PROVE  Cardinality(Inside(m)) = 1
    BY DEF WritersAreAlone, OneWriter
<1>1. LockedTyped /\ Mutexes
    BY DEF LInv
<1>2. t \in Threads /\ t \in Inside(m) /\ Changer(t)
    BY DEF Changing, Inside, Adds, Changer
<1>3. m = call[t].map /\ pc[t] = "inside"
    BY <1>1, <1>2, Operations DEF Inside, Mutexes, Spots, Changer, Threads
<1>4. writer[m] = t /\ readers[m] = {}
    BY <1>1, <1>2, <1>3 DEF Mutexes, Writing, Alone
<1>5. ASSUME NEW u \in Inside(m) PROVE u = t
    <2>1. u \in Threads
        BY DEF Inside
    <2>2. CASE ~Changer(u)
        BY <1>1, <1>4, <2>1, <2>2 DEF Inside, Mutexes, Reading, Held
    <2>3. CASE Changer(u)
        <3>1. u \notin Joiners
            BY <1>1, <2>3, Operations DEF Changer
        <3>2. m = call[u].map /\ pc[u] = "inside"
            BY <1>1, <2>1, <3>1 DEF Inside, Mutexes, Spots
        <3>3. QED
            BY <1>1, <1>4, <2>1, <2>3, <3>2 DEF Mutexes, Writing
    <2>4. QED
        BY <2>2, <2>3
<1>6. Inside(m) = {t}
    BY <1>2, <1>5
<1>7. QED
    BY <1>6, FS_Singleton

LEMMA JoinsHold == LInv => JoinsAreTrue
<1> SUFFICES ASSUME LInv, NEW t \in Joiners, Ending(t), ~wraps[call[t].map]
             PROVE  \/ call[t].op = "Union" /\ result[t] \in possible[t]
                    \/ call[t].op = "Intersection" /\ result[t] \subseteq UNION possible[t]
    BY DEF JoinsAreTrue, Ending
<1>1. call[t].op \in {"Union", "Intersection"}
    BY Operations DEF LInv
<1>2. QED
    BY <1>1 DEF LInv, Joining, JoinHolds

\* Whoever waits for a writer to go waits for a thread that waits for readers
\* to go, and a reader waits for nobody but with a lock in its hands.
LEMMA WaitingEnds == LInv => NobodyIsStuck
<1> SUFFICES ASSUME LInv, \A t \in Threads : Waits(t), NEW t \in Threads, pc[t] # "done",
                    \A u \in Joiners : ~(pc[u] = "other" /\ u \in queued[call[u].other])
             PROVE  FALSE
    BY DEF NobodyIsStuck
<1>1. LockTyped /\ Mutexes /\ LockedTyped
    BY DEF LInv, LockedTyped, LockedTypeOK, LockTyped
<1>2. ASSUME NEW m \in Maps, NEW u \in readers[m] PROVE FALSE
    <2>1. u \in Threads /\ ~Changer(u) /\ pc[u] \in Held
        BY <1>1 DEF LockTyped, Mutexes, Reading, Held
    <2>2. PICK n \in Maps : u \in queued[n]
        BY <2>1 DEF Waits, Changer, Held
    <2>3. n = call[u].other /\ pc[u] = "other"
        BY <1>1, <2>1, <2>2 DEF Mutexes, Queueing, Held
    <2>4. u \in Joiners
        BY <1>1, <2>1, <2>3 DEF Mutexes, Spots
    <2>5. QED
        BY <2>2, <2>3, <2>4
<1>3. ASSUME NEW m \in Maps, writer[m] # None PROVE FALSE
    <2> DEFINE w == writer[m]
    <2>1. w \in Threads /\ Changer(w) /\ m = call[w].map /\ pc[w] \in {"wait", "inside"}
        BY <1>1, <1>3 DEF LockTyped, Mutexes, Writing
    <2>2. \A n \in Maps : w \notin queued[n]
        BY <1>1, <2>1 DEF Mutexes, Queueing
    <2>3. readers[m] # {}
        BY <2>1, <2>2 DEF Waits
    <2>4. QED
        BY <1>2, <2>3
<1>4. CASE \E m \in Maps : t \in queued[m]
    BY <1>1, <1>3, <1>4 DEF Mutexes, Queueing
<1>5. CASE pc[t] = "start" /\ writer[call[t].map] # None
    BY <1>1, <1>3, <1>5 DEF Mutexes, Spots
<1>6. CASE pc[t] = "wait" /\ readers[call[t].map] # {}
    BY <1>1, <1>2, <1>6 DEF Mutexes, Spots
<1>7. QED
    BY <1>4, <1>5, <1>6 DEF Waits

\* A thread-safe map or set (maps/thread_safe.go, set/thread_safe.go) is changed by
\* one thread, alone in it, unless it supplies defaults; a Union returns what one
\* moment of its call gives, an Intersection no key that no moment gives; and the
\* only threads that wait for ever are those that ask for the second of two locks.
THEOREM LockedIsSound == LockedSpec => []LockedIsTrue
<1>1. LInv => LockedIsTrue
    BY WritersApart, JoinsHold, WaitingEnds DEF LockedIsTrue, LInv, LockedTyped
<1>2. QED
    BY LockedInvariant, <1>1, PTL

=============================================================================
