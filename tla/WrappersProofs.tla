--------------------------- MODULE WrappersProofs ---------------------------
(***************************************************************************)
(* The layers of Wrappers, for any number of them, of callers and of keys: *)
(* whoever changes the container is alone there, callers wait for each     *)
(* other in a circle only where the code holds a read lock while it calls  *)
(* back, and what a call returns is wrapped as the container is.           *)
(***************************************************************************)
EXTENDS Wrappers, SequenceTheorems, FiniteSetTheorems, NaturalsInduction, TLAPS

-----------------------------------------------------------------------------
(* The inductive invariant                                                 *)

Kinds == {"map", "omap", "set", "oset"}
Layers == {"safe", "default"}
Loops(K, m) == m \in Base(K).all \cup Base(K).some
Held == {"Filter", "FilterNot", "Map", "FlatMap"}

Places == {"enter", "lock", "unlock", "runlock", "copied", "visit", "asked", "added", "cloned", "passed"}

\* The calls of a stack T of layers; those that hold a lock of theirs.
Frames(T) == [m : Methods, l : 1 .. Len(T) + 1, key : Stored, at : Places, found : BOOLEAN, todo : SUBSET Stored]
LayerOf(T, f) == IF f.l = Len(T) + 1 THEN "base" ELSE T[f.l]
LockPlaces == {"lock", "unlock"}
RLockPlaces == {"runlock", "copied"}

\* How far a call can be in each layer, by its method.
Fits(K, T, f) ==
    LET layer == LayerOf(T, f)
    IN  \/ f.at = "enter"
        \/ layer = "safe" /\ f.at \in LockPlaces /\ f.m \in Safe(K).write
        \/ layer = "safe" /\ f.at = "runlock" /\ f.m \notin Safe(K).write \cup Safe(K).copy
        \/ layer = "safe" /\ f.at \in {"copied", "visit"} /\ f.m \in Safe(K).copy
        \/ layer = "base" /\ f.at = "visit" /\ Loops(K, f.m)
        \/ layer = "default" /\ f.at = "asked" /\ f.m \in Default(K).ask \ Default(K).own
        \/ layer = "default" /\ f.at = "added" /\ f.m \in Default(K).ask
        \/ layer = "default" /\ f.at = "cloned" /\ f.m \in Default(K).own
        \/ layer = "default" /\ f.at = "passed"

\* The call g that the call f makes, for the call c of a caller: one of a function
\* that is called back, or one of the next layer.
Makes(K, T, c, f, g) ==
    /\ f.at \notin {"enter", "lock"}
    /\ \/ f.at = "visit" /\ g.l = 1 /\ g.m = c.back /\ ~Loops(K, g.m)
       \/ /\ f.at # "visit" /\ f.l < Len(T) + 1 /\ g.l = f.l + 1
          /\ \/ f.at = "copied" /\ g.m = "Entries"
             \/ f.at = "added" /\ g.m = "Add"
             \/ f.at = "cloned" /\ g.m = "Clone"
             \/ f.at = "passed" /\ f.m \in Default(K).own /\ g.m = "Seq"
             \/ f.at = "passed" /\ f.m \notin Default(K).own /\ g.m = f.m
             \/ f.at \in {"unlock", "runlock", "asked"} /\ g.m = f.m

\* Below a call that loops over nothing, or that copies, every call is in a deeper
\* layer; below any call, unless a function is called back.
Deepens(K, s) ==
    \A i, j \in 1 .. Len(s) : i < j =>
       /\ ~Loops(K, s[i].m) \/ s[i].at = "copied" => ~Loops(K, s[j].m) /\ s[j].l > s[i].l
       /\ s[j].l > s[i].l \/ \E k \in i + 1 .. j : s[k].l = 1

\* What loops is what was called, or the Seq of a default set.
FromCall(K, T, s, c) ==
    \A i \in 1 .. Len(s) : Loops(K, s[i].m) =>
       /\ s[i].m = c.m \/ s[i].m = "Seq"
       /\ K \in {"set", "oset"} /\ T # <<>> /\ T[1] = "default" /\ i > 1 => s[i].m = "Seq"

Stacked(K, T, s, c) ==
    /\ s \in Seq(Frames(T))
    /\ s # <<>> => s[1].l = 1 /\ s[1].m = c.m
    /\ \A i \in 1 .. Len(s) : Fits(K, T, s[i])
    /\ \A i \in 1 .. Len(s) - 1 : Makes(K, T, c, s[i], s[i + 1])
    /\ Deepens(K, s) /\ FromCall(K, T, s, c)

WTyped ==
    /\ sort \in Kinds /\ stack \in Seq(Layers) /\ inside \in SUBSET Stored
    /\ reading \in [1 .. Len(stack) -> [Callers -> Nat]]
    /\ writing \in [1 .. Len(stack) -> Callers \cup {Nobody}]
    /\ calls \in [Callers -> [m : Methods, key : Stored, back : PlainMethods \cup {"none"}]]
    /\ frames \in [Callers -> Seq(Frames(stack))]
    /\ \A t \in Callers : calls[t].back # "none" => ~Loops(sort, calls[t].back)

ReadsAt(s, l) == {i \in 1 .. Len(s) : s[i].l = l /\ s[i].at \in RLockPlaces}
WritesAt(s, l) == {i \in 1 .. Len(s) : s[i].l = l /\ s[i].at \in LockPlaces}

\* What the locks hold is what the calls do.
LocksAgree ==
    \A l \in 1 .. Len(stack), t \in Callers :
       /\ reading[l][t] = Cardinality(ReadsAt(frames[t], l))
       /\ writing[l] = t <=> WritesAt(frames[t], l) # {}
       /\ \A i, j \in WritesAt(frames[t], l) : i = j
       /\ \A i \in WritesAt(frames[t], l) :
             frames[t][i].at = "unlock" => \A u \in Callers : reading[l][u] = 0

WInv == WTyped /\ (\A t \in Callers : Stacked(sort, stack, frames[t], calls[t])) /\ LocksAgree

-----------------------------------------------------------------------------
(* The tables                                                              *)

\* What writes or only asks calls nothing back, what copies does, and what does
\* with the read lock is one of four.
LEMMA Tables ==
    ASSUME NEW K \in Kinds
    PROVE  /\ {"Add", "Remove"} \subseteq Safe(K).write
           /\ \A m \in Safe(K).write \cup Default(K).ask \cup PlainMethods : ~Loops(K, m)
           /\ \A m \in Safe(K).copy : Loops(K, m)
           /\ \A m : Loops(K, m) /\ m \notin Safe(K).copy => m \in Held
           /\ \A m \in Default(K).own : Loops(K, m) /\ m \in {"Filter", "FilterNot"}
           /\ K \in {"set", "oset"} =>
                 /\ \A m : Loops(K, m) => m \in {"Filter", "FilterNot", "Seq"}
                 /\ Default(K).own = {"Filter", "FilterNot"}
<1>1. CASE K = "map"
    BY <1>1 DEF Safe, Default, Base, Loops, PlainMethods, Held, SafeMapCalls, SafeMapCallbacks,
                DefaultMapCalls, DefaultMapCallbacks, HashMapCallbacks, Nothing
<1>2. CASE K = "omap"
    BY <1>2 DEF Safe, Default, Base, Loops, PlainMethods, Held, SafeOrderedMapCalls, SafeOrderedMapCallbacks,
                SafeMapCalls, SafeMapCallbacks, DefaultOrderedMapCalls, DefaultOrderedMapCallbacks,
                DefaultMapCalls, DefaultMapCallbacks, OrderedHashMapCallbacks, HashMapCallbacks, Nothing
<1>3. CASE K = "set"
    BY <1>3 DEF Safe, Default, Base, Loops, PlainMethods, Held, SafeSet, DefaultSet, SetCallbacks
<1>4. CASE K = "oset"
    BY <1>4 DEF Safe, Default, Base, Loops, PlainMethods, Held, SafeOrderedSet, SafeSet, DefaultOrderedSet,
                DefaultSet, OrderedSetCallbacks, SetCallbacks
<1>5. QED
    BY <1>1, <1>2, <1>3, <1>4 DEF Kinds

-----------------------------------------------------------------------------
(* What a step does to the calls of a caller: those of r are the first p   *)
(* ones of s, except that the last one may be at another place             *)

Settled(s, r, p, g) ==
    /\ p \in 1 .. Len(s) /\ Len(r) = p /\ r[p] = g
    /\ \A i \in 1 .. p - 1 : r[i] = s[i]

LEMMA SetIs ==
    ASSUME NEW S, NEW s \in Seq(S), s # <<>>, NEW g \in S
    PROVE  /\ [s EXCEPT ![Len(s)] = g] \in Seq(S)
           /\ Settled(s, [s EXCEPT ![Len(s)] = g], Len(s), g)
           /\ Len(s) \in Nat /\ Len(s) > 0 /\ s[Len(s)] \in S
    BY DEF Settled

LEMMA PopIs ==
    ASSUME NEW S, NEW s \in Seq(S), Len(s) > 1, NEW g \in S
    PROVE  /\ Append(SubSeq(s, 1, Len(s) - 2), g) \in Seq(S)
           /\ Settled(s, Append(SubSeq(s, 1, Len(s) - 2), g), Len(s) - 1, g)
           /\ Len(s) \in Nat /\ s[Len(s) - 1] \in S
<1> DEFINE n == Len(s) - 2  b == SubSeq(s, 1, n)
<1>1. Len(s) \in Nat /\ Len(s) - 1 \in 1 .. Len(s) /\ n \in Nat /\ n \in Int
    <2>1. Len(s) \in Nat
        BY LenProperties
    <2>2. QED
        BY <2>1
<1>2. \A i \in 1 .. n : s[i] \in S
    BY <1>1, ElementOfSeq
<1>3. b \in Seq(S) /\ Len(b) = n /\ \A i \in 1 .. n : b[i] = s[i]
    <2> HIDE DEF n
    <2>1. /\ b \in Seq(S) /\ Len(b) = (IF 1 <= n THEN n - 1 + 1 ELSE 0)
          /\ \A i \in 1 .. n - 1 + 1 : b[i] = s[1 + i - 1]
        BY <1>1, <1>2, SubSeqProperties
    <2>2. QED
        BY <1>1, <2>1
<1> HIDE DEF b
<1>4. /\ Append(b, g) \in Seq(S) /\ Len(Append(b, g)) = n + 1 /\ Append(b, g)[n + 1] = g
      /\ \A i \in 1 .. n : Append(b, g)[i] = b[i]
    BY <1>3, AppendProperties
<1>5. n + 1 = Len(s) - 1 /\ Len(s) - 1 - 1 = n
    BY <1>1
<1>6. s[Len(s) - 1] \in S
    BY <1>1, ElementOfSeq
<1> HIDE DEF n
<1>7. Settled(s, Append(b, g), Len(s) - 1, g)
    BY <1>1, <1>3, <1>4, <1>5 DEF Settled
<1>8. QED
    BY <1>1, <1>4, <1>6, <1>7 DEF b, n

-----------------------------------------------------------------------------
(* The calls of a caller stay as they should be                            *)

LEMMA StackSettles ==
    ASSUME NEW K, NEW T, NEW s, NEW c, Stacked(K, T, s, c),
           NEW r \in Seq(Frames(T)), NEW p, NEW g, Settled(s, r, p, g),
           g.m = s[p].m, g.l = s[p].l, Fits(K, T, g)
    PROVE  Stacked(K, T, r, c)
<1>1. /\ Len(s) \in Nat /\ p \in 1 .. Len(s) /\ Len(r) = p /\ r[p] = g
      /\ \A i \in 1 .. p - 1 : r[i] = s[i]
    BY LenProperties DEF Stacked, Settled
<1>2. \A i \in 1 .. p : r[i].m = s[i].m /\ r[i].l = s[i].l
    BY <1>1
<1>3. \A i \in 1 .. p - 1 : r[i].at = s[i].at
    BY <1>1
<1>4. r # <<>> => r[1].l = 1 /\ r[1].m = c.m
    <2>1. s # <<>> /\ 1 \in 1 .. p
        BY <1>1
    <2>2. QED
        BY <1>2, <2>1 DEF Stacked
<1>5. \A i \in 1 .. Len(r) : Fits(K, T, r[i])
    BY <1>1 DEF Stacked
<1>6. ASSUME NEW i \in 1 .. Len(r) - 1 PROVE Makes(K, T, c, r[i], r[i + 1])
    <2>1. i \in 1 .. Len(s) - 1 /\ i \in 1 .. p - 1 /\ i + 1 \in 1 .. p
        BY <1>1
    <2>2. Makes(K, T, c, s[i], s[i + 1])
        BY <2>1 DEF Stacked
    <2>3. r[i] = s[i] /\ r[i + 1].m = s[i + 1].m /\ r[i + 1].l = s[i + 1].l
        BY <1>1, <1>2, <2>1
    <2>4. QED
        BY <2>2, <2>3 DEF Makes
<1>7. Deepens(K, r)
    <2>1. ASSUME NEW i \in 1 .. p, NEW j \in 1 .. p, i < j
          PROVE  /\ ~Loops(K, r[i].m) \/ r[i].at = "copied" => ~Loops(K, r[j].m) /\ r[j].l > r[i].l
                 /\ r[j].l > r[i].l \/ \E k \in i + 1 .. j : r[k].l = 1
        <3>1. i \in 1 .. Len(s) /\ j \in 1 .. Len(s) /\ i \in 1 .. p - 1
            BY <1>1, <2>1
        <3>2. /\ ~Loops(K, s[i].m) \/ s[i].at = "copied" => ~Loops(K, s[j].m) /\ s[j].l > s[i].l
              /\ s[j].l > s[i].l \/ \E k \in i + 1 .. j : s[k].l = 1
            BY <2>1, <3>1 DEF Stacked, Deepens
        <3>3. \A k \in i + 1 .. j : r[k].l = s[k].l
            BY <1>1, <1>2, <2>1
        <3>4. QED
            BY <1>2, <1>3, <3>1, <3>2, <3>3
    <2>2. QED
        BY <1>1, <2>1 DEF Deepens
<1>8. FromCall(K, T, r, c)
    <2>1. \A i \in 1 .. p : i \in 1 .. Len(s)
        BY <1>1
    <2>2. QED
        BY <1>1, <1>2, <2>1 DEF Stacked, FromCall
<1>9. QED
    BY <1>4, <1>5, <1>6, <1>7, <1>8 DEF Stacked

\* A call that loops over nothing makes one in the next layer that does not, either.
LEMMA QuietGoesDown ==
    ASSUME NEW K \in Kinds, NEW T \in Seq(Layers), NEW c, NEW f \in Frames(T), NEW h \in Frames(T),
           Fits(K, T, f), Makes(K, T, c, f, h)
    PROVE  /\ ~Loops(K, f.m) \/ f.at = "copied" => ~Loops(K, h.m) /\ h.l > f.l
           /\ h.l > f.l \/ h.l = 1
           /\ Loops(K, h.m) => \/ h.m = f.m /\ Loops(K, f.m)
                               \/ h.m = "Seq"
<1>1. f.l \in Nat /\ h.l \in Nat
    <2>1. Len(T) \in Nat
        BY LenProperties
    <2>2. f.l \in 1 .. Len(T) + 1 /\ h.l \in 1 .. Len(T) + 1
        BY DEF Frames
    <2>3. QED
        BY <2>1, <2>2
<1>2. f.at = "visit" => Loops(K, f.m)
    BY Tables DEF Fits, LockPlaces
<1>3. /\ ~Loops(K, "Entries") /\ ~Loops(K, "Add") /\ ~Loops(K, "Clone")
      /\ \A m \in Default(K).own : Loops(K, m)
    BY Tables DEF PlainMethods
<1>4. CASE f.at = "visit" /\ h.l = 1 /\ h.m = c.back /\ ~Loops(K, h.m)
    BY <1>2, <1>4
<1>5. CASE /\ f.at # "visit" /\ f.l < Len(T) + 1 /\ h.l = f.l + 1
           /\ \/ f.at = "copied" /\ h.m = "Entries"
              \/ f.at = "added" /\ h.m = "Add"
              \/ f.at = "cloned" /\ h.m = "Clone"
              \/ f.at = "passed" /\ f.m \in Default(K).own /\ h.m = "Seq"
              \/ f.at = "passed" /\ f.m \notin Default(K).own /\ h.m = f.m
              \/ f.at \in {"unlock", "runlock", "asked"} /\ h.m = f.m
    <2>1. h.l > f.l
        BY <1>1, <1>5
    <2>2. CASE h.m \in {"Entries", "Add", "Clone"}
        BY <1>3, <2>1, <2>2
    <2>3. CASE h.m = f.m /\ f.at # "copied"
        BY <2>1, <2>3
    <2>4. CASE h.m = "Seq" /\ f.at = "passed" /\ f.m \in Default(K).own
        BY <1>3, <2>1, <2>4
    <2>5. QED
        BY <1>5, <2>2, <2>3, <2>4
<1>6. QED
    BY <1>4, <1>5 DEF Makes

\* What the outermost of default sets does with a call that loops ends in a Seq.
LEMMA DefaultSetSeqs ==
    ASSUME NEW K \in {"set", "oset"}, NEW T \in Seq(Layers), NEW c, NEW f \in Frames(T), NEW h \in Frames(T),
           Fits(K, T, f), Makes(K, T, c, f, h), T # <<>>, T[1] = "default", f.l = 1, Loops(K, h.m)
    PROVE  h.m = "Seq"
<1>1. K \in Kinds
    BY DEF Kinds
<1>2. LayerOf(T, f) = "default"
    <2>1. 1 # Len(T) + 1
        BY EmptySeq
    <2>2. QED
        BY <2>1 DEF LayerOf
<1>3. /\ \A m : Loops(K, m) => m \in {"Filter", "FilterNot", "Seq"}
      /\ Default(K).own = {"Filter", "FilterNot"}
      /\ ~Loops(K, "Entries") /\ ~Loops(K, "Add") /\ ~Loops(K, "Clone")
      /\ \A m \in Default(K).ask : ~Loops(K, m)
    BY <1>1, Tables DEF PlainMethods
<1>4. f.at \in {"enter", "asked", "added", "cloned", "passed"} /\ (f.at = "asked" => f.m \in Default(K).ask)
    BY <1>2 DEF Fits
<1>5. QED
    BY <1>3, <1>4 DEF Makes

LEMMA StackPushes ==
    ASSUME NEW K \in Kinds, NEW T \in Seq(Layers), NEW s, NEW c, Stacked(K, T, s, c), s # <<>>,
           NEW h \in Frames(T), h.at = "enter", Makes(K, T, c, s[Len(s)], h)
    PROVE  Stacked(K, T, Append(s, h), c)
<1> DEFINE r == Append(s, h)  n == Len(s)  f == s[n]
<1>1. s \in Seq(Frames(T)) /\ n \in Nat /\ n > 0 /\ n \in 1 .. n
    <2>1. s \in Seq(Frames(T))
        BY DEF Stacked
    <2>2. n \in Nat \ {0}
        BY <2>1, EmptySeq
    <2>3. QED
        BY <2>1, <2>2
<1>2. /\ r \in Seq(Frames(T)) /\ r # <<>> /\ Len(r) = n + 1 /\ r[n + 1] = h
      /\ \A i \in 1 .. n : r[i] = s[i]
    BY <1>1, AppendProperties
<1>3. f \in Frames(T) /\ Fits(K, T, f) /\ Makes(K, T, c, f, h)
    BY <1>1, ElementOfSeq DEF Stacked
<1>4. /\ ~Loops(K, f.m) \/ f.at = "copied" => ~Loops(K, h.m) /\ h.l > f.l
      /\ h.l > f.l \/ h.l = 1
      /\ Loops(K, h.m) => \/ h.m = f.m /\ Loops(K, f.m)
                          \/ h.m = "Seq"
    BY <1>3, QuietGoesDown
<1>5. \A i \in 1 .. n : s[i].l \in Nat
    <2>1. Len(T) \in Nat
        BY LenProperties
    <2>2. \A i \in 1 .. n : s[i] \in Frames(T)
        BY <1>1, ElementOfSeq
    <2>3. QED
        BY <2>1, <2>2 DEF Frames
<1>6. h.l \in Nat
    <2>1. Len(T) \in Nat
        BY LenProperties
    <2>2. QED
        BY <2>1 DEF Frames
<1> HIDE DEF r, n, f
<1>7. r[1].l = 1 /\ r[1].m = c.m
    <2>1. 1 \in 1 .. n
        BY <1>1
    <2>2. r[1] = s[1]
        BY <1>2, <2>1
    <2>3. QED
        BY <2>2 DEF Stacked
<1>8. ASSUME NEW i \in 1 .. Len(r) PROVE Fits(K, T, r[i])
    <2>1. CASE i \in 1 .. n
        BY <1>2, <2>1 DEF Stacked, n
    <2>2. CASE i = n + 1
        BY <1>2, <2>2 DEF Fits
    <2>3. QED
        BY <1>1, <1>2, <2>1, <2>2
<1>9. ASSUME NEW i \in 1 .. Len(r) - 1 PROVE Makes(K, T, c, r[i], r[i + 1])
    <2>1. CASE i = n
        BY <1>1, <1>2, <1>3, <2>1 DEF f
    <2>2. CASE i # n
        <3>1. i \in 1 .. n - 1 /\ i \in 1 .. n /\ i + 1 \in 1 .. n
            BY <1>1, <1>2, <2>2
        <3>2. Makes(K, T, c, s[i], s[i + 1])
            BY <3>1 DEF Stacked, n
        <3>3. QED
            BY <1>2, <3>1, <3>2
    <2>3. QED
        BY <2>1, <2>2
<1>10. Deepens(K, r)
    <2>1. ASSUME NEW i \in 1 .. n + 1, NEW j \in 1 .. n + 1, i < j
          PROVE  /\ ~Loops(K, r[i].m) \/ r[i].at = "copied" => ~Loops(K, r[j].m) /\ r[j].l > r[i].l
                 /\ r[j].l > r[i].l \/ \E k \in i + 1 .. j : r[k].l = 1
        <3>1. \A a, b \in 1 .. n : a < b =>
                 /\ ~Loops(K, s[a].m) \/ s[a].at = "copied" => ~Loops(K, s[b].m) /\ s[b].l > s[a].l
                 /\ s[b].l > s[a].l \/ \E k \in a + 1 .. b : s[k].l = 1
            BY DEF Stacked, Deepens, n
        <3>2. i \in 1 .. n /\ r[i] = s[i]
            BY <1>1, <1>2, <2>1
        <3>3. CASE j \in 1 .. n
            <4>1. /\ ~Loops(K, s[i].m) \/ s[i].at = "copied" => ~Loops(K, s[j].m) /\ s[j].l > s[i].l
                  /\ s[j].l > s[i].l \/ \E k \in i + 1 .. j : s[k].l = 1
                BY <2>1, <3>1, <3>2, <3>3
            <4>2. \A k \in i + 1 .. j : k \in 1 .. n
                BY <1>1, <3>2, <3>3
            <4>3. r[j] = s[j] /\ \A k \in i + 1 .. j : r[k] = s[k]
                BY <1>2, <3>3, <4>2
            <4>4. QED
                BY <3>2, <4>1, <4>3
        <3>4. CASE j = n + 1
            <4>0. r[j] = h /\ j \in i + 1 .. j
                BY <1>1, <1>2, <3>2, <3>4
            <4>1. CASE i = n
                <5>1. r[i] = f
                    BY <3>2, <4>1 DEF f
                <5>2. QED
                    BY <1>4, <4>0, <5>1
            <4>2. CASE i # n
                <5>1. i < n /\ n \in 1 .. n /\ s[n] = f
                    BY <1>1, <3>2, <4>2 DEF f
                <5>2. /\ ~Loops(K, s[i].m) \/ s[i].at = "copied" => ~Loops(K, f.m) /\ f.l > s[i].l
                      /\ f.l > s[i].l \/ \E k \in i + 1 .. n : s[k].l = 1
                    BY <3>1, <3>2, <5>1
                <5>3. s[i].l \in Nat /\ f.l \in Nat /\ h.l \in Nat
                    BY <1>5, <1>6, <3>2, <5>1
                <5>4. ASSUME NEW k \in i + 1 .. n, s[k].l = 1 PROVE \E b \in i + 1 .. j : r[b].l = 1
                    <6>1. k \in 1 .. n /\ k \in i + 1 .. j
                        BY <1>1, <3>2, <3>4
                    <6>2. r[k].l = 1
                        BY <1>2, <5>4, <6>1
                    <6>3. QED
                        BY <6>1, <6>2
                <5>5. ~Loops(K, s[i].m) \/ s[i].at = "copied" => ~Loops(K, h.m) /\ h.l > s[i].l
                    BY <1>4, <5>2, <5>3
                <5>6. h.l > s[i].l \/ \E b \in i + 1 .. j : r[b].l = 1
                    <6>1. CASE h.l = 1
                        BY <4>0, <6>1
                    <6>2. CASE h.l > f.l /\ f.l > s[i].l
                        BY <5>3, <6>2
                    <6>3. QED
                        BY <1>4, <5>2, <5>4, <6>1, <6>2
                <5>7. QED
                    BY <3>2, <4>0, <5>5, <5>6
            <4>3. QED
                BY <4>1, <4>2
        <3>5. QED
            BY <1>1, <3>3, <3>4
    <2>2. QED
        BY <1>2, <2>1 DEF Deepens
<1>11. FromCall(K, T, r, c)
    <2>1. ASSUME NEW i \in 1 .. n + 1, Loops(K, r[i].m)
          PROVE  /\ r[i].m = c.m \/ r[i].m = "Seq"
                 /\ K \in {"set", "oset"} /\ T # <<>> /\ T[1] = "default" /\ i > 1 => r[i].m = "Seq"
        <3>1. \A a \in 1 .. n : Loops(K, s[a].m) =>
                 /\ s[a].m = c.m \/ s[a].m = "Seq"
                 /\ K \in {"set", "oset"} /\ T # <<>> /\ T[1] = "default" /\ a > 1 => s[a].m = "Seq"
            BY DEF Stacked, FromCall, n
        <3>2. CASE i \in 1 .. n
            <4>1. r[i] = s[i]
                BY <1>2, <3>2
            <4>2. QED
                BY <2>1, <3>1, <3>2, <4>1
        <3>3. CASE i = n + 1
            <4>0. r[i] = h /\ s[n] = f /\ n \in 1 .. n
                BY <1>1, <1>2, <3>3 DEF f
            <4>1. h.m = "Seq" \/ (h.m = f.m /\ Loops(K, f.m))
                BY <1>4, <2>1, <4>0
            <4>2. h.m = c.m \/ h.m = "Seq"
                BY <3>1, <4>0, <4>1
            <4>3. ASSUME K \in {"set", "oset"}, T # <<>>, T[1] = "default" PROVE h.m = "Seq"
                <5>1. CASE n > 1
                    BY <3>1, <4>0, <4>1, <4>3, <5>1
                <5>2. CASE n = 1
                    <6>1. f = s[1] /\ s # <<>>
                        BY <4>0, <5>2
                    <6>2. f.l = 1
                        BY <6>1 DEF Stacked
                    <6>3. QED
                        BY <1>3, <2>1, <4>0, <4>3, <6>2, DefaultSetSeqs
                <5>3. QED
                    BY <1>1, <5>1, <5>2
            <4>4. QED
                BY <4>0, <4>2, <4>3
        <3>4. QED
            BY <1>1, <3>2, <3>3
    <2>2. QED
        BY <1>2, <2>1 DEF FromCall
<1>12. QED
    BY <1>2, <1>7, <1>8, <1>9, <1>10, <1>11 DEF Stacked, r

-----------------------------------------------------------------------------
(* The three ways in which a step changes the calls of a caller            *)

\* The locks that the calls r stand for are those of s, but for the innermost
\* call of s, which has got to a, or is gone.
Marked(s, r, a) ==
    LET n == Len(s)
    IN  \A l : /\ ReadsAt(r, l) = IF s[n].l = l /\ a \in RLockPlaces THEN ReadsAt(s, l) \cup {n}
                                  ELSE ReadsAt(s, l) \ {n}
               /\ WritesAt(r, l) = IF s[n].l = l /\ a \in LockPlaces THEN WritesAt(s, l) \cup {n}
                                   ELSE WritesAt(s, l) \ {n}
               /\ \A i \in WritesAt(r, l) : r[i].at = IF i = n THEN a ELSE s[i].at

LEMMA SetKeeps ==
    ASSUME NEW K, NEW T, NEW s, NEW c, Stacked(K, T, s, c), s # <<>>,
           NEW g \in Frames(T), g.m = s[Len(s)].m, g.l = s[Len(s)].l, Fits(K, T, g)
    PROVE  LET r == [s EXCEPT ![Len(s)] = g]
           IN  Stacked(K, T, r, c) /\ Marked(s, r, g.at) /\ r # <<>> /\ Len(r) = Len(s) /\ r[Len(r)] = g
<1> DEFINE r == [s EXCEPT ![Len(s)] = g]  n == Len(s)
<1>1. s \in Seq(Frames(T))
    BY DEF Stacked
<1>2. r \in Seq(Frames(T)) /\ Settled(s, r, n, g) /\ n \in Nat /\ n > 0
    BY <1>1, SetIs
<1> HIDE DEF r, n
<1>3. /\ Len(r) = n /\ r[n] = g /\ (\A i \in 1 .. n - 1 : r[i] = s[i]) /\ n \in 1 .. n
    BY <1>2 DEF Settled, n
<1>4. Stacked(K, T, r, c)
    BY <1>2, StackSettles DEF n
<1>5. \A i \in 1 .. n : i # n => i \in 1 .. n - 1
    BY <1>2
<1>6. ASSUME NEW l
      PROVE  /\ ReadsAt(r, l) = IF s[n].l = l /\ g.at \in RLockPlaces THEN ReadsAt(s, l) \cup {n}
                                ELSE ReadsAt(s, l) \ {n}
             /\ WritesAt(r, l) = IF s[n].l = l /\ g.at \in LockPlaces THEN WritesAt(s, l) \cup {n}
                                 ELSE WritesAt(s, l) \ {n}
             /\ \A i \in WritesAt(r, l) : r[i].at = IF i = n THEN g.at ELSE s[i].at
    <2>1. /\ ReadsAt(r, l) = {i \in 1 .. n : r[i].l = l /\ r[i].at \in RLockPlaces}
          /\ ReadsAt(s, l) = {i \in 1 .. n : s[i].l = l /\ s[i].at \in RLockPlaces}
          /\ WritesAt(r, l) = {i \in 1 .. n : r[i].l = l /\ r[i].at \in LockPlaces}
          /\ WritesAt(s, l) = {i \in 1 .. n : s[i].l = l /\ s[i].at \in LockPlaces}
        BY <1>3 DEF ReadsAt, WritesAt, n
    <2>2. r[n].l = s[n].l /\ r[n].at = g.at
        BY <1>3 DEF n
    <2>3. QED
        BY <1>3, <1>5, <2>1, <2>2
<1>7. Marked(s, r, g.at)
    BY <1>6 DEF Marked, n
<1>8. r # <<>>
    BY <1>2, <1>3
<1>9. QED
    BY <1>3, <1>4, <1>7, <1>8 DEF r, n

LEMMA PushKeeps ==
    ASSUME NEW K \in Kinds, NEW T \in Seq(Layers), NEW s, NEW c, Stacked(K, T, s, c), s # <<>>,
           NEW g \in Frames(T), g.m = s[Len(s)].m, g.l = s[Len(s)].l, Fits(K, T, g),
           NEW h \in Frames(T), h.at = "enter", Makes(K, T, c, g, h)
    PROVE  LET r == Append([s EXCEPT ![Len(s)] = g], h)
           IN  Stacked(K, T, r, c) /\ Marked(s, r, g.at)
<1> DEFINE q == [s EXCEPT ![Len(s)] = g]  r == Append(q, h)  n == Len(s)
<1>1. Stacked(K, T, q, c) /\ Marked(s, q, g.at) /\ q # <<>> /\ Len(q) = n /\ q[Len(q)] = g
    BY SetKeeps
<1> HIDE DEF q
<1>2. Stacked(K, T, r, c)
    BY <1>1, StackPushes
<1>3. q \in Seq(Frames(T)) /\ n \in Nat
    <2>1. q \in Seq(Frames(T))
        BY <1>1 DEF Stacked
    <2>2. QED
        BY <1>1, <2>1, LenProperties
<1>4. Len(r) = n + 1 /\ r[n + 1] = h /\ \A i \in 1 .. n : r[i] = q[i]
    BY <1>1, <1>3, AppendProperties
<1> HIDE DEF r, n
<1>5. ASSUME NEW l PROVE ReadsAt(r, l) = ReadsAt(q, l) /\ WritesAt(r, l) = WritesAt(q, l)
    <2>1. h.at \notin RLockPlaces \cup LockPlaces
        BY DEF RLockPlaces, LockPlaces
    <2>2. 1 .. n + 1 = (1 .. n) \cup {n + 1}
        BY <1>3
    <2>3. QED
        BY <1>1, <1>4, <2>1, <2>2 DEF ReadsAt, WritesAt
<1>6. ASSUME NEW l, NEW i \in WritesAt(q, l) PROVE r[i].at = q[i].at
    <2>1. i \in 1 .. n
        BY <1>1 DEF WritesAt
    <2>2. QED
        BY <1>4, <2>1
<1>7. Marked(s, r, g.at)
    BY <1>1, <1>5, <1>6 DEF Marked
<1>8. QED
    BY <1>2, <1>7 DEF r, q

\* What Return makes of the calls of a caller.
Returned(s, found, entries) ==
    LET n == Len(s)
        below == s[n - 1]
        told == [below EXCEPT !.found = found,
                              !.todo = IF below.m = "Entries" \/ below.at = "copied" THEN entries ELSE @]
    IN  IF n = 1 THEN <<>> ELSE Append(SubSeq(s, 1, n - 2), told)

LEMMA ReturnKeeps ==
    ASSUME NEW K, NEW T, NEW s, NEW c, Stacked(K, T, s, c), s # <<>>,
           NEW found \in BOOLEAN, NEW entries \in SUBSET Stored
    PROVE  LET r == Returned(s, found, entries)
           IN  Stacked(K, T, r, c) /\ Marked(s, r, "gone")
<1> DEFINE r == Returned(s, found, entries)  n == Len(s)  below == s[n - 1]
           told == [below EXCEPT !.found = found,
                                 !.todo = IF below.m = "Entries" \/ below.at = "copied" THEN entries ELSE @]
<1>1. s \in Seq(Frames(T)) /\ n \in Nat \ {0}
    <2>1. s \in Seq(Frames(T))
        BY DEF Stacked
    <2>2. QED
        BY <2>1, EmptySeq
<1>2. "gone" \notin RLockPlaces \cup LockPlaces
    BY DEF RLockPlaces, LockPlaces
<1>3. CASE n = 1
    <2>1. r = <<>>
        BY <1>3 DEF Returned
    <2>2. Len(<<>>) = 0 /\ <<>> \in Seq(Frames(T))
        BY EmptySeq
    <2>3. Stacked(K, T, <<>>, c)
        BY <2>2 DEF Stacked, Deepens, FromCall
    <2>4. ASSUME NEW l PROVE /\ ReadsAt(<<>>, l) = {} /\ WritesAt(<<>>, l) = {}
                             /\ ReadsAt(s, l) \ {n} = {} /\ WritesAt(s, l) \ {n} = {}
        BY <1>3, <2>2 DEF ReadsAt, WritesAt
    <2>5. Marked(s, <<>>, "gone")
        BY <1>2, <2>4 DEF Marked
    <2>6. QED
        BY <2>1, <2>3, <2>5
<1>4. CASE n # 1
    <2>1. n > 1 /\ below \in Frames(T) /\ n - 1 \in 1 .. n
        <3>1. n > 1 /\ n - 1 \in 1 .. n
            <4> HIDE DEF n
            <4>1. QED
                BY <1>1, <1>4
        <3>2. QED
            BY <1>1, <3>1, ElementOfSeq
    <2>2. told \in Frames(T) /\ told.m = below.m /\ told.l = below.l /\ told.at = below.at
        BY <2>1 DEF Frames
    <2>3. r = Append(SubSeq(s, 1, n - 2), told)
        BY <1>4 DEF Returned
    <2> HIDE DEF told
    <2>4. r \in Seq(Frames(T)) /\ Settled(s, r, n - 1, told)
        BY <1>1, <2>1, <2>2, <2>3, PopIs
    <2> HIDE DEF r
    <2>5. Fits(K, T, told)
        <3>1. Fits(K, T, below)
            BY <2>1 DEF Stacked
        <3>2. QED
            BY <2>2, <3>1 DEF Fits, LayerOf
    <2>6. Stacked(K, T, r, c)
        BY <2>2, <2>4, <2>5, StackSettles
    <2>7. Len(r) = n - 1 /\ r[n - 1] = told /\ \A i \in 1 .. n - 1 - 1 : r[i] = s[i]
        BY <2>4 DEF Settled
    <2>8. \A i \in 1 .. n - 1 : r[i].l = s[i].l /\ r[i].at = s[i].at
        <3>1. \A i \in 1 .. n - 1 : i = n - 1 \/ i \in 1 .. n - 1 - 1
            BY <1>1
        <3>2. QED
            BY <2>2, <2>7, <3>1
    <2>9. ASSUME NEW l
          PROVE  /\ ReadsAt(r, l) = ReadsAt(s, l) \ {n} /\ WritesAt(r, l) = WritesAt(s, l) \ {n}
                 /\ \A i \in WritesAt(r, l) : i # n /\ r[i].at = s[i].at
        <3>1. 1 .. n = (1 .. n - 1) \cup {n} /\ n \notin 1 .. n - 1
            BY <1>1, <2>1
        <3>2. QED
            BY <2>7, <2>8, <3>1 DEF ReadsAt, WritesAt
    <2>10. Marked(s, r, "gone")
        BY <1>2, <2>9 DEF Marked
    <2>11. QED
        BY <2>6, <2>10 DEF r
<1>5. QED
    BY <1>3, <1>4

-----------------------------------------------------------------------------
(* What a step does to the locks                                           *)

LEMMA InnermostIs ==
    ASSUME NEW T, NEW s \in Seq(Frames(T)), s # <<>>, NEW l
    PROVE  /\ Len(s) \in ReadsAt(s, l) <=> s[Len(s)].l = l /\ s[Len(s)].at \in RLockPlaces
           /\ Len(s) \in WritesAt(s, l) <=> s[Len(s)].l = l /\ s[Len(s)].at \in LockPlaces
           /\ IsFiniteSet(ReadsAt(s, l))
<1>1. Len(s) \in Nat \ {0} /\ Len(s) \in 1 .. Len(s)
    <2>1. Len(s) \in Nat \ {0}
        BY EmptySeq
    <2>2. QED
        BY <2>1
<1>2. IsFiniteSet(1 .. Len(s))
    BY <1>1, FS_Interval
<1>3. ReadsAt(s, l) \subseteq 1 .. Len(s)
    BY DEF ReadsAt
<1>4. IsFiniteSet(ReadsAt(s, l))
    BY <1>2, <1>3, FS_Subset
<1>5. QED
    BY <1>1, <1>4 DEF ReadsAt, WritesAt

\* A step changes the calls of one caller, and of the locks those of one layer.
Moves(t, r) ==
    /\ UNCHANGED shape /\ inside' \in SUBSET Stored
    /\ frames' = [frames EXCEPT ![t] = r]
    /\ Stacked(sort, stack, r, calls[t])

\* What the locks of a layer are said to be, with the numbers rd of read locks,
\* the caller w that writes, and the calls F of all callers.
Agrees(rd, w, F, l) ==
    \A u \in Callers :
       /\ rd[u] = Cardinality(ReadsAt(F[u], l))
       /\ w = u <=> WritesAt(F[u], l) # {}
       /\ \A i, j \in WritesAt(F[u], l) : i = j
       /\ \A i \in WritesAt(F[u], l) : F[u][i].at = "unlock" => \A x \in Callers : rd[x] = 0

LEMMA LocksAgreeIs ==
    LocksAgree <=> \A l \in 1 .. Len(stack) : Agrees(reading[l], writing[l], frames, l)
    BY DEF LocksAgree, Agrees

LEMMA CallsMove ==
    ASSUME WInv, NEW t \in Callers, NEW r, Moves(t, r),
           reading' \in [1 .. Len(stack) -> [Callers -> Nat]],
           writing' \in [1 .. Len(stack) -> Callers \cup {Nobody}],
           \A l \in 1 .. Len(stack) : Agrees(reading'[l], writing'[l], frames', l)
    PROVE  WInv'
<1>1. /\ frames \in [Callers -> Seq(Frames(stack))] /\ r \in Seq(Frames(stack))
      /\ sort' = sort /\ stack' = stack /\ calls' = calls
    BY DEF WInv, WTyped, Moves, Stacked, shape
<1>2. frames'[t] = r /\ \A u \in Callers : u # t => frames'[u] = frames[u]
    BY <1>1 DEF Moves
<1>3. WTyped'
    <2>1. frames' \in [Callers -> Seq(Frames(stack))]
        BY <1>1 DEF Moves
    <2>2. QED
        BY <1>1, <2>1 DEF WInv, WTyped, Moves, Frames
<1>4. ASSUME NEW u \in Callers PROVE Stacked(sort, stack, frames'[u], calls[u])
    <2>1. CASE u = t
        BY <1>2, <2>1 DEF Moves
    <2>2. CASE u # t
        BY <1>2, <2>2 DEF WInv
    <2>3. QED
        BY <2>1, <2>2
<1>5. \A u \in Callers : Stacked(sort', stack', frames'[u], calls'[u])
    BY <1>1, <1>4
<1>6. LocksAgree'
    BY <1>1 DEF LocksAgree, Agrees
<1>7. \A u \in Callers : Stacked(sort, stack, frames[u], calls[u])'
    BY <1>5 DEF Stacked, Makes, Deepens, FromCall, Fits, Frames, LayerOf
<1>8. QED
    BY <1>3, <1>6, <1>7 DEF WInv

\* The calls of t change, the innermost one gets to a: what is said of a layer ...
Turn(F, t, r, a, G) ==
    /\ \E T : F[t] \in Seq(Frames(T))
    /\ F[t] # <<>> /\ Marked(F[t], r, a)
    /\ G[t] = r /\ \A u \in Callers : u # t => G[u] = F[u]

\* ... remains true if nothing is taken there and nothing given back, ...
LEMMA AgreesStay ==
    ASSUME NEW F, NEW t \in Callers, NEW r, NEW a, NEW G, Turn(F, t, r, a, G),
           NEW l, NEW rd, NEW w, Agrees(rd, w, F, l),
           LET f == F[t][Len(F[t])]
           IN  f.l = l => /\ f.at \in RLockPlaces <=> a \in RLockPlaces
                          /\ f.at \in LockPlaces <=> a \in LockPlaces
                          /\ a = "unlock" => \A x \in Callers : rd[x] = 0
    PROVE  Agrees(rd, w, G, l)
<1> DEFINE s == F[t]  n == Len(s)
<1>0. /\ ReadsAt(r, l) = IF s[n].l = l /\ a \in RLockPlaces THEN ReadsAt(s, l) \cup {n}
                         ELSE ReadsAt(s, l) \ {n}
      /\ WritesAt(r, l) = IF s[n].l = l /\ a \in LockPlaces THEN WritesAt(s, l) \cup {n}
                          ELSE WritesAt(s, l) \ {n}
      /\ \A i \in WritesAt(r, l) : r[i].at = IF i = n THEN a ELSE s[i].at
    BY DEF Turn, Marked
<1>1. /\ n \in ReadsAt(s, l) <=> s[n].l = l /\ s[n].at \in RLockPlaces
      /\ n \in WritesAt(s, l) <=> s[n].l = l /\ s[n].at \in LockPlaces
    BY InnermostIs DEF Turn
<1>2. ReadsAt(r, l) = ReadsAt(s, l) /\ WritesAt(r, l) = WritesAt(s, l)
    BY <1>0, <1>1
<1>3. ASSUME NEW i \in WritesAt(r, l), r[i].at = "unlock" PROVE \A x \in Callers : rd[x] = 0
    <2>1. r[i].at = IF i = n THEN a ELSE s[i].at
        BY DEF Turn, Marked
    <2>2. CASE i = n
        BY <1>1, <1>2, <1>3, <2>1, <2>2
    <2>3. CASE i # n
        BY <1>2, <1>3, <2>1, <2>3 DEF Agrees
    <2>4. QED
        BY <2>2, <2>3
<1>4. ASSUME NEW u \in Callers
      PROVE  /\ rd[u] = Cardinality(ReadsAt(G[u], l))
             /\ w = u <=> WritesAt(G[u], l) # {}
             /\ \A i, j \in WritesAt(G[u], l) : i = j
             /\ \A i \in WritesAt(G[u], l) : G[u][i].at = "unlock" => \A x \in Callers : rd[x] = 0
    <2>1. CASE u = t
        BY <1>2, <1>3, <2>1 DEF Agrees, Turn
    <2>2. CASE u # t
        BY <2>2 DEF Agrees, Turn
    <2>3. QED
        BY <2>1, <2>2
<1>5. QED
    BY <1>4 DEF Agrees

\* ... of the write lock if t waits for it as nobody else does, ...
LEMMA AgreesTaken ==
    ASSUME Nobody \notin Callers,
           NEW F, NEW t \in Callers, NEW r, NEW G, Turn(F, t, r, "lock", G),
           NEW l, NEW rd, Agrees(rd, Nobody, F, l),
           F[t][Len(F[t])].l = l, F[t][Len(F[t])].at = "enter"
    PROVE  Agrees(rd, t, G, l)
<1> DEFINE s == F[t]  n == Len(s)
<1>0. /\ ReadsAt(r, l) = IF s[n].l = l /\ "lock" \in RLockPlaces THEN ReadsAt(s, l) \cup {n}
                         ELSE ReadsAt(s, l) \ {n}
      /\ WritesAt(r, l) = IF s[n].l = l /\ "lock" \in LockPlaces THEN WritesAt(s, l) \cup {n}
                          ELSE WritesAt(s, l) \ {n}
      /\ \A i \in WritesAt(r, l) : r[i].at = IF i = n THEN "lock" ELSE s[i].at
    BY DEF Turn, Marked
<1>1. n \notin ReadsAt(s, l)
    BY InnermostIs DEF Turn, RLockPlaces
<1>2. \A u \in Callers : WritesAt(F[u], l) = {}
    BY DEF Agrees
<1>3. ReadsAt(r, l) = ReadsAt(s, l) /\ WritesAt(r, l) = {n} /\ r[n].at = "lock"
    <2>1. "lock" \in LockPlaces /\ "lock" \notin RLockPlaces
        BY DEF RLockPlaces, LockPlaces
    <2>2. WritesAt(s, l) = {}
        BY <1>2
    <2> HIDE DEF n
    <2>3. QED
        BY <1>0, <1>1, <2>1, <2>2 DEF n
<1>4. ASSUME NEW u \in Callers
      PROVE  /\ rd[u] = Cardinality(ReadsAt(G[u], l))
             /\ t = u <=> WritesAt(G[u], l) # {}
             /\ \A i, j \in WritesAt(G[u], l) : i = j
             /\ \A i \in WritesAt(G[u], l) : G[u][i].at = "unlock" => \A x \in Callers : rd[x] = 0
    <2>1. CASE u = t
        BY <1>3, <2>1 DEF Agrees, Turn
    <2>2. CASE u # t
        BY <1>2, <2>2 DEF Agrees, Turn
    <2>3. QED
        BY <2>1, <2>2
<1>5. QED
    BY <1>4 DEF Agrees

\* ... if t gives it back, ...
LEMMA AgreesGiven ==
    ASSUME Nobody \notin Callers,
           NEW F, NEW t \in Callers, NEW r, NEW G, Turn(F, t, r, "gone", G),
           NEW l, NEW rd, NEW w, Agrees(rd, w, F, l),
           F[t][Len(F[t])].l = l, F[t][Len(F[t])].at = "unlock"
    PROVE  Agrees(rd, Nobody, G, l)
<1> DEFINE s == F[t]  n == Len(s)
<1>0. /\ ReadsAt(r, l) = IF s[n].l = l /\ "gone" \in RLockPlaces THEN ReadsAt(s, l) \cup {n}
                         ELSE ReadsAt(s, l) \ {n}
      /\ WritesAt(r, l) = IF s[n].l = l /\ "gone" \in LockPlaces THEN WritesAt(s, l) \cup {n}
                          ELSE WritesAt(s, l) \ {n}
      /\ \A i \in WritesAt(r, l) : r[i].at = IF i = n THEN "gone" ELSE s[i].at
    BY DEF Turn, Marked
<1>1. n \notin ReadsAt(s, l) /\ n \in WritesAt(s, l)
    BY InnermostIs DEF Turn, RLockPlaces, LockPlaces
<1>2. w = t /\ (\A i \in WritesAt(s, l) : i = n) /\ \A u \in Callers : u # t => WritesAt(F[u], l) = {}
    BY <1>1 DEF Agrees
<1>3. ReadsAt(r, l) = ReadsAt(s, l) /\ WritesAt(r, l) = {}
    <2>1. "gone" \notin LockPlaces /\ "gone" \notin RLockPlaces
        BY DEF RLockPlaces, LockPlaces
    <2>2. QED
        BY <1>0, <1>1, <1>2, <2>1
<1>4. ASSUME NEW u \in Callers
      PROVE  rd[u] = Cardinality(ReadsAt(G[u], l)) /\ WritesAt(G[u], l) = {}
    <2>1. CASE u = t
        BY <1>3, <2>1 DEF Agrees, Turn
    <2>2. CASE u # t
        BY <1>2, <2>2 DEF Agrees, Turn
    <2>3. QED
        BY <2>1, <2>2
<1>5. QED
    BY <1>4 DEF Agrees

\* ... of a read lock if t takes it while nobody writes, ...
LEMMA AgreesRead ==
    ASSUME Nobody \notin Callers,
           NEW F, NEW t \in Callers, NEW r, NEW a \in RLockPlaces, NEW G, Turn(F, t, r, a, G),
           NEW l, NEW rd \in [Callers -> Nat], Agrees(rd, Nobody, F, l),
           F[t][Len(F[t])].l = l, F[t][Len(F[t])].at = "enter"
    PROVE  Agrees([rd EXCEPT ![t] = @ + 1], Nobody, G, l)
<1> DEFINE s == F[t]  n == Len(s)  more == [rd EXCEPT ![t] = @ + 1]
<1>1. n \notin ReadsAt(s, l) /\ IsFiniteSet(ReadsAt(s, l))
    BY InnermostIs DEF Turn, RLockPlaces
<1>2. \A u \in Callers : WritesAt(F[u], l) = {}
    BY DEF Agrees
<1>3. ReadsAt(r, l) = ReadsAt(s, l) \cup {n} /\ WritesAt(r, l) = {}
    BY <1>2 DEF Turn, Marked, RLockPlaces, LockPlaces
<1>4. Cardinality(ReadsAt(r, l)) = Cardinality(ReadsAt(s, l)) + 1
    BY <1>1, <1>3, FS_AddElement
<1>5. more[t] = rd[t] + 1 /\ \A u \in Callers : u # t => more[u] = rd[u]
    OBVIOUS
<1> HIDE DEF more
<1>6. ASSUME NEW u \in Callers
      PROVE  more[u] = Cardinality(ReadsAt(G[u], l)) /\ WritesAt(G[u], l) = {}
    <2>1. CASE u = t
        BY <1>3, <1>4, <1>5, <2>1 DEF Agrees, Turn
    <2>2. CASE u # t
        BY <1>2, <1>5, <2>2 DEF Agrees, Turn
    <2>3. QED
        BY <2>1, <2>2
<1>7. QED
    BY <1>6 DEF Agrees, more

\* ... and if t gives it back.
LEMMA AgreesDone ==
    ASSUME NEW F, NEW t \in Callers, NEW r, NEW a, a \notin RLockPlaces \cup LockPlaces, NEW G, Turn(F, t, r, a, G),
           NEW l, NEW rd \in [Callers -> Nat], NEW w, Agrees(rd, w, F, l),
           F[t][Len(F[t])].l = l, F[t][Len(F[t])].at \in RLockPlaces
    PROVE  Agrees([rd EXCEPT ![t] = @ - 1], w, G, l) /\ rd[t] - 1 \in Nat
<1> DEFINE s == F[t]  n == Len(s)  less == [rd EXCEPT ![t] = @ - 1]
<1>1. n \in ReadsAt(s, l) /\ n \notin WritesAt(s, l) /\ IsFiniteSet(ReadsAt(s, l))
    BY InnermostIs DEF Turn, RLockPlaces, LockPlaces
<1>2. ReadsAt(r, l) = ReadsAt(s, l) \ {n} /\ WritesAt(r, l) = WritesAt(s, l)
    <2>1. /\ ReadsAt(r, l) = IF s[n].l = l /\ a \in RLockPlaces THEN ReadsAt(s, l) \cup {n}
                             ELSE ReadsAt(s, l) \ {n}
          /\ WritesAt(r, l) = IF s[n].l = l /\ a \in LockPlaces THEN WritesAt(s, l) \cup {n}
                              ELSE WritesAt(s, l) \ {n}
        BY DEF Turn, Marked
    <2>2. QED
        BY <1>1, <2>1
<1>3. Cardinality(ReadsAt(r, l)) = Cardinality(ReadsAt(s, l)) - 1 /\ Cardinality(ReadsAt(r, l)) \in Nat
    <2> DEFINE R == ReadsAt(s, l)
    <2>1. IsFiniteSet(R) /\ n \in R /\ ReadsAt(r, l) = R \ {n}
        BY <1>1, <1>2
    <2> HIDE DEF R, n
    <2>2. IsFiniteSet(R \ {n}) /\ Cardinality(R \ {n}) = Cardinality(R) - 1
        BY <2>1, FS_RemoveElement
    <2>3. QED
        BY <2>1, <2>2, FS_CardinalityType DEF R
<1>4. rd[t] = Cardinality(ReadsAt(s, l))
    BY DEF Agrees
<1>5. rd[t] \in Nat /\ rd[t] # 0 /\ rd[t] - 1 = Cardinality(ReadsAt(r, l)) /\ rd[t] - 1 \in Nat
    BY <1>3, <1>4
<1>6. less[t] = rd[t] - 1 /\ \A u \in Callers : u # t => less[u] = rd[u]
    OBVIOUS
<1> HIDE DEF less
<1>7. \A u \in Callers : \A i \in WritesAt(F[u], l) : F[u][i].at # "unlock"
    BY <1>5 DEF Agrees
<1>8. \A i \in WritesAt(r, l) : r[i].at = s[i].at
    BY <1>1, <1>2 DEF Turn, Marked
<1>9. ASSUME NEW u \in Callers
      PROVE  /\ less[u] = Cardinality(ReadsAt(G[u], l))
             /\ WritesAt(G[u], l) = WritesAt(F[u], l)
             /\ \A i \in WritesAt(F[u], l) : G[u][i].at = F[u][i].at
    <2>1. CASE u = t
        BY <1>2, <1>5, <1>6, <1>8, <2>1 DEF Turn
    <2>2. CASE u # t
        BY <1>6, <2>2 DEF Agrees, Turn
    <2>3. QED
        BY <2>1, <2>2
<1>10. Agrees(less, w, G, l)
    <2>1. ASSUME NEW u \in Callers, NEW i \in WritesAt(G[u], l) PROVE G[u][i].at # "unlock"
        BY <1>7, <1>9
    <2>2. ASSUME NEW u \in Callers
          PROVE  /\ w = u <=> WritesAt(G[u], l) # {}
                 /\ \A i, j \in WritesAt(G[u], l) : i = j
        <3>1. /\ w = u <=> WritesAt(F[u], l) # {}
              /\ \A i, j \in WritesAt(F[u], l) : i = j
            BY DEF Agrees
        <3>2. WritesAt(G[u], l) = WritesAt(F[u], l)
            BY <1>9
        <3>3. QED
            BY <3>1, <3>2
    <2>3. \A u \in Callers : less[u] = Cardinality(ReadsAt(G[u], l))
        BY <1>9
    <2>4. ASSUME NEW u \in Callers
          PROVE  /\ less[u] = Cardinality(ReadsAt(G[u], l))
                 /\ w = u <=> WritesAt(G[u], l) # {}
                 /\ \A i, j \in WritesAt(G[u], l) : i = j
                 /\ \A i \in WritesAt(G[u], l) : G[u][i].at = "unlock" => \A x \in Callers : less[x] = 0
        <3>1. \A i \in WritesAt(G[u], l) : G[u][i].at # "unlock"
            BY <2>1
        <3>2. QED
            BY <2>2, <2>3, <3>1
    <2>5. QED
        BY <2>4 DEF Agrees
<1>11. QED
    BY <1>5, <1>10 DEF less

-----------------------------------------------------------------------------
(* The steps                                                               *)

\* What is known of the innermost call of a caller.
LEMMA TopIs ==
    ASSUME WInv, NEW t \in Callers, Running(t)
    PROVE  /\ sort \in Kinds /\ stack \in Seq(Layers) /\ Len(stack) \in Nat /\ inside \in SUBSET Stored
           /\ Stacked(sort, stack, frames[t], calls[t]) /\ frames[t] \in Seq(Frames(stack))
           /\ Top(t) \in Frames(stack) /\ Fits(sort, stack, Top(t))
           /\ Layer(Top(t)) = LayerOf(stack, Top(t))
           /\ Layer(Top(t)) = "base" => Top(t).l = Len(stack) + 1
           /\ Layer(Top(t)) # "base" => Top(t).l \in 1 .. Len(stack)
           /\ Layer(Top(t)) \in {"base", "safe", "default"}
<1>1. /\ sort \in Kinds /\ stack \in Seq(Layers) /\ inside \in SUBSET Stored
      /\ Stacked(sort, stack, frames[t], calls[t])
    BY DEF WInv, WTyped
<1>2. Len(stack) \in Nat
    BY <1>1, LenProperties
<1>3. frames[t] \in Seq(Frames(stack)) /\ frames[t] # <<>>
    BY <1>1 DEF Stacked, Running
<1>4. Len(frames[t]) \in 1 .. Len(frames[t])
    <2>1. Len(frames[t]) \in Nat \ {0}
        BY <1>3, EmptySeq
    <2>2. QED
        BY <2>1
<1>5. Top(t) \in Frames(stack)
    BY <1>3, <1>4, ElementOfSeq DEF Top
<1>6. Fits(sort, stack, Top(t))
    BY <1>1, <1>4 DEF Stacked, Top
<1>7. Layer(Top(t)) = LayerOf(stack, Top(t))
    BY DEF Layer, LayerOf, Bottom
<1>8. \A l \in 1 .. Len(stack) : stack[l] \in {"safe", "default"}
    BY <1>1, ElementOfSeq DEF Layers
<1>9. Top(t).l \in 1 .. Len(stack) + 1
    BY <1>5 DEF Frames
<1>10. Top(t).l = Len(stack) + 1 \/ Top(t).l \in 1 .. Len(stack)
    BY <1>2, <1>9
<1>11. /\ Layer(Top(t)) = "base" => Top(t).l = Len(stack) + 1
       /\ Layer(Top(t)) # "base" => Top(t).l \in 1 .. Len(stack)
       /\ Layer(Top(t)) \in {"base", "safe", "default"}
    BY <1>8, <1>10 DEF Layer, Bottom
<1>12. QED
    BY <1>1, <1>2, <1>3, <1>5, <1>6, <1>7, <1>11

\* The innermost call of t gets to a, and may make another one.
GetsTo(t, a) == \E r : Moves(t, r) /\ Marked(frames[t], r, a)

LEMMA SetMoves ==
    ASSUME WInv, NEW t \in Callers, Running(t), UNCHANGED shape, inside' \in SUBSET Stored,
           NEW g \in Frames(stack), g.m = Top(t).m, g.l = Top(t).l, Fits(sort, stack, g), SetTop(t, g)
    PROVE  GetsTo(t, g.at)
<1> DEFINE r == [frames[t] EXCEPT ![Len(frames[t])] = g]
<1>1. Stacked(sort, stack, r, calls[t]) /\ Marked(frames[t], r, g.at)
    BY TopIs, SetKeeps DEF Top, Running
<1>2. frames' = [frames EXCEPT ![t] = r]
    BY DEF SetTop
<1> HIDE DEF r
<1>3. Moves(t, r)
    BY <1>1, <1>2 DEF Moves
<1>4. QED
    BY <1>1, <1>3 DEF GetsTo

LEMMA PushMoves ==
    ASSUME WInv, NEW t \in Callers, Running(t), UNCHANGED shape, inside' \in SUBSET Stored,
           NEW g \in Frames(stack), g.m = Top(t).m, g.l = Top(t).l, Fits(sort, stack, g),
           NEW h \in Frames(stack), h.at = "enter", Makes(sort, stack, calls[t], g, h), Push(t, g, h)
    PROVE  GetsTo(t, g.at)
<1> DEFINE r == Append([frames[t] EXCEPT ![Len(frames[t])] = g], h)
<1>1. Stacked(sort, stack, r, calls[t]) /\ Marked(frames[t], r, g.at)
    BY TopIs, PushKeeps DEF Top, Running
<1>2. frames' = [frames EXCEPT ![t] = r]
    BY DEF Push
<1> HIDE DEF r
<1>3. Moves(t, r)
    BY <1>1, <1>2 DEF Moves
<1>4. QED
    BY <1>1, <1>3 DEF GetsTo

LEMMA ReturnMoves ==
    ASSUME WInv, NEW t \in Callers, Running(t), UNCHANGED shape, inside' \in SUBSET Stored,
           NEW found \in BOOLEAN, NEW entries \in SUBSET Stored, Return(t, found, entries)
    PROVE  GetsTo(t, "gone")
<1> DEFINE r == Returned(frames[t], found, entries)
<1>1. Stacked(sort, stack, r, calls[t]) /\ Marked(frames[t], r, "gone")
    BY TopIs, ReturnKeeps DEF Running
<1>2. frames' = [frames EXCEPT ![t] = r]
    BY DEF Return, Returned
<1> HIDE DEF r
<1>3. Moves(t, r)
    BY <1>1, <1>2 DEF Moves
<1>4. QED
    BY <1>1, <1>3 DEF GetsTo

\* A step that leaves the locks alone.
LEMMA LocksStay ==
    ASSUME WInv, NEW t \in Callers, Running(t), NEW a, GetsTo(t, a), UNCHANGED locks,
           Top(t).at \in RLockPlaces <=> a \in RLockPlaces, Top(t).at \in LockPlaces <=> a \in LockPlaces,
           a = "unlock" => \A x \in Callers : reading[Top(t).l][x] = 0
    PROVE  WInv'
<1>1. PICK r : Moves(t, r) /\ Marked(frames[t], r, a)
    BY DEF GetsTo
<1>2. frames \in [Callers -> Seq(Frames(stack))]
    BY DEF WInv, WTyped
<1>3. Turn(frames, t, r, a, frames')
    BY <1>1, <1>2 DEF Turn, Moves, Running
<1>4. ASSUME NEW l \in 1 .. Len(stack) PROVE Agrees(reading[l], writing[l], frames', l)
    <2>1. Agrees(reading[l], writing[l], frames, l)
        BY LocksAgreeIs DEF WInv
    <2>2. frames[t][Len(frames[t])].l = l =>
             /\ frames[t][Len(frames[t])].at \in RLockPlaces <=> a \in RLockPlaces
             /\ frames[t][Len(frames[t])].at \in LockPlaces <=> a \in LockPlaces
             /\ a = "unlock" => \A x \in Callers : reading[l][x] = 0
        BY DEF Top
    <2>3. QED
        BY <1>3, <2>1, <2>2, AgreesStay
<1>5. /\ reading' = reading /\ writing' = writing
      /\ reading \in [1 .. Len(stack) -> [Callers -> Nat]]
      /\ writing \in [1 .. Len(stack) -> Callers \cup {Nobody}]
    BY DEF WInv, WTyped, locks
<1>6. QED
    BY <1>1, <1>4, <1>5, CallsMove

\* A step that changes the lock of the layer it is in, and of no other.
LEMMA LocksChange ==
    ASSUME WInv, NEW t \in Callers, Running(t), NEW a, GetsTo(t, a),
           NEW rd \in [Callers -> Nat], NEW w \in Callers \cup {Nobody},
           Top(t).l \in 1 .. Len(stack),
           reading' = [reading EXCEPT ![Top(t).l] = rd], writing' = [writing EXCEPT ![Top(t).l] = w],
           \A r : /\ Turn(frames, t, r, a, frames')
                  /\ Agrees(reading[Top(t).l], writing[Top(t).l], frames, Top(t).l)
                  => Agrees(rd, w, frames', Top(t).l)
    PROVE  WInv'
<1>1. PICK r : Moves(t, r) /\ Marked(frames[t], r, a)
    BY DEF GetsTo
<1>2. frames \in [Callers -> Seq(Frames(stack))]
    BY DEF WInv, WTyped
<1>3. Turn(frames, t, r, a, frames')
    BY <1>1, <1>2 DEF Turn, Moves, Running
<1>4. /\ reading \in [1 .. Len(stack) -> [Callers -> Nat]]
      /\ writing \in [1 .. Len(stack) -> Callers \cup {Nobody}]
    BY DEF WInv, WTyped
<1>5. ASSUME NEW l \in 1 .. Len(stack) PROVE Agrees(reading'[l], writing'[l], frames', l)
    <2>1. Agrees(reading[l], writing[l], frames, l)
        BY LocksAgreeIs DEF WInv
    <2>2. CASE l = Top(t).l
        <3>1. reading'[l] = rd /\ writing'[l] = w
            BY <1>4, <2>2
        <3>2. QED
            BY <1>3, <2>1, <2>2, <3>1
    <2>3. CASE l # Top(t).l
        <3>1. reading'[l] = reading[l] /\ writing'[l] = writing[l]
            BY <1>4, <2>3
        <3>2. frames[t][Len(frames[t])].l # l
            BY <2>3 DEF Top
        <3>3. QED
            BY <1>3, <2>1, <3>1, <3>2, AgreesStay
    <2>4. QED
        BY <2>2, <2>3
<1>6. /\ reading' \in [1 .. Len(stack) -> [Callers -> Nat]]
      /\ writing' \in [1 .. Len(stack) -> Callers \cup {Nobody}]
    BY <1>4
<1>7. QED
    BY <1>1, <1>5, <1>6, CallsMove

\* The call that f makes in the next layer, and f when it gets to another place.
LEMMA DownIs ==
    ASSUME NEW T \in Seq(Layers), NEW f \in Frames(T), f.l \in 1 .. Len(T), NEW m \in Methods
    PROVE  Down(f, m) \in Frames(T) /\ Down(f, m).m = m /\ Down(f, m).l = f.l + 1 /\ Down(f, m).at = "enter"
<1>1. Len(T) \in Nat
    BY LenProperties
<1>2. f.l + 1 \in 1 .. Len(T) + 1 /\ f.key \in Stored
    BY <1>1 DEF Frames
<1>3. /\ Down(f, m) = [m |-> m, l |-> f.l + 1, key |-> f.key, at |-> "enter", found |-> FALSE, todo |-> {}]
      /\ "enter" \in Places /\ FALSE \in BOOLEAN /\ {} \in SUBSET Stored
    BY DEF Down, Frame, Places
<1>4. Down(f, m) \in Frames(T)
    BY <1>2, <1>3 DEF Frames
<1>5. QED
    BY <1>3, <1>4

LEMMA AtIs ==
    ASSUME NEW T, NEW f \in Frames(T), NEW a \in Places
    PROVE  /\ At(f, a) \in Frames(T) /\ At(f, a).m = f.m /\ At(f, a).l = f.l /\ At(f, a).at = a
           /\ LayerOf(T, At(f, a)) = LayerOf(T, f)
    BY DEF At, Frames, LayerOf

\* A caller that starts to wait for the write lock.
LEMMA AnnounceKeeps ==
    ASSUME WInv, Nobody \notin Callers, NEW t \in Callers, LayerAnnounce(t)
    PROVE  WInv'
<1> DEFINE f == Top(t)  g == At(f, "lock")
<1>1. /\ Running(t) /\ Layer(f) = "safe" /\ f.at = "enter" /\ Writes(f) /\ writing[f.l] = Nobody
      /\ writing' = [writing EXCEPT ![f.l] = t] /\ SetTop(t, g) /\ UNCHANGED <<shape, inside, reading>>
    BY DEF LayerAnnounce, Is
<1>2. /\ sort \in Kinds /\ inside \in SUBSET Stored /\ f \in Frames(stack)
      /\ Layer(f) = LayerOf(stack, f) /\ f.l \in 1 .. Len(stack)
    BY <1>1, TopIs
<1>3. g \in Frames(stack) /\ g.m = f.m /\ g.l = f.l /\ g.at = "lock" /\ LayerOf(stack, g) = "safe"
    <2>1. "lock" \in Places
        BY DEF Places
    <2> HIDE DEF f
    <2>2. QED
        BY <1>1, <1>2, <2>1, AtIs
<1> HIDE DEF f, g
<1>4. Fits(sort, stack, g)
    BY <1>1, <1>3 DEF Fits, Writes, LockPlaces
<1>5. GetsTo(t, "lock")
    BY <1>1, <1>2, <1>3, <1>4, SetMoves DEF f
<1>6. reading[f.l] \in [Callers -> Nat] /\ reading' = [reading EXCEPT ![f.l] = reading[f.l]]
    BY <1>1, <1>2 DEF WInv, WTyped
<1>7. ASSUME NEW r, Turn(frames, t, r, "lock", frames'), Agrees(reading[f.l], writing[f.l], frames, f.l)
      PROVE  Agrees(reading[f.l], t, frames', f.l)
    <2>1. frames[t][Len(frames[t])].l = f.l /\ frames[t][Len(frames[t])].at = "enter"
        BY <1>1 DEF f, Top
    <2>2. QED
        BY <1>1, <1>7, <2>1, AgreesTaken
<1>8. QED
    BY <1>1, <1>2, <1>5, <1>6, <1>7, LocksChange DEF f

\* A caller that gets the write lock.
LEMMA LockKeeps ==
    ASSUME WInv, NEW t \in Callers, LayerLock(t)
    PROVE  WInv'
<1> DEFINE f == Top(t)  g == At(f, "unlock")  h == Down(f, f.m)
<1>1. /\ Running(t) /\ Layer(f) = "safe" /\ f.at = "lock" /\ \A u \in Callers : reading[f.l][u] = 0
      /\ Push(t, g, h) /\ UNCHANGED <<shape, inside, locks>>
    BY DEF LayerLock, Is
<1>2. /\ sort \in Kinds /\ inside \in SUBSET Stored /\ f \in Frames(stack) /\ stack \in Seq(Layers)
      /\ Layer(f) = LayerOf(stack, f) /\ f.l \in 1 .. Len(stack) /\ Fits(sort, stack, f) /\ Len(stack) \in Nat
    BY <1>1, TopIs
<1>3. g \in Frames(stack) /\ g.m = f.m /\ g.l = f.l /\ g.at = "unlock" /\ LayerOf(stack, g) = "safe"
    <2>1. "unlock" \in Places
        BY DEF Places
    <2> HIDE DEF f
    <2>2. QED
        BY <1>1, <1>2, <2>1, AtIs
<1>4. h \in Frames(stack) /\ h.m = f.m /\ h.l = f.l + 1 /\ h.at = "enter"
    <2>1. f.m \in Methods
        BY <1>2 DEF Frames
    <2>2. QED
        BY <1>2, <2>1, DownIs
<1> HIDE DEF f, g, h
<1>5. Fits(sort, stack, g)
    <2>1. f.m \in Safe(sort).write
        BY <1>1, <1>2 DEF Fits, LockPlaces
    <2>2. QED
        BY <1>3, <2>1 DEF Fits, LockPlaces
<1>6. Makes(sort, stack, calls[t], g, h)
    BY <1>2, <1>3, <1>4 DEF Makes
<1>7. GetsTo(t, "unlock")
    BY <1>1, <1>2, <1>3, <1>4, <1>5, <1>6, PushMoves DEF f
<1>8. QED
    BY <1>1, <1>7, LocksStay DEF f, RLockPlaces, LockPlaces

\* A caller that gives the write lock back.
LEMMA UnlockKeeps ==
    ASSUME WInv, Nobody \notin Callers, NEW t \in Callers, LayerUnlock(t)
    PROVE  WInv'
<1> DEFINE f == Top(t)
<1>1. /\ Running(t) /\ Layer(f) = "safe" /\ f.at = "unlock"
      /\ writing' = [writing EXCEPT ![f.l] = Nobody] /\ Return(t, f.found, f.todo)
      /\ UNCHANGED <<shape, inside, reading>>
    BY DEF LayerUnlock, Is
<1>2. inside \in SUBSET Stored /\ f \in Frames(stack) /\ f.l \in 1 .. Len(stack)
    BY <1>1, TopIs
<1> HIDE DEF f
<1>3. f.found \in BOOLEAN /\ f.todo \in SUBSET Stored
    BY <1>2 DEF Frames
<1>4. GetsTo(t, "gone")
    BY <1>1, <1>2, <1>3, ReturnMoves
<1>5. reading[f.l] \in [Callers -> Nat] /\ reading' = [reading EXCEPT ![f.l] = reading[f.l]]
    BY <1>1, <1>2 DEF WInv, WTyped
<1>6. ASSUME NEW r, Turn(frames, t, r, "gone", frames'), Agrees(reading[f.l], writing[f.l], frames, f.l)
      PROVE  Agrees(reading[f.l], Nobody, frames', f.l)
    <2>1. frames[t][Len(frames[t])].l = f.l /\ frames[t][Len(frames[t])].at = "unlock"
        BY <1>1 DEF f, Top
    <2>2. QED
        BY <1>6, <2>1, AgreesGiven
<1>7. QED
    BY <1>1, <1>2, <1>4, <1>5, <1>6, LocksChange DEF f

\* A caller that gets a read lock, for a call or to copy the entries.
LEMMA ReadKeeps ==
    ASSUME WInv, Nobody \notin Callers, NEW t \in Callers, LayerRead(t)
    PROVE  WInv'
<1> DEFINE f == Top(t)  a == IF Copies(f) THEN "copied" ELSE "runlock"
           m == IF Copies(f) THEN "Entries" ELSE f.m
           g == At(f, a)  h == Down(f, m)
<1>1. /\ Running(t) /\ Layer(f) = "safe" /\ f.at = "enter" /\ ~Writes(f) /\ writing[f.l] = Nobody
      /\ reading' = [reading EXCEPT ![f.l][t] = @ + 1] /\ UNCHANGED writing
      /\ Push(t, g, h) /\ UNCHANGED <<shape, inside>>
    BY DEF LayerRead, Is, LayerRLock
<1>2. /\ sort \in Kinds /\ inside \in SUBSET Stored /\ f \in Frames(stack) /\ stack \in Seq(Layers)
      /\ Layer(f) = LayerOf(stack, f) /\ f.l \in 1 .. Len(stack) /\ Len(stack) \in Nat
    BY <1>1, TopIs
<1>3. g \in Frames(stack) /\ g.m = f.m /\ g.l = f.l /\ g.at = a /\ LayerOf(stack, g) = "safe"
    <2>1. a \in Places
        BY DEF Places
    <2> HIDE DEF f, a
    <2>2. QED
        BY <1>1, <1>2, <2>1, AtIs
<1>4. h \in Frames(stack) /\ h.m = m /\ h.l = f.l + 1 /\ h.at = "enter"
    <2>1. m \in Methods
        <3>1. f.m \in Methods /\ "Entries" \in Methods
            BY <1>2 DEF Frames, Methods, PlainMethods
        <3>2. QED
            BY <3>1
    <2>2. QED
        BY <1>2, <2>1, DownIs
<1> HIDE DEF f, g, h
<1>5. Fits(sort, stack, g)
    BY <1>1, <1>3 DEF Fits, Writes, Copies
<1>6. Makes(sort, stack, calls[t], g, h)
    BY <1>2, <1>3, <1>4 DEF Makes
<1>7. GetsTo(t, a)
    BY <1>1, <1>2, <1>3, <1>4, <1>5, <1>6, PushMoves DEF f
<1>8. a \in RLockPlaces
    BY DEF RLockPlaces
<1> HIDE DEF a, m
<1>9. /\ reading \in [1 .. Len(stack) -> [Callers -> Nat]]
      /\ writing \in [1 .. Len(stack) -> Callers \cup {Nobody}]
    BY DEF WInv, WTyped
<1>10. /\ reading[f.l] \in [Callers -> Nat] /\ [reading[f.l] EXCEPT ![t] = @ + 1] \in [Callers -> Nat]
       /\ reading' = [reading EXCEPT ![f.l] = [reading[f.l] EXCEPT ![t] = @ + 1]]
       /\ writing' = [writing EXCEPT ![f.l] = Nobody]
    BY <1>1, <1>2, <1>9
<1>11. ASSUME NEW r, Turn(frames, t, r, a, frames'), Agrees(reading[f.l], writing[f.l], frames, f.l)
       PROVE  Agrees([reading[f.l] EXCEPT ![t] = @ + 1], Nobody, frames', f.l)
    <2>1. frames[t][Len(frames[t])].l = f.l /\ frames[t][Len(frames[t])].at = "enter"
        BY <1>1 DEF f, Top
    <2>2. QED
        BY <1>1, <1>8, <1>10, <1>11, <2>1, AgreesRead
<1>12. QED
    BY <1>1, <1>2, <1>7, <1>10, <1>11, LocksChange DEF f

\* The read lock goes back when the call returns, or when the entries are copied.
LEMMA ReadEndsKeeps ==
    ASSUME WInv, NEW t \in Callers, NEW a, a \notin RLockPlaces \cup LockPlaces, GetsTo(t, a),
           Running(t), Layer(Top(t)) = "safe", Top(t).at \in RLockPlaces, LayerRUnlock(t, Top(t).l)
    PROVE  WInv'
<1> DEFINE f == Top(t)  rd == [reading[f.l] EXCEPT ![t] = @ - 1]
<1>1. f \in Frames(stack) /\ f.l \in 1 .. Len(stack)
    BY TopIs
<1>2. /\ reading \in [1 .. Len(stack) -> [Callers -> Nat]]
      /\ writing \in [1 .. Len(stack) -> Callers \cup {Nobody}]
    BY DEF WInv, WTyped
<1>3. reading[f.l] \in [Callers -> Nat] /\ reading' = [reading EXCEPT ![f.l] = rd]
    BY <1>1, <1>2 DEF LayerRUnlock
<1>4. frames[t][Len(frames[t])].l = f.l /\ frames[t][Len(frames[t])].at \in RLockPlaces
    BY DEF Top
<1>5. Agrees(reading[f.l], writing[f.l], frames, f.l)
    BY <1>1, LocksAgreeIs DEF WInv
<1> HIDE DEF f
<1>6. ASSUME NEW r, Turn(frames, t, r, a, frames')
      PROVE  Agrees(rd, writing[f.l], frames', f.l) /\ reading[f.l][t] - 1 \in Nat
    BY <1>3, <1>4, <1>5, <1>6, AgreesDone
<1>7. reading[f.l][t] - 1 \in Nat
    <2>1. PICK r : Moves(t, r) /\ Marked(frames[t], r, a)
        BY DEF GetsTo
    <2>2. frames \in [Callers -> Seq(Frames(stack))]
        BY DEF WInv, WTyped
    <2>3. Turn(frames, t, r, a, frames')
        BY <2>1, <2>2 DEF Turn, Moves, Running
    <2>4. QED
        BY <1>6, <2>3
<1>8. rd \in [Callers -> Nat] /\ writing[f.l] \in Callers \cup {Nobody}
      /\ writing' = [writing EXCEPT ![f.l] = writing[f.l]]
    BY <1>1, <1>2, <1>3, <1>7 DEF LayerRUnlock
<1> HIDE DEF rd
<1>9. QED
    BY <1>1, <1>3, <1>6, <1>8, LocksChange DEF f

LEMMA CopiedKeeps ==
    ASSUME WInv, NEW t \in Callers, Copied(t)
    PROVE  WInv'
<1> DEFINE f == Top(t)  g == At(f, "visit")
<1>1. /\ Running(t) /\ Layer(f) = "safe" /\ f.at = "copied" /\ LayerRUnlock(t, f.l)
      /\ SetTop(t, g) /\ UNCHANGED <<shape, inside>>
    BY DEF Copied, Is
<1>2. /\ inside \in SUBSET Stored /\ f \in Frames(stack)
      /\ Layer(f) = LayerOf(stack, f) /\ Fits(sort, stack, f)
    BY <1>1, TopIs
<1>3. g \in Frames(stack) /\ g.m = f.m /\ g.l = f.l /\ g.at = "visit" /\ LayerOf(stack, g) = "safe"
    <2>1. "visit" \in Places
        BY DEF Places
    <2> HIDE DEF f
    <2>2. QED
        BY <1>1, <1>2, <2>1, AtIs
<1> HIDE DEF f, g
<1>4. Fits(sort, stack, g)
    <2>1. f.m \in Safe(sort).copy
        BY <1>1, <1>2 DEF Fits, LockPlaces
    <2>2. QED
        BY <1>3, <2>1 DEF Fits
<1>5. GetsTo(t, "visit")
    BY <1>1, <1>2, <1>3, <1>4, SetMoves DEF f
<1>6. "visit" \notin RLockPlaces \cup LockPlaces /\ f.at \in RLockPlaces
    BY <1>1 DEF RLockPlaces, LockPlaces
<1>7. QED
    BY <1>1, <1>5, <1>6, ReadEndsKeeps DEF f

\* A step in which the innermost call returns, and no lock goes back.
LEMMA ReturnStays ==
    ASSUME WInv, NEW t \in Callers, Running(t), UNCHANGED <<shape, locks>>, inside' \in SUBSET Stored,
           NEW found \in BOOLEAN, NEW entries \in SUBSET Stored, Return(t, found, entries),
           Top(t).at \notin RLockPlaces \cup LockPlaces
    PROVE  WInv'
<1>1. GetsTo(t, "gone")
    BY ReturnMoves
<1>2. QED
    BY <1>1, LocksStay DEF RLockPlaces, LockPlaces

\* A step in which the innermost call gets to a and makes a call in the next layer.
LEMMA DownStays ==
    ASSUME WInv, NEW t \in Callers, Running(t), UNCHANGED <<shape, inside, locks>>,
           Layer(Top(t)) = "default", Top(t).at \notin RLockPlaces \cup LockPlaces,
           NEW a \in {"asked", "added", "cloned", "passed"}, NEW m \in Methods,
           Push(t, At(Top(t), a), Down(Top(t), m)),
           a = "asked" => Top(t).m \in Default(sort).ask \ Default(sort).own /\ m = Top(t).m,
           a = "added" => Top(t).m \in Default(sort).ask /\ m = "Add",
           a = "cloned" => Top(t).m \in Default(sort).own /\ m = "Clone",
           a = "passed" => m = (IF Top(t).m \in Default(sort).own THEN "Seq" ELSE Top(t).m)
    PROVE  WInv'
<1> DEFINE f == Top(t)  g == At(f, a)  h == Down(f, m)
<1>1. /\ sort \in Kinds /\ inside \in SUBSET Stored /\ f \in Frames(stack) /\ stack \in Seq(Layers)
      /\ Layer(f) = LayerOf(stack, f) /\ f.l \in 1 .. Len(stack) /\ Len(stack) \in Nat
    BY TopIs
<1>2. g \in Frames(stack) /\ g.m = f.m /\ g.l = f.l /\ g.at = a /\ LayerOf(stack, g) = "default"
    <2>1. a \in Places
        BY DEF Places
    <2>2. LayerOf(stack, f) = "default"
        BY <1>1
    <2> HIDE DEF f
    <2>3. QED
        BY <1>1, <2>1, <2>2, AtIs
<1>3. h \in Frames(stack) /\ h.m = m /\ h.l = f.l + 1 /\ h.at = "enter"
    BY <1>1, DownIs
<1>4. f.l < Len(stack) + 1
    BY <1>1
<1>5. Push(t, g, h) /\ g.m = Top(t).m /\ g.l = Top(t).l
    BY <1>2
<1>6. /\ a = "asked" => f.m \in Default(sort).ask \ Default(sort).own /\ m = f.m
      /\ a = "added" => f.m \in Default(sort).ask /\ m = "Add"
      /\ a = "cloned" => f.m \in Default(sort).own /\ m = "Clone"
      /\ a = "passed" => m = (IF f.m \in Default(sort).own THEN "Seq" ELSE f.m)
    OBVIOUS
<1> HIDE DEF f, g, h
<1>7. Fits(sort, stack, g)
    BY <1>2, <1>6 DEF Fits
<1>8. Makes(sort, stack, calls[t], g, h)
    BY <1>2, <1>3, <1>4, <1>6 DEF Makes
<1>9. UNCHANGED shape /\ inside' \in SUBSET Stored /\ UNCHANGED locks
    BY <1>1
<1>10. GetsTo(t, a)
    BY <1>1, <1>2, <1>3, <1>5, <1>7, <1>8, <1>9, PushMoves
<1>11. a \notin RLockPlaces \cup LockPlaces
    BY DEF RLockPlaces, LockPlaces
<1>12. QED
    BY <1>9, <1>10, <1>11, LocksStay DEF LockPlaces

\* A layer that supplies defaults passes the call on, ...
LEMMA PassKeeps ==
    ASSUME WInv, NEW t \in Callers, Pass(t)
    PROVE  WInv'
<1> DEFINE f == Top(t)  a == IF Asks(f) THEN "asked" ELSE "passed"
<1>1. /\ Running(t) /\ Layer(f) = "default" /\ f.at = "enter" /\ ~Owns(f)
      /\ Push(t, At(f, a), Down(f, f.m)) /\ UNCHANGED <<shape, inside, locks>>
    BY DEF Pass, Is
<1>2. f.m \in Methods
    BY <1>1, TopIs DEF Frames
<1>3. f.at \notin RLockPlaces \cup LockPlaces /\ a \in {"asked", "passed"}
    BY <1>1 DEF RLockPlaces, LockPlaces
<1>4. /\ a = "asked" => f.m \in Default(sort).ask \ Default(sort).own
      /\ a = "passed" => f.m \notin Default(sort).own
    BY <1>1 DEF Asks, Owns
<1> HIDE DEF a
<1>5. QED
    BY <1>1, <1>2, <1>3, <1>4, DownStays

\* ... adds the default when it was asked for a key in vain, ...
LEMMA AskedKeeps ==
    ASSUME WInv, NEW t \in Callers, Asked(t)
    PROVE  WInv'
<1> DEFINE f == Top(t)
<1>1. /\ Running(t) /\ Layer(f) = "default" /\ f.at = "asked"
      /\ UNCHANGED <<shape, inside, locks>>
      /\ Return(t, f.found, f.todo) \/ Push(t, At(f, "added"), Down(f, "Add"))
    BY DEF Asked, Is
<1>2. f \in Frames(stack) /\ Fits(sort, stack, f) /\ inside \in SUBSET Stored
    BY <1>1, TopIs
<1>3. f.at \notin RLockPlaces \cup LockPlaces
    BY <1>1 DEF RLockPlaces, LockPlaces
<1>4. f.m \in Default(sort).ask
    BY <1>1, <1>2 DEF Fits, LockPlaces
<1>5. f.found \in BOOLEAN /\ f.todo \in SUBSET Stored
    BY <1>2 DEF Frames
<1>6. "Add" \in Methods
    BY DEF Methods, PlainMethods
<1>7. CASE Return(t, f.found, f.todo)
    <2>1. UNCHANGED <<shape, locks>> /\ inside' \in SUBSET Stored
        BY <1>1, <1>2
    <2>2. QED
        BY <1>1, <1>3, <1>5, <1>7, <2>1, ReturnStays
<1>8. CASE Push(t, At(f, "added"), Down(f, "Add"))
    BY <1>1, <1>3, <1>4, <1>6, <1>8, DownStays
<1>9. QED
    BY <1>1, <1>7, <1>8

\* ... or does with other methods what is asked for.
LEMMA OwnKeeps ==
    ASSUME WInv, NEW t \in Callers, Own(t)
    PROVE  WInv'
<1> DEFINE f == Top(t)
<1>1. /\ Running(t) /\ Layer(f) = "default" /\ UNCHANGED <<shape, inside, locks>>
      /\ \/ f.at = "enter" /\ Owns(f) /\ Push(t, At(f, "cloned"), Down(f, "Clone"))
         \/ f.at = "cloned" /\ Push(t, At(f, "passed"), Down(f, "Seq"))
    BY DEF Own, Is
<1>2. Fits(sort, stack, f)
    BY <1>1, TopIs
<1>3. f.at \notin RLockPlaces \cup LockPlaces
    BY <1>1 DEF RLockPlaces, LockPlaces
<1>4. f.m \in Default(sort).own
    BY <1>1, <1>2 DEF Fits, Owns, LockPlaces
<1>5. "Clone" \in Methods /\ "Seq" \in Methods
    BY DEF Methods, PlainMethods, Callbacks
<1>6. CASE Push(t, At(f, "cloned"), Down(f, "Clone"))
    BY <1>1, <1>3, <1>4, <1>5, <1>6, DownStays
<1>7. CASE Push(t, At(f, "passed"), Down(f, "Seq"))
    BY <1>1, <1>3, <1>4, <1>5, <1>7, DownStays
<1>8. QED
    BY <1>1, <1>6, <1>7

\* The container, and a function that it calls back.
LEMMA DoKeeps ==
    ASSUME WInv, NEW t \in Callers, Do(t)
    PROVE  WInv'
<1> DEFINE f == Top(t)
<1>1. /\ Running(t) /\ f.at = "enter" /\ UNCHANGED <<shape, locks>>
      /\ Return(t, f.key \in inside, inside)
      /\ inside' \in {inside, inside \cup {f.key}, inside \ {f.key}}
    BY DEF Do, Is
<1>2. f.key \in Stored /\ inside \in SUBSET Stored
    BY <1>1, TopIs DEF Frames
<1>3. inside' \in SUBSET Stored
    BY <1>1, <1>2
<1>4. (f.key \in inside) \in BOOLEAN
    OBVIOUS
<1>5. f.at \notin RLockPlaces \cup LockPlaces
    BY <1>1 DEF RLockPlaces, LockPlaces
<1>6. QED
    BY <1>1, <1>2, <1>3, <1>4, <1>5, ReturnStays

LEMMA LoopKeeps ==
    ASSUME WInv, NEW t \in Callers, Loop(t)
    PROVE  WInv'
<1> DEFINE f == Top(t)  g == [At(f, "visit") EXCEPT !.todo = inside]
<1>1. /\ Running(t) /\ Layer(f) = "base" /\ f.at = "enter" /\ Takes(f.m)
      /\ SetTop(t, g) /\ UNCHANGED <<shape, inside, locks>>
    BY DEF Loop, Is, Method
<1>2. /\ inside \in SUBSET Stored /\ f \in Frames(stack) /\ Layer(f) = LayerOf(stack, f)
    BY <1>1, TopIs
<1>3. /\ g \in Frames(stack) /\ g.m = f.m /\ g.l = f.l /\ g.at = "visit"
      /\ LayerOf(stack, g) = LayerOf(stack, f)
    BY <1>2 DEF At, Frames, Places, LayerOf
<1> HIDE DEF f, g
<1>4. Fits(sort, stack, g)
    BY <1>1, <1>2, <1>3 DEF Fits, Takes, Loops
<1>5. UNCHANGED shape /\ inside' \in SUBSET Stored /\ UNCHANGED locks
    BY <1>1, <1>2
<1>6. GetsTo(t, "visit")
    BY <1>1, <1>3, <1>4, <1>5, SetMoves DEF f
<1>7. f.at \notin RLockPlaces \cup LockPlaces /\ "visit" \notin RLockPlaces \cup LockPlaces
    BY <1>1 DEF RLockPlaces, LockPlaces
<1>8. QED
    BY <1>1, <1>5, <1>6, <1>7, LocksStay DEF f

LEMMA VisitKeeps ==
    ASSUME WInv, NEW t \in Callers, Visit(t)
    PROVE  WInv'
<1> DEFINE f == Top(t)  here == IF Layer(f) = "base" THEN f.todo \cap inside ELSE f.todo
           h == Frame(calls[t].back, 1, calls[t].key)
<1>1. Running(t) /\ f.at = "visit" /\ UNCHANGED <<shape, inside, locks>>
    BY DEF Visit
<1>2. PICK k \in here : LET g == [f EXCEPT !.todo = here \ {k}]
                        IN  IF calls[t].back = "none" THEN SetTop(t, g) ELSE Push(t, g, h)
    BY DEF Visit
<1> DEFINE g == [f EXCEPT !.todo = here \ {k}]
<1>3. /\ sort \in Kinds /\ inside \in SUBSET Stored /\ f \in Frames(stack) /\ stack \in Seq(Layers)
      /\ Layer(f) = LayerOf(stack, f) /\ Len(stack) \in Nat /\ Fits(sort, stack, f)
    BY <1>1, TopIs
<1>4. here \in SUBSET Stored
    BY <1>3 DEF Frames
<1> HIDE DEF here
<1>5. /\ g \in Frames(stack) /\ g.m = f.m /\ g.l = f.l /\ g.at = "visit"
      /\ LayerOf(stack, g) = LayerOf(stack, f)
    BY <1>1, <1>3, <1>4 DEF Frames, LayerOf
<1>6. IF calls[t].back = "none" THEN SetTop(t, g) ELSE Push(t, g, h)
    BY <1>2
<1>7. /\ calls[t] \in [m : Methods, key : Stored, back : PlainMethods \cup {"none"}]
      /\ calls[t].back # "none" => ~Loops(sort, calls[t].back)
    BY DEF WInv, WTyped
<1> HIDE DEF f, g
<1>8. Fits(sort, stack, g)
    BY <1>1, <1>3, <1>5 DEF Fits, LayerOf
<1>9. UNCHANGED shape /\ inside' \in SUBSET Stored /\ UNCHANGED locks
    BY <1>1, <1>3
<1>10. GetsTo(t, "visit")
    <2>1. CASE calls[t].back = "none"
        BY <1>1, <1>5, <1>6, <1>8, <1>9, <2>1, SetMoves DEF f
    <2>2. CASE calls[t].back # "none"
        <3>1. /\ h = [m |-> calls[t].back, l |-> 1, key |-> calls[t].key, at |-> "enter",
                      found |-> FALSE, todo |-> {}]
              /\ calls[t].back \in Methods /\ calls[t].key \in Stored /\ 1 \in 1 .. Len(stack) + 1
              /\ "enter" \in Places /\ FALSE \in BOOLEAN /\ {} \in SUBSET Stored
            BY <1>3, <1>7, <2>2 DEF Frame, Methods, Places
        <3> HIDE DEF h
        <3>2. h \in Frames(stack) /\ h.m = calls[t].back /\ h.l = 1 /\ h.at = "enter"
            BY <3>1 DEF Frames
        <3>3. Makes(sort, stack, calls[t], g, h)
            BY <1>5, <1>7, <2>2, <3>2 DEF Makes
        <3>4. Push(t, g, h)
            BY <1>6, <2>2
        <3>5. QED
            BY <1>1, <1>5, <1>8, <1>9, <3>2, <3>3, <3>4, PushMoves DEF f
    <2>3. QED
        BY <2>1, <2>2
<1>11. f.at \notin RLockPlaces \cup LockPlaces /\ "visit" \notin RLockPlaces \cup LockPlaces
    BY <1>1 DEF RLockPlaces, LockPlaces
<1>12. QED
    BY <1>1, <1>9, <1>10, <1>11, LocksStay DEF f

\* The calls that return, at last: the lock goes back before that of a reader does.
LEMMA RestKeeps ==
    ASSUME WInv, NEW t \in Callers, ReadEnds(t) \/ Passed(t) \/ VisitEnds(t)
    PROVE  WInv'
<1> DEFINE f == Top(t)
<1>1. Running(t) /\ inside' = inside /\ UNCHANGED shape
    BY DEF ReadEnds, Passed, VisitEnds, Is
<1>2. f \in Frames(stack) /\ inside \in SUBSET Stored
    BY <1>1, TopIs
<1>3. f.found \in BOOLEAN /\ f.todo \in SUBSET Stored
    BY <1>2 DEF Frames
<1>4. CASE ReadEnds(t)
    <2>1. Layer(f) = "safe" /\ f.at = "runlock" /\ LayerRUnlock(t, f.l) /\ Return(t, f.found, f.todo)
        BY <1>4 DEF ReadEnds, Is
    <2>2. GetsTo(t, "gone")
        BY <1>1, <1>2, <1>3, <2>1, ReturnMoves
    <2>3. "gone" \notin RLockPlaces \cup LockPlaces /\ f.at \in RLockPlaces
        BY <2>1 DEF RLockPlaces, LockPlaces
    <2>4. QED
        BY <1>1, <2>1, <2>2, <2>3, ReadEndsKeeps
<1>5. CASE Passed(t)
    <2>1. /\ f.at \in {"passed", "added"} /\ UNCHANGED <<shape, locks>>
          /\ Return(t, f.found \/ f.at = "added", f.todo)
        BY <1>5 DEF Passed, Is
    <2>2. (f.found \/ f.at = "added") \in BOOLEAN
        OBVIOUS
    <2>3. f.at \notin RLockPlaces \cup LockPlaces
        BY <2>1 DEF RLockPlaces, LockPlaces
    <2>4. QED
        BY <1>1, <1>2, <1>3, <2>1, <2>2, <2>3, ReturnStays
<1>6. CASE VisitEnds(t)
    <2>1. f.at = "visit" /\ UNCHANGED <<shape, locks>> /\ Return(t, FALSE, {})
        BY <1>6 DEF VisitEnds
    <2>2. FALSE \in BOOLEAN /\ {} \in SUBSET Stored
        OBVIOUS
    <2>3. f.at \notin RLockPlaces \cup LockPlaces
        BY <2>1 DEF RLockPlaces, LockPlaces
    <2>4. QED
        BY <1>1, <1>2, <2>1, <2>2, <2>3, ReturnStays
<1>7. QED
    BY <1>4, <1>5, <1>6

LEMMA NextKeeps ==
    ASSUME WInv, Nobody \notin Callers, [WrappersNext]_wrapperVars
    PROVE  WInv'
<1>1. CASE UNCHANGED wrapperVars
    <2>1. /\ sort' = sort /\ stack' = stack /\ inside' = inside /\ reading' = reading
          /\ writing' = writing /\ calls' = calls /\ frames' = frames
        BY <1>1 DEF wrapperVars
    <2>2. WTyped'
        BY <2>1 DEF WInv, WTyped, Frames
    <2>3. LocksAgree'
        <3>1. \A l \in 1 .. Len(stack') : Agrees(reading'[l], writing'[l], frames', l)
            BY <2>1, LocksAgreeIs DEF WInv
        <3>2. QED
            BY <3>1 DEF LocksAgree, Agrees
    <2>4. \A t \in Callers : Stacked(sort', stack', frames'[t], calls'[t])
        BY <2>1 DEF WInv
    <2>5. (\A t \in Callers : Stacked(sort, stack, frames[t], calls[t]))'
        BY <2>4 DEF Stacked, Makes, Deepens, FromCall, Fits, Frames, LayerOf
    <2>6. QED
        BY <2>2, <2>3, <2>5 DEF WInv
<1>2. CASE WrappersNext
    <2>1. PICK t \in Callers : Step(t)
        BY <1>2 DEF WrappersNext
    <2>2. QED
        BY <2>1, AnnounceKeeps, LockKeeps, UnlockKeeps, ReadKeeps, CopiedKeeps, PassKeeps, AskedKeeps,
           OwnKeeps, DoKeeps, LoopKeeps, VisitKeeps, RestKeeps DEF Step
<1>3. QED
    BY <1>1, <1>2

-----------------------------------------------------------------------------
(* How a container is wrapped, and the initial states                      *)

\* Induction, on a set of numbers.
LEMMA NumbersUpTo ==
    ASSUME NEW N \in Nat, NEW B, 0 \in B, \A i \in 1 .. N : i - 1 \in B => i \in B
    PROVE  \A i \in 0 .. N : i \in B
<1> DEFINE Bad == {i \in 0 .. N : i \notin B}  R == OpToRel(<, Nat)
<1>1. SUFFICES ASSUME Bad # {} PROVE FALSE
    OBVIOUS
<1>2. IsWellFoundedOn(R, Nat) /\ Bad \subseteq Nat
    <2>1. IsWellFoundedOn(R, Nat)
        BY NatLessThanWellFounded
    <2>2. Bad \subseteq Nat
        OBVIOUS
    <2>3. QED
        BY <2>1, <2>2
<1>3. ASSUME NEW x \in Nat, NEW y \in Nat PROVE <<x, y>> \in R <=> x < y
    BY DEF OpToRel
<1>4. PICK i \in Bad : \A j \in Bad : <<j, i>> \notin R
    <2> HIDE DEF Bad, R
    <2>1. QED
        BY <1>1, <1>2, WFMin
<1> HIDE DEF R
<1>5. \A j \in Bad : ~(j < i)
    BY <1>2, <1>3, <1>4
<1>6. i \in 1 .. N /\ i \notin B
    OBVIOUS
<1>7. i - 1 \in 0 .. N /\ i - 1 < i
    BY <1>6
<1>8. QED
    BY <1>5, <1>6, <1>7

LEMMA WrapIs ==
    ASSUME NEW K, NEW w \in Layers, NEW s \in Seq(Layers)
    PROVE  Wrap(K, w, s) \in Seq(Layers)
<1>1. <<"safe">> \in Seq(Layers) /\ <<"default">> \in Seq(Layers)
    BY DEF Layers
<1>2. <<"safe">> \o s \in Seq(Layers) /\ <<"default">> \o s \in Seq(Layers)
    BY <1>1, ConcatProperties
<1>3. QED
    BY <1>2 DEF Wrap, NewThreadSafe, NewDefault

LEMMA BuildIs ==
    ASSUME NEW K, NEW w \in Seq(Layers)
    PROVE  Build(K, w) \in Seq(Layers)
<1> DEFINE n == Len(w)
           Made(s, m) == /\ s \in [0 .. m -> Seq(Layers)] /\ s[0] = <<>>
                         /\ \A i \in 1 .. m : s[i] = Wrap(K, w[i], s[i - 1])
           Is0(s) == s = [i \in 0 .. n |-> IF i = 0 THEN <<>> ELSE Wrap(K, w[i], s[i - 1])]
           B == {m \in 0 .. n : \E s : Made(s, m)}
<1>1. n \in Nat /\ <<>> \in Seq(Layers) /\ \A i \in 1 .. n : w[i] \in Layers
    BY LenProperties, ElementOfSeq
<1> HIDE DEF n
<1>2. 0 \in B
    <2>1. Made([i \in 0 .. 0 |-> <<>>], 0)
        BY <1>1
    <2>2. 0 \in 0 .. n
        BY <1>1
    <2> HIDE DEF Made
    <2>3. QED
        BY <2>1, <2>2
<1>3. ASSUME NEW m \in 1 .. n, m - 1 \in B PROVE m \in B
    <2>1. PICK s : Made(s, m - 1)
        BY <1>3
    <2> DEFINE r == [i \in 0 .. m |-> IF i = m THEN Wrap(K, w[m], s[m - 1]) ELSE s[i]]
    <2>2. m \in Nat /\ m > 0 /\ m \in 0 .. n
        BY <1>1
    <2>3. s[m - 1] \in Seq(Layers)
        BY <2>1, <2>2
    <2>4. Wrap(K, w[m], s[m - 1]) \in Seq(Layers)
        BY <1>1, <2>3, WrapIs
    <2>5. r \in [0 .. m -> Seq(Layers)]
        <3>1. ASSUME NEW i \in 0 .. m, i # m PROVE s[i] \in Seq(Layers)
            <4>1. i \in 0 .. m - 1
                BY <2>2, <3>1
            <4>2. QED
                BY <2>1, <4>1
        <3>2. QED
            BY <2>4, <3>1
    <2>6. r[0] = <<>>
        BY <2>1, <2>2
    <2>7. ASSUME NEW i \in 1 .. m PROVE r[i] = Wrap(K, w[i], r[i - 1])
        <3>1. r[i - 1] = s[i - 1]
            BY <2>2
        <3>2. CASE i = m
            BY <2>2, <3>1, <3>2
        <3>3. CASE i # m
            <4>1. i \in 1 .. m - 1 /\ r[i] = s[i]
                BY <2>2, <3>3
            <4>2. QED
                BY <2>1, <3>1, <4>1
        <3>4. QED
            BY <3>2, <3>3
    <2> HIDE DEF r
    <2>8. Made(r, m)
        BY <2>5, <2>6, <2>7
    <2> HIDE DEF Made
    <2>9. QED
        BY <2>2, <2>8
<1>4. n \in B
    <2> HIDE DEF B
    <2>1. \A i \in 0 .. n : i \in B
        BY <1>1, <1>2, <1>3, NumbersUpTo
    <2>2. QED
        BY <1>1, <2>1
<1>5. PICK s : Made(s, n)
    BY <1>4
<1>6. Is0(s)
    <2>1. DOMAIN s = 0 .. n /\ \A i \in 0 .. n : s[i] = IF i = 0 THEN <<>> ELSE Wrap(K, w[i], s[i - 1])
        BY <1>1, <1>5
    <2>2. s = [i \in 0 .. n |-> s[i]]
        BY <1>5
    <2>3. QED
        BY <2>1, <2>2
<1> DEFINE c == CHOOSE q : Is0(q)
<1>7. Is0(c)
    <2> HIDE DEF Is0
    <2>1. QED
        BY <1>6
<1>8. Build(K, w) = c[n]
    BY DEF Build, n
<1> HIDE DEF c
<1>9. c[0] = <<>> /\ \A i \in 1 .. n : c[i] = Wrap(K, w[i], c[i - 1])
    BY <1>1, <1>7
<1> DEFINE D == {i \in 0 .. n : c[i] \in Seq(Layers)}
<1>10. 0 \in D
    <2>1. 0 \in 0 .. n /\ c[0] \in Seq(Layers)
        BY <1>1, <1>9
    <2>2. QED
        BY <2>1
<1>11. ASSUME NEW i \in 1 .. n, i - 1 \in D PROVE i \in D
    <2>1. Wrap(K, w[i], c[i - 1]) \in Seq(Layers)
        BY <1>1, <1>11, WrapIs
    <2>2. QED
        BY <1>1, <1>9, <2>1
<1>12. n \in D
    <2> HIDE DEF D
    <2>1. \A i \in 0 .. n : i \in D
        BY <1>1, <1>10, <1>11, NumbersUpTo
    <2>2. QED
        BY <1>1, <2>1
<1>13. QED
    BY <1>8, <1>12

LEMMA InitHolds ==
    ASSUME WrappersInit
    PROVE  WInv
<1>1. /\ sort \in Kinds /\ inside \in SUBSET Stored
      /\ reading = [l \in 1 .. Len(stack) |-> [t \in Callers |-> 0]]
      /\ writing = [l \in 1 .. Len(stack) |-> Nobody]
      /\ frames = [t \in Callers |-> <<Frame(calls[t].m, 1, calls[t].key)>>]
    BY DEF WrappersInit, Kinds
<1>2. stack \in Seq(Layers) /\ Len(stack) \in Nat
    <2>1. PICK w \in Wishes : stack = Build(sort, w)
        BY DEF WrappersInit
    <2>2. w \in Seq(Layers)
        BY WrappersAssumption DEF Layers
    <2>3. stack \in Seq(Layers)
        BY <2>1, <2>2, BuildIs
    <2>4. QED
        BY <2>3, LenProperties
<1>3. /\ calls \in [Callers -> UNION {CallsOf[t] : t \in Callers}]
      /\ \A t \in Callers : calls[t] \in CallsOf[t]
    BY DEF WrappersInit
<1>4. calls \in [Callers -> [m : Methods, key : Stored, back : PlainMethods \cup {"none"}]]
    BY <1>3, WrappersAssumption
<1>5. \A t \in Callers : calls[t].back # "none" => ~Loops(sort, calls[t].back)
    BY <1>1, <1>4, Tables
<1>6. ASSUME NEW t \in Callers
      PROVE  /\ frames[t] \in Seq(Frames(stack)) /\ Len(frames[t]) = 1
             /\ frames[t][1].l = 1 /\ frames[t][1].m = calls[t].m /\ frames[t][1].at = "enter"
    <2> DEFINE g == Frame(calls[t].m, 1, calls[t].key)
    <2>1. /\ g = [m |-> calls[t].m, l |-> 1, key |-> calls[t].key, at |-> "enter",
                  found |-> FALSE, todo |-> {}]
          /\ calls[t].m \in Methods /\ calls[t].key \in Stored /\ 1 \in 1 .. Len(stack) + 1
          /\ "enter" \in Places /\ FALSE \in BOOLEAN /\ {} \in SUBSET Stored
        BY <1>2, <1>4 DEF Frame, Places
    <2> HIDE DEF g
    <2>2. g \in Frames(stack) /\ g.l = 1 /\ g.m = calls[t].m /\ g.at = "enter"
        BY <2>1 DEF Frames
    <2>3. frames[t] = <<g>>
        BY <1>1 DEF g
    <2>4. QED
        BY <2>2, <2>3
<1>7. WTyped
    <2>1. reading \in [1 .. Len(stack) -> [Callers -> Nat]]
        BY <1>1
    <2>2. writing \in [1 .. Len(stack) -> Callers \cup {Nobody}]
        BY <1>1
    <2>3. frames \in [Callers -> Seq(Frames(stack))]
        BY <1>1, <1>6
    <2>4. QED
        BY <1>1, <1>2, <1>4, <1>5, <2>1, <2>2, <2>3 DEF WTyped
<1>8. ASSUME NEW t \in Callers PROVE Stacked(sort, stack, frames[t], calls[t])
    <2>0. 1 .. 1 = {1} /\ 1 .. 0 = {}
        OBVIOUS
    <2>1. \A i \in 1 .. Len(frames[t]) : i = 1
        BY <1>6, <2>0
    <2>2. Deepens(sort, frames[t])
        BY <2>1 DEF Deepens
    <2>3. FromCall(sort, stack, frames[t], calls[t])
        BY <1>6, <2>1 DEF FromCall
    <2>4. \A i \in 1 .. Len(frames[t]) : Fits(sort, stack, frames[t][i])
        BY <1>6, <2>1 DEF Fits
    <2>5. 1 .. Len(frames[t]) - 1 = {}
        <3>1. Len(frames[t]) - 1 = 0
            BY <1>6
        <3>2. QED
            BY <2>0, <3>1
    <2>6. QED
        BY <1>6, <2>2, <2>3, <2>4, <2>5 DEF Stacked
<1>9. LocksAgree
    <2>1. ASSUME NEW l, NEW t \in Callers
          PROVE  ReadsAt(frames[t], l) = {} /\ WritesAt(frames[t], l) = {}
        BY <1>6 DEF ReadsAt, WritesAt, RLockPlaces, LockPlaces
    <2>2. \A l \in 1 .. Len(stack), t \in Callers : reading[l][t] = 0 /\ writing[l] # t
        BY <1>1, WrappersAssumption
    <2>3. Cardinality({}) = 0
        BY FS_EmptySet
    <2>4. QED
        BY <2>1, <2>2, <2>3 DEF LocksAgree
<1>10. QED
    BY <1>7, <1>8, <1>9 DEF WInv

\* The locks of all layers are held by the calls that took them, and each call is
\* where its method and the one that made it say, for any layers, callers and keys.
THEOREM WrappersInvariant == WrappersSpec => []WInv
<1>1. WrappersInit => WInv
    BY InitHolds
<1>2. Nobody \notin Callers
    BY WrappersAssumption
<1>3. WInv /\ [WrappersNext]_wrapperVars => WInv'
    BY <1>2, NextKeeps
<1>4. QED
    BY <1>1, <1>3, PTL DEF WrappersSpec

-----------------------------------------------------------------------------
(* Whoever changes the container is alone there                            *)

\* A call in the container was made by one that holds the lock above it.
LEMMA BaseIsLocked ==
    ASSUME WInv, LocksLast, NEW t \in Callers, NEW i \in DOMAIN frames[t], frames[t][i].l = Bottom
    PROVE  LET n == Len(stack)
               s == frames[t]
           IN  /\ n \in 1 .. n
               /\ \/ i - 1 \in WritesAt(s, n) /\ s[i - 1].at = "unlock"
                  \/ i - 1 \in ReadsAt(s, n) /\ s[i].m \notin {"Add", "Remove"}
<1> DEFINE n == Len(stack)  s == frames[t]
<1>1. /\ sort \in Kinds /\ stack \in Seq(Layers) /\ stack # <<>> /\ stack[n] = "safe"
      /\ Stacked(sort, stack, s, calls[t])
    BY DEF WInv, WTyped, LocksLast
<1>2. s \in Seq(Frames(stack)) /\ Len(s) \in Nat /\ i \in 1 .. Len(s)
    <2>1. s \in Seq(Frames(stack))
        BY <1>1 DEF Stacked
    <2>2. Len(s) \in Nat /\ DOMAIN s = 1 .. Len(s)
        BY <2>1, LenProperties
    <2>3. QED
        BY <2>1, <2>2
<1>3. n \in Nat \ {0}
    BY <1>1, EmptySeq
<1> HIDE DEF n
<1>4. n \in 1 .. n /\ s[i].l = n + 1
    BY <1>3 DEF Bottom, n
<1> HIDE DEF s
<1>5. i # 1
    <2>1. s # <<>>
        BY <1>2, EmptySeq
    <2>2. s[1].l = 1
        BY <1>1, <2>1 DEF Stacked
    <2>3. QED
        BY <1>3, <1>4, <2>2
<1> DEFINE j == i - 1
<1>6. j \in 1 .. Len(s) /\ j \in 1 .. Len(s) - 1 /\ j + 1 = i
    BY <1>2, <1>5
<1> HIDE DEF j
<1>7. Makes(sort, stack, calls[t], s[j], s[i]) /\ Fits(sort, stack, s[j]) /\ s[j] \in Frames(stack)
    <2>1. Makes(sort, stack, calls[t], s[j], s[j + 1])
        BY <1>1, <1>6 DEF Stacked
    <2>2. Fits(sort, stack, s[j])
        BY <1>1, <1>6 DEF Stacked
    <2>3. QED
        BY <1>2, <1>6, <2>1, <2>2, ElementOfSeq
<1>8. s[j].l \in Nat
    BY <1>3, <1>7 DEF Frames, n
<1>9. /\ s[j].l = n /\ s[j].at \notin {"enter", "lock", "visit"}
      /\ s[j].at = "copied" => s[i].m = "Entries"
      /\ s[j].at = "runlock" => s[i].m = s[j].m
    BY <1>3, <1>4, <1>7, <1>8 DEF Makes
<1>10. LayerOf(stack, s[j]) = "safe"
    BY <1>1, <1>3, <1>9 DEF LayerOf, n
<1>11. /\ s[j].at \in {"unlock", "runlock", "copied"}
       /\ s[j].at = "runlock" => s[j].m \notin Safe(sort).write
    BY <1>7, <1>9, <1>10 DEF Fits, LockPlaces
<1>12. s[j].at = "runlock" => s[i].m \notin {"Add", "Remove"}
    BY <1>1, <1>9, <1>11, Tables
<1>13. CASE s[j].at = "unlock"
    BY <1>4, <1>6, <1>9, <1>13 DEF WritesAt, LockPlaces, j, n, s
<1>14. CASE s[j].at \in {"runlock", "copied"}
    <2>1. s[i].m \notin {"Add", "Remove"}
        BY <1>9, <1>12, <1>14
    <2>2. j \in ReadsAt(s, n)
        BY <1>6, <1>9, <1>14 DEF ReadsAt, RLockPlaces
    <2>3. QED
        BY <1>4, <2>1, <2>2 DEF j, n, s
<1>15. QED
    BY <1>11, <1>13, <1>14

LEMMA WritersApart ==
    ASSUME WInv, Nobody \notin Callers
    PROVE  ChangersAreAlone
<1>1. SUFFICES ASSUME LocksLast, NEW t \in Callers, NEW u \in Callers, t # u, Changes(t), InBase(u)
               PROVE  FALSE
    BY DEF ChangersAreAlone
<1> DEFINE n == Len(stack)
<1>2. PICK i \in DOMAIN frames[t] : frames[t][i].l = Bottom /\ frames[t][i].m \in {"Add", "Remove"}
    BY <1>1 DEF Changes
<1>3. PICK j \in DOMAIN frames[u] : frames[u][j].l = Bottom
    BY <1>1 DEF InBase
<1>4. n \in 1 .. n /\ i - 1 \in WritesAt(frames[t], n) /\ frames[t][i - 1].at = "unlock"
    BY <1>1, <1>2, BaseIsLocked
<1>5. (j - 1 \in WritesAt(frames[u], n)) \/ j - 1 \in ReadsAt(frames[u], n)
    BY <1>1, <1>3, BaseIsLocked
<1> HIDE DEF n
<1>6. n \in 1 .. Len(stack) /\ Agrees(reading[n], writing[n], frames, n)
    BY <1>4, LocksAgreeIs DEF WInv, n
<1>7. writing[n] = t /\ reading[n][u] = 0
    <2>1. WritesAt(frames[t], n) # {}
        BY <1>4
    <2>2. writing[n] = t
        BY <1>6, <2>1 DEF Agrees
    <2>3. \A x \in Callers : reading[n][x] = 0
        BY <1>4, <1>6 DEF Agrees
    <2>4. QED
        BY <2>2, <2>3
<1>8. WritesAt(frames[u], n) = {}
    BY <1>1, <1>6, <1>7 DEF Agrees
<1>9. ReadsAt(frames[u], n) = {}
    <2>1. frames[u] \in Seq(Frames(stack))
        BY DEF WInv, WTyped
    <2>2. IsFiniteSet(1 .. Len(frames[u]))
        <3>1. Len(frames[u]) \in Int
            BY <2>1, LenProperties
        <3>2. QED
            BY <3>1, FS_Interval
    <2>3. IsFiniteSet(ReadsAt(frames[u], n))
        <3>1. ReadsAt(frames[u], n) \subseteq 1 .. Len(frames[u])
            BY DEF ReadsAt
        <3>2. QED
            BY <2>2, <3>1, FS_Subset
    <2>4. Cardinality(ReadsAt(frames[u], n)) = 0
        BY <1>6, <1>7 DEF Agrees
    <2>5. QED
        BY <2>3, <2>4, FS_EmptySet
<1>10. QED
    BY <1>5, <1>8, <1>9

-----------------------------------------------------------------------------
(* Who waits for whom                                                      *)

LEMMA GreatestOf ==
    ASSUME NEW N \in Nat, NEW S \in SUBSET (1 .. N), S # {}
    PROVE  \E x \in S : \A y \in S : y <= x
<1> DEFINE D == {d \in 0 .. N : \A y \in S : y <= N - d}
<1>1. SUFFICES ASSUME \A x \in S : \E y \in S : ~(y <= x) PROVE FALSE
    OBVIOUS
<1>2. 0 \in D
    BY DEF D
<1>3. ASSUME NEW d \in 1 .. N, d - 1 \in D PROVE d \in D
    <2>1. ASSUME NEW y \in S PROVE y <= N - d
        <3>1. y <= N - (d - 1) /\ y \in 1 .. N
            BY <1>3
        <3>2. y # N - (d - 1)
            BY <1>1, <1>3
        <3>3. QED
            BY <3>1, <3>2
    <2>2. QED
        BY <2>1
<1>4. N \in D
    <2> HIDE DEF D
    <2>1. \A d \in 0 .. N : d \in D
        BY <1>2, <1>3, NumbersUpTo
    <2>2. QED
        BY <2>1
<1>5. PICK x \in S : x \in 1 .. N
    OBVIOUS
<1>6. QED
    BY <1>4, <1>5

\* Who holds a read lock that is waited for, and waits in no deeper layer, is in the
\* function of one of four methods.
LEMMA ReaderCallsBack ==
    ASSUME WInv, NEW u \in Callers, NEW l \in 1 .. Len(stack), NEW i \in ReadsAt(frames[u], l),
           i < Len(frames[u]), ~(Top(u).l > l)
    PROVE  calls[u].m \in Held /\ InCallback(u) /\ ~DefaultSetOnTop
<1> DEFINE s == frames[u]  n == Len(s)
<1>1. sort \in Kinds /\ stack \in Seq(Layers) /\ Stacked(sort, stack, s, calls[u]) /\ s \in Seq(Frames(stack))
    BY DEF WInv, WTyped, Stacked
<1>2. n \in Nat /\ i \in 1 .. n /\ n \in 1 .. n
    <2>1. n \in Nat /\ i \in 1 .. n
        BY <1>1, LenProperties DEF ReadsAt
    <2>2. QED
        BY <2>1
<1> HIDE DEF n, s
<1>3. s[i].l = l /\ s[i].at \in {"runlock", "copied"}
    BY DEF ReadsAt, RLockPlaces, s
<1>4. i < n /\ ~(s[n].l > l)
    BY DEF Top, s, n
<1>5. /\ ~Loops(sort, s[i].m) \/ s[i].at = "copied" => s[n].l > l
      /\ s[n].l > l \/ \E k \in i + 1 .. n : s[k].l = 1
    BY <1>1, <1>2, <1>3, <1>4 DEF Stacked, Deepens, n
<1>6. Loops(sort, s[i].m) /\ s[i].at = "runlock"
    BY <1>3, <1>4, <1>5
<1>7. Fits(sort, stack, s[i])
    BY <1>1, <1>2 DEF Stacked, n
<1>8. LayerOf(stack, s[i]) = "safe" /\ s[i].m \notin Safe(sort).copy
    BY <1>6, <1>7 DEF Fits, LockPlaces
<1>9. s[i].m \in Held /\ s[i].m # "Seq"
    BY <1>1, <1>6, <1>8, Tables DEF Held
<1>10. /\ s[i].m = calls[u].m
       /\ sort \in {"set", "oset"} /\ stack # <<>> /\ stack[1] = "default" => ~(i > 1)
    BY <1>1, <1>2, <1>6, <1>9 DEF Stacked, FromCall, n
<1>11. InCallback(u)
    <2>1. PICK k \in i + 1 .. n : s[k].l = 1
        BY <1>4, <1>5
    <2>2. k \in 2 .. n
        BY <1>2
    <2>3. QED
        BY <2>1, <2>2 DEF InCallback, s, n
<1>12. ASSUME DefaultSetOnTop PROVE FALSE
    <2>1. stack[1] = "default" /\ i = 1
        BY <1>2, <1>10, <1>12 DEF DefaultSetOnTop
    <2>2. s[i].l = 1
        <3>1. s # <<>>
            BY <1>2 DEF n
        <3>2. QED
            BY <1>1, <2>1, <3>1 DEF Stacked
    <2>3. LayerOf(stack, s[i]) = "default"
        <3>1. Len(stack) \in Nat
            BY <1>1, LenProperties
        <3>2. 1 # Len(stack) + 1
            BY <1>3, <2>2, <3>1
        <3>3. QED
            BY <2>1, <2>2, <3>2 DEF LayerOf
    <2>4. QED
        BY <1>8, <2>3
<1>13. QED
    BY <1>9, <1>10, <1>11, <1>12

\* Who writes, or is about to, waits for readers if it waits in no deeper layer.
LEMMA WriterWaits ==
    ASSUME WInv, NEW w \in Callers, NEW l \in 1 .. Len(stack), writing[l] = w, ~(Top(w).l > l), IsWaiting(w)
    PROVE  Top(w).l = l /\ \E u \in Callers : reading[l][u] # 0
<1> DEFINE s == frames[w]  n == Len(s)
<1>1. sort \in Kinds /\ stack \in Seq(Layers) /\ Stacked(sort, stack, s, calls[w]) /\ s \in Seq(Frames(stack))
    BY DEF WInv, WTyped, Stacked
<1>2. PICK i \in WritesAt(s, l) : TRUE
    BY DEF WInv, LocksAgree
<1>3. n \in Nat /\ i \in 1 .. n /\ n \in 1 .. n
    <2>1. n \in Nat /\ i \in 1 .. n
        BY <1>1, LenProperties DEF WritesAt
    <2>2. QED
        BY <2>1
<1> HIDE DEF n, s
<1>4. s[i].l = l /\ s[i].at \in {"lock", "unlock"} /\ ~(s[n].l > l) /\ Top(w) = s[n]
    BY DEF WritesAt, LockPlaces, Top, s, n
<1>5. i = n
    <2>1. SUFFICES ASSUME i # n PROVE FALSE
        OBVIOUS
    <2>2. i < n /\ i \in 1 .. n - 1
        BY <1>3, <2>1
    <2>3. Makes(sort, stack, calls[w], s[i], s[i + 1]) /\ Fits(sort, stack, s[i])
        BY <1>1, <1>3, <2>2 DEF Stacked, n
    <2>4. s[i].m \in Safe(sort).write
        BY <1>4, <2>3 DEF Makes, Fits, LockPlaces
    <2>5. ~Loops(sort, s[i].m)
        BY <1>1, <2>4, Tables
    <2>6. s[n].l > s[i].l
        BY <1>1, <1>3, <2>2, <2>5 DEF Stacked, Deepens, n
    <2>7. QED
        BY <1>4, <2>6
<1>6. Top(w).l = l /\ Top(w).at \in {"lock", "unlock"}
    BY <1>4, <1>5
<1>7. QED
    BY <1>6 DEF IsWaiting, Is

LEMMA NobodyStuck ==
    ASSUME WInv, Nobody \notin Callers
    PROVE  NoCallerIsStuck
<1>1. SUFFICES ASSUME NEW p \in Callers, Running(p), \A t \in Callers : Running(t) => IsWaiting(t)
               PROVE  \E t \in Callers : calls[t].m \in Held /\ InCallback(t) /\ HoldsLock(t) /\ ~DefaultSetOnTop
    BY DEF NoCallerIsStuck, Held
<1> DEFINE S == {Top(t).l : t \in {t \in Callers : Running(t)}}
<1>2. stack \in Seq(Layers) /\ Len(stack) \in Nat
    BY <1>1, TopIs
<1>3. ASSUME NEW t \in Callers, Running(t)
      PROVE  Layer(Top(t)) = "safe" /\ Top(t).l \in 1 .. Len(stack) /\ Top(t).at \in {"enter", "lock"}
    <2>1. Layer(Top(t)) = "safe" /\ Top(t).at \in {"enter", "lock"}
        BY <1>1, <1>3 DEF IsWaiting, Is
    <2>2. QED
        BY <1>3, <2>1, TopIs
<1>4. S # {} /\ S \in SUBSET (1 .. Len(stack))
    BY <1>1, <1>3
<1>5. PICK l \in S : \A k \in S : k <= l
    <2> HIDE DEF S
    <2>1. QED
        BY <1>2, <1>4, GreatestOf
<1>6. PICK t \in Callers : Running(t) /\ Top(t).l = l
    OBVIOUS
<1>7. l \in 1 .. Len(stack) /\ \A u \in Callers : Running(u) => ~(Top(u).l > l)
    <2>1. l \in 1 .. Len(stack)
        BY <1>3, <1>6
    <2>2. ASSUME NEW u \in Callers, Running(u) PROVE ~(Top(u).l > l)
        <3>1. Top(u).l \in 1 .. Len(stack) /\ Top(u).l <= l
            BY <1>3, <1>5, <2>2
        <3>2. QED
            BY <1>2, <2>1, <3>1
    <2>3. QED
        BY <2>1, <2>2
<1> HIDE DEF S
<1>8. \E u \in Callers : reading[l][u] # 0
    <2>1. CASE Top(t).at = "lock"
        BY <1>1, <1>6, <2>1 DEF IsWaiting, Is
    <2>2. CASE Top(t).at = "enter"
        <3>1. writing[l] # Nobody
            BY <1>1, <1>6, <2>2 DEF IsWaiting, Is
        <3>2. writing[l] \in Callers
            BY <1>7, <3>1 DEF WInv, WTyped
        <3>3. Running(writing[l])
            <4>1. WritesAt(frames[writing[l]], l) # {}
                BY <1>7, <3>2 DEF WInv, LocksAgree
            <4>2. Len(<<>>) = 0
                BY EmptySeq
            <4>3. QED
                BY <4>1, <4>2 DEF WritesAt, Running
        <3>4. QED
            BY <1>1, <1>7, <3>2, <3>3, WriterWaits
    <2>3. QED
        BY <1>3, <1>6, <2>1, <2>2
<1>9. PICK u \in Callers : reading[l][u] # 0
    BY <1>8
<1>10. ReadsAt(frames[u], l) # {} /\ HoldsLock(u)
    <2>1. reading[l][u] = Cardinality(ReadsAt(frames[u], l))
        BY <1>7 DEF WInv, LocksAgree
    <2>2. reading[l][u] > 0 /\ l \in DOMAIN reading
        <3>1. reading \in [1 .. Len(stack) -> [Callers -> Nat]]
            BY DEF WInv, WTyped
        <3>2. reading[l] \in [Callers -> Nat] /\ DOMAIN reading = 1 .. Len(stack)
            BY <1>7, <3>1
        <3>3. reading[l][u] \in Nat
            BY <3>2
        <3>4. QED
            BY <1>7, <1>9, <3>2, <3>3
    <2>3. HoldsLock(u)
        BY <2>2 DEF HoldsLock
    <2>4. Cardinality({}) = 0
        BY FS_EmptySet
    <2>5. QED
        BY <1>9, <2>1, <2>3, <2>4
<1>11. PICK i \in ReadsAt(frames[u], l) : TRUE
    BY <1>10
<1>12. Running(u) /\ i \in 1 .. Len(frames[u]) /\ frames[u][i].at \in RLockPlaces /\ Len(frames[u]) \in Nat
    <2>1. frames[u] \in Seq(Frames(stack))
        BY DEF WInv, WTyped
    <2>2. i \in 1 .. Len(frames[u]) /\ Len(frames[u]) \in Nat
        BY <2>1, LenProperties DEF ReadsAt
    <2>3. frames[u] # <<>>
        BY <2>2, EmptySeq
    <2>4. QED
        BY <2>2, <2>3 DEF ReadsAt, Running
<1>13. i < Len(frames[u])
    <2>1. i # Len(frames[u])
        BY <1>3, <1>12 DEF RLockPlaces, Top
    <2>2. QED
        BY <1>12, <2>1
<1>14. QED
    BY <1>7, <1>10, <1>12, <1>13, ReaderCallsBack

-----------------------------------------------------------------------------
(* What a call returns                                                     *)

LEMMA AgainIs ==
    ASSUME WTyped, NEW m \in {"Clone", "Filter", "FilterNot"}
                             \cup (IF sort \in {"map", "omap"} THEN {"Map", "FlatMap"} ELSE {}),
           NEW l \in 1 .. Len(stack)
    PROVE  Again(l, m)
<1>1. sort \in Kinds /\ stack[l] \in {"safe", "default"}
    BY ElementOfSeq DEF WTyped, Layers
<1>2. m \in Safe(sort).again
    <2>1. CASE sort = "map"
        BY <2>1 DEF Safe, SafeMapCalls, SafeMapCallbacks
    <2>2. CASE sort = "omap"
        BY <2>2 DEF Safe, SafeOrderedMapCalls, SafeOrderedMapCallbacks, SafeMapCalls, SafeMapCallbacks
    <2>3. CASE sort = "set"
        BY <2>3 DEF Safe, SafeSet
    <2>4. CASE sort = "oset"
        BY <2>4 DEF Safe, SafeOrderedSet, SafeSet
    <2>5. QED
        BY <1>1, <2>1, <2>2, <2>3, <2>4 DEF Kinds
<1>3. m \in Default(sort).again \cup Default(sort).own
    <2>1. CASE sort = "map"
        BY <2>1 DEF Default, DefaultMapCalls, DefaultMapCallbacks, Nothing
    <2>2. CASE sort = "omap"
        BY <2>2 DEF Default, DefaultOrderedMapCalls, DefaultOrderedMapCallbacks, DefaultMapCalls,
                    DefaultMapCallbacks, Nothing
    <2>3. CASE sort = "set"
        BY <2>3 DEF Default, DefaultSet
    <2>4. CASE sort = "oset"
        BY <2>4 DEF Default, DefaultOrderedSet, DefaultSet
    <2>5. QED
        BY <1>1, <2>1, <2>2, <2>3, <2>4 DEF Kinds
<1>4. QED
    BY <1>2, <1>3 DEF Again

LEMMA WrapsKept ==
    ASSUME WTyped
    PROVE  WrapsAreKept
<1>1. SUFFICES ASSUME NEW m \in {"Clone", "Filter", "FilterNot"}
                                \cup (IF sort \in {"map", "omap"} THEN {"Map", "FlatMap"} ELSE {})
               PROVE  Result(m) = stack
    BY DEF WrapsAreKept
<1> DEFINE n == Len(stack)
           Is1(s) == s = [l \in 1 .. Bottom |->
                             IF l = Bottom THEN <<>>
                             ELSE IF Again(l, m) THEN <<stack[l]>> \o s[l + 1] ELSE s[l + 1]]
           h == [l \in 1 .. Bottom |-> SubSeq(stack, l, n)]
           c == CHOOSE s : Is1(s)
<1>2. stack \in Seq(Layers) /\ n \in Nat /\ Bottom = n + 1
    BY LenProperties DEF WTyped, Bottom
<1>3. \A l \in 1 .. n : Again(l, m)
    BY <1>1, AgainIs
<1> HIDE DEF n
<1>4. ASSUME NEW l \in 1 .. n
      PROVE  SubSeq(stack, l, n) = <<stack[l]>> \o SubSeq(stack, l + 1, n)
    <2>1. l \in 1 .. Len(stack) /\ n \in l .. Len(stack)
        BY <1>2 DEF n
    <2>2. QED
        BY <1>2, <2>1, SubSeqRecursiveFirst
<1>5. SubSeq(stack, n + 1, n) = <<>>
    BY <1>2, SubSeqEmpty
<1>6. Is1(h)
    <2>1. ASSUME NEW l \in 1 .. Bottom
          PROVE  SubSeq(stack, l, n) =
                    IF l = Bottom THEN <<>>
                    ELSE IF Again(l, m) THEN <<stack[l]>> \o h[l + 1] ELSE h[l + 1]
        <3>1. CASE l = Bottom
            BY <1>2, <1>5, <3>1
        <3>2. CASE l # Bottom
            <4>1. l \in 1 .. n /\ l + 1 \in 1 .. Bottom
                BY <1>2, <3>2
            <4>2. h[l + 1] = SubSeq(stack, l + 1, n)
                BY <4>1
            <4> HIDE DEF h
            <4>3. QED
                BY <1>3, <1>4, <3>2, <4>1, <4>2
        <3>3. QED
            BY <3>1, <3>2
    <2>2. QED
        BY <2>1
<1>7. Is1(c)
    <2> HIDE DEF Is1, h
    <2>1. QED
        BY <1>6
<1>8. Result(m) = c[1]
    BY DEF Result
<1> HIDE DEF c, h
<1>9. /\ c[n + 1] = <<>>
      /\ \A l \in 1 .. n : c[l] = <<stack[l]>> \o c[l + 1]
    <2>1. ASSUME NEW l \in 1 .. Bottom
          PROVE  c[l] = IF l = Bottom THEN <<>>
                        ELSE IF Again(l, m) THEN <<stack[l]>> \o c[l + 1] ELSE c[l + 1]
        BY <1>7
    <2>2. n + 1 \in 1 .. Bottom /\ \A l \in 1 .. n : l \in 1 .. Bottom /\ l # Bottom
        BY <1>2
    <2>3. QED
        BY <1>2, <1>3, <2>1, <2>2
<1> HIDE DEF Is1
<1> DEFINE D == {d \in 0 .. n : c[n + 1 - d] = SubSeq(stack, n + 1 - d, n)}
<1>10. 0 \in D
    <2>1. n + 1 - 0 = n + 1 /\ 0 \in 0 .. n
        BY <1>2
    <2>2. QED
        BY <1>5, <1>9, <2>1
<1>11. ASSUME NEW d \in 1 .. n, d - 1 \in D PROVE d \in D
    <2> DEFINE l == n + 1 - d
    <2>1. l \in 1 .. n /\ l + 1 = n + 1 - (d - 1) /\ d \in 0 .. n
        BY <1>2
    <2>2. c[l + 1] = SubSeq(stack, l + 1, n)
        BY <1>11, <2>1
    <2> HIDE DEF l
    <2>3. c[l] = SubSeq(stack, l, n)
        BY <1>4, <1>9, <2>1, <2>2
    <2>4. QED
        BY <2>1, <2>3 DEF l
<1>12. n \in D
    <2> HIDE DEF D
    <2>1. \A d \in 0 .. n : d \in D
        BY <1>2, <1>10, <1>11, NumbersUpTo
    <2>2. QED
        BY <1>2, <2>1
<1>13. c[1] = SubSeq(stack, 1, n)
    <2>1. n + 1 - n = 1
        BY <1>2
    <2>2. QED
        BY <1>12, <2>1
<1>14. QED
    BY <1>2, <1>8, <1>13, SubSeqFull DEF n

-----------------------------------------------------------------------------
\* Whoever changes the container is alone there; callers wait for each other in a
\* circle only in the function of a Filter, a FilterNot, a Map or a FlatMap that
\* calls the container; and what is filtered out of a thread-safe or a default
\* container is one, too: for any layers, callers and keys.
THEOREM WrappersAreSound == WrappersSpec => []WrappersAreTrue
<1>1. Nobody \notin Callers
    BY WrappersAssumption
<1>2. WInv => WrappersAreTrue
    BY <1>1, WritersApart, NobodyStuck, WrapsKept DEF WrappersAreTrue, WInv
<1>3. QED
    BY <1>2, WrappersInvariant, PTL

=============================================================================
