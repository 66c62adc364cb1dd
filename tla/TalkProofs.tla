----------------------------- MODULE TalkProofs -----------------------------
(***************************************************************************)
(* What holds of an actor for any set of callers, kinds of calls, weights, *)
(* buckets and any inbox; and of futures for any number of sources, of     *)
(* goroutines that fulfill each of them, and of callbacks.                 *)
(***************************************************************************)
EXTENDS Actor, Future, FiniteSetTheorems, SequenceTheorems, TLAPS

(***************************************************************************)
(* Actor                                                                   *)
(***************************************************************************)

-----------------------------------------------------------------------------
(* Queues                                                                  *)

\* A finite set that a relation orders strictly has an element below no other.
LEMMA Undominated ==
    ASSUME NEW S, IsFiniteSet(S), S # {}, NEW R,
           \A x \in S : <<x, x>> \notin R,
           \A x, y, z \in S : <<x, y>> \in R /\ <<y, z>> \in R => <<x, z>> \in R
    PROVE  \E x \in S : \A y \in S : <<y, x>> \notin R
<1> DEFINE Above(x) == {y \in S : <<y, x>> \in R}
           T == {Above(x) : x \in S}
<1>1. IsWellFoundedOn(StrictSubsetOrdering(S), SUBSET S)
    BY FS_StrictSubsetOrderingWellFounded, FS_FiniteSubsetsOfFinite
<1>2. T \subseteq SUBSET S /\ T # {}
  <2>1. \A x \in S : Above(x) \in SUBSET S
      OBVIOUS
  <2>2. PICK s \in S : TRUE
      OBVIOUS
  <2>3. Above(s) \in T
      OBVIOUS
  <2> HIDE DEF Above
  <2>4. QED
      BY <2>1, <2>3
<1> HIDE DEF T
<1>3. PICK A \in T : \A B \in T : <<B, A>> \notin StrictSubsetOrdering(S)
    BY <1>1, <1>2, WFMin
<1>4. PICK x \in S : A = Above(x)
    BY <1>3 DEF T
<1>5. ASSUME NEW y \in Above(x) PROVE FALSE
  <2>1. Above(y) \subseteq Above(x) /\ y \notin Above(y)
      BY <1>5
  <2>2. <<Above(y), Above(x)>> \in StrictSubsetOrdering(S)
      BY <1>5, <2>1 DEF StrictSubsetOrdering
  <2>3. QED
      BY <1>3, <1>4, <1>5, <2>2 DEF T
<1>6. QED
    BY <1>5

\* The message to deliver is one of those in the queue.
LEMMA FirstFacts ==
    ASSUME NEW q \in Seq(Callers), q # <<>>
    PROVE  /\ First(q) \in 1..Len(q) /\ DOMAIN q = 1..Len(q) /\ Len(q) \in Nat
           /\ \A j \in DOMAIN q : Rank(q[First(q)]) > Rank(q[j])
                                  \/ (Rank(q[First(q)]) = Rank(q[j]) /\ First(q) <= j)
<1>1. Len(q) \in Nat /\ DOMAIN q = 1..Len(q) /\ Len(q) # 0 /\ \A i \in 1..Len(q) : q[i] \in Callers
    BY EmptySeq, LenProperties, ElementOfSeq
<1>2. \A c \in Callers : Rank(c) \in Int
  <2> SUFFICES ASSUME NEW c \in Callers PROVE Rank(c) \in Int
      OBVIOUS
  <2>1. Weight[c] \in Nat /\ Buckets \in Nat
      BY ActorAssumption
  <2>2. Bucket(Weight[c]) \in Int
      BY <2>1 DEF Bucket
  <2>3. QED
      BY <2>1, <2>2 DEF Rank
<1> DEFINE D == 1..Len(q)
           r == [i \in D |-> Rank(q[i])]
           R == {p \in D \X D : r[p[1]] > r[p[2]] \/ (r[p[1]] = r[p[2]] /\ p[1] < p[2])}
<1>3. r \in [D -> Int]
    BY <1>1, <1>2
<1>4. \A i, j \in D : <<i, j>> \in R <=> r[i] > r[j] \/ (r[i] = r[j] /\ i < j)
    OBVIOUS
<1>5. IsFiniteSet(D) /\ D # {}
  <2>1. IsFiniteSet(1..Len(q))
      BY <1>1, FS_Interval
  <2>2. 1 \in 1..Len(q)
      BY <1>1
  <2>3. QED
      BY <2>1, <2>2
<1> HIDE DEF r, R
<1>7. \A i \in D : <<i, i>> \notin R
    BY <1>3, <1>4
<1>8. ASSUME NEW i \in D, NEW j \in D, NEW k \in D, <<i, j>> \in R, <<j, k>> \in R
      PROVE  <<i, k>> \in R
  <2>1. r[i] \in Int /\ r[j] \in Int /\ r[k] \in Int /\ i \in Int /\ j \in Int /\ k \in Int
      BY <1>1, <1>3
  <2>2. (r[i] > r[j] \/ (r[i] = r[j] /\ i < j)) /\ (r[j] > r[k] \/ (r[j] = r[k] /\ j < k))
      BY <1>4, <1>8
  <2>3. r[i] > r[k] \/ (r[i] = r[k] /\ i < k)
      BY <2>1, <2>2
  <2>4. QED
      BY <1>4, <2>3
<1>9. PICK i \in D : \A j \in D : <<j, i>> \notin R
  <2> HIDE DEF D
  <2> QED
      BY <1>5, <1>7, <1>8, Undominated
<1>10. ASSUME NEW j \in D PROVE r[i] > r[j] \/ (r[i] = r[j] /\ i <= j)
  <2>1. r[i] \in Int /\ r[j] \in Int /\ i \in Int /\ j \in Int
      BY <1>1, <1>3
  <2>2. ~(r[j] > r[i] \/ (r[j] = r[i] /\ j < i))
      BY <1>4, <1>9
  <2>3. QED
      BY <2>1, <2>2
<1>11. \A j \in DOMAIN q : Rank(q[i]) > Rank(q[j]) \/ (Rank(q[i]) = Rank(q[j]) /\ i <= j)
    BY <1>1, <1>10 DEF r
<1>12. QED
    BY <1>1, <1>11 DEF First

\* Of two messages in a queue the first is among those the other came after.
Aged(q, e) == \A i, j \in 1..Len(q) : i < j => q[i] \in e[q[j]]

\* Removing a message leaves the others, each once, in the same order.
LEMMA RemoveFacts ==
    ASSUME NEW q \in Seq(Callers), NEW i \in 1..Len(q), IsInjective(q)
    PROVE  /\ RemoveAt(q, i) \in Seq(Callers) /\ IsInjective(RemoveAt(q, i))
           /\ Len(RemoveAt(q, i)) = Len(q) - 1
           /\ ToSet(RemoveAt(q, i)) = ToSet(q) \ {q[i]} /\ q[i] \in ToSet(q)
           /\ \A e : Aged(q, e) => Aged(RemoveAt(q, i), e)
<1> DEFINE n == Len(q)
           a == SubSeq(q, 1, i - 1)
           b == SubSeq(q, i + 1, n)
<1>1. n \in Nat /\ DOMAIN q = 1..n /\ i \in Int /\ 1 <= i /\ i <= n
      /\ \A k \in 1..n : q[k] \in Callers
    BY LenProperties, ElementOfSeq
<1>2. a \in Seq(Callers) /\ Len(a) = i - 1 /\ \A k \in 1..(i - 1) : a[k] = q[k]
  <2>1. /\ a \in Seq(Callers) /\ Len(a) = (IF 1 <= i - 1 THEN (i - 1) - 1 + 1 ELSE 0)
        /\ \A k \in 1..((i - 1) - 1 + 1) : a[k] = q[1 + k - 1]
      BY <1>1, SubSeqProperties
  <2> HIDE DEF a
  <2>2. Len(a) = i - 1
      BY <1>1, <2>1
  <2>3. (i - 1) - 1 + 1 = i - 1
      BY <1>1
  <2>4. \A k \in 1..(i - 1) : 1 + k - 1 = k
      BY <1>1
  <2>5. \A k \in 1..(i - 1) : a[k] = q[k]
      BY <2>1, <2>3, <2>4
  <2>6. QED
      BY <2>1, <2>2, <2>5
<1>3. b \in Seq(Callers) /\ Len(b) = n - i /\ \A k \in 1..(n - i) : b[k] = q[i + k]
  <2>1. /\ b \in Seq(Callers) /\ Len(b) = (IF i + 1 <= n THEN n - (i + 1) + 1 ELSE 0)
        /\ \A k \in 1..(n - (i + 1) + 1) : b[k] = q[(i + 1) + k - 1]
      BY <1>1, SubSeqProperties
  <2> HIDE DEF n, b
  <2>2. Len(b) = n - i
      BY <1>1, <2>1
  <2>3. n - (i + 1) + 1 = n - i
      BY <1>1
  <2>4. \A k \in 1..(n - i) : (i + 1) + k - 1 = i + k
      BY <1>1
  <2>5. \A k \in 1..(n - i) : b[k] = q[i + k]
      BY <2>1, <2>3, <2>4
  <2>6. QED
      BY <2>1, <2>2, <2>5
<1> DEFINE s == a \o b
<1>4. RemoveAt(q, i) = s
    BY DEF RemoveAt
<1>5. /\ s \in Seq(Callers) /\ Len(s) = Len(a) + Len(b)
      /\ \A k \in 1..(Len(a) + Len(b)) : s[k] = IF k <= Len(a) THEN a[k] ELSE b[k - Len(a)]
    BY <1>2, <1>3, ConcatProperties
<1> HIDE DEF n, a, b, s
<1>6. Len(s) = n - 1 /\ \A k \in 1..(n - 1) : s[k] = IF k < i THEN q[k] ELSE q[k + 1]
    BY <1>1, <1>2, <1>3, <1>5
<1>7. DOMAIN s = 1..(n - 1)
    BY <1>5, <1>6, LenProperties
<1>8. \A k, l \in 1..n : q[k] = q[l] => k = l
    BY <1>1 DEF IsInjective
<1>9. IsInjective(s)
    BY <1>1, <1>6, <1>7, <1>8 DEF IsInjective
<1>10. \A k \in 1..(n - 1) : s[k] \in ToSet(q) \ {q[i]}
  <2> TAKE k \in 1..(n - 1)
  <2>1. CASE k < i
    <3>1. k \in 1..n /\ k # i /\ s[k] = q[k]
        BY <1>1, <1>6, <2>1
    <3>2. QED
        BY <1>1, <1>8, <3>1 DEF ToSet
  <2>2. CASE ~(k < i)
    <3>1. k + 1 \in 1..n /\ k + 1 # i /\ s[k] = q[k + 1]
        BY <1>1, <1>6, <2>2
    <3>2. QED
        BY <1>1, <1>8, <3>1 DEF ToSet
  <2>3. QED
      BY <2>1, <2>2
<1>11. ASSUME NEW k \in 1..n, k # i PROVE \E l \in 1..(n - 1) : s[l] = q[k]
  <2>1. CASE k < i
      BY <1>1, <1>6, <1>11, <2>1
  <2>2. CASE k > i
    <3>1. k - 1 \in 1..(n - 1) /\ ~(k - 1 < i) /\ (k - 1) + 1 = k
        BY <1>1, <1>11, <2>2
    <3>2. QED
        BY <1>6, <3>1
  <2>3. QED
      BY <1>1, <1>11, <2>1, <2>2
<1>12. ToSet(s) = ToSet(q) \ {q[i]} /\ q[i] \in ToSet(q)
  <2>1. ToSet(s) \subseteq ToSet(q) \ {q[i]}
      BY <1>7, <1>10 DEF ToSet
  <2>2. ASSUME NEW x \in ToSet(q), x # q[i] PROVE x \in ToSet(s)
    <3>1. PICK k \in 1..n : q[k] = x
        BY <1>1 DEF ToSet
    <3>2. PICK l \in 1..(n - 1) : s[l] = x
        BY <1>11, <2>2, <3>1
    <3>3. QED
        BY <1>7, <3>2 DEF ToSet
  <2>3. q[i] \in ToSet(q)
      BY <1>1 DEF ToSet
  <2>4. QED
      BY <2>1, <2>2, <2>3
<1>13. ASSUME NEW e, Aged(q, e) PROVE Aged(s, e)
  <2> SUFFICES ASSUME NEW k \in 1..(n - 1), NEW l \in 1..(n - 1), k < l
               PROVE  s[k] \in e[s[l]]
      BY <1>6 DEF Aged
  <2>1. PICK x \in 1..n, y \in 1..n : x < y /\ s[k] = q[x] /\ s[l] = q[y]
    <3> DEFINE up(z) == IF z < i THEN z ELSE z + 1
    <3>1. up(k) \in 1..n /\ up(l) \in 1..n /\ up(k) < up(l)
        BY <1>1
    <3>2. s[k] = q[up(k)] /\ s[l] = q[up(l)]
        BY <1>6
    <3> HIDE DEF up
    <3>3. QED
        BY <3>1, <3>2
  <2>2. QED
      BY <1>13, <2>1 DEF Aged, n
<1>14. QED
    BY <1>4, <1>5, <1>6, <1>9, <1>12, <1>13 DEF n

\* Appending a new message.
LEMMA AppendFacts ==
    ASSUME NEW q \in Seq(Callers), NEW c \in Callers, c \notin ToSet(q), IsInjective(q)
    PROVE  /\ Append(q, c) \in Seq(Callers) /\ IsInjective(Append(q, c))
           /\ Len(Append(q, c)) = Len(q) + 1 /\ Append(q, c) # <<>>
           /\ ToSet(Append(q, c)) = ToSet(q) \cup {c}
<1>1. /\ Len(q) \in Nat /\ DOMAIN q = 1..Len(q)
      /\ Append(q, c) \in Seq(Callers) /\ DOMAIN Append(q, c) = 1..(Len(q) + 1)
      /\ Len(Append(q, c)) = Len(q) + 1
      /\ \A i \in 1..Len(q) : Append(q, c)[i] = q[i]
      /\ Append(q, c)[Len(q) + 1] = c
    BY AppendProperties, LenProperties
<1>2. \A i \in 1..Len(q) : q[i] # c
    BY <1>1 DEF ToSet
<1>3. \A i, j \in 1..Len(q) : q[i] = q[j] => i = j
    BY <1>1 DEF IsInjective
<1>4. IsInjective(Append(q, c))
    BY <1>1, <1>2, <1>3 DEF IsInjective
<1>5. 1..(Len(q) + 1) = 1..Len(q) \cup {Len(q) + 1}
    BY <1>1
<1>6. ToSet(Append(q, c)) = ToSet(q) \cup {c}
    BY <1>1, <1>5 DEF ToSet
<1>7. Append(q, c) # <<>>
    BY <1>1, EmptySeq
<1>8. QED
    BY <1>1, <1>4, <1>6, <1>7

-----------------------------------------------------------------------------
(* What is in the inbox                                                    *)

\* A queue and the message held out of it, each message once.
Line(q, t) ==
    /\ q \in Seq(Callers) /\ t \in Callers \cup {None}
    /\ IsInjective(q) /\ t \notin ToSet(q)
    /\ inbox.kind # "gpq" => t = None

Held(q, t) == ToSet(q) \cup ({t} \ {None})
Size(q, t) == Len(q) + (IF t = None THEN 0 ELSE 1)

LEMMA InQueue ==
    ASSUME NEW q \in Seq(Callers)
    PROVE  ToSet(q) \subseteq Callers /\ None \notin ToSet(q) /\ Len(q) \in Nat
<1>1. Len(q) \in Nat /\ DOMAIN q = 1..Len(q) /\ \A i \in 1..Len(q) : q[i] \in Callers
    BY LenProperties, ElementOfSeq
<1>2. ToSet(q) \subseteq Callers
    BY <1>1 DEF ToSet
<1>3. QED
    BY <1>1, <1>2, ActorAssumption

\* The pump holds what was in the queue.
LEMMA HoldFacts ==
    ASSUME NEW q, NEW t, Line(q, t), Hold(q, t)
    PROVE  /\ Line(queue', top') /\ Held(queue', top') = Held(q, t)
           /\ Size(queue', top') = Size(q, t)
<1>1. q \in Seq(Callers) /\ IsInjective(q) /\ t \in Callers \cup {None} /\ t \notin ToSet(q)
    BY DEF Line
<1>2. CASE inbox.kind = "gpq" /\ t = None /\ q # <<>>
  <2> DEFINE i == First(q)
  <2>1. i \in 1..Len(q)
      BY <1>1, <1>2, FirstFacts
  <2>2. queue' = RemoveAt(q, i) /\ top' = q[i]
      BY <1>2 DEF Hold
  <2> HIDE DEF i
  <2>3. /\ queue' \in Seq(Callers) /\ IsInjective(queue') /\ Len(queue') = Len(q) - 1
        /\ ToSet(queue') = ToSet(q) \ {top'} /\ top' \in ToSet(q)
      BY <1>1, <2>1, <2>2, RemoveFacts
  <2>4. top' \in Callers /\ top' # None /\ Len(q) \in Nat
      BY <1>1, <2>3, InQueue
  <2>5. Line(queue', top')
      BY <1>2, <2>3, <2>4 DEF Line
  <2>6. Held(queue', top') = Held(q, t)
      BY <1>2, <2>3, <2>4 DEF Held
  <2>7. Size(queue', top') = Size(q, t)
    <3> DEFINE m == Len(queue')
               n == Len(q)
    <3>1. Size(queue', top') = m + 1 /\ Size(q, t) = n + 0 /\ m = n - 1 /\ n \in Nat
        BY <1>2, <2>3, <2>4 DEF Size
    <3> HIDE DEF m, n
    <3>2. QED
        BY <3>1
  <2>8. QED
      BY <2>5, <2>6, <2>7
<1>3. CASE ~(inbox.kind = "gpq" /\ t = None /\ q # <<>>)
  <2>1. queue' = q /\ top' = t
      BY <1>3 DEF Hold
  <2>2. QED
      BY <2>1
<1>4. QED
    BY <1>2, <1>3

\* A message comes in.
LEMMA EnqueueFacts ==
    ASSUME Line(queue, top), NEW c \in Callers, c \notin Held(queue, top),
           Hold(Append(queue, c), top)
    PROVE  /\ Line(queue', top') /\ Held(queue', top') = Held(queue, top) \cup {c}
           /\ Size(queue', top') = Size(queue, top) + 1
<1> DEFINE q == Append(queue, c)
<1>1. /\ queue \in Seq(Callers) /\ IsInjective(queue) /\ c \notin ToSet(queue)
      /\ c # top /\ c # None
    BY ActorAssumption DEF Line, Held
<1>2. /\ q \in Seq(Callers) /\ IsInjective(q) /\ Len(q) = Len(queue) + 1
      /\ ToSet(q) = ToSet(queue) \cup {c} /\ Len(queue) \in Nat
    BY <1>1, AppendFacts, InQueue
<1> HIDE DEF q
<1>3. Line(q, top)
    BY <1>1, <1>2 DEF Line
<1>4. Held(q, top) = Held(queue, top) \cup {c}
    BY <1>2 DEF Held
<1>5. Size(q, top) = Size(queue, top) + 1
  <2> DEFINE m == Len(q)
             n == Len(queue)
             e == IF top = None THEN 0 ELSE 1
  <2>1. Size(q, top) = m + e /\ Size(queue, top) = n + e /\ m = n + 1 /\ n \in Nat /\ e \in Nat
      BY <1>2 DEF Size
  <2> HIDE DEF m, n, e
  <2>2. QED
      BY <2>1
<1>6. Hold(q, top)
    BY DEF q
<1>7. QED
    BY <1>3, <1>4, <1>5, <1>6, HoldFacts

\* The run loop takes what it is offered.
LEMMA TakeFacts ==
    ASSUME Line(queue, top), Offered # None, TakeOffered
    PROVE  /\ Offered \in Callers /\ Offered \in Held(queue, top)
           /\ Line(queue', top') /\ Held(queue', top') = Held(queue, top) \ {Offered}
           /\ Size(queue', top') + 1 = Size(queue, top)
<1>1. /\ queue \in Seq(Callers) /\ IsInjective(queue) /\ top \in Callers \cup {None}
      /\ top \notin ToSet(queue) /\ Len(queue) \in Nat
    BY InQueue DEF Line
<1>2. CASE inbox.kind = "gpq"
  <2>1. Offered = top /\ top \in Callers /\ top # None
      BY <1>1, <1>2 DEF Offered
  <2>2. Line(queue, None)
      BY <1>1, InQueue DEF Line
  <2>3. Hold(queue, None)
      BY <1>2 DEF TakeOffered
  <2>4. /\ Line(queue', top') /\ Held(queue', top') = Held(queue, None)
        /\ Size(queue', top') = Size(queue, None)
      BY <2>2, <2>3, HoldFacts
  <2>5. Held(queue, None) = Held(queue, top) \ {top} /\ top \in Held(queue, top)
      BY <1>1, <2>1 DEF Held
  <2>6. Size(queue, None) + 1 = Size(queue, top)
    <3> DEFINE n == Len(queue)
    <3>1. Size(queue, None) = n + 0 /\ Size(queue, top) = n + 1 /\ n \in Nat
        BY <1>1, <2>1 DEF Size
    <3> HIDE DEF n
    <3>2. QED
        BY <3>1
  <2>7. QED
      BY <2>1, <2>4, <2>5, <2>6
<1>3. CASE inbox.kind # "gpq"
  <2> DEFINE i == First(queue)
  <2>1. queue # <<>> /\ Offered = queue[i]
      BY <1>3 DEF Offered
  <2>2. i \in 1..Len(queue)
      BY <1>1, <2>1, FirstFacts
  <2>3. queue' = RemoveAt(queue, i) /\ top' = top /\ top = None
      BY <1>3 DEF TakeOffered, Line
  <2> HIDE DEF i
  <2>4. /\ queue' \in Seq(Callers) /\ IsInjective(queue') /\ Len(queue') = Len(queue) - 1
        /\ ToSet(queue') = ToSet(queue) \ {Offered} /\ Offered \in ToSet(queue)
      BY <1>1, <2>1, <2>2, <2>3, RemoveFacts
  <2>5. Offered \in Callers /\ None \notin ToSet(queue')
      BY <1>1, <2>4, InQueue
  <2>6. Line(queue', top')
      BY <2>3, <2>4, <2>5 DEF Line
  <2>7. Held(queue', top') = Held(queue, top) \ {Offered} /\ Offered \in Held(queue, top)
      BY <2>3, <2>4, <2>5 DEF Held
  <2>8. Size(queue', top') + 1 = Size(queue, top)
    <3> DEFINE m == Len(queue')
               n == Len(queue)
    <3>1. Size(queue', top') = m + 0 /\ Size(queue, top) = n + 0 /\ m = n - 1 /\ n \in Nat
        BY <1>1, <2>3, <2>4 DEF Size
    <3> HIDE DEF m, n
    <3>2. QED
        BY <3>1
  <2>9. QED
      BY <2>5, <2>6, <2>7, <2>8
<1>4. QED
    BY <1>2, <1>3

-----------------------------------------------------------------------------
(* The inductive invariant                                                 *)

\* Where a message is says what became of it.
Placed ==
    \A c \in Callers :
       /\ fate[c] = "queued" <=> c \in Held(queue, top)
       /\ fate[c] = "taken" <=> (loop = "process" /\ msg = c)

\* What the run loop has in hand.
InHand ==
    /\ loop \in {"process", "reply", "inform"} => msg \in Callers
    /\ loop = "reply" => fate[msg] = "done"
    /\ loop = "inform" => fate[msg] = "panicked"

\* How far the inbox and the actor are in ending.
Ending ==
    /\ inClosed \/ loop = "closing" \/ stop # "out" => dead
    /\ pump = "drain" => inClosed
    /\ pump = "gone" => inClosed \/ (canceled /\ Discards)
    /\ Pumped /\ pump = "gone" => Held(queue, top) = {}
    /\ loop = "gone" => IF Pumped THEN pump = "gone"
                                  ELSE inClosed /\ Held(queue, top) = {}
    /\ \A c \in Callers : fate[c] = "discarded" => canceled /\ Discards

\* What each caller has seen, and what was answered.
Answered ==
    \A c \in Callers :
       /\ pc[c] \in {"out", "send"} => fate[c] = "none"
       /\ pc[c] # "over" => rsp[c] = "none"
       /\ rsp[c] = "dead" => fate[c] = "none"
       /\ rsp[c] = "value" => fate[c] = "done"
       /\ rsp[c] \in {"panic", "zero"} => fate[c] = "panicked"

AInv ==
    /\ TypeOK /\ Line(queue, top) /\ Backpressure
    /\ Placed /\ InHand /\ Ending /\ Answered

\* The inbox is as it was, but for its being closed.
SameInbox == UNCHANGED <<inbox, queue, top>>

LEMMA LineKept ==
    ASSUME inbox' = inbox, Line(queue', top')
    PROVE  Line(queue, top)'
BY DEF Line

LEMMA KindKept ==
    ASSUME inbox' = inbox
    PROVE  (Pumped' <=> Pumped) /\ (Discards' <=> Discards)
BY DEF Pumped, Discards

LEMMA SizeIsNat ==
    ASSUME NEW q, NEW t, Line(q, t)
    PROVE  Size(q, t) \in Nat /\ (Size(q, t) = 0 <=> Held(q, t) = {})
<1>1. q \in Seq(Callers) /\ t \in Callers \cup {None}
    BY DEF Line
<1>2. Len(q) \in Nat /\ DOMAIN q = 1..Len(q) /\ (Len(q) = 0 <=> q = <<>>)
    BY <1>1, LenProperties, EmptySeq
<1>3. Len(q) = 0 <=> ToSet(q) = {}
  <2>1. CASE Len(q) = 0
      BY <1>2, <2>1 DEF ToSet
  <2>2. CASE Len(q) # 0
    <3>1. 1 \in DOMAIN q
        BY <1>2, <2>2
    <3>2. q[1] \in ToSet(q)
        BY <3>1 DEF ToSet
    <3>3. QED
        BY <2>2, <3>2
  <2>3. QED
      BY <2>1, <2>2
<1>4. Held(q, t) = {} <=> ToSet(q) = {} /\ t = None
    BY <1>1, InQueue DEF Held
<1> DEFINE n == Len(q)
           e == IF t = None THEN 0 ELSE 1
<1>5. Size(q, t) = n + e /\ n \in Nat /\ e \in Nat /\ (e = 0 <=> t = None)
    BY <1>2 DEF Size
<1>6. n = 0 <=> ToSet(q) = {}
    BY <1>3
<1> HIDE DEF n, e
<1>7. Size(q, t) \in Nat /\ (Size(q, t) = 0 <=> n = 0 /\ e = 0)
    BY <1>5
<1>8. QED
    BY <1>4, <1>5, <1>6, <1>7

\* A queue that grows has had room.
LEMMA BoundKept ==
    ASSUME TypeOK, Backpressure, inbox' = inbox, Line(queue, top), Line(queue', top'),
           \/ Size(queue', top') = Size(queue, top)
           \/ Size(queue', top') + 1 = Size(queue, top)
           \/ Size(queue', top') = Size(queue, top) + 1 /\ HasRoom
    PROVE  Backpressure'
<1> DEFINE n == Size(queue, top)
           m == Size(queue', top')
           b == inbox.bound
           k == inbox.kind
<1>1. n \in Nat /\ m \in Nat
    BY SizeIsNat
<1>2. b \in Nat /\ k \in InboxKinds
  <2>1. inbox \in [kind : InboxKinds, bound : Nat]
      BY ActorAssumption DEF TypeOK
  <2>2. QED
      BY <2>1
<1>3. Buffered = n /\ Buffered' = m
    BY DEF Buffered, Size
<1>4. b > 0 /\ k \in {"buffered", "heap", "gpq"} => n <= b
    BY <1>3 DEF Backpressure
<1>5. HasRoom => k = "unbuffered" \/ k = "infinite" \/ b = 0 \/ n < b
    BY <1>3, <1>2 DEF HasRoom, InboxKinds
<1>6. b > 0 /\ k \in {"buffered", "heap", "gpq"} => m <= b
  <2> HIDE DEF n, m, b, k
  <2>1. m = n \/ m + 1 = n \/ (m = n + 1 /\ HasRoom)
      BY DEF m, n
  <2>2. QED
      BY <1>1, <1>2, <1>4, <1>5, <2>1
<1>7. QED
    BY <1>3, <1>6 DEF Backpressure

LEMMA InvInit == Init => AInv
<1> SUFFICES ASSUME Init PROVE AInv
    OBVIOUS
<1>1. <<>> \in Seq(Callers) /\ ToSet(<<>>) = {} /\ IsInjective(<<>>) /\ Len(<<>>) = 0
    BY EmptySeq DEF ToSet, IsInjective
<1>2. Line(queue, top) /\ Held(queue, top) = {}
    BY <1>1 DEF Init, Line, Held
<1>3. TypeOK
    BY <1>1 DEF Init, TypeOK
<1>4. Size(queue, top) = 0 /\ inbox.bound \in Nat
  <2>1. inbox \in [kind : InboxKinds, bound : Nat]
      BY <1>3, ActorAssumption DEF TypeOK
  <2>2. QED
      BY <1>2, <2>1, SizeIsNat
<1>5. Backpressure
  <2>1. Buffered = 0
      BY <1>4 DEF Buffered, Size
  <2>2. QED
      BY <1>4, <2>1 DEF Backpressure
<1>6. Placed /\ InHand /\ Ending /\ Answered
    BY <1>2 DEF Init, Placed, InHand, Ending, Answered
<1>7. QED
    BY <1>2, <1>3, <1>5, <1>6 DEF AInv

-----------------------------------------------------------------------------
(* Every step keeps it                                                     *)

\* Steps that leave what is in the inbox alone keep Line and Backpressure.
LEMMA InboxKept ==
    ASSUME AInv, SameInbox
    PROVE  /\ Line(queue, top)' /\ Backpressure' /\ Held(queue, top)' = Held(queue, top)
           /\ (Pumped' <=> Pumped) /\ (Discards' <=> Discards)
<1>1. inbox' = inbox /\ queue' = queue /\ top' = top
    BY DEF SameInbox
<1>2. Line(queue', top') /\ Size(queue', top') = Size(queue, top)
    BY <1>1 DEF AInv
<1>3. Line(queue, top)' /\ Backpressure'
    BY <1>1, <1>2, LineKept, BoundKept DEF AInv
<1>4. Held(queue, top)' = Held(queue, top)
    BY <1>1 DEF Held
<1>5. QED
    BY <1>1, <1>3, <1>4, KindKept

\* The steps of a caller that its message has no part in.
LEMMA CallerStepKeeps ==
    ASSUME AInv, NEW c \in Callers, CallerStep(c)
    PROVE  AInv'
<1>1. SameInbox /\ fate' = fate /\ UNCHANGED <<inClosed, pump, actorVars>>
    BY DEF CallerStep, Start, SendPanic, GiveUp, inboxVars, actorVars, SameInbox
<1>2. \/ UNCHANGED rsp /\ pc[c] = "out" /\ pc' = [pc EXCEPT ![c] = "send"]
      \/ \E from \in {"out", "send"} : Return(c, from, "dead")
      \/ \E from \in {"send", "wait"} : Return(c, from, "ctx")
    BY DEF CallerStep, Start, SendPanic, GiveUp
<1>3. TypeOK'
    BY <1>1, <1>2 DEF AInv, TypeOK, SameInbox, actorVars, Return
<1>4. Placed' /\ InHand' /\ Ending'
    BY <1>1, InboxKept DEF AInv, Placed, InHand, Ending, actorVars
<1>5. Answered'
    BY <1>1, <1>2 DEF AInv, TypeOK, Answered, Return
<1>6. QED
    BY <1>1, <1>3, <1>4, <1>5, InboxKept DEF AInv

\* A message is in: its caller has returned from Send or waits.
LEMMA AcceptedFacts ==
    ASSUME AInv, NEW c \in Callers, Accepted(c)
    PROVE  /\ fate[c] = "none" /\ rsp[c] = "none"
           /\ pc' \in [Callers -> {"out", "send", "wait", "over"}]
           /\ rsp' \in [Callers -> {"none", "sent", "value", "panic", "zero", "dead", "ctx"}]
           /\ pc'[c] \in {"wait", "over"} /\ rsp'[c] \in {"none", "sent"}
           /\ pc'[c] = "wait" => rsp'[c] = "none"
           /\ \A d \in Callers \ {c} : pc'[d] = pc[d] /\ rsp'[d] = rsp[d]
BY DEF AInv, TypeOK, Answered, Accepted

LEMMA EnqueueKeeps ==
    ASSUME AInv, NEW c \in Callers, Enqueue(c)
    PROVE  AInv'
<1>1. /\ ~inClosed /\ HasRoom /\ (Pumped => pump = "run") /\ Accepted(c)
      /\ fate' = [fate EXCEPT ![c] = "queued"]
      /\ Hold(Append(queue, c), top)
      /\ UNCHANGED <<inbox, inClosed, pump>>
      /\ loop' = loop /\ msg' = msg /\ dead' = dead /\ canceled' = canceled /\ stop' = stop
    BY DEF Enqueue, actorVars
<1>2. /\ fate[c] = "none" /\ rsp[c] = "none"
      /\ pc' \in [Callers -> {"out", "send", "wait", "over"}]
      /\ rsp' \in [Callers -> {"none", "sent", "value", "panic", "zero", "dead", "ctx"}]
      /\ pc'[c] \in {"wait", "over"} /\ rsp'[c] \in {"none", "sent"}
      /\ pc'[c] = "wait" => rsp'[c] = "none"
      /\ \A d \in Callers \ {c} : pc'[d] = pc[d] /\ rsp'[d] = rsp[d]
    BY <1>1, AcceptedFacts
<1>3. c \notin Held(queue, top)
    BY <1>2 DEF AInv, Placed
<1>4. /\ Line(queue', top') /\ Held(queue', top') = Held(queue, top) \cup {c}
      /\ Size(queue', top') = Size(queue, top) + 1
    BY <1>1, <1>3, EnqueueFacts DEF AInv
<1>5. Line(queue, top)' /\ Backpressure' /\ (Pumped' <=> Pumped) /\ (Discards' <=> Discards)
    BY <1>1, <1>4, LineKept, BoundKept, KindKept DEF AInv
<1>6. Held(queue, top)' = Held(queue, top) \cup {c}
    BY <1>4 DEF Held
<1>7. /\ fate' \in [Callers -> {"none", "queued", "taken", "done", "panicked", "discarded"}]
      /\ fate'[c] = "queued" /\ \A d \in Callers \ {c} : fate'[d] = fate[d]
    BY <1>1 DEF AInv, TypeOK
<1>8. TypeOK'
    BY <1>1, <1>2, <1>4, <1>7 DEF AInv, TypeOK, Line
<1>9. Placed'
    BY <1>1, <1>2, <1>6, <1>7 DEF AInv, Placed
<1>10. InHand'
    BY <1>1, <1>2, <1>7 DEF AInv, InHand
<1>11. Ending'
    BY <1>1, <1>5, <1>7 DEF AInv, Ending
<1>12. Answered'
    BY <1>2, <1>7 DEF AInv, Answered
<1>13. QED
    BY <1>5, <1>8, <1>9, <1>10, <1>11, <1>12 DEF AInv

LEMMA TakeDirectKeeps ==
    ASSUME AInv, NEW c \in Callers, TakeDirect(c)
    PROVE  AInv'
<1>1. /\ SameInbox /\ Accepted(c) /\ loop = "select" /\ loop' = "process" /\ msg' = c
      /\ fate' = [fate EXCEPT ![c] = "taken"]
      /\ inClosed' = inClosed /\ pump' = pump /\ dead' = dead /\ canceled' = canceled
      /\ stop' = stop
    BY DEF TakeDirect, Processing, SameInbox
<1>2. /\ fate[c] = "none" /\ rsp[c] = "none"
      /\ pc' \in [Callers -> {"out", "send", "wait", "over"}]
      /\ rsp' \in [Callers -> {"none", "sent", "value", "panic", "zero", "dead", "ctx"}]
      /\ pc'[c] \in {"wait", "over"} /\ rsp'[c] \in {"none", "sent"}
      /\ pc'[c] = "wait" => rsp'[c] = "none"
      /\ \A d \in Callers \ {c} : pc'[d] = pc[d] /\ rsp'[d] = rsp[d]
    BY <1>1, AcceptedFacts
<1>3. /\ fate' \in [Callers -> {"none", "queued", "taken", "done", "panicked", "discarded"}]
      /\ fate'[c] = "taken" /\ \A d \in Callers \ {c} : fate'[d] = fate[d]
    BY <1>1 DEF AInv, TypeOK
<1>4. TypeOK'
    BY <1>1, <1>2, <1>3 DEF AInv, TypeOK, SameInbox
<1>5. Placed'
    BY <1>1, <1>2, <1>3, InboxKept DEF AInv, Placed
<1>6. InHand' /\ Ending'
    BY <1>1, <1>3, InboxKept DEF AInv, InHand, Ending
<1>7. Answered'
    BY <1>2, <1>3 DEF AInv, Answered
<1>8. QED
    BY <1>1, <1>4, <1>5, <1>6, <1>7, InboxKept DEF AInv

LEMMA TakeKeeps ==
    ASSUME AInv, Take
    PROVE  AInv'
<1> DEFINE c == Offered
<1>1. /\ c # None /\ TakeOffered /\ pump # "gone"
      /\ loop = "select" /\ loop' = "process" /\ msg' = c
      /\ fate' = [fate EXCEPT ![c] = "taken"]
      /\ UNCHANGED <<inbox, pc, rsp>>
      /\ inClosed' = inClosed /\ pump' = pump /\ dead' = dead /\ canceled' = canceled
      /\ stop' = stop
    BY DEF Take, Processing, callVars
<1>2. /\ c \in Callers /\ c \in Held(queue, top)
      /\ Line(queue', top') /\ Held(queue', top') = Held(queue, top) \ {c}
      /\ Size(queue', top') + 1 = Size(queue, top)
    BY <1>1, TakeFacts DEF AInv
<1> HIDE DEF c
<1>3. fate[c] = "queued"
    BY <1>2 DEF AInv, Placed
<1>4. Line(queue, top)' /\ Backpressure' /\ (Pumped' <=> Pumped) /\ (Discards' <=> Discards)
    BY <1>1, <1>2, LineKept, BoundKept, KindKept DEF AInv
<1>5. Held(queue, top)' = Held(queue, top) \ {c}
    BY <1>2 DEF Held
<1>6. /\ fate' \in [Callers -> {"none", "queued", "taken", "done", "panicked", "discarded"}]
      /\ fate'[c] = "taken" /\ \A d \in Callers \ {c} : fate'[d] = fate[d]
    BY <1>1, <1>2 DEF AInv, TypeOK
<1>7. TypeOK'
    BY <1>1, <1>2, <1>6 DEF AInv, TypeOK, Line
<1>8. Placed'
    BY <1>1, <1>2, <1>5, <1>6 DEF AInv, Placed
<1>9. InHand' /\ Ending'
    BY <1>1, <1>2, <1>4, <1>5, <1>6 DEF AInv, InHand, Ending
<1>10. Answered'
    BY <1>1, <1>2, <1>3, <1>6 DEF AInv, Answered
<1>11. QED
    BY <1>4, <1>7, <1>8, <1>9, <1>10 DEF AInv

LEMMA PumpKeeps ==
    ASSUME AInv, PumpStep
    PROVE  AInv'
<1>1. CASE PumpSeesClose
  <2>1. SameInbox /\ Pumped /\ pump = "run" /\ inClosed /\ pump' = "drain" /\ inClosed' = inClosed
        /\ UNCHANGED <<actorVars, callVars, fate>>
      BY <1>1 DEF PumpSeesClose, SameInbox
  <2>2. TypeOK'
      BY <2>1 DEF AInv, TypeOK, SameInbox, actorVars, callVars
  <2>3. Placed' /\ InHand' /\ Ending' /\ Answered'
      BY <2>1, InboxKept DEF AInv, Placed, InHand, Ending, Answered, actorVars, callVars
  <2>4. QED
      BY <2>1, <2>2, <2>3, InboxKept DEF AInv
<1>2. CASE PumpEnds
  <2>1. SameInbox /\ Pumped /\ pump = "drain" /\ Buffered = 0 /\ pump' = "gone"
        /\ inClosed' = inClosed /\ UNCHANGED <<actorVars, callVars, fate>>
      BY <1>2 DEF PumpEnds, PumpEnd, SameInbox
  <2>2. TypeOK'
      BY <2>1 DEF AInv, TypeOK, SameInbox, actorVars, callVars
  <2>3. Held(queue, top) = {}
    <3>1. Size(queue, top) = 0
        BY <2>1 DEF Buffered, Size
    <3>2. QED
        BY <3>1, SizeIsNat DEF AInv
  <2>4. Placed' /\ InHand' /\ Ending' /\ Answered'
      BY <2>1, <2>3, InboxKept DEF AInv, Placed, InHand, Ending, Answered, actorVars, callVars
  <2>5. QED
      BY <2>1, <2>2, <2>4, InboxKept DEF AInv
<1>3. CASE PumpCancel
  <2>1. /\ Discards /\ canceled /\ pump # "gone" /\ pump' = "gone" /\ queue' = <<>> /\ top' = None
        /\ fate' = [c \in Callers |-> IF fate[c] = "queued" THEN "discarded" ELSE fate[c]]
        /\ inbox' = inbox /\ inClosed' = inClosed /\ UNCHANGED <<actorVars, callVars>>
      BY <1>3 DEF PumpCancel
  <2>2. <<>> \in Seq(Callers) /\ ToSet(<<>>) = {} /\ IsInjective(<<>>)
      BY EmptySeq DEF ToSet, IsInjective
  <2>3. Line(queue', top') /\ Held(queue', top') = {}
      BY <2>1, <2>2 DEF Line, Held
  <2>4. Held(queue, top)' = {} /\ Line(queue, top)'
      BY <2>1, <2>3, LineKept DEF Held
  <2>5. Backpressure'
    <3> DEFINE b == inbox.bound
    <3>1. Size(queue', top') = 0 /\ b \in Nat
      <4>1. inbox \in [kind : InboxKinds, bound : Nat]
          BY ActorAssumption DEF AInv, TypeOK
      <4>2. QED
          BY <2>3, <4>1, SizeIsNat
    <3>2. Buffered' = 0
        BY <3>1 DEF Buffered, Size
    <3>3. QED
        BY <2>1, <3>1, <3>2 DEF Backpressure
  <2>6. (Pumped' <=> Pumped) /\ (Discards' <=> Discards)
      BY <2>1, KindKept
  <2>7. fate' \in [Callers -> {"none", "queued", "taken", "done", "panicked", "discarded"}]
      BY <2>1 DEF AInv, TypeOK
  <2>8. TypeOK'
      BY <2>1, <2>2, <2>7 DEF AInv, TypeOK, actorVars, callVars
  <2>9. Placed'
      BY <2>1, <2>4 DEF AInv, Placed, actorVars
  <2>10. InHand'
      BY <2>1 DEF AInv, InHand, actorVars
  <2>11. Ending'
      BY <2>1, <2>4, <2>6 DEF AInv, Ending, actorVars
  <2>12. Answered'
      BY <2>1 DEF AInv, Answered, callVars
  <2>13. QED
      BY <2>4, <2>5, <2>8, <2>9, <2>10, <2>11, <2>12 DEF AInv
<1>4. QED
    BY <1>1, <1>2, <1>3 DEF PumpStep

\* How actor and inbox end.
LEMMA EndKeeps ==
    ASSUME AInv, LoopCancel \/ LoopClose \/ LoopEnd \/ Stop \/ StopClose \/ Cancel
    PROVE  AInv'
<1>1. /\ SameInbox /\ pump' = pump /\ msg' = msg /\ UNCHANGED <<callVars, fate>>
      /\ loop' # loop => loop' \notin {"process", "reply", "inform"} /\ loop \in {"select", "closing"}
      /\ loop' = loop \/ loop' \in {"select", "closing", "gone"}
    BY DEF LoopCancel, LoopClose, LoopEnd, Stop, StopClose, Cancel, inboxVars, callVars, SameInbox
<1>2. TypeOK'
  <2>1. loop' \in {"select", "closing", "process", "reply", "inform", "gone"}
      BY <1>1 DEF AInv, TypeOK
  <2>2. /\ inClosed' \in BOOLEAN /\ dead' \in BOOLEAN /\ canceled' \in BOOLEAN
        /\ stop' \in {"out", "close", "over"}
      BY DEF AInv, TypeOK, LoopCancel, LoopClose, LoopEnd, Stop, StopClose, Cancel, inboxVars
  <2>3. QED
      BY <1>1, <2>1, <2>2 DEF AInv, TypeOK, SameInbox, callVars
<1>3. Placed' /\ InHand' /\ Answered'
    BY <1>1, InboxKept DEF AInv, Placed, InHand, Answered, callVars
<1>4. Pumped => (pump = "gone" => Held(queue, top) = {})
    BY DEF AInv, Ending
<1>5. loop' = "gone" /\ loop # "gone" =>
         IF Pumped THEN pump = "gone" ELSE inClosed /\ queue = <<>>
    BY DEF LoopCancel, LoopClose, LoopEnd, Stop, StopClose, Cancel
<1>6. ~Pumped /\ queue = <<>> => Held(queue, top) = {}
    BY EmptySeq DEF AInv, Line, Held, ToSet, Pumped
<1>7. /\ inClosed => inClosed'
      /\ dead => dead'
      /\ canceled => canceled'
      /\ inClosed' \/ loop' = "closing" \/ stop' # "out" => dead'
    BY DEF AInv, Ending, LoopCancel, LoopClose, LoopEnd, Stop, StopClose, Cancel, inboxVars
<1>8. Ending'
    BY <1>1, <1>4, <1>5, <1>6, <1>7, InboxKept DEF AInv, Ending
<1>9. QED
    BY <1>1, <1>2, <1>3, <1>8, InboxKept DEF AInv

\* The processor is through with a message, or panics.
LEMMA ProcessKeeps ==
    ASSUME AInv, Process \/ Panic
    PROVE  AInv'
<1>1. PICK what \in {"done", "panicked"} :
         /\ loop = "process" /\ fate' = [fate EXCEPT ![msg] = what]
         /\ \/ loop' = "select" /\ msg' = None
            \/ loop' = (IF what = "done" THEN "reply" ELSE "inform") /\ msg' = msg
    BY DEF Process, Panic, LoopTo
<1>2. /\ SameInbox /\ inClosed' = inClosed /\ pump' = pump
      /\ dead' = dead /\ canceled' = canceled /\ stop' = stop /\ UNCHANGED callVars
    BY DEF Process, Panic, LoopTo, inboxVars, SameInbox
<1>3. msg \in Callers /\ fate[msg] = "taken"
    BY <1>1 DEF AInv, InHand, Placed
<1>4. /\ fate' \in [Callers -> {"none", "queued", "taken", "done", "panicked", "discarded"}]
      /\ fate'[msg] = what /\ \A d \in Callers \ {msg} : fate'[d] = fate[d]
    BY <1>1, <1>3 DEF AInv, TypeOK
<1>5. TypeOK'
    BY <1>1, <1>2, <1>4 DEF AInv, TypeOK, SameInbox, callVars
<1>6. Placed'
    BY <1>1, <1>2, <1>3, <1>4, InboxKept DEF AInv, Placed
<1>7. InHand'
    BY <1>1, <1>3, <1>4 DEF AInv, InHand
<1>8. Ending'
    BY <1>1, <1>2, <1>3, <1>4, InboxKept DEF AInv, Ending
<1>9. Answered'
    BY <1>2, <1>3, <1>4 DEF AInv, Answered, callVars
<1>10. QED
    BY <1>2, <1>5, <1>6, <1>7, <1>8, <1>9, InboxKept DEF AInv

\* The caller of the message is answered, or not.
LEMMA AnswerKeeps ==
    ASSUME AInv, Reply \/ Inform \/ InformNot
    PROVE  AInv'
<1>1. /\ loop \in {"reply", "inform"} /\ loop' = "select" /\ msg' = None /\ fate' = fate
      /\ SameInbox /\ inClosed' = inClosed /\ pump' = pump
      /\ dead' = dead /\ canceled' = canceled /\ stop' = stop
    BY DEF Reply, Inform, InformNot, LoopTo, inboxVars, SameInbox
<1>2. msg \in Callers
    BY <1>1 DEF AInv, InHand
<1>3. \/ UNCHANGED callVars
      \/ Return(msg, "wait", "value") /\ fate[msg] = "done"
      \/ \E what \in {"panic", "zero"} : Return(msg, "wait", what) /\ fate[msg] = "panicked"
    BY DEF AInv, InHand, Reply, Inform, InformNot
<1>4. TypeOK'
  <2>1. /\ pc' \in [Callers -> {"out", "send", "wait", "over"}]
        /\ rsp' \in [Callers -> {"none", "sent", "value", "panic", "zero", "dead", "ctx"}]
      BY <1>2, <1>3 DEF AInv, TypeOK, Return, callVars
  <2>2. QED
      BY <1>1, <2>1 DEF AInv, TypeOK, SameInbox
<1>5. Placed' /\ InHand' /\ Ending'
    BY <1>1, InboxKept DEF AInv, Placed, InHand, Ending
<1>6. Answered'
    BY <1>1, <1>2, <1>3 DEF AInv, TypeOK, Answered, Return, callVars
<1>7. QED
    BY <1>1, <1>4, <1>5, <1>6, InboxKept DEF AInv

LEMMA InvNext == AInv /\ [Next]_vars => AInv'
<1> SUFFICES ASSUME AInv, [Next]_vars PROVE AInv'
    OBVIOUS
<1>1. ASSUME NEW c \in Callers, CallerStep(c) \/ Enqueue(c) \/ TakeDirect(c) PROVE AInv'
    BY <1>1, CallerStepKeeps, EnqueueKeeps, TakeDirectKeeps
<1>2. CASE PumpStep
    BY <1>2, PumpKeeps
<1>3. CASE LoopStep
    BY <1>3, TakeKeeps, EndKeeps, ProcessKeeps, AnswerKeeps DEF LoopStep
<1>4. CASE Stop \/ StopClose \/ Cancel
    BY <1>4, EndKeeps
<1>5. CASE UNCHANGED vars
  <2>1. SameInbox /\ UNCHANGED <<inClosed, pump, actorVars, callVars, fate>>
      BY <1>5 DEF vars, inboxVars, SameInbox
  <2>2. TypeOK'
      BY <2>1 DEF AInv, TypeOK, SameInbox, actorVars, callVars
  <2>3. Placed' /\ InHand' /\ Ending' /\ Answered'
      BY <2>1, InboxKept DEF AInv, Placed, InHand, Ending, Answered, actorVars, callVars
  <2>4. QED
      BY <2>1, <2>2, <2>3, InboxKept DEF AInv
<1>6. QED
    BY <1>1, <1>2, <1>3, <1>4, <1>5 DEF Next

-----------------------------------------------------------------------------
(* The order of delivery                                                   *)

\* What the pump of a gpq inbox holds goes before the others, or was there first
\* and is the only one out of turn.
Ahead(c) ==
    \/ OutOfTurn(c) = {} /\ (GoesBefore(top, c) \/ top \in earlier[c])
    \/ (\E m \in earlier[c] : OutOfTurn(c) = {m}) /\ GoesBefore(top, c)

OInv ==
    /\ earlier \in [Callers -> SUBSET Callers] /\ passed \in [Callers -> SUBSET Callers]
    /\ Aged(queue, earlier)
    /\ \A c \in Callers : fate[c] = "none" => passed[c] = {}
    /\ inbox.kind = "gpq" => /\ top = None => queue = <<>>
                             /\ \A c \in ToSet(queue) : Ahead(c)
    /\ PriorityOrder

\* The ranks of an inbox are in the order of the levels.
LEMMA RankIsLevel ==
    ASSUME NEW c \in Callers, NEW d \in Callers
    PROVE  /\ Level(c) \in Int /\ Level(d) \in Int
           /\ Rank(c) > Rank(d) => Level(c) > Level(d)
           /\ Rank(c) = Rank(d) => Level(c) = Level(d)
<1>1. Weight[c] \in Nat /\ Weight[d] \in Nat /\ Buckets \in Nat /\ Buckets > 0
    BY ActorAssumption
<1>2. QED
    BY <1>1 DEF Level, Rank, Bucket

\* The first message of a queue goes before all the others in it.
LEMMA FirstGoesBefore ==
    ASSUME NEW q \in Seq(Callers), q # <<>>, Aged(q, earlier)
    PROVE  \A c \in ToSet(q) \ {q[First(q)]} : GoesBefore(q[First(q)], c)
<1> DEFINE i == First(q)
<1>1. /\ i \in 1..Len(q) /\ DOMAIN q = 1..Len(q) /\ Len(q) \in Nat
      /\ \A j \in 1..Len(q) : Rank(q[i]) > Rank(q[j]) \/ (Rank(q[i]) = Rank(q[j]) /\ i <= j)
    BY FirstFacts
<1> HIDE DEF i
<1>2. SUFFICES ASSUME NEW c \in ToSet(q), c # q[i] PROVE GoesBefore(q[i], c)
    BY DEF i
<1>3. PICK j \in 1..Len(q) : q[j] = c
    BY <1>1 DEF ToSet
<1>4. i # j /\ i \in Int /\ j \in Int /\ q[i] \in Callers /\ q[j] \in Callers
    BY <1>1, <1>2, <1>3, ElementOfSeq
<1>5. CASE Rank(q[i]) > Rank(q[j])
    BY <1>3, <1>4, <1>5, RankIsLevel DEF GoesBefore
<1>6. CASE Rank(q[i]) = Rank(q[j]) /\ i <= j
  <2>1. i < j
      BY <1>4, <1>6
  <2>2. q[i] \in earlier[q[j]]
      BY <1>1, <2>1 DEF Aged
  <2>3. QED
      BY <1>3, <1>4, <1>6, <2>2, RankIsLevel DEF GoesBefore
<1>7. QED
    BY <1>1, <1>5, <1>6

\* The pump of a gpq inbox has taken the next one, or the queue is as it was.
LEMMA HoldOrder ==
    ASSUME NEW q, NEW t, Line(q, t), Hold(q, t), Aged(q, earlier)
    PROVE  /\ Aged(queue', earlier)
           /\ ~(inbox.kind = "gpq" /\ t = None) => queue' = q /\ top' = t
           /\ inbox.kind = "gpq" /\ t = None =>
                 /\ top' = None => queue' = <<>>
                 /\ \A c \in ToSet(queue') : GoesBefore(top', c)
<1>1. q \in Seq(Callers) /\ IsInjective(q)
    BY DEF Line
<1>2. CASE inbox.kind = "gpq" /\ t = None /\ q # <<>>
  <2> DEFINE i == First(q)
  <2>1. i \in 1..Len(q) /\ queue' = RemoveAt(q, i) /\ top' = q[i]
      BY <1>1, <1>2, FirstFacts DEF Hold
  <2>2. \A c \in ToSet(q) \ {q[i]} : GoesBefore(q[i], c)
      BY <1>1, <1>2, FirstGoesBefore
  <2> HIDE DEF i
  <2>3. /\ ToSet(queue') = ToSet(q) \ {top'} /\ top' \in ToSet(q)
        /\ Aged(queue', earlier)
      BY <1>1, <2>1, RemoveFacts
  <2>4. top' # None
      BY <1>1, <2>3, InQueue
  <2>5. QED
      BY <1>2, <2>1, <2>2, <2>3, <2>4
<1>3. CASE ~(inbox.kind = "gpq" /\ t = None /\ q # <<>>)
  <2>1. queue' = q /\ top' = t
      BY <1>3 DEF Hold
  <2>2. q = <<>> => ToSet(q) = {}
      BY EmptySeq DEF ToSet
  <2>3. QED
      BY <1>3, <2>1, <2>2
<1>4. QED
    BY <1>2, <1>3

\* Steps that take no message out of the inbox and none in.
LEMMA OrderStays ==
    ASSUME AInv, OInv, UNCHANGED <<inbox, order>>,
           UNCHANGED <<queue, top>> \/ (queue' = <<>> /\ top' = None),
           \A c \in Callers : fate'[c] = "none" => fate[c] = "none"
    PROVE  OInv'
<1>1. inbox' = inbox /\ earlier' = earlier /\ passed' = passed
    BY DEF order
<1>2. \A c, m : GoesBefore(m, c)' <=> GoesBefore(m, c)
    BY <1>1 DEF GoesBefore, Level
<1>3. \A c : OutOfTurn(c)' = OutOfTurn(c)
    BY <1>1, <1>2 DEF OutOfTurn
<1>4. PriorityOrder'
    BY <1>1, <1>3 DEF OInv, PriorityOrder
<1>5. Aged(queue, earlier)' /\ (inbox.kind = "gpq" => \A c \in ToSet(queue') : Ahead(c)')
  <2>1. CASE UNCHANGED <<queue, top>>
      BY <1>1, <1>2, <1>3, <2>1 DEF OInv, Aged, Ahead
  <2>2. CASE queue' = <<>> /\ top' = None
    <3>1. ToSet(<<>>) = {} /\ Len(<<>>) = 0
        BY EmptySeq DEF ToSet
    <3>2. QED
        BY <2>2, <3>1 DEF Aged
  <2>3. QED
      BY <2>1, <2>2
<1>6. QED
    BY <1>1, <1>4, <1>5 DEF OInv

LEMMA EnqueueOrder ==
    ASSUME AInv, OInv, NEW c \in Callers, Enqueue(c)
    PROVE  OInv'
<1> DEFINE q == Append(queue, c)
<1>1. /\ inbox' = inbox /\ passed' = passed /\ Hold(q, top) /\ Accepted(c)
      /\ fate' = [fate EXCEPT ![c] = "queued"]
      /\ earlier' = [earlier EXCEPT ![c] = {d \in Callers : fate[d] # "none"}]
    BY DEF Enqueue
<1>2. fate[c] = "none" /\ c \notin Held(queue, top) /\ Held(queue, top) \subseteq Callers
  <2>1. fate[c] = "none"
      BY <1>1, AcceptedFacts
  <2>2. Held(queue, top) \subseteq Callers
      BY InQueue DEF AInv, Line, Held
  <2>3. QED
      BY <2>1, <2>2 DEF AInv, Placed
<1>3. /\ earlier' \in [Callers -> SUBSET Callers]
      /\ \A d \in Callers \ {c} : earlier'[d] = earlier[d]
      /\ Held(queue, top) \subseteq earlier'[c]
    BY <1>1, <1>2 DEF OInv, AInv, Placed
<1>4. \A d \in Callers \ {c} : /\ \A m : GoesBefore(m, d)' <=> GoesBefore(m, d)
                               /\ OutOfTurn(d)' = OutOfTurn(d)
    BY <1>1, <1>3 DEF GoesBefore, OutOfTurn, Level
<1>5. OutOfTurn(c)' = {}
    BY <1>1, <1>2 DEF OInv, OutOfTurn
<1>6. PriorityOrder'
    BY <1>1, <1>3, <1>4, <1>5 DEF OInv, PriorityOrder
<1>7. \A d \in Callers : fate'[d] = "none" => passed'[d] = {}
    BY <1>1 DEF OInv, AInv, TypeOK
<1>8. /\ queue \in Seq(Callers) /\ IsInjective(queue) /\ c \notin ToSet(queue) /\ c # None
      /\ ToSet(queue) \subseteq Callers /\ ToSet(queue) \subseteq Held(queue, top)
    BY <1>2, InQueue, ActorAssumption DEF AInv, Line, Held
<1>9. /\ q \in Seq(Callers) /\ ToSet(q) = ToSet(queue) \cup {c} /\ Line(q, top)
  <2>1. /\ q \in Seq(Callers) /\ IsInjective(q) /\ ToSet(q) = ToSet(queue) \cup {c}
      BY <1>8, AppendFacts
  <2> HIDE DEF q
  <2>2. top # c
      BY <1>2, <1>8 DEF Held
  <2>3. QED
      BY <2>1, <2>2 DEF AInv, Line
<1>10. Aged(q, earlier')
  <2>1. /\ Len(queue) \in Nat /\ DOMAIN queue = 1..Len(queue) /\ Len(q) = Len(queue) + 1
        /\ \A i \in 1..Len(queue) : q[i] = queue[i] /\ queue[i] \in ToSet(queue)
        /\ q[Len(queue) + 1] = c
      BY <1>8, AppendProperties, LenProperties DEF ToSet
  <2> HIDE DEF q
  <2> SUFFICES ASSUME NEW i \in 1..Len(q), NEW j \in 1..Len(q), i < j PROVE q[i] \in earlier'[q[j]]
      BY DEF Aged
  <2>2. i \in 1..Len(queue)
      BY <2>1
  <2>3. CASE j = Len(queue) + 1
      BY <1>3, <1>8, <2>1, <2>2, <2>3
  <2>4. CASE j # Len(queue) + 1
    <3>1. j \in 1..Len(queue)
        BY <2>1, <2>4
    <3>2. queue[i] \in earlier[queue[j]] /\ queue[j] \in Callers \ {c}
        BY <1>8, <2>1, <2>2, <3>1 DEF OInv, Aged
    <3>3. QED
        BY <1>3, <2>1, <2>2, <3>1, <3>2
  <2>5. QED
      BY <2>3, <2>4
<1> HIDE DEF q
<1>11. CASE ~(inbox.kind = "gpq" /\ top = None)
  <2>1. queue' = q /\ top' = top
      BY <1>1, <1>11 DEF Hold
  <2>2. inbox.kind = "gpq" => \A d \in ToSet(queue') : Ahead(d)'
    <3> SUFFICES ASSUME inbox.kind = "gpq", NEW d \in ToSet(q) PROVE Ahead(d)'
        BY <2>1
    <3>1. CASE d = c
      <4>1. top \in Held(queue, top)
          BY <1>11 DEF Held
      <4>2. QED
          BY <1>3, <1>5, <2>1, <3>1, <4>1 DEF Ahead
    <3>2. CASE d # c
      <4>1. d \in ToSet(queue) /\ d \in Callers \ {c}
          BY <1>8, <1>9, <3>2
      <4>2. Ahead(d)
          BY <4>1 DEF OInv
      <4>3. QED
          BY <1>3, <1>4, <2>1, <4>1, <4>2 DEF Ahead
    <3>3. QED
        BY <3>1, <3>2
  <2>3. Aged(queue, earlier)'
      BY <1>10, <2>1 DEF Aged
  <2>4. QED
      BY <1>1, <1>3, <1>6, <1>7, <1>11, <2>1, <2>2, <2>3 DEF OInv
<1>12. CASE inbox.kind = "gpq" /\ top = None
  <2>1. queue = <<>> /\ ToSet(queue) = {}
      BY <1>12, EmptySeq DEF OInv, ToSet
  <2>2. ToSet(q) = {c} /\ q # <<>>
      BY <1>9, <2>1, EmptySeq DEF ToSet
  <2>3. First(q) \in 1..Len(q) /\ queue' = RemoveAt(q, First(q)) /\ top' = q[First(q)]
      BY <1>1, <1>9, <1>12, <2>2, FirstFacts DEF Hold
  <2>4. ToSet(queue') = ToSet(q) \ {top'} /\ top' \in ToSet(q) /\ queue' \in Seq(Callers)
      BY <1>9, <2>3, RemoveFacts DEF Line
  <2>5. top' = c /\ ToSet(queue') = {}
      BY <2>2, <2>4
  <2>6. Len(queue') = 0
    <3>1. Len(queue') \in Nat /\ DOMAIN queue' = 1..Len(queue')
        BY <2>4, LenProperties
    <3>2. CASE Len(queue') # 0
      <4>1. 1 \in DOMAIN queue'
          BY <3>1, <3>2
      <4>2. queue'[1] \in ToSet(queue')
          BY <4>1 DEF ToSet
      <4>3. QED
          BY <2>5, <4>2
    <3>3. QED
        BY <3>2
  <2>7. Aged(queue, earlier)'
      BY <2>6 DEF Aged
  <2>8. QED
      BY <1>1, <1>3, <1>6, <1>7, <1>8, <1>12, <2>5, <2>7 DEF OInv
<1>13. QED
    BY <1>11, <1>12

LEMMA TakeOrder ==
    ASSUME AInv, OInv, Take
    PROVE  OInv'
<1> DEFINE o == Offered
<1>1. /\ o # None /\ TakeOffered /\ inbox' = inbox /\ earlier' = earlier
      /\ passed' = [d \in Callers |-> passed[d] \cup {m \in {o} : fate'[d] = "queued"}]
      /\ fate' = [fate EXCEPT ![o] = "taken"]
    BY DEF Take, Processing
<1>2. /\ o \in Callers /\ o \in Held(queue, top)
      /\ Line(queue', top') /\ Held(queue', top') = Held(queue, top) \ {o}
    BY <1>1, TakeFacts DEF AInv
<1>3. passed' \in [Callers -> SUBSET Callers]
    BY <1>1, <1>2 DEF OInv
<1>4. /\ \A d \in Callers : fate'[d] = "none" => fate[d] = "none"
      /\ \A d \in Callers : fate'[d] = "queued" <=> d \in Held(queue, top) \ {o}
    BY <1>1, <1>2 DEF AInv, TypeOK, Placed
<1>5. \A d \in Callers : fate'[d] = "none" => passed'[d] = {}
    BY <1>1, <1>4 DEF OInv
<1>6. \A c, m : GoesBefore(m, c)' <=> GoesBefore(m, c)
    BY <1>1 DEF GoesBefore, Level
<1>7. \A d \in Callers :
         OutOfTurn(d)' = IF d \in Held(queue, top) \ {o} /\ ~GoesBefore(o, d)
                         THEN OutOfTurn(d) \cup {o} ELSE OutOfTurn(d)
  <2> TAKE d \in Callers
  <2>1. passed'[d] = passed[d] \cup (IF d \in Held(queue, top) \ {o} THEN {o} ELSE {})
      BY <1>1, <1>4
  <2> HIDE DEF o
  <2>2. QED
      BY <1>6, <2>1 DEF OutOfTurn
<1>8. ToSet(queue) \subseteq Callers
    BY InQueue DEF AInv, Line
<1>9. CASE inbox.kind = "gpq"
  <2>1. o = top /\ Hold(queue, None) /\ Line(queue, None)
      BY <1>1, <1>9, InQueue DEF Offered, TakeOffered, AInv, Line
  <2>2. Held(queue, top) \ {o} = ToSet(queue)
      BY <1>1, <2>1 DEF AInv, Line, Held
  <2>3. /\ Aged(queue', earlier) /\ (top' = None => queue' = <<>>)
        /\ \A c \in ToSet(queue') : GoesBefore(top', c)
      BY <1>9, <2>1, HoldOrder DEF OInv
  <2> HIDE DEF o
  <2>4. \A d \in ToSet(queue) :
           OutOfTurn(d)' = {} \/ \E m \in earlier[d] : OutOfTurn(d)' = {m}
    <3> TAKE d \in ToSet(queue)
    <3>1. Ahead(d) /\ d \in Callers
        BY <1>8, <1>9 DEF OInv
    <3>2. CASE GoesBefore(o, d)
        BY <1>7, <2>1, <3>1, <3>2 DEF Ahead
    <3>3. CASE ~GoesBefore(o, d)
      <4>1. OutOfTurn(d) = {} /\ o \in earlier[d]
          BY <2>1, <3>1, <3>3 DEF Ahead
      <4>2. OutOfTurn(d)' = {o}
          BY <1>7, <2>2, <3>1, <3>3, <4>1
      <4>3. QED
          BY <4>1, <4>2
    <3>4. QED
        BY <3>2, <3>3
  <2>5. PriorityOrder'
    <3>1. \A d \in Callers \ ToSet(queue) : OutOfTurn(d)' = OutOfTurn(d)
        BY <1>7, <2>2
    <3>2. QED
        BY <1>1, <1>9, <2>4, <3>1 DEF OInv, PriorityOrder
  <2>6. ToSet(queue') \subseteq ToSet(queue)
    <3>1. ToSet(queue') \subseteq Held(queue', top')
        BY DEF Held
    <3>2. QED
        BY <1>2, <2>2, <3>1
  <2>7. \A d \in ToSet(queue') : Ahead(d)'
      BY <1>1, <1>6, <2>3, <2>4, <2>6 DEF Ahead
  <2>8. Aged(queue, earlier)'
      BY <1>1, <2>3 DEF Aged
  <2>9. QED
      BY <1>1, <1>3, <1>5, <2>3, <2>5, <2>7, <2>8 DEF OInv
<1>10. CASE inbox.kind # "gpq"
  <2>1. /\ queue \in Seq(Callers) /\ queue # <<>> /\ IsInjective(queue) /\ top = None
        /\ o = queue[First(queue)] /\ queue' = RemoveAt(queue, First(queue))
      BY <1>1, <1>10 DEF Offered, TakeOffered, AInv, Line
  <2>2. Held(queue, top) = ToSet(queue)
      BY <2>1 DEF Held
  <2>3. First(queue) \in 1..Len(queue)
      BY <2>1, FirstFacts
  <2>4. Aged(queue', earlier)
      BY <2>1, <2>3, RemoveFacts DEF OInv
  <2>5. \A d \in ToSet(queue) \ {o} : GoesBefore(o, d)
      BY <2>1, FirstGoesBefore DEF OInv
  <2> HIDE DEF o
  <2>6. \A d \in Callers : OutOfTurn(d)' = OutOfTurn(d)
      BY <1>7, <2>2, <2>5
  <2>7. PriorityOrder'
      BY <1>1, <2>6 DEF OInv, PriorityOrder
  <2>8. Aged(queue, earlier)'
      BY <1>1, <2>4 DEF Aged
  <2>9. QED
      BY <1>1, <1>3, <1>5, <1>10, <2>7, <2>8 DEF OInv
<1>11. QED
    BY <1>9, <1>10

LEMMA OrderInit == Init => OInv
<1> SUFFICES ASSUME Init PROVE OInv
    OBVIOUS
<1>1. Len(<<>>) = 0 /\ ToSet(<<>>) = {}
    BY EmptySeq DEF ToSet
<1>2. Aged(queue, earlier)
    BY <1>1 DEF Init, Aged
<1>3. PriorityOrder
    BY DEF Init, PriorityOrder, OutOfTurn
<1>4. QED
    BY <1>1, <1>2, <1>3 DEF Init, OInv

LEMMA OrderNext == AInv /\ OInv /\ [Next]_vars => OInv'
<1> SUFFICES ASSUME AInv, OInv, [Next]_vars PROVE OInv'
    OBVIOUS
<1>1. ASSUME NEW c \in Callers, CallerStep(c) \/ TakeDirect(c) PROVE OInv'
  <2>1. UNCHANGED <<inbox, order, queue, top>>
      BY <1>1 DEF CallerStep, Start, SendPanic, GiveUp, Return, TakeDirect, Processing, inboxVars, order
  <2>2. \A d \in Callers : fate'[d] = "none" => fate[d] = "none"
      BY <1>1 DEF CallerStep, Start, SendPanic, GiveUp, TakeDirect, Processing, AInv, TypeOK
  <2>3. QED
      BY <2>1, <2>2, OrderStays
<1>2. CASE PumpStep
  <2>1. UNCHANGED <<inbox, order>> /\ (UNCHANGED <<queue, top>> \/ (queue' = <<>> /\ top' = None))
      BY <1>2 DEF PumpStep, PumpSeesClose, PumpEnds, PumpCancel, callVars, order
  <2>2. \A d \in Callers : fate'[d] = "none" => fate[d] = "none"
      BY <1>2 DEF PumpStep, PumpSeesClose, PumpEnds, PumpCancel
  <2>3. QED
      BY <2>1, <2>2, OrderStays
<1>3. CASE \/ LoopCancel \/ LoopClose \/ LoopEnd \/ Stop \/ StopClose \/ Cancel
           \/ Reply \/ Inform \/ InformNot \/ UNCHANGED vars
  <2>1. UNCHANGED <<inbox, order, queue, top, fate>>
      BY <1>3 DEF LoopCancel, LoopClose, LoopEnd, Stop, StopClose, Cancel, Reply, Inform, InformNot,
                  LoopTo, Return, vars, inboxVars, callVars, order
  <2>2. QED
      BY <2>1, OrderStays
<1>4. CASE Process \/ Panic
  <2>1. UNCHANGED <<inbox, order, queue, top>>
      BY <1>4 DEF Process, Panic, LoopTo, inboxVars, callVars, order
  <2>2. \A d \in Callers : fate'[d] = "none" => fate[d] = "none"
      BY <1>4 DEF Process, Panic, AInv, TypeOK
  <2>3. QED
      BY <2>1, <2>2, OrderStays
<1>5. QED
    BY <1>1, <1>2, <1>3, <1>4, EnqueueOrder, TakeOrder DEF Next, LoopStep

-----------------------------------------------------------------------------
(* Theorems                                                                *)

\* Inbox, pump, run loop and callers agree on where every message is and what
\* became of it (submit, run, createPriority, the pump of gpqinbox).
THEOREM ActorInvariant == Spec => []AInv
<1>1. QED
    BY InvInit, InvNext, PTL DEF Spec

\* Whatever an actor accepts is in one place, and dealt with or told of when
\* the run loop ends, for any inbox, pump and bound.
THEOREM InboxTruthful == Spec => []InboxIsTrue
<1>1. ASSUME AInv PROVE InboxIsTrue
  <2>1. \A c \in Callers : c \in Held(queue, top) <=> InInbox(c)
      BY ActorAssumption DEF Held, InInbox
  <2>2. Conserved
      BY <1>1, <2>1 DEF AInv, Line, Placed, Conserved
  <2>3. loop = "gone" => Held(queue, top) = {}
      BY <1>1 DEF AInv, Ending
  <2>4. StopDrains
      BY <1>1, <2>3 DEF AInv, TypeOK, Placed, Ending, StopDrains
  <2>5. ExitIsAnnounced
      BY <1>1 DEF AInv, Ending, ExitIsAnnounced
  <2>6. QED
      BY <2>2, <2>4, <2>5 DEF InboxIsTrue
<1>2. AInv => InboxIsTrue
    BY <1>1
<1>3. QED
    BY ActorInvariant, <1>2, PTL

\* What Send and Request return is what became of the message.
THEOREM AnswersTruthful == Spec => []AnswersAreTrue
<1>1. AInv => AnswersAreTrue
    BY DEF AInv, Answered, AnswersAreTrue
<1>2. QED
    BY ActorInvariant, <1>1, PTL

\* While a message waits, what goes before it is of a higher weight, or of the
\* same and older (less of channels/priority.go, the buckets of gpqinbox), but for
\* one that the pump of a gpq inbox held already.
THEOREM PriorityKept == Spec => []PriorityOrder
<1>1. AInv /\ AInv' /\ OInv /\ [Next]_vars => OInv'
    BY OrderNext
<1>2. Spec => []OInv
    BY ActorInvariant, OrderInit, <1>1, PTL DEF Spec
<1>3. OInv => PriorityOrder
    BY DEF OInv
<1>4. QED
    BY <1>2, <1>3, PTL

(***************************************************************************)
(* Future                                                                  *)
(***************************************************************************)
-----------------------------------------------------------------------------
(* The inductive invariant                                                 *)

\* Inside fulfill: the result is written, and the callbacks are not started yet.
Settling(g) == fpc[g] \in {"close", "invoke"}

\* The Once lets one goroutine in, and the mutex is that goroutine's until it
\* has closed resultReady.
Locks ==
    /\ \A g \in Gs : fpc[g] = "close" => mu[Of(g)] = g
    /\ \A f \in Futures : mu[f] # "nobody" => fpc[mu[f]] = "close" /\ Of(mu[f]) = f
    /\ \A g \in Gs : Settling(g) => once[Of(g)] = "busy"
    /\ \A g, h \in Gs : Settling(g) /\ Settling(h) /\ Of(g) = Of(h) => g = h

\* Whoever finds the mutex free finds a future that nobody has begun to fulfill,
\* or one whose result is there.
Results ==
    /\ \A f \in Futures : once[f] = "free" => ~ready[f]
    /\ \A f \in Futures : once[f] # "free" => ready[f] \/ mu[f] # "nobody"
    /\ \A g \in Gs : Settling(g) => /\ result[Of(g)] = res[g]
                                    /\ ready[Of(g)] <=> fpc[g] = "invoke"

\* A callback that was not started is in one place at most: with its future, or
\* with the goroutine that fulfills it.
Lists ==
    /\ \A w \in Watchers : wpc[w] = "out" => calls[w] = 0
    /\ \A f \in Futures : \A w \in callbacks[f] :
          On[w] = f /\ wpc[w] = "over" /\ calls[w] = 0 /\ once[f] = "free"
    /\ \A g \in Gs : Settling(g) =>
          \A w \in todo[g] : On[w] = Of(g) /\ wpc[w] = "over" /\ calls[w] = 0

\* The error of a source is its own.
Causes ==
    /\ \A g \in Go : res[g] \in {{}, {Of(g)}}
    /\ \A f \in Sources : once[f] # "free" => result[f] \in {{}, {f}}

\* What the goroutine of the derived future has learnt from the sources it has
\* awaited, ...
Learnt ==
    fpc[Comb] \in {"run", "wait"} =>
       IF StopsAtError
       THEN errs = {} /\ \A e \in 1..(at - 1) : ready[e] /\ result[e] = {}
       ELSE \/ mode = "allCtx" /\ fcanceled /\ Ctx \in errs
            \/ (\A e \in 1..(at - 1) : ready[e]) /\ errs = Failed \cap 1..(at - 1)

\* ... and what it makes of that.
Derived ==
    /\ once[0] # "free" => fpc[Comb] \in {"close", "invoke", "over"} /\ result[0] = res[Comb]
    /\ fpc[Comb] = "wait" => WithContext /\ ~Awaited
    /\ fpc[Comb] \notin {"run", "wait"} => Outcome(res[Comb])

FInv == FutureTypeOK /\ Locks /\ Results /\ Lists /\ CallbacksFit /\ Causes /\ Learnt /\ Derived

-----------------------------------------------------------------------------
(* Who fulfills what, and the steps that leave the futures alone           *)

\* The derived future is that of one goroutine, and a source that of its own.
LEMMA Roles ==
    /\ Comb \in Gs /\ Comb \notin Go /\ Of(Comb) = 0 /\ "nobody" \notin Gs
    /\ 0 \in Futures /\ Sources \subseteq Futures /\ 0 \notin Sources
    /\ \A g \in Go : Of(g) \in Sources /\ g # Comb /\ g \in Gs
    /\ \A g \in Gs : Of(g) \in Futures /\ (Of(g) = 0 <=> g = Comb)
<1>1. Comb \in Gs /\ Comb \notin Go /\ Of(Comb) = 0 /\ "nobody" \notin Gs
    BY FutureAssumption DEF Gs, Comb, Of
<1>2. 0 \in Futures /\ Sources \subseteq Futures /\ 0 \notin Sources
    BY FutureAssumption DEF Futures, Sources
<1>3. ASSUME NEW g \in Go PROVE Of(g) \in Sources /\ g # Comb /\ g \in Gs
    <2>1. \E f \in Sources : g \in Completers[f]
        BY DEF Go
    <2>2. g # Comb
        BY <1>1
    <2>3. QED
        BY <2>1, <2>2 DEF Of, Gs
<1>4. QED
    BY <1>1, <1>2, <1>3 DEF Gs

\* Neither a future nor a goroutine inside fulfill changes.
Quiet ==
    /\ UNCHANGED <<mode, futVars, todo, wpc, calls>>
    /\ \A g \in Gs : /\ fpc'[g] \in {"close", "invoke"} <=> Settling(g)
                     /\ Settling(g) => fpc'[g] = fpc[g] /\ res'[g] = res[g]

\* Every step is one of fulfill, a registration, or leaves the futures alone.
LEMMA StepCases ==
    ASSUME FutureTypeOK, [FutureNext]_futureVars
    PROVE  \/ Quiet
           \/ \E g \in Gs : EnterOnce(g) \/ CloseReady(g) \/ InvokeAll(g)
           \/ \E w \in Watchers : Watch(w)
<1> USE DEF Quiet, Settling
<1>1. CASE UNCHANGED futureVars
    BY <1>1 DEF futureVars, futVars, goVars
<1>2. CASE CancelAwait
    BY <1>2 DEF CancelAwait, goVars
<1>3. ASSUME NEW g \in Gs, SkipOnce(g) PROVE Quiet
    BY <1>3 DEF SkipOnce, Goto, FutureTypeOK
<1>4. ASSUME NEW g \in Gs, NEW ok \in BOOLEAN, Finish(g, ok) PROVE Quiet
    BY <1>4 DEF Finish, Goto, FutureTypeOK
<1>5. CASE CombStep
    <2>1. ASSUME NEW r, CombEnds(r) PROVE Quiet
        BY <2>1, Roles DEF CombEnds, FutureTypeOK
    <2>2. ASSUME NEW es, CombGoesOn(es) PROVE Quiet
        BY <2>2, Roles DEF CombGoesOn, FutureTypeOK
    <2>3. CASE CombWaits
        BY <2>3, Roles DEF CombWaits, Goto, FutureTypeOK
    <2>4. QED
        BY <1>5, <2>1, <2>2, <2>3
           DEF CombStep, CombCanceled, CombGivesUp, CombAwaits, CombDone
<1>6. QED
    BY <1>1, <1>2, <1>3, <1>4, <1>5 DEF FutureNext, FulfillStep

-----------------------------------------------------------------------------
(* The proof: the initial states, and the steps one conjunct at a time     *)

\* At first nobody has fulfilled, registered or awaited anything.
LEMMA InitFInv == FutureInit => FInv
<1> SUFFICES ASSUME FutureInit PROVE FInv
    OBVIOUS
<1>1. FutureTypeOK
    <2>1. at \in 1..(N + 1)
        BY FutureAssumption DEF FutureInit
    <2>2. /\ result \in [Futures -> (SUBSET Culprits) \cup {Unfulfilled}]
          /\ once \in [Futures -> {"free", "busy", "done"}] /\ mu \in [Futures -> Gs \cup {"nobody"}]
          /\ ready \in [Futures -> BOOLEAN] /\ callbacks \in [Futures -> SUBSET Watchers]
        BY DEF FutureInit
    <2>3. QED
        BY <2>1, <2>2 DEF FutureInit, FutureTypeOK
<1>2. \A g \in Gs : fpc[g] = "run"
    BY DEF FutureInit
<1>3. Locks /\ Results /\ Lists
    BY <1>2 DEF FutureInit, Locks, Results, Lists, Settling
<1>4. CallbacksFit
    BY <1>1 DEF FutureInit, CallbacksFit
<1>5. Causes
    BY Roles DEF FutureInit, Causes
<1>6. Learnt
    <2>1. 1..(at - 1) = {} /\ errs = {}
        BY DEF FutureInit
    <2>2. QED
        BY <2>1 DEF Learnt
<1>7. Derived
    BY <1>2, Roles DEF FutureInit, Derived
<1>8. QED
    BY <1>1, <1>3, <1>4, <1>5, <1>6, <1>7 DEF FInv

\* The Once and the mutex.
LEMMA LocksStep == FInv /\ [FutureNext]_futureVars => Locks'
<1> SUFFICES ASSUME FInv, [FutureNext]_futureVars PROVE Locks'
    OBVIOUS
<1> USE DEF Locks, Settling
<1>1. FutureTypeOK /\ Locks
    BY DEF FInv
<1>2. CASE Quiet
    BY <1>1, <1>2, Roles DEF Quiet, futVars, FutureTypeOK
<1>3. ASSUME NEW g \in Gs, EnterOnce(g) PROVE Locks'
    BY <1>1, <1>3, Roles DEF EnterOnce, Goto, FirstTime, Free, FutureTypeOK
<1>4. ASSUME NEW g \in Gs, CloseReady(g) PROVE Locks'
    BY <1>1, <1>4, Roles DEF CloseReady, Goto, FutureTypeOK
<1>5. ASSUME NEW g \in Gs, InvokeAll(g) PROVE Locks'
    BY <1>1, <1>5, Roles DEF InvokeAll, Goto, FutureTypeOK
<1>6. ASSUME NEW w \in Watchers, Watch(w) PROVE Locks'
    BY <1>1, <1>6 DEF Watch, goVars
<1>7. QED
    BY <1>1, <1>2, <1>3, <1>4, <1>5, <1>6, StepCases

\* What is ready was written before.
LEMMA ResultsStep == FInv /\ [FutureNext]_futureVars => Results'
<1> SUFFICES ASSUME FInv, [FutureNext]_futureVars PROVE Results'
    OBVIOUS
<1> USE DEF Results, Settling
<1>1. FutureTypeOK /\ Locks /\ Results
    BY DEF FInv
<1>2. CASE Quiet
    BY <1>1, <1>2, Roles DEF Quiet, futVars, FutureTypeOK
<1>3. ASSUME NEW g \in Gs, EnterOnce(g) PROVE Results'
    BY <1>1, <1>3, Roles DEF EnterOnce, Goto, FirstTime, Free, FutureTypeOK, Locks
<1>4. ASSUME NEW g \in Gs, CloseReady(g) PROVE Results'
    BY <1>1, <1>4, Roles DEF CloseReady, Goto, FutureTypeOK, Locks
<1>5. ASSUME NEW g \in Gs, InvokeAll(g) PROVE Results'
    BY <1>1, <1>5, Roles DEF InvokeAll, Goto, FutureTypeOK, Locks
<1>6. ASSUME NEW w \in Watchers, Watch(w) PROVE Results'
    BY <1>1, <1>6 DEF Watch, goVars
<1>7. QED
    BY <1>1, <1>2, <1>3, <1>4, <1>5, <1>6, StepCases

\* A callback moves from its future to the goroutine that fulfills it.
LEMMA ListsStep == FInv /\ [FutureNext]_futureVars => Lists'
<1> SUFFICES ASSUME FInv, [FutureNext]_futureVars PROVE Lists'
    OBVIOUS
<1> USE DEF Lists, Settling
<1>1. FutureTypeOK /\ Locks /\ Results /\ Lists
    BY DEF FInv
<1>2. CASE Quiet
    BY <1>1, <1>2, Roles DEF Quiet, futVars, FutureTypeOK
<1>3. ASSUME NEW g \in Gs, EnterOnce(g) PROVE Lists'
    BY <1>1, <1>3, Roles DEF EnterOnce, Goto, FirstTime, Free, FutureTypeOK, Locks
<1>4. ASSUME NEW g \in Gs, CloseReady(g) PROVE Lists'
    BY <1>1, <1>4, Roles DEF CloseReady, Goto, FutureTypeOK
<1>5. ASSUME NEW g \in Gs, InvokeAll(g) PROVE Lists'
    BY <1>1, <1>5, Roles DEF InvokeAll, Invoke, Goto, FutureTypeOK, Locks
<1>6. ASSUME NEW w \in Watchers, Watch(w) PROVE Lists'
    BY <1>1, <1>6, FutureAssumption DEF Watch, Free, Invoke, goVars, FutureTypeOK, Results
<1>7. QED
    BY <1>1, <1>2, <1>3, <1>4, <1>5, <1>6, StepCases

\* Every variable keeps its type: no source after the last one is awaited.
LEMMA TypedStep == FInv /\ [FutureNext]_futureVars => FutureTypeOK'
<1> SUFFICES ASSUME FInv, [FutureNext]_futureVars PROVE FutureTypeOK'
    OBVIOUS
<1> USE Roles DEF FutureTypeOK
<1>1. FutureTypeOK /\ Derived
    BY DEF FInv
<1>2. CASE UNCHANGED futureVars
    BY <1>1, <1>2 DEF futureVars, futVars, goVars
<1>3. ASSUME NEW g \in Gs, EnterOnce(g) PROVE FutureTypeOK'
    BY <1>1, <1>3 DEF EnterOnce, Goto
<1>4. ASSUME NEW g \in Gs, SkipOnce(g) PROVE FutureTypeOK'
    BY <1>1, <1>4 DEF SkipOnce, Goto, futVars
<1>5. ASSUME NEW g \in Gs, CloseReady(g) PROVE FutureTypeOK'
    BY <1>1, <1>5 DEF CloseReady, Goto
<1>6. ASSUME NEW g \in Gs, InvokeAll(g) PROVE FutureTypeOK'
    BY <1>1, <1>6 DEF InvokeAll, Invoke, Goto
<1>7. ASSUME NEW g \in Gs, NEW ok \in BOOLEAN, Finish(g, ok) PROVE FutureTypeOK'
    BY <1>1, <1>7 DEF Finish, Goto, futVars, Culprits
<1>8. CASE CombStep
    <2>1. ASSUME NEW r, r \subseteq Culprits, CombEnds(r) PROVE FutureTypeOK'
        BY <1>1, <2>1 DEF CombEnds, futVars
    <2>2. ASSUME NEW es, es \subseteq Culprits, ~Awaited, CombGoesOn(es) PROVE FutureTypeOK'
        <3>1. at + 1 \in 1..(N + 1)
            BY <1>1, <2>2, FutureAssumption DEF Awaited, Mapped
        <3>2. QED
            BY <1>1, <2>2, <3>1 DEF CombGoesOn, futVars
    <2>3. CASE CombWaits
        BY <1>1, <2>3 DEF CombWaits, Goto, futVars
    <2>4. CASE CombAwaits
        <3>1. at \in Sources
            BY <1>1, <2>4, FutureAssumption DEF CombAwaits, Awaited, Mapped, Sources
        <3>2. result[at] \subseteq Culprits
            BY <2>4, <3>1 DEF CombAwaits, Signaled, FInv, Results, Causes, Culprits
        <3>3. QED
            BY <1>1, <2>1, <2>2, <2>4, <3>2 DEF CombAwaits
    <2>5. {Ctx} \subseteq Culprits /\ {Fn} \subseteq Culprits /\ errs \subseteq Culprits
        BY <1>1 DEF Culprits
    <2>6. CASE CombGivesUp
        BY <1>1, <2>1, <2>2, <2>5, <2>6 DEF CombGivesUp, Derived
    <2>7. QED
        BY <1>8, <2>1, <2>3, <2>4, <2>5, <2>6 DEF CombStep, CombCanceled, CombDone
<1>9. ASSUME NEW w \in Watchers, Watch(w) PROVE FutureTypeOK'
    BY <1>1, <1>9, FutureAssumption DEF Watch, Invoke, goVars
<1>10. CASE CancelAwait
    BY <1>1, <1>10 DEF CancelAwait, futVars, goVars
<1>11. QED
    BY <1>2, <1>3, <1>4, <1>5, <1>6, <1>7, <1>8, <1>9, <1>10 DEF FutureNext, FulfillStep

\* No step takes back a result, nor a cancellation.
Settled ==
    /\ mode' = mode /\ (fcanceled => fcanceled')
    /\ \A f \in Futures : ready[f] => ready'[f] /\ result'[f] = result[f]

LEMMA Stays == FInv /\ [FutureNext]_futureVars => Settled
<1> SUFFICES ASSUME FInv, [FutureNext]_futureVars PROVE Settled
    OBVIOUS
<1>1. FutureTypeOK /\ Results
    BY DEF FInv
<1>2. mode' = mode /\ (fcanceled => fcanceled')
    <2>1. CASE CombStep
        BY <2>1 DEF CombStep, CombCanceled, CombWaits, CombGivesUp, CombAwaits, CombDone,
                    CombEnds, CombGoesOn
    <2>2. ASSUME NEW g \in Gs, FulfillStep(g) \/ \E ok \in BOOLEAN : Finish(g, ok)
          PROVE  mode' = mode /\ (fcanceled => fcanceled')
        BY <2>2 DEF FulfillStep, EnterOnce, SkipOnce, CloseReady, InvokeAll, Finish
    <2>3. ASSUME NEW w \in Watchers, Watch(w) PROVE mode' = mode /\ (fcanceled => fcanceled')
        BY <2>3 DEF Watch
    <2>4. CASE CancelAwait
        BY <2>4 DEF CancelAwait
    <2>5. CASE UNCHANGED futureVars
        BY <2>5 DEF futureVars
    <2>6. QED
        BY <2>1, <2>2, <2>3, <2>4, <2>5 DEF FutureNext
<1>3. ASSUME NEW f \in Futures, ready[f] PROVE ready'[f] /\ result'[f] = result[f]
    <2>1. CASE Quiet
        BY <1>3, <2>1 DEF Quiet, futVars
    <2>2. ASSUME NEW g \in Gs, EnterOnce(g) PROVE ready'[f] /\ result'[f] = result[f]
        BY <1>1, <1>3, <2>2 DEF EnterOnce, FirstTime, FutureTypeOK, Results
    <2>3. ASSUME NEW g \in Gs, CloseReady(g) PROVE ready'[f] /\ result'[f] = result[f]
        BY <1>1, <1>3, <2>3 DEF CloseReady, FutureTypeOK
    <2>4. ASSUME NEW g \in Gs, InvokeAll(g) PROVE ready'[f] /\ result'[f] = result[f]
        BY <1>3, <2>4 DEF InvokeAll
    <2>5. ASSUME NEW w \in Watchers, Watch(w) PROVE ready'[f] /\ result'[f] = result[f]
        BY <1>3, <2>5 DEF Watch
    <2>6. QED
        BY <1>1, <2>1, <2>2, <2>3, <2>4, <2>5, StepCases
<1>4. QED
    BY <1>2, <1>3 DEF Settled

\* A callback is called at most once, and for the result that is there.
LEMMA CallsStep == FInv /\ [FutureNext]_futureVars => CallbacksFit'
<1> SUFFICES ASSUME FInv, [FutureNext]_futureVars PROVE CallbacksFit'
    OBVIOUS
<1>1. FutureTypeOK /\ Locks /\ Results /\ Lists /\ CallbacksFit
    BY DEF FInv
<1>2. FutureTypeOK' /\ Settled
    BY TypedStep, Stays
<1>3. ASSUME NEW w \in Watchers, calls'[w] = calls[w]
      PROVE  calls'[w] <= 1 /\ (calls'[w] = 1 => /\ ready'[On[w]] /\ Matches(w, result'[On[w]])
                                                 /\ Hears[w] = "success" => result'[On[w]] = {})
    BY <1>1, <1>2, <1>3, FutureAssumption DEF CallbacksFit, Settled, Matches
<1>4. ASSUME NEW w \in Watchers, calls[w] = 0, calls'[w] \in {0, 1}, ready'[On[w]],
             calls'[w] = 1 => Matches(w, result'[On[w]])
      PROVE  calls'[w] <= 1 /\ (calls'[w] = 1 => /\ ready'[On[w]] /\ Matches(w, result'[On[w]])
                                                 /\ Hears[w] = "success" => result'[On[w]] = {})
    <2>1. calls'[w] <= 1
        BY <1>4
    <2>2. calls'[w] = 1 /\ Hears[w] = "success" => result'[On[w]] = {}
        BY <1>4 DEF Matches
    <2>3. QED
        BY <1>4, <2>1, <2>2
<1>5. ASSUME NEW w \in Watchers
      PROVE  calls'[w] <= 1 /\ (calls'[w] = 1 => /\ ready'[On[w]] /\ Matches(w, result'[On[w]])
                                                 /\ Hears[w] = "success" => result'[On[w]] = {})
    <2>1. CASE Quiet
        BY <1>3, <2>1 DEF Quiet
    <2>2. ASSUME NEW g \in Gs, EnterOnce(g) \/ CloseReady(g) PROVE calls'[w] = calls[w]
        BY <2>2 DEF EnterOnce, CloseReady
    <2>3. ASSUME NEW g \in Gs, InvokeAll(g)
          PROVE  \/ calls'[w] = calls[w]
                 \/ /\ calls[w] = 0 /\ calls'[w] \in {0, 1} /\ ready'[On[w]]
                    /\ calls'[w] = 1 => Matches(w, result'[On[w]])
        BY <1>1, <2>3, Roles
           DEF InvokeAll, Invoke, Goto, Settling, Lists, Results, FutureTypeOK
    <2>4. ASSUME NEW v \in Watchers, Watch(v)
          PROVE  \/ calls'[w] = calls[w]
                 \/ /\ calls[w] = 0 /\ calls'[w] \in {0, 1} /\ ready'[On[w]]
                    /\ calls'[w] = 1 => Matches(w, result'[On[w]])
        BY <1>1, <2>4 DEF Watch, Invoke, Lists, FutureTypeOK
    <2>5. QED
        BY <1>1, <1>3, <1>4, <2>1, <2>2, <2>3, <2>4, StepCases
<1>6. QED
    BY <1>2, <1>5 DEF CallbacksFit, Matches

\* The errors of the sources.
LEMMA CausesStep == FInv /\ [FutureNext]_futureVars => Causes'
<1> SUFFICES ASSUME FInv, [FutureNext]_futureVars PROVE Causes'
    OBVIOUS
<1> USE Roles DEF Causes
<1>1. FutureTypeOK /\ Causes
    BY DEF FInv
<1>2. ASSUME NEW g \in Go PROVE res'[g] \in {{}, {Of(g)}}
    <2>1. ASSUME NEW h \in Gs, NEW ok \in BOOLEAN, Finish(h, ok) PROVE res'[g] \in {{}, {Of(g)}}
        BY <1>1, <2>1 DEF Finish, FutureTypeOK
    <2>2. CASE CombStep
        BY <1>1, <2>2 DEF CombStep, CombCanceled, CombWaits, CombGivesUp, CombAwaits, CombDone,
                          CombEnds, CombGoesOn, FutureTypeOK
    <2>3. ASSUME NEW h \in Gs, FulfillStep(h) PROVE res' = res
        BY <2>3 DEF FulfillStep, EnterOnce, SkipOnce, CloseReady, InvokeAll
    <2>4. ASSUME NEW w \in Watchers, Watch(w) PROVE res' = res
        BY <2>4 DEF Watch, goVars
    <2>5. CASE CancelAwait \/ UNCHANGED futureVars
        BY <1>1, <2>5 DEF CancelAwait, futureVars, goVars
    <2>6. QED
        BY <1>1, <2>1, <2>2, <2>3, <2>4, <2>5 DEF FutureNext
<1>3. ASSUME NEW f \in Sources, once'[f] # "free" PROVE result'[f] \in {{}, {f}}
    <2>1. CASE Quiet
        BY <1>1, <1>3, <2>1 DEF Quiet, futVars
    <2>2. ASSUME NEW g \in Gs, EnterOnce(g) PROVE result'[f] \in {{}, {f}}
        BY <1>1, <1>3, <2>2 DEF EnterOnce, FutureTypeOK, Gs
    <2>3. ASSUME NEW g \in Gs, CloseReady(g) PROVE result'[f] \in {{}, {f}}
        BY <1>1, <1>3, <2>3 DEF CloseReady
    <2>4. ASSUME NEW g \in Gs, InvokeAll(g) PROVE result'[f] \in {{}, {f}}
        <3>1. once[f] # "free"
            BY <1>3, <2>4 DEF InvokeAll, FInv, Locks, Settling, Goto, FutureTypeOK
        <3>2. QED
            BY <1>1, <2>4, <3>1 DEF InvokeAll
    <2>5. ASSUME NEW w \in Watchers, Watch(w) PROVE result'[f] \in {{}, {f}}
        BY <1>1, <1>3, <2>5 DEF Watch
    <2>6. QED
        BY <1>1, <2>1, <2>2, <2>3, <2>4, <2>5, StepCases
<1>4. QED
    BY <1>2, <1>3

-----------------------------------------------------------------------------
(* The derived future                                                      *)

\* A source that is ready has succeeded or failed, and stays so.
LEMMA Ready ==
    ASSUME FInv, NEW f \in Sources, ready[f]
    PROVE  result[f] \in {{}, {f}} /\ (f \in Failed <=> result[f] = {f})
<1>1. once[f] # "free"
    BY Roles DEF FInv, Results
<1>2. result[f] \in {{}, {f}}
    BY <1>1 DEF FInv, Causes
<1>3. QED
    BY <1>2 DEF Failed

\* What is true of the sources when the derived future gets its result stays true.
LEMMA OutcomeStays ==
    ASSUME FInv, Settled, NEW r, Outcome(r)
    PROVE  Outcome(r)'
<1>1. mode \in AllModes /\ mode' = mode /\ (fcanceled => fcanceled')
    BY FutureAssumption DEF FInv, FutureTypeOK, Settled
<1>2. \A f \in Sources : ready[f] => ready'[f] /\ (f \in Failed <=> f \in Failed')
    BY Roles DEF Settled, Failed
<1>3. AllReady => AllReady' /\ Failed' = Failed
    BY <1>2 DEF AllReady, Failed
<1>4. Failed \subseteq Failed'
    BY <1>2 DEF Failed
<1>5. Good(r) => Good(r)'
    BY <1>3 DEF Good
<1>6. ASSUME NEW f \in Failed, \A e \in 1..(f - 1) : ready[e] /\ e \notin Failed
      PROVE  f \in Failed' /\ \A e \in 1..(f - 1) : ready'[e] /\ e \notin Failed'
    <2>1. \A e \in 1..(f - 1) : e \in Sources
        BY <1>6, FutureAssumption DEF Failed, Sources
    <2>2. QED
        BY <1>2, <1>4, <1>6, <2>1
<1>7. ASSUME mode = "combine" PROVE Outcome(r)'
    BY <1>1, <1>5, <1>6, <1>7 DEF Outcome, Mapped
<1>8. ASSUME mode \in {"combineCtx", "all", "allCtx"} PROVE Outcome(r)'
    BY <1>1, <1>3, <1>4, <1>5, <1>8 DEF Outcome, Mapped
<1>9. ASSUME Mapped PROVE Outcome(r)'
    <2>1. 1 \in Sources
        BY <1>9, FutureAssumption DEF FInv, FutureTypeOK, Sources, Mapped
    <2>2. (1 \in Failed => 1 \in Failed') /\ (ready[1] /\ 1 \notin Failed => ready'[1] /\ 1 \notin Failed')
        BY <1>2, <1>4, <2>1
    <2>3. (WithContext /\ fcanceled) => (WithContext' /\ fcanceled')
        BY <1>1 DEF WithContext
    <2>4. \/ 1 \in Failed' /\ r = {1}
          \/ ready'[1] /\ 1 \notin Failed' /\ r \in {{}, {Fn}}
          \/ WithContext' /\ fcanceled' /\ r = {Ctx}
        BY <1>9, <2>2, <2>3 DEF Outcome
    <2>5. QED
        BY <1>1, <1>9, <2>4 DEF Outcome, Mapped
<1>10. QED
    BY <1>1, <1>7, <1>8, <1>9 DEF AllModes, Mapped

\* The goroutine of the derived future takes a result, with which it ends, or
\* goes on to the next source.
LEMMA LearntStep == FInv /\ [FutureNext]_futureVars => Learnt'
<1> SUFFICES ASSUME FInv, [FutureNext]_futureVars, fpc'[Comb] \in {"run", "wait"}
             PROVE  Learnt'
    BY DEF Learnt
<1>1. FutureTypeOK /\ Settled /\ Learnt
    BY Stays DEF FInv
<1>2. mode \in AllModes /\ mode' = mode
    BY <1>1, FutureAssumption DEF FutureTypeOK, Settled
<1>3. ASSUME NEW e \in 1..(at - 1) PROVE e \in Sources
    BY <1>1, <1>3, FutureAssumption DEF FutureTypeOK, Sources
<1>4. ASSUME \A e \in 1..(at - 1) : ready[e]
      PROVE  Failed' \cap 1..(at - 1) = Failed \cap 1..(at - 1)
    BY <1>1, <1>3, <1>4, Roles DEF Settled, Failed
<1>5. CASE fpc[Comb] \in {"run", "wait"} /\ at' = at /\ errs' = errs
    <2>1. CASE StopsAtError
        BY <1>1, <1>2, <1>3, <1>5, <2>1, Roles DEF Learnt, Settled, StopsAtError
    <2>2. CASE ~StopsAtError
        BY <1>1, <1>2, <1>3, <1>4, <1>5, <2>2, Roles DEF Learnt, Settled, StopsAtError
    <2>3. QED
        BY <2>1, <2>2
<1>6. ASSUME NEW es, CombGoesOn(es), at \in Sources, ready[at],
             ~(StopsAtError /\ result[at] # {}), es = errs \cup result[at]
      PROVE  Learnt'
    <2>1. at' = at + 1 /\ errs' = es /\ fpc[Comb] \in {"run", "wait"} /\ UNCHANGED <<ready, result, fcanceled>>
        BY <1>6 DEF CombGoesOn, futVars
    <2>2. 1..(at' - 1) = 1..(at - 1) \cup {at} /\ Failed' = Failed
        BY <1>6, <2>1, FutureAssumption DEF Sources, Failed
    <2>3. result[at] \in {{}, {at}} /\ (at \in Failed <=> result[at] = {at})
        BY <1>6, Ready
    <2>4. CASE StopsAtError
        BY <1>1, <1>2, <1>6, <2>1, <2>2, <2>3, <2>4 DEF Learnt, StopsAtError
    <2>5. CASE ~StopsAtError
        <3>1. CASE mode = "allCtx" /\ fcanceled /\ Ctx \in errs
            BY <1>2, <1>6, <2>1, <2>5, <3>1 DEF Learnt, StopsAtError
        <3>2. CASE (\A e \in 1..(at - 1) : ready[e]) /\ errs = Failed \cap 1..(at - 1)
            <4>1. (\A e \in 1..(at' - 1) : ready'[e]) /\ errs' = Failed' \cap 1..(at' - 1)
                BY <1>6, <2>1, <2>2, <2>3, <3>2
            <4>2. QED
                BY <1>2, <2>5, <4>1 DEF Learnt, StopsAtError
        <3>3. QED
            BY <1>1, <2>1, <2>5, <3>1, <3>2 DEF Learnt
    <2>6. QED
        BY <2>4, <2>5
<1>7. CASE CombStep
    <2>1. ASSUME NEW r, CombEnds(r) PROVE FALSE
        BY <1>1, <2>1, Roles DEF CombEnds, FutureTypeOK
    <2>2. CASE CombWaits
        BY <1>5, <2>2, Roles DEF CombWaits, Goto
    <2>3. CASE CombGivesUp
        <3>1. ~StopsAtError /\ CombGoesOn(errs \cup {Ctx}) /\ fcanceled
            BY <2>1, <2>3 DEF CombGivesUp
        <3>2. mode = "allCtx"
            BY <1>2, <2>3, <3>1 DEF CombGivesUp, FInv, Derived, WithContext, StopsAtError, AllModes
        <3>3. QED
            BY <1>2, <3>1, <3>2 DEF CombGoesOn, Learnt, StopsAtError
    <2>4. CASE CombAwaits
        <3>1. at \in Sources /\ ready[at]
            BY <1>1, <2>4, FutureAssumption
               DEF CombAwaits, Awaited, Mapped, Signaled, Sources, FutureTypeOK
        <3>2. QED
            BY <1>6, <2>1, <2>4, <3>1 DEF CombAwaits
    <2>5. QED
        BY <1>7, <2>1, <2>2, <2>3, <2>4 DEF CombStep, CombCanceled, CombDone
<1>8. CASE ~CombStep
    <2>1. ASSUME NEW g \in Gs, FulfillStep(g)
          PROVE  fpc[Comb] \in {"run", "wait"} /\ at' = at /\ errs' = errs
        BY <1>1, <2>1, Roles
           DEF FulfillStep, EnterOnce, SkipOnce, CloseReady, InvokeAll, Goto, FutureTypeOK
    <2>2. ASSUME NEW g \in Gs, NEW ok \in BOOLEAN, Finish(g, ok)
          PROVE  fpc[Comb] \in {"run", "wait"} /\ at' = at /\ errs' = errs
        BY <1>1, <2>2, Roles DEF Finish, Goto, FutureTypeOK
    <2>3. ASSUME NEW w \in Watchers, Watch(w)
          PROVE  fpc[Comb] \in {"run", "wait"} /\ at' = at /\ errs' = errs
        BY <2>3 DEF Watch, goVars
    <2>4. CASE CancelAwait \/ UNCHANGED futureVars
        BY <1>5, <2>4 DEF CancelAwait, futureVars, goVars
    <2>5. QED
        BY <1>5, <1>8, <2>1, <2>2, <2>3, <2>4 DEF FutureNext
<1>9. QED
    BY <1>7, <1>8

\* Whatever ends the goroutine of the derived future is a result it may have.
LEMMA EndsTruthfully ==
    ASSUME FInv, NEW r, CombEnds(r),
           \/ fcanceled /\ r = {Ctx} /\ WithContext /\ (StopsAtError \/ ~Mapped)
           \/ at \in Sources /\ at \in Failed /\ r = result[at] /\ StopsAtError /\ ~Awaited
           \/ Awaited /\ r = errs
           \/ Awaited /\ r = {Fn} /\ Mapped
    PROVE  Outcome(r)
<1>1. FutureTypeOK /\ Learnt /\ mode \in AllModes /\ fpc[Comb] \in {"run", "wait"}
    BY FutureAssumption DEF FInv, FutureTypeOK, CombEnds
<1>2. CASE fcanceled /\ r = {Ctx} /\ WithContext
    BY <1>1, <1>2 DEF Outcome, WithContext, Mapped, AllModes
<1>3. CASE at \in Sources /\ at \in Failed /\ r = result[at] /\ StopsAtError /\ ~Awaited
    <2>1. r = {at}
        BY <1>3, Ready DEF Failed
    <2>2. \A e \in 1..(at - 1) : ready[e] /\ result[e] = {}
        BY <1>1, <1>3 DEF Learnt
    <2>3. \A e \in 1..(at - 1) : ready[e] /\ e \notin Failed
        BY <2>2 DEF Failed
    <2>4. Mapped => at = 1
        BY <1>3 DEF Awaited, Sources
    <2>5. QED
        BY <1>1, <1>3, <2>1, <2>3, <2>4 DEF Outcome, StopsAtError, Mapped, AllModes
<1>4. CASE Awaited /\ (r = errs \/ (r = {Fn} /\ Mapped))
    <2>1. CASE Mapped
        <3>1. 1 \in 1..(at - 1) /\ StopsAtError /\ errs = {} /\ 1 \in Sources
            BY <1>1, <1>4, <2>1, FutureAssumption
               DEF Awaited, Mapped, StopsAtError, Learnt, FutureTypeOK, Sources
        <3>2. ready[1] /\ 1 \notin Failed
            BY <1>1, <3>1 DEF Learnt, Failed
        <3>3. QED
            BY <1>1, <1>4, <2>1, <3>1, <3>2 DEF Outcome, Mapped
    <2>2. CASE ~Mapped
        <3>1. 1..(at - 1) = Sources
            BY <1>1, <1>4, <2>2, FutureAssumption DEF Awaited, FutureTypeOK, Sources
        <3>2. CASE StopsAtError
            <4>1. r = {} /\ AllReady /\ Failed = {}
                BY <1>1, <1>4, <2>2, <3>1, <3>2 DEF Learnt, AllReady, Failed
            <4>2. QED
                BY <1>1, <2>2, <3>2, <4>1 DEF Outcome, Good, StopsAtError, Mapped, AllModes
        <3>3. CASE ~StopsAtError
            <4>1. Failed \cap 1..(at - 1) = Failed
                BY <3>1 DEF Failed
            <4>2. \/ mode = "allCtx" /\ fcanceled /\ Ctx \in r
                  \/ AllReady /\ r = Failed
                BY <1>1, <1>4, <2>2, <3>1, <3>3, <4>1 DEF Learnt, AllReady
            <4>3. QED
                BY <1>1, <2>2, <3>3, <4>2 DEF Outcome, StopsAtError, Mapped, AllModes
        <3>4. QED
            BY <3>2, <3>3
    <2>3. QED
        BY <2>1, <2>2
<1>5. QED
    BY <1>2, <1>3, <1>4

\* What is told of the derived future is what its goroutine ended with.
LEMMA DerivedStep == FInv /\ [FutureNext]_futureVars => Derived'
<1> SUFFICES ASSUME FInv, [FutureNext]_futureVars PROVE Derived'
    OBVIOUS
<1>1. FutureTypeOK /\ Derived /\ Settled /\ Locks /\ mode' = mode
    BY Stays DEF FInv, Settled
<1>2. ASSUME fpc'[Comb] = fpc[Comb], res'[Comb] = res[Comb], at' = at, once'[0] = once[0], result'[0] = result[0]
      PROVE  Derived'
    BY <1>1, <1>2, OutcomeStays DEF Derived, WithContext, Awaited, Mapped
<1>3. ASSUME UNCHANGED <<once, result>>, fpc[Comb] \in {"run", "wait"},
             \/ fpc'[Comb] = "once" /\ Outcome(res'[Comb])
             \/ fpc'[Comb] = "run"
             \/ fpc'[Comb] = "wait" /\ WithContext /\ ~Awaited /\ at' = at
      PROVE  Derived'
    <2>1. Outcome(res'[Comb]) => Outcome(res[Comb])'
        BY <1>1, OutcomeStays
    <2>2. QED
        BY <1>1, <1>3, <2>1 DEF Derived, WithContext, Awaited, Mapped
<1>4. CASE CombStep
    <2>1. ASSUME NEW r, CombEnds(r), Outcome(r) PROVE Derived'
        BY <1>1, <1>3, <2>1, Roles DEF CombEnds, FutureTypeOK, futVars
    <2>2. ASSUME NEW es, CombGoesOn(es) PROVE Derived'
        BY <1>1, <1>3, <2>2, Roles DEF CombGoesOn, FutureTypeOK, futVars
    <2>3. CASE CombWaits
        BY <1>1, <1>3, <2>3, Roles DEF CombWaits, Goto, FutureTypeOK, futVars
    <2>4. CASE CombCanceled
        BY <2>1, <2>4, EndsTruthfully DEF CombCanceled
    <2>5. CASE CombGivesUp
        <3>1. WithContext
            BY <1>1, <2>5 DEF CombGivesUp, Derived
        <3>2. QED
            BY <2>1, <2>2, <2>5, <3>1, EndsTruthfully DEF CombGivesUp
    <2>6. CASE CombAwaits
        <3>1. at \in Sources
            BY <1>1, <2>6, FutureAssumption DEF CombAwaits, Awaited, Mapped, Sources, FutureTypeOK
        <3>2. QED
            BY <2>1, <2>2, <2>6, <3>1, EndsTruthfully DEF CombAwaits, Signaled, Failed
    <2>7. CASE CombDone
        BY <2>1, <2>7, EndsTruthfully DEF CombDone
    <2>8. QED
        BY <1>4, <2>3, <2>4, <2>5, <2>6, <2>7 DEF CombStep
<1>5. ASSUME NEW g \in Gs, FulfillStep(g) PROVE Derived'
    <2>1. CASE g # Comb
        <3>1. Of(g) # 0
            BY <2>1, Roles
        <3>2. QED
            BY <1>1, <1>2, <1>5, <2>1, <3>1, Roles
               DEF FulfillStep, EnterOnce, SkipOnce, CloseReady, InvokeAll, Goto, FutureTypeOK, futVars
    <2>2. CASE g = Comb
        <3>1. fpc[Comb] \notin {"run", "wait"} /\ fpc'[Comb] \notin {"run", "wait"} /\ res' = res
            BY <1>1, <1>5, <2>2, Roles
               DEF FulfillStep, EnterOnce, SkipOnce, CloseReady, InvokeAll, Goto, FutureTypeOK
        <3>2. Outcome(res[Comb])'
            BY <1>1, <3>1, OutcomeStays DEF Derived
        <3>3. once'[0] # "free" =>
                 fpc'[Comb] \in {"close", "invoke", "over"} /\ result'[0] = res'[Comb]
            BY <1>1, <1>5, <2>2, Roles
               DEF FulfillStep, EnterOnce, SkipOnce, CloseReady, InvokeAll, Goto, FutureTypeOK, futVars,
                   Derived, Locks, Settling
        <3>4. QED
            BY <3>1, <3>2, <3>3 DEF Derived
    <2>3. QED
        BY <2>1, <2>2
<1>6. ASSUME NEW g \in Gs, NEW ok \in BOOLEAN, Finish(g, ok) PROVE Derived'
    BY <1>1, <1>2, <1>6, Roles DEF Finish, Goto, FutureTypeOK, futVars
<1>7. ASSUME NEW w \in Watchers, Watch(w) PROVE Derived'
    BY <1>2, <1>7 DEF Watch, goVars
<1>8. CASE CancelAwait \/ UNCHANGED futureVars
    BY <1>2, <1>8 DEF CancelAwait, futureVars, goVars, futVars
<1>9. QED
    BY <1>4, <1>5, <1>6, <1>7, <1>8 DEF FutureNext

-----------------------------------------------------------------------------
(* The theorems                                                            *)

\* The invariant that the other theorems rest on: the Once, the mutex and the
\* channel of a future agree, a callback is in one place, and the goroutine of a
\* derived future knows what the sources it has awaited have come to.
THEOREM FutureInvariant == FutureSpec => []FInv
<1>1. FInv /\ [FutureNext]_futureVars => FInv'
    BY TypedStep, LocksStep, ResultsStep, ListsStep, CallsStep, CausesStep, LearntStep,
       DerivedStep DEF FInv
<1>2. QED
    BY InitFInv, <1>1, PTL DEF FutureSpec

\* Whatever goroutines fulfill, register and cancel at the same time, a callback
\* is called at most once and for the result there is, and a derived future tells
\* what its sources have come to: FutureIsTrue holds of any number of them.
THEOREM FutureTruthful == FutureSpec => []FutureIsTrue
<1>1. FInv => FutureIsTrue
    BY Roles DEF FInv, FutureIsTrue, CombineIsTrue, Results, Derived
<1>2. QED
    BY <1>1, FutureInvariant, PTL

\* "later calls are ignored": the result that a future has when it is ready is
\* never replaced.
THEOREM ResultKept == FutureSpec => ResultIsFinal
<1>1. FInv /\ [FutureNext]_futureVars =>
         [\A f \in Futures : ready[f] => ready'[f] /\ result'[f] = result[f]]_futureVars
    BY Stays DEF Settled
<1>2. QED
    BY <1>1, FutureInvariant, PTL DEF FutureSpec, ResultIsFinal

=============================================================================
