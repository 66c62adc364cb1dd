------------------------- MODULE DistinctSequences -------------------------
(***************************************************************************)
(* Sequences without repetition: the lists in which a pool keeps what it   *)
(* lends (pool/pool.go, dns/tcp_connpool.go, dns/udp_connpool.go).         *)
(***************************************************************************)
EXTENDS Integers, Sequences, SequencesExt, SequenceTheorems, TLAPS

\* Taking the object at the head of a list without repetitions leaves a list
\* of exactly the others (handleGet, handleCloseIdle: (*objectPool)[1:]).
LEMMA TailOfDistinct ==
    ASSUME NEW S, NEW s \in Seq(S), s # <<>>, IsInjective(s)
    PROVE  /\ Tail(s) \in Seq(S) /\ Head(s) \in S /\ Head(s) \in Range(s)
           /\ IsInjective(Tail(s))
           /\ Range(Tail(s)) = Range(s) \ {Head(s)}
<1>1. /\ Len(s) \in Nat /\ Len(s) > 0 /\ DOMAIN s = 1..Len(s)
      /\ Head(s) = s[1] /\ \A i \in 1..Len(s) : s[i] \in S
    BY HeadTailProperties, LenProperties, EmptySeq, ElementOfSeq
<1>2. /\ Tail(s) \in Seq(S) /\ DOMAIN Tail(s) = 1..(Len(s) - 1)
      /\ \A i \in 1..(Len(s) - 1) : Tail(s)[i] = s[i + 1]
    BY <1>1, HeadTailProperties, LenProperties
<1>3. \A i, j \in 1..Len(s) : s[i] = s[j] => i = j
    BY <1>1 DEF IsInjective
<1>4. IsInjective(Tail(s))
    BY <1>1, <1>2, <1>3 DEF IsInjective
<1>5. Range(Tail(s)) \subseteq Range(s) \ {Head(s)}
    BY <1>1, <1>2, <1>3 DEF Range
<1>6. ASSUME NEW x \in Range(s) \ {Head(s)} PROVE x \in Range(Tail(s))
  <2>1. PICK i \in 1..Len(s) : s[i] = x
      BY <1>1, <1>6 DEF Range
  <2>2. i - 1 \in 1..(Len(s) - 1) /\ (i - 1) + 1 = i
      BY <2>1, <1>1, <1>6
  <2>3. Tail(s)[i - 1] = x
      BY <2>1, <2>2, <1>2
  <2>4. QED
      BY <2>2, <2>3, <1>2 DEF Range
<1>7. Head(s) \in Range(s)
    BY <1>1 DEF Range
<1>8. QED
    BY <1>1, <1>2, <1>4, <1>5, <1>6, <1>7

\* Appending a new object keeps a list without repetitions one (handlePut).
LEMMA AppendDistinct ==
    ASSUME NEW S, NEW s \in Seq(S), NEW x \in S, x \notin Range(s), IsInjective(s)
    PROVE  /\ Append(s, x) \in Seq(S)
           /\ IsInjective(Append(s, x))
           /\ Range(Append(s, x)) = Range(s) \cup {x}
<1>1. /\ Len(s) \in Nat /\ DOMAIN s = 1..Len(s)
      /\ Append(s, x) \in Seq(S) /\ DOMAIN Append(s, x) = 1..(Len(s) + 1)
      /\ \A i \in 1..Len(s) : Append(s, x)[i] = s[i]
      /\ Append(s, x)[Len(s) + 1] = x
    BY AppendProperties, LenProperties
<1>2. \A i \in 1..Len(s) : s[i] # x
    BY <1>1 DEF Range
<1>3. \A i, j \in 1..Len(s) : s[i] = s[j] => i = j
    BY <1>1 DEF IsInjective
<1>4. IsInjective(Append(s, x))
    BY <1>1, <1>2, <1>3 DEF IsInjective
<1>5. Range(Append(s, x)) = Range(s) \cup {x}
  <2>1. 1..(Len(s) + 1) = 1..Len(s) \cup {Len(s) + 1}
      BY <1>1
  <2>2. QED
      BY <1>1, <2>1 DEF Range
<1>6. QED
    BY <1>1, <1>4, <1>5

\* A shuffled list has the same objects (rand.Shuffle in loop()).
LEMMA ShuffleDistinct ==
    ASSUME NEW S, NEW s \in Seq(S), IsInjective(s),
           NEW p \in Bijection(DOMAIN s, DOMAIN s),
           NEW t, t = [i \in DOMAIN s |-> s[p[i]]]
    PROVE  t \in Seq(S) /\ IsInjective(t) /\ Range(t) = Range(s)
<1>1. /\ Len(s) \in Nat /\ DOMAIN s = 1..Len(s)
      /\ \A i \in 1..Len(s) : s[i] \in S
    BY LenProperties, ElementOfSeq
<1>2. /\ p \in [DOMAIN s -> DOMAIN s]
      /\ \A i, j \in DOMAIN s : p[i] = p[j] => i = j
      /\ \A j \in DOMAIN s : \E i \in DOMAIN s : p[i] = j
    BY DEF Bijection, Injection, Surjection, IsInjective
<1>3. t \in Seq(S)
    BY <1>1, <1>2, IsASeq
<1>4. IsInjective(t)
    BY <1>2 DEF IsInjective
<1>5. Range(t) = Range(s)
    BY <1>2 DEF Range
<1>6. QED
    BY <1>3, <1>4, <1>5

-----------------------------------------------------------------------------
(* What was done of a list, in its order (the hooks of shutdown/shutdown.go) *)

\* A prefix is shorter and has the same elements.
LEMMA PrefixElements ==
    ASSUME NEW S, NEW s \in Seq(S), NEW t \in Seq(S)
    PROVE  IsPrefix(s, t) <=> Len(s) <= Len(t) /\ \A i \in 1..Len(s) : s[i] = t[i]
<1> DEFINE n == Len(s)
           m == Len(t)
           u == SubSeq(t, 1, n)
<1>1. n \in Nat /\ m \in Nat /\ SubSeq(s, 1, n) = s
    BY LenProperties, SubSeqFull
<1>2. SUFFICES ASSUME n <= m PROVE s = u <=> \A i \in 1..n : s[i] = t[i]
    BY <1>1 DEF IsPrefix
<1>3. \A i \in 1..n : t[i] \in S
    BY <1>1, <1>2, ElementOfSeq
<1>4. u \in Seq(S)
    BY <1>1, <1>3, SubSeqProperties
<1>5. Len(u) = n /\ \A i \in 1..n : u[i] = t[i]
  <2>1. Len(u) = IF 1 <= n THEN n - 1 + 1 ELSE 0
      BY <1>1, <1>3, SubSeqProperties
  <2>2. \A i \in 1..(n - 1 + 1) : u[i] = t[1 + i - 1]
      BY <1>1, <1>3, SubSeqProperties
  <2>3. ASSUME NEW i \in 1..n PROVE u[i] = t[i]
    <3>1. i \in 1..(n - 1 + 1) /\ 1 + i - 1 = i
      <4> HIDE DEF n
      <4>1. QED
          BY <1>1
    <3>2. u[i] = t[1 + i - 1]
        BY <2>2, <3>1
    <3>3. QED
        BY <3>1, <3>2
  <2>4. Len(u) = n
    <3> HIDE DEF n, u
    <3>1. QED
        BY <1>1, <2>1
  <2>5. QED
      BY <2>3, <2>4
<1>6. ASSUME \A i \in 1..n : s[i] = t[i] PROVE s = u
    BY <1>4, <1>5, <1>6, SeqEqual
<1>7. QED
    BY <1>5, <1>6

\* A list that has a prefix of the same length is that prefix (cleanup has run
\* the hooks it took).
LEMMA PrefixIsWhole ==
    ASSUME NEW S, NEW s \in Seq(S), NEW t \in Seq(S), IsPrefix(s, t), ~(Len(s) < Len(t))
    PROVE  s = t
<1>1. Len(s) <= Len(t) /\ \A i \in 1..Len(s) : s[i] = t[i]
    BY PrefixElements
<1>2. Len(s) \in Nat /\ Len(t) \in Nat
    BY LenProperties
<1>3. Len(s) = Len(t)
    BY <1>1, <1>2
<1>4. QED
    BY <1>1, <1>3, SeqEqual

\* The next element of the list makes a longer prefix (cleanup runs a hook).
LEMMA PrefixGrows ==
    ASSUME NEW S, NEW s \in Seq(S), NEW t \in Seq(S), IsPrefix(s, t), Len(s) < Len(t)
    PROVE  LET x == t[Len(s) + 1]
           IN  /\ x \in S /\ x \in Range(t) /\ Append(s, x) \in Seq(S)
               /\ IsPrefix(Append(s, x), t) /\ Range(Append(s, x)) = Range(s) \cup {x}
<1> DEFINE n == Len(s)
           m == Len(t)
           x == t[n + 1]
           u == Append(s, x)
<1>1. n \in Nat /\ m \in Nat /\ DOMAIN s = 1..n /\ DOMAIN t = 1..m
    BY LenProperties
<1>2. \A i \in 1..n : s[i] = t[i]
    BY PrefixElements
<1>3. n + 1 \in 1..m
    BY <1>1
<1>4. x \in S /\ x \in Range(t)
    BY <1>1, <1>3, ElementOfSeq DEF Range
<1>5. u \in Seq(S) /\ Len(u) = n + 1 /\ DOMAIN u = 1..Len(u)
      /\ u[n + 1] = x /\ \A i \in 1..n : u[i] = s[i]
    BY <1>4, AppendProperties, LenProperties
<1>6. \A i \in 1..(n + 1) : u[i] = t[i]
  <2> HIDE DEF n, m, u
  <2>1. \A i \in 1..(n + 1) : i \in 1..n \/ i = n + 1
      BY <1>1
  <2>2. QED
      BY <2>1, <1>2, <1>5
<1>7. IsPrefix(u, t)
  <2>1. Len(u) <= m /\ \A i \in 1..Len(u) : u[i] = t[i]
    <3> HIDE DEF n, m, u
    <3>1. QED
        BY <1>1, <1>3, <1>5, <1>6
  <2>2. QED
      BY <2>1, <1>5, PrefixElements
<1>8. Range(u) = Range(s) \cup {x}
  <2>1. 1..(n + 1) = 1..n \cup {n + 1}
    <3> HIDE DEF n
    <3>1. QED
        BY <1>1
  <2>2. QED
    <3> HIDE DEF n, x, u
    <3>1. QED
        BY <1>1, <1>5, <2>1 DEF Range
<1>9. QED
    BY <1>4, <1>5, <1>7, <1>8

\* A prefix of a list without repetitions has none.
LEMMA PrefixDistinct ==
    ASSUME NEW S, NEW s \in Seq(S), NEW t \in Seq(S), IsPrefix(s, t), IsInjective(t)
    PROVE  IsInjective(s)
<1>1. Len(s) <= Len(t) /\ \A i \in 1..Len(s) : s[i] = t[i]
    BY PrefixElements
<1>2. DOMAIN s = 1..Len(s) /\ DOMAIN t = 1..Len(t) /\ Len(s) \in Nat /\ Len(t) \in Nat
    BY LenProperties
<1>3. 1..Len(s) \subseteq 1..Len(t)
    BY <1>1, <1>2
<1>4. QED
    BY <1>1, <1>2, <1>3 DEF IsInjective

============================================================================
