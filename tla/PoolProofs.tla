----------------------------- MODULE PoolProofs -----------------------------
(***************************************************************************)
(* What holds of Pool for any number of users, closers and objects, with   *)
(* timers that may or may not fire.                                        *)
(***************************************************************************)
EXTENDS Pool, DistinctSequences, SequenceTheorems, FiniteSetTheorems, TLAPS

-----------------------------------------------------------------------------
(* The inductive invariant                                                 *)

places == <<idle, kept, arg, reply, held, made, dead>>

\* What IInv says of the places of the objects.
Placed == Known /\ Exclusive /\ NeverLendClosed

LEMMA Unmoved ==
    ASSUME Placed, UNCHANGED places
    PROVE  Placed'
BY DEF Placed, places, Known, Exclusive, NeverLendClosed, Owned, Stock

LEMMA InitIInv == Init => IInv
<1> SUFFICES ASSUME Init PROVE IInv
    OBVIOUS
<1> USE PoolAssumption
<1>1. idle = <<>> /\ kept = <<>> /\ Range(idle) = {} /\ Range(kept) = {}
      /\ IsInjective(idle) /\ IsInjective(kept)
    BY DEF Init, Range, IsInjective
<1>2. \A u \in Users : Owned(u) = {}
    BY DEF Init, Owned
<1>3. TypeOK
  <2>1. idle \in Seq(Objects) /\ kept \in Seq(Objects)
      BY EmptySeq DEF Init
  <2>2. gauge \in [total : Int, inUse : Int, idle : Int]
      BY DEF Init
  <2>3. /\ ticker \in BOOLEAN /\ drainOnce \in BOOLEAN
        /\ closeCh \in BOOLEAN /\ running \in BOOLEAN /\ late \in BOOLEAN
      BY DEF Init
  <2>4. faults \in 0..MaxFaults /\ done \in 0..3 /\ drain \in Int /\ outstanding \in Int
      BY DEF Init
  <2>5. /\ arg \in [Users -> Objects \cup {None}]
        /\ reply \in [Users -> Objects \cup {None, Failure}]
        /\ held \in [Users -> SUBSET Objects]
      BY DEF Init
  <2>6. QED
      BY <2>1, <2>2, <2>3, <2>4, <2>5 DEF Init, TypeOK
<1>4. Control
    BY DEF Init, Control
<1>5. Known /\ Exclusive /\ NeverLendClosed
    BY <1>1, <1>2 DEF Init, Known, Exclusive, NeverLendClosed, Stock
<1>6. QED
    BY <1>3, <1>4, <1>5 DEF IInv

\* The steps of Get, Put and CloseIdle that move no object, and those of
\* loop() and of Close.
Quiet ==
    \/ \E u \in Users : \/ GetStart(u) \/ GetPanic(u) \/ GetMakeFails(u)
                        \/ CIStart(u) \/ CITimeout(u) \/ CIPanic(u)
                        \/ RecvGet(u) \/ RecvCI(u)
    \/ \E ch \in Channels : RecvClosed(ch)
    \/ Check \/ FinalResult \/ DeferDrain \/ DeferRunning
    \/ \E c \in Closers : CloserStep(c)

LEMMA QuietTyped == ASSUME TypeOK, Control, Quiet PROVE TypeOK' /\ Control'
<1> USE PoolAssumption
<1>1. ASSUME NEW u \in Users,
             GetStart(u) \/ GetPanic(u) \/ GetMakeFails(u) \/ CIStart(u) \/ CITimeout(u) \/ CIPanic(u)
      PROVE  TypeOK' /\ Control'
  <2>1. PICK x, y : Goto(u, x, y) /\ x \notin {"getCount", "putSend", "getWait"}
                    /\ y \in {"getSend", "ciSend", "out"}
    BY <1>1 DEF GetStart, GetPanic, GetMakeFails, CIStart, CITimeout, CIPanic, Goto
  <2>2. /\ UNCHANGED <<loopVars, sharedVars, gauge, arg, reply, held, cpc, made, tried, dead, faults>>
        /\ late' \in {late, TRUE}
    BY <1>1 DEF GetStart, GetPanic, GetMakeFails, CIStart, CITimeout, CIPanic, objectVars
  <2>3. TypeOK'
    <3>1. pc' \in [Users -> {"out", "getSend", "getWait", "getMake", "getCount",
                             "putSend", "ciSend", "ciWait"}]
      BY <2>1 DEF TypeOK, Goto
    <3>2. late' \in BOOLEAN
      BY <2>2 DEF TypeOK
    <3>3. UNCHANGED <<lpc, cur, idle, kept, done, ticker, drainOnce, closed, drain, closeCh,
                      outstanding, running, gauge, arg, reply, held, cpc, made, tried, dead,
                      faults>>
      BY <2>2 DEF loopVars, sharedVars
    <3>4. QED
      BY <3>1, <3>2, <3>3 DEF TypeOK
  <2>4. Control'
    BY <2>1, <2>2 DEF TypeOK, Control, Goto, loopVars
  <2>5. QED
    BY <2>3, <2>4
<1>2. ASSUME NEW u \in Users, RecvGet(u) \/ RecvCI(u) PROVE TypeOK' /\ Control'
  BY <1>2 DEF TypeOK, Control, RecvGet, RecvCI, Accepts, Goto, sharedVars, objectVars
<1>3. ASSUME NEW ch \in Channels, RecvClosed(ch) PROVE TypeOK' /\ Control'
  BY <1>3 DEF TypeOK, Control, RecvClosed, sharedVars, userVars, objectVars
<1>4. ASSUME Check \/ FinalResult \/ DeferDrain \/ DeferRunning PROVE TypeOK' /\ Control'
  <2>1. UNCHANGED <<closed, done, ticker, userVars, cpc, objectVars, cur, idle, kept,
                    outstanding>>
    BY <1>4 DEF Check, FinalResult, DeferDrain, DeferRunning
  <2>2. lpc' \in {"final", "select", "defer", "exit", "gone"} /\ lpc # "ci"
    BY <1>4 DEF Check, FinalResult, DeferDrain, DeferRunning
  <2>3. closeCh' \in BOOLEAN /\ running' \in BOOLEAN
        /\ gauge' \in [total : Int, inUse : Int, idle : Int]
    <3>1. closeCh' \in {closeCh, TRUE} /\ running' \in {running, FALSE}
      BY <1>4 DEF Check, FinalResult, DeferDrain, DeferRunning
    <3>2. gauge' \in [total : Int, inUse : Int, idle : Int]
      BY <1>4 DEF TypeOK, Check, FinalResult, DeferDrain, DeferRunning
    <3>3. QED
      BY <3>1, <3>2 DEF TypeOK
  <2>4. drain' \in Int /\ drainOnce' \in BOOLEAN
    <3>1. StopDrain => drain' \in Int /\ drainOnce' \in BOOLEAN
      BY DEF StopDrain, TypeOK
    <3>2. StopDrain \/ UNCHANGED <<drainOnce, drain>>
      BY <1>4 DEF Check, FinalResult, DeferDrain, DeferRunning
    <3>3. QED
      BY <3>1, <3>2 DEF TypeOK
  <2>5. QED
    BY <2>1, <2>2, <2>3, <2>4 DEF TypeOK, Control, userVars, objectVars
<1>5. ASSUME NEW c \in Closers, CloserStep(c) PROVE TypeOK' /\ Control'
  <2>1. UNCHANGED <<loopVars, closeCh, outstanding, running, gauge, userVars, objectVars>>
    BY <1>5 DEF CloserStep, CloseStart, CloseAdd, CloseChannel, CloseWait, CloseReturn,
       sharedVars
  <2>2. (drain' = drain \/ drain' = drain + 1) /\ closed' \subseteq closed \cup Channels
    BY <1>5 DEF CloserStep, CloseStart, CloseAdd, CloseChannel, CloseWait, CloseReturn,
       sharedVars, Channels
  <2>3. PICK y \in {"refused", "add", "get", "wait", "put", "ci", "recv", "returned",
                    "crashed"} : cpc' = [cpc EXCEPT ![c] = y]
    BY <1>5 DEF CloserStep, CloseStart, CloseAdd, CloseChannel, CloseWait, CloseReturn,
       GotoC
  <2>4. QED
    BY <2>1, <2>2, <2>3 DEF TypeOK, Control, loopVars, userVars, objectVars
<1>6. QED
  BY <1>1, <1>2, <1>3, <1>4, <1>5 DEF Quiet

LEMMA QuietUnmoved == ASSUME Quiet PROVE UNCHANGED places
BY DEF Quiet, places, GetStart, GetPanic, GetMakeFails, CIStart, CITimeout, CIPanic,
   RecvGet, RecvCI, RecvClosed, Check, FinalResult, DeferDrain, DeferRunning, CloserStep,
   CloseStart, CloseAdd, CloseChannel, CloseWait, CloseReturn,
   loopVars, sharedVars, userVars, objectVars

-----------------------------------------------------------------------------
(* The steps that move an object.  Each moves one object o at most: nobody  *)
(* gains another, and o is afterwards in one place, made and not closed.    *)

LEMMA OneMoved ==
    ASSUME Placed, NEW o,
           IsInjective(idle'), IsInjective(kept'), Range(idle') \cap Range(kept') = {},
           \A u \in Users : {arg'[u], reply'[u]} \cap held'[u] = {},
           Stock' \subseteq Stock \cup {o},
           \A u \in Users : Owned(u)' \subseteq Owned(u) \cup {o},
           \A u \in Users : o \in Owned(u)' => /\ o \notin Stock'
                                               /\ \A v \in Users \ {u} : o \notin Owned(v)',
           o \in Stock' => o \in made' \ dead',
           \A u \in Users : o \in Owned(u)' => o \in made' \ dead',
           dead' \subseteq dead \cup {o}, made \subseteq made'
    PROVE  Placed'
<1>1. Known'
  BY DEF Placed, Known
<1>2. \A u \in Users : (Owned(u) \cap Stock = {})'
  BY DEF Placed, Exclusive
<1>3. \A u \in Users : \A v \in Users \ {u} : (Owned(u) \cap Owned(v) = {})'
  BY DEF Placed, Exclusive
<1>4. Exclusive'
  BY <1>2, <1>3 DEF Exclusive
<1>5. NeverLendClosed'
  BY DEF Placed, NeverLendClosed
<1>6. QED
  BY <1>1, <1>4, <1>5 DEF Placed

\* What the calls of user u alone do to the objects.
LEMMA UserMoves ==
    ASSUME Placed, NEW u \in Users, UNCHANGED <<idle, kept>>,
           \A v \in Users \ {u} :
              arg'[v] = arg[v] /\ reply'[v] = reply[v] /\ held'[v] = held[v],
           {arg'[u], reply'[u]} \cap held'[u] = {},
           NEW o, Owned(u)' \subseteq Owned(u) \cup {o},
           o \notin Stock, \A v \in Users \ {u} : o \notin Owned(v),
           o \in Owned(u)' => o \in made' \ dead',
           dead' \subseteq dead \cup {o}, made \subseteq made'
    PROVE  Placed'
<1>1. Stock' = Stock /\ IsInjective(idle') /\ IsInjective(kept')
      /\ Range(idle') \cap Range(kept') = {}
  BY DEF Stock, Placed, Exclusive
<1>2. \A v \in Users \ {u} : Owned(v)' = Owned(v)
  BY DEF Owned
<1>3. \A v \in Users : {arg'[v], reply'[v]} \cap held'[v] = {}
  BY DEF Placed, Exclusive
<1>4. \A v \in Users : Owned(v)' \subseteq Owned(v) \cup {o}
  BY <1>2
<1>5. \A v \in Users : o \in Owned(v)' => v = u
  BY <1>2
<1>6. QED
  BY <1>1, <1>3, <1>4, <1>5, OneMoved

\* What loop() alone does to the lists of objects.
LEMMA StockMoves ==
    ASSUME Placed, UNCHANGED <<arg, reply, held>>, made' = made,
           IsInjective(idle'), IsInjective(kept'), Range(idle') \cap Range(kept') = {},
           Stock' \subseteq Stock, NEW o, o \in Stock, 
           dead' = dead \/ (dead' = dead \cup {o} /\ o \notin Stock')
    PROVE  Placed'
<1>1. \A u \in Users : Owned(u)' = Owned(u) /\ o \notin Owned(u)
  BY DEF Owned, Placed, Exclusive
<1>2. \A u \in Users : {arg'[u], reply'[u]} \cap held'[u] = {}
  BY DEF Placed, Exclusive
<1>3. o \in Stock' => o \in made' \ dead'
  BY DEF Placed, Known, NeverLendClosed
<1>4. QED
  BY <1>1, <1>2, <1>3, OneMoved

-----------------------------------------------------------------------------
(* The steps of the users that move an object                              *)

LEMMA UserStepsTyped ==
    ASSUME TypeOK, Control, Known, NEW u \in Users,
           \/ GetReturn(u) \/ GetTimeout(u) \/ GetCount(u) \/ PutPanic(u)
           \/ \E o \in Objects : GetMake(u, o) \/ PutStart(u, o) \/ PutRefused(u, o)
           \/ \E ok \in BOOLEAN : PutTimeout(u, ok)
    PROVE  TypeOK' /\ Control'
<1> USE PoolAssumption
<1>1. CASE GetReturn(u)
  BY <1>1 DEF TypeOK, Control, GetReturn, Received, Goto, loopVars, sharedVars, objectVars
<1>2. CASE GetTimeout(u)
  BY <1>2 DEF TypeOK, Control, GetTimeout, Goto, loopVars, sharedVars, objectVars
<1>3. CASE GetCount(u)
  BY <1>3 DEF TypeOK, Control, GetCount, Borrowed, Goto, loopVars, objectVars
<1>4. CASE PutPanic(u)
  BY <1>4 DEF TypeOK, Control, PutPanic, Goto, loopVars, sharedVars, objectVars
<1>5. ASSUME NEW o \in Objects, GetMake(u, o) PROVE TypeOK' /\ Control'
  BY <1>5 DEF TypeOK, Control, GetMake, Make, Gauge, Goto, loopVars, sharedVars
<1>6. ASSUME NEW o \in Objects, PutStart(u, o) PROVE TypeOK' /\ Control'
  BY <1>6 DEF TypeOK, Control, PutStart, Goto, loopVars, sharedVars, objectVars
<1>7. ASSUME NEW o \in Objects, PutRefused(u, o) PROVE TypeOK' /\ Control'
  BY <1>7 DEF TypeOK, Control, PutRefused, loopVars, sharedVars, objectVars
<1>8. ASSUME NEW ok \in BOOLEAN, PutTimeout(u, ok) PROVE TypeOK' /\ Control'
  <2>1. arg[u] \in made
    BY <1>8 DEF Control, PutTimeout, Goto, Known, Owned
  <2>2. tried' \subseteq made' /\ dead' \subseteq tried'
    BY <1>8, <2>1 DEF TypeOK, PutTimeout, CallClose
  <2>3. QED
    BY <1>8, <2>2 DEF TypeOK, Control, PutTimeout, Goto, loopVars, sharedVars
<1>9. QED
  BY <1>1, <1>2, <1>3, <1>4, <1>5, <1>6, <1>7, <1>8

LEMMA UserStepsPlaced ==
    ASSUME TypeOK, Control, Placed, NEW u \in Users,
           \/ GetReturn(u) \/ GetTimeout(u) \/ GetCount(u) \/ PutPanic(u)
           \/ \E o \in Objects : GetMake(u, o) \/ PutStart(u, o) \/ PutRefused(u, o)
           \/ \E ok \in BOOLEAN : PutTimeout(u, ok)
    PROVE  Placed'
<1> USE PoolAssumption
<1>1. \A o \in Owned(u) : /\ o \notin Stock /\ o \in made \ dead
                          /\ \A v \in Users \ {u} : o \notin Owned(v)
  BY DEF Placed, Known, Exclusive, NeverLendClosed
<1>2. /\ arg[u] \in Objects \cup {None} /\ reply[u] \in Objects \cup {None, Failure}
      /\ arg[u] = None \/ reply[u] = None
      /\ {arg[u], reply[u]} \cap held[u] = {} /\ held[u] \subseteq Objects
  BY DEF TypeOK, Control, Placed, Exclusive
<1>3. /\ Owned(u) = held[u] \cup ({arg[u], reply[u]} \cap Objects)
      /\ None \notin Stock /\ \A v \in Users \ {u} : None \notin Owned(v)
  <2>1. Stock \subseteq made /\ \A v \in Users : Owned(v) \subseteq made
    BY DEF Placed, Known
  <2>2. QED
    BY <2>1 DEF TypeOK, Owned
\* Steps by which u gains no object.
<1>4. ASSUME UNCHANGED <<idle, kept, made, dead>>,
             \A v \in Users \ {u} :
                arg'[v] = arg[v] /\ reply'[v] = reply[v] /\ held'[v] = held[v],
             {arg'[u], reply'[u]} \cap held'[u] = {},
             Owned(u)' \subseteq Owned(u)
      PROVE  Placed'
  <2>1. None \notin Owned(u)
    BY <1>2, <1>3, PoolAssumption
  <2>2. QED
    BY <1>3, <1>4, <2>1, UserMoves
<1>5. CASE GetReturn(u)
  <2>1. /\ UNCHANGED <<idle, kept, made, dead, arg>> /\ arg[u] = None
        /\ reply' = [reply EXCEPT ![u] = None]
        /\ held' = [held EXCEPT ![u] = held[u] \cup Received(u)]
    BY <1>2, <1>5 DEF GetReturn, loopVars, objectVars
  <2>2. /\ arg'[u] = None /\ reply'[u] = None /\ held'[u] = held[u] \cup Received(u)
        /\ \A v \in Users \ {u} :
              arg'[v] = arg[v] /\ reply'[v] = reply[v] /\ held'[v] = held[v]
    BY <2>1 DEF TypeOK
  <2>3. Owned(u)' \subseteq Owned(u) /\ None \notin held'[u]
    BY <2>2, <1>2, <1>3 DEF Owned, Received
  <2>4. QED
    BY <2>1, <2>2, <2>3, <1>4
<1>6. CASE GetTimeout(u)
  <2>1. /\ UNCHANGED <<idle, kept, made, dead, arg, held>>
        /\ reply' = [reply EXCEPT ![u] = None]
    BY <1>6 DEF GetTimeout, loopVars, objectVars
  <2>2. /\ arg'[u] = arg[u] /\ reply'[u] = None /\ held'[u] = held[u]
        /\ \A v \in Users \ {u} :
              arg'[v] = arg[v] /\ reply'[v] = reply[v] /\ held'[v] = held[v]
    BY <2>1 DEF TypeOK
  <2>3. Owned(u)' \subseteq Owned(u) /\ {arg[u], None} \cap held[u] = {}
    BY <2>2, <1>2, <1>3 DEF Owned
  <2>4. QED
    BY <2>1, <2>2, <2>3, <1>4
<1>7. CASE GetCount(u)
  <2>1. /\ UNCHANGED <<idle, kept, made, dead, reply>> /\ arg[u] \in Objects
        /\ reply[u] = None /\ arg' = [arg EXCEPT ![u] = None]
        /\ held' = [held EXCEPT ![u] = held[u] \cup {arg[u]}]
    BY <1>2, <1>7 DEF GetCount, Goto, Control, loopVars, objectVars
  <2>2. /\ arg'[u] = None /\ reply'[u] = None /\ held'[u] = held[u] \cup {arg[u]}
        /\ \A v \in Users \ {u} :
              arg'[v] = arg[v] /\ reply'[v] = reply[v] /\ held'[v] = held[v]
    BY <2>1 DEF TypeOK
  <2>3. Owned(u)' \subseteq Owned(u) /\ None \notin held'[u]
    BY <2>1, <2>2, <1>2, <1>3 DEF Owned
  <2>4. QED
    BY <2>1, <2>2, <2>3, <1>4
<1>8. CASE PutPanic(u)
  <2>1. /\ UNCHANGED <<idle, kept, made, dead, reply, held>>
        /\ arg' = [arg EXCEPT ![u] = None]
    BY <1>8 DEF PutPanic, loopVars, objectVars
  <2>2. /\ arg'[u] = None /\ reply'[u] = reply[u] /\ held'[u] = held[u]
        /\ \A v \in Users \ {u} :
              arg'[v] = arg[v] /\ reply'[v] = reply[v] /\ held'[v] = held[v]
    BY <2>1 DEF TypeOK
  <2>3. Owned(u)' \subseteq Owned(u) /\ {None, reply[u]} \cap held[u] = {}
    BY <2>2, <1>2, <1>3 DEF Owned
  <2>4. QED
    BY <2>1, <2>2, <2>3, <1>4
<1>9. ASSUME NEW o \in Objects, GetMake(u, o) PROVE Placed'
  <2>1. /\ o \in made' \ dead' /\ o \notin Stock /\ dead' = dead /\ made \subseteq made'
        /\ \A v \in Users : o \notin Owned(v)
    BY <1>9 DEF GetMake, Make, TypeOK, Placed, Known
  <2>2. UNCHANGED <<idle, kept, reply, held>> /\ arg' = [arg EXCEPT ![u] = o]
    BY <1>9 DEF GetMake, loopVars
  <2>3. /\ arg'[u] = o /\ reply'[u] = reply[u] /\ held'[u] = held[u]
        /\ \A v \in Users \ {u} :
              arg'[v] = arg[v] /\ reply'[v] = reply[v] /\ held'[v] = held[v]
    BY <2>2 DEF TypeOK
  <2>4. Owned(u)' \subseteq Owned(u) \cup {o} /\ {o, reply[u]} \cap held[u] = {}
    BY <2>1, <2>3, <1>2, <1>3 DEF Owned
  <2>5. QED
    BY <2>1, <2>2, <2>3, <2>4, UserMoves
<1>10. ASSUME NEW o \in Objects, PutStart(u, o) PROVE Placed'
  <2>1. /\ UNCHANGED <<idle, kept, made, dead, reply>> /\ arg' = [arg EXCEPT ![u] = o]
        /\ held' = [held EXCEPT ![u] = held[u] \ {o}] /\ o \in held[u]
    BY <1>10 DEF PutStart, loopVars, objectVars
  <2>2. /\ arg'[u] = o /\ reply'[u] = reply[u] /\ held'[u] = held[u] \ {o}
        /\ \A v \in Users \ {u} :
              arg'[v] = arg[v] /\ reply'[v] = reply[v] /\ held'[v] = held[v]
    BY <2>1 DEF TypeOK
  <2>3. Owned(u)' \subseteq Owned(u) /\ {o, reply[u]} \cap (held[u] \ {o}) = {}
    BY <2>1, <2>2, <1>2, <1>3 DEF Owned
  <2>4. QED
    BY <2>1, <2>2, <2>3, <1>4
<1>11. ASSUME NEW o \in Objects, PutRefused(u, o) PROVE Placed'
  <2>1. /\ UNCHANGED <<idle, kept, made, dead, reply, arg>>
        /\ held' = [held EXCEPT ![u] = held[u] \ {o}]
    BY <1>11 DEF PutRefused, loopVars, objectVars
  <2>2. /\ arg'[u] = arg[u] /\ reply'[u] = reply[u] /\ held'[u] = held[u] \ {o}
        /\ \A v \in Users \ {u} :
              arg'[v] = arg[v] /\ reply'[v] = reply[v] /\ held'[v] = held[v]
    BY <2>1 DEF TypeOK
  <2>3. Owned(u)' \subseteq Owned(u) /\ {arg[u], reply[u]} \cap (held[u] \ {o}) = {}
    BY <2>2, <1>2, <1>3 DEF Owned
  <2>4. QED
    BY <2>1, <2>2, <2>3, <1>4
<1>12. ASSUME NEW ok \in BOOLEAN, PutTimeout(u, ok) PROVE Placed'
  <2>1. /\ arg[u] \in Objects /\ arg[u] \in Owned(u) /\ arg[u] \notin held[u]
        /\ reply[u] = None
    BY <1>2, <1>3, <1>12 DEF PutTimeout, Goto, Control
  <2>2. /\ UNCHANGED <<idle, kept, made, reply, held>> /\ arg' = [arg EXCEPT ![u] = None]
        /\ dead' \subseteq dead \cup {arg[u]}
    BY <1>12 DEF PutTimeout, CallClose, loopVars
  <2>3. /\ arg'[u] = None /\ reply'[u] = None /\ held'[u] = held[u]
        /\ \A v \in Users \ {u} :
              arg'[v] = arg[v] /\ reply'[v] = reply[v] /\ held'[v] = held[v]
    BY <2>1, <2>2 DEF TypeOK
  <2>4. Owned(u)' \subseteq Owned(u) \ {arg[u]} /\ {None, None} \cap held[u] = {}
    BY <2>1, <2>3, <1>2, <1>3 DEF Owned
  <2>5. QED
    BY <2>1, <2>2, <2>3, <2>4, <1>1, UserMoves
<1>13. QED
  BY <1>5, <1>6, <1>7, <1>8, <1>9, <1>10, <1>11, <1>12

-----------------------------------------------------------------------------
(* The steps of loop() that move an object                                 *)

\* The list of idle objects loses its head.
Pop == idle # <<>> /\ idle' = Rest

LEMMA PopFacts ==
    ASSUME TypeOK, Exclusive, Pop
    PROVE  /\ idle' \in Seq(Objects) /\ IsInjective(idle')
           /\ Head(idle) \in Objects /\ Head(idle) \in Range(idle)
           /\ Range(idle') = Range(idle) \ {Head(idle)}
<1>1. idle \in Seq(Objects) /\ IsInjective(idle)
  BY DEF TypeOK, Exclusive
<1>2. QED
  BY <1>1, TailOfDistinct DEF Pop, Rest

\* The list of objects to keep gains the head of the idle ones.
LEMMA KeepFacts ==
    ASSUME TypeOK, Exclusive, Pop, kept' = Remainder(Head(idle))
    PROVE  /\ kept' \in Seq(Objects) /\ IsInjective(kept')
           /\ Range(kept') = Range(kept) \cup {Head(idle)}
<1>1. /\ kept \in Seq(Objects) /\ IsInjective(kept)
      /\ Head(idle) \in Objects /\ Head(idle) \notin Range(kept)
  BY PopFacts DEF TypeOK, Exclusive
<1>2. QED
  BY <1>1, AppendDistinct DEF Remainder

LEMMA ShuffleFacts ==
    ASSUME TypeOK, Exclusive, Shuffle
    PROVE  idle' \in Seq(Objects) /\ IsInjective(idle') /\ Range(idle') = Range(idle)
<1>1. idle \in Seq(Objects) /\ IsInjective(idle)
  BY DEF TypeOK, Exclusive
<1>2. PICK p \in Bijection(DOMAIN idle, DOMAIN idle) :
         idle' = [i \in DOMAIN idle |-> idle[p[i]]]
  BY DEF Shuffle
<1>3. QED
  BY <1>1, <1>2, ShuffleDistinct

\* The object a Put brings is not in the list it is appended to.
LEMMA PutFacts ==
    ASSUME TypeOK, Control, Placed, NEW u \in Users, RecvPut(u)
    PROVE  /\ arg[u] \in Objects /\ arg[u] \in Owned(u)
           /\ idle' \in Seq(Objects) /\ IsInjective(idle')
           /\ Range(idle') = Range(idle) \cup {arg[u]}
<1>1. arg[u] \in Objects /\ arg[u] \in Owned(u)
  BY DEF Control, RecvPut, Goto, Owned
<1>2. idle \in Seq(Objects) /\ IsInjective(idle) /\ arg[u] \notin Range(idle)
  BY <1>1 DEF TypeOK, Placed, Exclusive, Stock
<1>3. QED
  BY <1>1, <1>2, AppendDistinct DEF RecvPut

LEMMA GaugeTyped ==
    ASSUME gauge \in [total : Int, inUse : Int, idle : Int],
           NEW t \in Int, NEW u \in Int, NEW i \in Int, Gauge(t, u, i)
    PROVE  gauge' \in [total : Int, inUse : Int, idle : Int]
BY DEF Gauge

LEMMA AnswerTyped ==
    ASSUME reply \in [Users -> Objects \cup {None, Failure}],
           NEW x \in Objects \cup {Failure}, Answer(x)
    PROVE  reply' \in [Users -> Objects \cup {None, Failure}]
BY DEF Answer

LEMMA CloseTyped ==
    ASSUME TypeOK, NEW o \in made, NEW ok, CallClose(o, ok), made' = made
    PROVE  tried' \subseteq made' /\ dead' \subseteq tried' /\ dead' \subseteq dead \cup {o}
BY DEF TypeOK, CallClose

LEMMA LoopStepsTyped ==
    ASSUME TypeOK, Control, Placed,
           \/ \E u \in Users : RecvPut(u)
           \/ Shuffle \/ GetReuse \/ GetCreateFails \/ CIKeep \/ CIEnd
           \/ \E ok \in BOOLEAN : GetDiscard(ok) \/ FinalClose(ok)
           \/ \E o \in Objects : GetCreate(o)
           \/ \E young \in BOOLEAN : CIClose(young) \/ CICloseFails(young)
    PROVE  TypeOK' /\ Control'
<1> USE PoolAssumption
<1>1. Exclusive /\ Range(idle) \subseteq made
  BY DEF Placed, Known, Stock
<1>2. ASSUME NEW u \in Users, RecvPut(u) PROVE TypeOK' /\ Control'
  <2>1. idle' \in Seq(Objects) /\ gauge' \in [total : Int, inUse : Int, idle : Int]
    <3>1. idle' \in Seq(Objects)
      BY <1>2, PutFacts
    <3>2. Gauge(0, -1, 1) /\ gauge \in [total : Int, inUse : Int, idle : Int]
      BY <1>2 DEF RecvPut, TypeOK
    <3>3. QED
      BY <3>1, <3>2, GaugeTyped
  <2>2. TypeOK'
    BY <1>2, <2>1 DEF TypeOK, RecvPut, Goto, objectVars
  <2>3. Control'
    BY <1>2 DEF TypeOK, Control, RecvPut, Accepts, Goto
  <2>4. QED
    BY <2>2, <2>3
<1>3. CASE Shuffle
  <2>1. idle' \in Seq(Objects)
    BY <1>1, <1>3, ShuffleFacts
  <2>2. QED
    BY <1>3, <2>1 DEF TypeOK, Control, Shuffle, sharedVars, userVars, objectVars
<1>4. ASSUME NEW ok \in BOOLEAN, GetDiscard(ok) \/ FinalClose(ok) PROVE TypeOK' /\ Control'
  <2>1. Pop /\ CallClose(Head(idle), ok) /\ (Gauge(-1, 0, -1) \/ UNCHANGED gauge)
        /\ UNCHANGED <<lpc, cur, kept, done, ticker, drainOnce, sharedVars, userVars, cpc,
                       made, faults, late>>
    BY <1>4 DEF GetDiscard, FinalClose, Pop
  <2>2. idle' \in Seq(Objects) /\ Head(idle) \in made
    BY <1>1, <2>1, PopFacts
  <2>3. tried' \subseteq made' /\ dead' \subseteq tried'
    BY <2>1, <2>2, CloseTyped
  <2>4. gauge' \in [total : Int, inUse : Int, idle : Int]
    BY <2>1, GaugeTyped DEF TypeOK
  <2>5. QED
    BY <2>1, <2>2, <2>3, <2>4 DEF TypeOK, Control, sharedVars, userVars
<1>5. CASE GetReuse
  <2>1. Pop
    BY <1>5 DEF GetReuse, Pop
  <2>2. /\ idle' \in Seq(Objects) /\ Head(idle) \in Objects
        /\ gauge' \in [total : Int, inUse : Int, idle : Int]
    BY <1>1, <1>5, <2>1, PopFacts, GaugeTyped DEF TypeOK, GetReuse
  <2>3. TypeOK'
    <3>1. reply' \in [Users -> Objects \cup {None, Failure}]
      BY <1>5, <2>2, AnswerTyped DEF TypeOK, GetReuse
    <3>2. QED
      BY <1>5, <2>2, <3>1 DEF TypeOK, GetReuse, Borrowed, objectVars
  <2>4. Control'
    BY <1>5 DEF TypeOK, Control, GetReuse, Answer
  <2>5. QED
    BY <2>3, <2>4
<1>6. ASSUME NEW o \in Objects, GetCreate(o) PROVE TypeOK' /\ Control'
  <2>1. gauge' \in [total : Int, inUse : Int, idle : Int]
    BY <1>6, GaugeTyped DEF TypeOK, GetCreate
  <2>2. TypeOK'
    <3>1. reply' \in [Users -> Objects \cup {None, Failure}]
      BY <1>6, AnswerTyped DEF TypeOK, GetCreate
    <3>2. made' \subseteq Objects /\ tried' \subseteq made' /\ dead' \subseteq tried'
      BY <1>6 DEF TypeOK, GetCreate, Make
    <3>3. QED
      BY <1>6, <2>1, <3>1, <3>2 DEF TypeOK, GetCreate, Borrowed
  <2>3. Control'
    BY <1>6 DEF TypeOK, Control, GetCreate, Answer
  <2>4. QED
    BY <2>2, <2>3
<1>7. CASE GetCreateFails
  <2>1. TypeOK'
    <3>1. reply' \in [Users -> Objects \cup {None, Failure}]
      BY <1>7, AnswerTyped DEF TypeOK, GetCreateFails
    <3>2. QED
      BY <1>7, <3>1 DEF TypeOK, GetCreateFails, sharedVars, objectVars
  <2>2. Control'
    BY <1>7 DEF TypeOK, Control, GetCreateFails, Answer
  <2>3. QED
    BY <2>1, <2>2
<1>8. CASE CIKeep
  <2>1. Pop /\ kept' = Remainder(Head(idle))
    BY <1>8 DEF CIKeep, Pop
  <2>2. idle' \in Seq(Objects) /\ kept' \in Seq(Objects)
    BY <1>1, <2>1, PopFacts, KeepFacts
  <2>3. QED
    BY <1>8, <2>2 DEF TypeOK, Control, CIKeep, sharedVars, userVars, objectVars
<1>9. ASSUME NEW young \in BOOLEAN, CIClose(young) PROVE TypeOK' /\ Control'
  <2>1. Pop /\ CallClose(Head(idle), TRUE) /\ made' = made
        /\ (Gauge(-2, 0, -1) \/ Gauge(-1, 0, -1))
    BY <1>9 DEF CIClose, Pop
  <2>2. idle' \in Seq(Objects) /\ Head(idle) \in made
    BY <1>1, <2>1, PopFacts
  <2>3. tried' \subseteq made' /\ dead' \subseteq tried'
    BY <2>1, <2>2, CloseTyped
  <2>4. gauge' \in [total : Int, inUse : Int, idle : Int]
    BY <2>1, GaugeTyped DEF TypeOK
  <2>5. QED
    BY <1>9, <2>2, <2>3, <2>4 DEF TypeOK, Control, CIClose, sharedVars, userVars
<1>10. ASSUME NEW young \in BOOLEAN, CICloseFails(young) PROVE TypeOK' /\ Control'
  <2>1. Pop /\ CallClose(Head(idle), FALSE) /\ kept' = Remainder(Head(idle)) /\ made' = made
        /\ (Gauge(-1, 0, 0) \/ Gauge(0, 0, 0))
    BY <1>10 DEF CICloseFails, Pop
  <2>2. idle' \in Seq(Objects) /\ kept' \in Seq(Objects) /\ Head(idle) \in made
    BY <1>1, <2>1, PopFacts, KeepFacts
  <2>3. tried' \subseteq made' /\ dead' \subseteq tried'
    BY <2>1, <2>2, CloseTyped
  <2>4. gauge' \in [total : Int, inUse : Int, idle : Int]
    BY <2>1, GaugeTyped DEF TypeOK
  <2>5. faults' \in 0..MaxFaults
    BY <1>10 DEF TypeOK, CICloseFails
  <2>6. QED
    BY <1>10, <2>2, <2>3, <2>4, <2>5 DEF TypeOK, Control, CICloseFails, sharedVars, userVars
<1>11. CASE CIEnd
  <2>1. idle' \in Seq(Objects) /\ kept' \in Seq(Objects)
    BY <1>11, EmptySeq DEF TypeOK, CIEnd
  <2>2. TypeOK'
    BY <1>11, <2>1 DEF TypeOK, CIEnd, sharedVars, objectVars
  <2>3. Control'
    BY <1>11 DEF TypeOK, Control, CIEnd
  <2>4. QED
    BY <2>2, <2>3
<1>12. QED
  BY <1>2, <1>3, <1>4, <1>5, <1>6, <1>7, <1>8, <1>9, <1>10, <1>11

\* The answer to a Get: only the user loop() serves can be given an object.
LEMMA AnswerMoves ==
    ASSUME TypeOK, Control, Placed, lpc = "get", UNCHANGED <<arg, held, kept, dead>>,
           NEW x \in Objects, Answer(x), x \in made', made \subseteq made', x \notin dead,
           \A u \in Users : x \notin Owned(u),
           IsInjective(idle'), Range(idle') \subseteq Range(idle) \ {x}, x \notin Range(kept)
    PROVE  Placed'
<1>1. CASE pc[cur] # "getWait"
  <2>1. reply' = reply
    BY <1>1 DEF Answer
  <2>2. \A u \in Users : Owned(u)' = Owned(u) /\ {arg'[u], reply'[u]} \cap held'[u] = {}
    BY <2>1 DEF Owned, Placed, Exclusive
  <2>3. IsInjective(kept') /\ Range(idle') \cap Range(kept') = {} /\ Stock' \subseteq Stock
        /\ x \notin Stock'
    BY DEF Placed, Exclusive, Stock
  <2>4. QED
    BY <2>2, <2>3, OneMoved
<1>2. CASE pc[cur] = "getWait"
  <2>1. PICK c \in Users : c = cur /\ reply' = [reply EXCEPT ![c] = x]
    BY <1>2 DEF Answer, Control
  <2>2. reply'[c] = x /\ \A u \in Users \ {c} : reply'[u] = reply[u]
    BY <2>1 DEF TypeOK
  <2>3. Owned(c)' \subseteq Owned(c) \cup {x} /\ \A u \in Users \ {c} : Owned(u)' = Owned(u)
    <3>1. arg'[c] = arg[c] /\ held'[c] = held[c]
      OBVIOUS
    <3>2. Owned(c)' \subseteq Owned(c) \cup {x}
      BY <2>2, <3>1 DEF Owned
    <3>3. \A u \in Users \ {c} : Owned(u)' = Owned(u)
      BY <2>2 DEF Owned
    <3>4. QED
      BY <3>2, <3>3
  <2>4. \A u \in Users : {arg'[u], reply'[u]} \cap held'[u] = {}
    BY <2>2 DEF Owned, Placed, Exclusive
  <2>5. IsInjective(kept') /\ Range(idle') \cap Range(kept') = {} /\ Stock' \subseteq Stock
        /\ x \notin Stock'
    BY DEF Placed, Exclusive, Stock
  <2>6. \A u \in Users : x \in Owned(u)' => u = c
    BY <2>3
  <2>7. \A u \in Users : x \in Owned(u)' => /\ x \notin Stock'
                                             /\ \A v \in Users \ {u} : x \notin Owned(v)'
    BY <2>5, <2>6
  <2>8. \A u \in Users : Owned(u)' \subseteq Owned(u) \cup {x}
    BY <2>3
  <2>9. IsInjective(idle') /\ x \in made' \ dead' /\ Stock' \subseteq Stock \cup {x}
    BY <2>5
  <2>10. QED
    BY <2>4, <2>5, <2>7, <2>8, <2>9, OneMoved
<1>3. QED
  BY <1>1, <1>2

LEMMA LoopStepsPlaced ==
    ASSUME TypeOK, Control, Placed,
           \/ \E u \in Users : RecvPut(u)
           \/ Shuffle \/ GetReuse \/ GetCreateFails \/ CIKeep \/ CIEnd
           \/ \E ok \in BOOLEAN : GetDiscard(ok) \/ FinalClose(ok)
           \/ \E o \in Objects : GetCreate(o)
           \/ \E young \in BOOLEAN : CIClose(young) \/ CICloseFails(young)
    PROVE  Placed'
<1> USE PoolAssumption
<1>1. /\ Exclusive /\ Stock \subseteq made
      /\ IsInjective(kept) /\ IsInjective(idle) /\ Range(idle) \cap Range(kept) = {}
      /\ \A u \in Users : Owned(u) \subseteq made /\ Owned(u) \cap Stock = {}
  BY DEF Placed, Known, Exclusive
<1>2. ASSUME NEW u \in Users, RecvPut(u) PROVE Placed'
  <2>1. /\ arg[u] \in Objects /\ arg[u] \in Owned(u) /\ IsInjective(idle')
        /\ Range(idle') = Range(idle) \cup {arg[u]}
    BY <1>2, PutFacts
  <2>2. /\ UNCHANGED <<kept, reply, held, made, dead>>
        /\ arg' = [arg EXCEPT ![u] = None]
    BY <1>2 DEF RecvPut, objectVars
  <2>3. arg'[u] = None /\ \A v \in Users \ {u} : arg'[v] = arg[v]
    BY <2>2 DEF TypeOK
  <2>4. \A v \in Users : arg[u] \notin Owned(v)'
    BY <2>1, <2>2, <2>3 DEF TypeOK, Control, Owned, Placed, Exclusive
  <2>5. \A v \in Users : Owned(v)' \subseteq Owned(v)
    BY <2>2, <2>3 DEF Owned
  <2>6. \A v \in Users : {arg'[v], reply'[v]} \cap held'[v] = {}
    BY <2>2, <2>3 DEF TypeOK, Placed, Exclusive
  <2>7. Stock' \subseteq Stock \cup {arg[u]} /\ arg[u] \in made' \ dead' /\ arg[u] \notin Range(kept)
    BY <1>1, <2>1, <2>2 DEF Stock, Placed, NeverLendClosed
  <2>8. QED
    BY <1>1, <2>1, <2>2, <2>4, <2>5, <2>6, <2>7, OneMoved
<1>3. CASE Shuffle
  <2>1. IsInjective(idle') /\ Range(idle') = Range(idle)
    BY <1>1, <1>3, ShuffleFacts
  <2>2. UNCHANGED <<kept, arg, reply, held, made, dead>>
    BY <1>3 DEF Shuffle, userVars, objectVars
  <2>3. QED
    BY <2>1, <2>2 DEF Placed, Known, Exclusive, NeverLendClosed, Owned, Stock
<1>4. ASSUME Pop, UNCHANGED <<kept, arg, reply, held, made>>, dead' \subseteq dead \cup {Head(idle)},
             dead \subseteq dead'
      PROVE  Placed'
  <2>1. /\ IsInjective(idle') /\ Head(idle) \in Range(idle)
        /\ Range(idle') = Range(idle) \ {Head(idle)}
    BY <1>1, <1>4, PopFacts
  <2>2. Stock' \subseteq Stock /\ Head(idle) \in Stock /\ Head(idle) \notin Stock'
    BY <1>1, <1>4, <2>1 DEF Stock
  <2>3. dead' = dead \/ dead' = dead \cup {Head(idle)}
    BY <1>4
  <2>4. QED
    BY <1>1, <1>4, <2>1, <2>2, <2>3, StockMoves
<1>5. ASSUME Pop, UNCHANGED <<arg, reply, held, made, dead>>, kept' = Remainder(Head(idle))
      PROVE  Placed'
  <2>1. /\ IsInjective(idle') /\ Head(idle) \in Range(idle)
        /\ Range(idle') = Range(idle) \ {Head(idle)}
    BY <1>1, <1>5, PopFacts
  <2>2. IsInjective(kept') /\ Range(kept') = Range(kept) \cup {Head(idle)}
    BY <1>1, <1>5, KeepFacts
  <2>3. Stock' = Stock /\ Range(idle') \cap Range(kept') = {}
    BY <1>1, <2>1, <2>2 DEF Stock
  <2>4. QED
    BY <1>5, <2>1, <2>2, <2>3 DEF Placed, Known, Exclusive, NeverLendClosed, Owned
<1>6. ASSUME NEW ok \in BOOLEAN, GetDiscard(ok) \/ FinalClose(ok) PROVE Placed'
  BY <1>4, <1>6 DEF GetDiscard, FinalClose, Pop, CallClose, userVars
<1>7. ASSUME NEW young \in BOOLEAN, CIClose(young) PROVE Placed'
  BY <1>4, <1>7 DEF CIClose, Pop, CallClose, userVars
<1>8. ASSUME NEW young \in BOOLEAN, CICloseFails(young) PROVE Placed'
  BY <1>5, <1>8 DEF CICloseFails, Pop, CallClose, userVars
<1>9. CASE CIKeep
  BY <1>5, <1>9 DEF CIKeep, Pop, userVars, objectVars
<1>10. CASE CIEnd
  <2>1. idle' = kept /\ kept' = <<>> /\ Range(kept') = {} /\ IsInjective(kept')
        /\ Range(idle) = {}
    BY <1>10 DEF CIEnd, Range, IsInjective
  <2>2. UNCHANGED <<arg, reply, held, made, dead>>
    BY <1>10 DEF CIEnd, objectVars
  <2>3. Stock' = Stock
    BY <2>1 DEF Stock
  <2>4. QED
    BY <1>1, <2>1, <2>2, <2>3 DEF Placed, Known, Exclusive, NeverLendClosed, Owned
<1>11. CASE GetReuse
  <2>1. Pop /\ lpc = "get" /\ UNCHANGED <<arg, held, kept, dead, made>> /\ Answer(Head(idle))
    BY <1>11 DEF GetReuse, Pop, objectVars
  <2>2. /\ IsInjective(idle') /\ Head(idle) \in Range(idle) /\ Head(idle) \in Objects
        /\ Range(idle') = Range(idle) \ {Head(idle)}
    BY <1>1, <2>1, PopFacts
  <2>3. /\ Head(idle) \in made' \ dead /\ Head(idle) \notin Range(kept)
        /\ \A u \in Users : Head(idle) \notin Owned(u)
    BY <1>1, <2>1, <2>2 DEF Placed, NeverLendClosed, Stock
  <2>4. QED
    BY <2>1, <2>2, <2>3, AnswerMoves
<1>12. ASSUME NEW o \in Objects, GetCreate(o) PROVE Placed'
  <2>1. /\ lpc = "get" /\ UNCHANGED <<arg, held, idle, kept, dead>> /\ Answer(o)
        /\ o \notin made /\ made' = made \cup {o}
    BY <1>12 DEF GetCreate, Make
  <2>2. /\ o \notin dead /\ o \notin Range(idle) /\ o \notin Range(kept)
        /\ \A u \in Users : o \notin Owned(u)
    BY <1>1, <2>1 DEF TypeOK, Stock
  <2>3. QED
    BY <1>1, <2>1, <2>2, AnswerMoves
<1>13. CASE GetCreateFails
  <2>1. /\ UNCHANGED <<idle, kept, arg, held, made, dead>>
        /\ (reply' = reply \/ (cur \in Users /\ reply' = [reply EXCEPT ![cur] = Failure]
                               /\ reply[cur] = None))
    BY <1>13 DEF GetCreateFails, Answer, Control, objectVars
  <2>2. \A u \in Users : reply'[u] = reply[u] \/ (reply[u] = None /\ reply'[u] = Failure)
    BY <2>1 DEF TypeOK
  <2>3. \A u \in Users : Owned(u)' = Owned(u)
    BY <2>1, <2>2 DEF Owned
  <2>4. \A u \in Users : {arg'[u], reply'[u]} \cap held'[u] = {}
    BY <2>1, <2>2 DEF TypeOK, Placed, Exclusive
  <2>5. QED
    BY <2>1, <2>3, <2>4 DEF Placed, Known, Exclusive, NeverLendClosed, Stock
<1>14. QED
  BY <1>2, <1>3, <1>6, <1>7, <1>8, <1>9, <1>10, <1>11, <1>12, <1>13

-----------------------------------------------------------------------------
(* The theorems                                                            *)

LEMMA NextIInv == IInv /\ [Next]_vars => IInv'
<1> SUFFICES ASSUME IInv, [Next]_vars PROVE IInv'
    OBVIOUS
<1>1. TypeOK /\ Control /\ Placed /\ Known
  BY DEF IInv, Placed
<1>2. CASE Quiet
  BY <1>1, <1>2, QuietTyped, QuietUnmoved, Unmoved DEF IInv, Placed
<1>3. ASSUME NEW u \in Users,
             \/ GetReturn(u) \/ GetTimeout(u) \/ GetCount(u) \/ PutPanic(u)
             \/ \E o \in Objects : GetMake(u, o) \/ PutStart(u, o) \/ PutRefused(u, o)
             \/ \E ok \in BOOLEAN : PutTimeout(u, ok)
      PROVE  IInv'
  BY <1>1, <1>3, UserStepsTyped, UserStepsPlaced DEF IInv, Placed
<1>4. ASSUME \/ \E u \in Users : RecvPut(u)
             \/ Shuffle \/ GetReuse \/ GetCreateFails \/ CIKeep \/ CIEnd
             \/ \E ok \in BOOLEAN : GetDiscard(ok) \/ FinalClose(ok)
             \/ \E o \in Objects : GetCreate(o)
             \/ \E young \in BOOLEAN : CIClose(young) \/ CICloseFails(young)
      PROVE  IInv'
  BY <1>1, <1>4, LoopStepsTyped, LoopStepsPlaced DEF IInv, Placed
<1>5. CASE UNCHANGED vars
  BY <1>5 DEF vars, loopVars, sharedVars, userVars, objectVars, IInv, TypeOK, Control,
     Known, Exclusive, NeverLendClosed, Owned, Stock
<1>6. CASE Next
  <2>1. CASE LoopStep
    BY <2>1, <1>2, <1>4 DEF LoopStep, Quiet
  <2>2. ASSUME NEW u \in Users, UserStep(u) PROVE IInv'
    BY <2>2, <1>2, <1>3 DEF UserStep, Quiet
  <2>3. ASSUME NEW c \in Closers, CloserStep(c) PROVE IInv'
    BY <2>3, <1>2 DEF Quiet
  <2>4. QED
    BY <1>6, <2>1, <2>2, <2>3 DEF Next
<1>7. QED
  BY <1>5, <1>6

\* The inductive invariant holds of the pool, with any timers and any number
\* of callers: every object is in one place, made, and not closed while there.
THEOREM PoolInvariant == Spec => []IInv
<1>1. QED
  BY InitIInv, NextIInv, PTL DEF Spec

\* Two callers of Get and Put never have the same object, and none has one
\* that is in the pool.
THEOREM PoolExclusive == Spec => []Exclusive
<1>1. IInv => Exclusive
  BY DEF IInv
<1>2. QED
  BY <1>1, PoolInvariant, PTL

\* No object is handed out, or kept for a later Get, after its Close.
THEOREM PoolNeverLendsClosed == Spec => []NeverLendClosed
<1>1. IInv => NeverLendClosed
  BY DEF IInv
<1>2. QED
  BY <1>1, PoolInvariant, PTL

\* Type correctness.
THEOREM PoolTypeOK == Spec => []TypeOK
<1>1. IInv => TypeOK
  BY DEF IInv
<1>2. QED
  BY <1>1, PoolInvariant, PTL

-----------------------------------------------------------------------------
(* The refinement: each step of the pool lends, returns, gives up or keeps *)
(* where they are the objects of Lending.  First, a step of Lending in     *)
(* terms of what the users and the pool have                               *)

OthersKeep(u) == \A v \in Users \ {u} : Owned(v)' = Owned(v)
AllKeep == \A v \in Users : Owned(v)' = Owned(v)

\* A step of the pool is one of Lending, or changes nothing Lending speaks of.
Lends == [Abstract!Next]_(Abstract!lendingVars)

LEMMA Keeps ==
    ASSUME Stock' = Stock, AllKeep, made' = made
    PROVE  Lends
<1>1. [u \in Users |-> Owned(u)]' = [u \in Users |-> Owned(u)]
  BY DEF AllKeep
<1>2. Gone' = Gone
  BY DEF Gone, AllKeep
<1>3. QED
  BY <1>1, <1>2 DEF Lends, Abstract!lendingVars

LEMMA Forfeits ==
    ASSUME Placed, NEW u \in Users, NEW o \in Objects, o \in Owned(u),
           Owned(u)' = Owned(u) \ {o}, OthersKeep(u), Stock' = Stock, made' = made
    PROVE  Lends
<1>1. [v \in Users |-> Owned(v)]' = [[v \in Users |-> Owned(v)] EXCEPT ![u] = @ \ {o}]
  BY DEF OthersKeep
<1>2. o \in made /\ o \notin Stock /\ \A v \in Users \ {u} : o \notin Owned(v)
  BY DEF Placed, Known, Exclusive
<1>3. Gone' = Gone \cup {o}
  BY <1>2 DEF Gone, OthersKeep
<1>4. Abstract!Forfeit(u, o)
  BY <1>1, <1>3 DEF Abstract!Forfeit
<1>5. QED
  BY <1>4 DEF Lends, Abstract!Next

\* An object that is in stock, or new, goes to a user.
LEMMA Lent ==
    ASSUME Placed, NEW u \in Users, NEW o \in Objects, o \in Stock \/ o \notin made,
           Owned(u)' = Owned(u) \cup {o}, OthersKeep(u), Stock' = Stock \ {o},
           made' = made \cup {o}
    PROVE  Lends
<1>1. [v \in Users |-> Owned(v)]' = [[v \in Users |-> Owned(v)] EXCEPT ![u] = @ \cup {o}]
  BY DEF OthersKeep
<1>2. Stock \subseteq made /\ \A v \in Users : Owned(v) \subseteq made
  BY DEF Placed, Known
<1>3. Gone' = Gone /\ o \notin Gone /\ \A v \in Users : o \notin Owned(v)
  BY <1>2 DEF Gone, OthersKeep, Placed, Exclusive
<1>4. o \in Stock \cup Abstract!Unmade
  BY <1>3 DEF Abstract!Unmade, Abstract!Lent
<1>5. Abstract!Lend(u, o)
  BY <1>1, <1>3, <1>4 DEF Abstract!Lend
<1>6. QED
  BY <1>5 DEF Lends, Abstract!Next

LEMMA Returned ==
    ASSUME Placed, NEW u \in Users, NEW o \in Objects, o \in Owned(u),
           Owned(u)' = Owned(u) \ {o}, OthersKeep(u), Stock' = Stock \cup {o}, made' = made
    PROVE  Lends
<1>1. [v \in Users |-> Owned(v)]' = [[v \in Users |-> Owned(v)] EXCEPT ![u] = @ \ {o}]
  BY DEF OthersKeep
<1>2. Gone' = Gone
  BY DEF Gone, OthersKeep
<1>3. Abstract!Return(u, o)
  BY <1>1, <1>2 DEF Abstract!Return
<1>4. QED
  BY <1>3 DEF Lends, Abstract!Next

\* An object that is in stock, or new, goes to nobody.
LEMMA Discarded ==
    ASSUME Placed, NEW o \in Objects, o \in Stock \/ o \notin made,
           AllKeep, Stock' = Stock \ {o}, made' = made \cup {o}
    PROVE  Lends
<1>1. [v \in Users |-> Owned(v)]' = [v \in Users |-> Owned(v)]
  BY DEF AllKeep
<1>2. Stock \subseteq made /\ \A v \in Users : Owned(v) \subseteq made /\ o \notin Owned(v)
  BY DEF Placed, Known, Exclusive
<1>3. Gone' = Gone \cup {o} /\ o \notin Gone
  BY <1>2 DEF Gone, AllKeep
<1>4. o \in Stock \cup Abstract!Unmade
  BY <1>2, <1>3 DEF Abstract!Unmade, Abstract!Lent
<1>5. Abstract!Discard(o)
  BY <1>1, <1>3, <1>4 DEF Abstract!Discard
<1>6. QED
  BY <1>5 DEF Lends, Abstract!Next

-----------------------------------------------------------------------------
(* The steps of the users                                                  *)

LEMMA UserStepsLend ==
    ASSUME TypeOK, Control, Placed, NEW u \in Users,
           \/ GetReturn(u) \/ GetTimeout(u) \/ GetCount(u) \/ PutPanic(u)
           \/ \E o \in Objects : GetMake(u, o) \/ PutStart(u, o) \/ PutRefused(u, o)
           \/ \E ok \in BOOLEAN : PutTimeout(u, ok)
    PROVE  Lends
<1> USE PoolAssumption
<1>1. /\ arg[u] \in Objects \cup {None} /\ reply[u] \in Objects \cup {None, Failure}
      /\ arg[u] = None \/ reply[u] = None
      /\ {arg[u], reply[u]} \cap held[u] = {} /\ held[u] \subseteq Objects
      /\ Owned(u) = held[u] \cup ({arg[u], reply[u]} \cap Objects)
  BY DEF TypeOK, Control, Placed, Exclusive, Owned
\* Steps by which u loses nothing, or the object o.
<1>2. ASSUME UNCHANGED <<idle, kept, made>>, OthersKeep(u), Owned(u)' = Owned(u)
      PROVE  Lends
  <2>1. AllKeep /\ Stock' = Stock
    BY <1>2 DEF AllKeep, OthersKeep, Stock
  <2>2. QED
    BY <1>2, <2>1, Keeps
<1>3. ASSUME UNCHANGED <<idle, kept, made>>, OthersKeep(u), NEW o \in Owned(u),
             o \in Objects, Owned(u)' = Owned(u) \ {o}
      PROVE  Lends
  BY <1>3, Forfeits DEF Stock
<1>4. CASE GetReturn(u)
  <2>1. /\ UNCHANGED <<idle, kept, made, arg>> /\ arg[u] = None
        /\ reply' = [reply EXCEPT ![u] = None]
        /\ held' = [held EXCEPT ![u] = held[u] \cup Received(u)]
    BY <1>1, <1>4 DEF GetReturn, loopVars, objectVars
  <2>2. /\ arg'[u] = None /\ reply'[u] = None /\ held'[u] = held[u] \cup Received(u)
        /\ OthersKeep(u)
    BY <2>1 DEF TypeOK, OthersKeep, Owned
  <2>3. Owned(u)' = Owned(u)
    BY <1>1, <2>1, <2>2 DEF Owned, Received
  <2>4. QED
    BY <1>2, <2>1, <2>2, <2>3
<1>5. CASE GetTimeout(u)
  <2>1. /\ UNCHANGED <<idle, kept, made, arg, held>>
        /\ reply' = [reply EXCEPT ![u] = None]
    BY <1>5 DEF GetTimeout, loopVars, objectVars
  <2>2. arg'[u] = arg[u] /\ reply'[u] = None /\ held'[u] = held[u] /\ OthersKeep(u)
    BY <2>1 DEF TypeOK, OthersKeep, Owned
  <2>3. CASE reply[u] \in Objects
    <3>1. arg[u] = None /\ Owned(u)' = Owned(u) \ {reply[u]} /\ reply[u] \in Owned(u)
      BY <1>1, <2>2, <2>3 DEF Owned
    <3>2. QED
      BY <1>3, <2>1, <2>2, <2>3, <3>1
  <2>4. CASE reply[u] \notin Objects
    <3>1. Owned(u)' = Owned(u)
      BY <1>1, <2>2, <2>4 DEF Owned
    <3>2. QED
      BY <1>2, <2>1, <2>2, <3>1
  <2>5. QED
    BY <2>3, <2>4
<1>6. CASE GetCount(u)
  <2>1. /\ UNCHANGED <<idle, kept, made, reply>> /\ arg[u] \in Objects
        /\ arg' = [arg EXCEPT ![u] = None]
        /\ held' = [held EXCEPT ![u] = held[u] \cup {arg[u]}]
    BY <1>6 DEF GetCount, Goto, Control, loopVars, objectVars
  <2>2. /\ arg'[u] = None /\ reply'[u] = reply[u] /\ held'[u] = held[u] \cup {arg[u]}
        /\ OthersKeep(u)
    BY <2>1 DEF TypeOK, OthersKeep, Owned
  <2>3. Owned(u)' = Owned(u)
    BY <1>1, <2>1, <2>2 DEF Owned
  <2>4. QED
    BY <1>2, <2>1, <2>2, <2>3
<1>7. ASSUME PutPanic(u) \/ \E ok \in BOOLEAN : PutTimeout(u, ok) PROVE Lends
  <2>1. /\ UNCHANGED <<idle, kept, made, reply, held>> /\ arg[u] \in Objects
        /\ arg' = [arg EXCEPT ![u] = None]
    BY <1>7 DEF PutPanic, PutTimeout, Goto, Control, loopVars, objectVars
  <2>2. arg'[u] = None /\ reply'[u] = reply[u] /\ held'[u] = held[u] /\ OthersKeep(u)
    BY <2>1 DEF TypeOK, OthersKeep, Owned
  <2>3. Owned(u)' = Owned(u) \ {arg[u]} /\ arg[u] \in Owned(u)
    BY <1>1, <2>1, <2>2 DEF Owned
  <2>4. QED
    BY <1>3, <2>1, <2>2, <2>3
<1>8. ASSUME NEW o \in Objects, GetMake(u, o) PROVE Lends
  <2>1. /\ UNCHANGED <<idle, kept, reply, held>> /\ arg' = [arg EXCEPT ![u] = o]
        /\ o \notin made /\ made' = made \cup {o} /\ arg[u] = None
    BY <1>1, <1>8 DEF GetMake, Make, Goto, Control, loopVars
  <2>2. arg'[u] = o /\ reply'[u] = reply[u] /\ held'[u] = held[u] /\ OthersKeep(u)
    BY <2>1 DEF TypeOK, OthersKeep, Owned
  <2>3. Owned(u)' = Owned(u) \cup {o}
    BY <1>1, <2>1, <2>2 DEF Owned
  <2>4. Stock' = Stock \ {o}
    BY <2>1 DEF Stock, Placed, Known
  <2>5. QED
    BY <2>1, <2>2, <2>3, <2>4, Lent
<1>9. ASSUME NEW o \in Objects, PutStart(u, o) PROVE Lends
  <2>1. /\ UNCHANGED <<idle, kept, made, reply>> /\ arg' = [arg EXCEPT ![u] = o]
        /\ held' = [held EXCEPT ![u] = held[u] \ {o}] /\ o \in held[u] /\ arg[u] = None
    BY <1>1, <1>9 DEF PutStart, Goto, Control, loopVars, objectVars
  <2>2. arg'[u] = o /\ reply'[u] = reply[u] /\ held'[u] = held[u] \ {o} /\ OthersKeep(u)
    BY <2>1 DEF TypeOK, OthersKeep, Owned
  <2>3. Owned(u)' = Owned(u)
    BY <1>1, <2>1, <2>2 DEF Owned
  <2>4. QED
    BY <1>2, <2>1, <2>2, <2>3
<1>10. ASSUME NEW o \in Objects, PutRefused(u, o) PROVE Lends
  <2>1. /\ UNCHANGED <<idle, kept, made, reply, arg>> /\ o \in held[u]
        /\ held' = [held EXCEPT ![u] = held[u] \ {o}]
    BY <1>10 DEF PutRefused, loopVars, objectVars
  <2>2. arg'[u] = arg[u] /\ reply'[u] = reply[u] /\ held'[u] = held[u] \ {o} /\ OthersKeep(u)
    BY <2>1 DEF TypeOK, OthersKeep, Owned
  <2>3. Owned(u)' = Owned(u) \ {o} /\ o \in Owned(u)
    BY <1>1, <2>1, <2>2 DEF Owned
  <2>4. QED
    BY <1>3, <2>1, <2>2, <2>3
<1>11. QED
  BY <1>4, <1>5, <1>6, <1>7, <1>8, <1>9, <1>10

-----------------------------------------------------------------------------
(* The steps of loop()                                                     *)

\* The object handleGet hands out goes to the caller it serves, or, if that
\* one has given up, to nobody.
LEMMA AnswerLends ==
    ASSUME TypeOK, Control, Placed, lpc = "get", UNCHANGED <<arg, held, kept>>,
           NEW x \in Objects, Answer(x), x \in Stock \/ x \notin made,
           made' = made \cup {x}, Stock' = Stock \ {x}
    PROVE  Lends
<1>1. CASE pc[cur] # "getWait"
  <2>1. reply' = reply
    BY <1>1 DEF Answer
  <2>2. AllKeep
    BY <2>1 DEF AllKeep, Owned
  <2>3. QED
    BY <2>2, Discarded
<1>2. CASE pc[cur] = "getWait"
  <2>1. PICK c \in Users : c = cur /\ reply' = [reply EXCEPT ![c] = x] /\ reply[c] = None
    BY <1>2 DEF Answer, Control
  <2>2. reply'[c] = x /\ arg'[c] = arg[c] /\ held'[c] = held[c] /\ OthersKeep(c)
    BY <2>1 DEF TypeOK, OthersKeep, Owned
  <2>3. Owned(c)' = Owned(c) \cup {x}
    BY <2>1, <2>2, PoolAssumption DEF Owned
  <2>4. QED
    BY <2>2, <2>3, Lent
<1>3. QED
  BY <1>1, <1>2

LEMMA LoopStepsLend ==
    ASSUME TypeOK, Control, Placed,
           \/ \E u \in Users : RecvPut(u)
           \/ Shuffle \/ GetReuse \/ GetCreateFails \/ CIKeep \/ CIEnd
           \/ \E ok \in BOOLEAN : GetDiscard(ok) \/ FinalClose(ok)
           \/ \E o \in Objects : GetCreate(o)
           \/ \E young \in BOOLEAN : CIClose(young) \/ CICloseFails(young)
    PROVE  Lends
<1> USE PoolAssumption
<1>1. /\ Exclusive /\ Stock \subseteq made
      /\ IsInjective(kept) /\ IsInjective(idle) /\ Range(idle) \cap Range(kept) = {}
      /\ \A u \in Users : Owned(u) \subseteq made /\ Owned(u) \cap Stock = {}
  BY DEF Placed, Known, Exclusive
<1>2. ASSUME UNCHANGED <<arg, reply, held, made>>, Stock' = Stock PROVE Lends
  <2>1. AllKeep
    BY <1>2 DEF AllKeep, Owned
  <2>2. QED
    BY <1>2, <2>1, Keeps
<1>3. ASSUME NEW u \in Users, RecvPut(u) PROVE Lends
  <2>1. /\ arg[u] \in Objects /\ arg[u] \in Owned(u)
        /\ Range(idle') = Range(idle) \cup {arg[u]}
    BY <1>1, <1>3, PutFacts
  <2>2. UNCHANGED <<kept, reply, held, made>> /\ arg' = [arg EXCEPT ![u] = None]
    BY <1>3 DEF RecvPut, objectVars
  <2>3. arg'[u] = None /\ OthersKeep(u) /\ {arg[u], reply[u]} \cap held[u] = {}
        /\ reply[u] # arg[u]
    BY <1>3, <2>1, <2>2 DEF TypeOK, OthersKeep, Owned, RecvPut, Goto, Control, Exclusive, Placed
  <2>4. Owned(u)' = Owned(u) \ {arg[u]}
    BY <2>1, <2>2, <2>3 DEF Owned
  <2>5. Stock' = Stock \cup {arg[u]}
    BY <2>1, <2>2 DEF Stock
  <2>6. QED
    BY <2>1, <2>2, <2>3, <2>4, <2>5, Returned
<1>4. CASE Shuffle
  <2>1. Range(idle') = Range(idle)
    BY <1>1, <1>4, ShuffleFacts
  <2>2. UNCHANGED <<kept, arg, reply, held, made>>
    BY <1>4 DEF Shuffle, userVars, objectVars
  <2>3. QED
    BY <1>2, <2>1, <2>2 DEF Stock
<1>5. ASSUME Pop, UNCHANGED <<kept, arg, reply, held, made>> PROVE Lends
  <2>1. Head(idle) \in Range(idle) /\ Range(idle') = Range(idle) \ {Head(idle)}
        /\ Head(idle) \in Objects
    BY <1>1, <1>5, PopFacts
  <2>2. Stock' = Stock \ {Head(idle)} /\ Head(idle) \in Stock /\ Head(idle) \in made
    BY <1>1, <1>5, <2>1 DEF Stock
  <2>3. AllKeep
    BY <1>5 DEF AllKeep, Owned
  <2>4. QED
    BY <1>5, <2>1, <2>2, <2>3, Discarded
<1>6. ASSUME Pop, UNCHANGED <<arg, reply, held, made>>, kept' = Remainder(Head(idle))
      PROVE  Lends
  <2>1. Head(idle) \in Range(idle) /\ Range(idle') = Range(idle) \ {Head(idle)}
    BY <1>1, <1>6, PopFacts
  <2>2. Range(kept') = Range(kept) \cup {Head(idle)}
    BY <1>1, <1>6, KeepFacts
  <2>3. QED
    BY <1>2, <1>6, <2>1, <2>2 DEF Stock
<1>7. ASSUME NEW ok \in BOOLEAN, GetDiscard(ok) \/ FinalClose(ok) PROVE Lends
  BY <1>5, <1>7 DEF GetDiscard, FinalClose, Pop, CallClose, userVars
<1>8. ASSUME NEW young \in BOOLEAN, CIClose(young) PROVE Lends
  BY <1>5, <1>8 DEF CIClose, Pop, CallClose, userVars
<1>9. ASSUME NEW young \in BOOLEAN, CICloseFails(young) PROVE Lends
  BY <1>6, <1>9 DEF CICloseFails, Pop, CallClose, userVars
<1>10. CASE CIKeep
  BY <1>6, <1>10 DEF CIKeep, Pop, userVars, objectVars
<1>11. CASE CIEnd
  <2>1. idle' = kept /\ Range(kept') = {} /\ Range(idle) = {}
    BY <1>11 DEF CIEnd, Range
  <2>2. UNCHANGED <<arg, reply, held, made>>
    BY <1>11 DEF CIEnd, objectVars
  <2>3. QED
    BY <1>2, <2>1, <2>2 DEF Stock
<1>12. CASE GetReuse
  <2>1. Pop /\ lpc = "get" /\ UNCHANGED <<arg, held, kept, made>> /\ Answer(Head(idle))
    BY <1>12 DEF GetReuse, Pop, objectVars
  <2>2. /\ Head(idle) \in Range(idle) /\ Head(idle) \in Objects
        /\ Range(idle') = Range(idle) \ {Head(idle)}
    BY <1>1, <2>1, PopFacts
  <2>3. Stock' = Stock \ {Head(idle)} /\ Head(idle) \in Stock /\ made' = made \cup {Head(idle)}
    BY <1>1, <2>1, <2>2 DEF Stock
  <2>4. QED
    BY <2>1, <2>2, <2>3, AnswerLends
<1>13. ASSUME NEW o \in Objects, GetCreate(o) PROVE Lends
  <2>1. /\ lpc = "get" /\ UNCHANGED <<arg, held, idle, kept>> /\ Answer(o)
        /\ o \notin made /\ made' = made \cup {o}
    BY <1>13 DEF GetCreate, Make
  <2>2. Stock' = Stock \ {o}
    BY <1>1, <2>1 DEF Stock
  <2>3. QED
    BY <2>1, <2>2, AnswerLends
<1>14. CASE GetCreateFails
  <2>1. /\ UNCHANGED <<idle, kept, arg, held, made>>
        /\ (reply' = reply \/ (cur \in Users /\ reply' = [reply EXCEPT ![cur] = Failure]
                               /\ reply[cur] = None))
    BY <1>14 DEF GetCreateFails, Answer, Control, objectVars
  <2>2. \A u \in Users : reply'[u] = reply[u] \/ (reply[u] = None /\ reply'[u] = Failure)
    BY <2>1 DEF TypeOK
  <2>3. AllKeep
    BY <2>1, <2>2 DEF AllKeep, Owned
  <2>4. Stock' = Stock
    BY <2>1 DEF Stock
  <2>5. QED
    BY <2>1, <2>3, <2>4, Keeps
<1>15. QED
  BY <1>3, <1>4, <1>7, <1>8, <1>9, <1>10, <1>11, <1>12, <1>13, <1>14

-----------------------------------------------------------------------------
(* The theorem                                                             *)

LEMMA InitLends == Init => Abstract!Init
<1> SUFFICES ASSUME Init PROVE Abstract!Init
  OBVIOUS
<1>1. Stock = {} /\ Gone = {}
  BY DEF Init, Stock, Gone, Range
<1>2. \A u \in Users : Owned(u) = {}
  BY PoolAssumption DEF Init, Owned
<1>3. QED
  BY <1>1, <1>2 DEF Abstract!Init

LEMMA NextLends == IInv /\ [Next]_vars => Lends
<1> SUFFICES ASSUME IInv, [Next]_vars PROVE Lends
  OBVIOUS
<1>1. TypeOK /\ Control /\ Placed
  BY DEF IInv, Placed
<1>2. ASSUME UNCHANGED places PROVE Lends
  <2>1. AllKeep /\ Stock' = Stock /\ made' = made
    BY <1>2 DEF places, AllKeep, Owned, Stock
  <2>2. QED
    BY <2>1, Keeps
<1>3. CASE Quiet
  BY <1>2, <1>3, QuietUnmoved
<1>4. CASE UNCHANGED vars
  BY <1>2, <1>4 DEF vars, places, loopVars, userVars, objectVars
<1>5. CASE Next
  <2>1. CASE LoopStep
    BY <1>1, <1>3, <2>1, LoopStepsLend DEF LoopStep, Quiet
  <2>2. ASSUME NEW u \in Users, UserStep(u) PROVE Lends
    BY <1>1, <1>3, <2>2, UserStepsLend DEF UserStep, Quiet
  <2>3. ASSUME NEW c \in Closers, CloserStep(c) PROVE Lends
    BY <1>3, <2>3 DEF Quiet
  <2>4. QED
    BY <1>5, <2>1, <2>2, <2>3 DEF Next
<1>6. QED
  BY <1>4, <1>5

\* The pool implements the lending of objects: whatever timers, callers and
\* Close do, an object is made once, is in stock or with one user, and does not
\* come back when it is gone.
THEOREM PoolImplementsLending == Spec => ImplementsLending
<1>1. Init => Abstract!Init
  BY InitLends
<1>2. IInv /\ [Next]_vars => [Abstract!Next]_(Abstract!lendingVars)
  BY NextLends DEF Lends
<1>3. QED
  BY <1>1, <1>2, PoolInvariant, PTL DEF Spec, ImplementsLending, Abstract!Spec

-----------------------------------------------------------------------------
(* The inductive invariant, on top of IInv                                 *)

\* As long as no timer has fired nobody makes an object for itself, and whoever
\* loop() serves is waiting for it.
Patient ==
    ~late => /\ \A u \in Users : pc[u] \notin {"getMake", "getCount"}
             /\ lpc = "get" => pc[cur] = "getWait"

\* The order in which Close and loop() end the pool: getCh is closed before
\* anything else, and the two others only after stopDrain has run.
Ended == lpc \in {"defer", "exit", "gone"}
Ending ==
    /\ (done > 0 \/ closed # {} \/ drainOnce) => "get" \in closed
    /\ drainOnce => lpc # "get"
    /\ \A c \in Closers :
          /\ cpc[c] \in {"wait", "put", "ci", "recv", "returned"} => "get" \in closed
          /\ cpc[c] \in {"get", "wait"} => drainOnce \/ drain >= 1
          /\ cpc[c] \in {"put", "ci", "recv", "returned"} => drainOnce
          /\ cpc[c] = "returned" => closeCh
    /\ ~drainOnce => drain >= 0
    /\ "put" \in closed \/ "ci" \in closed => drainOnce
    /\ LoopLeft => done = 3
    /\ closeCh => Ended
    /\ Ended => idle = <<>>
    /\ ~running => lpc = "gone"

\* Nobody has an object once loop() has reported that all are back, or left.
Settled == ~late /\ (drainOnce \/ LoopLeft) => InUse = {}

\* Every object there is can be found.
Found == ~late => made \subseteq Stock \cup InUse \cup tried

Books == IInv /\ Patient /\ Ending /\ Accounting /\ Settled /\ Found

-----------------------------------------------------------------------------
(* The order of the end                                                    *)

LEMMA UserLeaves ==
    ASSUME NEW u \in Users, UserStep(u)
    PROVE  UNCHANGED <<loopVars, closed, drain, closeCh, running, cpc>>
BY DEF UserStep, GetStart, GetPanic, GetReturn, GetTimeout, GetMake, GetMakeFails, GetCount,
   PutStart, PutRefused, PutPanic, PutTimeout, CIStart, CITimeout, CIPanic, sharedVars

\* The steps of loop() in its select and in its handlers.
InLoop ==
    \/ \E u \in Users : RecvGet(u) \/ RecvPut(u) \/ RecvCI(u)
    \/ \E ch \in Channels : RecvClosed(ch)
    \/ Shuffle
    \/ \E ok \in BOOLEAN : GetDiscard(ok)
    \/ GetReuse \/ GetCreateFails
    \/ \E o \in Objects : GetCreate(o)
    \/ CIKeep \/ CIEnd
    \/ \E young \in BOOLEAN : CIClose(young) \/ CICloseFails(young)

LEMMA EndingKept == ASSUME TypeOK, Ending, Next PROVE Ending'
<1>1. ASSUME NEW u \in Users, UserStep(u) PROVE Ending'
  <2>1. UNCHANGED <<loopVars, closed, drain, closeCh, running, cpc>>
    BY <1>1, UserLeaves
  <2>2. QED
    BY <2>1 DEF Ending, Ended, LoopLeft, loopVars
<1>2. CASE InLoop
  <2>1. /\ lpc \in {"select", "get", "ci"} /\ lpc' \in {"select", "get", "ci", "check"}
        /\ UNCHANGED <<drainOnce, closed, drain, closeCh, running, cpc>>
    BY <1>2 DEF InLoop, RecvGet, RecvPut, RecvCI, RecvClosed, Shuffle, GetDiscard, GetReuse,
       GetCreateFails, GetCreate, CIKeep, CIEnd, CIClose, CICloseFails, sharedVars, Accepts
  <2>2. done' = done \/ (closed # {} /\ done' \in 1..3)
    <3>1. ASSUME NEW ch \in Channels, RecvClosed(ch) PROVE closed # {} /\ done' \in 1..3
      BY <3>1 DEF TypeOK, RecvClosed
    <3>2. QED
      BY <1>2, <3>1 DEF InLoop, RecvGet, RecvPut, RecvCI, Shuffle, GetDiscard, GetReuse,
         GetCreateFails, GetCreate, CIKeep, CIEnd, CIClose, CICloseFails
  <2>3. lpc' = "get" => ~drainOnce
    BY <1>2 DEF InLoop, RecvGet, RecvPut, RecvCI, RecvClosed, Shuffle, GetDiscard, GetReuse,
       GetCreateFails, GetCreate, CIKeep, CIEnd, CIClose, CICloseFails, Accepts, Ending
  <2>4. QED
    BY <2>1, <2>2, <2>3 DEF Ending, Ended, LoopLeft
<1>3. CASE Check
  <2>1. /\ lpc = "check" /\ lpc' \in {"final", "select"}
        /\ lpc' = "final" => done = 3
        /\ UNCHANGED <<done, closed, closeCh, running, cpc>>
    BY <1>3 DEF Check, LeaveLoop
  <2>2. \/ UNCHANGED <<drainOnce, drain>>
        \/ done > 0 /\ drainOnce' = TRUE /\ drain' = (IF drainOnce THEN drain ELSE drain - 1)
    BY <1>3 DEF Check, Drained, StopDrain
  <2>3. drain \in Int /\ done \in 0..3 /\ drainOnce \in BOOLEAN
    BY DEF TypeOK
  <2>4. ("get" \in closed) \/ (~drainOnce' /\ done = 0)
    BY <2>2, <2>3 DEF Ending
  <2>5. QED
    BY <2>1, <2>2, <2>3, <2>4 DEF Ending, Ended, LoopLeft
<1>4. ASSUME NEW ok \in BOOLEAN, FinalClose(ok) PROVE Ending'
  BY <1>4 DEF FinalClose, Ending, Ended, LoopLeft, sharedVars
<1>5. CASE FinalResult
  BY <1>5 DEF FinalResult, Ending, Ended, LoopLeft
<1>6. CASE DeferDrain
  BY <1>6 DEF DeferDrain, StopDrain, Ending, Ended, LoopLeft
<1>7. CASE DeferRunning
  BY <1>7 DEF DeferRunning, Ending, Ended, LoopLeft
<1>8. ASSUME NEW c \in Closers, CloserStep(c) PROVE Ending'
  <2>1. UNCHANGED <<loopVars, closeCh, running>>
    BY <1>8 DEF CloserStep, CloseStart, CloseAdd, CloseChannel, CloseWait, CloseReturn,
       sharedVars
  <2>2. \A d \in Closers \ {c} : cpc'[d] = cpc[d]
    BY <1>8 DEF TypeOK, CloserStep, CloseStart, CloseAdd, CloseChannel, CloseWait,
       CloseReturn, GotoC
  <2>3. CASE CloseStart(c) \/ CloseAdd(c)
    <3>1. \/ cpc'[c] \in {"add", "refused"} /\ drain' = drain
          \/ cpc'[c] = "get" /\ drain' = drain + 1
      <4>1. CASE CloseStart(c)
        <5>1. cpc' = [cpc EXCEPT ![c] = "add"] \/ cpc' = [cpc EXCEPT ![c] = "refused"]
          BY <4>1 DEF CloseStart, GotoC
        <5>2. QED
          BY <4>1, <5>1 DEF TypeOK, CloseStart, sharedVars
      <4>2. CASE CloseAdd(c)
        BY <4>2 DEF TypeOK, CloseAdd, GotoC
      <4>3. QED
        BY <2>3, <4>1, <4>2
    <3>2. closed' = closed
      BY <2>3 DEF CloseStart, CloseAdd, sharedVars
    <3>3. drain \in Int
      BY DEF TypeOK
    <3>4. QED
      BY <2>1, <2>2, <3>1, <3>2, <3>3 DEF Ending, Ended, LoopLeft, loopVars
  <2>4. CASE CloseChannel(c, "get", "wait")
    BY <2>1, <2>2, <2>4 DEF TypeOK, CloseChannel, GotoC, Ending, Ended, LoopLeft, loopVars
  <2>5. CASE CloseWait(c)
    BY <2>1, <2>2, <2>5 DEF TypeOK, CloseWait, GotoC, Ending, Ended, LoopLeft, loopVars,
       sharedVars
  <2>6. CASE CloseChannel(c, "put", "ci") \/ CloseChannel(c, "ci", "recv")
    BY <2>1, <2>2, <2>6 DEF TypeOK, CloseChannel, GotoC, Ending, Ended, LoopLeft, loopVars
  <2>7. CASE CloseReturn(c)
    BY <2>1, <2>2, <2>7 DEF TypeOK, CloseReturn, GotoC, Ending, Ended, LoopLeft, loopVars,
       sharedVars
  <2>8. QED
    BY <1>8, <2>3, <2>4, <2>5, <2>6, <2>7 DEF CloserStep
<1>9. QED
  BY <1>1, <1>2, <1>3, <1>4, <1>5, <1>6, <1>7, <1>8 DEF Next, LoopStep, InLoop

LEMMA PatientKept == ASSUME TypeOK, Control, Patient, Next PROVE Patient' /\ (late => late')
<1>1. ASSUME NEW u \in Users, UserStep(u) PROVE Patient' /\ (late => late')
  <2>1. UNCHANGED <<lpc, cur>>
    BY <1>1, UserLeaves DEF loopVars
  <2>2. late' = late \/ late'
    BY <1>1 DEF UserStep, GetStart, GetPanic, GetReturn, GetTimeout, GetMake, GetMakeFails,
       GetCount, PutStart, PutRefused, PutPanic, PutTimeout, CIStart, CITimeout, CIPanic,
       objectVars
  <2>3. ~late' => \A v \in Users : pc'[v] \notin {"getMake", "getCount"}
    BY <1>1 DEF TypeOK, Patient, UserStep, GetStart, GetPanic, GetReturn, GetTimeout, GetMake,
       GetMakeFails, GetCount, PutStart, PutRefused, PutPanic, PutTimeout, CIStart, CITimeout,
       CIPanic, objectVars, Goto
  <2>4. ~late' /\ lpc = "get" => pc'[cur] = "getWait"
    <3>1. SUFFICES ASSUME ~late', lpc = "get" PROVE pc'[cur] = "getWait"
      OBVIOUS
    <3>2. cur \in Users /\ pc[cur] = "getWait" /\ reply[cur] = None
      BY <2>2, <3>1 DEF Control, Patient
    <3>3. QED
      BY <1>1, <3>1, <3>2 DEF TypeOK, UserStep, GetStart, GetPanic, GetReturn, GetTimeout,
         GetMake, GetMakeFails, GetCount, PutStart, PutRefused, PutPanic, PutTimeout, CIStart,
         CITimeout, CIPanic, objectVars, Goto
  <2>5. QED
    BY <2>1, <2>2, <2>3, <2>4 DEF Patient
<1>2. ASSUME NEW u \in Users, RecvGet(u) \/ RecvPut(u) \/ RecvCI(u)
      PROVE  Patient' /\ (late => late')
  BY <1>2 DEF TypeOK, Patient, RecvGet, RecvPut, RecvCI, Goto, objectVars
<1>3. CASE CIEnd
  BY <1>3 DEF TypeOK, Patient, CIEnd, objectVars
<1>4. ASSUME NEW ok \in BOOLEAN, GetDiscard(ok) PROVE Patient' /\ (late => late')
  BY <1>4 DEF Patient, GetDiscard, userVars
<1>5. ASSUME UNCHANGED <<pc, late>>, lpc' # "get" PROVE Patient' /\ (late => late')
  BY <1>5 DEF Patient
<1>6. ASSUME NEW ch \in Channels, RecvClosed(ch) PROVE Patient' /\ (late => late')
  BY <1>5, <1>6 DEF RecvClosed, userVars, objectVars
<1>7. CASE Shuffle \/ GetReuse \/ GetCreateFails \/ CIKeep \/ Check \/ FinalResult \/ DeferDrain
           \/ DeferRunning
  BY <1>5, <1>7 DEF Shuffle, GetReuse, GetCreateFails, CIKeep, Check, FinalResult, DeferDrain,
     DeferRunning, userVars, objectVars
<1>8. ASSUME NEW o \in Objects, GetCreate(o) PROVE Patient' /\ (late => late')
  BY <1>5, <1>8 DEF GetCreate
<1>9. ASSUME NEW b \in BOOLEAN, CIClose(b) \/ CICloseFails(b) \/ FinalClose(b)
      PROVE  Patient' /\ (late => late')
  BY <1>5, <1>9 DEF CIClose, CICloseFails, FinalClose, userVars
<1>10. ASSUME NEW c \in Closers, CloserStep(c) PROVE Patient' /\ (late => late')
  <2>1. UNCHANGED <<lpc, cur, pc, late>>
    BY <1>10 DEF CloserStep, CloseStart, CloseAdd, CloseChannel, CloseWait, CloseReturn,
       loopVars, userVars, objectVars
  <2>2. QED
    BY <2>1 DEF Patient
<1>11. QED
  BY <1>1, <1>2, <1>3, <1>4, <1>6, <1>7, <1>8, <1>9, <1>10 DEF Next, LoopStep

-----------------------------------------------------------------------------
(* The gauges                                                              *)

CountAgrees ==
    /\ outstanding >= Cardinality(InUse)
    /\ ~late => outstanding = Cardinality(InUse)
UseGauge == ~late /\ ~Ended => gauge.inUse = outstanding
IdleGauge == ~LoopLeft => gauge.idle = Len(idle) + Len(kept)

LEMMA AccountingParts == Accounting <=> CountAgrees /\ UseGauge /\ IdleGauge
BY DEF Accounting, CountAgrees, UseGauge, IdleGauge, Ended

\* A gauge that moves by d moves by d.
LEMMA GaugeMoves ==
    ASSUME TypeOK, NEW t \in Int, NEW d \in Int, NEW i \in Int, Gauge(t, d, i)
    PROVE  gauge'.inUse = gauge.inUse + d /\ gauge'.idle = gauge.idle + i
BY DEF Gauge

LEMMA UserGauges ==
    ASSUME TypeOK, NEW u \in Users, UserStep(u)
    PROVE  gauge'.inUse = gauge.inUse /\ gauge'.idle = gauge.idle
<1>1. ASSUME NEW o \in Objects, GetMake(u, o)
      PROVE  gauge'.inUse = gauge.inUse /\ gauge'.idle = gauge.idle
  <2>1. Gauge(1, 0, 0)
    BY <1>1 DEF GetMake
  <2>2. gauge.inUse \in Int /\ gauge.idle \in Int
    BY DEF TypeOK
  <2>3. QED
    BY <2>1, <2>2, GaugeMoves
<1>2. QED
  BY <1>1 DEF UserStep, GetStart, GetPanic, GetReturn, GetTimeout, GetMakeFails, GetCount,
     PutStart, PutRefused, PutPanic, PutTimeout, CIStart, CITimeout, CIPanic

\* loop() does not come back.
LEMMA EndsKept == ASSUME Next PROVE (Ended => Ended') /\ (LoopLeft => LoopLeft')
<1>1. CASE LoopStep
  BY <1>1 DEF Ended, LoopLeft, LoopStep, RecvGet, RecvPut, RecvCI, RecvClosed, Shuffle,
     GetDiscard, GetReuse, GetCreateFails, GetCreate, CIKeep, CIEnd, CIClose, CICloseFails,
     Check, FinalClose, FinalResult, DeferDrain, DeferRunning, Accepts
<1>2. ASSUME NEW u \in Users, UserStep(u) PROVE lpc' = lpc
  BY <1>2, UserLeaves DEF loopVars
<1>3. ASSUME NEW c \in Closers, CloserStep(c) PROVE lpc' = lpc
  BY <1>3 DEF CloserStep, CloseStart, CloseAdd, CloseChannel, CloseWait, CloseReturn, loopVars
<1>4. QED
  BY <1>1, <1>2, <1>3 DEF Next, Ended, LoopLeft

LEMMA UseGaugeKept ==
    ASSUME TypeOK, Control, Patient, UseGauge, Next
    PROVE  UseGauge'
<1>1. late => late'
  BY PatientKept
<1>2. Ended => Ended'
  BY EndsKept
<1>3. gauge.inUse \in Int /\ gauge.idle \in Int /\ outstanding \in Int
  BY DEF TypeOK
<1>4. ASSUME NEW d \in Int, gauge'.inUse = gauge.inUse + d, outstanding' = outstanding + d
      PROVE  UseGauge'
  BY <1>1, <1>2, <1>3, <1>4 DEF UseGauge
<1>5. ASSUME gauge'.inUse = gauge.inUse, outstanding' = outstanding
      PROVE  UseGauge'
  BY <1>1, <1>2, <1>5 DEF UseGauge
<1>6. ASSUME NEW u \in Users, UserStep(u) PROVE UseGauge'
  <2>1. CASE GetCount(u)
    BY <2>1, <1>1 DEF GetCount, Goto, Patient, UseGauge
  <2>2. CASE ~GetCount(u)
    <3>1. outstanding' = outstanding
      BY <1>6, <2>2 DEF UserStep, GetStart, GetPanic, GetReturn, GetTimeout, GetMake,
         GetMakeFails, PutStart, PutRefused, PutPanic, PutTimeout, CIStart, CITimeout,
         CIPanic, sharedVars
    <3>2. QED
      BY <3>1, <1>5, <1>6, UserGauges
  <2>3. QED
    BY <2>1, <2>2
<1>7. ASSUME NEW u \in Users, RecvPut(u) PROVE UseGauge'
  <2>1. Gauge(0, -1, 1) /\ outstanding' = outstanding + (-1)
    BY <1>3, <1>7 DEF RecvPut
  <2>2. QED
    BY <1>4, <2>1, GaugeMoves
<1>8. ASSUME GetReuse \/ \E o \in Objects : GetCreate(o) PROVE UseGauge'
  <2>1. Gauge(0, 1, -1) \/ Gauge(1, 1, 0)
    BY <1>8 DEF GetReuse, GetCreate
  <2>2. outstanding' = outstanding + 1
    BY <1>8 DEF GetReuse, GetCreate, Borrowed
  <2>3. gauge'.inUse = gauge.inUse + 1
    BY <2>1, GaugeMoves
  <2>4. QED
    BY <1>4, <2>2, <2>3
<1>9. CASE FinalResult
  BY <1>9 DEF FinalResult, UseGauge, Ended
<1>10. ASSUME NEW b \in BOOLEAN, GetDiscard(b) \/ CIClose(b) \/ CICloseFails(b) PROVE UseGauge'
  <2>1. Gauge(-1, 0, -1) \/ Gauge(-2, 0, -1) \/ Gauge(-1, 0, 0) \/ Gauge(0, 0, 0)
    BY <1>10 DEF GetDiscard, CIClose, CICloseFails
  <2>2. outstanding' = outstanding
    BY <1>10 DEF GetDiscard, CIClose, CICloseFails, sharedVars
  <2>3. gauge'.inUse = gauge.inUse
    BY <1>3, <2>1, GaugeMoves
  <2>4. QED
    BY <1>5, <2>2, <2>3
<1>11. ASSUME UNCHANGED <<gauge, outstanding>> PROVE UseGauge'
  BY <1>5, <1>11
<1>12. ASSUME NEW u \in Users, RecvGet(u) \/ RecvCI(u) PROVE UseGauge'
  BY <1>11, <1>12 DEF RecvGet, RecvCI, sharedVars
<1>13. ASSUME NEW c \in Closers, CloserStep(c) PROVE UseGauge'
  BY <1>11, <1>13 DEF CloserStep, CloseStart, CloseAdd, CloseChannel, CloseWait, CloseReturn,
     sharedVars
<1>14. ASSUME NEW ch \in Channels, RecvClosed(ch) PROVE UseGauge'
  BY <1>11, <1>14 DEF RecvClosed, sharedVars
<1>15. ASSUME NEW ok \in BOOLEAN, FinalClose(ok) PROVE UseGauge'
  BY <1>11, <1>15 DEF FinalClose, sharedVars
<1>16. CASE Shuffle \/ GetCreateFails \/ CIKeep \/ CIEnd \/ Check \/ DeferDrain \/ DeferRunning
  BY <1>11, <1>16 DEF Shuffle, GetCreateFails, CIKeep, CIEnd, Check, DeferDrain, DeferRunning,
     sharedVars
<1>17. QED
  BY <1>6, <1>7, <1>8, <1>9, <1>10, <1>12, <1>13, <1>14, <1>15, <1>16 DEF Next, LoopStep

\* How many objects the two lists of loop() hold.
Idle == Len(idle)
Kept == Len(kept)

LEMMA SameLength ==
    ASSUME NEW S, NEW s \in Seq(S), NEW t \in Seq(S), DOMAIN s = DOMAIN t
    PROVE  Len(s) = Len(t)
<1> DEFINE m == Len(s)
           n == Len(t)
<1>1. m \in Nat /\ n \in Nat /\ 1..m = 1..n
  BY LenProperties
<1> HIDE DEF m, n
<1>2. m = n
  <2>1. \A i \in Nat : i \in 1..m <=> i \in 1..n
    BY <1>1
  <2>2. (m + 1 \in 1..n) <=> m + 1 <= n
    BY <1>1
  <2>3. (n + 1 \in 1..m) <=> n + 1 <= m
    BY <1>1
  <2>4. m + 1 \notin 1..m /\ n + 1 \notin 1..n
    BY <1>1
  <2>5. QED
    BY <1>1, <2>1, <2>2, <2>3, <2>4
<1>3. QED
  BY <1>2 DEF m, n

LEMMA Lengths ==
    ASSUME TypeOK, Control, Exclusive
    PROVE  /\ Idle \in Nat /\ Kept \in Nat
           /\ idle = <<>> => Idle = 0
           /\ Pop => Idle' = Idle - 1
           /\ \A x \in Objects : idle' = Append(idle, x) => Idle' = Idle + 1
           /\ \A x \in Objects : kept' = Append(kept, x) => Kept' = Kept + 1
           /\ Shuffle => Idle' = Idle
           /\ CIEnd => Idle' = Kept /\ Kept' = 0
<1>1. idle \in Seq(Objects) /\ kept \in Seq(Objects)
  BY DEF TypeOK
<1>2. Idle \in Nat /\ Kept \in Nat
  BY <1>1, LenProperties DEF Idle, Kept
<1>3. Len(<<>>) = 0
  BY EmptySeq
<1>4. Pop => Idle' = Idle - 1
  BY <1>1, HeadTailProperties DEF Pop, Rest, Idle
<1>5. /\ \A x \in Objects : idle' = Append(idle, x) => Idle' = Idle + 1
      /\ \A x \in Objects : kept' = Append(kept, x) => Kept' = Kept + 1
  BY <1>1, AppendProperties DEF Idle, Kept
<1>6. ASSUME Shuffle PROVE Idle' = Idle
  <2>1. PICK p \in Bijection(DOMAIN idle, DOMAIN idle) :
           idle' = [i \in DOMAIN idle |-> idle[p[i]]]
    BY <1>6 DEF Shuffle
  <2>2. DOMAIN idle' = DOMAIN idle /\ idle' \in Seq(Objects)
    BY <1>6, <2>1, ShuffleFacts
  <2>3. QED
    BY <1>1, <2>2, SameLength DEF Idle
<1>7. CIEnd => Idle' = Kept /\ Kept' = 0
  BY <1>3 DEF CIEnd, Idle, Kept
<1>8. QED
  BY <1>2, <1>3, <1>4, <1>5, <1>6, <1>7 DEF Idle

LEMMA IdleGaugeKept ==
    ASSUME TypeOK, Control, Exclusive, IdleGauge, Next
    PROVE  IdleGauge'
<1>1. /\ Idle \in Nat /\ Kept \in Nat
      /\ gauge.idle \in Int
  BY Lengths DEF TypeOK
<1>2. LoopLeft => LoopLeft'
  BY EndsKept
<1>3. SUFFICES ASSUME ~LoopLeft' PROVE gauge'.idle = Idle' + Kept'
  BY DEF IdleGauge, Idle, Kept
<1>4. gauge.idle = Idle + Kept
  BY <1>2, <1>3 DEF IdleGauge, Idle, Kept
<1>5. ASSUME UNCHANGED <<idle, kept>>, gauge'.idle = gauge.idle
      PROVE  gauge'.idle = Idle' + Kept'
  <2>1. Idle' = Idle /\ Kept' = Kept
    BY <1>5 DEF Idle, Kept
  <2>2. QED
    BY <1>4, <1>5, <2>1
<1>6. ASSUME NEW u \in Users, UserStep(u) PROVE gauge'.idle = Idle' + Kept'
  BY <1>5, <1>6, UserGauges, UserLeaves DEF loopVars
<1>7. ASSUME NEW u \in Users, RecvPut(u) PROVE gauge'.idle = Idle' + Kept'
  <2>1. Gauge(0, -1, 1) /\ kept' = kept /\ arg[u] \in Objects /\ idle' = Append(idle, arg[u])
    BY <1>7 DEF RecvPut, Goto, Control
  <2>2. gauge'.idle = gauge.idle + 1
    BY <2>1, GaugeMoves
  <2>3. Idle' = Idle + 1 /\ Kept' = Kept
    BY <2>1, Lengths DEF Kept
  <2>4. QED
    BY <1>1, <1>4, <2>2, <2>3
<1>8. CASE Shuffle
  <2>1. Idle' = Idle /\ Kept' = Kept /\ gauge' = gauge
    BY <1>8, Lengths DEF Kept, Shuffle
  <2>2. QED
    BY <1>4, <2>1
\* An object leaves the list ...
<1>9. ASSUME Pop, kept' = kept, NEW t \in Int, NEW d \in Int, Gauge(t, d, -1)
      PROVE  gauge'.idle = Idle' + Kept'
  <2>1. Idle' = Idle - 1 /\ Kept' = Kept
    BY <1>9, Lengths DEF Kept
  <2>2. gauge'.idle = gauge.idle + (-1)
    BY <1>9, GaugeMoves
  <2>3. QED
    BY <1>1, <1>4, <2>1, <2>2
<1>10. ASSUME NEW b \in BOOLEAN, GetDiscard(b) \/ CIClose(b) PROVE gauge'.idle = Idle' + Kept'
  <2>1. Gauge(-1, 0, -1) \/ Gauge(-2, 0, -1)
    BY <1>10 DEF GetDiscard, CIClose
  <2>2. Pop /\ kept' = kept
    BY <1>10 DEF GetDiscard, CIClose, Pop
  <2>3. QED
    BY <1>9, <2>1, <2>2
<1>11. CASE GetReuse
  BY <1>9, <1>11 DEF GetReuse, Pop
\* ... or only the first of the two.
<1>12. ASSUME Pop, kept' = Remainder(Head(idle)), gauge'.idle = gauge.idle
       PROVE  gauge'.idle = Idle' + Kept'
  <2>1. Head(idle) \in Objects
    BY <1>12, PopFacts
  <2>2. Idle' = Idle - 1 /\ Kept' = Kept + 1
    BY <1>12, <2>1, Lengths DEF Remainder
  <2>3. QED
    BY <1>1, <1>4, <1>12, <2>2
<1>13. CASE CIKeep
  BY <1>12, <1>13 DEF CIKeep, Pop
<1>14. ASSUME NEW b \in BOOLEAN, CICloseFails(b) PROVE gauge'.idle = Idle' + Kept'
  <2>1. PICK t \in Int : Gauge(t, 0, 0)
    BY <1>14 DEF CICloseFails
  <2>2. gauge'.idle = gauge.idle + 0
    BY <2>1, GaugeMoves
  <2>3. gauge'.idle = gauge.idle
    BY <1>1, <2>2
  <2>4. QED
    BY <1>12, <1>14, <2>3 DEF CICloseFails, Pop
<1>15. CASE CIEnd
  <2>1. Idle' = Kept /\ Kept' = 0 /\ gauge' = gauge /\ Idle = 0
    BY <1>15, Lengths DEF CIEnd
  <2>2. QED
    BY <1>1, <1>4, <2>1
<1>16. ASSUME NEW o \in Objects, GetCreate(o) PROVE gauge'.idle = Idle' + Kept'
  <2>1. Gauge(1, 1, 0) /\ UNCHANGED <<idle, kept>>
    BY <1>16 DEF GetCreate
  <2>2. gauge'.idle = gauge.idle + 0
    BY <2>1, GaugeMoves
  <2>3. gauge'.idle = gauge.idle
    BY <1>1, <2>2
  <2>4. QED
    BY <1>5, <2>1, <2>3
<1>17. ASSUME NEW u \in Users, RecvGet(u) \/ RecvCI(u) PROVE gauge'.idle = Idle' + Kept'
  BY <1>5, <1>17 DEF RecvGet, RecvCI
<1>18. ASSUME NEW ch \in Channels, RecvClosed(ch) PROVE gauge'.idle = Idle' + Kept'
  BY <1>5, <1>18 DEF RecvClosed
<1>19. CASE GetCreateFails \/ Check
  BY <1>5, <1>19 DEF GetCreateFails, Check
<1>20. ASSUME NEW c \in Closers, CloserStep(c) PROVE gauge'.idle = Idle' + Kept'
  BY <1>5, <1>20 DEF CloserStep, CloseStart, CloseAdd, CloseChannel, CloseWait, CloseReturn,
     loopVars
<1>21. ASSUME FinalResult \/ DeferDrain \/ DeferRunning \/ \E ok \in BOOLEAN : FinalClose(ok)
       PROVE  LoopLeft'
  BY <1>21 DEF FinalResult, DeferDrain, DeferRunning, FinalClose, LoopLeft
<1>22. QED
  BY <1>3, <1>6, <1>7, <1>8, <1>10, <1>11, <1>13, <1>14, <1>15, <1>16, <1>17, <1>18, <1>19,
     <1>20, <1>21 DEF Next, LoopStep

-----------------------------------------------------------------------------
(* What a step does to the objects in use and to their count               *)

InUseMoves ==
    \/ InUse' = InUse /\ outstanding' = outstanding
    \/ late' /\ InUse' \subseteq InUse /\ outstanding' \in {outstanding, outstanding + 1}
    \/ \E o \in Objects \ InUse : /\ InUse' = InUse \cup {o} /\ outstanding' = outstanding + 1
                                  /\ late' \/ lpc = "get"
    \/ \E o \in InUse : InUse' = InUse \ {o} /\ outstanding' = outstanding - 1

LEMMA UseOf ==
    ASSUME NEW u \in Users, \A v \in Users \ {u} : Counted(v)' = Counted(v)
    PROVE  /\ Counted(u)' = Counted(u) => InUse' = InUse
           /\ Counted(u)' \subseteq Counted(u) => InUse' \subseteq InUse
           /\ \A o : Counted(u)' = Counted(u) \cup {o} => InUse' = InUse \cup {o}
           /\ \A o : /\ Counted(u)' = Counted(u) \ {o}
                     /\ \A v \in Users \ {u} : o \notin Counted(v)
                     => InUse' = InUse \ {o}
<1>1. \A x : x \in InUse <=> \E v \in Users : x \in Counted(v)
  BY DEF InUse
<1>2. \A x : x \in InUse' <=> \E v \in Users : x \in Counted(v)'
  BY DEF InUse
<1>3. \A x : x \in InUse <=> x \in Counted(u) \/ \E v \in Users \ {u} : x \in Counted(v)
  BY <1>1
<1>4. \A x : x \in InUse' <=> x \in Counted(u)' \/ \E v \in Users \ {u} : x \in Counted(v)
  BY <1>2
<1>5. QED
  BY <1>3, <1>4

LEMMA AllCounted ==
    ASSUME \A v \in Users : Counted(v)' = Counted(v)
    PROVE  InUse' = InUse
BY DEF InUse

\* InUse is a set of objects that were made, and nobody else has what u has.
LEMMA InUseFacts ==
    ASSUME TypeOK, Placed
    PROVE  /\ InUse \subseteq made /\ InUse \subseteq Objects
           /\ \A u \in Users : /\ Counted(u) \subseteq Owned(u) /\ Counted(u) \subseteq InUse
                               /\ \A o \in Owned(u) : /\ o \notin Stock
                                                      /\ \A v \in Users \ {u} : o \notin Counted(v)
<1>1. \A u \in Users : Counted(u) \subseteq Owned(u) /\ Counted(u) \subseteq InUse
  BY DEF Counted, InUse
<1>2. InUse \subseteq made
  BY <1>1 DEF InUse, Placed, Known
<1>3. QED
  BY <1>1, <1>2 DEF TypeOK, Placed, Exclusive

\* The steps of the users.
LEMMA UserUse ==
    ASSUME TypeOK, Control, Placed, Patient, Ending, Settled, Found, NEW u \in Users,
           UserStep(u)
    PROVE  InUseMoves /\ Found'
<1> USE PoolAssumption
<1>1. /\ arg[u] \in Objects \cup {None} /\ reply[u] \in Objects \cup {None, Failure}
      /\ arg[u] = None \/ reply[u] = None
      /\ {arg[u], reply[u]} \cap held[u] = {} /\ held[u] \subseteq Objects
      /\ Owned(u) = held[u] \cup ({arg[u], reply[u]} \cap Objects)
      /\ Counted(u) = IF pc[u] = "getCount" THEN Owned(u) \ {arg[u]} ELSE Owned(u)
  BY DEF TypeOK, Control, Placed, Exclusive, Owned, Counted
<1>2. /\ Owned(u)' = held'[u] \cup ({arg'[u], reply'[u]} \cap Objects)
      /\ Counted(u)' = IF pc'[u] = "getCount" THEN Owned(u)' \ {arg'[u]} ELSE Owned(u)'
  BY DEF Owned, Counted
<1>3. Stock' = Stock
  BY UserLeaves DEF Stock, loopVars
<1>4. \A v \in Users \ {u} : /\ pc'[v] = pc[v] /\ arg'[v] = arg[v]
                             /\ reply'[v] = reply[v] /\ held'[v] = held[v]
  BY DEF TypeOK, UserStep, GetStart, GetPanic, GetReturn, GetTimeout, GetMake, GetMakeFails,
     GetCount, PutStart, PutRefused, PutPanic, PutTimeout, CIStart, CITimeout, CIPanic, Goto
<1>5. \A v \in Users \ {u} : Counted(v)' = Counted(v)
  BY <1>4 DEF Counted, Owned
\* A user's step that counts as before, or comes after a timeout.
<1>6. ASSUME Counted(u)' = Counted(u), outstanding' = outstanding,
             made' = made \/ late', tried \subseteq tried', late => late'
      PROVE  InUseMoves /\ Found'
  <2>1. InUse' = InUse
    BY <1>5, <1>6, UseOf
  <2>2. QED
    BY <1>3, <1>6, <2>1 DEF InUseMoves, Found
<1>7. ASSUME late', Counted(u)' \subseteq Counted(u), outstanding' = outstanding
      PROVE  InUseMoves /\ Found'
  <2>1. InUse' \subseteq InUse
    BY <1>5, <1>7, UseOf
  <2>2. QED
    BY <1>7, <2>1 DEF InUseMoves, Found
<1>8. CASE GetStart(u) \/ GetPanic(u) \/ GetMakeFails(u) \/ CIStart(u) \/ CITimeout(u) \/ CIPanic(u)
  <2>1. /\ UNCHANGED <<outstanding, arg, reply, held, made, tried>>
        /\ late => late'
    BY <1>8 DEF GetStart, GetPanic, GetMakeFails, CIStart, CITimeout, CIPanic, sharedVars,
       objectVars
  <2>2. pc[u] # "getCount" /\ pc'[u] # "getCount"
    BY <1>8 DEF TypeOK, GetStart, GetPanic, GetMakeFails, CIStart, CITimeout, CIPanic, Goto
  <2>3. Counted(u)' = Counted(u)
    BY <1>1, <1>2, <2>1, <2>2
  <2>4. QED
    BY <1>6, <2>1, <2>3
<1>9. CASE GetReturn(u)
  <2>1. /\ UNCHANGED <<outstanding, arg, made, tried, late>>
        /\ pc[u] = "getWait" /\ pc'[u] = "out"
        /\ reply'[u] = None /\ held'[u] = held[u] \cup Received(u)
    BY <1>9 DEF TypeOK, GetReturn, Goto, sharedVars, objectVars
  <2>2. arg[u] = None
    BY <1>1, <1>9 DEF GetReturn
  <2>3. Counted(u)' = Counted(u)
    BY <1>1, <1>2, <2>1, <2>2 DEF Received
  <2>4. QED
    BY <1>6, <2>1, <2>3
<1>10. CASE GetTimeout(u)
  <2>1. /\ UNCHANGED <<outstanding, arg, held>> /\ late'
        /\ pc[u] # "getCount" /\ pc'[u] # "getCount" /\ reply'[u] = None
    BY <1>10 DEF TypeOK, GetTimeout, Goto, sharedVars
  <2>2. Counted(u)' \subseteq Counted(u)
    BY <1>1, <1>2, <2>1
  <2>3. QED
    BY <1>7, <2>1, <2>2
<1>11. ASSUME NEW o \in Objects, GetMake(u, o) PROVE InUseMoves /\ Found'
  <2>1. /\ UNCHANGED <<outstanding, reply, held, tried, late>> /\ o \notin made
        /\ pc[u] = "getMake" /\ pc'[u] = "getCount" /\ arg'[u] = o
    BY <1>11 DEF TypeOK, GetMake, Make, Goto, sharedVars
  <2>2. o \notin Owned(u) /\ arg[u] = None
    BY <1>1, <2>1 DEF Placed, Known, Control
  <2>3. Counted(u)' = Counted(u)
    BY <1>1, <1>2, <2>1, <2>2
  <2>4. late
    BY <2>1 DEF Patient
  <2>5. QED
    BY <1>6, <2>1, <2>3, <2>4
<1>12. CASE GetCount(u)
  <2>1. /\ outstanding' = outstanding + 1 /\ UNCHANGED <<reply, late>>
        /\ pc[u] = "getCount" /\ pc'[u] = "out" /\ arg'[u] = None
        /\ held'[u] = held[u] \cup {arg[u]}
    BY <1>12 DEF TypeOK, GetCount, Borrowed, Goto, objectVars
  <2>2. arg[u] \in Objects /\ late /\ arg[u] \in Owned(u)
    BY <1>1, <2>1 DEF Control, Patient
  <2>3. Counted(u)' = Counted(u) \cup {arg[u]}
    BY <1>1, <1>2, <2>1, <2>2
  <2>4. InUse' = InUse \cup {arg[u]}
    BY <1>5, <2>3, UseOf
  <2>5. arg[u] \notin Counted(u) /\ \A v \in Users \ {u} : arg[u] \notin Counted(v)
    BY <1>1, <2>1, <2>2, InUseFacts
  <2>6. arg[u] \in Objects \ InUse
    BY <2>2, <2>5 DEF InUse
  <2>7. QED
    BY <2>1, <2>2, <2>4, <2>6 DEF InUseMoves, Found
<1>13. ASSUME NEW o \in Objects, PutStart(u, o) PROVE InUseMoves /\ Found'
  <2>1. /\ UNCHANGED <<outstanding, reply, made, tried, late>> /\ o \in held[u]
        /\ pc[u] = "out" /\ pc'[u] = "putSend" /\ arg'[u] = o /\ held'[u] = held[u] \ {o}
    BY <1>13 DEF TypeOK, PutStart, Goto, sharedVars, objectVars
  <2>2. arg[u] = None
    BY <1>1, <2>1 DEF Control
  <2>3. Counted(u)' = Counted(u)
    BY <1>1, <1>2, <2>1, <2>2
  <2>4. QED
    BY <1>6, <2>1, <2>3
\* An object is given up only when the pool is over, or after a timeout.
<1>14. ASSUME NEW o \in Objects, PutRefused(u, o) PROVE InUseMoves /\ Found'
  <2>1. /\ UNCHANGED <<outstanding, pc, arg, reply, late>> /\ o \in held[u] /\ ~running
        /\ pc[u] = "out" /\ held'[u] = held[u] \ {o}
    BY <1>14 DEF TypeOK, PutRefused, sharedVars, objectVars
  <2>2. Counted(u)' \subseteq Counted(u) /\ o \in Counted(u)
    BY <1>1, <1>2, <2>1
  <2>3. late
    BY <2>1, <2>2, InUseFacts DEF Ending, Settled, LoopLeft
  <2>4. QED
    BY <1>7, <2>1, <2>2, <2>3
<1>15. CASE PutPanic(u)
  <2>1. /\ UNCHANGED <<outstanding, reply, held, late>> /\ "put" \in closed
        /\ pc[u] = "putSend" /\ pc'[u] = "out" /\ arg'[u] = None
    BY <1>15 DEF TypeOK, PutPanic, Goto, sharedVars, objectVars
  <2>2. arg[u] \in Objects /\ arg[u] \in Counted(u) /\ Counted(u)' \subseteq Counted(u)
    BY <1>1, <1>2, <2>1 DEF Control
  <2>3. late
    BY <2>1, <2>2, InUseFacts DEF Ending, Settled
  <2>4. QED
    BY <1>7, <2>1, <2>2, <2>3
<1>16. ASSUME NEW ok \in BOOLEAN, PutTimeout(u, ok) PROVE InUseMoves /\ Found'
  <2>1. /\ UNCHANGED <<outstanding, reply, held>> /\ late'
        /\ pc[u] = "putSend" /\ pc'[u] = "out" /\ arg'[u] = None
    BY <1>16 DEF TypeOK, PutTimeout, Goto, sharedVars
  <2>2. Counted(u)' \subseteq Counted(u)
    BY <1>1, <1>2, <2>1
  <2>3. QED
    BY <1>7, <2>1, <2>2
<1>17. QED
  BY <1>8, <1>9, <1>10, <1>11, <1>12, <1>13, <1>14, <1>15, <1>16 DEF UserStep

\* The answer to a Get: the object is in use from now on, if anybody waits for it.
LEMMA AnswerUse ==
    ASSUME TypeOK, Control, Placed, Patient, lpc = "get", NEW x \in Objects, x \notin InUse,
           Answer(x), UNCHANGED <<pc, arg, held, late>>, outstanding' = outstanding + 1
    PROVE  InUseMoves /\ (~late' => InUse' = InUse \cup {x})
<1>1. CASE pc[cur] # "getWait"
  <2>1. \A v \in Users : Counted(v)' = Counted(v)
    BY <1>1 DEF Answer, Counted, Owned
  <2>2. late
    BY <1>1 DEF Patient
  <2>3. QED
    BY <2>1, <2>2, AllCounted DEF InUseMoves
<1>2. CASE pc[cur] = "getWait"
  <2>1. PICK c \in Users : c = cur /\ reply' = [reply EXCEPT ![c] = x] /\ reply[c] = None
    BY <1>2 DEF Answer, Control
  <2>2. reply'[c] = x /\ \A v \in Users \ {c} : reply'[v] = reply[v]
    BY <2>1 DEF TypeOK
  <2>3. \A v \in Users \ {c} : Counted(v)' = Counted(v)
    BY <2>2 DEF Counted, Owned
  <2>4. pc[c] = "getWait" /\ pc'[c] = "getWait" /\ None \notin Objects
    BY <1>2, <2>1, PoolAssumption
  <2>5. Counted(c)' = Counted(c) \cup {x}
    BY <2>1, <2>2, <2>4 DEF Counted, Owned
  <2>6. InUse' = InUse \cup {x}
    BY <2>3, <2>5, UseOf
  <2>7. QED
    BY <2>6 DEF InUseMoves
<1>3. QED
  BY <1>1, <1>2

\* The steps of loop() and of Close that leave alone what the users have.
LEMMA QuietUse ==
    ASSUME TypeOK, \/ LoopStep /\ UNCHANGED <<arg, reply, held>>
                   \/ \E c \in Closers : CloserStep(c)
    PROVE  InUse' = InUse
<1>1. \A v \in Users : /\ arg'[v] = arg[v] /\ reply'[v] = reply[v] /\ held'[v] = held[v]
                       /\ pc'[v] = "getCount" <=> pc[v] = "getCount"
  <2>1. CASE \E c \in Closers : CloserStep(c)
    BY <2>1 DEF CloserStep, CloseStart, CloseAdd, CloseChannel, CloseWait, CloseReturn, userVars
  <2>2. CASE LoopStep /\ UNCHANGED <<arg, reply, held>>
    <3>1. ASSUME NEW u \in Users, RecvGet(u) \/ RecvPut(u) \/ RecvCI(u)
          PROVE  \A v \in Users : pc'[v] = "getCount" <=> pc[v] = "getCount"
      BY <3>1 DEF TypeOK, RecvGet, RecvPut, RecvCI, Goto
    <3>2. ASSUME CIEnd
          PROVE  \A v \in Users : pc'[v] = "getCount" <=> pc[v] = "getCount"
      BY <3>2 DEF TypeOK, CIEnd
    <3>3. \/ pc' = pc \/ CIEnd
          \/ \E u \in Users : RecvGet(u) \/ RecvPut(u) \/ RecvCI(u)
      BY <2>2 DEF LoopStep, RecvClosed, Shuffle, GetDiscard, GetReuse, GetCreateFails,
         GetCreate, CIKeep, CIClose, CICloseFails, Check, FinalClose, FinalResult, DeferDrain,
         DeferRunning, userVars
    <3>4. QED
      BY <2>2, <3>1, <3>2, <3>3
  <2>3. QED
    BY <2>1, <2>2
<1>2. \A v \in Users : Counted(v)' = Counted(v)
  BY <1>1 DEF Counted, Owned
<1>3. QED
  BY <1>2, AllCounted

\* The steps of loop() and of Close.
LEMMA LoopUse ==
    ASSUME TypeOK, Control, Placed, Patient, Found,
           LoopStep \/ \E c \in Closers : CloserStep(c)
    PROVE  InUseMoves /\ Found'
<1> USE PoolAssumption
<1>1. Exclusive
  BY DEF Placed
<1>2. late => late'
  BY DEF LoopStep, CloserStep, RecvGet, RecvPut, RecvCI, RecvClosed, Shuffle, GetDiscard,
     GetReuse, GetCreateFails, GetCreate, CIKeep, CIEnd, CIClose, CICloseFails, Check,
     FinalClose, FinalResult, DeferDrain, DeferRunning, CloseStart, CloseAdd, CloseChannel,
     CloseWait, CloseReturn, objectVars
\* Steps that change nothing in use, but for objects that are closed.
<1>3. ASSUME InUse' = InUse, outstanding' = outstanding, made' = made, tried \subseteq tried',
             Stock \subseteq Stock' \cup tried'
      PROVE  InUseMoves /\ Found'
  BY <1>2, <1>3 DEF InUseMoves, Found
<1>4. ASSUME NEW u \in Users, RecvGet(u) \/ RecvCI(u) PROVE InUseMoves /\ Found'
  <2>1. UNCHANGED <<idle, kept, arg, reply, held, outstanding, made, tried>>
    BY <1>4 DEF RecvGet, RecvCI, sharedVars, objectVars
  <2>2. InUse' = InUse
    BY <1>4, <2>1, QuietUse DEF LoopStep
  <2>3. QED
    BY <1>3, <2>1, <2>2 DEF Stock
<1>5. ASSUME NEW u \in Users, RecvPut(u) PROVE InUseMoves /\ Found'
  <2>1. /\ arg[u] \in Objects /\ arg[u] \in Owned(u)
        /\ Range(idle') = Range(idle) \cup {arg[u]}
    BY <1>5, PutFacts
  <2>2. /\ UNCHANGED <<kept, reply, held, made, tried, late>> /\ outstanding' = outstanding - 1
        /\ pc[u] = "putSend" /\ pc'[u] = "out" /\ arg'[u] = None
        /\ \A v \in Users \ {u} : pc'[v] = pc[v] /\ arg'[v] = arg[v]
    BY <1>5 DEF TypeOK, RecvPut, Goto, objectVars
  <2>3. \A v \in Users \ {u} : Counted(v)' = Counted(v)
    BY <2>2 DEF Counted, Owned
  <2>4. arg[u] \notin held[u] /\ reply[u] = None
    BY <2>2 DEF Placed, Exclusive, Control
  <2>5. Counted(u)' = Counted(u) \ {arg[u]} /\ arg[u] \in Counted(u)
    BY <2>1, <2>2, <2>4 DEF Counted, Owned
  <2>6. InUse' = InUse \ {arg[u]} /\ arg[u] \in InUse
    BY <2>1, <2>3, <2>5, UseOf, InUseFacts
  <2>7. Stock' = Stock \cup {arg[u]}
    BY <2>1, <2>2 DEF Stock
  <2>8. QED
    BY <2>2, <2>6, <2>7 DEF InUseMoves, Found
<1>6. CASE Shuffle
  <2>1. UNCHANGED <<kept, arg, reply, held, outstanding, made, tried>>
    BY <1>6 DEF Shuffle, sharedVars, userVars, objectVars
  <2>2. InUse' = InUse
    BY <1>6, <2>1, QuietUse DEF LoopStep
  <2>3. QED
    BY <1>1, <1>3, <1>6, <2>1, <2>2, ShuffleFacts DEF Stock
\* An object leaves the pool: it was closed, or stays in the other list.
<1>7. ASSUME NEW b \in BOOLEAN, GetDiscard(b) \/ FinalClose(b) \/ CIClose(b)
      PROVE  InUseMoves /\ Found'
  <2>1. /\ UNCHANGED <<kept, arg, reply, held, outstanding, made>> /\ Pop
        /\ tried' = tried \cup {Head(idle)}
    BY <1>7 DEF GetDiscard, FinalClose, CIClose, CallClose, Pop, sharedVars, userVars
  <2>2. Range(idle') = Range(idle) \ {Head(idle)}
    BY <1>1, <2>1, PopFacts
  <2>3. InUse' = InUse
    BY <1>7, <2>1, QuietUse DEF LoopStep
  <2>4. Stock \subseteq Stock' \cup tried'
    BY <2>1, <2>2 DEF Stock
  <2>5. QED
    BY <1>3, <2>1, <2>3, <2>4
<1>8. ASSUME CIKeep \/ \E b \in BOOLEAN : CICloseFails(b) PROVE InUseMoves /\ Found'
  <2>1. /\ UNCHANGED <<arg, reply, held, outstanding, made>> /\ Pop
        /\ kept' = Remainder(Head(idle)) /\ tried \subseteq tried'
    BY <1>8 DEF CIKeep, CICloseFails, CallClose, Pop, sharedVars, userVars, objectVars
  <2>2. /\ Range(idle') = Range(idle) \ {Head(idle)}
        /\ Range(kept') = Range(kept) \cup {Head(idle)}
    BY <1>1, <2>1, PopFacts, KeepFacts
  <2>3. InUse' = InUse
    BY <1>8, <2>1, QuietUse DEF LoopStep
  <2>4. Stock \subseteq Stock'
    BY <2>2 DEF Stock
  <2>5. QED
    BY <1>3, <2>1, <2>3, <2>4
<1>9. CASE CIEnd
  <2>1. /\ UNCHANGED <<arg, reply, held, outstanding, made, tried>>
        /\ idle = <<>> /\ idle' = kept
    BY <1>9 DEF CIEnd, sharedVars, objectVars
  <2>2. Range(idle) = {}
    BY <2>1 DEF Range
  <2>3. InUse' = InUse
    BY <1>9, <2>1, QuietUse DEF LoopStep
  <2>4. Stock \subseteq Stock'
    BY <2>1, <2>2 DEF Stock
  <2>5. QED
    BY <1>3, <2>1, <2>3, <2>4
<1>10. CASE GetReuse
  <2>1. /\ UNCHANGED <<kept, pc, arg, held, made, tried, late>> /\ Pop /\ lpc = "get"
        /\ Answer(Head(idle)) /\ outstanding' = outstanding + 1
    BY <1>10 DEF GetReuse, Pop, Borrowed, objectVars
  <2>2. /\ Head(idle) \in Objects /\ Head(idle) \in Range(idle)
        /\ Range(idle') = Range(idle) \ {Head(idle)}
    BY <1>1, <2>1, PopFacts
  <2>3. Head(idle) \notin InUse /\ Stock \subseteq Stock' \cup {Head(idle)}
    <3>1. Head(idle) \in Stock
      BY <2>2 DEF Stock
    <3>2. \A v \in Users : Head(idle) \notin Counted(v)
      BY <3>1, InUseFacts
    <3>3. QED
      BY <2>1, <2>2, <3>2 DEF Stock, InUse
  <2>4. InUseMoves /\ (~late' => InUse' = InUse \cup {Head(idle)})
    BY <2>1, <2>2, <2>3, AnswerUse
  <2>5. Found'
    BY <2>1, <2>3, <2>4 DEF Found
  <2>6. QED
    BY <2>4, <2>5
<1>11. ASSUME NEW o \in Objects, GetCreate(o) PROVE InUseMoves /\ Found'
  <2>1. /\ UNCHANGED <<idle, kept, pc, arg, held, tried, late>> /\ lpc = "get"
        /\ Answer(o) /\ outstanding' = outstanding + 1
        /\ o \notin made /\ made' = made \cup {o}
    BY <1>11 DEF GetCreate, Make, Borrowed
  <2>2. o \notin InUse
    BY <2>1, InUseFacts
  <2>3. InUseMoves /\ (~late' => InUse' = InUse \cup {o})
    BY <2>1, <2>2, AnswerUse
  <2>4. Stock' = Stock
    BY <2>1 DEF Stock
  <2>5. Found'
    BY <2>1, <2>3, <2>4 DEF Found
  <2>6. QED
    BY <2>3, <2>5
<1>12. CASE GetCreateFails
  <2>1. /\ UNCHANGED <<idle, kept, pc, arg, held, outstanding, made, tried>>
        /\ Answer(Failure) /\ lpc = "get"
    BY <1>12 DEF GetCreateFails, sharedVars, objectVars
  <2>2. \A v \in Users : reply'[v] = reply[v] \/ (reply[v] = None /\ reply'[v] = Failure)
    BY <2>1 DEF Answer, Control, TypeOK
  <2>3. \A v \in Users : Counted(v)' = Counted(v)
    BY <2>1, <2>2 DEF Counted, Owned
  <2>4. QED
    BY <1>3, <2>1, <2>3, AllCounted DEF Stock
\* Steps that touch no object.
<1>13. ASSUME \/ \E ch \in Channels : RecvClosed(ch)
              \/ Check \/ FinalResult \/ DeferDrain \/ DeferRunning
       PROVE  InUseMoves /\ Found'
  <2>1. UNCHANGED <<idle, kept, arg, reply, held, outstanding, made, tried>>
    BY <1>13 DEF RecvClosed, Check, FinalResult, DeferDrain, DeferRunning, sharedVars, userVars,
       objectVars
  <2>2. InUse' = InUse
    BY <1>13, <2>1, QuietUse DEF LoopStep
  <2>3. QED
    BY <1>3, <2>1, <2>2 DEF Stock
<1>14. ASSUME \E c \in Closers : CloserStep(c) PROVE InUseMoves /\ Found'
  <2>1. UNCHANGED <<idle, kept, outstanding, made, tried>>
    BY <1>14 DEF CloserStep, CloseStart, CloseAdd, CloseChannel, CloseWait, CloseReturn,
       loopVars, sharedVars, objectVars
  <2>2. InUse' = InUse
    BY <1>14, QuietUse
  <2>3. QED
    BY <1>3, <2>1, <2>2 DEF Stock
<1>15. QED
  BY <1>4, <1>5, <1>6, <1>7, <1>8, <1>9, <1>10, <1>11, <1>12, <1>13, <1>14 DEF LoopStep

-----------------------------------------------------------------------------
(* The count, and the end                                                  *)

LEMMA CountKept ==
    ASSUME TypeOK, Placed, CountAgrees, InUseMoves, late => late'
    PROVE  CountAgrees'
<1> USE PoolAssumption
<1>1. IsFiniteSet(InUse)
  BY InUseFacts, FS_Subset
<1> DEFINE n == Cardinality(InUse)
           m == Cardinality(InUse')
<1>2. n \in Nat /\ outstanding \in Int
  BY <1>1, FS_CardinalityType DEF TypeOK
<1>3. outstanding >= n /\ (~late => outstanding = n)
  BY DEF CountAgrees
<1>4. (outstanding' >= m /\ (~late' => outstanding' = m)) => CountAgrees'
  BY DEF CountAgrees
<1>5. CASE InUse' = InUse /\ outstanding' = outstanding
  BY <1>3, <1>4, <1>5
<1>6. CASE late' /\ InUse' \subseteq InUse /\ outstanding' \in {outstanding, outstanding + 1}
  <2>1. m \in Nat /\ m <= n
    BY <1>1, <1>6, FS_Subset, FS_CardinalityType
  <2> HIDE DEF n, m
  <2>2. outstanding' >= m
    BY <1>2, <1>3, <1>6, <2>1
  <2>3. QED
    BY <1>4, <1>6, <2>2
<1>7. ASSUME NEW o \in Objects \ InUse, InUse' = InUse \cup {o}, outstanding' = outstanding + 1
      PROVE  CountAgrees'
  <2>1. m = n + 1
    BY <1>1, <1>7, FS_AddElement
  <2> HIDE DEF n, m
  <2>2. outstanding' >= m /\ (outstanding = n => outstanding' = m)
    BY <1>2, <1>3, <1>7, <2>1
  <2>3. QED
    BY <1>3, <1>4, <2>2
<1>8. ASSUME NEW o \in InUse, InUse' = InUse \ {o}, outstanding' = outstanding - 1
      PROVE  CountAgrees'
  <2>1. m = n - 1
    BY <1>1, <1>8, FS_RemoveElement
  <2> HIDE DEF n, m
  <2>2. outstanding' >= m /\ (outstanding = n => outstanding' = m)
    BY <1>2, <1>3, <1>8, <2>1
  <2>3. QED
    BY <1>3, <1>4, <2>2
<1>9. QED
  BY <1>5, <1>6, <1>7, <1>8 DEF InUseMoves

\* What loop() sees when it reports that all objects are back, or leaves.
LEMMA NoneInUse ==
    ASSUME TypeOK, Placed, CountAgrees, outstanding <= 0
    PROVE  InUse = {}
<1>1. IsFiniteSet(InUse)
  BY InUseFacts, FS_Subset, PoolAssumption
<1> DEFINE n == Cardinality(InUse)
<1>2. n \in Nat /\ outstanding \in Int /\ outstanding >= n
  BY <1>1, FS_CardinalityType DEF TypeOK, CountAgrees
<1>3. n = 0 => InUse = {}
  BY <1>1, FS_EmptySet
<1> HIDE DEF n
<1>4. QED
  BY <1>2, <1>3

LEMMA SettledKept ==
    ASSUME TypeOK, Placed, CountAgrees, Ending, Settled, InUseMoves, late => late', Next
    PROVE  Settled'
<1>1. SUFFICES ASSUME ~late', drainOnce' \/ LoopLeft' PROVE InUse' = {}
  BY DEF Settled
<1>2. ~late
  BY <1>1
<1>3. CASE drainOnce \/ LoopLeft
  <2>1. InUse = {} /\ lpc # "get"
    BY <1>2, <1>3 DEF Settled, Ending, LoopLeft
  <2>2. QED
    BY <1>1, <2>1 DEF InUseMoves
<1>4. CASE ~drainOnce /\ ~LoopLeft
  <2>1. Check
    <3>1. ~ \E u \in Users : UserStep(u)
      BY <1>1, <1>4, UserLeaves DEF loopVars, LoopLeft
    <3>2. ~ \E c \in Closers : CloserStep(c)
      BY <1>1, <1>4 DEF CloserStep, CloseStart, CloseAdd, CloseChannel, CloseWait, CloseReturn,
         loopVars, LoopLeft
    <3>3. ~InLoop
      <4>1. InLoop => drainOnce' = drainOnce /\ lpc' \in {"select", "get", "ci", "check"}
        BY DEF InLoop, RecvGet, RecvPut, RecvCI, RecvClosed, Shuffle, GetDiscard, GetReuse,
           GetCreateFails, GetCreate, CIKeep, CIEnd, CIClose, CICloseFails
      <4>2. QED
        BY <1>1, <1>4, <4>1 DEF LoopLeft
    <3>4. ~ (FinalResult \/ DeferDrain \/ DeferRunning \/ \E ok \in BOOLEAN : FinalClose(ok))
      BY <1>4 DEF FinalResult, DeferDrain, DeferRunning, FinalClose, LoopLeft
    <3>5. QED
      BY <3>1, <3>2, <3>3, <3>4 DEF Next, LoopStep, InLoop
  <2>2. outstanding <= 0
    <3>1. Drained \/ LeaveLoop
      BY <1>1, <1>4, <2>1 DEF Check, LoopLeft
    <3>2. QED
      BY <3>1 DEF Drained, LeaveLoop
  <2>3. InUse = {}
    BY <2>2, NoneInUse
  <2>4. InUse' = InUse
    BY <2>1, QuietUse DEF Check, LoopStep, userVars
  <2>5. QED
    BY <2>3, <2>4
<1>5. QED
  BY <1>3, <1>4

-----------------------------------------------------------------------------
(* The theorems                                                            *)

LEMMA InitBooks == Init => Books
<1> SUFFICES ASSUME Init PROVE Books
  OBVIOUS
<1>1. IInv
  BY InitIInv
<1>2. Patient /\ Ending
  BY DEF Init, Patient, Ending, Ended, LoopLeft
<1>3. InUse = {}
  BY PoolAssumption DEF Init, InUse, Counted, Owned
<1>4. CountAgrees
  BY <1>3, FS_EmptySet DEF Init, CountAgrees
<1>5. UseGauge
  BY DEF Init, UseGauge
<1>6. IdleGauge
  <2>1. Idle = 0 /\ Kept = 0
    BY EmptySeq DEF Init, Idle, Kept
  <2>2. gauge.idle = Idle + Kept
    BY <2>1 DEF Init
  <2>3. QED
    BY <2>2 DEF IdleGauge, Idle, Kept
<1>7. Settled /\ Found
  BY <1>3 DEF Init, Settled, Found
<1>8. QED
  BY <1>1, <1>2, <1>4, <1>5, <1>6, <1>7, AccountingParts DEF Books

LEMMA NextBooks == Books /\ [Next]_vars => Books'
<1> SUFFICES ASSUME Books, [Next]_vars PROVE Books'
  OBVIOUS
<1>1. /\ TypeOK /\ Control /\ Placed /\ Exclusive /\ IInv
      /\ CountAgrees /\ UseGauge /\ IdleGauge
  BY AccountingParts DEF Books, IInv, Placed
<1>2. Patient /\ Ending /\ Settled /\ Found
  BY DEF Books
<1>3. IInv'
  BY <1>1, NextIInv
<1>4. CASE Next
  <2>1. Ending' /\ Patient' /\ (late => late')
    BY <1>1, <1>2, <1>4, EndingKept, PatientKept
  <2>2. InUseMoves /\ Found'
    BY <1>1, <1>2, <1>4, UserUse, LoopUse DEF Next
  <2>3. CountAgrees' /\ UseGauge' /\ IdleGauge'
    BY <1>1, <1>2, <1>4, <2>1, <2>2, CountKept, UseGaugeKept, IdleGaugeKept
  <2>4. Settled'
    BY <1>1, <1>2, <1>4, <2>1, <2>2, SettledKept
  <2>5. Accounting'
    BY <2>3 DEF Accounting, CountAgrees, UseGauge, IdleGauge, Ended
  <2>6. QED
    BY <1>3, <2>1, <2>2, <2>4, <2>5 DEF Books
<1>5. CASE UNCHANGED vars
  <2>1. UNCHANGED <<lpc, cur, idle, kept, done, drainOnce, closed, drain, closeCh, outstanding,
                    running, gauge, pc, arg, reply, held, cpc, made, tried, late>>
    BY <1>5 DEF vars, loopVars, sharedVars, userVars, objectVars
  <2>2. Stock' = Stock /\ InUse' = InUse
    BY <2>1, AllCounted DEF Stock, Counted, Owned
  <2>3. Patient' /\ Ending' /\ Settled' /\ Found'
    BY <1>2, <2>1, <2>2 DEF Patient, Ending, Settled, Found, Ended, LoopLeft
  <2>4. Accounting'
    <3>1. Accounting
      BY DEF Books
    <3>2. QED
      BY <2>1, <2>2, <3>1 DEF Accounting, LoopLeft
  <2>5. QED
    BY <1>3, <2>3, <2>4 DEF Books
<1>6. QED
  BY <1>4, <1>5

\* The inductive invariant holds of the pool.
THEOREM PoolBooks == Spec => []Books
<1>1. QED
  BY InitBooks, NextBooks, PTL DEF Spec

\* loop() never counts fewer objects than are in use, and exactly as many as
\* long as no timer has fired; the gauges follow the count and the list.
THEOREM PoolAccounts == Spec => []Accounting
<1>1. Books => Accounting
  BY DEF Books
<1>2. QED
  BY <1>1, PoolBooks, PTL

\* When loop() ends nobody has an object, and when Close returns every object
\* that was made was closed: as long as no timer has fired.
THEOREM PoolEndsClean == Spec => []EndsClean
<1>1. Books => EndsClean
  <2> SUFFICES ASSUME Books PROVE EndsClean
    OBVIOUS
  <2>1. GracefulExit
    BY DEF Books, Settled, GracefulExit
  <2>2. ASSUME ~late, NEW c \in Closers, cpc[c] = "returned" PROVE made \subseteq tried
    <3>1. Ended /\ idle = <<>> /\ kept = <<>>
      BY <2>2 DEF Books, Ending, Ended, IInv, Control
    <3>2. Stock = {}
      BY <3>1 DEF Stock, Range
    <3>3. InUse = {}
      BY <2>2, <3>1 DEF Books, Settled, Ended, LoopLeft
    <3>4. QED
      BY <2>2, <3>2, <3>3 DEF Books, Found
  <2>3. NoLeak
    BY <2>2 DEF NoLeak, Books, Found
  <2>4. QED
    BY <2>1, <2>3 DEF EndsClean
<1>2. QED
  BY <1>1, PoolBooks, PTL

=============================================================================
