-------------------------------- MODULE Pool --------------------------------
(***************************************************************************)
(* pool/pool.go: a pool of closable objects.  One goroutine, loop(), owns  *)
(* the list of idle objects and serves the requests the callers of Get,    *)
(* Put and CloseIdle send over unbuffered channels.  Each caller also runs *)
(* a timer and goes its own way when the timer wins.  Close shuts the      *)
(* channels in the order get, put, closeIdle and waits for loop() to go.   *)
(*                                                                         *)
(* Each step is an access to what goroutines share: a rendezvous on a      *)
(* channel, a read of running, a change of outstanding, a channel closed.  *)
(* A step of loop() takes its private list along.  The object a Get asks   *)
(* the factory for is any object not made before; whether checkValid, the  *)
(* factory and an object's Close succeed is chosen at every call.          *)
(***************************************************************************)
EXTENDS Integers, Sequences, FiniteSets, Functions

CONSTANTS
    Users,      \* goroutines that call Get, Put and CloseIdle
    Closers,    \* goroutines that call Close, once each
    Objects,    \* the objects the factory can make
    Timeouts,   \* whether the timers of Get, Put and CloseIdle may fire
    MaxFaults,  \* bound: how often Close of an idle object may fail in CloseIdle
    None,       \* no object, no user
    Failure     \* the answer of a Get whose object could not be made

ASSUME PoolAssumption ==
    /\ IsFiniteSet(Objects)
    /\ Timeouts \in BOOLEAN
    /\ MaxFaults \in Nat
    /\ None \notin Objects \cup Users
    /\ Failure \notin Objects \cup {None}

VARIABLES
    lpc,          \* where loop() is
    cur,          \* the user whose request loop() is serving, or None
    idle,         \* objectPool, the idle objects, the oldest first
    kept,         \* remainder in handleCloseIdle
    done,         \* receives on closed channels seen by loop(), up to 3
    ticker,       \* whether the shuffle timer can still fire
    drainOnce,    \* whether stopDrain has run
    closed,       \* the channels that are closed
    drain,        \* counter of the WaitGroup
    closeCh,      \* whether loop() has left its result in closeCh
    outstanding,  \* objects in use, as loop() counts them
    running,
    gauge,        \* the gauges pool_objects, _in_use and _idle
    pc,           \* where each user is
    arg,          \* the object a user's call is carrying, or None
    reply,        \* the content of the user's resultChan, or None
    held,         \* the objects a user got from Get and has not Put back
    cpc,          \* where each closer is
    made,         \* the objects the factory has made
    tried,        \* the objects whose Close was called
    dead,         \* the objects whose Close succeeded
    faults,       \* failures of Close counted against MaxFaults
    late          \* whether a timer of a call has fired

loopVars   == <<lpc, cur, idle, kept, done, ticker, drainOnce>>
sharedVars == <<closed, drain, closeCh, outstanding, running>>
userVars   == <<pc, arg, reply, held>>
objectVars == <<made, tried, dead, faults, late>>
vars == <<loopVars, sharedVars, gauge, userVars, cpc, objectVars>>

Channels == {"get", "put", "ci"}

Init ==
    /\ lpc = "select" /\ cur = None /\ idle = <<>> /\ kept = <<>>
    /\ done = 0 /\ ticker = TRUE /\ drainOnce = FALSE
    /\ closed = {} /\ drain = 0 /\ closeCh = FALSE
    /\ outstanding = 0 /\ running = TRUE
    /\ gauge = [total |-> 0, inUse |-> 0, idle |-> 0]
    /\ pc = [u \in Users |-> "out"]
    /\ arg = [u \in Users |-> None]
    /\ reply = [u \in Users |-> None]
    /\ held = [u \in Users |-> {}]
    /\ cpc = [c \in Closers |-> "out"]
    /\ made = {} /\ tried = {} /\ dead = {} /\ faults = 0 /\ late = FALSE

-----------------------------------------------------------------------------
(* Pieces of the handlers.  Those named ..._x are wrong on purpose: each    *)
(* takes the place of its neighbour to see that a property notices.        *)

Gauge(t, u, i) ==
    gauge' = [total |-> gauge.total + t, inUse |-> gauge.inUse + u,
              idle |-> gauge.idle + i]

\* The idle objects after the one at the head was taken.
Rest_x == idle
Rest == Tail(idle)

\* remainder with one more object.
Remainder_x(o) == kept
Remainder(o) == Append(kept, o)

\* outstanding after one more object is in use.
Borrowed_x == outstanding
Borrowed == outstanding + 1

\* What a caller of Get takes from the answer.
Received_x(u) == {reply[u]}
Received(u) == {reply[u]} \cap Objects

\* loop() can meet a sender on channel ch.
Accepts(ch) == lpc = "select" /\ ch \notin closed

\* Close of o is called and succeeds or not.
CallClose(o, ok) ==
    /\ tried' = tried \cup {o}
    /\ dead' = IF ok THEN dead \cup {o} ELSE dead

\* createObject: the factory makes an object it has not made before.
Make(o) == o \in Objects \ made /\ made' = made \cup {o}

Goto(u, from, to) == pc[u] = from /\ pc' = [pc EXCEPT ![u] = to]

-----------------------------------------------------------------------------
(* Get                                                                     *)

\* A call while running is TRUE reaches the select on getCh.
GetStart(u) ==
    /\ running
    /\ Goto(u, "out", "getSend")
    /\ UNCHANGED <<loopVars, sharedVars, gauge, arg, reply, held, cpc, objectVars>>

\* The send on a closed getCh panics; the deferred function recovers.
GetPanic(u) ==
    /\ "get" \in closed
    /\ Goto(u, "getSend", "out")
    /\ UNCHANGED <<loopVars, sharedVars, gauge, arg, reply, held, cpc, objectVars>>

\* The answer is taken from resultChan.
GetReturn(u) ==
    /\ reply[u] # None
    /\ Goto(u, "getWait", "out")
    /\ held' = [held EXCEPT ![u] = @ \cup Received(u)]
    /\ reply' = [reply EXCEPT ![u] = None]
    /\ UNCHANGED <<loopVars, sharedVars, gauge, arg, cpc, objectVars>>

\* The timer wins, before loop() took the request or after; an answer that
\* is already, or will be, in resultChan is never read.
GetTimeout(u) ==
    /\ Timeouts
    /\ Goto(u, "getSend", "getMake") \/ Goto(u, "getWait", "getMake")
    /\ late' = TRUE
    /\ reply' = [reply EXCEPT ![u] = None]
    /\ UNCHANGED <<loopVars, sharedVars, gauge, arg, held, cpc, made, tried, dead, faults>>

\* After the timeout the caller makes an object itself ...
GetMake(u, o) ==
    /\ Goto(u, "getMake", "getCount")
    /\ Make(o)
    /\ arg' = [arg EXCEPT ![u] = o]
    /\ Gauge(1, 0, 0)
    /\ UNCHANGED <<loopVars, sharedVars, reply, held, cpc, tried, dead, faults, late>>

GetMakeFails(u) ==
    /\ Goto(u, "getMake", "out")
    /\ UNCHANGED <<loopVars, sharedVars, gauge, arg, reply, held, cpc, objectVars>>

\* ... and counts it as outstanding in a later step.
GetCount(u) ==
    /\ Goto(u, "getCount", "out")
    /\ outstanding' = Borrowed
    /\ held' = [held EXCEPT ![u] = @ \cup {arg[u]}]
    /\ arg' = [arg EXCEPT ![u] = None]
    /\ UNCHANGED <<loopVars, closed, drain, closeCh, running, gauge, reply, cpc,
                   objectVars>>

-----------------------------------------------------------------------------
(* Put.  Once loop() has taken the request the caller returns whichever of *)
(* doneChan and the timer comes first, so that RecvPut ends the call.      *)

PutStart(u, o) ==
    /\ running
    /\ o \in held[u]
    /\ Goto(u, "out", "putSend")
    /\ held' = [held EXCEPT ![u] = @ \ {o}]
    /\ arg' = [arg EXCEPT ![u] = o]
    /\ UNCHANGED <<loopVars, sharedVars, gauge, reply, cpc, objectVars>>

\* The pool is closed: the call logs and returns, the object is nobody's.
PutRefused(u, o) ==
    /\ ~running
    /\ o \in held[u]
    /\ pc[u] = "out"
    /\ held' = [held EXCEPT ![u] = @ \ {o}]
    /\ UNCHANGED <<loopVars, sharedVars, gauge, pc, arg, reply, cpc, objectVars>>

\* The send on a closed putCh panics; the deferred function recovers and logs.
PutPanic(u) ==
    /\ "put" \in closed
    /\ Goto(u, "putSend", "out")
    /\ arg' = [arg EXCEPT ![u] = None]
    /\ UNCHANGED <<loopVars, sharedVars, gauge, reply, held, cpc, objectVars>>

\* The timer wins and the caller closes the object itself.
PutTimeout(u, ok) ==
    /\ Timeouts
    /\ Goto(u, "putSend", "out")
    /\ CallClose(arg[u], ok)
    /\ late' = TRUE
    /\ arg' = [arg EXCEPT ![u] = None]
    /\ UNCHANGED <<loopVars, sharedVars, gauge, reply, held, cpc, made, faults>>

-----------------------------------------------------------------------------
(* CloseIdle                                                               *)

CIStart(u) ==
    /\ running
    /\ Goto(u, "out", "ciSend")
    /\ UNCHANGED <<loopVars, sharedVars, gauge, arg, reply, held, cpc, objectVars>>

\* The timer wins, before loop() took the request or while it works on it.
CITimeout(u) ==
    /\ Timeouts
    /\ Goto(u, "ciSend", "out") \/ Goto(u, "ciWait", "out")
    /\ late' = TRUE
    /\ UNCHANGED <<loopVars, sharedVars, gauge, arg, reply, held, cpc,
                   made, tried, dead, faults>>

CIPanic(u) ==
    /\ "ci" \in closed
    /\ Goto(u, "ciSend", "out")
    /\ UNCHANGED <<loopVars, sharedVars, gauge, arg, reply, held, cpc, objectVars>>

-----------------------------------------------------------------------------
(* loop(): the select                                                      *)

RecvGet(u) ==
    /\ Accepts("get")
    /\ Goto(u, "getSend", "getWait")
    /\ lpc' = "get" /\ cur' = u
    /\ UNCHANGED <<idle, kept, done, ticker, drainOnce, sharedVars, gauge, arg,
                   reply, held, cpc, objectVars>>

\* handlePut
RecvPut(u) ==
    /\ Accepts("put")
    /\ Goto(u, "putSend", "out")
    /\ lpc' = "check"
    /\ idle' = Append(idle, arg[u])
    /\ arg' = [arg EXCEPT ![u] = None]
    /\ outstanding' = outstanding - 1
    /\ Gauge(0, -1, 1)
    /\ UNCHANGED <<cur, kept, done, ticker, drainOnce, closed, drain, closeCh,
                   running, reply, held, cpc, objectVars>>

RecvCI(u) ==
    /\ Accepts("ci")
    /\ Goto(u, "ciSend", "ciWait")
    /\ lpc' = "ci" /\ cur' = u
    /\ UNCHANGED <<idle, kept, done, ticker, drainOnce, sharedVars, gauge, arg,
                   reply, held, cpc, objectVars>>

\* A closed channel is ready at every select, so that loop() can count one
\* channel again and again; done is compared with 1, 2 and 3 only.
RecvClosed(ch) ==
    /\ lpc = "select" /\ ch \in closed
    /\ lpc' = "check"
    /\ done' = IF done < 3 THEN done + 1 ELSE 3
    /\ UNCHANGED <<cur, idle, kept, ticker, drainOnce, sharedVars, gauge, userVars,
                   cpc, objectVars>>

\* The timer is a Timer, not a Ticker: it fires once in the pool's life.
Shuffle ==
    /\ lpc = "select" /\ ticker
    /\ ticker' = FALSE
    /\ lpc' = "check"
    /\ \E p \in Bijection(DOMAIN idle, DOMAIN idle) :
          idle' = [i \in DOMAIN idle |-> idle[p[i]]]
    /\ UNCHANGED <<cur, kept, done, drainOnce, sharedVars, gauge, userVars, cpc,
                   objectVars>>

-----------------------------------------------------------------------------
(* loop(): handleGet                                                       *)

\* The object at the head is no longer valid.
GetDiscard(ok) ==
    /\ lpc = "get" /\ idle # <<>>
    /\ idle' = Rest
    /\ CallClose(Head(idle), ok)
    /\ Gauge(-1, 0, -1)
    /\ UNCHANGED <<lpc, cur, kept, done, ticker, drainOnce, sharedVars, userVars, cpc,
                   made, faults, late>>

\* The answer goes into the buffered resultChan, whether or not the caller
\* is still there to read it.
Answer(x) ==
    reply' = IF pc[cur] = "getWait" THEN [reply EXCEPT ![cur] = x] ELSE reply

GetReuse ==
    /\ lpc = "get" /\ idle # <<>>
    /\ lpc' = "check" /\ cur' = None
    /\ idle' = Rest
    /\ Answer(Head(idle))
    /\ outstanding' = Borrowed
    /\ Gauge(0, 1, -1)
    /\ UNCHANGED <<kept, done, ticker, drainOnce, closed, drain, closeCh, running, pc,
                   arg, held, cpc, objectVars>>

GetCreate(o) ==
    /\ lpc = "get" /\ idle = <<>>
    /\ lpc' = "check" /\ cur' = None
    /\ Make(o)
    /\ Answer(o)
    /\ outstanding' = Borrowed
    /\ Gauge(1, 1, 0)
    /\ UNCHANGED <<idle, kept, done, ticker, drainOnce, closed, drain, closeCh, running,
                   pc, arg, held, cpc, tried, dead, faults, late>>

GetCreateFails ==
    /\ lpc = "get" /\ idle = <<>>
    /\ lpc' = "check" /\ cur' = None
    /\ Answer(Failure)
    /\ UNCHANGED <<idle, kept, done, ticker, drainOnce, sharedVars, gauge, pc, arg, held,
                   cpc, objectVars>>

-----------------------------------------------------------------------------
(* loop(): handleCloseIdle looks at one idle object after the other.       *)

\* Young and valid: the object stays.
CIKeep ==
    /\ lpc = "ci" /\ idle # <<>>
    /\ idle' = Rest /\ kept' = Remainder(Head(idle))
    /\ UNCHANGED <<lpc, cur, done, ticker, drainOnce, sharedVars, gauge, userVars, cpc,
                   objectVars>>

\* Old, or young and invalid, and closed: the object goes.  The gauge of all
\* objects is decremented twice for a young one.
CIClose(young) ==
    /\ lpc = "ci" /\ idle # <<>>
    /\ idle' = Rest
    /\ CallClose(Head(idle), TRUE)
    /\ Gauge(IF young THEN -2 ELSE -1, 0, -1)
    /\ UNCHANGED <<lpc, cur, kept, done, ticker, drainOnce, sharedVars, userVars, cpc,
                   made, faults, late>>

\* Its Close fails: the object stays, and can be handed out again.
CICloseFails(young) ==
    /\ lpc = "ci" /\ idle # <<>> /\ faults < MaxFaults
    /\ idle' = Rest /\ kept' = Remainder(Head(idle))
    /\ CallClose(Head(idle), FALSE)
    /\ Gauge(IF young THEN -1 ELSE 0, 0, 0)
    /\ faults' = faults + 1
    /\ UNCHANGED <<lpc, cur, done, ticker, drainOnce, sharedVars, userVars, cpc, made, late>>

\* The response goes to the caller, unless its timer has fired.
CIEnd ==
    /\ lpc = "ci" /\ idle = <<>>
    /\ lpc' = "check" /\ cur' = None
    /\ idle' = kept /\ kept' = <<>>
    /\ pc' = IF pc[cur] = "ciWait" THEN [pc EXCEPT ![cur] = "out"] ELSE pc
    /\ UNCHANGED <<done, ticker, drainOnce, sharedVars, gauge, arg, reply, held, cpc,
                   objectVars>>

-----------------------------------------------------------------------------
(* loop(): the decision after each case of the select, and the end         *)

\* Whether loop() leaves: three receives on closed channels, not necessarily
\* on three channels, and nothing outstanding.
LeaveLoop_x == done = 3
LeaveLoop == done = 3 /\ outstanding <= 0

\* Whether loop() reports, once, that every object is back.
Drained == done \in {1, 2} /\ outstanding = 0

StopDrain_x == drainOnce' = TRUE /\ UNCHANGED drain
StopDrain ==
    /\ drainOnce' = TRUE
    /\ drain' = IF drainOnce THEN drain ELSE drain - 1

Check ==
    /\ lpc = "check"
    /\ lpc' = IF LeaveLoop THEN "final" ELSE "select"
    /\ IF Drained THEN StopDrain ELSE UNCHANGED <<drainOnce, drain>>
    /\ UNCHANGED <<cur, idle, kept, done, ticker, closed, closeCh, outstanding, running,
                   gauge, userVars, cpc, objectVars>>

FinalClose(ok) ==
    /\ lpc = "final" /\ idle # <<>>
    /\ idle' = Rest
    /\ CallClose(Head(idle), ok)
    /\ UNCHANGED <<lpc, cur, kept, done, ticker, drainOnce, sharedVars, gauge, userVars,
                   cpc, made, faults, late>>

\* The gauges are set to zero and the result is left in closeCh ...
FinalResult ==
    /\ lpc = "final" /\ idle = <<>>
    /\ lpc' = "defer"
    /\ closeCh' = TRUE
    /\ gauge' = [total |-> 0, inUse |-> 0, idle |-> 0]
    /\ UNCHANGED <<cur, idle, kept, done, ticker, drainOnce, closed, drain, outstanding,
                   running, userVars, cpc, objectVars>>

\* ... then the deferred calls run: stopDrain first, running.Store last.
DeferDrain ==
    /\ lpc = "defer"
    /\ lpc' = "exit"
    /\ StopDrain
    /\ UNCHANGED <<cur, idle, kept, done, ticker, closed, closeCh, outstanding, running,
                   gauge, userVars, cpc, objectVars>>

DeferRunning ==
    /\ lpc = "exit"
    /\ lpc' = "gone"
    /\ running' = FALSE
    /\ UNCHANGED <<cur, idle, kept, done, ticker, drainOnce, closed, drain, closeCh,
                   outstanding, gauge, userVars, cpc, objectVars>>

-----------------------------------------------------------------------------
(* Close                                                                   *)

GotoC(c, from, to) == cpc[c] = from /\ cpc' = [cpc EXCEPT ![c] = to]

CloseStart(c) ==
    /\ GotoC(c, "out", IF running THEN "add" ELSE "refused")
    /\ UNCHANGED <<loopVars, sharedVars, gauge, userVars, objectVars>>

CloseAdd(c) ==
    /\ GotoC(c, "add", "get")
    /\ drain' = drain + 1
    /\ UNCHANGED <<loopVars, closed, closeCh, outstanding, running, gauge, userVars,
                   objectVars>>

\* Close of channel ch; of a closed channel it panics, and nothing recovers.
CloseChannel(c, ch, next) ==
    /\ GotoC(c, ch, IF ch \in closed THEN "crashed" ELSE next)
    /\ closed' = closed \cup {ch}
    /\ UNCHANGED <<loopVars, drain, closeCh, outstanding, running, gauge, userVars,
                   objectVars>>

CloseWait(c) ==
    /\ drain = 0
    /\ GotoC(c, "wait", "put")
    /\ UNCHANGED <<loopVars, sharedVars, gauge, userVars, objectVars>>

CloseReturn(c) ==
    /\ closeCh
    /\ GotoC(c, "recv", "returned")
    /\ UNCHANGED <<loopVars, sharedVars, gauge, userVars, objectVars>>

-----------------------------------------------------------------------------
LoopStep ==
    \/ \E u \in Users : RecvGet(u) \/ RecvPut(u) \/ RecvCI(u)
    \/ \E ch \in Channels : RecvClosed(ch)
    \/ Shuffle
    \/ \E ok \in BOOLEAN : GetDiscard(ok) \/ FinalClose(ok)
    \/ GetReuse \/ GetCreateFails
    \/ \E o \in Objects : GetCreate(o)
    \/ CIKeep \/ CIEnd
    \/ \E young \in BOOLEAN : CIClose(young) \/ CICloseFails(young)
    \/ Check \/ FinalResult \/ DeferDrain \/ DeferRunning

UserStep(u) ==
    \/ GetStart(u) \/ GetPanic(u) \/ GetReturn(u) \/ GetTimeout(u)
    \/ GetMakeFails(u) \/ GetCount(u)
    \/ \E o \in Objects : GetMake(u, o) \/ PutStart(u, o) \/ PutRefused(u, o)
    \/ PutPanic(u) \/ \E ok \in BOOLEAN : PutTimeout(u, ok)
    \/ CIStart(u) \/ CITimeout(u) \/ CIPanic(u)

CloserStep(c) ==
    \/ CloseStart(c) \/ CloseAdd(c)
    \/ CloseChannel(c, "get", "wait") \/ CloseWait(c)
    \/ CloseChannel(c, "put", "ci") \/ CloseChannel(c, "ci", "recv")
    \/ CloseReturn(c)

\* A panic nobody recovers ends the process.
NoCrash == \A c \in Closers : cpc[c] # "crashed"

Next ==
    /\ NoCrash
    /\ LoopStep \/ (\E u \in Users : UserStep(u)) \/ (\E c \in Closers : CloserStep(c))

Spec == Init /\ [][Next]_vars

-----------------------------------------------------------------------------
(* Fairness.  The scheduler runs every goroutine that can go on, and the   *)
(* select of loop() picks one of its ready cases at random, so that a case *)
(* that is ready again and again is picked in the end: strong fairness for *)
(* the receives.  A user puts back what it got (strong fairness: it may    *)
(* make other calls in between).                                           *)

UserGoesOn(u) ==
    \/ GetPanic(u) \/ GetReturn(u) \/ GetMakeFails(u) \/ GetCount(u)
    \/ \E o \in Objects : GetMake(u, o) \/ PutRefused(u, o)
    \/ PutPanic(u) \/ CIPanic(u)

CloserGoesOn(c) == cpc[c] # "out" /\ CloserStep(c)

Fairness ==
    /\ WF_vars(NoCrash /\ LoopStep)
    /\ \A ch \in Channels : SF_vars(NoCrash /\ RecvClosed(ch))
    /\ \A u \in Users :
          /\ WF_vars(NoCrash /\ UserGoesOn(u))
          /\ SF_vars(NoCrash /\ RecvPut(u)) /\ SF_vars(NoCrash /\ RecvCI(u))
          /\ SF_vars(NoCrash /\ \E o \in Objects : PutStart(u, o))
    /\ \A c \in Closers : WF_vars(NoCrash /\ CloserGoesOn(c))

FairSpec == Spec /\ Fairness

-----------------------------------------------------------------------------
(* Where the objects are                                                   *)

Stock == Range(idle) \cup Range(kept)

\* What user u has: objects it got, one on its way from or to loop().
Owned(u) == held[u] \cup ({arg[u], reply[u]} \cap Objects)

\* What loop() should count as in use: all but the object a caller has made
\* after a timeout and is about to count.
Counted(u) == IF pc[u] = "getCount" THEN Owned(u) \ {arg[u]} ELSE Owned(u)
InUse == UNION {Counted(u) : u \in Users}

\* loop() has left its select.
LoopLeft == lpc \in {"final", "defer", "exit", "gone"}

TypeOK ==
    /\ lpc \in {"select", "get", "ci", "check", "final", "defer", "exit", "gone"}
    /\ cur \in Users \cup {None}
    /\ idle \in Seq(Objects) /\ kept \in Seq(Objects)
    /\ done \in 0..3 /\ ticker \in BOOLEAN /\ drainOnce \in BOOLEAN
    /\ closed \subseteq Channels /\ drain \in Int /\ closeCh \in BOOLEAN
    /\ outstanding \in Int /\ running \in BOOLEAN
    /\ gauge \in [total : Int, inUse : Int, idle : Int]
    /\ pc \in [Users -> {"out", "getSend", "getWait", "getMake", "getCount",
                         "putSend", "ciSend", "ciWait"}]
    /\ arg \in [Users -> Objects \cup {None}]
    /\ reply \in [Users -> Objects \cup {None, Failure}]
    /\ held \in [Users -> SUBSET Objects]
    /\ cpc \in [Closers -> {"out", "refused", "add", "get", "wait", "put", "ci", "recv",
                            "returned", "crashed"}]
    /\ made \subseteq Objects /\ tried \subseteq made /\ dead \subseteq tried
    /\ faults \in 0..MaxFaults /\ late \in BOOLEAN

-----------------------------------------------------------------------------
(* Safety                                                                  *)

\* Two callers never have the same object, and no caller has one that is in
\* the pool: a Get pops what it hands out, a Put appends what it was given,
\* and a timed out call parts with its object exactly once.
Exclusive ==
    /\ IsInjective(idle) /\ IsInjective(kept)
    /\ Range(idle) \cap Range(kept) = {}
    /\ \A u \in Users :
          /\ Owned(u) \cap Stock = {}
          /\ {arg[u], reply[u]} \cap held[u] = {}
          /\ \A v \in Users \ {u} : Owned(u) \cap Owned(v) = {}

\* An object that was closed is neither handed out nor kept for a later Get,
\* whoever closed it: loop(), or a Put whose timer won.
NeverLendClosed ==
    /\ Stock \cap dead = {}
    /\ \A u \in Users : Owned(u) \cap dead = {}

\* Where the goroutines can be while an object or an answer is on its way.
Control ==
    /\ lpc \in {"get", "ci"} => cur \in Users
    /\ lpc # "ci" => kept = <<>>
    /\ lpc = "get" /\ pc[cur] = "getWait" => reply[cur] = None
    /\ \A u \in Users :
          /\ arg[u] \in Objects <=> pc[u] \in {"getCount", "putSend"}
          /\ reply[u] # None => pc[u] = "getWait"

\* The objects anybody has were made by the factory.
Known == Stock \cup UNION {Owned(u) : u \in Users} \subseteq made

\* Exclusive and NeverLendClosed with what they need to be inductive.
IInv == TypeOK /\ Control /\ Known /\ Exclusive /\ NeverLendClosed

\* The counts agree with the objects.  outstanding may be too high, never too
\* low: loop() does not end while it knows of an object in use, and timed out
\* calls only err to this side.  As long as no timer has fired it is exact, and
\* so is the gauge pool_objects_in_use; pool_objects_idle always is, in spite of
\* its many increments and decrements.
Accounting ==
    /\ outstanding >= Cardinality(InUse)
    /\ ~LoopLeft => gauge.idle = Len(idle) + Len(kept)
    /\ ~late => outstanding = Cardinality(InUse)
    /\ ~late /\ lpc \notin {"defer", "exit", "gone"} => gauge.inUse = outstanding

\* "graceful shutdown where all borrowed objects are returned before final
\* cleanup": when loop() ends nobody has an object, and nobody gets one,
\* as long as no timer has fired.
GracefulExit == ~late /\ LoopLeft => InUse = {}

\* An object that was made is in the pool, in use, or its Close was called, and
\* when Close returns that of every object was, as long as no timer has fired.
NoLeak ==
    ~late => /\ made \subseteq Stock \cup InUse \cup tried
             /\ (\E c \in Closers : cpc[c] = "returned") => made \subseteq tried

\* The pool ends clean: nothing lent, nothing lost, nothing left unclosed.
EndsClean == GracefulExit /\ NoLeak

\* The pool implements the lending of objects: see Lending.
Gone == made \ (Stock \cup UNION {Owned(u) : u \in Users})
Abstract == INSTANCE Lending WITH
    stock <- Stock, lent <- [u \in Users |-> Owned(u)], gone <- Gone
ImplementsLending == Abstract!Spec

-----------------------------------------------------------------------------
(* Liveness                                                                *)

\* Close returns once the users have put back what they got, and a Put that was
\* started returns, also while Close shuts the channels.
CallsReturn ==
    /\ \A c \in Closers : cpc[c] = "add" ~> cpc[c] = "returned"
    /\ \A u \in Users : pc[u] = "putSend" ~> pc[u] # "putSend"

\* "this happens after getCh is closed and all outstanding objects have been
\* returned": a Close that waits for the objects goes on when none is in use.
DrainEnds == \A c \in Closers : (cpc[c] = "wait" /\ InUse = {}) ~> cpc[c] # "wait"

=============================================================================
