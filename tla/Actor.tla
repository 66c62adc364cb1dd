------------------------------- MODULE Actor -------------------------------
(***************************************************************************)
(* actor/actor.go with the inboxes of channels/channels.go,                *)
(* channels/priority.go and actor/gpqinbox: one goroutine, the run loop,   *)
(* takes messages out of an inbox and runs a SimpleProcessor on each.      *)
(* Behind an unbounded or a priority inbox a second goroutine, the pump,   *)
(* moves messages from the channel callers write to the one the loop reads.*)
(*                                                                         *)
(* Each caller makes one call, so that a message is named by its caller.   *)
(* A Request waits for its answer on a channel without a buffer; one with  *)
(* a context may give up.  The actor ends when Stop closes the inbox or    *)
(* the context it runs under is canceled.                                  *)
(***************************************************************************)
EXTENDS Naturals, Sequences, FiniteSets, SequencesExt

CONSTANTS
    Callers,   \* the goroutines that call the Ref, once each
    Kind,      \* of each call: "send", "request" or "requestCtx"
    Weight,    \* the weight of each message
    Inboxes,   \* the inboxes the actor may run with, records of kind and bound
    Buckets,   \* priority levels of the gpq inbox
    None       \* no message

InboxKinds == {"unbuffered", "buffered", "infinite", "heap", "gpq"}

ASSUME ActorAssumption ==
    /\ Kind \in [Callers -> {"send", "request", "requestCtx"}]
    /\ Weight \in [Callers -> Nat]
    /\ Inboxes \subseteq [kind : InboxKinds, bound : Nat]
    /\ Buckets \in Nat \ {0}
    /\ None \notin Callers

VARIABLES
    inbox,      \* the inbox of this actor
    queue,      \* messages buffered in the inbox, in the order of arrival
    top,        \* the message the pump of a gpq inbox holds out of its queue
    inClosed,   \* whether inboxWrite is closed
    pump,       \* "run", "drain" once it has seen inboxWrite closed, "gone"
    loop,       \* where the run loop is
    msg,        \* the message the run loop is processing, or None
    dead,
    canceled,   \* whether the context of the actor is canceled
    stop,       \* where the goroutine that calls Stop is
    pc,         \* where each caller is
    rsp,        \* what each call has returned
    fate,       \* what became of each message
    earlier,    \* the messages that an inbox took before this one,
    passed      \* and those taken out while this one was in it: history, for PriorityOrder

inboxVars == <<inbox, queue, top, inClosed, pump>>
actorVars == <<loop, msg, dead, canceled, stop>>
order     == <<earlier, passed>>
callVars  == <<pc, rsp, order>>
vars == <<inboxVars, actorVars, callVars, fate>>

Pumped == inbox.kind \in {"infinite", "heap", "gpq"}
\* The pump selects on the context too.
Discards == inbox.kind \in {"heap", "gpq"}

Init ==
    /\ inbox \in Inboxes
    /\ queue = <<>> /\ top = None /\ inClosed = FALSE /\ pump = "run"
    /\ loop = "select" /\ msg = None /\ dead = FALSE /\ canceled = FALSE /\ stop = "out"
    /\ pc = [c \in Callers |-> "out"]
    /\ rsp = [c \in Callers |-> "none"]
    /\ fate = [c \in Callers |-> "none"]
    /\ earlier = [c \in Callers |-> {}] /\ passed = earlier

-----------------------------------------------------------------------------
(* The order of delivery.  Definitions named ..._x are wrong on purpose.    *)

\* DefaultWeightToBucket
Bucket_x(w) == IF w > Buckets - 1 THEN Buckets - 1 ELSE w
Bucket(w) == IF w > Buckets - 1 THEN 0 ELSE Buckets - 1 - w

\* The rank of a message: a higher one is delivered first.
Rank(c) ==
    CASE inbox.kind = "heap" -> Weight[c]
      [] inbox.kind = "gpq"  -> Buckets - Bucket(Weight[c])
      [] OTHER               -> 0

\* The position of the message to deliver: less, with the tie broken by seq.
First(q) ==
    CHOOSE i \in DOMAIN q : \A j \in DOMAIN q :
       Rank(q[i]) > Rank(q[j]) \/ (Rank(q[i]) = Rank(q[j]) /\ i <= j)

\* The pump of a gpq inbox takes the next message out of the queue as soon as
\* it holds none: it cannot look at it there.
Hold_x(q, t) == top' = (IF t = None /\ q # <<>> THEN q[First(q)] ELSE t) /\ queue' = q
Hold(q, t) ==
    IF inbox.kind = "gpq" /\ t = None /\ q # <<>>
    THEN top' = q[First(q)] /\ queue' = RemoveAt(q, First(q))
    ELSE top' = t /\ queue' = q

\* The message the inbox offers to the run loop.
Offered ==
    CASE inbox.kind = "gpq"                -> top
      [] inbox.kind # "gpq" /\ queue # <<>> -> queue[First(queue)]
      [] OTHER                             -> None

\* The inbox without the message it offers.
TakeOffered ==
    IF inbox.kind = "gpq" THEN Hold(queue, None)
                          ELSE queue' = RemoveAt(queue, First(queue)) /\ UNCHANGED top

Buffered == Len(queue) + (IF top = None THEN 0 ELSE 1)

\* The inbox takes another message; 0 means unbounded for a priority inbox.
HasRoom ==
    CASE inbox.kind = "unbuffered" -> FALSE
      [] inbox.kind = "buffered"   -> Buffered < inbox.bound
      [] inbox.kind = "infinite"   -> TRUE
      [] OTHER                     -> inbox.bound = 0 \/ Buffered < inbox.bound

-----------------------------------------------------------------------------
(* The callers                                                             *)

Return(c, from, what) ==
    /\ pc[c] = from
    /\ pc' = [pc EXCEPT ![c] = "over"]
    /\ rsp' = [rsp EXCEPT ![c] = what]
    /\ UNCHANGED order

\* The message is in; Send returns, Request waits.
Accepted(c) ==
    /\ pc[c] = "send"
    /\ pc' = [pc EXCEPT ![c] = IF Kind[c] = "send" THEN "over" ELSE "wait"]
    /\ rsp' = [rsp EXCEPT ![c] = IF Kind[c] = "send" THEN "sent" ELSE @]

\* The check of dead, by Request and by submit.
Start(c) ==
    /\ IF dead THEN Return(c, "out", "dead")
               ELSE /\ pc[c] = "out" /\ pc' = [pc EXCEPT ![c] = "send"]
                    /\ UNCHANGED <<rsp, order>>
    /\ UNCHANGED <<inboxVars, actorVars, fate>>

\* The send on a closed inbox panics; submit recovers.
SendPanic_x(c) ==
    /\ inClosed
    /\ Return(c, "send", "dead") \/ Return(c, "wait", "dead")
    /\ UNCHANGED <<inboxVars, actorVars, fate>>
SendPanic(c) ==
    /\ inClosed
    /\ Return(c, "send", "dead")
    /\ UNCHANGED <<inboxVars, actorVars, fate>>

\* The context of the call is canceled, before the message is in or after.
GiveUp(c) ==
    /\ Kind[c] = "requestCtx"
    /\ Return(c, "send", "ctx") \/ Return(c, "wait", "ctx")
    /\ UNCHANGED <<inboxVars, actorVars, fate>>

\* A buffered channel, or the pump, takes the message.
Enqueue(c) ==
    /\ ~inClosed /\ HasRoom /\ (Pumped => pump = "run")
    /\ Accepted(c)
    /\ fate' = [fate EXCEPT ![c] = "queued"]
    /\ earlier' = [earlier EXCEPT ![c] = {d \in Callers : fate[d] # "none"}]
    /\ UNCHANGED passed
    /\ Hold(Append(queue, c), top)
    /\ UNCHANGED <<inbox, inClosed, pump, actorVars>>

-----------------------------------------------------------------------------
(* The pump                                                                *)

PumpSeesClose_x == UNCHANGED vars
PumpSeesClose ==
    /\ Pumped /\ pump = "run" /\ inClosed
    /\ pump' = "drain"
    /\ UNCHANGED <<inbox, queue, top, inClosed, actorVars, callVars, fate>>

\* Everything was delivered: the channel the loop reads is closed.
PumpEnd_x == Pumped /\ pump = "drain"
PumpEnd == Pumped /\ pump = "drain" /\ Buffered = 0

PumpEnds ==
    /\ PumpEnd
    /\ pump' = "gone"
    /\ UNCHANGED <<inbox, queue, top, inClosed, actorVars, callVars, fate>>

\* The context is canceled: what is buffered is dropped.
PumpCancel ==
    /\ Discards /\ canceled /\ pump # "gone"
    /\ pump' = "gone" /\ queue' = <<>> /\ top' = None
    /\ fate' = [c \in Callers |-> IF fate[c] = "queued" THEN "discarded" ELSE fate[c]]
    /\ UNCHANGED <<inbox, inClosed, actorVars, callVars>>

-----------------------------------------------------------------------------
(* The run loop                                                            *)

\* ctx.Done is ready at every select; only the first time changes anything.
LoopCancel_x ==
    /\ loop = "select" /\ canceled /\ ~(dead /\ inClosed)
    /\ loop' = "closing"
    /\ UNCHANGED <<inboxVars, msg, dead, canceled, stop, callVars, fate>>
LoopCancel ==
    /\ loop = "select" /\ canceled /\ ~(dead /\ inClosed)
    /\ loop' = "closing"
    /\ dead' = TRUE
    /\ UNCHANGED <<inboxVars, msg, canceled, stop, callVars, fate>>

LoopClose ==
    /\ loop = "closing"
    /\ loop' = "select"
    /\ inClosed' = TRUE
    /\ UNCHANGED <<inbox, queue, top, pump, msg, dead, canceled, stop, callVars, fate>>

Processing(c) ==
    /\ loop = "select"
    /\ loop' = "process" /\ msg' = c
    /\ fate' = [fate EXCEPT ![c] = "taken"]
    /\ UNCHANGED <<inbox, inClosed, pump, dead, canceled, stop>>

Take ==
    /\ Offered # None
    /\ pump # "gone"
    /\ Processing(Offered)
    /\ TakeOffered
    /\ passed' = [d \in Callers |-> passed[d] \cup {m \in {Offered} : fate'[d] = "queued"}]
    /\ UNCHANGED <<pc, rsp, earlier>>

\* The rendezvous with a sender on a channel without a buffer.
TakeDirect(c) ==
    /\ inbox.kind = "unbuffered" /\ ~inClosed
    /\ Accepted(c)
    /\ Processing(c)
    /\ UNCHANGED <<queue, top, order>>

\* The inbox is closed and empty.
LoopEnd ==
    /\ loop = "select"
    /\ IF Pumped THEN pump = "gone" ELSE inClosed /\ queue = <<>>
    /\ loop' = "gone"
    /\ UNCHANGED <<inboxVars, msg, dead, canceled, stop, callVars, fate>>

-----------------------------------------------------------------------------
(* SimpleProcessor, runProcessor and informCallerOfPanic                   *)

Waits(c) == Kind[c] # "send"

LoopTo(where) ==
    /\ loop' = where
    /\ msg' = IF where = "select" THEN None ELSE msg
    /\ UNCHANGED <<inboxVars, dead, canceled, stop>>

Process ==
    /\ loop = "process"
    /\ fate' = [fate EXCEPT ![msg] = "done"]
    /\ LoopTo(IF Waits(msg) THEN "reply" ELSE "select")
    /\ UNCHANGED callVars

Panic ==
    /\ loop = "process"
    /\ fate' = [fate EXCEPT ![msg] = "panicked"]
    /\ LoopTo(IF Waits(msg) THEN "inform" ELSE "select")
    /\ UNCHANGED callVars

\* The answer is handed over; the processor waits as long as it takes.
Reply ==
    /\ loop = "reply"
    /\ Return(msg, "wait", "value")
    /\ LoopTo("select")
    /\ UNCHANGED fate

Inform ==
    /\ loop = "inform"
    /\ Return(msg, "wait", "panic")
    /\ LoopTo("select")
    /\ UNCHANGED fate

\* Canceled, or five seconds have passed: the channel is closed without an
\* answer.  A caller that still waits receives the zero value, and no error.
InformNot ==
    /\ loop = "inform"
    /\ IF pc[msg] = "wait" THEN Return(msg, "wait", "zero") ELSE UNCHANGED callVars
    /\ LoopTo("select")
    /\ UNCHANGED fate

-----------------------------------------------------------------------------
(* Stop, and the context of the actor                                      *)

Stop ==
    /\ stop = "out"
    /\ stop' = IF dead THEN "over" ELSE "close"
    /\ dead' = TRUE
    /\ UNCHANGED <<inboxVars, loop, msg, canceled, callVars, fate>>

StopClose ==
    /\ stop = "close"
    /\ stop' = "over"
    /\ inClosed' = TRUE
    /\ UNCHANGED <<inbox, queue, top, pump, loop, msg, dead, canceled, callVars, fate>>

Cancel ==
    /\ ~canceled
    /\ canceled' = TRUE
    /\ UNCHANGED <<inboxVars, loop, msg, dead, stop, callVars, fate>>

-----------------------------------------------------------------------------
CallerStep(c) == Start(c) \/ SendPanic(c) \/ GiveUp(c)
PumpStep == PumpSeesClose \/ PumpEnds \/ PumpCancel
LoopStep ==
    \/ LoopCancel \/ LoopClose \/ Take \/ LoopEnd
    \/ Process \/ Panic \/ Reply \/ Inform \/ InformNot

Next ==
    \/ \E c \in Callers : CallerStep(c) \/ Enqueue(c) \/ TakeDirect(c)
    \/ PumpStep \/ LoopStep \/ Stop \/ StopClose \/ Cancel

Spec == Init /\ [][Next]_vars

\* Every goroutine that can go on does: the loop and the pump, callers that
\* have started, a Stop that has begun.
Fairness ==
    /\ WF_vars(LoopStep) /\ WF_vars(PumpStep) /\ WF_vars(StopClose)
    /\ \A c \in Callers :
          WF_vars(SendPanic(c)) /\ WF_vars(Enqueue(c)) /\ WF_vars(TakeDirect(c))

FairSpec == Spec /\ Fairness

-----------------------------------------------------------------------------
(* Safety                                                                  *)

TypeOK ==
    /\ inbox \in Inboxes
    /\ queue \in Seq(Callers) /\ top \in Callers \cup {None}
    /\ inClosed \in BOOLEAN /\ pump \in {"run", "drain", "gone"}
    /\ loop \in {"select", "closing", "process", "reply", "inform", "gone"}
    /\ msg \in Callers \cup {None}
    /\ dead \in BOOLEAN /\ canceled \in BOOLEAN /\ stop \in {"out", "close", "over"}
    /\ pc \in [Callers -> {"out", "send", "wait", "over"}]
    /\ rsp \in [Callers -> {"none", "sent", "value", "panic", "zero", "dead", "ctx"}]
    /\ fate \in [Callers -> {"none", "queued", "taken", "done", "panicked", "discarded"}]

InInbox(c) == c \in ToSet(queue) \/ c = top

\* "once that many messages are queued, submitting blocks".
Backpressure ==
    inbox.bound > 0 /\ inbox.kind \in {"buffered", "heap", "gpq"} => Buffered <= inbox.bound

\* A message that was accepted is in one place: buffered once, or with the run
\* loop, or dealt with.  In particular none is processed twice, and none gets
\* lost between the two channels of a pump.
Conserved ==
    /\ TypeOK /\ Backpressure
    /\ IsInjective(queue) /\ top \notin ToSet(queue)
    /\ \A c \in Callers :
          /\ fate[c] = "queued" <=> InInbox(c)
          /\ fate[c] = "taken" <=> (loop = "process" /\ msg = c)

\* "Stop drains and processes any queued messages before the run loop exits":
\* when the loop ends every message that was accepted has been processed;
\* only a priority inbox whose context was canceled drops some.
StopDrains ==
    loop = "gone" =>
       /\ \A c \in Callers : fate[c] \in {"none", "done", "panicked", "discarded"}
       /\ (\E c \in Callers : fate[c] = "discarded") => canceled /\ Discards

\* ErrDeadActor means that the message was not accepted; a value that it was
\* processed, and an error of ErrActorPanic that the processor panicked.
AnswersAreTrue ==
    \A c \in Callers :
       /\ rsp[c] = "dead" => fate[c] = "none"
       /\ rsp[c] = "value" => fate[c] = "done"
       /\ rsp[c] \in {"panic", "zero"} => fate[c] = "panicked"

\* An actor whose loop has ended says that it is dead, but for one whose pump
\* has seen the canceled context first.
ExitIsAnnounced == loop = "gone" /\ ~dead => canceled /\ Discards

\* Whatever an actor accepts is kept, and dealt with or told of when it ends.
InboxIsTrue == Conserved /\ StopDrains /\ ExitIsAnnounced

\* The level of a message: its weight, up to the number of buckets of a gpq inbox.
Level(c) ==
    CASE inbox.kind = "heap" -> Weight[c]
      [] inbox.kind = "gpq"  -> IF Weight[c] < Buckets THEN Weight[c] ELSE Buckets - 1
      [] OTHER               -> 0

GoesBefore(m, c) == Level(m) > Level(c) \/ (Level(m) = Level(c) /\ m \in earlier[c])
OutOfTurn(c) == {m \in passed[c] : ~GoesBefore(m, c)}

\* "Messages submitted with a higher Weight are processed first; messages of
\* equal Weight are processed in submission order": of those that went before a
\* message while it waited, each is of a higher level, or of the same and older.
\* But for "a one-item priority inversion" of a gpq inbox, an older one that its
\* pump held already.
PriorityOrder ==
    \A c \in Callers :
       \/ OutOfTurn(c) = {}
       \/ inbox.kind = "gpq" /\ \E m \in earlier[c] : OutOfTurn(c) = {m}

-----------------------------------------------------------------------------
(* Liveness                                                                *)

\* The processor wants to answer a caller that has given up.
Wedged == loop = "reply" /\ pc[msg] # "wait"

\* A closed inbox ends the run loop, unless a caller that gave up has left the
\* processor with an answer nobody takes.
StopEnds == inClosed ~> (loop = "gone" \/ Wedged)

\* Every message that was accepted is dealt with, under the same condition: as
\* the calls are finitely many, again and again nothing is left.
AcceptedIsHandled ==
    []<>(Wedged \/ \A c \in Callers : fate[c] \notin {"queued", "taken"})

\* Request "blocks until a response is received" and "returns ErrDeadActor if
\* the actor is stopped": no request waits for an actor that is gone.
RequestsReturn ==
    \A c \in Callers : (loop = "gone" /\ pc[c] \in {"send", "wait"}) ~> pc[c] = "over"

=============================================================================
