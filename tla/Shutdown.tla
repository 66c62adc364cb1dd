------------------------------ MODULE Shutdown ------------------------------
(***************************************************************************)
(* shutdown/shutdown.go and the worker pool of bgworker/bgworker.go, whose *)
(* stop is one of the hooks.  SetupHandler (kind "handler") runs the hooks *)
(* when a signal comes; SetupDrainable (kind "drainable") ends the intake  *)
(* then, and runs them in DrainComplete, called by the program or by the   *)
(* drain timeout.  A panic ends the program.                               *)
(***************************************************************************)
EXTENDS Naturals, Sequences, SequencesExt, FiniteSets

CONSTANTS Regs,         \* goroutines that call BeforeShutdown once, and their hooks
          Submitters,   \* goroutines that submit one task each
          MaxSignals    \* bound on the signals of the operating system

VARIABLES
    kind,        \* "handler" or "drainable"
    channel,     \* the channel: "open", "closed", or "nil" once the variable is cleared
    buffer,      \* how many signals the channel holds
    signals,     \* how many signals were sent
    spc,         \* where Shutdown is
    smut,        \* who has the mutex, or "free"
    hooks,       \* the hooks that are registered
    due,         \* the hooks a cleanup goes through
    ran,         \* the hooks that were run
    wrote,       \* the hooks that BeforeShutdown has taken
    once,        \* the Once of DrainComplete: "free", who is inside, or "done"
    dpc,         \* where the handler, the caller of DrainComplete and its timeout are
    intake,      \* whether Intake is canceled
    scanceled,   \* whether the context, or Lifetime, is canceled
    pool,        \* the worker pool: "none", "making", "up" or "stopped"
    job,         \* where each task is
    spanic       \* whether the program has panicked

downVars == <<kind, channel, buffer, signals, spc, smut, hooks, due, ran, wrote, once, dpc,
          intake, scanceled, pool, job, spanic>>
signaling == <<channel, buffer, signals, spc>>
cleaning == <<smut, hooks, due, ran, wrote>>
working == <<pool, job>>
ending == <<once, dpc, intake, scanceled>>

Drainers == {"caller", "timer"}
Cleaners == Drainers \cup {"handler"}

DownInit ==
    /\ kind \in {"handler", "drainable"}
    /\ channel = "open" /\ buffer = 0 /\ signals = 0 /\ spc = "out"
    /\ smut = "free" /\ hooks = <<>> /\ due = <<>> /\ ran = <<>> /\ wrote = {}
    /\ once = "free"
    /\ dpc = [c \in Cleaners |-> IF c = "handler" THEN "wait" ELSE "out"]
    /\ intake = FALSE /\ scanceled = FALSE
    /\ pool = "none" /\ job = [t \in Submitters |-> "out"]
    /\ spanic = FALSE

DownGoto(c, from, to) == dpc[c] = from /\ dpc' = [dpc EXCEPT ![c] = to]
TaskGoto(t, from, to) == job[t] = from /\ job' = [job EXCEPT ![t] = to]

-----------------------------------------------------------------------------
(* The ways to ask for a shutdown                                          *)

\* os/signal sends without waiting, and on a closed channel panics.
SignalSent ==
    /\ signals < MaxSignals
    /\ signals' = signals + 1
    /\ IF channel = "open" THEN buffer' = 1 /\ UNCHANGED spanic
       ELSE spanic' = TRUE /\ UNCHANGED buffer
    /\ UNCHANGED <<kind, channel, spc, cleaning, ending, working>>

\* Shutdown looks at the variable, and reads it once more to send.
ShutdownCalled ==
    /\ spc = "out"
    /\ spc' = IF channel = "nil" THEN "over" ELSE "send"
    /\ UNCHANGED <<kind, channel, buffer, signals, cleaning, ending, working, spanic>>

ShutdownSends ==
    /\ spc = "send"
    /\ IF channel = "closed" THEN spanic' = TRUE /\ UNCHANGED <<spc, buffer>>
       ELSE /\ spc' = CASE channel = "nil" -> "forever"
                        [] channel = "open" /\ buffer = 1 -> "blocked"
                        [] OTHER -> "over"
            /\ buffer' = IF channel = "open" THEN 1 ELSE buffer
            /\ UNCHANGED spanic
    /\ UNCHANGED <<kind, channel, signals, cleaning, ending, working>>

-----------------------------------------------------------------------------
(* The loop of the handler                                                 *)

\* A sender that waits puts its signal in the place of the one received.
Receive ==
    /\ buffer = 1
    /\ DownGoto("handler", "wait", "close")
    /\ IF spc = "blocked" THEN spc' = "over" /\ UNCHANGED buffer
       ELSE buffer' = 0 /\ UNCHANGED spc
    /\ UNCHANGED <<kind, channel, signals, cleaning, once, intake, scanceled, working, spanic>>

\* The second time around, the variable is nil and close panics.
CloseSignals ==
    /\ dpc["handler"] = "close"
    /\ IF channel = "nil" THEN spanic' = TRUE /\ UNCHANGED <<dpc, channel>>
       ELSE DownGoto("handler", "close", "clear") /\ channel' = "closed" /\ UNCHANGED spanic
    /\ UNCHANGED <<kind, buffer, signals, spc, cleaning, once, intake, scanceled, working>>

ClearChannel ==
    /\ DownGoto("handler", "clear", IF kind = "handler" THEN "lock" ELSE "cancel")
    /\ channel' = "nil"
    /\ UNCHANGED <<kind, buffer, signals, spc, cleaning, once, intake, scanceled, working, spanic>>

LoopEnds ==
    /\ buffer = 0 /\ channel # "open"
    /\ DownGoto("handler", "wait", "over")
    /\ UNCHANGED <<kind, signaling, cleaning, once, intake, scanceled, working, spanic>>

-----------------------------------------------------------------------------
(* DrainComplete, once, by the program at any time or by the timeout       *)

DrainOnce(c) == once = "free" /\ once' = c

Due(c) == c = "timer" => intake /\ ~scanceled

DrainComplete(c) ==
    /\ kind = "drainable" /\ Due(c)
    /\ DrainOnce(c)
    /\ DownGoto(c, "out", "lock")
    /\ UNCHANGED <<kind, signaling, cleaning, intake, scanceled, working, spanic>>

\* Whoever comes second waits and has nothing to do.
DrainDone(c) ==
    /\ kind = "drainable" /\ once = "done"
    /\ DownGoto(c, "out", "over")
    /\ UNCHANGED <<kind, signaling, cleaning, once, intake, scanceled, working, spanic>>

-----------------------------------------------------------------------------
(* cleanup, under the mutex                                                *)

CleanupBegins(c) ==
    /\ smut = "free"
    /\ DownGoto(c, "lock", "hooks")
    /\ smut' = c /\ due' = hooks
    /\ UNCHANGED <<kind, signaling, hooks, ran, wrote, once, intake, scanceled, working, spanic>>

More == Len(ran) < Len(due)
NextHook == due[Len(ran) + 1]
Unfinished == {t \in Submitters : job[t] \in {"run", "lock", "last"}}

\* The hook of the worker pool stops it and waits for its tasks.
StopPool(c) ==
    /\ dpc[c] = "hooks" /\ More /\ NextHook = "pool" /\ pool = "up"
    /\ pool' = "stopped"
    /\ UNCHANGED <<kind, signaling, cleaning, ending, job, spanic>>

RunHook(c) ==
    /\ dpc[c] = "hooks" /\ More
    /\ NextHook = "pool" => pool = "stopped" /\ Unfinished = {}
    /\ ran' = Append(ran, NextHook)
    /\ UNCHANGED <<kind, signaling, smut, hooks, due, wrote, ending, working, spanic>>

CleanupEnds(c) ==
    /\ ~More
    /\ DownGoto(c, "hooks", "cancel")
    /\ hooks' = <<>> /\ smut' = "free"
    /\ UNCHANGED <<kind, signaling, due, ran, wrote, once, intake, scanceled, working, spanic>>

\* Of a drainable program the handler cancels Intake only.
Cancels_x(c) == kind = "handler"
Cancels(c) == kind = "handler" \/ c # "handler"

CancelContexts(c) ==
    /\ DownGoto(c, "cancel", IF c = "handler" THEN "wait" ELSE "over")
    /\ intake' = (intake \/ c = "handler")
    /\ scanceled' = (scanceled \/ Cancels(c))
    /\ once' = IF c = "handler" THEN once ELSE "done"
    /\ UNCHANGED <<kind, signaling, cleaning, working, spanic>>

-----------------------------------------------------------------------------
(* BeforeShutdown                                                          *)

MutFree_x == TRUE
MutFree == smut = "free"

Register(h) ==
    /\ MutFree /\ h \notin wrote
    /\ hooks' = Append(hooks, h) /\ wrote' = wrote \cup {h}
    /\ UNCHANGED <<smut, due, ran>>

BeforeShutdown(r) ==
    /\ Register(r)
    /\ UNCHANGED <<kind, signaling, ending, working, spanic>>

-----------------------------------------------------------------------------
(* The worker pool, made when the first task comes; a task may register a  *)
(* hook of its own.  There is a worker for each task.                      *)

MakePool(t) ==
    /\ pool = "none" /\ pool' = "making"
    /\ TaskGoto(t, "out", "make")
    /\ UNCHANGED <<kind, signaling, cleaning, ending, spanic>>

PoolMade(t) ==
    /\ Register("pool")
    /\ pool' = "up"
    /\ TaskGoto(t, "make", "submit")
    /\ UNCHANGED <<kind, signaling, ending, spanic>>

Submit(t) ==
    /\ pool \in {"up", "stopped"} /\ job[t] \in {"out", "submit"}
    /\ job' = [job EXCEPT ![t] = IF pool = "up" THEN "run" ELSE "refused"]
    /\ UNCHANGED <<kind, signaling, cleaning, ending, pool, spanic>>

TaskAsks(t) ==
    /\ TaskGoto(t, "run", "lock")
    /\ UNCHANGED <<kind, signaling, cleaning, ending, pool, spanic>>

TaskRegisters(t) ==
    /\ Register(t)
    /\ TaskGoto(t, "lock", "last")
    /\ UNCHANGED <<kind, signaling, ending, pool, spanic>>

TaskEnds(t) ==
    /\ job[t] \in {"run", "last"}
    /\ job' = [job EXCEPT ![t] = "over"]
    /\ UNCHANGED <<kind, signaling, cleaning, ending, pool, spanic>>

-----------------------------------------------------------------------------
Handler == Receive \/ CloseSignals \/ ClearChannel \/ LoopEnds
Cleanup(c) == CleanupBegins(c) \/ StopPool(c) \/ RunHook(c) \/ CleanupEnds(c) \/ CancelContexts(c)
Timeout == DrainComplete("timer") \/ DrainDone("timer")

DownNext ==
    /\ ~spanic
    /\ \/ SignalSent \/ ShutdownCalled \/ ShutdownSends \/ Handler
       \/ \E c \in Drainers : DrainComplete(c) \/ DrainDone(c)
       \/ \E c \in Cleaners : Cleanup(c)
       \/ \E r \in Regs : BeforeShutdown(r)
       \/ \E t \in Submitters : \/ MakePool(t) \/ PoolMade(t) \/ Submit(t)
                           \/ TaskAsks(t) \/ TaskRegisters(t) \/ TaskEnds(t)

DownSpec == DownInit /\ [][DownNext]_downVars

\* The handler and a cleanup go on, hooks and tasks end, the timeout comes;
\* nobody has to send a signal, to register or to submit.
Alive == ~spanic
DownFairness ==
    /\ WF_downVars(Alive /\ Handler) /\ WF_downVars(Alive /\ ShutdownSends) /\ WF_downVars(Alive /\ Timeout)
    /\ \A c \in Cleaners : WF_downVars(Alive /\ Cleanup(c)) /\ SF_downVars(Alive /\ CleanupBegins(c))
    /\ \A t \in Submitters :
          /\ WF_downVars(Alive /\ TaskEnds(t)) /\ WF_downVars(Alive /\ PoolMade(t))
          /\ SF_downVars(Alive /\ TaskRegisters(t))

-----------------------------------------------------------------------------
(* Properties                                                              *)

\* "The returned context is canceled after all registered BeforeShutdown hooks
\* have been executed": those a cleanup has found, in order and once each, and
\* the tasks the worker pool had taken before; a hook that comes too late stays
\* registered, and none gets lost in between.
HooksKept ==
    /\ IsPrefix(ran, due) /\ IsInjective(ran)
    /\ wrote = ToSet(ran) \cup ToSet(hooks)
    /\ scanceled => ran = due /\ (Contains(ran, "pool") => Unfinished = {})

\* The program panics only if a shutdown was asked for more than once.
CrashHasCause == spanic => signals + (IF spc = "out" THEN 0 ELSE 1) >= 2

ShutdownIsOrderly == HooksKept /\ CrashHasCause

\* A task that registers a hook while the cleanup waits for it.
Wedged ==
    /\ pool = "stopped" /\ smut # "free" /\ ~Contains(ran, "pool")
    /\ \E t \in Submitters : job[t] = "lock"

\* A signal that was received ends in the cancellation of the context; of
\* Lifetime too, thanks to the drain timeout; unless the program panics or a
\* task of the pool waits for the mutex of the cleanup that waits for it.
ShutdownOver == (intake /\ scanceled) \/ spanic \/ Wedged
ShutdownEnds == channel # "open" ~> ShutdownOver

=============================================================================
