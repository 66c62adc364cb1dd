----------------------------- MODULE Environment -----------------------------
(***************************************************************************)
(* startup/ and the recording of envutil/: the start of a process sets its *)
(* environment from files while other goroutines read it; every read is    *)
(* recorded and shown to observers; a goroutine writes the record to the   *)
(* audit file until the process shuts down.                                *)
(*                                                                         *)
(* A read is of a key; where its value comes from (the process or the      *)
(* context) makes no difference to what is recorded.                       *)
(***************************************************************************)
EXTENDS Naturals, Sequences, FiniteSets, SequencesExt

CONSTANTS
    Keys, NotSet, Environments,  \* what is set when the process starts
    Starts,     \* [files, allowOverride, record, dedup, observers, audit, debug, asks]
    Procs, MainProc, MaxReads

ASSUME EnvironmentAssumption ==
    /\ IsFiniteSet(Keys) /\ MainProc \in Procs
    /\ \A e \in Environments : DOMAIN e = Keys /\ e = [k \in Keys |-> e[k]]
    /\ \A s \in Starts :
          /\ s.files \in Seq(Range(s.files))
          /\ \A f \in Range(s.files) : f.ok \in BOOLEAN /\ DOMAIN f.vars \subseteq Keys
          /\ s.allowOverride \in BOOLEAN /\ s.dedup \in BOOLEAN
          /\ s.observers \in Seq(Range(s.observers)) /\ s.asks \in Seq(Keys)

VARIABLES
    opts,       \* one of Starts: the options ConfigureEnvironment is called with
    env0, env,  \* the environment at first, and now
    stage,      \* of MainProc: "start", "ask", "setup", "dedup", "reset", "register", "load",
                \* "set", "done", "failed"
    ahead,      \* what it still has to ask, register, load or set
    loader,     \* the variables of the files loaded so far
    recording, dedupKeys, seenKeys, hasObservers, observers,
    epc,        \* of each read: "idle", "check", "seen", "mark", "append", "notify", "call"
    ev,         \* its event: [id, key, by, dedup]; after, fresh: history, see FirstOnly
    copy,       \* the observers it still has to call
    reads,      \* a bound: the reads there have been
    events, batch, written, lost,
    writer, output, hung,
    hooks,      \* those that are registered with shutdown
    down,       \* the shutdown has begun
    told, due, missed, kept \* history: see the properties

recorder == <<recording, dedupKeys, seenKeys>>
watchers == <<hasObservers, observers>>
reader == <<epc, ev, copy, reads, told, due, missed, kept>>
audit == <<batch, written, lost, writer, output, hung>>
start == <<env, stage, ahead, loader>>
environmentVars == <<opts, env0, start, recorder, watchers, reader, events, audit, hooks, down>>

NewEvent(id, key, p) ==
    [id |-> id, key |-> key, by |-> p, dedup |-> FALSE, after |-> {}, fresh |-> FALSE]
NoEvent == NewEvent(0, "none", "none")

EnvironmentInit ==
    /\ opts \in Starts /\ env0 \in Environments /\ env = env0
    /\ stage = "start" /\ ahead = <<>> /\ loader = <<>>
    /\ recording = FALSE /\ dedupKeys = FALSE /\ seenKeys = {}
    /\ hasObservers = FALSE /\ observers = {}
    /\ epc = [p \in Procs |-> "idle"] /\ ev = [p \in Procs |-> NoEvent]
    /\ copy = [p \in Procs |-> {}] /\ reads = 0
    /\ events = <<>> /\ batch = <<>> /\ written = {} /\ lost = {}
    /\ writer = "off" /\ output = "none" /\ hung = FALSE
    /\ hooks = {} /\ down = FALSE
    /\ told = {} /\ due = [p \in Procs |-> {}] /\ missed = {} /\ kept = {}

-----------------------------------------------------------------------------
(* A read                                                                  *)

ReadGoes(p, from, to) == epc[p] = from /\ epc' = [epc EXCEPT ![p] = to]

get(p, key) ==
    /\ reads < MaxReads /\ reads' = reads + 1
    /\ ReadGoes(p, "idle", IF recording \/ hasObservers THEN "check" ELSE "idle")
    /\ ev' = [ev EXCEPT ![p] = NewEvent(reads + 1, key, p)]
    /\ due' = [due EXCEPT ![p] = observers]
    /\ UNCHANGED <<copy, told, missed, kept>>

observerEnv(p) ==
    /\ ReadGoes(p, "check", IF ~recording THEN "notify" ELSE IF dedupKeys THEN "seen" ELSE "append")
    /\ ev' = [ev EXCEPT ![p].dedup = dedupKeys]
    /\ UNCHANGED <<copy, reads, told, due, missed, kept, seenKeys, events>>

\* The events whose keys have been marked for them, and the end of EnableDedupKeys.
Marked == {e \in kept \cup {ev[q] : q \in {p \in Procs : epc[p] = "append"}} : e.dedup}
ResetOver == stage \notin {"start", "ask", "setup", "dedup", "reset"}

\* Another read of the same key, or the reset, may come between the check and the mark.
shouldRecordKey(p) ==
    /\ \/ /\ ReadGoes(p, "seen", IF ev[p].key \in seenKeys THEN "notify" ELSE "mark")
          /\ ev' = [ev EXCEPT ![p].after = {e.id : e \in {m \in Marked : m.key = ev[p].key}}]
          /\ UNCHANGED seenKeys
       \/ /\ ReadGoes(p, "mark", "append") /\ seenKeys' = seenKeys \cup {ev[p].key}
          /\ ev' = [ev EXCEPT ![p].fresh = ResetOver]
    /\ UNCHANGED <<copy, reads, told, due, missed, kept, events>>
Record(p) ==
    /\ ReadGoes(p, "append", "notify")
    /\ events' = Append(events, ev[p]) /\ kept' = kept \cup {ev[p]}
    /\ UNCHANGED <<ev, copy, reads, told, due, missed, seenKeys>>

\* Observers are called without the lock, from a copy.
Missed(p, all) == {o \in due[p] : <<o, ev[p].id>> \notin all}
notifyObservers(p) ==
    /\ ReadGoes(p, "notify", IF hasObservers /\ observers # {} THEN "call" ELSE "idle")
    /\ copy' = [copy EXCEPT ![p] = IF hasObservers THEN observers ELSE {}]
    /\ missed' = IF epc'[p] = "idle" THEN missed \cup Missed(p, told) ELSE missed
    /\ UNCHANGED <<ev, reads, told, due, kept, seenKeys, events>>
Tell(p) ==
    /\ epc[p] = "call"
    /\ \E o \in copy[p] :
          /\ copy' = [copy EXCEPT ![p] = @ \ {o}] /\ told' = told \cup {<<o, ev[p].id>>}
          /\ epc' = [epc EXCEPT ![p] = IF copy[p] = {o} THEN "idle" ELSE "call"]
          /\ missed' = IF copy[p] = {o} THEN missed \cup Missed(p, told') ELSE missed
    /\ UNCHANGED <<ev, reads, due, kept, seenKeys, events>>

Observed(p) ==
    /\ observerEnv(p) \/ shouldRecordKey(p) \/ Record(p) \/ notifyObservers(p) \/ Tell(p)
    /\ UNCHANGED <<opts, env0, start, recording, dedupKeys, watchers, audit, hooks, down>>

\* Goroutines of the program read what they like.
Read(p) ==
    /\ p # MainProc /\ \E key \in Keys : get(p, key)
    /\ UNCHANGED <<opts, env0, start, recorder, watchers, events, audit, hooks, down>>

-----------------------------------------------------------------------------
(* The start; definitions named ..._x are wrong on purpose                 *)

\* ENV_DEBUG turns recording on, and names the audit file where no option does.
Recorded == opts.record \/ opts.audit # "no" \/ opts.debug
AuditFile == IF opts.audit # "no" THEN opts.audit ELSE IF opts.debug THEN "ok" ELSE "no"

ConfigureEnvironment ==
    /\ stage = "start" /\ stage' = "ask" /\ ahead' = opts.asks
    /\ recording' = (opts.record \/ opts.audit # "no")
    /\ UNCHANGED <<env, loader, dedupKeys, seenKeys, watchers, reader, events, hooks>>
Ask ==
    /\ stage = "ask" /\ epc[MainProc] = "idle"
    /\ IF ahead # <<>>
       THEN get(MainProc, Head(ahead)) /\ ahead' = Tail(ahead) /\ UNCHANGED stage
       ELSE stage' = "setup" /\ ahead' = ahead /\ UNCHANGED reader
    /\ UNCHANGED <<env, loader, recorder, watchers, events, hooks>>

setupEnvutil ==
    /\ stage = "setup" /\ stage' = "dedup" /\ recording' = Recorded
    /\ UNCHANGED <<env, ahead, loader, dedupKeys, seenKeys, watchers, reader, events, hooks>>
\* Readers look at the flag before what they see is reset.
EnableDedupKeys ==
    /\ stage = "dedup" /\ dedupKeys' = opts.dedup /\ ahead' = opts.observers
    /\ stage' = IF opts.dedup THEN "reset" ELSE "register"
    /\ UNCHANGED <<env, loader, recording, seenKeys, watchers, reader, events, hooks>>
ResetSeenKeys ==
    /\ stage = "reset" /\ stage' = "register" /\ seenKeys' = {}
    /\ UNCHANGED <<env, ahead, loader, recording, dedupKeys, watchers, reader, events, hooks>>
RegisterObserver ==
    /\ stage = "register" /\ ahead # <<>> /\ ahead' = Tail(ahead)
    /\ observers' = observers \cup {Head(ahead)} /\ hasObservers' = TRUE
    /\ UNCHANGED <<env, stage, loader, recorder, reader, events, hooks>>
AllRegistered ==
    /\ stage = "register" /\ ahead = <<>>
    /\ hooks' = IF opts.observers = <<>> THEN hooks ELSE hooks \cup {"observers"}
    /\ ahead' = opts.files
    /\ stage' = IF opts.files = <<>> THEN "done" ELSE "load"
    /\ UNCHANGED <<env, loader, recorder, watchers, reader, events>>

\* A file that cannot be read or parsed ends the start before anything is set.
LoadFile_x ==
    /\ stage = "load" /\ ahead # <<>> /\ ahead' = Tail(ahead)
    /\ IF Head(ahead).ok
       THEN /\ loader' = [k \in DOMAIN loader \cup DOMAIN Head(ahead).vars |->
                            IF k \in DOMAIN loader THEN loader[k] ELSE Head(ahead).vars[k]]
            /\ UNCHANGED stage
       ELSE stage' = "failed" /\ UNCHANGED loader
    /\ UNCHANGED <<env, recorder, watchers, reader, events, hooks>>
LoadFile ==
    /\ stage = "load" /\ ahead # <<>> /\ ahead' = Tail(ahead)
    /\ IF Head(ahead).ok
       THEN /\ loader' = [k \in DOMAIN loader \cup DOMAIN Head(ahead).vars |->
                            IF k \in DOMAIN Head(ahead).vars THEN Head(ahead).vars[k] ELSE loader[k]]
            /\ UNCHANGED stage
       ELSE stage' = "failed" /\ UNCHANGED loader
    /\ UNCHANGED <<env, recorder, watchers, reader, events, hooks>>

\* The variables in the order of a Go map.
Loaded ==
    /\ stage = "load" /\ ahead = <<>> /\ stage' = "set"
    /\ ahead' \in {s \in [1 .. Cardinality(DOMAIN loader) -> DOMAIN loader] :
                      Range(s) = DOMAIN loader}
    /\ UNCHANGED <<env, loader, recorder, watchers, reader, events, hooks>>
Setenv ==
    /\ stage = "set" /\ ahead # <<>> /\ ahead' = Tail(ahead)
    /\ LET k == Head(ahead)
       IN  env' = IF env[k] = NotSet \/ opts.allowOverride THEN [env EXCEPT ![k] = loader[k]]
                  ELSE env
    /\ UNCHANGED <<stage, loader, recorder, watchers, reader, events, hooks>>

setupAuditFile ==
    /\ stage = "set" /\ ahead = <<>>
    /\ IF AuditFile = "ok" /\ Recorded
       THEN stage' = "done" /\ hooks' = hooks \cup {"audit"} /\ writer' = "wait" /\ output' = "open"
       ELSE /\ stage' = IF AuditFile = "cannot" /\ Recorded THEN "failed" ELSE "done"
            /\ UNCHANGED <<hooks, writer, output>>
    /\ UNCHANGED <<env, ahead, loader, recorder, watchers, reader, events, batch, written, lost,
                   hung>>

Starting ==
    /\ \/ /\ \/ ConfigureEnvironment \/ Ask \/ setupEnvutil \/ EnableDedupKeys \/ ResetSeenKeys
             \/ RegisterObserver \/ AllRegistered \/ LoadFile \/ Loaded \/ Setenv
          /\ UNCHANGED audit
       \/ setupAuditFile
    /\ UNCHANGED <<opts, env0, down>>

-----------------------------------------------------------------------------
(* The audit file and the end                                              *)

CollectRecordingEvents ==
    /\ writer = "wait" /\ writer' = "write"
    /\ batch' = events /\ events' = <<>>
    /\ UNCHANGED <<written, lost, output, hung, hooks, down>>
\* What cannot be marshalled or written, to a full disk or a closed file, is logged and gone.
WriteEvent ==
    /\ writer = "write" /\ batch # <<>> /\ batch' = Tail(batch)
    /\ \/ output = "open" /\ written' = written \cup {Head(batch)} /\ UNCHANGED lost
       \/ lost' = lost \cup {Head(batch)} /\ UNCHANGED written
    /\ UNCHANGED <<writer, output, hung, events, hooks, down>>
Synced ==
    /\ writer = "write" /\ batch = <<>> /\ writer' = "wait"
    /\ UNCHANGED <<batch, written, lost, output, hung, events, hooks, down>>
Gone ==
    /\ writer = "wait" /\ hung /\ writer' = "gone"
    /\ UNCHANGED <<batch, written, lost, output, hung, events, hooks, down>>

Shutdown ==
    /\ stage \in {"done", "failed"} /\ ~down /\ down' = TRUE
    /\ UNCHANGED <<audit, events, hooks>>
\* The hook of the audit file: cancel, then close.
CancelAudit ==
    /\ down /\ "audit" \in hooks /\ ~hung /\ hung' = TRUE
    /\ UNCHANGED <<batch, written, lost, writer, output, events, hooks, down>>
CloseOutput ==
    /\ hung /\ "audit" \in hooks /\ output' = "closed" /\ hooks' = hooks \ {"audit"}
    /\ UNCHANGED <<batch, written, lost, writer, hung, events, down>>
Ending ==
    /\ CollectRecordingEvents \/ WriteEvent \/ Synced \/ Gone
       \/ Shutdown \/ CancelAudit \/ CloseOutput
    /\ UNCHANGED <<opts, env0, start, recorder, watchers, reader>>

\* The hook of the observers.
Removed_x(o) == observers' = observers \ {o} /\ hasObservers' = FALSE
Removed(o) == observers' = observers \ {o} /\ hasObservers' = (observers # {o})
Unregister(o) ==
    /\ down /\ "observers" \in hooks /\ o \in observers /\ Removed(o)
    /\ hooks' = IF observers = {o} THEN hooks \ {"observers"} ELSE hooks
    /\ due' = [p \in Procs |-> due[p] \ {o}]
    /\ UNCHANGED <<opts, env0, start, recorder, epc, ev, copy, reads, told, missed, kept, events,
                   audit, down>>

EnvironmentNext ==
    \/ Starting \/ Ending
    \/ \E o \in observers : Unregister(o)
    \/ \E p \in Procs : Read(p) \/ Observed(p)
EnvironmentSpec == EnvironmentInit /\ [][EnvironmentNext]_environmentVars

-----------------------------------------------------------------------------
(* Properties                                                              *)

\* "existing environment variables take precedence over file-based values", files in
\* their order; if one of them cannot be loaded, nothing is set.
FromFile(k, i) ==
    /\ k \in DOMAIN opts.files[i].vars /\ env[k] = opts.files[i].vars[k]
    /\ \A j \in DOMAIN opts.files : j > i => k \notin DOMAIN opts.files[j].vars
InNoFile(k) == \A i \in DOMAIN opts.files : k \notin DOMAIN opts.files[i].vars
EnvIsMerged ==
    IF \A i \in DOMAIN opts.files : opts.files[i].ok
    THEN stage = "done" =>
            \A k \in Keys : IF InNoFile(k) \/ (env0[k] # NotSet /\ ~opts.allowOverride)
                           THEN env[k] = env0[k]
                           ELSE \E i \in DOMAIN opts.files : FromFile(k, i)
    ELSE env = env0

\* An event is in the record, in the hands of the writer, or has been written, or failed to
\* be: in one of these places, and once.
Held == Range(events) \cup Range(batch)
EventsAreKept ==
    /\ IsInjective(events) /\ IsInjective(batch) /\ Range(events) \cap Range(batch) = {}
    /\ Held \cup written \cup lost = kept
    /\ Held \cap (written \cup lost) = {} /\ written \cap lost = {}

\* "only the first read of each environment variable key is recorded": a read that looks for
\* its key after another one has marked it is recorded only if the reset of EnableDedupKeys
\* comes between the two marks; so a goroutine records a key once before the reset and once
\* after it. Two goroutines that look before either has marked may both record it.
FirstOnly ==
    \A e, f \in {x \in kept : x.dedup} : e.key = f.key /\ e # f =>
        /\ e.id \in f.after => ~e.fresh /\ f.fresh
        /\ e.by = f.by => e.fresh # f.fresh

\* An observer that is registered for as long as a read takes is told of it.
AllTold == missed = {}

EnvironmentIsTrue == EnvIsMerged /\ EventsAreKept /\ FirstOnly /\ AllTold

=============================================================================
