# TLA+ models of amp-common

amp-common is a library of Go packages. Most of them are small; the ones with
state that goroutines share (an object pool, an executor, actors, futures,
lazily made values, shutdown hooks, resolvers with a connection pool, state
machines) are where a mistake is hard to see and hard to test. This project
models those, checks the models with TLC and proves the most important
invariants with TLAPS.

1. [The parts of the system](#the-parts-of-the-system)
2. [How the modules are written](#how-the-modules-are-written)
3. [The modules](#the-modules)
4. [The runs](#the-runs)
5. [The proofs](#the-proofs)
6. [Where the code does not do what it says](#where-the-code-does-not-do-what-it-says)
7. [What is not modelled](#what-is-not-modelled)
8. [The plan](#the-plan)

## The parts of the system

| package | state | operations | what is hard | what makes it correct |
|---|---|---|---|---|
| `pool` | idle objects and counters owned by `loop()`, three channels, `running`, `outstanding`, a WaitGroup, gauges | `Get`, `Put`, `CloseIdle`, `Close` | timers of the callers race the answers of `loop()`; three channels are closed in an order while callers send | an object is with one caller at most and never lent after its Close; Close ends with everything back and closed |
| `simultaneously` | a channel of tokens, flag and channel state of the executor; WaitGroup and result channels of each call; results that the callbacks add | `DoCtxWithExecutor`, `GoContext`, `Close`; `MapSlice` and eleven siblings | a Close that overtakes a call; tokens on every way out; cancellation by the first error; transforms that end in any order | tokens are conserved; a call returns when its callbacks are over; nil means all succeeded; results are those of one goroutine |
| `retry` | attempt counter, a mutex, a future per attempt, the buckets of a budget | `Do`, `DoValue`, `Budget.sendOK` | an attempt that timed out is still running, and holds the mutex; windows that move by several buckets | the outcome is that of the last attempt; at most one operation begins late; buckets count what happened in their time |
| `actor`, `actor/gpqinbox`, `channels` | inbox, `dead`, response channels; priority queue and pump | `Run`, `Send`, `Publish`, `Request`, `Stop`, `Wait` | the end of an actor races senders and requests; panics of the processor | a message is processed once, in order; a request is answered or refused |
| `future` | result, `once`, callback lists | `NewError`, `Await`, `OnResult`, `Combine`, `Then` | registration of a callback races fulfilment | one result, every callback once |
| `maps`, `set` | trees, hash tables, insertion order, locks, layers of wrappers | all the map and set operations | rebalancing; iteration while another writes; a wrapper that turns one call into two; callbacks under a lock | the tree is a sorted set and stays balanced; containers are dictionaries; writers are alone |
| `lazy` | create function, value, a Once or a mutex and a flag | `Get`, `Set`, `Initialized` | `Set` races an evaluation that is running; panics | made once, everybody sees it |
| `shutdown`, `bgworker` | hooks, signal channel, contexts; lazily made worker pool | `SetupHandler`, `SetupDrainable`, `BeforeShutdown`, `Shutdown`, `Submit` | two signals; hooks that come late; tasks that register hooks | every hook runs once and before the context ends |
| `dns` | two connection pools, cache | `LookupHost`, `DialContext`, `Exchange`, `Close`; race, consensus, fallback, compare | Put races Close; servers that fail, cut answers short or lie; entries that run out; CNAMEs in a circle | no connection is shared or leaked; one liar is not believed; what is rejected is not dialed |
| `statemachine`, `/actions`, `/testing` | current state, path, history, data; the trace of the test engine; a clone of the data per parallel action | `Execute`, transitions, the composite actions | a next state nobody leads to; a call that goes on after an error; clones that are merged | the path follows the transitions; an action reports success when what it is made of has succeeded |
| `statemachine`, `/validator` | a configuration | `Validate`, `NewEngine`, `Build`, rules, fixes | searches cut short by cycles; fixes that break what was valid | a loop without a way out is found; a fix keeps a configuration loadable |
| `closer`, `using` | flags, mutexes, lists of closers; `released` | `Close`, `Cancel`, `Add`; `Use`, `Release` | several goroutines close one chain; one of several closers fails or panics; overlapping uses | closed once unless it failed; what was created is closed |
| `contexts` | `Done` channels, the context inside an atomic one | `NewBatmanContext`, `WithIgnoreLifecycle`, `NewAtomicContext`, `Swap`, `WithMultipleValues` | a swap or a cancellation between two questions | done means both parents are; what is ignored does not get through |
| `http/transport` | shared transports, lazily made | `Get`, `RoundTrip` of the decompressor | the first caller's context decides for all; a decoder that refuses a body | what is given is what was asked for; bodies are closed |
| `envutil`, `startup` | the environment, the record of reads, observers, the audit file; readers | `String` and siblings, options, `Combine`, `Split`, `Loader`, `ConfigureEnvironment` | reads are recorded while observers come and go and the record is written; errors of one of several readers | files are merged in order or not at all; no read is lost; a refused value gives no value |
| `validate`, `jsonpath`, `optional`, `xform`, `utils`, `errors` and others | little or none | | | see PROJECT.json |

How they interact: `actor` sits on the channels of `channels` and
`gpqinbox` and gives its answers as futures or through response channels;
`future` runs its functions in goroutines of its own or on an executor; each
attempt of `retry` is a future; `simultaneously` backs the concurrent map and
set helpers, the four strategies of `dns` and the parallel actions of state
machines; `bgworker` makes its pool with a `lazy` value and hands its stop to
`shutdown`; the DNS resolvers own a connection pool each, look up with `retry`,
are wrapped by strategies and a cache, and are the dialer of `http/transport`,
whose transports are lazy values; the configuration of all of them comes from
the readers of `envutil`, which `startup` fills from files and records into an
audit file until a hook of `shutdown` ends it; `contexts` carries overrides of
`envutil`; `maps` and `set` share the red-black tree, which is there twice.
`PROJECT.json` lists all packages with what is modelled of each, and the
hazards, each at its line.

The other packages (text, logging, telemetry, process and terminal I/O,
generated code, value types) keep no state that a model would say something
about.

## How the modules are written

* A step is one access to something goroutines share: a rendezvous on a
  channel, a read or write under a mutex, an atomic variable, a channel closed.
  What a goroutine does to its own variables goes with the step before or after.
* `pc` and its siblings (`lpc`, `kpc`, `wpc`, `stage`, ...) say where a goroutine is; the
  names of the places are those of the function and what it waits for.
* Data is abstract: an object of a pool, a message, a connection is an element
  of a set; a result is the set of those its error comes from. Pure functions
  (the strategies of `dns`, the rules of the validator, the options of readers)
  are operators, and the actions apply them to enumerated inputs.
* Errors, panics and timers that the environment decides on are
  nondeterministic. A panic no caller recovers is a `crash` of the program, in
  which nothing else happens.
* Definitions whose name ends in `_x` are a plausible mistake in the definition
  that follows. They are used by no specification: putting one in place of its
  original must break the property PROJECT.json names for it, which shows that
  the property can fail.
* Variables such as `early`, `late`, `excused`, `skewed`, `raced` are history:
  they record that something happened and guard nothing, except that `faults`,
  `dialed`, `signals` and `made` also bound a run.

## The modules

**Pool** (`pool/pool.go`). `loop()` is one
process: `lpc` is its select or the handler it is in, `idle` is `objectPool`,
`kept` the `remainder` of `handleCloseIdle`, `done` the closed channels it has
seen, `outstanding` and `gauge` its counts. A user `u` is in at most one call:
`GetStart`, `GetSend`/`GetTimeout`, `GetReturn`, and after a timeout `GetMake`
and `GetCount`, which is the object the caller makes for itself. `Close` goes
through the places of `cpc` in the order of the code: stop the drain, close
`getCh`, wait for `outstanding`, close `putCh` and `closeIdleCh`, receive the
result. **Lending** is the abstract specification: an object is made once, is in
stock or lent to one user, and once gone never comes back. The proofs are in
**PoolProofs**, the lemmas on lists it shares with other proofs in
**DistinctSequences**.

**Simultaneously** (`executor.go`, `collector.go`, `simultaneously.go`). Callers
share one executor. Each starts its callbacks one after the other; `GoContext`
is the sequence of its checks of `closed`, the receive of a token and the return
of it; a callback ends in `errorChan` or `doneChan`, the collector reads one
result per callback, cancels at the first error, waits and cleans up. `Close`
marks, takes all tokens, closes `sem`. A call or a Close may be made in a
callback of another call on the same executor (`within`), whose goroutine it
then is. The proofs are in **CallsProofs**.

**Actor** (`actor/actor.go`, `processor.go`, `channels/`, `gpqinbox/`).
One actor and its inbox, which is of one of five kinds: unbuffered, buffered,
the unbounded `InfiniteChan`, the heap of `channels.CreatePriority`, the buckets
of `gpqinbox` with the one message its pump holds. `submit` is a check of `dead`
and a send that can panic and is recovered; `Request` also waits; `Stop`, the
context and a panicking processor can come at any step. `fate` is history: what
became of each message; so are `earlier` and `passed`, which messages an inbox
took before each one and which it gave out while that one waited. The binary heap
that `container/heap` keeps is abstracted to the position of its least element
(`First`); what order that makes of all messages, while others arrive and with the
one message a pump has out of its queue, is `PriorityOrder`. The proofs are in
**TalkProofs**.

**Future** (`future.go`, `promise.go`, `executor.go`).
Sources are fulfilled by one goroutine or by two that share a promise; `fulfill`
is `once`, the result under `mu`, `close(resultReady)`, then the callbacks.
Callbacks are registered at any time. A derived future awaits the sources as
`Combine`, `CombineNoShortCircuit` or `Map` do, with or without a context. The
proofs are in **TalkProofs** as well.

**RedBlack** (`maps/red_black_tree.go`, and the copy in `set/`). The tree as the
code links it: `Remove` moves nodes, not keys, so a node is known by its key. The
two mirrored halves of each fixup are one definition with the side as a
parameter; a turn of a fixup's loop is a step, so that a loop without end is a
behavior. **SortedKeys** is what the sorted map and set promise; `asked` is the
last call, so that a Remove of one key cannot pass for a Remove of another. What
the operators do to a tree is proved in **SearchTrees**, and what holds of the
calls in **MapProofs**.

**Containers** (`maps/hash_map.go`, `ordered_hash_map.go`, `default_map.go`,
`default_ordered_map.go`, `set/set.go`, `default_set.go`,
`default_ordered_set.go`). Two containers of one of four kinds, each with `data`
(the entry under each hash) and `order` (the slice of keys), plain or wrapped so
that a missing key gets a default. Keys may collide, and one cannot be hashed.
Each method is one step, as the containers are not for sharing; what can go on
between two steps is an iteration over `"a"` whose body changes it. For it
`cells` is the array the range statement reads, which a Remove of an ordered map
shifts in place (`Overlay`) and an append or a new slice may leave behind.
**Dictionary** is what the interfaces of `maps/types.go` and `set/set.go`
promise, each call with its arguments and its result in `ret`.

**Locked** (`maps/thread_safe.go`, `thread_safe_ordered.go`,
`set/thread_safe.go`). Two containers, each with a `sync.RWMutex` of its own:
`readers` and `nested` hold the read locks, `writer` the announced Lock that
keeps new readers out, `queued` the readers that wait for it. Add, Remove and
Contains are under one lock; Union and Intersection hold their own read lock
and take that of the other container, which may be the same one, for a snapshot
or once per key. `possible` is history: what a call would return if it all
happened now, collected while it runs. `Waits` says who cannot go on for now, in
terms of the locks; `NobodyElseWaits` checks that it says so of every step of the
model. The proofs are in **MapProofs** as well.

**Lazy** (`lazy/`). Kind `"of"` is `Of` and `OfCtx`: a `sync.Once` that a panic
replaces. Kind `"err"` is `OfErr` and `OfCtxErr`: a mutex and the flag `done`.
`guard` is the Once or the mutex, `create` and `value` the atomic pointers,
written in the order of the code.

**ConnPool** (`dns/tcp_connpool.go`, `dns/udp_connpool.go`, `exchangeTCP`). The
channel of idle connections, `closed` under its mutex, and users that take or
dial a connection, query, and put it back or close it.

**Shutdown** (`shutdown/shutdown.go`, `bgworker/bgworker.go`). The loop over the
signal channel (`Receive`, `CloseChannel`, `ClearChannel`), `Shutdown` with its
two reads of the variable, `cleanup` by the handler, by the caller of
`DrainComplete` or by the drain timeout, `BeforeShutdown`, and the tasks of the
worker pool whose stop is a hook. `pond`, the worker pool, is modelled from its
use: a stopped pool refuses tasks, and stopping waits for those it has. The
proofs of Lazy, ConnPool and Shutdown are in **CallsProofs**.

**Gather** (`simultaneously/map.go`, `ordered_map.go`, `set.go`,
`ordered_set.go`, `slice.go`). The twelve functions that transform a container.
`fn` is the function as a record (what it makes, whether in order, whether the
callbacks add their results themselves or leave them at their index), `task`
where each transform is, `filled` the results at their indexes, `ret` what is
returned. Of `DoCtxWithExecutor` only what the functions rely on is there: at
most so many callbacks at once, the rest canceled after an error, a return when
all are over; *Simultaneously* is about that.

**Retry** (`retry/retry.go`, `backoff.go`, `jitter.go`, `error.go`). `pc` is
where Do is in its loop; attempt `n` has an outer goroutine, an inner one if
there is a timeout, and a future `fut[n]`; all operations go through `mut`. The
check of `running` under the mutex (`Locks`) and the operation (`Begins`) are two
steps: the deferred `running.Store(false)` takes no mutex and can come between.
Delays are integers of a few bits, so that the exponential backoff overflows as
it does in the code. The proofs are in **CallsProofs** too. **Budget**
(`retry/budget.go`): the two moving rates as the code shifts them (`forward`, `shift`), against
`events`, the true times; proofs in **CallsProofs**.

**Wrappers** (`maps/`, `set/`: thread-safe and default wrappers in any order).
`stack` lists the layers; a call is a stack of frames that goes down layer by
layer; what each wrapper does with a method is in the tables at the head of the
module. A callback may call the container from the outermost layer again. `LayerRLock`,
`LayerLock` and so on are the calls on the mutex of one layer. `IsWaiting` says who waits
for a lock, and `OthersGoOn` that nothing else stops a caller. The proofs are in
**WrappersProofs**.

**CaseMap** (`maps/maps.go`): the three Go maps of `CaseInsensitiveMap`.

**Engine** (`statemachine/engine.go`, `context.go`, `transitions.go`,
`states.go`, `testing/`). `Execute` begins a call; `Enter`, `StateSucceeds` or
`StateFails`, `EndComplete`, `EndNoTransition` and `Transit` are its loop in the
order of the code: path before the state runs, transition chosen before the data
of the result is merged. `findTransition` is a function of the list of
transitions. A call that ended in an error may be made again with the same
context. The trace is that of the TestEngine's hooks. The proofs are in
**MachineProofs**, with those of Environment and Transport.

**Actions** (`statemachine/composite.go`, `context.go`,
`statemachine/actions/composite_actions.go`). A tree of actions; `st` and `at` say where each is, `data` the
data of the context and of each clone. Parallel kids run interleaved; a merge
takes their clones in the order `arrived`. Proofs in **MachineProofs**.

**Validator** (`statemachine/config.go`, `builder.go`,
`validator/rules.go`, `fixer.go`). A configuration is data; the rules are
operators that follow the code's searches (the depth first search for cycles
with its visited set and its recursion stack, `Dfs`), and the actions are the
fixes, one after the other.

**Closing** (`closer/`): `layers` is a chain of wrappers, innermost first, over
a `Closer` with a `list`; each layer has its mutex, its flags and the steps of
its Close on the way down and on the way up. **Using** (`using/`): overlapping
uses of one `Resource`, whose flag `released` they share; `NewResource` is a
table of what each constructor creates and closes. The proofs of both are in
**MachineProofs**.

**Resolve** (`dns/`: the resolvers, `lookup.go`, `cname.go`,
`filter.go`, `race.go`, `consensus.go`, `fallback.go`, `compare.go`, `cache.go`,
`dialer.go`). A lookup is one step per record type (`Query`), as the three are
asked concurrently and the clock may tick between them; an answer is stamped with
the time it came (`at`), the cache entry with the time it was made (`since`). The
strategy, the CNAME walk and the filter are operators of what the servers know and of
the weather (`"up"`, `"down"`, `"cut"`, `"short"`); the addresses are cached for the
smallest TTL (capped, `maxCachedTTLSeconds`, then clamped), filtered for the network and
dialed one after the other.

**Environment** (`startup/startup.go`, `envutil/record.go`). `stage` is where
ConfigureEnvironment is; EnableDedupKeys is two of its steps, the flag (`EnableDedupKeys`)
and the reset of the keys seen under their mutex (`ResetSeenKeys`), between which readers
look at both. A read is `epc`'s sequence of checks: recording, the key under dedup, the mark
of the key, the record, the copy of the observers, the notification. The writer takes
batches of events to the file, and loses any event it fails to write, until the hook of the
shutdown closes it. Two fields of an event are history: `after`, the events of the same key
that were marked when it looked for the key, and `fresh`, whether it marked the key after the
reset. **Readers** (`envutil/reader.go`,
`options.go`, `combine.go`): readers as values, options applied one
after the other, combinations taken apart again. `whole` is a tuple of readers.

**Contexts** (`contexts/`, `envutil/loader.go`): a context is its number; its
`parents` and the channels `chans` it has kept are those of the code, so that
a swap changes the first and not the second. **Transport**
(`http/transport/instances.go`, `transport.go`, `decompressor.go`): callers of
Get with options and a context, the shared instances, and the body of one
response each.

**MCPool** and **MCTalk** (Actor and Future), **MCCalls** (Simultaneously,
Gather, Retry, Budget, Lazy, ConnPool, Shutdown), **MCMaps** (the modules of
`maps` and `set`) and **MCMachines** (all the others) give the constants their
values and run their modules side by side, one per behavior: `part` says which.
They extend the modules that have theorems, so that TLC evaluates the assumptions
of these on every run, and instantiate the others.

## The runs

| run | question | bounds, and why they are enough |
|---|---|---|
| `pool_safety` | Is any object shared, lent after its Close or lost; do the counts agree; is every step one of Lending? | 2 users, 1 closer, 2 objects, timers, 1 failing Close. Sharing takes two users or one user and the stock; an object can be lent, timed out, and replaced by another. Users and objects are symmetric |
| `pool_live` | Does Close return, and every Put? | 2 users, 1 object, no timers (with them the answer is no: next run) |
| `pool_drain` | ... with timers? **No** | 1 user, 2 objects |
| `calls` | Are tokens conserved and answers true whatever Close and cancellation do? Are the results of the twelve functions those of one goroutine? Does `Do` return what its last attempt did, and nothing begin late? Do the buckets count what happened? Is a lazy value made once, a connection neither shared nor leaked, every hook run once, in order? Does every call end? | calls of 2 and 1 callbacks, 2 tokens, a closer, one call can be canceled: more callbacks than tokens, two calls that compete; the smaller call, or the Close, also in a callback of the other. Containers of up to 3 entries, keys that collide and one that has no hash, results of up to 2 entries that clash. 2 or 3 attempts with timeout, jitter and budget, delays of 3 bits that overflow. A window of 2 buckets of 2 ticks, 8 ticks: the window moves by less, as much, and more than its length. 3 getters and a Set; 3 users, 2 places and 3 connections; 1 signal and 1 Shutdown, 1 hook, 1 task that registers another |
| `calls_crash` | Can Close of an executor bring the program down? **Yes** | 1 call of 3 callbacks, 1 token |
| `connpool_put` | Can Put of a connection pool panic? **Yes** | as in `calls` |
| `talk` | Is each message in one place, processed in the order of weight and age, answered truthfully, and does the actor end? Are results of futures final and true, are callbacks run once, is every future fulfilled? | 3 callers (a send, a request and one with a context, of two weights), every kind of inbox with bound 1 or 2 where it has one. 2 sources, one of which is fulfilled twice; a callback on a source and one on the derived future; all six derivations |
| `talk_request` | Does every Request return? **No** | 2 callers |
| `maps_all` | Is the tree always a sorted set of what was added, colored, balanced as long as no black leaf went? Are the hash containers dictionaries, do their indexes agree, what does an iteration see? Are writers alone under the locks, and who gets stuck, in any layers of wrappers? | 6 keys in the tree: fixups climb two levels and all their cases occur. 5 keys in the hash containers, two that collide, one that cannot be hashed; 1 key in the other container (`MaxOther`), 2 calls in an iteration (`MaxCalls`): enough to add and remove under it. 2 callers, one Union or Intersection and 2 keys under the locks. Up to two wrappers in any order and one stack of three; one caller with any method and any callback, another that asks or writes |
| `redblack_returns` | Does every Remove return? **No** | 5 keys, the fewest for it |
| `machines` | Do path, history and trace of an engine tell the same story, does a step go where it was asked to? Is the report of a composite action true? Are loops found, do fixes keep a configuration valid? Is a chain of closers closed once? Is a liar believed, an old address used? Are files merged in order, events kept, observers told? Do errors of readers get lost? When are contexts done, and what do they say? Is a transport what was asked for? | 4 machines after the fixtures (a line, a loop, a branching one that is not canceled, one with states of the program), paths of 5: a loop is gone through twice. 16 trees of depth two with every action. All configurations of three states and an end with up to two transitions each, one fix after them. Chains of up to three wrappers, 2 goroutines with 3 calls. 3 servers (truthful, older, lying), a circle of CNAMEs with an address beside it and a long chain, 2 lookups, 4 ticks, a cap of 2 on the TTL: an answer waits, an entry is used, and runs out. 2 files that overlap, in 5 starts; 3 goroutines that read twice. Tuples of 2 to 6 readers, 5 options. 4 contexts: a batman context, an atomic one and their parents. 2 callers of Get with 7 sets of options and 4 contexts |
| `combine_five` | Does a combination of readers have a value only if all have? **No**, from five readers on | as in `machines` |

Where a caller does one call only, what a second call would find is a state
another caller's call finds. `CHECK_DEADLOCK FALSE` is in the runs of programs
that end, and of RedBlack once it has crashed; where a stop would be a defect a
liveness property or a named state (`Wedged`, `Starved`, `crashed`, `skewed`,
`NobodyIsStuck`) finds it. The runs of MCMaps have a VIEW that leaves out
`asked` and `ret`: no step and no invariant looks at them, and the two
refinements that do are checked on every step.

The properties worth knowing:

* *Pool*: `Exclusive`, `NeverLendClosed`; `Accounting`, which says that the count
  of objects in use may be too high and never too low; `EndsClean`: as long as
  no timer has fired, Close ends with everything back and closed;
  `ImplementsLending`.
* *Simultaneously*: `ExecutorIsSound`: tokens are conserved on every way out,
  Close returns when no callback runs, and only a Close that overtakes a call
  brings the program down; `ResultsAreTrue`: a call returns when its callbacks
  are over, nil means that all have succeeded, a canceled context has a cause.
  Calls and Close return (`AllReturn`) unless all tokens are for ever with
  callbacks that wait for one (`Starved`): a callback that closes its executor, or
  one that calls it when nothing else is left to give its token back.
* *Gather*: `GatherIsTrue`: an ordered container is what one goroutine would
  have made in the order of the items, any other one what it would have made in
  some order; nothing but a result says that all went well.
* *Retry*: `RetryIsTrue`: the error is that of the last attempt, of its time, of
  the context or of the budget; the value is that of the operation that
  succeeded unless one that was given up ran after it; once Do has returned at most
  one operation begins (`OneLate`), that of an attempt that was given up and had
  the mutex by then; the delay is capped although it overflows. `BudgetIsTrue`:
  whatever gaps there are between calls, each bucket counts what happened in its time, and a retry is refused only if
  there have been retries and calls came too fast.
* *Actor*: `InboxIsTrue`: messages are in one place, Stop drains, and exactly
  when an actor that is gone still says that it is alive; `AnswersAreTrue`;
  `PriorityOrder`: whatever goes before a message that waits is of a higher level
  or older, in each kind of inbox, but for one message that the pump of a gpq inbox
  held when the other came (`gpqinbox.go:203-207` calls it a one-item inversion);
  `AcceptedIsHandled` and `StopEnds` hold unless the processor is `Wedged`.
* *Future*: `FutureIsTrue`: callbacks fit, and which error a combination may
  have; the context may hide it. `CallbacksRun`, also for one registered during
  `fulfill`.
* *RedBlack*: `ImplementsSortedKeys` holds in every reachable state, of
  unbalanced trees too; balance and the return of calls hold until a black leaf
  is removed.
* *Containers*: `IndexesAgree`: the slice of an ordered container holds the keys
  of its entries, each once, also after a failed call; `LoopsAreTrue`: an
  iteration over an ordered map is disturbed by a Remove in its body and by
  nothing else; `ImplementsDictionary`: a collision makes a call fail and loses
  nothing, except in Map and FlatMap, which drop an entry. `CasesAgree`: the
  three indexes of a case-insensitive map agree.
* *Locked*, *Wrappers*: whoever changes a container is alone in it, unless it
  supplies defaults; a Union is what some moment of its call would have given;
  only a caller that waits for its second read lock can be stuck; and of
  callbacks only those of Filter, FilterNot, Map and FlatMap must not call the
  container.
* *Lazy*: `LazyIsTrue` says who can get a zero value although a value or panic
  was due: one that overlaps with a Set or with a panicking Get.
* *Shutdown*: `ShutdownIsOrderly`: only a second request can panic; and only a
  task that registers a hook while the hook of its pool waits for it can hang.
* *Engine*: `PathIsTrue`: path and history are one walk over registered
  transitions, from where the call began to where the machine is; the end is one
  some state has called so. `StepsAreTrue`: a step goes to the state that was
  asked for if it may; an error moves nothing; after a cancellation no state is
  entered.
* *Actions*: `ReportIsTrue`; `MergeKeeps`: what a kid wrote is there after the
  merge, or was overwritten by another kid, or by the old value another kid had
  copied.
* *Validator*: `LoopsAreFound`: although the search is cut short by every cycle
  and its stack is not cleaned up, the rule warns if and only if there is a
  cycle no final state can be reached from. `FixesKeepValidity`: which fixes can
  break a configuration: a transition added to a state that does not exist, and the
  removal of a final state or of the initial one.
* *Closing*: `OnceIsOnce`: a chain with a CloseOnce closes a list once unless it
  failed, and never twice at a time; no mutex stays locked by a panic. *Using*:
  what a Use created is closed, or kept by a Release that nobody has reset.
* *Resolve*: `RogueIsAlone`: of three resolvers one that lies is not believed,
  nor cached; `OnlySuitable`; `NothingIsLate`: a cached address outlives its TTL (or the
  minimum) by no more than its answer waited for those of the other types;
  `CirclesAreErrors`: a circle of CNAMEs is an error, though the servers add the address of
  a name beside it.
* *Environment*: `EventsAreKept`: an event is in the record, with the writer, written, or
  lost by a failed write, and once; `FirstOnly`: with the keys deduplicated, a read that
  looks for its key after another has marked it is recorded only if the reset of
  EnableDedupKeys comes between the two marks, so a goroutine records a key at most once
  before the reset and once after it; `AllTold`: an observer that is registered for as long
  as a read takes is told. *Readers*: `RefusedIsError`: in any order of options a
  refused value gives no value.
* *Contexts*: `BothAreDead`, `DoneSaysWhy`, `ShelterHolds`, `SaysTheSame`, each
  with the swap of an atomic context as its only exception. *Transport*: `AsAsked`: a shared
  transport verifies as its caller asked, and refuses private addresses exactly if the caller
  asked for AmpersandDNS *and* PublicOnly; `SameForAll`; `BodiesAreClosed`.

### Fairness

A goroutine that can go on does (weak fairness of its steps): the Go scheduler
is preemptive. The receives of the pool's `loop()` that compete in a
`select` have strong fairness: a ready case is picked at random, so a case that
is ready infinitely often is picked. A mutex or `Once` of Lazy and Shutdown that
is free again and again is obtained in the end (strong fairness): `sync.Mutex`
has a starvation mode; a channel serves those who wait for a token in the order
of their arrival, which the SF of Simultaneously says. In MCCalls one formula
(`Obtains(i)`) states this for the i-th waiting goroutine of each part, which is
the same, as only one part runs. Functions given by callers (callbacks,
operations, processors, create functions, hooks, tasks, states, actions) return
or panic; users of a pool put back what they got. Nobody is obliged to start a
call, to cancel, to signal or to close. In Shutdown the drain timeout fires; in
Pool and in Retry no fairness forces a timer. Resolve, Environment, Contexts,
Transport, Closing and Using have no liveness property: their calls are finite
sequences of steps, and who waits for a mutex there is covered by `PanicsAreHeld`.

## The proofs

`PoolProofs` proves for any sets of users, closers and objects, with or without
timers and for any bound on faults:

* `PoolInvariant`: `Spec => []IInv`;
* `PoolExclusive` and `PoolNeverLendsClosed`, the two properties of the run, and
  `PoolTypeOK`, which follow from it;
* `PoolImplementsLending`: `Spec => ImplementsLending`, the
  refinement the run checks. `Stock`, `Owned` and `Gone` say where Lending sees
  an object. There is a lemma for each thing that can happen there (`Keeps`,
  `Lent`, `Returned`, `Forfeits`, `Discarded`) and each action is shown, under
  `IInv`, to be one of them: a GetTimeout with an answer on its way forfeits an
  object, a GetReuse for a caller that gave up discards one.

`Exclusive` is not inductive alone. `loop()` pops an object in one step and
hands it out in another to the user `cur` it serves, and that user may have given
up. One has to know that `cur` is a user while a request is served, that its
reply is empty while it waits, that an object under way (`arg`) exists at the
places "getCount" and "putSend" only and a reply at "getWait" only, and that
`kept` is empty outside of `handleCloseIdle`: this is `Control`. That an object
made by the factory is new to everybody needs `Known`: what anybody has was made
before. `NeverLendClosed` needs `Exclusive`: the one who closes an object is the
only one who has it. So

    IInv == TypeOK /\ Control /\ Known /\ Exclusive /\ NeverLendClosed

which TLC checks in `pool_safety` as well. The proof has one lemma for each way
in which the places of objects change (nothing moves, one object moves between
users and stock, the stock alone changes), and one step per action in which the
action is shown to be one of these ways. The lemmas on sequences without
repetitions (`TailOfDistinct`, `AppendDistinct`, `ShuffleDistinct`) are in
`DistinctSequences`, as the proofs of the connection pools use them too. The only
assumption is `PoolAssumption`: that the constants `None` and `Failure` are no
objects, that the set of objects is finite, and the types of the two others.

Two more are about the end of the pool:

* `PoolAccounts`: `Spec => []Accounting`, the count of loop() and its gauges;
* `PoolEndsClean`: `Spec => []EndsClean`.

Neither is inductive. That `outstanding` is exact while no timer has fired needs
`Patient` (nobody makes an object for itself, and whoever `loop()` serves still
waits, so that what is counted is also received) and, when a Put panics on the
closed channel or is refused, that this cannot happen to an object in use: the
channel is closed after `stopDrain` ran (`Ending`, the order in which Close and
`loop()` end the pool), and `stopDrain` ran when the count was zero, so that
nobody had an object and nobody got one since (`Settled`). `Found` says where
each object made is. So

    Books == IInv /\ Patient /\ Ending /\ Accounting /\ Settled /\ Found

A step of the pool does one of four things to the objects in use and their
count (`InUseMoves`): nothing, one more and counted, one less and counted, or,
after a timeout, some less that stay counted or one counted that nobody
receives. `CountKept` is then a fact on the
cardinality of finite sets; `Objects` is finite by `PoolAssumption`.

`CallsProofs` proves for any finite set of calls, any number of callbacks
in each, any number of tokens, any set of closers, and any of them within any
callback:

* `ExecutorInvariant`: `Spec => []IInv`;
* `ExecutorSound` and `CallsTruthful`: the two safety properties `ExecutorIsSound`
  and `ResultsAreTrue` of the run `calls`, type correctness and the bounds of all
  channels and counters included.

None of these is inductive alone. That a call without an error has run all its
callbacks (`NilMeansAllRan`) is a matter of counting: `Counting` says that what
waits in the channels and what was collected are the results that were sent, no
more and no fewer, so that `Size` results without an error are `Size` different
callbacks that succeeded, and those are all (`PartOf`). That nothing is running
when the call returns (`ReturnsAfterAll`) needs `Waiting`: the WaitGroup counts
exactly the callbacks that were announced and have not called Done, the one
that is being started among them; and `Launches`: which callbacks have been
started follows from `next` and `pc`. Tokens are conserved (`Tokens`) because a
callback that is about to be started holds none (`Holding`). That a send panics
only after an early Close (`CrashIsShared`) needs both: `ReturnsAfterAll` rules
out the send on a collector's channel, and `Tokens` the release of a token after
Close has taken all of them (`Shut`), so that only the caller between its two
checks of `closed` is left, whose call has not returned. So

    IInv == Typed /\ Launches /\ Outcomes /\ Holding /\ Own /\ Tokens /\ Shut
              /\ Waiting /\ Counting /\ ReturnsAfterAll /\ Causes

with one lemma for each conjunct and in it one step for each action that can
disturb it. Lemmas on one step (`CallerEffects`, `TaskEffects`, `Elsewhere`,
`OtherTasks`) say what it leaves alone. The only assumption is
`SimultaneouslyAssumption`: the types of the constants, and that the calls are
finitely many.

`TalkProofs` proves of *Actor*, for any set of callers, each with any kind of call
and any weight, any number of buckets and any set of inboxes with any bounds:

* `ActorInvariant`: `Spec => []AInv`;
* `InboxTruthful` and `AnswersTruthful`, the invariants `InboxIsTrue` and
  `AnswersAreTrue` of the run `talk`;
* `PriorityKept`: `Spec => []PriorityOrder`, of the whole history of an inbox.

`First`, the position of what is delivered next, is a CHOOSE: that it chooses
anything needs `Undominated` (a finite set that a relation orders strictly has an
element below no other), applied to rank and position. `HoldFacts`,
`EnqueueFacts` and `TakeFacts` then say of the two places of a gpq inbox, the
queue and the message the pump holds, that together they gain and lose exactly
one message, whichever of them changes. `StopDrains` is not inductive: that
nothing is left when the run loop ends holds because a pump that is gone has left
nothing (`Ending`) and what is taken is in the hands of the run loop
(`Placed`, `InHand`). `AnswersAreTrue` needs that whoever has not been accepted
yet is known to nobody (`Answered`), so that a recovered panic of the send may
say ErrDeadActor. So

    AInv == TypeOK /\ Line(queue, top) /\ Backpressure /\ Placed /\ InHand /\ Ending /\ Answered

For the order of delivery a second invariant, `OInv`, is carried along: the queue is
in the order of arrival (`Aged`, which RemoveAt keeps), and each message behind the
one a gpq pump holds either has seen nothing out of turn yet, or it has seen one and
the held one goes before it (`Ahead`): what is taken out of the queue next goes
before all that stay (`FirstGoesBefore`), so a second inversion cannot come. That
the ranks of heap and buckets are in the order of the weights, up to the number of
buckets, is `RankIsLevel`.

The only assumption is `ActorAssumption`: the types of the constants, and that
`None` is no caller.

Of *Future*, for any number of sources, goroutines that fulfill them, and
callbacks, it proves

* `FutureInvariant`: `FutureSpec => []FInv`, and `FutureTruthful`: the invariant
  `FutureIsTrue` of the run `talk`;
* `ResultKept`: `FutureSpec => ResultIsFinal`, its action property.

That a callback runs once at most is a matter of the place where it waits:
`Lists` says that it is with its future or with the goroutine that fulfills it,
and with one of them only. Whether a registration finds the result or leaves its
callback is decided under the mutex, and `Locks` and `Results` say that
whoever finds the mutex free finds a future that nobody has begun to fulfill or
one whose result is there; in between, the mutex is with the one goroutine the
Once has let in. The errors of a combination are what its loop has learnt so far
(`Learnt`), which stays true as results are final. So

    FInv == FutureTypeOK /\ Locks /\ Results /\ Lists /\ CallbacksFit /\ Causes /\ Learnt /\ Derived

`FutureAssumption` gives the types, lets a goroutine fulfill one source only, and
asks for a source where there is one to map.

`CallsProofs` proves of *Lazy*, for any set of goroutines in `Get` and both
kinds of lazy values,

* `LazyInvariant`: `LazySpec => []LInv`, and `LazyIsSound`: the property
  `LazyIsTrue` of the run `calls`.

Who got no value is told by `NilHasCause`: as long as there is none, what makes
a Get skip the create function is a Set that is between its two stores or a
panic that is being recovered, and everybody inside at that moment is excused.
It needs `Guarded` (the Once or the mutex is with the one who runs the create
function), `OneValue` (the function is there only while it has made nothing, or
until the one that made the value clears it) and `SetIsLast` (once Set has taken
the function away, only one that was running can still store a value). The
assumption `LazyNames` is that the names of a free and of a finished guard are no
goroutines.

Of *ConnPool* it proves `ConnectionsAreKept`, the property `ConnsKept` of the run
`calls`, for any users, capacity and bound on what is dialed (`ConnBounds`: the two
are numbers). The invariant `CInv` adds to it who has a connection at which place
(`Control`), and that the channel is closed before it is drained.

Of *Shutdown*, for any hooks, callers of `Shutdown` and tasks, and for any number of
signals, it proves `ShutdownInOrder`, the property `ShutdownIsOrderly` of the same
run. That no hook runs twice or after the context ended is not inductive: `Hooked`
says that the hooks that have run are a beginning of those the cleanup took, that
these are all there are while the mutex is held, and that they were all run when it
is free again; `OneCleans`, that there is one cleanup at most. That only a second
request can panic is a count: no more signals are received and buffered than were
sent (`Counted`).

Of *Retry* it proves, for any operations, numbers of attempts, budgets and delays,

* `RetryInvariant`: `RetrySpec => []RInv`, and `RetryTruthful`: the property
  `RetryIsTrue` of the run `calls`.

The hard part is that an attempt that was given up still runs. `Places` ties the
mutex and the futures to where the two goroutines of each attempt are;
`InTurn` says that no attempt is ahead of the loop; `FuturesAreTrue` what the futures
may hold, also once Do has told those that wait to stop; `Passed`, that the loop
left an attempt behind only for an error; `Written`, whose value is in the variable
that the operations share; `Latest`, that an operation which begins after Do has
returned is the only one, as it had the mutex. `DelayIsCapped` follows from the clamp whatever the
power overflows to. The provers do not know `^`: that the powers in the delays
are numbers is an assumption (`DelayAssumption`, with the base delay below the
largest one, as all defaults have it); `OptionsAssumption` gives the types of the
options, with at least one attempt: an option of 0 attempts means no limit, and the
model, which numbers the attempts up to their limit, leaves that out.

Of *Budget* it proves, for any length and number of buckets, any limits and times,

* `BudgetInvariant`: `BudgetSpec => []BInv`, and `BudgetsTellTruly`: the property
  `BudgetIsTrue` of the run `calls`.

`Sound` says of a movingRate, the events it has counted and its first use that each bucket
has the events of its slot of time (`Slot`, a quotient; the model's `timeRoundDown` is a multiple
of it, `InSlot`). What `shift` keeps, whatever the gap, is `ShiftKeepsTheLast`; new buckets are
empty as no event is later than the last update. A retry is refused with a reason since a count
that is zero makes no quotient greater than a limit, division by zero included
(`NothingIsNotTooMuch`), and no count is negative: that is an induction on the recursive
function in `Total`, which goes by its first value that would be wrong (`FirstIndex`).
`BudgetAssumption` asks for buckets that have a length and limits that are not negative.

`MapProofs` proves of *Locked*, for any set of threads, containers and keys,

* `LockedInvariant`: `LockedSpec => []LInv`, and `LockedIsSound`: the property
  `LockedIsTrue` of the run `maps_all`.

`Mutexes` says what the locks hold in terms of where the threads are: a writer is
announced from its Lock to its Unlock and alone once inside, a reader is counted
once per read lock it has, and whoever is queued waits for an announced writer. That
writers are alone is then at hand, and that nobody is stuck is an argument on
this invariant: if nobody could go on, a thread that is not done waits for a writer,
the writer for a reader, and that reader for its second read lock, which is the
exception. That a Union is what some moment of its call would have given is
`Joining`: what would be returned now is always among the collected, a key that an
Intersection still has to ask for is still in its own container, whose read lock it
holds. `LockedAssumption` gives the types, and that `None` is no thread.

`WrappersProofs` proves of *Wrappers*, for any layers, callers and keys,

* `WrappersInvariant`: `WrappersSpec => []WInv`;
* `WrappersAreSound`: `WrappersSpec => []WrappersAreTrue`, the invariant of the run
  `maps_all`.

A call is a list of frames of any length, and each conjunct says something of that list
which a step keeps as it changes the last frame and adds or takes away one. `Makes`: which
call a call can have made, by its method and by how far it is. `Deepens`: below a call that
loops over nothing, or that copies the entries, every call is in a deeper layer; below any
other one, too, unless a function was called back in between. `FromCall`: a call that
loops is the one that was made from outside, or the Seq of a default set. `LocksAgree`:
the locks of a layer are those of the frames that have them. Then whoever changes
the container was called by a frame of the last layer that has its write lock
(`BaseIsLocked`), and one argument says who can be stuck: if all that run wait, take one that
waits in the deepest layer. It waits for a reader, or for a writer who waits for a reader there
(`WriterWaits`), and that reader waits in no deeper layer; so its call loops with the
lock held and has called back (`ReaderCallsBack`), which the four methods do, except
where a default set is on top of the lock. That a clone is wrapped as the container
is goes by the recursive function in `Result`, from the innermost layer outwards.
`WrappersAssumption` gives the types, that `Nobody` is no caller, and that a function which
is called back calls nothing that calls back in its turn.

`SearchTrees` and `MapProofs` prove of *RedBlack*, for any number of keys,

* `TreeInvariant`: `Spec => []RInv`;
* `TreeStaysLegal`: `Spec => []TreeIsLegal`, the invariant of the run `maps_all`;
* `TreeImplementsSortedKeys`: `Spec => ImplementsSortedKeys`, the refinement of it.

A tree is a record of links, and what matters about it (who is below whom, how many
black nodes are on a path) is given by recursion. The proofs do not go by recursion.
`Shape(t, S, sub)` says of *some* function `sub`, for each node, which keys are at
and below it: itself and those of its two children, which are smaller and larger.
A rotation changes `sub` at two nodes (`TurnedSub`, `RotateShape`), an insertion adds
a key to it along one way down, a removal takes one out, wherever it is; each is
a lemma that gives the new `sub`. Likewise `Heights` says of some numbers that they count
the black nodes below each node, and a turn keeps the numbers (`TurnHeights`).
What needs an induction (a search ends at the key, or where it belongs; what is below a
node has its way back to it; `BlackIsConstant`, from the supplied numbers to the count
of `Balanced`) is one on numbers up to `MaxKey`, as the keys below a node get fewer on
each way down: `SetInduction` says it of a set of numbers, and is proved from a
least counterexample. The loops of the code are recursive functions on
`0 .. MaxKey`, which `IteratesExist` shows to have the values they should.

`Legal` is what a fixup may rely on and has left to mend:

    RInv == \E S : skewed \in BOOLEAN /\ Legal(Tree, S, fix, at, skewed)

While `fixupPut` runs, the node it is at is red and the one node that may have a
red parent; while `fixupDelete` runs, the node it is at counts as black whatever its color.
When that node is red, which is when a black node with one child was removed, one step ends
the fixup; when it is black the tree is skewed, and `Legal` keeps only that
the colors are right. That is why `fixupPut` never follows a link that is nil: the root is
black, so a red parent is not the root and has a parent (`UnclesAre`).
The refinement rests on the same lemmas: `Content`, which is read off the links, is `S`.
The only assumption is `MaxKeyAssumption`: there is a key.

`MachineProofs` proves of *Engine*, for any machines, data and bound on the path,

* `EngineInvariant`: `EngineSpec => []EInv`;
* `EnginePathIsTrue`: `EngineSpec => []PathIsTrue`, and `EngineTakesTheRightOne`:
  `EngineSpec => StepsAreTrue`, an invariant and an action property of the run
  `machines`.

`Story` says of the call that is running that the states it has entered are where
the moves it has made lead to (`Way`), with one state more from the moment a state
is entered until a transition is taken, which is what relates two lists that grow at
different steps and were cut at the same call. `Registered`: every move is a
transition; `Traced`: the trace is the path; `EndKept`: what an end rests on. That
`findTransition` returns the *first* transition that holds needs that a set of
positions has a least element, which is `LeastNatural`, from the well-foundedness of
the natural numbers. `EngineAssumption`: the transitions are a list, and a state is
of one of the four kinds.

Of *Actions* it proves, for any trees of composite actions and any answers of the leaves,
conditions and validators,

* `ActionsInvariant`: `ActionsSpec => []ActionsIInv`, and `ActionsReportTruly`: the property
  `ReportIsTrue` of the run `machines`.

The invariant goes by node (`NodeIsTrue`), each of which is tied to its own kids only: nobody is
on its way whom its parent does not wait for (`OnlyAwaited`), whoever is waited for comes
(`AwaitedCome`), and what a node that runs has behind it, as its kind asks (`Progress`).
A step changes a node and, at most, the state of one kid, which has one parent
(`ActionsAssumption`: a node is called from one place); all others are as they were.

Of *Environment* it proves, for any files, options, observers, environments and
goroutines that read,

* `EnvironmentInvariant`: `EnvironmentSpec => []NInv`, and `EnvironmentsAreTrue`: the
  property `EnvironmentIsTrue` of the run `machines`.

`Loading` says that the loader is the merge of the files that are no longer `ahead`: for
each variable the last of these that has it. `Setting` says that a variable is what the start
makes of it (`Final`, which depends on the environment before the start only), or still what it
was and ahead; a variable that came up twice would be set to the same value.
That an event is recorded once rests on its number: the read that is about to record it has a
number no event and no other read has (`Numbered`). `Deduplicated` is about the events whose
keys are marked (`Marked`), recorded or not yet: their keys are seen, unless they were
marked before the reset and the reset is over (`MarksAreSeen`); of two with one key, the
one that looked after the other's mark is `fresh` and the other is not, and so for two
of one goroutine (`MarksAreFirst`); and whoever has looked and will mark is sure of it, for
what it knew of and for its own (`About`). As the number of who has not yet marked belongs to
no marked event (`NotYetMarked`), nobody has looked after that mark, and a mark keeps
`MarksAreFirst`. `FirstOnly` is that for the recorded ones. That no observer misses a
read is `Watching`: whom an event is owed to is registered until the copy is taken, and in the
copy or told from then on; an observer that goes takes the debt with it. `Auditing` says that
the writer has a batch only while it writes, so that it takes no new one over it.

    NInv == EnvironmentTyped /\ Loading /\ Setting /\ Auditing /\ EventsAreKept /\ Numbered
              /\ Deduplicated /\ Watching

`EnvironmentAssumption` gives the types: finitely many variables, files that are a list.

Of *Transport*, for any clients, options and contexts, it proves

* `TransportInvariant`: `TransportSpec => []TInv`, and `TransportsAreTrue`:
  `TransportSpec => []TransportIsTrue`, the part of `LifetimesAreTrue` that is about it
  (`AsAsked`, with both halves of what refuses private addresses).

`Choosing` is what makes two callers with the same options share: the flags under which an
instance is stored depend on the default that the first caller read, which stays
(`pooled`), and an instance, once stored, stays. `Bodies` follows the body of a response and
its decoder to the end of the request. `TransportAssumption`: what a context says of
pooling is a truth value, and no transport of a caller's own has the name of a caller.

Of *Closing* it proves, for any chains of wrappers, lists of closers and
callers that close, cancel and write,

* `ClosingInvariant`: `ClosingSpec => []CloInv`, and `ClosersAreTrue`: the property
  `ClosingIsTrue` of the run `machines`.

`Guarding` says that the mutex of a CloseOnce is with a call exactly while that call
has gone down through it and not come back (`Passed`), by a return or by a panic; a
second call cannot be below it then, which is why a list is never closed twice at a
time. That it closes *once* is `Told`: if the closer of a list of one has
closed, the CloseOnce knows, or the one call that has its mutex is on its way up with
no error. The rest is how far a panic comes (`Panicking`), what an error of nil
means (`Clean`), and how far a call comes that began after a cancel (`InTime`).
`ClosingAssumption`: what `Wrap` makes of a wish is a chain of the four wrappers (it is
a fold, whose result for every wish would need an induction over data), and `None`
is no caller.

Of *Using* it proves, for any number of overlapping uses of a resource of each kind,

* `UsingInvariant`: `UsingSpec => []UInv`, and `UsesAreTrue`: `UsingSpec => []UsingIsTrue`,
  which is the part of `LifetimesAreTrue` that is about them.

`FlagIsTrue` relates the flag that all share to who has released: it is set if
and only if a Release has not been forgotten by the reset of a later Use. `Keeping` and
`GivingBack` follow the closer step by step: it does not touch what was kept, and
what it has passed is given back. `UsingAssumption`: a resource is nil or
comes from one of the constructors.

Model-checked only are

* all liveness, which is out of the prover's reach under fairness, and what is said
  with ENABLED (`OnlyLocksMakeWait`: the theorems on *Locked* and *Wrappers* say who
  waits for a lock, and TLC that nothing else makes a caller wait);
* *Validator* and *Contexts*, where what matters is computed by RECURSIVE operators,
  over searches and layers of contexts: they cannot be reasoned about at all. What
  *Containers* folds over sequences, its Union and Intersection, would need an
  induction over data, as a theorem with an operator parameter cannot be
  instantiated; the induction on numbers of *SearchTrees* does not reach it;
* *Gather*, *Resolve*, *Readers* and *CaseMap*, for which there are no proofs yet.

## Where the code does not do what it says

Six runs end in a counterexample; PROJECT.json quotes the lines.

* `pool_drain`: a Get whose timer fires after `loop()` took its request loses an
  object that stays counted, as does a Put that timed out; Close waits for ever.
* `calls_crash`: a Close between the two checks of `GoContext` makes it
  send on a closed channel.
* `connpool_put`: Put panics if Close comes between its check and its send.
* `talk_request`: a priority inbox drops what it has buffered when the context
  is canceled, and the Request of a dropped message waits for ever.
* `redblack_returns`: `fixupDelete` does nothing for the removal of a black leaf;
  Add 1 2 3 4, Remove 3 4, Add 3 4 5, Remove 2 4 3 does not return.
* `combine_five`: `Combine5` and `Combine6` do not look at the error and the
  presence of their fifth and sixth readers.

Met while modelling, and shown by a guard or an exception of a property rather
than by a run of its own:

*pool, simultaneously, retry, actor, future*

* `pool.go:320,328`: the gauge `pool_objects` is decremented twice for an object
  closed by CloseIdle (`gauge.total`).
* `pool.go:392`: the shuffle runs once, from a Timer; the comment speaks of a
  Ticker.
* `pool.go:375`: a call after Close returned can still find `running` true.
* `executor.go:161`, `:200`: a callback that calls or closes its own executor
  waits with its token in its hand; nothing detects it or warns of it (`Starved`).
* `simultaneously.go:18` speaks of the first error; all are joined.
* A Go map that is flat-mapped to `nil` results makes a `nil` map, and an input
  key that has no hash makes `FromGoMap` panic in the goroutine of the caller
  (*Gather*).
* An attempt of `retry.Do` that timed out may run after a later one has
  succeeded, and overwrite what `DoValue` returns (`ValueIsTrue`); its operation may
  even begin after Do has returned, between `retry.go:210` or `:278` and the call,
  but only one may (`OneLate`); an operation
  that never returns blocks all later attempts, although each has a timeout. A
  jitter of 0 is documented as none and is full jitter. The exponential backoff
  overflows and falls back to its base. The
  wrapper Abort puts around an error is never taken off: `retry.go:228` asks for
  a value where a pointer is stored.
* The two rates of a budget are taken over different windows, and over no time
  at all are infinite or no number.
* `actor.go:244`: `Alive()` stays true after the exit `ExitIsAnnounced` excuses.
* `actor.go:92`: the answer of a request whose processor panicked can be the zero
  value and no error.
* `processor.go:43`: a `RequestCtx` that gave up leaves `SimpleProcessor` in a
  send nobody receives (`Wedged`).
* `future.go:1380`: `CombineNoShortCircuit` with a context drops the errors it
  has collected when the context ends.

*maps, set*

* `maps/thread_safe.go:53`, `:99`: Get and Contains take the read lock; around a
  map with defaults they write. The comment at lines 40-42 promises "multiple
  simultaneous readers or a single exclusive writer" for "any Map".
* `maps/thread_safe.go:153`: a Union of a map with itself, or of two maps with each
  other, can wait for ever if writers come in between (`NobodyIsStuck`). So can a
  function given to Filter, FilterNot, Map or FlatMap that calls the container.
* A default map around a thread-safe one makes a Get that adds of two calls.
* `maps/default_map.go:154-157`: GetOrElse is said not to invoke the default
  function, and does; lines 301-303: Clone is said not to keep it, and does.
* `maps/ordered_hash_map.go:142`: a Remove during an iteration makes it skip a key
  and yield the last one twice.
* `maps/hash_map.go:378`: Map ignores the error of a collision, with a comment that
  speaks of overwriting.
* `CaseInsensitiveMap.Remove` of a key that is not there removes the empty key.
* MapMap and MapSet of a red-black container fail, as its hash function is nil;
  `StringOrderedSet.Clone` returns a set without an order.

*lazy, shutdown, bgworker, closer, using*

* `lazy.go:57`: a value that was Set is overwritten by a create function that was
  running (`SetStays`).
* `shutdown.go:76`: a second signal during the shutdown panics
  (`CrashHasCause`); `bgworker.go:28`: a task that calls `BeforeShutdown` during
  the cleanup waits for ever (`Wedged`), as would a hook that does.
* `using.go:52`: every Use resets `released`; the value of an overlapping Use
  that was released is closed after all (`KeptIsKept`). A temporary file whose
  Close fails is not removed.

*statemachine*

* `findTransition` falls back to the first transition that may be taken when none
  leads to the state that was asked for, and says nothing. Its conditions see the
  data before that of the result is merged.
* An end that is reached because a state would like a final state next is in
  neither the path nor the trace nor the history.
* The TestEngine never fills the context of its trace entries, and RunScenario
  ignores errors of a scenario without assertions.
* A retry action with `maxRetries` 0 fails with an error that wraps nil; a
  ValidatedSequence returns nil when it fails; the clones of ParallelWithMerge
  carry old values over new ones.
* A builder that was given a state as a function writes a placeholder
  `"sampling"` nobody has registered: Build fails
  (`PlaceholdersNeedSampling`). Validate computes the states that can be reached
  and drops the result.
* RemoveUnreachableState leaves the state among the final states and in
  `onError`; AddMissingTransition does not check that its states exist.

*dns, http/transport, contexts, envutil, startup*

* By default lookups are said not to be retried, and each address to be dialed
  once; both make four attempts. `compare.go` picks an answer in the order of a
  Go map, and returns neither an answer nor an error if all servers fail. An
  address cache keeps what some of three queries found: `tcp6` fails until it
  runs out. A literal address is not checked for its family. A cached address is kept for
  its TTL from the end of the lookup, not from its answer: `cache.go:25-26` says "so the
  record's own TTL is honored", and it is late by what the answer waited for the slowest of
  three queries (`NothingIsLate`).
* `config.go:26-30` says of AmpersandDNS that it "restricts which IP addresses you're allowed
  to connect to, no RFC 1918 addresses", `config.go:81-84` "No private DNS names, no private
  IP addresses", and `dns.go:25` that the dialer "refuses to connect to private/RFC 1918
  addresses". `dns.go:40-54` filters addresses only with PublicOnly: AmpersandDNS alone,
  which is in the options of `machines`, reaches private addresses (`AsAsked`).
* The decompressor leaks the body of a response its decoder refuses. PublicOnly
  without AmpersandDNS is ignored. The first caller's context decides how a
  shared transport is made. `useDNSCacheDialer` returns no connection and no
  error for an empty list.
* A context swapped into an atomic one it was made from makes Value recurse
  without end. WithCancel of an atomic context stays bound to the channel it had
  before a swap. `Err` of a batman context is set before its `Done` is closed.
  WithMultipleValues keeps the map of the caller.
* Split drops the error of a reader that is not present; Default after IfMissing
  keeps the error.
* `record.go:139` and `startup.go:124` say that with deduplication "only the first read of
  each environment variable key is recorded". `shouldRecordKey` checks and marks under
  different locks, so two goroutines that check before either marks both record the key; and
  EnableDedupKeys stores the flag (`record.go:147`) before it resets the keys seen
  (`149-155`), so a key read in between is recorded once more after the reset, by the same
  goroutine too. `FirstOnly` says that there is no third way.
* Without environment files the audit file is never set up, while recording
  stays on; events since the last tick are lost at the shutdown, which may close
  the file under the writer; an event that cannot be marshalled or written is logged and
  dropped (`startup.go:378-397`).

## What is not modelled

In the modelled packages: metrics other than the gauges of the pool, logs,
options and messages of errors; `RoundRobin` and the two send helpers of
`channels`; `ToChannel`, `Cancel`, `FlatMap` and the `Async` wrappers of
futures; iteration over trees and over Go maps that change; testing mode and
overrides of lazy values; escalation of `gpqinbox`; a second `SetupHandler`,
hooks that panic, the number of workers; options of `retry` from the
environment; conditions given as functions, the parsing of configurations and
the naming rule of `statemachine`; deadlines of contexts; the settings of
transports; what each parser of `envutil` accepts.

Not modelled at all: packages that are I/O (`http/httplogger`, `telemetry`,
`logger`, `cli`, `cmd`, `script`, `spans`), text (`naming`, `sanitize`, `emoji`,
`xform`, `jsonpath`, `http/printable`, `http/redact`,
`statemachine/visualizer`), generated code (`openapi`), and packages without
state (`optional`, `validate`, `utils`, `errors`, `hashing` and the value types).
A model of those would be the code once more, or the properties of the functions
of the standard library that they wrap.

## The plan

What is left, in this order:

1. *Future*: the conversions to channels, `Cancel` and the Async wrappers; *Actor*:
   `RoundRobin`.
2. The iterators of the red-black tree, and of Go maps that change.
3. *Lazy*: overrides in a context and the testing mode.
4. `dns`: an abstract specification of a lookup which the four strategies
   implement.
5. Theorems: what of `GatherIsTrue` and `LookupsAreTrue` does not rest on recursion.
