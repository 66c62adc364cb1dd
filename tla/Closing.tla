------------------------------ MODULE Closing ------------------------------
(***************************************************************************)
(* closer/: closers wrapped in layers, and goroutines that close, cancel   *)
(* and write.  At the bottom is a Closer, a list of closers: functions,    *)
(* channels, and nil.                                                      *)
(*                                                                         *)
(* A call of Close goes down through the layers, calls the closers of the  *)
(* list one after the other, and comes back up with what they returned: a  *)
(* set of errors, or a panic.                                              *)
(***************************************************************************)
EXTENDS Naturals, Sequences, FiniteSets, SequencesExt

CONSTANTS
    Wishes,        \* the wrappings, innermost first
    CloserLists,   \* the lists of closers
    CloseCallers, MaxCloses,
    None

VARIABLES
    layers,   \* the wrappers, outermost first: "once", "panic", "cancelable" or "writer"
    list,     \* kinds of closers: "func", "channel" or "nil"
    mut,      \* the caller that has the mutex of a CloseOnce, or None
    closed,   \* flags of layers: closed, or that a cancelable one was canceled
    done,     \* of each closer of the list: how often it has closed
    cpc,      \* of each caller: "out", "down", "in", "up", "write"
    depth,    \* the layer it is at
    place,    \* the closer of the list
    got,      \* what it brings back: [errs, panic]
    began,    \* whether the layers had been closed or canceled when its call began
    past,     \* what its last call has returned
    calls     \* a bound: how many calls there have been

closingVars == <<layers, list, mut, closed, done, cpc, depth, place, got, began, past, calls>>
shape == <<layers, list>>

Layers == DOMAIN layers
Bottom == Len(layers) + 1
Ok == [errs |-> {}, panic |-> FALSE]
Has(t, kind) == depth[t] \in Layers /\ layers[depth[t]] = kind

-----------------------------------------------------------------------------
(* The constructors; definitions named ..._x are wrong on purpose          *)

\* A closer that has the layer already is returned as it is; nil stays nil.
CloseOnce(s) == IF s # <<>> /\ Head(s) = "once" THEN s ELSE <<"once">> \o s
HandlePanic(s) == IF s # <<>> /\ Head(s) = "panic" THEN s ELSE <<"panic">> \o s
CancelableCloser(s) == IF s # <<>> /\ Head(s) = "cancelable" THEN s ELSE <<"cancelable">> \o s
ForWriter(s) == <<"writer">> \o s
ForReader(s) == ForWriter(s)

Wrap(s, w) ==
    CASE w = "once" -> CloseOnce(s)
      [] w = "panic" -> HandlePanic(s)
      [] w = "cancelable" -> CancelableCloser(s)
      [] w = "writer" -> ForWriter(s)
      [] w = "reader" -> ForReader(s)
Build(wish) == FoldLeft(Wrap, <<>>, wish)

LayerKinds == {"once", "panic", "cancelable", "writer"}
ASSUME ClosingAssumption ==
    /\ \A wish \in Wishes : Build(wish) \in Seq(LayerKinds)
    /\ CloserLists \subseteq Seq({"func", "channel", "nil"})
    /\ None \notin CloseCallers

ClosingInit ==
    /\ layers \in {Build(w) : w \in Wishes} /\ list \in CloserLists
    /\ mut = [d \in Layers |-> None] /\ closed = {}
    /\ done = [i \in DOMAIN list |-> 0]
    /\ cpc = [t \in CloseCallers |-> "out"]
    /\ depth = [t \in CloseCallers |-> 1] /\ place = [t \in CloseCallers |-> 1]
    /\ got = [t \in CloseCallers |-> Ok] /\ past = [t \in CloseCallers |-> None]
    /\ began = [t \in CloseCallers |-> {}] /\ calls = 0

-----------------------------------------------------------------------------
(* Close                                                                   *)

Goto(t, from, to) == cpc[t] = from /\ cpc' = [cpc EXCEPT ![t] = to]
Deeper(t) == depth' = [depth EXCEPT ![t] = @ + 1]
Call(t) ==
    /\ calls < MaxCloses /\ calls' = calls + 1
    /\ began' = [began EXCEPT ![t] = closed]

Close(t) ==
    /\ Goto(t, "out", "down") /\ Call(t)
    /\ depth' = [depth EXCEPT ![t] = 1] /\ place' = [place EXCEPT ![t] = 1]
    /\ got' = [got EXCEPT ![t] = Ok]
    /\ UNCHANGED <<shape, mut, closed, done, past>>

\* A closer that was closed before, with success, returns nil.
closeOnceImpl_x(t) ==
    /\ Has(t, "once") /\ depth[t] \notin closed
    /\ cpc[t] = "down" /\ UNCHANGED cpc /\ Deeper(t)
    /\ UNCHANGED <<shape, mut, closed, done, place, got, began, past, calls>>
closeOnceImpl(t) ==
    /\ Has(t, "once") /\ mut[depth[t]] = None
    /\ IF depth[t] \in closed
       THEN Goto(t, "down", "up") /\ depth' = [depth EXCEPT ![t] = @ - 1] /\ UNCHANGED mut
       ELSE /\ cpc[t] = "down" /\ UNCHANGED cpc /\ Deeper(t)
            /\ mut' = [mut EXCEPT ![depth[t]] = t]
    /\ UNCHANGED <<shape, closed, done, place, got, began, past, calls>>

panicHandlingImpl(t) ==
    /\ Has(t, "panic") /\ cpc[t] = "down" /\ UNCHANGED cpc /\ Deeper(t)
    /\ UNCHANGED <<shape, mut, closed, done, place, got, began, past, calls>>

cancelableCloser(t) ==
    /\ Has(t, "cancelable")
    /\ IF depth[t] \in closed
       THEN Goto(t, "down", "up") /\ depth' = [depth EXCEPT ![t] = @ - 1]
       ELSE cpc[t] = "down" /\ UNCHANGED cpc /\ Deeper(t)
    /\ UNCHANGED <<shape, mut, closed, done, place, got, began, past, calls>>

\* Close of a writer and of a reader.
writerClose(t) ==
    /\ Has(t, "writer") /\ cpc[t] = "down" /\ UNCHANGED cpc /\ Deeper(t)
    /\ closed' = closed \cup {depth[t]}
    /\ UNCHANGED <<shape, mut, done, place, got, began, past, calls>>

\* The closers of a Closer, in the order they were added; those that are nil are
\* left out.
Closer(t) ==
    /\ depth[t] = Bottom
    /\ \/ /\ cpc[t] = "down" /\ place[t] \in DOMAIN list /\ list[place[t]] = "nil"
          /\ place' = [place EXCEPT ![t] = @ + 1] /\ UNCHANGED <<cpc, depth>>
       \/ /\ place[t] \in DOMAIN list /\ list[place[t]] # "nil"
          /\ Goto(t, "down", "in") /\ UNCHANGED <<place, depth>>
       \/ /\ place[t] \notin DOMAIN list
          /\ Goto(t, "down", "up") /\ depth' = [depth EXCEPT ![t] = @ - 1] /\ UNCHANGED place
    /\ UNCHANGED <<shape, mut, closed, done, got, began, past, calls>>

Succeeds(t) ==
    /\ Goto(t, "in", "down")
    /\ done' = [done EXCEPT ![place[t]] = @ + 1] /\ place' = [place EXCEPT ![t] = @ + 1]
    /\ UNCHANGED <<shape, mut, closed, depth, got, began, past, calls>>
Fails(t) ==
    /\ Goto(t, "in", "down")
    /\ got' = [got EXCEPT ![t].errs = @ \cup {place[t]}] /\ place' = [place EXCEPT ![t] = @ + 1]
    /\ UNCHANGED <<shape, mut, closed, done, depth, began, past, calls>>
Panics(t) ==
    /\ Goto(t, "in", "up")
    /\ got' = [got EXCEPT ![t] = [errs |-> {}, panic |-> TRUE]]
    /\ depth' = [depth EXCEPT ![t] = @ - 1]
    /\ UNCHANGED <<shape, mut, closed, done, place, began, past, calls>>

\* The close of a channel that is closed panics.
customCloser(t) ==
    cpc[t] = "in" /\ list[place[t]] = "func" /\ (Succeeds(t) \/ Fails(t) \/ Panics(t))
channelCloserImpl(t) ==
    /\ cpc[t] = "in" /\ list[place[t]] = "channel"
    /\ IF done[place[t]] = 0 THEN Succeeds(t) ELSE Panics(t)

\* Back through the layers: the mutex is given back after a panic too.
Up(t) ==
    /\ cpc[t] = "up" /\ depth[t] > 0
    /\ LET d == depth[t]
       IN  /\ mut' = IF mut[d] = t THEN [mut EXCEPT ![d] = None] ELSE mut
           /\ closed' = IF mut[d] = t /\ got[t] = Ok THEN closed \cup {d} ELSE closed
           /\ got' = IF Has(t, "panic") /\ got[t].panic
                     THEN [got EXCEPT ![t] = [errs |-> {place[t]}, panic |-> FALSE]] ELSE got
    /\ depth' = [depth EXCEPT ![t] = @ - 1]
    /\ UNCHANGED <<shape, done, cpc, place, began, past, calls>>

CloseReturns(t) ==
    /\ depth[t] = 0 /\ Goto(t, "up", "out")
    /\ past' = [past EXCEPT ![t] = got[t]]
    /\ UNCHANGED <<shape, mut, closed, done, depth, place, got, began, calls>>

-----------------------------------------------------------------------------
(* The other calls, of the outermost layer                                 *)

cancel(t) ==
    /\ cpc[t] = "out" /\ Call(t)
    /\ layers # <<>> /\ layers[1] = "cancelable"
    /\ closed' = closed \cup {1} /\ past' = [past EXCEPT ![t] = Ok]
    /\ UNCHANGED <<shape, mut, done, cpc, depth, place, got>>

\* Write, and Read: the flag is looked at first.
Write(t) ==
    /\ layers # <<>> /\ layers[1] = "writer"
    /\ Goto(t, "out", IF 1 \in closed THEN "out" ELSE "write") /\ Call(t)
    /\ past' = [past EXCEPT ![t] = IF 1 \in closed THEN [errs |-> {0}, panic |-> FALSE] ELSE @]
    /\ UNCHANGED <<shape, mut, closed, done, depth, place, got>>
WriteEnds(t) ==
    /\ Goto(t, "write", "out") /\ past' = [past EXCEPT ![t] = Ok]
    /\ UNCHANGED <<shape, mut, closed, done, depth, place, got, began, calls>>

ClosingStep(t) ==
    \/ closeOnceImpl(t) \/ panicHandlingImpl(t) \/ cancelableCloser(t) \/ writerClose(t)
    \/ Closer(t) \/ customCloser(t) \/ channelCloserImpl(t) \/ Up(t) \/ CloseReturns(t) \/ WriteEnds(t)
ClosingNext == \E t \in CloseCallers : ClosingStep(t) \/ Close(t) \/ cancel(t) \/ Write(t)
ClosingSpec == ClosingInit /\ [][ClosingNext]_closingVars

-----------------------------------------------------------------------------
(* Properties                                                              *)

Below(kind) == \E d \in Layers : layers[d] = kind

\* "The underlying closer is closed at most once ... if Close returns an error
\* the closer can be retried": under a CloseOnce a list that was closed without
\* an error is not closed again, and never by two callers at a time.
OnceIsOnce ==
    Below("once") =>
        /\ Cardinality({t \in CloseCallers : cpc[t] = "in"}) <= 1
        /\ (\E i \in DOMAIN list : list[i] # "nil" /\ done[i] > 1) =>
              Len(list) > 1 \/ \E d \in Layers : layers[d] = "once" /\ d \notin closed

\* A Close that reports no error has closed everything, or found it closed or
\* canceled.
NilMeansClosed ==
    \A t \in CloseCallers :
       past[t] = Ok /\ cpc[t] = "out" /\ got[t] = Ok /\ place[t] > Len(list) =>
          \A i \in DOMAIN list : list[i] = "nil" \/ done[i] > 0

\* No panic passes a HandlePanic, and no mutex is left locked by one.
PanicsAreHeld ==
    \A t \in CloseCallers :
       /\ Below("panic") /\ depth[t] = 0 => ~got[t].panic
       /\ cpc[t] = "out" => \A d \in Layers : mut[d] # t

\* Who calls after a cancel, or writes after a Close has begun, does nothing.
LateIsNothing ==
    \A t \in CloseCallers :
       /\ cpc[t] = "write" => 1 \notin began[t]
       /\ layers # <<>> /\ layers[1] = "cancelable" /\ 1 \in began[t] => cpc[t] # "in"

ClosingIsTrue == OnceIsOnce /\ NilMeansClosed /\ PanicsAreHeld /\ LateIsNothing

=============================================================================
