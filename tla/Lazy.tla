-------------------------------- MODULE Lazy --------------------------------
(***************************************************************************)
(* lazy/: a value made by the first Get.  Of and OfCtx (kind "of") guard   *)
(* the making with a sync.Once that is replaced after a panic, OfErr and   *)
(* OfCtxErr (kind "err") with a mutex and a flag, so that an error can be  *)
(* followed by another try.  Set may come at any time.  The testing mode,  *)
(* which keeps the create function, and overrides are left out.            *)
(***************************************************************************)
EXTENDS Naturals, FiniteSets

CONSTANTS Getters   \* goroutines that call Get once, in the role of all there are

\* The values of guard that stand for nobody are no getters.
ASSUME LazyNames == "free" \notin Getters /\ "done" \notin Getters

VARIABLES
    lkind,    \* "of" or "err"
    create,   \* whether the create function is there
    lvalue,   \* "nil", "made" or "set"
    lonce,    \* kind "of": how often the Once was replaced
    guard,    \* "free", "done", or the getter inside once.Do or the mutex
    done,     \* kind "err": the flag done
    lpc,      \* where each Get is
    mine,     \* the Once a getter has loaded
    lret,     \* what each Get has returned
    lspc,     \* where Set is: "out", "create", "value" or "over"
    made,     \* how often the create function has made a value
    raced,    \* whether the create function was running as Set cleared it
    excused   \* Gets that overlap with a Set, or with a panic for kind "of"

lazyVars == <<lkind, create, lvalue, lonce, guard, done, lpc, mine, lret, lspc, made, raced,
              excused>>

IsOf == lkind = "of"

LazyInit ==
    /\ lkind \in {"of", "err"}
    /\ create = TRUE /\ lvalue = "nil"
    /\ lonce = 0 /\ guard = "free" /\ done = FALSE
    /\ lpc = [g \in Getters |-> "out"]
    /\ mine = [g \in Getters |-> 0]
    /\ lret = [g \in Getters |-> "none"]
    /\ lspc = "out" /\ made = 0 /\ raced = FALSE /\ excused = {}

ActiveGets == {g \in Getters : lpc[g] \notin {"out", "over"}}

GetGoto(g, from, to) == lpc[g] = from /\ lpc' = [lpc EXCEPT ![g] = to]

-----------------------------------------------------------------------------
(* Get                                                                     *)

\* The Once, or whether there is a create function, is loaded.
StartGet(g) ==
    /\ GetGoto(g, "out", IF IsOf \/ create THEN "do" ELSE "read")
    /\ mine' = [mine EXCEPT ![g] = lonce]
    /\ excused' = IF lspc \in {"create", "value"} \/ (IsOf /\ \E h \in Getters : lpc[h] = "recover")
                  THEN excused \cup {g} ELSE excused
    /\ UNCHANGED <<lkind, create, lvalue, lonce, guard, done, lret, lspc, made, raced>>

\* The making is over: a Once that was replaced, or one that is done.
Over(g) == IF IsOf THEN mine[g] < lonce \/ guard = "done" ELSE done

SkipMaking(g) ==
    /\ Over(g)
    /\ GetGoto(g, "do", "read")
    /\ UNCHANGED <<lkind, create, lvalue, lonce, guard, done, mine, lret, lspc, made, raced, excused>>

Enter(g) ==
    /\ ~(IsOf /\ Over(g)) /\ guard = "free"
    /\ GetGoto(g, "do", "inside")
    /\ guard' = g
    /\ UNCHANGED <<lkind, create, lvalue, lonce, done, mine, lret, lspc, made, raced, excused>>

\* Inside, done and the create function are looked at again.
Needed_x == TRUE
Needed == create /\ (IsOf \/ ~done)

Leave_x == UNCHANGED guard
Leave == guard' = (IF IsOf THEN "done" ELSE "free")

NotNeeded(g) ==
    /\ ~Needed
    /\ GetGoto(g, "inside", "read")
    /\ Leave /\ done' = (done \/ ~IsOf)
    /\ UNCHANGED <<lkind, create, lvalue, lonce, mine, lret, lspc, made, raced, excused>>

\* The create function is called.
Begin(g) ==
    /\ Needed
    /\ GetGoto(g, "inside", "making")
    /\ UNCHANGED <<lkind, create, lvalue, lonce, guard, done, mine, lret, lspc, made, raced, excused>>

Make(g) ==
    /\ GetGoto(g, "making", "clear")
    /\ lvalue' = "made" /\ made' = made + 1
    /\ UNCHANGED <<lkind, create, lonce, guard, done, mine, lret, lspc, raced, excused>>

Clear(g) ==
    /\ GetGoto(g, "clear", "read")
    /\ create' = FALSE
    /\ Leave /\ done' = ~IsOf
    /\ UNCHANGED <<lkind, lvalue, lonce, mine, lret, lspc, made, raced, excused>>

\* An error is returned and not remembered.
Fail(g) ==
    /\ ~IsOf
    /\ GetGoto(g, "making", "over")
    /\ lret' = [lret EXCEPT ![g] = "error"]
    /\ Leave
    /\ UNCHANGED <<lkind, create, lvalue, lonce, done, mine, lspc, made, raced, excused>>

\* A panic leaves the Once done, whose waiters go on, or the mutex free ...
Panic(g) ==
    /\ GetGoto(g, "making", "recover")
    /\ Leave
    /\ excused' = IF IsOf THEN excused \cup ActiveGets ELSE excused
    /\ UNCHANGED <<lkind, create, lvalue, lonce, done, mine, lret, lspc, made, raced>>

\* ... until the deferred function makes another try possible.
Recover(g) ==
    /\ GetGoto(g, "recover", "over")
    /\ lret' = [lret EXCEPT ![g] = "panic"]
    /\ IF IsOf THEN lonce' = lonce + 1 /\ guard' = "free" /\ UNCHANGED done
             ELSE done' = FALSE /\ UNCHANGED <<lonce, guard>>
    /\ UNCHANGED <<lkind, create, lvalue, mine, lspc, made, raced, excused>>

\* The value is read; a Get of kind "err" that had found a create function
\* clears it once more, as it ends.
Read(g) ==
    /\ GetGoto(g, "read", "over")
    /\ lret' = [lret EXCEPT ![g] = IF lvalue = "nil" THEN "zero" ELSE lvalue]
    /\ create' = (create /\ IsOf)
    /\ UNCHANGED <<lkind, lvalue, lonce, guard, done, mine, lspc, made, raced, excused>>

-----------------------------------------------------------------------------
(* Set: the flag, the create function and the value, one after the other   *)
SetFlag ==
    /\ ~IsOf /\ lspc = "out"
    /\ lspc' = "create" /\ done' = TRUE
    /\ excused' = excused \cup ActiveGets
    /\ UNCHANGED <<lkind, create, lvalue, lonce, guard, lpc, mine, lret, made, raced>>

SetCreate ==
    /\ lspc = IF IsOf THEN "out" ELSE "create"
    /\ lspc' = "value" /\ create' = FALSE
    /\ excused' = excused \cup ActiveGets
    /\ raced' = \E g \in Getters : lpc[g] = "making"
    /\ UNCHANGED <<lkind, lvalue, lonce, guard, done, lpc, mine, lret, made>>

SetValue ==
    /\ lspc = "value"
    /\ lspc' = "over" /\ lvalue' = "set"
    /\ UNCHANGED <<lkind, create, lonce, guard, done, lpc, mine, lret, made, raced, excused>>

Set == SetFlag \/ SetCreate \/ SetValue

-----------------------------------------------------------------------------
GetStep(g) ==
    \/ SkipMaking(g) \/ Enter(g) \/ NotNeeded(g) \/ Begin(g) \/ Make(g) \/ Clear(g) \/ Fail(g)
    \/ Panic(g) \/ Recover(g) \/ Read(g)

LazyNext == Set \/ \E g \in Getters : StartGet(g) \/ GetStep(g)
LazySpec == LazyInit /\ [][LazyNext]_lazyVars

\* A Get goes on, and a function it calls returns or panics.
LazyFairness == \A g \in Getters : WF_lazyVars(GetStep(g)) /\ SF_lazyVars(Enter(g))

-----------------------------------------------------------------------------
(* Properties                                                              *)

\* "Of is a lazy value that is initialized at most once": the create function
\* makes one value, however often it has failed before, and runs in one
\* goroutine at a time.
MadeOnce ==
    /\ made <= 1
    /\ \A g \in Getters : lpc[g] \in {"inside", "making", "clear"} => guard = g

\* A Get returns a value, or says why not.  The zero value comes out only
\* while a Set is half done, or if the create function of another Get panicked
\* in the meantime; "so initialization can be retried" by those that come later.
ZeroIsExcused == \A g \in Getters : lret[g] = "zero" => g \in excused

\* A value that was Set stays, unless the create function was already running.
SetStays == lspc = "over" /\ lvalue # "set" => raced

LazyIsTrue == MadeOnce /\ ZeroIsExcused /\ SetStays

\* Every Get returns; each getter makes one.
GetsOver == \A g \in Getters : lpc[g] \in {"out", "over"}
GetReturns == ~GetsOver ~> GetsOver

=============================================================================
