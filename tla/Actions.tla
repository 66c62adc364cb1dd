------------------------------ MODULE Actions ------------------------------
(***************************************************************************)
(* The composite actions of statemachine/composite.go and                  *)
(* statemachine/actions: actions made of actions, run by the state of an   *)
(* engine.  A tree of them is data.  A leaf is an action of the program: it*)
(* writes to the context it was given and succeeds or fails.  Conditions,  *)
(* validators and whether an error is worth another try are up to the      *)
(* program too.  Errors are not told apart and delays take no time.        *)
(***************************************************************************)
EXTENDS Integers, Sequences, FiniteSets, SequencesExt

CONSTANTS
    Trees,      \* [Nodes -> [kind, kids, key, max, lenient, required, merge, checked]]
    Root,       \* the node that is called from outside
    ActionKeys  \* the keys leaves write to

Main == "main"

\* Each use of an action is a node of its own, with the one that calls it above.
IsTree(tr) ==
    /\ Root \in DOMAIN tr
    /\ \A n \in DOMAIN tr :
          /\ tr[n].kids \in Seq(DOMAIN tr \ {Root, n})
          /\ \A i, j \in DOMAIN tr[n].kids : tr[n].kids[i] = tr[n].kids[j] => i = j
          /\ tr[n].max \in Nat
          /\ tr[n].kind \in {"leaf", "sequence", "conditional", "retry", "try", "validated", "branch",
                             "backoff", "progressive", "parallel", "merge"}
          /\ tr[n].kind = "leaf" => tr[n].kids = <<>>
          /\ tr[n].kind \in {"retry", "backoff"} => Len(tr[n].kids) = 1
          /\ tr[n].kind = "try" => Len(tr[n].kids) = 2
    /\ \A n, m \in DOMAIN tr : n # m => Range(tr[n].kids) \cap Range(tr[m].kids) = {}

ASSUME ActionsAssumption == \A tr \in Trees : IsTree(tr)

VARIABLES
    tree,       \* the actions
    st,         \* each node: "idle", "called", "run", "ok" or "failed"
    at,         \* how many calls of kids a node has made, or the kid it is at
    kid,        \* the kid that was called last, 0 for none
    last,       \* how each node has ended last: "none", "ok" or "failed"
    data,       \* the data of Main and of the clones made for kids: Keys -> writes
    base,       \* a clone's data as it was made
    arrived,    \* the kids of a ParallelWithMerge in the order of their results
    note,       \* what a node leaves in the context: a number
    writes      \* how many writes there were

actionVars == <<tree, st, at, kid, last, data, base, arrived, note, writes>>

Nodes == DOMAIN tree
Kids(n) == tree[n].kids
Kind(n) == tree[n].kind
Parent(n) == CHOOSE p \in Nodes : n \in Range(Kids(p))
Clones == {n \in Nodes : n # Root /\ Kind(Parent(n)) = "merge"}

\* The context a node writes to: its own clone, or that of its parent.
Scope[n \in Nodes] == IF n = Root THEN Main ELSE IF n \in Clones THEN n ELSE Scope[Parent(n)]

ActionsInit ==
    /\ tree \in Trees
    /\ st = [n \in Nodes |-> IF n = Root THEN "called" ELSE "idle"]
    /\ at = [n \in Nodes |-> 0] /\ kid = at
    /\ last = [n \in Nodes |-> "none"]
    /\ \E old \in SUBSET ActionKeys :
          data = [s \in Clones \cup {Main} |-> [k \in ActionKeys |-> IF k \in old THEN 0 ELSE -1]]
    /\ base = data
    /\ arrived = [n \in Nodes |-> <<>>]
    /\ note = [n \in Nodes |-> 0]
    /\ writes = 0

-----------------------------------------------------------------------------
(* Leaves                                                                  *)

\* An action is entered; ParallelWithMerge clones the context for it.
BeginAction(n) ==
    /\ st[n] = "called"
    /\ st' = [st EXCEPT ![n] = "run"]
    /\ at' = [at EXCEPT ![n] = 0] /\ kid' = [kid EXCEPT ![n] = 0]
    /\ note' = [note EXCEPT ![n] = 0] /\ arrived' = [arrived EXCEPT ![n] = <<>>]
    /\ IF n \in Clones
       THEN data' = [data EXCEPT ![n] = data[Scope[Parent(n)]]] /\ base' = [base EXCEPT ![n] = data'[n]]
       ELSE UNCHANGED <<data, base>>
    /\ UNCHANGED <<tree, last, writes>>

\* The end of an action; a ParallelWithMerge gets to know in the order of it.
EndAction(n, how) ==
    /\ st' = [st EXCEPT ![n] = how]
    /\ last' = [last EXCEPT ![n] = how]
    /\ arrived' = IF n \in Clones THEN [arrived EXCEPT ![Parent(n)] = Append(@, n)] ELSE arrived

\* A leaf succeeds or fails, and may have written before it fails.
LeafEnds(n) ==
    /\ st[n] = "run" /\ Kind(n) = "leaf"
    /\ \E how \in {"ok", "failed"}, wrote \in BOOLEAN :
          /\ how = "ok" => wrote
          /\ EndAction(n, how)
          /\ data' = IF wrote THEN [data EXCEPT ![Scope[n]][tree[n].key] = writes + 1] ELSE data
          /\ writes' = writes + (IF wrote THEN 1 ELSE 0)
    /\ UNCHANGED <<tree, at, kid, base, note>>

-----------------------------------------------------------------------------
(* Actions that call one kid at a time                                     *)

\* What an action can do after i turns, as its last kid has ended with o (or
\* "none"): call a kid, go on without, or end.
Calls(k) == [do |-> "call", kid |-> k, note |-> 0]
Ends(how, v) == [do |-> how, kid |-> 0, note |-> v]
Skip == [do |-> "skip", kid |-> 0, note |-> 0]

Sequence_x(n, i, o) == {IF i = Len(Kids(n)) THEN Ends("ok", 0) ELSE Calls(i + 1)}
Sequence(n, i, o) ==
    {IF o = "failed" THEN Ends("failed", 0)
     ELSE IF i = Len(Kids(n)) THEN Ends("ok", 0) ELSE Calls(i + 1)}

\* The condition picks the first or the second kid, which may be missing, or
\* fails.
Conditional(n, i, o) ==
    IF i = 0
    THEN {Ends("failed", 0)}
         \cup {IF k <= Len(Kids(n)) THEN Calls(k) ELSE Ends("ok", 0) : k \in 1 .. 2}
    ELSE {Ends(o, 0)}

\* No attempt at all is a failure.
Retry(n, i, o) ==
    {IF o = "ok" THEN Ends("ok", i) ELSE IF i < tree[n].max THEN Calls(1) ELSE Ends("failed", i)}

\* The source that is noted: 1, the primary action, or 2.
TryWithFallback(n, i, o) ==
    CASE i = 0 -> {Calls(1)}
      [] i = 1 -> {IF o = "ok" THEN Ends("ok", 1) ELSE Calls(2)}
      [] i = 2 -> {Ends(o, IF o = "ok" THEN 2 ELSE 0)}

\* A failed step, or one whose validator says no, ends the sequence without an
\* error: only the note, which step it was, tells.  A lenient one goes on.
ValidatedSequence(n, i, o) ==
    LET next == IF i = Len(Kids(n)) THEN Ends("ok", 0) ELSE Calls(i + 1)
        checked == i > 0 /\ tree[n].checked
    IN  IF o = "failed" /\ ~tree[n].lenient THEN {Ends("ok", i)}
        ELSE {next} \cup (IF ~checked THEN {} ELSE
                {Ends("failed", i)} \cup (IF tree[n].lenient THEN {} ELSE {Ends("ok", i)}))

\* The first branch whose condition holds, the default (the last kid), or none;
\* the note is the branch.
ConditionalBranch(n, i, o) ==
    IF i = 0 THEN {Calls(k) : k \in 1 .. Len(Kids(n))} \cup {Ends("ok", 0)}
    ELSE {Ends(o, IF o = "ok" THEN kid[n] ELSE 0)}

\* An error may be not worth another try, and the context end while the delay
\* goes by.
RetryWithBackoff(n, i, o) ==
    LET max == IF tree[n].max = 0 THEN 3 ELSE tree[n].max
    IN  IF o = "ok" THEN {Ends("ok", i)}
        ELSE IF i = max THEN {Ends("failed", i)}
        ELSE {Calls(1)} \cup (IF i > 0 THEN {Ends("failed", i)} ELSE {})

\* A required step must have its condition hold and succeed; an optional one is
\* passed over.
ProgressiveDisclosure(n, i, o) ==
    LET required(j) == Kids(n)[j] \in tree[n].required
    IN  IF o = "failed" /\ required(i) THEN {Ends("failed", 0)}
        ELSE IF i = Len(Kids(n)) THEN {Ends("ok", 0)}
        ELSE {Calls(i + 1), IF required(i + 1) THEN Ends("failed", 0) ELSE Skip}

Decisions(n, i, o) ==
    CASE Kind(n) = "sequence" -> Sequence(n, i, o)
      [] Kind(n) = "conditional" -> Conditional(n, i, o)
      [] Kind(n) = "retry" -> Retry(n, i, o)
      [] Kind(n) = "try" -> TryWithFallback(n, i, o)
      [] Kind(n) = "validated" -> ValidatedSequence(n, i, o)
      [] Kind(n) = "branch" -> ConditionalBranch(n, i, o)
      [] Kind(n) = "backoff" -> RetryWithBackoff(n, i, o)
      [] Kind(n) = "progressive" -> ProgressiveDisclosure(n, i, o)
      [] OTHER -> {}

Concurrent(n) == Kind(n) \in {"parallel", "merge"}

\* A turn of the loop in an Execute.
Turn(n) ==
    LET called == IF kid[n] = 0 THEN n ELSE Kids(n)[kid[n]]
        o == IF kid[n] = 0 THEN "none" ELSE st[called]
    IN  /\ st[n] = "run" /\ ~Concurrent(n)
        /\ kid[n] # 0 => o \in {"ok", "failed"}
        /\ \E c \in Decisions(n, at[n], o) :
              CASE c.do = "call" ->
                     /\ st' = [[st EXCEPT ![called] = IF called = n THEN "run" ELSE "idle"]
                                  EXCEPT ![Kids(n)[c.kid]] = "called"]
                     /\ at' = [at EXCEPT ![n] = @ + 1] /\ kid' = [kid EXCEPT ![n] = c.kid]
                     /\ UNCHANGED <<last, arrived, note>>
                [] c.do = "skip" ->
                     /\ st' = [st EXCEPT ![called] = IF called = n THEN "run" ELSE "idle"]
                     /\ at' = [at EXCEPT ![n] = @ + 1] /\ kid' = [kid EXCEPT ![n] = 0]
                     /\ last' = [last EXCEPT ![Kids(n)[at[n] + 1]] = "none"]
                     /\ UNCHANGED <<arrived, note>>
                [] OTHER ->
                     /\ EndAction(n, c.do) /\ note' = [note EXCEPT ![n] = c.note]
                     /\ UNCHANGED <<at, kid>>
        /\ UNCHANGED <<tree, data, base, writes>>

-----------------------------------------------------------------------------
(* Actions that call all their kids at once                                *)

Fork(n) ==
    /\ st[n] = "run" /\ Concurrent(n) /\ at[n] = 0
    /\ at' = [at EXCEPT ![n] = 1]
    /\ st' = [m \in Nodes |-> IF m \in Range(Kids(n)) THEN "called" ELSE st[m]]
    /\ UNCHANGED <<tree, kid, last, data, base, arrived, note, writes>>

Over(n) == at[n] = 1 /\ \A i \in DOMAIN Kids(n) : st[Kids(n)[i]] \in {"ok", "failed"}
AllOk(n) == \A i \in DOMAIN Kids(n) : st[Kids(n)[i]] = "ok"

\* ParallelAction: all share the context; any failure is one.
Join(n) ==
    /\ st[n] = "run" /\ Kind(n) = "parallel" /\ Over(n)
    /\ EndAction(n, IF AllOk(n) THEN "ok" ELSE "failed")
    /\ UNCHANGED <<tree, at, kid, data, base, note, writes>>

\* Whose data a ParallelWithMerge takes over, in which order.
Merged(n) ==
    LET won == SelectSeq(arrived[n], LAMBDA k : last[k] = "ok")
    IN  CASE tree[n].merge = "first" -> SubSeq(won, 1, IF won = <<>> THEN 0 ELSE 1)
          [] tree[n].merge = "majority" -> IF 2 * Len(won) > Len(Kids(n)) THEN won ELSE <<>>
          [] OTHER -> won

\* All the data of each is copied, the entries it has got from the clone too.
CopyAll_x(old, ks) == old
CopyAll(old, ks) ==
    FoldLeft(LAMBDA d, k : [x \in ActionKeys |-> IF data[k][x] = -1 THEN d[x] ELSE data[k][x]], old, ks)

Merge(n) ==
    /\ st[n] = "run" /\ Kind(n) = "merge" /\ Over(n)
    /\ data' = [data EXCEPT ![Scope[n]] = CopyAll(@, Merged(n))]
    /\ note' = [note EXCEPT ![n] = Cardinality({i \in DOMAIN Kids(n) : st[Kids(n)[i]] = "ok"})]
    /\ EndAction(n, IF AllOk(n) \/ tree[n].lenient THEN "ok" ELSE "failed")
    /\ UNCHANGED <<tree, at, kid, base, writes>>

ActionStep(n) == BeginAction(n) \/ LeafEnds(n) \/ Turn(n) \/ Fork(n) \/ Join(n) \/ Merge(n)
ActionsNext == \E n \in Nodes : ActionStep(n)
ActionsSpec == ActionsInit /\ [][ActionsNext]_actionVars

\* An action that can go on does, and the functions it is given return.
ActionsFairness == WF_actionVars(ActionsNext)

-----------------------------------------------------------------------------
(* Properties                                                              *)

LastOk(n) == {i \in DOMAIN Kids(n) : last[Kids(n)[i]] = "ok"}
AllKids(n) == DOMAIN Kids(n)

\* What a success stands for.
OkMeans(n) ==
    CASE Kind(n) \in {"sequence", "parallel"} -> LastOk(n) = AllKids(n)
      [] Kind(n) \in {"retry", "backoff"} -> 1 \in LastOk(n) /\ note[n] \in 1 .. at[n]
      [] Kind(n) = "try" -> note[n] \in LastOk(n) /\ (note[n] = 1 <=> 1 \in LastOk(n))
      [] Kind(n) = "validated" -> note[n] = 0 /\ ~tree[n].lenient => LastOk(n) = AllKids(n)
      [] Kind(n) \in {"branch", "conditional"} -> kid[n] # 0 => kid[n] \in LastOk(n)
      [] Kind(n) = "progressive" -> \A i \in AllKids(n) : Kids(n)[i] \in tree[n].required => i \in LastOk(n)
      [] Kind(n) = "merge" -> tree[n].lenient \/ LastOk(n) = AllKids(n)
      [] OTHER -> TRUE

\* What a failure stands for, where it is no function of the program that says so.
FailedMeans(n) ==
    CASE Kind(n) \in {"sequence", "parallel", "merge"} -> LastOk(n) # AllKids(n)
      [] Kind(n) = "try" -> LastOk(n) = {}
      [] Kind(n) = "retry" -> 1 \notin LastOk(n) \/ tree[n].max = 0
      [] Kind(n) = "backoff" -> 1 \notin LastOk(n)
      [] Kind(n) = "validated" -> tree[n].checked
      [] OTHER -> TRUE

\* An action reports success only when what it was made for has succeeded, and
\* failure only when something has failed: a sequence and a parallel action when
\* all kids have, a retry when the last attempt has, a fallback when the source
\* it names has.  Only a ValidatedSequence, and what is lenient, succeed without.
ReportIsTrue ==
    \A n \in Nodes :
        /\ st[n] = "ok" => OkMeans(n)
        /\ st[n] = "failed" => FailedMeans(n)

\* "Clone context for parallel execution to avoid race conditions": what a kid
\* of a ParallelWithMerge that counts has written is there after the merge, or
\* has been overwritten by another, or by the old value another has copied.
MergeKeeps ==
    [][\A n \in Nodes : Kind(n) = "merge" /\ st[n] = "run" /\ st'[n] # "run" =>
          \A x \in ActionKeys :
             LET wrote == {k \in Range(Merged(n)) : data[k][x] # base[k][x]}
             IN  /\ wrote # {} =>
                      \/ \E k \in wrote : data'[Scope[n]][x] = data[k][x]
                      \/ \E k \in Range(Merged(n)) \ wrote : base[k][x] # -1
                 /\ wrote = {} => data'[Scope[n]][x] \in {data[Scope[n]][x]} \cup {base[k][x] : k \in Range(Kids(n))}]_actionVars

\* "Merge all successful results": what a kid that counts has written is not
\* lost to the copy of an old value.
MergeLosesNothing ==
    [][\A n \in Nodes : Kind(n) = "merge" /\ st[n] = "run" /\ st'[n] # "run" =>
          \A x \in ActionKeys :
             LET wrote == {k \in Range(Merged(n)) : data[k][x] # base[k][x]}
             IN  wrote # {} => \E k \in wrote : data'[Scope[n]][x] = data[k][x]]_actionVars

\* Every action comes to an end.
ActionsEnd == <>(st[Root] \in {"ok", "failed"})

=============================================================================
