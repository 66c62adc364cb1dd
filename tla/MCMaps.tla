------------------------------- MODULE MCMaps -------------------------------
(***************************************************************************)
(* The containers of maps/ and set/ for TLC: the red-black tree, the hash  *)
(* maps and sets, the locks of two containers, the layers of wrappers, and *)
(* the case-insensitive map, each on its own; part says which of them runs.*)
(* Five keys are the fewest with which a removal from the tree fails to    *)
(* return; six let a fixup climb two levels.                               *)
(***************************************************************************)
EXTENDS RedBlack, Locked, Wrappers, TLC

CONSTANTS Parts, Names, Values, Kinds, Unhashable, DefaultValue, NoDefault, MaxOther, MaxCalls

\* j and k have one hash.  A default map makes an entry for j and one for l; a
\* default set answers for l with the element j.
Hash == [x \in Names |-> CASE x \in {"j", "k"} -> 1 [] x = "l" -> 2 [] OTHER -> 3]
DefaultOf == [x \in Names |-> IF x \in {"j", "l"} THEN "j" ELSE NoDefault]
\* A renaming that makes two keys clash, and one key that cannot be hashed.
Renames == {[x \in Names |-> CASE x = "l" -> "k" [] x = "m" -> "u" [] OTHER -> x]}
Filters == {{"j", "m"}}
Wrappings == {[a |-> FALSE, b |-> FALSE], [a |-> TRUE, b |-> FALSE], [a |-> FALSE, b |-> TRUE]}

\* Two containers that are locked, both plain or both with defaults.
LockedNames == {"j", "k"}
BothOrNeither == {[m \in {"x", "y"} |-> d] : d \in BOOLEAN}
LockedContents == {[x |-> {"j"}, y |-> {}], [x |-> {"j"}, y |-> {"k"}]}

\* One caller calls anything, with a function that may call back; the other one
\* asks or changes.
Wrapped == {"safe", "default"}
LayerWishes == {<<>>, <<"safe", "default", "safe">>} \cup {<<v>> : v \in Wrapped}
              \cup {<<v, w>> : v \in Wrapped, w \in Wrapped}
Looping == [m : {"ForEach", "Filter", "Map", "Seq", "FindFirst"}, key : {"k"},
            back : {"none", "Add", "Contains"}]
LayeredCalls ==
    LET plain == [m : {"Add", "Remove", "Contains", "Clone"}, key : {"k"}, back : {"none"}]
    IN  [p |-> plain \cup Looping, q |-> {c \in plain : c.m \in {"Add", "Contains"}}]

VARIABLES part, kind, default, data, order, ret, loop,
          cs, ci, kl, told

C == INSTANCE Containers WITH Keys <- Names

\* "j" and "J" differ in their case.
M == INSTANCE CaseMap WITH
        Keys <- {"j", "J", "l", ""}, Values <- {1}, MaxSize <- 1,
        Lower <- "j" :> "j" @@ "J" :> "j" @@ "l" :> "l" @@ "" :> ""

boxes == <<kind, default, data, order, ret, loop>>
cases == <<cs, ci, kl, told>>

\* The containers that are locked do not move in the other parts.
Resting ==
    /\ \A m \in Maps : ~wraps[m] /\ content[m] = IF m = "x" THEN {"j"} ELSE {}
    /\ \A t \in Threads :
          call[t] = IF t \in Movers THEN [op |-> "Add", map |-> "x", other |-> None, key |-> "j"]
                    ELSE [op |-> "Union", map |-> "x", other |-> "y", key |-> None]

\* Nor do the calls through layers: both have returned.
Returned ==
    /\ sort = "map" /\ stack = <<>> /\ inside = {"k"} /\ reading = <<>> /\ writing = <<>>
    /\ calls = [t \in Callers |-> [m |-> "Add", key |-> "k", back |-> "none"]]
    /\ frames = [t \in Callers |-> <<>>]

PartsInit ==
    /\ part \in Parts
    /\ Init
    /\ C!Init /\ (part # "boxes" => kind = "map" /\ default = [a |-> FALSE, b |-> FALSE])
    /\ LockedInit /\ (part # "locked" => Resting)
    /\ IF part = "wrapped" THEN WrappersInit ELSE Returned
    /\ M!Init

PartsNext ==
    \/ part = "tree" /\ Next /\ UNCHANGED <<part, boxes, lockedVars, wrapperVars, cases>>
    \/ part = "boxes" /\ C!Next /\ UNCHANGED <<part, vars, lockedVars, wrapperVars, cases>>
    \/ part = "locked" /\ LockedNext /\ UNCHANGED <<part, vars, boxes, wrapperVars, cases>>
    \/ part = "wrapped" /\ WrappersNext /\ UNCHANGED <<part, vars, boxes, lockedVars, cases>>
    \/ part = "cases" /\ M!Next /\ UNCHANGED <<part, vars, boxes, lockedVars, wrapperVars>>

PartsSpec ==
    PartsInit /\ [][PartsNext]_<<part, vars, boxes, lockedVars, wrapperVars, cases>> /\ WF_vars(FixStep)

\* No step and no invariant looks at asked and ret: states that differ in them
\* alone are one.  The two properties that do look are about single steps.
Seen == <<part, tree, kind, default, data, order, loop, lockedVars, wrapperVars, cases>>

-----------------------------------------------------------------------------
\* The properties of the other modules.
ContainersAreTrue == C!IndexesAgree /\ C!LoopsAreTrue /\ M!CasesAgree
ImplementsDictionary == C!ImplementsDictionary

\* A step is possible if and only if some caller is not waiting for a lock.
OnlyLocksMakeWait ==
    /\ part = "locked" => NobodyElseWaits
    /\ part = "wrapped" => OthersGoOn

=============================================================================
