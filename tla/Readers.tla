------------------------------- MODULE Readers -------------------------------
(***************************************************************************)
(* envutil/: the readers of environment variables, what their options make *)
(* of them, and the readers that are put together and taken apart.         *)
(***************************************************************************)
EXTENDS Naturals, Sequences
LOCAL INSTANCE SequencesExt

CONSTANTS
    Vars,       \* sequences of what the keys that are read together may be set to:
                \* "unset", "good" (it parses), "bad" (it does not), "empty" (no value)
    Overrides,  \* the keys (by index) that may be overridden in the context
    MaxOps

VARIABLES
    readers,    \* the readers there are
    whole,      \* the one they were put into, or Unmade
    refused,    \* history: the readers whose value an option refused
    was,        \* history: the readers that were put together
    n           \* a bound: the operations there have been

vars == <<readers, whole, refused, was, n>>

Reader(present, err, value) == [present |-> present, err |-> err, value |-> value]
NoValue == Reader(FALSE, FALSE, "")
Unmade == <<>>

-----------------------------------------------------------------------------
(* Definitions named ..._x are wrong on purpose                            *)

\* What the context overrides goes before what the process has.
get(value, overridden) ==
    IF overridden THEN Reader(TRUE, FALSE, "good")
    ELSE IF value = "unset" THEN NoValue ELSE Reader(TRUE, FALSE, value)

Value(r) == IF r.err THEN "error" ELSE IF ~r.present THEN "missing" ELSE "value"
Ok(r) == Value(r) = "value"
ValueOrElse(r, v) == IF Ok(r) THEN r.value ELSE v

\* f gives a value, "error", or "unset".
Map(r, f) ==
    IF ~Ok(r) THEN Reader(r.present, r.err, "")
    ELSE CASE f[r.value] = "error" -> Reader(TRUE, TRUE, "")
           [] f[r.value] = "unset" -> NoValue
           [] OTHER -> Reader(TRUE, FALSE, f[r.value])

\* String, Bool, Int and the others: a read and a parser.
Parser == [v \in {"good", "bad", "empty", "default", "fallback", "parsed", ""} |->
              CASE v = "bad" -> "error" [] v = "empty" -> "unset" [] OTHER -> "parsed"]
Typed(r) == Map(r, Parser)

WithErrorIfMissing(r) == IF r.present \/ r.err THEN r ELSE Reader(FALSE, TRUE, "")
WithDefault_x(r) == IF r.present THEN r ELSE Reader(TRUE, FALSE, "default")
WithDefault(r) == IF r.present THEN r ELSE Reader(TRUE, r.err, "default")
WithFallback(r, v) == IF r.present THEN r ELSE v
\* A validation keeps a value or makes it an error.
Strict == [v \in DOMAIN Parser |-> IF v = "default" THEN "error" ELSE v]
Validate(r) == Map(r, Strict)

\* Combine5 and Combine6 look at the first four of their readers.
Checked(s) == SubSeq(s, 1, IF Len(s) > 4 THEN 4 ELSE Len(s))
Values(s) == [i \in DOMAIN s |-> s[i].value]
Combine(s) ==
    CASE \E r \in ToSet(Checked(s)) : r.err -> Reader(FALSE, TRUE, <<>>)
      [] \E r \in ToSet(Checked(s)) : ~r.present -> Reader(FALSE, FALSE, <<>>)
      [] OTHER -> Reader(TRUE, FALSE, Values(s))
Split(r, width) ==
    [i \in 1 .. width |->
        IF ~r.present THEN NoValue
        ELSE IF r.err THEN Reader(FALSE, TRUE, "") ELSE Reader(TRUE, FALSE, r.value[i])]

-----------------------------------------------------------------------------
Init ==
    /\ \E s \in Vars, o \in SUBSET Overrides :
          readers = [i \in DOMAIN s |-> get(s[i], i \in o)]
    /\ whole = Unmade /\ refused = {} /\ was = <<>> /\ n = 0

\* An option for one reader; it refuses a reader that it makes an error of.
Option(i, r) ==
    /\ readers' = [readers EXCEPT ![i] = r]
    /\ refused' = IF ~readers[i].err /\ r.err THEN refused \cup {i} ELSE refused
Options(i) ==
    /\ \/ Option(i, Typed(readers[i]))
       \/ Option(i, WithErrorIfMissing(readers[i]))
       \/ Option(i, WithDefault(readers[i]))
       \/ Option(i, Validate(readers[i]))
       \/ /\ readers' = [readers EXCEPT ![i] = WithFallback(@, Reader(TRUE, FALSE, "fallback"))]
          /\ refused' = IF readers[i].present THEN refused ELSE refused \ {i}
    /\ UNCHANGED <<whole, was>>

Put ==
    /\ whole = Unmade
    /\ whole' = <<Combine(readers)>> /\ was' = readers
    /\ UNCHANGED <<readers, refused>>
Take ==
    /\ whole # Unmade
    /\ readers' = Split(whole[1], Len(readers))
    /\ whole' = Unmade /\ refused' = {}
    /\ UNCHANGED was

Next ==
    /\ n < MaxOps /\ n' = n + 1
    /\ Put \/ Take \/ (whole = Unmade /\ \E i \in DOMAIN readers : Options(i))
Spec == Init /\ [][Next]_vars

-----------------------------------------------------------------------------
(* Properties                                                              *)

\* A reader that a parser, a validation or IfMissing refused gives no value, nor does a
\* default hide the error, whatever the order of the options; only a fallback, which is
\* another reader, takes the place of one that is missing.
RefusedIsError == \A i \in refused : ~Ok(readers[i])

\* "All-or-nothing: if any Reader has an error or is missing, the result will too", as
\* far as the readers are looked at (Combine5 and Combine6 leave out the fifth and the
\* sixth); who takes the result apart has the readers that were put together, or none.
AllOrNothing ==
    whole # Unmade =>
       /\ Ok(whole[1]) <=> \A r \in ToSet(Checked(was)) : Ok(r)
       /\ Ok(whole[1]) => \A i \in DOMAIN Checked(was) : Split(whole[1], Len(was))[i] = was[i]
       /\ ~Ok(whole[1]) => \A r \in ToSet(Split(whole[1], Len(was))) : ~Ok(r)

\* "if any Reader has an error or is missing, the result will too": of Combine5 and Combine6
\* that is not so.
CombineIsAllOrNothing == whole # Unmade => (Ok(whole[1]) <=> \A r \in ToSet(was) : Ok(r))

ReadersAreTrue == RefusedIsError /\ AllOrNothing

=============================================================================
