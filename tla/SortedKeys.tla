----------------------------- MODULE SortedKeys -----------------------------
(***************************************************************************)
(* What maps.Map and set.Set promise of a sorted implementation, as far as *)
(* keys go: a set that Add, Remove and Clear change one key at a time.     *)
(***************************************************************************)
CONSTANT Keys
VARIABLES
    keys,
    asked    \* the last call

Init == keys = {} /\ asked = <<>>
Add(k) == asked' = <<"Add", k>> /\ keys' = keys \cup {k}
Remove(k) == asked' = <<"Remove", k>> /\ keys' = keys \ {k}
Clear == asked' = <<"Clear">> /\ keys' = {}

Next == Clear \/ \E k \in Keys : Add(k) \/ Remove(k)
Spec == Init /\ [][Next]_<<keys, asked>>
=============================================================================
