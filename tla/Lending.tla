------------------------------ MODULE Lending ------------------------------
(***************************************************************************)
(* What a pool promises about every single object, without its channels,   *)
(* timers, counters or order: an object is made once, is in stock or lent  *)
(* to one user at a time, and once gone is never seen again.               *)
(***************************************************************************)
CONSTANTS Users, Objects

VARIABLES
    stock,   \* the objects no user has
    lent,    \* the objects each user has
    gone     \* the objects given up: closed, or lost

lendingVars == <<stock, lent, gone>>

Lent == UNION {lent[u] : u \in Users}
Unmade == Objects \ (stock \cup Lent \cup gone)

Init ==
    /\ stock = {} /\ gone = {}
    /\ lent = [u \in Users |-> {}]

\* A user gets an object out of stock, or one made for it.
Lend(u, o) ==
    /\ o \in stock \cup Unmade
    /\ stock' = stock \ {o}
    /\ lent' = [lent EXCEPT ![u] = @ \cup {o}]
    /\ UNCHANGED gone

Return(u, o) ==
    /\ o \in lent[u]
    /\ lent' = [lent EXCEPT ![u] = @ \ {o}]
    /\ stock' = stock \cup {o}
    /\ UNCHANGED gone

\* An object in stock, or just made and wanted by no one, is given up.
Discard(o) ==
    /\ o \in stock \cup Unmade
    /\ stock' = stock \ {o}
    /\ gone' = gone \cup {o}
    /\ UNCHANGED lent

\* An object is given up while a user has it.
Forfeit(u, o) ==
    /\ o \in lent[u]
    /\ lent' = [lent EXCEPT ![u] = @ \ {o}]
    /\ gone' = gone \cup {o}
    /\ UNCHANGED stock

Next ==
    \E o \in Objects :
        \/ Discard(o)
        \/ \E u \in Users : Lend(u, o) \/ Return(u, o) \/ Forfeit(u, o)

Spec == Init /\ [][Next]_lendingVars

=============================================================================
