------------------------------ MODULE ConnPool ------------------------------
(***************************************************************************)
(* dns/tcp_connpool.go and dns/udp_connpool.go, the same pool twice: idle  *)
(* connections in a buffered channel, a mutex that guards closed alone.    *)
(* Get and Put look at closed first and use the channel later.             *)
(***************************************************************************)
EXTENDS Naturals, Sequences, FiniteSets, Functions

CONSTANTS Users,      \* goroutines that query, one connection at a time
          ConnSize,   \* connections the channel holds
          MaxConns    \* bound on the connections that are dialed

\* A channel has a capacity.
ASSUME ConnBounds == ConnSize \in Nat /\ MaxConns \in Nat

Conns == 1..MaxConns

VARIABLES
    conns,     \* the idle connections
    open,      \* whether the channel is open
    cclosed,   \* the field closed
    closer,    \* where Close is: "out", "marked", "drain" or "over"
    upc,       \* where each user is
    conn,      \* the connection each user has, 0 for none
    dialed,    \* how many connections were made
    shut,      \* the connections that were closed
    cpanic     \* whether a Put has sent on the closed channel

connVars == <<conns, open, cclosed, closer, upc, conn, dialed, shut, cpanic>>

ConnInit ==
    /\ conns = <<>> /\ open = TRUE /\ cclosed = FALSE /\ closer = "out"
    /\ upc = [u \in Users |-> "out"]
    /\ conn = [u \in Users |-> 0]
    /\ dialed = 0 /\ shut = {} /\ cpanic = FALSE

\* closed is read under the mutex, which Close has until it is over.
Unlocked == closer \in {"out", "over"}

UserGoto(u, from, to) == upc[u] = from /\ upc' = [upc EXCEPT ![u] = to]
Hold(u, c) == conn' = [conn EXCEPT ![u] = c]

-----------------------------------------------------------------------------
(* Get                                                                     *)

Get(u) ==
    /\ ~cpanic /\ Unlocked /\ ~cclosed    \* net.ErrClosed otherwise
    /\ UserGoto(u, "out", "take")
    /\ UNCHANGED <<conns, open, cclosed, closer, conn, dialed, shut, cpanic>>

Take(u) ==
    /\ ~cpanic /\ conns # <<>>
    /\ UserGoto(u, "take", "use")
    /\ Hold(u, Head(conns)) /\ conns' = Tail(conns)
    /\ UNCHANGED <<open, cclosed, closer, dialed, shut, cpanic>>

\* An empty channel, or one that is closed and gives nil.
Dial(u) ==
    /\ ~cpanic /\ conns = <<>> /\ dialed < MaxConns
    /\ UserGoto(u, "take", "use")
    /\ Hold(u, dialed + 1) /\ dialed' = dialed + 1
    /\ UNCHANGED <<conns, open, cclosed, closer, shut, cpanic>>

DialFails(u) ==
    /\ ~cpanic /\ conns = <<>>
    /\ UserGoto(u, "take", "out")
    /\ UNCHANGED <<conns, open, cclosed, closer, conn, dialed, shut, cpanic>>

-----------------------------------------------------------------------------
(* A query that fails closes its connection; one that does not puts it     *)
(* back.                                                                   *)

Discard(u, from) ==
    /\ UserGoto(u, from, "out")
    /\ shut' = shut \cup {conn[u]} /\ Hold(u, 0)
    /\ UNCHANGED <<conns, open, cclosed, closer, dialed, cpanic>>

QueryFails(u) == ~cpanic /\ Discard(u, "use")

Put(u) ==
    /\ ~cpanic /\ Unlocked
    /\ IF cclosed THEN Discard(u, "use")
       ELSE /\ UserGoto(u, "use", "send")
            /\ UNCHANGED <<conns, open, cclosed, closer, conn, dialed, shut, cpanic>>

\* The select with a default sends or closes; on a closed channel it panics.
Fits == Len(conns) < ConnSize

SendBack(u) ==
    /\ ~cpanic /\ upc[u] = "send"
    /\ IF ~open THEN cpanic' = TRUE /\ UNCHANGED <<conns, open, cclosed, closer, upc, conn, dialed, shut>>
       ELSE IF Fits
       THEN /\ UserGoto(u, "send", "out")
            /\ conns' = Append(conns, conn[u]) /\ Hold(u, 0)
            /\ UNCHANGED <<open, cclosed, closer, dialed, shut, cpanic>>
       ELSE Discard(u, "send")

-----------------------------------------------------------------------------
(* Close                                                                   *)

CloseMarks ==
    /\ ~cpanic /\ closer = "out"
    /\ closer' = "marked" /\ cclosed' = TRUE
    /\ UNCHANGED <<conns, open, upc, conn, dialed, shut, cpanic>>

CloseConns ==
    /\ ~cpanic /\ closer = "marked"
    /\ closer' = "drain" /\ open' = FALSE
    /\ UNCHANGED <<conns, cclosed, upc, conn, dialed, shut, cpanic>>

CloseDrains_x ==
    /\ ~cpanic /\ closer = "drain"
    /\ closer' = "over"
    /\ IF conns = <<>> THEN UNCHANGED <<conns, shut>>
       ELSE conns' = Tail(conns) /\ shut' = shut \cup {Head(conns)}
    /\ UNCHANGED <<open, cclosed, upc, conn, dialed, cpanic>>
CloseDrains ==
    /\ ~cpanic /\ closer = "drain"
    /\ IF conns = <<>> THEN closer' = "over" /\ UNCHANGED <<conns, shut>>
       ELSE conns' = Tail(conns) /\ shut' = shut \cup {Head(conns)} /\ UNCHANGED closer
    /\ UNCHANGED <<open, cclosed, upc, conn, dialed, cpanic>>

-----------------------------------------------------------------------------
CloseStep == CloseConns \/ CloseDrains
ConnNext ==
    \/ CloseMarks \/ CloseStep
    \/ \E u \in Users :
          \/ Get(u) \/ Take(u) \/ Dial(u) \/ DialFails(u) \/ QueryFails(u) \/ Put(u) \/ SendBack(u)

ConnSpec == ConnInit /\ [][ConnNext]_connVars

-----------------------------------------------------------------------------
(* Properties                                                              *)

InUse == {conn[u] : u \in Users} \ {0}

\* A connection that was dialed is idle, in use by one user, or closed, also
\* while Close drains the channel that a Get takes from; at most Size are idle;
\* and when Close is over none is idle.
ConnsKept ==
    /\ Len(conns) <= ConnSize /\ Range(conns) \subseteq Conns /\ IsInjective(conns)
    /\ \A u, v \in Users : conn[u] = conn[v] /\ conn[u] # 0 => u = v
    /\ Range(conns) \cap InUse = {} /\ shut \cap (Range(conns) \cup InUse) = {}
    /\ 1..dialed = Range(conns) \cup InUse \cup shut
    /\ closer = "over" => conns = <<>>

\* "safe to call concurrently with Get/Put": no Put panics.
NoPutPanics == ~cpanic

=============================================================================
