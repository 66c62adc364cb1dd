------------------------------ MODULE Transport ------------------------------
(***************************************************************************)
(* http/transport: which of the shared transports a caller of Get is given *)
(* for its options and its context, and what becomes of the body of a      *)
(* response that is decompressed on the way.                               *)
(*                                                                         *)
(* The transports, and the settings of the environment they are made with, *)
(* are lazy values (module Lazy): the first caller's context decides.      *)
(***************************************************************************)
EXTENDS Naturals, FiniteSets

CONSTANTS
    Clients,
    OptionSets,  \* sets of options Get is called with
    Contexts,   \* [transport, pooled]: the override a context carries, if any, and what
                \* HTTP_TRANSPORT_PREFER_POOLED says there
    Mine        \* a transport of the caller's own

ASSUME TransportAssumption ==
    /\ {Mine, "none"} \cap Clients = {}
    /\ \A x \in Contexts : x.transport \notin Clients /\ x.pooled \in BOOLEAN

VARIABLES
    want,       \* of each caller: [opts, override, ctx]
    tpc,        \* "out", "options", "choose", "got", "sent", "over"
    pooled,     \* preferPooledForDefault: "unmade", or a truth value in a set
    prefer,     \* of each caller: what it has read there
    instances,  \* the transports made so far: flags -> the caller who made it
    given,      \* what Get gave: [flags, by, decompressor], or NoTransport
    body,       \* of the response: "none", "open", "closed"
    decoder

transportVars == <<want, tpc, pooled, prefer, instances, given, body, decoder>>

NoTransport == [flags |-> {}, by |-> "none", decompressor |-> FALSE]
Flags == {"unpooled", "cache", "tls", "raw", "amp", "public"}
Asks == [opts : OptionSets, override : {"none", Mine}, ctx : Contexts]

TransportInit ==
    /\ want \in [Clients -> Asks]
    /\ tpc = [c \in Clients |-> "out"] /\ pooled = {} /\ prefer = [c \in Clients |-> TRUE]
    /\ instances = [f \in {} |-> "none"] /\ given = [c \in Clients |-> NoTransport]
    /\ body = [c \in Clients |-> "none"] /\ decoder = [c \in Clients |-> "none"]

ClientGoes(c, from, to) == tpc[c] = from /\ tpc' = [tpc EXCEPT ![c] = to]
\* A transport that was not made here.
Given(c, by) == given' = [given EXCEPT ![c] = [NoTransport EXCEPT !.by = by]]

-----------------------------------------------------------------------------
(* Get; definitions named ..._x are wrong on purpose                       *)

\* A transport in the context goes before everything else.
getTransportFromContext(c) ==
    /\ IF want[c].ctx.transport # "none"
       THEN ClientGoes(c, "out", "got") /\ Given(c, want[c].ctx.transport)
       ELSE ClientGoes(c, "out", "options") /\ UNCHANGED given
    /\ UNCHANGED <<want, pooled, prefer, instances, body, decoder>>

\* The environment of the first caller says whether transports are pooled by default.
readOptions(c) ==
    /\ ClientGoes(c, "options", "choose")
    /\ pooled' = IF pooled = {} THEN {want[c].ctx.pooled} ELSE pooled
    /\ prefer' = [prefer EXCEPT ![c] = \E p \in pooled' : p]
    /\ UNCHANGED <<want, instances, given, body, decoder>>

\* What the options and the default come to.  Only public addresses are for the dialer
\* of dns/; enhanced decompression leaves the bodies as they are, for the decompressor.
flagsOf(c) ==
    LET o == want[c].opts
    IN  (o \cap Flags) \cup (IF prefer[c] THEN {} ELSE {"unpooled"})
           \cup (IF "enhanced" \in o THEN {"raw"} ELSE {})
Chosen_x(c) == flagsOf(c) \ (IF "public" \in flagsOf(c) THEN {"tls"} ELSE {})
Chosen(c) == flagsOf(c) \ (IF "amp" \in flagsOf(c) THEN {} ELSE {"public"})
Decompressed(c) == "enhanced" \in want[c].opts
getTransportInstance(c) ==
    /\ ClientGoes(c, "choose", "got")
    /\ LET f == Chosen(c)
           by == IF f \in DOMAIN instances THEN instances[f] ELSE c
       IN  IF want[c].override # "none"
           THEN /\ given' = [given EXCEPT ![c] =
                             [NoTransport EXCEPT !.by = Mine, !.decompressor = Decompressed(c)]]
                /\ UNCHANGED instances
           ELSE /\ instances' = [g \in DOMAIN instances \cup {f} |->
                                   IF g = f THEN by ELSE instances[g]]
                /\ given' = [given EXCEPT ![c] =
                             [flags |-> f, by |-> by, decompressor |-> Decompressed(c)]]
    /\ UNCHANGED <<want, pooled, prefer, body, decoder>>

-----------------------------------------------------------------------------
(* RoundTrip                                                               *)

RoundTripFails(c) ==
    /\ ClientGoes(c, "got", "over")
    /\ UNCHANGED <<want, pooled, prefer, instances, given, body, decoder>>
Plain(c) ==
    /\ ClientGoes(c, "got", "sent") /\ body' = [body EXCEPT ![c] = "open"]
    /\ UNCHANGED <<want, pooled, prefer, instances, given, decoder>>
Compressed(c) ==
    /\ given[c].decompressor
    /\ ClientGoes(c, "got", "sent") /\ body' = [body EXCEPT ![c] = "open"]
    /\ decoder' = [decoder EXCEPT ![c] = "open"]
    /\ UNCHANGED <<want, pooled, prefer, instances, given>>
\* A body that is not what its header says is neither given to the caller nor closed.
Malformed(c) ==
    /\ given[c].decompressor
    /\ ClientGoes(c, "got", "over") /\ body' = [body EXCEPT ![c] = "open"]
    /\ decoder' = [decoder EXCEPT ![c] = "refused"]
    /\ UNCHANGED <<want, pooled, prefer, instances, given>>
\* The decoder first, the body also if that fails.
CloseBody(c) ==
    /\ ClientGoes(c, "sent", "over") /\ body' = [body EXCEPT ![c] = "closed"]
    /\ decoder' = [decoder EXCEPT ![c] = IF @ = "open" THEN "closed" ELSE @]
    /\ UNCHANGED <<want, pooled, prefer, instances, given>>

TransportNext ==
    \E c \in Clients :
       \/ getTransportFromContext(c) \/ readOptions(c) \/ getTransportInstance(c)
       \/ RoundTripFails(c) \/ Plain(c) \/ Compressed(c) \/ Malformed(c) \/ CloseBody(c)
TransportSpec == TransportInit /\ [][TransportNext]_transportVars

-----------------------------------------------------------------------------
(* Properties                                                              *)

Shared(c) == given[c].by \in Clients

\* A caller is given a transport that verifies as it asked for and, but for one of its own,
\* refuses private addresses exactly where it asked for the dialer of dns/ and for public
\* addresses: neither does alone, though EnableAmpersandDNS promises it.
RefusesPrivate(f) == {"amp", "public"} \subseteq f
AsAsked ==
    \A c \in Clients : Shared(c) =>
       /\ "tls" \in given[c].flags <=> "tls" \in want[c].opts
       /\ "amp" \in given[c].flags <=> "amp" \in want[c].opts
       /\ RefusesPrivate(given[c].flags) <=> RefusesPrivate(want[c].opts)
       /\ given[c].decompressor => "raw" \in given[c].flags

\* "singleton instances for common configurations": two callers who ask for the same are
\* given the same, whatever their contexts say; the first to come decides how it is made.
SameForAll ==
    \A c, d \in Clients :
       Shared(c) /\ Shared(d) /\ want[c].opts = want[d].opts =>
          given[c].flags = given[d].flags /\ given[c].by = given[d].by

\* A body that is not closed as its request is over is one the decoder refused.
BodiesAreClosed ==
    \A c \in Clients : tpc[c] = "over" =>
       (body[c] = "open" \/ decoder[c] = "open" => decoder[c] = "refused")

TransportIsTrue == AsAsked /\ SameForAll /\ BodiesAreClosed

=============================================================================
