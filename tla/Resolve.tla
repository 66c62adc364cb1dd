------------------------------- MODULE Resolve -------------------------------
(***************************************************************************)
(* dns/: from an address to a connection.  A lookup asks every type of     *)
(* record at once; a strategy puts the answers of the resolvers together;  *)
(* addresses are cached; they are dialed one after the other.              *)
(*                                                                         *)
(* Names are canonical.  A resolver is a stack, a function of what the     *)
(* server knows and of how the network treats the queries it makes:        *)
(* "up", "down", "cut" (UDP answers are truncated) or "short" (TCP too).   *)
(* The pools of connections under it are ConnPool.                         *)
(***************************************************************************)
EXTENDS Naturals, Sequences, FiniteSets
LOCAL INSTANCE SequencesExt
LOCAL INSTANCE FiniteSetsExt

CONSTANTS
    Worlds,     \* [server -> [recursive, zone]], with a zone a sequence of records
    Setups,     \* [servers, strategy, filter, cached, minTTL, maxTTL]
    Host, Networks, Addrs,
    Family,     \* of each address: 4 or 6
    Rejected,   \* the addresses a filter rejects
    Rogue,      \* the server that lies
    maxCachedTTLSeconds,
    Weather, MaxCNAMEDepth, MaxAttempts, MaxNow, MaxCalls, Callers

VARIABLES
    world, setup,
    now,        \* the clock
    cache,      \* the entry of Host: [ips, expires, records, since], or Miss
    pc,         \* of each caller: "out", "ask", "query", "answered", "dial", "over"
    ask,        \* what it looks up: [network, addr]
    todo,       \* the types whose answers are missing
    records,    \* all records it has, [type, value, ttl, at], with the time they came
    n,          \* attempts
    ips,        \* what Lookup gives it
    late,       \* history: the answers a cache gave it after their time
    conn,       \* the address it is connected to, or "none", or "failed"
    calls       \* a bound: the calls there have been

vars == <<world, setup, now, cache, pc, ask, todo, records, n, ips, late, conn, calls>>
fixed == <<world, setup>>

Miss == [ips |-> <<>>, expires |-> 0, records |-> <<>>, since |-> 0]
Types == {"A", "AAAA", "CNAME"}
Ok(s) == [records |-> s, trunc |-> "ok", err |-> FALSE]
Err(trunc) == [records |-> <<>>, trunc |-> trunc, err |-> TRUE]

-----------------------------------------------------------------------------
(* One resolver; definitions named ..._x are wrong on purpose              *)

\* What a server has for a name: a recursive one adds what the CNAMEs lead to.
Reached(zone, name) ==
    LET More(names) == names \cup {r.value : r \in {x \in ToSet(zone) :
                                                      x.type = "CNAME" /\ x.name \in names}}
    IN  FoldLeft(LAMBDA names, i : More(names), {name}, zone)
Answer(server, name, type) ==
    LET names == IF world[server].recursive THEN Reached(world[server].zone, name) ELSE {name}
    IN  SelectSeq(world[server].zone, LAMBDA r : r.name \in names /\ r.type \in {type, "CNAME"})
Parsed(s) == IF s = <<>> THEN Err("ok") ELSE Ok(s)

exchange(server, w, name, type) ==
    IF w = "down" THEN Err("unknown") ELSE Parsed(Answer(server, name, type))
udpResolver(server, w, name, type) ==
    IF w \in {"cut", "short"} THEN Err("truncated") ELSE exchange(server, w, name, type)
tcpResolver(server, w, name, type) ==
    IF w = "short" THEN Err("truncated") ELSE exchange(server, w, name, type)
unifiedResolver(server, w, name, type) ==
    LET udp == udpResolver(server, w, name, type)
    IN  IF udp.trunc = "truncated" THEN tcpResolver(server, w, name, type) ELSE udp

hasRecordOfType(all, name, type) == \E r \in ToSet(all) : r.type = type /\ r.name = name
hasRecordsFor(all, name) == \E r \in ToSet(all) : r.name = name
cnameTarget(all, name) ==
    SelectSeq(all, LAMBDA r : r.type = "CNAME" /\ r.name = name)[1].value

\* The walk down a chain of CNAMEs: over once there is a record of the type, or
\* nothing to follow; an error when it comes back to a name, or takes too long.
Follow(server, w, type, walk) ==
    IF walk.over THEN walk
    ELSE IF hasRecordOfType(walk.all, walk.target, type)
              \/ ~hasRecordOfType(walk.all, walk.target, "CNAME")
    THEN [walk EXCEPT !.over = TRUE]
    ELSE LET next == cnameTarget(walk.all, walk.target)
             more == unifiedResolver(server, w, next, type)
         IN  IF next \in walk.visited THEN [walk EXCEPT !.over = TRUE, !.err = TRUE]
             ELSE IF hasRecordsFor(walk.all, next)
             THEN [walk EXCEPT !.target = next, !.visited = @ \cup {next}]
             ELSE IF more.err THEN [walk EXCEPT !.over = TRUE, !.err = TRUE]
             ELSE [walk EXCEPT !.target = next, !.visited = @ \cup {next},
                               !.all = @ \o more.records]
followChain(server, w, name, type, all) ==
    LET walk == FoldLeft(LAMBDA x, i : Follow(server, w, type, x),
                         [all |-> all, target |-> name, visited |-> {name}, over |-> FALSE,
                          err |-> FALSE], [i \in 1 .. MaxCNAMEDepth |-> i])
    IN  IF walk.err \/ ~walk.over THEN Err("ok") ELSE Ok(walk.all)
cnameResolver(server, w, name, type) ==
    LET first == unifiedResolver(server, w, name, type)
    IN  IF first.err THEN first ELSE followChain(server, w, name, type, first.records)

Accept(r) == r.value \notin Rejected
filterResolver(server, w, name, type) ==
    LET all == cnameResolver(server, w, name, type)
    IN  IF all.err THEN all ELSE Parsed(SelectSeq(all.records, Accept))

Resolver(server, w, name, type) ==
    IF setup.filter THEN filterResolver(server, w, name, type)
    ELSE cnameResolver(server, w, name, type)

-----------------------------------------------------------------------------
(* Strategies: the answers they may come to, of those of the resolvers     *)

Successes(as) == SelectSeq(as, LAMBDA a : ~a.err)

\* The first to arrive: any of them.
Race(as) == IF Successes(as) = <<>> THEN {Err("ok")} ELSE ToSet(Successes(as))

Fallback(as) == {IF Successes(as) = <<>> THEN Err("ok") ELSE Successes(as)[1]}

\* The first in the order of a Go map: any of them; no answer is no error.
Compare(as) == IF Successes(as) = <<>> THEN {Ok(<<>>)} ELSE ToSet(Successes(as))

\* As many records of each value, in any order, TTLs ignored.
recordsEqual(s, t) ==
    LET Count(q, v) == Len(SelectSeq(q, LAMBDA r : r.value = v))
    IN  Len(s) = Len(t) /\ \A r \in ToSet(s) : Count(s, r.value) = Count(t, r.value)

Agreeing(as, a) == SelectSeq(Successes(as), LAMBDA b : recordsEqual(a.records, b.records))
Consensus_x(as) ==
    LET agreed == SelectSeq(Successes(as), LAMBDA a :
                       Len(Agreeing(as, a)) >= Len(Successes(as)) \div 2 + 1)
    IN  {IF agreed = <<>> THEN Err("ok") ELSE agreed[1]}
Consensus(as) ==
    LET agreed == SelectSeq(Successes(as), LAMBDA a :
                       Len(Agreeing(as, a)) >= Len(as) \div 2 + 1)
    IN  {IF agreed = <<>> THEN Err("ok") ELSE agreed[1]}

ResolveType(as) ==
    CASE setup.strategy = "race" -> Race(as)
      [] setup.strategy = "fallback" -> Fallback(as)
      [] setup.strategy = "compare" -> Compare(as)
      [] setup.strategy = "consensus" -> Consensus(as)

-----------------------------------------------------------------------------
(* Lookup and DialContext                                                  *)

Init ==
    /\ world \in Worlds /\ setup \in Setups
    /\ now = 0 /\ cache = Miss
    /\ pc = [c \in Callers |-> "out"]
    /\ ask = [c \in Callers |-> [network |-> "tcp", addr |-> Host]]
    /\ todo = [c \in Callers |-> {}] /\ records = [c \in Callers |-> <<>>]
    /\ n = [c \in Callers |-> 0] /\ ips = [c \in Callers |-> <<>>]
    /\ late = [c \in Callers |-> {}] /\ conn = [c \in Callers |-> "none"]
    /\ calls = 0

Goto(c, from, to) == pc[c] = from /\ pc' = [pc EXCEPT ![c] = to]
Fails(c) == conn' = [conn EXCEPT ![c] = "failed"]

Begin(c, network, addr) ==
    /\ pc[c] \in {"out", "over"} /\ calls < MaxCalls /\ calls' = calls + 1
    /\ ask' = [ask EXCEPT ![c] = [network |-> network, addr |-> addr]]
    /\ n' = [n EXCEPT ![c] = 0] /\ records' = [records EXCEPT ![c] = <<>>]
    /\ late' = [late EXCEPT ![c] = {}]

DialContext(c, network) ==
    /\ Begin(c, network, Host) /\ pc' = [pc EXCEPT ![c] = "ask"]
    /\ ips' = [ips EXCEPT ![c] = <<>>] /\ conn' = [conn EXCEPT ![c] = "none"]
    /\ UNCHANGED <<fixed, now, cache, todo>>

\* An address is not looked up, only filtered.  Its family is not looked at.
lookupLiteralIP(c, network, addr) ==
    /\ Begin(c, network, addr)
    /\ IF setup.filter /\ addr \in Rejected
       THEN pc' = [pc EXCEPT ![c] = "over"] /\ Fails(c) /\ ips' = [ips EXCEPT ![c] = <<>>]
       ELSE /\ pc' = [pc EXCEPT ![c] = "dial"]
            /\ ips' = [ips EXCEPT ![c] = <<addr>>] /\ conn' = [conn EXCEPT ![c] = "none"]
    /\ UNCHANGED <<fixed, now, cache, todo>>

\* IPv4 first.
Of(family, s) == SelectSeq(s, LAMBDA ip : Family[ip] = family)
filterIPv4(s) == Of(4, s)
filterIPv6(s) == Of(6, s)
filterAnyIP(s) == Of(4, s) \o Of(6, s)
filterIPs(s, network) ==
    CASE network = "tcp4" -> filterIPv4(s)
      [] network = "tcp6" -> filterIPv6(s)
      [] OTHER -> filterAnyIP(s)
Suit(c, s) ==
    LET kept == filterIPs(s, ask[c].network)
    IN  IF kept = <<>> THEN pc' = [pc EXCEPT ![c] = "over"] /\ Fails(c) /\ UNCHANGED ips
        ELSE /\ pc' = [pc EXCEPT ![c] = "dial"]
             /\ ips' = [ips EXCEPT ![c] = kept] /\ UNCHANGED conn

\* One attempt: from the cache ...
Fresh == setup.cached /\ cache # Miss /\ now <= cache.expires
Clamp(ttl) == IF Max({ttl, setup.minTTL}) > setup.maxTTL THEN setup.maxTTL
              ELSE Max({ttl, setup.minTTL})
Outlived == {r \in ToSet(cache.records) : now > r.at + Max({r.ttl, setup.minTTL})}
getIPs(c) ==
    /\ pc[c] = "ask" /\ Fresh /\ Suit(c, cache.ips)
    /\ late' = [late EXCEPT ![c] =
          {[by |-> now - (r.at + Max({r.ttl, setup.minTTL})), waited |-> cache.since - r.at] :
              r \in Outlived}]
    /\ UNCHANGED <<fixed, now, cache, ask, todo, records, n, calls>>
\* ... or from the resolvers, all types at once.
lookup(c) ==
    /\ Goto(c, "ask", "query") /\ ~Fresh
    /\ todo' = [todo EXCEPT ![c] = Types] /\ records' = [records EXCEPT ![c] = <<>>]
    /\ n' = [n EXCEPT ![c] = @ + 1]
    /\ UNCHANGED <<fixed, now, cache, ask, ips, late, conn, calls>>
Came(s) == [i \in DOMAIN s |->
               [type |-> s[i].type, value |-> s[i].value, ttl |-> s[i].ttl, at |-> now]]
Query(c, type, weather) ==
    /\ pc[c] = "query" /\ type \in todo[c]
    /\ todo' = [todo EXCEPT ![c] = @ \ {type}]
    /\ \E a \in ResolveType([i \in DOMAIN setup.servers |->
                                Resolver(setup.servers[i], weather[i], Host, type)]) :
          records' = [records EXCEPT ![c] = @ \o Came(a.records)]
    /\ pc' = IF todo[c] = {type} THEN [pc EXCEPT ![c] = "answered"] ELSE pc
    /\ UNCHANGED <<fixed, now, cache, ask, n, ips, late, conn, calls>>

Addresses(s) == SelectSeq(s, LAMBDA r : r.type # "CNAME")
Values(s) == [i \in DOMAIN s |-> s[i].value]
MinTTL(s) == Min({r.ttl : r \in ToSet(s)} \cup {maxCachedTTLSeconds})

\* The addresses of all records, kept for as long as the first to run out, from now on: not
\* from when its answer came, however long that waited for those of the other types.
setIPs(s) ==
    cache' = IF setup.cached
             THEN [ips |-> Values(s), expires |-> now + Clamp(MinTTL(s)), records |-> s,
                   since |-> now]
             ELSE cache
lookupIPs(c) ==
    /\ pc[c] = "answered"
    /\ LET found == Addresses(records[c])
       IN  IF found # <<>> THEN setIPs(found) /\ Suit(c, Values(found))
           ELSE /\ UNCHANGED <<cache, ips>>
                /\ IF n[c] < MaxAttempts THEN Goto(c, "answered", "ask") /\ UNCHANGED conn
                   ELSE Goto(c, "answered", "over") /\ Fails(c)
    /\ records' = [records EXCEPT ![c] = <<>>]
    /\ UNCHANGED <<fixed, now, ask, todo, n, late, calls>>

\* The addresses in their order, until one answers.
Dialed(c) ==
    /\ pc[c] = "dial" /\ ips[c] # <<>>
    /\ Goto(c, "dial", "over") /\ conn' = [conn EXCEPT ![c] = Head(ips[c])]
    /\ UNCHANGED <<fixed, now, cache, ask, todo, records, n, ips, late, calls>>
DialFails(c) ==
    /\ pc[c] = "dial"
    /\ IF Len(ips[c]) > 1
       THEN ips' = [ips EXCEPT ![c] = Tail(@)] /\ UNCHANGED <<pc, conn>>
       ELSE Goto(c, "dial", "over") /\ Fails(c) /\ UNCHANGED ips
    /\ UNCHANGED <<fixed, now, cache, ask, todo, records, n, late, calls>>

\* Only the age of an answer or of a cached entry matters.
Tick ==
    /\ now < MaxNow /\ now' = now + 1
    /\ setup.cached /\ (cache # Miss \/ \E c \in Callers : Addresses(records[c]) # <<>>)
    /\ UNCHANGED <<fixed, cache, pc, ask, todo, records, n, ips, late, conn, calls>>

Next ==
    \/ Tick
    \/ \E c \in Callers :
          \/ \E network \in Networks :
                \/ DialContext(c, network)
                \/ \E addr \in Addrs : lookupLiteralIP(c, network, addr)
          \/ getIPs(c) \/ lookup(c) \/ lookupIPs(c) \/ Dialed(c) \/ DialFails(c)
          \/ \E type \in Types, weather \in [DOMAIN setup.servers -> Weather] :
                Query(c, type, weather)
Spec == Init /\ [][Next]_vars

-----------------------------------------------------------------------------
(* Properties                                                              *)

Looked(c) == pc[c] \in {"dial", "over"} /\ ask[c].addr = Host

\* Whatever the way it comes by, no address that the filter rejects is dialed, and
\* none of a family the network excludes, except a literal one.
OnlySuitable ==
    \A c \in Callers : \A ip \in ToSet(ips[c]) \cup ({conn[c]} \cap DOMAIN Family) :
       /\ setup.filter => ip \notin Rejected
       /\ Looked(c) /\ ask[c].network = "tcp4" => Family[ip] = 4
       /\ Looked(c) /\ ask[c].network = "tcp6" => Family[ip] = 6

\* "guarding against a single rogue or poisoned resolver": of three resolvers one
\* that lies is not believed, nor are its lies cached.
RogueIsAlone ==
    setup.strategy = "consensus" =>
       LET honest == UNION {{r.value : r \in ToSet(world[s].zone)} :
                              s \in ToSet(setup.servers) \ {Rogue}}
       IN  /\ ToSet(cache.ips) \subseteq honest
           /\ \A c \in Callers : ask[c].addr = Host => ToSet(ips[c]) \subseteq honest

\* "so the record's own TTL is honored": but for the minimum it is told to keep them for, a
\* cache gives an address that has run out, of any type, only if its answer waited for those
\* of the other types, and not for longer than it did.
NothingIsLate == \A c \in Callers : \A x \in late[c] : x.by <= x.waited

\* A name whose CNAMEs, the first of each name, go in a circle has no address, whatever
\* addresses of other names the servers add, and the walk ends.
Circular(server) ==
    LET zone == world[server].zone
        Along(name) == IF hasRecordOfType(zone, name, "CNAME") THEN cnameTarget(zone, name) ELSE name
        End == FoldLeft(LAMBDA name, x : Along(name), Host, zone)
    IN  hasRecordOfType(zone, End, "CNAME")
CirclesAreErrors ==
    (\A s \in ToSet(setup.servers) : Circular(s)) => \A c \in Callers : Looked(c) => ips[c] = <<>>

ResolveIsTrue == OnlySuitable /\ RogueIsAlone /\ NothingIsLate /\ CirclesAreErrors

=============================================================================
