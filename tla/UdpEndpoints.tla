---------------------------- MODULE UdpEndpoints ----------------------------
(***************************************************************************)
(* The server's end of a UDP association: the datagrams that a stream      *)
(* carries, each to its destination by a socket that is kept for it; the   *)
(* names that stand for destinations; what destinations answer; idleness,  *)
(* the cap, and the end. (udp_association.go)                              *)
(*                                                                         *)
(* Any destination may have become idle and the cap may evict any: how     *)
(* long ago each was used is left out. A name may resolve differently each *)
(* time. A datagram is sent by a writer for a name.                        *)
(***************************************************************************)
EXTENDS Integers, FiniteSets

CONSTANTS
    Writers, Names, Addrs,
    MaxTargets, MaxAliases, \* maxUDPAssociationTargets, maxUDPAssociationAliases
    MaxSockets              \* sockets opened in a behaviour

VARIABLES
    phase,      \* "open", "closing" (c.closed), "closed"
    endpoints,  \* the socket of each address, or 0
    aliases,    \* the address of each name, or 0
    sock,       \* the sockets: address, whether open, whether its reader runs
    opened,
    gauge,      \* genericUDPEndpoints
    writer,     \* what each writer does
    doomed,     \* sockets detached by the sweep or by Close, not closed yet
    meant       \* the addresses each name has resolved to

endpointVars == <<phase, endpoints, aliases, sock, opened, gauge, writer, doomed, meant>>

None  == 0
Rest  == [at |-> "rests", name |-> None, addr |-> None, sock |-> None, victim |-> None]

Init ==
    /\ phase = "open" /\ opened = 0 /\ gauge = 0 /\ doomed = {}
    /\ endpoints = [a \in Addrs |-> None] /\ aliases = [n \in Names |-> None]
    /\ sock = [k \in 1..MaxSockets |-> [addr |-> None, open |-> FALSE, reads |-> FALSE]]
    /\ writer = [w \in Writers |-> Rest] /\ meant = [n \in Names |-> {}]

Goes(w, place) == writer' = [writer EXCEPT ![w] = place]
At(w, at)      == Goes(w, [writer[w] EXCEPT !.at = at])

(* detachEndpointLocked and removeAliasesLocked *)
Detached(as) ==
    /\ endpoints' = [a \in Addrs |-> IF a \in as THEN None ELSE endpoints[a]]
    /\ aliases' = [n \in Names |-> IF aliases[n] \in as THEN None ELSE aliases[n]]
    /\ gauge' = gauge - Cardinality({a \in as : endpoints[a] # None})

(* rememberAliasLocked: any alias makes room *)
Aliased(n) == {m \in Names : aliases[m] # None /\ m # n}
Remember(n, a) ==
    IF aliases[n] = None /\ Cardinality(Aliased(n)) >= MaxAliases
    THEN \E m \in Aliased(n) : aliases' = [aliases EXCEPT ![m] = None, ![n] = a]
    ELSE aliases' = [aliases EXCEPT ![n] = a]

----------------------------------------------------------------------------
(* Write, for one datagram: endpointFor                                    *)

Begin(w, n) ==
    /\ writer[w].at = "rests" /\ phase = "open"
    /\ Goes(w, [Rest EXCEPT !.at = "looks", !.name = n])
    /\ UNCHANGED <<phase, endpoints, aliases, sock, opened, gauge, doomed, meant>>

Look(w) ==
    LET n == writer[w].name IN
    /\ writer[w].at = "looks"
    /\ IF phase # "open" THEN Goes(w, Rest) /\ UNCHANGED aliases
       ELSE IF aliases[n] # None /\ endpoints[aliases[n]] # None
       THEN Goes(w, [writer[w] EXCEPT !.at = "has", !.sock = endpoints[aliases[n]]]) /\ UNCHANGED aliases
       ELSE aliases' = [aliases EXCEPT ![n] = None] /\ At(w, "resolves")
    /\ UNCHANGED <<phase, endpoints, sock, opened, gauge, doomed, meant>>

(* resolvePublicUDPAddr, or no public address *)
Resolve(w) ==
    /\ writer[w].at = "resolves"
    /\ \/ Goes(w, Rest) /\ UNCHANGED meant
       \/ \E a \in Addrs : /\ Goes(w, [writer[w] EXCEPT !.at = "checks", !.addr = a])
                           /\ meant' = [meant EXCEPT ![writer[w].name] = @ \union {a}]
    /\ UNCHANGED <<phase, endpoints, aliases, sock, opened, gauge, doomed>>

Check(w) ==
    LET a == writer[w].addr IN
    /\ writer[w].at = "checks"
    /\ IF endpoints[a] # None
       THEN Remember(writer[w].name, a) /\ Goes(w, [writer[w] EXCEPT !.at = "has", !.sock = endpoints[a]])
       ELSE At(w, "dials") /\ UNCHANGED aliases
    /\ UNCHANGED <<phase, endpoints, sock, opened, gauge, doomed, meant>>

Dial(w) ==
    /\ writer[w].at = "dials"
    /\ \/ Goes(w, Rest) /\ UNCHANGED <<sock, opened>>
       \/ /\ opened < MaxSockets /\ opened' = opened + 1
          /\ sock' = [sock EXCEPT ![opened + 1] = [@ EXCEPT !.addr = writer[w].addr, !.open = TRUE]]
          /\ Goes(w, [writer[w] EXCEPT !.at = "dialed", !.sock = opened + 1])
    /\ UNCHANGED <<phase, endpoints, aliases, gauge, doomed, meant>>

(* The association may be closed by now, and another writer may have the   *)
(* address; the cap is kept here, after the dials.                         *)
Late(w) ==
    /\ writer[w].at = "dialed" /\ phase # "open" /\ Goes(w, Rest)
    /\ sock' = [sock EXCEPT ![writer[w].sock].open = FALSE]
    /\ UNCHANGED <<phase, endpoints, aliases, opened, gauge, doomed, meant>>

Lost(w) ==
    LET a == writer[w].addr IN
    /\ writer[w].at = "dialed" /\ phase = "open" /\ endpoints[a] # None
    /\ sock' = [sock EXCEPT ![writer[w].sock].open = FALSE]
    /\ Remember(writer[w].name, a) /\ Goes(w, [writer[w] EXCEPT !.at = "has", !.sock = endpoints[a]])
    /\ UNCHANGED <<phase, endpoints, opened, gauge, doomed, meant>>

Held == {a \in Addrs : endpoints[a] # None}

(* The aliases of the evicted go first, and may make the room. *)
Insert(w) ==
    LET a == writer[w].addr
        k == writer[w].sock
        n == writer[w].name
    IN
    /\ writer[w].at = "dialed" /\ phase = "open" /\ endpoints[a] = None
    /\ \E as \in SUBSET Held :
        /\ Cardinality(as) = IF Cardinality(Held) >= MaxTargets THEN 1 ELSE 0
        /\ endpoints' = [b \in Addrs |-> IF b = a THEN k ELSE IF b \in as THEN None ELSE endpoints[b]]
        /\ LET left == [m \in Names |-> IF aliases[m] \in as THEN None ELSE aliases[m]]
               full == left[n] = None /\ Cardinality({m \in Names : left[m] # None}) >= MaxAliases
           IN \E gone \in SUBSET {m \in Names : left[m] # None} :
                /\ Cardinality(gone) = IF full THEN 1 ELSE 0
                /\ aliases' = [m \in Names |-> IF m = n THEN a ELSE IF m \in gone THEN None ELSE left[m]]
        /\ gauge' = gauge + 1 - Cardinality(as)
        /\ Goes(w, [writer[w] EXCEPT !.at = "starts",
                        !.victim = IF as = {} THEN None ELSE endpoints[CHOOSE b \in as : TRUE]])
    /\ UNCHANGED <<phase, sock, opened, doomed, meant>>

(* The evicted one is closed, then the new one's reader starts. *)
Start(w) ==
    LET v == writer[w].victim IN
    /\ writer[w].at = "starts"
    /\ sock' = [k \in DOMAIN sock |-> IF k = v THEN [sock[k] EXCEPT !.open = FALSE]
                                      ELSE IF k = writer[w].sock THEN [sock[k] EXCEPT !.reads = TRUE] ELSE sock[k]]
    /\ Goes(w, [writer[w] EXCEPT !.at = "has", !.victim = None])
    /\ UNCHANGED <<phase, endpoints, aliases, opened, gauge, doomed, meant>>

(* The socket takes the datagram, or fails and is removed. *)
Send(w) ==
    LET k == writer[w].sock IN
    /\ writer[w].at = "has"
    /\ (sock[k].open /\ Goes(w, Rest)) \/ At(w, "removes")
    /\ UNCHANGED <<phase, endpoints, aliases, sock, opened, gauge, doomed, meant>>

(* removeEndpoint: only where the table holds this very socket *)
Removes(k) == Detached({a \in Addrs : endpoints[a] = k})

Remove(w) ==
    LET k == writer[w].sock IN
    /\ writer[w].at = "removes" /\ Removes(k) /\ sock' = [sock EXCEPT ![k].open = FALSE] /\ Goes(w, Rest)
    /\ UNCHANGED <<phase, opened, doomed, meant>>

----------------------------------------------------------------------------
(* A destination cannot be reached, or its socket was closed: the reader   *)
(* removes it. A reader that waits for room leaves at a close.             *)
ReaderEnds(k) ==
    /\ sock[k].reads
    /\ \/ Removes(k) /\ sock' = [sock EXCEPT ![k] = [@ EXCEPT !.open = FALSE, !.reads = FALSE]]
       \/ /\ ~sock[k].open \/ phase # "open"
          /\ sock' = [sock EXCEPT ![k].reads = FALSE] /\ UNCHANGED <<endpoints, aliases, gauge>>
    /\ UNCHANGED <<phase, opened, writer, doomed, meant>>

Expire ==
    /\ phase # "closed" /\ doomed = {}
    /\ \E as \in SUBSET Held \ {{}} : Detached(as) /\ doomed' = {endpoints[a] : a \in as}
    /\ UNCHANGED <<phase, sock, opened, writer, meant>>

CloseOne(k) ==
    /\ k \in doomed /\ doomed' = doomed \ {k} /\ sock' = [sock EXCEPT ![k].open = FALSE]
    /\ UNCHANGED <<phase, endpoints, aliases, opened, gauge, writer, meant>>

Close ==
    /\ phase = "open" /\ phase' = "closing"
    /\ UNCHANGED <<endpoints, aliases, sock, opened, gauge, writer, doomed, meant>>

CloseAll ==
    /\ phase = "closing" /\ phase' = "closed"
    /\ endpoints' = [a \in Addrs |-> None] /\ aliases' = [n \in Names |-> None]
    /\ gauge' = gauge - Cardinality(Held) /\ doomed' = doomed \union {endpoints[a] : a \in Held}
    /\ UNCHANGED <<sock, opened, writer, meant>>

Next ==
    \/ \E w \in Writers : \/ \E n \in Names : Begin(w, n)
                          \/ Look(w) \/ Resolve(w) \/ Check(w) \/ Dial(w) \/ Late(w) \/ Lost(w) \/ Insert(w)
                          \/ Start(w) \/ Send(w) \/ Remove(w)
    \/ \E k \in 1..opened : ReaderEnds(k) \/ CloseOne(k)
    \/ Expire \/ Close \/ CloseAll

Spec == Init /\ [][Next]_endpointVars

----------------------------------------------------------------------------
TypeOK ==
    /\ phase \in {"open", "closing", "closed"} /\ gauge \in 0..Cardinality(Addrs) /\ opened \in 0..MaxSockets
    /\ \A a \in Addrs : endpoints[a] \in 0..opened /\ (endpoints[a] # None => sock[endpoints[a]].addr = a)

(* The caps hold though several dials end at once, the gauge is the number *)
(* of sockets kept, and a name always stands for one that is kept.         *)
Counted ==
    /\ Cardinality(Held) <= MaxTargets /\ gauge = Cardinality(Held)
    /\ Cardinality({n \in Names : aliases[n] # None}) <= MaxAliases
    /\ \A n \in Names : aliases[n] # None => endpoints[aliases[n]] # None

(* An open socket is kept, or someone is about to keep or to close it:     *)
(* a late dial, a lost race, an eviction and a close forget none; and one  *)
(* that is kept is read from, so that its destination's answers come back. *)
NoneLost ==
    /\ \A k \in 1..opened : sock[k].open =>
        \/ endpoints[sock[k].addr] = k \/ k \in doomed
        \/ \E w \in Writers : \/ writer[w].at = "dialed" /\ writer[w].sock = k
                              \/ writer[w].at = "starts" /\ k \in {writer[w].victim, writer[w].sock}
    /\ phase = "closed" => Held = {}
    /\ \A a \in Held : \/ sock[endpoints[a]].reads \/ phase # "open"
                       \/ \E w \in Writers : writer[w].at = "starts" /\ writer[w].sock = endpoints[a]

(* A datagram goes to an address that its name has resolved to, however    *)
(* sockets and names come and go between the lookup and the write.         *)
RightTarget == \A w \in Writers : writer[w].at = "has" => sock[writer[w].sock].addr \in meant[writer[w].name]

EndpointsSound == TypeOK /\ Counted /\ NoneLost /\ RightTarget
=============================================================================
