------------------------------ MODULE ClientIp ------------------------------
(***************************************************************************)
(* The identity of a client behind proxies: resolve_client_ip of server.rs.*)
(*                                                                         *)
(* A request travels from host to host.  A trusted host adds the address   *)
(* it received the request from to the forwarding header, joining several  *)
(* header lines into one; any other host writes into the header what it    *)
(* likes.  The gateway is told its peer and reads the first header line.   *)
(* An entry that is not an address (an empty one, a name, a port) is       *)
(* Garbled; a trusted host that sends a request of its own adds nothing.   *)
(***************************************************************************)
EXTENDS Integers, Sequences

CONSTANTS
    Hosts,          \* addresses
    Garbled,        \* an entry of the header that is no address
    NoAnswer,       \* the request has not been resolved
    Rejected,       \* 400: the header is missing or malformed
    MaxHops,        \* bound on the hosts a request passes
    MaxWritten      \* bound on the entries an untrusted host makes up per line

ASSUME NamesAssumption ==
    /\ Garbled \notin Hosts
    /\ NoAnswer \notin Hosts \cup {Rejected}
    /\ Rejected \notin Hosts

ASSUME BoundsAssumption == MaxHops \in Nat /\ MaxWritten \in Nat

VARIABLES
    configured,     \* whether client_ip.header is set
    trusted,        \* the hosts in trusted_proxy_cidrs
    path,           \* the hosts the request has passed, the last one is the peer
    first,          \* the entries of the first header line; none if there is no header
    more,           \* the entries of the other header lines
    origin,         \* history: the last host on the path that is not trusted; 0 if all are
    honest,         \* history: the entries that this host made up were addresses
    answer

vars == <<configured, trusted, path, first, more, origin, honest, answer>>

Entries == Hosts \cup {Garbled}

TypeOK ==
    /\ configured \in BOOLEAN
    /\ trusted \in SUBSET Hosts
    /\ path \in Seq(Hosts)
    /\ Len(path) <= MaxHops
    /\ first \in Seq(Entries)
    /\ more \in Seq(Entries)
    /\ origin \in 0..Len(path)
    /\ honest \in BOOLEAN
    /\ answer \in Hosts \cup {NoAnswer, Rejected}

\* validate() refuses a header without trusted networks.
Init ==
    /\ configured \in BOOLEAN
    /\ trusted \in SUBSET Hosts
    /\ configured => trusted # {}
    /\ path = <<>>
    /\ first = <<>>
    /\ more = <<>>
    /\ origin = 0
    /\ honest = TRUE
    /\ answer = NoAnswer

-----------------------------------------------------------------------------
\* What a host may write on one header line.
Written == UNION {[1..n -> Entries] : n \in 0..MaxWritten}

\* An untrusted host sends on the request with a header of its own making.
Make(h) ==
    /\ h \notin trusted
    /\ first' \in Written
    /\ more' \in IF first' = <<>> THEN {<<>>} ELSE Written
    /\ origin' = Len(path) + 1
    /\ honest' = (\A i \in DOMAIN first' : first'[i] # Garbled)
                 /\ (\A i \in DOMAIN more' : more'[i] # Garbled)

\* A trusted host sends a request of its own.
Originate(h) ==
    /\ h \in trusted
    /\ path = <<>>
    /\ UNCHANGED <<first, more, origin, honest>>

\* A trusted host passes on a request: one line, with its sender at the end.
PassOn(h) ==
    /\ h \in trusted
    /\ path # <<>>
    /\ first' = (first \o more) \o <<path[Len(path)]>>
    /\ more' = <<>>
    /\ UNCHANGED <<origin, honest>>

Hop(h) ==
    /\ answer = NoAnswer
    /\ Len(path) < MaxHops
    /\ Make(h) \/ Originate(h) \/ PassOn(h)
    /\ path' = Append(path, h)
    /\ UNCHANGED <<configured, trusted, answer>>

-----------------------------------------------------------------------------
Peer == path[Len(path)]

Untrusted(chain) == {i \in DOMAIN chain : chain[i] \notin trusted}

\* Mutant of ClientOf: the header is read from the left.
ClientFromLeft(chain) ==
    IF Untrusted(chain) = {}
    THEN Peer
    ELSE chain[CHOOSE i \in Untrusted(chain) : \A j \in Untrusted(chain) : i <= j]

\* From the right, the first address that is not trusted; else the peer.
ClientOf(chain) ==
    IF Untrusted(chain) = {}
    THEN Peer
    ELSE chain[CHOOSE i \in Untrusted(chain) : \A j \in Untrusted(chain) : j <= i]

\* Mutant of Malformed: an entry that repeats a trusted proxy is refused too.
MalformedOrTrusted(chain) ==
    \E i \in DOMAIN chain : chain[i] = Garbled \/ chain[i] \in trusted

\* Every entry is parsed before the client is looked for.
Malformed(chain) == \E i \in DOMAIN chain : chain[i] = Garbled

\* The header is read only if one is configured and the peer is a trusted proxy.
HeaderCounts == configured /\ Peer \in trusted

PeerIsClient ==
    /\ ~HeaderCounts
    /\ answer' = Peer

HeaderRefused ==
    /\ HeaderCounts
    /\ first = <<>> \/ Malformed(first)
    /\ answer' = Rejected

HeaderIsRead ==
    /\ HeaderCounts
    /\ first # <<>> /\ ~Malformed(first)
    /\ answer' = ClientOf(first)

Resolve ==
    /\ path # <<>>
    /\ answer = NoAnswer
    /\ PeerIsClient \/ HeaderRefused \/ HeaderIsRead
    /\ UNCHANGED <<configured, trusted, path, first, more, origin, honest>>

Next == (\E h \in Hosts : Hop(h)) \/ Resolve

Spec == Init /\ [][Next]_vars

-----------------------------------------------------------------------------
\* The identity of a client is the host that handed the request to the first
\* trusted proxy of the chain, whatever it or the hosts before it wrote into the
\* header; without a configured header, or without such a host, it is the peer.
IdentityIsOrigin ==
    answer \in Hosts =>
        answer = IF configured /\ origin # 0 THEN path[origin] ELSE Peer

\* A request that came through trusted proxies is refused only if the host that
\* handed it to them had put something else than addresses into the header, or
\* if it is a request of a proxy itself, which carries no header.
HonestIsAnswered ==
    answer = Rejected => ~honest \/ Len(path) = 1

-----------------------------------------------------------------------------
OriginIsLast ==
    /\ origin # 0 => path[origin] \notin trusted
    /\ \A i \in DOMAIN path : i > origin => path[i] \in trusted

\* The header ends with the hosts that handed the request from proxy to proxy, as
\* far back as all of them are trusted, and no other line follows it.
HeaderTellsPath ==
    /\ path = <<>> => first = <<>> /\ more = <<>>
    /\ origin < Len(path) =>
          /\ more = <<>>
          /\ origin = 0 => Len(first) = Len(path) - 1
          /\ origin # 0 => Len(first) >= Len(path) - origin
    /\ \A i \in DOMAIN path : origin <= i /\ i < Len(path) =>
          first[Len(first) - (Len(path) - 1 - i)] = path[i]

Honesty == honest => ~Malformed(first) /\ ~Malformed(more)

IInv == TypeOK /\ OriginIsLast /\ HeaderTellsPath /\ Honesty
               /\ IdentityIsOrigin /\ HonestIsAnswered

=============================================================================
