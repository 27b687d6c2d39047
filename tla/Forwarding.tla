---- MODULE Forwarding ----
(***************************************************************************)
(* Which caller address is sent on to Synthient: protectMCP                *)
(* (internal/httpserver/server.go) and CanonicalClientIP                   *)
(* (internal/forwarding/forwarding.go), at the end of a path of reverse    *)
(* proxies.                                                                *)
(*                                                                         *)
(* A client connects from its address, with whatever X-Forwarded-For it    *)
(* likes.  Each proxy on the path appends the address of its peer and      *)
(* connects on.  The server sees the address of the last peer and the      *)
(* header.                                                                 *)
(***************************************************************************)
EXTENDS Integers, Sequences

CONSTANTS
    Addresses,      \* IP addresses
    Trusted,        \* those within TRUSTED_PROXY_CIDRS
    Zoned,          \* link-local addresses with a zone, which no CIDR contains
    NoAddress,      \* no address: an error, or nothing forwarded
    MaxHops,        \* bound on TRUST_PROXY_HOPS and on the proxies of a path
    MaxWritten,     \* bound on the entries a client writes
    MaxForwarded    \* maxForwardedAddresses

ASSUME ForwardingAssumption ==
    /\ Trusted \subseteq Addresses
    /\ Zoned \subseteq Addresses /\ Zoned \cap Trusted = {}
    /\ NoAddress \notin Addresses
    /\ MaxHops \in Nat /\ MaxWritten \in Nat /\ MaxForwarded \in Nat

\* An address as text: plain, decorated (spaces, port, brackets or the
\* IPv4-mapped form, which all canonicalise to the address), or no IP at all.
Spellings == [ip : Addresses, form : {"plain", "decorated", "malformed"}]

VARIABLES
    hops,          \* TRUST_PROXY_HOPS
    forwardIP,     \* FORWARD_CLIENT_IP
    phase,         \* of the request: idle, travelling, answered
    client,        \* where it really comes from
    path,          \* the proxies it has passed
    header,        \* X-Forwarded-For as it arrives, a sequence of spellings
    accepted,      \* protectMCP called the next handler
    forwardedFor   \* X-Forwarded-For of the upstream request

vars == <<hops, forwardIP, phase, client, path, header, accepted,
          forwardedFor>>

Peer == IF path = <<>> THEN client ELSE path[Len(path)]

----------------------------------------------------------------------------

\* remoteIP: net.ParseIP takes no zone.
remoteIP(peer) == IF peer \in Zoned THEN NoAddress ELSE peer

\* canonicalIP: the textual forms of one address become one.
canonicalIP(s) == IF s.form = "malformed" THEN NoAddress ELSE remoteIP(s.ip)

trustedAddress(a) == a \in Trusted

\* The addresses of the header, in the order of the header.
ForwardedChain(h) == [i \in 1 .. Len(h) |-> canonicalIP(h[i])]

\* One hop too few is stripped.
ClientIndexShort(n) == n - 1

\* Places from the peer to the client's entry.
ClientIndex(n) == n

\* Only the direct peer is checked, not the hops that are stripped.
StrippedPeer(chain, index) == {Len(chain)}

\* What stands to the right of the client's entry.
Stripped(chain, index) == index + 1 .. Len(chain)

\* CanonicalClientIP with TRUST_PROXY_HOPS = n: the entry n places to the left
\* of the peer, provided that everything to its right is trusted; NoAddress
\* stands for the error.
CanonicalClientIP(peer, h, n) ==
    LET chain == ForwardedChain(h) \o <<peer>>
        index == Len(chain) - ClientIndex(n)
    IN  IF remoteIP(peer) = NoAddress \/ n = 0 THEN remoteIP(peer)
        ELSE IF \/ ~trustedAddress(peer)
                \/ \E i \in 1 .. Len(h) : canonicalIP(h[i]) = NoAddress
                \/ Len(h) > MaxForwarded
                \/ index < 1
                \/ \E i \in Stripped(chain, index) : ~trustedAddress(chain[i])
             THEN NoAddress
             ELSE chain[index]

----------------------------------------------------------------------------

Init ==
    /\ hops \in 0 .. MaxHops
    /\ forwardIP \in BOOLEAN
    /\ phase = "idle"
    /\ client = NoAddress
    /\ path = <<>>
    /\ header = <<>>
    /\ accepted = FALSE
    /\ forwardedFor = NoAddress

\* Headers a client can write, up to the bound.
Written == UNION {[1 .. n -> Spellings] : n \in 0 .. MaxWritten}

Send(a, h) ==
    /\ phase = "idle"
    /\ phase' = "travelling"
    /\ client' = a
    /\ header' = h
    /\ UNCHANGED <<hops, forwardIP, path, accepted, forwardedFor>>

\* A reverse proxy at trusted address q appends its peer, in a form it likes.
Relay(q, form) ==
    /\ phase = "travelling"
    /\ Len(path) < MaxHops
    /\ header' = Append(header, [ip |-> Peer, form |-> form])
    /\ path' = Append(path, q)
    /\ UNCHANGED <<hops, forwardIP, phase, client, accepted, forwardedFor>>

\* protectMCP that forgets the Del when nothing is to be forwarded.
UnforwardedKept == IF header = <<>> THEN NoAddress ELSE header[1].ip

\* The upstream header when FORWARD_CLIENT_IP is off: it has been deleted.
Unforwarded == NoAddress

\* protectMCP deletes the header, and then asks for the canonical address of
\* a request that no longer has it.
ProtectMCP ==
    /\ phase = "travelling"
    /\ phase' = "answered"
    /\ LET ip == CanonicalClientIP(Peer, <<>>, hops)
       IN  /\ accepted' = (forwardIP => ip # NoAddress)
           /\ forwardedFor' = IF forwardIP THEN ip ELSE Unforwarded
    /\ UNCHANGED <<hops, forwardIP, client, path, header>>

Next ==
    \/ \E a \in Addresses, h \in Written : Send(a, h)
    \/ \E q \in Trusted, form \in {"plain", "decorated"} : Relay(q, form)
    \/ ProtectMCP

Spec == Init /\ [][Next]_vars

----------------------------------------------------------------------------

\* What is in front of the entries the proxies have appended.
ClientWrote == SubSeq(header, 1, Len(header) - Len(path))

WellFormed(h) ==
    \A i \in 1 .. Len(h) : h[i].form # "malformed" /\ h[i].ip \notin Zoned

\* On its way to the server, at every point of every path, the canonical
\* address of a request from outside the trusted networks is one that really
\* took part in the connection, or an error: what the client wrote into the
\* header never becomes its address, however long the path is compared with
\* TRUST_PROXY_HOPS (forwarding.go, CanonicalClientIP).
NeverForged ==
    (phase # "idle" /\ client \notin Trusted) =>
        CanonicalClientIP(Peer, header, hops) \in
            {client, NoAddress} \cup {path[i] : i \in 1 .. Len(path)}

\* Behind exactly TRUST_PROXY_HOPS proxies the canonical address is the
\* client's, whatever well-formed entries it has put in front, up to the limit
\* of the header; a header too long or malformed is an error, and so is a
\* client whose address has a zone.
ResolvesClient ==
    (phase # "idle" /\ Len(path) = hops) =>
        CanonicalClientIP(Peer, header, hops) =
            IF /\ client \notin Zoned
               /\ hops = 0 \/ (WellFormed(ClientWrote) /\ Len(header) <= MaxForwarded)
            THEN client ELSE NoAddress

\* What is sent upstream is nothing, or an address that really took part in
\* the connection: an X-Forwarded-For of the client's own never passes.
UpstreamSeesParticipant ==
    forwardedFor \in {client, NoAddress} \cup {path[i] : i \in 1 .. Len(path)}

\* "FORWARD_CLIENT_IP: Forward the canonical caller IP to Synthient"
\* (README.md): behind the configured number of trusted proxies, with a header
\* that is well formed and not too long, a request is accepted and its
\* client's address is forwarded.
ForwardsCaller ==
    ( /\ phase = "answered" /\ forwardIP /\ Len(path) = hops /\ client \notin Zoned
      /\ WellFormed(header) /\ Len(header) <= MaxForwarded )
    => accepted /\ forwardedFor = client
====
