---- MODULE ForwardingProofs ----
(***************************************************************************)
(* Theorems about Forwarding, for paths and headers of any length, any     *)
(* TRUST_PROXY_HOPS and any set of trusted addresses.                      *)
(***************************************************************************)
EXTENDS Forwarding, SequenceTheorems, TLAPS

Types ==
    /\ hops \in Nat /\ forwardIP \in BOOLEAN
    /\ phase \in {"idle", "travelling", "answered"}
    /\ phase # "idle" => client \in Addresses
    /\ path \in Seq(Trusted) /\ header \in Seq(Spellings)

\* The header ends with what the proxies have appended: the client, and then
\* every proxy but the last.
Appended ==
    /\ Len(path) <= Len(header)
    /\ \A i \in 1 .. Len(path) :
          LET entry == header[Len(header) - Len(path) + i]
          IN  /\ entry.form # "malformed"
              /\ entry.ip = IF i = 1 THEN client ELSE path[i - 1]

Inv ==
    /\ Types /\ Appended
    /\ phase = "idle" => path = <<>>
    /\ phase # "answered" => forwardedFor = NoAddress
    /\ UpstreamSeesParticipant

----------------------------------------------------------------------------

\* The chain CanonicalClientIP builds: the header, entry by entry, and the peer.
LEMMA Chain ==
    ASSUME NEW h \in Seq(Spellings), NEW peer \in Addresses
    PROVE  LET chain == ForwardedChain(h) \o <<peer>>
           IN  /\ Len(chain) = Len(h) + 1
               /\ \A i \in 1 .. Len(h) : chain[i] = canonicalIP(h[i])
               /\ chain[Len(h) + 1] = peer
<1> DEFINE S == Addresses \cup {NoAddress}
<1>1. ForwardedChain(h) \in Seq(S) /\ Len(ForwardedChain(h)) = Len(h)
  <2>1. Len(h) \in Nat /\ \A i \in 1 .. Len(h) : h[i] \in Spellings
    BY LenProperties
  <2>2. \A i \in 1 .. Len(h) : canonicalIP(h[i]) \in S
    BY <2>1 DEF canonicalIP, remoteIP, Spellings
  <2> QED
    BY <2>1, <2>2, IsASeq DEF ForwardedChain
<1>2. <<peer>> \in Seq(S) /\ Len(<<peer>>) = 1 /\ <<peer>>[1] = peer
  OBVIOUS
<1>3. Len(h) \in Nat
  BY LenProperties
<1>4. \A i \in 1 .. Len(h) : ForwardedChain(h)[i] = canonicalIP(h[i])
  BY DEF ForwardedChain
<1> HIDE DEF S
<1> QED
  BY <1>1, <1>2, <1>3, <1>4, ConcatProperties

\* What an address returned for n > 0 hops has passed.
LEMMA Resolved ==
    ASSUME NEW h \in Seq(Spellings), NEW peer \in Addresses, NEW n \in Nat, n # 0,
           CanonicalClientIP(peer, h, n) # NoAddress
    PROVE  /\ peer \in Trusted /\ n <= Len(h)
           /\ CanonicalClientIP(peer, h, n) = canonicalIP(h[Len(h) + 1 - n])
           /\ \A i \in Len(h) + 2 - n .. Len(h) : canonicalIP(h[i]) \in Trusted
           /\ \A i \in 1 .. Len(h) : canonicalIP(h[i]) # NoAddress
<1> DEFINE chain == ForwardedChain(h) \o <<peer>>
           index == Len(chain) - ClientIndex(n)
<1>1. /\ Len(chain) = Len(h) + 1 /\ Len(h) \in Nat
      /\ \A i \in 1 .. Len(h) : chain[i] = canonicalIP(h[i])
  BY Chain, LenProperties
<1> HIDE DEF chain
<1>2. index = Len(h) + 1 - n
  BY <1>1 DEF ClientIndex
<1>3. /\ trustedAddress(peer) /\ ~(index < 1)
      /\ \A i \in Stripped(chain, index) : trustedAddress(chain[i])
      /\ CanonicalClientIP(peer, h, n) = chain[index]
      /\ \A i \in 1 .. Len(h) : canonicalIP(h[i]) # NoAddress
  BY DEF CanonicalClientIP, chain
<1>4. \A i \in Len(h) + 2 - n .. Len(h) : i \in Stripped(chain, index) /\ i \in 1 .. Len(h)
  BY <1>1, <1>2, <1>3 DEF Stripped
<1> QED
  BY <1>1, <1>2, <1>3, <1>4 DEF trustedAddress

\* Without a header there is no address to find.
LEMMA NoHeader ==
    ASSUME NEW h \in Seq(Spellings), NEW peer \in Addresses, NEW n \in Nat, n # 0,
           Len(h) = 0
    PROVE  CanonicalClientIP(peer, h, n) = NoAddress
<1> SUFFICES ASSUME CanonicalClientIP(peer, h, n) # NoAddress PROVE FALSE
  OBVIOUS
<1>1. n <= Len(h)
  BY Resolved
<1> QED
  BY <1>1

----------------------------------------------------------------------------

\* The peer is the client or the last proxy.
LEMMA PeerIs ==
    ASSUME Types, phase # "idle"
    PROVE  /\ Peer \in Addresses /\ Len(path) \in Nat /\ Len(header) \in Nat
           /\ Len(path) = 0 => Peer = client
           /\ Len(path) # 0 => Peer = path[Len(path)] /\ Peer \in Trusted
           /\ \A i \in 1 .. Len(path) : path[i] \in Trusted
<1>1. /\ Len(path) \in Nat /\ Len(header) \in Nat
      /\ \A i \in 1 .. Len(path) : path[i] \in Trusted
      /\ path = <<>> <=> Len(path) = 0
  BY LenProperties, EmptySeq DEF Types
<1> QED
  BY <1>1, ForwardingAssumption DEF Peer, Types

\* A request starts with no proxies and nothing forwarded.
LEMMA InvInit == Init => Inv
<1> SUFFICES ASSUME Init PROVE Inv
  OBVIOUS
<1>1. <<>> \in Seq(Trusted) /\ <<>> \in Seq(Spellings) /\ Len(<<>>) = 0
  BY EmptySeq
<1>2. Types
  BY <1>1, ForwardingAssumption DEF Init, Types
<1>3. Appended
  BY <1>1 DEF Init, Appended
<1>4. UpstreamSeesParticipant
  BY DEF Init, UpstreamSeesParticipant
<1> QED
  BY <1>2, <1>3, <1>4 DEF Init, Inv

\* Each step keeps the invariant.
LEMMA InvNext == Inv /\ [Next]_vars => Inv'
<1> SUFFICES ASSUME Inv, [Next]_vars PROVE Inv'
  OBVIOUS
<1>1. ASSUME NEW a \in Addresses, NEW h \in Written, Send(a, h) PROVE Inv'
  <2>1. path = <<>> /\ Len(path) = 0 /\ forwardedFor = NoAddress
    BY <1>1, EmptySeq DEF Send, Inv
  <2>2. h \in Seq(Spellings) /\ Len(h) \in Nat
    BY LenProperties, IsASeq DEF Written
  <2>3. Types' /\ Appended'
    BY <1>1, <2>1, <2>2 DEF Send, Inv, Types, Appended
  <2>4. UpstreamSeesParticipant'
    BY <1>1, <2>1 DEF Send, UpstreamSeesParticipant
  <2> QED
    BY <1>1, <2>1, <2>3, <2>4 DEF Send, Inv
<1>2. ASSUME NEW q \in Trusted, NEW form \in {"plain", "decorated"}, Relay(q, form) PROVE Inv'
  <2> DEFINE entry == [ip |-> Peer, form |-> form]
  <2>1. /\ phase = "travelling" /\ client' = client /\ path' = Append(path, q)
        /\ header' = Append(header, entry)
        /\ UNCHANGED <<hops, forwardIP, phase, client, accepted, forwardedFor>>
    BY <1>2 DEF Relay
  <2>2. /\ Peer \in Addresses /\ Len(path) \in Nat /\ Len(header) \in Nat
        /\ Len(path) = 0 => Peer = client
        /\ Len(path) # 0 => Peer = path[Len(path)]
    BY <2>1, PeerIs DEF Inv
  <2>3. entry \in Spellings /\ entry.ip = Peer /\ entry.form # "malformed"
    BY <2>2 DEF Spellings
  <2> HIDE DEF entry
  <2>4. /\ path' \in Seq(Trusted) /\ Len(path') = Len(path) + 1
        /\ \A i \in 1 .. Len(path) : path'[i] = path[i]
    BY <2>1, AppendProperties DEF Inv, Types
  <2>5. /\ header' \in Seq(Spellings) /\ Len(header') = Len(header) + 1
        /\ \A i \in 1 .. Len(header) : header'[i] = header[i]
        /\ header'[Len(header) + 1] = entry
    BY <2>1, <2>3, AppendProperties DEF Inv, Types
  <2>6. Types'
    BY <2>1, <2>4, <2>5 DEF Inv, Types
  <2>7. Appended'
    <3>1. Len(path) <= Len(header)
      BY DEF Inv, Appended
    <3>2. Len(path') <= Len(header')
      BY <2>2, <2>4, <2>5, <3>1
    <3>3. ASSUME NEW i \in 1 .. Len(path')
          PROVE  /\ header'[Len(header') - Len(path') + i].form # "malformed"
                 /\ header'[Len(header') - Len(path') + i].ip =
                       IF i = 1 THEN client' ELSE path'[i - 1]
      <4>1. Len(header') - Len(path') = Len(header) - Len(path)
        BY <2>2, <2>4, <2>5
      <4>2. CASE i = Len(path) + 1
        <5>1. header'[Len(header') - Len(path') + i] = entry
          BY <2>2, <2>5, <4>1, <4>2
        <5>2. CASE Len(path) = 0
          BY <2>1, <2>2, <2>3, <4>2, <5>1, <5>2
        <5>3. CASE Len(path) # 0
          <6>1. path'[i - 1] = path[Len(path)]
            BY <2>2, <2>4, <4>2, <5>3
          <6> QED
            BY <2>2, <2>3, <4>2, <5>1, <5>3, <6>1
        <5> QED
          BY <5>2, <5>3
      <4>3. CASE i # Len(path) + 1
        <5>1. i \in 1 .. Len(path)
          BY <2>2, <2>4, <4>3
        <5>2. header'[Len(header') - Len(path') + i] = header[Len(header) - Len(path) + i]
          BY <2>2, <2>5, <3>1, <4>1, <5>1
        <5>3. i # 1 => path'[i - 1] = path[i - 1]
          BY <2>2, <2>4, <5>1
        <5> QED
          BY <2>1, <5>1, <5>2, <5>3 DEF Inv, Appended
      <4> QED
        BY <4>2, <4>3
    <3> QED
      BY <3>2, <3>3 DEF Appended
  <2>8. UpstreamSeesParticipant'
    BY <2>1 DEF Inv, UpstreamSeesParticipant
  <2> QED
    BY <2>1, <2>6, <2>7, <2>8 DEF Inv
<1>3. CASE ProtectMCP
  <2>1. /\ phase = "travelling" /\ phase' = "answered"
        /\ UNCHANGED <<hops, forwardIP, client, path, header>>
    BY <1>3 DEF ProtectMCP
  <2>2. Types' /\ Appended'
    BY <2>1 DEF Inv, Types, Appended
  <2>3. /\ Peer \in Addresses /\ Len(path) \in Nat
        /\ Len(path) = 0 => Peer = client
        /\ Len(path) # 0 => Peer = path[Len(path)]
    BY <2>1, PeerIs DEF Inv
  <2>4. Peer \in {client} \cup {path[i] : i \in 1 .. Len(path)}
    BY <2>3
  <2>5. CanonicalClientIP(Peer, <<>>, hops) \in {Peer, NoAddress}
    <3>1. CASE hops = 0
      BY <3>1 DEF CanonicalClientIP, remoteIP
    <3>2. CASE hops # 0
      <4>1. <<>> \in Seq(Spellings) /\ Len(<<>>) = 0
        BY EmptySeq
      <4>2. hops \in Nat
        BY DEF Inv, Types
      <4> QED
        BY <2>3, <3>2, <4>1, <4>2, NoHeader
    <3> QED
      BY <3>1, <3>2
  <2>6. forwardedFor' \in {Peer, NoAddress}
    BY <1>3, <2>5 DEF ProtectMCP, Unforwarded
  <2>7. UpstreamSeesParticipant'
    BY <2>1, <2>4, <2>6 DEF UpstreamSeesParticipant
  <2> QED
    BY <2>1, <2>2, <2>7 DEF Inv
<1>4. CASE UNCHANGED vars
  BY <1>4 DEF vars, Inv, Types, Appended, UpstreamSeesParticipant
<1> QED
  BY <1>1, <1>2, <1>3, <1>4 DEF Next

\* The invariant holds on the whole way of a request.
LEMMA InvHolds == Spec => []Inv
<1>1. Init => Inv
  BY InvInit
<1> QED
  BY <1>1, InvNext, PTL DEF Spec

----------------------------------------------------------------------------

\* What a client writes into X-Forwarded-For never becomes its address.
THEOREM NeverForgedHolds == Spec => []NeverForged
<1>1. Inv => NeverForged
  <2> SUFFICES ASSUME Inv, phase # "idle", client \notin Trusted,
                      CanonicalClientIP(Peer, header, hops) # NoAddress
               PROVE  CanonicalClientIP(Peer, header, hops) \in
                         {client} \cup {path[i] : i \in 1 .. Len(path)}
    BY DEF NeverForged
  <2> DEFINE k == Len(path)
             written == Len(header) - Len(path)
  <2>1. /\ Peer \in Addresses /\ k \in Nat /\ Len(header) \in Nat
        /\ k = 0 => Peer = client
        /\ k # 0 => Peer = path[k]
    BY PeerIs DEF Inv
  <2>2. /\ written \in Nat /\ hops \in Nat /\ header \in Seq(Spellings)
        /\ \A i \in 1 .. k : header[written + i].form # "malformed"
        /\ \A i \in 1 .. k : header[written + i].ip = IF i = 1 THEN client ELSE path[i - 1]
    BY <2>1 DEF Inv, Appended, Types
  <2>3. \A i \in 1 .. k : canonicalIP(header[written + i]) \in
            {NoAddress, IF i = 1 THEN client ELSE path[i - 1]}
    BY <2>2 DEF canonicalIP, remoteIP
  <2>4. CASE hops = 0
    BY <2>1, <2>4 DEF CanonicalClientIP, remoteIP
  <2>5. CASE hops # 0
    <3>1. /\ Peer \in Trusted /\ hops <= Len(header)
          /\ CanonicalClientIP(Peer, header, hops) = canonicalIP(header[Len(header) + 1 - hops])
          /\ \A i \in Len(header) + 2 - hops .. Len(header) : canonicalIP(header[i]) \in Trusted
      BY <2>1, <2>2, <2>5, Resolved
    <3>a. \A i \in 1 .. Len(header) : canonicalIP(header[i]) # NoAddress
      BY <2>1, <2>2, <2>5, Resolved
    <3>b. \A i \in 1 .. k : written + i \in 1 .. Len(header)
      BY <2>1, <2>2
    <3>c. \A i \in 1 .. k :
             canonicalIP(header[written + i]) = IF i = 1 THEN client ELSE path[i - 1]
      BY <2>3, <3>a, <3>b
    <3>2. CASE hops <= k
      <4> DEFINE i == k + 1 - hops
      <4>1. i \in 1 .. k /\ Len(header) + 1 - hops = written + i
        BY <2>1, <2>2, <2>5, <3>2
      <4>2. CanonicalClientIP(Peer, header, hops) = IF i = 1 THEN client ELSE path[i - 1]
        BY <3>1, <3>c, <4>1
      <4>3. i # 1 => i - 1 \in 1 .. Len(path)
        BY <4>1
      <4> QED
        BY <4>2, <4>3
    <3>3. CASE k < hops
      <4>1. k # 0
        BY <2>1, <3>1
      <4>2. /\ 1 \in 1 .. k
            /\ written + 1 \in Len(header) + 2 - hops .. Len(header)
        BY <2>1, <2>2, <3>3, <4>1
      <4> QED
        BY <3>1, <3>c, <4>2
    <3> QED
      BY <2>1, <2>2, <3>2, <3>3
  <2> QED
    BY <2>4, <2>5
<1> QED
  BY <1>1, InvHolds, PTL

\* Behind exactly TRUST_PROXY_HOPS proxies the client's address is found, or a
\* header that is malformed or too long is refused.
THEOREM ResolvesHolds == Spec => []ResolvesClient
<1>1. Inv => ResolvesClient
  <2> SUFFICES ASSUME Inv, phase # "idle", Len(path) = hops
               PROVE  CanonicalClientIP(Peer, header, hops) =
                         IF /\ client \notin Zoned
                            /\ \/ hops = 0
                               \/ WellFormed(ClientWrote) /\ Len(header) <= MaxForwarded
                         THEN client ELSE NoAddress
    BY DEF ResolvesClient
  <2> DEFINE written == Len(header) - Len(path)
             chain == ForwardedChain(header) \o <<Peer>>
  <2>1. /\ Peer \in Addresses /\ hops \in Nat /\ Len(header) \in Nat
        /\ hops = 0 => Peer = client
        /\ hops # 0 => Peer \in Trusted /\ remoteIP(Peer) = Peer
        /\ \A i \in 1 .. hops : path[i] \in Trusted /\ path[i] \notin Zoned
    BY PeerIs, ForwardingAssumption DEF Inv, remoteIP
  <2>2. /\ written \in Nat /\ header \in Seq(Spellings) /\ client \in Addresses
        /\ \A i \in 1 .. hops : header[written + i].form # "malformed"
        /\ \A i \in 1 .. hops : header[written + i].ip = IF i = 1 THEN client ELSE path[i - 1]
    <3>1. /\ Len(path) <= Len(header) /\ Len(path) = hops
          /\ \A i \in 1 .. Len(path) :
                /\ header[Len(header) - Len(path) + i].form # "malformed"
                /\ header[Len(header) - Len(path) + i].ip = IF i = 1 THEN client ELSE path[i - 1]
      BY DEF Inv, Appended
    <3>2. written \in Nat
      BY <2>1, <3>1
    <3>3. header \in Seq(Spellings) /\ client \in Addresses
      BY DEF Inv, Types
    <3> QED
      BY <3>1, <3>2, <3>3
  <2>3. CASE hops = 0
    BY <2>1, <2>3 DEF CanonicalClientIP, remoteIP
  <2>4. CASE hops # 0
    <3>1. /\ Len(chain) = Len(header) + 1
          /\ \A i \in 1 .. Len(header) : chain[i] = canonicalIP(header[i])
          /\ chain[Len(header) + 1] = Peer
      BY <2>1, <2>2, Chain
    <3>2. \A i \in 1 .. Len(header) :
             canonicalIP(header[i]) = NoAddress <=>
                header[i].form = "malformed" \/ header[i].ip \in Zoned
      <4>1. \A i \in 1 .. Len(header) : header[i] \in Spellings
        BY <2>2, LenProperties
      <4> QED
        BY <4>1, ForwardingAssumption DEF canonicalIP, remoteIP, Spellings
    <3>3. /\ Len(ClientWrote) = written
          /\ \A i \in 1 .. written : ClientWrote[i] = header[i]
      <4>1. \A i \in 1 .. written : header[i] \in Spellings
        BY <2>1, <2>2, LenProperties
      <4> QED
        BY <2>2, <4>1, SubSeqProperties DEF ClientWrote
    <3>4. \A i \in 1 .. hops :
             canonicalIP(header[written + i]) = NoAddress <=> i = 1 /\ client \in Zoned
      <4>1. ASSUME NEW i \in 1 .. hops
            PROVE  canonicalIP(header[written + i]) = NoAddress <=> i = 1 /\ client \in Zoned
        <5>1. /\ written + i \in 1 .. Len(header)
              /\ i # 1 => i - 1 \in 1 .. hops
          BY <2>1, <2>2
        <5>2. /\ header[written + i].form # "malformed"
              /\ header[written + i].ip = IF i = 1 THEN client ELSE path[i - 1]
          BY <2>2
        <5> QED
          BY <2>1, <3>2, <5>1, <5>2
      <4> QED
        BY <4>1
    <3>5. (WellFormed(ClientWrote) /\ client \notin Zoned) <=>
             ~(\E i \in 1 .. Len(header) : canonicalIP(header[i]) = NoAddress)
      <4>1. \A i \in 1 .. Len(header) :
               \/ i \in 1 .. written
               \/ i - written \in 1 .. hops /\ written + (i - written) = i
        BY <2>1, <2>2
      <4>2. WellFormed(ClientWrote) <=>
               ~(\E i \in 1 .. written : canonicalIP(header[i]) = NoAddress)
        <5>1. \A i \in 1 .. written : i \in 1 .. Len(header)
          BY <2>1, <2>2
        <5> QED
          BY <3>2, <3>3, <5>1 DEF WellFormed
      <4>3. 1 \in 1 .. hops /\ written + 1 \in 1 .. Len(header)
        BY <2>1, <2>2, <2>4
      <4>4. ASSUME WellFormed(ClientWrote), client \notin Zoned, NEW i \in 1 .. Len(header)
            PROVE  canonicalIP(header[i]) # NoAddress
        <5>1. CASE i \in 1 .. written
          BY <4>2, <4>4, <5>1
        <5>2. CASE i - written \in 1 .. hops /\ written + (i - written) = i
          <6> DEFINE j == i - written
          <6>1. j \in 1 .. hops /\ written + j = i
            BY <5>2
          <6> HIDE DEF j
          <6> QED
            BY <3>4, <4>4, <6>1
        <5> QED
          BY <4>1, <5>1, <5>2
      <4>5. ASSUME \A i \in 1 .. Len(header) : canonicalIP(header[i]) # NoAddress
            PROVE  WellFormed(ClientWrote) /\ client \notin Zoned
        <5>1. \A i \in 1 .. written : i \in 1 .. Len(header)
          BY <2>1, <2>2
        <5> QED
          BY <3>4, <4>2, <4>3, <4>5, <5>1
      <4> QED
        BY <4>4, <4>5
    <3>6. client \notin Zoned => chain[written + 1] = client
      BY <2>1, <2>2, <2>4, <3>1 DEF canonicalIP, remoteIP
    <3>7. \A i \in written + 2 .. Len(header) + 1 : chain[i] \in Trusted
      <4>1. ASSUME NEW i \in written + 2 .. Len(header) PROVE chain[i] \in Trusted
        <5>1. i - written \in 2 .. hops /\ written + (i - written) = i /\ i \in 1 .. Len(header)
          BY <2>1, <2>2
        <5> DEFINE j == i - written
        <5>2. j \in 1 .. hops /\ j # 1 /\ j - 1 \in 1 .. hops /\ written + j = i
          BY <2>1, <5>1
        <5>3. header[i].ip = path[j - 1] /\ header[i].form # "malformed"
          <6> HIDE DEF j
          <6> QED
            BY <2>2, <5>2
        <5> QED
          BY <2>1, <3>1, <5>1, <5>2, <5>3 DEF canonicalIP, remoteIP
      <4> QED
        BY <2>1, <2>2, <2>4, <3>1, <4>1
    <3> HIDE DEF chain
    <3>8. CanonicalClientIP(Peer, header, hops) =
             IF (\E i \in 1 .. Len(header) : canonicalIP(header[i]) = NoAddress)
                    \/ Len(header) > MaxForwarded
             THEN NoAddress ELSE chain[written + 1]
      <4>1. Len(chain) - ClientIndex(hops) = written + 1
        BY <2>1, <2>2, <3>1 DEF ClientIndex
      <4>2. ~(written + 1 < 1)
        BY <2>2
      <4>3. \A i \in Stripped(chain, written + 1) : trustedAddress(chain[i])
        BY <2>2, <3>1, <3>7 DEF Stripped, trustedAddress
      <4> QED
        BY <2>1, <2>4, <4>1, <4>2, <4>3, ForwardingAssumption
           DEF CanonicalClientIP, trustedAddress, chain
    <3> QED
      BY <2>1, <2>4, <3>5, <3>6, <3>8, ForwardingAssumption
  <2> QED
    BY <2>3, <2>4
<1> QED
  BY <1>1, InvHolds, PTL

\* Nothing but an address that took part in the connection is sent upstream.
THEOREM UpstreamHolds == Spec => []UpstreamSeesParticipant
BY InvHolds, PTL DEF Inv
====
