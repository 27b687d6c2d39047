---- MODULE ToolsProofs ----
(***************************************************************************)
(* The sample_stream tool inside the MCP server is the SampleStream of its *)
(* own module: whatever the other tools do, its theorems carry over.  And  *)
(* whatever a caller writes, the request that leaves goes where the tool   *)
(* says, for any base URL.                                                 *)
(***************************************************************************)
EXTENDS Tools, SampleStreamProofs, SequenceTheorems, WellFoundedInduction

\* A step of the server is a step of the sample or leaves it alone.
LEMMA ToolsStep == [ToolsNext]_<<vars, tools>> => [Next]_vars
<1> SUFFICES ASSUME [ToolsNext]_<<vars, tools>> PROVE [Next]_vars
  OBVIOUS
<1>1. ASSUME NEW tool, NEW input, NEW requests, Handle(tool, input, requests)
      PROVE  UNCHANGED vars
  BY <1>1 DEF Handle
<1>2. ASSUME NEW text \in StreamTexts, NEW n \in 0 .. MaxCount + 1, NEW valid \in BOOLEAN,
             NEW timeout, SampleTool(text, n, timeout, valid)
      PROVE  Next
  <2> DEFINE ok == /\ NormalizeFeedStream(text, TRUE) # {}
                   /\ timeout \in 0 .. MaximumTimeout(StreamTimeout)
                   /\ valid
  <2>1. Call(n, ok)
    BY <1>2 DEF SampleTool
  <2>2. ok \in BOOLEAN
    OBVIOUS
  <2> HIDE DEF ok
  <2> QED
    BY <2>1, <2>2 DEF Next
<1>3. CASE SampleBuild
  <2>1. NewRequest(sent' # NoRequest)
    BY <1>3 DEF SampleBuild
  <2>2. (sent' # NoRequest) \in BOOLEAN
    OBVIOUS
  <2> QED
    BY <2>1, <2>2 DEF Next
<1>4. CASE Sampling
  BY <1>4 DEF Next
<1>5. CASE UNCHANGED <<vars, tools>>
  BY <1>5
<1>6. CASE GetAccount \/ \E tool \in {"list_feed_streams", "grpc_schema"} : LocalTool(tool)
  BY <1>1, <1>6 DEF GetAccount, LocalTool
<1>7. ASSUME NEW ips, NEW labels,
             LookupIPTool(ips) \/ LookupDomainTool(labels) \/ LegacyTool(ips, labels)
      PROVE  UNCHANGED vars
  BY <1>1, <1>7 DEF LookupIPTool, LookupDomainTool, LegacyTool
<1>8. ASSUME NEW text, NEW limit, NEW parts, ListSnapshots(text, limit) \/ SnapshotMeta(text, parts)
      PROVE  UNCHANGED vars
  BY <1>1, <1>8 DEF ListSnapshots, SnapshotMeta
<1> QED
  BY <1>2, <1>3, <1>4, <1>5, <1>6, <1>7, <1>8 DEF ToolsNext

\* The server implements the specification of a sample.
THEOREM SampleRefined == ToolsSpec => Spec
<1>1. ToolsInit => Init
  BY DEF ToolsInit
<1> QED
  BY <1>1, ToolsStep, PTL DEF ToolsSpec, Spec

\* So a sample taken through the server is bounded, complete and counted once,
\* whatever the configuration and the caller's arguments.
THEOREM SampleHolds == ToolsSpec => [](SampleBounded /\ NothingDropped /\ ObservedOnce)
BY SampleRefined, BoundsHold, NothingDroppedHolds, ObservationHolds, PTL

----------------------------------------------------------------------------
(* Joining paths.                                                          *)

\* Induction over the natural numbers, for a set.
LEMMA NatSet ==
    ASSUME NEW T \in SUBSET Nat, 0 \in T, \A n \in T : n + 1 \in T
    PROVE  T = Nat
<1>1. SUFFICES ASSUME Nat \ T # {} PROVE FALSE
  OBVIOUS
<1>2. PICK x \in Nat \ T : \A y \in Nat \ T : ~(<<y, x>> \in OpToRel(<, Nat))
  BY <1>1, NatLessThanWellFounded, WFMin, Zenon
<1>3. \A y \in Nat \ T : ~(y < x)
  BY <1>2 DEF OpToRel
<1>4. x # 0 /\ x - 1 \in Nat /\ x - 1 < x /\ (x - 1) + 1 = x
  OBVIOUS
<1> QED
  BY <1>3, <1>4

\* What is joined, step by step.
Step(s, f, m) == [n \in 0 .. m |-> IF n = 0 THEN <<>> ELSE JoinPath(f[n - 1], s[n])]

\* The recursion of Joined has a solution.
LEMMA StepsExist ==
    ASSUME NEW s
    PROVE  \A m \in Nat : \E f : f = Step(s, f, m)
<1> DEFINE T == {m \in Nat : \E f : f = Step(s, f, m)}
<1>1. 0 \in T
  <2> DEFINE f == [n \in 0 .. 0 |-> <<>>]
  <2>1. f = Step(s, f, 0)
    BY DEF Step
  <2> QED
    BY <2>1
<1>2. ASSUME NEW m \in T PROVE m + 1 \in T
  <2>1. PICK f : f = Step(s, f, m)
    OBVIOUS
  <2> DEFINE g == [n \in 0 .. m + 1 |-> IF n <= m THEN f[n] ELSE JoinPath(f[m], s[n])]
  <2>2. m \in Nat /\ m + 1 \in Nat
    OBVIOUS
  <2>3. ASSUME NEW n \in 0 .. m + 1
        PROVE  g[n] = IF n = 0 THEN <<>> ELSE JoinPath(g[n - 1], s[n])
    <3>1. CASE n = 0
      BY <2>1, <2>2, <3>1 DEF Step
    <3>2. CASE n \in 1 .. m
      <4>1. g[n] = f[n] /\ g[n - 1] = f[n - 1]
        BY <2>2, <3>2
      <4>2. f[n] = JoinPath(f[n - 1], s[n])
        BY <2>1, <2>2, <3>2 DEF Step
      <4> QED
        BY <3>2, <4>1, <4>2
    <3>3. CASE n = m + 1
      <4>1. g[n] = JoinPath(f[m], s[n]) /\ g[n - 1] = f[m] /\ n # 0
        BY <2>2, <3>3
      <4> QED
        BY <4>1
    <3> QED
      BY <2>2, <3>1, <3>2, <3>3
  <2>4. g = Step(s, g, m + 1)
    BY <2>3 DEF Step
  <2> QED
    BY <2>2, <2>4
<1>3. T = Nat
  BY <1>1, <1>2, NatSet
<1> QED
  BY <1>3

\* So Joined is the last of its steps.
LEMMA JoinedSteps ==
    ASSUME NEW s, Len(s) \in Nat
    PROVE  \E f : f = Step(s, f, Len(s)) /\ Joined(s) = f[Len(s)]
<1> DEFINE j == CHOOSE f : f = Step(s, f, Len(s))
<1>1. j = Step(s, j, Len(s))
  BY StepsExist
<1>2. Joined(s) = j[Len(s)]
  BY DEF Joined, Step
<1> QED
  BY <1>1, <1>2

\* The names in paths; no prover knows by itself that a literal is a string.
Words ==
    STRING \cup {"account", "me", "lookup", "ip", "ips", "v4", "v6", "domain",
                 "feeds", "helio", "http", "https", "dns", "adb",
                 "proxies", "anonymizers", "torrents", "honeypot_http",
                 "honeypot_https", "honeypot_dns", "honeypot_adb",
                 "export", "meta", "stream"}

\* Segments that mean themselves: not empty, neither "." nor "..".
Plain == Seq(Words) \ {<<"">>, <<"", "">>, <<"", "", "">>}

LEMMA JoinPathPlain ==
    ASSUME NEW path \in Seq(Plain), NEW segment \in Seq(Words)
    PROVE  JoinPath(path, segment) \in Seq(Plain)
<1>1. CASE segment \in Plain
  BY <1>1, AppendProperties DEF JoinPath, Plain, Name
<1>2. CASE segment \in {<<"">>, <<"", "">>}
  BY <1>2 DEF JoinPath, Name
<1>3. CASE segment = <<"", "", "">>
  <2>1. Len(path) \in Nat /\ \A i \in 1 .. Len(path) : path[i] \in Plain
    BY LenProperties, ElementOfSeq
  <2>2. SubSeq(path, 1, Len(path) - 1) \in Seq(Plain)
    BY <2>1, SubSeqProperties
  <2> QED
    BY <1>3, <2>2 DEF JoinPath, Front, Name
<1> QED
  BY <1>1, <1>2, <1>3 DEF Plain

\* What JoinPath returns is clean, whatever it is given.
LEMMA JoinedPlain ==
    ASSUME NEW s \in Seq(Seq(Words))
    PROVE  Joined(s) \in Seq(Plain)
<1>1. Len(s) \in Nat /\ \A i \in 1 .. Len(s) : s[i] \in Seq(Words)
  BY LenProperties, ElementOfSeq
<1>2. PICK f : f = Step(s, f, Len(s)) /\ Joined(s) = f[Len(s)]
  BY <1>1, JoinedSteps
<1> DEFINE T == {n \in Nat : n <= Len(s) => f[n] \in Seq(Plain)}
<1>3. 0 \in T
  BY <1>1, <1>2, EmptySeq DEF Step
<1>4. ASSUME NEW n \in T PROVE n + 1 \in T
  <2>1. CASE n + 1 <= Len(s)
    <3>1. n \in Nat /\ n <= Len(s) /\ n + 1 \in 1 .. Len(s)
      BY <1>1, <2>1
    <3>2. f[n + 1] = JoinPath(f[n], s[n + 1])
      BY <1>1, <1>2, <3>1 DEF Step
    <3>3. f[n] \in Seq(Plain) /\ s[n + 1] \in Seq(Words)
      BY <1>1, <3>1
    <3>4. f[n + 1] \in Seq(Plain)
      BY <3>2, <3>3, JoinPathPlain
    <3> QED
      BY <3>1, <3>4
  <2> QED
    BY <1>1, <2>1
<1>5. T = Nat
  BY <1>3, <1>4, NatSet
<1> QED
  BY <1>1, <1>2, <1>5

\* And a path that is clean comes back as it is.
LEMMA JoinedSame ==
    ASSUME NEW s \in Seq(Plain)
    PROVE  Joined(s) = s
<1>1. Len(s) \in Nat /\ \A i \in 1 .. Len(s) : s[i] \in Plain
  BY LenProperties, ElementOfSeq
<1>2. PICK f : f = Step(s, f, Len(s)) /\ Joined(s) = f[Len(s)]
  BY <1>1, JoinedSteps
<1> DEFINE T == {n \in Nat : n <= Len(s) => f[n] = SubSeq(s, 1, n)}
<1>3. 0 \in T
  BY <1>1, <1>2, SubSeqEmpty DEF Step
<1>4. ASSUME NEW n \in T PROVE n + 1 \in T
  <2>1. CASE n + 1 <= Len(s)
    <3>1. n \in Nat /\ n <= Len(s) /\ n + 1 \in 1 .. Len(s) /\ n + 1 \in Nat
      BY <1>1, <2>1
    <3>2. f[n + 1] = JoinPath(f[n], s[n + 1]) /\ f[n] = SubSeq(s, 1, n)
      BY <1>1, <1>2, <3>1 DEF Step
    <3>3. JoinPath(f[n], s[n + 1]) = Append(f[n], s[n + 1])
      BY <1>1, <3>1 DEF JoinPath, Plain, Name
    <3>4. f[n] \in Seq(Plain)
      BY <1>1, <3>1, <3>2, SubSeqProperties
    <3>5. Append(f[n], s[n + 1]) = SubSeq(s, 1, n) \o <<s[n + 1]>>
      BY <1>1, <3>1, <3>2, <3>4, AppendIsConcat
    <3>6. SubSeq(s, 1, n + 1) = SubSeq(s, 1, (n + 1) - 1) \o <<s[n + 1]>>
      BY <1>1, <3>1, SubSeqRecursiveSecond
    <3>7. (n + 1) - 1 = n
      BY <3>1
    <3> QED
      BY <3>1, <3>2, <3>3, <3>5, <3>6, <3>7
  <2> QED
    BY <1>1, <2>1
<1>5. T = Nat
  BY <1>3, <1>4, NatSet
<1>6. f[Len(s)] = SubSeq(s, 1, Len(s))
  BY <1>1, <1>5
<1> QED
  BY <1>2, <1>6, SubSeqFull

\* What a handler may name: anything but "." and "..".
Dotless == Plain \cup {<<"">>}

\* A base URL that is written with dots or empty segments makes no request: so
\* a request's path is the base URL and the handler's segments, literally.
LEMMA EndpointJoins ==
    ASSUME NEW segments \in Seq(Dotless), NEW body, base \in Seq(Seq(Words)),
           Endpoint([path |-> segments, body |-> body]) # NoRequest
    PROVE  /\ base \in Seq(Plain) /\ segments \in Seq(Plain)
           /\ Endpoint([path |-> segments, body |-> body])
                 = [path |-> base \o segments, body |-> body]
<1> DEFINE path == Joined(base \o segments)
<1>0. segments \in Seq(Plain)
  <2>1. segments \in [1 .. Len(segments) -> Dotless] /\ Len(segments) \in Nat
    BY LenProperties
  <2>2. \A i \in DOMAIN segments : segments[i] # <<"">>
    BY DEF Endpoint, Name
  <2>3. segments \in [1 .. Len(segments) -> Plain]
    BY <2>1, <2>2 DEF Dotless
  <2> QED
    BY <2>1, <2>3, SeqDef
<1>1. segments \in Seq(Seq(Words))
  BY <1>0, SeqMonotonic DEF Plain
<1>2. base \o segments \in Seq(Seq(Words))
  BY <1>1, ConcatProperties
<1>3. path \in Seq(Plain)
  BY <1>2, JoinedPlain
<1>4. /\ Endpoint([path |-> segments, body |-> body]) = [path |-> path, body |-> body]
      /\ IsStrictPrefix(base, path)
  BY DEF Endpoint
<1> HIDE DEF path
<1>5. IsPrefix(base, path)
  BY <1>4 DEF IsStrictPrefix
<1>6. base \in Seq(Plain)
  <2>1. /\ Len(base) \in Nat /\ Len(path) \in Nat
        /\ \A i \in 1 .. Len(path) : path[i] \in Plain
    BY <1>3, LenProperties, ElementOfSeq
  <2>2. Len(base) <= Len(path) /\ SubSeq(base, 1, Len(base)) = SubSeq(path, 1, Len(base))
    BY <1>5 DEF IsPrefix
  <2>3. \A i \in 1 .. Len(base) : path[i] \in Plain
    BY <2>1, <2>2
  <2>4. SubSeq(path, 1, Len(base)) \in Seq(Plain)
    BY <2>1, <2>3, SubSeqProperties
  <2> QED
    BY <2>2, <2>4, SubSeqFull
<1>7. base \o segments \in Seq(Plain)
  BY <1>0, <1>6, ConcatProperties
<1>8. path = base \o segments
  BY <1>7, JoinedSame DEF path
<1> QED
  BY <1>0, <1>4, <1>6, <1>8

----------------------------------------------------------------------------
(* The paths of the handlers.                                              *)

LEMMA Names ==
    ASSUME NEW names \in Seq(Words)
    PROVE  /\ Path(names) \in Seq(Dotless) /\ Len(Path(names)) = Len(names)
           /\ \A i \in 1 .. Len(names) : Path(names)[i] = <<names[i]>>
<1>1. Len(names) \in Nat /\ names \in [1 .. Len(names) -> Words]
  BY LenProperties
<1>2. ASSUME NEW x \in Words PROVE <<x>> \in Dotless
  <2>1. <<x>> \in Seq(Words) /\ <<x>> # <<"", "">> /\ <<x>> # <<"", "", "">>
    OBVIOUS
  <2> QED
    BY <2>1 DEF Dotless, Plain
<1>3. Path(names) \in [1 .. Len(names) -> Dotless]
  BY <1>1, <1>2 DEF Path, Name
<1>4. Path(names) \in Seq(Dotless)
  BY <1>1, <1>3, SeqDef
<1> QED
  BY <1>1, <1>3, <1>4, LenProperties DEF Path, Name

\* A name is a segment that means itself, if it is not empty.
LEMMA Segment ==
    ASSUME NEW x, <<x>> \in Seq(Words)
    PROVE  <<x>> \in Dotless
<1>1. <<x>> # <<"", "">> /\ <<x>> # <<"", "", "">>
  OBVIOUS
<1> QED
  BY <1>1 DEF Dotless, Plain

LEMMA FirstName ==
    ASSUME NEW names \in Seq(Words), Len(names) > 0
    PROVE  /\ Path(names) \in Seq(Dotless) /\ Len(Path(names)) > 0
           /\ Path(names)[1] = <<names[1]>>
<1>1. Len(names) \in Nat /\ 1 \in 1 .. Len(names)
  BY LenProperties
<1> QED
  BY <1>1, Names

\* Each feed has a path of its own below "feeds".
LEMMA FeedPaths ==
    ASSUME NEW s \in feedStreams
    PROVE  /\ FeedPath(s) \in Seq(Dotless) /\ Len(FeedPath(s)) > 0
           /\ FeedPath(s)[1] = <<"feeds">>
<1> DEFINE more == IF s.name \in DOMAIN helio THEN <<"helio", helio[s.name]>> ELSE <<s.name>>
<1>1. s.name \in Words
  BY DEF feedStreams, Feed, Words
<1>2. s.name \in DOMAIN helio => helio[s.name] \in Words
  BY DEF helio, Words
<1>a. "helio" \in Words /\ "feeds" \in Words
  BY DEF Words
<1>3. more \in Seq(Words)
  BY <1>1, <1>2, <1>a
<1> HIDE DEF more
<1>4. /\ <<"feeds">> \o more \in Seq(Words) /\ Len(<<"feeds">> \o more) = 1 + Len(more)
      /\ Len(more) \in Nat
      /\ (<<"feeds">> \o more)[1] = "feeds"
  BY <1>3, <1>a
<1>5. FeedPath(s) = Path(<<"feeds">> \o more)
  BY DEF FeedPath, more
<1> DEFINE names == <<"feeds">> \o more
<1>6. names \in Seq(Words) /\ Len(names) > 0 /\ 1 \in 1 .. Len(names) /\ names[1] = "feeds"
  BY <1>4
<1> HIDE DEF names
<1>7. /\ Path(names) \in Seq(Dotless) /\ Len(Path(names)) > 0
      /\ Path(names)[1] = <<"feeds">>
  BY <1>6, Names
<1> QED
  BY <1>5, <1>7 DEF names

\* What a path begins with is in it.
LEMMA Begins ==
    ASSUME NEW S, NEW s \in Seq(S), NEW t \in Seq(S), IsStrictPrefix(s, t),
           NEW i \in 1 .. Len(s)
    PROVE  t[i] = s[i]
<1>1. Len(s) \in Nat /\ Len(t) \in Nat /\ Len(s) <= Len(t)
  BY LenProperties DEF IsStrictPrefix, IsPrefix
<1>2. (\A k \in 1 .. Len(s) : s[k] \in S) /\ (\A k \in 1 .. Len(s) : t[k] \in S)
  BY <1>1, ElementOfSeq
<1>3. SubSeq(s, 1, Len(s))[i] = s[1 + i - 1] /\ SubSeq(t, 1, Len(s))[i] = t[1 + i - 1]
  BY <1>1, <1>2, SubSeqProperties
<1>4. SubSeq(s, 1, Len(s)) = SubSeq(t, 1, Len(s))
  BY DEF IsStrictPrefix, IsPrefix
<1> QED
  BY <1>1, <1>3, <1>4

\* A domain that passed is no "." and no "..".
LEMMA Domains ==
    ASSUME NEW labels \in Seq(Words), NEW q \in LookupDomain(labels)
    PROVE  /\ TrimDot(labels) \in Dotless
           /\ q = [path |-> Path(<<"lookup", "domain">>) \o <<TrimDot(labels)>>, body |-> <<>>]
<1> DEFINE domain == TrimDot(labels)
<1>1. domain \in Seq(Words)
  <2>1. Len(labels) \in Nat /\ \A i \in 1 .. Len(labels) - 1 : labels[i] \in Words
    BY LenProperties, ElementOfSeq
  <2>2. SubSeq(labels, 1, Len(labels) - 1) \in Seq(Words)
    BY <2>1, SubSeqProperties
  <2> QED
    BY <2>2 DEF TrimDot, Front
<1>2. /\ \A i \in DOMAIN domain : domain[i] # ""
      /\ q = [path |-> Path(<<"lookup", "domain">>) \o <<domain>>, body |-> <<>>]
  BY DEF LookupDomain, ValidLabel, Get
<1> HIDE DEF domain
<1>3. domain # <<"", "">>
  <2>1. ASSUME NEW x, NEW y, NEW d, d = <<x, y>> PROVE 1 \in DOMAIN d /\ d[1] = x
    BY <2>1
  <2> QED
    BY <1>2, <2>1
<1>4. domain # <<"", "", "">>
  <2>1. ASSUME NEW x, NEW y, NEW z, NEW d, d = <<x, y, z>>
        PROVE  1 \in DOMAIN d /\ d[1] = x
    BY <2>1
  <2> QED
    BY <1>2, <2>1
<1> QED
  BY <1>1, <1>2, <1>3, <1>4 DEF Dotless, Plain, domain

----------------------------------------------------------------------------
(* Every request goes where its tool says.                                 *)

\* Segments that lead to no lookup.
Free(segments) ==
    segments \in Seq(Dotless) /\ Len(segments) > 0 /\ segments[1] # <<"lookup">>

\* EndpointExact, with what it takes to keep it: a sample is built only for
\* sample_stream, a request is made only below a clean base URL, only a batch
\* has a body, and only the metered tools make lookups.
RouteInv ==
    /\ base \in Bases
    /\ phase = "building" => call.tool = "sample_stream"
    /\ EndpointExact
    /\ sent # NoRequest =>
          /\ base \in Seq(Plain) /\ sent.path \in Seq(Dotless)
          /\ sent.body = <<>> \/ sent.path = Under(<<"lookup", "ips">>)
          /\ \/ Metered(call.tool)
             \/ \E segments : Free(segments) /\ sent.path = base \o segments

\* Typing of the constants, in terms of Words.
LEMMA Inputs ==
    /\ \A b \in Bases : b \in Seq(Seq(Words))
    /\ \A labels \in DomainTexts : labels \in Seq(Words)
    /\ \A parts \in DateTexts : parts \in Seq(Seq(Words))
<1>1. STRING \subseteq Words
  BY DEF Words
<1>2. Seq(STRING) \subseteq Seq(Words)
  BY <1>1, SeqMonotonic
<1>3. Seq(Seq(STRING)) \subseteq Seq(Seq(Words))
  BY <1>2, SeqMonotonic
<1> QED
  BY <1>2, <1>3, ToolsAssumption

\* A handler's request, when there is one.
LEMMA HandleSends ==
    ASSUME base \in Bases, NEW tool, NEW input, NEW requests, Handle(tool, input, requests),
           \A q \in requests : \E segments \in Seq(Dotless) : \E body :
               q = [path |-> segments, body |-> body],
           sent' # NoRequest
    PROVE  \E q \in requests, segments \in Seq(Plain) : \E body :
              /\ q = [path |-> segments, body |-> body]
              /\ base \in Seq(Plain)
              /\ sent' = [path |-> base \o segments, body |-> body]
<1>1. requests # {} /\ sent' = Endpoint(CHOOSE q \in requests : TRUE)
  BY DEF Handle
<1>2. PICK q \in requests : q = CHOOSE x \in requests : TRUE
  BY <1>1
<1>a. PICK segments \in Seq(Dotless) : \E body : q = [path |-> segments, body |-> body]
  OBVIOUS
<1>3. PICK body : q = [path |-> segments, body |-> body]
  BY <1>a
<1>4. Endpoint([path |-> segments, body |-> body]) # NoRequest
  BY <1>1, <1>2, <1>3
<1>5. base \in Seq(Seq(Words))
  BY Inputs
<1>6. /\ base \in Seq(Plain) /\ segments \in Seq(Plain)
      /\ sent' = [path |-> base \o segments, body |-> body]
  BY <1>1, <1>2, <1>3, <1>4, <1>5, EndpointJoins
<1> QED
  BY <1>3, <1>6

\* Its path is one.
LEMMA SentPath ==
    ASSUME NEW b \in Seq(Plain), NEW segments \in Seq(Plain)
    PROVE  b \o segments \in Seq(Dotless)
<1>1. b \o segments \in Seq(Plain)
  BY ConcatProperties
<1> QED
  BY <1>1, SeqMonotonic DEF Dotless

\* What is left to show of a handler: its requests are dotless, and each, once
\* joined, is one the tool is documented for.
LEMMA HandleKeeps ==
    ASSUME RouteInv, NEW tool, NEW input, NEW requests, Handle(tool, input, requests),
           \A q \in requests : \E segments \in Seq(Dotless) : \E body :
               q = [path |-> segments, body |-> body],
           ASSUME NEW segments \in Seq(Plain), NEW body, base \in Seq(Plain),
                  [path |-> segments, body |-> body] \in requests,
                  sent' = [path |-> base \o segments, body |-> body]
           PROVE  /\ EndpointExact' /\ (body = <<>> \/ segments = Path(<<"lookup", "ips">>))
                  /\ Metered(tool) \/ Free(segments)
    PROVE  RouteInv'
<1>1. base' = base /\ phase' = phase /\ phase # "building" /\ call'.tool = tool
  BY DEF Handle, RouteInv, vars
<1>2. CASE sent' = NoRequest
  BY <1>1, <1>2 DEF RouteInv, EndpointExact
<1>3. CASE sent' # NoRequest
  <2>a. PICK q \in requests, segments \in Seq(Plain) : \E body :
           /\ q = [path |-> segments, body |-> body] /\ base \in Seq(Plain)
           /\ sent' = [path |-> base \o segments, body |-> body]
    BY <1>3, HandleSends DEF RouteInv
  <2>1. PICK body :
           /\ q = [path |-> segments, body |-> body] /\ base \in Seq(Plain)
           /\ sent' = [path |-> base \o segments, body |-> body]
    BY <2>a
  <2>2. /\ EndpointExact' /\ (body = <<>> \/ segments = Path(<<"lookup", "ips">>))
        /\ Metered(tool) \/ Free(segments)
    BY <2>1
  <2>3. sent'.path = base \o segments /\ sent'.body = body
    BY <2>1
  <2>4. sent'.path \in Seq(Dotless)
    BY <2>1, <2>3, SentPath
  <2>5. sent'.body = <<>> \/ sent'.path = Under(<<"lookup", "ips">>)'
    BY <1>1, <2>2, <2>3 DEF Under
  <2>6. Metered(call'.tool) \/ \E free : Free(free) /\ sent'.path = base' \o free
    BY <1>1, <2>2, <2>3
  <2> QED
    BY <1>1, <2>1, <2>2, <2>4, <2>5, <2>6 DEF RouteInv
<1> QED
  BY <1>2, <1>3

LEMMA AccountRoute ==
    ASSUME RouteInv, NEW tool \in {"get_account", "synthient_account"}, NEW input,
           Handle(tool, input, Account)
    PROVE  RouteInv'
<1> DEFINE p == Path(<<"account", "me">>)
<1>1. p \in Seq(Dotless) /\ Len(p) > 0 /\ p[1] = <<"account">>
  <2>1. /\ <<"account", "me">> \in Seq(Words) /\ Len(<<"account", "me">>) > 0
        /\ <<"account", "me">>[1] = "account"
    BY DEF Words
  <2>2. PICK names \in Seq(Words) :
           names = <<"account", "me">> /\ Len(names) > 0 /\ names[1] = "account"
    BY <2>1, Zenon
  <2> QED
    BY <2>2, FirstName
<1>a. <<"account">> # <<"lookup">>
  OBVIOUS
<1>2. Account = {[path |-> p, body |-> <<>>]}
  BY DEF Account, Get
<1>3. Under(<<"account", "me">>)' = base \o p /\ call'.tool = tool
  BY DEF Under, Handle
<1> HIDE DEF p
<1>4. ASSUME NEW segments \in Seq(Plain), NEW body, base \in Seq(Plain),
             [path |-> segments, body |-> body] \in Account,
             sent' = [path |-> base \o segments, body |-> body]
      PROVE  /\ EndpointExact' /\ (body = <<>> \/ segments = Path(<<"lookup", "ips">>))
             /\ Metered(tool) \/ Free(segments)
  <2>1. segments = p /\ body = <<>> /\ sent'.path = base \o p
    BY <1>2, <1>4
  <2>2. Free(segments)
    BY <1>1, <1>a, <2>1 DEF Free
  <2> QED
    BY <1>3, <2>1, <2>2 DEF EndpointExact
<1>5. \A q \in Account : \E segments \in Seq(Dotless) : \E body :
          q = [path |-> segments, body |-> body]
  BY <1>1, <1>2
<1> QED
  BY <1>4, <1>5, HandleKeeps

LEMMA LocalRoute ==
    ASSUME RouteInv, NEW tool, LocalTool(tool)
    PROVE  RouteInv'
<1>1. base' = base /\ phase' = phase /\ phase # "building" /\ sent' = NoRequest
  BY DEF LocalTool, Handle, RouteInv, vars
<1> QED
  BY <1>1 DEF RouteInv, EndpointExact

\* An address that passed is one of the two kinds, and no "..".
LEMMA Addresses ==
    /\ \A text : NormalizeIP(text) \subseteq {<<"v4">>, <<"v6">>}
    /\ \A ip \in {<<"v4">>, <<"v6">>} : ip \in Dotless
<1>1. \A text : NormalizeIP(text) \subseteq {<<"v4">>, <<"v6">>}
  BY DEF NormalizeIP, Name
<1>2. "v4" \in Words /\ "v6" \in Words
  BY DEF Words
<1> QED
  BY <1>1, <1>2, Segment

LEMMA LookupIPRoute ==
    ASSUME RouteInv, NEW tool \in {"lookup_ip", "synthient_lookup_ip"},
           NEW ips, Len(ips) = 1, Handle(tool, ips, LookupIP(ips[1]))
    PROVE  RouteInv'
<1> DEFINE requests == LookupIP(ips[1])
           p == Path(<<"lookup", "ip">>)
<1>1. p \in Seq(Dotless)
  <2>1. <<"lookup", "ip">> \in Seq(Words)
    BY DEF Words
  <2> QED
    BY <2>1, Names
<1>2. ASSUME NEW q \in requests
      PROVE  \E ip \in NormalizeIP(ips[1]) : q = [path |-> p \o <<ip>>, body |-> <<>>]
  BY DEF LookupIP, Get
<1>3. Under(<<"lookup", "ip">>)' = base \o p
  BY DEF Under, Handle
<1>4. call'.tool = tool /\ call'.input = ips
  BY DEF Handle
<1>7. Handle(tool, ips, requests)
  BY DEF requests
<1> HIDE DEF requests, p
<1>5. ASSUME NEW segments \in Seq(Plain), NEW body, base \in Seq(Plain),
             [path |-> segments, body |-> body] \in requests,
             sent' = [path |-> base \o segments, body |-> body]
      PROVE  /\ EndpointExact' /\ (body = <<>> \/ segments = Path(<<"lookup", "ips">>))
             /\ Metered(tool) \/ Free(segments)
  <2>1. PICK ip \in NormalizeIP(ips[1]) : segments = p \o <<ip>> /\ body = <<>>
    BY <1>2, <1>5
  <2>2. ip \in Dotless /\ Plain \subseteq Dotless
    BY <2>1, Addresses DEF Dotless
  <2>3. base \in Seq(Dotless) /\ <<ip>> \in Seq(Dotless)
    BY <1>5, <2>2, SeqMonotonic
  <2>4. base \o segments = (base \o p) \o <<ip>>
    BY <1>1, <2>1, <2>3, ConcatAssociative
  <2>5. sent'.path = Under(<<"lookup", "ip">>)' \o <<ip>>
    BY <1>3, <1>5, <2>4
  <2>6. call'.tool \in {"lookup_ip", "synthient_lookup_ip", "synthient_lookup_ips"}
    BY <1>4
  <2>7. Len(call'.input) = 1 /\ ip \in NormalizeIP(call'.input[1])
    BY <1>4, <2>1
  <2> QED
    BY <2>1, <2>5, <2>6, <2>7 DEF EndpointExact, Metered
<1>6. \A q \in requests : \E segments \in Seq(Dotless) : \E body :
          q = [path |-> segments, body |-> body]
  <2>1. ASSUME NEW ip \in {<<"v4">>, <<"v6">>} PROVE p \o <<ip>> \in Seq(Dotless)
    <3>1. <<ip>> \in Seq(Dotless)
      BY Addresses
    <3> QED
      BY <1>1, <3>1, ConcatProperties
  <2> QED
    BY <1>2, <2>1, Addresses
<1> QED
  BY <1>5, <1>6, <1>7, HandleKeeps

LEMMA LookupIPsRoute ==
    ASSUME RouteInv, NEW tool \in {"lookup_ip", "synthient_lookup_ips"},
           NEW n \in Nat, NEW ips \in [1 .. n -> IPTexts], Handle(tool, ips, LookupIPs(ips))
    PROVE  RouteInv'
<1> DEFINE requests == LookupIPs(ips)
           p == Path(<<"lookup", "ips">>)
           b == [i \in DOMAIN ips |-> CHOOSE ip \in NormalizeIP(ips[i]) : TRUE]
<1>0. p \in Seq(Dotless)
  <2>1. <<"lookup", "ips">> \in Seq(Words)
    BY DEF Words
  <2> QED
    BY <2>1, Names
<1>1. ASSUME NEW q \in requests
      PROVE  /\ q = [path |-> p, body |-> b]
             /\ \A i \in DOMAIN ips : NormalizeIP(ips[i]) # {}
  BY DEF LookupIPs
<1>2. Under(<<"lookup", "ips">>)' = base \o p /\ call'.tool = tool /\ call'.input = ips
  BY DEF Under, Handle
<1>3. ASSUME requests # {}
      PROVE  Len(b) = Len(ips) /\ \A i \in DOMAIN b : b[i] \in NormalizeIP(ips[i])
  <2>1. \A i \in DOMAIN ips : NormalizeIP(ips[i]) # {}
    BY <1>1, <1>3
  <2>2. \A i \in DOMAIN ips : b[i] \in NormalizeIP(ips[i])
    BY <2>1
  <2>3. b \in [1 .. n -> {<<"v4">>, <<"v6">>}]
    BY <2>2, Addresses
  <2>4. b \in Seq({<<"v4">>, <<"v6">>}) /\ ips \in Seq(IPTexts)
    BY <2>3, SeqDef
  <2>5. DOMAIN b = 1 .. Len(b) /\ DOMAIN ips = 1 .. Len(ips) /\ Len(b) \in Nat /\ Len(ips) \in Nat
    BY <2>4, LenProperties
  <2>6. DOMAIN b = DOMAIN ips
    OBVIOUS
  <2>7. Len(b) = Len(ips)
    BY <2>5, <2>6
  <2> QED
    BY <2>2, <2>6, <2>7
<1>4. Handle(tool, ips, requests)
  OBVIOUS
<1> HIDE DEF requests, p, b
<1>5. ASSUME NEW segments \in Seq(Plain), NEW body, base \in Seq(Plain),
             [path |-> segments, body |-> body] \in requests,
             sent' = [path |-> base \o segments, body |-> body]
      PROVE  /\ EndpointExact' /\ (body = <<>> \/ segments = Path(<<"lookup", "ips">>))
             /\ Metered(tool) \/ Free(segments)
  <2>1. segments = p /\ body = b /\ requests # {}
    BY <1>1, <1>5
  <2>2. sent'.path = Under(<<"lookup", "ips">>)' /\ sent'.body = b
    BY <1>2, <1>5, <2>1
  <2>3. call'.tool \in {"lookup_ip", "synthient_lookup_ip", "synthient_lookup_ips"}
    BY <1>2
  <2>4. /\ Len(sent'.body) = Len(call'.input)
        /\ \A i \in DOMAIN sent'.body : sent'.body[i] \in NormalizeIP(call'.input[i])
    BY <1>2, <1>3, <2>1, <2>2
  <2> QED
    BY <2>1, <2>2, <2>3, <2>4 DEF EndpointExact, Metered, p
<1>6. \A q \in requests : \E segments \in Seq(Dotless) : \E body :
          q = [path |-> segments, body |-> body]
  BY <1>0, <1>1
<1> QED
  BY <1>4, <1>5, <1>6, HandleKeeps

LEMMA LookupDomainRoute ==
    ASSUME RouteInv, NEW tool \in {"lookup_domain", "synthient_lookup_domain"},
           NEW labels \in DomainTexts, Handle(tool, labels, LookupDomain(labels))
    PROVE  RouteInv'
<1> DEFINE requests == LookupDomain(labels)
           p == Path(<<"lookup", "domain">>)
           d == TrimDot(labels)
<1>1. labels \in Seq(Words) /\ base \in Seq(Seq(Words))
  BY Inputs DEF RouteInv
<1>2. ASSUME NEW q \in requests
      PROVE  d \in Dotless /\ q = [path |-> p \o <<d>>, body |-> <<>>]
  BY <1>1, Domains
<1>3. p \in Seq(Dotless)
  <2>1. <<"lookup", "domain">> \in Seq(Words)
    BY DEF Words
  <2> QED
    BY <2>1, Names
<1>4. /\ Under(<<"lookup", "domain">>)' \o <<TrimDot(call'.input)>> = (base \o p) \o <<d>>
      /\ call'.tool = tool
  BY DEF Under, Handle
<1>5. Handle(tool, labels, requests)
  OBVIOUS
<1> HIDE DEF requests, p, d
<1>6. ASSUME NEW segments \in Seq(Plain), NEW body, base \in Seq(Plain),
             [path |-> segments, body |-> body] \in requests,
             sent' = [path |-> base \o segments, body |-> body]
      PROVE  /\ EndpointExact' /\ (body = <<>> \/ segments = Path(<<"lookup", "ips">>))
             /\ Metered(tool) \/ Free(segments)
  <2>1. segments = p \o <<d>> /\ body = <<>> /\ d \in Dotless
    BY <1>2, <1>6
  <2>a. Plain \subseteq Dotless
    BY DEF Dotless
  <2>b. <<d>> \in Seq(Dotless)
    BY <2>1
  <2>2. base \in Seq(Dotless) /\ <<d>> \in Seq(Dotless)
    BY <1>6, <2>a, <2>b, SeqMonotonic
  <2>3. base \o segments = (base \o p) \o <<d>>
    BY <1>3, <2>1, <2>2, ConcatAssociative
  <2>4. sent'.path = Under(<<"lookup", "domain">>)' \o <<TrimDot(call'.input)>>
    BY <1>4, <1>6, <2>3
  <2>5. call'.tool \in {"lookup_domain", "synthient_lookup_domain"}
    BY <1>4
  <2> QED
    BY <2>1, <2>4, <2>5 DEF EndpointExact, Metered
<1>7. \A q \in requests : \E segments \in Seq(Dotless) : \E body :
          q = [path |-> segments, body |-> body]
  <2>1. ASSUME NEW q \in requests PROVE p \o <<d>> \in Seq(Dotless)
    <3>1. <<d>> \in Seq(Dotless)
      BY <1>2
    <3> QED
      BY <1>3, <3>1, ConcatProperties
  <2> QED
    BY <1>2, <2>1
<1> QED
  BY <1>5, <1>6, <1>7, HandleKeeps

\* A path below the one of a feed.
LEMMA FeedExtends ==
    ASSUME NEW s \in feedStreams, NEW rest \in Seq(Dotless)
    PROVE  FeedPath(s) \o rest \in Seq(Dotless) /\ Free(FeedPath(s) \o rest)
<1>1. /\ FeedPath(s) \in Seq(Dotless) /\ Len(FeedPath(s)) > 0
      /\ FeedPath(s)[1] = <<"feeds">>
  BY FeedPaths
<1>2. <<"feeds">> # <<"lookup">>
  OBVIOUS
<1>3. Len(FeedPath(s)) \in Nat /\ Len(rest) \in Nat
  BY <1>1, LenProperties
<1>4. /\ FeedPath(s) \o rest \in Seq(Dotless) /\ Len(FeedPath(s) \o rest) > 0
      /\ (FeedPath(s) \o rest)[1] = <<"feeds">>
  BY <1>1, <1>3, ConcatProperties
<1> QED
  BY <1>2, <1>4 DEF Free

\* What the two tools on snapshots ask for.
SnapshotRequests(tool, input, rest, requests) ==
    /\ \/ tool = "list_feed_snapshots" /\ rest = Path(<<"export">>)
       \/ tool = "feed_snapshot_meta" /\ rest = MetaPath(input[2])
    /\ requests # {} => rest \in Seq(Dotless)
    /\ \A q \in requests : \E s \in NormalizeFeedStream(input[1], FALSE) :
          q = Get(FeedPath(s) \o rest)

LEMMA SnapshotRoute ==
    ASSUME RouteInv, NEW tool, NEW input, NEW requests, NEW rest,
           SnapshotRequests(tool, input, rest, requests),
           Handle(tool, input, requests)
    PROVE  RouteInv'
<1>1. base' = base /\ call'.tool = tool /\ call'.input = input
  BY DEF Handle
<1>2. ASSUME NEW segments \in Seq(Plain), NEW body, base \in Seq(Plain),
             [path |-> segments, body |-> body] \in requests,
             sent' = [path |-> base \o segments, body |-> body]
      PROVE  /\ EndpointExact' /\ (body = <<>> \/ segments = Path(<<"lookup", "ips">>))
             /\ Metered(tool) \/ Free(segments)
  <2>1. PICK s \in NormalizeFeedStream(input[1], FALSE) :
           segments = FeedPath(s) \o rest /\ body = <<>>
    BY <1>2 DEF Get, SnapshotRequests
  <2>2. sent'.path = base' \o (FeedPath(s) \o rest)
    BY <1>1, <1>2, <2>1
  <2>3. s \in NormalizeFeedStream(call'.input[1], FALSE)
    BY <1>1, <2>1
  <2>5. \/ call'.tool = "list_feed_snapshots" /\ OfFeed(FALSE, Path(<<"export">>))'
        \/ call'.tool = "feed_snapshot_meta" /\ OfFeed(FALSE, MetaPath(call.input[2]))'
    BY <1>1, <2>2, <2>3 DEF OfFeed, SnapshotRequests
  <2>6. s \in feedStreams /\ rest \in Seq(Dotless)
    BY <1>2 DEF NormalizeFeedStream, SnapshotRequests
  <2>7. Free(segments)
    BY <2>1, <2>6, FeedExtends
  <2> QED
    BY <2>1, <2>5, <2>7 DEF EndpointExact
<1>3. \A q \in requests : \E segments \in Seq(Dotless) : \E body :
          q = [path |-> segments, body |-> body]
  <2>1. ASSUME NEW q \in requests
        PROVE  \E segments \in Seq(Dotless) : \E body : q = [path |-> segments, body |-> body]
    <3>1. PICK s \in NormalizeFeedStream(input[1], FALSE) : q = Get(FeedPath(s) \o rest)
      BY <2>1 DEF SnapshotRequests
    <3>2. s \in feedStreams
      BY DEF NormalizeFeedStream
    <3>3. FeedPath(s) \o rest \in Seq(Dotless)
      BY <2>1, <3>2, FeedExtends DEF SnapshotRequests
    <3> QED
      BY <3>1, <3>3 DEF Get
  <2> QED
    BY <2>1
<1> QED
  BY <1>2, <1>3, HandleKeeps

LEMMA ListSnapshotsRoute ==
    ASSUME RouteInv, NEW text, NEW limit, ListSnapshots(text, limit)
    PROVE  RouteInv'
<1>1. Path(<<"export">>) \in Seq(Dotless)
  <2>1. <<"export">> \in Seq(Words)
    BY DEF Words
  <2> QED
    BY <2>1, Names
<1>2. PICK requests, input : requests = FeedSnapshots(text, limit) /\ input = <<text>>
  OBVIOUS
<1>3. \A q \in requests : \E s \in NormalizeFeedStream(input[1], FALSE) :
          q = Get(FeedPath(s) \o Path(<<"export">>))
  BY <1>2 DEF FeedSnapshots
<1>4. Handle("list_feed_snapshots", input, requests)
  BY <1>2 DEF ListSnapshots
<1>5. SnapshotRequests("list_feed_snapshots", input, Path(<<"export">>), requests)
  BY <1>1, <1>3 DEF SnapshotRequests
<1> QED
  BY <1>4, <1>5, SnapshotRoute

\* What snapshotSegments lets through are names: neither a date nor an hour can
\* be "..".
LEMMA SnapshotNames ==
    ASSUME NEW parts \in Seq(Seq(Words)), SnapshotSegments(parts)
    PROVE  parts \in Seq(Dotless)
<1>1. Len(parts) \in Nat /\ \A i \in 1 .. Len(parts) : parts[i] \in Seq(Words)
  BY LenProperties, ElementOfSeq
<1>2. \A i \in 1 .. Len(parts) : \E x : parts[i] = <<x>>
  <2>1. CASE parts \in {<<Name("latest")>>, <<Name("day")>>}
    BY <2>1 DEF Name
  <2>2. CASE /\ Len(parts) = 2 /\ parts[1] = Name("day")
             /\ \E hour \in 0 .. 23 : parts[2] = Name(ToString(hour))
    <3>1. PICK hour \in 0 .. 23 : parts[2] = Name(ToString(hour))
      BY <2>2
    <3>2. parts[1] = <<"day">> /\ \E x : parts[2] = <<x>>
      BY <2>2, <3>1 DEF Name
    <3> QED
      BY <2>2, <3>2
  <2> QED
    BY <2>1, <2>2 DEF SnapshotSegments
<1>3. \A i \in 1 .. Len(parts) : parts[i] \in Dotless
  BY <1>1, <1>2, Segment
<1>4. parts \in [1 .. Len(parts) -> Dotless]
  BY <1>1, <1>3, LenProperties
<1>5. \A n \in Nat : [1 .. n -> Dotless] \subseteq Seq(Dotless)
  BY SeqDef
<1> QED
  BY <1>1, <1>4, <1>5, Zenon

LEMMA SnapshotMetaRoute ==
    ASSUME RouteInv, NEW text, NEW parts \in DateTexts, SnapshotMeta(text, parts)
    PROVE  RouteInv'
<1>1. parts \in Seq(Seq(Words))
  BY Inputs
<1>2. Path(<<"export">>) \in Seq(Dotless) /\ Path(<<"meta">>) \in Seq(Dotless)
  <2>1. <<"export">> \in Seq(Words) /\ <<"meta">> \in Seq(Words)
    BY DEF Words
  <2> QED
    BY <2>1, Names
<1>3. PICK requests, input :
         requests = FeedSnapshotMeta(text, parts) /\ input = <<text, parts>>
  OBVIOUS
<1>4. input[1] = text /\ input[2] = parts
  BY <1>3
<1>5. requests # {} => MetaPath(parts) \in Seq(Dotless)
  <2>1. SUFFICES ASSUME requests # {} PROVE MetaPath(parts) \in Seq(Dotless)
    OBVIOUS
  <2>2. SnapshotSegments(parts)
    BY <1>3, <2>1 DEF FeedSnapshotMeta
  <2>3. parts \in Seq(Dotless)
    BY <1>1, <2>2, SnapshotNames
  <2>4. parts \o Path(<<"meta">>) \in Seq(Dotless)
    BY <1>2, <2>3, ConcatProperties
  <2> QED
    BY <1>2, <2>4, ConcatProperties DEF MetaPath
<1>6. \A q \in requests : \E s \in NormalizeFeedStream(input[1], FALSE) :
          q = Get(FeedPath(s) \o MetaPath(parts))
  BY <1>3, <1>4 DEF FeedSnapshotMeta
<1>7. Handle("feed_snapshot_meta", input, requests)
  BY <1>3 DEF SnapshotMeta
<1>8. SnapshotRequests("feed_snapshot_meta", input, MetaPath(parts), requests)
  BY <1>4, <1>5, <1>6 DEF SnapshotRequests
<1> QED
  BY <1>7, <1>8, SnapshotRoute

\* The arguments of sample_stream are judged: nothing was sent before.
LEMMA SampleToolRoute ==
    ASSUME RouteInv, NEW text, NEW n, NEW timeout, NEW valid, SampleTool(text, n, timeout, valid)
    PROVE  RouteInv'
<1>1. /\ base' = base /\ sent' = sent
      /\ call.tool = "none" /\ call'.tool = "sample_stream"
  BY DEF SampleTool
<1>2. sent = NoRequest
  BY <1>1 DEF RouteInv, EndpointExact
<1> QED
  BY <1>1, <1>2 DEF RouteInv, EndpointExact

LEMMA SampleBuildRoute == ASSUME RouteInv, SampleBuild PROVE RouteInv'
<1>1. /\ base' = base /\ call' = call /\ call.tool = "sample_stream" /\ phase' # "building"
      /\ base \in Seq(Seq(Words))
  BY Inputs DEF SampleBuild, RouteInv, NewRequest
<1>2. PICK s \in NormalizeFeedStream(call.input[1], TRUE) : sent' = Endpoint(SampleRequest(s))
  BY DEF SampleBuild
<1>3. s \in feedStreams
  BY DEF NormalizeFeedStream
<1>4. CASE sent' = NoRequest
  BY <1>1, <1>4 DEF RouteInv, EndpointExact
<1>5. CASE sent' # NoRequest
  <2> DEFINE segments == FeedPath(s) \o Path(<<"stream">>)
  <2>1. Path(<<"stream">>) \in Seq(Dotless)
    <3>1. <<"stream">> \in Seq(Words)
      BY DEF Words
    <3> QED
      BY <3>1, Names
  <2>3. segments \in Seq(Dotless) /\ Free(segments)
    BY <1>3, <2>1, FeedExtends
  <2>4. SampleRequest(s) = [path |-> segments, body |-> <<>>]
    BY DEF SampleRequest, Get
  <2>a. segments = FeedPath(s) \o Path(<<"stream">>)
    OBVIOUS
  <2> HIDE DEF segments
  <2>5. /\ base \in Seq(Plain) /\ segments \in Seq(Plain)
        /\ sent' = [path |-> base \o segments, body |-> <<>>]
    BY <1>1, <1>2, <1>5, <2>3, <2>4, EndpointJoins
  <2>6. sent'.path = base \o segments /\ sent'.body = <<>>
    BY <2>5
  <2>7. base \o segments \in Seq(Dotless)
    BY <2>5, SentPath
  <2>8. OfFeed(TRUE, Path(<<"stream">>))'
    BY <1>1, <1>2, <2>6, <2>a DEF OfFeed
  <2>10. EndpointExact'
    BY <1>1, <2>8 DEF EndpointExact
  <2> QED
    BY <1>1, <2>3, <2>5, <2>6, <2>7, <2>10 DEF RouteInv
<1> QED
  BY <1>4, <1>5

\* A sample under way is never built again.
LEMMA SamplingMoves == Sampling => phase' # "building"
BY DEF Sampling, Answered, DoFails, DoFailsObserving, BadStatus, Connected, ReturnFrom,
       ScanLine, Take, CutShort, Continue, BreakOff, Deadline, TooLong, ScanTail, ScanEnd

\* RouteInv reads only the tools' variables and the phase.
LEMMA QuietRoute ==
    ASSUME RouteInv, UNCHANGED tools, phase' # "building" \/ phase' = phase
    PROVE  RouteInv'
BY DEF RouteInv, EndpointExact, OfFeed, Under, tools

LEMMA NextRoute == RouteInv /\ [ToolsNext]_<<vars, tools>> => RouteInv'
<1> SUFFICES ASSUME RouteInv, [ToolsNext]_<<vars, tools>> PROVE RouteInv'
  OBVIOUS
<1>1. CASE GetAccount
  BY <1>1, AccountRoute DEF GetAccount
<1>2. ASSUME NEW tool, LocalTool(tool) PROVE RouteInv'
  BY <1>2, LocalRoute
<1>3. ASSUME NEW n \in 0 .. MaxIPs + 1, NEW labels \in DomainTexts,
             NEW ips \in [1 .. n -> IPTexts],
             LookupIPTool(ips) \/ LookupDomainTool(labels) \/ LegacyTool(ips, labels)
      PROVE  RouteInv'
  <2>0. n \in Nat
    BY ToolsAssumption
  <2>1. CASE LookupIPTool(ips)
    <3>1. CASE Len(ips) = 1
      BY <2>1, <3>1, LookupIPRoute DEF LookupIPTool
    <3>2. CASE Len(ips) # 1
      BY <2>0, <2>1, <3>2, LookupIPsRoute DEF LookupIPTool
    <3> QED
      BY <3>1, <3>2
  <2>2. CASE LookupDomainTool(labels)
    BY <2>2, LookupDomainRoute DEF LookupDomainTool
  <2>3. CASE LegacyTool(ips, labels)
    <3>1. CASE Handle("synthient_account", <<>>, Account)
      BY <3>1, AccountRoute
    <3>2. CASE Handle("synthient_lookup_ips", ips, LookupIPs(ips))
      BY <2>0, <3>2, LookupIPsRoute
    <3>3. CASE Len(ips) = 1 /\ Handle("synthient_lookup_ip", ips, LookupIP(ips[1]))
      BY <3>3, LookupIPRoute
    <3>4. CASE Handle("synthient_lookup_domain", labels, LookupDomain(labels))
      BY <3>4, LookupDomainRoute
    <3> QED
      BY <2>3, <3>1, <3>2, <3>3, <3>4 DEF LegacyTool
  <2> QED
    BY <1>3, <2>1, <2>2, <2>3
<1>4. ASSUME NEW text, NEW limit, ListSnapshots(text, limit) PROVE RouteInv'
  BY <1>4, ListSnapshotsRoute
<1>5. ASSUME NEW text, NEW parts \in DateTexts, SnapshotMeta(text, parts) PROVE RouteInv'
  BY <1>5, SnapshotMetaRoute
<1>6. ASSUME NEW text, NEW n, NEW timeout, NEW valid, SampleTool(text, n, timeout, valid)
      PROVE  RouteInv'
  BY <1>6, SampleToolRoute
<1>7. CASE SampleBuild
  BY <1>7, SampleBuildRoute
<1>8. CASE Sampling /\ UNCHANGED tools
  BY <1>8, SamplingMoves, QuietRoute
<1>9. CASE UNCHANGED <<vars, tools>>
  BY <1>9, QuietRoute DEF vars
<1> QED
  BY <1>1, <1>2, <1>3, <1>4, <1>5, <1>6, <1>7, <1>8, <1>9 DEF ToolsNext

\* Whatever the base URL, the batch limit and what callers write.
THEOREM RouteHolds == ToolsSpec => []RouteInv
<1>1. ToolsInit => RouteInv
  BY DEF ToolsInit, Init, RouteInv, EndpointExact
<1> QED
  BY <1>1, NextRoute, PTL DEF ToolsSpec

\* A request that leaves goes to the endpoint of its tool, below the base URL as
\* it is written, for what the caller named: no text that passes a handler's
\* validation changes a path when url.URL.JoinPath cleans it.
THEOREM EndpointHolds == ToolsSpec => []EndpointExact
<1>1. RouteInv => EndpointExact
  BY DEF RouteInv
<1> QED
  BY <1>1, RouteHolds, PTL

\* The segment after the base URL tells a lookup from the rest.
LEMMA FirstSegment ==
    ASSUME NEW b \in Seq(Dotless), NEW segments \in Seq(Dotless), Len(segments) > 0
    PROVE  (b \o segments)[Len(b) + 1] = segments[1] /\ Len(b) + 1 \in 1 .. Len(b \o segments)
<1>1. Len(b) \in Nat /\ Len(segments) \in Nat
  BY LenProperties
<1> QED
  BY <1>1, ConcatProperties

\* Only tools that are announced as metered can spend lookup credit, and several
\* addresses go out as one batch.
THEOREM MeteredHolds == ToolsSpec => []MeteredDeclared
<1>1. ASSUME RouteInv, sent # NoRequest, IsStrictPrefix(Under(<<"lookup">>), sent.path)
      PROVE  Metered(call.tool) /\ (Len(sent.body) > 1 => sent.path = Under(<<"lookup", "ips">>))
  <2>1. base \in Seq(Dotless) /\ sent.path \in Seq(Dotless)
    <3>1. Plain \subseteq Dotless
      BY DEF Dotless
    <3> QED
      BY <1>1, <3>1, SeqMonotonic DEF RouteInv
  <2>2. /\ Path(<<"lookup">>) \in Seq(Dotless) /\ Len(Path(<<"lookup">>)) > 0
        /\ Path(<<"lookup">>)[1] = <<"lookup">>
    <3>a. <<"lookup">> \in Seq(Words) /\ Len(<<"lookup">>) > 0 /\ <<"lookup">>[1] = "lookup"
      BY DEF Words
    <3>1. PICK names \in Seq(Words) :
             names = <<"lookup">> /\ Len(names) > 0 /\ names[1] = "lookup"
      BY <3>a, Zenon
    <3> QED
      BY <3>1, FirstName
  <2>3. /\ Under(<<"lookup">>) \in Seq(Dotless)
        /\ Under(<<"lookup">>)[Len(base) + 1] = <<"lookup">>
        /\ Len(base) + 1 \in 1 .. Len(Under(<<"lookup">>))
    BY <2>1, <2>2, FirstSegment, ConcatProperties DEF Under
  <2>4. sent.path[Len(base) + 1] = <<"lookup">>
    BY <1>1, <2>1, <2>3, Begins
  <2>5. ASSUME NEW segments, Free(segments), sent.path = base \o segments PROVE FALSE
    <3>1. (base \o segments)[Len(base) + 1] = segments[1]
      BY <2>1, <2>5, FirstSegment DEF Free
    <3> QED
      BY <2>4, <2>5, <3>1 DEF Free
  <2>6. Metered(call.tool)
    BY <1>1, <2>5 DEF RouteInv
  <2>7. Len(<<>>) = 0
    OBVIOUS
  <2> QED
    BY <1>1, <2>6, <2>7 DEF RouteInv
<1>2. RouteInv => MeteredDeclared
  BY <1>1 DEF MeteredDeclared
<1> QED
  BY <1>2, RouteHolds, PTL
====
