---- MODULE Tools ----
(***************************************************************************)
(* The MCP tools (internal/mcpserver): each handler validates its input,   *)
(* names an endpoint by its path segments and hands it to the API client   *)
(* (internal/synthient), which joins them to the configured base URL.  A   *)
(* server is made for every request, so a behaviour is one call; that of   *)
(* sample_stream goes on in SampleStream.                                  *)
(*                                                                         *)
(* A path segment is the sequence of its dot-separated labels: a name is   *)
(* <<name>>, "." is <<"", "">>, ".." is <<"", "", "">>.                    *)
(***************************************************************************)
EXTENDS SampleStream, Config, SequencesExt

CONSTANTS
    Bases,          \* path of SYNTHIENT_API_BASE_URL, without the last slash
    MaxIPs,         \* addresses in a batch, 1000 in the code
    StreamTimeout,  \* STREAM_TIMEOUT_MS
    IPTexts, DomainTexts, StreamTexts, DateTexts   \* what callers may write

ASSUME ToolsAssumption ==
    /\ Bases \subseteq Seq(Seq(STRING)) /\ MaxIPs \in Nat
    /\ DomainTexts \subseteq Seq(STRING) /\ DateTexts \subseteq Seq(Seq(STRING))

VARIABLES
    base,    \* the base URL's path
    legacy,  \* LEGACY_TOOL_NAMES
    call,    \* the tool called and its input
    sent     \* the request that leaves for Synthient: path and body

tools == <<base, legacy, call, sent>>

NoRequest == [path |-> <<>>, body |-> <<>>]

ToolsInit ==
    /\ Init
    /\ base \in Bases /\ legacy \in BOOLEAN
    /\ call = [tool |-> "none", input |-> <<>>] /\ sent = NoRequest

----------------------------------------------------------------------------
(* Endpoints.                                                              *)

Name(x) == <<x>>
Path(names) == [i \in DOMAIN names |-> Name(names[i])]

\* url.URL.JoinPath cleans what it joins: empty segments and "." go, and ".."
\* takes the segment before it along.
JoinPath(path, segment) ==
    IF segment \in {Name(""), <<"", "">>} THEN path
    ELSE IF segment # <<"", "", "">> THEN Append(path, segment)
    ELSE IF path = <<>> THEN path ELSE Front(path)

\* The segments joined to the base URL one after the other.
Joined(segments) ==
    LET joined[n \in 0 .. Len(segments)] ==
            IF n = 0 THEN <<>> ELSE JoinPath(joined[n - 1], segments[n])
    IN  joined[Len(segments)]

\* requestQuery and newRequest: no empty segment, and nothing outside the base
\* URL as it is written in the configuration.  A base URL without a path is
\* trimmed to the empty one, to which JoinPath joins a relative path: that does
\* not begin with a slash, and every call is refused.
Endpoint(q) ==
    LET path == Joined(base \o q.path)
    IN  IF /\ \A i \in DOMAIN q.path : q.path[i] # Name("")
           /\ base # <<>> /\ IsStrictPrefix(base, path)
        THEN [q EXCEPT !.path = path] ELSE NoRequest

Get(path) == [path |-> path, body |-> <<>>]

----------------------------------------------------------------------------
(* Inputs.  A handler's input gives a set of requests: empty when it is    *)
(* refused, else the one to make.                                          *)

\* normalizeIP: an IPv4 address mapped into IPv6 becomes that address; zones
\* and everything else are refused.
NormalizeIP(text) ==
    IF text \in {Name("v4"), Name("mapped")} THEN {Name("v4")} ELSE {text} \cap {Name("v6")}

Account == {Get(Path(<<"account", "me">>))}

LookupIPs(ips) ==
    IF Len(ips) \in 1 .. MaxIPs /\ \A i \in DOMAIN ips : NormalizeIP(ips[i]) # {}
    THEN {[path |-> Path(<<"lookup", "ips">>),
           body |-> [i \in DOMAIN ips |-> CHOOSE ip \in NormalizeIP(ips[i]) : TRUE]]}
    ELSE {}

LookupIP(text) ==
    {Get(Path(<<"lookup", "ip">>) \o <<ip>>) : ip \in NormalizeIP(text)}

\* One trailing dot is dropped.
TrimDot(labels) ==
    IF Len(labels) > 1 /\ Last(labels) = "" THEN Front(labels) ELSE labels

\* Empty labels are not noticed.
ValidLabelOrNone(label) == label \notin {"-x", "a_b", "long"}

\* Letters, digits and inner hyphens, up to 63 of them; the others stand for
\* what is refused.
ValidLabel(label) == label \notin {"", "-x", "a_b", "long"}

LookupDomain(labels) ==
    LET domain == TrimDot(labels)
    IN  IF domain # Name("") /\ \A i \in DOMAIN domain : ValidLabel(domain[i])
        THEN {Get(Path(<<"lookup", "domain">>) \o <<domain>>)} ELSE {}

Feed(name, aliases, live) == [name |-> name, aliases |-> aliases, live |-> live]

feedStreams ==
    {Feed("proxies", {"proxy"}, TRUE), Feed("anonymizers", {"anonymizer"}, TRUE),
     Feed("torrents", {"torrent"}, TRUE),
     Feed("honeypot_http", {"helios_http", "http"}, TRUE),
     Feed("honeypot_https", {"helios_https", "https", "tls"}, TRUE),
     Feed("honeypot_dns", {"helios_dns", "dns"}, FALSE),
     Feed("honeypot_adb", {"helios_adb", "adb"}, FALSE)}

NormalizeFeedStream(text, requireLive) ==
    {s \in feedStreams : /\ text \in {s.name} \cup s.aliases
                         /\ requireLive => s.live}

helio == [honeypot_http |-> "http", honeypot_https |-> "https",
          honeypot_dns |-> "dns", honeypot_adb |-> "adb"]

FeedPath(s) ==
    Path(<<"feeds">> \o IF s.name \in DOMAIN helio
                        THEN <<"helio", helio[s.name]>> ELSE <<s.name>>)

\* Zero asks for the default limit; a cursor that is too long is refused like
\* a limit out of range.
FeedSnapshots(text, limit) ==
    {Get(FeedPath(s) \o Path(<<"export">>)) :
        s \in IF limit \in 0 .. 500 THEN NormalizeFeedStream(text, FALSE) ELSE {}}

\* The hour goes on as it is written.
SnapshotDate(parts) ==
    \/ parts \in {<<Name("latest")>>, <<Name("day")>>}
    \/ Len(parts) = 2 /\ parts[1] = Name("day")

\* snapshotSegments; the input is cut at its first slash, "day" is any date.
SnapshotSegments(parts) ==
    \/ parts \in {<<Name("latest")>>, <<Name("day")>>}
    \/ /\ Len(parts) = 2 /\ parts[1] = Name("day")
       /\ \E hour \in 0 .. 23 : parts[2] = Name(ToString(hour))

\* The segments of a snapshot below those of its feed.
MetaPath(parts) == Path(<<"export">>) \o (parts \o Path(<<"meta">>))

FeedSnapshotMeta(text, parts) ==
    {Get(FeedPath(s) \o MetaPath(parts)) :
        s \in IF SnapshotSegments(parts) THEN NormalizeFeedStream(text, FALSE) ELSE {}}

SampleRequest(s) == Get(FeedPath(s) \o Path(<<"stream">>))

\* The legacy lookups lose their annotation.
MeteredCanonical(tool) == tool \in {"lookup_ip", "lookup_domain"}

\* The annotation each tool is registered with.
Metered(tool) ==
    tool \in {"lookup_ip", "lookup_domain", "synthient_lookup_ip",
              "synthient_lookup_ips", "synthient_lookup_domain"}

----------------------------------------------------------------------------

\* A handler's call of the API client; what becomes of it is in Upstream.
Handle(tool, input, requests) ==
    /\ call.tool = "none"
    /\ call' = [tool |-> tool, input |-> input]
    /\ sent' = IF requests = {} THEN NoRequest
               ELSE Endpoint(CHOOSE q \in requests : TRUE)
    /\ UNCHANGED <<base, legacy, vars>>

GetAccount == Handle("get_account", <<>>, Account)

\* Served from the catalog, or by gRPC reflection at an endpoint of its own.
LocalTool(tool) == Handle(tool, <<>>, {})

LookupIPTool(ips) ==
    Handle("lookup_ip", ips, IF Len(ips) = 1 THEN LookupIP(ips[1]) ELSE LookupIPs(ips))

LookupDomainTool(labels) == Handle("lookup_domain", labels, LookupDomain(labels))

\* registerLegacyTools
LegacyTool(ips, labels) ==
    /\ legacy
    /\ \/ Handle("synthient_account", <<>>, Account)
       \/ Handle("synthient_lookup_ips", ips, LookupIPs(ips))
       \/ Len(ips) = 1 /\ Handle("synthient_lookup_ip", ips, LookupIP(ips[1]))
       \/ Handle("synthient_lookup_domain", labels, LookupDomain(labels))

ListSnapshots(text, limit) ==
    Handle("list_feed_snapshots", <<text>>, FeedSnapshots(text, limit))

SnapshotMeta(text, parts) ==
    Handle("feed_snapshot_meta", <<text, parts>>, FeedSnapshotMeta(text, parts))

\* sample_stream: its arguments, then SampleStream.
SampleTool(text, n, timeout, filtersValid) ==
    /\ call.tool = "none"
    /\ call' = [tool |-> "sample_stream", input |-> <<text>>]
    /\ Call(n, /\ NormalizeFeedStream(text, TRUE) # {}
               /\ timeout \in 0 .. MaximumTimeout(StreamTimeout)
               /\ filtersValid)
    /\ UNCHANGED <<base, legacy, sent>>

SampleBuild ==
    /\ phase = "building"
    /\ \E s \in NormalizeFeedStream(call.input[1], TRUE) : sent' = Endpoint(SampleRequest(s))
    /\ NewRequest(sent' # NoRequest)
    /\ UNCHANGED <<base, legacy, call>>

ToolsNext ==
    \/ GetAccount
    \/ \E tool \in {"list_feed_streams", "grpc_schema"} : LocalTool(tool)
    \/ \E n \in 0 .. MaxIPs + 1, labels \in DomainTexts : \E ips \in [1 .. n -> IPTexts] :
          LookupIPTool(ips) \/ LookupDomainTool(labels) \/ LegacyTool(ips, labels)
    \/ \E text \in StreamTexts :
          \/ \E limit \in {-1, 0, 500, 501} : ListSnapshots(text, limit)
          \/ \E parts \in DateTexts : SnapshotMeta(text, parts)
          \/ \E n \in 0 .. MaxCount + 1, valid \in BOOLEAN,
                timeout \in {0, MaximumTimeout(StreamTimeout) + 1} :
                SampleTool(text, n, timeout, valid)
    \/ SampleBuild
    \/ Sampling /\ UNCHANGED tools

ToolsSpec == ToolsInit /\ [][ToolsNext]_<<vars, tools>>

\* The tool's code runs on, Do returns within its context, and the deadline of
\* context.WithTimeout fires if nothing else ends the sample: no fairness is
\* assumed of the feed.
FairSpec ==
    /\ ToolsSpec
    /\ WF_<<vars, tools>>(SampleBuild)
    /\ WF_<<vars, tools>>(Answered /\ UNCHANGED tools)
    /\ WF_<<vars, tools>>((\E rest \in Tails : Deadline(rest)) /\ UNCHANGED tools)
    /\ WF_<<vars, tools>>((ScanTail \/ ScanEnd) /\ UNCHANGED tools)

----------------------------------------------------------------------------

Under(names) == base \o Path(names)

\* The request is for a feed the caller named, and for that part of it.
OfFeed(live, rest) ==
    \E s \in NormalizeFeedStream(call.input[1], live) :
        sent.path = base \o (FeedPath(s) \o rest)

\* Whatever a caller writes, the request that leaves goes to the endpoint the
\* README documents for the tool, below the configured base URL, and asks for
\* exactly what the caller named: each address in its canonical form and in
\* order, the domain without its trailing dot, the date and hour of a snapshot
\* of the named feed.  Nothing of it is lost or climbs when JoinPath cleans the
\* path (client.go:130, feeds.go:129).
EndpointExact ==
    sent # NoRequest =>
        \/ /\ call.tool \in {"get_account", "synthient_account"}
           /\ sent.path = Under(<<"account", "me">>)
        \/ /\ call.tool \in {"lookup_ip", "synthient_lookup_ip", "synthient_lookup_ips"}
           /\ \/ /\ Len(call.input) = 1
                 /\ \E ip \in NormalizeIP(call.input[1]) :
                       sent.path = Under(<<"lookup", "ip">>) \o <<ip>>
              \/ /\ sent.path = Under(<<"lookup", "ips">>)
                 /\ Len(sent.body) = Len(call.input)
                 /\ \A i \in DOMAIN sent.body :
                       sent.body[i] \in NormalizeIP(call.input[i])
        \/ /\ call.tool \in {"lookup_domain", "synthient_lookup_domain"}
           /\ sent.path = Under(<<"lookup", "domain">>) \o <<TrimDot(call.input)>>
        \/ call.tool = "list_feed_snapshots" /\ OfFeed(FALSE, Path(<<"export">>))
        \/ call.tool = "feed_snapshot_meta" /\ OfFeed(FALSE, MetaPath(call.input[2]))
        \/ call.tool = "sample_stream" /\ OfFeed(TRUE, Path(<<"stream">>))

\* A request that can consume lookup credit is only ever made by a tool that
\* is announced as metered, so a client never repeats it believing it is free;
\* and several addresses never go out as anything but one batch.
MeteredDeclared ==
    (sent # NoRequest /\ IsStrictPrefix(Under(<<"lookup">>), sent.path)) =>
        /\ Metered(call.tool)
        /\ Len(sent.body) > 1 => sent.path = Under(<<"lookup", "ips">>)
====
