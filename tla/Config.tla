---- MODULE Config ----
(***************************************************************************)
(* LoadFrom of internal/config/config.go: which environments are accepted, *)
(* and the settings they give.  A text is modelled by what the parsers     *)
(* make of it: a number outside every range stands for one that does not   *)
(* parse, a URL is its scheme, its host and the form it is written in.     *)
(*                                                                         *)
(* Every error has the same effect (no configuration), so the tests are a  *)
(* conjunction; only the settings that other components use or that are    *)
(* compared with each other are kept.                                      *)
(***************************************************************************)
EXTENDS Integers

\* A variable of the environment: not set, set to the empty string, or given.
Unset == [is |-> "unset"]
Blank == [is |-> "blank"]
Given(x) == [is |-> "given", value |-> x]

----------------------------------------------------------------------------
(* Values.                                                                 *)

\* integer and boolean: the fallback unless a text is given; then in range.
Value(v, fallback) == IF v.is = "given" THEN v.value ELSE fallback
InRange(v, min, max) == v.is = "given" => v.value \in min .. max
IsBool(v) == v.is = "given" => v.value \in {"true", "false"}

\* get: the empty string counts as a value, one that every validator refuses.
Text(v, fallback) == IF v.is = "unset" THEN fallback
                     ELSE IF v.is = "blank" THEN "" ELSE v.value

\* origins and prefixes: nothing unless a text is given.
Items(v) == Value(v, {})

\* normalizeHostname and validateListenHost; "a b" is any malformed host.
ValidHost(h) == h \notin {"", "a b"}

\* list: empty items are skipped, but something has to be left.
AllowedHosts(v) ==
    IF v.is = "unset" THEN {"localhost", "127.0.0.1", "::1"}
    ELSE Items(v) \ {""}
ValidHostList(v) ==
    AllowedHosts(v) # {} /\ \A h \in AllowedHosts(v) : ValidHost(h)

----------------------------------------------------------------------------
(* URLs.  A form says how the text goes on after scheme and host: nothing, *)
(* in capitals, a slash, a path, one with dot segments, one that is no     *)
(* pattern of http.ServeMux once it is decoded (stray braces), an escaped  *)
(* one that is, a fragment, a query, credentials before the host, or that  *)
(* it does not parse at all.                                               *)

URL(scheme, host, form) == [scheme |-> scheme, host |-> host, form |-> form]
NoURL == URL("", "", "unparsable")

OriginForms == {"plain", "upper", "slash"}
PathForms == OriginForms \cup {"path", "dotted", "braces"}

IsLoopback(h) == h \in {"localhost", "127.0.0.1", "::1"}

Secure(u) == /\ u.host # ""
             /\ u.scheme = "https" \/ (u.scheme = "http" /\ IsLoopback(u.host))

\* validateBaseURL refuses an escaped path and a fragment; validateSecureURL
\* lets both pass, as url.ParseRequestURI takes a fragment for a path.
ValidBaseURL(u) == Secure(u) /\ u.form \in PathForms
ValidSecureURL(u) == Secure(u) /\ u.form \in PathForms \cup {"escaped", "fragment"}

URLOf(v, fallback) == IF v.is = "unset" THEN fallback
                      ELSE IF v.is = "blank" THEN NoURL ELSE v.value

\* canonicalOrigin
ValidOrigin(u) == /\ u.host # "" /\ u.scheme \in {"http", "https"}
                  /\ u.form \in OriginForms

\* The text as it was given, only checked.
CanonicalAsGiven(u) == u

\* Scheme and host in lower case, and nothing after them.
Canonical(u) == URL(u.scheme, u.host, "plain")

----------------------------------------------------------------------------
(* LoadFrom.                                                               *)

\* validateGRPCEndpoint; "host:port" stands for every endpoint of that shape.
ValidGRPCEndpoint(text) == text = "host:port"

\* parseLogLevel and LOG_FORMAT; "known" stands for the values they know.
ValidLogging(text) == text = "known"

\* scopeList
ScopeList(v) == IF v.is = "unset" THEN {"mcp:tools"} ELSE Items(v)

DefaultBase == URL("https", "api.synthient.com", "path")

Loaded(env) ==
    LET request == Value(env.REQUEST_TIMEOUT_MS, 15000)
        stream == Value(env.STREAM_TIMEOUT_MS, 15000)
        operation == IF request > stream THEN request ELSE stream
        oauth == Text(env.AUTH_MODE, "api_key") = "oauth"
    IN  [hosts |-> AllowedHosts(env.ALLOWED_HOSTS),
         origins |-> {Canonical(u) : u \in Items(env.ALLOWED_ORIGINS)},
         hops |-> Value(env.TRUST_PROXY_HOPS, 0),
         cidrs |-> Items(env.TRUSTED_PROXY_CIDRS),
         cors |-> Value(env.CORS_ENABLED, "false") = "true",
         streamTimeout |-> stream,
         writeTimeout |-> Value(env.WRITE_TIMEOUT_MS, operation + 5000),
         maxConcurrent |-> Value(env.MAX_CONCURRENT_REQUESTS, 8),
         perPrincipal |-> Value(env.MAX_CONCURRENT_PER_PRINCIPAL, 2),
         oauth |-> oauth,
         resource |-> IF oauth THEN URLOf(env.MCP_RESOURCE_URL, NoURL) ELSE NoURL,
         key |-> IF oauth THEN Text(env.SYNTHIENT_API_KEY, "") ELSE "",
         scopes |-> IF oauth THEN ScopeList(env.OAUTH_REQUIRED_SCOPES) ELSE {}]

NumbersValid(env) ==
    /\ InRange(env.PORT, 1, 65535)
    /\ InRange(env.TRUST_PROXY_HOPS, 0, 10)
    /\ InRange(env.REQUEST_TIMEOUT_MS, 100, 120000)
    /\ InRange(env.STREAM_TIMEOUT_MS, 1000, 30000)
    /\ InRange(env.READ_TIMEOUT_MS, 1000, 180000)
    /\ InRange(env.WRITE_TIMEOUT_MS, 1000, 180000)
    /\ InRange(env.IDLE_TIMEOUT_MS, 1000, 300000)
    /\ InRange(env.SHUTDOWN_TIMEOUT_MS, 1000, 120000)
    /\ InRange(env.MAX_HEADER_BYTES, 8192, 1048576)
    /\ InRange(env.MAX_CONCURRENT_REQUESTS, 1, 1024)
    /\ InRange(env.MAX_CONCURRENT_PER_PRINCIPAL, 1, 1024)
    /\ InRange(env.MAX_REQUESTS_PER_MINUTE, 0, 100000)

\* METRICS_ENABLED, FORWARD_CLIENT_IP and LEGACY_TOOL_NAMES are FLAGS, LOG_LEVEL
\* and LOG_FORMAT are LOG: each must have one of its known values.
TextsValid(env) ==
    /\ ValidHost(Text(env.HOST, "127.0.0.1"))
    /\ ValidHostList(env.ALLOWED_HOSTS)
    /\ \A u \in Items(env.ALLOWED_ORIGINS) : ValidOrigin(u)
    /\ "bad" \notin Items(env.TRUSTED_PROXY_CIDRS)
    /\ IsBool(env.FLAGS) /\ IsBool(env.CORS_ENABLED)
    /\ ValidBaseURL(URLOf(env.SYNTHIENT_API_BASE_URL, DefaultBase))
    /\ ValidGRPCEndpoint(Text(env.SYNTHIENT_GRPC_ENDPOINT, "host:port"))
    /\ Text(env.AUTH_MODE, "api_key") \in {"api_key", "oauth"}
    /\ ValidLogging(Text(env.LOG, "known"))

\* "long" is a text over its limit.
BoundedKey(env) == Text(env.SYNTHIENT_API_KEY, "") \notin {"", "long"}

\* Required in oauth mode only.
OAuthValid(env) ==
    /\ BoundedKey(env)
    /\ \A v \in {env.OAUTH_ISSUER_URL, env.OAUTH_JWKS_URL, env.MCP_RESOURCE_URL} :
          ValidSecureURL(URLOf(v, NoURL))
    /\ Text(env.OAUTH_AUDIENCE, "") \notin {"", "long"}
    /\ ScopeList(env.OAUTH_REQUIRED_SCOPES) # {}
    /\ ScopeList(env.OAUTH_REQUIRED_SCOPES) \cap {"", "a b"} = {}

\* The relations between settings.
Related(c) ==
    /\ c.hops > 0 => c.cidrs # {}
    /\ c.writeTimeout > c.streamTimeout
    /\ c.perPrincipal <= c.maxConcurrent
    /\ c.cors => c.origins # {}

\* LoadFrom returns no error.
Accepted(env) ==
    /\ NumbersValid(env) /\ TextsValid(env)
    /\ Related(Loaded(env))
    /\ Loaded(env).oauth => OAuthValid(env)

----------------------------------------------------------------------------
(* What the settings are used for.                                         *)

\* http.CrossOriginProtection.AddTrustedOrigin takes a scheme and a host with
\* nothing behind them.
Trustable(u) == u.scheme # "" /\ u.host # "" /\ u.form \in {"plain", "upper"}

\* The longest deadline sample_stream grants, in seconds.
MaximumTimeout(ms) ==
    IF ms \div 1000 < 1 THEN 1 ELSE ms \div 1000
====
