---- MODULE MCLifecycle ----
(* Lifecycle under environments that vary one section of the configuration *)
(* at a time, each at the edges of its ranges.                             *)
EXTENDS Lifecycle, MCConfig

Timeouts ==
    {[Default EXCEPT !.REQUEST_TIMEOUT_MS = r, !.STREAM_TIMEOUT_MS = s,
                     !.READ_TIMEOUT_MS = i, !.WRITE_TIMEOUT_MS = w] :
        r \in Maybe({99, 120000}), s \in Maybe({999, 1000, 30000}),
        i \in Maybe({1000}), w \in Maybe({15000, 15001, 30000, 180001})}

Limits ==
    {[Default EXCEPT !.MAX_CONCURRENT_REQUESTS = g,
                     !.MAX_CONCURRENT_PER_PRINCIPAL = p] :
        g \in Maybe({0, 1, 2, 1024}), p \in Maybe({1, 9, 1025})}

Origins ==
    {[Default EXCEPT !.ALLOWED_ORIGINS = o, !.CORS_ENABLED = c] :
        o \in {Unset, Blank}
              \cup {Given({URL(s, "app", f)}) :
                       s \in {"http", "https", "ftp"},
                       f \in {"plain", "upper", "slash", "path", "query"}},
        c \in {Blank, Given("true"), Given("maybe")}}

Hosts ==
    {[Default EXCEPT !.HOST = h, !.ALLOWED_HOSTS = a, !.TRUST_PROXY_HOPS = t,
                     !.TRUSTED_PROXY_CIDRS = p] :
        h \in {Unset, Blank}, a \in {Unset, Blank, Given({"mcp", ""}), Given({"a b"})},
        t \in Maybe({0, 1, 11}), p \in {Unset, Given({"net"}), Given({"net", "bad"})}}

OAuth ==
    {[Default EXCEPT !.AUTH_MODE = Given("oauth"), !.SYNTHIENT_API_KEY = k,
                     !.OAUTH_ISSUER_URL = Given(URL("https", "idp", "slash")),
                     !.OAUTH_JWKS_URL = Given(URL("http", "localhost", "path")),
                     !.OAUTH_AUDIENCE = Given("aud"), !.MCP_RESOURCE_URL = r,
                     !.OAUTH_REQUIRED_SCOPES = s] :
        k \in {Unset, Given("key"), Given("long")},
        r \in {Unset} \cup {Given(URL(h, "mcp", f)) :
                              h \in {"http", "https"},
                              f \in {"path", "braces", "escaped", "query"}},
        s \in {Unset, Blank, Given({"a"}), Given({"a", ""})}}

Others ==
    {[Default EXCEPT !.SYNTHIENT_API_BASE_URL = b, !.SYNTHIENT_API_KEY = k,
                     !.AUTH_MODE = m] :
        b \in {Unset, Blank} \cup {Given(URL(s, h, f)) :
                 s \in {"http", "https"}, h \in {"api", "127.0.0.1"},
                 f \in {"plain", "dotted", "escaped", "fragment"}},
        k \in {Unset, Given("key")}, m \in {Unset, Blank}}

MCEnvs == Timeouts \cup Limits \cup Origins \cup Hosts \cup OAuth \cup Others
====
