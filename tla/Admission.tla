---- MODULE Admission ----
(***************************************************************************)
(* Who may use the MCP endpoint: the layers newHandler wraps around it     *)
(* that look at a request and at nothing else (internal/httpserver,        *)
(* server.go and oauth.go), in the order in which it wraps them: allowCORS *)
(* when enabled, http.CrossOriginProtection, requireExactOrigin, the       *)
(* bearer token in oauth mode, protectMCP, and then the principal and the  *)
(* Synthient key the request is served with.  The layers that count and    *)
(* wait are in Gateway; the settings come from Config.                     *)
(*                                                                         *)
(* The process serves plain HTTP (main.go), so request.TLS is always nil   *)
(* and the server's own origin has scheme http.                            *)
(***************************************************************************)
EXTENDS Config, Sequences

CONSTANTS
    Envs,       \* the environments the process may have started with
    Origins,    \* Origin headers, NoOrigin when there is none
    Hosts,      \* Host headers
    KeyLists,   \* values of X-API-Key, in order
    Tokens      \* what the Authorization header holds

ASSUME OriginsAssumption ==
    \A u \in Origins : u = URL(u.scheme, u.host, u.form)
ASSUME KeysAssumption == \A keys \in KeyLists : keys \in Seq(STRING)

VARIABLES
    cfg,        \* the configuration
    req,        \* the request in progress
    at,         \* the layer it has reached, or how it ended
    why,        \* what it was refused for
    subject,    \* TokenInfo.UserID in the request's context
    principal,  \* requestPrincipal
    apiKey,     \* the key of the Synthient client that serves it
    granted     \* the preflight a browser remembers: an origin and a host

vars == <<cfg, req, at, why, subject, principal, apiKey, granted>>

NoOrigin == URL("", "", "none")
NoGrant == <<NoOrigin, "">>
Nobody == <<"", "">>

Requests == [method : {"GET", "POST", "OPTIONS"}, origin : Origins,
             site : {"", "same-origin", "cross-site"}, host : Hosts,
             keys : KeyLists, token : Tokens]
NoRequest == [method |-> "", origin |-> NoOrigin, site |-> "", host |-> "",
              keys |-> <<>>, token |-> [is |-> "none"]]

Init ==
    /\ \E e \in Envs : Accepted(e) /\ cfg = Loaded(e)
    /\ req = NoRequest /\ at = "idle" /\ why = ""
    /\ subject = "" /\ principal = Nobody /\ apiKey = ""
    /\ granted = NoGrant

----------------------------------------------------------------------------
(* Origins and hosts.                                                      *)

\* allowedRequestHost: the port is stripped.  Hosts are in lower case here.
HostName(h) == IF h = "mcp:3000" THEN "mcp" ELSE h
AllowedHost(c, h) == HostName(h) \in c.hosts

\* canonicalOriginHeader, and the same test in requireExactOrigin; the scheme
\* may be any.
WellFormed(u) == u.host # "" /\ u.form \in OriginForms

Listed(c, u) == Canonical(u) \in c.origins

\* The host alone is compared, not the scheme.
OwnOriginHost(r) == Canonical(r.origin) = URL(r.origin.scheme, r.host, "plain")

\* The canonical form of the Origin header is the request's own origin.
OwnOrigin(r) == Canonical(r.origin) = URL("http", r.host, "plain")

\* The listed origins are never registered.
TrustedNone(c) == {}

\* newHandler: AddTrustedOrigin for each listed origin.
Trusted(c) == c.origins

\* http.CrossOriginProtection compares the header as it is sent.
CrossOriginAllowed(c, r) ==
    \/ r.method \in {"GET", "HEAD", "OPTIONS"}
    \/ r.site \in {"same-origin", "none"}
    \/ r.site = "" /\ r.origin = NoOrigin
    \/ r.site = "" /\ r.origin.host = r.host /\ r.origin.form # "upper"
    \/ r.origin \in Trusted(c)

----------------------------------------------------------------------------
(* Bearer tokens.                                                          *)

Trimmed(text) == IF text = " a" THEN "a" ELSE IF text = " " THEN "" ELSE text

\* stringClaim: anything but a JSON string counts as empty.
StringClaim(claim) == IF claim.is = "text" THEN Trimmed(claim.value) ELSE ""

\* scopeClaim and uniqueStrings: a text of scopes or an array of them.
ScopeClaim(claim) ==
    IF claim.is \in {"text", "array"}
    THEN {Trimmed(s) : s \in claim.value} \ {""} ELSE {}

\* The verifier without its test of the subject.
VerifiedLoosely(t) == t.is = "signed"

\* oidcTokenVerifier; signature, issuer, audience and expiry are go-oidc's.
Verified(t) ==
    t.is = "signed" /\ StringClaim(t.sub) \notin {"", "long"}

Scopes(t) == ScopeClaim(t.scope) \cup ScopeClaim(t.scp)

----------------------------------------------------------------------------
(* The layers.                                                             *)

Refuse(reason) ==
    /\ at' = "refused" /\ why' = reason
    /\ UNCHANGED <<cfg, req, subject, principal, apiKey, granted>>

Pass(next) ==
    /\ at' = next
    /\ UNCHANGED <<cfg, req, why, subject, principal, apiKey, granted>>

\* A request enters the outermost layer.
Receive ==
    /\ at = "idle"
    /\ req' \in Requests
    /\ at' = IF cfg.cors THEN "allowCORS" ELSE "crossOrigin"
    /\ UNCHANGED <<cfg, why, subject, principal, apiKey, granted>>

\* An Origin that does not parse is left to the layers behind.
AllowCORS ==
    /\ at = "allowCORS"
    /\ \/ ~WellFormed(req.origin) /\ Pass("crossOrigin")
       \/ /\ WellFormed(req.origin)
          /\ ~(Listed(cfg, req.origin) /\ AllowedHost(cfg, req.host))
          /\ Refuse("origin")
       \/ /\ WellFormed(req.origin)
          /\ Listed(cfg, req.origin) /\ AllowedHost(cfg, req.host)
          /\ IF req.method = "OPTIONS"
             THEN /\ at' = "preflight"
                  /\ granted' = <<req.origin, req.host>>
                  /\ UNCHANGED <<cfg, req, why, subject, principal, apiKey>>
             ELSE Pass("crossOrigin")

CrossOrigin ==
    /\ at = "crossOrigin"
    /\ IF CrossOriginAllowed(cfg, req) THEN Pass("exactOrigin")
       ELSE Refuse("origin")

RequireExactOrigin ==
    /\ at = "exactOrigin"
    /\ IF \/ req.origin = NoOrigin
          \/ WellFormed(req.origin) /\ (OwnOrigin(req) \/ Listed(cfg, req.origin))
       THEN Pass(IF cfg.oauth THEN "oauth" ELSE "protect")
       ELSE Refuse("origin")

\* auth.RequireBearerToken around oidcTokenVerifier.
OAuthProtection ==
    /\ at = "oauth"
    /\ IF ~Verified(req.token) THEN Refuse("token")
       ELSE IF ~(cfg.scopes \subseteq Scopes(req.token)) THEN Refuse("scope")
       ELSE /\ at' = "protect"
            /\ subject' = StringClaim(req.token.sub)
            /\ UNCHANGED <<cfg, req, why, principal, apiKey, granted>>

\* One bounded value without surrounding white space or commas; in oauth mode
\* the header is deleted.
ValidKeys(keys) ==
    Len(keys) = 1 /\ keys[1] \notin {"", " ", " a", "a,b", "long"}
ForwardedKey == IF cfg.oauth \/ req.keys = <<>> THEN "" ELSE req.keys[1]

\* requestPrincipal; the hash of the key stands for the key.
RequestPrincipal ==
    IF subject # "" THEN <<"oauth", subject>>
    ELSE IF ForwardedKey # "" THEN <<"api-key", ForwardedKey>> ELSE Nobody

\* The Synthient client always gets the caller's key.
ClientKeyForwarded == ForwardedKey

ClientKey == IF cfg.oauth THEN cfg.key ELSE ForwardedKey

\* protectMCP, and the handlers behind it.
ProtectMCP ==
    /\ at = "protect"
    /\ IF ~AllowedHost(cfg, req.host) THEN Refuse("host")
       ELSE IF ~cfg.oauth /\ ~ValidKeys(req.keys) THEN Refuse("key")
       ELSE IF RequestPrincipal = Nobody THEN Refuse("principal")
       ELSE /\ at' = "served"
            /\ principal' = RequestPrincipal
            /\ apiKey' = ClientKey
            /\ UNCHANGED <<cfg, req, why, subject, granted>>

\* The request is answered.
Done ==
    /\ at \in {"refused", "preflight", "served"}
    /\ req' = NoRequest /\ at' = "idle" /\ why' = ""
    /\ subject' = "" /\ principal' = Nobody /\ apiKey' = ""
    /\ UNCHANGED <<cfg, granted>>

Next ==
    \/ Receive \/ AllowCORS \/ CrossOrigin \/ RequireExactOrigin
    \/ OAuthProtection \/ ProtectMCP \/ Done

Spec == Init /\ [][Next]_vars

----------------------------------------------------------------------------

\* No page of another site reaches the MCP handler: a request that is served
\* and carries an Origin comes from a listed one or, under a Host that is
\* allowed, from the server's own.
OriginAdmitted ==
    (at = "served" /\ req.origin # NoOrigin) =>
        /\ WellFormed(req.origin)
        /\ \/ Canonical(req.origin) \in cfg.origins
           \/ /\ Canonical(req.origin) = URL("http", req.host, "plain")
              /\ HostName(req.host) \in cfg.hosts

\* A preflight promises what the other layers keep: once it has been granted to
\* an origin, written as browsers write it, no later request of that origin to
\* that host is refused because of either.
PreflightTruthful ==
    (why \in {"origin", "host"} /\ req.origin.form = "plain") =>
        granted # <<req.origin, req.host>>

\* The credentials of the two modes never mix: with a token the request is
\* accounted to its subject and served with the server's own key, whatever key
\* the caller sent; without, both come from the one key the caller sent.
CredentialsSeparate ==
    at = "served" =>
        IF cfg.oauth
        THEN /\ principal = <<"oauth", StringClaim(req.token.sub)>>
             /\ apiKey = cfg.key /\ apiKey # ""
        ELSE /\ principal = <<"api-key", apiKey>>
             /\ req.keys = <<apiKey>>

\* In oauth mode a request is served only for a subject, and with every scope
\* the configuration demands, each of them in one of the two claims that may
\* carry it, a text or an array.
TokenSufficient ==
    (at = "served" /\ cfg.oauth) =>
        /\ req.token.is = "signed"
        /\ principal[2] \notin {"", "long"}
        /\ \A s \in cfg.scopes :
              \E claim \in {req.token.scope, req.token.scp} :
                 /\ claim.is \in {"text", "array"}
                 /\ \E x \in claim.value : Trimmed(x) = s

\* README: "same-origin requests remain allowed", next to ALLOWED_ORIGINS.
SameOriginAllowed ==
    (why = "origin" /\ req.site # "cross-site" /\ AllowedHost(cfg, req.host)) =>
        req.origin # URL("http", req.host, "plain")
====
