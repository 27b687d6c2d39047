---- MODULE AdmissionProofs ----
(***************************************************************************)
(* Theorems about Admission, for every configuration LoadFrom accepts and  *)
(* every set of Origin and Host headers, keys and tokens.                  *)
(***************************************************************************)
EXTENDS Admission, SequenceTheorems, TLAPS

\* The Origin of a request that has passed requireExactOrigin.
OriginOK ==
    \/ req.origin = NoOrigin
    \/ WellFormed(req.origin) /\ (OwnOrigin(req) \/ Listed(cfg, req.origin))

\* Its token, once oauthProtection has passed it on.
TokenOK ==
    /\ Verified(req.token) /\ cfg.scopes \subseteq Scopes(req.token)
    /\ subject = StringClaim(req.token.sub)

\* What each layer can rely on about the layers before it.
Layers ==
    /\ cfg.oauth \in BOOLEAN
    /\ at = "oauth" => cfg.oauth
    /\ at \in {"oauth", "protect", "served"} => OriginOK
    /\ at \in {"protect", "served"} => IF cfg.oauth THEN TokenOK ELSE subject = ""
    /\ at \in {"idle", "allowCORS", "crossOrigin", "exactOrigin", "oauth"} => subject = ""
    /\ at = "served" => /\ AllowedHost(cfg, req.host)
                        /\ ~cfg.oauth => ValidKeys(req.keys)
                        /\ principal = RequestPrincipal /\ apiKey = ClientKey

\* What a preflight has been granted for, and why a request can be refused.
Grants ==
    /\ granted = NoGrant \/ ( /\ WellFormed(granted[1]) /\ Listed(cfg, granted[1])
                              /\ AllowedHost(cfg, granted[2]) )
    /\ at # "idle" => req.origin \in Origins /\ req.keys \in Seq(STRING)
    /\ why = "host" => ~AllowedHost(cfg, req.host)
    /\ (why = "origin" /\ req.origin.form = "plain") =>
          ~(WellFormed(req.origin) /\ Listed(cfg, req.origin) /\ AllowedHost(cfg, req.host))
    /\ at # "refused" => why = ""

Keyed == cfg.oauth => cfg.key # ""

Inv == Layers /\ Grants /\ Keyed

----------------------------------------------------------------------------

\* In oauth mode LoadFrom accepts no environment without a key.
LEMMA LoadedKey ==
    ASSUME NEW e, Accepted(e)
    PROVE  /\ Loaded(e).oauth \in BOOLEAN
           /\ Loaded(e).oauth => Loaded(e).key # ""
<1> DEFINE mode == Text(e.AUTH_MODE, "api_key")
<1>1. /\ Loaded(e).oauth = (mode = "oauth")
      /\ Loaded(e).key = IF mode = "oauth" THEN Text(e.SYNTHIENT_API_KEY, "") ELSE ""
  BY DEF Loaded
<1>2. ASSUME Loaded(e).oauth PROVE Text(e.SYNTHIENT_API_KEY, "") # ""
  BY <1>2 DEF Accepted, OAuthValid, BoundedKey
<1> QED
  BY <1>1, <1>2

\* A list of one key is that key.
LEMMA OneKey ==
    ASSUME NEW keys \in Seq(STRING), Len(keys) = 1
    PROVE  keys = <<keys[1]>> /\ keys # <<>>
<1>1. keys = <<keys[1]>>
  OBVIOUS
<1>2. keys # <<>>
  BY EmptySeq
<1> QED
  BY <1>1, <1>2

\* A process starts with an accepted configuration and no request.
LEMMA InvInit == Init => Inv
<1> SUFFICES ASSUME Init PROVE Inv
  OBVIOUS
<1>1. PICK e \in Envs : Accepted(e) /\ cfg = Loaded(e)
  BY DEF Init
<1>2. cfg.oauth \in BOOLEAN /\ Keyed
  BY <1>1, LoadedKey DEF Keyed
<1> QED
  BY <1>2 DEF Init, Inv, Layers, Grants

\* A refusal and a hand-over to the next layer change nothing else.
LEMMA RefuseKeeps ==
    ASSUME Inv, NEW reason, Refuse(reason), at # "idle",
           reason = "host" => ~AllowedHost(cfg, req.host),
           (reason = "origin" /\ req.origin.form = "plain") =>
              ~(WellFormed(req.origin) /\ Listed(cfg, req.origin)
                /\ AllowedHost(cfg, req.host))
    PROVE  Inv'
BY DEF Inv, Layers, Grants, Keyed, Refuse, Listed, AllowedHost

\* Each layer keeps the invariant.
LEMMA InvNext == Inv /\ [Next]_vars => Inv'
<1> SUFFICES ASSUME Inv, [Next]_vars PROVE Inv'
  OBVIOUS
<1>1. CASE Receive
  <2>1. req'.origin \in Origins /\ req'.keys \in Seq(STRING)
    BY <1>1, KeysAssumption DEF Receive, Requests
  <2> QED
    BY <1>1, <2>1 DEF Receive, Inv, Layers, Grants, Keyed, Listed, AllowedHost
<1>2. CASE AllowCORS
  <2>1. CASE Pass("crossOrigin")
    BY <1>2, <2>1 DEF AllowCORS, Pass, Inv, Layers, Grants, Keyed, Listed, AllowedHost
  <2>2. CASE /\ ~(Listed(cfg, req.origin) /\ AllowedHost(cfg, req.host))
             /\ Refuse("origin")
    BY <1>2, <2>2, RefuseKeeps DEF AllowCORS
  <2>3. CASE /\ WellFormed(req.origin) /\ Listed(cfg, req.origin)
             /\ AllowedHost(cfg, req.host)
             /\ at' = "preflight" /\ granted' = <<req.origin, req.host>>
             /\ UNCHANGED <<cfg, req, why, subject, principal, apiKey>>
    BY <1>2, <2>3 DEF AllowCORS, Inv, Layers, Grants, Keyed, Listed, AllowedHost
  <2> QED
    BY <1>2, <2>1, <2>2, <2>3 DEF AllowCORS
<1>3. CASE CrossOrigin
  <2>1. CASE CrossOriginAllowed(cfg, req)
    BY <1>3, <2>1 DEF CrossOrigin, Pass, Inv, Layers, Grants, Keyed, Listed, AllowedHost
  <2>2. CASE ~CrossOriginAllowed(cfg, req)
    <3>1. req.origin.form = "plain" => ~Listed(cfg, req.origin)
      <4>1. req.origin \in Origins
        BY <1>3 DEF CrossOrigin, Inv, Grants
      <4>2. req.origin.form = "plain" => Canonical(req.origin) = req.origin
        BY <4>1, OriginsAssumption DEF Canonical, URL
      <4> QED
        BY <2>2, <4>2 DEF CrossOriginAllowed, Trusted, Listed
    <3> QED
      BY <1>3, <2>2, <3>1, RefuseKeeps DEF CrossOrigin
  <2> QED
    BY <2>1, <2>2
<1>4. CASE RequireExactOrigin
  <2>1. CASE OriginOK
    <3>1. Pass(IF cfg.oauth THEN "oauth" ELSE "protect") /\ at = "exactOrigin"
      BY <1>4, <2>1 DEF RequireExactOrigin, OriginOK
    <3> QED
      BY <2>1, <3>1 DEF Pass, Inv, Layers, Grants, Keyed, Listed, AllowedHost, OriginOK,
         OwnOrigin
  <2>2. CASE ~OriginOK
    BY <1>4, <2>2, RefuseKeeps DEF RequireExactOrigin, OriginOK
  <2> QED
    BY <2>1, <2>2
<1>5. CASE OAuthProtection
  <2>1. ASSUME NEW reason \in {"token", "scope"}, Refuse(reason) PROVE Inv'
    BY <1>5, <2>1, RefuseKeeps DEF OAuthProtection
  <2>2. CASE /\ Verified(req.token) /\ cfg.scopes \subseteq Scopes(req.token)
             /\ at' = "protect" /\ subject' = StringClaim(req.token.sub)
             /\ UNCHANGED <<cfg, req, why, principal, apiKey, granted>>
    BY <1>5, <2>2 DEF OAuthProtection, Inv, Layers, Grants, Keyed, Listed, AllowedHost,
       OriginOK, OwnOrigin, TokenOK
  <2> QED
    BY <1>5, <2>1, <2>2 DEF OAuthProtection
<1>6. CASE ProtectMCP
  <2>1. ASSUME NEW reason \in {"key", "principal"}, Refuse(reason) PROVE Inv'
    BY <1>6, <2>1, RefuseKeeps DEF ProtectMCP
  <2>2. CASE ~AllowedHost(cfg, req.host) /\ Refuse("host")
    BY <1>6, <2>2, RefuseKeeps DEF ProtectMCP
  <2>3. CASE /\ AllowedHost(cfg, req.host) /\ (~cfg.oauth => ValidKeys(req.keys))
             /\ at' = "served" /\ principal' = RequestPrincipal /\ apiKey' = ClientKey
             /\ UNCHANGED <<cfg, req, why, subject, granted>>
    BY <1>6, <2>3 DEF ProtectMCP, Inv, Layers, Grants, Keyed, Listed, AllowedHost,
       OriginOK, OwnOrigin, TokenOK, RequestPrincipal, ClientKey, ForwardedKey
  <2> QED
    BY <1>6, <2>1, <2>2, <2>3 DEF ProtectMCP, Inv, Layers
<1>7. CASE Done
  BY <1>7 DEF Done, Inv, Layers, Grants, Keyed, Listed, AllowedHost
<1>8. CASE UNCHANGED vars
  BY <1>8 DEF vars, Inv, Layers, Grants, Keyed, Listed, AllowedHost, OriginOK, OwnOrigin,
     TokenOK, RequestPrincipal, ClientKey, ForwardedKey
<1> QED
  BY <1>1, <1>2, <1>3, <1>4, <1>5, <1>6, <1>7, <1>8 DEF Next

\* The invariant holds in every process that has started.
LEMMA InvHolds == Spec => []Inv
<1>1. Init => Inv
  BY InvInit
<1> QED
  BY <1>1, InvNext, PTL DEF Spec

----------------------------------------------------------------------------

\* No page of another site reaches the MCP handler, whatever it puts into its
\* headers.
THEOREM OriginHolds == Spec => []OriginAdmitted
<1>1. Inv => OriginAdmitted
  BY DEF Inv, Layers, OriginOK, OriginAdmitted, Listed, OwnOrigin, AllowedHost
<1> QED
  BY <1>1, InvHolds, PTL

\* A preflight that was granted is kept by every layer behind allowCORS.
THEOREM PreflightHolds == Spec => []PreflightTruthful
<1>1. Inv => PreflightTruthful
  <2> SUFFICES ASSUME Inv, why \in {"origin", "host"}, req.origin.form = "plain",
                      granted = <<req.origin, req.host>>
               PROVE  FALSE
    BY DEF PreflightTruthful
  <2>1. granted # NoGrant
    <3>1. NoGrant[1].form = "none"
      BY DEF NoGrant, NoOrigin, URL
    <3>2. granted[1].form = "plain"
      OBVIOUS
    <3> QED
      BY <3>1, <3>2
  <2>2. WellFormed(req.origin) /\ Listed(cfg, req.origin) /\ AllowedHost(cfg, req.host)
    BY <2>1 DEF Inv, Grants
  <2> QED
    BY <2>2 DEF Inv, Grants
<1> QED
  BY <1>1, InvHolds, PTL

\* The credentials of the two modes never mix.
THEOREM CredentialsHold == Spec => []CredentialsSeparate
<1>1. Inv => CredentialsSeparate
  <2> SUFFICES ASSUME Inv, at = "served" PROVE CredentialsSeparate
    BY DEF CredentialsSeparate
  <2>1. principal = RequestPrincipal /\ apiKey = ClientKey
    BY DEF Inv, Layers
  <2>2. CASE cfg.oauth
    <3>1. subject = StringClaim(req.token.sub) /\ subject # ""
      BY <2>2 DEF Inv, Layers, TokenOK, Verified
    <3> QED
      BY <2>1, <2>2, <3>1 DEF Inv, Keyed, RequestPrincipal, ClientKey, CredentialsSeparate
  <2>3. CASE ~cfg.oauth
    <3>1. subject = "" /\ Len(req.keys) = 1 /\ req.keys[1] # ""
      BY <2>3 DEF Inv, Layers, ValidKeys
    <3>2. req.keys \in Seq(STRING)
      BY DEF Inv, Grants
    <3>3. req.keys = <<req.keys[1]>> /\ req.keys # <<>>
      BY <3>1, <3>2, OneKey
    <3>4. ForwardedKey = req.keys[1]
      BY <2>3, <3>3 DEF ForwardedKey
    <3> QED
      BY <2>1, <2>3, <3>1, <3>3, <3>4 DEF RequestPrincipal, ClientKey, CredentialsSeparate
  <2> QED
    BY <2>2, <2>3 DEF Inv, Layers
<1> QED
  BY <1>1, InvHolds, PTL

\* In oauth mode a request is served only for a subject that was granted every
\* scope the configuration demands.
THEOREM TokenHolds == Spec => []TokenSufficient
<1>1. Inv => TokenSufficient
  <2> SUFFICES ASSUME Inv, at = "served", cfg.oauth PROVE TokenSufficient
    BY DEF TokenSufficient
  <2>1. /\ req.token.is = "signed" /\ subject \notin {"", "long"}
        /\ cfg.scopes \subseteq Scopes(req.token)
    BY DEF Inv, Layers, TokenOK, Verified
  <2>2. principal[2] = subject
    <3>1. principal = <<"oauth", subject>>
      BY <2>1 DEF Inv, Layers, RequestPrincipal
    <3> QED
      BY <3>1
  <2>3. ASSUME NEW s \in cfg.scopes
        PROVE  \E claim \in {req.token.scope, req.token.scp} :
                  /\ claim.is \in {"text", "array"}
                  /\ \E x \in claim.value : Trimmed(x) = s
    BY <2>1, <2>3 DEF Scopes, ScopeClaim
  <2> QED
    BY <2>1, <2>2, <2>3 DEF TokenSufficient
<1> QED
  BY <1>1, InvHolds, PTL
====
