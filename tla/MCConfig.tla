---- MODULE MCConfig ----
(* Environments for TLC: the variables LoadFrom looks up, and none of them set. *)
EXTENDS Config

Names == {"HOST", "PORT", "ALLOWED_HOSTS", "ALLOWED_ORIGINS", "TRUST_PROXY_HOPS",
          "TRUSTED_PROXY_CIDRS", "REQUEST_TIMEOUT_MS", "STREAM_TIMEOUT_MS",
          "READ_TIMEOUT_MS", "WRITE_TIMEOUT_MS", "IDLE_TIMEOUT_MS",
          "SHUTDOWN_TIMEOUT_MS", "MAX_HEADER_BYTES", "MAX_CONCURRENT_REQUESTS",
          "MAX_CONCURRENT_PER_PRINCIPAL", "MAX_REQUESTS_PER_MINUTE", "FLAGS",
          "CORS_ENABLED", "SYNTHIENT_API_BASE_URL", "SYNTHIENT_GRPC_ENDPOINT",
          "AUTH_MODE", "SYNTHIENT_API_KEY", "OAUTH_ISSUER_URL", "OAUTH_JWKS_URL",
          "OAUTH_AUDIENCE", "MCP_RESOURCE_URL", "OAUTH_REQUIRED_SCOPES", "LOG"}

Default == [n \in Names |-> Unset]

Maybe(S) == {Unset} \cup {Given(x) : x \in S}
====
