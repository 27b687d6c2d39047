SPECIFICATION Spec
CONSTANTS
    Envs <- MCEnvs
    Origins <- MCOrigins
    Hosts = {"mcp", "mcp:3000", "evil"}
    KeyLists <- MCKeyLists
    Tokens <- MCTokens
INVARIANTS
    SameOriginAllowed
