---- MODULE MCAdmission ----
(* Admission for TLC: both modes, with and without CORS and a listed origin. *)
EXTENDS Admission, MCConfig

App == URL("https", "app", "plain")

MCEnvs ==
    {[Default EXCEPT !.ALLOWED_HOSTS = Given({"mcp"}), !.CORS_ENABLED = c,
                     !.ALLOWED_ORIGINS = o, !.AUTH_MODE = m,
                     !.SYNTHIENT_API_KEY = Given("server"),
                     !.OAUTH_ISSUER_URL = Given(URL("https", "idp", "plain")),
                     !.OAUTH_JWKS_URL = Given(URL("https", "idp", "path")),
                     !.OAUTH_AUDIENCE = Given("aud"),
                     !.MCP_RESOURCE_URL = Given(URL("https", "mcp", "path")),
                     !.OAUTH_REQUIRED_SCOPES = Given({"a", "b"})] :
        c \in {Unset, Given("true")}, o \in {Unset, Given({[App EXCEPT !.form = "slash"]})},
        m \in {Unset, Given("oauth")}}

MCOrigins ==
    {NoOrigin, NoURL, App, [App EXCEPT !.form = "upper"], [App EXCEPT !.form = "path"],
     URL("http", "app", "plain"), URL("http", "mcp:3000", "plain"),
     URL("https", "mcp:3000", "plain"), URL("http", "evil", "slash")}

MCKeyLists == {<<>>, <<"k1">>, <<"k2">>, <<" ">>, <<" a">>, <<"a,b">>, <<"k1", "k2">>}

Claim(is, value) == [is |-> is, value |-> value]
Token(sub, scope, scp) ==
    [is |-> "signed", sub |-> sub, scope |-> scope, scp |-> scp]
Both == Claim("text", {"a", "b"})
Absent == Claim("absent", {})

MCTokens ==
    {[is |-> "none"], [is |-> "forged"]}
    \cup {Token(sub, Both, Absent) : sub \in {Claim("text", x) : x \in {" ", "long", "s1"}}
                                          \cup {Claim("other", 1)}}
    \cup {Token(Claim("text", "s2"), scope, scp) :
             scope \in {Absent, Claim("array", {" a", "a b"}), Claim("other", {"a"})},
             scp \in {Absent, Claim("text", {"b"}), Claim("array", {"a", "b", " "})}}
====
