---- MODULE MCTools ----
(* Tools for TLC: inputs at the edges of what the handlers accept. *)
EXTENDS Tools

\* The default.
MCDefaultBase == {Path(<<"api", "v4">>)}

\* The default, a host without a path and two paths that are not clean, at
\* which every call is refused.
MCBases ==
    {Path(<<"api", "v4">>), <<>>, Path(<<"api", "", "v4">>),
     <<Name("api"), <<"", "", "">>, Name("v4")>>}

\* "", ".", "..", "...", ".a", "a..b", "example.com", "example.com.", and labels
\* that are refused.
MCDomainTexts ==
    {<<"">>, <<"", "">>, <<"", "", "">>, <<"", "", "", "">>, <<"", "a">>, <<"a", "", "b">>,
     <<"example", "com">>, <<"example", "com", "">>, <<"-x", "com">>, <<"a_b">>, <<"long">>}

\* Addresses of each kind, with a zone, and "..".
MCIPTexts ==
    {Name("v4"), Name("v6"), Name("mapped"), Name("zoned"), <<"", "", "">>}

\* The days and hours that are accepted and their neighbours, with ".." in
\* either place.
MCDateTexts ==
    LET dots == <<"", "", "">>
    IN  {<<Name("latest")>>, <<Name("day")>>, <<dots>>, <<dots, Name("account")>>,
         <<Name("latest"), Name("5")>>, <<Name("day"), dots>>}
        \cup {<<Name("day"), Name(hour)>> : hour \in {"", "0", "05", "5", "23", "24", "5/6"}}
====
