---- MODULE MCGateway ----
(* Instances of Gateway for TLC. *)
EXTENDS Gateway, TLC

\* Requests that are no scrapes, and principals, are interchangeable: no action
\* tells them apart.
Symmetry == Permutations(Requests \ Scrapers) \cup Permutations(Principals)
====
