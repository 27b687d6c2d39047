---- MODULE MCRateLimiter ----
(* Instances of RateLimiter for TLC. *)
EXTENDS RateLimiter, TLC

\* Requests and principals are interchangeable: no action tells them apart.
Symmetry == Permutations(Requests) \cup Permutations(Principals)
====
