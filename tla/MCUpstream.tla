---- MODULE MCUpstream ----
(* Instances of Upstream for TLC. *)
EXTENDS Upstream, TLC

\* Calls are interchangeable: no action tells them apart.
Symmetry == Permutations(Calls)
====
