---------------------------- MODULE MCSessionsClaims ----------------------------
(* Instances of SessionsClaims for TLC. *)
EXTENDS SessionsClaims, TLC

\* Token and request ids are interchangeable.
Symmetry == Permutations(Jtis) \cup Permutations(Procs)

RouteOperations == {"login", "refresh", "logout"}
=============================================================================
