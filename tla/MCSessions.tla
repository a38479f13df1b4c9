------------------------------- MODULE MCSessions -------------------------------
(* Instances of SessionsHistory for TLC. *)
EXTENDS SessionsHistory, TLC

\* Token, family and request ids are interchangeable.
Symmetry == Permutations(Jtis) \cup Permutations(Families) \cup Permutations(Procs)

\* The operations that routes call, and the service's whole interface.
RouteOperations == {"login", "refresh", "logout"}
AllOperations == RouteOperations \cup {"revoke_session"}
=============================================================================
