---------------------------- MODULE MCLifecycle ----------------------------
(* Instances of Lifecycle for TLC. *)
EXTENDS LifecycleClaims, TLC

\* Requests, server ids and container ids are interchangeable: nothing orders
\* them or singles one out.  Only for runs without liveness.
Symmetry == Permutations(Requests) \cup Permutations(ServerIds)
              \cup Permutations(ContainerIds)
=============================================================================
