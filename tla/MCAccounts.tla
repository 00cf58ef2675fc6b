---------------------------- MODULE MCAccounts ----------------------------
(* Instances of Accounts for TLC. *)
EXTENDS Accounts, TLC

\* Requests, ids and usernames are interchangeable: any name may be seeded.
Symmetry == Permutations(Requests) \cup Permutations(UserIds)
              \cup Permutations(ServerIds) \cup Permutations(Names)
=============================================================================
