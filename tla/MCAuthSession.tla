---------------------------- MODULE MCAuthSession ----------------------------
(* Users, clients and requests are told apart by nothing.                  *)
EXTENDS AuthSession, TLC

Symmetry == Permutations(Users) \cup Permutations(Clients) \cup Permutations(Requests)
=============================================================================
