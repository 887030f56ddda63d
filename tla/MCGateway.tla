------------------------------ MODULE MCGateway ------------------------------
(***************************************************************************)
(* An instance of Gateway for TLC: one client, two requests, time for a    *)
(* capability to expire twice and for an expiry to saturate.               *)
(* Requests, captcha tokens and clients are interchangeable.               *)
(***************************************************************************)
EXTENDS Gateway, TLC

Symmetry ==
  Permutations(Task) \cup Permutations(Solution) \cup Permutations(Client)
=============================================================================
