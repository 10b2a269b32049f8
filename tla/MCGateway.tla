----------------------------- MODULE MCGateway -----------------------------
(* Small instances of Gateway for TLC.                                     *)
EXTENDS Gateway

CONSTANTS u1, q1, q2, q3, c1, c2

PermuteRequests == Permutations(Requests)
=============================================================================
