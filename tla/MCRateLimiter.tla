---------------------------- MODULE MCRateLimiter ----------------------------
(***************************************************************************)
(* Instances of RateLimiter for TLC.                                       *)
(***************************************************************************)
EXTENDS RateLimiter, TLC

\* Addresses and requests are interchangeable.
Symmetry == Permutations(IP) \cup Permutations(Request)
=============================================================================
