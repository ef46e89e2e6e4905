---------------------------- MODULE MCRateLimiter ----------------------------
(* RateLimiter on small buckets, for TLC. *)
EXTENDS RateLimiter, TLC

\* A "sensitive" bucket of two tokens of two ticks each, and a "general" one of
\* two tokens of one tick.
MCCapacity == [t \in Tier |-> IF t = "sensitive" THEN 4 ELSE 2]
MCTokenTime == [t \in Tier |-> IF t = "sensitive" THEN 2 ELSE 1]

Symmetry == Permutations(Request)
=============================================================================
