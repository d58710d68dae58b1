---- MODULE MCRateLimiter ----
(* Threads are interchangeable. *)
EXTENDS RateLimiter, TLC

Symmetry == Permutations(Threads)

====
