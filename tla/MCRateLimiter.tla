---------------------------- MODULE MCRateLimiter ----------------------------
(***************************************************************************)
(* A small instance of RateLimiter for TLC: three clients of which one may *)
(* be tracked past a clean-up; a window that holds three bursts, and two   *)
(* admitted requests.                                                      *)
(***************************************************************************)
EXTENDS RateLimiter, TLC

CONSTANTS c1, c2, c3

Symmetry == Permutations({c1, c2, c3})
=============================================================================
