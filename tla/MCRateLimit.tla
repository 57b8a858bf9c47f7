----------------------------- MODULE MCRateLimit -----------------------------
(***************************************************************************)
(* A small instance of RateLimit: four interchangeable requests, with a    *)
(* limit of two, around one change of the minute.                          *)
(***************************************************************************)
EXTENDS RateLimit, TLC

CONSTANTS r1, r2, r3, r4

FourRequests == {r1, r2, r3, r4}
RequestSymmetry == Permutations(FourRequests)

=============================================================================
