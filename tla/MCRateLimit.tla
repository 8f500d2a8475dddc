----------------------------- MODULE MCRateLimit -----------------------------
(* Callers and keys are interchangeable.                                   *)
EXTENDS RateLimit, TLC

MCSymmetry == Permutations(Caller) \cup Permutations(Key)
=============================================================================
