--------------------------- MODULE MCLimiterStore ---------------------------
EXTENDS LimiterStore, TLC

(* Any two keys, and any two requests, are alike. *)
Alike == Permutations(Keys) \cup Permutations(Callers)
=============================================================================
