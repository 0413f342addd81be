------------------------- MODULE MCRolloutCompression --------------------------
(* The two forms of a rollout for TLC; processes of a kind are interchangeable. *)
EXTENDS RolloutCompression, TLC

Symmetry == Permutations(Workers) \cup Permutations(Appenders) \cup Permutations(Readers)
================================================================================
