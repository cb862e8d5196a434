----------------------------- MODULE MCPublication -----------------------------
EXTENDS Publication, TLC

(* Safety runs only. *)
MCSymmetry == Permutations(Workers) \cup Permutations(Parts) \cup Permutations(Values)
================================================================================
