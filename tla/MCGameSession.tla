---------------------------- MODULE MCGameSession -----------------------------
EXTENDS GameSession, TLC

(* Safety runs only. *)
MCSymmetry == Permutations(Workers) \cup Permutations(Keys) \cup Permutations(Sessions)
===============================================================================
