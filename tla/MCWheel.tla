-------------------------------- MODULE MCWheel -------------------------------
EXTENDS Wheel, TLC

(* Safety runs only. *)
MCSymmetry ==
    Permutations(Workers) \cup Permutations(Phones) \cup Permutations(Keys) \cup Permutations(Sessions)
    \cup Permutations(Browsers) \cup Permutations(Attempts)
===============================================================================
