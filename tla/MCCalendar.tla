------------------------------ MODULE MCCalendar ------------------------------
(* Two overlapping intervals of one day of a master, and the next day. *)
EXTENDS Calendar, TLC

CONSTANTS m1, mon, tue

MCIntervals ==
    {[master |-> m1, date |-> mon, from |-> 0, to |-> 2],
     [master |-> m1, date |-> mon, from |-> 1, to |-> 3],
     [master |-> m1, date |-> tue, from |-> 0, to |-> 2]}

(* Safety runs only: no liveness property is checked under it. *)
MCSymmetry == Permutations(Workers) \cup Permutations(Appts)
===============================================================================
