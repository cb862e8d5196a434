------------------------------- MODULE MCAgenda -------------------------------
(* A day with two intervals that overlap and one that meets the first, the   *)
(* same master's next day, and a day of another master.                      *)
EXTENDS Agenda

CONSTANTS m1, m2, mon, tue

MCIntervals ==
    {[master |-> m1, date |-> mon, from |-> 0, to |-> 2],
     [master |-> m1, date |-> mon, from |-> 1, to |-> 3],
     [master |-> m1, date |-> mon, from |-> 2, to |-> 4],
     [master |-> m1, date |-> tue, from |-> 0, to |-> 2],
     [master |-> m2, date |-> mon, from |-> 0, to |-> 2]}
===============================================================================
