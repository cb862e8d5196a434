----------------------------- MODULE AgendaRules ------------------------------
(***************************************************************************)
(* The rules of a master's day: what an appointment, an interval block and *)
(* a full-day block may share.  They are pure functions of the rows a      *)
(* handler has read; Agenda applies them to the rows as they are, Calendar *)
(* to the rows a transaction saw.                                          *)
(*                                                                         *)
(* SCHEDULED stands for every status that occupies time (SCHEDULED,        *)
(* CONFIRMED, COMPLETED, NO_SHOW); RESCHEDULED and CANCELLED do not.       *)
(***************************************************************************)
EXTENDS Naturals

CONSTANTS
    Appts,      \* appointment ids
    Blocks,     \* schedule block ids
    Masters,
    Dates,
    Intervals   \* busy intervals [from, to) of a master's day, breaks included

ASSUME IntervalsAssumption ==
    /\ Intervals # {}
    /\ \A i \in Intervals :
           i \in [master : Masters, date : Dates, from : Nat, to : Nat] /\ i.from < i.to

Statuses == {"absent", "SCHEDULED", "RESCHEDULED", "CANCELLED"}
ApptRows == [status : Statuses, iv : Intervals]
BlockRows == [kind : {"absent", "interval", "day"}, iv : Intervals]

(* Rows that do not exist; nobody looks at their interval. *)
AnInterval == CHOOSE i \in Intervals : TRUE
NoAppts == [a \in Appts |-> [status |-> "absent", iv |-> AnInterval]]
NoBlocks == [b \in Blocks |-> [kind |-> "absent", iv |-> AnInterval]]

(* isBlockingAppointmentStatus *)
Occupies(row) == row.status = "SCHEDULED"

(* A conflict is looked for among the rows of one master's day.              *)
DayOf(i) == <<i.master, i.date>>
SameDay(i, j) == DayOf(i) = DayOf(j)

(* A full-day block has a master and a date and no times: it is given the    *)
(* times of some interval of its day, which nobody looks at.                 *)
FullDay(iv) == CHOOSE i \in Intervals : SameDay(i, iv)

(* Half-open intervals: one may start at the moment the other ends. *)
Overlap(i, j) == SameDay(i, j) /\ i.from < j.to /\ j.from < i.to

(* The appointments, other than a itself, that occupy part of iv. *)
Clashes(as, a, iv) ==
    {x \in Appts \ {a} : Occupies(as[x]) /\ Overlap(as[x].iv, iv)}

DayClosed(bs, iv) == \E b \in Blocks : bs[b].kind = "day" /\ SameDay(bs[b].iv, iv)

(* Mutant: the override lifts every conflict. *)
OverrideLiftsAll(as, bs, a, iv, over) ==
    over \/ (Clashes(as, a, iv) = {} /\ ~DayClosed(bs, iv)
             /\ \A b \in Blocks : bs[b].kind = "interval" => ~Overlap(bs[b].iv, iv))

(* checkMasterIntervalAvailability as resolveAppointmentWriteConflict reads  *)
(* it: an override lifts clashes with appointments, never a block.           *)
Free(as, bs, a, iv, over) ==
    /\ ~DayClosed(bs, iv)
    /\ \A b \in Blocks : bs[b].kind = "interval" => ~Overlap(bs[b].iv, iv)
    /\ over \/ Clashes(as, a, iv) = {}

(* Mutant: a comparison that forgets the time is dirty. *)
KeepsStatus(as, a, status, iv) == Occupies(as[a]) /\ status = "SCHEDULED"

(* An edit that leaves time and occupation alone tolerates the overlaps the  *)
(* appointment already has.                                                  *)
KeepsPlace(as, a, status, iv) ==
    Occupies(as[a]) /\ status = "SCHEDULED" /\ iv = as[a].iv

(* Mutant: a cancelled appointment may be edited. *)
MayChangeCancelled(as, bs, a, status, iv, over) ==
    /\ as[a].status # "absent"
    /\ status = "SCHEDULED" =>
         Free(as, bs, a, iv, over \/ KeepsPlace(as, a, status, iv))

MayChange(as, bs, a, status, iv, over) ==
    /\ as[a].status \notin {"absent", "CANCELLED"}
    /\ status = "SCHEDULED" =>
         Free(as, bs, a, iv, over \/ KeepsPlace(as, a, status, iv))

(* assertNoAppointmentOverlap *)
MayBlock(as, iv) == \A a \in Appts : ~(Occupies(as[a]) /\ Overlap(as[a].iv, iv))

DayIsEmpty(as, iv) == \A a \in Appts : ~(Occupies(as[a]) /\ SameDay(as[a].iv, iv))

(* Mutant: a second closure is not looked for. *)
MayCloseDayAgain(as, bs, iv) == DayIsEmpty(as, iv)

(* assertNoActiveAppointmentsOnDay, and the day is not closed yet *)
MayCloseDay(as, bs, iv) == ~DayClosed(bs, iv) /\ DayIsEmpty(as, iv)

(* updateScheduleBlock leaves a block with its master.                       *)
MayMoveTo(row, iv) == row.kind # "absent" /\ iv.master = row.iv.master

(* Overlaps somebody accepted explicitly, as pairs of appointments. *)
Without(waived, a) == {p \in waived : a \notin p}

PairsOf(a, xs) == {{a, x} : x \in xs}

WaivedAfter(waived, as, a, status, iv, over) ==
    IF status # "SCHEDULED" THEN Without(waived, a)
    ELSE IF KeepsPlace(as, a, status, iv) /\ ~over THEN waived
    ELSE Without(waived, a) \cup PairsOf(a, Clashes(as, a, iv))
===============================================================================
