-------------------------------- MODULE Agenda --------------------------------
(***************************************************************************)
(* What the appointment and schedule services promise about the masters'   *)
(* days, had every operation been atomic: each handler's check and its     *)
(* write are one step on the rows as they are.  Calendar shows which of    *)
(* the handlers really behave like this under concurrency.                 *)
(***************************************************************************)
EXTENDS AgendaRules

VARIABLES
    appts,      \* [Appts -> ApptRows]
    blocks,     \* [Blocks -> BlockRows]
    waived      \* pairs of appointments whose overlap was accepted explicitly

vars == <<appts, blocks, waived>>

TypeOK ==
    /\ appts \in [Appts -> ApptRows]
    /\ blocks \in [Blocks -> BlockRows]
    /\ waived \subseteq SUBSET Appts

Init ==
    /\ appts = NoAppts
    /\ blocks = NoBlocks
    /\ waived = {}

(* createAppointment, createOnlineAppointment, createBotOnlineAppointment; a  *)
(* manager names the status, and the place is checked whatever it is.         *)
Book(a, status, iv, over) ==
    /\ appts[a].status = "absent"
    /\ Free(appts, blocks, a, iv, over)
    /\ appts' = [appts EXCEPT ![a] = [status |-> status, iv |-> iv]]
    /\ waived' = WaivedAfter(waived, appts, a, status, iv, over)
    /\ UNCHANGED blocks

(* updateAppointment *)
Change(a, status, iv, over) ==
    /\ MayChange(appts, blocks, a, status, iv, over)
    /\ appts' = [appts EXCEPT ![a] = [status |-> status, iv |-> iv]]
    /\ waived' = WaivedAfter(waived, appts, a, status, iv, over)
    /\ UNCHANGED blocks

(* createScheduleBlockWithDb, interval *)
Close(b, iv) ==
    /\ blocks[b].kind = "absent"
    /\ MayBlock(appts, iv)
    /\ blocks' = [blocks EXCEPT ![b] = [kind |-> "interval", iv |-> iv]]
    /\ UNCHANGED <<appts, waived>>

(* createScheduleBlockWithDb, full day *)
CloseDay(b, iv) ==
    /\ blocks[b].kind = "absent"
    /\ MayCloseDay(appts, blocks, iv)
    /\ blocks' = [blocks EXCEPT ![b] = [kind |-> "day", iv |-> FullDay(iv)]]
    /\ UNCHANGED <<appts, waived>>

(* updateScheduleBlock; a full-day block with isFullDay: false in the request *)
MoveBlock(b, iv) ==
    /\ MayMoveTo(blocks[b], iv)
    /\ MayBlock(appts, iv)
    /\ blocks' = [blocks EXCEPT ![b] = [kind |-> "interval", iv |-> iv]]
    /\ UNCHANGED <<appts, waived>>

(* deleteScheduleBlock, deleteOwnedMasterScheduleBlock *)
Drop(b) ==
    /\ blocks[b].kind # "absent"
    /\ blocks' = [blocks EXCEPT ![b].kind = "absent"]
    /\ UNCHANGED <<appts, waived>>

(* cancelAppointment, cancelAppointmentByManageToken *)
Cancel(a) ==
    /\ appts[a].status \notin {"absent", "CANCELLED"}
    /\ appts' = [appts EXCEPT ![a].status = "CANCELLED"]
    /\ waived' = Without(waived, a)
    /\ UNCHANGED blocks

(* Mutant: a status the enum does not have. *)
RescheduleToRequested(a) ==
    /\ appts[a].status \in {"SCHEDULED", "RESCHEDULED"}
    /\ appts' = [appts EXCEPT ![a].status = "RESCHEDULE_REQUESTED"]
    /\ waived' = Without(waived, a)
    /\ UNCHANGED blocks

(* requestRescheduleByManageToken *)
Reschedule(a) ==
    /\ appts[a].status \in {"SCHEDULED", "RESCHEDULED"}
    /\ appts' = [appts EXCEPT ![a].status = "RESCHEDULED"]
    /\ waived' = Without(waived, a)
    /\ UNCHANGED blocks

Next ==
    \/ \E a \in Appts :
         \/ \E status \in Statuses \ {"absent"}, iv \in Intervals, over \in BOOLEAN :
              Book(a, status, iv, over) \/ Change(a, status, iv, over)
         \/ Cancel(a)
         \/ Reschedule(a)
    \/ \E b \in Blocks :
         \/ \E iv \in Intervals : Close(b, iv) \/ CloseDay(b, iv) \/ MoveBlock(b, iv)
         \/ Drop(b)

Spec == Init /\ [][Next]_vars

-------------------------------------------------------------------------------
(* Properties *)

(* Two appointments of the master occupy the same time only if somebody      *)
(* accepted exactly that overlap (allowAppointmentOverlap); moving, editing, *)
(* reviving or cancelling either of them never leaves an unaccepted one.     *)
NoUnwaivedOverlap ==
    \A a, x \in Appts :
        a # x /\ Occupies(appts[a]) /\ Occupies(appts[x])
              /\ Overlap(appts[a].iv, appts[x].iv)
        => {a, x} \in waived

(* No appointment occupies blocked time, override or not: "block /           *)
(* full_day_block always forbid" (appointment-write-conflicts.ts).           *)
BlocksKeptFree ==
    \A a \in Appts, b \in Blocks : Occupies(appts[a]) =>
        /\ blocks[b].kind = "day" => ~SameDay(blocks[b].iv, appts[a].iv)
        /\ blocks[b].kind = "interval" => ~Overlap(blocks[b].iv, appts[a].iv)

(* A day is closed once ("День уже закрыт"). *)
ClosedOnce ==
    \A b, c \in Blocks :
        blocks[b].kind = "day" /\ blocks[c].kind = "day" /\ SameDay(blocks[b].iv, blocks[c].iv)
            => b = c

(* A cancelled appointment is never mutated again ("Запись уже отменена и не *)
(* может быть изменена").                                                    *)
CancelledIsFinal ==
    [][\A a \in Appts : appts[a].status = "CANCELLED" => appts'[a] = appts[a]]_vars
===============================================================================
