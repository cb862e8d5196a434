----------------------------- MODULE AgendaProofs -----------------------------
(***************************************************************************)
(* The rules of a day keep their promises for every set of appointments, *)
(* blocks and intervals, one operation at a time: which rows may coexist   *)
(* is an inductive invariant of Agenda.  Calendar's runs show which of the *)
(* handlers take such atomic steps.                                        *)
(***************************************************************************)
EXTENDS Agenda, TLAPS

(* Overlap is symmetric: both intervals are of one master's day. *)
LEMMA OverlapSymmetric ==
    \A i, j \in Intervals : Overlap(i, j) <=> Overlap(j, i)
BY DEF Overlap, SameDay

(* The rows, one appointment replaced: the common shape of every appointment *)
(* operation.                                                                *)
Replaced(a, status, iv) ==
    appts' = [appts EXCEPT ![a] = [status |-> status, iv |-> iv]]

LEMMA ReplacedRows ==
    ASSUME TypeOK, NEW a \in Appts, NEW status \in Statuses, NEW iv \in Intervals,
           Replaced(a, status, iv)
    PROVE  /\ appts' \in [Appts -> ApptRows]
           /\ appts'[a].status = status
           /\ appts'[a].iv = iv
           /\ \A x \in Appts \ {a} : appts'[x] = appts[x]
BY DEF TypeOK, ApptRows, Replaced

LEMMA RowTypes ==
    ASSUME TypeOK
    PROVE  /\ \A x \in Appts : appts[x].iv \in Intervals /\ appts[x].status \in Statuses
           /\ \A b \in Blocks : blocks[b].iv \in Intervals
                                /\ blocks[b].kind \in {"absent", "interval", "day"}
BY DEF TypeOK, ApptRows, BlockRows

(* An appointment's status changed in place is its row replaced. *)
LEMMA StatusReplaced ==
    ASSUME TypeOK, NEW a \in Appts, NEW status \in Statuses,
           appts' = [appts EXCEPT ![a].status = status]
    PROVE  Replaced(a, status, appts[a].iv)
<1>1. appts[a] \in [status : Statuses, iv : Intervals]
  BY DEF TypeOK, ApptRows
<1>2. [appts[a] EXCEPT !.status = status] = [status |-> status, iv |-> appts[a].iv]
  BY <1>1
<1>3. appts' = [appts EXCEPT ![a] = [appts[a] EXCEPT !.status = status]]
  OBVIOUS
<1> QED BY <1>2, <1>3 DEF Replaced

(* The ghost stays a set of pairs of appointments, and never loses a pair    *)
(* the changed appointment is not in.                                        *)
LEMMA WaivedRows ==
    ASSUME TypeOK, NEW a \in Appts, NEW status, NEW iv, NEW over \in BOOLEAN,
           waived' = WaivedAfter(waived, appts, a, status, iv, over)
    PROVE  /\ waived' \subseteq SUBSET Appts
           /\ \A p \in waived : a \notin p => p \in waived'
BY DEF TypeOK, WaivedAfter, Without, PairsOf, Clashes

LEMMA WithoutRows ==
    ASSUME TypeOK, NEW a \in Appts, waived' = Without(waived, a)
    PROVE  /\ waived' \subseteq SUBSET Appts
           /\ \A p \in waived : a \notin p => p \in waived'
BY DEF TypeOK, Without

-------------------------------------------------------------------------------
(* One replaced row *)

(* Overlaps among the others stay accepted; those of the replaced row are    *)
(* the ones to look at.                                                      *)
LEMMA OverlapsOfOthers ==
    ASSUME TypeOK, TypeOK', NoUnwaivedOverlap, NEW a \in Appts,
           \A x \in Appts \ {a} : appts'[x] = appts[x],
           \A p \in waived : a \notin p => p \in waived',
           \A x \in Appts \ {a} :
               Occupies(appts'[a]) /\ Occupies(appts[x])
                   /\ Overlap(appts'[a].iv, appts[x].iv) => {a, x} \in waived'
    PROVE  NoUnwaivedOverlap'
<1> SUFFICES ASSUME NEW y \in Appts, NEW z \in Appts, y # z,
                    Occupies(appts'[y]), Occupies(appts'[z]),
                    Overlap(appts'[y].iv, appts'[z].iv)
             PROVE  {y, z} \in waived'
  BY DEF NoUnwaivedOverlap
<1>0. /\ appts'[y].iv \in Intervals
      /\ appts'[z].iv \in Intervals
  BY DEF TypeOK, ApptRows
<1>1. CASE y = a
  BY <1>1
<1>2. CASE z = a
  <2>1. Overlap(appts'[a].iv, appts[y].iv)
    BY <1>0, <1>2, OverlapSymmetric
  <2>2. {a, y} \in waived'
    BY <1>2, <2>1
  <2>3. {a, y} = {y, z}
    BY <1>2
  <2> QED BY <2>2, <2>3
<1>3. CASE y # a /\ z # a
  <2>1. {y, z} \in waived
    BY <1>3 DEF NoUnwaivedOverlap
  <2> QED BY <1>3, <2>1
<1> QED BY <1>1, <1>2, <1>3

(* A row that stops occupying time disturbs neither invariant. *)
LEMMA RowReleased ==
    ASSUME TypeOK, TypeOK', NoUnwaivedOverlap, BlocksKeptFree, NEW a \in Appts,
           ~Occupies(appts'[a]),
           \A x \in Appts \ {a} : appts'[x] = appts[x],
           \A p \in waived : a \notin p => p \in waived',
           blocks' = blocks
    PROVE  NoUnwaivedOverlap' /\ BlocksKeptFree'
<1>1. NoUnwaivedOverlap'
  BY OverlapsOfOthers
<1>2. BlocksKeptFree'
  BY DEF BlocksKeptFree
<1> QED BY <1>1, <1>2

(* A row placed by the rules disturbs neither invariant. *)
LEMMA RowPlaced ==
    ASSUME TypeOK, TypeOK', NoUnwaivedOverlap, BlocksKeptFree,
           NEW a \in Appts, NEW iv \in Intervals, NEW over \in BOOLEAN,
           Replaced(a, "SCHEDULED", iv),
           Free(appts, blocks, a, iv, over \/ KeepsPlace(appts, a, "SCHEDULED", iv)),
           waived' = WaivedAfter(waived, appts, a, "SCHEDULED", iv, over),
           blocks' = blocks
    PROVE  NoUnwaivedOverlap' /\ BlocksKeptFree'
<1>1. /\ appts'[a].status = "SCHEDULED"
      /\ appts'[a].iv = iv
      /\ \A x \in Appts \ {a} : appts'[x] = appts[x]
  BY ReplacedRows DEF Statuses
<1>2. \A p \in waived : a \notin p => p \in waived'
  BY WaivedRows
<1>3. ASSUME NEW x \in Appts \ {a}, Occupies(appts[x]), Overlap(iv, appts[x].iv)
      PROVE  {a, x} \in waived'
  <2>0. x \in Clashes(appts, a, iv)
    BY <1>3, RowTypes, OverlapSymmetric DEF Clashes
  <2>1. CASE KeepsPlace(appts, a, "SCHEDULED", iv) /\ ~over
    <3>1. {a, x} \in waived
      BY <1>3, <2>1 DEF KeepsPlace, NoUnwaivedOverlap
    <3> QED BY <2>1, <3>1 DEF WaivedAfter
  <2>2. CASE ~(KeepsPlace(appts, a, "SCHEDULED", iv) /\ ~over)
    <3>1. waived' = Without(waived, a) \cup PairsOf(a, Clashes(appts, a, iv))
      BY <2>2 DEF WaivedAfter
    <3> QED BY <2>0, <3>1 DEF PairsOf
  <2> QED BY <2>1, <2>2
<1>4. NoUnwaivedOverlap'
  BY <1>1, <1>2, <1>3, OverlapsOfOthers
<1>5. ASSUME NEW x \in Appts, NEW b \in Blocks, Occupies(appts'[x])
      PROVE  /\ blocks[b].kind = "day" => ~SameDay(blocks[b].iv, appts'[x].iv)
             /\ blocks[b].kind = "interval" => ~Overlap(blocks[b].iv, appts'[x].iv)
  <2>1. CASE x = a
    BY <1>1, <2>1 DEF Free, DayClosed
  <2>2. CASE x # a
    BY <1>1, <1>5, <2>2 DEF BlocksKeptFree
  <2> QED BY <2>1, <2>2
<1>6. BlocksKeptFree'
  BY <1>5 DEF BlocksKeptFree
<1> QED BY <1>4, <1>6

-------------------------------------------------------------------------------
(* The inductive invariant *)

(* A closed day excludes appointments and a second closure; the block checks *)
(* look at appointments alone, so ClosedOnce and BlocksKeptFree rest on each *)
(* other only through the rows, and NoUnwaivedOverlap on the ghost.          *)
Inv == TypeOK /\ NoUnwaivedOverlap /\ BlocksKeptFree /\ ClosedOnce

LEMMA InitInv == Init => Inv
<1> SUFFICES ASSUME Init PROVE Inv
  OBVIOUS
<1>0. AnInterval \in Intervals
  BY IntervalsAssumption DEF AnInterval
<1>1. appts = [a \in Appts |-> [status |-> "absent", iv |-> AnInterval]]
  BY DEF Init, NoAppts
<1>2. blocks = [b \in Blocks |-> [kind |-> "absent", iv |-> AnInterval]]
  BY DEF Init, NoBlocks
<1>3. waived = {}
  BY DEF Init
<1>4. TypeOK
  BY <1>0, <1>1, <1>2, <1>3 DEF TypeOK, ApptRows, BlockRows, Statuses
<1>5. \A a \in Appts : ~Occupies(appts[a])
  BY <1>1 DEF Occupies
<1>6. \A b \in Blocks : blocks[b].kind = "absent"
  BY <1>2
<1> QED BY <1>4, <1>5, <1>6 DEF Inv, NoUnwaivedOverlap, BlocksKeptFree, ClosedOnce

(* Operations on an appointment leave the blocks, and so ClosedOnce, alone.  *)
LEMMA InvAfterPlaced ==
    ASSUME Inv, NEW a \in Appts, NEW iv \in Intervals, NEW over \in BOOLEAN,
           Replaced(a, "SCHEDULED", iv),
           Free(appts, blocks, a, iv, over \/ KeepsPlace(appts, a, "SCHEDULED", iv)),
           waived' = WaivedAfter(waived, appts, a, "SCHEDULED", iv, over),
           blocks' = blocks
    PROVE  Inv'
<1>1. TypeOK /\ "SCHEDULED" \in Statuses
  BY DEF Inv, Statuses
<1>2. TypeOK'
  BY <1>1, ReplacedRows, WaivedRows DEF TypeOK
<1>3. NoUnwaivedOverlap' /\ BlocksKeptFree'
  BY <1>1, <1>2, RowPlaced DEF Inv
<1>4. ClosedOnce'
  BY DEF Inv, ClosedOnce
<1> QED BY <1>2, <1>3, <1>4 DEF Inv

LEMMA InvAfterReleased ==
    ASSUME Inv, NEW a \in Appts, NEW iv \in Intervals,
           NEW status \in Statuses \ {"SCHEDULED"},
           Replaced(a, status, iv),
           waived' = Without(waived, a),
           blocks' = blocks
    PROVE  Inv'
<1>1. TypeOK
  BY DEF Inv
<1>2. TypeOK' /\ ~Occupies(appts'[a])
  BY <1>1, ReplacedRows, WithoutRows DEF TypeOK, Occupies
<1>3. /\ \A x \in Appts \ {a} : appts'[x] = appts[x]
      /\ \A p \in waived : a \notin p => p \in waived'
  BY <1>1, ReplacedRows, WithoutRows
<1>4. NoUnwaivedOverlap' /\ BlocksKeptFree'
  BY <1>1, <1>2, <1>3, RowReleased DEF Inv
<1>5. ClosedOnce'
  BY DEF Inv, ClosedOnce
<1> QED BY <1>2, <1>4, <1>5 DEF Inv

(* Operations on a block leave the appointments alone: what is to show is    *)
(* that the new block meets none of them and closes no closed day.           *)
LEMMA InvAfterBlock ==
    ASSUME Inv, NEW b \in Blocks, NEW row \in BlockRows,
           blocks' = [blocks EXCEPT ![b] = row],
           appts' = appts, waived' = waived,
           row.kind = "interval" => MayBlock(appts, row.iv),
           row.kind = "day" => MayCloseDay(appts, blocks, row.iv)
    PROVE  Inv'
<1>1. TypeOK'
  BY DEF Inv, TypeOK
<1>2. \A c \in Blocks : blocks'[c] = IF c = b THEN row ELSE blocks[c]
  BY DEF Inv, TypeOK
<1>3. NoUnwaivedOverlap'
  BY DEF Inv, NoUnwaivedOverlap
<1>4. ASSUME NEW a \in Appts, NEW c \in Blocks, Occupies(appts[a])
      PROVE  /\ blocks'[c].kind = "day" => ~SameDay(blocks'[c].iv, appts[a].iv)
             /\ blocks'[c].kind = "interval" => ~Overlap(blocks'[c].iv, appts[a].iv)
  <2>1. CASE c = b
    <3>1. row.kind = "day" => ~SameDay(row.iv, appts[a].iv)
      BY <1>4 DEF MayCloseDay, DayIsEmpty, SameDay
    <3>2. ASSUME row.kind = "interval" PROVE ~Overlap(row.iv, appts[a].iv)
      <4>1. ~Overlap(appts[a].iv, row.iv)
        BY <1>4, <3>2 DEF MayBlock
      <4>2. row.iv \in Intervals /\ appts[a].iv \in Intervals
        BY RowTypes DEF Inv, BlockRows
      <4> QED BY <4>1, <4>2, OverlapSymmetric
    <3> QED BY <1>2, <2>1, <3>1, <3>2
  <2>2. CASE c # b
    BY <1>2, <1>4, <2>2 DEF Inv, BlocksKeptFree
  <2> QED BY <2>1, <2>2
<1>5. BlocksKeptFree'
  BY <1>4 DEF BlocksKeptFree
<1>6. ASSUME NEW c \in Blocks, NEW d \in Blocks,
             blocks'[c].kind = "day", blocks'[d].kind = "day",
             SameDay(blocks'[c].iv, blocks'[d].iv)
      PROVE  c = d
  <2>1. CASE row.kind = "day"
    BY <1>2, <1>6, <2>1 DEF Inv, ClosedOnce, MayCloseDay, DayClosed, SameDay
  <2>2. CASE row.kind # "day"
    BY <1>2, <1>6, <2>2 DEF Inv, ClosedOnce
  <2> QED BY <2>1, <2>2
<1>7. ClosedOnce'
  BY <1>6 DEF ClosedOnce
<1> QED BY <1>1, <1>3, <1>5, <1>7 DEF Inv

(* A full-day block is given an interval of the day it closes. *)
LEMMA FullDayOfDay ==
    ASSUME NEW iv \in Intervals
    PROVE  FullDay(iv) \in Intervals /\ SameDay(FullDay(iv), iv)
<1>1. \E i \in Intervals : SameDay(i, iv)
  BY DEF SameDay
<1> QED BY <1>1 DEF FullDay

LEMMA ClosableAsFullDay ==
    ASSUME NEW iv \in Intervals, MayCloseDay(appts, blocks, iv)
    PROVE  MayCloseDay(appts, blocks, FullDay(iv))
BY FullDayOfDay DEF MayCloseDay, DayClosed, DayIsEmpty, SameDay

LEMMA NextInv == Inv /\ [Next]_vars => Inv'
<1> SUFFICES ASSUME Inv, [Next]_vars PROVE Inv'
  OBVIOUS
<1>0. TypeOK
  BY DEF Inv
<1>1. ASSUME NEW a \in Appts, NEW iv \in Intervals, NEW over \in BOOLEAN,
             NEW status \in Statuses \ {"absent"}, Book(a, status, iv, over)
      PROVE  Inv'
  <2>1. Replaced(a, status, iv) /\ blocks' = blocks
    BY <1>1 DEF Book, Replaced
  <2>2. CASE status = "SCHEDULED"
    <3>1. ~KeepsPlace(appts, a, "SCHEDULED", iv)
      BY <1>1 DEF Book, KeepsPlace, Occupies
    <3> QED BY <1>1, <2>1, <2>2, <3>1, InvAfterPlaced DEF Book
  <2>3. CASE status # "SCHEDULED"
    <3>1. waived' = Without(waived, a)
      BY <1>1, <2>3 DEF Book, WaivedAfter
    <3> QED BY <2>1, <2>3, <3>1, InvAfterReleased
  <2> QED BY <2>2, <2>3
<1>2. ASSUME NEW a \in Appts, NEW iv \in Intervals, NEW over \in BOOLEAN,
             NEW status \in Statuses \ {"absent"}, Change(a, status, iv, over)
      PROVE  Inv'
  <2>1. Replaced(a, status, iv) /\ blocks' = blocks
    BY <1>2 DEF Change, Replaced
  <2>2. CASE status = "SCHEDULED"
    BY <1>2, <2>1, <2>2, InvAfterPlaced DEF Change, MayChange
  <2>3. CASE status # "SCHEDULED"
    <3>1. waived' = Without(waived, a)
      BY <1>2, <2>3 DEF Change, WaivedAfter
    <3> QED BY <2>1, <2>3, <3>1, InvAfterReleased
  <2> QED BY <2>2, <2>3
<1>3. ASSUME NEW a \in Appts, Cancel(a) PROVE Inv'
  <2>1. Replaced(a, "CANCELLED", appts[a].iv)
    BY <1>0, <1>3, StatusReplaced DEF Cancel, Statuses
  <2> QED BY <1>0, <1>3, <2>1, RowTypes, InvAfterReleased DEF Cancel, Statuses
<1>4. ASSUME NEW a \in Appts, Reschedule(a) PROVE Inv'
  <2>1. Replaced(a, "RESCHEDULED", appts[a].iv)
    BY <1>0, <1>4, StatusReplaced DEF Reschedule, Statuses
  <2> QED BY <1>0, <1>4, <2>1, RowTypes, InvAfterReleased DEF Reschedule, Statuses
<1>5. ASSUME NEW b \in Blocks, NEW iv \in Intervals, Close(b, iv) \/ MoveBlock(b, iv)
      PROVE  Inv'
  <2>1. [kind |-> "interval", iv |-> iv] \in BlockRows
    BY DEF BlockRows
  <2> QED BY <1>5, <2>1, InvAfterBlock DEF Close, MoveBlock
<1>6. ASSUME NEW b \in Blocks, NEW iv \in Intervals, CloseDay(b, iv) PROVE Inv'
  <2>1. [kind |-> "day", iv |-> FullDay(iv)] \in BlockRows
    BY FullDayOfDay DEF BlockRows
  <2> QED BY <1>6, <2>1, ClosableAsFullDay, InvAfterBlock DEF CloseDay
<1>7. ASSUME NEW b \in Blocks, Drop(b) PROVE Inv'
  <2> DEFINE row == [blocks[b] EXCEPT !.kind = "absent"]
  <2>1. row \in BlockRows /\ row.kind = "absent"
    BY <1>0 DEF TypeOK, BlockRows
  <2>2. blocks' = [blocks EXCEPT ![b] = row]
    BY <1>7 DEF Drop
  <2> HIDE DEF row
  <2> QED BY <1>7, <2>1, <2>2, InvAfterBlock DEF Drop
<1>8. CASE UNCHANGED vars
  BY <1>8 DEF vars, Inv, TypeOK, NoUnwaivedOverlap, BlocksKeptFree, ClosedOnce
<1> QED BY <1>1, <1>2, <1>3, <1>4, <1>5, <1>6, <1>7, <1>8 DEF Next

-------------------------------------------------------------------------------
(* Theorems *)

(* The rows of the days keep their shape. *)
THEOREM TypeCorrect == Spec => []TypeOK
<1>1. Inv => TypeOK
  BY DEF Inv
<1> QED BY <1>1, InitInv, NextInv, PTL DEF Spec

(* Nobody is booked over somebody else unless that very overlap was accepted *)
(* (checkMasterIntervalAvailability under allowAppointmentOverlap).          *)
THEOREM OverlapsAreAccepted == Spec => []NoUnwaivedOverlap
<1>1. Inv => NoUnwaivedOverlap
  BY DEF Inv
<1> QED BY <1>1, InitInv, NextInv, PTL DEF Spec

(* No override books over a block, and no block closes occupied time         *)
(* (resolveAppointmentWriteConflict, assertNoAppointmentOverlap).            *)
THEOREM BlockedTimeIsFree == Spec => []BlocksKeptFree
<1>1. Inv => BlocksKeptFree
  BY DEF Inv
<1> QED BY <1>1, InitInv, NextInv, PTL DEF Spec

(* A master's day has at most one full-day block (createScheduleBlockWithDb). *)
THEOREM DayIsClosedOnce == Spec => []ClosedOnce
<1>1. Inv => ClosedOnce
  BY DEF Inv
<1> QED BY <1>1, InitInv, NextInv, PTL DEF Spec

(* A cancelled appointment stays as it is (updateAppointment and the guards  *)
(* of cancelAppointmentByManageToken and requestRescheduleByManageToken).    *)
THEOREM CancellationIsFinal == Spec => CancelledIsFinal
<1>1. Inv /\ [Next]_vars
        => [\A a \in Appts : appts[a].status = "CANCELLED" => appts'[a] = appts[a]]_vars
  <2> DEFINE Kept == \A x \in Appts : appts[x].status = "CANCELLED" => appts'[x] = appts[x]
  <2> SUFFICES ASSUME Inv, Next PROVE Kept
    OBVIOUS
  <2>0. appts \in [Appts -> ApptRows]
    BY DEF Inv, TypeOK
  <2>1. ASSUME NEW a \in Appts, NEW iv \in Intervals, NEW over \in BOOLEAN,
               NEW status \in Statuses \ {"absent"}, Book(a, status, iv, over)
        PROVE  Kept
    BY <2>0, <2>1 DEF Book
  <2>2. ASSUME NEW a \in Appts, NEW iv \in Intervals, NEW over \in BOOLEAN,
               NEW status \in Statuses \ {"absent"}, Change(a, status, iv, over)
        PROVE  Kept
    BY <2>0, <2>2 DEF Change, MayChange
  <2>3. ASSUME NEW a \in Appts, Cancel(a) \/ Reschedule(a) PROVE Kept
    BY <2>0, <2>3 DEF Cancel, Reschedule
  <2>4. ASSUME NEW b \in Blocks,
               Drop(b) \/ \E iv \in Intervals :
                  Close(b, iv) \/ CloseDay(b, iv) \/ MoveBlock(b, iv)
        PROVE  Kept
    BY <2>4 DEF CloseDay, Drop, Close, MoveBlock
  <2> QED BY <2>1, <2>2, <2>3, <2>4 DEF Next
<1> QED BY <1>1, InitInv, NextInv, PTL DEF Spec, CancelledIsFinal
===============================================================================
