------------------------------- MODULE Calendar -------------------------------
(***************************************************************************)
(* The masters' days under concurrent requests.  Appointment writes and the *)
(* master commands run in PostgreSQL Serializable transactions: they read  *)
(* a snapshot, decide, and at commit are refused with 40001 when a         *)
(* concurrent Serializable transaction committed with which they have read *)
(* and write dependencies both ways, or when a row they write was changed  *)
(* since their snapshot; runSerializableAppointmentWrite tries again.      *)
(* The admin's schedule blocks, the cancellations and the client's         *)
(* reschedule request run outside: they read, decide, and write what may   *)
(* no longer be so, unseen by the Serializable machinery.                  *)
(*                                                                         *)
(* The mutual dependency is taken between the appointments, and between    *)
(* the blocks, of a master's day, which is what the queries read; Postgres *)
(* may refuse more (every refusal is possible here too, as a spurious      *)
(* one), never less.                                                       *)
(***************************************************************************)
EXTENDS AgendaRules

CONSTANTS
    Workers,        \* requests under way at once
    None,
    Kinds,          \* the operation kinds a configuration enables
    NewStatuses,    \* and the statuses it creates appointments with
    MaxTries,       \* APPOINTMENT_WRITE_SERIALIZABLE_RETRIES
    MaxRequests     \* bound: requests in a behaviour

Serializable == {"book", "change", "close", "closeDay", "dropOwned"}
AdminBlockKinds == {"adminClose", "adminCloseDay", "adminMove", "adminDrop"}
CancelKinds == {"cancel", "clientCancel"}
Plain == AdminBlockKinds \cup CancelKinds \cup {"reschedule"}

ASSUME CalendarAssumption ==
    /\ Kinds \subseteq Serializable \cup Plain
    /\ NewStatuses \subseteq Statuses \ {"absent"}
    /\ MaxTries \in Nat \ {0}
    /\ MaxRequests \in Nat
    /\ None \notin Workers

VARIABLES
    appts, blocks, waived,  \* as in Agenda: the committed rows
    requests,   \* [Appts -> Nat]: RESCHEDULE_REQUEST rows of an appointment
    lock,       \* [Appts -> worker or None]: the row lock of an open update
    job,        \* [Workers -> record]: each worker's request
    started     \* requests started so far

vars == <<appts, blocks, waived, requests, lock, job, started>>

Idle == [pc |-> "idle"]

OnAppointment(op) == op.kind \in {"book", "change", "reschedule"} \cup CancelKinds

(* An appointment given a status and a place, with or without an override.   *)
Placing(kind, as, statuses) ==
    [kind : {kind}, a : as, iv : Intervals, status : statuses, over : BOOLEAN]

(* The requests that make sense on the rows as they are; a new row's id is   *)
(* one that no other request under way is about to insert.                   *)
NamesAppt(w, a) == job[w].pc # "idle" /\ OnAppointment(job[w].op) /\ job[w].op.a = a
NamesBlock(w, b) == job[w].pc # "idle" /\ ~OnAppointment(job[w].op) /\ job[w].op.b = b
NewAppts ==
    {a \in Appts : appts[a].status = "absent" /\ \A w \in Workers : ~NamesAppt(w, a)}
NewBlocks ==
    {b \in Blocks : blocks[b].kind = "absent" /\ \A w \in Workers : ~NamesBlock(w, b)}
OldAppts == {a \in Appts : appts[a].status # "absent"}
OldBlocks == {b \in Blocks : blocks[b].kind # "absent"}
FullDays == {FullDay(i) : i \in Intervals}

Requests ==
    Placing("book", NewAppts, NewStatuses)
    \cup Placing("change", OldAppts, {"SCHEDULED"})
    \cup [kind : {"change"}, a : OldAppts, iv : Intervals,
          status : {"RESCHEDULED", "CANCELLED"}, over : {FALSE}]
    \cup [kind : {"close", "adminClose"}, b : NewBlocks, iv : Intervals]
    \cup [kind : {"closeDay", "adminCloseDay"}, b : NewBlocks, iv : FullDays]
    \cup {op \in [kind : {"adminMove"}, b : OldBlocks, iv : Intervals] :
            MayMoveTo(blocks[op.b], op.iv)}
    \cup [kind : {"dropOwned", "adminDrop"}, b : OldBlocks]
    \cup [kind : CancelKinds \cup {"reschedule"}, a : OldAppts]

Init ==
    /\ appts = NoAppts
    /\ blocks = NoBlocks
    /\ waived = {}
    /\ requests = [a \in Appts |-> 0]
    /\ lock = [a \in Appts |-> None]
    /\ job = [w \in Workers |-> Idle]
    /\ started = 0

-------------------------------------------------------------------------------
(* The rules applied to the rows a request saw *)

Of(table, iv) == <<table, DayOf(iv)>>
WholeDay(iv) == {Of("appts", iv), Of("blocks", iv)}

(* A creation is checked against the day, and an edit that occupies time.    *)
ChecksPlace(op) == op.kind = "book" \/ (op.kind = "change" /\ op.status = "SCHEDULED")

(* Mutants: the conflict check of an appointment, of a closed interval, runs *)
(* on the bare client instead of the transaction's.                          *)
AppointmentsCheckedOutside(op) ==
    CASE op.kind = "close" -> {Of("appts", op.iv)}
      [] op.kind = "closeDay" -> WholeDay(op.iv)
      [] OTHER -> {}
CloseCheckedOutside(op) ==
    CASE ChecksPlace(op) -> WholeDay(op.iv)
      [] op.kind = "closeDay" -> WholeDay(op.iv)
      [] OTHER -> {}

(* What an operation reads by predicate: rows of the day it writes to.  An   *)
(* edit that occupies no time and a deletion read their own row only.        *)
ReadsOf(op) ==
    CASE ChecksPlace(op) -> WholeDay(op.iv)
      [] op.kind = "close" -> {Of("appts", op.iv)}
      [] op.kind = "closeDay" -> WholeDay(op.iv)
      [] OTHER -> {}

RowsOf(op) == IF OnAppointment(op) THEN {op.a} ELSE {op.b}

(* The days whose rows it changes: a moved appointment leaves one too.       *)
WritesOf(op) ==
    CASE op.kind = "change" -> {Of("appts", appts[op.a].iv), Of("appts", op.iv)}
      [] op.kind = "book" -> {Of("appts", op.iv)}
      [] op.kind = "dropOwned" -> {Of("blocks", blocks[op.b].iv)}
      [] OTHER -> {Of("blocks", op.iv)}

Allowed(op, as, bs) ==
    CASE op.kind = "book" -> Free(as, bs, op.a, op.iv, op.over)
      [] op.kind = "change" -> MayChange(as, bs, op.a, op.status, op.iv, op.over)
      [] op.kind \in {"close", "adminClose"} -> MayBlock(as, op.iv)
      [] op.kind = "adminMove" -> bs[op.b].kind # "absent" /\ MayBlock(as, op.iv)
      [] op.kind \in {"closeDay", "adminCloseDay"} -> MayCloseDay(as, bs, op.iv)
      [] op.kind \in {"dropOwned", "adminDrop"} -> bs[op.b].kind # "absent"
      [] op.kind \in {"cancel", "reschedule"} -> as[op.a].status # "CANCELLED"
      [] op.kind = "clientCancel" -> Occupies(as[op.a])

(* The row an operation on a block leaves. *)
BlockAfter(op) ==
    CASE op.kind \in {"close", "adminClose", "adminMove"} ->
           [kind |-> "interval", iv |-> op.iv]
      [] op.kind \in {"closeDay", "adminCloseDay"} -> [kind |-> "day", iv |-> op.iv]
      [] op.kind \in {"dropOwned", "adminDrop"} -> [blocks[op.b] EXCEPT !.kind = "absent"]

(* An overlap counts as accepted when the override's transaction saw it; one *)
(* that somebody ended meanwhile is none.                                    *)
WaivedBy(w, op) ==
    {p \in WaivedAfter(waived, job[w].appts, op.a, op.status, op.iv, op.over) :
        op.a \in p => p \ {op.a} \subseteq Clashes(appts, op.a, op.iv)}

WriteBlock(op) ==
    /\ blocks' = [blocks EXCEPT ![op.b] = BlockAfter(op)]
    /\ UNCHANGED <<appts, waived>>

WriteStatus(a, status) ==
    /\ appts' = [appts EXCEPT ![a].status = status]
    /\ waived' = Without(waived, a)
    /\ UNCHANGED blocks

Finished(w) == [job EXCEPT ![w] = Idle]

(* Rows written by a commit are stale for every transaction under way; a     *)
(* Serializable commit is also a dependency of those that read its day.      *)
Stale(v, rows) == [job[v] EXCEPT !.stale = @ \cup rows]
Missed(v, op) ==
    IF WritesOf(op) \cap ReadsOf(job[v].op) # {}
    THEN [Stale(v, RowsOf(op)) EXCEPT !.missed = @ \cup {ReadsOf(op)}]
    ELSE Stale(v, RowsOf(op))
AfterCommit(w, op) ==
    [v \in Workers |-> IF v = w THEN Idle
                       ELSE IF job[v].pc = "running" THEN Missed(v, op) ELSE job[v]]
AfterPlainWrite(w, next, rows) ==
    [v \in Workers |-> IF v = w THEN next
                       ELSE IF job[v].pc = "running" THEN Stale(v, rows) ELSE job[v]]

-------------------------------------------------------------------------------
(* Serializable transactions *)

Start(w) ==
    /\ job[w].pc = "idle"
    /\ started < MaxRequests
    /\ started' = started + 1
    /\ \E op \in Requests :
        /\ op.kind \in Kinds
        /\ job' = [job EXCEPT ![w] =
              IF op.kind \in Serializable THEN [pc |-> "begin", op |-> op, tries |-> 1]
              ELSE [pc |-> "read", op |-> op]]
    /\ UNCHANGED <<appts, blocks, waived, requests, lock>>

(* The snapshot, taken by the transaction's first statement. *)
Begin(w) ==
    /\ job[w].pc = "begin"
    /\ job' = [job EXCEPT ![w] =
          [pc |-> "running", op |-> job[w].op, tries |-> job[w].tries,
           appts |-> appts, blocks |-> blocks, missed |-> {}, stale |-> {}]]
    /\ UNCHANGED <<appts, blocks, waived, requests, lock, started>>

(* 40001: a concurrent Serializable commit depends on what we write as we    *)
(* depend on what it wrote, or somebody changed the row we write.            *)
Refused(w) ==
    \/ \E reads \in job[w].missed : WritesOf(job[w].op) \cap reads # {}
    \/ RowsOf(job[w].op) \cap job[w].stale # {}

Commit(w) ==
    LET op == job[w].op IN
    /\ job[w].pc = "running"
    /\ Allowed(op, job[w].appts, job[w].blocks)
    /\ ~Refused(w)
    /\ OnAppointment(op) => lock[op.a] = None
    /\ IF OnAppointment(op)
       THEN /\ appts' = [appts EXCEPT ![op.a] = [status |-> op.status, iv |-> op.iv]]
            /\ waived' = WaivedBy(w, op)
            /\ UNCHANGED blocks
       ELSE WriteBlock(op)
    /\ job' = AfterCommit(w, op)
    /\ UNCHANGED <<requests, lock, started>>

(* AppointmentConflictError, ScheduleBlockConflictError, validation errors *)
Reject(w) ==
    /\ job[w].pc = "running"
    /\ ~Allowed(job[w].op, job[w].appts, job[w].blocks)
    /\ job' = Finished(w)
    /\ UNCHANGED <<appts, blocks, waived, requests, lock, started>>

(* Mutants: the attempts are not counted; one attempt too many. *)
RetriesForEver(w) ==
    /\ job[w].pc = "running"
    /\ job' = [job EXCEPT ![w] = [pc |-> "begin", op |-> job[w].op, tries |-> 1]]
    /\ UNCHANGED <<appts, blocks, waived, requests, lock, started>>
RetriesOnceMore(w) ==
    /\ job[w].pc = "running"
    /\ job' = [job EXCEPT ![w] =
          IF job[w].tries <= MaxTries
          THEN [pc |-> "begin", op |-> job[w].op, tries |-> job[w].tries + 1]
          ELSE Idle]
    /\ UNCHANGED <<appts, blocks, waived, requests, lock, started>>

(* P2034 / 40001, deserved or not: a fresh attempt until they are used up. *)
SerializationFailure(w) ==
    /\ job[w].pc = "running"
    /\ job' = [job EXCEPT ![w] =
          IF job[w].tries < MaxTries
          THEN [pc |-> "begin", op |-> job[w].op, tries |-> job[w].tries + 1]
          ELSE Idle]
    /\ UNCHANGED <<appts, blocks, waived, requests, lock, started>>

-------------------------------------------------------------------------------
(* Check-then-act writers outside any transaction *)

(* findUnique / findMany / count, and the decision taken on them. *)
Read(w) ==
    /\ job[w].pc = "read"
    /\ job' = [job EXCEPT ![w] =
          IF Allowed(job[w].op, appts, blocks)
          THEN [pc |-> "decided", op |-> job[w].op] ELSE Idle]
    /\ UNCHANGED <<appts, blocks, waived, requests, lock, started>>

(* createScheduleBlock, updateScheduleBlock, deleteScheduleBlock.  The update *)
(* and the deletion of a row deleted meanwhile fail (P2025).                 *)
WriteAdminBlock(w) ==
    LET op == job[w].op IN
    /\ job[w].pc = "decided"
    /\ op.kind \in AdminBlockKinds
    /\ IF op.kind \in {"adminMove", "adminDrop"} /\ blocks[op.b].kind = "absent"
       THEN UNCHANGED <<appts, blocks, waived>> /\ job' = Finished(w)
       ELSE WriteBlock(op) /\ job' = AfterPlainWrite(w, Idle, {op.b})
    /\ UNCHANGED <<requests, lock, started>>

(* cancelAppointment and cancelAppointmentByManageToken: unconditional. *)
WriteCancel(w) ==
    LET op == job[w].op IN
    /\ job[w].pc = "decided"
    /\ op.kind \in CancelKinds
    /\ lock[op.a] = None
    /\ WriteStatus(op.a, "CANCELLED")
    /\ job' = AfterPlainWrite(w, Idle, {op.a})
    /\ UNCHANGED <<requests, lock, started>>

(* Mutant: the request is looked for before the appointment is updated. *)
NoRowLock(w, a) == UNCHANGED lock

TakeRowLock(w, a) == lock' = [lock EXCEPT ![a] = w]

(* requestRescheduleByManageToken: the transaction's first statement updates *)
(* the appointment row and so locks it until the commit; nobody else sees    *)
(* the new status before.                                                    *)
RescheduleUpdate(w) ==
    LET op == job[w].op IN
    /\ job[w].pc = "decided"
    /\ op.kind = "reschedule"
    /\ lock[op.a] = None
    /\ TakeRowLock(w, op.a)
    /\ job' = [job EXCEPT ![w].pc = "updated"]
    /\ UNCHANGED <<appts, blocks, waived, requests, started>>

(* Read Committed: findFirst sees the requests committed by now. *)
RescheduleFind(w) ==
    /\ job[w].pc = "updated"
    /\ job' = [job EXCEPT ![w].pc =
                  IF requests[job[w].op.a] = 0 THEN "missing" ELSE "found"]
    /\ UNCHANGED <<appts, blocks, waived, requests, lock, started>>

RescheduleCommit(w) ==
    LET op == job[w].op IN
    /\ job[w].pc \in {"missing", "found"}
    /\ requests' = IF job[w].pc = "missing" THEN [requests EXCEPT ![op.a] = @ + 1]
                   ELSE requests
    /\ WriteStatus(op.a, "RESCHEDULED")
    /\ lock' = [lock EXCEPT ![op.a] = None]
    /\ job' = AfterPlainWrite(w, Idle, {op.a})
    /\ UNCHANGED started

Step(w) ==
    \/ Begin(w) \/ Commit(w) \/ Reject(w) \/ SerializationFailure(w)
    \/ Read(w) \/ WriteAdminBlock(w) \/ WriteCancel(w)
    \/ RescheduleUpdate(w) \/ RescheduleFind(w) \/ RescheduleCommit(w)

(* Nothing is under way; a state where something is, and cannot go on, is a  *)
(* deadlock.                                                                 *)
Rest == (\A w \in Workers : job[w].pc = "idle") /\ UNCHANGED vars

Next == Rest \/ \E w \in Workers : Start(w) \/ Step(w)

Spec == Init /\ [][Next]_vars

FairSpec == Spec /\ \A w \in Workers : WF_vars(Step(w))

-------------------------------------------------------------------------------
(* Properties *)

TypeOK ==
    /\ appts \in [Appts -> ApptRows]
    /\ blocks \in [Blocks -> BlockRows]
    /\ waived \subseteq SUBSET Appts
    /\ requests \in [Appts -> Nat]
    /\ lock \in [Appts -> Workers \cup {None}]
    /\ \A w \in Workers : job[w].pc \in {"idle", "begin", "running", "read", "decided",
                                         "updated", "missing", "found"}
    /\ \A w \in Workers :
          job[w].pc \in {"begin", "running"} => job[w].tries \in 1 .. MaxTries
    /\ started \in 0 .. MaxRequests

Abstract == INSTANCE Agenda

(* Snapshots, retries and refusals together behave as if every check and its *)
(* write were one atomic step of Agenda.                                     *)
ImplementsAgenda == Abstract!Spec

(* The manager's block writes, unprotected as they are, let no booking or    *)
(* edit overlap another unaccepted.                                          *)
NoUnwaivedOverlap == Abstract!NoUnwaivedOverlap

(* An appointment enters blocked time only when a manager writes the block   *)
(* around it, or wrote the block after the booking's transaction looked: a   *)
(* block that a booking, an edit or one of their retries has seen is kept    *)
(* free, and an override does not open it (checkMasterIntervalAvailability). *)
Crossed(as, bs, a, b) ==
    /\ Occupies(as[a])
    /\ \/ bs[b].kind = "day" /\ SameDay(bs[b].iv, as[a].iv)
       \/ bs[b].kind = "interval" /\ Overlap(bs[b].iv, as[a].iv)
SeenBlocksKeptFree ==
    [][\A a \in Appts, b \in Blocks :
         Crossed(appts', blocks', a, b) /\ ~Crossed(appts, blocks, a, b) =>
            \E w \in Workers :
                \/ job[w].pc = "decided" /\ NamesBlock(w, b)
                \/ /\ job[w].pc = "running" /\ NamesAppt(w, a)
                   /\ job[w].blocks[b] # blocks[b]]_vars

(* A cancelled appointment stays so for a request that read it earlier       *)
(* (bot-booking-notifications.md: it cannot be mutated again).               *)
CancelledIsFinal == Abstract!CancelledIsFinal

(* However many times a client asks to reschedule, in parallel or again, the *)
(* manager sees one RESCHEDULE_REQUEST per appointment.                      *)
OneRescheduleRequest == \A a \in Appts : requests[a] <= 1

(* Every request ends: conflicts are retried at most MaxTries times and no   *)
(* request waits for ever for another one's row.                             *)
EveryRequestEnds == \A w \in Workers : job[w].pc # "idle" ~> job[w].pc = "idle"
===============================================================================
