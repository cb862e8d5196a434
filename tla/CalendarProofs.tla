---------------------------- MODULE CalendarProofs -----------------------------
(***************************************************************************)
(* What concurrent requests keep for any number of appointments, blocks,   *)
(* workers and retries: overlaps are accepted ones, one request to         *)
(* reschedule per appointment, blocks that were seen are kept free.  And   *)
(* what is left of EveryRequestEnds without fairness: waits for row locks  *)
(* never close a circle, and every step brings its request nearer the end. *)
(***************************************************************************)
EXTENDS Calendar, TLAPS

(* The requests, by what they name. *)
BookOps ==
    [kind : {"book"}, a : Appts, iv : Intervals, status : Statuses \ {"absent"}, over : BOOLEAN]
ChangeOps ==
    [kind : {"change"}, a : Appts, iv : Intervals, status : Statuses \ {"absent"}, over : BOOLEAN]
CloseOps == [kind : {"close"}, b : Blocks, iv : Intervals]
CloseDayOps == [kind : {"closeDay"}, b : Blocks, iv : FullDays]
DropOwnedOps == [kind : {"dropOwned"}, b : Blocks]
SerialOps == BookOps \cup ChangeOps \cup CloseOps \cup CloseDayOps \cup DropOwnedOps

AdminCloseOps == [kind : {"adminClose", "adminMove"}, b : Blocks, iv : Intervals]
AdminCloseDayOps == [kind : {"adminCloseDay"}, b : Blocks, iv : FullDays]
AdminDropOps == [kind : {"adminDrop"}, b : Blocks]
StatusOps == [kind : CancelKinds \cup {"reschedule"}, a : Appts]
RescheduleOps == [kind : {"reschedule"}, a : Appts]
PlainOps == AdminCloseOps \cup AdminCloseDayOps \cup AdminDropOps \cup StatusOps

Tables == {Of(t, i) : t \in {"appts", "blocks"}, i \in Intervals}
Waiting == {"updated", "missing", "found"}

IdleJobs == {Idle}
BeginJobs == [pc : {"begin"}, op : SerialOps, tries : 1 .. MaxTries]
RunningJobs ==
    [pc : {"running"}, op : SerialOps, tries : 1 .. MaxTries,
     appts : [Appts -> ApptRows], blocks : [Blocks -> BlockRows],
     missed : SUBSET SUBSET Tables, stale : SUBSET (Appts \cup Blocks)]
PlainJobs == [pc : {"read", "decided"}, op : PlainOps] \cup [pc : Waiting, op : RescheduleOps]
Jobs == IdleJobs \cup BeginJobs \cup RunningJobs \cup PlainJobs

Types ==
    /\ appts \in [Appts -> ApptRows]
    /\ blocks \in [Blocks -> BlockRows]
    /\ waived \subseteq SUBSET Appts
    /\ requests \in [Appts -> Nat]
    /\ lock \in [Appts -> Workers \cup {None}]
    /\ job \in [Workers -> Jobs]
    /\ started \in 0 .. MaxRequests

(* A request's kind is one of those enabled. *)
KindsOK == \A w \in Workers : job[w].pc # "idle" => job[w].op.kind \in Kinds

(* The row lock is held from the update to the commit, by one request; who    *)
(* holds it and saw no request is right.                                     *)
LocksOK ==
    \A w \in Workers : job[w].pc \in Waiting =>
        /\ lock[job[w].op.a] = w
        /\ job[w].pc = "missing" => requests[job[w].op.a] = 0

(* Which transactions look at a day's appointments. *)
LooksAtDay(op) ==
    \/ ChecksPlace(op)
    \/ op.kind \in {"close", "closeDay"}

(* What a snapshot still tells at the commit: its own row, unless that is     *)
(* stale, and every appointment that occupies time on the day it looks at,   *)
(* unless it has missed the commit of one that looked at the whole day.      *)
SeesAppts(w) ==
    LET j == job[w] IN
    /\ OnAppointment(j.op) => j.op.a \in j.stale \/ j.appts[j.op.a] = appts[j.op.a]
    /\ LooksAtDay(j.op) =>
         \A x \in Appts : Occupies(appts[x]) /\ SameDay(appts[x].iv, j.op.iv) =>
            j.appts[x] = appts[x] \/ WholeDay(j.op.iv) \in j.missed

Accepted ==
    \A a, x \in Appts :
        a # x /\ Occupies(appts[a]) /\ Occupies(appts[x]) /\ Overlap(appts[a].iv, appts[x].iv)
        => {a, x} \in waived

Inv ==
    /\ Types /\ KindsOK /\ LocksOK /\ OneRescheduleRequest /\ Accepted
    /\ \A w \in Workers : job[w].pc = "running" => SeesAppts(w)

-------------------------------------------------------------------------------
(* Shapes *)

LEMMA FullDaysAreIntervals ==
    ASSUME NEW i \in Intervals
    PROVE  FullDay(i) \in Intervals /\ SameDay(FullDay(i), i)
<1>1. \E k \in Intervals : SameDay(k, i)
  BY DEF SameDay
<1> QED BY <1>1 DEF FullDay

LEMMA FullDaysTyped == FullDays \subseteq Intervals
BY FullDaysAreIntervals DEF FullDays

LEMMA TablesOf ==
    ASSUME NEW i \in Intervals
    PROVE  Of("appts", i) \in Tables /\ Of("blocks", i) \in Tables
BY DEF Tables

(* What an operation is, and names. *)
LEMMA SerialShape ==
    ASSUME NEW op \in SerialOps
    PROVE  /\ op.kind \in Serializable
           /\ OnAppointment(op) <=> op.kind \in {"book", "change"}
           /\ OnAppointment(op) => op.a \in Appts /\ op.iv \in Intervals
                                   /\ op.status \in Statuses \ {"absent"} /\ op.over \in BOOLEAN
           /\ op.status = "SCHEDULED" /\ OnAppointment(op) => ChecksPlace(op)
           /\ ChecksPlace(op) => op.kind \in {"book", "change"}
           /\ ~OnAppointment(op) => op.b \in Blocks
           /\ op.kind \in {"close", "closeDay"} => op.iv \in Intervals
           /\ op.kind = "closeDay" => op.iv \in FullDays
BY FullDaysTyped DEF SerialOps, BookOps, ChangeOps, CloseOps, CloseDayOps, DropOwnedOps, Serializable,
   OnAppointment, CancelKinds, Statuses, ChecksPlace

LEMMA PlainShape ==
    ASSUME NEW op \in PlainOps
    PROVE  /\ op.kind \in Plain
           /\ OnAppointment(op) <=> op \in StatusOps
           /\ OnAppointment(op) <=> op.kind \in CancelKinds \cup {"reschedule"}
           /\ OnAppointment(op) => op.a \in Appts
           /\ ~OnAppointment(op) => op.b \in Blocks /\ op.kind \in AdminBlockKinds
           /\ op.kind \in {"adminClose", "adminMove", "adminCloseDay"} => op.iv \in Intervals
           /\ op.kind = "adminCloseDay" => op.iv \in FullDays
BY FullDaysTyped DEF PlainOps, AdminCloseOps, AdminCloseDayOps, AdminDropOps, StatusOps, Plain,
   AdminBlockKinds, OnAppointment, CancelKinds

LEMMA ReadsTyped ==
    ASSUME NEW op \in SerialOps
    PROVE  ReadsOf(op) \subseteq Tables
BY SerialShape, TablesOf DEF ReadsOf, WholeDay

(* A day is looked at as a whole by whoever places an appointment. *)
LEMMA WholeDays ==
    ASSUME NEW i \in Intervals, NEW k \in Intervals, SameDay(i, k)
    PROVE  WholeDay(i) = WholeDay(k) /\ Of("appts", i) = Of("appts", k)
                                     /\ Of("blocks", i) = Of("blocks", k)
BY DEF WholeDay, Of, SameDay

LEMMA JobShape ==
    ASSUME NEW j \in Jobs
    PROVE  /\ j.pc \in {"idle", "begin", "running", "read", "decided"} \cup Waiting
           /\ j.pc = "idle" <=> j = Idle
           /\ j.pc = "begin" <=> j \in BeginJobs
           /\ j.pc = "running" <=> j \in RunningJobs
           /\ j.pc \in {"read", "decided"} <=> j \in [pc : {"read", "decided"}, op : PlainOps]
           /\ j.pc \in Waiting <=> j \in [pc : Waiting, op : RescheduleOps]
           /\ j.pc \in {"begin", "running"} => j.op \in SerialOps /\ j.tries \in 1 .. MaxTries
           /\ j.pc \in {"read", "decided"} => j.op \in PlainOps
           /\ j.pc \in Waiting => j.op \in RescheduleOps /\ j.op \in StatusOps /\ j.op \in PlainOps
BY DEF Jobs, IdleJobs, Idle, BeginJobs, RunningJobs, PlainJobs, Waiting, PlainOps, StatusOps,
   RescheduleOps

LEMMA RowsTyped ==
    ASSUME Types
    PROVE  /\ \A x \in Appts : appts[x].iv \in Intervals /\ appts[x].status \in Statuses
           /\ \A b \in Blocks : blocks[b].iv \in Intervals
BY DEF Types, ApptRows, BlockRows

LEMMA OverlapSymmetric ==
    \A i, k \in Intervals : Overlap(i, k) <=> Overlap(k, i)
BY DEF Overlap, SameDay

-------------------------------------------------------------------------------
(* What the others' requests learn of a write *)

(* A request of another worker goes on as it was; its snapshot stays, and    *)
(* what it has missed and what is stale for it only grow.                    *)
Later(v, written) ==
    /\ job'[v] \in Jobs
    /\ job'[v].pc = job[v].pc
    /\ job[v].pc # "running" => job'[v] = job[v]
    /\ job[v].pc = "running" =>
         /\ job'[v].op = job[v].op /\ job'[v].tries = job[v].tries
         /\ job'[v].appts = job[v].appts
         /\ job'[v].blocks = job[v].blocks
         /\ job[v].stale \cup written \subseteq job'[v].stale
         /\ job[v].missed \subseteq job'[v].missed

LEMMA StaleJob ==
    ASSUME NEW j \in RunningJobs, NEW written \in SUBSET (Appts \cup Blocks),
           NEW k, k = [j EXCEPT !.stale = @ \cup written]
    PROVE  /\ k \in RunningJobs
           /\ k.op = j.op /\ k.tries = j.tries /\ k.appts = j.appts /\ k.blocks = j.blocks
           /\ k.missed = j.missed /\ k.stale = j.stale \cup written
BY DEF RunningJobs

LEMMA MissedJob ==
    ASSUME NEW j \in RunningJobs, NEW reads \in SUBSET Tables,
           NEW k, k = [j EXCEPT !.missed = @ \cup {reads}]
    PROVE  /\ k \in RunningJobs
           /\ k.op = j.op /\ k.tries = j.tries /\ k.appts = j.appts /\ k.blocks = j.blocks
           /\ k.missed = j.missed \cup {reads} /\ k.stale = j.stale
BY DEF RunningJobs

LEMMA LaterAfterPlainWrite ==
    ASSUME Types, NEW w \in Workers, NEW next \in Jobs,
           NEW written \in SUBSET (Appts \cup Blocks),
           job' = AfterPlainWrite(w, next, written)
    PROVE  /\ job' \in [Workers -> Jobs]
           /\ job'[w] = next
           /\ \A v \in Workers \ {w} : Later(v, written)
<1>1. ASSUME NEW v \in Workers \ {w} PROVE Later(v, written)
  <2>1. job[v] \in Jobs
    BY DEF Types
  <2>2. CASE job[v].pc = "running"
    <3>1. job[v] \in RunningJobs
      BY <2>1, <2>2, JobShape
    <3>2. job'[v] = [job[v] EXCEPT !.stale = @ \cup written]
      BY <2>2 DEF AfterPlainWrite, Stale
    <3>3. /\ job'[v] \in RunningJobs
          /\ job'[v].op = job[v].op /\ job'[v].tries = job[v].tries
          /\ job'[v].appts = job[v].appts
          /\ job'[v].blocks = job[v].blocks
          /\ job'[v].missed = job[v].missed /\ job'[v].stale = job[v].stale \cup written
      BY <3>1, <3>2, StaleJob
    <3> QED BY <2>2, <3>3 DEF Later, Jobs, RunningJobs
  <2>3. CASE job[v].pc # "running"
    BY <2>1, <2>3 DEF AfterPlainWrite, Later
  <2> QED BY <2>2, <2>3
<1>2. job'[w] = next
  BY DEF AfterPlainWrite
<1>3. job' \in [Workers -> Jobs]
  <2>1. \A v \in Workers : job'[v] \in Jobs
    BY <1>1, <1>2 DEF Later
  <2> QED BY <2>1 DEF AfterPlainWrite
<1> QED BY <1>1, <1>2, <1>3

(* After a Serializable commit those that read what it wrote know what it     *)
(* had read.                                                                 *)
LEMMA LaterAfterCommit ==
    ASSUME Types, NEW w \in Workers, NEW op \in SerialOps, job' = AfterCommit(w, op)
    PROVE  /\ job' \in [Workers -> Jobs]
           /\ job'[w] = Idle
           /\ \A v \in Workers \ {w} :
                /\ Later(v, RowsOf(op))
                /\ job[v].pc = "running" /\ WritesOf(op) \cap ReadsOf(job[v].op) # {}
                      => ReadsOf(op) \in job'[v].missed
<1>0. RowsOf(op) \subseteq Appts \cup Blocks
  BY SerialShape DEF RowsOf
<1>1. ASSUME NEW v \in Workers \ {w}
      PROVE  /\ Later(v, RowsOf(op))
             /\ job[v].pc = "running" /\ WritesOf(op) \cap ReadsOf(job[v].op) # {}
                      => ReadsOf(op) \in job'[v].missed
  <2>1. job[v] \in Jobs
    BY DEF Types
  <2>2. CASE job[v].pc = "running"
    <3> DEFINE k == [job[v] EXCEPT !.stale = @ \cup RowsOf(op)]
    <3>1. job[v] \in RunningJobs
      BY <2>1, <2>2, JobShape
    <3>2. /\ k \in RunningJobs
          /\ k.op = job[v].op /\ k.tries = job[v].tries /\ k.appts = job[v].appts /\ k.blocks = job[v].blocks
          /\ k.missed = job[v].missed /\ k.stale = job[v].stale \cup RowsOf(op)
      BY <1>0, <3>1, StaleJob
    <3> HIDE DEF k
    <3>3. job'[v] = IF WritesOf(op) \cap ReadsOf(job[v].op) # {}
                    THEN [k EXCEPT !.missed = @ \cup {ReadsOf(op)}] ELSE k
      BY <2>2 DEF AfterCommit, Missed, Stale, k
    <3>4. CASE WritesOf(op) \cap ReadsOf(job[v].op) # {}
      <4>1. /\ job'[v] \in RunningJobs
            /\ job'[v].op = k.op /\ job'[v].tries = k.tries /\ job'[v].appts = k.appts /\ job'[v].blocks = k.blocks
            /\ job'[v].missed = k.missed \cup {ReadsOf(op)} /\ job'[v].stale = k.stale
        BY <3>2, <3>3, <3>4, ReadsTyped, MissedJob
      <4> QED BY <2>2, <3>2, <4>1 DEF Later, Jobs, RunningJobs
    <3>5. CASE WritesOf(op) \cap ReadsOf(job[v].op) = {}
      BY <2>2, <3>2, <3>3, <3>5 DEF Later, Jobs, RunningJobs
    <3> QED BY <3>4, <3>5
  <2>3. CASE job[v].pc # "running"
    BY <2>1, <2>3 DEF AfterCommit, Later
  <2> QED BY <2>2, <2>3
<1>2. job'[w] = Idle
  BY DEF AfterCommit
<1>3. job' \in [Workers -> Jobs]
  <2>1. \A v \in Workers : job'[v] \in Jobs
    BY <1>1, <1>2 DEF Later, Jobs, IdleJobs
  <2> QED BY <2>1 DEF AfterCommit
<1> QED BY <1>1, <1>2, <1>3

-------------------------------------------------------------------------------
(* What a write leaves of the invariant *)

(* Appointments as they are: what was seen of them is still so. *)
LEMMA SeesSameAppts ==
    ASSUME NEW v \in Workers, NEW written, job[v].pc = "running", SeesAppts(v),
           Later(v, written), appts' = appts
    PROVE  SeesAppts(v)'
BY DEF SeesAppts, Later

(* One appointment's row written: it is stale for whoever names it, and known *)
(* to be missed by whoever looks at the day it comes to occupy.              *)
LEMMA SeesAfterRow ==
    ASSUME Types, NEW v \in Workers, job[v].pc = "running", SeesAppts(v),
           NEW a \in Appts, Later(v, {a}),
           \A x \in Appts \ {a} : appts'[x] = appts[x],
           Occupies(appts'[a]) /\ LooksAtDay(job[v].op) /\ SameDay(appts'[a].iv, job[v].op.iv)
             => WholeDay(job[v].op.iv) \in job'[v].missed
    PROVE  SeesAppts(v)'
<1>1. job[v].op \in SerialOps
  BY JobShape DEF Types
<1>2. /\ job'[v].op = job[v].op /\ job'[v].appts = job[v].appts
      /\ a \in job'[v].stale /\ job[v].stale \subseteq job'[v].stale
      /\ job[v].missed \subseteq job'[v].missed
  BY DEF Later
<1>3. OnAppointment(job[v].op) =>
        job[v].op.a \in job'[v].stale \/ job[v].appts[job[v].op.a] = appts'[job[v].op.a]
  <2>1. CASE job[v].op.a = a
    BY <1>2, <2>1
  <2>2. CASE job[v].op.a # a
    BY <1>1, <1>2, <2>2, SerialShape DEF SeesAppts
  <2> QED BY <2>1, <2>2
<1>4. ASSUME LooksAtDay(job[v].op), NEW x \in Appts,
             Occupies(appts'[x]), SameDay(appts'[x].iv, job[v].op.iv)
      PROVE  job[v].appts[x] = appts'[x] \/ WholeDay(job[v].op.iv) \in job'[v].missed
  <2>1. CASE x = a
    BY <1>4, <2>1
  <2>2. CASE x # a
    BY <1>2, <1>4, <2>2 DEF SeesAppts
  <2> QED BY <2>1, <2>2
<1> QED BY <1>2, <1>3, <1>4 DEF SeesAppts

(* Overlaps of the others stay accepted; those of the row are to be looked   *)
(* at.                                                                       *)
LEMMA AcceptedAfterRow ==
    ASSUME Types, Types', Accepted, NEW a \in Appts,
           \A x \in Appts \ {a} : appts'[x] = appts[x],
           \A p \in waived : a \notin p => p \in waived',
           \A x \in Appts \ {a} :
               Occupies(appts'[a]) /\ Occupies(appts[x])
                   /\ Overlap(appts'[a].iv, appts[x].iv) => {a, x} \in waived'
    PROVE  Accepted'
<1> SUFFICES ASSUME NEW y \in Appts, NEW z \in Appts, y # z,
                    Occupies(appts'[y]), Occupies(appts'[z]),
                    Overlap(appts'[y].iv, appts'[z].iv)
             PROVE  {y, z} \in waived'
  BY DEF Accepted
<1>0. appts'[y].iv \in Intervals /\ appts'[z].iv \in Intervals
  BY DEF Types, ApptRows
<1>1. CASE y = a
  BY <1>1
<1>2. CASE z = a
  <2>1. {a, y} \in waived'
    BY <1>0, <1>2, OverlapSymmetric
  <2> QED BY <1>2, <2>1
<1>3. CASE y # a /\ z # a
  BY <1>3 DEF Accepted
<1> QED BY <1>1, <1>2, <1>3

(* Others keep what the locks promise them, when neither their lock nor the  *)
(* requests of their appointment change.                                     *)
LEMMA LocksAfter ==
    ASSUME Types, LocksOK, NEW w \in Workers, NEW written,
           \A v \in Workers \ {w} : Later(v, written),
           job'[w].pc \notin Waiting, UNCHANGED <<lock, requests>>
    PROVE  LocksOK'
<1>1. \A v \in Workers \ {w} : job[v].pc \in Waiting => job'[v] = job[v]
  BY DEF Later, Waiting
<1>2. \A v \in Workers \ {w} : job'[v].pc = job[v].pc
  BY DEF Later
<1> QED BY <1>1, <1>2 DEF LocksOK

LEMMA KindsAfter ==
    ASSUME Types, KindsOK, NEW w \in Workers, NEW written,
           \A v \in Workers \ {w} : Later(v, written),
           job'[w].pc # "idle" => job'[w].op.kind \in Kinds
    PROVE  KindsOK'
<1>1. \A v \in Workers \ {w} : job'[v].pc = job[v].pc /\ (job[v].pc # "idle" => job'[v].op = job[v].op)
  BY DEF Later
<1> QED BY <1>1 DEF KindsOK

(* A worker takes a step of its own over rows that stay. *)
LEMMA QuietStep ==
    ASSUME Inv, NEW w \in Workers, NEW j \in Jobs, job' = [job EXCEPT ![w] = j],
           UNCHANGED <<appts, blocks, waived, requests>>,
           lock' \in [Appts -> Workers \cup {None}], started' \in 0 .. MaxRequests,
           j.pc # "idle" => j.op.kind \in Kinds,
           j.pc = "running" => j.appts = appts,
           LocksOK'
    PROVE  Inv'
<1>1. job'[w] = j /\ (\A v \in Workers \ {w} : job'[v] = job[v]) /\ job' \in [Workers -> Jobs]
  BY DEF Inv, Types
<1>2. Types'
  BY <1>1 DEF Inv, Types
<1>3. KindsOK'
  BY <1>1 DEF Inv, KindsOK
<1>4. OneRescheduleRequest' /\ Accepted'
  BY DEF Inv, OneRescheduleRequest, Accepted
<1>5. ASSUME NEW v \in Workers, job'[v].pc = "running" PROVE SeesAppts(v)'
  <2>1. CASE v = w
    BY <1>1, <1>5, <2>1 DEF SeesAppts
  <2>2. CASE v # w
    <3>1. job'[v] = job[v] /\ SeesAppts(v)
      BY <1>1, <1>5, <2>2 DEF Inv
    <3> QED BY <3>1 DEF SeesAppts
  <2> QED BY <2>1, <2>2
<1> QED BY <1>2, <1>3, <1>4, <1>5 DEF Inv

LEMMA LocksAfterQuiet ==
    ASSUME Inv, NEW w \in Workers, NEW j \in Jobs, job' = [job EXCEPT ![w] = j],
           UNCHANGED <<requests, lock>>, j.pc \notin Waiting
    PROVE  LocksOK'
<1>1. job'[w] = j /\ \A v \in Workers \ {w} : job'[v] = job[v]
  BY DEF Inv, Types
<1> QED BY <1>1 DEF Inv, LocksOK

-------------------------------------------------------------------------------
(* Steps that write no row *)

LEMMA RequestShape ==
    ASSUME NEW op \in Requests
    PROVE  op \in IF op.kind \in Serializable THEN SerialOps ELSE PlainOps
<1>1. NewAppts \subseteq Appts /\ OldAppts \subseteq Appts
      /\ NewBlocks \subseteq Blocks /\ OldBlocks \subseteq Blocks
  BY DEF NewAppts, OldAppts, NewBlocks, OldBlocks
<1>2. CASE op \in Placing("book", NewAppts, NewStatuses)
  BY <1>1, <1>2, CalendarAssumption DEF Placing, SerialOps, BookOps, Serializable
<1>3. CASE op \in Placing("change", OldAppts, {"SCHEDULED"})
                 \cup [kind : {"change"}, a : OldAppts, iv : Intervals,
                       status : {"RESCHEDULED", "CANCELLED"}, over : {FALSE}]
  <2>1. op \in ChangeOps
    BY <1>1, <1>3 DEF Placing, ChangeOps, Statuses
  <2> QED BY <2>1 DEF SerialOps, ChangeOps, Serializable
<1>4. CASE op \in [kind : {"close", "adminClose"}, b : NewBlocks, iv : Intervals]
  <2>1. op \in CloseOps \/ op \in AdminCloseOps
    BY <1>1, <1>4 DEF CloseOps, AdminCloseOps
  <2> QED BY <2>1 DEF SerialOps, CloseOps, PlainOps, AdminCloseOps, Serializable
<1>5. CASE op \in [kind : {"closeDay", "adminCloseDay"}, b : NewBlocks, iv : FullDays]
  <2>1. op \in CloseDayOps \/ op \in AdminCloseDayOps
    BY <1>1, <1>5 DEF CloseDayOps, AdminCloseDayOps
  <2> QED BY <2>1 DEF SerialOps, CloseDayOps, PlainOps, AdminCloseDayOps, Serializable
<1>6. CASE op \in {o \in [kind : {"adminMove"}, b : OldBlocks, iv : Intervals] :
                    MayMoveTo(blocks[o.b], o.iv)}
  <2>1. op \in AdminCloseOps
    BY <1>1, <1>6 DEF AdminCloseOps
  <2> QED BY <1>6, <2>1 DEF PlainOps, AdminCloseOps, Serializable
<1>7. CASE op \in [kind : {"dropOwned", "adminDrop"}, b : OldBlocks]
  <2>1. op \in DropOwnedOps \/ op \in AdminDropOps
    BY <1>1, <1>7 DEF DropOwnedOps, AdminDropOps
  <2> QED BY <2>1 DEF SerialOps, DropOwnedOps, PlainOps, AdminDropOps, Serializable
<1>8. CASE op \in [kind : CancelKinds \cup {"reschedule"}, a : OldAppts]
  <2>1. op \in StatusOps
    BY <1>1, <1>8 DEF StatusOps
  <2> QED BY <2>1 DEF PlainOps, StatusOps, CancelKinds, Serializable
<1> QED BY <1>2, <1>3, <1>4, <1>5, <1>6, <1>7, <1>8 DEF Requests

LEMMA StartStep ==
    ASSUME Inv, NEW w \in Workers, Start(w)
    PROVE  Inv'
<1>1. PICK op \in Requests :
        /\ op.kind \in Kinds
        /\ job' = [job EXCEPT ![w] =
              IF op.kind \in Serializable THEN [pc |-> "begin", op |-> op, tries |-> 1]
              ELSE [pc |-> "read", op |-> op]]
  BY DEF Start
<1> DEFINE j == IF op.kind \in Serializable THEN [pc |-> "begin", op |-> op, tries |-> 1]
                ELSE [pc |-> "read", op |-> op]
<1>2. j \in Jobs /\ j.pc \in {"begin", "read"} /\ j.op.kind \in Kinds
  BY <1>1, RequestShape, CalendarAssumption DEF Jobs, BeginJobs, PlainJobs
<1>3. job' = [job EXCEPT ![w] = j]
  BY <1>1
<1> HIDE DEF j
<1>4. LocksOK'
  BY <1>2, <1>3, LocksAfterQuiet DEF Start, Waiting
<1>5. started' \in 0 .. MaxRequests
  BY CalendarAssumption DEF Start, Inv, Types
<1> QED BY <1>2, <1>3, <1>4, <1>5, QuietStep DEF Start, Inv, Types

LEMMA BeginStep ==
    ASSUME Inv, NEW w \in Workers, Begin(w)
    PROVE  Inv'
<1> DEFINE j == [pc |-> "running", op |-> job[w].op, tries |-> job[w].tries,
                 appts |-> appts, blocks |-> blocks, missed |-> {}, stale |-> {}]
<1>1. job[w] \in BeginJobs /\ job[w].op.kind \in Kinds
  BY JobShape DEF Begin, Inv, Types, KindsOK
<1>2. j \in Jobs
  BY <1>1 DEF Jobs, RunningJobs, BeginJobs, Inv, Types
<1>3. j.pc = "running" /\ j.op = job[w].op /\ j.appts = appts
  OBVIOUS
<1>4. job' = [job EXCEPT ![w] = j]
  BY DEF Begin
<1> HIDE DEF j
<1>5. LocksOK'
  BY <1>2, <1>3, <1>4, LocksAfterQuiet DEF Begin, Waiting
<1> QED BY <1>1, <1>2, <1>3, <1>4, <1>5, QuietStep DEF Begin, Inv, Types

(* The end of a request, or a new attempt of a transaction. *)
LEMMA EndStep ==
    ASSUME Inv, NEW w \in Workers, job' = [job EXCEPT ![w] = Idle],
           UNCHANGED <<appts, blocks, waived, requests, lock, started>>
    PROVE  Inv'
<1>1. Idle \in Jobs /\ Idle.pc = "idle"
  BY DEF Jobs, IdleJobs, Idle
<1>2. LocksOK'
  BY <1>1, LocksAfterQuiet DEF Waiting
<1> QED BY <1>1, <1>2, QuietStep DEF Inv, Types

LEMMA FailureStep ==
    ASSUME Inv, NEW w \in Workers, SerializationFailure(w)
    PROVE  Inv'
<1>1. CASE job[w].tries < MaxTries
  <2> DEFINE j == [pc |-> "begin", op |-> job[w].op, tries |-> job[w].tries + 1]
  <2>1. /\ job[w].op \in SerialOps /\ job[w].tries \in 1 .. MaxTries
        /\ job[w].op.kind \in Kinds
    BY JobShape DEF SerializationFailure, Inv, Types, KindsOK
  <2>2. j \in Jobs
    BY <1>1, <2>1, CalendarAssumption DEF Jobs, BeginJobs
  <2>3. j.pc = "begin" /\ j.op = job[w].op
    OBVIOUS
  <2>4. job' = [job EXCEPT ![w] = j]
    BY <1>1 DEF SerializationFailure
  <2> HIDE DEF j
  <2>5. LocksOK'
    BY <2>2, <2>3, <2>4, LocksAfterQuiet DEF SerializationFailure, Waiting
  <2> QED BY <2>1, <2>2, <2>3, <2>4, <2>5, QuietStep DEF SerializationFailure, Inv, Types
<1>2. CASE ~(job[w].tries < MaxTries)
  BY <1>2, EndStep DEF SerializationFailure
<1> QED BY <1>1, <1>2

LEMMA ReadStep ==
    ASSUME Inv, NEW w \in Workers, Read(w)
    PROVE  Inv'
<1>1. CASE Allowed(job[w].op, appts, blocks)
  <2> DEFINE j == [pc |-> "decided", op |-> job[w].op]
  <2>1. job[w].op \in PlainOps /\ job[w].op.kind \in Kinds
    BY JobShape DEF Read, Inv, Types, KindsOK
  <2>2. j \in Jobs /\ j.pc = "decided" /\ j.op = job[w].op
    BY <2>1 DEF Jobs, PlainJobs
  <2>3. job' = [job EXCEPT ![w] = j]
    BY <1>1 DEF Read
  <2> HIDE DEF j
  <2>4. LocksOK'
    BY <2>2, <2>3, LocksAfterQuiet DEF Read, Waiting
  <2> QED BY <2>1, <2>2, <2>3, <2>4, QuietStep DEF Read, Inv, Types
<1>2. CASE ~Allowed(job[w].op, appts, blocks)
  BY <1>2, EndStep DEF Read
<1> QED BY <1>1, <1>2

(* The reschedule request takes its row lock, and looks for a request. *)
LEMMA RescheduleUpdateStep ==
    ASSUME Inv, NEW w \in Workers, RescheduleUpdate(w)
    PROVE  Inv'
<1> DEFINE op == job[w].op
           j == [job[w] EXCEPT !.pc = "updated"]
<1>1. job[w] \in [pc : {"read", "decided"}, op : PlainOps] /\ op \in RescheduleOps
  BY JobShape, PlainShape DEF RescheduleUpdate, Inv, Types, OnAppointment, StatusOps, RescheduleOps
<1>2. /\ j \in [pc : Waiting, op : RescheduleOps]
      /\ j.pc = "updated" /\ j.op = op
  BY <1>1 DEF Waiting
<1>3. j \in Jobs
  BY <1>2 DEF Jobs, PlainJobs
<1>4. job' = [job EXCEPT ![w] = j]
  BY DEF RescheduleUpdate
<1>5. op.a \in Appts /\ op.kind \in Kinds
  BY <1>1 DEF RescheduleOps, Inv, KindsOK, RescheduleUpdate
<1>6. lock[op.a] = None /\ lock' = [lock EXCEPT ![op.a] = w]
  BY DEF RescheduleUpdate, TakeRowLock
<1>7. lock' \in [Appts -> Workers \cup {None}]
  BY <1>6 DEF Inv, Types
<1> HIDE DEF j
<1>8. job'[w] = j /\ \A v \in Workers \ {w} : job'[v] = job[v]
  BY <1>4 DEF Inv, Types
<1>9. ASSUME NEW v \in Workers, job'[v].pc \in Waiting
      PROVE  /\ lock'[job'[v].op.a] = v
             /\ job'[v].pc = "missing" => requests'[job'[v].op.a] = 0
  <2>1. CASE v = w
    BY <1>2, <1>5, <1>6, <1>8, <2>1 DEF Inv, Types
  <2>2. CASE v # w
    <3>1. job'[v] = job[v] /\ lock[job[v].op.a] = v
      BY <1>8, <1>9, <2>2 DEF Inv, LocksOK
    <3>2. job[v].op.a # op.a
      BY <1>6, <3>1, CalendarAssumption
    <3>3. requests' = requests /\ lock'[job[v].op.a] = lock[job[v].op.a]
      BY <1>6, <3>2 DEF RescheduleUpdate, Inv, Types
    <3> QED BY <1>9, <3>1, <3>3 DEF Inv, LocksOK
  <2> QED BY <2>1, <2>2
<1>10. LocksOK'
  BY <1>9 DEF LocksOK
<1> QED BY <1>2, <1>3, <1>4, <1>5, <1>7, <1>10, QuietStep DEF RescheduleUpdate, Inv, Types

LEMMA RescheduleFindStep ==
    ASSUME Inv, NEW w \in Workers, RescheduleFind(w)
    PROVE  Inv'
<1> DEFINE op == job[w].op
           j == [job[w] EXCEPT !.pc = IF requests[op.a] = 0 THEN "missing" ELSE "found"]
<1>1. job[w] \in [pc : Waiting, op : RescheduleOps] /\ op.kind \in Kinds
  BY JobShape DEF RescheduleFind, Inv, Types, KindsOK, Waiting
<1>2. /\ j \in [pc : Waiting, op : RescheduleOps]
      /\ j.op = op /\ j.pc \in Waiting /\ j.pc # "running"
      /\ j.pc = "missing" => requests[op.a] = 0
  BY <1>1 DEF Waiting
<1>3. j \in Jobs
  BY <1>2 DEF Jobs, PlainJobs
<1>4. job' = [job EXCEPT ![w] = j]
  BY DEF RescheduleFind
<1> HIDE DEF j
<1>5. job'[w] = j /\ \A v \in Workers \ {w} : job'[v] = job[v]
  BY <1>4 DEF Inv, Types
<1>6. lock[op.a] = w
  BY DEF RescheduleFind, Inv, LocksOK, Waiting
<1>7. LocksOK'
  BY <1>2, <1>5, <1>6 DEF RescheduleFind, Inv, LocksOK
<1> QED BY <1>1, <1>2, <1>3, <1>4, <1>7, QuietStep DEF RescheduleFind, Inv, Types

-------------------------------------------------------------------------------
(* Steps that write *)

(* A status that occupies no time, written in place. *)
LEMMA StatusWritten ==
    ASSUME Types, NEW a \in Appts, NEW status \in Statuses \ {"SCHEDULED"}, WriteStatus(a, status)
    PROVE  /\ appts' \in [Appts -> ApptRows]
           /\ ~Occupies(appts'[a])
           /\ appts'[a].status = status /\ appts'[a].iv = appts[a].iv
           /\ \A x \in Appts \ {a} : appts'[x] = appts[x]
           /\ waived' \subseteq SUBSET Appts
           /\ \A p \in waived : a \notin p => p \in waived'
<1>1. appts[a] \in [status : Statuses, iv : Intervals]
  BY DEF Types, ApptRows
<1>2. /\ [appts[a] EXCEPT !.status = status] \in [status : Statuses, iv : Intervals]
      /\ [appts[a] EXCEPT !.status = status].status = status
      /\ [appts[a] EXCEPT !.status = status].iv = appts[a].iv
  BY <1>1
<1>3. appts' = [appts EXCEPT ![a] = [appts[a] EXCEPT !.status = status]]
  BY DEF WriteStatus
<1>4. /\ appts'[a] = [appts[a] EXCEPT !.status = status]
      /\ appts' \in [Appts -> ApptRows]
      /\ \A x \in Appts \ {a} : appts'[x] = appts[x]
  BY <1>2, <1>3 DEF Types, ApptRows
<1> QED BY <1>2, <1>4 DEF WriteStatus, Without, Types, Occupies

LEMMA WriteCancelStep ==
    ASSUME Inv, NEW w \in Workers, WriteCancel(w)
    PROVE  Inv'
<1> DEFINE a == job[w].op.a
<1>1. a \in Appts
  BY JobShape, PlainShape DEF WriteCancel, Inv, Types, OnAppointment
<1>2. "CANCELLED" \in Statuses \ {"SCHEDULED"} /\ Idle \in Jobs /\ Idle.pc = "idle"
  BY DEF Statuses, Jobs, IdleJobs, Idle
<1>3. /\ appts' \in [Appts -> ApptRows]
      /\ ~Occupies(appts'[a])
      /\ \A x \in Appts \ {a} : appts'[x] = appts[x]
      /\ waived' \subseteq SUBSET Appts
      /\ \A p \in waived : a \notin p => p \in waived'
  BY <1>1, <1>2, StatusWritten DEF WriteCancel, Inv
<1>4. /\ job' \in [Workers -> Jobs] /\ job'[w] = Idle
      /\ \A v \in Workers \ {w} : Later(v, {a})
  <2>1. job' = AfterPlainWrite(w, Idle, {a})
    BY DEF WriteCancel
  <2>2. {a} \in SUBSET (Appts \cup Blocks) /\ Types
    BY <1>1 DEF Inv
  <2> HIDE DEF a
  <2> QED BY <1>2, <2>1, <2>2, LaterAfterPlainWrite
<1>5. Types'
  BY <1>3, <1>4 DEF WriteCancel, WriteStatus, Inv, Types
<1>6. KindsOK' /\ LocksOK'
  BY <1>2, <1>4, KindsAfter, LocksAfter DEF WriteCancel, Inv, Waiting
<1>7. Accepted'
  BY <1>1, <1>3, <1>5, AcceptedAfterRow DEF Inv
<1>8. OneRescheduleRequest'
  BY DEF WriteCancel, Inv, OneRescheduleRequest
<1>9. ASSUME NEW v \in Workers, job'[v].pc = "running" PROVE SeesAppts(v)'
  <2>1. v # w /\ job[v].pc = "running" /\ SeesAppts(v)
    BY <1>2, <1>4, <1>9 DEF Later, Inv
  <2> QED BY <1>1, <1>3, <1>4, <2>1, SeesAfterRow DEF Inv
<1> QED BY <1>5, <1>6, <1>7, <1>8, <1>9 DEF Inv

LEMMA RescheduleCommitStep ==
    ASSUME Inv, NEW w \in Workers, RescheduleCommit(w)
    PROVE  Inv'
<1> DEFINE a == job[w].op.a
<1>1. a \in Appts /\ job[w].pc \in Waiting /\ lock[a] = w
  BY JobShape DEF RescheduleCommit, Inv, Types, Waiting, StatusOps, LocksOK
<1>2. "RESCHEDULED" \in Statuses \ {"SCHEDULED"} /\ Idle \in Jobs /\ Idle.pc = "idle"
  BY DEF Statuses, Jobs, IdleJobs, Idle
<1>3. /\ appts' \in [Appts -> ApptRows]
      /\ ~Occupies(appts'[a])
      /\ \A x \in Appts \ {a} : appts'[x] = appts[x]
      /\ waived' \subseteq SUBSET Appts
      /\ \A p \in waived : a \notin p => p \in waived'
  BY <1>1, <1>2, StatusWritten DEF RescheduleCommit, Inv
<1>4. /\ job' \in [Workers -> Jobs] /\ job'[w] = Idle
      /\ \A v \in Workers \ {w} : Later(v, {a})
  <2>1. job' = AfterPlainWrite(w, Idle, {a})
    BY DEF RescheduleCommit
  <2>2. {a} \in SUBSET (Appts \cup Blocks) /\ Types
    BY <1>1 DEF Inv
  <2> HIDE DEF a
  <2> QED BY <1>2, <2>1, <2>2, LaterAfterPlainWrite
<1>5. /\ requests' \in [Appts -> Nat]
      /\ requests'[a] \leq 1
      /\ \A x \in Appts \ {a} : requests'[x] = requests[x]
  BY <1>1 DEF RescheduleCommit, Inv, Types, OneRescheduleRequest, LocksOK, Waiting
<1>6. /\ lock' \in [Appts -> Workers \cup {None}]
      /\ \A x \in Appts \ {a} : lock'[x] = lock[x]
  BY <1>1 DEF RescheduleCommit, Inv, Types
<1>7. Types'
  BY <1>3, <1>4, <1>5, <1>6 DEF RescheduleCommit, WriteStatus, Inv, Types
<1>8. KindsOK'
  BY <1>2, <1>4, KindsAfter DEF Inv
<1>9. ASSUME NEW v \in Workers, job'[v].pc \in Waiting
      PROVE  /\ lock'[job'[v].op.a] = v
             /\ job'[v].pc = "missing" => requests'[job'[v].op.a] = 0
  <2>1. v # w /\ job'[v] = job[v] /\ job[v].pc \in Waiting
    BY <1>2, <1>4, <1>9 DEF Later, Waiting
  <2>2. lock[job[v].op.a] = v /\ job[v].op.a \in Appts
    BY <2>1, JobShape DEF Inv, LocksOK, Types, StatusOps
  <2>3. job[v].op.a # a
    BY <1>1, <2>1, <2>2
  <2> QED BY <1>5, <1>6, <2>1, <2>2, <2>3 DEF Inv, LocksOK
<1>10. LocksOK'
  BY <1>9 DEF LocksOK
<1>11. Accepted'
  BY <1>1, <1>3, <1>7, AcceptedAfterRow DEF Inv
<1>12. OneRescheduleRequest'
  BY <1>5 DEF Inv, OneRescheduleRequest
<1>13. ASSUME NEW v \in Workers, job'[v].pc = "running" PROVE SeesAppts(v)'
  <2>1. v # w /\ job[v].pc = "running" /\ SeesAppts(v)
    BY <1>2, <1>4, <1>13 DEF Later, Inv
  <2> QED BY <1>1, <1>3, <1>4, <2>1, SeesAfterRow DEF Inv
<1> QED BY <1>7, <1>8, <1>10, <1>11, <1>12, <1>13 DEF Inv

(* A block's row written. *)
LEMMA BlockWritten ==
    ASSUME Types, NEW op \in SerialOps \cup PlainOps, ~OnAppointment(op), WriteBlock(op)
    PROVE  blocks' \in [Blocks -> BlockRows] /\ op.b \in Blocks
           /\ blocks'[op.b] = BlockAfter(op)
           /\ \A c \in Blocks \ {op.b} : blocks'[c] = blocks[c]
<1>1. /\ op.b \in Blocks
      /\ op.kind \in {"close", "closeDay", "adminClose", "adminMove", "adminCloseDay"} => op.iv \in Intervals
      /\ op.kind \in {"close", "closeDay", "adminClose", "adminMove", "adminCloseDay", "dropOwned", "adminDrop"}
  BY SerialShape, PlainShape DEF Serializable, AdminBlockKinds
<1>2. blocks[op.b] \in [kind : {"absent", "interval", "day"}, iv : Intervals]
  BY <1>1 DEF Types, BlockRows
<1>3. BlockAfter(op) \in BlockRows
  BY <1>1, <1>2 DEF BlockAfter, BlockRows
<1> QED BY <1>1, <1>3 DEF WriteBlock, Types

LEMMA InvAfterBlock ==
    ASSUME Inv, NEW w \in Workers, NEW op \in SerialOps \cup PlainOps, ~OnAppointment(op),
           WriteBlock(op), NEW written,
           job' \in [Workers -> Jobs], job'[w] = Idle,
           \A v \in Workers \ {w} : Later(v, written),
           UNCHANGED <<requests, lock, started>>
    PROVE  Inv'
<1>1. Types'
  BY BlockWritten DEF WriteBlock, Inv, Types
<1>2. job'[w].pc = "idle"
  BY DEF Idle
<1>3. KindsOK' /\ LocksOK'
  BY <1>2, KindsAfter, LocksAfter DEF Inv, Waiting
<1>4. OneRescheduleRequest' /\ Accepted'
  BY DEF WriteBlock, Inv, OneRescheduleRequest, Accepted
<1>5. ASSUME NEW v \in Workers, job'[v].pc = "running" PROVE SeesAppts(v)'
  <2>1. v # w /\ job[v].pc = "running" /\ SeesAppts(v)
    BY <1>2, <1>5 DEF Later, Inv
  <2> QED BY <2>1, SeesSameAppts DEF WriteBlock
<1> QED BY <1>1, <1>3, <1>4, <1>5 DEF Inv

LEMMA WriteAdminBlockStep ==
    ASSUME Inv, NEW w \in Workers, WriteAdminBlock(w)
    PROVE  Inv'
<1> DEFINE op == job[w].op
<1>1. op \in PlainOps /\ ~OnAppointment(op) /\ op.b \in Blocks
  BY JobShape, PlainShape DEF WriteAdminBlock, Inv, Types, AdminBlockKinds, CancelKinds
<1>2. CASE WriteBlock(op) /\ job' = AfterPlainWrite(w, Idle, {op.b})
  <2>1. Idle \in Jobs
    BY DEF Jobs, IdleJobs
  <2>2. /\ job' \in [Workers -> Jobs] /\ job'[w] = Idle
        /\ \A v \in Workers \ {w} : Later(v, {op.b})
    BY <1>1, <1>2, <2>1, LaterAfterPlainWrite DEF Inv
  <2> QED BY <1>1, <1>2, <2>2, InvAfterBlock DEF WriteAdminBlock
<1>3. CASE UNCHANGED <<appts, blocks, waived>> /\ job' = Finished(w)
  BY <1>3, EndStep DEF WriteAdminBlock, Finished
<1> QED BY <1>2, <1>3 DEF WriteAdminBlock

(* What an operation that looks at a day reads and writes there. *)
LEMMA DayDependencies ==
    ASSUME NEW op \in SerialOps, LooksAtDay(op)
    PROVE  /\ op.iv \in Intervals
           /\ Of("appts", op.iv) \in ReadsOf(op)
           /\ \E table \in WholeDay(op.iv) : table \in WritesOf(op)
           /\ OnAppointment(op) => /\ ReadsOf(op) = WholeDay(op.iv)
                                   /\ Of("appts", op.iv) \in WritesOf(op)
<1>1. CASE ChecksPlace(op)
  BY <1>1, SerialShape DEF ReadsOf, WritesOf, WholeDay
<1>2. CASE op.kind = "close"
  BY <1>2, SerialShape DEF ReadsOf, WritesOf, WholeDay
<1>3. CASE op.kind = "closeDay"
  BY <1>3, SerialShape DEF ReadsOf, WritesOf, WholeDay
<1> QED BY <1>1, <1>2, <1>3 DEF LooksAtDay

(* A transaction that is not refused decided on what is still so. *)
LEMMA CommitSeesAppts ==
    ASSUME Inv, NEW w \in Workers, job[w].pc = "running", ~Refused(w)
    PROVE  /\ job[w].op \in SerialOps
           /\ job[w].appts \in [Appts -> ApptRows]
           /\ OnAppointment(job[w].op) => job[w].appts[job[w].op.a] = appts[job[w].op.a]
           /\ LooksAtDay(job[w].op) =>
                \A x \in Appts : Occupies(appts[x]) /\ SameDay(appts[x].iv, job[w].op.iv)
                                => job[w].appts[x] = appts[x]
<1> DEFINE j == job[w]
           op == job[w].op
<1>1. op \in SerialOps /\ j \in RunningJobs /\ SeesAppts(w)
  BY JobShape DEF Inv, Types
<1>2. OnAppointment(op) => j.appts[op.a] = appts[op.a]
  BY <1>1 DEF Refused, RowsOf, SeesAppts
<1>3. LooksAtDay(op) => WholeDay(op.iv) \notin j.missed
  BY <1>1, DayDependencies DEF Refused
<1>4. j.appts \in [Appts -> ApptRows]
  BY <1>1 DEF RunningJobs
<1> QED BY <1>1, <1>2, <1>3, <1>4 DEF SeesAppts

(* The pairs that the appointment is not in stay; the ghost stays pairs. *)
LEMMA WaivedRows ==
    ASSUME Types, NEW w \in Workers, NEW op, op.a \in Appts, op.over \in BOOLEAN,
           waived' = WaivedBy(w, op)
    PROVE  /\ waived' \subseteq SUBSET Appts
           /\ \A p \in waived : op.a \notin p => p \in waived'
BY DEF Types, WaivedBy, WaivedAfter, Without, PairsOf, Clashes

(* Whom the committed appointment meets it meets with leave. *)
LEMMA PlacedIsAccepted ==
    ASSUME Inv, NEW w \in Workers, job[w].pc = "running", ~Refused(w),
           OnAppointment(job[w].op), job[w].op.status = "SCHEDULED",
           waived' = WaivedBy(w, job[w].op),
           NEW x \in Appts \ {job[w].op.a},
           Occupies(appts[x]), Overlap(job[w].op.iv, appts[x].iv)
    PROVE  {job[w].op.a, x} \in waived'
<1> DEFINE j == job[w]
           op == job[w].op
           a == job[w].op.a
<1>1. op \in SerialOps /\ a \in Appts /\ op.iv \in Intervals /\ LooksAtDay(op)
      /\ op.over \in BOOLEAN
  BY CommitSeesAppts, SerialShape DEF LooksAtDay
<1>2. Overlap(appts[x].iv, op.iv) /\ SameDay(appts[x].iv, op.iv)
  BY <1>1, RowsTyped, OverlapSymmetric DEF Overlap, Inv
<1>3. j.appts[a] = appts[a] /\ j.appts[x] = appts[x]
  BY <1>1, <1>2, CommitSeesAppts
<1>4. x \in Clashes(appts, a, op.iv) /\ x \in Clashes(j.appts, a, op.iv)
  BY <1>2, <1>3 DEF Clashes
<1>5. {a, x} \in WaivedAfter(waived, j.appts, a, op.status, op.iv, op.over)
  <2>1. CASE KeepsPlace(j.appts, a, op.status, op.iv) /\ ~op.over
    <3>1. Occupies(appts[a]) /\ op.iv = appts[a].iv
      BY <1>3, <2>1 DEF KeepsPlace
    <3>2. {a, x} \in waived
      BY <1>1, <3>1 DEF Inv, Accepted
    <3> QED BY <2>1, <3>2 DEF WaivedAfter
  <2>2. CASE ~(KeepsPlace(j.appts, a, op.status, op.iv) /\ ~op.over)
    BY <1>4, <2>2 DEF WaivedAfter, PairsOf
  <2> QED BY <2>1, <2>2
<1>6. {a, x} \ {a} \subseteq Clashes(appts, a, op.iv)
  BY <1>4
<1> QED BY <1>5, <1>6 DEF WaivedBy

LEMMA CommitAppointmentStep ==
    ASSUME Inv, NEW w \in Workers, Commit(w), OnAppointment(job[w].op)
    PROVE  Inv'
<1> DEFINE op == job[w].op
           a == job[w].op.a
<1>1. /\ op \in SerialOps /\ a \in Appts /\ op.iv \in Intervals
      /\ op.status \in Statuses /\ op.over \in BOOLEAN
      /\ job[w].pc = "running" /\ ~Refused(w)
  BY CommitSeesAppts, SerialShape DEF Commit
<1>2. /\ appts' = [appts EXCEPT ![a] = [status |-> op.status, iv |-> op.iv]]
      /\ waived' = WaivedBy(w, op) /\ blocks' = blocks
      /\ job' = AfterCommit(w, op)
      /\ UNCHANGED <<requests, lock, started>>
  BY DEF Commit
<1>3. /\ appts' \in [Appts -> ApptRows]
      /\ appts'[a].status = op.status /\ appts'[a].iv = op.iv
      /\ \A x \in Appts \ {a} : appts'[x] = appts[x]
  BY <1>1, <1>2 DEF Inv, Types, ApptRows
<1>4. /\ job' \in [Workers -> Jobs] /\ job'[w] = Idle
      /\ \A v \in Workers \ {w} :
            /\ Later(v, {a})
            /\ job[v].pc = "running" /\ WritesOf(op) \cap ReadsOf(job[v].op) # {}
                  => ReadsOf(op) \in job'[v].missed
  <2>1. RowsOf(op) = {a}
    BY DEF RowsOf
  <2> QED BY <1>1, <1>2, <2>1, LaterAfterCommit DEF Inv
<1>5. /\ waived' \subseteq SUBSET Appts
      /\ \A p \in waived : a \notin p => p \in waived'
  BY <1>1, <1>2, WaivedRows DEF Inv
<1>6. Types'
  BY <1>2, <1>3, <1>4, <1>5 DEF Inv, Types
<1>7. job'[w].pc = "idle"
  BY <1>4 DEF Idle
<1>8. KindsOK' /\ LocksOK'
  BY <1>2, <1>4, <1>7, KindsAfter, LocksAfter DEF Inv, Waiting
<1>9. OneRescheduleRequest'
  BY <1>2 DEF Inv, OneRescheduleRequest
<1>10. Accepted'
  <2>1. ASSUME NEW x \in Appts \ {a}, Occupies(appts'[a]), Occupies(appts[x]),
               Overlap(appts'[a].iv, appts[x].iv)
        PROVE  {a, x} \in waived'
    BY <1>1, <1>2, <1>3, <2>1, PlacedIsAccepted DEF Occupies
  <2> QED BY <1>1, <1>3, <1>5, <1>6, <2>1, AcceptedAfterRow DEF Inv
<1>11. ASSUME NEW v \in Workers, job'[v].pc = "running" PROVE SeesAppts(v)'
  <2>1. v # w /\ job[v].pc = "running" /\ SeesAppts(v) /\ job[v].op \in SerialOps
    BY <1>4, <1>7, <1>11, JobShape DEF Later, Inv, Types
  <2>2. ASSUME Occupies(appts'[a]), LooksAtDay(job[v].op), SameDay(appts'[a].iv, job[v].op.iv)
        PROVE  WholeDay(job[v].op.iv) \in job'[v].missed
    <3>1. op.status = "SCHEDULED" /\ LooksAtDay(op)
      BY <1>1, <1>3, <2>2, SerialShape DEF Occupies, LooksAtDay
    <3>2. /\ ReadsOf(op) = WholeDay(op.iv) /\ Of("appts", op.iv) \in WritesOf(op)
          /\ job[v].op.iv \in Intervals /\ Of("appts", job[v].op.iv) \in ReadsOf(job[v].op)
      BY <1>1, <2>1, <2>2, <3>1, DayDependencies
    <3>3. WholeDay(op.iv) = WholeDay(job[v].op.iv) /\ Of("appts", op.iv) = Of("appts", job[v].op.iv)
      BY <1>1, <1>3, <2>2, <3>2, WholeDays
    <3> QED BY <1>4, <2>1, <3>2, <3>3
  <2> QED BY <1>1, <1>3, <1>4, <2>1, <2>2, SeesAfterRow DEF Inv
<1> QED BY <1>6, <1>8, <1>9, <1>10, <1>11 DEF Inv

LEMMA CommitBlockStep ==
    ASSUME Inv, NEW w \in Workers, Commit(w), ~OnAppointment(job[w].op)
    PROVE  Inv'
<1>1. job[w].op \in SerialOps
  BY CommitSeesAppts DEF Commit
<1>2. /\ WriteBlock(job[w].op) /\ job' = AfterCommit(w, job[w].op)
      /\ UNCHANGED <<requests, lock, started>>
  BY DEF Commit
<1>3. /\ job' \in [Workers -> Jobs] /\ job'[w] = Idle
      /\ \A v \in Workers \ {w} : Later(v, RowsOf(job[w].op))
  BY <1>1, <1>2, LaterAfterCommit DEF Inv
<1> QED BY <1>1, <1>2, <1>3, InvAfterBlock

-------------------------------------------------------------------------------
(* The invariant *)

LEMMA InitInv == Init => Inv
<1> SUFFICES ASSUME Init PROVE Inv
  OBVIOUS
<1>1. AnInterval \in Intervals
  BY IntervalsAssumption DEF AnInterval
<1>2. \A a \in Appts : appts[a].status = "absent"
  BY DEF Init, NoAppts
<1>3. \A w \in Workers : job[w].pc = "idle"
  BY DEF Init, Idle
<1>4. Types
  BY <1>1, CalendarAssumption
     DEF Init, Types, NoAppts, NoBlocks, ApptRows, BlockRows, Statuses, Jobs, IdleJobs
<1>5. KindsOK /\ LocksOK /\ Accepted /\ OneRescheduleRequest
  BY <1>2, <1>3 DEF Init, KindsOK, LocksOK, Waiting, Accepted, Occupies, OneRescheduleRequest
<1> QED BY <1>3, <1>4, <1>5 DEF Inv

LEMMA NextInv == Inv /\ [Next]_vars => Inv'
<1> SUFFICES ASSUME Inv, [Next]_vars PROVE Inv'
  OBVIOUS
<1>1. CASE UNCHANGED vars
  BY <1>1 DEF vars, Inv, Types, KindsOK, LocksOK, OneRescheduleRequest, Accepted, SeesAppts
<1>2. ASSUME NEW w \in Workers, Start(w) \/ Step(w) PROVE Inv'
  <2>1. CASE Reject(w)
    BY <2>1, EndStep DEF Reject, Finished
  <2> QED BY <1>2, <2>1, StartStep, BeginStep, CommitAppointmentStep, CommitBlockStep, FailureStep,
             ReadStep, WriteAdminBlockStep, WriteCancelStep, RescheduleUpdateStep,
             RescheduleFindStep, RescheduleCommitStep DEF Step
<1> QED BY <1>1, <1>2 DEF Next, Rest

(* No commit puts an appointment into a block its transaction has seen, and   *)
(* no protected closure closes the time of an appointment.                   *)
LEMMA SeenKeptFree ==
    ASSUME Inv, NEW w \in Workers, Commit(w), NEW a \in Appts, NEW b \in Blocks,
           Crossed(appts', blocks', a, b), ~Crossed(appts, blocks, a, b)
    PROVE  NamesAppt(w, a) /\ job[w].blocks[b] # blocks[b]
<1> DEFINE j == job[w]
           op == job[w].op
<1>1. op \in SerialOps /\ j.pc = "running" /\ ~Refused(w)
  BY CommitSeesAppts DEF Commit
<1>2. CASE OnAppointment(op)
  <2>1. /\ appts' = [appts EXCEPT ![op.a] = [status |-> op.status, iv |-> op.iv]]
        /\ blocks' = blocks
    BY <1>2 DEF Commit
  <2>2. a = op.a
    <3>1. a # op.a => appts'[a] = appts[a]
      BY <2>1 DEF Inv, Types
    <3> QED BY <2>1, <3>1 DEF Crossed
  <2>3. appts'[a].status = op.status /\ appts'[a].iv = op.iv
    BY <2>1, <2>2 DEF Inv, Types
  <2>4. op.status = "SCHEDULED" /\ op.kind \in {"book", "change"}
    BY <1>1, <1>2, <2>3, SerialShape DEF Crossed, Occupies
  <2>5. \E over \in BOOLEAN : Free(j.appts, j.blocks, op.a, op.iv, over)
    BY <1>1, <2>4, SerialShape DEF Commit, Allowed, MayChange, KeepsPlace
  <2>6. j.blocks[b] # blocks[b]
    <3>1. /\ j.blocks[b].kind = "day" => ~SameDay(j.blocks[b].iv, op.iv)
          /\ j.blocks[b].kind = "interval" => ~Overlap(j.blocks[b].iv, op.iv)
      BY <2>5 DEF Free, DayClosed
    <3> QED BY <2>1, <2>3, <3>1 DEF Crossed
  <2> QED BY <1>1, <1>2, <2>2, <2>6 DEF NamesAppt
<1>3. CASE ~OnAppointment(op)
  <2>1. WriteBlock(op)
    BY <1>3 DEF Commit
  <2>2. /\ appts' = appts /\ op.b \in Blocks /\ blocks'[op.b] = BlockAfter(op)
        /\ \A c \in Blocks \ {op.b} : blocks'[c] = blocks[c]
    BY <1>1, <1>3, <2>1, BlockWritten DEF WriteBlock, Inv
  <2>3. b = op.b
    BY <2>2 DEF Crossed
  <2>4. Occupies(appts[a]) /\ appts[a].iv \in Intervals
    BY <2>2, RowsTyped DEF Crossed, Inv
  <2>5. CASE op.kind = "close"
    <3>1. op.iv \in Intervals /\ Overlap(op.iv, appts[a].iv)
      BY <1>1, <2>2, <2>3, <2>5, SerialShape DEF BlockAfter, Crossed
    <3>2. Overlap(appts[a].iv, op.iv) /\ SameDay(appts[a].iv, op.iv)
      BY <2>4, <3>1, OverlapSymmetric DEF Overlap
    <3>3. j.appts[a] = appts[a]
      BY <1>1, <2>4, <2>5, <3>2, CommitSeesAppts DEF LooksAtDay
    <3>4. MayBlock(j.appts, op.iv)
      BY <2>5 DEF Commit, Allowed
    <3> QED BY <2>4, <3>2, <3>3, <3>4 DEF MayBlock
  <2>6. CASE op.kind = "closeDay"
    <3>1. SameDay(appts[a].iv, op.iv)
      BY <2>2, <2>3, <2>6 DEF BlockAfter, Crossed, SameDay
    <3>2. j.appts[a] = appts[a]
      BY <1>1, <2>4, <2>6, <3>1, CommitSeesAppts DEF LooksAtDay
    <3>3. DayIsEmpty(j.appts, op.iv)
      BY <2>6 DEF Commit, Allowed, MayCloseDay
    <3> QED BY <2>4, <3>1, <3>2, <3>3 DEF DayIsEmpty
  <2>7. CASE op.kind = "dropOwned"
    <3>1. blocks'[b].kind = "absent"
      <4>1. blocks[op.b] \in [kind : {"absent", "interval", "day"}, iv : Intervals]
        BY <2>2 DEF Inv, Types, BlockRows
      <4> QED BY <2>2, <2>3, <2>7, <4>1 DEF BlockAfter
    <3> QED BY <3>1 DEF Crossed
  <2> QED BY <1>1, <1>3, <2>5, <2>6, <2>7, SerialShape DEF Serializable
<1> QED BY <1>2, <1>3

LEMMA StatusCrossesNothing ==
    ASSUME Types, NEW a \in Appts, NEW status \in Statuses \ {"SCHEDULED"}, WriteStatus(a, status),
           NEW x \in Appts, NEW b \in Blocks, Crossed(appts', blocks', x, b)
    PROVE  Crossed(appts, blocks, x, b)
<1>1. ~Occupies(appts'[a]) /\ (\A y \in Appts \ {a} : appts'[y] = appts[y]) /\ blocks' = blocks
  BY StatusWritten DEF WriteStatus
<1> QED BY <1>1 DEF Crossed

LEMMA NextSeesBlocks ==
    ASSUME Inv, [Next]_vars, NEW a \in Appts, NEW b \in Blocks,
           Crossed(appts', blocks', a, b), ~Crossed(appts, blocks, a, b)
    PROVE  \E w \in Workers :
             \/ job[w].pc = "decided" /\ NamesBlock(w, b)
             \/ job[w].pc = "running" /\ NamesAppt(w, a) /\ job[w].blocks[b] # blocks[b]
<1>1. ~(UNCHANGED <<appts, blocks>>)
  OBVIOUS
<1>2. PICK w \in Workers : Commit(w) \/ WriteAdminBlock(w) \/ WriteCancel(w) \/ RescheduleCommit(w)
  BY <1>1 DEF Next, Rest, vars, Step, Start, Begin, Reject, SerializationFailure, Read,
              RescheduleUpdate, RescheduleFind
<1>3. CASE Commit(w)
  BY <1>3, SeenKeptFree DEF Commit
<1>4. CASE WriteAdminBlock(w)
  <2>1. job[w].pc = "decided" /\ job[w].op \in PlainOps /\ ~OnAppointment(job[w].op)
        /\ WriteBlock(job[w].op)
    BY <1>1, <1>4, JobShape, PlainShape
       DEF WriteAdminBlock, Inv, Types, AdminBlockKinds, CancelKinds
  <2>2. appts' = appts /\ \A c \in Blocks \ {job[w].op.b} : blocks'[c] = blocks[c]
    BY <2>1, BlockWritten DEF WriteBlock, Inv
  <2>3. b = job[w].op.b
    BY <2>2 DEF Crossed
  <2> QED BY <2>1, <2>3 DEF NamesBlock
<1>5. CASE WriteCancel(w)
  <2>1. job[w].op.a \in Appts /\ WriteStatus(job[w].op.a, "CANCELLED")
    BY <1>5, JobShape, PlainShape DEF WriteCancel, Inv, Types, OnAppointment
  <2> QED BY <2>1, StatusCrossesNothing DEF Inv, Statuses
<1>6. CASE RescheduleCommit(w)
  <2>1. job[w].op.a \in Appts /\ WriteStatus(job[w].op.a, "RESCHEDULED")
    BY <1>6, JobShape DEF RescheduleCommit, Inv, Types, Waiting, StatusOps
  <2> QED BY <2>1, StatusCrossesNothing DEF Inv, Statuses
<1> QED BY <1>2, <1>3, <1>4, <1>5, <1>6

-------------------------------------------------------------------------------
(* What becomes of the requests under way *)

(* The jobs are those there were, some of them ended. *)
Remain ==
    \A v \in Workers : job'[v].pc # "idle" => job[v].pc # "idle" /\ job'[v].op = job[v].op

LEMMA OpsTyped ==
    ASSUME Types, NEW v \in Workers, job[v].pc # "idle"
    PROVE  /\ job[v].op \in SerialOps \cup PlainOps
           /\ OnAppointment(job[v].op) => job[v].op.a \in Appts
           /\ ~OnAppointment(job[v].op) => job[v].op.b \in Blocks
<1>1. job[v].op \in SerialOps \cup PlainOps
  BY JobShape DEF Types
<1> QED BY <1>1, SerialShape, PlainShape

(* The others' requests go on, the writer's has ended. *)
LEMMA OthersRemain ==
    ASSUME NEW w \in Workers, job[w].pc # "idle", job'[w] = Idle, NEW written,
           \A v \in Workers \ {w} : Later(v, written)
    PROVE  Remain /\ job'[w].pc = "idle"
BY DEF Remain, Later, Idle

LEMMA OwnStepRemains ==
    ASSUME Inv, NEW w \in Workers, job[w].pc # "idle", NEW j, job' = [job EXCEPT ![w] = j],
           j.pc = "idle" \/ j.op = job[w].op
    PROVE  Remain
<1>1. job'[w] = j /\ \A v \in Workers \ {w} : job'[v] = job[v]
  BY DEF Inv, Types
<1> QED BY <1>1 DEF Remain

(* Whoever writes a row is done with that. *)
LEMMA WritersEnd ==
    ASSUME Inv, NEW w \in Workers,
           Commit(w) \/ WriteAdminBlock(w) \/ WriteCancel(w) \/ RescheduleCommit(w)
    PROVE  /\ job[w].pc # "idle" /\ job'[w] = Idle /\ job'[w].pc = "idle" /\ Remain
           /\ \E written : \A v \in Workers \ {w} : Later(v, written)
<1> DEFINE op == job[w].op
<1>1. job[w].pc # "idle" /\ Types
  BY DEF Commit, WriteAdminBlock, WriteCancel, RescheduleCommit, Inv
<1>2. op \in SerialOps \cup PlainOps /\ RowsOf(op) \in SUBSET (Appts \cup Blocks) /\ Idle \in Jobs
  BY <1>1, OpsTyped DEF RowsOf, Jobs, IdleJobs
<1>3. job'[w] = Idle /\ \E written : \A v \in Workers \ {w} : Later(v, written)
  <2>1. CASE Commit(w)
    <3>1. op \in SerialOps /\ job' = AfterCommit(w, op)
      BY <2>1, CommitSeesAppts DEF Commit
    <3> QED BY <1>1, <3>1, LaterAfterCommit
  <2>2. CASE job' = Finished(w)
    <3>1. job'[w] = Idle /\ \A v \in Workers \ {w} : job'[v] = job[v] /\ job[v] \in Jobs
      BY <1>1, <2>2 DEF Finished, Types
    <3>2. \A v \in Workers \ {w} : job[v].pc = "running" => job[v] \in RunningJobs
      BY <3>1, JobShape
    <3>3. \A v \in Workers \ {w} : Later(v, {})
      BY <3>1, <3>2 DEF Later
    <3> QED BY <3>1, <3>3
  <2>3. CASE job' = AfterPlainWrite(w, Idle, RowsOf(op))
    <3> HIDE DEF op
    <3> QED BY <1>1, <1>2, <2>3, LaterAfterPlainWrite
  <2>4. Commit(w) \/ job' = Finished(w) \/ job' = AfterPlainWrite(w, Idle, RowsOf(op))
    <3>1. job[w].pc \in Waiting => OnAppointment(op)
      BY <1>1, JobShape, PlainShape DEF Types
    <3> QED BY <3>1 DEF WriteAdminBlock, WriteCancel, RescheduleCommit, RowsOf, OnAppointment,
                        AdminBlockKinds, CancelKinds, Waiting
  <2> QED BY <2>1, <2>2, <2>3, <2>4
<1>4. Remain /\ job'[w].pc = "idle"
  BY <1>1, <1>3, OthersRemain
<1> QED BY <1>1, <1>3, <1>4

LEMMA StepRemains ==
    ASSUME Inv, NEW w \in Workers, Step(w)
    PROVE  Remain
<1>1. CASE Begin(w) \/ Reject(w) \/ SerializationFailure(w) \/ Read(w)
  <2>1. job[w].pc # "idle" /\ Idle.pc = "idle"
    BY <1>1 DEF Begin, Reject, SerializationFailure, Read, Idle
  <2>2. \E j : job' = [job EXCEPT ![w] = j] /\ (j.pc = "idle" \/ j.op = job[w].op)
    BY <1>1, <2>1 DEF Begin, Reject, SerializationFailure, Read, Finished
  <2> QED BY <2>1, <2>2, OwnStepRemains
<1>2. CASE RescheduleUpdate(w) \/ RescheduleFind(w)
  <2>1. job[w].pc # "idle" /\ job[w] \in [pc : {"read", "decided"} \cup Waiting, op : PlainOps]
    BY <1>2, JobShape DEF RescheduleUpdate, RescheduleFind, Inv, Types, Waiting
  <2>2. \E pc : job' = [job EXCEPT ![w] = [job[w] EXCEPT !.pc = pc]]
    BY <1>2 DEF RescheduleUpdate, RescheduleFind
  <2>3. \A pc : [job[w] EXCEPT !.pc = pc].op = job[w].op
    BY <2>1
  <2> QED BY <2>1, <2>2, <2>3, OwnStepRemains
<1> QED BY <1>1, <1>2, WritersEnd DEF Step

-------------------------------------------------------------------------------
(* Nobody waits for ever, nobody tries for ever *)

(* A row lock belongs to a reschedule request between its update and its      *)
(* commit, and to nothing else: it is not left behind.                       *)
LocksHeld ==
    \A a \in Appts : lock[a] # None =>
        \E w \in Workers : lock[a] = w /\ job[w].pc \in Waiting /\ job[w].op.a = a

(* What may have to wait for a row lock: a commit, a cancellation, another    *)
(* reschedule request's update.                                              *)
HeldUp(w) ==
    /\ job[w].pc \in {"running", "decided"} /\ OnAppointment(job[w].op)
    /\ lock[job[w].op.a] # None

SomebodyGoesOn ==
    (\E w \in Workers : job[w].pc # "idle")
        => \E w \in Workers : job[w].pc # "idle" /\ ~HeldUp(w)

(* How many steps of its own a request may still take. *)
Left(j) ==
    CASE j.pc = "idle" -> 0
      [] j.pc = "begin" -> 2 * (MaxTries - j.tries) + 2
      [] j.pc = "running" -> 2 * (MaxTries - j.tries) + 1
      [] j.pc = "read" -> 4
      [] j.pc = "decided" -> 3
      [] j.pc = "updated" -> 2
      [] OTHER -> 1

(* Every step starts a request or brings one nearer to its end, and leaves   *)
(* the others where they are.                                                *)
RequestsDescend ==
    [][\E w \in Workers :
          /\ job[w].pc = "idle" \/ Left(job'[w]) < Left(job[w])
          /\ Left(job'[w]) \in 0 .. 2 * MaxTries + 2
          /\ \A v \in Workers \ {w} : Left(job'[v]) = Left(job[v])]_vars

LEMMA LeftOf ==
    ASSUME NEW j \in Jobs
    PROVE  /\ j.pc = "idle" => Left(j) = 0
           /\ j.pc = "begin" => Left(j) = 2 * (MaxTries - j.tries) + 2
           /\ j.pc = "running" => Left(j) = 2 * (MaxTries - j.tries) + 1
           /\ j.pc = "read" => Left(j) = 4
           /\ j.pc = "decided" => Left(j) = 3
           /\ j.pc = "updated" => Left(j) = 2
           /\ j.pc \in {"missing", "found"} => Left(j) = 1
           /\ j.pc \in {"begin", "running"} => j.tries \in 1 .. MaxTries
           /\ j.pc \in {"idle", "begin", "running", "read", "decided"} \cup Waiting
BY JobShape DEF Left, Waiting

(* The requests of the others, across a step of one. *)
LEMMA OthersGoOn ==
    ASSUME Inv, NEW w \in Workers, Start(w) \/ Step(w), NEW v \in Workers \ {w}
    PROVE  /\ job'[v].pc = job[v].pc
           /\ job[v].pc # "running" => job'[v] = job[v]
           /\ job[v].pc = "running" => job'[v].tries = job[v].tries
<1>1. CASE \E j : job' = [job EXCEPT ![w] = j]
  BY <1>1 DEF Inv, Types
<1>2. CASE Commit(w) \/ WriteAdminBlock(w) \/ WriteCancel(w) \/ RescheduleCommit(w)
  BY <1>2, WritersEnd DEF Later
<1> QED BY <1>1, <1>2 DEF Step, Start, Begin, Reject, SerializationFailure, Read, Finished,
                          RescheduleUpdate, RescheduleFind

LEMMA NextLocksHeld ==
    ASSUME Inv, LocksHeld, [Next]_vars
    PROVE  LocksHeld'
<1>1. CASE UNCHANGED vars
  BY <1>1 DEF vars, LocksHeld
<1>2. ASSUME NEW w \in Workers, Start(w) \/ Step(w) PROVE LocksHeld'
  <2> SUFFICES ASSUME NEW a \in Appts, lock'[a] # None
               PROVE  \E v \in Workers : lock'[a] = v /\ job'[v].pc \in Waiting /\ job'[v].op.a = a
    BY DEF LocksHeld
  <2>1. ASSUME NEW v \in Workers, v # w, lock'[a] = v, lock[a] = v,
               job[v].pc \in Waiting, job[v].op.a = a
        PROVE  job'[v].pc \in Waiting /\ job'[v].op.a = a
    BY <1>2, <2>1, OthersGoOn DEF Waiting
  <2>2. CASE RescheduleUpdate(w)
    <3>1. job[w] \in [pc : {"read", "decided"}, op : PlainOps] /\ lock \in [Appts -> Workers \cup {None}]
      BY <2>2, JobShape DEF RescheduleUpdate, Inv, Types
    <3>2. job'[w] = [job[w] EXCEPT !.pc = "updated"]
      BY <2>2 DEF RescheduleUpdate, Inv, Types
    <3>3. job'[w].pc \in Waiting /\ job'[w].op.a = job[w].op.a
      BY <3>1, <3>2 DEF Waiting
    <3>4. CASE a = job[w].op.a
      BY <2>2, <3>1, <3>3, <3>4 DEF RescheduleUpdate, TakeRowLock
    <3>5. CASE a # job[w].op.a
      <4>1. lock'[a] = lock[a] /\ lock[a] # None
        BY <2>2, <3>1, <3>5 DEF RescheduleUpdate, TakeRowLock
      <4>2. PICK v \in Workers : lock[a] = v /\ job[v].pc \in Waiting /\ job[v].op.a = a
        BY <4>1 DEF LocksHeld
      <4>3. v # w
        BY <3>5, <4>2
      <4> QED BY <2>1, <4>1, <4>2, <4>3
    <3> QED BY <3>4, <3>5
  <2>3. CASE RescheduleFind(w)
    <3>1. job[w] \in [pc : Waiting, op : RescheduleOps] /\ lock' = lock
      BY <2>3, JobShape DEF RescheduleFind, Inv, Types, Waiting
    <3>2. \E pc \in Waiting : job'[w] = [job[w] EXCEPT !.pc = pc]
      BY <2>3 DEF RescheduleFind, Inv, Types, Waiting
    <3>3. job'[w].pc \in Waiting /\ job'[w].op.a = job[w].op.a
      BY <3>1, <3>2
    <3> QED BY <2>1, <3>1, <3>3 DEF LocksHeld
  <2>4. CASE RescheduleCommit(w)
    <3>1. job[w].op.a \in Appts /\ lock \in [Appts -> Workers \cup {None}]
      BY <2>4, JobShape DEF RescheduleCommit, Inv, Types, Waiting, RescheduleOps
    <3>2. a # job[w].op.a /\ lock'[a] = lock[a]
      BY <2>4, <3>1 DEF RescheduleCommit
    <3> QED BY <2>1, <3>2 DEF LocksHeld
  <2>5. CASE lock' = lock /\ job[w].pc \notin Waiting
    BY <2>1, <2>5 DEF LocksHeld
  <2>6. \/ RescheduleUpdate(w) \/ RescheduleFind(w) \/ RescheduleCommit(w)
        \/ lock' = lock /\ job[w].pc \notin Waiting
    BY <1>2 DEF Step, Start, Begin, Commit, Reject, SerializationFailure, Read, WriteAdminBlock,
                WriteCancel, Waiting
  <2> QED BY <2>2, <2>3, <2>4, <2>5, <2>6
<1> QED BY <1>1, <1>2 DEF Next, Rest

(* Who is held up is so by one that is not. *)
LEMMA HolderGoesOn ==
    ASSUME Inv, LocksHeld
    PROVE  SomebodyGoesOn
<1> SUFFICES ASSUME NEW w \in Workers, job[w].pc # "idle"
             PROVE  \E v \in Workers : job[v].pc # "idle" /\ ~HeldUp(v)
  BY DEF SomebodyGoesOn
<1>1. CASE ~HeldUp(w)
  BY <1>1
<1>2. CASE HeldUp(w)
  <2>1. job[w].op.a \in Appts /\ lock[job[w].op.a] # None
    BY <1>2, OpsTyped DEF HeldUp, Inv
  <2>2. PICK v \in Workers : job[v].pc \in Waiting
    BY <2>1 DEF LocksHeld
  <2> QED BY <2>2 DEF Waiting, HeldUp
<1> QED BY <1>1, <1>2

LEMMA StepDescends ==
    ASSUME Inv, Inv', NEW w \in Workers, Start(w) \/ Step(w)
    PROVE  /\ job[w].pc = "idle" \/ Left(job'[w]) < Left(job[w])
           /\ Left(job'[w]) \in 0 .. 2 * MaxTries + 2
           /\ \A v \in Workers \ {w} : Left(job'[v]) = Left(job[v])
<1>1. job \in [Workers -> Jobs] /\ job' \in [Workers -> Jobs]
  BY DEF Inv, Types
<1>2. ASSUME NEW v \in Workers \ {w} PROVE Left(job'[v]) = Left(job[v])
  <2>1. CASE job[v].pc # "running"
    BY <1>2, <2>1, OthersGoOn
  <2>2. CASE job[v].pc = "running"
    BY <1>1, <1>2, <2>2, OthersGoOn, LeftOf
  <2> QED BY <2>1, <2>2
<1>3. job'[w] \in Jobs /\ job[w] \in Jobs
  BY <1>1
<1>4. Left(job'[w]) \in 0 .. 2 * MaxTries + 2
  BY <1>3, LeftOf, CalendarAssumption DEF Waiting
<1>5. CASE Start(w)
  BY <1>2, <1>4, <1>5 DEF Start
<1>6. CASE Begin(w)
  <2>1. job[w].pc = "begin" /\ job'[w].pc = "running" /\ job'[w].tries = job[w].tries
    BY <1>1, <1>6 DEF Begin
  <2> QED BY <1>2, <1>3, <1>4, <2>1, LeftOf, CalendarAssumption
<1>7. CASE SerializationFailure(w)
  <2>1. /\ job[w].pc = "running"
        /\ \/ job'[w].pc = "begin" /\ job'[w].tries = job[w].tries + 1
           \/ job'[w].pc = "idle"
    BY <1>1, <1>7 DEF SerializationFailure, Idle
  <2> QED BY <1>2, <1>3, <1>4, <2>1, LeftOf, CalendarAssumption
<1>8. CASE Reject(w) \/ Commit(w) \/ WriteAdminBlock(w) \/ WriteCancel(w) \/ RescheduleCommit(w)
  <2>1. job'[w].pc = "idle" /\ job[w].pc # "idle"
    <3>1. Reject(w) => job'[w] = Idle /\ job[w].pc # "idle"
      BY <1>1 DEF Reject, Finished
    <3> QED BY <1>8, <3>1, WritersEnd DEF Idle
  <2> QED BY <1>2, <1>3, <1>4, <2>1, LeftOf, CalendarAssumption DEF Waiting
<1>9. CASE Read(w)
  <2>1. job[w].pc = "read" /\ job'[w].pc \in {"decided", "idle"}
    BY <1>1, <1>9 DEF Read, Idle
  <2> QED BY <1>2, <1>3, <1>4, <2>1, LeftOf
<1>10. CASE RescheduleUpdate(w) \/ RescheduleFind(w)
  <2>1. job[w] \in [pc : {"read", "decided"} \cup Waiting, op : PlainOps]
    BY <1>3, <1>10, JobShape DEF RescheduleUpdate, RescheduleFind, Waiting
  <2>2. \/ job[w].pc = "decided" /\ job'[w].pc = "updated"
        \/ job[w].pc = "updated" /\ job'[w].pc \in {"missing", "found"}
    BY <1>1, <1>10, <2>1 DEF RescheduleUpdate, RescheduleFind
  <2> QED BY <1>2, <1>3, <1>4, <2>2, LeftOf
<1> QED BY <1>5, <1>6, <1>7, <1>8, <1>9, <1>10 DEF Step

-------------------------------------------------------------------------------
(* Theorems *)

(* Rows, locks and requests keep their shape, and no transaction is tried    *)
(* more often than runSerializableAppointmentWrite allows.                   *)
THEOREM TypeCorrect == Spec => []TypeOK
<1>1. Inv => TypeOK
  <2> SUFFICES ASSUME Inv PROVE TypeOK
    OBVIOUS
  <2>1. \A w \in Workers :
          /\ job[w].pc \in {"idle", "begin", "running", "read", "decided"} \cup Waiting
          /\ job[w].pc \in {"begin", "running"} => job[w].tries \in 1 .. MaxTries
    BY JobShape DEF Inv, Types
  <2> QED BY <2>1 DEF Inv, Types, TypeOK, Waiting
<1> QED BY <1>1, InitInv, NextInv, PTL DEF Spec

(* Whatever snapshots the requests decided on, two appointments occupy the   *)
(* same time only with leave (runSerializableAppointmentWrite around         *)
(* assertNoBlockingConflict).                                                *)
THEOREM OverlapsAreAccepted == Spec => []NoUnwaivedOverlap
<1>1. Inv => NoUnwaivedOverlap
  BY DEF Inv, Accepted, NoUnwaivedOverlap, Abstract!NoUnwaivedOverlap, Occupies, Abstract!Occupies,
         Overlap, Abstract!Overlap, SameDay, Abstract!SameDay, DayOf, Abstract!DayOf
<1> QED BY <1>1, InitInv, NextInv, PTL DEF Spec

(* Any number of clients asking to reschedule leave one request, since       *)
(* requestRescheduleByManageToken updates the appointment first.             *)
THEOREM OneRequestPerAppointment == Spec => []OneRescheduleRequest
<1>1. Inv => OneRescheduleRequest
  BY DEF Inv
<1> QED BY <1>1, InitInv, NextInv, PTL DEF Spec

(* An appointment enters blocked time only when the manager writes a block   *)
(* around it, or wrote it after the booking's transaction looked.            *)
THEOREM SeenBlocksStayFree == Spec => SeenBlocksKeptFree
<1> DEFINE A == \A a \in Appts, b \in Blocks :
         Crossed(appts', blocks', a, b) /\ ~Crossed(appts, blocks, a, b) =>
            \E w \in Workers :
                \/ job[w].pc = "decided" /\ NamesBlock(w, b)
                \/ /\ job[w].pc = "running" /\ NamesAppt(w, a)
                   /\ job[w].blocks[b] # blocks[b]
<1>1. Inv /\ [Next]_vars => [A]_vars
  BY NextSeesBlocks
<1> QED BY <1>1, InitInv, NextInv, PTL DEF Spec, SeenBlocksKeptFree

(* At every moment some request can take its next step: a request that waits *)
(* for an appointment's row waits for a reschedule request that waits for    *)
(* nothing.                                                                  *)
THEOREM NoCircularWait == Spec => []SomebodyGoesOn
<1>1. Init => LocksHeld
  BY DEF Init, LocksHeld
<1>2. Inv /\ LocksHeld /\ [Next]_vars => (Inv /\ LocksHeld)'
  BY NextInv, NextLocksHeld
<1> QED BY <1>1, <1>2, HolderGoesOn, InitInv, PTL DEF Spec

(* Retries are bounded for every schedule: a request takes at most           *)
(* 2 * MaxTries + 2 steps of its own, and nobody else's step sends it back.  *)
THEOREM EveryStepIsProgress == Spec => RequestsDescend
<1> DEFINE A == \E w \in Workers :
                  /\ job[w].pc = "idle" \/ Left(job'[w]) < Left(job[w])
                  /\ Left(job'[w]) \in 0 .. 2 * MaxTries + 2
                  /\ \A v \in Workers \ {w} : Left(job'[v]) = Left(job[v])
<1>1. Inv /\ Inv' /\ [Next]_vars => [A]_vars
  BY StepDescends DEF Next, Rest
<1> QED BY <1>1, InitInv, NextInv, PTL DEF Spec, RequestsDescend
===============================================================================
