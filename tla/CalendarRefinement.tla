-------------------------- MODULE CalendarRefinement ---------------------------
(***************************************************************************)
(* Where every writer of a day is either Serializable or only frees what   *)
(* it writes, the concurrent requests of Calendar behave as the atomic     *)
(* operations of Agenda, for any number of masters, days, appointments,    *)
(* blocks, workers and attempts: what a transaction decided on its         *)
(* snapshot, it may decide again on the rows as they are when it commits.  *)
(* Beside the other writers, each property of Agenda holds as long as the  *)
(* one writer that can break it is not enabled: a cancellation is final    *)
(* without reschedule requests, a day is closed once without the manager's *)
(* own closures, and blocked time is free without the blocks he writes.    *)
(***************************************************************************)
EXTENDS CalendarProofs

(* No check of theirs can be overtaken. *)
Protected == Serializable \cup CancelKinds \cup {"adminDrop"}

(* A new row's id belongs to the request that is about to insert it, and     *)
(* nobody deletes an appointment.                                            *)
OwnsRow(op, as, bs) ==
    /\ op.kind = "book" => as[op.a].status = "absent"
    /\ op.kind \in {"close", "closeDay"} => bs[op.b].kind = "absent"
    /\ OnAppointment(op) /\ op.kind # "book" => as[op.a].status # "absent"

Apart(op, other) ==
    /\ op.kind = "book" /\ OnAppointment(other) => other.a # op.a
    /\ op.kind \in {"close", "closeDay"} /\ ~OnAppointment(other) => other.b # op.b

Reserved ==
    \A w \in Workers : job[w].pc # "idle" =>
        /\ OwnsRow(job[w].op, appts, blocks)
        /\ \A v \in Workers \ {w} : job[v].pc # "idle" => Apart(job[w].op, job[v].op)

(* An accepted overlap is one that there is. *)
Meet(as, a, x) ==
    a # x /\ Occupies(as[a]) /\ Occupies(as[x]) /\ Overlap(as[a].iv, as[x].iv)
WaivedMeet == \A p \in waived : \E a, x \in Appts : p = {a, x} /\ Meet(appts, a, x)

(* As SeesAppts, of the blocks: an appointment must not miss a block of its   *)
(* day, a closure of the day not another one.                                *)
LooksAtBlock(op, row) ==
    \/ ChecksPlace(op) /\ row.kind # "absent"
    \/ op.kind = "closeDay" /\ row.kind = "day"
Target(op) == Of(IF OnAppointment(op) THEN "appts" ELSE "blocks", op.iv)
SeesBlocks(w) ==
    LET j == job[w] IN
    /\ ~OnAppointment(j.op) => j.op.b \in j.stale \/ j.blocks[j.op.b] = blocks[j.op.b]
    /\ \A b \in Blocks : LooksAtBlock(j.op, blocks[b]) /\ SameDay(blocks[b].iv, j.op.iv) =>
          j.blocks[b] = blocks[b] \/ \E reads \in j.missed : Target(j.op) \in reads

Isolated ==
    /\ Inv /\ Reserved /\ WaivedMeet
    /\ \A w \in Workers : job[w].pc \notin Waiting
    /\ \A w \in Workers : job[w].pc = "running" => SeesBlocks(w)

-------------------------------------------------------------------------------
(* Agenda reads the rows by the same rules *)

LEMMA SameRules ==
    ASSUME NEW as, NEW bs, NEW wd, NEW a, NEW iv, NEW status, NEW over, NEW row
    PROVE  /\ Abstract!Free(as, bs, a, iv, over) <=> Free(as, bs, a, iv, over)
           /\ Abstract!MayChange(as, bs, a, status, iv, over)
                <=> MayChange(as, bs, a, status, iv, over)
           /\ Abstract!MayBlock(as, iv) <=> MayBlock(as, iv)
           /\ Abstract!MayCloseDay(as, bs, iv) <=> MayCloseDay(as, bs, iv)
           /\ Abstract!FullDay(iv) = FullDay(iv)
           /\ Abstract!Without(wd, a) = Without(wd, a)
           /\ Abstract!WaivedAfter(wd, as, a, status, iv, over)
                = WaivedAfter(wd, as, a, status, iv, over)
<1>1. \A i, k : (Abstract!SameDay(i, k) <=> SameDay(i, k)) /\ (Abstract!Overlap(i, k) <=> Overlap(i, k))
  BY DEF Abstract!SameDay, SameDay, Abstract!DayOf, DayOf, Abstract!Overlap, Overlap
<1>2. \A r : Abstract!Occupies(r) <=> Occupies(r)
  BY DEF Abstract!Occupies, Occupies
<1>3. Abstract!Clashes(as, a, iv) = Clashes(as, a, iv)
  BY <1>1, <1>2 DEF Abstract!Clashes, Clashes
<1>4. Abstract!DayClosed(bs, iv) <=> DayClosed(bs, iv)
  BY <1>1 DEF Abstract!DayClosed, DayClosed
<1>5. \A o : Abstract!Free(as, bs, a, iv, o) <=> Free(as, bs, a, iv, o)
  BY <1>1, <1>3, <1>4 DEF Abstract!Free, Free
<1>6. Abstract!KeepsPlace(as, a, status, iv) <=> KeepsPlace(as, a, status, iv)
  BY <1>2 DEF Abstract!KeepsPlace, KeepsPlace
<1>7. Abstract!MayChange(as, bs, a, status, iv, over) <=> MayChange(as, bs, a, status, iv, over)
  BY <1>5, <1>6 DEF Abstract!MayChange, MayChange
<1>8. Abstract!MayBlock(as, iv) <=> MayBlock(as, iv)
  BY <1>1, <1>2 DEF Abstract!MayBlock, MayBlock
<1>9. Abstract!MayCloseDay(as, bs, iv) <=> MayCloseDay(as, bs, iv)
  BY <1>1, <1>2, <1>4 DEF Abstract!MayCloseDay, MayCloseDay, Abstract!DayIsEmpty, DayIsEmpty
<1>10. Abstract!FullDay(iv) = FullDay(iv)
  BY DEF Abstract!FullDay, FullDay, Abstract!SameDay, SameDay, Abstract!DayOf, DayOf
<1>11. Abstract!Without(wd, a) = Without(wd, a)
  BY DEF Abstract!Without, Without
<1>12. \A xs : Abstract!PairsOf(a, xs) = PairsOf(a, xs)
  BY DEF Abstract!PairsOf, PairsOf
<1>13. Abstract!WaivedAfter(wd, as, a, status, iv, over) = WaivedAfter(wd, as, a, status, iv, over)
  BY <1>3, <1>6, <1>11, <1>12 DEF Abstract!WaivedAfter, WaivedAfter
<1> QED BY <1>5, <1>7, <1>8, <1>9, <1>10, <1>11, <1>13

-------------------------------------------------------------------------------
(* Nobody inserts another one's row *)

LEMMA ReservedStays ==
    ASSUME Reserved, Remain, UNCHANGED <<appts, blocks>>
    PROVE  Reserved'
BY DEF Reserved, Remain

(* The worker that wrote is done; it wrote only the row it named. *)
LEMMA ReservedAfterAppt ==
    ASSUME Types, Reserved, Remain, NEW w \in Workers, job[w].pc # "idle", job'[w].pc = "idle",
           OnAppointment(job[w].op), UNCHANGED blocks,
           appts'[job[w].op.a].status # "absent",
           \A x \in Appts \ {job[w].op.a} : appts'[x] = appts[x]
    PROVE  Reserved'
<1> SUFFICES ASSUME NEW v \in Workers, job'[v].pc # "idle"
             PROVE  OwnsRow(job'[v].op, appts', blocks')
  BY DEF Reserved, Remain
<1>1. v # w /\ job[v].pc # "idle" /\ job'[v].op = job[v].op
  BY DEF Remain
<1>2. OwnsRow(job[v].op, appts, blocks) /\ Apart(job[v].op, job[w].op)
  BY <1>1 DEF Reserved
<1>3. CASE OnAppointment(job[v].op)
  <2>1. job[v].op.a \in Appts
    BY <1>1, <1>3, OpsTyped
  <2> QED BY <1>1, <1>2, <1>3, <2>1 DEF OwnsRow, Apart, OnAppointment, CancelKinds
<1>4. CASE ~OnAppointment(job[v].op)
  BY <1>1, <1>2, <1>4 DEF OwnsRow, OnAppointment
<1> QED BY <1>3, <1>4

LEMMA ReservedAfterBlock ==
    ASSUME Types, Reserved, Remain, NEW w \in Workers, job[w].pc # "idle", job'[w].pc = "idle",
           ~OnAppointment(job[w].op), UNCHANGED appts,
           \A b \in Blocks \ {job[w].op.b} : blocks'[b] = blocks[b]
    PROVE  Reserved'
<1> SUFFICES ASSUME NEW v \in Workers, job'[v].pc # "idle"
             PROVE  OwnsRow(job'[v].op, appts', blocks')
  BY DEF Reserved, Remain
<1>1. v # w /\ job[v].pc # "idle" /\ job'[v].op = job[v].op
  BY DEF Remain
<1>2. OwnsRow(job[v].op, appts, blocks) /\ Apart(job[v].op, job[w].op)
  BY <1>1 DEF Reserved
<1>3. CASE ~OnAppointment(job[v].op)
  <2>1. job[v].op.b \in Blocks
    BY <1>1, <1>3, OpsTyped
  <2> QED BY <1>1, <1>2, <1>3, <2>1 DEF OwnsRow, Apart, OnAppointment, CancelKinds
<1>4. CASE OnAppointment(job[v].op)
  BY <1>1, <1>2, <1>4 DEF OwnsRow, OnAppointment, CancelKinds
<1> QED BY <1>3, <1>4

LEMMA RequestNames ==
    ASSUME NEW op \in Requests
    PROVE  /\ op.kind = "book" => op.a \in NewAppts
           /\ OnAppointment(op) /\ op.kind # "book" => op.a \in OldAppts
           /\ op.kind \in {"close", "closeDay", "adminClose", "adminCloseDay"} => op.b \in NewBlocks
           /\ ~OnAppointment(op) /\ op.kind \notin {"close", "closeDay", "adminClose", "adminCloseDay"}
                => op.b \in OldBlocks
BY DEF Requests, Placing, OnAppointment, CancelKinds

LEMMA ReservedAtStart ==
    ASSUME Types, Reserved, NEW w \in Workers, job[w].pc = "idle", NEW op \in Requests, NEW j,
           j.pc # "idle", j.op = op, job' = [job EXCEPT ![w] = j], UNCHANGED <<appts, blocks>>
    PROVE  Reserved'
<1>1. job'[w] = j /\ \A v \in Workers \ {w} : job'[v] = job[v]
  BY DEF Types
<1>2. OwnsRow(op, appts, blocks)
  BY RequestNames DEF OwnsRow, NewAppts, OldAppts, NewBlocks, OnAppointment
<1>3. ASSUME NEW v \in Workers \ {w}, job[v].pc # "idle"
      PROVE  Apart(op, job[v].op) /\ Apart(job[v].op, op)
  <2>1. Apart(op, job[v].op)
    BY <1>3, RequestNames DEF Apart, NewAppts, NewBlocks, NamesAppt, NamesBlock
  <2>2. OwnsRow(job[v].op, appts, blocks)
    BY <1>3 DEF Reserved
  <2>3. ASSUME job[v].op.kind = "book", OnAppointment(op), op.a = job[v].op.a PROVE FALSE
    <3>1. NamesAppt(v, op.a) /\ appts[op.a].status = "absent"
      BY <1>3, <2>2, <2>3 DEF NamesAppt, OnAppointment, OwnsRow
    <3> QED BY <2>3, <3>1, RequestNames DEF NewAppts, OldAppts
  <2>4. ASSUME job[v].op.kind \in {"close", "closeDay"}, ~OnAppointment(op), op.b = job[v].op.b
        PROVE  FALSE
    <3>1. NamesBlock(v, op.b) /\ blocks[op.b].kind = "absent"
      BY <1>3, <2>2, <2>4 DEF NamesBlock, OnAppointment, CancelKinds, OwnsRow
    <3> QED BY <2>4, <3>1, RequestNames DEF NewBlocks, OldBlocks
  <2> QED BY <2>1, <2>3, <2>4 DEF Apart
<1> QED BY <1>1, <1>2, <1>3 DEF Reserved

-------------------------------------------------------------------------------
(* What a transaction that is not refused saw is still so *)

LEMMA MeetsClashes ==
    ASSUME Types, NEW a \in Appts, NEW x \in Appts, Meet(appts, a, x)
    PROVE  x \in Clashes(appts, a, appts[a].iv)
BY RowsTyped, OverlapSymmetric DEF Meet, Clashes

LEMMA CommitSeesBlocks ==
    ASSUME Inv, NEW w \in Workers, job[w].pc = "running", ~Refused(w), SeesBlocks(w)
    PROVE  /\ ~OnAppointment(job[w].op) => job[w].blocks[job[w].op.b] = blocks[job[w].op.b]
           /\ \A b \in Blocks :
                 LooksAtBlock(job[w].op, blocks[b]) /\ SameDay(blocks[b].iv, job[w].op.iv)
                    => job[w].blocks[b] = blocks[b]
<1>1. job[w].op \in SerialOps
  BY JobShape DEF Inv, Types
<1>2. ASSUME NEW b \in Blocks, LooksAtBlock(job[w].op, blocks[b])
      PROVE  Target(job[w].op) \in WritesOf(job[w].op)
  BY <1>1, <1>2, SerialShape DEF Target, WritesOf, LooksAtBlock, OnAppointment, CancelKinds
<1> QED BY <1>1, <1>2 DEF SeesBlocks, Refused, RowsOf

LEMMA DaysSeen ==
    ASSUME Inv, NEW w \in Workers, job[w].pc = "running", ~Refused(w), SeesBlocks(w),
           ChecksPlace(job[w].op) \/ job[w].op.kind = "closeDay",
           DayClosed(blocks, job[w].op.iv)
    PROVE  DayClosed(job[w].blocks, job[w].op.iv)
<1>1. PICK b \in Blocks : blocks[b].kind = "day" /\ SameDay(blocks[b].iv, job[w].op.iv)
  BY DEF DayClosed
<1>2. job[w].blocks[b] = blocks[b]
  BY <1>1, CommitSeesBlocks DEF LooksAtBlock
<1> QED BY <1>1, <1>2 DEF DayClosed

(* Whom an appointment meets now it met in the snapshot. *)
LEMMA ClashesSeen ==
    ASSUME Inv, NEW w \in Workers, job[w].pc = "running", ~Refused(w), ChecksPlace(job[w].op)
    PROVE  Clashes(appts, job[w].op.a, job[w].op.iv)
             \subseteq Clashes(job[w].appts, job[w].op.a, job[w].op.iv)
<1> DEFINE op == job[w].op
<1>1. LooksAtDay(op)
  BY DEF LooksAtDay
<1> SUFFICES ASSUME NEW x \in Appts, x \in Clashes(appts, op.a, op.iv)
             PROVE  x \in Clashes(job[w].appts, op.a, op.iv)
  BY DEF Clashes
<1>2. Occupies(appts[x]) /\ SameDay(appts[x].iv, op.iv)
  BY DEF Clashes, Overlap
<1>3. job[w].appts[x] = appts[x]
  BY <1>1, <1>2, CommitSeesAppts
<1> QED BY <1>3 DEF Clashes

LEMMA FreeSeen ==
    ASSUME Inv, NEW w \in Workers, job[w].pc = "running", ~Refused(w), SeesBlocks(w),
           ChecksPlace(job[w].op), NEW over,
           Free(job[w].appts, job[w].blocks, job[w].op.a, job[w].op.iv, over)
    PROVE  Free(appts, blocks, job[w].op.a, job[w].op.iv, over)
<1>1. ~DayClosed(blocks, job[w].op.iv)
  BY DaysSeen DEF Free
<1>2. ASSUME NEW b \in Blocks, blocks[b].kind = "interval", Overlap(blocks[b].iv, job[w].op.iv)
      PROVE  FALSE
  <2>1. job[w].blocks[b] = blocks[b]
    BY <1>2, CommitSeesBlocks DEF LooksAtBlock, Overlap
  <2> QED BY <1>2, <2>1 DEF Free
<1>3. over \/ Clashes(appts, job[w].op.a, job[w].op.iv) = {}
  BY ClashesSeen DEF Free
<1> QED BY <1>1, <1>2, <1>3 DEF Free

(* The overlaps a commit accepts are those the atomic operation accepts. *)
LEMMA WaivedAsSeen ==
    ASSUME Isolated, NEW w \in Workers, job[w].pc = "running", ~Refused(w),
           OnAppointment(job[w].op)
    PROVE  LET op == job[w].op IN
           WaivedBy(w, op) = WaivedAfter(waived, appts, op.a, op.status, op.iv, op.over)
<1> DEFINE op == job[w].op
           now == Clashes(appts, op.a, op.iv)
           then == Clashes(job[w].appts, op.a, op.iv)
<1>1. job[w].appts[op.a] = appts[op.a] /\ op.a \in Appts
  BY CommitSeesAppts, SerialShape DEF Isolated
<1>2. KeepsPlace(job[w].appts, op.a, op.status, op.iv)
        <=> KeepsPlace(appts, op.a, op.status, op.iv)
  BY <1>1 DEF KeepsPlace
<1>3. CASE op.status # "SCHEDULED"
  BY <1>3 DEF WaivedBy, WaivedAfter, Without
<1>4. CASE op.status = "SCHEDULED" /\ KeepsPlace(appts, op.a, op.status, op.iv) /\ ~op.over
  <2>1. ASSUME NEW p \in waived, op.a \in p PROVE p \ {op.a} \subseteq now
    <3>1. PICK y \in Appts : \E z \in Appts : p = {y, z} /\ Meet(appts, y, z)
      BY DEF Isolated, WaivedMeet
    <3>2. PICK z \in Appts : p = {y, z} /\ Meet(appts, y, z)
      BY <3>1
    <3>3. Meet(appts, z, y)
      BY <3>2, RowsTyped, OverlapSymmetric DEF Meet, Isolated, Inv
    <3>4. op.iv = appts[op.a].iv
      BY <1>4 DEF KeepsPlace
    <3>5. CASE y = op.a
      BY <1>1, <3>2, <3>4, <3>5, MeetsClashes DEF Isolated, Inv
    <3>6. CASE z = op.a
      BY <1>1, <3>2, <3>3, <3>4, <3>6, MeetsClashes DEF Isolated, Inv
    <3> QED BY <2>1, <3>2, <3>5, <3>6
  <2>2. WaivedBy(w, op) = {p \in waived : op.a \in p => p \ {op.a} \subseteq now}
    BY <1>2, <1>4 DEF WaivedBy, WaivedAfter
  <2>3. WaivedAfter(waived, appts, op.a, op.status, op.iv, op.over) = waived
    BY <1>4 DEF WaivedAfter
  <2> QED BY <2>1, <2>2, <2>3
<1>5. CASE op.status = "SCHEDULED" /\ ~(KeepsPlace(appts, op.a, op.status, op.iv) /\ ~op.over)
  <2>1. now \subseteq then
    BY <1>5, CommitSeesAppts, SerialShape, ClashesSeen DEF Isolated
  <2>2. op.a \notin now
    BY DEF Clashes
  <2>3. WaivedBy(w, op) = {p \in Without(waived, op.a) \cup PairsOf(op.a, then) :
                              op.a \in p => p \ {op.a} \subseteq now}
    BY <1>2, <1>5 DEF WaivedBy, WaivedAfter
  <2>4. WaivedAfter(waived, appts, op.a, op.status, op.iv, op.over)
          = Without(waived, op.a) \cup PairsOf(op.a, now)
    BY <1>5 DEF WaivedAfter
  <2> HIDE DEF now, then
  <2>5. ASSUME NEW p \in WaivedBy(w, op) PROVE p \in Without(waived, op.a) \cup PairsOf(op.a, now)
    <3>1. CASE p \in PairsOf(op.a, then)
      <4>1. PICK x \in then : p = {op.a, x}
        BY <3>1 DEF PairsOf
      <4>2. x \notin {op.a}
        <5>1. op.a \notin then
          BY DEF then, Clashes
        <5> QED BY <5>1
      <4>3. x \in now
        BY <2>3, <2>5, <4>1, <4>2
      <4> QED BY <4>1, <4>3 DEF PairsOf
    <3> QED BY <2>3, <3>1
  <2>6. ASSUME NEW p \in Without(waived, op.a) \cup PairsOf(op.a, now) PROVE p \in WaivedBy(w, op)
    <3>1. CASE p \in Without(waived, op.a)
      BY <2>3, <3>1 DEF Without
    <3>2. CASE p \in PairsOf(op.a, now)
      <4>1. PICK x \in now : p = {op.a, x}
        BY <3>2 DEF PairsOf
      <4>2. p \in PairsOf(op.a, then) /\ p \ {op.a} \subseteq now
        BY <2>1, <4>1 DEF PairsOf
      <4> QED BY <2>3, <4>2
    <3> QED BY <3>1, <3>2
  <2> QED BY <2>4, <2>5, <2>6
<1> QED BY <1>3, <1>4, <1>5

-------------------------------------------------------------------------------
(* What a write leaves of it *)

LEMMA SeesSameBlocks ==
    ASSUME NEW v \in Workers, NEW written, job[v].pc = "running", SeesBlocks(v),
           Later(v, written), blocks' = blocks
    PROVE  SeesBlocks(v)'
BY DEF SeesBlocks, Later

(* One block's row written: whoever had to look at it knows to have missed it. *)
LEMMA SeesAfterBlock ==
    ASSUME Types, NEW v \in Workers, job[v].pc = "running", SeesBlocks(v),
           NEW b \in Blocks, Later(v, {b}),
           \A c \in Blocks \ {b} : blocks'[c] = blocks[c],
           LooksAtBlock(job[v].op, blocks'[b]) /\ SameDay(blocks'[b].iv, job[v].op.iv)
             => \E reads \in job'[v].missed : Target(job[v].op) \in reads
    PROVE  SeesBlocks(v)'
<1>1. job[v].op \in SerialOps
  BY JobShape DEF Types
<1>2. /\ job'[v].op = job[v].op /\ job'[v].blocks = job[v].blocks
      /\ b \in job'[v].stale /\ job[v].stale \subseteq job'[v].stale
      /\ job[v].missed \subseteq job'[v].missed
  BY DEF Later
<1>3. ~OnAppointment(job[v].op) =>
        job[v].op.b \in job'[v].stale \/ job[v].blocks[job[v].op.b] = blocks'[job[v].op.b]
  <2>1. CASE job[v].op.b = b
    BY <1>2, <2>1
  <2>2. CASE job[v].op.b # b
    BY <1>1, <1>2, <2>2, SerialShape DEF SeesBlocks
  <2> QED BY <2>1, <2>2
<1>4. ASSUME NEW c \in Blocks, LooksAtBlock(job[v].op, blocks'[c]),
             SameDay(blocks'[c].iv, job[v].op.iv)
      PROVE  job[v].blocks[c] = blocks'[c] \/ \E reads \in job'[v].missed : Target(job[v].op) \in reads
  <2>1. CASE c = b
    BY <1>4, <2>1
  <2>2. CASE c # b
    BY <1>2, <1>4, <2>2 DEF SeesBlocks
  <2> QED BY <2>1, <2>2
<1> QED BY <1>2, <1>3, <1>4 DEF SeesBlocks

(* The pairs that the row is not in meet as they did. *)
LEMMA MeetElsewhere ==
    ASSUME NEW a \in Appts, \A x \in Appts \ {a} : appts'[x] = appts[x], WaivedMeet,
           NEW p \in waived, a \notin p
    PROVE  \E y, z \in Appts : p = {y, z} /\ Meet(appts', y, z)
<1>1. PICK y \in Appts : \E z \in Appts : p = {y, z} /\ Meet(appts, y, z)
  BY DEF WaivedMeet
<1>2. PICK z \in Appts : p = {y, z} /\ Meet(appts, y, z)
  BY <1>1
<1>3. y \in Appts \ {a} /\ z \in Appts \ {a}
  BY <1>2
<1>4. Meet(appts', y, z)
  BY <1>2, <1>3 DEF Meet
<1> QED BY <1>2, <1>4

LEMMA MeetAfterCommit ==
    ASSUME Types, WaivedMeet, NEW a \in Appts, NEW iv \in Intervals, NEW status, NEW over,
           appts' = [appts EXCEPT ![a] = [status |-> status, iv |-> iv]],
           waived' = WaivedAfter(waived, appts, a, status, iv, over)
    PROVE  WaivedMeet'
<1>1. /\ appts'[a].status = status /\ appts'[a].iv = iv
      /\ \A x \in Appts \ {a} : appts'[x] = appts[x]
  BY DEF Types
<1> SUFFICES ASSUME NEW p \in waived' PROVE \E y, z \in Appts : p = {y, z} /\ Meet(appts', y, z)
  BY DEF WaivedMeet
<1>2. CASE p \in Without(waived, a)
  <2>1. p \in waived /\ a \notin p
    BY <1>2 DEF Without
  <2> QED BY <1>1, <2>1, MeetElsewhere
<1>3. CASE status = "SCHEDULED" /\ p \in PairsOf(a, Clashes(appts, a, iv))
  <2>1. PICK x \in Clashes(appts, a, iv) : p = {a, x}
    BY <1>3 DEF PairsOf
  <2>2. x \in Appts \ {a} /\ Occupies(appts[x]) /\ Overlap(appts[x].iv, iv)
    BY DEF Clashes
  <2>3. Meet(appts', a, x)
    BY <1>1, <1>3, <2>2, RowsTyped, OverlapSymmetric DEF Meet, Occupies
  <2> QED BY <2>1, <2>2, <2>3
<1>4. CASE KeepsPlace(appts, a, status, iv) /\ p \in waived
  <2>1. PICK y \in Appts : \E z \in Appts : p = {y, z} /\ Meet(appts, y, z)
    BY <1>4 DEF WaivedMeet
  <2>2. PICK z \in Appts : p = {y, z} /\ Meet(appts, y, z)
    BY <2>1
  <2>3. \A x \in Appts : (Occupies(appts'[x]) <=> Occupies(appts[x])) /\ appts'[x].iv = appts[x].iv
    BY <1>1, <1>4 DEF KeepsPlace, Occupies
  <2>4. Meet(appts', y, z)
    BY <2>2, <2>3 DEF Meet
  <2> QED BY <2>2, <2>4
<1> QED BY <1>2, <1>3, <1>4 DEF WaivedAfter

LEMMA MeetAfterStatus ==
    ASSUME Types, WaivedMeet, NEW a \in Appts, NEW status \in Statuses \ {"SCHEDULED"},
           WriteStatus(a, status)
    PROVE  WaivedMeet'
<1>1. \A x \in Appts \ {a} : appts'[x] = appts[x]
  BY StatusWritten
<1>2. \A p \in waived' : p \in waived /\ a \notin p
  BY DEF WriteStatus, Without
<1>3. \A p \in waived' : \E y, z \in Appts : p = {y, z} /\ Meet(appts', y, z)
  BY <1>1, <1>2, MeetElsewhere
<1> QED BY <1>3 DEF WaivedMeet

-------------------------------------------------------------------------------
(* The steps *)

LEMMA QuietIsolated ==
    ASSUME Isolated, Inv', NEW w \in Workers, job[w].pc # "idle", NEW j,
           job' = [job EXCEPT ![w] = j], UNCHANGED <<appts, blocks, waived>>,
           j.pc = "idle" \/ j.op = job[w].op, j.pc \notin Waiting,
           j.pc = "running" => j.blocks = blocks
    PROVE  Isolated'
<1>1. job'[w] = j /\ \A v \in Workers \ {w} : job'[v] = job[v]
  BY DEF Isolated, Inv, Types
<1>2. Reserved'
  <2>1. Remain
    BY <1>1 DEF Remain
  <2> QED BY <2>1, ReservedStays DEF Isolated
<1>3. WaivedMeet'
  BY DEF Isolated, WaivedMeet
<1>4. ASSUME NEW v \in Workers, job'[v].pc = "running" PROVE SeesBlocks(v)'
  <2>1. CASE v = w
    BY <1>1, <1>4, <2>1 DEF SeesBlocks
  <2>2. CASE v # w
    <3>1. job'[v] = job[v] /\ SeesBlocks(v)
      BY <1>1, <1>4, <2>2 DEF Isolated
    <3> QED BY <3>1 DEF SeesBlocks
  <2> QED BY <2>1, <2>2
<1>5. \A v \in Workers : job'[v].pc \notin Waiting
  BY <1>1 DEF Isolated
<1> QED BY <1>2, <1>3, <1>4, <1>5 DEF Isolated

LEMMA StartIsolated ==
    ASSUME Isolated, Inv', NEW w \in Workers, Start(w)
    PROVE  Isolated'
<1>1. PICK op \in Requests :
        job' = [job EXCEPT ![w] =
              IF op.kind \in Serializable THEN [pc |-> "begin", op |-> op, tries |-> 1]
              ELSE [pc |-> "read", op |-> op]]
  BY DEF Start
<1> DEFINE j == IF op.kind \in Serializable THEN [pc |-> "begin", op |-> op, tries |-> 1]
                ELSE [pc |-> "read", op |-> op]
<1>2. j.pc \in {"begin", "read"} /\ j.op = op /\ job' = [job EXCEPT ![w] = j]
  BY <1>1
<1> HIDE DEF j
<1>3. job'[w] = j /\ \A v \in Workers \ {w} : job'[v] = job[v]
  BY <1>2 DEF Isolated, Inv, Types
<1>4. UNCHANGED <<appts, blocks, waived>> /\ job[w].pc = "idle"
  BY DEF Start
<1>5. Reserved'
  BY <1>2, <1>4, ReservedAtStart DEF Isolated, Inv
<1>6. WaivedMeet'
  BY <1>4 DEF Isolated, WaivedMeet
<1>7. ASSUME NEW v \in Workers, job'[v].pc = "running" PROVE SeesBlocks(v)'
  <2>1. v # w
    BY <1>2, <1>3, <1>7
  <2>2. job'[v] = job[v] /\ SeesBlocks(v)
    BY <1>3, <1>7, <2>1 DEF Isolated
  <2> QED BY <1>4, <2>2 DEF SeesBlocks
<1>8. \A v \in Workers : job'[v].pc \notin Waiting
  BY <1>2, <1>3 DEF Isolated, Waiting
<1> QED BY <1>5, <1>6, <1>7, <1>8 DEF Isolated

LEMMA CommitAppointmentIsAtomic ==
    ASSUME Isolated, Inv', NEW w \in Workers, Commit(w), OnAppointment(job[w].op)
    PROVE  Isolated' /\ Abstract!Next
<1> DEFINE op == job[w].op
           a == job[w].op.a
<1>1. /\ op \in SerialOps /\ a \in Appts /\ op.iv \in Intervals /\ op.kind \in {"book", "change"}
      /\ op.status \in Statuses \ {"absent"} /\ op.over \in BOOLEAN
      /\ op.kind = "book" \/ op.status = "SCHEDULED" => ChecksPlace(op)
      /\ job[w].pc = "running" /\ ~Refused(w) /\ Inv /\ SeesBlocks(w)
      /\ job[w].appts[a] = appts[a]
  BY CommitSeesAppts, SerialShape DEF Commit, Isolated, ChecksPlace
<1>2. /\ appts' = [appts EXCEPT ![a] = [status |-> op.status, iv |-> op.iv]]
      /\ waived' = WaivedAfter(waived, appts, a, op.status, op.iv, op.over)
      /\ blocks' = blocks
      /\ job' = AfterCommit(w, op)
  BY <1>1, WaivedAsSeen DEF Commit
<1>3. Abstract!Next
  <2>1. waived' = Abstract!WaivedAfter(waived, appts, a, op.status, op.iv, op.over)
    BY <1>2, SameRules
  <2>2. CASE op.kind = "book"
    <3>1. Free(appts, blocks, a, op.iv, op.over)
      BY <1>1, <2>2, FreeSeen DEF Commit, Allowed
    <3>2. appts[a].status = "absent"
      BY <1>1, <2>2 DEF Isolated, Reserved, OwnsRow
    <3>3. Abstract!Free(appts, blocks, a, op.iv, op.over)
      BY <3>1, SameRules
    <3>4. Abstract!Book(a, op.status, op.iv, op.over)
      BY <1>2, <2>1, <3>2, <3>3 DEF Abstract!Book
    <3>5. op.status \in Abstract!Statuses \ {"absent"}
      BY <1>1 DEF Abstract!Statuses, Statuses
    <3> QED BY <1>1, <3>4, <3>5 DEF Abstract!Next
  <2>3. CASE op.kind = "change"
    <3>1. MayChange(job[w].appts, job[w].blocks, a, op.status, op.iv, op.over)
      BY <2>3 DEF Commit, Allowed
    <3>2. MayChange(appts, blocks, a, op.status, op.iv, op.over)
      <4>1. KeepsPlace(job[w].appts, a, op.status, op.iv) <=> KeepsPlace(appts, a, op.status, op.iv)
        BY <1>1 DEF KeepsPlace
      <4>2. op.status = "SCHEDULED" =>
              Free(appts, blocks, a, op.iv, op.over \/ KeepsPlace(appts, a, op.status, op.iv))
        <5>1. op.status = "SCHEDULED" => Free(job[w].appts, job[w].blocks, a, op.iv,
                                              op.over \/ KeepsPlace(job[w].appts, a, op.status, op.iv))
          BY <3>1 DEF MayChange
        <5>2. op.status = "SCHEDULED" => Free(appts, blocks, a, op.iv,
                                              op.over \/ KeepsPlace(job[w].appts, a, op.status, op.iv))
          BY <1>1, <5>1, FreeSeen
        <5> QED BY <4>1, <5>2 DEF Free
      <4> QED BY <1>1, <3>1, <4>2 DEF MayChange
    <3>3. Abstract!MayChange(appts, blocks, a, op.status, op.iv, op.over)
      BY <3>2, SameRules
    <3>4. Abstract!Change(a, op.status, op.iv, op.over)
      BY <1>2, <2>1, <3>3 DEF Abstract!Change
    <3>5. op.status \in Abstract!Statuses \ {"absent"}
      BY <1>1 DEF Abstract!Statuses, Statuses
    <3> QED BY <1>1, <3>4, <3>5 DEF Abstract!Next
  <2> QED BY <1>1, <2>2, <2>3
<1>4. /\ job'[w] = Idle
      /\ \A v \in Workers \ {w} : Later(v, RowsOf(op))
  BY <1>1, <1>2, LaterAfterCommit DEF Isolated, Inv
<1>5. Remain /\ job'[w].pc = "idle" /\ job[w].pc # "idle"
  BY <1>1, <1>4, OthersRemain
<1>6. Reserved'
  <2>1. /\ appts'[a].status # "absent"
        /\ \A x \in Appts \ {a} : appts'[x] = appts[x]
    BY <1>1, <1>2 DEF Isolated, Inv, Types
  <2> QED BY <1>2, <1>5, <2>1, ReservedAfterAppt DEF Isolated, Inv
<1>7. WaivedMeet'
  BY <1>1, <1>2, MeetAfterCommit DEF Isolated, Inv
<1>8. ASSUME NEW v \in Workers, job'[v].pc = "running" PROVE SeesBlocks(v)'
  <2>1. v # w /\ job[v].pc = "running" /\ SeesBlocks(v)
    BY <1>4, <1>5, <1>8 DEF Later, Isolated
  <2> QED BY <1>2, <1>4, <2>1, SeesSameBlocks
<1>9. \A v \in Workers : job'[v].pc \notin Waiting
  BY <1>4, <1>5 DEF Later, Isolated, Waiting
<1> QED BY <1>3, <1>6, <1>7, <1>8, <1>9 DEF Isolated

(* What a written block leaves, whoever wrote it. *)
LEMMA BlockIsolated ==
    ASSUME Isolated, Inv', NEW w \in Workers, job[w].pc # "idle", ~OnAppointment(job[w].op),
           WriteBlock(job[w].op), job'[w] = Idle,
           \A v \in Workers \ {w} :
              /\ Later(v, {job[w].op.b})
              /\ job[v].pc = "running" /\ LooksAtBlock(job[v].op, BlockAfter(job[w].op))
                   /\ SameDay(BlockAfter(job[w].op).iv, job[v].op.iv)
                   => \E reads \in job'[v].missed : Target(job[v].op) \in reads
    PROVE  Isolated'
<1> DEFINE op == job[w].op
<1>1. /\ op.b \in Blocks /\ blocks'[op.b] = BlockAfter(op)
      /\ \A c \in Blocks \ {op.b} : blocks'[c] = blocks[c]
      /\ appts' = appts /\ waived' = waived
  BY OpsTyped, BlockWritten DEF Isolated, Inv, WriteBlock
<1>2. Remain /\ job'[w].pc = "idle"
  BY OthersRemain
<1>3. Reserved'
  BY <1>1, <1>2, ReservedAfterBlock DEF Isolated, Inv
<1>4. WaivedMeet'
  BY <1>1 DEF Isolated, WaivedMeet
<1>5. ASSUME NEW v \in Workers, job'[v].pc = "running" PROVE SeesBlocks(v)'
  <2>1. v # w /\ job[v].pc = "running" /\ SeesBlocks(v) /\ Later(v, {op.b})
    BY <1>2, <1>5 DEF Later, Isolated
  <2> QED BY <1>1, <2>1, SeesAfterBlock DEF Isolated, Inv
<1>6. \A v \in Workers : job'[v].pc \notin Waiting
  BY <1>2 DEF Later, Isolated, Waiting
<1> QED BY <1>3, <1>4, <1>5, <1>6 DEF Isolated

LEMMA BlockedDays ==
    ASSUME NEW op \in SerialOps, ~OnAppointment(op), NEW other \in SerialOps,
           Types, NEW b \in Blocks, op.b = b,
           LooksAtBlock(other, BlockAfter(op)), SameDay(BlockAfter(op).iv, other.iv)
    PROVE  WritesOf(op) \cap ReadsOf(other) # {} /\ Target(other) \in ReadsOf(op)
<1>1. op.kind \in {"close", "closeDay", "dropOwned"}
  BY SerialShape DEF Serializable
<1>2. op.kind # "dropOwned"
  <2>1. blocks[b] \in [kind : {"absent", "interval", "day"}, iv : Intervals]
    BY DEF Types, BlockRows
  <2>2. op.kind = "dropOwned" => BlockAfter(op).kind = "absent"
    BY <2>1 DEF BlockAfter
  <2> QED BY <2>2 DEF LooksAtBlock
<1>3. BlockAfter(op).iv = op.iv /\ op.iv \in Intervals
  BY <1>1, <1>2, SerialShape DEF BlockAfter
<1>4. LooksAtDay(other) /\ other.iv \in Intervals
  BY SerialShape DEF LooksAtBlock, LooksAtDay
<1>5. /\ Of("appts", op.iv) = Of("appts", other.iv)
      /\ Of("blocks", op.iv) = Of("blocks", other.iv)
  BY <1>3, <1>4, WholeDays
<1>6. Of("blocks", op.iv) \in WritesOf(op) /\ Of("appts", op.iv) \in ReadsOf(op)
  BY <1>1, <1>2 DEF WritesOf, ReadsOf, WholeDay
<1>7. CASE OnAppointment(other)
  <2>1. Of("blocks", other.iv) \in ReadsOf(other)
    BY <1>4, <1>7, DayDependencies DEF WholeDay
  <2> QED BY <1>5, <1>6, <1>7, <2>1 DEF Target
<1>8. CASE ~OnAppointment(other)
  <2>1. other.kind = "closeDay" /\ BlockAfter(op).kind = "day"
    BY <1>8, SerialShape DEF LooksAtBlock
  <2>2. op.kind = "closeDay"
    BY <1>1, <1>2, <2>1 DEF BlockAfter
  <2>3. Of("blocks", other.iv) \in ReadsOf(other) /\ Of("blocks", op.iv) \in ReadsOf(op)
    BY <2>1, <2>2 DEF ReadsOf, WholeDay
  <2> QED BY <1>5, <1>6, <1>8, <2>3 DEF Target
<1> QED BY <1>7, <1>8

LEMMA CommitBlockIsAtomic ==
    ASSUME Isolated, Inv', NEW w \in Workers, Commit(w), ~OnAppointment(job[w].op)
    PROVE  Isolated' /\ Abstract!Next
<1> DEFINE op == job[w].op
           b == job[w].op.b
<1>1. /\ op \in SerialOps /\ b \in Blocks /\ op.kind \in {"close", "closeDay", "dropOwned"}
      /\ op.kind \in {"close", "closeDay"} => op.iv \in Intervals /\ blocks[b].kind = "absent"
      /\ op.kind = "closeDay" => op.iv \in FullDays
      /\ job[w].pc = "running" /\ ~Refused(w) /\ Inv /\ SeesBlocks(w)
      /\ job[w].blocks[b] = blocks[b]
  BY CommitSeesAppts, CommitSeesBlocks, SerialShape
     DEF Commit, Isolated, Serializable, Reserved, OwnsRow
<1>2. /\ WriteBlock(op) /\ job' = AfterCommit(w, op)
      /\ blocks' = [blocks EXCEPT ![b] = BlockAfter(op)]
      /\ UNCHANGED <<appts, waived>>
  BY DEF Commit, WriteBlock
<1>3. Abstract!Next
  <2>1. CASE op.kind = "close"
    <3>1. MayBlock(appts, op.iv)
      <4>1. MayBlock(job[w].appts, op.iv)
        BY <2>1 DEF Commit, Allowed
      <4>2. ASSUME NEW x \in Appts, Occupies(appts[x]), Overlap(appts[x].iv, op.iv) PROVE FALSE
        <5>1. job[w].appts[x] = appts[x]
          BY <1>1, <2>1, <4>2, CommitSeesAppts DEF LooksAtDay, Overlap, Isolated
        <5> QED BY <4>1, <4>2, <5>1 DEF MayBlock
      <4> QED BY <4>2 DEF MayBlock
    <3>2. Abstract!MayBlock(appts, op.iv)
      BY <3>1, SameRules
    <3>3. Abstract!Close(b, op.iv)
      BY <1>1, <1>2, <2>1, <3>2 DEF Abstract!Close, BlockAfter
    <3> QED BY <1>1, <2>1, <3>3 DEF Abstract!Next
  <2>2. CASE op.kind = "closeDay"
    <3>1. PICK i \in Intervals : op.iv = FullDay(i)
      BY <1>1, <2>2 DEF FullDays
    <3>2. SameDay(op.iv, i)
      BY <3>1, FullDaysAreIntervals
    <3>3. MayCloseDay(appts, blocks, op.iv)
      <4>1. MayCloseDay(job[w].appts, job[w].blocks, op.iv)
        BY <2>2 DEF Commit, Allowed
      <4>2. ~DayClosed(blocks, op.iv)
        BY <1>1, <2>2, <4>1, DaysSeen DEF MayCloseDay
      <4>3. ASSUME NEW x \in Appts, Occupies(appts[x]), SameDay(appts[x].iv, op.iv) PROVE FALSE
        <5>1. job[w].appts[x] = appts[x]
          BY <1>1, <2>2, <4>3, CommitSeesAppts DEF LooksAtDay, Isolated
        <5> QED BY <4>1, <4>3, <5>1 DEF MayCloseDay, DayIsEmpty
      <4> QED BY <4>2, <4>3 DEF MayCloseDay, DayIsEmpty
    <3>4. MayCloseDay(appts, blocks, i)
      BY <3>2, <3>3 DEF MayCloseDay, DayClosed, DayIsEmpty, SameDay
    <3>5. Abstract!MayCloseDay(appts, blocks, i) /\ op.iv = Abstract!FullDay(i)
      BY <3>1, <3>4, SameRules
    <3>6. Abstract!CloseDay(b, i)
      BY <1>1, <1>2, <2>2, <3>5 DEF Abstract!CloseDay, BlockAfter
    <3> QED BY <1>1, <3>6 DEF Abstract!Next
  <2>3. CASE op.kind = "dropOwned"
    <3>1. blocks[b].kind # "absent"
      BY <1>1, <2>3 DEF Commit, Allowed
    <3>2. Abstract!Drop(b)
      BY <1>2, <2>3, <3>1 DEF Abstract!Drop, BlockAfter
    <3> QED BY <1>1, <3>2 DEF Abstract!Next
  <2> QED BY <1>1, <2>1, <2>2, <2>3
<1>4. /\ job'[w] = Idle
      /\ \A v \in Workers \ {w} :
            /\ Later(v, {b})
            /\ job[v].pc = "running" /\ WritesOf(op) \cap ReadsOf(job[v].op) # {}
                  => ReadsOf(op) \in job'[v].missed
  <2>1. RowsOf(op) = {b}
    BY DEF RowsOf
  <2> QED BY <1>1, <1>2, <2>1, LaterAfterCommit DEF Isolated, Inv
<1>5. ASSUME NEW v \in Workers \ {w}, job[v].pc = "running",
             LooksAtBlock(job[v].op, BlockAfter(op)), SameDay(BlockAfter(op).iv, job[v].op.iv)
      PROVE  \E reads \in job'[v].missed : Target(job[v].op) \in reads
  <2>1. job[v].op \in SerialOps
    BY <1>5, JobShape DEF Isolated, Inv, Types
  <2>2. WritesOf(op) \cap ReadsOf(job[v].op) # {} /\ Target(job[v].op) \in ReadsOf(op)
    BY <1>1, <1>5, <2>1, BlockedDays DEF Isolated, Inv
  <2> QED BY <1>4, <1>5, <2>2
<1> QED BY <1>1, <1>2, <1>3, <1>4, <1>5, BlockIsolated

(* The admin's deletion, of a row that may have been deleted meanwhile. *)
LEMMA AdminDropIsAtomic ==
    ASSUME Isolated, Inv', NEW w \in Workers, WriteAdminBlock(w), job[w].op.kind = "adminDrop"
    PROVE  Isolated' /\ (Abstract!Next \/ UNCHANGED <<appts, blocks, waived>>)
<1> DEFINE op == job[w].op
           b == job[w].op.b
<1>1. ~OnAppointment(op) /\ b \in Blocks /\ job[w].pc = "decided" /\ Inv
  BY OpsTyped DEF WriteAdminBlock, OnAppointment, CancelKinds, Isolated, Inv
<1>2. CASE blocks[b].kind = "absent"
  <2>1. UNCHANGED <<appts, blocks, waived>> /\ job' = [job EXCEPT ![w] = Idle]
    BY <1>2 DEF WriteAdminBlock, Finished
  <2>2. Idle.pc = "idle"
    BY DEF Idle
  <2> QED BY <1>1, <2>1, <2>2, QuietIsolated DEF Waiting
<1>3. CASE blocks[b].kind # "absent"
  <2>1. WriteBlock(op) /\ job' = AfterPlainWrite(w, Idle, {b})
    BY <1>3 DEF WriteAdminBlock
  <2>2. Idle \in Jobs /\ {b} \in SUBSET (Appts \cup Blocks) /\ Types
    BY <1>1 DEF Jobs, IdleJobs, Inv
  <2>3. job'[w] = Idle /\ \A v \in Workers \ {w} : Later(v, {b})
    BY <2>1, <2>2, LaterAfterPlainWrite
  <2>4. BlockAfter(op) = [blocks[b] EXCEPT !.kind = "absent"] /\ BlockAfter(op).kind = "absent"
    <3>1. blocks[b] \in [kind : {"absent", "interval", "day"}, iv : Intervals]
      BY <1>1, <2>2 DEF Types, BlockRows
    <3> QED BY <3>1 DEF BlockAfter
  <2>5. Abstract!Drop(b)
    BY <1>3, <2>1, <2>4 DEF WriteBlock, Abstract!Drop
  <2>6. \A v \in Workers : job[v].pc = "running" => ~LooksAtBlock(job[v].op, BlockAfter(op))
    BY <2>4 DEF LooksAtBlock
  <2>7. Isolated'
    BY <1>1, <2>1, <2>3, <2>6, BlockIsolated
  <2> QED BY <1>1, <2>5, <2>7 DEF Abstract!Next
<1> QED BY <1>2, <1>3

(* A cancellation, of an appointment that may have been cancelled meanwhile. *)
LEMMA CancelIsAtomic ==
    ASSUME Isolated, Inv', NEW w \in Workers, WriteCancel(w)
    PROVE  Isolated' /\ (Abstract!Next \/ UNCHANGED <<appts, blocks, waived>>)
<1> DEFINE op == job[w].op
           a == job[w].op.a
<1>1. /\ a \in Appts /\ OnAppointment(op) /\ job[w].pc = "decided" /\ op.kind # "book"
      /\ Types /\ "CANCELLED" \in Statuses \ {"SCHEDULED"}
  BY OpsTyped DEF WriteCancel, OnAppointment, CancelKinds, Isolated, Inv, Statuses
<1>2. /\ WriteStatus(a, "CANCELLED") /\ job' = AfterPlainWrite(w, Idle, {a})
      /\ appts[a].status # "absent"
  BY <1>1 DEF WriteCancel, Isolated, Reserved, OwnsRow
<1>3. Abstract!Next \/ UNCHANGED <<appts, blocks, waived>>
  <2>1. CASE appts[a].status = "CANCELLED"
    <3>1. appts' = appts
      <4>1. appts[a] \in [status : Statuses, iv : Intervals]
        BY <1>1 DEF Types, ApptRows
      <4>2. [appts[a] EXCEPT !.status = "CANCELLED"] = appts[a]
        BY <2>1, <4>1
      <4> QED BY <1>1, <1>2, <4>2 DEF WriteStatus, Types
    <3>2. waived' = waived
      <4>1. ASSUME NEW p \in waived PROVE a \notin p
        <5>1. PICK y \in Appts : \E z \in Appts : p = {y, z} /\ Meet(appts, y, z)
          BY DEF Isolated, WaivedMeet
        <5>2. PICK z \in Appts : p = {y, z} /\ Meet(appts, y, z)
          BY <5>1
        <5> QED BY <2>1, <5>2 DEF Meet, Occupies
      <4> QED BY <1>2, <4>1 DEF WriteStatus, Without
    <3> QED BY <1>2, <3>1, <3>2 DEF WriteStatus
  <2>2. CASE appts[a].status # "CANCELLED"
    <3>1. waived' = Abstract!Without(waived, a)
      BY <1>2, SameRules DEF WriteStatus
    <3>2. Abstract!Cancel(a)
      BY <1>2, <2>2, <3>1 DEF WriteStatus, Abstract!Cancel
    <3> QED BY <1>1, <3>2 DEF Abstract!Next
  <2> QED BY <2>1, <2>2
<1>4. job'[w] = Idle /\ \A v \in Workers \ {w} : Later(v, {a})
  <2>1. Idle \in Jobs /\ {a} \in SUBSET (Appts \cup Blocks)
    BY <1>1 DEF Jobs, IdleJobs
  <2> QED BY <1>1, <1>2, <2>1, LaterAfterPlainWrite
<1>5. Remain /\ job'[w].pc = "idle"
  BY <1>1, <1>4, OthersRemain
<1>6. Reserved'
  <2>1. /\ appts'[a].status # "absent" /\ blocks' = blocks
        /\ \A x \in Appts \ {a} : appts'[x] = appts[x]
    BY <1>1, <1>2, StatusWritten DEF WriteStatus
  <2> QED BY <1>1, <1>5, <2>1, ReservedAfterAppt DEF Isolated
<1>7. WaivedMeet'
  BY <1>1, <1>2, MeetAfterStatus DEF Isolated
<1>8. ASSUME NEW v \in Workers, job'[v].pc = "running" PROVE SeesBlocks(v)'
  <2>1. v # w /\ job[v].pc = "running" /\ SeesBlocks(v)
    BY <1>4, <1>5, <1>8 DEF Later, Isolated
  <2> QED BY <1>2, <1>4, <2>1, SeesSameBlocks DEF WriteStatus
<1>9. \A v \in Workers : job'[v].pc \notin Waiting
  BY <1>4, <1>5 DEF Later, Isolated, Waiting
<1> QED BY <1>3, <1>6, <1>7, <1>8, <1>9 DEF Isolated

LEMMA InitIsolated == Init => Isolated
<1> SUFFICES ASSUME Init PROVE Isolated
  OBVIOUS
<1>1. \A w \in Workers : job[w].pc = "idle"
  BY DEF Init, Idle
<1> QED BY <1>1, InitInv DEF Init, Isolated, Reserved, WaivedMeet, Waiting

LEMMA NextIsolated ==
    ASSUME Kinds \subseteq Protected, Isolated, [Next]_vars
    PROVE  Isolated' /\ (Abstract!Next \/ UNCHANGED <<appts, blocks, waived>>)
<1>1. Inv /\ Inv'
  BY NextInv DEF Isolated
<1>2. CASE UNCHANGED vars
  <2>1. Reserved' /\ WaivedMeet'
    BY <1>2 DEF vars, Isolated, Reserved, WaivedMeet
  <2>2. \A w \in Workers : job'[w].pc \notin Waiting /\ (job'[w].pc = "running" => SeesBlocks(w)')
    BY <1>2 DEF vars, Isolated, SeesBlocks
  <2> QED BY <1>1, <1>2, <2>1, <2>2 DEF vars, Isolated
<1>3. ASSUME NEW w \in Workers, Start(w) \/ Step(w)
      PROVE  Isolated' /\ (Abstract!Next \/ UNCHANGED <<appts, blocks, waived>>)
  <2>1. job[w].pc # "idle" => job[w].op.kind \in Protected
    BY <1>1 DEF Inv, KindsOK
  <2>2. CASE Start(w)
    BY <1>1, <2>2, StartIsolated DEF Start
  <2>3. CASE Begin(w)
    <3> DEFINE j == [pc |-> "running", op |-> job[w].op, tries |-> job[w].tries,
                     appts |-> appts, blocks |-> blocks, missed |-> {}, stale |-> {}]
    <3>1. j.pc = "running" /\ j.op = job[w].op /\ j.blocks = blocks /\ job' = [job EXCEPT ![w] = j]
      BY <2>3 DEF Begin
    <3> HIDE DEF j
    <3> QED BY <1>1, <2>3, <3>1, QuietIsolated DEF Begin, Waiting
  <2>4. CASE Commit(w)
    BY <1>1, <2>4, CommitAppointmentIsAtomic, CommitBlockIsAtomic
  <2>5. CASE Reject(w)
    <3>1. Idle.pc = "idle" /\ job' = [job EXCEPT ![w] = Idle]
      BY <2>5 DEF Reject, Finished, Idle
    <3> QED BY <1>1, <2>5, <3>1, QuietIsolated DEF Reject, Waiting
  <2>6. CASE SerializationFailure(w)
    <3> DEFINE j == IF job[w].tries < MaxTries
                    THEN [pc |-> "begin", op |-> job[w].op, tries |-> job[w].tries + 1] ELSE Idle
    <3>1. j.pc = "idle" \/ (j.pc = "begin" /\ j.op = job[w].op)
      BY DEF Idle
    <3>2. job' = [job EXCEPT ![w] = j]
      BY <2>6 DEF SerializationFailure
    <3> HIDE DEF j
    <3> QED BY <1>1, <2>6, <3>1, <3>2, QuietIsolated DEF SerializationFailure, Waiting
  <2>7. CASE Read(w)
    <3> DEFINE j == IF Allowed(job[w].op, appts, blocks)
                    THEN [pc |-> "decided", op |-> job[w].op] ELSE Idle
    <3>1. j.pc = "idle" \/ (j.pc = "decided" /\ j.op = job[w].op)
      BY DEF Idle
    <3>2. job' = [job EXCEPT ![w] = j]
      BY <2>7 DEF Read
    <3> HIDE DEF j
    <3> QED BY <1>1, <2>7, <3>1, <3>2, QuietIsolated DEF Read, Waiting
  <2>8. CASE WriteAdminBlock(w)
    <3>1. job[w].op.kind = "adminDrop"
      BY <2>1, <2>8 DEF WriteAdminBlock, AdminBlockKinds, Protected, Serializable, CancelKinds
    <3> QED BY <1>1, <2>8, <3>1, AdminDropIsAtomic
  <2>9. CASE WriteCancel(w)
    BY <1>1, <2>9, CancelIsAtomic
  <2>10. CASE RescheduleUpdate(w)
    BY <2>1, <2>10 DEF RescheduleUpdate, Protected, Serializable, CancelKinds
  <2>11. CASE RescheduleFind(w) \/ RescheduleCommit(w)
    BY <2>11 DEF RescheduleFind, RescheduleCommit, Isolated, Waiting
  <2> QED BY <1>3, <2>2, <2>3, <2>4, <2>5, <2>6, <2>7, <2>8, <2>9, <2>10, <2>11 DEF Step
<1> QED BY <1>2, <1>3 DEF Next, Rest

(* Snapshots, retries and refusals behave as if every check and its write     *)
(* were one atomic operation of Agenda, where each writer of a day runs in   *)
(* runSerializableAppointmentWrite or only frees what it writes.             *)
THEOREM CalendarImplementsAgenda ==
    ASSUME Kinds \subseteq Protected
    PROVE  Spec => ImplementsAgenda
<1>1. Init => Abstract!Init
  BY DEF Init, Abstract!Init, NoAppts, Abstract!NoAppts, NoBlocks, Abstract!NoBlocks,
         AnInterval, Abstract!AnInterval
<1>2. Isolated /\ [Next]_vars => Isolated' /\ [Abstract!Next]_(Abstract!vars)
  BY NextIsolated DEF Abstract!vars
<1> QED BY <1>1, <1>2, InitIsolated, PTL DEF Spec, ImplementsAgenda, Abstract!Spec

-------------------------------------------------------------------------------
(* Beyond the protected requests: each promise of Agenda, and the one writer *)
(* that breaks it                                                            *)

(* Protected or not, a request writes only the row it names, and a new row's *)
(* id stays its own.                                                         *)
LEMMA NextReserved ==
    ASSUME Inv, Reserved, [Next]_vars
    PROVE  Reserved'
<1>1. CASE UNCHANGED vars
  BY <1>1 DEF vars, Reserved
<1>2. ASSUME NEW w \in Workers, Start(w) PROVE Reserved'
  <2>1. PICK op \in Requests :
          job' = [job EXCEPT ![w] =
                IF op.kind \in Serializable THEN [pc |-> "begin", op |-> op, tries |-> 1]
                ELSE [pc |-> "read", op |-> op]]
    BY <1>2 DEF Start
  <2> DEFINE j == IF op.kind \in Serializable THEN [pc |-> "begin", op |-> op, tries |-> 1]
                  ELSE [pc |-> "read", op |-> op]
  <2>2. j.pc # "idle" /\ j.op = op /\ job' = [job EXCEPT ![w] = j]
    BY <2>1
  <2> HIDE DEF j
  <2> QED BY <1>2, <2>2, ReservedAtStart DEF Start, Inv
<1>3. ASSUME NEW w \in Workers, Step(w) PROVE Reserved'
  <2> DEFINE op == job[w].op
  <2>1. Remain
    BY <1>3, StepRemains
  <2>2. CASE UNCHANGED <<appts, blocks>>
    BY <2>1, <2>2, ReservedStays
  <2>3. CASE Commit(w) /\ OnAppointment(op)
    <3>1. op \in SerialOps /\ op.a \in Appts /\ op.status # "absent"
      BY <2>3, CommitSeesAppts, SerialShape DEF Commit
    <3>2. /\ appts'[op.a].status # "absent" /\ blocks' = blocks
          /\ \A x \in Appts \ {op.a} : appts'[x] = appts[x]
      BY <2>3, <3>1 DEF Commit, Inv, Types
    <3> QED BY <2>3, <3>2, WritersEnd, ReservedAfterAppt DEF Inv
  <2>4. CASE WriteCancel(w) \/ RescheduleCommit(w)
    <3>1. op.a \in Appts /\ OnAppointment(op) /\ Types
      BY <2>4, JobShape, PlainShape
         DEF WriteCancel, RescheduleCommit, Inv, Types, OnAppointment, Waiting
    <3>2. \E status \in Statuses \ {"SCHEDULED", "absent"} : WriteStatus(op.a, status)
      BY <2>4 DEF WriteCancel, RescheduleCommit, Statuses
    <3>3. /\ appts'[op.a].status # "absent" /\ blocks' = blocks
          /\ \A x \in Appts \ {op.a} : appts'[x] = appts[x]
      BY <3>1, <3>2, StatusWritten DEF WriteStatus
    <3> QED BY <2>4, <3>1, <3>3, WritersEnd, ReservedAfterAppt
  <2>5. CASE (Commit(w) \/ WriteAdminBlock(w)) /\ ~OnAppointment(op) /\ WriteBlock(op)
    <3>1. op \in SerialOps \cup PlainOps /\ job[w].pc # "idle" /\ Types
      BY <2>5, WritersEnd, OpsTyped DEF Inv
    <3>2. appts' = appts /\ \A b \in Blocks \ {op.b} : blocks'[b] = blocks[b]
      BY <2>5, <3>1, BlockWritten DEF WriteBlock
    <3> QED BY <2>5, <3>1, <3>2, WritersEnd, ReservedAfterBlock
  <2>6. WriteAdminBlock(w) => ~OnAppointment(op)
    BY DEF WriteAdminBlock, OnAppointment, AdminBlockKinds, CancelKinds
  <2> QED BY <1>3, <2>2, <2>3, <2>4, <2>5, <2>6
          DEF Step, Begin, Reject, SerializationFailure, Read, RescheduleUpdate, RescheduleFind,
              Commit, WriteAdminBlock
<1> QED BY <1>1, <1>2, <1>3 DEF Next, Rest

LEMMA InitReserved == Init => Reserved
BY DEF Init, Idle, Reserved

(* A cancelled appointment changes only when a client's request to           *)
(* reschedule it, under way, commits: the request decided on the appointment *)
(* before it was cancelled, and took its row's lock after.                   *)
Revives(w, a) ==
    /\ job[w].pc \in {"missing", "found"} /\ NamesAppt(w, a) /\ lock[a] = w
    /\ appts'[a] = [appts[a] EXCEPT !.status = "RESCHEDULED"]
OnlyReschedulesRevive ==
    [][\A a \in Appts : appts[a].status = "CANCELLED" /\ appts'[a] # appts[a] =>
          \E w \in Workers : Revives(w, a)]_vars

LEMMA CancelledRowWritten ==
    ASSUME Inv, Reserved, [Next]_vars, NEW a \in Appts,
           appts[a].status = "CANCELLED", appts'[a] # appts[a]
    PROVE  \E w \in Workers : Revives(w, a)
<1>1. appts[a] \in [status : Statuses, iv : Intervals] /\ Types
  BY DEF Inv, Types, ApptRows
<1>2. PICK w \in Workers : Commit(w) \/ WriteAdminBlock(w) \/ WriteCancel(w) \/ RescheduleCommit(w)
  BY DEF Next, Rest, vars, Step, Start, Begin, Reject, SerializationFailure, Read,
         RescheduleUpdate, RescheduleFind
<1> DEFINE op == job[w].op
<1>3. ~Commit(w)
  <2> SUFFICES ASSUME Commit(w) PROVE FALSE
    OBVIOUS
  <2>1. /\ op \in SerialOps /\ job[w].pc = "running" /\ OnAppointment(op)
        /\ job[w].appts[op.a] = appts[op.a]
    BY CommitSeesAppts DEF Commit, WriteBlock
  <2>2. op.a = a
    BY <1>1 DEF Commit, Types, WriteBlock
  <2>3. op.kind # "book"
    BY <2>1, <2>2 DEF Reserved, OwnsRow
  <2>4. op.kind = "change"
    BY <2>1, <2>3, SerialShape
  <2> QED BY <2>1, <2>2, <2>4 DEF Commit, Allowed, MayChange
<1>4. ~WriteAdminBlock(w)
  BY DEF WriteAdminBlock, WriteBlock
<1>5. ~WriteCancel(w)
  <2>1. [appts[a] EXCEPT !.status = "CANCELLED"] = appts[a]
    BY <1>1
  <2> QED BY <1>1, <2>1 DEF WriteCancel, WriteStatus, Types
<1>6. CASE RescheduleCommit(w)
  <2>1. op \in StatusOps /\ job[w].pc \in Waiting /\ lock[op.a] = w /\ op.a \in Appts
    BY <1>6, JobShape DEF RescheduleCommit, Inv, Types, Waiting, LocksOK, StatusOps
  <2>2. op.a = a /\ appts'[a] = [appts[a] EXCEPT !.status = "RESCHEDULED"]
    BY <1>1, <1>6, <2>1 DEF RescheduleCommit, WriteStatus, Types
  <2>3. OnAppointment(op)
    BY <2>1, PlainShape DEF PlainOps
  <2> QED BY <1>6, <2>1, <2>2, <2>3 DEF RescheduleCommit, Revives, NamesAppt
<1> QED BY <1>2, <1>3, <1>4, <1>5, <1>6

(* However managers' edits and cancellations, clients' and bots' bookings    *)
(* interleave, a cancelled appointment is written only by                    *)
(* requestRescheduleByManageToken's transaction, holding the row.            *)
THEOREM CancelledRevivedOnlyByReschedule == Spec => OnlyReschedulesRevive
<1> DEFINE A == \A a \in Appts : appts[a].status = "CANCELLED" /\ appts'[a] # appts[a] =>
                   \E w \in Workers : Revives(w, a)
<1>1. Inv /\ Reserved /\ [Next]_vars => (Inv /\ Reserved)' /\ [A]_vars
  BY NextInv, NextReserved, CancelledRowWritten
<1> QED BY <1>1, InitInv, InitReserved, PTL DEF Spec, OnlyReschedulesRevive

(* The schedule side keeps a cancellation final: without the client's        *)
(* reschedule requests nothing that read the appointment earlier changes it. *)
THEOREM CancellationIsFinalWithoutReschedule ==
    ASSUME "reschedule" \notin Kinds
    PROVE  Spec => CancelledIsFinal
<1> DEFINE A == \A a \in Appts : appts[a].status = "CANCELLED" => appts'[a] = appts[a]
<1>1. ASSUME Inv, NEW w \in Workers, NEW a, Revives(w, a) PROVE FALSE
  <2>1. job[w].op.kind \in Kinds /\ job[w].op.kind = "reschedule"
    BY <1>1, JobShape DEF Revives, Inv, Types, KindsOK, Waiting, RescheduleOps
  <2> QED BY <2>1
<1>2. Inv /\ Reserved /\ [Next]_vars => (Inv /\ Reserved)' /\ [A]_(Abstract!vars)
  BY <1>1, NextInv, NextReserved, CancelledRowWritten DEF Abstract!vars
<1> QED BY <1>2, InitInv, InitReserved, PTL DEF Spec, CancelledIsFinal, Abstract!CancelledIsFinal

(* No unprotected write can reach what the request looks at: the manager's   *)
(* full-day closures are what another closure looks for, all of his closures *)
(* what an appointment does.                                                 *)
Shielded(op) ==
    /\ "adminCloseDay" \notin Kinds
    /\ OnAppointment(op) => Kinds \cap {"adminClose", "adminMove"} = {}
Watched == \A w \in Workers : job[w].pc = "running" /\ Shielded(job[w].op) => SeesBlocks(w)

LEMMA WatchedAfterQuiet ==
    ASSUME Inv, Watched, NEW w \in Workers, NEW j, job' = [job EXCEPT ![w] = j],
           UNCHANGED blocks, j.pc = "running" => j.blocks = blocks
    PROVE  Watched'
<1>1. job'[w] = j /\ \A v \in Workers \ {w} : job'[v] = job[v]
  BY DEF Inv, Types
<1> SUFFICES ASSUME NEW v \in Workers, job'[v].pc = "running", Shielded(job'[v].op)
             PROVE  SeesBlocks(v)'
  BY DEF Watched, Shielded
<1>2. CASE v = w
  BY <1>1, <1>2 DEF SeesBlocks
<1>3. CASE v # w
  <2>1. job'[v] = job[v] /\ SeesBlocks(v)
    BY <1>1, <1>3 DEF Watched
  <2> QED BY <2>1 DEF SeesBlocks
<1> QED BY <1>2, <1>3

(* A block that a shielded request looks at is a protected transaction's. *)
LEMMA ShieldedFromBlock ==
    ASSUME Inv, NEW w \in Workers, WriteAdminBlock(w), WriteBlock(job[w].op),
           NEW op, Shielded(op)
    PROVE  ~LooksAtBlock(op, BlockAfter(job[w].op))
<1> DEFINE done == job[w].op
<1>1. done \in PlainOps /\ done.kind \in AdminBlockKinds /\ done.kind \in Kinds /\ done.b \in Blocks
  BY JobShape, PlainShape
     DEF WriteAdminBlock, Inv, Types, KindsOK, OnAppointment, CancelKinds, AdminBlockKinds
<1>2. CASE done.kind = "adminDrop"
  <2>1. blocks[done.b] \in [kind : {"absent", "interval", "day"}, iv : Intervals]
    BY <1>1 DEF Inv, Types, BlockRows
  <2>2. BlockAfter(done).kind = "absent"
    BY <1>2, <2>1 DEF BlockAfter
  <2> QED BY <2>2 DEF LooksAtBlock
<1>3. CASE done.kind \in {"adminClose", "adminMove"}
  <2>1. BlockAfter(done).kind = "interval" /\ ~OnAppointment(op)
    BY <1>1, <1>3 DEF BlockAfter, Shielded
  <2> QED BY <2>1 DEF LooksAtBlock, ChecksPlace, OnAppointment
<1> QED BY <1>1, <1>2, <1>3 DEF AdminBlockKinds, Shielded

LEMMA NextWatched ==
    ASSUME Inv, Watched, [Next]_vars
    PROVE  Watched'
<1>1. CASE UNCHANGED vars
  BY <1>1 DEF vars, Watched, Shielded, SeesBlocks
<1>2. ASSUME NEW w \in Workers, Start(w) \/ Step(w) PROVE Watched'
  <2> DEFINE op == job[w].op
  <2>1. CASE Start(w) \/ Begin(w) \/ Reject(w) \/ SerializationFailure(w) \/ Read(w)
    <3> DEFINE Quiet(j) == /\ job' = [job EXCEPT ![w] = j] /\ blocks' = blocks
                           /\ j.pc = "running" => j.blocks = blocks
    <3>1. CASE Start(w)
      <4>1. PICK o \in Requests :
              job' = [job EXCEPT ![w] =
                    IF o.kind \in Serializable THEN [pc |-> "begin", op |-> o, tries |-> 1]
                    ELSE [pc |-> "read", op |-> o]]
        BY <3>1 DEF Start
      <4>2. Quiet(IF o.kind \in Serializable THEN [pc |-> "begin", op |-> o, tries |-> 1]
                  ELSE [pc |-> "read", op |-> o])
        BY <3>1, <4>1 DEF Start
      <4> QED BY <4>2, WatchedAfterQuiet
    <3>2. CASE Begin(w)
      <4>1. Quiet([pc |-> "running", op |-> job[w].op, tries |-> job[w].tries,
                   appts |-> appts, blocks |-> blocks, missed |-> {}, stale |-> {}])
        BY <3>2 DEF Begin
      <4> QED BY <4>1, WatchedAfterQuiet
    <3>3. CASE Reject(w)
      <4>1. Quiet(Idle)
        BY <3>3 DEF Reject, Finished, Idle
      <4> QED BY <4>1, WatchedAfterQuiet
    <3>4. CASE SerializationFailure(w)
      <4>1. Quiet(IF job[w].tries < MaxTries
                  THEN [pc |-> "begin", op |-> job[w].op, tries |-> job[w].tries + 1] ELSE Idle)
        BY <3>4 DEF SerializationFailure, Idle
      <4> QED BY <4>1, WatchedAfterQuiet
    <3>5. CASE Read(w)
      <4>1. Quiet(IF Allowed(job[w].op, appts, blocks)
                  THEN [pc |-> "decided", op |-> job[w].op] ELSE Idle)
        BY <3>5 DEF Read, Idle
      <4> QED BY <4>1, WatchedAfterQuiet
    <3> QED BY <2>1, <3>1, <3>2, <3>3, <3>4, <3>5
  <2>2. CASE RescheduleUpdate(w) \/ RescheduleFind(w)
    <3>1. job[w] \in [pc : {"read", "decided"} \cup Waiting, op : PlainOps]
      BY <2>2, JobShape DEF RescheduleUpdate, RescheduleFind, Inv, Types, Waiting
    <3>2. \E pc : /\ job' = [job EXCEPT ![w] = [job[w] EXCEPT !.pc = pc]] /\ blocks' = blocks
                  /\ pc # "running"
      BY <2>2 DEF RescheduleUpdate, RescheduleFind
    <3>3. \A pc : [job[w] EXCEPT !.pc = pc].pc = pc
      BY <3>1
    <3> QED BY <3>2, <3>3, WatchedAfterQuiet
  <2>3. ASSUME Commit(w) \/ WriteAdminBlock(w) \/ WriteCancel(w) \/ RescheduleCommit(w),
               NEW v \in Workers, job'[v].pc = "running", Shielded(job'[v].op)
        PROVE  SeesBlocks(v)'
    <3>1. PICK written : \A u \in Workers \ {w} : Later(u, written)
      BY <2>3, WritersEnd
    <3>2. v # w /\ job[v].pc = "running" /\ job'[v].op = job[v].op
      BY <2>3, <3>1, WritersEnd DEF Later
    <3>3. SeesBlocks(v) /\ Shielded(job[v].op) /\ job[v].op \in SerialOps
      BY <2>3, <3>2, JobShape DEF Watched, Shielded, Inv, Types
    <3>4. CASE blocks' = blocks
      BY <3>1, <3>2, <3>3, <3>4, SeesSameBlocks
    <3>5. CASE blocks' # blocks
      <4>1. (Commit(w) \/ WriteAdminBlock(w)) /\ WriteBlock(op)
        BY <2>3, <3>5 DEF Commit, WriteAdminBlock, WriteCancel, RescheduleCommit, WriteStatus
      <4>2. ~OnAppointment(op) /\ op \in SerialOps \cup PlainOps
        <5>1. WriteAdminBlock(w) => ~OnAppointment(op)
          BY DEF WriteAdminBlock, OnAppointment, AdminBlockKinds, CancelKinds
        <5>2. Commit(w) => ~OnAppointment(op)
          BY <3>5 DEF Commit
        <5>3. job[w].pc # "idle" /\ Types
          BY <4>1, WritersEnd DEF Inv
        <5> QED BY <4>1, <5>1, <5>2, <5>3, OpsTyped
      <4>3. /\ op.b \in Blocks /\ blocks'[op.b] = BlockAfter(op)
            /\ \A c \in Blocks \ {op.b} : blocks'[c] = blocks[c]
        BY <4>1, <4>2, BlockWritten DEF Inv
      <4>4. RowsOf(op) = {op.b}
        BY <4>2 DEF RowsOf
      <4>5. CASE Commit(w)
        <5>1. op \in SerialOps /\ job' = AfterCommit(w, op)
          BY <4>5, CommitSeesAppts DEF Commit
        <5>2. /\ Later(v, {op.b})
              /\ WritesOf(op) \cap ReadsOf(job[v].op) # {} => ReadsOf(op) \in job'[v].missed
          BY <3>2, <4>4, <5>1, LaterAfterCommit DEF Inv
        <5>3. LooksAtBlock(job[v].op, BlockAfter(op)) /\ SameDay(BlockAfter(op).iv, job[v].op.iv)
                => \E reads \in job'[v].missed : Target(job[v].op) \in reads
          BY <3>3, <4>2, <4>3, <5>1, <5>2, BlockedDays DEF Inv
        <5> QED BY <3>2, <3>3, <4>3, <5>2, <5>3, SeesAfterBlock DEF Inv
      <4>6. CASE WriteAdminBlock(w)
        <5>1. ~LooksAtBlock(job[v].op, BlockAfter(op))
          BY <3>3, <4>1, <4>6, ShieldedFromBlock
        <5>2. job' = AfterPlainWrite(w, Idle, {op.b})
          BY <3>5, <4>6 DEF WriteAdminBlock
        <5>3. Idle \in Jobs /\ {op.b} \in SUBSET (Appts \cup Blocks)
          BY <4>3 DEF Jobs, IdleJobs
        <5>4. Later(v, {op.b})
          <6> HIDE DEF op
          <6> QED BY <3>2, <5>2, <5>3, LaterAfterPlainWrite DEF Inv
        <5> QED BY <3>2, <3>3, <4>3, <5>1, <5>4, SeesAfterBlock DEF Inv
      <4> QED BY <4>1, <4>5, <4>6
    <3> QED BY <3>4, <3>5
  <2>4. CASE Commit(w) \/ WriteAdminBlock(w) \/ WriteCancel(w) \/ RescheduleCommit(w)
    BY <2>3, <2>4 DEF Watched, Shielded
  <2> QED BY <1>2, <2>1, <2>2, <2>4 DEF Step
<1> QED BY <1>1, <1>2 DEF Next, Rest

LEMMA InitWatched == Init => Watched
BY DEF Init, Idle, Watched

ClosedDaysOnce ==
    \A b, c \in Blocks :
        blocks[b].kind = "day" /\ blocks[c].kind = "day" /\ SameDay(blocks[b].iv, blocks[c].iv)
            => b = c
NoneCrossed == \A a \in Appts, b \in Blocks : ~Crossed(appts, blocks, a, b)

LEMMA RowClosedOnce ==
    ASSUME ClosedDaysOnce, NEW b \in Blocks, \A c \in Blocks \ {b} : blocks'[c] = blocks[c],
           blocks'[b].kind = "day" => ~DayClosed(blocks, blocks'[b].iv)
    PROVE  ClosedDaysOnce'
<1> SUFFICES ASSUME NEW c \in Blocks, NEW d \in Blocks, c # d,
                    blocks'[c].kind = "day", blocks'[d].kind = "day",
                    SameDay(blocks'[c].iv, blocks'[d].iv)
             PROVE  FALSE
  BY DEF ClosedDaysOnce
<1>1. CASE c # b /\ d # b
  BY <1>1 DEF ClosedDaysOnce
<1>2. CASE c = b \/ d = b
  BY <1>2 DEF DayClosed, SameDay
<1> QED BY <1>1, <1>2

LEMMA NextClosedOnce ==
    ASSUME "adminCloseDay" \notin Kinds, Inv, Watched, ClosedDaysOnce, [Next]_vars
    PROVE  ClosedDaysOnce'
<1>1. CASE blocks' = blocks
  BY <1>1 DEF ClosedDaysOnce
<1>2. CASE blocks' # blocks
  <2>0. PICK w \in Workers :
          Commit(w) \/ WriteAdminBlock(w) \/ WriteCancel(w) \/ RescheduleCommit(w)
    BY <1>2 DEF Next, Rest, vars, Step, Start, Begin, Reject, SerializationFailure, Read,
                RescheduleUpdate, RescheduleFind
  <2>1. (Commit(w) \/ WriteAdminBlock(w)) /\ WriteBlock(job[w].op)
    BY <1>2, <2>0 DEF Commit, WriteAdminBlock, WriteCancel, WriteStatus, RescheduleCommit
  <2> DEFINE op == job[w].op
  <2>2. ~OnAppointment(op) /\ op \in SerialOps \cup PlainOps /\ Types
    <3>1. WriteAdminBlock(w) => ~OnAppointment(op)
      BY DEF WriteAdminBlock, OnAppointment, AdminBlockKinds, CancelKinds
    <3>2. Commit(w) => ~OnAppointment(op)
      BY <1>2 DEF Commit
    <3>3. job[w].pc # "idle" /\ Types
      BY <2>1, WritersEnd DEF Inv
    <3> QED BY <2>1, <3>1, <3>2, <3>3, OpsTyped
  <2>3. /\ op.b \in Blocks /\ blocks'[op.b] = BlockAfter(op)
        /\ \A c \in Blocks \ {op.b} : blocks'[c] = blocks[c]
    BY <2>1, <2>2, BlockWritten
  <2>4. ASSUME BlockAfter(op).kind = "day" PROVE ~DayClosed(blocks, BlockAfter(op).iv)
    <3>1. CASE WriteAdminBlock(w)
      <4>1. Shielded([kind |-> "closeDay"]) /\ LooksAtBlock([kind |-> "closeDay"], BlockAfter(op))
        BY <2>4 DEF Shielded, LooksAtBlock, OnAppointment, CancelKinds
      <4> QED BY <2>1, <3>1, <4>1, ShieldedFromBlock
    <3>2. CASE Commit(w)
      <4>1. op \in SerialOps /\ job[w].pc = "running" /\ ~Refused(w)
        BY <3>2, CommitSeesAppts DEF Commit
      <4>2. op.kind \in {"close", "closeDay", "dropOwned"}
        BY <2>2, <4>1, SerialShape DEF Serializable
      <4>3. blocks[op.b] \in [kind : {"absent", "interval", "day"}, iv : Intervals]
        BY <2>2, <2>3 DEF Types, BlockRows
      <4>4. op.kind = "closeDay" /\ BlockAfter(op).iv = op.iv
        BY <2>4, <4>2, <4>3 DEF BlockAfter
      <4>5. SeesBlocks(w)
        BY <2>2, <4>1 DEF Watched, Shielded
      <4>6. ~DayClosed(job[w].blocks, op.iv)
        BY <3>2, <4>4 DEF Commit, Allowed, MayCloseDay
      <4> QED BY <4>1, <4>4, <4>5, <4>6, DaysSeen
    <3> QED BY <2>1, <3>1, <3>2
  <2> HIDE DEF op
  <2> QED BY <2>3, <2>4, RowClosedOnce
<1> QED BY <1>1, <1>2

LEMMA NextNoneCrossed ==
    ASSUME Kinds \cap {"adminClose", "adminCloseDay", "adminMove"} = {},
           Inv, Watched, NoneCrossed, [Next]_vars
    PROVE  NoneCrossed'
<1> SUFFICES ASSUME NEW a \in Appts, NEW b \in Blocks, Crossed(appts', blocks', a, b) PROVE FALSE
  BY DEF NoneCrossed
<1>1. ~Crossed(appts, blocks, a, b)
  BY DEF NoneCrossed
<1>2. PICK w \in Workers : Commit(w) \/ WriteAdminBlock(w) \/ WriteCancel(w) \/ RescheduleCommit(w)
  BY <1>1 DEF Next, Rest, vars, Step, Start, Begin, Reject, SerializationFailure, Read,
              RescheduleUpdate, RescheduleFind
<1> DEFINE op == job[w].op
<1>3. CASE Commit(w)
  <2>1. NamesAppt(w, a) /\ job[w].blocks[b] # blocks[b]
    BY <1>1, <1>3, SeenKeptFree
  <2>2. op \in SerialOps /\ job[w].pc = "running" /\ ~Refused(w) /\ OnAppointment(op) /\ op.a = a
    BY <1>3, <2>1, CommitSeesAppts DEF Commit, NamesAppt
  <2>3. /\ appts'[a].status = op.status /\ appts'[a].iv = op.iv /\ blocks' = blocks
    BY <1>3, <2>2 DEF Commit, Inv, Types
  <2>4. SeesBlocks(w)
    BY <2>2 DEF Watched, Shielded
  <2>5. LooksAtBlock(op, blocks[b]) /\ SameDay(blocks[b].iv, op.iv)
    BY <2>2, <2>3, SerialShape DEF Crossed, Occupies, LooksAtBlock, Overlap
  <2> QED BY <2>1, <2>2, <2>4, <2>5, CommitSeesBlocks
<1>4. CASE WriteAdminBlock(w)
  <2>1. WriteBlock(op)
    BY <1>1, <1>4 DEF WriteAdminBlock
  <2>2. op \in PlainOps /\ ~OnAppointment(op) /\ op.kind = "adminDrop" /\ Types
    BY <1>4, JobShape, PlainShape
       DEF WriteAdminBlock, Inv, Types, KindsOK, AdminBlockKinds, CancelKinds
  <2>3. /\ appts' = appts /\ op.b \in Blocks /\ blocks'[op.b] = BlockAfter(op)
        /\ \A c \in Blocks \ {op.b} : blocks'[c] = blocks[c]
    BY <2>1, <2>2, BlockWritten DEF WriteBlock
  <2>4. blocks[op.b] \in [kind : {"absent", "interval", "day"}, iv : Intervals]
    BY <2>2, <2>3 DEF Types, BlockRows
  <2>5. BlockAfter(op).kind = "absent"
    BY <2>2, <2>4 DEF BlockAfter
  <2> QED BY <1>1, <2>3, <2>5 DEF Crossed
<1>5. CASE WriteCancel(w) \/ RescheduleCommit(w)
  <2>1. \E status \in Statuses \ {"SCHEDULED"} : WriteStatus(op.a, status)
    BY <1>5 DEF WriteCancel, RescheduleCommit, Statuses
  <2>2. op.a \in Appts
    BY <1>5, JobShape, PlainShape
       DEF WriteCancel, RescheduleCommit, Inv, Types, OnAppointment, Waiting
  <2> QED BY <1>1, <2>1, <2>2, StatusCrossesNothing DEF Inv
<1> QED BY <1>2, <1>3, <1>4, <1>5

(* Two masters' commands never close the same day twice, whatever bookings,  *)
(* cancellations and managers' interval blocks run beside them: only the     *)
(* managers' own full-day closures (createScheduleBlock, outside any         *)
(* transaction) can.                                                         *)
THEOREM ClosedOnceByCommands ==
    ASSUME "adminCloseDay" \notin Kinds
    PROVE  Spec => []Abstract!ClosedOnce
<1>1. Init => ClosedDaysOnce
  BY DEF Init, NoBlocks, ClosedDaysOnce
<1>2. Inv /\ Watched /\ ClosedDaysOnce /\ [Next]_vars => (Inv /\ Watched /\ ClosedDaysOnce)'
  BY NextInv, NextWatched, NextClosedOnce
<1>3. ClosedDaysOnce => Abstract!ClosedOnce
  BY DEF ClosedDaysOnce, Abstract!ClosedOnce, SameDay, Abstract!SameDay, DayOf, Abstract!DayOf
<1> QED BY <1>1, <1>2, <1>3, InitInv, InitWatched, PTL DEF Spec

(* A block is never crossed, override or not, unless a manager writes blocks  *)
(* outside a transaction: cancellations, deletions and the clients'          *)
(* requests to reschedule, unprotected as they are, open no hole.            *)
THEOREM BlocksKeptFreeWithoutManagers ==
    ASSUME Kinds \cap {"adminClose", "adminCloseDay", "adminMove"} = {}
    PROVE  Spec => []Abstract!BlocksKeptFree
<1>1. Init => NoneCrossed
  BY DEF Init, NoAppts, NoneCrossed, Crossed, Occupies
<1>2. Inv /\ Watched /\ NoneCrossed /\ [Next]_vars => (Inv /\ Watched /\ NoneCrossed)'
  BY NextInv, NextWatched, NextNoneCrossed
<1>3. NoneCrossed => Abstract!BlocksKeptFree
  BY DEF NoneCrossed, Crossed, Abstract!BlocksKeptFree, Occupies, Abstract!Occupies,
         Overlap, Abstract!Overlap, SameDay, Abstract!SameDay, DayOf, Abstract!DayOf
<1> QED BY <1>1, <1>2, <1>3, InitInv, InitWatched, PTL DEF Spec
===============================================================================
