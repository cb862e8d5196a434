--------------------------- MODULE PublicationProofs ---------------------------
(***************************************************************************)
(* What publications keep for any number of managers, parts and versions.  *)
(***************************************************************************)
EXTENDS Publication, SequenceTheorems, TLAPS

(* The row lock has one holder.                                              *)
OneHolder ==
    \A v, w \in Workers : job[v].pc \in Holding /\ job[w].pc \in Holding => v = w

(* The status of the rows and the pointer of their owner say the same.       *)
PointerAgrees == Active = IF pointer = 0 THEN {} ELSE {pointer}

(* What the holder of the lock has read still holds.                         *)
Fresh(j) ==
    /\ j.pc \in {"target", "activate"} => j.target \in 1 .. Len(rows)
    /\ j.pc \in {"publish", "activate"} => j.old = Active
    /\ j.pc = "publish" => \A v \in Active : rows[v].content # j.content
    /\ area = "settings" /\ j.pc \in {"compare", "publish"} => j.content = draft
    /\ j.pc = "import" => area = "knowledge"

Inv == TypeOK /\ OneHolder /\ PointerAgrees /\ \A w \in Workers : Fresh(job[w])

Steps == {"idle", "lock", "read", "compare", "publish", "target", "activate", "import", "answered"}

--------------------------------------------------------------------------------
(* Requests *)

LEMMA IdleJobs ==
    ASSUME NEW c \in Contents
    PROVE  Idle(c) \in Jobs /\ Idle(c).pc = "idle" /\ Idle(c).target = 0
BY DEF Idle, Jobs, Answers

LEMMA FieldsOfJobs ==
    ASSUME NEW j \in Jobs
    PROVE  /\ \A pc \in Steps : [j EXCEPT !.pc = pc] \in Jobs
           /\ \A v \in Nat : [j EXCEPT !.target = v] \in Jobs
           /\ \A S \in SUBSET Parts : [j EXCEPT !.parts = S] \in Jobs
           /\ \A c \in Contents : [j EXCEPT !.content = c] \in Jobs
           /\ \A S \in SUBSET Nat : [j EXCEPT !.old = S] \in Jobs
           /\ \A a \in Answers : [j EXCEPT !.answer = a] \in Jobs
<1>1. \A pc \in Steps : [j EXCEPT !.pc = pc] \in Jobs
  BY DEF Jobs, Steps
<1>2. \A v \in Nat : [j EXCEPT !.target = v] \in Jobs
  BY DEF Jobs
<1>3. \A S \in SUBSET Parts : [j EXCEPT !.parts = S] \in Jobs
  BY DEF Jobs
<1>4. \A c \in Contents : [j EXCEPT !.content = c] \in Jobs
  BY DEF Jobs
<1>5. \A S \in SUBSET Nat : [j EXCEPT !.old = S] \in Jobs
  BY DEF Jobs
<1>6. \A a \in Answers : [j EXCEPT !.answer = a] \in Jobs
  BY DEF Jobs
<1> QED BY <1>1, <1>2, <1>3, <1>4, <1>5, <1>6

(* Whose request moves on, and nothing else.                                 *)
Moves(w, j) ==
    /\ job' = [job EXCEPT ![w] = j]
    /\ area' = area
    /\ begun' \in 0 .. MaxRequests /\ edits' \in 0 .. MaxEdits

(* A request moves on over rows and a draft that stay.                       *)
LEMMA JobMoves ==
    ASSUME Inv, NEW w \in Workers, NEW j \in Jobs, Moves(w, j), UNCHANGED <<draft, Store>>,
           j.target \in 0 .. Len(rows), Fresh(j),
           j.pc \in Holding => job[w].pc \in Holding \/ ~Locked
    PROVE  Inv' /\ job'[w] = j
<1>1. job' \in [Workers -> Jobs] /\ job'[w] = j /\ \A v \in Workers \ {w} : job'[v] = job[v]
  BY DEF Inv, TypeOK, Moves
<1>2. TypeOK'
  BY <1>1 DEF Inv, TypeOK, Moves, Store
<1>3. OneHolder'
  BY <1>1 DEF Inv, OneHolder, Locked
<1>4. PointerAgrees' /\ Active' = Active
  BY DEF Inv, PointerAgrees, Active, Store
<1>5. ASSUME NEW v \in Workers PROVE Fresh(job'[v])
  BY <1>1 DEF Inv
<1>6. ASSUME NEW v \in Workers PROVE Fresh(job[v])'
  BY <1>4, <1>5 DEF Fresh, Store, Moves
<1> QED BY <1>1, <1>2, <1>3, <1>4, <1>6 DEF Inv

LEMMA EndMoves ==
    ASSUME Inv, NEW w \in Workers, NEW answer \in Answers, Ends(w, answer)
    PROVE  /\ [job[w] EXCEPT !.pc = "answered", !.answer = answer] \in Jobs
           /\ Moves(w, [job[w] EXCEPT !.pc = "answered", !.answer = answer])
           /\ job'[w].pc = "answered" /\ job'[w].answer = answer
           /\ job'[w].target = job[w].target
<1>1. job[w] \in Jobs
  BY DEF Inv, TypeOK
<1>2. [job[w] EXCEPT !.pc = "answered"] \in Jobs
  BY <1>1, FieldsOfJobs DEF Steps
<1>3. [job[w] EXCEPT !.pc = "answered", !.answer = answer] \in Jobs
  BY <1>2, FieldsOfJobs
<1>4. Moves(w, [job[w] EXCEPT !.pc = "answered", !.answer = answer])
  BY DEF Inv, TypeOK, Ends, Goes, Moves
<1>5. job'[w] = [job[w] EXCEPT !.pc = "answered", !.answer = answer]
  BY <1>4 DEF Inv, TypeOK, Moves
<1> QED BY <1>1, <1>3, <1>4, <1>5 DEF Jobs

LEMMA EndStays ==
    ASSUME Inv, NEW w \in Workers, NEW answer \in Answers, Ends(w, answer),
           UNCHANGED <<draft, Store>>
    PROVE  Inv'
<1> DEFINE j == [job[w] EXCEPT !.pc = "answered", !.answer = answer]
<1>1. j \in Jobs /\ Moves(w, j)
  BY EndMoves
<1>2. j.pc = "answered" /\ j.target = job[w].target
  BY DEF Inv, TypeOK, Jobs
<1> HIDE DEF j
<1>3. Fresh(j) /\ j.pc \notin Holding
  BY <1>2 DEF Fresh, Holding
<1>4. j.target \in 0 .. Len(rows)
  BY <1>2 DEF Inv, TypeOK
<1> QED BY <1>1, <1>3, <1>4, JobMoves

LEMMA BeginStays ==
    ASSUME Inv, NEW w \in Workers, NEW j \in Jobs, Begins(w, j), j.target \in 0 .. Len(rows),
           j.pc = "lock" \/ (j.pc = "import" /\ area = "knowledge")
    PROVE  Inv'
<1>1. Moves(w, j) /\ UNCHANGED <<draft, Store>>
  BY PublicationAssumption DEF Inv, TypeOK, Begins, Moves, Store
<1>2. Fresh(j) /\ j.pc \notin Holding
  BY DEF Fresh, Holding
<1> QED BY <1>1, <1>2, JobMoves

LEMMA ArrivalSteps ==
    ASSUME Inv, NEW w \in Workers,
           \/ Publish(w)
           \/ \E v \in 1 .. Len(rows) : Activate(w, v)
           \/ \E S \in SUBSET Parts, c \in Contents : Import(w, S, c)
    PROVE  Inv' /\ UNCHANGED Store
<1>1. draft \in Contents /\ Len(rows) \in Nat
  BY LenProperties DEF Inv, TypeOK
<1>2. ASSUME Publish(w) PROVE Inv' /\ UNCHANGED Store
  <2> DEFINE j == [Idle(draft) EXCEPT !.pc = "lock"]
  <2>1. j \in Jobs
    BY <1>1, IdleJobs, FieldsOfJobs DEF Steps
  <2>2. j.pc = "lock" /\ j.target = 0
    BY <1>1, IdleJobs DEF Jobs
  <2>3. Begins(w, j)
    BY <1>2 DEF Publish
  <2> HIDE DEF j
  <2>4. Inv'
    BY <1>1, <2>1, <2>2, <2>3, BeginStays
  <2> QED BY <2>3, <2>4 DEF Begins
<1>3. ASSUME NEW v \in 1 .. Len(rows), Activate(w, v) PROVE Inv' /\ UNCHANGED Store
  <2> DEFINE j == [Idle(draft) EXCEPT !.pc = "lock", !.target = v]
  <2>1. v \in Nat /\ v \in 0 .. Len(rows)
    BY <1>1
  <2>2. [Idle(draft) EXCEPT !.pc = "lock"] \in Jobs
    BY <1>1, IdleJobs, FieldsOfJobs DEF Steps
  <2>3. j \in Jobs
    BY <2>1, <2>2, FieldsOfJobs
  <2>4. j.pc = "lock" /\ j.target = v
    BY <1>1, IdleJobs DEF Jobs
  <2>5. Begins(w, j)
    BY <1>3 DEF Activate
  <2> HIDE DEF j
  <2>6. Inv'
    BY <2>1, <2>3, <2>4, <2>5, BeginStays
  <2> QED BY <2>5, <2>6 DEF Begins
<1>4. ASSUME NEW S \in SUBSET Parts, NEW c \in Contents, Import(w, S, c)
      PROVE  Inv' /\ UNCHANGED Store
  <2> DEFINE X == {p \in S : draft[p] # c[p]}
  <2> DEFINE j == [Idle(c) EXCEPT !.pc = "import", !.parts = X]
  <2>1. [Idle(c) EXCEPT !.pc = "import"] \in Jobs /\ X \in SUBSET Parts
    BY IdleJobs, FieldsOfJobs DEF Steps
  <2>2. Begins(w, j) /\ area = "knowledge"
    BY <1>4 DEF Import
  <2> HIDE DEF X
  <2>3. j \in Jobs
    BY <2>1, FieldsOfJobs
  <2>4. j.pc = "import" /\ j.target = 0
    BY IdleJobs DEF Jobs
  <2> HIDE DEF j
  <2>5. Inv'
    BY <1>1, <2>2, <2>3, <2>4, BeginStays
  <2> QED BY <2>2, <2>5 DEF Begins
<1> QED BY <1>2, <1>3, <1>4

(* A request goes on with its next statement.                                *)
LEMMA GoStays ==
    ASSUME Inv, NEW w \in Workers, NEW j \in Jobs, Goes(w, j), UNCHANGED <<draft, Store>>,
           j.target \in 0 .. Len(rows), Fresh(j),
           j.pc \in Holding => job[w].pc \in Holding \/ ~Locked
    PROVE  Inv' /\ job'[w] = j
<1>1. Moves(w, j)
  BY DEF Inv, TypeOK, Goes, Moves
<1> QED BY <1>1, JobMoves

LEMMA TakeLockStep ==
    ASSUME Inv, NEW w \in Workers, TakeLock(w)
    PROVE  Inv' /\ UNCHANGED Store
<1> DEFINE pc == IF job[w].target = 0 THEN "read" ELSE "target"
<1> DEFINE j == [job[w] EXCEPT !.pc = pc]
<1>1. Goes(w, j) /\ UNCHANGED <<draft, Store>> /\ ~Locked
  BY DEF TakeLock
<1>2. job[w] \in Jobs /\ job[w].target \in 0 .. Len(rows) /\ pc \in Steps
  BY DEF Inv, TypeOK, Steps
<1>3. j \in Jobs
  BY <1>2, FieldsOfJobs
<1>4. j.pc = pc /\ j.target = job[w].target
  BY <1>2 DEF Jobs
<1> HIDE DEF j
<1>5. Len(rows) \in Nat
  BY LenProperties DEF Inv, TypeOK
<1>6. Fresh(j)
  BY <1>2, <1>4, <1>5 DEF Fresh
<1>7. Inv'
  BY <1>1, <1>2, <1>3, <1>4, <1>6, GoStays
<1> QED BY <1>1, <1>7

LEMMA ReadDraftStep ==
    ASSUME Inv, NEW w \in Workers, ReadDraft(w)
    PROVE  Inv' /\ UNCHANGED Store
<1> DEFINE j == [job[w] EXCEPT !.pc = "compare", !.content = draft]
<1>1. Goes(w, j) /\ UNCHANGED <<draft, Store>> /\ job[w].pc = "read"
  BY DEF ReadDraft
<1>2. job[w] \in Jobs /\ job[w].target \in 0 .. Len(rows) /\ draft \in Contents
  BY DEF Inv, TypeOK
<1>3. [job[w] EXCEPT !.pc = "compare"] \in Jobs
  BY <1>2, FieldsOfJobs DEF Steps
<1>4. j \in Jobs
  BY <1>2, <1>3, FieldsOfJobs
<1>5. j.pc = "compare" /\ j.target = job[w].target /\ j.content = draft
  BY <1>2 DEF Jobs
<1> HIDE DEF j
<1>6. Fresh(j)
  BY <1>5 DEF Fresh
<1>7. Inv'
  BY <1>1, <1>2, <1>4, <1>5, <1>6, GoStays DEF Holding
<1> QED BY <1>1, <1>7

(* A reader of the ACTIVE rows has them in its record.                       *)
LEMMA FoundActive ==
    ASSUME Inv, NEW w \in Workers, NEW pc \in {"publish", "activate"}
    PROVE  LET j == [job[w] EXCEPT !.pc = pc, !.old = Active] IN
           /\ j \in Jobs /\ j.pc = pc /\ j.target = job[w].target
           /\ j.content = job[w].content /\ j.old = Active
<1> DEFINE j == [job[w] EXCEPT !.pc = pc, !.old = Active]
<1>1. job[w] \in Jobs /\ pc \in Steps
  BY DEF Inv, TypeOK, Steps
<1>2. Len(rows) \in Nat
  BY LenProperties DEF Inv, TypeOK
<1>3. Active \in SUBSET Nat
  BY <1>2 DEF Active
<1>4. [job[w] EXCEPT !.pc = pc] \in Jobs
  BY <1>1, FieldsOfJobs
<1>5. j \in Jobs
  BY <1>3, <1>4, FieldsOfJobs
<1>6. j.pc = pc /\ j.target = job[w].target /\ j.content = job[w].content /\ j.old = Active
  BY <1>1 DEF Jobs
<1> QED BY <1>5, <1>6

LEMMA CompareStep ==
    ASSUME Inv, NEW w \in Workers, Compare(w)
    PROVE  Inv' /\ UNCHANGED Store
<1>1. UNCHANGED <<draft, Store>> /\ job[w].pc = "compare"
  BY DEF Compare
<1>2. ASSUME Ends(w, "unchanged") PROVE Inv'
  BY <1>1, <1>2, EndStays DEF Answers
<1>3. ASSUME ~\E v \in Active : rows[v].content = job[w].content,
             Goes(w, [job[w] EXCEPT !.pc = "publish", !.old = Active])
      PROVE  Inv'
  <2> DEFINE j == [job[w] EXCEPT !.pc = "publish", !.old = Active]
  <2>1. j \in Jobs /\ j.pc = "publish" /\ j.target = job[w].target
        /\ j.content = job[w].content /\ j.old = Active
    BY FoundActive
  <2>2. Goes(w, j)
    BY <1>3
  <2> HIDE DEF j
  <2>3. Fresh(j)
    BY <1>1, <1>3, <2>1 DEF Inv, Fresh
  <2>4. j.target \in 0 .. Len(rows)
    BY <2>1 DEF Inv, TypeOK
  <2> QED BY <1>1, <2>1, <2>2, <2>3, <2>4, GoStays DEF Holding
<1> QED BY <1>1, <1>2, <1>3 DEF Compare

LEMMA FindTargetStep ==
    ASSUME Inv, NEW w \in Workers, FindTarget(w)
    PROVE  Inv' /\ UNCHANGED Store
<1>1. UNCHANGED <<draft, Store>> /\ job[w].pc = "target"
  BY DEF FindTarget
<1>2. ASSUME Ends(w, "activated") PROVE Inv'
  BY <1>1, <1>2, EndStays DEF Answers
<1>3. ASSUME Goes(w, [job[w] EXCEPT !.pc = "activate", !.old = Active]) PROVE Inv'
  <2> DEFINE j == [job[w] EXCEPT !.pc = "activate", !.old = Active]
  <2>1. j \in Jobs /\ j.pc = "activate" /\ j.target = job[w].target /\ j.old = Active
    BY FoundActive
  <2>2. Goes(w, j)
    BY <1>3
  <2> HIDE DEF j
  <2>3. Fresh(j)
    BY <1>1, <2>1 DEF Inv, Fresh
  <2>4. j.target \in 0 .. Len(rows)
    BY <2>1 DEF Inv, TypeOK
  <2> QED BY <1>1, <2>1, <2>2, <2>3, <2>4, GoStays DEF Holding
<1> QED BY <1>1, <1>2, <1>3 DEF FindTarget

LEMMA AbortReplySteps ==
    ASSUME Inv, NEW w \in Workers, Abort(w) \/ Reply(w)
    PROVE  Inv' /\ UNCHANGED Store
<1>1. UNCHANGED <<draft, Store>>
  BY DEF Abort, Reply
<1>2. ASSUME Abort(w) PROVE Inv'
  BY <1>1, <1>2, EndStays DEF Abort, Answers
<1>3. ASSUME Reply(w) PROVE Inv'
  <2>1. Idle(draft) \in Jobs /\ Idle(draft).pc = "idle" /\ Idle(draft).target = 0
    BY IdleJobs DEF Inv, TypeOK
  <2>2. Fresh(Idle(draft)) /\ Idle(draft).pc \notin Holding
    BY <2>1 DEF Fresh, Holding
  <2>3. 0 \in 0 .. Len(rows)
    BY LenProperties DEF Inv, TypeOK
  <2> QED BY <1>1, <1>3, <2>1, <2>2, <2>3, GoStays DEF Reply
<1> QED BY <1>1, <1>2, <1>3

--------------------------------------------------------------------------------
(* The draft changes: the settings' only while nobody holds their row.       *)

LEMMA DraftMoves ==
    ASSUME Inv, NEW w \in Workers, NEW j \in Jobs, Moves(w, j), j.pc = "answered",
           j.target \in 0 .. Len(rows), draft' \in Contents, UNCHANGED Store,
           area = "knowledge" \/ ~Locked
    PROVE  Inv'
<1>1. job' \in [Workers -> Jobs] /\ job'[w] = j /\ \A v \in Workers \ {w} : job'[v] = job[v]
  BY DEF Inv, TypeOK, Moves
<1>2. TypeOK'
  BY <1>1 DEF Inv, TypeOK, Moves, Store
<1>3. OneHolder'
  BY <1>1 DEF Inv, OneHolder, Holding
<1>4. PointerAgrees' /\ Active' = Active
  BY DEF Inv, PointerAgrees, Active, Store
<1>5. ASSUME NEW v \in Workers PROVE Fresh(job[v])'
  <2>1. CASE v = w
    BY <1>1, <2>1 DEF Fresh, Holding
  <2>2. CASE v # w
    <3>1. job'[v] = job[v] /\ Fresh(job[v])
      BY <1>1, <2>2 DEF Inv
    <3>2. area = "settings" => job[v].pc \notin {"compare", "publish"}
      BY DEF Locked, Holding
    <3> QED BY <1>4, <3>1, <3>2 DEF Fresh, Store, Moves
  <2> QED BY <2>1, <2>2
<1> QED BY <1>2, <1>3, <1>4, <1>5 DEF Inv

LEMMA EditSteps ==
    ASSUME Inv, NEW S \in SUBSET Parts, NEW c \in Contents, Edits(S, c),
           area = "knowledge" \/ ~Locked
    PROVE  Inv' /\ UNCHANGED Store
<1>1. edits' \in 0 .. MaxEdits /\ UNCHANGED <<area, Store, job, begun>>
  BY PublicationAssumption DEF Inv, TypeOK, Edits
<1>2. draft' \in Contents
  BY DEF Inv, TypeOK, Edits, Contents
<1>3. TypeOK'
  BY <1>1, <1>2 DEF Inv, TypeOK, Store
<1>4. OneHolder' /\ PointerAgrees' /\ Active' = Active
  BY <1>1 DEF Inv, OneHolder, PointerAgrees, Active, Store
<1>5. ASSUME NEW v \in Workers PROVE Fresh(job[v])'
  <2>1. job'[v] = job[v] /\ Fresh(job[v])
    BY <1>1 DEF Inv
  <2>2. area = "settings" => job[v].pc \notin {"compare", "publish"}
    BY DEF Locked, Holding
  <2> QED BY <1>1, <1>4, <2>1, <2>2 DEF Fresh, Store
<1> QED BY <1>1, <1>3, <1>4, <1>5 DEF Inv

LEMMA ImportCommitsStep ==
    ASSUME Inv, NEW w \in Workers, ImportCommits(w)
    PROVE  Inv' /\ UNCHANGED Store
<1> DEFINE j == [job[w] EXCEPT !.pc = "answered", !.answer = "none"]
<1>1. job[w] \in Jobs /\ draft \in Contents
  BY DEF Inv, TypeOK
<1>2. draft' \in Contents
  BY <1>1 DEF ImportCommits, Contents, Jobs
<1>3. Ends(w, "none") /\ UNCHANGED Store /\ "none" \in Answers /\ area = "knowledge"
  BY DEF ImportCommits, Answers, Inv, Fresh
<1>4. j \in Jobs /\ Moves(w, j)
  BY <1>3, EndMoves
<1>5. j.pc = "answered" /\ j.target = job[w].target
  BY <1>1 DEF Jobs
<1> HIDE DEF j
<1>6. j.target \in 0 .. Len(rows)
  BY <1>5 DEF Inv, TypeOK
<1>7. Inv'
  BY <1>2, <1>3, <1>4, <1>5, <1>6, DraftMoves
<1> QED BY <1>3, <1>7

--------------------------------------------------------------------------------
(* The rows change *)

LEMMA FunctionIsSeq ==
    ASSUME NEW n \in Nat, NEW S, NEW f \in [1 .. n -> S]
    PROVE  f \in Seq(S) /\ Len(f) = n
OBVIOUS

LEMMA Supersedes ==
    ASSUME TypeOK, NEW old
    PROVE  /\ Superseded(old) \in Seq(Rows) /\ Len(Superseded(old)) = Len(rows)
           /\ \A v \in 1 .. Len(rows) :
                /\ Superseded(old)[v].content = rows[v].content
                /\ Superseded(old)[v].status = IF v \in old THEN "SUPERSEDED" ELSE rows[v].status
<1>1. Len(rows) \in Nat /\ \A v \in 1 .. Len(rows) : rows[v] \in Rows
  BY LenProperties, ElementOfSeq DEF TypeOK
<1>2. \A v \in 1 .. Len(rows) : [rows[v] EXCEPT !.status = "SUPERSEDED"] \in Rows
  BY <1>1 DEF Rows
<1>3. Superseded(old) \in [1 .. Len(rows) -> Rows]
  BY <1>1, <1>2 DEF Superseded
<1>4. ASSUME NEW v \in 1 .. Len(rows)
      PROVE  /\ Superseded(old)[v].content = rows[v].content
             /\ Superseded(old)[v].status = IF v \in old THEN "SUPERSEDED" ELSE rows[v].status
  BY <1>1 DEF Superseded, Rows
<1> QED BY <1>1, <1>3, <1>4, FunctionIsSeq

(* Behind the lock, the version found ACTIVE gives way to one more.          *)
LEMMA PublishResult ==
    ASSUME Inv, NEW w \in Workers, PublishCommits(w)
    PROVE  /\ rows' \in Seq(Rows) /\ Len(rows') = Len(rows) + 1
           /\ Active' = {Len(rows) + 1} /\ pointer' = Len(rows) + 1
           /\ \A v \in 1 .. Len(rows) : rows'[v].content = rows[v].content
           /\ rows'[Len(rows) + 1].content = job[w].content
           /\ \A v \in Active : rows[v].content # job[w].content
<1> DEFINE old == job[w].old
<1> DEFINE new == [status |-> "ACTIVE", content |-> job[w].content]
<1>1. job[w].pc = "publish" /\ rows' = Append(Superseded(old), new) /\ pointer' = Len(rows) + 1
  BY DEF PublishCommits
<1>2. old = Active /\ \A v \in Active : rows[v].content # job[w].content
  BY <1>1 DEF Inv, Fresh
<1>3. new \in Rows
  BY DEF Inv, TypeOK, Jobs, Rows
<1>4. Superseded(old) \in Seq(Rows) /\ Len(Superseded(old)) = Len(rows) /\ Len(rows) \in Nat
  BY Supersedes, LenProperties DEF Inv, TypeOK
<1>5. new.status = "ACTIVE" /\ new.content = job[w].content
  OBVIOUS
<1> HIDE DEF new, old
<1>6. /\ rows' \in Seq(Rows) /\ Len(rows') = Len(rows) + 1
      /\ \A v \in 1 .. Len(rows) : rows'[v] = Superseded(old)[v]
      /\ rows'[Len(rows) + 1] = new
  BY <1>1, <1>3, <1>4, AppendProperties
<1>7. \A v \in 1 .. Len(rows) : rows'[v].content = rows[v].content /\ rows'[v].status # "ACTIVE"
  <2> TAKE v \in 1 .. Len(rows)
  <2>1. /\ Superseded(old)[v].content = rows[v].content
        /\ Superseded(old)[v].status = IF v \in old THEN "SUPERSEDED" ELSE rows[v].status
    BY Supersedes DEF Inv
  <2> QED BY <1>2, <1>6, <2>1 DEF Active
<1>8. Active' = {Len(rows) + 1}
  BY <1>4, <1>5, <1>6, <1>7 DEF Active
<1> QED BY <1>1, <1>2, <1>5, <1>6, <1>7, <1>8

LEMMA ActivateResult ==
    ASSUME Inv, NEW w \in Workers, ActivateCommits(w)
    PROVE  /\ rows' \in Seq(Rows) /\ Len(rows') = Len(rows)
           /\ job[w].target \in 1 .. Len(rows)
           /\ Active' = {job[w].target} /\ pointer' = job[w].target
           /\ \A v \in 1 .. Len(rows) : rows'[v].content = rows[v].content
<1> DEFINE old == job[w].old
<1> DEFINE t == job[w].target
<1> DEFINE row == [Superseded(old)[t] EXCEPT !.status = "ACTIVE"]
<1>1. job[w].pc = "activate" /\ pointer' = t
      /\ rows' = [Superseded(old) EXCEPT ![t].status = "ACTIVE"]
  BY DEF ActivateCommits
<1>2. old = Active /\ t \in 1 .. Len(rows)
  BY <1>1 DEF Inv, Fresh
<1>3. Superseded(old) \in Seq(Rows) /\ Len(Superseded(old)) = Len(rows) /\ Len(rows) \in Nat
  BY Supersedes, LenProperties DEF Inv, TypeOK
<1> HIDE DEF old, t
<1>4. Superseded(old)[t] \in Rows
  BY <1>2, <1>3, ElementOfSeq
<1>5. row \in Rows /\ row.status = "ACTIVE" /\ row.content = Superseded(old)[t].content
  BY <1>4 DEF Rows
<1>6. rows' = [Superseded(old) EXCEPT ![t] = row]
  BY <1>1
<1> HIDE DEF row
<1>7. /\ rows' \in Seq(Rows) /\ Len(rows') = Len(rows)
      /\ \A v \in 1 .. Len(rows) : rows'[v] = IF v = t THEN row ELSE Superseded(old)[v]
  BY <1>2, <1>3, <1>5, <1>6, ExceptSeq
<1>8. \A v \in 1 .. Len(rows) :
        /\ rows'[v].content = rows[v].content
        /\ rows'[v].status = "ACTIVE" <=> v = t
  <2> TAKE v \in 1 .. Len(rows)
  <2>1. /\ Superseded(old)[v].content = rows[v].content
        /\ Superseded(old)[v].status = IF v \in old THEN "SUPERSEDED" ELSE rows[v].status
    BY Supersedes DEF Inv
  <2> QED BY <1>2, <1>5, <1>7, <2>1 DEF Active
<1>9. Active' = {t}
  BY <1>2, <1>7, <1>8 DEF Active
<1> QED BY <1>1, <1>2, <1>7, <1>8, <1>9 DEF t

(* Whoever holds the lock lets it go with the rows written.                  *)
LEMMA StoreMoves ==
    ASSUME Inv, NEW w \in Workers, NEW answer \in Answers, Ends(w, answer), UNCHANGED draft,
           job[w].pc \in Holding, rows' \in Seq(Rows), Len(rows) \leq Len(rows'),
           pointer' \in 1 .. Len(rows'), Active' = {pointer'}
    PROVE  Inv'
<1>1. /\ job' \in [Workers -> Jobs] /\ \A v \in Workers \ {w} : job'[v] = job[v]
      /\ job'[w].pc = "answered" /\ job'[w].target = job[w].target
      /\ area' = area /\ begun' \in 0 .. MaxRequests /\ edits' \in 0 .. MaxEdits
  BY EndMoves DEF Inv, TypeOK, Moves
<1>2. Len(rows) \in Nat /\ Len(rows') \in Nat
  BY LenProperties DEF Inv, TypeOK
<1>3. TypeOK'
  BY <1>1, <1>2 DEF Inv, TypeOK
<1>4. \A v \in Workers : job'[v].pc \notin Holding
  BY <1>1 DEF Inv, OneHolder, Holding
<1>5. OneHolder' /\ \A v \in Workers : Fresh(job[v])'
  BY <1>1, <1>4 DEF Inv, OneHolder, Fresh, Holding
<1>6. PointerAgrees'
  BY <1>2 DEF PointerAgrees
<1> QED BY <1>3, <1>5, <1>6 DEF Inv

LEMMA PublishCommitsStep ==
    ASSUME Inv, NEW w \in Workers, PublishCommits(w)
    PROVE  Inv'
<1>1. Ends(w, "published") /\ "published" \in Answers /\ UNCHANGED draft /\ job[w].pc \in Holding
  BY DEF PublishCommits, Answers, Holding
<1>2. Len(rows) \in Nat
  BY LenProperties DEF Inv, TypeOK
<1> QED BY <1>1, <1>2, PublishResult, StoreMoves

LEMMA ActivateCommitsStep ==
    ASSUME Inv, NEW w \in Workers, ActivateCommits(w)
    PROVE  Inv'
<1>1. Ends(w, "activated") /\ "activated" \in Answers /\ UNCHANGED draft /\ job[w].pc \in Holding
  BY DEF ActivateCommits, Answers, Holding
<1>2. Len(rows) \in Nat
  BY LenProperties DEF Inv, TypeOK
<1> QED BY <1>1, <1>2, ActivateResult, StoreMoves

--------------------------------------------------------------------------------
(* All steps *)

LEMMA InitHolds ==
    ASSUME Init
    PROVE  Inv
<1>1. /\ Idle(draft) \in Jobs /\ Idle(draft).pc = "idle" /\ Idle(draft).target = 0
  BY IdleJobs DEF Init
<1>2. rows \in Seq(Rows) /\ Len(rows) = 0
  BY EmptySeq DEF Init
<1>3. TypeOK
  BY <1>1, <1>2, PublicationAssumption DEF Init, TypeOK
<1>4. Active = {}
  BY <1>2 DEF Active
<1>5. \A w \in Workers : job[w].pc = "idle"
  BY <1>1 DEF Init
<1> QED BY <1>3, <1>4, <1>5 DEF Init, Inv, OneHolder, PointerAgrees, Fresh, Holding

LEMMA NextKeepsInv ==
    ASSUME Inv, [Next]_vars
    PROVE  /\ Inv'
           /\ \/ UNCHANGED Store
              \/ \E w \in Workers : PublishCommits(w) \/ ActivateCommits(w)
<1>1. ASSUME NEW w \in Workers,
             \/ Publish(w)
             \/ \E v \in 1 .. Len(rows) : Activate(w, v)
             \/ \E S \in SUBSET Parts, c \in Contents : Import(w, S, c)
      PROVE  Inv' /\ UNCHANGED Store
  BY <1>1, ArrivalSteps
<1>2. ASSUME NEW w \in Workers, Step(w)
      PROVE  Inv' /\ (UNCHANGED Store \/ PublishCommits(w) \/ ActivateCommits(w))
  BY <1>2, TakeLockStep, ReadDraftStep, CompareStep, PublishCommitsStep, FindTargetStep,
     ActivateCommitsStep, ImportCommitsStep, AbortReplySteps DEF Step
<1>3. ASSUME NEW S \in SUBSET Parts, NEW c \in Contents, EditSettings(S, c)
      PROVE  Inv' /\ UNCHANGED Store
  BY <1>3, EditSteps DEF EditSettings
<1>4. ASSUME NEW p \in Parts, NEW c \in Contents, EditEntry(p, c)
      PROVE  Inv' /\ UNCHANGED Store
  <2>1. {p} \in SUBSET Parts
    OBVIOUS
  <2> QED BY <1>4, <2>1, EditSteps DEF EditEntry
<1>5. ASSUME UNCHANGED vars PROVE Inv' /\ UNCHANGED Store
  <2>1. UNCHANGED <<area, draft, rows, pointer, job, begun, edits>>
    BY <1>5 DEF vars
  <2>2. TypeOK' /\ OneHolder' /\ PointerAgrees' /\ Active' = Active
    BY <2>1 DEF Inv, TypeOK, OneHolder, PointerAgrees, Active
  <2>3. \A w \in Workers : Fresh(job[w])'
    BY <2>1, <2>2 DEF Inv, Fresh
  <2> QED BY <2>1, <2>2, <2>3 DEF Inv, Store
<1> QED BY <1>1, <1>2, <1>3, <1>4, <1>5 DEF Next, Rest

(* The invariant holds: one holder of the lock, whose reads still hold, and  *)
(* a pointer that agrees with the rows.                                      *)
THEOREM Invariance == Spec => []Inv
<1>1. Init => Inv
  BY InitHolds
<1>2. Inv /\ [Next]_vars => Inv'
  BY NextKeepsInv
<1> QED BY <1>1, <1>2, PTL DEF Spec

(* Every row and request is of its type.                                     *)
THEOREM TypeCorrect == Spec => []TypeOK
<1>1. Inv => TypeOK
  BY DEF Inv
<1> QED BY <1>1, Invariance, PTL

(* The owner's pointer names the one ACTIVE version, or there is none.       *)
THEOREM PointersAgree == Spec => []PointerAgrees
<1>1. Inv => PointerAgrees
  BY DEF Inv
<1> QED BY <1>1, Invariance, PTL

--------------------------------------------------------------------------------
(* What a manager is told *)

LEMMA OnlyTheMoverIsAnswered ==
    ASSUME Inv, [Next]_vars, NEW w \in Workers, Published(w)
    PROVE  Compare(w) \/ PublishCommits(w)
<1>1. job'[w].pc # job[w].pc /\ job[w].pc \in Holding
      /\ job'[w].answer \in {"unchanged", "published"}
  BY DEF Published, Holding
<1>2. ASSUME NEW v \in Workers, NEW j, Begins(v, j) PROVE FALSE
  <2>1. job[v].pc = "idle" /\ job' = [job EXCEPT ![v] = j]
    BY <1>2 DEF Begins
  <2> QED BY <1>1, <2>1 DEF Inv, TypeOK, Holding
<1>3. ASSUME NEW v \in Workers, NEW j, Goes(v, j) PROVE v = w /\ job'[w] = j
  BY <1>1, <1>3 DEF Inv, TypeOK, Goes
<1>4. ASSUME NEW v \in Workers, NEW a \in Answers, Ends(v, a) PROVE v = w /\ job'[w].answer = a
  <2>1. v = w
    BY <1>3, <1>4 DEF Ends
  <2> QED BY <1>4, <2>1, EndMoves
<1>5. ASSUME UNCHANGED job PROVE FALSE
  BY <1>1, <1>5
<1>6. ASSUME NEW v \in Workers, Step(v) PROVE Compare(w) \/ PublishCommits(w)
  <2>1. ASSUME \/ TakeLock(v) \/ ReadDraft(v) \/ Reply(v) PROVE FALSE
    <3>1. PICK j : Goes(v, j) /\ j.pc # "answered"
      <4>1. job[v] \in Jobs /\ draft \in Contents
        BY DEF Inv, TypeOK
      <4>2. CASE TakeLock(v)
        BY <4>1, <4>2 DEF TakeLock, Jobs
      <4>3. CASE ReadDraft(v)
        <5> DEFINE j == [job[v] EXCEPT !.pc = "compare", !.content = draft]
        <5>1. Goes(v, j)
          BY <4>3 DEF ReadDraft
        <5>2. j.pc # "answered"
          BY <4>1 DEF Jobs
        <5> QED BY <5>1, <5>2
      <4>4. CASE Reply(v)
        BY <4>1, <4>4, IdleJobs DEF Reply
      <4> QED BY <2>1, <4>2, <4>3, <4>4
    <3> QED BY <1>3, <3>1 DEF Published
  <2>2. ASSUME Compare(v) \/ PublishCommits(v) PROVE v = w
    <3>1. \E j : Goes(v, j)
      BY <2>2 DEF Compare, PublishCommits, Ends
    <3> QED BY <1>3, <3>1
  <2>3. ASSUME FindTarget(v) PROVE FALSE
    <3>1. CASE Ends(v, "activated")
      BY <1>1, <1>4, <3>1 DEF Answers
    <3>2. CASE Goes(v, [job[v] EXCEPT !.pc = "activate", !.old = Active])
      <4>1. [job[v] EXCEPT !.pc = "activate", !.old = Active].pc # "answered"
        BY FoundActive
      <4> QED BY <1>3, <3>2, <4>1 DEF Published
    <3> QED BY <2>3, <3>1, <3>2 DEF FindTarget
  <2>4. ASSUME ActivateCommits(v) PROVE FALSE
    BY <1>1, <1>4, <2>4 DEF ActivateCommits, Answers
  <2>5. ASSUME ImportCommits(v) \/ Abort(v) PROVE FALSE
    BY <1>1, <1>4, <2>5 DEF ImportCommits, Abort, Answers
  <2> QED BY <1>6, <2>1, <2>2, <2>3, <2>4, <2>5 DEF Step
<1> QED BY <1>2, <1>5, <1>6 DEF Next, Publish, Activate, Import, EditSettings, EditEntry, Edits,
           Rest, vars

LEMMA AnswerIsLive ==
    ASSUME Inv, [Next]_vars, NEW w \in Workers, Published(w)
    PROVE  \E v \in Active' :
            /\ rows'[v].content = job[w].content
            /\ area = "settings" => rows'[v].content = draft'
<1>1. CASE Compare(w)
  <2>1. UNCHANGED <<draft, Store>> /\ job[w].pc = "compare"
    BY <1>1 DEF Compare
  <2>2. \E v \in Active : rows[v].content = job[w].content
    <3>1. ASSUME Goes(w, [job[w] EXCEPT !.pc = "publish", !.old = Active]) PROVE FALSE
      <4>1. [job[w] EXCEPT !.pc = "publish", !.old = Active].pc = "publish"
        BY FoundActive
      <4> QED BY <3>1, <4>1 DEF Inv, TypeOK, Goes, Published
    <3> QED BY <1>1, <3>1 DEF Compare
  <2>3. Active' = Active
    BY <2>1 DEF Active, Store
  <2>4. area = "settings" => job[w].content = draft
    BY <2>1 DEF Inv, Fresh
  <2> QED BY <2>1, <2>2, <2>3, <2>4 DEF Store
<1>2. CASE PublishCommits(w)
  <2>1. job[w].pc = "publish" /\ UNCHANGED draft
    BY <1>2 DEF PublishCommits
  <2>2. area = "settings" => job[w].content = draft
    BY <2>1 DEF Inv, Fresh
  <2> QED BY <1>2, <2>1, <2>2, PublishResult
<1> QED BY <1>1, <1>2, OnlyTheMoverIsAnswered

(* Whoever is told of a success, or of nothing to publish, has the draft     *)
(* live, for any number of managers who publish, roll back and edit.         *)
THEOREM PublishedDraftIsLive == Spec => DraftIsLive
<1>1. Inv /\ [Next]_vars =>
        \A w \in Workers : Published(w) =>
            \E v \in Active' :
                /\ rows'[v].content = job[w].content
                /\ area = "settings" => rows'[v].content = draft'
  BY AnswerIsLive
<1> QED BY <1>1, Invariance, PTL DEF Spec, DraftIsLive

(* Activated: a rollback tells its manager that the version is live.         *)
Activated(w) ==
    job[w].pc \in Holding /\ job'[w].pc = "answered" /\ job'[w].answer = "activated"
ActivatedIsLive ==
    [][\A w \in Workers : Activated(w) =>
        Active' = {job[w].target} /\ pointer' = job[w].target]_vars

LEMMA OnlyRollbacksActivate ==
    ASSUME Inv, [Next]_vars, NEW w \in Workers, Activated(w)
    PROVE  ActivateCommits(w) \/ (FindTarget(w) /\ job[w].target \in Active)
<1>1. job'[w].pc = "answered" /\ job[w].pc \in Holding /\ job'[w].answer = "activated"
  BY DEF Activated
<1>2. job'[w] # job[w]
  BY <1>1 DEF Holding
<1>3. ASSUME NEW v \in Workers, NEW j, Goes(v, j) PROVE v = w /\ job'[w] = j
  BY <1>2, <1>3 DEF Inv, TypeOK, Goes
<1>4. ASSUME NEW v \in Workers, NEW a \in Answers, Ends(v, a) PROVE v = w /\ a = "activated"
  <2>1. v = w
    BY <1>3, <1>4 DEF Ends
  <2> QED BY <1>1, <1>4, <2>1, EndMoves
<1>5. ASSUME NEW v \in Workers, NEW j, Goes(v, j), j.pc # "answered" PROVE FALSE
  BY <1>1, <1>3, <1>5
<1>6. ASSUME NEW v \in Workers, NEW j, Begins(v, j) PROVE FALSE
  <2>1. job[v].pc = "idle" /\ job' = [job EXCEPT ![v] = j]
    BY <1>6 DEF Begins
  <2> QED BY <1>1, <1>2, <2>1 DEF Inv, TypeOK, Holding
<1>7. ASSUME NEW v \in Workers, Step(v)
      PROVE  ActivateCommits(w) \/ (FindTarget(w) /\ job[w].target \in Active)
  <2>0. job[v] \in Jobs /\ draft \in Contents
    BY DEF Inv, TypeOK
  <2>1. CASE TakeLock(v)
    <3>1. PICK pc \in {"read", "target"} : Goes(v, [job[v] EXCEPT !.pc = pc])
      BY <2>1 DEF TakeLock
    <3>2. [job[v] EXCEPT !.pc = pc].pc # "answered"
      BY <2>0 DEF Jobs
    <3> QED BY <1>5, <3>1, <3>2
  <2>2. CASE ReadDraft(v)
    <3>1. [job[v] EXCEPT !.pc = "compare", !.content = draft].pc # "answered"
      BY <2>0 DEF Jobs
    <3> QED BY <1>5, <2>2, <3>1 DEF ReadDraft
  <2>3. CASE Reply(v)
    BY <1>5, <2>0, <2>3, IdleJobs DEF Reply
  <2>4. CASE Compare(v)
    <3>1. [job[v] EXCEPT !.pc = "publish", !.old = Active].pc # "answered"
      BY FoundActive
    <3>2. ~Ends(v, "unchanged")
      BY <1>4 DEF Answers
    <3> QED BY <1>5, <2>4, <3>1, <3>2 DEF Compare
  <2>5. CASE PublishCommits(v) \/ ImportCommits(v) \/ Abort(v)
    BY <1>4, <2>5 DEF PublishCommits, ImportCommits, Abort, Answers
  <2>6. CASE FindTarget(v)
    <3>1. [job[v] EXCEPT !.pc = "activate", !.old = Active].pc # "answered"
      BY FoundActive
    <3>2. job[v].target \in Active /\ Ends(v, "activated")
      BY <1>5, <2>6, <3>1 DEF FindTarget
    <3>3. v = w
      BY <1>4, <3>2 DEF Answers
    <3> QED BY <2>6, <3>2, <3>3
  <2>7. CASE ActivateCommits(v)
    <3>1. v = w
      BY <1>4, <2>7 DEF ActivateCommits, Answers
    <3> QED BY <2>7, <3>1
  <2> QED BY <1>7, <2>1, <2>2, <2>3, <2>4, <2>5, <2>6, <2>7 DEF Step
<1>8. ~UNCHANGED job
  BY <1>2
<1> QED BY <1>6, <1>7, <1>8 DEF Next, Publish, Activate, Import, EditSettings, EditEntry, Edits,
           Rest, vars

(* Whoever is told that a version was activated has it live, and it alone,   *)
(* whether it was live already or had to be switched to.                     *)
THEOREM ActivatedVersionIsLive == Spec => ActivatedIsLive
<1>1. ASSUME Inv, [Next]_vars, NEW w \in Workers, Activated(w)
      PROVE  Active' = {job[w].target} /\ pointer' = job[w].target
  <2>1. CASE ActivateCommits(w)
    BY <1>1, <2>1, ActivateResult
  <2>2. CASE FindTarget(w) /\ job[w].target \in Active
    <3>1. Active = {pointer} /\ job[w].target = pointer
      BY <1>1, <2>2 DEF Inv, PointerAgrees
    <3>2. UNCHANGED Store
      BY <2>2 DEF FindTarget
    <3>3. Active' = Active
      BY <3>2 DEF Active, Store
    <3> QED BY <3>1, <3>2, <3>3 DEF Store
  <2> QED BY <1>1, <2>1, <2>2, OnlyRollbacksActivate
<1>2. Inv /\ [Next]_vars =>
        [\A w \in Workers : Activated(w) =>
            Active' = {job[w].target} /\ pointer' = job[w].target]_vars
  BY <1>1
<1> QED BY <1>2, Invariance, PTL DEF Spec, ActivatedIsLive

--------------------------------------------------------------------------------
(* The log *)

Versions == [v \in 1 .. Len(rows) |-> rows[v].content]

LEMMA ContentsOfRows ==
    ASSUME NEW r \in Seq(Rows)
    PROVE  /\ [v \in 1 .. Len(r) |-> r[v].content] \in Seq(Contents)
           /\ Len([v \in 1 .. Len(r) |-> r[v].content]) = Len(r)
<1> DEFINE s == [v \in 1 .. Len(r) |-> r[v].content]
<1>1. Len(r) \in Nat /\ \A v \in 1 .. Len(r) : r[v] \in Rows
  BY LenProperties, ElementOfSeq
<1>2. s \in [1 .. Len(r) -> Contents]
  BY <1>1 DEF Rows
<1> QED BY <1>1, <1>2, FunctionIsSeq

LEMMA VersionsAreSeq ==
    ASSUME TypeOK
    PROVE  Versions \in Seq(Contents) /\ Len(Versions) = Len(rows)
BY ContentsOfRows DEF TypeOK, Versions

LEMMA LogInit ==
    ASSUME Init
    PROVE  Log!Init
<1>1. Len(rows) = 0
  BY EmptySeq DEF Init
<1>2. rows \in Seq(Rows)
  BY EmptySeq DEF Init
<1>3. Active = {}
  BY <1>1 DEF Active
<1>4. Versions \in Seq(Contents) /\ Len(Versions) = 0
  BY <1>1, InitHolds, VersionsAreSeq DEF Inv
<1>5. Versions = << >>
  BY <1>4
<1> QED BY <1>3, <1>5 DEF Init, Log!Init, Versions

LEMMA LogPublishes ==
    ASSUME Inv, NEW w \in Workers, PublishCommits(w)
    PROVE  Log!Next
<1> DEFINE c == job[w].content
<1>1. c \in Contents /\ Len(rows) \in Nat
  BY LenProperties DEF Inv, TypeOK, Jobs
<1>2. /\ rows' \in Seq(Rows) /\ Len(rows') = Len(rows) + 1
      /\ Active' = {Len(rows) + 1} /\ pointer' = Len(rows) + 1
      /\ \A v \in 1 .. Len(rows) : rows'[v].content = rows[v].content
      /\ rows'[Len(rows) + 1].content = c
      /\ \A v \in Active : rows[v].content # c
  BY PublishResult
<1> HIDE DEF c
<1>3. Versions \in Seq(Contents) /\ Len(Versions) = Len(rows)
  BY VersionsAreSeq DEF Inv
<1>4. rows' \in Seq(Rows)
  BY <1>2
<1>5. Versions' \in Seq(Contents) /\ Len(Versions') = Len(rows')
  BY <1>4, ContentsOfRows DEF Versions
<1>6. Append(Versions, c) \in Seq(Contents) /\ Len(Append(Versions, c)) = Len(rows) + 1
      /\ \A v \in 1 .. Len(rows) : Append(Versions, c)[v] = rows[v].content
      /\ Append(Versions, c)[Len(rows) + 1] = c
  BY <1>1, <1>3, AppendProperties DEF Versions
<1>7. \A v \in 1 .. Len(rows) + 1 : Versions'[v] = Append(Versions, c)[v]
  BY <1>1, <1>2, <1>6 DEF Versions
<1>8. Versions' = Append(Versions, c)
  BY <1>2, <1>5, <1>6, <1>7, SeqEqual
<1>9. \A v \in Active \cup ({pointer} \ {0}) : Versions[v] # c
  BY <1>2 DEF Inv, PointerAgrees, Versions, Active
<1>10. (Active \cup ({pointer} \ {0}))' = {Len(Versions) + 1}
  BY <1>1, <1>2, <1>3
<1>11. \E d \in Contents : Log!Publish(d)
  BY <1>1, <1>8, <1>9, <1>10 DEF Log!Publish, Versions
<1> QED BY <1>11 DEF Log!Next

LEMMA LogActivates ==
    ASSUME Inv, NEW w \in Workers, ActivateCommits(w)
    PROVE  Log!Next
<1> DEFINE t == job[w].target
<1>1. /\ Len(rows') = Len(rows) /\ t \in 1 .. Len(rows)
      /\ Active' = {t} /\ pointer' = t
      /\ \A v \in 1 .. Len(rows) : rows'[v].content = rows[v].content
  BY ActivateResult
<1> HIDE DEF t
<1>2. Len(rows) \in Nat /\ Len(Versions) = Len(rows)
  BY LenProperties, VersionsAreSeq DEF Inv, TypeOK
<1>3. Versions' = Versions
  BY <1>1 DEF Versions
<1>4. (Active \cup ({pointer} \ {0}))' = {t}
  BY <1>1, <1>2
<1>5. Log!Activate(t)
  BY <1>3, <1>4 DEF Log!Activate, Versions
<1> QED BY <1>1, <1>2, <1>5 DEF Log!Next, Versions

LEMMA LogStays ==
    ASSUME UNCHANGED Store
    PROVE  UNCHANGED Log!vars
BY DEF Store, Log!vars, Active

(* Publications and rollbacks, however they run together, are the steps of   *)
(* one log of versions with one of them live.                                *)
THEOREM PublicationImplementsLog == Spec => ImplementsPublishedVersions
<1>1. Init => Log!Init
  BY LogInit
<1>2. Inv /\ [Next]_vars => [Log!Next]_(Log!vars)
  BY NextKeepsInv, LogPublishes, LogActivates, LogStays
<1> QED BY <1>1, <1>2, Invariance, PTL DEF Spec, Log!Spec, ImplementsPublishedVersions

===============================================================================
