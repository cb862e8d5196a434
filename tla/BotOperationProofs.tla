-------------------------- MODULE BotOperationProofs --------------------------
(***************************************************************************)
(* Theorems about BotOperation for every number of keys, callers, secrets, *)
(* ticks and crashes.  The inductive invariant is IInv: the typing, what a *)
(* transaction that holds the row lock may rely on (LockInv), whose        *)
(* payload a call works for (CallInv) and a row speaks of (RowInv), and    *)
(* the agreement of rows, effects and answers.  With the fingerprint of    *)
(* the row (FingerprintInv) answers of one key agree; with the row locks   *)
(* (NoLockIsLeft) only the call that holds a claim acts under it.  Every   *)
(* call comes nearer its answer with each of its steps, those that repeat  *)
(* its transaction included (CallsDescend).                                *)
(***************************************************************************)
EXTENDS BotOperation, TLAPS

(* A call that is about to mark its failure has a verdict to mark. *)
VerdictInv ==
    \A w \in Workers : call[w].pc = "mark" => call[w].verdict \in Verdicts

(* While a call is between its FOR UPDATE and its commit, the row is its own. *)
LockInv ==
    \A w \in Workers : call[w].pc = "tx" =>
        /\ lock[KeyOf[w]] = w
        /\ Owns(w, op[KeyOf[w]])

(* From the takeover decision on, a call works under a fingerprint it knows. *)
CallInv ==
    \A w \in Workers : call[w].pc \in Holding \cup {"takeover"} =>
        call[w].fp \in Candidates[w]

HandlerInv == VerdictInv /\ LockInv /\ CallInv

(* A succeeded row carries the fingerprint of its committer's payload. *)
RowInv ==
    \A k \in Keys : op[k].state = "SUCCEEDED" =>
        /\ op[k].result \in Workers
        /\ op[k].fp \in Fingerprints
        /\ Signs[op[k].fp] = Payload[op[k].result]

IInv == TypeOK /\ HandlerInv /\ RowInv /\ RowTellsTheEffect /\ OkIsTruthful

-------------------------------------------------------------------------------
(* The primed-variable shapes the actions are made of keep their types. *)
LEMMA CallStepType ==
    ASSUME NEW c \in Call, NEW pc \in PCs
    PROVE  /\ [c EXCEPT !.pc = pc] \in Call
           /\ \A fp \in Fingerprints \cup {None} : [c EXCEPT !.pc = pc, !.fp = fp] \in Call
           /\ \A age \in 0 .. MaxAge, fp \in Fingerprints \cup {None} :
                 [c EXCEPT !.pc = pc, !.age = age, !.fp = fp] \in Call
           /\ \A v \in Verdicts, n \in 0 .. MaxTries - 1 :
                 [c EXCEPT !.pc = pc, !.failed = n, !.verdict = v] \in Call
           /\ \A n \in 0 .. MaxTries - 1 : [c EXCEPT !.pc = pc, !.failed = n] \in Call
  BY DEF Call

LEMMA AnsweredType ==
    ASSUME NEW kind \in AnswerKinds, NEW r \in Workers \cup {None}
    PROVE  Answered(kind, r) \in Call
  BY ConstantsAssumption DEF Call, Answered, PCs

LEMMA RowStepType ==
    ASSUME NEW row \in Row, NEW st \in States, NEW w \in Workers \cup {None},
           NEW r \in Workers \cup {None}, NEW left \in -MaxAge .. Lease
    PROVE  /\ [row EXCEPT !.state = st, !.owner = w, !.left = left, !.result = r]
                 \in Row
           /\ [row EXCEPT !.state = st, !.owner = w, !.result = r, !.left = left]
                 \in Row
           /\ [row EXCEPT !.state = st, !.owner = w, !.left = left] \in Row
  BY DEF Row

LEMMA OnlyTheLease ==
    ASSUME NEW row \in Row, NEW left \in -MaxAge .. Lease
    PROVE  /\ [row EXCEPT !.left = left] \in Row
           /\ [row EXCEPT !.left = left].state = row.state
           /\ [row EXCEPT !.left = left].fp = row.fp
           /\ [row EXCEPT !.left = left].result = row.result
  BY DEF Row

(* The lease a claim writes, the null lease and a fresh lease are in range. *)
LEMMA LeaseRange ==
    ASSUME TypeOK, NEW w \in Workers
    PROVE  /\ ClaimLease(w) \in -MaxAge .. Lease
           /\ NullLease \in -MaxAge .. Lease
           /\ Lease \in -MaxAge .. Lease
           /\ 0 \in 0 .. MaxAge
           /\ 0 \in 0 .. MaxTries - 1
  BY ConstantsAssumption DEF TypeOK, Call, ClaimLease, NullLease

LEMMA OlderRange ==
    ASSUME NEW row \in Row
    PROVE  Older(row.left) \in -MaxAge .. Lease
  BY ConstantsAssumption DEF Row, Older

(* An attempt of the transaction that did not come to a decision is over:    *)
(* the start is taken, the row has changed, or it could not be serialized.   *)
AttemptEnds(w) == StartTaken(w) \/ RowChangedMeanwhile(w) \/ SerializationFailure(w)

(* The call begins a fresh attempt, with all it knows. *)
Retried(w) ==
    /\ call' \in [Workers -> Call]
    /\ \A v \in Workers \ {w} : call'[v] = call[v]
    /\ call'[w].pc = "claimed"
    /\ call'[w].failed = call[w].failed + 1
    /\ call'[w].fp = call[w].fp
    /\ call'[w].answer = call[w].answer

(* Nothing is written by an attempt that ends so, and the call fails or      *)
(* begins another.                                                           *)
LEMMA AttemptShape ==
    ASSUME TypeOK, NEW w \in Workers, AttemptEnds(w)
    PROVE  /\ op' = op /\ effects' = effects /\ crashes' = crashes
           /\ \/ At(w, "claimed") /\ lock' = lock
              \/ At(w, "tx") /\ EndTransaction(w)
           /\ Retried(w) \/ \E v \in Verdicts : Fail(w, v)
           /\ \A v \in Workers \ {w} : call'[v] = call[v]
           /\ call'[w].pc \in {"claimed", "mark"}
           /\ call'[w].pc = "mark" => call'[w].verdict \in Verdicts
           /\ call'[w].fp = call[w].fp /\ call'[w].answer = call[w].answer
<1>0. call \in [Workers -> Call] /\ call[w] \in Call
  BY DEF TypeOK
<1>1. UnserializedVerdicts(w) \subseteq Verdicts
  BY DEF UnserializedVerdicts, Verdicts
<1>2. ASSUME TryAgain(w) PROVE Retried(w) \/ \E v \in Verdicts : Fail(w, v)
  <2>1. CASE call[w].failed + 1 < MaxTries
    <3> DEFINE c == [call[w] EXCEPT !.pc = "claimed", !.failed = call[w].failed + 1]
    <3>1. call[w].failed + 1 \in 0 .. MaxTries - 1
      BY <1>0, <2>1, ConstantsAssumption DEF Call
    <3>2. c \in Call
      BY <1>0, <3>1, CallStepType DEF PCs, Holding
    <3>3. /\ c.pc = "claimed" /\ c.failed = call[w].failed + 1
          /\ c.fp = call[w].fp /\ c.answer = call[w].answer
      BY <1>0 DEF Call
    <3>4. call' = [call EXCEPT ![w] = c]
      BY <1>2, <2>1 DEF TryAgain
    <3> HIDE DEF c
    <3>5. call'[w] = c /\ \A v \in Workers \ {w} : call'[v] = call[v]
      BY <1>0, <3>4
    <3>6. call' \in [Workers -> Call]
      BY <1>0, <3>2, <3>4
    <3> QED BY <3>3, <3>5, <3>6 DEF Retried
  <2>2. CASE ~(call[w].failed + 1 < MaxTries)
    BY <1>1, <1>2, <2>2 DEF TryAgain
  <2> QED BY <2>1, <2>2
<1>3. /\ op' = op /\ effects' = effects /\ crashes' = crashes
      /\ \/ At(w, "claimed") /\ lock' = lock
         \/ At(w, "tx") /\ EndTransaction(w)
  BY DEF AttemptEnds, StartTaken, RowChangedMeanwhile, SerializationFailure
<1>4. Retried(w) \/ \E v \in Verdicts : Fail(w, v)
  BY <1>1, <1>2 DEF AttemptEnds, StartTaken, RowChangedMeanwhile, SerializationFailure
<1>5. ASSUME NEW v \in Verdicts, Fail(w, v)
      PROVE  /\ \A u \in Workers \ {w} : call'[u] = call[u]
             /\ call'[w].pc = "mark" /\ call'[w].verdict \in Verdicts
             /\ call'[w].fp = call[w].fp /\ call'[w].answer = call[w].answer
  <2>1. /\ call'[w] = [call[w] EXCEPT !.pc = "mark", !.failed = 0, !.verdict = v]
        /\ \A u \in Workers \ {w} : call'[u] = call[u]
    BY <1>0, <1>5 DEF Fail
  <2> QED BY <1>0, <2>1 DEF Call
<1> QED BY <1>3, <1>4, <1>5 DEF Retried

(* Every step keeps every variable in its type. *)
LEMMA TypeStep == TypeOK /\ VerdictInv /\ [Next]_vars => TypeOK'
<1> SUFFICES ASSUME TypeOK, VerdictInv, [Next]_vars PROVE TypeOK'
    OBVIOUS
<1>a. /\ op \in [Keys -> Row] /\ lock \in [Keys -> Workers \cup {None}]
      /\ call \in [Workers -> Call] /\ effects \in [Keys -> Seq(Workers)]
      /\ crashes \in 0 .. MaxCrashes
  BY DEF TypeOK
<1>p. /\ PCs = {"idle", "answered", "insert", "lookup", "takeover", "claimed", "tx", "mark"}
      /\ Verdicts \subseteq States
      /\ {"IN_PROGRESS", "SUCCEEDED"} \subseteq States
  BY DEF PCs, Claiming, Holding, Verdicts, States
<1>k. \A w \in Workers : KeyOf[w] \in Keys /\ op[KeyOf[w]] \in Row /\ call[w] \in Call
  BY <1>a, ConstantsAssumption
<1>r. \A w \in Workers : \A kind \in AnswerKinds, r \in Workers \cup {None} :
        Reply(w, kind, r) => call' \in [Workers -> Call]
  BY <1>a, AnsweredType DEF Reply
<1>g. ASSUME NEW w \in Workers, NEW pc \in PCs, Goto(w, pc)
      PROVE call' \in [Workers -> Call]
  <2>1. [call[w] EXCEPT !.pc = pc] \in Call
    BY <1>k, CallStepType
  <2> QED
    BY <1>g, <2>1, <1>a DEF Goto
<1>f. ASSUME NEW w \in Workers, NEW v \in Verdicts, Fail(w, v)
      PROVE call' \in [Workers -> Call]
  <2>1. [call[w] EXCEPT !.pc = "mark", !.failed = 0, !.verdict = v] \in Call
    BY <1>a, <1>p, CallStepType, LeaseRange, ConstantsAssumption
  <2> QED
    BY <1>f, <2>1, <1>a DEF Fail
<1>c. ASSUME NEW w \in Workers, NEW fp \in Fingerprints \cup {None}, Claimed(w, fp)
      PROVE call' \in [Workers -> Call]
  <2>1. [call[w] EXCEPT !.pc = "claimed", !.age = 0, !.fp = fp] \in Call
    BY <1>a, <1>p, CallStepType, LeaseRange
  <2> QED
    BY <1>c, <2>1, <1>a DEF Claimed
<1>s. \A w \in Workers : \A row \in Row : SetRow(w, row) => op' \in [Keys -> Row]
  BY <1>a, <1>k DEF SetRow
<1>v. \A w \in Workers : call[w].pc = "mark" =>
        FailureKind(call[w].verdict) \in AnswerKinds
  BY DEF FailureKind, AnswerKinds
<1>1. ASSUME NEW w \in Workers, Claim(w) PROVE TypeOK'
  <2>1. CASE Arrive(w)
    BY <2>1, <1>a, <1>p, <1>g DEF Arrive, TypeOK
  <2>2. CASE InsertCreates(w)
    <3>1. [state |-> "IN_PROGRESS", owner |-> w, left |-> ClaimLease(w),
           fp |-> Current[w], result |-> None] \in Row
      BY LeaseRange, <1>p, ConstantsAssumption DEF Row
    <3> QED
      BY <2>2, <3>1, <1>a, <1>c, <1>s, ConstantsAssumption DEF InsertCreates, TypeOK
  <2>3. CASE InsertDuplicate(w)
    BY <2>3, <1>a, <1>p, <1>g DEF InsertDuplicate, TypeOK
  <2>4. CASE LookupConflict(w)
    BY <2>4, <1>a, <1>r DEF LookupConflict, TypeOK, AnswerKinds
  <2>5. CASE LookupReplaySuccess(w)
    <3>1. RowOf(w).result \in Workers \cup {None}
      BY <1>k DEF RowOf, Row
    <3> QED
      BY <2>5, <3>1, <1>a, <1>r DEF LookupReplaySuccess, TypeOK, AnswerKinds
  <2>6. CASE LookupReplayFailure(w)
    BY <2>6, <1>a, <1>r DEF LookupReplayFailure, TypeOK, AnswerKinds
  <2>7. CASE LookupLeased(w)
    BY <2>7, <1>a, <1>r DEF LookupLeased, TypeOK, AnswerKinds
  <2>8. CASE LookupExpired(w)
    <3>1. RowOf(w).fp \in Fingerprints \cup {None}
      BY <1>k DEF RowOf, Row
    <3>2. call' \in [Workers -> Call]
      BY <2>8, <3>1, <1>a, <1>p, CallStepType DEF LookupExpired
    <3> QED
      BY <2>8, <3>2, <1>a DEF LookupExpired, TypeOK
  <2>9. CASE TakeOver(w)
    <3>1. op' \in [Keys -> Row]
      <4>1. [RowOf(w) EXCEPT !.state = "IN_PROGRESS", !.owner = w,
                             !.left = ClaimLease(w), !.result = None] \in Row
        BY <1>k, <1>p, LeaseRange, RowStepType DEF RowOf
      <4> QED
        BY <2>9, <4>1, <1>s DEF TakeOver
    <3>2. call[w].fp \in Fingerprints \cup {None}
      BY <1>k DEF Call
    <3> QED
      BY <2>9, <3>1, <3>2, <1>a, <1>c DEF TakeOver, TypeOK
  <2>10. CASE TakeOverLost(w)
    BY <2>10, <1>a, <1>r DEF TakeOverLost, TypeOK, AnswerKinds
  <2> QED
    BY <1>1, <2>1, <2>2, <2>3, <2>4, <2>5, <2>6, <2>7, <2>8, <2>9, <2>10 DEF Claim
<1>2. ASSUME NEW w \in Workers, Execute(w) PROVE TypeOK'
  <2>e. EndTransaction(w) => lock' \in [Keys -> Workers \cup {None}]
    BY <1>a DEF EndTransaction
  <2>c. Commits(w) => op' \in [Keys -> Row] /\ effects' \in [Keys -> Seq(Workers)]
    <3>1. [RowOf(w) EXCEPT !.state = "SUCCEEDED", !.owner = None,
                           !.left = NullLease, !.result = w] \in Row
      BY <1>k, <1>p, LeaseRange, RowStepType DEF RowOf
    <3>2. Append(effects[KeyOf[w]], w) \in Seq(Workers)
      BY <1>a, <1>k
    <3> QED
      BY <3>1, <3>2, <1>a, <1>s DEF Commits
  <2>1. CASE PrecheckFails(w)
    BY <2>1, <1>a, <1>f DEF PrecheckFails, TypeOK
  <2>2. CASE LockRow(w)
    BY <2>2, <1>a, <1>g, <1>p, <1>k DEF LockRow, TypeOK
  <2>3. CASE OwnershipLost(w)
    BY <2>3, <1>a, <1>f DEF OwnershipLost, TypeOK, Verdicts
  <2>4. CASE Commit(w)
    BY <2>4, <2>e, <2>c, <1>a, <1>r DEF Commit, Commits, TypeOK, AnswerKinds
  <2>5. CASE CommitUnacknowledged(w)
    BY <2>5, <2>e, <2>c, <1>a, <1>f DEF CommitUnacknowledged, Commits, TypeOK, Verdicts
  <2>6. CASE Rollback(w)
    BY <2>6, <2>e, <1>a, <1>f DEF Rollback, TypeOK
  <2>7. CASE Mark(w)
    <3>1. call[w].verdict \in Verdicts
      BY <2>7 DEF Mark, At, VerdictInv
    <3>2. \A left \in -MaxAge .. Lease :
            [RowOf(w) EXCEPT !.state = call[w].verdict, !.owner = None,
                             !.result = None, !.left = left] \in Row
      BY <3>1, <1>k, <1>p, RowStepType DEF RowOf
    <3> QED
      BY <2>7, <3>2, <1>a, <1>v, <1>r, <1>s, LeaseRange DEF Mark, TypeOK, At
  <2>8. CASE MarkMatchesNothing(w)
    BY <2>8, <1>a, <1>v, <1>r DEF MarkMatchesNothing, TypeOK, At
  <2>9. CASE MarkErrs(w)
    BY <2>9, <1>a, <1>v, <1>r DEF MarkErrs, TypeOK, At
  <2>10. CASE Reconcile(w)
    <3>1. [RowOf(w) EXCEPT !.state = "FAILED_RETRYABLE", !.owner = None,
                           !.left = NullLease] \in Row
      BY <1>k, <1>p, LeaseRange, RowStepType DEF RowOf, Verdicts
    <3>2. op' \in [Keys -> Row]
      BY <2>10, <3>1, <1>s DEF Reconcile
    <3>3. call' \in [Workers -> Call]
      BY <2>10, <1>r, <1>f DEF Reconcile, AnswerKinds, Verdicts
    <3> QED
      BY <2>10, <2>e, <3>2, <3>3, <1>a DEF Reconcile, TypeOK
  <2>11. CASE AttemptEnds(w)
    <3>1. /\ op' = op /\ effects' = effects /\ crashes' = crashes
          /\ lock' = lock \/ EndTransaction(w)
          /\ Retried(w) \/ \E v \in Verdicts : Fail(w, v)
      BY <2>11, AttemptShape
    <3>2. call' \in [Workers -> Call]
      BY <3>1, <1>f DEF Retried
    <3> QED
      BY <2>e, <3>1, <3>2, <1>a DEF TypeOK
  <2> QED
    BY <1>2, <2>1, <2>2, <2>3, <2>4, <2>5, <2>6, <2>7, <2>8, <2>9, <2>10, <2>11
       DEF Execute, AttemptEnds
<1>3. ASSUME NEW w \in Workers, Crash(w) PROVE TypeOK'
  <2>1. lock' \in [Keys -> Workers \cup {None}]
    BY <1>3, <1>a DEF Crash
  <2>2. crashes' \in 0 .. MaxCrashes
    BY <1>3, <1>a, ConstantsAssumption DEF Crash
  <2> QED
    BY <1>3, <2>1, <2>2, <1>a, <1>r DEF Crash, TypeOK, AnswerKinds
<1>4. ASSUME NEW w \in Workers, Retry(w) PROVE TypeOK'
  <2>1. NewCall \in Call
    BY ConstantsAssumption DEF NewCall, NoAnswer, Call, PCs, AnswerKinds
  <2> QED
    BY <1>4, <2>1, <1>a DEF Retry, TypeOK
<1>5. CASE Tick
  <2>1. ASSUME NEW k \in Keys PROVE [op[k] EXCEPT !.left = Older(@)] \in Row
    BY <1>a, OlderRange, OnlyTheLease
  <2>2. ASSUME NEW w \in Workers, call[w].pc \in Claiming
        PROVE [call[w] EXCEPT !.age = @ + 1] \in Call
    <3>1. call[w].age + 1 \in 0 .. MaxAge
      BY <1>5, <2>2, <1>k, ConstantsAssumption DEF Tick, Call
    <3> QED
      BY <3>1, <1>k DEF Call
  <2>3. op' \in [Keys -> Row]
    BY <1>5, <2>1 DEF Tick
  <2>4. call' \in [Workers -> Call]
    BY <1>5, <2>2, <1>k DEF Tick
  <2> QED
    BY <1>5, <2>3, <2>4, <1>a DEF Tick, TypeOK
<1>6. CASE UNCHANGED vars
  BY <1>6, <1>a DEF vars, TypeOK
<1> QED
  BY <1>1, <1>2, <1>3, <1>4, <1>5, <1>6 DEF Next

(* The handler keeps what it knows: its verdict, its fingerprint, its lock. *)
LEMMA HandlerStep ==
    TypeOK /\ HandlerInv /\ [Next]_vars => HandlerInv'
<1> SUFFICES ASSUME TypeOK, HandlerInv, [Next]_vars PROVE HandlerInv'
    OBVIOUS
<1> USE ConstantsAssumption DEF TypeOK, HandlerInv, VerdictInv, LockInv, CallInv, Call,
        At, RowOf, Owns, Holding
<1>1. ASSUME NEW w \in Workers, Claim(w) PROVE HandlerInv'
  <2>1. CASE Arrive(w)
    BY <2>1 DEF Arrive, Goto
  <2>2. CASE InsertCreates(w)
    BY <2>2 DEF InsertCreates, Claimed, SetRow
  <2>3. CASE InsertDuplicate(w)
    BY <2>3 DEF InsertDuplicate, Goto
  <2>4. CASE LookupConflict(w)
    BY <2>4 DEF LookupConflict, Reply, Answered
  <2>5. CASE LookupReplaySuccess(w)
    BY <2>5 DEF LookupReplaySuccess, Reply, Answered
  <2>6. CASE LookupReplayFailure(w)
    BY <2>6 DEF LookupReplayFailure, Reply, Answered
  <2>7. CASE LookupLeased(w)
    BY <2>7 DEF LookupLeased, Reply, Answered
  <2>8. CASE LookupExpired(w)
    BY <2>8 DEF LookupExpired, FingerprintMatches
  <2>9. CASE TakeOver(w)
    BY <2>9 DEF TakeOver, Claimed, SetRow, Unlocked
  <2>10. CASE TakeOverLost(w)
    BY <2>10 DEF TakeOverLost, Reply, Answered
  <2> QED
    BY <1>1, <2>1, <2>2, <2>3, <2>4, <2>5, <2>6, <2>7, <2>8, <2>9, <2>10 DEF Claim
<1>2. ASSUME NEW w \in Workers, Execute(w) PROVE HandlerInv'
  <2>1. CASE PrecheckFails(w)
    BY <2>1 DEF PrecheckFails, Fail
  <2>2. CASE LockRow(w)
    BY <2>2 DEF LockRow, Goto, Unlocked
  <2>3. CASE OwnershipLost(w)
    BY <2>3 DEF OwnershipLost, Fail, Unlocked, Verdicts
  <2>4. CASE Commit(w)
    BY <2>4 DEF Commit, Commits, EndTransaction, SetRow, Reply, Answered
  <2>5. CASE CommitUnacknowledged(w)
    BY <2>5 DEF CommitUnacknowledged, Commits, EndTransaction, SetRow, Fail, Verdicts
  <2>6. CASE Rollback(w)
    BY <2>6 DEF Rollback, Fail, EndTransaction
  <2>7. CASE Mark(w)
    BY <2>7 DEF Mark, MayMark, SetRow, Reply, Answered, Unlocked
  <2>8. CASE MarkMatchesNothing(w)
    BY <2>8 DEF MarkMatchesNothing, Reply, Answered
  <2>9. CASE MarkErrs(w)
    BY <2>9 DEF MarkErrs, Reply, Answered
  <2>10. CASE Reconcile(w)
    <3>1. CASE Reply(w, "failed_retryable", None)
      BY <2>10, <3>1 DEF Reconcile, EndTransaction, SetRow, Reply, Answered
    <3>2. CASE Fail(w, "FAILED_RETRYABLE")
      BY <2>10, <3>2 DEF Reconcile, EndTransaction, SetRow, Fail, Verdicts
    <3> QED
      BY <2>10, <3>1, <3>2 DEF Reconcile
  <2>11. CASE AttemptEnds(w)
    <3>1. /\ op' = op
          /\ \/ At(w, "claimed") /\ lock' = lock
             \/ At(w, "tx") /\ EndTransaction(w)
          /\ \A v \in Workers \ {w} : call'[v] = call[v]
          /\ call'[w].pc \in {"claimed", "mark"}
          /\ call'[w].pc = "mark" => call'[w].verdict \in Verdicts
          /\ call'[w].fp = call[w].fp /\ call[w].pc \in Holding
      BY <2>11, AttemptShape
    <3>2. ASSUME NEW v \in Workers, v # w, call[v].pc = "tx" PROVE lock'[KeyOf[v]] = v
      BY <3>1, <3>2 DEF EndTransaction
    <3>3. VerdictInv' /\ CallInv'
      BY <3>1
    <3>4. LockInv'
      <4> SUFFICES ASSUME NEW v \in Workers, call'[v].pc = "tx"
                   PROVE  lock'[KeyOf[v]] = v /\ Owns(v, op[KeyOf[v]])'
        OBVIOUS
      <4>1. v # w /\ call'[v] = call[v]
        BY <3>1
      <4>2. call[v].pc = "tx" /\ Owns(v, op[KeyOf[v]])
        BY <4>1
      <4> QED
        BY <3>1, <3>2, <4>1, <4>2
    <3> QED
      BY <3>3, <3>4
  <2> QED
    BY <1>2, <2>1, <2>2, <2>3, <2>4, <2>5, <2>6, <2>7, <2>8, <2>9, <2>10, <2>11
       DEF Execute, AttemptEnds
<1>3. ASSUME NEW w \in Workers, Crash(w) PROVE HandlerInv'
  BY <1>3 DEF Crash, Reply, Answered
<1>4. ASSUME NEW w \in Workers, Retry(w) PROVE HandlerInv'
  BY <1>4 DEF Retry, NewCall
<1>5. CASE Tick
  BY <1>5 DEF Tick
<1>6. CASE UNCHANGED vars
  BY <1>6 DEF vars
<1> QED
  BY <1>1, <1>2, <1>3, <1>4, <1>5, <1>6 DEF Next

EffectInv == RowInv /\ RowTellsTheEffect

(* A commit finds no mutation under its key and leaves exactly its own. *)
LEMMA CommitShape ==
    ASSUME TypeOK, HandlerInv, EffectInv, NEW w \in Workers, At(w, "tx"), Commits(w)
    PROVE  /\ effects' = [effects EXCEPT ![KeyOf[w]] = <<w>>]
           /\ effects[KeyOf[w]] = <<>>
           /\ op[KeyOf[w]].state = "IN_PROGRESS"
           /\ op'[KeyOf[w]].state = "SUCCEEDED"
           /\ op'[KeyOf[w]].result = w
           /\ op'[KeyOf[w]].fp = op[KeyOf[w]].fp
           /\ op[KeyOf[w]].fp \in Candidates[w]
           /\ \A k \in Keys \ {KeyOf[w]} : op'[k] = op[k] /\ effects'[k] = effects[k]
<1>1. KeyOf[w] \in Keys /\ op[KeyOf[w]] \in Row /\ DOMAIN op = Keys /\ DOMAIN effects = Keys
  BY ConstantsAssumption DEF TypeOK
<1>2. op[KeyOf[w]].state = "IN_PROGRESS" /\ op[KeyOf[w]].fp \in Candidates[w]
  BY DEF HandlerInv, LockInv, CallInv, Owns, At, Holding
<1>3. effects[KeyOf[w]] = <<>>
  BY <1>1, <1>2 DEF EffectInv, RowTellsTheEffect
<1>4. Append(effects[KeyOf[w]], w) = <<w>>
  BY <1>3
<1>5. effects' = [effects EXCEPT ![KeyOf[w]] = <<w>>]
  BY <1>4 DEF Commits
<1>6. /\ op'[KeyOf[w]].state = "SUCCEEDED" /\ op'[KeyOf[w]].result = w
      /\ op'[KeyOf[w]].fp = op[KeyOf[w]].fp
      /\ \A k \in Keys \ {KeyOf[w]} : op'[k] = op[k]
  BY <1>1 DEF Commits, SetRow, RowOf, Row
<1> QED
  BY <1>1, <1>2, <1>3, <1>5, <1>6

(* After a commit the row names its mutation, and nobody else's row moved.  *)
LEMMA EffectAfterCommit ==
    ASSUME TypeOK, EffectInv, NEW w \in Workers,
           \A k \in Keys \ {KeyOf[w]} : op'[k] = op[k] /\ effects'[k] = effects[k],
           effects'[KeyOf[w]] = <<w>>,
           op'[KeyOf[w]].state = "SUCCEEDED",
           op'[KeyOf[w]].result = w,
           op'[KeyOf[w]].fp \in Candidates[w]
    PROVE  EffectInv'
<1>1. ASSUME NEW k \in Keys, op'[k].state = "SUCCEEDED"
      PROVE  /\ op'[k].result \in Workers
             /\ op'[k].fp \in Fingerprints
             /\ Signs[op'[k].fp] = Payload[op'[k].result]
  <2>1. CASE k = KeyOf[w]
    BY <2>1, ConstantsAssumption
  <2>2. CASE k # KeyOf[w]
    <3>1. op'[k] = op[k]
      BY <2>2
    <3> QED BY <1>1, <3>1 DEF EffectInv, RowInv
  <2> QED BY <2>1, <2>2
<1>2. RowInv'
  BY <1>1 DEF RowInv
<1>3. RowTellsTheEffect'
  <2> SUFFICES ASSUME NEW k \in Keys
               PROVE  effects'[k] = IF op'[k].state = "SUCCEEDED"
                                    THEN <<op'[k].result>> ELSE <<>>
    BY DEF RowTellsTheEffect
  <2>1. CASE k = KeyOf[w]
    BY <2>1
  <2>2. CASE k # KeyOf[w]
    <3>1. op'[k] = op[k] /\ effects'[k] = effects[k]
      BY <2>2
    <3> QED BY <3>1 DEF EffectInv, RowTellsTheEffect
  <2> QED BY <2>1, <2>2
<1> QED
  BY <1>2, <1>3 DEF EffectInv

(* Only a commit performs a mutation, on a row that no earlier one settled; *)
(* every other writer of the row finds it unsettled and leaves it so.       *)
LEMMA EffectStep ==
    TypeOK /\ HandlerInv /\ EffectInv /\ [Next]_vars => EffectInv'
<1> SUFFICES ASSUME TypeOK, HandlerInv, EffectInv, [Next]_vars PROVE EffectInv'
    OBVIOUS
<1> USE ConstantsAssumption DEF TypeOK, HandlerInv, VerdictInv, LockInv, CallInv, EffectInv,
        RowInv, RowTellsTheEffect, At, RowOf, Owns, Holding, Row
<1>1. ASSUME NEW w \in Workers, Claim(w) PROVE EffectInv'
  <2>1. CASE Arrive(w)
    BY <2>1 DEF Arrive
  <2>2. CASE InsertCreates(w)
    BY <2>2 DEF InsertCreates, SetRow
  <2>3. CASE InsertDuplicate(w)
    BY <2>3 DEF InsertDuplicate
  <2>4. CASE LookupConflict(w)
    BY <2>4 DEF LookupConflict
  <2>5. CASE LookupReplaySuccess(w)
    BY <2>5 DEF LookupReplaySuccess
  <2>6. CASE LookupReplayFailure(w)
    BY <2>6 DEF LookupReplayFailure
  <2>7. CASE LookupLeased(w)
    BY <2>7 DEF LookupLeased
  <2>8. CASE LookupExpired(w)
    BY <2>8 DEF LookupExpired
  <2>9. CASE TakeOver(w)
    BY <2>9 DEF TakeOver, MayTakeOver, SetRow
  <2>10. CASE TakeOverLost(w)
    BY <2>10 DEF TakeOverLost
  <2> QED
    BY <1>1, <2>1, <2>2, <2>3, <2>4, <2>5, <2>6, <2>7, <2>8, <2>9, <2>10 DEF Claim
<1>2. ASSUME NEW w \in Workers, Execute(w) PROVE EffectInv'
  <2>1. CASE PrecheckFails(w)
    BY <2>1 DEF PrecheckFails
  <2>2. CASE LockRow(w)
    BY <2>2 DEF LockRow
  <2>3. CASE OwnershipLost(w)
    BY <2>3 DEF OwnershipLost
  <2>4. CASE Commit(w)
    <3>1. Commits(w) /\ At(w, "tx")
      BY <2>4 DEF Commit
    <3>2. KeyOf[w] \in Keys
      BY ConstantsAssumption
    <3> HIDE DEF TypeOK, HandlerInv, EffectInv, At
    <3>3. /\ \A k \in Keys \ {KeyOf[w]} : op'[k] = op[k] /\ effects'[k] = effects[k]
          /\ effects'[KeyOf[w]] = <<w>>
          /\ op'[KeyOf[w]].state = "SUCCEEDED" /\ op'[KeyOf[w]].result = w
          /\ op'[KeyOf[w]].fp \in Candidates[w]
      BY <3>1, <3>2, CommitShape DEF TypeOK
    <3> QED
      BY <3>3, EffectAfterCommit
  <2>5. CASE CommitUnacknowledged(w)
    <3>1. Commits(w) /\ At(w, "tx")
      BY <2>5 DEF CommitUnacknowledged
    <3>2. KeyOf[w] \in Keys
      BY ConstantsAssumption
    <3> HIDE DEF TypeOK, HandlerInv, EffectInv, At
    <3>3. /\ \A k \in Keys \ {KeyOf[w]} : op'[k] = op[k] /\ effects'[k] = effects[k]
          /\ effects'[KeyOf[w]] = <<w>>
          /\ op'[KeyOf[w]].state = "SUCCEEDED" /\ op'[KeyOf[w]].result = w
          /\ op'[KeyOf[w]].fp \in Candidates[w]
      BY <3>1, <3>2, CommitShape DEF TypeOK
    <3> QED
      BY <3>3, EffectAfterCommit
  <2>6. CASE Rollback(w)
    BY <2>6 DEF Rollback
  <2>7. CASE Mark(w)
    <3>1. /\ op[KeyOf[w]].state = "IN_PROGRESS"
          /\ op'[KeyOf[w]].state \in Verdicts
          /\ \A k \in Keys \ {KeyOf[w]} : op'[k] = op[k]
          /\ effects' = effects
      BY <2>7 DEF Mark, MayMark, SetRow
    <3>2. effects[KeyOf[w]] = <<>> /\ KeyOf[w] \in Keys
      BY <3>1
    <3>3. op'[KeyOf[w]].state # "SUCCEEDED"
      BY <3>1 DEF Verdicts
    <3> HIDE DEF TypeOK, HandlerInv, VerdictInv, LockInv, CallInv, Row, Owns
    <3> QED
      BY <3>1, <3>2, <3>3
  <2>8. CASE MarkMatchesNothing(w)
    BY <2>8 DEF MarkMatchesNothing
  <2>9. CASE MarkErrs(w)
    BY <2>9 DEF MarkErrs
  <2>10. CASE Reconcile(w)
    <3>1. /\ op[KeyOf[w]].state = "IN_PROGRESS"
          /\ op'[KeyOf[w]].state = "FAILED_RETRYABLE"
          /\ \A k \in Keys \ {KeyOf[w]} : op'[k] = op[k]
          /\ effects' = effects
      BY <2>10 DEF Reconcile, SetRow
    <3>2. effects[KeyOf[w]] = <<>> /\ KeyOf[w] \in Keys
      BY <3>1
    <3> HIDE DEF TypeOK, HandlerInv, VerdictInv, LockInv, CallInv, Row, Owns
    <3> QED
      BY <3>1, <3>2
  <2>11. CASE AttemptEnds(w)
    <3>1. op' = op /\ effects' = effects
      BY <2>11, AttemptShape
    <3> QED
      BY <3>1
  <2> QED
    BY <1>2, <2>1, <2>2, <2>3, <2>4, <2>5, <2>6, <2>7, <2>8, <2>9, <2>10, <2>11
       DEF Execute, AttemptEnds
<1>3. ASSUME NEW w \in Workers, Crash(w) PROVE EffectInv'
  BY <1>3 DEF Crash
<1>4. ASSUME NEW w \in Workers, Retry(w) PROVE EffectInv'
  BY <1>4 DEF Retry
<1>5. CASE Tick
  <2>1. /\ effects' = effects
        /\ \A k \in Keys : op'[k] = [op[k] EXCEPT !.left = Older(op[k].left)]
    BY <1>5 DEF Tick
  <2> HIDE DEF TypeOK, HandlerInv, VerdictInv, LockInv, CallInv, Owns, Row
  <2>2. ASSUME NEW k \in Keys
        PROVE  /\ op'[k].state = op[k].state
               /\ op'[k].fp = op[k].fp
               /\ op'[k].result = op[k].result
    <3>1. PICK row \in Row : row = op[k]
      BY DEF TypeOK
    <3>2. PICK left \in -MaxAge .. Lease : left = Older(row.left)
      BY OlderRange
    <3>3. op'[k] = [row EXCEPT !.left = left]
      BY <2>1, <3>1, <3>2
    <3> QED
      BY <3>1, <3>3, OnlyTheLease
  <2> QED
    BY <2>1, <2>2
<1>6. CASE UNCHANGED vars
  BY <1>6 DEF vars
<1> QED
  BY <1>1, <1>2, <1>3, <1>4, <1>5, <1>6 DEF Next

(* "ok" is given on the caller's own commit, or read from a succeeded row    *)
(* whose fingerprint the caller recognises; effects are never taken back.    *)
LEMMA OkStep ==
    TypeOK /\ HandlerInv /\ EffectInv /\ OkIsTruthful /\ [Next]_vars => OkIsTruthful'
<1> SUFFICES ASSUME TypeOK, HandlerInv, EffectInv, OkIsTruthful, [Next]_vars
             PROVE OkIsTruthful'
    OBVIOUS
<1> USE ConstantsAssumption DEF TypeOK, HandlerInv, VerdictInv, LockInv, CallInv, EffectInv,
        RowInv, RowTellsTheEffect, OkIsTruthful, At, RowOf, Owns, Holding, Call
<1>1. ASSUME NEW w \in Workers, Claim(w) PROVE OkIsTruthful'
  <2>1. CASE Arrive(w)
    BY <2>1 DEF Arrive, Goto
  <2>2. CASE InsertCreates(w)
    BY <2>2 DEF InsertCreates, Claimed
  <2>3. CASE InsertDuplicate(w)
    BY <2>3 DEF InsertDuplicate, Goto
  <2>4. CASE LookupConflict(w)
    BY <2>4 DEF LookupConflict, Reply, Answered
  <2>5. CASE LookupReplaySuccess(w)
    BY <2>5 DEF LookupReplaySuccess, Reply, Answered, FingerprintMatches
  <2>6. CASE LookupReplayFailure(w)
    BY <2>6 DEF LookupReplayFailure, Reply, Answered
  <2>7. CASE LookupLeased(w)
    BY <2>7 DEF LookupLeased, Reply, Answered
  <2>8. CASE LookupExpired(w)
    BY <2>8 DEF LookupExpired
  <2>9. CASE TakeOver(w)
    BY <2>9 DEF TakeOver, Claimed
  <2>10. CASE TakeOverLost(w)
    BY <2>10 DEF TakeOverLost, Reply, Answered
  <2> QED
    BY <1>1, <2>1, <2>2, <2>3, <2>4, <2>5, <2>6, <2>7, <2>8, <2>9, <2>10 DEF Claim
<1>2. ASSUME NEW w \in Workers, Execute(w) PROVE OkIsTruthful'
  <2>1. CASE PrecheckFails(w)
    BY <2>1 DEF PrecheckFails, Fail
  <2>2. CASE LockRow(w)
    BY <2>2 DEF LockRow, Goto
  <2>3. CASE OwnershipLost(w)
    BY <2>3 DEF OwnershipLost, Fail
  <2>4. CASE Commit(w)
    <3>1. Commits(w) /\ At(w, "tx")
      BY <2>4 DEF Commit
    <3>2. KeyOf[w] \in Keys
      BY ConstantsAssumption
    <3>3. /\ \A k \in Keys : effects[k] # <<>> => effects'[k] = effects[k]
          /\ effects'[KeyOf[w]] = <<w>>
      <4> HIDE DEF TypeOK, HandlerInv, EffectInv, At
      <4> QED
        BY <3>1, <3>2, CommitShape DEF TypeOK
    <3>4. ASSUME NEW v \in Workers, v # w, call'[v].answer.kind = "ok"
          PROVE  \E u \in Workers : /\ call'[v].answer.result = u
                                   /\ effects'[KeyOf[v]] = <<u>>
                                   /\ Payload[u] = Payload[v]
      <4>1. call'[v] = call[v]
        BY <2>4, <3>4 DEF Commit, Reply, Answered
      <4>2. PICK u \in Workers : /\ call[v].answer.result = u
                                /\ effects[KeyOf[v]] = <<u>>
                                /\ Payload[u] = Payload[v]
        BY <3>4, <4>1
      <4>3. KeyOf[v] \in Keys /\ <<u>> # <<>>
        OBVIOUS
      <4>4. effects'[KeyOf[v]] = <<u>>
        BY <4>2, <4>3, <3>3
      <4> QED
        BY <4>1, <4>2, <4>4
    <3>5. call'[w].answer.kind = "ok" => call'[w].answer.result = w
      BY <2>4 DEF Commit, Reply, Answered
    <3>6. effects[KeyOf[w]] = <<>>
      <4> HIDE DEF TypeOK, HandlerInv, EffectInv, At
      <4> QED
        BY <3>1, CommitShape
    <3> HIDE DEF TypeOK, HandlerInv, EffectInv, At
    <3> QED
      BY <3>3, <3>4, <3>5
  <2>5. CASE CommitUnacknowledged(w)
    <3>1. Commits(w) /\ At(w, "tx")
      BY <2>5 DEF CommitUnacknowledged
    <3>2. KeyOf[w] \in Keys
      BY ConstantsAssumption
    <3>3. /\ \A k \in Keys : effects[k] # <<>> => effects'[k] = effects[k]
          /\ effects'[KeyOf[w]] = <<w>>
      <4> HIDE DEF TypeOK, HandlerInv, EffectInv, At
      <4> QED
        BY <3>1, <3>2, CommitShape DEF TypeOK
    <3>4. ASSUME NEW v \in Workers, v # w, call'[v].answer.kind = "ok"
          PROVE  \E u \in Workers : /\ call'[v].answer.result = u
                                   /\ effects'[KeyOf[v]] = <<u>>
                                   /\ Payload[u] = Payload[v]
      <4>1. call'[v] = call[v]
        BY <2>5, <3>4 DEF CommitUnacknowledged, Fail
      <4>2. PICK u \in Workers : /\ call[v].answer.result = u
                                /\ effects[KeyOf[v]] = <<u>>
                                /\ Payload[u] = Payload[v]
        BY <3>4, <4>1
      <4>3. KeyOf[v] \in Keys /\ <<u>> # <<>>
        OBVIOUS
      <4>4. effects'[KeyOf[v]] = <<u>>
        BY <4>2, <4>3, <3>3
      <4> QED
        BY <4>1, <4>2, <4>4
    <3>5. effects[KeyOf[w]] = <<>>
      <4> HIDE DEF TypeOK, HandlerInv, EffectInv, At
      <4> QED
        BY <3>1, CommitShape
    <3>6. call[w].answer.kind # "ok"
      <4> SUFFICES ASSUME call[w].answer.kind = "ok" PROVE FALSE
        OBVIOUS
      <4>1. PICK u \in Workers : effects[KeyOf[w]] = <<u>>
        OBVIOUS
      <4>2. <<u>> # <<>>
        OBVIOUS
      <4> QED
        BY <3>5, <4>1, <4>2
    <3>7. call'[w].answer.kind # "ok"
      BY <2>5, <3>6 DEF CommitUnacknowledged, Fail
    <3> HIDE DEF TypeOK, HandlerInv, EffectInv, At
    <3> QED
      BY <3>4, <3>7
  <2>6. CASE Rollback(w)
    BY <2>6 DEF Rollback, Fail
  <2>7. CASE Mark(w)
    BY <2>7 DEF Mark, Reply, Answered, FailureKind
  <2>8. CASE MarkMatchesNothing(w)
    BY <2>8 DEF MarkMatchesNothing, Reply, Answered, FailureKind
  <2>9. CASE MarkErrs(w)
    BY <2>9 DEF MarkErrs, Reply, Answered, FailureKind
  <2>10. CASE Reconcile(w)
    <3>1. CASE Reply(w, "failed_retryable", None)
      BY <2>10, <3>1 DEF Reconcile, Reply, Answered
    <3>2. CASE Fail(w, "FAILED_RETRYABLE")
      BY <2>10, <3>2 DEF Reconcile, Fail
    <3> QED
      BY <2>10, <3>1, <3>2 DEF Reconcile
  <2>11. CASE AttemptEnds(w)
    <3>1. /\ effects' = effects
          /\ \A v \in Workers \ {w} : call'[v] = call[v]
          /\ call'[w].answer = call[w].answer
      BY <2>11, AttemptShape
    <3> HIDE DEF TypeOK, HandlerInv, VerdictInv, LockInv, CallInv, EffectInv, RowInv,
             RowTellsTheEffect, Owns, Call
    <3> QED
      BY <3>1
  <2> QED
    BY <1>2, <2>1, <2>2, <2>3, <2>4, <2>5, <2>6, <2>7, <2>8, <2>9, <2>10, <2>11
       DEF Execute, AttemptEnds
<1>3. ASSUME NEW w \in Workers, Crash(w) PROVE OkIsTruthful'
  BY <1>3 DEF Crash, Reply, Answered
<1>4. ASSUME NEW w \in Workers, Retry(w) PROVE OkIsTruthful'
  BY <1>4 DEF Retry, NewCall, NoAnswer
<1>5. CASE Tick
  BY <1>5 DEF Tick
<1>6. CASE UNCHANGED vars
  BY <1>6 DEF vars
<1> QED
  BY <1>1, <1>2, <1>3, <1>4, <1>5, <1>6 DEF Next

LEMMA InitInv == Init => IInv
<1> SUFFICES ASSUME Init PROVE IInv
    OBVIOUS
<1>1. TypeOK
  <2>1. NewCall \in Call
    BY ConstantsAssumption DEF NewCall, NoAnswer, Call, PCs, AnswerKinds
  <2>2. [state |-> "absent", owner |-> None, left |-> NullLease, fp |-> None,
         result |-> None] \in Row
    BY ConstantsAssumption DEF Row, States, NullLease
  <2>3. 0 \in 0 .. MaxCrashes
    BY ConstantsAssumption
  <2> QED
    BY <2>1, <2>2, <2>3 DEF Init, TypeOK
<1>2. HandlerInv /\ OkIsTruthful
  BY DEF Init, HandlerInv, VerdictInv, LockInv, CallInv, OkIsTruthful, NewCall, NoAnswer,
     Holding
<1>3. EffectInv
  BY DEF Init, EffectInv, RowInv, RowTellsTheEffect
<1> QED
  BY <1>1, <1>2, <1>3 DEF IInv, EffectInv

(* The inductive invariant holds throughout every behaviour. *)
THEOREM Invariance == Spec => []IInv
<1>1. IInv /\ [Next]_vars => IInv'
  BY TypeStep, HandlerStep, EffectStep, OkStep DEF IInv, HandlerInv, EffectInv
<1> QED
  BY InitInv, <1>1, PTL DEF Spec

(* Every variable stays in its type. *)
THEOREM TypeCorrect == Spec => []TypeOK
  BY Invariance, PTL DEF IInv

(* However many callers send a key, crash, stall past their lease or lose an *)
(* acknowledgement, at most one mutation is committed under it.              *)
THEOREM AtMostOnceExecution == Spec => []AtMostOneEffect
<1>1. IInv => AtMostOneEffect
  <2> SUFFICES ASSUME IInv, NEW k \in Keys PROVE Len(effects[k]) <= 1
    BY DEF AtMostOneEffect
  <2>1. effects[k] = <<>> \/ effects[k] = <<op[k].result>>
    BY DEF IInv, RowTellsTheEffect
  <2>2. CASE effects[k] = <<>>
    BY <2>2
  <2>3. CASE effects[k] = <<op[k].result>>
    BY <2>3
  <2> QED
    BY <2>1, <2>2, <2>3
<1> QED
  BY Invariance, <1>1, PTL

(* The row is SUCCEEDED, with the committer's snapshot, exactly when the     *)
(* mutation under its key was committed.                                     *)
THEOREM DurableOutcome == Spec => []RowTellsTheEffect
  BY Invariance, PTL DEF IInv

(* "ok" always speaks of a committed mutation of the caller's own payload.   *)
THEOREM TruthfulAnswers == Spec => []OkIsTruthful
  BY Invariance, PTL DEF IInv

-------------------------------------------------------------------------------
(* What a step does to one row: nothing but the lease if it is settled.      *)
LEMMA SettledStep ==
    ASSUME TypeOK, HandlerInv, [Next]_vars, NEW k \in Keys, op[k].state \in Settled
    PROVE  op'[k].state = op[k].state /\ op'[k].result = op[k].result
<1> DEFINE Same == op'[k].state = op[k].state /\ op'[k].result = op[k].result
<1> USE ConstantsAssumption DEF Settled, At, RowOf, SetRow
<1>0. DOMAIN op = Keys
  BY DEF TypeOK
<1>1. ASSUME NEW w \in Workers, Claim(w) PROVE Same
  <2>1. CASE Arrive(w)
    BY <2>1 DEF Arrive
  <2>2. CASE InsertCreates(w)
    BY <2>2, <1>0 DEF InsertCreates
  <2>3. CASE InsertDuplicate(w)
    BY <2>3 DEF InsertDuplicate
  <2>4. CASE LookupConflict(w)
    BY <2>4 DEF LookupConflict
  <2>5. CASE LookupReplaySuccess(w)
    BY <2>5 DEF LookupReplaySuccess
  <2>6. CASE LookupReplayFailure(w)
    BY <2>6 DEF LookupReplayFailure
  <2>7. CASE LookupLeased(w)
    BY <2>7 DEF LookupLeased
  <2>8. CASE LookupExpired(w)
    BY <2>8 DEF LookupExpired
  <2>9. CASE TakeOver(w)
    BY <2>9, <1>0 DEF TakeOver, MayTakeOver
  <2>10. CASE TakeOverLost(w)
    BY <2>10 DEF TakeOverLost
  <2> QED
    BY <1>1, <2>1, <2>2, <2>3, <2>4, <2>5, <2>6, <2>7, <2>8, <2>9, <2>10 DEF Claim
<1>2. ASSUME NEW w \in Workers, Execute(w) PROVE Same
  <2>1. CASE PrecheckFails(w)
    BY <2>1 DEF PrecheckFails
  <2>2. CASE LockRow(w)
    BY <2>2 DEF LockRow
  <2>3. CASE OwnershipLost(w)
    BY <2>3 DEF OwnershipLost
  <2>4. CASE Commit(w)
    <3>1. Commits(w) /\ op[KeyOf[w]].state = "IN_PROGRESS"
      BY <2>4 DEF Commit, HandlerInv, LockInv, Owns
    <3> QED
      BY <3>1, <1>0 DEF Commits
  <2>5. CASE CommitUnacknowledged(w)
    <3>1. Commits(w) /\ op[KeyOf[w]].state = "IN_PROGRESS"
      BY <2>5 DEF CommitUnacknowledged, HandlerInv, LockInv, Owns
    <3> QED
      BY <3>1, <1>0 DEF Commits
  <2>6. CASE Rollback(w)
    BY <2>6 DEF Rollback
  <2>7. CASE Mark(w)
    BY <2>7, <1>0 DEF Mark, MayMark, Owns
  <2>8. CASE MarkMatchesNothing(w)
    BY <2>8 DEF MarkMatchesNothing
  <2>9. CASE MarkErrs(w)
    BY <2>9 DEF MarkErrs
  <2>10. CASE Reconcile(w)
    <3>1. op[KeyOf[w]].state = "IN_PROGRESS"
      BY <2>10 DEF Reconcile, HandlerInv, LockInv, Owns
    <3> QED
      BY <2>10, <3>1, <1>0 DEF Reconcile
  <2>11. CASE AttemptEnds(w)
    BY <2>11, AttemptShape
  <2> QED
    BY <1>2, <2>1, <2>2, <2>3, <2>4, <2>5, <2>6, <2>7, <2>8, <2>9, <2>10, <2>11
       DEF Execute, AttemptEnds
<1>3. ASSUME NEW w \in Workers, Crash(w) \/ Retry(w) PROVE Same
  BY <1>3 DEF Crash, Retry
<1>4. CASE Tick
  <2>1. PICK row \in Row : row = op[k]
    BY DEF TypeOK
  <2>2. PICK left \in -MaxAge .. Lease : left = Older(row.left)
    BY OlderRange
  <2>3. op'[k] = [row EXCEPT !.left = left]
    BY <1>4, <2>1, <2>2 DEF Tick
  <2> QED
    BY <2>1, <2>3, OnlyTheLease
<1>5. CASE UNCHANGED vars
  BY <1>5 DEF vars
<1> QED
  BY <1>1, <1>2, <1>3, <1>4, <1>5 DEF Next

(* A settled key stays settled, with the snapshot it was settled with.       *)
THEOREM SettlementIsFinal == Spec => SettledForGood
<1>1. TypeOK /\ HandlerInv /\ [Next]_vars
        => [\A k \in Keys : op[k].state \in Settled =>
               /\ op'[k].state = op[k].state
               /\ op'[k].result = op[k].result]_vars
  BY SettledStep
<1> QED
  BY Invariance, <1>1, PTL DEF Spec, IInv, SettledForGood

-------------------------------------------------------------------------------
(* Refinement: the abstract state of a concrete one. *)
Outcome == [k \in Keys |-> OutcomeOf(op[k])]
Told == [w \in Workers |-> call[w].answer]
AbsStep == Abstract!Next \/ (Outcome' = Outcome /\ Told' = Told)

(* What a step does to the answers. *)
LEMMA ToldStep ==
    ASSUME TypeOK, NEW w \in Workers
    PROVE  /\ \A kind, r : Reply(w, kind, r) =>
                 Told' = [Told EXCEPT ![w] = [kind |-> kind, result |-> r]]
           /\ \A pc : Goto(w, pc) => Told' = Told
           /\ \A v : Fail(w, v) => Told' = Told
           /\ \A fp : Claimed(w, fp) => Told' = Told
           /\ LookupExpired(w) => Told' = Told
           /\ Retried(w) => Told' = Told
<1>1. call \in [Workers -> Call] /\ call[w] \in Call
  BY DEF TypeOK
<1>2. ASSUME NEW c, call' = [call EXCEPT ![w] = c]
      PROVE  Told' = [Told EXCEPT ![w] = c.answer]
  <2>1. Told' = [v \in Workers |-> call'[v].answer]
    BY DEF Told
  <2>2. \A v \in Workers : call'[v] = IF v = w THEN c ELSE call[v]
    BY <1>1, <1>2
  <2>3. [Told EXCEPT ![w] = c.answer]
          = [v \in Workers |-> IF v = w THEN c.answer ELSE call[v].answer]
    BY DEF Told
  <2> QED
    BY <2>1, <2>2, <2>3
<1>3. [Told EXCEPT ![w] = call[w].answer] = Told
  BY DEF Told
<1>4. ASSUME NEW kind, NEW r, Reply(w, kind, r)
      PROVE  Told' = [Told EXCEPT ![w] = [kind |-> kind, result |-> r]]
  <2>1. Told' = [Told EXCEPT ![w] = Answered(kind, r).answer]
    BY <1>2, <1>4 DEF Reply
  <2>2. Answered(kind, r).answer = [kind |-> kind, result |-> r]
    BY DEF Answered
  <2> QED
    BY <2>1, <2>2
<1>5. ASSUME NEW pc, Goto(w, pc) PROVE Told' = Told
  <2>1. [call[w] EXCEPT !.pc = pc].answer = call[w].answer
    BY <1>1 DEF Call
  <2> QED
    BY <1>2, <1>3, <1>5, <2>1 DEF Goto
<1>6. ASSUME NEW v, Fail(w, v) PROVE Told' = Told
  <2>1. [call[w] EXCEPT !.pc = "mark", !.failed = 0, !.verdict = v].answer = call[w].answer
    BY <1>1 DEF Call
  <2> QED
    BY <1>2, <1>3, <1>6, <2>1 DEF Fail
<1>7. ASSUME NEW fp, Claimed(w, fp) PROVE Told' = Told
  <2>1. [call[w] EXCEPT !.pc = "claimed", !.age = 0, !.fp = fp].answer = call[w].answer
    BY <1>1 DEF Call
  <2> QED
    BY <1>2, <1>3, <1>7, <2>1 DEF Claimed
<1>8. ASSUME LookupExpired(w) PROVE Told' = Told
  <2>1. [call[w] EXCEPT !.pc = "takeover", !.fp = RowOf(w).fp].answer = call[w].answer
    BY <1>1 DEF Call
  <2> QED
    BY <1>2, <1>3, <1>8, <2>1 DEF LookupExpired
<1>9. ASSUME Retried(w) PROVE Told' = Told
  <2>1. \A v \in Workers : call'[v].answer = call[v].answer
    BY <1>9 DEF Retried
  <2> QED
    BY <2>1 DEF Told
<1> QED
  BY <1>4, <1>5, <1>6, <1>7, <1>8, <1>9

(* What a step does to the outcome of its key. *)
LEMMA OutcomeStep ==
    ASSUME TypeOK, NEW w \in Workers, NEW row, SetRow(w, row)
    PROVE  Outcome' = [Outcome EXCEPT ![KeyOf[w]] = OutcomeOf(row)]
<1>1. /\ Outcome = [k \in Keys |-> OutcomeOf(op[k])]
      /\ Outcome' = [k \in Keys |-> OutcomeOf(op'[k])]
  BY DEF Outcome, OutcomeOf
<1>2. KeyOf[w] \in Keys
  BY ConstantsAssumption
<1>3. \A k \in Keys : op'[k] = IF k = KeyOf[w] THEN row ELSE op[k]
  BY DEF TypeOK, SetRow
<1>4. \A k \in Keys :
        OutcomeOf(op'[k]) = IF k = KeyOf[w] THEN OutcomeOf(row) ELSE OutcomeOf(op[k])
  BY <1>3
<1> QED
  BY <1>1, <1>2, <1>4

LEMMA OutcomeKept ==
    ASSUME TypeOK,
           \A k \in Keys : OutcomeOf(op'[k]) = OutcomeOf(op[k])
    PROVE  Outcome' = Outcome
<1>1. /\ Outcome = [k \in Keys |-> OutcomeOf(op[k])]
      /\ Outcome' = [k \in Keys |-> OutcomeOf(op'[k])]
  BY DEF Outcome, OutcomeOf
<1> QED
  BY <1>1

(* A row that changes without being settled leaves its outcome open. *)
LEMMA StillOpen ==
    ASSUME TypeOK, NEW w \in Workers, NEW row, SetRow(w, row),
           RowOf(w).state \notin Settled, row.state \notin Settled
    PROVE  Outcome' = Outcome
<1>1. Outcome' = [Outcome EXCEPT ![KeyOf[w]] = OutcomeOf(row)]
  BY OutcomeStep
<1>2. OutcomeOf(row) = OutcomeOf(op[KeyOf[w]])
  BY DEF OutcomeOf, Settled, RowOf
<1>3. Outcome[KeyOf[w]] = OutcomeOf(op[KeyOf[w]]) /\ DOMAIN Outcome = Keys
  BY ConstantsAssumption DEF Outcome
<1>4. [Outcome EXCEPT ![KeyOf[w]] = Outcome[KeyOf[w]]] = Outcome
  BY <1>3 DEF Outcome
<1> QED
  BY <1>1, <1>2, <1>3, <1>4

(* A reply that promises nothing is a Tell, whatever it is. *)
LEMMA TellStep ==
    ASSUME TypeOK, NEW w \in Workers, NEW kind \in AnswerKinds \ {"ok"},
           Reply(w, kind, None), Outcome' = Outcome
    PROVE  AbsStep
<1>1. Told' = [Told EXCEPT ![w] = [kind |-> kind, result |-> None]]
  BY ToldStep
<1>2. [kind |-> kind, result |-> None] \in Abstract!Noncommittal
  BY DEF Abstract!Noncommittal, AnswerKinds
<1>3. Abstract!Tell(w)
  BY <1>1, <1>2 DEF Abstract!Tell, Told, Outcome
<1> QED
  BY <1>3 DEF AbsStep, Abstract!Next

LEMMA SilentStep ==
    ASSUME Outcome' = Outcome, Told' = Told
    PROVE  AbsStep
  BY DEF AbsStep

(* Every step implements an abstract one: a commit performs, a final mark     *)
(* refuses, a replay replays, every other answer only tells.                 *)
LEMMA RefinementStep == IInv /\ [Next]_vars => AbsStep
<1> SUFFICES ASSUME IInv, [Next]_vars PROVE AbsStep
    OBVIOUS
<1>i. TypeOK /\ HandlerInv /\ RowInv /\ RowTellsTheEffect
  BY DEF IInv
<1>u. op' = op => Outcome' = Outcome
  BY DEF Outcome, OutcomeOf
<1>1. ASSUME NEW w \in Workers, Claim(w) PROVE AbsStep
  <2>1. CASE Arrive(w)
    BY <2>1, <1>u, <1>i, ToldStep, SilentStep DEF Arrive
  <2>2. CASE InsertCreates(w)
    <3> DEFINE row == [state |-> "IN_PROGRESS", owner |-> w, left |-> ClaimLease(w),
                       fp |-> Current[w], result |-> None]
    <3>1. SetRow(w, row) /\ RowOf(w).state \notin Settled /\ row.state \notin Settled
      BY <2>2 DEF InsertCreates, Settled
    <3>2. Outcome' = Outcome
      BY <3>1, <1>i, StillOpen
    <3> QED
      BY <2>2, <3>2, <1>i, ToldStep, SilentStep DEF InsertCreates
  <2>3. CASE InsertDuplicate(w)
    BY <2>3, <1>u, <1>i, ToldStep, SilentStep DEF InsertDuplicate
  <2>4. CASE LookupConflict(w)
    BY <2>4, <1>u, <1>i, TellStep DEF LookupConflict, AnswerKinds
  <2>5. CASE LookupReplaySuccess(w)
    <3> DEFINE v == RowOf(w).result
    <3>1. v \in Workers /\ Payload[v] = Payload[w] /\ KeyOf[w] \in Keys
      BY <2>5, <1>i, ConstantsAssumption
         DEF LookupReplaySuccess, RowInv, FingerprintMatches, RowOf
    <3>2. Outcome[KeyOf[w]] = [kind |-> "performed", by |-> v]
      BY <2>5, <3>1 DEF LookupReplaySuccess, Outcome, OutcomeOf, RowOf
    <3>3. Told' = [Told EXCEPT ![w] = [kind |-> "ok", result |-> v]]
      BY <2>5, <1>i, ToldStep DEF LookupReplaySuccess
    <3>4. Outcome' = Outcome
      BY <2>5, <1>u DEF LookupReplaySuccess
    <3>5. Abstract!Replay(w)
      BY <3>1, <3>2, <3>3, <3>4
         DEF Abstract!Replay, Abstract!PerformedBy, Abstract!Ok, Told, Outcome
    <3> QED
      BY <3>5 DEF AbsStep, Abstract!Next
  <2>6. CASE LookupReplayFailure(w)
    BY <2>6, <1>u, <1>i, TellStep DEF LookupReplayFailure, AnswerKinds
  <2>7. CASE LookupLeased(w)
    BY <2>7, <1>u, <1>i, TellStep DEF LookupLeased, AnswerKinds
  <2>8. CASE LookupExpired(w)
    <3>1. op' = op
      BY <2>8 DEF LookupExpired
    <3> QED
      BY <2>8, <3>1, <1>u, <1>i, ToldStep, SilentStep
  <2>9. CASE TakeOver(w)
    <3> DEFINE row == [RowOf(w) EXCEPT !.state = "IN_PROGRESS", !.owner = w,
                                       !.left = ClaimLease(w), !.result = None]
    <3>1. SetRow(w, row) /\ RowOf(w).state \notin Settled
      BY <2>9 DEF TakeOver, MayTakeOver, Settled
    <3>2. row.state \notin Settled
      BY <1>i, ConstantsAssumption DEF TypeOK, RowOf, Row, Settled
    <3>3. Outcome' = Outcome
      BY <3>1, <3>2, <1>i, StillOpen
    <3> QED
      BY <2>9, <3>3, <1>i, ToldStep, SilentStep DEF TakeOver
  <2>10. CASE TakeOverLost(w)
    BY <2>10, <1>u, <1>i, TellStep DEF TakeOverLost, AnswerKinds
  <2> QED
    BY <1>1, <2>1, <2>2, <2>3, <2>4, <2>5, <2>6, <2>7, <2>8, <2>9, <2>10 DEF Claim
<1>2. ASSUME NEW w \in Workers, Execute(w) PROVE AbsStep
  <2>k. KeyOf[w] \in Keys /\ RowOf(w) \in Row
    BY <1>i, ConstantsAssumption DEF TypeOK, RowOf
  <2>c. ASSUME At(w, "tx"), Commits(w)
        PROVE  /\ Outcome[KeyOf[w]] = Abstract!Open
               /\ Outcome' = [Outcome EXCEPT ![KeyOf[w]] = Abstract!PerformedBy(w)]
    <3> DEFINE row == [RowOf(w) EXCEPT !.state = "SUCCEEDED", !.owner = None,
                                       !.left = NullLease, !.result = w]
    <3>1. RowOf(w).state = "IN_PROGRESS"
      BY <2>c, <1>i DEF HandlerInv, LockInv, Owns, At, RowOf
    <3>2. OutcomeOf(row) = Abstract!PerformedBy(w)
      BY <2>k DEF Row, OutcomeOf, Abstract!PerformedBy
    <3>3. Outcome' = [Outcome EXCEPT ![KeyOf[w]] = OutcomeOf(row)]
      BY <2>c, <1>i, OutcomeStep DEF Commits
    <3> QED
      BY <3>1, <3>2, <3>3, <2>k DEF Outcome, OutcomeOf, RowOf, Abstract!Open
  <2>1. CASE PrecheckFails(w)
    BY <2>1, <1>u, <1>i, ToldStep, SilentStep DEF PrecheckFails
  <2>2. CASE LockRow(w)
    BY <2>2, <1>u, <1>i, ToldStep, SilentStep DEF LockRow
  <2>3. CASE OwnershipLost(w)
    BY <2>3, <1>u, <1>i, ToldStep, SilentStep DEF OwnershipLost
  <2>4. CASE Commit(w)
    <3>1. Told' = [Told EXCEPT ![w] = Abstract!Ok(w)]
      BY <2>4, <1>i, ToldStep DEF Commit, Abstract!Ok
    <3>2. Abstract!Perform(w)
      BY <2>4, <2>c, <3>1 DEF Commit, Abstract!Perform, Outcome, Told
    <3> QED
      BY <3>2 DEF AbsStep, Abstract!Next
  <2>5. CASE CommitUnacknowledged(w)
    <3>1. Told' = Told
      BY <2>5, <1>i, ToldStep DEF CommitUnacknowledged
    <3>2. Abstract!Perform(w)
      BY <2>5, <2>c, <3>1 DEF CommitUnacknowledged, Abstract!Perform, Outcome, Told
    <3> QED
      BY <3>2 DEF AbsStep, Abstract!Next
  <2>6. CASE Rollback(w)
    BY <2>6, <1>u, <1>i, ToldStep, SilentStep DEF Rollback
  <2>v. At(w, "mark") =>
          /\ call[w].verdict \in Verdicts
          /\ FailureKind(call[w].verdict) \in AnswerKinds \ {"ok"}
    BY <1>i DEF HandlerInv, VerdictInv, At, FailureKind, AnswerKinds
  <2>7. CASE Mark(w)
    <3> DEFINE row == [RowOf(w) EXCEPT
                 !.state = call[w].verdict, !.owner = None, !.result = None,
                 !.left = IF call[w].verdict = "FAILED_RETRYABLE" THEN Lease ELSE NullLease]
    <3>1. SetRow(w, row) /\ RowOf(w).state = "IN_PROGRESS"
      BY <2>7 DEF Mark, MayMark, Owns
    <3>2. row.state = call[w].verdict
      BY <2>k DEF Row
    <3>3. CASE call[w].verdict = "FAILED_RETRYABLE"
      <4>1. Outcome' = Outcome
        BY <3>1, <3>2, <3>3, <1>i, StillOpen DEF Settled
      <4> QED
        BY <2>7, <4>1, <2>v, <1>i, TellStep DEF Mark
    <3>4. CASE call[w].verdict = "FAILED_FINAL"
      <4>1. Outcome' = [Outcome EXCEPT ![KeyOf[w]] = Abstract!Refused]
        <5>1. OutcomeOf(row) = Abstract!Refused
          BY <3>2, <3>4 DEF OutcomeOf, Abstract!Refused
        <5> QED
          BY <3>1, <5>1, <1>i, OutcomeStep
      <4>2. Outcome[KeyOf[w]] = Abstract!Open
        BY <3>1, <2>k DEF Outcome, OutcomeOf, RowOf, Abstract!Open
      <4>3. Told' = [Told EXCEPT ![w] = [kind |-> "failed_final", result |-> None]]
        BY <2>7, <3>4, <1>i, ToldStep DEF Mark, FailureKind
      <4>4. [kind |-> "failed_final", result |-> None] \in Abstract!Noncommittal
        BY DEF Abstract!Noncommittal
      <4>5. Abstract!Refuse(w)
        BY <4>1, <4>2, <4>3, <4>4 DEF Abstract!Refuse, Outcome, Told
      <4> QED
        BY <4>5 DEF AbsStep, Abstract!Next
    <3> QED
      BY <2>7, <2>v, <3>3, <3>4 DEF Mark, Verdicts
  <2>8. CASE MarkMatchesNothing(w)
    BY <2>8, <2>v, <1>u, <1>i, TellStep DEF MarkMatchesNothing
  <2>9. CASE MarkErrs(w)
    BY <2>9, <2>v, <1>u, <1>i, TellStep DEF MarkErrs
  <2>10. CASE Reconcile(w)
    <3> DEFINE row == [RowOf(w) EXCEPT !.state = "FAILED_RETRYABLE", !.owner = None,
                                       !.left = NullLease]
    <3>1. SetRow(w, row) /\ RowOf(w).state = "IN_PROGRESS"
      BY <2>10, <1>i DEF Reconcile, HandlerInv, LockInv, Owns, At, RowOf
    <3>2. row.state = "FAILED_RETRYABLE"
      BY <2>k DEF Row
    <3>3. Outcome' = Outcome
      BY <3>1, <3>2, <1>i, StillOpen DEF Settled
    <3>4. CASE Reply(w, "failed_retryable", None)
      BY <3>3, <3>4, <1>i, TellStep DEF AnswerKinds
    <3>5. CASE Fail(w, "FAILED_RETRYABLE")
      BY <3>3, <3>5, <1>i, ToldStep, SilentStep
    <3> QED
      BY <2>10, <3>4, <3>5 DEF Reconcile
  <2>11. CASE AttemptEnds(w)
    <3>1. op' = op /\ (Retried(w) \/ \E v \in Verdicts : Fail(w, v))
      BY <2>11, <1>i, AttemptShape
    <3>2. Told' = Told
      BY <3>1, <1>i, ToldStep
    <3> QED
      BY <3>1, <3>2, <1>u, SilentStep
  <2> QED
    BY <1>2, <2>1, <2>2, <2>3, <2>4, <2>5, <2>6, <2>7, <2>8, <2>9, <2>10, <2>11
       DEF Execute, AttemptEnds
<1>3. ASSUME NEW w \in Workers, Crash(w) PROVE AbsStep
  BY <1>3, <1>u, <1>i, TellStep DEF Crash, AnswerKinds
<1>4. ASSUME NEW w \in Workers, Retry(w) PROVE AbsStep
  <2>1. Told' = [Told EXCEPT ![w] = NoAnswer]
    BY <1>4, <1>i DEF Retry, TypeOK, Told, NewCall
  <2>2. NoAnswer \in Abstract!Noncommittal
    BY DEF NoAnswer, Abstract!Noncommittal
  <2>3. Abstract!Tell(w)
    BY <1>4, <2>1, <2>2, <1>u DEF Retry, Abstract!Tell, Told, Outcome
  <2> QED
    BY <2>3 DEF AbsStep, Abstract!Next
<1>5. CASE Tick
  <2>1. ASSUME NEW k \in Keys PROVE OutcomeOf(op'[k]) = OutcomeOf(op[k])
    <3>1. PICK row \in Row : row = op[k]
      BY <1>i DEF TypeOK
    <3>2. PICK left \in -MaxAge .. Lease : left = Older(row.left)
      BY OlderRange
    <3>3. op'[k] = [row EXCEPT !.left = left]
      BY <1>5, <3>1, <3>2 DEF Tick
    <3> QED
      BY <3>1, <3>3, OnlyTheLease DEF OutcomeOf
  <2>2. Outcome' = Outcome
    BY <2>1, <1>i, OutcomeKept
  <2>3. Told' = Told
    BY <1>5, <1>i DEF Tick, TypeOK, Call, Told
  <2> QED
    BY <2>2, <2>3, SilentStep
<1>6. CASE UNCHANGED vars
  BY <1>6, <1>u, SilentStep DEF vars, Told
<1> QED
  BY <1>1, <1>2, <1>3, <1>4, <1>5, <1>6 DEF Next

(* The rows, leases, retries and failure marks of the code implement the     *)
(* at-most-once execution that the abstract specification promises.          *)
THEOREM Refinement == Spec => ImplementsAtMostOnce
<1>1. Init => Abstract!Init
  BY DEF Init, Abstract!Init, OutcomeOf, NewCall, NoAnswer, Abstract!Open, Abstract!Silent
<1>2. IInv /\ [Next]_vars => [Abstract!Next]_<<Outcome, Told>>
  BY RefinementStep DEF AbsStep
<1> QED
  BY <1>1, <1>2, Invariance, PTL
     DEF Spec, ImplementsAtMostOnce, Abstract!Spec, Outcome, Told

-------------------------------------------------------------------------------
(* A call is answered at its end only, and finds a row once it has met one.   *)
AskedInv ==
    \A w \in Workers :
        /\ call[w].pc # "answered" => call[w].answer = NoAnswer
        /\ call[w].pc \in {"lookup", "takeover"} => op[KeyOf[w]].state # "absent"

(* What a step of a call does to its record. *)
LEMMA CallMoves ==
    ASSUME TypeOK, NEW w \in Workers, Claim(w) \/ Execute(w) \/ Crash(w) \/ Retry(w)
    PROVE  /\ \A v \in Workers \ {w} : call'[v] = call[v]
           /\ \/ call'[w].pc = "answered"
              \/ call'[w] = NewCall
              \/ call[w].pc # "answered" /\ call'[w].answer = call[w].answer
           /\ call'[w].pc \in {"lookup", "takeover"} =>
                 InsertDuplicate(w) \/ LookupExpired(w)
<1> DEFINE Moved(pc) == /\ \A v \in Workers \ {w} : call'[v] = call[v]
                        /\ call'[w].pc = pc
                        /\ call[w].pc # "answered" /\ call'[w].answer = call[w].answer
<1>0. call \in [Workers -> Call] /\ call[w] \in Call
  BY DEF TypeOK
<1>1. ASSUME NEW kind, NEW r, Reply(w, kind, r)
      PROVE  (\A v \in Workers \ {w} : call'[v] = call[v]) /\ call'[w].pc = "answered"
  BY <1>0, <1>1 DEF Reply, Answered
<1>2. ASSUME NEW pc, Goto(w, pc), call[w].pc # "answered" PROVE Moved(pc)
  BY <1>0, <1>2 DEF Goto, Call
<1>3. ASSUME NEW v, Fail(w, v), call[w].pc # "answered" PROVE Moved("mark")
  BY <1>0, <1>3 DEF Fail, Call
<1>4. ASSUME NEW fp, Claimed(w, fp), call[w].pc # "answered" PROVE Moved("claimed")
  BY <1>0, <1>4 DEF Claimed, Call
<1>5. CASE Claim(w)
  <2>1. CASE LookupExpired(w)
    BY <1>0, <2>1 DEF LookupExpired, At, Call
  <2>2. CASE InsertDuplicate(w)
    BY <1>2, <2>2 DEF InsertDuplicate, At
  <2>3. CASE Arrive(w)
    <3>1. Moved("insert")
      BY <1>2, <2>3 DEF Arrive, At
    <3> QED BY <3>1
  <2>4. CASE InsertCreates(w) \/ TakeOver(w)
    <3>1. Moved("claimed")
      BY <1>4, <2>4 DEF InsertCreates, TakeOver, At
    <3> QED BY <3>1
  <2>5. CASE \/ LookupConflict(w) \/ LookupReplaySuccess(w) \/ LookupReplayFailure(w)
             \/ LookupLeased(w) \/ TakeOverLost(w)
    BY <1>1, <2>5 DEF LookupConflict, LookupReplaySuccess, LookupReplayFailure, LookupLeased,
                      TakeOverLost
  <2> QED BY <1>5, <2>1, <2>2, <2>3, <2>4, <2>5 DEF Claim
<1>6. CASE Execute(w)
  <2>1. CASE PrecheckFails(w) \/ OwnershipLost(w) \/ CommitUnacknowledged(w) \/ Rollback(w)
    <3>1. \E v : Fail(w, v)
      BY <2>1 DEF PrecheckFails, OwnershipLost, CommitUnacknowledged, Rollback
    <3>2. Moved("mark")
      BY <1>3, <2>1, <3>1 DEF PrecheckFails, OwnershipLost, CommitUnacknowledged, Rollback, At
    <3> QED BY <3>2
  <2>2. CASE LockRow(w)
    <3>1. Moved("tx")
      BY <1>2, <2>2 DEF LockRow, At
    <3> QED BY <3>1
  <2>3. CASE Commit(w) \/ Mark(w) \/ MarkMatchesNothing(w) \/ MarkErrs(w)
    BY <1>1, <2>3 DEF Commit, Mark, MarkMatchesNothing, MarkErrs
  <2>4. CASE Reconcile(w)
    <3>1. CASE Reply(w, "failed_retryable", None)
      BY <1>1, <3>1
    <3>2. CASE Fail(w, "FAILED_RETRYABLE")
      <4>1. Moved("mark")
        BY <1>3, <2>4, <3>2 DEF Reconcile, At
      <4> QED BY <4>1
    <3> QED BY <2>4, <3>1, <3>2 DEF Reconcile
  <2>5. CASE AttemptEnds(w)
    <3>1. /\ call[w].pc # "answered"
          /\ Retried(w) \/ \E v \in Verdicts : Fail(w, v)
      BY <2>5, AttemptShape DEF At
    <3>2. Moved("claimed") \/ Moved("mark")
      BY <1>3, <3>1 DEF Retried
    <3> QED BY <3>2
  <2> QED BY <1>6, <2>1, <2>2, <2>3, <2>4, <2>5 DEF Execute, AttemptEnds
<1>7. CASE Crash(w)
  BY <1>1, <1>7 DEF Crash
<1>8. CASE Retry(w)
  BY <1>0, <1>8 DEF Retry, NewCall
<1> QED BY <1>5, <1>6, <1>7, <1>8

(* A row once there stays. *)
LEMMA RowStays ==
    ASSUME TypeOK, VerdictInv, [Next]_vars, NEW k \in Keys, op[k].state # "absent"
    PROVE  op'[k].state # "absent"
<1>0. op \in [Keys -> Row]
  BY DEF TypeOK
<1>1. ASSUME NEW w \in Workers, NEW row, SetRow(w, row), row.state # "absent"
      PROVE  op'[k].state # "absent"
  BY <1>0, <1>1 DEF SetRow
<1>2. ASSUME NEW w \in Workers, Claim(w) PROVE op'[k].state # "absent"
  <2>1. CASE InsertCreates(w)
    <3> DEFINE row == [state |-> "IN_PROGRESS", owner |-> w, left |-> ClaimLease(w),
                       fp |-> Current[w], result |-> None]
    <3>1. SetRow(w, row) /\ row.state # "absent"
      BY <2>1 DEF InsertCreates
    <3> QED BY <1>1, <3>1
  <2>2. CASE TakeOver(w)
    <3>1. RowOf(w) \in Row
      BY <1>0, ConstantsAssumption DEF RowOf
    <3> DEFINE row == [RowOf(w) EXCEPT !.state = "IN_PROGRESS", !.owner = w,
                                       !.left = ClaimLease(w), !.result = None]
    <3>2. SetRow(w, row) /\ row.state # "absent"
      BY <2>2, <3>1 DEF TakeOver, Row
    <3> QED BY <1>1, <3>2
  <2>3. CASE op' = op
    BY <2>3
  <2> QED BY <1>2, <2>1, <2>2, <2>3 DEF Claim, Arrive, InsertDuplicate, LookupConflict,
             LookupReplaySuccess, LookupReplayFailure, LookupLeased, LookupExpired, TakeOverLost
<1>3. ASSUME NEW w \in Workers, Execute(w) PROVE op'[k].state # "absent"
  <2>0. RowOf(w) \in Row
    BY <1>0, ConstantsAssumption DEF RowOf
  <2>1. CASE Commit(w) \/ CommitUnacknowledged(w)
    <3> DEFINE row == [RowOf(w) EXCEPT !.state = "SUCCEEDED", !.owner = None,
                                       !.left = NullLease, !.result = w]
    <3>1. SetRow(w, row) /\ row.state # "absent"
      BY <2>0, <2>1 DEF Commit, CommitUnacknowledged, Commits, Row
    <3> QED BY <1>1, <3>1
  <2>2. CASE Reconcile(w)
    <3> DEFINE row == [RowOf(w) EXCEPT !.state = "FAILED_RETRYABLE", !.owner = None,
                                       !.left = NullLease]
    <3>1. SetRow(w, row) /\ row.state # "absent"
      BY <2>0, <2>2 DEF Reconcile, Row
    <3> QED BY <1>1, <3>1
  <2>3. CASE Mark(w)
    <3> DEFINE row == [RowOf(w) EXCEPT
          !.state = call[w].verdict, !.owner = None, !.result = None,
          !.left = IF call[w].verdict = "FAILED_RETRYABLE" THEN Lease ELSE NullLease]
    <3>1. SetRow(w, row) /\ row.state = call[w].verdict
      BY <2>0, <2>3 DEF Mark, Row
    <3>2. call[w].verdict # "absent"
      BY <1>3, <2>3 DEF Mark, At, VerdictInv, Verdicts
    <3> QED BY <1>1, <3>1, <3>2
  <2>4. CASE op' = op
    BY <2>4
  <2>5. CASE AttemptEnds(w)
    BY <2>4, <2>5, AttemptShape
  <2> QED BY <1>3, <2>1, <2>2, <2>3, <2>4, <2>5
          DEF Execute, AttemptEnds, PrecheckFails, LockRow, OwnershipLost, Rollback,
              MarkMatchesNothing, MarkErrs
<1>4. ASSUME NEW w \in Workers, Crash(w) \/ Retry(w) PROVE op'[k].state # "absent"
  BY <1>4 DEF Crash, Retry
<1>5. CASE Tick
  <2>1. PICK row \in Row : row = op[k]
    BY DEF TypeOK
  <2>2. PICK left \in -MaxAge .. Lease : left = Older(row.left)
    BY OlderRange
  <2>3. op'[k] = [row EXCEPT !.left = left]
    BY <1>5, <2>1, <2>2 DEF Tick
  <2> QED BY <2>1, <2>3, OnlyTheLease
<1>6. CASE UNCHANGED vars
  BY <1>6 DEF vars
<1> QED BY <1>2, <1>3, <1>4, <1>5, <1>6 DEF Next

LEMMA AskedStep ==
    ASSUME TypeOK, VerdictInv, AskedInv, [Next]_vars
    PROVE  AskedInv'
<1>1. ASSUME NEW k \in Keys, op[k].state # "absent" PROVE op'[k].state # "absent"
  BY <1>1, RowStays
<1>2. \A w \in Workers : KeyOf[w] \in Keys
  BY ConstantsAssumption
<1>3. ASSUME NEW w \in Workers, Claim(w) \/ Execute(w) \/ Crash(w) \/ Retry(w)
      PROVE  AskedInv'
  <2>1. /\ \A v \in Workers \ {w} : call'[v] = call[v]
        /\ \/ call'[w].pc = "answered"
           \/ call'[w] = NewCall
           \/ call[w].pc # "answered" /\ call'[w].answer = call[w].answer
        /\ call'[w].pc \in {"lookup", "takeover"} =>
              InsertDuplicate(w) \/ LookupExpired(w)
    BY <1>3, CallMoves
  <2>2. call'[w].pc # "answered" => call'[w].answer = NoAnswer
    BY <2>1 DEF AskedInv, NewCall
  <2>3. call'[w].pc \in {"lookup", "takeover"} => op'[KeyOf[w]].state # "absent"
    BY <1>1, <1>2, <2>1 DEF AskedInv, InsertDuplicate, LookupExpired, RowOf, At
  <2> QED BY <1>1, <1>2, <2>1, <2>2, <2>3 DEF AskedInv
<1>4. CASE Tick
  <2>1. \A w \in Workers : call'[w].pc = call[w].pc /\ call'[w].answer = call[w].answer
    BY <1>4 DEF Tick, TypeOK, Call
  <2> QED BY <1>1, <1>2, <2>1 DEF AskedInv
<1>5. CASE UNCHANGED vars
  BY <1>5 DEF vars, AskedInv
<1> QED BY <1>3, <1>4, <1>5 DEF Next

LEMMA AskedInvariance == Spec => [](IInv /\ AskedInv)
<1>1. Init => AskedInv
  BY DEF Init, AskedInv, NewCall
<1>2. IInv /\ AskedInv /\ [Next]_vars => AskedInv'
  BY AskedStep DEF IInv, HandlerInv
<1> QED BY <1>1, <1>2, Invariance, PTL DEF Spec

(* IDEMPOTENCY_IN_PROGRESS is said by a lookup that saw the row leased beyond *)
(* the caller's clock, or by a takeover that met a row leased again or       *)
(* settled: never of a row that is gone or that nobody will settle.          *)
LEMMA JustifiedStep ==
    ASSUME TypeOK, AskedInv, [Next]_vars, NEW w \in Workers,
           At(w, "lookup") \/ At(w, "takeover"), call'[w].answer.kind = "in_progress"
    PROVE  RowOf(w).state \in Settled \/ RowOf(w).left > -call[w].age
<1>1. call[w].answer.kind = "none" /\ call \in [Workers -> Call] /\ RowOf(w).state # "absent"
  BY DEF AskedInv, At, NoAnswer, TypeOK, RowOf
<1>2. RowOf(w) \in Row /\ call[w] \in Call
  BY ConstantsAssumption DEF RowOf, TypeOK
<1>3. RowOf(w).left \in Int /\ call[w].age \in Int /\ RowOf(w).state \in States
  BY <1>2, ConstantsAssumption DEF Row, Call
<1>4. ~LeaseExpired(w, RowOf(w)) => RowOf(w).left > -call[w].age
  BY <1>3 DEF LeaseExpired
<1>5. CASE LookupLeased(w)
  BY <1>4, <1>5 DEF LookupLeased
<1>6. CASE TakeOverLost(w)
  <2>1. RowOf(w).state \in {"IN_PROGRESS", "FAILED_RETRYABLE"} \/ RowOf(w).state \in Settled
    BY <1>1, <1>3 DEF States, Settled
  <2> QED BY <1>4, <1>6, <2>1 DEF TakeOverLost, MayTakeOver
<1>7. CASE LookupConflict(w) \/ LookupReplaySuccess(w) \/ LookupReplayFailure(w)
  BY <1>1, <1>7 DEF LookupConflict, LookupReplaySuccess, LookupReplayFailure, Reply, Answered
<1>8. CASE LookupExpired(w) \/ TakeOver(w)
  <2>1. call'[w].answer = call[w].answer
    <3>1. ASSUME LookupExpired(w)
          PROVE  call'[w] = [call[w] EXCEPT !.pc = "takeover", !.fp = RowOf(w).fp]
      BY <1>1, <3>1 DEF LookupExpired
    <3>2. ASSUME TakeOver(w)
          PROVE  call'[w] = [call[w] EXCEPT !.pc = "claimed", !.age = 0, !.fp = call[w].fp]
      BY <1>1, <3>2 DEF TakeOver, Claimed
    <3> QED BY <1>2, <1>8, <3>1, <3>2 DEF Call
  <2> QED BY <1>1, <2>1
<1>9. CASE Crash(w)
  BY <1>1, <1>9 DEF Crash, Reply, Answered
<1>10. ASSUME NEW v \in Workers, v # w, Claim(v) \/ Execute(v) \/ Crash(v) \/ Retry(v)
       PROVE  FALSE
  BY <1>1, <1>10, CallMoves
<1>11. CASE Tick
  BY <1>1, <1>2, <1>11 DEF Tick, Call
<1>12. CASE UNCHANGED vars
  BY <1>1, <1>12 DEF vars
<1>13. ~Arrive(w) /\ ~InsertCreates(w) /\ ~InsertDuplicate(w) /\ ~Execute(w) /\ ~Retry(w)
  BY DEF At, Arrive, InsertCreates, InsertDuplicate, Execute, PrecheckFails, StartTaken,
         RowChangedMeanwhile, LockRow, OwnershipLost, Commit, CommitUnacknowledged, Reconcile,
         SerializationFailure, Rollback, Mark, MarkMatchesNothing, MarkErrs, Retry
<1>14. CASE Claim(w)
  BY <1>5, <1>6, <1>7, <1>8, <1>13, <1>14 DEF Claim
<1>15. CASE \E v \in Workers : Claim(v) \/ Execute(v) \/ Crash(v) \/ Retry(v)
  <2>1. PICK v \in Workers : Claim(v) \/ Execute(v) \/ Crash(v) \/ Retry(v)
    BY <1>15
  <2>2. v = w
    BY <1>10, <2>1
  <2> QED BY <1>9, <1>13, <1>14, <2>1, <2>2
<1> QED BY <1>11, <1>12, <1>15 DEF Next

(* Whoever is told IN_PROGRESS by the claim may retry: the row is settled, or *)
(* leased beyond the clock the caller was judged by.                         *)
THEOREM InProgressIsNoDeadEnd == Spec => InProgressIsJustified
<1>1. IInv /\ AskedInv /\ [Next]_vars
        => [\A w \in Workers :
               (At(w, "lookup") \/ At(w, "takeover")) /\ call'[w].answer.kind = "in_progress"
               => RowOf(w).state \in Settled \/ RowOf(w).left > -call[w].age]_vars
  BY JustifiedStep DEF IInv
<1> QED BY <1>1, AskedInvariance, PTL DEF Spec, InProgressIsJustified

-------------------------------------------------------------------------------
(***************************************************************************)
(* Fingerprints.  A row is created with its creator's and keeps it, however *)
(* often it is taken over; so what a call was told of it stays true.       *)
(***************************************************************************)
Concluded == {"ok", "in_progress", "failed_retryable", "failed_final"}

(* Calls of one key: those answered "ok" hold the same snapshot, and of two  *)
(* that know the same fingerprints (one payload, the same secrets) it is     *)
(* never said to one that the key is another request's, and to the other     *)
(* that it is its own.                                                       *)
AnswersAgree ==
    \A v, w \in Workers : KeyOf[v] = KeyOf[w] =>
        /\ call[v].answer.kind = "ok" /\ call[w].answer.kind = "ok"
              => call[v].answer.result = call[w].answer.result
        /\ call[v].answer.kind = "conflict" /\ call[w].answer.kind \in Concluded
              => Candidates[v] # Candidates[w]

FingerprintInv ==
    \A w \in Workers :
        /\ call[w].pc \in Holding \cup {"takeover"} =>
              RowOf(w).state # "absent" /\ call[w].fp = RowOf(w).fp
        /\ call[w].answer.kind = "conflict" =>
              RowOf(w).state # "absent" /\ RowOf(w).fp \notin Candidates[w]
        /\ call[w].answer.kind \in Concluded =>
              RowOf(w).state # "absent" /\ RowOf(w).fp \in Candidates[w]

LEMMA FingerprintKept ==
    ASSUME TypeOK, [Next]_vars, NEW k \in Keys, op[k].state # "absent"
    PROVE  op'[k].fp = op[k].fp
<1> USE ConstantsAssumption DEF At, RowOf, SetRow
<1>0. op \in [Keys -> Row] /\ DOMAIN op = Keys
  BY DEF TypeOK
<1>1. ASSUME NEW w \in Workers, Claim(w) PROVE op'[k].fp = op[k].fp
  <2>1. CASE InsertCreates(w)
    BY <1>0, <2>1 DEF InsertCreates
  <2>2. CASE TakeOver(w)
    BY <1>0, <2>2 DEF TakeOver, Row
  <2>3. CASE op' = op
    BY <2>3
  <2> QED BY <1>1, <2>1, <2>2, <2>3 DEF Claim, Arrive, InsertDuplicate, LookupConflict,
             LookupReplaySuccess, LookupReplayFailure, LookupLeased, LookupExpired, TakeOverLost
<1>2. ASSUME NEW w \in Workers, Execute(w) PROVE op'[k].fp = op[k].fp
  <2>1. CASE Commit(w) \/ CommitUnacknowledged(w)
    <3>1. Commits(w)
      BY <2>1 DEF Commit, CommitUnacknowledged
    <3> QED BY <1>0, <3>1 DEF Commits, Row
  <2>2. CASE Reconcile(w)
    BY <1>0, <2>2 DEF Reconcile, Row
  <2>3. CASE Mark(w)
    BY <1>0, <2>3 DEF Mark, Row
  <2>4. CASE op' = op
    BY <2>4
  <2>5. CASE AttemptEnds(w)
    BY <2>4, <2>5, AttemptShape
  <2> QED BY <1>2, <2>1, <2>2, <2>3, <2>4, <2>5
          DEF Execute, AttemptEnds, PrecheckFails, LockRow, OwnershipLost, Rollback,
              MarkMatchesNothing, MarkErrs
<1>3. ASSUME NEW w \in Workers, Crash(w) \/ Retry(w) PROVE op'[k].fp = op[k].fp
  BY <1>3 DEF Crash, Retry
<1>4. CASE Tick
  <2>1. PICK row \in Row : row = op[k]
    BY <1>0
  <2>2. PICK left \in -MaxAge .. Lease : left = Older(row.left)
    BY OlderRange
  <2>3. op'[k] = [row EXCEPT !.left = left]
    BY <1>4, <2>1, <2>2 DEF Tick
  <2> QED BY <2>1, <2>3, OnlyTheLease
<1>5. CASE UNCHANGED vars
  BY <1>5 DEF vars
<1> QED BY <1>1, <1>2, <1>3, <1>4, <1>5 DEF Next

(* How a call's record moves on: with the fingerprint it works under, with   *)
(* the row's, or to its answer.                                              *)
LEMMA RecordMoves ==
    ASSUME TypeOK, AskedInv, NEW w \in Workers
    PROVE  /\ \A pc : Goto(w, pc) =>
                 call'[w].pc = pc /\ call'[w].fp = call[w].fp /\ call'[w].answer = call[w].answer
           /\ \A fp : Claimed(w, fp) =>
                 call'[w].pc = "claimed" /\ call'[w].fp = fp /\ call'[w].answer = call[w].answer
           /\ \A v : Fail(w, v) =>
                 call'[w].pc = "mark" /\ call'[w].fp = call[w].fp /\ call'[w].answer = call[w].answer
           /\ \A kind, r : Reply(w, kind, r) => call'[w].pc = "answered" /\ call'[w].answer.kind = kind
           /\ call[w].pc # "answered" => call[w].answer.kind = "none"
<1>1. call \in [Workers -> Call] /\ call[w] \in Call
  BY DEF TypeOK
<1>2. \A pc : Goto(w, pc) =>
         call'[w].pc = pc /\ call'[w].fp = call[w].fp /\ call'[w].answer = call[w].answer
  BY <1>1 DEF Goto, Call
<1>3. \A fp : Claimed(w, fp) =>
         call'[w].pc = "claimed" /\ call'[w].fp = fp /\ call'[w].answer = call[w].answer
  BY <1>1 DEF Claimed, Call
<1>4. \A v : Fail(w, v) =>
         call'[w].pc = "mark" /\ call'[w].fp = call[w].fp /\ call'[w].answer = call[w].answer
  BY <1>1 DEF Fail, Call
<1>5. \A kind, r : Reply(w, kind, r) => call'[w].pc = "answered" /\ call'[w].answer.kind = kind
  BY <1>1 DEF Reply, Answered
<1> QED BY <1>2, <1>3, <1>4, <1>5 DEF AskedInv, NoAnswer

LEMMA FingerprintOwn ==
    ASSUME IInv, AskedInv, FingerprintInv, [Next]_vars, NEW w \in Workers,
           Claim(w) \/ Execute(w) \/ Crash(w) \/ Retry(w)
    PROVE  /\ call'[w].pc \in Holding \cup {"takeover"} =>
                 op'[KeyOf[w]].state # "absent" /\ call'[w].fp = op'[KeyOf[w]].fp
           /\ call'[w].answer.kind = "conflict" =>
                 op'[KeyOf[w]].state # "absent" /\ op'[KeyOf[w]].fp \notin Candidates[w]
           /\ call'[w].answer.kind \in Concluded =>
                 op'[KeyOf[w]].state # "absent" /\ op'[KeyOf[w]].fp \in Candidates[w]
<1> DEFINE k == KeyOf[w]
           Held == op'[k].state # "absent" /\ call'[w].fp = op'[k].fp
           Quietly == call'[w].answer.kind = "none"
<1>0. /\ k \in Keys /\ op \in [Keys -> Row] /\ Current[w] \in Candidates[w]
      /\ \A x : Goto(w, x) =>
           call'[w].pc = x /\ call'[w].fp = call[w].fp /\ call'[w].answer = call[w].answer
      /\ \A x : Claimed(w, x) =>
           call'[w].pc = "claimed" /\ call'[w].fp = x /\ call'[w].answer = call[w].answer
      /\ \A x : Fail(w, x) =>
           call'[w].pc = "mark" /\ call'[w].fp = call[w].fp /\ call'[w].answer = call[w].answer
      /\ \A x, r : Reply(w, x, r) => call'[w].pc = "answered" /\ call'[w].answer.kind = x
      /\ call[w].pc # "answered" => call[w].answer.kind = "none"
      /\ "none" \notin Concluded /\ "answered" \notin Holding \cup {"takeover"}
      /\ "lost" \notin Concluded /\ "conflict" \notin Concluded
  BY RecordMoves, ConstantsAssumption DEF IInv, TypeOK, Concluded, Holding
<1>1. op[k].state # "absent" => op'[k].state # "absent" /\ op'[k].fp = op[k].fp
  BY <1>0, RowStays, FingerprintKept DEF IInv, HandlerInv
<1>2. /\ call[w].pc \in Holding \cup {"takeover"} =>
            op[k].state # "absent" /\ call[w].fp = op[k].fp /\ op[k].fp \in Candidates[w]
      /\ call[w].pc \in {"lookup", "takeover"} => op[k].state # "absent"
  BY DEF FingerprintInv, AskedInv, IInv, HandlerInv, CallInv, RowOf
<1>3. ASSUME call[w].pc \in Holding \cup {"takeover"}, call'[w].fp = call[w].fp,
             call'[w].answer = call[w].answer, call[w].pc # "answered"
      PROVE  Held /\ Quietly
  BY <1>0, <1>1, <1>2, <1>3
<1>4. CASE Claim(w)
  <2>1. CASE Arrive(w) \/ InsertDuplicate(w)
    BY <1>0, <2>1 DEF Arrive, InsertDuplicate, At, Holding
  <2>2. CASE InsertCreates(w)
    <3>1. op'[k].state = "IN_PROGRESS" /\ op'[k].fp = Current[w]
      BY <1>0, <2>2 DEF InsertCreates, SetRow
    <3>2. call'[w].fp = Current[w] /\ Quietly
      BY <1>0, <2>2 DEF InsertCreates, At
    <3> QED BY <1>0, <3>1, <3>2
  <2>3. CASE LookupConflict(w)
    BY <1>0, <1>1, <1>2, <2>3 DEF LookupConflict, FingerprintMatches, At, RowOf
  <2>4. CASE LookupReplaySuccess(w) \/ LookupReplayFailure(w) \/ LookupLeased(w)
    <3>1. /\ call'[w].pc = "answered" /\ call'[w].answer.kind \in Concluded
          /\ op[k].fp \in Candidates[w] /\ call[w].pc = "lookup"
      BY <1>0, <2>4 DEF LookupReplaySuccess, LookupReplayFailure, LookupLeased,
                        FingerprintMatches, At, RowOf, Concluded
    <3> QED BY <1>0, <1>1, <1>2, <3>1
  <2>5. CASE LookupExpired(w)
    <3>1. /\ call'[w].fp = op[k].fp /\ call'[w].answer = call[w].answer
          /\ call[w].pc = "lookup"
      BY <2>5 DEF LookupExpired, At, RowOf, IInv, TypeOK, Call
    <3> QED BY <1>0, <1>1, <1>2, <3>1
  <2>6. CASE TakeOver(w)
    BY <1>0, <1>3, <2>6 DEF TakeOver, At
  <2>7. CASE TakeOverLost(w)
    <3>1. call'[w].answer.kind = "in_progress" /\ call'[w].pc = "answered" /\ call[w].pc = "takeover"
      BY <1>0, <2>7 DEF TakeOverLost, At
    <3> QED BY <1>0, <1>1, <1>2, <3>1
  <2> QED BY <1>4, <2>1, <2>2, <2>3, <2>4, <2>5, <2>6, <2>7 DEF Claim
<1>5. CASE Execute(w)
  <2>0. call[w].pc \in Holding \cup {"takeover"} /\ call[w].pc # "answered"
    BY <1>5 DEF Execute, PrecheckFails, StartTaken, RowChangedMeanwhile, LockRow,
                OwnershipLost, Commit, CommitUnacknowledged, Reconcile, SerializationFailure,
                Rollback, Mark, MarkMatchesNothing, MarkErrs, At, Holding
  <2>1. CASE (\E v : Fail(w, v)) \/ Goto(w, "tx")
    BY <1>0, <1>3, <2>0, <2>1
  <2>2. ASSUME NEW kind \in Concluded, NEW r, Reply(w, kind, r)
        PROVE  /\ op'[k].state # "absent" /\ op'[k].fp \in Candidates[w]
               /\ call'[w].pc = "answered" /\ call'[w].answer.kind \in Concluded
    BY <1>0, <1>1, <1>2, <2>0, <2>2
  <2>3. /\ \A v : FailureKind(v) \in Concluded
        /\ "ok" \in Concluded /\ "failed_retryable" \in Concluded
    BY DEF FailureKind, Concluded
  <2>4. CASE \E kind \in Concluded, r \in Workers \cup {None} : Reply(w, kind, r)
    BY <1>0, <2>2, <2>4
  <2>5. CASE AttemptEnds(w)
    BY <1>0, <1>3, <2>0, <2>5, AttemptShape DEF IInv
  <2> QED BY <1>5, <2>1, <2>3, <2>4, <2>5
          DEF Execute, AttemptEnds, PrecheckFails, LockRow, OwnershipLost, Commit,
              CommitUnacknowledged, Reconcile, Rollback, Mark, MarkMatchesNothing, MarkErrs
<1>6. CASE Crash(w)
  BY <1>0, <1>6 DEF Crash
<1>7. CASE Retry(w)
  <2>1. call'[w] = NewCall
    BY <1>7 DEF Retry, IInv, TypeOK
  <2> QED BY <1>0, <2>1 DEF NewCall, NoAnswer, Holding
<1> QED BY <1>4, <1>5, <1>6, <1>7

LEMMA FingerprintStep ==
    ASSUME IInv, AskedInv, FingerprintInv, [Next]_vars
    PROVE  FingerprintInv'
<1>1. \A w \in Workers : KeyOf[w] \in Keys
  BY ConstantsAssumption
<1>2. ASSUME NEW v \in Workers, call'[v].pc = call[v].pc, call'[v].fp = call[v].fp,
             call'[v].answer = call[v].answer
      PROVE  /\ call'[v].pc \in Holding \cup {"takeover"} =>
                   op'[KeyOf[v]].state # "absent" /\ call'[v].fp = op'[KeyOf[v]].fp
             /\ call'[v].answer.kind = "conflict" =>
                   op'[KeyOf[v]].state # "absent" /\ op'[KeyOf[v]].fp \notin Candidates[v]
             /\ call'[v].answer.kind \in Concluded =>
                   op'[KeyOf[v]].state # "absent" /\ op'[KeyOf[v]].fp \in Candidates[v]
  <2>1. op[KeyOf[v]].state # "absent" =>
           op'[KeyOf[v]].state # "absent" /\ op'[KeyOf[v]].fp = op[KeyOf[v]].fp
    BY <1>1, RowStays, FingerprintKept DEF IInv, HandlerInv
  <2> QED BY <1>2, <2>1 DEF FingerprintInv, RowOf
<1>3. ASSUME NEW w \in Workers, Claim(w) \/ Execute(w) \/ Crash(w) \/ Retry(w)
      PROVE  FingerprintInv'
  <2>1. \A v \in Workers \ {w} : call'[v] = call[v]
    BY <1>3, CallMoves DEF IInv
  <2> QED BY <1>2, <1>3, <2>1, FingerprintOwn DEF FingerprintInv, RowOf
<1>4. CASE Tick
  <2>1. \A w \in Workers : call'[w].pc = call[w].pc /\ call'[w].answer = call[w].answer
                             /\ call'[w].fp = call[w].fp
    BY <1>4 DEF Tick, IInv, TypeOK, Call
  <2> QED BY <1>2, <2>1 DEF FingerprintInv, RowOf
<1>5. CASE UNCHANGED vars
  BY <1>5 DEF vars, FingerprintInv, RowOf
<1> QED BY <1>3, <1>4, <1>5 DEF Next

(* What calls of one key are told agrees, whatever secrets are rotated, lost *)
(* or taken over between them (claimInternalBotOperationIdempotency compares *)
(* with the fingerprint the row was created with, and no one writes it).     *)
THEOREM AnswersOfAKeyAgree == Spec => []AnswersAgree
<1>1. Init => FingerprintInv
  BY DEF Init, FingerprintInv, NewCall, NoAnswer, Holding, Concluded
<1>2. IInv /\ AskedInv /\ FingerprintInv /\ [Next]_vars => FingerprintInv'
  BY FingerprintStep
<1>3. IInv /\ FingerprintInv => AnswersAgree
  <2>1. SUFFICES ASSUME IInv, FingerprintInv, NEW v \in Workers, NEW w \in Workers, KeyOf[v] = KeyOf[w]
                 PROVE  /\ call[v].answer.kind = "ok" /\ call[w].answer.kind = "ok"
                              => call[v].answer.result = call[w].answer.result
                        /\ call[v].answer.kind = "conflict" /\ call[w].answer.kind \in Concluded
                              => Candidates[v] # Candidates[w]
    BY DEF AnswersAgree
  <2>2. ASSUME call[v].answer.kind = "ok", call[w].answer.kind = "ok"
        PROVE  call[v].answer.result = call[w].answer.result
    <3>0. OkIsTruthful
      BY <2>1 DEF IInv
    <3>1. PICK x \in Workers : call[v].answer.result = x /\ effects[KeyOf[v]] = <<x>>
      BY <2>2, <3>0 DEF OkIsTruthful
    <3>2. PICK y \in Workers : call[w].answer.result = y /\ effects[KeyOf[w]] = <<y>>
      BY <2>2, <3>0 DEF OkIsTruthful
    <3>3. <<x>> = <<y>> /\ <<x>>[1] = x /\ <<y>>[1] = y
      BY <2>1, <3>1, <3>2
    <3> QED BY <3>1, <3>2, <3>3
  <2> QED BY <2>1, <2>2 DEF FingerprintInv, RowOf
<1> QED BY <1>1, <1>2, <1>3, AskedInvariance, PTL DEF Spec

-------------------------------------------------------------------------------
(***************************************************************************)
(* The row lock and the claim.  A lock is held by a running transaction or *)
(* by nobody, so who waits for a row waits for a call that waits for none. *)
(***************************************************************************)
NoLockIsLeft == \A k \in Keys : lock[k] # None => KeyOf[lock[k]] = k /\ At(lock[k], "tx")

LEMMA NoLockStep ==
    ASSUME TypeOK, NoLockIsLeft, [Next]_vars
    PROVE  NoLockIsLeft'
<1>0. /\ lock \in [Keys -> Workers \cup {None}] /\ call \in [Workers -> Call]
      /\ \A w \in Workers : KeyOf[w] \in Keys
  BY ConstantsAssumption DEF TypeOK
<1>1. ASSUME NEW w \in Workers, Claim(w) \/ Execute(w) \/ Crash(w) \/ Retry(w)
      PROVE  NoLockIsLeft'
  <2>1. \A v \in Workers \ {w} : call'[v] = call[v]
    BY <1>1, CallMoves
  <2>2. SUFFICES ASSUME NEW k \in Keys, lock'[k] # None
                 PROVE  KeyOf[lock'[k]] = k /\ call'[lock'[k]].pc = "tx"
    BY DEF NoLockIsLeft, At
  <2>3. CASE LockRow(w)
    <3>1. call'[w].pc = "tx"
      BY <1>0, <2>3 DEF LockRow, Goto, Call
    <3>2. lock' = [lock EXCEPT ![KeyOf[w]] = w]
      BY <2>3 DEF LockRow
    <3> QED BY <1>0, <2>1, <2>2, <3>1, <3>2 DEF NoLockIsLeft, At
  <2>4. CASE lock' = lock /\ ~At(w, "tx")
    BY <1>0, <2>1, <2>2, <2>4 DEF NoLockIsLeft, At
  <2>5. CASE EndTransaction(w)
    BY <1>0, <2>1, <2>2, <2>5 DEF NoLockIsLeft, At, EndTransaction
  <2>6. CASE Crash(w)
    BY <1>0, <2>1, <2>2, <2>6 DEF NoLockIsLeft, At, Crash
  <2>7. CASE AttemptEnds(w)
    <3>1. (lock' = lock /\ ~At(w, "tx")) \/ EndTransaction(w)
      BY <2>7, AttemptShape DEF At
    <3> QED BY <2>4, <2>5, <3>1
  <2> QED BY <1>1, <2>3, <2>4, <2>5, <2>6, <2>7
          DEF Claim, Execute, AttemptEnds, Retry, At, Arrive, InsertCreates, InsertDuplicate, LookupConflict,
              LookupReplaySuccess, LookupReplayFailure, LookupLeased, LookupExpired, TakeOver,
              TakeOverLost, PrecheckFails, OwnershipLost, Commit, CommitUnacknowledged, Commits,
              Reconcile, Rollback, Mark, MarkMatchesNothing, MarkErrs
<1>2. CASE Tick
  BY <1>0, <1>2 DEF Tick, NoLockIsLeft, At, Call
<1>3. CASE UNCHANGED vars
  BY <1>3 DEF vars, NoLockIsLeft, At
<1> QED BY <1>1, <1>2, <1>3 DEF Next

LEMMA NoLockInvariance == Spec => [](IInv /\ NoLockIsLeft)
<1>1. Init => NoLockIsLeft
  BY DEF Init, NoLockIsLeft
<1>2. IInv /\ NoLockIsLeft /\ [Next]_vars => NoLockIsLeft'
  BY NoLockStep DEF IInv
<1> QED BY <1>1, <1>2, Invariance, PTL DEF Spec

(* A row lock never outlives its transaction and never waits for another:    *)
(* whoever holds an operation's row is between its FOR UPDATE and its commit *)
(* or rollback, on that very row, crashes included.                          *)
THEOREM NoLockIsLeftBehind == Spec => []NoLockIsLeft
BY NoLockInvariance, PTL

(* What a row says, its lease aside (time runs for everybody). *)
Entry(row) == <<row.state, row.owner, row.fp, row.result>>

(* A row and its effects change by the step of one call of the key, past no  *)
(* open transaction of another: one that owns the claim, or one that takes   *)
(* it, from nobody or when the lease is over by its own clock, and then      *)
(* executes nothing yet.                                                     *)
OnlyTheClaimantActs ==
    [][\A k \in Keys : Entry(op'[k]) # Entry(op[k]) \/ effects'[k] # effects[k] =>
          \E w \in Workers :
             /\ KeyOf[w] = k /\ call'[w] # call[w]
             /\ lock[k] \in {None, w}
             /\ \/ op[k].state = "IN_PROGRESS" /\ op[k].owner = w
                \/ /\ op'[k].owner = w /\ effects'[k] = effects[k]
                   /\ \/ op[k].state = "absent"
                      \/ op[k].state \notin Settled /\ LeaseExpired(w, op[k])]_vars

LEMMA PcAfter ==
    ASSUME TypeOK, NEW w \in Workers
    PROVE  /\ \A kind, r : Reply(w, kind, r) => call'[w].pc = "answered"
           /\ \A fp : Claimed(w, fp) => call'[w].pc = "claimed"
           /\ \A v : Fail(w, v) => call'[w].pc = "mark"
           /\ \A pc : Goto(w, pc) => call'[w].pc = pc
<1>0. call \in [Workers -> Call] /\ w \in DOMAIN call /\ "pc" \in DOMAIN call[w]
  BY DEF TypeOK, Call
<1>1. ASSUME NEW kind, NEW r, Reply(w, kind, r) PROVE call'[w].pc = "answered"
  BY <1>0, <1>1 DEF Reply, Answered
<1>2. ASSUME NEW fp, Claimed(w, fp) PROVE call'[w].pc = "claimed"
  <2>0. call[w] \in Call
    BY <1>0
  <2> QED BY <1>0, <2>0, <1>2 DEF Claimed, Call
<1>3. ASSUME NEW v, Fail(w, v) PROVE call'[w].pc = "mark"
  <2>0. call[w] \in Call
    BY <1>0
  <2> QED BY <1>0, <2>0, <1>3 DEF Fail, Call
<1>4. ASSUME NEW pc, Goto(w, pc) PROVE call'[w].pc = pc
  <2>0. call[w] \in Call
    BY <1>0
  <2> QED BY <1>0, <2>0, <1>4 DEF Goto, Call
<1> QED BY <1>1, <1>2, <1>3, <1>4

LEMMA ClaimantStep ==
    ASSUME IInv, NoLockIsLeft, [Next]_vars, NEW k \in Keys,
           Entry(op'[k]) # Entry(op[k]) \/ effects'[k] # effects[k]
    PROVE  \E w \in Workers :
             /\ KeyOf[w] = k /\ call'[w] # call[w]
             /\ lock[k] \in {None, w}
             /\ \/ op[k].state = "IN_PROGRESS" /\ op[k].owner = w
                \/ /\ op'[k].owner = w /\ effects'[k] = effects[k]
                   /\ \/ op[k].state = "absent"
                      \/ op[k].state \notin Settled /\ LeaseExpired(w, op[k])
<1>0. /\ op \in [Keys -> Row] /\ effects \in [Keys -> Seq(Workers)]
      /\ lock \in [Keys -> Workers \cup {None}] /\ call \in [Workers -> Call]
      /\ \A w \in Workers : KeyOf[w] \in Keys
  BY ConstantsAssumption DEF IInv, TypeOK
<1>1. ASSUME op'[k] = op[k], effects'[k] = effects[k] PROVE FALSE
  BY <1>1
<1>2. ASSUME NEW w \in Workers, NEW row, SetRow(w, row) PROVE KeyOf[w] = k \/ op'[k] = op[k]
  BY <1>0, <1>2 DEF SetRow
<1>3. \A w \in Workers : /\ \A kind, r : Reply(w, kind, r) => call'[w].pc = "answered"
                         /\ \A fp : Claimed(w, fp) => call'[w].pc = "claimed"
                         /\ \A v : Fail(w, v) => call'[w].pc = "mark"
  BY PcAfter DEF IInv
<1>4. \A w \in Workers : At(w, "tx") => /\ lock[KeyOf[w]] = w
                                        /\ op[KeyOf[w]].state = "IN_PROGRESS"
                                        /\ op[KeyOf[w]].owner = w
  BY DEF IInv, HandlerInv, LockInv, At, Owns
<1>5. op[k].state = "absent" => lock[k] = None
  BY <1>0, <1>4 DEF NoLockIsLeft
<1>6. ASSUME NEW w \in Workers, Claim(w)
      PROVE  \E v \in Workers :
               /\ KeyOf[v] = k /\ call'[v] # call[v] /\ lock[k] \in {None, v}
               /\ op'[k].owner = v /\ effects'[k] = effects[k]
               /\ op[k].state = "absent" \/ (op[k].state \notin Settled /\ LeaseExpired(v, op[k]))
  <2>1. CASE InsertCreates(w)
    <3>1. KeyOf[w] = k
      BY <1>1, <1>2, <2>1 DEF InsertCreates
    <3>2. call'[w].pc = "claimed" /\ call[w].pc = "insert" /\ op[k].state = "absent" /\ effects' = effects
      BY <1>3, <2>1, <3>1 DEF InsertCreates, At, RowOf
    <3>3. op'[k].owner = w
      BY <1>0, <2>1, <3>1 DEF InsertCreates, SetRow
    <3> QED BY <1>5, <3>1, <3>2, <3>3
  <2>2. CASE TakeOver(w)
    <3>1. KeyOf[w] = k
      BY <1>1, <1>2, <2>2 DEF TakeOver
    <3>2. /\ call'[w].pc = "claimed" /\ call[w].pc = "takeover" /\ effects' = effects
          /\ lock[k] = None /\ op[k].state \notin Settled /\ LeaseExpired(w, op[k])
      BY <1>3, <2>2, <3>1 DEF TakeOver, At, RowOf, Unlocked, MayTakeOver, Settled
    <3>3. op'[k].owner = w
      BY <1>0, <2>2, <3>1 DEF TakeOver, SetRow, RowOf, Row
    <3> QED BY <3>1, <3>2, <3>3
  <2>3. CASE op' = op /\ effects' = effects
    BY <1>1, <2>3
  <2> QED BY <1>6, <2>1, <2>2, <2>3
          DEF Claim, Arrive, InsertDuplicate, LookupConflict, LookupReplaySuccess,
              LookupReplayFailure, LookupLeased, LookupExpired, TakeOverLost
<1>7. ASSUME NEW w \in Workers, Execute(w)
      PROVE  \E v \in Workers :
               /\ KeyOf[v] = k /\ call'[v] # call[v] /\ lock[k] \in {None, v}
               /\ op[k].state = "IN_PROGRESS" /\ op[k].owner = v
  <2>1. CASE Commit(w) \/ CommitUnacknowledged(w)
    <3>1. At(w, "tx") /\ Commits(w) /\ call'[w].pc # "tx"
      BY <1>3, <2>1 DEF Commit, CommitUnacknowledged
    <3>2. KeyOf[w] = k
      <4>1. KeyOf[w] # k => op'[k] = op[k] /\ effects'[k] = effects[k]
        BY <1>0, <3>1 DEF Commits, SetRow
      <4> QED BY <1>1, <4>1
    <3> QED BY <1>4, <3>1, <3>2 DEF At
  <2>2. CASE Reconcile(w)
    <3>1. At(w, "tx") /\ call'[w].pc # "tx" /\ effects' = effects
      BY <1>3, <2>2 DEF Reconcile
    <3>2. KeyOf[w] = k
      BY <1>1, <1>2, <2>2, <3>1 DEF Reconcile
    <3> QED BY <1>4, <3>1, <3>2 DEF At
  <2>3. CASE Mark(w)
    <3>1. call[w].pc = "mark" /\ call'[w].pc = "answered" /\ effects' = effects
      BY <1>3, <2>3 DEF Mark, At
    <3>2. KeyOf[w] = k
      BY <1>1, <1>2, <2>3, <3>1 DEF Mark
    <3>3. lock[k] = None /\ op[k].state = "IN_PROGRESS" /\ op[k].owner = w
      BY <2>3, <3>2 DEF Mark, MayMark, Owns, RowOf, Unlocked
    <3> QED BY <3>1, <3>2, <3>3
  <2>4. CASE op' = op /\ effects' = effects
    BY <1>1, <2>4
  <2>5. CASE AttemptEnds(w)
    BY <2>4, <2>5, AttemptShape DEF IInv
  <2> QED BY <1>7, <2>1, <2>2, <2>3, <2>4, <2>5
          DEF Execute, AttemptEnds, PrecheckFails, LockRow, OwnershipLost, Rollback, MarkMatchesNothing, MarkErrs
<1>8. ASSUME NEW w \in Workers, Crash(w) \/ Retry(w) PROVE FALSE
  BY <1>1, <1>8 DEF Crash, Retry
<1>9. CASE Tick
  <2>1. PICK row \in Row : row = op[k]
    BY <1>0
  <2>2. PICK left \in -MaxAge .. Lease : left = Older(row.left)
    BY OlderRange
  <2>3. op'[k] = [row EXCEPT !.left = left]
    BY <1>9, <2>1, <2>2 DEF Tick
  <2>4. Entry(op'[k]) = Entry(op[k])
    BY <2>1, <2>3 DEF Entry, Row
  <2> QED BY <1>9, <2>4 DEF Tick
<1>10. CASE UNCHANGED vars
  BY <1>1, <1>10 DEF vars
<1> QED BY <1>6, <1>7, <1>8, <1>9, <1>10 DEF Next

(* A call whose claim has been taken over, or was never its own, changes     *)
(* nothing any more: neither the row nor what is done under its key (the     *)
(* ownership check on the locked row, the WHERE of the takeover and of the   *)
(* failure mark).                                                            *)
THEOREM ClaimsAreFenced == Spec => OnlyTheClaimantActs
<1>1. IInv /\ NoLockIsLeft /\ [Next]_vars =>
        [\A k \in Keys : Entry(op'[k]) # Entry(op[k]) \/ effects'[k] # effects[k] =>
          \E w \in Workers :
             /\ KeyOf[w] = k /\ call'[w] # call[w]
             /\ lock[k] \in {None, w}
             /\ \/ op[k].state = "IN_PROGRESS" /\ op[k].owner = w
                \/ /\ op'[k].owner = w /\ effects'[k] = effects[k]
                   /\ \/ op[k].state = "absent"
                      \/ op[k].state \notin Settled /\ LeaseExpired(w, op[k])]_vars
  BY ClaimantStep
<1> QED BY <1>1, NoLockInvariance, PTL DEF Spec, OnlyTheClaimantActs

-------------------------------------------------------------------------------
(* How many steps of its own a call may still take before its answer: an     *)
(* attempt of its transaction takes two, a FOR UPDATE and its end, and       *)
(* MaxTries - 1 - c.failed attempts may still follow the present one.        *)
Left(c) ==
    CASE c.pc = "idle" -> 2 * MaxTries + 5
      [] c.pc = "insert" -> 2 * MaxTries + 4
      [] c.pc = "lookup" -> 2 * MaxTries + 3
      [] c.pc = "takeover" -> 2 * MaxTries + 2
      [] c.pc = "claimed" -> 2 * (MaxTries - 1 - c.failed) + 3
      [] c.pc = "tx" -> 2 * (MaxTries - 1 - c.failed) + 2
      [] c.pc = "mark" -> 1
      [] OTHER -> 0

(* Time passes, the bot sends again what was not settled, or one call comes  *)
(* nearer to its answer, also when its transaction has to be repeated; the   *)
(* others stay where they are.                                               *)
CallsDescend ==
    [][Tick \/ \E w \in Workers :
                  /\ Left(call'[w]) \in 0 .. Left(call[w]) - 1 \/ Retry(w)
                  /\ \A v \in Workers \ {w} : call'[v] = call[v]]_vars

LEMMA LeftAt ==
    ASSUME NEW c \in Call
    PROVE  /\ c.pc = "idle" => Left(c) = 2 * MaxTries + 5
           /\ c.pc = "insert" => Left(c) = 2 * MaxTries + 4
           /\ c.pc = "lookup" => Left(c) = 2 * MaxTries + 3
           /\ c.pc = "takeover" => Left(c) = 2 * MaxTries + 2
           /\ c.pc = "claimed" => Left(c) = 2 * (MaxTries - 1 - c.failed) + 3
           /\ c.pc = "tx" => Left(c) = 2 * (MaxTries - 1 - c.failed) + 2
           /\ c.pc = "mark" => Left(c) = 1
           /\ c.pc = "answered" => Left(c) = 0
           /\ c.failed \in 0 .. MaxTries - 1 /\ MaxTries \in Nat /\ c.pc \in PCs
  BY ConstantsAssumption DEF Left, Call

LEMMA Descends ==
    ASSUME TypeOK, VerdictInv, [Next]_vars, NEW w \in Workers,
           Claim(w) \/ Execute(w) \/ Crash(w)
    PROVE  Left(call'[w]) \in 0 .. Left(call[w]) - 1
<1>0. call \in [Workers -> Call] /\ call[w] \in Call /\ call'[w] \in Call
  BY TypeStep DEF TypeOK
<1>1. \A c \in Call :
        /\ c.pc = "idle" => Left(c) = 2 * MaxTries + 5
        /\ c.pc = "insert" => Left(c) = 2 * MaxTries + 4
        /\ c.pc = "lookup" => Left(c) = 2 * MaxTries + 3
        /\ c.pc = "takeover" => Left(c) = 2 * MaxTries + 2
        /\ c.pc = "claimed" => Left(c) = 2 * (MaxTries - 1 - c.failed) + 3
        /\ c.pc = "tx" => Left(c) = 2 * (MaxTries - 1 - c.failed) + 2
        /\ c.pc = "mark" => Left(c) = 1
        /\ c.pc = "answered" => Left(c) = 0
        /\ c.failed \in 0 .. MaxTries - 1 /\ MaxTries \in Nat /\ c.pc \in PCs
  BY LeftAt
<1>2. /\ \A kind, r : Reply(w, kind, r) => call'[w].pc = "answered"
      /\ \A fp : Claimed(w, fp) => call'[w].pc = "claimed"
      /\ \A v : Fail(w, v) => call'[w].pc = "mark"
      /\ \A pc : Goto(w, pc) => call'[w].pc = pc
  BY PcAfter
<1>3. CASE Claim(w)
  <2>1. \/ call[w].pc = "idle" /\ call'[w].pc = "insert"
        \/ call[w].pc = "insert" /\ call'[w].pc \in {"claimed", "lookup"}
        \/ call[w].pc = "lookup" /\ call'[w].pc \in {"answered", "takeover"}
        \/ call[w].pc = "takeover" /\ call'[w].pc \in {"claimed", "answered"}
    <3>1. CASE LookupExpired(w)
      BY <1>0, <3>1 DEF LookupExpired, At, Call
    <3> QED BY <1>2, <1>3, <3>1
            DEF Claim, At, Arrive, InsertCreates, InsertDuplicate, LookupConflict,
                LookupReplaySuccess, LookupReplayFailure, LookupLeased, TakeOver, TakeOverLost
  <2> QED BY <1>0, <1>1, <2>1
<1>4. CASE LockRow(w)
  <2>1. /\ call[w].pc = "claimed" /\ call'[w].pc = "tx"
        /\ call'[w].failed = call[w].failed
    BY <1>0, <1>4 DEF LockRow, At, Goto, Call
  <2> QED BY <1>0, <1>1, <2>1
<1>5. CASE AttemptEnds(w)
  <2>1. /\ call[w].pc \in {"claimed", "tx"}
        /\ \/ call'[w].pc = "claimed" /\ call'[w].failed = call[w].failed + 1
           \/ call'[w].pc = "mark"
    BY <1>2, <1>5, AttemptShape DEF At, Retried
  <2> QED BY <1>0, <1>1, <2>1
<1>6. CASE Execute(w) /\ ~LockRow(w) /\ ~AttemptEnds(w)
  <2>1. \/ call[w].pc = "claimed" /\ call'[w].pc = "mark"
        \/ call[w].pc = "tx" /\ call'[w].pc \in {"mark", "answered"}
        \/ call[w].pc = "mark" /\ call'[w].pc = "answered"
    BY <1>2, <1>6
       DEF Execute, AttemptEnds, At, PrecheckFails, OwnershipLost, Commit,
           CommitUnacknowledged, Reconcile, Rollback, Mark, MarkMatchesNothing, MarkErrs
  <2> QED BY <1>0, <1>1, <2>1
<1>7. CASE Crash(w)
  <2>1. call'[w].pc = "answered" /\ call[w].pc \in PCs \ {"idle", "answered"}
    BY <1>0, <1>2, <1>7 DEF Crash, Call
  <2> QED BY <1>0, <1>1, <2>1 DEF PCs, Claiming, Holding
<1> QED BY <1>3, <1>4, <1>5, <1>6, <1>7

(* No call goes round for ever: whatever the others do to its row, a call    *)
(* that has arrived is answered after at most 2 * MaxTries + 4 steps of its  *)
(* own, two for each of its MaxTries attempts at the transaction             *)
(* (runSerializableAppointmentWrite) and four around them.                   *)
THEOREM EveryStepIsProgress == Spec => CallsDescend
<1>1. IInv /\ [Next]_vars =>
        [Tick \/ \E w \in Workers :
                    /\ Left(call'[w]) \in 0 .. Left(call[w]) - 1 \/ Retry(w)
                    /\ \A v \in Workers \ {w} : call'[v] = call[v]]_vars
  BY Descends, CallMoves DEF Next, IInv, HandlerInv
<1> QED BY <1>1, Invariance, PTL DEF Spec, CallsDescend
===============================================================================
