----------------------------- MODULE BotOperation -----------------------------
(***************************************************************************)
(* The durable idempotency protocol of the internal bot API: every bot     *)
(* mutation (booking create, booking-request book, the six master          *)
(* commands) claims a row of internal_bot_booking_operations, checks its   *)
(* preconditions, runs a Serializable transaction that locks the row,      *)
(* performs the mutation and marks the row SUCCEEDED, tries it again when  *)
(* it could not be serialized, and on failure marks the row FAILED_FINAL   *)
(* or FAILED_RETRYABLE in a statement of its own.                          *)
(*                                                                         *)
(* A worker is one client of the API with at most one call under way; a    *)
(* lease owner is named by the worker, whose earlier call is over when it  *)
(* claims again.  Time is relative: "left" is leaseExpiresAt minus the     *)
(* present, "age" is the present minus the `now` the call captured when it *)
(* entered the claim.                                                      *)
(***************************************************************************)
EXTENDS Integers, Sequences

CONSTANTS
    Keys,           \* (operationKind, idempotencyKey) pairs
    Workers,        \* callers of the internal API
    Fingerprints,   \* HMAC fingerprints
    Payloads,       \* canonical payloads
    RequestKeys,    \* those of bookBotBookingRequest
    KeyOf,          \* [Workers -> Keys]: the key a worker sends
    Payload,        \* [Workers -> Payloads]: the payload a worker sends
    Current,        \* [Workers -> Fingerprints]: payload under the current secret
    Candidates,     \* [Workers -> SUBSET Fingerprints]: current and previous secrets
    Signs,          \* [Fingerprints -> Payloads]: the payload a fingerprint signs
    Lease,          \* INTERNAL_BOT_OPERATION_IDEMPOTENCY_LEASE_MS in ticks
    MaxAge,         \* bound: ticks between capturing `now` and the last claim statement
    MaxTries,       \* APPOINTMENT_WRITE_SERIALIZABLE_RETRIES
    MaxCrashes,     \* bound: process crashes in a behaviour
    None            \* no owner / no result

(* HMAC-SHA256 does not collide: a worker recognises a fingerprint only of *)
(* its own payload, whatever secret signed it.                             *)
ASSUME ConstantsAssumption ==
    /\ RequestKeys \subseteq Keys
    /\ KeyOf \in [Workers -> Keys]
    /\ Payload \in [Workers -> Payloads]
    /\ Current \in [Workers -> Fingerprints]
    /\ Candidates \in [Workers -> SUBSET Fingerprints]
    /\ Signs \in [Fingerprints -> Payloads]
    /\ \A w \in Workers : Current[w] \in Candidates[w]
    /\ \A w \in Workers : \A f \in Candidates[w] : Signs[f] = Payload[w]
    /\ Lease \in Nat \ {0}
    /\ MaxAge \in Nat
    /\ MaxTries \in Nat \ {0}
    /\ MaxCrashes \in Nat
    /\ None \notin Workers \cup Fingerprints

VARIABLES
    op,         \* [Keys -> row]: internal_bot_booking_operations
    lock,       \* [Keys -> worker or None]: who holds the row FOR UPDATE
    call,       \* [Workers -> call]: each worker's handler
    effects,    \* [Keys -> Seq(Workers)]: mutations committed under a key
    crashes     \* crashes so far

vars == <<op, lock, call, effects, crashes>>

States == {"absent", "IN_PROGRESS", "SUCCEEDED", "FAILED_RETRYABLE", "FAILED_FINAL"}
Settled == {"SUCCEEDED", "FAILED_FINAL"}
Verdicts == {"FAILED_RETRYABLE", "FAILED_FINAL"}
AnswerKinds == {"none", "ok", "conflict", "in_progress", "failed_retryable",
                "failed_final", "lost"}
Claiming == {"insert", "lookup", "takeover"}
Holding == {"claimed", "tx", "mark"}
PCs == {"idle", "answered"} \cup Claiming \cup Holding

NullLease == -MaxAge        \* a NULL lease counts as expired, whatever `now` is

Row == [state : States, owner : Workers \cup {None}, left : -MaxAge .. Lease,
        fp : Fingerprints \cup {None}, result : Workers \cup {None}]
Call == [pc : PCs, age : 0 .. MaxAge, fp : Fingerprints \cup {None},
         failed : 0 .. MaxTries - 1,
         verdict : Verdicts \cup {"none"},
         answer : [kind : AnswerKinds, result : Workers \cup {None}]]

TypeOK ==
    /\ op \in [Keys -> Row]
    /\ lock \in [Keys -> Workers \cup {None}]
    /\ call \in [Workers -> Call]
    /\ effects \in [Keys -> Seq(Workers)]
    /\ crashes \in 0 .. MaxCrashes

NoAnswer == [kind |-> "none", result |-> None]
NewCall == [pc |-> "idle", age |-> 0, fp |-> None, failed |-> 0, verdict |-> "none",
            answer |-> NoAnswer]

Init ==
    /\ op = [k \in Keys |-> [state |-> "absent", owner |-> None, left |-> NullLease,
                             fp |-> None, result |-> None]]
    /\ lock = [k \in Keys |-> None]
    /\ call = [w \in Workers |-> NewCall]
    /\ effects = [k \in Keys |-> <<>>]
    /\ crashes = 0

(* The row a worker works on. *)
RowOf(w) == op[KeyOf[w]]
At(w, pc) == call[w].pc = pc
Unlocked(w) == lock[KeyOf[w]] = None

Goto(w, pc) == call' = [call EXCEPT ![w] = [@ EXCEPT !.pc = pc]]
SetRow(w, row) == op' = [op EXCEPT ![KeyOf[w]] = row]

(* The handler returns: what it learnt on the way is gone, the answer stays. *)
Answered(kind, result) ==
    [pc |-> "answered", age |-> 0, fp |-> None, failed |-> 0, verdict |-> "none",
     answer |-> [kind |-> kind, result |-> result]]
Reply(w, kind, result) == call' = [call EXCEPT ![w] = Answered(kind, result)]

(* Claimed with the row's fingerprint as persistedFingerprint. *)
Claimed(w, fp) ==
    call' = [call EXCEPT ![w] = [@ EXCEPT !.pc = "claimed", !.age = 0, !.fp = fp]]

(* Mutant: the age of the captured `now` counted the wrong way. *)
ClaimLeaseOfTheFuture(w) == Lease + call[w].age

(* leaseExpiresAt of a claim: the captured `now`, which may be old, + lease. *)
ClaimLease(w) == Lease - call[w].age

LeaseExpired(w, row) == row.left <= -call[w].age

(* Mutants of the takeover's WHERE: no condition on the state; one that only *)
(* spares SUCCEEDED; lt for lte; retryable failures only.                    *)
TakeOverInAnyState(w, row) == LeaseExpired(w, row)
TakeOverUnlessSucceeded(w, row) == row.state # "SUCCEEDED" /\ LeaseExpired(w, row)
TakeOverStrictlyLater(w, row) ==
    row.state \in {"IN_PROGRESS", "FAILED_RETRYABLE"} /\ row.left < -call[w].age
TakeOverFailuresOnly(w, row) ==
    row.state = "FAILED_RETRYABLE" /\ LeaseExpired(w, row)

(* The WHERE of the conditional updateMany that takes a claim over. *)
MayTakeOver(w, row) ==
    /\ row.state \in {"IN_PROGRESS", "FAILED_RETRYABLE"}
    /\ LeaseExpired(w, row)

(* Mutant: a key alone identifies the request. *)
AnyFingerprintMatches(w, row) == row.fp # None

FingerprintMatches(w, row) == row.fp \in Candidates[w]

(* The transaction's ownership check, on the locked row. *)
Owns(w, row) ==
    /\ row.state = "IN_PROGRESS"
    /\ row.owner = w
    /\ row.fp = call[w].fp

-------------------------------------------------------------------------------
(* Claim *)

Arrive(w) ==
    /\ At(w, "idle")
    /\ Goto(w, "insert")
    /\ UNCHANGED <<op, lock, effects, crashes>>

InsertCreates(w) ==
    /\ At(w, "insert")
    /\ RowOf(w).state = "absent"
    /\ SetRow(w, [state |-> "IN_PROGRESS", owner |-> w, left |-> ClaimLease(w),
                  fp |-> Current[w], result |-> None])
    /\ Claimed(w, Current[w])
    /\ UNCHANGED <<lock, effects, crashes>>

(* P2002 on (operationKind, idempotencyKey) *)
InsertDuplicate(w) ==
    /\ At(w, "insert")
    /\ RowOf(w).state # "absent"
    /\ Goto(w, "lookup")
    /\ UNCHANGED <<op, lock, effects, crashes>>

(* findUnique, an unlocked read, and the decisions taken on what it saw *)
LookupConflict(w) ==
    /\ At(w, "lookup")
    /\ ~FingerprintMatches(w, RowOf(w))
    /\ Reply(w, "conflict", None)
    /\ UNCHANGED <<op, lock, effects, crashes>>

LookupReplaySuccess(w) ==
    /\ At(w, "lookup")
    /\ FingerprintMatches(w, RowOf(w))
    /\ RowOf(w).state = "SUCCEEDED"
    /\ Reply(w, "ok", RowOf(w).result)
    /\ UNCHANGED <<op, lock, effects, crashes>>

LookupReplayFailure(w) ==
    /\ At(w, "lookup")
    /\ FingerprintMatches(w, RowOf(w))
    /\ RowOf(w).state = "FAILED_FINAL"
    /\ Reply(w, "failed_final", None)
    /\ UNCHANGED <<op, lock, effects, crashes>>

LookupLeased(w) ==
    /\ At(w, "lookup")
    /\ FingerprintMatches(w, RowOf(w))
    /\ RowOf(w).state \notin Settled
    /\ ~LeaseExpired(w, RowOf(w))
    /\ Reply(w, "in_progress", None)
    /\ UNCHANGED <<op, lock, effects, crashes>>

LookupExpired(w) ==
    /\ At(w, "lookup")
    /\ FingerprintMatches(w, RowOf(w))
    /\ RowOf(w).state \notin Settled
    /\ LeaseExpired(w, RowOf(w))
    /\ call' = [call EXCEPT ![w] = [@ EXCEPT !.pc = "takeover", !.fp = RowOf(w).fp]]
    /\ UNCHANGED <<op, lock, effects, crashes>>

(* The conditional update waits for a transaction that holds the row and   *)
(* then evaluates its WHERE on the row as it is now.                       *)
TakeOver(w) ==
    /\ At(w, "takeover")
    /\ Unlocked(w)
    /\ MayTakeOver(w, RowOf(w))
    /\ SetRow(w, [RowOf(w) EXCEPT !.state = "IN_PROGRESS", !.owner = w,
                                  !.left = ClaimLease(w), !.result = None])
    /\ Claimed(w, call[w].fp)
    /\ UNCHANGED <<lock, effects, crashes>>

TakeOverLost(w) ==
    /\ At(w, "takeover")
    /\ Unlocked(w)
    /\ ~MayTakeOver(w, RowOf(w))
    /\ Reply(w, "in_progress", None)
    /\ UNCHANGED <<op, lock, effects, crashes>>

-------------------------------------------------------------------------------
(* Preconditions, attempts of the transaction, failure mark *)

Fail(w, verdict) ==
    call' = [call EXCEPT ![w] = [@ EXCEPT !.pc = "mark", !.failed = 0, !.verdict = verdict]]

(* A check between claim and transaction refuses (slot gone, service not    *)
(* bookable, legal documents not published) or errs.                        *)
PrecheckFails(w) ==
    /\ At(w, "claimed")
    /\ call[w].failed = 0
    /\ \E v \in Verdicts : Fail(w, v)
    /\ UNCHANGED <<op, lock, effects, crashes>>

(* What a call that could not be serialized may come to: an internal error,  *)
(* hence retryable; a booking creation looks whether its start has been      *)
(* taken, perhaps by the call that took it over, and then refuses for good.  *)
UnserializedVerdicts(w) ==
    IF KeyOf[w] \in RequestKeys THEN {"FAILED_RETRYABLE"} ELSE Verdicts

(* P2034 or 40001: a fresh attempt, up to MaxTries of them.                   *)
TryAgain(w) ==
    IF call[w].failed + 1 < MaxTries
    THEN call' = [call EXCEPT ![w] =
                    [@ EXCEPT !.pc = "claimed", !.failed = call[w].failed + 1]]
    ELSE \E v \in UnserializedVerdicts(w) : Fail(w, v)

(* Between two attempts: the start is taken, or the database does not answer. *)
StartTaken(w) ==
    /\ At(w, "claimed")
    /\ call[w].failed > 0
    /\ \E v \in UnserializedVerdicts(w) : Fail(w, v)
    /\ UNCHANGED <<op, lock, effects, crashes>>

(* The FOR UPDATE waited for a row that has changed since the attempt's       *)
(* snapshot: whoever changed it has taken or had taken the claim.             *)
RowChangedMeanwhile(w) ==
    /\ At(w, "claimed")
    /\ ~Owns(w, RowOf(w))
    /\ TryAgain(w)
    /\ UNCHANGED <<op, lock, effects, crashes>>

(* SELECT ... FOR UPDATE, first in every attempt, on the row of its snapshot. *)
LockRow(w) ==
    /\ At(w, "claimed")
    /\ Unlocked(w)
    /\ Owns(w, RowOf(w))
    /\ lock' = [lock EXCEPT ![KeyOf[w]] = w]
    /\ Goto(w, "tx")
    /\ UNCHANGED <<op, effects, crashes>>

(* The claim was taken over or settled: IDEMPOTENCY_IN_PROGRESS, not final. *)
OwnershipLost(w) ==
    /\ At(w, "claimed")
    /\ Unlocked(w)
    /\ ~Owns(w, RowOf(w))
    /\ Fail(w, "FAILED_RETRYABLE")
    /\ UNCHANGED <<op, lock, effects, crashes>>

(* Mutant: the transaction is left open. *)
LeaveTransactionOpen(w) == UNCHANGED lock

EndTransaction(w) == lock' = [lock EXCEPT ![KeyOf[w]] = None]

(* The mutation and SUCCEEDED in one commit. *)
Commits(w) ==
    /\ SetRow(w, [RowOf(w) EXCEPT !.state = "SUCCEEDED", !.owner = None,
                                  !.left = NullLease, !.result = w])
    /\ effects' = [effects EXCEPT ![KeyOf[w]] = Append(@, w)]
    /\ EndTransaction(w)

Commit(w) ==
    /\ At(w, "tx")
    /\ Commits(w)
    /\ Reply(w, "ok", w)
    /\ UNCHANGED crashes

(* The commit happened and its acknowledgement did not arrive: an error that *)
(* is no domain failure, INTERNAL_ERROR, hence retryable.                    *)
CommitUnacknowledged(w) ==
    /\ At(w, "tx")
    /\ Commits(w)
    /\ Fail(w, "FAILED_RETRYABLE")
    /\ UNCHANGED crashes

(* bookBotBookingRequest finds its request tied to an appointment other than *)
(* the one asked for: it commits RECONCILIATION_REQUIRED itself, a retryable *)
(* failure without a lease.  (A request tied to the very appointment is a    *)
(* Commit.)                                                                  *)
Reconcile(w) ==
    /\ At(w, "tx")
    /\ KeyOf[w] \in RequestKeys
    /\ SetRow(w, [RowOf(w) EXCEPT !.state = "FAILED_RETRYABLE", !.owner = None,
                                  !.left = NullLease])
    /\ EndTransaction(w)
    /\ Reply(w, "failed_retryable", None) \/ Fail(w, "FAILED_RETRYABLE")
    /\ UNCHANGED <<effects, crashes>>

(* The attempt cannot be serialized with other bookings: rolled back.         *)
SerializationFailure(w) ==
    /\ At(w, "tx")
    /\ TryAgain(w)
    /\ EndTransaction(w)
    /\ UNCHANGED <<op, effects, crashes>>

(* A domain conflict or an error inside the transaction: rolled back.         *)
Rollback(w) ==
    /\ At(w, "tx")
    /\ \E v \in Verdicts : Fail(w, v)
    /\ EndTransaction(w)
    /\ UNCHANGED <<op, effects, crashes>>

(* Mutant: a failure mark that asks neither for the state nor for the owner. *)
MarkByIdOnly(w, row) == row.fp = call[w].fp

(* The WHERE of markInternalBotOperationIdempotencyFailure *)
MayMark(w, row) == Owns(w, row)

FailureKind(v) == IF v = "FAILED_FINAL" THEN "failed_final" ELSE "failed_retryable"

(* The lease of a retryable failure is counted from the mark itself. *)
Mark(w) ==
    /\ At(w, "mark")
    /\ Unlocked(w)
    /\ MayMark(w, RowOf(w))
    /\ SetRow(w, [RowOf(w) EXCEPT
          !.state = call[w].verdict, !.owner = None, !.result = None,
          !.left = IF call[w].verdict = "FAILED_RETRYABLE" THEN Lease ELSE NullLease])
    /\ Reply(w, FailureKind(call[w].verdict), None)
    /\ UNCHANGED <<lock, effects, crashes>>

MarkMatchesNothing(w) ==
    /\ At(w, "mark")
    /\ Unlocked(w)
    /\ ~MayMark(w, RowOf(w))
    /\ Reply(w, FailureKind(call[w].verdict), None)
    /\ UNCHANGED <<op, lock, effects, crashes>>

(* The mark itself errs: logged, the answer goes out all the same. *)
MarkErrs(w) ==
    /\ At(w, "mark")
    /\ Reply(w, FailureKind(call[w].verdict), None)
    /\ UNCHANGED <<op, lock, effects, crashes>>

-------------------------------------------------------------------------------
(* Environment *)

(* The process dies, or its answer is lost; an open transaction rolls back. *)
Crash(w) ==
    /\ crashes < MaxCrashes
    /\ call[w].pc \notin {"idle", "answered"}
    /\ crashes' = crashes + 1
    /\ Reply(w, "lost", None)
    /\ lock' = [k \in Keys |-> IF lock[k] = w THEN None ELSE lock[k]]
    /\ UNCHANGED <<op, effects>>

(* The bot sends the same request again after an answer that settles nothing. *)
Retry(w) ==
    /\ At(w, "answered")
    /\ call[w].answer.kind \in {"in_progress", "failed_retryable", "lost"}
    /\ call' = [call EXCEPT ![w] = NewCall]
    /\ UNCHANGED <<op, lock, effects, crashes>>

Older(left) == IF left > -MaxAge THEN left - 1 ELSE left

Tick ==
    /\ \A w \in Workers : call[w].pc \in Claiming => call[w].age < MaxAge
    /\ op' = [k \in Keys |-> [op[k] EXCEPT !.left = Older(@)]]
    /\ call' = [w \in Workers |->
          IF call[w].pc \in Claiming THEN [call[w] EXCEPT !.age = @ + 1] ELSE call[w]]
    /\ UNCHANGED <<lock, effects, crashes>>

Claim(w) ==
    \/ Arrive(w) \/ InsertCreates(w) \/ InsertDuplicate(w)
    \/ LookupConflict(w) \/ LookupReplaySuccess(w) \/ LookupReplayFailure(w)
    \/ LookupLeased(w) \/ LookupExpired(w)
    \/ TakeOver(w) \/ TakeOverLost(w)

Execute(w) ==
    \/ PrecheckFails(w) \/ StartTaken(w)
    \/ RowChangedMeanwhile(w) \/ LockRow(w) \/ OwnershipLost(w)
    \/ Commit(w) \/ CommitUnacknowledged(w) \/ Reconcile(w)
    \/ SerializationFailure(w) \/ Rollback(w)
    \/ Mark(w) \/ MarkMatchesNothing(w) \/ MarkErrs(w)

Next ==
    \/ \E w \in Workers : Claim(w) \/ Execute(w) \/ Crash(w) \/ Retry(w)
    \/ Tick

Spec == Init /\ [][Next]_vars

(* A handler that can take a step takes it, even when others hold its row   *)
(* again and again (PostgreSQL queues those who wait for a row), time passes, *)
(* and the bot keeps retrying what was not settled; nothing forces a crash   *)
(* or an outcome.                                                            *)
Fairness ==
    /\ \A w \in Workers : SF_vars(Claim(w) \/ Execute(w)) /\ WF_vars(Retry(w))
    /\ WF_vars(Tick)

FairSpec == Spec /\ Fairness

-------------------------------------------------------------------------------
(* Properties *)

(* However often a key is sent, whoever takes the claim over and whatever is *)
(* lost or delayed, its mutation is committed at most once                   *)
(* (runClaimedMutation, createBotConfirmedBooking, bookBotBookingRequest).   *)
AtMostOneEffect == \A k \in Keys : Len(effects[k]) <= 1

(* The row never disagrees with what was committed: SUCCEEDED, with the      *)
(* committing call's snapshot, exactly when the mutation happened.  A late    *)
(* failure mark of a call whose commit went through does not overwrite it.   *)
RowTellsTheEffect ==
    \A k \in Keys :
        effects[k] = IF op[k].state = "SUCCEEDED" THEN <<op[k].result>> ELSE <<>>

(* A caller that holds "ok" holds the snapshot of a mutation that was really *)
(* committed under its key, for the payload it sent itself.                  *)
OkIsTruthful ==
    \A w \in Workers : call[w].answer.kind = "ok" =>
        \E v \in Workers :
            /\ call[w].answer.result = v
            /\ effects[KeyOf[w]] = <<v>>
            /\ Payload[v] = Payload[w]

(* A settled key stays settled, snapshot included: no takeover, mark or      *)
(* transaction of a call that read the row earlier changes it.               *)
SettledForGood ==
    [][\A k \in Keys : op[k].state \in Settled =>
          /\ op'[k].state = op[k].state
          /\ op'[k].result = op[k].result]_vars

(* IDEMPOTENCY_IN_PROGRESS from the claim is never a dead end: when it is    *)
(* given, the row is settled or leased beyond the `now` of the caller, so a   *)
(* retry after the lease is replayed or takes the claim over.                *)
InProgressIsJustified ==
    [][\A w \in Workers :
          (At(w, "lookup") \/ At(w, "takeover")) /\ call'[w].answer.kind = "in_progress"
          => RowOf(w).state \in Settled \/ RowOf(w).left > -call[w].age]_vars

(* Every call that arrives is answered, or its process dies. *)
EveryCallIsAnswered ==
    \A w \in Workers : call[w].pc \in Claiming \cup Holding ~> At(w, "answered")

(* A claim whose owner is no longer working on it (crash, lost mark) does    *)
(* not block its key for ever: as long as some caller of the same payload is  *)
(* still without a definitive answer, it is taken over or settled.            *)
Definitive == {"ok", "conflict", "failed_final"}
Abandoned(k) ==
    /\ op[k].state = "IN_PROGRESS"
    /\ call[op[k].owner].pc \notin Holding
    /\ \E w \in Workers :
          /\ KeyOf[w] = k
          /\ op[k].fp \in Candidates[w]
          /\ call[w].answer.kind \notin Definitive
          /\ call[w].pc \notin Holding
AbandonedClaimIsRecovered == \A k \in Keys : Abandoned(k) ~> ~Abandoned(k)

(* Two calls of one key and one payload that both hold a definitive answer   *)
(* hold the same one, as "same key + same HMAC fingerprint -> replay" says.  *)
DefinitiveAnswersAgree ==
    \A v, w \in Workers :
        KeyOf[v] = KeyOf[w] /\ Payload[v] = Payload[w] =>
            ~(call[v].answer.kind = "ok" /\ call[w].answer.kind = "failed_final")

-------------------------------------------------------------------------------
(* Implementation of the abstract specification *)

OutcomeOf(row) ==
    CASE row.state = "SUCCEEDED" -> [kind |-> "performed", by |-> row.result]
      [] row.state = "FAILED_FINAL" -> [kind |-> "refused", by |-> None]
      [] OTHER -> [kind |-> "open", by |-> None]

Abstract == INSTANCE AtMostOnce WITH
    outcome <- [k \in Keys |-> OutcomeOf(op[k])],
    told <- [w \in Workers |-> call[w].answer]

(* The rows, leases and transactions implement at-most-once execution. *)
ImplementsAtMostOnce == Abstract!Spec
===============================================================================
