-------------------------------- MODULE Wheel ---------------------------------
(***************************************************************************)
(* The wheel of fortune in one catalogue and campaign.  A participant is a *)
(* phone: it may spin once in a cooldown, which registration enforces      *)
(* behind an advisory lock of the phone, with the clock it read before it  *)
(* waited.  A spin is completed, its lead included, in one transaction     *)
(* behind the lock of the session's row.  Both are Read Committed: each    *)
(* statement sees what is committed by then.                               *)
(*                                                                         *)
(* A session's play is written only together with its lead, so the session *)
(* names the lead (by its idempotency key) itself.  The COMPLETED status   *)
(* of the same transaction is never committed.                             *)
(***************************************************************************)
EXTENDS Naturals, FiniteSets

CONSTANTS
    Sessions,       \* session ids
    Phones,         \* participants: normalized phones
    Browsers,       \* visitor cookies
    Attempts,       \* attemptIds, chosen by the page
    Keys,           \* idempotency keys of booking requests
    Workers,        \* requests under way at once
    None,
    Cooldown,       \* WHEEL_REPLAY_COOLDOWN_MS, in ticks
    PlayWindow,     \* PLAY_WINDOW_MS
    MaxTime,        \* bound: the clock
    MaxRequests     \* bound: requests in a behaviour

ASSUME WheelAssumption ==
    /\ {Cooldown, PlayWindow} \subseteq Nat \ {0}
    /\ {MaxTime, MaxRequests} \subseteq Nat
    /\ None \notin Sessions \cup Phones \cup Browsers \cup Attempts \cup Keys

VARIABLES
    clock,
    session,    \* [Sessions -> row]: game_sessions
    lead,       \* [Keys -> row]: booking_requests of the catalogue
    job,        \* [Workers -> record]: each worker's request
    begun       \* requests so far

vars == <<clock, session, lead, job, begun>>
Rows == <<session, lead>>

Statuses == {"absent", "ACTIVE", "CONSUMED"}
SessionRows == [status : Statuses, phone : Phones \cup {None}, browser : Browsers \cup {None},
                attempt : Attempts \cup {None}, since : Nat, lead : Keys \cup {None}]
OpenStatuses == {"NEW", "CONTACTED"}
LeadStatuses == OpenStatuses \cup {"CLOSED"}
LeadRows == [status : LeadStatuses \cup {"absent"}, of : Sessions \cup {None}, phone : Phones \cup {None}]

(* had: the session this very attempt had when its request arrived.          *)
Steps == {"idle", "register", "look", "create", "complete", "find", "check", "submit", "answered"}
Answered == {"none", "session", "cooldown", "lead", "refused", "error"}
Jobs == [pc : Steps, now : Nat, phone : Phones \cup {None}, browser : Browsers \cup {None},
         attempt : Attempts \cup {None}, s : Sessions \cup {None}, k : Keys \cup {None},
         had : Sessions \cup {None},
         answer : Answered,
         what : Sessions \cup Keys \cup {None}]

Idle == [pc |-> "idle", now |-> 0, phone |-> None, browser |-> None, attempt |-> None, s |-> None,
         k |-> None, had |-> None, answer |-> "none", what |-> None]

Init ==
    /\ clock = 0
    /\ session = [s \in Sessions |-> [status |-> "absent", phone |-> None, browser |-> None,
                                      attempt |-> None, since |-> 0, lead |-> None]]
    /\ lead = [k \in Keys |-> [status |-> "absent", of |-> None, phone |-> None]]
    /\ job = [w \in Workers |-> Idle]
    /\ begun = 0

Opened == {s \in Sessions : session[s].status # "absent"}
OfPhone(p) == {s \in Opened : session[s].phone = p}

(* The sessions an attempt of one browser may continue (sameAttempt).        *)
SameAttempt(p, b, a) == {s \in OfPhone(p) : session[s].attempt = a /\ session[s].browser = b}

OpenLeads(p) == {k \in Keys : lead[k].status \in OpenStatuses /\ lead[k].phone = p}

-------------------------------------------------------------------------------
Begins(w, j) ==
    /\ job[w].pc = "idle" /\ begun < MaxRequests
    /\ begun' = begun + 1
    /\ job' = [job EXCEPT ![w] = j]
    /\ UNCHANGED <<clock, Rows>>

Goes(w, pc) == job' = [job EXCEPT ![w].pc = pc]

(* The end of a transaction: its locks are released with it.                 *)
Answers(w, answer, what) ==
    job' = [job EXCEPT ![w] = [@ EXCEPT !.pc = "answered", !.answer = answer, !.what = what]]

(* pg_advisory_xact_lock of the phone; SELECT ... FOR UPDATE of the session. *)
PhoneLocked(p) == \E v \in Workers : job[v].pc \in {"look", "create"} /\ job[v].phone = p
RowLocked(s) == \E v \in Workers : job[v].pc \in {"find", "check", "submit"} /\ job[v].s = s

-------------------------------------------------------------------------------
(* startWheelPublicGame, registerWheelPhoneBoundSession *)

Register(w, p, b, a) ==
    \E had \in IF SameAttempt(p, b, a) = {} THEN {None} ELSE SameAttempt(p, b, a) :
        Begins(w, [Idle EXCEPT !.pc = "register", !.now = clock, !.phone = p, !.browser = b,
                               !.attempt = a, !.had = had])

(* Mutant: the lock is not waited for. *)
RegisterDoesNotWait(w) ==
    /\ job[w].pc = "register"
    /\ Goes(w, "look")
    /\ UNCHANGED <<clock, Rows, begun>>

RegisterLocks(w) ==
    /\ job[w].pc = "register" /\ ~PhoneLocked(job[w].phone)
    /\ Goes(w, "look")
    /\ UNCHANGED <<clock, Rows, begun>>

(* Mutant: the cooldown is looked at first. *)
LookForCooldownFirst(w) ==
    LET j == job[w]  same == SameAttempt(j.phone, j.browser, j.attempt) IN
    /\ j.pc = "look"
    /\ IF \E s \in OfPhone(j.phone) : j.now < session[s].since + Cooldown
       THEN Answers(w, "cooldown", None)
       ELSE IF same # {} THEN \E s \in same : Answers(w, "session", s) ELSE Goes(w, "create")
    /\ UNCHANGED <<clock, Rows, begun>>

(* The same attempt gets its session back; another one waits until the       *)
(* cooldown of the latest session is over (isWheelReplayCooldownActive).     *)
RegisterLooks(w) ==
    LET j == job[w]  same == SameAttempt(j.phone, j.browser, j.attempt) IN
    /\ j.pc = "look"
    /\ IF same # {} THEN \E s \in same : Answers(w, "session", s)
       ELSE IF \E s \in OfPhone(j.phone) : j.now < session[s].since + Cooldown
       THEN Answers(w, "cooldown", None) ELSE Goes(w, "create")
    /\ UNCHANGED <<clock, Rows, begun>>

(* token_hash is derived from the attempt and the phone, and unique; a       *)
(* violation (the attempt of another browser) aborts the transaction, and    *)
(* with it the lookup that should resolve it.                                *)
RegisterCreates(w) ==
    LET j == job[w] IN
    /\ j.pc = "create"
    /\ IF \E s \in OfPhone(j.phone) : session[s].attempt = j.attempt
       THEN UNCHANGED session /\ Answers(w, "error", None)
       ELSE \E n \in Sessions \ Opened :
              /\ session' = [session EXCEPT ![n] =
                    [status |-> "ACTIVE", phone |-> j.phone, browser |-> j.browser,
                     attempt |-> j.attempt, since |-> j.now, lead |-> None]]
              /\ Answers(w, "session", n)
    /\ UNCHANGED <<clock, lead, begun>>

-------------------------------------------------------------------------------
(* completeWheelPublicGame, and createBookingRequest in its transaction *)

(* The browser and the phone of the session: any other is refused.           *)
Complete(w, s, k) ==
    /\ s \in Opened
    /\ Begins(w, [Idle EXCEPT !.pc = "complete", !.now = clock, !.s = s, !.k = k,
                              !.phone = session[s].phone, !.browser = session[s].browser])

(* The expiry of an overdue session is rolled back by the refusal after it.  *)
CompleteLocks(w) ==
    LET j == job[w]  row == session[j.s] IN
    /\ j.pc = "complete" /\ ~RowLocked(j.s)
    /\ IF row.status = "CONSUMED" THEN Answers(w, "lead", row.lead)
       ELSE IF j.now \geq row.since + PlayWindow THEN Answers(w, "refused", None)
       ELSE Goes(w, "find")
    /\ UNCHANGED <<clock, Rows, begun>>

(* Mutant: the lead of the key is answered, whosever it is. *)
FindAnswersTheKey(w) ==
    LET j == job[w] IN
    /\ j.pc = "find"
    /\ IF lead[j.k].status # "absent" THEN Answers(w, "lead", j.k) ELSE Goes(w, "check")
    /\ UNCHANGED <<clock, Rows, begun>>

(* The payload hash covers the play, which this transaction has created: a   *)
(* lead under this key is of another payload.                                *)
CompleteFinds(w) ==
    LET j == job[w] IN
    /\ j.pc = "find"
    /\ IF lead[j.k].status # "absent" THEN Answers(w, "refused", None) ELSE Goes(w, "check")
    /\ UNCHANGED <<clock, Rows, begun>>

CompleteChecks(w) ==
    LET j == job[w] IN
    /\ j.pc = "check"
    /\ IF lead[j.k].status # "absent" \/ OpenLeads(j.phone) # {}
       THEN Answers(w, "refused", None) ELSE Goes(w, "submit")
    /\ UNCHANGED <<clock, Rows, begun>>

(* booking_requests_open_game_phone_catalog_uidx *)
IndexAdmits(k, p) == OpenLeads(p) \ {k} = {}

(* Mutant: the lead is stored on a connection of its own, and stays when the *)
(* transaction of the session fails.                                         *)
SubmitsApart(w) ==
    LET j == job[w] IN
    /\ j.pc = "submit"
    /\ IF lead[j.k].status # "absent" \/ ~IndexAdmits(j.k, j.phone)
       THEN UNCHANGED Rows /\ Answers(w, "error", None)
       ELSE /\ lead' = [lead EXCEPT ![j.k] = [status |-> "NEW", of |-> j.s, phone |-> j.phone]]
            /\ \/ /\ session' = [session EXCEPT ![j.s].status = "CONSUMED", ![j.s].lead = j.k]
                  /\ Answers(w, "lead", j.k)
               \/ UNCHANGED session /\ Answers(w, "error", None)
    /\ UNCHANGED <<clock, begun>>

(* Mutant: the status written before the lead is committed without it.       *)
SubmitsInParts(w) ==
    LET j == job[w] IN
    /\ j.pc = "submit"
    /\ IF lead[j.k].status # "absent" \/ ~IndexAdmits(j.k, j.phone)
       THEN /\ session' = [session EXCEPT ![j.s].status = "COMPLETED"]
            /\ UNCHANGED lead /\ Answers(w, "error", None)
       ELSE /\ lead' = [lead EXCEPT ![j.k] = [status |-> "NEW", of |-> j.s, phone |-> j.phone]]
            /\ session' = [session EXCEPT ![j.s].status = "CONSUMED", ![j.s].lead = j.k]
            /\ Answers(w, "lead", j.k)
    /\ UNCHANGED <<clock, begun>>

(* The lead, its play and the session are committed together; a unique       *)
(* violation aborts the transaction that the lead shares with the session.   *)
CompleteSubmits(w) ==
    LET j == job[w] IN
    /\ j.pc = "submit"
    /\ IF lead[j.k].status # "absent" \/ ~IndexAdmits(j.k, j.phone)
       THEN UNCHANGED Rows /\ Answers(w, "error", None)
       ELSE /\ lead' = [lead EXCEPT ![j.k] = [status |-> "NEW", of |-> j.s, phone |-> j.phone]]
            /\ session' = [session EXCEPT ![j.s].status = "CONSUMED", ![j.s].lead = j.k]
            /\ Answers(w, "lead", j.k)
    /\ UNCHANGED <<clock, begun>>

-------------------------------------------------------------------------------
(* The connection is lost inside a transaction: it is rolled back. *)
Abort(w) ==
    /\ job[w].pc \in {"look", "create", "find", "check", "submit"}
    /\ Answers(w, "error", None)
    /\ UNCHANGED <<clock, Rows, begun>>

Reply(w) ==
    /\ job[w].pc = "answered"
    /\ job' = [job EXCEPT ![w] = Idle]
    /\ UNCHANGED <<clock, Rows, begun>>

(* updateBookingRequestStatus, by the manager: any status the index admits.  *)
SetLeadStatus(k, status) ==
    /\ lead[k].status \notin {"absent", status}
    /\ status \in OpenStatuses => IndexAdmits(k, lead[k].phone)
    /\ lead' = [lead EXCEPT ![k].status = status]
    /\ UNCHANGED <<clock, session, job, begun>>

Tick == clock < MaxTime /\ clock' = clock + 1 /\ UNCHANGED <<Rows, job, begun>>

Arrive(w) ==
    \/ \E p \in Phones, b \in Browsers, a \in Attempts : Register(w, p, b, a)
    \/ \E s \in Sessions, k \in Keys : Complete(w, s, k)

Step(w) ==
    \/ RegisterLocks(w) \/ RegisterLooks(w) \/ RegisterCreates(w)
    \/ CompleteLocks(w) \/ CompleteFinds(w) \/ CompleteChecks(w) \/ CompleteSubmits(w)
    \/ Abort(w)

(* Nothing under way: the wheel waits for its visitors. *)
Rest == (\A w \in Workers : job[w].pc = "idle") /\ UNCHANGED vars

Next ==
    \/ \E w \in Workers : Arrive(w) \/ Step(w) \/ Reply(w)
    \/ \E k \in Keys, status \in LeadStatuses : SetLeadStatus(k, status)
    \/ Tick
    \/ Rest

Spec == Init /\ [][Next]_vars

-------------------------------------------------------------------------------
(* Properties *)

(* Every row and request is of its type; no COMPLETED session among them.    *)
TypeOK ==
    /\ clock \in 0 .. MaxTime
    /\ session \in [Sessions -> SessionRows]
    /\ lead \in [Keys -> LeadRows]
    /\ job \in [Workers -> Jobs]
    /\ begun \in 0 .. MaxRequests

(* Two spins of one phone are a cooldown apart, though each request compares *)
(* with a clock it read before it waited for the other ("one attempt per     *)
(* catalog+campaign+phone every WHEEL_REPLAY_COOLDOWN_MS").                  *)
CooldownHolds ==
    \A s, t \in Opened :
        s # t /\ session[s].phone = session[t].phone
            => \/ session[s].since \geq session[t].since + Cooldown
               \/ session[t].since \geq session[s].since + Cooldown

(* A page that asks again for an attempt it has started gets that very       *)
(* session (its prize is drawn), never the cooldown its own spin has begun:  *)
(* "Idempotent same attemptId+visitor reuse".                                *)
RetryGetsItsSpin ==
    \A w \in Workers : job[w].pc = "answered" /\ job[w].had # None =>
        \/ job[w].answer = "session" /\ job[w].what = job[w].had
        \/ job[w].answer = "error"

(* Whoever is told of a lead is told of the one lead of his own session,     *)
(* made for his own phone, under whichever key it was created.               *)
LeadAnswersAreTrue ==
    \A w \in Workers : job[w].pc = "answered" /\ job[w].answer = "lead" =>
        /\ job[w].what \in Keys
        /\ session[job[w].s].lead = job[w].what
        /\ lead[job[w].what].of = job[w].s
        /\ lead[job[w].what].phone = job[w].phone

(* The sessions behave as a GiftClaim whose claims are sets of leads: a spin *)
(* yields its one lead or nothing, whatever aborts, and stays so.            *)
Claims == INSTANCE GiftClaim WITH
    stage <- [s \in Sessions |-> session[s].status],
    claim <- [s \in Sessions |-> {k \in Keys : lead[k].of = s}],
    Keys <- {{k} : k \in Keys},
    Unclaimed <- {}
ImplementsGiftClaim == Claims!Spec
===============================================================================
