------------------------------ MODULE GameSession -----------------------------
(***************************************************************************)
(* The catch-time game of one visitor in one catalogue: sessions, their    *)
(* plays, and the booking requests (leads) that claim the gifts.  Handlers *)
(* of GameSessionService and createGameBookingRequest run concurrently,    *)
(* each with the clock it read when it began; every database statement     *)
(* sees what is committed by then (Read Committed).  The last statements   *)
(* of a transaction and its commit are one step: the rows they wrote stay  *)
(* locked until the commit and their guards are evaluated on those rows.   *)
(*                                                                         *)
(* A lead is named by the idempotency key it is created under.             *)
(***************************************************************************)
EXTENDS Naturals, FiniteSets

CONSTANTS
    Sessions,       \* session ids
    Keys,           \* idempotency keys of booking requests
    Phones,         \* normalized phones
    Workers,        \* requests under way at once
    None, NoPlay,
    PlayWindow,     \* PLAY_WINDOW_MS, in ticks
    ClaimWindow,    \* CLAIM_WINDOW_MS
    LimitWindow,    \* SESSION_LIMIT_WINDOW_MS
    StartLimit,     \* SESSION_START_LIMIT
    MaxTime,        \* bound: the clock
    MaxRequests     \* bound: requests in a behaviour

ASSUME GameAssumption ==
    /\ {PlayWindow, ClaimWindow, LimitWindow, StartLimit} \subseteq Nat \ {0}
    /\ {MaxTime, MaxRequests} \subseteq Nat
    /\ None \notin Sessions \cup Keys \cup Nat
    /\ NoPlay \notin Keys \cup {None}

VARIABLES
    clock,
    session,    \* [Sessions -> row]: game_sessions
    play,       \* [Sessions -> NoPlay, None or a key]: the play's lead
    lead,       \* [Keys -> row]: booking_requests
    job,        \* [Workers -> record]: each worker's request
    started

vars == <<clock, session, play, lead, job, started>>

Statuses == {"absent", "ACTIVE", "COMPLETED", "CONSUMED", "EXPIRED"}
SessionRows == [status : Statuses, since : Nat, playExp : Nat, claimExp : Nat \cup {None}]
OpenStatuses == {"NEW", "CONTACTED"}
LeadStatuses == OpenStatuses \cup {"CLOSED"}
LeadRows == [status : LeadStatuses \cup {"absent"},
             of : Sessions \cup {None}, phone : Phones \cup {None}]

RequestRows == [kind : {"start", "restart", "complete", "result", "book"},
                s : Sessions \cup {None}, k : Keys \cup {None}, phone : Phones \cup {None}]

BookSteps == {"find", "validate", "duplicate", "check", "submit"}
SessionSteps == {"look", "expire", "loaded", "recheck", "replace", "regrant", "grant"}
Steps == {"idle", "answered", "count", "open", "create"} \cup SessionSteps \cup BookSteps
Answered == {"none", "session", "gift", "lead", "error"}
Jobs == [pc : Steps, req : RequestRows, now : Nat, was : Statuses, seen : Statuses,
         answer : Answered, what : Sessions \cup Keys \cup {None}]

Begun(pc, r, t) == [pc |-> pc, req |-> r, now |-> t, was |-> "absent", seen |-> "absent",
                    answer |-> "none", what |-> None]
Idle == Begun("idle", [kind |-> "start", s |-> None, k |-> None, phone |-> None], 0)

Init ==
    /\ clock = 0
    /\ session = [s \in Sessions |->
                    [status |-> "absent", since |-> 0, playExp |-> 0, claimExp |-> None]]
    /\ play = [s \in Sessions |-> NoPlay]
    /\ lead = [k \in Keys |-> [status |-> "absent", of |-> None, phone |-> None]]
    /\ job = [w \in Workers |-> Idle]
    /\ started = 0

-------------------------------------------------------------------------------
(* Rows as a handler judges them *)

HasLead(s) == play[s] \in Keys

(* resolveLazyExpirationStatus *)
Overdue(row, t) ==
    \/ row.status = "ACTIVE" /\ t >= row.playExp
    \/ row.status = "COMPLETED" /\ row.claimExp # None /\ t >= row.claimExp
Lazily(row, t) == IF Overdue(row, t) THEN "EXPIRED" ELSE row.status

(* resolveEffectiveSessionStatus, shouldReuseSessionForStart, canRestartSession *)
Effective(status, s) == IF status = "COMPLETED" /\ HasLead(s) THEN "CONSUMED" ELSE status
Reusable(status, s) ==
    \/ status = "ACTIVE"
    \/ status = "COMPLETED" /\ play[s] = None
Restartable(status, s) == status \in {"ACTIVE", "COMPLETED"} /\ ~HasLead(s)

(* countRecentSessions: everything the visitor started in the window *)
AtLimit(t) ==
    Cardinality({s \in Sessions : session[s].status # "absent"
                                  /\ session[s].since + LimitWindow >= t}) >= StartLimit

Exists(k) == lead[k].status # "absent"
OpenLeads(p) == {k \in Keys : lead[k].phone = p /\ lead[k].status \in OpenStatuses}
VisitorHasOpenLead == \E s \in Sessions : HasLead(s) /\ lead[play[s]].status \in OpenStatuses

New(t) == [status |-> "ACTIVE", since |-> t, playExp |-> t + PlayWindow, claimExp |-> None]

Goes(w, pc) == job' = [job EXCEPT ![w] = [@ EXCEPT !.pc = pc]]
Answers(w, kind, what) ==
    job' = [job EXCEPT ![w] = [@ EXCEPT !.pc = "answered", !.now = 0, !.was = "absent",
                                        !.seen = "absent", !.answer = kind, !.what = what]]
Refuses(w) == Answers(w, "error", None)

Rows == <<session, play, lead>>

-------------------------------------------------------------------------------
(* Arrival, clock and reply *)

Requests ==
    LET known == {s \in Sessions : session[s].status # "absent"}
        played == {s \in Sessions : play[s] # NoPlay} IN
    {r \in RequestRows :
        CASE r.kind = "start" -> r.s \in known \cup {None} /\ r.k = None /\ r.phone = None
          [] r.kind = "book" -> r.s \in played /\ r.k # None /\ r.phone # None
          [] OTHER -> r.s \in known /\ r.k = None /\ r.phone = None}

FirstStep(r) ==
    CASE r.kind = "start" -> IF r.s = None THEN "count" ELSE "look"
      [] r.kind = "restart" -> "open"
      [] r.kind \in {"complete", "result"} -> "look"
      [] r.kind = "book" -> "find"

(* Bound: a request that may open a session finds an id for it. *)
Opens(kind) == kind \in {"start", "restart"}
IdsLeft ==
    Cardinality({s \in Sessions : session[s].status = "absent"})
        > Cardinality({w \in Workers : job[w].pc \notin {"idle", "answered"}
                                         /\ Opens(job[w].req.kind)})

Arrive(w) ==
    /\ job[w].pc = "idle"
    /\ started < MaxRequests
    /\ started' = started + 1
    /\ \E r \in Requests :
          /\ Opens(r.kind) => IdsLeft
          /\ job' = [job EXCEPT ![w] = Begun(FirstStep(r), r, clock)]
    /\ UNCHANGED <<clock, Rows>>

Reply(w) ==
    /\ job[w].pc = "answered"
    /\ job' = [job EXCEPT ![w] = Idle]
    /\ UNCHANGED <<clock, Rows, started>>

Tick ==
    /\ clock < MaxTime
    /\ clock' = clock + 1
    /\ UNCHANGED <<Rows, job, started>>

-------------------------------------------------------------------------------
(* Reading a session and expiring it lazily (start, restart, complete, result) *)

Look(w) ==
    LET row == session[job[w].req.s] IN
    /\ job[w].pc = "look"
    /\ job' = [job EXCEPT ![w] = [@ EXCEPT
          !.pc = IF Overdue(row, job[w].now) THEN "expire" ELSE "loaded",
          !.was = row.status,
          !.seen = Lazily(row, job[w].now)]]
    /\ UNCHANGED <<clock, Rows, started>>

(* Mutant: the update goes by the id alone. *)
ExpireWhatever(s, was) == [session EXCEPT ![s].status = "EXPIRED"]

(* expireGameSessionIfNeededWithDb: updateMany guarded by the status it saw. *)
Expired(s, was) ==
    IF session[s].status = was THEN [session EXCEPT ![s].status = "EXPIRED"] ELSE session

ExpireOverdue(w) ==
    /\ job[w].pc = "expire"
    /\ session' = Expired(job[w].req.s, job[w].was)
    /\ Goes(w, "loaded")
    /\ UNCHANGED <<clock, play, lead, started>>

(* reconcileCompletedSessionConsumption *)
Reconciled(s, status) ==
    IF status = "COMPLETED" /\ HasLead(s) /\ session[s].status = "COMPLETED"
    THEN [session EXCEPT ![s].status = "CONSUMED"] ELSE session

-------------------------------------------------------------------------------
(* startGameSession, restartGameSession *)

StartReuse(w) ==
    LET s == job[w].req.s IN
    /\ job[w].pc = "loaded" /\ job[w].req.kind = "start"
    /\ session' = Reconciled(s, job[w].seen)
    /\ IF Reusable(Effective(job[w].seen, s), s) THEN Answers(w, "session", s)
       ELSE Goes(w, "count")
    /\ UNCHANGED <<clock, play, lead, started>>

RestartCheck(w) ==
    LET s == job[w].req.s IN
    /\ job[w].pc = "loaded" /\ job[w].req.kind = "restart"
    /\ session' = Reconciled(s, job[w].seen)
    /\ IF Restartable(Effective(job[w].seen, s), s) THEN Goes(w, "count") ELSE Refuses(w)
    /\ UNCHANGED <<clock, play, lead, started>>

CountRecent(w) ==
    /\ job[w].pc = "count"
    /\ IF AtLimit(job[w].now) THEN Refuses(w)
       ELSE Goes(w, IF job[w].req.kind = "start" THEN "open" ELSE "recheck")
    /\ UNCHANGED <<clock, Rows, started>>

(* assertVisitorCanStartNewGameAttempt: the last check of a start, the first *)
(* one of a restart.                                                         *)
OpenLeadCheck(w) ==
    /\ job[w].pc = "open"
    /\ IF VisitorHasOpenLead THEN Refuses(w)
       ELSE Goes(w, IF job[w].req.kind = "start" THEN "create" ELSE "look")
    /\ UNCHANGED <<clock, Rows, started>>

StartCreate(w) ==
    /\ job[w].pc = "create"
    /\ \E n \in Sessions :
          /\ session[n].status = "absent"
          /\ session' = [session EXCEPT ![n] = New(job[w].now)]
          /\ Answers(w, "session", n)
    /\ UNCHANGED <<clock, play, lead, started>>

(* The transaction reads everything again; an expiry it writes on the way is *)
(* rolled back with the refusal that follows.                                *)
RestartRecheck(w) ==
    LET s == job[w].req.s IN
    /\ job[w].pc = "recheck"
    /\ IF Restartable(Lazily(session[s], job[w].now), s) /\ ~AtLimit(job[w].now)
       THEN job' = [job EXCEPT ![w] =
                      [@ EXCEPT !.pc = "replace", !.was = session[s].status]]
       ELSE Refuses(w)
    /\ UNCHANGED <<clock, Rows, started>>

RestartReplace(w) ==
    LET s == job[w].req.s IN
    /\ job[w].pc = "replace"
    /\ IF session[s].status = job[w].was
       THEN \E n \in Sessions :
              /\ session[n].status = "absent"
              /\ session' = [session EXCEPT ![s].status = "EXPIRED", ![n] = New(job[w].now)]
              /\ Answers(w, "session", n)
       ELSE UNCHANGED session /\ Refuses(w)
    /\ UNCHANGED <<clock, play, lead, started>>

-------------------------------------------------------------------------------
(* completeGameSession, getGameSessionResult *)

CompleteDecide(w) ==
    LET s == job[w].req.s IN
    /\ job[w].pc = "loaded" /\ job[w].req.kind = "complete"
    /\ CASE job[w].seen \in {"COMPLETED", "CONSUMED"} ->
              IF play[s] = NoPlay THEN Refuses(w) ELSE Answers(w, "gift", s)
         [] job[w].seen = "ACTIVE" -> Goes(w, "regrant")
         [] OTHER -> Refuses(w)
    /\ UNCHANGED <<clock, Rows, started>>

(* completeActiveSession, the transaction's reads.  An existing play is      *)
(* returned and commits the expiry written before it was found.              *)
CompleteRecheck(w) ==
    LET s == job[w].req.s
        row == session[s] IN
    /\ job[w].pc = "regrant"
    /\ IF play[s] # NoPlay
       THEN /\ session' = IF Overdue(row, job[w].now) THEN Expired(s, row.status) ELSE session
            /\ Answers(w, "gift", s)
       ELSE /\ UNCHANGED session
            /\ IF Lazily(row, job[w].now) = "ACTIVE" THEN Goes(w, "grant") ELSE Refuses(w)
    /\ UNCHANGED <<clock, play, lead, started>>

(* Mutant: the claim window is not stored. *)
CompletedForEver(s, t) == [session EXCEPT ![s].status = "COMPLETED"]

Completed(s, t) ==
    [session EXCEPT ![s] = [@ EXCEPT !.status = "COMPLETED", !.claimExp = t + ClaimWindow]]

(* The play is created (or is there already: P2002, and is returned); when   *)
(* the session is no longer ACTIVE the play just created is taken for a      *)
(* racing one, and committed.                                                *)
CompleteGrant(w) ==
    LET s == job[w].req.s IN
    /\ job[w].pc = "grant"
    /\ play' = IF play[s] = NoPlay THEN [play EXCEPT ![s] = None] ELSE play
    /\ session' = IF play[s] = NoPlay /\ session[s].status = "ACTIVE"
                  THEN Completed(s, job[w].now) ELSE session
    /\ Answers(w, "gift", s)
    /\ UNCHANGED <<clock, lead, started>>

Result(w) ==
    LET s == job[w].req.s IN
    /\ job[w].pc = "loaded" /\ job[w].req.kind = "result"
    /\ session' = IF job[w].seen \in {"ACTIVE", "EXPIRED"} THEN session
                  ELSE Reconciled(s, job[w].seen)
    /\ IF job[w].seen = "ACTIVE" THEN Answers(w, "session", s)
       ELSE IF job[w].seen = "EXPIRED" \/ play[s] = NoPlay THEN Refuses(w)
       ELSE Answers(w, "gift", s)
    /\ UNCHANGED <<clock, play, lead, started>>

-------------------------------------------------------------------------------
(* createBookingRequest with a game play *)

(* Mutant: the payload hash is not compared. *)
AnyPayload(r) == TRUE

(* idempotencyPayloadHashesEqual: the play, its session and the contact. *)
SamePayload(r) == lead[r.k].of = r.s /\ lead[r.k].phone = r.phone

(* The lead of this key, to the one who sent it and owns the play:           *)
(* validateGameBookingForIdempotentRetry.                                    *)
Replays(w) ==
    IF SamePayload(job[w].req) /\ play[job[w].req.s] = job[w].req.k
    THEN Answers(w, "lead", job[w].req.k) ELSE Refuses(w)

BookFind(w) ==
    /\ job[w].pc = "find"
    /\ IF Exists(job[w].req.k) THEN Replays(w) ELSE Goes(w, "validate")
    /\ UNCHANGED <<clock, Rows, started>>

(* Mutants: only the play is looked at; nothing is. *)
ClaimableByPlay(s, t) == play[s] = None
ClaimableAgain(s, t) == play[s] # NoPlay

(* validateGameBookingForFirstSubmit, and the guards of both updateMany *)
Claimable(s, t) ==
    /\ session[s].status = "COMPLETED"
    /\ session[s].claimExp # None /\ t < session[s].claimExp
    /\ play[s] = None

BookValidate(w) ==
    /\ job[w].pc = "validate"
    /\ IF Claimable(job[w].req.s, job[w].now) THEN Goes(w, "duplicate") ELSE Refuses(w)
    /\ UNCHANGED <<clock, Rows, started>>

BookDuplicate(w) ==
    /\ job[w].pc = "duplicate"
    /\ IF ~Exists(job[w].req.k) THEN Goes(w, "check")
       ELSE IF SamePayload(job[w].req) THEN Answers(w, "lead", job[w].req.k)
       ELSE Refuses(w)
    /\ UNCHANGED <<clock, Rows, started>>

BookCheck(w) ==
    /\ job[w].pc = "check"
    /\ IF OpenLeads(job[w].req.phone) = {} /\ Claimable(job[w].req.s, job[w].now)
       THEN Goes(w, "submit") ELSE Refuses(w)
    /\ UNCHANGED <<clock, Rows, started>>

(* Mutant: the partial unique index does not exist. *)
NoIndex(k, p) == TRUE

(* booking_requests_open_game_phone_catalog_uidx admits an open lead *)
IndexAdmits(k, p) == OpenLeads(p) \ {k} = {}

(* Insert, claim the play, consume the session, commit; a unique violation   *)
(* (P2002) rolls back and is resolved by handleGameBookingCreateUniqueViolation. *)
BookSubmit(w) ==
    LET r == job[w].req IN
    /\ job[w].pc = "submit"
    /\ IF Exists(r.k) THEN UNCHANGED Rows /\ Replays(w)
       ELSE IF IndexAdmits(r.k, r.phone) /\ Claimable(r.s, job[w].now)
       THEN /\ lead' = [lead EXCEPT ![r.k] = [status |-> "NEW", of |-> r.s, phone |-> r.phone]]
            /\ play' = [play EXCEPT ![r.s] = r.k]
            /\ session' = [session EXCEPT ![r.s].status = "CONSUMED"]
            /\ Answers(w, "lead", r.k)
       ELSE UNCHANGED Rows /\ Refuses(w)
    /\ UNCHANGED <<clock, started>>

(* updateBookingRequestStatus, by the manager: any status, save for the index. *)
SetLeadStatus(k, status) ==
    /\ Exists(k)
    /\ lead[k].status # status
    /\ status \in OpenStatuses => IndexAdmits(k, lead[k].phone)
    /\ lead' = [lead EXCEPT ![k] = [@ EXCEPT !.status = status]]
    /\ UNCHANGED <<clock, session, play, job, started>>

-------------------------------------------------------------------------------
Step(w) ==
    \/ Look(w) \/ ExpireOverdue(w)
    \/ StartReuse(w) \/ RestartCheck(w) \/ CountRecent(w) \/ OpenLeadCheck(w)
    \/ StartCreate(w) \/ RestartRecheck(w) \/ RestartReplace(w)
    \/ CompleteDecide(w) \/ CompleteRecheck(w) \/ CompleteGrant(w) \/ Result(w)
    \/ BookFind(w) \/ BookValidate(w) \/ BookDuplicate(w) \/ BookCheck(w) \/ BookSubmit(w)

(* Nothing under way: the game waits for its visitor. *)
Rest == (\A w \in Workers : job[w].pc = "idle") /\ UNCHANGED vars

Next ==
    \/ \E w \in Workers : Arrive(w) \/ Step(w) \/ Reply(w)
    \/ \E k \in Keys, status \in LeadStatuses : SetLeadStatus(k, status)
    \/ Tick
    \/ Rest

Spec == Init /\ [][Next]_vars

-------------------------------------------------------------------------------
(* Properties *)

TypeOK ==
    /\ clock \in 0 .. MaxTime
    /\ session \in [Sessions -> SessionRows]
    /\ play \in [Sessions -> Keys \cup {None, NoPlay}]
    /\ lead \in [Keys -> LeadRows]
    /\ job \in [Workers -> Jobs]
    /\ started \in 0 .. MaxRequests
    /\ \A s \in Sessions : session[s].status = "COMPLETED" => session[s].claimExp \in Nat

(* A session is CONSUMED exactly when a lead claimed its play: no lead hangs *)
(* on a session somebody expired or restarted meanwhile.                     *)
ConsumedByALead ==
    \A s \in Sessions : session[s].status = "CONSUMED" <=> HasLead(s)

(* A gift yields one lead, and a lead claims the gift it was created for:    *)
(* neither parallel submissions nor several keys give a second one.          *)
OneLeadPerPlay ==
    /\ \A k \in Keys : Exists(k) => lead[k].of \in Sessions /\ play[lead[k].of] = k
    /\ \A s \in Sessions : HasLead(s) => Exists(play[s])

(* "На один нормализованный телефон в рамках одного GameCatalog — не более   *)
(* одной открытой заявки", reopened ones included.                           *)
OneOpenLeadPerPhone == \A p \in Phones : Cardinality(OpenLeads(p)) <= 1

(* Whoever is told of a lead sent its very data, and owns it.                *)
LeadAnswersAreTrue ==
    \A w \in Workers : job[w].pc = "answered" /\ job[w].answer = "lead" =>
        /\ job[w].req.kind = "book"
        /\ lead[job[w].what].of = job[w].req.s
        /\ lead[job[w].what].phone = job[w].req.phone
        /\ play[job[w].req.s] = job[w].what

(* The sessions behave as a GiftClaim: over stays over, claimed stays        *)
(* claimed by the same lead.                                                 *)
Claims == INSTANCE GiftClaim WITH
    stage <- [s \in Sessions |-> session[s].status],
    claim <- [s \in Sessions |-> IF HasLead(s) THEN play[s] ELSE None],
    Unclaimed <- None
ImplementsGiftClaim == Claims!Spec

(* A gift somebody was told of has a window to claim it in. *)
GiftHasClaimWindow ==
    \A w \in Workers : job[w].pc = "answered" /\ job[w].answer = "gift" =>
        session[job[w].req.s].claimExp # None
===============================================================================
