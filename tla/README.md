# Твоё время (online-zapis-tv): TLA+ models, checks and proofs

The repository is a Next.js / TypeScript application over PostgreSQL (Prisma) that runs the
appointment book of a beauty studio: public online booking, the manager's schedule, a chat bot
that books and manages through an internal HMAC-signed API, booking requests, two promotional
games, communications and administration. Application code is in `src/src/`, the database schema
in `src/prisma/schema.prisma`, documentation in `src/docs/`.

There is no lock or queue in the process: all coordination goes through the database. What makes
the program hard is therefore how its handlers use PostgreSQL: which run in Serializable
transactions and which read first and write later, which take row or advisory locks, which rely
on a unique index, and which retry.

## 1. Inventory

| component | state | operations | interacts through | hard behaviour |
|---|---|---|---|---|
| Idempotency of bot operations (`lib/bot-api/internal-bot-operation-idempotency.ts`, `BotBookingCreateService`, `BotBookingRequestService`, `MasterCommandService`) | `internal_bot_booking_operations` rows: kind, key, fingerprint, state, lease, result | claim, take over, replay, execute-and-mark in one transaction that is repeated when it cannot be serialized, mark failed | the appointment and block writes it wraps; the bot core that retries | crashes, lost acknowledgements, stalls past the lease, two HMAC secrets |
| Appointments (`AppointmentService`, `MasterAvailabilityService`, `lib/schedule`) | `appointments` | create (internal, online, bot), update, cancel | blocks, extra windows; bot operations; manage links | concurrent writers of one day, override of overlaps, 40001 retries |
| Schedule blocks and extra windows (`ScheduleBlockService`, `ExtraWorkWindowService`) | `schedule_blocks`, `extra_work_windows` | create, move, delete; the same through master commands | appointments of the day | admin handlers check then act outside a transaction |
| Manage link (`BookingManageService`) | appointment status, RESCHEDULE_REQUEST rows | client cancel, client reschedule request | appointments, booking requests | status read before the transaction |
| Online booking (`BookingService`, `lib/booking`) | none of its own | catalogue, time slots, create | appointments, clients | slots shown are stale when booked |
| Booking requests (`BookingRequestService`) | `booking_requests` | create (regular, game), link to client, status | games, clients, bot | unique-index retry inside a transaction, unconditional updates |
| Catch-time game (`GameSessionService`, `GamePlayService`, `lib/game`) | `game_sessions`, `game_plays` | start, restart, complete, result, claim | booking requests (the lead consumes the play) | lazy expiry, one play per session, racing completions |
| Wheel of fortune (`WheelPublicGameService`, `lib/game/wheel`) | `game_sessions` bound to a phone, `game_plays` | register, complete with a lead, result | booking requests, in its own transaction | cooldown behind an advisory lock with a clock read before it, unique violations that abort the transaction |
| Clients (`ClientMergeService`, `ClientLinkService`, `AppointmentClientLinkService`, `ClientDuplicateService`, `ClientAdminService`) | `clients`, `bot_client_identity_links` and every row that points to a client | get or create, link, merge, create from a request | appointments, requests, bonuses | snapshots older than the lock waited for, validation outside the transaction |
| Passwords and sign-in (`lib/auth`, `lib/security`) | `password_reset_tokens`, `login_throttle`, in-memory rate limits | request and apply a reset; count and lock sign-in attempts | users | tokens used once, counters under concurrency |
| Bot settings and knowledge publication (`BotSettingsPublicationService`, `BotKnowledgePublicationService`) | drafts and versioned publications, a pointer to the active one | publish, roll back, edit, reset, import | bot reads | one active version; edits beside a publication |
| Communications, promotions, legal documents, import/export, attribution, administration | their tables | CRUD, campaigns, import, export | clients | mostly sequential CRUD |

What makes each correct: a bot operation executes at most once and is answered truthfully; nobody
is booked over somebody else or into closed time; a cancelled appointment stays cancelled; a
client's reschedule is one request; a play yields at most one lead; spins of a phone are a cooldown apart; what a manager is told is published is live,
one version at a time; one person keeps one identity, and a merge loses neither bonuses nor rows; a token is used once.

## 2. Modules

| module | models | abstract specification |
|---|---|---|
| `AtMostOnce` | what an idempotency key promises: performed or refused once, callers told the truth | – |
| `BotOperation` | the durable idempotency protocol and its reconciliation, statement by statement | implements `AtMostOnce` |
| `AgendaRules` | which appointments and blocks of a master's day may coexist (operators only) | – |
| `Agenda` | the days of several masters, every operation atomic | – |
| `Calendar` | the same operations as concurrent requests under PostgreSQL | its Serializable part implements `Agenda` |
| `Clients` | clients, identity links and the rows that point at clients: get-or-create, linking, merging | – |
| `GiftClaim` | a session is played once and claimed by one request | – |
| `GameSession` | the catch-time game and the leads that claim its gifts, statement by statement | implements `GiftClaim` |
| `Wheel` | the wheel of fortune: registration and completion under their locks | implements `GiftClaim` |
| `PublishedVersions` | a log of versions, one of them live | – |
| `Publication` | publishing, rolling back and editing the bot's settings or knowledge | implements `PublishedVersions` |
| `BotOperationProofs`, `AgendaProofs`, `CalendarProofs`, `CalendarRefinement`, `GameSessionProofs`, `WheelProofs`, `PublicationProofs`, `ClientsProofs` | theorems and proofs | |
| `MCBotOperation`, `MCAgenda`, `MCCalendar`, `MCClients`, `MCGameSession`, `MCWheel`, `MCPublication` | constants and symmetry for TLC | |

Where components interact: bot operations wrap the bookings of `Calendar` and the client lookups of
`Clients`; both games end in a lead, a row of `booking_requests`, and share the promise
`GiftClaim` makes of it; the appointments that `Calendar` places are the rows that `Clients` relinks.
Each module keeps of the other components what its own properties can tell apart, so that TLC can
explore the interleavings inside one component completely.

### BotOperation

Variables: `op` (one row of `internal_bot_booking_operations` per key), `call` (one call per
worker: where its handler stands, the age of the `now` it read, its claim, how many attempts of
its transaction have failed, and its answer),
`effects` (what was committed under a key; a history variable) and the crash budget. The actions
follow the statements: the insert of a claim and its unique violation (`InsertCreates`,
`InsertDuplicate`), the lookup with its four outcomes, the guarded takeover, the
preconditions, the attempts of the Serializable transaction, each of which locks the row, checks
that the claim is still its own, performs and marks it (`LockRow`, `OwnershipLost`, `Commit`,
`Rollback`), the lost acknowledgement (`CommitUnacknowledged`) and the failure mark with its three
outcomes. An attempt that meets a serialization failure, at the row lock
(`RowChangedMeanwhile`) or later (`SerializationFailure`), goes back to a fresh one until `MaxTries` are
used up (`TryAgain`: `runSerializableAppointmentWrite` and `runBotBookingSerializableWrite`); between
two attempts a booking creation may find its start taken (`StartTaken`) and refuses for good. Time is relative (`left` of a lease, `age` of a `now`), so it needs no
horizon. A crash ends a call and leaves the row.

`createBotConfirmedBooking`, `bookBotBookingRequest` and the six master commands are one protocol
and share the actions; `map` names for each action the handler where it reads best.
`RequestKeys` are the keys under which a booking request is booked: only there can a handler find
its request tied to an appointment other than the one asked for. `Reconcile` then commits
`RECONCILIATION_REQUIRED` in the transaction itself, a retryable failure without a lease, and performs
nothing. (A request tied to the very appointment asked for is marked as done, like any `Commit`.)
The other keys stand for creations and master commands alike: what only one of the two can answer is
possible for both.

### AgendaRules, Agenda, Calendar

An appointment is a status and an interval, an interval a master, a date and two times. `SCHEDULED`
stands for the four occupying statuses; `RESCHEDULED` and `CANCELLED` occupy no time. Conflicts are
looked for among the rows of one master's day, so a full-day block is given some interval of its
day (`FullDay`), and a changed appointment may move to another day or master, while a block stays with its
master. `waived` is a history variable: the pairs of
appointments whose overlap was accepted by an override. `Agenda` performs each operation in one step;
what concurrent requests make of the same rules (two bookings of one time, a slot shown and booked
meanwhile, an appointment cancelled under a reschedule request) is for the runs of `Calendar`.
A manager may create an appointment in any status; its place is checked whatever it is (`ChecksPlace`),
while an edit is checked only if the appointment then occupies time.

`Calendar` performs them as requests. Serializable ones take a snapshot (`Begin`), decide on it
and commit, are rejected, or fail with 40001 and start again up to `MaxTries` times. A commit
must fail when a concurrent Serializable commit has read-write dependencies with it both ways (at
the granularity of a day's appointments and blocks, which is what the queries read; an appointment
that moves is written in two days), or when a row it
writes changed since its snapshot; it may fail at any time. The model does not refuse longer
dependency cycles, so it admits every execution PostgreSQL does and some more. The manager's blocks
(`Read`, `WriteAdminBlock`), cancellations and the client's reschedule request run in separate
statements; the reschedule holds a row lock from its update to its commit.

### Clients

`clients`, `links` (`bot_client_identity_links`) and `rows` (appointments and booking requests) are
the tables; `bonus` is a client's balance as the set of seed clients whose bonuses it contains, so
that losing or doubling one shows. A worker's `call` is one request. Three kinds of protocol meet:
a bot booking decides on the Serializable snapshot of its first statement, taken before it waits for
an advisory lock, and its commit fails when what it found unknown has been created or mapped meanwhile
(`Collides`); a completion looks, behind the lock, at what is committed; the site's requests, the
manager's decisions and the checks of a merge look outside any transaction. `group`, `overlapped`
and `raced` are history: who was merged with whom, and whether a merge overlapped with another
merge or with a call that had already decided. `MergesConserve` promises nothing once two merges that
share a client have overlapped, nor `NoRowLeftBehind` once a merge and a call past its decision have:
`ClientMergeService` validates outside its transaction and keeps neither promise there. The two say that
nothing short of these races loses a bonus or a row.

### GameSession

One visitor in one catalogue. `session`, `play` and `lead` are the rows of `game_sessions`,
`game_plays` and `booking_requests`; a lead is named by its idempotency key. A worker's `job` holds
the request, the clock it read first, the status it saw and its answer. Every database statement is a
step of its own, except that the last statements of a transaction and its commit are one: their
guards are evaluated on rows whose locks the transaction keeps until it commits. `Expired`
and `Reconciled` are the guarded `updateMany`s. A unique violation is resolved in the step that
meets it, the key's index before the phone's, which is the order of their creation.

### Wheel

One catalogue and campaign; a participant is a phone. `Register` reads the clock and then waits
for the advisory lock (`RegisterLocks`), looks at the attempt and the cooldown (`RegisterLooks`) and
creates the session (`RegisterCreates`). `Complete` locks the session's row, looks for a lead of its
key, checks, and writes play, lead and session together (`CompleteSubmits`). A unique violation or a lost
connection (`Abort`) rolls the whole transaction back, also the lookup that was to resolve the
violation. A worker's `had` is the session that its attempt had when the request arrived.

### Publication

One protocol for two areas. `draft` is what the managers edit, `rows` the publications by version
number, `pointer` the owner's `activePublicationId`. Publications and rollbacks begin with
`TakeLock`, the `FOR UPDATE` of the owner's row, and go on statement by statement. The settings' draft is
that locked row, so an edit waits (`EditSettings`); the knowledge entries are other rows, edited and
imported (`EditEntry`, `Import`, `ImportCommits`) beside a publication that has read them.

## 3. Runs

| run | question | result |
|---|---|---|
| `bot_operation` | can a key be executed twice, lie, or unsettle; is every call answered, every abandoned claim recovered? | no; yes; implements `AtMostOnce` |
| `bot_operation_definitive` | do two definitive answers of one key agree? | **no** |
| `agenda` | can legal operations lead to an illegal day? | no |
| `calendar_bookings` | do concurrent Serializable writes amount to atomic ones? | yes |
| `calendar_manager` | can the manager's unprotected writes make appointments overlap; does a booking enter a block it has seen; one reschedule request per appointment; does every request end? | no; no; yes; yes |
| `calendar_cancelled` | does a cancelled appointment stay cancelled? | **no** |
| `clients` | can a clientRef split, get-or-create duplicate among its own kind, a merge lose a bonus or a row, a call hang? | no |
| `clients_split` | is there one live client per phone while only handlers behind the phone's lock run? | **no** |
| `game_session` | is a session consumed exactly by a lead; one lead per play, one open lead per phone, true answers? | yes; implements `GiftClaim` |
| `game_claim_window` | has a gift somebody was told of a claim window? | **no** |
| `wheel` | are a phone's spins a cooldown apart; does a retry get its spin, a visitor his own lead? | yes; implements `GiftClaim` |
| `publication` | is a draft reported as published live; are versions one log with one live? | yes; implements `PublishedVersions` |

A bold answer is a disagreement between the code and what the repository says of it; `PROJECT.json`
quotes both sides under "findings".

### Bounds

* BotOperation: three callers are the owner, the one that takes over and a stranger with another
  payload, two of them before and after a secret rotation; a lease of one tick and ages of two
  let a `now` be fresh, expired and stale beyond a lease; two crashes can end the owner and its successor;
  two tries show a repeated transaction and the end of its tries (the code's constant is three).
  The key of `bot_operation` is a request's, for `Reconcile`; its safety properties were explored of
  a creation's key as well, with the same result, and are proved of both.
* Agenda: a master's day with two overlapping intervals and one that meets the first, his next day, and
  another master's day: overlap, adjacency, a move between days and one between masters; three
  appointments give an overlap waived with one and not with the other, two blocks a day closed twice.
* Calendar: two overlapping intervals of a day and the next day. Three workers are enough for two
  transactions around a third statement (a deletion or
  cancellation); two tries show both a retry and its exhaustion. The code's constant differs, its
  use does not. Appointments created in a status that occupies no time (`NewStatuses`) come in `agenda` and
  `calendar_manager`; `calendar_bookings` was explored once with `RESCHEDULED` among them, with the same
  result, and takes only `SCHEDULED` to stay small. `calendar_manager` has two blocks, so that two closures of a day meet, and two
  workers, since its requests interfere in pairs. `MaxRequests` bounds the requests of a behaviour; a worker may make several.
* Clients: two clients at first, one without a phone, an appointment of the first and one of an
  unknown phone; two workers make four calls, which is a chain of two merges around a booking or a
  completion. Six ids and rows are one for every call beside the first ones.
* GameSession: three sessions under a limit of two starts, two keys and one phone; six requests are
  two whole plays and their submissions. Windows of one tick within a clock of two let a play
  expire, a gift expire and the limit's window pass (a longer claim window and clock were
  explored as well, with the same result). `IdsLeft` keeps an id for every request that may open a
  session; nothing else depends on it.
* Wheel: two of everything; a cooldown of two ticks within a clock of three has a beginning, a middle
  and an end; four requests are two registrations and two completions, or a retry of each.
* Publication: two workers, two parts of two values, so that an edit and an import can meet on one part and
  miss on the other; five requests publish, roll back and publish again beside another's, two
  edits leave and restore a draft.
* Symmetry is used in safety runs only, over ids the specifications treat alike.

### Fairness

* `BotOperation!FairSpec`: a call that has arrived goes on, the
  bot core retries what was not answered definitively, and time passes. Fairness of a call's own steps is
  strong: they wait for a row lock that other transactions take and release, and PostgreSQL
  serves the waiters of a row in turn. Nothing is assumed of which branch is taken.
* `Calendar!FairSpec`: weak fairness of each worker's steps, the process serving its requests. A
  request blocked on a row lock is not enabled, and is served once its holder commits. No
  fairness is assumed of requests arriving. Spurious serialization failures are not excluded:
  the bound of tries ends them.
* `Clients!FairSpec`: weak fairness of each worker's steps (`Proceed`); no fairness of calls arriving, of which
  there are finitely many, so that a lock once released is not taken for ever by newcomers.
* The other modules state safety only.

## 4. Proofs

All theorems are of the specification for every value of the constants, from the named assumptions of
the modules (`ConstantsAssumption`, `GameAssumption`, ...), which TLC evaluates in the runs.

* **BotOperation.** `IInv` adds to the type invariant what a handler that holds a claim knows
  (`HandlerInv`: who passed which phase, whose the row is) and what a row in progress excludes
  (`RowInv`). Without them a late mark could not be shown harmless: that the row carries
  the marker's lease owner must imply nobody has committed since; a reconciliation writes its failure
  under the same conditions, behind the row lock. From it: `AtMostOnceExecution`,
  `DurableOutcome`, `TruthfulAnswers`, the action properties `SettlementIsFinal` and (with `AskedInv`: a call
  that has met a row finds one) `InProgressIsNoDeadEnd`, and `Refinement`, that
  every step is a step of `AtMostOnce` or a stutter. `FingerprintInv` (a row keeps the fingerprint it was
  created with) gives `AnswersOfAKeyAgree`: `bot_operation_definitive` shows a final failure told
  beside an "ok", and this theorem what never is: two results of one key, or to two calls that know the same
  fingerprints, that the key is another request's and that it is their own. `NoLockIsLeft` (a row lock is held only by the call between its `FOR UPDATE` and its
  end, crashes included) gives `ClaimsAreFenced`: whoever lost its claim changes neither row nor effect.
* **Agenda.** The safety properties are inductive together; the lemmas are about one appointment
  placed, released or left alone (`InvAfterPlaced`, `InvAfterReleased`, `InvAfterBlock`), since every
  operation is one of these.
* **Calendar.** `Inv` says what a snapshot is still worth at the commit (`SeesAppts`): an appointment
  that now occupies time on the day a transaction looks at is in its snapshot, or was committed by
  somebody who looked at the whole of that day, which refuses the commit. With it every accepted
  overlap was seen (`OverlapsAreAccepted`), and an appointment enters a block only as
  `SeenBlocksStayFree` allows; `LocksOK` gives `OneRequestPerAppointment`.
  `CalendarRefinement` adds the same of the blocks (`SeesBlocks`), that nobody inserts another one's row
  (`Reserved`) and that accepted overlaps exist (`WaivedMeet`), and proves `CalendarImplementsAgenda`
  where every enabled writer is Serializable or only frees what it writes (`Protected`): whatever the
  snapshots, refusals and retries, each commit is a step of `Agenda` on the rows as they are. The
  assumption is what `calendar_bookings` instantiates; the manager's closures and the
  reschedule request fall outside it, and `calendar_cancelled` shows what becomes of the latter.
  What each of them breaks, and nothing else does, is proved with the other writers beside it: a cancelled
  row is written only by a reschedule request that holds it (`CancelledRevivedOnlyByReschedule`), so without
  these requests `CancelledIsFinal` holds (`CancellationIsFinalWithoutReschedule`); without the manager's own full-day
  closures a day is closed once (`ClosedOnceByCommands`); without blocks he creates or moves, blocked
  time stays free (`BlocksKeptFreeWithoutManagers`). The last two are carried by
  `Watched`: a transaction has every block of its day in its snapshot, or its commit is refused.
* **GameSession.** `Inv` is the rows' consistency (`RowsOK`: consumed exactly when claimed, one lead
  per play, open leads of a phone equal) with what each request has established (`Fits`: an expiry or
  replacement was decided on an ACTIVE or COMPLETED row). A lemma for each way the rows change shows
  that the rows stay consistent and that the change is one step of `GiftClaim`; a lemma for each
  action shows which of the ways it is. From it: `ConsumptionIsClaimed`, `PlaysYieldOneLead`,
  `PhonesHaveOneOpenLead` and `GameImplementsGiftClaim`. `LeadsAreTheSenders` adds what an answer
  that is not yet taken refers to (`Told`), which stays true because leads keep what was sent with them.
  Two disagreements of the code with its documentation are bounded. `game_claim_window` shows a gift without
  a claim window: `OnlyExpiredGiftsLackAWindow` proves that its session was expired while its completion
  was under way, `LostGiftsStayLost` that it stays lost, `ClaimWindowsAreFixed` that every other window
  stays as granted, `GiftsHaveWindowsOneAtATime` that a single worker never meets this (`AloneOK`). The limit of
  starts is checked without a lock: `StartsOvershootIsBounded` proves, by counting the sessions opened since any
  time together with the starts that have passed the check (`StartsInv`), that in no window are there more than the
  limit and one for every other request under way.
* **Wheel.** `Inv` joins the rows (`RowsOK`), the distance of two spins (`CooldownHolds`), one
  session per attempt, who holds which lock (`LocksOK`) and what a request that holds it has seen
  (`JobsOK`): the look behind the advisory lock is what makes the clock read before it harmless. From it:
  `SpinsAreApart`, `RetriesAreAnswered`, `LeadsAreTold` and `WheelImplementsGiftClaim`;
  `PhonesHaveOneOpenLead` is the phone index beside leads that a manager reopens.
* **Publication.** `Inv` is the owner's row lock (`OneHolder`), the agreement of the pointer with the
  rows (`PointerAgrees`) and what a publication still knows of the draft it has read (`Fresh`). From it:
  `PointersAgree`, `PublishedDraftIsLive` and `PublicationImplementsLog`; and of the other half of the
  answers `ActivatedVersionIsLive`.
* **Clients.** Every step is first shown to be one of fourteen ways of changing the tables and the
  call's record (`Step`), and each invariant is then carried through those. `Base`: what a row, a link,
  a merged client or a call's record names exists. `OnePerson` adds what a snapshot knows of its ref
  (`SamePerson`), so that a commit that does not collide books for the ref's person. `OneMade` adds
  what a call that found nobody may still conclude (`MakesOne`): a bot booking's snapshot holds all
  clients bookings had made of the phone unless its commit is refused, and a completion that holds the phone's
  lock is alone to create. `Conserved` says that what a merge has read stays true until it writes while
  no other merge shares a client with it (`StillTrue`). `Attended` says that what a call has decided on is
  live and that a merge knows all rows of its sources, as long as nothing has raced. From them:
  `TypeCorrect`, `RefsNeverSplit`, `CreatorsMakeOne`, `MergesAreConserving`, `NoRowIsLeftBehind`.
  `OneClientWithOneCreator` is the other side of `clients_split`: where only one kind of handler makes clients
  and nobody merges or links them (`OneCreator`), and no two clients had one phone at first
  (`KnownApart`), a phone keeps one live client.

Liveness (`EveryCallIsAnswered`, `AbandonedClaimIsRecovered`, `EveryRequestEnds`, `EveryCallEnds`) is only
model-checked: fairness and ENABLED are outside the prover's reach. Its safety halves are proved for any number of
workers. In `NoCircularWait` (Calendar, Clients) some request under way is not held up: a request that holds
the row others wait for waits for nothing (`LocksHeld`), and a call that waits for a ref's lock holds
none, one that waits for a phone's at most a ref's (`LocksInOrder`); in BotOperation `NoLockIsLeftBehind` says that a holder
is past its waiting. In `EveryStepIsProgress` (`BotOperation`, `Calendar`, `Clients`, `GameSession`, `Wheel`) each
step of a request lowers how many it has left (`Left`), nobody else's raises it, and a transaction that starts
again is counted in: a bot operation that has arrived is answered after at most `2 * MaxTries + 4`
steps of its own, a calendar request ends after `2 * MaxTries + 2`. What remains to TLC is that an unblocked request does go on, and that the waiters of a lock
are served.

## 5. Not modelled, and what the models leave out

* Work hours and extra windows refuse no appointment's write: only the offer of slots and the deletion of
  an extra window read them. An edit that changes
  the service without moving the appointment is checked anew in the code and keeps its place in the model, which
  admits more. The retry-only path of `updateAppointment` and ownership and provenance of
  blocks are left out. The manage link's cancellation of a `RESCHEDULED` appointment answers that it is
  cancelled and changes nothing.
* `updateScheduleBlock` looks for overlaps at the request's `masterId`
  (`ScheduleBlockService.ts:304`, `:332`) and writes none (`:343`): a request naming another master would
  move the block unchecked on its own. The page always sends the block's own master, and
  `MayMoveTo` models that.
* Disagreements seen in the code that have no run: two starts pass the count of recent sessions
  together (`GameSessionService.ts:499`; `docs/architecture/security-hardening-2026-07-19.md:9` says
  "До 3 стартов"; `StartsOvershootIsBounded` says by how much); a manager's block is checked and then inserted outside a transaction
  (`ScheduleBlockService.ts:288`), so an appointment committed in between stays inside it, which `:151`
  and `appointment-write-conflicts.ts:24` exclude; two managers closing one day at once both insert a
  full-day block (`ScheduleBlockService.ts:230`; `ClosedOnceByCommands`: nobody else does); a retry of a game submission that races its first
  attempt may be refused although its lead exists (`BookingRequestService.ts:638`).
* `bookBotBookingRequest` refuses a created appointment that does not match its own request
  (`BotBookingRequestService.ts:1127`), which cannot happen; cleaning of old idempotency rows does not exist.
* Which values an edit of the bot's settings may combine (mode, response mode, readiness).
* Payload, legal and attribution checks that refuse a request before it touches shared rows.
* The games' lotteries, snapshots and cookies; browsers of several visitors sharing a catalogue meet only
  through the phone index.
* Components listed in `PROJECT.json` as not modelled: read-only views, sequential CRUD, parsing,
  formatting and I/O, most of the files of the repository (pages, React components, scripts
  that check the code, seeds). A model of a form or of a page's markup would say nothing that
  these modules' properties tell apart.

## 6. Plan

In order of what can go wrong most:

1. `PasswordReset`, `LoginThrottle`, `RateLimit`: tokens and counters at their limits.
2. The combinations of the bot's settings under two edits (`BotSettingsService.ts:218`).
3. Extra work windows and work hours, as what an offered slot promises, beside their deletion.

Every safety property the passing runs check is also proved, and each of the violated ones but
`DefinitiveAnswersAgree` under the hypothesis that excludes its cause; what a next module adds comes with its own proofs.
