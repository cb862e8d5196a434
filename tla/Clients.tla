-------------------------------- MODULE Clients --------------------------------
(***************************************************************************)
(* Who a client is: the clients table, the bot's identity links, and the   *)
(* rows (appointments and booking requests) that point at clients, under   *)
(* the handlers that get, create, link and merge clients at the same time. *)
(*                                                                         *)
(*  - bot bookings and master commands: one Serializable transaction, whose *)
(*    snapshot is taken by its first statement, before it waits for an     *)
(*    advisory lock;                                                       *)
(*  - completion of an appointment: a Read Committed transaction behind    *)
(*    the advisory lock of the phone;                                      *)
(*  - booking requests of the site and the manager's decisions on them:    *)
(*    statements outside any transaction;                                  *)
(*  - merges: clients read and balances summed outside the transaction     *)
(*    that writes them.                                                    *)
(*                                                                         *)
(* A phone stands for its match key (the last ten digits), a bonus balance *)
(* for the set of seed clients whose bonuses it contains, so a sum is a    *)
(* union.  Merging is the only way modelled to archive a client.           *)
(***************************************************************************)
EXTENDS Naturals, FiniteSets, Sequences

CONSTANTS
    Ids,        \* ids of clients; a new client takes the least unused one
    Rows,       \* ids of appointments and booking requests, likewise
    Phones,
    Refs,       \* clientRef: the bot's own name of a person
    Workers,    \* requests under way at once
    None,
    Known,      \* <<phone, ...>>: the clients there are at first
    Booked,     \* <<[phone |-> , client |-> ], ...>>: the first appointments
    Kinds,      \* the handlers a configuration enables
    MaxTries,   \* APPOINTMENT_WRITE_SERIALIZABLE_RETRIES
    MaxCalls    \* bound: calls in a behaviour

ASSUME ClientsAssumption ==
    /\ Ids \subseteq Nat \ {0} /\ 1 .. Len(Known) \subseteq Ids
    /\ Rows \subseteq Nat \ {0} /\ 1 .. Len(Booked) \subseteq Rows
    /\ Known \in Seq(Phones \cup {None})
    /\ Booked \in Seq([phone : Phones, client : (1 .. Len(Known)) \cup {None}])
    /\ None \notin Ids \cup Phones \cup Refs
    /\ None \notin {"seed", "bot", "completion", "manager", "appointment", "request"}
    /\ Kinds \subseteq {"bot", "completion", "lead", "online", "link", "separate", "merge"}
    /\ MaxTries \in Nat \ {0} /\ MaxCalls \in Nat

VARIABLES
    clients,    \* [Ids -> [phone, into, by]]; by = None: no such row
    bonus,      \* [Ids -> SUBSET Ids]
    links,      \* [Refs -> client or None]: bot_client_identity_links
    rows,       \* [Rows -> [kind, phone, ref, client, first]]
    call,       \* [Workers -> record]: what each request has decided so far
    begun,      \* calls begun so far
    group,      \* [Ids -> Ids], history: clients ever merged with each other
    overlapped, \* history: two merges sharing a client have overlapped
    raced       \* history: a merge and a call that had made its decision have overlapped

vars == <<clients, bonus, links, rows, call, begun, group, overlapped, raced>>

Idle == [pc |-> "idle"]

Exists(c) == clients[c].by # None
Live(c) == Exists(c) /\ clients[c].into = None
LiveIds == {c \in Ids : Live(c)}
Matching(p) == {c \in LiveIds : clients[c].phone = p}

FreshIds == {c \in Ids : ~Exists(c) /\ \A d \in Ids : d < c => Exists(d)}
FreshRows ==
    {r \in Rows : rows[r].kind = None /\ \A q \in Rows : q < r => rows[q].kind # None}

(* One hop and no more: a target that was merged in turn resolves to nobody. *)
Canonical(c) ==
    LET t == clients[c].into IN
    IF c = None THEN None ELSE IF Live(c) THEN c
    ELSE IF Live(t) THEN t ELSE None

Locked(key) == \E w \in Workers : call[w].pc # "idle" /\ key \in call[w].holds

(***************************************************************************)
(* The steps of a call: Begin takes a worker (Arrive has found one idle),  *)
(* Goto moves on, End releases the locks with the record.                  *)
(***************************************************************************)
Begin(w, kind, c) ==
    /\ kind \in Kinds /\ begun' = begun + 1
    /\ call' = [call EXCEPT ![w] = c]
    /\ UNCHANGED raced

Goto(w, c) == call' = [call EXCEPT ![w] = c] /\ UNCHANGED <<begun, raced>>

Merging(w) == call[w].pc \in {"find rows", "merge"}

(* A call that will still look at the client it writes.                      *)
Undecided(w) ==
    \/ call[w].pc \in {"idle", "assert", "redirect", "find"}
    \/ call[w].pc = "lockPhone" /\ call[w].kind = "completion"

End(w) ==
    /\ call' = [call EXCEPT ![w] = Idle]
    /\ raced' = (raced \/ \E v \in Workers \ {w} :
                    call[v].pc = "merge" \/ (Merging(w) /\ ~Undecided(v)))
    /\ UNCHANGED begun

NewClient(c, p, by) == clients' = [clients EXCEPT ![c] = [phone |-> p, into |-> None, by |-> by]]

NewRow(r, kind, p, ref, c) ==
    rows' = [rows EXCEPT ![r] =
        [kind |-> kind, phone |-> p, ref |-> ref, client |-> c, first |-> c]]

Relink(S, c) == rows' = [r \in Rows |-> IF r \in S THEN [rows[r] EXCEPT !.client = c] ELSE rows[r]]

NoMerge == UNCHANGED <<bonus, group, overlapped>>

Init ==
    /\ clients = [c \in Ids |->
        IF c \leq Len(Known) THEN [phone |-> Known[c], into |-> None, by |-> "seed"]
        ELSE [phone |-> None, into |-> None, by |-> None]]
    /\ bonus = [c \in Ids |-> IF c \leq Len(Known) THEN {c} ELSE {}]
    /\ links = [f \in Refs |-> None]
    /\ rows = [r \in Rows |->
        IF r \leq Len(Booked)
        THEN [kind |-> "appointment", phone |-> Booked[r].phone, ref |-> None,
              client |-> Booked[r].client, first |-> Booked[r].client]
        ELSE [kind |-> None, phone |-> None, ref |-> None, client |-> None, first |-> None]]
    /\ call = [w \in Workers |-> Idle]
    /\ begun = 0
    /\ group = [c \in Ids |-> c]
    /\ overlapped = FALSE /\ raced = FALSE

(***************************************************************************)
(* A bot booking or a master command.  Everything it reads it reads in the *)
(* snapshot of its first statement, so Snapshot already holds its answer:  *)
(* the client its clientRef is mapped to (one that does not resolve fails  *)
(* closed), else the clients matching the phone.  made and mapped are what *)
(* a commit must compare with: the clients of the phone other bot bookings *)
(* had created, and the mapping itself.                                    *)
(***************************************************************************)
Made(p) == {c \in Ids : clients[c].by = "bot" /\ clients[c].phone = p}

Snapshot(p, ref, tries) ==
    LET mapped == IF ref = None THEN None ELSE links[ref] IN
    [pc |-> IF mapped # None THEN "book" ELSE IF ref # None THEN "lockRef" ELSE "lockPhone",
     kind |-> "bot", phone |-> p, ref |-> ref, tries |-> tries, holds |-> {},
     mapped |-> mapped, made |-> Made(p),
     found |-> IF mapped # None THEN {Canonical(mapped)} ELSE Matching(p)]

BotBegin(w, p, ref) ==
    /\ Begin(w, "bot", Snapshot(p, ref, 1))
    /\ UNCHANGED <<clients, links, rows>> /\ NoMerge

(* The clientRef path locks its ref and then the whole number; the legacy    *)
(* path and the master command lock the match key.                           *)
PhoneLock(ref, p) == IF ref = None THEN <<"matchKey", p>> ELSE <<"number", p>>

BotLocksRef(w) ==
    LET c == call[w]  key == <<"ref", c.ref>> IN
    /\ c.pc = "lockRef" /\ ~Locked(key)
    /\ Goto(w, [c EXCEPT !.pc = "lockPhone", !.holds = {key}])
    /\ UNCHANGED <<clients, links, rows>> /\ NoMerge

BotLocksPhone(w) ==
    LET c == call[w]  key == PhoneLock(c.ref, c.phone) IN
    /\ c.pc = "lockPhone" /\ c.kind = "bot" /\ ~Locked(key)
    /\ Goto(w, [c EXCEPT !.pc = "book", !.holds = @ \cup {key}])
    /\ UNCHANGED <<clients, links, rows>> /\ NoMerge

(* Mutant: nothing keeps a clientRef from being mapped twice.                *)
CollidesOnPhone(c) == c.found = {} /\ Made(c.phone) # c.made

(* What makes a booking's transaction fail: the ref was mapped meanwhile     *)
(* (its primary key), or a concurrent Serializable booking created a client  *)
(* of a phone that both had found unknown.                                   *)
Collides(c) ==
    \/ c.ref # None /\ links[c.ref] # c.mapped
    \/ c.found = {} /\ Made(c.phone) # c.made

(* The client, its link and the appointment are committed together.          *)
BotBooks(w) ==
    LET c == call[w] IN
    /\ c.pc = "book" /\ ~Collides(c)
    /\ \E r \in FreshRows, f \in IF c.found = {} THEN FreshIds ELSE c.found \ {None} :
        /\ Cardinality(c.found) \leq 1
        /\ IF c.found = {} THEN NewClient(f, c.phone, "bot") ELSE UNCHANGED clients
        /\ links' = [x \in Refs |-> IF x = c.ref /\ c.mapped = None THEN f ELSE links[x]]
        /\ NewRow(r, "appointment", c.phone, c.ref, f)
    /\ End(w) /\ NoMerge

(* Mutant: a retry decides on what the refused attempt had read.             *)
BotRetriesBlindly(w) ==
    LET c == call[w] IN
    /\ c.pc = "book" /\ Collides(c)
    /\ Goto(w, c)
    /\ UNCHANGED <<clients, links, rows>> /\ NoMerge

(* A serialization failure, or a failure the caller is answered: an          *)
(* ambiguous phone, a ref that resolves to nobody, tries exhausted, a ref    *)
(* found mapped by the insert alone (the handler's lookup after the unique   *)
(* violation fails, since the transaction is aborted).                       *)
BotRetries(w) ==
    LET c == call[w] IN
    /\ c.pc = "book" /\ Collides(c) /\ c.tries < MaxTries
    /\ Goto(w, Snapshot(c.phone, c.ref, c.tries + 1))
    /\ UNCHANGED <<clients, links, rows>> /\ NoMerge

BotFails(w) ==
    LET c == call[w] IN
    /\ c.pc = "book"
    /\ \/ Cardinality(c.found) > 1
       \/ c.found = {None}
       \/ Collides(c) /\ (c.tries = MaxTries \/ c.found # {})
    /\ End(w)
    /\ UNCHANGED <<clients, links, rows>> /\ NoMerge

(***************************************************************************)
(* Completion of an appointment.  A row whose client resolves keeps it or  *)
(* is moved one hop; any other row is given a client by its phone, behind  *)
(* the lock of the match key.  Each read is a statement of its own.        *)
(***************************************************************************)
CompletionBegin(w, r) ==
    LET c == rows[r].client IN
    /\ rows[r].kind = "appointment"
    /\ c # None => ~Live(c)
    /\ Begin(w, "completion",
            [pc |-> IF c = None THEN "lockPhone" ELSE "redirect", kind |-> "completion", row |-> r,
             phone |-> rows[r].phone, holds |-> {}, client |-> c,
             target |-> IF c = None THEN None ELSE clients[c].into, found |-> {}])
    /\ UNCHANGED <<clients, links, rows>> /\ NoMerge

CompletionRedirects(w) ==
    LET c == call[w] IN
    /\ c.pc = "redirect"
    /\ IF Live(c.target)
       THEN Goto(w, [c EXCEPT !.pc = "write", !.found = {c.target}])
       ELSE Goto(w, [c EXCEPT !.pc = "lockPhone"])
    /\ UNCHANGED <<clients, links, rows>> /\ NoMerge

(* Mutant: the advisory lock is not waited for.                              *)
CompletionDoesNotWait(w) ==
    LET c == call[w] IN
    /\ c.pc = "lockPhone" /\ c.kind = "completion"
    /\ Goto(w, [c EXCEPT !.pc = "find"])
    /\ UNCHANGED <<clients, links, rows>> /\ NoMerge

CompletionLocks(w) ==
    LET c == call[w]  key == <<"matchKey", c.phone>> IN
    /\ c.pc = "lockPhone" /\ c.kind = "completion" /\ ~Locked(key)
    /\ Goto(w, [c EXCEPT !.pc = "find", !.holds = {key}])
    /\ UNCHANGED <<clients, links, rows>> /\ NoMerge

CompletionFinds(w) ==
    LET c == call[w] IN
    /\ c.pc = "find"
    /\ Goto(w, [c EXCEPT !.pc = "write", !.found = Matching(c.phone)])
    /\ UNCHANGED <<clients, links, rows>> /\ NoMerge

(* The commit: one match is linked, none is created; several leave the row   *)
(* without the client that did not resolve.                                  *)
CompletionWrites(w) ==
    LET c == call[w] IN
    /\ c.pc = "write"
    /\ IF c.found = {}
       THEN \E f \in FreshIds : NewClient(f, c.phone, "completion") /\ Relink({c.row}, f)
       ELSE /\ UNCHANGED clients
            /\ IF Cardinality(c.found) = 1 THEN \E f \in c.found : Relink({c.row}, f)
               ELSE IF c.client # None THEN Relink({c.row}, None) ELSE UNCHANGED rows
    /\ End(w) /\ UNCHANGED links /\ NoMerge

(***************************************************************************)
(* The site's booking requests and online bookings.  Both are given the one *)
(* client the phone matched when it was looked up; the booking's           *)
(* transaction reads that client again in its snapshot.  A manager links a *)
(* request left without a client, or creates a client for it, having       *)
(* looked outside a transaction.                                           *)
(***************************************************************************)
Resolve(w, kind, next, p) ==
    LET m == Matching(p) IN
    /\ Begin(w, kind, [pc |-> next, phone |-> p, holds |-> {},
                 found |-> IF Cardinality(m) = 1 THEN m ELSE {None}])
    /\ UNCHANGED <<clients, links, rows>> /\ NoMerge

LeadResolves(w, p) == Resolve(w, "lead", "insert", p)
OnlineResolves(w, p) == Resolve(w, "online", "assert", p)

(* assertLinkableClientForAppointment: a merged client refuses the booking.  *)
OnlineAsserts(w) ==
    LET c == call[w] IN
    /\ c.pc = "assert"
    /\ IF \A f \in c.found : f = None \/ Live(f)
       THEN Goto(w, [c EXCEPT !.pc = "insert appointment"]) ELSE End(w)
    /\ UNCHANGED <<clients, links, rows>> /\ NoMerge

OnlineBooks(w) ==
    /\ call[w].pc = "insert appointment"
    /\ \E r \in FreshRows, f \in call[w].found : NewRow(r, "appointment", call[w].phone, None, f)
    /\ End(w) /\ UNCHANGED <<clients, links>> /\ NoMerge

LeadInserts(w) ==
    /\ call[w].pc = "insert"
    /\ \E r \in FreshRows, f \in call[w].found : NewRow(r, "request", call[w].phone, None, f)
    /\ End(w) /\ UNCHANGED <<clients, links>> /\ NoMerge

(* Mutant: that there is such a client is not checked.                       *)
LinkAnyId(w, r, c) ==
    /\ rows[r].kind = "request" /\ rows[r].client = None
    /\ Begin(w, "link", [pc |-> "enrich", row |-> r, phone |-> rows[r].phone, holds |-> {},
                 found |-> {c}, bare |-> FALSE])
    /\ UNCHANGED <<clients, links, rows>> /\ NoMerge

LinkBegin(w, r, c) ==
    /\ rows[r].kind = "request" /\ rows[r].client = None /\ Exists(c)
    /\ Begin(w, "link", [pc |-> "enrich", row |-> r, phone |-> rows[r].phone, holds |-> {},
                 found |-> {c}, bare |-> clients[c].phone = None])
    /\ UNCHANGED <<clients, links, rows>> /\ NoMerge

(* enrichExistingClient: a client read without a phone is given the request's.*)
LinkEnriches(w) ==
    LET c == call[w] IN
    /\ c.pc = "enrich"
    /\ clients' = [d \in Ids |-> IF d \in c.found /\ c.bare
                                 THEN [clients[d] EXCEPT !.phone = c.phone] ELSE clients[d]]
    /\ Goto(w, [c EXCEPT !.pc = "attach"])
    /\ UNCHANGED <<links, rows>> /\ NoMerge

SeparateBegin(w, r) ==
    /\ rows[r].kind = "request" /\ rows[r].client = None /\ Matching(rows[r].phone) = {}
    /\ Begin(w, "separate", [pc |-> "create", row |-> r, phone |-> rows[r].phone, holds |-> {}])
    /\ UNCHANGED <<clients, links, rows>> /\ NoMerge

SeparateCreates(w) ==
    LET c == call[w] IN
    /\ c.pc = "create"
    /\ \E f \in FreshIds :
        /\ NewClient(f, c.phone, "manager")
        /\ Goto(w, [pc |-> "attach", row |-> c.row, phone |-> c.phone, holds |-> {}, found |-> {f}])
    /\ UNCHANGED <<links, rows>> /\ NoMerge

RequestAttaches(w) ==
    /\ call[w].pc = "attach"
    /\ \E f \in call[w].found : Relink({call[w].row}, f)
    /\ End(w) /\ UNCHANGED <<clients, links>> /\ NoMerge

(***************************************************************************)
(* A merge of S into t: read and checked, the rows found, all written.     *)
(***************************************************************************)
Share(c, d) == ({c.target} \cup c.sources) \cap ({d.target} \cup d.sources) # {}

(* The phone the target ends with: its own, else one of its sources'.        *)
FilledPhones(t, S) ==
    LET some == {clients[s].phone : s \in S} \ {None} IN
    IF clients[t].phone # None \/ some = {} THEN {clients[t].phone} ELSE some

(* Mutant: that no source has been merged before is not checked.             *)
MergeAgain(w, t, S) ==
    /\ S # {} /\ t \in LiveIds \ S
    /\ \E p \in FilledPhones(t, S) :
        Begin(w, "merge", [pc |-> "find rows", target |-> t, sources |-> S, holds |-> {}, phone |-> p,
                  sum |-> UNION {bonus[c] : c \in S \cup {t}}, moved |-> {}])
    /\ UNCHANGED <<clients, links, rows>> /\ NoMerge

MergeBegin(w, t, S) ==
    /\ S # {} /\ t \in LiveIds \ S /\ S \subseteq LiveIds
    /\ \E p \in FilledPhones(t, S) :
        Begin(w, "merge", [pc |-> "find rows", target |-> t, sources |-> S, holds |-> {}, phone |-> p,
                  sum |-> UNION {bonus[c] : c \in S \cup {t}}, moved |-> {}])
    /\ UNCHANGED <<clients, links, rows>> /\ NoMerge

(* Mutant: booking requests are left where they are.                         *)
MergeFindsAppointments(w) ==
    LET c == call[w] IN
    /\ c.pc = "find rows"
    /\ Goto(w, [c EXCEPT !.pc = "merge", !.moved =
            {r \in Rows : rows[r].client \in c.sources /\ rows[r].kind = "appointment"}])
    /\ UNCHANGED <<clients, links, rows>> /\ NoMerge

MergeFindsRows(w) ==
    LET c == call[w] IN
    /\ c.pc = "find rows"
    /\ Goto(w, [c EXCEPT !.pc = "merge", !.moved = {r \in Rows : rows[r].client \in c.sources}])
    /\ UNCHANGED <<clients, links, rows>> /\ NoMerge

MergeWrites(w) ==
    LET c == call[w]
        joined == {group[s] : s \in c.sources \cup {c.target}} IN
    /\ c.pc = "merge"
    /\ Relink(c.moved, c.target)
    /\ clients' = [d \in Ids |->
        IF d = c.target THEN [clients[d] EXCEPT !.phone = c.phone]
        ELSE IF d \in c.sources THEN [clients[d] EXCEPT !.into = c.target] ELSE clients[d]]
    /\ bonus' = [bonus EXCEPT ![c.target] = c.sum]
    /\ group' = [d \in Ids |-> IF group[d] \in joined THEN group[c.target] ELSE group[d]]
    /\ overlapped' = (overlapped \/ \E v \in Workers \ {w} : Merging(v) /\ Share(c, call[v]))
    /\ End(w) /\ UNCHANGED links

(* Two merges writing each other's clients deadlock: Postgres refuses one.   *)
MergeFails(w) ==
    /\ call[w].pc = "merge"
    /\ \E v \in Workers \ {w} : call[v].pc = "merge" /\ Share(call[w], call[v])
    /\ End(w)
    /\ UNCHANGED <<clients, links, rows>> /\ NoMerge

Arrive(w) ==
    /\ call[w] = Idle /\ begun < MaxCalls
    /\ \/ \E p \in Phones : LeadResolves(w, p) \/ OnlineResolves(w, p) \/ \E f \in Refs \cup {None} : BotBegin(w, p, f)
       \/ \E r \in Rows : CompletionBegin(w, r) \/ SeparateBegin(w, r)
       \/ \E r \in Rows, c \in Ids : LinkBegin(w, r, c)
       \/ \E S \in SUBSET {c \in Ids : Exists(c)}, t \in Ids : MergeBegin(w, t, S)

Proceed(w) ==
    \/ BotLocksRef(w) \/ BotLocksPhone(w) \/ BotBooks(w) \/ BotRetries(w) \/ BotFails(w)
    \/ CompletionRedirects(w) \/ CompletionLocks(w)
    \/ CompletionFinds(w) \/ CompletionWrites(w)
    \/ LeadInserts(w) \/ OnlineAsserts(w) \/ OnlineBooks(w) \/ LinkEnriches(w) \/ SeparateCreates(w) \/ RequestAttaches(w)
    \/ MergeFindsRows(w) \/ MergeWrites(w) \/ MergeFails(w)

(* The bound reached and every call answered.                                *)
Rest == begun = MaxCalls /\ (\A w \in Workers : call[w] = Idle) /\ UNCHANGED vars

Next == (\E w \in Workers : Arrive(w) \/ Proceed(w)) \/ Rest
Spec == Init /\ [][Next]_vars
FairSpec == Spec /\ \A w \in Workers : WF_vars(Proceed(w))

--------------------------------------------------------------------------------
(***************************************************************************)
(* Properties.                                                             *)
(***************************************************************************)

(* The rows of the tables and of every call's record are of their types, and *)
(* what points at a client points at one that exists.                        *)
TypeOK ==
    /\ clients \in [Ids -> [phone : Phones \cup {None}, into : Ids \cup {None},
                            by : {"seed", "bot", "completion", "manager", None}]]
    /\ bonus \in [Ids -> SUBSET Ids]
    /\ links \in [Refs -> Ids \cup {None}]
    /\ rows \in [Rows -> [kind : {"appointment", "request", None}, phone : Phones \cup {None},
                          ref : Refs \cup {None}, client : Ids \cup {None}, first : Ids \cup {None}]]
    /\ \A w \in Workers :
        \/ call[w] = Idle
        \/ call[w].phone \in Phones \cup {None} /\ call[w].pc \in
            {"lockRef", "lockPhone", "book", "redirect", "find", "write", "insert", "enrich",
             "attach", "create", "assert", "insert appointment", "find rows", "merge"}
    /\ begun \in 0 .. MaxCalls
    /\ group \in [Ids -> Ids]
    /\ overlapped \in BOOLEAN /\ raced \in BOOLEAN
    /\ \A r \in Rows : rows[r].client # None => Exists(rows[r].client)
    /\ \A f \in Refs : links[f] # None => Exists(links[f])
    /\ \A c \in Ids : clients[c].into # None => Exists(c) /\ Exists(clients[c].into)

(* All bookings the bot makes under one clientRef are booked for one person: *)
(* for clients that are the same or have been merged, whatever bookings,     *)
(* completions and merges run beside them.  This is the split identity that  *)
(* resolveBotClientIdByClientRef takes its locks against.                    *)
RefNeverSplits ==
    \A q, r \in Rows :
        rows[q].ref # None /\ rows[q].ref = rows[r].ref
            => group[rows[q].first] = group[rows[r].first]

(* Of one phone, the bot's bookings among themselves leave at most one live  *)
(* client, and so do the completions among themselves: Serializable for the  *)
(* ones, the advisory lock for the others.                                   *)
OneClientPerCreator ==
    \A c, d \in LiveIds :
        /\ clients[c].by \in {"bot", "completion"} /\ clients[d].by = clients[c].by
        /\ clients[d].phone = clients[c].phone
        => c = d

(* Merges that do not overlap on a client leave every group of merged        *)
(* clients with exactly one live client (no chain ends nowhere, none in a    *)
(* cycle), and every bonus in exactly one live client's balance, which       *)
(* commitClientMerge computes from rows read before its transaction.         *)
MergesConserve ==
    ~overlapped =>
        /\ \A c \in Ids : Exists(c) =>
            \E d \in LiveIds : {e \in LiveIds : group[e] = group[c]} = {d}
        /\ \A b \in 1 .. Len(Known) :
            \E d \in LiveIds : {e \in LiveIds : b \in bonus[e]} = {d}

(* A merge takes along every appointment and request of its sources: a row   *)
(* is left with a merged client only when the merge wrote after a call had   *)
(* decided on a client, or the call wrote after the merge had found its rows;*)
(* or when it is a request a manager linked by hand, whom                    *)
(* linkBookingRequestToClient lets choose any client there is (such a        *)
(* request had no client at first).                                          *)
NoRowLeftBehind ==
    ~raced => \A r \in Rows :
        rows[r].client # None /\ (rows[r].kind = "appointment" \/ rows[r].first # None)
            => Live(rows[r].client)

(* Every call ends: the locks of a clientRef and of a phone, taken in that   *)
(* order by some and the phone's alone by others, never wait in a circle,    *)
(* and retries are bounded.                                                  *)
EveryCallEnds == \A w \in Workers : call[w] # Idle ~> call[w] = Idle

(* Of one phone there is at most one live client while only handlers that    *)
(* get-or-create under the phone's advisory lock run.                        *)
OneLiveClientPerPhone == \A p \in Phones : Cardinality(Matching(p)) \leq 1
================================================================================
