----------------------------- MODULE ClientsProofs -----------------------------
(***************************************************************************)
(* What the handlers of clients keep for any number of clients, rows,      *)
(* clientRefs, workers and calls: what points at a client points at one    *)
(* that exists; a clientRef is one person's; get-or-create makes one client *)
(* of a phone among its own kind; merges that do not overlap keep one live *)
(* client of a group and every bonus in one balance; and what no merge     *)
(* raced with is left with a live client.  Waiting for the advisory locks  *)
(* never goes in a circle and every step is one nearer to an answer; and a *)
(* phone keeps one live client where one kind of handler alone creates     *)
(* them.                                                                   *)
(***************************************************************************)
EXTENDS Clients, FiniteSetTheorems, TLAPS

Locks == ({"ref"} \X (Refs \cup {None})) \cup ({"matchKey", "number"} \X Phones)

(* The calls, by the handler they belong to and how far they are. *)
IdleCalls == {Idle}
BotCalls ==
    [pc : {"lockRef", "lockPhone", "book"}, kind : {"bot"}, phone : Phones, ref : Refs \cup {None},
     tries : 1 .. MaxTries, holds : SUBSET Locks, mapped : Ids \cup {None}, made : SUBSET Ids,
     found : SUBSET (Ids \cup {None})]
CompletionCalls ==
    {c \in [pc : {"redirect", "lockPhone", "find", "write"}, kind : {"completion"}, row : Rows,
            phone : Phones, holds : SUBSET Locks, client : Ids \cup {None},
            target : Ids \cup {None}, found : SUBSET Ids] : c.pc = "redirect" => c.target \in Ids}
SiteCalls ==
    [pc : {"insert", "assert", "insert appointment"}, phone : Phones, holds : {{}},
     found : SUBSET (Ids \cup {None})]
LinkCalls ==
    [pc : {"enrich", "attach"}, row : Rows, phone : Phones, holds : {{}}, found : SUBSET Ids,
     bare : BOOLEAN]
CreateCalls == [pc : {"create"}, row : Rows, phone : Phones, holds : {{}}]
AttachCalls == [pc : {"attach"}, row : Rows, phone : Phones, holds : {{}}, found : SUBSET Ids]
MergeCalls ==
    [pc : {"find rows", "merge"}, target : Ids, sources : SUBSET Ids, holds : {{}},
     phone : Phones \cup {None}, sum : SUBSET Ids, moved : SUBSET Rows]
Calls ==
    IdleCalls \cup BotCalls \cup CompletionCalls \cup SiteCalls \cup LinkCalls \cup CreateCalls
    \cup AttachCalls \cup MergeCalls

Makers == {"seed", "bot", "completion", "manager"}
ClientRows ==
    [phone : Phones \cup {None}, into : Ids \cup {None}, by : Makers \cup {None}]
RowRecords ==
    [kind : {"appointment", "request"}, phone : Phones, ref : Refs \cup {None},
     client : Ids \cup {None}, first : Ids \cup {None}]
NoRows ==
    [kind : {None}, phone : {None}, ref : {None}, client : Ids \cup {None}, first : {None}]

Types ==
    /\ clients \in [Ids -> ClientRows]
    /\ bonus \in [Ids -> SUBSET Ids]
    /\ links \in [Refs -> Ids \cup {None}]
    /\ rows \in [Rows -> RowRecords \cup NoRows]
    /\ call \in [Workers -> Calls]
    /\ begun \in 0 .. MaxCalls
    /\ group \in [Ids -> Ids]
    /\ overlapped \in BOOLEAN /\ raced \in BOOLEAN

LEMMA NoneApart ==
    /\ None \notin Ids /\ None \notin Phones /\ None \notin Refs
    /\ None # "seed" /\ None # "bot" /\ None # "completion" /\ None # "manager"
    /\ None # "appointment" /\ None # "request"
BY ClientsAssumption

(* Where a call stands tells which it is. *)
LEMMA CallShape ==
    ASSUME NEW c \in Calls
    PROVE  /\ c.pc = "idle" <=> c = Idle
           /\ c.pc = "idle" <=> c \in IdleCalls
           /\ c.pc \in {"lockRef", "book"} => c \in BotCalls
           /\ c.pc = "lockPhone" => c.kind \in {"bot", "completion"}
           /\ c.pc = "lockPhone" /\ c.kind = "bot" => c \in BotCalls
           /\ c.pc = "lockPhone" /\ c.kind = "completion" => c \in CompletionCalls
           /\ c.pc \in {"redirect", "find", "write"} => c \in CompletionCalls
           /\ c.pc \in {"insert", "assert", "insert appointment"} => c \in SiteCalls
           /\ c.pc = "enrich" => c \in LinkCalls
           /\ c.pc = "attach" => c \in LinkCalls \cup AttachCalls
           /\ c.pc = "create" => c \in CreateCalls
           /\ c.pc \in {"find rows", "merge"} <=> c \in MergeCalls
<1>1. c \in IdleCalls <=> c = Idle
  BY DEF IdleCalls
<1>2. c = Idle => c.pc = "idle"
  BY DEF Idle
<1>3. c \in BotCalls => c.pc \in {"lockRef", "lockPhone", "book"} /\ c.kind = "bot"
  BY DEF BotCalls
<1>4. c \in CompletionCalls => /\ c.pc \in {"redirect", "lockPhone", "find", "write"}
                                /\ c.kind = "completion"
  BY DEF CompletionCalls
<1>5. c \in SiteCalls => c.pc \in {"insert", "assert", "insert appointment"}
  BY DEF SiteCalls
<1>6. c \in LinkCalls => c.pc \in {"enrich", "attach"}
  BY DEF LinkCalls
<1>7. (c \in CreateCalls => c.pc = "create") /\ (c \in AttachCalls => c.pc = "attach")
  BY DEF CreateCalls, AttachCalls
<1>8. c \in MergeCalls => c.pc \in {"find rows", "merge"}
  BY DEF MergeCalls
<1>9. \/ c \in IdleCalls \/ c \in BotCalls \/ c \in CompletionCalls \/ c \in SiteCalls
      \/ c \in LinkCalls \/ c \in CreateCalls \/ c \in AttachCalls \/ c \in MergeCalls
  BY DEF Calls
<1> QED BY <1>1, <1>2, <1>3, <1>4, <1>5, <1>6, <1>7, <1>8, <1>9

LEMMA CallPhones ==
    ASSUME NEW c \in Calls
    PROVE  \/ c = Idle
           \/ c.phone \in Phones \cup {None} /\ c.pc \in
               {"lockRef", "lockPhone", "book", "redirect", "find", "write", "insert", "enrich",
                "attach", "create", "assert", "insert appointment", "find rows", "merge"}
BY DEF Calls, IdleCalls, Idle, BotCalls, CompletionCalls, SiteCalls, LinkCalls, CreateCalls,
       AttachCalls, MergeCalls

LEMMA RowsTyped ==
    ASSUME Types
    PROVE  /\ \A c \in Ids : /\ clients[c].phone \in Phones \cup {None}
                             /\ clients[c].into \in Ids \cup {None}
                             /\ clients[c].by \in Makers \cup {None}
           /\ \A r \in Rows : /\ rows[r].client \in Ids \cup {None}
                              /\ rows[r].first \in Ids \cup {None}
                              /\ rows[r].ref \in Refs \cup {None}
                              /\ rows[r].kind # None => rows[r] \in RowRecords
                              /\ rows[r].kind = None => rows[r] \in NoRows
BY NoneApart DEF Types, ClientRows, RowRecords, NoRows

LEMMA MatchingTyped == \A p : Matching(p) \subseteq Ids /\ LiveIds \subseteq Ids
BY DEF Matching, LiveIds

LEMMA CanonicalTyped ==
    ASSUME Types, NEW c \in Ids \cup {None}
    PROVE  Canonical(c) \in Ids \cup {None}
BY RowsTyped DEF Canonical

(* The snapshot of a bot booking. *)
LEMMA SnapshotTyped ==
    ASSUME Types, NEW p \in Phones, NEW f \in Refs \cup {None}, NEW n \in 1 .. MaxTries
    PROVE  /\ Snapshot(p, f, n) \in BotCalls
           /\ Snapshot(p, f, n).phone = p /\ Snapshot(p, f, n).ref = f
           /\ Snapshot(p, f, n).holds = {}
           /\ Snapshot(p, f, n).mapped = IF f = None THEN None ELSE links[f]
           /\ Snapshot(p, f, n).made = Made(p)
           /\ f # None /\ links[f] # None => Snapshot(p, f, n).found = {Canonical(links[f])}
           /\ f = None \/ links[f] = None => Snapshot(p, f, n).found = Matching(p)
<1> DEFINE mapped == IF f = None THEN None ELSE links[f]
<1>1. mapped \in Ids \cup {None}
  BY NoneApart DEF Types
<1>2. mapped # None <=> f # None /\ links[f] # None
  OBVIOUS
<1>3. Canonical(mapped) \in Ids \cup {None}
  BY <1>1, CanonicalTyped
<1>4. Matching(p) \subseteq Ids /\ Made(p) \subseteq Ids
  BY DEF Matching, LiveIds, Made
<1>5. Snapshot(p, f, n) =
        [pc |-> IF mapped # None THEN "book" ELSE IF f # None THEN "lockRef" ELSE "lockPhone",
         kind |-> "bot", phone |-> p, ref |-> f, tries |-> n, holds |-> {},
         mapped |-> mapped, made |-> Made(p),
         found |-> IF mapped # None THEN {Canonical(mapped)} ELSE Matching(p)]
  BY DEF Snapshot
<1> HIDE DEF mapped
<1> QED BY <1>1, <1>2, <1>3, <1>4, <1>5 DEF BotCalls, mapped

-------------------------------------------------------------------------------
(* The ways a step changes the tables *)


(* The clients a call's record names. *)
Named(c) ==
    IF c \in IdleCalls \cup CreateCalls THEN {}
    ELSE IF c \in MergeCalls THEN {c.target} \cup c.sources
    ELSE c.found \ {None}

Grounded ==
    /\ \A r \in Rows : rows[r].client # None => Exists(rows[r].client)
    /\ \A f \in Refs : links[f] # None => Exists(links[f])
    /\ \A c \in Ids : clients[c].into # None => Exists(c) /\ Exists(clients[c].into)
    /\ \A w \in Workers : \A c \in Named(call[w]) : Exists(c)

Base == Types /\ Grounded

Said(w, c) == call' = [call EXCEPT ![w] = c]

(* Which record of names is meant. *)
LEMMA NamedShape ==
    ASSUME NEW c \in Calls
    PROVE  /\ c.pc \in {"idle", "create"} => Named(c) = {}
           /\ c.pc \in {"find rows", "merge"} => Named(c) = {c.target} \cup c.sources
           /\ c.pc \in {"lockRef", "lockPhone", "book", "redirect", "find", "write", "insert",
                        "assert", "insert appointment", "enrich", "attach"}
                => Named(c) = c.found \ {None}
           /\ Named(c) \subseteq Ids
<1>1. c \in IdleCalls <=> c.pc = "idle"
  BY CallShape
<1>2. c \in CreateCalls <=> c.pc = "create"
  BY CallShape DEF CreateCalls
<1>3. c \in MergeCalls <=> c.pc \in {"find rows", "merge"}
  BY CallShape
<1>4. c \in MergeCalls => c.target \in Ids /\ c.sources \subseteq Ids
  BY DEF MergeCalls
<1>5. c \notin IdleCalls \cup CreateCalls \cup MergeCalls => c.found \subseteq Ids \cup {None}
  BY DEF Calls, BotCalls, CompletionCalls, SiteCalls, LinkCalls, AttachCalls
<1> QED BY <1>1, <1>2, <1>3, <1>4, <1>5 DEF Named

LEMMA SaidCalls ==
    ASSUME Types, NEW w \in Workers, NEW c \in Calls, Said(w, c)
    PROVE  /\ call' \in [Workers -> Calls]
           /\ call'[w] = c
           /\ \A v \in Workers \ {w} : call'[v] = call[v]
BY DEF Types, Said

-------------------------------------------------------------------------------
(* What points at a client points at one that exists *)

(* Clients that exist keep their maker, so they go on existing. *)
Grow == \A c \in Ids : Exists(c) => clients'[c].by = clients[c].by

LEMMA BaseFrame ==
    ASSUME Base, NEW w \in Workers, NEW c \in Calls, Said(w, c), Grow,
           clients' \in [Ids -> ClientRows], links' \in [Refs -> Ids \cup {None}],
           rows' \in [Rows -> RowRecords \cup NoRows], bonus' \in [Ids -> SUBSET Ids],
           group' \in [Ids -> Ids], begun' \in 0 .. MaxCalls,
           overlapped' \in BOOLEAN, raced' \in BOOLEAN,
           \A r \in Rows : rows'[r].client # None =>
              rows'[r].client = rows[r].client \/ clients'[rows'[r].client].by # None,
           \A f \in Refs : links'[f] # None =>
              links'[f] = links[f] \/ clients'[links'[f]].by # None,
           \A d \in Ids : clients'[d].into # None =>
              \/ clients'[d].into = clients[d].into
              \/ clients'[d].by # None /\ clients'[clients'[d].into].by # None,
           \A d \in Named(c) : clients'[d].by # None
    PROVE  Base'
<1>1. /\ call' \in [Workers -> Calls] /\ call'[w] = c
      /\ \A v \in Workers \ {w} : call'[v] = call[v]
  BY SaidCalls DEF Base
<1>2. Types'
  BY <1>1 DEF Types
<1>3. \A d \in Ids : Exists(d) => clients'[d].by # None
  BY DEF Grow, Exists
<1>4. \A r \in Rows : rows'[r].client # None => clients'[rows'[r].client].by # None
  BY <1>3, RowsTyped DEF Base, Grounded
<1>5. \A f \in Refs : links'[f] # None => clients'[links'[f]].by # None
  BY <1>3 DEF Base, Grounded, Types
<1>6. \A d \in Ids : clients'[d].into # None =>
         clients'[d].by # None /\ clients'[clients'[d].into].by # None
  BY <1>3, RowsTyped DEF Base, Grounded
<1>7. ASSUME NEW v \in Workers, NEW d \in Named(call'[v]) PROVE clients'[d].by # None
  <2>1. CASE v = w
    BY <1>1, <2>1
  <2>2. CASE v # w
    <3>1. call'[v] = call[v] /\ call[v] \in Calls
      BY <1>1, <2>2 DEF Base, Types
    <3>2. Exists(d) /\ d \in Ids
      BY <3>1, NamedShape DEF Base, Grounded
    <3> QED BY <1>3, <3>2
  <2> QED BY <2>1, <2>2
<1> QED BY <1>2, <1>4, <1>5, <1>6, <1>7 DEF Base, Grounded, Exists

(* A step of a call that changes no table. *)
Quiet == UNCHANGED <<clients, links, rows>> /\ NoMerge

LEMMA QuietBase ==
    ASSUME Base, NEW w \in Workers, NEW c \in Calls, Said(w, c), Quiet,
           begun' \in 0 .. MaxCalls, raced' \in BOOLEAN,
           \A d \in Named(c) : Exists(d)
    PROVE  Base'
<1>1. Grow /\ UNCHANGED <<clients, links, rows, bonus, group, overlapped>>
  BY DEF Quiet, NoMerge, Grow
<1> QED BY <1>1, BaseFrame DEF Base, Types, Exists

LEMMA QuietEnd ==
    ASSUME Base, NEW w \in Workers, End(w), Quiet
    PROVE  Base'
<1>1. Idle \in Calls /\ Named(Idle) = {} /\ Said(w, Idle)
  BY DEF Calls, IdleCalls, Named, End, Said
<1>2. raced' \in BOOLEAN /\ begun' \in 0 .. MaxCalls
  BY DEF End, Base, Types
<1> QED BY <1>1, <1>2, QuietBase

LEMMA QuietGoto ==
    ASSUME Base, NEW w \in Workers, NEW c \in Calls, Goto(w, c), Quiet, \A d \in Named(c) : Exists(d)
    PROVE  Base'
BY QuietBase DEF Goto, Said, Base, Types

LEMMA QuietBegin ==
    ASSUME Base, NEW w \in Workers, NEW kind, NEW c \in Calls, Begin(w, kind, c), begun < MaxCalls,
           Quiet, \A d \in Named(c) : Exists(d)
    PROVE  Base'
<1>1. begun' \in 0 .. MaxCalls
  BY ClientsAssumption DEF Begin, Base, Types
<1> QED BY <1>1, QuietBase DEF Begin, Said, Base, Types

LEMMA LiveExists == \A c \in LiveIds : c \in Ids /\ Exists(c)
BY DEF LiveIds, Live

LEMMA MatchingExists == \A p : \A c \in Matching(p) : c \in Ids /\ Exists(c) /\ Live(c) /\ clients[c].phone = p
BY LiveExists DEF Matching, LiveIds

LEMMA SnapshotNames ==
    ASSUME Base, NEW p \in Phones, NEW f \in Refs \cup {None}, NEW n \in 1 .. MaxTries
    PROVE  Snapshot(p, f, n) \in Calls /\ \A d \in Named(Snapshot(p, f, n)) : Exists(d)
<1> DEFINE c == Snapshot(p, f, n)
<1>0. c \in BotCalls /\ (c.found = {Canonical(links[f])} \/ c.found = Matching(p))
  <2>1. Types
    BY DEF Base
  <2>2. c \in BotCalls
    BY <2>1, SnapshotTyped
  <2>3. CASE f # None /\ links[f] # None
    BY <2>1, <2>3, SnapshotTyped
  <2>4. CASE f = None \/ links[f] = None
    BY <2>1, <2>4, SnapshotTyped
  <2> QED BY <2>2, <2>3, <2>4
<1> HIDE DEF c
<1>1. /\ c \in BotCalls /\ c.pc \in {"lockRef", "lockPhone", "book"}
      /\ c.found = {Canonical(links[f])} \/ c.found = Matching(p)
  BY <1>0 DEF BotCalls
<1>2. c \in Calls /\ Named(c) = c.found \ {None}
  BY <1>1, NamedShape DEF Calls
<1>3. \A d \in Matching(p) : Exists(d)
  BY MatchingExists
<1>4. \A d : Canonical(d) # None => Exists(Canonical(d))
  BY DEF Canonical, Live
<1>5. \A d \in Named(c) : Exists(d)
  BY <1>1, <1>2, <1>3, <1>4
<1> QED BY <1>2, <1>5 DEF c

-------------------------------------------------------------------------------
(* Steps that change no table *)

LEMMA BotBeginBase ==
    ASSUME Base, NEW w \in Workers, begun < MaxCalls, NEW p \in Phones, NEW f \in Refs \cup {None},
           BotBegin(w, p, f)
    PROVE  Base'
<1>1. 1 \in 1 .. MaxTries
  BY ClientsAssumption
<1> QED BY <1>1, SnapshotNames, QuietBegin DEF BotBegin, Quiet

(***************************************************************************)
(* The record each step leaves its call with.                              *)
(***************************************************************************)
LEMMA StillNamed ==
    ASSUME Base, NEW w \in Workers
    PROVE  call[w] \in Calls /\ \A d \in Named(call[w]) : Exists(d)
BY DEF Base, Types, Grounded

LEMMA SetCalls ==
    /\ BotCalls \subseteq Calls /\ CompletionCalls \subseteq Calls /\ SiteCalls \subseteq Calls
    /\ LinkCalls \subseteq Calls /\ CreateCalls \subseteq Calls /\ AttachCalls \subseteq Calls
    /\ MergeCalls \subseteq Calls /\ Idle \in Calls
BY DEF Calls, IdleCalls

LEMMA BotCallGoesOn ==
    ASSUME NEW c \in BotCalls, NEW pc \in {"lockPhone", "book"}, NEW S \in SUBSET Locks
    PROVE  LET d == [c EXCEPT !.pc = pc, !.holds = S] IN
           /\ d \in BotCalls /\ d.pc = pc /\ d.holds = S /\ d.found = c.found /\ d.made = c.made
           /\ d.mapped = c.mapped /\ d.ref = c.ref /\ d.phone = c.phone
BY DEF BotCalls

(* A bot call that takes a lock keeps its snapshot. *)
BotLocks(w, key, c) ==
    /\ call[w] \in BotCalls /\ call[w].pc \in {"lockRef", "lockPhone"}
    /\ c \in BotCalls /\ c.pc \in {"lockPhone", "book"}
    /\ c.holds \subseteq call[w].holds \cup {key} /\ ~Locked(key)
    /\ c.found = call[w].found /\ c.made = call[w].made /\ c.mapped = call[w].mapped
    /\ c.ref = call[w].ref /\ c.phone = call[w].phone
    /\ Goto(w, c) /\ Quiet

LEMMA BotLocksStep ==
    ASSUME Base, NEW w \in Workers, BotLocksRef(w) \/ BotLocksPhone(w)
    PROVE  \E key, c : BotLocks(w, key, c)
<1>1. CASE BotLocksRef(w)
  <2> DEFINE key == <<"ref", call[w].ref>>
             s == {key}
             c == [call[w] EXCEPT !.pc = "lockPhone", !.holds = s]
  <2>1. call[w] \in BotCalls /\ call[w].pc = "lockRef"
    BY <1>1, StillNamed, CallShape DEF BotLocksRef
  <2>2. s \in SUBSET Locks
    BY <2>1 DEF BotCalls, Locks
  <2>3. Goto(w, c) /\ Quiet /\ ~Locked(key)
    BY <1>1 DEF BotLocksRef, Quiet
  <2>4. s \subseteq call[w].holds \cup {key}
    OBVIOUS
  <2> HIDE DEF s, key
  <2>5. /\ c \in BotCalls /\ c.pc = "lockPhone" /\ c.holds = s /\ c.found = call[w].found
        /\ c.made = call[w].made /\ c.mapped = call[w].mapped /\ c.ref = call[w].ref
        /\ c.phone = call[w].phone
    BY <2>1, <2>2 DEF BotCalls
  <2> HIDE DEF c
  <2>6. BotLocks(w, key, c)
    BY <2>1, <2>3, <2>4, <2>5 DEF BotLocks
  <2> QED BY <2>6
<1>2. CASE BotLocksPhone(w)
  <2> DEFINE key == PhoneLock(call[w].ref, call[w].phone)
             s == call[w].holds \cup {key}
             c == [call[w] EXCEPT !.pc = "book", !.holds = s]
  <2>1. call[w] \in BotCalls /\ call[w].pc = "lockPhone"
    BY <1>2, StillNamed, CallShape DEF BotLocksPhone
  <2>2. s \in SUBSET Locks
    <3>1. call[w].holds \in SUBSET Locks /\ call[w].phone \in Phones
      BY <2>1 DEF BotCalls
    <3>2. key \in Locks
      BY <3>1 DEF PhoneLock, Locks
    <3> QED BY <3>1, <3>2
  <2>3. Goto(w, c) /\ Quiet /\ ~Locked(key)
    BY <1>2 DEF BotLocksPhone, Quiet
  <2>4. s \subseteq call[w].holds \cup {key}
    OBVIOUS
  <2> HIDE DEF s, key
  <2>5. /\ c \in BotCalls /\ c.pc = "book" /\ c.holds = s /\ c.found = call[w].found
        /\ c.made = call[w].made /\ c.mapped = call[w].mapped /\ c.ref = call[w].ref
        /\ c.phone = call[w].phone
    BY <2>1, <2>2, BotCallGoesOn
  <2> HIDE DEF c
  <2>6. BotLocks(w, key, c)
    BY <2>1, <2>3, <2>4, <2>5 DEF BotLocks
  <2> QED BY <2>6
<1> QED BY <1>1, <1>2

LEMMA BotRetriesStep ==
    ASSUME Base, NEW w \in Workers, BotRetries(w)
    PROVE  \E p \in Phones, f \in Refs \cup {None}, n \in 1 .. MaxTries :
              Goto(w, Snapshot(p, f, n)) /\ Quiet
<1>1. call[w] \in BotCalls
  BY StillNamed, CallShape DEF BotRetries
<1>2. call[w].tries \in 1 .. MaxTries /\ call[w].phone \in Phones /\ call[w].ref \in Refs \cup {None}
  BY <1>1 DEF BotCalls
<1>3. call[w].tries + 1 \in 1 .. MaxTries
  BY <1>2, ClientsAssumption DEF BotRetries
<1>4. Goto(w, Snapshot(call[w].phone, call[w].ref, call[w].tries + 1)) /\ Quiet
  BY DEF BotRetries, Quiet
<1> QED BY <1>2, <1>3, <1>4

CompletionStarts(w, r, c) ==
    /\ c \in CompletionCalls /\ c.row = r /\ rows[r].kind = "appointment"
    /\ c.pc \in {"lockPhone", "redirect"} /\ c.found = {} /\ c.holds = {}
    /\ Begin(w, "completion", c) /\ Quiet

LEMMA CompletionBeginStep ==
    ASSUME Base, NEW w \in Workers, NEW r \in Rows, CompletionBegin(w, r)
    PROVE  \E c : CompletionStarts(w, r, c)
<1> DEFINE f == rows[r].client
           t == IF f = None THEN None ELSE clients[f].into
           pc == IF f = None THEN "lockPhone" ELSE "redirect"
           c == [pc |-> pc, kind |-> "completion", row |-> r, phone |-> rows[r].phone,
                 holds |-> {}, client |-> f, target |-> t, found |-> {}]
<1>1. f \in Ids \cup {None} /\ rows[r].phone \in Phones
  BY RowsTyped, NoneApart DEF CompletionBegin, Base, RowRecords
<1>2. t \in Ids \cup {None}
  BY <1>1, RowsTyped DEF Base
<1>3. Begin(w, "completion", c) /\ Quiet /\ rows[r].kind = "appointment"
  BY DEF CompletionBegin, Quiet
<1>4. f # None => t \in Ids
  BY <1>1, RowsTyped DEF CompletionBegin, Base, Grounded, Live
<1>5. pc \in {"lockPhone", "redirect"} /\ (pc = "redirect" => t \in Ids)
  BY <1>4
<1> HIDE DEF t, f, pc
<1>6. c \in CompletionCalls /\ c.found = {} /\ c.pc = pc /\ c.holds = {} /\ c.row = r
  BY <1>1, <1>2, <1>5 DEF CompletionCalls
<1> HIDE DEF c
<1>7. CompletionStarts(w, r, c)
  BY <1>3, <1>5, <1>6 DEF CompletionStarts
<1> QED BY <1>7

(* The steps of a completion: it goes on to wait for the phone's lock, waits *)
(* no longer, or has decided whom to link.                                   *)
CompletionMoves(w, c) ==
    /\ call[w] \in CompletionCalls /\ call[w].pc \in {"redirect", "lockPhone", "find"}
    /\ c \in CompletionCalls /\ c.row = call[w].row /\ c.phone = call[w].phone
    /\ Goto(w, c) /\ Quiet
    /\ \/ c.pc = "lockPhone" /\ c.found = call[w].found /\ c.holds = call[w].holds
       \/ /\ c.pc = "find" /\ c.found = call[w].found
          /\ c.holds = {<<"matchKey", c.phone>>} /\ ~Locked(<<"matchKey", c.phone>>)
       \/ /\ c.pc = "write" /\ c.found # {} /\ c.found \subseteq LiveIds
          /\ c.holds = call[w].holds
       \/ /\ c.pc = "write" /\ c.found = Matching(c.phone)
          /\ c.holds = call[w].holds /\ call[w].pc = "find"

LEMMA CompletionWaits ==
    ASSUME NEW c \in CompletionCalls
    PROVE  LET d == [c EXCEPT !.pc = "lockPhone"] IN
           /\ d \in CompletionCalls /\ d.pc = "lockPhone" /\ d.found = c.found
           /\ d.holds = c.holds /\ d.row = c.row /\ d.phone = c.phone
BY DEF CompletionCalls

LEMMA CompletionGoesOn ==
    ASSUME NEW c \in CompletionCalls, NEW S \in SUBSET Locks
    PROVE  LET d == [c EXCEPT !.pc = "find", !.holds = S] IN
           /\ d \in CompletionCalls /\ d.pc = "find" /\ d.found = c.found
           /\ d.holds = S /\ d.row = c.row /\ d.phone = c.phone
BY DEF CompletionCalls

LEMMA CompletionDecides ==
    ASSUME NEW c \in CompletionCalls, NEW F \in SUBSET Ids
    PROVE  LET d == [c EXCEPT !.pc = "write", !.found = F] IN
           /\ d \in CompletionCalls /\ d.pc = "write" /\ d.found = F
           /\ d.holds = c.holds /\ d.row = c.row /\ d.phone = c.phone
BY DEF CompletionCalls

LEMMA CompletionMovesStep ==
    ASSUME Base, NEW w \in Workers,
           CompletionRedirects(w) \/ CompletionLocks(w) \/ CompletionFinds(w)
    PROVE  \E c : CompletionMoves(w, c)
<1> DEFINE o == call[w]
<1>1. o \in CompletionCalls /\ o.pc \in {"redirect", "lockPhone", "find"} /\ Quiet
  BY StillNamed, CallShape DEF CompletionRedirects, CompletionLocks, CompletionFinds, Quiet
<1>2. CASE CompletionRedirects(w) /\ Live(o.target)
  <2> DEFINE F == {o.target}
             c == [o EXCEPT !.pc = "write", !.found = F]
  <2>1. F \in SUBSET Ids /\ F # {} /\ F \subseteq LiveIds
    BY <1>1, <1>2 DEF CompletionCalls, CompletionRedirects, LiveIds
  <2>2. Goto(w, c)
    BY <1>2 DEF CompletionRedirects
  <2> HIDE DEF F
  <2>3. /\ c \in CompletionCalls /\ c.pc = "write" /\ c.found = F
        /\ c.holds = o.holds /\ c.row = o.row /\ c.phone = o.phone
    BY <1>1, <2>1, CompletionDecides
  <2> HIDE DEF c
  <2> QED BY <1>1, <2>1, <2>2, <2>3 DEF CompletionMoves
<1>3. CASE CompletionRedirects(w) /\ ~Live(o.target)
  <2> DEFINE c == [o EXCEPT !.pc = "lockPhone"]
  <2>1. Goto(w, c)
    BY <1>3 DEF CompletionRedirects
  <2>2. /\ c \in CompletionCalls /\ c.pc = "lockPhone" /\ c.found = o.found
        /\ c.holds = o.holds /\ c.row = o.row /\ c.phone = o.phone
    BY <1>1, CompletionWaits
  <2> HIDE DEF c
  <2> QED BY <1>1, <2>1, <2>2 DEF CompletionMoves
<1>4. CASE CompletionLocks(w)
  <2> DEFINE S == {<<"matchKey", o.phone>>}
             c == [o EXCEPT !.pc = "find", !.holds = S]
  <2>1. S \in SUBSET Locks
    BY <1>1 DEF CompletionCalls, Locks
  <2>2. Goto(w, c) /\ ~Locked(<<"matchKey", o.phone>>)
    BY <1>4 DEF CompletionLocks
  <2>3. S = {<<"matchKey", o.phone>>}
    OBVIOUS
  <2> HIDE DEF S
  <2>4. /\ c \in CompletionCalls /\ c.pc = "find" /\ c.found = o.found
        /\ c.holds = S /\ c.row = o.row /\ c.phone = o.phone
    BY <1>1, <2>1, CompletionGoesOn
  <2> HIDE DEF c
  <2> QED BY <1>1, <2>2, <2>3, <2>4 DEF CompletionMoves
<1>5. CASE CompletionFinds(w)
  <2> DEFINE F == Matching(o.phone)
             c == [o EXCEPT !.pc = "write", !.found = F]
  <2>1. F \in SUBSET Ids
    BY MatchingTyped
  <2>2. Goto(w, c) /\ o.pc = "find"
    BY <1>5 DEF CompletionFinds
  <2>3. F = Matching(o.phone)
    OBVIOUS
  <2> HIDE DEF F
  <2>4. /\ c \in CompletionCalls /\ c.pc = "write" /\ c.found = F
        /\ c.holds = o.holds /\ c.row = o.row /\ c.phone = o.phone
    BY <1>1, <2>1, CompletionDecides
  <2> HIDE DEF c
  <2> QED BY <1>1, <2>2, <2>3, <2>4 DEF CompletionMoves
<1> QED BY <1>2, <1>3, <1>4, <1>5

SiteStarts(w, kind, c) ==
    /\ c \in SiteCalls /\ c.pc \in {"insert", "assert"}
    /\ \A f \in c.found : f = None \/ Live(f)
    /\ Begin(w, kind, c) /\ Quiet

LEMMA ResolveStep ==
    ASSUME Base, NEW w \in Workers, NEW p \in Phones, LeadResolves(w, p) \/ OnlineResolves(w, p)
    PROVE  \E kind, c : SiteStarts(w, kind, c)
<1> DEFINE m == Matching(p)
           F == IF Cardinality(m) = 1 THEN m ELSE {None}
<1>1. PICK pc, kind :
         pc \in {"insert", "assert"} /\ Begin(w, kind, [pc |-> pc, phone |-> p, holds |-> {}, found |-> F]) /\ Quiet
  BY DEF LeadResolves, OnlineResolves, Resolve, Quiet
<1>2. F \subseteq Ids \cup {None} /\ \A f \in F : f = None \/ Live(f)
  BY MatchingExists
<1> DEFINE c == [pc |-> pc, phone |-> p, holds |-> {}, found |-> F]
<1> HIDE DEF F
<1>3. c \in SiteCalls /\ c.pc = pc /\ c.found = F
  BY <1>1, <1>2 DEF SiteCalls
<1>4. Begin(w, kind, c)
  BY <1>1
<1> HIDE DEF c
<1>5. SiteStarts(w, kind, c)
  BY <1>1, <1>2, <1>3, <1>4 DEF SiteStarts
<1> QED BY <1>5

SiteMoves(w, c) ==
    /\ call[w] \in SiteCalls /\ call[w].pc = "assert"
    /\ c \in SiteCalls /\ c.pc = "insert appointment" /\ c.found = call[w].found
    /\ \A f \in c.found : f = None \/ Live(f)
    /\ Goto(w, c) /\ Quiet

LEMMA OnlineAssertsStep ==
    ASSUME Base, NEW w \in Workers, OnlineAsserts(w)
    PROVE  (End(w) /\ Quiet) \/ \E c : SiteMoves(w, c)
<1>1. call[w] \in SiteCalls /\ call[w].pc = "assert" /\ Quiet
  BY StillNamed, CallShape DEF OnlineAsserts, Quiet
<1> DEFINE c == [call[w] EXCEPT !.pc = "insert appointment"]
<1>2. c \in SiteCalls /\ c.pc = "insert appointment" /\ c.found = call[w].found
  BY <1>1 DEF SiteCalls
<1>3. (Goto(w, c) /\ \A f \in call[w].found : f = None \/ Live(f)) \/ End(w)
  BY DEF OnlineAsserts
<1> HIDE DEF c
<1> QED BY <1>1, <1>2, <1>3 DEF SiteMoves

LinkStarts(w, r, d, c) ==
    /\ rows[r].kind = "request" /\ rows[r].client = None
    /\ Exists(d) /\ c \in LinkCalls /\ c.pc = "enrich" /\ c.row = r /\ c.found = {d}
    /\ c.bare => clients[d].phone = None
    /\ Begin(w, "link", c) /\ Quiet

LEMMA LinkBeginStep ==
    ASSUME Base, NEW w \in Workers, NEW r \in Rows, NEW d \in Ids, LinkBegin(w, r, d)
    PROVE  \E c : LinkStarts(w, r, d, c)
<1> DEFINE b == clients[d].phone = None
           c == [pc |-> "enrich", row |-> r, phone |-> rows[r].phone, holds |-> {},
                 found |-> {d}, bare |-> b]
<1>1. rows[r].phone \in Phones
  BY RowsTyped, NoneApart DEF LinkBegin, Base, RowRecords
<1>2. /\ Begin(w, "link", c) /\ Quiet /\ Exists(d)
      /\ rows[r].kind = "request" /\ rows[r].client = None
  BY DEF LinkBegin, Quiet
<1>3. b \in BOOLEAN /\ (b => clients[d].phone = None)
  OBVIOUS
<1> HIDE DEF b
<1>4. c \in LinkCalls /\ c.pc = "enrich" /\ c.found = {d} /\ c.row = r /\ c.bare = b
  BY <1>1, <1>3 DEF LinkCalls
<1> HIDE DEF c
<1>5. LinkStarts(w, r, d, c)
  BY <1>2, <1>3, <1>4 DEF LinkStarts
<1> QED BY <1>5

CreateStarts(w, r, c) ==
    /\ rows[r].kind = "request" /\ rows[r].client = None
    /\ c \in CreateCalls /\ c.row = r
    /\ Begin(w, "separate", c) /\ Quiet

LEMMA SeparateBeginStep ==
    ASSUME Base, NEW w \in Workers, NEW r \in Rows, SeparateBegin(w, r)
    PROVE  \E c : CreateStarts(w, r, c)
<1> DEFINE c == [pc |-> "create", row |-> r, phone |-> rows[r].phone, holds |-> {}]
<1>1. rows[r].phone \in Phones
  BY RowsTyped, NoneApart DEF SeparateBegin, Base, RowRecords
<1>2. /\ Begin(w, "separate", c) /\ Quiet
      /\ rows[r].kind = "request" /\ rows[r].client = None
  BY DEF SeparateBegin, Quiet
<1>3. c \in CreateCalls /\ c.row = r
  BY <1>1 DEF CreateCalls
<1> HIDE DEF c
<1> QED BY <1>2, <1>3 DEF CreateStarts

MergeStarts(w, t, S, c) ==
    /\ t \in LiveIds \ S /\ S \subseteq LiveIds
    /\ c \in MergeCalls /\ c.pc = "find rows" /\ c.target = t /\ c.sources = S
    /\ c.phone \in FilledPhones(t, S) /\ c.sum = UNION {bonus[d] : d \in S \cup {t}}
    /\ Begin(w, "merge", c) /\ Quiet

LEMMA MergeBeginStep ==
    ASSUME Base, NEW w \in Workers, NEW t \in Ids, NEW S \in SUBSET Ids, MergeBegin(w, t, S)
    PROVE  \E c : MergeStarts(w, t, S, c)
<1>1. t \in LiveIds \ S /\ S \subseteq LiveIds /\ Quiet
  BY DEF MergeBegin, Quiet
<1> DEFINE b == UNION {bonus[d] : d \in S \cup {t}}
<1>2. PICK p \in FilledPhones(t, S) :
        Begin(w, "merge", [pc |-> "find rows", target |-> t, sources |-> S, holds |-> {}, phone |-> p,
                  sum |-> b, moved |-> {}])
  BY DEF MergeBegin
<1>3. p \in Phones \cup {None}
  BY RowsTyped DEF FilledPhones, Base
<1> DEFINE c == [pc |-> "find rows", target |-> t, sources |-> S, holds |-> {}, phone |-> p,
                 sum |-> b, moved |-> {}]
<1>4. b \subseteq Ids /\ b = UNION {bonus[d] : d \in S \cup {t}}
  BY DEF Base, Types
<1>5. Begin(w, "merge", c)
  BY <1>2
<1> HIDE DEF b
<1>6. /\ c \in MergeCalls /\ c.pc = "find rows" /\ c.target = t /\ c.sources = S
      /\ c.phone = p /\ c.sum = b
  BY <1>3, <1>4 DEF MergeCalls
<1> HIDE DEF c
<1>7. MergeStarts(w, t, S, c)
  BY <1>1, <1>2, <1>4, <1>5, <1>6 DEF MergeStarts
<1> QED BY <1>7

MergeMoves(w, c) ==
    /\ call[w] \in MergeCalls /\ call[w].pc = "find rows"
    /\ c \in MergeCalls /\ c.pc = "merge" /\ c.target = call[w].target
    /\ c.sources = call[w].sources /\ c.phone = call[w].phone /\ c.sum = call[w].sum
    /\ c.moved = {r \in Rows : rows[r].client \in c.sources}
    /\ Goto(w, c) /\ Quiet

LEMMA MergeFindsRowsStep ==
    ASSUME Base, NEW w \in Workers, MergeFindsRows(w)
    PROVE  \E c : MergeMoves(w, c)
<1>1. call[w] \in MergeCalls /\ call[w].pc = "find rows"
  BY StillNamed, CallShape DEF MergeFindsRows
<1> DEFINE R == {r \in Rows : rows[r].client \in call[w].sources}
           c == [call[w] EXCEPT !.pc = "merge", !.moved = R]
<1>2. Quiet /\ Goto(w, c) /\ R \subseteq Rows
  BY DEF MergeFindsRows, Quiet
<1>3. R = {r \in Rows : rows[r].client \in call[w].sources}
  OBVIOUS
<1> HIDE DEF R
<1>4. /\ c \in MergeCalls /\ c.pc = "merge" /\ c.target = call[w].target
      /\ c.sources = call[w].sources /\ c.phone = call[w].phone /\ c.sum = call[w].sum
      /\ c.moved = R
  BY <1>1, <1>2 DEF MergeCalls
<1> HIDE DEF c
<1>5. MergeMoves(w, c)
  BY <1>1, <1>2, <1>3, <1>4 DEF MergeMoves
<1> QED BY <1>5

-------------------------------------------------------------------------------
(* Steps that change no table *)

LEMMA BotQuietBase ==
    ASSUME Base, NEW w \in Workers, BotLocksRef(w) \/ BotLocksPhone(w) \/ BotRetries(w)
    PROVE  Base'
<1>1. CASE BotRetries(w)
  BY <1>1, BotRetriesStep, SnapshotNames, QuietGoto
<1>2. CASE BotLocksRef(w) \/ BotLocksPhone(w)
  <2>1. PICK key, c : BotLocks(w, key, c)
    BY <1>2, BotLocksStep
  <2>2. call[w] \in Calls /\ c \in Calls /\ Goto(w, c) /\ Quiet
    BY <2>1, SetCalls DEF BotLocks
  <2>3. Named(c) = Named(call[w])
    BY <2>1, <2>2, NamedShape DEF BotLocks
  <2> QED BY <2>2, <2>3, StillNamed, QuietGoto
<1> QED BY <1>1, <1>2

LEMMA EndingBase ==
    ASSUME Base, NEW w \in Workers, BotFails(w) \/ MergeFails(w)
    PROVE  Base'
<1>1. End(w) /\ Quiet
  BY DEF BotFails, MergeFails, Quiet
<1> QED BY <1>1, QuietEnd

LEMMA CompletionBase ==
    ASSUME Base, NEW w \in Workers,
           CompletionRedirects(w) \/ CompletionLocks(w) \/ CompletionFinds(w)
    PROVE  Base'
<1>1. PICK c : CompletionMoves(w, c)
  BY CompletionMovesStep
<1>2. /\ call[w] \in Calls /\ c \in Calls /\ Goto(w, c) /\ Quiet
  BY <1>1, SetCalls DEF CompletionMoves
<1>3. Named(c) = c.found \ {None} /\ Named(call[w]) = call[w].found \ {None}
  BY <1>1, <1>2, NamedShape DEF CompletionMoves
<1>4. c.found = call[w].found \/ c.found \subseteq LiveIds \/ c.found = Matching(c.phone)
  BY <1>1 DEF CompletionMoves
<1>5. \A d \in Named(c) : Exists(d)
  BY <1>3, <1>4, StillNamed, LiveExists, MatchingExists
<1> QED BY <1>2, <1>5, QuietGoto

LEMMA BeginBase ==
    ASSUME Base, NEW w \in Workers, begun < MaxCalls, NEW r \in Rows,
           CompletionBegin(w, r) \/ SeparateBegin(w, r)
    PROVE  Base'
<1>1. CASE CompletionBegin(w, r)
  <2>1. PICK c : CompletionStarts(w, r, c)
    BY <1>1, CompletionBeginStep
  <2>2. c \in Calls /\ Named(c) = {} /\ Begin(w, "completion", c) /\ Quiet
    BY <2>1, SetCalls, NamedShape DEF CompletionStarts
  <2> QED BY <2>2, QuietBegin
<1>2. CASE SeparateBegin(w, r)
  <2>1. PICK c : CreateStarts(w, r, c)
    BY <1>2, SeparateBeginStep
  <2>2. c.pc = "create" /\ c \in Calls
    BY <2>1, SetCalls DEF CreateStarts, CreateCalls
  <2>3. Named(c) = {} /\ Begin(w, "separate", c) /\ Quiet
    BY <2>1, <2>2, NamedShape DEF CreateStarts
  <2> QED BY <2>2, <2>3, QuietBegin
<1> QED BY <1>1, <1>2

LEMMA ResolveBase ==
    ASSUME Base, NEW w \in Workers, begun < MaxCalls, NEW p \in Phones,
           LeadResolves(w, p) \/ OnlineResolves(w, p)
    PROVE  Base'
<1>1. PICK kind, c : SiteStarts(w, kind, c)
  BY ResolveStep
<1>2. c \in Calls /\ Named(c) = c.found \ {None} /\ Begin(w, kind, c) /\ Quiet
  BY <1>1, SetCalls, NamedShape DEF SiteStarts
<1>3. \A d \in Named(c) : Exists(d)
  BY <1>1, <1>2 DEF SiteStarts, Live
<1> QED BY <1>2, <1>3, QuietBegin

LEMMA OnlineAssertsBase ==
    ASSUME Base, NEW w \in Workers, OnlineAsserts(w)
    PROVE  Base'
<1>1. CASE End(w) /\ Quiet
  BY <1>1, QuietEnd
<1>2. ASSUME NEW c, SiteMoves(w, c) PROVE Base'
  <2>1. c \in Calls /\ Named(c) = c.found \ {None} /\ Goto(w, c) /\ Quiet
    BY <1>2, SetCalls, NamedShape DEF SiteMoves
  <2>2. \A d \in Named(c) : Exists(d)
    BY <1>2, <2>1 DEF SiteMoves, Live
  <2> QED BY <2>1, <2>2, QuietGoto
<1> QED BY <1>1, <1>2, OnlineAssertsStep

LEMMA LinkBeginBase ==
    ASSUME Base, NEW w \in Workers, begun < MaxCalls, NEW r \in Rows, NEW d \in Ids,
           LinkBegin(w, r, d)
    PROVE  Base'
<1>1. PICK c : LinkStarts(w, r, d, c)
  BY LinkBeginStep
<1>2. c \in Calls /\ Named(c) = {d} \ {None} /\ Begin(w, "link", c) /\ Quiet
  BY <1>1, SetCalls, NamedShape DEF LinkStarts
<1>3. \A x \in Named(c) : Exists(x)
  BY <1>1, <1>2 DEF LinkStarts
<1> QED BY <1>2, <1>3, QuietBegin

LEMMA MergeBeginBase ==
    ASSUME Base, NEW w \in Workers, begun < MaxCalls, NEW t \in Ids, NEW S \in SUBSET Ids,
           MergeBegin(w, t, S)
    PROVE  Base'
<1>1. PICK c : MergeStarts(w, t, S, c)
  BY MergeBeginStep
<1>2. c \in Calls /\ Named(c) = {t} \cup S /\ Begin(w, "merge", c) /\ Quiet
  BY <1>1, SetCalls, NamedShape DEF MergeStarts
<1>3. \A x \in Named(c) : Exists(x)
  BY <1>1, <1>2, LiveExists DEF MergeStarts
<1> QED BY <1>2, <1>3, QuietBegin

LEMMA MergeFindsRowsBase ==
    ASSUME Base, NEW w \in Workers, MergeFindsRows(w)
    PROVE  Base'
<1>1. PICK c : MergeMoves(w, c)
  BY MergeFindsRowsStep
<1>2. c \in Calls /\ call[w] \in Calls /\ Goto(w, c) /\ Quiet
  BY <1>1, SetCalls DEF MergeMoves
<1>3. Named(c) = Named(call[w])
  BY <1>1, <1>2, NamedShape DEF MergeMoves
<1> QED BY <1>2, <1>3, StillNamed, QuietGoto

-------------------------------------------------------------------------------
(* Steps that change the tables *)

ClientAdded(f, p, by) ==
    /\ f \in Ids /\ ~Exists(f) /\ clients' \in [Ids -> ClientRows]
    /\ clients'[f].phone = p /\ clients'[f].into = None /\ clients'[f].by = by
    /\ \A d \in Ids \ {f} : clients'[d] = clients[d]

RowAdded(r, kind, p, ref, f) ==
    /\ r \in Rows /\ rows[r].kind = None /\ rows' \in [Rows -> RowRecords \cup NoRows]
    /\ rows'[r].kind = kind /\ rows'[r].phone = p /\ rows'[r].ref = ref
    /\ rows'[r].client = f /\ rows'[r].first = f
    /\ \A q \in Rows \ {r} : rows'[q] = rows[q]

Relinked(S, f) ==
    /\ rows' \in [Rows -> RowRecords \cup NoRows]
    /\ \A r \in Rows :
        /\ rows'[r].client = IF r \in S THEN f ELSE rows[r].client
        /\ rows'[r].kind = rows[r].kind /\ rows'[r].phone = rows[r].phone
        /\ rows'[r].ref = rows[r].ref /\ rows'[r].first = rows[r].first

LEMMA NewClientAdds ==
    ASSUME Types, NEW f \in FreshIds, NEW p \in Phones \cup {None}, NEW by \in Makers,
           NewClient(f, p, by)
    PROVE  ClientAdded(f, p, by)
<1>1. f \in Ids /\ ~Exists(f)
  BY DEF FreshIds
<1>2. [phone |-> p, into |-> None, by |-> by] \in ClientRows
  BY DEF ClientRows
<1>3. /\ clients' \in [Ids -> ClientRows]
      /\ clients'[f] = [phone |-> p, into |-> None, by |-> by]
      /\ \A d \in Ids \ {f} : clients'[d] = clients[d]
  BY <1>1, <1>2 DEF Types, NewClient
<1> QED BY <1>1, <1>3 DEF ClientAdded

LEMMA ClientAddedGrows ==
    ASSUME NEW f, NEW p, NEW by \in Makers, ClientAdded(f, p, by)
    PROVE  /\ clients' \in [Ids -> ClientRows] /\ Grow /\ f \in Ids /\ clients'[f].by # None
           /\ \A d \in Ids : clients'[d].into # None => clients'[d].into = clients[d].into
<1>1. by # None
  BY NoneApart DEF Makers
<1> QED BY <1>1 DEF Grow, ClientAdded

LEMMA NewRowAdds ==
    ASSUME Types, NEW r \in FreshRows, NEW kind \in {"appointment", "request"}, NEW p \in Phones,
           NEW ref \in Refs \cup {None}, NEW f \in Ids \cup {None}, NewRow(r, kind, p, ref, f)
    PROVE  RowAdded(r, kind, p, ref, f)
<1>1. r \in Rows /\ rows[r].kind = None
  BY DEF FreshRows
<1>2. [kind |-> kind, phone |-> p, ref |-> ref, client |-> f, first |-> f] \in RowRecords
  BY DEF RowRecords
<1>3. /\ rows' \in [Rows -> RowRecords \cup NoRows]
      /\ rows'[r] = [kind |-> kind, phone |-> p, ref |-> ref, client |-> f, first |-> f]
      /\ \A q \in Rows \ {r} : rows'[q] = rows[q]
  BY <1>1, <1>2 DEF Types, NewRow
<1> QED BY <1>1, <1>3 DEF RowAdded

LEMMA RelinkMoves ==
    ASSUME Types, NEW S, NEW f \in Ids \cup {None}, Relink(S, f)
    PROVE  Relinked(S, f)
<1>1. \A r \in Rows : rows'[r] = IF r \in S THEN [rows[r] EXCEPT !.client = f] ELSE rows[r]
  BY DEF Relink
<1>2. \A x \in RowRecords : /\ [x EXCEPT !.client = f] \in RowRecords
                            /\ [x EXCEPT !.client = f].client = f
                            /\ [x EXCEPT !.client = f].kind = x.kind
                            /\ [x EXCEPT !.client = f].phone = x.phone
                            /\ [x EXCEPT !.client = f].ref = x.ref
                            /\ [x EXCEPT !.client = f].first = x.first
  BY DEF RowRecords
<1>3. \A x \in NoRows : /\ [x EXCEPT !.client = f] \in NoRows
                        /\ [x EXCEPT !.client = f].client = f
                        /\ [x EXCEPT !.client = f].kind = x.kind
                        /\ [x EXCEPT !.client = f].phone = x.phone
                        /\ [x EXCEPT !.client = f].ref = x.ref
                        /\ [x EXCEPT !.client = f].first = x.first
  BY DEF NoRows
<1>4. \A r \in Rows : rows[r] \in RowRecords \/ rows[r] \in NoRows
  BY DEF Types
<1>5. ASSUME NEW r \in Rows
      PROVE  /\ rows'[r] \in RowRecords \cup NoRows
             /\ rows'[r].client = IF r \in S THEN f ELSE rows[r].client
             /\ rows'[r].kind = rows[r].kind /\ rows'[r].phone = rows[r].phone
             /\ rows'[r].ref = rows[r].ref /\ rows'[r].first = rows[r].first
  <2>1. CASE r \in S /\ rows[r] \in RowRecords
    BY <1>1, <1>2, <2>1
  <2>2. CASE r \in S /\ rows[r] \in NoRows
    BY <1>1, <1>3, <2>2
  <2>3. CASE r \notin S
    BY <1>1, <1>4, <2>3
  <2> QED BY <1>4, <2>1, <2>2, <2>3
<1>6. rows' = [r \in Rows |-> IF r \in S THEN [rows[r] EXCEPT !.client = f] ELSE rows[r]]
  BY DEF Relink
<1> QED BY <1>5, <1>6 DEF Relinked

(***************************************************************************)
(* What each of these steps writes.                                        *)
(***************************************************************************)
BotCommits(w, r, f) ==
    /\ call[w] \in BotCalls /\ call[w].pc = "book" /\ ~Collides(call[w])
    /\ f \in Ids
    /\ call[w].found = {} => ClientAdded(f, call[w].phone, "bot")
    /\ call[w].found # {} => f \in call[w].found \ {None} /\ clients' = clients
    /\ links' = [x \in Refs |-> IF x = call[w].ref /\ call[w].mapped = None THEN f ELSE links[x]]
    /\ RowAdded(r, "appointment", call[w].phone, call[w].ref, f)
    /\ End(w) /\ NoMerge

LEMMA BotBooksStep ==
    ASSUME Base, NEW w \in Workers, BotBooks(w)
    PROVE  \E r, f : BotCommits(w, r, f)
<1> DEFINE c == call[w]
<1>1. Types
  BY DEF Base
<1>2. c \in BotCalls /\ c.pc = "book" /\ ~Collides(c) /\ End(w) /\ NoMerge
  BY StillNamed, CallShape DEF BotBooks
<1>3. c.found \subseteq Ids \cup {None} /\ c.phone \in Phones /\ c.ref \in Refs \cup {None}
  BY <1>2 DEF BotCalls
<1>4. PICK r \in FreshRows, f \in Ids :
         /\ c.found = {} => f \in FreshIds /\ NewClient(f, c.phone, "bot")
         /\ c.found # {} => f \in c.found \ {None} /\ clients' = clients
         /\ links' = [x \in Refs |-> IF x = c.ref /\ c.mapped = None THEN f ELSE links[x]]
         /\ NewRow(r, "appointment", c.phone, c.ref, f)
  BY <1>3 DEF BotBooks, FreshIds
<1>5. "bot" \in Makers /\ c.phone \in Phones \cup {None} /\ "appointment" \in {"appointment", "request"}
      /\ f \in Ids \cup {None}
  BY <1>3 DEF Makers
<1> HIDE DEF c
<1>6. c.found = {} => ClientAdded(f, c.phone, "bot")
  BY <1>1, <1>4, <1>5, NewClientAdds
<1>7. RowAdded(r, "appointment", c.phone, c.ref, f)
  <2>1. NewRow(r, "appointment", c.phone, c.ref, f)
    BY <1>4
  <2> QED BY <1>1, <1>3, <1>5, <2>1, NewRowAdds
<1> QED BY <1>2, <1>4, <1>6, <1>7 DEF BotCommits, c

CompletionCommits(w, S, f) ==
    /\ call[w] \in CompletionCalls /\ call[w].pc = "write"
    /\ S \subseteq {call[w].row} /\ Relinked(S, f)
    /\ \/ call[w].found = {} /\ ClientAdded(f, call[w].phone, "completion")
       \/ call[w].found # {} /\ clients' = clients /\ (f = None \/ f \in call[w].found)
    /\ End(w) /\ links' = links /\ NoMerge

LEMMA CompletionWritesStep ==
    ASSUME Base, NEW w \in Workers, CompletionWrites(w)
    PROVE  \E S, f : CompletionCommits(w, S, f)
<1> DEFINE c == call[w]
<1>1. Types
  BY DEF Base
<1>2. c \in CompletionCalls /\ c.pc = "write" /\ End(w) /\ NoMerge /\ links' = links
  BY StillNamed, CallShape DEF CompletionWrites
<1>3. c.found \subseteq Ids /\ c.phone \in Phones
  BY <1>2 DEF CompletionCalls
<1>4. CASE c.found = {}
  <2>1. PICK f \in FreshIds : NewClient(f, c.phone, "completion") /\ Relink({c.row}, f)
    BY <1>4 DEF CompletionWrites
  <2>2. "completion" \in Makers /\ c.phone \in Phones \cup {None} /\ f \in Ids \cup {None}
    BY <1>3 DEF Makers, FreshIds
  <2>3. ClientAdded(f, c.phone, "completion") /\ Relinked({c.row}, f)
    BY <1>1, <2>1, <2>2, NewClientAdds, RelinkMoves
  <2>4. CompletionCommits(w, {c.row}, f)
    BY <1>2, <1>4, <2>3 DEF CompletionCommits
  <2> QED BY <2>4
<1>5. CASE c.found # {}
  <2>1. clients' = clients
    BY <1>5 DEF CompletionWrites
  <2>2. \/ \E f \in c.found : Relink({c.row}, f)
        \/ Relink({c.row}, None)
        \/ rows' = rows
    BY <1>5 DEF CompletionWrites
  <2>3. CASE \E f \in c.found : Relink({c.row}, f)
    <3>1. PICK f \in c.found : Relink({c.row}, f)
      BY <2>3
    <3>2. f \in Ids \cup {None}
      BY <1>3
    <3>3. Relinked({c.row}, f)
      BY <1>1, <3>1, <3>2, RelinkMoves
    <3>4. CompletionCommits(w, {c.row}, f)
      BY <1>2, <1>5, <2>1, <3>3 DEF CompletionCommits
    <3> QED BY <3>4
  <2>4. CASE Relink({c.row}, None)
    <3>1. Relinked({c.row}, None)
      BY <1>1, <2>4, RelinkMoves
    <3>2. CompletionCommits(w, {c.row}, None)
      BY <1>2, <1>5, <2>1, <3>1 DEF CompletionCommits
    <3> QED BY <3>2
  <2>5. CASE rows' = rows
    <3>1. Relinked({}, None)
      BY <1>1, <2>5 DEF Relinked, Types
    <3>2. CompletionCommits(w, {}, None)
      BY <1>2, <1>5, <2>1, <3>1 DEF CompletionCommits
    <3> QED BY <3>2
  <2> QED BY <2>2, <2>3, <2>4, <2>5
<1> QED BY <1>4, <1>5

SiteCommits(w, kind, r, f) ==
    /\ call[w] \in SiteCalls /\ call[w].pc \in {"insert", "insert appointment"}
    /\ f \in call[w].found /\ kind \in {"appointment", "request"}
    /\ RowAdded(r, kind, call[w].phone, None, f)
    /\ clients' = clients /\ links' = links
    /\ End(w) /\ NoMerge

LEMMA SiteInsertsStep ==
    ASSUME Base, NEW w \in Workers, OnlineBooks(w) \/ LeadInserts(w)
    PROVE  \E kind, r, f : SiteCommits(w, kind, r, f)
<1> DEFINE c == call[w]
<1>1. /\ c \in SiteCalls /\ c.pc \in {"insert", "insert appointment"}
      /\ End(w) /\ NoMerge /\ links' = links /\ clients' = clients
  BY StillNamed, CallShape DEF OnlineBooks, LeadInserts
<1>2. c.found \subseteq Ids \cup {None} /\ c.phone \in Phones
  BY <1>1 DEF SiteCalls
<1>3. PICK r \in FreshRows, f \in c.found :
        NewRow(r, "appointment", c.phone, None, f) \/ NewRow(r, "request", c.phone, None, f)
  BY DEF OnlineBooks, LeadInserts
<1>4. Types /\ f \in Ids \cup {None} /\ None \in Refs \cup {None}
      /\ "appointment" \in {"appointment", "request"} /\ "request" \in {"appointment", "request"}
  BY <1>2 DEF Base
<1> HIDE DEF c
<1>5. CASE NewRow(r, "appointment", c.phone, None, f)
  <2>1. RowAdded(r, "appointment", c.phone, None, f)
    BY <1>2, <1>4, <1>5, NewRowAdds
  <2>2. SiteCommits(w, "appointment", r, f)
    BY <1>1, <1>4, <2>1 DEF SiteCommits, c
  <2> QED BY <2>2
<1>6. CASE NewRow(r, "request", c.phone, None, f)
  <2>1. RowAdded(r, "request", c.phone, None, f)
    BY <1>2, <1>4, <1>6, NewRowAdds
  <2>2. SiteCommits(w, "request", r, f)
    BY <1>1, <1>4, <2>1 DEF SiteCommits, c
  <2> QED BY <2>2
<1> QED BY <1>3, <1>5, <1>6

Enriches(w, c) ==
    /\ call[w] \in LinkCalls /\ call[w].pc = "enrich"
    /\ c \in LinkCalls /\ c.pc = "attach" /\ c.row = call[w].row /\ c.found = call[w].found
    /\ clients' \in [Ids -> ClientRows]
    /\ \A d \in Ids :
        /\ clients'[d].by = clients[d].by /\ clients'[d].into = clients[d].into
        /\ ~(d \in call[w].found /\ call[w].bare) => clients'[d] = clients[d]
    /\ links' = links /\ rows' = rows
    /\ Goto(w, c) /\ NoMerge

LEMMA LinkEnrichesStep ==
    ASSUME Base, NEW w \in Workers, LinkEnriches(w)
    PROVE  \E c : Enriches(w, c)
<1>1. call[w] \in LinkCalls /\ call[w].pc = "enrich" /\ call[w].phone \in Phones
  BY StillNamed, CallShape DEF LinkEnriches, LinkCalls
<1> DEFINE c == [call[w] EXCEPT !.pc = "attach"]
<1>2. c \in LinkCalls /\ c.pc = "attach" /\ c.found = call[w].found /\ c.row = call[w].row
  BY <1>1 DEF LinkCalls
<1>3. Goto(w, c) /\ NoMerge /\ links' = links /\ rows' = rows
  BY DEF LinkEnriches
<1> HIDE DEF c
<1>4. \A x \in ClientRows : /\ [x EXCEPT !.phone = call[w].phone] \in ClientRows
                            /\ [x EXCEPT !.phone = call[w].phone].by = x.by
                            /\ [x EXCEPT !.phone = call[w].phone].into = x.into
  BY <1>1 DEF ClientRows
<1>5. /\ clients' \in [Ids -> ClientRows]
      /\ \A d \in Ids : /\ clients'[d].by = clients[d].by /\ clients'[d].into = clients[d].into
                        /\ ~(d \in call[w].found /\ call[w].bare) => clients'[d] = clients[d]
  BY <1>4 DEF LinkEnriches, Base, Types
<1>6. Enriches(w, c)
  BY <1>1, <1>2, <1>3, <1>5 DEF Enriches
<1> QED BY <1>6

Creates(w, f, c) ==
    /\ call[w] \in CreateCalls
    /\ ClientAdded(f, call[w].phone, "manager")
    /\ c \in AttachCalls /\ c.row = call[w].row /\ c.found = {f}
    /\ links' = links /\ rows' = rows
    /\ Goto(w, c) /\ NoMerge

LEMMA SeparateCreatesStep ==
    ASSUME Base, NEW w \in Workers, SeparateCreates(w)
    PROVE  \E f, c : Creates(w, f, c)
<1>1. call[w] \in CreateCalls /\ call[w].phone \in Phones /\ call[w].row \in Rows
  BY StillNamed, CallShape DEF SeparateCreates, CreateCalls
<1>2. PICK f \in FreshIds :
        /\ NewClient(f, call[w].phone, "manager")
        /\ Goto(w, [pc |-> "attach", row |-> call[w].row, phone |-> call[w].phone, holds |-> {},
                    found |-> {f}])
  BY DEF SeparateCreates
<1> DEFINE c == [pc |-> "attach", row |-> call[w].row, phone |-> call[w].phone, holds |-> {},
                 found |-> {f}]
<1>3. f \in Ids
  BY DEF FreshIds
<1>4. c \in AttachCalls /\ c.found = {f} /\ c.row = call[w].row
  BY <1>1, <1>3 DEF AttachCalls
<1>5. Goto(w, c)
  BY <1>2
<1> HIDE DEF c
<1>6. "manager" \in Makers /\ call[w].phone \in Phones \cup {None} /\ Types
  BY <1>1 DEF Makers, Base
<1>7. ClientAdded(f, call[w].phone, "manager")
  BY <1>2, <1>6, NewClientAdds
<1>8. NoMerge /\ links' = links /\ rows' = rows
  BY DEF SeparateCreates
<1>9. Creates(w, f, c)
  BY <1>1, <1>4, <1>5, <1>7, <1>8 DEF Creates
<1> QED BY <1>9

Attaches(w, f) ==
    /\ call[w] \in LinkCalls \cup AttachCalls /\ call[w].pc = "attach"
    /\ f \in call[w].found /\ f \in Ids /\ Relinked({call[w].row}, f)
    /\ links' = links /\ clients' = clients
    /\ End(w) /\ NoMerge

LEMMA RequestAttachesStep ==
    ASSUME Base, NEW w \in Workers, RequestAttaches(w)
    PROVE  \E f : Attaches(w, f)
<1>1. /\ call[w] \in LinkCalls \cup AttachCalls /\ call[w].pc = "attach"
      /\ End(w) /\ NoMerge /\ links' = links /\ clients' = clients
  BY StillNamed, CallShape DEF RequestAttaches
<1>2. call[w].found \subseteq Ids
  BY <1>1 DEF LinkCalls, AttachCalls
<1>3. PICK f \in call[w].found : Relink({call[w].row}, f)
  BY DEF RequestAttaches
<1>4. f \in Ids /\ f \in Ids \cup {None} /\ Types
  BY <1>2 DEF Base
<1>5. Relinked({call[w].row}, f)
  BY <1>3, <1>4, RelinkMoves
<1>6. Attaches(w, f)
  BY <1>1, <1>4, <1>5 DEF Attaches
<1> QED BY <1>6

Merges(w) ==
    /\ call[w] \in MergeCalls /\ call[w].pc = "merge"
    /\ clients' \in [Ids -> ClientRows]
    /\ \A d \in Ids :
        /\ clients'[d].by = clients[d].by
        /\ clients'[d].into = IF d \in call[w].sources /\ d # call[w].target
                              THEN call[w].target ELSE clients[d].into
        /\ clients'[d].phone = IF d = call[w].target THEN call[w].phone ELSE clients[d].phone
    /\ Relinked(call[w].moved, call[w].target)
    /\ bonus' = [bonus EXCEPT ![call[w].target] = call[w].sum]
    /\ LET joined == {group[s] : s \in call[w].sources \cup {call[w].target}} IN
       group' = [d \in Ids |-> IF group[d] \in joined THEN group[call[w].target] ELSE group[d]]
    /\ overlapped' = (overlapped \/ \E v \in Workers \ {w} : Merging(v) /\ Share(call[w], call[v]))
    /\ End(w) /\ links' = links

LEMMA MergeWritesStep ==
    ASSUME Base, NEW w \in Workers, MergeWrites(w)
    PROVE  Merges(w)
<1> DEFINE c == call[w]
<1>1. c \in MergeCalls /\ c.pc = "merge" /\ Types
  BY StillNamed, CallShape DEF MergeWrites, Base
<1>2. c.target \in Ids /\ c.phone \in Phones \cup {None} /\ c.target \in Ids \cup {None}
  BY <1>1 DEF MergeCalls
<1>3. clients' = [d \in Ids |->
        IF d = c.target THEN [clients[d] EXCEPT !.phone = c.phone]
        ELSE IF d \in c.sources THEN [clients[d] EXCEPT !.into = c.target] ELSE clients[d]]
  BY DEF MergeWrites
<1>4. \A x \in ClientRows : /\ [x EXCEPT !.phone = c.phone] \in ClientRows
                            /\ [x EXCEPT !.phone = c.phone].by = x.by
                            /\ [x EXCEPT !.phone = c.phone].into = x.into
                            /\ [x EXCEPT !.phone = c.phone].phone = c.phone
                            /\ [x EXCEPT !.into = c.target] \in ClientRows
                            /\ [x EXCEPT !.into = c.target].by = x.by
                            /\ [x EXCEPT !.into = c.target].into = c.target
                            /\ [x EXCEPT !.into = c.target].phone = x.phone
  BY <1>2 DEF ClientRows
<1>5. \A d \in Ids : clients[d] \in ClientRows
  BY <1>1 DEF Types
<1>6. clients' \in [Ids -> ClientRows]
  BY <1>3, <1>4, <1>5
<1>7. ASSUME NEW d \in Ids
      PROVE  /\ clients'[d].by = clients[d].by
             /\ clients'[d].into = IF d \in c.sources /\ d # c.target THEN c.target ELSE clients[d].into
             /\ clients'[d].phone = IF d = c.target THEN c.phone ELSE clients[d].phone
  BY <1>3, <1>4, <1>5
<1>8. Relinked(c.moved, c.target)
  BY <1>1, <1>2, RelinkMoves DEF MergeWrites
<1>9. /\ bonus' = [bonus EXCEPT ![c.target] = c.sum]
      /\ LET joined == {group[s] : s \in c.sources \cup {c.target}} IN
         group' = [d \in Ids |-> IF group[d] \in joined THEN group[c.target] ELSE group[d]]
      /\ overlapped' = (overlapped \/ \E v \in Workers \ {w} : Merging(v) /\ Share(c, call[v]))
      /\ End(w) /\ links' = links
  BY DEF MergeWrites
<1> HIDE DEF c
<1> QED BY <1>1, <1>6, <1>7, <1>8, <1>9 DEF Merges, c

-------------------------------------------------------------------------------
(* These steps, too, leave what is named existing *)

(* A step that merges nobody and ends its call, or goes on to record c. *)
LEMMA TableBase ==
    ASSUME Base, NEW w \in Workers, NEW c \in Calls,
           (End(w) /\ c = Idle) \/ Goto(w, c), NoMerge, Grow,
           clients' \in [Ids -> ClientRows], links' \in [Refs -> Ids \cup {None}],
           rows' \in [Rows -> RowRecords \cup NoRows],
           \A r \in Rows : rows'[r].client # None =>
              rows'[r].client = rows[r].client \/ clients'[rows'[r].client].by # None,
           \A f \in Refs : links'[f] # None =>
              links'[f] = links[f] \/ clients'[links'[f]].by # None,
           \A d \in Ids : clients'[d].into # None => clients'[d].into = clients[d].into,
           \A d \in Named(c) : clients'[d].by # None
    PROVE  Base'
<1>1. Said(w, c) /\ begun' = begun /\ raced' \in BOOLEAN
  BY DEF End, Goto, Said, Base, Types
<1>2. bonus' \in [Ids -> SUBSET Ids] /\ group' \in [Ids -> Ids] /\ overlapped' \in BOOLEAN
  BY DEF NoMerge, Base, Types
<1>3. begun' \in 0 .. MaxCalls
  BY <1>1 DEF Base, Types
<1> QED BY <1>1, <1>2, <1>3, BaseFrame

LEMMA IdleNamesNobody == Idle \in Calls /\ Named(Idle) = {}
BY DEF Calls, IdleCalls, Named

LEMMA RowAddedClients ==
    ASSUME NEW r, NEW kind, NEW p, NEW ref, NEW f, RowAdded(r, kind, p, ref, f)
    PROVE  /\ rows' \in [Rows -> RowRecords \cup NoRows]
           /\ \A q \in Rows : rows'[q].client = rows[q].client \/ rows'[q].client = f
BY DEF RowAdded

LEMMA BotBooksBase ==
    ASSUME Base, NEW w \in Workers, NEW r, NEW f, BotCommits(w, r, f)
    PROVE  Base'
<1> DEFINE c == call[w]
<1>1. c \in BotCalls /\ f \in Ids /\ End(w) /\ NoMerge
      /\ (c.found # {} => f \in c.found \ {None} /\ clients' = clients)
  BY DEF BotCommits
<1>2. Named(c) = c.found \ {None} /\ \A d \in Named(c) : Exists(d)
  BY <1>1, StillNamed, NamedShape DEF BotCalls
<1>3. clients' \in [Ids -> ClientRows] /\ Grow /\ clients'[f].by # None
      /\ \A d \in Ids : clients'[d].into # None => clients'[d].into = clients[d].into
  <2>1. CASE c.found = {}
    <3>1. ClientAdded(f, c.phone, "bot") /\ "bot" \in Makers
      BY <2>1 DEF BotCommits, Makers
    <3> QED BY <3>1, ClientAddedGrows
  <2>2. CASE c.found # {}
    BY <1>1, <1>2, <2>2 DEF Base, Types, Grow, Exists
  <2> QED BY <2>1, <2>2
<1>4. links' \in [Refs -> Ids \cup {None}] /\ \A x \in Refs : links'[x] = links[x] \/ links'[x] = f
  BY <1>1 DEF BotCommits, Base, Types
<1>5. rows' \in [Rows -> RowRecords \cup NoRows]
      /\ \A q \in Rows : rows'[q].client = rows[q].client \/ rows'[q].client = f
  BY RowAddedClients DEF BotCommits
<1> QED BY <1>1, <1>3, <1>4, <1>5, IdleNamesNobody, TableBase

LEMMA CompletionWritesBase ==
    ASSUME Base, NEW w \in Workers, NEW S, NEW f, CompletionCommits(w, S, f)
    PROVE  Base'
<1> DEFINE c == call[w]
<1>1. c \in CompletionCalls /\ c.pc = "write" /\ End(w) /\ NoMerge /\ links' = links /\ Relinked(S, f)
  BY DEF CompletionCommits
<1>2. Named(c) = c.found \ {None} /\ c.found \subseteq Ids /\ \A d \in Named(c) : Exists(d)
  BY <1>1, StillNamed, NamedShape DEF CompletionCalls
<1>3. /\ clients' \in [Ids -> ClientRows] /\ Grow
      /\ f = None \/ clients'[f].by # None
      /\ \A d \in Ids : clients'[d].into # None => clients'[d].into = clients[d].into
  <2>1. CASE ClientAdded(f, c.phone, "completion")
    <3>1. "completion" \in Makers
      BY DEF Makers
    <3> QED BY <2>1, <3>1, ClientAddedGrows
  <2>2. CASE clients' = clients /\ (f = None \/ f \in c.found)
    BY <1>2, <2>2, NoneApart DEF Base, Types, Grow, Exists
  <2> QED BY <2>1, <2>2 DEF CompletionCommits
<1>4. /\ rows' \in [Rows -> RowRecords \cup NoRows]
      /\ \A q \in Rows : rows'[q].client = rows[q].client \/ rows'[q].client = f
  BY <1>1 DEF Relinked
<1>5. links' \in [Refs -> Ids \cup {None}]
  BY <1>1 DEF Base, Types
<1> QED BY <1>1, <1>3, <1>4, <1>5, IdleNamesNobody, TableBase

LEMMA SiteInsertsBase ==
    ASSUME Base, NEW w \in Workers, NEW kind, NEW r, NEW f, SiteCommits(w, kind, r, f)
    PROVE  Base'
<1> DEFINE c == call[w]
<1>1. /\ c \in SiteCalls /\ c.pc \in {"insert", "insert appointment"} /\ f \in c.found
      /\ End(w) /\ NoMerge /\ links' = links /\ clients' = clients
  BY DEF SiteCommits
<1>2. Named(c) = c.found \ {None} /\ \A d \in Named(c) : Exists(d)
  BY <1>1, StillNamed, NamedShape
<1>3. f # None => clients'[f].by # None
  BY <1>1, <1>2 DEF Exists
<1>4. Grow /\ clients' \in [Ids -> ClientRows] /\ links' \in [Refs -> Ids \cup {None}]
  BY <1>1 DEF Grow, Base, Types
<1>5. /\ rows' \in [Rows -> RowRecords \cup NoRows]
      /\ \A q \in Rows : rows'[q].client = rows[q].client \/ rows'[q].client = f
  BY RowAddedClients DEF SiteCommits
<1> QED BY <1>1, <1>3, <1>4, <1>5, IdleNamesNobody, TableBase

LEMMA LinkEnrichesBase ==
    ASSUME Base, NEW w \in Workers, NEW c, Enriches(w, c)
    PROVE  Base'
<1>1. c \in Calls /\ call[w] \in Calls /\ Goto(w, c) /\ NoMerge /\ links' = links /\ rows' = rows
  BY SetCalls DEF Enriches
<1>2. Named(c) = Named(call[w]) /\ Named(c) \subseteq Ids /\ \A d \in Named(c) : Exists(d)
  BY <1>1, StillNamed, NamedShape DEF Enriches
<1>3. /\ clients' \in [Ids -> ClientRows]
      /\ \A d \in Ids : clients'[d].by = clients[d].by /\ clients'[d].into = clients[d].into
  BY DEF Enriches
<1>4. Grow /\ \A d \in Ids : Exists(d) => clients'[d].by # None
  BY <1>3 DEF Grow, Exists
<1>5. links' \in [Refs -> Ids \cup {None}] /\ rows' \in [Rows -> RowRecords \cup NoRows]
  BY <1>1 DEF Base, Types
<1> QED BY <1>1, <1>2, <1>3, <1>4, <1>5, TableBase

LEMMA SeparateCreatesBase ==
    ASSUME Base, NEW w \in Workers, NEW f, NEW c, Creates(w, f, c)
    PROVE  Base'
<1>1. /\ c \in AttachCalls /\ c \in Calls /\ c.found = {f} /\ Goto(w, c) /\ NoMerge
      /\ links' = links /\ rows' = rows /\ ClientAdded(f, call[w].phone, "manager")
  BY SetCalls DEF Creates
<1>2. Named(c) = {f} \ {None}
  BY <1>1, NamedShape DEF AttachCalls
<1>3. "manager" \in Makers
  BY DEF Makers
<1>4. /\ clients' \in [Ids -> ClientRows] /\ Grow /\ clients'[f].by # None
      /\ \A d \in Ids : clients'[d].into # None => clients'[d].into = clients[d].into
  BY <1>1, <1>3, ClientAddedGrows
<1>5. links' \in [Refs -> Ids \cup {None}] /\ rows' \in [Rows -> RowRecords \cup NoRows]
  BY <1>1 DEF Base, Types
<1> QED BY <1>1, <1>2, <1>4, <1>5, TableBase

LEMMA RequestAttachesBase ==
    ASSUME Base, NEW w \in Workers, NEW f, Attaches(w, f)
    PROVE  Base'
<1> DEFINE c == call[w]
<1>1. /\ c \in LinkCalls \cup AttachCalls /\ c.pc = "attach" /\ f \in c.found /\ f \in Ids
      /\ End(w) /\ NoMerge /\ links' = links /\ clients' = clients /\ Relinked({c.row}, f)
  BY DEF Attaches
<1>2. Named(c) = c.found \ {None} /\ \A d \in Named(c) : Exists(d)
  BY <1>1, StillNamed, NamedShape
<1>3. clients'[f].by # None
  BY <1>1, <1>2, NoneApart DEF Exists
<1>4. Grow /\ clients' \in [Ids -> ClientRows] /\ links' \in [Refs -> Ids \cup {None}]
  BY <1>1 DEF Grow, Base, Types
<1>5. /\ rows' \in [Rows -> RowRecords \cup NoRows]
      /\ \A q \in Rows : rows'[q].client = rows[q].client \/ rows'[q].client = f
  BY <1>1 DEF Relinked
<1> QED BY <1>1, <1>3, <1>4, <1>5, IdleNamesNobody, TableBase

LEMMA MergeWritesBase ==
    ASSUME Base, NEW w \in Workers, Merges(w)
    PROVE  Base'
<1> DEFINE c == call[w]
<1>1. c \in MergeCalls /\ c \in Calls /\ \A d \in Named(c) : Exists(d)
  BY StillNamed DEF Merges
<1>2. Named(c) = {c.target} \cup c.sources /\ c.target \in Ids /\ c.sources \subseteq Ids
      /\ c.sum \subseteq Ids
  BY <1>1, NamedShape, CallShape DEF MergeCalls
<1>3. /\ clients' \in [Ids -> ClientRows]
      /\ \A d \in Ids : /\ clients'[d].by = clients[d].by
                        /\ \/ clients'[d].into = clients[d].into
                           \/ d \in c.sources /\ clients'[d].into = c.target
  BY DEF Merges
<1>4. /\ rows' \in [Rows -> RowRecords \cup NoRows]
      /\ \A q \in Rows : rows'[q].client = rows[q].client \/ rows'[q].client = c.target
  BY DEF Merges, Relinked
<1>5. bonus' \in [Ids -> SUBSET Ids]
  BY <1>2 DEF Merges, Base, Types
<1>6. group' \in [Ids -> Ids]
  BY <1>2 DEF Merges, Base, Types
<1>7. overlapped' \in BOOLEAN /\ links' = links /\ links' \in [Refs -> Ids \cup {None}]
  BY DEF Merges, Base, Types
<1>8. Said(w, Idle) /\ begun' \in 0 .. MaxCalls /\ raced' \in BOOLEAN
  BY DEF Merges, End, Said, Base, Types
<1>9. Grow /\ clients'[c.target].by # None /\ \A d \in c.sources : clients'[d].by # None
  BY <1>1, <1>2, <1>3 DEF Grow, Exists
<1> QED BY <1>2, <1>3, <1>4, <1>5, <1>6, <1>7, <1>8, <1>9, IdleNamesNobody, BaseFrame

-------------------------------------------------------------------------------
(* Types and what points where, of every state *)

LEMMA InitBase ==
    ASSUME Init
    PROVE  Base
<1> DEFINE n == Len(Known)  m == Len(Booked)
<1>1. n \in Nat /\ \A c \in 1 .. n : c \in Ids /\ Known[c] \in Phones \cup {None}
  <2>1. Known \in Seq(Phones \cup {None}) /\ 1 .. n \subseteq Ids
    BY ClientsAssumption
  <2> QED BY <2>1
<1>2. m \in Nat /\ \A r \in 1 .. m : r \in Rows /\ Booked[r].phone \in Phones
                                     /\ Booked[r].client \in (1 .. n) \cup {None}
  <2> DEFINE R == [phone : Phones, client : (1 .. n) \cup {None}]
  <2>1. Booked \in Seq(R) /\ 1 .. m \subseteq Rows
    BY ClientsAssumption
  <2>2. \A b \in R : b.phone \in Phones /\ b.client \in (1 .. n) \cup {None}
    OBVIOUS
  <2> HIDE DEF R
  <2>3. m \in Nat /\ \A r \in 1 .. m : Booked[r] \in R
    BY <2>1
  <2> HIDE DEF m, n
  <2> QED BY <2>1, <2>2, <2>3
<1>3. /\ \A c \in Ids : c \in 1 .. n \/ ~(c \leq n)
      /\ \A r \in Rows : r \in 1 .. m \/ ~(r \leq m)
      /\ \A c \in 1 .. n : c \leq n
      /\ \A r \in 1 .. m : r \leq m
  BY <1>1, <1>2, ClientsAssumption
<1> HIDE DEF n, m
<1>4. ASSUME NEW c \in Ids
      PROVE  /\ clients[c] \in ClientRows /\ clients[c].into = None
             /\ c \in 1 .. n => clients[c].by = "seed"
  <2>1. CASE c \in 1 .. n
    <3>1. clients[c] = [phone |-> Known[c], into |-> None, by |-> "seed"]
      BY <1>3, <2>1 DEF Init, n
    <3> QED BY <1>1, <2>1, <3>1 DEF ClientRows, Makers
  <2>2. CASE ~(c \leq n)
    <3>1. clients[c] = [phone |-> None, into |-> None, by |-> None]
      BY <2>2 DEF Init, n
    <3> QED BY <1>3, <2>2, <3>1 DEF ClientRows
  <2> QED BY <1>3, <2>1, <2>2
<1>5. ASSUME NEW r \in Rows
      PROVE  /\ rows[r] \in RowRecords \cup NoRows
             /\ rows[r].client # None => rows[r].client \in 1 .. n
  <2>1. CASE r \in 1 .. m
    <3>1. rows[r] = [kind |-> "appointment", phone |-> Booked[r].phone, ref |-> None,
                     client |-> Booked[r].client, first |-> Booked[r].client]
      BY <1>3, <2>1 DEF Init, m
    <3>2. Booked[r].client \in Ids \cup {None}
      BY <1>1, <1>2, <2>1
    <3> QED BY <1>2, <2>1, <3>1, <3>2 DEF RowRecords
  <2>2. CASE ~(r \leq m)
    <3>1. rows[r] = [kind |-> None, phone |-> None, ref |-> None, client |-> None, first |-> None]
      BY <2>2 DEF Init, m
    <3> QED BY <3>1 DEF NoRows
  <2> QED BY <1>3, <2>1, <2>2
<1>6. clients \in [Ids -> ClientRows] /\ rows \in [Rows -> RowRecords \cup NoRows]
  BY <1>4, <1>5 DEF Init
<1>7. /\ bonus \in [Ids -> SUBSET Ids] /\ links \in [Refs -> Ids \cup {None}]
      /\ begun \in 0 .. MaxCalls /\ group \in [Ids -> Ids]
      /\ overlapped \in BOOLEAN /\ raced \in BOOLEAN
  <2>1. bonus \in [Ids -> SUBSET Ids]
    BY DEF Init
  <2>2. links \in [Refs -> Ids \cup {None}] /\ group \in [Ids -> Ids]
    BY DEF Init
  <2>3. begun \in 0 .. MaxCalls /\ overlapped \in BOOLEAN /\ raced \in BOOLEAN
    <3>1. MaxCalls \in Nat
      BY ClientsAssumption
    <3>2. 0 \in 0 .. MaxCalls
      BY <3>1
    <3> QED BY <3>2 DEF Init
  <2> QED BY <2>1, <2>2, <2>3
<1>8. call \in [Workers -> Calls] /\ \A w \in Workers : Named(call[w]) = {}
  BY IdleNamesNobody DEF Init
<1>9. \A r \in Rows : rows[r].client # None => Exists(rows[r].client)
  <2>1. \A c \in 1 .. n : Exists(c)
    BY <1>1, <1>4, NoneApart DEF Exists
  <2> QED BY <1>5, <2>1
<1>10. \A f \in Refs : links[f] = None
  BY DEF Init
<1> QED BY <1>4, <1>6, <1>7, <1>8, <1>9, <1>10 DEF Base, Types, Grounded

(* Whatever a worker does is one of these. *)
Takes(w, p, f, n) ==
    /\ Said(w, Snapshot(p, f, n)) /\ Quiet /\ raced' = raced
    /\ (call[w] = Idle /\ "bot" \in Kinds) \/ call[w] \in BotCalls

Step(w) ==
    \/ \E p \in Phones, f \in Refs \cup {None}, n \in 1 .. MaxTries : Takes(w, p, f, n)
    \/ \E key, c : BotLocks(w, key, c)
    \/ \E r \in Rows : \E c : CompletionStarts(w, r, c) \/ CreateStarts(w, r, c)
    \/ \E c : CompletionMoves(w, c) \/ SiteMoves(w, c) \/ MergeMoves(w, c) \/ Enriches(w, c)
    \/ \E kind, c : SiteStarts(w, kind, c)
    \/ \E r \in Rows, d \in Ids : \E c : LinkStarts(w, r, d, c)
    \/ \E t \in Ids, S \in SUBSET Ids : \E c : MergeStarts(w, t, S, c)
    \/ End(w) /\ Quiet
    \/ \E r, f : BotCommits(w, r, f)
    \/ \E S, f : CompletionCommits(w, S, f)
    \/ \E kind, r, f : SiteCommits(w, kind, r, f)
    \/ \E f, c : Creates(w, f, c)
    \/ \E f : Attaches(w, f)
    \/ Merges(w)

LEMMA ArriveSteps ==
    ASSUME Base, NEW w \in Workers, Arrive(w)
    PROVE  Step(w) /\ Base'
<1>1. begun < MaxCalls /\ call[w] = Idle
  BY DEF Arrive
<1>2. ASSUME NEW p \in Phones, NEW f \in Refs \cup {None}, BotBegin(w, p, f)
      PROVE  Step(w) /\ Base'
  <2>1. 1 \in 1 .. MaxTries
    BY ClientsAssumption
  <2>2. Takes(w, p, f, 1)
    BY <1>1, <1>2 DEF BotBegin, Begin, Takes, Said, Quiet
  <2> QED BY <1>1, <1>2, <2>1, <2>2, BotBeginBase DEF Step
<1>3. ASSUME NEW p \in Phones, LeadResolves(w, p) \/ OnlineResolves(w, p)
      PROVE  Step(w) /\ Base'
  BY <1>1, <1>3, ResolveStep, ResolveBase DEF Step
<1>4. ASSUME NEW r \in Rows, CompletionBegin(w, r) \/ SeparateBegin(w, r)
      PROVE  Step(w) /\ Base'
  BY <1>1, <1>4, CompletionBeginStep, SeparateBeginStep, BeginBase DEF Step
<1>5. ASSUME NEW r \in Rows, NEW c \in Ids, LinkBegin(w, r, c)
      PROVE  Step(w) /\ Base'
  BY <1>1, <1>5, LinkBeginStep, LinkBeginBase DEF Step
<1>6. ASSUME NEW S \in SUBSET {c \in Ids : Exists(c)}, NEW t \in Ids, MergeBegin(w, t, S)
      PROVE  Step(w) /\ Base'
  <2>1. S \in SUBSET Ids
    OBVIOUS
  <2> QED BY <1>1, <1>6, <2>1, MergeBeginStep, MergeBeginBase DEF Step
<1> QED BY <1>2, <1>3, <1>4, <1>5, <1>6 DEF Arrive

LEMMA ProceedSteps ==
    ASSUME Base, NEW w \in Workers, Proceed(w)
    PROVE  Step(w) /\ Base'
<1>1. CASE BotLocksRef(w) \/ BotLocksPhone(w)
  BY <1>1, BotLocksStep, BotQuietBase DEF Step
<1>2. CASE BotRetries(w)
  <2>1. PICK p \in Phones, f \in Refs \cup {None}, n \in 1 .. MaxTries :
           Goto(w, Snapshot(p, f, n)) /\ Quiet
    BY <1>2, BotRetriesStep
  <2>2. call[w] \in BotCalls
    BY <1>2, StillNamed, CallShape DEF BotRetries
  <2>3. Takes(w, p, f, n)
    BY <2>1, <2>2 DEF Takes, Goto, Said
  <2> QED BY <1>2, <2>3, BotQuietBase DEF Step
<1>3. CASE BotFails(w) \/ MergeFails(w)
  <2>1. End(w) /\ Quiet
    BY <1>3 DEF BotFails, MergeFails, Quiet
  <2> QED BY <1>3, <2>1, EndingBase DEF Step
<1>4. CASE CompletionRedirects(w) \/ CompletionLocks(w) \/ CompletionFinds(w)
  BY <1>4, CompletionMovesStep, CompletionBase DEF Step
<1>5. CASE OnlineAsserts(w)
  BY <1>5, OnlineAssertsStep, OnlineAssertsBase DEF Step
<1>6. CASE MergeFindsRows(w)
  BY <1>6, MergeFindsRowsStep, MergeFindsRowsBase DEF Step
<1>7. CASE BotBooks(w)
  BY <1>7, BotBooksStep, BotBooksBase DEF Step
<1>8. CASE CompletionWrites(w)
  BY <1>8, CompletionWritesStep, CompletionWritesBase DEF Step
<1>9. CASE OnlineBooks(w) \/ LeadInserts(w)
  BY <1>9, SiteInsertsStep, SiteInsertsBase DEF Step
<1>10. CASE LinkEnriches(w)
  BY <1>10, LinkEnrichesStep, LinkEnrichesBase DEF Step
<1>11. CASE SeparateCreates(w)
  BY <1>11, SeparateCreatesStep, SeparateCreatesBase DEF Step
<1>12. CASE RequestAttaches(w)
  BY <1>12, RequestAttachesStep, RequestAttachesBase DEF Step
<1>13. CASE MergeWrites(w)
  BY <1>13, MergeWritesStep, MergeWritesBase DEF Step
<1> QED BY <1>1, <1>2, <1>3, <1>4, <1>5, <1>6, <1>7, <1>8, <1>9, <1>10, <1>11, <1>12, <1>13
        DEF Proceed

LEMMA NextSteps ==
    ASSUME Base, [Next]_vars
    PROVE  Base' /\ (UNCHANGED vars \/ \E w \in Workers : Step(w))
<1>1. CASE UNCHANGED vars
  BY <1>1 DEF vars, Base, Types, Grounded, Exists
<1>2. CASE Next
  BY <1>1, <1>2, ArriveSteps, ProceedSteps DEF Next, Rest
<1> QED BY <1>1, <1>2

LEMMA BaseInvariant == Spec => []Base
BY InitBase, NextSteps, PTL DEF Spec

LEMMA BaseTypes ==
    ASSUME Base
    PROVE  TypeOK
<1>1. \A w \in Workers :
        \/ call[w] = Idle
        \/ call[w].phone \in Phones \cup {None} /\ call[w].pc \in
            {"lockRef", "lockPhone", "book", "redirect", "find", "write", "insert", "enrich",
             "attach", "create", "assert", "insert appointment", "find rows", "merge"}
  BY CallPhones DEF Base, Types
<1>2. clients \in [Ids -> [phone : Phones \cup {None}, into : Ids \cup {None},
                           by : {"seed", "bot", "completion", "manager", None}]]
  BY DEF Base, Types, ClientRows, Makers
<1>3. rows \in [Rows -> [kind : {"appointment", "request", None}, phone : Phones \cup {None},
                         ref : Refs \cup {None}, client : Ids \cup {None}, first : Ids \cup {None}]]
  BY DEF Base, Types, RowRecords, NoRows
<1> QED BY <1>1, <1>2, <1>3 DEF TypeOK, Base, Types, Grounded

(* Every row, link and merge pointer names a client that exists, and every   *)
(* call's record is of its handler's shape, whatever handlers run side by    *)
(* side and however many (get-or-create, linking, completion and merge).     *)
THEOREM TypeCorrect == Spec => []TypeOK
BY BaseInvariant, BaseTypes, PTL

-------------------------------------------------------------------------------
(***************************************************************************)
(* A clientRef is one person's: its bookings and its link are of one group *)
(* of merged clients, and a booking that found the link made books for     *)
(* that group.  Groups only ever grow together.                            *)
(***************************************************************************)
SamePerson(c) ==
    c \in BotCalls /\ c.mapped # None =>
        c.found # {} /\ \A f \in c.found \ {None} : group[f] = group[c.mapped]

OnePerson ==
    /\ \A r \in Rows : rows[r].ref # None =>
          /\ links[rows[r].ref] # None /\ rows[r].first \in Ids
          /\ group[rows[r].first] = group[links[rows[r].ref]]
    /\ \A c \in Ids : clients[c].into # None => group[clients[c].into] = group[c]
    /\ \A w \in Workers : SamePerson(call[w])

GroupsGrow == \A c, d \in Ids : group[c] = group[d] => group'[c] = group'[d]

LEMMA BotCallsApart ==
    ASSUME NEW c
    PROVE  /\ c \in CompletionCalls => c \notin BotCalls
           /\ c \in SiteCalls => c \notin BotCalls
           /\ c \in LinkCalls \cup CreateCalls \cup AttachCalls => c \notin BotCalls
           /\ c \in MergeCalls => c \notin BotCalls
           /\ c = Idle => c \notin BotCalls
BY DEF BotCalls, CompletionCalls, SiteCalls, LinkCalls, CreateCalls, AttachCalls, MergeCalls, Idle

LEMMA PersonFrame ==
    ASSUME Base, Base', OnePerson, NEW w \in Workers, NEW c \in Calls, Said(w, c), GroupsGrow,
           \A f \in Refs : links[f] # None => links'[f] = links[f],
           \A d \in Ids : clients'[d].into # None =>
              clients'[d].into = clients[d].into \/ group'[clients'[d].into] = group'[d],
           \A r \in Rows : rows'[r].ref # None =>
              \/ rows'[r].ref = rows[r].ref /\ rows'[r].first = rows[r].first
              \/ /\ links'[rows'[r].ref] # None /\ rows'[r].first \in Ids
                 /\ group'[rows'[r].first] = group'[links'[rows'[r].ref]],
           SamePerson(c)'
    PROVE  OnePerson'
<1>1. /\ call' \in [Workers -> Calls] /\ call'[w] = c
      /\ \A v \in Workers \ {w} : call'[v] = call[v]
  BY SaidCalls DEF Base
<1>2. \A f \in Refs : links[f] \in Ids \cup {None}
  BY DEF Base, Types
<1>3. ASSUME NEW r \in Rows, rows'[r].ref # None
      PROVE  /\ links'[rows'[r].ref] # None /\ rows'[r].first \in Ids
             /\ group'[rows'[r].first] = group'[links'[rows'[r].ref]]
  <2>1. CASE rows'[r].ref = rows[r].ref /\ rows'[r].first = rows[r].first
    <3>1. /\ links[rows[r].ref] # None /\ rows[r].first \in Ids /\ rows[r].ref \in Refs
          /\ group[rows[r].first] = group[links[rows[r].ref]]
      BY <1>3, <2>1, RowsTyped DEF OnePerson, Base
    <3>2. links'[rows[r].ref] = links[rows[r].ref] /\ links[rows[r].ref] \in Ids
      BY <1>2, <3>1
    <3> QED BY <2>1, <3>1, <3>2 DEF GroupsGrow
  <2> QED BY <1>3, <2>1
<1>4. ASSUME NEW d \in Ids, clients'[d].into # None
      PROVE  group'[clients'[d].into] = group'[d]
  <2>1. CASE clients'[d].into = clients[d].into
    <3>1. clients[d].into \in Ids /\ group[clients[d].into] = group[d]
      BY <1>4, <2>1, RowsTyped DEF OnePerson, Base
    <3> QED BY <2>1, <3>1 DEF GroupsGrow
  <2> QED BY <1>4, <2>1
<1>5. ASSUME NEW v \in Workers PROVE SamePerson(call[v])' 
  <2>1. CASE v = w
    BY <1>1, <2>1 DEF SamePerson
  <2>2. CASE v # w
    <3>1. call'[v] = call[v] /\ SamePerson(call[v])
      BY <1>1, <2>2 DEF OnePerson
    <3>2. call[v] \in BotCalls =>
            call[v].mapped \in Ids \cup {None} /\ call[v].found \subseteq Ids \cup {None}
      BY DEF BotCalls
    <3> QED BY <3>1, <3>2 DEF SamePerson, GroupsGrow
  <2> QED BY <2>1, <2>2
<1> QED BY <1>3, <1>4, <1>5 DEF OnePerson

LEMMA PersonQuiet ==
    ASSUME Base, Base', OnePerson, NEW w \in Workers, NEW c \in Calls, Said(w, c), Quiet,
           SamePerson(c)
    PROVE  OnePerson'
<1>1. UNCHANGED <<clients, links, rows, group>>
  BY DEF Quiet, NoMerge
<1>2. SamePerson(c)' /\ GroupsGrow
  BY <1>1 DEF SamePerson, GroupsGrow
<1> QED BY <1>1, <1>2, PersonFrame

LEMMA CanonicalPerson ==
    ASSUME Base, OnePerson, NEW c \in Ids, Canonical(c) # None
    PROVE  group[Canonical(c)] = group[c]
<1>1. CASE Live(c)
  BY <1>1, NoneApart DEF Canonical
<1>2. CASE ~Live(c)
  <2>1. Canonical(c) = clients[c].into
    BY <1>2, NoneApart DEF Canonical
  <2> QED BY <2>1 DEF OnePerson
<1> QED BY <1>1, <1>2

LEMMA StepPerson ==
    ASSUME Base, Base', OnePerson, NEW w \in Workers, Step(w)
    PROVE  OnePerson'
<1>1. ASSUME NEW p \in Phones, NEW f \in Refs \cup {None}, NEW n \in 1 .. MaxTries, Takes(w, p, f, n)
      PROVE  OnePerson'
  <2> DEFINE c == Snapshot(p, f, n)
  <2>1. /\ c \in BotCalls
        /\ c.mapped = IF f = None THEN None ELSE links[f]
        /\ f # None /\ links[f] # None => c.found = {Canonical(links[f])}
    <3>1. Types
      BY DEF Base
    <3>2. c \in BotCalls
      BY <3>1, SnapshotTyped
    <3>3. c.mapped = IF f = None THEN None ELSE links[f]
      BY <3>1, SnapshotTyped
    <3>4. f # None /\ links[f] # None => c.found = {Canonical(links[f])}
      BY <3>1, SnapshotTyped
    <3> QED BY <3>2, <3>3, <3>4
  <2>2. Said(w, c) /\ Quiet
    BY <1>1 DEF Takes
  <2> HIDE DEF c
  <2>3. c.mapped # None => c.mapped \in Ids /\ c.found = {Canonical(c.mapped)}
    BY <2>1 DEF Base, Types
  <2>4. SamePerson(c)
    BY <2>3, CanonicalPerson DEF SamePerson
  <2> QED BY <2>1, <2>2, <2>4, SetCalls, PersonQuiet
<1>2. ASSUME NEW key, NEW c, BotLocks(w, key, c) PROVE OnePerson'
  <2>1. SamePerson(call[w])
    BY DEF OnePerson
  <2>2. SamePerson(c) /\ Said(w, c) /\ Quiet /\ c \in Calls
    BY <1>2, <2>1, SetCalls DEF BotLocks, SamePerson, Goto, Said
  <2> QED BY <2>2, PersonQuiet
<1>3. ASSUME NEW c \in Calls, c \notin BotCalls, Said(w, c), Quiet PROVE OnePerson'
  <2>1. SamePerson(c)
    BY <1>3 DEF SamePerson
  <2> QED BY <1>3, <2>1, PersonQuiet
<1>4. ASSUME NEW r \in Rows, NEW c, CompletionStarts(w, r, c) \/ CreateStarts(w, r, c)
      PROVE  OnePerson'
  BY <1>3, <1>4, SetCalls, BotCallsApart DEF CompletionStarts, CreateStarts, Begin, Said
<1>5. ASSUME NEW c, CompletionMoves(w, c) \/ SiteMoves(w, c) \/ MergeMoves(w, c) PROVE OnePerson'
  BY <1>3, <1>5, SetCalls, BotCallsApart DEF CompletionMoves, SiteMoves, MergeMoves, Goto, Said
<1>6. ASSUME NEW kind, NEW c, SiteStarts(w, kind, c) PROVE OnePerson'
  BY <1>3, <1>6, SetCalls, BotCallsApart DEF SiteStarts, Begin, Said
<1>7. ASSUME NEW r \in Rows, NEW d \in Ids, NEW c, LinkStarts(w, r, d, c) PROVE OnePerson'
  BY <1>3, <1>7, SetCalls, BotCallsApart DEF LinkStarts, Begin, Said
<1>8. ASSUME NEW t \in Ids, NEW S \in SUBSET Ids, NEW c, MergeStarts(w, t, S, c) PROVE OnePerson'
  BY <1>3, <1>8, SetCalls, BotCallsApart DEF MergeStarts, Begin, Said
<1>9. CASE End(w) /\ Quiet
  BY <1>3, <1>9, SetCalls, BotCallsApart DEF End, Said
<1>10. ASSUME NEW c \in Calls, c \notin BotCalls, Said(w, c), NoMerge, links' = links,
              \A d \in Ids : clients'[d].into # None => clients'[d].into = clients[d].into,
              \A q \in Rows : rows'[q].ref # None =>
                 rows'[q].ref = rows[q].ref /\ rows'[q].first = rows[q].first
       PROVE  OnePerson'
  <2>1. SamePerson(c)' /\ GroupsGrow
    BY <1>10 DEF SamePerson, GroupsGrow, NoMerge
  <2> QED BY <1>10, <2>1, PersonFrame
<1>11. ASSUME NEW c, Enriches(w, c) PROVE OnePerson'
  <2>1. /\ c \in Calls /\ c \notin BotCalls /\ Said(w, c) /\ NoMerge /\ links' = links /\ rows' = rows
        /\ \A d \in Ids : clients'[d].into = clients[d].into
    BY <1>11, SetCalls, BotCallsApart DEF Enriches, Goto, Said
  <2> QED BY <1>10, <2>1
<1>12. ASSUME NEW f, NEW c, Creates(w, f, c) PROVE OnePerson'
  <2>1. /\ c \in Calls /\ c \notin BotCalls /\ Said(w, c) /\ NoMerge /\ links' = links /\ rows' = rows
        /\ ClientAdded(f, call[w].phone, "manager")
    BY <1>12, SetCalls, BotCallsApart DEF Creates, Goto, Said
  <2>2. \A d \in Ids : clients'[d].into # None => clients'[d].into = clients[d].into
    BY <2>1 DEF ClientAdded
  <2> QED BY <1>10, <2>1, <2>2
<1>13. ASSUME NEW f, Attaches(w, f) PROVE OnePerson'
  <2>1. /\ Idle \in Calls /\ Idle \notin BotCalls /\ Said(w, Idle) /\ NoMerge /\ links' = links
        /\ clients' = clients /\ Relinked({call[w].row}, f)
    BY <1>13, SetCalls, BotCallsApart DEF Attaches, End, Said
  <2> QED BY <1>10, <2>1 DEF Relinked
<1>14. ASSUME NEW S, NEW f, CompletionCommits(w, S, f) PROVE OnePerson'
  <2>1. /\ Idle \in Calls /\ Idle \notin BotCalls /\ Said(w, Idle) /\ NoMerge /\ links' = links
        /\ Relinked(S, f)
    BY <1>14, SetCalls, BotCallsApart DEF CompletionCommits, End, Said
  <2>2. \A d \in Ids : clients'[d].into # None => clients'[d].into = clients[d].into
    BY <1>14 DEF CompletionCommits, ClientAdded
  <2> QED BY <1>10, <2>1, <2>2 DEF Relinked
<1>15. ASSUME NEW kind, NEW r, NEW f, SiteCommits(w, kind, r, f) PROVE OnePerson'
  <2>1. /\ Idle \in Calls /\ Idle \notin BotCalls /\ Said(w, Idle) /\ NoMerge /\ links' = links
        /\ clients' = clients /\ RowAdded(r, kind, call[w].phone, None, f)
    BY <1>15, SetCalls, BotCallsApart DEF SiteCommits, End, Said
  <2> QED BY <1>10, <2>1 DEF RowAdded
<1>16. ASSUME NEW r, NEW f, BotCommits(w, r, f) PROVE OnePerson'
  <2> DEFINE c == call[w]
  <2>1. /\ c \in BotCalls /\ f \in Ids /\ SamePerson(c) /\ ~Collides(c)
        /\ c.ref \in Refs \cup {None} /\ group' = group
    BY <1>16 DEF BotCommits, OnePerson, BotCalls, NoMerge
  <2>2. /\ Idle \in Calls /\ SamePerson(Idle)' /\ Said(w, Idle) /\ GroupsGrow
    BY <1>16, <2>1, SetCalls, BotCallsApart DEF BotCommits, End, Said, SamePerson, GroupsGrow
  <2>3. c.ref # None => links[c.ref] = c.mapped
    BY <2>1 DEF Collides
  <2>4. \A x \in Refs : links'[x] = IF x = c.ref /\ c.mapped = None THEN f ELSE links[x]
    BY <1>16 DEF BotCommits
  <2>5. \A x \in Refs : links[x] # None => links'[x] = links[x]
    BY <2>3, <2>4, NoneApart
  <2>6. \A d \in Ids : clients'[d].into # None => clients'[d].into = clients[d].into
    BY <1>16 DEF BotCommits, ClientAdded
  <2>7. c.ref # None =>
          links'[c.ref] # None /\ group'[f] = group'[links'[c.ref]]
    <3>1. CASE c.mapped = None
      BY <2>1, <2>4, <3>1, NoneApart
    <3>2. CASE c.mapped # None
      <4>1. f \in c.found \ {None}
        BY <1>16, <2>1, <3>2 DEF BotCommits, SamePerson
      <4>2. group[f] = group[c.mapped]
        BY <2>1, <3>2, <4>1 DEF SamePerson
      <4> QED BY <2>1, <2>3, <2>4, <3>2, <4>2
    <3> QED BY <3>1, <3>2
  <2>8. \A q \in Rows : rows'[q].ref # None =>
          \/ rows'[q].ref = rows[q].ref /\ rows'[q].first = rows[q].first
          \/ /\ links'[rows'[q].ref] # None /\ rows'[q].first \in Ids
             /\ group'[rows'[q].first] = group'[links'[rows'[q].ref]]
    <3>1. RowAdded(r, "appointment", c.phone, c.ref, f)
      BY <1>16 DEF BotCommits
    <3> QED BY <2>1, <2>7, <3>1 DEF RowAdded
  <2> QED BY <2>2, <2>5, <2>6, <2>8, PersonFrame
<1>17. CASE Merges(w)
  <2> DEFINE c == call[w]
             joined == {group[s] : s \in c.sources \cup {c.target}}
  <2>1. /\ Idle \in Calls /\ SamePerson(Idle)' /\ Said(w, Idle) /\ links' = links
        /\ c.target \in Ids
    BY <1>17, SetCalls, BotCallsApart DEF Merges, End, Said, SamePerson, MergeCalls
  <2>2. \A d \in Ids : group'[d] = IF group[d] \in joined THEN group[c.target] ELSE group[d]
    BY <1>17 DEF Merges
  <2>3. group[c.target] \in joined /\ \A s \in c.sources : group[s] \in joined
    OBVIOUS
  <2> HIDE DEF joined
  <2>4. GroupsGrow
    BY <2>2 DEF GroupsGrow
  <2>5. \A d \in Ids : clients'[d].into # None =>
          clients'[d].into = clients[d].into \/ group'[clients'[d].into] = group'[d]
    BY <1>17, <2>1, <2>2, <2>3 DEF Merges
  <2>6. \A q \in Rows : rows'[q].ref = rows[q].ref /\ rows'[q].first = rows[q].first
    BY <1>17 DEF Merges, Relinked
  <2> QED BY <2>1, <2>4, <2>5, <2>6, PersonFrame
<1> QED BY <1>1, <1>2, <1>4, <1>5, <1>6, <1>7, <1>8, <1>9, <1>11, <1>12, <1>13, <1>14, <1>15,
           <1>16, <1>17 DEF Step

LEMMA InitPerson ==
    ASSUME Init, Base
    PROVE  OnePerson
<1>1. \A r \in Rows : rows[r].ref = None
  BY DEF Init
<1>2. \A c \in Ids : clients[c].into = None
  BY DEF Init
<1>3. \A w \in Workers : SamePerson(call[w])
  BY BotCallsApart DEF Init, SamePerson
<1> QED BY <1>1, <1>2, <1>3 DEF OnePerson

LEMMA PersonInvariant == Spec => [](Base /\ OnePerson)
<1>1. Init => Base /\ OnePerson
  BY InitBase, InitPerson
<1>2. Base /\ OnePerson /\ [Next]_vars => (Base /\ OnePerson)'
  <2>1. ASSUME Base, OnePerson, UNCHANGED vars PROVE OnePerson'
    BY <2>1 DEF vars, OnePerson, SamePerson
  <2> QED BY <2>1, NextSteps, StepPerson
<1> QED BY <1>1, <1>2, PTL DEF Spec

(* All bookings the bot makes under one clientRef are one person's: of       *)
(* clients that are the same or were merged, whatever the timing of the      *)
(* locks, the retries and the merges (resolveBotClientIdByClientRef).        *)
THEOREM RefsNeverSplit == Spec => []RefNeverSplits
<1>1. ASSUME OnePerson PROVE RefNeverSplits
  BY <1>1 DEF OnePerson, RefNeverSplits
<1> QED BY <1>1, PersonInvariant, PTL

-------------------------------------------------------------------------------
(***************************************************************************)
(* Get-or-create makes one client of a phone among its own kind.  A bot    *)
(* booking that found nobody had a snapshot in which nobody the bot had    *)
(* made of that phone was live, and commits only if nobody was made since; *)
(* a completion that found nobody still holds the lock of the phone.       *)
(***************************************************************************)
Own == {"bot", "completion"}
HoldsOf(c) == IF c.pc = "idle" THEN {} ELSE c.holds

MakesOne(c) ==
    /\ c \in BotCalls /\ c.found = {} => \A d \in c.made : Exists(d) /\ ~Live(d)
    /\ c \in CompletionCalls /\ c.pc = "find" => c.holds = {<<"matchKey", c.phone>>}
    /\ c \in CompletionCalls /\ c.pc = "write" /\ c.found = {} =>
          /\ c.holds = {<<"matchKey", c.phone>>}
          /\ \A d \in LiveIds : ~(clients[d].by = "completion" /\ clients[d].phone = c.phone)
    /\ c \in MergeCalls /\ clients[c.target].by \in Own => c.phone = clients[c.target].phone
    /\ c \in LinkCalls /\ c.pc = "enrich" /\ c.bare => \A d \in c.found : clients[d].by \notin Own

OneMade ==
    /\ \A c \in Ids : clients[c].by \in Own => clients[c].phone \in Phones
    /\ OneClientPerCreator
    /\ \A w \in Workers : MakesOne(call[w])
    /\ \A v, w \in Workers : v # w => HoldsOf(call[v]) \cap HoldsOf(call[w]) = {}

LEMMA CallsApart ==
    ASSUME NEW c
    PROVE  /\ c \in CompletionCalls => c \notin BotCalls \cup LinkCalls \cup MergeCalls
           /\ c \in BotCalls => c \notin CompletionCalls \cup LinkCalls \cup MergeCalls
           /\ c \in LinkCalls => c \notin BotCalls \cup CompletionCalls \cup MergeCalls
           /\ c \in MergeCalls => c \notin BotCalls \cup CompletionCalls \cup LinkCalls
           /\ c \in SiteCalls \cup CreateCalls => c \notin BotCalls \cup CompletionCalls \cup LinkCalls \cup MergeCalls
           /\ c \in AttachCalls => c \notin BotCalls \cup CompletionCalls \cup MergeCalls
           /\ c = Idle => c \notin BotCalls \cup CompletionCalls \cup LinkCalls \cup MergeCalls
<1>1. c \in BotCalls => c.pc \in {"lockRef", "lockPhone", "book"} /\ c.kind = "bot"
  BY DEF BotCalls
<1>2. c \in CompletionCalls => c.pc \in {"redirect", "lockPhone", "find", "write"} /\ c.kind = "completion"
  BY DEF CompletionCalls
<1>3. c \in SiteCalls => c.pc \in {"insert", "assert", "insert appointment"}
  BY DEF SiteCalls
<1>4. c \in LinkCalls => c.pc \in {"enrich", "attach"}
  BY DEF LinkCalls
<1>5. (c \in CreateCalls => c.pc = "create") /\ (c \in AttachCalls => c.pc = "attach")
  BY DEF CreateCalls, AttachCalls
<1>6. c \in MergeCalls => c.pc \in {"find rows", "merge"}
  BY DEF MergeCalls
<1>7. c = Idle => c.pc = "idle"
  BY DEF Idle
<1> QED BY <1>1, <1>2, <1>3, <1>4, <1>5, <1>6, <1>7

(* Clients that exist keep their maker, and their phone if get-or-create made *)
(* them, and no merged client comes back.                                     *)
Kept ==
    \A d \in Ids : Exists(d) =>
        /\ clients'[d].by = clients[d].by
        /\ clients[d].by \in Own => clients'[d].phone = clients[d].phone
        /\ Live(d)' => Live(d)

(* A client this step adds is the only one of its kind of its phone, and no  *)
(* completion that found nobody of that phone is under way.                  *)
FirstOfItsKind(w, d) ==
    clients'[d].by \in Own =>
        /\ clients'[d].phone \in Phones
        /\ \A e \in LiveIds : ~(clients[e].by = clients'[d].by /\ clients[e].phone = clients'[d].phone)
        /\ clients'[d].by = "completion" =>
             \A v \in Workers \ {w} :
                ~(/\ call[v] \in CompletionCalls /\ call[v].pc = "write" /\ call[v].found = {}
                  /\ call[v].phone = clients'[d].phone)

Added(d) == ~Exists(d) /\ Exists(d)'

LEMMA MadeFrame ==
    ASSUME Base, Base', OneMade, NEW w \in Workers, NEW c \in Calls, Said(w, c), Kept,
           \A d \in Ids : Added(d) => FirstOfItsKind(w, d),
           \A d, e \in Ids : Added(d) /\ Added(e) => d = e,
           MakesOne(c)',
           \A k \in HoldsOf(c) : k \in HoldsOf(call[w]) \/ ~Locked(k)
    PROVE  OneMade'
<1>1. /\ call' \in [Workers -> Calls] /\ call'[w] = c
      /\ \A v \in Workers \ {w} : call'[v] = call[v]
  BY SaidCalls DEF Base
<1>0. None \notin Own
  BY NoneApart DEF Own
<1>2. ASSUME NEW d \in Ids, clients'[d].by \in Own PROVE clients'[d].phone \in Phones
  <2>1. CASE Exists(d)
    BY <1>2, <2>1 DEF Kept, OneMade
  <2>2. CASE ~Exists(d)
    BY <1>0, <1>2, <2>2 DEF Added, FirstOfItsKind, Exists
  <2> QED BY <2>1, <2>2
<1>3. ASSUME NEW d \in Ids, Live(d)' PROVE Live(d) \/ Added(d)
  BY <1>3 DEF Kept, Added, Live
<1>4. OneClientPerCreator'
  <2>1. SUFFICES ASSUME NEW d \in Ids, NEW e \in Ids, Live(d)', Live(e)', clients'[d].by \in Own,
                        clients'[e].by = clients'[d].by, clients'[e].phone = clients'[d].phone
                 PROVE  d = e
    BY DEF OneClientPerCreator, LiveIds, Own
  <2>2. CASE Live(d) /\ Live(e)
    <3>1. /\ clients[d].by = clients'[d].by /\ clients[e].by = clients'[e].by
          /\ clients[d].phone = clients'[d].phone /\ clients[e].phone = clients'[e].phone
      BY <2>1, <2>2 DEF Kept, Live
    <3> QED BY <2>1, <2>2, <3>1 DEF OneMade, OneClientPerCreator, LiveIds, Own
  <2>3. ASSUME NEW x \in Ids, NEW y \in Ids, Live(x), Added(y), clients'[y].by \in Own,
               clients'[x].by = clients'[y].by, clients'[x].phone = clients'[y].phone
        PROVE  FALSE
    <3>1. clients[x].by = clients'[x].by /\ clients[x].phone = clients'[x].phone
      BY <2>3 DEF Kept, Live
    <3> QED BY <2>3, <3>1 DEF FirstOfItsKind, LiveIds
  <2> QED BY <1>3, <2>1, <2>2, <2>3
<1>5. ASSUME NEW v \in Workers PROVE MakesOne(call[v])'
  <2>1. CASE v = w
    BY <1>1, <2>1 DEF MakesOne
  <2>2. CASE v # w
    <3>0. PICK o : o = call[v]
      OBVIOUS
    <3>1. call'[v] = o /\ MakesOne(o) /\ o \in Calls /\ \A d \in Named(o) : Exists(d)
      BY <1>1, <2>2, <3>0, StillNamed DEF OneMade
    <3>2. o \in BotCalls /\ o.found = {} => \A d \in o.made : Exists(d)' /\ ~Live(d)'
      <4>1. o \in BotCalls => o.made \subseteq Ids
        BY DEF BotCalls
      <4> QED BY <3>1, <4>1 DEF MakesOne, Kept, Exists
    <3>3. ASSUME o \in CompletionCalls, o.pc = "write", o.found = {}, NEW d \in Ids, Live(d)',
                 clients'[d].by = "completion", clients'[d].phone = o.phone
          PROVE  FALSE
      <4>1. CASE Live(d)
        <5>1. clients[d].by = "completion" /\ clients[d].phone = o.phone
          BY <3>3, <4>1 DEF Kept, Live, Own
        <5> QED BY <3>1, <3>3, <4>1, <5>1 DEF MakesOne, LiveIds
      <4>2. CASE Added(d)
        BY <2>2, <3>0, <3>3, <4>2 DEF FirstOfItsKind, Own
      <4> QED BY <1>3, <3>3, <4>1, <4>2
    <3>4. o \in MergeCalls /\ clients'[o.target].by \in Own => o.phone = clients'[o.target].phone
      <4>1. o \in MergeCalls => o.target \in Ids /\ Exists(o.target)
        BY <3>1, NamedShape, CallShape DEF MergeCalls
      <4> QED BY <3>1, <4>1 DEF MakesOne, Kept
    <3>5. o \in LinkCalls /\ o.pc = "enrich" /\ o.bare => \A d \in o.found : clients'[d].by \notin Own
      <4>1. o \in LinkCalls /\ o.pc = "enrich" => Named(o) = o.found \ {None} /\ o.found \subseteq Ids
        BY <3>1, NamedShape DEF LinkCalls
      <4>2. o \in LinkCalls /\ o.pc = "enrich" => \A d \in o.found : d \in Ids /\ Exists(d)
        BY <3>1, <4>1, NoneApart
      <4> QED BY <3>1, <4>2 DEF MakesOne, Kept
    <3>6. /\ o \in CompletionCalls /\ o.pc = "find" => o.holds = {<<"matchKey", o.phone>>}
          /\ o \in CompletionCalls /\ o.pc = "write" /\ o.found = {} =>
                o.holds = {<<"matchKey", o.phone>>}
      BY <3>1 DEF MakesOne
    <3>7. MakesOne(o)'
      BY <3>2, <3>3, <3>4, <3>5, <3>6 DEF MakesOne, LiveIds
    <3> QED BY <3>1, <3>7 DEF MakesOne
  <2> QED BY <2>1, <2>2
<1>6. ASSUME NEW u \in Workers, NEW v \in Workers, u # v
      PROVE  HoldsOf(call'[u]) \cap HoldsOf(call'[v]) = {}
  <2>1. ASSUME NEW x \in Workers \ {w} PROVE HoldsOf(call'[x]) \cap HoldsOf(c) = {}
    <3>1. \A k \in HoldsOf(call[x]) : Locked(k)
      BY DEF HoldsOf, Locked
    <3>2. HoldsOf(call[x]) \cap HoldsOf(call[w]) = {}
      BY DEF OneMade
    <3> QED BY <1>1, <3>1, <3>2
  <2>2. CASE u # w /\ v # w
    BY <1>1, <1>6, <2>2 DEF OneMade
  <2>3. CASE u = w
    BY <1>1, <1>6, <2>1, <2>3
  <2>4. CASE v = w
    BY <1>1, <1>6, <2>1, <2>4
  <2> QED BY <2>2, <2>3, <2>4
<1>7. \A u, v \in Workers : u # v => (HoldsOf(call[u]) \cap HoldsOf(call[v]) = {})'
  BY <1>6 DEF HoldsOf
<1> QED BY <1>2, <1>4, <1>5, <1>7 DEF OneMade

LEMMA MadeSame ==
    ASSUME Base, Base', OneMade, NEW w \in Workers, NEW c \in Calls, Said(w, c),
           clients' = clients, MakesOne(c),
           \A k \in HoldsOf(c) : k \in HoldsOf(call[w]) \/ ~Locked(k)
    PROVE  OneMade'
<1>1. Kept /\ \A d \in Ids : ~Added(d)
  BY DEF Kept, Added, Live, Exists
<1>2. MakesOne(c)'
  BY DEF MakesOne, LiveIds, Live, Exists
<1> QED BY <1>1, <1>2, MadeFrame

LEMMA HoldsShape ==
    ASSUME NEW c \in Calls
    PROVE  /\ c \in BotCalls \cup CompletionCalls => HoldsOf(c) = c.holds
           /\ c \notin BotCalls \cup CompletionCalls => HoldsOf(c) = {}
<1>1. c.pc = "idle" <=> c = Idle
  BY CallShape
<1>2. c \in BotCalls \cup CompletionCalls => c.pc # "idle"
  BY DEF BotCalls, CompletionCalls
<1>3. c \notin BotCalls \cup CompletionCalls => c = Idle \/ c.holds = {}
  BY DEF Calls, IdleCalls, SiteCalls, LinkCalls, CreateCalls, AttachCalls, MergeCalls
<1> QED BY <1>1, <1>2, <1>3 DEF HoldsOf

LEMMA AddedOnce ==
    ASSUME NEW f, NEW p, NEW by \in Makers, ClientAdded(f, p, by)
    PROVE  /\ Kept
           /\ \A d \in Ids : Added(d) => d = f
<1>1. by # None
  BY NoneApart DEF Makers
<1> QED BY <1>1 DEF ClientAdded, Kept, Added, Live, Exists

LEMMA StepMade ==
    ASSUME Base, Base', OneMade, NEW w \in Workers, Step(w)
    PROVE  OneMade'
<1>0. /\ OneClientPerCreator /\ MakesOne(call[w]) /\ call[w] \in Calls
      /\ None \notin Own /\ Idle \in Calls
  BY StillNamed, NoneApart, SetCalls DEF OneMade, Own
<1>1. ASSUME NEW p \in Phones, NEW f \in Refs \cup {None}, NEW n \in 1 .. MaxTries, Takes(w, p, f, n)
      PROVE  OneMade'
  <2> DEFINE c == Snapshot(p, f, n)
  <2>0. Types
    BY DEF Base
  <2>1. c \in BotCalls /\ c.holds = {} /\ c.made = Made(p)
    BY <2>0, SnapshotTyped
  <2>2. c.found = {} => Matching(p) = {}
    <3>1. CASE f # None /\ links[f] # None
      BY <2>0, <3>1, SnapshotTyped
    <3>2. CASE f = None \/ links[f] = None
      BY <2>0, <3>2, SnapshotTyped
    <3> QED BY <3>1, <3>2
  <2>3. Said(w, c) /\ clients' = clients
    BY <1>1 DEF Takes, Quiet
  <2> HIDE DEF c
  <2>4. c.found = {} => \A d \in c.made : Exists(d) /\ ~Live(d)
    BY <2>1, <2>2, NoneApart DEF Made, Matching, LiveIds, Exists
  <2>5. MakesOne(c)
    BY <2>1, <2>4, CallsApart DEF MakesOne
  <2>6. HoldsOf(c) = {} /\ c \in Calls
    BY <2>1, SetCalls, HoldsShape
  <2> QED BY <2>3, <2>5, <2>6, MadeSame
<1>2. ASSUME NEW key, NEW c, BotLocks(w, key, c) PROVE OneMade'
  <2>1. /\ c \in BotCalls /\ call[w] \in BotCalls /\ Said(w, c) /\ clients' = clients
        /\ c.holds \subseteq call[w].holds \cup {key} /\ ~Locked(key)
        /\ c.found = call[w].found /\ c.made = call[w].made
    BY <1>2 DEF BotLocks, Goto, Said, Quiet
  <2>2. MakesOne(c)
    BY <1>0, <2>1, CallsApart DEF MakesOne
  <2>3. HoldsOf(c) = c.holds /\ HoldsOf(call[w]) = call[w].holds /\ c \in Calls
    BY <1>0, <2>1, SetCalls, HoldsShape
  <2> QED BY <2>1, <2>2, <2>3, MadeSame
<1>3. ASSUME NEW c \in Calls, c \notin BotCalls \cup CompletionCalls \cup LinkCalls \cup MergeCalls,
             Said(w, c), clients' = clients
      PROVE  OneMade'
  <2>1. MakesOne(c)
    BY <1>3 DEF MakesOne
  <2>2. HoldsOf(c) = {}
    BY <1>3, HoldsShape
  <2> QED BY <1>3, <2>1, <2>2, MadeSame
<1>4. ASSUME NEW r \in Rows, NEW c, CompletionStarts(w, r, c) PROVE OneMade'
  <2>1. /\ c \in CompletionCalls /\ c.pc \in {"lockPhone", "redirect"} /\ c.holds = {}
        /\ Said(w, c) /\ clients' = clients
    BY <1>4 DEF CompletionStarts, Begin, Said, Quiet
  <2>2. MakesOne(c)
    BY <2>1, CallsApart DEF MakesOne
  <2>3. HoldsOf(c) = {} /\ c \in Calls
    BY <2>1, SetCalls, HoldsShape
  <2> QED BY <2>1, <2>2, <2>3, MadeSame
<1>5. ASSUME NEW r \in Rows, NEW c, CreateStarts(w, r, c) PROVE OneMade'
  BY <1>3, <1>5, SetCalls, CallsApart DEF CreateStarts, Begin, Said, Quiet
<1>6. ASSUME NEW c, CompletionMoves(w, c) PROVE OneMade'
  <2>1. /\ c \in CompletionCalls /\ call[w] \in CompletionCalls /\ c.phone = call[w].phone
        /\ Said(w, c) /\ clients' = clients
    BY <1>6 DEF CompletionMoves, Goto, Said, Quiet
  <2>2. \/ c.pc = "lockPhone" /\ c.holds = call[w].holds
        \/ c.pc = "find" /\ c.holds = {<<"matchKey", c.phone>>} /\ ~Locked(<<"matchKey", c.phone>>)
        \/ c.pc = "write" /\ c.found # {} /\ c.holds = call[w].holds
        \/ c.pc = "write" /\ c.found = Matching(c.phone) /\ c.holds = call[w].holds
           /\ call[w].pc = "find"
    BY <1>6 DEF CompletionMoves
  <2>3. MakesOne(c)
    BY <1>0, <2>1, <2>2, CallsApart DEF MakesOne, Matching
  <2>4. HoldsOf(c) = c.holds /\ HoldsOf(call[w]) = call[w].holds /\ c \in Calls
    BY <1>0, <2>1, SetCalls, HoldsShape
  <2> QED BY <2>1, <2>2, <2>3, <2>4, MadeSame
<1>7. ASSUME NEW c, SiteMoves(w, c) PROVE OneMade'
  BY <1>3, <1>7, SetCalls, CallsApart DEF SiteMoves, Goto, Said, Quiet
<1>8. ASSUME NEW c, MergeMoves(w, c) PROVE OneMade'
  <2>1. /\ c \in MergeCalls /\ call[w] \in MergeCalls /\ c.phone = call[w].phone
        /\ c.target = call[w].target /\ Said(w, c) /\ clients' = clients
    BY <1>8 DEF MergeMoves, Goto, Said, Quiet
  <2>2. MakesOne(c)
    BY <1>0, <2>1, CallsApart DEF MakesOne
  <2>3. HoldsOf(c) = {} /\ c \in Calls
    BY <2>1, SetCalls, HoldsShape, CallsApart
  <2> QED BY <2>1, <2>2, <2>3, MadeSame
<1>9. ASSUME NEW kind, NEW c, SiteStarts(w, kind, c) PROVE OneMade'
  BY <1>3, <1>9, SetCalls, CallsApart DEF SiteStarts, Begin, Said, Quiet
<1>10. ASSUME NEW r \in Rows, NEW d \in Ids, NEW c, LinkStarts(w, r, d, c) PROVE OneMade'
  <2>1. /\ c \in LinkCalls /\ c.found = {d} /\ (c.bare => clients[d].phone = None)
        /\ Said(w, c) /\ clients' = clients
    BY <1>10 DEF LinkStarts, Begin, Said, Quiet
  <2>2. clients[d].by \in Own => clients[d].phone # None
    BY NoneApart DEF OneMade
  <2>3. MakesOne(c)
    BY <2>1, <2>2, CallsApart DEF MakesOne
  <2>4. HoldsOf(c) = {} /\ c \in Calls
    BY <2>1, SetCalls, HoldsShape, CallsApart
  <2> QED BY <2>1, <2>3, <2>4, MadeSame
<1>11. ASSUME NEW t \in Ids, NEW S \in SUBSET Ids, NEW c, MergeStarts(w, t, S, c) PROVE OneMade'
  <2>1. /\ c \in MergeCalls /\ c.target = t /\ c.phone \in FilledPhones(t, S)
        /\ Said(w, c) /\ clients' = clients
    BY <1>11 DEF MergeStarts, Begin, Said, Quiet
  <2>2. clients[t].by \in Own => clients[t].phone # None
    BY NoneApart DEF OneMade
  <2>3. clients[t].by \in Own => c.phone = clients[t].phone
    BY <2>1, <2>2 DEF FilledPhones
  <2>4. MakesOne(c)
    BY <2>1, <2>3, CallsApart DEF MakesOne
  <2>5. HoldsOf(c) = {} /\ c \in Calls
    BY <2>1, SetCalls, HoldsShape, CallsApart
  <2> QED BY <2>1, <2>4, <2>5, MadeSame
<1>12. CASE End(w) /\ Quiet
  BY <1>0, <1>3, <1>12, CallsApart DEF End, Said, Quiet
<1>13. MakesOne(Idle)' /\ HoldsOf(Idle) = {}
  BY <1>0, HoldsShape, CallsApart DEF MakesOne
<1>14. ASSUME NEW r, NEW f, BotCommits(w, r, f) PROVE OneMade'
  <2> DEFINE c == call[w]
  <2>1. Said(w, Idle) /\ c \in BotCalls /\ ~Collides(c)
    BY <1>14 DEF BotCommits, End, Said
  <2>2. CASE c.found # {}
    <3>1. clients' = clients
      BY <1>14, <2>2 DEF BotCommits
    <3> QED BY <1>0, <1>3, <2>1, <3>1, CallsApart
  <2>3. CASE c.found = {}
    <3>1. ClientAdded(f, c.phone, "bot") /\ "bot" \in Makers /\ c.phone \in Phones
      BY <1>14, <2>1, <2>3 DEF BotCommits, Makers, BotCalls
    <3>2. Made(c.phone) = c.made
      BY <2>1, <2>3 DEF Collides
    <3>3. \A e \in LiveIds : ~(clients[e].by = "bot" /\ clients[e].phone = c.phone)
      <4>1. \A e \in Made(c.phone) : ~Live(e)
        BY <1>0, <2>1, <2>3, <3>2 DEF MakesOne
      <4> QED BY <4>1 DEF Made, LiveIds
    <3>4. FirstOfItsKind(w, f)
      BY <3>1, <3>3 DEF FirstOfItsKind, ClientAdded
    <3>5. Kept /\ \A d \in Ids : Added(d) => d = f
      BY <3>1, AddedOnce
    <3> QED BY <1>0, <1>13, <2>1, <3>4, <3>5, MadeFrame
  <2> QED BY <2>2, <2>3
<1>15. ASSUME NEW S, NEW f, CompletionCommits(w, S, f) PROVE OneMade'
  <2> DEFINE c == call[w]
  <2>1. Said(w, Idle) /\ c \in CompletionCalls /\ c.pc = "write"
    BY <1>15 DEF CompletionCommits, End, Said
  <2>2. CASE c.found # {}
    <3>1. clients' = clients
      BY <1>15, <2>2 DEF CompletionCommits
    <3> QED BY <1>0, <1>3, <2>1, <3>1, CallsApart
  <2>3. CASE c.found = {}
    <3>1. /\ ClientAdded(f, c.phone, "completion") /\ "completion" \in Makers /\ c.phone \in Phones
      BY <1>15, <2>1, <2>3 DEF CompletionCommits, Makers, CompletionCalls
    <3>2. /\ HoldsOf(c) = {<<"matchKey", c.phone>>}
          /\ \A e \in LiveIds : ~(clients[e].by = "completion" /\ clients[e].phone = c.phone)
      BY <1>0, <2>1, <2>3, HoldsShape DEF MakesOne
    <3>3. ASSUME NEW v \in Workers \ {w}, call[v] \in CompletionCalls, call[v].pc = "write",
                 call[v].found = {}, call[v].phone = c.phone
          PROVE  FALSE
      <4>1. call[v] \in Calls /\ MakesOne(call[v])
        BY StillNamed DEF OneMade
      <4>2. HoldsOf(call[v]) = {<<"matchKey", c.phone>>}
        BY <3>3, <4>1, HoldsShape DEF MakesOne
      <4>3. HoldsOf(call[v]) \cap HoldsOf(call[w]) = {}
        BY DEF OneMade
      <4> QED BY <3>2, <4>2, <4>3
    <3>4. FirstOfItsKind(w, f)
      BY <3>1, <3>2, <3>3 DEF FirstOfItsKind, ClientAdded
    <3>5. Kept /\ \A d \in Ids : Added(d) => d = f
      BY <3>1, AddedOnce
    <3> QED BY <1>0, <1>13, <2>1, <3>4, <3>5, MadeFrame
  <2> QED BY <2>2, <2>3
<1>16. ASSUME NEW kind, NEW r, NEW f, SiteCommits(w, kind, r, f) PROVE OneMade'
  BY <1>0, <1>3, <1>16, CallsApart DEF SiteCommits, End, Said
<1>17. ASSUME NEW f, NEW c, Creates(w, f, c) PROVE OneMade'
  <2>1. /\ ClientAdded(f, call[w].phone, "manager") /\ "manager" \in Makers /\ "manager" \notin Own
        /\ c \in AttachCalls /\ Said(w, c) /\ clients'[f].by = "manager"
    BY <1>17 DEF Creates, Makers, Own, Goto, Said, ClientAdded
  <2>2. FirstOfItsKind(w, f)
    BY <2>1 DEF FirstOfItsKind
  <2>3. Kept /\ \A d \in Ids : Added(d) => d = f
    BY <2>1, AddedOnce
  <2>4. c.pc = "attach" /\ c \in Calls
    BY <2>1, SetCalls DEF AttachCalls
  <2>5. MakesOne(c)' /\ HoldsOf(c) = {}
    BY <2>1, <2>4, CallsApart, HoldsShape DEF MakesOne
  <2> QED BY <2>1, <2>2, <2>3, <2>4, <2>5, MadeFrame
<1>18. ASSUME NEW f, Attaches(w, f) PROVE OneMade'
  BY <1>0, <1>3, <1>18, CallsApart DEF Attaches, End, Said
<1>19. ASSUME NEW c, Enriches(w, c) PROVE OneMade'
  <2>1. /\ c \in LinkCalls /\ c.pc = "attach" /\ call[w] \in LinkCalls /\ call[w].pc = "enrich"
        /\ Said(w, c)
    BY <1>19 DEF Enriches, Goto, Said
  <2>2. \A d \in Ids : /\ clients'[d].by = clients[d].by /\ clients'[d].into = clients[d].into
                       /\ clients'[d] = clients[d] \/ (d \in call[w].found /\ call[w].bare)
    BY <1>19 DEF Enriches
  <2>3. \A d \in Ids : clients[d].by \in Own => clients'[d].phone = clients[d].phone
    BY <1>0, <2>1, <2>2 DEF MakesOne
  <2>4. Kept /\ \A d \in Ids : ~Added(d)
    BY <2>2, <2>3 DEF Kept, Added, Live, Exists
  <2>5. MakesOne(c)' /\ HoldsOf(c) = {} /\ c \in Calls
    BY <2>1, SetCalls, CallsApart, HoldsShape DEF MakesOne
  <2> QED BY <2>1, <2>4, <2>5, MadeFrame
<1>20. CASE Merges(w)
  <2> DEFINE c == call[w]
  <2>1. Said(w, Idle) /\ c \in MergeCalls /\ c.target \in Ids
    BY <1>20 DEF Merges, End, Said, MergeCalls
  <2>2. \A d \in Ids : clients[d].by \in Own => clients'[d].phone = clients[d].phone
    BY <1>0, <1>20, <2>1 DEF Merges, MakesOne
  <2>3. Kept /\ \A d \in Ids : ~Added(d)
    <3>1. \A d \in Ids : clients'[d].by = clients[d].by
      BY <1>20 DEF Merges
    <3>2. \A d \in Ids : clients'[d].into = None => clients[d].into = None
      BY <1>20, <2>1, NoneApart DEF Merges
    <3> QED BY <2>2, <3>1, <3>2 DEF Kept, Added, Live, Exists
  <2> QED BY <1>0, <1>13, <2>1, <2>3, MadeFrame
<1> QED BY <1>1, <1>2, <1>4, <1>5, <1>6, <1>7, <1>8, <1>9, <1>10, <1>11, <1>12, <1>14, <1>15,
           <1>16, <1>17, <1>18, <1>19, <1>20 DEF Step

LEMMA InitMade ==
    ASSUME Init, Base
    PROVE  OneMade
<1>1. \A c \in Ids : clients[c].by \in {"seed", None}
  BY DEF Init
<1>2. \A c \in Ids : clients[c].by \notin Own
  BY <1>1, NoneApart DEF Own
<1>3. OneClientPerCreator
  BY <1>2 DEF OneClientPerCreator, LiveIds, Own
<1>4. \A w \in Workers : call[w] = Idle
  BY DEF Init
<1>5. \A w \in Workers : MakesOne(call[w]) /\ HoldsOf(call[w]) = {}
  BY <1>4, CallsApart, HoldsShape, SetCalls DEF MakesOne
<1> QED BY <1>2, <1>3, <1>5 DEF OneMade

LEMMA MadeInvariant == Spec => [](Base /\ OneMade)
<1>1. Init => Base /\ OneMade
  BY InitBase, InitMade
<1>2. Base /\ OneMade /\ [Next]_vars => (Base /\ OneMade)'
  <2>1. ASSUME Base, OneMade, UNCHANGED vars PROVE OneMade'
    BY <2>1 DEF vars, OneMade, MakesOne, OneClientPerCreator, LiveIds, Live, Exists, HoldsOf
  <2> QED BY <2>1, NextSteps, StepMade
<1> QED BY <1>1, <1>2, PTL DEF Spec

(* Of one phone, the bot's bookings leave at most one live client among      *)
(* themselves, and so do the completions among themselves, however many run  *)
(* (Serializable for the ones, the advisory lock for the others).            *)
THEOREM CreatorsMakeOne == Spec => []OneClientPerCreator
<1>1. ASSUME OneMade PROVE OneClientPerCreator
  BY <1>1 DEF OneMade
<1> QED BY <1>1, MadeInvariant, PTL

-------------------------------------------------------------------------------
(***************************************************************************)
(* While no two merges sharing a client have overlapped, what a merge read *)
(* before its transaction is still so when it writes: each group of merged *)
(* clients has its one live client, each bonus its one live balance.       *)
(***************************************************************************)
StillTrue(c) ==
    c \in MergeCalls =>
        /\ c.target \in LiveIds /\ c.sources \subseteq LiveIds /\ c.target \notin c.sources
        /\ c.sum = UNION {bonus[d] : d \in c.sources \cup {c.target}}

Alone(c) == bonus[c] = {} /\ \A d \in Ids : group[d] = group[c] => d = c

OneLive ==
    /\ \A c \in Ids : Exists(c) => \E d \in LiveIds : group[d] = group[c]
    /\ \A d, e \in LiveIds : group[d] = group[e] => d = e
    /\ \A b \in 1 .. Len(Known) : \E d \in LiveIds : b \in bonus[d]
    /\ \A b \in 1 .. Len(Known) : \A d, e \in LiveIds : b \in bonus[d] /\ b \in bonus[e] => d = e

Conserved ==
    ~overlapped =>
        /\ \A c \in Ids : ~Exists(c) => Alone(c)
        /\ OneLive
        /\ \A w \in Workers : StillTrue(call[w])

LEMMA ConservedFrame ==
    ASSUME Base, Conserved, NEW w \in Workers, NEW c \in Calls, Said(w, c),
           \A d \in Ids : clients'[d].by = clients[d].by /\ clients'[d].into = clients[d].into,
           NoMerge, ~overlapped => StillTrue(c)
    PROVE  Conserved'
<1>1. /\ call' \in [Workers -> Calls] /\ call'[w] = c
      /\ \A v \in Workers \ {w} : call'[v] = call[v]
  BY SaidCalls DEF Base
<1>2. LiveIds' = LiveIds /\ \A d \in Ids : Exists(d)' <=> Exists(d)
  BY DEF LiveIds, Live, Exists
<1>3. UNCHANGED <<bonus, group, overlapped>>
  BY DEF NoMerge
<1>4. SUFFICES ASSUME ~overlapped
               PROVE  /\ \A d \in Ids : ~Exists(d)' => Alone(d)'
                      /\ OneLive'
                      /\ \A v \in Workers : StillTrue(call[v])'
  BY <1>3 DEF Conserved
<1>5. \A d \in Ids : ~Exists(d)' => Alone(d)'
  BY <1>2, <1>3, <1>4 DEF Conserved, Alone
<1>6. OneLive'
  BY <1>2, <1>3, <1>4 DEF Conserved, OneLive
<1>7. ASSUME NEW v \in Workers PROVE StillTrue(call[v])'
  <2>1. StillTrue(call'[v])
    BY <1>1, <1>4 DEF Conserved
  <2> QED BY <1>2, <1>3, <2>1 DEF StillTrue
<1> QED BY <1>5, <1>6, <1>7

LEMMA ConservedAdd ==
    ASSUME Base, Conserved, NEW w \in Workers, NEW c \in Calls, Said(w, c), c \notin MergeCalls,
           NEW f, NEW p, NEW by \in Makers, ClientAdded(f, p, by), NoMerge
    PROVE  Conserved'
<1>1. /\ call' \in [Workers -> Calls] /\ call'[w] = c
      /\ \A v \in Workers \ {w} : call'[v] = call[v]
  BY SaidCalls DEF Base
<1>2. LiveIds' = LiveIds \cup {f} /\ f \in Ids \ LiveIds
      /\ \A d \in Ids : Exists(d)' <=> Exists(d) \/ d = f
  BY NoneApart DEF LiveIds, Live, Exists, ClientAdded, Makers
<1>3. UNCHANGED <<bonus, group, overlapped>>
  BY DEF NoMerge
<1>4. SUFFICES ASSUME ~overlapped
               PROVE  /\ \A d \in Ids : ~Exists(d)' => Alone(d)'
                      /\ OneLive'
                      /\ \A v \in Workers : StillTrue(call[v])'
  BY <1>3 DEF Conserved
<1>5. \A d \in Ids : ~Exists(d)' => Alone(d)'
  BY <1>2, <1>3, <1>4 DEF Conserved, Alone
<1>6. OneLive'
  <2>1. bonus[f] = {} /\ \A d \in Ids : group[d] = group[f] => d = f
    BY <1>4 DEF Conserved, Alone, ClientAdded
  <2>2. \A d \in LiveIds : d \in Ids
    BY DEF LiveIds
  <2> QED BY <1>2, <1>3, <1>4, <2>1, <2>2 DEF Conserved, OneLive
<1>7. ASSUME NEW v \in Workers PROVE StillTrue(call[v])'
  <2>1. CASE v = w
    BY <1>1, <2>1 DEF StillTrue
  <2>2. CASE v # w
    <3>1. StillTrue(call'[v])
      BY <1>1, <1>4, <2>2 DEF Conserved
    <3> QED BY <1>2, <1>3, <3>1 DEF StillTrue
  <2> QED BY <2>1, <2>2
<1> QED BY <1>5, <1>6, <1>7

LEMMA ConservedMerge ==
    ASSUME Base, Conserved, NEW w \in Workers, Merges(w)
    PROVE  Conserved'
<1> DEFINE c == call[w]
           joined == {group[s] : s \in c.sources \cup {c.target}}
           t == c.target
           S == c.sources
<1>1. Said(w, Idle) /\ c \in MergeCalls /\ c.pc = "merge" /\ t \in Ids /\ S \subseteq Ids /\ Idle \in Calls
  BY SetCalls DEF Merges, End, Said, MergeCalls
<1>2. /\ call' \in [Workers -> Calls] /\ call'[w] = Idle
      /\ \A v \in Workers \ {w} : call'[v] = call[v]
  BY <1>1, SaidCalls DEF Base
<1>3. SUFFICES ASSUME ~overlapped, \A v \in Workers \ {w} : ~(Merging(v) /\ Share(c, call[v]))
               PROVE  /\ \A d \in Ids : ~Exists(d)' => Alone(d)'
                      /\ OneLive'
                      /\ \A v \in Workers : StillTrue(call[v])'
  <2>1. overlapped' = (overlapped \/ \E v \in Workers \ {w} : Merging(v) /\ Share(c, call[v]))
    BY DEF Merges
  <2> QED BY <1>3, <2>1 DEF Conserved
<1>4. /\ t \in LiveIds /\ S \subseteq LiveIds /\ t \notin S
      /\ c.sum = UNION {bonus[d] : d \in S \cup {t}}
  BY <1>1, <1>3 DEF Conserved, StillTrue
<1>5. OneLive /\ \A d \in Ids : ~Exists(d) => Alone(d)
  BY <1>3 DEF Conserved
<1>6. LiveIds' = LiveIds \ S /\ \A d \in Ids : Exists(d)' <=> Exists(d)
  <2>1. \A d \in Ids : clients'[d].by = clients[d].by
    BY DEF Merges
  <2>2. \A d \in Ids : clients'[d].into = IF d \in S /\ d # t THEN t ELSE clients[d].into
    BY DEF Merges
  <2> HIDE DEF c, t, S
  <2> QED BY <1>1, <1>4, <2>1, <2>2, NoneApart DEF LiveIds, Live, Exists
<1>7. \A d \in Ids : bonus'[d] = IF d = t THEN c.sum ELSE bonus[d]
  BY <1>1 DEF Merges, Base, Types
<1>8. \A d \in Ids : group'[d] = IF group[d] \in joined THEN group[t] ELSE group[d]
  BY DEF Merges
<1>9. group[t] \in joined /\ \A x \in joined : \E s \in S \cup {t} : x = group[s]
  OBVIOUS
<1>10. \A d \in LiveIds : d \in Ids /\ Exists(d)
  BY LiveExists
<1>11. \A s \in S \cup {t} : group[s] \in joined
  OBVIOUS
<1> HIDE DEF joined
<1>12. ASSUME NEW d \in Ids, ~Exists(d) PROVE Alone(d)'
  <2>1. bonus[d] = {} /\ \A e \in Ids : group[e] = group[d] => e = d
    BY <1>5, <1>12 DEF Alone
  <2>2. d # t /\ d \notin S /\ bonus'[d] = {}
    BY <1>4, <1>7, <1>10, <1>12, <2>1
  <2>3. group[d] \notin joined
    BY <1>1, <1>9, <2>1, <2>2
  <2>4. ASSUME NEW e \in Ids, group'[e] = group'[d] PROVE e = d
    BY <1>8, <1>9, <2>1, <2>3, <2>4
  <2> QED BY <2>2, <2>4 DEF Alone
<1>13. ASSUME NEW d \in LiveIds, group[d] \in joined PROVE d \in S \cup {t}
  <2>1. PICK s \in S \cup {t} : group[d] = group[s]
    BY <1>9, <1>13
  <2> QED BY <1>4, <1>5, <2>1 DEF OneLive
<1>14. ASSUME NEW x \in Ids, Exists(x) PROVE \E d \in LiveIds' : group'[d] = group'[x]
  <2>1. CASE group[x] \in joined
    <3>1. group'[x] = group[t] /\ group'[t] = group[t] /\ t \in LiveIds'
      BY <1>1, <1>4, <1>6, <1>8, <1>9, <2>1
    <3> QED BY <3>1
  <2>2. CASE group[x] \notin joined
    <3>1. PICK d \in LiveIds : group[d] = group[x]
      BY <1>5, <1>14 DEF OneLive
    <3>2. d \notin S /\ group'[d] = group[d] /\ group'[x] = group[x]
      BY <1>8, <1>10, <1>11, <2>2, <3>1
    <3> QED BY <1>6, <3>1, <3>2
  <2> QED BY <2>1, <2>2
<1>15. ASSUME NEW d \in LiveIds', NEW e \in LiveIds', group'[d] = group'[e] PROVE d = e
  <2>1. d \in LiveIds \ S /\ e \in LiveIds \ S /\ d \in Ids /\ e \in Ids
    BY <1>6, <1>10
  <2>2. CASE group[d] \in joined /\ group[e] \in joined
    BY <1>13, <2>1, <2>2
  <2>3. CASE group[d] \notin joined /\ group[e] \notin joined
    BY <1>5, <1>8, <1>15, <2>1, <2>3 DEF OneLive
  <2>4. (group[d] \in joined) <=> (group[e] \in joined)
    BY <1>8, <1>9, <1>15, <2>1
  <2> QED BY <2>2, <2>3, <2>4
<1>16. ASSUME NEW b \in 1 .. Len(Known) PROVE \E d \in LiveIds' : b \in bonus'[d]
  <2>1. PICK d \in LiveIds : b \in bonus[d]
    BY <1>5 DEF OneLive
  <2>2. CASE d \in S \cup {t}
    <3>1. b \in bonus'[t]
      BY <1>1, <1>4, <1>7, <2>1, <2>2
    <3> QED BY <1>4, <1>6, <3>1
  <2>3. CASE d \notin S \cup {t}
    BY <1>6, <1>7, <1>10, <2>1, <2>3
  <2> QED BY <2>2, <2>3
<1>17. ASSUME NEW b \in 1 .. Len(Known), NEW d \in LiveIds', NEW e \in LiveIds',
              b \in bonus'[d], b \in bonus'[e]
       PROVE  d = e
  <2>1. d \in LiveIds \ S /\ e \in LiveIds \ S /\ d \in Ids /\ e \in Ids
    BY <1>6, <1>10
  <2>2. b \in bonus'[t] => \E s \in S \cup {t} : b \in bonus[s]
    <3>1. bonus'[t] = UNION {bonus[s] : s \in S \cup {t}}
      BY <1>1, <1>4, <1>7
    <3> HIDE DEF t, S
    <3> QED BY <3>1
  <2>3. ASSUME NEW x \in LiveIds \ S, b \in bonus'[t], b \in bonus'[x], x # t PROVE FALSE
    <3>1. PICK s \in S \cup {t} : b \in bonus[s]
      BY <2>2, <2>3
    <3>2. b \in bonus[x] /\ s \in LiveIds
      BY <1>4, <1>7, <1>10, <2>3
    <3> QED BY <1>5, <2>3, <3>1, <3>2 DEF OneLive
  <2>4. CASE d # t /\ e # t
    BY <1>5, <1>7, <1>17, <2>1, <2>4 DEF OneLive
  <2> QED BY <1>17, <2>1, <2>3, <2>4
<1>18. ASSUME NEW v \in Workers PROVE StillTrue(call[v])'
  <2>1. CASE v = w
    BY <1>2, <2>1, CallsApart DEF StillTrue
  <2>2. CASE v # w
    <3>0. PICK o : o = call[v]
      OBVIOUS
    <3>1. call'[v] = o /\ StillTrue(o) /\ o \in Calls
      BY <1>2, <1>3, <2>2, <3>0, StillNamed DEF Conserved
    <3>2. ASSUME o \in MergeCalls
          PROVE  /\ o.target \in LiveIds' /\ o.sources \subseteq LiveIds' /\ o.target \notin o.sources
                 /\ o.sum = UNION {bonus'[d] : d \in o.sources \cup {o.target}}
      <4>1. /\ o.target \in LiveIds /\ o.sources \subseteq LiveIds /\ o.target \notin o.sources
            /\ o.sum = UNION {bonus[d] : d \in o.sources \cup {o.target}}
        BY <3>1, <3>2 DEF StillTrue
      <4>2. Merging(v)
        BY <3>0, <3>1, <3>2, CallShape DEF Merging
      <4>3. ({t} \cup S) \cap ({o.target} \cup o.sources) = {}
        BY <1>3, <2>2, <3>0, <4>2 DEF Share
      <4>4. \A d \in o.sources \cup {o.target} : bonus'[d] = bonus[d]
        BY <1>7, <1>10, <4>1, <4>3
      <4>5. {bonus'[d] : d \in o.sources \cup {o.target}} = {bonus[d] : d \in o.sources \cup {o.target}}
        BY <4>4
      <4> QED BY <1>6, <4>1, <4>3, <4>5
    <3> QED BY <3>1, <3>2 DEF StillTrue
  <2> QED BY <2>1, <2>2
<1>19. OneLive'
  BY <1>6, <1>14, <1>15, <1>16, <1>17 DEF OneLive
<1> QED BY <1>6, <1>12, <1>18, <1>19

LEMMA StepConserved ==
    ASSUME Base, Conserved, NEW w \in Workers, Step(w)
    PROVE  Conserved'
<1>0. Idle \in Calls /\ Idle \notin MergeCalls /\ (~overlapped => StillTrue(call[w]))
  BY SetCalls, CallsApart DEF Conserved
<1>1. ASSUME NEW c \in Calls, c \notin MergeCalls, Said(w, c), NoMerge,
             \A d \in Ids : clients'[d].by = clients[d].by /\ clients'[d].into = clients[d].into
      PROVE  Conserved'
  BY <1>1, ConservedFrame DEF StillTrue
<1>2. ASSUME NEW p \in Phones, NEW f \in Refs \cup {None}, NEW n \in 1 .. MaxTries, Takes(w, p, f, n)
      PROVE  Conserved'
  <2>1. Snapshot(p, f, n) \in BotCalls
    BY SnapshotTyped DEF Base
  <2> QED BY <1>1, <1>2, <2>1, SetCalls, CallsApart DEF Takes, Quiet
<1>3. ASSUME NEW key, NEW c, BotLocks(w, key, c) PROVE Conserved'
  BY <1>1, <1>3, SetCalls, CallsApart DEF BotLocks, Goto, Said, Quiet
<1>4. ASSUME NEW r \in Rows, NEW c, CompletionStarts(w, r, c) \/ CreateStarts(w, r, c)
      PROVE  Conserved'
  BY <1>1, <1>4, SetCalls, CallsApart DEF CompletionStarts, CreateStarts, Begin, Said, Quiet
<1>5. ASSUME NEW c, CompletionMoves(w, c) \/ SiteMoves(w, c) PROVE Conserved'
  BY <1>1, <1>5, SetCalls, CallsApart DEF CompletionMoves, SiteMoves, Goto, Said, Quiet
<1>6. ASSUME NEW c, MergeMoves(w, c) PROVE Conserved'
  <2>1. /\ c \in Calls /\ Said(w, c) /\ clients' = clients /\ NoMerge
        /\ call[w] \in MergeCalls /\ c.target = call[w].target /\ c.sources = call[w].sources
        /\ c.sum = call[w].sum
    BY <1>6, SetCalls DEF MergeMoves, Goto, Said, Quiet
  <2>2. ~overlapped => StillTrue(c)
    BY <1>0, <2>1 DEF StillTrue
  <2> QED BY <2>1, <2>2, ConservedFrame
<1>7. ASSUME NEW kind, NEW c, SiteStarts(w, kind, c) PROVE Conserved'
  BY <1>1, <1>7, SetCalls, CallsApart DEF SiteStarts, Begin, Said, Quiet
<1>8. ASSUME NEW r \in Rows, NEW d \in Ids, NEW c, LinkStarts(w, r, d, c) PROVE Conserved'
  BY <1>1, <1>8, SetCalls, CallsApart DEF LinkStarts, Begin, Said, Quiet
<1>9. ASSUME NEW t \in Ids, NEW S \in SUBSET Ids, NEW c, MergeStarts(w, t, S, c) PROVE Conserved'
  <2>1. /\ c \in Calls /\ Said(w, c) /\ clients' = clients /\ NoMerge /\ StillTrue(c)
    BY <1>9, SetCalls DEF MergeStarts, Begin, Said, Quiet, StillTrue
  <2> QED BY <2>1, ConservedFrame
<1>10. CASE End(w) /\ Quiet
  BY <1>0, <1>1, <1>10 DEF End, Said, Quiet
<1>11. ASSUME NEW r, NEW f, BotCommits(w, r, f) PROVE Conserved'
  <2>1. Said(w, Idle) /\ NoMerge
    BY <1>11 DEF BotCommits, End, Said
  <2>2. CASE call[w].found # {}
    BY <1>0, <1>1, <1>11, <2>1, <2>2 DEF BotCommits
  <2>3. CASE call[w].found = {}
    <3>1. ClientAdded(f, call[w].phone, "bot") /\ "bot" \in Makers
      BY <1>11, <2>3 DEF BotCommits, Makers
    <3> QED BY <1>0, <2>1, <3>1, ConservedAdd
  <2> QED BY <2>2, <2>3
<1>12. ASSUME NEW S, NEW f, CompletionCommits(w, S, f) PROVE Conserved'
  <2>1. Said(w, Idle) /\ NoMerge
    BY <1>12 DEF CompletionCommits, End, Said
  <2>2. CASE clients' = clients
    BY <1>0, <1>1, <2>1, <2>2
  <2>3. CASE ClientAdded(f, call[w].phone, "completion")
    <3>1. "completion" \in Makers
      BY DEF Makers
    <3> QED BY <1>0, <2>1, <2>3, <3>1, ConservedAdd
  <2> QED BY <1>12, <2>2, <2>3 DEF CompletionCommits
<1>13. ASSUME NEW kind, NEW r, NEW f, SiteCommits(w, kind, r, f) PROVE Conserved'
  BY <1>0, <1>1, <1>13 DEF SiteCommits, End, Said
<1>14. ASSUME NEW f, NEW c, Creates(w, f, c) PROVE Conserved'
  <2>1. /\ ClientAdded(f, call[w].phone, "manager") /\ "manager" \in Makers
        /\ c \in AttachCalls /\ Said(w, c) /\ NoMerge
    BY <1>14 DEF Creates, Makers, Goto, Said
  <2> QED BY <2>1, SetCalls, CallsApart, ConservedAdd
<1>15. ASSUME NEW f, Attaches(w, f) PROVE Conserved'
  BY <1>0, <1>1, <1>15 DEF Attaches, End, Said
<1>16. ASSUME NEW c, Enriches(w, c) PROVE Conserved'
  <2>1. /\ c \in LinkCalls /\ Said(w, c) /\ NoMerge
        /\ \A d \in Ids : clients'[d].by = clients[d].by /\ clients'[d].into = clients[d].into
    BY <1>16 DEF Enriches, Goto, Said
  <2> QED BY <1>1, <2>1, SetCalls, CallsApart
<1> QED BY <1>2, <1>3, <1>4, <1>5, <1>6, <1>7, <1>8, <1>9, <1>10, <1>11, <1>12, <1>13, <1>14,
           <1>15, <1>16, ConservedMerge DEF Step

LEMMA InitConserved ==
    ASSUME Init, Base
    PROVE  Conserved
<1> DEFINE n == Len(Known)
<1>1. n \in Nat /\ 1 .. n \subseteq Ids /\ Ids \subseteq Nat \ {0}
  <2>1. Known \in Seq(Phones \cup {None})
    BY ClientsAssumption
  <2> QED BY <2>1, ClientsAssumption
<1>2. /\ \A c \in Ids : c \leq n => clients[c].by = "seed" /\ bonus[c] = {c}
      /\ \A c \in Ids : ~(c \leq n) => clients[c].by = None /\ bonus[c] = {}
      /\ \A c \in Ids : clients[c].into = None /\ group[c] = c
  BY DEF Init
<1>3. \A c \in Ids : c \in LiveIds <=> Exists(c)
  BY <1>2 DEF LiveIds, Live
<1>4. \A c \in Ids : Exists(c) <=> c \leq n
  BY <1>2, NoneApart DEF Exists
<1>5. \A c \in Ids : ~Exists(c) => Alone(c)
  BY <1>2, <1>4 DEF Alone
<1>6. \A c \in LiveIds : c \in Ids
  BY DEF LiveIds
<1> HIDE DEF n
<1>7. \A b \in 1 .. n : b \in LiveIds /\ b \in bonus[b]
  BY <1>1, <1>2, <1>3, <1>4
<1>8. OneLive
  BY <1>2, <1>3, <1>4, <1>6, <1>7 DEF OneLive, n
<1>9. \A w \in Workers : StillTrue(call[w])
  BY CallsApart DEF Init, StillTrue
<1> QED BY <1>5, <1>8, <1>9 DEF Conserved

LEMMA ConservedInvariant == Spec => [](Base /\ Conserved)
<1>1. Init => Base /\ Conserved
  BY InitBase, InitConserved
<1>2. Base /\ Conserved /\ [Next]_vars => (Base /\ Conserved)'
  <2>1. ASSUME Conserved, UNCHANGED vars PROVE Conserved'
    BY <2>1 DEF vars, Conserved, Alone, OneLive, StillTrue, LiveIds, Live, Exists
  <2> QED BY <2>1, NextSteps, StepConserved
<1> QED BY <1>1, <1>2, PTL DEF Spec

(* Merges that do not overlap on a client leave one live client of every      *)
(* group and every bonus in one live balance, though they read the clients   *)
(* and summed the balances before the transaction that writes them.          *)
THEOREM MergesAreConserving == Spec => []MergesConserve
<1>1. ASSUME Conserved PROVE MergesConserve
  <2>1. SUFFICES ASSUME ~overlapped
                 PROVE  /\ \A c \in Ids : Exists(c) =>
                              \E d \in LiveIds : {e \in LiveIds : group[e] = group[c]} = {d}
                        /\ \A b \in 1 .. Len(Known) :
                              \E d \in LiveIds : {e \in LiveIds : b \in bonus[e]} = {d}
    BY DEF MergesConserve
  <2>2. OneLive
    BY <1>1, <2>1 DEF Conserved
  <2>3. ASSUME NEW c \in Ids, Exists(c)
        PROVE  \E d \in LiveIds : {e \in LiveIds : group[e] = group[c]} = {d}
    <3>1. PICK d \in LiveIds : group[d] = group[c]
      BY <2>2, <2>3 DEF OneLive
    <3>2. {e \in LiveIds : group[e] = group[c]} = {d}
      BY <2>2, <3>1 DEF OneLive
    <3> QED BY <3>2
  <2>4. ASSUME NEW b \in 1 .. Len(Known)
        PROVE  \E d \in LiveIds : {e \in LiveIds : b \in bonus[e]} = {d}
    <3>1. PICK d \in LiveIds : b \in bonus[d]
      BY <2>2 DEF OneLive
    <3>2. {e \in LiveIds : b \in bonus[e]} = {d}
      BY <2>2, <3>1 DEF OneLive
    <3> QED BY <3>2
  <2> QED BY <2>3, <2>4
<1> QED BY <1>1, ConservedInvariant, PTL

-------------------------------------------------------------------------------
(***************************************************************************)
(* While no merge has raced with a call that had decided, a call writes a   *)
(* client that is live and a merge moves exactly the rows of its sources.  *)
(***************************************************************************)
RowOf(c) ==
    /\ c \in CompletionCalls => rows[c.row].kind = "appointment"
    /\ c \in LinkCalls \cup CreateCalls \cup AttachCalls =>
          rows[c.row].kind = "request" /\ rows[c.row].first = None

DecidedOnLive(c) ==
    \/ c \in BotCalls
    \/ c \in SiteCalls /\ c.pc # "assert"
    \/ c \in CompletionCalls /\ c.pc = "write"
    => \A f \in c.found \ {None} : Live(f)

KnowsRows(c) ==
    c \in MergeCalls =>
        /\ c.target \in LiveIds /\ c.target \notin c.sources
        /\ c.pc = "merge" => c.moved = {r \in Rows : rows[r].client \in c.sources}

RequestOf(r) == rows[r].kind = "request" /\ rows[r].first # None => rows[r].client # None

RowLive(r) ==
    rows[r].client # None /\ (rows[r].kind = "appointment" \/ rows[r].first # None)
        => Live(rows[r].client)

Attended ==
    /\ \A w \in Workers : RowOf(call[w])
    /\ \A r \in Rows : RequestOf(r)
    /\ ~raced => /\ \A r \in Rows : RowLive(r)
                 /\ \A w \in Workers : DecidedOnLive(call[w]) /\ KnowsRows(call[w])

(* Rows keep what they were made as. *)
RowsKept ==
    \A r \in Rows : rows[r].kind # None => rows'[r].kind = rows[r].kind /\ rows'[r].first = rows[r].first

LEMMA RowsOfCalls ==
    ASSUME NEW c \in Calls
    PROVE  c \in CompletionCalls \cup LinkCalls \cup CreateCalls \cup AttachCalls => c.row \in Rows
BY DEF CompletionCalls, LinkCalls, CreateCalls, AttachCalls

LEMMA RowOfKept ==
    ASSUME NEW c \in Calls, RowsKept, RowOf(c)
    PROVE  RowOf(c)'
BY NoneApart, RowsOfCalls DEF RowOf, RowsKept

LEMMA AttendedFrame ==
    ASSUME Base, Attended, NEW w \in Workers, NEW c \in Calls, Said(w, c), raced => raced',
           RowsKept, RowOf(c)', \A r \in Rows : RequestOf(r)',
           ~raced' => /\ \A r \in Rows : RowLive(r)'
                      /\ DecidedOnLive(c)' /\ KnowsRows(c)'
                      /\ \A d \in Ids : Live(d) => Live(d)'
                      /\ rows' = rows \/ \A v \in Workers \ {w} : call[v].pc # "merge"
    PROVE  Attended'
<1>1. /\ call' \in [Workers -> Calls] /\ call'[w] = c
      /\ \A v \in Workers \ {w} : call'[v] = call[v]
  BY SaidCalls DEF Base
<1>2. ASSUME NEW v \in Workers PROVE RowOf(call[v])'
  <2>1. CASE v = w
    BY <1>1, <2>1 DEF RowOf
  <2>2. CASE v # w
    <3>1. PICK o : o = call[v]
      OBVIOUS
    <3>2. o \in Calls /\ RowOf(o) /\ call'[v] = o
      BY <1>1, <2>2, <3>1, StillNamed DEF Attended
    <3>3. RowOf(o)'
      BY <3>2, RowOfKept
    <3> QED BY <3>2, <3>3 DEF RowOf
  <2> QED BY <2>1, <2>2
<1>3. ASSUME ~raced', NEW v \in Workers PROVE DecidedOnLive(call[v])' /\ KnowsRows(call[v])'
  <2>1. CASE v = w
    BY <1>1, <1>3, <2>1 DEF DecidedOnLive, KnowsRows
  <2>2. CASE v # w
    <3>0. PICK o : o = call[v]
      OBVIOUS
    <3>1. o \in Calls /\ call'[v] = o /\ DecidedOnLive(o) /\ KnowsRows(o)
      BY <1>1, <1>3, <2>2, <3>0, StillNamed DEF Attended
    <3>2. \A f \in LiveIds : f \in LiveIds'
      BY <1>3 DEF LiveIds
    <3>3. DecidedOnLive(o)'
      <4>1. o \in BotCalls \cup SiteCalls \cup CompletionCalls => o.found \subseteq Ids \cup {None}
        BY DEF BotCalls, SiteCalls, CompletionCalls
      <4> QED BY <1>3, <3>1, <4>1 DEF DecidedOnLive
    <3>4. KnowsRows(o)'
      <4>1. o \in MergeCalls => o.target \in LiveIds' /\ o.target \notin o.sources
        BY <3>1, <3>2 DEF KnowsRows
      <4>2. o \in MergeCalls /\ o.pc = "merge" => o.moved = {r \in Rows : rows'[r].client \in o.sources}
        BY <1>3, <2>2, <3>0, <3>1 DEF KnowsRows
      <4> QED BY <4>1, <4>2 DEF KnowsRows
    <3> QED BY <3>1, <3>3, <3>4 DEF DecidedOnLive, KnowsRows
  <2> QED BY <2>1, <2>2
<1> QED BY <1>2, <1>3 DEF Attended

LEMMA AttendedQuiet ==
    ASSUME Base, Attended, NEW w \in Workers, NEW c \in Calls, Said(w, c), raced => raced', Quiet,
           RowOf(c), ~raced => DecidedOnLive(c) /\ KnowsRows(c)
    PROVE  Attended'
<1>1. clients' = clients /\ rows' = rows
  BY DEF Quiet
<1>2. RowsKept /\ RowOf(c)' /\ \A r \in Rows : RequestOf(r)'
  BY <1>1 DEF RowsKept, RowOf, RequestOf, Attended
<1>3. ASSUME ~raced'
      PROVE  /\ \A r \in Rows : RowLive(r)'
             /\ DecidedOnLive(c)' /\ KnowsRows(c)'
             /\ \A d \in Ids : Live(d) => Live(d)'
  BY <1>1, <1>3 DEF Attended, RowLive, DecidedOnLive, KnowsRows, LiveIds, Live, Exists
<1> QED BY <1>1, <1>2, <1>3, AttendedFrame

(* Ended beside a merge that has found its rows, a call has raced with it. *)
LEMMA EndRaces ==
    ASSUME NEW w \in Workers, End(w), ~raced'
    PROVE  /\ ~raced /\ \A v \in Workers \ {w} : call[v].pc # "merge"
           /\ Merging(w) => \A v \in Workers \ {w} : Undecided(v)
BY DEF End

LEMMA IdleAttends ==
    /\ Idle \in Calls
    /\ Idle \notin BotCalls \cup SiteCalls \cup CompletionCalls \cup LinkCalls
    /\ Idle \notin CreateCalls \cup AttachCalls \cup MergeCalls
<1>1. Idle \in Calls /\ Idle.pc = "idle"
  BY SetCalls DEF Idle
<1> QED BY <1>1 DEF BotCalls, SiteCalls, CompletionCalls, LinkCalls, CreateCalls, AttachCalls, MergeCalls

(* A call that ends having written some rows. *)
LEMMA AttendedEnd ==
    ASSUME Base, Attended, NEW w \in Workers, End(w), RowsKept,
           \A r \in Rows : RequestOf(r)',
           ~raced => /\ \A r \in Rows : RowLive(r)'
                     /\ \A d \in Ids : Live(d) => Live(d)'
    PROVE  Attended'
<1>1. Said(w, Idle) /\ (raced => raced')
  BY DEF End, Said
<1>2. RowOf(Idle)' /\ DecidedOnLive(Idle)' /\ KnowsRows(Idle)'
  BY IdleAttends DEF RowOf, DecidedOnLive, KnowsRows
<1> QED BY <1>1, <1>2, IdleAttends, EndRaces, AttendedFrame

(* A row that is added points at nobody or at a live client. *)
LEMMA AddedRows ==
    ASSUME Base, Attended, NEW w \in Workers, End(w), NEW r, NEW kind, NEW p, NEW ref,
           NEW f \in Ids \cup {None}, RowAdded(r, kind, p, ref, f),
           ~raced => /\ \A d \in Ids : Live(d) => Live(d)'
                     /\ f # None => Live(f)'
    PROVE  Attended'
<1>1. RowsKept /\ \A q \in Rows : RequestOf(q)'
  BY DEF RowAdded, RowsKept, RequestOf, Attended
<1>2. ASSUME ~raced, NEW q \in Rows
      PROVE  RowLive(q)'
  <2>1. CASE q = r
    BY <1>2, <2>1 DEF RowAdded, RowLive
  <2>2. CASE q # r
    <3>1. rows'[q] = rows[q] /\ RowLive(q) /\ rows[q].client \in Ids \cup {None}
      BY <1>2, <2>2, RowsTyped DEF RowAdded, Attended, Base
    <3> QED BY <1>2, <3>1 DEF RowLive
  <2> QED BY <2>1, <2>2
<1> QED BY <1>1, <1>2, AttendedEnd

(* Rows of S, that may point at f, are made to. *)
LEMMA RelinkedRows ==
    ASSUME Base, Attended, NEW w \in Workers, End(w), NEW S, NEW f,
           Relinked(S, f), f \in Ids \cup {None},
           \A r \in S \cap Rows : rows[r].kind = "appointment" \/ f # None,
           ~raced => /\ \A d \in Ids : Live(d) => Live(d)'
                     /\ (\E r \in S \cap Rows : RowLive(r) /\ (rows[r].kind = "appointment" \/ rows[r].first # None))
                           => f = None \/ Live(f)'
    PROVE  Attended'
<1>1. RowsKept /\ \A q \in Rows : RequestOf(q)'
  BY NoneApart DEF Relinked, RowsKept, RequestOf, Attended
<1>2. ASSUME ~raced, NEW q \in Rows
      PROVE  RowLive(q)'
  <2>0. RowLive(q) /\ rows[q].client \in Ids \cup {None}
    BY <1>2, RowsTyped DEF Attended, Base
  <2>1. CASE q \in S
    BY <1>2, <2>0, <2>1 DEF Relinked, RowLive
  <2>2. CASE q \notin S
    BY <1>2, <2>0, <2>2 DEF Relinked, RowLive
  <2> QED BY <2>1, <2>2
<1> QED BY <1>1, <1>2, AttendedEnd

(* A merge that raced with nobody: every row of its sources is moved. *)
LEMMA AttendedMerge ==
    ASSUME Base, Attended, NEW w \in Workers, Merges(w)
    PROVE  Attended'
<1> DEFINE m == call[w]
<1>1. /\ m \in MergeCalls /\ m.pc = "merge" /\ Relinked(m.moved, m.target) /\ m.target \in Ids
      /\ m.sources \subseteq Ids /\ Merging(w) /\ Said(w, Idle) /\ End(w) /\ (raced => raced')
  BY DEF Merges, MergeCalls, Merging, End, Said
<1>2. /\ call' \in [Workers -> Calls] /\ call'[w] = Idle
      /\ \A v \in Workers \ {w} : call'[v] = call[v]
  BY <1>1, IdleAttends, SaidCalls DEF Base
<1>3. \A d \in Ids : /\ clients'[d].by = clients[d].by
                      /\ clients'[d].into = IF d \in m.sources /\ d # m.target
                                            THEN m.target ELSE clients[d].into
  BY DEF Merges
<1> HIDE DEF m
<1>4. RowsKept /\ \A q \in Rows : RequestOf(q)'
  BY <1>1, NoneApart DEF Relinked, RowsKept, RequestOf, Attended
<1>5. ASSUME NEW v \in Workers PROVE RowOf(call[v])'
  <2>1. CASE v = w
    BY <1>2, <2>1, IdleAttends DEF RowOf
  <2>2. CASE v # w
    <3>1. PICK o : o = call[v]
      OBVIOUS
    <3>2. o \in Calls /\ RowOf(o) /\ call'[v] = o
      BY <1>2, <2>2, <3>1, StillNamed DEF Attended
    <3>3. RowOf(o)'
      BY <1>4, <3>2, RowOfKept
    <3> QED BY <3>2, <3>3 DEF RowOf
  <2> QED BY <2>1, <2>2
<1>6. ASSUME ~raced' PROVE ~raced /\ \A v \in Workers \ {w} : Undecided(v)
  BY <1>1, <1>6, EndRaces
<1>7. ASSUME ~raced', NEW v \in Workers PROVE DecidedOnLive(call[v])' /\ KnowsRows(call[v])'
  <2>1. CASE v = w
    BY <1>2, <2>1, IdleAttends DEF DecidedOnLive, KnowsRows
  <2>2. CASE v # w
    <3>1. PICK o : o = call[v]
      OBVIOUS
    <3>2. o \in Calls /\ call'[v] = o
      BY <1>2, <2>2, <3>1, StillNamed
    <3>3. \/ o.pc \in {"idle", "assert", "redirect", "find"}
          \/ o.pc = "lockPhone" /\ o.kind = "completion"
      BY <1>6, <1>7, <2>2, <3>1 DEF Undecided
    <3>4. (o.pc = "idle" <=> o = Idle) /\ (o.pc = "assert" => o \in SiteCalls)
      BY <3>2, CallShape
    <3>5. o.pc \in {"redirect", "find"} \/ (o.pc = "lockPhone" /\ o.kind = "completion")
            => o \in CompletionCalls
      BY <3>2, CallShape
    <3>6. o \notin BotCalls \cup MergeCalls
      BY <3>3, <3>4, <3>5, CallsApart
    <3>7. ~(o \in SiteCalls /\ o.pc # "assert") /\ ~(o \in CompletionCalls /\ o.pc = "write")
      <4>1. o \in SiteCalls => o.pc \in {"insert", "assert", "insert appointment"}
        BY DEF SiteCalls
      <4>2. o \in CompletionCalls => o.pc \in {"redirect", "lockPhone", "find", "write"}
        BY DEF CompletionCalls
      <4> QED BY <3>3, <4>1, <4>2
    <3> QED BY <3>2, <3>6, <3>7 DEF DecidedOnLive, KnowsRows
  <2> QED BY <2>1, <2>2
<1>8. ASSUME ~raced', NEW q \in Rows PROVE RowLive(q)'
  <2>1. /\ m.target \in LiveIds /\ m.target \notin m.sources
        /\ m.moved = {r \in Rows : rows[r].client \in m.sources}
    BY <1>1, <1>6, <1>8 DEF Attended, KnowsRows, m
  <2>2. RowLive(q) /\ rows[q].client \in Ids \cup {None}
    BY <1>6, <1>8, RowsTyped DEF Attended, Base
  <2>3. \A d \in Ids \ m.sources : Live(d) => Live(d)'
    BY <1>3 DEF Live, Exists
  <2>4. CASE q \in m.moved
    BY <1>1, <2>1, <2>3, <2>4 DEF Relinked, RowLive, LiveIds
  <2>5. CASE q \notin m.moved
    <3>1. rows[q].client \notin m.sources
      BY <2>1, <2>5
    <3> QED BY <1>1, <2>2, <2>3, <2>5, <3>1 DEF Relinked, RowLive
  <2> QED BY <2>4, <2>5
<1> QED BY <1>4, <1>5, <1>7, <1>8 DEF Attended

LEMMA MergesApart ==
    ASSUME NEW c \in MergeCalls
    PROVE  c \notin BotCalls \cup CompletionCalls \cup SiteCalls \cup LinkCalls \cup CreateCalls \cup AttachCalls
<1>1. c.pc \in {"find rows", "merge"}
  BY DEF MergeCalls
<1> QED BY <1>1 DEF BotCalls, CompletionCalls, SiteCalls, LinkCalls, CreateCalls, AttachCalls

(* A manager's call goes on: it changes clients, no rows. *)
LEMMA AttendedBeside ==
    ASSUME Base, Attended, NEW w \in Workers, NEW c, c \in LinkCalls \cup AttachCalls, Said(w, c),
           raced' = raced, rows' = rows,
           call[w] \in LinkCalls \cup CreateCalls, c.row = call[w].row,
           \A d \in Ids : Live(d) => Live(d)'
    PROVE  Attended'
<1>1. c \in Calls /\ RowOf(call[w])
  BY SetCalls DEF Attended
<1>2. c.pc \in {"enrich", "attach"}
  BY DEF LinkCalls, AttachCalls
<1>3. c \notin BotCalls \cup CompletionCalls \cup SiteCalls \cup MergeCalls
  BY <1>2 DEF BotCalls, CompletionCalls, SiteCalls, MergeCalls
<1>4. c \notin CompletionCalls /\ rows[c.row].kind = "request" /\ rows[c.row].first = None
  BY <1>1, <1>3 DEF RowOf
<1>5. RowOf(c)' /\ DecidedOnLive(c)' /\ KnowsRows(c)'
  BY <1>3, <1>4 DEF RowOf, DecidedOnLive, KnowsRows
<1>6. RowsKept /\ \A r \in Rows : RequestOf(r)'
  BY DEF RowsKept, RequestOf, Attended
<1>7. ASSUME ~raced', NEW r \in Rows PROVE RowLive(r)'
  <2>1. RowLive(r) /\ rows[r].client \in Ids \cup {None}
    BY <1>7, RowsTyped DEF Attended, Base
  <2> QED BY <2>1 DEF RowLive
<1> QED BY <1>1, <1>5, <1>6, <1>7, AttendedFrame

LEMMA StepAttended ==
    ASSUME Base, Attended, NEW w \in Workers, Step(w)
    PROVE  Attended'
<1>0. /\ call[w] \in Calls /\ RowOf(call[w])
      /\ ~raced => DecidedOnLive(call[w]) /\ KnowsRows(call[w])
      /\ \A c \in Matching(call[w].phone) : Live(c)
  BY StillNamed, MatchingExists DEF Attended
<1>1. ASSUME NEW p \in Phones, NEW f \in Refs \cup {None}, NEW n \in 1 .. MaxTries, Takes(w, p, f, n)
      PROVE  Attended'
  <2> DEFINE c == Snapshot(p, f, n)
  <2>1. c \in BotCalls /\ (c.found = {Canonical(links[f])} \/ c.found = Matching(p))
    <3>1. Types
      BY DEF Base
    <3>2. c \in BotCalls
      BY <3>1, SnapshotTyped
    <3>3. CASE f # None /\ links[f] # None
      BY <3>1, <3>2, <3>3, SnapshotTyped
    <3>4. CASE f = None \/ links[f] = None
      BY <3>1, <3>2, <3>4, SnapshotTyped
    <3> QED BY <3>3, <3>4
  <2>2. Said(w, c) /\ Quiet /\ raced' = raced
    BY <1>1 DEF Takes
  <2> HIDE DEF c
  <2>3. \A d : Canonical(d) # None => Live(Canonical(d))
    BY DEF Canonical
  <2>4. \A d \in c.found \ {None} : Live(d)
    BY <2>1, <2>3, MatchingExists
  <2>5. RowOf(c) /\ DecidedOnLive(c) /\ KnowsRows(c)
    <3>1. c \notin CompletionCalls \cup LinkCalls \cup CreateCalls \cup AttachCalls \cup MergeCalls
      BY <2>1, CallsApart
    <3> QED BY <2>4, <3>1 DEF RowOf, DecidedOnLive, KnowsRows
  <2> QED BY <2>1, <2>2, <2>5, SetCalls, AttendedQuiet
<1>2. ASSUME NEW key, NEW c, BotLocks(w, key, c) PROVE Attended'
  <2>1. /\ c \in BotCalls /\ call[w] \in BotCalls /\ c.found = call[w].found
        /\ Said(w, c) /\ Quiet /\ raced' = raced
    BY <1>2 DEF BotLocks, Goto, Said
  <2>2. c \notin CompletionCalls \cup LinkCalls \cup CreateCalls \cup AttachCalls \cup MergeCalls
    BY <2>1, CallsApart
  <2>3. RowOf(c) /\ (~raced => DecidedOnLive(c) /\ KnowsRows(c))
    BY <1>0, <2>1, <2>2 DEF RowOf, DecidedOnLive, KnowsRows
  <2> QED BY <2>1, <2>3, SetCalls, AttendedQuiet
<1>3. ASSUME NEW r \in Rows, NEW c, CompletionStarts(w, r, c) PROVE Attended'
  <2>1. /\ c \in CompletionCalls /\ c.row = r /\ rows[r].kind = "appointment" /\ c.found = {}
        /\ Said(w, c) /\ Quiet /\ raced' = raced
    BY <1>3 DEF CompletionStarts, Begin, Said
  <2>2. c \notin BotCalls \cup LinkCalls \cup CreateCalls \cup AttachCalls \cup MergeCalls
    BY <2>1, CallsApart
  <2>3. RowOf(c) /\ DecidedOnLive(c) /\ KnowsRows(c)
    BY <2>1, <2>2 DEF RowOf, DecidedOnLive, KnowsRows
  <2> QED BY <2>1, <2>3, SetCalls, AttendedQuiet
<1>4. ASSUME NEW r \in Rows, NEW c, CreateStarts(w, r, c) PROVE Attended'
  <2>1. /\ c \in CreateCalls /\ c.row = r /\ rows[r].kind = "request" /\ rows[r].client = None
        /\ Said(w, c) /\ Quiet /\ raced' = raced /\ c.pc = "create"
    BY <1>4 DEF CreateStarts, CreateCalls, Begin, Said
  <2>2. c \notin BotCalls \cup CompletionCalls \cup SiteCalls \cup MergeCalls
    BY <2>1, CallsApart DEF SiteCalls
  <2>3. RowOf(c) /\ DecidedOnLive(c) /\ KnowsRows(c)
    BY <2>1, <2>2 DEF RowOf, DecidedOnLive, KnowsRows, Attended, RequestOf
  <2> QED BY <2>1, <2>3, SetCalls, AttendedQuiet
<1>5. ASSUME NEW c, CompletionMoves(w, c) PROVE Attended'
  <2>1. /\ c \in CompletionCalls /\ call[w] \in CompletionCalls /\ c.row = call[w].row
        /\ Said(w, c) /\ Quiet /\ raced' = raced
    BY <1>5 DEF CompletionMoves, Goto, Said
  <2>2. c.pc = "write" => \A f \in c.found : Live(f)
    BY <1>5, MatchingExists DEF CompletionMoves, LiveIds
  <2>3. c \notin BotCalls \cup SiteCalls \cup LinkCalls \cup CreateCalls \cup AttachCalls \cup MergeCalls
    BY <2>1, CallsApart
  <2>4. RowOf(c) /\ DecidedOnLive(c) /\ KnowsRows(c)
    BY <1>0, <2>1, <2>2, <2>3 DEF RowOf, DecidedOnLive, KnowsRows
  <2> QED BY <2>1, <2>4, SetCalls, AttendedQuiet
<1>6. ASSUME NEW kind, NEW c, SiteMoves(w, c) \/ SiteStarts(w, kind, c) PROVE Attended'
  <2>1. /\ c \in SiteCalls /\ \A f \in c.found : f = None \/ Live(f)
        /\ Said(w, c) /\ Quiet /\ raced' = raced
    BY <1>6 DEF SiteMoves, SiteStarts, Begin, Goto, Said
  <2>2. c \notin BotCalls \cup CompletionCalls \cup LinkCalls \cup CreateCalls \cup AttachCalls \cup MergeCalls
    BY <2>1, CallsApart DEF SiteCalls, CreateCalls, AttachCalls
  <2>3. RowOf(c) /\ DecidedOnLive(c) /\ KnowsRows(c)
    BY <2>1, <2>2 DEF RowOf, DecidedOnLive, KnowsRows
  <2> QED BY <2>1, <2>3, SetCalls, AttendedQuiet
<1>7. ASSUME NEW r \in Rows, NEW d \in Ids, NEW c, LinkStarts(w, r, d, c) PROVE Attended'
  <2>1. /\ c \in LinkCalls /\ c.row = r /\ rows[r].kind = "request" /\ rows[r].client = None
        /\ Said(w, c) /\ Quiet /\ raced' = raced
    BY <1>7 DEF LinkStarts, Begin, Said
  <2>2. c \notin BotCalls \cup CompletionCalls \cup SiteCalls \cup MergeCalls
    BY <2>1, CallsApart
  <2>3. RowOf(c) /\ DecidedOnLive(c) /\ KnowsRows(c)
    BY <2>1, <2>2 DEF RowOf, DecidedOnLive, KnowsRows, Attended, RequestOf
  <2> QED BY <2>1, <2>3, SetCalls, AttendedQuiet
<1>8. ASSUME NEW t \in Ids, NEW S \in SUBSET Ids, NEW c, MergeStarts(w, t, S, c) PROVE Attended'
  <2>1. /\ c \in MergeCalls /\ c.pc = "find rows" /\ c.target \in LiveIds /\ c.target \notin c.sources
        /\ Said(w, c) /\ Quiet /\ raced' = raced
    BY <1>8 DEF MergeStarts, Begin, Said
  <2>2. RowOf(c) /\ DecidedOnLive(c) /\ KnowsRows(c)
    BY <2>1, MergesApart DEF RowOf, DecidedOnLive, KnowsRows
  <2> QED BY <2>1, <2>2, SetCalls, AttendedQuiet
<1>9. ASSUME NEW c, MergeMoves(w, c) PROVE Attended'
  <2>1. /\ c \in MergeCalls /\ call[w] \in MergeCalls /\ c.target = call[w].target
        /\ c.sources = call[w].sources /\ c.moved = {r \in Rows : rows[r].client \in c.sources}
        /\ Said(w, c) /\ Quiet /\ raced' = raced
    BY <1>9 DEF MergeMoves, Goto, Said
  <2>2. RowOf(c) /\ (~raced => DecidedOnLive(c) /\ KnowsRows(c))
    BY <1>0, <2>1, MergesApart DEF RowOf, DecidedOnLive, KnowsRows
  <2> QED BY <2>1, <2>2, SetCalls, AttendedQuiet
<1>10. ASSUME NEW c, Enriches(w, c) PROVE Attended'
  <2>1. /\ c \in LinkCalls /\ call[w] \in LinkCalls /\ c.row = call[w].row
        /\ rows' = rows /\ Said(w, c) /\ raced' = raced
        /\ \A d \in Ids : clients'[d].by = clients[d].by /\ clients'[d].into = clients[d].into
    BY <1>10 DEF Enriches, Goto, Said
  <2>2. \A d \in Ids : Live(d)' <=> Live(d)
    BY <2>1 DEF Live, Exists
  <2> QED BY <1>0, <2>1, <2>2, AttendedBeside
<1>11. ASSUME NEW f, NEW c, Creates(w, f, c) PROVE Attended'
  <2>1. /\ c \in AttachCalls /\ call[w] \in CreateCalls /\ c.row = call[w].row
        /\ rows' = rows /\ Said(w, c) /\ raced' = raced /\ ClientAdded(f, call[w].phone, "manager")
    BY <1>11 DEF Creates, Goto, Said
  <2>2. \A d \in Ids : Live(d) => Live(d)'
    BY <2>1 DEF ClientAdded, Live, Exists
  <2> QED BY <1>0, <2>1, <2>2, AttendedBeside
<1>12. CASE End(w) /\ Quiet
  <2>1. Said(w, Idle) /\ (raced => raced') /\ Quiet
    BY <1>12 DEF End, Said
  <2>2. RowOf(Idle) /\ DecidedOnLive(Idle) /\ KnowsRows(Idle)
    BY IdleAttends DEF RowOf, DecidedOnLive, KnowsRows
  <2> QED BY <2>1, <2>2, IdleAttends, AttendedQuiet
<1>13. ASSUME NEW r, NEW f, BotCommits(w, r, f) PROVE Attended'
  <2>1. /\ End(w) /\ f \in Ids /\ call[w] \in BotCalls
        /\ RowAdded(r, "appointment", call[w].phone, call[w].ref, f)
    BY <1>13 DEF BotCommits
  <2>2. CASE call[w].found = {}
    <3>1. ClientAdded(f, call[w].phone, "bot")
      BY <1>13, <2>2 DEF BotCommits
    <3>2. (\A d \in Ids : Live(d) => Live(d)') /\ Live(f)'
      BY <3>1, NoneApart DEF ClientAdded, Live, Exists
    <3> QED BY <2>1, <3>2, AddedRows
  <2>3. CASE call[w].found # {}
    <3>1. f \in call[w].found \ {None} /\ clients' = clients
      BY <1>13, <2>3 DEF BotCommits
    <3>2. (\A d \in Ids : Live(d) => Live(d)') /\ (~raced => Live(f)')
      BY <1>0, <2>1, <3>1 DEF DecidedOnLive, Live, Exists
    <3> QED BY <2>1, <3>2, AddedRows
  <2> QED BY <2>2, <2>3
<1>14. ASSUME NEW kind, NEW r, NEW f, SiteCommits(w, kind, r, f) PROVE Attended'
  <2>1. /\ End(w) /\ call[w] \in SiteCalls /\ call[w].pc # "assert" /\ f \in call[w].found
        /\ f \in Ids \cup {None} /\ RowAdded(r, kind, call[w].phone, None, f) /\ clients' = clients
    BY <1>14 DEF SiteCommits, SiteCalls
  <2>2. /\ \A d \in Ids : Live(d) => Live(d)'
        /\ ~raced => (f # None => Live(f)')
    BY <1>0, <2>1 DEF DecidedOnLive, Live, Exists
  <2> QED BY <2>1, <2>2, AddedRows
<1>15. ASSUME NEW S, NEW f, CompletionCommits(w, S, f) PROVE Attended'
  <2>1. /\ End(w) /\ call[w] \in CompletionCalls /\ call[w].pc = "write"
        /\ S \subseteq {call[w].row} /\ Relinked(S, f)
    BY <1>15 DEF CompletionCommits
  <2>2. \A r \in S \cap Rows : rows[r].kind = "appointment"
    BY <1>0, <2>1 DEF RowOf
  <2>3. CASE call[w].found = {} /\ ClientAdded(f, call[w].phone, "completion")
    <3>1. /\ f \in Ids /\ \A d \in Ids : Live(d) => Live(d)'
          /\ Live(f)'
      BY <2>3, NoneApart DEF ClientAdded, Live, Exists
    <3> QED BY <2>1, <2>2, <3>1, RelinkedRows
  <2>4. CASE call[w].found # {} /\ clients' = clients /\ (f = None \/ f \in call[w].found)
    <3>1. f \in Ids \cup {None}
      BY <2>1, <2>4 DEF CompletionCalls
    <3>2. /\ \A d \in Ids : Live(d) => Live(d)'
          /\ ~raced => f = None \/ Live(f)'
      BY <1>0, <2>1, <2>4 DEF DecidedOnLive, Live, Exists
    <3> QED BY <2>1, <2>2, <3>1, <3>2, RelinkedRows
  <2> QED BY <1>15, <2>3, <2>4 DEF CompletionCommits
<1>16. ASSUME NEW f, Attaches(w, f) PROVE Attended'
  <2>1. /\ End(w) /\ call[w] \in LinkCalls \cup AttachCalls /\ f \in Ids
        /\ Relinked({call[w].row}, f) /\ clients' = clients
    BY <1>16 DEF Attaches
  <2>2. rows[call[w].row].kind = "request" /\ rows[call[w].row].first = None /\ f # None
    BY <1>0, <2>1, NoneApart DEF RowOf
  <2>3. \A d \in Ids : Live(d) => Live(d)'
    BY <2>1 DEF Live, Exists
  <2> QED BY <2>1, <2>2, <2>3, RelinkedRows
<1> QED BY <1>1, <1>2, <1>3, <1>4, <1>5, <1>6, <1>7, <1>8, <1>9, <1>10, <1>11, <1>12, <1>13,
           <1>14, <1>15, <1>16, AttendedMerge DEF Step

LEMMA InitAttended ==
    ASSUME Init, Base
    PROVE  Attended
<1>1. \A w \in Workers : RowOf(call[w]) /\ DecidedOnLive(call[w]) /\ KnowsRows(call[w])
  BY IdleAttends DEF Init, RowOf, DecidedOnLive, KnowsRows
<1>2. \A c \in Ids : clients[c].into = None
  BY DEF Init
<1>3. ASSUME NEW r \in Rows PROVE RequestOf(r) /\ RowLive(r)
  <2>1. rows[r].kind # "request"
    BY NoneApart, ClientsAssumption DEF Init
  <2>2. rows[r].client # None => Live(rows[r].client)
    BY <1>2, RowsTyped DEF Base, Grounded, Live
  <2> QED BY <2>1, <2>2 DEF RequestOf, RowLive
<1> QED BY <1>1, <1>3 DEF Attended

LEMMA AttendedInvariant == Spec => [](Base /\ Attended)
<1>1. Init => Base /\ Attended
  BY InitBase, InitAttended
<1>2. Base /\ Attended /\ [Next]_vars => (Base /\ Attended)'
  <2>1. ASSUME Attended, UNCHANGED vars PROVE Attended'
    BY <2>1 DEF vars, Attended, RowOf, RequestOf, RowLive, DecidedOnLive, KnowsRows, LiveIds, Live, Exists
  <2> QED BY <2>1, NextSteps, StepAttended
<1> QED BY <1>1, <1>2, PTL DEF Spec

(* What no merge raced with, and no manager linked by hand, points at a live  *)
(* client: the rows a merge finds before it writes are all its sources have,  *)
(* and what completions, bookings and requests have decided on is live.       *)
THEOREM NoRowIsLeftBehind == Spec => []NoRowLeftBehind
<1>1. Base /\ Attended => NoRowLeftBehind
  BY DEF Attended, RowLive, NoRowLeftBehind
<1> QED BY <1>1, AttendedInvariant, PTL

-------------------------------------------------------------------------------
(***************************************************************************)
(* Locks.  Whoever holds the lock of a phone waits for none: the lock of a *)
(* clientRef is taken before it, never after.  So of the calls under way   *)
(* one is always free to go on, and since every step brings its call nearer*)
(* to its end, only an unfair scheduler keeps a call from ending.          *)
(***************************************************************************)

(* The advisory lock a call waits for. *)
Awaited(c) ==
    IF c.pc = "lockRef" THEN <<"ref", c.ref>>
    ELSE IF c.kind = "bot" THEN PhoneLock(c.ref, c.phone) ELSE <<"matchKey", c.phone>>

HeldUp(w) == call[w].pc \in {"lockRef", "lockPhone"} /\ Locked(Awaited(call[w]))

SomebodyGoesOn ==
    (\E w \in Workers : call[w] # Idle) => \E w \in Workers : call[w] # Idle /\ ~HeldUp(w)

InOrder(c) ==
    /\ c.pc \in {"lockRef", "redirect"} => HoldsOf(c) = {}
    /\ c.pc = "lockPhone" => \A k \in HoldsOf(c) : k[1] = "ref"

LocksInOrder == \A w \in Workers : InOrder(call[w])

LEMMA InOrderElsewhere ==
    ASSUME NEW c \in Calls, c.pc \notin {"lockRef", "redirect", "lockPhone"}
    PROVE  InOrder(c)
BY DEF InOrder

LEMMA InOrderUnlocked ==
    ASSUME NEW c \in Calls, c.holds = {}
    PROVE  InOrder(c)
BY DEF InOrder, HoldsOf

(* How many steps of its own a call may still take. *)
Left(c) ==
    CASE c.pc = "idle" -> 0
      [] c.pc = "lockRef" -> 3 * (MaxTries - c.tries) + 3
      [] c.pc = "lockPhone" -> IF c.kind = "bot" THEN 3 * (MaxTries - c.tries) + 2 ELSE 3
      [] c.pc = "book" -> 3 * (MaxTries - c.tries) + 1
      [] c.pc = "redirect" -> 4
      [] c.pc \in {"find", "assert", "enrich", "create", "find rows"} -> 2
      [] OTHER -> 1

(* Every step starts a call or brings one nearer to its end, and leaves the  *)
(* others where they are.                                                    *)
CallsDescend ==
    [][\E w \in Workers :
          /\ call[w] = Idle \/ Left(call'[w]) < Left(call[w])
          /\ Left(call'[w]) \in 0 .. 3 * MaxTries + 1
          /\ \A v \in Workers \ {w} : call'[v] = call[v]]_vars

LEMMA LeftOf ==
    ASSUME NEW c \in Calls
    PROVE  /\ c = Idle => Left(c) = 0
           /\ c \in BotCalls => c.tries \in 1 .. MaxTries
           /\ c \in BotCalls /\ c.pc = "lockRef" => Left(c) = 3 * (MaxTries - c.tries) + 3
           /\ c \in BotCalls /\ c.pc = "lockPhone" => Left(c) = 3 * (MaxTries - c.tries) + 2
           /\ c \in BotCalls /\ c.pc = "book" => Left(c) = 3 * (MaxTries - c.tries) + 1
           /\ c \in CompletionCalls /\ c.pc = "lockPhone" => Left(c) = 3
           /\ c.pc = "redirect" => Left(c) = 4
           /\ c.pc \in {"find", "assert", "enrich", "create", "find rows"} => Left(c) = 2
           /\ c.pc \in {"write", "insert", "insert appointment", "attach", "merge"} => Left(c) = 1
<1>1. c \in BotCalls => c.kind = "bot" /\ c.tries \in 1 .. MaxTries
  BY DEF BotCalls
<1>2. c \in CompletionCalls => c.kind = "completion"
  BY DEF CompletionCalls
<1>3. c = Idle => c.pc = "idle"
  BY DEF Idle
<1> QED BY <1>1, <1>2, <1>3 DEF Left

LEMMA LeftBounds ==
    ASSUME NEW c \in Calls
    PROVE  Left(c) \in 0 .. 3 * MaxTries + 1 /\ (c # Idle => Left(c) > 0)
<1>1. MaxTries \in Nat \ {0}
  BY ClientsAssumption
<1>2. CASE c \in BotCalls
  <2>1. c.pc \in {"lockRef", "lockPhone", "book"} /\ c # Idle
    BY <1>2 DEF BotCalls, Idle
  <2>2. PICK n \in 1 .. MaxTries : n = c.tries
    BY <1>2, LeftOf
  <2>3. \/ Left(c) = 3 * (MaxTries - n) + 3
        \/ Left(c) = 3 * (MaxTries - n) + 2
        \/ Left(c) = 3 * (MaxTries - n) + 1
    BY <1>2, <2>1, <2>2, LeftOf
  <2> QED BY <1>1, <2>1, <2>3
<1>3. CASE c \in CompletionCalls
  <2>1. c.pc \in {"redirect", "lockPhone", "find", "write"}
    BY <1>3 DEF CompletionCalls
  <2>2. Left(c) \in {1, 2, 3, 4}
    BY <1>3, <2>1, LeftOf
  <2> QED BY <1>1, <2>2
<1>4. c = Idle \/ c \in BotCalls \/ c \in CompletionCalls
        \/ c.pc \in {"insert", "assert", "insert appointment", "enrich", "attach", "create",
                     "find rows", "merge"}
  BY DEF Calls, IdleCalls, SiteCalls, LinkCalls, CreateCalls, AttachCalls, MergeCalls
<1>5. \/ c \in BotCalls \/ c \in CompletionCalls
      \/ (c = Idle /\ Left(c) = 0) \/ Left(c) \in {1, 2}
  BY <1>4, LeftOf
<1> QED BY <1>1, <1>2, <1>3, <1>5

(* What a call is after each of its steps: its locks in order, and nearer to *)
(* its end.                                                                  *)
GoesTo(w, c) == c \in Calls /\ Said(w, c) /\ InOrder(c) /\ Left(c) < Left(call[w])

LEMMA EndGoes ==
    ASSUME Base, NEW w \in Workers, call[w] # Idle, End(w)
    PROVE  GoesTo(w, Idle)
<1>1. Idle \in Calls /\ call[w] \in Calls /\ Said(w, Idle)
  BY SetCalls, StillNamed DEF End, Said
<1>2. InOrder(Idle)
  BY <1>1, InOrderElsewhere DEF Idle
<1>3. Left(Idle) = 0 /\ Left(call[w]) > 0
  BY <1>1, LeftOf, LeftBounds
<1> QED BY <1>1, <1>2, <1>3 DEF GoesTo

LEMMA BotGoes ==
    ASSUME Base, NEW w \in Workers, BotLocksRef(w) \/ BotLocksPhone(w) \/ BotRetries(w)
    PROVE  \E c : GoesTo(w, c)
<1> DEFINE b == call[w]
<1>1. b \in BotCalls /\ b \in Calls /\ b.holds \in SUBSET Locks /\ b.ref \in Refs \cup {None}
      /\ b.phone \in Phones /\ b.tries \in 1 .. MaxTries /\ MaxTries \in Nat
  BY StillNamed, CallShape, ClientsAssumption DEF BotLocksRef, BotLocksPhone, BotRetries, BotCalls
<1>2. CASE BotLocksRef(w)
  <2> DEFINE key == <<"ref", b.ref>>
             s == {key}
             c == [b EXCEPT !.pc = "lockPhone", !.holds = s]
  <2>1. s \in SUBSET Locks /\ \A k \in s : k[1] = "ref"
    BY <1>1 DEF Locks
  <2>2. Said(w, c) /\ b.pc = "lockRef"
    BY <1>2 DEF BotLocksRef, Goto, Said
  <2> HIDE DEF s, key, b
  <2>3. c \in BotCalls /\ c.pc = "lockPhone" /\ c.holds = s /\ c.tries = b.tries
    BY <1>1, <2>1 DEF BotCalls
  <2> HIDE DEF c
  <2>4. c \in Calls /\ HoldsOf(c) = s
    BY <2>3, SetCalls, HoldsShape
  <2>5. InOrder(c)
    BY <2>1, <2>3, <2>4 DEF InOrder
  <2>6. Left(c) < Left(b)
    <3>1. Left(b) = 3 * (MaxTries - b.tries) + 3 /\ Left(c) = 3 * (MaxTries - b.tries) + 2
      BY <1>1, <2>2, <2>3, <2>4, LeftOf
    <3> QED BY <1>1, <3>1
  <2>7. GoesTo(w, c)
    BY <2>2, <2>4, <2>5, <2>6 DEF GoesTo, b
  <2> QED BY <2>7
<1>3. CASE BotLocksPhone(w)
  <2> DEFINE key == PhoneLock(b.ref, b.phone)
             s == b.holds \cup {key}
             c == [b EXCEPT !.pc = "book", !.holds = s]
  <2>1. s \in SUBSET Locks
    <3>1. key \in Locks
      BY <1>1 DEF PhoneLock, Locks
    <3> QED BY <1>1, <3>1
  <2>2. Said(w, c) /\ b.pc = "lockPhone"
    BY <1>3 DEF BotLocksPhone, Goto, Said
  <2> HIDE DEF s, key, b
  <2>3. c \in BotCalls /\ c.pc = "book" /\ c.tries = b.tries
    BY <1>1, <2>1 DEF BotCalls
  <2> HIDE DEF c
  <2>4. c \in Calls /\ InOrder(c)
    BY <2>3, SetCalls, InOrderElsewhere
  <2>5. Left(c) < Left(b)
    <3>1. Left(b) = 3 * (MaxTries - b.tries) + 2 /\ Left(c) = 3 * (MaxTries - b.tries) + 1
      BY <1>1, <2>2, <2>3, <2>4, LeftOf
    <3> QED BY <1>1, <3>1
  <2>6. GoesTo(w, c)
    BY <2>2, <2>4, <2>5 DEF GoesTo, b
  <2> QED BY <2>6
<1>4. CASE BotRetries(w)
  <2> DEFINE c == Snapshot(b.phone, b.ref, b.tries + 1)
  <2>1. b.tries + 1 \in 1 .. MaxTries /\ Said(w, c) /\ b.pc = "book"
    BY <1>1, <1>4 DEF BotRetries, Goto, Said
  <2>2. Types
    BY DEF Base
  <2>3. c \in BotCalls /\ c.holds = {} /\ c.tries = b.tries + 1
    <3>1. c.tries = b.tries + 1
      BY DEF Snapshot
    <3>2. b.phone \in Phones /\ b.ref \in Refs \cup {None}
      BY <1>1 DEF BotCalls
    <3> HIDE DEF b
    <3>3. c \in BotCalls /\ c.holds = {}
      BY <2>1, <2>2, <3>2, SnapshotTyped
    <3> HIDE DEF c
    <3> QED BY <3>1, <3>3
  <2> HIDE DEF c, b
  <2>4. c \in Calls /\ InOrder(c) /\ c.pc \in {"lockRef", "lockPhone", "book"}
    BY <2>3, SetCalls, InOrderUnlocked DEF BotCalls
  <2>5. Left(c) < Left(b)
    <3>1. /\ Left(b) = 3 * (MaxTries - b.tries) + 1
          /\ \/ Left(c) = 3 * (MaxTries - (b.tries + 1)) + 3
             \/ Left(c) = 3 * (MaxTries - (b.tries + 1)) + 2
             \/ Left(c) = 3 * (MaxTries - (b.tries + 1)) + 1
      BY <1>1, <2>1, <2>3, <2>4, LeftOf
    <3> QED BY <1>1, <3>1
  <2>6. GoesTo(w, c)
    BY <2>1, <2>4, <2>5 DEF GoesTo, b
  <2> QED BY <2>6
<1> QED BY <1>2, <1>3, <1>4

LEMMA CompletionGoes ==
    ASSUME Base, LocksInOrder, NEW w \in Workers,
           CompletionRedirects(w) \/ CompletionLocks(w) \/ CompletionFinds(w)
    PROVE  \E c : GoesTo(w, c)
<1>1. /\ call[w] \in Calls /\ call[w] \in CompletionCalls /\ InOrder(call[w])
      /\ call[w].pc # "idle"
  BY StillNamed, CallShape
     DEF LocksInOrder, CompletionRedirects, CompletionLocks, CompletionFinds
<1>2. PICK c : CompletionMoves(w, c)
  BY CompletionMovesStep
<1>3. c \in CompletionCalls /\ c \in Calls /\ Said(w, c) /\ call'[w] = c
  BY <1>2, SetCalls, SaidCalls DEF CompletionMoves, Goto, Said, Base
<1>4. \/ call[w].pc = "redirect" /\ c.pc \in {"write", "lockPhone"}
      \/ call[w].pc = "lockPhone" /\ c.pc = "find"
      \/ call[w].pc = "find" /\ c.pc = "write"
  <2>1. \A t \in {"write", "lockPhone", "find"} : [call[w] EXCEPT !.pc = t].pc = t
    BY <1>1 DEF CompletionCalls
  <2>2. CASE CompletionRedirects(w)
    <3>1. /\ call[w].pc = "redirect"
          /\ \/ \E F : call'[w] = [call[w] EXCEPT !.pc = "write", !.found = F]
             \/ call'[w] = [call[w] EXCEPT !.pc = "lockPhone"]
      BY <2>2 DEF CompletionRedirects, Goto, Base, Types
    <3>2. \A F : [call[w] EXCEPT !.pc = "write", !.found = F].pc = "write"
      BY <1>1 DEF CompletionCalls
    <3> QED BY <1>3, <2>1, <3>1, <3>2
  <2>3. CASE CompletionLocks(w)
    <3>1. call[w].pc = "lockPhone" /\ \E H : call'[w] = [call[w] EXCEPT !.pc = "find", !.holds = H]
      BY <2>3 DEF CompletionLocks, Goto, Base, Types
    <3>2. \A H : [call[w] EXCEPT !.pc = "find", !.holds = H].pc = "find"
      BY <1>1 DEF CompletionCalls
    <3> QED BY <1>3, <3>1, <3>2
  <2>4. CASE CompletionFinds(w)
    <3>1. call[w].pc = "find" /\ \E F : call'[w] = [call[w] EXCEPT !.pc = "write", !.found = F]
      BY <2>4 DEF CompletionFinds, Goto, Base, Types
    <3>2. \A F : [call[w] EXCEPT !.pc = "write", !.found = F].pc = "write"
      BY <1>1 DEF CompletionCalls
    <3> QED BY <1>3, <3>1, <3>2
  <2> QED BY <2>2, <2>3, <2>4
<1>5. Left(c) < Left(call[w])
  <2>1. \/ Left(call[w]) = 4 /\ Left(c) \in {1, 3}
        \/ Left(call[w]) = 3 /\ Left(c) = 2
        \/ Left(call[w]) = 2 /\ Left(c) = 1
    BY <1>1, <1>3, <1>4, LeftOf
  <2> QED BY <2>1
<1>6. InOrder(c)
  <2>1. CASE c.pc = "lockPhone"
    <3>1. c.holds = call[w].holds /\ call[w].pc = "redirect"
      BY <1>2, <1>4, <2>1 DEF CompletionMoves
    <3>2. c.holds = {}
      BY <1>1, <3>1, HoldsShape DEF InOrder
    <3> QED BY <1>3, <3>2, InOrderUnlocked
  <2> QED BY <1>3, <1>4, <2>1, InOrderElsewhere
<1> QED BY <1>3, <1>5, <1>6 DEF GoesTo

LEMMA OthersGo ==
    ASSUME Base, NEW w \in Workers,
           OnlineAsserts(w) \/ MergeFindsRows(w) \/ LinkEnriches(w) \/ SeparateCreates(w)
    PROVE  \E c : GoesTo(w, c)
<1>1. call[w] \in Calls /\ call[w].pc \in {"assert", "find rows", "enrich", "create"}
  BY StillNamed DEF OnlineAsserts, MergeFindsRows, LinkEnriches, SeparateCreates
<1>0. call[w] # Idle
  <2>1. Idle.pc = "idle"
    BY DEF Idle
  <2> QED BY <1>1, <2>1
<1>2. ASSUME NEW c, c \in SiteCalls \cup MergeCalls \cup LinkCalls \cup AttachCalls, Goto(w, c),
             c.pc \in {"insert appointment", "merge", "attach"}
      PROVE  GoesTo(w, c)
  <2>1. c \in Calls /\ Said(w, c) /\ InOrder(c)
    BY <1>2, SetCalls, InOrderElsewhere DEF Goto, Said
  <2>2. Left(c) = 1 /\ Left(call[w]) = 2
    BY <1>1, <1>2, <2>1, LeftOf
  <2> QED BY <2>1, <2>2 DEF GoesTo
<1>3. CASE OnlineAsserts(w)
  BY <1>0, <1>2, <1>3, OnlineAssertsStep, EndGoes DEF SiteMoves
<1>4. CASE MergeFindsRows(w)
  BY <1>2, <1>4, MergeFindsRowsStep DEF MergeMoves
<1>5. CASE LinkEnriches(w)
  BY <1>2, <1>5, LinkEnrichesStep DEF Enriches
<1>6. CASE SeparateCreates(w)
  <2>1. PICK f, c : Creates(w, f, c)
    BY <1>6, SeparateCreatesStep
  <2>2. c \in AttachCalls /\ Goto(w, c) /\ c.pc = "attach"
    BY <2>1 DEF Creates, AttachCalls
  <2> QED BY <1>2, <2>2
<1> QED BY <1>3, <1>4, <1>5, <1>6

LEMMA ProceedGoes ==
    ASSUME Base, LocksInOrder, NEW w \in Workers, Proceed(w)
    PROVE  call[w] # Idle /\ \E c : GoesTo(w, c)
<1>0. call[w].pc # "idle"
  BY DEF Proceed, BotLocksRef, BotLocksPhone, BotBooks, BotRetries, BotFails,
         CompletionRedirects, CompletionLocks, CompletionFinds, CompletionWrites, LeadInserts,
         OnlineAsserts, OnlineBooks, LinkEnriches, SeparateCreates, RequestAttaches,
         MergeFindsRows, MergeWrites, MergeFails
<1>1. call[w] # Idle
  BY <1>0 DEF Idle
<1>2. CASE End(w)
  BY <1>1, <1>2, EndGoes
<1>3. CASE BotBooks(w) \/ BotFails(w) \/ CompletionWrites(w) \/ LeadInserts(w) \/ OnlineBooks(w)
             \/ RequestAttaches(w) \/ MergeWrites(w) \/ MergeFails(w)
  BY <1>2, <1>3 DEF BotBooks, BotFails, CompletionWrites, LeadInserts, OnlineBooks,
                    RequestAttaches, MergeWrites, MergeFails
<1>4. CASE BotLocksRef(w) \/ BotLocksPhone(w) \/ BotRetries(w)
  BY <1>1, <1>4, BotGoes
<1>5. CASE CompletionRedirects(w) \/ CompletionLocks(w) \/ CompletionFinds(w)
  BY <1>1, <1>5, CompletionGoes
<1>6. CASE OnlineAsserts(w) \/ MergeFindsRows(w) \/ LinkEnriches(w) \/ SeparateCreates(w)
  BY <1>1, <1>6, OthersGo
<1> QED BY <1>1, <1>3, <1>4, <1>5, <1>6 DEF Proceed

(* A call begins holding nothing. *)
LEMMA ArriveGoes ==
    ASSUME Base, NEW w \in Workers, Arrive(w)
    PROVE  call[w] = Idle /\ \E c \in Calls : Said(w, c) /\ c.holds = {}
<1>1. call[w] = Idle
  BY DEF Arrive
<1>2. ASSUME NEW p \in Phones, NEW f \in Refs \cup {None}, BotBegin(w, p, f)
      PROVE  \E c \in Calls : Said(w, c) /\ c.holds = {}
  <2>1. Types /\ 1 \in 1 .. MaxTries /\ Said(w, Snapshot(p, f, 1))
    BY <1>2, ClientsAssumption DEF BotBegin, Begin, Said, Base
  <2> QED BY <2>1, SnapshotTyped, SetCalls
<1>3. ASSUME NEW c \in SiteCalls \cup CompletionCalls \cup CreateCalls \cup LinkCalls \cup MergeCalls,
             NEW kind, Begin(w, kind, c), c.holds = {}
      PROVE  \E d \in Calls : Said(w, d) /\ d.holds = {}
  BY <1>3, SetCalls DEF Begin, Said
<1>4. ASSUME NEW p \in Phones, LeadResolves(w, p) \/ OnlineResolves(w, p)
      PROVE  \E c \in Calls : Said(w, c) /\ c.holds = {}
  BY <1>3, <1>4, ResolveStep DEF SiteStarts, SiteCalls
<1>5. ASSUME NEW r \in Rows, CompletionBegin(w, r)
      PROVE  \E c \in Calls : Said(w, c) /\ c.holds = {}
  BY <1>3, <1>5, CompletionBeginStep DEF CompletionStarts
<1>6. ASSUME NEW r \in Rows, SeparateBegin(w, r)
      PROVE  \E c \in Calls : Said(w, c) /\ c.holds = {}
  BY <1>3, <1>6, SeparateBeginStep DEF CreateStarts, CreateCalls
<1>7. ASSUME NEW r \in Rows, NEW d \in Ids, LinkBegin(w, r, d)
      PROVE  \E c \in Calls : Said(w, c) /\ c.holds = {}
  BY <1>3, <1>7, LinkBeginStep DEF LinkStarts, LinkCalls
<1>8. ASSUME NEW S \in SUBSET {c \in Ids : Exists(c)}, NEW t \in Ids, MergeBegin(w, t, S)
      PROVE  \E c \in Calls : Said(w, c) /\ c.holds = {}
  <2>1. S \in SUBSET Ids
    OBVIOUS
  <2>2. PICK c : MergeStarts(w, t, S, c)
    BY <1>8, <2>1, MergeBeginStep
  <2>3. c \in MergeCalls /\ c.holds = {} /\ Begin(w, "merge", c)
    BY <2>2 DEF MergeStarts, MergeCalls
  <2> QED BY <1>3, <2>3
<1> QED BY <1>1, <1>2, <1>4, <1>5, <1>6, <1>7, <1>8 DEF Arrive

LEMMA NextLocksInOrder ==
    ASSUME Base, LocksInOrder, [Next]_vars
    PROVE  LocksInOrder'
<1>1. CASE UNCHANGED vars
  BY <1>1 DEF vars, LocksInOrder, InOrder, HoldsOf
<1>2. ASSUME NEW w \in Workers, Arrive(w) \/ Proceed(w) PROVE LocksInOrder'
  <2>1. PICK c \in Calls : Said(w, c) /\ InOrder(c)
    BY <1>2, ProceedGoes, ArriveGoes, InOrderUnlocked DEF GoesTo
  <2>2. call'[w] = c /\ \A v \in Workers \ {w} : call'[v] = call[v]
    BY <2>1, SaidCalls DEF Base
  <2>3. \A v \in Workers : InOrder(call'[v])
    BY <2>1, <2>2 DEF LocksInOrder
  <2> QED BY <2>3 DEF LocksInOrder, InOrder, HoldsOf
<1> QED BY <1>1, <1>2 DEF Next, Rest

LEMMA OneIsFree ==
    ASSUME Base, LocksInOrder
    PROVE  SomebodyGoesOn
<1> SUFFICES ASSUME NEW w \in Workers, call[w] # Idle, \A v \in Workers : call[v] # Idle => HeldUp(v)
             PROVE  FALSE
  BY DEF SomebodyGoesOn
<1>1. ASSUME NEW v \in Workers, HeldUp(v)
      PROVE  /\ call[v].pc = "lockPhone" => \A k \in HoldsOf(call[v]) : k[1] = "ref"
             /\ call[v].pc = "lockRef" => HoldsOf(call[v]) = {}
             /\ call[v].pc \in {"lockRef", "lockPhone"}
             /\ \E u \in Workers : call[u] # Idle /\ Awaited(call[v]) \in HoldsOf(call[u])
  BY <1>1 DEF LocksInOrder, InOrder, HeldUp, Locked, HoldsOf, Idle
<1>2. ASSUME NEW v \in Workers, HeldUp(v), call[v].pc = "lockPhone" PROVE FALSE
  <2>1. PICK u \in Workers : HeldUp(u) /\ Awaited(call[v]) \in HoldsOf(call[u])
    BY <1>1, <1>2
  <2>2. Awaited(call[v])[1] # "ref"
    BY <1>2 DEF Awaited, PhoneLock
  <2>3. CASE call[u].pc = "lockRef"
    BY <1>1, <2>1, <2>3
  <2>4. CASE call[u].pc = "lockPhone"
    BY <1>1, <2>1, <2>2, <2>4
  <2> QED BY <1>1, <2>1, <2>3, <2>4
<1>3. PICK u \in Workers : HeldUp(u) /\ Awaited(call[w]) \in HoldsOf(call[u])
  BY <1>1
<1> QED BY <1>1, <1>2, <1>3

(* Some call under way is never held up by an advisory lock: bookings that   *)
(* wait for a clientRef's lock and then a phone's, and completions that wait *)
(* for a phone's alone, never wait for each other in a circle, however many  *)
(* there are (resolveBotClientIdByClientRef locks the ref before the phone). *)
THEOREM NoCircularWait == Spec => []SomebodyGoesOn
<1>1. Init => LocksInOrder
  BY InitBase, InOrderElsewhere, SetCalls DEF Init, LocksInOrder, Idle
<1>2. Base /\ LocksInOrder /\ [Next]_vars => (Base /\ LocksInOrder)'
  BY NextSteps, NextLocksInOrder
<1>3. Base /\ LocksInOrder => SomebodyGoesOn
  BY OneIsFree
<1> QED BY <1>1, <1>2, <1>3, InitBase, PTL DEF Spec

(* Every step starts a call or brings one nearer to its end, and no call is  *)
(* set back by another's step: retries of the Serializable transactions are  *)
(* counted against MaxTries, all else happens once.                          *)
THEOREM EveryStepIsProgress == Spec => CallsDescend
<1>1. ASSUME Base, LocksInOrder, [Next]_vars
      PROVE  [\E w \in Workers :
                /\ call[w] = Idle \/ Left(call'[w]) < Left(call[w])
                /\ Left(call'[w]) \in 0 .. 3 * MaxTries + 1
                /\ \A v \in Workers \ {w} : call'[v] = call[v]]_vars
  <2>1. ASSUME NEW w \in Workers, Arrive(w) \/ Proceed(w)
        PROVE  /\ call[w] = Idle \/ Left(call'[w]) < Left(call[w])
               /\ Left(call'[w]) \in 0 .. 3 * MaxTries + 1
               /\ \A v \in Workers \ {w} : call'[v] = call[v]
    <3>1. PICK c \in Calls : Said(w, c) /\ (call[w] = Idle \/ Left(c) < Left(call[w]))
      BY <1>1, <2>1, ProceedGoes, ArriveGoes DEF GoesTo
    <3>2. call'[w] = c /\ \A v \in Workers \ {w} : call'[v] = call[v]
      BY <1>1, <3>1, SaidCalls DEF Base
    <3>3. Left(c) \in 0 .. 3 * MaxTries + 1
      BY LeftBounds
    <3> QED BY <3>1, <3>2, <3>3
  <2> QED BY <1>1, <2>1 DEF Next, Rest
<1>2. Init => Base /\ LocksInOrder
  BY InitBase, InOrderElsewhere, SetCalls DEF Init, LocksInOrder, Idle
<1>3. Base /\ LocksInOrder /\ [Next]_vars => (Base /\ LocksInOrder)'
  BY NextSteps, NextLocksInOrder
<1> QED BY <1>1, <1>2, <1>3, PTL DEF Spec, CallsDescend

-------------------------------------------------------------------------------
(***************************************************************************)
(* One live client per phone.  It is a property of one creator, not of the *)
(* system: with only the bot's bookings or only the completions creating   *)
(* clients, and nobody merging or changing a phone, a phone keeps at most  *)
(* one live client.                                                        *)
(***************************************************************************)
OneCreator == Kinds \subseteq {"bot", "lead", "online"} \/ Kinds \subseteq {"completion", "lead", "online"}

KnownApart == \A c, d \in 1 .. Len(Known) : Known[c] = Known[d] /\ Known[c] # None => c = d

(* No client of the beginning has this phone. *)
Unknown(p) == \A d \in Ids : clients[d].by = "seed" => clients[d].phone # p

OfKinds(c) ==
    /\ c \in IdleCalls \cup BotCalls \cup CompletionCalls \cup SiteCalls
    /\ c \in BotCalls => "bot" \in Kinds /\ (c.found = {} => Unknown(c.phone))
    /\ c \in CompletionCalls =>
          "completion" \in Kinds /\ (c.pc = "write" /\ c.found = {} => Unknown(c.phone))

OneEach ==
    /\ \A c \in Ids : /\ clients[c].by \in {"seed", None} \cup (Kinds \cap Own)
                      /\ clients[c].into = None
    /\ \A c, d \in Ids : clients[c].by = "seed" /\ clients[d].by = "seed" /\ clients[c].phone = clients[d].phone
                            /\ clients[c].phone # None => c = d
    /\ \A c \in Ids : clients[c].by \in Own => Unknown(clients[c].phone)
    /\ \A w \in Workers : OfKinds(call[w])

LEMMA UnmatchedUnknown ==
    ASSUME OneEach, NEW p, Matching(p) = {}
    PROVE  Unknown(p)
<1>1. \A d \in Ids : clients[d].by = "seed" => Live(d)
  BY NoneApart DEF OneEach, Live, Exists
<1> QED BY <1>1 DEF Unknown, Matching, LiveIds

LEMMA OneEachQuiet ==
    ASSUME Base, OneEach, NEW w \in Workers, NEW c \in Calls, Said(w, c), clients' = clients, OfKinds(c)
    PROVE  OneEach'
<1>1. call'[w] = c /\ \A v \in Workers \ {w} : call'[v] = call[v]
  BY SaidCalls DEF Base
<1>2. \A v \in Workers : OfKinds(call'[v])
  BY <1>1 DEF OneEach
<1>3. \A v \in Workers : OfKinds(call[v])'
  BY <1>2 DEF OfKinds, Unknown
<1>4. \A d \in Ids : clients[d].by \in Own => Unknown(clients[d].phone)'
  BY DEF OneEach, Unknown
<1> QED BY <1>3, <1>4 DEF OneEach

LEMMA OneEachAdded ==
    ASSUME Base, OneEach, NEW w \in Workers, Said(w, Idle), NEW f, NEW p, NEW by \in Kinds \cap Own,
           ClientAdded(f, p, by), Unknown(p)
    PROVE  OneEach'
<1>1. call'[w] = Idle /\ \A v \in Workers \ {w} : call'[v] = call[v]
  BY SaidCalls, SetCalls DEF Base
<1>2. /\ f \in Ids /\ clients'[f].phone = p /\ clients'[f].into = None /\ clients'[f].by = by
      /\ by # "seed" /\ by # None /\ clients[f].by = None
      /\ \A d \in Ids \ {f} : clients'[d] = clients[d]
  BY NoneApart DEF ClientAdded, Own, Exists
<1>3. \A x : Unknown(x) => Unknown(x)'
  BY <1>2 DEF Unknown
<1>4. OfKinds(Idle)
  BY CallsApart DEF OfKinds, IdleCalls
<1>5. \A v \in Workers : OfKinds(call'[v])
  BY <1>1, <1>4 DEF OneEach
<1>6. ASSUME NEW v \in Workers PROVE OfKinds(call[v])'
  <2>1. PICK o : o = call'[v]
    OBVIOUS
  <2>2. OfKinds(o)
    BY <1>5, <2>1
  <2>3. OfKinds(o)'
    BY <1>3, <2>2 DEF OfKinds
  <2> QED BY <2>1, <2>3 DEF OfKinds, Unknown
<1>7. ASSUME NEW d \in Ids, clients'[d].by \in Own PROVE Unknown(clients[d].phone)'
  <2>1. PICK q : q = clients'[d].phone
    OBVIOUS
  <2>2. Unknown(q)
    BY <1>2, <1>7, <2>1 DEF OneEach
  <2> QED BY <1>3, <2>1, <2>2 DEF Unknown
<1>8. \A d \in Ids : (clients[d].by \in Own => Unknown(clients[d].phone))'
  BY <1>7
<1>9. \A d, e \in Ids : clients'[d].by = "seed" /\ clients'[e].by = "seed"
                          /\ clients'[d].phone = clients'[e].phone /\ clients'[d].phone # None => d = e
  BY <1>2 DEF OneEach
<1>10. \A d \in Ids : clients'[d].by \in {"seed", None} \cup (Kinds \cap Own) /\ clients'[d].into = None
  BY <1>2 DEF OneEach
<1> QED BY <1>6, <1>8, <1>9, <1>10 DEF OneEach

LEMMA StepOneEach ==
    ASSUME Base, OneEach, OneCreator, NEW w \in Workers, Step(w)
    PROVE  OneEach'
<1>0. /\ OfKinds(call[w]) /\ call[w] \in Calls /\ Idle \in Calls /\ OfKinds(Idle)
      /\ "link" \notin Kinds /\ "separate" \notin Kinds /\ "merge" \notin Kinds
  BY StillNamed, SetCalls, CallsApart DEF OneEach, OfKinds, IdleCalls, OneCreator
<1>1. ASSUME NEW p \in Phones, NEW f \in Refs \cup {None}, NEW n \in 1 .. MaxTries, Takes(w, p, f, n)
      PROVE  OneEach'
  <2> DEFINE c == Snapshot(p, f, n)
  <2>0. Types
    BY DEF Base
  <2>1. c \in BotCalls /\ c.phone = p
    BY <2>0, SnapshotTyped
  <2>2. c.found = {} => Matching(p) = {}
    <3>1. CASE f # None /\ links[f] # None
      BY <2>0, <3>1, SnapshotTyped
    <3>2. CASE f = None \/ links[f] = None
      BY <2>0, <3>2, SnapshotTyped
    <3> QED BY <3>1, <3>2
  <2>3. Said(w, c) /\ clients' = clients /\ "bot" \in Kinds
    BY <1>0, <1>1 DEF Takes, Quiet, OfKinds
  <2> HIDE DEF c
  <2>4. OfKinds(c)
    BY <2>1, <2>2, <2>3, UnmatchedUnknown, CallsApart DEF OfKinds
  <2> QED BY <2>1, <2>3, <2>4, SetCalls, OneEachQuiet
<1>2. ASSUME NEW key, NEW c, BotLocks(w, key, c) PROVE OneEach'
  <2>1. /\ c \in BotCalls /\ call[w] \in BotCalls /\ Said(w, c) /\ clients' = clients
        /\ c.found = call[w].found /\ c.phone = call[w].phone
    BY <1>2 DEF BotLocks, Goto, Said, Quiet
  <2>2. OfKinds(c)
    BY <1>0, <2>1, CallsApart DEF OfKinds
  <2> QED BY <2>1, <2>2, SetCalls, OneEachQuiet
<1>3. ASSUME NEW r \in Rows, NEW c, CompletionStarts(w, r, c) PROVE OneEach'
  <2>1. /\ c \in CompletionCalls /\ c.pc # "write" /\ Said(w, c) /\ clients' = clients
        /\ "completion" \in Kinds
    BY <1>3 DEF CompletionStarts, Begin, Said, Quiet
  <2>2. OfKinds(c)
    BY <2>1, CallsApart DEF OfKinds
  <2> QED BY <2>1, <2>2, SetCalls, OneEachQuiet
<1>4. ASSUME NEW c, CompletionMoves(w, c) PROVE OneEach'
  <2>1. /\ c \in CompletionCalls /\ call[w] \in CompletionCalls /\ Said(w, c) /\ clients' = clients
        /\ c.pc = "write" /\ c.found = {} => c.found = Matching(c.phone)
    BY <1>4 DEF CompletionMoves, Goto, Said, Quiet
  <2>2. OfKinds(c)
    BY <1>0, <2>1, UnmatchedUnknown, CallsApart DEF OfKinds
  <2> QED BY <2>1, <2>2, SetCalls, OneEachQuiet
<1>5. ASSUME NEW c, SiteMoves(w, c) \/ \E kind : SiteStarts(w, kind, c) PROVE OneEach'
  <2>1. c \in SiteCalls /\ Said(w, c) /\ clients' = clients
    BY <1>5 DEF SiteMoves, SiteStarts, Begin, Goto, Said, Quiet
  <2>2. OfKinds(c)
    BY <2>1, CallsApart DEF OfKinds
  <2> QED BY <2>1, <2>2, SetCalls, OneEachQuiet
<1>6. ASSUME NEW r, NEW d, NEW S, NEW c,
             CreateStarts(w, r, c) \/ LinkStarts(w, r, d, c) \/ MergeStarts(w, d, S, c)
      PROVE  FALSE
  BY <1>0, <1>6 DEF CreateStarts, LinkStarts, MergeStarts, Begin
<1>7. call[w] \notin MergeCalls \cup LinkCalls \cup CreateCalls \cup AttachCalls
  <2>1. CASE call[w] \in IdleCalls
    BY <1>0, <2>1, CallShape, CallsApart DEF IdleCalls, CreateCalls, AttachCalls, Idle
  <2>2. CASE call[w] \in BotCalls
    BY <2>2 DEF BotCalls, MergeCalls, LinkCalls, CreateCalls, AttachCalls
  <2>3. CASE call[w] \in CompletionCalls
    BY <2>3 DEF CompletionCalls, MergeCalls, LinkCalls, CreateCalls, AttachCalls
  <2>4. CASE call[w] \in SiteCalls
    BY <2>4 DEF SiteCalls, MergeCalls, LinkCalls, CreateCalls, AttachCalls
  <2> QED BY <1>0, <2>1, <2>2, <2>3, <2>4 DEF OfKinds
<1>8. ASSUME NEW f, NEW c, \/ MergeMoves(w, c) \/ Enriches(w, c) \/ Creates(w, f, c)
                           \/ Attaches(w, f) \/ Merges(w)
      PROVE  FALSE
  BY <1>7, <1>8 DEF MergeMoves, Enriches, Creates, Attaches, Merges
<1>9. ASSUME End(w), clients' = clients PROVE OneEach'
  BY <1>0, <1>9, OneEachQuiet DEF End, Said
<1>10. ASSUME NEW r, NEW f, BotCommits(w, r, f) PROVE OneEach'
  <2>1. call[w] \in BotCalls /\ End(w) /\ Said(w, Idle)
    BY <1>10 DEF BotCommits, End, Said
  <2>2. CASE call[w].found # {}
    BY <1>9, <1>10, <2>1, <2>2 DEF BotCommits
  <2>3. CASE call[w].found = {}
    <3>1. ClientAdded(f, call[w].phone, "bot")
      BY <1>10, <2>3 DEF BotCommits
    <3>2. "bot" \in Kinds \cap Own /\ Unknown(call[w].phone)
      BY <1>0, <2>1, <2>3 DEF OfKinds, Own
    <3> QED BY <2>1, <3>1, <3>2, OneEachAdded
  <2> QED BY <2>2, <2>3
<1>11. ASSUME NEW S, NEW f, CompletionCommits(w, S, f) PROVE OneEach'
  <2>1. call[w] \in CompletionCalls /\ call[w].pc = "write" /\ End(w) /\ Said(w, Idle)
    BY <1>11 DEF CompletionCommits, End, Said
  <2>2. CASE call[w].found # {}
    BY <1>9, <1>11, <2>1, <2>2 DEF CompletionCommits
  <2>3. CASE call[w].found = {}
    <3>1. ClientAdded(f, call[w].phone, "completion")
      BY <1>11, <2>3 DEF CompletionCommits
    <3>2. "completion" \in Kinds \cap Own /\ Unknown(call[w].phone)
      BY <1>0, <2>1, <2>3 DEF OfKinds, Own
    <3> QED BY <2>1, <3>1, <3>2, OneEachAdded
  <2> QED BY <2>2, <2>3
<1>12. ASSUME NEW kind, NEW r, NEW f, SiteCommits(w, kind, r, f) PROVE OneEach'
  BY <1>9, <1>12 DEF SiteCommits
<1>13. CASE End(w) /\ Quiet
  BY <1>9, <1>13 DEF Quiet
<1> QED BY <1>1, <1>2, <1>3, <1>4, <1>5, <1>6, <1>8, <1>10, <1>11, <1>12, <1>13 DEF Step

LEMMA InitOneEach ==
    ASSUME Init, KnownApart
    PROVE  OneEach
<1>1. \A c \in Ids : /\ clients[c].into = None
                     /\ c <= Len(Known) => clients[c].by = "seed" /\ clients[c].phone = Known[c]
                     /\ ~(c <= Len(Known)) => clients[c].by = None
  BY DEF Init
<1>2. \A c \in Ids : clients[c].by = "seed" => c \in 1 .. Len(Known) /\ clients[c].phone = Known[c]
  <2>1. Len(Known) \in Nat /\ Ids \subseteq Nat \ {0}
    BY ClientsAssumption
  <2> QED BY <1>1, <2>1, NoneApart
<1>3. \A c \in Ids : clients[c].by \in {"seed", None} /\ clients[c].by \notin Own
  BY <1>1, NoneApart DEF Own
<1>4. \A w \in Workers : OfKinds(call[w])
  BY CallsApart DEF Init, OfKinds, IdleCalls
<1>5. \A c, d \in Ids : clients[c].by = "seed" /\ clients[d].by = "seed" /\ clients[c].phone = clients[d].phone
                            /\ clients[c].phone # None => c = d
  BY <1>2 DEF KnownApart
<1> QED BY <1>1, <1>3, <1>4, <1>5 DEF OneEach

LEMMA OneEachOnce ==
    ASSUME OneCreator, Base, OneEach, OneMade
    PROVE  OneLiveClientPerPhone
<1> SUFFICES ASSUME NEW p \in Phones PROVE Cardinality(Matching(p)) \leq 1
  BY DEF OneLiveClientPerPhone
<1>1. ASSUME NEW c \in Matching(p), NEW d \in Matching(p) PROVE c = d
  <2>1. /\ c \in Ids /\ d \in Ids /\ c \in LiveIds /\ d \in LiveIds
        /\ clients[c].phone = p /\ clients[d].phone = p /\ p # None
        /\ clients[c].by # None /\ clients[d].by # None
    BY MatchingExists, NoneApart DEF Matching, Exists
  <2>2. CASE clients[c].by = "seed" /\ clients[d].by = "seed"
    BY <2>1, <2>2 DEF OneEach
  <2>3. CASE clients[c].by # "seed" /\ clients[d].by # "seed"
    <3>1. clients[c].by \in Kinds \cap Own /\ clients[d].by \in Kinds \cap Own
      BY <2>1, <2>3 DEF OneEach
    <3>2. clients[c].by = clients[d].by
      BY <3>1 DEF OneCreator, Own
    <3> QED BY <2>1, <3>1, <3>2 DEF OneMade, OneClientPerCreator, Own
  <2>4. CASE clients[c].by = "seed" /\ clients[d].by # "seed"
    BY <2>1, <2>4 DEF OneEach, Unknown
  <2>5. CASE clients[c].by # "seed" /\ clients[d].by = "seed"
    BY <2>1, <2>5 DEF OneEach, Unknown
  <2> QED BY <2>2, <2>3, <2>4, <2>5
<1>2. CASE Matching(p) = {}
  BY <1>2, FS_EmptySet
<1>3. ASSUME NEW c \in Matching(p) PROVE Cardinality(Matching(p)) \leq 1
  <2>1. Matching(p) = {c}
    BY <1>1, <1>3
  <2> QED BY <2>1, FS_Singleton
<1> QED BY <1>2, <1>3

(* Of one phone there is at most one live client while bookings of the bot   *)
(* are the only handlers that create clients, and likewise for completions,  *)
(* if there was at most one at first.  Together they break it, since a       *)
(* booking under a clientRef and a completion take different advisory locks  *)
(* of the phone (run clients_split), and so does a manager who separates,    *)
(* links or merges clients beside the bot.                                   *)
THEOREM OneClientWithOneCreator ==
    ASSUME OneCreator, KnownApart
    PROVE  Spec => []OneLiveClientPerPhone
<1>1. Init => Base /\ OneMade /\ OneEach
  BY InitBase, InitMade, InitOneEach
<1>2. Base /\ OneMade /\ OneEach /\ [Next]_vars => (Base /\ OneMade /\ OneEach)'
  <2>1. ASSUME OneEach, OneMade, UNCHANGED vars PROVE OneEach' /\ OneMade'
    BY <2>1 DEF vars, OneEach, OfKinds, Unknown,
                OneMade, MakesOne, OneClientPerCreator, LiveIds, Live, Exists, HoldsOf
  <2> QED BY <2>1, NextSteps, StepMade, StepOneEach
<1>3. Base /\ OneMade /\ OneEach => OneLiveClientPerPhone
  BY OneEachOnce
<1> QED BY <1>1, <1>2, <1>3, PTL DEF Spec
===============================================================================
