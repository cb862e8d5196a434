------------------------------ MODULE Publication ------------------------------
(***************************************************************************)
(* Publishing what the bot runs on: its settings (one draft row) or its    *)
(* knowledge (a draft of entries).  Both areas follow one protocol: a      *)
(* publication and a rollback are Read Committed transactions that begin   *)
(* with the row lock of the owner (bot_settings, bot_knowledge_workspace). *)
(* The settings' lock is on the draft itself, so an edit waits for it; the *)
(* entries are edited and imported beside a publication of them.           *)
(*                                                                         *)
(* A part is a group of settings or an entry, its value what a publication *)
(* shows of it.  Versions are never deleted: a version is its number.  The *)
(* code's CONFLICT, several ACTIVE rows found, is not modelled: there is   *)
(* never more than one (ImplementsPublishedVersions).                      *)
(***************************************************************************)
EXTENDS Naturals, Sequences

CONSTANTS
    Workers,        \* requests under way at once
    Parts,
    Values,
    MaxRequests,    \* bound: publications, rollbacks and imports
    MaxEdits        \* bound: edits of the draft

ASSUME PublicationAssumption == {MaxRequests, MaxEdits} \subseteq Nat

VARIABLES
    area,       \* which of the two; it never changes
    draft,      \* [Parts -> Values]: bot_settings or bot_knowledge_entries
    rows,       \* the publications, by versionNumber
    pointer,    \* activePublicationId, 0 for none
    job,        \* [Workers -> record]: each worker's request
    begun,      \* requests so far
    edits       \* edits so far

vars == <<area, draft, rows, pointer, job, begun, edits>>
Store == <<rows, pointer>>

Areas == {"settings", "knowledge"}
Contents == [Parts -> Values]
Rows == [status : {"ACTIVE", "SUPERSEDED"}, content : Contents]
Answers == {"none", "unchanged", "published", "activated", "error"}

(* target: the version to activate; parts: what an import found different;   *)
(* content: the draft a publication has read, or the file of an import.      *)
Jobs == [pc : {"idle", "lock", "read", "compare", "publish", "target", "activate", "import", "answered"},
         target : Nat, parts : SUBSET Parts, content : Contents, old : SUBSET Nat, answer : Answers]

Active == {v \in 1 .. Len(rows) : rows[v].status = "ACTIVE"}

(* A worker at rest keeps no more than a content of no meaning.              *)
Idle(c) == [pc |-> "idle", target |-> 0, parts |-> {}, content |-> c, old |-> {}, answer |-> "none"]

Init ==
    /\ area \in Areas
    /\ draft \in Contents
    /\ rows = <<>> /\ pointer = 0
    /\ job = [w \in Workers |-> Idle(draft)]
    /\ begun = 0 /\ edits = 0

Begins(w, j) ==
    /\ job[w].pc = "idle" /\ begun < MaxRequests
    /\ begun' = begun + 1
    /\ job' = [job EXCEPT ![w] = j]
    /\ UNCHANGED <<area, draft, Store, edits>>

Goes(w, j) == job' = [job EXCEPT ![w] = j] /\ UNCHANGED <<area, begun, edits>>

(* The end of a transaction; its row lock goes with it.                      *)
Ends(w, answer) == Goes(w, [job[w] EXCEPT !.pc = "answered", !.answer = answer])

Holding == {"read", "compare", "publish", "target", "activate"}
Locked == \E w \in Workers : job[w].pc \in Holding

--------------------------------------------------------------------------------
(* publishCurrentBotSettings, publishCurrentKnowledge *)

Publish(w) == Begins(w, [Idle(draft) EXCEPT !.pc = "lock"])

(* Mutant: the owner's row is read without FOR UPDATE.                       *)
ReadOwner(w) ==
    /\ job[w].pc = "lock"
    /\ Goes(w, [job[w] EXCEPT !.pc = IF job[w].target = 0 THEN "read" ELSE "target"])
    /\ UNCHANGED <<draft, Store>>

(* SELECT ... FOR UPDATE, for a rollback too.                                *)
TakeLock(w) ==
    /\ job[w].pc = "lock" /\ ~Locked
    /\ Goes(w, [job[w] EXCEPT !.pc = IF job[w].target = 0 THEN "read" ELSE "target"])
    /\ UNCHANGED <<draft, Store>>

ReadDraft(w) ==
    /\ job[w].pc = "read"
    /\ Goes(w, [job[w] EXCEPT !.pc = "compare", !.content = draft])
    /\ UNCHANGED <<draft, Store>>

(* Mutant: compared with the version published last.                         *)
CompareWithLast(w) ==
    /\ job[w].pc = "compare"
    /\ IF rows # <<>> /\ rows[Len(rows)].content = job[w].content
       THEN Ends(w, "unchanged")
       ELSE Goes(w, [job[w] EXCEPT !.pc = "publish", !.old = Active])
    /\ UNCHANGED <<draft, Store>>

(* Nothing is published when the ACTIVE version has the draft's checksum.    *)
Compare(w) ==
    /\ job[w].pc = "compare"
    /\ IF \E v \in Active : rows[v].content = job[w].content
       THEN Ends(w, "unchanged")
       ELSE Goes(w, [job[w] EXCEPT !.pc = "publish", !.old = Active])
    /\ UNCHANGED <<draft, Store>>

Superseded(old) ==
    [v \in 1 .. Len(rows) |-> IF v \in old THEN [rows[v] EXCEPT !.status = "SUPERSEDED"] ELSE rows[v]]

(* Mutant: the owner is pointed at the version on another connection, and    *)
(* stays so when the version is rolled back.                                 *)
PublishInParts(w) ==
    /\ job[w].pc = "publish"
    /\ pointer' = Len(rows) + 1
    /\ \/ /\ rows' = Append(Superseded(job[w].old), [status |-> "ACTIVE", content |-> job[w].content])
          /\ Ends(w, "published")
       \/ UNCHANGED rows /\ Ends(w, "error")
    /\ UNCHANGED draft

(* The found version is superseded, the next number given to the new one.    *)
PublishCommits(w) ==
    /\ job[w].pc = "publish"
    /\ rows' = Append(Superseded(job[w].old), [status |-> "ACTIVE", content |-> job[w].content])
    /\ pointer' = Len(rows) + 1
    /\ Ends(w, "published") /\ UNCHANGED draft

--------------------------------------------------------------------------------
(* activateBotSettingsPublication, activateKnowledgePublication *)

Activate(w, v) == Begins(w, [Idle(draft) EXCEPT !.pc = "lock", !.target = v])

FindTarget(w) ==
    /\ job[w].pc = "target"
    /\ IF job[w].target \in Active THEN Ends(w, "activated")
       ELSE Goes(w, [job[w] EXCEPT !.pc = "activate", !.old = Active])
    /\ UNCHANGED <<draft, Store>>

ActivateCommits(w) ==
    /\ job[w].pc = "activate"
    /\ rows' = [Superseded(job[w].old) EXCEPT ![job[w].target].status = "ACTIVE"]
    /\ pointer' = job[w].target
    /\ Ends(w, "activated") /\ UNCHANGED draft

--------------------------------------------------------------------------------
(* The drafts *)

Edits(S, c) ==
    /\ edits < MaxEdits /\ edits' = edits + 1
    /\ draft' = [p \in Parts |-> IF p \in S THEN c[p] ELSE draft[p]]
    /\ UNCHANGED <<area, Store, job, begun>>

(* updateBotSettings, resetBotSettings: one statement, of the fields given,  *)
(* on the row that a publication locks.                                      *)
EditSettings(S, c) == area = "settings" /\ ~Locked /\ Edits(S, c)

(* createBotKnowledgeEntry, updateBotKnowledgeEntry *)
EditEntry(p, c) == area = "knowledge" /\ Edits({p}, c)

(* importBotKnowledgeEntries: the entries of the file S are read, and those  *)
(* that differed are written together, whatever they have become since.      *)
Import(w, S, c) ==
    /\ area = "knowledge"
    /\ Begins(w, [Idle(c) EXCEPT !.pc = "import", !.parts = {p \in S : draft[p] # c[p]}])

ImportCommits(w) ==
    LET j == job[w] IN
    /\ j.pc = "import"
    /\ draft' = [p \in Parts |-> IF p \in j.parts THEN j.content[p] ELSE draft[p]]
    /\ Ends(w, "none") /\ UNCHANGED Store

--------------------------------------------------------------------------------
(* The connection is lost inside the transaction: it is rolled back. *)
Abort(w) ==
    /\ job[w].pc \in Holding \cup {"import"}
    /\ Ends(w, "error") /\ UNCHANGED <<draft, Store>>

Reply(w) ==
    /\ job[w].pc = "answered"
    /\ Goes(w, Idle(draft)) /\ UNCHANGED <<draft, Store>>

Step(w) ==
    \/ TakeLock(w) \/ ReadDraft(w) \/ Compare(w) \/ PublishCommits(w)
    \/ FindTarget(w) \/ ActivateCommits(w)
    \/ ImportCommits(w) \/ Abort(w) \/ Reply(w)

(* Nothing under way: the managers rest. *)
Rest == (\A w \in Workers : job[w].pc = "idle") /\ UNCHANGED vars

Next ==
    \/ \E w \in Workers :
        \/ Publish(w) \/ Step(w)
        \/ \E v \in 1 .. Len(rows) : Activate(w, v)
        \/ \E S \in SUBSET Parts, c \in Contents : Import(w, S, c)
    \/ \E S \in SUBSET Parts, c \in Contents : EditSettings(S, c)
    \/ \E p \in Parts, c \in Contents : EditEntry(p, c)
    \/ Rest

Spec == Init /\ [][Next]_vars

--------------------------------------------------------------------------------
(* Properties *)

(* Every row and request is of its type, and a pointer or a target names a   *)
(* version there is.                                                         *)
TypeOK ==
    /\ area \in Areas /\ draft \in Contents
    /\ rows \in Seq(Rows) /\ pointer \in 0 .. Len(rows)
    /\ job \in [Workers -> Jobs]
    /\ \A w \in Workers : job[w].target \in 0 .. Len(rows)
    /\ begun \in 0 .. MaxRequests /\ edits \in 0 .. MaxEdits

(* A manager told that a publication succeeded, or that there was nothing to *)
(* publish, has the draft live: for the settings the draft as it is at that  *)
(* moment, for the knowledge the draft it read behind the lock; after        *)
(* rollbacks too, and whoever published, rolled back or edited meanwhile.    *)
Published(w) ==
    job[w].pc \in Holding /\ job'[w].pc = "answered" /\ job'[w].answer \in {"unchanged", "published"}
DraftIsLive ==
    [][\A w \in Workers : Published(w) =>
        \E v \in Active' :
            /\ rows'[v].content = job[w].content
            /\ area = "settings" => rows'[v].content = draft']_vars

(* The rows, and the pointer of their owner, are a log of versions with one  *)
(* of them live: numbers are not given twice nor contents rewritten,         *)
(* whichever publications and rollbacks run together (the partial unique     *)
(* index of ACTIVE rows never has to refuse one).                            *)
Log == INSTANCE PublishedVersions WITH
    versions <- [v \in 1 .. Len(rows) |-> rows[v].content],
    live <- Active \cup ({pointer} \ {0})
ImplementsPublishedVersions == Log!Spec
================================================================================
