-------------------------- MODULE GameSessionProofs --------------------------
(***************************************************************************)
(* What holds of the catch-time game for any number of sessions, keys,     *)
(* phones and concurrent requests, and that it implements GiftClaim; which *)
(* gifts may lack a claim window (WindowsOK) and what becomes of them; and *)
(* by how much parallel starts can pass their limit (StartsInv).           *)
(***************************************************************************)
EXTENDS GameSession, FiniteSetTheorems, TLAPS

(* The rows between two statements. *)
RowsTyped ==
    /\ session \in [Sessions -> SessionRows]
    /\ play \in [Sessions -> Keys \cup {None, NoPlay}]
    /\ lead \in [Keys -> LeadRows]
    /\ \A s \in Sessions : session[s].status = "COMPLETED" => session[s].claimExp \in Nat

OneOpenLead ==
    \A p \in Phones : \A k, l \in OpenLeads(p) : k = l

RowsOK == RowsTyped /\ ConsumedByALead /\ OneLeadPerPlay /\ OneOpenLead

(* What a request under way has established. *)
Fits(j) ==
    /\ j.pc \in {"expire", "replace"} => j.was \in {"ACTIVE", "COMPLETED"}
    /\ j.pc \in SessionSteps => j.req.s \in Sessions
    /\ j.pc \in {"count", "open"} => j.req.s \in Sessions \/ j.req.kind = "start"
    /\ j.pc \in BookSteps => j.req.s \in Sessions /\ j.req.k \in Keys /\ j.req.phone \in Phones

JobsOK ==
    /\ job \in [Workers -> Jobs]
    /\ \A w \in Workers : Fits(job[w])

CountersOK == clock \in 0 .. MaxTime /\ started \in 0 .. MaxRequests

Inv == RowsOK /\ JobsOK /\ CountersOK

Stage == [s \in Sessions |-> session[s].status]
ClaimOf == [s \in Sessions |-> IF HasLead(s) THEN play[s] ELSE None]

(* One step of the rows keeps them right and is a step of GiftClaim. *)
RowsStep == RowsOK' /\ [Claims!Next]_(Claims!vars)

-------------------------------------------------------------------------------
(* The requests under way *)

LEMMA Going ==
    ASSUME JobsOK, NEW w \in Workers, NEW pc \in Steps, Goes(w, pc),
           Fits([job[w] EXCEPT !.pc = pc])
    PROVE  JobsOK'
<1>1. job' \in [Workers -> Jobs]
  BY DEF JobsOK, Goes, Jobs
<1>2. \A x \in Workers : Fits(job'[x])
  BY DEF JobsOK, Goes
<1> QED BY <1>1, <1>2 DEF JobsOK, Fits

LEMMA Answering ==
    ASSUME JobsOK, NEW w \in Workers, NEW kind \in Answered,
           NEW what \in Sessions \cup Keys \cup {None}, Answers(w, kind, what)
    PROVE  JobsOK'
<1>1. job' \in [Workers -> Jobs]
  BY DEF JobsOK, Answers, Jobs, Steps, Statuses
<1>2. ASSUME NEW x \in Workers PROVE Fits(job'[x])
  <2>1. CASE x = w
    BY <2>1 DEF JobsOK, Answers, Jobs, Fits, SessionSteps, BookSteps
  <2>2. CASE x # w
    BY <2>2 DEF JobsOK, Answers
  <2> QED BY <2>1, <2>2
<1> QED BY <1>1, <1>2 DEF JobsOK, Fits

LEMMA Refusing ==
    ASSUME JobsOK, NEW w \in Workers, Refuses(w)
    PROVE  JobsOK'
BY Answering DEF Refuses, Answered

-------------------------------------------------------------------------------
(* The steps of the rows *)

LEMMA RowsStay ==
    ASSUME RowsOK, UNCHANGED Rows
    PROVE  RowsStep
<1>1. RowsOK'
  BY DEF RowsOK, Rows, RowsTyped, ConsumedByALead, OneLeadPerPlay, OneOpenLead, HasLead,
         Exists, OpenLeads
<1>2. UNCHANGED Claims!vars
  BY DEF Rows, Claims!vars, HasLead
<1> QED BY <1>1, <1>2 DEF RowsStep

(* Only a session without a lead changes, and the others stay as they were. *)
LEMMA SessionsMove ==
    ASSUME RowsOK, UNCHANGED <<play, lead>>,
           session' \in [Sessions -> SessionRows],
           \A s \in Sessions : session'[s] # session[s] =>
               /\ session[s].status # "CONSUMED"
               /\ session'[s].status \in {"ACTIVE", "EXPIRED"}
    PROVE  RowsOK'
<1>1. RowsTyped'
  BY DEF RowsOK, RowsTyped
<1>2. ConsumedByALead'
  BY DEF RowsOK, ConsumedByALead, HasLead
<1>3. OneLeadPerPlay' /\ OneOpenLead'
  BY DEF RowsOK, OneLeadPerPlay, OneOpenLead, HasLead, Exists, OpenLeads
<1> QED BY <1>1, <1>2, <1>3 DEF RowsOK

LEMMA Expiring ==
    ASSUME RowsOK, NEW s \in Sessions, session[s].status \in {"ACTIVE", "COMPLETED"},
           session' = [session EXCEPT ![s].status = "EXPIRED"], UNCHANGED <<play, lead>>
    PROVE  RowsStep
<1>1. session' \in [Sessions -> SessionRows]
  BY DEF RowsOK, RowsTyped, SessionRows, Statuses
<1>2. \A x \in Sessions : session'[x] # session[x] => x = s /\ session'[x].status = "EXPIRED"
  BY DEF RowsOK, RowsTyped, SessionRows
<1>3. RowsOK'
  BY <1>1, <1>2, SessionsMove
<1>4. Claims!Expire(s)
  BY DEF Claims!Expire, HasLead, RowsOK, RowsTyped, SessionRows
<1> QED BY <1>3, <1>4 DEF RowsStep, Claims!Next

LEMMA NewSession ==
    ASSUME NEW t \in Nat
    PROVE  New(t) \in SessionRows /\ New(t).status = "ACTIVE"
BY GameAssumption DEF New, SessionRows, Statuses

LEMMA Opening ==
    ASSUME RowsOK, NEW n \in Sessions, NEW t \in Nat, session[n].status = "absent",
           session' = [session EXCEPT ![n] = New(t)], UNCHANGED <<play, lead>>
    PROVE  RowsStep
<1>1. session' \in [Sessions -> SessionRows]
  BY NewSession DEF RowsOK, RowsTyped
<1>2. \A x \in Sessions : session'[x] # session[x] => x = n /\ session'[x].status = "ACTIVE"
  BY NewSession DEF RowsOK, RowsTyped
<1>3. RowsOK'
  BY <1>1, <1>2, SessionsMove
<1>4. Claims!Open(n)
  BY NewSession DEF Claims!Open, HasLead, RowsOK, RowsTyped
<1> QED BY <1>3, <1>4 DEF RowsStep, Claims!Next

LEMMA Replacing ==
    ASSUME RowsOK, NEW s \in Sessions, NEW n \in Sessions, NEW t \in Nat,
           session[s].status \in {"ACTIVE", "COMPLETED"}, session[n].status = "absent",
           session' = [session EXCEPT ![s].status = "EXPIRED", ![n] = New(t)],
           UNCHANGED <<play, lead>>
    PROVE  RowsStep
<1>1. session' \in [Sessions -> SessionRows]
  BY NewSession DEF RowsOK, RowsTyped, SessionRows, Statuses
<1>2. \A x \in Sessions : session'[x] # session[x] =>
          x \in {s, n} /\ session'[x].status \in {"ACTIVE", "EXPIRED"}
  BY NewSession DEF RowsOK, RowsTyped, SessionRows
<1>3. RowsOK'
  BY <1>1, <1>2, SessionsMove
<1>4. Claims!Replace(s, n)
  <2>1. \A x \in Sessions : session'[x].status =
            IF x = n THEN "ACTIVE" ELSE IF x = s THEN "EXPIRED" ELSE session[x].status
    BY NewSession DEF RowsOK, RowsTyped, SessionRows
  <2>2. Stage' = [Stage EXCEPT ![s] = "EXPIRED", ![n] = "ACTIVE"]
    BY <2>1 DEF Stage
  <2>3. UNCHANGED ClaimOf
    BY DEF ClaimOf, HasLead
  <2> QED BY <2>2, <2>3 DEF Claims!Replace, Stage, ClaimOf
<1> QED BY <1>3, <1>4 DEF RowsStep, Claims!Next

LEMMA Granting ==
    ASSUME RowsOK, NEW s \in Sessions, NEW t \in Nat, play[s] = NoPlay,
           session[s].status = "ACTIVE", session' = Completed(s, t),
           play' = [play EXCEPT ![s] = None], UNCHANGED lead
    PROVE  RowsStep
<1>1. RowsTyped'
  <2>1. t + ClaimWindow \in Nat
    BY GameAssumption
  <2>2. session' \in [Sessions -> SessionRows]
    BY <2>1 DEF RowsOK, RowsTyped, Completed, SessionRows, Statuses
  <2>3. \A x \in Sessions : session'[x].status = "COMPLETED" => session'[x].claimExp \in Nat
    BY <2>1 DEF RowsOK, RowsTyped, Completed, SessionRows
  <2> QED BY <2>2, <2>3 DEF RowsOK, RowsTyped
<1>2. \A x \in Sessions : HasLead(x)' <=> HasLead(x)
  BY GameAssumption DEF RowsOK, RowsTyped, HasLead
<1>3. \A x \in Sessions : session'[x].status = "CONSUMED" <=> session[x].status = "CONSUMED"
  BY DEF RowsOK, RowsTyped, Completed, SessionRows
<1>4. \A x \in Sessions : HasLead(x) => play'[x] = play[x]
  BY GameAssumption DEF RowsOK, RowsTyped, HasLead
<1>5. ConsumedByALead'
  BY <1>2, <1>3 DEF RowsOK, ConsumedByALead
<1>6. OneLeadPerPlay'
  <2>1. \A k \in Keys : Exists(k) => play'[lead[k].of] = k
    BY <1>4, GameAssumption DEF RowsOK, OneLeadPerPlay, HasLead
  <2> QED BY <2>1, <1>2, <1>4 DEF RowsOK, OneLeadPerPlay, Exists
<1>7. OneOpenLead'
  BY DEF RowsOK, OneOpenLead, OpenLeads
<1>8. Claims!Grant(s)
  <2>1. Stage' = [Stage EXCEPT ![s] = "COMPLETED"]
    BY DEF Stage, RowsOK, RowsTyped, Completed, SessionRows
  <2>2. UNCHANGED ClaimOf
    BY <1>2, <1>4 DEF ClaimOf
  <2> QED BY <2>1, <2>2 DEF Claims!Grant, Stage, ClaimOf
<1> QED BY <1>1, <1>5, <1>6, <1>7, <1>8 DEF RowsOK, RowsStep, Claims!Next

(* The insert of a lead and the claim of its play. *)
LEMMA Claiming ==
    ASSUME RowsOK, NEW s \in Sessions, NEW k \in Keys, NEW p \in Phones, NEW t \in Nat,
           ~Exists(k), IndexAdmits(k, p), Claimable(s, t),
           lead' = [lead EXCEPT ![k] = [status |-> "NEW", of |-> s, phone |-> p]],
           play' = [play EXCEPT ![s] = k],
           session' = [session EXCEPT ![s].status = "CONSUMED"]
    PROVE  RowsStep
<1>1. RowsTyped'
  BY DEF RowsOK, RowsTyped, SessionRows, Statuses, LeadRows, LeadStatuses, OpenStatuses
<1>2. /\ \A x \in Sessions \ {s} : session'[x] = session[x] /\ play'[x] = play[x]
      /\ session'[s].status = "CONSUMED" /\ play'[s] = k
      /\ \A l \in Keys \ {k} : lead'[l] = lead[l]
      /\ lead'[k] = [status |-> "NEW", of |-> s, phone |-> p]
  BY DEF RowsOK, RowsTyped, SessionRows
<1>3. ConsumedByALead'
  BY <1>2 DEF RowsOK, ConsumedByALead, HasLead
<1>4. OneLeadPerPlay'
  <2>1. \A l \in Keys : Exists(l) => lead[l].of # s
    BY GameAssumption DEF RowsOK, OneLeadPerPlay, Claimable
  <2>2. \A l \in Keys : Exists(l)' =>
            lead'[l].of \in Sessions /\ play'[lead'[l].of] = l
    BY <1>2, <2>1 DEF RowsOK, OneLeadPerPlay, Exists
  <2>3. \A x \in Sessions : HasLead(x)' => Exists(play[x])' \/ x = s
    BY <1>2 DEF RowsOK, OneLeadPerPlay, HasLead, Exists
  <2>4. \A x \in Sessions : HasLead(x)' => lead'[play'[x]].status # "absent"
    BY <1>2 DEF RowsOK, OneLeadPerPlay, HasLead, Exists
  <2> QED BY <2>2, <2>4 DEF OneLeadPerPlay, Exists
<1>5. OneOpenLead'
  <2>1. \A q \in Phones : q # p => OpenLeads(q)' = OpenLeads(q) \ {k}
    BY <1>2 DEF OpenLeads
  <2>2. OpenLeads(p)' \subseteq (OpenLeads(p) \ {k}) \cup {k}
    BY <1>2 DEF OpenLeads
  <2> QED BY <2>1, <2>2 DEF RowsOK, OneOpenLead, IndexAdmits
<1>6. Claims!Claim(s, k)
  <2>1. Stage' = [Stage EXCEPT ![s] = "CONSUMED"]
    <3>1. \A x \in Sessions : session'[x].status =
              IF x = s THEN "CONSUMED" ELSE session[x].status
      BY <1>2
    <3> QED BY <3>1 DEF Stage
  <2>2. ClaimOf' = [ClaimOf EXCEPT ![s] = k]
    BY <1>2 DEF ClaimOf, HasLead
  <2>3. \A x \in Sessions : ClaimOf[x] # k
    BY GameAssumption DEF ClaimOf, HasLead, RowsOK, OneLeadPerPlay
  <2> QED BY <2>1, <2>2, <2>3 DEF Claims!Claim, Stage, ClaimOf, Claimable
<1> QED BY <1>1, <1>3, <1>4, <1>5, <1>6 DEF RowsOK, RowsStep, Claims!Next

(* A manager's change of a lead's status. *)
LEMMA LeadMoving ==
    ASSUME RowsOK, NEW k \in Keys, NEW status \in LeadStatuses, SetLeadStatus(k, status)
    PROVE  RowsStep
<1>1. /\ \A l \in Keys \ {k} : lead'[l] = lead[l]
      /\ lead'[k].status = status /\ lead'[k].of = lead[k].of
      /\ lead'[k].phone = lead[k].phone
      /\ lead' \in [Keys -> LeadRows]
  BY DEF RowsOK, RowsTyped, SetLeadStatus, LeadRows
<1>2. RowsTyped' /\ ConsumedByALead'
  BY <1>1 DEF RowsOK, RowsTyped, ConsumedByALead, HasLead, SetLeadStatus
<1>3. \A l \in Keys : Exists(l)' <=> Exists(l)
  BY <1>1 DEF Exists, SetLeadStatus, LeadStatuses, OpenStatuses
<1>4. OneLeadPerPlay'
  <2>1. \A l \in Keys : lead'[l].of = lead[l].of
    BY <1>1
  <2>2. \A x \in Sessions : play'[x] = play[x] /\ (HasLead(x) => play[x] \in Keys)
    BY DEF SetLeadStatus, HasLead
  <2>3. play' = play
    BY DEF SetLeadStatus
  <2>4. \A l \in Keys : lead'[l].status # "absent" <=> lead[l].status # "absent"
    BY <1>3 DEF Exists
  <2> QED BY <2>1, <2>2, <2>3, <2>4 DEF RowsOK, OneLeadPerPlay, HasLead, Exists
<1>5. OneOpenLead'
  <2>1. \A q \in Phones : OpenLeads(q)' \ {k} = OpenLeads(q) \ {k}
    BY <1>1 DEF OpenLeads
  <2>2. ASSUME NEW q \in Phones, k \in OpenLeads(q)' PROVE OpenLeads(q) \ {k} = {}
    BY <2>2, <1>1 DEF OpenLeads, SetLeadStatus, IndexAdmits
  <2> QED BY <2>1, <2>2 DEF RowsOK, OneOpenLead
<1>6. UNCHANGED Claims!vars
  BY DEF SetLeadStatus, Claims!vars, HasLead
<1> QED BY <1>2, <1>4, <1>5, <1>6 DEF RowsOK, RowsStep

-------------------------------------------------------------------------------
(* The actions *)

LEMMA JobRow ==
    ASSUME JobsOK, NEW w \in Workers
    PROVE  /\ Fits(job[w])
           /\ job[w].now \in Nat /\ job[w].req \in RequestRows
           /\ \A pc \in Steps : Fits([job[w] EXCEPT !.pc = pc]) <=>
                 /\ pc \in {"expire", "replace"} => job[w].was \in {"ACTIVE", "COMPLETED"}
                 /\ pc \in SessionSteps => job[w].req.s \in Sessions
                 /\ pc \in {"count", "open"} =>
                        job[w].req.s \in Sessions \/ job[w].req.kind = "start"
                 /\ pc \in BookSteps =>
                        /\ job[w].req.s \in Sessions
                        /\ job[w].req.k \in Keys /\ job[w].req.phone \in Phones
<1>1. job[w] \in Jobs
  BY DEF JobsOK
<1> QED BY <1>1 DEF JobsOK, Jobs, Fits

LEMMA ArriveOK ==
    ASSUME Inv, NEW w \in Workers, Arrive(w)
    PROVE  RowsStep /\ JobsOK'
<1>1. RowsStep
  BY RowsStay DEF Inv, Arrive
<1>2. PICK r \in Requests : job' = [job EXCEPT ![w] = Begun(FirstStep(r), r, clock)]
  BY DEF Arrive
<1>3. /\ r \in RequestRows
      /\ r.kind = "start" => r.s \in Sessions \cup {None}
      /\ r.kind # "start" => r.s \in Sessions
      /\ r.kind = "book" => r.k \in Keys /\ r.phone \in Phones
  BY <1>2 DEF Requests, RequestRows
<1>4. Begun(FirstStep(r), r, clock) \in Jobs
  <2>1. FirstStep(r) \in Steps
    BY <1>3 DEF FirstStep, RequestRows, Steps, SessionSteps, BookSteps
  <2> QED BY <2>1, <1>3 DEF Begun, Jobs, Inv, CountersOK, Statuses, Answered
<1>5. Fits(Begun(FirstStep(r), r, clock))
  BY <1>3 DEF Fits, Begun, FirstStep, RequestRows, SessionSteps, BookSteps
<1>6. JobsOK'
  BY <1>2, <1>4, <1>5 DEF Inv, JobsOK, Fits
<1> QED BY <1>1, <1>6

LEMMA ReplyOK ==
    ASSUME Inv, NEW w \in Workers, Reply(w)
    PROVE  RowsStep /\ JobsOK'
<1>1. RowsStep
  BY RowsStay DEF Inv, Reply
<1>2. Idle \in Jobs /\ Fits(Idle)
  BY DEF Idle, Begun, Jobs, Steps, RequestRows, Statuses, Answered, Fits, SessionSteps,
         BookSteps
<1>3. JobsOK'
  BY <1>2 DEF Inv, JobsOK, Reply, Fits
<1> QED BY <1>1, <1>3

LEMMA LookOK ==
    ASSUME Inv, NEW w \in Workers, Look(w)
    PROVE  RowsStep /\ JobsOK'
<1> DEFINE row == session[job[w].req.s]
<1>1. RowsStep
  BY RowsStay DEF Inv, Look
<1>2. job[w].req.s \in Sessions /\ job[w] \in Jobs
  BY JobRow DEF Inv, Look, Fits, SessionSteps, JobsOK
<1>3. /\ row.status \in Statuses /\ Lazily(row, job[w].now) \in Statuses
      /\ Overdue(row, job[w].now) => row.status \in {"ACTIVE", "COMPLETED"}
  BY <1>2 DEF Inv, RowsOK, RowsTyped, SessionRows, Lazily, Overdue, Statuses
<1>4. PICK pc \in {"expire", "loaded"} :
        /\ pc = "expire" => row.status \in {"ACTIVE", "COMPLETED"}
        /\ job' = [job EXCEPT ![w] = [@ EXCEPT !.pc = pc, !.was = row.status,
                                             !.seen = Lazily(row, job[w].now)]]
  BY <1>3 DEF Look
<1>5. \A x \in Workers : x # w => job'[x] = job[x]
  BY <1>4 DEF Inv, JobsOK
<1>6. job'[w] = [job[w] EXCEPT !.pc = pc, !.was = row.status,
                               !.seen = Lazily(row, job[w].now)]
  BY <1>4 DEF Inv, JobsOK
<1>7. job'[w] \in Jobs /\ Fits(job'[w])
  <2>1. job'[w] \in Jobs
    BY <1>2, <1>3, <1>6 DEF Jobs, Steps, SessionSteps
  <2>2. /\ job'[w].pc = pc /\ job'[w].was = row.status
        /\ job'[w].req = job[w].req
    BY <1>2, <1>6 DEF Jobs
  <2> QED BY <1>2, <1>4, <2>1, <2>2 DEF Fits, SessionSteps, BookSteps
<1>8. JobsOK'
  <2>1. job' \in [Workers -> Jobs]
    BY <1>4, <1>5, <1>7 DEF Inv, JobsOK
  <2> QED BY <2>1, <1>5, <1>7 DEF Inv, JobsOK, Fits
<1> QED BY <1>1, <1>8

LEMMA ExpiryWritten ==
    ASSUME RowsOK, NEW s \in Sessions, NEW was \in {"ACTIVE", "COMPLETED"},
           session' = Expired(s, was), UNCHANGED <<play, lead>>
    PROVE  RowsStep
BY Expiring, RowsStay DEF Expired, Rows

LEMMA ReconciledWritten ==
    ASSUME RowsOK, NEW s \in Sessions, NEW status, session' = Reconciled(s, status),
           UNCHANGED <<play, lead>>
    PROVE  RowsStep
BY RowsStay DEF Reconciled, Rows, RowsOK, ConsumedByALead

LEMMA ExpireOverdueOK ==
    ASSUME Inv, NEW w \in Workers, ExpireOverdue(w)
    PROVE  RowsStep /\ JobsOK'
<1>1. job[w].req.s \in Sessions /\ job[w].was \in {"ACTIVE", "COMPLETED"}
  BY JobRow DEF Inv, ExpireOverdue, Fits, SessionSteps
<1>2. RowsStep
  BY <1>1, ExpiryWritten DEF Inv, ExpireOverdue
<1>3. "loaded" \in Steps /\ Fits([job[w] EXCEPT !.pc = "loaded"])
  BY <1>1, JobRow DEF Inv, Steps, SessionSteps, BookSteps
<1> QED BY <1>2, <1>3, Going DEF Inv, ExpireOverdue

LEMMA StartReuseOK ==
    ASSUME Inv, NEW w \in Workers, StartReuse(w)
    PROVE  RowsStep /\ JobsOK'
<1>1. job[w].req.s \in Sessions
  BY JobRow DEF Inv, StartReuse, Fits, SessionSteps
<1>2. RowsStep
  BY <1>1, ReconciledWritten DEF Inv, StartReuse
<1>3. "count" \in Steps /\ Fits([job[w] EXCEPT !.pc = "count"])
  BY <1>1, JobRow DEF Inv, Steps, SessionSteps, BookSteps
<1> QED BY <1>1, <1>2, <1>3, Going, Answering DEF Inv, StartReuse, Answered

LEMMA RestartCheckOK ==
    ASSUME Inv, NEW w \in Workers, RestartCheck(w)
    PROVE  RowsStep /\ JobsOK'
<1>1. job[w].req.s \in Sessions
  BY JobRow DEF Inv, RestartCheck, Fits, SessionSteps
<1>2. RowsStep
  BY <1>1, ReconciledWritten DEF Inv, RestartCheck
<1>3. "count" \in Steps /\ Fits([job[w] EXCEPT !.pc = "count"])
  BY <1>1, JobRow DEF Inv, Steps, SessionSteps, BookSteps
<1> QED BY <1>2, <1>3, Going, Refusing DEF Inv, RestartCheck

LEMMA CountRecentOK ==
    ASSUME Inv, NEW w \in Workers, CountRecent(w)
    PROVE  RowsStep /\ JobsOK'
<1>1. RowsStep
  BY RowsStay DEF Inv, CountRecent
<1>2. job[w].req.s \in Sessions \/ job[w].req.kind = "start"
  BY JobRow DEF Inv, CountRecent, Fits
<1>3. CASE AtLimit(job[w].now)
  BY <1>1, <1>3, Refusing DEF Inv, CountRecent
<1>4. CASE ~AtLimit(job[w].now)
  <2>1. PICK pc \in {"open", "recheck"} :
          Goes(w, pc) /\ (pc = "recheck" => job[w].req.kind # "start")
    BY <1>4 DEF CountRecent
  <2>2. pc \in Steps /\ Fits([job[w] EXCEPT !.pc = pc])
    BY <1>2, <2>1, JobRow DEF Inv, Steps, SessionSteps, BookSteps
  <2> QED BY <1>1, <2>1, <2>2, Going DEF Inv
<1> QED BY <1>3, <1>4

LEMMA OpenLeadCheckOK ==
    ASSUME Inv, NEW w \in Workers, OpenLeadCheck(w)
    PROVE  RowsStep /\ JobsOK'
<1>1. RowsStep
  BY RowsStay DEF Inv, OpenLeadCheck
<1>2. job[w].req.s \in Sessions \/ job[w].req.kind = "start"
  BY JobRow DEF Inv, OpenLeadCheck, Fits
<1>3. CASE VisitorHasOpenLead
  BY <1>1, <1>3, Refusing DEF Inv, OpenLeadCheck
<1>4. CASE ~VisitorHasOpenLead
  <2>1. PICK pc \in {"create", "look"} :
          Goes(w, pc) /\ (pc = "look" => job[w].req.kind # "start")
    BY <1>4 DEF OpenLeadCheck
  <2>2. pc \in Steps /\ Fits([job[w] EXCEPT !.pc = pc])
    BY <1>2, <2>1, JobRow DEF Inv, Steps, SessionSteps, BookSteps
  <2> QED BY <1>1, <2>1, <2>2, Going DEF Inv
<1> QED BY <1>3, <1>4

LEMMA StartCreateOK ==
    ASSUME Inv, NEW w \in Workers, StartCreate(w)
    PROVE  RowsStep /\ JobsOK'
<1>1. PICK n \in Sessions :
        /\ session[n].status = "absent"
        /\ session' = [session EXCEPT ![n] = New(job[w].now)]
        /\ Answers(w, "session", n)
  BY DEF StartCreate
<1>2. RowsStep
  BY <1>1, Opening, JobRow DEF Inv, StartCreate
<1> QED BY <1>1, <1>2, Answering DEF Inv, Answered

LEMMA RestartRecheckOK ==
    ASSUME Inv, NEW w \in Workers, RestartRecheck(w)
    PROVE  RowsStep /\ JobsOK'
<1> DEFINE s == job[w].req.s
           goes == Restartable(Lazily(session[s], job[w].now), s) /\ ~AtLimit(job[w].now)
<1>1. RowsStep
  BY RowsStay DEF Inv, RestartRecheck
<1>2. s \in Sessions /\ job[w] \in Jobs
  BY JobRow DEF Inv, RestartRecheck, Fits, SessionSteps, JobsOK
<1>3. CASE ~goes
  BY <1>1, <1>3, Refusing DEF Inv, RestartRecheck
<1>4. CASE goes
  <2>1. session[s].status \in {"ACTIVE", "COMPLETED"} /\ session[s].status \in Statuses
    BY <1>2, <1>4 DEF Restartable, Lazily, Statuses
  <2>2. job' = [job EXCEPT ![w] = [job[w] EXCEPT !.pc = "replace", !.was = session[s].status]]
    BY <1>4 DEF RestartRecheck
  <2>3. [job[w] EXCEPT !.pc = "replace", !.was = session[s].status] \in Jobs
    BY <1>2, <2>1 DEF Jobs, Steps, SessionSteps
  <2>4. Fits([job[w] EXCEPT !.pc = "replace", !.was = session[s].status])
    BY <1>2, <2>1 DEF Jobs, Fits, SessionSteps, BookSteps
  <2>5. JobsOK'
    BY <2>2, <2>3, <2>4 DEF Inv, JobsOK, Fits
  <2> QED BY <1>1, <2>5
<1> QED BY <1>3, <1>4

LEMMA RestartReplaceOK ==
    ASSUME Inv, NEW w \in Workers, RestartReplace(w)
    PROVE  RowsStep /\ JobsOK'
<1> DEFINE s == job[w].req.s
<1>1. /\ s \in Sessions /\ job[w].was \in {"ACTIVE", "COMPLETED"}
      /\ job[w].now \in Nat
  BY JobRow DEF Inv, RestartReplace, Fits, SessionSteps
<1>2. CASE session[s].status = job[w].was
  <2>1. PICK n \in Sessions :
          /\ session[n].status = "absent"
          /\ session' = [session EXCEPT ![s].status = "EXPIRED", ![n] = New(job[w].now)]
          /\ Answers(w, "session", n)
    BY <1>2 DEF RestartReplace
  <2>2. RowsStep
    BY <1>1, <1>2, <2>1, Replacing DEF Inv, RestartReplace
  <2> QED BY <2>1, <2>2, Answering DEF Inv, Answered
<1>3. CASE session[s].status # job[w].was
  <2>1. UNCHANGED Rows /\ Refuses(w)
    BY <1>3 DEF RestartReplace, Rows
  <2> QED BY <2>1, RowsStay, Refusing DEF Inv
<1> QED BY <1>2, <1>3

LEMMA CompleteDecideOK ==
    ASSUME Inv, NEW w \in Workers, CompleteDecide(w)
    PROVE  RowsStep /\ JobsOK'
<1>1. RowsStep
  BY RowsStay DEF Inv, CompleteDecide
<1>2. job[w].req.s \in Sessions
  BY JobRow DEF Inv, CompleteDecide, Fits, SessionSteps
<1>3. "regrant" \in Steps /\ Fits([job[w] EXCEPT !.pc = "regrant"])
  BY <1>2, JobRow DEF Inv, Steps, SessionSteps, BookSteps
<1>4. Refuses(w) \/ Answers(w, "gift", job[w].req.s) \/ Goes(w, "regrant")
  BY DEF CompleteDecide
<1> QED BY <1>1, <1>2, <1>3, <1>4, Refusing, Answering, Going DEF Inv, Answered

LEMMA CompleteRecheckOK ==
    ASSUME Inv, NEW w \in Workers, CompleteRecheck(w)
    PROVE  RowsStep /\ JobsOK'
<1> DEFINE s == job[w].req.s
           row == session[s]
<1>1. s \in Sessions
  BY JobRow DEF Inv, CompleteRecheck, Fits, SessionSteps
<1>2. RowsStep
  <2>1. CASE Overdue(row, job[w].now) /\ session' = Expired(s, row.status)
    <3>1. row.status \in {"ACTIVE", "COMPLETED"}
      BY <2>1 DEF Overdue
    <3> QED BY <1>1, <2>1, <3>1, ExpiryWritten DEF Inv, CompleteRecheck
  <2>2. CASE UNCHANGED session
    BY <2>2, RowsStay DEF Inv, CompleteRecheck, Rows
  <2> QED BY <2>1, <2>2 DEF CompleteRecheck
<1>3. "grant" \in Steps /\ Fits([job[w] EXCEPT !.pc = "grant"])
  BY <1>1, JobRow DEF Inv, Steps, SessionSteps, BookSteps
<1>4. Refuses(w) \/ Answers(w, "gift", s) \/ Goes(w, "grant")
  BY DEF CompleteRecheck
<1> QED BY <1>1, <1>2, <1>3, <1>4, Refusing, Answering, Going DEF Inv, Answered

(* A play created on a session that is over changes nothing anybody counts. *)
LEMMA PlayOfAnOverSession ==
    ASSUME RowsOK, NEW s \in Sessions, play[s] = NoPlay,
           play' = [play EXCEPT ![s] = None], UNCHANGED <<session, lead>>
    PROVE  RowsStep
<1>1. \A x \in Sessions : (HasLead(x)' <=> HasLead(x)) /\ (HasLead(x) => play'[x] = play[x])
  BY GameAssumption DEF RowsOK, RowsTyped, HasLead
<1>2. RowsTyped'
  BY DEF RowsOK, RowsTyped
<1>3. ConsumedByALead' /\ OneOpenLead'
  BY <1>1 DEF RowsOK, ConsumedByALead, OneOpenLead, OpenLeads
<1>4. OneLeadPerPlay'
  <2>1. \A k \in Keys : Exists(k) => play'[lead[k].of] = k
    BY <1>1, GameAssumption DEF RowsOK, OneLeadPerPlay, HasLead
  <2> QED BY <2>1, <1>1 DEF RowsOK, OneLeadPerPlay, Exists
<1>5. UNCHANGED Claims!vars
  <2>1. UNCHANGED ClaimOf
    BY <1>1 DEF ClaimOf
  <2> QED BY <2>1 DEF Claims!vars, ClaimOf
<1> QED BY <1>2, <1>3, <1>4, <1>5 DEF RowsOK, RowsStep

LEMMA CompleteGrantOK ==
    ASSUME Inv, NEW w \in Workers, CompleteGrant(w)
    PROVE  RowsStep /\ JobsOK'
<1> DEFINE s == job[w].req.s
<1>1. s \in Sessions /\ job[w].now \in Nat
  BY JobRow DEF Inv, CompleteGrant, Fits, SessionSteps
<1>2. RowsStep
  <2>1. CASE play[s] # NoPlay
    BY <2>1, RowsStay DEF Inv, CompleteGrant, Rows
  <2>2. CASE play[s] = NoPlay /\ session[s].status = "ACTIVE"
    BY <1>1, <2>2, Granting DEF Inv, CompleteGrant
  <2>3. CASE play[s] = NoPlay /\ session[s].status # "ACTIVE"
    BY <1>1, <2>3, PlayOfAnOverSession DEF Inv, CompleteGrant
  <2> QED BY <2>1, <2>2, <2>3
<1> QED BY <1>1, <1>2, Answering DEF Inv, CompleteGrant, Answered

LEMMA ResultOK ==
    ASSUME Inv, NEW w \in Workers, Result(w)
    PROVE  RowsStep /\ JobsOK'
<1> DEFINE s == job[w].req.s
<1>1. s \in Sessions
  BY JobRow DEF Inv, Result, Fits, SessionSteps
<1>2. RowsStep
  <2>1. CASE session' = session
    BY <2>1, RowsStay DEF Inv, Result, Rows
  <2>2. CASE session' = Reconciled(s, job[w].seen)
    BY <1>1, <2>2, ReconciledWritten DEF Inv, Result
  <2> QED BY <2>1, <2>2 DEF Result
<1>3. Refuses(w) \/ Answers(w, "session", s) \/ Answers(w, "gift", s)
  BY DEF Result
<1> QED BY <1>1, <1>2, <1>3, Refusing, Answering DEF Inv, Answered

LEMMA ReplaysOK ==
    ASSUME JobsOK, NEW w \in Workers, job[w].req.k \in Keys, Replays(w)
    PROVE  JobsOK'
BY Refusing, Answering DEF Replays, Answered

LEMMA BookFindOK ==
    ASSUME Inv, NEW w \in Workers, BookFind(w)
    PROVE  RowsStep /\ JobsOK'
<1>1. RowsStep
  BY RowsStay DEF Inv, BookFind
<1>2. job[w].req.s \in Sessions /\ job[w].req.k \in Keys /\ job[w].req.phone \in Phones
  BY JobRow DEF Inv, BookFind, Fits, BookSteps
<1>3. "validate" \in Steps /\ Fits([job[w] EXCEPT !.pc = "validate"])
  BY <1>2, JobRow DEF Inv, Steps, SessionSteps, BookSteps
<1> QED BY <1>1, <1>2, <1>3, ReplaysOK, Going DEF Inv, BookFind

LEMMA BookValidateOK ==
    ASSUME Inv, NEW w \in Workers, BookValidate(w)
    PROVE  RowsStep /\ JobsOK'
<1>1. RowsStep
  BY RowsStay DEF Inv, BookValidate
<1>2. job[w].req.s \in Sessions /\ job[w].req.k \in Keys /\ job[w].req.phone \in Phones
  BY JobRow DEF Inv, BookValidate, Fits, BookSteps
<1>3. "duplicate" \in Steps /\ Fits([job[w] EXCEPT !.pc = "duplicate"])
  BY <1>2, JobRow DEF Inv, Steps, SessionSteps, BookSteps
<1> QED BY <1>1, <1>3, Refusing, Going DEF Inv, BookValidate

LEMMA BookDuplicateOK ==
    ASSUME Inv, NEW w \in Workers, BookDuplicate(w)
    PROVE  RowsStep /\ JobsOK'
<1>1. RowsStep
  BY RowsStay DEF Inv, BookDuplicate
<1>2. job[w].req.s \in Sessions /\ job[w].req.k \in Keys /\ job[w].req.phone \in Phones
  BY JobRow DEF Inv, BookDuplicate, Fits, BookSteps
<1>3. "check" \in Steps /\ Fits([job[w] EXCEPT !.pc = "check"])
  BY <1>2, JobRow DEF Inv, Steps, SessionSteps, BookSteps
<1> QED BY <1>1, <1>2, <1>3, Refusing, Answering, Going DEF Inv, BookDuplicate, Answered

LEMMA BookCheckOK ==
    ASSUME Inv, NEW w \in Workers, BookCheck(w)
    PROVE  RowsStep /\ JobsOK'
<1>1. RowsStep
  BY RowsStay DEF Inv, BookCheck
<1>2. job[w].req.s \in Sessions /\ job[w].req.k \in Keys /\ job[w].req.phone \in Phones
  BY JobRow DEF Inv, BookCheck, Fits, BookSteps
<1>3. "submit" \in Steps /\ Fits([job[w] EXCEPT !.pc = "submit"])
  BY <1>2, JobRow DEF Inv, Steps, SessionSteps, BookSteps
<1> QED BY <1>1, <1>3, Refusing, Going DEF Inv, BookCheck

LEMMA BookSubmitOK ==
    ASSUME Inv, NEW w \in Workers, BookSubmit(w)
    PROVE  RowsStep /\ JobsOK'
<1> DEFINE r == job[w].req
<1>1. r.s \in Sessions /\ r.k \in Keys /\ r.phone \in Phones /\ job[w].now \in Nat
  BY JobRow DEF Inv, BookSubmit, Fits, BookSteps
<1>2. CASE Exists(r.k)
  BY <1>1, <1>2, RowsStay, ReplaysOK DEF Inv, BookSubmit
<1>3. CASE ~Exists(r.k) /\ IndexAdmits(r.k, r.phone) /\ Claimable(r.s, job[w].now)
  <2>1. RowsStep
    BY <1>1, <1>3, Claiming DEF Inv, BookSubmit
  <2>2. Answers(w, "lead", r.k)
    BY <1>3 DEF BookSubmit
  <2> QED BY <1>1, <2>1, <2>2, Answering DEF Inv, Answered
<1>4. CASE ~Exists(r.k) /\ ~(IndexAdmits(r.k, r.phone) /\ Claimable(r.s, job[w].now))
  <2>1. UNCHANGED Rows /\ Refuses(w)
    BY <1>4 DEF BookSubmit
  <2> QED BY <2>1, RowsStay, Refusing DEF Inv
<1> QED BY <1>2, <1>3, <1>4

LEMMA StepOK ==
    ASSUME Inv, NEW w \in Workers, Step(w)
    PROVE  RowsStep /\ JobsOK'
BY LookOK, ExpireOverdueOK, StartReuseOK, RestartCheckOK, CountRecentOK, OpenLeadCheckOK,
   StartCreateOK, RestartRecheckOK, RestartReplaceOK, CompleteDecideOK, CompleteRecheckOK,
   CompleteGrantOK, ResultOK, BookFindOK, BookValidateOK, BookDuplicateOK, BookCheckOK,
   BookSubmitOK DEF Step

LEMMA CountersKept ==
    ASSUME Inv, [Next]_vars
    PROVE  CountersOK'
<1>1. ASSUME NEW w \in Workers, Step(w) PROVE UNCHANGED <<clock, started>>
  BY <1>1 DEF Step, Look, ExpireOverdue, StartReuse, RestartCheck, CountRecent,
     OpenLeadCheck, StartCreate, RestartRecheck, RestartReplace, CompleteDecide,
     CompleteRecheck, CompleteGrant, Result, BookFind, BookValidate, BookDuplicate,
     BookCheck, BookSubmit
<1>2. ASSUME NEW w \in Workers, Arrive(w) PROVE CountersOK'
  BY <1>2, GameAssumption DEF Inv, CountersOK, Arrive
<1>3. CASE Tick
  BY <1>3, GameAssumption DEF Inv, CountersOK, Tick
<1>4. ASSUME UNCHANGED <<clock, started>> PROVE CountersOK'
  BY <1>4 DEF Inv, CountersOK
<1> QED BY <1>1, <1>2, <1>3, <1>4 DEF Next, Reply, SetLeadStatus, Rest, vars

LEMMA JobsStay ==
    ASSUME JobsOK, UNCHANGED job
    PROVE  JobsOK'
BY DEF JobsOK, Fits

LEMMA NextOK ==
    ASSUME Inv, [Next]_vars
    PROVE  RowsStep /\ Inv'
<1>1. ASSUME NEW w \in Workers, Arrive(w) \/ Step(w) \/ Reply(w)
      PROVE  RowsStep /\ JobsOK'
  BY <1>1, ArriveOK, StepOK, ReplyOK
<1>2. ASSUME NEW k \in Keys, NEW status \in LeadStatuses, SetLeadStatus(k, status)
      PROVE  RowsStep /\ JobsOK'
  BY <1>2, LeadMoving, JobsStay DEF Inv, SetLeadStatus
<1>3. ASSUME Tick PROVE RowsStep /\ JobsOK'
  BY <1>3, RowsStay, JobsStay DEF Inv, Tick
<1>4. ASSUME UNCHANGED vars PROVE RowsStep /\ JobsOK'
  <2>1. UNCHANGED Rows /\ UNCHANGED job
    BY <1>4 DEF vars, Rows
  <2> QED BY <2>1, RowsStay, JobsStay DEF Inv
<1>5. RowsStep /\ JobsOK'
  <2>1. CASE UNCHANGED vars
    BY <2>1, <1>4
  <2>2. CASE \E w \in Workers : Arrive(w) \/ Step(w) \/ Reply(w)
    BY <2>2, <1>1
  <2>3. CASE \E k \in Keys, status \in LeadStatuses : SetLeadStatus(k, status)
    BY <2>3, <1>2
  <2>4. CASE Tick
    BY <2>4, <1>3
  <2>5. CASE Rest
    BY <2>5, <1>4 DEF Rest
  <2> QED BY <2>1, <2>2, <2>3, <2>4, <2>5 DEF Next
<1> QED BY <1>5, CountersKept DEF Inv, RowsStep

LEMMA InitOK ==
    ASSUME Init
    PROVE  Inv /\ Claims!Init
<1>1. RowsTyped
  BY DEF Init, RowsTyped, SessionRows, Statuses, LeadRows, LeadStatuses, OpenStatuses
<1>2. \A s \in Sessions : ~HasLead(s)
  BY GameAssumption DEF Init, HasLead
<1>3. \A k \in Keys : lead[k].status = "absent"
  BY DEF Init
<1>4. RowsOK
  BY <1>1, <1>2, <1>3 DEF Init, RowsOK, ConsumedByALead, OneLeadPerPlay, OneOpenLead, Exists,
     OpenLeads, OpenStatuses
<1>5. Idle \in Jobs /\ Fits(Idle)
  BY DEF Idle, Begun, Jobs, Steps, RequestRows, Statuses, Answered, Fits, SessionSteps,
         BookSteps
<1>6. JobsOK /\ CountersOK
  BY <1>5, GameAssumption DEF Init, JobsOK, CountersOK
<1>7. Claims!Init
  BY <1>2 DEF Init, Claims!Init
<1> QED BY <1>4, <1>6, <1>7 DEF Inv

LEMMA Invariance == Spec => []Inv
<1>1. Init => Inv
  BY InitOK
<1>2. Inv /\ [Next]_vars => Inv'
  BY NextOK
<1> QED BY <1>1, <1>2, PTL DEF Spec

-------------------------------------------------------------------------------
(* Every variable keeps its type, and a completed session its claim window. *)
THEOREM TypeCorrect == Spec => []TypeOK
<1>1. Inv => TypeOK
  BY DEF Inv, RowsOK, RowsTyped, JobsOK, CountersOK, TypeOK
<1> QED BY <1>1, Invariance, PTL

(* A session is consumed exactly when a lead claimed its play, whatever      *)
(* expires, restarts or reconciles it meanwhile.                             *)
THEOREM ConsumptionIsClaimed == Spec => []ConsumedByALead
<1>1. Inv => ConsumedByALead
  BY DEF Inv, RowsOK
<1> QED BY <1>1, Invariance, PTL

(* However many submissions race, under one key or several, a play yields    *)
(* one lead and a lead claims one play.                                      *)
THEOREM PlaysYieldOneLead == Spec => []OneLeadPerPlay
<1>1. Inv => OneLeadPerPlay
  BY DEF Inv, RowsOK
<1> QED BY <1>1, Invariance, PTL

(* A phone has at most one open lead, reopened ones included. *)
THEOREM PhonesHaveOneOpenLead == Spec => []OneOpenLeadPerPhone
<1>1. ASSUME Inv, NEW p \in Phones PROVE Cardinality(OpenLeads(p)) <= 1
  <2>1. CASE OpenLeads(p) = {}
    BY <2>1, FS_EmptySet
  <2>2. ASSUME NEW k \in OpenLeads(p) PROVE Cardinality(OpenLeads(p)) <= 1
    <3>1. OpenLeads(p) = {k}
      BY <1>1, <2>2 DEF Inv, RowsOK, OneOpenLead
    <3> QED BY <3>1, FS_Singleton
  <2> QED BY <2>1, <2>2
<1>2. Inv => OneOpenLeadPerPhone
  BY <1>1 DEF OneOpenLeadPerPhone
<1> QED BY <1>2, Invariance, PTL

(* The handlers' interleaved statements amount to GiftClaim's atomic steps.  *)
THEOREM GameImplementsGiftClaim == Spec => ImplementsGiftClaim
<1>1. Init => Claims!Init
  BY InitOK
<1>2. Inv /\ [Next]_vars => [Claims!Next]_(Claims!vars)
  BY NextOK DEF RowsStep
<1> QED BY <1>1, <1>2, Invariance, PTL DEF Spec, Claims!Spec, ImplementsGiftClaim

-------------------------------------------------------------------------------
(***************************************************************************)
(* What a request is told of a lead, until its answer is taken.             *)
(***************************************************************************)
Told(j) ==
    /\ j.pc \in BookSteps => j.req.kind = "book"
    /\ j.pc = "answered" /\ j.answer = "lead" =>
          /\ j.req.kind = "book" /\ j.what \in Keys /\ Exists(j.what)
          /\ lead[j.what].of = j.req.s /\ lead[j.what].phone = j.req.phone

AllTold == \A w \in Workers : Told(job[w])

(* Leads stay, with what was sent with them. *)
LeadsKept ==
    \A k \in Keys : Exists(k) =>
        Exists(k)' /\ lead'[k].of = lead[k].of /\ lead'[k].phone = lead[k].phone

LEMMA LeadsSame ==
    ASSUME UNCHANGED lead
    PROVE  LeadsKept
BY DEF LeadsKept, Exists

LEMMA KeptOnes ==
    ASSUME NEW w \in Workers, Step(w)
    PROVE  UNCHANGED lead \/ (BookSubmit(w) /\ ~Exists(job[w].req.k))
BY DEF Step, Look, ExpireOverdue, StartReuse, RestartCheck, CountRecent, OpenLeadCheck,
   StartCreate, RestartRecheck, RestartReplace, CompleteDecide, CompleteRecheck,
   CompleteGrant, Result, BookFind, BookValidate, BookDuplicate, BookCheck, BookSubmit, Rows

LEMMA LeadsOfStep ==
    ASSUME Inv, [Next]_vars
    PROVE  LeadsKept
<1>1. ASSUME NEW w \in Workers, Step(w) PROVE LeadsKept
  <2>1. CASE UNCHANGED lead
    BY <2>1, LeadsSame
  <2>2. CASE BookSubmit(w) /\ ~Exists(job[w].req.k) /\ ~UNCHANGED lead
    <3>1. PICK row : lead' = [lead EXCEPT ![job[w].req.k] = row]
      BY <2>2 DEF BookSubmit, Rows
    <3>2. \A k \in Keys : k # job[w].req.k => lead'[k] = lead[k]
      BY <3>1 DEF Inv, RowsOK, RowsTyped
    <3> QED BY <2>2, <3>2 DEF LeadsKept, Exists
  <2> QED BY <1>1, <2>1, <2>2, KeptOnes
<1>2. ASSUME NEW k \in Keys, NEW status \in LeadStatuses, SetLeadStatus(k, status) PROVE LeadsKept
  <2>1. /\ lead' = [lead EXCEPT ![k] = [@ EXCEPT !.status = status]] /\ status # "absent"
    BY <1>2 DEF SetLeadStatus, LeadStatuses, OpenStatuses
  <2>2. lead \in [Keys -> LeadRows]
    BY DEF Inv, RowsOK, RowsTyped
  <2>3. \A l \in Keys : /\ l # k => lead'[l] = lead[l]
                        /\ lead'[l].of = lead[l].of /\ lead'[l].phone = lead[l].phone
    BY <2>1, <2>2 DEF LeadRows
  <2>4. lead'[k].status = status
    BY <2>1, <2>2 DEF LeadRows
  <2> QED BY <2>1, <2>3, <2>4 DEF LeadsKept, Exists
<1>3. ASSUME NEW w \in Workers, Arrive(w) \/ Reply(w) PROVE LeadsKept
  BY <1>3, LeadsSame DEF Arrive, Reply, Rows
<1>4. CASE Tick \/ Rest \/ UNCHANGED vars
  BY <1>4, LeadsSame DEF Tick, Rest, Rows, vars
<1> QED BY <1>1, <1>2, <1>3, <1>4 DEF Next

(* The job of a worker, told the truth after its step, is all that changes. *)
LEMMA ToldFrame ==
    ASSUME Inv, AllTold, LeadsKept, NEW w \in Workers,
           \A x \in Workers \ {w} : job'[x] = job[x], Told(job[w])'
    PROVE  AllTold'
<1>1. ASSUME NEW x \in Workers, x # w PROVE Told(job[x])'
  <2>1. job'[x] = job[x] /\ Told(job[x])
    BY <1>1 DEF AllTold
  <2> QED BY <2>1 DEF Told, LeadsKept
<1> QED BY <1>1 DEF AllTold

LEMMA GoingTold ==
    ASSUME Inv, AllTold, LeadsKept, NEW w \in Workers, NEW pc, Goes(w, pc), pc # "answered",
           pc \in BookSteps => job[w].pc \in BookSteps
    PROVE  AllTold'
<1>1. /\ job'[w].pc = pc /\ job'[w].req = job[w].req
      /\ \A x \in Workers \ {w} : job'[x] = job[x]
  BY DEF Inv, JobsOK, Jobs, Goes
<1>2. Told(job[w])'
  BY <1>1 DEF Told, AllTold
<1> QED BY <1>1, <1>2, ToldFrame

LEMMA AnsweringTold ==
    ASSUME Inv, AllTold, LeadsKept, NEW w \in Workers, NEW kind, NEW what, Answers(w, kind, what),
           kind = "lead" =>
              /\ job[w].req.kind = "book" /\ what \in Keys /\ Exists(what)'
              /\ lead'[what].of = job[w].req.s /\ lead'[what].phone = job[w].req.phone
    PROVE  AllTold'
<1>1. /\ job'[w].pc = "answered" /\ job'[w].req = job[w].req
      /\ job'[w].answer = kind /\ job'[w].what = what
      /\ \A x \in Workers \ {w} : job'[x] = job[x]
  BY DEF Inv, JobsOK, Jobs, Answers
<1>2. Told(job[w])'
  BY <1>1 DEF Told, BookSteps
<1> QED BY <1>1, <1>2, ToldFrame

LEMMA RefusingTold ==
    ASSUME Inv, AllTold, LeadsKept, NEW w \in Workers, Refuses(w)
    PROVE  AllTold'
BY AnsweringTold DEF Refuses

(* The replay of a key, the answer of the find and of a violated index.      *)
LEMMA ReplayTold ==
    ASSUME Inv, AllTold, LeadsKept, NEW w \in Workers, job[w].pc \in BookSteps,
           Exists(job[w].req.k), job[w].req.k \in Keys,
           Replays(w) \/ (SamePayload(job[w].req) /\ Answers(w, "lead", job[w].req.k))
    PROVE  AllTold'
<1>1. CASE Refuses(w)
  BY <1>1, RefusingTold
<1>2. CASE SamePayload(job[w].req) /\ Answers(w, "lead", job[w].req.k)
  <2>1. job[w].req.kind = "book"
    BY DEF AllTold, Told
  <2> QED BY <1>2, <2>1, AnsweringTold DEF SamePayload, LeadsKept
<1> QED BY <1>1, <1>2 DEF Replays

LEMMA SubmitTold ==
    ASSUME Inv, AllTold, LeadsKept, NEW w \in Workers, BookSubmit(w)
    PROVE  AllTold'
<1> DEFINE r == job[w].req
<1>1. r.s \in Sessions /\ r.k \in Keys /\ r.phone \in Phones /\ r.kind = "book" /\ job[w].pc \in BookSteps
  BY JobRow DEF Inv, BookSubmit, Fits, BookSteps, AllTold, Told
<1>2. CASE Exists(r.k)
  <2>1. Replays(w)
    BY <1>2 DEF BookSubmit
  <2> HIDE DEF r
  <2>2. job[w].pc \in BookSteps /\ job[w].req.k \in Keys /\ Exists(job[w].req.k)
    BY <1>1, <1>2 DEF r
  <2> QED BY <2>1, <2>2, ReplayTold
<1>3. CASE ~Exists(r.k) /\ IndexAdmits(r.k, r.phone) /\ Claimable(r.s, job[w].now)
  <2>1. /\ lead' = [lead EXCEPT ![r.k] = [status |-> "NEW", of |-> r.s, phone |-> r.phone]]
        /\ Answers(w, "lead", r.k)
    BY <1>3 DEF BookSubmit
  <2>2. lead'[r.k] = [status |-> "NEW", of |-> r.s, phone |-> r.phone]
    BY <1>1, <2>1 DEF Inv, RowsOK, RowsTyped
  <2> QED BY <1>1, <2>1, <2>2, AnsweringTold DEF Exists
<1>4. CASE ~Exists(r.k) /\ ~(IndexAdmits(r.k, r.phone) /\ Claimable(r.s, job[w].now))
  BY <1>4, RefusingTold DEF BookSubmit
<1> QED BY <1>2, <1>3, <1>4

(* The other steps of a submission. *)
LEMMA BookTold ==
    ASSUME Inv, AllTold, LeadsKept, NEW w \in Workers,
           BookFind(w) \/ BookValidate(w) \/ BookDuplicate(w) \/ BookCheck(w)
    PROVE  AllTold'
<1>1. job[w].pc \in {"find", "validate", "duplicate", "check"}
  BY DEF BookFind, BookValidate, BookDuplicate, BookCheck
<1>2. job[w].pc \in BookSteps
  BY <1>1 DEF BookSteps
<1>3. job[w].req.k \in Keys
  BY <1>2, JobRow DEF Inv, Fits
<1>4. \/ \E pc \in {"validate", "duplicate", "check", "submit"} : Goes(w, pc)
      \/ Refuses(w)
      \/ Exists(job[w].req.k) /\ Replays(w)
      \/ Exists(job[w].req.k) /\ SamePayload(job[w].req) /\ Answers(w, "lead", job[w].req.k)
  BY DEF BookFind, BookValidate, BookDuplicate, BookCheck
<1>5. ASSUME NEW pc \in {"validate", "duplicate", "check", "submit"}, Goes(w, pc) PROVE AllTold'
  BY <1>2, <1>5, GoingTold
<1>6. ASSUME Exists(job[w].req.k),
             Replays(w) \/ (SamePayload(job[w].req) /\ Answers(w, "lead", job[w].req.k))
      PROVE  AllTold'
  BY <1>2, <1>3, <1>6, ReplayTold
<1> QED BY <1>4, <1>5, <1>6, RefusingTold

(* The steps that read, expire, start, complete or show a session.           *)
LEMMA SessionTold ==
    ASSUME Inv, AllTold, LeadsKept, NEW w \in Workers,
           \/ ExpireOverdue(w) \/ StartReuse(w) \/ RestartCheck(w) \/ CountRecent(w)
           \/ OpenLeadCheck(w) \/ StartCreate(w) \/ RestartReplace(w) \/ CompleteDecide(w)
           \/ CompleteRecheck(w) \/ CompleteGrant(w) \/ Result(w)
    PROVE  AllTold'
<1>1. \/ \E pc \in {"loaded", "count", "open", "recheck", "create", "look", "regrant", "grant"} : Goes(w, pc)
      \/ Refuses(w)
      \/ \E what : Answers(w, "session", what) \/ Answers(w, "gift", what)
  BY DEF ExpireOverdue, StartReuse, RestartCheck, CountRecent, OpenLeadCheck, StartCreate,
         RestartReplace, CompleteDecide, CompleteRecheck, CompleteGrant, Result
<1>2. ASSUME NEW pc \in {"loaded", "count", "open", "recheck", "create", "look", "regrant", "grant"},
             Goes(w, pc)
      PROVE  AllTold'
  <2>1. pc \notin BookSteps /\ pc # "answered"
    BY DEF BookSteps
  <2> QED BY <1>2, <2>1, GoingTold
<1>3. ASSUME NEW what, Answers(w, "session", what) \/ Answers(w, "gift", what) PROVE AllTold'
  BY <1>3, AnsweringTold
<1> QED BY <1>1, <1>2, <1>3, RefusingTold

(* The steps that note what they have read. *)
LEMMA NotingTold ==
    ASSUME Inv, AllTold, LeadsKept, NEW w \in Workers, Look(w) \/ RestartRecheck(w)
    PROVE  AllTold'
<1>1. CASE Refuses(w)
  BY <1>1, RefusingTold
<1>2. CASE ~Refuses(w)
  <2>1. /\ \A x \in Workers \ {w} : job'[x] = job[x]
        /\ job'[w].pc \in {"expire", "loaded", "replace"}
    BY <1>2 DEF Look, RestartRecheck, Inv, JobsOK, Jobs
  <2>2. Told(job[w])'
    BY <2>1 DEF Told, BookSteps
  <2> QED BY <2>1, <2>2, ToldFrame
<1> QED BY <1>1, <1>2

LEMMA NextTold ==
    ASSUME Inv, AllTold, [Next]_vars
    PROVE  AllTold'
<1>0. LeadsKept
  BY LeadsOfStep
<1>1. ASSUME NEW w \in Workers, Step(w) PROVE AllTold'
  BY <1>0, <1>1, SubmitTold, BookTold, SessionTold, NotingTold DEF Step
<1>2. ASSUME NEW w \in Workers, Arrive(w) PROVE AllTold'
  <2>1. PICK r \in Requests : job' = [job EXCEPT ![w] = Begun(FirstStep(r), r, clock)]
    BY <1>2 DEF Arrive
  <2>2. /\ job'[w].pc = FirstStep(r) /\ job'[w].req = r /\ job'[w].answer = "none"
        /\ \A x \in Workers \ {w} : job'[x] = job[x]
    BY <2>1 DEF Inv, JobsOK, Begun
  <2>3. r.kind \in {"start", "restart", "complete", "result", "book"}
    BY <2>1 DEF Requests, RequestRows
  <2>4. Told(job[w])'
    BY <2>2, <2>3 DEF Told, BookSteps, FirstStep
  <2> QED BY <1>0, <2>2, <2>4, ToldFrame
<1>3. ASSUME NEW w \in Workers, Reply(w) PROVE AllTold'
  <2>1. job'[w] = Idle /\ \A x \in Workers \ {w} : job'[x] = job[x]
    BY <1>3 DEF Reply, Inv, JobsOK
  <2>2. Told(job[w])'
    BY <2>1 DEF Told, BookSteps, Idle, Begun
  <2> QED BY <1>0, <2>1, <2>2, ToldFrame
<1>4. ASSUME UNCHANGED job PROVE AllTold'
  BY <1>0, <1>4 DEF AllTold, Told, LeadsKept
<1> QED BY <1>1, <1>2, <1>3, <1>4 DEF Next, SetLeadStatus, Tick, Rest, vars

LEMMA ToldInvariance == Spec => [](Inv /\ AllTold)
<1>1. Init => Inv /\ AllTold
  BY InitOK DEF Init, AllTold, Told, Idle, Begun, BookSteps
<1>2. Inv /\ AllTold /\ [Next]_vars => (Inv /\ AllTold)'
  BY NextOK, NextTold
<1> QED BY <1>1, <1>2, PTL DEF Spec

(* Whoever is told of a lead sent its very data, and the lead owns the play, *)
(* until the answer is taken, whatever others submit or the manager changes. *)
THEOREM LeadsAreTheSenders == Spec => []LeadAnswersAreTrue
<1>1. ASSUME Inv, AllTold, NEW w \in Workers, job[w].pc = "answered", job[w].answer = "lead"
      PROVE  /\ job[w].req.kind = "book"
             /\ lead[job[w].what].of = job[w].req.s
             /\ lead[job[w].what].phone = job[w].req.phone
             /\ play[job[w].req.s] = job[w].what
  <2>1. /\ job[w].req.kind = "book" /\ job[w].what \in Keys /\ Exists(job[w].what)
        /\ lead[job[w].what].of = job[w].req.s /\ lead[job[w].what].phone = job[w].req.phone
    BY <1>1 DEF AllTold, Told
  <2> QED BY <1>1, <2>1 DEF Inv, RowsOK, OneLeadPerPlay
<1>2. Inv /\ AllTold => LeadAnswersAreTrue
  BY <1>1 DEF LeadAnswersAreTrue
<1> QED BY <1>2, ToldInvariance, PTL
-------------------------------------------------------------------------------
(***************************************************************************)
(* Gifts without a claim window, and who loses them.                       *)
(***************************************************************************)

(* A gift without a window is one of a session that somebody expired before  *)
(* its completion was written; a request speaks of a session there is.       *)
WindowOrExpired ==
    \A s \in Sessions : play[s] # NoPlay /\ session[s].claimExp = None
        => session[s].status = "EXPIRED"

WindowsOK ==
    /\ \A s \in Sessions : session[s].status \in {"absent", "ACTIVE"} =>
          session[s].claimExp = None /\ play[s] = NoPlay
    /\ WindowOrExpired
    /\ \A w \in Workers : job[w].req.s \in Sessions => session[job[w].req.s].status # "absent"

(* A gift without a window is never claimed nor given one, and the window of *)
(* a gift that has one is neither extended nor withdrawn.                    *)
LostForGood ==
    [][\A s \in Sessions : play[s] # NoPlay /\ session[s].claimExp = None =>
          UNCHANGED <<play[s], session[s]>>]_vars

WindowIsFixed ==
    [][\A s \in Sessions : session[s].claimExp # None =>
          session'[s].claimExp = session[s].claimExp]_vars

(* What one step may make of one session and its play. *)
Opened(s) ==
    /\ session[s].status = "absent" /\ session'[s].status = "ACTIVE"
    /\ session'[s].claimExp = None /\ play'[s] = play[s]
Expires(s) ==
    /\ session[s].status \in {"ACTIVE", "COMPLETED"} /\ session'[s].status = "EXPIRED"
    /\ session'[s].claimExp = session[s].claimExp /\ session'[s].since = session[s].since
    /\ play'[s] = play[s]
Granted(s) ==
    /\ session[s].status = "ACTIVE" /\ play[s] = NoPlay
    /\ session'[s].status = "COMPLETED" /\ session'[s].claimExp # None
    /\ session'[s].since = session[s].since /\ play'[s] = None
GrantedLate(s) ==
    /\ session[s].status \notin {"absent", "ACTIVE"} /\ play[s] = NoPlay
    /\ session'[s] = session[s] /\ play'[s] = None
TakenBy(s) ==
    /\ session[s].claimExp # None /\ session[s].status = "COMPLETED"
    /\ session'[s].status = "CONSUMED" /\ session'[s].claimExp = session[s].claimExp
    /\ session'[s].since = session[s].since
    /\ play[s] = None /\ play'[s] \in Keys
Moves(s) ==
    \/ UNCHANGED <<session[s], play[s]>>
    \/ Opened(s) \/ Expires(s) \/ Granted(s) \/ GrantedLate(s) \/ TakenBy(s)

LEMMA StepJob ==
    ASSUME Inv, NEW w \in Workers, Step(w)
    PROVE  /\ \A v \in Workers \ {w} : job'[v] = job[v]
           /\ job'[w].req = job[w].req
           /\ job'[w].pc # "answered" => job'[w].now = job[w].now
<1>0. job \in [Workers -> Jobs]
  BY DEF Inv, JobsOK
<1>1. CASE \E pc : Goes(w, pc)
  BY <1>0, <1>1 DEF Goes, Jobs
<1>2. CASE \E kind, what : Answers(w, kind, what)
  BY <1>0, <1>2 DEF Answers, Jobs
<1>3. CASE Refuses(w)
  BY <1>2, <1>3 DEF Refuses
<1>4. CASE Look(w)
  BY <1>0, <1>4 DEF Look, Jobs
<1>5. CASE RestartRecheck(w)
  BY <1>0, <1>3, <1>5 DEF RestartRecheck, Jobs
<1>6. CASE BookFind(w) \/ BookSubmit(w)
  BY <1>1, <1>2, <1>3, <1>6 DEF BookFind, BookSubmit, Replays
<1>7. CASE ~(Look(w) \/ RestartRecheck(w) \/ BookFind(w) \/ BookSubmit(w))
  <2>1. \/ \E pc : Goes(w, pc)
        \/ \E kind, what : Answers(w, kind, what)
        \/ Refuses(w)
    BY <1>7 DEF Step, ExpireOverdue, StartReuse, RestartCheck, CountRecent, OpenLeadCheck,
       StartCreate, RestartReplace, CompleteDecide, CompleteRecheck, CompleteGrant, Result,
       BookValidate, BookDuplicate, BookCheck
  <2> QED BY <1>1, <1>2, <1>3, <2>1
<1> QED BY <1>4, <1>5, <1>6, <1>7

LEMMA RowsUntouched ==
    ASSUME UNCHANGED <<session, play>>
    PROVE  \A s \in Sessions : Moves(s)
BY DEF Moves

LEMMA ExpiryMoves ==
    ASSUME RowsOK, NEW s \in Sessions, session[s].status \in {"ACTIVE", "COMPLETED"},
           session' = [session EXCEPT ![s].status = "EXPIRED"], UNCHANGED play
    PROVE  \A x \in Sessions : Moves(x)
<1>1. Expires(s)
  BY DEF Expires, RowsOK, RowsTyped, SessionRows
<1>2. ASSUME NEW x \in Sessions, x # s PROVE UNCHANGED <<session[x], play[x]>>
  BY <1>2 DEF RowsOK, RowsTyped
<1> QED BY <1>1, <1>2 DEF Moves

(* There is nothing left to reconcile: who claims a gift consumes its session. *)
LEMMA ReconciledMoves ==
    ASSUME RowsOK, NEW s \in Sessions, NEW status
    PROVE  Reconciled(s, status) = session
BY DEF Reconciled, RowsOK, ConsumedByALead

LEMMA NewRow ==
    ASSUME NEW t
    PROVE  /\ New(t).status = "ACTIVE" /\ New(t).claimExp = None
           /\ New(t).since = t
BY DEF New

LEMMA StepMoves ==
    ASSUME Inv, WindowsOK, NEW w \in Workers, Step(w)
    PROVE  \A s \in Sessions : Moves(s)
<1> DEFINE s == job[w].req.s
<1>0. RowsOK /\ session \in [Sessions -> SessionRows] /\ play \in [Sessions -> Keys \cup {None, NoPlay}]
  BY DEF Inv, RowsOK, RowsTyped
<1>1. CASE ExpireOverdue(w)
  <2>1. s \in Sessions /\ job[w].was \in {"ACTIVE", "COMPLETED"}
    BY <1>1, JobRow DEF Inv, ExpireOverdue, Fits, SessionSteps
  <2>2. UNCHANGED play /\ session' = Expired(s, job[w].was)
    BY <1>1 DEF ExpireOverdue
  <2>3. CASE session[s].status = job[w].was
    BY <1>0, <2>1, <2>2, <2>3, ExpiryMoves DEF Expired
  <2>4. CASE session[s].status # job[w].was
    BY <2>2, <2>4, RowsUntouched DEF Expired
  <2> QED BY <2>3, <2>4
<1>2. CASE StartReuse(w) \/ RestartCheck(w) \/ Result(w)
  <2>1. s \in Sessions
    BY <1>2, JobRow DEF Inv, StartReuse, RestartCheck, Result, Fits, SessionSteps
  <2>2. UNCHANGED play /\ (session' = session \/ \E status : session' = Reconciled(s, status))
    BY <1>2 DEF StartReuse, RestartCheck, Result
  <2> QED BY <1>0, <2>1, <2>2, ReconciledMoves, RowsUntouched
<1>3. CASE StartCreate(w)
  <2>1. PICK n \in Sessions :
          session[n].status = "absent" /\ session' = [session EXCEPT ![n] = New(job[w].now)]
    BY <1>3 DEF StartCreate
  <2>2. UNCHANGED play
    BY <1>3 DEF StartCreate
  <2>3. Opened(n)
    BY <1>0, <2>1, <2>2, NewRow DEF Opened
  <2>4. ASSUME NEW x \in Sessions, x # n PROVE UNCHANGED <<session[x], play[x]>>
    BY <1>0, <2>1, <2>2, <2>4
  <2> QED BY <2>3, <2>4 DEF Moves
<1>4. CASE RestartReplace(w)
  <2>1. s \in Sessions /\ job[w].was \in {"ACTIVE", "COMPLETED"}
    BY <1>4, JobRow DEF Inv, RestartReplace, Fits, SessionSteps
  <2>2. CASE session[s].status = job[w].was
    <3>1. PICK n \in Sessions :
            /\ session[n].status = "absent"
            /\ session' = [session EXCEPT ![s].status = "EXPIRED", ![n] = New(job[w].now)]
      BY <1>4, <2>2 DEF RestartReplace
    <3>2. UNCHANGED play /\ n # s
      BY <1>4, <2>1, <2>2, <3>1 DEF RestartReplace
    <3>3. Opened(n)
      BY <1>0, <3>1, <3>2, NewRow DEF Opened
    <3>4. Expires(s)
      BY <1>0, <2>1, <2>2, <3>1, <3>2 DEF Expires, SessionRows
    <3>5. ASSUME NEW x \in Sessions, x # n, x # s PROVE UNCHANGED <<session[x], play[x]>>
      BY <1>0, <3>1, <3>2, <3>5
    <3> QED BY <3>3, <3>4, <3>5 DEF Moves
  <2>3. CASE session[s].status # job[w].was
    BY <1>4, <2>3, RowsUntouched DEF RestartReplace
  <2> QED BY <2>2, <2>3
<1>5. CASE CompleteRecheck(w)
  <2>1. s \in Sessions
    BY <1>5, JobRow DEF Inv, CompleteRecheck, Fits, SessionSteps
  <2>2. UNCHANGED play
    BY <1>5 DEF CompleteRecheck
  <2>3. CASE session' = session
    BY <2>2, <2>3, RowsUntouched
  <2>4. CASE session' # session
    <3>1. /\ session' = [session EXCEPT ![s].status = "EXPIRED"]
          /\ session[s].status \in {"ACTIVE", "COMPLETED"}
      BY <1>5, <2>4 DEF CompleteRecheck, Expired, Overdue
    <3> QED BY <1>0, <2>1, <2>2, <3>1, ExpiryMoves
  <2> QED BY <2>3, <2>4
<1>6. CASE CompleteGrant(w)
  <2>1. s \in Sessions /\ job[w].now \in Nat
    BY <1>6, JobRow DEF Inv, CompleteGrant, Fits, SessionSteps
  <2>2. session[s].status # "absent"
    BY <2>1 DEF WindowsOK
  <2>3. CASE play[s] # NoPlay
    <3>1. UNCHANGED <<session, play>>
      BY <1>6, <2>3 DEF CompleteGrant
    <3> QED BY <3>1, RowsUntouched
  <2>4. CASE play[s] = NoPlay /\ session[s].status = "ACTIVE"
    <3>1. play' = [play EXCEPT ![s] = None] /\ session' = Completed(s, job[w].now)
      BY <1>6, <2>4 DEF CompleteGrant
    <3>2. job[w].now + ClaimWindow # None
      BY <2>1, GameAssumption
    <3>3. Granted(s)
      BY <1>0, <2>1, <2>4, <3>1, <3>2 DEF Granted, Completed, SessionRows
    <3>4. ASSUME NEW x \in Sessions, x # s PROVE UNCHANGED <<session[x], play[x]>>
      BY <1>0, <3>1, <3>4 DEF Completed
    <3> QED BY <3>3, <3>4 DEF Moves
  <2>5. CASE play[s] = NoPlay /\ session[s].status # "ACTIVE"
    <3>1. play' = [play EXCEPT ![s] = None] /\ session' = session
      BY <1>6, <2>5 DEF CompleteGrant
    <3>2. GrantedLate(s)
      BY <1>0, <2>1, <2>2, <2>5, <3>1 DEF GrantedLate
    <3>3. ASSUME NEW x \in Sessions, x # s PROVE UNCHANGED <<session[x], play[x]>>
      BY <1>0, <3>1, <3>3
    <3> QED BY <3>2, <3>3 DEF Moves
  <2> QED BY <2>3, <2>4, <2>5
<1>7. CASE BookSubmit(w)
  <2>1. s \in Sessions /\ job[w].req.k \in Keys
    BY <1>7, JobRow DEF Inv, BookSubmit, Fits, BookSteps
  <2>2. CASE UNCHANGED Rows
    BY <2>2, RowsUntouched DEF Rows
  <2>3. CASE ~UNCHANGED Rows
    <3>1. /\ Claimable(s, job[w].now)
          /\ play' = [play EXCEPT ![s] = job[w].req.k]
          /\ session' = [session EXCEPT ![s].status = "CONSUMED"]
      BY <1>7, <2>3 DEF BookSubmit
    <3>2. TakenBy(s)
      BY <1>0, <2>1, <3>1 DEF TakenBy, Claimable, SessionRows
    <3>3. ASSUME NEW x \in Sessions, x # s PROVE UNCHANGED <<session[x], play[x]>>
      BY <1>0, <3>1, <3>3
    <3> QED BY <3>2, <3>3 DEF Moves
  <2> QED BY <2>2, <2>3
<1>8. CASE UNCHANGED <<session, play>>
  BY <1>8, RowsUntouched
<1> QED
  BY <1>1, <1>2, <1>3, <1>4, <1>5, <1>6, <1>7, <1>8
     DEF Step, Look, CountRecent, OpenLeadCheck, RestartRecheck, CompleteDecide, BookFind,
         BookValidate, BookDuplicate, BookCheck, Rows

LEMMA NextMoves ==
    ASSUME Inv, WindowsOK, [Next]_vars
    PROVE  \A s \in Sessions : Moves(s)
<1>1. ASSUME UNCHANGED <<session, play>> PROVE \A s \in Sessions : Moves(s)
  BY <1>1, RowsUntouched
<1>2. ASSUME NEW w \in Workers, Arrive(w) \/ Reply(w) PROVE UNCHANGED <<session, play>>
  BY <1>2 DEF Arrive, Reply, Rows
<1>3. CASE Tick \/ Rest \/ UNCHANGED vars
  BY <1>1, <1>3 DEF Tick, Rest, Rows, vars
<1>4. ASSUME NEW k \in Keys, NEW status \in LeadStatuses, SetLeadStatus(k, status)
      PROVE  UNCHANGED <<session, play>>
  BY <1>4 DEF SetLeadStatus
<1> QED BY <1>1, <1>2, <1>3, <1>4, StepMoves DEF Next

LEMMA WindowsStep ==
    ASSUME Inv, WindowsOK, [Next]_vars
    PROVE  WindowsOK'
<1>0. \A s \in Sessions : Moves(s)
  BY NextMoves
<1>1. \A s \in Sessions :
        /\ session[s].status = "COMPLETED" => session[s].claimExp # None
        /\ session[s].status = "CONSUMED" => play[s] # NoPlay
  BY GameAssumption DEF Inv, RowsOK, RowsTyped, ConsumedByALead, HasLead
<1>2. ASSUME NEW s \in Sessions
      PROVE  /\ session'[s].status \in {"absent", "ACTIVE"} =>
                    session'[s].claimExp = None /\ play'[s] = NoPlay
             /\ play'[s] # NoPlay /\ session'[s].claimExp = None => session'[s].status = "EXPIRED"
             /\ session[s].status # "absent" => session'[s].status # "absent"
  <2>1. /\ session[s].status \in {"absent", "ACTIVE"} =>
              session[s].claimExp = None /\ play[s] = NoPlay
        /\ play[s] # NoPlay /\ session[s].claimExp = None => session[s].status = "EXPIRED"
        /\ session[s].status \in Statuses
    BY DEF WindowsOK, WindowOrExpired, Inv, RowsOK, RowsTyped, SessionRows
  <2>2. CASE UNCHANGED <<session[s], play[s]>>
    BY <2>1, <2>2
  <2>3. CASE Opened(s)
    BY <2>1, <2>3 DEF Opened
  <2>4. CASE Expires(s)
    BY <2>1, <2>4 DEF Expires
  <2>5. CASE Granted(s)
    BY <2>5 DEF Granted
  <2>6. CASE GrantedLate(s)
    BY <1>1, <2>1, <2>6 DEF GrantedLate, Statuses
  <2>7. CASE TakenBy(s)
    BY <2>1, <2>7 DEF TakenBy
  <2> QED BY <1>0, <2>2, <2>3, <2>4, <2>5, <2>6, <2>7 DEF Moves
<1>3. ASSUME NEW w \in Workers, job'[w].req.s \in Sessions
      PROVE  session'[job'[w].req.s].status # "absent"
  <2>1. ASSUME job'[w].req = job[w].req PROVE session'[job'[w].req.s].status # "absent"
    BY <1>2, <1>3, <2>1 DEF WindowsOK
  <2>2. ASSUME NEW v \in Workers, Step(v) PROVE job'[w].req = job[w].req
    BY <2>2, StepJob
  <2>3. ASSUME NEW v \in Workers, Reply(v) PROVE job'[w].req = job[w].req
    <3>1. job'[v] = Idle /\ \A x \in Workers \ {v} : job'[x] = job[x]
      BY <2>3 DEF Reply, Inv, JobsOK
    <3>2. Idle.req.s \notin Sessions
      BY GameAssumption DEF Idle, Begun
    <3> QED BY <1>3, <3>1, <3>2
  <2>4. ASSUME NEW v \in Workers, Arrive(v) PROVE session'[job'[w].req.s].status # "absent"
    <3>1. PICK r \in Requests : job' = [job EXCEPT ![v] = Begun(FirstStep(r), r, clock)]
      BY <2>4 DEF Arrive
    <3>2. job'[v].req = r /\ \A x \in Workers \ {v} : job'[x] = job[x]
      BY <3>1 DEF Begun, Inv, JobsOK
    <3>3. r.s \in Sessions => session[r.s].status # "absent"
      <4>1. r.s \in Sessions => session[r.s].status # "absent" \/ play[r.s] # NoPlay
        BY <3>1, GameAssumption DEF Requests, RequestRows
      <4> QED BY <4>1 DEF WindowsOK
    <3> QED BY <1>2, <1>3, <2>1, <3>2, <3>3
  <2>5. CASE UNCHANGED job
    BY <2>1, <2>5
  <2> QED BY <2>1, <2>2, <2>3, <2>4, <2>5 DEF Next, SetLeadStatus, Tick, Rest, vars
<1> QED BY <1>2, <1>3 DEF WindowsOK, WindowOrExpired

LEMMA WindowsInvariance == Spec => [](Inv /\ WindowsOK)
<1>1. Init => Inv /\ WindowsOK
  BY InitOK, GameAssumption DEF Init, WindowsOK, WindowOrExpired, Idle, Begun
<1>2. Inv /\ WindowsOK /\ [Next]_vars => (Inv /\ WindowsOK)'
  BY NextOK, WindowsStep
<1> QED BY <1>1, <1>2, PTL DEF Spec

(* Whatever requests race with a completion, the gift it grants has a claim  *)
(* window, unless its session has been expired meanwhile                     *)
(* (completeActiveSession returns the play of a session that was no longer   *)
(* ACTIVE).                                                                  *)
THEOREM OnlyExpiredGiftsLackAWindow == Spec => []WindowOrExpired
  BY WindowsInvariance, PTL DEF WindowsOK

(* Such a gift is lost: no later request claims it, gives it a window or     *)
(* brings its session back.                                                  *)
THEOREM LostGiftsStayLost == Spec => LostForGood
<1>1. ASSUME Inv, WindowsOK, [Next]_vars, NEW s \in Sessions,
             play[s] # NoPlay, session[s].claimExp = None
      PROVE  UNCHANGED <<play[s], session[s]>>
  <2>1. session[s].status = "EXPIRED" /\ Moves(s)
    BY <1>1, NextMoves DEF WindowsOK, WindowOrExpired
  <2> QED BY <1>1, <2>1 DEF Moves, Opened, Expires, Granted, GrantedLate, TakenBy
<1>2. Inv /\ WindowsOK /\ [Next]_vars =>
        [\A s \in Sessions : play[s] # NoPlay /\ session[s].claimExp = None =>
            UNCHANGED <<play[s], session[s]>>]_vars
  BY <1>1
<1> QED BY <1>2, WindowsInvariance, PTL DEF Spec, LostForGood

(* The window of a gift stays as it was granted: a repeated or racing        *)
(* completion does not begin it again, an expiry does not take it away.      *)
THEOREM ClaimWindowsAreFixed == Spec => WindowIsFixed
<1>1. ASSUME Inv, WindowsOK, [Next]_vars, NEW s \in Sessions, session[s].claimExp # None
      PROVE  session'[s].claimExp = session[s].claimExp
  <2>1. Moves(s) /\ session[s].status \notin {"absent", "ACTIVE"}
    BY <1>1, NextMoves DEF WindowsOK
  <2> QED BY <1>1, <2>1 DEF Moves, Opened, Expires, Granted, GrantedLate, TakenBy
<1>2. Inv /\ WindowsOK /\ [Next]_vars =>
        [\A s \in Sessions : session[s].claimExp # None =>
            session'[s].claimExp = session[s].claimExp]_vars
  BY <1>1
<1> QED BY <1>2, WindowsInvariance, PTL DEF Spec, WindowIsFixed

(* A request that nobody overtakes finds the session as it read it.          *)
AloneFits(j) ==
    /\ j.pc = "expire" => j.seen = "EXPIRED"
    /\ j.pc = "loaded" => j.seen = "EXPIRED" \/ j.seen = session[j.req.s].status
    /\ j.pc \in {"regrant", "grant"} => session[j.req.s].status = "ACTIVE"
    /\ j.pc = "answered" /\ j.answer = "gift" => session[j.req.s].claimExp # None
AloneOK == \A w \in Workers : AloneFits(job[w])

LEMMA AloneStep ==
    ASSUME Inv, WindowsOK, AloneOK, NEW w, Workers = {w}, Step(w)
    PROVE  AloneFits(job[w])'
<1> DEFINE s == job[w].req.s
<1>0. /\ w \in Workers /\ job \in [Workers -> Jobs] /\ job[w] \in Jobs /\ AloneFits(job[w])
      /\ session \in [Sessions -> SessionRows]
  BY DEF Inv, JobsOK, RowsOK, RowsTyped, AloneOK
<1>1. job'[w].req = job[w].req
  BY <1>0, StepJob
<1>2. ASSUME NEW pc, Goes(w, pc)
      PROVE  job'[w].pc = pc /\ job'[w].seen = job[w].seen
  BY <1>0, <1>2 DEF Goes, Jobs
<1>3. ASSUME NEW kind, NEW what, Answers(w, kind, what)
      PROVE  job'[w].pc = "answered" /\ job'[w].answer = kind
  BY <1>0, <1>3 DEF Answers, Jobs
<1>4. ASSUME NEW pc, Goes(w, pc), pc \notin {"expire", "loaded", "regrant", "grant", "answered"}
      PROVE  AloneFits(job[w])'
  BY <1>2, <1>4 DEF AloneFits
<1>5. ASSUME NEW kind, NEW what, Answers(w, kind, what), kind # "gift"
      PROVE  AloneFits(job[w])'
  BY <1>3, <1>5 DEF AloneFits
<1>6. Refuses(w) => AloneFits(job[w])'
  BY <1>5 DEF Refuses
<1>7. CASE Look(w)
  <2>1. UNCHANGED session
    BY <1>7 DEF Look, Rows
  <2>2. /\ job'[w].seen = Lazily(session[s], job[w].now)
        /\ job'[w].pc = IF Overdue(session[s], job[w].now) THEN "expire" ELSE "loaded"
    BY <1>0, <1>7 DEF Look, Jobs
  <2> QED BY <1>1, <2>1, <2>2 DEF AloneFits, Lazily
<1>8. CASE ExpireOverdue(w)
  <2>1. job[w].seen = "EXPIRED" /\ Goes(w, "loaded")
    BY <1>0, <1>8 DEF ExpireOverdue, AloneFits
  <2> QED BY <1>2, <2>1 DEF AloneFits
<1>9. CASE CompleteDecide(w)
  <2>1. /\ s \in Sessions /\ UNCHANGED session
        /\ job[w].seen = "EXPIRED" \/ job[w].seen = session[s].status
    BY <1>0, <1>9, JobRow DEF CompleteDecide, Inv, Fits, SessionSteps, AloneFits, Rows
  <2>2. CASE Refuses(w)
    BY <1>6, <2>2
  <2>3. CASE Answers(w, "gift", s) /\ ~Refuses(w)
    <3>1. /\ play[s] # NoPlay /\ job[w].seen \in {"COMPLETED", "CONSUMED"}
      BY <1>2, <1>3, <1>9, <2>3 DEF CompleteDecide
    <3>2. session[s].claimExp # None
      BY <2>1, <3>1 DEF WindowsOK, WindowOrExpired
    <3> QED BY <1>1, <1>3, <2>1, <2>3, <3>2 DEF AloneFits
  <2>4. CASE Goes(w, "regrant")
    <3>1. job[w].seen = "ACTIVE"
      BY <1>2, <1>3, <1>9, <2>4 DEF CompleteDecide, Refuses
    <3> QED BY <1>1, <1>2, <2>1, <2>4, <3>1 DEF AloneFits
  <2> QED BY <1>9, <2>2, <2>3, <2>4 DEF CompleteDecide
<1>10. CASE CompleteRecheck(w)
  <2>1. s \in Sessions /\ session[s].status = "ACTIVE"
    BY <1>0, <1>10, JobRow DEF CompleteRecheck, Inv, Fits, SessionSteps, AloneFits
  <2>2. play[s] = NoPlay
    BY <2>1 DEF WindowsOK
  <2>3. UNCHANGED session /\ (Goes(w, "grant") \/ Refuses(w))
    BY <1>10, <2>2 DEF CompleteRecheck
  <2>4. Goes(w, "grant") => AloneFits(job[w])'
    BY <1>1, <1>2, <2>1, <2>3 DEF AloneFits
  <2> QED BY <1>6, <2>3, <2>4
<1>11. CASE CompleteGrant(w)
  <2>1. s \in Sessions /\ session[s].status = "ACTIVE" /\ job[w].now \in Nat
    BY <1>0, <1>11, JobRow DEF CompleteGrant, Inv, Fits, SessionSteps, AloneFits
  <2>2. session' = Completed(s, job[w].now) /\ Answers(w, "gift", s)
    BY <1>11, <2>1 DEF CompleteGrant, WindowsOK
  <2>3. session'[s].claimExp = job[w].now + ClaimWindow
    BY <1>0, <2>1, <2>2 DEF Completed, SessionRows
  <2>4. session'[s].claimExp # None
    BY <2>1, <2>3, GameAssumption
  <2> QED BY <1>1, <1>3, <2>2, <2>4 DEF AloneFits
<1>12. CASE Result(w)
  <2>1. /\ s \in Sessions
        /\ job[w].seen = "EXPIRED" \/ job[w].seen = session[s].status
    BY <1>0, <1>12, JobRow DEF Result, Inv, Fits, SessionSteps, AloneFits
  <2>2. UNCHANGED session
    BY <1>12, <2>1, ReconciledMoves DEF Result, Inv
  <2>3. CASE Refuses(w) \/ Answers(w, "session", s)
    BY <1>5, <1>6, <2>3
  <2>4. CASE job[w].seen \notin {"ACTIVE", "EXPIRED"} /\ play[s] # NoPlay /\ Answers(w, "gift", s)
    <3>1. session[s].claimExp # None
      BY <2>1, <2>4 DEF WindowsOK, WindowOrExpired
    <3> QED BY <1>1, <1>3, <2>2, <2>4, <3>1 DEF AloneFits
  <2> QED BY <1>12, <2>3, <2>4 DEF Result
<1>13. CASE RestartRecheck(w)
  <2>1. CASE Refuses(w)
    BY <1>6, <2>1
  <2>2. CASE ~Refuses(w)
    <3>1. job'[w].pc = "replace"
      BY <1>0, <1>13, <2>2 DEF RestartRecheck, Jobs
    <3> QED BY <3>1 DEF AloneFits
  <2> QED BY <2>1, <2>2
<1>14. CASE \/ StartReuse(w) \/ RestartCheck(w) \/ CountRecent(w) \/ OpenLeadCheck(w)
            \/ StartCreate(w) \/ RestartReplace(w) \/ BookFind(w) \/ BookValidate(w)
            \/ BookDuplicate(w) \/ BookCheck(w) \/ BookSubmit(w)
  <2>1. \/ \E pc \in {"count", "open", "recheck", "create", "look", "validate", "duplicate",
                      "check", "submit"} : Goes(w, pc)
        \/ \E kind \in {"session", "lead"} : \E what : Answers(w, kind, what)
        \/ Refuses(w)
    BY <1>14 DEF StartReuse, RestartCheck, CountRecent, OpenLeadCheck, StartCreate,
       RestartReplace, BookFind, BookValidate, BookDuplicate, BookCheck, BookSubmit, Replays
  <2> QED BY <1>4, <1>5, <1>6, <2>1
<1> QED
  BY <1>7, <1>8, <1>9, <1>10, <1>11, <1>12, <1>13, <1>14 DEF Step

(* Requests handled one at a time never tell of a gift without a window:     *)
(* that a completion does is a matter of the requests it races with.         *)
THEOREM GiftsHaveWindowsOneAtATime ==
    ASSUME NEW w, Workers = {w}
    PROVE  Spec => []GiftHasClaimWindow
<1>1. Init => AloneOK
  BY DEF Init, AloneOK, AloneFits, Idle, Begun
<1>2. ASSUME Inv, WindowsOK, AloneOK, [Next]_vars PROVE AloneOK'
  <2>1. CASE Step(w)
    BY <1>2, <2>1, AloneStep DEF AloneOK
  <2>2. CASE Arrive(w)
    <3>1. PICK r \in Requests : job' = [job EXCEPT ![w] = Begun(FirstStep(r), r, clock)]
      BY <2>2 DEF Arrive
    <3>2. job'[w].pc = FirstStep(r) /\ FirstStep(r) \in {"count", "look", "open", "find"}
      BY <1>2, <3>1 DEF Inv, JobsOK, Begun, FirstStep, Requests, RequestRows
    <3> QED BY <3>2 DEF AloneOK, AloneFits
  <2>3. CASE Reply(w)
    <3>1. job'[w].pc = "idle"
      BY <1>2, <2>3 DEF Inv, JobsOK, Reply, Idle, Begun
    <3> QED BY <3>1 DEF AloneOK, AloneFits
  <2>4. CASE UNCHANGED <<session, job>>
    BY <1>2, <2>4 DEF AloneOK, AloneFits
  <2> QED BY <1>2, <2>1, <2>2, <2>3, <2>4 DEF Next, SetLeadStatus, Tick, Rest, Rows, vars
<1>3. AloneOK => GiftHasClaimWindow
  BY DEF AloneOK, AloneFits, GiftHasClaimWindow
<1> QED BY <1>1, <1>2, <1>3, WindowsInvariance, PTL DEF Spec
-------------------------------------------------------------------------------
(***************************************************************************)
(* How many sessions a visitor can start.                                  *)
(***************************************************************************)

(* The sessions that were started in the window that ends at t, and the      *)
(* requests that passed the count and are about to start one in it.          *)
Recent(t) ==
    {s \in Sessions : session[s].status # "absent"
                      /\ session[s].since <= t /\ session[s].since + LimitWindow >= t}
Passed(j) == j.pc \in {"create", "replace"} \/ (j.pc = "open" /\ j.req.kind = "start")
Pending(t) ==
    {w \in Workers : Passed(job[w]) /\ job[w].now <= t /\ job[w].now + LimitWindow >= t}

(* Starts that pass the count together exceed the limit by no more than      *)
(* there are requests besides the one that counted last.                     *)
StartsAreBounded ==
    \A t \in Nat : Cardinality(Recent(t)) <= StartLimit + Cardinality(Workers) - 1
StartsInv ==
    \A t \in Nat :
        Cardinality(Recent(t)) + Cardinality(Pending(t)) <= StartLimit + Cardinality(Workers) - 1

LEMMA NothingOpens ==
    ASSUME Inv, NEW w \in Workers, Step(w), ~StartCreate(w), ~RestartReplace(w)
    PROVE  \A s \in Sessions : ~Opened(s)
<1> DEFINE x == job[w].req.s
<1>0. RowsOK /\ session \in [Sessions -> SessionRows]
  BY DEF Inv, RowsOK, RowsTyped
<1>1. \/ session' = session
      \/ \E status \in {"EXPIRED", "CONSUMED"} : session' = [session EXCEPT ![x].status = status]
      \/ session' = Completed(x, job[w].now)
  <2>1. CASE StartReuse(w) \/ RestartCheck(w) \/ Result(w)
    <3>1. x \in Sessions
      BY <2>1, JobRow DEF Inv, StartReuse, RestartCheck, Result, Fits, SessionSteps
    <3> QED BY <1>0, <2>1, <3>1, ReconciledMoves DEF StartReuse, RestartCheck, Result
  <2>2. CASE ~(StartReuse(w) \/ RestartCheck(w) \/ Result(w))
    BY <2>2 DEF Step, Look, ExpireOverdue, CountRecent, OpenLeadCheck, RestartRecheck,
       CompleteDecide, CompleteRecheck, CompleteGrant, BookFind, BookValidate, BookDuplicate,
       BookCheck, BookSubmit, Rows, Expired
  <2> QED BY <2>1, <2>2
<1>2. ASSUME NEW s \in Sessions
      PROVE  session'[s].status \in {session[s].status, "EXPIRED", "CONSUMED", "COMPLETED"}
  BY <1>0, <1>1 DEF Completed, SessionRows
<1> QED BY <1>2 DEF Opened

LEMMA RecentStays ==
    ASSUME Inv, WindowsOK, [Next]_vars, NEW t \in Nat, NEW S,
           \A s \in Sessions \ S : ~Opened(s)
    PROVE  Recent(t)' \subseteq Recent(t) \cup S
<1>1. ASSUME NEW s \in Sessions, s \notin S, session'[s].status # "absent"
      PROVE  session[s].status # "absent" /\ session'[s].since = session[s].since
  BY <1>1, NextMoves DEF Moves, Expires, Granted, GrantedLate, TakenBy
<1> QED BY <1>1 DEF Recent

(* Who is about to start a session has passed the count, or passes it now.   *)
LEMMA PassingStep ==
    ASSUME Inv, NEW w \in Workers, Step(w), Passed(job'[w])
    PROVE  /\ ~StartCreate(w) /\ ~RestartReplace(w)
           /\ Passed(job[w]) \/ ~AtLimit(job[w].now)
<1>0. job \in [Workers -> Jobs] /\ job'[w].req = job[w].req
  BY StepJob DEF Inv, JobsOK
<1>1. ASSUME NEW pc, Goes(w, pc) PROVE job'[w].pc = pc
  BY <1>0, <1>1 DEF Goes, Jobs
<1>2. ASSUME NEW kind, NEW what PROVE ~Answers(w, kind, what)
  <2>1. Answers(w, kind, what) => job'[w].pc = "answered"
    BY <1>0 DEF Answers, Jobs
  <2> QED BY <2>1 DEF Passed
<1>3. ~Refuses(w)
  BY <1>2 DEF Refuses
<1>4. ~StartCreate(w) /\ ~RestartReplace(w)
  BY <1>2, <1>3 DEF StartCreate, RestartReplace
<1>5. CASE RestartRecheck(w)
  BY <1>3, <1>4, <1>5 DEF RestartRecheck
<1>6. CASE CountRecent(w)
  BY <1>3, <1>4, <1>6 DEF CountRecent
<1>7. CASE OpenLeadCheck(w)
  <2>1. Goes(w, IF job[w].req.kind = "start" THEN "create" ELSE "look")
    BY <1>3, <1>7 DEF OpenLeadCheck
  <2> QED BY <1>1, <1>4, <1>7, <2>1 DEF Passed, OpenLeadCheck
<1>8. CASE Look(w)
  <2>1. job'[w].pc \in {"expire", "loaded"}
    BY <1>0, <1>8 DEF Look, Jobs
  <2> QED BY <2>1 DEF Passed
<1>9. CASE ~(RestartRecheck(w) \/ CountRecent(w) \/ OpenLeadCheck(w) \/ Look(w))
  <2>1. \E pc \in {"loaded", "count", "regrant", "grant", "validate", "duplicate", "check", "submit"} :
            Goes(w, pc)
    BY <1>2, <1>3, <1>4, <1>9 DEF Step, ExpireOverdue, StartReuse, RestartCheck, CompleteDecide,
       CompleteRecheck, CompleteGrant, Result, BookFind, BookValidate, BookDuplicate, BookCheck,
       BookSubmit, Replays
  <2> QED BY <1>1, <2>1 DEF Passed
<1> QED BY <1>5, <1>6, <1>7, <1>8, <1>9

LEMMA CountedStarts ==
    ASSUME NEW t \in Nat, IsFiniteSet(Sessions), IsFiniteSet(Workers)
    PROVE  /\ IsFiniteSet(Recent(t)) /\ IsFiniteSet(Recent(t)')
           /\ IsFiniteSet(Pending(t)) /\ IsFiniteSet(Pending(t)')
           /\ {Cardinality(Recent(t)), Cardinality(Recent(t)')} \subseteq Nat
           /\ {Cardinality(Pending(t)), Cardinality(Pending(t)')} \subseteq Nat
           /\ Cardinality(Pending(t)') <= Cardinality(Workers)
           /\ Cardinality(Workers) \in Nat
<1>1. /\ Recent(t) \in SUBSET Sessions /\ Recent(t)' \in SUBSET Sessions
      /\ Pending(t) \in SUBSET Workers /\ Pending(t)' \in SUBSET Workers
  BY DEF Recent, Pending
<1>2. /\ IsFiniteSet(Recent(t)) /\ IsFiniteSet(Recent(t)')
      /\ IsFiniteSet(Pending(t)) /\ IsFiniteSet(Pending(t)')
      /\ Cardinality(Pending(t)') <= Cardinality(Workers)
  BY <1>1, FS_Subset
<1> QED BY <1>2, FS_CardinalityType

(* Those that an overstepped limit would have counted. *)
LEMMA CountBelowLimit ==
    ASSUME Inv, IsFiniteSet(Sessions), NEW now \in Nat, ~AtLimit(now),
           NEW t \in Nat, now <= t
    PROVE  Cardinality(Recent(t)) < StartLimit
<1> DEFINE counted == {s \in Sessions : session[s].status # "absent"
                                        /\ session[s].since + LimitWindow >= now}
<1>1. \A s \in Sessions : session[s].since \in Nat
  BY DEF Inv, RowsOK, RowsTyped, SessionRows
<1>2. Recent(t) \in SUBSET counted
  BY <1>1, GameAssumption DEF Recent
<1>3. counted \in SUBSET Sessions
  OBVIOUS
<1>4. IsFiniteSet(counted)
  BY <1>3, FS_Subset
<1>5. Cardinality(Recent(t)) <= Cardinality(counted) /\ IsFiniteSet(Recent(t))
  BY <1>2, <1>4, FS_Subset
<1>6. ~(Cardinality(counted) >= StartLimit)
  BY DEF AtLimit
<1> QED BY <1>4, <1>5, <1>6, FS_CardinalityType, GameAssumption

LEMMA StartsStep ==
    ASSUME Inv, WindowsOK, StartsInv, [Next]_vars, IsFiniteSet(Sessions), IsFiniteSet(Workers)
    PROVE  StartsInv'
<1> SUFFICES ASSUME NEW t \in Nat
             PROVE  Cardinality(Recent(t)') + Cardinality(Pending(t)')
                        <= StartLimit + Cardinality(Workers) - 1
  BY DEF StartsInv
<1> DEFINE R == Cardinality(Recent(t))
           P == Cardinality(Pending(t))
           newR == Cardinality(Recent(t)')
           newP == Cardinality(Pending(t)')
<1>0. /\ R \in Nat /\ P \in Nat /\ newR \in Nat /\ newP \in Nat
      /\ newP <= Cardinality(Workers)
      /\ Cardinality(Workers) \in Nat /\ StartLimit \in Nat
      /\ R + P <= StartLimit + Cardinality(Workers) - 1
  BY CountedStarts, GameAssumption DEF StartsInv
<1>1. ASSUME Recent(t)' \subseteq Recent(t), Pending(t)' \subseteq Pending(t)
      PROVE  newR + newP <= StartLimit + Cardinality(Workers) - 1
  <2>1. newR <= R /\ newP <= P
    BY <1>1, CountedStarts, FS_Subset
  <2> HIDE DEF R, P, newR, newP
  <2> QED BY <1>0, <2>1
<1>2. ASSUME NEW w \in Workers, Step(w)
      PROVE  newR + newP <= StartLimit + Cardinality(Workers) - 1
  <2>0. /\ job \in [Workers -> Jobs] /\ \A v \in Workers \ {w} : job'[v] = job[v]
        /\ Passed(job'[w]) => job'[w].now = job[w].now
        /\ job[w].now \in Nat
    BY <1>2, StepJob, JobRow DEF Passed, Inv, JobsOK
  <2>1. CASE StartCreate(w) \/ RestartReplace(w)
    <3>1. ~Passed(job'[w])
      BY <1>2, <2>1, PassingStep
    <3>2. Pending(t)' \subseteq Pending(t) \ {w}
      BY <2>0, <3>1 DEF Pending
    <3>3. CASE \A s \in Sessions : ~Opened(s)
      <4>1. Recent(t)' \subseteq Recent(t) \cup {}
        BY <3>3, RecentStays
      <4> QED BY <1>1, <3>2, <4>1
    <3>4. CASE \E s \in Sessions : Opened(s)
      <4>1. PICK n \in Sessions :
              /\ session[n].status = "absent"
              /\ \/ session' = [session EXCEPT ![n] = New(job[w].now)]
                 \/ session' = [session EXCEPT ![job[w].req.s].status = "EXPIRED", ![n] = New(job[w].now)]
        BY <2>1, <3>4 DEF StartCreate, RestartReplace, Opened
      <4>2. session \in [Sessions -> SessionRows] /\ New(job[w].now).since = job[w].now
        BY NewRow DEF Inv, RowsOK, RowsTyped
      <4>3. session'[n].since = job[w].now
        BY <4>1, <4>2
      <4>4. \A s \in Sessions \ {n} : ~Opened(s)
        BY <4>1, <4>2 DEF Opened, SessionRows
      <4>5. Recent(t)' \subseteq Recent(t) \cup {n}
        BY <4>4, RecentStays
      <4>6. CASE n \notin Recent(t)'
        BY <1>1, <3>2, <4>5, <4>6
      <4>7. CASE n \in Recent(t)'
        <5>1. job[w].now <= t /\ job[w].now + LimitWindow >= t
          BY <4>3, <4>7 DEF Recent
        <5>2. Passed(job[w])
          BY <2>1 DEF Passed, StartCreate, RestartReplace
        <5>3. w \in Pending(t) /\ n \notin Recent(t)
          BY <4>1, <5>1, <5>2 DEF Pending, Recent
        <5>4. newR <= Cardinality(Recent(t) \cup {n}) /\ Cardinality(Recent(t) \cup {n}) = R + 1
          BY <4>5, <5>3, CountedStarts, FS_AddElement, FS_Subset
        <5>5. newP <= Cardinality(Pending(t) \ {w}) /\ Cardinality(Pending(t) \ {w}) = P - 1
          BY <3>2, <5>3, CountedStarts, FS_RemoveElement, FS_Subset
        <5>6. newR <= R + 1 /\ newP <= P - 1
          BY <5>4, <5>5
        <5> HIDE DEF R, P, newR, newP
        <5> QED BY <1>0, <5>6
      <4> QED BY <4>6, <4>7
    <3> QED BY <3>3, <3>4
  <2>2. CASE ~(StartCreate(w) \/ RestartReplace(w))
    <3>1. Recent(t)' \subseteq Recent(t) \cup {}
      BY <1>2, <2>2, NothingOpens, RecentStays
    <3>2. Recent(t)' \subseteq Recent(t)
      BY <3>1
    <3>3. CASE Pending(t)' \subseteq Pending(t)
      BY <1>1, <3>2, <3>3
    <3>4. CASE ~(Pending(t)' \subseteq Pending(t))
      <4>1. /\ Passed(job'[w]) /\ ~Passed(job[w])
            /\ job[w].now <= t
        BY <2>0, <3>4 DEF Pending
      <4>2. ~AtLimit(job[w].now)
        BY <1>2, <4>1, PassingStep
      <4>3. R < StartLimit
        BY <2>0, <4>1, <4>2, CountBelowLimit
      <4>4. newR <= R
        BY <3>2, CountedStarts, FS_Subset
      <4> HIDE DEF R, P, newR, newP
      <4> QED BY <1>0, <4>3, <4>4
    <3> QED BY <3>3, <3>4
  <2> QED BY <2>1, <2>2
<1>3. ASSUME \A s \in Sessions : ~Opened(s), \A v \in Workers : job'[v] = job[v] \/ ~Passed(job'[v])
      PROVE  newR + newP <= StartLimit + Cardinality(Workers) - 1
  <2>1. Recent(t)' \subseteq Recent(t) \cup {}
    BY <1>3, RecentStays
  <2>2. Pending(t)' \subseteq Pending(t)
    BY <1>3 DEF Pending
  <2> QED BY <1>1, <2>1, <2>2
<1>4. ASSUME UNCHANGED session PROVE \A s \in Sessions : ~Opened(s)
  BY <1>4 DEF Opened
<1>5. ASSUME NEW w \in Workers, Arrive(w)
      PROVE  newR + newP <= StartLimit + Cardinality(Workers) - 1
  <2>1. PICK r \in Requests : job' = [job EXCEPT ![w] = Begun(FirstStep(r), r, clock)]
    BY <1>5 DEF Arrive
  <2>2. /\ \A v \in Workers \ {w} : job'[v] = job[v]
        /\ job'[w].pc = FirstStep(r) /\ job'[w].req = r
    BY <2>1 DEF Inv, JobsOK, Begun
  <2>3. ~Passed(job'[w])
    BY <2>2 DEF Passed, FirstStep, Requests, RequestRows
  <2> QED BY <1>3, <1>4, <1>5, <2>2, <2>3 DEF Arrive, Rows
<1>6. ASSUME NEW w \in Workers, Reply(w)
      PROVE  newR + newP <= StartLimit + Cardinality(Workers) - 1
  <2>1. job'[w] = Idle /\ \A v \in Workers \ {w} : job'[v] = job[v]
    BY <1>6 DEF Reply, Inv, JobsOK
  <2>2. ~Passed(job'[w])
    BY <2>1 DEF Passed, Idle, Begun
  <2> QED BY <1>3, <1>4, <1>6, <2>1, <2>2 DEF Reply, Rows
<1>7. CASE UNCHANGED <<session, job>>
  BY <1>3, <1>4, <1>7
<1> QED BY <1>2, <1>5, <1>6, <1>7 DEF Next, SetLeadStatus, Tick, Rest, Rows, vars

(* Parallel starts may pass SESSION_START_LIMIT, which no lock protects, but *)
(* in no window of SESSION_LIMIT_WINDOW_MS by more than the requests under   *)
(* way besides one; a visitor who starts one after the other keeps to it.    *)
THEOREM StartsOvershootIsBounded ==
    ASSUME IsFiniteSet(Sessions), IsFiniteSet(Workers)
    PROVE  Spec => []StartsAreBounded
<1>1. ASSUME Init PROVE StartsInv
  <2>1. \A t \in Nat : Recent(t) = {} /\ Pending(t) = {}
    BY <1>1 DEF Init, Recent, Pending, Passed, Idle, Begun
  <2>2. Cardinality(Workers) \in Nat /\ StartLimit \in Nat \ {0} /\ Cardinality({}) = 0
    BY FS_CardinalityType, FS_EmptySet, GameAssumption
  <2>3. ASSUME NEW t \in Nat
        PROVE  Cardinality(Recent(t)) = 0 /\ Cardinality(Pending(t)) = 0
    <3>1. Recent(t) = {} /\ Pending(t) = {}
      BY <2>1
    <3> QED BY <2>2, <3>1, Zenon
  <2>4. 0 + 0 <= StartLimit + Cardinality(Workers) - 1
    BY <2>2
  <2> QED BY <2>3, <2>4 DEF StartsInv
<1>2. Inv /\ WindowsOK /\ StartsInv /\ [Next]_vars => StartsInv'
  BY StartsStep
<1>3. ASSUME StartsInv PROVE StartsAreBounded
  <2>1. \A t \in Nat : /\ Cardinality(Recent(t)) \in Nat /\ Cardinality(Pending(t)) \in Nat
                      /\ Cardinality(Workers) \in Nat /\ StartLimit \in Nat
    BY CountedStarts, GameAssumption
  <2> QED BY <1>3, <2>1 DEF StartsInv, StartsAreBounded
<1> QED BY <1>1, <1>2, <1>3, WindowsInvariance, PTL DEF Spec

-------------------------------------------------------------------------------
(* How many steps of its own a request may still take before its answer.  A  *)
(* restart looks for an open lead first, a start last.                       *)
Left(j) ==
    CASE j.pc = "open" -> IF j.req.kind = "start" THEN 2 ELSE 8
      [] j.pc = "look" -> 7
      [] j.pc = "expire" -> 6
      [] j.pc \in {"loaded", "find"} -> 5
      [] j.pc \in {"count", "validate"} -> 4
      [] j.pc \in {"recheck", "duplicate", "regrant"} -> 3
      [] j.pc \in {"replace", "check", "grant"} -> 2
      [] j.pc \in {"create", "submit"} -> 1
      [] OTHER -> 0

(* One request arrives, comes nearer to its answer or is answered, and the   *)
(* others stay where they are.                                               *)
RequestsDescend ==
    [][\/ UNCHANGED job
       \/ \E w \in Workers :
            /\ job[w].pc \in {"idle", "answered"} \/ Left(job'[w]) < Left(job[w])
            /\ \A v \in Workers \ {w} : job'[v] = job[v]]_vars

LEMMA LeftAt ==
    ASSUME NEW j
    PROVE  /\ j.pc = "open" => Left(j) = IF j.req.kind = "start" THEN 2 ELSE 8
           /\ j.pc = "look" => Left(j) = 7
           /\ j.pc = "expire" => Left(j) = 6
           /\ j.pc \in {"loaded", "find"} => Left(j) = 5
           /\ j.pc \in {"count", "validate"} => Left(j) = 4
           /\ j.pc \in {"recheck", "duplicate", "regrant"} => Left(j) = 3
           /\ j.pc \in {"replace", "check", "grant"} => Left(j) = 2
           /\ j.pc \in {"create", "submit"} => Left(j) = 1
           /\ j.pc = "answered" => Left(j) = 0
BY DEF Left

LEMMA StepDescends ==
    ASSUME Inv, NEW w \in Workers, Step(w)
    PROVE  Left(job'[w]) < Left(job[w])
<1>0. job \in [Workers -> Jobs] /\ job'[w].req = job[w].req
  BY StepJob DEF Inv, JobsOK
<1>1. ASSUME NEW pc, Goes(w, pc) PROVE job'[w].pc = pc
  BY <1>0, <1>1 DEF Goes, Jobs
<1>2. ASSUME NEW kind, NEW what, Answers(w, kind, what) PROVE job'[w].pc = "answered"
  BY <1>0, <1>2 DEF Answers, Jobs
<1>3. Refuses(w) => job'[w].pc = "answered"
  BY <1>2 DEF Refuses
<1>4. CASE Look(w)
  <2>1. job[w].pc = "look" /\ job'[w].pc \in {"expire", "loaded"}
    BY <1>0, <1>4 DEF Look, Jobs
  <2>2. Left(job[w]) = 7 /\ Left(job'[w]) \in {6, 5}
    BY <2>1, LeftAt
  <2> QED BY <2>2
<1>5. CASE ExpireOverdue(w)
  <2>1. job[w].pc = "expire" /\ job'[w].pc = "loaded"
    BY <1>1, <1>5 DEF ExpireOverdue
  <2>2. Left(job[w]) = 6 /\ Left(job'[w]) = 5
    BY <2>1, LeftAt
  <2> QED BY <2>2
<1>6. CASE StartReuse(w) \/ RestartCheck(w) \/ CompleteDecide(w) \/ Result(w) \/ BookFind(w)
  <2>1. /\ job[w].pc \in {"loaded", "find"}
        /\ job'[w].pc \in {"answered", "count", "regrant", "validate"}
    BY <1>1, <1>2, <1>3, <1>6
       DEF StartReuse, RestartCheck, CompleteDecide, Result, BookFind, Replays
  <2>2. Left(job[w]) = 5 /\ Left(job'[w]) \in {0, 3, 4}
    BY <2>1, LeftAt
  <2> QED BY <2>2
<1>7. CASE CountRecent(w) \/ BookValidate(w)
  <2>1. /\ job[w].pc \in {"count", "validate"}
        /\ \/ job'[w].pc \in {"answered", "recheck", "duplicate"}
           \/ job'[w].pc = "open" /\ job'[w].req.kind = "start"
    BY <1>0, <1>1, <1>3, <1>7 DEF CountRecent, BookValidate
  <2>2. Left(job[w]) = 4 /\ Left(job'[w]) \in {0, 2, 3}
    BY <2>1, LeftAt
  <2> QED BY <2>2
<1>8. CASE OpenLeadCheck(w)
  <2>1. /\ job[w].pc = "open"
        /\ \/ job'[w].pc = "answered"
           \/ job'[w].pc = "create" /\ job[w].req.kind = "start"
           \/ job'[w].pc = "look" /\ job[w].req.kind # "start"
    BY <1>1, <1>3, <1>8 DEF OpenLeadCheck
  <2>2. \/ Left(job[w]) \in {2, 8} /\ Left(job'[w]) \in {0, 1}
        \/ Left(job[w]) = 8 /\ Left(job'[w]) = 7
    BY <2>1, LeftAt
  <2> QED BY <2>2
<1>9. CASE RestartRecheck(w) \/ CompleteRecheck(w) \/ BookDuplicate(w)
  <2>1. /\ job[w].pc \in {"recheck", "regrant", "duplicate"}
        /\ job'[w].pc \in {"answered", "replace", "grant", "check"}
    <3>1. CASE RestartRecheck(w)
      BY <1>0, <1>3, <3>1 DEF RestartRecheck, Jobs
    <3>2. CASE CompleteRecheck(w) \/ BookDuplicate(w)
      BY <1>1, <1>2, <1>3, <3>2 DEF CompleteRecheck, BookDuplicate
    <3> QED BY <1>9, <3>1, <3>2
  <2>2. Left(job[w]) = 3 /\ Left(job'[w]) \in {0, 2}
    BY <2>1, LeftAt
  <2> QED BY <2>2
<1>10. CASE RestartReplace(w) \/ CompleteGrant(w) \/ BookCheck(w)
  <2>1. /\ job[w].pc \in {"replace", "grant", "check"}
        /\ job'[w].pc \in {"answered", "submit"}
    BY <1>1, <1>2, <1>3, <1>10 DEF RestartReplace, CompleteGrant, BookCheck
  <2>2. Left(job[w]) = 2 /\ Left(job'[w]) \in {0, 1}
    BY <2>1, LeftAt
  <2> QED BY <2>2
<1>11. CASE StartCreate(w) \/ BookSubmit(w)
  <2>1. job[w].pc \in {"create", "submit"} /\ job'[w].pc = "answered"
    BY <1>2, <1>3, <1>11 DEF StartCreate, BookSubmit, Replays
  <2>2. Left(job[w]) = 1 /\ Left(job'[w]) = 0
    BY <2>1, LeftAt
  <2> QED BY <2>2
<1> QED
  BY <1>4, <1>5, <1>6, <1>7, <1>8, <1>9, <1>10, <1>11 DEF Step

(* No handler goes back or begins again: whatever the others do to its rows, *)
(* a request is answered after at most eight statements of its own.          *)
THEOREM EveryStepIsProgress == Spec => RequestsDescend
<1>1. ASSUME Inv, [Next]_vars
      PROVE  \/ UNCHANGED job
             \/ \E w \in Workers :
                  /\ job[w].pc \in {"idle", "answered"} \/ Left(job'[w]) < Left(job[w])
                  /\ \A v \in Workers \ {w} : job'[v] = job[v]
  <2>1. ASSUME NEW w \in Workers, Step(w)
        PROVE  Left(job'[w]) < Left(job[w]) /\ \A v \in Workers \ {w} : job'[v] = job[v]
    BY <1>1, <2>1, StepDescends, StepJob
  <2>2. ASSUME NEW w \in Workers, Arrive(w) \/ Reply(w)
        PROVE  job[w].pc \in {"idle", "answered"} /\ \A v \in Workers \ {w} : job'[v] = job[v]
    BY <1>1, <2>2 DEF Arrive, Reply, Inv, JobsOK
  <2> QED BY <1>1, <2>1, <2>2 DEF Next, SetLeadStatus, Tick, Rest, vars
<1>2. Inv /\ [Next]_vars =>
        [\/ UNCHANGED job
         \/ \E w \in Workers :
              /\ job[w].pc \in {"idle", "answered"} \/ Left(job'[w]) < Left(job[w])
              /\ \A v \in Workers \ {w} : job'[v] = job[v]]_vars
  BY <1>1
<1> QED BY <1>2, Invariance, PTL DEF Spec, RequestsDescend
===============================================================================
