----------------------------- MODULE WheelProofs ------------------------------
(***************************************************************************)
(* What holds of the wheel for any number of sessions, phones, keys and    *)
(* concurrent requests, and that it implements GiftClaim; that a phone has *)
(* one open lead; and that every request comes nearer its answer.          *)
(***************************************************************************)
EXTENDS Wheel, TLAPS

(* Sessions and leads name each other, and agree on the phone.               *)
RowsOK ==
    /\ \A s \in Sessions : session[s].status = "CONSUMED" <=> session[s].lead # None
    /\ \A s \in Sessions, k \in Keys : session[s].lead = k <=> lead[k].of = s
    /\ \A s \in Sessions, k \in Keys : lead[k].of = s => lead[k].phone = session[s].phone
    /\ \A k \in Keys : lead[k].status = "absent" <=> lead[k].of = None

(* token_hash is unique. *)
OneSpinPerAttempt ==
    \A s, t \in Opened :
        session[s].phone = session[t].phone /\ session[s].attempt = session[t].attempt => s = t

AtRegistration == {"register", "look", "create"}
PhoneHolds == {"look", "create"}
RowHolds == {"find", "check", "submit"}

(* A lock has one holder. *)
LocksOK ==
    \A v, w \in Workers :
        /\ job[v].pc \in PhoneHolds /\ job[w].pc \in PhoneHolds /\ job[v].phone = job[w].phone => v = w
        /\ job[v].pc \in RowHolds /\ job[w].pc \in RowHolds /\ job[v].s = job[w].s => v = w

(* What a request has established: a registration that the cooldown is over, *)
(* a completion that its session may be played, an answer what it says.      *)
RegistrationFits(j) ==
    /\ j.pc \in AtRegistration => j.phone \in Phones /\ j.browser \in Browsers /\ j.attempt \in Attempts
    /\ j.pc \in {"register", "look"} =>
        j.had = None \/ j.had \in SameAttempt(j.phone, j.browser, j.attempt)
    /\ j.pc = "create" =>
        /\ j.had = None
        /\ \A s \in OfPhone(j.phone) : session[s].since + Cooldown \leq j.now

CompletionFits(j) ==
    /\ j.pc \in RowHolds \cup {"complete"} =>
        j.s \in Opened /\ j.k \in Keys /\ j.phone = session[j.s].phone /\ j.had = None
    /\ j.pc \in RowHolds => session[j.s].status = "ACTIVE"

AnswerFits(j) ==
    j.pc = "answered" =>
        /\ j.had # None => (j.answer = "session" /\ j.what = j.had) \/ j.answer = "error"
        /\ j.answer = "lead" =>
            /\ j.what \in Keys /\ j.s \in Opened
            /\ session[j.s].lead = j.what
            /\ lead[j.what].of = j.s /\ lead[j.what].phone = j.phone

Fits(j) == RegistrationFits(j) /\ CompletionFits(j) /\ AnswerFits(j)
JobsOK == \A w \in Workers : Fits(job[w])

Inv == TypeOK /\ RowsOK /\ CooldownHolds /\ OneSpinPerAttempt /\ LocksOK /\ JobsOK

Claimed == [s \in Sessions |-> {k \in Keys : lead[k].of = s}]

-------------------------------------------------------------------------------
(* Requests move on *)

LEMMA IdleFits == Idle \in Jobs /\ Fits(Idle)
BY WheelAssumption DEF Idle, Jobs, Steps, Fits, RegistrationFits, CompletionFits, AnswerFits,
   Answered, AtRegistration, RowHolds

(* One request moves on, and the others do not.                              *)
Moves(w) ==
    /\ job' \in [Workers -> Jobs]
    /\ \A v \in Workers \ {w} : job'[v] = job[v]
    /\ clock' \in 0 .. MaxTime /\ begun' \in 0 .. MaxRequests

(* It must fit, and hold no lock that another one holds.                     *)
LockFree(w) ==
    \A v \in Workers \ {w} :
        /\ job[v].pc \in PhoneHolds /\ job'[w].pc \in PhoneHolds => job[v].phone # job'[w].phone
        /\ job[v].pc \in RowHolds /\ job'[w].pc \in RowHolds => job[v].s # job'[w].s

LEMMA JobMoves ==
    ASSUME Inv, NEW w \in Workers, Moves(w), UNCHANGED Rows, Fits(job'[w]), LockFree(w)
    PROVE  Inv'
<1>1. TypeOK'
  BY DEF Inv, TypeOK, Rows, Moves
<1>2. RowsOK' /\ CooldownHolds' /\ OneSpinPerAttempt'
  BY DEF Inv, Rows, RowsOK, CooldownHolds, OneSpinPerAttempt, Opened
<1>3. LocksOK'
  BY DEF Inv, LocksOK, LockFree, Moves
<1>4. ASSUME NEW v \in Workers PROVE Fits(job[v])'
  <2>1. Fits(job'[v])
    BY DEF Inv, JobsOK, Moves
  <2> QED BY <2>1 DEF Rows, Fits, RegistrationFits, CompletionFits, AnswerFits, OfPhone,
                      SameAttempt, Opened
<1> QED BY <1>1, <1>2, <1>3, <1>4 DEF Inv, JobsOK

LEMMA Going ==
    ASSUME TypeOK, NEW w \in Workers, NEW pc \in Steps, Goes(w, pc), UNCHANGED <<clock, begun>>
    PROVE  /\ Moves(w)
           /\ job'[w].pc = pc
           /\ job'[w].now = job[w].now /\ job'[w].phone = job[w].phone
           /\ job'[w].browser = job[w].browser /\ job'[w].attempt = job[w].attempt
           /\ job'[w].s = job[w].s /\ job'[w].k = job[w].k /\ job'[w].had = job[w].had
BY DEF TypeOK, Goes, Moves, Jobs

LEMMA Answering ==
    ASSUME TypeOK, NEW w \in Workers,
           NEW answer \in Answered,
           NEW what \in Sessions \cup Keys \cup {None},
           Answers(w, answer, what), UNCHANGED <<clock, begun>>
    PROVE  /\ Moves(w)
           /\ job'[w].pc = "answered" /\ job'[w].answer = answer /\ job'[w].what = what
           /\ job'[w].s = job[w].s /\ job'[w].phone = job[w].phone /\ job'[w].had = job[w].had
<1>1. job' \in [Workers -> Jobs]
  <2>1. ASSUME NEW r \in Jobs PROVE [r EXCEPT !.pc = "answered"] \in Jobs
    BY DEF Jobs, Steps
  <2>2. ASSUME NEW r \in Jobs PROVE [r EXCEPT !.answer = answer] \in Jobs
    BY DEF Jobs
  <2>3. ASSUME NEW r \in Jobs PROVE [r EXCEPT !.what = what] \in Jobs
    BY DEF Jobs
  <2>4. [job[w] EXCEPT !.pc = "answered", !.answer = answer, !.what = what] \in Jobs
    BY <2>1, <2>2, <2>3 DEF TypeOK
  <2> QED BY <2>4 DEF TypeOK, Answers
<1>2. Moves(w)
  BY <1>1 DEF TypeOK, Answers, Moves
<1>3. job'[w].pc = "answered" /\ job'[w].answer = answer /\ job'[w].what = what
  BY DEF TypeOK, Answers, Jobs
<1>4. job'[w].s = job[w].s /\ job'[w].phone = job[w].phone /\ job'[w].had = job[w].had
  BY DEF TypeOK, Answers, Jobs
<1> QED BY <1>2, <1>3, <1>4

(* An answer holds no lock, and fits when it tells the truth.                *)
LEMMA AnswerStays ==
    ASSUME Inv, NEW w \in Workers, Moves(w), UNCHANGED Rows,
           job'[w].pc = "answered", AnswerFits(job'[w])
    PROVE  Inv'
<1>1. Fits(job'[w])
  BY DEF Fits, RegistrationFits, CompletionFits, AnswerFits, AtRegistration, RowHolds
<1>2. LockFree(w)
  BY DEF LockFree, PhoneHolds, RowHolds
<1> QED BY <1>1, <1>2, JobMoves

-------------------------------------------------------------------------------
(* Registration *)

LEMMA RegisterStep ==
    ASSUME Inv, NEW w \in Workers, NEW p \in Phones, NEW b \in Browsers, NEW a \in Attempts,
           Register(w, p, b, a)
    PROVE  Inv' /\ UNCHANGED Rows
<1>1. PICK had \in IF SameAttempt(p, b, a) = {} THEN {None} ELSE SameAttempt(p, b, a) :
        Begins(w, [Idle EXCEPT !.pc = "register", !.now = clock, !.phone = p, !.browser = b,
                               !.attempt = a, !.had = had])
  BY DEF Register
<1>2. had = None \/ had \in SameAttempt(p, b, a)
  OBVIOUS
<1>3. had \in Sessions \cup {None}
  BY <1>2 DEF SameAttempt, OfPhone, Opened
<1> DEFINE j == [Idle EXCEPT !.pc = "register", !.now = clock, !.phone = p, !.browser = b,
                             !.attempt = a, !.had = had]
<1>4. clock \in Nat
  BY WheelAssumption DEF Inv, TypeOK
<1>5. j \in Jobs
  <2>1. ASSUME NEW r \in Jobs PROVE [r EXCEPT !.pc = "register"] \in Jobs
    BY DEF Jobs, Steps
  <2>2. ASSUME NEW r \in Jobs PROVE [r EXCEPT !.now = clock] \in Jobs
    BY <1>4 DEF Jobs
  <2>3. ASSUME NEW r \in Jobs PROVE [r EXCEPT !.phone = p] \in Jobs
    BY DEF Jobs
  <2>4. ASSUME NEW r \in Jobs PROVE [r EXCEPT !.browser = b] \in Jobs
    BY DEF Jobs
  <2>5. ASSUME NEW r \in Jobs PROVE [r EXCEPT !.attempt = a] \in Jobs
    BY DEF Jobs
  <2>6. ASSUME NEW r \in Jobs PROVE [r EXCEPT !.had = had] \in Jobs
    BY <1>3 DEF Jobs
  <2> QED BY <2>1, <2>2, <2>3, <2>4, <2>5, <2>6, IdleFits
<1>6. j.pc = "register" /\ j.phone = p /\ j.browser = b /\ j.attempt = a /\ j.had = had
  BY IdleFits DEF Jobs
<1>7. job' = [job EXCEPT ![w] = j] /\ UNCHANGED <<clock, Rows>>
      /\ begun < MaxRequests /\ begun' = begun + 1
  BY <1>1 DEF Begins
<1> HIDE DEF j
<1>9. job'[w] = j /\ Moves(w)
  BY <1>5, <1>7, WheelAssumption DEF Inv, TypeOK, Moves
<1>10. Fits(job'[w])
  BY <1>2, <1>6, <1>9 DEF Fits, RegistrationFits, CompletionFits, AnswerFits, RowHolds
<1>11. LockFree(w)
  BY <1>6, <1>9 DEF LockFree, PhoneHolds, RowHolds
<1> QED BY <1>7, <1>9, <1>10, <1>11, JobMoves

LEMMA RegisterLocksStep ==
    ASSUME Inv, NEW w \in Workers, RegisterLocks(w)
    PROVE  Inv' /\ UNCHANGED Rows
<1>1. job[w].pc = "register" /\ ~PhoneLocked(job[w].phone) /\ Goes(w, "look")
      /\ UNCHANGED <<clock, Rows, begun>>
  BY DEF RegisterLocks
<1>2. Moves(w) /\ job'[w].pc = "look" /\ job'[w].phone = job[w].phone
      /\ job'[w].browser = job[w].browser /\ job'[w].attempt = job[w].attempt
      /\ job'[w].had = job[w].had
  BY <1>1, Going DEF Inv, Steps
<1>3. Fits(job'[w])
  BY <1>1, <1>2 DEF Inv, JobsOK, Fits, RegistrationFits, CompletionFits, AnswerFits,
     AtRegistration, RowHolds
<1>4. LockFree(w)
  BY <1>1, <1>2 DEF LockFree, PhoneLocked, PhoneHolds, RowHolds
<1> QED BY <1>1, <1>2, <1>3, <1>4, JobMoves

LEMMA RegisterLooksStep ==
    ASSUME Inv, NEW w \in Workers, RegisterLooks(w)
    PROVE  Inv' /\ UNCHANGED Rows
<1> DEFINE same == SameAttempt(job[w].phone, job[w].browser, job[w].attempt)
<1>1. job[w].pc = "look" /\ UNCHANGED <<clock, Rows, begun>>
  BY DEF RegisterLooks
<1>2. RegistrationFits(job[w]) /\ job[w] \in Jobs
  BY DEF Inv, JobsOK, Fits, TypeOK
<1>3. job[w].had = None \/ job[w].had \in same
  BY <1>1, <1>2 DEF RegistrationFits
<1>4. ASSUME NEW s \in same, Answers(w, "session", s) PROVE Inv'
  <2>1. s \in Sessions
    BY DEF SameAttempt, OfPhone, Opened
  <2>2. Moves(w) /\ job'[w].pc = "answered" /\ job'[w].answer = "session" /\ job'[w].what = s
        /\ job'[w].had = job[w].had
    BY <1>1, <1>4, <2>1, Answering DEF Inv, Answered
  <2>3. job[w].had # None => job[w].had = s
    BY <1>3 DEF Inv, OneSpinPerAttempt, SameAttempt, OfPhone, Opened
  <2>4. AnswerFits(job'[w])
    BY <2>2, <2>3 DEF AnswerFits
  <2> QED BY <1>1, <2>2, <2>4, AnswerStays
<1>5. ASSUME same = {}, Answers(w, "cooldown", None) PROVE Inv'
  <2>1. Moves(w) /\ job'[w].pc = "answered" /\ job'[w].answer = "cooldown"
        /\ job'[w].had = job[w].had
    BY <1>1, <1>5, Answering DEF Inv, Answered
  <2>2. job[w].had = None
    BY <1>3, <1>5
  <2>3. AnswerFits(job'[w])
    BY <2>1, <2>2 DEF AnswerFits
  <2> QED BY <1>1, <2>1, <2>3, AnswerStays
<1>6. ASSUME same = {}, Goes(w, "create"),
             ~ \E s \in OfPhone(job[w].phone) : job[w].now < session[s].since + Cooldown
      PROVE  Inv'
  <2>1. Moves(w) /\ job'[w].pc = "create" /\ job'[w].phone = job[w].phone
        /\ job'[w].now = job[w].now
        /\ job'[w].browser = job[w].browser /\ job'[w].attempt = job[w].attempt
        /\ job'[w].had = job[w].had
    BY <1>1, <1>6, Going DEF Inv, Steps
  <2>2. \A s \in OfPhone(job[w].phone) : session[s].since + Cooldown \leq job[w].now
    <3> TAKE s \in OfPhone(job[w].phone)
    <3>1. session[s].since \in Nat /\ job[w].now \in Nat /\ Cooldown \in Nat
      BY <1>2, WheelAssumption DEF Inv, TypeOK, OfPhone, Opened, SessionRows, Jobs
    <3> QED BY <1>6, <3>1
  <2>3. job[w].had = None
    BY <1>3, <1>6
  <2>4. Fits(job'[w])
    BY <1>1, <1>2, <2>1, <2>2, <2>3 DEF Fits, RegistrationFits, CompletionFits, AnswerFits,
       AtRegistration, RowHolds
  <2>5. LockFree(w)
    BY <1>1, <2>1 DEF Inv, LocksOK, LockFree, PhoneHolds, RowHolds
  <2> QED BY <1>1, <2>1, <2>4, <2>5, JobMoves
<1>7. Inv'
  BY <1>4, <1>5, <1>6 DEF RegisterLooks
<1> QED BY <1>1, <1>7

(* The attempt is new, the cooldown of the phone's sessions is over, and no  *)
(* other request creates for this phone: one session more keeps everything.  *)
Creates(w, n) ==
    session' = [session EXCEPT ![n] =
        [status |-> "ACTIVE", phone |-> job[w].phone, browser |-> job[w].browser,
         attempt |-> job[w].attempt, since |-> job[w].now, lead |-> None]]

LEMMA CreateKeeps ==
    ASSUME Inv, NEW w \in Workers, job[w].pc = "create", NEW n \in Sessions \ Opened,
           ~ \E s \in OfPhone(job[w].phone) : session[s].attempt = job[w].attempt,
           Creates(w, n), Answers(w, "session", n), UNCHANGED <<clock, lead, begun>>
    PROVE  Inv' /\ session[n].status = "absent" /\ session'[n].status = "ACTIVE"
           /\ \A s \in Sessions \ {n} : session'[s] = session[s]
<1> DEFINE row == [status |-> "ACTIVE", phone |-> job[w].phone, browser |-> job[w].browser,
                   attempt |-> job[w].attempt, since |-> job[w].now, lead |-> None]
<1>1. job[w] \in Jobs /\ job[w].had = None /\ job[w].phone \in Phones
      /\ job[w].browser \in Browsers /\ job[w].attempt \in Attempts /\ job[w].now \in Nat
      /\ \A s \in OfPhone(job[w].phone) : session[s].since + Cooldown \leq job[w].now
  <2>1. job[w] \in Jobs /\ RegistrationFits(job[w])
    BY DEF Inv, TypeOK, JobsOK, Fits
  <2>2. job[w].now \in Nat
    BY <2>1 DEF Jobs
  <2> QED BY <2>1, <2>2 DEF RegistrationFits, AtRegistration
<1>2. row \in SessionRows
  BY <1>1 DEF SessionRows, Statuses
<1>3. session' = [session EXCEPT ![n] = row]
  BY DEF Creates
<1>4. row.status = "ACTIVE" /\ row.phone = job[w].phone /\ row.attempt = job[w].attempt
      /\ row.since = job[w].now /\ row.lead = None
  OBVIOUS
<1> HIDE DEF row
<1>5. session' \in [Sessions -> SessionRows] /\ session'[n] = row
      /\ \A s \in Sessions \ {n} : session'[s] = session[s]
  BY <1>2, <1>3 DEF Inv, TypeOK
<1>6. n \in Sessions /\ session[n].status = "absent"
  BY DEF Opened
<1>7. Opened' = Opened \cup {n}
  BY <1>4, <1>5, <1>6 DEF Opened
<1>8. Moves(w) /\ job'[w].pc = "answered" /\ job'[w].answer = "session"
      /\ job'[w].had = job[w].had
  BY Answering DEF Inv, Answered
<1>9. TypeOK'
  BY <1>5, <1>8 DEF Inv, TypeOK, Moves
<1>10. RowsOK'
  <2>1. session[n].lead = None
    BY <1>6, WheelAssumption DEF Inv, RowsOK, TypeOK, SessionRows
  <2>2. \A k \in Keys : lead[k].of # n
    BY <2>1, <1>6, WheelAssumption DEF Inv, RowsOK
  <2> QED BY <1>4, <1>5, <1>6, <2>1, <2>2, WheelAssumption DEF Inv, RowsOK
<1>11. CooldownHolds'
  <2>1. \A s \in Opened : session'[s] = session[s] /\ s # n
    BY <1>5 DEF Opened
  <2>2. \A s \in Opened : session[s].phone = row.phone
                            => row.since \geq session[s].since + Cooldown
    <3> TAKE s \in Opened
    <3>1. session[s].since \in Nat /\ Cooldown \in Nat
      BY WheelAssumption DEF Inv, TypeOK, SessionRows, Opened
    <3> QED BY <1>1, <1>4, <3>1 DEF OfPhone
  <2> QED BY <1>5, <1>7, <2>1, <2>2 DEF Inv, CooldownHolds
<1>12. OneSpinPerAttempt'
  <2>1. \A s \in Opened : session'[s] = session[s] /\ s # n
    BY <1>5 DEF Opened
  <2>2. \A s \in Opened : session[s].phone = row.phone => session[s].attempt # row.attempt
    BY <1>4 DEF OfPhone
  <2> QED BY <1>5, <1>7, <2>1, <2>2 DEF Inv, OneSpinPerAttempt
<1>13. LocksOK'
  BY <1>8 DEF Inv, LocksOK, Moves, PhoneHolds, RowHolds
<1>14. ASSUME NEW v \in Workers \ {w} PROVE Fits(job[v])'
  <2>1. job'[v] = job[v] /\ Fits(job[v])
    BY <1>8 DEF Inv, JobsOK, Moves
  <2>2. \A s \in Opened : session'[s] = session[s] /\ s # n
    BY <1>5 DEF Opened
  <2>3. CompletionFits(job[v])' /\ AnswerFits(job[v])'
    BY <2>1, <2>2, <1>7 DEF Fits, CompletionFits, AnswerFits, RowHolds
  <2>4. job[v].pc = "create" => job[v].phone # job[w].phone
    BY DEF Inv, LocksOK, PhoneHolds
  <2>5. job[v].pc = "create" => OfPhone(job[v].phone)' = OfPhone(job[v].phone)
    BY <1>4, <1>5, <1>7, <2>1, <2>2, <2>4 DEF OfPhone
  <2>6. ASSUME job[v].had \in SameAttempt(job[v].phone, job[v].browser, job[v].attempt)
        PROVE  job'[v].had \in SameAttempt(job[v].phone, job[v].browser, job[v].attempt)'
    BY <1>7, <2>1, <2>2, <2>6 DEF SameAttempt, OfPhone
  <2>7. RegistrationFits(job[v])'
    <3>1. job'[v].pc \in AtRegistration => job'[v].phone \in Phones /\ job'[v].browser \in Browsers
                                           /\ job'[v].attempt \in Attempts
      BY <2>1 DEF Fits, RegistrationFits
    <3>2. ASSUME job'[v].pc = "create"
          PROVE  job'[v].had = None
                 /\ \A s \in OfPhone(job[v].phone)' : session'[s].since + Cooldown \leq job'[v].now
      BY <2>1, <2>2, <2>5, <3>2 DEF Fits, RegistrationFits, OfPhone
    <3> QED BY <2>1, <2>6, <3>1, <3>2 DEF Fits, RegistrationFits, AtRegistration
  <2> QED BY <2>3, <2>7 DEF Fits
<1>15. Fits(job[w])'
  BY <1>1, <1>8 DEF Fits, RegistrationFits, CompletionFits, AnswerFits, AtRegistration, RowHolds
<1> QED BY <1>4, <1>5, <1>6, <1>9, <1>10, <1>11, <1>12, <1>13, <1>14, <1>15 DEF Inv, JobsOK

LEMMA RegisterCreatesStep ==
    ASSUME Inv, NEW w \in Workers, RegisterCreates(w)
    PROVE  /\ Inv'
           /\ \/ UNCHANGED Rows
              \/ /\ UNCHANGED lead
                 /\ \E n \in Sessions : session[n].status = "absent" /\ session'[n].status = "ACTIVE"
                                        /\ \A s \in Sessions \ {n} : session'[s] = session[s]
<1>1. job[w].pc = "create" /\ UNCHANGED <<clock, lead, begun>>
  BY DEF RegisterCreates
<1>2. CASE \E s \in OfPhone(job[w].phone) : session[s].attempt = job[w].attempt
  <2>1. UNCHANGED Rows /\ Answers(w, "error", None)
    BY <1>1, <1>2 DEF RegisterCreates, Rows
  <2>2. Moves(w) /\ job'[w].pc = "answered" /\ job'[w].answer = "error"
    BY <1>1, <2>1, Answering DEF Inv, Answered
  <2>3. AnswerFits(job'[w])
    BY <2>2 DEF AnswerFits
  <2> QED BY <2>1, <2>2, <2>3, AnswerStays
<1>3. CASE ~ \E s \in OfPhone(job[w].phone) : session[s].attempt = job[w].attempt
  <2>1. PICK n \in Sessions \ Opened : Creates(w, n) /\ Answers(w, "session", n)
    BY <1>3 DEF RegisterCreates, Creates
  <2> QED BY <1>1, <1>3, <2>1, CreateKeeps
<1> QED BY <1>2, <1>3

-------------------------------------------------------------------------------
(* Completion *)

LEMMA CompleteStep ==
    ASSUME Inv, NEW w \in Workers, NEW s \in Sessions, NEW k \in Keys, Complete(w, s, k)
    PROVE  Inv' /\ UNCHANGED Rows
<1> DEFINE j == [Idle EXCEPT !.pc = "complete", !.now = clock, !.s = s, !.k = k,
                             !.phone = session[s].phone, !.browser = session[s].browser]
<1>1. s \in Opened /\ Begins(w, j)
  BY DEF Complete
<1>2. clock \in Nat /\ session[s].phone \in Phones \cup {None}
      /\ session[s].browser \in Browsers \cup {None}
  BY WheelAssumption DEF Inv, TypeOK, SessionRows
<1>3. j \in Jobs
  <2>1. ASSUME NEW r \in Jobs PROVE [r EXCEPT !.pc = "complete"] \in Jobs
    BY DEF Jobs, Steps
  <2>2. ASSUME NEW r \in Jobs PROVE [r EXCEPT !.now = clock] \in Jobs
    BY <1>2 DEF Jobs
  <2>3. ASSUME NEW r \in Jobs PROVE [r EXCEPT !.s = s] \in Jobs
    BY DEF Jobs
  <2>4. ASSUME NEW r \in Jobs PROVE [r EXCEPT !.k = k] \in Jobs
    BY DEF Jobs
  <2>5. ASSUME NEW r \in Jobs PROVE [r EXCEPT !.phone = session[s].phone] \in Jobs
    BY <1>2 DEF Jobs
  <2>6. ASSUME NEW r \in Jobs PROVE [r EXCEPT !.browser = session[s].browser] \in Jobs
    BY <1>2 DEF Jobs
  <2> QED BY <2>1, <2>2, <2>3, <2>4, <2>5, <2>6, IdleFits
<1>4. j.pc = "complete" /\ j.s = s /\ j.k = k /\ j.phone = session[s].phone
  BY IdleFits DEF Jobs
<1>5. j.had = None
  BY DEF Idle
<1> HIDE DEF j
<1>6. job' = [job EXCEPT ![w] = j] /\ UNCHANGED <<clock, Rows>>
      /\ begun < MaxRequests /\ begun' = begun + 1
  BY <1>1 DEF Begins
<1>7. job'[w] = j /\ Moves(w)
  BY <1>3, <1>6, WheelAssumption DEF Inv, TypeOK, Moves
<1>8. Fits(job'[w])
  BY <1>1, <1>4, <1>5, <1>7 DEF Fits, RegistrationFits, CompletionFits, AnswerFits,
     AtRegistration, RowHolds
<1>9. LockFree(w)
  BY <1>4, <1>7 DEF LockFree, PhoneHolds, RowHolds
<1> QED BY <1>6, <1>7, <1>8, <1>9, JobMoves

(* A completion goes on, behind the lock of its row.                         *)
LEMMA CompletionGoes ==
    ASSUME Inv, NEW w \in Workers, NEW pc \in RowHolds, Goes(w, pc),
           job[w].pc \in RowHolds \cup {"complete"}, UNCHANGED <<clock, Rows, begun>>,
           job[w].pc = "complete" => ~RowLocked(job[w].s) /\ session[job[w].s].status = "ACTIVE"
    PROVE  Inv'
<1>1. pc \in Steps
  BY DEF RowHolds, Steps
<1>2. Moves(w) /\ job'[w].pc = pc /\ job'[w].phone = job[w].phone /\ job'[w].s = job[w].s
      /\ job'[w].k = job[w].k /\ job'[w].had = job[w].had
  BY <1>1, Going DEF Inv
<1>3. CompletionFits(job[w])
  BY DEF Inv, JobsOK, Fits
<1>4. Fits(job'[w])
  BY <1>2, <1>3 DEF Fits, RegistrationFits, CompletionFits, AnswerFits, AtRegistration, RowHolds
<1>5. LockFree(w)
  BY <1>2 DEF Inv, LocksOK, LockFree, RowLocked, RowHolds, PhoneHolds
<1> QED BY <1>2, <1>4, <1>5, JobMoves

LEMMA RefusalStays ==
    ASSUME Inv, NEW w \in Workers, NEW answer \in {"refused", "error"}, Answers(w, answer, None),
           job[w].pc \in RowHolds \cup {"complete"} \/ answer = "error",
           UNCHANGED <<clock, Rows, begun>>
    PROVE  Inv'
<1>1. Moves(w) /\ job'[w].pc = "answered" /\ job'[w].answer = answer /\ job'[w].had = job[w].had
  BY Answering DEF Inv, Answered
<1>2. job[w].had = None \/ answer = "error"
  BY DEF Inv, JobsOK, Fits, CompletionFits
<1>3. AnswerFits(job'[w])
  BY <1>1, <1>2 DEF AnswerFits
<1> QED BY <1>1, <1>3, AnswerStays

LEMMA CompleteLocksStep ==
    ASSUME Inv, NEW w \in Workers, CompleteLocks(w)
    PROVE  Inv' /\ UNCHANGED Rows
<1>1. job[w].pc = "complete" /\ ~RowLocked(job[w].s) /\ UNCHANGED <<clock, Rows, begun>>
  BY DEF CompleteLocks
<1>2. job[w].s \in Opened /\ job[w].phone = session[job[w].s].phone /\ job[w].had = None
  BY <1>1 DEF Inv, JobsOK, Fits, CompletionFits
<1>3. job[w].s \in Sessions /\ session[job[w].s] \in SessionRows
  BY <1>2 DEF Inv, TypeOK, Opened
<1>4. ASSUME session[job[w].s].status = "CONSUMED", Answers(w, "lead", session[job[w].s].lead)
      PROVE  Inv'
  <2> DEFINE k == session[job[w].s].lead
  <2>1. k \in Keys
    BY <1>3, <1>4 DEF Inv, RowsOK, SessionRows
  <2>2. lead[k].of = job[w].s /\ lead[k].phone = job[w].phone
    BY <1>2, <1>3, <2>1 DEF Inv, RowsOK
  <2>3. Moves(w) /\ job'[w].pc = "answered" /\ job'[w].answer = "lead" /\ job'[w].what = k
        /\ job'[w].s = job[w].s /\ job'[w].phone = job[w].phone /\ job'[w].had = job[w].had
    BY <1>1, <1>4, <2>1, Answering DEF Inv, Answered
  <2>4. AnswerFits(job'[w])
    BY <1>2, <2>1, <2>2, <2>3 DEF AnswerFits
  <2> QED BY <1>1, <2>3, <2>4, AnswerStays
<1>5. ASSUME session[job[w].s].status # "CONSUMED", Goes(w, "find") PROVE Inv'
  <2>1. session[job[w].s].status = "ACTIVE"
    BY <1>2, <1>3, <1>5 DEF SessionRows, Statuses, Opened
  <2> QED BY <1>1, <1>5, <2>1, CompletionGoes DEF RowHolds
<1>6. ASSUME Answers(w, "refused", None) PROVE Inv'
  BY <1>1, <1>6, RefusalStays
<1> QED BY <1>1, <1>4, <1>5, <1>6 DEF CompleteLocks

LEMMA CompleteFindsStep ==
    ASSUME Inv, NEW w \in Workers, CompleteFinds(w)
    PROVE  Inv' /\ UNCHANGED Rows
<1>1. job[w].pc = "find" /\ UNCHANGED <<clock, Rows, begun>>
  BY DEF CompleteFinds
<1>2. ASSUME Goes(w, "check") PROVE Inv'
  BY <1>1, <1>2, CompletionGoes DEF RowHolds
<1>3. ASSUME Answers(w, "refused", None) PROVE Inv'
  BY <1>1, <1>3, RefusalStays DEF RowHolds
<1> QED BY <1>1, <1>2, <1>3 DEF CompleteFinds

LEMMA CompleteChecksStep ==
    ASSUME Inv, NEW w \in Workers, CompleteChecks(w)
    PROVE  Inv' /\ UNCHANGED Rows
<1>1. job[w].pc = "check" /\ UNCHANGED <<clock, Rows, begun>>
  BY DEF CompleteChecks
<1>2. ASSUME Goes(w, "submit") PROVE Inv'
  BY <1>1, <1>2, CompletionGoes DEF RowHolds
<1>3. ASSUME Answers(w, "refused", None) PROVE Inv'
  BY <1>1, <1>3, RefusalStays DEF RowHolds
<1> QED BY <1>1, <1>2, <1>3 DEF CompleteChecks

(* The session under the row lock has no lead yet, the key names none: the   *)
(* two are tied together.                                                    *)
Submits(s, k, p) ==
    /\ lead' = [lead EXCEPT ![k] = [status |-> "NEW", of |-> s, phone |-> p]]
    /\ session' = [session EXCEPT ![s].status = "CONSUMED", ![s].lead = k]

LEMMA SubmitKeeps ==
    ASSUME Inv, NEW w \in Workers, job[w].pc = "submit", lead[job[w].k].status = "absent",
           Submits(job[w].s, job[w].k, job[w].phone), Answers(w, "lead", job[w].k),
           UNCHANGED <<clock, begun>>
    PROVE  /\ Inv'
           /\ job[w].s \in Sessions /\ job[w].k \in Keys
           /\ session[job[w].s].status = "ACTIVE" /\ session'[job[w].s].status = "CONSUMED"
           /\ \A t \in Sessions \ {job[w].s} : session'[t] = session[t]
           /\ lead[job[w].k].of = None /\ lead'[job[w].k].of = job[w].s
           /\ \A x \in Keys \ {job[w].k} : lead'[x] = lead[x]
<1> DEFINE s == job[w].s
<1> DEFINE k == job[w].k
<1> DEFINE p == job[w].phone
<1>1. s \in Opened /\ k \in Keys /\ p = session[s].phone /\ session[s].status = "ACTIVE"
      /\ job[w].had = None
  BY DEF Inv, JobsOK, Fits, CompletionFits, RowHolds
<1>2. s \in Sessions /\ session \in [Sessions -> SessionRows] /\ lead \in [Keys -> LeadRows]
  BY <1>1 DEF Opened, Inv, TypeOK
<1>3. lead' = [lead EXCEPT ![k] = [status |-> "NEW", of |-> s, phone |-> p]]
      /\ session' = [session EXCEPT ![s].status = "CONSUMED", ![s].lead = k]
      /\ Answers(w, "lead", k) /\ lead[k].status = "absent"
  BY DEF Submits
<1>4. p \in Phones \cup {None}
  BY <1>1, <1>2 DEF SessionRows
<1>5. \A v \in Workers : v # w /\ job[v].pc \in RowHolds => job[v].s # s
  BY DEF Inv, LocksOK, RowHolds
<1> HIDE DEF s, k, p
<1>6. session[s].lead = None /\ lead[k].of = None
  BY <1>1, <1>2, <1>3 DEF Inv, RowsOK
<1>7. [status |-> "NEW", of |-> s, phone |-> p] \in LeadRows
  BY <1>2, <1>4 DEF LeadRows, LeadStatuses, OpenStatuses
<1>8. lead' \in [Keys -> LeadRows] /\ lead'[k].status = "NEW" /\ lead'[k].of = s
      /\ lead'[k].phone = p /\ \A x \in Keys \ {k} : lead'[x] = lead[x]
  BY <1>1, <1>2, <1>3, <1>7
<1>9. /\ session' \in [Sessions -> SessionRows]
      /\ session'[s].status = "CONSUMED" /\ session'[s].lead = k
      /\ \A t \in Sessions \ {s} : session'[t] = session[t]
      /\ \A t \in Sessions : session'[t].phone = session[t].phone
                             /\ session'[t].browser = session[t].browser
                             /\ session'[t].attempt = session[t].attempt
                             /\ session'[t].since = session[t].since
  <2>1. ASSUME NEW r \in SessionRows PROVE [r EXCEPT !.status = "CONSUMED"] \in SessionRows
    BY DEF SessionRows, Statuses
  <2>2. ASSUME NEW r \in SessionRows PROVE [r EXCEPT !.lead = k] \in SessionRows
    BY <1>1 DEF SessionRows
  <2>3. session[s] \in SessionRows
    BY <1>2
  <2>4. [session[s] EXCEPT !.status = "CONSUMED", !.lead = k] \in SessionRows
    BY <2>1, <2>2, <2>3
  <2>5. session' = [session EXCEPT ![s] = [session[s] EXCEPT !.status = "CONSUMED", !.lead = k]]
    BY <1>2, <1>3
  <2> DEFINE row == [session[s] EXCEPT !.status = "CONSUMED", !.lead = k]
  <2>6. row.status = "CONSUMED" /\ row.lead = k /\ row.phone = session[s].phone
        /\ row.browser = session[s].browser /\ row.attempt = session[s].attempt
        /\ row.since = session[s].since
    BY <2>3 DEF SessionRows
  <2>7. row \in SessionRows
    BY <2>4
  <2>8. session' = [session EXCEPT ![s] = row]
    BY <2>5
  <2> HIDE DEF row
  <2> QED BY <1>2, <2>6, <2>7, <2>8
<1>10. Opened' = Opened
  BY <1>1, <1>9 DEF Opened
<1>11. \A q, b, a : SameAttempt(q, b, a)' = SameAttempt(q, b, a)
  BY <1>9, <1>10 DEF SameAttempt, OfPhone, Opened
<1>12. Moves(w) /\ job'[w].pc = "answered" /\ job'[w].answer = "lead" /\ job'[w].what = k
       /\ job'[w].s = s /\ job'[w].phone = p /\ job'[w].had = job[w].had
  BY <1>1, <1>3, Answering DEF Inv, Answered, s, p, k
<1>13. TypeOK'
  BY <1>8, <1>9, <1>12 DEF Inv, TypeOK, Moves
<1>14. RowsOK'
  <2>1. \A t \in Sessions : session'[t].status = "CONSUMED" <=> session'[t].lead # None
    BY <1>1, <1>9, WheelAssumption DEF Inv, RowsOK
  <2>2. ASSUME NEW t \in Sessions, NEW x \in Keys
        PROVE  session'[t].lead = x <=> lead'[x].of = t
    <3>1. session[t].lead = x <=> lead[x].of = t
      BY DEF Inv, RowsOK
    <3>2. CASE t = s
      BY <1>6, <1>8, <1>9, <3>1, <3>2, WheelAssumption
    <3>3. CASE t # s
      BY <1>6, <1>8, <1>9, <3>1, <3>3, WheelAssumption
    <3> QED BY <3>2, <3>3
  <2>3. \A t \in Sessions, x \in Keys : lead'[x].of = t => lead'[x].phone = session'[t].phone
    BY <1>1, <1>8, <1>9 DEF Inv, RowsOK
  <2>4. \A x \in Keys : lead'[x].status = "absent" <=> lead'[x].of = None
    BY <1>2, <1>8, WheelAssumption DEF Inv, RowsOK
  <2> QED BY <2>1, <2>2, <2>3, <2>4 DEF RowsOK
<1>15. CooldownHolds' /\ OneSpinPerAttempt'
  BY <1>9, <1>10 DEF Inv, CooldownHolds, OneSpinPerAttempt, Opened
<1>16. LocksOK'
  BY <1>12 DEF Inv, LocksOK, Moves, PhoneHolds, RowHolds
<1>17. ASSUME NEW v \in Workers \ {w} PROVE Fits(job[v])'
  <2>1. job'[v] = job[v] /\ Fits(job[v])
    BY <1>12 DEF Inv, JobsOK, Moves
  <2>2. RegistrationFits(job[v])'
    <3>1. OfPhone(job[v].phone)' = OfPhone(job[v].phone)
      BY <1>9, <1>10, <2>1 DEF OfPhone, Opened
    <3>2. \A t \in OfPhone(job[v].phone) : session'[t].since = session[t].since
      BY <1>9 DEF OfPhone, Opened
    <3>3. SameAttempt(job[v].phone, job[v].browser, job[v].attempt)'
            = SameAttempt(job[v].phone, job[v].browser, job[v].attempt)
      BY <1>9, <2>1, <3>1 DEF SameAttempt, OfPhone, Opened
    <3> QED BY <2>1, <3>1, <3>2, <3>3 DEF Fits, RegistrationFits
  <2>3. CompletionFits(job[v])'
    <3>1. job[v].pc \in RowHolds => job[v].s # s
      BY <1>5
    <3> QED BY <1>9, <1>10, <2>1, <3>1 DEF Fits, CompletionFits, Opened
  <2>4. AnswerFits(job[v])'
    <3>1. ASSUME job[v].pc = "answered", job[v].answer = "lead"
          PROVE  job[v].s # s /\ job[v].what # k /\ job[v].s \in Sessions /\ job[v].what \in Keys
      BY <1>6, <2>1, <3>1, WheelAssumption DEF Fits, AnswerFits, Opened
    <3> QED BY <1>8, <1>9, <1>10, <2>1, <3>1 DEF Fits, AnswerFits
  <2> QED BY <2>2, <2>3, <2>4 DEF Fits
<1>18. Fits(job[w])'
  BY <1>1, <1>8, <1>9, <1>10, <1>12 DEF Fits, RegistrationFits, CompletionFits, AnswerFits,
     AtRegistration, RowHolds
<1>19. Inv'
  BY <1>13, <1>14, <1>15, <1>16, <1>17, <1>18 DEF Inv, JobsOK
<1> QED BY <1>1, <1>2, <1>6, <1>8, <1>9, <1>19 DEF s, k

LEMMA CompleteSubmitsStep ==
    ASSUME Inv, NEW w \in Workers, CompleteSubmits(w)
    PROVE  /\ Inv'
           /\ \/ UNCHANGED Rows
              \/ \E s \in Sessions, k \in Keys :
                    /\ session[s].status = "ACTIVE" /\ session'[s].status = "CONSUMED"
                    /\ \A t \in Sessions \ {s} : session'[t] = session[t]
                    /\ session[s].lead = None /\ lead[k].of = None /\ lead'[k].of = s
                    /\ \A x \in Keys \ {k} : lead'[x] = lead[x]
<1>1. job[w].pc = "submit" /\ UNCHANGED <<clock, begun>>
  BY DEF CompleteSubmits
<1>2. CASE lead[job[w].k].status # "absent" \/ ~IndexAdmits(job[w].k, job[w].phone)
  <2>1. UNCHANGED Rows /\ Answers(w, "error", None)
    BY <1>2 DEF CompleteSubmits
  <2> QED BY <1>1, <2>1, RefusalStays
<1>3. CASE ~(lead[job[w].k].status # "absent" \/ ~IndexAdmits(job[w].k, job[w].phone))
  <2>1. Submits(job[w].s, job[w].k, job[w].phone) /\ Answers(w, "lead", job[w].k)
        /\ lead[job[w].k].status = "absent"
    BY <1>3 DEF CompleteSubmits, Submits
  <2>2. job[w].s \in Sessions /\ session[job[w].s].status = "ACTIVE"
    BY <1>1, <2>1, SubmitKeeps
  <2>3. session[job[w].s].lead = None
    BY <2>2 DEF Inv, RowsOK
  <2> QED BY <1>1, <2>1, <2>3, SubmitKeeps
<1> QED BY <1>2, <1>3

-------------------------------------------------------------------------------
(* The rest *)

LEMMA AbortStep ==
    ASSUME Inv, NEW w \in Workers, Abort(w)
    PROVE  Inv' /\ UNCHANGED Rows
BY RefusalStays DEF Abort

LEMMA ReplyStep ==
    ASSUME Inv, NEW w \in Workers, Reply(w)
    PROVE  Inv' /\ UNCHANGED Rows
<1>1. job' = [job EXCEPT ![w] = Idle] /\ UNCHANGED <<clock, Rows, begun>>
  BY DEF Reply
<1>2. Moves(w) /\ job'[w] = Idle
  BY <1>1, IdleFits DEF Inv, TypeOK, Moves
<1>3. LockFree(w)
  BY <1>2 DEF LockFree, Idle, PhoneHolds, RowHolds
<1> QED BY <1>1, <1>2, <1>3, IdleFits, JobMoves

(* A manager moves a lead that exists: it stays the lead of its session.     *)
LEMMA SetLeadStatusStep ==
    ASSUME Inv, NEW k \in Keys, NEW status \in LeadStatuses, SetLeadStatus(k, status)
    PROVE  Inv' /\ UNCHANGED session /\ \A x \in Keys : lead'[x].of = lead[x].of
<1>1. lead[k].status # "absent" /\ lead' = [lead EXCEPT ![k].status = status]
      /\ UNCHANGED <<clock, session, job, begun>>
  BY DEF SetLeadStatus
<1>2. lead \in [Keys -> LeadRows] /\ status # "absent"
  BY DEF Inv, TypeOK, LeadStatuses, OpenStatuses
<1>3. lead' \in [Keys -> LeadRows]
      /\ \A x \in Keys : lead'[x].of = lead[x].of /\ lead'[x].phone = lead[x].phone
                         /\ (lead'[x].status = "absent" <=> lead[x].status = "absent")
  BY <1>1, <1>2 DEF LeadRows
<1>4. TypeOK'
  BY <1>1, <1>3 DEF Inv, TypeOK
<1>5. RowsOK'
  BY <1>1, <1>3 DEF Inv, RowsOK
<1>6. CooldownHolds' /\ OneSpinPerAttempt' /\ LocksOK'
  BY <1>1 DEF Inv, CooldownHolds, OneSpinPerAttempt, LocksOK, Opened
<1>7. ASSUME NEW v \in Workers PROVE Fits(job[v])'
  <2>1. job'[v] = job[v] /\ Fits(job[v])
    BY <1>1 DEF Inv, JobsOK
  <2> QED BY <1>1, <1>3, <2>1 DEF Fits, RegistrationFits, CompletionFits, AnswerFits, OfPhone,
             SameAttempt, Opened
<1> QED BY <1>1, <1>3, <1>4, <1>5, <1>6, <1>7 DEF Inv, JobsOK

LEMMA StillStep ==
    ASSUME Inv, Tick \/ UNCHANGED vars
    PROVE  Inv' /\ UNCHANGED Rows
<1>1. UNCHANGED <<Rows, job, begun>> /\ clock' \in 0 .. MaxTime
  BY WheelAssumption DEF Inv, TypeOK, Tick, vars, Rows
<1>2. TypeOK' /\ RowsOK' /\ CooldownHolds' /\ OneSpinPerAttempt' /\ LocksOK'
  BY <1>1 DEF Inv, TypeOK, RowsOK, CooldownHolds, OneSpinPerAttempt, LocksOK, Opened, Rows
<1>3. JobsOK'
  BY <1>1 DEF Inv, JobsOK, Fits, RegistrationFits, CompletionFits, AnswerFits, OfPhone,
     SameAttempt, Opened, Rows
<1> QED BY <1>1, <1>2, <1>3 DEF Inv

LEMMA InitHolds ==
    ASSUME Init
    PROVE  Inv
<1>1. TypeOK
  BY WheelAssumption, IdleFits DEF Init, TypeOK, SessionRows, LeadRows, Statuses
<1>2. Opened = {} /\ RowsOK
  BY WheelAssumption DEF Init, Opened, RowsOK
<1>3. CooldownHolds /\ OneSpinPerAttempt
  BY <1>2 DEF CooldownHolds, OneSpinPerAttempt
<1>4. LocksOK
  BY DEF Init, LocksOK, Idle, PhoneHolds, RowHolds
<1>5. JobsOK
  BY IdleFits DEF Init, JobsOK
<1> QED BY <1>1, <1>2, <1>3, <1>4, <1>5 DEF Inv

(* What a step does to the rows: nothing, a spin begun, a spin that yields   *)
(* its lead, or a lead moved on.                                             *)
Opens ==
    /\ UNCHANGED lead
    /\ \E n \in Sessions : session[n].status = "absent" /\ session'[n].status = "ACTIVE"
                           /\ \A s \in Sessions \ {n} : session'[s] = session[s]

Yields ==
    \E s \in Sessions, k \in Keys :
        /\ session[s].status = "ACTIVE" /\ session'[s].status = "CONSUMED"
        /\ \A t \in Sessions \ {s} : session'[t] = session[t]
        /\ session[s].lead = None /\ lead[k].of = None /\ lead'[k].of = s
        /\ \A x \in Keys \ {k} : lead'[x] = lead[x]

Keeps == UNCHANGED session /\ \A x \in Keys : lead'[x].of = lead[x].of

LEMMA StepKeepsInv ==
    ASSUME Inv, [Next]_vars
    PROVE  Inv' /\ (Opens \/ Yields \/ Keeps)
<1>1. UNCHANGED Rows => Keeps
  BY DEF Rows, Keeps
<1>2. ASSUME NEW w \in Workers, Arrive(w) PROVE Inv' /\ Keeps
  BY <1>1, <1>2, RegisterStep, CompleteStep DEF Arrive
<1>3. ASSUME NEW w \in Workers, Step(w) PROVE Inv' /\ (Opens \/ Yields \/ Keeps)
  BY <1>1, <1>3, RegisterLocksStep, RegisterLooksStep, RegisterCreatesStep, CompleteLocksStep,
     CompleteFindsStep, CompleteChecksStep, CompleteSubmitsStep, AbortStep DEF Step, Opens, Yields
<1>4. ASSUME NEW w \in Workers, Reply(w) PROVE Inv' /\ Keeps
  BY <1>1, <1>4, ReplyStep
<1>5. ASSUME NEW k \in Keys, NEW status \in LeadStatuses, SetLeadStatus(k, status)
      PROVE  Inv' /\ Keeps
  BY <1>5, SetLeadStatusStep DEF Keeps
<1>6. ASSUME Tick \/ UNCHANGED vars PROVE Inv' /\ Keeps
  BY <1>1, <1>6, StillStep
<1> QED BY <1>2, <1>3, <1>4, <1>5, <1>6 DEF Next, Rest

-------------------------------------------------------------------------------
(* The invariant holds: rows that name each other, locks with one holder,    *)
(* and requests whose earlier reads still hold where they are used.          *)
THEOREM Invariance == Spec => []Inv
<1>1. Init => Inv
  BY InitHolds
<1>2. Inv /\ [Next]_vars => Inv'
  BY StepKeepsInv
<1> QED BY <1>1, <1>2, PTL DEF Spec

(* Every row and request is of its type.                                     *)
THEOREM TypeCorrect == Spec => []TypeOK
<1>1. Inv => TypeOK
  BY DEF Inv
<1> QED BY <1>1, Invariance, PTL

(* Two spins of one phone are a cooldown apart, for any number of requests   *)
(* waiting for the phone's lock with clocks they read before.                *)
THEOREM SpinsAreApart == Spec => []CooldownHolds
<1>1. Inv => CooldownHolds
  BY DEF Inv
<1> QED BY <1>1, Invariance, PTL

(* A page that repeats an attempt gets the session it began, or an error.    *)
THEOREM RetriesAreAnswered == Spec => []RetryGetsItsSpin
<1>1. Inv => RetryGetsItsSpin
  BY DEF Inv, JobsOK, Fits, AnswerFits, RetryGetsItsSpin
<1> QED BY <1>1, Invariance, PTL

(* Whoever is told of a lead is told of the one of his own session.          *)
THEOREM LeadsAreTold == Spec => []LeadAnswersAreTrue
<1>1. Inv => LeadAnswersAreTrue
  BY DEF Inv, JobsOK, Fits, AnswerFits, LeadAnswersAreTrue
<1> QED BY <1>1, Invariance, PTL

-------------------------------------------------------------------------------
(* The wheel implements GiftClaim *)

LEMMA InitOpensNothing ==
    ASSUME Init
    PROVE  Claims!Init
<1>1. [s \in Sessions |-> session[s].status] = [s \in Sessions |-> "absent"]
  BY DEF Init
<1>2. \A s \in Sessions : {k \in Keys : lead[k].of = s} = {}
  BY WheelAssumption DEF Init
<1>3. [s \in Sessions |-> {k \in Keys : lead[k].of = s}] = [s \in Sessions |-> {}]
  BY <1>2
<1> QED BY <1>1, <1>3 DEF Claims!Init

LEMMA OpeningOpens ==
    ASSUME Inv, Opens
    PROVE  Claims!Next
<1>1. PICK n \in Sessions : session[n].status = "absent" /\ session'[n].status = "ACTIVE"
                           /\ \A s \in Sessions \ {n} : session'[s] = session[s]
  BY DEF Opens
<1> DEFINE stage == [s \in Sessions |-> session[s].status]
<1>2. stage[n] = "absent" /\ stage' = [stage EXCEPT ![n] = "ACTIVE"]
  BY <1>1
<1>3. Claimed' = Claimed
  BY DEF Opens, Claimed
<1>4. Claims!Open(n)
  BY <1>2, <1>3 DEF Claims!Open, Claimed
<1> QED BY <1>4 DEF Claims!Next

LEMMA YieldingYields ==
    ASSUME Inv, Yields
    PROVE  Claims!Next
<1>1. PICK s \in Sessions, k \in Keys :
        /\ session[s].status = "ACTIVE" /\ session'[s].status = "CONSUMED"
        /\ \A t \in Sessions \ {s} : session'[t] = session[t]
        /\ session[s].lead = None /\ lead[k].of = None /\ lead'[k].of = s
        /\ \A x \in Keys \ {k} : lead'[x] = lead[x]
  BY DEF Yields
<1> DEFINE stage == [t \in Sessions |-> session[t].status]
<1>2. stage[s] = "ACTIVE" /\ stage' = [stage EXCEPT ![s] = "CONSUMED"]
  BY <1>1
<1>3. \A t \in Sessions : Claimed[t] # {k}
  BY <1>1, WheelAssumption DEF Claimed
<1>4. Claimed' = [Claimed EXCEPT ![s] = {k}]
  <2>1. \A x \in Keys : lead[x].of # s
    BY <1>1, WheelAssumption DEF Inv, RowsOK
  <2>2. {x \in Keys : lead'[x].of = s} = {k}
    BY <1>1, <2>1
  <2>3. \A t \in Sessions \ {s} :
            {x \in Keys : lead'[x].of = t} = {x \in Keys : lead[x].of = t}
    BY <1>1, WheelAssumption
  <2> QED BY <2>2, <2>3 DEF Claimed
<1>5. {k} \in {{x} : x \in Keys}
  OBVIOUS
<1>6. Claims!Yield(s, {k})
  BY <1>2, <1>3, <1>4 DEF Claims!Yield, Claimed
<1> QED BY <1>5, <1>6 DEF Claims!Next

LEMMA KeepingKeeps ==
    ASSUME Inv, Keeps
    PROVE  UNCHANGED Claims!vars
<1>1. \A s \in Sessions : {k \in Keys : lead'[k].of = s} = {k \in Keys : lead[k].of = s}
  BY DEF Keeps
<1>2. Claimed' = Claimed
  BY <1>1 DEF Claimed
<1> QED BY <1>2 DEF Keeps, Claims!vars, Claimed

(* A spin yields one lead or none, and stays so, for any number of sessions, *)
(* keys and concurrent requests.                                             *)
THEOREM WheelImplementsGiftClaim == Spec => ImplementsGiftClaim
<1>1. Init => Claims!Init
  BY InitOpensNothing
<1>2. Inv /\ [Next]_vars => [Claims!Next]_(Claims!vars)
  BY StepKeepsInv, OpeningOpens, YieldingYields, KeepingKeeps
<1> QED BY <1>1, <1>2, Invariance, PTL DEF Spec, Claims!Spec, ImplementsGiftClaim


-------------------------------------------------------------------------------
(***************************************************************************)
(* The wheel's half of the rule of one open lead for each phone.           *)
(***************************************************************************)
OneOpenLead == \A p \in Phones : \A k, l \in OpenLeads(p) : k = l

(* A step that opens no lead, or one that the index admits.                  *)
LEMMA LeadsReopen ==
    ASSUME OneOpenLead, NEW k \in Keys, NEW phone,
           \A x \in Keys \ {k} : lead'[x] = lead[x],
           lead'[k].status \in OpenStatuses => lead'[k].phone = phone /\ IndexAdmits(k, phone)
    PROVE  OneOpenLead'
<1> SUFFICES ASSUME NEW p \in Phones, NEW x \in OpenLeads(p)', NEW y \in OpenLeads(p)'
             PROVE  x = y
  BY DEF OneOpenLead
<1>1. /\ x \in Keys /\ lead'[x].status \in OpenStatuses /\ lead'[x].phone = p
      /\ y \in Keys /\ lead'[y].status \in OpenStatuses /\ lead'[y].phone = p
  BY DEF OpenLeads
<1>2. \A z \in {x, y} : z # k => z \in OpenLeads(p)
  BY <1>1 DEF OpenLeads
<1>3. k \in {x, y} => OpenLeads(p) \ {k} = {}
  BY <1>1 DEF IndexAdmits
<1> QED BY <1>2, <1>3 DEF OneOpenLead

LEMMA OneOpenLeadStep ==
    ASSUME Inv, OneOpenLead, [Next]_vars
    PROVE  OneOpenLead'
<1>0. lead \in [Keys -> LeadRows]
  BY DEF Inv, TypeOK
<1>1. ASSUME UNCHANGED lead PROVE OneOpenLead'
  BY <1>1 DEF OneOpenLead, OpenLeads
<1>2. ASSUME NEW w \in Workers, CompleteSubmits(w), ~UNCHANGED lead PROVE OneOpenLead'
  <2> DEFINE j == job[w]
  <2>1. /\ IndexAdmits(j.k, j.phone)
        /\ lead' = [lead EXCEPT ![j.k] = [status |-> "NEW", of |-> j.s, phone |-> j.phone]]
    BY <1>2 DEF CompleteSubmits, Rows
  <2>2. j.k \in Keys
    BY <1>2 DEF CompleteSubmits, Inv, JobsOK, Fits, CompletionFits, RowHolds
  <2>3. lead'[j.k].phone = j.phone /\ \A x \in Keys \ {j.k} : lead'[x] = lead[x]
    BY <1>0, <2>1, <2>2
  <2> HIDE DEF j
  <2> QED BY <2>1, <2>2, <2>3, LeadsReopen
<1>3. ASSUME NEW k \in Keys, NEW status \in LeadStatuses, SetLeadStatus(k, status)
      PROVE  OneOpenLead'
  <2>1. /\ lead'[k].status = status /\ lead'[k].phone = lead[k].phone
        /\ \A x \in Keys \ {k} : lead'[x] = lead[x]
    BY <1>0, <1>3 DEF SetLeadStatus, LeadRows
  <2>2. status \in OpenStatuses => IndexAdmits(k, lead[k].phone)
    BY <1>3 DEF SetLeadStatus
  <2> QED BY <2>1, <2>2, LeadsReopen
<1>4. ASSUME NEW w \in Workers, Arrive(w) \/ Reply(w) PROVE UNCHANGED lead
  BY <1>4 DEF Arrive, Register, Complete, Begins, Reply, Rows
<1>5. ASSUME NEW w \in Workers, Step(w), ~CompleteSubmits(w) PROVE UNCHANGED lead
  BY <1>5 DEF Step, RegisterLocks, RegisterLooks, RegisterCreates, CompleteLocks, CompleteFinds,
     CompleteChecks, Abort, Rows
<1>6. CASE Tick \/ Rest \/ UNCHANGED vars
  BY <1>1, <1>6 DEF Tick, Rest, Rows, vars
<1> QED BY <1>1, <1>2, <1>3, <1>4, <1>5, <1>6 DEF Next

(* A phone has at most one open lead of the wheel, whichever spins submit    *)
(* together and whichever leads the manager reopens: the check before the    *)
(* insert is passed by several, the index by one.                            *)
THEOREM PhonesHaveOneOpenLead == Spec => []OneOpenLead
<1>1. Init => OneOpenLead
  BY DEF Init, OneOpenLead, OpenLeads, OpenStatuses
<1>2. Inv /\ OneOpenLead /\ [Next]_vars => OneOpenLead'
  BY OneOpenLeadStep
<1> QED BY <1>1, <1>2, Invariance, PTL DEF Spec

-------------------------------------------------------------------------------
(* How many steps of its own a request may still take before its answer.     *)
Left(pc) ==
    CASE pc = "complete" -> 4
      [] pc \in {"register", "find"} -> 3
      [] pc \in {"look", "check"} -> 2
      [] pc \in {"create", "submit"} -> 1
      [] OTHER -> 0

RequestsDescend ==
    [][\/ UNCHANGED job
       \/ \E w \in Workers :
            /\ job[w].pc \in {"idle", "answered"} \/ Left(job'[w].pc) < Left(job[w].pc)
            /\ \A v \in Workers \ {w} : job'[v] = job[v]]_vars

LEMMA StepDescends ==
    ASSUME Inv, NEW w \in Workers, Step(w)
    PROVE  /\ Left(job'[w].pc) < Left(job[w].pc)
           /\ \A v \in Workers \ {w} : job'[v] = job[v]
<1>0. job \in [Workers -> Jobs]
  BY DEF Inv, TypeOK
<1>1. ASSUME NEW pc, Goes(w, pc)
      PROVE  job'[w].pc = pc /\ \A v \in Workers \ {w} : job'[v] = job[v]
  BY <1>0, <1>1 DEF Goes, Jobs
<1>2. ASSUME NEW answer, NEW what, Answers(w, answer, what)
      PROVE  job'[w].pc = "answered" /\ \A v \in Workers \ {w} : job'[v] = job[v]
  BY <1>0, <1>2 DEF Answers, Jobs
<1>3. /\ \/ job'[w].pc = "answered"
            /\ job[w].pc \in {"look", "create", "complete", "find", "check", "submit"}
         \/ job[w].pc = "register" /\ job'[w].pc = "look"
         \/ job[w].pc = "look" /\ job'[w].pc = "create"
         \/ job[w].pc = "complete" /\ job'[w].pc = "find"
         \/ job[w].pc = "find" /\ job'[w].pc = "check"
         \/ job[w].pc = "check" /\ job'[w].pc = "submit"
      /\ \A v \in Workers \ {w} : job'[v] = job[v]
  BY <1>1, <1>2 DEF Step, RegisterLocks, RegisterLooks, RegisterCreates, CompleteLocks,
     CompleteFinds, CompleteChecks, CompleteSubmits, Abort
<1>4. /\ Left("complete") = 4 /\ Left("register") = 3 /\ Left("find") = 3
      /\ Left("look") = 2 /\ Left("check") = 2 /\ Left("create") = 1 /\ Left("submit") = 1
      /\ Left("answered") = 0
  BY DEF Left
<1>5. \/ Left(job[w].pc) \in 1 .. 4 /\ Left(job'[w].pc) = 0
      \/ Left(job[w].pc) = 3 /\ Left(job'[w].pc) = 2
      \/ Left(job[w].pc) = 2 /\ Left(job'[w].pc) = 1
      \/ Left(job[w].pc) = 4 /\ Left(job'[w].pc) = 3
  BY <1>3, <1>4
<1> QED BY <1>3, <1>5

(* No request goes back or begins again: once it has its lock, it is         *)
(* answered after at most four steps, and only holders are waited for.       *)
THEOREM EveryStepIsProgress == Spec => RequestsDescend
<1>1. ASSUME Inv, [Next]_vars
      PROVE  \/ UNCHANGED job
             \/ \E w \in Workers :
                  /\ job[w].pc \in {"idle", "answered"} \/ Left(job'[w].pc) < Left(job[w].pc)
                  /\ \A v \in Workers \ {w} : job'[v] = job[v]
  <2>1. ASSUME NEW w \in Workers, Arrive(w) \/ Reply(w)
        PROVE  job[w].pc \in {"idle", "answered"} /\ \A v \in Workers \ {w} : job'[v] = job[v]
    BY <1>1, <2>1 DEF Arrive, Register, Complete, Begins, Reply, Inv, TypeOK
  <2> QED BY <1>1, <2>1, StepDescends DEF Next, SetLeadStatus, Tick, Rest, vars
<1>2. Inv /\ [Next]_vars =>
        [\/ UNCHANGED job
         \/ \E w \in Workers :
              /\ job[w].pc \in {"idle", "answered"} \/ Left(job'[w].pc) < Left(job[w].pc)
              /\ \A v \in Workers \ {w} : job'[v] = job[v]]_vars
  BY <1>1
<1> QED BY <1>2, Invariance, PTL DEF Spec, RequestsDescend
===============================================================================
