------------------------------ MODULE AtMostOnce ------------------------------
(***************************************************************************)
(* What the durable idempotency of the internal bot API promises to its    *)
(* callers, without rows, leases or transactions: under one key at most    *)
(* one mutation is ever performed, a key is settled once and for good, and *)
(* "ok" is told only to a caller whose own payload was performed.          *)
(* BotOperation implements this specification.                             *)
(***************************************************************************)
CONSTANTS
    Keys,       \* idempotency keys
    Workers,    \* callers
    KeyOf,      \* the key each caller sends
    Payload,    \* the canonical payload each caller sends
    None        \* "no worker"

VARIABLES
    outcome,    \* what became of each key
    told        \* the last answer each caller holds

Open == [kind |-> "open", by |-> None]
Refused == [kind |-> "refused", by |-> None]
PerformedBy(w) == [kind |-> "performed", by |-> w]

Silent == [kind |-> "none", result |-> None]
Ok(w) == [kind |-> "ok", result |-> w]

(* An answer that promises nothing about the key. *)
Noncommittal ==
    {[kind |-> k, result |-> None] :
        k \in {"none", "conflict", "in_progress", "failed_retryable",
               "failed_final", "lost"}}

Init ==
    /\ outcome = [k \in Keys |-> Open]
    /\ told = [w \in Workers |-> Silent]

(* The mutation of w's payload is performed; w may or may not hear of it. *)
Perform(w) ==
    /\ outcome[KeyOf[w]] = Open
    /\ outcome' = [outcome EXCEPT ![KeyOf[w]] = PerformedBy(w)]
    /\ told' \in {told, [told EXCEPT ![w] = Ok(w)]}

(* The key is settled as refused, and the caller that settled it is told. *)
Refuse(w) ==
    /\ outcome[KeyOf[w]] = Open
    /\ outcome' = [outcome EXCEPT ![KeyOf[w]] = Refused]
    /\ \E a \in Noncommittal : told' = [told EXCEPT ![w] = a]

(* "ok" repeats the outcome to a caller that sent the performed payload. *)
Replay(w) ==
    /\ \E v \in Workers :
          /\ outcome[KeyOf[w]] = PerformedBy(v)
          /\ Payload[v] = Payload[w]
          /\ told' = [told EXCEPT ![w] = Ok(v)]
    /\ UNCHANGED outcome

Tell(w) ==
    /\ \E a \in Noncommittal : told' = [told EXCEPT ![w] = a]
    /\ UNCHANGED outcome

Next == \E w \in Workers : Perform(w) \/ Refuse(w) \/ Replay(w) \/ Tell(w)

Spec == Init /\ [][Next]_<<outcome, told>>
===============================================================================
