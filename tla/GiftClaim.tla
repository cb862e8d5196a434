------------------------------ MODULE GiftClaim -------------------------------
(***************************************************************************)
(* What a game promises: a session is played once, its gift is claimed by  *)
(* at most one request, and a session that is over stays over.             *)
(* GameSession and Wheel implement it.                                     *)
(***************************************************************************)
CONSTANTS
    Sessions,
    Keys,       \* idempotency keys: each names the request it creates
    Unclaimed   \* no request has claimed the gift

VARIABLES
    stage,      \* [Sessions -> Stages]
    claim       \* [Sessions -> Keys or Unclaimed]

vars == <<stage, claim>>

Stages == {"absent", "ACTIVE", "COMPLETED", "CONSUMED", "EXPIRED"}

Init ==
    /\ stage = [s \in Sessions |-> "absent"]
    /\ claim = [s \in Sessions |-> Unclaimed]

Open(s) ==
    /\ stage[s] = "absent"
    /\ stage' = [stage EXCEPT ![s] = "ACTIVE"]
    /\ UNCHANGED claim

Grant(s) ==
    /\ stage[s] = "ACTIVE"
    /\ stage' = [stage EXCEPT ![s] = "COMPLETED"]
    /\ UNCHANGED claim

(* A request of one key claims the gift of one session. *)
Claim(s, k) ==
    /\ stage[s] = "COMPLETED"
    /\ \A x \in Sessions : claim[x] # k
    /\ stage' = [stage EXCEPT ![s] = "CONSUMED"]
    /\ claim' = [claim EXCEPT ![s] = k]

Expire(s) ==
    /\ stage[s] \in {"ACTIVE", "COMPLETED"}
    /\ stage' = [stage EXCEPT ![s] = "EXPIRED"]
    /\ UNCHANGED claim

(* The wheel grants its gift and has it claimed at once. *)
Yield(s, k) ==
    /\ stage[s] = "ACTIVE"
    /\ \A x \in Sessions : claim[x] # k
    /\ stage' = [stage EXCEPT ![s] = "CONSUMED"]
    /\ claim' = [claim EXCEPT ![s] = k]

(* A new attempt takes the place of one that was not claimed. *)
Replace(s, n) ==
    /\ stage[s] \in {"ACTIVE", "COMPLETED"}
    /\ stage[n] = "absent"
    /\ stage' = [stage EXCEPT ![s] = "EXPIRED", ![n] = "ACTIVE"]
    /\ UNCHANGED claim

Next ==
    \E s \in Sessions :
        \/ Open(s) \/ Grant(s) \/ Expire(s)
        \/ \E k \in Keys : Claim(s, k) \/ Yield(s, k)
        \/ \E n \in Sessions : Replace(s, n)

Spec == Init /\ [][Next]_vars
===============================================================================
