---------------------------- MODULE MCBotOperation ----------------------------
(* Callers of one key: two send the same payload, one of them from a process *)
(* that still signs with the previous HMAC secret; the third sends another   *)
(* payload under the same key.                                               *)
EXTENDS BotOperation, TLC

CONSTANTS k1, old, new, other

MCKeyOf == [w \in Workers |-> k1]
MCPayload == [w \in Workers |-> IF w = other THEN "p2" ELSE "p1"]
MCCurrent ==
    [w \in Workers |-> (old :> "p1-s1" @@ new :> "p1-s2" @@ other :> "p2-s2")[w]]
MCCandidates ==
    [w \in Workers |-> (old :> {"p1-s1"} @@ new :> {"p1-s2", "p1-s1"}
                        @@ other :> {"p2-s2", "p2-s1"})[w]]
MCFingerprints == {"p1-s1", "p1-s2", "p2-s1", "p2-s2"}
MCSigns == [f \in MCFingerprints |-> IF f \in {"p1-s1", "p1-s2"} THEN "p1" ELSE "p2"]
===============================================================================
