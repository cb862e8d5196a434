--------------------------- MODULE PublishedVersions ---------------------------
(***************************************************************************)
(* What publishing promises: versions are numbered one after the other and *)
(* never rewritten, at most one is live, and a new one differs from the    *)
(* one it takes over from.  Publication implements it.                     *)
(***************************************************************************)
EXTENDS Naturals, Sequences

CONSTANT Contents

VARIABLES
    versions,   \* the content of each version
    live        \* the versions the bot is served

vars == <<versions, live>>

Init == versions = <<>> /\ live = {}

Publish(c) ==
    /\ \A v \in live : versions[v] # c
    /\ versions' = Append(versions, c)
    /\ live' = {Len(versions) + 1}

Activate(v) == live' = {v} /\ UNCHANGED versions

Next ==
    \/ \E c \in Contents : Publish(c)
    \/ \E v \in 1 .. Len(versions) : Activate(v)

Spec == Init /\ [][Next]_vars
================================================================================
