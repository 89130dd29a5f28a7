----------------------------- MODULE MCServices -----------------------------
\* Raids and the services of the server, on small instances, with the fairness
\* that their liveness needs.  They share no variable: a behaviour follows one of
\* them, `part'.
EXTENDS Raids, Services, TLC

VARIABLE part

vars == <<part, raidVars, serviceVars>>

\* A raid of two events, one of a single one that runs once, an empty one.
MCEvents == [r \in RaidName |-> CASE r = "r1" -> 2 [] r = "r2" -> 1 [] r = "r3" -> 0]

Init == part \in {"raids", "services"} /\ RaidInit /\ ServicesInit

Next ==
    /\ UNCHANGED part
    /\ \/ part = "raids" /\ RaidNext /\ UNCHANGED serviceVars
       \/ part = "services" /\ ServicesNext /\ UNCHANGED raidVars

Spec == /\ Init /\ [][Next]_vars
        /\ part = "raids" => RaidFairness
        /\ part = "services" => ServicesFairness
=============================================================================
