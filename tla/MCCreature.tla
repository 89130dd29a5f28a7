----------------------------- MODULE MCCreature -----------------------------
\* The line before a full server, how a creature walks and what conditions do to
\* it, on small instances.  The modules share no variable: a behaviour follows one
\* of them, `part', while the others stay at an initial state.
EXTENDS WaitingList, CreatureWalk, Conditions, TLC

VARIABLE part

vars == <<part, waitVars, walkVars, conditionVars>>

MCValues == [haste |-> {1, 2}, paralyze |-> {-1}, attributes |-> {5, 6}, outfit |-> {0}, sleep |-> {0}]

Init ==
    /\ part \in {"waiting", "walk", "conditions"}
    /\ WaitInit
    /\ WalkInit
    /\ ConditionsInit /\ (part # "conditions" => kind = "player")

Next ==
    /\ UNCHANGED part
    /\ \/ part = "waiting" /\ WaitNext /\ UNCHANGED <<walkVars, conditionVars>>
       \/ part = "walk" /\ WalkNext /\ UNCHANGED <<waitVars, conditionVars>>
       \/ part = "conditions" /\ ConditionsNext /\ UNCHANGED <<waitVars, walkVars>>

Spec == Init /\ [][Next]_vars
=============================================================================
