----------------------------- MODULE MCShutdown -----------------------------
\* The shutdown of the runtime, and whom the creatures of the map see and attack, on
\* small instances.  The modules share no variable: a behaviour follows one of
\* them, `part', while the other stays at its initial state.
EXTENDS ServerRuntime, Targets, TLC

CONSTANTS wild, tame, trainer
VARIABLE part

bothVars == <<part, vars, field>>

\* A wild pokemon beside the place where players appear, that may not leave its own.
MCHashOrder == <<wild, tame, trainer>>
MCHome == [p \in Wild |-> 2]
MCRanges == [p \in Wild |-> {2}]

BothInit == part \in {"runtime", "field"} /\ Init /\ FieldInit

\* The lists of a pokemon that has fainted in its ball keep everybody else from
\* coming back as a new object.
Deserted == field.here = {} /\ field.listed = {} /\ Tame \subseteq field.fainted

BothNext ==
    /\ UNCHANGED part
    /\ \/ part = "runtime" /\ Next /\ UNCHANGED field
       \/ part = "field" /\ FieldNext /\ UNCHANGED vars
       \/ part = "field" /\ Deserted /\ UNCHANGED <<vars, field>>

BothSpec == BothInit /\ [][BothNext]_bothVars
=============================================================================
