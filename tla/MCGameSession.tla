---------------------------- MODULE MCGameSession ----------------------------
\* GameSession on small instances.
EXTENDS GameSession, TLC

Spec == SessionSpec
FairSpec == Spec /\ SessionFairness

\* Connections and player objects are told apart only by their roles.
SessionSymmetry == Permutations(Conn) \cup Permutations(Player)

\* Bound: the dispatcher does not fall behind further than this.
FewTasks == Len(taskList) <= 2
=============================================================================
