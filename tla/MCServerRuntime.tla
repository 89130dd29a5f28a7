--------------------------- MODULE MCServerRuntime ---------------------------
\* ServerRuntime on small instances: the sets of work items are model values.
EXTENDS ServerRuntime, TLC

\* Events are told apart only by their due times.
EventSymmetry == Permutations(Event)
=============================================================================
