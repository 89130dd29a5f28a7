---------------------------- MODULE MCWaitingList ----------------------------
\* WaitingList on small instances.
EXTENDS WaitingList, TLC

Spec == WaitSpec

=============================================================================
