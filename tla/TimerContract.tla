---------------------------- MODULE TimerContract ----------------------------
(***************************************************************************)
(* What g_scheduler and g_dispatcher together promise to the code that     *)
(* adds a timer: it runs once, never before its time and never after it    *)
(* was stopped, and the earliest goes first. A timer that has fired cannot *)
(* be stopped any more, and runs a little later. After the scheduler was   *)
(* closed no timer is accepted and those that have not run may be lost.    *)
(***************************************************************************)
EXTENDS Naturals

CONSTANTS Timer, Delays, MaxTime

VARIABLES clock, due, status, open

contractVars == <<clock, due, status, open>>

Init ==
  /\ clock = 0
  /\ due = [t \in Timer |-> 0]
  /\ status = [t \in Timer |-> "new"]
  /\ open = TRUE

Become(t, s) == status' = [status EXCEPT ![t] = s]

Arm(t) ==
  /\ open
  /\ status[t] = "new"
  /\ \E d \in Delays : due' = [due EXCEPT ![t] = clock + d]
  /\ Become(t, "armed")
  /\ UNCHANGED <<clock, open>>

Cancel(t) ==
  /\ status[t] = "armed"
  /\ Become(t, "cancelled")
  /\ UNCHANGED <<clock, due, open>>

Fire(t) ==
  /\ status[t] = "armed"
  /\ due[t] <= clock
  /\ \A u \in Timer : status[u] = "armed" => due[t] <= due[u]
  /\ Become(t, "fired")
  /\ UNCHANGED <<clock, due, open>>

Run(t) ==
  /\ status[t] = "fired"
  /\ Become(t, "ran")
  /\ UNCHANGED <<clock, due, open>>

Lose(ts) ==
  /\ ~open
  /\ \A t \in ts : status[t] \in {"new", "armed", "fired"}
  /\ status' = [t \in Timer |-> IF t \in ts THEN "dropped" ELSE status[t]]
  /\ UNCHANGED <<clock, due, open>>

Close ==
  /\ open
  /\ open' = FALSE
  /\ UNCHANGED <<clock, due, status>>

Pass ==
  /\ clock < MaxTime
  /\ clock' = clock + 1
  /\ UNCHANGED <<due, status, open>>

Next ==
  \/ \E t \in Timer : Arm(t) \/ Cancel(t) \/ Fire(t) \/ Run(t)
  \/ \E ts \in SUBSET Timer : Lose(ts)
  \/ Close
  \/ Pass

Spec == Init /\ [][Next]_contractVars
=============================================================================
