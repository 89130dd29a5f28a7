------------------------------ MODULE WorkItems ------------------------------
(***************************************************************************)
(* What the threads of the server hand to each other, and what they share: *)
(* the wall clock and the promise of a thread to notify a condition        *)
(* variable once it has left a critical section.                           *)
(*                                                                         *)
(* A work item is an object that is allocated once, owned by exactly one   *)
(* place at a time and deleted once:                                       *)
(*   Event   SchedulerTask objects (scheduler.h), run at a due time        *)
(*   Query   DatabaseTask objects (databasetasks.h); a query in Callbacks  *)
(*           comes back to the dispatcher as a task                        *)
(*   Packet  ordinary Task objects (tasks.h) that bind a game handler; the *)
(*           ones in Timed were created with an expiration                 *)
(*   Signal  the tasks of SIGINT and SIGTERM (signals.cpp)                 *)
(*   GameShutdown, Terminate  the two tasks of an orderly shutdown         *)
(***************************************************************************)
EXTENDS Naturals, Sequences, FiniteSets

CONSTANTS
  Event, Query, Packet, Signal,   \* finite supplies of work items
  GameShutdown,                   \* the task bound to Game::shutdown
  Terminate,                      \* the task Dispatcher::shutdown pushes
  None,                           \* no work item
  Timed,                          \* packets that expire when they wait too long
  Callbacks,                      \* queries with a callback
  Lifetime,                       \* the expiration of a timed packet
  Delays,                         \* the delays events are created with
  MaxTime                         \* bound: the clock stops here

Control == Signal \cup {GameShutdown, Terminate}
Ordinary == Query \cup Packet \cup Control
Work == Event \cup Ordinary

ASSUME WorkAssumption ==
  /\ IsFiniteSet(Event)
  /\ Timed \subseteq Packet
  /\ Callbacks \subseteq Query
  /\ Lifetime \in Nat
  /\ Delays \subseteq Nat
  /\ MaxTime \in Nat

ASSUME KindsAssumption ==
  /\ Event \cap Ordinary = {}
  /\ Query \cap (Packet \cup Control) = {}
  /\ Packet \cap Control = {}
  /\ Signal \cap {GameShutdown, Terminate} = {}
  /\ GameShutdown # Terminate
  /\ None \notin Work \cup {"main", "dispatcher", "scheduler", "database"}

\* "main" runs the io_service and, at the end, joins the other three.
Thread == {"main", "dispatcher", "scheduler", "database"}
Worker == Thread \ {"main"}

ThreadState == {"RUNNING", "CLOSING", "TERMINATED"}

\* new: not created yet; pending: in eventList or tasks; inflight: popped by the
\* scheduler thread; queued: in taskList; running: taken from a list by a thread.
\* dropped: refused by a component that is closing, or cleared by its shutdown;
\* unheard: a query that was executed but whose callback was refused.
Fate == {"new", "pending", "inflight", "queued", "running",
         "done", "cancelled", "expired", "dropped", "unheard"}
Final == {"done", "cancelled", "expired", "dropped", "unheard"}

VARIABLES
  now,     \* std::chrono::system_clock
  due,     \* Task::expiration of every item (0: SYSTEM_TIME_ZERO)
  fate,    \* history: what has become of every item so far
  owes     \* the thread whose condition variable a thread is about to notify

sharedVars == <<now, due, fate, owes>>

SharedInit ==
  /\ now = 0
  /\ due = [w \in Work |-> 0]
  /\ fate = [w \in Work |-> "new"]
  /\ owes = [th \in Thread |-> None]

\* A thread that left a critical section with do_signal set calls notify_one
\* before it does anything else.
Ready(th) == owes[th] = None
Owed(target) == \E th \in Thread : owes[th] = target

\* Mutant of HasExpired: the scheduler forgets setDontExpire.
HasExpiredAll(w) == due[w] # 0 /\ due[w] < now

\* Task::hasExpired. Only timed packets keep their expiration: the scheduler
\* calls setDontExpire before it hands an event over.
HasExpired(w) == w \in Timed /\ due[w] < now

Fates(ws, f) == [w \in Work |-> IF w \in ws THEN f ELSE fate[w]]

SharedTypeOK ==
  /\ now \in Nat
  /\ due \in [Work -> Nat]
  /\ fate \in [Work -> Fate]
  /\ owes \in [Thread -> Worker \cup {None}]
=============================================================================
