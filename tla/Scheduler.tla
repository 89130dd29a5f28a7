------------------------------ MODULE Scheduler ------------------------------
(***************************************************************************)
(* Scheduler (scheduler.h, scheduler.cpp): a thread that sleeps until the  *)
(* earliest event of a priority queue is due and then pushes the event on  *)
(* the front of the dispatcher's list. An event is stopped by erasing its  *)
(* id: the event itself stays in the queue until it is popped.             *)
(***************************************************************************)
EXTENDS Dispatcher

CONSTANT ID_MAX    \* the largest event id, 2^32 - 1 in the code

\* The server does not create so many events that an id is given out twice.
ASSUME IdAssumption == ID_MAX \in Nat \ {0} /\ Cardinality(Event) <= ID_MAX

VARIABLES
  sState,       \* ThreadHolder::threadState
  eventList,    \* the events in the priority queue
  eventIds,     \* the ids of the events that were not stopped
  eventId,      \* SchedulerTask::eventId of every event (0: none yet)
  lastEventId,
  spc,          \* where the thread is
  sDeadline,    \* the time it waits for in wait_until
  sTask,        \* the event it popped, or None
  sWoken        \* it was notified while it waited on eventSignal

schedulerVars ==
  <<sState, eventList, eventIds, eventId, lastEventId, spc, sDeadline, sTask, sWoken>>

SchedulerPc == {"check", "lock", "wait", "timedwait", "handoff", "exit"}

SchedulerInit ==
  /\ sState = "RUNNING"
  /\ eventList = {}
  /\ eventIds = {}
  /\ eventId = [e \in Event |-> 0]
  /\ lastEventId = 0
  /\ spc = "check"
  /\ sDeadline = 0
  /\ sTask = None
  /\ sWoken = FALSE

SchedulerTypeOK ==
  /\ sState \in ThreadState
  /\ eventList \subseteq Event
  /\ eventIds \subseteq 1..ID_MAX
  /\ eventId \in [Event -> 0..ID_MAX]
  /\ lastEventId \in 0..ID_MAX
  /\ spc \in SchedulerPc
  /\ sDeadline \in Nat
  /\ sTask \in Event \cup {None}
  /\ sWoken \in BOOLEAN

\* Mutant of NextId: it wraps one too early.
NextIdModulo == (lastEventId + 1) % ID_MAX

\* What eventList.top() may be: the heap breaks ties in no particular order.
Tops == {e \in eventList : \A f \in eventList : due[e] <= due[f]}

NextId == IF lastEventId = ID_MAX THEN 1 ELSE lastEventId + 1

-----------------------------------------------------------------------------
(* Calls of other threads.                                                  *)

\* Scheduler::addEvent(createSchedulerTask(delay, f)) by thread th.
\* A new event that ties with the earliest one may or may not become the top.
AcceptEvent(th, e, delay) ==
  /\ sState = "RUNNING"
  /\ due' = [due EXCEPT ![e] = now + delay]
  /\ lastEventId' = NextId
  /\ eventId' = [eventId EXCEPT ![e] = NextId]
  /\ eventIds' = eventIds \cup {NextId}
  /\ eventList' = eventList \cup {e}
  /\ fate' = [fate EXCEPT ![e] = "pending"]
  /\ \E top \in Tops' : owes' = [owes EXCEPT ![th] = IF top = e THEN "scheduler" ELSE None]

RefuseEvent(e) ==
  /\ sState # "RUNNING"
  /\ fate' = [fate EXCEPT ![e] = "dropped"]
  /\ UNCHANGED <<due, owes, lastEventId, eventId, eventIds, eventList>>

AddEvent(th, e, delay) ==
  /\ AcceptEvent(th, e, delay) \/ RefuseEvent(e)
  /\ UNCHANGED <<now, dispatcherVars, sState, spc, sDeadline, sTask, sWoken>>

\* Mutant of StopEvent: the id is found and not erased.
StopEventKeepsId(e) ==
  /\ eventId[e] \in eventIds
  /\ fate' = [fate EXCEPT ![e] = "cancelled"]
  /\ UNCHANGED <<now, due, owes, dispatcherVars, sState, eventList, eventIds, eventId,
                 lastEventId, spc, sDeadline, sTask, sWoken>>

\* Scheduler::stopEvent(eventId[e]) of a caller that kept the id. When the id
\* is not found any more the call changes nothing.
StopEvent(e) ==
  /\ eventId[e] \in eventIds
  /\ eventIds' = eventIds \ {eventId[e]}
  /\ fate' = [fate EXCEPT ![e] = "cancelled"]
  /\ UNCHANGED <<now, due, owes, dispatcherVars, sState, eventList, eventId,
                 lastEventId, spc, sDeadline, sTask, sWoken>>

\* The critical section of Scheduler::shutdown. The events that were stopped
\* before are in the queue too, and are deleted with the others.
ClearEvents ==
  /\ eventList' = {}
  /\ eventIds' = {}
  /\ fate' = Fates({e \in eventList : eventId[e] \in eventIds}, "dropped")

-----------------------------------------------------------------------------
(* Scheduler::threadMain                                                    *)

SchedCheck ==
  /\ spc = "check"
  /\ spc' = IF sState = "TERMINATED" THEN "exit" ELSE "lock"
  /\ UNCHANGED <<sharedVars, dispatcherVars, sState, eventList, eventIds, eventId,
                 lastEventId, sDeadline, sTask, sWoken>>

SchedLock ==
  /\ spc = "lock"
  /\ \/ eventList = {} /\ spc' = "wait" /\ UNCHANGED sDeadline
     \/ \E top \in Tops : spc' = "timedwait" /\ sDeadline' = due[top]
  /\ UNCHANGED <<sharedVars, dispatcherVars, sState, eventList, eventIds, eventId,
                 lastEventId, sTask, sWoken>>

\* Back from wait, or from wait_until before the time: only to loop again.
SchedLeaveWait ==
  /\ \/ spc = "wait"
     \/ spc = "timedwait" /\ now < sDeadline
  /\ spc' = "check"
  /\ sWoken' = FALSE
  /\ UNCHANGED <<sharedVars, dispatcherVars, sState, eventList, eventIds, eventId,
                 lastEventId, sDeadline, sTask>>

SchedWake == sWoken /\ SchedLeaveWait
SchedSpuriousWake == ~sWoken /\ SchedLeaveWait

\* wait_until reports a timeout whenever the time has come, also to a thread
\* that was notified. The top need not be the event the deadline came from.
SchedTimeout ==
  /\ spc = "timedwait"
  /\ now >= sDeadline
  /\ sWoken' = FALSE
  /\ \/ eventList = {} /\ spc' = "check" /\ UNCHANGED <<eventList, eventIds, fate, sTask>>
     \/ \E top \in Tops :
          /\ eventList' = eventList \ {top}
          /\ \/ /\ eventId[top] \notin eventIds      \* it was stopped
                /\ spc' = "check"
                /\ UNCHANGED <<eventIds, fate, sTask>>
             \/ /\ eventId[top] \in eventIds
                /\ eventIds' = eventIds \ {eventId[top]}
                /\ fate' = [fate EXCEPT ![top] = "inflight"]
                /\ sTask' = top
                /\ spc' = "handoff"
  /\ UNCHANGED <<now, due, owes, dispatcherVars, sState, eventId, lastEventId, sDeadline>>

\* setDontExpire (due keeps the time the event had, for the properties) and
\* Dispatcher::addTask with push_front.
SchedHandoff ==
  /\ spc = "handoff"
  /\ AddTaskFront("scheduler", sTask)
  /\ sTask' = None
  /\ spc' = "check"
  /\ UNCHANGED <<now, due, dState, dpc, dTask, dWoken, sState, eventList, eventIds,
                 eventId, lastEventId, sDeadline, sWoken>>

SchedulerLoop ==
  /\ Ready("scheduler")
  /\ SchedCheck \/ SchedLock \/ SchedWake \/ SchedTimeout \/ SchedHandoff
=============================================================================
