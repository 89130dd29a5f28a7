---------------------------- MODULE ServerRuntime ----------------------------
(***************************************************************************)
(* The threads of a running server put together: the main thread, which    *)
(* runs the io_service and joins the others at the end (otserv.cpp), the   *)
(* dispatcher with the handlers it runs (game.cpp, signals.cpp), the       *)
(* scheduler and the database thread. It starts where mainLoader has       *)
(* finished: every thread runs and the services accept connections.        *)
(***************************************************************************)
EXTENDS DatabaseTasks

VARIABLES
  gameState,   \* Game::gameState
  ioStop,      \* ServiceManager::stop was called
  mpc          \* where the main thread is

runtimeVars == <<gameState, ioStop, mpc>>
vars == <<sharedVars, dispatcherVars, schedulerVars, databaseVars, runtimeVars>>

MainPc == {"io", "joinScheduler", "joinDatabase", "joinDispatcher", "end"}

Init ==
  /\ SharedInit
  /\ DispatcherInit
  /\ SchedulerInit
  /\ DatabaseInit
  /\ gameState = "NORMAL"
  /\ ioStop = FALSE
  /\ mpc = "io"

-----------------------------------------------------------------------------
(* Condition variables: notify_one finds the thread waiting or is lost.     *)

Wake(target) ==
  /\ dWoken' = (dWoken \/ (target = "dispatcher" /\ dpc = "wait"))
  /\ sWoken' = (sWoken \/ (target = "scheduler" /\ spc \in {"wait", "timedwait"}))
  /\ bWoken' = (bWoken \/ (target = "database" /\ bpc = "wait"))

Notify(th) ==
  /\ ~Ready(th)
  /\ Wake(owes[th])
  /\ owes' = [owes EXCEPT ![th] = None]
  /\ UNCHANGED <<now, due, fate, dState, taskList, dpc, dTask, sState, eventList,
                 eventIds, eventId, lastEventId, spc, sDeadline, sTask, bState,
                 tasks, bpc, bTask, dFlush, dRet, runtimeVars>>

-----------------------------------------------------------------------------
(* What a handler may do while the dispatcher runs it. A packet, a timer, a *)
(* query's callback and the scripts of the shutdown event are alike here.   *)

Busy == /\ Ready("dispatcher")
        /\ \/ /\ dpc = "run"
              /\ dTask \notin Control
           \/ dpc = "kick"

\* Only an event that becomes due before the bound on the clock is added.
InTime(delay) == now + delay <= MaxTime

\* A game operation adds a scheduler event.
HandlerAddEvent(e, delay) ==
  /\ Busy
  /\ fate[e] = "new"
  /\ InTime(delay)
  /\ AddEvent("dispatcher", e, delay)
  /\ UNCHANGED <<databaseVars, runtimeVars>>

HandlerStopEvent(e) ==
  /\ Busy
  /\ StopEvent(e)
  /\ UNCHANGED <<databaseVars, runtimeVars>>

HandlerAddQuery(q) ==
  /\ Busy
  /\ fate[q] = "new"
  /\ AddQuery("dispatcher", q)
  /\ UNCHANGED runtimeVars

\* createTask with or without an expiration, and Dispatcher::addTask.
PostTask(th, w) ==
  /\ fate[w] = "new"
  /\ due' = IF w \in Timed THEN [due EXCEPT ![w] = now + Lifetime] ELSE due
  /\ AddTask(th, w)
  /\ UNCHANGED <<now, dState, dpc, dTask, dWoken, schedulerVars, databaseVars, runtimeVars>>

HandlerAddTask(w) == Busy /\ PostTask("dispatcher", w)

\* Game::saveGameState up to g_databaseTasks.flush(). Players, pokemon and the
\* map are saved without the queue. Bound: a save with an empty queue, which
\* has nothing to flush, is left out.
HandlerSave ==
  /\ Ready("dispatcher")
  /\ dpc = "run" /\ dTask \notin Control
  /\ tasks # <<>>
  /\ gameState' = IF gameState = "NORMAL" THEN "MAINTAIN" ELSE gameState
  /\ dpc' = "flush"
  /\ dRet' = "saved"
  /\ UNCHANGED <<sharedVars, dState, taskList, dTask, dWoken, schedulerVars, bState,
                 tasks, bpc, bTask, bWoken, dFlush, ioStop, mpc>>

\* The end of saveGameState: back to a handler, or to setGameState.
Saved ==
  /\ Ready("dispatcher")
  /\ dpc = "saved"
  /\ gameState' = IF gameState = "MAINTAIN" THEN "NORMAL" ELSE gameState
  /\ dpc' = IF dTask \in Signal THEN "post" ELSE "run"
  /\ UNCHANGED <<sharedVars, dState, taskList, dTask, dWoken, schedulerVars,
                 databaseVars, ioStop, mpc>>

HandlerReturn ==
  /\ Ready("dispatcher")
  /\ dpc = "run" /\ dTask \notin Control
  /\ dpc' = "return"
  /\ UNCHANGED <<sharedVars, dState, taskList, dTask, dWoken, schedulerVars,
                 databaseVars, runtimeVars>>

-----------------------------------------------------------------------------
(* Game::setGameState(GAME_STATE_SHUTDOWN), called by sigintHandler and     *)
(* sigtermHandler.                                                          *)

\* A stage of a handler that leaves the lists and the clock alone.
Stage(from, to) ==
  /\ Ready("dispatcher")
  /\ dpc = from
  /\ dpc' = to
  /\ UNCHANGED <<now, due, dTask, dWoken, eventId, lastEventId, spc, sDeadline, sTask,
                 sWoken, bpc, bTask, bWoken, dFlush, mpc>>

HandleSignal ==
  /\ dTask \in Signal
  /\ \/ gameState = "SHUTDOWN" /\ Stage("run", "return") /\ UNCHANGED gameState
     \/ gameState # "SHUTDOWN" /\ Stage("run", "kick") /\ gameState' = "SHUTDOWN"
  /\ UNCHANGED <<owes, fate, dState, taskList, sState, eventList, eventIds, bState,
                 tasks, dRet, ioStop>>

\* The players are gone: saveGameState.
ShutdownSave ==
  /\ Stage("kick", "flush")
  /\ dRet' = "saved"
  /\ UNCHANGED <<owes, fate, dState, taskList, sState, eventList, eventIds, bState,
                 tasks, gameState, ioStop>>

PostShutdown ==
  /\ Stage("post", "stopScheduler")
  /\ AddTask("dispatcher", GameShutdown)
  /\ UNCHANGED <<dState, sState, eventList, eventIds, bState, tasks, dRet,
                 gameState, ioStop>>

\* Mutant of StopThreads: g_dispatcher.stop() is forgotten.
StopThreadsOpen ==
  /\ \/ /\ Stage("stopScheduler", "stopDatabase")
        /\ sState' = "CLOSING"
        /\ UNCHANGED <<bState, dState>>
     \/ /\ Stage("stopDatabase", "stopDispatcher")
        /\ bState' = "CLOSING"
        /\ UNCHANGED <<sState, dState>>
     \/ /\ Stage("stopDispatcher", "return")
        /\ UNCHANGED <<sState, bState, dState>>
  /\ UNCHANGED <<owes, fate, taskList, eventList, eventIds, tasks, dRet, gameState, ioStop>>

StopThreads ==
  /\ \/ /\ Stage("stopScheduler", "stopDatabase")
        /\ sState' = "CLOSING"
        /\ UNCHANGED <<bState, dState>>
     \/ /\ Stage("stopDatabase", "stopDispatcher")
        /\ bState' = "CLOSING"
        /\ UNCHANGED <<sState, dState>>
     \/ /\ Stage("stopDispatcher", "return")
        /\ dState' = "CLOSING"
        /\ UNCHANGED <<sState, bState>>
  /\ UNCHANGED <<owes, fate, taskList, eventList, eventIds, tasks, dRet, gameState, ioStop>>

-----------------------------------------------------------------------------
(* Game::shutdown                                                           *)

\* Scheduler::shutdown sets the state before it takes the lock.
TerminateScheduler ==
  /\ dTask = GameShutdown
  /\ Stage("run", "sClear")
  /\ sState' = "TERMINATED"
  /\ UNCHANGED <<owes, fate, dState, taskList, eventList, eventIds, bState, tasks,
                 dRet, gameState, ioStop>>

ClearScheduler ==
  /\ Stage("sClear", "sNotify")
  /\ ClearEvents
  /\ UNCHANGED <<owes, dState, taskList, sState, bState, tasks, dRet, gameState, ioStop>>

NotifyScheduler ==
  /\ Stage("sNotify", "bTerminate")
  /\ owes' = [owes EXCEPT !["dispatcher"] = "scheduler"]
  /\ UNCHANGED <<fate, dState, taskList, sState, eventList, eventIds, bState, tasks,
                 dRet, gameState, ioStop>>

\* DatabaseTasks::shutdown sets the state, flushes and notifies.
TerminateDatabase ==
  /\ Stage("bTerminate", "flush")
  /\ bState' = "TERMINATED"
  /\ dRet' = "bNotify"
  /\ UNCHANGED <<owes, fate, dState, taskList, sState, eventList, eventIds, tasks,
                 gameState, ioStop>>

NotifyDatabase ==
  /\ Stage("bNotify", "terminate")
  /\ owes' = [owes EXCEPT !["dispatcher"] = "database"]
  /\ UNCHANGED <<fate, dState, taskList, sState, eventList, eventIds, bState, tasks,
                 dRet, gameState, ioStop>>

\* Mutant of PostTerminate: the task goes through addTask.
PostTerminateChecked ==
  /\ Stage("terminate", "stopService")
  /\ AddTask("dispatcher", Terminate)
  /\ UNCHANGED <<dState, sState, eventList, eventIds, bState, tasks, dRet,
                 gameState, ioStop>>

\* Dispatcher::shutdown pushes its task whatever the dispatcher's state is; its
\* notify_one is for the thread that makes the call.
PostTerminate ==
  /\ Stage("terminate", "stopService")
  /\ taskList' = Append(taskList, Terminate)
  /\ fate' = [fate EXCEPT ![Terminate] = "queued"]
  /\ UNCHANGED <<owes, dState, sState, eventList, eventIds, bState, tasks, dRet,
                 gameState, ioStop>>

\* ServiceManager::stop starts the timer that ends the io_service.
StopService ==
  /\ Stage("stopService", "return")
  /\ ioStop' = TRUE
  /\ UNCHANGED <<owes, fate, dState, taskList, sState, eventList, eventIds, bState,
                 tasks, dRet, gameState>>

\* The task of Dispatcher::shutdown.
TerminateDispatcher ==
  /\ dTask = Terminate
  /\ Stage("run", "return")
  /\ dState' = "TERMINATED"
  /\ UNCHANGED <<owes, fate, taskList, sState, eventList, eventIds, bState, tasks,
                 dRet, gameState, ioStop>>

-----------------------------------------------------------------------------
(* main(): io_service.run, then the joins.                                  *)

InService == mpc = "io" /\ Ready("main")

\* A packet was parsed or a signal arrived.
IoAddTask(w) == InService /\ PostTask("main", w)

\* The acceptors and the status protocol schedule events from this thread.
IoAddEvent(e, delay) ==
  /\ InService
  /\ fate[e] = "new"
  /\ InTime(delay)
  /\ AddEvent("main", e, delay)
  /\ UNCHANGED <<databaseVars, runtimeVars>>

MainStep(from, to) ==
  /\ mpc = from
  /\ Ready("main")
  /\ mpc' = to
  /\ UNCHANGED <<sharedVars, dispatcherVars, schedulerVars, databaseVars, gameState, ioStop>>

ServiceDie == ioStop /\ MainStep("io", "joinScheduler")
JoinScheduler == spc = "exit" /\ MainStep("joinScheduler", "joinDatabase")
JoinDatabase == bpc = "exit" /\ MainStep("joinDatabase", "joinDispatcher")
JoinDispatcher == dpc = "exit" /\ MainStep("joinDispatcher", "end")

Tick ==
  /\ now < MaxTime
  /\ now' = now + 1
  /\ UNCHANGED <<due, fate, owes, dispatcherVars, schedulerVars, databaseVars, runtimeVars>>

-----------------------------------------------------------------------------
(* The specification                                                        *)

Handler ==
  \/ \E e \in Event : HandlerStopEvent(e) \/ \E d \in Delays : HandlerAddEvent(e, d)
  \/ \E q \in Query : HandlerAddQuery(q)
  \/ \E w \in Packet : HandlerAddTask(w)
  \/ HandlerSave

\* What the dispatcher does on its own account: it goes on until it waits.
DispatcherStep ==
  \/ /\ DispatcherLoop
     /\ UNCHANGED <<schedulerVars, databaseVars, runtimeVars>>
  \/ FlushTake /\ UNCHANGED runtimeVars
  \/ FlushRun /\ UNCHANGED runtimeVars
  \/ Saved
  \/ HandlerReturn
  \/ HandleSignal
  \/ ShutdownSave
  \/ PostShutdown
  \/ StopThreads
  \/ TerminateScheduler
  \/ ClearScheduler
  \/ NotifyScheduler
  \/ TerminateDatabase
  \/ NotifyDatabase
  \/ PostTerminate
  \/ StopService
  \/ TerminateDispatcher

SchedulerStep == SchedulerLoop /\ UNCHANGED <<databaseVars, runtimeVars>>
DatabaseStep == DatabaseLoop /\ UNCHANGED runtimeVars

Io ==
  \/ \E w \in Packet \cup Signal : IoAddTask(w)
  \/ \E e \in Event, d \in Delays : IoAddEvent(e, d)

MainEnd == ServiceDie \/ JoinScheduler \/ JoinDatabase \/ JoinDispatcher

\* The condition variables may also wake a thread that nobody notified.
SpuriousWake ==
  \/ DispSpuriousWake /\ UNCHANGED <<schedulerVars, databaseVars, runtimeVars>>
  \/ SchedSpuriousWake /\ UNCHANGED <<databaseVars, runtimeVars>>
  \/ DbSpuriousWake /\ UNCHANGED runtimeVars

\* The process has returned from main.
Ended == mpc = "end" /\ UNCHANGED vars

Next ==
  \/ Handler
  \/ DispatcherStep
  \/ SchedulerStep
  \/ DatabaseStep
  \/ \E th \in Thread : Notify(th)
  \/ Io
  \/ MainEnd
  \/ SpuriousWake
  \/ Tick
  \/ Ended

Spec == Init /\ [][Next]_vars

\* The operating system runs every thread that can run, and time passes. What
\* arrives from outside, what handlers choose to do and spurious wakeups are
\* under no obligation.
Fairness ==
  /\ WF_vars(DispatcherStep)
  /\ WF_vars(SchedulerStep)
  /\ WF_vars(DatabaseStep)
  /\ \A th \in Thread : WF_vars(Notify(th))
  /\ WF_vars(MainEnd)
  /\ WF_vars(Tick)

FairSpec == Spec /\ Fairness

-----------------------------------------------------------------------------
(* Properties                                                               *)

\* Every variable keeps its type.
TypeOK ==
  /\ SharedTypeOK
  /\ DispatcherTypeOK
  /\ SchedulerTypeOK
  /\ DatabaseTypeOK
  /\ gameState \in {"NORMAL", "MAINTAIN", "SHUTDOWN"}
  /\ ioStop \in BOOLEAN
  /\ mpc \in MainPc

Listed(list, w) == \E i \in DOMAIN list : list[i] = w
Distinct(list) == \A i, j \in DOMAIN list : list[i] = list[j] => i = j
Live(e) == e \in eventList /\ eventId[e] \in eventIds

\* A task is queued when the dispatcher's list has it, once.
QueuePlace ==
  /\ \A w \in Work : fate[w] = "queued" <=> Listed(taskList, w)
  /\ Distinct(taskList)

\* A query is pending when the database's list has it, once.
QueryPlace ==
  /\ \A q \in Query : fate[q] = "pending" <=> Listed(tasks, q)
  /\ Distinct(tasks)

\* An event is pending when it is in the queue and was not stopped.
EventPlace ==
  \A e \in Event : fate[e] = "pending" <=> Live(e)

\* What a thread has taken from a list is in the hands of that thread alone.
HandPlace ==
  /\ \A w \in Work :
       /\ fate[w] = "running" <=> w \in {dTask, bTask, dFlush}
       /\ fate[w] = "inflight" <=> w = sTask
  /\ dTask # None => dTask \notin {bTask, dFlush}
  /\ bTask # None => bTask # dFlush

\* Every work item is in exactly one place, and the place is the one its
\* history says: no task is deleted twice, run twice or leaked between a list
\* and a thread, however the dispatcher, the scheduler, the database thread and
\* flush() overlap.
OnePlace == QueuePlace /\ QueryPlace /\ EventPlace /\ HandPlace

\* A thread that waits although there is something for it to do has been
\* notified, or somebody is about to notify it: neither the condition "the list
\* was empty" of addTask nor the condition "the event is the top" of addEvent
\* is too weak, although the notification comes after the unlock.
NoLostWakeup ==
  /\ dpc = "wait" /\ taskList # <<>> => dWoken \/ Owed("dispatcher")
  /\ bpc = "wait" /\ tasks # <<>> => bWoken \/ Owed("database")
  /\ spc = "wait" /\ eventList # {} => sWoken \/ Owed("scheduler")
  /\ spc = "timedwait" /\ (\E e \in eventList : due[e] < sDeadline)
       => sWoken \/ Owed("scheduler")

\* The dispatcher leaves its loop last: nothing waits in any list, no query is
\* unexecuted except the one the database thread is at, and the other two
\* threads have been told to stop.  When main returns every item that was ever
\* created has met its end.
ShutdownComplete ==
  /\ dpc = "exit" =>
       /\ taskList = <<>> /\ tasks = <<>> /\ eventList = {}
       /\ sState = "TERMINATED" /\ bState = "TERMINATED"
       /\ ioStop
  /\ mpc = "end" => \A w \in Work : fate[w] \in {"new"} \cup Final

\* What has met its end stays there: a stopped event never runs although it
\* stays in the queue until it is popped, and nothing is run a second time.
FinalForGood == [][\A w \in Work : fate[w] \in Final => fate'[w] = fate[w]]_vars

Before(list, a, b) ==
  \E i, j \in DOMAIN list : list[i] = a /\ list[j] = b /\ i < j

\* Ordinary tasks are run in the order in which they were added: only events
\* go past those that wait.
FirstComeFirstServed ==
  [][taskList' # taskList => \A a \in Ordinary, b \in Ordinary :
       /\ Listed(taskList, a) /\ Listed(taskList', a)
       /\ Listed(taskList', b) /\ ~Before(taskList, b, a)
       => ~Before(taskList', b, a)]_vars

\* A timer that was added, a task in the dispatcher's list and a query that was
\* accepted meet their end: they are run (a query by its thread or by a flush),
\* stopped, expire or, at shutdown, are dropped.
WorkSettles == \A w \in Work : fate[w] \in {"pending", "queued"} ~> fate[w] \in Final

\* Once the shutdown has begun the dispatcher comes to its end.
DispatcherStops == gameState = "SHUTDOWN" ~> dpc = "exit"

\* signals.cpp:89 and 92 on SIGINT and SIGTERM, "Shuts the server down": main
\* joins the three threads and returns.
ServerStops == gameState = "SHUTDOWN" ~> mpc = "end"

-----------------------------------------------------------------------------
(* What the rest of the server may rely on when it uses a timer.            *)

Status(e) ==
  CASE fate[e] = "pending" -> "armed"
    [] fate[e] \in {"inflight", "queued"} -> "fired"
    [] fate[e] \in {"running", "done"} -> "ran"
    [] OTHER -> fate[e]

Contract == INSTANCE TimerContract WITH
  Timer <- Event,
  clock <- now,
  due <- [e \in Event |-> due[e]],
  status <- [e \in Event |-> Status(e)],
  open <- sState = "RUNNING"

\* The runtime implements the contract of a timer.
ImplementsContract == Contract!Spec
=============================================================================
