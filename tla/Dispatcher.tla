------------------------------ MODULE Dispatcher ------------------------------
(***************************************************************************)
(* Dispatcher (tasks.h, tasks.cpp): one thread that runs, one at a time,   *)
(* the tasks other threads push on taskList. A critical section under      *)
(* taskLock is one step; the notify_one that follows it is another.        *)
(***************************************************************************)
EXTENDS WorkItems

VARIABLES
  dState,    \* ThreadHolder::threadState
  taskList,
  dpc,       \* where the thread is
  dTask,     \* the task it took, or None
  dWoken     \* it was notified while it waited on taskSignal

dispatcherVars == <<dState, taskList, dpc, dTask, dWoken>>

\* Where the thread is inside threadMain.
LoopPc == {"check", "lock", "wait", "task", "run", "return", "exit"}

\* The stages of the handlers that ServerRuntime describes: setGameState(
\* GAME_STATE_SHUTDOWN) from kick to stopDispatcher, saveGameState with its
\* flush, and Game::shutdown from sClear to stopService.
HandlerPc == {"flush", "flushRun", "saved", "kick", "post", "stopScheduler",
              "stopDatabase", "stopDispatcher", "sClear", "sNotify", "bTerminate",
              "bNotify", "terminate", "stopService"}

DispatcherInit ==
  /\ dState = "RUNNING"
  /\ taskList = <<>>
  /\ dpc = "check"
  /\ dTask = None
  /\ dWoken = FALSE

DispatcherTypeOK ==
  /\ dState \in ThreadState
  /\ taskList \in Seq(Work)
  /\ dpc \in LoopPc \cup HandlerPc
  /\ dTask \in Work \cup {None}
  /\ dWoken \in BOOLEAN

-----------------------------------------------------------------------------
(* Calls of other components and of the running task.                       *)

\* Mutant of Accept: do_signal is computed after the push.
AcceptAsleep(th, w, list) ==
  /\ dState = "RUNNING"
  /\ taskList' = list
  /\ fate' = [fate EXCEPT ![w] = "queued"]
  /\ owes' = [owes EXCEPT ![th] = IF list = <<>> THEN "dispatcher" ELSE None]

\* Dispatcher::addTask by thread th: list is taskList with w pushed at the
\* back or at the front. The list was empty exactly when a signal is due; a
\* dispatcher that pushes on its own list has nobody to wake.
Accept(th, w, list) ==
  /\ dState = "RUNNING"
  /\ taskList' = list
  /\ fate' = [fate EXCEPT ![w] = "queued"]
  /\ owes' = [owes EXCEPT ![th] =
                IF taskList = <<>> /\ th # "dispatcher" THEN "dispatcher" ELSE None]

\* The task is deleted when the dispatcher is closing: a query that comes back
\* for its callback has been executed, anything else has not.
Refuse(w) ==
  /\ dState # "RUNNING"
  /\ fate' = [fate EXCEPT ![w] = IF w \in Query THEN "unheard" ELSE "dropped"]
  /\ UNCHANGED <<taskList, owes>>

\* AddTaskFront, with push_front, is also a mutant of AddTask.
AddTaskFront(th, w) == Accept(th, w, <<w>> \o taskList) \/ Refuse(w)
AddTask(th, w) == Accept(th, w, Append(taskList, w)) \/ Refuse(w)

-----------------------------------------------------------------------------
(* Dispatcher::threadMain                                                   *)

DispCheck ==
  /\ dpc = "check"
  /\ dpc' = IF dState = "TERMINATED" THEN "exit" ELSE "lock"
  /\ UNCHANGED <<sharedVars, dState, taskList, dTask, dWoken>>

TakeTask ==
  /\ taskList # <<>>
  /\ dTask' = Head(taskList)
  /\ taskList' = Tail(taskList)
  /\ fate' = [fate EXCEPT ![Head(taskList)] = "running"]
  /\ dpc' = "task"

DispLock ==
  /\ dpc = "lock"
  /\ \/ TakeTask
     \/ taskList = <<>> /\ dpc' = "wait" /\ UNCHANGED <<taskList, dTask, fate>>
  /\ UNCHANGED <<now, due, owes, dState, dWoken>>

\* Back from taskSignal.wait with the lock held: the list is looked at once
\* more, and an empty one only leads back to the loop's condition.
LeaveWait ==
  /\ dpc = "wait"
  /\ \/ TakeTask
     \/ taskList = <<>> /\ dpc' = "check" /\ UNCHANGED <<taskList, dTask, fate>>
  /\ dWoken' = FALSE
  /\ UNCHANGED <<now, due, owes, dState>>

DispWake == dWoken /\ LeaveWait
DispSpuriousWake == ~dWoken /\ LeaveWait

\* An expired task is deleted without being run.
DispStart ==
  /\ dpc = "task"
  /\ \/ /\ HasExpired(dTask)
        /\ fate' = [fate EXCEPT ![dTask] = "expired"]
        /\ dTask' = None
        /\ dpc' = "check"
     \/ /\ ~HasExpired(dTask)
        /\ dpc' = "run"
        /\ UNCHANGED <<fate, dTask>>
  /\ UNCHANGED <<now, due, owes, dState, taskList, dWoken>>

\* The handler returns and the task is deleted.
DispReturn ==
  /\ dpc = "return"
  /\ Ready("dispatcher")
  /\ fate' = [fate EXCEPT ![dTask] = "done"]
  /\ dTask' = None
  /\ dpc' = "check"
  /\ UNCHANGED <<now, due, owes, dState, taskList, dWoken>>

DispatcherLoop == DispCheck \/ DispLock \/ DispWake \/ DispStart \/ DispReturn
=============================================================================
