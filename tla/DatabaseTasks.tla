---------------------------- MODULE DatabaseTasks ----------------------------
(***************************************************************************)
(* DatabaseTasks (databasetasks.h, databasetasks.cpp): a thread that       *)
(* executes queries in the background, and flush(), with which the         *)
(* dispatcher executes the ones that are left itself. A query leaves the   *)
(* list before it is executed, so the two can be at work at the same time. *)
(***************************************************************************)
EXTENDS Scheduler

VARIABLES
  bState,   \* ThreadHolder::threadState
  tasks,    \* the queries nobody has taken yet
  bpc,      \* where the thread is
  bTask,    \* the query it is executing, or None
  bWoken,   \* it was notified while it waited on taskSignal
  dFlush,   \* the query the dispatcher is executing in flush(), or None
  dRet      \* the stage at which the caller of flush() continues

databaseVars == <<bState, tasks, bpc, bTask, bWoken, dFlush, dRet>>

DatabasePc == {"check", "lock", "wait", "runTask", "exit"}

DatabaseInit ==
  /\ bState = "RUNNING"
  /\ tasks = <<>>
  /\ bpc = "check"
  /\ bTask = None
  /\ bWoken = FALSE
  /\ dFlush = None
  /\ dRet = "return"

DatabaseTypeOK ==
  /\ bState \in ThreadState
  /\ tasks \in Seq(Query)
  /\ bpc \in DatabasePc
  /\ bTask \in Query \cup {None}
  /\ bWoken \in BOOLEAN
  /\ dFlush \in Query \cup {None}
  /\ dRet \in {"return", "saved", "bNotify"}

-----------------------------------------------------------------------------
(* Calls of the dispatcher's handlers.                                      *)

\* Mutant of AddQuery: the list is looked at after the push.
AddQueryAsleep(th, q) ==
  /\ \/ /\ bState = "RUNNING"
        /\ tasks' = Append(tasks, q)
        /\ fate' = [fate EXCEPT ![q] = "pending"]
        /\ owes' = [owes EXCEPT ![th] = IF tasks' = <<>> THEN "database" ELSE None]
     \/ /\ bState # "RUNNING"
        /\ fate' = [fate EXCEPT ![q] = "dropped"]
        /\ UNCHANGED <<tasks, owes>>
  /\ UNCHANGED <<now, due, dispatcherVars, schedulerVars, bState, bpc, bTask,
                 bWoken, dFlush, dRet>>

\* DatabaseTasks::addTask. A closing database forgets the query.
AddQuery(th, q) ==
  /\ \/ /\ bState = "RUNNING"
        /\ tasks' = Append(tasks, q)
        /\ fate' = [fate EXCEPT ![q] = "pending"]
        /\ owes' = [owes EXCEPT ![th] = IF tasks = <<>> THEN "database" ELSE None]
     \/ /\ bState # "RUNNING"
        /\ fate' = [fate EXCEPT ![q] = "dropped"]
        /\ UNCHANGED <<tasks, owes>>
  /\ UNCHANGED <<now, due, dispatcherVars, schedulerVars, bState, bpc, bTask,
                 bWoken, dFlush, dRet>>

\* DatabaseTasks::runTask by thread th, once the query is executed: a callback
\* goes to the dispatcher with the result.
RunTask(th, q) ==
  \/ q \in Callbacks /\ AddTask(th, q)
  \/ /\ q \notin Callbacks
     /\ fate' = [fate EXCEPT ![q] = "done"]
     /\ UNCHANGED <<taskList, owes>>

\* Mutant of FlushTake: the query stays in the list while it is executed.
FlushTakeKeeps ==
  /\ dpc = "flush"
  /\ tasks # <<>>
  /\ dFlush' = Head(tasks)
  /\ fate' = [fate EXCEPT ![Head(tasks)] = "running"]
  /\ dpc' = "flushRun"
  /\ UNCHANGED <<now, due, owes, dState, taskList, dTask, dWoken, schedulerVars,
                 bState, tasks, bpc, bTask, bWoken, dRet>>

\* One round of flush()'s loop up to guard.unlock(), or its end.
FlushTake ==
  /\ dpc = "flush"
  /\ \/ /\ tasks # <<>>
        /\ dFlush' = Head(tasks)
        /\ tasks' = Tail(tasks)
        /\ fate' = [fate EXCEPT ![Head(tasks)] = "running"]
        /\ dpc' = "flushRun"
     \/ tasks = <<>> /\ dpc' = dRet /\ UNCHANGED <<dFlush, tasks, fate>>
  /\ UNCHANGED <<now, due, owes, dState, taskList, dTask, dWoken, schedulerVars,
                 bState, bpc, bTask, bWoken, dRet>>

FlushRun ==
  /\ dpc = "flushRun"
  /\ RunTask("dispatcher", dFlush)
  /\ dFlush' = None
  /\ dpc' = "flush"
  /\ UNCHANGED <<now, due, dState, dTask, dWoken, schedulerVars, bState, tasks,
                 bpc, bTask, bWoken, dRet>>

-----------------------------------------------------------------------------
(* DatabaseTasks::threadMain                                                *)

DbCheck ==
  /\ bpc = "check"
  /\ bpc' = IF bState = "TERMINATED" THEN "exit" ELSE "lock"
  /\ UNCHANGED <<sharedVars, dispatcherVars, schedulerVars, bState, tasks, bTask,
                 bWoken, dFlush, dRet>>

TakeQuery ==
  /\ tasks # <<>>
  /\ bTask' = Head(tasks)
  /\ tasks' = Tail(tasks)
  /\ fate' = [fate EXCEPT ![Head(tasks)] = "running"]
  /\ bpc' = "runTask"

DbLock ==
  /\ bpc = "lock"
  /\ \/ TakeQuery
     \/ tasks = <<>> /\ bpc' = "wait" /\ UNCHANGED <<bTask, tasks, fate>>
  /\ UNCHANGED <<now, due, owes, dispatcherVars, schedulerVars, bState, bWoken,
                 dFlush, dRet>>

DbLeaveWait ==
  /\ bpc = "wait"
  /\ \/ TakeQuery
     \/ tasks = <<>> /\ bpc' = "check" /\ UNCHANGED <<bTask, tasks, fate>>
  /\ bWoken' = FALSE
  /\ UNCHANGED <<now, due, owes, dispatcherVars, schedulerVars, bState, dFlush, dRet>>

DbWake == bWoken /\ DbLeaveWait
DbSpuriousWake == ~bWoken /\ DbLeaveWait

DbRunTask ==
  /\ bpc = "runTask"
  /\ RunTask("database", bTask)
  /\ bTask' = None
  /\ bpc' = "check"
  /\ UNCHANGED <<now, due, dState, dpc, dTask, dWoken, schedulerVars, bState, tasks,
                 bWoken, dFlush, dRet>>

DatabaseLoop ==
  /\ Ready("database")
  /\ DbCheck \/ DbLock \/ DbWake \/ DbRunTask
=============================================================================
