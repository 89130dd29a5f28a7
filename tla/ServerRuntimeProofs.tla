------------------------- MODULE ServerRuntimeProofs -------------------------
(***************************************************************************)
(* Theorems about ServerRuntime for every supply of work items, every      *)
(* clock bound and every choice of delays: its type, that every work item  *)
(* is in exactly one place, that no notification of a condition variable   *)
(* is lost while there is work, what becomes of an item step by step, and  *)
(* that the timers of the scheduler keep the contract of TimerContract.    *)
(***************************************************************************)
EXTENDS ServerRuntime, SequenceTheorems, FiniteSetTheorems, TLAPS

-----------------------------------------------------------------------------
(* Facts about lists, kinds of work items and ids.                          *)

\* Taking the first element of a list.
LEMMA TakeFirst ==
  ASSUME NEW S, NEW s \in Seq(S), s # <<>>
  PROVE  /\ Head(s) \in S
         /\ Tail(s) \in Seq(S)
BY HeadTailProperties

\* Adding an element at either end.
LEMMA AddOne ==
  ASSUME NEW S, NEW s \in Seq(S), NEW w \in S
  PROVE  /\ Append(s, w) \in Seq(S)
         /\ <<w>> \o s \in Seq(S)
<1>1. <<w>> \in Seq(S)
  OBVIOUS
<1>2. <<w>> \o s \in Seq(S)
  BY <1>1, ConcatProperties
<1>3. Append(s, w) \in Seq(S)
  OBVIOUS
<1> QED BY <1>2, <1>3

\* Every kind of item is an item, and None is none.
LEMMA WorkKinds ==
  /\ Event \subseteq Work /\ Query \subseteq Work /\ Packet \subseteq Work
  /\ Signal \subseteq Work /\ GameShutdown \in Work /\ Terminate \in Work
  /\ None \notin Work /\ None \notin Event /\ None \notin Query
BY KindsAssumption DEF Work, Ordinary, Control

\* The next event id is in range.
LEMMA NextIdType ==
  ASSUME lastEventId \in 0..ID_MAX
  PROVE  NextId \in 1..ID_MAX
BY IdAssumption DEF NextId

-----------------------------------------------------------------------------
(* Type correctness. A thread's hands are full exactly at the stages that   *)
(* say so: without this a None could be put on a list.                      *)

HandsOK ==
  /\ spc = "handoff" <=> sTask # None
  /\ bpc = "runTask" <=> bTask # None
  /\ dpc = "flushRun" <=> dFlush # None
  /\ dpc \in {"check", "lock", "wait", "exit"} <=> dTask = None

TypeInv == TypeOK /\ HandsOK

USE DEF ThreadState, Fate, Thread, Worker, SchedulerPc, DatabasePc, MainPc, LoopPc,
        HandlerPc

\* The initial state is well typed.
LEMMA TypeInit == Init => TypeInv
<1> SUFFICES ASSUME Init PROVE TypeInv
  OBVIOUS
<1>1. SharedTypeOK
  BY DEF Init, SharedInit, SharedTypeOK
<1>a. /\ <<>> \in Seq(Work) /\ <<>> \in Seq(Query)
      /\ [e \in Event |-> 0] \in [Event -> 0..ID_MAX] /\ 0 \in 0..ID_MAX
  BY IdAssumption
<1>2. DispatcherTypeOK
  BY <1>a DEF Init, DispatcherInit, DispatcherTypeOK
<1>3. SchedulerTypeOK
  BY <1>a DEF Init, SchedulerInit, SchedulerTypeOK
<1>4. DatabaseTypeOK
  BY <1>a DEF Init, DatabaseInit, DatabaseTypeOK
<1> QED
  BY <1>1, <1>2, <1>3, <1>4 DEF Init, DispatcherInit, SchedulerInit, DatabaseInit,
     TypeInv, TypeOK, HandsOK

\* A component whose variables do not change keeps its types.
LEMMA SharedUnchanged == SharedTypeOK /\ UNCHANGED sharedVars => SharedTypeOK'
BY DEF SharedTypeOK, sharedVars
\* A step that leaves the dispatcher alone keeps the types of its variables.
LEMMA DispatcherUnchanged ==
  DispatcherTypeOK /\ UNCHANGED dispatcherVars => DispatcherTypeOK'
BY DEF DispatcherTypeOK, dispatcherVars
\* The same for the scheduler.
LEMMA SchedulerUnchanged ==
  SchedulerTypeOK /\ UNCHANGED schedulerVars => SchedulerTypeOK'
BY DEF SchedulerTypeOK, schedulerVars
\* The same for the database thread.
LEMMA DatabaseUnchanged ==
  DatabaseTypeOK /\ UNCHANGED databaseVars => DatabaseTypeOK'
BY DEF DatabaseTypeOK, databaseVars

\* Dispatcher::addTask, whoever calls it.
LEMMA AddTaskType ==
  ASSUME TypeOK, NEW th \in Thread, NEW w \in Work,
         AddTask(th, w) \/ AddTaskFront(th, w)
  PROVE  /\ taskList' \in Seq(Work)
         /\ fate' \in [Work -> Fate]
         /\ owes' \in [Thread -> Worker \cup {None}]
<1>1. /\ Append(taskList, w) \in Seq(Work)
      /\ <<w>> \o taskList \in Seq(Work)
  BY AddOne DEF TypeOK, DispatcherTypeOK
<1>2. taskList' \in Seq(Work)
  BY <1>1 DEF TypeOK, DispatcherTypeOK, AddTask, AddTaskFront, Accept, Refuse
<1>3. fate' \in [Work -> Fate]
  BY DEF TypeOK, SharedTypeOK, AddTask, AddTaskFront, Accept, Refuse
<1>4. owes' \in [Thread -> Worker \cup {None}]
  BY DEF TypeOK, SharedTypeOK, AddTask, AddTaskFront, Accept, Refuse
<1> QED
  BY <1>2, <1>3, <1>4

\* DatabaseTasks::runTask.
LEMMA RunTaskType ==
  ASSUME TypeOK, NEW th \in Thread, NEW q \in Query, RunTask(th, q)
  PROVE  /\ taskList' \in Seq(Work)
         /\ fate' \in [Work -> Fate]
         /\ owes' \in [Thread -> Worker \cup {None}]
<1>1. q \in Work
  BY WorkKinds
<1>2. CASE AddTask(th, q)
  BY <1>1, <1>2, AddTaskType
<1>3. CASE fate' = [fate EXCEPT ![q] = "done"] /\ UNCHANGED <<taskList, owes>>
  BY <1>3 DEF TypeOK, SharedTypeOK, DispatcherTypeOK
<1> QED BY <1>2, <1>3 DEF RunTask

\* createTask and Dispatcher::addTask.
LEMMA TypePostTask ==
  ASSUME TypeInv, NEW th \in Thread, NEW w \in Packet \cup Signal, PostTask(th, w)
  PROVE  TypeInv'
<1>1. w \in Work
  BY WorkKinds
<1>2. /\ taskList' \in Seq(Work) /\ fate' \in [Work -> Fate]
      /\ owes' \in [Thread -> Worker \cup {None}]
  BY <1>1, AddTaskType DEF PostTask, TypeInv
<1>3. SharedTypeOK'
  BY <1>1, <1>2, WorkAssumption DEF PostTask, TypeInv, TypeOK, SharedTypeOK
<1>4. DispatcherTypeOK'
  BY <1>2 DEF PostTask, TypeInv, TypeOK, DispatcherTypeOK
<1>5. SchedulerTypeOK' /\ DatabaseTypeOK'
  BY SchedulerUnchanged, DatabaseUnchanged DEF PostTask, TypeInv, TypeOK
<1>6. HandsOK'
  BY DEF PostTask, TypeInv, HandsOK, schedulerVars, databaseVars
<1> QED
  BY <1>3, <1>4, <1>5, <1>6 DEF PostTask, TypeInv, TypeOK, runtimeVars

\* createSchedulerTask and Scheduler::addEvent.
LEMMA TypeAddEvent ==
  ASSUME TypeInv, NEW th \in Thread, NEW e \in Event, NEW d \in Delays,
         AddEvent(th, e, d), UNCHANGED <<databaseVars, runtimeVars>>
  PROVE  TypeInv'
<1>1. e \in Work /\ d \in Nat
  BY WorkKinds, WorkAssumption
<1>2. CASE AcceptEvent(th, e, d)
  <2>1. SharedTypeOK'
    BY <1>1, <1>2 DEF AddEvent, AcceptEvent, TypeInv, TypeOK, SharedTypeOK
  <2>a. NextId \in 1..ID_MAX
    BY NextIdType DEF TypeInv, TypeOK, SchedulerTypeOK
  <2>b. eventId' \in [Event -> 0..ID_MAX]
    BY <1>2, <2>a, IdAssumption DEF AcceptEvent, TypeInv, TypeOK, SchedulerTypeOK
  <2>c. eventIds' \subseteq 1..ID_MAX /\ lastEventId' \in 0..ID_MAX
    BY <1>2, <2>a, IdAssumption DEF AcceptEvent, TypeInv, TypeOK, SchedulerTypeOK
  <2>2. SchedulerTypeOK'
    BY <1>2, <2>b, <2>c DEF AddEvent, AcceptEvent, TypeInv, TypeOK, SchedulerTypeOK
  <2> QED
    BY <2>1, <2>2, DispatcherUnchanged, DatabaseUnchanged
    DEF AddEvent, TypeInv, TypeOK, HandsOK, dispatcherVars, databaseVars, runtimeVars
<1>3. CASE RefuseEvent(e)
  <2>1. SharedTypeOK'
    BY <1>1, <1>3 DEF AddEvent, RefuseEvent, TypeInv, TypeOK, SharedTypeOK
  <2>2. SchedulerTypeOK'
    BY <1>3 DEF AddEvent, RefuseEvent, TypeInv, TypeOK, SchedulerTypeOK
  <2> QED
    BY <2>1, <2>2, DispatcherUnchanged, DatabaseUnchanged
    DEF AddEvent, TypeInv, TypeOK, HandsOK, dispatcherVars, databaseVars, runtimeVars
<1> QED BY <1>2, <1>3 DEF AddEvent

\* What handlers do.
LEMMA TypeHandler == TypeInv /\ Handler => TypeInv'
<1> SUFFICES ASSUME TypeInv, Handler PROVE TypeInv'
  OBVIOUS
<1>1. ASSUME NEW e \in Event, HandlerStopEvent(e) PROVE TypeInv'
  <2>1. SharedTypeOK'
    BY <1>1, WorkKinds DEF HandlerStopEvent, StopEvent, TypeInv, TypeOK, SharedTypeOK
  <2>2. SchedulerTypeOK'
    BY <1>1 DEF HandlerStopEvent, StopEvent, TypeInv, TypeOK, SchedulerTypeOK
  <2> QED
    BY <1>1, <2>1, <2>2, DispatcherUnchanged, DatabaseUnchanged
    DEF HandlerStopEvent, StopEvent, TypeInv, TypeOK, HandsOK, dispatcherVars,
        databaseVars, runtimeVars
<1>2. ASSUME NEW e \in Event, NEW d \in Delays, HandlerAddEvent(e, d) PROVE TypeInv'
  BY <1>2, TypeAddEvent DEF HandlerAddEvent
<1>3. ASSUME NEW q \in Query, HandlerAddQuery(q) PROVE TypeInv'
  <2>1. Append(tasks, q) \in Seq(Query)
    BY AddOne DEF TypeInv, TypeOK, DatabaseTypeOK
  <2>2. SharedTypeOK'
    BY <1>3, WorkKinds DEF HandlerAddQuery, AddQuery, TypeInv, TypeOK, SharedTypeOK
  <2>3. DatabaseTypeOK'
    BY <1>3, <2>1 DEF HandlerAddQuery, AddQuery, TypeInv, TypeOK, DatabaseTypeOK
  <2> QED
    BY <1>3, <2>2, <2>3, DispatcherUnchanged, SchedulerUnchanged
    DEF HandlerAddQuery, AddQuery, TypeInv, TypeOK, HandsOK, dispatcherVars,
        schedulerVars, runtimeVars
<1>4. ASSUME NEW w \in Packet, HandlerAddTask(w) PROVE TypeInv'
  BY <1>4, TypePostTask DEF HandlerAddTask
<1>5. CASE HandlerSave
  <2>1. DispatcherTypeOK' /\ DatabaseTypeOK'
    BY <1>5 DEF HandlerSave, TypeInv, TypeOK, DispatcherTypeOK, DatabaseTypeOK
  <2> QED
    BY <1>5, <2>1, SharedUnchanged, SchedulerUnchanged
    DEF HandlerSave, TypeInv, TypeOK, HandsOK, schedulerVars
<1> QED
  BY <1>1, <1>2, <1>3, <1>4, <1>5 DEF Handler

\* Dispatcher::threadMain.
LEMMA TypeDispatcherLoop ==
  ASSUME TypeInv, DispatcherLoop \/ DispSpuriousWake,
         UNCHANGED <<schedulerVars, databaseVars, runtimeVars>>
  PROVE  TypeInv'
<1>1. taskList # <<>> => Head(taskList) \in Work /\ Tail(taskList) \in Seq(Work)
  BY TakeFirst DEF TypeInv, TypeOK, DispatcherTypeOK
<1>2. SharedTypeOK'
  BY <1>1 DEF DispatcherLoop, DispCheck, DispLock, DispWake, DispSpuriousWake, LeaveWait,
     TakeTask, DispStart, DispReturn, TypeInv, TypeOK, SharedTypeOK, DispatcherTypeOK, sharedVars
<1>3. taskList' \in Seq(Work) /\ dTask' \in Work \cup {None}
  BY <1>1 DEF DispatcherLoop, DispCheck, DispLock, DispWake, DispSpuriousWake, LeaveWait,
     TakeTask, DispStart, DispReturn, TypeInv, TypeOK, DispatcherTypeOK
<1>4. DispatcherTypeOK'
  BY <1>3 DEF DispatcherLoop, DispCheck, DispLock, DispWake, DispSpuriousWake, LeaveWait,
     TakeTask, DispStart, DispReturn, TypeInv, TypeOK, DispatcherTypeOK
<1>5. HandsOK'
  BY <1>1, WorkKinds DEF DispatcherLoop, DispCheck, DispLock, DispWake, DispSpuriousWake,
     LeaveWait, TakeTask, DispStart, DispReturn, TypeInv, HandsOK, schedulerVars, databaseVars
<1> QED
  BY <1>2, <1>4, <1>5, SchedulerUnchanged, DatabaseUnchanged DEF TypeInv, TypeOK, runtimeVars

\* DatabaseTasks::flush.
LEMMA TypeFlush ==
  ASSUME TypeInv, FlushTake \/ FlushRun, UNCHANGED runtimeVars
  PROVE  TypeInv'
<1>1. tasks # <<>> => Head(tasks) \in Query /\ Tail(tasks) \in Seq(Query)
  BY TakeFirst DEF TypeInv, TypeOK, DatabaseTypeOK
<1>2. CASE FlushTake
  <2>1. SharedTypeOK'
    BY <1>1, <1>2, WorkKinds DEF FlushTake, TypeInv, TypeOK, SharedTypeOK
  <2>2. DispatcherTypeOK'
    BY <1>2 DEF FlushTake, TypeInv, TypeOK, DispatcherTypeOK, DatabaseTypeOK
  <2>3. DatabaseTypeOK'
    BY <1>1, <1>2 DEF FlushTake, TypeInv, TypeOK, DatabaseTypeOK
  <2>4. HandsOK'
    BY <1>1, <1>2, WorkKinds DEF FlushTake, TypeInv, TypeOK, HandsOK, DatabaseTypeOK, schedulerVars
  <2> QED
    BY <1>2, <2>1, <2>2, <2>3, <2>4, SchedulerUnchanged DEF FlushTake, TypeInv, TypeOK, runtimeVars
<1>3. CASE FlushRun
  <2>1. dFlush \in Query
    BY <1>3 DEF FlushRun, TypeInv, TypeOK, HandsOK, DatabaseTypeOK
  <2>2. /\ taskList' \in Seq(Work) /\ fate' \in [Work -> Fate]
        /\ owes' \in [Thread -> Worker \cup {None}]
    BY <1>3, <2>1, RunTaskType DEF FlushRun, TypeInv
  <2>3. SharedTypeOK' /\ DispatcherTypeOK' /\ DatabaseTypeOK'
    BY <1>3, <2>2 DEF FlushRun, TypeInv, TypeOK, SharedTypeOK, DispatcherTypeOK, DatabaseTypeOK
  <2>4. HandsOK'
    BY <1>3 DEF FlushRun, TypeInv, HandsOK, schedulerVars
  <2> QED
    BY <1>3, <2>3, <2>4, SchedulerUnchanged DEF FlushRun, TypeInv, TypeOK, runtimeVars
<1> QED BY <1>2, <1>3

\* The handlers' own stages.
LEMMA TypeStages ==
  ASSUME TypeInv,
         \/ Saved \/ HandlerReturn \/ HandleSignal \/ ShutdownSave \/ StopThreads
         \/ TerminateScheduler \/ NotifyScheduler \/ TerminateDatabase
         \/ NotifyDatabase \/ StopService \/ TerminateDispatcher
  PROVE  TypeInv'
<1> USE DEF Saved, HandlerReturn, HandleSignal, ShutdownSave, StopThreads,
            TerminateScheduler, NotifyScheduler, TerminateDatabase, NotifyDatabase,
            StopService, TerminateDispatcher, Stage, sharedVars, dispatcherVars,
            schedulerVars, databaseVars, runtimeVars
<1>1. SharedTypeOK'
  BY DEF TypeInv, TypeOK, SharedTypeOK
<1>2. DispatcherTypeOK'
  BY DEF TypeInv, TypeOK, DispatcherTypeOK
<1>3. SchedulerTypeOK'
  BY DEF TypeInv, TypeOK, SchedulerTypeOK
<1>4. DatabaseTypeOK'
  BY DEF TypeInv, TypeOK, DatabaseTypeOK
<1>5. HandsOK'
  BY WorkKinds DEF TypeInv, HandsOK
<1>6. /\ gameState' \in {"NORMAL", "MAINTAIN", "SHUTDOWN"}
      /\ ioStop' \in BOOLEAN /\ mpc' \in MainPc
  BY DEF TypeInv, TypeOK
<1> QED
  BY <1>1, <1>2, <1>3, <1>4, <1>5, <1>6 DEF TypeInv, TypeOK

\* The stages that touch a list.
LEMMA TypeLists ==
  ASSUME TypeInv, PostShutdown \/ PostTerminate \/ ClearScheduler
  PROVE  TypeInv'
<1>1. CASE PostShutdown
  <2>1. /\ taskList' \in Seq(Work) /\ fate' \in [Work -> Fate]
        /\ owes' \in [Thread -> Worker \cup {None}]
    BY <1>1, WorkKinds, AddTaskType DEF PostShutdown, TypeInv
  <2>2. SharedTypeOK' /\ DispatcherTypeOK'
    BY <1>1, <2>1 DEF PostShutdown, Stage, TypeInv, TypeOK, SharedTypeOK, DispatcherTypeOK
  <2>3. UNCHANGED <<schedulerVars, databaseVars>>
    BY <1>1 DEF PostShutdown, Stage, schedulerVars, databaseVars
  <2>4. HandsOK'
    BY <1>1, <2>3 DEF PostShutdown, Stage, TypeInv, HandsOK, schedulerVars, databaseVars
  <2> QED
    BY <1>1, <2>2, <2>3, <2>4, SchedulerUnchanged, DatabaseUnchanged
    DEF PostShutdown, Stage, TypeInv, TypeOK
<1>2. CASE PostTerminate
  <2>1. Append(taskList, Terminate) \in Seq(Work)
    BY WorkKinds, AddOne DEF TypeInv, TypeOK, DispatcherTypeOK
  <2>2. SharedTypeOK' /\ DispatcherTypeOK'
    BY <1>2, <2>1 DEF PostTerminate, Stage, TypeInv, TypeOK, SharedTypeOK, DispatcherTypeOK
  <2>3. UNCHANGED <<schedulerVars, databaseVars>>
    BY <1>2 DEF PostTerminate, Stage, schedulerVars, databaseVars
  <2>4. HandsOK'
    BY <1>2, <2>3 DEF PostTerminate, Stage, TypeInv, HandsOK, schedulerVars, databaseVars
  <2> QED
    BY <1>2, <2>2, <2>3, <2>4, SchedulerUnchanged, DatabaseUnchanged
    DEF PostTerminate, Stage, TypeInv, TypeOK
<1>3. CASE ClearScheduler
  <2>1. SharedTypeOK' /\ DispatcherTypeOK'
    BY <1>3 DEF ClearScheduler, ClearEvents, Fates, Stage, TypeInv, TypeOK, SharedTypeOK,
       DispatcherTypeOK
  <2>2. SchedulerTypeOK'
    BY <1>3 DEF ClearScheduler, ClearEvents, Stage, TypeInv, TypeOK, SchedulerTypeOK
  <2>3. UNCHANGED databaseVars
    BY <1>3 DEF ClearScheduler, Stage, databaseVars
  <2>4. HandsOK'
    BY <1>3, <2>3 DEF ClearScheduler, Stage, TypeInv, HandsOK, databaseVars
  <2> QED
    BY <1>3, <2>1, <2>2, <2>3, <2>4, DatabaseUnchanged DEF ClearScheduler, Stage, TypeInv, TypeOK
<1> QED BY <1>1, <1>2, <1>3

\* Every step of the dispatcher keeps the types.
LEMMA TypeDispatcher == TypeInv /\ DispatcherStep => TypeInv'
BY TypeDispatcherLoop, TypeFlush, TypeStages, TypeLists DEF DispatcherStep

\* Scheduler::threadMain.
LEMMA TypeScheduler ==
  ASSUME TypeInv, SchedulerLoop \/ SchedSpuriousWake, UNCHANGED <<databaseVars, runtimeVars>>
  PROVE  TypeInv'
<1>1. CASE SchedCheck \/ SchedLock \/ SchedWake \/ SchedSpuriousWake
  <2> USE DEF SchedCheck, SchedLock, SchedWake, SchedSpuriousWake, SchedLeaveWait, Tops,
              sharedVars, dispatcherVars
  <2>1. \A top \in Tops : due[top] \in Nat
    BY WorkKinds DEF TypeInv, TypeOK, SharedTypeOK, SchedulerTypeOK
  <2>2. SchedulerTypeOK'
    BY <1>1, <2>1 DEF TypeInv, TypeOK, SchedulerTypeOK
  <2>3. HandsOK'
    BY <1>1 DEF TypeInv, HandsOK, databaseVars
  <2> QED
    BY <1>1, <2>2, <2>3, SharedUnchanged, DispatcherUnchanged, DatabaseUnchanged
    DEF TypeInv, TypeOK, runtimeVars
<1>2. CASE SchedTimeout
  <2>1. SharedTypeOK'
    BY <1>2, WorkKinds DEF SchedTimeout, Tops, TypeInv, TypeOK, SharedTypeOK, SchedulerTypeOK
  <2>2. SchedulerTypeOK'
    BY <1>2 DEF SchedTimeout, Tops, TypeInv, TypeOK, SchedulerTypeOK
  <2>3. HandsOK'
    BY <1>2, WorkKinds DEF SchedTimeout, Tops, TypeInv, TypeOK, SchedulerTypeOK, HandsOK,
       dispatcherVars, databaseVars
  <2> QED
    BY <1>2, <2>1, <2>2, <2>3, DispatcherUnchanged, DatabaseUnchanged
    DEF SchedTimeout, TypeInv, TypeOK, runtimeVars
<1>3. CASE SchedHandoff
  <2>1. sTask \in Work
    BY <1>3, WorkKinds DEF SchedHandoff, TypeInv, TypeOK, HandsOK, SchedulerTypeOK
  <2>2. /\ taskList' \in Seq(Work) /\ fate' \in [Work -> Fate]
        /\ owes' \in [Thread -> Worker \cup {None}]
    BY <1>3, <2>1, AddTaskType DEF SchedHandoff, TypeInv
  <2>3. SharedTypeOK' /\ DispatcherTypeOK' /\ SchedulerTypeOK'
    BY <1>3, <2>2 DEF SchedHandoff, TypeInv, TypeOK, SharedTypeOK, DispatcherTypeOK, SchedulerTypeOK
  <2>4. HandsOK'
    BY <1>3 DEF SchedHandoff, TypeInv, HandsOK, databaseVars
  <2> QED
    BY <1>3, <2>3, <2>4, DatabaseUnchanged DEF SchedHandoff, TypeInv, TypeOK, runtimeVars
<1> QED BY <1>1, <1>2, <1>3 DEF SchedulerLoop

\* DatabaseTasks::threadMain.
LEMMA TypeDatabase ==
  ASSUME TypeInv, DatabaseLoop \/ DbSpuriousWake, UNCHANGED runtimeVars
  PROVE  TypeInv'
<1>1. tasks # <<>> => Head(tasks) \in Query /\ Tail(tasks) \in Seq(Query)
  BY TakeFirst DEF TypeInv, TypeOK, DatabaseTypeOK
<1>2. CASE DbCheck \/ DbLock \/ DbWake \/ DbSpuriousWake
  <2> USE DEF DbCheck, DbLock, DbWake, DbSpuriousWake, DbLeaveWait, TakeQuery
  <2>1. SharedTypeOK'
    BY <1>1, <1>2, WorkKinds DEF TypeInv, TypeOK, SharedTypeOK, sharedVars
  <2>2. DatabaseTypeOK'
    BY <1>1, <1>2 DEF TypeInv, TypeOK, DatabaseTypeOK
  <2>3. HandsOK'
    BY <1>1, <1>2, WorkKinds DEF TypeInv, HandsOK, dispatcherVars, schedulerVars
  <2> QED
    BY <1>2, <2>1, <2>2, <2>3, DispatcherUnchanged, SchedulerUnchanged
    DEF TypeInv, TypeOK, runtimeVars
<1>3. CASE DbRunTask
  <2>1. bTask \in Query
    BY <1>3 DEF DbRunTask, TypeInv, TypeOK, HandsOK, DatabaseTypeOK
  <2>2. /\ taskList' \in Seq(Work) /\ fate' \in [Work -> Fate]
        /\ owes' \in [Thread -> Worker \cup {None}]
    BY <1>3, <2>1, RunTaskType DEF DbRunTask, TypeInv
  <2>3. SharedTypeOK' /\ DispatcherTypeOK' /\ DatabaseTypeOK'
    BY <1>3, <2>2 DEF DbRunTask, TypeInv, TypeOK, SharedTypeOK, DispatcherTypeOK, DatabaseTypeOK
  <2>4. HandsOK'
    BY <1>3 DEF DbRunTask, TypeInv, HandsOK, schedulerVars
  <2> QED
    BY <1>3, <2>3, <2>4, SchedulerUnchanged DEF DbRunTask, TypeInv, TypeOK, runtimeVars
<1> QED BY <1>2, <1>3 DEF DatabaseLoop

\* The main thread, notifications and the clock.
LEMMA TypeRest ==
  ASSUME TypeInv, (\E th \in Thread : Notify(th)) \/ Io \/ MainEnd \/ Tick
  PROVE  TypeInv'
<1>1. ASSUME NEW th \in Thread, Notify(th) PROVE TypeInv'
  <2>1. SharedTypeOK'
    BY <1>1 DEF Notify, TypeInv, TypeOK, SharedTypeOK
  <2>2. DispatcherTypeOK' /\ SchedulerTypeOK' /\ DatabaseTypeOK'
    BY <1>1 DEF Notify, Wake, TypeInv, TypeOK, DispatcherTypeOK, SchedulerTypeOK, DatabaseTypeOK
  <2> QED
    BY <1>1, <2>1, <2>2 DEF Notify, TypeInv, TypeOK, HandsOK, runtimeVars
<1>2. CASE Io
  BY <1>2, TypePostTask, TypeAddEvent DEF Io, IoAddTask, IoAddEvent
<1>3. CASE MainEnd
  BY <1>3, SharedUnchanged, DispatcherUnchanged, SchedulerUnchanged, DatabaseUnchanged
  DEF MainEnd, ServiceDie, JoinScheduler, JoinDatabase, JoinDispatcher, MainStep,
      TypeInv, TypeOK, HandsOK, dispatcherVars, schedulerVars, databaseVars
<1>4. CASE Tick
  <2>1. SharedTypeOK'
    BY <1>4 DEF Tick, TypeInv, TypeOK, SharedTypeOK
  <2> QED
    BY <1>4, <2>1, DispatcherUnchanged, SchedulerUnchanged, DatabaseUnchanged
    DEF Tick, TypeInv, TypeOK, HandsOK, dispatcherVars, schedulerVars, databaseVars, runtimeVars
<1> QED BY <1>1, <1>2, <1>3, <1>4

\* A stuttering step keeps the types.
LEMMA TypeStutter == TypeInv /\ UNCHANGED vars => TypeInv'
BY SharedUnchanged, DispatcherUnchanged, SchedulerUnchanged, DatabaseUnchanged
DEF vars, TypeInv, TypeOK, HandsOK, dispatcherVars, schedulerVars, databaseVars, runtimeVars

\* Every step of the runtime keeps the types.
LEMMA TypeNext == TypeInv /\ [Next]_vars => TypeInv'
BY TypeHandler, TypeDispatcher, TypeDispatcherLoop, TypeScheduler, TypeDatabase, TypeRest,
   TypeStutter DEF Next, SchedulerStep, DatabaseStep, SpuriousWake, Ended

\* Types hold in every reachable state.
LEMMA TypeInvariant == Spec => []TypeInv
BY TypeInit, TypeNext, PTL DEF Spec

\* Every variable keeps its type, however the threads interleave.
THEOREM TypeCorrect == Spec => []TypeOK
BY TypeInvariant, PTL DEF TypeInv

-----------------------------------------------------------------------------
(* Every work item is in exactly one place.  First, what a list holds after *)
(* an element is added or taken.                                            *)

\* What a push at the back does to the members of a list.
LEMMA AppendListed ==
  ASSUME NEW S, NEW s \in Seq(S), NEW w \in S
  PROVE  /\ \A x : Listed(Append(s, w), x) <=> (Listed(s, x) \/ x = w)
         /\ Distinct(s) /\ ~Listed(s, w) => Distinct(Append(s, w))
<1>1. /\ Append(s, w) \in Seq(S) /\ Len(Append(s, w)) = Len(s) + 1
      /\ DOMAIN Append(s, w) = 1 .. Len(s) + 1 /\ DOMAIN s = 1 .. Len(s) /\ Len(s) \in Nat
      /\ \A i \in 1 .. Len(s) : Append(s, w)[i] = s[i]
      /\ Append(s, w)[Len(s) + 1] = w
  OBVIOUS
<1>2. \A x : Listed(Append(s, w), x) <=> (Listed(s, x) \/ x = w)
  BY <1>1 DEF Listed
<1>3. Distinct(s) /\ ~Listed(s, w) => Distinct(Append(s, w))
  BY <1>1 DEF Distinct, Listed
<1> QED BY <1>2, <1>3

\* The same for a push at the front.
LEMMA PushFrontListed ==
  ASSUME NEW S, NEW s \in Seq(S), NEW w \in S
  PROVE  /\ \A x : Listed(<<w>> \o s, x) <=> (Listed(s, x) \/ x = w)
         /\ Distinct(s) /\ ~Listed(s, w) => Distinct(<<w>> \o s)
<1> DEFINE t == <<w>> \o s
<1>a. <<w>> \in Seq(S) /\ Len(<<w>>) = 1 /\ <<w>>[1] = w
  OBVIOUS
<1>b. /\ t \in Seq(S) /\ Len(t) = 1 + Len(s)
      /\ \A i \in 1 .. 1 + Len(s) : t[i] = IF i <= 1 THEN <<w>>[i] ELSE s[i - 1]
  BY <1>a, ConcatProperties
<1>c. /\ DOMAIN s = 1 .. Len(s) /\ Len(s) \in Nat /\ DOMAIN t = 1 .. Len(t)
  BY <1>b, LenProperties
<1>1. /\ DOMAIN t = 1 .. Len(s) + 1 /\ DOMAIN s = 1 .. Len(s) /\ Len(s) \in Nat
      /\ t[1] = w
      /\ \A i \in 1 .. Len(s) : t[i + 1] = s[i]
      /\ \A i \in 2 .. Len(s) + 1 : t[i] = s[i - 1] /\ i - 1 \in 1 .. Len(s)
  BY <1>a, <1>b, <1>c
<1> HIDE DEF t
<1>2. \A x : Listed(t, x) <=> (Listed(s, x) \/ x = w)
  <2> TAKE x
  <2>1. ASSUME Listed(t, x) PROVE Listed(s, x) \/ x = w
    <3>1. PICK i \in 1 .. Len(s) + 1 : t[i] = x
      BY <1>1, <2>1 DEF Listed
    <3>2. CASE i = 1
      BY <1>1, <3>1, <3>2
    <3>3. CASE i # 1
      <4>1. i - 1 \in DOMAIN s /\ s[i - 1] = x
        BY <1>1, <3>1, <3>3
      <4> QED BY <4>1 DEF Listed
    <3> QED BY <3>2, <3>3
  <2>2. ASSUME Listed(s, x) PROVE Listed(t, x)
    <3>1. PICK i \in 1 .. Len(s) : s[i] = x
      BY <1>1, <2>2 DEF Listed
    <3>2. t[i + 1] = x /\ i + 1 \in 1 .. Len(s) + 1
      BY <1>1, <3>1
    <3> QED BY <1>1, <3>2 DEF Listed
  <2>3. Listed(t, w)
    BY <1>1 DEF Listed
  <2> QED BY <2>1, <2>2, <2>3
<1>3. ASSUME Distinct(s), ~Listed(s, w) PROVE Distinct(t)
  <2> SUFFICES ASSUME NEW i \in 1 .. Len(s) + 1, NEW j \in 1 .. Len(s) + 1, t[i] = t[j]
               PROVE  i = j
    BY <1>1 DEF Distinct
  <2>1. \A k \in 1 .. Len(s) : s[k] # w
    BY <1>1, <1>3 DEF Listed
  <2>2. CASE i = 1
    BY <1>1, <2>1, <2>2
  <2>3. CASE j = 1
    BY <1>1, <2>1, <2>3
  <2>4. CASE i # 1 /\ j # 1
    BY <1>1, <1>3, <2>4 DEF Distinct
  <2> QED BY <2>2, <2>3, <2>4
<1> QED BY <1>2, <1>3 DEF t

\* Taking the head of a list without duplicates removes that member alone.
LEMMA TailListed ==
  ASSUME NEW S, NEW s \in Seq(S), s # <<>>, Distinct(s)
  PROVE  /\ \A x : Listed(Tail(s), x) <=> (Listed(s, x) /\ x # Head(s))
         /\ Distinct(Tail(s))
         /\ Listed(s, Head(s))
<1>a. /\ Tail(s) \in Seq(S) /\ Len(Tail(s)) = Len(s) - 1
      /\ \A i \in 1 .. Len(Tail(s)) : Tail(s)[i] = s[i + 1]
  BY HeadTailProperties
<1>b. Len(s) \in Nat \ {0} /\ DOMAIN s = 1 .. Len(s) /\ DOMAIN Tail(s) = 1 .. Len(Tail(s))
  BY <1>a, EmptySeq, LenProperties
<1>1. /\ DOMAIN s = 1 .. Len(s) /\ Len(s) \in Nat \ {0} /\ DOMAIN Tail(s) = 1 .. Len(s) - 1
      /\ Head(s) = s[1]
      /\ \A i \in 1 .. Len(s) - 1 : Tail(s)[i] = s[i + 1] /\ i + 1 \in 2 .. Len(s)
  BY <1>a, <1>b
<1>2. ASSUME NEW x PROVE Listed(Tail(s), x) <=> (Listed(s, x) /\ x # Head(s))
  <2>1. ASSUME Listed(Tail(s), x) PROVE Listed(s, x) /\ x # Head(s)
    <3>1. PICK i \in 1 .. Len(s) - 1 : s[i + 1] = x
      BY <1>1, <2>1 DEF Listed
    <3>2. i + 1 \in 1 .. Len(s) /\ 1 \in 1 .. Len(s) /\ i + 1 # 1
      BY <1>1, <3>1
    <3> QED BY <1>1, <3>1, <3>2 DEF Listed, Distinct
  <2>2. ASSUME Listed(s, x), x # Head(s) PROVE Listed(Tail(s), x)
    <3>1. PICK i \in 1 .. Len(s) : s[i] = x
      BY <1>1, <2>2 DEF Listed
    <3>2. i - 1 \in 1 .. Len(s) - 1 /\ Tail(s)[i - 1] = x
      BY <1>1, <2>2, <3>1
    <3> QED BY <1>1, <3>2 DEF Listed
  <2> QED BY <2>1, <2>2
<1>3. Distinct(Tail(s))
  BY <1>1 DEF Distinct
<1>4. Listed(s, Head(s))
  BY <1>1 DEF Listed
<1> QED BY <1>2, <1>3, <1>4
-----------------------------------------------------------------------------
(* The inductive invariant.                                                 *)

\* Ids are given out in increasing order, one for each event, so that the id of
\* an event that left the queue belongs to no other event.
IdsOK ==
  /\ \A e \in Event : fate[e] = "new" => eventId[e] = 0
  /\ \A e \in eventList : eventId[e] # 0
  /\ \A e \in Event : eventId[e] <= lastEventId
  /\ \A e, f \in Event : eventId[e] = eventId[f] /\ eventId[e] # 0 => e = f
  /\ \A id \in eventIds : \E e \in eventList : eventId[e] = id
  /\ lastEventId = Cardinality({e \in Event : eventId[e] # 0})

\* The two tasks of a shutdown are created once.
ShutdownOnce ==
  /\ gameState # "SHUTDOWN" => fate[GameShutdown] = "new"
  /\ \/ dpc \in {"kick", "post"}
     \/ dTask \in Signal /\ dpc \in {"flush", "flushRun", "saved"}
     => fate[GameShutdown] = "new" /\ gameState = "SHUTDOWN" /\ dTask \in Signal
  /\ dpc \in {"sClear", "sNotify", "bTerminate", "bNotify", "terminate", "stopService"}
     => dTask = GameShutdown
  /\ dpc \in {"flush", "flushRun"} /\ dTask # GameShutdown => dRet = "saved"
  /\ fate[GameShutdown] \in {"new", "queued"} => fate[Terminate] = "new"
  /\ dTask = GameShutdown /\ dpc \notin {"stopService", "return"} => fate[Terminate] = "new"

PlaceInv == OnePlace /\ IdsOK /\ ShutdownOnce

Inv == TypeInv /\ PlaceInv

\* At the start nothing is anywhere: the placement invariant holds.
LEMMA PlaceInit == Init => PlaceInv
<1> SUFFICES ASSUME Init PROVE PlaceInv
  OBVIOUS
<1>1. OnePlace
  BY WorkKinds DEF Init, SharedInit, DispatcherInit, SchedulerInit, DatabaseInit, OnePlace,
     QueuePlace, QueryPlace, EventPlace, HandPlace, Listed, Distinct, Live
<1>2. {e \in Event : eventId[e] # 0} = {}
  BY DEF Init, SchedulerInit
<1>3. IdsOK
  BY <1>2, WorkKinds, FS_EmptySet DEF Init, SharedInit, SchedulerInit, IdsOK
<1>4. ShutdownOnce
  BY WorkKinds DEF Init, SharedInit, DispatcherInit, ShutdownOnce
<1> QED BY <1>1, <1>3, <1>4 DEF PlaceInv

\* A step that leaves the scheduler's lists alone and makes nothing new again
\* keeps the ids.
LEMMA IdsUnchanged ==
  ASSUME IdsOK, UNCHANGED <<eventList, eventIds, eventId, lastEventId>>,
         \A e \in Event : fate'[e] = "new" => fate[e] = "new"
  PROVE  IdsOK'
BY DEF IdsOK

\* Dispatcher::addTask.
LEMMA AddTaskPlace ==
  ASSUME TypeInv, QueuePlace, NEW th \in Thread, NEW w \in Work, fate[w] # "queued",
         AddTask(th, w) \/ AddTaskFront(th, w)
  PROVE  /\ QueuePlace'
         /\ fate'[w] \in {"queued", "unheard", "dropped"}
         /\ fate' = [fate EXCEPT ![w] = fate'[w]]
<1>1. taskList \in Seq(Work) /\ fate \in [Work -> Fate]
  BY DEF TypeInv, TypeOK, SharedTypeOK, DispatcherTypeOK
<1>2. ~Listed(taskList, w)
  BY DEF QueuePlace
<1>3. /\ fate'[w] \in {"queued", "unheard", "dropped"}
      /\ fate' = [fate EXCEPT ![w] = fate'[w]]
  BY <1>1 DEF AddTask, AddTaskFront, Accept, Refuse
<1>4. CASE Refuse(w)
  BY <1>1, <1>4 DEF Refuse, QueuePlace
<1>5. ASSUME Accept(th, w, Append(taskList, w)) PROVE QueuePlace'
  <2>1. /\ \A x : Listed(taskList', x) <=> (Listed(taskList, x) \/ x = w)
        /\ Distinct(taskList')
    BY <1>1, <1>2, <1>5, AppendListed DEF Accept, QueuePlace
  <2> QED BY <1>1, <1>5, <2>1 DEF Accept, QueuePlace
<1>6. ASSUME Accept(th, w, <<w>> \o taskList) PROVE QueuePlace'
  <2>1. /\ \A x : Listed(taskList', x) <=> (Listed(taskList, x) \/ x = w)
        /\ Distinct(taskList')
    BY <1>1, <1>2, <1>6, PushFrontListed DEF Accept, QueuePlace
  <2> QED BY <1>1, <1>6, <2>1 DEF Accept, QueuePlace
<1> QED BY <1>3, <1>4, <1>5, <1>6 DEF AddTask, AddTaskFront

\* Posting a new task.
LEMMA PostTaskPlace ==
  ASSUME Inv, NEW th \in Thread, NEW w \in Packet \cup Signal, PostTask(th, w)
  PROVE  PlaceInv'
<1>1. w \in Work /\ w \notin Event /\ w \notin Query /\ w \notin {GameShutdown, Terminate}
  BY WorkKinds, KindsAssumption DEF Control, Ordinary
<1>2. /\ QueuePlace'
      /\ fate'[w] \in {"queued", "unheard", "dropped"}
      /\ fate' = [fate EXCEPT ![w] = fate'[w]]
  BY <1>1, AddTaskPlace DEF PostTask, Inv, PlaceInv, OnePlace
<1>3. \A x \in Work : x # w => fate'[x] = fate[x]
  BY <1>2 DEF Inv, TypeInv, TypeOK, SharedTypeOK
<1>4. UNCHANGED <<schedulerVars, databaseVars, runtimeVars, dTask, dpc>> /\ fate[w] = "new"
  BY DEF PostTask
<1>5. QueryPlace' /\ EventPlace'
  BY <1>1, <1>3, <1>4, WorkKinds DEF Inv, PlaceInv, OnePlace, QueryPlace, EventPlace, Live,
     schedulerVars, databaseVars
<1>6. HandPlace'
  BY <1>1, <1>2, <1>3, <1>4 DEF Inv, PlaceInv, OnePlace, HandPlace, schedulerVars, databaseVars
<1>7. IdsOK'
  BY <1>1, <1>3, <1>4, WorkKinds, IdsUnchanged DEF Inv, PlaceInv, schedulerVars
<1>8. ShutdownOnce'
  BY <1>1, <1>3, <1>4, WorkKinds DEF Inv, PlaceInv, ShutdownOnce, databaseVars, runtimeVars
<1> QED BY <1>2, <1>5, <1>6, <1>7, <1>8 DEF PlaceInv, OnePlace

\* A new event gets an id nobody has had before.
LEMMA FreshId ==
  ASSUME Inv, NEW e \in Event, fate[e] = "new"
  PROVE  /\ NextId = lastEventId + 1 /\ NextId # 0
         /\ \A f \in Event : eventId[f] < NextId
         /\ lastEventId + 1 = Cardinality({f \in Event : eventId[f] # 0} \cup {e})
<1> DEFINE Numbered == {f \in Event : eventId[f] # 0}
<1>1. /\ lastEventId = Cardinality(Numbered) /\ e \notin Numbered
      /\ lastEventId \in Nat
      /\ \A f \in Event : eventId[f] \in Nat /\ eventId[f] <= lastEventId
  BY IdAssumption DEF Inv, PlaceInv, IdsOK, TypeInv, TypeOK, SchedulerTypeOK
<1>2. IsFiniteSet(Event) /\ IsFiniteSet(Numbered) /\ Numbered \cup {e} \in SUBSET Event
  BY WorkAssumption, FS_Subset
<1>3. Cardinality(Numbered \cup {e}) = Cardinality(Numbered) + 1
  BY <1>1, <1>2, FS_AddElement
<1>4. Cardinality(Numbered \cup {e}) <= Cardinality(Event)
  BY <1>2, FS_Subset
<1>5. Cardinality(Event) \in Nat /\ Cardinality(Event) <= ID_MAX /\ ID_MAX \in Nat
  BY <1>2, IdAssumption, FS_CardinalityType
<1>6. lastEventId + 1 <= ID_MAX
  BY <1>1, <1>3, <1>4, <1>5
<1>7. NextId = lastEventId + 1
  BY <1>1, <1>5, <1>6 DEF NextId
<1> QED BY <1>1, <1>3, <1>7

\* Scheduler::addEvent.
LEMMA AddEventPlace ==
  ASSUME Inv, NEW th \in Thread, NEW e \in Event, NEW d \in Delays, fate[e] = "new",
         AddEvent(th, e, d), UNCHANGED <<databaseVars, runtimeVars>>
  PROVE  PlaceInv'
<1>1. e \in Work /\ e \notin Query /\ e \notin {GameShutdown, Terminate}
  BY WorkKinds, KindsAssumption DEF Control, Ordinary
<1>2. /\ UNCHANGED <<taskList, tasks, dTask, bTask, dFlush, sTask, dpc, dRet, gameState>>
      /\ fate'[e] \in {"pending", "dropped"}
      /\ fate' = [fate EXCEPT ![e] = fate'[e]]
  BY <1>1 DEF AddEvent, AcceptEvent, RefuseEvent, Inv, TypeInv, TypeOK, SharedTypeOK,
     dispatcherVars, databaseVars, runtimeVars
<1>3. \A x \in Work : x # e => fate'[x] = fate[x]
  BY <1>2 DEF Inv, TypeInv, TypeOK, SharedTypeOK
<1>4. QueuePlace' /\ QueryPlace' /\ HandPlace' /\ ShutdownOnce'
  BY <1>1, <1>2, <1>3, WorkKinds DEF Inv, PlaceInv, OnePlace, QueuePlace, QueryPlace, HandPlace,
     ShutdownOnce
<1>5. e \notin eventList /\ eventId[e] = 0
  BY DEF Inv, PlaceInv, IdsOK
<1>6. CASE AcceptEvent(th, e, d)
  <2>1. /\ fate'[e] = "pending" /\ eventId'[e] = NextId
        /\ \A f \in Event : f # e => eventId'[f] = eventId[f]
        /\ eventIds' = eventIds \cup {NextId} /\ eventList' = eventList \cup {e}
        /\ lastEventId' = NextId
    BY <1>1, <1>6 DEF AcceptEvent, Inv, TypeInv, TypeOK, SharedTypeOK, SchedulerTypeOK
  <2>2. /\ NextId = lastEventId + 1 /\ NextId # 0
        /\ \A f \in Event : eventId[f] < NextId
        /\ lastEventId + 1 = Cardinality({f \in Event : eventId[f] # 0} \cup {e})
    BY FreshId
  <2>3. \A f \in Event : eventId[f] \in Nat /\ eventId[f] # NextId
    BY <2>2, IdAssumption DEF Inv, TypeInv, TypeOK, SchedulerTypeOK
  <2>4. EventPlace'
    BY <1>3, <2>1, <2>3, WorkKinds DEF Inv, PlaceInv, OnePlace, EventPlace, Live
  <2>5. {f \in Event : eventId'[f] # 0} = {f \in Event : eventId[f] # 0} \cup {e}
    BY <2>1, <2>2
  <2>6. \A f \in Event : eventId'[f] <= lastEventId'
    BY <2>1, <2>2, <2>3, IdAssumption DEF Inv, TypeInv, TypeOK, SchedulerTypeOK
  <2>7. \A id \in eventIds' : \E f \in eventList' : eventId'[f] = id
    <3>1. ASSUME NEW id \in eventIds PROVE \E f \in eventList' : eventId'[f] = id
      <4>1. PICK f \in eventList : eventId[f] = id
        BY DEF Inv, PlaceInv, IdsOK
      <4>2. f \in Event /\ f # e
        BY <1>5 DEF Inv, TypeInv, TypeOK, SchedulerTypeOK
      <4> QED BY <2>1, <4>1, <4>2
    <3> QED BY <2>1, <3>1
  <2>8. \A f, g \in Event : eventId'[f] = eventId'[g] /\ eventId'[f] # 0 => f = g
    BY <2>1, <2>3 DEF Inv, PlaceInv, IdsOK
  <2>9. /\ \A f \in Event : fate'[f] = "new" => eventId'[f] = 0
        /\ \A f \in eventList' : eventId'[f] # 0
    BY <1>3, <2>1, <2>2, WorkKinds DEF Inv, PlaceInv, IdsOK, TypeInv, TypeOK, SchedulerTypeOK
  <2>10. IdsOK'
    BY <2>1, <2>2, <2>5, <2>6, <2>7, <2>8, <2>9 DEF IdsOK
  <2> QED BY <1>4, <2>4, <2>10 DEF PlaceInv, OnePlace
<1>7. CASE RefuseEvent(e)
  <2>1. UNCHANGED <<eventList, eventIds, eventId, lastEventId>> /\ fate'[e] = "dropped"
    BY <1>1, <1>7 DEF RefuseEvent, Inv, TypeInv, TypeOK, SharedTypeOK
  <2>2. EventPlace'
    BY <1>3, <1>5, <2>1, WorkKinds DEF Inv, PlaceInv, OnePlace, EventPlace, Live
  <2>3. IdsOK'
    BY <1>3, <2>1, WorkKinds, IdsUnchanged DEF Inv, PlaceInv
  <2> QED BY <1>4, <2>2, <2>3 DEF PlaceInv, OnePlace
<1> QED BY <1>6, <1>7 DEF AddEvent

\* A step that changes no list, no hand and no fate keeps everything in place.
LEMMA PlaceUnchanged ==
  ASSUME PlaceInv,
         UNCHANGED <<taskList, tasks, fate, dTask, bTask, dFlush, sTask, eventList,
                     eventIds, eventId, lastEventId>>
  PROVE  OnePlace' /\ IdsOK'
BY DEF PlaceInv, OnePlace, QueuePlace, QueryPlace, EventPlace, HandPlace, Live, IdsOK

\* What handlers do.
LEMMA HandlerPlace == Inv /\ Handler => PlaceInv'
<1> SUFFICES ASSUME Inv, Handler PROVE PlaceInv'
  OBVIOUS
<1>1. ASSUME NEW e \in Event, HandlerStopEvent(e) PROVE PlaceInv'
  <2>1. e \in Work /\ e \notin Query /\ e \notin {GameShutdown, Terminate}
    BY WorkKinds, KindsAssumption DEF Control, Ordinary
  <2>2. /\ UNCHANGED <<taskList, tasks, dTask, bTask, dFlush, sTask, dpc, dRet, gameState,
                       eventList, eventId, lastEventId>>
        /\ eventId[e] \in eventIds /\ eventIds' = eventIds \ {eventId[e]}
        /\ fate'[e] = "cancelled" /\ \A x \in Work : x # e => fate'[x] = fate[x]
    BY <1>1, <2>1 DEF HandlerStopEvent, StopEvent, Inv, TypeInv, TypeOK, SharedTypeOK,
       dispatcherVars, databaseVars, runtimeVars
  <2>3. e \in eventList
    BY <2>2 DEF Inv, PlaceInv, IdsOK, TypeInv, TypeOK, SchedulerTypeOK
  <2>4. fate[e] = "pending"
    BY <2>2, <2>3 DEF Inv, PlaceInv, OnePlace, EventPlace, Live
  <2>5. QueuePlace' /\ QueryPlace' /\ HandPlace' /\ ShutdownOnce'
    BY <2>1, <2>2, <2>4, WorkKinds DEF Inv, PlaceInv, OnePlace, QueuePlace, QueryPlace,
       HandPlace, ShutdownOnce
  <2>6. \A f \in eventList : f # e => eventId[f] # eventId[e]
    BY <2>3 DEF Inv, PlaceInv, IdsOK, TypeInv, TypeOK, SchedulerTypeOK
  <2>7. EventPlace'
    BY <2>2, <2>6, WorkKinds DEF Inv, PlaceInv, OnePlace, EventPlace, Live
  <2>8. IdsOK'
    BY <2>2, WorkKinds DEF Inv, PlaceInv, IdsOK
  <2> QED BY <2>5, <2>7, <2>8 DEF PlaceInv, OnePlace
<1>2. ASSUME NEW e \in Event, NEW d \in Delays, HandlerAddEvent(e, d) PROVE PlaceInv'
  BY <1>2, AddEventPlace DEF HandlerAddEvent, Thread
<1>3. ASSUME NEW q \in Query, HandlerAddQuery(q) PROVE PlaceInv'
  <2>1. q \in Work /\ q \notin Event /\ q \notin {GameShutdown, Terminate}
    BY WorkKinds, KindsAssumption DEF Control, Ordinary
  <2>2. /\ UNCHANGED <<taskList, dTask, bTask, dFlush, sTask, dpc, dRet, gameState, eventList,
                       eventIds, eventId, lastEventId>>
        /\ fate[q] = "new"
        /\ \A x \in Work : x # q => fate'[x] = fate[x]
    BY <1>3, <2>1 DEF HandlerAddQuery, AddQuery, Inv, TypeInv, TypeOK, SharedTypeOK,
       dispatcherVars, schedulerVars, runtimeVars
  <2>3. \/ fate'[q] = "pending" /\ tasks' = Append(tasks, q)
        \/ fate'[q] = "dropped" /\ tasks' = tasks
    BY <1>3, <2>1 DEF HandlerAddQuery, AddQuery, Inv, TypeInv, TypeOK, SharedTypeOK
  <2>4. QueuePlace' /\ HandPlace' /\ ShutdownOnce' /\ EventPlace'
    BY <2>1, <2>2, <2>3, WorkKinds DEF Inv, PlaceInv, OnePlace, QueuePlace, EventPlace, Live,
       HandPlace, ShutdownOnce
  <2>5. tasks \in Seq(Query) /\ ~Listed(tasks, q) /\ Distinct(tasks)
    BY <2>2 DEF Inv, PlaceInv, OnePlace, QueryPlace, TypeInv, TypeOK, DatabaseTypeOK
  <2>6. /\ \A x : Listed(Append(tasks, q), x) <=> (Listed(tasks, x) \/ x = q)
        /\ Distinct(Append(tasks, q))
    BY <2>5, AppendListed
  <2>7. QueryPlace'
    BY <2>2, <2>3, <2>5, <2>6, WorkKinds DEF Inv, PlaceInv, OnePlace, QueryPlace
  <2>8. IdsOK'
    BY <2>1, <2>2, WorkKinds, IdsUnchanged DEF Inv, PlaceInv
  <2> QED BY <2>4, <2>7, <2>8 DEF PlaceInv, OnePlace
<1>4. ASSUME NEW w \in Packet, HandlerAddTask(w) PROVE PlaceInv'
  BY <1>4, PostTaskPlace DEF HandlerAddTask, Thread
<1>5. CASE HandlerSave
  <2>1. OnePlace' /\ IdsOK'
    BY <1>5, PlaceUnchanged DEF HandlerSave, Inv, sharedVars, schedulerVars
  <2>2. ShutdownOnce'
    BY <1>5 DEF HandlerSave, Inv, PlaceInv, ShutdownOnce, sharedVars, Control
  <2> QED BY <2>1, <2>2 DEF PlaceInv
<1> QED BY <1>1, <1>2, <1>3, <1>4, <1>5 DEF Handler

\* Dispatcher::threadMain.
LEMMA DispatcherLoopPlace ==
  ASSUME Inv, DispatcherLoop \/ DispSpuriousWake,
         UNCHANGED <<schedulerVars, databaseVars, runtimeVars>>
  PROVE  PlaceInv'
<1>1. CASE DispCheck
  <2>1. UNCHANGED <<fate, taskList, dTask>> /\ dpc' \in {"lock", "exit"} /\ dTask = None
    BY <1>1 DEF DispCheck, Inv, TypeInv, HandsOK, sharedVars
  <2>2. OnePlace' /\ IdsOK'
    BY <2>1, PlaceUnchanged DEF Inv, schedulerVars, databaseVars
  <2>3. ShutdownOnce'
    BY <2>1, WorkKinds, KindsAssumption DEF Inv, PlaceInv, ShutdownOnce, Control, databaseVars,
       runtimeVars
  <2> QED BY <2>2, <2>3 DEF PlaceInv
<1>2. CASE (DispLock \/ DispWake \/ DispSpuriousWake) /\ TakeTask
  <2> DEFINE w == Head(taskList)
  <2>1. taskList \in Seq(Work) /\ taskList # <<>> /\ w \in Work /\ Distinct(taskList)
    BY <1>2, TakeFirst DEF TakeTask, Inv, PlaceInv, OnePlace, QueuePlace, TypeInv, TypeOK,
       DispatcherTypeOK
  <2>2. /\ taskList' = Tail(taskList) /\ dTask' = w /\ dpc' = "task" /\ dTask = None
        /\ fate'[w] = "running" /\ \A x \in Work : x # w => fate'[x] = fate[x]
    BY <1>2, <2>1 DEF TakeTask, DispLock, DispWake, DispSpuriousWake, LeaveWait, Inv, TypeInv,
       TypeOK, HandsOK, SharedTypeOK
  <2> HIDE DEF w
  <2>3. /\ \A x : Listed(taskList', x) <=> (Listed(taskList, x) /\ x # w)
        /\ Distinct(taskList')
        /\ Listed(taskList, w)
    BY <2>1, <2>2, TailListed DEF w
  <2>4. fate[w] = "queued"
    BY <2>1, <2>3 DEF Inv, PlaceInv, OnePlace, QueuePlace
  <2>5. QueuePlace'
    BY <2>1, <2>2, <2>3, <2>4 DEF Inv, PlaceInv, OnePlace, QueuePlace
  <2>6. QueryPlace' /\ EventPlace'
    BY <2>1, <2>2, <2>4, WorkKinds DEF Inv, PlaceInv, OnePlace, QueryPlace, EventPlace, Live,
       schedulerVars, databaseVars
  <2>7. HandPlace'
    BY <2>1, <2>2, <2>4, WorkKinds DEF Inv, PlaceInv, OnePlace, HandPlace, schedulerVars,
       databaseVars
  <2>8. IdsOK'
    BY <2>1, <2>2, WorkKinds, IdsUnchanged DEF Inv, PlaceInv, schedulerVars
  <2>9. ShutdownOnce'
    BY <2>1, <2>2, <2>4, WorkKinds DEF Inv, PlaceInv, ShutdownOnce, databaseVars, runtimeVars
  <2> QED BY <2>5, <2>6, <2>7, <2>8, <2>9 DEF PlaceInv, OnePlace
<1>3. CASE (DispLock \/ DispWake \/ DispSpuriousWake) /\ ~TakeTask
  <2>1. UNCHANGED <<fate, taskList, dTask>> /\ dpc' \in {"wait", "check"}
        /\ dTask = None
    BY <1>3 DEF DispLock, DispWake, DispSpuriousWake, LeaveWait, Inv, TypeInv, HandsOK
  <2>2. OnePlace' /\ IdsOK'
    BY <2>1, PlaceUnchanged DEF Inv, schedulerVars, databaseVars
  <2>3. ShutdownOnce'
    BY <2>1, WorkKinds, KindsAssumption DEF Inv, PlaceInv, ShutdownOnce, Control, databaseVars,
       runtimeVars
  <2> QED BY <2>2, <2>3 DEF PlaceInv
<1>4. CASE DispStart /\ dpc' = "run"
  <2>1. UNCHANGED <<fate, taskList, dTask>> /\ dpc = "task"
    BY <1>4 DEF DispStart
  <2> QED
    BY <1>4, <2>1, PlaceUnchanged DEF Inv, PlaceInv, ShutdownOnce, schedulerVars, databaseVars,
       runtimeVars
<1>5. CASE (DispStart /\ dpc' = "check") \/ DispReturn
  <2>1. /\ dTask \in Work /\ dTask' = None /\ dpc' = "check" /\ taskList' = taskList
        /\ dpc \in {"task", "return"}
        /\ fate' = [fate EXCEPT ![dTask] = IF dpc = "task" THEN "expired" ELSE "done"]
        /\ dpc = "task" => dTask \in Timed
    BY <1>5, WorkKinds DEF DispStart, DispReturn, HasExpired, Inv, TypeInv, TypeOK, HandsOK, DispatcherTypeOK
  <2>2. /\ fate'[dTask] \in {"expired", "done"} /\ \A x \in Work : x # dTask => fate'[x] = fate[x]
        /\ fate[dTask] = "running"
    BY <2>1 DEF Inv, PlaceInv, OnePlace, HandPlace, TypeInv, TypeOK, SharedTypeOK
  <2>3. QueuePlace' /\ QueryPlace' /\ EventPlace'
    BY <2>1, <2>2, WorkKinds DEF Inv, PlaceInv, OnePlace, QueuePlace, QueryPlace, EventPlace, Live,
       schedulerVars, databaseVars
  <2>4. HandPlace'
    BY <2>1, <2>2, WorkKinds DEF Inv, PlaceInv, OnePlace, HandPlace, schedulerVars, databaseVars
  <2>5. IdsOK'
    BY <2>2, WorkKinds, IdsUnchanged DEF Inv, PlaceInv, schedulerVars
  <2>6. Timed \cap (Control \cup {None}) = {} /\ GameShutdown \in Control /\ None \notin Signal
    BY WorkAssumption, KindsAssumption, WorkKinds DEF Control
  <2>7. ShutdownOnce'
    BY <2>1, <2>2, <2>6, WorkKinds DEF Inv, PlaceInv, ShutdownOnce, databaseVars, runtimeVars
  <2> QED BY <2>3, <2>4, <2>5, <2>7 DEF PlaceInv, OnePlace
<1> QED
  BY <1>1, <1>2, <1>3, <1>4, <1>5 DEF DispatcherLoop, DispStart

\* DatabaseTasks::runTask by thread th, which holds the query q.
LEMMA RunTaskPlace ==
  ASSUME Inv, NEW th \in Thread, NEW q \in Query, fate[q] = "running", RunTask(th, q)
  PROVE  /\ QueuePlace'
         /\ fate'[q] \in {"queued", "unheard", "dropped", "done"}
         /\ \A x \in Work : x # q => fate'[x] = fate[x]
<1>1. q \in Work
  BY WorkKinds
<1>2. CASE AddTask(th, q)
  <2>1. /\ QueuePlace' /\ fate'[q] \in {"queued", "unheard", "dropped"}
        /\ fate' = [fate EXCEPT ![q] = fate'[q]]
    BY <1>1, <1>2, AddTaskPlace DEF Inv, PlaceInv, OnePlace
  <2> QED BY <2>1 DEF Inv, TypeInv, TypeOK, SharedTypeOK
<1>3. CASE fate' = [fate EXCEPT ![q] = "done"] /\ UNCHANGED <<taskList, owes>>
  <2>1. fate'[q] = "done" /\ \A x \in Work : x # q => fate'[x] = fate[x]
    BY <1>1, <1>3 DEF Inv, TypeInv, TypeOK, SharedTypeOK
  <2> QED BY <1>1, <1>3, <2>1 DEF Inv, PlaceInv, OnePlace, QueuePlace
<1> QED BY <1>2, <1>3 DEF RunTask

\* Taking a query from the list, by the database thread or by flush().
LEMMA TakeQueryPlace ==
  ASSUME Inv, tasks # <<>>, tasks' = Tail(tasks),
         fate' = [fate EXCEPT ![Head(tasks)] = "running"]
  PROVE  /\ Head(tasks) \in Query
         /\ fate[Head(tasks)] = "pending" /\ fate'[Head(tasks)] = "running"
         /\ \A x \in Work : x # Head(tasks) => fate'[x] = fate[x]
         /\ QueryPlace'
<1> DEFINE q == Head(tasks)
<1>1. tasks \in Seq(Query) /\ q \in Query /\ q \in Work
  BY TakeFirst, WorkKinds DEF Inv, TypeInv, TypeOK, DatabaseTypeOK
<1>2. fate'[q] = "running" /\ \A x \in Work : x # q => fate'[x] = fate[x]
  BY <1>1 DEF Inv, TypeInv, TypeOK, SharedTypeOK
<1> HIDE DEF q
<1>3. /\ \A x : Listed(tasks', x) <=> (Listed(tasks, x) /\ x # q)
      /\ Distinct(tasks')
      /\ Listed(tasks, q)
  BY <1>1, TailListed DEF q, Inv, PlaceInv, OnePlace, QueryPlace
<1>4. fate[q] = "pending"
  BY <1>1, <1>3 DEF Inv, PlaceInv, OnePlace, QueryPlace
<1>5. QueryPlace'
  BY <1>1, <1>2, <1>3, WorkKinds DEF Inv, PlaceInv, OnePlace, QueryPlace
<1> QED BY <1>1, <1>2, <1>4, <1>5 DEF q

\* A query is neither an event nor a control task.
LEMMA QueryKind == \A q \in Query : q \in Work /\ q \notin Event /\ q \notin Control
BY KindsAssumption, WorkKinds DEF Ordinary

\* DatabaseTasks::flush.
LEMMA FlushPlace ==
  ASSUME Inv, FlushTake \/ FlushRun, UNCHANGED runtimeVars
  PROVE  PlaceInv'
<1>1. CASE FlushTake /\ tasks # <<>>
  <2> DEFINE q == Head(tasks)
  <2>1. /\ dpc = "flush" /\ dpc' = "flushRun" /\ dFlush' = q /\ dFlush = None
        /\ tasks' = Tail(tasks) /\ fate' = [fate EXCEPT ![q] = "running"]
        /\ UNCHANGED <<taskList, dTask, bTask, sTask, dRet, gameState>>
        /\ UNCHANGED <<eventList, eventIds, eventId, lastEventId>>
    BY <1>1 DEF FlushTake, Inv, TypeInv, HandsOK, schedulerVars, runtimeVars
  <2>2. /\ q \in Query /\ fate[q] = "pending" /\ fate'[q] = "running"
        /\ \A x \in Work : x # q => fate'[x] = fate[x]
        /\ QueryPlace'
    BY <1>1, <2>1, TakeQueryPlace
  <2> HIDE DEF q
  <2>3. q \in Work /\ q \notin Event /\ q \notin Control /\ q # None
    BY <2>2, QueryKind, WorkKinds
  <2>4. QueuePlace' /\ EventPlace'
    BY <2>1, <2>2, <2>3, WorkKinds DEF Inv, PlaceInv, OnePlace, QueuePlace, EventPlace, Live
  <2>a. q \notin {dTask, bTask} /\ q # sTask
    BY <2>2, <2>3 DEF Inv, PlaceInv, OnePlace, HandPlace
  <2>5. HandPlace'
    BY <2>1, <2>2, <2>3, <2>a, WorkKinds DEF Inv, PlaceInv, OnePlace, HandPlace
  <2>6. IdsOK'
    BY <2>1, <2>2, <2>3, WorkKinds, IdsUnchanged DEF Inv, PlaceInv
  <2>7. ShutdownOnce'
    BY <2>1, <2>2, <2>3, WorkKinds DEF Inv, PlaceInv, ShutdownOnce, Control
  <2> QED BY <2>2, <2>4, <2>5, <2>6, <2>7 DEF PlaceInv, OnePlace
<1>2. CASE FlushTake /\ tasks = <<>>
  <2>1. /\ dpc = "flush" /\ dpc' = dRet /\ UNCHANGED <<fate, tasks, dFlush>>
        /\ UNCHANGED <<taskList, dTask, bTask, sTask, dRet, gameState>>
        /\ UNCHANGED <<eventList, eventIds, eventId, lastEventId>>
    BY <1>2 DEF FlushTake, schedulerVars, runtimeVars
  <2>2. OnePlace' /\ IdsOK'
    BY <2>1, PlaceUnchanged DEF Inv
  <2>3. dRet \in {"return", "saved", "bNotify"}
    BY DEF Inv, TypeInv, TypeOK, DatabaseTypeOK
  <2>4. ShutdownOnce'
    BY <2>1, <2>3 DEF Inv, PlaceInv, ShutdownOnce
  <2> QED BY <2>2, <2>4 DEF PlaceInv
<1>3. CASE FlushRun
  <2>1. /\ dpc = "flushRun" /\ dpc' = "flush" /\ dFlush' = None
        /\ RunTask("dispatcher", dFlush)
        /\ UNCHANGED <<tasks, dTask, bTask, sTask, dRet, gameState>>
        /\ UNCHANGED <<eventList, eventIds, eventId, lastEventId>>
    BY <1>3 DEF FlushRun, schedulerVars, runtimeVars
  <2>2. dFlush \in Query
    BY <2>1 DEF Inv, TypeInv, TypeOK, HandsOK, DatabaseTypeOK
  <2>3. dFlush \in Work /\ dFlush \notin Event /\ dFlush \notin Control /\ dFlush # None
    BY <2>2, QueryKind, WorkKinds
  <2>4. fate[dFlush] = "running"
    BY <2>3 DEF Inv, PlaceInv, OnePlace, HandPlace
  <2>5. /\ QueuePlace' /\ fate'[dFlush] \in {"queued", "unheard", "dropped", "done"}
        /\ \A x \in Work : x # dFlush => fate'[x] = fate[x]
    BY <2>1, <2>2, <2>4, RunTaskPlace DEF Thread
  <2>6. QueryPlace' /\ EventPlace'
    BY <2>1, <2>3, <2>4, <2>5, WorkKinds DEF Inv, PlaceInv, OnePlace, QueryPlace, EventPlace, Live
  <2>7. HandPlace'
    BY <2>1, <2>3, <2>4, <2>5, WorkKinds DEF Inv, PlaceInv, OnePlace, HandPlace
  <2>8. IdsOK'
    BY <2>1, <2>3, <2>5, WorkKinds, IdsUnchanged DEF Inv, PlaceInv
  <2>9. ShutdownOnce'
    BY <2>1, <2>3, <2>5, WorkKinds DEF Inv, PlaceInv, ShutdownOnce, Control
  <2> QED BY <2>5, <2>6, <2>7, <2>8, <2>9 DEF PlaceInv, OnePlace
<1> QED BY <1>1, <1>2, <1>3

\* The stages of the handlers that touch no list.
LEMMA StagesPlace ==
  ASSUME Inv,
         \/ Saved \/ HandlerReturn \/ HandleSignal \/ ShutdownSave \/ StopThreads
         \/ TerminateScheduler \/ NotifyScheduler \/ TerminateDatabase
         \/ NotifyDatabase \/ StopService \/ TerminateDispatcher
  PROVE  PlaceInv'
<1> USE DEF Saved, HandlerReturn, HandleSignal, ShutdownSave, StopThreads,
            TerminateScheduler, NotifyScheduler, TerminateDatabase, NotifyDatabase,
            StopService, TerminateDispatcher, Stage
<1>1. UNCHANGED <<taskList, tasks, fate, dTask, bTask, dFlush, sTask, eventList, eventIds,
                  eventId, lastEventId>>
  BY DEF sharedVars, schedulerVars, databaseVars
<1>2. OnePlace' /\ IdsOK'
  BY <1>1, PlaceUnchanged DEF Inv
<1>3. ShutdownOnce'
  BY <1>1, KindsAssumption
  DEF Inv, PlaceInv, ShutdownOnce, Control, databaseVars, runtimeVars
<1> QED BY <1>2, <1>3 DEF PlaceInv

\* The stages that post the shutdown's tasks and clear the queue of events.
LEMMA ListsPlace ==
  ASSUME Inv, PostShutdown \/ PostTerminate \/ ClearScheduler
  PROVE  PlaceInv'
<1>a. /\ GameShutdown \notin Event \cup Query \cup Signal /\ GameShutdown # Terminate
      /\ Terminate \notin Event \cup Query \cup Signal
      /\ GameShutdown \in Work /\ Terminate \in Work
  BY WorkKinds, KindsAssumption DEF Control, Ordinary
<1>1. CASE PostShutdown
  <2>1. /\ dpc = "post" /\ dpc' = "stopScheduler" /\ AddTask("dispatcher", GameShutdown)
        /\ UNCHANGED <<tasks, dTask, bTask, dFlush, sTask, dRet, gameState, eventList,
                       eventIds, eventId, lastEventId>>
    BY <1>1 DEF PostShutdown, Stage
  <2>2. fate[GameShutdown] = "new" /\ gameState = "SHUTDOWN" /\ dTask \in Signal
    BY <2>1 DEF Inv, PlaceInv, ShutdownOnce
  <2>3. /\ QueuePlace' /\ fate'[GameShutdown] \in {"queued", "unheard", "dropped"}
        /\ fate' = [fate EXCEPT ![GameShutdown] = fate'[GameShutdown]]
    BY <1>a, <2>1, <2>2, AddTaskPlace DEF Inv, PlaceInv, OnePlace, Thread
  <2>4. \A x \in Work : x # GameShutdown => fate'[x] = fate[x]
    BY <2>3 DEF Inv, TypeInv, TypeOK, SharedTypeOK
  <2>5. QueryPlace' /\ EventPlace'
    BY <1>a, <2>1, <2>4, WorkKinds DEF Inv, PlaceInv, OnePlace, QueryPlace, EventPlace, Live
  <2>6. HandPlace'
    BY <1>a, <2>1, <2>2, <2>3, <2>4 DEF Inv, PlaceInv, OnePlace, HandPlace
  <2>7. IdsOK'
    BY <1>a, <2>1, <2>4, WorkKinds, IdsUnchanged DEF Inv, PlaceInv
  <2>8. ShutdownOnce'
    BY <1>a, <2>1, <2>2, <2>3, <2>4 DEF Inv, PlaceInv, ShutdownOnce
  <2> QED BY <2>3, <2>5, <2>6, <2>7, <2>8 DEF PlaceInv, OnePlace
<1>2. CASE PostTerminate
  <2>1. /\ dpc = "terminate" /\ dpc' = "stopService" /\ taskList' = Append(taskList, Terminate)
        /\ UNCHANGED <<tasks, dTask, bTask, dFlush, sTask, dRet, gameState, eventList,
                       eventIds, eventId, lastEventId>>
    BY <1>2 DEF PostTerminate, Stage
  <2>2. fate[Terminate] = "new" /\ dTask = GameShutdown
    BY <2>1 DEF Inv, PlaceInv, ShutdownOnce
  <2>3. /\ fate'[Terminate] = "queued"
        /\ \A x \in Work : x # Terminate => fate'[x] = fate[x]
    BY <1>a, <1>2 DEF PostTerminate, Inv, TypeInv, TypeOK, SharedTypeOK
  <2>4. taskList \in Seq(Work) /\ ~Listed(taskList, Terminate) /\ Distinct(taskList)
    BY <1>a, <2>2 DEF Inv, PlaceInv, OnePlace, QueuePlace, TypeInv, TypeOK, DispatcherTypeOK
  <2>5. /\ \A x : Listed(taskList', x) <=> (Listed(taskList, x) \/ x = Terminate)
        /\ Distinct(taskList')
    BY <1>a, <2>1, <2>4, AppendListed
  <2>6. QueuePlace'
    BY <2>3, <2>5 DEF Inv, PlaceInv, OnePlace, QueuePlace
  <2>7. QueryPlace' /\ EventPlace'
    BY <1>a, <2>1, <2>3, WorkKinds DEF Inv, PlaceInv, OnePlace, QueryPlace, EventPlace, Live
  <2>8. HandPlace'
    BY <1>a, <2>1, <2>2, <2>3 DEF Inv, PlaceInv, OnePlace, HandPlace
  <2>9. IdsOK'
    BY <1>a, <2>1, <2>3, WorkKinds, IdsUnchanged DEF Inv, PlaceInv
  <2>10. fate[GameShutdown] = "running"
    BY <1>a, <2>2 DEF Inv, PlaceInv, OnePlace, HandPlace
  <2>11. ShutdownOnce'
    BY <1>a, <2>1, <2>2, <2>3, <2>10 DEF Inv, PlaceInv, ShutdownOnce
  <2> QED BY <2>6, <2>7, <2>8, <2>9, <2>11 DEF PlaceInv, OnePlace
<1>3. CASE ClearScheduler
  <2>1. /\ dpc = "sClear" /\ dpc' = "sNotify" /\ eventList' = {} /\ eventIds' = {}
        /\ UNCHANGED <<taskList, tasks, dTask, bTask, dFlush, sTask, dRet, gameState,
                       eventId, lastEventId>>
    BY <1>3 DEF ClearScheduler, ClearEvents, Stage
  <2>2. \A x \in Work : fate'[x] = IF x \in {e \in eventList : eventId[e] \in eventIds}
                                   THEN "dropped" ELSE fate[x]
    BY <1>3 DEF ClearScheduler, ClearEvents, Fates
  <2>3. \A x \in Work : x \notin Event => fate'[x] = fate[x]
    BY <2>2 DEF Inv, TypeInv, TypeOK, SchedulerTypeOK
  <2>4. \A e \in Event : IF fate[e] = "pending" THEN fate'[e] = "dropped" ELSE fate'[e] = fate[e]
    BY <2>2, WorkKinds DEF Inv, PlaceInv, OnePlace, EventPlace, Live
  <2>5. \A x \in Work : \A f \in {"queued", "running", "inflight", "new"} :
          fate'[x] = f <=> fate[x] = f
    BY <2>3, <2>4
  <2>6. OnePlace'
    BY <2>1, <2>3, <2>4, <2>5, QueryKind DEF Inv, PlaceInv, OnePlace, QueuePlace, QueryPlace,
       EventPlace, HandPlace, Live
  <2>7. IdsOK'
    BY <2>1, <2>5, WorkKinds DEF Inv, PlaceInv, IdsOK
  <2>8. ShutdownOnce'
    BY <1>a, <2>1, <2>3 DEF Inv, PlaceInv, ShutdownOnce
  <2> QED BY <2>6, <2>7, <2>8 DEF PlaceInv
<1> QED BY <1>1, <1>2, <1>3

\* Every step of the dispatcher keeps the placement invariant.
LEMMA DispatcherPlace == Inv /\ DispatcherStep => PlaceInv'
BY DispatcherLoopPlace, FlushPlace, StagesPlace, ListsPlace DEF DispatcherStep

\* Scheduler::threadMain.
LEMMA SchedulerPlace ==
  ASSUME Inv, SchedulerLoop \/ SchedSpuriousWake, UNCHANGED <<databaseVars, runtimeVars>>
  PROVE  PlaceInv'
<1>1. CASE SchedCheck \/ SchedLock \/ SchedWake \/ SchedSpuriousWake
  <2>1. UNCHANGED <<taskList, tasks, fate, dTask, bTask, dFlush, sTask, eventList, eventIds,
                    eventId, lastEventId, dpc, dRet, gameState>>
    BY <1>1 DEF SchedCheck, SchedLock, SchedWake, SchedSpuriousWake, SchedLeaveWait, sharedVars,
       dispatcherVars, databaseVars, runtimeVars
  <2>2. OnePlace' /\ IdsOK'
    BY <2>1, PlaceUnchanged DEF Inv
  <2>3. ShutdownOnce'
    BY <2>1 DEF Inv, PlaceInv, ShutdownOnce
  <2> QED BY <2>2, <2>3 DEF PlaceInv
<1>2. CASE SchedTimeout
  <2>1. UNCHANGED <<taskList, tasks, dTask, bTask, dFlush, eventId, lastEventId, dpc, dRet,
                    gameState>> /\ sTask = None
    BY <1>2 DEF SchedTimeout, dispatcherVars, databaseVars, runtimeVars, Inv, TypeInv, HandsOK
  <2>2. CASE UNCHANGED <<eventList, eventIds, fate, sTask>>
    <3>1. OnePlace' /\ IdsOK'
      BY <2>1, <2>2, PlaceUnchanged DEF Inv
    <3>2. ShutdownOnce'
      BY <2>1, <2>2 DEF Inv, PlaceInv, ShutdownOnce
    <3> QED BY <3>1, <3>2 DEF PlaceInv
  <2>3. ASSUME NEW top \in Tops, eventList' = eventList \ {top}, eventId[top] \notin eventIds,
               UNCHANGED <<eventIds, fate, sTask>>
        PROVE PlaceInv'
    <3>1. QueuePlace' /\ QueryPlace' /\ HandPlace' /\ ShutdownOnce'
      BY <2>1, <2>3 DEF Inv, PlaceInv, OnePlace, QueuePlace, QueryPlace, HandPlace, ShutdownOnce
    <3>2. EventPlace'
      BY <2>1, <2>3 DEF Inv, PlaceInv, OnePlace, EventPlace, Live
    <3>3. IdsOK'
      BY <2>1, <2>3 DEF Inv, PlaceInv, IdsOK
    <3> QED BY <3>1, <3>2, <3>3 DEF PlaceInv, OnePlace
  <2>4. ASSUME NEW top \in Tops, eventList' = eventList \ {top}, eventId[top] \in eventIds,
               eventIds' = eventIds \ {eventId[top]}, sTask' = top,
               fate' = [fate EXCEPT ![top] = "inflight"]
        PROVE PlaceInv'
    <3>1. top \in eventList /\ top \in Event /\ top \in Work /\ top \notin Query \cup Control
      BY WorkKinds, KindsAssumption DEF Tops, Inv, TypeInv, TypeOK, SchedulerTypeOK, Ordinary
    <3>2. /\ fate[top] = "pending" /\ fate'[top] = "inflight"
          /\ \A x \in Work : x # top => fate'[x] = fate[x]
      BY <2>4, <3>1 DEF Inv, PlaceInv, OnePlace, EventPlace, Live, TypeInv, TypeOK, SharedTypeOK
    <3>3. QueuePlace' /\ QueryPlace'
      BY <2>1, <3>1, <3>2, WorkKinds DEF Inv, PlaceInv, OnePlace, QueuePlace, QueryPlace
    <3>4. HandPlace'
      BY <2>1, <2>4, <3>1, <3>2, WorkKinds DEF Inv, PlaceInv, OnePlace, HandPlace
    <3>5. \A f \in Event : f # top /\ f \in eventList => eventId[f] # eventId[top]
      BY <3>1 DEF Inv, PlaceInv, IdsOK
    <3>6. EventPlace'
      BY <2>1, <2>4, <3>1, <3>2, <3>5, WorkKinds DEF Inv, PlaceInv, OnePlace, EventPlace, Live
    <3>7. \A id \in eventIds' : \E f \in eventList' : eventId'[f] = id
      BY <2>1, <2>4, <3>1 DEF Inv, PlaceInv, IdsOK
    <3>8. IdsOK'
      BY <2>1, <2>4, <3>1, <3>2, <3>7, WorkKinds DEF Inv, PlaceInv, IdsOK
    <3>9. ShutdownOnce'
      BY <2>1, <3>1, <3>2, WorkKinds DEF Inv, PlaceInv, ShutdownOnce, Control
    <3> QED BY <3>3, <3>4, <3>6, <3>8, <3>9 DEF PlaceInv, OnePlace
  <2> QED BY <1>2, <2>2, <2>3, <2>4 DEF SchedTimeout
<1>3. CASE SchedHandoff
  <2>1. /\ AddTaskFront("scheduler", sTask) /\ sTask' = None /\ spc = "handoff"
        /\ UNCHANGED <<tasks, dTask, bTask, dFlush, eventList, eventIds, eventId, lastEventId,
                       dpc, dRet, gameState>>
    BY <1>3 DEF SchedHandoff, databaseVars, runtimeVars
  <2>2. sTask \in Event /\ sTask \in Work /\ sTask \notin Query \cup Control
    BY <2>1, WorkKinds, KindsAssumption DEF Inv, TypeInv, TypeOK, HandsOK, SchedulerTypeOK, Ordinary
  <2>3. fate[sTask] = "inflight"
    BY <2>2 DEF Inv, PlaceInv, OnePlace, HandPlace
  <2>4. /\ QueuePlace' /\ fate'[sTask] \in {"queued", "unheard", "dropped"}
        /\ fate' = [fate EXCEPT ![sTask] = fate'[sTask]]
    BY <2>1, <2>2, <2>3, AddTaskPlace DEF Inv, PlaceInv, OnePlace, Thread
  <2>5. \A x \in Work : x # sTask => fate'[x] = fate[x]
    BY <2>4 DEF Inv, TypeInv, TypeOK, SharedTypeOK
  <2>6. QueryPlace' /\ EventPlace'
    BY <2>1, <2>2, <2>3, <2>4, <2>5, WorkKinds DEF Inv, PlaceInv, OnePlace, QueryPlace, EventPlace, Live
  <2>7. HandPlace'
    BY <2>1, <2>2, <2>3, <2>4, <2>5, WorkKinds DEF Inv, PlaceInv, OnePlace, HandPlace
  <2>8. IdsOK'
    BY <2>1, <2>2, <2>4, <2>5, WorkKinds, IdsUnchanged DEF Inv, PlaceInv
  <2>9. ShutdownOnce'
    BY <2>1, <2>2, <2>5, WorkKinds DEF Inv, PlaceInv, ShutdownOnce, Control
  <2> QED BY <2>4, <2>6, <2>7, <2>8, <2>9 DEF PlaceInv, OnePlace
<1> QED BY <1>1, <1>2, <1>3 DEF SchedulerLoop

\* DatabaseTasks::threadMain.
LEMMA DatabasePlace ==
  ASSUME Inv, DatabaseLoop \/ DbSpuriousWake, UNCHANGED runtimeVars
  PROVE  PlaceInv'
<1>a. UNCHANGED <<dTask, dpc, dFlush, dRet, gameState, sTask, eventList, eventIds, eventId,
                  lastEventId>>
  BY DEF DatabaseLoop, DbCheck, DbLock, DbWake, DbSpuriousWake, DbLeaveWait, DbRunTask,
     dispatcherVars, schedulerVars, runtimeVars
<1>1. CASE UNCHANGED <<taskList, tasks, fate, bTask>>
  <2>1. OnePlace' /\ IdsOK'
    BY <1>a, <1>1, PlaceUnchanged DEF Inv
  <2>2. ShutdownOnce'
    BY <1>a, <1>1 DEF Inv, PlaceInv, ShutdownOnce
  <2> QED BY <2>1, <2>2 DEF PlaceInv
<1>2. CASE TakeQuery /\ UNCHANGED taskList /\ bpc # "runTask"
  <2> DEFINE q == Head(tasks)
  <2>1. /\ bTask' = q /\ bTask = None /\ tasks # <<>> /\ tasks' = Tail(tasks)
        /\ fate' = [fate EXCEPT ![q] = "running"]
    BY <1>2 DEF TakeQuery, Inv, TypeInv, HandsOK
  <2>2. /\ q \in Query /\ fate[q] = "pending" /\ fate'[q] = "running"
        /\ \A x \in Work : x # q => fate'[x] = fate[x]
        /\ QueryPlace'
    BY <2>1, TakeQueryPlace
  <2> HIDE DEF q
  <2>3. q \in Work /\ q \notin Event /\ q \notin Control /\ q # None
    BY <2>2, QueryKind, WorkKinds
  <2>4. QueuePlace' /\ EventPlace'
    BY <1>a, <1>2, <2>2, <2>3, WorkKinds DEF Inv, PlaceInv, OnePlace, QueuePlace, EventPlace, Live
  <2>5. q \notin {dTask, dFlush} /\ q # sTask
    BY <2>2, <2>3 DEF Inv, PlaceInv, OnePlace, HandPlace
  <2>6. HandPlace'
    BY <1>a, <2>1, <2>2, <2>3, <2>5, WorkKinds DEF Inv, PlaceInv, OnePlace, HandPlace
  <2>7. IdsOK'
    BY <1>a, <2>2, <2>3, WorkKinds, IdsUnchanged DEF Inv, PlaceInv
  <2>8. ShutdownOnce'
    BY <1>a, <2>2, <2>3, WorkKinds DEF Inv, PlaceInv, ShutdownOnce, Control
  <2> QED BY <2>2, <2>4, <2>6, <2>7, <2>8 DEF PlaceInv, OnePlace
<1>3. CASE DbRunTask
  <2>1. bpc = "runTask" /\ bTask' = None /\ RunTask("database", bTask) /\ UNCHANGED tasks
    BY <1>3 DEF DbRunTask
  <2>2. bTask \in Query
    BY <2>1 DEF Inv, TypeInv, TypeOK, HandsOK, DatabaseTypeOK
  <2>3. bTask \in Work /\ bTask \notin Event /\ bTask \notin Control /\ bTask # None
    BY <2>2, QueryKind, WorkKinds
  <2>4. fate[bTask] = "running"
    BY <2>3 DEF Inv, PlaceInv, OnePlace, HandPlace
  <2>5. /\ QueuePlace' /\ fate'[bTask] \in {"queued", "unheard", "dropped", "done"}
        /\ \A x \in Work : x # bTask => fate'[x] = fate[x]
    BY <2>1, <2>2, <2>4, RunTaskPlace DEF Thread
  <2>6. QueryPlace' /\ EventPlace'
    BY <1>a, <2>1, <2>3, <2>4, <2>5, WorkKinds DEF Inv, PlaceInv, OnePlace, QueryPlace, EventPlace, Live
  <2>7. HandPlace'
    BY <1>a, <2>1, <2>3, <2>4, <2>5, WorkKinds DEF Inv, PlaceInv, OnePlace, HandPlace
  <2>8. IdsOK'
    BY <1>a, <2>3, <2>5, WorkKinds, IdsUnchanged DEF Inv, PlaceInv
  <2>9. ShutdownOnce'
    BY <1>a, <2>3, <2>5, WorkKinds DEF Inv, PlaceInv, ShutdownOnce, Control
  <2> QED BY <2>5, <2>6, <2>7, <2>8, <2>9 DEF PlaceInv, OnePlace
<1> QED
  BY <1>1, <1>2, <1>3 DEF DatabaseLoop, DbCheck, DbLock, DbWake, DbSpuriousWake, DbLeaveWait,
     sharedVars, dispatcherVars

\* The main thread, notifications and the clock.
LEMMA RestPlace ==
  ASSUME Inv, (\E th \in Thread : Notify(th)) \/ Io \/ MainEnd \/ Tick \/ UNCHANGED vars
  PROVE  PlaceInv'
<1>1. CASE Io
  BY <1>1, PostTaskPlace, AddEventPlace DEF Io, IoAddTask, IoAddEvent, Thread
<1>2. CASE (\E th \in Thread : Notify(th)) \/ MainEnd \/ Tick \/ UNCHANGED vars
  <2>1. UNCHANGED <<taskList, tasks, fate, dTask, bTask, dFlush, sTask, eventList, eventIds,
                    eventId, lastEventId, dpc, dRet, gameState>>
    BY <1>2 DEF Notify, MainEnd, ServiceDie, JoinScheduler, JoinDatabase, JoinDispatcher,
       MainStep, Tick, vars, sharedVars, dispatcherVars, schedulerVars, databaseVars, runtimeVars
  <2>2. OnePlace' /\ IdsOK'
    BY <2>1, PlaceUnchanged DEF Inv
  <2>3. ShutdownOnce'
    BY <2>1 DEF Inv, PlaceInv, ShutdownOnce
  <2> QED BY <2>2, <2>3 DEF PlaceInv
<1> QED BY <1>1, <1>2

\* Every step of the runtime keeps the placement invariant.
LEMMA PlaceNext == Inv /\ [Next]_vars => PlaceInv'
BY HandlerPlace, DispatcherPlace, DispatcherLoopPlace, SchedulerPlace, DatabasePlace, RestPlace
DEF Next, SchedulerStep, DatabaseStep, SpuriousWake, Ended

\* Types and places hold in every reachable state: the invariant that the other
\* proofs start from.
LEMMA Invariant == Spec => []Inv
<1>1. Init => Inv
  BY TypeInit, PlaceInit DEF Inv
<1>2. Inv /\ [Next]_vars => Inv'
  BY TypeNext, PlaceNext DEF Inv
<1> QED BY <1>1, <1>2, PTL DEF Spec

\* Every work item is in exactly one place at any time: in one of the lists,
\* in the hands of one thread, or at its end.
THEOREM AlwaysInOnePlace == Spec => []OnePlace
BY Invariant, PTL DEF Inv, PlaceInv

-----------------------------------------------------------------------------
(* No notification of a condition variable is lost while there is work.     *)

\* flush() runs between two promises of the dispatcher to notify somebody, and
\* the dispatcher does not wait while a handler of its own is at work.
WakeInv ==
  /\ NoLostWakeup
  /\ dpc \in {"flush", "flushRun"} => Ready("dispatcher")

\* An event is no task with an expiration.
LEMMA EventsUntimed == Event \cap Timed = {}
BY WorkAssumption, KindsAssumption DEF Ordinary

\* Nobody waits at the start.
LEMMA WakeInit == Init => WakeInv
BY DEF Init, DispatcherInit, SchedulerInit, DatabaseInit, WakeInv, NoLostWakeup

\* A promise stays until it is kept: a thread that has none gets a new one.
LEMMA OwedStays ==
  ASSUME TypeInv, NEW th \in Thread, Ready(th), NEW x \in Worker \cup {None},
         owes' = [owes EXCEPT ![th] = x]
  PROVE  /\ \A target \in Worker : Owed(target) => Owed(target)'
         /\ x \in Worker => Owed(x)'
<1>1. owes \in [Thread -> Worker \cup {None}] /\ None \notin Worker
  BY KindsAssumption DEF TypeInv, TypeOK, SharedTypeOK, Worker, Thread
<1>2. owes'[th] = x /\ \A u \in Thread : u # th => owes'[u] = owes[u]
  BY <1>1
<1> QED BY <1>1, <1>2 DEF Owed, Ready

\* Dispatcher::addTask by a thread that owes nothing. The dispatcher itself does
\* not wait while it makes the call.
LEMMA AddTaskWakes ==
  ASSUME TypeInv, WakeInv, NEW th \in Thread, NEW w, Ready(th),
         AddTask(th, w) \/ AddTaskFront(th, w), UNCHANGED <<dpc, dWoken>>,
         th = "dispatcher" => dpc # "wait"
  PROVE  /\ dpc' = "wait" /\ taskList' # <<>> => dWoken' \/ Owed("dispatcher")'
         /\ \A target \in Worker : Owed(target) => Owed(target)'
         /\ th # "dispatcher" /\ Ready("dispatcher") => Ready("dispatcher")'
<1>1. "dispatcher" \in Worker /\ owes \in [Thread -> Worker \cup {None}]
  BY DEF Worker, Thread, TypeInv, TypeOK, SharedTypeOK
<1>2. CASE Refuse(w)
  BY <1>2 DEF Refuse, WakeInv, NoLostWakeup, Owed, Ready
<1>3. ASSUME NEW list, Accept(th, w, list)
      PROVE  /\ dpc' = "wait" => dWoken' \/ Owed("dispatcher")' \/ taskList' = <<>>
             /\ \A target \in Worker : Owed(target) => Owed(target)'
             /\ th # "dispatcher" /\ Ready("dispatcher") => Ready("dispatcher")'
  <2> DEFINE x == IF taskList = <<>> /\ th # "dispatcher" THEN "dispatcher" ELSE None
  <2>1. x \in Worker \cup {None} /\ owes' = [owes EXCEPT ![th] = x]
    BY <1>1, <1>3 DEF Accept
  <2>x. taskList = <<>> /\ th # "dispatcher" => x = "dispatcher"
    OBVIOUS
  <2> HIDE DEF x
  <2>2. /\ \A target \in Worker : Owed(target) => Owed(target)'
        /\ taskList = <<>> /\ th # "dispatcher" => Owed("dispatcher")'
    BY <1>1, <2>1, <2>x, OwedStays
  <2>r. th # "dispatcher" /\ Ready("dispatcher") => Ready("dispatcher")'
    BY <1>1, <2>1 DEF Ready, Worker, Thread
  <2>3. CASE taskList = <<>> /\ th # "dispatcher"
    BY <1>1, <2>x, <2>2, <2>3, <2>r
  <2>4. CASE taskList # <<>>
    <3>1. dpc' = "wait" => dWoken' \/ Owed("dispatcher")
      BY <2>4 DEF WakeInv, NoLostWakeup
    <3> QED BY <1>1, <2>2, <2>r, <3>1
  <2>5. CASE th = "dispatcher"
    BY <2>2, <2>5
  <2> QED BY <2>3, <2>4, <2>5
<1> QED BY <1>2, <1>3 DEF AddTask, AddTaskFront

\* Nothing changes for the database thread and the scheduler.
LEMMA OthersUnchanged ==
  ASSUME WakeInv, UNCHANGED <<bpc, tasks, bWoken>>, UNCHANGED <<spc, eventList, sWoken, sDeadline>>,
         eventList \subseteq Event, \A e \in Event : due'[e] = due[e],
         \A target \in Worker : Owed(target) => Owed(target)'
  PROVE  /\ bpc' = "wait" /\ tasks' # <<>> => bWoken' \/ Owed("database")'
         /\ spc' = "wait" /\ eventList' # {} => sWoken' \/ Owed("scheduler")'
         /\ spc' = "timedwait" /\ (\E e \in eventList' : due'[e] < sDeadline')
              => sWoken' \/ Owed("scheduler")'
BY DEF WakeInv, NoLostWakeup, Worker, Thread

\* A posted task loses no wakeup.
LEMMA PostTaskWakes ==
  ASSUME TypeInv, WakeInv, NEW th \in Thread, NEW w \in Packet \cup Signal, PostTask(th, w),
         Ready(th), th = "dispatcher" => dpc \in {"run", "kick"}
  PROVE  WakeInv'
<1>1. /\ AddTask(th, w) /\ UNCHANGED <<dpc, dWoken>>
      /\ UNCHANGED <<bpc, tasks, bWoken>> /\ UNCHANGED <<spc, eventList, sWoken, sDeadline>>
  BY DEF PostTask, schedulerVars, databaseVars
<1>2. eventList \subseteq Event /\ \A e \in Event : due'[e] = due[e]
  BY WorkKinds, EventsUntimed DEF PostTask, TypeInv, TypeOK, SharedTypeOK, SchedulerTypeOK
<1>3. /\ dpc' = "wait" /\ taskList' # <<>> => dWoken' \/ Owed("dispatcher")'
      /\ \A target \in Worker : Owed(target) => Owed(target)'
      /\ th # "dispatcher" /\ Ready("dispatcher") => Ready("dispatcher")'
  BY <1>1, AddTaskWakes
<1> QED BY <1>1, <1>2, <1>3, OthersUnchanged DEF WakeInv, NoLostWakeup

\* An added event loses no wakeup: the promise is made when it becomes the top.
LEMMA AddEventWakes ==
  ASSUME TypeInv, WakeInv, NEW th \in Thread, NEW e \in Event, NEW d \in Delays,
         AddEvent(th, e, d), UNCHANGED <<databaseVars, runtimeVars>>,
         Ready(th), th = "dispatcher" => dpc \in {"run", "kick"}
  PROVE  WakeInv'
<1>1. UNCHANGED <<dpc, dWoken, taskList, bpc, tasks, bWoken, spc, sWoken, sDeadline>>
  BY DEF AddEvent, dispatcherVars, databaseVars
<1>2. CASE RefuseEvent(e)
  BY <1>1, <1>2 DEF RefuseEvent, WakeInv, NoLostWakeup, Owed, Ready
<1>3. CASE AcceptEvent(th, e, d)
  <2>1. PICK top \in Tops' : owes' = [owes EXCEPT ![th] = IF top = e THEN "scheduler" ELSE None]
    BY <1>3 DEF AcceptEvent
  <2> DEFINE x == IF top = e THEN "scheduler" ELSE None
  <2>2. x \in Worker \cup {None} /\ owes' = [owes EXCEPT ![th] = x] /\ "scheduler" \in Worker
    BY <2>1 DEF Worker, Thread
  <2>x. top = e => x = "scheduler"
    OBVIOUS
  <2> HIDE DEF x
  <2>3. /\ \A target \in Worker : Owed(target) => Owed(target)'
        /\ top = e => Owed("scheduler")'
    BY <2>2, <2>x, OwedStays
  <2>4. Ready("dispatcher") /\ th # "dispatcher" => Ready("dispatcher")'
    BY <2>2 DEF Ready, TypeInv, TypeOK, SharedTypeOK, Thread
  <2>5. /\ eventList \subseteq Event /\ eventList' = eventList \cup {e}
        /\ \A f \in Event : f # e => due'[f] = due[f]
        /\ \A f \in Event : due[f] \in Nat /\ due'[f] \in Nat
        /\ sDeadline \in Nat
    BY <1>3, WorkKinds, WorkAssumption DEF AcceptEvent, TypeInv, TypeOK, SharedTypeOK, SchedulerTypeOK
  <2>6. top \in eventList' /\ \A f \in eventList' : due'[top] <= due'[f]
    BY <2>1 DEF Tops
  <2>7. CASE top = e
    BY <1>1, <2>3, <2>4, <2>7 DEF WakeInv, NoLostWakeup, Worker, Thread
  <2>8. CASE top # e
    <3>1. top \in eventList /\ due'[top] = due[top] /\ top \in Event
      BY <2>5, <2>6, <2>8
    <3>2. ASSUME NEW f \in eventList', due'[f] < sDeadline PROVE due[top] < sDeadline
      BY <2>5, <2>6, <3>1, <3>2
    <3>3. /\ spc' = "timedwait" /\ (\E f \in eventList' : due'[f] < sDeadline')
             => sWoken' \/ Owed("scheduler")'
          /\ spc' = "wait" /\ eventList' # {} => sWoken' \/ Owed("scheduler")'
      BY <1>1, <2>2, <2>3, <3>1, <3>2 DEF WakeInv, NoLostWakeup
    <3> QED BY <1>1, <2>3, <2>4, <3>3 DEF WakeInv, NoLostWakeup, Worker, Thread
  <2> QED BY <2>7, <2>8
<1> QED BY <1>2, <1>3 DEF AddEvent

\* What handlers do.
LEMMA HandlerWakes == TypeInv /\ WakeInv /\ Handler => WakeInv'
<1> SUFFICES ASSUME TypeInv, WakeInv, Handler PROVE WakeInv'
  OBVIOUS
<1>1. ASSUME NEW e \in Event, HandlerStopEvent(e) PROVE WakeInv'
  BY <1>1 DEF HandlerStopEvent, StopEvent, WakeInv, NoLostWakeup, Owed, Ready, dispatcherVars,
     databaseVars
<1>2. ASSUME NEW e \in Event, NEW d \in Delays, HandlerAddEvent(e, d) PROVE WakeInv'
  BY <1>2, AddEventWakes DEF HandlerAddEvent, Busy, Thread
<1>3. ASSUME NEW q \in Query, HandlerAddQuery(q) PROVE WakeInv'
  <2>1. /\ Ready("dispatcher") /\ dpc \in {"run", "kick"}
        /\ UNCHANGED <<dpc, dWoken, taskList, bpc, bWoken, spc, sWoken, sDeadline, eventList, due>>
        /\ "database" \in Worker /\ "dispatcher" \in Thread
    BY <1>3 DEF HandlerAddQuery, AddQuery, Busy, dispatcherVars, schedulerVars, Worker, Thread
  <2>2. CASE UNCHANGED <<tasks, owes>>
    BY <2>1, <2>2 DEF WakeInv, NoLostWakeup, Owed, Ready
  <2>3. CASE owes' = [owes EXCEPT !["dispatcher"] = IF tasks = <<>> THEN "database" ELSE None]
    <3> DEFINE x == IF tasks = <<>> THEN "database" ELSE None
    <3>1. /\ x \in Worker \cup {None} /\ owes' = [owes EXCEPT !["dispatcher"] = x]
          /\ tasks = <<>> => x = "database"
      BY <2>1, <2>3
    <3> HIDE DEF x
    <3>2. /\ \A target \in Worker : Owed(target) => Owed(target)'
          /\ tasks = <<>> => Owed("database")'
      BY <2>1, <3>1, OwedStays
    <3> QED BY <2>1, <3>2 DEF WakeInv, NoLostWakeup, Worker, Thread
  <2> QED BY <1>3, <2>2, <2>3 DEF HandlerAddQuery, AddQuery
<1>4. ASSUME NEW w \in Packet, HandlerAddTask(w) PROVE WakeInv'
  BY <1>4, PostTaskWakes DEF HandlerAddTask, Busy, Thread
<1>5. CASE HandlerSave
  BY <1>5 DEF HandlerSave, WakeInv, NoLostWakeup, Owed, Ready, sharedVars, schedulerVars
<1> QED BY <1>1, <1>2, <1>3, <1>4, <1>5 DEF Handler

\* A step that changes neither the lists nor the promises, and wakes nobody.
LEMMA QuietStep ==
  ASSUME WakeInv, UNCHANGED <<taskList, tasks, eventList, due, owes, dWoken, bWoken, sWoken,
                              bpc, spc, sDeadline>>,
         dpc' # "wait",
         dpc' \in {"flush", "flushRun"} => Ready("dispatcher")
  PROVE  WakeInv'
BY DEF WakeInv, NoLostWakeup, Owed, Ready

\* The dispatcher's loop, flush() and the stages of the handlers.
LEMMA DispatcherWakes ==
  ASSUME TypeInv, WakeInv,
         DispatcherStep \/ (DispSpuriousWake /\ UNCHANGED <<schedulerVars, databaseVars, runtimeVars>>)
  PROVE  WakeInv'
<1>1. CASE /\ DispatcherLoop \/ DispSpuriousWake
           /\ UNCHANGED <<schedulerVars, databaseVars, runtimeVars>>
  <2>1. /\ UNCHANGED <<tasks, eventList, due, owes, bWoken, sWoken, bpc, spc, sDeadline>>
        /\ dpc' \notin {"flush", "flushRun"}
        /\ dpc' = "wait" => taskList' = <<>>
    BY <1>1 DEF DispatcherLoop, DispCheck, DispLock, DispWake, DispSpuriousWake, LeaveWait,
       TakeTask, DispStart, DispReturn, sharedVars, schedulerVars, databaseVars
  <2> QED BY <2>1 DEF WakeInv, NoLostWakeup, Owed, Ready
<1>2. CASE FlushTake
  <2>1. /\ UNCHANGED <<taskList, eventList, due, owes, dWoken, bWoken, sWoken, bpc, spc, sDeadline>>
        /\ dpc = "flush" /\ dpc' # "wait"
        /\ tasks' # <<>> => tasks # <<>>
    BY <1>2 DEF FlushTake, schedulerVars, TypeInv, TypeOK, DatabaseTypeOK
  <2> QED BY <2>1 DEF WakeInv, NoLostWakeup, Owed, Ready
<1>3. CASE FlushRun
  <2>1. /\ dpc = "flushRun" /\ dpc' = "flush" /\ Ready("dispatcher")
        /\ UNCHANGED <<tasks, eventList, due, dWoken, bWoken, sWoken, bpc, spc, sDeadline>>
        /\ (AddTask("dispatcher", dFlush) \/ owes' = owes)
    BY <1>3 DEF FlushRun, RunTask, schedulerVars, WakeInv
  <2>2. owes' = owes
    BY <2>1 DEF AddTask, Accept, Refuse, Ready, TypeInv, TypeOK, SharedTypeOK
  <2> QED BY <2>1, <2>2 DEF WakeInv, NoLostWakeup, Owed, Ready
<1>4. CASE \/ Saved \/ HandlerReturn \/ HandleSignal \/ ShutdownSave \/ StopThreads
           \/ TerminateScheduler \/ TerminateDatabase \/ StopService \/ TerminateDispatcher
  <2>1. /\ UNCHANGED <<taskList, tasks, eventList, due, owes, dWoken, bWoken, sWoken, bpc, spc,
                       sDeadline>>
        /\ dpc' # "wait" /\ Ready("dispatcher")
    BY <1>4 DEF Saved, HandlerReturn, HandleSignal, ShutdownSave, StopThreads,
       TerminateScheduler, TerminateDatabase, StopService, TerminateDispatcher, Stage,
       sharedVars, schedulerVars, databaseVars
  <2> QED BY <2>1, QuietStep
<1>5. CASE PostShutdown \/ PostTerminate \/ ClearScheduler
  <2>1. /\ UNCHANGED <<tasks, due, dWoken, bWoken, sWoken, bpc, spc, sDeadline>>
        /\ dpc' \notin {"wait", "flush", "flushRun"} /\ Ready("dispatcher")
        /\ eventList' = eventList \/ eventList' = {}
        /\ AddTask("dispatcher", GameShutdown) \/ owes' = owes
    BY <1>5 DEF PostShutdown, PostTerminate, ClearScheduler, ClearEvents, Stage
  <2>2. owes' = owes
    BY <2>1 DEF AddTask, Accept, Refuse, Ready, TypeInv, TypeOK, SharedTypeOK
  <2> QED BY <2>1, <2>2 DEF WakeInv, NoLostWakeup, Owed, Ready
<1>6. CASE NotifyScheduler \/ NotifyDatabase
  <2>1. /\ UNCHANGED <<taskList, tasks, eventList, due, dWoken, bWoken, sWoken, bpc, spc, sDeadline>>
        /\ dpc' \notin {"wait", "flush", "flushRun"} /\ Ready("dispatcher")
    BY <1>6 DEF NotifyScheduler, NotifyDatabase, Stage
  <2>2. PICK x \in Worker : owes' = [owes EXCEPT !["dispatcher"] = x]
    BY <1>6 DEF NotifyScheduler, NotifyDatabase, Worker, Thread
  <2>3. \A target \in Worker : Owed(target) => Owed(target)'
    BY <2>1, <2>2, OwedStays DEF Thread
  <2> QED BY <2>1, <2>3 DEF WakeInv, NoLostWakeup, Worker, Thread
<1> QED BY <1>1, <1>2, <1>3, <1>4, <1>5, <1>6 DEF DispatcherStep

\* Scheduler::threadMain: the deadline is the time of the earliest event.
LEMMA SchedulerWakes ==
  ASSUME TypeInv, WakeInv, SchedulerLoop \/ SchedSpuriousWake, UNCHANGED <<databaseVars, runtimeVars>>
  PROVE  WakeInv'
<1>1. CASE SchedCheck \/ SchedLock \/ SchedWake \/ SchedSpuriousWake \/ SchedTimeout
  <2>1. /\ UNCHANGED <<taskList, tasks, due, owes, dWoken, bWoken, bpc, dpc>>
        /\ spc' \notin {"wait", "timedwait"} \/ SchedLock
    BY <1>1 DEF SchedCheck, SchedLock, SchedWake, SchedSpuriousWake, SchedLeaveWait, SchedTimeout,
       sharedVars, dispatcherVars, databaseVars
  <2>2. ASSUME SchedLock
        PROVE  /\ spc' = "wait" => eventList' = {}
               /\ spc' = "timedwait" => \A e \in eventList' : ~(due'[e] < sDeadline')
    BY <2>1, <2>2, WorkKinds DEF SchedLock, Tops, TypeInv, TypeOK, SharedTypeOK, SchedulerTypeOK
  <2> QED BY <2>1, <2>2 DEF WakeInv, NoLostWakeup, Owed, Ready
<1>2. CASE SchedHandoff /\ Ready("scheduler")
  <2>1. /\ AddTaskFront("scheduler", sTask) /\ spc' = "check"
        /\ UNCHANGED <<dpc, dWoken>> /\ UNCHANGED <<bpc, tasks, bWoken>>
        /\ "scheduler" \in Thread
    BY <1>2 DEF SchedHandoff, databaseVars, Thread
  <2>2. /\ dpc' = "wait" /\ taskList' # <<>> => dWoken' \/ Owed("dispatcher")'
        /\ \A target \in Worker : Owed(target) => Owed(target)'
        /\ Ready("dispatcher") => Ready("dispatcher")'
    BY <1>2, <2>1, AddTaskWakes
  <2> QED BY <2>1, <2>2 DEF WakeInv, NoLostWakeup, Worker, Thread
<1>3. CASE SchedHandoff /\ ~Ready("scheduler")
  BY <1>3 DEF SchedulerLoop, SchedSpuriousWake, SchedLeaveWait, SchedHandoff
<1> QED BY <1>1, <1>2, <1>3 DEF SchedulerLoop

\* DatabaseTasks::threadMain.
LEMMA DatabaseWakes ==
  ASSUME TypeInv, WakeInv, DatabaseLoop \/ DbSpuriousWake, UNCHANGED runtimeVars
  PROVE  WakeInv'
<1>1. CASE DbCheck \/ DbLock \/ DbWake \/ DbSpuriousWake
  <2>1. /\ UNCHANGED <<taskList, eventList, due, owes, dWoken, sWoken, spc, dpc, sDeadline>>
        /\ bpc' = "wait" => tasks' = <<>>
    BY <1>1 DEF DbCheck, DbLock, DbWake, DbSpuriousWake, DbLeaveWait, TakeQuery, sharedVars,
       dispatcherVars, schedulerVars
  <2> QED BY <2>1 DEF WakeInv, NoLostWakeup, Owed, Ready
<1>2. CASE DbRunTask /\ Ready("database")
  <2>1. /\ bpc' = "check" /\ "database" \in Thread
        /\ UNCHANGED <<dpc, dWoken>> /\ UNCHANGED <<spc, eventList, sWoken, sDeadline, due>>
        /\ AddTask("database", bTask) \/ UNCHANGED <<taskList, owes>>
    BY <1>2 DEF DbRunTask, RunTask, schedulerVars, Thread
  <2>2. CASE AddTask("database", bTask)
    <3>1. /\ dpc' = "wait" /\ taskList' # <<>> => dWoken' \/ Owed("dispatcher")'
          /\ \A target \in Worker : Owed(target) => Owed(target)'
          /\ Ready("dispatcher") => Ready("dispatcher")'
      BY <1>2, <2>1, <2>2, AddTaskWakes
    <3> QED BY <2>1, <3>1 DEF WakeInv, NoLostWakeup, Worker, Thread
  <2>3. CASE UNCHANGED <<taskList, owes>>
    BY <2>1, <2>3 DEF WakeInv, NoLostWakeup, Owed, Ready
  <2> QED BY <2>1, <2>2, <2>3
<1>3. CASE DbRunTask /\ ~Ready("database")
  BY <1>3 DEF DatabaseLoop, DbSpuriousWake, DbLeaveWait, DbRunTask
<1> QED BY <1>1, <1>2, <1>3 DEF DatabaseLoop

\* A notification finds its thread waiting, or the thread has not begun to wait.
LEMMA NotifyWakes ==
  ASSUME TypeInv, WakeInv, NEW th \in Thread, Notify(th)
  PROVE  WakeInv'
<1>1. /\ owes' = [owes EXCEPT ![th] = None] /\ Wake(owes[th])
      /\ UNCHANGED <<taskList, tasks, eventList, due, dpc, bpc, spc, sDeadline>>
  BY DEF Notify
<1>2. owes \in [Thread -> Worker \cup {None}] /\ None \notin Worker
  BY KindsAssumption DEF TypeInv, TypeOK, SharedTypeOK, Worker, Thread
<1>3. \A target \in Worker : Owed(target) => Owed(target)' \/ owes[th] = target
  BY <1>1, <1>2 DEF Owed
<1>4. Ready("dispatcher") => Ready("dispatcher")'
  BY <1>1, <1>2 DEF Ready, Thread
<1> QED BY <1>1, <1>3, <1>4 DEF WakeInv, NoLostWakeup, Wake, Worker, Thread

\* The steps that touch no list lose no wakeup.
LEMMA RestWakes ==
  ASSUME TypeInv, WakeInv, Io \/ MainEnd \/ Tick \/ UNCHANGED vars
  PROVE  WakeInv'
<1>1. CASE Io
  BY <1>1, PostTaskWakes, AddEventWakes DEF Io, IoAddTask, IoAddEvent, InService, Thread
<1>2. CASE MainEnd \/ Tick \/ UNCHANGED vars
  BY <1>2 DEF MainEnd, ServiceDie, JoinScheduler, JoinDatabase, JoinDispatcher, MainStep, Tick,
     vars, sharedVars, dispatcherVars, schedulerVars, databaseVars, WakeInv, NoLostWakeup, Owed, Ready
<1> QED BY <1>1, <1>2

\* Every step of the runtime keeps the wakeup invariant.
LEMMA WakeNext == TypeInv /\ WakeInv /\ [Next]_vars => WakeInv'
BY HandlerWakes, DispatcherWakes, SchedulerWakes, DatabaseWakes, NotifyWakes, RestWakes
DEF Next, SchedulerStep, DatabaseStep, SpuriousWake, Ended

\* A thread that waits while its list has work has been notified or is about
\* to be, although every notification is sent after the lock is released.
THEOREM NoWakeupIsLost == Spec => []NoLostWakeup
<1>1. Spec => []WakeInv
  BY WakeInit, WakeNext, TypeInvariant, PTL DEF Spec
<1> QED BY <1>1, PTL DEF WakeInv

-----------------------------------------------------------------------------
(* What becomes of a work item, step by step *)

\* The moves an item may make in a step, one item at a time.
Moves == {<<"new", "pending">>, <<"new", "queued">>, <<"new", "dropped">>,
          <<"pending", "cancelled">>, <<"pending", "inflight">>, <<"pending", "running">>,
          <<"inflight", "queued">>, <<"inflight", "dropped">>, <<"queued", "running">>,
          <<"running", "queued">>, <<"running", "unheard">>, <<"running", "done">>,
          <<"running", "expired">>}

Moved(w) == /\ <<fate[w], fate'[w]>> \in Moves
            /\ fate'[w] = "pending" => w \in Event \cup Query
            /\ \A x \in Work : x # w => fate'[x] = fate[x]

\* The other possibility: Scheduler::shutdown drops all pending events at once.
Dropped == \A x \in Work : fate'[x] = fate[x] \/ (fate[x] = "pending" /\ fate'[x] = "dropped")

MoveStep == Dropped \/ \E w \in Work : Moved(w)

\* A step that moves no item is a move step.
LEMMA MoveNothing == UNCHANGED fate => MoveStep
BY DEF MoveStep, Dropped

\* Dispatcher::addTask moves the task it is given.
LEMMA AddTaskMoves ==
  ASSUME Inv, NEW th \in Thread, NEW w \in Work, AddTask(th, w) \/ AddTaskFront(th, w),
         \/ fate[w] = "new" /\ w \notin Query
         \/ fate[w] = "inflight" /\ w \notin Query
         \/ fate[w] = "running" /\ w \in Query
  PROVE  Moved(w)
<1>1. /\ fate'[w] \in {"queued", IF w \in Query THEN "unheard" ELSE "dropped"}
      /\ \A x \in Work : x # w => fate'[x] = fate[x]
  BY DEF AddTask, AddTaskFront, Accept, Refuse, Inv, TypeInv, TypeOK, SharedTypeOK
<1> QED BY <1>1 DEF Moved, Moves

\* A new task moves into the list or is refused.
LEMMA PostTaskMoves ==
  ASSUME Inv, NEW th \in Thread, NEW w \in Packet \cup Signal, PostTask(th, w)
  PROVE  MoveStep
<1>1. w \in Work /\ w \notin Query
  BY WorkKinds, KindsAssumption DEF Control, Ordinary
<1> QED BY <1>1, AddTaskMoves DEF PostTask, MoveStep

\* A new event becomes pending or is refused.
LEMMA AddEventMoves ==
  ASSUME Inv, NEW th \in Thread, NEW e \in Event, NEW d \in Delays, fate[e] = "new",
         AddEvent(th, e, d)
  PROVE  MoveStep
<1>1. e \in Work /\ e \notin Query
  BY WorkKinds, KindsAssumption DEF Ordinary
<1>2. /\ fate'[e] \in {"pending", "dropped"}
      /\ \A x \in Work : x # e => fate'[x] = fate[x]
  BY <1>1 DEF AddEvent, AcceptEvent, RefuseEvent, Inv, TypeInv, TypeOK, SharedTypeOK
<1> QED BY <1>1, <1>2 DEF MoveStep, Moved, Moves

\* The event whose id stopEvent finds is in the queue.
LEMMA StoppedIsPending ==
  ASSUME Inv, NEW e \in Event, eventId[e] \in eventIds
  PROVE  fate[e] = "pending"
<1>1. e \in eventList
  BY DEF Inv, PlaceInv, IdsOK, TypeInv, TypeOK, SchedulerTypeOK
<1> QED BY <1>1 DEF Inv, PlaceInv, OnePlace, EventPlace, Live

\* What a handler does moves at most one item.
LEMMA HandlerMoves == Inv /\ Handler => MoveStep
<1> SUFFICES ASSUME Inv, Handler PROVE MoveStep
  OBVIOUS
<1>1. ASSUME NEW e \in Event, HandlerStopEvent(e) PROVE MoveStep
  <2>1. e \in Work /\ fate[e] = "pending"
    BY <1>1, StoppedIsPending, WorkKinds DEF HandlerStopEvent, StopEvent
  <2>2. fate'[e] = "cancelled" /\ \A x \in Work : x # e => fate'[x] = fate[x]
    BY <1>1, <2>1 DEF HandlerStopEvent, StopEvent, Inv, TypeInv, TypeOK, SharedTypeOK
  <2> QED BY <2>1, <2>2 DEF MoveStep, Moved, Moves
<1>2. ASSUME NEW e \in Event, NEW d \in Delays, HandlerAddEvent(e, d) PROVE MoveStep
  BY <1>2, AddEventMoves DEF HandlerAddEvent, Thread
<1>3. ASSUME NEW q \in Query, HandlerAddQuery(q) PROVE MoveStep
  <2>1. q \in Work /\ fate[q] = "new"
    BY <1>3, WorkKinds DEF HandlerAddQuery
  <2>2. fate'[q] \in {"pending", "dropped"} /\ \A x \in Work : x # q => fate'[x] = fate[x]
    BY <1>3, <2>1 DEF HandlerAddQuery, AddQuery, Inv, TypeInv, TypeOK, SharedTypeOK
  <2> QED BY <2>1, <2>2 DEF MoveStep, Moved, Moves
<1>4. ASSUME NEW w \in Packet, HandlerAddTask(w) PROVE MoveStep
  BY <1>4, PostTaskMoves DEF HandlerAddTask, Thread
<1>5. CASE HandlerSave
  BY <1>5, MoveNothing DEF HandlerSave, sharedVars
<1> QED BY <1>1, <1>2, <1>3, <1>4, <1>5 DEF Handler

\* Taking a query from the list makes it the one in hand.
LEMMA TakeQueryMoves ==
  ASSUME Inv, tasks # <<>>, fate' = [fate EXCEPT ![Head(tasks)] = "running"],
         tasks' = Tail(tasks)
  PROVE  MoveStep
BY TakeQueryPlace, WorkKinds DEF MoveStep, Moved, Moves

\* A query that a thread holds is executed.
LEMMA RunTaskMoves ==
  ASSUME Inv, NEW th \in Thread, NEW q \in {bTask, dFlush}, q # None, RunTask(th, q)
  PROVE  MoveStep
<1>1. q \in Query /\ q \in Work
  BY WorkKinds DEF Inv, TypeInv, TypeOK, DatabaseTypeOK
<1>2. fate[q] = "running"
  BY <1>1 DEF Inv, PlaceInv, OnePlace, HandPlace
<1>3. CASE AddTask(th, q)
  BY <1>1, <1>2, <1>3, AddTaskMoves DEF MoveStep
<1>4. CASE fate' = [fate EXCEPT ![q] = "done"]
  <2>1. fate'[q] = "done" /\ \A x \in Work : x # q => fate'[x] = fate[x]
    BY <1>1, <1>4 DEF Inv, TypeInv, TypeOK, SharedTypeOK
  <2> QED BY <1>1, <1>2, <2>1 DEF MoveStep, Moved, Moves
<1> QED BY <1>3, <1>4 DEF RunTask

\* A round of threadMain takes, expires or finishes one task.
LEMMA DispatcherLoopMoves ==
  ASSUME Inv, DispatcherLoop \/ DispSpuriousWake
  PROVE  MoveStep
<1>1. CASE (DispLock \/ DispWake \/ DispSpuriousWake) /\ TakeTask
  <2> DEFINE w == Head(taskList)
  <2>1. taskList \in Seq(Work) /\ taskList # <<>> /\ w \in Work /\ Distinct(taskList)
    BY <1>1, TakeFirst DEF TakeTask, Inv, PlaceInv, OnePlace, QueuePlace, TypeInv, TypeOK,
       DispatcherTypeOK
  <2>2. fate' = [fate EXCEPT ![w] = "running"]
    BY <1>1 DEF TakeTask
  <2>3. fate[w] = "queued"
    BY <2>1, TailListed DEF Inv, PlaceInv, OnePlace, QueuePlace
  <2>4. fate'[w] = "running" /\ \A x \in Work : x # w => fate'[x] = fate[x]
    BY <2>1, <2>2 DEF Inv, TypeInv, TypeOK, SharedTypeOK
  <2> QED BY <2>1, <2>3, <2>4 DEF MoveStep, Moved, Moves
<1>2. CASE UNCHANGED fate
  BY <1>2, MoveNothing
<1>3. CASE DispStart \/ DispReturn
  <2>1. \/ /\ dTask # None
           /\ \/ fate' = [fate EXCEPT ![dTask] = "expired"]
              \/ fate' = [fate EXCEPT ![dTask] = "done"]
        \/ fate' = fate
    BY <1>3 DEF DispStart, DispReturn, Inv, TypeInv, HandsOK
  <2>2. dTask # None => dTask \in Work /\ fate[dTask] = "running"
    BY DEF Inv, PlaceInv, OnePlace, HandPlace, TypeInv, TypeOK, DispatcherTypeOK
  <2>3. CASE fate' = fate
    BY <2>3, MoveNothing
  <2>4. ASSUME NEW f \in {"expired", "done"}, dTask # None, fate' = [fate EXCEPT ![dTask] = f]
        PROVE  MoveStep
    <3>1. fate'[dTask] = f /\ \A x \in Work : x # dTask => fate'[x] = fate[x]
      BY <2>2, <2>4 DEF Inv, TypeInv, TypeOK, SharedTypeOK
    <3> QED BY <2>2, <2>4, <3>1 DEF MoveStep, Moved, Moves
  <2>5. CASE dTask # None /\ fate' = [fate EXCEPT ![dTask] = "expired"]
    BY <2>4, <2>5
  <2>6. CASE dTask # None /\ fate' = [fate EXCEPT ![dTask] = "done"]
    BY <2>4, <2>6
  <2> QED BY <2>1, <2>3, <2>5, <2>6
<1>4. CASE (DispLock \/ DispWake \/ DispSpuriousWake) /\ ~TakeTask
  <2>1. UNCHANGED fate
    BY <1>4 DEF DispLock, DispWake, DispSpuriousWake, LeaveWait
  <2> QED BY <2>1, <1>2
<1>5. CASE DispCheck
  BY <1>5, <1>2 DEF DispCheck, sharedVars
<1> QED BY <1>1, <1>3, <1>4, <1>5 DEF DispatcherLoop

\* So does every step of the dispatcher.
LEMMA DispatcherMoves == Inv /\ DispatcherStep => MoveStep
<1> SUFFICES ASSUME Inv, DispatcherStep PROVE MoveStep
  OBVIOUS
<1>1. CASE DispatcherLoop
  BY <1>1, DispatcherLoopMoves
<1>2. CASE FlushTake
  BY <1>2, TakeQueryMoves, MoveNothing DEF FlushTake
<1>3. CASE FlushRun
  BY <1>3, RunTaskMoves DEF FlushRun, Inv, TypeInv, HandsOK, Thread
<1>4. CASE PostShutdown
  <2>1. fate[GameShutdown] = "new" /\ GameShutdown \in Work /\ GameShutdown \notin Query
    BY <1>4, WorkKinds, KindsAssumption DEF PostShutdown, Stage, Inv, PlaceInv, ShutdownOnce, Control
  <2> QED BY <1>4, <2>1, AddTaskMoves DEF PostShutdown, MoveStep, Thread
<1>5. CASE PostTerminate
  <2>1. fate[Terminate] = "new" /\ Terminate \in Work
    BY <1>5, WorkKinds DEF PostTerminate, Stage, Inv, PlaceInv, ShutdownOnce
  <2>2. fate'[Terminate] = "queued" /\ \A x \in Work : x # Terminate => fate'[x] = fate[x]
    BY <1>5, <2>1 DEF PostTerminate, Inv, TypeInv, TypeOK, SharedTypeOK
  <2> QED BY <2>1, <2>2 DEF MoveStep, Moved, Moves
<1>6. CASE ClearScheduler
  BY <1>6, WorkKinds DEF ClearScheduler, ClearEvents, Fates, MoveStep, Dropped, Inv, PlaceInv,
     OnePlace, EventPlace, Live, TypeInv, TypeOK, SchedulerTypeOK
<1>7. CASE \/ Saved \/ HandlerReturn \/ HandleSignal \/ ShutdownSave \/ StopThreads
           \/ TerminateScheduler \/ NotifyScheduler \/ TerminateDatabase
           \/ NotifyDatabase \/ StopService \/ TerminateDispatcher
  BY <1>7, MoveNothing DEF Saved, HandlerReturn, HandleSignal, ShutdownSave, StopThreads,
     TerminateScheduler, NotifyScheduler, TerminateDatabase, NotifyDatabase, StopService,
     TerminateDispatcher, sharedVars
<1> QED BY <1>1, <1>2, <1>3, <1>4, <1>5, <1>6, <1>7 DEF DispatcherStep

\* A step of the scheduler fires one event or hands one over.
LEMMA SchedulerMoves ==
  ASSUME Inv, SchedulerLoop \/ SchedSpuriousWake
  PROVE  MoveStep
<1>1. CASE UNCHANGED fate
  BY <1>1, MoveNothing
<1>2. ASSUME NEW top \in Tops, eventId[top] \in eventIds, fate' = [fate EXCEPT ![top] = "inflight"]
      PROVE  MoveStep
  <2>1. top \in Event /\ top \in Work /\ fate[top] = "pending"
    BY <1>2, StoppedIsPending, WorkKinds DEF Tops, Inv, TypeInv, TypeOK, SchedulerTypeOK
  <2>2. fate'[top] = "inflight" /\ \A x \in Work : x # top => fate'[x] = fate[x]
    BY <1>2, <2>1 DEF Inv, TypeInv, TypeOK, SharedTypeOK
  <2> QED BY <2>1, <2>2 DEF MoveStep, Moved, Moves
<1>3. CASE SchedHandoff
  <2>1. sTask \in Event /\ sTask \in Work /\ sTask \notin Query
    BY <1>3, WorkKinds, KindsAssumption DEF SchedHandoff, Inv, TypeInv, TypeOK, HandsOK,
       SchedulerTypeOK, Ordinary
  <2>2. fate[sTask] = "inflight"
    BY <2>1 DEF Inv, PlaceInv, OnePlace, HandPlace
  <2> QED BY <1>3, <2>1, <2>2, AddTaskMoves DEF SchedHandoff, MoveStep, Thread
<1> QED
  BY <1>1, <1>2, <1>3 DEF SchedulerLoop, SchedSpuriousWake, SchedCheck, SchedLock, SchedWake,
     SchedLeaveWait, SchedTimeout, sharedVars

\* A step of the database thread takes or executes one query.
LEMMA DatabaseMoves ==
  ASSUME Inv, DatabaseLoop \/ DbSpuriousWake
  PROVE  MoveStep
<1>1. CASE UNCHANGED fate
  BY <1>1, MoveNothing
<1>2. CASE TakeQuery
  BY <1>2, TakeQueryMoves DEF TakeQuery
<1>3. CASE DbRunTask
  BY <1>3, RunTaskMoves DEF DbRunTask, Inv, TypeInv, HandsOK, Thread
<1> QED
  BY <1>1, <1>2, <1>3 DEF DatabaseLoop, DbSpuriousWake, DbCheck, DbLock, DbWake, DbLeaveWait, sharedVars

\* Every step of the runtime is a move step.
LEMMA NextMoves == Inv /\ [Next]_vars => MoveStep
<1> SUFFICES ASSUME Inv, [Next]_vars PROVE MoveStep
  OBVIOUS
<1>1. CASE Io
  BY <1>1, PostTaskMoves, AddEventMoves DEF Io, IoAddTask, IoAddEvent, Thread
<1>2. CASE (\E th \in Thread : Notify(th)) \/ MainEnd \/ Tick \/ UNCHANGED vars
  BY <1>2, MoveNothing DEF Notify, MainEnd, ServiceDie, JoinScheduler, JoinDatabase,
     JoinDispatcher, MainStep, Tick, vars, sharedVars
<1> QED
  BY <1>1, <1>2, HandlerMoves, DispatcherMoves, DispatcherLoopMoves, SchedulerMoves, DatabaseMoves
  DEF Next, SchedulerStep, DatabaseStep, SpuriousWake, Ended

\* What has met its end stays there. A stopped event in particular never runs,
\* although it stays in the queue, and nothing runs a second time.
THEOREM TheEndIsFinal == Spec => FinalForGood
<1>1. Inv /\ [Next]_vars => [\A w \in Work : fate[w] \in Final => fate'[w] = fate[w]]_vars
  BY NextMoves DEF MoveStep, Dropped, Moved, Moves, Final
<1> QED BY <1>1, Invariant, PTL DEF Spec, FinalForGood

\* Only events and queries, which have lists of their own, are ever pending.
PendingKinds == \A w \in Work : fate[w] = "pending" => w \in Event \cup Query

\* No task becomes pending.
LEMMA OnlyListedKinds == Spec => []PendingKinds
<1>1. Init => PendingKinds
  BY DEF Init, SharedInit, PendingKinds
<1>2. Inv /\ PendingKinds /\ [Next]_vars => PendingKinds'
  BY NextMoves, WorkKinds DEF MoveStep, Dropped, Moved, PendingKinds
<1> QED BY <1>1, <1>2, Invariant, PTL DEF Spec

-----------------------------------------------------------------------------
(* The end of the server. Game::shutdown winds the components down in an    *)
(* order, and each part of the invariant says what holds from a stage on.   *)

\* The stages of setGameState(GAME_STATE_SHUTDOWN) that close the components.
StopPc == {"stopScheduler", "stopDatabase", "stopDispatcher"}

\* The dispatcher accepts tasks until the handler that posts Game::shutdown
\* closes it: when Game::shutdown runs nothing can be added behind its last task.
ClosedFirst ==
  /\ fate[GameShutdown] = "new" => dState = "RUNNING"
  /\ dpc \in StopPc => /\ dTask \in Signal
                       /\ fate[GameShutdown] = "queued"
                       /\ dState = "RUNNING"
  /\ fate[GameShutdown] # "new" /\ dpc \notin StopPc => dState # "RUNNING"

Cleared == sState = "TERMINATED" /\ eventList = {}
Flushed == bState = "TERMINATED" /\ tasks = <<>>

\* What Game::shutdown has done by each of its stages.
WoundDown ==
  /\ dpc = "sClear" => sState = "TERMINATED"
  /\ dpc \in {"sNotify", "bTerminate"} => Cleared
  /\ dpc \in {"flush", "flushRun"} /\ dTask = GameShutdown
     => Cleared /\ bState = "TERMINATED" /\ dRet = "bNotify"
  /\ dpc \in {"bNotify", "terminate"} => Cleared /\ Flushed
  /\ fate[Terminate] # "new" => Cleared /\ Flushed /\ (ioStop \/ dpc = "stopService")

\* The dispatcher's last task is the last of its list.
LastTask ==
  /\ fate[Terminate] = "queued" => taskList # <<>> /\ taskList[Len(taskList)] = Terminate
  /\ fate[Terminate] \notin {"new", "queued"} => taskList = <<>>
  /\ dState = "TERMINATED" => fate[Terminate] \notin {"new", "queued"}
  /\ dpc = "exit" => dState = "TERMINATED"

\* main has joined the threads in order.
Joined ==
  /\ mpc \in {"joinDatabase", "joinDispatcher", "end"} => spc = "exit"
  /\ mpc \in {"joinDispatcher", "end"} => bpc = "exit"
  /\ mpc = "end" => dpc = "exit"

EndInv == ClosedFirst /\ WoundDown /\ LastTask /\ Joined

\* The two tasks of a shutdown are tasks of their own.
LEMMA ShutdownTasks ==
  /\ GameShutdown \in Work /\ Terminate \in Work /\ GameShutdown # Terminate
  /\ GameShutdown \in Control /\ Terminate \in Control /\ Signal \subseteq Control
  /\ GameShutdown \notin Signal /\ Terminate \notin Signal
  /\ Control \cap (Event \cup Query \cup Packet \cup Timed \cup {None}) = {}
BY WorkKinds, KindsAssumption, WorkAssumption DEF Control, Ordinary

\* Game::shutdown runs behind closed doors, and its last task is created then.
LEMMA ClosedForEnd ==
  ASSUME Inv, EndInv
  PROVE  /\ fate[Terminate] # "new" => dState # "RUNNING" /\ dpc \notin StopPc
         /\ dTask = GameShutdown => fate[GameShutdown] = "running" /\ dState # "RUNNING"
         /\ dTask = Terminate => fate[Terminate] = "running"
<1>1. fate \in [Work -> Fate]
  BY DEF Inv, TypeInv, TypeOK, SharedTypeOK
<1>2. /\ dTask = GameShutdown => fate[GameShutdown] = "running"
      /\ dTask = Terminate => fate[Terminate] = "running"
  BY ShutdownTasks DEF Inv, PlaceInv, OnePlace, HandPlace
<1>3. fate[Terminate] # "new" => fate[GameShutdown] \notin {"new", "queued"}
  BY DEF Inv, PlaceInv, ShutdownOnce
<1> QED BY <1>2, <1>3 DEF EndInv, ClosedFirst

\* The stages at which the invariant says nothing about the dispatcher.
Quiet == {"check", "lock", "wait", "task", "run", "return", "saved", "kick", "post"}

\* A step that only adds to lists that are open, and takes the dispatcher from
\* one quiet stage to another if it moves it at all, keeps the invariant.
LEMMA EndKept ==
  ASSUME Inv, EndInv,
         \A w \in {GameShutdown, Terminate} :
           \/ fate'[w] = fate[w]
           \/ {fate[w], fate'[w]} \cap {"new", "queued"} = {},
         \/ UNCHANGED <<dpc, dTask, dRet>>
         \/ dpc \in Quiet /\ dpc' \in Quiet,
         UNCHANGED <<dState, sState, bState, ioStop, mpc>>,
         dState # "RUNNING" => taskList' = taskList,
         sState # "RUNNING" => eventList' \subseteq eventList,
         bState # "RUNNING" /\ tasks = <<>> => tasks' = <<>>,
         spc = "exit" => spc' = "exit",
         bpc = "exit" => bpc' = "exit",
         dpc = "exit" => dpc' = "exit"
  PROVE  EndInv'
<1> USE DEF EndInv, Quiet, StopPc
<1>1. ClosedFirst'
  BY DEF ClosedFirst
<1>2. WoundDown'
  BY DEF WoundDown, Cleared, Flushed
<1>3. LastTask'
  BY ClosedForEnd DEF LastTask
<1>4. Joined'
  BY DEF Joined
<1> QED BY <1>1, <1>2, <1>3, <1>4

\* Initially the components are open.
LEMMA EndInit == Init => EndInv
BY ShutdownTasks DEF Init, SharedInit, DispatcherInit, SchedulerInit, DatabaseInit, EndInv,
   ClosedFirst, WoundDown, LastTask, Joined, StopPc

\* Dispatcher::addTask, of a task other than the two.
LEMMA AddTaskEnd ==
  ASSUME Inv, NEW th \in Thread, NEW w \in Work \ {GameShutdown, Terminate},
         AddTask(th, w) \/ AddTaskFront(th, w)
  PROVE  /\ \A x \in {GameShutdown, Terminate} : fate'[x] = fate[x]
         /\ dState # "RUNNING" => taskList' = taskList
BY ShutdownTasks DEF AddTask, AddTaskFront, Accept, Refuse, Inv, TypeInv, TypeOK, SharedTypeOK

\* createTask and Dispatcher::addTask.
LEMMA PostTaskEnd ==
  ASSUME Inv, EndInv, NEW th \in Thread, NEW w \in Packet \cup Signal, PostTask(th, w)
  PROVE  EndInv'
<1>1. w \in Work \ {GameShutdown, Terminate}
  BY WorkKinds, KindsAssumption DEF Control
<1>2. /\ UNCHANGED <<dpc, dTask, dRet, dState, sState, bState, ioStop, mpc, eventList, tasks,
                     spc, bpc>>
      /\ AddTask(th, w)
  BY DEF PostTask, schedulerVars, databaseVars, runtimeVars
<1> QED BY <1>1, <1>2, AddTaskEnd, EndKept

\* Scheduler::addEvent.
LEMMA AddEventEnd ==
  ASSUME Inv, EndInv, NEW th \in Thread, NEW e \in Event, NEW d \in Delays,
         AddEvent(th, e, d), UNCHANGED <<databaseVars, runtimeVars>>
  PROVE  EndInv'
<1>1. \A w \in {GameShutdown, Terminate} : fate'[w] = fate[w]
  BY ShutdownTasks DEF AddEvent, AcceptEvent, RefuseEvent, Inv, TypeInv, TypeOK, SharedTypeOK
<1>2. /\ UNCHANGED <<dpc, dTask, dRet, dState, sState, bState, ioStop, mpc, taskList, tasks,
                     spc, bpc>>
      /\ sState # "RUNNING" => eventList' = eventList
  BY DEF AddEvent, AcceptEvent, RefuseEvent, dispatcherVars, databaseVars, runtimeVars
<1> QED BY <1>1, <1>2, EndKept

\* What handlers do.
LEMMA HandlerEnd == Inv /\ EndInv /\ Handler => EndInv'
<1> SUFFICES ASSUME Inv, EndInv, Handler PROVE EndInv'
  OBVIOUS
<1>1. ASSUME NEW e \in Event, HandlerStopEvent(e) PROVE EndInv'
  <2>1. \A w \in {GameShutdown, Terminate} : fate'[w] = fate[w]
    BY <1>1, ShutdownTasks DEF HandlerStopEvent, StopEvent, Inv, TypeInv, TypeOK, SharedTypeOK
  <2>2. UNCHANGED <<dpc, dTask, dRet, dState, sState, bState, ioStop, mpc, taskList, tasks,
                    eventList, spc, bpc>>
    BY <1>1 DEF HandlerStopEvent, StopEvent, dispatcherVars, databaseVars, runtimeVars
  <2> QED BY <2>1, <2>2, EndKept
<1>2. ASSUME NEW e \in Event, NEW d \in Delays, HandlerAddEvent(e, d) PROVE EndInv'
  BY <1>2, AddEventEnd DEF HandlerAddEvent, Thread
<1>3. ASSUME NEW q \in Query, HandlerAddQuery(q) PROVE EndInv'
  <2>1. \A w \in {GameShutdown, Terminate} : fate'[w] = fate[w]
    BY <1>3, ShutdownTasks DEF HandlerAddQuery, AddQuery, Inv, TypeInv, TypeOK, SharedTypeOK
  <2>2. /\ UNCHANGED <<dpc, dTask, dRet, dState, sState, bState, ioStop, mpc, taskList,
                       eventList, spc, bpc>>
        /\ bState # "RUNNING" => tasks' = tasks
    BY <1>3 DEF HandlerAddQuery, AddQuery, dispatcherVars, schedulerVars, runtimeVars
  <2> QED BY <2>1, <2>2, EndKept
<1>4. ASSUME NEW w \in Packet, HandlerAddTask(w) PROVE EndInv'
  BY <1>4, PostTaskEnd DEF HandlerAddTask, Thread
<1>5. CASE HandlerSave
  <2>1. /\ dpc = "run" /\ dpc' = "flush" /\ dTask \notin Control
        /\ UNCHANGED <<fate, dTask, dState, sState, bState, ioStop, mpc, taskList, tasks,
                       eventList, spc, bpc>>
    BY <1>5 DEF HandlerSave, sharedVars, schedulerVars
  <2> QED
    BY <2>1, ShutdownTasks DEF EndInv, ClosedFirst, WoundDown, LastTask, Joined, StopPc, Cleared,
       Flushed
<1> QED BY <1>1, <1>2, <1>3, <1>4, <1>5 DEF Handler

\* Dispatcher::threadMain takes the tasks in the order of the list, so the last
\* one leaves it empty.
LEMMA TakeTaskEnd ==
  ASSUME Inv, EndInv, (DispLock \/ DispWake \/ DispSpuriousWake) /\ TakeTask,
         UNCHANGED <<schedulerVars, databaseVars, runtimeVars>>
  PROVE  EndInv'
<1> DEFINE w == Head(taskList)
<1>1. /\ dpc \in {"lock", "wait"} /\ dpc' = "task" /\ dTask' = w /\ taskList' = Tail(taskList)
      /\ UNCHANGED <<dRet, dState, sState, bState, ioStop, mpc, tasks, eventList, spc, bpc>>
      /\ fate' = [fate EXCEPT ![w] = "running"] /\ taskList # <<>>
  BY DEF DispLock, DispWake, DispSpuriousWake, LeaveWait, TakeTask, schedulerVars, databaseVars,
     runtimeVars
<1>2. /\ taskList \in Seq(Work) /\ Len(taskList) \in Nat /\ Len(taskList) >= 1
      /\ w = taskList[1] /\ w \in Work
      /\ Len(Tail(taskList)) = Len(taskList) - 1
      /\ \A i \in 1 .. Len(taskList) - 1 : Tail(taskList)[i] = taskList[i + 1]
      /\ Len(taskList) = 1 => Tail(taskList) = <<>>
      /\ Len(taskList) > 1 => Tail(taskList) # <<>>
  <2>1. taskList \in Seq(Work) /\ taskList # <<>>
    BY <1>1 DEF Inv, TypeInv, TypeOK, DispatcherTypeOK
  <2>2. /\ Tail(taskList) \in Seq(Work) /\ Len(Tail(taskList)) = Len(taskList) - 1
        /\ Head(taskList) \in Work /\ Head(taskList) = taskList[1]
        /\ \A i \in 1 .. Len(Tail(taskList)) : Tail(taskList)[i] = taskList[i + 1]
    BY <2>1, HeadTailProperties
  <2>3. Len(taskList) \in Nat \ {0} /\ (Len(Tail(taskList)) = 0 <=> Tail(taskList) = <<>>)
    BY <2>1, <2>2, EmptySeq, LenProperties
  <2> QED BY <2>1, <2>2, <2>3
<1>3. /\ fate[w] = "queued"
      /\ \A x \in Work : fate'[x] = IF x = w THEN "running" ELSE fate[x]
  <2>1. Listed(taskList, w)
    BY <1>2, LenProperties DEF Listed
  <2>2. fate \in [Work -> Fate]
    BY DEF Inv, TypeInv, TypeOK, SharedTypeOK
  <2> QED BY <1>1, <1>2, <2>1, <2>2 DEF Inv, PlaceInv, OnePlace, QueuePlace
<1> HIDE DEF w
<1>4. ClosedFirst' /\ WoundDown' /\ Joined'
  BY <1>1, <1>3, ShutdownTasks DEF EndInv, ClosedFirst, WoundDown, Joined, StopPc, Cleared, Flushed
<1>5. LastTask'
  <2>1. CASE fate[Terminate] = "queued"
    <3>1. taskList[Len(taskList)] = Terminate
      BY <2>1 DEF EndInv, LastTask
    <3>2. CASE Len(taskList) = 1
      <4>1. w = Terminate /\ taskList' = <<>> /\ fate'[Terminate] = "running"
        BY <1>1, <1>2, <1>3, <3>1, <3>2
      <4> QED BY <1>1, <4>1 DEF EndInv, LastTask
    <3>3. CASE Len(taskList) > 1
      <4>1. w # Terminate
        <5>1. Distinct(taskList) /\ 1 \in DOMAIN taskList /\ Len(taskList) \in DOMAIN taskList
          BY <1>2, LenProperties DEF Inv, PlaceInv, OnePlace, QueuePlace
        <5> QED BY <1>2, <3>1, <3>3, <5>1 DEF Distinct
      <4>2. /\ taskList' # <<>> /\ Len(taskList') = Len(taskList) - 1
            /\ taskList'[Len(taskList')] = Terminate
        <5>1. Len(taskList) - 1 \in 1 .. Len(taskList) - 1
          BY <1>2, <3>3
        <5>2. (Len(taskList) - 1) + 1 = Len(taskList)
          BY <1>2
        <5>3. Tail(taskList)[Len(taskList) - 1] = taskList[Len(taskList)]
          BY <1>2, <5>1, <5>2
        <5> QED BY <1>1, <1>2, <3>1, <3>3, <5>3
      <4>3. fate'[Terminate] = "queued"
        BY <1>3, <2>1, <4>1, ShutdownTasks
      <4>4. dState' # "TERMINATED" /\ dpc' # "exit"
        BY <1>1, <2>1 DEF EndInv, LastTask
      <4> QED BY <4>2, <4>3, <4>4 DEF LastTask
    <3>4. Len(taskList) = 1 \/ Len(taskList) > 1
      <4>1. Len(taskList) \in Nat /\ Len(taskList) >= 1
        BY <1>2
      <4> QED BY <4>1
    <3> QED BY <3>2, <3>3, <3>4
  <2>2. CASE fate[Terminate] # "queued"
    <3>1. fate[Terminate] = "new" /\ fate'[Terminate] = "new"
      BY <1>1, <1>3, <2>2, ShutdownTasks DEF EndInv, LastTask
    <3> QED BY <1>1, <3>1 DEF EndInv, LastTask
  <2> QED BY <2>1, <2>2
<1> QED BY <1>4, <1>5 DEF EndInv

\* A round of Dispatcher::threadMain.
LEMMA DispatcherLoopEnd ==
  ASSUME Inv, EndInv, DispatcherLoop \/ DispSpuriousWake,
         UNCHANGED <<schedulerVars, databaseVars, runtimeVars>>
  PROVE  EndInv'
<1>a. UNCHANGED <<dRet, dState, sState, bState, ioStop, mpc, tasks, eventList, spc, bpc>>
  BY DEF DispatcherLoop, DispCheck, DispLock, DispWake, DispSpuriousWake, LeaveWait, DispStart,
     DispReturn, schedulerVars, databaseVars, runtimeVars
<1>1. CASE DispCheck
  <2>1. /\ dpc = "check" /\ dpc' = IF dState = "TERMINATED" THEN "exit" ELSE "lock"
        /\ UNCHANGED <<fate, taskList, dTask>>
    BY <1>1 DEF DispCheck, sharedVars
  <2> QED
    BY <1>a, <2>1 DEF EndInv, ClosedFirst, WoundDown, LastTask, Joined, StopPc, Cleared, Flushed
<1>2. CASE (DispLock \/ DispWake \/ DispSpuriousWake) /\ TakeTask
  BY <1>2, TakeTaskEnd
<1>3. CASE (DispLock \/ DispWake \/ DispSpuriousWake) /\ ~TakeTask
  <2>1. UNCHANGED <<fate, taskList>> /\ dpc \in {"lock", "wait"} /\ dpc' \in {"wait", "check"}
    BY <1>3 DEF DispLock, DispWake, DispSpuriousWake, LeaveWait
  <2> QED BY <1>a, <2>1, EndKept DEF Quiet
<1>4. CASE DispStart \/ DispReturn
  <2>1. /\ dpc \in {"task", "return"} /\ dpc' \in {"run", "check"} /\ taskList' = taskList
        /\ \/ fate' = fate
           \/ fate' = [fate EXCEPT ![dTask] = "expired"]
           \/ fate' = [fate EXCEPT ![dTask] = "done"]
    BY <1>4 DEF DispStart, DispReturn
  <2>2. dTask \in Work /\ fate[dTask] = "running" /\ fate \in [Work -> Fate]
    BY <2>1 DEF Inv, PlaceInv, OnePlace, HandPlace, TypeInv, TypeOK, HandsOK, DispatcherTypeOK,
       SharedTypeOK
  <2>3. \A w \in {GameShutdown, Terminate} :
          \/ fate'[w] = fate[w]
          \/ {fate[w], fate'[w]} \cap {"new", "queued"} = {}
    BY <2>1, <2>2, ShutdownTasks
  <2> QED BY <1>a, <2>1, <2>3, EndKept DEF Quiet
<1> QED BY <1>1, <1>2, <1>3, <1>4 DEF DispatcherLoop

\* DatabaseTasks::runTask.
LEMMA RunTaskEnd ==
  ASSUME Inv, NEW th \in Thread, NEW q \in Query, RunTask(th, q)
  PROVE  /\ \A x \in {GameShutdown, Terminate} : fate'[x] = fate[x]
         /\ dState # "RUNNING" => taskList' = taskList
<1>1. q \in Work \ {GameShutdown, Terminate}
  BY ShutdownTasks, WorkKinds
<1>2. CASE AddTask(th, q)
  BY <1>1, <1>2, AddTaskEnd
<1>3. CASE fate' = [fate EXCEPT ![q] = "done"] /\ UNCHANGED <<taskList, owes>>
  BY <1>1, <1>3, ShutdownTasks DEF Inv, TypeInv, TypeOK, SharedTypeOK
<1> QED BY <1>2, <1>3 DEF RunTask

\* Taking a query.
LEMMA TakeQueryEnd ==
  ASSUME Inv, tasks # <<>>, tasks' = Tail(tasks),
         fate' = [fate EXCEPT ![Head(tasks)] = "running"]
  PROVE  \A x \in {GameShutdown, Terminate} : fate'[x] = fate[x]
BY TakeQueryPlace, ShutdownTasks

\* DatabaseTasks::flush ends with an empty list.
LEMMA FlushEnd ==
  ASSUME Inv, EndInv, FlushTake \/ FlushRun, UNCHANGED runtimeVars
  PROVE  EndInv'
<1> USE DEF EndInv, ClosedFirst, WoundDown, LastTask, Joined, StopPc, Cleared, Flushed
<1>a. UNCHANGED <<dRet, dState, dTask, sState, bState, ioStop, mpc, eventList, spc, bpc>>
  BY DEF FlushTake, FlushRun, schedulerVars, runtimeVars
<1>1. CASE FlushTake /\ tasks # <<>>
  <2>1. /\ dpc = "flush" /\ dpc' = "flushRun" /\ taskList' = taskList /\ tasks' = Tail(tasks)
        /\ fate' = [fate EXCEPT ![Head(tasks)] = "running"]
    BY <1>1 DEF FlushTake
  <2>2. fate'[GameShutdown] = fate[GameShutdown] /\ fate'[Terminate] = fate[Terminate]
    BY <1>1, <2>1, TakeQueryEnd
  <2> QED BY <1>a, <1>1, <2>1, <2>2
<1>2. CASE FlushTake /\ tasks = <<>>
  <2>1. dpc = "flush" /\ dpc' = dRet /\ UNCHANGED <<fate, taskList, tasks>>
    BY <1>2 DEF FlushTake
  <2>2. IF dTask = GameShutdown THEN dRet = "bNotify" ELSE dRet = "saved"
    BY <2>1 DEF Inv, PlaceInv, ShutdownOnce
  <2> QED BY <1>a, <1>2, <2>1, <2>2
<1>3. CASE FlushRun
  <2>1. /\ dpc = "flushRun" /\ dpc' = "flush" /\ tasks' = tasks
        /\ RunTask("dispatcher", dFlush) /\ dFlush \in Query
    BY <1>3 DEF FlushRun, Inv, TypeInv, TypeOK, HandsOK, DatabaseTypeOK
  <2>2. /\ fate'[GameShutdown] = fate[GameShutdown] /\ fate'[Terminate] = fate[Terminate]
        /\ dState # "RUNNING" => taskList' = taskList
    BY <2>1, RunTaskEnd DEF Thread
  <2>3. fate[Terminate] # "new" => dState # "RUNNING"
    BY ClosedForEnd
  <2> QED BY <1>a, <2>1, <2>2, <2>3
<1> QED BY <1>1, <1>2, <1>3

\* The stages of the shutdown's handlers, in their order.
LEMMA StagesEnd ==
  ASSUME Inv, EndInv,
         \/ Saved \/ HandlerReturn \/ HandleSignal \/ ShutdownSave \/ StopThreads
         \/ TerminateScheduler \/ NotifyScheduler \/ TerminateDatabase
         \/ NotifyDatabase \/ StopService \/ TerminateDispatcher
  PROVE  EndInv'
<1> USE DEF EndInv, ClosedFirst, WoundDown, LastTask, Joined, StopPc, Cleared, Flushed, Stage
<1>a. UNCHANGED <<fate, taskList, tasks, eventList, dTask, spc, bpc, mpc>>
  BY DEF Saved, HandlerReturn, HandleSignal, ShutdownSave, StopThreads, TerminateScheduler,
     NotifyScheduler, TerminateDatabase, NotifyDatabase, StopService, TerminateDispatcher,
     sharedVars, schedulerVars, databaseVars, runtimeVars
<1>1. CASE Saved \/ HandlerReturn \/ HandleSignal
  <2>1. UNCHANGED <<dState, sState, bState, ioStop, dRet>> /\ dpc \in Quiet /\ dpc' \in Quiet
    BY <1>1 DEF Saved, HandlerReturn, HandleSignal, databaseVars, runtimeVars, Quiet, schedulerVars
  <2> QED BY <1>a, <2>1, EndKept DEF Quiet
<1>2. CASE ShutdownSave
  <2>1. dTask \in Signal
    BY <1>2 DEF ShutdownSave, Inv, PlaceInv, ShutdownOnce
  <2> QED BY <1>a, <1>2, <2>1, ShutdownTasks DEF ShutdownSave
<1>3. CASE StopThreads
  <2>1. fate[Terminate] = "new"
    BY <1>3 DEF StopThreads, Inv, PlaceInv, ShutdownOnce
  <2> QED BY <1>a, <1>3, <2>1, ShutdownTasks DEF StopThreads
<1>4. CASE TerminateScheduler
  <2>1. fate[Terminate] = "new"
    BY <1>4 DEF TerminateScheduler, Inv, PlaceInv, ShutdownOnce
  <2> QED BY <1>a, <1>4, <2>1 DEF TerminateScheduler
<1>5. CASE NotifyScheduler \/ TerminateDatabase \/ NotifyDatabase \/ StopService
  <2>1. dTask = GameShutdown
    BY <1>5 DEF NotifyScheduler, TerminateDatabase, NotifyDatabase, StopService, Inv, PlaceInv,
       ShutdownOnce
  <2>2. dpc # "stopService" => fate[Terminate] = "new"
    BY <1>5, <2>1 DEF NotifyScheduler, TerminateDatabase, NotifyDatabase, StopService, Inv,
       PlaceInv, ShutdownOnce
  <2> QED
    BY <1>a, <1>5, <2>1, <2>2 DEF NotifyScheduler, TerminateDatabase, NotifyDatabase, StopService
<1>6. CASE TerminateDispatcher
  <2>1. fate[Terminate] = "running" /\ dState # "RUNNING"
    BY <1>6, ClosedForEnd DEF TerminateDispatcher
  <2> QED BY <1>a, <1>6, <2>1 DEF TerminateDispatcher
<1> QED BY <1>1, <1>2, <1>3, <1>4, <1>5, <1>6

\* The stages that post the shutdown's tasks and clear the queue of events.
LEMMA ListsEnd ==
  ASSUME Inv, EndInv, PostShutdown \/ PostTerminate \/ ClearScheduler
  PROVE  EndInv'
<1> USE DEF EndInv, ClosedFirst, WoundDown, LastTask, Joined, StopPc, Cleared, Flushed, Stage
<1>a. fate \in [Work -> Fate] /\ taskList \in Seq(Work)
  BY DEF Inv, TypeInv, TypeOK, SharedTypeOK, DispatcherTypeOK
<1>1. CASE PostShutdown
  <2>1. /\ dpc = "post" /\ dpc' = "stopScheduler" /\ AddTask("dispatcher", GameShutdown)
        /\ UNCHANGED <<dTask, tasks, eventList, spc, bpc, mpc, dState, sState, bState, ioStop>>
    BY <1>1 DEF PostShutdown
  <2>2. fate[GameShutdown] = "new" /\ fate[Terminate] = "new" /\ dTask \in Signal
    BY <2>1 DEF Inv, PlaceInv, ShutdownOnce
  <2>3. dState = "RUNNING"
    BY <2>2
  <2>4. fate'[GameShutdown] = "queued" /\ fate'[Terminate] = "new"
    BY <1>a, <2>1, <2>2, <2>3, ShutdownTasks DEF AddTask, Accept, Refuse
  <2> QED BY <2>1, <2>2, <2>3, <2>4
<1>2. CASE PostTerminate
  <2>1. /\ dpc = "terminate" /\ dpc' = "stopService" /\ taskList' = Append(taskList, Terminate)
        /\ fate' = [fate EXCEPT ![Terminate] = "queued"]
        /\ UNCHANGED <<dTask, tasks, eventList, spc, bpc, mpc, dState, sState, bState, ioStop>>
    BY <1>2 DEF PostTerminate
  <2>2. fate'[Terminate] = "queued" /\ fate'[GameShutdown] = fate[GameShutdown]
    BY <1>a, <2>1, ShutdownTasks
  <2>3. taskList' # <<>> /\ taskList'[Len(taskList')] = Terminate
    BY <1>a, <2>1, ShutdownTasks
  <2>4. dTask = GameShutdown /\ fate[Terminate] = "new"
    BY <2>1 DEF Inv, PlaceInv, ShutdownOnce
  <2> QED BY <2>1, <2>2, <2>3, <2>4
<1>3. CASE ClearScheduler
  <2>1. /\ dpc = "sClear" /\ dpc' = "sNotify" /\ eventList' = {}
        /\ UNCHANGED <<dTask, taskList, tasks, spc, bpc, mpc, dState, sState, bState, ioStop>>
    BY <1>3 DEF ClearScheduler, ClearEvents
  <2>2. fate'[GameShutdown] = fate[GameShutdown] /\ fate'[Terminate] = fate[Terminate]
    BY <1>3, ShutdownTasks DEF ClearScheduler, ClearEvents, Fates, Inv, TypeInv, TypeOK,
       SchedulerTypeOK
  <2>3. dTask = GameShutdown /\ fate[Terminate] = "new"
    BY <2>1 DEF Inv, PlaceInv, ShutdownOnce
  <2> QED BY <2>1, <2>2, <2>3
<1> QED BY <1>1, <1>2, <1>3

\* Every step of the dispatcher keeps the invariant.
LEMMA DispatcherEnd == Inv /\ EndInv /\ DispatcherStep => EndInv'
BY DispatcherLoopEnd, FlushEnd, StagesEnd, ListsEnd DEF DispatcherStep

\* Scheduler::threadMain adds nothing to its queue and to a closed dispatcher.
LEMMA SchedulerEnd ==
  ASSUME Inv, EndInv, SchedulerLoop \/ SchedSpuriousWake, UNCHANGED <<databaseVars, runtimeVars>>
  PROVE  EndInv'
<1>1. /\ UNCHANGED <<dpc, dTask, dRet, dState, sState, bState, ioStop, mpc, tasks, bpc>>
      /\ eventList' \subseteq eventList /\ spc # "exit"
  BY DEF SchedulerLoop, SchedSpuriousWake, SchedCheck, SchedLock, SchedWake, SchedLeaveWait,
     SchedTimeout, SchedHandoff, dispatcherVars, databaseVars, runtimeVars
<1>2. CASE SchedHandoff
  <2>1. sTask \in Work \ {GameShutdown, Terminate} /\ AddTaskFront("scheduler", sTask)
    BY <1>2, WorkKinds, ShutdownTasks DEF SchedHandoff, Inv, TypeInv, TypeOK, HandsOK,
       SchedulerTypeOK
  <2> QED BY <1>1, <2>1, AddTaskEnd, EndKept DEF Thread
<1>3. CASE SchedTimeout
  <2>1. /\ taskList' = taskList
        /\ \/ fate' = fate
           \/ \E top \in Tops : fate' = [fate EXCEPT ![top] = "inflight"]
    BY <1>3 DEF SchedTimeout, dispatcherVars
  <2>2. Tops \subseteq Event
    BY DEF Tops, Inv, TypeInv, TypeOK, SchedulerTypeOK
  <2>3. \A x \in {GameShutdown, Terminate} : fate'[x] = fate[x]
    BY <2>1, <2>2, ShutdownTasks DEF Inv, TypeInv, TypeOK, SharedTypeOK
  <2> QED BY <1>1, <2>1, <2>3, EndKept
<1>4. CASE SchedCheck \/ SchedLock \/ SchedWake \/ SchedSpuriousWake
  <2>1. UNCHANGED <<fate, taskList>>
    BY <1>4 DEF SchedCheck, SchedLock, SchedWake, SchedSpuriousWake, SchedLeaveWait, sharedVars,
       dispatcherVars
  <2> QED BY <1>1, <2>1, EndKept
<1> QED BY <1>2, <1>3, <1>4 DEF SchedulerLoop

\* DatabaseTasks::threadMain empties its list.
LEMMA DatabaseEnd ==
  ASSUME Inv, EndInv, DatabaseLoop \/ DbSpuriousWake, UNCHANGED runtimeVars
  PROVE  EndInv'
<1>1. /\ UNCHANGED <<dpc, dTask, dRet, dState, sState, bState, ioStop, mpc, eventList, spc>>
      /\ bpc # "exit"
      /\ tasks = <<>> => tasks' = <<>>
  BY DEF DatabaseLoop, DbSpuriousWake, DbCheck, DbLock, DbWake, DbLeaveWait, DbRunTask, TakeQuery,
     dispatcherVars, schedulerVars, runtimeVars
<1>2. CASE DbRunTask
  <2>1. bTask \in Query /\ RunTask("database", bTask)
    BY <1>2 DEF DbRunTask, Inv, TypeInv, TypeOK, HandsOK, DatabaseTypeOK
  <2> QED BY <1>1, <2>1, RunTaskEnd, EndKept DEF Thread
<1>3. CASE TakeQuery /\ UNCHANGED taskList
  BY <1>1, <1>3, TakeQueryEnd, EndKept DEF TakeQuery
<1>4. CASE UNCHANGED <<fate, taskList>>
  BY <1>1, <1>4, EndKept
<1> QED
  BY <1>2, <1>3, <1>4 DEF DatabaseLoop, DbSpuriousWake, DbCheck, DbLock, DbWake, DbLeaveWait,
     sharedVars, dispatcherVars

\* The main thread, notifications and the clock.
LEMMA RestEnd ==
  ASSUME Inv, EndInv, (\E th \in Thread : Notify(th)) \/ Io \/ MainEnd \/ Tick \/ UNCHANGED vars
  PROVE  EndInv'
<1>1. CASE Io
  BY <1>1, PostTaskEnd, AddEventEnd DEF Io, IoAddTask, IoAddEvent, Thread
<1>2. CASE (\E th \in Thread : Notify(th)) \/ Tick \/ UNCHANGED vars
  <2>1. UNCHANGED <<fate, taskList, tasks, eventList, dpc, dTask, dRet, dState, sState, bState,
                    ioStop, mpc, spc, bpc>>
    BY <1>2 DEF Notify, Tick, vars, sharedVars, dispatcherVars, schedulerVars, databaseVars,
       runtimeVars
  <2> QED BY <2>1, EndKept
<1>3. CASE MainEnd
  <2>1. UNCHANGED <<fate, taskList, tasks, eventList, dpc, dTask, dRet, dState, sState, bState,
                    ioStop, spc, bpc>>
    BY <1>3 DEF MainEnd, ServiceDie, JoinScheduler, JoinDatabase, JoinDispatcher, MainStep,
       sharedVars, dispatcherVars, schedulerVars, databaseVars
  <2>2. Joined'
    BY <1>3, <2>1 DEF MainEnd, ServiceDie, JoinScheduler, JoinDatabase, JoinDispatcher, MainStep,
       EndInv, Joined
  <2>3. ClosedFirst' /\ WoundDown' /\ LastTask'
    BY <2>1 DEF EndInv, ClosedFirst, WoundDown, LastTask, Cleared, Flushed
  <2> QED BY <2>2, <2>3 DEF EndInv
<1> QED BY <1>1, <1>2, <1>3

\* Every step of the runtime keeps the invariant.
LEMMA EndNext == Inv /\ EndInv /\ [Next]_vars => EndInv'
BY HandlerEnd, DispatcherEnd, DispatcherLoopEnd, SchedulerEnd, DatabaseEnd, RestEnd
DEF Next, SchedulerStep, DatabaseStep, SpuriousWake, Ended

\* What has been wound down is what the dispatcher and main may leave behind.
LEMMA EndImplied == Inv /\ EndInv /\ PendingKinds => ShutdownComplete
<1> SUFFICES ASSUME Inv, EndInv, PendingKinds PROVE ShutdownComplete
  OBVIOUS
<1>1. ASSUME dpc = "exit"
      PROVE  /\ taskList = <<>> /\ tasks = <<>> /\ eventList = {}
             /\ sState = "TERMINATED" /\ bState = "TERMINATED" /\ ioStop
  BY <1>1 DEF EndInv, LastTask, WoundDown, Cleared, Flushed
<1>2. ASSUME mpc = "end", NEW w \in Work PROVE fate[w] \in {"new"} \cup Final
  <2>1. dpc = "exit" /\ spc = "exit" /\ bpc = "exit"
    BY <1>2 DEF EndInv, Joined
  <2>2. dTask = None /\ bTask = None /\ dFlush = None /\ sTask = None /\ w # None
    BY <2>1, WorkKinds DEF Inv, TypeInv, HandsOK
  <2>3. taskList = <<>> /\ tasks = <<>> /\ eventList = {}
    BY <1>1, <2>1
  <2>4. fate[w] \notin {"queued", "running", "inflight"}
    BY <2>2, <2>3 DEF Inv, PlaceInv, OnePlace, QueuePlace, HandPlace, Listed
  <2>5. fate[w] # "pending"
    <3>1. CASE w \in Event
      BY <2>3, <3>1 DEF Inv, PlaceInv, OnePlace, EventPlace, Live
    <3>2. CASE w \in Query
      BY <2>3, <3>2 DEF Inv, PlaceInv, OnePlace, QueryPlace, Listed
    <3> QED BY <3>1, <3>2 DEF PendingKinds
  <2>6. fate[w] \in Fate
    BY DEF Inv, TypeInv, TypeOK, SharedTypeOK
  <2> QED BY <2>4, <2>5, <2>6 DEF Final, Fate
<1> QED BY <1>1, <1>2 DEF ShutdownComplete

\* The dispatcher leaves its loop last, with nothing waiting anywhere, and when
\* main returns every item that was ever created has met its end.
THEOREM NothingIsLeftBehind == Spec => []ShutdownComplete
<1>1. Inv /\ EndInv /\ [Next]_vars => EndInv'
  BY EndNext
<1>2. Spec => [](Inv /\ EndInv)
  BY <1>1, EndInit, Invariant, PTL DEF Spec
<1> QED BY <1>2, EndImplied, OnlyListedKinds, PTL
-----------------------------------------------------------------------------
(* The dispatcher's list changes in four ways.                              *)

\* Scheduler events go to the front, everything else to the back.
ListStep ==
  \/ taskList' = taskList
  \/ taskList # <<>> /\ taskList' = Tail(taskList)
  \/ \E w \in Work : ~Listed(taskList, w) /\ taskList' = Append(taskList, w)
  \/ \E e \in Event : taskList' = <<e>> \o taskList

\* Dispatcher::addTask pushes an item that is not in the list.
LEMMA AddTaskList ==
  ASSUME Inv, NEW th \in Thread, NEW w \in Work, AddTask(th, w), fate[w] # "queued"
  PROVE  ListStep
BY DEF AddTask, Accept, Refuse, ListStep, Inv, PlaceInv, OnePlace, QueuePlace

\* DatabaseTasks::runTask pushes a query that is not in the list.
LEMMA RunTaskList ==
  ASSUME Inv, NEW th \in Thread, NEW q \in {bTask, dFlush}, q # None, RunTask(th, q)
  PROVE  ListStep
<1>1. q \in Work
  BY WorkKinds DEF Inv, TypeInv, TypeOK, DatabaseTypeOK
<1>2. fate[q] = "running"
  BY <1>1 DEF Inv, PlaceInv, OnePlace, HandPlace
<1> QED BY <1>1, <1>2, AddTaskList DEF RunTask, ListStep

\* The dispatcher's own steps.
LEMMA DispatcherList ==
  ASSUME Inv, DispatcherStep \/ DispSpuriousWake
  PROVE  ListStep
<1>1. CASE DispatcherLoop \/ DispSpuriousWake
  BY <1>1 DEF DispatcherLoop, DispSpuriousWake, DispCheck, DispLock, DispWake, LeaveWait, TakeTask,
     DispStart, DispReturn, ListStep
<1>2. CASE FlushRun
  BY <1>2, RunTaskList DEF FlushRun, Inv, TypeInv, HandsOK, Thread
<1>3. CASE PostShutdown
  <2>1. fate[GameShutdown] = "new" /\ GameShutdown \in Work
    BY <1>3, WorkKinds DEF PostShutdown, Stage, Inv, PlaceInv, ShutdownOnce
  <2> QED BY <1>3, <2>1, AddTaskList DEF PostShutdown, Thread
<1>4. CASE PostTerminate
  <2>1. fate[Terminate] = "new" /\ Terminate \in Work
    BY <1>4, WorkKinds DEF PostTerminate, Stage, Inv, PlaceInv, ShutdownOnce
  <2> QED BY <1>4, <2>1 DEF PostTerminate, ListStep, Inv, PlaceInv, OnePlace, QueuePlace
<1>5. CASE \/ FlushTake \/ Saved \/ HandlerReturn \/ HandleSignal \/ ShutdownSave \/ StopThreads
           \/ TerminateScheduler \/ ClearScheduler \/ NotifyScheduler \/ TerminateDatabase
           \/ NotifyDatabase \/ StopService \/ TerminateDispatcher
  BY <1>5 DEF FlushTake, Saved, HandlerReturn, HandleSignal, ShutdownSave, StopThreads,
     TerminateScheduler, ClearScheduler, NotifyScheduler, TerminateDatabase, NotifyDatabase,
     StopService, TerminateDispatcher, ListStep
<1> QED BY <1>1, <1>2, <1>3, <1>4, <1>5 DEF DispatcherStep

\* The handlers and the io thread post new items.
LEMMA OutsideList ==
  ASSUME Inv, Handler \/ Io
  PROVE  ListStep
<1>1. ASSUME NEW th \in Thread, NEW w \in Packet \cup Signal, PostTask(th, w) PROVE ListStep
  <2>1. w \in Work
    BY WorkKinds
  <2> QED BY <1>1, <2>1, AddTaskList DEF PostTask
<1>2. ASSUME NEW th \in Thread, NEW e \in Event, NEW d \in Delays, AddEvent(th, e, d)
      PROVE  ListStep
  BY <1>2 DEF AddEvent, dispatcherVars, ListStep
<1>3. CASE Io
  BY <1>1, <1>2, <1>3 DEF Io, IoAddTask, IoAddEvent, Thread
<1>4. CASE Handler
  BY <1>1, <1>2, <1>4 DEF Handler, HandlerStopEvent, StopEvent, HandlerAddEvent, HandlerAddQuery,
     AddQuery, HandlerAddTask, HandlerSave, dispatcherVars, ListStep, Thread
<1> QED BY <1>3, <1>4

\* The other threads: the scheduler pushes events on the front.
LEMMA ThreadsList ==
  ASSUME Inv,
         \/ SchedulerLoop \/ SchedSpuriousWake \/ DatabaseLoop \/ DbSpuriousWake
         \/ (\E th \in Thread : Notify(th)) \/ MainEnd \/ Tick \/ UNCHANGED vars
  PROVE  ListStep
<1>1. CASE SchedulerLoop \/ SchedSpuriousWake
  <2>1. CASE SchedHandoff
    <3>1. sTask \in Event
      BY <2>1 DEF SchedHandoff, Inv, TypeInv, TypeOK, HandsOK, SchedulerTypeOK
    <3> QED BY <2>1, <3>1 DEF SchedHandoff, AddTaskFront, Accept, Refuse, ListStep
  <2> QED
    BY <1>1, <2>1 DEF SchedulerLoop, SchedSpuriousWake, SchedCheck, SchedLock, SchedWake,
       SchedLeaveWait, SchedTimeout, dispatcherVars, ListStep
<1>2. CASE DatabaseLoop \/ DbSpuriousWake
  <2>1. CASE DbRunTask
    BY <2>1, RunTaskList DEF DbRunTask, Inv, TypeInv, HandsOK, Thread
  <2> QED
    BY <1>2, <2>1 DEF DatabaseLoop, DbSpuriousWake, DbCheck, DbLock, DbWake, DbLeaveWait,
       dispatcherVars, ListStep
<1>3. CASE (\E th \in Thread : Notify(th)) \/ MainEnd \/ Tick \/ UNCHANGED vars
  BY <1>3 DEF Notify, MainEnd, ServiceDie, JoinScheduler, JoinDatabase, JoinDispatcher, MainStep,
     Tick, vars, dispatcherVars, ListStep
<1> QED BY <1>1, <1>2, <1>3

\* Every step of the runtime is one of these.
LEMMA NextList == Inv /\ [Next]_vars => ListStep
BY DispatcherList, OutsideList, ThreadsList
DEF Next, DispatcherStep, SchedulerStep, DatabaseStep, SpuriousWake, Ended

\* None of them takes an ordinary task past one that waits.
LEMMA ListStepOrder ==
  ASSUME Inv, ListStep, NEW a \in Ordinary, NEW b \in Ordinary,
         Listed(taskList, a), Listed(taskList', a), Before(taskList', b, a)
  PROVE  Before(taskList, b, a)
<1>1. taskList \in Seq(Work) /\ DOMAIN taskList = 1 .. Len(taskList) /\ Len(taskList) \in Nat
  BY LenProperties DEF Inv, TypeInv, TypeOK, DispatcherTypeOK
<1>2. PICK i \in DOMAIN taskList', j \in DOMAIN taskList' :
        taskList'[i] = b /\ taskList'[j] = a /\ i < j
  BY DEF Before
<1>3. CASE taskList' = taskList
  BY <1>2, <1>3 DEF Before
<1>4. CASE taskList # <<>> /\ taskList' = Tail(taskList)
  <2>1. /\ DOMAIN taskList' = 1 .. Len(taskList) - 1
        /\ \A k \in 1 .. Len(taskList) - 1 : taskList'[k] = taskList[k + 1]
    <3>1. /\ Tail(taskList) \in Seq(Work) /\ Len(Tail(taskList)) = Len(taskList) - 1
          /\ \A k \in 1 .. Len(Tail(taskList)) : Tail(taskList)[k] = taskList[k + 1]
      BY <1>1, <1>4, HeadTailProperties
    <3> QED BY <1>4, <3>1, LenProperties
  <2>2. /\ i \in 1 .. Len(taskList) - 1 /\ j \in 1 .. Len(taskList) - 1
        /\ taskList[i + 1] = b /\ taskList[j + 1] = a /\ i < j
    BY <1>2, <2>1
  <2>3. i + 1 \in DOMAIN taskList /\ j + 1 \in DOMAIN taskList /\ i + 1 < j + 1
    BY <1>1, <2>2
  <2> QED BY <2>2, <2>3 DEF Before
<1>5. ASSUME NEW w \in Work, ~Listed(taskList, w), taskList' = Append(taskList, w)
      PROVE  Before(taskList, b, a)
  <2>1. /\ DOMAIN taskList' = 1 .. Len(taskList) + 1
        /\ \A k \in 1 .. Len(taskList) : taskList'[k] = taskList[k]
        /\ taskList'[Len(taskList) + 1] = w
    BY <1>1, <1>5
  <2>2. a # w
    BY <1>5
  <2>3. i \in 1 .. Len(taskList) + 1 /\ j \in 1 .. Len(taskList) + 1 /\ j # Len(taskList) + 1
    BY <1>2, <2>1, <2>2
  <2>4. i \in DOMAIN taskList /\ j \in DOMAIN taskList
    BY <1>1, <1>2, <2>3
  <2>5. taskList[i] = b /\ taskList[j] = a
    BY <1>1, <1>2, <2>1, <2>4
  <2> QED BY <1>2, <2>4, <2>5 DEF Before
<1>6. ASSUME NEW e \in Event, taskList' = <<e>> \o taskList
      PROVE  Before(taskList, b, a)
  <2>1. /\ DOMAIN taskList' = 1 .. Len(taskList) + 1
        /\ taskList'[1] = e
        /\ \A k \in 2 .. Len(taskList) + 1 : taskList'[k] = taskList[k - 1]
    <3>1. <<e>> \in Seq(Work) /\ Len(<<e>>) = 1 /\ <<e>>[1] = e
      BY WorkKinds
    <3>2. /\ taskList' \in Seq(Work) /\ Len(taskList') = 1 + Len(taskList)
          /\ \A k \in 1 .. 1 + Len(taskList) :
               taskList'[k] = IF k <= 1 THEN <<e>>[k] ELSE taskList[k - 1]
      BY <1>1, <1>6, <3>1, ConcatProperties
    <3>3. DOMAIN taskList' = 1 .. 1 + Len(taskList)
      BY <3>2, LenProperties
    <3>4. 1 \in 1 .. 1 + Len(taskList) /\ 1 .. 1 + Len(taskList) = 1 .. Len(taskList) + 1
      BY <1>1
    <3> QED BY <1>1, <3>1, <3>2, <3>3, <3>4
  <2>2. a # e /\ b # e
    BY KindsAssumption
  <2>3. i \in 2 .. Len(taskList) + 1 /\ j \in 2 .. Len(taskList) + 1
    BY <1>1, <1>2, <2>1, <2>2
  <2>4. /\ i - 1 \in DOMAIN taskList /\ j - 1 \in DOMAIN taskList /\ i - 1 < j - 1
        /\ taskList[i - 1] = b /\ taskList[j - 1] = a
    BY <1>1, <1>2, <2>1, <2>3
  <2> QED BY <2>4 DEF Before
<1> QED BY <1>3, <1>4, <1>5, <1>6 DEF ListStep

\* Ordinary tasks are run in the order in which they were added: the events of
\* the scheduler alone are pushed on the front.
THEOREM TasksKeepTheirOrder == Spec => FirstComeFirstServed
<1>1. Inv /\ [Next]_vars =>
        [taskList' # taskList => \A a \in Ordinary, b \in Ordinary :
           /\ Listed(taskList, a) /\ Listed(taskList', a)
           /\ Listed(taskList', b) /\ ~Before(taskList, b, a)
           => ~Before(taskList', b, a)]_vars
  BY NextList, ListStepOrder
<1> QED BY <1>1, Invariant, PTL DEF Spec, FirstComeFirstServed
-----------------------------------------------------------------------------
(* The runtime implements TimerContract: every step is a step of the        *)
(* contract on timers, or leaves them alone.                                *)

\* What the scheduler's promise rests on: it is closed before the dispatcher is,
\* and while it sleeps until a deadline an event that was due then is in the
\* queue, unless the queue was cleared for good.
ClosedBefore ==
  /\ dState # "RUNNING" => sState # "RUNNING"
  /\ dpc \in {"stopDatabase", "stopDispatcher"} => sState # "RUNNING"

DeadlineOK ==
  spc = "timedwait" => \/ \E e \in eventList : due[e] <= sDeadline
                       \/ eventList = {} /\ sState # "RUNNING"

SleepInv == ClosedBefore /\ DeadlineOK

\* A step that keeps the events the scheduler sleeps for, or ends its sleep.
LEMMA SleepKept ==
  ASSUME SleepInv,
         sState = "RUNNING" \/ sState' # "RUNNING",
         sState' = "RUNNING" => UNCHANGED dState,
         \/ dpc' = dpc
         \/ dpc' \notin {"stopDatabase", "stopDispatcher"}
         \/ sState' # "RUNNING",
         \/ spc' # "timedwait"
         \/ /\ UNCHANGED <<spc, sDeadline>>
            /\ \A e \in eventList : e \in eventList' /\ due'[e] = due[e]
            /\ sState # "RUNNING" => eventList' = eventList
         \/ eventList' = {} /\ sState' # "RUNNING"
  PROVE  SleepInv'
BY DEF SleepInv, ClosedBefore, DeadlineOK

\* createTask and Dispatcher::addTask leave the events alone.
LEMMA PostTaskSleep ==
  ASSUME Inv, SleepInv, NEW th \in Thread, NEW w \in Packet \cup Signal, PostTask(th, w)
  PROVE  SleepInv'
<1>1. \A e \in eventList : due'[e] = due[e]
  BY KindsAssumption, WorkKinds DEF PostTask, Inv, TypeInv, TypeOK, SchedulerTypeOK, SharedTypeOK,
     Ordinary, Control
<1>2. UNCHANGED <<dState, dpc, schedulerVars>>
  BY DEF PostTask
<1> QED BY <1>1, <1>2, SleepKept DEF schedulerVars

\* A new event is not in the queue yet.
LEMMA AddEventSleep ==
  ASSUME Inv, SleepInv, NEW th \in Thread, NEW e \in Event, NEW d \in Delays, fate[e] = "new",
         AddEvent(th, e, d)
  PROVE  SleepInv'
<1>1. e \notin eventList /\ e \in Work /\ eventList \subseteq Event /\ Event \subseteq Work
  BY WorkKinds DEF Inv, PlaceInv, IdsOK, TypeInv, TypeOK, SchedulerTypeOK
<1>2. /\ \A f \in eventList : f \in eventList' /\ due'[f] = due[f]
      /\ sState # "RUNNING" => eventList' = eventList
  BY <1>1 DEF AddEvent, AcceptEvent, RefuseEvent, Inv, TypeInv, TypeOK, SharedTypeOK
<1> QED BY <1>2, SleepKept DEF AddEvent, dispatcherVars

\* Every step of the runtime keeps the scheduler's sleep justified.
LEMMA SleepNext == Inv /\ EndInv /\ SleepInv /\ [Next]_vars => SleepInv'
<1> SUFFICES ASSUME Inv, EndInv, SleepInv, [Next]_vars PROVE SleepInv'
  OBVIOUS
<1>1. CASE Handler
  <2>1. ASSUME NEW e \in Event, HandlerStopEvent(e) PROVE SleepInv'
    BY <2>1, SleepKept DEF HandlerStopEvent, StopEvent, dispatcherVars
  <2>2. ASSUME NEW q \in Query, HandlerAddQuery(q) PROVE SleepInv'
    BY <2>2, SleepKept DEF HandlerAddQuery, AddQuery, dispatcherVars, schedulerVars
  <2>3. CASE HandlerSave
    BY <2>3, SleepKept DEF HandlerSave, sharedVars, schedulerVars
  <2> QED
    BY <1>1, <2>1, <2>2, <2>3, PostTaskSleep, AddEventSleep
    DEF Handler, HandlerAddEvent, HandlerAddTask, Thread
<1>2. CASE DispatcherStep
  <2>1. CASE DispatcherLoop /\ UNCHANGED <<schedulerVars, databaseVars, runtimeVars>>
    BY <2>1, SleepKept DEF DispatcherLoop, DispCheck, DispLock, DispWake, LeaveWait, TakeTask,
       DispStart, DispReturn, sharedVars, schedulerVars
  <2>2. CASE FlushTake \/ FlushRun
    <3>1. dRet \in {"return", "saved", "bNotify"}
      BY DEF Inv, TypeInv, TypeOK, DatabaseTypeOK
    <3> QED BY <2>2, <3>1, SleepKept DEF FlushTake, FlushRun, schedulerVars
  <2>3. CASE StopThreads
    BY <2>3 DEF StopThreads, Stage, SleepInv, ClosedBefore, DeadlineOK
  <2>4. CASE TerminateScheduler
    BY <2>4 DEF TerminateScheduler, Stage, SleepInv, ClosedBefore, DeadlineOK
  <2>5. CASE ClearScheduler
    <3>1. sState = "TERMINATED"
      BY <2>5 DEF ClearScheduler, Stage, EndInv, WoundDown
    <3> QED BY <2>5, <3>1, SleepKept DEF ClearScheduler, ClearEvents, Stage
  <2>6. CASE TerminateDispatcher
    <3>1. dState # "RUNNING"
      BY <2>6, ClosedForEnd DEF TerminateDispatcher
    <3>2. sState # "RUNNING"
      BY <3>1 DEF SleepInv, ClosedBefore
    <3> QED BY <2>6, <3>2, SleepKept DEF TerminateDispatcher, Stage
  <2>7. CASE \/ Saved \/ HandlerReturn \/ HandleSignal \/ ShutdownSave \/ PostShutdown
             \/ NotifyScheduler \/ TerminateDatabase \/ NotifyDatabase \/ PostTerminate
             \/ StopService
    BY <2>7, SleepKept DEF Saved, HandlerReturn, HandleSignal, ShutdownSave, PostShutdown,
       NotifyScheduler, TerminateDatabase, NotifyDatabase, PostTerminate, StopService, Stage,
       sharedVars, schedulerVars
  <2> QED BY <1>2, <2>1, <2>2, <2>3, <2>4, <2>5, <2>6, <2>7 DEF DispatcherStep
<1>3. CASE SchedulerStep \/ SchedSpuriousWake
  <2>1. CASE SchedLock
    <3>1. UNCHANGED <<sState, dState, dpc, eventList, due>>
      BY <2>1 DEF SchedLock, sharedVars, dispatcherVars
    <3>2. DeadlineOK'
      <4>1. ASSUME NEW top \in Tops, sDeadline' = due[top] PROVE DeadlineOK'
        <5>1. top \in eventList' /\ due'[top] = sDeadline' /\ due'[top] \in Nat
          BY <3>1, <4>1, WorkKinds DEF Tops, Inv, TypeInv, TypeOK, SchedulerTypeOK, SharedTypeOK
        <5> QED BY <5>1 DEF DeadlineOK
      <4> QED BY <2>1, <4>1 DEF SchedLock, DeadlineOK
    <3> QED BY <3>1, <3>2 DEF SleepInv, ClosedBefore
  <2>2. CASE SchedCheck \/ SchedWake \/ SchedSpuriousWake \/ SchedTimeout \/ SchedHandoff
    BY <2>2, SleepKept DEF SchedCheck, SchedWake, SchedSpuriousWake, SchedLeaveWait, SchedTimeout,
       SchedHandoff, dispatcherVars
  <2> QED BY <1>3, <2>1, <2>2 DEF SchedulerStep, SchedulerLoop
<1>4. CASE \/ DatabaseStep \/ DbSpuriousWake
           \/ DispSpuriousWake /\ UNCHANGED schedulerVars
  BY <1>4, SleepKept DEF DatabaseStep, DatabaseLoop, DbCheck, DbLock, DbWake, DbSpuriousWake,
     DbLeaveWait, DbRunTask, DispSpuriousWake, LeaveWait, TakeTask, dispatcherVars,
     schedulerVars, sharedVars
<1>5. CASE Io
  BY <1>5, PostTaskSleep, AddEventSleep DEF Io, IoAddTask, IoAddEvent, Thread
<1>6. CASE (\E th \in Thread : Notify(th)) \/ MainEnd \/ Tick \/ UNCHANGED vars
  <2>1. UNCHANGED <<due, sState, dState, dpc, spc, sDeadline, eventList>>
    BY <1>6 DEF Notify, MainEnd, ServiceDie, JoinScheduler, JoinDatabase, JoinDispatcher, MainStep,
       Tick, vars, sharedVars, dispatcherVars, schedulerVars
  <2> QED BY <2>1, SleepKept
<1>7. CASE SpuriousWake
  BY <1>3, <1>4, <1>7 DEF SpuriousWake
<1> QED BY <1>1, <1>2, <1>3, <1>4, <1>5, <1>6, <1>7 DEF Next, Ended
\* Initially nobody sleeps.
LEMMA SleepInit == Init => SleepInv
BY DEF Init, DispatcherInit, SchedulerInit, SleepInv, ClosedBefore, DeadlineOK

\* The status of a timer whose history is f.
StatusAt(f) ==
  CASE f = "pending" -> "armed"
    [] f \in {"inflight", "queued"} -> "fired"
    [] f \in {"running", "done"} -> "ran"
    [] OTHER -> f

\* The status of a timer is a function of its history alone.
LEMMA StatusIs ==
  /\ \A e \in Event : Status(e) = StatusAt(fate[e]) /\ Status(e)' = StatusAt(fate'[e])
  /\ StatusAt("pending") = "armed" /\ StatusAt("new") = "new"
  /\ \A f \in {"inflight", "queued"} : StatusAt(f) = "fired"
  /\ \A f \in {"running", "done"} : StatusAt(f) = "ran"
  /\ \A f \in {"cancelled", "expired", "dropped", "unheard"} : StatusAt(f) = f
  /\ \A f : StatusAt(f) = "armed" /\ f # "armed" => f = "pending"
BY DEF Status, StatusAt

\* A step of the runtime that changes no timer is none of the contract.
LEMMA StutterStep ==
  ASSUME now' = now, \A e \in Event : due'[e] = due[e],
         \A e \in Event : StatusAt(fate'[e]) = StatusAt(fate[e]),
         (sState' = "RUNNING") <=> (sState = "RUNNING")
  PROVE  UNCHANGED Contract!contractVars
BY StatusIs DEF Contract!contractVars

\* A timer is stopped before it has fired.
LEMMA CancelStep ==
  ASSUME now' = now, sState' = sState, \A e \in Event : due'[e] = due[e],
         NEW t \in Event, fate[t] = "pending", fate'[t] = "cancelled",
         \A e \in Event : e # t => fate'[e] = fate[e]
  PROVE  Contract!Next
<1>1. Status(t) = "armed" /\ Status(t)' = "cancelled"
  BY StatusIs
<1>2. \A e \in Event : e # t => Status(e)' = Status(e)
  BY StatusIs
<1>3. [e \in Event |-> Status(e)]' = [[e \in Event |-> Status(e)] EXCEPT ![t] = "cancelled"]
  BY <1>1, <1>2
<1>4. Contract!Cancel(t)
  BY <1>1, <1>3 DEF Contract!Cancel, Contract!Become
<1> QED BY <1>4 DEF Contract!Next

\* A timer that has fired runs.
LEMMA RunStep ==
  ASSUME now' = now, sState' = sState, \A e \in Event : due'[e] = due[e],
         NEW t \in Event, fate[t] = "queued", fate'[t] = "running",
         \A e \in Event : e # t => fate'[e] = fate[e]
  PROVE  Contract!Next
<1>1. Status(t) = "fired" /\ Status(t)' = "ran"
  BY StatusIs
<1>2. \A e \in Event : e # t => Status(e)' = Status(e)
  BY StatusIs
<1>3. [e \in Event |-> Status(e)]' = [[e \in Event |-> Status(e)] EXCEPT ![t] = "ran"]
  BY <1>1, <1>2
<1>4. Contract!Run(t)
  BY <1>1, <1>3 DEF Contract!Run, Contract!Become
<1> QED BY <1>4 DEF Contract!Next

\* A timer fires when its time has come and no earlier timer is left.
LEMMA FireStep ==
  ASSUME now' = now, sState' = sState, \A e \in Event : due'[e] = due[e],
         NEW t \in Event, fate[t] = "pending", fate'[t] = "inflight",
         \A e \in Event : e # t => fate'[e] = fate[e],
         \A e \in Event : fate[e] \in Fate,
         due[t] <= now, \A e \in Event : fate[e] = "pending" => due[t] <= due[e]
  PROVE  Contract!Next
<1>1. \A e \in Event : Status(e) = "armed" => fate[e] = "pending"
  BY StatusIs DEF Fate
<1>2. /\ Status(t) = "armed" /\ Status(t)' = "fired"
      /\ \A e \in Event : e # t => Status(e)' = Status(e)
  BY StatusIs
<1>3. Contract!Become(t, "fired")
  BY <1>2 DEF Contract!Become
<1>4. [e \in Event |-> Status(e)][t] = "armed" /\ [e \in Event |-> due[e]][t] <= now
  BY <1>2
<1>5. \A u \in Event : [e \in Event |-> Status(e)][u] = "armed"
        => [e \in Event |-> due[e]][t] <= [e \in Event |-> due[e]][u]
  BY <1>1
<1>6. UNCHANGED <<now, [e \in Event |-> due[e]], sState = "RUNNING">>
  OBVIOUS
<1>7. Contract!Fire(t)
  BY <1>3, <1>4, <1>5, <1>6 DEF Contract!Fire
<1> QED BY <1>7 DEF Contract!Next

\* A new timer is set for a time from now.
LEMMA ArmStep ==
  ASSUME now' = now, sState' = sState, sState = "RUNNING",
         NEW t \in Event, fate[t] = "new", fate'[t] = "pending",
         NEW d \in Delays, due'[t] = now + d,
         \A e \in Event : e # t => fate'[e] = fate[e] /\ due'[e] = due[e]
  PROVE  Contract!Next
<1>1. Contract!Arm(t)
  BY StatusIs DEF Contract!Arm, Contract!Become
<1> QED BY <1>1 DEF Contract!Next

\* Timers are lost only after the scheduler was closed.
LEMMA LoseStep ==
  ASSUME now' = now, sState' = sState, sState # "RUNNING", \A e \in Event : due'[e] = due[e],
         NEW ts \in SUBSET Event,
         \A e \in ts : fate[e] \in {"new", "pending", "inflight", "queued"} /\ fate'[e] = "dropped",
         \A e \in Event : e \notin ts => fate'[e] = fate[e]
  PROVE  Contract!Next
<1>1. Contract!Lose(ts)
  BY StatusIs DEF Contract!Lose
<1> QED BY <1>1 DEF Contract!Next

\* The scheduler is closed once and for all.
LEMMA CloseStep ==
  ASSUME now' = now, sState' # "RUNNING", UNCHANGED <<due, fate>>
  PROVE  [Contract!Next]_(Contract!contractVars)
<1>1. CASE sState = "RUNNING"
  BY <1>1, StatusIs DEF Contract!Next, Contract!Close
<1>2. CASE sState # "RUNNING"
  BY <1>2, StutterStep
<1> QED BY <1>1, <1>2

ContractStep == [Contract!Next]_(Contract!contractVars)

\* A task that is no event is posted.
LEMMA AddTaskContract ==
  ASSUME Inv, NEW th \in Thread, NEW w \in Work \ Event, AddTask(th, w),
         now' = now, \A e \in Event : due'[e] = due[e], sState' = sState
  PROVE  ContractStep
<1>1. \A e \in Event : fate'[e] = fate[e]
  BY WorkKinds DEF AddTask, Accept, Refuse, Inv, TypeInv, TypeOK, SharedTypeOK
<1> QED BY <1>1, StutterStep DEF ContractStep

\* createTask and Dispatcher::addTask.
LEMMA PostTaskContract ==
  ASSUME Inv, NEW th \in Thread, NEW w \in Packet \cup Signal, PostTask(th, w)
  PROVE  ContractStep
<1>1. w \in Work \ Event
  BY KindsAssumption, WorkKinds DEF Ordinary, Control
<1>2. \A e \in Event : due'[e] = due[e]
  BY <1>1 DEF PostTask, Inv, TypeInv, TypeOK, SharedTypeOK
<1> QED BY <1>1, <1>2, AddTaskContract DEF PostTask, schedulerVars

\* Scheduler::addEvent.
LEMMA AddEventContract ==
  ASSUME Inv, NEW th \in Thread, NEW e \in Event, NEW d \in Delays, fate[e] = "new",
         AddEvent(th, e, d)
  PROVE  ContractStep
<1>1. /\ now' = now /\ sState' = sState /\ e \in Work /\ Event \subseteq Work
      /\ fate \in [Work -> Fate] /\ due \in [Work -> Nat]
  BY WorkKinds DEF AddEvent, Inv, TypeInv, TypeOK, SharedTypeOK
<1>2. CASE AcceptEvent(th, e, d)
  <2>1. /\ sState = "RUNNING" /\ fate'[e] = "pending" /\ due'[e] = now + d
        /\ \A f \in Event : f # e => fate'[f] = fate[f] /\ due'[f] = due[f]
    BY <1>1, <1>2 DEF AcceptEvent
  <2> QED BY <1>1, <2>1, ArmStep DEF ContractStep
<1>3. CASE RefuseEvent(e)
  <2>1. /\ sState # "RUNNING" /\ fate'[e] = "dropped" /\ due' = due
        /\ \A f \in Event : f \notin {e} => fate'[f] = fate[f]
    BY <1>1, <1>3 DEF RefuseEvent
  <2> QED BY <1>1, <2>1, LoseStep DEF ContractStep
<1> QED BY <1>2, <1>3 DEF AddEvent

\* What handlers do.
LEMMA HandlerContract == Inv /\ Handler => ContractStep
<1> SUFFICES ASSUME Inv, Handler PROVE ContractStep
  OBVIOUS
<1>1. ASSUME NEW e \in Event, HandlerStopEvent(e) PROVE ContractStep
  <2>1. fate[e] = "pending" /\ e \in Work /\ Event \subseteq Work
    BY <1>1, StoppedIsPending, WorkKinds DEF HandlerStopEvent, StopEvent
  <2>2. /\ fate'[e] = "cancelled" /\ \A x \in Event : x # e => fate'[x] = fate[x]
        /\ UNCHANGED <<now, due, sState>>
    BY <1>1, <2>1 DEF HandlerStopEvent, StopEvent, Inv, TypeInv, TypeOK, SharedTypeOK
  <2> QED BY <2>1, <2>2, CancelStep DEF ContractStep
<1>2. ASSUME NEW q \in Query, HandlerAddQuery(q) PROVE ContractStep
  <2>1. \A e \in Event : fate'[e] = fate[e]
    BY <1>2, QueryKind, WorkKinds DEF HandlerAddQuery, AddQuery, Inv, TypeInv, TypeOK, SharedTypeOK
  <2> QED
    BY <1>2, <2>1, StutterStep DEF HandlerAddQuery, AddQuery, schedulerVars, ContractStep
<1>3. CASE HandlerSave
  BY <1>3, StutterStep DEF HandlerSave, sharedVars, schedulerVars, ContractStep
<1> QED
  BY <1>1, <1>2, <1>3, PostTaskContract, AddEventContract
  DEF Handler, HandlerAddEvent, HandlerAddTask, Thread

\* A query is executed.
LEMMA RunTaskContract ==
  ASSUME Inv, NEW th \in Thread, NEW q \in Query, RunTask(th, q),
         UNCHANGED <<now, due, sState>>
  PROVE  ContractStep
<1>1. q \in Work \ Event
  BY QueryKind
<1>2. CASE fate' = [fate EXCEPT ![q] = "done"]
  <2>1. \A e \in Event : fate'[e] = fate[e]
    BY <1>1, <1>2, WorkKinds DEF Inv, TypeInv, TypeOK, SharedTypeOK
  <2> QED BY <2>1, StutterStep DEF ContractStep
<1> QED BY <1>1, <1>2, AddTaskContract DEF RunTask

\* A query is taken.
LEMMA TakeQueryContract ==
  ASSUME Inv, tasks # <<>>, tasks' = Tail(tasks),
         fate' = [fate EXCEPT ![Head(tasks)] = "running"], UNCHANGED <<now, due, sState>>
  PROVE  ContractStep
<1>1. \A e \in Event : fate'[e] = fate[e]
  BY TakeQueryPlace, QueryKind, WorkKinds
<1> QED BY <1>1, StutterStep DEF ContractStep

\* The dispatcher runs the timers that fired.
LEMMA DispatcherContract ==
  ASSUME Inv, EndInv, DispatcherStep \/ (DispSpuriousWake /\ UNCHANGED schedulerVars)
  PROVE  ContractStep
<1>a. fate \in [Work -> Fate] /\ Event \subseteq Work /\ Timed \cap Event = {}
  BY WorkKinds, KindsAssumption, WorkAssumption DEF Inv, TypeInv, TypeOK, SharedTypeOK, Ordinary
<1>1. CASE /\ DispatcherLoop \/ DispSpuriousWake
           /\ UNCHANGED schedulerVars
  <2>1. UNCHANGED <<now, due, sState>>
    BY <1>1 DEF DispatcherLoop, DispSpuriousWake, DispCheck, DispLock, DispWake, LeaveWait,
       DispStart, DispReturn, sharedVars, schedulerVars
  <2>2. CASE (DispLock \/ DispWake \/ DispSpuriousWake) /\ TakeTask
    <3> DEFINE w == Head(taskList)
    <3>1. taskList \in Seq(Work) /\ taskList # <<>> /\ w \in Work /\ Distinct(taskList)
      BY <2>2, TakeFirst DEF TakeTask, Inv, PlaceInv, OnePlace, QueuePlace, TypeInv, TypeOK,
         DispatcherTypeOK
    <3>2. fate[w] = "queued"
      BY <3>1, TailListed DEF Inv, PlaceInv, OnePlace, QueuePlace
    <3>3. fate' = [fate EXCEPT ![w] = "running"]
      BY <2>2 DEF TakeTask
    <3> HIDE DEF w
    <3>4. fate'[w] = "running" /\ \A e \in Event : e # w => fate'[e] = fate[e]
      BY <1>a, <3>1, <3>3
    <3>5. CASE w \in Event
      BY <2>1, <3>2, <3>4, <3>5, RunStep DEF ContractStep
    <3>6. CASE w \notin Event
      BY <2>1, <3>4, <3>6, StutterStep DEF ContractStep
    <3> QED BY <3>5, <3>6
  <2>3. CASE DispStart \/ DispReturn
    <3>1. \/ fate' = fate
          \/ dTask \in Timed /\ fate' = [fate EXCEPT ![dTask] = "expired"]
          \/ fate' = [fate EXCEPT ![dTask] = "done"]
      BY <2>3 DEF DispStart, DispReturn, HasExpired
    <3>2. dTask \in Work /\ fate[dTask] = "running"
      BY <2>3 DEF DispStart, DispReturn, Inv, PlaceInv, OnePlace, HandPlace, TypeInv, TypeOK,
         HandsOK, DispatcherTypeOK
    <3>3. \A e \in Event : \/ fate'[e] = fate[e]
                           \/ fate[e] = "running" /\ fate'[e] = "done"
      BY <1>a, <3>1, <3>2
    <3>4. \A e \in Event : StatusAt(fate'[e]) = StatusAt(fate[e])
      BY <3>3, StatusIs
    <3> QED BY <2>1, <3>4, StutterStep DEF ContractStep
  <2>4. CASE fate' = fate
    BY <2>1, <2>4, StutterStep DEF ContractStep
  <2> QED
    BY <1>1, <2>2, <2>3, <2>4 DEF DispatcherLoop, DispSpuriousWake, DispCheck, DispLock, DispWake,
       LeaveWait, sharedVars
<1>2. CASE FlushTake
  <2>1. CASE tasks # <<>> /\ tasks' = Tail(tasks) /\ fate' = [fate EXCEPT ![Head(tasks)] = "running"]
    BY <1>2, <2>1, TakeQueryContract DEF FlushTake, schedulerVars
  <2>2. CASE fate' = fate
    BY <1>2, <2>2, StutterStep DEF FlushTake, schedulerVars, ContractStep
  <2> QED BY <1>2, <2>1, <2>2 DEF FlushTake
<1>3. CASE FlushRun
  <2>1. dFlush \in Query
    BY <1>3 DEF FlushRun, Inv, TypeInv, TypeOK, HandsOK, DatabaseTypeOK
  <2> QED BY <1>3, <2>1, RunTaskContract DEF FlushRun, schedulerVars, Thread
<1>4. CASE PostShutdown
  <2>1. GameShutdown \in Work \ Event
    BY ShutdownTasks
  <2> QED BY <1>4, <2>1, AddTaskContract DEF PostShutdown, Stage, Thread
<1>5. CASE PostTerminate
  <2>1. \A e \in Event : fate'[e] = fate[e]
    BY <1>a, <1>5, ShutdownTasks DEF PostTerminate
  <2> QED BY <1>5, <2>1, StutterStep DEF PostTerminate, Stage, ContractStep
<1>6. CASE StopThreads
  <2>1. CASE sState' = sState
    BY <1>6, <2>1, StutterStep DEF StopThreads, Stage, ContractStep
  <2>2. CASE sState' = "CLOSING"
    BY <1>6, <2>2, CloseStep DEF StopThreads, Stage, ContractStep
  <2> QED BY <1>6, <2>1, <2>2 DEF StopThreads
<1>7. CASE TerminateScheduler
  BY <1>7, CloseStep DEF TerminateScheduler, Stage, ContractStep
<1>8. CASE ClearScheduler
  <2>1. sState = "TERMINATED" /\ UNCHANGED <<now, due, sState>>
    BY <1>8 DEF ClearScheduler, Stage, EndInv, WoundDown
  <2> DEFINE ts == {e \in eventList : eventId[e] \in eventIds}
  <2>2. ts \in SUBSET Event /\ \A e \in ts : fate[e] = "pending"
    BY DEF Inv, PlaceInv, OnePlace, EventPlace, Live, TypeInv, TypeOK, SchedulerTypeOK
  <2>3. \A e \in Event : fate'[e] = IF e \in ts THEN "dropped" ELSE fate[e]
    BY <1>a, <1>8 DEF ClearScheduler, ClearEvents, Fates
  <2> QED BY <2>1, <2>2, <2>3, LoseStep DEF ContractStep
<1>9. CASE \/ Saved \/ HandlerReturn \/ HandleSignal \/ ShutdownSave \/ NotifyScheduler
           \/ TerminateDatabase \/ NotifyDatabase \/ StopService \/ TerminateDispatcher
  <2>1. UNCHANGED <<now, due, fate, sState>>
    BY <1>9 DEF Saved, HandlerReturn, HandleSignal, ShutdownSave, NotifyScheduler,
       TerminateDatabase, NotifyDatabase, StopService, TerminateDispatcher, Stage, sharedVars,
       schedulerVars
  <2> QED BY <2>1, StutterStep DEF ContractStep
<1> QED
  BY <1>1, <1>2, <1>3, <1>4, <1>5, <1>6, <1>7, <1>8, <1>9 DEF DispatcherStep

\* The scheduler fires the timers in the order of their times.
LEMMA SchedulerContract ==
  ASSUME Inv, SleepInv, SchedulerLoop \/ SchedSpuriousWake
  PROVE  ContractStep
<1>a. fate \in [Work -> Fate] /\ Event \subseteq Work /\ eventList \subseteq Event
  BY WorkKinds DEF Inv, TypeInv, TypeOK, SharedTypeOK, SchedulerTypeOK
<1>1. CASE SchedTimeout
  <2>1. spc = "timedwait" /\ now >= sDeadline /\ UNCHANGED <<now, due, sState>>
    BY <1>1 DEF SchedTimeout
  <2>2. CASE fate' = fate
    BY <2>1, <2>2, StutterStep DEF ContractStep
  <2>3. ASSUME NEW top \in Tops, eventId[top] \in eventIds,
               fate' = [fate EXCEPT ![top] = "inflight"]
        PROVE  ContractStep
    <3>1. top \in eventList /\ top \in Event /\ fate[top] = "pending"
      BY <1>a, <2>3, StoppedIsPending DEF Tops
    <3>2. fate'[top] = "inflight" /\ \A e \in Event : e # top => fate'[e] = fate[e]
      BY <1>a, <2>3, <3>1
    <3>3. \A e \in Event : fate[e] = "pending" => due[top] <= due[e]
      BY DEF Tops, Inv, PlaceInv, OnePlace, EventPlace, Live
    <3>4. due[top] <= now
      <4>1. PICK e \in eventList : due[e] <= sDeadline
        BY <2>1, <3>1 DEF SleepInv, DeadlineOK
      <4>2. due[top] <= due[e]
        BY <4>1 DEF Tops
      <4>3. due[top] \in Nat /\ due[e] \in Nat /\ now \in Nat /\ sDeadline \in Nat
        BY <1>a, <3>1, <4>1 DEF Inv, TypeInv, TypeOK, SharedTypeOK, SchedulerTypeOK
      <4> QED BY <2>1, <4>1, <4>2, <4>3
    <3>5. \A e \in Event : fate[e] \in Fate
      BY <1>a
    <3> QED BY <2>1, <3>1, <3>2, <3>3, <3>4, <3>5, FireStep DEF ContractStep
  <2> QED BY <1>1, <2>2, <2>3 DEF SchedTimeout
<1>2. CASE SchedHandoff
  <2>1. sTask \in Event /\ fate[sTask] = "inflight" /\ UNCHANGED <<now, due, sState>>
    BY <1>2, WorkKinds DEF SchedHandoff, Inv, PlaceInv, OnePlace, HandPlace, TypeInv, TypeOK, HandsOK,
       SchedulerTypeOK
  <2>2. CASE fate' = [fate EXCEPT ![sTask] = "queued"]
    <3>1. \A e \in Event : StatusAt(fate'[e]) = StatusAt(fate[e])
      BY <1>a, <2>1, <2>2, StatusIs
    <3> QED BY <2>1, <3>1, StutterStep DEF ContractStep
  <2>3. CASE dState # "RUNNING" /\ fate' = [fate EXCEPT ![sTask] = "dropped"]
    <3>1. sState # "RUNNING"
      BY <2>3 DEF SleepInv, ClosedBefore
    <3>2. /\ fate'[sTask] = "dropped"
          /\ \A e \in Event : e \notin {sTask} => fate'[e] = fate[e]
      BY <1>a, <2>1, <2>3
    <3> QED BY <2>1, <3>1, <3>2, LoseStep DEF ContractStep
  <2>4. sTask \notin Query
    BY <2>1, KindsAssumption DEF Ordinary
  <2> QED BY <1>2, <2>2, <2>3, <2>4 DEF SchedHandoff, AddTaskFront, Accept, Refuse
<1>3. CASE SchedCheck \/ SchedLock \/ SchedWake \/ SchedSpuriousWake
  <2>1. UNCHANGED <<now, due, fate, sState>>
    BY <1>3 DEF SchedCheck, SchedLock, SchedWake, SchedSpuriousWake, SchedLeaveWait, sharedVars
  <2> QED BY <2>1, StutterStep DEF ContractStep
<1> QED BY <1>1, <1>2, <1>3 DEF SchedulerLoop

\* The database thread knows no timers.
LEMMA DatabaseContract ==
  ASSUME Inv, DatabaseLoop \/ DbSpuriousWake
  PROVE  ContractStep
<1>1. UNCHANGED <<now, due, sState>>
  BY DEF DatabaseLoop, DbSpuriousWake, DbCheck, DbLock, DbWake, DbLeaveWait, DbRunTask, sharedVars,
     schedulerVars
<1>2. CASE DbRunTask
  <2>1. bTask \in Query
    BY <1>2 DEF DbRunTask, Inv, TypeInv, TypeOK, HandsOK, DatabaseTypeOK
  <2> QED BY <1>1, <1>2, <2>1, RunTaskContract DEF DbRunTask, Thread
<1>3. CASE TakeQuery
  BY <1>1, <1>3, TakeQueryContract DEF TakeQuery
<1>4. CASE fate' = fate
  BY <1>1, <1>4, StutterStep DEF ContractStep
<1> QED
  BY <1>2, <1>3, <1>4 DEF DatabaseLoop, DbSpuriousWake, DbCheck, DbLock, DbWake, DbLeaveWait,
     sharedVars

\* Every step of the runtime is a step of the contract or leaves it alone.
LEMMA NextContract == Inv /\ EndInv /\ SleepInv /\ [Next]_vars => ContractStep
<1> SUFFICES ASSUME Inv, EndInv, SleepInv, [Next]_vars PROVE ContractStep
  OBVIOUS
<1>1. CASE Io
  BY <1>1, PostTaskContract, AddEventContract DEF Io, IoAddTask, IoAddEvent, Thread
<1>2. CASE Tick
  <2>1. Contract!Pass
    BY <1>2 DEF Tick, Contract!Pass, Status, schedulerVars
  <2> QED BY <2>1 DEF ContractStep, Contract!Next
<1>3. CASE (\E th \in Thread : Notify(th)) \/ MainEnd \/ UNCHANGED vars
  <2>1. UNCHANGED <<now, due, fate, sState>>
    BY <1>3 DEF Notify, MainEnd, ServiceDie, JoinScheduler, JoinDatabase, JoinDispatcher, MainStep,
       vars, sharedVars, schedulerVars
  <2> QED BY <2>1, StutterStep DEF ContractStep
<1>4. CASE DispatcherStep \/ (DispSpuriousWake /\ UNCHANGED schedulerVars)
  BY <1>4, DispatcherContract
<1>5. CASE SchedulerLoop \/ SchedSpuriousWake
  BY <1>5, SchedulerContract
<1>6. CASE DatabaseLoop \/ DbSpuriousWake
  BY <1>6, DatabaseContract
<1>7. CASE SpuriousWake
  BY <1>4, <1>5, <1>6, <1>7 DEF SpuriousWake
<1> QED
  BY <1>1, <1>2, <1>3, <1>4, <1>5, <1>6, <1>7, HandlerContract
  DEF Next, SchedulerStep, DatabaseStep, Ended

\* The runtime implements the contract of a timer: a timer runs at most once,
\* never before its time, never after it was stopped and in the order of the
\* times, and none is lost before the scheduler was closed.
THEOREM TimersKeepTheContract == Spec => ImplementsContract
<1>1. Init => Contract!Init
  BY WorkKinds, StatusIs DEF Init, SharedInit, SchedulerInit, Contract!Init
<1>2. Inv /\ EndInv /\ SleepInv /\ [Next]_vars => [Contract!Next]_(Contract!contractVars)
  BY NextContract DEF ContractStep
<1>3. Spec => [](Inv /\ EndInv /\ SleepInv)
  BY EndNext, EndInit, SleepNext, SleepInit, Invariant, PTL DEF Spec
<1> QED BY <1>1, <1>2, <1>3, PTL DEF Spec, ImplementsContract, Contract!Spec
=============================================================================
