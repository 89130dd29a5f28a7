---------------------------- MODULE CreatureWalk ----------------------------
(***************************************************************************)
(* How a player walks and acts (src/src/creature.cpp, player.cpp and the   *)
(* handlers of game.cpp).  A walk is a list of directions; one timer       *)
(* (eventWalk) makes the next step and arms itself again.  An action that  *)
(* has to wait is a timer too (actionTaskEvent), or is kept (walkTask)     *)
(* until the walk that leads to it is complete and then armed              *)
(* (walkTaskEvent).  All of it runs on the dispatcher; what is hard is     *)
(* that a timer that has fired stands at the head of the dispatcher's list *)
(* and can no longer be stopped, while the player's fields are changed.    *)
(*                                                                         *)
(* Times are abstracted: an armed timer may fire at any moment, and        *)
(* whether getWalkDelay() and nextAction have passed is arbitrary.         *)
(***************************************************************************)
EXTENDS Naturals, Sequences, FiniteSets, SequencesExt

CONSTANTS
    Task,       \* what a waiting action does when it runs: "use", "push"
    Packet,     \* what the client may send, besides a path to walk
    MaxWalk,    \* the longest list of directions
    MaxQueued,  \* how many tasks may wait in the dispatcher when one is added
    MaxChains,  \* how many walk timers may be alive when something happens to him
    NoTask,     \* the null pointer of walkTask
    WalkIds, WalkTaskIds, ActionIds     \* the event ids each field uses

ASSUME WalkConstants == /\ Task \subseteq {"use", "push"}
                        /\ NoTask \notin Task
                        /\ Packet \subseteq {"use", "moveThing", "move", "stop", "chase", "unchase"}
                        /\ "use" \in Packet => "use" \in Task
                        /\ "moveThing" \in Packet => "push" \in Task
                        /\ MaxWalk \in Nat \ {0} /\ MaxQueued \in Nat /\ MaxChains \in Nat
                        /\ WalkIds \cup WalkTaskIds \cup ActionIds \subseteq Nat \ {0}
                        /\ WalkIds \cap (WalkTaskIds \cup ActionIds) = {}
                        /\ WalkTaskIds \cap ActionIds = {}

VARIABLES
    walker,     \* the player's fields, and the timers armed in the scheduler
    tasks       \* the dispatcher's list: the head runs next

walkVars == <<walker, tasks>>

\* A timer or a queued task: what it runs, its event id (0 if it never was a
\* timer), and the directions it carries.
Work(run, id, dirs) == [run |-> run, id |-> id, dirs |-> dirs]

\* Event ids: which ones a field uses is of no matter; kinds of their own keep the
\* number of states small.
Ids == WalkIds \cup WalkTaskIds \cup ActionIds

Walkers == [online : BOOLEAN, slow : BOOLEAN, following : BOOLEAN,
            cancelNextWalk : BOOLEAN,
            listWalkDir : 0 .. MaxWalk, walkTask : Task \cup {NoTask},
            eventWalk : Ids \cup {0}, walkTaskEvent : Ids \cup {0},
            actionTaskEvent : Ids \cup {0},
            armed : SUBSET [run : Task \cup {"walk"}, id : Ids, dirs : {0}],
            sinceStop : 0 .. 3]

Works == [run : Task \cup Packet \cup {"walk", "autoWalk", "follow", "slow", "cure", "leave"},
          id : Ids \cup {0}, dirs : 0 .. MaxWalk]

TypeOKWalk == walker \in Walkers /\ tasks \in Seq(Works)

WalkInit ==
    /\ walker = [online |-> TRUE, slow |-> FALSE, following |-> FALSE,
                 cancelNextWalk |-> FALSE,
                 listWalkDir |-> 0, walkTask |-> NoTask, eventWalk |-> 0,
                 walkTaskEvent |-> 0, actionTaskEvent |-> 0, armed |-> {},
                 sinceStop |-> 0]
    /\ tasks = <<>>

-----------------------------------------------------------------------------
(* The timers of one player *)

\* Ids are never given twice (NextId of Scheduler): one that nobody remembers.
Unused(w, i) ==
    /\ i \notin {w.eventWalk, w.walkTaskEvent, w.actionTaskEvent}
    /\ \A e \in w.armed : e.id # i
    /\ \A n \in DOMAIN tasks : tasks[n].id # i

FreshId(w, ids) == CHOOSE i \in ids : Unused(w, i)

\* Bound: a handler runs while there is an id of each kind that is not in use (there
\* always is one if the sets are infinite).
IdsLeft == \A ids \in {WalkIds, WalkTaskIds, ActionIds} : ~ \A i \in ids : ~Unused(walker, i)

AddEvent(w, run, ids) == [w EXCEPT !.armed = @ \cup {Work(run, FreshId(w, ids), 0)}]

\* A timer that has fired is no longer in armed: stopping it does nothing.
StopTimer(w, id) == [w EXCEPT !.armed = {e \in @ : e.id # id}]

StopEventWalkKeepsId(w) == StopTimer(w, w.eventWalk)

StopEventWalk(w) == [StopTimer(w, w.eventWalk) EXCEPT !.eventWalk = 0]

AddEventWalk(w) ==
    LET clear == [w EXCEPT !.cancelNextWalk = FALSE]
    IN  IF w.eventWalk # 0
        THEN clear
        ELSE [AddEvent(clear, "walk", WalkIds) EXCEPT !.eventWalk = FreshId(w, WalkIds)]

SetNextWalkActionTask(w, task) ==
    [StopTimer(w, w.walkTaskEvent) EXCEPT !.walkTaskEvent = 0, !.walkTask = task]

SetNextActionTask(w, task) ==
    LET stopped == [StopTimer(w, w.actionTaskEvent) EXCEPT !.actionTaskEvent = 0]
    IN  IF task = NoTask
        THEN stopped
        ELSE [AddEvent(stopped, task, ActionIds)
                  EXCEPT !.actionTaskEvent = FreshId(stopped, ActionIds)]

OnWalkAborted(w) == SetNextWalkActionTask(w, NoTask)

OnWalkComplete(w) ==
    IF w.walkTask = NoTask
    THEN w
    ELSE [AddEvent(w, w.walkTask, WalkTaskIds)
           EXCEPT !.walkTaskEvent = FreshId(w, WalkTaskIds), !.walkTask = NoTask]

StopWalk(w) == [w EXCEPT !.cancelNextWalk = TRUE, !.sinceStop = 1]

-----------------------------------------------------------------------------
(* Walking *)

\* What becomes of a step: too early, made or refused, made onto a teleport.
Outcome == {"early", "walked", "jumped"}

\* Player::onWalk(dir) drops the waiting action.  A step onto a teleport ends the
\* chain although directions are left.
Step(w, outcome) ==
    LET there == [SetNextActionTask(w, NoTask)
                    EXCEPT !.listWalkDir = @ - 1,
                           !.sinceStop = IF @ \in {1, 2} THEN @ + 1 ELSE @]
    IN  IF outcome = "jumped" THEN StopEventWalk(there) ELSE there

CancelWalk(w) ==
    IF w.cancelNextWalk
    THEN OnWalkAborted([w EXCEPT !.listWalkDir = 0, !.cancelNextWalk = FALSE, !.sinceStop = 0])
    ELSE w

Rearm(w) == IF w.eventWalk # 0 THEN AddEventWalk([w EXCEPT !.eventWalk = 0]) ELSE w

Walked(w, outcome) ==
    CASE outcome = "early" -> w
      [] outcome # "early" /\ w.listWalkDir > 0 -> Step(w, outcome)
      [] OTHER -> StopEventWalk(OnWalkComplete(w))

OnWalkRearmFirst(w, outcome) == CancelWalk(Rearm(Walked(w, outcome)))

OnWalk(w, outcome) == Rearm(CancelWalk(Walked(w, outcome)))

\* The first of a single step is made at once, before eventWalk is set.
StartAutoWalk(w, dirs, outcome) ==
    LET new == [w EXCEPT !.listWalkDir = dirs, !.cancelNextWalk = FALSE, !.sinceStop = 0]
    IN  IF dirs = 1 /\ w.eventWalk = 0 /\ outcome # "early"
        THEN AddEventWalk(OnWalk(new, outcome))
        ELSE AddEventWalk(new)

-----------------------------------------------------------------------------
(* What the dispatcher runs: each handler takes the head of the list *)

Post(run, dirs) == Append(Tail(tasks), Work(run, 0, dirs))

Run(run) == /\ tasks # <<>> /\ Head(tasks).run = run
            /\ walker.online /\ IdsLeft

CheckCreatureWalk ==
    /\ Run("walk")
    /\ \E outcome \in Outcome : walker' = OnWalk(walker, outcome)
    /\ tasks' = Tail(tasks)

PlayerMove ==
    /\ Run("move")
    /\ \E outcome \in Outcome :
         walker' = StartAutoWalk(SetNextWalkActionTask(walker, NoTask), 1, outcome)
    /\ tasks' = Tail(tasks)

\* setNextWalkTask(nullptr) has nothing to stop: no code arms nextStepEvent.
PlayerAutoWalk ==
    /\ Run("autoWalk")
    /\ \E outcome \in Outcome :
         walker' = StartAutoWalk(walker, Head(tasks).dirs, outcome)
    /\ tasks' = Tail(tasks)

PlayerStopAutoWalk ==
    /\ Run("stop")
    /\ walker' = StopWalk(walker)
    /\ tasks' = Tail(tasks)

\* Too far: walk there first, and run this handler again afterwards.
WalkAndRetry(w, task) ==
    \E dirs \in 0 .. MaxWalk :
        /\ walker' = SetNextWalkActionTask(w, task)
        /\ tasks' = Post("autoWalk", dirs)

Refuse(w) == walker' = w /\ tasks' = Tail(tasks)

\* The distance is looked at before the time.
PlayerUseItem ==
    /\ Run("use")
    /\ \/ Refuse(walker)
       \/ WalkAndRetry(walker, "use")
       \/ Refuse(SetNextActionTask(walker, "use"))      \* too soon
       \/ Refuse(StopWalk(SetNextActionTask(walker, NoTask)))

\* The time is looked at before the distance; pushing costs no time.
PlayerMoveCreature ==
    /\ Run("push")
    /\ \/ Refuse(SetNextActionTask(walker, "push"))     \* too soon
       \/ LET w == SetNextActionTask(walker, NoTask)
          IN  Refuse(w) \/ WalkAndRetry(w, "push")

\* The packet itself: next to the creature, the push is always put off.
PlayerMoveThing ==
    /\ Run("moveThing")
    /\ Refuse(SetNextActionTask(walker, "push"))

SetFollowCreature ==
    /\ Run("chase")
    /\ walker' = LET w == [walker EXCEPT !.following = TRUE]
                 IN  IF w.listWalkDir > 0
                     THEN OnWalkAborted([w EXCEPT !.listWalkDir = 0])
                     ELSE w
    /\ tasks' = Post("follow", 0)

ClearFollowCreature ==
    /\ Run("unchase")
    /\ walker' = StopWalk([walker EXCEPT !.following = FALSE])
    /\ tasks' = Tail(tasks)

GoToFollowCreature ==
    /\ Run("follow")
    /\ IF walker.following /\ walker.walkTask = NoTask
       THEN \/ walker' = [walker EXCEPT !.listWalkDir = 0]
            \/ \E dirs \in 0 .. MaxWalk, outcome \in Outcome :
                 walker' = StartAutoWalk(walker, dirs, outcome)
       ELSE UNCHANGED walker
    /\ tasks' = Tail(tasks)

-----------------------------------------------------------------------------
(* What comes from outside *)

\* A packet: the io thread appends it.
Receive ==
    /\ walker.online /\ Len(tasks) < MaxQueued
    /\ \E run \in Packet :
         tasks' = Append(tasks, Work(run, 0, 0))
    /\ UNCHANGED walker

ReceivePath ==
    /\ walker.online /\ Len(tasks) < MaxQueued
    /\ \E dirs \in 1 .. MaxWalk : tasks' = Append(tasks, Work("autoWalk", 0, dirs))
    /\ UNCHANGED walker

\* The walk timers that are armed or about to run.  There can be two: one had
\* fired when the chain was stopped and begun again.
Chains == {e \in walker.armed \cup ToSet(tasks) : e.run = "walk"}

\* What other creatures' timers and scripts do to the player: like every event
\* of the scheduler it passes the tasks that wait.
Happen ==
    /\ walker.online /\ Len(tasks) <= MaxQueued /\ Cardinality(Chains) < MaxChains
    /\ \E run \in {"slow", "cure", "leave"} : tasks' = <<Work(run, 0, 0)>> \o tasks
    /\ UNCHANGED walker

\* The scheduler puts what has fired at the head of the list.  The id of an
\* action that has fired stops nothing any more and is tested for nothing else:
\* the fields that hold it are written as 0.
Fire ==
    \E e \in walker.armed :
        /\ walker.online
        /\ walker' = LET id == IF e.run = "walk" THEN 0 ELSE e.id
                     IN  [walker EXCEPT !.armed = @ \ {e},
                              !.walkTaskEvent = IF @ = id THEN 0 ELSE @,
                              !.actionTaskEvent = IF @ = id THEN 0 ELSE @]
        /\ tasks' = <<IF e.run = "walk" THEN e ELSE Work(e.run, 0, 0)>> \o tasks

\* A spell or a script slows the player down to nothing, and releases him: the
\* rest of the walk goes on then, although it was cancelled.
SetSpeed ==
    /\ \/ /\ Run("slow")
          /\ walker' = [StopEventWalk(walker) EXCEPT !.slow = TRUE, !.cancelNextWalk = TRUE]
       \/ /\ Run("cure")
          /\ walker' = IF walker.slow /\ walker.listWalkDir > 0
                       THEN AddEventWalk([walker EXCEPT !.slow = FALSE, !.sinceStop = 0])
                       ELSE [walker EXCEPT !.slow = FALSE]
    /\ tasks' = Tail(tasks)

\* Removal stops no timer, but getPlayerByID finds nobody from now on: neither
\* the timers nor the tasks that are left do anything.
Leave ==
    /\ Run("leave")
    /\ walker' = [walker EXCEPT !.online = FALSE, !.following = FALSE,
                    !.cancelNextWalk = IF walker.eventWalk # 0 THEN TRUE ELSE @]
    /\ tasks' = Tail(tasks)

RunTask == \/ CheckCreatureWalk \/ PlayerMove \/ PlayerAutoWalk \/ PlayerStopAutoWalk
           \/ PlayerUseItem \/ PlayerMoveCreature \/ PlayerMoveThing
           \/ SetFollowCreature \/ ClearFollowCreature \/ GoToFollowCreature
           \/ SetSpeed \/ Leave

WalkNext == \/ RunTask \/ Receive \/ ReceivePath \/ Fire \/ Happen

WalkSpec == WalkInit /\ [][WalkNext]_walkVars

-----------------------------------------------------------------------------
(* Properties *)

Alive(id) == \/ \E e \in walker.armed : e.id = id
             \/ \E n \in DOMAIN tasks : tasks[n].id = id

\* While the player is there, the event that eventWalk names is armed or about
\* to run: addEventWalk arms nothing while eventWalk is set, so a stale id
\* would root the player to the spot for good.
WalkChained == walker.online /\ walker.eventWalk # 0 => Alive(walker.eventWalk)

\* Every waiting action is known to the player by its id, and while an action
\* waits for the end of a walk no older one is armed for it: whatever replaces
\* or aborts it can still stop it.
ActionsKnown ==
    /\ \A e \in walker.armed : e.run \in Task =>
           e.id \in {walker.walkTaskEvent, walker.actionTaskEvent}
    /\ walker.walkTask # NoTask => \A e \in walker.armed : e.id # walker.walkTaskEvent

\* The player's fields and the timers agree in both directions, whatever fires,
\* is stopped or replaced in between: no walk is stuck, no action escapes.
WalkSound == TypeOKWalk /\ WalkChained /\ ActionsKnown

\* After a request to stop (stopWalk) the walk it meant goes on for one step at
\* most, whichever timers were on their way when it came.
StopHonoured == walker.sinceStop < 3
=============================================================================
