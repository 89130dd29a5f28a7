--------------------------- MODULE CreatureProofs ---------------------------
(***************************************************************************)
(* Theorems about how a player walks and acts (CreatureWalk), and about    *)
(* what the conditions of a creature add up to (Conditions).               *)
(*                                                                         *)
(* Walking.  The handlers are compositions of a few operations on the      *)
(* player's fields and timers.  For each operation a lemma says that it    *)
(* keeps these in order (InOrder), does not lose the walk's timer          *)
(* (Linked), and leaves ids to give (WalkIdLeft).                          *)
(*                                                                         *)
(* Conditions.  What a list gives is a sum over its indices (FoldProofs);  *)
(* each operation on the list changes that sum and the creature alike.     *)
(***************************************************************************)
EXTENDS CreatureWalk, Conditions, FoldProofs, TLAPS

\* Each id field holds ids of its own kind; an armed timer is the walk or an action
\* whose id the player knows; no two timers have the same id; and while an action
\* waits for the end of a walk no older one is armed for it.
InOrder(w) ==
    /\ w \in Walkers
    /\ w.eventWalk \in WalkIds \cup {0}
    /\ w.walkTaskEvent \in WalkTaskIds \cup {0}
    /\ w.actionTaskEvent \in ActionIds \cup {0}
    /\ \A e \in w.armed : \/ e.run = "walk" /\ e.id \in WalkIds
                          \/ e.run \in Task /\ e.id \in {w.walkTaskEvent, w.actionTaskEvent}
    /\ \A e, f \in w.armed : e.id = f.id => e = f
    /\ w.walkTask # NoTask => \A e \in w.armed : e.id # w.walkTaskEvent

\* Since a request to stop the walk is cancelled.
Stopping(w) == w.sinceStop \in 0 .. 2 /\ (w.sinceStop # 0 => w.cancelNextWalk)

\* The timer that eventWalk names is armed.
Chained(w) == \E e \in w.armed : e.id = w.eventWalk

\* From w to v the walk's timer is not lost: there is none to be kept, a new one is
\* armed, or it is the one it was.
Linked(w, v) ==
    \/ v.eventWalk = 0
    \/ Chained(v)
    \/ v.eventWalk = w.eventWalk /\ \A e \in w.armed : e.id = w.eventWalk => e \in v.armed

IdLeft(w, ids) == \E i \in ids : Unused(w, i)

\* What an operation guarantees: w is in order and stays so, the walk's timer is
\* not lost, and there is still an id for one.
Keeps(w, v) == InOrder(v) /\ Linked(w, v) /\ IdLeft(v, WalkIds)

\* What the constants say: kinds of ids and of work are kept apart.
LEMMA Kinds ==
    /\ "walk" \notin Task /\ NoTask \notin Task
    /\ MaxWalk \in Nat /\ 1 <= MaxWalk
    /\ WalkIds \cap WalkTaskIds = {} /\ WalkIds \cap ActionIds = {}
    /\ WalkTaskIds \cap ActionIds = {}
    /\ 0 \notin Ids /\ WalkIds \subseteq Ids /\ WalkTaskIds \subseteq Ids /\ ActionIds \subseteq Ids
  BY WalkConstants DEF Ids

\* A fresh id is one that is left.
LEMMA FreshIdFound ==
    ASSUME NEW w, NEW ids, IdLeft(w, ids)
    PROVE  FreshId(w, ids) \in ids /\ Unused(w, FreshId(w, ids))
  BY DEF IdLeft, FreshId

\* The walk's timer survives two operations if it survives each.
LEMMA LinkedTransitive ==
    ASSUME NEW u, NEW v, NEW w, Linked(u, v), Linked(v, w)
    PROVE  Linked(u, w)
  BY DEF Linked, Chained

\* So the guarantees of operations done one after the other add up.
LEMMA KeepsTransitive ==
    ASSUME NEW u, NEW v, NEW w, Keeps(u, v), Keeps(v, w)
    PROVE  Keeps(u, w)
  BY LinkedTransitive DEF Keeps

\* What a stop or a new walk writes, and no timer.
WalkFields(w, dirs, cancel, n) ==
    [w EXCEPT !.listWalkDir = dirs, !.cancelNextWalk = cancel, !.sinceStop = n]

\* These are fields of a player.
LEMMA WalkFieldsType ==
    ASSUME NEW w \in Walkers, NEW dirs \in 0 .. MaxWalk, NEW cancel \in BOOLEAN, NEW n \in 0 .. 3
    PROVE  WalkFields(w, dirs, cancel, n) \in Walkers
  BY DEF WalkFields, Walkers

\* What a cure and a timer that fires write.
Cured(w, slow, n) == [w EXCEPT !.slow = slow, !.sinceStop = n]

\* The same, of speed.
LEMMA CuredType ==
    ASSUME NEW w \in Walkers, NEW slow \in BOOLEAN, NEW n \in 0 .. 3
    PROVE  Cured(w, slow, n) \in Walkers
  BY DEF Cured, Walkers

Fired(w, armed, wte, ate) ==
    [w EXCEPT !.armed = armed, !.walkTaskEvent = wte, !.actionTaskEvent = ate]

\* And of the ids of timers.
LEMMA FiredType ==
    ASSUME NEW w \in Walkers, NEW armed \in SUBSET w.armed,
           NEW wte \in Ids \cup {0}, NEW ate \in Ids \cup {0}
    PROVE  Fired(w, armed, wte, ate) \in Walkers
  BY DEF Fired, Walkers

\* Fields that no timer depends on.
LEMMA OtherFields ==
    ASSUME NEW w, InOrder(w), IdLeft(w, WalkIds), NEW v \in Walkers,
           v.armed = w.armed, v.eventWalk = w.eventWalk, v.walkTaskEvent = w.walkTaskEvent,
           v.actionTaskEvent = w.actionTaskEvent, v.walkTask = w.walkTask
    PROVE  Keeps(w, v)
  BY DEF InOrder, Keeps, Linked, Chained, IdLeft, Unused

\* Timers are stopped and their fields cleared: nothing else comes of it.
LEMMA Stopped ==
    ASSUME NEW w, InOrder(w), NEW v \in Walkers, v.armed \subseteq w.armed,
           v.eventWalk \in {0, w.eventWalk}, v.walkTaskEvent \in {0, w.walkTaskEvent},
           v.actionTaskEvent \in {0, w.actionTaskEvent},
           \A e \in v.armed : e.run # "walk" => e.id \in {v.walkTaskEvent, v.actionTaskEvent},
           v.walkTask # NoTask => \A e \in v.armed : e.id # v.walkTaskEvent,
           v.eventWalk # 0 => \A e \in w.armed : e.id = w.eventWalk => e \in v.armed
    PROVE  /\ InOrder(v) /\ Linked(w, v)
           /\ \A ids \in SUBSET Ids : IdLeft(w, ids) => IdLeft(v, ids)
<1>1. InOrder(v)
  BY Kinds DEF InOrder
<1>2. Linked(w, v)
  BY DEF Linked
<1>3. ASSUME NEW i \in Ids, Unused(w, i) PROVE Unused(v, i)
  BY <1>3, Kinds DEF Unused
<1> QED BY <1>1, <1>2, <1>3 DEF IdLeft

\* stopEventWalk: the walk has no timer, and needs none.
LEMMA StopEventWalkKeeps ==
    ASSUME NEW w, InOrder(w), IdLeft(w, WalkIds)
    PROVE  Keeps(w, StopEventWalk(w)) /\ StopEventWalk(w).eventWalk = 0
<1> DEFINE v == StopEventWalk(w)
<1>1. v = [w EXCEPT !.armed = {e \in w.armed : e.id # w.eventWalk}, !.eventWalk = 0]
  BY DEF StopEventWalk, StopTimer, InOrder, Walkers
<1>2. v \in Walkers /\ v.eventWalk = 0 /\ v.armed = {e \in w.armed : e.id # w.eventWalk}
      /\ v.walkTaskEvent = w.walkTaskEvent /\ v.actionTaskEvent = w.actionTaskEvent
      /\ v.walkTask = w.walkTask
  BY <1>1 DEF InOrder, Walkers
<1> HIDE DEF v
<1>3. InOrder(v) /\ Linked(w, v) /\ \A ids \in SUBSET Ids : IdLeft(w, ids) => IdLeft(v, ids)
  BY <1>2, Stopped, Kinds DEF InOrder
<1>4. Keeps(w, v)
  BY <1>3, Kinds DEF Keeps
<1> QED BY <1>2, <1>4 DEF v

\* setNextWalkActionTask: the timer of the older action is stopped before its id is
\* forgotten.
LEMMA NextWalkActionKeeps ==
    ASSUME NEW w, InOrder(w), NEW task \in Task \cup {NoTask}
    PROVE  LET v == SetNextWalkActionTask(w, task)
           IN  /\ InOrder(v) /\ Linked(w, v)
               /\ \A ids \in SUBSET Ids : IdLeft(w, ids) => IdLeft(v, ids)
               /\ v.sinceStop = w.sinceStop /\ v.cancelNextWalk = w.cancelNextWalk
               /\ v.listWalkDir = w.listWalkDir /\ v.eventWalk = w.eventWalk
<1> DEFINE v == SetNextWalkActionTask(w, task)
<1>1. v = [w EXCEPT !.armed = {e \in w.armed : e.id # w.walkTaskEvent},
                    !.walkTaskEvent = 0, !.walkTask = task]
  BY DEF SetNextWalkActionTask, StopTimer, InOrder, Walkers
<1>2. /\ v \in Walkers /\ v.eventWalk = w.eventWalk
      /\ v.armed = {e \in w.armed : e.id # w.walkTaskEvent}
      /\ v.walkTaskEvent = 0 /\ v.actionTaskEvent = w.actionTaskEvent
      /\ v.sinceStop = w.sinceStop /\ v.cancelNextWalk = w.cancelNextWalk
      /\ v.listWalkDir = w.listWalkDir
  BY <1>1 DEF InOrder, Walkers
<1> HIDE DEF v
<1>3. /\ \A e \in v.armed : e.run # "walk" => e.id \in {v.walkTaskEvent, v.actionTaskEvent}
      /\ \A e \in v.armed : e.id # v.walkTaskEvent
      /\ v.eventWalk # 0 => \A e \in w.armed : e.id = w.eventWalk => e \in v.armed
  BY <1>2, Kinds DEF InOrder, Walkers
<1>4. InOrder(v) /\ Linked(w, v) /\ \A ids \in SUBSET Ids : IdLeft(w, ids) => IdLeft(v, ids)
  BY <1>2, <1>3, Stopped
<1> QED BY <1>2, <1>4 DEF v

\* Nothing else is to be done than to stop the action that waits.
LEMMA NoActionKeeps ==
    ASSUME NEW w, InOrder(w)
    PROVE  LET v == SetNextActionTask(w, NoTask)
           IN  /\ InOrder(v) /\ Linked(w, v)
               /\ \A ids \in SUBSET Ids : IdLeft(w, ids) => IdLeft(v, ids)
               /\ v.sinceStop = w.sinceStop /\ v.cancelNextWalk = w.cancelNextWalk
               /\ v.listWalkDir = w.listWalkDir /\ v.eventWalk = w.eventWalk
               /\ v.actionTaskEvent = 0
               /\ \A e \in v.armed : e.id \notin ActionIds
<1> DEFINE v == SetNextActionTask(w, NoTask)
<1>1. v = [w EXCEPT !.armed = {e \in w.armed : e.id # w.actionTaskEvent},
                    !.actionTaskEvent = 0]
  BY DEF SetNextActionTask, StopTimer, InOrder, Walkers
<1>2. /\ v \in Walkers /\ v.eventWalk = w.eventWalk
      /\ v.armed = {e \in w.armed : e.id # w.actionTaskEvent}
      /\ v.walkTaskEvent = w.walkTaskEvent /\ v.actionTaskEvent = 0
      /\ v.sinceStop = w.sinceStop /\ v.cancelNextWalk = w.cancelNextWalk
      /\ v.listWalkDir = w.listWalkDir /\ v.walkTask = w.walkTask
  BY <1>1 DEF InOrder, Walkers
<1> HIDE DEF v
<1>3. /\ \A e \in v.armed : e.run # "walk" => e.id \in {v.walkTaskEvent, v.actionTaskEvent}
      /\ v.walkTask # NoTask => \A e \in v.armed : e.id # v.walkTaskEvent
      /\ v.eventWalk # 0 => \A e \in w.armed : e.id = w.eventWalk => e \in v.armed
      /\ \A e \in v.armed : e.id \notin ActionIds
  BY <1>2, Kinds DEF InOrder, Walkers
<1>4. InOrder(v) /\ Linked(w, v) /\ \A ids \in SUBSET Ids : IdLeft(w, ids) => IdLeft(v, ids)
  BY <1>2, <1>3, Stopped
<1> QED BY <1>2, <1>3, <1>4 DEF v

\* The action that waited is stopped before its successor is armed.
LEMMA NextActionKeeps ==
    ASSUME NEW w, InOrder(w), IdLeft(w, WalkIds), IdLeft(w, ActionIds), NEW task \in Task
    PROVE  LET v == SetNextActionTask(w, task)
           IN  /\ Keeps(w, v)
               /\ v.sinceStop = w.sinceStop /\ v.cancelNextWalk = w.cancelNextWalk
<1> DEFINE u == SetNextActionTask(w, NoTask)
           id == FreshId(u, ActionIds)
           v == SetNextActionTask(w, task)
<1>1. /\ InOrder(u) /\ Linked(w, u) /\ IdLeft(u, WalkIds) /\ IdLeft(u, ActionIds)
      /\ u.sinceStop = w.sinceStop /\ u.cancelNextWalk = w.cancelNextWalk
      /\ u.actionTaskEvent = 0 /\ \A e \in u.armed : e.id \notin ActionIds
  BY NoActionKeeps, Kinds
<1>2. v = [AddEvent(u, task, ActionIds) EXCEPT !.actionTaskEvent = id]
  <2>1. task # NoTask
    BY Kinds
  <2> QED BY <2>1 DEF SetNextActionTask
<1> HIDE DEF u
<1>3. id \in ActionIds
  BY <1>1, FreshIdFound
<1> DEFINE new == [run |-> task, id |-> id, dirs |-> 0]
<1>4. v = [u EXCEPT !.armed = u.armed \cup {new}, !.actionTaskEvent = id]
  BY <1>1, <1>2 DEF AddEvent, Work, InOrder, Walkers
<1> HIDE DEF v, id
<1>5. new \in [run : Task \cup {"walk"}, id : Ids, dirs : {0}]
  BY <1>3, Kinds
<1>6. new.run = task /\ new.id = id
  OBVIOUS
<1> HIDE DEF new
<1>7. /\ v \in Walkers /\ v.armed = u.armed \cup {new} /\ v.eventWalk = u.eventWalk
      /\ v.walkTaskEvent = u.walkTaskEvent /\ v.actionTaskEvent = id
      /\ v.walkTask = u.walkTask
      /\ v.sinceStop = u.sinceStop /\ v.cancelNextWalk = u.cancelNextWalk
  BY <1>1, <1>3, <1>4, <1>5, Kinds DEF InOrder, Walkers
<1>8. InOrder(v)
  <2>1. \A e \in v.armed : \/ e.run = "walk" /\ e.id \in WalkIds
                           \/ e.run \in Task /\ e.id \in {v.walkTaskEvent, v.actionTaskEvent}
    BY <1>1, <1>3, <1>6, <1>7, Kinds DEF InOrder, Walkers
  <2>2. \A e, f \in v.armed : e.id = f.id => e = f
    BY <1>1, <1>3, <1>6, <1>7 DEF InOrder
  <2>3. v.walkTask # NoTask => \A e \in v.armed : e.id # v.walkTaskEvent
    BY <1>1, <1>3, <1>6, <1>7, Kinds DEF InOrder
  <2> QED BY <1>1, <1>3, <1>7, <2>1, <2>2, <2>3 DEF InOrder
<1>9. Linked(u, v)
  BY <1>7 DEF Linked
<1>10. IdLeft(v, WalkIds)
  <2>1. PICK i \in WalkIds : Unused(u, i)
    BY <1>1 DEF IdLeft
  <2>2. Unused(v, i)
    BY <1>3, <1>6, <1>7, <2>1, Kinds DEF Unused
  <2> QED BY <2>2 DEF IdLeft
<1>11. Keeps(w, v)
  BY <1>1, <1>8, <1>9, <1>10, LinkedTransitive DEF Keeps
<1> QED BY <1>1, <1>7, <1>11 DEF v

\* A walk that has no timer gets one.
LEMMA AddEventWalkKeeps ==
    ASSUME NEW w, InOrder(w), IdLeft(w, WalkIds)
    PROVE  LET v == AddEventWalk(w)
           IN  /\ InOrder(v) /\ Linked(w, v) /\ v.sinceStop = w.sinceStop
               /\ w.eventWalk = 0 => Chained(v)
<1> DEFINE v == AddEventWalk(w)
<1>1. CASE w.eventWalk # 0
  <2>1. v = [w EXCEPT !.cancelNextWalk = FALSE]
    BY <1>1 DEF AddEventWalk
  <2>2. /\ v \in Walkers /\ v.armed = w.armed /\ v.eventWalk = w.eventWalk
        /\ v.walkTaskEvent = w.walkTaskEvent /\ v.actionTaskEvent = w.actionTaskEvent
        /\ v.walkTask = w.walkTask /\ v.sinceStop = w.sinceStop
    BY <2>1 DEF InOrder, Walkers
  <2> HIDE DEF v
  <2>3. Keeps(w, v)
    BY <2>2, OtherFields
  <2> QED BY <1>1, <2>2, <2>3 DEF v, Keeps
<1>2. CASE w.eventWalk = 0
  <2> DEFINE id == FreshId(w, WalkIds)
             clear == [w EXCEPT !.cancelNextWalk = FALSE]
  <2>1. FreshId(clear, WalkIds) = id
    <3>1. \A i \in WalkIds : Unused(clear, i) <=> Unused(w, i)
      BY DEF Unused, InOrder, Walkers
    <3> QED BY <3>1 DEF FreshId
  <2> DEFINE new == [run |-> "walk", id |-> id, dirs |-> 0]
  <2>2. v = [w EXCEPT !.cancelNextWalk = FALSE, !.armed = w.armed \cup {new}, !.eventWalk = id]
    BY <1>2, <2>1 DEF AddEventWalk, AddEvent, Work, InOrder, Walkers
  <2>3. id \in WalkIds /\ \A e \in w.armed : e.id # id
    BY FreshIdFound DEF Unused
  <2> HIDE DEF v, id
  <2>4. new \in [run : Task \cup {"walk"}, id : Ids, dirs : {0}] /\ new.run = "walk" /\ new.id = id
    BY <2>3, Kinds
  <2> HIDE DEF new
  <2>5. /\ v \in Walkers /\ v.armed = w.armed \cup {new} /\ v.eventWalk = id
        /\ v.walkTaskEvent = w.walkTaskEvent /\ v.actionTaskEvent = w.actionTaskEvent
        /\ v.walkTask = w.walkTask /\ v.sinceStop = w.sinceStop
    BY <2>2, <2>3, <2>4, Kinds DEF InOrder, Walkers
  <2>6. InOrder(v)
    BY <2>3, <2>4, <2>5, Kinds DEF InOrder
  <2>7. Chained(v)
    BY <2>4, <2>5 DEF Chained
  <2> QED BY <2>5, <2>6, <2>7 DEF v, Linked
<1> QED BY <1>1, <1>2

\* The walk is complete: the action that waited for it is armed.
LEMMA WalkCompleteKeeps ==
    ASSUME NEW w, InOrder(w), IdLeft(w, WalkIds), IdLeft(w, WalkTaskIds)
    PROVE  LET v == OnWalkComplete(w)
           IN  /\ Keeps(w, v)
               /\ v.sinceStop = w.sinceStop /\ v.cancelNextWalk = w.cancelNextWalk
<1> DEFINE v == OnWalkComplete(w)
<1>1. CASE w.walkTask = NoTask
  BY <1>1 DEF OnWalkComplete, Keeps, Linked
<1>2. CASE w.walkTask # NoTask
  <2> DEFINE id == FreshId(w, WalkTaskIds)
             new == [run |-> w.walkTask, id |-> id, dirs |-> 0]
  <2>1. v = [w EXCEPT !.armed = w.armed \cup {new}, !.walkTaskEvent = id, !.walkTask = NoTask]
    BY <1>2 DEF OnWalkComplete, AddEvent, Work, InOrder, Walkers
  <2>2. id \in WalkTaskIds /\ \A e \in w.armed : e.id # id
    BY FreshIdFound DEF Unused
  <2> HIDE DEF v, id
  <2>3. /\ new \in [run : Task \cup {"walk"}, id : Ids, dirs : {0}]
        /\ new.run \in Task /\ new.id = id
    BY <1>2, <2>2, Kinds DEF InOrder, Walkers
  <2> HIDE DEF new
  <2>4. /\ v \in Walkers /\ v.armed = w.armed \cup {new} /\ v.eventWalk = w.eventWalk
        /\ v.walkTaskEvent = id /\ v.actionTaskEvent = w.actionTaskEvent
        /\ v.walkTask = NoTask
        /\ v.sinceStop = w.sinceStop /\ v.cancelNextWalk = w.cancelNextWalk
    BY <2>1, <2>2, <2>3, Kinds DEF InOrder, Walkers
  <2>5. InOrder(v)
    <3>1. \A e \in v.armed : \/ e.run = "walk" /\ e.id \in WalkIds
                             \/ e.run \in Task /\ e.id \in {v.walkTaskEvent, v.actionTaskEvent}
      BY <1>2, <2>3, <2>4 DEF InOrder
    <3> QED BY <2>2, <2>3, <2>4, <3>1 DEF InOrder
  <2>6. Linked(w, v)
    BY <2>4 DEF Linked
  <2>7. IdLeft(v, WalkIds)
    <3>1. PICK i \in WalkIds : Unused(w, i)
      BY DEF IdLeft
    <3>2. Unused(v, i)
      BY <2>2, <2>3, <2>4, <3>1, Kinds DEF Unused
    <3> QED BY <3>2 DEF IdLeft
  <2> QED BY <2>4, <2>5, <2>6, <2>7 DEF v, Keeps
<1> QED BY <1>1, <1>2

\* What onWalk does before it re-arms.  OnWalkComplete needs an id for the action that
\* waited; a step that follows a stop is counted, and there was none before.
LEMMA WalkedKeeps ==
    ASSUME NEW w, InOrder(w), Stopping(w), w.sinceStop \in {0, 1}, IdLeft(w, WalkIds),
           w.listWalkDir > 0 \/ IdLeft(w, WalkTaskIds), NEW outcome \in Outcome
    PROVE  LET v == Walked(w, outcome)
           IN  /\ Keeps(w, v) /\ Stopping(v) /\ v.eventWalk \in {0, w.eventWalk}
<1> DEFINE v == Walked(w, outcome)
<1>1. CASE outcome = "early"
  BY <1>1 DEF Walked, Keeps, Linked
<1>2. CASE outcome # "early" /\ w.listWalkDir > 0
  <2> DEFINE u == SetNextActionTask(w, NoTask)
             there == [u EXCEPT !.listWalkDir = @ - 1,
                                !.sinceStop = IF @ \in {1, 2} THEN @ + 1 ELSE @]
  <2>1. /\ InOrder(u) /\ Linked(w, u) /\ IdLeft(u, WalkIds)
        /\ u.sinceStop = w.sinceStop /\ u.cancelNextWalk = w.cancelNextWalk
        /\ u.listWalkDir = w.listWalkDir /\ u.eventWalk = w.eventWalk
    BY NoActionKeeps, Kinds
  <2>2. v = IF outcome = "jumped" THEN StopEventWalk(there) ELSE there
    BY <1>2 DEF Walked, Step
  <2> HIDE DEF u
  <2>3. w.listWalkDir \in 0 .. MaxWalk /\ w.listWalkDir - 1 \in 0 .. MaxWalk
    <3>1. w.listWalkDir \in 0 .. MaxWalk
      BY DEF InOrder, Walkers
    <3> QED BY <1>2, <3>1, Kinds
  <2>4. /\ there \in Walkers /\ there.armed = u.armed /\ there.eventWalk = u.eventWalk
        /\ there.walkTaskEvent = u.walkTaskEvent /\ there.actionTaskEvent = u.actionTaskEvent
        /\ there.walkTask = u.walkTask /\ there.cancelNextWalk = u.cancelNextWalk
        /\ there.sinceStop = IF w.sinceStop = 1 THEN 2 ELSE 0
    <3> DEFINE left == u.listWalkDir - 1
               steps == IF u.sinceStop \in {1, 2} THEN u.sinceStop + 1 ELSE u.sinceStop
    <3>1. left \in 0 .. MaxWalk
      BY <2>1, <2>3
    <3>2. steps = (IF w.sinceStop = 1 THEN 2 ELSE 0) /\ steps \in 0 .. 3
      BY <2>1
    <3>3. there = [u EXCEPT !.listWalkDir = left, !.sinceStop = steps]
      OBVIOUS
    <3> HIDE DEF left, steps, there
    <3>4. u \in Walkers
      BY <2>1 DEF InOrder
    <3>5. /\ there \in Walkers /\ there.armed = u.armed /\ there.eventWalk = u.eventWalk
          /\ there.walkTaskEvent = u.walkTaskEvent /\ there.actionTaskEvent = u.actionTaskEvent
          /\ there.walkTask = u.walkTask /\ there.cancelNextWalk = u.cancelNextWalk
          /\ there.sinceStop = steps
      BY <3>1, <3>2, <3>3, <3>4 DEF Walkers
    <3> QED BY <3>2, <3>5
  <2> HIDE DEF there
  <2>5. Keeps(u, there) /\ Stopping(there)
    BY <2>1, <2>4, OtherFields DEF Stopping
  <2>6. Keeps(w, there)
    BY <2>1, <2>5, LinkedTransitive DEF Keeps
  <2>7. CASE outcome = "jumped"
    <3>1. /\ Keeps(there, StopEventWalk(there)) /\ StopEventWalk(there).eventWalk = 0
      BY <2>5, StopEventWalkKeeps DEF Keeps
    <3>2. /\ StopEventWalk(there).sinceStop = there.sinceStop
          /\ StopEventWalk(there).cancelNextWalk = there.cancelNextWalk
      BY <2>4 DEF StopEventWalk, StopTimer, Walkers
    <3> QED BY <2>2, <2>5, <2>6, <2>7, <3>1, <3>2, KeepsTransitive DEF Stopping
  <2>8. CASE outcome # "jumped"
    BY <2>1, <2>2, <2>4, <2>5, <2>6, <2>8
  <2> QED BY <2>7, <2>8
<1>3. CASE outcome # "early" /\ ~(w.listWalkDir > 0)
  <2> DEFINE u == OnWalkComplete(w)
  <2>1. v = StopEventWalk(u)
    BY <1>3 DEF Walked
  <2>2. /\ Keeps(w, u) /\ u.sinceStop = w.sinceStop /\ u.cancelNextWalk = w.cancelNextWalk
    BY <1>3, WalkCompleteKeeps
  <2> HIDE DEF u
  <2>3. Keeps(u, StopEventWalk(u)) /\ StopEventWalk(u).eventWalk = 0
    BY <2>2, StopEventWalkKeeps DEF Keeps
  <2>4. /\ StopEventWalk(u).sinceStop = u.sinceStop
        /\ StopEventWalk(u).cancelNextWalk = u.cancelNextWalk
    BY <2>2 DEF StopEventWalk, StopTimer, Keeps, InOrder, Walkers
  <2> QED BY <2>1, <2>2, <2>3, <2>4, KeepsTransitive DEF Stopping
<1> QED BY <1>1, <1>2, <1>3

\* Whether the walk was cancelled or not, no request to stop it is left.
LEMMA CancelWalkKeeps ==
    ASSUME NEW w, InOrder(w), Stopping(w), IdLeft(w, WalkIds)
    PROVE  LET v == CancelWalk(w)
           IN  Keeps(w, v) /\ v.sinceStop = 0 /\ v.eventWalk = w.eventWalk
<1> DEFINE v == CancelWalk(w)
<1>1. CASE ~w.cancelNextWalk
  BY <1>1 DEF CancelWalk, Stopping, Keeps, Linked
<1>2. CASE w.cancelNextWalk
  <2> DEFINE u == [w EXCEPT !.listWalkDir = 0, !.cancelNextWalk = FALSE, !.sinceStop = 0]
  <2>1. v = SetNextWalkActionTask(u, NoTask)
    BY <1>2 DEF CancelWalk, OnWalkAborted
  <2>2. /\ u \in Walkers /\ u.armed = w.armed /\ u.eventWalk = w.eventWalk
        /\ u.walkTaskEvent = w.walkTaskEvent /\ u.actionTaskEvent = w.actionTaskEvent
        /\ u.walkTask = w.walkTask /\ u.sinceStop = 0
    <3>1. w \in Walkers /\ 0 \in 0 .. MaxWalk /\ 0 \in 0 .. 3
      BY Kinds DEF InOrder
    <3>2. u = WalkFields(w, 0, FALSE, 0)
      BY DEF WalkFields
    <3>3. u \in Walkers
      BY <3>1, <3>2, WalkFieldsType, Zenon
    <3>4. /\ u.armed = w.armed /\ u.eventWalk = w.eventWalk
          /\ u.walkTaskEvent = w.walkTaskEvent /\ u.actionTaskEvent = w.actionTaskEvent
          /\ u.walkTask = w.walkTask /\ u.sinceStop = 0
      BY <3>1 DEF Walkers
    <3> QED BY <3>3, <3>4
  <2> HIDE DEF u
  <2>3. Keeps(w, u)
    BY <2>2, OtherFields
  <2>4. /\ Keeps(u, SetNextWalkActionTask(u, NoTask))
        /\ SetNextWalkActionTask(u, NoTask).sinceStop = 0
        /\ SetNextWalkActionTask(u, NoTask).eventWalk = w.eventWalk
    BY <2>2, <2>3, NextWalkActionKeeps, Kinds DEF Keeps
  <2> QED BY <2>1, <2>3, <2>4, KeepsTransitive
<1> QED BY <1>1, <1>2

\* Whatever timer eventWalk named, the one it names now is armed.
LEMMA RearmKeeps ==
    ASSUME NEW w, InOrder(w), IdLeft(w, WalkIds)
    PROVE  LET v == Rearm(w)
           IN  /\ InOrder(v) /\ (v.eventWalk = 0 \/ Chained(v)) /\ v.sinceStop = w.sinceStop
               /\ w.eventWalk = 0 => v = w
<1>1. CASE w.eventWalk = 0
  BY <1>1 DEF Rearm
<1>2. CASE w.eventWalk # 0
  <2> DEFINE u == [w EXCEPT !.eventWalk = 0]
  <2>1. Rearm(w) = AddEventWalk(u)
    BY <1>2 DEF Rearm
  <2>2. /\ u \in Walkers /\ u.armed = w.armed /\ u.eventWalk = 0
        /\ u.walkTaskEvent = w.walkTaskEvent /\ u.actionTaskEvent = w.actionTaskEvent
        /\ u.walkTask = w.walkTask /\ u.sinceStop = w.sinceStop
    BY DEF InOrder, Walkers
  <2> HIDE DEF u
  <2>3. /\ \A e \in u.armed : e.run # "walk" => e.id \in {u.walkTaskEvent, u.actionTaskEvent}
        /\ u.walkTask # NoTask => \A e \in u.armed : e.id # u.walkTaskEvent
    BY <2>2 DEF InOrder
  <2>4. InOrder(u) /\ IdLeft(u, WalkIds)
    BY <2>2, <2>3, Stopped, Kinds
  <2> QED BY <1>2, <2>1, <2>2, <2>4, AddEventWalkKeeps
<1> QED BY <1>1, <1>2

\* The walk goes on or is over; if it had no timer it has none now.
LEMMA OnWalkKeeps ==
    ASSUME NEW w, InOrder(w), Stopping(w), w.sinceStop \in {0, 1}, IdLeft(w, WalkIds),
           w.listWalkDir > 0 \/ IdLeft(w, WalkTaskIds), NEW outcome \in Outcome
    PROVE  LET v == OnWalk(w, outcome)
           IN  /\ InOrder(v) /\ (v.eventWalk = 0 \/ Chained(v)) /\ v.sinceStop = 0
               /\ w.eventWalk = 0 => IdLeft(v, WalkIds) /\ v.eventWalk = 0
<1> DEFINE a == Walked(w, outcome)
           b == CancelWalk(a)
           v == OnWalk(w, outcome)
<1>1. Keeps(w, a) /\ Stopping(a) /\ a.eventWalk \in {0, w.eventWalk}
  BY WalkedKeeps
<1>2. v = Rearm(b)
  BY DEF OnWalk
<1> HIDE DEF a
<1>3. Keeps(a, b) /\ b.sinceStop = 0 /\ b.eventWalk = a.eventWalk
  BY <1>1, CancelWalkKeeps DEF Keeps
<1> HIDE DEF b
<1>4. /\ InOrder(v) /\ (v.eventWalk = 0 \/ Chained(v)) /\ v.sinceStop = 0
      /\ b.eventWalk = 0 => v = b
  BY <1>2, <1>3, RearmKeeps DEF Keeps
<1> QED BY <1>1, <1>3, <1>4 DEF Keeps

\* startAutoWalk takes back a stop and leaves the walk with a timer.
LEMMA StartAutoWalkKeeps ==
    ASSUME NEW w, InOrder(w), IdLeft(w, WalkIds), NEW dirs \in 0 .. MaxWalk, NEW outcome \in Outcome
    PROVE  LET v == StartAutoWalk(w, dirs, outcome)
           IN  InOrder(v) /\ Linked(w, v) /\ v.sinceStop = 0
<1> DEFINE new == [w EXCEPT !.listWalkDir = dirs, !.cancelNextWalk = FALSE, !.sinceStop = 0]
           v == StartAutoWalk(w, dirs, outcome)
<1>1. v = IF dirs = 1 /\ w.eventWalk = 0 /\ outcome # "early"
          THEN AddEventWalk(OnWalk(new, outcome)) ELSE AddEventWalk(new)
  BY DEF StartAutoWalk
<1>2. /\ new \in Walkers /\ new.armed = w.armed /\ new.eventWalk = w.eventWalk
      /\ new.walkTaskEvent = w.walkTaskEvent /\ new.actionTaskEvent = w.actionTaskEvent
      /\ new.walkTask = w.walkTask /\ new.sinceStop = 0 /\ new.listWalkDir = dirs
  <2>1. w \in Walkers /\ 0 \in 0 .. 3
    BY DEF InOrder
  <2>2. new = WalkFields(w, dirs, FALSE, 0)
    BY DEF WalkFields
  <2>3. new \in Walkers
    BY <2>1, <2>2, WalkFieldsType, Zenon
  <2>4. /\ new.armed = w.armed /\ new.eventWalk = w.eventWalk
        /\ new.walkTaskEvent = w.walkTaskEvent /\ new.actionTaskEvent = w.actionTaskEvent
        /\ new.walkTask = w.walkTask /\ new.sinceStop = 0 /\ new.listWalkDir = dirs
    BY <2>1 DEF Walkers
  <2> QED BY <2>3, <2>4
<1> HIDE DEF new, v
<1>3. Keeps(w, new)
  BY <1>2, OtherFields
<1>4. CASE dirs = 1 /\ w.eventWalk = 0 /\ outcome # "early"
  <2> DEFINE u == OnWalk(new, outcome)
  <2>1. new.listWalkDir > 0 /\ Stopping(new)
    BY <1>2, <1>4 DEF Stopping
  <2>2. InOrder(u) /\ u.sinceStop = 0 /\ IdLeft(u, WalkIds) /\ u.eventWalk = 0
    BY <1>2, <1>3, <1>4, <2>1, OnWalkKeeps DEF Keeps
  <2>3. v = AddEventWalk(u)
    BY <1>1, <1>4
  <2> HIDE DEF u
  <2> QED BY <2>2, <2>3, AddEventWalkKeeps DEF v, Linked
<1>5. CASE v = AddEventWalk(new)
  <2>1. InOrder(v) /\ Linked(new, v) /\ v.sinceStop = 0
    BY <1>2, <1>3, <1>5, AddEventWalkKeeps DEF Keeps
  <2> QED BY <1>3, <2>1, LinkedTransitive DEF Keeps, v
<1> QED BY <1>1, <1>4, <1>5

\* stopWalk touches no timer, and begins to count.
LEMMA StopWalkKeeps ==
    ASSUME NEW w, InOrder(w), IdLeft(w, WalkIds)
    PROVE  LET v == StopWalk(w)
           IN  Keeps(w, v) /\ Stopping(v) /\ v.sinceStop = 1
<1> DEFINE v == StopWalk(w)
<1>1. /\ v \in Walkers /\ v.armed = w.armed /\ v.eventWalk = w.eventWalk
      /\ v.walkTaskEvent = w.walkTaskEvent /\ v.actionTaskEvent = w.actionTaskEvent
      /\ v.walkTask = w.walkTask /\ v.sinceStop = 1 /\ v.cancelNextWalk
  <2>1. w \in Walkers /\ 1 \in 0 .. 3 /\ w.listWalkDir \in 0 .. MaxWalk
    BY DEF InOrder, Walkers
  <2>2. v = WalkFields(w, w.listWalkDir, TRUE, 1)
    BY <2>1 DEF StopWalk, WalkFields, Walkers
  <2>3. v \in Walkers
    BY <2>1, <2>2, WalkFieldsType, Zenon
  <2>4. /\ v.armed = w.armed /\ v.eventWalk = w.eventWalk
        /\ v.walkTaskEvent = w.walkTaskEvent /\ v.actionTaskEvent = w.actionTaskEvent
        /\ v.walkTask = w.walkTask /\ v.sinceStop = 1 /\ v.cancelNextWalk
    BY <2>1 DEF StopWalk, Walkers
  <2> QED BY <2>3, <2>4
<1> HIDE DEF v
<1>2. Keeps(w, v) /\ Stopping(v)
  BY <1>1, OtherFields DEF Stopping
<1> QED BY <1>1, <1>2 DEF v

-----------------------------------------------------------------------------
(* The invariant *)

\* Between two tasks: the fields are in order, a request to stop is young, what waits
\* in the list is the walk or has no id, and the walk's timer is on its way.
WalkInv ==
    /\ InOrder(walker) /\ Stopping(walker) /\ walker.sinceStop \in {0, 1}
    /\ tasks \in Seq(Works)
    /\ \A n \in DOMAIN tasks : tasks[n].run # "walk" => tasks[n].id = 0
    /\ WalkChained

\* The invariant is strong enough for both properties.
LEMMA WalkInvSuffices == WalkInv => WalkSound /\ StopHonoured
<1> SUFFICES ASSUME WalkInv PROVE WalkSound /\ StopHonoured
  OBVIOUS
<1>1. TypeOKWalk
  BY DEF WalkInv, TypeOKWalk, InOrder
<1>2. ActionsKnown
  BY Kinds DEF WalkInv, InOrder, ActionsKnown
<1>3. StopHonoured
  BY DEF WalkInv, StopHonoured
<1> QED BY <1>1, <1>2, <1>3 DEF WalkSound, WalkInv

\* The list without its head, and with one more task behind.
LEMMA HeadAndTail ==
    ASSUME NEW s \in Seq(Works), s # <<>>
    PROVE  /\ Head(s) = s[1] /\ Head(s) \in Works /\ 1 \in DOMAIN s
           /\ Tail(s) \in Seq(Works) /\ DOMAIN Tail(s) = 1 .. Len(s) - 1
           /\ \A n \in DOMAIN Tail(s) : Tail(s)[n] = s[n + 1] /\ n + 1 \in DOMAIN s
           /\ \A n \in DOMAIN s \ {1} : s[n] = Tail(s)[n - 1] /\ n - 1 \in DOMAIN Tail(s)
<1>1. Len(s) \in Nat /\ Len(s) > 0 /\ DOMAIN s = 1 .. Len(s)
  OBVIOUS
<1>2. Head(s) = s[1] /\ Head(s) \in Works /\ 1 \in DOMAIN s
  BY <1>1
<1>3. /\ Tail(s) \in Seq(Works) /\ Len(Tail(s)) = Len(s) - 1
      /\ \A n \in 1 .. Len(s) - 1 : Tail(s)[n] = s[n + 1]
  BY <1>1
<1>4. DOMAIN Tail(s) = 1 .. Len(s) - 1
  BY <1>3
<1>5. \A n \in 2 .. Len(s) : s[n] = Tail(s)[n - 1]
  BY <1>1, <1>3
<1> QED BY <1>1, <1>2, <1>3, <1>4, <1>5

\* What is in a list of tasks after one was added at its end,
LEMMA Appended ==
    ASSUME NEW s \in Seq(Works), NEW x \in Works
    PROVE  /\ Append(s, x) \in Seq(Works)
           /\ \A n \in DOMAIN s : Append(s, x)[n] = s[n] /\ n \in DOMAIN Append(s, x)
           /\ \A n \in DOMAIN Append(s, x) : n \in DOMAIN s \/ Append(s, x)[n] = x
  OBVIOUS

\* and at its head, where every other task moves by one.
LEMMA Prepended ==
    ASSUME NEW s \in Seq(Works), NEW x \in Works
    PROVE  /\ <<x>> \o s \in Seq(Works)
           /\ (<<x>> \o s)[1] = x /\ 1 \in DOMAIN (<<x>> \o s)
           /\ \A n \in DOMAIN s : (<<x>> \o s)[n + 1] = s[n] /\ n + 1 \in DOMAIN (<<x>> \o s)
           /\ \A n \in DOMAIN (<<x>> \o s) \ {1} :
                 (<<x>> \o s)[n] = s[n - 1] /\ n - 1 \in DOMAIN s
<1>1. /\ <<x>> \o s \in Seq(Works) /\ Len(<<x>> \o s) = Len(s) + 1 /\ Len(s) \in Nat
      /\ DOMAIN (<<x>> \o s) = 1 .. Len(s) + 1 /\ DOMAIN s = 1 .. Len(s)
      /\ \A n \in 1 .. Len(s) + 1 : (<<x>> \o s)[n] = IF n = 1 THEN x ELSE s[n - 1]
  OBVIOUS
<1> QED BY <1>1

\* A handler of any task but the walk's own: it takes the head of the list, and may
\* put a task of no timer behind.
LEMMA HandlerDone ==
    ASSUME WalkInv, tasks # <<>>, Head(tasks).run # "walk", walker.online,
           InOrder(walker'), Stopping(walker'), walker'.sinceStop \in {0, 1},
           Linked(walker, walker'),
           \/ tasks' = Tail(tasks)
           \/ \E x \in Works : x.id = 0 /\ tasks' = Append(Tail(tasks), x)
    PROVE  WalkInv'
<1>1. /\ Tail(tasks) \in Seq(Works) /\ tasks[1].id = 0
      /\ \A n \in DOMAIN Tail(tasks) : Tail(tasks)[n] = tasks[n + 1] /\ n + 1 \in DOMAIN tasks
      /\ \A n \in DOMAIN tasks \ {1} : tasks[n] = Tail(tasks)[n - 1] /\ n - 1 \in DOMAIN Tail(tasks)
  BY HeadAndTail DEF WalkInv
<1>2. /\ tasks' \in Seq(Works)
      /\ \A n \in DOMAIN Tail(tasks) : tasks'[n] = Tail(tasks)[n] /\ n \in DOMAIN tasks'
      /\ \A n \in DOMAIN tasks' : n \in DOMAIN Tail(tasks) \/ tasks'[n].id = 0
  BY <1>1, Appended
<1>3. \A n \in DOMAIN tasks' : tasks'[n].run # "walk" => tasks'[n].id = 0
  BY <1>1, <1>2 DEF WalkInv
<1>4. ASSUME walker'.eventWalk # 0 PROVE Alive(walker.eventWalk)'
  <2>1. CASE Chained(walker')
    BY <2>1 DEF Chained, Alive
  <2>2. CASE /\ walker'.eventWalk = walker.eventWalk
             /\ \A e \in walker.armed : e.id = walker.eventWalk => e \in walker'.armed
    <3>1. Alive(walker.eventWalk)
      BY <1>4, <2>2 DEF WalkInv, WalkChained
    <3>2. ASSUME NEW n \in DOMAIN tasks, tasks[n].id = walker.eventWalk
          PROVE  \E k \in DOMAIN tasks' : tasks'[k].id = walker'.eventWalk
      <4>1. n # 1
        BY <1>1, <1>4, <2>2, <3>2
      <4>2. n - 1 \in DOMAIN tasks' /\ tasks'[n - 1].id = walker'.eventWalk
        BY <1>1, <1>2, <2>2, <3>2, <4>1
      <4> QED BY <4>2
    <3> QED BY <2>2, <3>1, <3>2 DEF Alive
  <2> QED BY <1>4, <2>1, <2>2 DEF Linked
<1> QED BY <1>2, <1>3, <1>4 DEF WalkInv, WalkChained

\* What a handler finds when it begins.
LEMMA Running ==
    ASSUME WalkInv, NEW run, Run(run)
    PROVE  /\ tasks # <<>> /\ Head(tasks).run = run /\ walker.online /\ Head(tasks) \in Works
           /\ IdLeft(walker, WalkIds) /\ IdLeft(walker, WalkTaskIds) /\ IdLeft(walker, ActionIds)
  BY HeadAndTail DEF Run, IdsLeft, IdLeft, WalkInv

\* A handler that leaves the request to stop as it was, took it back, or made it.
LEMMA Served ==
    ASSUME WalkInv, NEW run, Run(run), run # "walk",
           InOrder(walker'), Linked(walker, walker'),
           \/ /\ walker'.sinceStop = walker.sinceStop
              /\ walker.cancelNextWalk => walker'.cancelNextWalk
           \/ walker'.sinceStop = 0
           \/ walker'.sinceStop = 1 /\ walker'.cancelNextWalk,
           \/ tasks' = Tail(tasks)
           \/ \E x \in Works : x.id = 0 /\ tasks' = Append(Tail(tasks), x)
    PROVE  WalkInv'
<1>1. Stopping(walker') /\ walker'.sinceStop \in {0, 1}
  BY DEF WalkInv, Stopping
<1> QED BY <1>1, Running, HandlerDone

\* A task that is not a timer carries no id.
LEMMA PostedWork ==
    ASSUME NEW run \in {"autoWalk", "follow", "slow", "cure", "leave"} \cup Packet,
           NEW dirs \in 0 .. MaxWalk
    PROVE  Work(run, 0, dirs) \in Works /\ Work(run, 0, dirs).id = 0
  BY DEF Work, Works

\* One lemma for each handler: the fields by the lemmas above, the list by TaskDone or
\* TaskPosted.
LEMMA CheckCreatureWalkKeeps == WalkInv /\ CheckCreatureWalk => WalkInv'
<1> SUFFICES ASSUME WalkInv, CheckCreatureWalk PROVE WalkInv'
  OBVIOUS
<1>1. PICK outcome \in Outcome : walker' = OnWalk(walker, outcome)
  BY DEF CheckCreatureWalk
<1>2. /\ tasks # <<>> /\ IdLeft(walker, WalkIds) /\ IdLeft(walker, WalkTaskIds)
      /\ tasks' = Tail(tasks)
  BY Running DEF CheckCreatureWalk
<1>3. /\ InOrder(walker') /\ (walker'.eventWalk = 0 \/ Chained(walker')) /\ walker'.sinceStop = 0
  BY <1>1, <1>2, OnWalkKeeps DEF WalkInv
<1>4. /\ tasks' \in Seq(Works)
      /\ \A n \in DOMAIN tasks' : tasks'[n].run # "walk" => tasks'[n].id = 0
  BY <1>2, HeadAndTail DEF WalkInv
<1>5. WalkChained'
  BY <1>3 DEF WalkChained, Chained, Alive
<1> QED BY <1>3, <1>4, <1>5 DEF WalkInv, Stopping

\* A single step of the client.
LEMMA PlayerMoveKeeps == WalkInv /\ PlayerMove => WalkInv'
<1> SUFFICES ASSUME WalkInv, PlayerMove PROVE WalkInv'
  OBVIOUS
<1> DEFINE u == SetNextWalkActionTask(walker, NoTask)
<1>1. PICK outcome \in Outcome : walker' = StartAutoWalk(u, 1, outcome)
  BY DEF PlayerMove
<1>2. Run("move") /\ tasks' = Tail(tasks) /\ IdLeft(walker, WalkIds)
  BY Running DEF PlayerMove
<1>3. InOrder(u) /\ Linked(walker, u) /\ IdLeft(u, WalkIds)
  BY <1>2, NextWalkActionKeeps, Kinds DEF WalkInv
<1> HIDE DEF u
<1>4. InOrder(walker') /\ Linked(u, walker') /\ walker'.sinceStop = 0
  <2>1. 1 \in 0 .. MaxWalk
    BY Kinds
  <2> QED BY <1>1, <1>3, <2>1, StartAutoWalkKeeps
<1> QED BY <1>2, <1>3, <1>4, LinkedTransitive, Served

LEMMA PlayerAutoWalkKeeps == WalkInv /\ PlayerAutoWalk => WalkInv'
<1> SUFFICES ASSUME WalkInv, PlayerAutoWalk PROVE WalkInv'
  OBVIOUS
<1>1. PICK outcome \in Outcome : walker' = StartAutoWalk(walker, Head(tasks).dirs, outcome)
  BY DEF PlayerAutoWalk
<1>2. Run("autoWalk") /\ tasks' = Tail(tasks) /\ IdLeft(walker, WalkIds) /\ Head(tasks) \in Works
  BY Running DEF PlayerAutoWalk
<1>3. Head(tasks).dirs \in 0 .. MaxWalk
  BY <1>2 DEF Works
<1>4. InOrder(walker') /\ Linked(walker, walker') /\ walker'.sinceStop = 0
  BY <1>1, <1>2, <1>3, StartAutoWalkKeeps DEF WalkInv
<1> QED BY <1>2, <1>4, Served

LEMMA PlayerStopAutoWalkKeeps == WalkInv /\ PlayerStopAutoWalk => WalkInv'
<1> SUFFICES ASSUME WalkInv, PlayerStopAutoWalk PROVE WalkInv'
  OBVIOUS
<1>1. Run("stop") /\ tasks' = Tail(tasks) /\ IdLeft(walker, WalkIds) /\ walker' = StopWalk(walker)
  BY Running DEF PlayerStopAutoWalk
<1>2. Keeps(walker, walker') /\ walker'.sinceStop = 1 /\ Stopping(walker')
  BY <1>1, StopWalkKeeps DEF WalkInv
<1> QED BY <1>1, <1>2, Served DEF Keeps, Stopping

\* What a refused, a postponed or a distant action does.
LEMMA ActionKeeps ==
    ASSUME WalkInv, NEW run, Run(run), run # "walk", NEW task \in Task,
           \/ Refuse(walker)
           \/ WalkAndRetry(walker, task)
           \/ Refuse(SetNextActionTask(walker, task))
           \/ Refuse(SetNextActionTask(walker, NoTask))
           \/ Refuse(StopWalk(SetNextActionTask(walker, NoTask)))
           \/ WalkAndRetry(SetNextActionTask(walker, NoTask), task)
    PROVE  WalkInv'
<1> DEFINE u == SetNextActionTask(walker, NoTask)
<1>1. IdLeft(walker, WalkIds) /\ IdLeft(walker, ActionIds) /\ InOrder(walker)
  BY Running DEF WalkInv
<1>2. /\ Keeps(walker, u)
      /\ u.sinceStop = walker.sinceStop /\ u.cancelNextWalk = walker.cancelNextWalk
  BY <1>1, NoActionKeeps, Kinds DEF Keeps
<1> HIDE DEF u
<1>3. ASSUME NEW w, InOrder(w), Linked(walker, w), WalkAndRetry(w, task),
             w.sinceStop = walker.sinceStop, w.cancelNextWalk = walker.cancelNextWalk
      PROVE  WalkInv'
  <2>1. PICK dirs \in 0 .. MaxWalk : /\ walker' = SetNextWalkActionTask(w, task)
                                    /\ tasks' = Append(Tail(tasks), Work("autoWalk", 0, dirs))
    BY <1>3 DEF WalkAndRetry, Post
  <2>2. /\ InOrder(walker') /\ Linked(w, walker') /\ walker'.sinceStop = w.sinceStop
        /\ walker'.cancelNextWalk = w.cancelNextWalk
    BY <1>3, <2>1, NextWalkActionKeeps
  <2>3. \E x \in Works : x.id = 0 /\ tasks' = Append(Tail(tasks), x)
    BY <2>1, PostedWork
  <2> QED BY <1>3, <2>2, <2>3, LinkedTransitive, Served
<1>4. Linked(walker, walker)
  BY DEF Linked
<1>5. CASE Refuse(walker)
  BY <1>1, <1>4, <1>5, Served DEF Refuse
<1>6. CASE WalkAndRetry(walker, task)
  BY <1>1, <1>3, <1>4, <1>6
<1>7. CASE Refuse(SetNextActionTask(walker, task))
  BY <1>1, <1>7, NextActionKeeps, Served DEF Refuse, Keeps
<1>8. CASE Refuse(u)
  BY <1>2, <1>8, Served DEF Refuse, Keeps
<1>9. CASE Refuse(StopWalk(u))
  <2>1. /\ walker' = StopWalk(u) /\ tasks' = Tail(tasks)
    BY <1>9 DEF Refuse
  <2>2. Keeps(u, walker') /\ Stopping(walker') /\ walker'.sinceStop = 1
    BY <1>2, <2>1, StopWalkKeeps DEF Keeps
  <2> QED BY <1>2, <2>1, <2>2, KeepsTransitive, Served DEF Keeps, Stopping
<1>10. CASE WalkAndRetry(u, task)
  BY <1>2, <1>3, <1>10 DEF Keeps
<1> QED BY <1>5, <1>6, <1>7, <1>8, <1>9, <1>10 DEF u

\* The three handlers of actions: each replaces the action that waits.
LEMMA ActionsKeep ==
    WalkInv /\ (PlayerUseItem \/ PlayerMoveCreature \/ PlayerMoveThing) => WalkInv'
<1> SUFFICES ASSUME WalkInv, PlayerUseItem \/ PlayerMoveCreature \/ PlayerMoveThing
             PROVE  WalkInv'
  OBVIOUS
<1>1. ASSUME NEW run \in {"use", "push", "moveThing"}, Run(run)
      PROVE  run \in Task \cup Packet
  BY <1>1, Running DEF Works
<1>2. CASE PlayerUseItem
  <2>1. "use" \in Task
    BY <1>1, <1>2, WalkConstants DEF PlayerUseItem
  <2> QED BY <1>2, <2>1, ActionKeeps DEF PlayerUseItem
<1>3. CASE PlayerMoveCreature
  <2>1. "push" \in Task
    BY <1>1, <1>3, WalkConstants DEF PlayerMoveCreature
  <2> QED BY <1>3, <2>1, ActionKeeps DEF PlayerMoveCreature
<1>4. CASE PlayerMoveThing
  <2>1. "push" \in Task
    BY <1>1, <1>4, WalkConstants DEF PlayerMoveThing
  <2> QED BY <1>4, <2>1, ActionKeeps DEF PlayerMoveThing
<1> QED BY <1>2, <1>3, <1>4

\* A new quarry, or none: a walk that is under way is aborted, or will stop.
LEMMA FollowingKeeps ==
    WalkInv /\ (SetFollowCreature \/ ClearFollowCreature \/ GoToFollowCreature) => WalkInv'
<1> SUFFICES ASSUME WalkInv, SetFollowCreature \/ ClearFollowCreature \/ GoToFollowCreature
             PROVE  WalkInv'
  OBVIOUS
<1>1. ASSUME NEW following \in BOOLEAN
      PROVE  LET w == [walker EXCEPT !.following = following]
             IN  /\ InOrder(w) /\ Linked(walker, w)
                 /\ w.sinceStop = walker.sinceStop /\ w.cancelNextWalk = walker.cancelNextWalk
                 /\ IdLeft(walker, WalkIds) => IdLeft(w, WalkIds)
  <2> DEFINE w == [walker EXCEPT !.following = following]
  <2>1. /\ w \in Walkers /\ w.armed = walker.armed /\ w.eventWalk = walker.eventWalk
        /\ w.walkTaskEvent = walker.walkTaskEvent /\ w.actionTaskEvent = walker.actionTaskEvent
        /\ w.walkTask = walker.walkTask
        /\ w.sinceStop = walker.sinceStop /\ w.cancelNextWalk = walker.cancelNextWalk
    BY DEF WalkInv, InOrder, Walkers
  <2> HIDE DEF w
  <2>2. InOrder(w) /\ Linked(walker, w)
    BY <2>1 DEF WalkInv, InOrder, Linked
  <2>3. IdLeft(walker, WalkIds) => IdLeft(w, WalkIds)
    BY <2>1 DEF IdLeft, Unused
  <2> QED BY <2>1, <2>2, <2>3 DEF w
<1>2. CASE SetFollowCreature
  <2> DEFINE w == [walker EXCEPT !.following = TRUE]
             u == [w EXCEPT !.listWalkDir = 0]
  <2>1. /\ InOrder(w) /\ Linked(walker, w) /\ IdLeft(w, WalkIds) /\ Run("chase")
        /\ w.sinceStop = walker.sinceStop /\ w.cancelNextWalk = walker.cancelNextWalk
    BY <1>1, <1>2, Running DEF SetFollowCreature
  <2>2. /\ walker' = IF w.listWalkDir > 0 THEN SetNextWalkActionTask(u, NoTask) ELSE w
        /\ tasks' = Append(Tail(tasks), Work("follow", 0, 0))
    BY <1>2 DEF SetFollowCreature, OnWalkAborted, Post
  <2> HIDE DEF w
  <2>3. /\ InOrder(u) /\ Linked(walker, u)
        /\ u.sinceStop = walker.sinceStop /\ u.cancelNextWalk = walker.cancelNextWalk
    <3>1. 0 \in 0 .. MaxWalk
      BY Kinds
    <3>2. /\ u \in Walkers /\ u.armed = w.armed /\ u.eventWalk = w.eventWalk
          /\ u.walkTaskEvent = w.walkTaskEvent /\ u.actionTaskEvent = w.actionTaskEvent
          /\ u.walkTask = w.walkTask
          /\ u.sinceStop = w.sinceStop /\ u.cancelNextWalk = w.cancelNextWalk
      BY <2>1, <3>1 DEF InOrder, Walkers
    <3> HIDE DEF u
    <3>3. Keeps(w, u)
      BY <2>1, <3>2, OtherFields
    <3> QED BY <2>1, <3>2, <3>3, LinkedTransitive DEF Keeps
  <2> HIDE DEF u
  <2>4. /\ InOrder(walker') /\ Linked(walker, walker') /\ walker'.sinceStop = walker.sinceStop
        /\ walker'.cancelNextWalk = walker.cancelNextWalk
    BY <2>1, <2>2, <2>3, NextWalkActionKeeps, LinkedTransitive, Kinds
  <2>5. \E x \in Works : x.id = 0 /\ tasks' = Append(Tail(tasks), x)
    <3>1. 0 \in 0 .. MaxWalk
      BY Kinds
    <3> QED BY <2>2, <3>1, PostedWork
  <2> QED BY <2>1, <2>4, <2>5, Served
<1>3. CASE ClearFollowCreature
  <2> DEFINE w == [walker EXCEPT !.following = FALSE]
  <2>1. /\ InOrder(w) /\ Linked(walker, w) /\ IdLeft(w, WalkIds) /\ Run("unchase")
    BY <1>1, <1>3, Running DEF ClearFollowCreature
  <2>2. walker' = StopWalk(w) /\ tasks' = Tail(tasks)
    BY <1>3 DEF ClearFollowCreature
  <2> HIDE DEF w
  <2>3. Keeps(w, walker') /\ Stopping(walker') /\ walker'.sinceStop = 1
    BY <2>1, <2>2, StopWalkKeeps
  <2> QED BY <2>1, <2>2, <2>3, LinkedTransitive, Served DEF Keeps, Stopping
<1>4. CASE GoToFollowCreature
  <2>1. Run("follow") /\ tasks' = Tail(tasks) /\ IdLeft(walker, WalkIds) /\ InOrder(walker)
    BY <1>4, Running DEF GoToFollowCreature, WalkInv
  <2>2. CASE walker' = [walker EXCEPT !.listWalkDir = 0]
    <3>1. 0 \in 0 .. MaxWalk
      BY Kinds
    <3>2. /\ walker' \in Walkers /\ walker'.armed = walker.armed
          /\ walker'.eventWalk = walker.eventWalk
          /\ walker'.walkTaskEvent = walker.walkTaskEvent
          /\ walker'.actionTaskEvent = walker.actionTaskEvent
          /\ walker'.walkTask = walker.walkTask
          /\ walker'.sinceStop = walker.sinceStop
          /\ walker'.cancelNextWalk = walker.cancelNextWalk
      BY <2>1, <2>2, <3>1 DEF InOrder, Walkers
    <3>3. Keeps(walker, walker')
      BY <2>1, <3>2, OtherFields
    <3> QED BY <2>1, <3>2, <3>3, Served DEF Keeps
  <2>3. CASE \E dirs \in 0 .. MaxWalk, outcome \in Outcome :
               walker' = StartAutoWalk(walker, dirs, outcome)
    <3>1. InOrder(walker') /\ Linked(walker, walker') /\ walker'.sinceStop = 0
      BY <2>1, <2>3, StartAutoWalkKeeps
    <3> QED BY <2>1, <3>1, Served
  <2>4. CASE walker' = walker
    BY <2>1, <2>4, Served DEF Linked
  <2> QED BY <1>4, <2>2, <2>3, <2>4 DEF GoToFollowCreature
<1> QED BY <1>2, <1>3, <1>4

\* A slow one has no timer until the cure arms one.
LEMMA SetSpeedKeeps == WalkInv /\ SetSpeed => WalkInv'
<1> SUFFICES ASSUME WalkInv, SetSpeed PROVE WalkInv'
  OBVIOUS
<1>1. InOrder(walker) /\ tasks' = Tail(tasks)
  BY DEF WalkInv, SetSpeed
<1>2. CASE /\ Run("slow")
           /\ walker' = [StopEventWalk(walker) EXCEPT !.slow = TRUE, !.cancelNextWalk = TRUE]
  <2> DEFINE u == StopEventWalk(walker)
  <2>1. Keeps(walker, u)
    BY <1>1, <1>2, Running, StopEventWalkKeeps
  <2>2. u.sinceStop = walker.sinceStop
    BY <1>1 DEF StopEventWalk, StopTimer, InOrder, Walkers
  <2>3. walker' = [u EXCEPT !.slow = TRUE, !.cancelNextWalk = TRUE]
    BY <1>2
  <2> HIDE DEF u
  <2>4. /\ walker' \in Walkers /\ walker'.armed = u.armed /\ walker'.eventWalk = u.eventWalk
        /\ walker'.walkTaskEvent = u.walkTaskEvent
        /\ walker'.actionTaskEvent = u.actionTaskEvent
        /\ walker'.walkTask = u.walkTask /\ walker'.sinceStop = u.sinceStop
        /\ walker'.cancelNextWalk
    BY <2>1, <2>3 DEF Keeps, InOrder, Walkers
  <2>5. Keeps(u, walker')
    BY <2>1, <2>4, OtherFields DEF Keeps
  <2> QED BY <1>1, <1>2, <2>1, <2>2, <2>4, <2>5, LinkedTransitive, Served DEF Keeps
<1>3. CASE /\ Run("cure")
           /\ walker' = IF walker.slow /\ walker.listWalkDir > 0
                        THEN AddEventWalk([walker EXCEPT !.slow = FALSE, !.sinceStop = 0])
                        ELSE [walker EXCEPT !.slow = FALSE]
  <2> DEFINE u == [walker EXCEPT !.slow = FALSE, !.sinceStop = 0]
             r == [walker EXCEPT !.slow = FALSE]
  <2>1. /\ u \in Walkers /\ u.armed = walker.armed /\ u.eventWalk = walker.eventWalk
        /\ u.walkTaskEvent = walker.walkTaskEvent
        /\ u.actionTaskEvent = walker.actionTaskEvent
        /\ u.walkTask = walker.walkTask /\ u.sinceStop = 0
    <3>1. walker \in Walkers /\ FALSE \in BOOLEAN /\ 0 \in 0 .. 3
      BY <1>1 DEF InOrder
    <3>2. u \in Walkers
      BY <3>1, CuredType, Zenon DEF Cured
    <3>3. /\ u.armed = walker.armed /\ u.eventWalk = walker.eventWalk
          /\ u.walkTaskEvent = walker.walkTaskEvent
          /\ u.actionTaskEvent = walker.actionTaskEvent
          /\ u.walkTask = walker.walkTask /\ u.sinceStop = 0
      BY <3>1 DEF Walkers
    <3> QED BY <3>2, <3>3
  <2>2. /\ r \in Walkers /\ r.armed = walker.armed /\ r.eventWalk = walker.eventWalk
        /\ r.walkTaskEvent = walker.walkTaskEvent
        /\ r.actionTaskEvent = walker.actionTaskEvent
        /\ r.walkTask = walker.walkTask /\ r.sinceStop = walker.sinceStop
        /\ r.cancelNextWalk = walker.cancelNextWalk
    BY <1>1 DEF InOrder, Walkers
  <2>3. walker' = AddEventWalk(u) \/ walker' = r
    BY <1>3
  <2> HIDE DEF u, r
  <2>4. Keeps(walker, u) /\ Keeps(walker, r)
    BY <1>1, <1>3, <2>1, <2>2, Running, OtherFields
  <2>5. CASE walker' = AddEventWalk(u)
    <3>1. InOrder(walker') /\ Linked(u, walker') /\ walker'.sinceStop = 0
      BY <2>1, <2>4, <2>5, AddEventWalkKeeps DEF Keeps
    <3> QED BY <1>1, <1>3, <2>4, <3>1, LinkedTransitive, Served DEF Keeps
  <2>6. CASE walker' = r
    BY <1>1, <1>3, <2>2, <2>4, <2>6, Served DEF Keeps
  <2> QED BY <2>3, <2>5, <2>6
<1> QED BY <1>2, <1>3 DEF SetSpeed

\* Who has left keeps his fields; nothing has to be alive any more.
LEMMA LeaveKeeps == WalkInv /\ Leave => WalkInv'
<1> SUFFICES ASSUME WalkInv, Leave PROVE WalkInv'
  OBVIOUS
<1>1. InOrder(walker) /\ tasks' = Tail(tasks) /\ Run("leave") /\ IdLeft(walker, WalkIds)
  BY Running DEF WalkInv, Leave
<1> DEFINE cancel == IF walker.eventWalk # 0 THEN TRUE ELSE walker.cancelNextWalk
<1>2. cancel \in BOOLEAN /\ (walker.cancelNextWalk => cancel)
  BY <1>1 DEF InOrder, Walkers
<1>3. walker' = [walker EXCEPT !.online = FALSE, !.following = FALSE, !.cancelNextWalk = cancel]
  BY DEF Leave
<1> HIDE DEF cancel
<1>4. /\ walker' \in Walkers /\ walker'.armed = walker.armed
      /\ walker'.eventWalk = walker.eventWalk
      /\ walker'.walkTaskEvent = walker.walkTaskEvent
      /\ walker'.actionTaskEvent = walker.actionTaskEvent
      /\ walker'.walkTask = walker.walkTask
      /\ walker'.sinceStop = walker.sinceStop
  BY <1>1, <1>2, <1>3 DEF InOrder, Walkers
<1>5. walker'.cancelNextWalk = cancel
  BY <1>1, <1>3 DEF InOrder, Walkers
<1>6. Keeps(walker, walker')
  BY <1>1, <1>4, OtherFields
<1> QED BY <1>1, <1>2, <1>4, <1>5, <1>6, Served DEF Keeps

-----------------------------------------------------------------------------
(* What comes from outside *)

\* A packet is put behind the tasks that wait.
LEMMA ReceiveKeeps == WalkInv /\ (Receive \/ ReceivePath) => WalkInv'
<1> SUFFICES ASSUME WalkInv, Receive \/ ReceivePath PROVE WalkInv'
  OBVIOUS
<1>1. \E x \in Works : x.id = 0 /\ tasks' = Append(tasks, x)
  <2>1. 0 \in 0 .. MaxWalk /\ \A d \in 1 .. MaxWalk : d \in 0 .. MaxWalk
    BY Kinds
  <2> QED BY <2>1, PostedWork DEF Receive, ReceivePath
<1>2. walker' = walker
  BY DEF Receive, ReceivePath
<1>3. /\ tasks' \in Seq(Works)
      /\ \A n \in DOMAIN tasks : tasks'[n] = tasks[n] /\ n \in DOMAIN tasks'
      /\ \A n \in DOMAIN tasks' : n \in DOMAIN tasks \/ tasks'[n].id = 0
  BY <1>1, Appended DEF WalkInv
<1>4. WalkChained'
  BY <1>2, <1>3 DEF WalkInv, WalkChained, Alive
<1> QED BY <1>2, <1>3, <1>4 DEF WalkInv

\* An event passes them: it goes to the head of the list.
LEMMA HappenKeeps == WalkInv /\ Happen => WalkInv'
<1> SUFFICES ASSUME WalkInv, Happen PROVE WalkInv'
  OBVIOUS
<1>1. PICK x \in Works : x.id = 0 /\ tasks' = <<x>> \o tasks
  <2>1. 0 \in 0 .. MaxWalk
    BY Kinds
  <2> QED BY <2>1, PostedWork DEF Happen
<1>2. walker' = walker
  BY DEF Happen
<1>3. /\ tasks' \in Seq(Works) /\ tasks'[1] = x
      /\ \A n \in DOMAIN tasks : tasks'[n + 1] = tasks[n] /\ n + 1 \in DOMAIN tasks'
      /\ \A n \in DOMAIN tasks' \ {1} : tasks'[n] = tasks[n - 1] /\ n - 1 \in DOMAIN tasks
  BY <1>1, Prepended DEF WalkInv
<1>4. WalkChained'
  BY <1>2, <1>3 DEF WalkInv, WalkChained, Alive
<1>5. ASSUME NEW n \in DOMAIN tasks', tasks'[n].run # "walk" PROVE tasks'[n].id = 0
  BY <1>1, <1>3, <1>5 DEF WalkInv
<1> QED BY <1>2, <1>3, <1>4, <1>5 DEF WalkInv

\* A timer that fires: of the walk it keeps its id in the list; of an action the field
\* that held its id, which no other timer has, is cleared.
LEMMA FireKeeps == WalkInv /\ Fire => WalkInv'
<1> SUFFICES ASSUME WalkInv, Fire PROVE WalkInv'
  OBVIOUS
<1> PICK e \in walker.armed :
      /\ walker' = LET id == IF e.run = "walk" THEN 0 ELSE e.id
                   IN  [walker EXCEPT !.armed = @ \ {e},
                            !.walkTaskEvent = IF @ = id THEN 0 ELSE @,
                            !.actionTaskEvent = IF @ = id THEN 0 ELSE @]
      /\ tasks' = <<IF e.run = "walk" THEN e ELSE Work(e.run, 0, 0)>> \o tasks
  BY DEF Fire
<1> DEFINE id == IF e.run = "walk" THEN 0 ELSE e.id
           x == IF e.run = "walk" THEN e ELSE Work(e.run, 0, 0)
           wte == IF walker.walkTaskEvent = id THEN 0 ELSE walker.walkTaskEvent
           ate == IF walker.actionTaskEvent = id THEN 0 ELSE walker.actionTaskEvent
<1>1. InOrder(walker) /\ e \in [run : Task \cup {"walk"}, id : Ids, dirs : {0}]
  BY DEF WalkInv, InOrder, Walkers
<1>2. walker' = [walker EXCEPT !.armed = walker.armed \ {e}, !.walkTaskEvent = wte,
                               !.actionTaskEvent = ate]
  BY <1>1 DEF InOrder, Walkers
<1>3. /\ wte \in WalkTaskIds \cup {0} /\ ate \in ActionIds \cup {0}
      /\ wte \in {0, walker.walkTaskEvent} /\ ate \in {0, walker.actionTaskEvent}
  BY <1>1 DEF InOrder
<1>4. /\ \A f \in walker.armed \ {e} : f.run # "walk" => f.id \in {wte, ate}
      /\ walker.walkTask # NoTask => \A f \in walker.armed \ {e} : f.id # wte
  <2>1. \A f \in walker.armed : f.id # 0 /\ (f.id = e.id => f = e)
    BY <1>1, Kinds DEF InOrder, Walkers
  <2> QED BY <1>1, <2>1 DEF InOrder
<1>5. /\ x \in Works /\ (x.run # "walk" => x.id = 0) /\ (e.run = "walk" => x = e)
  <2>1. 0 \in 0 .. MaxWalk
    BY Kinds
  <2>2. e.run = "walk" => e \in Works
    BY <1>1, <2>1 DEF Works
  <2>3. e.run # "walk" => Work(e.run, 0, 0) \in Works /\ Work(e.run, 0, 0).id = 0
    BY <1>1, <2>1 DEF Works, Work
  <2> QED BY <2>2, <2>3
<1>6. tasks' = <<x>> \o tasks
  OBVIOUS
<1> HIDE DEF x, wte, ate
<1>7. /\ walker' \in Walkers /\ walker'.armed = walker.armed \ {e}
      /\ walker'.eventWalk = walker.eventWalk /\ walker'.online = walker.online
      /\ walker'.walkTaskEvent = wte /\ walker'.actionTaskEvent = ate
      /\ walker'.walkTask = walker.walkTask /\ walker'.sinceStop = walker.sinceStop
      /\ walker'.cancelNextWalk = walker.cancelNextWalk
  <2>1. walker \in Walkers /\ walker.armed \ {e} \in SUBSET walker.armed
        /\ wte \in Ids \cup {0} /\ ate \in Ids \cup {0}
    BY <1>1, <1>3, Kinds DEF InOrder
  <2>2. walker' \in Walkers
    <3>1. Fired(walker, walker.armed \ {e}, wte, ate) \in Walkers
      BY <2>1, FiredType
    <3> QED BY <1>2, <3>1 DEF Fired
  <2>3. /\ walker'.armed = walker.armed \ {e}
        /\ walker'.eventWalk = walker.eventWalk /\ walker'.online = walker.online
        /\ walker'.walkTaskEvent = wte /\ walker'.actionTaskEvent = ate
        /\ walker'.walkTask = walker.walkTask /\ walker'.sinceStop = walker.sinceStop
        /\ walker'.cancelNextWalk = walker.cancelNextWalk
    BY <1>2, <2>1 DEF Walkers
  <2> QED BY <2>2, <2>3
<1>8. InOrder(walker')
  <2>1. \A f \in walker'.armed : \/ f.run = "walk" /\ f.id \in WalkIds
                                 \/ f.run \in Task /\ f.id \in {wte, ate}
    <3> TAKE f \in walker'.armed
    <3>1. f \in walker.armed \ {e}
      BY <1>7
    <3>2. (f.run = "walk" /\ f.id \in WalkIds) \/ f.run \in Task
      BY <1>1, <3>1 DEF InOrder
    <3>3. f.run \in Task => f.run # "walk"
      BY Kinds
    <3> QED BY <1>4, <3>1, <3>2, <3>3
  <2>2. \A f, g \in walker'.armed : f.id = g.id => f = g
    BY <1>1, <1>7 DEF InOrder
  <2>3. walker'.eventWalk \in WalkIds \cup {0}
    BY <1>1, <1>7 DEF InOrder
  <2> QED BY <1>3, <1>4, <1>7, <2>1, <2>2, <2>3 DEF InOrder
<1>9. /\ tasks' \in Seq(Works) /\ tasks'[1] = x /\ 1 \in DOMAIN tasks'
      /\ \A n \in DOMAIN tasks : tasks'[n + 1] = tasks[n] /\ n + 1 \in DOMAIN tasks'
      /\ \A n \in DOMAIN tasks' \ {1} : tasks'[n] = tasks[n - 1] /\ n - 1 \in DOMAIN tasks
  BY <1>5, <1>6, Prepended DEF WalkInv
<1>10. ASSUME NEW n \in DOMAIN tasks', tasks'[n].run # "walk" PROVE tasks'[n].id = 0
  BY <1>5, <1>9, <1>10 DEF WalkInv
<1>11. ASSUME walker'.online, walker'.eventWalk # 0 PROVE Alive(walker.eventWalk)'
  <2>1. Alive(walker.eventWalk)
    BY <1>7, <1>11 DEF WalkInv, WalkChained
  <2>2. CASE \E n \in DOMAIN tasks : tasks[n].id = walker.eventWalk
    BY <1>7, <1>9, <2>2 DEF Alive
  <2>3. CASE \E f \in walker.armed : f.id = walker.eventWalk
    <3> PICK f \in walker.armed : f.id = walker.eventWalk
      BY <2>3
    <3>1. CASE f # e
      BY <1>7, <3>1 DEF Alive
    <3>2. CASE f = e
      <4>1. e.run = "walk"
        <5>1. e.id \in WalkIds
          BY <1>1, <1>7, <1>11, <3>2 DEF InOrder
        <5> QED BY <1>1, <5>1, Kinds DEF InOrder
      <4> QED BY <1>5, <1>7, <1>9, <3>2, <4>1 DEF Alive
    <3> QED BY <3>1, <3>2
  <2> QED BY <2>1, <2>2, <2>3 DEF Alive
<1> QED BY <1>7, <1>8, <1>9, <1>10, <1>11 DEF WalkInv, WalkChained, Stopping

\* The invariant holds in the beginning,
LEMMA WalkStart == WalkInit => WalkInv
<1> SUFFICES ASSUME WalkInit PROVE WalkInv
  OBVIOUS
<1>1. walker \in Walkers
  <2>1. 0 \in 0 .. MaxWalk /\ 0 \in 0 .. 3
    BY Kinds
  <2> QED BY <2>1 DEF WalkInit, Walkers
<1>2. /\ walker.armed = {} /\ walker.eventWalk = 0 /\ walker.walkTaskEvent = 0
      /\ walker.actionTaskEvent = 0 /\ walker.sinceStop = 0
  BY DEF WalkInit
<1>3. tasks = <<>> /\ tasks \in Seq(Works)
  BY DEF WalkInit
<1> QED BY <1>1, <1>2, <1>3 DEF WalkInv, InOrder, Stopping, WalkChained

\* and is kept by every step.
LEMMA WalkStep == WalkInv /\ [WalkNext]_walkVars => WalkInv'
<1> SUFFICES ASSUME WalkInv, [WalkNext]_walkVars PROVE WalkInv'
  OBVIOUS
<1>1. CASE UNCHANGED walkVars
  BY <1>1 DEF walkVars, WalkInv, WalkChained, Alive
<1> QED BY <1>1, CheckCreatureWalkKeeps, PlayerMoveKeeps, PlayerAutoWalkKeeps,
           PlayerStopAutoWalkKeeps, ActionsKeep, FollowingKeeps, SetSpeedKeeps, LeaveKeeps,
           ReceiveKeeps, HappenKeeps, FireKeeps DEF WalkNext, RunTask

\* Whatever fires, is stopped or replaced in between, the player's fields and his
\* timers agree: a walk that is under way has a timer, an action that waits can be
\* stopped, and only one is armed for the end of a walk.
THEOREM WalkStaysSound == WalkSpec => []WalkSound
<1> QED BY WalkStart, WalkStep, WalkInvSuffices, PTL DEF WalkSpec

\* After a request to stop the walk goes on for one step at most: the step that comes
\* next clears the list and the request.
THEOREM StopIsHonoured == WalkSpec => []StopHonoured
<1> QED BY WalkStart, WalkStep, WalkInvSuffices, PTL DEF WalkSpec

-----------------------------------------------------------------------------
(* Conditions: what a list of them gives, what the loops over it leave *)

Body == [conditions : Seq(Condition), speed : Int, skill : Int,
         looks : {"default", "outfit", "corpse"}]

LEMMA ConditionFields ==
    ASSUME NEW c \in Condition
    PROVE  /\ c.type \in {"haste", "paralyze", "attributes", "outfit", "sleep"}
           /\ c.type \in ConditionType /\ c.value \in Int
           /\ SpeedBy(c) \in Int /\ SkillBy(c) \in Int
<1>1. c.type \in ConditionType /\ c.value \in Values[c.type]
  BY DEF Condition
<1>2. c.type \in {"haste", "paralyze", "attributes", "outfit", "sleep"} /\ c.value \in Int
  BY <1>1, ConditionConstants
<1>3. BaseSpeed \in Int /\ -BaseSpeed \in Int
  BY ConditionConstants
<1> QED BY <1>1, <1>2, <1>3 DEF SpeedBy, SkillBy

\* How much the first n conditions of a list give.
SpeedUpto(list, n) == SumFunctionOnSet([i \in DOMAIN list |-> SpeedBy(list[i])], 1 .. n)
SkillUpto(list, n) == SumFunctionOnSet([i \in DOMAIN list |-> SkillBy(list[i])], 1 .. n)

LEMMA UptoAll ==
    ASSUME NEW list \in Seq(Condition)
    PROVE  SpeedOf(list) = SpeedUpto(list, Len(list)) /\ SkillOf(list) = SkillUpto(list, Len(list))
  BY DEF SpeedOf, SkillOf, SpeedUpto, SkillUpto

LEMMA UptoNone ==
    ASSUME NEW list
    PROVE  SpeedUpto(list, 0) = 0 /\ SkillUpto(list, 0) = 0
<1>1. 1 .. 0 = {}
  OBVIOUS
<1> QED BY <1>1, SumOfNothing DEF SpeedUpto, SkillUpto

LEMMA UptoNext ==
    ASSUME NEW list \in Seq(Condition), NEW n \in 1 .. Len(list)
    PROVE  /\ SpeedUpto(list, n) = SpeedUpto(list, n - 1) + SpeedBy(list[n])
           /\ SkillUpto(list, n) = SkillUpto(list, n - 1) + SkillBy(list[n])
<1> DEFINE f == [i \in DOMAIN list |-> SpeedBy(list[i])]
           g == [i \in DOMAIN list |-> SkillBy(list[i])]
           D == 1 .. Len(list)
<1>1. (\A i \in D : f[i] \in Int) /\ (\A i \in D : g[i] \in Int)
  BY ConditionFields
<1> DEFINE E == 1 .. n - 1
<1>2. IsFiniteSet(D)
  BY FS_Interval
<1>3. Len(list) \in Nat /\ n \in Nat
  OBVIOUS
<1>a. E \in SUBSET D
  BY <1>3
<1>4. E \in SUBSET D /\ n \in D \ E /\ 1 .. n = E \cup {n}
  BY <1>3
<1>5. f[n] = SpeedBy(list[n]) /\ g[n] = SkillBy(list[n]) /\ n \in D
  BY <1>3
<1>6. SpeedUpto(list, n) = SumFunctionOnSet(f, E \cup {n}) /\ SpeedUpto(list, n - 1) = SumFunctionOnSet(f, E)
  BY <1>4 DEF SpeedUpto
<1>7. SkillUpto(list, n) = SumFunctionOnSet(g, E \cup {n}) /\ SkillUpto(list, n - 1) = SumFunctionOnSet(g, E)
  BY <1>4 DEF SkillUpto
<1> HIDE DEF f, g, D, E
<1>8. SumFunctionOnSet(f, E \cup {n}) = f[n] + SumFunctionOnSet(f, E)
  <2>1. \A y \in D \ E : SumFunctionOnSet(f, E \cup {y}) = f[y] + SumFunctionOnSet(f, E)
    BY ONLY <1>1, <1>2, <1>a, IntegersWith
  <2> QED BY ONLY <1>4, <2>1
<1>9. SumFunctionOnSet(g, E \cup {n}) = g[n] + SumFunctionOnSet(g, E)
  <2>1. \A y \in D \ E : SumFunctionOnSet(g, E \cup {y}) = g[y] + SumFunctionOnSet(g, E)
    BY ONLY <1>1, <1>2, <1>a, IntegersWith
  <2> QED BY ONLY <1>4, <2>1
<1>10. SumFunctionOnSet(f, E) \in Int
  BY ONLY <1>1, <1>2, <1>a, IntegersWithout
<1>11. SumFunctionOnSet(g, E) \in Int
  BY ONLY <1>1, <1>2, <1>a, IntegersWithout
<1>12. f[n] \in Int /\ g[n] \in Int
  BY <1>1, <1>5
<1> QED BY <1>5, <1>6, <1>7, <1>8, <1>9, <1>10, <1>11, <1>12

LEMMA UptoType ==
    ASSUME NEW list \in Seq(Condition), NEW n \in 0 .. Len(list)
    PROVE  SpeedUpto(list, n) \in Int /\ SkillUpto(list, n) \in Int
<1> DEFINE f == [i \in DOMAIN list |-> SpeedBy(list[i])]
           g == [i \in DOMAIN list |-> SkillBy(list[i])]
           D == 1 .. Len(list)
<1>1. \A i \in D : f[i] \in Int /\ g[i] \in Int
  BY ConditionFields
<1>2. IsFiniteSet(D) /\ 1 .. n \in SUBSET D
  BY FS_Interval
<1>4. /\ SumFunctionOnSet(f, 1 .. n) \in Int /\ SumFunctionOnSet(g, 1 .. n) \in Int
  <2> HIDE DEF f, g, D
  <2> QED BY ONLY <1>1, <1>2, IntegersWithout
<1> QED BY <1>4 DEF SpeedUpto, SkillUpto

\* One more condition gives what it gives.
LEMMA OfAppended ==
    ASSUME NEW list \in Seq(Condition), NEW c \in Condition
    PROVE  /\ SpeedOf(Append(list, c)) = SpeedOf(list) + SpeedBy(c)
           /\ SkillOf(Append(list, c)) = SkillOf(list) + SkillBy(c)
<1> DEFINE l == Append(list, c)
           n == Len(list)
           f == [i \in DOMAIN list |-> SpeedBy(list[i])]
           g == [i \in DOMAIN list |-> SkillBy(list[i])]
           k == [i \in DOMAIN l |-> SpeedBy(l[i])]
           h == [i \in DOMAIN l |-> SkillBy(l[i])]
<1>1. l \in Seq(Condition) /\ Len(l) = n + 1 /\ l[n + 1] = c /\ \A i \in 1 .. n : l[i] = list[i]
  OBVIOUS
<1>2. n \in Nat /\ n + 1 \in 1 .. Len(l) /\ (n + 1) - 1 = n
  BY <1>1
<1>3. /\ SpeedUpto(l, n + 1) = SpeedUpto(l, n) + SpeedBy(c)
      /\ SkillUpto(l, n + 1) = SkillUpto(l, n) + SkillBy(c)
  <2> HIDE DEF l, n
  <2> QED BY <1>1, <1>2, UptoNext
<1>4. \A i \in 1 .. n : f[i] \in Int /\ k[i] = f[i] /\ g[i] \in Int /\ h[i] = g[i]
  BY <1>1, ConditionFields
<1>5. IsFiniteSet(1 .. n)
  BY FS_Interval
<1>6. SumFunctionOnSet(f, 1 .. n) = SumFunctionOnSet(k, 1 .. n)
      /\ SumFunctionOnSet(g, 1 .. n) = SumFunctionOnSet(h, 1 .. n)
  <2> HIDE DEF f, g, h, k, n
  <2> QED BY ONLY <1>4, <1>5, IntegersAgree
<1>7. SpeedUpto(l, n) = SpeedUpto(list, n) /\ SkillUpto(l, n) = SkillUpto(list, n)
  BY <1>6 DEF SpeedUpto, SkillUpto
<1>8. SpeedOf(l) = SpeedUpto(l, n + 1) /\ SkillOf(l) = SkillUpto(l, n + 1)
  BY <1>1, UptoAll
<1> QED BY <1>3, <1>7, <1>8, UptoAll

\* Another condition in the place of one changes the sum by the difference.
LEMMA OfReplaced ==
    ASSUME NEW list \in Seq(Condition), NEW i \in DOMAIN list, NEW c \in Condition
    PROVE  /\ SpeedOf([list EXCEPT ![i] = c]) = SpeedOf(list) + SpeedBy(c) - SpeedBy(list[i])
           /\ SkillOf([list EXCEPT ![i] = c]) = SkillOf(list) + SkillBy(c) - SkillBy(list[i])
<1> DEFINE l == [list EXCEPT ![i] = c]
           D == DOMAIN list
           f == [j \in DOMAIN list |-> SpeedBy(list[j])]
           g == [j \in DOMAIN list |-> SkillBy(list[j])]
           k == [j \in DOMAIN l |-> SpeedBy(l[j])]
           h == [j \in DOMAIN l |-> SkillBy(l[j])]
<1>1. DOMAIN l = D /\ l[i] = c /\ \A j \in D \ {i} : l[j] = list[j]
  OBVIOUS
<1>2. IsFiniteSet(D) /\ D \in SUBSET D /\ D \ {i} \in SUBSET D /\ IsFiniteSet(D \ {i}) /\ i \in D
  BY FS_Interval, FS_Subset
<1>3. \A j \in D : f[j] \in Int /\ g[j] \in Int
  BY ConditionFields
<1>4. \A j \in D \ {i} : k[j] = f[j] /\ h[j] = g[j]
  BY <1>1
<1>5. k[i] = SpeedBy(c) /\ h[i] = SkillBy(c) /\ f[i] = SpeedBy(list[i]) /\ g[i] = SkillBy(list[i])
      /\ k[i] \in Int /\ h[i] \in Int
  BY <1>1, ConditionFields
<1>6. (\A j \in D : k[j] \in Int) /\ (\A j \in D : h[j] \in Int)
  BY <1>3, <1>4, <1>5
<1> SUFFICES /\ SumFunctionOnSet(k, D) = SumFunctionOnSet(f, D) + k[i] - f[i]
             /\ SumFunctionOnSet(h, D) = SumFunctionOnSet(g, D) + h[i] - g[i]
  BY <1>1, <1>5 DEF SpeedOf, SkillOf
<1> HIDE DEF f, g, k, h, D
<1>7. /\ SumFunctionOnSet(k, D) = k[i] + SumFunctionOnSet(k, D \ {i})
      /\ SumFunctionOnSet(f, D) = f[i] + SumFunctionOnSet(f, D \ {i})
      /\ SumFunctionOnSet(f, D \ {i}) \in Int
  <2>1. SumFunctionOnSet(k, D) = k[i] + SumFunctionOnSet(k, D \ {i})
    <3>1. \A y \in D : SumFunctionOnSet(k, D) = k[y] + SumFunctionOnSet(k, D \ {y})
      BY ONLY <1>2, <1>6, IntegersWithout
    <3> QED BY ONLY <1>2, <3>1
  <2>2. SumFunctionOnSet(f, D) = f[i] + SumFunctionOnSet(f, D \ {i})
    <3>1. \A y \in D : SumFunctionOnSet(f, D) = f[y] + SumFunctionOnSet(f, D \ {y})
      BY ONLY <1>2, <1>3, IntegersWithout
    <3> QED BY ONLY <1>2, <3>1
  <2>3. SumFunctionOnSet(f, D \ {i}) \in Int
    BY ONLY <1>2, <1>3, IntegersWithout
  <2> QED BY <2>1, <2>2, <2>3
<1>8. /\ SumFunctionOnSet(h, D) = h[i] + SumFunctionOnSet(h, D \ {i})
      /\ SumFunctionOnSet(g, D) = g[i] + SumFunctionOnSet(g, D \ {i})
      /\ SumFunctionOnSet(g, D \ {i}) \in Int
  <2>1. SumFunctionOnSet(h, D) = h[i] + SumFunctionOnSet(h, D \ {i})
    <3>1. \A y \in D : SumFunctionOnSet(h, D) = h[y] + SumFunctionOnSet(h, D \ {y})
      BY ONLY <1>2, <1>6, IntegersWithout
    <3> QED BY ONLY <1>2, <3>1
  <2>2. SumFunctionOnSet(g, D) = g[i] + SumFunctionOnSet(g, D \ {i})
    <3>1. \A y \in D : SumFunctionOnSet(g, D) = g[y] + SumFunctionOnSet(g, D \ {y})
      BY ONLY <1>2, <1>3, IntegersWithout
    <3> QED BY ONLY <1>2, <3>1
  <2>3. SumFunctionOnSet(g, D \ {i}) \in Int
    BY ONLY <1>2, <1>3, IntegersWithout
  <2> QED BY <2>1, <2>2, <2>3
<1>9. SumFunctionOnSet(f, D \ {i}) = SumFunctionOnSet(k, D \ {i})
  BY ONLY <1>2, <1>3, <1>4, IntegersAgree
<1>10. SumFunctionOnSet(g, D \ {i}) = SumFunctionOnSet(h, D \ {i})
  BY ONLY <1>2, <1>3, <1>4, IntegersAgree
<1>11. f[i] \in Int /\ g[i] \in Int /\ k[i] \in Int /\ h[i] \in Int
  BY <1>2, <1>3, <1>6
<1> QED BY <1>7, <1>8, <1>9, <1>10, <1>11

Dressing == {"outfit", "sleep"}

LEMMA OtherConditions ==
    ASSUME NEW b \in Body, NEW list \in Seq(Condition)
    PROVE  LET d == [b EXCEPT !.conditions = list]
           IN  /\ d \in Body /\ d.conditions = list
               /\ d.speed = b.speed /\ d.skill = b.skill /\ d.looks = b.looks
<1> DEFINE d == [b EXCEPT !.conditions = list]
<1>1. d.conditions = list /\ d.speed = b.speed /\ d.skill = b.skill /\ d.looks = b.looks
  BY DEF Body
<1>2. d \in Body
  BY DEF Body
<1> QED BY <1>1, <1>2

\* What the end of a condition changes.
LEMMA WhatEnds ==
    ASSUME NEW b \in Body, NEW c \in Condition
    PROVE  LET d == EndCondition(b, c)
           IN  /\ d \in Body /\ d.conditions = b.conditions
               /\ d.speed = b.speed - SpeedBy(c) /\ d.skill = b.skill - SkillBy(c)
               /\ d.looks = IF c.type \in Dressing THEN "default" ELSE b.looks
<1>1. /\ c.type \in {"haste", "paralyze", "attributes", "outfit", "sleep"} /\ c.value \in Int
      /\ BaseSpeed \in Nat
  BY ConditionFields, ConditionConstants
<1>2. CASE c.type \in Speedy
  BY <1>1, <1>2 DEF EndCondition, Body, SpeedBy, SkillBy, Dressing, Speedy
<1>3. CASE c.type = "attributes"
  BY <1>1, <1>3 DEF EndCondition, Body, SpeedBy, SkillBy, Dressing, Speedy
<1>4. CASE c.type = "outfit"
  BY <1>1, <1>4 DEF EndCondition, Body, SpeedBy, SkillBy, Dressing, Speedy
<1>5. CASE c.type = "sleep"
  <2> DEFINE d == [b EXCEPT !.speed = @ + BaseSpeed, !.looks = "default"]
  <2>1. EndCondition(b, c) = d /\ SpeedBy(c) = -BaseSpeed /\ SkillBy(c) = 0
    BY <1>5 DEF EndCondition, SpeedBy, SkillBy, Speedy
  <2>2. /\ d \in Body /\ d.conditions = b.conditions /\ d.skill = b.skill
        /\ d.speed = b.speed + BaseSpeed /\ d.looks = "default"
    <3>1. b.speed + BaseSpeed \in Int
      BY <1>1 DEF Body
    <3>2. /\ d.conditions = b.conditions /\ d.skill = b.skill
          /\ d.speed = b.speed + BaseSpeed /\ d.looks = "default"
      BY DEF Body
    <3> QED BY <3>1, <3>2 DEF Body
  <2>3. b.speed \in Int /\ b.skill \in Int
    BY DEF Body
  <2> QED BY <1>1, <1>5, <2>1, <2>2, <2>3 DEF Dressing
<1> QED BY <1>1, <1>2, <1>3, <1>4, <1>5 DEF Speedy

\* One round of the loops over the list of b, when e is what they have made of it.
Round(b, ending, e, n) ==
    IF n = 0 THEN [b EXCEPT !.conditions = <<>>]
    ELSE IF b.conditions[n] \in ending THEN EndCondition(e, b.conditions[n])
    ELSE [e EXCEPT !.conditions = Append(@, b.conditions[n])]

AreRounds(b, ending, N, f) == f = [n \in 0 .. N |-> Round(b, ending, f[n - 1], n)]

\* The loops do go on to the end.
LEMMA RoundsExist ==
    ASSUME NEW b, NEW ending, NEW N \in Nat
    PROVE  \E f : AreRounds(b, ending, N, f)
<1> DEFINE Good == {m \in Nat : \E f : AreRounds(b, ending, m, f)}
<1>1. 0 \in Good
  <2> DEFINE f == [n \in 0 .. 0 |-> [b EXCEPT !.conditions = <<>>]]
  <2>1. \A n \in 0 .. 0 : Round(b, ending, f[n - 1], n) = [b EXCEPT !.conditions = <<>>]
    BY DEF Round
  <2>2. AreRounds(b, ending, 0, f)
    BY <2>1 DEF AreRounds
  <2> QED BY <2>2
<1>2. ASSUME NEW m \in Nat, m \in Good PROVE m + 1 \in Good
  <2>1. PICK f : AreRounds(b, ending, m, f)
    BY <1>2
  <2> DEFINE g == [n \in 0 .. m + 1 |-> Round(b, ending, f[n - 1], n)]
  <2>2. \A n \in 0 .. m : g[n] = f[n]
    BY <2>1 DEF AreRounds
  <2>3. ASSUME NEW n \in 0 .. m + 1 PROVE Round(b, ending, f[n - 1], n) = Round(b, ending, g[n - 1], n)
    <3>1. CASE n = 0
      BY <3>1 DEF Round
    <3>2. CASE n # 0
      <4>1. n - 1 \in 0 .. m
        BY <3>2
      <4> QED BY <2>2, <4>1
    <3> QED BY <3>1, <3>2
  <2>4. AreRounds(b, ending, m + 1, g)
    BY <2>3 DEF AreRounds
  <2>5. m + 1 \in Nat
    OBVIOUS
  <2> HIDE DEF g
  <2> QED BY <2>4, <2>5
<1> HIDE DEF Good
<1>3. N \in Good
  BY <1>1, <1>2, NumbersOneByOne
<1> QED BY <1>3 DEF Good

\* After n rounds what was taken back is what the ended ones had given.
AfterRounds(b, ending, e, n) ==
    /\ e \in Body
    /\ e.speed - SpeedOf(e.conditions) = b.speed - SpeedUpto(b.conditions, n)
    /\ e.skill - SkillOf(e.conditions) = b.skill - SkillUpto(b.conditions, n)
    /\ ToSet(e.conditions) \subseteq ToSet(b.conditions)
    /\ \A m \in 1 .. n : b.conditions[m] \notin ending => b.conditions[m] \in ToSet(e.conditions)
    /\ e.looks \in {b.looks, "default"}
    /\ e.looks # "default" => \A m \in 1 .. n : b.conditions[m].type \in Dressing => b.conditions[m] \notin ending

LEMMA AppendedSet ==
    ASSUME NEW list \in Seq(Condition), NEW c \in Condition
    PROVE  ToSet(Append(list, c)) = ToSet(list) \cup {c}
<1> DEFINE l == Append(list, c)
           n == Len(list)
<1>1. n \in Nat /\ DOMAIN list = 1 .. n /\ DOMAIN l = 1 .. n + 1 /\ l[n + 1] = c /\ \A i \in 1 .. n : l[i] = list[i]
  OBVIOUS
<1>2. 1 .. n + 1 = (1 .. n) \cup {n + 1}
  BY <1>1
<1> HIDE DEF l, n
<1>3. {l[i] : i \in (1 .. n) \cup {n + 1}} = {list[i] : i \in 1 .. n} \cup {c}
  BY <1>1
<1> QED BY <1>1, <1>2, <1>3 DEF ToSet, l

LEMMA OneRound ==
    ASSUME NEW b \in Body, NEW ending, NEW e, NEW n \in 1 .. Len(b.conditions),
           AfterRounds(b, ending, e, n - 1)
    PROVE  AfterRounds(b, ending, Round(b, ending, e, n), n)
<1> DEFINE list == b.conditions
           c == list[n]
<1>1. /\ list \in Seq(Condition) /\ Len(list) \in Nat /\ n \in DOMAIN list /\ c \in Condition
      /\ n # 0 /\ e \in Body /\ e.conditions \in Seq(Condition) /\ n - 1 \in 0 .. Len(list)
  BY DEF Body, AfterRounds
<1>2. /\ SpeedUpto(list, n) = SpeedUpto(list, n - 1) + SpeedBy(c)
      /\ SkillUpto(list, n) = SkillUpto(list, n - 1) + SkillBy(c)
      /\ SpeedUpto(list, n - 1) \in Int /\ SkillUpto(list, n - 1) \in Int
      /\ SpeedBy(c) \in Int /\ SkillBy(c) \in Int
  BY <1>1, UptoNext, UptoType, ConditionFields
<1>3. /\ SpeedOf(e.conditions) \in Int /\ SkillOf(e.conditions) \in Int
  BY <1>1, UptoAll, UptoType
<1>4. /\ b.speed \in Int /\ b.skill \in Int /\ e.speed \in Int /\ e.skill \in Int
  BY <1>1 DEF Body
<1>5. \A m \in 1 .. n : m = n \/ m \in 1 .. n - 1
  OBVIOUS
<1>8. /\ e.speed - SpeedOf(e.conditions) = b.speed - SpeedUpto(list, n - 1)
      /\ e.skill - SkillOf(e.conditions) = b.skill - SkillUpto(list, n - 1)
  BY DEF AfterRounds
<1>6. CASE c \in ending
  <2> DEFINE d == EndCondition(e, c)
  <2>1. Round(b, ending, e, n) = d
    BY <1>1, <1>6 DEF Round
  <2>2. /\ d \in Body /\ d.conditions = e.conditions
        /\ d.speed = e.speed - SpeedBy(c) /\ d.skill = e.skill - SkillBy(c)
        /\ d.looks = IF c.type \in Dressing THEN "default" ELSE e.looks
    BY <1>1, WhatEnds
  <2> HIDE DEF d, c
  <2>3. /\ d.speed - SpeedOf(d.conditions) = b.speed - SpeedUpto(list, n)
        /\ d.skill - SkillOf(d.conditions) = b.skill - SkillUpto(list, n)
    <3>1. (e.speed - SpeedBy(c)) - SpeedOf(e.conditions) = b.speed - (SpeedUpto(list, n - 1) + SpeedBy(c))
      <4> DEFINE a == e.speed
                 s == SpeedOf(e.conditions)
                 t == b.speed
                 u == SpeedUpto(list, n - 1)
                 x == SpeedBy(c)
      <4>1. a \in Int /\ s \in Int /\ t \in Int /\ u \in Int /\ x \in Int /\ a - s = t - u
        BY ONLY <1>2, <1>3, <1>4, <1>8, Zenon
      <4> HIDE DEF a, s, t, u, x
      <4>2. (a - x) - s = t - (u + x) /\ a - (s + x) = t - (u + x)
        BY ONLY <4>1
      <4> QED BY <4>2 DEF a, s, t, u, x
    <3>2. (e.skill - SkillBy(c)) - SkillOf(e.conditions) = b.skill - (SkillUpto(list, n - 1) + SkillBy(c))
      <4> DEFINE a == e.skill
                 s == SkillOf(e.conditions)
                 t == b.skill
                 u == SkillUpto(list, n - 1)
                 x == SkillBy(c)
      <4>1. a \in Int /\ s \in Int /\ t \in Int /\ u \in Int /\ x \in Int /\ a - s = t - u
        BY ONLY <1>2, <1>3, <1>4, <1>8, Zenon
      <4> HIDE DEF a, s, t, u, x
      <4>2. (a - x) - s = t - (u + x) /\ a - (s + x) = t - (u + x)
        BY ONLY <4>1
      <4> QED BY <4>2 DEF a, s, t, u, x
    <3> QED BY ONLY <3>1, <3>2, <1>2, <2>2, Zenon
  <2>4. ToSet(d.conditions) \subseteq ToSet(list)
    BY <2>2 DEF AfterRounds
  <2>5. \A m \in 1 .. n : list[m] \notin ending => list[m] \in ToSet(d.conditions)
    BY <1>5, <1>6, <2>2 DEF AfterRounds, c
  <2>6. d.looks \in {b.looks, "default"}
    BY <2>2 DEF AfterRounds
  <2>7. d.looks # "default" => \A m \in 1 .. n : list[m].type \in Dressing => list[m] \notin ending
    BY <1>5, <2>2 DEF AfterRounds, c
  <2> QED BY <2>1, <2>2, <2>3, <2>4, <2>5, <2>6, <2>7 DEF AfterRounds
<1>7. CASE c \notin ending
  <2> DEFINE d == [e EXCEPT !.conditions = Append(@, c)]
  <2>1. Round(b, ending, e, n) = d
    BY <1>1, <1>7 DEF Round
  <2>2. /\ d \in Body /\ d.conditions = Append(e.conditions, c)
        /\ d.speed = e.speed /\ d.skill = e.skill /\ d.looks = e.looks
    <3>1. Append(e.conditions, c) \in Seq(Condition)
      BY <1>1
    <3> QED BY <1>1, <3>1, OtherConditions
  <2>3. SpeedOf(d.conditions) = SpeedOf(e.conditions) + SpeedBy(c)
        /\ SkillOf(d.conditions) = SkillOf(e.conditions) + SkillBy(c)
    BY <1>1, <2>2, OfAppended
  <2>8. ToSet(d.conditions) = ToSet(e.conditions) \cup {c} /\ c \in ToSet(list)
    <3>1. ToSet(Append(e.conditions, c)) = ToSet(e.conditions) \cup {c}
      BY <1>1, AppendedSet
    <3>2. c \in ToSet(list)
      BY <1>1 DEF ToSet
    <3> QED BY <2>2, <3>1, <3>2
  <2> HIDE DEF d, c
  <2>4. /\ d.speed - SpeedOf(d.conditions) = b.speed - SpeedUpto(list, n)
        /\ d.skill - SkillOf(d.conditions) = b.skill - SkillUpto(list, n)
    <3>1. e.speed - (SpeedOf(e.conditions) + SpeedBy(c)) = b.speed - (SpeedUpto(list, n - 1) + SpeedBy(c))
      <4> DEFINE a == e.speed
                 s == SpeedOf(e.conditions)
                 t == b.speed
                 u == SpeedUpto(list, n - 1)
                 x == SpeedBy(c)
      <4>1. a \in Int /\ s \in Int /\ t \in Int /\ u \in Int /\ x \in Int /\ a - s = t - u
        BY ONLY <1>2, <1>3, <1>4, <1>8, Zenon
      <4> HIDE DEF a, s, t, u, x
      <4>2. (a - x) - s = t - (u + x) /\ a - (s + x) = t - (u + x)
        BY ONLY <4>1
      <4> QED BY <4>2 DEF a, s, t, u, x
    <3>2. e.skill - (SkillOf(e.conditions) + SkillBy(c)) = b.skill - (SkillUpto(list, n - 1) + SkillBy(c))
      <4> DEFINE a == e.skill
                 s == SkillOf(e.conditions)
                 t == b.skill
                 u == SkillUpto(list, n - 1)
                 x == SkillBy(c)
      <4>1. a \in Int /\ s \in Int /\ t \in Int /\ u \in Int /\ x \in Int /\ a - s = t - u
        BY ONLY <1>2, <1>3, <1>4, <1>8, Zenon
      <4> HIDE DEF a, s, t, u, x
      <4>2. (a - x) - s = t - (u + x) /\ a - (s + x) = t - (u + x)
        BY ONLY <4>1
      <4> QED BY <4>2 DEF a, s, t, u, x
    <3> QED BY ONLY <3>1, <3>2, <1>2, <2>2, <2>3, Zenon
  <2>5. \A m \in 1 .. n : list[m] \notin ending => list[m] \in ToSet(d.conditions)
    BY <1>5, <2>8 DEF AfterRounds, c
  <2>6. d.looks \in {b.looks, "default"} /\ ToSet(d.conditions) \subseteq ToSet(list)
    BY <2>2, <2>8 DEF AfterRounds
  <2>7. d.looks # "default" => \A m \in 1 .. n : list[m].type \in Dressing => list[m] \notin ending
    BY <1>5, <1>7, <2>2 DEF AfterRounds, c
  <2> QED BY <2>1, <2>2, <2>4, <2>5, <2>6, <2>7 DEF AfterRounds
<1> QED BY <1>6, <1>7

\* What remains when the loop is over.
LEMMA WhatRemains ==
    ASSUME NEW b \in Body, NEW ending
    PROVE  AfterRounds(b, ending, EndAll(b, ending), Len(b.conditions))
<1> DEFINE N == Len(b.conditions)
           ended == CHOOSE f : AreRounds(b, ending, N, f)
<1>1. N \in Nat /\ b.conditions \in Seq(Condition)
  BY DEF Body
<1>2. ended = [n \in 0 .. N |-> Round(b, ending, ended[n - 1], n)]
  <2>1. \E f : AreRounds(b, ending, N, f)
    BY <1>1, RoundsExist
  <2>2. AreRounds(b, ending, N, ended)
    BY ONLY <2>1, Zenon
  <2> QED BY <2>2 DEF AreRounds
<1>3. EndAll(b, ending) = ended[N]
  BY DEF EndAll, Round, AreRounds
<1> HIDE DEF ended, N
<1> DEFINE Good == {n \in Nat : n <= N => AfterRounds(b, ending, ended[n], n)}
<1>4. 0 \in Good
  <2>1. ended[0] = [b EXCEPT !.conditions = <<>>]
    BY <1>1, <1>2 DEF Round
  <2> DEFINE e == [b EXCEPT !.conditions = <<>>]
  <2>2. /\ e \in Body /\ e.conditions = <<>> /\ e.speed = b.speed /\ e.skill = b.skill /\ e.looks = b.looks
    <3>1. <<>> \in Seq(Condition)
      OBVIOUS
    <3> QED BY <3>1, OtherConditions
  <2>3. SpeedOf(<<>>) = 0 /\ SkillOf(<<>>) = 0
    <3>1. <<>> \in Seq(Condition) /\ Len(<<>>) = 0
      OBVIOUS
    <3> QED BY <3>1, UptoAll, UptoNone
  <2>4. ToSet(e.conditions) = {}
    BY <2>2 DEF ToSet
  <2> HIDE DEF e
  <2>5. AfterRounds(b, ending, e, 0)
    BY <2>2, <2>3, <2>4, UptoNone DEF AfterRounds
  <2> QED BY <2>1, <2>5 DEF e
<1>5. ASSUME NEW n \in Nat, n \in Good PROVE n + 1 \in Good
  <2> SUFFICES ASSUME n + 1 <= N PROVE AfterRounds(b, ending, ended[n + 1], n + 1)
    OBVIOUS
  <2>1. n + 1 \in 1 .. N /\ n + 1 \in 0 .. N /\ (n + 1) - 1 = n
    BY <1>1
  <2>2. ended[n + 1] = Round(b, ending, ended[n], n + 1)
    BY <1>2, <2>1
  <2>3. AfterRounds(b, ending, ended[n], (n + 1) - 1)
    BY <1>1, <1>5, <2>1
  <2> QED BY <2>1, <2>2, <2>3, OneRound DEF N
<1>6. N \in Good
  <2> HIDE DEF Good
  <2> QED BY <1>1, <1>4, <1>5, NumbersOneByOne
<1> QED BY <1>3, <1>6, <1>1 DEF N

-----------------------------------------------------------------------------
(* What the changes of a creature add up to *)

\* The changes are those of the conditions; s tells that the speed is excepted.
Counted(b, s) ==
    /\ b \in Body
    /\ ~s => b.speed = SpeedOf(b.conditions)
    /\ b.skill = SkillOf(b.conditions)
    /\ b.looks # "default" => \E c \in ToSet(b.conditions) : c.type \in Dressing

Hurried(b) == \E c \in ToSet(b.conditions) : c.type \in Speedy

LEMMA ListTypes ==
    ASSUME NEW b \in Body
    PROVE  /\ b.conditions \in Seq(Condition) /\ Len(b.conditions) \in Nat
           /\ b.speed \in Int /\ b.skill \in Int
           /\ SpeedOf(b.conditions) \in Int /\ SkillOf(b.conditions) \in Int
           /\ \A i \in DOMAIN b.conditions : b.conditions[i] \in Condition
           /\ ToSet(b.conditions) \subseteq Condition
<1>1. b.conditions \in Seq(Condition) /\ b.speed \in Int /\ b.skill \in Int
  BY DEF Body
<1>2. Len(b.conditions) \in Nat /\ Len(b.conditions) \in 0 .. Len(b.conditions)
  BY <1>1
<1>3. SpeedOf(b.conditions) \in Int /\ SkillOf(b.conditions) \in Int
  BY <1>1, <1>2, UptoAll, UptoType
<1>4. \A i \in DOMAIN b.conditions : b.conditions[i] \in Condition
  BY <1>1
<1>5. ToSet(b.conditions) \subseteq Condition
  BY <1>4 DEF ToSet
<1> QED BY <1>1, <1>2, <1>3, <1>4, <1>5

\* Where nothing hurries or sleeps, nothing changes the speed.
LEMMA NothingHurries ==
    ASSUME NEW list \in Seq(Condition),
           \A i \in DOMAIN list : list[i].type \notin Speedy \cup {"sleep"}
    PROVE  SpeedOf(list) = 0
<1> DEFINE Good == {n \in Nat : n <= Len(list) => SpeedUpto(list, n) = 0}
<1>1. 0 \in Good
  BY UptoNone
<1>2. ASSUME NEW n \in Nat, n \in Good PROVE n + 1 \in Good
  <2> SUFFICES ASSUME n + 1 <= Len(list) PROVE SpeedUpto(list, n + 1) = 0
    OBVIOUS
  <2>1. n + 1 \in 1 .. Len(list) /\ n + 1 \in DOMAIN list /\ (n + 1) - 1 = n /\ SpeedUpto(list, n) = 0
    BY <1>2
  <2>2. SpeedUpto(list, n + 1) = SpeedUpto(list, n) + SpeedBy(list[n + 1])
    BY <2>1, UptoNext
  <2>3. SpeedBy(list[n + 1]) = 0
    BY <2>1 DEF SpeedBy
  <2> QED BY <2>1, <2>2, <2>3
<1>3. Len(list) \in Nat
  OBVIOUS
<1>4. Len(list) \in Good
  <2> HIDE DEF Good
  <2> QED BY <1>1, <1>2, <1>3, NumbersOneByOne
<1> QED BY <1>3, <1>4, UptoAll

LEMMA EndingCounts ==
    ASSUME NEW b, NEW s, NEW ending, Counted(b, s)
    PROVE  Counted(EndAll(b, ending), s)
<1> DEFINE e == EndAll(b, ending)
           N == Len(b.conditions)
<1>1. b \in Body
  BY DEF Counted
<1>2. AfterRounds(b, ending, e, N)
  BY <1>1, WhatRemains
<1> HIDE DEF e
<1>3. e \in Body
  BY <1>2 DEF AfterRounds
<1>4. /\ SpeedOf(b.conditions) = SpeedUpto(b.conditions, N) /\ SkillOf(b.conditions) = SkillUpto(b.conditions, N)
      /\ SpeedOf(b.conditions) \in Int /\ SkillOf(b.conditions) \in Int /\ b.speed \in Int /\ b.skill \in Int
  BY <1>1, ListTypes, UptoAll
<1>5. /\ SpeedOf(e.conditions) \in Int /\ SkillOf(e.conditions) \in Int /\ e.speed \in Int /\ e.skill \in Int
  BY <1>3, ListTypes
<1>6. /\ e.speed - SpeedOf(e.conditions) = b.speed - SpeedOf(b.conditions)
      /\ e.skill - SkillOf(e.conditions) = b.skill - SkillOf(b.conditions)
  BY ONLY <1>2, <1>4, Zenon DEF AfterRounds
<1>7. (~s => b.speed = SpeedOf(b.conditions)) /\ b.skill = SkillOf(b.conditions)
  BY DEF Counted
<1>8. ~s => e.speed = SpeedOf(e.conditions)
  <2> DEFINE p == e.speed
             q == SpeedOf(e.conditions)
             r == b.speed
  <2> SUFFICES ASSUME ~s PROVE p = q
    OBVIOUS
  <2>1. p \in Int /\ q \in Int /\ r \in Int /\ p - q = r - r
    BY ONLY <1>4, <1>5, <1>6, <1>7, ~s, Zenon
  <2> HIDE DEF p, q, r
  <2> QED BY ONLY <2>1
<1>9. e.skill = SkillOf(e.conditions)
  <2> DEFINE p == e.skill
             q == SkillOf(e.conditions)
             r == b.skill
  <2>1. p \in Int /\ q \in Int /\ r \in Int /\ p - q = r - r
    BY ONLY <1>4, <1>5, <1>6, <1>7, Zenon
  <2> HIDE DEF p, q, r
  <2>2. p = q
    BY ONLY <2>1
  <2> QED BY <2>2 DEF p, q
<1>10. ASSUME e.looks # "default" PROVE \E c \in ToSet(e.conditions) : c.type \in Dressing
  <2>1. b.looks # "default"
    BY <1>2, <1>10 DEF AfterRounds
  <2>2. PICK c \in ToSet(b.conditions) : c.type \in Dressing
    BY <2>1 DEF Counted
  <2>3. PICK m \in 1 .. N : b.conditions[m] = c
    BY <1>1, ListTypes DEF ToSet
  <2>4. c \notin ending
    BY <1>2, <1>10, <2>2, <2>3 DEF AfterRounds
  <2>5. c \in ToSet(e.conditions)
    BY <1>2, <2>3, <2>4 DEF AfterRounds
  <2> QED BY <2>2, <2>5
<1> QED BY <1>3, <1>8, <1>9, <1>10 DEF Counted, e

LEMMA CountedMore ==
    ASSUME NEW b, NEW s, NEW t, Counted(b, s)
    PROVE  Counted(b, s \/ t)
  BY DEF Counted

\* A condition that was not there starts.
LEMMA StartCounts ==
    ASSUME NEW b, NEW s, Counted(b, s), NEW c \in Condition, Same(b, c) = {},
           ~s => ~(Asleep(b) /\ Hurried(b))
    PROVE  LET d == StartCondition(b, c)
           IN  /\ c.type # "sleep" => Counted(d, s)
               /\ Counted(d, s \/ (Asleep(d) /\ Hurried(d)))
<1> DEFINE d == StartCondition(b, c)
           l == Append(b.conditions, c)
           e == [b EXCEPT !.conditions = l]
<1> SUFFICES /\ c.type # "sleep" => Counted(d, s)
             /\ Counted(d, s \/ (Asleep(d) /\ Hurried(d)))
  OBVIOUS
<1>1. b \in Body /\ (~s => b.speed = SpeedOf(b.conditions)) /\ b.skill = SkillOf(b.conditions)
  BY DEF Counted
<1>2. /\ b.conditions \in Seq(Condition) /\ b.speed \in Int /\ b.skill \in Int
      /\ SpeedOf(b.conditions) \in Int /\ SkillOf(b.conditions) \in Int
      /\ \A i \in DOMAIN b.conditions : b.conditions[i] \in Condition
  BY <1>1, ListTypes
<1>3. l \in Seq(Condition) /\ ToSet(l) = ToSet(b.conditions) \cup {c}
      /\ SpeedOf(l) = SpeedOf(b.conditions) + SpeedBy(c) /\ SkillOf(l) = SkillOf(b.conditions) + SkillBy(c)
  BY <1>2, OfAppended, AppendedSet
<1>4. /\ c.type \in {"haste", "paralyze", "attributes", "outfit", "sleep"} /\ c.value \in Int
      /\ BaseSpeed \in Nat /\ -BaseSpeed \in Int
  BY ConditionFields, ConditionConstants
<1>5. e \in Body /\ e.conditions = l /\ e.speed = b.speed /\ e.skill = b.skill /\ e.looks = b.looks
  BY <1>1, <1>3, OtherConditions
<1>6. b.looks # "default" => \E k \in ToSet(l) : k.type \in Dressing
  BY <1>3 DEF Counted
<1>7. CASE c.type \in Speedy
  <2>1. d = [e EXCEPT !.speed = @ + c.value]
    BY <1>7 DEF StartCondition, Speedy
  <2>2. e.speed + c.value \in Int
    BY <1>2, <1>4, <1>5
  <2>3. /\ d \in Body /\ d.conditions = l /\ d.speed = b.speed + c.value /\ d.skill = b.skill /\ d.looks = b.looks
    <3> HIDE DEF e, d
    <3> QED BY <1>5, <2>1, <2>2 DEF Body
  <2>4. SpeedBy(c) = c.value /\ SkillBy(c) = 0
    BY <1>7 DEF SpeedBy, SkillBy, Speedy
  <2>5. ~s => d.speed = SpeedOf(d.conditions)
    <3> SUFFICES ASSUME ~s PROVE d.speed = SpeedOf(d.conditions)
      OBVIOUS
    <3>1. b.speed = SpeedOf(b.conditions)
      BY <1>1
    <3> HIDE DEF d, l
    <3> QED BY ONLY <3>1, <1>3, <2>3, <2>4, Zenon
  <2>6. d.skill = SkillOf(d.conditions)
    <3>1. SkillOf(l) = SkillOf(b.conditions)
      BY ONLY <1>2, <1>3, <2>4
    <3> HIDE DEF d, l
    <3> QED BY ONLY <3>1, <1>1, <2>3, Zenon
  <2>7. d.looks # "default" => \E k \in ToSet(d.conditions) : k.type \in Dressing
    <3> HIDE DEF d, l
    <3> QED BY ONLY <1>6, <2>3, Zenon
  <2>8. Counted(d, s)
    <3> HIDE DEF d
    <3> QED BY <2>3, <2>5, <2>6, <2>7 DEF Counted
  <2> HIDE DEF d
  <2> QED BY <2>8 DEF Counted
<1>8. CASE c.type = "attributes"
  <2>1. d = [e EXCEPT !.skill = @ + c.value]
    BY <1>8 DEF StartCondition, Speedy
  <2>2. e.skill + c.value \in Int
    BY <1>2, <1>4, <1>5
  <2>3. /\ d \in Body /\ d.conditions = l /\ d.speed = b.speed /\ d.skill = b.skill + c.value /\ d.looks = b.looks
    <3> HIDE DEF e, d
    <3> QED BY <1>5, <2>1, <2>2 DEF Body
  <2>4. SpeedBy(c) = 0 /\ SkillBy(c) = c.value
    BY <1>8 DEF SpeedBy, SkillBy, Speedy
  <2>5. ~s => d.speed = SpeedOf(d.conditions)
    <3>1. SpeedOf(l) = SpeedOf(b.conditions)
      BY ONLY <1>2, <1>3, <2>4
    <3> HIDE DEF d, l
    <3> QED BY ONLY <3>1, <1>1, <2>3, Zenon
  <2>6. d.skill = SkillOf(d.conditions)
    <3> HIDE DEF d, l
    <3> QED BY ONLY <1>1, <1>3, <2>3, <2>4, Zenon
  <2>7. d.looks # "default" => \E k \in ToSet(d.conditions) : k.type \in Dressing
    <3> HIDE DEF d, l
    <3> QED BY ONLY <1>6, <2>3, Zenon
  <2>8. Counted(d, s)
    <3> HIDE DEF d
    <3> QED BY <2>3, <2>5, <2>6, <2>7 DEF Counted
  <2> HIDE DEF d
  <2> QED BY <2>8 DEF Counted
<1>9. CASE c.type = "outfit"
  <2>1. d = [e EXCEPT !.looks = "outfit"]
    BY <1>9 DEF StartCondition, Speedy
  <2>3. /\ d \in Body /\ d.conditions = l /\ d.speed = b.speed /\ d.skill = b.skill
    <3> HIDE DEF e, d
    <3> QED BY <1>5, <2>1 DEF Body
  <2>4. SpeedBy(c) = 0 /\ SkillBy(c) = 0
    BY <1>9 DEF SpeedBy, SkillBy, Speedy
  <2>5. SpeedOf(l) = SpeedOf(b.conditions) /\ SkillOf(l) = SkillOf(b.conditions)
    BY ONLY <1>2, <1>3, <2>4
  <2>6. \E k \in ToSet(l) : k.type \in Dressing
    BY <1>3, <1>9 DEF Dressing
  <2>8. Counted(d, s)
    <3> HIDE DEF d, l
    <3> QED BY <1>1, <2>3, <2>5, <2>6 DEF Counted
  <2> HIDE DEF d
  <2> QED BY <2>8 DEF Counted
<1>10. CASE c.type = "sleep"
  <2>1. d = [e EXCEPT !.speed = -BaseSpeed, !.looks = "corpse"]
    BY <1>10 DEF StartCondition, Speedy
  <2>3. /\ d \in Body /\ d.conditions = l /\ d.speed = -BaseSpeed /\ d.skill = b.skill
    <3> HIDE DEF e, d
    <3> QED BY <1>4, <1>5, <2>1 DEF Body
  <2>4. SpeedBy(c) = -BaseSpeed /\ SkillBy(c) = 0
    BY <1>10 DEF SpeedBy, SkillBy, Speedy
  <2>5. d.skill = SkillOf(d.conditions)
    <3>1. SkillOf(l) = SkillOf(b.conditions)
      BY ONLY <1>2, <1>3, <2>4
    <3> HIDE DEF d, l
    <3> QED BY ONLY <3>1, <1>1, <2>3, Zenon
  <2>6. c \in ToSet(l) /\ c.type \in Dressing
    BY <1>3, <1>10 DEF Dressing
  <2>7. Asleep(d)
    <3> HIDE DEF d, l
    <3> QED BY <1>10, <2>3, <2>6 DEF Asleep
  <2>8. ASSUME ~Hurried(d) PROVE d.speed = SpeedOf(d.conditions)
    <3>1. \A i \in DOMAIN b.conditions : b.conditions[i].type \notin Speedy \cup {"sleep"}
      <4> SUFFICES ASSUME NEW i \in DOMAIN b.conditions PROVE b.conditions[i].type \notin Speedy \cup {"sleep"}
        OBVIOUS
      <4>1. b.conditions[i] \in ToSet(l) /\ b.conditions[i] \in Condition
        BY <1>2, <1>3 DEF ToSet
      <4>2. b.conditions[i].type \notin Speedy
        <5> HIDE DEF d, l
        <5> QED BY <2>3, <2>8, <4>1 DEF Hurried
      <4>3. b.conditions[i].type # "sleep"
        BY <4>1, <1>10 DEF Same, Condition
      <4> QED BY <4>2, <4>3
    <3>2. SpeedOf(b.conditions) = 0
      BY <1>2, <3>1, NothingHurries
    <3>3. SpeedOf(l) = -BaseSpeed
      BY ONLY <1>3, <1>4, <2>4, <3>2
    <3> HIDE DEF d, l
    <3> QED BY ONLY <2>3, <3>3, Zenon
  <2> HIDE DEF d, l
  <2>9. Counted(d, s \/ (Asleep(d) /\ Hurried(d)))
    BY <2>3, <2>5, <2>6, <2>7, <2>8 DEF Counted
  <2> QED BY <1>10, <2>9
<1> QED BY <1>4, <1>7, <1>8, <1>9, <1>10 DEF Speedy

\* Another of the same type in the place of one.
LEMMA ReplacedCounts ==
    ASSUME NEW b, NEW s, Counted(b, s), NEW i \in DOMAIN b.conditions, NEW c \in Condition,
           c.type = b.conditions[i].type, NEW d \in Body,
           d.conditions = [b.conditions EXCEPT ![i] = c],
           d.speed = b.speed + SpeedBy(c) - SpeedBy(b.conditions[i]),
           d.skill = b.skill + SkillBy(c) - SkillBy(b.conditions[i]),
           d.looks = b.looks \/ c.type \in Dressing
    PROVE  Counted(d, s) /\ (Asleep(d) <=> Asleep(b)) /\ (Hurried(d) <=> Hurried(b))
<1> DEFINE list == b.conditions
           l == [list EXCEPT ![i] = c]
           k == list[i]
<1>1. /\ b \in Body /\ (~s => b.speed = SpeedOf(list)) /\ b.skill = SkillOf(list)
  BY DEF Counted
<1>2. list \in Seq(Condition) /\ k \in Condition
  BY <1>1, ListTypes
<1>3. SpeedOf(l) = SpeedOf(list) + SpeedBy(c) - SpeedBy(k) /\ SkillOf(l) = SkillOf(list) + SkillBy(c) - SkillBy(k)
  BY <1>2, OfReplaced
<1>4. DOMAIN l = DOMAIN list /\ \A j \in DOMAIN list : l[j].type = list[j].type
  BY <1>2
<1>5. \A T : (\E x \in ToSet(l) : x.type \in T) <=> (\E x \in ToSet(list) : x.type \in T)
  BY <1>4 DEF ToSet
<1>6. c \in ToSet(l)
  BY <1>2 DEF ToSet
<1>7. d.conditions = l
  OBVIOUS
<1> HIDE DEF l
<1>8. (Hurried(d) <=> Hurried(b)) /\ (Asleep(d) <=> Asleep(b))
  <2>1. (\E x \in ToSet(l) : x.type \in {"sleep"}) <=> (\E x \in ToSet(list) : x.type \in {"sleep"})
    BY <1>5
  <2>2. (\E x \in ToSet(l) : x.type \in Speedy) <=> (\E x \in ToSet(list) : x.type \in Speedy)
    BY <1>5
  <2>3. Hurried(d) <=> Hurried(b)
    BY <1>7, <2>2 DEF Hurried
  <2>4. Asleep(d) <=> Asleep(b)
    BY <1>7, <2>1 DEF Asleep
  <2> QED BY <2>3, <2>4
<1>9. ~s => d.speed = SpeedOf(d.conditions)
  BY <1>1, <1>3, <1>7
<1>10. d.skill = SkillOf(d.conditions)
  BY <1>1, <1>3, <1>7
<1>11. ASSUME d.looks # "default" PROVE \E x \in ToSet(d.conditions) : x.type \in Dressing
  <2>1. CASE c.type \in Dressing
    BY <1>6, <1>7, <2>1
  <2>2. CASE d.looks = b.looks
    <3>1. \E x \in ToSet(list) : x.type \in Dressing
      BY <1>11, <2>2 DEF Counted
    <3>2. \E x \in ToSet(l) : x.type \in Dressing
      BY <1>5, <3>1
    <3> QED BY <1>7, <3>2
  <2> QED BY <2>1, <2>2
<1> QED BY <1>8, <1>9, <1>10, <1>11 DEF Counted

LEMMA RenewalCounts ==
    ASSUME NEW b, NEW s, Counted(b, s), NEW c \in Condition, NEW i \in Same(b, c)
    PROVE  LET d == Renewed(b, i, c)
           IN  Counted(d, s) /\ (Asleep(d) <=> Asleep(b)) /\ (Hurried(d) <=> Hurried(b))
<1> DEFINE d == Renewed(b, i, c)
           k == b.conditions[i]
           l == [b.conditions EXCEPT ![i] = c]
           speed == IF c.type \in Speedy THEN b.speed + c.value - k.value ELSE b.speed
           skill == IF c.type = "attributes" THEN b.skill + c.value - k.value ELSE b.skill
           looks == IF c.type = "outfit" THEN "outfit" ELSE b.looks
           e == [b EXCEPT !.conditions = l, !.speed = speed, !.skill = skill, !.looks = looks]
<1>1. CASE k.permanent /\ ~c.permanent
  BY <1>1 DEF Renewed
<1>2. CASE ~(k.permanent /\ ~c.permanent)
  <2>1. d = e
    BY <1>2 DEF Renewed
  <2>2. /\ b \in Body /\ b.conditions \in Seq(Condition) /\ b.speed \in Int /\ b.skill \in Int
        /\ i \in DOMAIN b.conditions /\ k \in Condition /\ c.type = k.type
    BY ListTypes DEF Counted, Same
  <2>3. c.value \in Int /\ k.value \in Int /\ BaseSpeed \in Nat
    BY <2>2, ConditionFields, ConditionConstants
  <2>4. l \in Seq(Condition) /\ speed \in Int /\ skill \in Int
    BY <2>2, <2>3
  <2>5. looks \in {"default", "outfit", "corpse"} /\ (looks = b.looks \/ c.type \in Dressing)
    BY <2>2 DEF Dressing, Body
  <2>6. speed = b.speed + SpeedBy(c) - SpeedBy(k)
    BY <2>2, <2>3 DEF SpeedBy
  <2>7. skill = b.skill + SkillBy(c) - SkillBy(k)
    BY <2>2, <2>3 DEF SkillBy
  <2>8. d \in Body /\ d.conditions = l /\ d.speed = speed /\ d.skill = skill /\ d.looks = looks
    <3> HIDE DEF d, l, speed, skill, looks
    <3> QED BY <2>1, <2>2, <2>4, <2>5 DEF Body
  <2> HIDE DEF d, speed, skill, looks
  <2>9. Counted(d, s) /\ (Asleep(d) <=> Asleep(b)) /\ (Hurried(d) <=> Hurried(b))
    BY <2>2, <2>5, <2>6, <2>7, <2>8, ReplacedCounts
  <2> QED BY <2>9 DEF d
<1> QED BY <1>1, <1>2

LEMMA TimeCounts ==
    ASSUME NEW b, NEW s, Counted(b, s), NEW i \in DOMAIN b.conditions, ~b.conditions[i].permanent
    PROVE  LET d == [b EXCEPT !.conditions[i].over = TRUE]
           IN  Counted(d, s) /\ (Asleep(d) <=> Asleep(b)) /\ (Hurried(d) <=> Hurried(b))
<1> DEFINE d == [b EXCEPT !.conditions[i].over = TRUE]
           k == b.conditions[i]
           c == [k EXCEPT !.over = TRUE]
           l == [b.conditions EXCEPT ![i] = c]
<1>1. b \in Body /\ b.conditions \in Seq(Condition) /\ b.speed \in Int /\ b.skill \in Int /\ k \in Condition
  BY ListTypes DEF Counted
<1>2. c \in Condition /\ c.type = k.type /\ c.value = k.value
  BY <1>1 DEF Condition
<1>3. l \in Seq(Condition)
  BY <1>1, <1>2
<1>4. d = [b EXCEPT !.conditions = l]
  OBVIOUS
<1>5. d \in Body /\ d.conditions = l /\ d.speed = b.speed /\ d.skill = b.skill /\ d.looks = b.looks
  <2> HIDE DEF d, l
  <2> QED BY <1>1, <1>3, <1>4, OtherConditions
<1>6. /\ SpeedBy(c) = SpeedBy(k) /\ SkillBy(c) = SkillBy(k)
  BY ONLY <1>2 DEF SpeedBy, SkillBy
<1>7. SpeedBy(k) \in Int /\ SkillBy(k) \in Int
  BY <1>1, ConditionFields
<1>8. b.speed = b.speed + SpeedBy(c) - SpeedBy(k) /\ b.skill = b.skill + SkillBy(c) - SkillBy(k)
  BY ONLY <1>1, <1>6, <1>7
<1> HIDE DEF d, c
<1>9. d.speed = b.speed + SpeedBy(c) - SpeedBy(b.conditions[i])
  BY <1>5, <1>8
<1>10. d.skill = b.skill + SkillBy(c) - SkillBy(b.conditions[i])
  BY <1>5, <1>8
<1>11. Counted(d, s) /\ (Asleep(d) <=> Asleep(b)) /\ (Hurried(d) <=> Hurried(b))
  BY <1>2, <1>5, <1>9, <1>10, ReplacedCounts
<1> QED BY <1>11 DEF d

\* An action that leaves b behind.
LEMMA Becoming ==
    ASSUME NEW b, Becomes(b), Counted(b, slept \/ (Asleep(b) /\ Hurried(b))),
           kind \in {"player", "pokemon"}, slept \in BOOLEAN
    PROVE  /\ Counted(body', slept') /\ (~slept' => ~(Asleep(body') /\ Hurried(body')))
           /\ kind' \in {"player", "pokemon"} /\ slept' \in BOOLEAN
  BY DEF Becomes, Hurried

Waiting == [add : SUBSET Condition, remove : SUBSET ConditionType]

Lives == kind \in {"player", "pokemon"} /\ slept \in BOOLEAN

Balanced ==
    /\ Lives /\ Counted(body, slept)
    /\ ~slept => ~(Asleep(body) /\ Hurried(body))

AccountedInv == Balanced /\ walking \in BOOLEAN /\ delayed \in Waiting

LEMMA BecomesCounted ==
    ASSUME NEW b, Lives, Becomes(b), Counted(b, slept)
    PROVE  Balanced'
<1>1. Counted(b, slept \/ (Asleep(b) /\ Hurried(b)))
  BY DEF Counted
<1> QED BY <1>1, Becoming DEF Lives, Balanced

LEMMA BecomesEnded ==
    ASSUME NEW b, NEW ending, Lives, Becomes(EndAll(b, ending)), Counted(b, slept)
    PROVE  Balanced'
<1> DEFINE e == EndAll(b, ending)
<1>1. Counted(e, slept) /\ Becomes(e)
  BY EndingCounts
<1> HIDE DEF e
<1> QED BY <1>1, BecomesCounted

LEMMA WaitingMore ==
    ASSUME NEW D \in Waiting, NEW type \in ConditionType
    PROVE  /\ [D EXCEPT !.remove = @ \cup {type}] \in Waiting
           /\ [D EXCEPT !.remove = @ \ {type}] \in Waiting
  BY DEF Waiting

LEMMA RemoveTypeKeeps ==
    ASSUME NEW b, NEW type, NEW D \in Waiting, Lives, Counted(b, slept), RemoveType(b, type, D)
    PROVE  Balanced' /\ delayed' \in Waiting
<1>1. CASE type = "paralyze" /\ walking /\ OfType(b, type) # {}
  <2>1. Becomes(b) /\ delayed' = [D EXCEPT !.remove = @ \cup {type}]
    BY <1>1 DEF RemoveType
  <2>2. PICK c \in ToSet(b.conditions) : c.type = type
    BY <1>1 DEF OfType
  <2>3. type \in ConditionType
    BY <2>2, ListTypes, ConditionFields DEF Counted
  <2> QED BY <2>1, <2>3, BecomesCounted, WaitingMore
<1>2. CASE ~(type = "paralyze" /\ walking /\ OfType(b, type) # {})
  <2>1. Becomes(EndAll(b, OfType(b, type))) /\ delayed' = D
    BY <1>2 DEF RemoveType
  <2> QED BY <2>1, BecomesEnded
<1> QED BY <1>1, <1>2

LEMMA AddedKeeps ==
    ASSUME NEW b, NEW type, NEW D \in Waiting, Lives, Added(b, type, D),
           Counted(b, slept \/ (Asleep(b) /\ Hurried(b))),
           type # "sleep" => Counted(b, slept)
    PROVE  Balanced' /\ delayed' \in Waiting
<1>1. CASE kind = "player" /\ type = "paralyze" /\ Has(b, "haste")
  BY <1>1, RemoveTypeKeeps DEF Added
<1>2. CASE kind = "player" /\ type = "haste" /\ Has(b, "paralyze")
  BY <1>2, RemoveTypeKeeps DEF Added
<1>3. CASE Becomes(b) /\ delayed' = D
  BY <1>3, Becoming DEF Lives, Balanced
<1> QED BY <1>1, <1>2, <1>3 DEF Added

LEMMA AddKeeps ==
    ASSUME NEW c \in Condition, NEW D \in Waiting, Balanced, Add(c, D)
    PROVE  Balanced' /\ delayed' \in Waiting
<1>1. Lives /\ Counted(body, slept) /\ (~slept => ~(Asleep(body) /\ Hurried(body)))
  BY DEF Balanced
<1>2. CASE Same(body, c) # {}
  <2>1. PICK i \in Same(body, c) :
           /\ \/ Becomes(Renewed(body, i, c))
              \/ c.type \notin Speedy /\ ~body.conditions[i].over /\ Becomes(body)
           /\ delayed' = D
    BY <1>2 DEF Add
  <2>2. CASE Becomes(body)
    BY <1>1, <2>1, <2>2, BecomesCounted
  <2>3. CASE Becomes(Renewed(body, i, c))
    <3> DEFINE d == Renewed(body, i, c)
    <3>1. Counted(d, slept) /\ Becomes(d)
      BY <1>1, <2>3, RenewalCounts
    <3> HIDE DEF d
    <3> QED BY <1>1, <2>1, <3>1, BecomesCounted
  <2> QED BY <2>1, <2>2, <2>3
<1>3. CASE Same(body, c) = {}
  <2> DEFINE d == StartCondition(body, c)
  <2>1. (c.type # "sleep" => Counted(d, slept)) /\ Counted(d, slept \/ (Asleep(d) /\ Hurried(d)))
    BY <1>1, <1>3, StartCounts
  <2>2. Added(d, c.type, D)
    BY <1>3 DEF Add
  <2> HIDE DEF d
  <2> QED BY <1>1, <2>1, <2>2, AddedKeeps
<1> QED BY <1>2, <1>3

LEMMA AddConditionKeeps ==
    ASSUME AccountedInv, NEW c \in Condition, AddCondition(c)
    PROVE  AccountedInv'
<1>1. CASE c.type = "haste" /\ walking /\ Has(body, "paralyze")
  <2>1. delayed' = [delayed EXCEPT !.add = @ \cup {c}] /\ UNCHANGED <<kind, body, slept, walking>>
    BY <1>1 DEF AddCondition
  <2>2. delayed' \in Waiting
    BY <2>1 DEF AccountedInv, Waiting
  <2> QED BY <2>1, <2>2 DEF AccountedInv, Balanced, Lives
<1>2. CASE ~(c.type = "haste" /\ walking /\ Has(body, "paralyze"))
  <2>1. Add(c, delayed) /\ walking' = walking
    BY <1>2 DEF AddCondition
  <2> QED BY <2>1, AddKeeps DEF AccountedInv
<1> QED BY <1>1, <1>2

LEMMA ForceAddKeeps ==
    ASSUME AccountedInv, ForceAddCondition
    PROVE  AccountedInv'
<1>1. PICK c \in delayed.add : Add(c, [delayed EXCEPT !.add = @ \ {c}]) /\ UNCHANGED walking
  BY DEF ForceAddCondition
<1>2. c \in Condition /\ [delayed EXCEPT !.add = @ \ {c}] \in Waiting
  BY DEF AccountedInv, Waiting
<1> QED BY <1>1, <1>2, AddKeeps DEF AccountedInv

LEMMA ForceRemoveKeeps ==
    ASSUME AccountedInv, ForceRemoveCondition
    PROVE  AccountedInv'
<1>1. PICK type \in delayed.remove :
        /\ Becomes(EndAll(body, OfType(body, type)))
        /\ delayed' = [delayed EXCEPT !.remove = @ \ {type}]
        /\ UNCHANGED walking
  BY DEF ForceRemoveCondition
<1>2. type \in ConditionType
  BY DEF AccountedInv, Waiting
<1>3. Balanced'
  BY <1>1, BecomesEnded DEF AccountedInv, Balanced
<1> QED BY <1>1, <1>2, <1>3, WaitingMore DEF AccountedInv

LEMMA RemoveKeeps ==
    ASSUME AccountedInv, NEW type \in ConditionType, NEW id, RemoveCondition(type, id)
    PROVE  AccountedInv'
<1>1. CASE type = "paralyze" /\ walking
  <2>1. delayed' = [delayed EXCEPT !.remove = @ \cup {type}] /\ UNCHANGED <<kind, body, slept, walking>>
    BY <1>1 DEF RemoveCondition
  <2>2. delayed' \in Waiting
    BY <2>1, WaitingMore DEF AccountedInv
  <2> QED BY <2>1, <2>2 DEF AccountedInv, Balanced, Lives
<1>2. CASE ~(type = "paralyze" /\ walking)
  <2>1. Becomes(EndAll(body, {c \in OfType(body, type) : c.id = id})) /\ UNCHANGED <<delayed, walking>>
    BY <1>2 DEF RemoveCondition
  <2>2. Balanced'
    BY <2>1, BecomesEnded DEF AccountedInv, Balanced
  <2> QED BY <2>1, <2>2 DEF AccountedInv
<1> QED BY <1>1, <1>2

LEMMA ConditionEndsKeeps ==
    ASSUME AccountedInv, ConditionEnds \/ Death
    PROVE  AccountedInv'
<1>1. PICK ending : Becomes(EndAll(body, ending)) /\ UNCHANGED <<walking, delayed>>
  BY DEF ConditionEnds, Death
<1>2. Balanced'
  BY <1>1, BecomesEnded DEF AccountedInv, Balanced
<1> QED BY <1>1, <1>2 DEF AccountedInv

LEMMA CleanKeeps ==
    ASSUME AccountedInv, CleanConditions
    PROVE  AccountedInv'
<1> DEFINE stays == {i \in DOMAIN body.conditions : walking /\ body.conditions[i].type \in {"paralyze", "sleep"}}
           first == IF stays = {} THEN Len(body.conditions) + 1 ELSE CHOOSE i \in stays : \A j \in stays : i <= j
           ending == {body.conditions[i] : i \in 1 .. first - 1}
<1>1. /\ Becomes(EndAll(body, ending))
      /\ delayed' = IF stays = {} THEN delayed
                    ELSE [delayed EXCEPT !.remove = @ \cup {body.conditions[first].type}]
      /\ UNCHANGED walking
  BY Zenon DEF CleanConditions
<1>2. ASSUME stays # {} PROVE body.conditions[first].type \in ConditionType
  <2>1. body.conditions \in Seq(Condition)
    BY ListTypes DEF AccountedInv, Balanced, Counted
  <2>2. stays \in SUBSET Nat
    BY <2>1
  <2>3. \E i \in stays : \A j \in stays : i <= j
    <3> HIDE DEF stays
    <3> QED BY <1>2, <2>2, LeastNumber
  <2>4. first \in stays
    <3> HIDE DEF stays
    <3> QED BY <1>2, <2>3
  <2>5. first \in DOMAIN body.conditions
    <3> HIDE DEF first
    <3> QED BY <2>4
  <2>6. body.conditions[first] \in Condition
    <3> HIDE DEF first
    <3> QED BY <2>1, <2>5
  <2> HIDE DEF first
  <2> QED BY <2>6, ConditionFields
<1> HIDE DEF stays, first, ending
<1>3. Balanced'
  BY <1>1, BecomesEnded DEF AccountedInv, Balanced
<1>4. delayed' \in Waiting
  BY <1>1, <1>2, WaitingMore DEF AccountedInv
<1> QED BY <1>1, <1>3, <1>4 DEF AccountedInv

LEMMA TimeIsUpKeeps ==
    ASSUME AccountedInv, TimeIsUp
    PROVE  AccountedInv'
<1>1. PICK i \in DOMAIN body.conditions :
        /\ ~body.conditions[i].permanent /\ ~body.conditions[i].over
        /\ body' = [body EXCEPT !.conditions[i].over = TRUE]
        /\ UNCHANGED <<kind, walking, delayed, slept>>
  BY DEF TimeIsUp
<1> DEFINE d == [body EXCEPT !.conditions[i].over = TRUE]
<1>2. Counted(d, slept) /\ (Asleep(d) <=> Asleep(body)) /\ (Hurried(d) <=> Hurried(body))
  BY <1>1, TimeCounts DEF AccountedInv, Balanced
<1>3. body' = d
  BY <1>1
<1> HIDE DEF d
<1>4. Balanced'
  BY <1>1, <1>2, <1>3 DEF AccountedInv, Balanced, Lives
<1> QED BY <1>1, <1>4 DEF AccountedInv

LEMMA AccountedStarts ==
    ASSUME ConditionsInit
    PROVE  AccountedInv
<1>1. <<>> \in Seq(Condition) /\ Len(<<>>) = 0
  OBVIOUS
<1>2. SpeedOf(<<>>) = 0 /\ SkillOf(<<>>) = 0
  BY <1>1, UptoAll, UptoNone
<1>3. body \in Body /\ body.conditions = <<>> /\ body.speed = 0 /\ body.skill = 0 /\ body.looks = "default"
  BY <1>1 DEF ConditionsInit, Body
<1>4. Counted(body, slept)
  BY <1>2, <1>3 DEF Counted
<1>5. ~Asleep(body)
  BY <1>3 DEF Asleep, ToSet
<1> QED BY <1>4, <1>5 DEF ConditionsInit, AccountedInv, Balanced, Lives, Waiting

\* Every action of the conditions keeps what they give and what was given in balance.
LEMMA AccountedKept ==
    ASSUME AccountedInv, [ConditionsNext]_conditionVars
    PROVE  AccountedInv'
<1>1. CASE \E c \in Condition : AddCondition(c)
  BY <1>1, AddConditionKeeps
<1>2. CASE \E type \in ConditionType, id \in ConditionId : RemoveCondition(type, id)
  BY <1>2, RemoveKeeps
<1>3. CASE ForceAddCondition
  BY <1>3, ForceAddKeeps
<1>4. CASE ForceRemoveCondition
  BY <1>4, ForceRemoveKeeps
<1>5. CASE ConditionEnds \/ Death
  BY <1>5, ConditionEndsKeeps
<1>6. CASE CleanConditions
  BY <1>6, CleanKeeps
<1>7. CASE TimeIsUp
  BY <1>7, TimeIsUpKeeps
<1>8. CASE Steps
  BY <1>8 DEF Steps, AccountedInv, Balanced, Lives
<1>9. CASE UNCHANGED conditionVars
  BY <1>9 DEF conditionVars, AccountedInv, Balanced, Lives
<1> QED BY <1>1, <1>2, <1>3, <1>4, <1>5, <1>6, <1>7, <1>8, <1>9 DEF ConditionsNext

LEMMA AccountedEnough == AccountedInv => ConditionsAccounted
  BY DEF AccountedInv, Balanced, Lives, Counted, Waiting, ConditionsAccounted, TypeOKConditions, Body, Dressing

\* Whatever conditions a creature is given, and however they were renewed, put off,
\* cured or cut short (addCondition, removeCondition, executeConditions, death): its
\* speed, skill and looks are those of the conditions it still has, for any set of
\* conditions and any length of the list.
THEOREM ConditionsStayAccounted == ConditionsSpec => []ConditionsAccounted
<1>1. ConditionsInit => AccountedInv
  BY AccountedStarts
<1>2. AccountedInv /\ [ConditionsNext]_conditionVars => AccountedInv'
  BY AccountedKept
<1> QED BY <1>1, <1>2, AccountedEnough, PTL DEF ConditionsSpec
=============================================================================
