------------------------------- MODULE Raids -------------------------------
(***************************************************************************)
(* Raids (raids.cpp): a check, which re-arms itself, starts one of the     *)
(* listed raids now and then; a raid is a chain of events of the scheduler *)
(* that ends when the last has been executed or one has failed.  Scripts   *)
(* start raids too, and everything may be loaded anew (SIGHUP, /reload) at *)
(* any time: also when an event has fired and its task waits for the       *)
(* dispatcher, where stopEvent does not find it.                           *)
(*                                                                         *)
(* Chances, delays and the margin between raids are left out.              *)
(***************************************************************************)
EXTENDS Naturals, FiniteSets

CONSTANTS
    RaidName,   \* the raids of raids.xml
    Events,     \* how many events a raid has
    Once,       \* those without repeat
    MaxReloads, \* bound
    NoRaid, Check

ASSUME RaidConstants == /\ Events \in [RaidName -> Nat] /\ Once \subseteq RaidName
                        /\ MaxReloads \in Nat
                        /\ NoRaid \notin RaidName \X Nat /\ Check \notin RaidName \X Nat

Raid == RaidName \X (0 .. MaxReloads)   \* the objects: each load makes new ones
TimerId == 1 .. 2 * (MaxReloads + 1)

VARIABLES
    raidList, running,
    nextEvent,
    deleted,    \* the Raid objects that clear() has deleted
    timers,     \* events of the scheduler, and tasks made of those that fired;
                \* current: checkRaidsEvent or nextEventEvent is its id
    loads,      \* how often everything was loaded anew
    caught      \* auxiliary: such a load has met a task it could not stop

raidVars == <<raidList, running, nextEvent, deleted, timers, loads, caught>>

TypeOKRaids ==
    /\ raidList \subseteq Raid /\ deleted \subseteq Raid
    /\ running \in Raid \cup {NoRaid}
    /\ nextEvent \in [Raid -> Nat]
    /\ timers \subseteq [of : Raid \cup {Check}, id : TimerId, fired : BOOLEAN, current : BOOLEAN]
    /\ loads \in 0 .. MaxReloads /\ caught \in BOOLEAN

-----------------------------------------------------------------------------
(* The scheduler, as far as it matters here *)

AddEvent(T, what) ==
    LET id == CHOOSE n \in TimerId : \A t \in T : t.id # n
    IN  {IF t.of = what THEN [t EXCEPT !.current = FALSE] ELSE t : t \in T}
        \cup {[of |-> what, id |-> id, fired |-> FALSE, current |-> TRUE]}

StopEvents(T, whats) == {t \in T : ~(t.of \in whats /\ t.current /\ ~t.fired)}

RaidFire(what) ==
    /\ \E t \in timers :
          /\ t.of = what /\ ~t.fired
          /\ timers' = (timers \ {t}) \cup {[t EXCEPT !.fired = TRUE]}
    /\ UNCHANGED <<raidList, running, nextEvent, deleted, loads, caught>>

-----------------------------------------------------------------------------
(* The handlers *)

RaidsLoaded(n) == RaidName \X {n}

RaidInit ==
    /\ raidList = RaidsLoaded(0) /\ running = NoRaid /\ deleted = {}
    /\ nextEvent = [r \in Raid |-> 0]
    /\ timers = AddEvent({}, Check)
    /\ loads = 0 /\ caught = FALSE

RaidStartedShort(T, r) == IF nextEvent[r] + 1 < Events[r[1]] THEN AddEvent(T, r) ELSE T

\* Raid::startRaid: a raid without events has nothing that would end it.
RaidStarted(T, r) == IF nextEvent[r] < Events[r[1]] THEN AddEvent(T, r) ELSE T

MayStart == running = NoRaid

CheckRaids ==
    \E t \in timers :
        /\ t.of = Check /\ t.fired
        /\ \/ /\ timers' = AddEvent(timers \ {t}, Check)
              /\ UNCHANGED <<raidList, running>>
           \/ \E r \in raidList :
                /\ MayStart
                /\ running' = r
                /\ raidList' = IF r[1] \in Once THEN raidList \ {r} ELSE raidList
                /\ timers' = AddEvent(RaidStarted(timers \ {t}, r), Check)
        /\ UNCHANGED <<nextEvent, deleted, loads, caught>>

\* Game.startRaid
GameStartRaid ==
    \E r \in raidList :
        /\ MayStart
        /\ running' = r
        /\ timers' = RaidStarted(timers, r)
        /\ UNCHANGED <<raidList, nextEvent, deleted, loads, caught>>

\* The task of a deleted raid is not executed here: what it does is undefined.
ExecuteRaidEvent(r) ==
    \E t \in timers :
        LET rest == timers \ {t}
            next == nextEvent[r] + 1
            ResetRaid == /\ running' = NoRaid
                         /\ nextEvent' = [nextEvent EXCEPT ![r] = 0]
                         /\ timers' = rest
        IN  /\ t.fired /\ t.of = r /\ r \notin deleted
            /\ \/ ResetRaid     \* the event failed
               \/ IF next < Events[r[1]]
                  THEN /\ nextEvent' = [nextEvent EXCEPT ![r] = next]
                       /\ timers' = AddEvent(rest, r)
                       /\ UNCHANGED running
                  ELSE ResetRaid
            /\ UNCHANGED <<raidList, deleted, loads, caught>>

ChecksCleared == StopEvents(timers, {Check})
RaidsCleared == StopEvents(timers, {Check} \cup raidList)

\* clear, loadFromXml and startup
ReloadRaids ==
    /\ loads < MaxReloads
    /\ loads' = loads + 1
    /\ deleted' = deleted \cup raidList
    /\ raidList' = RaidsLoaded(loads + 1)
    /\ running' = NoRaid
    /\ timers' = AddEvent(RaidsCleared, Check)
    /\ caught' = (caught \/ \E t \in timers : t.fired \/ t.of \notin raidList \cup {Check})
    /\ UNCHANGED nextEvent

RaidNext ==
    \/ \E what \in Raid \cup {Check} : RaidFire(what)
    \/ CheckRaids
    \/ GameStartRaid
    \/ \E r \in Raid : ExecuteRaidEvent(r)
    \/ ReloadRaids

\* An event fires when its time has come, a queued task is executed.
RaidFairness == \A r \in Raid : WF_raidVars(RaidFire(r)) /\ WF_raidVars(ExecuteRaidEvent(r))

RaidSpec == RaidInit /\ [][RaidNext]_raidVars /\ RaidFairness

-----------------------------------------------------------------------------
(* Properties *)

Of(what) == {t \in timers : t.of = what}

\* There is one check, and one raid at a time: the running one, with one event,
\* and no event of a raid that was deleted.  A load that meets a task it cannot
\* stop, or a raid that is not listed any more because it runs once, breaks this
\* and is excepted.
RaidsExclusive ==
    TypeOKRaids /\ (~caught =>
        /\ Cardinality(Of(Check)) = 1
        /\ \A r \in Raid : Of(r) # {} => /\ running = r /\ r \notin deleted
                                         /\ Cardinality(Of(r)) = 1
        /\ running # NoRaid /\ Events[running[1]] > 0 => Of(running) # {})

\* A raid that has any events ends.
RaidEnds == \A r \in Raid : running = r /\ Events[r[1]] > 0 ~> running # r
=============================================================================
