--------------------------- MODULE ServiceProofs ---------------------------
(***************************************************************************)
(* Theorems about the services of the server, for any set of ports, about  *)
(* raids, for any list of raids and any number of reloads, and about the   *)
(* line before a full server, for any number of characters.                *)
(***************************************************************************)
EXTENDS Raids, Services, WaitingList, FoldProofs, TLAPS

One(b) == IF b THEN 1 ELSE 0

\* What a port has coming: an event or a task that will open it, an accept that is
\* about to be started or is under way.
Coming(p) == events[p] + tasks[p] + One(accepting[p]) + One(opening = p)

\* At no time, before or after the shutdown, has a port two of them; a port that
\* was not added has none.
OneComing ==
    /\ \A p \in Port : Coming(p) <= 1
    /\ game # "down" => stops = {} /\ \A p \in Port \ acceptors : Coming(p) = 0

\* Where main is, seen from the loader and the game.
MainPlaced ==
    /\ loader = "loading" => game = "up"
    /\ game # "down" /\ main = "serving" => managerRunning
    /\ ~misled /\ loader = "loading" => main \in {"starting", "waiting"}
    /\ ~misled /\ game # "down" /\ main \in {"offline", "ended"} => acceptors = {}

\* What PortSound says while the game is up.
PortUp(p) ==
    \/ acceptor[p] = "open" /\ ~pendingStart[p] /\ events[p] + tasks[p] = 0
       /\ (accepting[p] # (opening = p))
    \/ acceptor[p] # "open" /\ pendingStart[p] /\ events[p] + tasks[p] = 1

PortsUp == ~misled /\ game = "up" => \A p \in acceptors : PortUp(p)

PortInv == TypeOKServices /\ OneComing /\ MainPlaced /\ PortsUp


USE ServicesAssumption

\* Before anything is loaded no port has anything coming.
LEMMA PortInit == ServicesInit => PortInv
<1> SUFFICES ASSUME ServicesInit PROVE PortInv
  OBVIOUS
<1>1. TypeOKServices
  <2>1. /\ [p \in Port |-> "none"] \in [Port -> {"none", "closed", "open"}]
        /\ [p \in Port |-> FALSE] \in [Port -> BOOLEAN]
        /\ [p \in Port |-> 0] \in [Port -> 0..1]
    OBVIOUS
  <2> QED
    BY <2>1 DEF ServicesInit, TypeOKServices
<1>2. OneComing
  BY DEF ServicesInit, OneComing, Coming, One
<1>3. MainPlaced /\ PortsUp
  BY DEF ServicesInit, MainPlaced, PortsUp
<1> QED
  BY <1>1, <1>2, <1>3 DEF PortInv

\* main and the loader.
LEMMA PortMain ==
  ASSUME PortInv, MainWaits \/ SpuriousWakeup \/ MainGoesOn \/ MainEnds \/ LoadFailed \/ Loaded \/ ManagerDie
  PROVE  PortInv'
<1> USE DEF PortInv, TypeOKServices, portVars
<1>1. TypeOKServices'
  <2>1. CASE MainGoesOn
    <3>1. events' \in [Port -> 0..1]
      BY <2>1 DEF MainGoesOn
    <3> QED
      BY <2>1, <3>1 DEF MainGoesOn
  <2>2. CASE MainWaits \/ SpuriousWakeup \/ MainEnds \/ ManagerDie
    BY <2>2 DEF MainWaits, SpuriousWakeup, MainEnds, ManagerDie
  <2>3. CASE LoadFailed \/ Loaded
    BY <2>3 DEF LoadFailed, Loaded, Notified
  <2> QED
    BY <2>1, <2>2, <2>3
<1>2. \A p \in Port : events'[p] <= events[p] /\ Coming(p)' <= Coming(p)
  BY DEF MainWaits, SpuriousWakeup, MainGoesOn, MainEnds, LoadFailed, Loaded, ManagerDie, Notified, Coming, One
<1>3. OneComing'
  BY <1>1, <1>2 DEF OneComing, MainWaits, SpuriousWakeup, MainGoesOn, MainEnds, LoadFailed, Loaded, ManagerDie, Coming, One
<1>4. MainPlaced'
  BY DEF MainPlaced, MainWaits, SpuriousWakeup, MainGoesOn, MainEnds, LoadFailed, Loaded, ManagerDie, Notified, IsRunning
<1>5. PortsUp'
  BY DEF PortsUp, PortUp, MainWaits, SpuriousWakeup, MainGoesOn, MainEnds, LoadFailed, Loaded, ManagerDie, IsRunning
<1> QED
  BY <1>1, <1>3, <1>4, <1>5

\* ServicePort::open: what is to come of the port p, if nothing but the task that
\* opens it was.
LEMMA OpenComes ==
  ASSUME TypeOKServices, NEW p \in Port, Open(p), opening = NoPort,
         tasks' \in [Port -> 0..1], \A q \in Port \ {p} : tasks'[q] = tasks[q],
         accepting' = accepting, events[p] = 0, tasks'[p] = 0, ~accepting[p]
  PROVE  /\ acceptor' \in [Port -> {"none", "closed", "open"}]
         /\ pendingStart' \in [Port -> BOOLEAN]
         /\ events' \in [Port -> 0..1]
         /\ opening' \in Port \cup {NoPort}
         /\ Coming(p)' <= 1
         /\ \A q \in Port \ {p} : Coming(q)' = Coming(q)
         /\ \A q \in Port \ {p} : PortUp(q) => PortUp(q)'
         /\ game = "up" /\ main # "offline" => PortUp(p)'
<1> USE DEF TypeOKServices
<1>1. CASE /\ acceptor' = [acceptor EXCEPT ![p] = "open"]
           /\ pendingStart' = [pendingStart EXCEPT ![p] = FALSE]
           /\ opening' = p
           /\ UNCHANGED events
  BY <1>1 DEF Coming, One, PortUp
<1>2. CASE /\ acceptor' = [acceptor EXCEPT ![p] = IF @ = "open" THEN "closed" ELSE @]
           /\ pendingStart' = [pendingStart EXCEPT ![p] = TRUE]
           /\ events' = AddEventFor(p)
           /\ UNCHANGED opening
  <2>1. events' = [events EXCEPT ![p] = 1] \/ events' = events
    BY <1>2 DEF AddEventFor
  <2>2. game = "up" /\ main # "offline" => events' = [events EXCEPT ![p] = 1]
    BY <1>2 DEF AddEventFor
  <2> QED
    BY <1>2, <2>1, <2>2 DEF Coming, One, PortUp
<1> QED
  BY <1>1, <1>2 DEF Open

\* The loader adds a port.
LEMMA PortAdded ==
  ASSUME PortInv, NEW p \in Port, AddPort(p)
  PROVE  PortInv'
<1> USE DEF PortInv, AddPort
<1>1. game = "up" /\ Coming(p) = 0 /\ stops = {}
  BY DEF OneComing, MainPlaced
<1>2. events[p] = 0 /\ tasks[p] = 0 /\ ~accepting[p]
  BY <1>1 DEF TypeOKServices, Coming, One
<1>3. /\ acceptor' \in [Port -> {"none", "closed", "open"}]
      /\ pendingStart' \in [Port -> BOOLEAN]
      /\ events' \in [Port -> 0..1]
      /\ opening' \in Port \cup {NoPort}
      /\ Coming(p)' <= 1
      /\ \A q \in Port \ {p} : Coming(q)' = Coming(q)
      /\ \A q \in Port \ {p} : PortUp(q) => PortUp(q)'
      /\ game = "up" /\ main # "offline" => PortUp(p)'
  BY <1>2, OpenComes DEF TypeOKServices
<1>4. TypeOKServices'
  BY <1>3 DEF TypeOKServices
<1>5. OneComing'
  BY <1>1, <1>3 DEF OneComing
<1>6. MainPlaced'
  BY DEF MainPlaced
<1>7. PortsUp'
  BY <1>1, <1>3 DEF PortsUp, MainPlaced, TypeOKServices
<1> QED
  BY <1>4, <1>5, <1>6, <1>7

\* The event opens a port again.
LEMMA PortReopened ==
  ASSUME PortInv, NEW p \in Port, OpenAcceptor(p)
  PROVE  PortInv'
<1> USE DEF PortInv, OpenAcceptor
<1>1. Coming(p) <= 1 /\ events[p] = 0 /\ tasks[p] = 1 /\ ~accepting[p]
  BY DEF OneComing, TypeOKServices, Coming, One
<1>2. tasks' \in [Port -> 0..1] /\ tasks'[p] = 0 /\ \A q \in Port \ {p} : tasks'[q] = tasks[q]
  BY <1>1 DEF TypeOKServices
<1>3. CASE Open(p)
  <2>1. /\ acceptor' \in [Port -> {"none", "closed", "open"}]
        /\ pendingStart' \in [Port -> BOOLEAN]
        /\ events' \in [Port -> 0..1]
        /\ opening' \in Port \cup {NoPort}
        /\ Coming(p)' <= 1
        /\ \A q \in Port \ {p} : Coming(q)' = Coming(q)
        /\ \A q \in Port \ {p} : PortUp(q) => PortUp(q)'
        /\ game = "up" /\ main # "offline" => PortUp(p)'
    BY <1>1, <1>2, <1>3, OpenComes
  <2>2. TypeOKServices'
    BY <1>2, <2>1 DEF TypeOKServices
  <2>3. game # "down" => p \in acceptors
    BY <1>1 DEF OneComing, Coming, One, TypeOKServices
  <2>4. OneComing'
    BY <2>1, <2>3 DEF OneComing
  <2>5. MainPlaced'
    BY DEF MainPlaced
  <2>6. PortsUp'
    BY <2>1, <2>3 DEF PortsUp, MainPlaced, TypeOKServices
  <2> QED
    BY <2>2, <2>4, <2>5, <2>6
<1>4. CASE UNCHANGED <<acceptor, pendingStart, events, opening>> /\ p \notin acceptors
  <2>1. TypeOKServices'
    BY <1>2, <1>4 DEF TypeOKServices
  <2>2. game = "down"
    BY <1>1, <1>4 DEF OneComing, Coming, One, TypeOKServices
  <2>3. \A q \in Port : Coming(q)' <= Coming(q)
    BY <1>1, <1>2, <1>4 DEF Coming, One, TypeOKServices
  <2>4. \A q \in Port : Coming(q) \in Nat /\ Coming(q)' \in Nat
    BY <2>1 DEF Coming, One, TypeOKServices
  <2>5. OneComing'
    BY <2>2, <2>3, <2>4 DEF OneComing
  <2> QED
    BY <1>4, <2>1, <2>2, <2>5 DEF MainPlaced, PortsUp
<1> QED
  BY <1>3, <1>4

\* accept() after open(), the event that fires, and an accept that fails.
LEMMA PortHandled ==
  ASSUME PortInv, NEW p \in Port, ReopenFires(p) \/ OnAccept(p) \/ OnStopServer(p) \/ Accepts
  PROVE  PortInv'
<1> USE DEF PortInv
<1>0. \A q \in Port : Coming(q) <= 1 /\ Coming(q) \in Nat
  BY DEF OneComing, Coming, One, TypeOKServices
<1>1. CASE ReopenFires(p)
  <2>1. events[p] = 1 /\ tasks[p] = 0
    BY <1>0, <1>1 DEF ReopenFires, Coming, One, TypeOKServices
  <2>2. TypeOKServices'
    BY <1>1, <2>1 DEF ReopenFires, TypeOKServices
  <2>3. \A q \in Port : Coming(q)' = Coming(q) /\ events'[q] + tasks'[q] = events[q] + tasks[q]
    BY <1>1, <2>1 DEF ReopenFires, TypeOKServices, Coming, One
  <2> QED
    BY <1>1, <2>2, <2>3 DEF ReopenFires, OneComing, MainPlaced, PortsUp, PortUp
<1>2. CASE Accepts
  <2> USE <1>2 DEF Accepts
  <2>1. TypeOKServices'
    BY DEF TypeOKServices
  <2>2. opening \in Port /\ ~accepting[opening]
    BY <1>0 DEF TypeOKServices, Coming, One
  <2>3. \A q \in Port : Coming(q)' = Coming(q)
    BY <2>2 DEF TypeOKServices, Coming, One
  <2>4. \A q \in Port : PortUp(q) => PortUp(q)'
    BY <2>2 DEF TypeOKServices, PortUp
  <2> QED
    BY <2>1, <2>3, <2>4 DEF OneComing, MainPlaced, PortsUp, TypeOKServices
<1>3. CASE OnStopServer(p)
  <2> USE <1>3 DEF OnStopServer
  <2>1. TypeOKServices' /\ game = "down"
    BY DEF TypeOKServices, OneComing
  <2>2. \A q \in Port : Coming(q)' = Coming(q)
    BY DEF Coming
  <2> QED
    BY <2>1, <2>2 DEF OneComing, MainPlaced, PortsUp
<1>4. CASE OnAccept(p)
  <2> USE <1>4 DEF OnAccept
  <2>1. events[p] = 0 /\ tasks[p] = 0 /\ opening # p /\ accepting[p]
    BY <1>0 DEF TypeOKServices, Coming, One
  <2>2. game # "down" => p \in acceptors
    BY <2>1 DEF OneComing, Coming, One, TypeOKServices
  <2>3. CASE UNCHANGED <<acceptor, pendingStart, accepting, events>>
    BY <2>3 DEF TypeOKServices, OneComing, MainPlaced, PortsUp, PortUp, Coming
  <2>4. CASE /\ accepting' = [accepting EXCEPT ![p] = FALSE]
             /\ acceptor[p] = "open" /\ ~pendingStart[p]
             /\ acceptor' = [acceptor EXCEPT ![p] = "closed"]
             /\ pendingStart' = [pendingStart EXCEPT ![p] = TRUE]
             /\ events' = AddEventFor(p)
    <3>1. events' = [events EXCEPT ![p] = 1] \/ events' = events
      BY <2>1 DEF AddEventFor, TypeOKServices
    <3>2. game = "up" => events' = [events EXCEPT ![p] = 1]
      BY <2>1, <2>4 DEF AddEventFor, TypeOKServices
    <3>3. TypeOKServices'
      BY <2>4, <3>1 DEF TypeOKServices
    <3>4. Coming(p)' <= 1 /\ \A q \in Port \ {p} : Coming(q)' = Coming(q)
      BY <2>1, <2>4, <3>1 DEF TypeOKServices, Coming, One
    <3>5. game = "up" => PortUp(p)'
      BY <2>1, <2>4, <3>2 DEF TypeOKServices, PortUp
    <3>6. \A q \in Port \ {p} : PortUp(q) => PortUp(q)'
      BY <2>4, <3>1 DEF TypeOKServices, PortUp
    <3> QED
      BY <2>2, <3>3, <3>4, <3>5, <3>6 DEF OneComing, MainPlaced, PortsUp, TypeOKServices
  <2>5. CASE /\ accepting' = [accepting EXCEPT ![p] = FALSE]
             /\ ~(acceptor[p] = "open" /\ ~pendingStart[p])
             /\ UNCHANGED <<acceptor, pendingStart, events>>
    <3>1. TypeOKServices'
      BY <2>5 DEF TypeOKServices
    <3>2. \A q \in Port : Coming(q)' <= Coming(q) /\ Coming(q)' \in Nat
      BY <2>5, <3>1 DEF TypeOKServices, Coming, One
    <3>3. ~PortUp(p)
      <4>1. events[p] + tasks[p] = 0
        BY <2>1
      <4> QED
        BY ONLY <2>5, <4>1 DEF PortUp
    <3> QED
      BY <1>0, <2>2, <3>1, <3>2, <3>3 DEF OneComing, MainPlaced, PortsUp
  <2> QED
    BY <2>3, <2>4, <2>5
<1> QED
  BY <1>1, <1>2, <1>3, <1>4

\* The game is closed, and the services are stopped.
LEMMA PortShutdown ==
  ASSUME PortInv, SetGameStateShutdown \/ GameShutdown
  PROVE  PortInv'
<1> USE DEF PortInv
<1>1. CASE SetGameStateShutdown
  BY <1>1 DEF SetGameStateShutdown, portVars, TypeOKServices, OneComing, MainPlaced, PortsUp, Coming
<1>2. CASE GameShutdown
  <2>1. TypeOKServices'
    <3>1. events' \in [Port -> 0..1]
      BY <1>2 DEF GameShutdown
    <3> QED
      BY <1>2, <3>1 DEF GameShutdown, TypeOKServices
  <2>2. \A q \in Port : Coming(q)' <= Coming(q) /\ Coming(q)' \in Nat /\ Coming(q) \in Nat
    BY <1>2, <2>1 DEF GameShutdown, TypeOKServices, Coming, One
  <2> QED
    BY <1>2, <2>1, <2>2 DEF GameShutdown, OneComing, MainPlaced, PortsUp
<1> QED
  BY <1>1, <1>2

\* Every step of the server keeps the invariant.
LEMMA PortStep == PortInv /\ [ServicesNext]_serviceVars => PortInv'
<1> SUFFICES ASSUME PortInv, [ServicesNext]_serviceVars PROVE PortInv'
  OBVIOUS
<1>1. CASE UNCHANGED serviceVars
  BY <1>1 DEF serviceVars, portVars, PortInv, TypeOKServices, OneComing, MainPlaced, PortsUp,
     PortUp, Coming
<1>2. CASE Accepts /\ Port = {}
  BY <1>2 DEF Accepts, PortInv, TypeOKServices
<1> QED
  BY <1>1, <1>2, PortMain, PortAdded, PortReopened, PortHandled, PortShutdown DEF ServicesNext

\* What is to be shown of the ports follows from it.
LEMMA PortImplied == PortInv => PortSound
BY DEF PortInv, PortSound, PortsUp, PortUp, OneComing, Coming, One, TypeOKServices

\* ServicePort::open, onAccept and the events that open a port again: as long as the
\* game is up, a port that was added accepts or is about to be opened, by a single
\* event or task, and at no time are there two of them - whatever the ports and however
\* often an accept fails.
THEOREM PortsSound == ServicesSpec => []PortSound
BY PortInit, PortStep, PortImplied, PTL DEF ServicesSpec

-----------------------------------------------------------------------------
(* Raids                                                                    *)

HIDE ServicesAssumption
USE RaidConstants


Timer == [of : Raid \cup {Check}, id : TimerId, fired : BOOLEAN, current : BOOLEAN]

CheckIds(T) == {t.id : t \in {u \in T : u.of = Check}}
RaidIds(T) == {t.id : t \in {u \in T : u.of # Check}}

\* A set of timers, each with an id of its own.
Timers(T) == T \in SUBSET Timer /\ \A t, u \in T : t.id = u.id => t = u

\* There are fewer timers than ids.
Room(T) == Cardinality(CheckIds(T)) + Cardinality(RaidIds(T)) < 2 * (MaxReloads + 1)

\* The ids of a set of timers are finitely many.
LEMMA IdsFinite ==
  ASSUME NEW T \in SUBSET Timer
  PROVE  /\ CheckIds(T) \subseteq TimerId /\ RaidIds(T) \subseteq TimerId
         /\ IsFiniteSet(CheckIds(T)) /\ IsFiniteSet(RaidIds(T))
         /\ Cardinality(CheckIds(T)) \in Nat /\ Cardinality(RaidIds(T)) \in Nat
<1>1. IsFiniteSet(TimerId)
  BY FS_Interval DEF TimerId
<1>2. CheckIds(T) \subseteq TimerId /\ RaidIds(T) \subseteq TimerId
  BY DEF CheckIds, RaidIds, Timer
<1> QED
  BY <1>1, <1>2, FS_Subset, FS_CardinalityType

\* As long as there is room an id is free.
LEMMA IdFree ==
  ASSUME NEW T, Timers(T), Room(T)
  PROVE  \E n \in TimerId : \A t \in T : t.id # n
<1> DEFINE all == CheckIds(T) \cup RaidIds(T)
<1>1. /\ IsFiniteSet(CheckIds(T)) /\ IsFiniteSet(RaidIds(T)) /\ all \subseteq TimerId
      /\ Cardinality(CheckIds(T)) \in Nat /\ Cardinality(RaidIds(T)) \in Nat
  BY IdsFinite DEF Timers
<1>2. /\ IsFiniteSet(CheckIds(T) \cap RaidIds(T))
      /\ Cardinality(CheckIds(T) \cap RaidIds(T)) \in Nat
  <2>1. CheckIds(T) \cap RaidIds(T) \in SUBSET CheckIds(T)
    OBVIOUS
  <2> QED
    BY <1>1, <2>1, FS_Subset, FS_CardinalityType
<1>3. IsFiniteSet(all) /\ Cardinality(all) <= Cardinality(CheckIds(T)) + Cardinality(RaidIds(T))
  <2>1. /\ IsFiniteSet(all)
        /\ Cardinality(all) = Cardinality(CheckIds(T)) + Cardinality(RaidIds(T))
                               - Cardinality(CheckIds(T) \cap RaidIds(T))
    BY <1>1, FS_Union
  <2> QED
    BY <1>1, <1>2, <2>1
<1>4. Cardinality(TimerId) = 2 * (MaxReloads + 1)
  BY FS_Interval DEF TimerId
<1>5. all # TimerId
  <2> SUFFICES ASSUME all = TimerId PROVE FALSE
    OBVIOUS
  <2>1. Cardinality(all) = 2 * (MaxReloads + 1)
    BY <1>4
  <2> QED
    BY <1>1, <1>3, <2>1 DEF Room
<1>6. PICK n \in TimerId : n \notin all
  BY <1>1, <1>5
<1>7. \A t \in T : t.id \in all
  BY DEF CheckIds, RaidIds
<1> QED
  BY <1>6, <1>7

\* Scheduler::addEvent, with an id of its own, counts one more of its kind.
LEMMA EventAdded ==
  ASSUME NEW T, Timers(T), Room(T), NEW what \in Raid \cup {Check}
  PROVE  /\ Timers(AddEvent(T, what))
         /\ Cardinality(CheckIds(AddEvent(T, what))) = Cardinality(CheckIds(T)) + One(what = Check)
         /\ Cardinality(RaidIds(AddEvent(T, what))) = Cardinality(RaidIds(T)) + One(what # Check)
         /\ (\A t \in T : t.of # what) => \E n \in TimerId :
              AddEvent(T, what) =
                T \cup {[of |-> what, id |-> n, fired |-> FALSE, current |-> TRUE]}
<1> DEFINE n == CHOOSE n \in TimerId : \A t \in T : t.id # n
           new == [of |-> what, id |-> n, fired |-> FALSE, current |-> TRUE]
           dim(t) == IF t.of = what THEN [t EXCEPT !.current = FALSE] ELSE t
           old == {dim(t) : t \in T}
           all == AddEvent(T, what)
<1>1. n \in TimerId /\ \A t \in T : t.id # n
  BY IdFree
<1> HIDE DEF n
<1>2. all = old \cup {new}
  BY DEF AddEvent, n
<1>3. \A t \in T : dim(t) \in Timer /\ dim(t).id = t.id /\ dim(t).of = t.of
  <2>1. T \subseteq Timer
    BY DEF Timers
  <2>2. ASSUME NEW t \in Timer
        PROVE  LET u == [t EXCEPT !.current = FALSE] IN u \in Timer /\ u.id = t.id /\ u.of = t.of
    BY DEF Timer
  <2> QED
    BY <2>1, <2>2
<1>4. Timers(all)
  <2>1. new \in Timer
    BY <1>1 DEF Timer
  <2>2. all \in SUBSET Timer
    BY <1>2, <1>3, <2>1
  <2>3. ASSUME NEW t \in all, NEW u \in all, t.id = u.id PROVE t = u
    <3>1. CASE t = new \/ u = new
      <4>1. \A o \in old : o.id # n
        BY <1>1, <1>3
      <4>2. new.id = n
        OBVIOUS
      <4> QED
        BY <1>2, <2>3, <3>1, <4>1, <4>2
    <3>2. CASE t # new /\ u # new
      <4>1. PICK a \in T : t = dim(a)
        BY <1>2, <3>2
      <4>2. PICK b \in T : u = dim(b)
        BY <1>2, <3>2
      <4>3. a.id = b.id
        BY <1>3, <2>3, <4>1, <4>2
      <4> QED
        BY <4>1, <4>2, <4>3 DEF Timers
    <3> QED
      BY <3>1, <3>2
  <2> QED
    BY <2>2, <2>3 DEF Timers
<1>5. /\ CheckIds(all) = IF what = Check THEN CheckIds(T) \cup {n} ELSE CheckIds(T)
      /\ RaidIds(all) = IF what # Check THEN RaidIds(T) \cup {n} ELSE RaidIds(T)
  <2>1. CheckIds(old) = CheckIds(T) /\ RaidIds(old) = RaidIds(T)
    <3>1. \A t \in T : (dim(t).of = Check <=> t.of = Check) /\ dim(t).id = t.id
      BY <1>3
    <3> HIDE DEF dim
    <3> QED
      BY <3>1 DEF CheckIds, RaidIds
  <2>2. new.of = what /\ new.id = n
    OBVIOUS
  <2>3. /\ CheckIds(all) = CheckIds(old) \cup CheckIds({new})
        /\ RaidIds(all) = RaidIds(old) \cup RaidIds({new})
    <3> HIDE DEF old, new
    <3> QED
      BY <1>2 DEF CheckIds, RaidIds
  <2>4. /\ CheckIds({new}) = IF what = Check THEN {n} ELSE {}
        /\ RaidIds({new}) = IF what # Check THEN {n} ELSE {}
    BY <2>2 DEF CheckIds, RaidIds
  <2> HIDE DEF old, new
  <2> QED
    BY <2>1, <2>3, <2>4
<1>6. n \notin CheckIds(T) /\ n \notin RaidIds(T)
  BY <1>1 DEF CheckIds, RaidIds
<1>7. /\ IsFiniteSet(CheckIds(T)) /\ IsFiniteSet(RaidIds(T))
      /\ Cardinality(CheckIds(T)) \in Nat /\ Cardinality(RaidIds(T)) \in Nat
  BY IdsFinite DEF Timers
<1>8. /\ Cardinality(CheckIds(all)) = Cardinality(CheckIds(T)) + One(what = Check)
      /\ Cardinality(RaidIds(all)) = Cardinality(RaidIds(T)) + One(what # Check)
  <2>1. /\ Cardinality(CheckIds(T) \cup {n}) = Cardinality(CheckIds(T)) + 1
        /\ Cardinality(RaidIds(T) \cup {n}) = Cardinality(RaidIds(T)) + 1
    BY <1>6, <1>7, FS_AddElement
  <2> HIDE DEF all
  <2> QED
    BY <1>5, <1>7, <2>1 DEF One
<1>9. (\A t \in T : t.of # what) => old = T
  OBVIOUS
<1> QED
  BY <1>1, <1>2, <1>4, <1>8, <1>9

\* A timer that is taken out counts one less of its kind.
LEMMA EventTaken ==
  ASSUME NEW T, Timers(T), NEW t \in T
  PROVE  /\ Timers(T \ {t})
         /\ Cardinality(CheckIds(T \ {t})) = Cardinality(CheckIds(T)) - One(t.of = Check)
         /\ Cardinality(RaidIds(T \ {t})) = Cardinality(RaidIds(T)) - One(t.of # Check)
<1>1. Timers(T \ {t})
  BY DEF Timers
<1>2. /\ CheckIds(T \ {t}) = IF t.of = Check THEN CheckIds(T) \ {t.id} ELSE CheckIds(T)
      /\ RaidIds(T \ {t}) = IF t.of # Check THEN RaidIds(T) \ {t.id} ELSE RaidIds(T)
  BY DEF Timers, CheckIds, RaidIds
<1>3. IF t.of = Check THEN t.id \in CheckIds(T) ELSE t.id \in RaidIds(T)
  BY DEF CheckIds, RaidIds
<1>4. /\ IsFiniteSet(CheckIds(T)) /\ IsFiniteSet(RaidIds(T))
      /\ Cardinality(CheckIds(T)) \in Nat /\ Cardinality(RaidIds(T)) \in Nat
  BY IdsFinite DEF Timers
<1> QED
  <2>1. /\ t.of = Check => Cardinality(CheckIds(T) \ {t.id}) = Cardinality(CheckIds(T)) - 1
        /\ t.of # Check => Cardinality(RaidIds(T) \ {t.id}) = Cardinality(RaidIds(T)) - 1
    BY <1>3, <1>4, FS_RemoveElement
  <2> QED
    BY <1>1, <1>2, <1>4, <2>1 DEF One

\* Fewer timers have fewer ids.
LEMMA EventsStopped ==
  ASSUME NEW T, Timers(T), NEW U \in SUBSET T
  PROVE  /\ Timers(U)
         /\ Cardinality(CheckIds(U)) <= Cardinality(CheckIds(T))
         /\ Cardinality(RaidIds(U)) <= Cardinality(RaidIds(T))
<1>1. Timers(U)
  BY DEF Timers
<1>2. CheckIds(U) \in SUBSET CheckIds(T) /\ RaidIds(U) \in SUBSET RaidIds(T)
  BY DEF CheckIds, RaidIds
<1>3. IsFiniteSet(CheckIds(T)) /\ IsFiniteSet(RaidIds(T))
  BY IdsFinite DEF Timers
<1> QED
  BY <1>1, <1>2, <1>3, FS_Subset
-----------------------------------------------------------------------------
\* Every raid that exists is of a load that was made, and one of a later load has
\* not begun.
Dated ==
    /\ \A r \in raidList \cup deleted : r[2] <= loads
    /\ running # NoRaid => running[2] <= loads
    /\ \A t \in timers : t.of # Check => t.of[2] <= loads
    /\ \A r \in Raid : nextEvent[r] <= Events[r[1]] /\ (r[2] > loads => nextEvent[r] = 0)

\* Each load can leave one check and one raid behind that it could not stop.
FewTimers ==
    /\ Timers(timers)
    /\ Cardinality(CheckIds(timers)) <= loads + 1
    /\ Cardinality(RaidIds(timers)) <= loads + One(running # NoRaid)

\* As long as no load was caught, a single check and the next event of the running
\* raid are all there is, and stopEvent can find them.
Calm ==
    /\ \E t \in timers : t.of = Check /\ \A u \in timers : u.of = Check => u = t
    /\ \A t, u \in timers : t.of # Check /\ u.of # Check => t = u
    /\ \A t \in timers : t.of # Check => t.of = running /\ running \notin deleted
    /\ \A t \in timers : t.current
    /\ running # NoRaid /\ Events[running[1]] > 0 => \E t \in timers : t.of = running
    /\ \A r \in Raid \ deleted : nextEvent[r] > 0 => running = r
    /\ raidList \cap deleted = {}

RaidInv == TypeOKRaids /\ Dated /\ FewTimers /\ (~caught => Calm)

\* Who the timers are for does not change but by the one that is added.
LEMMA AddedFor ==
  ASSUME NEW T \in SUBSET Timer, NEW what, NEW u \in AddEvent(T, what)
  PROVE  u.of = what \/ \E v \in T : v.of = u.of
BY DEF AddEvent, Timer

\* Neither a check nor "no raid" is a raid; a load makes raids of its own number.
LEMMA RaidFacts ==
  /\ NoRaid \notin Raid /\ Check \notin Raid
  /\ \A r \in Raid : r[1] \in RaidName /\ r[2] \in 0..MaxReloads /\ Events[r[1]] \in Nat
  /\ \A m \in 0..MaxReloads : RaidsLoaded(m) \subseteq Raid /\ \A r \in RaidsLoaded(m) : r[2] = m
BY DEF Raid, RaidsLoaded

\* No timers.
LEMMA NoTimers ==
  /\ Timers({}) /\ Room({})
  /\ Cardinality(CheckIds({})) = 0 /\ Cardinality(RaidIds({})) = 0
<1>1. CheckIds({}) = {} /\ RaidIds({}) = {}
  BY DEF CheckIds, RaidIds
<1>2. Cardinality({}) = 0 /\ 0 + 0 < 2 * (MaxReloads + 1)
  BY FS_EmptySet
<1> QED
  BY <1>1, <1>2 DEF Timers, Room

\* The counts of a set of timers are numbers.
LEMMA CountsType ==
  ASSUME NEW T, Timers(T)
  PROVE  Cardinality(CheckIds(T)) \in Nat /\ Cardinality(RaidIds(T)) \in Nat
BY IdsFinite DEF Timers

\* Raids::startup leaves a single check behind.
LEMMA RaidInitInv == RaidInit => RaidInv
<1> SUFFICES ASSUME RaidInit PROVE RaidInv
  OBVIOUS
<1> DEFINE new(n) == [of |-> Check, id |-> n, fired |-> FALSE, current |-> TRUE]
<1>1. /\ Timers(timers)
      /\ Cardinality(CheckIds(timers)) = 1 /\ Cardinality(RaidIds(timers)) = 0
      /\ \E n \in TimerId : timers = {new(n)}
  BY NoTimers, EventAdded DEF RaidInit, One
<1>2. TypeOKRaids
  <2>1. 0 \in 0..MaxReloads /\ RaidsLoaded(0) \subseteq Raid
    BY RaidFacts
  <2>2. timers \in SUBSET Timer
    BY <1>1 DEF Timers
  <2> QED
    BY <2>1, <2>2 DEF RaidInit, TypeOKRaids, Timer
<1>3. Dated
  BY <1>1, RaidFacts DEF RaidInit, Dated
<1>4. FewTimers
  BY <1>1 DEF RaidInit, FewTimers, One
<1>5. Calm
  <2>1. PICK n \in TimerId : timers = {new(n)}
    BY <1>1
  <2>2. new(n).of = Check /\ new(n).current
    OBVIOUS
  <2> HIDE DEF new
  <2> QED
    BY <2>1, <2>2, RaidFacts DEF RaidInit, Calm
<1> QED
  BY <1>2, <1>3, <1>4, <1>5 DEF RaidInv

\* An event of the scheduler becomes a task.
LEMMA RaidFireInv ==
  ASSUME RaidInv, NEW what \in Raid \cup {Check}, RaidFire(what)
  PROVE  RaidInv'
<1> USE DEF RaidInv, FewTimers
<1>1. PICK t \in timers : /\ t.of = what /\ ~t.fired
                          /\ timers' = (timers \ {t}) \cup {[t EXCEPT !.fired = TRUE]}
  BY DEF RaidFire
<1> DEFINE u == [t EXCEPT !.fired = TRUE]
<1>2. /\ t \in Timer /\ u \in Timer
      /\ u.of = t.of /\ u.id = t.id /\ u.current = t.current
  BY DEF Timers, Timer
<1> HIDE DEF u
<1>3. timers' = (timers \ {t}) \cup {u}
  BY <1>1 DEF u
<1>4. Timers(timers')
  BY <1>2, <1>3 DEF Timers
<1>5. CheckIds(timers') = CheckIds(timers) /\ RaidIds(timers') = RaidIds(timers)
  BY <1>2, <1>3 DEF CheckIds, RaidIds
<1> USE DEF RaidFire
<1>6. TypeOKRaids'
  BY <1>4 DEF TypeOKRaids, Timers, Timer
<1>7. Dated'
  BY <1>2, <1>3 DEF Dated
<1>8. Calm => Calm'
  BY <1>2, <1>3 DEF Calm
<1> QED
  BY <1>4, <1>5, <1>6, <1>7, <1>8

\* The running raid is executed: it goes on or ends.
LEMMA ExecuteInv ==
  ASSUME RaidInv, NEW r \in Raid, ExecuteRaidEvent(r)
  PROVE  RaidInv'
<1> USE DEF RaidInv, FewTimers
<1> DEFINE next == nextEvent[r] + 1
<1>1. PICK t \in timers :
        /\ t.fired /\ t.of = r /\ r \notin deleted
        /\ UNCHANGED <<raidList, deleted, loads, caught>>
        /\ \/ /\ running' = NoRaid
              /\ nextEvent' = [nextEvent EXCEPT ![r] = 0]
              /\ timers' = timers \ {t}
           \/ /\ next < Events[r[1]]
              /\ nextEvent' = [nextEvent EXCEPT ![r] = next]
              /\ timers' = AddEvent(timers \ {t}, r)
              /\ UNCHANGED running
  BY DEF ExecuteRaidEvent
<1> DEFINE rest == timers \ {t}
<1>2. r # Check /\ t.of # Check
  BY <1>1, RaidFacts
<1>3. /\ Timers(rest)
      /\ Cardinality(CheckIds(rest)) = Cardinality(CheckIds(timers))
      /\ Cardinality(RaidIds(rest)) = Cardinality(RaidIds(timers)) - 1
  BY <1>2, EventTaken, CountsType DEF One
<1>4. /\ Cardinality(CheckIds(timers)) \in Nat /\ Cardinality(RaidIds(timers)) \in Nat
      /\ Cardinality(RaidIds(rest)) \in Nat
  BY <1>3, CountsType
<1>5. r[2] <= loads /\ loads \in 0..MaxReloads /\ nextEvent[r] \in Nat
  BY <1>1, <1>2 DEF Dated, TypeOKRaids
<1> HIDE DEF rest
<1>6. CASE /\ running' = NoRaid
           /\ nextEvent' = [nextEvent EXCEPT ![r] = 0]
           /\ timers' = rest
  <2>1. TypeOKRaids'
    BY <1>1, <1>3, <1>6 DEF TypeOKRaids, Timers, Timer
  <2>2. Dated'
    BY <1>1, <1>6, RaidFacts DEF Dated, TypeOKRaids, rest
  <2>3. FewTimers'
    BY <1>1, <1>3, <1>4, <1>5, <1>6 DEF One
  <2>4. ~caught => Calm'
    BY <1>1, <1>2, <1>6 DEF Calm, TypeOKRaids, rest
  <2> QED
    BY <1>1, <2>1, <2>2, <2>3, <2>4
<1>7. CASE /\ next < Events[r[1]]
           /\ nextEvent' = [nextEvent EXCEPT ![r] = next]
           /\ timers' = AddEvent(rest, r)
           /\ UNCHANGED running
  <2>1. Room(rest)
    BY <1>3, <1>4, <1>5 DEF Room, One
  <2>2. /\ Timers(timers')
        /\ Cardinality(CheckIds(timers')) = Cardinality(CheckIds(rest))
        /\ Cardinality(RaidIds(timers')) = Cardinality(RaidIds(rest)) + 1
        /\ (\A u \in rest : u.of # r) => \E n \in TimerId :
              timers' = rest \cup {[of |-> r, id |-> n, fired |-> FALSE, current |-> TRUE]}
    BY <1>2, <1>3, <1>4, <1>7, <2>1, EventAdded DEF One
  <2>3. TypeOKRaids'
    BY <1>1, <1>7, <2>2, <1>5 DEF TypeOKRaids, Timers, Timer
  <2>4. FewTimers'
    BY <1>1, <1>3, <1>4, <1>7, <2>2
  <2>5. \A u \in timers' : u.of = r \/ \E v \in rest : v.of = u.of
    BY <1>3, <1>7, AddedFor DEF Timers
  <2>6. Dated'
    <3>1. \A u \in timers' : u.of # Check => u.of[2] <= loads
      BY <1>1, <1>5, <2>5 DEF Dated, rest
    <3>2. \A q \in Raid : nextEvent'[q] <= Events[q[1]] /\ (q[2] > loads => nextEvent'[q] = 0)
      BY <1>1, <1>5, <1>7, RaidFacts DEF Dated, TypeOKRaids
    <3> QED
      BY <1>1, <1>7, <3>1, <3>2 DEF Dated
  <2>7. ~caught => Calm'
    <3> SUFFICES ASSUME ~caught PROVE Calm'
      OBVIOUS
    <3>1. \A u \in rest : u.of = Check
      BY <1>1, <1>2 DEF Calm, rest
    <3>2. PICK n \in TimerId :
            timers' = rest \cup {[of |-> r, id |-> n, fired |-> FALSE, current |-> TRUE]}
      BY <1>2, <2>2, <3>1
    <3> DEFINE new == [of |-> r, id |-> n, fired |-> FALSE, current |-> TRUE]
    <3>3. new.of = r /\ new.current
      OBVIOUS
    <3>4. running = r
      BY <1>1, <1>2 DEF Calm
    <3> HIDE DEF new
    <3>5. timers' = rest \cup {new}
      BY <3>2 DEF new
    <3> QED
      BY <1>1, <1>2, <1>7, <3>1, <3>3, <3>4, <3>5 DEF Calm, TypeOKRaids, rest
  <2> QED
    BY <1>1, <2>3, <2>4, <2>6, <2>7
<1> QED
  BY <1>1, <1>6, <1>7 DEF rest

\* Raid::startRaid adds one event at most.
LEMMA RaidStarts ==
  ASSUME NEW T, Timers(T), Room(T), NEW r \in Raid
  PROVE  /\ Timers(RaidStarted(T, r))
         /\ Cardinality(CheckIds(RaidStarted(T, r))) = Cardinality(CheckIds(T))
         /\ Cardinality(RaidIds(RaidStarted(T, r))) \in
              {Cardinality(RaidIds(T)), Cardinality(RaidIds(T)) + 1}
         /\ \A u \in RaidStarted(T, r) : u.of = r \/ \E v \in T : v.of = u.of
         /\ (\A t \in T : t.of # r) =>
              IF nextEvent[r] < Events[r[1]]
              THEN \E n \in TimerId : RaidStarted(T, r) =
                     T \cup {[of |-> r, id |-> n, fired |-> FALSE, current |-> TRUE]}
              ELSE RaidStarted(T, r) = T
<1>1. r # Check
  BY RaidFacts
<1>2. CASE nextEvent[r] < Events[r[1]]
  <2>1. RaidStarted(T, r) = AddEvent(T, r)
    BY <1>2 DEF RaidStarted
  <2> QED
    <3>1. \A u \in RaidStarted(T, r) : u.of = r \/ \E v \in T : v.of = u.of
      BY <2>1, AddedFor DEF Timers
    <3> QED
      BY <1>1, <1>2, <2>1, <3>1, EventAdded, CountsType DEF One
<1>3. CASE ~(nextEvent[r] < Events[r[1]])
  <2>1. RaidStarted(T, r) = T
    BY <1>3 DEF RaidStarted
  <2> QED
    BY <1>3, <2>1
<1> QED
  BY <1>2, <1>3

\* A raid begins, by the check or by a script.
LEMMA RaidBegins ==
  ASSUME RaidInv, NEW r \in raidList, MayStart, running' = r,
         raidList' \in {raidList, raidList \ {r}},
         UNCHANGED <<nextEvent, deleted, loads, caught>>,
         NEW T, T \subseteq timers, Timers(T), Room(T),
         Cardinality(RaidIds(T)) <= loads,
         \A t \in timers : t.of # Check => t \in T
  PROVE  /\ r \in Raid
         /\ Cardinality(RaidIds(RaidStarted(T, r))) <= loads + One(running' # NoRaid)
         /\ \A u \in RaidStarted(T, r) : u.of # Check => u.of[2] <= loads
         /\ ~caught =>
              /\ \A t \in T : t.of = Check
              /\ IF Events[r[1]] > 0
                 THEN \E n \in TimerId : RaidStarted(T, r) =
                        T \cup {[of |-> r, id |-> n, fired |-> FALSE, current |-> TRUE]}
                 ELSE RaidStarted(T, r) = T
<1> USE DEF RaidInv, FewTimers
<1>1. r \in Raid /\ r[2] <= loads /\ r # NoRaid /\ r # Check /\ running = NoRaid
  BY RaidFacts DEF TypeOKRaids, Dated, MayStart
<1>2. loads \in 0..MaxReloads /\ nextEvent[r] \in Nat /\ Events[r[1]] \in Nat
  BY <1>1, RaidFacts DEF TypeOKRaids
<1>3. Cardinality(RaidIds(RaidStarted(T, r))) <= loads + One(running' # NoRaid)
  BY <1>1, <1>2, RaidStarts, CountsType DEF One
<1>4. \A u \in RaidStarted(T, r) : u.of # Check => u.of[2] <= loads
  BY <1>1, RaidStarts DEF Dated
<1>5. ASSUME ~caught
      PROVE  /\ \A t \in T : t.of = Check
             /\ IF Events[r[1]] > 0
                THEN \E n \in TimerId : RaidStarted(T, r) =
                       T \cup {[of |-> r, id |-> n, fired |-> FALSE, current |-> TRUE]}
                ELSE RaidStarted(T, r) = T
  <2>1. \A t \in timers : t.of = Check
    <3> SUFFICES ASSUME NEW t \in timers, t.of # Check PROVE FALSE
      OBVIOUS
    <3>1. t.of = running /\ t.of \in Raid
      BY <1>5 DEF Calm, TypeOKRaids
    <3> QED
      BY <1>1, <3>1, RaidFacts
  <2>2. nextEvent[r] = 0
    BY <1>1, <1>2, <1>5, RaidFacts DEF Calm, TypeOKRaids
  <2>3. \A t \in T : t.of # r
    BY <1>1, <2>1
  <2> QED
    BY <1>1, <1>2, <2>1, <2>2, <2>3, RaidStarts
<1> QED
  BY <1>1, <1>3, <1>4, <1>5

\* A script starts a raid.
LEMMA GameStartInv ==
  ASSUME RaidInv, GameStartRaid
  PROVE  RaidInv'
<1> USE DEF RaidInv, FewTimers
<1>1. PICK r \in raidList : /\ MayStart
                            /\ running' = r
                            /\ timers' = RaidStarted(timers, r)
                            /\ UNCHANGED <<raidList, nextEvent, deleted, loads, caught>>
  BY DEF GameStartRaid
<1>2. /\ Cardinality(CheckIds(timers)) \in Nat /\ Cardinality(RaidIds(timers)) \in Nat
      /\ loads \in 0..MaxReloads /\ running = NoRaid
  BY <1>1, CountsType DEF TypeOKRaids, MayStart
<1>3. Cardinality(RaidIds(timers)) <= loads /\ Room(timers)
  BY <1>2 DEF Room, One
<1>4. /\ r \in Raid
      /\ Cardinality(RaidIds(timers')) <= loads + One(running' # NoRaid)
      /\ \A u \in timers' : u.of # Check => u.of[2] <= loads
      /\ ~caught =>
           /\ \A t \in timers : t.of = Check
           /\ IF Events[r[1]] > 0
              THEN \E n \in TimerId : timers' =
                     timers \cup {[of |-> r, id |-> n, fired |-> FALSE, current |-> TRUE]}
              ELSE timers' = timers
  BY <1>1, <1>3, RaidBegins
<1>5. Timers(timers') /\ Cardinality(CheckIds(timers')) <= loads + 1
  BY <1>1, <1>3, <1>4, RaidStarts
<1>6. TypeOKRaids'
  BY <1>1, <1>4, <1>5 DEF TypeOKRaids, Timers, Timer
<1>7. Dated'
  BY <1>1, <1>4 DEF Dated
<1>8. ASSUME ~caught PROVE Calm'
  <2>1. r # Check /\ r # NoRaid /\ r \notin deleted /\ Events[r[1]] \in Nat
    BY <1>4, <1>8, RaidFacts DEF Calm
  <2>2. \A q \in Raid \ deleted : nextEvent[q] = 0
    BY <1>2, <1>8, RaidFacts DEF Calm, TypeOKRaids
  <2>3. CASE Events[r[1]] > 0
    <3>1. PICK n \in TimerId : timers' =
            timers \cup {[of |-> r, id |-> n, fired |-> FALSE, current |-> TRUE]}
      BY <1>4, <1>8, <2>3
    <3> DEFINE new == [of |-> r, id |-> n, fired |-> FALSE, current |-> TRUE]
    <3>2. new.of = r /\ new.current
      OBVIOUS
    <3> HIDE DEF new
    <3>3. timers' = timers \cup {new}
      BY <3>1 DEF new
    <3> QED
      BY <1>1, <1>4, <1>8, <2>1, <2>2, <3>2, <3>3 DEF Calm
  <2>4. CASE ~(Events[r[1]] > 0)
    BY <1>1, <1>4, <1>8, <2>1, <2>2, <2>4 DEF Calm
  <2> QED
    BY <2>3, <2>4
<1> QED
  BY <1>1, <1>4, <1>5, <1>6, <1>7, <1>8

\* The check ends: it has started a raid or not, and arms itself again.
LEMMA CheckRaidsInv ==
  ASSUME RaidInv, CheckRaids
  PROVE  RaidInv'
<1> USE DEF RaidInv, FewTimers
<1>1. PICK t \in timers :
        /\ t.of = Check /\ t.fired
        /\ \/ /\ timers' = AddEvent(timers \ {t}, Check)
              /\ UNCHANGED <<raidList, running>>
           \/ \E r \in raidList :
                /\ MayStart
                /\ running' = r
                /\ raidList' = IF r[1] \in Once THEN raidList \ {r} ELSE raidList
                /\ timers' = AddEvent(RaidStarted(timers \ {t}, r), Check)
        /\ UNCHANGED <<nextEvent, deleted, loads, caught>>
  BY DEF CheckRaids
<1> DEFINE rest == timers \ {t}
<1>2. /\ Timers(rest)
      /\ Cardinality(CheckIds(rest)) = Cardinality(CheckIds(timers)) - 1
      /\ Cardinality(RaidIds(rest)) = Cardinality(RaidIds(timers))
  BY <1>1, EventTaken, CountsType DEF One
<1>3. /\ Cardinality(CheckIds(rest)) \in Nat /\ Cardinality(RaidIds(rest)) \in Nat
      /\ loads \in 0..MaxReloads
  BY <1>2, CountsType DEF TypeOKRaids
<1>4. Cardinality(CheckIds(rest)) <= loads /\ Room(rest)
  <2>1. /\ Cardinality(CheckIds(timers)) \in Nat
        /\ Cardinality(CheckIds(rest)) <= loads /\ Cardinality(RaidIds(rest)) <= loads + 1
    BY <1>2, <1>3, CountsType DEF One
  <2> HIDE DEF rest
  <2> QED
    BY <1>3, <2>1 DEF Room
<1>5. ~caught => \A u \in rest : u.of # Check
  BY <1>1 DEF Calm
<1>6. CASE timers' = AddEvent(rest, Check) /\ UNCHANGED <<raidList, running>>
  <2> HIDE DEF rest
  <2>1. /\ Timers(timers')
        /\ Cardinality(CheckIds(timers')) = Cardinality(CheckIds(rest)) + 1
        /\ Cardinality(RaidIds(timers')) = Cardinality(RaidIds(rest))
    BY <1>2, <1>3, <1>4, <1>6, EventAdded DEF One
  <2>2. TypeOKRaids'
    BY <1>1, <1>6, <2>1 DEF TypeOKRaids, Timers, Timer
  <2>3. Dated'
    <3>1. \A u \in timers' : u.of # Check => \E v \in rest : v.of = u.of
      BY <1>2, <1>6, AddedFor DEF Timers
    <3> QED
      BY <1>1, <1>6, <3>1 DEF Dated, rest
  <2>4. FewTimers'
    BY <1>1, <1>2, <1>3, <1>4, <1>6, <2>1
  <2>5. ASSUME ~caught PROVE Calm'
    <3>1. PICK n \in TimerId : timers' =
            rest \cup {[of |-> Check, id |-> n, fired |-> FALSE, current |-> TRUE]}
      BY <1>2, <1>4, <1>5, <1>6, <2>5, EventAdded
    <3> DEFINE new == [of |-> Check, id |-> n, fired |-> FALSE, current |-> TRUE]
    <3>2. new.of = Check /\ new.current
      OBVIOUS
    <3> HIDE DEF new
    <3>3. timers' = rest \cup {new}
      BY <3>1 DEF new
    <3> QED
      BY <1>1, <1>5, <1>6, <2>5, <3>2, <3>3, RaidFacts DEF Calm, rest, TypeOKRaids
  <2> QED
    BY <1>1, <2>2, <2>3, <2>4, <2>5
<1>7. ASSUME NEW r \in raidList, MayStart, running' = r,
             raidList' = IF r[1] \in Once THEN raidList \ {r} ELSE raidList,
             timers' = AddEvent(RaidStarted(rest, r), Check)
      PROVE  RaidInv'
  <2> DEFINE mid == RaidStarted(rest, r)
  <2>1. running = NoRaid /\ Cardinality(RaidIds(rest)) <= loads
    BY <1>2, <1>3, <1>7 DEF MayStart, One
  <2>2. /\ r \in Raid
        /\ Cardinality(RaidIds(mid)) <= loads + One(running' # NoRaid)
        /\ \A u \in mid : u.of # Check => u.of[2] <= loads
        /\ ~caught =>
             /\ \A u \in rest : u.of = Check
             /\ IF Events[r[1]] > 0
                THEN \E n \in TimerId : mid =
                       rest \cup {[of |-> r, id |-> n, fired |-> FALSE, current |-> TRUE]}
                ELSE mid = rest
    <3>1. /\ \A u \in timers : u.of # Check => u \in rest
          /\ raidList' \in {raidList, raidList \ {r}}
          /\ rest \subseteq timers
      BY <1>1, <1>7
    <3> HIDE DEF rest
    <3> QED
      BY <1>1, <1>2, <1>4, <1>7, <2>1, <3>1, RaidBegins
  <2> HIDE DEF rest
  <2>3. /\ Timers(mid) /\ Cardinality(CheckIds(mid)) = Cardinality(CheckIds(rest))
    BY <1>2, <1>4, <2>2, RaidStarts
  <2> HIDE DEF mid
  <2>4. Room(mid)
    <3>1. Cardinality(CheckIds(mid)) \in Nat /\ Cardinality(RaidIds(mid)) \in Nat
      BY <2>3, CountsType
    <3> QED
      BY <1>3, <1>4, <2>2, <2>3, <3>1 DEF Room, One
  <2>5. timers' = AddEvent(mid, Check)
    BY <1>7 DEF mid, rest
  <2>6. /\ Timers(timers')
        /\ Cardinality(CheckIds(timers')) = Cardinality(CheckIds(mid)) + 1
        /\ Cardinality(RaidIds(timers')) = Cardinality(RaidIds(mid))
    BY <2>3, <2>4, <2>5, EventAdded, CountsType DEF One
  <2>7. TypeOKRaids'
    BY <1>1, <1>7, <2>2, <2>6 DEF TypeOKRaids, Timers, Timer
  <2>8. Dated'
    <3>1. \A u \in timers' : u.of # Check => u.of[2] <= loads
      BY <2>2, <2>3, <2>5, AddedFor DEF Timers
    <3> QED
      BY <1>1, <1>7, <3>1 DEF Dated
  <2>9. FewTimers'
    BY <1>1, <1>3, <1>4, <1>7, <2>2, <2>3, <2>6
  <2>10. ASSUME ~caught PROVE Calm'
    <3>1. rest = {}
      BY <1>5, <2>2, <2>10
    <3>2. r # Check /\ r # NoRaid /\ r \notin deleted /\ Events[r[1]] \in Nat
      BY <2>2, <2>10, RaidFacts DEF Calm
    <3>3. \A q \in Raid \ deleted : nextEvent[q] = 0
      BY <2>1, <2>10, RaidFacts DEF Calm, TypeOKRaids
    <3>4. /\ \A u, v \in mid : u.of = r /\ u.current /\ u = v
          /\ Events[r[1]] > 0 => \E u \in mid : u.of = r
          /\ ~(Events[r[1]] > 0) => mid = {}
      <4>1. CASE Events[r[1]] > 0
        <5>1. PICK n \in TimerId : mid =
                rest \cup {[of |-> r, id |-> n, fired |-> FALSE, current |-> TRUE]}
          BY <2>2, <2>10, <4>1
        <5> QED
          BY <3>1, <4>1, <5>1
      <4>2. CASE ~(Events[r[1]] > 0)
        BY <2>2, <2>10, <3>1, <4>2
      <4> QED
        BY <4>1, <4>2
    <3>5. PICK n \in TimerId : timers' =
            mid \cup {[of |-> Check, id |-> n, fired |-> FALSE, current |-> TRUE]}
      BY <2>3, <2>4, <2>5, <3>2, <3>4, EventAdded
    <3> DEFINE new == [of |-> Check, id |-> n, fired |-> FALSE, current |-> TRUE]
    <3>6. new.of = Check /\ new.current
      OBVIOUS
    <3> HIDE DEF new
    <3>7. timers' = mid \cup {new}
      BY <3>5 DEF new
    <3> QED
      BY <1>1, <1>7, <2>10, <3>2, <3>3, <3>4, <3>6, <3>7 DEF Calm
  <2> QED
    BY <1>1, <2>7, <2>8, <2>9, <2>10
<1> QED
  BY <1>1, <1>6, <1>7

\* Raids::clear, loadFromXml and startup.
LEMMA ReloadInv ==
  ASSUME RaidInv, ReloadRaids
  PROVE  RaidInv'
<1> USE DEF RaidInv, FewTimers, ReloadRaids
<1>1. RaidsCleared \in SUBSET timers
  BY DEF RaidsCleared, StopEvents
<1>2. /\ Timers(RaidsCleared)
      /\ Cardinality(CheckIds(RaidsCleared)) <= Cardinality(CheckIds(timers))
      /\ Cardinality(RaidIds(RaidsCleared)) <= Cardinality(RaidIds(timers))
  BY <1>1, EventsStopped
<1>3. /\ Cardinality(CheckIds(RaidsCleared)) \in Nat /\ Cardinality(RaidIds(RaidsCleared)) \in Nat
      /\ Cardinality(CheckIds(timers)) \in Nat /\ Cardinality(RaidIds(timers)) \in Nat
      /\ loads \in 0..MaxReloads /\ loads' = loads + 1 /\ loads' \in 0..MaxReloads
  BY <1>2, CountsType DEF TypeOKRaids
<1>4. Room(RaidsCleared)
  BY <1>2, <1>3 DEF Room, One
<1>5. /\ Timers(timers')
      /\ Cardinality(CheckIds(timers')) = Cardinality(CheckIds(RaidsCleared)) + 1
      /\ Cardinality(RaidIds(timers')) = Cardinality(RaidIds(RaidsCleared))
      /\ (\A t \in RaidsCleared : t.of # Check) => \E n \in TimerId : timers' =
           RaidsCleared \cup {[of |-> Check, id |-> n, fired |-> FALSE, current |-> TRUE]}
  BY <1>2, <1>3, <1>4, EventAdded DEF One
<1>6. raidList' \subseteq Raid /\ \A r \in raidList' : r[2] = loads + 1
  BY <1>3, RaidFacts
<1>7. TypeOKRaids'
  BY <1>3, <1>5, <1>6 DEF TypeOKRaids, Timers, Timer
<1>8. \A r \in raidList \cup deleted : r[2] <= loads /\ r[2] \in 0..MaxReloads
  BY RaidFacts DEF Dated, TypeOKRaids
<1>9. Dated'
  <2>1. \A u \in timers' : u.of # Check => u.of \in Raid /\ u.of[2] <= loads
    BY <1>1, <1>2, AddedFor DEF Dated, TypeOKRaids, Timers
  <2> QED
    BY <1>3, <1>6, <1>8, <2>1, RaidFacts DEF Dated
<1>10. FewTimers'
  BY <1>2, <1>3, <1>5 DEF One
<1>11. ASSUME ~caught' PROVE Calm'
  <2>1. ~caught /\ \A t \in timers : ~t.fired /\ t.of \in raidList \cup {Check}
    BY <1>11 DEF TypeOKRaids
  <2>2. RaidsCleared = {}
    BY <2>1 DEF RaidsCleared, StopEvents, Calm
  <2>3. PICK n \in TimerId : timers' =
          {[of |-> Check, id |-> n, fired |-> FALSE, current |-> TRUE]}
    BY <1>5, <2>2
  <2>4. raidList' \cap deleted' = {}
    BY <1>3, <1>6, <1>8
  <2>5. ASSUME NEW r \in Raid \ deleted', nextEvent[r] > 0 PROVE FALSE
    <3>1. running = r
      BY <2>1, <2>5 DEF Calm
    <3>2. Events[r[1]] > 0 /\ r # NoRaid
      BY <2>5, RaidFacts DEF Dated, TypeOKRaids
    <3>3. PICK t \in timers : t.of = r
      BY <2>1, <3>1, <3>2 DEF Calm
    <3> QED
      BY <2>1, <2>5, <3>3, RaidFacts
  <2> QED
    BY <2>3, <2>4, <2>5 DEF Calm
<1> QED
  BY <1>7, <1>9, <1>10, <1>11

\* Every step of the raids keeps the invariant.
LEMMA RaidStep == RaidInv /\ [RaidNext]_raidVars => RaidInv'
<1> SUFFICES ASSUME RaidInv, [RaidNext]_raidVars PROVE RaidInv'
  OBVIOUS
<1>1. CASE UNCHANGED raidVars
  BY <1>1 DEF raidVars, RaidInv, TypeOKRaids, Dated, FewTimers, Calm
<1> QED
  BY <1>1, RaidFireInv, CheckRaidsInv, GameStartInv, ExecuteInv, ReloadInv DEF RaidNext

\* What is to be shown of the raids follows from it.
LEMMA RaidImplied == RaidInv => RaidsExclusive
<1> SUFFICES ASSUME RaidInv, ~caught
             PROVE  /\ Cardinality(Of(Check)) = 1
                    /\ \A r \in Raid : Of(r) # {} => /\ running = r /\ r \notin deleted
                                                     /\ Cardinality(Of(r)) = 1
                    /\ running # NoRaid /\ Events[running[1]] > 0 => Of(running) # {}
  BY DEF RaidInv, RaidsExclusive
<1> USE DEF RaidInv, Calm
<1>1. \E t \in timers : Of(Check) = {t}
  BY DEF Of
<1>2. ASSUME NEW r \in Raid, Of(r) # {}
      PROVE  running = r /\ r \notin deleted /\ \E t \in timers : Of(r) = {t}
  BY <1>2, RaidFacts DEF Of
<1>3. running # NoRaid /\ Events[running[1]] > 0 => Of(running) # {}
  BY DEF Of
<1>4. Cardinality(Of(Check)) = 1
  BY <1>1, FS_Singleton
<1>5. ASSUME NEW r \in Raid, Of(r) # {}
      PROVE  running = r /\ r \notin deleted /\ Cardinality(Of(r)) = 1
  BY <1>2, <1>5, FS_Singleton
<1> QED
  BY <1>3, <1>4, <1>5

\* Raids::checkRaids, Raid::executeRaidEvent and Raids::reload: as long as no reload met
\* a task it could not stop, there is one check, and a raid has its one event only
\* while it is the running one - whatever the raids are and however often they are
\* loaded.
THEOREM RaidsStayExclusive == RaidSpec => []RaidsExclusive
BY RaidInitInv, RaidStep, RaidImplied, PTL DEF RaidSpec

-----------------------------------------------------------------------------
(* The line before a full server *)

Wait == [playerGUID : Client, timeout : Nat]

\* One round: out is what is left of those before n.
KeptRound(list, i, out, n) ==
    IF n = 0 THEN <<>>
    ELSE IF n \in i THEN Append(out, list[n])
    ELSE out

AreKept(list, i, m, f) == f = [n \in 0 .. m |-> KeptRound(list, i, f[n - 1], n)]

LEMMA KeptExists ==
    ASSUME NEW list, NEW i, NEW m \in Nat
    PROVE  \E f : AreKept(list, i, m, f)
<1> DEFINE Good == {k \in Nat : \E f : AreKept(list, i, k, f)}
<1>1. 0 \in Good
  <2> DEFINE f == [n \in 0 .. 0 |-> <<>>]
  <2>1. AreKept(list, i, 0, f)
    BY DEF AreKept, KeptRound
  <2> QED BY <2>1
<1>2. ASSUME NEW k \in Nat, k \in Good PROVE k + 1 \in Good
  <2>1. PICK f : AreKept(list, i, k, f)
    BY <1>2
  <2> DEFINE Round(h, n) == KeptRound(list, i, h[n - 1], n)
             g == [n \in 0 .. k + 1 |-> Round(f, n)]
  <2>2. \A n \in 0 .. k : g[n] = f[n]
    BY <2>1 DEF AreKept
  <2>3. ASSUME NEW n \in 0 .. k + 1 PROVE Round(f, n) = Round(g, n)
    <3>1. CASE n = 0
      BY <3>1 DEF KeptRound
    <3>2. CASE n # 0
      <4>1. n - 1 \in 0 .. k
        BY <3>2
      <4>2. g[n - 1] = f[n - 1]
        BY <2>2, <4>1
      <4> HIDE DEF g
      <4> QED BY <4>2
    <3> QED BY <3>1, <3>2
  <2>4. g = [n \in 0 .. k + 1 |-> Round(g, n)]
    BY <2>3
  <2>5. AreKept(list, i, k + 1, g)
    <3> HIDE DEF g
    <3> QED BY <2>4 DEF AreKept
  <2>6. k + 1 \in Nat
    OBVIOUS
  <2> HIDE DEF g
  <2> QED BY <2>5, <2>6
<1> HIDE DEF Good
<1>3. m \in Good
  BY <1>1, <1>2, NumbersOneByOne
<1> QED BY <1>3 DEF Good

\* What stays of the first n, in their order.
StaysUpto(list, i, out, n) ==
    /\ out \in Seq(Wait)
    /\ \A k \in DOMAIN out : \E m \in 1 .. n : m \in i /\ out[k] = list[m]
    /\ \A m \in 1 .. n : m \in i => \E k \in DOMAIN out : out[k] = list[m]
    /\ \A j, k \in DOMAIN out : j < k =>
         \E l, m \in 1 .. n : l < m /\ list[l] = out[j] /\ list[m] = out[k]

LEMMA StaysNext ==
    ASSUME NEW list \in Seq(Wait), NEW i, NEW out, NEW n \in 1 .. Len(list), StaysUpto(list, i, out, n - 1)
    PROVE  StaysUpto(list, i, IF n \in i THEN Append(out, list[n]) ELSE out, n)
<1>1. n \in Nat /\ n - 1 \in Nat /\ \A m : m \in 1 .. n <=> m \in 1 .. n - 1 \/ m = n
  OBVIOUS
<1>2. \A m \in 1 .. n - 1 : m < n /\ m \in 1 .. n
  OBVIOUS
<1>3. n \in 1 .. n
  OBVIOUS
<1>4. CASE n \notin i
  <2>1. /\ out \in Seq(Wait)
        /\ \A k \in DOMAIN out : \E m \in 1 .. n : m \in i /\ out[k] = list[m]
    BY <1>2 DEF StaysUpto
  <2>2. \A m \in 1 .. n : m \in i => m \in 1 .. n - 1
    BY <1>1, <1>4
  <2>3. \A m \in 1 .. n : m \in i => \E k \in DOMAIN out : out[k] = list[m]
    BY <2>2 DEF StaysUpto
  <2>4. \A j, k \in DOMAIN out : j < k =>
          \E l, m \in 1 .. n : l < m /\ list[l] = out[j] /\ list[m] = out[k]
    <3> SUFFICES ASSUME NEW j \in DOMAIN out, NEW k \in DOMAIN out, j < k
                 PROVE  \E l, m \in 1 .. n : l < m /\ list[l] = out[j] /\ list[m] = out[k]
      OBVIOUS
    <3>1. PICK l, m \in 1 .. n - 1 : l < m /\ list[l] = out[j] /\ list[m] = out[k]
      BY DEF StaysUpto
    <3> QED BY <1>2, <3>1
  <2> QED BY <1>4, <2>1, <2>3, <2>4 DEF StaysUpto
<1>5. CASE n \in i
  <2> DEFINE new == Append(out, list[n])
             last == Len(out) + 1
  <2>1. out \in Seq(Wait) /\ list[n] \in Wait /\ Len(out) \in Nat
    BY DEF StaysUpto
  <2>2. /\ new \in Seq(Wait) /\ DOMAIN new = DOMAIN out \cup {last} /\ new[last] = list[n]
        /\ \A k \in DOMAIN out : new[k] = out[k] /\ k < last /\ k \in Nat
        /\ last \notin DOMAIN out /\ last \in Nat
    BY <2>1
  <2> HIDE DEF new, last
  <2>3. \A k \in DOMAIN new : \E m \in 1 .. n : m \in i /\ new[k] = list[m]
    <3> SUFFICES ASSUME NEW k \in DOMAIN new PROVE \E m \in 1 .. n : m \in i /\ new[k] = list[m]
      OBVIOUS
    <3>1. CASE k = last
      BY <1>3, <1>5, <2>2, <3>1
    <3>2. CASE k \in DOMAIN out
      <4>1. PICK m \in 1 .. n - 1 : m \in i /\ out[k] = list[m]
        BY <3>2 DEF StaysUpto
      <4> QED BY <1>2, <2>2, <3>2, <4>1
    <3> QED BY <2>2, <3>1, <3>2
  <2>4. \A m \in 1 .. n : m \in i => \E k \in DOMAIN new : new[k] = list[m]
    BY <1>1, <2>2 DEF StaysUpto
  <2>5. ASSUME NEW j \in DOMAIN new, NEW k \in DOMAIN new, j < k
        PROVE  \E l, m \in 1 .. n : l < m /\ list[l] = new[j] /\ list[m] = new[k]
    <3>1. CASE k \in DOMAIN out
      <4>1. j \in DOMAIN out
        BY <2>2, <2>5, <3>1
      <4>2. PICK l, m \in 1 .. n - 1 : l < m /\ list[l] = out[j] /\ list[m] = out[k]
        BY <2>5, <3>1, <4>1 DEF StaysUpto
      <4> QED BY <1>2, <2>2, <3>1, <4>1, <4>2
    <3>2. CASE k = last
      <4>1. j \in DOMAIN out
        BY <2>2, <2>5, <3>2
      <4>2. PICK l \in 1 .. n - 1 : list[l] = out[j]
        BY <4>1 DEF StaysUpto
      <4> QED BY <1>2, <1>3, <2>2, <3>2, <4>1, <4>2
    <3> QED BY <2>2, <2>5, <3>1, <3>2
  <2>6. StaysUpto(list, i, new, n)
    BY <2>2, <2>3, <2>4, <2>5 DEF StaysUpto
  <2> QED BY <1>5, <2>6 DEF new
<1> QED BY <1>4, <1>5

\* Kept leaves those in i, in their order.
LEMMA KeptStays ==
    ASSUME NEW list \in Seq(Wait), NEW i
    PROVE  StaysUpto(list, i, Kept(list, i), Len(list))
<1> DEFINE N == Len(list)
           kept == CHOOSE f : AreKept(list, i, N, f)
<1>1. N \in Nat
  OBVIOUS
<1>2. kept = [n \in 0 .. N |-> KeptRound(list, i, kept[n - 1], n)]
  <2>1. \E f : AreKept(list, i, N, f)
    BY <1>1, KeptExists
  <2>2. AreKept(list, i, N, kept)
    BY ONLY <2>1, Zenon
  <2> QED BY <2>2 DEF AreKept
<1>3. Kept(list, i) = kept[N]
  BY DEF Kept, AreKept, KeptRound
<1> HIDE DEF kept, N
<1> DEFINE Good == {n \in Nat : n <= N => StaysUpto(list, i, kept[n], n)}
<1>4. 0 \in Good
  <2>1. kept[0] = <<>>
    BY <1>1, <1>2 DEF KeptRound
  <2>2. <<>> \in Seq(Wait) /\ DOMAIN <<>> = {} /\ \A m : m \notin 1 .. 0
    OBVIOUS
  <2>3. StaysUpto(list, i, <<>>, 0)
    BY ONLY <2>2 DEF StaysUpto
  <2> QED BY <2>1, <2>3
<1>5. ASSUME NEW n \in Nat, n \in Good PROVE n + 1 \in Good
  <2> SUFFICES ASSUME n + 1 <= N PROVE StaysUpto(list, i, kept[n + 1], n + 1)
    OBVIOUS
  <2>1. n + 1 \in 1 .. N /\ n + 1 \in 0 .. N /\ (n + 1) - 1 = n /\ n + 1 # 0
    BY <1>1
  <2>2. kept[n + 1] = IF n + 1 \in i THEN Append(kept[n], list[n + 1]) ELSE kept[n]
    BY <1>2, <2>1 DEF KeptRound
  <2>3. StaysUpto(list, i, kept[n], (n + 1) - 1)
    BY <1>1, <1>5, <2>1
  <2> QED BY <2>1, <2>2, <2>3, StaysNext DEF N
<1>6. N \in Good
  <2> HIDE DEF Good
  <2> QED BY <1>1, <1>4, <1>5, NumbersOneByOne
<1> QED BY <1>3, <1>6, <1>1 DEF N

-----------------------------------------------------------------------------
(* Who stands before whom *)

Placed(p, w) ==
    /\ p \in Seq(Wait) /\ w \in Seq(Wait)
    /\ \A a : ~BeforeIn(p, a, a) /\ ~BeforeIn(w, a, a)
    /\ Waiting(p) \cap Waiting(w) = {}

\* Nobody comes into the list, and the others keep their order.
Thinner(list, out) ==
    /\ out \in Seq(Wait) /\ Waiting(out) \subseteq Waiting(list)
    /\ \A a, b : BeforeIn(out, a, b) => BeforeIn(list, a, b)

LEMMA KeptThinner ==
    ASSUME NEW list \in Seq(Wait), NEW i
    PROVE  /\ Thinner(list, Kept(list, i))
           /\ \A m \in DOMAIN list : m \in i => \E k \in DOMAIN Kept(list, i) : Kept(list, i)[k] = list[m]
           /\ \A k \in DOMAIN Kept(list, i) : \E m \in DOMAIN list : m \in i /\ Kept(list, i)[k] = list[m]
<1> DEFINE out == Kept(list, i)
<1>1. StaysUpto(list, i, out, Len(list)) /\ DOMAIN list = 1 .. Len(list)
  BY KeptStays
<1> HIDE DEF out
<1>2. out \in Seq(Wait)
  BY <1>1 DEF StaysUpto
<1>3. \A m \in DOMAIN list : m \in i => \E k \in DOMAIN out : out[k] = list[m]
  BY <1>1 DEF StaysUpto
<1>4. \A k \in DOMAIN out : \E m \in DOMAIN list : m \in i /\ out[k] = list[m]
  BY <1>1 DEF StaysUpto
<1>5. Waiting(out) \subseteq Waiting(list)
  BY <1>4 DEF Waiting
<1>6. ASSUME NEW a, NEW b, BeforeIn(out, a, b) PROVE BeforeIn(list, a, b)
  <2>1. PICK j, k \in DOMAIN out : j < k /\ out[j].playerGUID = a /\ out[k].playerGUID = b
    BY <1>6 DEF BeforeIn
  <2>2. PICK l, m \in 1 .. Len(list) : l < m /\ list[l] = out[j] /\ list[m] = out[k]
    BY <1>1, <2>1 DEF StaysUpto
  <2> QED BY <1>1, <2>1, <2>2 DEF BeforeIn
<1> QED BY <1>2, <1>3, <1>4, <1>5, <1>6 DEF Thinner, out

LEMMA ThinnerTwice ==
    ASSUME NEW l, NEW m, NEW n, Thinner(l, m), Thinner(m, n)
    PROVE  Thinner(l, n)
  BY DEF Thinner

LEMMA ThinnerPlaced ==
    ASSUME NEW p, NEW w, NEW q, NEW v, Placed(p, w), Thinner(p, q), Thinner(w, v)
    PROVE  Placed(q, v)
  BY DEF Placed, Thinner

LEMMA Removed ==
    ASSUME NEW list \in Seq(Wait), NEW c
    PROVE  /\ Thinner(list, Without(list, c)) /\ Waiting(Without(list, c)) = Waiting(list) \ {c}
<1> DEFINE i == {k \in DOMAIN list : list[k].playerGUID # c}
           out == Kept(list, i)
<1>0. list \in Seq(Wait)
  OBVIOUS
<1>1. /\ Thinner(list, out)
      /\ \A m \in DOMAIN list : m \in i => \E k \in DOMAIN out : out[k] = list[m]
      /\ \A k \in DOMAIN out : \E m \in DOMAIN list : m \in i /\ out[k] = list[m]
  <2> HIDE DEF i
  <2> QED BY ONLY <1>0, KeptThinner
<1> HIDE DEF out
<1>2. Waiting(out) = Waiting(list) \ {c}
  BY <1>1 DEF Waiting
<1> QED BY <1>1, <1>2 DEF Without, out

\* Who is in time stays when the lists are cleaned.
LEMMA CleanedStays ==
    ASSUME NEW list \in Seq(Wait), now \in Nat
    PROVE  Thinner(list, Cleaned(list)) /\ \A a : InTime(list, a) => a \in Waiting(Cleaned(list))
<1> DEFINE i == {k \in DOMAIN list : list[k].timeout # now}
           out == Kept(list, i)
<1>0. list \in Seq(Wait)
  OBVIOUS
<1>1. /\ Thinner(list, out)
      /\ \A m \in DOMAIN list : m \in i => \E k \in DOMAIN out : out[k] = list[m]
      /\ \A k \in DOMAIN out : \E m \in DOMAIN list : m \in i /\ out[k] = list[m]
  <2> HIDE DEF i
  <2> QED BY ONLY <1>0, KeptThinner
<1> HIDE DEF out
<1>2. ASSUME NEW a, InTime(list, a) PROVE a \in Waiting(out)
  <2>1. PICK m \in DOMAIN list : list[m].playerGUID = a /\ list[m].timeout > now
    BY <1>2 DEF InTime
  <2>2. list[m] \in Wait
    OBVIOUS
  <2>3. m \in i
    BY <2>1, <2>2 DEF Wait
  <2> QED BY <1>1, <2>1, <2>3 DEF Waiting
<1> QED BY <1>1, <1>2 DEF Cleaned, out

\* In the two lists one after the other.
BeforeLine(p, w, a, b) ==
    \/ BeforeIn(p, a, b) \/ BeforeIn(w, a, b)
    \/ a \in Waiting(p) /\ b \in Waiting(w)

LEMMA OneAfterTheOther ==
    ASSUME NEW p \in Seq(Wait), NEW w \in Seq(Wait), NEW l, l = p \o w
    PROVE  /\ l \in Seq(Wait) /\ Len(l) = Len(p) + Len(w) /\ Len(p) \in Nat /\ Len(w) \in Nat
           /\ \A i \in 1 .. Len(p) : l[i] = p[i]
           /\ \A i \in 1 .. Len(w) : l[Len(p) + i] = w[i]
           /\ \A i \in 1 .. Len(l) : \/ i \in 1 .. Len(p)
                                     \/ i - Len(p) \in 1 .. Len(w) /\ l[i] = w[i - Len(p)]
<1>1. l \in Seq(Wait) /\ Len(l) = Len(p) + Len(w) /\ Len(p) \in Nat /\ Len(w) \in Nat
  OBVIOUS
<1>2. \A i \in 1 .. Len(p) : l[i] = p[i]
  OBVIOUS
<1>3. \A i \in 1 .. Len(w) : l[Len(p) + i] = w[i]
  OBVIOUS
<1>4. \A i \in 1 .. Len(l) : \/ i \in 1 .. Len(p)
                             \/ i - Len(p) \in 1 .. Len(w) /\ l[i] = w[i - Len(p)]
  OBVIOUS
<1> QED BY ONLY <1>1, <1>2, <1>3, <1>4

LEMMA BeforeInLine ==
    ASSUME NEW p \in Seq(Wait), NEW w \in Seq(Wait), NEW a, NEW b
    PROVE  BeforeIn(p \o w, a, b) <=> BeforeLine(p, w, a, b)
<1> DEFINE l == p \o w
           n == Len(p)
<1>1. /\ DOMAIN l = 1 .. Len(l) /\ Len(l) = n + Len(w) /\ n \in Nat /\ Len(w) \in Nat
      /\ DOMAIN p = 1 .. n /\ DOMAIN w = 1 .. Len(w)
  BY OneAfterTheOther
<1>2. \A i \in 1 .. n : l[i] = p[i] /\ i \in DOMAIN l
  BY <1>1, OneAfterTheOther
<1>3. \A i \in 1 .. Len(w) : l[n + i] = w[i] /\ n + i \in DOMAIN l
  <2>1. \A i \in 1 .. Len(w) : l[n + i] = w[i]
    <3>1. \A x : x = p \o w => \A i \in 1 .. Len(w) : x[Len(p) + i] = w[i]
      BY OneAfterTheOther
    <3> QED BY ONLY <3>1
  <2>2. \A i \in 1 .. Len(w) : n + i \in DOMAIN l
    <3> HIDE DEF l, n
    <3> QED BY <1>1
  <2> QED BY <2>1, <2>2
<1>4. \A i \in DOMAIN l : i \in 1 .. n \/ (i - n \in 1 .. Len(w) /\ l[i] = w[i - n])
  <2>1. \A x : x = p \o w => \A i \in 1 .. Len(x) :
          i \in 1 .. Len(p) \/ (i - Len(p) \in 1 .. Len(w) /\ x[i] = w[i - Len(p)])
    BY OneAfterTheOther
  <2>2. \A i \in 1 .. Len(l) : i \in 1 .. n \/ (i - n \in 1 .. Len(w) /\ l[i] = w[i - n])
    BY ONLY <2>1
  <2> QED BY <1>1, <2>2
<1> HIDE DEF l, n
<1>5. ASSUME BeforeIn(l, a, b) PROVE BeforeLine(p, w, a, b)
  <2>1. PICK i, j \in DOMAIN l : i < j /\ l[i].playerGUID = a /\ l[j].playerGUID = b
    BY <1>5 DEF BeforeIn
  <2>2. i \in Nat /\ j \in Nat
    BY <1>1
  <2>3. CASE j \in 1 .. n
    BY <1>1, <1>2, <2>1, <2>2, <2>3 DEF BeforeLine, BeforeIn
  <2>4. CASE j \notin 1 .. n /\ i \in 1 .. n
    BY <1>1, <1>2, <1>4, <2>1, <2>4 DEF BeforeLine, Waiting
  <2>5. CASE j \notin 1 .. n /\ i \notin 1 .. n
    <3>1. i - n < j - n /\ i - n \in DOMAIN w /\ j - n \in DOMAIN w
      BY <1>1, <1>4, <2>1, <2>2, <2>5
    <3> QED BY <1>4, <2>1, <2>5, <3>1 DEF BeforeLine, BeforeIn
  <2> QED BY <2>3, <2>4, <2>5
<1>6. ASSUME BeforeLine(p, w, a, b) PROVE BeforeIn(l, a, b)
  <2>1. CASE BeforeIn(p, a, b)
    BY <1>1, <1>2, <2>1 DEF BeforeIn
  <2>2. CASE BeforeIn(w, a, b)
    <3>1. PICK i, j \in DOMAIN w : i < j /\ w[i].playerGUID = a /\ w[j].playerGUID = b
      BY <2>2 DEF BeforeIn
    <3>2. n + i < n + j
      BY <1>1, <3>1
    <3> QED BY <1>1, <1>3, <3>1, <3>2 DEF BeforeIn
  <2>3. CASE a \in Waiting(p) /\ b \in Waiting(w)
    <3>1. PICK i \in DOMAIN p : p[i].playerGUID = a
      BY <2>3 DEF Waiting
    <3>2. PICK j \in DOMAIN w : w[j].playerGUID = b
      BY <2>3 DEF Waiting
    <3>3. i < n + j
      BY <1>1
    <3> QED BY <1>1, <1>2, <1>3, <3>1, <3>2, <3>3 DEF BeforeIn
  <2> QED BY <1>6, <2>1, <2>2, <2>3 DEF BeforeLine
<1> QED BY <1>5, <1>6 DEF l

\* Who is in the line, and who before c: no more than there are slots before his.
LEMMA SlotsBefore ==
    ASSUME NEW p, NEW w, Placed(p, w), NEW c \in Waiting(p) \cup Waiting(w)
    PROVE  /\ Slot(p, w, c) \in Nat \ {0}
           /\ \A B \in SUBSET Client : (\A b \in B : BeforeLine(p, w, b, c)) =>
                 IsFiniteSet(B) /\ Cardinality(B) <= Slot(p, w, c) - 1
<1> DEFINE l == p \o w
           s == Slot(p, w, c)
<1>1. p \in Seq(Wait) /\ w \in Seq(Wait)
  BY DEF Placed
<1>2. /\ l \in Seq(Wait) /\ DOMAIN l = 1 .. Len(p) + Len(w) /\ Len(p) \in Nat /\ Len(w) \in Nat
  BY <1>1, OneAfterTheOther
<1>3. \E i \in 1 .. Len(p) + Len(w) : l[i].playerGUID = c
  <2>1. CASE c \in Waiting(p)
    <3>1. PICK i \in DOMAIN p : p[i].playerGUID = c
      BY <2>1 DEF Waiting
    <3>2. i \in 1 .. Len(p) /\ i \in 1 .. Len(p) + Len(w)
      BY <1>1, <1>2, <3>1
    <3>3. l[i] = p[i]
      BY <1>1, <3>2, OneAfterTheOther
    <3> QED BY <3>1, <3>2, <3>3
  <2>2. CASE c \in Waiting(w)
    <3>1. PICK i \in DOMAIN w : w[i].playerGUID = c
      BY <2>2 DEF Waiting
    <3>2. i \in 1 .. Len(w) /\ Len(p) + i \in 1 .. Len(p) + Len(w)
      BY <1>1, <1>2, <3>1
    <3>3. l[Len(p) + i] = w[i]
      BY <1>1, <3>2, OneAfterTheOther
    <3> QED BY <3>1, <3>2, <3>3
  <2> QED BY <2>1, <2>2
<1>4. s \in 1 .. Len(p) + Len(w) /\ l[s].playerGUID = c
  BY <1>3, Zenon DEF Slot
<1>5. \A a : ~BeforeIn(l, a, a)
  BY <1>1, BeforeInLine DEF Placed, BeforeLine
<1> HIDE DEF l, s
<1>6. s \in Nat \ {0} /\ s - 1 \in Nat
  BY <1>2, <1>4
<1> DEFINE f == [i \in 1 .. s - 1 |-> l[i].playerGUID]
           T == {f[i] : i \in 1 .. s - 1}
<1>7. IsFiniteSet(1 .. s - 1) /\ Cardinality(1 .. s - 1) = s - 1
  BY <1>6, FS_Interval
<1>8. f \in Surjection(1 .. s - 1, T)
  BY DEF Surjection
<1>9. IsFiniteSet(T) /\ Cardinality(T) <= s - 1
  <2>1. IsFiniteSet(T) /\ Cardinality(T) <= Cardinality(1 .. s - 1)
    <3> HIDE DEF f, T
    <3> QED BY ONLY <1>7, <1>8, FS_Surjection
  <2> QED BY <1>7, <2>1
<1>10. ASSUME NEW B \in SUBSET Client, \A b \in B : BeforeLine(p, w, b, c)
       PROVE  IsFiniteSet(B) /\ Cardinality(B) <= s - 1
  <2>1. ASSUME NEW b \in B PROVE b \in T
    <3>1. BeforeIn(l, b, c)
      BY <1>1, <1>10, BeforeInLine DEF l
    <3>2. PICK i, j \in DOMAIN l : i < j /\ l[i].playerGUID = b /\ l[j].playerGUID = c
      BY <3>1 DEF BeforeIn
    <3>3. j = s
      <4>1. ~(j < s) /\ ~(s < j)
        BY <1>2, <1>4, <1>5, <3>2 DEF BeforeIn
      <4> QED BY <1>2, <1>6, <3>2, <4>1
    <3>4. i \in 1 .. s - 1
      BY <1>2, <1>6, <3>2, <3>3
    <3>5. f[i] = b
      BY <3>2, <3>4
    <3> HIDE DEF f
    <3> QED BY <3>4, <3>5
  <2>2. B \in SUBSET T
    BY <2>1
  <2> HIDE DEF T
  <2>3. IsFiniteSet(B) /\ Cardinality(B) <= Cardinality(T)
    BY ONLY <1>9, <2>2, FS_Subset
  <2>4. Cardinality(B) \in Nat /\ Cardinality(T) \in Nat
    BY <1>9, <2>3, FS_CardinalityType
  <2> QED BY <1>6, <1>9, <2>3, <2>4
<1> QED BY <1>6, <1>10 DEF s

\* Who is in time and before another stays before him.
LEMMA StayBefore ==
    ASSUME NEW p, NEW w, NEW q, NEW v, Placed(p, w), Thinner(p, q), Thinner(w, v),
           NEW a, NEW b, BeforeLine(p, w, a, b),
           a \in Waiting(q) \cup Waiting(v), b \in Waiting(q) \cup Waiting(v)
    PROVE  BeforeLine(q, v, a, b)
<1>1. /\ Waiting(q) \subseteq Waiting(p) /\ Waiting(v) \subseteq Waiting(w)
      /\ \A x, y : BeforeIn(q, x, y) => BeforeIn(p, x, y)
      /\ \A x, y : BeforeIn(v, x, y) => BeforeIn(w, x, y)
      /\ q \in Seq(Wait) /\ v \in Seq(Wait) /\ p \in Seq(Wait) /\ w \in Seq(Wait)
  BY DEF Thinner, Placed
<1>2. \A l \in Seq(Wait) : \A x, y : BeforeIn(l, x, y) => x \in Waiting(l) /\ y \in Waiting(l)
  BY DEF BeforeIn, Waiting
<1>3. \A l \in Seq(Wait) : \A x, y : x \in Waiting(l) /\ y \in Waiting(l) => x = y \/ BeforeIn(l, x, y) \/ BeforeIn(l, y, x)
  <2> SUFFICES ASSUME NEW l \in Seq(Wait), NEW x \in Waiting(l), NEW y \in Waiting(l)
               PROVE  x = y \/ BeforeIn(l, x, y) \/ BeforeIn(l, y, x)
    OBVIOUS
  <2>1. PICK i \in DOMAIN l : l[i].playerGUID = x
    BY DEF Waiting
  <2>2. PICK j \in DOMAIN l : l[j].playerGUID = y
    BY DEF Waiting
  <2>3. i = j \/ i < j \/ j < i
    OBVIOUS
  <2> QED BY <2>1, <2>2, <2>3 DEF BeforeIn
<1>4. \A l \in {p, w} : \A x, y : BeforeIn(l, x, y) => x # y /\ ~BeforeIn(l, y, x)
  <2> SUFFICES ASSUME NEW l \in {p, w}, NEW x, NEW y, BeforeIn(l, x, y), BeforeIn(l, y, x)
               PROVE  FALSE
    BY DEF Placed
  <2>0. l \in Seq(Wait) /\ \A z : ~BeforeIn(l, z, z)
    BY <1>1 DEF Placed
  <2>1. PICK i, j \in DOMAIN l : i < j /\ l[i].playerGUID = x /\ l[j].playerGUID = y
    BY DEF BeforeIn
  <2>2. PICK k, m \in DOMAIN l : k < m /\ l[k].playerGUID = y /\ l[m].playerGUID = x
    BY DEF BeforeIn
  <2>3. i < m \/ m < i \/ k < j \/ j < k
    BY <2>0, <2>1, <2>2
  <2> QED BY <2>0, <2>1, <2>2, <2>3 DEF BeforeIn
<1>5. Waiting(p) \cap Waiting(w) = {}
  BY DEF Placed
<1>6. CASE BeforeIn(p, a, b)
  BY <1>1, <1>2, <1>3, <1>4, <1>5, <1>6 DEF BeforeLine
<1>7. CASE BeforeIn(w, a, b)
  BY <1>1, <1>2, <1>3, <1>4, <1>5, <1>7 DEF BeforeLine
<1>8. CASE a \in Waiting(p) /\ b \in Waiting(w)
  BY <1>1, <1>5, <1>8 DEF BeforeLine
<1> QED BY <1>6, <1>7, <1>8 DEF BeforeLine

-----------------------------------------------------------------------------
(* The invariant, and what a login does to the line *)

WaitInv ==
    /\ now \in Nat /\ online \subseteq Client
    /\ Placed(priorityWaitList, waitList)
    /\ (Waiting(priorityWaitList) \cup Waiting(waitList)) \cap (online \cup Privileged) = {}
    /\ MaxPlayers = 0 => priorityWaitList = <<>> /\ waitList = <<>>

LEMMA EntryTyped ==
    ASSUME WaitInv, NEW c \in Client, NEW slot
    PROVE  Entry(c, slot) \in Wait /\ Entry(c, slot).playerGUID = c
<1>1. Timeout(slot) \in Nat
  BY DEF Timeout, GetTime
<1>2. now \in Nat
  BY DEF WaitInv
<1> HIDE DEF Timeout
<1> QED BY <1>1, <1>2 DEF Entry, Wait

LEMMA LaterThinner ==
    ASSUME WaitInv, NEW list \in Seq(Wait), NEW c \in Client, NEW slot
    PROVE  Thinner(list, Later(list, c, slot)) /\ Waiting(Later(list, c, slot)) = Waiting(list)
<1> DEFINE out == Later(list, c, slot)
<1>1. DOMAIN out = DOMAIN list /\ \A i \in DOMAIN list : out[i].playerGUID = list[i].playerGUID /\ out[i] \in Wait
  BY EntryTyped DEF Later
<1>2. out \in Seq(Wait)
  BY EntryTyped DEF Later
<1> HIDE DEF out
<1>3. Waiting(out) = Waiting(list)
  BY <1>1 DEF Waiting
<1>4. \A a, b : BeforeIn(out, a, b) => BeforeIn(list, a, b)
  BY <1>1 DEF BeforeIn
<1> QED BY <1>2, <1>3, <1>4 DEF Thinner, out

LEMMA AppendedWait ==
    ASSUME NEW list \in Seq(Wait), NEW e \in Wait
    PROVE  /\ Append(list, e) \in Seq(Wait) /\ Waiting(Append(list, e)) = Waiting(list) \cup {e.playerGUID}
           /\ \A a, b : BeforeIn(Append(list, e), a, b) =>
                BeforeIn(list, a, b) \/ (a \in Waiting(list) /\ b = e.playerGUID)
<1> DEFINE out == Append(list, e)
           last == Len(list) + 1
<1>1. /\ out \in Seq(Wait) /\ DOMAIN out = DOMAIN list \cup {last} /\ out[last] = e
      /\ \A i \in DOMAIN list : out[i] = list[i] /\ i < last /\ i \in Nat
      /\ last \in Nat
  OBVIOUS
<1> HIDE DEF out, last
<1>2. Waiting(out) = Waiting(list) \cup {e.playerGUID}
  BY <1>1 DEF Waiting
<1>3. ASSUME NEW a, NEW b, BeforeIn(out, a, b)
      PROVE  BeforeIn(list, a, b) \/ (a \in Waiting(list) /\ b = e.playerGUID)
  <2>1. PICK i, j \in DOMAIN out : i < j /\ out[i].playerGUID = a /\ out[j].playerGUID = b
    BY <1>3 DEF BeforeIn
  <2>2. i \in DOMAIN list
    BY <1>1, <2>1
  <2>3. CASE j = last
    BY <1>1, <2>1, <2>2, <2>3 DEF Waiting
  <2>4. CASE j \in DOMAIN list
    BY <1>1, <2>1, <2>2, <2>4 DEF BeforeIn
  <2> QED BY <1>1, <2>1, <2>3, <2>4
<1> QED BY <1>1, <1>2, <1>3 DEF out

LEMMA CleanedLists ==
    ASSUME WaitInv
    PROVE  LET first == Cleaned(priorityWaitList)
               second == Cleaned(waitList)
           IN  /\ first \in Seq(Wait) /\ second \in Seq(Wait)
               /\ Thinner(priorityWaitList, first) /\ Thinner(waitList, second) /\ Placed(first, second)
               /\ \A a : InTime(priorityWaitList, a) => a \in Waiting(first)
               /\ \A a : InTime(waitList, a) => a \in Waiting(second)
<1> DEFINE first == Cleaned(priorityWaitList)
           second == Cleaned(waitList)
<1>1. now \in Nat /\ Placed(priorityWaitList, waitList)
      /\ priorityWaitList \in Seq(Wait) /\ waitList \in Seq(Wait)
  BY DEF WaitInv, Placed
<1>2. /\ Thinner(priorityWaitList, first) /\ \A a : InTime(priorityWaitList, a) => a \in Waiting(first)
      /\ Thinner(waitList, second) /\ \A a : InTime(waitList, a) => a \in Waiting(second)
  BY <1>1, CleanedStays
<1> HIDE DEF first, second
<1>3. Placed(first, second) /\ first \in Seq(Wait) /\ second \in Seq(Wait)
  BY <1>1, <1>2, ThinnerPlaced DEF Placed
<1> QED BY <1>2, <1>3 DEF first, second

LEMMA GuidsType ==
    ASSUME NEW list \in Seq(Wait)
    PROVE  /\ Guids(list) \in Seq(Client) /\ Len(Guids(list)) = Len(list)
           /\ \A i \in 1 .. Len(list) : Guids(list)[i] = list[i].playerGUID
           /\ Waiting(list) \subseteq Client
<1>1. \A i \in 1 .. Len(list) : list[i] \in Wait
  OBVIOUS
<1>2. \A i \in 1 .. Len(list) : list[i].playerGUID \in Client
  BY <1>1 DEF Wait
<1>3. Len(list) \in Nat /\ DOMAIN list = 1 .. Len(list)
  OBVIOUS
<1>4. Guids(list) = [i \in 1 .. Len(list) |-> list[i].playerGUID]
  BY <1>3 DEF Guids
<1>5. Waiting(list) \subseteq Client
  BY <1>2, <1>3 DEF Waiting
<1>6. Guids(list) \in Seq(Client) /\ Len(Guids(list)) = Len(list)
  BY <1>2, <1>3, <1>4
<1>7. \A i \in 1 .. Len(list) : Guids(list)[i] = list[i].playerGUID
  BY <1>4
<1> QED BY <1>5, <1>6, <1>7

LEMMA LineIs ==
    ASSUME NEW p \in Seq(Wait), NEW w \in Seq(Wait)
    PROVE  LET g == Guids(p) \o Guids(w)
               l == p \o w
           IN  DOMAIN g = DOMAIN l /\ \A i \in DOMAIN l : g[i] = l[i].playerGUID
<1> DEFINE u == Guids(p)
           x == Guids(w)
           g == u \o x
           l == p \o w
           n == Len(p)
           m == Len(w)
<1>1. /\ u \in Seq(Client) /\ Len(u) = n /\ x \in Seq(Client) /\ Len(x) = m
      /\ n \in Nat /\ m \in Nat
  BY GuidsType
<1>a. \A i \in 1 .. n : u[i] = p[i].playerGUID
  BY GuidsType
<1>b. \A i \in 1 .. m : x[i] = w[i].playerGUID
  BY GuidsType
<1> HIDE DEF u, x
<1>2. DOMAIN g = 1 .. n + m /\ DOMAIN l = 1 .. n + m
  <2>1. g \in Seq(Client) /\ Len(g) = Len(u) + Len(x)
    <3>1. u \in Seq(Client) /\ x \in Seq(Client)
      BY <1>1
    <3> QED BY ONLY <3>1
  <2>2. l \in Seq(Wait) /\ Len(l) = n + m
    BY OneAfterTheOther
  <2> HIDE DEF g, l, n, m
  <2> QED BY <1>1, <2>1, <2>2
<1>3. \A i \in 1 .. n : g[i] = u[i] /\ l[i] = p[i]
  BY <1>1
<1>4. \A i \in 1 .. n + m : i \notin 1 .. n => i - n \in 1 .. m /\ g[i] = x[i - n] /\ l[i] = w[i - n]
  <2> SUFFICES ASSUME NEW i \in 1 .. n + m, i \notin 1 .. n
               PROVE  i - n \in 1 .. m /\ g[i] = x[i - n] /\ l[i] = w[i - n]
    OBVIOUS
  <2>1. i - n \in 1 .. m
    <3> HIDE DEF n, m
    <3> QED BY <1>1
  <2>2. g[i] = x[i - n]
    BY <1>1
  <2>3. l[i] = w[i - n]
    BY <1>1
  <2> QED BY <2>1, <2>2, <2>3
<1> HIDE DEF g, l, n, m
<1>5. \A i \in DOMAIN l : g[i] = l[i].playerGUID
  BY <1>a, <1>b, <1>2, <1>3, <1>4
<1> QED BY <1>2, <1>5 DEF g, l, u, x

LEMMA AheadIs ==
    ASSUME WaitInv, NEW c
    PROVE  Ahead(c) = {a \in Waiting(priorityWaitList) \cup Waiting(waitList) :
                         BeforeLine(priorityWaitList, waitList, a, c)}
<1> DEFINE l == priorityWaitList \o waitList
<1>1. priorityWaitList \in Seq(Wait) /\ waitList \in Seq(Wait)
  BY DEF WaitInv, Placed
<1>2. DOMAIN line = DOMAIN l /\ \A i \in DOMAIN l : line[i] = l[i].playerGUID
  BY <1>1, LineIs DEF line
<1> HIDE DEF l
<1>3. \A a : (\E i, j \in DOMAIN line : line[i] = a /\ line[j] = c /\ i < j) <=> BeforeIn(l, a, c)
  BY <1>2 DEF BeforeIn
<1>4. \A a : BeforeIn(l, a, c) <=> BeforeLine(priorityWaitList, waitList, a, c)
  BY <1>1, BeforeInLine DEF l
<1> QED BY <1>3, <1>4 DEF Ahead

LEMMA OnceEnough == WaitInv => OnceInLine
<1> SUFFICES ASSUME WaitInv PROVE OnceInLine
  OBVIOUS
<1> DEFINE l == priorityWaitList \o waitList
<1>1. priorityWaitList \in Seq(Wait) /\ waitList \in Seq(Wait) /\ Placed(priorityWaitList, waitList)
  BY DEF WaitInv, Placed
<1>2. DOMAIN line = DOMAIN l /\ \A i \in DOMAIN l : line[i] = l[i].playerGUID
  BY <1>1, LineIs DEF line
<1>3. /\ DOMAIN l \in SUBSET Nat
      /\ \A i \in DOMAIN l : l[i].playerGUID \in Waiting(priorityWaitList) \cup Waiting(waitList)
  <2>1. l \in Seq(Wait) /\ Len(l) = Len(priorityWaitList) + Len(waitList)
    BY <1>1, OneAfterTheOther
  <2>2. \A i \in 1 .. Len(priorityWaitList) : l[i] = priorityWaitList[i]
    BY <1>1, OneAfterTheOther
  <2>3. \A i \in 1 .. Len(l) : i \in 1 .. Len(priorityWaitList) \/
           (i - Len(priorityWaitList) \in 1 .. Len(waitList) /\ l[i] = waitList[i - Len(priorityWaitList)])
    BY <1>1, OneAfterTheOther
  <2> HIDE DEF l
  <2>4. DOMAIN l = 1 .. Len(l) /\ DOMAIN l \in SUBSET Nat
    BY <2>1
  <2>5. ASSUME NEW i \in DOMAIN l
        PROVE  l[i].playerGUID \in Waiting(priorityWaitList) \cup Waiting(waitList)
    <3>1. CASE i \in 1 .. Len(priorityWaitList)
      <4>1. i \in DOMAIN priorityWaitList
        BY <1>1, <3>1
      <4> QED BY <2>2, <3>1, <4>1 DEF Waiting
    <3>2. CASE i \notin 1 .. Len(priorityWaitList)
      <4>1. i - Len(priorityWaitList) \in 1 .. Len(waitList) /\ l[i] = waitList[i - Len(priorityWaitList)]
        BY <2>3, <2>4, <3>2
      <4>2. i - Len(priorityWaitList) \in DOMAIN waitList
        BY <1>1, <4>1
      <4> QED BY <4>1, <4>2 DEF Waiting
    <3> QED BY <3>1, <3>2
  <2> QED BY <2>4, <2>5
<1>4. \A a : ~BeforeIn(l, a, a)
  BY <1>1, BeforeInLine DEF Placed, BeforeLine
<1> HIDE DEF l
<1>5. \A i, j \in DOMAIN line : line[i] = line[j] => i = j
  <2> SUFFICES ASSUME NEW i \in DOMAIN l, NEW j \in DOMAIN l, l[i].playerGUID = l[j].playerGUID
               PROVE  i = j
    BY <1>2
  <2>1. ~(i < j) /\ ~(j < i)
    BY <1>4 DEF BeforeIn
  <2> QED BY <1>3, <2>1
<1>6. \A i \in DOMAIN line : line[i] \notin online
  BY <1>2, <1>3 DEF WaitInv
<1> QED BY <1>5, <1>6 DEF OnceInLine

LEMMA NoTurning ==
    ASSUME NEW list \in Seq(Wait), \A z : ~BeforeIn(list, z, z), NEW a, NEW b, BeforeIn(list, a, b)
    PROVE  ~BeforeIn(list, b, a)
<1> SUFFICES ASSUME BeforeIn(list, b, a) PROVE FALSE
  OBVIOUS
<1>1. PICK i, j \in DOMAIN list : i < j /\ list[i].playerGUID = a /\ list[j].playerGUID = b
  BY DEF BeforeIn
<1>2. PICK k, m \in DOMAIN list : k < m /\ list[k].playerGUID = b /\ list[m].playerGUID = a
  BY DEF BeforeIn
<1>3. i < m \/ m < i \/ k < j \/ j < k
  BY <1>1, <1>2
<1> QED BY <1>1, <1>2, <1>3 DEF BeforeIn

LEMMA ThinnerKeepsOrder ==
    ASSUME NEW p, NEW w, Placed(p, w), NEW a, NEW b
    PROVE  /\ \A q : Thinner(p, q) /\ BeforeIn(p, a, b) => ~BeforeIn(q, b, a)
           /\ \A v : Thinner(w, v) /\ BeforeIn(w, a, b) => ~BeforeIn(v, b, a)
<1>1. p \in Seq(Wait) /\ w \in Seq(Wait) /\ \A z : ~BeforeIn(p, z, z) /\ ~BeforeIn(w, z, z)
  BY DEF Placed
<1>2. (BeforeIn(p, a, b) => ~BeforeIn(p, b, a)) /\ (BeforeIn(w, a, b) => ~BeforeIn(w, b, a))
  BY <1>1, NoTurning
<1> QED BY <1>2 DEF Thinner

LEMMA InTimeInLine ==
    ASSUME NEW p \in Seq(Wait), NEW w \in Seq(Wait), NEW a, InTime(p \o w, a)
    PROVE  InTime(p, a) \/ InTime(w, a)
<1> DEFINE l == p \o w
<1>1. PICK i \in DOMAIN l : l[i].playerGUID = a /\ l[i].timeout > now
  BY DEF InTime
<1>2. l \in Seq(Wait) /\ i \in 1 .. Len(l)
  BY <1>1, OneAfterTheOther
<1>3. CASE i \in 1 .. Len(p)
  <2>1. l[i] = p[i]
    BY <1>3, OneAfterTheOther
  <2> HIDE DEF l
  <2> QED BY <1>1, <1>3, <2>1 DEF InTime
<1>4. CASE i \notin 1 .. Len(p)
  <2>1. i - Len(p) \in 1 .. Len(w) /\ l[i] = w[i - Len(p)]
    BY <1>2, <1>4, OneAfterTheOther
  <2> HIDE DEF l
  <2> QED BY <1>1, <2>1 DEF InTime
<1> QED BY <1>3, <1>4

\* Who is ahead of c and not given up is before him in the cleaned lists.
LEMMA AheadWhenCleaned ==
    ASSUME WaitInv, NEW first, NEW second, Placed(first, second),
           Thinner(priorityWaitList, first), Thinner(waitList, second),
           NEW c \in Waiting(first) \cup Waiting(second),
           NEW B \in SUBSET (Ahead(c) \cap (Waiting(first) \cup Waiting(second)))
    PROVE  /\ Slot(first, second, c) \in Nat \ {0}
           /\ Cardinality(B) \in Nat /\ Cardinality(B) <= Slot(first, second, c) - 1
<1>1. Placed(priorityWaitList, waitList)
  BY DEF WaitInv
<1>2. \A b \in B : BeforeLine(first, second, b, c)
  BY <1>1, AheadIs, StayBefore
<1>3. B \in SUBSET Client
  <2>1. Waiting(first) \subseteq Client /\ Waiting(second) \subseteq Client
    BY GuidsType DEF Placed
  <2> QED BY <2>1
<1>4. Slot(first, second, c) \in Nat \ {0} /\ IsFiniteSet(B) /\ Cardinality(B) <= Slot(first, second, c) - 1
  BY <1>2, <1>3, SlotsBefore
<1> QED BY <1>4, FS_CardinalityType

-----------------------------------------------------------------------------
(* A login that looks at the line *)

LEMMA OnlineFinite ==
    ASSUME WaitInv
    PROVE  /\ IsFiniteSet(online) /\ Cardinality(online) \in Nat
           /\ \A c \in Client \ online : Cardinality(online \cup {c}) = Cardinality(online) + 1
<1>1. IsFiniteSet(online)
  BY WaitAssumption, FS_Subset DEF WaitInv
<1> QED BY <1>1, FS_CardinalityType, FS_AddElement

LEMMA FromQueue ==
    ASSUME WaitInv, NEW c \in Client \ Privileged, c \notin online, MaxPlayers # 0, UNCHANGED now,
           c \in Waiting(Cleaned(priorityWaitList)) \cup Waiting(Cleaned(waitList)),
           LoginFromQueue(c, Cleaned(priorityWaitList), Cleaned(waitList))
    PROVE  WaitInv' /\ RoomForThoseBefore /\ InTimeStays
<1> DEFINE first == Cleaned(priorityWaitList)
           second == Cleaned(waitList)
           slot == Slot(first, second, c)
           room == Cardinality(online)
<1>1. /\ first \in Seq(Wait) /\ second \in Seq(Wait)
      /\ Thinner(priorityWaitList, first) /\ Thinner(waitList, second) /\ Placed(first, second)
      /\ \A a : InTime(priorityWaitList, a) => a \in Waiting(first)
      /\ \A a : InTime(waitList, a) => a \in Waiting(second)
  BY CleanedLists
<1>2. /\ room + slot <= MaxPlayers /\ online' \in {online, online \cup {c}}
      /\ priorityWaitList' = Without(first, c) /\ waitList' = Without(second, c)
  BY DEF LoginFromQueue, Free, Place
<1>3. c \in Waiting(first) \cup Waiting(second)
  OBVIOUS
<1> HIDE DEF first, second
<1>4. /\ Thinner(first, priorityWaitList') /\ Waiting(priorityWaitList') = Waiting(first) \ {c}
      /\ Thinner(second, waitList') /\ Waiting(waitList') = Waiting(second) \ {c}
  BY <1>1, <1>2, Removed
<1>5. Thinner(priorityWaitList, priorityWaitList') /\ Thinner(waitList, waitList')
  BY <1>1, <1>4, ThinnerTwice
<1>6. Placed(priorityWaitList, waitList) /\ now \in Nat /\ online \subseteq Client
      /\ (Waiting(priorityWaitList) \cup Waiting(waitList)) \cap (online \cup Privileged) = {}
  BY DEF WaitInv
<1>7. /\ Waiting(first) \subseteq Waiting(priorityWaitList) /\ Waiting(second) \subseteq Waiting(waitList)
  BY <1>1 DEF Thinner
<1>8. WaitInv'
  <2>1. Placed(priorityWaitList', waitList')
    BY <1>5, <1>6, ThinnerPlaced
  <2>2. online' \subseteq Client /\ now' \in Nat
    BY <1>2, <1>6
  <2>3. (Waiting(priorityWaitList') \cup Waiting(waitList')) \cap (online' \cup Privileged) = {}
    BY <1>2, <1>4, <1>6, <1>7
  <2> QED BY <2>1, <2>2, <2>3 DEF WaitInv
<1>9. /\ slot \in Nat \ {0}
      /\ \A B \in SUBSET (Ahead(c) \cap (Waiting(first) \cup Waiting(second))) :
            Cardinality(B) \in Nat /\ Cardinality(B) <= slot - 1
  BY <1>1, <1>3, AheadWhenCleaned
<1>10. room \in Nat /\ Cardinality(online \cup {c}) = room + 1 /\ MaxPlayers \in Nat
  BY OnlineFinite, WaitAssumption
<1> HIDE DEF slot, room
<1>11. RoomForThoseBefore
  <2> SUFFICES ASSUME NEW d \in online' \ online
               PROVE  LET before == IF d \in Waiting(priorityWaitList) \cup Waiting(waitList)
                                    THEN Ahead(d) ELSE Waiting(priorityWaitList) \cup Waiting(waitList)
                          still == before \cap (Waiting(priorityWaitList') \cup Waiting(waitList'))
                      IN  Cardinality(online') + Cardinality(still) <= MaxPlayers
    BY DEF RoomForThoseBefore
  <2>1. d = c /\ online' = online \cup {c} /\ c \in Waiting(priorityWaitList) \cup Waiting(waitList)
    BY <1>2, <1>3, <1>7
  <2> DEFINE still == Ahead(c) \cap (Waiting(priorityWaitList') \cup Waiting(waitList'))
  <2>2. still \in SUBSET (Ahead(c) \cap (Waiting(first) \cup Waiting(second)))
    BY <1>4
  <2>3. Cardinality(still) \in Nat /\ Cardinality(still) <= slot - 1
    BY <1>9, <2>2
  <2>4. Cardinality(online') + Cardinality(still) <= MaxPlayers
    <3> HIDE DEF still
    <3>1. Cardinality(online') = room + 1
      BY <1>10, <2>1
    <3> QED BY <1>2, <1>9, <1>10, <2>3, <3>1
  <2> QED BY <2>1, <2>4
<1>12. ASSUME NEW a \in Client, a \in Waiting(first) \cup Waiting(second)
       PROVE  \/ a \in Waiting(priorityWaitList') \cup Waiting(waitList')
              \/ LET before == {b \in Ahead(a) : InTime(priorityWaitList \o waitList, b)}
                 IN  Cardinality(online) + Cardinality(before) < MaxPlayers
  <2>1. CASE a # c
    BY <1>4, <1>12, <2>1
  <2>2. CASE a = c
    <3> DEFINE before == {b \in Ahead(c) : InTime(priorityWaitList \o waitList, b)}
    <3>1. ASSUME NEW b \in before PROVE b \in Waiting(first) \cup Waiting(second)
      BY <1>1, <1>6, InTimeInLine DEF Placed
    <3>2. before \in SUBSET (Ahead(c) \cap (Waiting(first) \cup Waiting(second)))
      BY <3>1
    <3> HIDE DEF before
    <3>3. Cardinality(before) \in Nat /\ Cardinality(before) <= slot - 1
      BY <1>9, <3>2
    <3>4. room + Cardinality(before) < MaxPlayers
      BY <1>2, <1>9, <1>10, <3>3
    <3> QED BY <2>2, <3>4 DEF before, room
  <2> QED BY <2>1, <2>2
<1>13. InTimeStays
  <2>1. ASSUME NEW a \in Client, InTime(priorityWaitList, a) PROVE StandsOn(priorityWaitList, priorityWaitList', a)
    <3>1. a \in Waiting(first) /\ a \notin Waiting(second)
      BY <1>1, <2>1 DEF Placed
    <3>2. \A b \in Client : BeforeIn(priorityWaitList, a, b) => ~BeforeIn(priorityWaitList', b, a)
      BY <1>5, <1>6, ThinnerKeepsOrder
    <3>3. a \notin Waiting(waitList')
      BY <1>4, <3>1
    <3> QED BY <1>12, <3>1, <3>2, <3>3 DEF StandsOn
  <2>2. ASSUME NEW a \in Client, InTime(waitList, a) PROVE StandsOn(waitList, waitList', a)
    <3>1. a \in Waiting(second) /\ a \notin Waiting(first)
      BY <1>1, <2>2 DEF Placed
    <3>2. \A b \in Client : BeforeIn(waitList, a, b) => ~BeforeIn(waitList', b, a)
      BY <1>5, <1>6, ThinnerKeepsOrder
    <3>3. a \notin Waiting(priorityWaitList')
      BY <1>4, <3>1
    <3> QED BY <1>12, <3>1, <3>2, <3>3 DEF StandsOn
  <2> QED BY <2>1, <2>2 DEF InTimeStays
<1> QED BY <1>8, <1>11, <1>13

\* Nobody comes online, and whoever is in time stays in his list.
LEMMA NobodyLeaves ==
    ASSUME Placed(priorityWaitList, waitList), online' \subseteq online,
           \A a : InTime(priorityWaitList, a) => a \in Waiting(priorityWaitList'),
           \A a : InTime(waitList, a) => a \in Waiting(waitList'),
           \A a, b : InTime(priorityWaitList, a) /\ BeforeIn(priorityWaitList, a, b) => ~BeforeIn(priorityWaitList', b, a),
           \A a, b : InTime(waitList, a) /\ BeforeIn(waitList, a, b) => ~BeforeIn(waitList', b, a)
    PROVE  RoomForThoseBefore /\ InTimeStays
  BY DEF RoomForThoseBefore, InTimeStays, StandsOn

LEMMA Longer ==
    ASSUME WaitInv, NEW c \in Client \ Privileged, c \notin online, MaxPlayers # 0, UNCHANGED now,
           WaitLonger(c, Cleaned(priorityWaitList), Cleaned(waitList))
    PROVE  WaitInv' /\ RoomForThoseBefore /\ InTimeStays
<1> DEFINE first == Cleaned(priorityWaitList)
           second == Cleaned(waitList)
           slot == Slot(first, second, c)
<1>1. /\ first \in Seq(Wait) /\ second \in Seq(Wait)
      /\ Thinner(priorityWaitList, first) /\ Thinner(waitList, second) /\ Placed(first, second)
      /\ \A a : InTime(priorityWaitList, a) => a \in Waiting(first)
      /\ \A a : InTime(waitList, a) => a \in Waiting(second)
  BY CleanedLists
<1>2. priorityWaitList' = Later(first, c, slot) /\ waitList' = Later(second, c, slot) /\ online' = online
  BY DEF WaitLonger
<1> HIDE DEF first, second, slot
<1>3. /\ Thinner(first, priorityWaitList') /\ Waiting(priorityWaitList') = Waiting(first)
      /\ Thinner(second, waitList') /\ Waiting(waitList') = Waiting(second)
  BY <1>1, <1>2, LaterThinner
<1>4. Thinner(priorityWaitList, priorityWaitList') /\ Thinner(waitList, waitList')
  BY <1>1, <1>3, ThinnerTwice
<1>5. Placed(priorityWaitList, waitList) /\ now \in Nat /\ online \subseteq Client
      /\ (Waiting(priorityWaitList) \cup Waiting(waitList)) \cap (online \cup Privileged) = {}
  BY DEF WaitInv
<1>6. Placed(priorityWaitList', waitList')
  BY <1>4, <1>5, ThinnerPlaced
<1>7. WaitInv'
  BY <1>2, <1>4, <1>5, <1>6 DEF WaitInv, Thinner
<1>8. /\ \A a, b : BeforeIn(priorityWaitList, a, b) => ~BeforeIn(priorityWaitList', b, a)
      /\ \A a, b : BeforeIn(waitList, a, b) => ~BeforeIn(waitList', b, a)
  BY <1>4, <1>5, ThinnerKeepsOrder
<1>9. RoomForThoseBefore /\ InTimeStays
  BY <1>1, <1>2, <1>3, <1>5, <1>8, NobodyLeaves
<1> QED BY <1>7, <1>9

\* Behind those who are left.
LEMMA AppendedPlaced ==
    ASSUME NEW list \in Seq(Wait), NEW out, Thinner(list, out), NEW e \in Wait,
           \A z : ~BeforeIn(list, z, z), e.playerGUID \notin Waiting(out),
           \A a : InTime(list, a) => a \in Waiting(out)
    PROVE  LET new == Append(out, e)
           IN  /\ new \in Seq(Wait) /\ Waiting(new) = Waiting(out) \cup {e.playerGUID}
               /\ \A z : ~BeforeIn(new, z, z)
               /\ \A a, b : InTime(list, a) /\ BeforeIn(list, a, b) => ~BeforeIn(new, b, a)
<1> DEFINE new == Append(out, e)
<1>1. out \in Seq(Wait) /\ \A a, b : BeforeIn(out, a, b) => BeforeIn(list, a, b)
  BY DEF Thinner
<1>2. /\ new \in Seq(Wait) /\ Waiting(new) = Waiting(out) \cup {e.playerGUID}
      /\ \A a, b : BeforeIn(new, a, b) => BeforeIn(out, a, b) \/ (a \in Waiting(out) /\ b = e.playerGUID)
  BY <1>1, AppendedWait
<1> HIDE DEF new
<1>3. \A z : ~BeforeIn(new, z, z)
  BY <1>1, <1>2
<1>4. \A a, b : BeforeIn(list, a, b) => ~BeforeIn(list, b, a)
  BY NoTurning
<1>5. \A a, b : InTime(list, a) /\ BeforeIn(list, a, b) => ~BeforeIn(new, b, a)
  BY <1>1, <1>2, <1>4
<1> QED BY <1>2, <1>3, <1>5 DEF new

LEMMA Enqueued ==
    ASSUME WaitInv, NEW c \in Client \ Privileged, c \notin online, MaxPlayers # 0, UNCHANGED now,
           c \notin Waiting(Cleaned(priorityWaitList)) \cup Waiting(Cleaned(waitList)),
           Enqueue(c, Cleaned(priorityWaitList), Cleaned(waitList))
    PROVE  WaitInv' /\ RoomForThoseBefore /\ InTimeStays
<1> DEFINE first == Cleaned(priorityWaitList)
           second == Cleaned(waitList)
<1>1. /\ first \in Seq(Wait) /\ second \in Seq(Wait)
      /\ Thinner(priorityWaitList, first) /\ Thinner(waitList, second) /\ Placed(first, second)
      /\ \A a : InTime(priorityWaitList, a) => a \in Waiting(first)
      /\ \A a : InTime(waitList, a) => a \in Waiting(second)
  BY CleanedLists
<1>2. /\ \/ (\E n : priorityWaitList' = Append(first, Entry(c, n))) /\ waitList' = second
         \/ priorityWaitList' = first /\ (\E n : waitList' = Append(second, Entry(c, n)))
      /\ online' = online
  BY DEF Enqueue
<1>3. c \notin Waiting(first) \cup Waiting(second)
  OBVIOUS
<1> HIDE DEF first, second
<1>4. Placed(priorityWaitList, waitList) /\ now \in Nat /\ online \subseteq Client
      /\ (Waiting(priorityWaitList) \cup Waiting(waitList)) \cap (online \cup Privileged) = {}
      /\ priorityWaitList \in Seq(Wait) /\ waitList \in Seq(Wait)
  BY DEF WaitInv, Placed
<1>5. /\ \A z : ~BeforeIn(priorityWaitList, z, z) /\ ~BeforeIn(waitList, z, z)
      /\ \A z : ~BeforeIn(first, z, z) /\ ~BeforeIn(second, z, z)
      /\ Waiting(first) \cap Waiting(second) = {}
      /\ Waiting(first) \subseteq Waiting(priorityWaitList) /\ Waiting(second) \subseteq Waiting(waitList)
  BY <1>1, <1>4 DEF Placed, Thinner
<1>6. /\ \A a, b : BeforeIn(priorityWaitList, a, b) => ~BeforeIn(first, b, a)
      /\ \A a, b : BeforeIn(waitList, a, b) => ~BeforeIn(second, b, a)
  BY <1>1, <1>4, ThinnerKeepsOrder
<1>7. CASE (\E n : priorityWaitList' = Append(first, Entry(c, n))) /\ waitList' = second
  <2>1. PICK n : priorityWaitList' = Append(first, Entry(c, n))
    BY <1>7
  <2> DEFINE e == Entry(c, n)
  <2>2. e \in Wait /\ e.playerGUID = c
    BY EntryTyped
  <2> HIDE DEF e
  <2>3. /\ priorityWaitList' \in Seq(Wait) /\ Waiting(priorityWaitList') = Waiting(first) \cup {c}
        /\ \A z : ~BeforeIn(priorityWaitList', z, z)
        /\ \A a, b : InTime(priorityWaitList, a) /\ BeforeIn(priorityWaitList, a, b) => ~BeforeIn(priorityWaitList', b, a)
    <3> DEFINE new == Append(first, e)
    <3>1. /\ new \in Seq(Wait) /\ Waiting(new) = Waiting(first) \cup {e.playerGUID}
          /\ \A z : ~BeforeIn(new, z, z)
          /\ \A a, b : InTime(priorityWaitList, a) /\ BeforeIn(priorityWaitList, a, b) => ~BeforeIn(new, b, a)
      BY <1>1, <1>3, <1>4, <1>5, <2>2, AppendedPlaced
    <3>2. priorityWaitList' = new
      BY <2>1 DEF e
    <3> HIDE DEF new
    <3> QED BY <2>2, <3>1, <3>2
  <2>4. Placed(priorityWaitList', waitList')
    BY <1>1, <1>3, <1>5, <1>7, <2>3 DEF Placed
  <2>5. WaitInv'
    BY <1>2, <1>4, <1>5, <1>7, <2>3, <2>4 DEF WaitInv
  <2>6. RoomForThoseBefore /\ InTimeStays
    BY <1>1, <1>2, <1>4, <1>6, <1>7, <2>3, NobodyLeaves
  <2> QED BY <2>5, <2>6
<1>8. CASE priorityWaitList' = first /\ (\E n : waitList' = Append(second, Entry(c, n)))
  <2>1. PICK n : waitList' = Append(second, Entry(c, n))
    BY <1>8
  <2> DEFINE e == Entry(c, n)
  <2>2. e \in Wait /\ e.playerGUID = c
    BY EntryTyped
  <2> HIDE DEF e
  <2>3. /\ waitList' \in Seq(Wait) /\ Waiting(waitList') = Waiting(second) \cup {c}
        /\ \A z : ~BeforeIn(waitList', z, z)
        /\ \A a, b : InTime(waitList, a) /\ BeforeIn(waitList, a, b) => ~BeforeIn(waitList', b, a)
    <3> DEFINE new == Append(second, e)
    <3>1. /\ new \in Seq(Wait) /\ Waiting(new) = Waiting(second) \cup {e.playerGUID}
          /\ \A z : ~BeforeIn(new, z, z)
          /\ \A a, b : InTime(waitList, a) /\ BeforeIn(waitList, a, b) => ~BeforeIn(new, b, a)
      BY <1>1, <1>3, <1>4, <1>5, <2>2, AppendedPlaced
    <3>2. waitList' = new
      BY <2>1 DEF e
    <3> HIDE DEF new
    <3> QED BY <2>2, <3>1, <3>2
  <2>4. Placed(priorityWaitList', waitList')
    BY <1>1, <1>3, <1>5, <1>8, <2>3 DEF Placed
  <2>5. WaitInv'
    BY <1>2, <1>4, <1>5, <1>8, <2>3, <2>4 DEF WaitInv
  <2>6. RoomForThoseBefore /\ InTimeStays
    BY <1>1, <1>2, <1>4, <1>6, <1>8, <2>3, NobodyLeaves
  <2> QED BY <2>5, <2>6
<1> QED BY <1>2, <1>7, <1>8

LEMMA LinesUnchanged ==
    ASSUME WaitInv, UNCHANGED <<priorityWaitList, waitList>>, online' \subseteq Client, now' \in Nat,
           (Waiting(priorityWaitList) \cup Waiting(waitList)) \cap online' = {}
    PROVE  WaitInv' /\ InTimeStays
<1>1. Placed(priorityWaitList, waitList)
  BY DEF WaitInv
<1>2. priorityWaitList \in Seq(Wait) /\ waitList \in Seq(Wait)
      /\ \A z : ~BeforeIn(priorityWaitList, z, z) /\ ~BeforeIn(waitList, z, z)
  BY <1>1 DEF Placed
<1>3. /\ \A a, b : BeforeIn(priorityWaitList, a, b) => ~BeforeIn(priorityWaitList, b, a)
      /\ \A a, b : BeforeIn(waitList, a, b) => ~BeforeIn(waitList, b, a)
  BY <1>2, NoTurning
<1>4. \A list, a : InTime(list, a) => a \in Waiting(list)
  BY DEF InTime, Waiting
<1>5. InTimeStays
  BY <1>3, <1>4 DEF InTimeStays, StandsOn
<1>6. WaitInv'
  BY DEF WaitInv
<1> QED BY <1>5, <1>6

LEMMA AtOnce ==
    ASSUME WaitInv, NEW c \in Client, c \notin online, UNCHANGED now, LoginAtOnce(c)
    PROVE  WaitInv' /\ RoomForThoseBefore /\ InTimeStays
<1>1. /\ Unlimited(c) /\ online' \in {online, online \cup {c}} /\ UNCHANGED <<priorityWaitList, waitList>>
  BY DEF LoginAtOnce, Place
<1>2. Waiting(<<>>) = {}
  BY DEF Waiting
<1>3. c \notin Waiting(priorityWaitList) \cup Waiting(waitList)
  BY <1>1, <1>2 DEF Unlimited, WaitInv
<1>4. WaitInv' /\ InTimeStays
  BY <1>1, <1>3, LinesUnchanged DEF WaitInv
<1>5. RoomForThoseBefore
  <2> SUFFICES ASSUME NEW d \in online' \ online, d \notin Privileged, MaxPlayers # 0
               PROVE  LET before == IF d \in Waiting(priorityWaitList) \cup Waiting(waitList)
                                    THEN Ahead(d) ELSE Waiting(priorityWaitList) \cup Waiting(waitList)
                          still == before \cap (Waiting(priorityWaitList') \cup Waiting(waitList'))
                      IN  Cardinality(online') + Cardinality(still) <= MaxPlayers
    BY DEF RoomForThoseBefore
  <2>1. d = c /\ online' = online \cup {c}
    BY <1>1
  <2>2. priorityWaitList = <<>> /\ waitList = <<>> /\ Cardinality(online) < MaxPlayers
    BY <1>1, <2>1 DEF Unlimited
  <2>3. Waiting(priorityWaitList) \cup Waiting(waitList) = {} /\ Cardinality({}) = 0
    BY <1>2, <2>2, FS_EmptySet
  <2>4. Cardinality(online) \in Nat /\ Cardinality(online') = Cardinality(online) + 1 /\ MaxPlayers \in Nat
    BY <2>1, OnlineFinite, WaitAssumption
  <2>5. Cardinality(online') <= MaxPlayers /\ Cardinality(online') + 0 = Cardinality(online')
    BY <2>2, <2>4
  <2> QED BY <1>1, <2>1, <2>3, <2>5
<1> QED BY <1>4, <1>5

LEMMA NobodyNew == ASSUME online' \subseteq online PROVE RoomForThoseBefore
  BY DEF RoomForThoseBefore

LEMMA WaitStep ==
    ASSUME WaitInv, [WaitNext]_waitVars
    PROVE  WaitInv' /\ RoomForThoseBefore /\ InTimeStays
<1>1. ASSUME NEW c \in Client, Login(c) PROVE WaitInv' /\ RoomForThoseBefore /\ InTimeStays
  <2>1. c \notin online /\ UNCHANGED now
    BY <1>1 DEF Login
  <2>2. CASE LoginAtOnce(c)
    BY <2>1, <2>2, AtOnce
  <2>3. CASE ~LoginAtOnce(c)
    <3>1. c \notin Privileged /\ MaxPlayers # 0
      BY <1>1, <2>3 DEF Login, Unlimited
    <3>2. IF c \in Waiting(Cleaned(priorityWaitList)) \cup Waiting(Cleaned(waitList))
          THEN \/ LoginFromQueue(c, Cleaned(priorityWaitList), Cleaned(waitList))
               \/ WaitLonger(c, Cleaned(priorityWaitList), Cleaned(waitList))
          ELSE Enqueue(c, Cleaned(priorityWaitList), Cleaned(waitList))
      BY <1>1, <2>3 DEF Login
    <3> QED BY <2>1, <3>1, <3>2, FromQueue, Longer, Enqueued
  <2> QED BY <2>2, <2>3
<1>2. ASSUME NEW c \in Client, Logout(c) PROVE WaitInv' /\ RoomForThoseBefore /\ InTimeStays
  <2>1. UNCHANGED <<priorityWaitList, waitList>> /\ online' \subseteq online /\ now' = now
    BY <1>2 DEF Logout
  <2>2. /\ online' \subseteq Client /\ now' \in Nat
        /\ (Waiting(priorityWaitList) \cup Waiting(waitList)) \cap online' = {}
    BY <2>1 DEF WaitInv
  <2> QED BY <2>1, <2>2, LinesUnchanged, NobodyNew
<1>3. CASE Pass
  <2>1. UNCHANGED <<priorityWaitList, waitList, online>> /\ now' \in Nat
    BY <1>3, WaitAssumption DEF Pass, WaitInv
  <2>2. /\ online' \subseteq Client /\ (Waiting(priorityWaitList) \cup Waiting(waitList)) \cap online' = {}
    BY <2>1 DEF WaitInv
  <2> QED BY <2>1, <2>2, LinesUnchanged, NobodyNew
<1>4. CASE UNCHANGED waitVars
  <2>1. UNCHANGED <<priorityWaitList, waitList, online, now>>
    BY <1>4 DEF waitVars
  <2>2. /\ online' \subseteq Client /\ now' \in Nat /\ (Waiting(priorityWaitList) \cup Waiting(waitList)) \cap online' = {}
    BY <2>1 DEF WaitInv
  <2> QED BY <2>1, <2>2, LinesUnchanged, NobodyNew
<1> QED BY <1>1, <1>2, <1>3, <1>4 DEF WaitNext

LEMMA WaitStart == WaitInit => WaitInv
<1>1. Waiting(<<>>) = {} /\ <<>> \in Seq(Wait) /\ \A z : ~BeforeIn(<<>>, z, z)
  BY DEF Waiting, BeforeIn
<1> QED BY <1>1 DEF WaitInit, WaitInv, Placed

\* The line of a full server (clientLogin) holds nobody twice and nobody who is
\* online, and whoever comes online leaves a place to all who were before him in
\* line and are still there, for any number of characters and places.
THEOREM LinePlacesAreKept == WaitSpec => PlacesKept
<1>1. WaitInv /\ [WaitNext]_waitVars => WaitInv' /\ [RoomForThoseBefore]_waitVars
  BY WaitStep
<1> QED BY <1>1, WaitStart, OnceEnough, PTL DEF WaitSpec, PlacesKept

\* Who comes back in time is never overtaken by somebody behind him in his list, and
\* leaves it only when there is a place for him and for those before him.
THEOREM PlaceInLineIsKept == WaitSpec => PlaceKept
<1>1. WaitInv /\ [WaitNext]_waitVars => WaitInv' /\ [InTimeStays]_waitVars
  BY WaitStep
<1> QED BY <1>1, WaitStart, PTL DEF WaitSpec, PlaceKept
=============================================================================
