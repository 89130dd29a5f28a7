------------------------------ MODULE Services ------------------------------
(***************************************************************************)
(* The start of the server, its listening ports and their end (otserv.cpp, *)
(* server.cpp).  main waits on a condition variable without a predicate    *)
(* for the loader, a task of the dispatcher; then it serves as the io      *)
(* thread.  A port whose accept fails is opened again by an event of the   *)
(* dispatcher, while the other handlers of ServicePort run on main.        *)
(*                                                                         *)
(* The threads behind main are those of ServerRuntime; here they end.      *)
(***************************************************************************)
EXTENDS Naturals, FiniteSets

CONSTANTS Port, NoPort

ASSUME ServicesAssumption == NoPort \notin Port

VARIABLES
    main, loader,
    misled,     \* auxiliary: main was woken before the loader had finished
    acceptors,  \* ServiceManager: the ports it keeps
    managerRunning,    \* ServiceManager::running
    acceptor,   \* ServicePort, by port
    pendingStart,
    accepting,  \* an async_accept, or the handler it has completed with
    events, tasks,  \* openAcceptor: scheduled, queued for the dispatcher
    opening,    \* the port open() has an acceptor for, and does not accept yet
    stops,      \* posted onStopServer
    game        \* "up", "shutdown" (closed for events), "down" (Game::shutdown)

portVars == <<acceptor, pendingStart, accepting, events, tasks, opening, stops>>
serviceVars == <<main, loader, misled, acceptors, managerRunning, game, portVars>>

TypeOKServices ==
    /\ main \in {"starting", "waiting", "woken", "serving", "offline", "ended"}
    /\ loader \in {"loading", "loaded", "failed"}
    /\ misled \in BOOLEAN /\ managerRunning \in BOOLEAN
    /\ acceptors \subseteq Port /\ stops \subseteq Port
    /\ acceptor \in [Port -> {"none", "closed", "open"}]
    /\ pendingStart \in [Port -> BOOLEAN] /\ accepting \in [Port -> BOOLEAN]
    /\ events \in [Port -> 0 .. 1] /\ tasks \in [Port -> 0 .. 1]
    /\ opening \in Port \cup {NoPort}
    /\ game \in {"up", "shutdown", "down"}

ServicesInit ==
    /\ main = "starting" /\ loader = "loading" /\ misled = FALSE
    /\ acceptors = {} /\ managerRunning = FALSE
    /\ acceptor = [p \in Port |-> "none"]
    /\ pendingStart = [p \in Port |-> FALSE] /\ accepting = [p \in Port |-> FALSE]
    /\ events = [p \in Port |-> 0] /\ tasks = [p \in Port |-> 0]
    /\ opening = NoPort /\ stops = {} /\ game = "up"

-----------------------------------------------------------------------------
(* main *)

MainWaits == /\ main = "starting"
             /\ main' = "waiting"
             /\ UNCHANGED <<loader, misled, acceptors, managerRunning, game, portVars>>

SpuriousWakeup == /\ main = "waiting"
                  /\ main' = "woken"
                  /\ misled' = (misled \/ loader = "loading")
                  /\ UNCHANGED <<loader, acceptors, managerRunning, game, portVars>>

IsRunning == acceptors # {}

MainGoesOn ==
    /\ main = "woken"
    /\ IF IsRunning
       THEN main' = "serving" /\ managerRunning' = TRUE /\ UNCHANGED events
       ELSE main' = "offline" /\ events' = [p \in Port |-> 0] /\ UNCHANGED managerRunning
    /\ UNCHANGED <<loader, misled, acceptors, game, acceptor, pendingStart, accepting,
                   tasks, opening, stops>>

\* The joins return when the loader, which the dispatcher executes, has.
MainEnds == /\ main = "offline" /\ loader # "loading"
            /\ main' = "ended"
            /\ UNCHANGED <<loader, misled, acceptors, managerRunning, game, portVars>>

-----------------------------------------------------------------------------
(* The loader; notify_all reaches only a main that waits. *)

Notified == IF main = "waiting" THEN "woken" ELSE main


LoadFailed ==
    /\ loader = "loading" /\ opening = NoPort /\ acceptors = {}
    /\ loader' = "failed" /\ main' = Notified
    /\ UNCHANGED <<misled, acceptors, managerRunning, game, portVars>>

\* A port that is configured as 0 is not added.
Loaded == /\ loader = "loading" /\ opening = NoPort
          /\ loader' = "loaded" /\ main' = Notified
          /\ UNCHANGED <<misled, acceptors, managerRunning, game, portVars>>

-----------------------------------------------------------------------------
(* ServicePort::open, on the dispatcher: the acceptor first, then accept().*)

AddEventFor(p) ==
    IF game = "up" /\ main # "offline"
    THEN [events EXCEPT ![p] = @ + 1] ELSE events

OpenForgetsPending(p) ==
    \/ /\ acceptor' = [acceptor EXCEPT ![p] = "open"]
       /\ opening' = p
       /\ UNCHANGED <<pendingStart, events>>
    \/ /\ acceptor' = [acceptor EXCEPT ![p] = IF @ = "open" THEN "closed" ELSE @]
       /\ pendingStart' = [pendingStart EXCEPT ![p] = TRUE]
       /\ events' = AddEventFor(p)
       /\ UNCHANGED opening

Open(p) ==
    \/ /\ acceptor' = [acceptor EXCEPT ![p] = "open"]
       /\ pendingStart' = [pendingStart EXCEPT ![p] = FALSE]
       /\ opening' = p
       /\ UNCHANGED events
    \/ \* the address is in use: what the event will try again
       /\ acceptor' = [acceptor EXCEPT ![p] = IF @ = "open" THEN "closed" ELSE @]
       /\ pendingStart' = [pendingStart EXCEPT ![p] = TRUE]
       /\ events' = AddEventFor(p)
       /\ UNCHANGED opening

Accepts == /\ opening # NoPort
           /\ accepting' = [accepting EXCEPT ![opening] = TRUE]
           /\ opening' = NoPort
           /\ UNCHANGED <<main, loader, misled, acceptors, managerRunning, game, acceptor,
                          pendingStart, events, tasks, stops>>

AddPort(p) == /\ loader = "loading" /\ opening = NoPort /\ p \notin acceptors
              /\ Open(p)
              /\ acceptors' = acceptors \cup {p}
              /\ UNCHANGED <<main, loader, misled, managerRunning, game, accepting, tasks, stops>>

ReopenFires(p) == /\ events[p] > 0
                  /\ events' = [events EXCEPT ![p] = @ - 1]
                  /\ tasks' = [tasks EXCEPT ![p] = @ + 1]
                  /\ UNCHANGED <<main, loader, misled, acceptors, managerRunning, game, acceptor,
                                 pendingStart, accepting, opening, stops>>

\* The port is gone when the manager and the handlers have let go of it.
OpenAcceptor(p) ==
    /\ tasks[p] > 0 /\ loader # "loading" /\ opening = NoPort
    /\ tasks' = [tasks EXCEPT ![p] = @ - 1]
    /\ IF p \in acceptors \cup stops \/ accepting[p]
       THEN Open(p)
       ELSE UNCHANGED <<acceptor, pendingStart, events, opening>>
    /\ UNCHANGED <<main, loader, misled, acceptors, managerRunning, game, accepting, stops>>

-----------------------------------------------------------------------------
(* The handlers of the io thread *)

OnAccept(p) ==
    /\ main = "serving" /\ accepting[p]
    /\ \/ /\ acceptor[p] = "open"    \* accepted, and accept() again
          /\ UNCHANGED <<acceptor, pendingStart, accepting, events>>
       \/ /\ accepting' = [accepting EXCEPT ![p] = FALSE]
          /\ IF acceptor[p] = "open" /\ ~pendingStart[p]
             THEN /\ acceptor' = [acceptor EXCEPT ![p] = "closed"]
                  /\ pendingStart' = [pendingStart EXCEPT ![p] = TRUE]
                  /\ events' = AddEventFor(p)
             ELSE UNCHANGED <<acceptor, pendingStart, events>>    \* aborted
    /\ UNCHANGED <<main, loader, misled, acceptors, managerRunning, game, tasks, opening, stops>>

OnStopServer(p) ==
    /\ main = "serving" /\ p \in stops
    /\ stops' = stops \ {p}
    /\ acceptor' = [acceptor EXCEPT ![p] = IF @ = "open" THEN "closed" ELSE @]
    /\ UNCHANGED <<main, loader, misled, acceptors, managerRunning, game, pendingStart,
                   accepting, events, tasks, opening>>

\* death_timer: io_service.stop()
ManagerDie == /\ main = "serving" /\ ~managerRunning
       /\ main' = "ended"
       /\ UNCHANGED <<loader, misled, acceptors, managerRunning, game, portVars>>

-----------------------------------------------------------------------------
(* The end, on the dispatcher *)

SetGameStateShutdown ==
    /\ game = "up" /\ loader = "loaded" /\ opening = NoPort
    /\ game' = "shutdown"
    /\ UNCHANGED <<main, loader, misled, acceptors, managerRunning, portVars>>

\* Game::shutdown clears the scheduler and stops the services.
GameShutdown ==
    /\ game = "shutdown" /\ opening = NoPort
    /\ game' = "down"
    /\ events' = [p \in Port |-> 0]
    /\ IF managerRunning
       THEN stops' = acceptors /\ acceptors' = {} /\ managerRunning' = FALSE
       ELSE UNCHANGED <<stops, acceptors, managerRunning>>
    /\ UNCHANGED <<main, loader, misled, acceptor, pendingStart, accepting, tasks, opening>>

ServicesNext ==
    \/ MainWaits \/ SpuriousWakeup \/ MainGoesOn \/ MainEnds
    \/ LoadFailed \/ Loaded \/ Accepts \/ ManagerDie
    \/ SetGameStateShutdown \/ GameShutdown
    \/ \E p \in Port : AddPort(p) \/ ReopenFires(p) \/ OpenAcceptor(p)
                       \/ OnAccept(p) \/ OnStopServer(p)

\* main goes on when it can, the loader ends, a shutdown that has begun goes on.
ServicesFairness ==
    /\ WF_serviceVars(MainGoesOn) /\ WF_serviceVars(MainEnds) /\ WF_serviceVars(ManagerDie)
    /\ WF_serviceVars(LoadFailed \/ Loaded) /\ WF_serviceVars(Accepts)
    /\ WF_serviceVars(GameShutdown)

ServicesSpec == ServicesInit /\ [][ServicesNext]_serviceVars /\ ServicesFairness

-----------------------------------------------------------------------------
(* Properties *)

\* ServicePort belongs to two threads without a lock.  As long as the game is up,
\* and main did not start before the loader was done: open() on the dispatcher
\* meets no handler of the io thread, and a port is listening or about to, or has
\* exactly one event that will open it.
PortSound ==
    TypeOKServices /\ (~misled /\ game = "up" =>
        /\ \A p \in Port : opening = p \/ tasks[p] > 0 => ~accepting[p] /\ p \notin stops
        /\ \A p \in acceptors :
               \/ acceptor[p] = "open" /\ ~pendingStart[p] /\ events[p] + tasks[p] = 0
                  /\ (accepting[p] # (opening = p))
               \/ acceptor[p] # "open" /\ pendingStart[p] /\ events[p] + tasks[p] = 1)

=============================================================================
