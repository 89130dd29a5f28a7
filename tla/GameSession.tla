----------------------------- MODULE GameSession -----------------------------
(***************************************************************************)
(* A client's session: the connection (connection.cpp), which lives on the *)
(* io thread and under its own lock; the game protocol (protocolgame.cpp)  *)
(* and the player (player.cpp, game.cpp), which live on the dispatcher;    *)
(* the tasks that pass between the two; and the messages that are sent off *)
(* every 10 ms (outputmessage.cpp). All the clients here are of one        *)
(* character.                                                              *)
(*                                                                         *)
(* A handler is one step. Only parsePacket, which reads the protocol's     *)
(* player from the io thread, takes two, with connectionLock held between  *)
(* them. A timer of the dispatcher runs between two tasks; see             *)
(* TimerContract.                                                          *)
(***************************************************************************)
EXTENDS Naturals, Sequences, FiniteSets

CONSTANTS
  Conn,                      \* the connections, each with its protocol
  Player,                    \* the memory for player objects
  None

ASSUME SessionAssumption ==
  /\ IsFiniteSet(Conn)
  /\ None \notin Conn \cup Player

VARIABLES
  \* Connection
  socket,             \* "none" before it is accepted
  connectionState,
  managed,            \* it is in ConnectionManager::connections
  reading,            \* an async_read holds a pointer to it
  messageQueue,       \* it is not empty: an async_write holds a pointer too
  receivedFirst,
  ioConn,             \* the connection whose packet the io thread is parsing
  \* ProtocolGame
  player,
  acceptPackets,
  eventConnect,       \* the player for whom connect() is scheduled
  \* Player
  client,
  referenceCounter,
  isInternalRemoved,
  inCheckCreatures,   \* it is in a list of checkCreatures
  creatureCheck,
  \* Game, Dispatcher, OutputMessagePool
  online,             \* the object in mappedPlayerNames
  toRelease,          \* how often ToReleaseCreatures has each object
  taskList,
  bufferedProtocols,
  sends               \* how many sendAll events are scheduled

connectionVars ==
  <<socket, connectionState, managed, reading, messageQueue, receivedFirst, ioConn>>
protocolVars == <<player, acceptPackets, eventConnect>>
playerVars ==
  <<client, referenceCounter, isInternalRemoved, inCheckCreatures,
    creatureCheck, online, toRelease>>
poolVars == <<bufferedProtocols, sends>>
sessionVars == <<connectionVars, protocolVars, playerVars, taskList, poolVars>>

SessionInit ==
  /\ socket = [c \in Conn |-> "none"]
  /\ connectionState = [c \in Conn |-> "OPEN"]
  /\ managed = [c \in Conn |-> FALSE]
  /\ reading = [c \in Conn |-> FALSE]
  /\ messageQueue = [c \in Conn |-> FALSE]
  /\ receivedFirst = [c \in Conn |-> FALSE]
  /\ ioConn = None
  /\ player = [c \in Conn |-> None]
  /\ acceptPackets = [c \in Conn |-> FALSE]
  /\ eventConnect = [c \in Conn |-> None]
  /\ client = [p \in Player |-> None]
  /\ referenceCounter = [p \in Player |-> 0]
  /\ isInternalRemoved = [p \in Player |-> FALSE]
  /\ inCheckCreatures = [p \in Player |-> FALSE]
  /\ creatureCheck = [p \in Player |-> FALSE]
  /\ online = None
  /\ toRelease = [p \in Player |-> 0]
  /\ taskList = <<>>
  /\ bufferedProtocols = {}
  /\ sends = 0

-----------------------------------------------------------------------------
(* Connection                                                               *)

Accepted(c) == socket[c] # "none"

\* The weak pointer of the protocol has expired.
Expired(c) ==
  Accepted(c) /\ ~managed[c] /\ ~reading[c] /\ ~messageQueue[c] /\ ioConn # c

\* Mutant of LockFree: connectionLock is not taken.
LockFreeAlways(c) == c \in Conn

\* The dispatcher can take connectionLock.
LockFree(c) == ioConn # c

Task(name, c) == [name |-> name, conn |-> c]
Queued(c, name) == \E i \in DOMAIN taskList : taskList[i] = Task(name, c)

\* Mutant of Close: the task is posted by every call.
CloseTwice(c, force, list) ==
  /\ managed' = [managed EXCEPT ![c] = FALSE]
  /\ taskList' = Append(list, Task("release", c))
  /\ connectionState' = [connectionState EXCEPT ![c] = "CLOSED"]
  /\ IF force \/ ~messageQueue'[c]
     THEN socket' = [socket EXCEPT ![c] = "closed"]
     ELSE UNCHANGED socket

\* Mutant of Close: releaseConnection is forgotten.
CloseManaged(c, force, list) ==
  IF connectionState[c] = "OPEN"
  THEN /\ connectionState' = [connectionState EXCEPT ![c] = "CLOSED"]
       /\ taskList' = Append(list, Task("release", c))
       /\ IF force \/ ~messageQueue'[c]
          THEN socket' = [socket EXCEPT ![c] = "closed"]
          ELSE UNCHANGED socket
       /\ UNCHANGED managed
  ELSE taskList' = list /\ UNCHANGED <<managed, connectionState, socket>>

\* Connection::close, with the tasks the dispatcher has beside the one it posts.
Close(c, force, list) ==
  /\ managed' = [managed EXCEPT ![c] = FALSE]
  /\ IF connectionState[c] = "OPEN"
     THEN /\ connectionState' = [connectionState EXCEPT ![c] = "CLOSED"]
          /\ taskList' = Append(list, Task("release", c))
          /\ IF force \/ ~messageQueue'[c]
             THEN socket' = [socket EXCEPT ![c] = "closed"]
             ELSE UNCHANGED socket
     ELSE taskList' = list /\ UNCHANGED <<connectionState, socket>>

\* Connection::send to the connections cs: one that is closed drops it.
Send(cs) ==
  messageQueue' = [c \in Conn |->
    messageQueue[c] \/ (c \in cs /\ connectionState[c] = "OPEN" /\ ~Expired(c))]

\* ProtocolGame::disconnect and disconnectClient, which sends a message first.
Disconnect(c, list) ==
  /\ UNCHANGED <<reading, messageQueue, receivedFirst, ioConn>>
  /\ Close(c, FALSE, list)

DisconnectClient(c, list) ==
  /\ Send({c})
  /\ Close(c, FALSE, list)
  /\ UNCHANGED <<reading, receivedFirst, ioConn>>

IoIdle == ioConn = None

\* ServicePort::onAccept and Connection::accept: the first read is started.
Accept(c) ==
  /\ IoIdle
  /\ ~Accepted(c)
  /\ socket' = [socket EXCEPT ![c] = "open"]
  /\ managed' = [managed EXCEPT ![c] = TRUE]
  /\ reading' = [reading EXCEPT ![c] = TRUE]
  /\ taskList' = Append(taskList, Task("onConnect", c))
  /\ UNCHANGED <<connectionState, messageQueue, receivedFirst, ioConn, protocolVars,
                 playerVars, poolVars>>

\* A read that failed, or one that ended after the connection was closed. The
\* wrong size of a packet is the same.
ReadError(c) ==
  /\ IoIdle
  /\ reading[c]
  /\ reading' = [reading EXCEPT ![c] = FALSE]
  /\ Close(c, TRUE, taskList)
  /\ UNCHANGED <<messageQueue, receivedFirst, ioConn, protocolVars, playerVars, poolVars>>

\* MAX_PACKETS_PER_SECOND is exceeded.
TooManyPackets(c) ==
  /\ IoIdle
  /\ reading[c] /\ socket[c] = "open" /\ connectionState[c] = "OPEN"
  /\ reading' = [reading EXCEPT ![c] = FALSE]
  /\ UNCHANGED <<messageQueue, receivedFirst, ioConn, protocolVars, playerVars, poolVars>>
  /\ Close(c, FALSE, taskList)

CanParse(c) ==
  IoIdle /\ reading[c] /\ socket[c] = "open" /\ connectionState[c] = "OPEN"

\* onRecvFirstMessage: the client is refused or its login is posted. A read is
\* started in either case; on a socket that is closed it fails.
FirstMessage(c) ==
  /\ CanParse(c)
  /\ ~receivedFirst[c]
  /\ receivedFirst' = [receivedFirst EXCEPT ![c] = TRUE]
  /\ \/ /\ taskList' = Append(taskList, Task("login", c))
        /\ UNCHANGED <<socket, connectionState, managed, messageQueue>>
     \/ UNCHANGED messageQueue /\ Close(c, FALSE, taskList)
     \/ Send({c}) /\ Close(c, FALSE, taskList)
  /\ UNCHANGED <<reading, ioConn, protocolVars, playerVars, poolVars>>

\* ProtocolGame::parsePacket from its first test of acceptPackets, ...
ParsePacket(c) ==
  /\ CanParse(c)
  /\ receivedFirst[c]
  /\ acceptPackets[c]
  /\ ioConn' = c
  /\ reading' = [reading EXCEPT ![c] = FALSE]
  /\ UNCHANGED <<socket, connectionState, managed, messageQueue, receivedFirst,
                 protocolVars, playerVars, taskList, poolVars>>

\* ... to its end, when the next read is started: the packet is one that does
\* not concern the session, a logout, or 0x0F of a player who is removed or has
\* no health left (health is not in the model), on which the server hangs up.
\* Bound: no logout is sent while another one waits.
PacketParsed(c) ==
  /\ ioConn = c
  /\ ioConn' = None
  /\ reading' = [reading EXCEPT ![c] = TRUE]
  /\ UNCHANGED <<messageQueue, receivedFirst, protocolVars, playerVars, poolVars>>
  /\ \/ UNCHANGED <<socket, connectionState, managed, taskList>>
     \/ /\ player[c] # None
        /\ ~Queued(c, "logout")
        /\ taskList' = Append(taskList, Task("logout", c))
        /\ UNCHANGED <<socket, connectionState, managed>>
     \/ Close(c, FALSE, taskList)

\* onWriteOperation when nothing is left to be written.
Written(c) ==
  /\ IoIdle
  /\ messageQueue[c] /\ socket[c] = "open"
  /\ messageQueue' = [messageQueue EXCEPT ![c] = FALSE]
  /\ socket' = [socket EXCEPT ![c] = IF connectionState[c] = "CLOSED" THEN "closed" ELSE @]
  /\ UNCHANGED <<connectionState, managed, reading, receivedFirst, ioConn, protocolVars,
                 playerVars, taskList, poolVars>>

\* onWriteOperation with an error. It hangs up only if nobody has done so before.
WriteError(c) ==
  /\ IoIdle
  /\ messageQueue[c]
  /\ messageQueue' = [messageQueue EXCEPT ![c] = FALSE]
  /\ Close(c, TRUE, taskList)
  /\ UNCHANGED <<reading, receivedFirst, ioConn, protocolVars, playerVars, poolVars>>

\* handleTimeout of one of the two timers.
HandleTimeout(c) ==
  /\ IoIdle
  /\ reading[c] \/ messageQueue[c]
  /\ socket[c] = "open" /\ connectionState[c] = "OPEN"
  /\ Close(c, TRUE, taskList)
  /\ UNCHANGED <<reading, messageQueue, receivedFirst, ioConn, protocolVars,
                 playerVars, poolVars>>

-----------------------------------------------------------------------------
(* Game and OutputMessagePool                                               *)

\* Mutant of RemoveCreature: the reference of the map is forgotten.
RemoveCreatureKept(p) ==
  IF isInternalRemoved[p]
  THEN UNCHANGED <<isInternalRemoved, online, toRelease, creatureCheck>>
  ELSE /\ isInternalRemoved' = [isInternalRemoved EXCEPT ![p] = TRUE]
       /\ online' = None
       /\ creatureCheck' = [creatureCheck EXCEPT ![p] = @ /\ ~inCheckCreatures[p]]
       /\ UNCHANGED toRelease

\* Game::removeCreature with removeList, ReleaseCreature and removeCreatureCheck.
RemoveCreature(p) ==
  IF isInternalRemoved[p]
  THEN UNCHANGED <<isInternalRemoved, online, toRelease, creatureCheck>>
  ELSE /\ isInternalRemoved' = [isInternalRemoved EXCEPT ![p] = TRUE]
       /\ online' = None
       /\ toRelease' = [toRelease EXCEPT ![p] = @ + 1]
       /\ creatureCheck' = [creatureCheck EXCEPT ![p] = @ /\ ~inCheckCreatures[p]]

\* Game::checkCreatures for one of its lists, and cleanup. Other events only
\* clean up: an empty list.
CheckCreatures(list) ==
  LET gone == {p \in list : ~creatureCheck[p]} IN
  /\ \A p \in list : inCheckCreatures[p]
  /\ inCheckCreatures' = [p \in Player |-> inCheckCreatures[p] /\ p \notin gone]
  /\ referenceCounter' = [p \in Player |->
       referenceCounter[p] - toRelease[p] - (IF p \in gone THEN 1 ELSE 0)]
  /\ toRelease' = [p \in Player |-> 0]
  /\ UNCHANGED <<client, isInternalRemoved, creatureCheck, online,
                 connectionVars, protocolVars, taskList, poolVars>>

\* Mutant of AddProtocolToAutosend: nothing is scheduled.
AddProtocolUnscheduled(c) ==
  /\ bufferedProtocols' = bufferedProtocols \cup {c}
  /\ UNCHANGED sends

AddProtocolToAutosend(c) ==
  /\ bufferedProtocols' = bufferedProtocols \cup {c}
  /\ sends' = IF bufferedProtocols = {} THEN sends + 1 ELSE sends

\* OutputMessagePool::sendAll: the protocols cs have something to send.
SendAll(cs) ==
  /\ sends > 0
  /\ cs \subseteq bufferedProtocols
  /\ \A c \in cs : LockFree(c)
  /\ Send(cs)
  /\ sends' = IF bufferedProtocols = {} THEN sends - 1 ELSE sends
  /\ UNCHANGED <<socket, connectionState, managed, reading, receivedFirst, ioConn,
                 protocolVars, playerVars, taskList, bufferedProtocols>>

-----------------------------------------------------------------------------
(* The tasks of the dispatcher                                              *)

Runs(name, c) == taskList # <<>> /\ Head(taskList) = Task(name, c)
Rest == Tail(taskList)

\* ProtocolGame::onConnect sends the challenge.
OnConnect(c) ==
  /\ Runs("onConnect", c)
  /\ LockFree(c)
  /\ taskList' = Rest
  /\ Send({c})
  /\ UNCHANGED <<socket, connectionState, managed, reading, receivedFirst, ioConn,
                 protocolVars, playerVars, poolVars>>

\* ProtocolGame::login of a character that is not online: new Player(getThis()).
\* The memory of an object that was deleted is used again, its id is not.
NewPlayer(c, p) ==
  /\ online = None
  /\ referenceCounter[p] = 0
  /\ \A d \in Conn : eventConnect[d] # p
  /\ player' = [player EXCEPT ![c] = p]
  /\ client' = [client EXCEPT ![p] = c]
  /\ isInternalRemoved' = [isInternalRemoved EXCEPT ![p] = FALSE]
  /\ UNCHANGED eventConnect

\* The character is banned, has to wait, cannot be loaded or has no place.
LoginRefused(c, p) ==
  /\ NewPlayer(c, p)
  /\ referenceCounter' = [referenceCounter EXCEPT ![p] = 1]
  /\ DisconnectClient(c, Rest)
  /\ UNCHANGED <<acceptPackets, inCheckCreatures, creatureCheck, online, toRelease,
                 poolVars>>

\* placeCreature and addCreatureCheck take a reference each.
Placed(c, p) ==
  /\ NewPlayer(c, p)
  /\ referenceCounter' = [referenceCounter EXCEPT ![p] = 3]
  /\ inCheckCreatures' = [inCheckCreatures EXCEPT ![p] = TRUE]
  /\ acceptPackets' = [acceptPackets EXCEPT ![c] = TRUE]
  /\ AddProtocolToAutosend(c)

LoginPlaced(c, p) ==
  /\ Placed(c, p)
  /\ creatureCheck' = [creatureCheck EXCEPT ![p] = TRUE]
  /\ online' = p
  /\ taskList' = Rest
  /\ UNCHANGED <<toRelease, connectionVars>>

\* The onLogin script says no: onPlacedCreature kicks the player while it is
\* being placed, and placeCreature then calls setNotRemoved all the same.
LoginKicked(c, p) ==
  /\ Placed(c, p)
  /\ toRelease' = [toRelease EXCEPT ![p] = 1]
  /\ Disconnect(c, Rest)
  /\ UNCHANGED <<creatureCheck, online>>

\* Mutant of Connect: the test of foundPlayer->client is dropped.
ConnectOver(c, p, list) ==
  IF online # p
  THEN DisconnectClient(c, list) /\ UNCHANGED <<player, acceptPackets, playerVars>>
  ELSE IF Expired(c)
  THEN taskList' = list /\ UNCHANGED <<player, acceptPackets, playerVars, connectionVars>>
  ELSE /\ player' = [player EXCEPT ![c] = p]
       /\ referenceCounter' = [referenceCounter EXCEPT ![p] = @ + 1]
       /\ client' = [client EXCEPT ![p] = c]
       /\ acceptPackets' = [acceptPackets EXCEPT ![c] = TRUE]
       /\ taskList' = list
       /\ UNCHANGED <<isInternalRemoved, inCheckCreatures, creatureCheck, online, toRelease,
                      connectionVars>>

\* Mutant of Connect: incrementReferenceCounter is forgotten.
ConnectUncounted(c, p, list) ==
  IF online # p \/ client[p] # None
  THEN DisconnectClient(c, list) /\ UNCHANGED <<player, acceptPackets, playerVars>>
  ELSE IF Expired(c)
  THEN taskList' = list /\ UNCHANGED <<player, acceptPackets, playerVars, connectionVars>>
  ELSE /\ player' = [player EXCEPT ![c] = p]
       /\ client' = [client EXCEPT ![p] = c]
       /\ acceptPackets' = [acceptPackets EXCEPT ![c] = TRUE]
       /\ taskList' = list
       /\ UNCHANGED <<referenceCounter, isInternalRemoved, inCheckCreatures, creatureCheck,
                      online, toRelease, connectionVars>>

\* ProtocolGame::connect
Connect(c, p, list) ==
  IF online # p \/ client[p] # None
  THEN DisconnectClient(c, list) /\ UNCHANGED <<player, acceptPackets, playerVars>>
  ELSE IF Expired(c)
  THEN taskList' = list /\ UNCHANGED <<player, acceptPackets, playerVars, connectionVars>>
  ELSE /\ player' = [player EXCEPT ![c] = p]
       /\ referenceCounter' = [referenceCounter EXCEPT ![p] = @ + 1]
       /\ client' = [client EXCEPT ![p] = c]
       /\ acceptPackets' = [acceptPackets EXCEPT ![c] = TRUE]
       /\ taskList' = list
       /\ UNCHANGED <<isInternalRemoved, inCheckCreatures, creatureCheck, online, toRelease,
                      connectionVars>>

\* The character is online. Without REPLACE_KICK_ON_LOGIN, which may change when
\* the configuration is loaded again, the new client is refused. With it the old
\* client is disconnected and the new one waits, or it takes over at once.
\* Player::isConnecting is left out: it only makes some of the Kicks impossible.
LoginAgain(c) ==
  /\ online # None
  /\ \/ /\ DisconnectClient(c, Rest)
        /\ UNCHANGED <<protocolVars, playerVars, poolVars>>
     \/ /\ client[online] # None
        /\ LockFree(client[online])
        /\ Disconnect(client[online], Rest)
        /\ eventConnect' = [eventConnect EXCEPT ![c] = online]
        /\ AddProtocolToAutosend(c)
        /\ UNCHANGED <<player, acceptPackets, client, referenceCounter, isInternalRemoved,
                       inCheckCreatures, creatureCheck, online, toRelease>>
     \/ /\ client[online] = None
        /\ Connect(c, online, Rest)
        /\ AddProtocolToAutosend(c)
        /\ UNCHANGED eventConnect

Login(c) ==
  /\ Runs("login", c)
  /\ LockFree(c)
  /\ \/ \E p \in Player : LoginRefused(c, p) \/ LoginPlaced(c, p) \/ LoginKicked(c, p)
     \/ LoginAgain(c)

\* The event runs, a second after the login.
EventConnect(c) ==
  /\ eventConnect[c] # None
  /\ LockFree(c)
  /\ eventConnect' = [eventConnect EXCEPT ![c] = None]
  /\ Connect(c, eventConnect[c], taskList)
  /\ UNCHANGED poolVars

\* ProtocolGame::release
Release(c) ==
  /\ Runs("release", c)
  /\ taskList' = Rest
  /\ LET p == player[c] IN
     IF p # None /\ client[p] = c
     THEN /\ client' = [client EXCEPT ![p] = None]
          /\ referenceCounter' = [referenceCounter EXCEPT ![p] = @ - 1]
          /\ player' = [player EXCEPT ![c] = None]
     ELSE UNCHANGED <<client, referenceCounter, player>>
  /\ bufferedProtocols' = bufferedProtocols \ {c}
  /\ UNCHANGED <<sends, connectionVars, acceptPackets, eventConnect, isInternalRemoved,
                 inCheckCreatures, creatureCheck, online, toRelease>>

\* ProtocolGame::logout from where it is no longer refused.
LogoutNow(c, list) ==
  /\ LockFree(c)
  /\ Disconnect(c, list)
  /\ RemoveCreature(player[c])
  /\ UNCHANGED <<protocolVars, client, referenceCounter, inCheckCreatures,
                 poolVars>>

\* The task of the client's packet. A fight, the place or a script may refuse.
Logout(c) ==
  /\ Runs("logout", c)
  /\ \/ /\ player[c] = None \/ ~isInternalRemoved[player[c]]
        /\ taskList' = Rest
        /\ UNCHANGED <<connectionVars, protocolVars, playerVars, poolVars>>
     \/ player[c] # None /\ LogoutNow(c, Rest)

\* Player::kickPlayer, and sendPing when the client has not answered for long.
Kick(p) ==
  /\ online = p
  /\ \/ client[p] # None /\ player[client[p]] # None /\ LogoutNow(client[p], taskList)
     \/ /\ client[p] = None
        /\ RemoveCreature(p)
        /\ UNCHANGED <<connectionVars, protocolVars, client, referenceCounter,
                       inCheckCreatures, taskList, poolVars>>

\* Creature::onDeath leaves a corpse: the client stays, to log in again.
Die(p) ==
  /\ online = p
  /\ RemoveCreature(p)
  /\ UNCHANGED <<connectionVars, protocolVars, client, referenceCounter,
                 inCheckCreatures, taskList, poolVars>>

-----------------------------------------------------------------------------
(* The specification                                                        *)

IoStep(c) ==
  Accept(c) \/ ReadError(c) \/ TooManyPackets(c) \/ FirstMessage(c) \/ ParsePacket(c)
    \/ PacketParsed(c) \/ Written(c) \/ WriteError(c) \/ HandleTimeout(c)

RunTask(c) == OnConnect(c) \/ Login(c) \/ Release(c) \/ Logout(c)

SessionNext ==
  \/ \E c \in Conn : IoStep(c) \/ RunTask(c) \/ EventConnect(c)
  \/ \E p \in Player : Kick(p) \/ Die(p)
  \/ \E list \in SUBSET Player : CheckCreatures(list)
  \/ \E cs \in SUBSET Conn : SendAll(cs)

SessionSpec == SessionInit /\ [][SessionNext]_sessionVars

\* The dispatcher runs its tasks and checks every list of creatures again and
\* again; a write is acknowledged or fails, and after close() a read fails: its
\* socket is closed, or will be when the last write has ended, or that write has
\* failed because the peer is gone. Where two threads want a lock, or the
\* io_service has several handlers to run, none of them waits for ever.
SessionFairness ==
  /\ SF_sessionVars(\E c \in Conn : RunTask(c))
  /\ \A p \in Player : WF_sessionVars(\E list \in SUBSET Player : p \in list /\ CheckCreatures(list))
  /\ WF_sessionVars(CheckCreatures({}))
  /\ \A c \in Conn :
       /\ WF_sessionVars(PacketParsed(c))
       /\ SF_sessionVars(Written(c) \/ WriteError(c))
       /\ SF_sessionVars(connectionState[c] = "CLOSED" /\ ReadError(c))

-----------------------------------------------------------------------------
(* Properties                                                               *)

Opt(S) == S \cup {None}

\* Every variable keeps its type; no object is to be released twice for one
\* reference.
TypeOK ==
  /\ socket \in [Conn -> {"none", "open", "closed"}]
  /\ connectionState \in [Conn -> {"OPEN", "CLOSED"}]
  /\ managed \in [Conn -> BOOLEAN] /\ reading \in [Conn -> BOOLEAN]
  /\ messageQueue \in [Conn -> BOOLEAN] /\ receivedFirst \in [Conn -> BOOLEAN]
  /\ ioConn \in Opt(Conn)
  /\ player \in [Conn -> Opt(Player)]
  /\ acceptPackets \in [Conn -> BOOLEAN]
  /\ eventConnect \in [Conn -> Opt(Player)]
  /\ client \in [Player -> Opt(Conn)]
  /\ referenceCounter \in [Player -> Nat]
  /\ isInternalRemoved \in [Player -> BOOLEAN]
  /\ inCheckCreatures \in [Player -> BOOLEAN] /\ creatureCheck \in [Player -> BOOLEAN]
  /\ online \in Opt(Player)
  /\ toRelease \in [Player -> 0..1]
  /\ taskList \in Seq([name : {"onConnect", "login", "logout", "release"}, conn : Conn])
  /\ bufferedProtocols \subseteq Conn
  /\ sends \in 0..Cardinality(Conn)

One(b) == IF b THEN 1 ELSE 0

\* An object's counter is the number of the places that have it - protocols, the
\* map, the lists of checkCreatures, the list of what is to be released - so that
\* it is deleted when the last of them lets go and not before.
RefsCounted ==
  \A p \in Player :
    referenceCounter[p] = Cardinality({c \in Conn : player[c] = p}) + One(online = p)
                          + One(inCheckCreatures[p]) + toRelease[p]

\* A protocol and its player know each other: nobody plays with a character that
\* sends its messages to somebody else, and no two clients play the same one.
Linked ==
  TypeOK /\ \A c \in Conn, p \in Player : player[c] = p <=> client[p] = c

\* While the io thread parses a packet, the player it asks for its health and its
\* id is there, although that player belongs to the dispatcher.
InputSafe ==
  ioConn # None => player[ioConn] # None /\ referenceCounter[player[ioConn]] > 0

\* As long as a protocol has messages that wait to be sent off, the event that
\* does it is scheduled; and only connections that are open, or are about to be
\* released, are served.
AutosendSound ==
  /\ bufferedProtocols # {} => sends > 0
  /\ \A c \in bufferedProtocols : connectionState[c] = "OPEN" \/ Queued(c, "release")

\* A protocol is released once, and after everything its client asked for.
ReleasedLast ==
  \A i, j \in DOMAIN taskList :
    taskList[i].name = "release" /\ taskList[j].conn = taskList[i].conn => j <= i

\* protocolgame.cpp:183, "ProtocolGame::release() has been called at this point
\* and the Connection object no longer exists, so we return to prevent leakage of
\* the Player": a protocol that was released has no player any more.
NoLeakage ==
  \A c \in Conn : connectionState[c] = "CLOSED" /\ player[c] # None => Queued(c, "release")

\* A connection that was closed comes to its end.
ClosedGoes == \A c \in Conn : connectionState[c] = "CLOSED" ~> Expired(c)

\* The object of a player who was removed and has no client is deleted.
RemovedFreed ==
  \A p \in Player :
    isInternalRemoved[p] /\ client[p] = None ~> referenceCounter[p] = 0
=============================================================================
