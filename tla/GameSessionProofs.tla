------------------------- MODULE GameSessionProofs -------------------------
(***************************************************************************)
(* Theorems about the sessions of a character, for any number of           *)
(* connections and of player objects.                                      *)
(***************************************************************************)
EXTENDS GameSession, FiniteSetTheorems, TLAPS

USE SessionAssumption

Names == {"onConnect", "login", "logout", "release"}
TaskSet == [name : Names, conn : Conn]

Has(list, name, c) == \E i \in DOMAIN list : list[i] = Task(name, c)

\* A list of tasks in which nothing comes after the release of a connection and no
\* client logs in twice.
Lists(list) ==
  /\ list \in Seq(TaskSet)
  /\ \A i, j \in DOMAIN list :
       list[i].name = "release" /\ list[j].conn = list[i].conn => j <= i
  /\ \A i, j \in DOMAIN list : list[i].name = "login" /\ list[j] = list[i] => i = j

-----------------------------------------------------------------------------
(* Lists of tasks                                                           *)

\* Dispatcher::addTask, when the connection has not been released.
LEMMA Posted ==
  ASSUME NEW list, Lists(list), NEW m \in Names, NEW d \in Conn,
         ~Has(list, "release", d), m = "login" => ~Has(list, "login", d)
  PROVE  /\ Lists(Append(list, Task(m, d)))
         /\ \A n, c : Has(Append(list, Task(m, d)), n, c) <=> Has(list, n, c) \/ (n = m /\ c = d)
<1> DEFINE t == Task(m, d)
           all == Append(list, t)
<1>1. t \in TaskSet /\ t.name = m /\ t.conn = d
  BY DEF TaskSet, Task
<1>2. list \in Seq(TaskSet) /\ DOMAIN list = 1..Len(list) /\ Len(list) \in Nat
  BY DEF Lists
<1>3. /\ all \in Seq(TaskSet) /\ DOMAIN all = 1..(Len(list) + 1)
      /\ all[Len(list) + 1] = t /\ \A i \in DOMAIN list : all[i] = list[i]
  BY <1>1, <1>2
<1>4. \A i \in DOMAIN all : i \in DOMAIN list \/ i = Len(list) + 1
  BY <1>2, <1>3
<1> HIDE DEF all, t
<1>5. \A n, c : t = Task(n, c) <=> (n = m /\ c = d)
  BY DEF Task, t
<1>6. \A n, c : Has(all, n, c) <=> Has(list, n, c) \/ (n = m /\ c = d)
  <2>1. Len(list) + 1 \in DOMAIN all /\ DOMAIN list \subseteq DOMAIN all
    BY <1>2, <1>3
  <2> QED
    BY <1>3, <1>4, <1>5, <2>1 DEF Has
<1>7. \A j \in DOMAIN list : ~(list[j].name = "release" /\ list[j].conn = d)
  <2>1. \A u \in TaskSet : u = Task(u.name, u.conn)
    BY DEF TaskSet, Task
  <2>2. \A j \in DOMAIN list : list[j] \in TaskSet
    BY <1>2
  <2> QED
    BY <2>1, <2>2 DEF Has
<1>8. ASSUME NEW i \in DOMAIN all, NEW j \in DOMAIN all,
             all[i].name = "release", all[j].conn = all[i].conn
      PROVE  j <= i
  <2>1. CASE i = Len(list) + 1
    BY <1>2, <1>3, <2>1
  <2>2. CASE i \in DOMAIN list /\ j \in DOMAIN list
    BY <1>3, <1>8, <2>2 DEF Lists
  <2>3. CASE i \in DOMAIN list /\ j = Len(list) + 1
    BY <1>1, <1>3, <1>7, <1>8, <2>3 DEF t
  <2> QED
    BY <1>4, <2>1, <2>2, <2>3
<1>9. ASSUME NEW i \in DOMAIN all, NEW j \in DOMAIN all, all[i].name = "login", all[j] = all[i]
      PROVE  i = j
  <2>1. CASE i \in DOMAIN list /\ j \in DOMAIN list
    BY <1>3, <1>9, <2>1 DEF Lists
  <2>2. ASSUME NEW k \in DOMAIN list, list[k] = t, t.name = "login" PROVE FALSE
    BY <1>1, <2>2 DEF Has, t
  <2> QED
    BY <1>3, <1>4, <1>9, <2>1, <2>2
<1> QED
  BY <1>3, <1>6, <1>8, <1>9 DEF Lists, all, t

\* The dispatcher takes its next task.
LEMMA Taken ==
  ASSUME NEW list, Lists(list), list # <<>>, NEW m, NEW d, Head(list) = Task(m, d)
  PROVE  /\ m \in Names /\ d \in Conn /\ Lists(Tail(list))
         /\ \A n, c : Has(list, n, c) <=> Has(Tail(list), n, c) \/ (n = m /\ c = d)
         /\ m = "release" => \A n : ~Has(Tail(list), n, d)
         /\ m = "login" => ~Has(Tail(list), "login", d)
<1> DEFINE rest == Tail(list)
<1>1. list \in Seq(TaskSet) /\ DOMAIN list = 1..Len(list) /\ Len(list) \in Nat \ {0}
  BY DEF Lists
<1>2. /\ rest \in Seq(TaskSet) /\ DOMAIN rest = 1..(Len(list) - 1)
      /\ \A i \in DOMAIN rest : rest[i] = list[i + 1]
      /\ list[1] = Task(m, d)
  BY <1>1
<1>3. /\ 1 \in DOMAIN list
      /\ \A i \in DOMAIN rest : i \in Nat /\ i + 1 \in DOMAIN list /\ i + 1 # 1
      /\ \A i \in DOMAIN list : i = 1 \/ (i - 1 \in DOMAIN rest /\ rest[i - 1] = list[i])
  BY <1>1, <1>2
<1> HIDE DEF rest
<1>4. m \in Names /\ d \in Conn
  BY <1>1, <1>2, <1>3 DEF TaskSet, Task
<1>5. \A n, c : Task(m, d) = Task(n, c) <=> (n = m /\ c = d)
  BY DEF Task
<1>6. Task(m, d).name = m /\ Task(m, d).conn = d
  BY DEF Task
<1>7. \A n, c : Has(list, n, c) <=> Has(rest, n, c) \/ (n = m /\ c = d)
  BY <1>2, <1>3, <1>5 DEF Has
<1>8. Lists(rest)
  <2>1. ASSUME NEW i \in DOMAIN rest, NEW j \in DOMAIN rest,
               rest[i].name = "release", rest[j].conn = rest[i].conn
        PROVE  j <= i
    <3>1. /\ i + 1 \in DOMAIN list /\ j + 1 \in DOMAIN list
          /\ list[i + 1].name = "release" /\ list[j + 1].conn = list[i + 1].conn
      BY <1>2, <1>3, <2>1
    <3>2. j + 1 <= i + 1
      BY ONLY <3>1, Lists(list) DEF Lists
    <3> QED
      BY <1>3, <3>2
  <2>2. ASSUME NEW i \in DOMAIN rest, NEW j \in DOMAIN rest,
               rest[i].name = "login", rest[j] = rest[i]
        PROVE  i = j
    <3>1. /\ i + 1 \in DOMAIN list /\ j + 1 \in DOMAIN list
          /\ list[i + 1].name = "login" /\ list[j + 1] = list[i + 1]
      BY <1>2, <1>3, <2>2
    <3>2. i + 1 = j + 1
      BY ONLY <3>1, Lists(list) DEF Lists
    <3> QED
      BY <1>3, <3>2
  <2> QED
    BY <1>2, <2>1, <2>2 DEF Lists
<1>9. ASSUME NEW n, Has(rest, n, d), m = "release" PROVE FALSE
  <2>1. PICK i \in DOMAIN rest : rest[i] = Task(n, d)
    BY <1>9 DEF Has
  <2>2. list[i + 1].conn = d /\ list[1].name = "release" /\ list[1].conn = d
    BY <1>2, <1>6, <1>9, <2>1 DEF Task
  <2>3. i + 1 <= 1
    BY <1>3, <2>2 DEF Lists
  <2> QED
    BY <1>3, <2>3
<1>10. ASSUME Has(rest, "login", d), m = "login" PROVE FALSE
  <2>1. PICK i \in DOMAIN rest : rest[i] = Task(m, d)
    BY <1>10 DEF Has
  <2>2. i + 1 = 1
    BY <1>2, <1>3, <1>6, <1>10, <2>1 DEF Lists
  <2> QED
    BY <1>3, <2>2
<1> QED
  BY <1>4, <1>7, <1>8, <1>9, <1>10 DEF rest

-----------------------------------------------------------------------------
(* The invariant                                                            *)

Paired == \A c \in Conn, p \in Player : player[c] = p <=> client[p] = c

\* The counter of an object, without a sum over the connections.
Counted ==
  \A p \in Player :
    referenceCounter[p] = One(client[p] # None) + One(online = p)
                          + One(inCheckCreatures[p]) + toRelease[p]

\* Who is in the map has not been removed.
InMap == \A p \in Player : online = p => ~isInternalRemoved[p] /\ toRelease[p] = 0

PlayerInv == Paired /\ Counted /\ InMap

\* Nothing is known of a connection before it is accepted.
Unaccepted(c) ==
  ~Accepted(c) => /\ connectionState[c] = "OPEN" /\ ioConn # c
                  /\ ~reading[c] /\ ~messageQueue[c] /\ ~receivedFirst[c]
                  /\ c \notin bufferedProtocols
                  /\ \A n \in Names : ~Has(taskList, n, c)

\* Until its login has been carried out a client has no player, and asks for nothing.
Fresh(c) ==
  /\ Has(taskList, "login", c) => receivedFirst[c]
  /\ eventConnect[c] # None => receivedFirst[c] /\ ~Has(taskList, "login", c)
  /\ ~receivedFirst[c] \/ Has(taskList, "login", c) \/ eventConnect[c] # None
       => player[c] = None /\ ~acceptPackets[c] /\ ~Has(taskList, "logout", c)

\* A packet is parsed on an open connection, and an open connection whose packets
\* are accepted has a player.
Parsing(c) ==
  /\ ioConn = c => connectionState[c] = "OPEN" /\ acceptPackets[c]
  /\ connectionState[c] = "OPEN" /\ acceptPackets[c] => player[c] # None

\* A closed connection is released after the tasks that it still has.
Releasing(c) ==
  /\ Has(taskList, "release", c) => connectionState[c] = "CLOSED"
  /\ connectionState[c] = "CLOSED" =>
       \A n \in Names : Has(taskList, n, c) => Has(taskList, "release", c)

\* A player who has a client and was not removed is in the map, or that client was
\* hung up on and asks for nothing more.
Removing(c) ==
  player[c] # None /\ ~isInternalRemoved[player[c]] =>
    online = player[c] \/ (connectionState[c] = "CLOSED" /\ ~Has(taskList, "logout", c))

Serving(c) ==
  c \in bufferedProtocols => connectionState[c] = "OPEN" \/ Has(taskList, "release", c)

ConnOK(c) ==
  Unaccepted(c) /\ Fresh(c) /\ Parsing(c) /\ Releasing(c) /\ Removing(c) /\ Serving(c)

\* Those whose login was taken up: each has scheduled one sending at most.
Served == {c \in Conn : receivedFirst[c] /\ ~Has(taskList, "login", c)}

PoolInv ==
  /\ bufferedProtocols # {} => sends > 0
  /\ sends <= Cardinality(Served)

SessionInv ==
  TypeOK /\ Lists(taskList) /\ PlayerInv /\ (\A c \in Conn : ConnOK(c)) /\ PoolInv

-----------------------------------------------------------------------------
(* Parts of the actions                                                     *)

\* Connection::close
LEMMA Closing ==
  ASSUME TypeOK, NEW d \in Conn, NEW force, NEW list, Lists(list),
         connectionState[d] = "OPEN" => ~Has(list, "release", d),
         Close(d, force, list)
  PROVE  /\ socket' \in [Conn -> {"none", "open", "closed"}]
         /\ \A c \in Conn : socket'[c] = "none" => socket[c] = "none"
         /\ managed' \in [Conn -> BOOLEAN]
         /\ connectionState' \in [Conn -> {"OPEN", "CLOSED"}]
         /\ connectionState' = [connectionState EXCEPT ![d] = "CLOSED"]
         /\ Lists(taskList')
         /\ \A n, c : Has(taskList', n, c) <=>
              Has(list, n, c) \/ (n = "release" /\ c = d /\ connectionState[d] = "OPEN")
<1> USE DEF Close
<1>1. CASE connectionState[d] = "OPEN"
  <2>1. taskList' = Append(list, Task("release", d))
    BY <1>1
  <2>2. /\ Lists(taskList')
        /\ \A n, c : Has(taskList', n, c) <=> Has(list, n, c) \/ (n = "release" /\ c = d)
    BY <1>1, <2>1, Posted DEF Names
  <2>3. connectionState' = [connectionState EXCEPT ![d] = "CLOSED"]
    BY <1>1
  <2>4. socket' = socket \/ socket' = [socket EXCEPT ![d] = "closed"]
    BY <1>1
  <2> HIDE DEF Close
  <2>5. managed' = [managed EXCEPT ![d] = FALSE]
    BY DEF Close
  <2> QED
    BY <1>1, <2>2, <2>3, <2>4, <2>5 DEF TypeOK
<1>2. CASE connectionState[d] # "OPEN"
  BY <1>2 DEF TypeOK
<1> QED
  BY <1>1, <1>2

\* Connection::send
LEMMA Sending ==
  ASSUME TypeOK, NEW cs, Send(cs)
  PROVE  /\ messageQueue' \in [Conn -> BOOLEAN]
         /\ \A c \in Conn : messageQueue'[c] => messageQueue[c] \/ c \in cs
BY DEF Send, TypeOK

\* The lists have the type of taskList.
LEMMA ListsType ==
  ASSUME NEW list, Lists(list)
  PROVE  list \in Seq([name : {"onConnect", "login", "logout", "release"}, conn : Conn])
BY DEF Lists, TaskSet, Names

\* When no login is taken up, nobody is served who was not before.
LEMMA ServedKept ==
  ASSUME TypeOK, sends <= Cardinality(Served), sends' = sends,
         \A c \in Conn : c \in Served => receivedFirst'[c] /\ ~Has(taskList', "login", c)
  PROVE  sends' \in 0..Cardinality(Conn) /\ sends' <= Cardinality(Served')
<1>1. Served \in SUBSET Served' /\ IsFiniteSet(Served')
  <2>1. Served' \in SUBSET Conn
    BY DEF Served
  <2> QED
    BY <2>1, FS_Subset DEF Served
<1>2. Cardinality(Served) <= Cardinality(Served') /\ Cardinality(Served) \in Nat /\ Cardinality(Served') \in Nat
  BY <1>1, FS_Subset, FS_CardinalityType
<1> QED
  BY <1>2 DEF TypeOK

\* What the players have does not change on the io thread.
LEMMA PlayersKept ==
  ASSUME PlayerInv, UNCHANGED <<player, playerVars>>
  PROVE  PlayerInv'
BY DEF PlayerInv, Paired, Counted, InMap, playerVars

-----------------------------------------------------------------------------
(* The io thread                                                            *)

\* A connection is accepted.
LEMMA AcceptInv ==
  ASSUME SessionInv, NEW d \in Conn, Accept(d)
  PROVE  SessionInv'
<1> USE DEF SessionInv, Accept, protocolVars, playerVars, poolVars
<1>1. ConnOK(d) /\ Unaccepted(d)
  BY DEF ConnOK
<1>2. /\ Lists(taskList')
      /\ \A n, c : Has(taskList', n, c) <=> Has(taskList, n, c) \/ (n = "onConnect" /\ c = d)
  BY <1>1, Posted DEF Unaccepted, Names
<1>3. TypeOK'
  BY <1>2, ListsType DEF TypeOK
<1>4. PlayerInv'
  BY PlayersKept
<1>5. \A c \in Conn : ConnOK(c)'
  BY <1>1, <1>2 DEF ConnOK, Unaccepted, Fresh, Parsing, Releasing, Removing, Serving, TypeOK,
     Accepted, Names
<1>6. PoolInv'
  BY <1>2, ServedKept DEF PoolInv, Served
<1> QED
  BY <1>2, <1>3, <1>4, <1>5, <1>6

\* A connection that was accepted is hung up on, and nothing else changes but the
\* reads and writes that are under way.
LEMMA HangUp ==
  ASSUME SessionInv, NEW d \in Conn, NEW force, Accepted(d),
         Close(d, force, taskList),
         UNCHANGED <<protocolVars, playerVars, poolVars>>,
         ioConn' = None,
         reading' \in [Conn -> BOOLEAN], messageQueue' \in [Conn -> BOOLEAN],
         receivedFirst' \in [Conn -> BOOLEAN],
         \A c \in Conn : c # d =>
           /\ reading'[c] => reading[c]
           /\ messageQueue'[c] => messageQueue[c]
           /\ receivedFirst'[c] = receivedFirst[c],
         receivedFirst[d] => receivedFirst'[d]
  PROVE  SessionInv'
<1> USE DEF SessionInv, protocolVars, playerVars, poolVars
<1>0. ConnOK(d)
  OBVIOUS
<1>1. /\ socket' \in [Conn -> {"none", "open", "closed"}]
      /\ \A c \in Conn : socket'[c] = "none" => socket[c] = "none"
      /\ managed' \in [Conn -> BOOLEAN]
      /\ connectionState' \in [Conn -> {"OPEN", "CLOSED"}]
      /\ connectionState' = [connectionState EXCEPT ![d] = "CLOSED"]
      /\ Lists(taskList')
      /\ \A n, c : Has(taskList', n, c) <=>
           Has(taskList, n, c) \/ (n = "release" /\ c = d /\ connectionState[d] = "OPEN")
  BY <1>0, Closing DEF ConnOK, Releasing
<1>2. TypeOK'
  BY <1>1, ListsType DEF TypeOK, Opt
<1>3. PlayerInv'
  BY PlayersKept
<1>4. \A c \in Conn : ConnOK(c)'
  <2> SUFFICES ASSUME NEW c \in Conn PROVE ConnOK(c)'
    OBVIOUS
  <2>0. ConnOK(c)
    OBVIOUS
  <2>1. Unaccepted(c)' /\ Parsing(c)'
    BY <1>1, <2>0 DEF ConnOK, Unaccepted, Parsing, Accepted, Names, TypeOK
  <2>2. Fresh(c)' /\ Removing(c)'
    BY <1>1, <2>0 DEF ConnOK, Fresh, Removing, Names, TypeOK
  <2>3. Releasing(c)' /\ Serving(c)'
    BY <1>1, <2>0 DEF ConnOK, Releasing, Serving, Names, TypeOK
  <2> QED
    BY <2>1, <2>2, <2>3 DEF ConnOK
<1>5. PoolInv'
  BY <1>1, ServedKept DEF PoolInv, Served, TypeOK
<1> QED
  BY <1>1, <1>2, <1>3, <1>4, <1>5

\* A read fails, or there are too many packets.
LEMMA ReadErrorInv ==
  ASSUME SessionInv, NEW d \in Conn, ReadError(d) \/ TooManyPackets(d)
  PROVE  SessionInv'
<1> USE DEF ReadError, TooManyPackets, IoIdle
<1>1. Accepted(d) /\ reading' = [reading EXCEPT ![d] = FALSE] /\ TypeOK
  BY DEF SessionInv, ConnOK, Unaccepted
<1>2. PICK force \in BOOLEAN : Close(d, force, taskList)
  OBVIOUS
<1> QED
  BY <1>1, <1>2, HangUp DEF TypeOK

\* A write fails, or a timer of the connection expires.
LEMMA WriteErrorInv ==
  ASSUME SessionInv, NEW d \in Conn, WriteError(d) \/ HandleTimeout(d)
  PROVE  SessionInv'
<1> USE DEF WriteError, HandleTimeout, IoIdle
<1>1. Accepted(d) /\ TypeOK
  BY DEF SessionInv, ConnOK, Unaccepted
<1>2. messageQueue' = messageQueue \/ messageQueue' = [messageQueue EXCEPT ![d] = FALSE]
  OBVIOUS
<1> QED
  BY <1>1, <1>2, HangUp DEF TypeOK

\* The first message: the client is hung up on, or its login is posted.
LEMMA FirstMessageInv ==
  ASSUME SessionInv, NEW d \in Conn, FirstMessage(d)
  PROVE  SessionInv'
<1> USE DEF FirstMessage, CanParse, IoIdle
<1>1. Accepted(d) /\ TypeOK /\ ConnOK(d)
  BY DEF SessionInv, Accepted
<1>2. CASE Close(d, FALSE, taskList) /\ (UNCHANGED messageQueue \/ Send({d}))
  <2>1. /\ messageQueue' \in [Conn -> BOOLEAN]
        /\ \A c \in Conn : c # d => (messageQueue'[c] => messageQueue[c])
    BY <1>1, <1>2, Sending DEF TypeOK
  <2> QED
    BY <1>1, <1>2, <2>1, HangUp DEF TypeOK
<1>3. CASE /\ taskList' = Append(taskList, Task("login", d))
           /\ UNCHANGED <<socket, connectionState, managed, messageQueue>>
  <2> USE DEF SessionInv, protocolVars, playerVars, poolVars
  <2>1. /\ Lists(taskList')
        /\ \A n, c : Has(taskList', n, c) <=> Has(taskList, n, c) \/ (n = "login" /\ c = d)
    BY <1>1, <1>3, Posted DEF ConnOK, Releasing, Fresh, Names
  <2>2. TypeOK'
    BY <1>3, <2>1, ListsType DEF TypeOK
  <2>3. PlayerInv'
    BY PlayersKept
  <2>4. \A c \in Conn : ConnOK(c)'
    BY <1>1, <1>3, <2>1 DEF ConnOK, Unaccepted, Fresh, Parsing, Releasing, Removing, Serving,
       TypeOK, Accepted, Names
  <2>5. PoolInv'
    BY <1>1, <2>1, ServedKept DEF PoolInv, Served, TypeOK
  <2> QED
    BY <2>1, <2>2, <2>3, <2>4, <2>5
<1> QED
  BY <1>2, <1>3

\* The io thread begins to parse a packet, under the lock.
LEMMA ParsePacketInv ==
  ASSUME SessionInv, NEW d \in Conn, ParsePacket(d)
  PROVE  SessionInv'
<1> USE DEF SessionInv, ParsePacket, CanParse, IoIdle, protocolVars, playerVars, poolVars
<1>1. TypeOK' /\ Lists(taskList')
  BY DEF TypeOK, Opt
<1>2. PlayerInv'
  BY PlayersKept
<1>3. \A c \in Conn : ConnOK(c)'
  BY DEF ConnOK, Unaccepted, Fresh, Parsing, Releasing, Removing, Serving, TypeOK, Accepted
<1>4. PoolInv'
  BY DEF PoolInv, Served
<1> QED
  BY <1>1, <1>2, <1>3, <1>4

\* It has parsed the packet.
LEMMA PacketParsedInv ==
  ASSUME SessionInv, NEW d \in Conn, PacketParsed(d)
  PROVE  SessionInv'
<1> USE DEF PacketParsed
<1>1. Accepted(d) /\ TypeOK /\ ConnOK(d)
  BY DEF SessionInv, ConnOK, Unaccepted
<1>2. CASE Close(d, FALSE, taskList)
  BY <1>1, <1>2, HangUp DEF TypeOK
<1>3. CASE UNCHANGED <<socket, connectionState, managed, taskList>>
  <2> USE DEF SessionInv, protocolVars, playerVars, poolVars
  <2>1. TypeOK' /\ Lists(taskList')
    BY <1>3 DEF TypeOK, Opt
  <2>2. PlayerInv'
    BY PlayersKept
  <2>3. \A c \in Conn : ConnOK(c)'
    BY <1>1, <1>3 DEF ConnOK, Unaccepted, Fresh, Parsing, Releasing, Removing, Serving, TypeOK,
       Accepted
  <2>4. PoolInv'
    BY <1>3 DEF PoolInv, Served
  <2> QED
    BY <2>1, <2>2, <2>3, <2>4
<1>4. CASE /\ taskList' = Append(taskList, Task("logout", d))
           /\ UNCHANGED <<socket, connectionState, managed>>
  <2> USE DEF SessionInv, protocolVars, playerVars, poolVars
  <2>1. /\ Lists(taskList')
        /\ \A n, c : Has(taskList', n, c) <=> Has(taskList, n, c) \/ (n = "logout" /\ c = d)
    BY <1>1, <1>4, Posted DEF ConnOK, Releasing, Parsing, Names
  <2>2. TypeOK'
    BY <1>4, <2>1, ListsType DEF TypeOK, Opt
  <2>3. PlayerInv'
    BY PlayersKept
  <2>4. \A c \in Conn : ConnOK(c)'
    BY <1>1, <1>4, <2>1 DEF ConnOK, Unaccepted, Fresh, Parsing, Releasing, Removing, Serving,
       TypeOK, Accepted, Names
  <2>5. PoolInv'
    BY <2>1, ServedKept DEF PoolInv, Served
  <2> QED
    BY <2>1, <2>2, <2>3, <2>4, <2>5
<1> QED
  BY <1>2, <1>3, <1>4

\* Everything was written.
LEMMA WrittenInv ==
  ASSUME SessionInv, NEW d \in Conn, Written(d)
  PROVE  SessionInv'
<1> USE DEF SessionInv, Written, IoIdle, protocolVars, playerVars, poolVars
<1>1. TypeOK' /\ Lists(taskList')
  BY DEF TypeOK, Opt
<1>2. PlayerInv'
  BY PlayersKept
<1>3. \A c \in Conn : ConnOK(c)'
  BY DEF ConnOK, Unaccepted, Fresh, Parsing, Releasing, Removing, Serving, TypeOK, Accepted
<1>4. PoolInv'
  BY DEF PoolInv, Served
<1> QED
  BY <1>1, <1>2, <1>3, <1>4

\* Every step of the io thread keeps the invariant.
LEMMA IoInv ==
  ASSUME SessionInv, NEW d \in Conn, IoStep(d)
  PROVE  SessionInv'
BY AcceptInv, ReadErrorInv, WriteErrorInv, FirstMessageInv, ParsePacketInv, PacketParsedInv,
   WrittenInv DEF IoStep

-----------------------------------------------------------------------------
(* Game and OutputMessagePool                                               *)

\* The list of tasks, and what is said of the connections, when neither changes.
LEMMA ConnsKept ==
  ASSUME \A c \in Conn : ConnOK(c), TypeOK,
         UNCHANGED <<socket, connectionState, managed, reading, receivedFirst, ioConn,
                     protocolVars, taskList, bufferedProtocols>>,
         \A c \in Conn : messageQueue'[c] => messageQueue[c] \/ Accepted(c),
         \A c \in Conn : Removing(c)'
  PROVE  \A c \in Conn : ConnOK(c)'
BY DEF ConnOK, Unaccepted, Fresh, Parsing, Releasing, Serving, Accepted, protocolVars

\* OutputMessagePool::sendAll schedules itself again as long as there are protocols.
LEMMA SendAllInv ==
  ASSUME SessionInv, NEW cs \in SUBSET Conn, SendAll(cs)
  PROVE  SessionInv'
<1> USE DEF SessionInv, SendAll
<1>1. /\ messageQueue' \in [Conn -> BOOLEAN]
      /\ \A c \in Conn : messageQueue'[c] => messageQueue[c] \/ c \in cs
  BY Sending
<1>2. sends \in 0..Cardinality(Conn) /\ Cardinality(Conn) \in Nat
  BY FS_CardinalityType DEF TypeOK
<1>3. Served \in SUBSET Conn /\ Cardinality(Served) \in Nat
  BY FS_Subset, FS_CardinalityType DEF Served
<1>4. /\ sends' \in 0..Cardinality(Conn) /\ sends' <= Cardinality(Served)
      /\ bufferedProtocols # {} => sends' > 0
  BY <1>2, <1>3 DEF PoolInv
<1>5. TypeOK' /\ Lists(taskList')
  BY <1>1, <1>4 DEF TypeOK, protocolVars, playerVars
<1>6. PlayerInv'
  BY PlayersKept DEF protocolVars
<1>7. \A c \in Conn : ConnOK(c)'
  <2>1. \A c \in cs : Accepted(c)
    BY DEF ConnOK, Unaccepted
  <2>2. \A c \in Conn : Removing(c)'
    BY DEF ConnOK, Removing, protocolVars, playerVars
  <2> QED
    BY <1>1, <2>1, <2>2, ConnsKept
<1>8. PoolInv'
  BY <1>4 DEF PoolInv, Served
<1> QED
  BY <1>5, <1>6, <1>7, <1>8

\* The lists of checkCreatures let go of players, and what was to be released is.
LEMMA CheckCreaturesInv ==
  ASSUME SessionInv, NEW list \in SUBSET Player, CheckCreatures(list)
  PROVE  SessionInv'
<1> USE DEF SessionInv, connectionVars, protocolVars, poolVars
<1> DEFINE gone == {p \in list : ~creatureCheck[p]}
<1>1. /\ \A p \in list : inCheckCreatures[p]
      /\ inCheckCreatures' = [p \in Player |-> inCheckCreatures[p] /\ p \notin gone]
      /\ referenceCounter' = [p \in Player |->
           referenceCounter[p] - toRelease[p] - (IF p \in gone THEN 1 ELSE 0)]
      /\ toRelease' = [p \in Player |-> 0]
      /\ UNCHANGED <<client, isInternalRemoved, creatureCheck, online,
                     connectionVars, protocolVars, taskList, poolVars>>
  BY DEF CheckCreatures
<1>2. \A p \in gone : inCheckCreatures[p]
  BY <1>1
<1> HIDE DEF gone
<1>3. PlayerInv'
  <2>1. ASSUME NEW p \in Player
        PROVE  referenceCounter'[p] = One(client'[p] # None) + One(online' = p)
                                      + One(inCheckCreatures'[p]) + toRelease'[p]
    <3>1. /\ referenceCounter[p] = One(client[p] # None) + One(online = p)
                                   + One(inCheckCreatures[p]) + toRelease[p]
          /\ toRelease[p] \in Nat
      BY DEF PlayerInv, Counted, TypeOK
    <3>2. /\ referenceCounter'[p] = referenceCounter[p] - toRelease[p] - (IF p \in gone THEN 1 ELSE 0)
          /\ toRelease'[p] = 0
          /\ inCheckCreatures'[p] <=> inCheckCreatures[p] /\ p \notin gone
          /\ p \in gone => inCheckCreatures[p]
      BY <1>1, <1>2 DEF TypeOK
    <3>3. client' = client /\ online' = online
      BY <1>1
    <3>4. One(inCheckCreatures'[p]) = One(inCheckCreatures[p]) - (IF p \in gone THEN 1 ELSE 0)
      BY <3>2 DEF One
    <3>5. One(client[p] # None) \in Nat /\ One(online = p) \in Nat /\ One(inCheckCreatures[p]) \in Nat
      BY DEF One
    <3> QED
      BY <3>1, <3>2, <3>3, <3>4, <3>5
  <2> QED
    BY <1>1, <2>1 DEF PlayerInv, Paired, InMap, Counted
<1>4. TypeOK' /\ Lists(taskList')
  <2>1. \A p \in Player : referenceCounter'[p] \in Nat
    BY <1>1, <1>3 DEF PlayerInv, Counted, One
  <2>2. /\ referenceCounter' \in [Player -> Nat]
        /\ toRelease' \in [Player -> 0..1] /\ inCheckCreatures' \in [Player -> BOOLEAN]
    BY <1>1, <2>1
  <2> QED
    BY <1>1, <2>2 DEF TypeOK
<1>5. \A c \in Conn : ConnOK(c)'
  <2>1. \A c \in Conn : Removing(c)'
    BY <1>1 DEF ConnOK, Removing
  <2> QED
    BY <1>1, <2>1, ConnsKept
<1>6. PoolInv'
  BY <1>1 DEF PoolInv, Served
<1> QED
  BY <1>3, <1>4, <1>5, <1>6

\* Game::removeCreature
LEMMA Removed ==
  ASSUME TypeOK, PlayerInv, NEW p \in Player, RemoveCreature(p),
         isInternalRemoved[p] \/ online = p,
         UNCHANGED <<player, client, referenceCounter, inCheckCreatures>>
  PROVE  /\ PlayerInv'
         /\ isInternalRemoved' \in [Player -> BOOLEAN] /\ online' \in Opt(Player)
         /\ toRelease' \in [Player -> 0..1] /\ creatureCheck' \in [Player -> BOOLEAN]
         /\ \A q \in Player : ~isInternalRemoved'[q] => ~isInternalRemoved[q] /\ q # p
         /\ \A q \in Player : online = q => online' = q \/ isInternalRemoved'[q]
<1> USE DEF RemoveCreature
<1>1. CASE isInternalRemoved[p]
  BY <1>1 DEF PlayerInv, Paired, Counted, InMap, TypeOK
<1>2. CASE ~isInternalRemoved[p]
  <2>1. online = p /\ toRelease[p] = 0 /\ p # None
    BY <1>2 DEF PlayerInv, InMap
  <2>2. /\ isInternalRemoved' \in [Player -> BOOLEAN] /\ online' \in Opt(Player)
        /\ toRelease' \in [Player -> 0..1] /\ creatureCheck' \in [Player -> BOOLEAN]
    <3>1. isInternalRemoved' \in [Player -> BOOLEAN] /\ online' \in Opt(Player)
      BY <1>2 DEF TypeOK, Opt
    <3>2. toRelease' \in [Player -> 0..1]
      <4>1. toRelease' = [toRelease EXCEPT ![p] = 1]
        BY <1>2, <2>1
      <4> QED
        BY <4>1 DEF TypeOK
    <3>3. (creatureCheck[p] /\ ~inCheckCreatures[p]) \in BOOLEAN
      OBVIOUS
    <3>4. creatureCheck' = [creatureCheck EXCEPT ![p] = creatureCheck[p] /\ ~inCheckCreatures[p]]
      BY <1>2
    <3>5. creatureCheck' \in [Player -> BOOLEAN]
      BY <3>3, <3>4 DEF TypeOK
    <3> QED
      BY <3>1, <3>2, <3>5
  <2>3. Counted'
    BY <1>2, <2>1 DEF PlayerInv, Counted, One, TypeOK
  <2>4. Paired' /\ InMap'
    BY <1>2, <2>1 DEF PlayerInv, Paired, InMap, TypeOK
  <2> QED
    BY <1>2, <2>1, <2>2, <2>3, <2>4 DEF PlayerInv, TypeOK
<1> QED
  BY <1>1, <1>2

\* A list that lacks at most a task of the connection d that is no release.
Without(list, d) ==
  /\ Lists(list)
  /\ \A n, c : Has(list, n, c) => Has(taskList, n, c)
  /\ \A n, c : Has(taskList, n, c) /\ (n = "release" \/ c # d) => Has(list, n, c)

\* What the dispatcher knows when it runs a task.
LEMMA Running ==
  ASSUME SessionInv, NEW m, NEW d, Runs(m, d)
  PROVE  /\ m \in Names /\ d \in Conn /\ Lists(Rest)
         /\ \A n, c : Has(taskList, n, c) <=> Has(Rest, n, c) \/ (n = m /\ c = d)
         /\ m = "release" => \A n : ~Has(Rest, n, d)
         /\ m = "login" => ~Has(Rest, "login", d)
         /\ m # "release" => Without(Rest, d)
         /\ Accepted(d)
<1>1. /\ m \in Names /\ d \in Conn /\ Lists(Rest)
      /\ \A n, c : Has(taskList, n, c) <=> Has(Rest, n, c) \/ (n = m /\ c = d)
      /\ m = "release" => \A n : ~Has(Rest, n, d)
      /\ m = "login" => ~Has(Rest, "login", d)
  BY Taken DEF SessionInv, Runs, Rest
<1>2. m # "release" => Without(Rest, d)
  BY <1>1 DEF Without
<1>3. Accepted(d)
  BY <1>1 DEF SessionInv, ConnOK, Unaccepted
<1> QED
  BY <1>1, <1>2, <1>3

\* ProtocolGame::logout and Player::kickPlayer, as far as they have an effect.
LEMMA LogoutNowInv ==
  ASSUME SessionInv, NEW d \in Conn, NEW list, Without(list, d), player[d] # None,
         isInternalRemoved[player[d]] \/ online = player[d],
         LogoutNow(d, list)
  PROVE  SessionInv'
<1> USE DEF SessionInv, LogoutNow, Disconnect, protocolVars, poolVars
<1> DEFINE p == player[d]
<1>0. ConnOK(d) /\ p \in Player /\ Accepted(d) /\ LockFree(d)
  BY DEF ConnOK, Fresh, Unaccepted, TypeOK, Opt
<1>1. /\ socket' \in [Conn -> {"none", "open", "closed"}]
      /\ \A c \in Conn : socket'[c] = "none" => socket[c] = "none"
      /\ managed' \in [Conn -> BOOLEAN]
      /\ connectionState' \in [Conn -> {"OPEN", "CLOSED"}]
      /\ connectionState' = [connectionState EXCEPT ![d] = "CLOSED"]
      /\ Lists(taskList')
      /\ \A n, c : Has(taskList', n, c) <=>
           Has(list, n, c) \/ (n = "release" /\ c = d /\ connectionState[d] = "OPEN")
  BY <1>0, Closing DEF ConnOK, Releasing, Without
<1>2. /\ PlayerInv'
      /\ isInternalRemoved' \in [Player -> BOOLEAN] /\ online' \in Opt(Player)
      /\ toRelease' \in [Player -> 0..1] /\ creatureCheck' \in [Player -> BOOLEAN]
      /\ \A q \in Player : ~isInternalRemoved'[q] => ~isInternalRemoved[q] /\ q # p
      /\ \A q \in Player : online = q => online' = q \/ isInternalRemoved'[q]
  BY <1>0, Removed
<1>3. TypeOK'
  BY <1>1, <1>2, ListsType DEF TypeOK
<1>4. \A c \in Conn : ConnOK(c)'
  <2> SUFFICES ASSUME NEW c \in Conn PROVE ConnOK(c)'
    OBVIOUS
  <2>0. ConnOK(c)
    OBVIOUS
  <2>1. Unaccepted(c)' /\ Parsing(c)'
    BY <1>0, <1>1, <2>0 DEF ConnOK, Unaccepted, Parsing, Accepted, Names, TypeOK, Without, LockFree
  <2>2. Fresh(c)'
    BY <1>1, <2>0 DEF ConnOK, Fresh, TypeOK, Without
  <2>3. Removing(c)'
    <3>1. player[c] # None => player[c] \in Player
      BY DEF TypeOK, Opt
    <3> QED
      BY <1>1, <1>2, <2>0, <3>1 DEF ConnOK, Removing, TypeOK, Without
  <2>4. Releasing(c)' /\ Serving(c)'
    BY <1>1, <2>0 DEF ConnOK, Releasing, Serving, Names, TypeOK, Without
  <2> QED
    BY <2>1, <2>2, <2>3, <2>4 DEF ConnOK
<1>5. PoolInv'
  BY <1>1, ServedKept DEF PoolInv, Served, Without
<1> QED
  BY <1>1, <1>2, <1>3, <1>4, <1>5

\* A character is removed who has no client, or who keeps it.
LEMMA RemoveInv ==
  ASSUME SessionInv, NEW p \in Player, online = p, RemoveCreature(p),
         UNCHANGED <<connectionVars, protocolVars, client, referenceCounter,
                     inCheckCreatures, taskList, poolVars>>
  PROVE  SessionInv'
<1> USE DEF SessionInv, connectionVars, protocolVars, poolVars
<1>1. /\ PlayerInv'
      /\ isInternalRemoved' \in [Player -> BOOLEAN] /\ online' \in Opt(Player)
      /\ toRelease' \in [Player -> 0..1] /\ creatureCheck' \in [Player -> BOOLEAN]
      /\ \A q \in Player : ~isInternalRemoved'[q] => ~isInternalRemoved[q] /\ q # p
      /\ \A q \in Player : online = q => online' = q \/ isInternalRemoved'[q]
  BY Removed
<1>2. TypeOK' /\ Lists(taskList')
  BY <1>1 DEF TypeOK
<1>3. \A c \in Conn : ConnOK(c)'
  <2>1. \A c \in Conn : Removing(c)'
    <3>1. \A c \in Conn : player[c] # None => player[c] \in Player
      BY DEF TypeOK, Opt
    <3> QED
      BY <1>1, <3>1 DEF ConnOK, Removing
  <2> QED
    BY <2>1, ConnsKept
<1>4. PoolInv'
  BY DEF PoolInv, Served
<1> QED
  BY <1>1, <1>2, <1>3, <1>4

\* A player is kicked or dies.
LEMMA KickInv ==
  ASSUME SessionInv, NEW p \in Player, Kick(p) \/ Die(p)
  PROVE  SessionInv'
<1>1. CASE client[p] # None /\ player[client[p]] # None /\ LogoutNow(client[p], taskList) /\ online = p
  <2>1. client[p] \in Conn /\ player[client[p]] = p
    BY <1>1 DEF SessionInv, PlayerInv, Paired, TypeOK, Opt
  <2>2. Without(taskList, client[p])
    BY DEF SessionInv, Without
  <2> QED
    BY <1>1, <2>1, <2>2, LogoutNowInv
<1>2. CASE Die(p) \/ (Kick(p) /\ client[p] = None)
  BY <1>2, RemoveInv DEF Kick, Die
<1> QED
  BY <1>1, <1>2 DEF Kick

-----------------------------------------------------------------------------
(* The tasks of the dispatcher                                              *)

\* The challenge is sent.
LEMMA OnConnectInv ==
  ASSUME SessionInv, NEW d \in Conn, OnConnect(d)
  PROVE  SessionInv'
<1> USE DEF SessionInv, OnConnect
<1>1. Without(Rest, d) /\ Lists(Rest) /\ Accepted(d)
  BY Running
<1>2. /\ messageQueue' \in [Conn -> BOOLEAN]
      /\ \A c \in Conn : messageQueue'[c] => messageQueue[c] \/ Accepted(c)
  BY <1>1, Sending
<1>3. TypeOK' /\ Lists(taskList')
  BY <1>1, <1>2, ListsType DEF TypeOK, protocolVars, playerVars, poolVars
<1>4. PlayerInv'
  BY PlayersKept DEF protocolVars
<1>5. \A c \in Conn : ConnOK(c)'
  BY <1>1, <1>2 DEF ConnOK, Unaccepted, Fresh, Parsing, Releasing, Removing, Serving, Accepted,
     Without, Names, protocolVars, playerVars, poolVars
<1>6. PoolInv'
  BY <1>1, ServedKept DEF PoolInv, Served, Without, poolVars
<1> QED
  BY <1>3, <1>4, <1>5, <1>6

\* The task of the client's logout.
LEMMA LogoutInv ==
  ASSUME SessionInv, NEW d \in Conn, Logout(d)
  PROVE  SessionInv'
<1>1. Without(Rest, d) /\ Lists(Rest) /\ Accepted(d) /\ Has(taskList, "logout", d)
  BY Running DEF Logout
<1>2. CASE player[d] # None /\ LogoutNow(d, Rest)
  <2>1. isInternalRemoved[player[d]] \/ online = player[d]
    BY <1>1, <1>2 DEF SessionInv, ConnOK, Removing
  <2> QED
    BY <1>1, <1>2, <2>1, LogoutNowInv
<1>3. CASE taskList' = Rest /\ UNCHANGED <<connectionVars, protocolVars, playerVars, poolVars>>
  <2> USE DEF SessionInv, connectionVars, protocolVars, playerVars, poolVars
  <2>1. TypeOK' /\ Lists(taskList')
    BY <1>1, <1>3, ListsType DEF TypeOK
  <2>2. PlayerInv'
    BY <1>3, PlayersKept
  <2>3. \A c \in Conn : ConnOK(c)'
    BY <1>1, <1>3 DEF ConnOK, Unaccepted, Fresh, Parsing, Releasing, Removing, Serving, Accepted,
       Without, Names
  <2>4. PoolInv'
    BY <1>1, <1>3, ServedKept DEF PoolInv, Served, Without
  <2> QED
    BY <2>1, <2>2, <2>3, <2>4
<1> QED
  BY <1>2, <1>3 DEF Logout

\* ProtocolGame::release, the last task of a connection.
LEMMA ReleaseInv ==
  ASSUME SessionInv, NEW d \in Conn, Release(d)
  PROVE  SessionInv'
<1> USE DEF SessionInv, Release
<1> DEFINE p == player[d]
<1>1. /\ Lists(Rest) /\ Accepted(d) /\ Has(taskList, "release", d)
      /\ \A n, c : Has(taskList, n, c) <=> Has(Rest, n, c) \/ (n = "release" /\ c = d)
      /\ \A n : ~Has(Rest, n, d)
  BY Running
<1>2. connectionState[d] = "CLOSED"
  BY <1>1 DEF ConnOK, Releasing
<1>3. CASE p # None
  <2>1. p \in Player /\ client[p] = d
    BY <1>3 DEF TypeOK, Opt, PlayerInv, Paired
  <2>2. /\ client' = [client EXCEPT ![p] = None]
        /\ referenceCounter' = [referenceCounter EXCEPT ![p] = @ - 1]
        /\ player' = [player EXCEPT ![d] = None]
    BY <1>3, <2>1
  <2>3. referenceCounter[p] - 1 = One(online = p) + One(inCheckCreatures[p]) + toRelease[p]
    <3>1. One(client[p] # None) = 1
      BY <2>1 DEF One
    <3>2. /\ One(online = p) \in Nat /\ One(inCheckCreatures[p]) \in Nat
          /\ toRelease[p] \in Nat /\ referenceCounter[p] \in Nat
      BY <2>1 DEF One, TypeOK
    <3>3. referenceCounter[p] = 1 + One(online = p) + One(inCheckCreatures[p]) + toRelease[p]
      BY <2>1, <3>1 DEF PlayerInv, Counted
    <3> QED
      BY <3>2, <3>3
  <2>4. referenceCounter[p] - 1 \in Nat
    BY <2>1, <2>3 DEF One, TypeOK
  <2>5. PlayerInv'
    <3>1. Paired'
      BY <2>1, <2>2 DEF PlayerInv, Paired, TypeOK
    <3>2. Counted'
      BY <2>1, <2>2, <2>3 DEF PlayerInv, Counted, One, TypeOK
    <3> QED
      BY <3>1, <3>2 DEF PlayerInv, InMap
  <2>6. TypeOK' /\ Lists(taskList')
    BY <1>1, <2>1, <2>2, <2>4, ListsType DEF TypeOK, Opt, connectionVars
  <2>7. \A c \in Conn : ConnOK(c)'
    BY <1>1, <1>2, <2>2 DEF ConnOK, Unaccepted, Fresh, Parsing, Releasing, Removing, Serving,
       Accepted, Names, TypeOK, connectionVars
  <2>8. PoolInv'
    BY <1>1, ServedKept DEF PoolInv, Served, connectionVars
  <2> QED
    BY <2>5, <2>6, <2>7, <2>8
<1>4. CASE p = None
  <2>1. UNCHANGED <<client, referenceCounter, player>>
    BY <1>4
  <2>2. PlayerInv'
    BY <2>1, PlayersKept DEF playerVars
  <2>3. TypeOK' /\ Lists(taskList')
    BY <1>1, <2>1, ListsType DEF TypeOK, connectionVars
  <2>4. \A c \in Conn : ConnOK(c)'
    BY <1>1, <1>2, <1>4, <2>1 DEF ConnOK, Unaccepted, Fresh, Parsing, Releasing, Removing,
       Serving, Accepted, Names, connectionVars
  <2>5. PoolInv'
    BY <1>1, ServedKept DEF PoolInv, Served, connectionVars
  <2> QED
    BY <2>2, <2>3, <2>4, <2>5
<1> QED
  BY <1>3, <1>4

\* The client's login is taken up: nothing was done for it before.
LEMMA LoginTaken ==
  ASSUME SessionInv, NEW d \in Conn, Runs("login", d)
  PROVE  /\ Lists(Rest) /\ Without(Rest, d) /\ Accepted(d) /\ receivedFirst[d]
         /\ player[d] = None /\ ~acceptPackets[d] /\ eventConnect[d] = None
         /\ ~Has(Rest, "login", d) /\ ~Has(Rest, "logout", d)
         /\ connectionState[d] = "CLOSED" <=> Has(Rest, "release", d)
         /\ d \notin Served
<1>1. /\ Lists(Rest) /\ Without(Rest, d) /\ Accepted(d) /\ Has(taskList, "login", d)
      /\ ~Has(Rest, "login", d)
  BY Running
<1>2. ConnOK(d)
  BY DEF SessionInv
<1> QED
  BY <1>1, <1>2 DEF ConnOK, Fresh, Releasing, Without, Served, Names

\* One more is served, and one more sending may be scheduled.
LEMMA ServedMore ==
  ASSUME TypeOK, NEW d \in Conn, d \notin Served, PoolInv, AddProtocolToAutosend(d),
         \A c \in Conn : c \in Served \/ c = d => receivedFirst'[c] /\ ~Has(taskList', "login", c)
  PROVE  sends' \in 0..Cardinality(Conn) /\ PoolInv'
<1>1. Served \cup {d} \in SUBSET Served' /\ Served' \in SUBSET Conn
  BY DEF Served
<1>2. IsFiniteSet(Served') /\ IsFiniteSet(Served \cup {d}) /\ IsFiniteSet(Served)
  BY <1>1, FS_Subset
<1>3. /\ Cardinality(Served \cup {d}) <= Cardinality(Served')
      /\ Cardinality(Served') <= Cardinality(Conn)
      /\ Cardinality(Served \cup {d}) = Cardinality(Served) + 1
  BY <1>1, <1>2, FS_Subset, FS_AddElement
<1>4. Cardinality(Served) \in Nat /\ Cardinality(Served') \in Nat /\ Cardinality(Conn) \in Nat
  BY <1>2, FS_CardinalityType
<1>5. sends' \in {sends, sends + 1} /\ sends \in Nat /\ sends' > 0
  BY <1>4 DEF AddProtocolToAutosend, TypeOK, PoolInv
<1> QED
  BY <1>3, <1>4, <1>5 DEF PoolInv

\* new Player(getThis()): the memory is nobody's.
LEMMA NewPlayerInv ==
  ASSUME SessionInv, NEW d \in Conn, NEW p \in Player, NewPlayer(d, p), player[d] = None
  PROVE  /\ Paired'
         /\ player' \in [Conn -> Opt(Player)] /\ client' \in [Player -> Opt(Conn)]
         /\ isInternalRemoved' \in [Player -> BOOLEAN]
         /\ toRelease[p] = 0 /\ ~inCheckCreatures[p]
         /\ \A c \in Conn : player[c] # p
<1> USE DEF SessionInv, NewPlayer
<1>1. client[p] = None /\ toRelease[p] = 0 /\ ~inCheckCreatures[p]
  <2>1. /\ 0 = One(client[p] # None) + One(online = p) + One(inCheckCreatures[p]) + toRelease[p]
        /\ toRelease[p] \in Nat
    BY DEF PlayerInv, Counted, TypeOK
  <2>2. ASSUME NEW a \in {0, 1}, NEW b \in {0, 1}, NEW i \in {0, 1}, NEW t \in Nat, 0 = a + b + i + t
        PROVE  a = 0 /\ i = 0 /\ t = 0
    BY <2>2
  <2>3. /\ One(client[p] # None) \in {0, 1} /\ One(online = p) \in {0, 1}
        /\ One(inCheckCreatures[p]) \in {0, 1}
    BY DEF One
  <2>4. One(client[p] # None) = 0 /\ One(inCheckCreatures[p]) = 0 /\ toRelease[p] = 0
    BY <2>1, <2>2, <2>3
  <2> QED
    BY <2>4 DEF One
<1>2. \A c \in Conn : player[c] # p
  BY <1>1 DEF PlayerInv, Paired
<1>3. Paired'
  BY <1>1, <1>2 DEF PlayerInv, Paired, TypeOK
<1> QED
  BY <1>1, <1>2, <1>3 DEF TypeOK, Opt

\* The login fails when the player object was made.
LEMMA LoginRefusedInv ==
  ASSUME SessionInv, NEW d \in Conn, Runs("login", d), LockFree(d),
         NEW p \in Player, LoginRefused(d, p)
  PROVE  SessionInv'
<1> USE DEF SessionInv, LoginRefused, DisconnectClient, poolVars
<1>1. /\ Lists(Rest) /\ Without(Rest, d) /\ Accepted(d) /\ receivedFirst[d]
      /\ player[d] = None /\ ~acceptPackets[d] /\ eventConnect[d] = None
      /\ ~Has(Rest, "login", d) /\ ~Has(Rest, "logout", d)
      /\ connectionState[d] = "CLOSED" <=> Has(Rest, "release", d)
  BY LoginTaken
<1>2. /\ Paired'
      /\ player' \in [Conn -> Opt(Player)] /\ client' \in [Player -> Opt(Conn)]
      /\ isInternalRemoved' \in [Player -> BOOLEAN]
      /\ toRelease[p] = 0 /\ ~inCheckCreatures[p]
      /\ \A c \in Conn : player[c] # p
  BY <1>1, NewPlayerInv
<1>3. /\ socket' \in [Conn -> {"none", "open", "closed"}]
      /\ \A c \in Conn : socket'[c] = "none" => socket[c] = "none"
      /\ managed' \in [Conn -> BOOLEAN]
      /\ connectionState' \in [Conn -> {"OPEN", "CLOSED"}]
      /\ connectionState' = [connectionState EXCEPT ![d] = "CLOSED"]
      /\ Lists(taskList')
      /\ \A n, c : Has(taskList', n, c) <=>
           Has(Rest, n, c) \/ (n = "release" /\ c = d /\ connectionState[d] = "OPEN")
  BY <1>1, Closing
<1>4. /\ messageQueue' \in [Conn -> BOOLEAN]
      /\ \A c \in Conn : messageQueue'[c] => messageQueue[c] \/ c = d
  BY Sending
<1>5. /\ player' = [player EXCEPT ![d] = p] /\ client' = [client EXCEPT ![p] = d]
      /\ isInternalRemoved' = [isInternalRemoved EXCEPT ![p] = FALSE]
      /\ referenceCounter' = [referenceCounter EXCEPT ![p] = 1]
      /\ UNCHANGED <<eventConnect, acceptPackets, inCheckCreatures, creatureCheck, online,
                     toRelease, bufferedProtocols, sends, reading, receivedFirst, ioConn>>
      /\ online = None
  BY DEF NewPlayer
<1> HIDE DEF LoginRefused
<1>6. PlayerInv'
  <2>1. Counted'
    BY <1>2, <1>5 DEF PlayerInv, Counted, One, TypeOK
  <2>2. InMap'
    BY <1>5 DEF PlayerInv, InMap
  <2> QED
    BY <1>2, <2>1, <2>2 DEF PlayerInv
<1>7. TypeOK'
  BY <1>2, <1>3, <1>4, <1>5, ListsType DEF TypeOK
<1>8. \A c \in Conn : ConnOK(c)'
  <2> SUFFICES ASSUME NEW c \in Conn PROVE ConnOK(c)'
    OBVIOUS
  <2>0. ConnOK(c)
    OBVIOUS
  <2>1. Unaccepted(c)' /\ Parsing(c)'
    BY <1>1, <1>3, <1>4, <1>5, <2>0 DEF ConnOK, Unaccepted, Parsing, Accepted, Names, TypeOK,
       Without, LockFree
  <2>2. Fresh(c)' /\ Removing(c)'
    BY <1>1, <1>2, <1>3, <1>5, <2>0 DEF ConnOK, Fresh, Removing, Names, TypeOK, Without, Opt
  <2>3. Releasing(c)' /\ Serving(c)'
    BY <1>1, <1>3, <1>5, <2>0 DEF ConnOK, Releasing, Serving, Names, TypeOK, Without
  <2> QED
    BY <2>1, <2>2, <2>3 DEF ConnOK
<1>9. PoolInv'
  BY <1>1, <1>3, <1>5, ServedKept DEF PoolInv, Served, Without
<1> QED
  BY <1>3, <1>6, <1>7, <1>8, <1>9

\* The character enters the map.
LEMMA LoginPlacedInv ==
  ASSUME SessionInv, NEW d \in Conn, Runs("login", d), LockFree(d),
         NEW p \in Player, LoginPlaced(d, p)
  PROVE  SessionInv'
<1> USE DEF SessionInv, LoginPlaced, Placed
<1>1. /\ Lists(Rest) /\ Without(Rest, d) /\ Accepted(d) /\ receivedFirst[d]
      /\ player[d] = None /\ ~acceptPackets[d] /\ eventConnect[d] = None
      /\ ~Has(Rest, "login", d) /\ ~Has(Rest, "logout", d)
      /\ connectionState[d] = "CLOSED" <=> Has(Rest, "release", d)
      /\ d \notin Served
  BY LoginTaken
<1>2. /\ Paired'
      /\ player' \in [Conn -> Opt(Player)] /\ client' \in [Player -> Opt(Conn)]
      /\ isInternalRemoved' \in [Player -> BOOLEAN]
      /\ toRelease[p] = 0 /\ ~inCheckCreatures[p]
      /\ \A c \in Conn : player[c] # p
  BY <1>1, NewPlayerInv
<1>3. /\ player' = [player EXCEPT ![d] = p] /\ client' = [client EXCEPT ![p] = d]
      /\ isInternalRemoved' = [isInternalRemoved EXCEPT ![p] = FALSE]
      /\ referenceCounter' = [referenceCounter EXCEPT ![p] = 3]
      /\ inCheckCreatures' = [inCheckCreatures EXCEPT ![p] = TRUE]
      /\ acceptPackets' = [acceptPackets EXCEPT ![d] = TRUE]
      /\ creatureCheck' = [creatureCheck EXCEPT ![p] = TRUE]
      /\ bufferedProtocols' = bufferedProtocols \cup {d}
      /\ online = None /\ online' = p /\ taskList' = Rest
      /\ UNCHANGED <<eventConnect, toRelease, socket, connectionState, managed, reading,
                     messageQueue, receivedFirst, ioConn>>
  BY DEF NewPlayer, AddProtocolToAutosend, connectionVars
<1>4. sends' \in 0..Cardinality(Conn) /\ PoolInv'
  BY <1>1, <1>3, ServedMore DEF Served, Without
<1> HIDE DEF LoginPlaced, Placed
<1>5. PlayerInv'
  <2>1. Counted'
    BY <1>2, <1>3 DEF PlayerInv, Counted, One, TypeOK
  <2>2. InMap'
    BY <1>2, <1>3 DEF PlayerInv, InMap, TypeOK
  <2> QED
    BY <1>2, <2>1, <2>2 DEF PlayerInv
<1>6. TypeOK'
  BY <1>1, <1>2, <1>3, <1>4, ListsType DEF TypeOK, Opt
<1>7. \A c \in Conn : ConnOK(c)'
  <2> SUFFICES ASSUME NEW c \in Conn PROVE ConnOK(c)'
    OBVIOUS
  <2>0. ConnOK(c) /\ p # None
    OBVIOUS
  <2>1. Unaccepted(c)' /\ Parsing(c)'
    BY <1>1, <1>3, <2>0 DEF ConnOK, Unaccepted, Parsing, Accepted, Names, TypeOK, Without, LockFree
  <2>2. Fresh(c)' /\ Removing(c)'
    BY <1>1, <1>2, <1>3, <2>0 DEF ConnOK, Fresh, Removing, Names, TypeOK, Without, Opt
  <2>3. Releasing(c)' /\ Serving(c)'
    BY <1>1, <1>3, <2>0 DEF ConnOK, Releasing, Serving, Names, TypeOK, Without
  <2> QED
    BY <2>1, <2>2, <2>3 DEF ConnOK
<1> QED
  BY <1>1, <1>3, <1>4, <1>5, <1>6, <1>7

\* The character is kicked while it enters the map.
LEMMA LoginKickedInv ==
  ASSUME SessionInv, NEW d \in Conn, Runs("login", d), LockFree(d),
         NEW p \in Player, LoginKicked(d, p)
  PROVE  SessionInv'
<1> USE DEF SessionInv, LoginKicked, Placed, Disconnect
<1>1. /\ Lists(Rest) /\ Without(Rest, d) /\ Accepted(d) /\ receivedFirst[d]
      /\ player[d] = None /\ ~acceptPackets[d] /\ eventConnect[d] = None
      /\ ~Has(Rest, "login", d) /\ ~Has(Rest, "logout", d)
      /\ connectionState[d] = "CLOSED" <=> Has(Rest, "release", d)
      /\ d \notin Served
  BY LoginTaken
<1>2. /\ Paired'
      /\ player' \in [Conn -> Opt(Player)] /\ client' \in [Player -> Opt(Conn)]
      /\ isInternalRemoved' \in [Player -> BOOLEAN]
      /\ toRelease[p] = 0 /\ ~inCheckCreatures[p]
      /\ \A c \in Conn : player[c] # p
  BY <1>1, NewPlayerInv
<1>3. /\ socket' \in [Conn -> {"none", "open", "closed"}]
      /\ \A c \in Conn : socket'[c] = "none" => socket[c] = "none"
      /\ managed' \in [Conn -> BOOLEAN]
      /\ connectionState' \in [Conn -> {"OPEN", "CLOSED"}]
      /\ connectionState' = [connectionState EXCEPT ![d] = "CLOSED"]
      /\ Lists(taskList')
      /\ \A n, c : Has(taskList', n, c) <=>
           Has(Rest, n, c) \/ (n = "release" /\ c = d /\ connectionState[d] = "OPEN")
  BY <1>1, Closing
<1>4. /\ player' = [player EXCEPT ![d] = p] /\ client' = [client EXCEPT ![p] = d]
      /\ isInternalRemoved' = [isInternalRemoved EXCEPT ![p] = FALSE]
      /\ referenceCounter' = [referenceCounter EXCEPT ![p] = 3]
      /\ inCheckCreatures' = [inCheckCreatures EXCEPT ![p] = TRUE]
      /\ acceptPackets' = [acceptPackets EXCEPT ![d] = TRUE]
      /\ toRelease' = [toRelease EXCEPT ![p] = 1]
      /\ bufferedProtocols' = bufferedProtocols \cup {d}
      /\ online = None
      /\ UNCHANGED <<eventConnect, creatureCheck, online, reading, messageQueue, receivedFirst,
                     ioConn>>
  BY DEF NewPlayer, AddProtocolToAutosend
<1>5. sends' \in 0..Cardinality(Conn) /\ PoolInv'
  BY <1>1, <1>3, <1>4, ServedMore DEF Served, Without
<1> HIDE DEF LoginKicked, Placed, Disconnect
<1>6. PlayerInv'
  <2>1. Counted'
    BY <1>2, <1>4 DEF PlayerInv, Counted, One, TypeOK
  <2>2. InMap'
    BY <1>4 DEF PlayerInv, InMap
  <2> QED
    BY <1>2, <2>1, <2>2 DEF PlayerInv
<1>7. TypeOK'
  BY <1>1, <1>2, <1>3, <1>4, <1>5, ListsType DEF TypeOK
<1>8. \A c \in Conn : ConnOK(c)'
  <2> SUFFICES ASSUME NEW c \in Conn PROVE ConnOK(c)'
    OBVIOUS
  <2>0. ConnOK(c) /\ p # None
    OBVIOUS
  <2>1. Unaccepted(c)' /\ Parsing(c)'
    BY <1>1, <1>3, <1>4, <2>0 DEF ConnOK, Unaccepted, Parsing, Accepted, Names, TypeOK, Without,
       LockFree
  <2>2. Fresh(c)' /\ Removing(c)'
    BY <1>1, <1>2, <1>3, <1>4, <2>0 DEF ConnOK, Fresh, Removing, Names, TypeOK, Without, Opt
  <2>3. Releasing(c)' /\ Serving(c)'
    BY <1>1, <1>3, <1>4, <2>0 DEF ConnOK, Releasing, Serving, Names, TypeOK, Without
  <2> QED
    BY <2>1, <2>2, <2>3 DEF ConnOK
<1> QED
  BY <1>3, <1>5, <1>6, <1>7, <1>8

\* ProtocolGame::connect, with a list that lacks at most the login of the client.
LEMMA ConnectInv ==
  ASSUME SessionInv, NEW d \in Conn, NEW p \in Player, NEW list, Connect(d, p, list),
         LockFree(d), Without(list, d), Accepted(d), receivedFirst[d],
         player[d] = None, ~acceptPackets[d], ~Has(list, "login", d), ~Has(list, "logout", d),
         eventConnect' = [eventConnect EXCEPT ![d] = None],
         bufferedProtocols' \subseteq bufferedProtocols \cup {d},
         d \in bufferedProtocols' => connectionState[d] = "OPEN" \/ Has(list, "release", d),
         sends' \in 0..Cardinality(Conn)
  PROVE  /\ TypeOK' /\ Lists(taskList') /\ PlayerInv' /\ \A c \in Conn : ConnOK(c)'
         /\ receivedFirst' = receivedFirst
         /\ \A c : ~Has(list, "login", c) => ~Has(taskList', "login", c)
<1> USE DEF SessionInv, Connect
<1>1. CASE online # p \/ client[p] # None
  <2> USE DEF DisconnectClient
  <2>1. /\ socket' \in [Conn -> {"none", "open", "closed"}]
        /\ \A c \in Conn : socket'[c] = "none" => socket[c] = "none"
        /\ managed' \in [Conn -> BOOLEAN]
        /\ connectionState' \in [Conn -> {"OPEN", "CLOSED"}]
        /\ connectionState' = [connectionState EXCEPT ![d] = "CLOSED"]
        /\ Lists(taskList')
        /\ \A n, c : Has(taskList', n, c) <=>
             Has(list, n, c) \/ (n = "release" /\ c = d /\ connectionState[d] = "OPEN")
    BY <1>1, Closing DEF Without, ConnOK, Releasing
  <2>2. /\ messageQueue' \in [Conn -> BOOLEAN]
        /\ \A c \in Conn : messageQueue'[c] => messageQueue[c] \/ c = d
    BY <1>1, Sending
  <2>3. UNCHANGED <<player, acceptPackets, playerVars, reading, receivedFirst, ioConn>>
    BY <1>1
  <2> HIDE DEF Connect
  <2>4. PlayerInv'
    BY <2>3, PlayersKept
  <2>5. TypeOK'
    BY <2>1, <2>2, <2>3, ListsType DEF TypeOK, Opt, playerVars
  <2>6. ASSUME NEW c \in Conn PROVE ConnOK(c)'
    <3>0. ConnOK(c)
      OBVIOUS
    <3>1. Unaccepted(c)' /\ Parsing(c)'
      BY <2>1, <2>2, <2>3, <3>0 DEF ConnOK, Unaccepted, Parsing, Accepted, Names, TypeOK, Without,
         LockFree
    <3>2. Fresh(c)' /\ Removing(c)'
      BY <2>1, <2>3, <3>0 DEF ConnOK, Fresh, Removing, TypeOK, Without, playerVars
    <3>3. Releasing(c)' /\ Serving(c)'
      BY <2>1, <2>3, <3>0 DEF ConnOK, Releasing, Serving, Names, TypeOK, Without
    <3> QED
      BY <3>1, <3>2, <3>3 DEF ConnOK
  <2> QED
    BY <2>1, <2>3, <2>4, <2>5, <2>6
<1>2. CASE ~(online # p \/ client[p] # None) /\ Expired(d)
  <2>1. taskList' = list /\ UNCHANGED <<player, acceptPackets, playerVars, connectionVars>>
    BY <1>2
  <2> HIDE DEF Connect
  <2>2. PlayerInv'
    BY <2>1, PlayersKept
  <2>3. TypeOK' /\ Lists(taskList')
    BY <2>1, ListsType DEF TypeOK, Opt, playerVars, connectionVars, Without
  <2>4. \A c \in Conn : ConnOK(c)'
    BY <2>1 DEF ConnOK, Unaccepted, Fresh, Parsing, Releasing, Removing, Serving, Accepted, Names,
       TypeOK, Without, playerVars, connectionVars
  <2> QED
    BY <2>1, <2>2, <2>3, <2>4 DEF connectionVars
<1>3. CASE online = p /\ client[p] = None /\ ~Expired(d)
  <2>1. /\ player' = [player EXCEPT ![d] = p]
        /\ referenceCounter' = [referenceCounter EXCEPT ![p] = @ + 1]
        /\ client' = [client EXCEPT ![p] = d]
        /\ acceptPackets' = [acceptPackets EXCEPT ![d] = TRUE]
        /\ taskList' = list
        /\ UNCHANGED <<isInternalRemoved, inCheckCreatures, creatureCheck, online, toRelease,
                       connectionVars>>
    BY <1>3
  <2> HIDE DEF Connect
  <2>2. PlayerInv'
    <3>1. Paired'
      BY <1>3, <2>1 DEF PlayerInv, Paired, TypeOK
    <3>2. Counted'
      <4>1. ASSUME NEW q \in Player
            PROVE  referenceCounter'[q] = One(client'[q] # None) + One(online' = q)
                                          + One(inCheckCreatures'[q]) + toRelease'[q]
        <5>1. /\ referenceCounter[q] = One(client[q] # None) + One(online = q)
                                       + One(inCheckCreatures[q]) + toRelease[q]
          BY DEF PlayerInv, Counted
        <5>4. toRelease[q] \in 0..1 /\ referenceCounter[q] \in Nat
          <6>1. TypeOK
            OBVIOUS
          <6> QED
            BY ONLY <6>1, q \in Player DEF TypeOK
        <5>0. One(online = q) \in Nat /\ One(inCheckCreatures[q]) \in Nat
          BY DEF One
        <5>2. CASE q = p
          <6>1. One(client[q] # None) = 0 /\ One(client'[q] # None) = 1
            BY <1>3, <2>1, <5>2 DEF One, TypeOK
          <6>2. referenceCounter'[q] = referenceCounter[q] + 1
            BY <2>1, <5>2 DEF TypeOK
          <6> QED
            BY <2>1, <5>0, <5>1, <5>4, <6>1, <6>2
        <5>3. CASE q # p
          BY <2>1, <5>1, <5>3 DEF TypeOK
        <5> QED
          BY <5>2, <5>3
      <4> QED
        BY <4>1 DEF Counted
    <3> QED
      BY <2>1, <3>1, <3>2 DEF PlayerInv, InMap
  <2>3. TypeOK' /\ Lists(taskList')
    BY <2>1, ListsType DEF TypeOK, Opt, connectionVars, Without
  <2>4. ASSUME NEW c \in Conn PROVE ConnOK(c)'
    <3>0. ConnOK(c) /\ p # None
      OBVIOUS
    <3>1. Unaccepted(c)' /\ Parsing(c)'
      BY <2>1, <3>0 DEF ConnOK, Unaccepted, Parsing, Accepted, Names, TypeOK, Without, LockFree,
         connectionVars
    <3>2. Fresh(c)' /\ Removing(c)'
      BY <1>3, <2>1, <3>0 DEF ConnOK, Fresh, Removing, TypeOK, Without, connectionVars
    <3>3. Releasing(c)' /\ Serving(c)'
      BY <2>1, <3>0 DEF ConnOK, Releasing, Serving, Names, TypeOK, Without, connectionVars
    <3> QED
      BY <3>1, <3>2, <3>3 DEF ConnOK
  <2> QED
    BY <2>1, <2>2, <2>3, <2>4 DEF connectionVars
<1> QED
  BY <1>1, <1>2, <1>3

\* The event of a client that waited.
LEMMA EventConnectInv ==
  ASSUME SessionInv, NEW d \in Conn, EventConnect(d)
  PROVE  SessionInv'
<1> USE DEF SessionInv, EventConnect, poolVars
<1>1. /\ receivedFirst[d] /\ player[d] = None /\ ~acceptPackets[d]
      /\ ~Has(taskList, "login", d) /\ ~Has(taskList, "logout", d) /\ Accepted(d)
      /\ d \in bufferedProtocols => connectionState[d] = "OPEN" \/ Has(taskList, "release", d)
  BY DEF ConnOK, Fresh, Serving, Unaccepted
<1>2. eventConnect[d] \in Player /\ Without(taskList, d) /\ sends \in 0..Cardinality(Conn)
  BY DEF TypeOK, Opt, Without
<1>3. /\ TypeOK' /\ Lists(taskList') /\ PlayerInv' /\ \A c \in Conn : ConnOK(c)'
      /\ receivedFirst' = receivedFirst
      /\ \A c : ~Has(taskList, "login", c) => ~Has(taskList', "login", c)
  BY <1>1, <1>2, ConnectInv
<1>4. PoolInv'
  BY <1>3, ServedKept DEF PoolInv, Served
<1> QED
  BY <1>3, <1>4

\* The old client is hung up on, and the new one waits.
LEMMA LoginReplacesInv ==
  ASSUME SessionInv, NEW d \in Conn, Runs("login", d), LockFree(d),
         online # None, client[online] # None, LockFree(client[online]),
         Disconnect(client[online], Rest),
         eventConnect' = [eventConnect EXCEPT ![d] = online],
         AddProtocolToAutosend(d),
         UNCHANGED <<player, acceptPackets, client, referenceCounter, isInternalRemoved,
                     inCheckCreatures, creatureCheck, online, toRelease>>
  PROVE  SessionInv'
<1> USE DEF SessionInv, Disconnect
<1> DEFINE e == client[online]
<1>1. /\ Lists(Rest) /\ Without(Rest, d) /\ Accepted(d) /\ receivedFirst[d]
      /\ player[d] = None /\ ~acceptPackets[d] /\ eventConnect[d] = None
      /\ ~Has(Rest, "login", d) /\ ~Has(Rest, "logout", d)
      /\ connectionState[d] = "CLOSED" <=> Has(Rest, "release", d)
      /\ d \notin Served
  BY LoginTaken
<1>2. e \in Conn /\ online \in Player /\ player[e] = online /\ e # d /\ ConnOK(e)
  BY <1>1 DEF TypeOK, Opt, PlayerInv, Paired
<1>3. Accepted(e) /\ (Has(Rest, "release", e) => connectionState[e] = "CLOSED")
  BY <1>1, <1>2 DEF ConnOK, Unaccepted, Fresh, Releasing, Without
<1>4. /\ socket' \in [Conn -> {"none", "open", "closed"}]
      /\ \A c \in Conn : socket'[c] = "none" => socket[c] = "none"
      /\ managed' \in [Conn -> BOOLEAN]
      /\ connectionState' \in [Conn -> {"OPEN", "CLOSED"}]
      /\ connectionState' = [connectionState EXCEPT ![e] = "CLOSED"]
      /\ Lists(taskList')
      /\ \A n, c : Has(taskList', n, c) <=>
           Has(Rest, n, c) \/ (n = "release" /\ c = e /\ connectionState[e] = "OPEN")
  BY <1>1, <1>2, <1>3, Closing
<1>5. /\ UNCHANGED <<reading, messageQueue, receivedFirst, ioConn>>
      /\ bufferedProtocols' = bufferedProtocols \cup {d}
  BY DEF AddProtocolToAutosend
<1>6. sends' \in 0..Cardinality(Conn) /\ PoolInv'
  BY <1>1, <1>4, <1>5, ServedMore DEF Served, Without
<1>7. PlayerInv'
  BY PlayersKept DEF playerVars
<1> HIDE DEF e
<1>8. TypeOK'
  BY <1>1, <1>2, <1>4, <1>5, <1>6, ListsType DEF TypeOK, Opt
<1>9. ASSUME NEW c \in Conn PROVE ConnOK(c)'
  <2>0. ConnOK(c)
    OBVIOUS
  <2>1. Unaccepted(c)' /\ Parsing(c)'
    BY <1>1, <1>2, <1>3, <1>4, <1>5, <2>0 DEF ConnOK, Unaccepted, Parsing, Accepted, Names, TypeOK,
       Without, LockFree, e
  <2>2. Fresh(c)' /\ Removing(c)'
    BY <1>1, <1>2, <1>4, <1>5, <2>0 DEF ConnOK, Fresh, Removing, TypeOK, Without
  <2>3. Releasing(c)' /\ Serving(c)'
    BY <1>1, <1>2, <1>4, <1>5, <2>0 DEF ConnOK, Releasing, Serving, Names, TypeOK, Without
  <2> QED
    BY <2>1, <2>2, <2>3 DEF ConnOK
<1> QED
  BY <1>4, <1>6, <1>7, <1>8, <1>9

\* The new client is refused, or takes over at once.
LEMMA LoginAgainInv ==
  ASSUME SessionInv, NEW d \in Conn, Runs("login", d), LockFree(d), LoginAgain(d)
  PROVE  SessionInv'
<1> USE DEF SessionInv
<1>1. /\ Lists(Rest) /\ Without(Rest, d) /\ Accepted(d) /\ receivedFirst[d]
      /\ player[d] = None /\ ~acceptPackets[d] /\ eventConnect[d] = None
      /\ ~Has(Rest, "login", d) /\ ~Has(Rest, "logout", d)
      /\ connectionState[d] = "CLOSED" <=> Has(Rest, "release", d)
      /\ d \notin Served
  BY LoginTaken
<1>2. CASE DisconnectClient(d, Rest) /\ UNCHANGED <<protocolVars, playerVars, poolVars>>
  <2> USE <1>2 DEF DisconnectClient, protocolVars, poolVars
  <2>1. /\ socket' \in [Conn -> {"none", "open", "closed"}]
        /\ \A c \in Conn : socket'[c] = "none" => socket[c] = "none"
        /\ managed' \in [Conn -> BOOLEAN]
        /\ connectionState' \in [Conn -> {"OPEN", "CLOSED"}]
        /\ connectionState' = [connectionState EXCEPT ![d] = "CLOSED"]
        /\ Lists(taskList')
        /\ \A n, c : Has(taskList', n, c) <=>
             Has(Rest, n, c) \/ (n = "release" /\ c = d /\ connectionState[d] = "OPEN")
    BY <1>1, Closing
  <2>2. /\ messageQueue' \in [Conn -> BOOLEAN]
        /\ \A c \in Conn : messageQueue'[c] => messageQueue[c] \/ c = d
    BY Sending
  <2>3. PlayerInv'
    BY PlayersKept
  <2>4. TypeOK'
    BY <2>1, <2>2, ListsType DEF TypeOK, Opt, playerVars
  <2>5. ASSUME NEW c \in Conn PROVE ConnOK(c)'
    <3>0. ConnOK(c)
      OBVIOUS
    <3>1. Unaccepted(c)' /\ Parsing(c)'
      BY <1>1, <2>1, <2>2, <3>0 DEF ConnOK, Unaccepted, Parsing, Accepted, Names, TypeOK, Without,
         LockFree
    <3>2. Fresh(c)' /\ Removing(c)'
      BY <1>1, <2>1, <3>0 DEF ConnOK, Fresh, Removing, TypeOK, Without, playerVars
    <3>3. Releasing(c)' /\ Serving(c)'
      BY <1>1, <2>1, <3>0 DEF ConnOK, Releasing, Serving, Names, TypeOK, Without
    <3> QED
      BY <3>1, <3>2, <3>3 DEF ConnOK
  <2>6. PoolInv'
    BY <1>1, <2>1, ServedKept DEF PoolInv, Served, Without
  <2> QED
    BY <2>1, <2>3, <2>4, <2>5, <2>6
<1>3. CASE /\ online # None /\ client[online] # None
           /\ LockFree(client[online])
           /\ Disconnect(client[online], Rest)
           /\ eventConnect' = [eventConnect EXCEPT ![d] = online]
           /\ AddProtocolToAutosend(d)
           /\ UNCHANGED <<player, acceptPackets, client, referenceCounter, isInternalRemoved,
                          inCheckCreatures, creatureCheck, online, toRelease>>
  BY <1>3, LoginReplacesInv
<1>4. CASE /\ online # None /\ client[online] = None
           /\ Connect(d, online, Rest)
           /\ AddProtocolToAutosend(d)
           /\ UNCHANGED eventConnect
  <2>1. /\ online \in Player
        /\ eventConnect' = [eventConnect EXCEPT ![d] = None]
        /\ bufferedProtocols' = bufferedProtocols \cup {d}
        /\ d \in bufferedProtocols' => connectionState[d] = "OPEN" \/ Has(Rest, "release", d)
    BY <1>1, <1>4 DEF TypeOK, Opt, AddProtocolToAutosend
  <2>2. receivedFirst' = receivedFirst /\ \A c : ~Has(Rest, "login", c) => ~Has(taskList', "login", c)
    <3>1. taskList' = Rest /\ UNCHANGED receivedFirst
      BY <1>4 DEF Connect, connectionVars
    <3> QED
      BY <3>1
  <2>3. sends' \in 0..Cardinality(Conn) /\ PoolInv'
    BY <1>1, <1>4, <2>2, ServedMore DEF Served, Without
  <2>4. TypeOK' /\ Lists(taskList') /\ PlayerInv' /\ \A c \in Conn : ConnOK(c)'
    BY <1>1, <1>4, <2>1, <2>3, ConnectInv
  <2> QED
    BY <2>3, <2>4
<1> QED
  BY <1>2, <1>3, <1>4 DEF LoginAgain

\* Every task of the dispatcher keeps the invariant.
LEMMA TaskInv ==
  ASSUME SessionInv, NEW d \in Conn, RunTask(d)
  PROVE  SessionInv'
<1>1. CASE Login(d)
  BY <1>1, LoginRefusedInv, LoginPlacedInv, LoginKickedInv, LoginAgainInv DEF Login
<1> QED
  BY <1>1, OnConnectInv, ReleaseInv, LogoutInv DEF RunTask

-----------------------------------------------------------------------------
(* The theorems                                                             *)

\* Before the first connection there is nothing.
LEMMA SessionInitInv == SessionInit => SessionInv
<1> SUFFICES ASSUME SessionInit PROVE SessionInv
  OBVIOUS
<1> USE DEF SessionInit
<1>1. Lists(taskList) /\ \A n, c : ~Has(taskList, n, c)
  BY DEF Lists, Has
<1>2. Served = {}
  BY DEF Served
<1>3. Cardinality(Served) = 0 /\ Cardinality(Conn) \in Nat
  BY <1>2, FS_EmptySet, FS_CardinalityType
<1>4. TypeOK
  <2>1. taskList \in Seq([name : {"onConnect", "login", "logout", "release"}, conn : Conn])
    BY <1>1, ListsType
  <2> QED
    BY <1>3, <2>1 DEF TypeOK, Opt
<1>5. PlayerInv
  BY DEF PlayerInv, Paired, Counted, InMap, One
<1>6. \A c \in Conn : ConnOK(c)
  BY <1>1 DEF ConnOK, Unaccepted, Fresh, Parsing, Releasing, Removing, Serving
<1>7. PoolInv
  BY <1>3 DEF PoolInv
<1> QED
  BY <1>1, <1>4, <1>5, <1>6, <1>7 DEF SessionInv

\* Every step of either thread keeps the invariant.
LEMMA SessionStep == SessionInv /\ [SessionNext]_sessionVars => SessionInv'
<1> SUFFICES ASSUME SessionInv, [SessionNext]_sessionVars PROVE SessionInv'
  OBVIOUS
<1>1. CASE UNCHANGED sessionVars
  <2> USE <1>1 DEF SessionInv, sessionVars, connectionVars, protocolVars, playerVars, poolVars
  <2>1. TypeOK' /\ Lists(taskList')
    BY DEF TypeOK
  <2>2. PlayerInv' /\ PoolInv'
    BY DEF PlayerInv, Paired, Counted, InMap, PoolInv, Served
  <2>3. \A c \in Conn : ConnOK(c)'
    BY DEF ConnOK, Unaccepted, Fresh, Parsing, Releasing, Removing, Serving, Accepted
  <2> QED
    BY <2>1, <2>2, <2>3
<1> QED
  BY <1>1, IoInv, TaskInv, EventConnectInv, KickInv, CheckCreaturesInv, SendAllInv DEF SessionNext

\* The invariant holds at all times.
LEMMA SessionInvariant == SessionSpec => []SessionInv
BY SessionInitInv, SessionStep, PTL DEF SessionSpec

\* A player object has one protocol if it has a client, and none otherwise.
LEMMA OneProtocol ==
  ASSUME Paired, client \in [Player -> Opt(Conn)], NEW p \in Player
  PROVE  Cardinality({c \in Conn : player[c] = p}) = One(client[p] # None)
<1>1. CASE client[p] = None
  <2>1. {c \in Conn : player[c] = p} = {}
    BY <1>1 DEF Paired
  <2> QED
    BY <1>1, <2>1, FS_EmptySet DEF One
<1>2. CASE client[p] # None
  <2>1. client[p] \in Conn
    BY <1>2 DEF Opt
  <2>2. {c \in Conn : player[c] = p} = {client[p]}
    BY <2>1 DEF Paired
  <2> QED
    BY <1>2, <2>2, FS_Singleton DEF One
<1> QED
  BY <1>1, <1>2

\* What is to be shown of the sessions follows from the invariant.
LEMMA SessionImplied ==
  SessionInv => RefsCounted /\ Linked /\ InputSafe /\ AutosendSound /\ ReleasedLast
<1> SUFFICES ASSUME SessionInv
             PROVE  RefsCounted /\ Linked /\ InputSafe /\ AutosendSound /\ ReleasedLast
  OBVIOUS
<1> USE DEF SessionInv
<1>1. RefsCounted
  BY OneProtocol DEF RefsCounted, PlayerInv, Counted, TypeOK
<1>2. Linked
  BY DEF Linked, PlayerInv, Paired
<1>3. InputSafe
  <2> SUFFICES ASSUME ioConn # None
               PROVE  player[ioConn] # None /\ referenceCounter[player[ioConn]] > 0
    BY DEF InputSafe
  <2>1. ioConn \in Conn
    BY DEF TypeOK, Opt
  <2>2. player[ioConn] # None
    BY <2>1 DEF ConnOK, Parsing
  <2> DEFINE p == player[ioConn]
  <2>3. p \in Player /\ client[p] = ioConn
    BY <2>1, <2>2 DEF TypeOK, Opt, PlayerInv, Paired
  <2> HIDE DEF p
  <2>4. referenceCounter[p] = One(client[p] # None) + One(online = p)
                              + One(inCheckCreatures[p]) + toRelease[p]
    BY <2>3 DEF PlayerInv, Counted
  <2>7. toRelease[p] \in Nat
    BY <2>3 DEF TypeOK
  <2>5. One(client[p] # None) = 1 /\ One(online = p) \in Nat /\ One(inCheckCreatures[p]) \in Nat
    BY <2>1, <2>3 DEF One
  <2>6. referenceCounter[p] > 0
    BY <2>4, <2>5, <2>7
  <2> QED
    BY <2>2, <2>6 DEF p
<1>4. AutosendSound
  BY DEF AutosendSound, PoolInv, ConnOK, Serving, Queued, Has, TypeOK
<1>5. ReleasedLast
  BY DEF ReleasedLast, Lists
<1> QED
  BY <1>1, <1>2, <1>3, <1>4, <1>5

\* Player::incrementReferenceCounter, Game::ReleaseCreature and cleanup: however many
\* connections there are, a player object's counter is the number of the places that
\* have it, so that it is deleted with the last of them and never before.
THEOREM SessionRefsCounted == SessionSpec => []RefsCounted
BY SessionInvariant, SessionImplied, PTL

\* ProtocolGame::login, connect and release: a protocol and its player always know each
\* other, and every variable keeps its type.
THEOREM SessionLinked == SessionSpec => []Linked
BY SessionInvariant, SessionImplied, PTL

\* ProtocolGame::parsePacket on the io thread: the player it asks is there and is kept
\* by somebody, whatever the dispatcher does in the meantime.
THEOREM SessionInputSafe == SessionSpec => []InputSafe
BY SessionInvariant, SessionImplied, PTL

\* OutputMessagePool: no protocol waits for a sending that is not scheduled, and none is
\* served that was closed and is not about to be released.
THEOREM SessionAutosendSound == SessionSpec => []AutosendSound
BY SessionInvariant, SessionImplied, PTL

\* Connection::close: a protocol is released once, after every other task of it.
THEOREM SessionReleasedLast == SessionSpec => []ReleasedLast
BY SessionInvariant, SessionImplied, PTL
=============================================================================
