----------------------------- MODULE WaitingList -----------------------------
(***************************************************************************)
(* The login queue of a full server (waitlist.h, waitlist.cpp), as         *)
(* ProtocolGame::login uses it: a client that is refused is told to try    *)
(* again, and keeps its place in line as long as it does so in time.       *)
(* Premium clients have a list of their own, which goes first. Everything  *)
(* here runs on the dispatcher.                                            *)
(***************************************************************************)
EXTENDS Naturals, Sequences, FiniteSets

CONSTANTS
  Client,       \* the characters, by GUID
  Premium,      \* those with a premium account
  Privileged,   \* those with CanAlwaysLogin, or a gamemaster account
  MaxPlayers,   \* ConfigManager::MAX_PLAYERS (0: no limit)
  Pauses,       \* bound: how much time, in seconds, may pass at once
  MaxTime,      \* bound: the clock stops here
  Drift         \* bound: see Enqueue

ASSUME WaitAssumption ==
  /\ IsFiniteSet(Client)
  /\ Premium \subseteq Client /\ Privileged \subseteq Client
  /\ MaxPlayers \in Nat /\ MaxTime \in Nat /\ Drift \in Nat
  /\ Pauses \subseteq Nat \ {0}

VARIABLES
  now,                \* OTSYS_TIME
  online,             \* Game::players
  priorityWaitList,   \* Wait entries, [playerGUID, timeout]
  waitList

waitVars == <<now, online, priorityWaitList, waitList>>

WaitInit ==
  /\ now = 0
  /\ online = {}
  /\ priorityWaitList = <<>>
  /\ waitList = <<>>

-----------------------------------------------------------------------------

GetTime(slot) ==
  CASE slot < 5  -> 5
    [] slot < 10 -> 10
    [] slot < 20 -> 20
    [] slot < 50 -> 60
    [] OTHER     -> 120

Timeout(slot) == GetTime(slot) + 15

\* The list without the nodes that are erased: those in i stay.
Kept(list, i) ==
  LET kept[n \in 0..Len(list)] == IF n = 0 THEN <<>>
                                  ELSE IF n \in i THEN Append(kept[n - 1], list[n])
                                  ELSE kept[n - 1]
  IN kept[Len(list)]

\* Wait::timeout is a std::size_t, so timeout - time is unsigned and <= 0 in the
\* very millisecond of the timeout only. The mutant leaves out the 15 seconds.
CleanedEager(list) == Kept(list, {i \in DOMAIN list : list[i].timeout > now + 15})
Cleaned(list) == Kept(list, {i \in DOMAIN list : list[i].timeout # now})

Guids(list) == [i \in DOMAIN list |-> list[i].playerGUID]
Waiting(list) == {list[i].playerGUID : i \in DOMAIN list}

\* findClient: the slot of c in the two lists one after the other.
Slot(first, second, c) ==
  CHOOSE i \in 1..(Len(first) + Len(second)) : (first \o second)[i].playerGUID = c

Without(list, c) == Kept(list, {i \in DOMAIN list : list[i].playerGUID # c})

Entry(c, slot) == [playerGUID |-> c, timeout |-> now + Timeout(slot)]

Later(list, c, slot) ==
  [i \in DOMAIN list |-> IF list[i].playerGUID = c THEN Entry(c, slot) ELSE list[i]]

-----------------------------------------------------------------------------
(* WaitingList::clientLogin, and what ProtocolGame::login does then.        *)

\* loadPlayerById or placeCreature may still fail.
Place(c) == online' \in {online, online \cup {c}}

\* Mutant of Unlimited: a newcomer may take a free place whoever waits.
UnlimitedByPlaces(c) ==
  \/ c \in Privileged
  \/ MaxPlayers = 0
  \/ /\ c \notin Waiting(priorityWaitList) \cup Waiting(waitList)
     /\ Cardinality(online) < MaxPlayers

Unlimited(c) ==
  \/ c \in Privileged
  \/ MaxPlayers = 0
  \/ priorityWaitList = <<>> /\ waitList = <<>> /\ Cardinality(online) < MaxPlayers

Free(slot) == Cardinality(online) + slot <= MaxPlayers

LoginAtOnce(c) ==
  /\ Unlimited(c)
  /\ Place(c)
  /\ UNCHANGED <<priorityWaitList, waitList>>

\* The entry is erased through waitList whichever list it is in. The node goes
\* from the list it is in.
LoginFromQueue(c, first, second) ==
  /\ Free(Slot(first, second, c))
  /\ Place(c)
  /\ priorityWaitList' = Without(first, c)
  /\ waitList' = Without(second, c)

WaitLonger(c, first, second) ==
  LET slot == Slot(first, second, c) IN
  /\ ~Free(slot)
  /\ priorityWaitList' = Later(first, c, slot)
  /\ waitList' = Later(second, c, slot)
  /\ UNCHANGED online

\* An entry of priorityWaitList that was erased through waitList still counts in
\* priorityWaitList.size(), and is missing in waitList.size(): a premium client
\* is given the time of a later slot.
Enqueue(c, first, second) ==
  /\ \/ /\ c \in Premium
        /\ \E d \in 0..Drift : priorityWaitList' = Append(first, Entry(c, Len(first) + 1 + d))
        /\ waitList' = second
     \/ /\ c \notin Premium
        /\ priorityWaitList' = first
        /\ waitList' = Append(second, Entry(c, Len(first) + Len(second) + 1))
  /\ UNCHANGED online

Login(c) ==
  /\ c \notin online
  /\ \/ LoginAtOnce(c)
     \/ /\ ~Unlimited(c)
        /\ LET first == Cleaned(priorityWaitList)
               second == Cleaned(waitList)
           IN IF c \in Waiting(first) \cup Waiting(second)
              THEN LoginFromQueue(c, first, second) \/ WaitLonger(c, first, second)
              ELSE Enqueue(c, first, second)
  /\ UNCHANGED now

\* Game::removePlayer
Logout(c) ==
  /\ c \in online
  /\ online' = online \ {c}
  /\ UNCHANGED <<now, priorityWaitList, waitList>>

Pass ==
  /\ \E p \in Pauses : now + p <= MaxTime /\ now' = now + p
  /\ UNCHANGED <<online, priorityWaitList, waitList>>

WaitNext == Pass \/ \E c \in Client : Login(c) \/ Logout(c)

WaitSpec == WaitInit /\ [][WaitNext]_waitVars

-----------------------------------------------------------------------------
(* Properties                                                               *)

line == Guids(priorityWaitList) \o Guids(waitList)

\* A character stands in line once, also when its account became premium or
\* timed out in between, and not while it is online.
OnceInLine ==
  /\ \A i, j \in DOMAIN line : line[i] = line[j] => i = j
  /\ \A i \in DOMAIN line : line[i] \notin online

Ahead(c) == {a \in Waiting(priorityWaitList) \cup Waiting(waitList) :
               \E i, j \in DOMAIN line : line[i] = a /\ line[j] = c /\ i < j}

RoomForThoseBefore ==
  \A c \in online' \ online : c \notin Privileged /\ MaxPlayers # 0 =>
    LET before == IF c \in Waiting(priorityWaitList) \cup Waiting(waitList)
                  THEN Ahead(c) ELSE Waiting(priorityWaitList) \cup Waiting(waitList)
        still == before \cap (Waiting(priorityWaitList') \cup Waiting(waitList'))
    IN Cardinality(online') + Cardinality(still) <= MaxPlayers

\* The line holds nobody twice, and whoever comes online, unless he is privileged,
\* leaves a place to everybody who was before him in line and is still there.
PlacesKept == []OnceInLine /\ [][RoomForThoseBefore]_waitVars

BeforeIn(list, a, b) ==
  \E i, j \in DOMAIN list : i < j /\ list[i].playerGUID = a /\ list[j].playerGUID = b

InTime(list, a) ==
  \E i \in DOMAIN list : list[i].playerGUID = a /\ list[i].timeout > now

StandsOn(list, next, a) ==
  /\ \A b \in Client : BeforeIn(list, a, b) => ~BeforeIn(next, b, a)
  /\ \/ a \in Waiting(next)
     \/ LET before == {b \in Ahead(a) : InTime(priorityWaitList \o waitList, b)}
        IN Cardinality(online) + Cardinality(before) < MaxPlayers

InTimeStays ==
  /\ \A a \in Client : InTime(priorityWaitList, a) => StandsOn(priorityWaitList, priorityWaitList', a)
  /\ \A a \in Client : InTime(waitList, a) => StandsOn(waitList, waitList', a)

\* Who is in line and whose time is not over is never put behind somebody who
\* stood behind him, and leaves the line only when there is a place for him and
\* for those before him.
PlaceKept == [][InTimeStays]_waitVars

\* waitlist.cpp:60, "timeout is set to 15 seconds longer than expected retry
\* attempt": once the line is looked at, nobody is in it whose time was over.
ExpiredLeave ==
  [][<<priorityWaitList, waitList>>' # <<priorityWaitList, waitList>> =>
       \A list \in {priorityWaitList', waitList'} :
         \A i \in DOMAIN list : list[i].timeout > now]_waitVars
=============================================================================
