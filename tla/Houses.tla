------------------------------- MODULE Houses -------------------------------
(***************************************************************************)
(* Houses and beds (house.cpp, housetile.cpp, bed.cpp, with the scripts    *)
(* buyhouse, leavehouse and sellhouse of src/data): who owns a house, who  *)
(* is on its lists, who is in it and who sleeps there; what the database   *)
(* knows of it, and what a restart makes of that.                          *)
(*                                                                         *)
(* An owner is written to the database at once; lists, warnings and beds   *)
(* only when the map is saved.  A sleeper is kicked from the server by an  *)
(* event, and wakes when he logs in.                                       *)
(*                                                                         *)
(* Left out: doors with lists of their own (they kick nobody), guilds and  *)
(* patterns on lists, players who may edit every house, the items that go  *)
(* to the owner's inbox.  A bed is used by those who are in its house, and *)
(* not twice before the event that kicks the sleeper (timeBetweenActions   *)
(* is longer than SCHEDULER_MINTICKS).                                     *)
(***************************************************************************)
EXTENDS Naturals

CONSTANTS
    House, Person,
    Premium,        \* those who have a premium account
    HalfBed,        \* the two items of each bed
    NextBedItem,    \* the other half
    HouseOf,        \* of each half
    Texts,          \* the sets of names that somebody writes on a list
    RentWarnings,   \* 7
    NoOne,          \* owner 0, sleeperGUID 0
    NoSale,
    Street,         \* any place that is no house; the entry is one
    MaxTenancies,   \* bound: how often a house loses its owner
    MaxRestarts     \* bound

ASSUME HouseConstants ==
    /\ NoOne \notin Person /\ Street \notin House
    /\ HouseOf \in [HalfBed -> House]
    /\ NextBedItem \in [HalfBed -> HalfBed]
    /\ \A b \in HalfBed : NextBedItem[NextBedItem[b]] = b /\ HouseOf[NextBedItem[b]] = HouseOf[b]
    /\ Premium \subseteq Person /\ RentWarnings \in Nat
    /\ Texts \in [{"guests", "subowners"} -> SUBSET SUBSET Person]

VARIABLES
    estate,     \* of each house: owner, guests, subowners, warnings and, auxiliary, term:
                \* since which tenancy the lists and warnings have been kept
    at,         \* where each player is, or was when he left (loginPosition)
    inWorld,    \* the players online
    sale,       \* the transfer item of each house, in the trade that offers it
    sleeper,    \* of each half of a bed
    bedOf,      \* Game::bedSleepersMap
    kicks,      \* those for whom Game::kickPlayer is scheduled
    saved,      \* what the last save wrote of estate and sleeper
    tenancy,    \* auxiliary: how often each house has lost its owner ...
    letters,    \* ... and how many warnings the present one was sent
    restarts

houseVars == <<estate, at, inWorld, sale, sleeper, bedOf, kicks, saved, tenancy, letters, restarts>>

Unowned(term) == [owner |-> NoOne, guests |-> {}, subowners |-> {}, warnings |-> 0, term |-> term]

Estate == [owner : Person \cup {NoOne}, guests : SUBSET Person, subowners : SUBSET Person,
           warnings : Nat, term : Nat]
Sleepers == [HalfBed -> Person \cup {NoOne}]

TypeOKHouses ==
    /\ estate \in [House -> Estate] /\ at \in [Person -> House \cup {Street}]
    /\ inWorld \subseteq Person /\ kicks \subseteq Person
    /\ sale \in [House -> [seller : Person, buyer : Person] \cup {NoSale}]
    /\ sleeper \in Sleepers
    /\ DOMAIN bedOf \subseteq Person /\ bedOf \in [DOMAIN bedOf -> HalfBed]
    /\ saved \in [estate : [House -> Estate], sleeper : Sleepers]
    /\ tenancy \in [House -> Nat] /\ letters \in [House -> Nat] /\ restarts \in Nat

\* What is written, but for the owner, who always is (see Loaded).
Snapshot == [estate |-> [h \in House |-> [estate[h] EXCEPT !.owner = NoOne]], sleeper |-> sleeper]

HousesInit ==
    /\ estate = [h \in House |-> Unowned(0)]
    /\ at = [p \in Person |-> Street]
    /\ inWorld = Person
    /\ sale = [h \in House |-> NoSale]
    /\ sleeper = [b \in HalfBed |-> NoOne]
    /\ bedOf = [p \in {} |-> NoOne]
    /\ kicks = {}
    /\ saved = Snapshot
    /\ tenancy = [h \in House |-> 0]
    /\ letters = [h \in House |-> 0]
    /\ restarts = 0

\* What the handlers change step by step.
Household == [estate |-> estate, at |-> at, sleeper |-> sleeper, bedOf |-> bedOf]

SetHousehold(w) == estate' = w.estate /\ at' = w.at /\ sleeper' = w.sleeper /\ bedOf' = w.bedOf

-----------------------------------------------------------------------------
(* Access *)

GetHouseAccessLevel(w, h, p) ==
    CASE p = w.estate[h].owner -> 3
      [] p # w.estate[h].owner /\ p \in w.estate[h].subowners -> 2
      [] p \in w.estate[h].guests \ (w.estate[h].subowners \cup {w.estate[h].owner}) -> 1
      [] OTHER -> 0

IsInvited(w, h, p) == GetHouseAccessLevel(w, h, p) # 0

\* House::kickPlayer, for everybody in S who is in the house
Kicked(w, h, S) ==
    [w EXCEPT !.at = [p \in Person |-> IF p \in S \cap inWorld /\ @[p] = h THEN Street ELSE @[p]]]

SetAccessList(w, h, list, text) ==
    LET v == [w EXCEPT !.estate[h][list] = text]
    IN  Kicked(v, h, {p \in Person : ~IsInvited(v, h, p)})

CanEditAccessList(h, list, p) ==
    LET level == GetHouseAccessLevel(Household, h, p)
    IN  level = 3 \/ (level = 2 /\ list = "guests")

-----------------------------------------------------------------------------
(* Beds *)

\* BedItem::wakeUp: the bed and the other half
WokenUp(w, b) ==
    LET p == w.sleeper[b]
    IN  [w EXCEPT !.sleeper = [c \in HalfBed |-> IF c \in {b, NextBedItem[b]} THEN NoOne ELSE @[c]],
                  !.bedOf = [q \in DOMAIN @ \ {p} |-> @[q]]]

\* All beds of these houses, one after the other: who sleeps in any of them is woken.
AllWoken(w, houses) ==
    LET here == {b \in HalfBed : HouseOf[b] \in houses}
        asleep == {w.sleeper[b] : b \in here}
    IN  [w EXCEPT !.sleeper = [b \in HalfBed |-> IF b \in here THEN NoOne ELSE @[b]],
                  !.bedOf = [q \in DOMAIN @ \ asleep |-> @[q]]]

\* House::setOwner.  Lists and warnings are cleaned when there was an owner.
SetOwnerQuietly(w, h, p) ==
    IF w.estate[h].owner \in {NoOne, p} THEN [w EXCEPT !.estate[h].owner = p]
    ELSE [AllWoken(w, {h}) EXCEPT !.estate[h] = [Unowned(tenancy[h] + 1) EXCEPT !.owner = p]]

SetOwner(w, h, p) ==
    IF w.estate[h].owner \in {NoOne, p} THEN [w EXCEPT !.estate[h].owner = p]
    ELSE [AllWoken(Kicked(w, h, Person), {h}) EXCEPT
             !.estate[h] = [Unowned(tenancy[h] + 1) EXCEPT !.owner = p]]

\* The auxiliary variables; sent: the warnings that each owner has had now.
NewTenancies(estates, sent) ==
    LET changed == {h \in House : estates[h].owner # estate[h].owner}
        lost == {h \in changed : estate[h].owner # NoOne}
    IN  /\ \A h \in lost : tenancy[h] < MaxTenancies
        /\ tenancy' = [h \in House |-> IF h \in lost THEN tenancy[h] + 1 ELSE tenancy[h]]
        /\ letters' = [h \in House |-> IF h \in changed THEN 0 ELSE sent[h]]

ChangeHands(h, p) ==
    LET w == SetOwner(Household, h, p) IN SetHousehold(w) /\ NewTenancies(w.estate, letters)

-----------------------------------------------------------------------------
(* Players come and go *)

\* A trade ends when one of the two is too far away: it may, when one is moved.
SalesAfter(moved, near) ==
    [h \in House |-> IF sale[h] # NoSale /\ ~near /\ {sale[h].seller, sale[h].buyer} \cap moved # {}
                     THEN NoSale ELSE sale[h]]

SalesMayEnd(moved) == \E near \in BOOLEAN : sale' = SalesAfter(moved, near)
HouseMoves == {p \in Person : at'[p] # at[p]}

\* HouseTile::queryAdd
Enter(p, h) ==
    /\ p \in inWorld /\ at[p] # h /\ IsInvited(Household, h, p)
    /\ at' = [at EXCEPT ![p] = h]
    /\ SalesMayEnd({p})
    /\ UNCHANGED <<estate, inWorld, sleeper, bedOf, kicks, saved, tenancy, letters, restarts>>

StepOut(p) ==
    /\ p \in inWorld /\ at[p] # Street
    /\ at' = [at EXCEPT ![p] = Street]
    /\ SalesMayEnd({p})
    /\ UNCHANGED <<estate, inWorld, sleeper, bedOf, kicks, saved, tenancy, letters, restarts>>

Leaves(p) ==
    /\ inWorld' = inWorld \ {p}
    /\ kicks' = kicks \ {p}
    /\ sale' = [h \in House |-> IF sale[h] # NoSale /\ p \in {sale[h].seller, sale[h].buyer}
                                THEN NoSale ELSE sale[h]]
    /\ UNCHANGED <<estate, at, sleeper, bedOf, saved, tenancy, letters, restarts>>

LogOut(p) == p \in inWorld /\ Leaves(p)

KickPlayer(p) == p \in kicks /\ Leaves(p)

\* HouseTile::queryDestination sends who is not invited to the entry.
LogIn(p) ==
    /\ p \notin inWorld
    /\ inWorld' = inWorld \cup {p}
    /\ LET h == at[p]
           w == IF p \in DOMAIN bedOf THEN WokenUp(Household, bedOf[p]) ELSE Household
       IN  SetHousehold([w EXCEPT !.at[p] = IF h # Street /\ ~IsInvited(w, h, p) THEN Street ELSE h])
    /\ UNCHANGED <<sale, kicks, saved, tenancy, letters, restarts>>

-----------------------------------------------------------------------------
(* Owners *)

Owners == {estate[h].owner : h \in House}

\* !buyhouse
BuyHouse(p, h) ==
    /\ p \in inWorld \cap Premium /\ estate[h].owner = NoOne /\ p \notin Owners
    /\ ChangeHands(h, p)
    /\ UNCHANGED <<inWorld, sale, kicks, saved, restarts>>

\* !leavehouse: a sale that was begun goes on, if the partner stands near the entry.
LeaveHouse(p, h) ==
    /\ p \in inWorld /\ at[p] = h /\ estate[h].owner = p
    /\ ChangeHands(h, NoOne)
    /\ SalesMayEnd(HouseMoves)
    /\ UNCHANGED <<inWorld, kicks, saved, restarts>>

PlayerUpdateHouseWindow(p, h, list, text) ==
    /\ p \in inWorld /\ CanEditAccessList(h, list, p)
    /\ SetHousehold(SetAccessList(Household, h, list, text))
    /\ SalesMayEnd(HouseMoves)
    /\ UNCHANGED <<inWorld, kicks, saved, tenancy, letters, restarts>>

Trading(p) == \E h \in House : sale[h] # NoSale /\ p \in {sale[h].seller, sale[h].buyer}

\* !sellhouse, House::startTrade
StartTrade(p, q, h) ==
    /\ p # q /\ {p, q} \subseteq inWorld /\ at[p] = h
    /\ estate[h].owner = p /\ q \notin Owners
    /\ sale[h] = NoSale /\ ~Trading(p) /\ ~Trading(q)
    /\ sale' = [sale EXCEPT ![h] = [seller |-> p, buyer |-> q]]
    /\ UNCHANGED <<estate, at, inWorld, sleeper, bedOf, kicks, saved, tenancy, letters, restarts>>

\* onTradeEvent(ON_TRADE_TRANSFER), whoever owns the house by now.  Of those who are
\* kicked out others may lose their trades.
ExecuteTransfer(h) ==
    /\ sale[h] # NoSale
    /\ ChangeHands(h, sale[h].buyer)
    /\ \E near \in BOOLEAN : sale' = [SalesAfter(HouseMoves, near) EXCEPT ![h] = NoSale]
    /\ UNCHANGED <<inWorld, kicks, saved, restarts>>

\* The trade is closed, or the items cannot be moved.
ResetTransferItem(h) ==
    /\ sale[h] # NoSale
    /\ sale' = [sale EXCEPT ![h] = NoSale]
    /\ UNCHANGED <<estate, at, inWorld, sleeper, bedOf, kicks, saved, tenancy, letters, restarts>>

-----------------------------------------------------------------------------
(* Sleep *)

\* BedItem::canUse; the sleeper is loaded from the database to ask for his level.
CanUse(p, b) ==
    LET h == HouseOf[b]
    IN  p \in Premium /\
        \/ sleeper[b] = NoOne
        \/ GetHouseAccessLevel(Household, h, p) = 3
        \/ GetHouseAccessLevel(Household, h, sleeper[b]) <= GetHouseAccessLevel(Household, h, p)

\* BedItem::sleep
Sleep(p, b) ==
    /\ p \in inWorld \ kicks /\ at[p] = HouseOf[b]
    /\ CanUse(p, b) /\ sleeper[b] = NoOne
    /\ sleeper' = [c \in HalfBed |-> IF c \in {b, NextBedItem[b]} THEN p ELSE sleeper[c]]
    /\ bedOf' = [q \in DOMAIN bedOf \cup {p} |-> IF q = p THEN b ELSE bedOf[q]]
    /\ kicks' = kicks \cup {p}
    /\ UNCHANGED <<estate, at, inWorld, sale, saved, tenancy, letters, restarts>>

\* BedItem::trySleep: the owner wakes who sleeps in his bed.
TrySleep(p, b) ==
    /\ p \in inWorld \ kicks /\ at[p] = HouseOf[b]
    /\ CanUse(p, b) /\ sleeper[b] # NoOne /\ estate[HouseOf[b]].owner = p
    /\ SetHousehold(WokenUp(Household, b))
    /\ UNCHANGED <<inWorld, sale, kicks, saved, tenancy, letters, restarts>>

-----------------------------------------------------------------------------
(* Saving, stopping and starting *)

\* Map::save
Save ==
    /\ restarts < MaxRestarts    \* bound: nothing reads a later one
    /\ saved' = Snapshot
    /\ UNCHANGED <<estate, at, inWorld, sale, sleeper, bedOf, kicks, tenancy, letters, restarts>>

\* Map::loadMap: lists, warnings and beds as they were saved, the owner as it is.
Loaded(s) ==
    [estate  |-> [h \in House |-> [s.estate[h] EXCEPT !.owner = estate[h].owner]],
     at      |-> at,
     sleeper |-> s.sleeper,
     bedOf   |-> [p \in {s.sleeper[b] : b \in HalfBed} \ {NoOne} |->
                     CHOOSE b \in HalfBed : s.sleeper[b] = p]]

\* A warning to the owners who owe rent; some lose their houses, in which nobody is as yet.
Collected(w, owed, forfeited) ==
    [AllWoken(w, forfeited) EXCEPT
        !.estate = [h \in House |->
            IF h \in forfeited THEN Unowned(tenancy[h] + 1)
            ELSE IF h \in owed THEN [w.estate[h] EXCEPT !.warnings = @ + 1] ELSE w.estate[h]]]

\* The last warning is due to be the eviction.
PayHousesEarly(w, poor) ==
    LET owed == {h \in poor : w.estate[h].owner # NoOne}
    IN  Collected(w, owed, {h \in owed : w.estate[h].warnings + 1 >= RentWarnings})

\* Houses::payHouses: of the houses whose rent is due, those whose owner cannot pay.
\* (One who pays keeps the warnings he has had.)
PayHouses(w, poor) ==
    LET owed == {h \in poor : w.estate[h].owner # NoOne}
    IN  Collected(w, owed, {h \in owed : w.estate[h].warnings >= RentWarnings})

\* An orderly end has just saved everything; after a crash the last save counts, of
\* the positions of those who were online too.
Restart(poor, orderly, where) ==
    LET w == Loaded(IF orderly THEN Snapshot ELSE saved)
        v == PayHouses(w, poor)
    IN  /\ restarts < MaxRestarts /\ restarts' = restarts + 1
        /\ \A p \in Person : p \notin inWorld \/ orderly => where[p] = at[p]
        /\ SetHousehold([v EXCEPT !.at = where])
        /\ inWorld' = {} /\ kicks' = {} /\ sale' = [h \in House |-> NoSale]
        /\ saved' = IF orderly THEN Snapshot ELSE saved
        /\ NewTenancies(v.estate, [h \in House |->
               letters[h] + IF v.estate[h].warnings > w.estate[h].warnings THEN 1 ELSE 0])

HousesNext ==
    \/ \E p \in Person :
          \/ StepOut(p) \/ LogOut(p) \/ KickPlayer(p) \/ LogIn(p)
          \/ \E b \in HalfBed : Sleep(p, b) \/ TrySleep(p, b)
          \/ \E h \in House :
                \/ Enter(p, h) \/ BuyHouse(p, h) \/ LeaveHouse(p, h)
                \/ \E q \in Person : StartTrade(p, q, h)
                \/ \E list \in DOMAIN Texts : \E text \in Texts[list] :
                      PlayerUpdateHouseWindow(p, h, list, text)
    \/ \E h \in House : ExecuteTransfer(h) \/ ResetTransferItem(h)
    \/ Save
    \/ \E poor \in SUBSET House, orderly \in BOOLEAN, where \in [Person -> House \cup {Street}] :
          Restart(poor, orderly, where)

HousesSpec == HousesInit /\ [][HousesNext]_houseVars

-----------------------------------------------------------------------------
(* Properties *)

\* The lists and warnings were made for another owner: see Loaded.
Inherited(estates, h) == estates[h].term # tenancy[h]

\* Nobody who is not invited is in a house, although lists are rewritten while people
\* are in it, log out there and come back, and although the lists of a former owner
\* return after a crash.
OnlyInvited ==
    \A p \in inWorld : at[p] # Street => IsInvited(Household, at[p], p)

\* A bed and its other half name the same sleeper, whom the map of sleepers leads to
\* one of them: he wakes when he logs in, and nobody who stays online is asleep.
SleepersKnown ==
    /\ \A b \in HalfBed : sleeper[b] # NoOne =>
          /\ sleeper[NextBedItem[b]] = sleeper[b]
          /\ sleeper[b] \in DOMAIN bedOf /\ bedOf[sleeper[b]] \in {b, NextBedItem[b]}
    /\ \A p \in DOMAIN bedOf : sleeper[bedOf[p]] = p /\ (p \in inWorld => p \in kicks)

\* Lists and warnings go with their owner - but for a crash before the next save: the
\* new owner alone was written at once (house.cpp:48).
ListsOfOwner ==
    \A h \in House :
        \/ Inherited(estate, h)
        \/ /\ letters[h] >= estate[h].warnings
           /\ estate[h].owner = NoOne => estate[h].guests = {} /\ estate[h].subowners = {}

\* So the three agree, whatever was saved when.
HousesSound == TypeOKHouses /\ OnlyInvited /\ SleepersKnown /\ ListsOfOwner

\* A house leaves its owner by his own act, or for rent after all the letters he was
\* due - unless a sale is open that a former owner began (house.cpp:386 does not ask
\* who owns the house), or the warnings are inherited.
GivenUp(h) ==
    LET p == estate[h].owner
    IN  \/ estate'[h].owner = NoOne /\ at[p] = h /\ restarts' = restarts
        \/ sale[h] # NoSale /\ estate'[h].owner = sale[h].buyer
        \/ /\ restarts' # restarts
           /\ \/ letters[h] >= RentWarnings
              \/ Inherited(estate, h) \/ Inherited(saved.estate, h)

NotTakenAway ==
    \A h \in House : estate[h].owner # NoOne /\ estate'[h].owner # estate[h].owner => GivenUp(h)

HousesKept == [][NotTakenAway]_houseVars
=============================================================================
