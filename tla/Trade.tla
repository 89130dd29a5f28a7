------------------------------- MODULE Trade -------------------------------
(***************************************************************************)
(* The safe trade between two players (src/src/game.cpp and player.cpp):   *)
(* each offers an item, which stays where it is but stands in              *)
(* Game::tradeItems with a reference; anything that happens to it, or to   *)
(* the players, closes the trade; when both have accepted the items are    *)
(* moved, one after the other.                                             *)
(*                                                                         *)
(* An item lies on the ground beside the players, in a box, in a carried   *)
(* container ("bag") or in a slot that takes only its kind ("worn").  A    *)
(* stack the player already has may take an item when no slot is free.     *)
(***************************************************************************)
EXTENDS Naturals, FiniteSets, Functions

CONSTANTS
    Trader,     \* the players
    Item,       \* the items that may be offered
    Box,        \* those that are containers
    BagSize,    \* how many of these items a player's containers can hold
    Stacks,     \* <<player, item>>: the item fits on a stack the player has
    Nobody, NoItem, Ground, Gone

ASSUME TradeConstants == /\ Box \subseteq Item
                         /\ BagSize \in Nat
                         /\ Stacks \subseteq Trader \X Item
                         /\ Nobody \notin Trader /\ NoItem \notin Item
                         /\ IsFiniteSet(Item)

\* An item, a player's containers, the ground and nowhere are different places.
ASSUME PlaceConstants == /\ Item \cap (Trader \X {"bag", "worn"}) = {}
                         /\ {Ground, Gone} \cap (Item \cup (Trader \X {"bag", "worn"})) = {}
                         /\ Ground # Gone

VARIABLES
    trader,     \* per player: tradeState, tradePartner and tradeItem
    tradeItems, \* Game::tradeItems: which player has pledged which item
    place,      \* where each item is
    present     \* the players who are online and stand together

tradeVars == <<trader, tradeItems, place, present>>

Bag(p) == <<p, "bag">>
Worn(p) == <<p, "worn">>
Place == (Trader \X {"bag", "worn"}) \cup {Ground, Gone} \cup Box

NoTrade == [state |-> "NONE", partner |-> Nobody, item |-> NoItem]

TypeOKTrade ==
    /\ trader \in [Trader -> [state : {"NONE", "INITIATED", "ACCEPT", "ACKNOWLEDGE"},
                              partner : Trader \cup {Nobody}, item : Item \cup {NoItem}]]
    /\ tradeItems \subseteq Item \X Trader
    /\ place \in [Item -> Place]
    /\ present \subseteq Trader

\* Everybody has logged in; who owns what is arbitrary, boxes are not nested.
TradeInit ==
    /\ trader = [p \in Trader |-> NoTrade]
    /\ tradeItems = {}
    /\ place \in [Item -> Place \ {Gone}]
    /\ \A b \in Box : place[b] \notin Box
    /\ \A p \in Trader : Cardinality({i \in Item : place[i] = Bag(p)}) <= BagSize
    /\ present = Trader

HasRoom(p, where) == Cardinality({i \in Item : where[i] = Bag(p)}) < BagSize

\* isHoldingItem, in either direction, or the item itself.
Overlap(i, j) == i = j \/ place[i] = j \/ place[j] = i

InReach(p, i) ==
    \/ place[i] \in {Bag(p), Worn(p), Ground}
    \/ place[i] \in Box /\ place[place[i]] \in {Bag(p), Worn(p), Ground}

-----------------------------------------------------------------------------
(* Closing *)

\* Game::internalCloseTrade, for every player in ps: his partner forgets too.
BothSides(ps) == ps \cup {trader[p].partner : p \in ps}

CloseTrades(ps) ==
    /\ trader' = [p \in Trader |-> IF p \in BothSides(ps) THEN NoTrade ELSE trader[p]]
    /\ tradeItems' = {e \in tradeItems : e[2] \notin BothSides(ps)}

\* Player::checkTradeState, and the tests for a container that holds the item,
\* for every player who sees item i taken from, or put to, `to'.
Concerned(i, to) ==
    {p \in Trader : trader[p].item # NoItem /\ (Overlap(i, trader[p].item) \/ to = trader[p].item)}

-----------------------------------------------------------------------------
(* The handlers *)

InternalStartTrade(p, q, i) ==
    /\ \/ trader[p].state = "NONE"
       \/ trader[p].state = "ACKNOWLEDGE" /\ trader[p].partner = q
    /\ trader[q].state = "NONE" \/ trader[q].partner = p
    /\ tradeItems' = tradeItems \cup {<<i, p>>}
    /\ trader' = [trader EXCEPT
            ![p] = [state |-> "INITIATED", partner |-> q, item |-> i],
            ![q] = IF @.state = "NONE"
                   THEN [state |-> "ACKNOWLEDGE", partner |-> p, item |-> @.item]
                   ELSE @]

Pledged(i) == \E e \in tradeItems : Overlap(e[1], i)

\* The scripts that may refuse (onTradeRequest, onTradeAccept) are disabled.
PlayerRequestTrade ==
    \E p, q \in present, i \in Item :
        /\ q # p
        /\ InReach(p, i) /\ ~Pledged(i)
        /\ InternalStartTrade(p, q, i)
        /\ UNCHANGED <<place, present>>

\* The test (internalAddItem) lets an item merge with a stack, the move
\* (FLAG_IGNOREAUTOSTACK) does not; the second move's failure is not looked at.
Fits(p, i) == HasRoom(p, place) \/ <<p, i>> \in Stacks

SwappedUntested(p, q) ==
    LET i == trader[p].item
        j == trader[q].item
        first == IF HasRoom(q, place) THEN [place EXCEPT ![i] = Bag(q)] ELSE place
    IN  IF ~(i # NoItem /\ j # NoItem) THEN place
        ELSE IF HasRoom(p, first) THEN [first EXCEPT ![j] = Bag(p)] ELSE first

\* playerAcceptTrade, when p is the second to accept: p's item moves first.
Swapped(p, q) ==
    LET i == trader[p].item
        j == trader[q].item
        first == [place EXCEPT ![i] = Bag(q)]
    IN  IF ~(i # NoItem /\ j # NoItem) THEN place
        ELSE IF ~(Fits(q, i) /\ Fits(p, j) /\ HasRoom(q, place)) THEN place
        ELSE IF HasRoom(p, first) THEN [first EXCEPT ![j] = Bag(p)] ELSE first

PlayerAcceptTrade ==
    \E p \in present :
        /\ trader[p].state \in {"ACKNOWLEDGE", "INITIATED"}
        /\ trader[p].partner # Nobody
        /\ LET q == trader[p].partner
           IN  IF trader[q].state = "ACCEPT"
               THEN /\ CloseTrades({p})
                    /\ place' = Swapped(p, q)
               ELSE /\ trader' = [trader EXCEPT ![p].state = "ACCEPT"]
                    /\ UNCHANGED <<tradeItems, place>>
        /\ UNCHANGED present

PlayerCloseTrade ==
    \E p \in present : /\ CloseTrades({p})
                       /\ UNCHANGED <<place, present>>

\* Any move of an item by a player, and its decay or use (to = Gone): those
\* whose trade it concerns are notified and their trades are closed.
MoveItem ==
    \E p \in present, i \in Item, to \in Place :
        /\ to \in {Bag(p), Worn(p), Ground, Gone} \cup Box
        /\ place[i] # Gone /\ InReach(p, i) /\ to # place[i]
        /\ to \in Box => i \notin Box /\ InReach(p, to)
        /\ to = Bag(p) => HasRoom(p, place)
        /\ i \in Box /\ to = Gone => \A j \in Item : place[j] # i
        /\ place' = [place EXCEPT ![i] = to]
        /\ CloseTrades(Concerned(i, to))
        /\ UNCHANGED present

\* Player::onCreatureMove: out of range of the partner, or of an item that lies
\* on the ground.
WalkAway ==
    \E p \in present :
        /\ present' = present \ {p}
        /\ CloseTrades(IF trader[p].partner # Nobody THEN {p} ELSE {})
        /\ UNCHANGED place

\* Player::onRemoveCreature does the same for one who logs out (tradePartner is
\* set); both may come back.
ComeBack ==
    \E p \in Trader \ present :
        /\ present' = present \cup {p}
        /\ UNCHANGED <<trader, tradeItems, place>>

TradeNext == \/ PlayerRequestTrade \/ PlayerAcceptTrade \/ PlayerCloseTrade
             \/ MoveItem \/ WalkAway \/ ComeBack

TradeSpec == TradeInit /\ [][TradeNext]_tradeVars

-----------------------------------------------------------------------------
(* Properties *)

\* The table of pledged items says exactly what the players have on offer, each
\* item (with what is in it) is offered once and exists; an entry left behind
\* would keep its item from every later trade and leak a reference.
LedgerExact ==
    /\ tradeItems = {<<trader[p].item, p>> : p \in {q \in Trader : trader[q].item # NoItem}}
    /\ \A d, e \in tradeItems : d # e => ~Overlap(d[1], e[1])
    /\ \A e \in tradeItems : place[e[1]] # Gone

\* Two who trade name each other and are both there: no pointer to a player who
\* has left, and nobody waits for a partner who trades with somebody else.
TradersLinked ==
    \A p \in Trader :
        LET t == trader[p]
        IN  /\ (t.partner = Nobody) <=> (t.state = "NONE")
            /\ t.partner # Nobody => /\ trader[t.partner].partner = p
                                     /\ {p, t.partner} \subseteq present
            /\ t.state \in {"NONE", "ACKNOWLEDGE"} => t.item = NoItem

\* Trades stay consistent while items are moved, used and given away and players
\* walk off, log out or start other trades.
TradeSound == TypeOKTrade /\ LedgerExact /\ TradersLinked

\* Nobody gives an item out of his containers without the one he was offered: the
\* room his item leaves is enough for the other.  (Of an item that was worn or lay
\* on the ground this is not true: see Swapped.)
GivenAndTaken ==
    \A p, q \in Trader, i \in Item :
        p # q /\ place[i] = Bag(p) /\ place'[i] = Bag(q) =>
            /\ trader[p].item = i /\ trader[q].item # NoItem
            /\ place'[trader[q].item] = Bag(p)

\* What is in a box on offer does not change while the offer stands: what was shown
\* is what is given.
ShownIsGiven ==
    \A p \in Trader, b \in Box :
        trader[p].item = b /\ trader'[p].item = b =>
            \A i \in Item : (place[i] = b) <=> (place'[i] = b)

\* Trades are sound at all times, and no step of one is unfair.
TradeFair == []TradeSound /\ [][GivenAndTaken /\ ShownIsGiven]_tradeVars
=============================================================================
