----------------------------- MODULE Cylinders -----------------------------
(***************************************************************************)
(* Where items are and how they are moved: a player with his inventory,    *)
(* containers in containers, and a tile (player.cpp, container.cpp,        *)
(* tile.cpp: the interface Cylinder), and the operations of game.cpp that  *)
(* add, remove and move items, split and merge stacks and change money.    *)
(* A move asks first (the operators Query...) and then takes the item from *)
(* one cylinder and puts it into another: what is asked and what is done   *)
(* has to agree.                                                           *)
(*                                                                         *)
(* Items of one type are equal (no attributes), can be picked up and moved.*)
(* Left out: the kinds of tiles and containers that treat what they are    *)
(* given in a way of their own (stairs, teleports, mailboxes, trash        *)
(* holders, hangables, the inbox, the view of a tile as a container), the  *)
(* limit of 1000 items on a tile, and scripts that forbid an equipment.    *)
(***************************************************************************)
EXTENDS Integers, Sequences, FiniteSets, FiniteSetsExt, SequencesExt

CONSTANTS
    Thing,          \* the objects of items; those that are nowhere are free
    Type,           \* of each of them: "bag", "rod", or the stacks "coin" and "note"
    Bag, Capacity,  \* the bags among them, and what each takes
    StackMax,       \* MAX_STACKED_ITEMS: also what a note is worth in coins
    Slot, Pack,     \* of the inventory, and the one for the backpack (CONST_SLOT_BACKPACK)
    Fits,           \* Fits[s]: the types that the slot s of the inventory takes
    InitialPlaces,  \* the initial values of `world'
    Me, Floor,      \* the player, and the tile he stands on
    NoThing,
    MaxGifts        \* bound: how often scripts give something

Stack == {"coin", "note"}
Cyl == Bag \cup {Me, Floor}

ASSUME CylinderConstants ==
    /\ Type \in [Thing -> Stack \cup {"bag", "rod"}] /\ StackMax \in Nat \ {0}
    /\ Bag = {i \in Thing : Type[i] = "bag"} /\ Capacity \in [Bag -> Nat \ {0}] /\ 0 \notin Slot /\ MaxGifts \in Nat
    /\ {NoThing, Me, Floor} \cap Thing = {} /\ Me # Floor /\ NoThing \notin {Me, Floor}

VARIABLES
    world,      \* a record: inventory, list, count and parent of the items, weight (of
                \* each bag with what is in it: totalWeight is a cache), traded (what the
                \* player offers in a trade) and, auxiliary, lost (what disappeared)
    given,      \* auxiliary: how much of each sort was given and not taken ...
    gifts       \* ... and how often something was given

itemVars == <<world, given, gifts>>

Worth(type) == IF type = "coin" THEN 1 ELSE IF type = "note" THEN StackMax ELSE 0
Stackable(i) == Type[i] \in Stack
MaxCount(i) == IF Stackable(i) THEN StackMax ELSE 1
SlotsInOrder == SetToSortSeq(Slot, <)

-----------------------------------------------------------------------------
(* Where things are: w is a value of world *)

\* the cylinders around c, and c itself
Around(w, c) ==
    LET up[n \in 0 .. Cardinality(Bag)] ==
            IF n = 0 \/ c \notin Bag THEN {c}
            ELSE LET below == up[n - 1] IN below \cup {w.parent[b] : b \in below \cap Bag}
    IN  up[Cardinality(Bag)]

\* getThingIndex; lists are counted from 0, the inventory from 1
Index(w, c, i) ==
    IF c = Me
    THEN IF \E s \in Slot : w.inventory[s] = i THEN CHOOSE s \in Slot : w.inventory[s] = i ELSE -1
    ELSE IF Contains(w.list[c], i) THEN SelectInSeq(w.list[c], LAMBDA j : j = i) - 1 ELSE -1

At(w, c, index) ==
    IF c = Me
    THEN IF index \in Slot THEN w.inventory[index] ELSE NoThing
    ELSE IF index \in 0 .. Len(w.list[c]) - 1 THEN w.list[c][index + 1] ELSE NoThing

\* getWeight; coins and notes weigh 1 each
Weight(w, i) == IF i \in Bag THEN w.weight[i] ELSE w.count[i]

\* j is of the same kind as i and has room for more
Stacks(w, j, i) == j # NoThing /\ Type[j] = Type[i] /\ w.count[j] < MaxCount(i)

-----------------------------------------------------------------------------
(* Player *)

\* hasCapacity: what he carries already is no burden; `strong' says whether he
\* could carry more.
HasCapacity(w, i, strong) == strong \/ (w.parent[i] # NoThing /\ Me \in Around(w, w.parent[i]))

PlayerQueryAdd(w, index, i, strong) ==
    IF index = 0
    THEN IF HasCapacity(w, i, strong) THEN "ok" ELSE "no"
    ELSE IF index \notin Slot \/ (index \in Slot /\ Type[i] \notin Fits[index])
    THEN "no"
    ELSE LET j == w.inventory[index]
         IN  IF j # NoThing /\ (~Stackable(j) \/ Type[j] # Type[i]) THEN "exchange"
             ELSE IF HasCapacity(w, i, strong) THEN "ok" ELSE "no"

-----------------------------------------------------------------------------
(* Container *)

\* The queries of the containers around it are folded in: they only look for the
\* item itself, and the player at the top for his capacity.
BagQueryAdd(w, b, index, i, nolimit, strong) ==
    IF /\ i \notin Around(w, b)
       /\ nolimit \/ index # -1 \/ Len(w.list[b]) < Capacity[b]
       /\ nolimit \/ Me \notin Around(w, b) \/ HasCapacity(w, i, strong)
    THEN "ok" ELSE "no"

QueryAdd(w, c, index, i, nolimit, strong) ==
    CASE c = Me -> PlayerQueryAdd(w, index, i, strong)
      [] c = Floor -> "ok"
      [] OTHER -> BagQueryAdd(w, c, index, i, nolimit, strong)

BagMaxCount(w, b, index, i, count, nolimit, strong) ==
    LET free == IF Len(w.list[b]) < Capacity[b] THEN Capacity[b] - Len(w.list[b]) ELSE 0
        into == {j \in (IF index = -1 THEN ToSet(w.list[b]) \ {i} ELSE {At(w, b, index)}) :
                    /\ Stacks(w, j, i)
                    /\ BagQueryAdd(w, b, 0, i, nolimit, strong) = "ok"}
    IN  IF nolimit THEN IF count = 0 THEN 1 ELSE count
        ELSE IF Stackable(i)
        THEN free * StackMax + MapThenSumSet(LAMBDA j : StackMax - w.count[j], into)
        ELSE free

\* Deep inside a bag, the bag included.
BagsWithin(w, b) == {c \in Bag : b \in Around(w, c)}

PlayerMaxCount(w, index, i, nolimit, strong) ==
    LET Room(s) ==
            LET j == w.inventory[s]
                fits == PlayerQueryAdd(w, s, i, strong) = "ok"
            IN  CASE j \in Bag -> MapThenSumSet(
                       LAMBDA b : BagMaxCount(w, b, -1, i, w.count[i], nolimit, strong),
                       BagsWithin(w, j))
                  [] j = NoThing -> IF fits THEN MaxCount(i) ELSE 0
                  [] OTHER -> IF Stackable(j) /\ Stacks(w, j, i) /\ fits
                              THEN StackMax - w.count[j] ELSE 0
        j == At(w, Me, index)
    IN  IF index = -1 THEN MapThenSumSet(Room, Slot)
        ELSE IF j # NoThing
        THEN IF Stackable(j) /\ Stacks(w, j, i) THEN StackMax - w.count[j] ELSE 0
        ELSE IF PlayerQueryAdd(w, index, i, strong) = "ok" THEN MaxCount(i) ELSE 0

\* How much of i the cylinder can take; whether that is enough is another matter.
QueryMaxCount(w, c, index, i, count, nolimit, strong) ==
    CASE c = Me -> PlayerMaxCount(w, index, i, nolimit, strong)
      [] c = Floor -> IF count = 0 THEN 1 ELSE count
      [] OTHER -> BagMaxCount(w, c, index, i, count, nolimit, strong)

\* An empty slot is enough for any count, a bag for any rod when it has room.
IsEnough(w, c, index, i, max, count) ==
    CASE c = Me -> \/ max >= count
                   \/ index # -1 /\ At(w, Me, index) = NoThing /\ max > 0
      [] c = Floor -> TRUE
      [] OTHER -> IF Stackable(i) THEN max >= count ELSE max > 0

QueryRemove(w, c, i, count) ==
    /\ Index(w, c, i) # -1
    /\ count # 0 /\ (Stackable(i) => count <= w.count[i])

-----------------------------------------------------------------------------
(* queryDestination: the cylinder to put i into, the index there, and the    *)
(* item that is there already; `stays' ends the search (see Destination)     *)

Dest(c, index, toItem) == [cyl |-> c, index |-> index, toItem |-> toItem, stays |-> FALSE]

\* The first of a sequence of items that i can be stacked with, but for some.
FirstStack(w, list, i, skipped) ==
    SelectInSeq(list, LAMBDA j : j \notin skipped /\ Stacks(w, j, i))

BagDestination(w, b, index0, i, autoStack) ==
    LET parent == w.parent[b]
        index == IF index0 >= Capacity[b] THEN -1 ELSE index0
        j == At(w, b, index)
        k == FirstStack(w, w.list[b], i, {i})
    IN  IF index0 = 254    \* move up
        THEN Dest(IF parent \in Bag THEN parent ELSE b, -1, NoThing)
        ELSE IF j \in Bag THEN Dest(j, -1, NoThing)
        ELSE IF autoStack /\ Stackable(i) /\ w.parent[i] # b /\ k # 0
        THEN Dest(b, k - 1, w.list[b][k])
        ELSE Dest(b, index, j)

\* The player's bags in the order in which they are searched, outer ones first.
BagsOf(w, skipped, skippedWithin) ==
    LET InSlots == SelectSeq(SlotsInOrder, LAMBDA s : w.inventory[s] \in Bag \ skipped)
        Inner(b) == SelectSeq(w.list[b], LAMBDA j : j \in Bag \ skippedWithin)
        search[n \in 0 .. Cardinality(Bag)] ==
            IF n = 0 THEN [k \in DOMAIN InSlots |-> w.inventory[InSlots[k]]]
            ELSE LET bags == search[n - 1]
                 IN  IF n > Len(bags) THEN bags ELSE bags \o Inner(bags[n])
    IN  search[Cardinality(Bag)]

\* The place in one bag: a stack, or an index after the others.  For a stack the
\* indices do not count the item itself and what is traded.
PlaceInBag(w, b, i, autoStack, strong) ==
    LET stack == autoStack /\ Stackable(i)
        Others(list) == Len(SelectSeq(list, LAMBDA j : j \notin {i, w.traded}))
        k == FirstStack(w, w.list[b], i, {i, w.traded})
        size == Len(w.list[b])
        n == IF stack THEN Others(w.list[b]) ELSE size
        fits == BagQueryAdd(w, b, n, i, FALSE, strong) = "ok"
    IN  IF stack /\ k # 0
        THEN {Dest(b, Others(SubSeq(w.list[b], 1, k - 1)), w.list[b][k])}
        \* unsigned: a bag that is more than full has room
        ELSE IF fits /\ (IF stack THEN n < Capacity[b] ELSE size # Capacity[b])
        THEN {Dest(b, n, NoThing)} ELSE {}

\* ... and in one slot of the inventory.
PlaceInSlot(w, s, i, autoStack, strong) ==
    LET j == w.inventory[s]
        ok == PlayerQueryAdd(w, s, i, strong) = "ok"
    IN  IF j = NoThing /\ ok THEN {Dest(Me, s, NoThing)}
        ELSE IF /\ autoStack /\ Stackable(i) /\ ok
                /\ j \notin {i, w.traded} /\ Stacks(w, j, i)
        THEN {Dest(Me, s, j)} ELSE {}

FirstPlace(f) == LET n == SelectInSeq(f, LAMBDA S : S # {})
                 IN  IF n = 0 THEN {} ELSE f[n]

FirstOf(places, others, otherwise) ==
    CASE places # {} -> CHOOSE d \in places : TRUE
      [] places = {} /\ others # {} -> CHOOSE d \in others : TRUE
      [] places = {} /\ others = {} -> otherwise

PlaceInBags(w, bags, i, autoStack, strong) ==
    FirstPlace([n \in DOMAIN bags |-> PlaceInBag(w, bags[n], i, autoStack, strong)])

PlayerDestination(w, index, i, autoStack, strong) ==
    LET skipped == {i, w.traded}
        j == At(w, Me, index)
    IN  IF index \in {0, -1}
        THEN FirstOf(FirstPlace([n \in DOMAIN SlotsInOrder |->
                                    PlaceInSlot(w, SlotsInOrder[n], i, autoStack, strong)]),
                     PlaceInBags(w, BagsOf(w, skipped, IF autoStack /\ Stackable(i) THEN skipped ELSE {}),
                                 i, autoStack, strong),
                     Dest(Me, index, NoThing))
        ELSE IF j \in Bag THEN Dest(j, -1, NoThing) ELSE Dest(Me, index, j)

QueryDestination(w, c, index, i, autoStack, strong) ==
    CASE c = Me -> PlayerDestination(w, index, i, autoStack, strong)
      [] c = Floor -> Dest(Floor, index, At(w, Floor, 0))
      [] OTHER -> BagDestination(w, c, index, i, autoStack)

-----------------------------------------------------------------------------
(* What is done *)

\* updateItemWeight, of the bag and those around it
WeighedBagOnly(w, c, diff) ==
    IF c \in Bag THEN [w EXCEPT !.weight[c] = @ + diff] ELSE w

Weighed(w, c, diff) ==
    LET bags == Around(w, c) \cap Bag
    IN  [w EXCEPT !.weight = [b \in Bag |-> IF b \in bags THEN @[b] + diff ELSE @[b]]]

\* The trade is closed when what is offered, or something in it, is touched.
TradeChecked(w, c, i) ==
    IF w.traded \in {i} \cup (Around(w, c) \cap Bag) THEN [w EXCEPT !.traded = NoThing] ELSE w

\* ... or when something is taken from a bag that holds it, but not directly, or
\* from where a bag lay that holds it.
TradeCheckedOnRemove(w, c, i) ==
    LET holders == IF w.traded = NoThing THEN {} ELSE Around(w, w.parent[w.traded])
    IN  IF \/ c \in Bag /\ \E b \in holders \cap Bag : w.parent[b] = c
           \/ c \notin Bag /\ i \in holders
        THEN [w EXCEPT !.traded = NoThing] ELSE TradeChecked(w, c, i)

UpdateThing(w, c, i, count) ==
    TradeChecked(Weighed([w EXCEPT !.count[i] = count], c, count - w.count[i]), c, i)

TakenFrom(w, c, i) ==
    IF c = Me THEN [w EXCEPT !.parent[i] = NoThing, !.inventory[Index(w, Me, i)] = NoThing]
    ELSE [w EXCEPT !.parent[i] = NoThing, !.list[c] = Remove(@, i)]

RemoveThing(w, c, i, count) ==
    IF Stackable(i) /\ count # w.count[i]
    THEN UpdateThing(w, c, i, w.count[i] - count)
    ELSE TakenFrom(Weighed(TradeCheckedOnRemove(w, c, i), c, -Weight(w, i)), c, i)

\* i and everything in it
Contents(w, i) == {i} \cup {j \in Thing : i \in Around(w, w.parent[j])}

Sort(i) == IF Stackable(i) THEN "money" ELSE Type[i]
Units(w, i) == IF Stackable(i) THEN w.count[i] * Worth(Type[i]) ELSE 1

Amounts(w, things) ==
    [k \in {"money", "rod", "bag"} |->
        MapThenSumSet(LAMBDA i : Units(w, i), {i \in things : Sort(i) = k})]
Plus(f, g) == [k \in DOMAIN f |-> f[k] + g[k]]

\* addThing puts the item in front; an index that is none is refused in silence,
\* and nobody holds the item any more.
CanAdd(c, index) == CASE c = Me -> index \in Slot
                      [] c = Floor -> TRUE
                      [] OTHER -> index < Capacity[c]

\* The slot of an inventory does not ask what it held before: a full stack is
\* overwritten when a script adds to its slot.
Overwritten(w, slot) ==
    LET j == w.inventory[slot]
    IN  IF j = NoThing THEN w
        ELSE [w EXCEPT !.lost = Plus(@, Amounts(w, {j})), !.parent[j] = NoThing]

PutInFront(w, c, i) == [w EXCEPT !.parent[i] = c, !.list[c] = <<i>> \o @]

AddThing(w, c, index, i) ==
    CASE ~CanAdd(c, index) -> [w EXCEPT !.lost = Plus(@, Amounts(w, Contents(w, i)))]
      [] c = Me /\ CanAdd(c, index) ->
             [Overwritten(w, index) EXCEPT !.parent[i] = Me, !.inventory[index] = i]
      [] c = Floor -> PutInFront(w, c, i)
      [] c \in Bag /\ CanAdd(c, index) ->
             TradeChecked(Weighed(PutInFront(w, c, i), c, Weight(w, i)), c, i)

\* What nobody holds: objects that wait to be used, or to be deleted.
Held(w) == {i \in Thing : Around(w, w.parent[i]) \cap {Me, Floor} # {}}

Released(w) ==
    LET here == Held(w)
    IN  [w EXCEPT !.count = [i \in Thing |-> IF i \in here THEN @[i] ELSE 0],
                  !.parent = [i \in Thing |-> IF i \in here THEN @[i] ELSE NoThing],
                  !.weight = [b \in Bag |-> IF b \in here THEN @[b] ELSE 1],
                  !.list = [c \in DOMAIN @ |-> IF c \in Bag \ here THEN <<>> ELSE @[c]]]

MAP_MAX_LAYERS == 16

FreeOf(w, type) == {i \in Thing : Type[i] = type /\ w.parent[i] = NoThing /\ w.count[i] = 0}

\* A new object, made by CreateItem or clone; there has to be a free one.
NewOf(w, type) == CHOOSE j \in FreeOf(w, type) : TRUE

-----------------------------------------------------------------------------
(* Game *)

\* The loop over queryDestination: the search goes on in the cylinder it names,
\* from the second on without the flags, until it stays in one.
FoundIn(from, d) == [d EXCEPT !.stays = from.cyl = d.cyl]

Destination(w, c, index, i, autoStack, strong) ==
    LET found[d \in [cyl : Cyl, index : Int, toItem : Thing \cup {NoThing}, stays : BOOLEAN],
              n \in 0 .. MAP_MAX_LAYERS] ==
            IF d.stays \/ n = MAP_MAX_LAYERS THEN d
            ELSE found[FoundIn(d, QueryDestination(w, d.cyl, d.index, i,
                                                   autoStack \/ n > 0, strong)), n + 1]
    IN  found[Dest(c, index, NoThing), 0]

\* The item in the way is moved to where the new one comes from, if it fits there.
\* A player has no addThing without an index: it does nothing.
Exchanged(w, from, d, i, strong) ==
    LET j == d.toItem
        n == w.count[j]
        HasRoom(max) == max > 0 \/ IsEnough(w, from, -1, j, max, n)
    IN  IF /\ QueryAdd(w, from, Index(w, from, i), j, FALSE, strong) = "ok"
           /\ HasRoom(QueryMaxCount(w, from, -1, j, n, FALSE, strong))
        THEN AddThing(RemoveThing(w, d.cyl, j, n), from, 0, j)
        ELSE w

\* The item, or m of the stack, goes from `from' to d: what does not fit on the
\* stack there is a clone (the object itself is taken again if it was moved whole).
Merged(w, c, j, n) == IF n = 0 THEN w ELSE UpdateThing(w, c, j, w.count[j] + n)

WithRest(w, d, i, rest) ==
    LET new == IF w.parent[i] = NoThing THEN i ELSE NewOf(w, Type[i])
    IN  IF rest = 0 THEN w ELSE AddThing([w EXCEPT !.count[new] = rest], d.cyl, d.index, new)

Moved(w, from, d, i, m) ==
    LET j == d.toItem
        n == IF j = NoThing \/ Type[j] # Type[i] THEN 0 ELSE Min({StackMax - w.count[j], m})
    IN  IF Stackable(i)
        THEN WithRest(Merged(RemoveThing(w, from, i, m), d.cyl, j, n), d, i, m - n)
        ELSE AddThing(RemoveThing(w, from, i, m), d.cyl, d.index, i)

\* Game::internalMoveItem.  What was found room for is moved; an exchange that was
\* made stays, even if the item then cannot follow.
MoveAtMost(w, from, d, i, count, max, strong) ==
    LET m == IF Stackable(i) THEN Min({count, max}) ELSE max
    IN  IF /\ QueryAdd(w, d.cyl, d.index, i, FALSE, strong) = "ok"
           /\ max > 0 \/ IsEnough(w, d.cyl, d.index, i, max, count)
           /\ QueryRemove(w, from, i, m)
        THEN Released(Moved(w, from, d, i, m))
        ELSE w

MoveInto(w, from, d, i, count, strong) ==
    MoveAtMost(w, from, d, i, count,
               QueryMaxCount(w, d.cyl, d.index, i, count, FALSE, strong), strong)

MoveOrExchange(w, from, d, i, count, strong, exchange) ==
    MoveInto(IF exchange THEN Exchanged(w, from, d, i, strong) ELSE w, from,
             IF exchange THEN [d EXCEPT !.toItem = NoThing] ELSE d, i, count, strong)

\* A full stack, or an equal thing, is no place to add to.
MoveTo(w, from, d, i, count, strong) ==
    LET j == d.toItem
        full == j # NoThing /\ Type[j] = Type[i] /\ w.count[j] >= MaxCount(i)
    IN  IF i = j THEN w
        ELSE MoveOrExchange(w, from, [d EXCEPT !.toItem = IF full THEN NoThing ELSE j],
                            i, count, strong,
                            QueryAdd(w, d.cyl, d.index, i, FALSE, strong) = "exchange")

InternalMoveItem(w, from, c, index, i, count, strong) ==
    MoveTo(w, from, Destination(w, c, index, i, TRUE, strong), i, count, strong)

\* One round of Game::internalAddItem: n pieces are merged with the stack at d, or all
\* of i is put there.  `left' is the remainder that the caller is told of: only that of
\* the first merge is passed on, others are deleted.
AddAt(r, d, fits, n) ==
    LET w == r.w
        i == r.i
    IN  CASE ~fits /\ r.round = 0 ->
               [r EXCEPT !.ret = FALSE, !.done = TRUE]
          [] ~fits /\ r.round > 0 ->
               [r EXCEPT !.left = IF r.round = 1 THEN w.count[i] ELSE 0, !.done = TRUE,
                         !.w.lost = Plus(@, Amounts(w, IF r.round = 1 THEN {} ELSE {i})),
                         !.w.count[i] = 0]
          [] fits /\ n = 0 ->
               [r EXCEPT !.w = AddThing(w, d.cyl, d.index, i), !.done = TRUE]
          [] fits /\ n > 0 ->
               [r EXCEPT !.w = [UpdateThing(w, d.cyl, d.toItem, w.count[d.toItem] + n)
                                   EXCEPT !.count[i] = @ - n],
                         !.index = -1, !.round = @ + 1, !.done = (n = w.count[i])]

AddOnce(r, c, nolimit, strong, d) ==
    AddAt(r, d,
          /\ QueryAdd(r.w, d.cyl, d.index, r.i, nolimit, strong) = "ok"
          /\ IsEnough(r.w, c, -1, r.i,
                      QueryMaxCount(r.w, c, -1, r.i, r.w.count[r.i], nolimit, strong),
                      r.w.count[r.i]),
          IF ~Stackable(r.i) \/ d.toItem = NoThing \/ Type[d.toItem] # Type[r.i] THEN 0
          ELSE Min({StackMax - r.w.count[d.toItem], r.w.count[r.i]}))

\* The whole of i has to fit somewhere before it begins; what is left after a merge is
\* added anew.
InternalAddItem(w, c, i, index, nolimit, strong) ==
    LET add[n \in 0 .. Cardinality(Thing) + 1] ==
            IF n = 0
            THEN [w |-> w, i |-> i, index |-> index, round |-> 0, left |-> 0,
                  ret |-> TRUE, done |-> FALSE]
            ELSE LET r == add[n - 1]
                 IN  IF r.done THEN r
                     ELSE AddOnce(r, c, nolimit, strong,
                                  QueryDestination(r.w, c, r.index, r.i, TRUE, strong))
    IN  add[Cardinality(Thing) + 1]

\* What was not added is put on the tile, and a remainder too ...
RestOnTile(r, i, strong) ==
    IF r.left = 0 /\ r.ret THEN r.w
    ELSE InternalAddItem(IF r.left = 0 THEN r.w ELSE [r.w EXCEPT !.count[i] = r.left],
                         Floor, i, -1, TRUE, strong).w

InternalPlayerAddItem(w, i, slot, strong) ==
    RestOnTile(InternalAddItem(w, Me, i, slot, FALSE, strong), i, strong)

\* ... but of money only what could not be added at all: a remainder is forgotten.
MoneyOnTile(r, i, strong) ==
    IF r.ret THEN [r.w EXCEPT !.lost.money = @ + r.left * Worth(Type[i])]
    ELSE InternalAddItem(r.w, Floor, i, -1, TRUE, strong).w

\* In the mutant all of what does not fit is.
AddMoneyItemOrNot(w, type, count, strong) ==
    LET i == NewOf(w, type)
    IN  IF count = 0 THEN w
        ELSE InternalAddItem([w EXCEPT !.count[i] = count], Me, i, -1, FALSE, strong).w

AddMoneyItem(w, type, count, strong) ==
    LET i == NewOf(w, type)
    IN  IF count = 0 THEN w
        ELSE MoneyOnTile(InternalAddItem([w EXCEPT !.count[i] = count], Me, i, -1, FALSE, strong),
                         i, strong)

AddMoney(w, money, strong) ==
    AddMoneyItem(Released(AddMoneyItem(w, "note", money \div StackMax, strong)),
                 "coin", money % StackMax, strong)

InternalRemoveItem(w, i, count) ==
    IF QueryRemove(w, w.parent[i], i, count)
    THEN Released(RemoveThing(w, w.parent[i], i, count)) ELSE w

\* Cheaper pieces first; one that is worth too much is changed, the change added
\* before the piece is taken.
Pieces(w, bags) ==
    LET inSlots == SelectSeq([n \in DOMAIN SlotsInOrder |-> w.inventory[SlotsInOrder[n]]],
                             LAMBDA i : i # NoThing /\ Stackable(i))
        inBags == FlattenSeq([n \in DOMAIN bags |-> SelectSeq(w.list[bags[n]], Stackable)])
    IN  SortSeq(inSlots \o inBags, LAMBDA i, j : Units(w, i) < Units(w, j))

Paid(w, pieces, money, strong) ==
    LET Value(i) == Units(w, i)
        pay[n \in 0 .. Len(pieces)] ==
            IF n = 0 THEN [w |-> w, owed |-> money]
            ELSE LET r == pay[n - 1]
                     i == pieces[n]
                     worth == Worth(Type[i])
                     taken == (r.owed + worth - 1) \div worth
                 IN  CASE r.owed = 0 -> r
                       [] r.owed > 0 /\ Value(i) <= r.owed ->
                            [w |-> InternalRemoveItem(r.w, i, r.w.count[i]), owed |-> r.owed - Value(i)]
                       [] r.owed > 0 /\ Value(i) > r.owed ->
                            [w |-> InternalRemoveItem(
                                       Released(AddMoney(r.w, worth * taken - r.owed, strong)), i, taken),
                             owed |-> 0]
    IN  pay[Len(pieces)].w

RemoveMoney(w, money, strong) == Paid(w, Pieces(w, BagsOf(w, {}, {})), money, strong)

Owned(w, type) == {i \in Thing : Type[i] = type /\ Me \in Around(w, w.parent[i])}
Money(w) == Amounts(w, Owned(w, "coin") \cup Owned(w, "note")).money

\* What the iterator of a bag meets: breadth first.
WithinInOrder(w, b) ==
    LET seen[n \in 0 .. Cardinality(Thing)] ==
            IF n = 0 THEN w.list[b]
            ELSE LET s == seen[n - 1]
                 IN  IF n <= Len(s) /\ s[n] \in Bag THEN s \o w.list[s[n]] ELSE s
    IN  seen[Cardinality(Thing)]

\* Player::removeItemOfType and Game::internalRemoveItems, of stacks
TakenAway(w, items, amount) ==
    LET take[n \in 0 .. Len(items)] ==
            IF n = 0 THEN [w |-> w, amount |-> amount]
            ELSE LET r == take[n - 1]
                     m == Min({r.amount, w.count[items[n]]})
                 IN  [w |-> IF m = 0 THEN r.w ELSE InternalRemoveItem(r.w, items[n], m), amount |-> r.amount - m]
    IN  IF take[Len(items)].amount = 0 THEN take[Len(items)].w ELSE w

RemoveItemOfType(w, type, amount, ignoreEquipped) ==
    LET InSlot(s) ==
            LET i == w.inventory[s]
            IN  IF i = NoThing THEN <<>>
                ELSE IF ~ignoreEquipped /\ Type[i] = type THEN <<i>>
                ELSE IF i \in Bag THEN SelectSeq(WithinInOrder(w, i), LAMBDA j : Type[j] = type)
                ELSE <<>>
    IN  TakenAway(w, FlattenSeq([n \in DOMAIN SlotsInOrder |-> InSlot(SlotsInOrder[n])]), amount)

-----------------------------------------------------------------------------
(* The operations *)

ItemsInit ==
    /\ world \in InitialPlaces
    /\ given = Amounts(world, Held(world))
    /\ gifts = 0

\* What a client can name: what the player has and what lies on the tile.
Reachable == Held(world)

\* Game::playerMoveItem, to the inventory, a bag or the tile
PlayerMoveItem(i, c, index, count, strong) ==
    /\ Stackable(i) /\ count < world.count[i] => FreeOf(world, Type[i]) # {}    \* bound
    /\ world' = InternalMoveItem(world, world.parent[i], c, index, i, count, strong)
    /\ UNCHANGED <<given, gifts>>

\* Game::playerEquipItem.  To take something off it is moved to no particular slot.
Equipped(w, type, slot, within) ==
    LET worn == w.inventory[slot]
        off == /\ worn # NoThing /\ Type[worn] = type
               /\ ~Stackable(worn) \/ w.count[worn] = StackMax \/ within = <<>>
        i == IF off THEN worn ELSE within[1]
    IN  IF ~off /\ within = <<>> THEN w
        ELSE InternalMoveItem(w, w.parent[i], Me, IF off THEN 0 ELSE slot, i, w.count[i], TRUE)

PlayerEquipItem(type, slot) ==
    LET bag == world.inventory[Pack]
    IN  /\ bag \in Bag /\ type \in Fits[slot]
        /\ world' = Equipped(world, type, slot,
                             SelectSeq(WithinInOrder(world, bag), LAMBDA j : Type[j] = type))
        /\ UNCHANGED <<given, gifts>>

Given(kind, units) ==
    /\ gifts < MaxGifts /\ gifts' = gifts + 1
    /\ given' = [given EXCEPT ![kind] = @ + units]

\* Scripts give money or things, and take money or stacks.
GiveMoney(money, strong) ==
    /\ FreeOf(world, "coin") # {} /\ FreeOf(world, "note") # {}    \* bound
    /\ world' = Released(AddMoney(world, money, strong))
    /\ Given("money", money)

GiveItem(type, count, slot, strong) ==
    /\ FreeOf(world, type) # {} /\ (type \notin Stack => count = 1)
    /\ LET i == NewOf(world, type)
           w == [world EXCEPT !.count[i] = count]
       IN  /\ world' = Released(InternalPlayerAddItem(w, i, slot, strong))
           /\ Given(Sort(i), Units(w, i))

TakeMoney(money, strong) ==
    /\ FreeOf(world, "coin") # {} /\ FreeOf(world, "note") # {}    \* bound
    /\ Money(world) >= money
    /\ world' = Released(RemoveMoney(world, money, strong))
    /\ given' = [given EXCEPT !.money = @ - money]
    /\ UNCHANGED gifts

TakeItems(type, amount, ignoreEquipped) ==
    /\ \E u \in {RemoveItemOfType(world, type, amount, ignoreEquipped)} : u # world /\ world' = u
    /\ given' = [given EXCEPT !.money = @ - amount * Worth(type)]
    /\ UNCHANGED gifts

\* What is offered in a trade is passed over when a place is looked for.
OfferItem(i) ==
    /\ world.traded = NoThing
    /\ world' = [world EXCEPT !.traded = i]
    /\ UNCHANGED <<given, gifts>>

CloseTrade ==
    /\ world.traded # NoThing
    /\ world' = [world EXCEPT !.traded = NoThing]
    /\ UNCHANGED <<given, gifts>>

UpIndex == 254
Anywhere == 255

\* The indices that make a difference; what the player carries he can carry.
Indices(c) == CASE c = Me -> {0} \cup Slot
                [] c = Floor -> {0}
                [] OTHER -> 0 .. Capacity[c] - 1 \cup {UpIndex, Anywhere}
Strengths(i) == IF Me \in Around(world, world.parent[i]) THEN {TRUE} ELSE BOOLEAN

ItemsNext ==
    \/ \E i \in Reachable, c \in {Me, Floor} \cup (Bag \cap Reachable) :
       \E index \in Indices(c), count \in 1 .. MaxCount(i), strong \in Strengths(i) :
           PlayerMoveItem(i, c, index, count, strong)
    \/ \E type \in Range(Type), slot \in Slot : PlayerEquipItem(type, slot)
    \/ \E money \in 1 .. StackMax + 1, strong \in BOOLEAN : GiveMoney(money, strong) \/ TakeMoney(money, strong)
    \/ \E type \in Range(Type), slot \in {0} \cup Slot, strong \in BOOLEAN :
           \E count \in 1 .. StackMax : GiveItem(type, count, slot, strong)
    \/ \E type \in Stack, amount \in 1 .. StackMax + 1, ignoreEquipped \in BOOLEAN :
           TakeItems(type, amount, ignoreEquipped)
    \/ \E i \in Reachable : OfferItem(i)
    \/ CloseTrade

-----------------------------------------------------------------------------
(* Properties *)

\* Every item is in one place, the one its parent says, within reach; stacks are
\* neither empty nor too high; the weight that a bag remembers is that of what is
\* in it, however deep - after moves, merges, splits and exchanges, done or given
\* up half-way.
InOnePlace ==
    /\ \A c \in Cyl :
          {i \in Thing : world.parent[i] = c} = IF c = Me THEN ToSet(world.inventory) \ {NoThing}
                                               ELSE ToSet(world.list[c])
    /\ \A c \in Cyl \ {Me} : IsInjective(world.list[c])
    /\ \A s, t \in Slot : s # t /\ world.inventory[s] = world.inventory[t] => world.inventory[s] = NoThing

Stacked ==
    LET here == Held(world)
    IN  \A i \in Thing : IF i \in here THEN world.count[i] \in 1 .. MaxCount(i)
                         ELSE world.parent[i] = NoThing /\ world.count[i] = 0

WeightExact ==
    \A b \in Bag : world.weight[b] = 1 + MapThenSumSet(
        LAMBDA i : IF i \in Bag THEN 1 ELSE world.count[i], Contents(world, b) \ {b})

ItemsPlaced == InOnePlace /\ Stacked /\ WeightExact

\* Nothing appears or disappears, whatever is moved, changed, given and taken, but
\* for what is known to be lost: what addThing refuses in silence although the
\* queries allowed it (an item that is put to no particular slot when there is no
\* room for it, player.cpp:1953), the remainder of an addition that a merge began,
\* when the rest fits only into what is offered in a trade (game.cpp:1320), and a
\* full stack whose slot something is added to (player.cpp:2338).
Conserved == given = Plus(Amounts(world, Held(world)), world.lost)

NothingLost == \A sort \in DOMAIN world.lost : world.lost[sort] = 0
=============================================================================
