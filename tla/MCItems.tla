------------------------------ MODULE MCItems ------------------------------
\* Items on small instances: a bag in a bag and money, as the cylinders move them;
\* and a bag with a coin, as they are saved and loaded.  The two share no
\* variable: a behaviour follows one of them, `part'.
EXTENDS Cylinders, Persistence

CONSTANTS backpack, pouch, c1, c2, n1

VARIABLE part

vars == <<part, itemVars, dbVars>>

MCType == [i \in Thing |-> IF i \in {backpack, pouch} THEN "bag" ELSE IF i = n1 THEN "note" ELSE "coin"]
MCCapacity == backpack :> 2 @@ pouch :> 1
MCFits == <<{"bag"}, {"coin", "note", "bag"}>>

Nowhere ==
    [inventory |-> <<NoThing, NoThing>>,
     list   |-> Floor :> <<>> @@ backpack :> <<>> @@ pouch :> <<>>,
     count  |-> [i \in Thing |-> 0],
     parent |-> [i \in Thing |-> NoThing],
     weight |-> backpack :> 1 @@ pouch :> 1,
     traded |-> NoThing,
     lost   |-> [money |-> 0, rod |-> 0, bag |-> 0]]

\* The pouch with a coin in the backpack that is worn; or the empty pouch, worn, and
\* a full stack in the other slot; or nothing at all.
MCPlaces ==
    {[Nowhere EXCEPT !.inventory = <<backpack, NoThing>>,
                     !.list[backpack] = <<pouch>>, !.list[pouch] = <<c1>>,
                     !.count[backpack] = 1, !.count[pouch] = 1, !.count[c1] = 1,
                     !.parent[backpack] = Me, !.parent[pouch] = backpack, !.parent[c1] = pouch,
                     !.weight[backpack] = 3, !.weight[pouch] = 2],
     [Nowhere EXCEPT !.inventory = <<pouch, c1>>,
                     !.count[pouch] = 1, !.count[c1] = 2,
                     !.parent[pouch] = Me, !.parent[c1] = Me],
     Nowhere}

\* Coins are alike: which of the free ones NewOf takes makes no difference.
CoinSymmetry == Permutations({c1, c2})

\* Bound: an item that was lost ends the behaviour.
NothingLostYet == NothingLost

\* No item moves where a character is saved.
Init ==
    /\ part \in {"cylinders", "persistence"} /\ ItemsInit /\ PersistenceInit
    /\ part = "persistence" <=> world = Nowhere

Next ==
    /\ UNCHANGED part
    /\ \/ part = "cylinders" /\ ItemsNext /\ UNCHANGED dbVars
       \/ part = "persistence" /\ PersistenceNext /\ UNCHANGED itemVars

Spec == Init /\ [][Next]_vars
=============================================================================
