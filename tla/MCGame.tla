------------------------------- MODULE MCGame -------------------------------
\* The parts of the game that share no variable, on small instances: a behaviour
\* follows one of them, `part', while the others stay at an initial state.
EXTENDS Trade, Party, Market, Trainers, Population, Decay, Houses, Chat, TLC

CONSTANTS lila, tom, ana, house, b1, b2

VARIABLE part

vars == <<part, tradeVars, partyVars, marketVars, trainerVars,
          popVars, decayVars, houseVars, chatVars>>

\* One of the items fits on a stack of one of the traders.
MCStacks == {<<CHOOSE p \in Trader : TRUE, CHOOSE i \in Item \ Box : TRUE>>}

\* A torch that burns down in two stages, and a ring that stops when it is taken
\* off; the times are such that each way to choose a bucket is taken.
MCKind ==
    [lit     |-> [time |-> 16, stop |-> FALSE, to |-> "burning"],
     burning |-> [time |-> 8,  stop |-> FALSE, to |-> "unlit"],
     unlit   |-> [time |-> 0,  stop |-> FALSE, to |-> "never"],
     worn    |-> [time |-> 8,  stop |-> FALSE, to |-> "away"],
     ring    |-> [time |-> 0,  stop |-> TRUE,  to |-> "never"]]

\* A house with one bed, and a list on which one name is written and struck out.
MCNextBedItem == b1 :> b2 @@ b2 :> b1
MCHouseOf == [b \in {b1, b2} |-> house]
MCTexts == [guests |-> {{}, {tom}}, subowners |-> {}]

\* Lila and ana both have premium accounts, and no text names them.
HouseSymmetry == Permutations({lila, ana})

\* Only the part that is followed begins with all its initial states.
Init ==
    /\ part \in {"trade", "party", "market", "trainers",
                 "population", "decay", "houses", "chat"}
    /\ TradeInit /\ (part # "trade" => \A i \in Item : place[i] = Ground)
    /\ PopInit /\ (part # "population" => spawnedMap = {})
    /\ PartyInit /\ MarketInit /\ TrainersInit /\ DecayInit /\ HousesInit /\ ChatInit

Next ==
    /\ UNCHANGED part
    /\ \/ /\ part = "trade" /\ TradeNext
          /\ UNCHANGED <<partyVars, marketVars, trainerVars, popVars, decayVars,
                         houseVars, chatVars>>
       \/ /\ part = "party" /\ PartyNext
          /\ UNCHANGED <<tradeVars, marketVars, trainerVars, popVars, decayVars,
                         houseVars, chatVars>>
       \/ /\ part = "market" /\ MarketNext
          /\ UNCHANGED <<tradeVars, partyVars, trainerVars, popVars, decayVars,
                         houseVars, chatVars>>
       \/ /\ part = "trainers" /\ TrainersNext
          /\ UNCHANGED <<tradeVars, partyVars, marketVars, popVars, decayVars,
                         houseVars, chatVars>>
       \/ /\ part = "population" /\ PopNext
          /\ UNCHANGED <<tradeVars, partyVars, marketVars, trainerVars, decayVars,
                         houseVars, chatVars>>
       \/ /\ part = "decay" /\ DecayNext
          /\ UNCHANGED <<tradeVars, partyVars, marketVars, trainerVars, popVars,
                         houseVars, chatVars>>
       \/ /\ part = "houses" /\ HousesNext
          /\ UNCHANGED <<tradeVars, partyVars, marketVars, trainerVars, popVars,
                         decayVars, chatVars>>
       \/ /\ part = "chat" /\ ChatNext
          /\ UNCHANGED <<tradeVars, partyVars, marketVars, trainerVars, popVars,
                         decayVars, houseVars>>

Spec == Init /\ [][Next]_vars
=============================================================================
