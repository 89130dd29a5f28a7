------------------------------- MODULE Market -------------------------------
(***************************************************************************)
(* The market (game.cpp, iomarket.cpp): offers to buy or to sell, which    *)
(* players make, cancel and accept in parts, and which expire.  What an    *)
(* offer promises is taken from its owner when it is made and lies in the  *)
(* row of the table market_offers.  The handlers run on the dispatcher and *)
(* use the database directly; the expiry check sends its query to the      *)
(* database thread and settles the rows it found in a later task.          *)
(*                                                                         *)
(* There is one kind of ware.  An owner who is offline is loaded and saved *)
(* within the same task, so whether he is online makes no difference here; *)
(* that loading him fails is left out.                                     *)
(***************************************************************************)
EXTENDS Naturals, Sequences, FiniteSets, Functions

CONSTANTS
    Trafficker, \* the players who use the market
    Amounts, Prices,
    Fee,        \* of one offer (the fee's dependence on the price is left out)
    MaxOffers,  \* maxMarketOffersAtATimePerPlayer
    Funds,      \* what each player has to begin with, in money and in wares
    LastOffer, LastCheck    \* bounds: offers and expiry checks of a behaviour

ASSUME MarketConstants == /\ Amounts \subseteq Nat \ {0} /\ Prices \subseteq Nat \ {0}
                          /\ {Fee, MaxOffers, Funds, LastOffer, LastCheck} \subseteq Nat
                          /\ IsFiniteSet(Trafficker)

VARIABLES
    offers,     \* market_offers: id |-> row
    nextId,     \* its AUTO_INCREMENT
    bankBalance, wares,     \* wares: in a player's depot and inbox
    inMarket,   \* the players who have it open
    checks,     \* expiry queries in the database thread, by the newest id they take
    found,      \* results whose callback has not run
    checkCount

marketVars == <<offers, nextId, bankBalance, wares, inMarket, checks, found, checkCount>>

Row == [owner : Trafficker, sale : BOOLEAN, amount : Nat \ {0}, price : Prices]
IsTable(t) == DOMAIN t \subseteq 1 .. LastOffer /\ \A o \in DOMAIN t : t[o] \in Row

TypeOKMarket ==
    /\ IsTable(offers) /\ nextId \in 1 .. LastOffer + 1
    /\ bankBalance \in [Trafficker -> Nat]
    /\ wares \in [Trafficker -> Nat]
    /\ inMarket \subseteq Trafficker
    /\ checks \in Seq(1 .. LastOffer)
    /\ \A n \in DOMAIN found : IsTable(found[n])
    /\ checkCount \in 0 .. LastCheck

MarketInit ==
    /\ offers = <<>> /\ nextId = 1
    /\ bankBalance = [p \in Trafficker |-> Funds]
    /\ wares = [p \in Trafficker |-> Funds]
    /\ inMarket = {}
    /\ checks = <<>> /\ found = <<>> /\ checkCount = 0

DeleteOffer(id) == offers' = Restrict(offers, DOMAIN offers \ {id})

\* What the offers of a table promise: the wares of those to sell, the money of the others.
Amount(t) == [o \in DOMAIN t |-> t[o].amount]
Worth(t) == [o \in DOMAIN t |-> t[o].price * t[o].amount]
ForSale(t) == {o \in DOMAIN t : t[o].sale}
WaresPromised(t) == SumFunctionOnSet(Amount(t), ForSale(t))
MoneyPromised(t) == SumFunctionOnSet(Worth(t), DOMAIN t \ ForSale(t))

-----------------------------------------------------------------------------
(* The handlers; all of them demand an open market *)

MarketEnterOrLeave ==
    \E p \in Trafficker :
        /\ inMarket' = IF p \in inMarket THEN inMarket \ {p} ELSE inMarket \cup {p}
        /\ UNCHANGED <<offers, nextId, bankBalance, wares, checks, found, checkCount>>

PlayerCreateMarketOffer ==
    \E p \in inMarket, sale \in BOOLEAN, amount \in Amounts, price \in Prices :
        LET cost == IF sale THEN Fee ELSE price * amount + Fee
        IN  /\ nextId <= LastOffer
            /\ MaxOffers # 0 => Cardinality({o \in DOMAIN offers : offers[o].owner = p}) < MaxOffers
            /\ cost <= bankBalance[p]
            /\ sale => amount <= wares[p]
            /\ bankBalance' = [bankBalance EXCEPT ![p] = @ - cost]
            /\ wares' = [wares EXCEPT ![p] = IF sale THEN @ - amount ELSE @]
            /\ offers' = [o \in DOMAIN offers \cup {nextId} |->
                   IF o = nextId
                   THEN [owner |-> p, sale |-> sale, amount |-> amount, price |-> price]
                   ELSE offers[o]]
            /\ nextId' = nextId + 1
            /\ UNCHANGED <<inMarket, checks, found, checkCount>>

PlayerCancelMarketOffer ==
    \E id \in DOMAIN offers :
        LET row == offers[id]
        IN  /\ row.owner \in inMarket
            /\ IF row.sale
               THEN /\ wares' = [wares EXCEPT ![row.owner] = @ + row.amount]
                    /\ UNCHANGED bankBalance
               ELSE /\ bankBalance' = [bankBalance EXCEPT ![row.owner] = @ + row.price * row.amount]
                    /\ UNCHANGED wares
            /\ DeleteOffer(id)
            /\ UNCHANGED <<nextId, inMarket, checks, found, checkCount>>

\* Own offers may be accepted too.
PlayerAcceptMarketOffer ==
    \E p \in inMarket, id \in DOMAIN offers, amount \in Amounts :
        LET row == offers[id]
            totalPrice == row.price * amount
            \* each gets after what each gives
            Pass(f, from, to, n) == [[f EXCEPT ![from] = @ - n] EXCEPT ![to] = @ + n]
        IN  /\ amount <= row.amount
            /\ IF row.sale
               THEN /\ totalPrice <= bankBalance[p]
                    /\ bankBalance' = Pass(bankBalance, p, row.owner, totalPrice)
                    /\ wares' = [wares EXCEPT ![p] = @ + amount]
               ELSE /\ amount <= wares[p]
                    /\ wares' = Pass(wares, p, row.owner, amount)
                    /\ bankBalance' = [bankBalance EXCEPT ![p] = @ + totalPrice]
            /\ IF amount = row.amount
               THEN DeleteOffer(id)
               ELSE offers' = [offers EXCEPT ![id].amount = @ - amount]
            /\ UNCHANGED <<nextId, inMarket, checks, found, checkCount>>

-----------------------------------------------------------------------------
(* Expiry *)

\* The date in the query takes the offers up to some age; it is fixed when the
\* query is written.
CheckExpiredOffers ==
    /\ checkCount < LastCheck
    /\ checkCount' = checkCount + 1
    /\ \E newest \in DOMAIN offers : checks' = Append(checks, newest)
    /\ UNCHANGED <<offers, nextId, bankBalance, wares, inMarket, found>>

\* The database thread runs the query and hands the rows to the dispatcher.
RunCheck ==
    /\ checks # <<>>
    /\ checks' = Tail(checks)
    /\ found' = Append(found, Restrict(offers, {o \in DOMAIN offers : o <= Head(checks)}))
    /\ UNCHANGED <<offers, nextId, bankBalance, wares, inMarket, checkCount>>

\* moveOfferToHistory, for the rows that are still there ...
MovedUnchecked(rows) == DOMAIN rows

Moved(rows) == DOMAIN rows \cap DOMAIN offers

\* ... and what they promise is given back, with the amounts of the result.
ProcessExpiredOffers ==
    /\ found # <<>>
    /\ LET rows == Head(found)
           Of(p) == {o \in Moved(rows) : rows[o].owner = p}
       IN  /\ offers' = Restrict(offers, DOMAIN offers \ Moved(rows))
           /\ wares' = [p \in Trafficker |->
                  wares[p] + SumFunctionOnSet(Amount(rows), Of(p) \cap ForSale(rows))]
           /\ bankBalance' = [p \in Trafficker |->
                  bankBalance[p] + SumFunctionOnSet(Worth(rows), Of(p) \ ForSale(rows))]
    /\ found' = Tail(found)
    /\ UNCHANGED <<nextId, inMarket, checks, checkCount>>

MarketNext == \/ MarketEnterOrLeave \/ PlayerCreateMarketOffer \/ PlayerCancelMarketOffer
              \/ PlayerAcceptMarketOffer \/ CheckExpiredOffers \/ RunCheck
              \/ ProcessExpiredOffers

MarketSpec == MarketInit /\ [][MarketNext]_marketVars

-----------------------------------------------------------------------------
(* Properties *)

Goods == SumFunctionOnSet(wares, Trafficker) + WaresPromised(offers)
Money == SumFunctionOnSet(bankBalance, Trafficker) + MoneyPromised(offers)

\* The result to be processed has a row of which a part was sold since.
StaleAmount == /\ found # <<>>
               /\ \E o \in DOMAIN Head(found) \cap DOMAIN offers :
                     Head(found)[o].amount # offers[o].amount

\* Whatever is accepted, cancelled or found expired while the query and its
\* result are under way, wares and money neither appear nor vanish (but for the
\* fee): an offer is settled once.  The one case in which the code does not keep
\* this is excepted: processExpiredOffers returns the amount that the query saw,
\* also when a part of it has been accepted meanwhile.
Conserving ==
    \/ Goods' = Goods /\ Money' = Money - (IF nextId' # nextId THEN Fee ELSE 0)
    \/ StaleAmount /\ found' = Tail(found)

MarketConserves == [][Conserving]_marketVars
=============================================================================
