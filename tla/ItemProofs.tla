----------------------------- MODULE ItemProofs -----------------------------
(***************************************************************************)
(* Theorems about what items are worth and how long they last.             *)
(*                                                                         *)
(* Market: what the players have in money and wares, in their hands and in *)
(* the offers of the market, stays what it was.  The proof follows the     *)
(* code: one lemma for each handler, from what it does to the table of the *)
(* offers and to the purses of those concerned.                            *)
(*                                                                         *)
(* Decay: the wheel of the items that decay.  The lemmas about the steps   *)
(* of one item come first, then one visit of its entry (VisitMidway), a    *)
(* whole check, the cleanup, and the handlers.                             *)
(***************************************************************************)
EXTENDS Market, Decay, FoldProofs, TLAPS

-----------------------------------------------------------------------------
(* Market: the table of offers *)

\* The tables of offers, and of results.
Tables == UNION {[S -> Row] : S \in SUBSET (1 .. LastOffer)}

\* An offer never changes but for its amount, and its id is not used again.
SameDeal(r, s) == r.owner = s.owner /\ r.sale = s.sale /\ r.price = s.price

MarketTyped ==
    /\ offers \in Tables /\ found \in Seq(Tables) /\ nextId \in Nat \ {0}
    /\ bankBalance \in [Trafficker -> Nat] /\ wares \in [Trafficker -> Nat]
    /\ inMarket \subseteq Trafficker

DealsKept ==
    /\ \A o \in DOMAIN offers : o < nextId
    /\ \A n \in DOMAIN found : \A o \in DOMAIN found[n] :
           o < nextId /\ (o \in DOMAIN offers => SameDeal(found[n][o], offers[o]))

MarketInv == MarketTyped /\ DealsKept

\* The figures of a table.
LEMMA OfTable ==
    ASSUME NEW t \in Tables
    PROVE  /\ IsFiniteSet(DOMAIN t) /\ DOMAIN t \subseteq 1 .. LastOffer /\ t \in [DOMAIN t -> Row]
           /\ DOMAIN Amount(t) = DOMAIN t /\ DOMAIN Worth(t) = DOMAIN t
           /\ \A o \in DOMAIN t :
                  /\ t[o].owner \in Trafficker /\ t[o].sale \in BOOLEAN /\ t[o].price \in Nat
                  /\ t[o].amount \in Nat \ {0}
                  /\ Amount(t)[o] = t[o].amount /\ Amount(t)[o] \in Nat
                  /\ Worth(t)[o] = t[o].price * t[o].amount /\ Worth(t)[o] \in Nat
<1>1. PICK S \in SUBSET (1 .. LastOffer) : t \in [S -> Row]
  BY DEF Tables
<1>2. DOMAIN t = S
  BY <1>1
<1>3. IsFiniteSet(1 .. LastOffer)
  <2>1. LastOffer \in Int /\ 1 \in Int
    BY MarketConstants
  <2> QED BY <2>1, FS_Interval
<1>4. IsFiniteSet(DOMAIN t)
  BY <1>2, <1>3, FS_Subset
<1>5. ASSUME NEW o \in DOMAIN t
      PROVE  /\ t[o].owner \in Trafficker /\ t[o].sale \in BOOLEAN /\ t[o].price \in Nat
             /\ t[o].amount \in Nat \ {0} /\ t[o].price * t[o].amount \in Nat
  <2>1. t[o] \in Row
    BY <1>1, <1>2
  <2>2. /\ t[o].owner \in Trafficker /\ t[o].sale \in BOOLEAN /\ t[o].price \in Nat
        /\ t[o].amount \in Nat \ {0}
    BY <2>1, MarketConstants DEF Row
  <2>3. \A a, b \in Nat : a * b \in Nat
    OBVIOUS
  <2> QED BY <2>2, <2>3
<1> QED BY <1>1, <1>2, <1>4, <1>5 DEF Amount, Worth

\* u is what is left of t without M.
LeftOf(t, M, u) == M \subseteq DOMAIN t /\ u = Restrict(t, DOMAIN t \ M)

\* Rows of some ids make a table.
LEMMA SomeTable ==
    ASSUME NEW S \in SUBSET (1 .. LastOffer), NEW t \in [S -> Row]
    PROVE  t \in Tables
  BY DEF Tables

\* When offers are taken out of a table, what it promised is what the rest promises and
\* what those did.
LEMMA TableSplit ==
    ASSUME NEW t \in Tables, NEW M, NEW u, LeftOf(t, M, u)
    PROVE  /\ u \in Tables /\ DOMAIN u = DOMAIN t \ M /\ \A o \in DOMAIN u : u[o] = t[o]
           /\ WaresPromised(t) = WaresPromised(u) + SumFunctionOnSet(Amount(t), M \cap ForSale(t))
           /\ MoneyPromised(t) = MoneyPromised(u) + SumFunctionOnSet(Worth(t), M \ ForSale(t))
           /\ WaresPromised(u) \in Nat /\ MoneyPromised(u) \in Nat
           /\ SumFunctionOnSet(Amount(t), M \cap ForSale(t)) \in Nat
           /\ SumFunctionOnSet(Worth(t), M \ ForSale(t)) \in Nat
<1>1. /\ IsFiniteSet(DOMAIN t) /\ DOMAIN t \subseteq 1 .. LastOffer /\ t \in [DOMAIN t -> Row]
      /\ \A o \in DOMAIN t :
             /\ Amount(t)[o] = t[o].amount /\ Amount(t)[o] \in Nat
             /\ Worth(t)[o] = t[o].price * t[o].amount /\ Worth(t)[o] \in Nat
  BY OfTable
<1>2. /\ DOMAIN u = DOMAIN t \ M /\ (\A o \in DOMAIN u : u[o] = t[o])
      /\ u \in [DOMAIN t \ M -> Row]
  BY <1>1 DEF Restrict, LeftOf
<1>3. u \in Tables
  BY <1>1, <1>2, SomeTable
<1>4. \A o \in DOMAIN u : Amount(u)[o] = Amount(t)[o] /\ Worth(u)[o] = Worth(t)[o]
  BY <1>2 DEF Amount, Worth
<1>5. M \subseteq DOMAIN t /\ ForSale(t) \subseteq DOMAIN t /\ ForSale(u) = ForSale(t) \ M
  BY <1>2 DEF ForSale, LeftOf
<1>6. ASSUME NEW K \in SUBSET DOMAIN t, NEW f, NEW g, \A o \in DOMAIN t : f[o] \in Nat,
             \A o \in DOMAIN u : g[o] = f[o]
      PROVE  /\ SumFunctionOnSet(f, K) = SumFunctionOnSet(g, K \ M) + SumFunctionOnSet(f, M \cap K)
             /\ SumFunctionOnSet(g, K \ M) \in Nat /\ SumFunctionOnSet(f, M \cap K) \in Nat
  <2>1. K = (K \ M) \cup (M \cap K)
    OBVIOUS
  <2>2. /\ IsFiniteSet(DOMAIN t) /\ \A o \in DOMAIN t : f[o] \in Nat
        /\ K \ M \in SUBSET DOMAIN t /\ M \cap K \in SUBSET DOMAIN t
        /\ (K \ M) \cap (M \cap K) = {}
    BY <1>1, <1>6
  <2>3. SumFunctionOnSet(f, (K \ M) \cup (M \cap K))
          = SumFunctionOnSet(f, K \ M) + SumFunctionOnSet(f, M \cap K)
    BY ONLY <2>2, SumApart
  <2>4. SumFunctionOnSet(f, K \ M) \in Nat /\ SumFunctionOnSet(f, M \cap K) \in Nat
    BY ONLY <2>2, SumWithout
  <2>5. SumFunctionOnSet(f, K \ M) = SumFunctionOnSet(g, K \ M)
    <3>1. \A o \in K \ M : f[o] \in Nat /\ g[o] = f[o]
      BY <1>2, <1>6
    <3>2. IsFiniteSet(K \ M)
      BY <2>2, FS_Subset
    <3> QED BY ONLY <3>1, <3>2, SumAgrees
  <2> QED BY <2>1, <2>3, <2>4, <2>5
<1>7. /\ WaresPromised(t) = WaresPromised(u) + SumFunctionOnSet(Amount(t), M \cap ForSale(t))
      /\ WaresPromised(u) \in Nat /\ SumFunctionOnSet(Amount(t), M \cap ForSale(t)) \in Nat
  BY <1>1, <1>4, <1>5, <1>6 DEF WaresPromised
<1>8. /\ MoneyPromised(t) = MoneyPromised(u) + SumFunctionOnSet(Worth(t), M \ ForSale(t))
      /\ MoneyPromised(u) \in Nat /\ SumFunctionOnSet(Worth(t), M \ ForSale(t)) \in Nat
  <2> DEFINE K == DOMAIN t \ ForSale(t)
  <2>1. /\ K \in SUBSET DOMAIN t /\ K \ M = DOMAIN u \ ForSale(u) /\ M \cap K = M \ ForSale(t)
    BY <1>2, <1>5
  <2> HIDE DEF K
  <2>2. /\ SumFunctionOnSet(Worth(t), K)
             = SumFunctionOnSet(Worth(u), K \ M) + SumFunctionOnSet(Worth(t), M \cap K)
        /\ SumFunctionOnSet(Worth(u), K \ M) \in Nat /\ SumFunctionOnSet(Worth(t), M \cap K) \in Nat
    BY <1>1, <1>4, <1>6, <2>1
  <2> QED BY <2>1, <2>2 DEF MoneyPromised, K
<1> QED BY <1>2, <1>3, <1>7, <1>8

\* The same of one offer.
WaresOf(r) == IF r.sale THEN r.amount ELSE 0
MoneyOf(r) == IF r.sale THEN 0 ELSE r.price * r.amount

LEMMA TableWithoutOne ==
    ASSUME NEW t \in Tables, NEW id \in DOMAIN t, NEW u, LeftOf(t, {id}, u)
    PROVE  /\ u \in Tables /\ DOMAIN u = DOMAIN t \ {id} /\ \A o \in DOMAIN u : u[o] = t[o]
           /\ WaresPromised(t) = WaresPromised(u) + WaresOf(t[id])
           /\ MoneyPromised(t) = MoneyPromised(u) + MoneyOf(t[id])
           /\ WaresPromised(u) \in Nat /\ MoneyPromised(u) \in Nat
<1> DEFINE M == {id}
<1>1. /\ IsFiniteSet(DOMAIN t)
      /\ \A o \in DOMAIN t :
             /\ Amount(t)[o] = t[o].amount /\ Amount(t)[o] \in Nat
             /\ Worth(t)[o] = t[o].price * t[o].amount /\ Worth(t)[o] \in Nat
  BY OfTable
<1>2. ASSUME NEW f, f[id] \in Nat
      PROVE  SumFunctionOnSet(f, {id}) = f[id]
  <2>1. {} \in SUBSET {id} /\ id \in {id} \ {} /\ \A x \in {id} : f[x] \in Nat
    BY <1>2
  <2>2. IsFiniteSet({id})
    BY FS_Singleton
  <2>3. SumFunctionOnSet(f, {} \cup {id}) = f[id] + SumFunctionOnSet(f, {})
    BY ONLY <2>1, <2>2, SumWith
  <2>4. {} \cup {id} = {id}
    OBVIOUS
  <2> QED BY <1>2, <2>3, <2>4, SumOfNothing
<1>3. M \cap ForSale(t) = (IF t[id].sale THEN {id} ELSE {}) /\ M \ ForSale(t) = (IF t[id].sale THEN {} ELSE {id})
  BY DEF ForSale
<1>4. /\ SumFunctionOnSet(Amount(t), M \cap ForSale(t)) = WaresOf(t[id])
      /\ SumFunctionOnSet(Worth(t), M \ ForSale(t)) = MoneyOf(t[id])
  <2> HIDE DEF M
  <2>1. /\ SumFunctionOnSet(Amount(t), {id}) = t[id].amount
        /\ SumFunctionOnSet(Worth(t), {id}) = t[id].price * t[id].amount
    BY <1>1, <1>2
  <2> QED BY <1>3, <2>1, SumOfNothing DEF WaresOf, MoneyOf
<1>5. LeftOf(t, M, u)
  OBVIOUS
<1> HIDE DEF M
<1>6. /\ u \in Tables /\ DOMAIN u = DOMAIN t \ M /\ \A o \in DOMAIN u : u[o] = t[o]
      /\ WaresPromised(t) = WaresPromised(u) + SumFunctionOnSet(Amount(t), M \cap ForSale(t))
      /\ MoneyPromised(t) = MoneyPromised(u) + SumFunctionOnSet(Worth(t), M \ ForSale(t))
      /\ WaresPromised(u) \in Nat /\ MoneyPromised(u) \in Nat
  BY ONLY t \in Tables, <1>5, TableSplit
<1> QED BY <1>4, <1>6 DEF M

\* The same of a part of one offer.
LessOf(t, id, n, u) == u = [t EXCEPT ![id].amount = @ - n]

LEMMA TableWithLess ==
    ASSUME NEW t \in Tables, NEW id \in DOMAIN t, NEW n \in Nat \ {0}, n < t[id].amount,
           NEW u, LessOf(t, id, n, u)
    PROVE  /\ u \in Tables /\ DOMAIN u = DOMAIN t /\ \A o \in DOMAIN t : SameDeal(t[o], u[o])
           /\ WaresPromised(t) = WaresPromised(u) + (IF t[id].sale THEN n ELSE 0)
           /\ MoneyPromised(t) = MoneyPromised(u) + (IF t[id].sale THEN 0 ELSE t[id].price * n)
           /\ WaresPromised(u) \in Nat /\ MoneyPromised(u) \in Nat
<1> DEFINE rest == Restrict(t, DOMAIN t \ {id})
           left == t[id].amount - n
<1>1. /\ t \in [DOMAIN t -> Row] /\ DOMAIN t \in SUBSET (1 .. LastOffer) /\ t[id] \in Row
      /\ t[id].sale \in BOOLEAN /\ t[id].price \in Nat /\ t[id].amount \in Nat \ {0}
  BY OfTable
<1>2. left \in Nat \ {0} /\ t[id].amount = left + n
  BY <1>1
<1>3. u = [t EXCEPT ![id] = [t[id] EXCEPT !.amount = left]]
  BY DEF LessOf
<1> HIDE DEF left
<1>4. [t[id] EXCEPT !.amount = left] \in Row
  BY ONLY <1>1, <1>2 DEF Row
<1>5. /\ u \in [DOMAIN t -> Row] /\ DOMAIN u = DOMAIN t
      /\ u[id] = [t[id] EXCEPT !.amount = left]
      /\ \A o \in DOMAIN t \ {id} : u[o] = t[o]
  BY ONLY <1>1, <1>3, <1>4, id \in DOMAIN t
<1>6. u[id].amount = left /\ u[id].price = t[id].price /\ u[id].sale = t[id].sale /\ SameDeal(t[id], u[id])
  BY ONLY <1>1, <1>5 DEF Row, SameDeal
<1>7. u \in Tables
  BY ONLY <1>1, <1>5, SomeTable
<1>8. LeftOf(t, {id}, rest) /\ LeftOf(u, {id}, rest) /\ id \in DOMAIN u
  <2>1. rest = Restrict(u, DOMAIN u \ {id})
    BY <1>5 DEF Restrict
  <2> QED BY <1>5, <2>1 DEF LeftOf
<1> HIDE DEF rest
<1>9. /\ WaresPromised(t) = WaresPromised(rest) + WaresOf(t[id])
      /\ MoneyPromised(t) = MoneyPromised(rest) + MoneyOf(t[id])
      /\ WaresPromised(rest) \in Nat /\ MoneyPromised(rest) \in Nat
  BY ONLY t \in Tables, id \in DOMAIN t, <1>8, TableWithoutOne
<1>10. /\ WaresPromised(u) = WaresPromised(rest) + WaresOf(u[id])
       /\ MoneyPromised(u) = MoneyPromised(rest) + MoneyOf(u[id])
  BY ONLY <1>7, <1>8, TableWithoutOne
<1>11. /\ t[id].price * left \in Nat /\ t[id].price * n \in Nat
       /\ t[id].price * t[id].amount = t[id].price * left + t[id].price * n
  <2>1. \A i, j, k \in Nat : i * j \in Nat /\ i * k \in Nat /\ i * (j + k) = i * j + i * k
    OBVIOUS
  <2>2. t[id].price \in Nat /\ left \in Nat /\ n \in Nat
    BY <1>1, <1>2
  <2> QED BY ONLY <1>2, <2>1, <2>2
<1>12. \A o \in DOMAIN t : SameDeal(t[o], u[o])
  BY <1>5, <1>6 DEF SameDeal
<1>13. CASE t[id].sale
  BY ONLY <1>2, <1>5, <1>6, <1>7, <1>9, <1>10, <1>12, <1>13, n \in Nat \ {0} DEF WaresOf, MoneyOf
<1>14. CASE ~t[id].sale
  BY ONLY <1>5, <1>6, <1>7, <1>9, <1>10, <1>11, <1>12, <1>14 DEF WaresOf, MoneyOf
<1> QED BY ONLY <1>13, <1>14

\* What p has becomes v, and g is what they have then.
Becomes(f, p, v, g) == g = [f EXCEPT ![p] = v]

LEMMA PurseChanged ==
    ASSUME NEW f \in [Trafficker -> Nat], NEW p \in Trafficker, NEW v \in Nat,
           NEW g, Becomes(f, p, v, g)
    PROVE  /\ g \in [Trafficker -> Nat]
           /\ SumFunctionOnSet(g, Trafficker) + f[p] = SumFunctionOnSet(f, Trafficker) + v
           /\ SumFunctionOnSet(f, Trafficker) \in Nat /\ SumFunctionOnSet(g, Trafficker) \in Nat
<1>1. g \in [Trafficker -> Nat] /\ g[p] = v /\ \A q \in Trafficker \ {p} : g[q] = f[q]
  BY DEF Becomes
<1>2. f[p] \in Nat /\ \A q \in Trafficker \ {p} : f[q] \in Nat
  OBVIOUS
<1>3. IsFiniteSet(Trafficker)
  BY MarketConstants
<1>4. /\ SumFunctionOnSet(g, Trafficker) + f[p] = SumFunctionOnSet(f, Trafficker) + g[p]
      /\ SumFunctionOnSet(f, Trafficker) \in Nat /\ SumFunctionOnSet(g, Trafficker) \in Nat
  BY ONLY p \in Trafficker, v \in Nat, <1>1, <1>2, <1>3, SumChanged
<1> QED BY <1>1, <1>4

\* Some pass on something to others, or to themselves.
Passes(f, from, to, n, g) == g = [[f EXCEPT ![from] = @ - n] EXCEPT ![to] = @ + n]

LEMMA PassedOn ==
    ASSUME NEW f \in [Trafficker -> Nat], NEW from \in Trafficker, NEW to \in Trafficker,
           NEW n \in Nat, n <= f[from],
           NEW g, Passes(f, from, to, n, g)
    PROVE  /\ g \in [Trafficker -> Nat]
           /\ SumFunctionOnSet(g, Trafficker) = SumFunctionOnSet(f, Trafficker)
<1> DEFINE h == [f EXCEPT ![from] = f[from] - n]
<1>1. f[from] \in Nat /\ f[from] - n \in Nat
  OBVIOUS
<1>1a. Becomes(f, from, f[from] - n, h)
  BY DEF Becomes
<1>2. /\ h \in [Trafficker -> Nat]
      /\ SumFunctionOnSet(h, Trafficker) + f[from] = SumFunctionOnSet(f, Trafficker) + (f[from] - n)
      /\ SumFunctionOnSet(f, Trafficker) \in Nat /\ SumFunctionOnSet(h, Trafficker) \in Nat
  <2> HIDE DEF h
  <2> QED BY ONLY f \in [Trafficker -> Nat], from \in Trafficker, <1>1, <1>1a, PurseChanged
<1>3. g = [h EXCEPT ![to] = h[to] + n]
  BY DEF Passes
<1> HIDE DEF h
<1>4. h[to] \in Nat /\ h[to] + n \in Nat
  BY ONLY <1>2, to \in Trafficker, n \in Nat
<1>5. PICK v \in Nat : v = h[to] + n
  BY ONLY <1>4
<1>6. h \in [Trafficker -> Nat] /\ Becomes(h, to, v, g)
  BY ONLY <1>2, <1>3, <1>5 DEF Becomes
<1>7. /\ g \in [Trafficker -> Nat]
      /\ SumFunctionOnSet(g, Trafficker) + h[to] = SumFunctionOnSet(h, Trafficker) + v
      /\ SumFunctionOnSet(g, Trafficker) \in Nat
  BY ONLY <1>6, v \in Nat, to \in Trafficker, PurseChanged
<1>8. SumFunctionOnSet(g, Trafficker) = SumFunctionOnSet(h, Trafficker) + n
  BY ONLY <1>2, <1>4, <1>5, <1>7, n \in Nat
<1> QED BY ONLY <1>1, <1>2, <1>7, <1>8, n \in Nat

\* The market opens without offers.
LEMMA MarketStart == MarketInit => MarketInv
<1> SUFFICES ASSUME MarketInit PROVE MarketInv
  OBVIOUS
<1>1. /\ offers = <<>> /\ nextId = 1 /\ found = <<>> /\ inMarket = {}
      /\ bankBalance = [p \in Trafficker |-> Funds] /\ wares = [p \in Trafficker |-> Funds]
  BY DEF MarketInit
<1>2. DOMAIN offers = {} /\ DOMAIN found = {} /\ offers \in [{} -> Row]
  BY <1>1
<1>3. offers \in Tables
  BY <1>2, SomeTable
<1>4. bankBalance \in [Trafficker -> Nat] /\ wares \in [Trafficker -> Nat]
  <2>1. Funds \in Nat
    BY MarketConstants
  <2> QED BY <1>1, <2>1
<1>5. found \in Seq(Tables)
  BY <1>1
<1>6. nextId \in Nat \ {0} /\ inMarket \subseteq Trafficker
  BY <1>1
<1>7. MarketTyped
  BY <1>3, <1>4, <1>5, <1>6 DEF MarketTyped
<1>8. DealsKept
  BY <1>2 DEF DealsKept
<1> QED BY <1>7, <1>8 DEF MarketInv

\* A step that leaves the offers what they were, but for their amounts, and a new one.
OffersKept ==
    \A o \in DOMAIN offers' :
        o < nextId' /\ (o < nextId => o \in DOMAIN offers /\ SameDeal(offers[o], offers'[o]))

\* A step after which the results are still of the offers that there are.
LEMMA DealsStayKept ==
    ASSUME MarketInv, found' = found, nextId' \in Nat, nextId <= nextId', OffersKept
    PROVE  DealsKept'
<1>1. nextId \in Nat /\ DealsKept
  BY DEF MarketInv, MarketTyped
<1>2. ASSUME NEW n \in DOMAIN found, NEW o \in DOMAIN found[n]
      PROVE  o < nextId' /\ (o \in DOMAIN offers' => SameDeal(found[n][o], offers'[o]))
  <2>1. o < nextId /\ (o \in DOMAIN offers => SameDeal(found[n][o], offers[o]))
    BY <1>1 DEF DealsKept
  <2>2. o \in Int
    <3>1. found[n] \in Tables
      BY DEF MarketInv, MarketTyped
    <3>2. DOMAIN found[n] \subseteq 1 .. LastOffer
      BY <3>1, OfTable
    <3> QED BY <3>2
  <2>3. o < nextId'
    BY <1>1, <2>1, <2>2
  <2> QED BY <2>1, <2>3 DEF SameDeal, OffersKept
<1>3. \A o \in DOMAIN offers' : o < nextId'
  BY DEF OffersKept
<1> QED BY <1>2, <1>3 DEF DealsKept

\* The figures are numbers.
LEMMA SumsAreNumbers ==
    ASSUME MarketTyped
    PROVE  /\ SumFunctionOnSet(wares, Trafficker) \in Nat
           /\ SumFunctionOnSet(bankBalance, Trafficker) \in Nat
           /\ WaresPromised(offers) \in Nat
           /\ MoneyPromised(offers) \in Nat
<1>1. /\ IsFiniteSet(Trafficker) /\ Trafficker \in SUBSET Trafficker
      /\ \A p \in Trafficker : wares[p] \in Nat /\ bankBalance[p] \in Nat
  BY MarketConstants DEF MarketTyped
<1>2. SumFunctionOnSet(wares, Trafficker) \in Nat /\ SumFunctionOnSet(bankBalance, Trafficker) \in Nat
  BY ONLY <1>1, SumWithout
<1>3. offers \in Tables
  BY DEF MarketTyped
<1>4. /\ IsFiniteSet(DOMAIN offers)
      /\ \A o \in DOMAIN offers : Amount(offers)[o] \in Nat /\ Worth(offers)[o] \in Nat
  BY <1>3, OfTable
<1>5. ForSale(offers) \in SUBSET DOMAIN offers /\ DOMAIN offers \ ForSale(offers) \in SUBSET DOMAIN offers
  BY DEF ForSale
<1>6. WaresPromised(offers) \in Nat /\ MoneyPromised(offers) \in Nat
  BY ONLY <1>4, <1>5, SumWithout DEF WaresPromised, MoneyPromised
<1> QED BY <1>2, <1>6

\* There is never less than no money.
LEMMA MoneyIsNat == ASSUME MarketTyped PROVE Money \in Nat
<1>1. SumFunctionOnSet(bankBalance, Trafficker) \in Nat /\ MoneyPromised(offers) \in Nat
  BY SumsAreNumbers
<1>2. \A i, j \in Nat : i + j \in Nat
  OBVIOUS
<1> QED BY ONLY <1>1, <1>2, Zenon DEF Money

\* A step that leaves offers, balances and wares alone.
LEMMA NothingMoved ==
    ASSUME MarketTyped, UNCHANGED <<offers, nextId, bankBalance, wares>>
    PROVE  Conserving
<1>2. Goods' = Goods
  BY DEF Goods
<1>3. Money' = Money
  BY DEF Money
<1> QED BY <1>2, <1>3, MoneyIsNat DEF Conserving

\* What there is of wares and of money, before and after a step.
LEMMA GoodsAre ==
    /\ Goods = SumFunctionOnSet(wares, Trafficker)
               + WaresPromised(offers)
    /\ Goods' = SumFunctionOnSet(wares', Trafficker)
                + WaresPromised(offers')
  BY Zenon DEF Goods

LEMMA MoneyIs ==
    /\ Money = SumFunctionOnSet(bankBalance, Trafficker)
               + MoneyPromised(offers)
    /\ Money' = SumFunctionOnSet(bankBalance', Trafficker)
                + MoneyPromised(offers')
  BY Zenon DEF Money

-----------------------------------------------------------------------------
(* The handlers *)

\* Game::playerLeaveMarket, and the way in, touch no offer.
LEMMA EnterOrLeaveConserves ==
    ASSUME MarketInv, MarketEnterOrLeave
    PROVE  MarketInv' /\ Conserving
<1>1. UNCHANGED <<offers, nextId, bankBalance, wares, found>> /\ (inMarket \subseteq Trafficker)'
  BY DEF MarketInv, MarketTyped, MarketEnterOrLeave
<1>2. MarketTyped'
  BY <1>1 DEF MarketInv, MarketTyped
<1>3. DealsKept'
  BY <1>1 DEF MarketInv, DealsKept
<1> QED BY <1>1, <1>2, <1>3, NothingMoved DEF MarketInv

\* Nor does sending the query to the database thread,
LEMMA CheckExpiredConserves ==
    ASSUME MarketInv, CheckExpiredOffers
    PROVE  MarketInv' /\ Conserving
<1>1. UNCHANGED <<offers, nextId, bankBalance, wares, found, inMarket>>
  BY DEF CheckExpiredOffers
<1>2. MarketTyped'
  BY <1>1 DEF MarketInv, MarketTyped
<1>3. DealsKept'
  BY <1>1 DEF MarketInv, DealsKept
<1> QED BY <1>1, <1>2, <1>3, NothingMoved DEF MarketInv

\* nor running it; the rows it finds are of offers that there are.
LEMMA RunCheckConserves ==
    ASSUME MarketInv, RunCheck
    PROVE  MarketInv' /\ Conserving
<1> DEFINE ids == {o \in DOMAIN offers : o <= Head(checks)}
           rows == Restrict(offers, ids)
<1>1. offers \in Tables /\ found \in Seq(Tables)
  BY DEF MarketInv, MarketTyped
<1>2. DOMAIN offers \subseteq 1 .. LastOffer /\ offers \in [DOMAIN offers -> Row]
  BY <1>1, OfTable
<1>3. rows \in [ids -> Row] /\ ids \in SUBSET (1 .. LastOffer) /\ DOMAIN rows = ids
      /\ \A o \in ids : rows[o] = offers[o]
  BY <1>2 DEF Restrict
<1>4. found' = Append(found, rows) /\ UNCHANGED <<offers, nextId, bankBalance, wares, inMarket>>
  BY DEF RunCheck
<1>4a. ids \subseteq DOMAIN offers
  OBVIOUS
<1> HIDE DEF ids, rows
<1>5. rows \in Tables
  BY <1>3, SomeTable
<1>6. MarketTyped'
  BY <1>1, <1>4, <1>5 DEF MarketInv, MarketTyped
<1>7. DealsKept'
  <2>1. ASSUME NEW n \in DOMAIN found', NEW o \in DOMAIN found'[n]
        PROVE  o < nextId /\ (o \in DOMAIN offers => SameDeal(found'[n][o], offers[o]))
    <3>1. CASE n \in DOMAIN found /\ found'[n] = found[n]
      BY <2>1, <3>1 DEF MarketInv, DealsKept
    <3>2. CASE found'[n] = rows
      BY <1>3, <1>4a, <2>1, <3>2 DEF MarketInv, DealsKept, SameDeal
    <3>3. (n \in DOMAIN found /\ found'[n] = found[n]) \/ found'[n] = rows
      BY <1>1, <1>4, <1>5
    <3> QED BY <3>1, <3>2, <3>3
  <2> QED BY <1>4, <2>1 DEF MarketInv, DealsKept
<1>8. Conserving
  BY <1>4, NothingMoved DEF MarketInv
<1> QED BY <1>6, <1>7, <1>8 DEF MarketInv

\* What a new offer promises is what its owner no longer has; the fee is gone.
LEMMA CreateConserves ==
    ASSUME MarketInv, PlayerCreateMarketOffer
    PROVE  MarketInv' /\ Conserving
<1>1. PICK p \in inMarket, sale \in BOOLEAN, amount \in Amounts, price \in Prices :
        LET cost == IF sale THEN Fee ELSE price * amount + Fee
        IN  /\ nextId <= LastOffer
            /\ MaxOffers # 0 => Cardinality({o \in DOMAIN offers : offers[o].owner = p}) < MaxOffers
            /\ cost <= bankBalance[p]
            /\ sale => amount <= wares[p]
            /\ bankBalance' = [bankBalance EXCEPT ![p] = @ - cost]
            /\ wares' = [wares EXCEPT ![p] = IF sale THEN @ - amount ELSE @]
            /\ offers' = [o \in DOMAIN offers \cup {nextId} |->
                   IF o = nextId
                   THEN [owner |-> p, sale |-> sale, amount |-> amount, price |-> price]
                   ELSE offers[o]]
            /\ nextId' = nextId + 1
            /\ UNCHANGED <<inMarket, checks, found, checkCount>>
  BY Zenon DEF PlayerCreateMarketOffer
<1> DEFINE cost == IF sale THEN Fee ELSE price * amount + Fee
           gone == IF sale THEN amount ELSE 0
           held == IF sale THEN 0 ELSE price * amount
<1>2. /\ offers \in Tables /\ found \in Seq(Tables) /\ nextId \in Nat \ {0} /\ inMarket \subseteq Trafficker
      /\ bankBalance \in [Trafficker -> Nat] /\ wares \in [Trafficker -> Nat]
      /\ nextId \notin DOMAIN offers
  BY DEF MarketInv, MarketTyped, DealsKept
<1>3. DOMAIN offers \subseteq 1 .. LastOffer /\ offers \in [DOMAIN offers -> Row]
  BY <1>2, OfTable
<1>4. /\ p \in Trafficker /\ amount \in Nat \ {0} /\ price \in Nat /\ price \in Prices
      /\ Fee \in Nat /\ LastOffer \in Nat /\ price * amount \in Nat
  <2>1. p \in Trafficker /\ amount \in Nat \ {0} /\ price \in Nat /\ Fee \in Nat /\ LastOffer \in Nat
    BY <1>2, MarketConstants
  <2>2. \A i, j \in Nat : i * j \in Nat
    OBVIOUS
  <2> QED BY ONLY <2>1, <2>2, price \in Prices
<1>5. /\ cost \in Nat /\ gone \in Nat /\ held \in Nat /\ cost = held + Fee
      /\ bankBalance[p] \in Nat /\ bankBalance[p] - cost \in Nat
      /\ wares[p] \in Nat /\ wares[p] - gone \in Nat
      /\ bankBalance' = [bankBalance EXCEPT ![p] = bankBalance[p] - cost]
      /\ wares' = [wares EXCEPT ![p] = wares[p] - gone]
  <2>1. bankBalance[p] \in Nat /\ wares[p] \in Nat
    BY ONLY <1>2, <1>4
  <2>2. CASE sale
    BY ONLY <1>1, <1>4, <2>1, <2>2
  <2>3. CASE ~sale
    <3>1. cost = price * amount + Fee /\ gone = 0 /\ held = price * amount
      BY ONLY <2>3
    <3>2. cost \in Nat /\ cost <= bankBalance[p] /\ cost = held + Fee
      BY ONLY <1>1, <1>4, <2>3, <3>1
    <3>3. bankBalance' = [bankBalance EXCEPT ![p] = bankBalance[p] - cost] /\ wares' = [wares EXCEPT ![p] = wares[p]]
      BY ONLY <1>1, <2>3
    <3> HIDE DEF cost, gone, held
    <3>4. gone \in Nat /\ held \in Nat
      BY ONLY <1>4, <3>1
    <3>5. bankBalance[p] - cost \in Nat
      BY ONLY <2>1, <3>2
    <3>6. wares[p] - gone = wares[p]
      BY ONLY <2>1, <3>1
    <3> QED BY ONLY <2>1, <3>2, <3>3, <3>4, <3>5, <3>6
  <2> QED BY <2>2, <2>3
<1>6. offers' \in Tables /\ nextId \in DOMAIN offers'
  <2>1. [owner |-> p, sale |-> sale, amount |-> amount, price |-> price] \in Row
    BY <1>4 DEF Row
  <2>2. offers' \in [DOMAIN offers \cup {nextId} -> Row]
    BY ONLY <1>1, <1>3, <2>1
  <2>3. DOMAIN offers \cup {nextId} \in SUBSET (1 .. LastOffer)
    BY <1>1, <1>2, <1>3, <1>4
  <2> QED BY ONLY <2>2, <2>3, SomeTable
<1>7. /\ offers'[nextId].sale = sale /\ offers'[nextId].amount = amount
      /\ offers'[nextId].price = price
  BY <1>1
<1>8. LeftOf(offers', {nextId}, offers)
  <2>1. DOMAIN offers' \ {nextId} = DOMAIN offers
    BY <1>1, <1>2
  <2>2. \A o \in DOMAIN offers : offers'[o] = offers[o]
    BY <1>1, <1>2
  <2>3. offers = [o \in DOMAIN offers |-> offers'[o]]
    BY ONLY <1>3, <2>2
  <2> QED BY ONLY <1>6, <2>1, <2>3 DEF LeftOf, Restrict
<1>9. /\ WaresPromised(offers')
           = WaresPromised(offers)
             + WaresOf(offers'[nextId])
      /\ MoneyPromised(offers')
           = MoneyPromised(offers)
             + MoneyOf(offers'[nextId])
      /\ WaresPromised(offers) \in Nat
      /\ MoneyPromised(offers) \in Nat
  BY ONLY <1>6, <1>8, TableWithoutOne
<1>10. /\ WaresPromised(offers')
            = WaresPromised(offers) + gone
       /\ MoneyPromised(offers')
            = MoneyPromised(offers) + held
  BY ONLY <1>7, <1>9, sale \in BOOLEAN DEF WaresOf, MoneyOf
<1> HIDE DEF cost, gone, held
<1>11. Becomes(bankBalance, p, bankBalance[p] - cost, bankBalance') /\ Becomes(wares, p, wares[p] - gone, wares')
  BY ONLY <1>5 DEF Becomes
<1>12. /\ bankBalance' \in [Trafficker -> Nat]
       /\ SumFunctionOnSet(bankBalance', Trafficker) + bankBalance[p]
            = SumFunctionOnSet(bankBalance, Trafficker) + (bankBalance[p] - cost)
       /\ SumFunctionOnSet(bankBalance, Trafficker) \in Nat /\ SumFunctionOnSet(bankBalance', Trafficker) \in Nat
  BY ONLY <1>2, <1>4, <1>5, <1>11, PurseChanged
<1>13. /\ wares' \in [Trafficker -> Nat]
       /\ SumFunctionOnSet(wares', Trafficker) + wares[p]
            = SumFunctionOnSet(wares, Trafficker) + (wares[p] - gone)
       /\ SumFunctionOnSet(wares, Trafficker) \in Nat /\ SumFunctionOnSet(wares', Trafficker) \in Nat
  BY ONLY <1>2, <1>4, <1>5, <1>11, PurseChanged
<1>14. Goods' = Goods
  BY ONLY <1>5, <1>9, <1>10, <1>13, GoodsAre
<1>15. Money' = Money - Fee
  BY ONLY <1>4, <1>5, <1>9, <1>10, <1>12, MoneyIs
<1>16. MarketTyped'
  BY ONLY <1>1, <1>2, <1>6, <1>12, <1>13 DEF MarketTyped
<1>17. DealsKept'
  <2>1. DOMAIN offers' = DOMAIN offers \cup {nextId} /\ \A o \in DOMAIN offers : offers'[o] = offers[o]
    BY ONLY <1>1, <1>2
  <2>2. \A o \in DOMAIN offers : o < nextId
    BY DEF MarketInv, DealsKept
  <2>3. nextId' = nextId + 1 /\ nextId \in Nat /\ \A o \in DOMAIN offers : o \in Nat
    BY ONLY <1>1, <1>2, <1>3
  <2>4. OffersKept
    BY ONLY <2>1, <2>2, <2>3 DEF OffersKept, SameDeal
  <2> QED BY ONLY MarketInv, <1>1, <2>3, <2>4, DealsStayKept
<1>18. nextId' # nextId
  BY <1>1, <1>2
<1> QED BY ONLY <1>14, <1>15, <1>16, <1>17, <1>18 DEF MarketInv, Conserving

\* A cancelled offer gives its owner back what it promised.
LEMMA CancelConserves ==
    ASSUME MarketInv, PlayerCancelMarketOffer
    PROVE  MarketInv' /\ Conserving
<1>1. PICK id \in DOMAIN offers :
        /\ offers[id].owner \in inMarket
        /\ IF offers[id].sale
           THEN /\ wares' = [wares EXCEPT ![offers[id].owner] = wares[offers[id].owner] + offers[id].amount]
                /\ UNCHANGED bankBalance
           ELSE /\ bankBalance' = [bankBalance EXCEPT ![offers[id].owner] =
                       bankBalance[offers[id].owner] + offers[id].price * offers[id].amount]
                /\ UNCHANGED wares
        /\ offers' = Restrict(offers, DOMAIN offers \ {id})
        /\ UNCHANGED <<nextId, inMarket, checks, found, checkCount>>
  BY DEF PlayerCancelMarketOffer, DeleteOffer
<1>2. /\ offers \in Tables /\ found \in Seq(Tables) /\ nextId \in Nat \ {0} /\ inMarket \subseteq Trafficker
      /\ bankBalance \in [Trafficker -> Nat] /\ wares \in [Trafficker -> Nat]
  BY DEF MarketInv, MarketTyped
<1> DEFINE p == offers[id].owner
           back == WaresOf(offers[id])
           paid == MoneyOf(offers[id])
<1>3. /\ p \in Trafficker /\ offers[id].sale \in BOOLEAN /\ offers[id].amount \in Nat
      /\ offers[id].price * offers[id].amount \in Nat
  BY <1>2, OfTable
<1>4. /\ back \in Nat /\ paid \in Nat /\ wares[p] \in Nat /\ bankBalance[p] \in Nat
      /\ wares[p] + back \in Nat /\ bankBalance[p] + paid \in Nat
  BY ONLY <1>2, <1>3 DEF WaresOf, MoneyOf
<1>5. Becomes(bankBalance, p, bankBalance[p] + paid, bankBalance') /\ Becomes(wares, p, wares[p] + back, wares')
  <2>1. CASE offers[id].sale
    BY <1>1, <1>2, <1>3, <1>4, <2>1 DEF Becomes, WaresOf, MoneyOf
  <2>2. CASE ~offers[id].sale
    BY <1>1, <1>2, <1>3, <1>4, <2>2 DEF Becomes, WaresOf, MoneyOf
  <2> QED BY <2>1, <2>2
<1>6. LeftOf(offers, {id}, offers')
  BY <1>1 DEF LeftOf
<1>6a. offers \in Tables /\ id \in DOMAIN offers
  BY <1>2
<1>7. /\ WaresPromised(offers) = WaresPromised(offers') + WaresOf(offers[id])
      /\ MoneyPromised(offers) = MoneyPromised(offers') + MoneyOf(offers[id])
      /\ WaresPromised(offers') \in Nat /\ MoneyPromised(offers') \in Nat
  BY ONLY <1>6a, <1>6, TableWithoutOne
<1>8. /\ offers' \in Tables /\ DOMAIN offers' = DOMAIN offers \ {id}
      /\ \A o \in DOMAIN offers' : offers'[o] = offers[o]
  BY ONLY <1>6a, <1>6, TableWithoutOne
<1>9. /\ WaresPromised(offers) = WaresPromised(offers') + back
      /\ MoneyPromised(offers) = MoneyPromised(offers') + paid
  BY ONLY <1>7
<1> HIDE DEF p, back, paid
<1>10. /\ bankBalance' \in [Trafficker -> Nat]
       /\ SumFunctionOnSet(bankBalance', Trafficker) + bankBalance[p]
            = SumFunctionOnSet(bankBalance, Trafficker) + (bankBalance[p] + paid)
       /\ SumFunctionOnSet(bankBalance, Trafficker) \in Nat /\ SumFunctionOnSet(bankBalance', Trafficker) \in Nat
  BY ONLY <1>2, <1>3, <1>4, <1>5, PurseChanged
<1>11. /\ wares' \in [Trafficker -> Nat]
       /\ SumFunctionOnSet(wares', Trafficker) + wares[p]
            = SumFunctionOnSet(wares, Trafficker) + (wares[p] + back)
       /\ SumFunctionOnSet(wares, Trafficker) \in Nat /\ SumFunctionOnSet(wares', Trafficker) \in Nat
  BY ONLY <1>2, <1>3, <1>4, <1>5, PurseChanged
<1>12. Goods' = Goods
  BY ONLY <1>4, <1>7, <1>9, <1>11, GoodsAre
<1>13. Money' = Money /\ Money \in Nat
  <2>1. MoneyPromised(offers') \in Nat /\ paid \in Nat /\ bankBalance[p] \in Nat
    BY ONLY <1>4, <1>7
  <2>2. Money \in Nat
    BY MoneyIsNat DEF MarketInv
  <2>3. SumFunctionOnSet(bankBalance', Trafficker) = SumFunctionOnSet(bankBalance, Trafficker) + paid
    BY ONLY <1>10, <2>1
  <2>4. Money' = Money
    BY ONLY <1>9, <1>10, <2>1, <2>3, MoneyIs
  <2> QED BY ONLY <2>2, <2>4
<1>14. MarketTyped'
  BY ONLY <1>1, <1>2, <1>8, <1>10, <1>11 DEF MarketTyped
<1>15. DealsKept'
  <2>1. OffersKept
    BY <1>1, <1>8 DEF MarketInv, DealsKept, SameDeal, OffersKept
  <2>2. found' = found /\ nextId' \in Nat /\ nextId <= nextId'
    BY <1>1, <1>2
  <2> QED BY ONLY MarketInv, <2>1, <2>2, DealsStayKept
<1> QED BY <1>1, <1>12, <1>13, <1>14, <1>15 DEF MarketInv, Conserving

\* Who accepts and whose offer it is pass on to each other as much as the offer loses,
\* all of it or a part.
LEMMA AcceptConserves ==
    ASSUME MarketInv, PlayerAcceptMarketOffer
    PROVE  MarketInv' /\ Conserving
<1>1. PICK p \in inMarket, id \in DOMAIN offers, amount \in Amounts :
        LET row == offers[id]
            totalPrice == row.price * amount
            Pass(f, from, to, n) == [[f EXCEPT ![from] = @ - n] EXCEPT ![to] = @ + n]
        IN  /\ amount <= row.amount
            /\ IF row.sale
               THEN /\ totalPrice <= bankBalance[p]
                    /\ bankBalance' = Pass(bankBalance, p, row.owner, totalPrice)
                    /\ wares' = [wares EXCEPT ![p] = @ + amount]
               ELSE /\ amount <= wares[p]
                    /\ wares' = Pass(wares, p, row.owner, amount)
                    /\ bankBalance' = [bankBalance EXCEPT ![p] = @ + totalPrice]
            /\ IF amount = row.amount
               THEN DeleteOffer(id)
               ELSE offers' = [offers EXCEPT ![id].amount = @ - amount]
            /\ UNCHANGED <<nextId, inMarket, checks, found, checkCount>>
  BY Zenon DEF PlayerAcceptMarketOffer
<1>2. /\ offers \in Tables /\ found \in Seq(Tables) /\ nextId \in Nat \ {0} /\ inMarket \subseteq Trafficker
      /\ bankBalance \in [Trafficker -> Nat] /\ wares \in [Trafficker -> Nat]
  BY DEF MarketInv, MarketTyped
<1> DEFINE q == offers[id].owner
           cost == offers[id].price * amount
<1>3. /\ p \in Trafficker /\ q \in Trafficker /\ offers[id].sale \in BOOLEAN
      /\ amount \in Nat \ {0} /\ offers[id].amount \in Nat \ {0} /\ amount <= offers[id].amount
      /\ cost \in Nat
  <2>1. /\ q \in Trafficker /\ offers[id].sale \in BOOLEAN /\ offers[id].amount \in Nat \ {0}
        /\ offers[id].price \in Nat
    BY <1>2, OfTable
  <2>2. p \in Trafficker /\ amount \in Nat \ {0}
    BY <1>2, MarketConstants
  <2>3. \A i, j \in Nat : i * j \in Nat
    OBVIOUS
  <2>4. amount <= offers[id].amount
    BY ONLY <1>1
  <2> QED BY ONLY <2>1, <2>2, <2>3, <2>4
<1>4. UNCHANGED <<nextId, inMarket, found>>
  BY ONLY <1>1
<1>5. IF amount = offers[id].amount THEN LeftOf(offers, {id}, offers') ELSE LessOf(offers, id, amount, offers')
  BY ONLY <1>1, id \in DOMAIN offers DEF LeftOf, LessOf, DeleteOffer
<1>6. /\ offers' \in Tables /\ DOMAIN offers' \subseteq DOMAIN offers
      /\ \A o \in DOMAIN offers' : SameDeal(offers[o], offers'[o])
      /\ WaresPromised(offers) = WaresPromised(offers') + (IF offers[id].sale THEN amount ELSE 0)
      /\ MoneyPromised(offers) = MoneyPromised(offers') + (IF offers[id].sale THEN 0 ELSE cost)
      /\ WaresPromised(offers') \in Nat /\ MoneyPromised(offers') \in Nat
  <2>1. offers \in Tables /\ id \in DOMAIN offers
    BY <1>2
  <2>2. CASE amount = offers[id].amount
    <3>1. LeftOf(offers, {id}, offers')
      BY ONLY <1>5, <2>2
    <3>2. /\ WaresPromised(offers) = WaresPromised(offers') + WaresOf(offers[id])
          /\ MoneyPromised(offers) = MoneyPromised(offers') + MoneyOf(offers[id])
          /\ WaresPromised(offers') \in Nat /\ MoneyPromised(offers') \in Nat
      BY ONLY <2>1, <3>1, TableWithoutOne
    <3>3. /\ offers' \in Tables /\ DOMAIN offers' = DOMAIN offers \ {id}
          /\ \A o \in DOMAIN offers' : offers'[o] = offers[o]
      BY ONLY <2>1, <3>1, TableWithoutOne
    <3> QED BY ONLY <2>2, <3>2, <3>3 DEF SameDeal, WaresOf, MoneyOf
  <2>3. CASE amount # offers[id].amount
    <3>1. LessOf(offers, id, amount, offers')
      BY ONLY <1>5, <2>3
    <3>2. amount < offers[id].amount /\ amount \in Nat \ {0}
      BY ONLY <1>3, <2>3
    <3>3. /\ WaresPromised(offers) = WaresPromised(offers') + (IF offers[id].sale THEN amount ELSE 0)
          /\ MoneyPromised(offers) = MoneyPromised(offers') + (IF offers[id].sale THEN 0 ELSE offers[id].price * amount)
          /\ WaresPromised(offers') \in Nat /\ MoneyPromised(offers') \in Nat
      BY ONLY <2>1, <3>1, <3>2, TableWithLess
    <3>4. /\ offers' \in Tables /\ DOMAIN offers' = DOMAIN offers
          /\ \A o \in DOMAIN offers : SameDeal(offers[o], offers'[o])
      BY ONLY <2>1, <3>1, <3>2, TableWithLess
    <3> QED BY ONLY <3>3, <3>4
  <2> QED BY ONLY <2>2, <2>3
<1>7. /\ wares' \in [Trafficker -> Nat] /\ bankBalance' \in [Trafficker -> Nat]
      /\ SumFunctionOnSet(wares', Trafficker)
           = SumFunctionOnSet(wares, Trafficker) + (IF offers[id].sale THEN amount ELSE 0)
      /\ SumFunctionOnSet(bankBalance', Trafficker)
           = SumFunctionOnSet(bankBalance, Trafficker) + (IF offers[id].sale THEN 0 ELSE cost)
  <2>1. CASE offers[id].sale
    <3>1. Passes(bankBalance, p, q, cost, bankBalance') /\ cost <= bankBalance[p]
      BY ONLY <1>1, <2>1 DEF Passes
    <3>2. Becomes(wares, p, wares[p] + amount, wares')
      BY ONLY <1>1, <2>1 DEF Becomes
    <3>3. wares[p] \in Nat /\ wares[p] + amount \in Nat
      BY ONLY <1>2, <1>3
    <3> HIDE DEF q, cost
    <3>4. /\ bankBalance' \in [Trafficker -> Nat]
          /\ SumFunctionOnSet(bankBalance', Trafficker) = SumFunctionOnSet(bankBalance, Trafficker)
      BY ONLY <1>2, <1>3, <3>1, PassedOn
    <3>5. /\ wares' \in [Trafficker -> Nat]
          /\ SumFunctionOnSet(wares', Trafficker) + wares[p]
               = SumFunctionOnSet(wares, Trafficker) + (wares[p] + amount)
          /\ SumFunctionOnSet(wares, Trafficker) \in Nat /\ SumFunctionOnSet(wares', Trafficker) \in Nat
      BY ONLY <1>2, <1>3, <3>2, <3>3, PurseChanged
    <3>6. SumFunctionOnSet(wares', Trafficker) = SumFunctionOnSet(wares, Trafficker) + amount
      BY ONLY <1>3, <3>3, <3>5
    <3>7. SumFunctionOnSet(bankBalance, Trafficker) \in Nat
      BY SumsAreNumbers DEF MarketInv
    <3> QED BY ONLY <2>1, <3>4, <3>5, <3>6, <3>7
  <2>2. CASE ~offers[id].sale
    <3>1. Passes(wares, p, q, amount, wares') /\ amount <= wares[p]
      BY ONLY <1>1, <2>2 DEF Passes
    <3>2. Becomes(bankBalance, p, bankBalance[p] + cost, bankBalance')
      BY ONLY <1>1, <2>2 DEF Becomes
    <3> HIDE DEF q, cost
    <3>3. bankBalance[p] \in Nat /\ bankBalance[p] + cost \in Nat
      BY ONLY <1>2, <1>3
    <3>4. /\ wares' \in [Trafficker -> Nat]
          /\ SumFunctionOnSet(wares', Trafficker) = SumFunctionOnSet(wares, Trafficker)
      BY ONLY <1>2, <1>3, <3>1, PassedOn
    <3>5. /\ bankBalance' \in [Trafficker -> Nat]
          /\ SumFunctionOnSet(bankBalance', Trafficker) + bankBalance[p]
               = SumFunctionOnSet(bankBalance, Trafficker) + (bankBalance[p] + cost)
          /\ SumFunctionOnSet(bankBalance, Trafficker) \in Nat
          /\ SumFunctionOnSet(bankBalance', Trafficker) \in Nat
      BY ONLY <1>2, <1>3, <3>2, <3>3, PurseChanged
    <3>6. SumFunctionOnSet(bankBalance', Trafficker) = SumFunctionOnSet(bankBalance, Trafficker) + cost
      BY ONLY <1>3, <3>3, <3>5
    <3>7. SumFunctionOnSet(wares, Trafficker) \in Nat
      BY SumsAreNumbers DEF MarketInv
    <3> QED BY ONLY <2>2, <3>4, <3>5, <3>6, <3>7
  <2> QED BY ONLY <2>1, <2>2
<1>8. SumFunctionOnSet(wares, Trafficker) \in Nat /\ SumFunctionOnSet(bankBalance, Trafficker) \in Nat
  BY SumsAreNumbers DEF MarketInv
<1> HIDE DEF q, cost
<1>9. Goods' = Goods
  BY ONLY <1>3, <1>6, <1>7, <1>8, GoodsAre
<1>10. Money' = Money
  BY ONLY <1>3, <1>6, <1>7, <1>8, MoneyIs
<1>11. MarketTyped'
  BY ONLY <1>2, <1>4, <1>6, <1>7 DEF MarketTyped
<1>12. DealsKept'
  <2>1. OffersKept
    BY <1>4, <1>6 DEF MarketInv, DealsKept, OffersKept
  <2>2. found' = found /\ nextId' \in Nat /\ nextId <= nextId'
    BY <1>2, <1>4
  <2> QED BY ONLY MarketInv, <2>1, <2>2, DealsStayKept
<1>13. Money \in Nat
  BY MoneyIsNat DEF MarketInv
<1> QED BY ONLY <1>4, <1>9, <1>10, <1>11, <1>12, <1>13 DEF MarketInv, Conserving

\* What some offers of a table promise is given back to their owners.
GivenBack(rows, D, f, bag, bag2) ==
    /\ rows \in Tables /\ D \subseteq DOMAIN rows /\ \A o \in DOMAIN rows : f[o] \in Nat
    /\ bag \in [Trafficker -> Nat]
    /\ bag2 = [p \in Trafficker |-> bag[p] + SumFunctionOnSet(f, {o \in D : rows[o].owner = p})]

LEMMA AllGivenBack ==
    ASSUME NEW rows, NEW D, NEW f, NEW bag, NEW bag2, GivenBack(rows, D, f, bag, bag2)
    PROVE  /\ bag2 \in [Trafficker -> Nat]
           /\ SumFunctionOnSet(bag2, Trafficker)
                = SumFunctionOnSet(bag, Trafficker) + SumFunctionOnSet(f, D)
<1> DEFINE own == [o \in D |-> rows[o].owner]
           Share(p) == SumFunctionOnSet(f, {o \in D : own[o] = p})
           shares == [p \in Trafficker |-> Share(p)]
<1>0. /\ rows \in Tables /\ D \subseteq DOMAIN rows /\ \A o \in DOMAIN rows : f[o] \in Nat
      /\ bag \in [Trafficker -> Nat]
  BY DEF GivenBack
<1>1. IsFiniteSet(D) /\ (\A o \in D : f[o] \in Nat /\ own[o] \in Trafficker) /\ IsFiniteSet(Trafficker)
  <2>1. IsFiniteSet(DOMAIN rows) /\ \A o \in DOMAIN rows : rows[o].owner \in Trafficker
    BY <1>0, OfTable
  <2> QED BY <1>0, <2>1, FS_Subset, MarketConstants
<1>2. SumFunctionOnSet(shares, Trafficker) = SumFunctionOnSet(f, D)
  <2> HIDE DEF own
  <2> QED BY ONLY <1>1, SumByGroup
<1>3. \A p \in Trafficker : {o \in D : own[o] = p} = {o \in D : rows[o].owner = p}
  OBVIOUS
<1>4. bag2 = [p \in Trafficker |-> bag[p] + Share(p)]
  BY <1>3 DEF GivenBack
<1>5. \A p \in Trafficker : Share(p) \in Nat
  <2>1. \A p \in Trafficker : {o \in D : own[o] = p} \in SUBSET D
    OBVIOUS
  <2> HIDE DEF own
  <2> QED BY ONLY <1>1, <2>1, SumWithout
<1> HIDE DEF own, Share
<1>6. \A p \in Trafficker : /\ bag2[p] \in Nat /\ bag[p] \in Nat /\ shares[p] \in Nat
                            /\ bag2[p] = bag[p] + shares[p]
  BY <1>0, <1>4, <1>5
<1>7. bag2 \in [Trafficker -> Nat]
  BY <1>4, <1>6
<1> HIDE DEF shares
<1>8. SumFunctionOnSet(bag2, Trafficker) = SumFunctionOnSet(bag, Trafficker) + SumFunctionOnSet(shares, Trafficker)
  BY ONLY <1>1, <1>6, SumsAdded
<1> QED BY <1>2, <1>7, <1>8

\* The rows that are still there are deleted and given back, with amounts that are stale
\* in the excepted case only.
LEMMA ProcessExpiredConserves ==
    ASSUME MarketInv, ProcessExpiredOffers
    PROVE  MarketInv' /\ Conserving
<1> DEFINE rows == Head(found)
           M == Moved(rows)
           Of(p) == {o \in M : rows[o].owner = p}
<1>1. /\ found # <<>> /\ found' = Tail(found)
      /\ offers' = Restrict(offers, DOMAIN offers \ M)
      /\ wares' = [p \in Trafficker |-> wares[p] + SumFunctionOnSet(Amount(rows), Of(p) \cap ForSale(rows))]
      /\ bankBalance' = [p \in Trafficker |->
             bankBalance[p] + SumFunctionOnSet(Worth(rows), Of(p) \ ForSale(rows))]
      /\ UNCHANGED <<nextId, inMarket>>
  BY Zenon DEF ProcessExpiredOffers
<1>2. /\ offers \in Tables /\ found \in Seq(Tables) /\ nextId \in Nat \ {0} /\ inMarket \subseteq Trafficker
      /\ bankBalance \in [Trafficker -> Nat] /\ wares \in [Trafficker -> Nat]
  BY DEF MarketInv, MarketTyped
<1>3. /\ rows \in Tables /\ 1 \in DOMAIN found /\ found[1] = rows
      /\ found' \in Seq(Tables) /\ \A n \in DOMAIN found' : n + 1 \in DOMAIN found /\ found'[n] = found[n + 1]
  BY ONLY <1>1, <1>2
<1>4. M \subseteq DOMAIN offers /\ M \subseteq DOMAIN rows
  BY DEF Moved
<1>5. LeftOf(offers, M, offers')
  BY <1>1, <1>4 DEF LeftOf
<1>6. /\ IsFiniteSet(DOMAIN rows)
      /\ \A o \in DOMAIN rows : /\ Amount(rows)[o] \in Nat /\ Worth(rows)[o] \in Nat
                                /\ Amount(rows)[o] = rows[o].amount
                                /\ Worth(rows)[o] = rows[o].price * rows[o].amount
  BY ONLY <1>3, OfTable
<1>7. \A o \in DOMAIN offers : /\ Amount(offers)[o] = offers[o].amount
                               /\ Worth(offers)[o] = offers[o].price * offers[o].amount
  BY ONLY <1>2, OfTable
<1>8. \A o \in M : SameDeal(rows[o], offers[o])
  BY <1>3, <1>4 DEF MarketInv, DealsKept
<1>9. /\ GivenBack(rows, M \cap ForSale(rows), Amount(rows), wares, wares')
      /\ GivenBack(rows, M \ ForSale(rows), Worth(rows), bankBalance, bankBalance')
  <2> HIDE DEF M, rows
  <2>1. \A p \in Trafficker : /\ Of(p) \cap ForSale(rows) = {o \in M \cap ForSale(rows) : rows[o].owner = p}
                              /\ Of(p) \ ForSale(rows) = {o \in M \ ForSale(rows) : rows[o].owner = p}
    OBVIOUS
  <2> HIDE DEF Of
  <2>2. /\ rows \in Tables /\ M \subseteq DOMAIN rows
        /\ wares \in [Trafficker -> Nat] /\ bankBalance \in [Trafficker -> Nat]
        /\ \A o \in DOMAIN rows : Amount(rows)[o] \in Nat /\ Worth(rows)[o] \in Nat
    BY ONLY <1>2, <1>3, <1>4, <1>6
  <2> QED BY ONLY <1>1, <2>1, <2>2 DEF GivenBack
<1> HIDE DEF Of, M, rows
<1>10. /\ wares' \in [Trafficker -> Nat]
       /\ SumFunctionOnSet(wares', Trafficker)
            = SumFunctionOnSet(wares, Trafficker) + SumFunctionOnSet(Amount(rows), M \cap ForSale(rows))
  BY ONLY <1>9, AllGivenBack
<1>11. /\ bankBalance' \in [Trafficker -> Nat]
       /\ SumFunctionOnSet(bankBalance', Trafficker)
            = SumFunctionOnSet(bankBalance, Trafficker) + SumFunctionOnSet(Worth(rows), M \ ForSale(rows))
  BY ONLY <1>9, AllGivenBack
<1>12. /\ offers' \in Tables /\ DOMAIN offers' = DOMAIN offers \ M
       /\ \A o \in DOMAIN offers' : offers'[o] = offers[o]
  <2>1. offers' \in Tables
    BY ONLY <1>2, <1>5, TableSplit
  <2>2. offers' = Restrict(offers, DOMAIN offers \ M)
    BY ONLY <1>5 DEF LeftOf
  <2> QED BY ONLY <2>1, <2>2 DEF Restrict
<1>13. MarketTyped'
  BY ONLY <1>1, <1>2, <1>3, <1>10, <1>11, <1>12 DEF MarketTyped
<1>14. DealsKept'
  <2>1. /\ \A o \in DOMAIN offers : o < nextId
        /\ \A n \in DOMAIN found : \A o \in DOMAIN found[n] :
               o < nextId /\ (o \in DOMAIN offers => SameDeal(found[n][o], offers[o]))
    BY DEF MarketInv, DealsKept
  <2>2. \A o \in DOMAIN offers' : o \in DOMAIN offers /\ offers'[o] = offers[o]
    BY ONLY <1>12
  <2>3. \A o \in DOMAIN offers' : o < nextId'
    BY ONLY <1>1, <2>1, <2>2
  <2>4. ASSUME NEW n \in DOMAIN found', NEW o \in DOMAIN found'[n]
        PROVE  o < nextId' /\ (o \in DOMAIN offers' => SameDeal(found'[n][o], offers'[o]))
    <3>1. n + 1 \in DOMAIN found /\ found'[n] = found[n + 1] /\ nextId' = nextId
      BY ONLY <1>1, <1>3, n \in DOMAIN found'
    <3> QED BY ONLY <2>1, <2>2, <2>4, <3>1
  <2> QED BY ONLY <2>3, <2>4 DEF DealsKept
<1>15. CASE StaleAmount
  BY <1>1, <1>13, <1>14, <1>15 DEF MarketInv, Conserving
<1>16. CASE ~StaleAmount
  <2>1. \A o \in M : rows[o].amount = offers[o].amount
    BY <1>1, <1>4, <1>16 DEF StaleAmount, rows
  <2>2. M \cap ForSale(rows) = M \cap ForSale(offers) /\ M \ ForSale(rows) = M \ ForSale(offers)
    BY ONLY <1>4, <1>8 DEF ForSale, SameDeal
  <2>3. \A o \in M : /\ Amount(rows)[o] \in Nat /\ Amount(offers)[o] = Amount(rows)[o]
                     /\ Worth(rows)[o] \in Nat /\ Worth(offers)[o] = Worth(rows)[o]
    BY ONLY <1>4, <1>6, <1>7, <1>8, <2>1 DEF SameDeal
  <2>4. IsFiniteSet(M \cap ForSale(rows)) /\ IsFiniteSet(M \ ForSale(rows))
    BY ONLY <1>4, <1>6, FS_Subset, M \cap ForSale(rows) \subseteq DOMAIN rows
  <2>5. SumFunctionOnSet(Amount(rows), M \cap ForSale(rows)) = SumFunctionOnSet(Amount(offers), M \cap ForSale(offers))
    <3>1. \A o \in M \cap ForSale(rows) : Amount(rows)[o] \in Nat /\ Amount(offers)[o] = Amount(rows)[o]
      BY ONLY <2>3
    <3>2. SumFunctionOnSet(Amount(rows), M \cap ForSale(rows)) = SumFunctionOnSet(Amount(offers), M \cap ForSale(rows))
      BY ONLY <2>4, <3>1, SumAgrees
    <3> QED BY ONLY <2>2, <3>2
  <2>6. SumFunctionOnSet(Worth(rows), M \ ForSale(rows)) = SumFunctionOnSet(Worth(offers), M \ ForSale(offers))
    <3>1. \A o \in M \ ForSale(rows) : Worth(rows)[o] \in Nat /\ Worth(offers)[o] = Worth(rows)[o]
      BY ONLY <2>3
    <3>2. SumFunctionOnSet(Worth(rows), M \ ForSale(rows)) = SumFunctionOnSet(Worth(offers), M \ ForSale(rows))
      BY ONLY <2>4, <3>1, SumAgrees
    <3> QED BY ONLY <2>2, <3>2
  <2>7. /\ WaresPromised(offers) = WaresPromised(offers') + SumFunctionOnSet(Amount(offers), M \cap ForSale(offers))
        /\ MoneyPromised(offers) = MoneyPromised(offers') + SumFunctionOnSet(Worth(offers), M \ ForSale(offers))
        /\ WaresPromised(offers') \in Nat /\ MoneyPromised(offers') \in Nat
        /\ SumFunctionOnSet(Amount(offers), M \cap ForSale(offers)) \in Nat
        /\ SumFunctionOnSet(Worth(offers), M \ ForSale(offers)) \in Nat
    BY ONLY <1>2, <1>5, TableSplit
  <2>8. SumFunctionOnSet(wares, Trafficker) \in Nat /\ SumFunctionOnSet(bankBalance, Trafficker) \in Nat
    BY SumsAreNumbers DEF MarketInv
  <2>9. Goods' = Goods
    BY ONLY <1>10, <2>5, <2>7, <2>8, GoodsAre
  <2>10. Money' = Money
    BY ONLY <1>11, <2>6, <2>7, <2>8, MoneyIs
  <2>11. Money \in Nat
    BY MoneyIsNat DEF MarketInv
  <2> QED BY ONLY <1>1, <1>13, <1>14, <2>9, <2>10, <2>11 DEF MarketInv, Conserving
<1> QED BY ONLY <1>15, <1>16

\* Every step keeps the invariant, and what there is.
LEMMA MarketStep ==
    MarketInv /\ [MarketNext]_marketVars => MarketInv' /\ [Conserving]_marketVars
<1> SUFFICES ASSUME MarketInv, [MarketNext]_marketVars PROVE MarketInv' /\ [Conserving]_marketVars
  OBVIOUS
<1>1. CASE UNCHANGED marketVars
  <2>1. UNCHANGED <<offers, nextId, bankBalance, wares, inMarket, found>>
    BY <1>1 DEF marketVars
  <2>2. MarketTyped'
    BY <2>1 DEF MarketInv, MarketTyped
  <2>3. DealsKept'
    BY <2>1 DEF MarketInv, DealsKept
  <2> QED BY <1>1, <2>2, <2>3 DEF MarketInv
<1>2. CASE MarketEnterOrLeave
  BY <1>2, EnterOrLeaveConserves
<1>3. CASE PlayerCreateMarketOffer
  BY <1>3, CreateConserves
<1>4. CASE PlayerCancelMarketOffer
  BY <1>4, CancelConserves
<1>5. CASE PlayerAcceptMarketOffer
  BY <1>5, AcceptConserves
<1>6. CASE CheckExpiredOffers
  BY <1>6, CheckExpiredConserves
<1>7. CASE RunCheck
  BY <1>7, RunCheckConserves
<1>8. CASE ProcessExpiredOffers
  BY <1>8, ProcessExpiredConserves
<1> QED BY <1>1, <1>2, <1>3, <1>4, <1>5, <1>6, <1>7, <1>8 DEF MarketNext

\* Nothing that a player of the market has or promises in an offer is lost or doubled,
\* however many players, offers and expiry queries there are (the one case excepted
\* that MarketConserves names).
THEOREM MarketStaysFair == MarketSpec => MarketConserves
<1>1. MarketInv /\ [MarketNext]_marketVars => MarketInv'
  BY MarketStep
<1>2. MarketInv /\ [MarketNext]_marketVars => [Conserving]_marketVars
  BY MarketStep
<1> QED BY <1>1, <1>2, MarketStart, PTL DEF MarketSpec, MarketConserves

-----------------------------------------------------------------------------
(* Decay: the entries of an item *)

Buckets == 0 .. BUCKETS - 1

\* An object that is alive
DecayItem ==
    [alive : {TRUE}, kind : DOMAIN Kind, duration : Nat \cup {NoDuration}, decaying : BOOLEAN,
     placed : BOOLEAN, refs : Nat, release : Nat, queued : Nat, at : [Buckets -> Nat], left : Int]

\* The sums over the wheel, written out
LEMMA FourBuckets ==
    ASSUME NEW f \in [Buckets -> Nat]
    PROVE  SumFunction(f) = f[0] + f[1] + f[2] + f[3]
<1> DEFINE S(T) == SumFunctionOnSet(f, T)
<1>1. Buckets = {0, 1, 2, 3}
  BY DEF Buckets, BUCKETS
<1>2. /\ IsFiniteSet(Buckets) /\ \A b \in Buckets : f[b] \in Nat
      /\ f[0] \in Nat /\ f[1] \in Nat /\ f[2] \in Nat /\ f[3] \in Nat
  <2>1. IsFiniteSet(Buckets)
    <3>1. 0 \in Int /\ 3 \in Int /\ Buckets = 0 .. 3
      BY DEF Buckets, BUCKETS
    <3> QED BY <3>1, FS_Interval
  <2> QED BY <1>1, <2>1
<1>3. S({0}) = f[0]
  <2>1. S({} \cup {0}) = f[0] + S({})
    BY <1>1, <1>2, SumWith
  <2>2. S({}) = 0
    BY SumOfNothing
  <2>3. {} \cup {0} = {0}
    OBVIOUS
  <2> HIDE DEF S
  <2> QED BY <1>2, <2>1, <2>2, <2>3
<1>4. S({0} \cup {1}) = f[1] + S({0})
  BY <1>1, <1>2, SumWith
<1>5. S({0, 1} \cup {2}) = f[2] + S({0, 1})
  BY <1>1, <1>2, SumWith
<1>6. S({0, 1, 2} \cup {3}) = f[3] + S({0, 1, 2})
  BY <1>1, <1>2, SumWith
<1>7. {0} \cup {1} = {0, 1} /\ {0, 1} \cup {2} = {0, 1, 2} /\ {0, 1, 2} \cup {3} = {0, 1, 2, 3}
  OBVIOUS
<1>8. SumFunction(f) = S({0, 1, 2, 3})
  BY <1>1 DEF SumFunction
<1>9. S({0, 1}) = f[1] + S({0}) /\ S({0, 1, 2}) = f[2] + S({0, 1}) /\ S({0, 1, 2, 3}) = f[3] + S({0, 1, 2})
  <2> HIDE DEF S
  <2> QED BY <1>4, <1>5, <1>6, <1>7
<1> HIDE DEF S
<1> QED BY <1>2, <1>3, <1>8, <1>9

LEMMA FiveNaturals ==
    ASSUME NEW a \in Nat, NEW b \in Nat, NEW c \in Nat, NEW d \in Nat, NEW e \in Nat
    PROVE  /\ a + b + c + d + e \in Nat
           /\ a <= a + b + c + d + e /\ b <= a + b + c + d + e /\ c <= a + b + c + d + e
           /\ d <= a + b + c + d + e /\ e <= a + b + c + d + e
           /\ a + b <= a + b + c + d + e /\ a + c <= a + b + c + d + e
           /\ a + d <= a + b + c + d + e /\ a + e <= a + b + c + d + e
OBVIOUS

LEMMA EntriesAre ==
    ASSUME NEW it \in DecayItem
    PROVE  /\ Entries(it) = it.queued + it.at[0] + it.at[1] + it.at[2] + it.at[3]
           /\ Entries(it) \in Nat /\ it.queued \in Nat /\ it.queued <= Entries(it)
           /\ \A b \in Buckets : it.at[b] \in Nat /\ it.queued + it.at[b] <= Entries(it)
<1>1. it.queued \in Nat /\ it.at \in [Buckets -> Nat]
  BY DEF DecayItem
<1>2. it.at[0] \in Nat /\ it.at[1] \in Nat /\ it.at[2] \in Nat /\ it.at[3] \in Nat
  BY <1>1 DEF Buckets, BUCKETS
<1>3. Entries(it) = it.queued + it.at[0] + it.at[1] + it.at[2] + it.at[3]
  <2>1. SumFunction(it.at) = it.at[0] + it.at[1] + it.at[2] + it.at[3]
    BY <1>1, FourBuckets
  <2> QED BY <1>1, <1>2, <2>1 DEF Entries
<1>4. /\ Entries(it) \in Nat /\ it.queued <= Entries(it)
      /\ it.queued + it.at[0] <= Entries(it) /\ it.queued + it.at[1] <= Entries(it)
      /\ it.queued + it.at[2] <= Entries(it) /\ it.queued + it.at[3] <= Entries(it)
  BY <1>1, <1>2, <1>3, FiveNaturals
<1>5. \A b \in Buckets : b = 0 \/ b = 1 \/ b = 2 \/ b = 3
  BY DEF Buckets, BUCKETS
<1> QED BY <1>1, <1>2, <1>3, <1>4, <1>5

\* One entry more in bucket b
LEMMA EntryAdded ==
    ASSUME NEW f \in [Buckets -> Nat], NEW b \in Buckets, NEW n \in Int,
           NEW g \in [Buckets -> Nat], g[b] = f[b] + n, \A c \in Buckets \ {b} : g[c] = f[c]
    PROVE  g[0] + g[1] + g[2] + g[3] = f[0] + f[1] + f[2] + f[3] + n
<1>1. g \in [Buckets -> Nat] /\ g[b] = f[b] + n /\ \A c \in Buckets \ {b} : g[c] = f[c]
  OBVIOUS
<1>2. b = 0 \/ b = 1 \/ b = 2 \/ b = 3
  BY DEF Buckets, BUCKETS
<1>3. 0 \in Buckets /\ 1 \in Buckets /\ 2 \in Buckets /\ 3 \in Buckets
  BY DEF Buckets, BUCKETS
<1>4. f[0] \in Nat /\ f[1] \in Nat /\ f[2] \in Nat /\ f[3] \in Nat
  BY <1>3
<1>5. g[0] + g[1] + g[2] + g[3] = f[0] + f[1] + f[2] + f[3] + n
  <2>1. CASE b = 0
    BY <1>1, <1>3, <1>4, <2>1
  <2>2. CASE b = 1
    BY <1>1, <1>3, <1>4, <2>2
  <2>3. CASE b = 2
    BY <1>1, <1>3, <1>4, <2>3
  <2>4. CASE b = 3
    BY <1>1, <1>3, <1>4, <2>4
  <2> QED BY <1>2, <2>1, <2>2, <2>3, <2>4
<1> QED BY <1>5

-----------------------------------------------------------------------------
(* The steps of one item *)

Placed(it) == IF it.placed THEN 1 ELSE 0

\* The entries, the releases to come and the place where it is are its references,
\* but for n.
Held(it, n) == it \in DecayItem /\ it.refs = Entries(it) + it.release + Placed(it) + n
Counted(it) == Held(it, 0)

\* v differs from it in its kind, its duration and the mark at most.
Rests(it, v) ==
    /\ v \in DecayItem /\ v.refs = it.refs /\ v.release = it.release /\ v.queued = it.queued
    /\ v.at = it.at /\ v.left = it.left /\ v.placed = it.placed

LEMMA KindIs ==
    ASSUME NEW it \in DecayItem
    PROVE  /\ it.kind \in DOMAIN Kind
           /\ \A k \in DOMAIN Kind :
                /\ Kind[k].time \in Nat /\ Kind[k].stop \in BOOLEAN
                /\ Kind[k].to \in DOMAIN Kind \cup {Never, Away}
                /\ Kind[k].stop => Kind[k].time = 0
                /\ Kind[k].time # 0 /\ Kind[k].to \in DOMAIN Kind =>
                     ~Kind[Kind[k].to].stop /\ (Kind[Kind[k].to].time = 0 => Kind[Kind[k].to].to = Never)
           /\ Never # Away /\ Never \notin DOMAIN Kind /\ Away \notin DOMAIN Kind
BY DecayConstants DEF DecayItem

\* An item of another kind goes on decaying only with what it had left.
LEMMA SetIDRests ==
    ASSUME NEW it \in DecayItem, NEW k \in DOMAIN Kind, NEW v, v = SetID(it, k)
    PROVE  /\ Rests(it, v) /\ v.kind = k
           /\ v.decaying => it.decaying /\ v.duration = it.duration
           /\ ~Kind[it.kind].stop /\ Kind[k].time # 0 => ~v.decaying /\ v.duration = Kind[k].time
           /\ ~Kind[k].stop /\ Kind[k].time = 0 /\ Kind[k].to = Never => ~v.decaying
<1> DEFINE a == [it EXCEPT !.kind = k]
           b == [it EXCEPT !.kind = k, !.decaying = FALSE, !.duration = NoDuration]
           bare == IF Kind[k].time = 0 /\ ~Kind[k].stop /\ Kind[k].to = Never THEN b ELSE a
           c == [bare EXCEPT !.decaying = FALSE, !.duration = Kind[k].time]
<1>1. a \in DecayItem /\ Rests(it, a) /\ a.kind = k /\ a.decaying = it.decaying /\ a.duration = it.duration
  BY DEF DecayItem, Rests
<1>2. b \in DecayItem /\ Rests(it, b) /\ b.kind = k /\ ~b.decaying
  BY DEF DecayItem, Rests
<1>3. bare \in DecayItem /\ Rests(it, bare) /\ bare.kind = k
      /\ (bare.decaying => it.decaying /\ bare.duration = it.duration)
  BY <1>1, <1>2
<1>4. Kind[k].time \in Nat
  BY KindIs
<1> HIDE DEF bare
<1>5. c \in DecayItem /\ Rests(it, c) /\ c.kind = k /\ ~c.decaying /\ c.duration = Kind[k].time
  BY <1>3, <1>4 DEF DecayItem, Rests
<1> HIDE DEF c
<1>6. v = (IF Kind[k].time > 0 /\ (~Kind[it.kind].stop \/ bare.duration = NoDuration) THEN c ELSE bare)
  BY DEF SetID, bare, c
<1>7. Kind[k].time # 0 => Kind[k].time > 0
  BY <1>4
<1>8. ~Kind[k].stop /\ Kind[k].time = 0 /\ Kind[k].to = Never => ~bare.decaying
  BY <1>2 DEF bare
<1> QED BY <1>3, <1>4, <1>5, <1>6, <1>7, <1>8

\* What is left of it has not been counted down yet, since its only entry waits.
Fresh(it) == it.queued = 1 /\ it.left = it.duration /\ it.duration > 0
Lone(it) == it.placed /\ it.decaying /\ Entries(it) = 1

\* One more entry waits, or v is as it was.
Begun(it, v, e) ==
    /\ Held(v, e) /\ v.release = it.release /\ v.at = it.at /\ v.placed = it.placed /\ v.kind = it.kind
    /\ \/ v = it
       \/ /\ ~it.decaying /\ v.decaying /\ v.queued = it.queued + 1 /\ Entries(v) = Entries(it) + 1
          /\ Entries(v) = 1 => Fresh(v)

LEMMA StartedBegun ==
    ASSUME NEW e \in Nat, NEW it, Held(it, e), CanDecay(it) /\ ~it.decaying => it.duration > 0,
           NEW v, v = Started(it)
    PROVE  Begun(it, v, e) /\ (CanDecay(it) => v.decaying)
<1>0. it \in DecayItem
  BY DEF Held
<1>1. CASE CanDecay(it) /\ ~it.decaying
  <2> DEFINE n == it.refs + 1
             q == it.queued + 1
             d == it.duration
             u == [it EXCEPT !.refs = n, !.decaying = TRUE, !.queued = q, !.left = d]
  <2>1. /\ it.refs \in Nat /\ it.queued \in Nat /\ it.duration \in Nat
        /\ it.at[0] \in Nat /\ it.at[1] \in Nat /\ it.at[2] \in Nat /\ it.at[3] \in Nat
    BY <1>0, <1>1 DEF DecayItem, NoDuration, Buckets, BUCKETS
  <2>0. n \in Nat /\ q \in Nat /\ d \in Int /\ d = it.duration
    BY <2>1
  <2> HIDE DEF n, q, d
  <2>2. /\ u \in DecayItem /\ u.refs = n /\ u.decaying /\ u.queued = q
        /\ u.left = d /\ u.duration = it.duration /\ u.release = it.release
        /\ u.at = it.at /\ u.placed = it.placed /\ u.kind = it.kind
    BY <1>0, <2>0, <2>1 DEF DecayItem
  <2>3. v = u
    BY <1>1 DEF Started, Queue, n, q, d
  <2> HIDE DEF u
  <2>4. Entries(v) = Entries(it) + 1 /\ Entries(it) \in Nat
    BY <1>0, <2>1, <2>2, <2>3, EntriesAre DEF q
  <2>5. it.refs = Entries(it) + it.release + Placed(it) + e /\ it.release \in Nat /\ Placed(it) \in Nat
        /\ Placed(v) = Placed(it)
    BY <1>0, <2>2, <2>3 DEF Held, Placed, DecayItem
  <2>6. Held(v, e)
    BY <2>1, <2>2, <2>3, <2>4, <2>5 DEF Held, n
  <2>7. Entries(v) = 1 => Fresh(v)
    <3> SUFFICES ASSUME Entries(v) = 1 PROVE Fresh(v)
      OBVIOUS
    <3>1. Entries(it) = 0
      BY <2>4
    <3>2. it.queued <= Entries(it)
      BY <1>0, EntriesAre
    <3>3. it.queued = 0
      BY <2>1, <3>1, <3>2
    <3> QED BY <1>1, <2>0, <2>1, <2>2, <2>3, <3>3 DEF Fresh, q
  <2> QED BY <1>1, <2>2, <2>3, <2>4, <2>6, <2>7 DEF Begun, q
<1>2. CASE ~(CanDecay(it) /\ ~it.decaying)
  BY <1>2 DEF Started, Begun
<1> QED BY <1>1, <1>2

\* The item is removed, if it is still there.
LEMMA RemovedCounted ==
    ASSUME NEW e \in Nat, NEW it, Held(it, e), NEW v, v = InternalRemoveItem(it)
    PROVE  /\ Held(v, e) /\ ~v.placed /\ Entries(v) = Entries(it) /\ v.decaying = it.decaying
           /\ v.refs = it.refs /\ v.at = it.at
<1>0. it \in DecayItem
  BY DEF Held
<1>1. CASE ~it.placed
  BY <1>0, <1>1 DEF InternalRemoveItem
<1>2. CASE it.placed
  <2> DEFINE n == it.release + 1
             x == [it EXCEPT !.placed = FALSE, !.release = n]
  <2>1. it.release \in Nat /\ n \in Nat
    BY <1>0 DEF DecayItem
  <2> HIDE DEF n
  <2>2. /\ x \in DecayItem /\ ~x.placed /\ x.release = n /\ x.refs = it.refs
        /\ x.queued = it.queued /\ x.at = it.at /\ x.decaying = it.decaying
    BY <1>0, <2>1 DEF DecayItem
  <2>3. v = x
    BY <1>0, <1>2 DEF InternalRemoveItem, Release, n, DecayItem
  <2> HIDE DEF x
  <2>4. Entries(v) = Entries(it) /\ Entries(it) \in Nat
    BY <1>0, <2>2, <2>3, EntriesAre DEF Entries
  <2> QED BY <1>0, <1>2, <2>1, <2>2, <2>3, <2>4 DEF Held, Placed, n
<1> QED BY <1>1, <1>2

LEMMA RestsCounted ==
    ASSUME NEW e \in Nat, NEW it, Held(it, e), NEW v, Rests(it, v)
    PROVE  Held(v, e) /\ Entries(v) = Entries(it)
<1>1. Entries(v) = Entries(it)
  BY DEF Rests, Entries
<1> QED BY <1>1 DEF Rests, Held, Placed

\* What decays turns into something that decays from the start, or not at all.
LEMMA DecaysOnce ==
    ASSUME NEW e \in Nat, NEW it, Held(it, e), CanDecay(it), NEW v, v = InternalDecayItem(it)
    PROVE  /\ Held(v, e) /\ v.at = it.at
           /\ v.placed /\ v.decaying => /\ Entries(v) = Entries(it) + 1
                                        /\ Entries(v) = 1 => Fresh(v)
           /\ ~v.placed => /\ Entries(v) = Entries(it) /\ v.decaying = it.decaying
                           /\ v.refs = it.refs
<1>0. it \in DecayItem /\ it.placed /\ Kind[it.kind].time # 0 /\ Kind[it.kind].to # Never
  BY DEF Held, CanDecay
<1> DEFINE k == Kind[it.kind].to
<1>1. CASE k = Away
  <2>1. v = InternalRemoveItem(it)
    BY <1>0, <1>1 DEF InternalDecayItem
  <2> QED BY <2>1, RemovedCounted
<1>2. CASE k # Away
  <2>1. /\ k \in DOMAIN Kind /\ ~Kind[it.kind].stop /\ ~Kind[k].stop /\ Kind[k].time \in Nat
        /\ Kind[k].time = 0 => Kind[k].to = Never
    BY <1>0, <1>2, KindIs
  <2> DEFINE w == SetID(it, k)
  <2> HIDE DEF k
  <2>2. /\ Rests(it, w) /\ w.kind = k /\ ~w.decaying
        /\ Kind[k].time # 0 => w.duration = Kind[k].time
    BY <1>0, <2>1, SetIDRests
  <2>3. v = Started(w)
    BY <1>0, <1>2 DEF InternalDecayItem, k
  <2> HIDE DEF w
  <2>4. Held(w, e) /\ Entries(w) = Entries(it)
    BY <2>2, RestsCounted
  <2>5. CanDecay(w) => w.duration > 0
    BY <2>1, <2>2 DEF CanDecay
  <2>6. Begun(w, v, e)
    BY <2>3, <2>4, <2>5, StartedBegun
  <2> QED BY <1>0, <2>2, <2>4, <2>6 DEF Begun, Rests
<1> QED BY <1>1, <1>2

-----------------------------------------------------------------------------
(* The wheel *)

\* When there are t eighths of a second to the next visit: it is on time.
Due(it, t) ==
    \/ it.duration >= ROUND /\ it.left - t \in {it.duration - ROUND, it.duration - ROUND - INTERVAL}
    \/ it.duration < ROUND /\ it.left - t \in 1 - 2 * INTERVAL .. ROUND - 1 - INTERVAL

\* Its entry is in the bucket that is visited k checks after bucket b.
Aligned(it, b) == \E k \in 1 .. BUCKETS : it.at[(b + k) % BUCKETS] = 1 /\ Due(it, k * INTERVAL)

\* The entry waits, for no longer than since the last check.
Waiting(it) == it.queued = 1 /\ it.duration > 0 /\ it.left \in {it.duration, it.duration - INTERVAL}

\* In bucket b there are m entries yet to be visited.
Midway(it, b, m) ==
    /\ Counted(it) /\ it.at[b] >= m
    /\ it.placed /\ it.decaying => Entries(it) > 0
    /\ Lone(it) => \/ Waiting(it)
                   \/ m = 1 /\ it.at[b] = 1 /\ Due(it, 0)
                   \/ m = 0 /\ Aligned(it, b)

LEMMA ReleaseCounted ==
    ASSUME NEW it \in DecayItem, NEW v, v = Release(it)
    PROVE  /\ v \in DecayItem /\ v.release = it.release + 1 /\ Entries(v) = Entries(it)
           /\ v.at = it.at /\ v.placed = it.placed /\ v.decaying = it.decaying /\ v.refs = it.refs
           /\ v.queued = it.queued /\ v.left = it.left /\ v.duration = it.duration /\ v.kind = it.kind
<1> DEFINE n == it.release + 1
           x == [it EXCEPT !.release = n]
<1>1. n \in Nat
  BY DEF DecayItem
<1> HIDE DEF n
<1>2. /\ x \in DecayItem /\ x.release = n
      /\ x.at = it.at /\ x.placed = it.placed /\ x.decaying = it.decaying /\ x.refs = it.refs
      /\ x.queued = it.queued /\ x.left = it.left /\ x.duration = it.duration /\ x.kind = it.kind
  BY <1>1 DEF DecayItem
<1>3. v = x
  BY DEF Release, n, DecayItem
<1> QED BY <1>2, <1>3 DEF Entries, n

\* The reference that an entry held is given back.
LEMMA ReleasedCounted ==
    ASSUME NEW it, Held(it, 1), NEW v, v = Release(it)
    PROVE  /\ Counted(v) /\ v.at = it.at /\ v.placed = it.placed /\ v.decaying = it.decaying
           /\ Entries(v) = Entries(it) /\ v.queued = it.queued /\ v.left = it.left
           /\ v.duration = it.duration /\ v.kind = it.kind
<1>1. it \in DecayItem /\ it.refs = Entries(it) + it.release + Placed(it) + 1
  BY DEF Held
<1>2. /\ v \in DecayItem /\ v.release = it.release + 1 /\ Entries(v) = Entries(it)
      /\ v.at = it.at /\ v.placed = it.placed /\ v.decaying = it.decaying /\ v.refs = it.refs
      /\ v.queued = it.queued /\ v.left = it.left /\ v.duration = it.duration /\ v.kind = it.kind
  BY <1>1, ReleaseCounted
<1>3. Entries(it) \in Nat /\ it.release \in Nat /\ Placed(it) \in Nat /\ Placed(v) = Placed(it)
  BY <1>1, <1>2, EntriesAre DEF DecayItem, Placed
<1>4. v.refs = Entries(v) + v.release + Placed(v) + 0
  BY <1>1, <1>2, <1>3
<1> QED BY <1>2, <1>4 DEF Counted, Held

\* One entry is taken from bucket b, or comes into it.
TakeOut(it, b, d, f) ==
    [it EXCEPT !.at = [it.at EXCEPT ![b] = @ - 1], !.duration = d, !.decaying = f]

PutIn(it, b) == [it EXCEPT !.at[b] = @ + 1]

LEMMA EntryOut ==
    ASSUME NEW it, Counted(it), NEW b \in Buckets, it.at[b] >= 1, NEW d \in Nat \cup {NoDuration},
           NEW f \in BOOLEAN, NEW v, v = TakeOut(it, b, d, f)
    PROVE  /\ Held(v, 1) /\ Entries(v) = Entries(it) - 1 /\ v.at[b] = it.at[b] - 1
           /\ \A c \in Buckets \ {b} : v.at[c] = it.at[c]
           /\ v.placed = it.placed /\ v.decaying = f /\ v.duration = d /\ v.queued = it.queued
           /\ v.left = it.left /\ v.kind = it.kind /\ v.release = it.release /\ v.refs = it.refs
<1>0. it \in DecayItem /\ it.at \in [Buckets -> Nat]
  BY DEF Counted, Held, DecayItem
<1> DEFINE g == [it.at EXCEPT ![b] = @ - 1]
<1>1. /\ g \in [Buckets -> Nat] /\ g[b] = it.at[b] - 1 /\ \A c \in Buckets \ {b} : g[c] = it.at[c]
      /\ g[0] + g[1] + g[2] + g[3] = it.at[0] + it.at[1] + it.at[2] + it.at[3] - 1
  <2>1. it.at[b] \in Nat /\ it.at[b] >= 1 /\ it.at[b] - 1 \in Nat
    BY <1>0
  <2>2. g \in [Buckets -> Nat] /\ g[b] = it.at[b] - 1 /\ \A c \in Buckets \ {b} : g[c] = it.at[c]
    BY <1>0, <2>1
  <2> HIDE DEF g
  <2> DEFINE n == 0 - 1
  <2>3. n \in Int /\ g[b] = it.at[b] + n
    BY <2>1, <2>2
  <2>4. \A c \in Buckets : it.at[c] \in Nat /\ g[c] \in Nat
    BY <1>0, <2>2
  <2>5. /\ it.at[0] \in Nat /\ it.at[1] \in Nat /\ it.at[2] \in Nat /\ it.at[3] \in Nat
        /\ g[0] \in Nat /\ g[1] \in Nat /\ g[2] \in Nat /\ g[3] \in Nat
    BY <2>4 DEF Buckets, BUCKETS
  <2> HIDE DEF n
  <2>6. g[0] + g[1] + g[2] + g[3] = it.at[0] + it.at[1] + it.at[2] + it.at[3] + n
    BY <1>0, <2>2, <2>3, EntryAdded
  <2>7. g[0] + g[1] + g[2] + g[3] = it.at[0] + it.at[1] + it.at[2] + it.at[3] - 1
    BY <2>5, <2>6 DEF n
  <2> QED BY <2>2, <2>7
<1> HIDE DEF g
<1> DEFINE x == [it EXCEPT !.at = g, !.duration = d, !.decaying = f]
<1>2. /\ x \in DecayItem /\ x.at = g /\ x.placed = it.placed /\ x.decaying = f /\ x.duration = d
      /\ x.queued = it.queued /\ x.left = it.left /\ x.kind = it.kind /\ x.release = it.release
      /\ x.refs = it.refs
  BY <1>0, <1>1 DEF DecayItem
<1>3. v = x
  BY DEF g, TakeOut
<1> HIDE DEF x
<1>4. Entries(v) = Entries(it) - 1
  <2>1. Entries(v) = v.queued + g[0] + g[1] + g[2] + g[3]
    BY <1>2, <1>3, EntriesAre
  <2>2. Entries(it) = it.queued + it.at[0] + it.at[1] + it.at[2] + it.at[3]
    BY <1>0, EntriesAre
  <2>3. /\ it.at[0] \in Nat /\ it.at[1] \in Nat /\ it.at[2] \in Nat /\ it.at[3] \in Nat /\ it.queued \in Nat
        /\ g[0] \in Nat /\ g[1] \in Nat /\ g[2] \in Nat /\ g[3] \in Nat
    BY <1>0, <1>1 DEF Buckets, BUCKETS, DecayItem
  <2> QED BY <1>1, <1>2, <1>3, <2>1, <2>2, <2>3
<1>5. /\ it.refs = Entries(it) + it.release + Placed(it) /\ Placed(v) = Placed(it)
      /\ Entries(it) \in Nat /\ it.release \in Nat /\ Placed(it) \in Nat
  <2>1. Entries(it) \in Nat
    BY <1>0, EntriesAre
  <2>2. it.release \in Nat /\ Placed(it) \in Nat /\ Placed(v) = Placed(it)
    BY <1>0, <1>2, <1>3 DEF DecayItem, Placed
  <2>3. it.refs = Entries(it) + it.release + Placed(it) + 0
    BY DEF Counted, Held
  <2> QED BY <2>1, <2>2, <2>3
<1>6. v.refs = Entries(v) + v.release + Placed(v) + 1
  BY <1>2, <1>3, <1>4, <1>5
<1> QED BY <1>1, <1>2, <1>3, <1>4, <1>6 DEF Held

LEMMA EntryIn ==
    ASSUME NEW it, Held(it, 1), NEW c \in Buckets, NEW v, v = PutIn(it, c)
    PROVE  /\ Counted(v) /\ Entries(v) = Entries(it) + 1 /\ v.at[c] = it.at[c] + 1
           /\ \A b \in Buckets \ {c} : v.at[b] = it.at[b]
           /\ v.placed = it.placed /\ v.decaying = it.decaying /\ v.duration = it.duration
           /\ v.left = it.left /\ v.kind = it.kind
<1>0. it \in DecayItem /\ it.at \in [Buckets -> Nat]
  BY DEF Held, DecayItem
<1> DEFINE g == [it.at EXCEPT ![c] = @ + 1]
           x == [it EXCEPT !.at = g]
<1>1. /\ g \in [Buckets -> Nat] /\ g[c] = it.at[c] + 1 /\ \A b \in Buckets \ {c} : g[b] = it.at[b]
  BY <1>0
<1>2. v = x
  BY <1>0 DEF DecayItem, PutIn
<1> HIDE DEF g
<1>3. /\ x \in DecayItem /\ x.at = g /\ x.placed = it.placed /\ x.decaying = it.decaying
      /\ x.duration = it.duration /\ x.queued = it.queued /\ x.left = it.left /\ x.kind = it.kind
      /\ x.release = it.release /\ x.refs = it.refs
  BY <1>0, <1>1 DEF DecayItem
<1> HIDE DEF x
<1>4. Entries(v) = Entries(it) + 1
  <2>1. Entries(v) = v.queued + g[0] + g[1] + g[2] + g[3]
    BY <1>2, <1>3, EntriesAre
  <2>2. Entries(it) = it.queued + it.at[0] + it.at[1] + it.at[2] + it.at[3] /\ it.queued \in Nat
    BY <1>0, EntriesAre
  <2>3. \A b \in Buckets : it.at[b] \in Nat /\ g[b] \in Nat
    BY <1>0, <1>1
  <2>4. /\ it.at[0] \in Nat /\ it.at[1] \in Nat /\ it.at[2] \in Nat /\ it.at[3] \in Nat
        /\ g[0] \in Nat /\ g[1] \in Nat /\ g[2] \in Nat /\ g[3] \in Nat
    BY <2>3 DEF Buckets, BUCKETS
  <2>5. g[0] + g[1] + g[2] + g[3] = it.at[0] + it.at[1] + it.at[2] + it.at[3] + 1
    BY <1>0, <1>1, EntryAdded
  <2>6. v.queued = it.queued
    BY <1>2, <1>3
  <2> QED BY <2>1, <2>2, <2>4, <2>5, <2>6
<1>5. /\ it.refs = Entries(it) + it.release + Placed(it) + 1 /\ Placed(v) = Placed(it)
      /\ Entries(it) \in Nat /\ it.release \in Nat /\ Placed(it) \in Nat
  <2>1. Entries(it) \in Nat
    BY <1>0, EntriesAre
  <2>2. it.release \in Nat /\ Placed(it) \in Nat /\ Placed(v) = Placed(it)
    BY <1>0, <1>2, <1>3 DEF DecayItem, Placed
  <2> QED BY <2>1, <2>2 DEF Held
<1>6. v.refs = Entries(v) + v.release + Placed(v) + 0
  BY <1>2, <1>3, <1>4, <1>5
<1> QED BY <1>1, <1>2, <1>3, <1>4, <1>6 DEF Counted, Held

\* Where one entry is, there is no other.
LEMMA OneBucket ==
    ASSUME NEW it \in DecayItem, Entries(it) = 1, NEW b \in Buckets, it.at[b] = 1
    PROVE  it.queued = 0 /\ \A c \in Buckets \ {b} : it.at[c] = 0
<1>1. /\ it.queued \in Nat /\ it.queued + it.at[b] <= 1
      /\ \A c \in Buckets : it.at[c] \in Nat
  BY EntriesAre
<1>2. it.queued = 0
  BY <1>1
<1>3. /\ it.at[0] + it.at[1] + it.at[2] + it.at[3] = 1
      /\ it.at[0] \in Nat /\ it.at[1] \in Nat /\ it.at[2] \in Nat /\ it.at[3] \in Nat
  <2>1. /\ it.at[0] \in Nat /\ it.at[1] \in Nat /\ it.at[2] \in Nat /\ it.at[3] \in Nat
    BY <1>1 DEF Buckets, BUCKETS
  <2>2. it.queued + it.at[0] + it.at[1] + it.at[2] + it.at[3] = 1
    BY EntriesAre
  <2> QED BY <1>2, <2>1, <2>2
<1>4. ASSUME NEW c \in Buckets \ {b} PROVE it.at[c] = 0
  <2>1. b \in {0, 1, 2, 3} /\ c \in {0, 1, 2, 3} /\ b # c
    BY DEF Buckets, BUCKETS
  <2> DEFINE a0 == it.at[0]
             a1 == it.at[1]
             a2 == it.at[2]
             a3 == it.at[3]
  <2>2. /\ a0 + a1 + a2 + a3 = 1 /\ a0 \in Nat /\ a1 \in Nat /\ a2 \in Nat /\ a3 \in Nat
    BY <1>3
  <2>3. CASE b = 0
    <3>1. a0 = 1
      BY <2>3
    <3> HIDE DEF a0, a1, a2, a3
    <3>2. a1 = 0 /\ a2 = 0 /\ a3 = 0
      BY <2>2, <3>1
    <3> QED BY <2>1, <2>3, <3>2 DEF a1, a2, a3
  <2>4. CASE b = 1
    <3>1. a1 = 1
      BY <2>4
    <3> HIDE DEF a0, a1, a2, a3
    <3>2. a0 = 0 /\ a2 = 0 /\ a3 = 0
      BY <2>2, <3>1
    <3> QED BY <2>1, <2>4, <3>2 DEF a0, a2, a3
  <2>5. CASE b = 2
    <3>1. a2 = 1
      BY <2>5
    <3> HIDE DEF a0, a1, a2, a3
    <3>2. a0 = 0 /\ a1 = 0 /\ a3 = 0
      BY <2>2, <3>1
    <3> QED BY <2>1, <2>5, <3>2 DEF a0, a1, a3
  <2>6. CASE b = 3
    <3>1. a3 = 1
      BY <2>6
    <3> HIDE DEF a0, a1, a2, a3
    <3>2. a0 = 0 /\ a1 = 0 /\ a2 = 0
      BY <2>2, <3>1
    <3> QED BY <2>1, <2>6, <3>2 DEF a0, a1, a2
  <2> QED BY <2>1, <2>3, <2>4, <2>5, <2>6
<1> QED BY <1>2, <1>4

\* Only the visit that is on time finds the one entry of an item.
LEMMA LoneVisit ==
    ASSUME NEW it, NEW b \in Buckets, NEW m \in Nat, m >= 1, Midway(it, b, m), Lone(it)
    PROVE  m = 1 /\ it.at[b] = 1 /\ Due(it, 0) /\ it.queued = 0
           /\ \A c \in Buckets \ {b} : it.at[c] = 0
<1>1. it \in DecayItem /\ it.at[b] >= m /\ Entries(it) = 1
  BY DEF Midway, Counted, Held, Lone
<1>2. /\ it.queued \in Nat /\ it.at[b] \in Nat /\ it.queued + it.at[b] <= 1
      /\ \A c \in Buckets : it.at[c] \in Nat
  BY <1>1, EntriesAre
<1>3. it.queued = 0 /\ it.at[b] = 1 /\ m = 1
  BY <1>1, <1>2
<1>4. Due(it, 0)
  BY <1>3 DEF Midway, Waiting
<1> QED BY <1>1, <1>3, <1>4, OneBucket

\* What a visit finds left, and the bucket it chooses.
NextDuration(it) == IF it.duration > ROUND THEN it.duration - ROUND ELSE 0
NextBucket(it, b) == (b + (NextDuration(it) + INTERVAL \div 2) \div 8) % BUCKETS

LEMMA NextIs ==
    ASSUME NEW it \in DecayItem, NEW b \in Buckets
    PROVE  /\ NextDuration(it) \in Nat /\ NextBucket(it, b) \in Buckets
           /\ NextDuration(it) < ROUND /\ NextBucket(it, b) # b =>
                NextDuration(it) = 7 /\ NextBucket(it, b) = (b + 1) % BUCKETS
           /\ NextDuration(it) # 0 => it.duration = NextDuration(it) + ROUND
<1>1. it.duration \in Int /\ NextDuration(it) \in Nat
  BY DEF DecayItem, NoDuration, NextDuration, ROUND, BUCKETS, INTERVAL
<1>2. NextDuration(it) # 0 => it.duration = NextDuration(it) + ROUND
  BY <1>1 DEF NextDuration, ROUND, BUCKETS, INTERVAL
<1> DEFINE d == NextDuration(it)
<1>3. INTERVAL \div 2 = 1 /\ ROUND = 8 /\ BUCKETS = 4
  BY DEF INTERVAL, ROUND, BUCKETS
<1>4. NextBucket(it, b) = (b + (d + 1) \div 8) % 4 /\ b \in 0 .. 3 /\ d \in Nat
  BY <1>1, <1>3 DEF NextBucket, Buckets
<1> HIDE DEF d
<1>5. NextBucket(it, b) \in 0 .. 3
  BY <1>4
<1>6. d < 8 /\ d # 7 => (d + 1) \div 8 = 0
  BY <1>4
<1>7. d = 7 => (d + 1) \div 8 = 1
  OBVIOUS
<1>8. (b + 0) % 4 = b
  BY <1>4
<1> QED BY <1>1, <1>2, <1>3, <1>4, <1>5, <1>6, <1>7, <1>8 DEF d, Buckets

\* The entry of an item that decays goes once around the wheel with what is left
\* of its time, or is taken out of it.
LEMMA VisitMidway ==
    ASSUME NEW it, NEW b \in Buckets, NEW m \in Nat, m >= 1, Midway(it, b, m),
           NEW v, v = Visit(it, b)
    PROVE  /\ Midway(v, b, m - 1)
           /\ Lone(it) /\ CanDecay(it) /\ (~v.placed \/ v.kind # it.kind) =>
                it.left \in 1 - 2 * INTERVAL .. ROUND - 1
<1>0. /\ it \in DecayItem /\ Counted(it) /\ it.at \in [Buckets -> Nat] /\ it.at[b] >= m
      /\ it.at[b] \in Nat /\ Entries(it) \in Nat /\ Entries(it) > 0
      /\ it.duration \in Nat \cup {NoDuration} /\ it.decaying \in BOOLEAN /\ it.placed \in BOOLEAN
  <2>1. it \in DecayItem /\ Counted(it) /\ it.at[b] >= m
    BY DEF Midway, Counted, Held
  <2>2. Entries(it) \in Nat /\ it.at[b] \in Nat /\ it.queued \in Nat /\ it.queued + it.at[b] <= Entries(it)
    BY <2>1, EntriesAre
  <2>3. Entries(it) > 0
    BY <2>1, <2>2
  <2> QED BY <2>1, <2>2, <2>3 DEF DecayItem
<1> DEFINE d == NextDuration(it)
           nb == NextBucket(it, b)
           out == TakeOut(it, b, d, it.decaying)
           gone == TakeOut(it, b, it.duration, FALSE)
<1>1. /\ d \in Nat /\ nb \in Buckets
      /\ d < ROUND /\ nb # b => d = 7 /\ nb = (b + 1) % BUCKETS
      /\ d # 0 => it.duration = d + ROUND
  BY <1>0, NextIs
<1>2. /\ out = [it EXCEPT !.at[b] = @ - 1, !.duration = d]
      /\ gone = [it EXCEPT !.at[b] = @ - 1, !.decaying = FALSE]
  BY <1>0 DEF DecayItem, TakeOut
<1>3. v = IF ~CanDecay(it) THEN Release(gone)
          ELSE IF d = 0 \/ (d < ROUND /\ nb = b) THEN Release(InternalDecayItem(out))
          ELSE IF d < ROUND THEN PutIn(out, nb)
          ELSE [it EXCEPT !.duration = d]
  <2> HIDE DEF out, gone
  <2> QED BY <1>2 DEF Visit, NextDuration, NextBucket, PutIn
<1>4. /\ Held(out, 1) /\ Entries(out) = Entries(it) - 1 /\ out.at[b] = it.at[b] - 1
      /\ \A c \in Buckets \ {b} : out.at[c] = it.at[c]
      /\ out.placed = it.placed /\ out.decaying = it.decaying /\ out.duration = d
      /\ out.left = it.left /\ out.kind = it.kind /\ out.queued = it.queued
  <2>1. d \in Nat \cup {NoDuration} /\ it.at[b] >= 1
    BY <1>0, <1>1
  <2>2. out = TakeOut(it, b, d, it.decaying)
    OBVIOUS
  <2> HIDE DEF d, out
  <2> QED BY <1>0, <2>1, <2>2, EntryOut
<1>5. /\ Held(gone, 1) /\ Entries(gone) = Entries(it) - 1 /\ gone.at[b] = it.at[b] - 1
      /\ ~gone.decaying /\ gone.placed = it.placed
  <2>1. it.at[b] >= 1 /\ FALSE \in BOOLEAN /\ it.duration \in Nat \cup {NoDuration}
        /\ Counted(it) /\ b \in Buckets
    BY <1>0
  <2> DEFINE no == FALSE
             e == it.duration
  <2>2. gone = TakeOut(it, b, e, no) /\ no \in BOOLEAN /\ e \in Nat \cup {NoDuration}
    BY <2>1
  <2>3. ~no
    OBVIOUS
  <2> HIDE DEF gone, no, e
  <2>4. /\ Held(gone, 1) /\ Entries(gone) = Entries(it) - 1 /\ gone.at[b] = it.at[b] - 1
        /\ gone.decaying = no /\ gone.placed = it.placed
    BY ONLY <2>1, <2>2, EntryOut
  <2> QED BY <2>3, <2>4
<1>6. Lone(it) => m = 1 /\ it.at[b] = 1 /\ Due(it, 0) /\ \A c \in Buckets \ {b} : it.at[c] = 0
  BY LoneVisit
<1> HIDE DEF d, nb, out, gone
<1>7. CASE ~CanDecay(it)
  <2>1. v = Release(gone)
    BY <1>3, <1>7
  <2>2. /\ Counted(v) /\ v.at[b] = it.at[b] - 1 /\ ~v.decaying
    BY <1>5, <2>1, ReleasedCounted
  <2> QED BY <1>0, <1>7, <2>2 DEF Midway, Lone
<1>8. CASE CanDecay(it) /\ (d = 0 \/ (d < ROUND /\ nb = b))
  <2> DEFINE w == InternalDecayItem(out)
  <2>1. v = Release(w)
    BY <1>3, <1>8
  <2>2. CanDecay(out)
    BY <1>4, <1>8 DEF CanDecay
  <2>3. /\ Held(w, 1) /\ w.at = out.at
        /\ w.placed /\ w.decaying => /\ Entries(w) = Entries(it)
                                     /\ Entries(w) = 1 => Fresh(w)
    <3>1. /\ Held(w, 1) /\ w.at = out.at
          /\ w.placed /\ w.decaying => /\ Entries(w) = Entries(out) + 1
                                       /\ Entries(w) = 1 => Fresh(w)
      <4> HIDE DEF w
      <4>1. 1 \in Nat /\ w = InternalDecayItem(out)
        BY DEF w
      <4> QED BY <1>4, <2>2, <4>1, DecaysOnce
    <3> QED BY <1>0, <1>4, <3>1
  <2> HIDE DEF w
  <2>4. /\ Counted(v) /\ v.at = w.at /\ v.placed = w.placed /\ v.decaying = w.decaying
        /\ Entries(v) = Entries(w) /\ v.queued = w.queued /\ v.left = w.left /\ v.duration = w.duration
    BY <2>1, <2>3, ReleasedCounted
  <2>5. v.at[b] >= m - 1
    BY <1>0, <1>4, <2>3, <2>4
  <2>6. Midway(v, b, m - 1)
    BY <1>0, <2>3, <2>4, <2>5 DEF Midway, Lone, Fresh, Waiting
  <2>7. Lone(it) => it.left \in 1 - 2 * INTERVAL .. ROUND - 1
    <3> SUFFICES ASSUME Lone(it) PROVE it.left \in 1 - 2 * INTERVAL .. ROUND - 1
      OBVIOUS
    <3>1. Due(it, 0) /\ it.left \in Int
      BY <1>0, <1>6 DEF DecayItem
    <3>2. it.duration < ROUND + ROUND
      BY <1>0, <1>1, <1>8 DEF d, NextDuration, NoDuration, ROUND, BUCKETS, INTERVAL
    <3>3. it.duration \in Int
      BY <1>0 DEF NoDuration
    <3>4. CASE it.duration < ROUND
      BY <3>1, <3>3, <3>4 DEF Due, ROUND, BUCKETS, INTERVAL
    <3>5. CASE it.duration >= ROUND
      <4>1. d <= 6
        <5>1. d = 7 /\ nb = b => FALSE
          <6>1. d = 7 => nb = (b + 1) % 4
            <7>1. d = 7 => (d + INTERVAL \div 2) \div 8 = 1
              BY DEF INTERVAL
            <7> QED BY <7>1 DEF nb, NextBucket, d, BUCKETS
          <6>2. b \in 0 .. 3
            BY DEF Buckets, BUCKETS
          <6>3. (b + 1) % 4 # b
            BY <6>2
          <6> QED BY <6>1, <6>3
        <5> QED BY <1>1, <1>8, <5>1 DEF ROUND, BUCKETS, INTERVAL
      <4>2. it.duration - ROUND <= 6
        BY <1>1, <3>3, <4>1 DEF d, NextDuration, ROUND, BUCKETS, INTERVAL
      <4> QED BY <3>1, <3>3, <3>5, <4>2 DEF Due, ROUND, BUCKETS, INTERVAL
    <3> QED BY <3>3, <3>4, <3>5 DEF ROUND, BUCKETS, INTERVAL
  <2> QED BY <2>6, <2>7
<1>9. CASE CanDecay(it) /\ ~(d = 0 \/ (d < ROUND /\ nb = b)) /\ d < ROUND
  <2>1. v = PutIn(out, nb) /\ nb # b /\ d = 7 /\ nb = (b + 1) % BUCKETS
        /\ it.duration = d + ROUND
    BY <1>1, <1>3, <1>9
  <2>2. /\ Counted(v) /\ Entries(v) = Entries(it) /\ v.at[nb] = it.at[nb] + 1
        /\ v.at[b] = it.at[b] - 1
        /\ v.placed = it.placed /\ v.decaying = it.decaying /\ v.duration = d
        /\ v.left = it.left /\ v.kind = it.kind
    <3>1. /\ Counted(v) /\ Entries(v) = Entries(out) + 1 /\ v.at[nb] = out.at[nb] + 1
          /\ \A c \in Buckets \ {nb} : v.at[c] = out.at[c]
          /\ v.placed = out.placed /\ v.decaying = out.decaying /\ v.duration = out.duration
          /\ v.left = out.left /\ v.kind = out.kind
      <4>1. Held(out, 1) /\ nb \in Buckets /\ v = PutIn(out, nb)
        BY <1>1, <1>4, <2>1
      <4> QED BY ONLY <4>1, EntryIn
    <3> QED BY <1>0, <1>1, <1>4, <2>1, <3>1
  <2>3. Lone(v) => m - 1 = 0 /\ Aligned(v, b)
    <3> SUFFICES ASSUME Lone(v) PROVE m - 1 = 0 /\ Aligned(v, b)
      OBVIOUS
    <3>1. Lone(it)
      BY <2>2 DEF Lone
    <3>2. m = 1 /\ Due(it, 0) /\ it.at[nb] = 0
      BY <1>1, <1>6, <2>1, <3>1
    <3>3. v.at[(b + 1) % BUCKETS] = 1
      BY <2>1, <2>2, <3>2
    <3>4. Due(v, 1 * INTERVAL)
      <4>1. it.left \in Int /\ it.duration = 15
        BY <1>0, <2>1 DEF DecayItem, ROUND, BUCKETS, INTERVAL
      <4>2. it.left \in {7, 5}
        BY <3>2, <4>1 DEF Due, ROUND, BUCKETS, INTERVAL
      <4>3. v.duration = 7 /\ v.left \in {7, 5}
        BY <2>1, <2>2, <4>2
      <4> QED BY <4>3 DEF Due, ROUND, BUCKETS, INTERVAL
    <3> QED BY <3>2, <3>3, <3>4 DEF Aligned, BUCKETS
  <2>4. v.at[b] >= m - 1 /\ Entries(v) > 0
    BY <1>0, <2>2
  <2>5. v.placed = it.placed /\ v.kind = it.kind
    BY <1>4, <2>2
  <2>6. Midway(v, b, m - 1)
    BY <2>2, <2>3, <2>4 DEF Midway
  <2> QED BY <1>9, <2>5, <2>6 DEF CanDecay
<1>10. CASE CanDecay(it) /\ ~(d = 0 \/ (d < ROUND /\ nb = b)) /\ ~(d < ROUND)
  <2>1. v = [it EXCEPT !.duration = d] /\ it.duration = d + ROUND /\ d >= ROUND
    BY <1>1, <1>3, <1>10 DEF ROUND, BUCKETS, INTERVAL
  <2>2. /\ v \in DecayItem /\ v.at = it.at /\ v.queued = it.queued /\ v.refs = it.refs
        /\ v.release = it.release /\ v.placed = it.placed /\ v.decaying = it.decaying
        /\ v.left = it.left /\ v.kind = it.kind /\ v.duration = d
    BY <1>0, <1>1, <2>1 DEF DecayItem
  <2>3. Entries(v) = Entries(it) /\ Placed(v) = Placed(it)
    BY <2>2 DEF Entries, Placed
  <2>4. Counted(v) /\ v.at[b] >= m - 1
    BY <1>0, <2>2, <2>3 DEF Counted, Held
  <2>5. Lone(v) => m - 1 = 0 /\ Aligned(v, b)
    <3> SUFFICES ASSUME Lone(v) PROVE m - 1 = 0 /\ Aligned(v, b)
      OBVIOUS
    <3>1. m = 1 /\ it.at[b] = 1 /\ Due(it, 0)
      BY <1>6, <2>2, <2>3 DEF Lone
    <3>2. (b + 4) % BUCKETS = b
      BY DEF Buckets, BUCKETS
    <3>3. Due(v, 4 * INTERVAL)
      <4>1. it.left \in Int /\ it.duration = d + 8 /\ d \in Nat /\ d >= 8
        BY <1>0, <1>1, <2>1 DEF DecayItem, ROUND, BUCKETS, INTERVAL
      <4>2. it.left \in {d, d - 2}
        BY <3>1, <4>1 DEF Due, ROUND, BUCKETS, INTERVAL
      <4> QED BY <2>2, <4>1, <4>2 DEF Due, ROUND, BUCKETS, INTERVAL
    <3>4. 4 \in 1 .. BUCKETS
      BY DEF BUCKETS
    <3> QED BY <2>2, <3>1, <3>2, <3>3, <3>4 DEF Aligned
  <2>6. Midway(v, b, m - 1)
    <3>1. Entries(v) > 0
      BY <1>0, <2>3
    <3> QED BY <2>4, <2>5, <3>1 DEF Midway
  <2> QED BY <1>10, <2>2, <2>6 DEF CanDecay
<1> QED BY <1>7, <1>8, <1>9, <1>10

\* f is the item after each of N visits of bucket b.
AreVisits(u, b, N, f) == f = [n \in 0 .. N |-> IF n = 0 THEN u ELSE Visit(f[n - 1], b)]

LEMMA VisitsExist ==
    ASSUME NEW u, NEW b, NEW N \in Nat
    PROVE  \E f : AreVisits(u, b, N, f)
<1> DEFINE Good == {m \in Nat : \E f : AreVisits(u, b, m, f)}
           R(w) == Visit(w, b)
<1>1. 0 \in Good
  <2> DEFINE f == [n \in 0 .. 0 |-> u]
  <2>1. \A n \in 0 .. 0 : u = IF n = 0 THEN u ELSE R(f[n - 1])
    OBVIOUS
  <2> HIDE DEF R
  <2>2. f = [n \in 0 .. 0 |-> IF n = 0 THEN u ELSE R(f[n - 1])]
    BY <2>1
  <2>3. AreVisits(u, b, 0, f)
    BY <2>2 DEF AreVisits, R
  <2> QED BY <2>3
<1>2. ASSUME NEW m \in Nat, m \in Good PROVE m + 1 \in Good
  <2>1. PICK f : AreVisits(u, b, m, f)
    BY <1>2
  <2> DEFINE V(h, n) == IF n = 0 THEN u ELSE R(h[n - 1])
             g == [n \in 0 .. m + 1 |-> V(f, n)]
  <2>2. f = [n \in 0 .. m |-> V(f, n)]
    BY <2>1 DEF AreVisits
  <2> HIDE DEF R
  <2>3. \A n \in 0 .. m : g[n] = f[n]
    <3> HIDE DEF V
    <3> QED BY <2>2
  <2>4. ASSUME NEW n \in 0 .. m + 1 PROVE V(f, n) = V(g, n)
    <3>1. CASE n = 0
      BY <3>1
    <3>2. CASE n # 0
      <4>1. n - 1 \in 0 .. m
        BY <3>2
      <4>2. g[n - 1] = f[n - 1]
        BY <2>3, <4>1
      <4> HIDE DEF g
      <4> QED BY <4>2
    <3> QED BY <3>1, <3>2
  <2>5. g = [n \in 0 .. m + 1 |-> V(g, n)]
    <3> HIDE DEF V
    <3> QED BY <2>4
  <2>6. AreVisits(u, b, m + 1, g)
    <3> HIDE DEF g
    <3> QED BY <2>5 DEF AreVisits, R
  <2>7. m + 1 \in Nat
    OBVIOUS
  <2> HIDE DEF g
  <2> QED BY <2>6, <2>7
<1> HIDE DEF Good
<1>3. N \in Good
  BY <1>1, <1>2, NumbersOneByOne
<1> QED BY <1>3 DEF Good

\* When all entries of the bucket have been visited.
LEMMA VisitsMidway ==
    ASSUME NEW b \in Buckets, NEW N \in Nat, NEW u, Midway(u, b, N), NEW f, AreVisits(u, b, N, f)
    PROVE  Midway(f[N], b, 0)
<1> DEFINE Good == {n \in Nat : n <= N => Midway(f[n], b, N - n)}
           R(w) == Visit(w, b)
<1>1. f = [n \in 0 .. N |-> IF n = 0 THEN u ELSE R(f[n - 1])]
  BY DEF AreVisits
<1> HIDE DEF R
<1>2. 0 \in Good
  <2>1. f[0] = u /\ N - 0 = N
    BY <1>1
  <2> QED BY <2>1
<1>3. ASSUME NEW n \in Nat, n \in Good PROVE n + 1 \in Good
  <2> SUFFICES ASSUME n + 1 <= N PROVE Midway(f[n + 1], b, N - (n + 1))
    OBVIOUS
  <2>1. n <= N /\ n + 1 \in 0 .. N /\ (n + 1) - 1 = n /\ n + 1 # 0
        /\ N - n \in Nat /\ N - n >= 1 /\ (N - n) - 1 = N - (n + 1)
    OBVIOUS
  <2>2. f[n + 1] = Visit(f[n], b)
    BY <1>1, <2>1 DEF R
  <2>3. Midway(f[n], b, N - n)
    BY <1>3, <2>1
  <2>4. Midway(f[n + 1], b, (N - n) - 1)
    <3> DEFINE m == N - n
               x == f[n]
               y == f[n + 1]
    <3>1. m \in Nat /\ m >= 1 /\ Midway(x, b, m) /\ y = Visit(x, b)
      BY <2>1, <2>2, <2>3
    <3> HIDE DEF m, x, y
    <3>2. Midway(y, b, m - 1)
      BY <3>1, VisitMidway
    <3> QED BY <3>2 DEF m, y
  <2> QED BY <2>1, <2>4
<1> HIDE DEF Good
<1>4. N \in Good
  BY <1>2, <1>3, NumbersOneByOne
<1>5. N - N = 0 /\ N <= N
  OBVIOUS
<1> QED BY <1>4, <1>5 DEF Good

-----------------------------------------------------------------------------
(* The invariant *)

\* It is alive for what it is, and marked as decaying for an entry.
Sound(it) == Counted(it) /\ it.refs > 0 /\ (it.decaying => Entries(it) > 0)

\* Between the checks, when the bucket visited last was b.
Timed(it, b) == Lone(it) => Fresh(it) \/ Aligned(it, b)

LEMMA TickedMidway ==
    ASSUME NEW it, Sound(it), NEW last \in Buckets, Timed(it, last),
           NEW b, b = (last + 1) % BUCKETS, NEW u, u = Ticked(it)
    PROVE  /\ b \in Buckets /\ u.at = it.at /\ it.at[b] \in Nat /\ Midway(u, b, it.at[b])
           /\ u.kind = it.kind /\ u.placed = it.placed
           /\ Lone(it) => Lone(u) /\ u.left = it.left - INTERVAL
<1>0. it \in DecayItem /\ Counted(it) /\ b \in Buckets /\ Entries(it) \in Nat /\ it.at[b] \in Nat
  <2>1. it \in DecayItem /\ Counted(it)
    BY DEF Sound, Counted, Held
  <2>2. b \in Buckets
    BY DEF Buckets, BUCKETS
  <2> QED BY <2>1, <2>2, EntriesAre
<1>1. /\ u \in DecayItem /\ u.at = it.at /\ u.queued = it.queued /\ u.refs = it.refs
      /\ u.release = it.release /\ u.kind = it.kind /\ u.placed = it.placed
      /\ u.decaying = it.decaying /\ u.duration = it.duration
      /\ it.decaying => u.left = it.left - INTERVAL
  <2>1. CASE it.decaying
    <3> DEFINE l == it.left - INTERVAL
               x == [it EXCEPT !.left = l]
    <3>1. l \in Int
      BY <1>0 DEF DecayItem, INTERVAL
    <3>2. u = x
      BY <2>1 DEF Ticked
    <3> HIDE DEF l
    <3>3. /\ x \in DecayItem /\ x.at = it.at /\ x.queued = it.queued /\ x.refs = it.refs
          /\ x.release = it.release /\ x.kind = it.kind /\ x.placed = it.placed
          /\ x.decaying = it.decaying /\ x.duration = it.duration /\ x.left = l
      BY <1>0, <3>1 DEF DecayItem
    <3> HIDE DEF x
    <3> QED BY <3>2, <3>3 DEF l
  <2>2. CASE ~it.decaying
    BY <1>0, <2>2 DEF Ticked
  <2> QED BY <2>1, <2>2
<1>2. Entries(u) = Entries(it) /\ Counted(u)
  BY <1>0, <1>1 DEF Entries, Counted, Held, Placed
<1>3. Lone(u) => \/ Waiting(u)
                 \/ it.at[b] = 1 /\ Due(u, 0)
                 \/ it.at[b] = 0 /\ Aligned(u, b)
  <2> SUFFICES ASSUME Lone(u)
               PROVE  \/ Waiting(u)
                      \/ it.at[b] = 1 /\ Due(u, 0)
                      \/ it.at[b] = 0 /\ Aligned(u, b)
    OBVIOUS
  <2>1. Lone(it) /\ it.decaying /\ Entries(it) = 1
    BY <1>1, <1>2 DEF Lone
  <2>2. CASE Fresh(it)
    BY <1>1, <2>1, <2>2 DEF Fresh, Waiting
  <2>3. CASE Aligned(it, last)
    <3>1. PICK k \in 1 .. BUCKETS : it.at[(last + k) % BUCKETS] = 1 /\ Due(it, k * INTERVAL)
      BY <2>3 DEF Aligned
    <3> DEFINE t == (k - 1) * INTERVAL
    <3>2. k \in Int /\ it.left \in Int /\ it.duration \in Int
          /\ k * INTERVAL = t + INTERVAL /\ t \in Int
      BY <1>0 DEF DecayItem, BUCKETS, INTERVAL, NoDuration
    <3>3. Due(u, t)
      <4>1. u.left - t = it.left - k * INTERVAL
        BY <1>1, <2>1, <3>2 DEF INTERVAL
      <4> QED BY <1>1, <3>1, <4>1 DEF Due
    <3>4. CASE k = 1
      <4>1. t = 0
        BY <3>4 DEF INTERVAL
      <4> QED BY <3>1, <3>3, <3>4, <4>1
    <3>5. CASE k # 1
      <4> DEFINE c == (last + k) % BUCKETS
      <4>1. c \in Buckets /\ c # b /\ c = (b + (k - 1)) % BUCKETS /\ k - 1 \in 1 .. BUCKETS
        BY <3>1, <3>5 DEF Buckets, BUCKETS
      <4>2. it.at[c] = 1
        BY <3>1
      <4> HIDE DEF c, t
      <4>3. it.at[b] = 0
        BY <1>0, <2>1, <4>1, <4>2, OneBucket
      <4>4. Aligned(u, b)
        <5>1. u.at[(b + (k - 1)) % BUCKETS] = 1 /\ Due(u, (k - 1) * INTERVAL)
          BY <1>1, <3>3, <4>1, <4>2 DEF t
        <5> QED BY <4>1, <5>1 DEF Aligned
      <4> QED BY <4>3, <4>4
    <3> QED BY <3>4, <3>5
  <2> QED BY <2>1, <2>2, <2>3 DEF Timed
<1>4. u.placed /\ u.decaying => Entries(u) > 0
  BY <1>1, <1>2 DEF Sound
<1>5. Midway(u, b, it.at[b])
  <2>1. u.at[b] >= it.at[b]
    BY <1>0, <1>1
  <2> QED BY <1>1, <1>2, <1>3, <1>4, <2>1 DEF Midway
<1>6. Lone(it) => Lone(u) /\ u.left = it.left - INTERVAL
  BY <1>1, <1>2 DEF Lone
<1> QED BY <1>0, <1>1, <1>5, <1>6

\* A check leaves what decays on its way, and ends it only on time.
LEMMA CheckedMidway ==
    ASSUME NEW it, Sound(it), NEW last \in Buckets, Timed(it, last),
           NEW b, b = (last + 1) % BUCKETS, NEW v, v = Checked(it, b)
    PROVE  /\ b \in Buckets /\ Midway(v, b, 0)
           /\ Lone(it) /\ CanDecay(it) /\ (~v.placed \/ v.kind # it.kind) =>
                it.left - INTERVAL \in 1 - 2 * INTERVAL .. ROUND - 1
<1> DEFINE u == Ticked(it)
           N == it.at[b]
<1>1. /\ b \in Buckets /\ N \in Nat /\ Midway(u, b, N) /\ u.kind = it.kind /\ u.placed = it.placed
      /\ Lone(it) => Lone(u) /\ u.left = it.left - INTERVAL
  BY TickedMidway
<1>2. PICK f : AreVisits(u, b, N, f) /\ v = f[N]
  <2> DEFINE F == CHOOSE f : AreVisits(u, b, N, f)
  <2>1. AreVisits(u, b, N, F)
    <3> HIDE DEF u, N
    <3>1. \E f : AreVisits(u, b, N, f)
      BY <1>1, VisitsExist
    <3> QED BY <3>1
  <2>2. v = F[N]
    BY DEF Checked, AreVisits
  <2> HIDE DEF F
  <2> QED BY <2>1, <2>2
<1> HIDE DEF u, N
<1>3. Midway(v, b, 0)
  BY <1>1, <1>2, VisitsMidway
<1>4. ASSUME Lone(it), CanDecay(it), ~v.placed \/ v.kind # it.kind
      PROVE  it.left - INTERVAL \in 1 - 2 * INTERVAL .. ROUND - 1
  <2>1. f = [n \in 0 .. N |-> IF n = 0 THEN u ELSE Visit(f[n - 1], b)]
    BY <1>2 DEF AreVisits
  <2>2. f[0] = u
    <3> DEFINE R(w) == Visit(w, b)
    <3>1. f = [n \in 0 .. N |-> IF n = 0 THEN u ELSE R(f[n - 1])]
      BY <2>1
    <3> HIDE DEF R
    <3> QED BY <1>1, <3>1
  <2>3. N # 0
    BY <1>1, <1>2, <1>4, <2>2 DEF CanDecay
  <2>4. N >= 1
    BY <1>1, <2>3
  <2>5. N = 1
    BY <1>1, <1>4, <2>4, LoneVisit
  <2>6. v = Visit(u, b)
    <3> DEFINE R(w) == Visit(w, b)
    <3>1. f = [n \in 0 .. 1 |-> IF n = 0 THEN u ELSE R(f[n - 1])]
      BY <2>1, <2>5
    <3> HIDE DEF R
    <3>2. f[1] = R(f[0])
      BY <3>1
    <3> QED BY <1>2, <2>2, <2>5, <3>2 DEF R
  <2>7. CanDecay(u)
    BY <1>1, <1>4 DEF CanDecay
  <2>8. ~v.placed \/ v.kind # u.kind
    BY <1>1, <1>4
  <2>9. u.left \in 1 - 2 * INTERVAL .. ROUND - 1
    BY <1>1, <1>4, <2>4, <2>6, <2>7, <2>8, VisitMidway
  <2> QED BY <1>1, <1>4, <2>9
<1> QED BY <1>1, <1>3, <1>4

\* The cleanup puts what waits into the bucket that is right for it.
LEMMA CleanedTimed ==
    ASSUME NEW it, NEW b \in Buckets, Midway(it, b, 0), NEW v, v = Cleaned(it, b)
    PROVE  \/ v = NoItemObject /\ ~it.placed
           \/ /\ v \in DecayItem /\ Sound(v) /\ Timed(v, b)
              /\ v.kind = it.kind /\ v.placed = it.placed
<1>0. /\ it \in DecayItem /\ it.at \in [Buckets -> Nat] /\ it.queued \in Nat /\ it.release \in Nat
      /\ it.refs = Entries(it) + it.release + Placed(it) /\ Entries(it) \in Nat /\ Placed(it) \in {0, 1}
      /\ it.placed <=> Placed(it) = 1
      /\ it.duration \in Int /\ it.left \in Int
  <2>1. it \in DecayItem /\ it.refs = Entries(it) + it.release + Placed(it) + 0
    BY DEF Midway, Counted, Held
  <2>2. Entries(it) \in Nat
    BY <2>1, EntriesAre
  <2>3. /\ it.at \in [Buckets -> Nat] /\ it.queued \in Nat /\ it.release \in Nat
        /\ it.duration \in Int /\ it.left \in Int
    BY <2>1 DEF DecayItem, NoDuration
  <2>4. Placed(it) \in {0, 1} /\ (it.placed <=> Placed(it) = 1)
    BY DEF Placed
  <2> QED BY <2>1, <2>2, <2>3, <2>4
<1>1. CASE it.refs = it.release
  <2>1. v = NoItemObject
    BY <1>1 DEF Cleaned
  <2>2. Placed(it) # 1
    BY <1>0, <1>1
  <2> QED BY <1>0, <2>1, <2>2
<1>2. CASE it.refs # it.release
  <2> DEFINE bucket == IF it.duration >= ROUND THEN b
                       ELSE (b + 1 + (IF it.duration > 0 THEN it.duration \div 8 ELSE 0)) % BUCKETS
             n == it.refs - it.release
             q == it.queued
             g == [it.at EXCEPT ![bucket] = @ + q]
             x == [it EXCEPT !.refs = n, !.release = 0, !.at = g, !.queued = 0]
  <2>1. n \in Nat /\ n = Entries(it) + Placed(it) /\ n > 0
    BY <1>0, <1>2
  <2>2. /\ bucket \in Buckets
        /\ it.duration >= ROUND => bucket = b
        /\ it.duration < ROUND => bucket = (b + 1) % BUCKETS
    <3>1. it.duration \in Int /\ b \in 0 .. 3
      BY <1>0 DEF Buckets, BUCKETS
    <3> DEFINE e == it.duration
    <3>2. e < 8 => (IF e > 0 THEN e \div 8 ELSE 0) = 0
      <4> HIDE DEF e
      <4>1. e \in Int
        BY <3>1 DEF e
      <4> QED BY <4>1
    <3>3. (b + 1 + 0) % 4 \in 0 .. 3 /\ b + 1 + 0 = b + 1
      BY <3>1
    <3>4. CASE e >= 8
      BY <3>1, <3>4 DEF Buckets, ROUND, BUCKETS, INTERVAL
    <3>5. CASE e < 8
      <4>1. bucket = (b + 1 + 0) % 4
        <5>1. ROUND = 8 /\ BUCKETS = 4
          BY DEF ROUND, BUCKETS, INTERVAL
        <5>2. ~(it.duration >= ROUND)
          BY <3>1, <3>5, <5>1
        <5>3. (IF it.duration > 0 THEN it.duration \div 8 ELSE 0) = 0
          BY <3>2, <3>5
        <5> QED BY <5>1, <5>2, <5>3
      <4> QED BY <3>3, <3>5, <4>1 DEF Buckets, ROUND, BUCKETS, INTERVAL
    <3> QED BY <3>1, <3>4, <3>5
  <2>3. v = x
    BY <1>0, <1>2 DEF Cleaned, DecayItem
  <2> HIDE DEF bucket
  <2>4. g \in [Buckets -> Nat] /\ g[bucket] = it.at[bucket] + q
        /\ (\A c \in Buckets \ {bucket} : g[c] = it.at[c]) /\ q \in Nat
    BY <1>0, <2>2
  <2> HIDE DEF n, g
  <2>5. /\ x \in DecayItem /\ x.refs = n /\ x.release = 0 /\ x.at = g /\ x.queued = 0
        /\ x.kind = it.kind /\ x.placed = it.placed /\ x.decaying = it.decaying
        /\ x.duration = it.duration /\ x.left = it.left
    BY <1>0, <2>1, <2>4 DEF DecayItem
  <2> HIDE DEF x
  <2>6. Entries(v) = Entries(it)
    <3>1. q \in Int
      BY <2>4
    <3>2. q = it.queued
      OBVIOUS
    <3> HIDE DEF q
    <3>3. g[0] + g[1] + g[2] + g[3] = it.at[0] + it.at[1] + it.at[2] + it.at[3] + q
      BY <1>0, <2>2, <2>4, <3>1, EntryAdded
    <3>4. \A c \in Buckets : it.at[c] \in Nat /\ g[c] \in Nat
      BY <1>0, <2>4
    <3>5. /\ it.at[0] \in Nat /\ it.at[1] \in Nat /\ it.at[2] \in Nat /\ it.at[3] \in Nat
          /\ g[0] \in Nat /\ g[1] \in Nat /\ g[2] \in Nat /\ g[3] \in Nat
      BY <3>4 DEF Buckets, BUCKETS
    <3>6. Entries(v) = v.queued + g[0] + g[1] + g[2] + g[3] /\ v.queued = 0
      BY <2>3, <2>5, EntriesAre
    <3>7. Entries(it) = q + it.at[0] + it.at[1] + it.at[2] + it.at[3]
      BY <1>0, <3>2, EntriesAre
    <3> QED BY <3>1, <3>3, <3>5, <3>6, <3>7
  <2>7. Sound(v)
    <3>1. Placed(v) = Placed(it)
      BY <2>3, <2>5 DEF Placed
    <3>2. Counted(v)
      <4>1. v.refs = Entries(v) + v.release + Placed(v) + 0
        BY <1>0, <2>1, <2>3, <2>5, <2>6, <3>1
      <4> QED BY <2>3, <2>5, <4>1 DEF Counted, Held
    <3>3. v.decaying => Entries(v) > 0
      <4>1. CASE it.placed
        BY <2>3, <2>5, <2>6, <4>1 DEF Midway
      <4>2. CASE ~it.placed
        BY <1>0, <2>1, <2>6, <4>2
      <4> QED BY <4>1, <4>2
    <3>4. v.refs > 0
      BY <2>1, <2>3, <2>5
    <3> QED BY <3>2, <3>3, <3>4 DEF Sound
  <2>8. Timed(v, b)
    <3> SUFFICES ASSUME Lone(v) PROVE Aligned(v, b)
      BY DEF Timed
    <3>1. Lone(it) /\ Entries(it) = 1
      BY <2>3, <2>5, <2>6 DEF Lone
    <3>2. Waiting(it) \/ Aligned(it, b)
      BY <3>1 DEF Midway
    <3>3. CASE Waiting(it)
      <4>1. q = 1 /\ it.duration > 0 /\ it.left \in {it.duration, it.duration - INTERVAL}
        BY <3>3 DEF Waiting
      <4>2. v.at[bucket] = 1
        <5>1. it.at[bucket] \in Nat /\ q + it.at[bucket] <= 1
          BY <1>0, <2>2, <3>1, EntriesAre
        <5> QED BY <2>3, <2>4, <2>5, <4>1, <5>1
      <4>3. CASE it.duration >= ROUND
        <5>1. (b + 4) % BUCKETS = bucket /\ 4 \in 1 .. BUCKETS
          BY <2>2, <4>3 DEF Buckets, BUCKETS
        <5>2. Due(v, 4 * INTERVAL)
          <6>1. v.duration >= ROUND /\ v.duration \in Int /\ v.left \in {v.duration, v.duration - INTERVAL}
            BY <1>0, <2>3, <2>5, <4>1, <4>3
          <6> QED BY <6>1 DEF Due, ROUND, BUCKETS, INTERVAL
        <5> QED BY <4>2, <5>1, <5>2 DEF Aligned
      <4>4. CASE it.duration < ROUND
        <5>1. (b + 1) % BUCKETS = bucket /\ 1 \in 1 .. BUCKETS
          BY <2>2, <4>4 DEF Buckets, BUCKETS
        <5>2. Due(v, 1 * INTERVAL)
          <6>1. v.duration < ROUND /\ v.duration > 0 /\ v.duration \in Int
                /\ v.left \in {v.duration, v.duration - INTERVAL}
            BY <1>0, <2>3, <2>5, <4>1, <4>4
          <6> QED BY <6>1 DEF Due, ROUND, BUCKETS, INTERVAL
        <5> QED BY <4>2, <5>1, <5>2 DEF Aligned
      <4> QED BY <1>0, <4>3, <4>4 DEF ROUND, BUCKETS, INTERVAL
    <3>4. CASE Aligned(it, b)
      <4>1. PICK k \in 1 .. BUCKETS : it.at[(b + k) % BUCKETS] = 1 /\ Due(it, k * INTERVAL)
        BY <3>4 DEF Aligned
      <4> DEFINE c == (b + k) % BUCKETS
      <4>2. c \in Buckets /\ it.at[c] = 1
        BY <4>1 DEF Buckets, BUCKETS
      <4>3. q = 0
        <5> HIDE DEF c
        <5> QED BY <1>0, <3>1, <4>2, OneBucket
      <4>4. v.at[c] = 1
        <5>1. g[c] = it.at[c]
          <6> HIDE DEF c
          <6> QED BY <2>4, <4>2, <4>3
        <5> QED BY <2>3, <2>5, <4>2, <5>1
      <4>5. Due(v, k * INTERVAL)
        BY <2>3, <2>5, <4>1 DEF Due
      <4> QED BY <4>4, <4>5 DEF Aligned
    <3> QED BY <3>2, <3>3, <3>4
  <2> QED BY <2>3, <2>5, <2>7, <2>8
<1> QED BY <1>1, <1>2

LEMMA TimedMidway ==
    ASSUME NEW it, Sound(it), NEW b \in Buckets, Timed(it, b)
    PROVE  Midway(it, b, 0)
<1>1. it \in DecayItem /\ Counted(it)
  BY DEF Sound, Counted, Held
<1>2. it.at[b] \in Nat
  BY <1>1, EntriesAre
<1>3. it.at[b] >= 0
  BY <1>2
<1> QED BY <1>1, <1>3 DEF Midway, Sound, Timed, Fresh, Waiting

\* Every object that is alive has its references and its place in the wheel.
DecayInv ==
    /\ lastBucket \in Buckets /\ items \in [Decaying -> DecayItem \cup {NoItemObject}]
    /\ \A i \in Decaying : items[i] # NoItemObject => Sound(items[i]) /\ Timed(items[i], lastBucket)

LEMMA DecayInvSound == DecayInv => DecaySound
<1> SUFFICES ASSUME DecayInv PROVE DecaySound
  OBVIOUS
<1>1. lastBucket \in 0 .. BUCKETS - 1
  BY DEF DecayInv, Buckets, BUCKETS
<1>2. ASSUME NEW i \in Decaying, items[i] # NoItemObject
      PROVE  /\ items[i] \in DecayItem
             /\ items[i].refs = Entries(items[i]) + items[i].release + (IF items[i].placed THEN 1 ELSE 0)
             /\ items[i].refs > 0
             /\ items[i].decaying => Entries(items[i]) > 0
  <2>1. Sound(items[i])
    BY <1>2 DEF DecayInv
  <2>2. items[i] \in DecayItem /\ items[i].refs = Entries(items[i]) + items[i].release + Placed(items[i]) + 0
    BY <2>1 DEF Sound, Counted, Held
  <2>3. Entries(items[i]) \in Nat /\ items[i].release \in Nat /\ Placed(items[i]) \in Nat
    BY <2>2, EntriesAre DEF DecayItem, Placed
  <2>4. items[i].refs = Entries(items[i]) + items[i].release + Placed(items[i])
    BY <2>2, <2>3
  <2> QED BY <2>1, <2>2, <2>4 DEF Sound, Placed
<1>3. DecayItem = [alive : {TRUE}, kind : DOMAIN Kind, duration : Nat \cup {NoDuration},
                   decaying : BOOLEAN, placed : BOOLEAN, refs : Nat, release : Nat,
                   queued : Nat, at : [0 .. BUCKETS - 1 -> Nat], left : Int]
  BY DEF DecayItem, Buckets
<1>4. TypeOKDecay
  BY <1>1, <1>2, <1>3 DEF TypeOKDecay
<1> QED BY <1>2, <1>4 DEF DecaySound, Alive

-----------------------------------------------------------------------------
(* One lemma for each operation *)

LEMMA DecayStart == DecayInit => DecayInv
<1> SUFFICES ASSUME DecayInit PROVE DecayInv
  OBVIOUS
<1>1. lastBucket \in Buckets
  BY DEF DecayInit, Buckets, BUCKETS
<1>2. \A i \in Decaying : items[i] = NoItemObject
  BY DEF DecayInit
<1>3. items \in [Decaying -> DecayItem \cup {NoItemObject}]
  BY DEF DecayInit
<1> QED BY <1>1, <1>2, <1>3 DEF DecayInv

\* What is done with one item, when no bucket is visited.
LEMMA OneItem ==
    ASSUME DecayInv, NEW i \in Decaying, NEW v, items' = [items EXCEPT ![i] = v],
           UNCHANGED lastBucket, Sound(v) /\ Timed(v, lastBucket)
    PROVE  DecayInv'
<1>1. lastBucket' \in Buckets /\ items \in [Decaying -> DecayItem \cup {NoItemObject}]
  BY DEF DecayInv
<1>3. items' \in [Decaying -> DecayItem \cup {NoItemObject}]
  BY <1>1 DEF Sound, Counted, Held
<1>2. ASSUME NEW j \in Decaying, items'[j] # NoItemObject
      PROVE  Sound(items'[j]) /\ Timed(items'[j], lastBucket')
  <2>1. CASE j = i
    BY <1>1, <2>1
  <2>2. CASE j # i
    <3>1. items'[j] = items[j]
      BY <1>1, <2>2
    <3> QED BY <1>2, <3>1 DEF DecayInv
  <2> QED BY <2>1, <2>2
<1> QED BY <1>1, <1>2, <1>3 DEF DecayInv

\* What an object that is alive is known to be
LEMMA AliveSound ==
    ASSUME DecayInv, NEW i \in Alive
    PROVE  /\ i \in Decaying /\ lastBucket \in Buckets
           /\ items \in [Decaying -> DecayItem \cup {NoItemObject}]
           /\ items[i] \in DecayItem /\ Sound(items[i]) /\ Timed(items[i], lastBucket)
BY DEF DecayInv, Alive, Sound, Counted, Held

LEMMA CreateKeepsDecay ==
    ASSUME DecayInv, CreateItem PROVE DecayInv'
<1>1. PICK i \in Decaying \ Alive, k \in DOMAIN Kind :
      \E d \in Durations \cup {IF Kind[k].time > 0 THEN Kind[k].time ELSE NoDuration} :
        /\ items' = [items EXCEPT ![i] =
               [alive |-> TRUE, kind |-> k, duration |-> d, decaying |-> FALSE, placed |-> TRUE,
                refs |-> 1, release |-> 0, queued |-> 0,
                at |-> [b \in 0 .. BUCKETS - 1 |-> 0], left |-> 0]]
        /\ UNCHANGED lastBucket
  BY DEF CreateItem
<1>2. PICK d \in Durations \cup {IF Kind[k].time > 0 THEN Kind[k].time ELSE NoDuration} :
        /\ items' = [items EXCEPT ![i] =
               [alive |-> TRUE, kind |-> k, duration |-> d, decaying |-> FALSE, placed |-> TRUE,
                refs |-> 1, release |-> 0, queued |-> 0,
                at |-> [b \in 0 .. BUCKETS - 1 |-> 0], left |-> 0]]
        /\ UNCHANGED lastBucket
  BY <1>1
<1> DEFINE g == [b \in 0 .. BUCKETS - 1 |-> 0]
           v == [alive |-> TRUE, kind |-> k, duration |-> d, decaying |-> FALSE, placed |-> TRUE,
                 refs |-> 1, release |-> 0, queued |-> 0, at |-> g, left |-> 0]
<1>3. d \in Nat \cup {NoDuration}
  BY DecayConstants
<1>4. g \in [Buckets -> Nat] /\ g[0] = 0 /\ g[1] = 0 /\ g[2] = 0 /\ g[3] = 0
  BY DEF Buckets, BUCKETS
<1>5. items' = [items EXCEPT ![i] = v] /\ UNCHANGED lastBucket
  BY <1>2
<1> HIDE DEF g
<1>6. v \in DecayItem /\ ~v.decaying /\ v.at = g /\ v.refs = 1 /\ v.release = 0 /\ v.queued = 0 /\ v.placed
  BY <1>3, <1>4 DEF DecayItem
<1> HIDE DEF v
<1>7. Entries(v) = 0
  <2>1. Entries(v) = v.queued + v.at[0] + v.at[1] + v.at[2] + v.at[3]
    BY <1>6, EntriesAre
  <2> QED BY <1>4, <1>6, <2>1
<1>8. Sound(v)
  <2>1. v.refs = Entries(v) + v.release + Placed(v) + 0
    BY <1>6, <1>7 DEF Placed
  <2> QED BY <1>6, <2>1 DEF Sound, Counted, Held
<1>9. Timed(v, lastBucket)
  BY <1>6 DEF Timed, Lone
<1> QED BY <1>5, <1>8, <1>9, OneItem

LEMMA TransformKeepsDecay ==
    ASSUME DecayInv, TransformItem PROVE DecayInv'
<1>1. PICK i \in Alive, k \in DOMAIN Kind :
        /\ items' = [items EXCEPT ![i] = SetID(@, k)] /\ UNCHANGED lastBucket
  BY DEF TransformItem
<1> DEFINE it == items[i]
           v == SetID(it, k)
<1>2. /\ i \in Decaying /\ lastBucket \in Buckets /\ it \in DecayItem
      /\ Sound(it) /\ Timed(it, lastBucket)
  BY AliveSound
<1>3. items' = [items EXCEPT ![i] = v] /\ UNCHANGED lastBucket
  BY <1>1
<1> HIDE DEF it
<1>4. Rests(it, v) /\ (v.decaying => it.decaying /\ v.duration = it.duration)
  BY <1>2, SetIDRests
<1> HIDE DEF v
<1>5. Counted(v) /\ Entries(v) = Entries(it)
  <2>1. Held(v, 0) /\ Entries(v) = Entries(it)
    BY <1>2, <1>4, RestsCounted DEF Sound, Counted
  <2> QED BY <2>1 DEF Counted
<1>6. Sound(v)
  BY <1>2, <1>4, <1>5 DEF Sound, Rests
<1>7. Timed(v, lastBucket)
  <2> SUFFICES ASSUME Lone(v) PROVE Fresh(v) \/ Aligned(v, lastBucket)
    BY DEF Timed
  <2>1. Lone(it) /\ v.duration = it.duration /\ v.queued = it.queued /\ v.at = it.at /\ v.left = it.left
    BY <1>4, <1>5 DEF Lone, Rests
  <2> QED BY <1>2, <2>1 DEF Timed, Fresh, Aligned, Due
<1> QED BY <1>2, <1>3, <1>6, <1>7, OneItem

LEMMA BeginKeepsDecay ==
    ASSUME DecayInv, BeginDecay PROVE DecayInv'
<1>1. PICK i \in Alive : items' = [items EXCEPT ![i] = StartDecay(@)] /\ UNCHANGED lastBucket
  BY DEF BeginDecay
<1> DEFINE it == items[i]
           v == StartDecay(it)
<1>2. /\ i \in Decaying /\ lastBucket \in Buckets /\ it \in DecayItem
      /\ Sound(it) /\ Timed(it, lastBucket)
  BY AliveSound
<1>3. items' = [items EXCEPT ![i] = v] /\ UNCHANGED lastBucket
  BY <1>1
<1> HIDE DEF it
<1>4. Held(it, 0) /\ 0 \in Nat /\ Entries(it) \in Nat /\ it.duration \in Int
  <2>1. it.duration \in Int
    BY <1>2 DEF DecayItem, NoDuration
  <2>2. Held(it, 0)
    BY <1>2 DEF Sound, Counted
  <2> QED BY <1>2, <2>1, <2>2, EntriesAre
<1>5. Sound(v) /\ Timed(v, lastBucket)
  <2>1. CASE CanDecay(it) /\ ~it.decaying /\ it.duration <= 0
    <3>1. v = InternalDecayItem(it)
      BY <2>1 DEF StartDecay
    <3> HIDE DEF v
    <3>2. /\ Held(v, 0)
          /\ v.placed /\ v.decaying => /\ Entries(v) = Entries(it) + 1
                                       /\ Entries(v) = 1 => Fresh(v)
          /\ ~v.placed => /\ Entries(v) = Entries(it) /\ v.decaying = it.decaying
                          /\ v.refs = it.refs
      BY <1>4, <2>1, <3>1, DecaysOnce
    <3>3. v.refs > 0
      <4>1. CASE v.placed
        <5>1. v \in DecayItem /\ v.refs = Entries(v) + v.release + Placed(v) + 0 /\ Placed(v) = 1
          BY <3>2, <4>1 DEF Held, Placed
        <5>2. Entries(v) \in Nat /\ v.release \in Nat
          BY <5>1, EntriesAre DEF DecayItem
        <5> QED BY <5>1, <5>2
      <4>2. CASE ~v.placed
        BY <1>2, <3>2, <4>2 DEF Sound
      <4> QED BY <4>1, <4>2
    <3>4. v.decaying => Entries(v) > 0
      <4>1. CASE v.placed
        BY <1>4, <3>2, <4>1
      <4>2. CASE ~v.placed
        BY <2>1, <3>2, <4>2
      <4> QED BY <4>1, <4>2
    <3>5. Timed(v, lastBucket)
      BY <3>2 DEF Timed, Lone
    <3> QED BY <3>2, <3>3, <3>4, <3>5 DEF Sound, Counted
  <2>2. CASE ~(CanDecay(it) /\ ~it.decaying /\ it.duration <= 0)
    <3>1. v = Started(it) /\ (CanDecay(it) /\ ~it.decaying => it.duration > 0)
      BY <1>4, <2>2 DEF StartDecay
    <3> HIDE DEF v
    <3>2. Begun(it, v, 0)
      BY <1>4, <3>1, StartedBegun
    <3>3. CASE v = it
      BY <1>2, <3>3
    <3>4. CASE v # it
      <4>1. /\ Held(v, 0) /\ v.decaying /\ Entries(v) = Entries(it) + 1
            /\ Entries(v) = 1 => Fresh(v)
        BY <3>2, <3>4 DEF Begun
      <4>2. v \in DecayItem /\ v.refs = Entries(v) + v.release + Placed(v) + 0
        BY <4>1 DEF Held
      <4>3. v.release \in Nat /\ Placed(v) \in Nat
        BY <4>2 DEF DecayItem, Placed
      <4>4. v.refs > 0 /\ Entries(v) > 0
        BY <1>4, <4>1, <4>2, <4>3
      <4> QED BY <4>1, <4>4 DEF Sound, Counted, Timed, Lone
    <3> QED BY <3>3, <3>4
  <2> QED BY <2>1, <2>2
<1> HIDE DEF v
<1> QED BY <1>2, <1>3, <1>5, OneItem

LEMMA RemoveKeepsDecay ==
    ASSUME DecayInv, RemoveItem PROVE DecayInv'
<1>1. PICK i \in Alive : items' = [items EXCEPT ![i] = InternalRemoveItem(@)] /\ UNCHANGED lastBucket
  BY DEF RemoveItem
<1> DEFINE it == items[i]
           v == InternalRemoveItem(it)
<1>2. i \in Decaying /\ Sound(it)
  BY AliveSound
<1>3. items' = [items EXCEPT ![i] = v] /\ UNCHANGED lastBucket
  BY <1>1
<1> HIDE DEF it
<1>4. Held(v, 0) /\ ~v.placed /\ Entries(v) = Entries(it) /\ v.decaying = it.decaying /\ v.refs = it.refs
  <2>1. Held(it, 0) /\ 0 \in Nat
    BY <1>2 DEF Sound, Counted
  <2> QED BY <2>1, RemovedCounted
<1> HIDE DEF v
<1>5. Sound(v) /\ Timed(v, lastBucket)
  BY <1>2, <1>4 DEF Sound, Counted, Timed, Lone
<1> QED BY <1>2, <1>3, <1>5, OneItem

LEMMA CleanupKeepsDecay ==
    ASSUME DecayInv, Cleanup PROVE DecayInv'
<1> DEFINE w(i) == Cleaned(items[i], lastBucket)
<1>1. /\ items' = [i \in Decaying |-> IF i \in Alive THEN w(i) ELSE items[i]]
      /\ lastBucket' = lastBucket /\ lastBucket \in Buckets
  BY DEF Cleanup, DecayInv
<1>2. ASSUME NEW i \in Alive
      PROVE  w(i) = NoItemObject \/ (w(i) \in DecayItem /\ Sound(w(i)) /\ Timed(w(i), lastBucket))
  <2>1. Sound(items[i]) /\ Timed(items[i], lastBucket)
    BY AliveSound
  <2>2. Midway(items[i], lastBucket, 0)
    BY <1>1, <2>1, TimedMidway
  <2> QED BY <1>1, <2>2, CleanedTimed
<1> HIDE DEF w
<1>3. \A i \in Decaying \ Alive : items[i] = NoItemObject
  BY DEF Alive
<1>4. items' \in [Decaying -> DecayItem \cup {NoItemObject}]
  BY <1>1, <1>2, <1>3
<1>5. ASSUME NEW i \in Decaying, items'[i] # NoItemObject
      PROVE  Sound(items'[i]) /\ Timed(items'[i], lastBucket')
  <2>1. i \in Alive /\ items'[i] = w(i)
    BY <1>1, <1>3, <1>5
  <2> QED BY <1>1, <1>2, <1>5, <2>1
<1> QED BY <1>1, <1>4, <1>5 DEF DecayInv

\* A check keeps the invariant, and what decays in it does so on time.
LEMMA CheckKeepsDecay ==
    ASSUME DecayInv, CheckDecay PROVE DecayInv' /\ OnTime
<1> DEFINE bucket == (lastBucket + 1) % BUCKETS
           u(i) == Checked(items[i], bucket)
           w(i) == Cleaned(u(i), bucket)
<1>1. /\ items' = [i \in Decaying |-> IF i \in Alive THEN w(i) ELSE items[i]]
      /\ lastBucket' = bucket /\ lastBucket \in Buckets
  BY DEF CheckDecay, DecayInv
<1>2. bucket \in Buckets
  BY <1>1 DEF Buckets, BUCKETS
<1>3. ASSUME NEW i \in Alive
      PROVE  /\ \/ w(i) = NoItemObject /\ ~u(i).placed
                \/ /\ w(i) \in DecayItem /\ Sound(w(i)) /\ Timed(w(i), bucket)
                   /\ w(i).kind = u(i).kind /\ w(i).placed = u(i).placed
             /\ Lone(items[i]) /\ CanDecay(items[i]) /\ (~u(i).placed \/ u(i).kind # items[i].kind) =>
                  items[i].left - INTERVAL \in 1 - 2 * INTERVAL .. ROUND - 1
  <2> DEFINE it == items[i]
             x == u(i)
             y == w(i)
             b == bucket
  <2>1. Sound(it) /\ Timed(it, lastBucket)
    BY AliveSound
  <2>2. b = (lastBucket + 1) % BUCKETS /\ x = Checked(it, b) /\ y = Cleaned(x, b)
    OBVIOUS
  <2> HIDE DEF it, x, y, b
  <2>3. /\ Midway(x, b, 0)
        /\ Lone(it) /\ CanDecay(it) /\ (~x.placed \/ x.kind # it.kind) =>
             it.left - INTERVAL \in 1 - 2 * INTERVAL .. ROUND - 1
    BY <1>1, <2>1, <2>2, CheckedMidway
  <2>4. b \in Buckets
    BY <1>2 DEF b
  <2>5. \/ y = NoItemObject /\ ~x.placed
        \/ /\ y \in DecayItem /\ Sound(y) /\ Timed(y, b)
           /\ y.kind = x.kind /\ y.placed = x.placed
    BY <2>2, <2>3, <2>4, CleanedTimed
  <2> QED BY <2>3, <2>5 DEF it, x, y, b
<1> HIDE DEF u, w, bucket
<1>4. \A i \in Decaying \ Alive : items[i] = NoItemObject
  BY DEF Alive
<1>5. items' \in [Decaying -> DecayItem \cup {NoItemObject}]
  BY <1>1, <1>3, <1>4
<1>6. ASSUME NEW i \in Decaying, items'[i] # NoItemObject
      PROVE  Sound(items'[i]) /\ Timed(items'[i], lastBucket')
  <2>1. i \in Alive /\ items'[i] = w(i)
    BY <1>1, <1>4, <1>6
  <2> QED BY <1>1, <1>3, <1>6, <2>1
<1>7. DecayInv'
  BY <1>1, <1>2, <1>5, <1>6 DEF DecayInv
<1>8. ASSUME NEW i \in Alive, Entries(items[i]) = 1, items[i].decaying, CanDecay(items[i]),
             items'[i] = NoItemObject \/ ~items'[i].placed \/ items'[i].kind # items[i].kind
      PROVE  items[i].left - INTERVAL \in 1 - 2 * INTERVAL .. ROUND - 1
  <2>1. items'[i] = w(i)
    BY <1>1 DEF Alive
  <2>2. Lone(items[i])
    BY <1>8 DEF Lone, CanDecay
  <2>3. ~u(i).placed \/ u(i).kind # items[i].kind
    <3>1. NoItemObject \notin DecayItem
      BY DEF NoItemObject, DecayItem
    <3>2. CASE w(i) = NoItemObject
      BY <1>3, <3>1, <3>2
    <3>3. CASE w(i) # NoItemObject
      BY <1>3, <1>8, <2>1, <3>3
    <3> QED BY <3>2, <3>3
  <2> QED BY <1>3, <1>8, <2>2, <2>3
<1>9. OnTime
  BY <1>8 DEF OnTime
<1> QED BY <1>7, <1>9

LEMMA DecayStep ==
    DecayInv /\ [DecayNext]_decayVars => DecayInv' /\ [OnTime]_decayVars
<1> SUFFICES ASSUME DecayInv, [DecayNext]_decayVars PROVE DecayInv' /\ [OnTime]_decayVars
  OBVIOUS
<1>1. UNCHANGED lastBucket => OnTime
  BY DEF OnTime
<1>2. CASE UNCHANGED decayVars
  <2>1. UNCHANGED <<items, lastBucket>>
    BY <1>2 DEF decayVars
  <2> QED BY <1>2, <2>1 DEF DecayInv
<1>3. CASE CreateItem
  BY <1>1, <1>3, CreateKeepsDecay DEF CreateItem
<1>4. CASE TransformItem
  BY <1>1, <1>4, TransformKeepsDecay DEF TransformItem
<1>5. CASE BeginDecay
  BY <1>1, <1>5, BeginKeepsDecay DEF BeginDecay
<1>6. CASE RemoveItem
  BY <1>1, <1>6, RemoveKeepsDecay DEF RemoveItem
<1>7. CASE Cleanup
  BY <1>1, <1>7, CleanupKeepsDecay DEF Cleanup
<1>8. CASE CheckDecay
  BY <1>8, CheckKeepsDecay
<1> QED BY <1>2, <1>3, <1>4, <1>5, <1>6, <1>7, <1>8 DEF DecayNext

\* However many items, kinds and durations there are, and whatever is turned into
\* what and begun when: the wheel never has an item that was deleted, what is marked
\* as decaying is in it, and what has one entry decays on time.
THEOREM DecayIsPunctual == DecaySpec => DecayPunctual
<1>1. DecayInv /\ [DecayNext]_decayVars => DecayInv'
  BY DecayStep
<1>2. DecayInv /\ [DecayNext]_decayVars => [OnTime]_decayVars
  BY DecayStep
<1> QED BY <1>1, <1>2, DecayStart, DecayInvSound, PTL DEF DecaySpec, DecayPunctual
=============================================================================
