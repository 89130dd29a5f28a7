---------------------------- MODULE TargetProofs ----------------------------
(***************************************************************************)
(* Theorems about whom the creatures see, attack and follow (Targets).     *)
(*                                                                         *)
(* The handlers of Targets are operators from one record to the next, and  *)
(* most of what happens is a loop in which one creature after the other    *)
(* handles an event.  The invariant is therefore a predicate on any record *)
(* (Good), with parameters for what does not hold in between: E, who comes *)
(* or goes; H, whom the game counts; X, the pairs of creatures of which    *)
(* the one is yet to be told of a move; U, those of a pokemon and a player *)
(* it is yet to notice.  A loop empties the set, and each operator has a   *)
(* lemma on what it keeps:                                                 *)
(*                                                                         *)
(*    Sane     the lists, the counts and the checks                        *)
(*    Aim      whom the creatures attack and follow                        *)
(*    Notice   which players the pokemon of the map have noticed           *)
(***************************************************************************)
EXTENDS Targets, FoldProofs, TLAPS

-----------------------------------------------------------------------------
(* The lists, the counts and the checks *)

Maybe == Creatures \cup {NoCreature}

FieldSet ==
    [at : [Creatures -> Int], here : SUBSET Creatures, gone : SUBSET Creatures,
     fainted : SUBSET Creatures, master : [Wilds -> Human \cup {NoCreature}],
     attacked : [Creatures -> Maybe], followed : [Creatures -> Maybe],
     targets : [Wilds -> SUBSET Creatures], friends : [Wilds -> SUBSET Creatures],
     idle : [Creatures -> BOOLEAN], checked : SUBSET Creatures, listed : SUBSET Creatures,
     refs : [Counted -> Int], released : SUBSET Counted, free : SUBSET Counted,
     stale : SUBSET Creatures, overlooked : SUBSET Creatures]

\* What an event changes of whom it does not move: nothing
Scene(w, v) ==
    /\ v.at = w.at /\ v.here = w.here /\ v.gone = w.gone /\ v.fainted = w.fainted
    /\ v.master = w.master /\ v.released = w.released /\ v.free = w.free /\ v.stale = w.stale
Quarries(w, v) == v.attacked = w.attacked /\ v.followed = w.followed
Lists(w, v) ==
    /\ v.targets = w.targets /\ v.friends = w.friends /\ v.refs = w.refs /\ v.idle = w.idle
    /\ v.checked = w.checked /\ v.listed = w.listed /\ v.overlooked = w.overlooked

LEMMA Sorts ==
    /\ Wilds \subseteq Creatures /\ Human \subseteq Creatures /\ Counted \subseteq Creatures
    /\ Wild \cap Tame = {} /\ Wild \cap Human = {} /\ Tame \cap Human = {}
    /\ Wilds \cap Human = {} /\ Counted \cap Tame = {} /\ NoCreature \notin Creatures
    /\ NoCreature \notin Human /\ Creatures = Wilds \cup Human
    /\ IsFiniteSet(Creatures) /\ View \in Nat /\ Viewport \in Nat /\ View <= Viewport
BY TargetConstants DEF Creatures, Wilds, Counted

In(d, S) == IF d \in S THEN 1 ELSE 0

LEMMA IncFrame ==
    ASSUME NEW w \in FieldSet, NEW c \in Creatures, NEW v, v = Inc(w, c)
    PROVE  /\ v \in FieldSet /\ Scene(w, v) /\ Quarries(w, v)
           /\ v.targets = w.targets /\ v.friends = w.friends /\ v.idle = w.idle
           /\ v.checked = w.checked /\ v.listed = w.listed /\ v.overlooked = w.overlooked
           /\ \A d \in Counted : v.refs[d] = w.refs[d] + In(d, {c})
<1> DEFINE R == [w.refs EXCEPT ![c] = @ + 1]
           u == [w EXCEPT !.refs = R]
<1>1. w.refs \in [Counted -> Int]
  BY DEF FieldSet
<1>2. R \in [Counted -> Int] /\ \A d \in Counted : R[d] = w.refs[d] + In(d, {c})
  <2>1. Counted = DOMAIN w.refs /\ \A d \in Counted : w.refs[d] \in Int
    BY <1>1
  <2>2. \A d \in Counted : R[d] = w.refs[d] + In(d, {c}) /\ R[d] \in Int
    BY <2>1 DEF In
  <2> QED BY <1>1, <2>2
<1> HIDE DEF R
<1>3. /\ u \in FieldSet /\ Scene(w, u) /\ Quarries(w, u)
      /\ u.targets = w.targets /\ u.friends = w.friends /\ u.idle = w.idle
      /\ u.checked = w.checked /\ u.listed = w.listed /\ u.overlooked = w.overlooked
      /\ u.refs = R
  BY <1>2 DEF FieldSet, Scene, Quarries
<1>4. CASE c \in Counted
  <2>1. v = u
    BY <1>4 DEF Inc, R
  <2> QED BY <1>2, <1>3, <2>1
<1>5. CASE c \notin Counted
  BY <1>1, <1>5 DEF Inc, In, Scene, Quarries
<1> QED BY <1>4, <1>5

LEMMA DecFrame ==
    ASSUME NEW w \in FieldSet, NEW c \in Creatures, NEW v, v = Dec(w, c)
    PROVE  /\ v \in FieldSet /\ Scene(w, v) /\ Quarries(w, v)
           /\ v.targets = w.targets /\ v.friends = w.friends /\ v.idle = w.idle
           /\ v.checked = w.checked /\ v.listed = w.listed /\ v.overlooked = w.overlooked
           /\ \A d \in Counted : v.refs[d] = w.refs[d] - In(d, {c})
<1> DEFINE R == [w.refs EXCEPT ![c] = @ - 1]
           u == [w EXCEPT !.refs = R]
<1>1. w.refs \in [Counted -> Int]
  BY DEF FieldSet
<1>2. R \in [Counted -> Int] /\ \A d \in Counted : R[d] = w.refs[d] - In(d, {c})
  <2>1. Counted = DOMAIN w.refs /\ \A d \in Counted : w.refs[d] \in Int
    BY <1>1
  <2>2. \A d \in Counted : R[d] = w.refs[d] - In(d, {c}) /\ R[d] \in Int
    BY <2>1 DEF In
  <2> QED BY <1>1, <2>2
<1> HIDE DEF R
<1>3. /\ u \in FieldSet /\ Scene(w, u) /\ Quarries(w, u)
      /\ u.targets = w.targets /\ u.friends = w.friends /\ u.idle = w.idle
      /\ u.checked = w.checked /\ u.listed = w.listed /\ u.overlooked = w.overlooked
      /\ u.refs = R
  BY <1>2 DEF FieldSet, Scene, Quarries
<1>4. CASE c \in Counted
  <2>1. v = u
    BY <1>4 DEF Dec, R
  <2> QED BY <1>2, <1>3, <2>1
<1>5. CASE c \notin Counted
  BY <1>1, <1>5 DEF Dec, In, Scene, Quarries
<1> QED BY <1>4, <1>5

\* How many of the lists T name d
Count(T, d) == Cardinality({q \in Wilds : d \in T[q]})

LEMMA CountChanged ==
    ASSUME NEW S, NEW T, NEW p \in Wilds, NEW d, \A q \in Wilds \ {p} : T[q] = S[q]
    PROVE  /\ Count(T, d) = Count(S, d) + In(d, T[p]) - In(d, S[p])
           /\ Count(S, d) \in Nat /\ Count(T, d) \in Nat
<1> DEFINE A == {q \in Wilds : d \in S[q]}
           B == {q \in Wilds : d \in T[q]}
           C == {q \in Wilds \ {p} : d \in S[q]}
<1>1. IsFiniteSet(Wilds)
  BY Sorts, FS_Subset
<1>2. IsFiniteSet(A) /\ IsFiniteSet(B) /\ IsFiniteSet(C)
  <2>1. A \subseteq Wilds /\ B \subseteq Wilds /\ C \subseteq Wilds
    OBVIOUS
  <2> QED BY <1>1, <2>1, FS_Subset
<1>3. Cardinality(C) \in Nat /\ Cardinality(C \cup {p}) = Cardinality(C) + 1
  <2>1. p \notin C
    OBVIOUS
  <2> QED BY <1>2, <2>1, FS_CardinalityType, FS_AddElement
<1>4. A = (IF d \in S[p] THEN C \cup {p} ELSE C) /\ B = (IF d \in T[p] THEN C \cup {p} ELSE C)
  OBVIOUS
<1>5. Count(S, d) = Cardinality(A) /\ Count(T, d) = Cardinality(B)
  BY DEF Count
<1> HIDE DEF A, B, C
<1> QED BY <1>3, <1>4, <1>5 DEF In

\* Every reference is counted: of the lists, of the game (H), of the checks.
Account(w, H) == \A d \in Counted :
    w.refs[d] = Count(w.targets, d) + Count(w.friends, d) + In(d, H) + In(d, w.listed)

\* An event changed of the lists of p at most.
OnlyOf(w, v, p) ==
    /\ v \in FieldSet /\ Scene(w, v) /\ Quarries(w, v)
    /\ \A q \in Wilds \ {p} : v.targets[q] = w.targets[q] /\ v.friends[q] = w.friends[q]
    /\ \A c \in Creatures \ {p} :
          /\ v.idle[c] = w.idle[c] /\ (c \in v.checked <=> c \in w.checked)
          /\ (c \in v.listed <=> c \in w.listed) /\ (c \in v.overlooked <=> c \in w.overlooked)

LEMMA OnlyOfTwice ==
    ASSUME NEW w, NEW u, NEW v, NEW p, OnlyOf(w, u, p), OnlyOf(u, v, p)
    PROVE  OnlyOf(w, v, p)
BY DEF OnlyOf, Scene, Quarries

LEMMA OnlyOfNothing == ASSUME NEW w \in FieldSet, NEW p PROVE OnlyOf(w, w, p)
BY DEF OnlyOf, Scene, Quarries

LEMMA AccountChanged ==
    ASSUME NEW w \in FieldSet, NEW v, NEW p \in Wilds, NEW H, Account(w, H), OnlyOf(w, v, p),
           \A d \in Counted : v.refs[d] = w.refs[d]
               + (In(d, v.targets[p]) - In(d, w.targets[p]))
               + (In(d, v.friends[p]) - In(d, w.friends[p]))
               + (In(d, v.listed) - In(d, w.listed))
    PROVE  Account(v, H)
<1> SUFFICES ASSUME NEW d \in Counted
             PROVE  v.refs[d] = Count(v.targets, d) + Count(v.friends, d) + In(d, H) + In(d, v.listed)
  BY DEF Account
<1>1. /\ Count(v.targets, d) = Count(w.targets, d) + In(d, v.targets[p]) - In(d, w.targets[p])
      /\ Count(w.targets, d) \in Nat /\ Count(v.targets, d) \in Nat
  <2> DEFINE S == w.targets
             T == v.targets
  <2>1. \A q \in Wilds \ {p} : T[q] = S[q]
    BY DEF OnlyOf
  <2> HIDE DEF S, T
  <2>2. /\ Count(T, d) = Count(S, d) + In(d, T[p]) - In(d, S[p])
        /\ Count(S, d) \in Nat /\ Count(T, d) \in Nat
    BY <2>1, CountChanged
  <2> QED BY <2>2 DEF S, T
<1>2. /\ Count(v.friends, d) = Count(w.friends, d) + In(d, v.friends[p]) - In(d, w.friends[p])
      /\ Count(w.friends, d) \in Nat /\ Count(v.friends, d) \in Nat
  <2> DEFINE S == w.friends
             T == v.friends
  <2>1. \A q \in Wilds \ {p} : T[q] = S[q]
    BY DEF OnlyOf
  <2> HIDE DEF S, T
  <2>2. /\ Count(T, d) = Count(S, d) + In(d, T[p]) - In(d, S[p])
        /\ Count(S, d) \in Nat /\ Count(T, d) \in Nat
    BY <2>1, CountChanged
  <2> QED BY <2>2 DEF S, T
<1>3. w.refs[d] = Count(w.targets, d) + Count(w.friends, d) + In(d, H) + In(d, w.listed)
  BY DEF Account
<1> DEFINE a == In(d, v.targets[p])
           b == In(d, w.targets[p])
           e == In(d, v.friends[p])
           f == In(d, w.friends[p])
           g == In(d, v.listed)
           h == In(d, w.listed)
           k == In(d, H)
<1>4. v.refs[d] = w.refs[d] + (a - b) + (e - f) + (g - h)
  OBVIOUS
<1>5. a \in Int /\ b \in Int /\ e \in Int /\ f \in Int /\ g \in Int /\ h \in Int /\ k \in Int
  BY DEF In
<1>6. /\ Count(v.targets, d) = Count(w.targets, d) + a - b /\ Count(v.friends, d) = Count(w.friends, d) + e - f
      /\ w.refs[d] = Count(w.targets, d) + Count(w.friends, d) + k + h
  BY <1>1, <1>2, <1>3
<1> SUFFICES v.refs[d] = Count(v.targets, d) + Count(v.friends, d) + k + g
  OBVIOUS
<1> HIDE DEF a, b, e, f, g, h, k
<1> QED BY <1>1, <1>2, <1>4, <1>5, <1>6

\* Lists name who is in the game or was removed; only who is in it is checked.
Reach(w, E) ==
    /\ \A p \in Wilds : w.targets[p] \cup w.friends[p] \subseteq w.here \cup w.gone \cup E
    /\ w.listed \subseteq w.here \cup w.gone \cup E
    /\ w.checked \subseteq w.here \cup E
LetGo(w, E) == \A p \in Wild \ (w.here \cup E) : w.targets[p] = {} /\ w.friends[p] = {}
Heed(w, E) == \A c \in w.here \ E :
    c \in w.fainted \cup Human \/ ~w.idle[c] => c \in w.checked /\ c \in w.listed

\* The lists are sound, but for those of E, who come or go.
Sane(w, H, E) == w \in FieldSet /\ Account(w, H) /\ Reach(w, E) /\ LetGo(w, E) /\ Heed(w, E)

LEMMA SaneStep ==
    ASSUME NEW w, NEW v, NEW H, NEW E \in SUBSET Creatures, NEW p \in Wilds, Sane(w, H, E),
           OnlyOf(w, v, p), Account(v, H), p \in w.here \cup E,
           v.targets[p] \subseteq w.here \cup w.gone \cup E, v.friends[p] \subseteq w.here \cup w.gone \cup E,
           p \in w.fainted \/ ~v.idle[p] => p \in E \/ (p \in v.checked /\ p \in v.listed)
    PROVE  Sane(v, H, E)
<1>0. /\ w.checked \subseteq Creatures /\ w.listed \subseteq Creatures /\ v.checked \subseteq Creatures
      /\ v.listed \subseteq Creatures /\ w.here \subseteq Creatures /\ v \in FieldSet /\ Scene(w, v)
  BY DEF Sane, OnlyOf, FieldSet
<1>1. Reach(v, E)
  <2>1. \A q \in Wilds : v.targets[q] \cup v.friends[q] \subseteq v.here \cup v.gone \cup E
    <3> SUFFICES ASSUME NEW q \in Wilds PROVE v.targets[q] \cup v.friends[q] \subseteq w.here \cup w.gone \cup E
      BY <1>0 DEF Scene
    <3>1. CASE q = p
      BY <3>1
    <3>2. CASE q # p
      BY <3>2 DEF Sane, Reach, OnlyOf
    <3> QED BY <3>1, <3>2
  <2>2. \A c \in Creatures \ {p} : (c \in v.checked => c \in w.checked) /\ (c \in v.listed => c \in w.listed)
    BY DEF OnlyOf
  <2>3. w.listed \subseteq w.here \cup w.gone \cup E /\ w.checked \subseteq w.here \cup E
    BY DEF Sane, Reach
  <2>4. v.here = w.here /\ v.gone = w.gone
    BY <1>0 DEF Scene
  <2> QED BY <1>0, <2>1, <2>2, <2>3, <2>4 DEF Reach
<1>2. LetGo(v, E)
  <2>1. \A q \in Wild \ (w.here \cup E) : q \in Wilds \ {p}
    BY DEF Wilds
  <2> QED BY <1>0, <2>1 DEF LetGo, Sane, OnlyOf, Scene
<1>3. Heed(v, E)
  <2> SUFFICES ASSUME NEW c \in w.here \ E, c \in w.fainted \cup Human \/ ~v.idle[c]
               PROVE  c \in v.checked /\ c \in v.listed
    BY <1>0 DEF Scene, Heed
  <2>1. CASE c = p
    BY <2>1, Sorts
  <2>2. CASE c # p
    <3>1. c \in Creatures \ {p}
      BY <1>0, <2>2
    <3>2. c \in w.checked /\ c \in w.listed
      BY <3>1 DEF Sane, Heed, OnlyOf
    <3> QED BY <3>1, <3>2 DEF OnlyOf
  <2> QED BY <2>1, <2>2
<1> QED BY <1>0, <1>1, <1>2, <1>3 DEF Sane

Unchecked(w, v) == v.idle = w.idle /\ v.checked = w.checked /\ v.listed = w.listed
Balances(w, v, p) == \A d \in Counted : v.refs[d] = w.refs[d]
    + (In(d, v.targets[p]) - In(d, w.targets[p])) + (In(d, v.friends[p]) - In(d, w.friends[p]))

\* The lists of p change, and the references with them.
LEMMA SaneRelisted ==
    ASSUME NEW w, NEW v, NEW H, NEW E \in SUBSET Creatures, NEW p \in Wilds, Sane(w, H, E),
           OnlyOf(w, v, p), p \in w.here \cup E, Unchecked(w, v), Balances(w, v, p),
           v.targets[p] \subseteq w.here \cup w.gone \cup E, v.friends[p] \subseteq w.here \cup w.gone \cup E
    PROVE  Sane(v, H, E)
<1>1. Account(v, H)
  <2>1. w \in FieldSet /\ Account(w, H) /\ v \in FieldSet
    BY DEF Sane, OnlyOf
  <2>2. ASSUME NEW d \in Counted
        PROVE  v.refs[d] = w.refs[d]
               + (In(d, v.targets[p]) - In(d, w.targets[p]))
               + (In(d, v.friends[p]) - In(d, w.friends[p]))
               + (In(d, v.listed) - In(d, w.listed))
    <3> DEFINE a == v.refs[d]
               b == w.refs[d] + (In(d, v.targets[p]) - In(d, w.targets[p])) + (In(d, v.friends[p]) - In(d, w.friends[p]))
               e == In(d, v.listed)
               f == In(d, w.listed)
    <3>1. a = b
      BY DEF Balances
    <3>2. a \in Int /\ e \in Int
      BY <2>1 DEF In, FieldSet
    <3>3. e = f
      BY DEF Unchecked
    <3> SUFFICES a = b + (e - f)
      OBVIOUS
    <3> HIDE DEF a, b, e, f
    <3> QED BY <3>1, <3>2, <3>3
  <2> QED BY <2>1, <2>2, AccountChanged
<1>2. p \in w.fainted \/ ~v.idle[p] => p \in E \/ (p \in v.checked /\ p \in v.listed)
  BY DEF Sane, Heed, Unchecked
<1> QED BY <1>1, <1>2, SaneStep

LEMMA AddTargetSane ==
    ASSUME NEW w, NEW H, NEW E \in SUBSET Creatures, NEW p \in Wilds, NEW c \in Creatures, Sane(w, H, E),
           p \in w.here \cup E, c \in w.here \cup w.gone \cup E, NEW v, v = AddTarget(w, p, c)
    PROVE  Sane(v, H, E) /\ OnlyOf(w, v, p) /\ v.overlooked = w.overlooked /\ v.targets[p] = w.targets[p] \cup {c}
<1>0. w \in FieldSet
  BY DEF Sane
<1>1. CASE c \in w.targets[p]
  BY <1>0, <1>1, OnlyOfNothing DEF AddTarget
<1>2. CASE c \notin w.targets[p]
  <2> DEFINE T == [w.targets EXCEPT ![p] = @ \cup {c}]
             u == [w EXCEPT !.targets = T]
  <2>1. v = Inc(u, c)
    BY <1>2 DEF AddTarget
  <2>2. T \in [Wilds -> SUBSET Creatures] /\ T[p] = w.targets[p] \cup {c} /\ \A q \in Wilds \ {p} : T[q] = w.targets[q]
    BY <1>0 DEF FieldSet
  <2> HIDE DEF T
  <2>3. /\ u \in FieldSet /\ Scene(w, u) /\ Quarries(w, u) /\ u.targets = T /\ u.friends = w.friends
        /\ u.refs = w.refs /\ Unchecked(w, u) /\ u.overlooked = w.overlooked
    BY <1>0, <2>2 DEF FieldSet, Scene, Quarries, Unchecked
  <2> HIDE DEF u
  <2>4. /\ v \in FieldSet /\ Scene(u, v) /\ Quarries(u, v) /\ v.targets = T /\ v.friends = w.friends
        /\ Unchecked(u, v) /\ v.overlooked = u.overlooked
        /\ \A d \in Counted : v.refs[d] = w.refs[d] + In(d, {c})
    BY <2>1, <2>3, IncFrame DEF Unchecked
  <2>5. OnlyOf(w, v, p)
    BY <2>2, <2>3, <2>4 DEF OnlyOf, Scene, Quarries, Unchecked
  <2>6. Balances(w, v, p)
    <3> SUFFICES ASSUME NEW d \in Counted
                 PROVE  v.refs[d] = w.refs[d] + (In(d, v.targets[p]) - In(d, w.targets[p]))
                                              + (In(d, v.friends[p]) - In(d, w.friends[p]))
      BY DEF Balances
    <3> DEFINE f == w.friends[p]
               t == w.targets[p]
    <3>1. v.friends[p] = f /\ v.targets[p] = t \cup {c} /\ c \notin t /\ v.refs[d] = w.refs[d] + In(d, {c})
      BY <1>2, <2>2, <2>4
    <3>2. w.refs[d] \in Int
      BY <1>0 DEF FieldSet
    <3> HIDE DEF f, t
    <3>3. v.refs[d] = w.refs[d] + (In(d, t \cup {c}) - In(d, t)) + (In(d, f) - In(d, f))
      BY <3>1, <3>2 DEF In
    <3> QED BY <3>1, <3>3 DEF f, t
  <2>7. v.targets[p] \subseteq w.here \cup w.gone \cup E /\ v.friends[p] \subseteq w.here \cup w.gone \cup E
    BY <2>2, <2>4 DEF Sane, Reach
  <2> QED BY <2>2, <2>3, <2>4, <2>5, <2>6, <2>7, SaneRelisted DEF Unchecked
<1> QED BY <1>1, <1>2

LEMMA AddFriendSane ==
    ASSUME NEW w, NEW H, NEW E \in SUBSET Creatures, NEW p \in Wilds, NEW c \in Creatures, Sane(w, H, E),
           p \in w.here \cup E, c \in w.here \cup w.gone \cup E, NEW v, v = AddFriend(w, p, c)
    PROVE  Sane(v, H, E) /\ OnlyOf(w, v, p) /\ v.overlooked = w.overlooked /\ v.targets = w.targets
<1>0. w \in FieldSet
  BY DEF Sane
<1>1. CASE c \in w.friends[p]
  BY <1>0, <1>1, OnlyOfNothing DEF AddFriend
<1>2. CASE c \notin w.friends[p]
  <2> DEFINE T == [w.friends EXCEPT ![p] = @ \cup {c}]
             u == [w EXCEPT !.friends = T]
  <2>1. v = Inc(u, c)
    BY <1>2 DEF AddFriend
  <2>2. T \in [Wilds -> SUBSET Creatures] /\ T[p] = w.friends[p] \cup {c} /\ \A q \in Wilds \ {p} : T[q] = w.friends[q]
    BY <1>0 DEF FieldSet
  <2> HIDE DEF T
  <2>3. /\ u \in FieldSet /\ Scene(w, u) /\ Quarries(w, u) /\ u.friends = T /\ u.targets = w.targets
        /\ u.refs = w.refs /\ Unchecked(w, u) /\ u.overlooked = w.overlooked
    BY <1>0, <2>2 DEF FieldSet, Scene, Quarries, Unchecked
  <2> HIDE DEF u
  <2>4. /\ v \in FieldSet /\ Scene(u, v) /\ Quarries(u, v) /\ v.friends = T /\ v.targets = w.targets
        /\ Unchecked(u, v) /\ v.overlooked = u.overlooked
        /\ \A d \in Counted : v.refs[d] = w.refs[d] + In(d, {c})
    BY <2>1, <2>3, IncFrame DEF Unchecked
  <2>5. OnlyOf(w, v, p)
    BY <2>2, <2>3, <2>4 DEF OnlyOf, Scene, Quarries, Unchecked
  <2>6. Balances(w, v, p)
    <3> SUFFICES ASSUME NEW d \in Counted
                 PROVE  v.refs[d] = w.refs[d] + (In(d, v.targets[p]) - In(d, w.targets[p]))
                                              + (In(d, v.friends[p]) - In(d, w.friends[p]))
      BY DEF Balances
    <3> DEFINE f == w.targets[p]
               t == w.friends[p]
    <3>1. v.targets[p] = f /\ v.friends[p] = t \cup {c} /\ c \notin t /\ v.refs[d] = w.refs[d] + In(d, {c})
      BY <1>2, <2>2, <2>4
    <3>2. w.refs[d] \in Int
      BY <1>0 DEF FieldSet
    <3> HIDE DEF f, t
    <3>3. v.refs[d] = w.refs[d] + (In(d, f) - In(d, f)) + (In(d, t \cup {c}) - In(d, t))
      BY <3>1, <3>2 DEF In
    <3> QED BY <3>1, <3>3 DEF f, t
  <2>7. v.friends[p] \subseteq w.here \cup w.gone \cup E /\ v.targets[p] \subseteq w.here \cup w.gone \cup E
    BY <2>2, <2>4 DEF Sane, Reach
  <2> QED BY <2>2, <2>3, <2>4, <2>5, <2>6, <2>7, SaneRelisted DEF Unchecked
<1> QED BY <1>1, <1>2

LEMMA RemoveTargetSane ==
    ASSUME NEW w, NEW H, NEW E \in SUBSET Creatures, NEW p \in Wilds, NEW c \in Creatures, Sane(w, H, E),
           p \in w.here \cup E, NEW v, v = RemoveTarget(w, p, c)
    PROVE  Sane(v, H, E) /\ OnlyOf(w, v, p) /\ v.overlooked = w.overlooked /\ v.targets[p] = w.targets[p] \ {c}
<1>0. w \in FieldSet
  BY DEF Sane
<1>1. CASE c \notin w.targets[p]
  BY <1>0, <1>1, OnlyOfNothing DEF RemoveTarget
<1>2. CASE c \in w.targets[p]
  <2> DEFINE T == [w.targets EXCEPT ![p] = @ \ {c}]
             u == [w EXCEPT !.targets = T]
  <2>1. v = Dec(u, c)
    BY <1>2 DEF RemoveTarget
  <2>2. T \in [Wilds -> SUBSET Creatures] /\ T[p] = w.targets[p] \ {c} /\ \A q \in Wilds \ {p} : T[q] = w.targets[q]
    BY <1>0 DEF FieldSet
  <2> HIDE DEF T
  <2>3. /\ u \in FieldSet /\ Scene(w, u) /\ Quarries(w, u) /\ u.targets = T /\ u.friends = w.friends
        /\ u.refs = w.refs /\ Unchecked(w, u) /\ u.overlooked = w.overlooked
    BY <1>0, <2>2 DEF FieldSet, Scene, Quarries, Unchecked
  <2> HIDE DEF u
  <2>4. /\ v \in FieldSet /\ Scene(u, v) /\ Quarries(u, v) /\ v.targets = T /\ v.friends = w.friends
        /\ Unchecked(u, v) /\ v.overlooked = u.overlooked
        /\ \A d \in Counted : v.refs[d] = w.refs[d] - In(d, {c})
    BY <2>1, <2>3, DecFrame DEF Unchecked
  <2>5. OnlyOf(w, v, p)
    BY <2>2, <2>3, <2>4 DEF OnlyOf, Scene, Quarries, Unchecked
  <2>6. Balances(w, v, p)
    <3> SUFFICES ASSUME NEW d \in Counted
                 PROVE  v.refs[d] = w.refs[d] + (In(d, v.targets[p]) - In(d, w.targets[p]))
                                              + (In(d, v.friends[p]) - In(d, w.friends[p]))
      BY DEF Balances
    <3> DEFINE f == w.friends[p]
               t == w.targets[p]
    <3>1. v.friends[p] = f /\ v.targets[p] = t \ {c} /\ c \in t /\ v.refs[d] = w.refs[d] - In(d, {c})
      BY <1>2, <2>2, <2>4
    <3>2. w.refs[d] \in Int
      BY <1>0 DEF FieldSet
    <3> HIDE DEF f, t
    <3>3. v.refs[d] = w.refs[d] + (In(d, t \ {c}) - In(d, t)) + (In(d, f) - In(d, f))
      BY <3>1, <3>2 DEF In
    <3> QED BY <3>1, <3>3 DEF f, t
  <2>7. v.targets[p] \subseteq w.here \cup w.gone \cup E /\ v.friends[p] \subseteq w.here \cup w.gone \cup E
    BY <2>2, <2>4 DEF Sane, Reach
  <2> QED BY <2>2, <2>3, <2>4, <2>5, <2>6, <2>7, SaneRelisted DEF Unchecked
<1> QED BY <1>1, <1>2

LEMMA RemoveFriendSane ==
    ASSUME NEW w, NEW H, NEW E \in SUBSET Creatures, NEW p \in Wilds, NEW c \in Creatures, Sane(w, H, E),
           p \in w.here \cup E, NEW v, v = RemoveFriend(w, p, c)
    PROVE  Sane(v, H, E) /\ OnlyOf(w, v, p) /\ v.overlooked = w.overlooked /\ v.targets = w.targets
<1>0. w \in FieldSet
  BY DEF Sane
<1>1. CASE c \notin w.friends[p]
  BY <1>0, <1>1, OnlyOfNothing DEF RemoveFriend
<1>2. CASE c \in w.friends[p]
  <2> DEFINE T == [w.friends EXCEPT ![p] = @ \ {c}]
             u == [w EXCEPT !.friends = T]
  <2>1. v = Dec(u, c)
    BY <1>2 DEF RemoveFriend
  <2>2. T \in [Wilds -> SUBSET Creatures] /\ T[p] = w.friends[p] \ {c} /\ \A q \in Wilds \ {p} : T[q] = w.friends[q]
    BY <1>0 DEF FieldSet
  <2> HIDE DEF T
  <2>3. /\ u \in FieldSet /\ Scene(w, u) /\ Quarries(w, u) /\ u.friends = T /\ u.targets = w.targets
        /\ u.refs = w.refs /\ Unchecked(w, u) /\ u.overlooked = w.overlooked
    BY <1>0, <2>2 DEF FieldSet, Scene, Quarries, Unchecked
  <2> HIDE DEF u
  <2>4. /\ v \in FieldSet /\ Scene(u, v) /\ Quarries(u, v) /\ v.friends = T /\ v.targets = w.targets
        /\ Unchecked(u, v) /\ v.overlooked = u.overlooked
        /\ \A d \in Counted : v.refs[d] = w.refs[d] - In(d, {c})
    BY <2>1, <2>3, DecFrame DEF Unchecked
  <2>5. OnlyOf(w, v, p)
    BY <2>2, <2>3, <2>4 DEF OnlyOf, Scene, Quarries, Unchecked
  <2>6. Balances(w, v, p)
    <3> SUFFICES ASSUME NEW d \in Counted
                 PROVE  v.refs[d] = w.refs[d] + (In(d, v.targets[p]) - In(d, w.targets[p]))
                                              + (In(d, v.friends[p]) - In(d, w.friends[p]))
      BY DEF Balances
    <3> DEFINE f == w.targets[p]
               t == w.friends[p]
    <3>1. v.targets[p] = f /\ v.friends[p] = t \ {c} /\ c \in t /\ v.refs[d] = w.refs[d] - In(d, {c})
      BY <1>2, <2>2, <2>4
    <3>2. w.refs[d] \in Int
      BY <1>0 DEF FieldSet
    <3> HIDE DEF f, t
    <3>3. v.refs[d] = w.refs[d] + (In(d, f) - In(d, f)) + (In(d, t \ {c}) - In(d, t))
      BY <3>1, <3>2 DEF In
    <3> QED BY <3>1, <3>3 DEF f, t
  <2>7. v.friends[p] \subseteq w.here \cup w.gone \cup E /\ v.targets[p] \subseteq w.here \cup w.gone \cup E
    BY <2>2, <2>4 DEF Sane, Reach
  <2> QED BY <2>2, <2>3, <2>4, <2>5, <2>6, <2>7, SaneRelisted DEF Unchecked
<1> QED BY <1>1, <1>2

LEMMA TrimmedSane ==
    ASSUME NEW w, NEW H, NEW E \in SUBSET Creatures, NEW p \in Wilds, Sane(w, H, E), p \in w.here \cup E,
           NEW t, t \subseteq w.targets[p], NEW f, f \subseteq w.friends[p], NEW v, v = Trimmed(w, p, t, f)
    PROVE  Sane(v, H, E) /\ OnlyOf(w, v, p) /\ v.overlooked = w.overlooked /\ v.targets[p] = t /\ v.friends[p] = f
<1>0. /\ w \in FieldSet /\ w.targets \in [Wilds -> SUBSET Creatures] /\ w.friends \in [Wilds -> SUBSET Creatures]
      /\ w.refs \in [Counted -> Int] /\ p \in Creatures
  BY Sorts DEF Sane, FieldSet
<1> DEFINE T == [w.targets EXCEPT ![p] = t]
           F == [w.friends EXCEPT ![p] = f]
           R == [c \in Counted |-> w.refs[c] - (IF c \in w.targets[p] \ t THEN 1 ELSE 0)
                                             - (IF c \in w.friends[p] \ f THEN 1 ELSE 0)]
<1>1. v = [w EXCEPT !.targets = T, !.friends = F, !.refs = R]
  BY DEF Trimmed
<1>2. T \in [Wilds -> SUBSET Creatures] /\ T[p] = t /\ \A q \in Wilds \ {p} : T[q] = w.targets[q]
  BY <1>0
<1>3. F \in [Wilds -> SUBSET Creatures] /\ F[p] = f /\ \A q \in Wilds \ {p} : F[q] = w.friends[q]
  BY <1>0
<1>4. R \in [Counted -> Int]
  BY <1>0
<1>5. \A d \in Counted : R[d] = w.refs[d] + (In(d, t) - In(d, w.targets[p])) + (In(d, f) - In(d, w.friends[p]))
  <2> SUFFICES ASSUME NEW d \in Counted
               PROVE  R[d] = w.refs[d] + (In(d, t) - In(d, w.targets[p])) + (In(d, f) - In(d, w.friends[p]))
    OBVIOUS
  <2> DEFINE a == w.targets[p]
             b == w.friends[p]
             r == w.refs[d]
  <2>1. R[d] = r - (IF d \in a \ t THEN 1 ELSE 0) - (IF d \in b \ f THEN 1 ELSE 0)
    OBVIOUS
  <2>2. r \in Int /\ t \subseteq a /\ f \subseteq b
    BY <1>0
  <2> HIDE DEF a, b, r, R
  <2>3. R[d] = r + (In(d, t) - In(d, a)) + (In(d, f) - In(d, b))
    BY <2>1, <2>2 DEF In
  <2> QED BY <2>3 DEF a, b, r
<1> HIDE DEF T, F, R
<1>6. /\ v \in FieldSet /\ Scene(w, v) /\ Quarries(w, v) /\ Unchecked(w, v) /\ v.overlooked = w.overlooked
      /\ v.targets = T /\ v.friends = F /\ v.refs = R
  BY <1>0, <1>1, <1>2, <1>3, <1>4 DEF FieldSet, Scene, Quarries, Unchecked
<1>7. OnlyOf(w, v, p)
  BY <1>2, <1>3, <1>6 DEF OnlyOf, Unchecked
<1>8. Balances(w, v, p)
  BY <1>2, <1>3, <1>5, <1>6 DEF Balances
<1>9. v.targets[p] \subseteq w.here \cup w.gone \cup E /\ v.friends[p] \subseteq w.here \cup w.gone \cup E
  BY <1>2, <1>3, <1>6 DEF Sane, Reach
<1> QED BY <1>2, <1>3, <1>6, <1>7, <1>8, <1>9, SaneRelisted

LEMMA ClearedSane ==
    ASSUME NEW w, NEW H, NEW E \in SUBSET Creatures, NEW p \in Wilds, Sane(w, H, E), p \in w.here \cup E,
           NEW v, v = ListsCleared(w, p)
    PROVE  Sane(v, H, E) /\ OnlyOf(w, v, p) /\ v.overlooked = w.overlooked /\ v.targets[p] = {} /\ v.friends[p] = {}
BY TrimmedSane DEF ListsCleared

\* The check of p, and whether it is idle
LEMMA SleepFrame ==
    ASSUME NEW w \in FieldSet, NEW p \in Creatures, NEW v, v = [w EXCEPT !.idle[p] = TRUE]
    PROVE  /\ OnlyOf(w, v, p) /\ v.targets = w.targets /\ v.friends = w.friends /\ v.refs = w.refs
           /\ v.idle[p] /\ v.checked = w.checked /\ v.listed = w.listed /\ v.overlooked = w.overlooked
<1> DEFINE I == [w.idle EXCEPT ![p] = TRUE]
<1>1. I \in [Creatures -> BOOLEAN] /\ I[p] = TRUE /\ \A c \in Creatures \ {p} : I[c] = w.idle[c]
  BY DEF FieldSet
<1> HIDE DEF I
<1>2. v = [w EXCEPT !.idle = I]
  BY DEF I
<1>3. /\ v \in FieldSet /\ Scene(w, v) /\ Quarries(w, v) /\ v.targets = w.targets /\ v.friends = w.friends
      /\ v.refs = w.refs /\ v.idle = I /\ v.checked = w.checked /\ v.listed = w.listed
      /\ v.overlooked = w.overlooked
  BY <1>1, <1>2 DEF FieldSet, Scene, Quarries
<1> QED BY <1>1, <1>3 DEF OnlyOf

LEMMA WakeFrame ==
    ASSUME NEW w \in FieldSet, NEW p \in Creatures, NEW v, v = [w EXCEPT !.idle[p] = FALSE]
    PROVE  /\ OnlyOf(w, v, p) /\ v.targets = w.targets /\ v.friends = w.friends /\ v.refs = w.refs
           /\ ~v.idle[p] /\ v.checked = w.checked /\ v.listed = w.listed /\ v.overlooked = w.overlooked
<1> DEFINE I == [w.idle EXCEPT ![p] = FALSE]
<1>1. I \in [Creatures -> BOOLEAN] /\ I[p] = FALSE /\ \A c \in Creatures \ {p} : I[c] = w.idle[c]
  BY DEF FieldSet
<1> HIDE DEF I
<1>2. v = [w EXCEPT !.idle = I]
  BY DEF I
<1>3. /\ v \in FieldSet /\ Scene(w, v) /\ Quarries(w, v) /\ v.targets = w.targets /\ v.friends = w.friends
      /\ v.refs = w.refs /\ v.idle = I /\ v.checked = w.checked /\ v.listed = w.listed
      /\ v.overlooked = w.overlooked
  BY <1>1, <1>2 DEF FieldSet, Scene, Quarries
<1> QED BY <1>1, <1>3 DEF OnlyOf

LEMMA UncheckFrame ==
    ASSUME NEW w \in FieldSet, NEW p \in Creatures, NEW v, v = RemoveCreatureCheck(w, p)
    PROVE  /\ OnlyOf(w, v, p) /\ v.targets = w.targets /\ v.friends = w.friends /\ v.refs = w.refs
           /\ v.idle = w.idle /\ v.checked = w.checked \ {p} /\ v.listed = w.listed
           /\ v.overlooked = w.overlooked
<1>1. v = [w EXCEPT !.checked = w.checked \ {p}] /\ w.checked \ {p} \in SUBSET Creatures
  BY DEF RemoveCreatureCheck, FieldSet
<1>2. /\ v \in FieldSet /\ Scene(w, v) /\ Quarries(w, v) /\ v.targets = w.targets /\ v.friends = w.friends
      /\ v.refs = w.refs /\ v.idle = w.idle /\ v.checked = w.checked \ {p} /\ v.listed = w.listed
      /\ v.overlooked = w.overlooked
  BY <1>1 DEF FieldSet, Scene, Quarries
<1> QED BY <1>2 DEF OnlyOf

LEMMA CheckFrame ==
    ASSUME NEW w \in FieldSet, NEW p \in Creatures, NEW v, v = AddCreatureCheck(w, p)
    PROVE  /\ OnlyOf(w, v, p) /\ v.targets = w.targets /\ v.friends = w.friends
           /\ v.idle = w.idle /\ v.checked = w.checked \cup {p} /\ v.listed = w.listed \cup {p}
           /\ v.overlooked = w.overlooked
           /\ \A d \in Counted : v.refs[d] = w.refs[d] + (In(d, v.listed) - In(d, w.listed))
<1>0. /\ w.checked \cup {p} \in SUBSET Creatures /\ w.listed \cup {p} \in SUBSET Creatures
      /\ \A d \in Counted : w.refs[d] \in Int
  BY DEF FieldSet
<1>1. CASE p \in w.listed
  <2>1. v = [w EXCEPT !.checked = w.checked \cup {p}] /\ w.listed = w.listed \cup {p}
    BY <1>1 DEF AddCreatureCheck
  <2>2. /\ v \in FieldSet /\ Scene(w, v) /\ Quarries(w, v) /\ v.targets = w.targets /\ v.friends = w.friends
        /\ v.refs = w.refs /\ v.idle = w.idle /\ v.checked = w.checked \cup {p} /\ v.listed = w.listed
        /\ v.overlooked = w.overlooked
    BY <1>0, <2>1 DEF FieldSet, Scene, Quarries
  <2> QED BY <1>0, <2>1, <2>2 DEF OnlyOf, In
<1>2. CASE p \notin w.listed
  <2> DEFINE u == [w EXCEPT !.checked = w.checked \cup {p}, !.listed = w.listed \cup {p}]
  <2>1. v = Inc(u, p)
    BY <1>2 DEF AddCreatureCheck
  <2>2. /\ u \in FieldSet /\ Scene(w, u) /\ Quarries(w, u) /\ u.targets = w.targets /\ u.friends = w.friends
        /\ u.refs = w.refs /\ u.idle = w.idle /\ u.checked = w.checked \cup {p} /\ u.listed = w.listed \cup {p}
        /\ u.overlooked = w.overlooked
    BY <1>0 DEF FieldSet, Scene, Quarries
  <2> HIDE DEF u
  <2>3. /\ v \in FieldSet /\ Scene(u, v) /\ Quarries(u, v) /\ v.targets = w.targets /\ v.friends = w.friends
        /\ \A d \in Counted : v.refs[d] = w.refs[d] + In(d, {p})
        /\ v.idle = w.idle /\ v.checked = w.checked \cup {p} /\ v.listed = w.listed \cup {p}
        /\ v.overlooked = w.overlooked
    <3>1. /\ v \in FieldSet /\ Scene(u, v) /\ Quarries(u, v) /\ v.targets = u.targets /\ v.friends = u.friends
          /\ \A d \in Counted : v.refs[d] = u.refs[d] + In(d, {p})
          /\ v.idle = u.idle /\ v.checked = u.checked /\ v.listed = u.listed /\ v.overlooked = u.overlooked
      <4>1. u \in FieldSet
        BY <2>2
      <4>2. Inc(u, p) = v
        BY <2>1
      <4> QED BY ONLY <4>1, <4>2, p \in Creatures, IncFrame
    <3> QED BY <2>2, <3>1
  <2>4. \A d \in Counted : In(d, {p}) = In(d, w.listed \cup {p}) - In(d, w.listed)
    BY <1>2 DEF In
  <2>5. \A d \in Counted : v.refs[d] = w.refs[d] + (In(d, v.listed) - In(d, w.listed))
    BY <2>3, <2>4
  <2>6. OnlyOf(w, v, p)
    BY <2>2, <2>3 DEF OnlyOf, Scene, Quarries
  <2> QED BY <2>3, <2>5, <2>6
<1> QED BY <1>1, <1>2

LEMMA CountIsNumber == ASSUME NEW T, NEW d PROVE Count(T, d) \in Nat
<1> DEFINE B == {q \in Wilds : d \in T[q]}
<1>1. IsFiniteSet(Wilds) /\ B \subseteq Wilds
  BY Sorts, FS_Subset
<1> QED BY <1>1, FS_Subset, FS_CardinalityType DEF Count

\* setIdle: what is idle lets go of everybody.
Idled(w, p) == SetIdle(w, p, TRUE)
Woken(w, p) == SetIdle(w, p, FALSE)

LEMMA IdleSane ==
    ASSUME NEW w, NEW H, NEW E \in SUBSET Creatures, NEW p \in Wilds, Sane(w, H, E), p \in w.here \cup E,
           NEW v, v = Idled(w, p)
    PROVE  /\ Sane(v, H, E) /\ OnlyOf(w, v, p) /\ v.overlooked = w.overlooked
           /\ v.targets[p] = w.targets[p] \/ v.targets[p] = {}
           /\ p \notin w.gone \cup w.fainted => v.targets[p] = {} /\ v.friends[p] = {}
<1>0. w \in FieldSet /\ p \in Creatures /\ Account(w, H)
  BY Sorts DEF Sane
<1>1. CASE p \in w.gone \cup w.fainted
  BY <1>0, <1>1, OnlyOfNothing DEF Idled, SetIdle
<1>2. CASE p \notin w.gone \cup w.fainted
  <2> DEFINE u == [w EXCEPT !.idle[p] = TRUE]
             t == ListsCleared(u, p)
  <2>1. v = RemoveCreatureCheck(t, p)
    BY <1>2 DEF Idled, SetIdle
  <2>2. /\ OnlyOf(w, u, p) /\ u.targets = w.targets /\ u.friends = w.friends /\ u.refs = w.refs
        /\ u.idle[p] /\ u.checked = w.checked /\ u.listed = w.listed /\ u.overlooked = w.overlooked
    BY <1>0, SleepFrame
  <2> HIDE DEF u
  <2>3. /\ u.here = w.here /\ u.gone = w.gone /\ u.fainted = w.fainted /\ u.free = w.free
        /\ u \in FieldSet
    BY <2>2 DEF OnlyOf, Scene
  <2>4. Account(u, H)
    BY <1>0, <2>2, <2>3 DEF Account
  <2>5. p \notin w.fainted
    BY <1>2
  <2>6. Sane(u, H, E)
    <3>1. w.targets[p] \subseteq w.here \cup w.gone \cup E /\ w.friends[p] \subseteq w.here \cup w.gone \cup E
      BY DEF Sane, Reach
    <3> QED BY <2>2, <2>4, <2>5, <3>1, SaneStep
  <2>7. /\ Sane(t, H, E) /\ OnlyOf(u, t, p) /\ t.targets[p] = {} /\ t.friends[p] = {}
        /\ t.idle[p] /\ t.overlooked = u.overlooked
    <3>1. Sane(t, H, E) /\ OnlyOf(u, t, p) /\ t.targets[p] = {} /\ t.friends[p] = {}
      BY <2>3, <2>6, ClearedSane
    <3>2. t.idle = u.idle /\ t.overlooked = u.overlooked
      BY <2>3 DEF ListsCleared, Trimmed, FieldSet
    <3> QED BY <2>2, <3>1, <3>2
  <2> HIDE DEF t
  <2>8. t \in FieldSet /\ Account(t, H) /\ t.here = w.here /\ t.gone = w.gone /\ t.fainted = w.fainted
    BY <2>3, <2>7 DEF Sane, OnlyOf, Scene
  <2>9. /\ OnlyOf(t, v, p) /\ v.targets = t.targets /\ v.friends = t.friends /\ v.refs = t.refs
        /\ v.idle = t.idle /\ v.listed = t.listed /\ v.overlooked = t.overlooked
    BY <1>0, <2>1, <2>8, UncheckFrame
  <2>10. Account(v, H)
    BY <2>8, <2>9 DEF Account
  <2>11. Sane(v, H, E)
    <3>1. v.targets[p] \subseteq t.here \cup t.gone \cup E /\ v.friends[p] \subseteq t.here \cup t.gone \cup E
      BY <2>7, <2>9
    <3>2. p \notin t.fainted /\ v.idle[p] /\ p \in t.here \cup E
      BY <2>5, <2>7, <2>8, <2>9
    <3> QED BY <2>7, <2>9, <2>10, <3>1, <3>2, SaneStep
  <2>12. OnlyOf(w, v, p)
    BY <2>2, <2>7, <2>9, OnlyOfTwice
  <2> QED BY <1>2, <2>2, <2>7, <2>9, <2>11, <2>12
<1> QED BY <1>1, <1>2

LEMMA AwakeSane ==
    ASSUME NEW w, NEW H, NEW E \in SUBSET Creatures, NEW p \in Wilds, Sane(w, H, E), p \in w.here \cup E,
           NEW v, v = Woken(w, p)
    PROVE  /\ Sane(v, H, E) /\ OnlyOf(w, v, p) /\ v.overlooked = w.overlooked
           /\ v.targets[p] = w.targets[p] /\ v.friends[p] = w.friends[p]
<1>0. w \in FieldSet /\ p \in Creatures /\ Account(w, H)
  BY Sorts DEF Sane
<1>1. CASE p \in w.gone \cup w.fainted
  BY <1>0, <1>1, OnlyOfNothing DEF Woken, SetIdle
<1>2. CASE p \notin w.gone \cup w.fainted
  <2> DEFINE u == [w EXCEPT !.idle[p] = FALSE]
  <2>1. v = AddCreatureCheck(u, p)
    BY <1>2 DEF Woken, SetIdle
  <2>2. /\ OnlyOf(w, u, p) /\ u.targets = w.targets /\ u.friends = w.friends /\ u.refs = w.refs
        /\ u.checked = w.checked /\ u.listed = w.listed /\ u.overlooked = w.overlooked
    BY <1>0, WakeFrame
  <2> HIDE DEF u
  <2>3. u \in FieldSet /\ Account(u, H)
    BY <1>0, <2>2 DEF OnlyOf, Account
  <2>4. /\ OnlyOf(u, v, p) /\ v.targets = u.targets /\ v.friends = u.friends /\ v.overlooked = u.overlooked
        /\ p \in v.checked /\ p \in v.listed
        /\ \A d \in Counted : v.refs[d] = u.refs[d] + (In(d, v.listed) - In(d, u.listed))
    BY <1>0, <2>1, <2>3, CheckFrame
  <2>5. Account(v, H)
    <3> SUFFICES ASSUME NEW d \in Counted
                 PROVE  v.refs[d] = Count(v.targets, d) + Count(v.friends, d) + In(d, H) + In(d, v.listed)
      BY DEF Account
    <3> DEFINE n == Count(v.targets, d) + Count(v.friends, d) + In(d, H)
               a == In(d, v.listed)
               e == In(d, u.listed)
               r == u.refs[d]
               s == v.refs[d]
    <3>1. r = Count(u.targets, d) + Count(u.friends, d) + In(d, H) + In(d, u.listed)
      BY <2>3 DEF Account
    <3>2. r = n + e
      BY <2>4, <3>1
    <3>3. s = r + (a - e)
      BY <2>4
    <3>4. a \in Int /\ e \in Int /\ r \in Int /\ n \in Int
      <4>1. Count(v.targets, d) \in Nat /\ Count(v.friends, d) \in Nat
        BY ONLY CountIsNumber, Zenon
      <4>2. Count(v.targets, d) + Count(v.friends, d) \in Int
        BY <4>1
      <4>3. In(d, H) \in Int /\ a \in Int /\ e \in Int
        BY DEF In
      <4>4. r \in Int
        BY <2>3 DEF FieldSet
      <4> QED BY <4>2, <4>3, <4>4
    <3> SUFFICES s = n + a
      OBVIOUS
    <3> HIDE DEF n, a, e, r, s
    <3> QED BY <3>2, <3>3, <3>4
  <2>6. OnlyOf(w, v, p)
    BY <2>2, <2>4, OnlyOfTwice
  <2>7. w.targets[p] \subseteq w.here \cup w.gone \cup E /\ w.friends[p] \subseteq w.here \cup w.gone \cup E
    BY DEF Sane, Reach
  <2>8. Sane(v, H, E)
    BY <2>2, <2>4, <2>5, <2>6, <2>7, SaneStep
  <2> QED BY <1>2, <2>2, <2>4, <2>6, <2>8
<1> QED BY <1>1, <1>2

LEMMA UpdateIdleSane ==
    ASSUME NEW w, NEW H, NEW E \in SUBSET Creatures, NEW p \in Wilds, Sane(w, H, E), p \in w.here \cup E,
           NEW v, v = UpdateIdleStatus(w, p)
    PROVE  /\ Sane(v, H, E) /\ OnlyOf(w, v, p) /\ v.targets[p] = w.targets[p]
           /\ v.overlooked = w.overlooked
<1>1. CASE ~IsSummon(w, p) /\ w.targets[p] = {}
  <2>1. v = Idled(w, p)
    BY <1>1 DEF UpdateIdleStatus, Idled, SetIdle
  <2>2. /\ Sane(v, H, E) /\ OnlyOf(w, v, p) /\ v.overlooked = w.overlooked
        /\ v.targets[p] = w.targets[p] \/ v.targets[p] = {}
    BY <2>1, IdleSane
  <2> QED BY <1>1, <2>2
<1>2. CASE ~(~IsSummon(w, p) /\ w.targets[p] = {})
  <2>1. v = Woken(w, p)
    BY <1>2 DEF UpdateIdleStatus, Woken, SetIdle
  <2> QED BY <2>1, AwakeSane
<1> QED BY <1>1, <1>2

\* Who is whose depends on the masters only.
LEMMA SameSides ==
    ASSUME NEW w, NEW v, Scene(w, v), NEW p, NEW c
    PROVE  (IsOpponent(v, p, c) <=> IsOpponent(w, p, c)) /\ (Sees(v, p, c) <=> Sees(w, p, c))
BY DEF Scene, IsOpponent, IsSummon, PlayerOf, Sees, Near

LEMMA BefriendedSane ==
    ASSUME NEW w, NEW H, NEW E \in SUBSET Creatures, NEW p \in Wilds, NEW c \in Creatures, Sane(w, H, E),
           p \in w.here \cup E, c \in w.here \cup w.gone \cup E, NEW v, v = Befriended(w, p, c)
    PROVE  Sane(v, H, E) /\ OnlyOf(w, v, p) /\ v.overlooked = w.overlooked /\ v.targets = w.targets
<1>1. CASE IsFriend(w, p, c)
  <2>1. v = AddFriend(w, p, c)
    BY <1>1 DEF Befriended
  <2> QED BY <2>1, AddFriendSane
<1>2. CASE ~IsFriend(w, p, c)
  <2>1. v = w /\ w \in FieldSet
    BY <1>2 DEF Befriended, Sane
  <2> QED BY <2>1, OnlyOfNothing
<1> QED BY <1>1, <1>2

LEMMA TargetedSane ==
    ASSUME NEW w, NEW H, NEW E \in SUBSET Creatures, NEW p \in Wilds, NEW c \in Creatures, Sane(w, H, E),
           p \in w.here \cup E, c \in w.here \cup w.gone \cup E, NEW v, v = Targeted(w, p, c)
    PROVE  /\ Sane(v, H, E) /\ OnlyOf(w, v, p) /\ v.overlooked = w.overlooked
           /\ w.targets[p] \subseteq v.targets[p] /\ (IsOpponent(w, p, c) => c \in v.targets[p])
<1>1. CASE IsOpponent(w, p, c)
  <2>1. v = AddTarget(w, p, c)
    BY <1>1 DEF Targeted
  <2>2. /\ Sane(v, H, E) /\ OnlyOf(w, v, p) /\ v.overlooked = w.overlooked
        /\ v.targets[p] = w.targets[p] \cup {c}
    BY <2>1, AddTargetSane
  <2> QED BY <2>2
<1>2. CASE ~IsOpponent(w, p, c)
  <2>1. v = w /\ w \in FieldSet
    BY <1>2 DEF Targeted, Sane
  <2> QED BY <1>2, <2>1, OnlyOfNothing
<1> QED BY <1>1, <1>2

LEMMA FoundSane ==
    ASSUME NEW w, NEW H, NEW E \in SUBSET Creatures, NEW p \in Wilds, NEW c \in Creatures, Sane(w, H, E),
           p \in w.here \cup E, c \in w.here \cup w.gone \cup E, NEW v, v = OnCreatureFound(w, p, c)
    PROVE  /\ Sane(v, H, E) /\ OnlyOf(w, v, p) /\ v.overlooked = w.overlooked
           /\ w.targets[p] \subseteq v.targets[p] /\ (IsOpponent(w, p, c) => c \in v.targets[p])
<1> DEFINE f == Befriended(w, p, c)
           t == Targeted(f, p, c)
<1>1. v = UpdateIdleStatus(t, p)
  BY DEF OnCreatureFound
<1>2. Sane(f, H, E) /\ OnlyOf(w, f, p) /\ f.overlooked = w.overlooked /\ f.targets = w.targets
  BY BefriendedSane
<1> HIDE DEF f
<1>3. Scene(w, f)
  BY <1>2 DEF OnlyOf
<1>4. f.here = w.here /\ f.gone = w.gone
  BY <1>3 DEF Scene
<1>5. /\ Sane(t, H, E) /\ OnlyOf(f, t, p) /\ t.overlooked = f.overlooked
      /\ f.targets[p] \subseteq t.targets[p] /\ (IsOpponent(f, p, c) => c \in t.targets[p])
  BY <1>2, <1>4, TargetedSane
<1> HIDE DEF t
<1>6. Scene(f, t)
  BY <1>5 DEF OnlyOf
<1>7. t.here = f.here
  BY <1>6 DEF Scene
<1>8. Sane(v, H, E) /\ OnlyOf(t, v, p) /\ v.targets[p] = t.targets[p] /\ v.overlooked = t.overlooked
  BY <1>1, <1>4, <1>5, <1>7, UpdateIdleSane
<1>9. OnlyOf(w, v, p)
  BY <1>2, <1>5, <1>8, OnlyOfTwice
<1>10. IsOpponent(w, p, c) => IsOpponent(f, p, c)
  BY <1>3, SameSides
<1> QED BY <1>2, <1>5, <1>8, <1>9, <1>10

LEMMA ForgottenSane ==
    ASSUME NEW w, NEW H, NEW E \in SUBSET Creatures, NEW p \in Wilds, NEW c \in Creatures, Sane(w, H, E),
           p \in w.here \cup E, NEW v, v = Forgotten(w, p, c)
    PROVE  /\ Sane(v, H, E) /\ OnlyOf(w, v, p) /\ v.overlooked = w.overlooked
           /\ w.targets[p] \ {c} \subseteq v.targets[p]
<1> DEFINE t == RemoveTarget(w, p, c)
<1>1. CASE ~IsOpponent(w, p, c)
  <2>1. v = w /\ w \in FieldSet
    BY <1>1 DEF Forgotten, Sane
  <2> QED BY <2>1, OnlyOfNothing
<1>2. /\ Sane(t, H, E) /\ OnlyOf(w, t, p) /\ t.overlooked = w.overlooked
      /\ t.targets[p] = w.targets[p] \ {c}
  BY RemoveTargetSane
<1>3. IsOpponent(w, p, c) => v = UpdateIdleStatus(t, p) \/ v = t
  BY DEF Forgotten
<1> HIDE DEF t
<1>4. p \in t.here \cup E
  BY <1>2 DEF OnlyOf, Scene
<1>5. CASE v = UpdateIdleStatus(t, p)
  <2>1. Sane(v, H, E) /\ OnlyOf(t, v, p) /\ v.targets[p] = t.targets[p] /\ v.overlooked = t.overlooked
    BY <1>2, <1>4, <1>5, UpdateIdleSane
  <2>2. OnlyOf(w, v, p)
    BY <1>2, <2>1, OnlyOfTwice
  <2> QED BY <1>2, <2>1, <2>2
<1>6. CASE v = t
  BY <1>2, <1>6
<1> QED BY <1>1, <1>3, <1>5, <1>6

LEMMA LeaveSane ==
    ASSUME NEW w, NEW H, NEW E \in SUBSET Creatures, NEW p \in Wilds, NEW c \in Creatures, Sane(w, H, E),
           p \in w.here \cup E, NEW v, v = OnCreatureLeave(w, p, c)
    PROVE  /\ Sane(v, H, E) /\ OnlyOf(w, v, p) /\ v.overlooked = w.overlooked
           /\ w.targets[p] \ {c} \subseteq v.targets[p]
<1>1. PICK f : f = IF IsFriend(w, p, c) THEN RemoveFriend(w, p, c) ELSE w
  OBVIOUS
<1>2. v = Forgotten(f, p, c)
  BY <1>1 DEF OnCreatureLeave
<1>3. Sane(f, H, E) /\ OnlyOf(w, f, p) /\ f.overlooked = w.overlooked /\ f.targets = w.targets
  <2>1. CASE f = RemoveFriend(w, p, c)
    BY <2>1, RemoveFriendSane
  <2>2. CASE f = w
    <3>1. w \in FieldSet
      BY DEF Sane
    <3> QED BY <2>2, <3>1, OnlyOfNothing
  <2> QED BY <1>1, <2>1, <2>2
<1>4. p \in f.here \cup E
  BY <1>3 DEF OnlyOf, Scene
<1>5. /\ Sane(v, H, E) /\ OnlyOf(f, v, p) /\ v.overlooked = f.overlooked
      /\ f.targets[p] \ {c} \subseteq v.targets[p]
  BY <1>2, <1>3, <1>4, ForgottenSane
<1>6. OnlyOf(w, v, p)
  BY <1>3, <1>5, OnlyOfTwice
<1> QED BY <1>3, <1>5, <1>6
-----------------------------------------------------------------------------
(* One after the other *)

LEMMA EverybodyHasATurn ==
    ASSUME NEW order \in Orders
    PROVE  /\ Len(order) \in Nat /\ \A n \in 1 .. Len(order) : order[n] \in Creatures
           /\ \A c \in Creatures : \E n \in 1 .. Len(order) : order[n] = c
<1>1. /\ Len(HashOrder) \in Nat /\ \A n \in 1 .. Len(HashOrder) : HashOrder[n] \in Creatures
      /\ \A c \in Creatures : \E n \in 1 .. Len(HashOrder) : HashOrder[n] = c
  BY TargetConstants DEF Range
<1>2. CASE order = HashOrder
  BY <1>1, <1>2
<1>3. CASE order = Reverse(HashOrder)
  <2> DEFINE N == Len(HashOrder)
  <2>1. order = [i \in 1 .. N |-> HashOrder[(N - i) + 1]]
    BY <1>3 DEF Reverse
  <2>2. N \in Nat /\ \A i \in 1 .. N : (N - i) + 1 \in 1 .. N /\ (N - ((N - i) + 1)) + 1 = i
    BY <1>1
  <2>3. \A i \in 1 .. N : order[i] = HashOrder[(N - i) + 1]
    BY <2>1
  <2>4. Len(order) = N
    <3>1. order \in Seq(Creatures)
      BY <1>1, <2>1, <2>2
    <3>2. DOMAIN order = 1 .. N
      BY <2>1
    <3> QED BY <2>2, <3>1, <3>2
  <2>5. \A n \in 1 .. N : order[n] \in Creatures
    BY <1>1, <2>2, <2>3
  <2>6. ASSUME NEW c \in Creatures PROVE \E n \in 1 .. N : order[n] = c
    <3>1. PICK i \in 1 .. N : HashOrder[i] = c
      BY <1>1
    <3>2. (N - i) + 1 \in 1 .. N /\ (N - ((N - i) + 1)) + 1 = i
      BY <2>2
    <3>3. order[(N - i) + 1] = c
      BY <2>3, <3>1, <3>2
    <3> QED BY <3>2, <3>3
  <2> QED BY <2>2, <2>4, <2>5, <2>6
<1> QED BY <1>2, <1>3 DEF Orders

\* The n-th round of each of the loops: over the spectators, and over what is unused
Round(kind, x, near, from, met, order, u, n) ==
    CASE kind = "sweep" -> OneDeleted(u)
      [] kind = "look" -> Looks(u, x, order[n])
      [] kind = "move" -> IF order[n] \notin near THEN u
                          ELSE OnCreatureMove(u, order[n], x, from, met[order[n]], order)
      [] kind = "appear" -> IF order[n] \notin near THEN u ELSE OnCreatureAppear(u, order[n], x, order)
      [] kind = "remove" -> IF order[n] \notin near THEN u ELSE OnRemoveCreature(u, order[n], x)

AreRounds(s, kind, x, near, from, met, order, m, f) ==
    f = [n \in 0 .. m |-> IF n = 0 THEN s ELSE Round(kind, x, near, from, met, order, f[n - 1], n)]

\* The loops do go on to the end.
LEMMA RoundsExist ==
    ASSUME NEW s, NEW kind, NEW x, NEW near, NEW from, NEW met, NEW order, NEW N \in Nat
    PROVE  \E f : AreRounds(s, kind, x, near, from, met, order, N, f)
<1> DEFINE Good == {m \in Nat : \E f : AreRounds(s, kind, x, near, from, met, order, m, f)}
           R(u, n) == Round(kind, x, near, from, met, order, u, n)
<1>1. 0 \in Good
  <2> DEFINE f == [n \in 0 .. 0 |-> s]
  <2>1. \A n \in 0 .. 0 : s = IF n = 0 THEN s ELSE R(f[n - 1], n)
    OBVIOUS
  <2> HIDE DEF R
  <2>2. f = [n \in 0 .. 0 |-> IF n = 0 THEN s ELSE R(f[n - 1], n)]
    BY <2>1
  <2>3. AreRounds(s, kind, x, near, from, met, order, 0, f)
    BY <2>2 DEF AreRounds, R
  <2> QED BY <2>3
<1>2. ASSUME NEW m \in Nat, m \in Good PROVE m + 1 \in Good
  <2>1. PICK f : AreRounds(s, kind, x, near, from, met, order, m, f)
    BY <1>2
  <2> DEFINE V(h, n) == IF n = 0 THEN s ELSE R(h[n - 1], n)
             g == [n \in 0 .. m + 1 |-> V(f, n)]
  <2>2. f = [n \in 0 .. m |-> V(f, n)]
    BY <2>1 DEF AreRounds
  <2> HIDE DEF R
  <2>3. \A n \in 0 .. m : g[n] = f[n]
    <3> HIDE DEF V
    <3> QED BY <2>2
  <2>4. ASSUME NEW n \in 0 .. m + 1 PROVE V(f, n) = V(g, n)
    <3>1. CASE n = 0
      BY <3>1
    <3>2. CASE n # 0
      <4>1. n - 1 \in 0 .. m
        BY <3>2
      <4>2. g[n - 1] = f[n - 1]
        BY <2>3, <4>1
      <4> HIDE DEF g
      <4> QED BY <4>2
    <3> QED BY <3>1, <3>2
  <2>5. g = [n \in 0 .. m + 1 |-> V(g, n)]
    <3> HIDE DEF V
    <3> QED BY <2>4
  <2>6. AreRounds(s, kind, x, near, from, met, order, m + 1, g)
    <3> HIDE DEF g
    <3> QED BY <2>5 DEF AreRounds, R
  <2>7. m + 1 \in Nat
    OBVIOUS
  <2> HIDE DEF g
  <2> QED BY <2>6, <2>7
<1> HIDE DEF Good
<1>3. N \in Good
  BY <1>1, <1>2, NumbersOneByOne
<1> QED BY <1>3 DEF Good

\* What holds at first and is kept by each round holds in the end.
LEMMA EachRoundKeeps ==
    ASSUME NEW s, NEW kind, NEW x, NEW near, NEW from, NEW met, NEW order, NEW N \in Nat, NEW f,
           AreRounds(s, kind, x, near, from, met, order, N, f),
           NEW G, <<0, s>> \in G,
           \A n \in 1 .. N : \A u : <<n - 1, u>> \in G => <<n, Round(kind, x, near, from, met, order, u, n)>> \in G
    PROVE  <<N, f[N]>> \in G
<1> DEFINE Good == {n \in Nat : n <= N => <<n, f[n]>> \in G}
           R(u, n) == Round(kind, x, near, from, met, order, u, n)
<1>1. f = [n \in 0 .. N |-> IF n = 0 THEN s ELSE R(f[n - 1], n)]
  BY DEF AreRounds
<1>2. \A n \in 1 .. N : \A u : <<n - 1, u>> \in G => <<n, R(u, n)>> \in G
  OBVIOUS
<1> HIDE DEF R
<1>3. 0 \in Good
  <2>1. f[0] = s
    BY <1>1
  <2> QED BY <2>1
<1>4. ASSUME NEW n \in Nat, n \in Good PROVE n + 1 \in Good
  <2> SUFFICES ASSUME n + 1 <= N PROVE <<n + 1, f[n + 1]>> \in G
    OBVIOUS
  <2>1. n <= N /\ n + 1 \in 1 .. N /\ (n + 1) - 1 = n /\ n + 1 # 0 /\ n + 1 \in 0 .. N
    OBVIOUS
  <2>2. f[n + 1] = R(f[n], n + 1)
    BY <1>1, <2>1
  <2>3. <<n, f[n]>> \in G
    BY <1>4, <2>1
  <2> QED BY <1>2, <2>1, <2>2, <2>3
<1> HIDE DEF Good
<1>5. N \in Good
  BY <1>3, <1>4, NumbersOneByOne
<1> QED BY <1>5 DEF Good

\* Whom p must take notice of when it looks around
Noticeable(w, p, c) == c # p /\ c \in w.here /\ Sees(w, p, c) /\ IsOpponent(w, p, c)

LEMMA LooksSane ==
    ASSUME NEW w, NEW H, NEW E \in SUBSET Creatures, NEW p \in Wilds, NEW c \in Creatures, Sane(w, H, E),
           p \in w.here \cup E, NEW v, v = Looks(w, p, c)
    PROVE  /\ Sane(v, H, E) /\ OnlyOf(w, v, p) /\ v.overlooked = w.overlooked
           /\ w.targets[p] \subseteq v.targets[p] /\ (Noticeable(w, p, c) => c \in v.targets[p])
<1>1. CASE c # p /\ c \in w.here /\ Sees(w, p, c)
  <2>1. v = OnCreatureFound(w, p, c) /\ c \in w.here \cup w.gone \cup E
    BY <1>1 DEF Looks
  <2>2. /\ Sane(v, H, E) /\ OnlyOf(w, v, p) /\ v.overlooked = w.overlooked
        /\ w.targets[p] \subseteq v.targets[p] /\ (IsOpponent(w, p, c) => c \in v.targets[p])
    BY <2>1, FoundSane
  <2> QED BY <2>2 DEF Noticeable
<1>2. CASE ~(c # p /\ c \in w.here /\ Sees(w, p, c))
  <2>1. v = w /\ w \in FieldSet
    BY <1>2 DEF Looks, Sane
  <2>2. OnlyOf(w, v, p)
    BY <2>1, OnlyOfNothing
  <2> QED BY <1>2, <2>1, <2>2 DEF Noticeable
<1> QED BY <1>1, <1>2

LEMMA NotOverlooked ==
    ASSUME NEW w, NEW H, NEW E, NEW p \in Creatures, Sane(w, H, E),
           NEW v, v = [w EXCEPT !.overlooked = @ \ {p}]
    PROVE  /\ Sane(v, H, E) /\ OnlyOf(w, v, p)
           /\ v.targets = w.targets
<1>1. w \in FieldSet /\ w.overlooked \ {p} \in SUBSET Creatures /\ v = [w EXCEPT !.overlooked = w.overlooked \ {p}]
  BY DEF Sane, FieldSet
<1>2. /\ v \in FieldSet /\ Scene(w, v) /\ Quarries(w, v) /\ v.targets = w.targets /\ v.friends = w.friends
      /\ v.refs = w.refs /\ v.idle = w.idle /\ v.checked = w.checked /\ v.listed = w.listed
      /\ v.overlooked = w.overlooked \ {p}
  BY <1>1 DEF FieldSet, Scene, Quarries
<1>3. OnlyOf(w, v, p)
  BY <1>2 DEF OnlyOf
<1>4. Account(v, H)
  BY <1>2 DEF Sane, Account
<1>5. Reach(v, E) /\ LetGo(v, E) /\ Heed(v, E)
  BY <1>2 DEF Sane, Reach, LetGo, Heed, Scene
<1> QED BY <1>2, <1>3, <1>4, <1>5 DEF Sane

LEMMA UpdateTargetListSane ==
    ASSUME NEW w, NEW H, NEW E \in SUBSET Creatures, NEW p \in Wilds, Sane(w, H, E),
           p \in w.here \cup E, NEW order \in Orders, NEW v, v = UpdateTargetList(w, p, order)
    PROVE  /\ Sane(v, H, E) /\ OnlyOf(w, v, p)
           /\ \A c \in Creatures : Noticeable(w, p, c) => c \in v.targets[p]
<1> DEFINE t == Trimmed(w, p, Visible(w, p, w.targets[p]), Visible(w, p, w.friends[p]))
           s == [t EXCEPT !.overlooked = @ \ {p}]
           N == Len(order)
<1>0. p \in Creatures /\ N \in Nat /\ \A n \in 1 .. N : order[n] \in Creatures
  BY Sorts, EverybodyHasATurn
<1>1. Sane(s, H, E) /\ OnlyOf(w, s, p)
  <2>1. Visible(w, p, w.targets[p]) \subseteq w.targets[p] /\ Visible(w, p, w.friends[p]) \subseteq w.friends[p]
    BY DEF Visible
  <2>2. Sane(t, H, E) /\ OnlyOf(w, t, p)
    BY <2>1, TrimmedSane
  <2> HIDE DEF t
  <2>3. Sane(s, H, E) /\ OnlyOf(t, s, p)
    BY <1>0, <2>2, NotOverlooked
  <2> QED BY <2>2, <2>3, OnlyOfTwice
<1> HIDE DEF t
<1>2. PICK f : AreRounds(s, "look", p, {}, 0, 0, order, N, f)
  BY <1>0, RoundsExist
<1>3. ASSUME NEW g, AreRounds(s, "look", p, {}, 0, 0, order, N, g)
      PROVE  g = [n \in 0 .. N |-> IF n = 0 THEN s ELSE Looks(g[n - 1], p, order[n])]
  <2> HIDE DEF s, N
  <2> QED BY <1>3 DEF AreRounds, Round
<1> DEFINE looked == CHOOSE g : g = [n \in 0 .. N |-> IF n = 0 THEN s ELSE Looks(g[n - 1], p, order[n])]
<1>4. looked = [n \in 0 .. N |-> IF n = 0 THEN s ELSE Looks(looked[n - 1], p, order[n])]
  <2> HIDE DEF s, N
  <2> QED BY <1>2, <1>3, Zenon
<1>5. v = looked[N]
  BY DEF UpdateTargetList, t
<1> HIDE DEF looked, s, N
<1>6. AreRounds(s, "look", p, {}, 0, 0, order, N, looked)
  BY <1>4 DEF AreRounds, Round
<1> DEFINE Ok(n, u) == /\ Sane(u, H, E) /\ OnlyOf(w, u, p)
                       /\ \A k \in 1 .. n : Noticeable(w, p, order[k]) => order[k] \in u.targets[p]
           G == {z \in Nat \X FieldSet : Ok(z[1], z[2])}
<1>7. <<0, s>> \in G
  <2>1. s \in FieldSet
    BY <1>1 DEF Sane
  <2> QED BY <1>1, <2>1
<1>8. ASSUME NEW n \in 1 .. N, NEW u, <<n - 1, u>> \in G
      PROVE  <<n, Round("look", p, {}, 0, 0, order, u, n)>> \in G
  <2> DEFINE r == Looks(u, p, order[n])
  <2>1. Ok(n - 1, u)
    BY <1>8
  <2>2. Scene(w, u)
    BY <2>1 DEF OnlyOf
  <2>3. /\ Sane(r, H, E) /\ OnlyOf(u, r, p)
        /\ u.targets[p] \subseteq r.targets[p] /\ (Noticeable(u, p, order[n]) => order[n] \in r.targets[p])
    <3>1. p \in u.here \cup E
      BY <2>2 DEF Scene
    <3> QED BY <1>0, <2>1, <3>1, LooksSane
  <2> HIDE DEF r
  <2>4. OnlyOf(w, r, p)
    BY <2>1, <2>3, OnlyOfTwice
  <2>5. \A k \in 1 .. n : Noticeable(w, p, order[k]) => order[k] \in r.targets[p]
    <3> SUFFICES ASSUME NEW k \in 1 .. n, Noticeable(w, p, order[k]) PROVE order[k] \in r.targets[p]
      OBVIOUS
    <3>1. CASE k = n
      <4>1. Noticeable(u, p, order[n])
        BY <2>2, <3>1, SameSides DEF Noticeable, Scene
      <4> QED BY <2>3, <3>1, <4>1
    <3>2. CASE k # n
      <4>1. k \in 1 .. n - 1
        BY <1>0, <3>2
      <4>2. order[k] \in u.targets[p]
        BY <2>1, <4>1
      <4> QED BY <2>3, <4>2
    <3> QED BY <3>1, <3>2
  <2>6. Ok(n, r)
    BY <2>3, <2>4, <2>5
  <2>7. r = Round("look", p, {}, 0, 0, order, u, n)
    BY DEF Round, r
  <2>8. n \in Nat /\ r \in FieldSet
    BY <1>0, <2>3 DEF Sane
  <2> HIDE DEF Ok
  <2> QED BY <2>6, <2>7, <2>8
<1>9. <<N, looked[N]>> \in G
  <2> HIDE DEF G
  <2> QED BY <1>0, <1>6, <1>7, <1>8, EachRoundKeeps
<1>10. Ok(N, v)
  <2> HIDE DEF Ok
  <2> QED BY <1>5, <1>9
<1>11. \A c \in Creatures : Noticeable(w, p, c) => c \in v.targets[p]
  <2> SUFFICES ASSUME NEW c \in Creatures, Noticeable(w, p, c) PROVE c \in v.targets[p]
    OBVIOUS
  <2>1. PICK k \in 1 .. N : order[k] = c
    BY EverybodyHasATurn DEF N
  <2> QED BY <1>10, <2>1
<1> QED BY <1>10, <1>11

LEMMA LookAroundSane ==
    ASSUME NEW w, NEW H, NEW E \in SUBSET Creatures, NEW p \in Wilds, Sane(w, H, E),
           p \in w.here \cup E, NEW order \in Orders, NEW v, v = LookAround(w, p, order)
    PROVE  /\ Sane(v, H, E) /\ OnlyOf(w, v, p)
           /\ \A c \in Creatures : Noticeable(w, p, c) => c \in v.targets[p]
<1> DEFINE u == UpdateTargetList(w, p, order)
<1>1. v = UpdateIdleStatus(u, p)
  BY DEF LookAround
<1>2. /\ Sane(u, H, E) /\ OnlyOf(w, u, p)
      /\ \A c \in Creatures : Noticeable(w, p, c) => c \in u.targets[p]
  BY UpdateTargetListSane
<1> HIDE DEF u
<1>3. p \in u.here \cup E
  BY <1>2 DEF OnlyOf, Scene
<1>4. Sane(v, H, E) /\ OnlyOf(u, v, p) /\ v.targets[p] = u.targets[p]
  BY <1>1, <1>2, <1>3, UpdateIdleSane
<1>5. OnlyOf(w, v, p)
  BY <1>2, <1>4, OnlyOfTwice
<1> QED BY <1>2, <1>4, <1>5
-----------------------------------------------------------------------------
(* Whom the creatures attack and follow *)

PointersOnly(w, v) == v \in FieldSet /\ Scene(w, v) /\ Lists(w, v)

LEMMA PointersOnlyTwice ==
    ASSUME NEW w, NEW u, NEW v, PointersOnly(w, u), PointersOnly(u, v)
    PROVE  PointersOnly(w, v)
BY DEF PointersOnly, Scene, Lists

LEMMA PointersOnlyNothing == ASSUME NEW w \in FieldSet PROVE PointersOnly(w, w)
BY DEF PointersOnly, Scene, Lists

LEMMA SanePointers ==
    ASSUME NEW w, NEW v, NEW H, NEW E, Sane(w, H, E), PointersOnly(w, v)
    PROVE  Sane(v, H, E)
<1>1. Account(v, H)
  BY DEF Sane, Account, PointersOnly, Lists
<1>2. Reach(v, E) /\ LetGo(v, E) /\ Heed(v, E)
  BY DEF Sane, Reach, LetGo, Heed, PointersOnly, Lists, Scene
<1> QED BY <1>1, <1>2 DEF Sane, PointersOnly

\* c sees q, who is in the game; or the two are yet to be told.
Aimed(w, X, c, q) == q = NoCreature \/ (q \in w.here /\ Sees(w, c, q)) \/ <<c, q>> \in X

\* Who has no object, or has not been out yet, attacks and follows nobody.
Blank(w, E) ==
    /\ \A c \in w.free \ E : w.attacked[c] = NoCreature /\ w.followed[c] = NoCreature
    /\ \A t \in (Tame \ (w.here \cup w.stale)) \ E :
          w.attacked[t] = NoCreature /\ w.followed[t] = NoCreature /\ w.master[t] = NoCreature

\* Whom a creature attacks and follows is there to be seen, but for the pairs of X.
Aim(w, X, E) ==
    /\ w \in FieldSet /\ w.here \cap w.free = {} /\ Blank(w, E)
    /\ \A c \in w.here \ w.stale : Aimed(w, X, c, w.attacked[c]) /\ Aimed(w, X, c, w.followed[c])

LEMMA AimedStill ==
    ASSUME NEW w, NEW v, Scene(w, v), NEW X, NEW c, NEW q
    PROVE  Aimed(v, X, c, q) <=> Aimed(w, X, c, q)
<1>1. (Sees(v, c, q) <=> Sees(w, c, q)) /\ v.here = w.here
  BY SameSides DEF Scene
<1> QED BY <1>1 DEF Aimed

\* Every new quarry is in sight, and only who is in the game takes one; but those who
\* are stale may take any.
LEMMA AimStep ==
    ASSUME NEW w, NEW v, NEW X, NEW E, Aim(w, X, E), PointersOnly(w, v),
           \A a \in Creatures :
              /\ \/ v.attacked[a] = w.attacked[a] \/ v.attacked[a] = NoCreature
                 \/ a \in w.here /\ v.attacked[a] \in w.here /\ Sees(w, a, v.attacked[a])
                 \/ a \in Tame /\ w.master[a] # NoCreature /\ v.attacked[a] \in w.here /\ Sees(w, a, v.attacked[a])
                 \/ a \in w.stale \ w.free
              /\ \/ v.followed[a] = w.followed[a] \/ v.followed[a] = NoCreature
                 \/ a \in w.here /\ v.followed[a] \in w.here /\ Sees(w, a, v.followed[a])
                 \/ a \in Tame /\ w.master[a] # NoCreature /\ v.followed[a] \in w.here /\ Sees(w, a, v.followed[a])
                 \/ a \in w.stale \ w.free
    PROVE  Aim(v, X, E)
<1>0. /\ w \in FieldSet /\ v \in FieldSet /\ Scene(w, v) /\ v.here = w.here /\ v.free = w.free
      /\ v.stale = w.stale /\ v.master = w.master
  BY DEF Aim, PointersOnly, Scene
<1>1. Blank(v, E)
  <2>1. ASSUME NEW c \in w.free \ E PROVE v.attacked[c] = NoCreature /\ v.followed[c] = NoCreature
    <3>1. c \in Counted /\ c \in Creatures /\ c \notin Tame /\ c \notin w.here
      BY <1>0, Sorts DEF FieldSet, Aim
    <3>2. w.attacked[c] = NoCreature /\ w.followed[c] = NoCreature
      BY DEF Aim, Blank
    <3> QED BY <3>1, <3>2
  <2>2. ASSUME NEW t \in (Tame \ (w.here \cup w.stale)) \ E
        PROVE  v.attacked[t] = NoCreature /\ v.followed[t] = NoCreature /\ v.master[t] = NoCreature
    <3>1. t \in Creatures /\ t \notin w.here
      BY DEF Creatures
    <3>2. w.attacked[t] = NoCreature /\ w.followed[t] = NoCreature /\ w.master[t] = NoCreature
      BY DEF Aim, Blank
    <3> QED BY <1>0, <3>1, <3>2
  <2> QED BY <1>0, <2>1, <2>2 DEF Blank
<1>2. ASSUME NEW c \in w.here \ w.stale
      PROVE  Aimed(w, X, c, v.attacked[c]) /\ Aimed(w, X, c, v.followed[c])
  <2>1. c \in Creatures
    BY <1>0 DEF FieldSet
  <2>2. Aimed(w, X, c, w.attacked[c]) /\ Aimed(w, X, c, w.followed[c])
    BY DEF Aim
  <2> QED BY <2>1, <2>2 DEF Aimed
<1>3. ASSUME NEW c \in v.here \ v.stale
      PROVE  Aimed(v, X, c, v.attacked[c]) /\ Aimed(v, X, c, v.followed[c])
  BY <1>0, <1>2, AimedStill
<1>4. v.here \cap v.free = {}
  BY <1>0 DEF Aim
<1> QED BY <1>0, <1>1, <1>3, <1>4 DEF Aim

LEMMA SetAttackedAim ==
    ASSUME NEW w, NEW X, NEW E, Aim(w, X, E), NEW c \in Creatures, NEW x \in Maybe,
           x # NoCreature => \/ c \in w.here /\ x \in w.here
                             \/ {c} \cup Summons(w, c) \subseteq w.stale \ w.free,
           NEW v, v = SetAttackedCreature(w, c, x)
    PROVE  /\ Aim(v, X, E) /\ PointersOnly(w, v)
           /\ v.attacked[c] = NoCreature \/ (v.attacked[c] = x /\ Sees(w, c, x))
           /\ v.followed[c] = NoCreature \/ v.followed[c] = w.followed[c]
           /\ c \in Human /\ x = NoCreature => v.followed[c] = NoCreature
           /\ \A a \in Creatures \ {c} : v.followed[a] = w.followed[a]
<1> DEFINE doing == {c} \cup Summons(w, c)
           A == [a \in Creatures |->
                   IF a \notin doing THEN w.attacked[a]
                   ELSE IF x # NoCreature /\ ~Sees(w, a, x) THEN NoCreature ELSE x]
           B == [w.attacked EXCEPT ![c] = NoCreature]
           F == [w.followed EXCEPT ![c] = IF c \in Human /\ x = NoCreature THEN NoCreature ELSE @]
<1>0. /\ w \in FieldSet /\ w.attacked \in [Creatures -> Maybe] /\ w.followed \in [Creatures -> Maybe]
      /\ NoCreature \in Maybe /\ c # NoCreature
  BY Sorts DEF Aim, FieldSet, Maybe
<1>1. /\ A \in [Creatures -> Maybe] /\ B \in [Creatures -> Maybe] /\ F \in [Creatures -> Maybe]
  <2>1. A \in [Creatures -> Maybe]
    BY <1>0
  <2>2. B \in [Creatures -> Maybe] /\ F \in [Creatures -> Maybe]
    BY <1>0
  <2> QED BY <2>1, <2>2
<1>2. \A a \in Creatures : A[a] = IF a \notin doing THEN w.attacked[a]
                                  ELSE IF x # NoCreature /\ ~Sees(w, a, x) THEN NoCreature ELSE x
  OBVIOUS
<1>3. B[c] = NoCreature /\ \A a \in Creatures \ {c} : B[a] = w.attacked[a]
  BY <1>0
<1>4. /\ \A a \in Creatures \ {c} : F[a] = w.followed[a]
      /\ F[c] = IF c \in Human /\ x = NoCreature THEN NoCreature ELSE w.followed[c]
  BY <1>0
<1>5. \A a \in doing : a = c \/ (a \in Tame /\ w.master[a] # NoCreature)
  BY <1>0 DEF Summons
<1>6. CASE x # NoCreature /\ ~Sees(w, c, x)
  <2>1. v = [w EXCEPT !.attacked = B]
    BY <1>6 DEF SetAttackedCreature
  <2> HIDE DEF A, B, F, doing
  <2>2. PointersOnly(w, v) /\ v.attacked = B /\ v.followed = w.followed
    BY <1>0, <1>1, <2>1 DEF FieldSet, PointersOnly, Scene, Lists
  <2>3. Aim(v, X, E)
    BY <1>3, <2>2, AimStep
  <2> QED BY <1>3, <1>6, <2>2, <2>3
<1>7. CASE ~(x # NoCreature /\ ~Sees(w, c, x))
  <2>1. v = [w EXCEPT !.attacked = A, !.followed = F]
    BY <1>7 DEF SetAttackedCreature
  <2> HIDE DEF A, B, F
  <2>2. PointersOnly(w, v) /\ v.attacked = A /\ v.followed = F
    BY <1>0, <1>1, <2>1 DEF FieldSet, PointersOnly, Scene, Lists
  <2>3. \A a \in Creatures : A[a] = w.attacked[a] \/ A[a] = NoCreature
                          \/ (a \in doing /\ A[a] = x /\ x # NoCreature /\ Sees(w, a, x))
    BY <1>2
  <2>4. \A a \in Creatures : F[a] = w.followed[a] \/ F[a] = NoCreature
    BY <1>4
  <2>5. c \in doing /\ (A[c] = NoCreature \/ (A[c] = x /\ Sees(w, c, x)))
    BY <1>2, <1>7
  <2>6. x # NoCreature => (c \in w.here /\ x \in w.here) \/ doing \subseteq w.stale \ w.free
    OBVIOUS
  <2> HIDE DEF doing
  <2>7. Aim(v, X, E)
    <3>1. ASSUME NEW a \in Creatures
          PROVE  \/ A[a] = w.attacked[a] \/ A[a] = NoCreature
                 \/ a \in w.here /\ A[a] \in w.here /\ Sees(w, a, A[a])
                 \/ a \in Tame /\ w.master[a] # NoCreature /\ A[a] \in w.here /\ Sees(w, a, A[a])
                 \/ a \in w.stale \ w.free
      <4>1. CASE A[a] = w.attacked[a] \/ A[a] = NoCreature
        BY <4>1
      <4>2. CASE a \in doing /\ A[a] = x /\ x # NoCreature /\ Sees(w, a, x)
        BY <1>5, <2>6, <4>2
      <4> QED BY <2>3, <4>1, <4>2
    <3> QED BY <2>2, <2>4, <3>1, AimStep
  <2> QED BY <1>4, <2>2, <2>5, <2>7
<1> QED BY <1>6, <1>7

Follows(w, c, x) == [w EXCEPT !.followed[c] = x]

LEMMA FollowFrame ==
    ASSUME NEW w \in FieldSet, NEW c \in Creatures, NEW x \in Maybe, NEW v, v = Follows(w, c, x)
    PROVE  /\ PointersOnly(w, v) /\ v.attacked = w.attacked /\ v.followed[c] = x
           /\ \A a \in Creatures \ {c} : v.followed[a] = w.followed[a]
<1> DEFINE F == [w.followed EXCEPT ![c] = x]
<1>1. F \in [Creatures -> Maybe] /\ F[c] = x /\ \A a \in Creatures \ {c} : F[a] = w.followed[a]
  BY DEF FieldSet
<1>2. v = [w EXCEPT !.followed = F]
  BY DEF Follows
<1> HIDE DEF F
<1>3. PointersOnly(w, v) /\ v.attacked = w.attacked /\ v.followed = F
  BY <1>1, <1>2 DEF FieldSet, PointersOnly, Scene, Lists
<1> QED BY <1>1, <1>3

LEMMA SetFollowAim ==
    ASSUME NEW w, NEW X, NEW E, Aim(w, X, E), NEW c \in Creatures, NEW x \in Maybe,
           x # NoCreature => (c \in w.here /\ x \in w.here) \/ c \in w.stale \ w.free,
           NEW v, v = SetFollowCreature(w, c, x)
    PROVE  Aim(v, X, E) /\ PointersOnly(w, v)
<1>0. w \in FieldSet /\ NoCreature \in Maybe
  BY DEF Aim, Maybe
<1>1. ASSUME NEW y \in Maybe, v = Follows(w, c, y),
             y = NoCreature \/ y = w.followed[c] \/ (c \in w.here /\ y \in w.here /\ Sees(w, c, y))
               \/ c \in w.stale \ w.free
      PROVE  Aim(v, X, E) /\ PointersOnly(w, v)
  <2>1. /\ PointersOnly(w, v) /\ v.attacked = w.attacked /\ v.followed[c] = y
        /\ \A a \in Creatures \ {c} : v.followed[a] = w.followed[a]
    BY <1>0, <1>1, FollowFrame
  <2>2. Aim(v, X, E)
    BY <1>1, <2>1, AimStep
  <2> QED BY <2>1, <2>2
<1>2. CASE x = NoCreature \/ w.followed[c] = x \/ Sees(w, c, x)
  <2>1. v = Follows(w, c, x)
    BY <1>2 DEF SetFollowCreature, Follows
  <2> QED BY <1>1, <1>2, <2>1
<1>3. CASE ~(x = NoCreature \/ w.followed[c] = x \/ Sees(w, c, x)) /\ c \in Human
  <2>1. v = SetAttackedCreature(w, c, NoCreature)
    BY <1>3 DEF SetFollowCreature
  <2> QED BY <1>0, <2>1, SetAttackedAim
<1>4. CASE ~(x = NoCreature \/ w.followed[c] = x \/ Sees(w, c, x)) /\ c \notin Human
  <2>1. v = Follows(w, c, NoCreature)
    BY <1>4 DEF SetFollowCreature, Follows
  <2> QED BY <1>0, <1>1, <2>1
<1> QED BY <1>2, <1>3, <1>4

\* Some of whom c attacked and followed is let go.
LetsOff(w, v, c) ==
    /\ v.attacked[c] = w.attacked[c] \/ v.attacked[c] = NoCreature
    /\ v.followed[c] = w.followed[c] \/ v.followed[c] = NoCreature

LEMMA DisappearAim ==
    ASSUME NEW w, NEW X, NEW E, Aim(w, X, E), NEW c \in Creatures, NEW x \in Creatures,
           NEW v, v = OnCreatureDisappear(w, c, x)
    PROVE  Aim(v, X, E) /\ PointersOnly(w, v) /\ LetsOff(w, v, c) /\ v.attacked[c] # x /\ v.followed[c] # x
<1>0. w \in FieldSet /\ NoCreature \in Maybe /\ x # NoCreature
  BY Sorts DEF Aim, Maybe
<1>1. PICK u : u = IF w.attacked[c] = x THEN SetAttackedCreature(w, c, NoCreature) ELSE w
  OBVIOUS
<1>2. v = Unfollowed(u, c, x)
  BY <1>1 DEF OnCreatureDisappear
<1>3. Aim(u, X, E) /\ PointersOnly(w, u) /\ LetsOff(w, u, c) /\ u.attacked[c] # x
  <2>1. CASE w.attacked[c] = x
    <3>1. u = SetAttackedCreature(w, c, NoCreature)
      BY <1>1, <2>1
    <3>2. /\ Aim(u, X, E) /\ PointersOnly(w, u) /\ u.attacked[c] = NoCreature
          /\ u.followed[c] = NoCreature \/ u.followed[c] = w.followed[c]
      <4>1. /\ Aim(u, X, E) /\ PointersOnly(w, u)
            /\ u.attacked[c] = NoCreature \/ (u.attacked[c] = NoCreature /\ Sees(w, c, NoCreature))
            /\ u.followed[c] = NoCreature \/ u.followed[c] = w.followed[c]
        BY <1>0, <3>1, SetAttackedAim
      <4> QED BY <4>1
    <3> QED BY <1>0, <3>2 DEF LetsOff
  <2>2. CASE w.attacked[c] # x
    <3>1. u = w
      BY <1>1, <2>2
    <3> QED BY <1>0, <2>2, <3>1, PointersOnlyNothing DEF LetsOff
  <2> QED BY <2>1, <2>2
<1>4. CASE u.followed[c] = x
  <2>1. v = Follows(u, c, NoCreature)
    BY <1>2, <1>4 DEF Unfollowed, Follows
  <2>2. /\ PointersOnly(u, v) /\ v.attacked = u.attacked /\ v.followed[c] = NoCreature
        /\ \A a \in Creatures \ {c} : v.followed[a] = u.followed[a]
    <3>1. u \in FieldSet
      BY <1>3 DEF Aim
    <3> QED BY <1>0, <2>1, <3>1, FollowFrame
  <2>3. Aim(v, X, E)
    BY <1>3, <2>2, AimStep
  <2>4. PointersOnly(w, v)
    BY <1>3, <2>2, PointersOnlyTwice
  <2> QED BY <1>0, <1>3, <2>2, <2>3, <2>4 DEF LetsOff
<1>5. CASE u.followed[c] # x
  <2>1. v = u
    BY <1>2, <1>5 DEF Unfollowed
  <2> QED BY <1>3, <1>5, <2>1
<1> QED BY <1>4, <1>5

\* The lists may be read for a quarry: whom they name and is not gone is there.
LEMMA SelectAim ==
    ASSUME NEW w, NEW X, NEW E, Aim(w, X, E), NEW H, Sane(w, H, {}), NEW p \in Wilds, p \in w.here, NEW x,
           NEW v, v = SelectTarget(w, p, x)
    PROVE  Aim(v, X, E) /\ PointersOnly(w, v)
<1>0. w \in FieldSet /\ p \in Creatures
  BY Sorts DEF Aim
<1>1. CASE x \in w.targets[p] /\ IsTarget(w, x)
  <2> DEFINE u == SetAttackedCreature(w, p, x)
  <2>1. v = SetFollowCreature(u, p, x)
    BY <1>1 DEF SelectTarget
  <2>2. x \in w.here /\ x \in Maybe
    <3>1. w.targets[p] \subseteq w.here \cup w.gone \cup {} /\ x \notin w.gone /\ w.here \subseteq Creatures
      BY <1>0, <1>1 DEF Sane, Reach, IsTarget, FieldSet
    <3> QED BY <1>1, <3>1 DEF Maybe
  <2>3. Aim(u, X, E) /\ PointersOnly(w, u)
    BY <1>0, <2>2, SetAttackedAim
  <2> HIDE DEF u
  <2>4. u.here = w.here
    BY <2>3 DEF PointersOnly, Scene
  <2>5. Aim(v, X, E) /\ PointersOnly(u, v)
    BY <1>0, <2>1, <2>2, <2>3, <2>4, SetFollowAim
  <2> QED BY <2>3, <2>5, PointersOnlyTwice
<1>2. CASE ~(x \in w.targets[p] /\ IsTarget(w, x))
  <2>1. v = w
    BY <1>2 DEF SelectTarget
  <2> QED BY <1>0, <2>1, PointersOnlyNothing
<1> QED BY <1>1, <1>2

LEMMA AimLists ==
    ASSUME NEW w, NEW v, NEW X, NEW E, NEW p, Aim(w, X, E), OnlyOf(w, v, p)
    PROVE  Aim(v, X, E)
<1>1. /\ w \in FieldSet /\ v \in FieldSet /\ Scene(w, v) /\ v.attacked = w.attacked /\ v.followed = w.followed
      /\ v.here = w.here /\ v.free = w.free /\ v.stale = w.stale /\ v.master = w.master
  BY DEF Aim, OnlyOf, Scene, Quarries
<1>2. Blank(v, E)
  BY <1>1 DEF Aim, Blank
<1>3. ASSUME NEW c \in v.here \ v.stale
      PROVE  Aimed(v, X, c, v.attacked[c]) /\ Aimed(v, X, c, v.followed[c])
  BY <1>1, AimedStill DEF Aim
<1> QED BY <1>1, <1>2, <1>3 DEF Aim

LEMMA AimFewer ==
    ASSUME NEW w, NEW X, NEW Y, X \subseteq Y, NEW E, NEW F, E \subseteq F, Aim(w, X, E)
    PROVE  Aim(w, Y, F)
BY DEF Aim, Blank, Aimed

-----------------------------------------------------------------------------
(* A move *)

\* c sees q if the move of x could have put them out of sight of each other.
Settled(w, c, x, q) == q = NoCreature \/ x \notin {c, q} \/ Sees(w, c, q)

LEMMA SettledStill ==
    ASSUME NEW w, NEW v, Scene(w, v), NEW c, NEW x, NEW q
    PROVE  Settled(v, c, x, q) <=> Settled(w, c, x, q)
BY SameSides DEF Settled

LEMMA EnteredAim ==
    ASSUME NEW w, NEW X, NEW E, Aim(w, X, E), NEW c \in Creatures, NEW x, NEW from,
           NEW v, v = Entered(w, c, x, from)
    PROVE  Aim(v, X, E) /\ PointersOnly(w, v) /\ LetsOff(w, v, c)
<1>0. w \in FieldSet
  BY DEF Aim
<1>1. CASE v = w
  BY <1>0, <1>1, PointersOnlyNothing DEF LetsOff
<1>2. CASE v = OnCreatureDisappear(w, c, w.attacked[c]) /\ w.attacked[c] # NoCreature
  <2>1. w.attacked[c] \in Creatures
    BY <1>0, <1>2 DEF FieldSet, Maybe
  <2> QED BY <1>2, <2>1, DisappearAim
<1> QED BY <1>1, <1>2 DEF Entered

LEMMA FollowKeptAim ==
    ASSUME NEW w, NEW X, NEW E, Aim(w, X, E), NEW c \in Creatures, NEW x,
           NEW v, v = FollowKept(w, c, x, w.followed[c])
    PROVE  Aim(v, X, E) /\ PointersOnly(w, v) /\ LetsOff(w, v, c) /\ Settled(v, c, x, v.followed[c])
<1> DEFINE f == w.followed[c]
<1>0. w \in FieldSet /\ f \in Maybe
  BY DEF Aim, FieldSet
<1>1. CASE f # NoCreature /\ x \in {f, c} /\ ~Sees(w, c, f)
  <2>1. v = OnCreatureDisappear(w, c, f) /\ f \in Creatures
    BY <1>0, <1>1 DEF FollowKept, Maybe
  <2> HIDE DEF f
  <2>2. Aim(v, X, E) /\ PointersOnly(w, v) /\ LetsOff(w, v, c) /\ v.followed[c] # f
    BY <2>1, DisappearAim
  <2>3. v.followed[c] = NoCreature
    BY <2>2 DEF LetsOff, f
  <2> QED BY <2>2, <2>3 DEF Settled
<1>2. CASE ~(f # NoCreature /\ x \in {f, c} /\ ~Sees(w, c, f))
  <2>1. v = w /\ Settled(w, c, x, f)
    BY <1>2 DEF FollowKept, Settled
  <2> QED BY <1>0, <2>1, PointersOnlyNothing DEF LetsOff
<1> QED BY <1>1, <1>2

LEMMA AttackKeptAim ==
    ASSUME NEW w, NEW X, NEW E, Aim(w, X, E), NEW c \in Creatures, NEW x, NEW from,
           NEW v, v = AttackKept(w, c, x, w.attacked[c], from)
    PROVE  Aim(v, X, E) /\ PointersOnly(w, v) /\ LetsOff(w, v, c) /\ Settled(v, c, x, v.attacked[c])
<1> DEFINE f == w.attacked[c]
           lost == f # NoCreature /\ x \in {f, c} /\ (~Sees(w, c, f) \/ (ZoneChanged(w, x, from) /\ w.at[f] \in Haven))
<1>0. w \in FieldSet /\ f \in Maybe
  BY DEF Aim, FieldSet
<1>1. CASE lost
  <2>1. v = OnCreatureDisappear(w, c, f) /\ f \in Creatures
    BY <1>0, <1>1 DEF AttackKept, Maybe
  <2> HIDE DEF f
  <2>2. Aim(v, X, E) /\ PointersOnly(w, v) /\ LetsOff(w, v, c) /\ v.attacked[c] # f
    BY <2>1, DisappearAim
  <2>3. v.attacked[c] = NoCreature
    BY <2>2 DEF LetsOff, f
  <2> QED BY <2>2, <2>3 DEF Settled
<1>2. CASE ~lost
  <2>1. v = w /\ Settled(w, c, x, f)
    BY <1>2 DEF AttackKept, Settled
  <2> QED BY <1>0, <2>1, PointersOnlyNothing DEF LetsOff
<1> QED BY <1>1, <1>2

LEMMA SightKeptAim ==
    ASSUME NEW w, NEW X, NEW E, Aim(w, X, E), NEW c \in Creatures, NEW x, NEW from,
           NEW v, v = SightKept(w, c, x, from)
    PROVE  /\ Aim(v, X, E) /\ PointersOnly(w, v)
           /\ Settled(v, c, x, v.attacked[c]) /\ Settled(v, c, x, v.followed[c])
<1> DEFINE e == Entered(w, c, x, from)
           f == FollowKept(e, c, x, e.followed[c])
<1>1. v = AttackKept(f, c, x, f.attacked[c], from)
  BY DEF SightKept, StillFollows, StillAttacks
<1>2. Aim(e, X, E) /\ PointersOnly(w, e)
  BY EnteredAim
<1> HIDE DEF e
<1>3. Aim(f, X, E) /\ PointersOnly(e, f) /\ Settled(f, c, x, f.followed[c])
  BY <1>2, FollowKeptAim
<1> HIDE DEF f
<1>4. Aim(v, X, E) /\ PointersOnly(f, v) /\ LetsOff(f, v, c) /\ Settled(v, c, x, v.attacked[c])
  BY <1>1, <1>3, AttackKeptAim
<1>5. Settled(v, c, x, v.followed[c])
  <2>1. Scene(f, v)
    BY <1>4 DEF PointersOnly
  <2>2. Settled(v, c, x, f.followed[c]) /\ Settled(v, c, x, NoCreature)
    BY <1>3, <2>1, SettledStill DEF Settled
  <2> QED BY <1>4, <2>2 DEF LetsOff
<1>6. PointersOnly(w, v)
  BY <1>2, <1>3, <1>4, PointersOnlyTwice
<1> QED BY <1>4, <1>5, <1>6

\* c has been told that x moved.
Told(X, c, x) == {z \in X : ~(z[1] = c /\ x \in {c, z[2]})}

LEMMA ToldAim ==
    ASSUME NEW w, NEW X, NEW E, Aim(w, X, E), NEW c, NEW x, X \subseteq Creatures \X w.here,
           Settled(w, c, x, w.attacked[c]), Settled(w, c, x, w.followed[c])
    PROVE  Aim(w, Told(X, c, x), E)
<1>1. ASSUME NEW a, NEW q, Aimed(w, X, a, q), a = c => Settled(w, c, x, q)
      PROVE  Aimed(w, Told(X, c, x), a, q)
  <2>1. CASE <<a, q>> \in Told(X, c, x)
    BY <2>1 DEF Aimed
  <2>2. CASE <<a, q>> \in X /\ <<a, q>> \notin Told(X, c, x)
    <3>1. a = c /\ x \in {c, q}
      BY <2>2 DEF Told
    <3>2. q \in w.here
      BY <2>2
    <3> QED BY <1>1, <3>1, <3>2 DEF Settled, Aimed
  <2>3. CASE <<a, q>> \notin X
    BY <1>1, <2>3 DEF Aimed
  <2> QED BY <2>1, <2>2, <2>3
<1>2. ASSUME NEW a \in w.here \ w.stale
      PROVE  Aimed(w, Told(X, c, x), a, w.attacked[a]) /\ Aimed(w, Told(X, c, x), a, w.followed[a])
  BY <1>1 DEF Aim
<1> QED BY <1>2 DEF Aim

\* An event changed of the lists of targets the one of p at most.
Touches(w, v, p) ==
    /\ Scene(w, v)
    /\ \A q \in Wilds \ {p} : v.targets[q] = w.targets[q] /\ (q \in v.overlooked <=> q \in w.overlooked)

LEMMA TouchesTwice ==
    ASSUME NEW w, NEW u, NEW v, NEW p, Touches(w, u, p), Touches(u, v, p)
    PROVE  Touches(w, v, p)
BY DEF Touches, Scene

LEMMA ListsTouch == ASSUME NEW w, NEW v, NEW p, OnlyOf(w, v, p) PROVE Touches(w, v, p)
BY Sorts DEF OnlyOf, Touches

LEMMA PointersTouch == ASSUME NEW w, NEW v, NEW p, PointersOnly(w, v) PROVE Touches(w, v, p)
BY DEF PointersOnly, Touches, Lists

Well(w, H, X) == Sane(w, H, {}) /\ Aim(w, X, {})

\* c came from where p could see it.
FromNear(w, p, from) == from - w.at[p] \in -View .. View

\* p keeps its targets, but x if that is out of sight.
Keeps(w, v, p, x) ==
    /\ w.targets[p] \ {x} \subseteq v.targets[p]
    /\ Sees(w, p, x) => w.targets[p] \subseteq v.targets[p]
    /\ p \in v.overlooked <=> p \in w.overlooked

\* p has x for a target now if x came into its sight.
Meets(w, v, p, x, from) ==
    Sees(w, p, x) /\ IsOpponent(w, p, x) /\ ~FromNear(w, p, from) => x \in v.targets[p]

LEMMA SeenMovingSane ==
    ASSUME NEW w, NEW H, NEW p \in Wilds, NEW x \in Creatures, Sane(w, H, {}), p \in w.here, x \in w.here,
           NEW from, NEW v, v = SeenMoving(w, p, x, FromNear(w, p, from))
    PROVE  Sane(v, H, {}) /\ OnlyOf(w, v, p) /\ Keeps(w, v, p, x) /\ Meets(w, v, p, x, from)
<1>0. w \in FieldSet
  BY DEF Sane
<1>1. PICK u : /\ v = UpdateIdleStatus(u, p)
               /\ u = IF Sees(w, p, x) = FromNear(w, p, from) THEN w
                      ELSE IF FromNear(w, p, from) THEN OnCreatureLeave(w, p, x) ELSE OnCreatureFound(w, p, x)
  BY DEF SeenMoving
<1>2. (Sees(w, p, x) = FromNear(w, p, from)) <=> (Sees(w, p, x) <=> FromNear(w, p, from))
  BY DEF Sees, Near, FromNear
<1>3. Sane(u, H, {}) /\ OnlyOf(w, u, p) /\ Keeps(w, u, p, x) /\ Meets(w, u, p, x, from)
  <2>1. CASE Sees(w, p, x) <=> FromNear(w, p, from)
    BY <1>0, <1>1, <1>2, <2>1, OnlyOfNothing DEF Keeps, Meets
  <2>2. CASE ~Sees(w, p, x) /\ FromNear(w, p, from)
    <3>1. u = OnCreatureLeave(w, p, x)
      BY <1>1, <1>2, <2>2
    <3>2. /\ Sane(u, H, {}) /\ OnlyOf(w, u, p) /\ u.overlooked = w.overlooked
          /\ w.targets[p] \ {x} \subseteq u.targets[p]
      BY <3>1, LeaveSane
    <3> QED BY <2>2, <3>2 DEF Keeps, Meets
  <2>3. CASE Sees(w, p, x) /\ ~FromNear(w, p, from)
    <3>1. u = OnCreatureFound(w, p, x)
      BY <1>1, <1>2, <2>3
    <3>2. /\ Sane(u, H, {}) /\ OnlyOf(w, u, p) /\ u.overlooked = w.overlooked
          /\ w.targets[p] \subseteq u.targets[p] /\ (IsOpponent(w, p, x) => x \in u.targets[p])
      BY <3>1, FoundSane
    <3> QED BY <3>2 DEF Keeps, Meets
  <2> QED BY <2>1, <2>2, <2>3
<1>4. p \in u.here \cup {}
  BY <1>3 DEF OnlyOf, Scene
<1>5. Sane(v, H, {}) /\ OnlyOf(u, v, p) /\ v.targets[p] = u.targets[p] /\ v.overlooked = u.overlooked
  BY <1>1, <1>3, <1>4, UpdateIdleSane
<1>6. OnlyOf(w, v, p)
  BY <1>3, <1>5, OnlyOfTwice
<1> QED BY <1>3, <1>5, <1>6 DEF Keeps, Meets

LEMMA FollowedBackAim ==
    ASSUME NEW w, NEW X, NEW E, Aim(w, X, E), NEW h \in Human, h \in w.here, NEW v, v = FollowedBack(w, h)
    PROVE  Aim(v, X, E) /\ PointersOnly(w, v)
<1> DEFINE F == [t \in Creatures |-> IF t \notin Summons(w, h) THEN w.followed[t]
                                     ELSE IF Sees(w, t, h) \/ w.followed[t] = h THEN h ELSE NoCreature]
<1>0. w \in FieldSet /\ h \in Maybe /\ NoCreature \in Maybe /\ h # NoCreature
  BY Sorts DEF Aim, Maybe
<1>1. F \in [Creatures -> Maybe]
  BY <1>0 DEF FieldSet
<1>2. \A t \in Creatures : \/ F[t] = w.followed[t] \/ F[t] = NoCreature
                           \/ t \in Tame /\ w.master[t] # NoCreature /\ F[t] = h /\ Sees(w, t, h)
  BY <1>0 DEF Summons
<1>3. v = [w EXCEPT !.followed = F]
  BY DEF FollowedBack
<1> HIDE DEF F
<1>4. PointersOnly(w, v) /\ v.attacked = w.attacked /\ v.followed = F
  BY <1>0, <1>1, <1>3 DEF FieldSet, PointersOnly, Scene, Lists
<1> QED BY <1>2, <1>4, AimStep

LEMMA DivertedAim ==
    ASSUME NEW w, NEW H, NEW X, Well(w, H, X), NEW p \in Wilds, p \in w.here, NEW x, NEW y,
           NEW v, v = Diverted(w, p, x, y)
    PROVE  Well(v, H, X) /\ PointersOnly(w, v)
<1>1. w \in FieldSet
  BY DEF Well, Sane
<1>2. CASE v = w
  BY <1>1, <1>2, PointersOnlyNothing
<1>3. CASE v = SelectTarget(w, p, CHOOSE z \in Prey(w, p, x, y) : TRUE)
  <2>1. PICK z : v = SelectTarget(w, p, z)
    BY <1>3
  <2>2. Aim(v, X, {}) /\ PointersOnly(w, v)
    BY <2>1, SelectAim DEF Well
  <2> QED BY <2>2, SanePointers DEF Well
<1> QED BY <1>2, <1>3 DEF Diverted

\* What c makes of the move of x
MoveTold(w, v, c, x, from) ==
    /\ Touches(w, v, c)
    /\ c \in Wilds /\ c # x => Keeps(w, v, c, x) /\ Meets(w, v, c, x, from)
    /\ c \in Wilds /\ c = x => \A d \in Creatures : Noticeable(w, x, d) => d \in v.targets[x]

LEMMA HandledSound ==
    ASSUME NEW w, NEW H, NEW X, Well(w, H, X), NEW c \in Creatures, c \in w.here, NEW x \in Creatures, x \in w.here,
           NEW from, NEW y, NEW order \in Orders, NEW v, v = Handled(w, c, x, from, y, order)
    PROVE  Well(v, H, X) /\ MoveTold(w, v, c, x, from)
<1>0. w \in FieldSet /\ Sane(w, H, {}) /\ Aim(w, X, {})
  BY DEF Well, Sane
<1>1. CASE c \in Human
  <2>1. c \notin Wilds
    BY <1>1, Sorts
  <2>2. v = w \/ v = FollowedBack(w, c)
    BY <1>1 DEF Handled
  <2>3. Aim(v, X, {}) /\ PointersOnly(w, v)
    <3>1. CASE v = w
      BY <1>0, <3>1, PointersOnlyNothing
    <3>2. CASE v = FollowedBack(w, c)
      BY <1>0, <1>1, <3>2, FollowedBackAim
    <3> QED BY <2>2, <3>1, <3>2
  <2> QED BY <1>0, <2>1, <2>3, SanePointers, PointersTouch DEF Well, MoveTold
<1>2. CASE c \notin Human /\ c = x
  <2>1. v = LookAround(w, c, order) /\ c \in Wilds
    BY <1>2, Sorts DEF Handled
  <2>2. /\ Sane(v, H, {}) /\ OnlyOf(w, v, c)
        /\ \A d \in Creatures : Noticeable(w, c, d) => d \in v.targets[c]
    BY <1>0, <2>1, LookAroundSane
  <2>3. Aim(v, X, {}) /\ Touches(w, v, c)
    BY <1>0, <2>2, AimLists, ListsTouch
  <2> QED BY <1>2, <2>2, <2>3 DEF Well, MoveTold
<1>3. CASE c \notin Human /\ c # x
  <2>1. c \in Wilds
    BY <1>3, Sorts
  <2>2. PICK u : u = SeenMoving(w, c, x, FromNear(w, c, from)) /\ v = Diverted(u, c, x, y)
    BY <1>3 DEF Handled, FromNear
  <2>3. Sane(u, H, {}) /\ OnlyOf(w, u, c) /\ Keeps(w, u, c, x) /\ Meets(w, u, c, x, from)
    BY <1>0, <2>1, <2>2, SeenMovingSane
  <2>4. Well(u, H, X) /\ Touches(w, u, c) /\ c \in u.here
    BY <1>0, <2>3, AimLists, ListsTouch DEF Well, OnlyOf, Scene
  <2>5. Well(v, H, X) /\ PointersOnly(u, v)
    BY <2>1, <2>2, <2>4, DivertedAim
  <2>6. Touches(w, v, c)
    BY <2>4, <2>5, PointersTouch, TouchesTwice
  <2>7. v.targets = u.targets /\ v.overlooked = u.overlooked
    BY <2>5 DEF PointersOnly, Lists
  <2>8. Keeps(w, v, c, x) /\ Meets(w, v, c, x, from)
    BY <2>3, <2>7 DEF Keeps, Meets
  <2> QED BY <1>3, <2>5, <2>6, <2>8 DEF MoveTold
<1> QED BY <1>1, <1>2, <1>3

LEMMA SameEyes ==
    ASSUME NEW w, NEW v, Scene(w, v), NEW p, NEW x, NEW from
    PROVE  /\ Sees(v, p, x) <=> Sees(w, p, x)
           /\ IsOpponent(v, p, x) <=> IsOpponent(w, p, x)
           /\ FromNear(v, p, from) <=> FromNear(w, p, from)
           /\ Noticeable(v, p, x) <=> Noticeable(w, p, x)
<1>1. (IsOpponent(v, p, x) <=> IsOpponent(w, p, x)) /\ (Sees(v, p, x) <=> Sees(w, p, x))
  BY SameSides
<1>2. v.at = w.at /\ v.here = w.here
  BY DEF Scene
<1> QED BY <1>1, <1>2 DEF FromNear, Noticeable

LEMMA OnCreatureMoveSound ==
    ASSUME NEW w, NEW H, NEW X, Well(w, H, X), NEW c \in Creatures, c \in w.here, NEW x \in Creatures, x \in w.here,
           X \subseteq Creatures \X w.here, NEW from, NEW y, NEW order \in Orders,
           NEW v, v = OnCreatureMove(w, c, x, from, y, order)
    PROVE  Well(v, H, Told(X, c, x)) /\ MoveTold(w, v, c, x, from)
<1> DEFINE s == SightKept(w, c, x, from)
<1>1. v = Handled(s, c, x, from, y, order)
  BY DEF OnCreatureMove
<1>2. /\ Aim(s, X, {}) /\ PointersOnly(w, s)
      /\ Settled(s, c, x, s.attacked[c]) /\ Settled(s, c, x, s.followed[c])
  BY SightKeptAim DEF Well
<1> HIDE DEF s
<1>3. Scene(w, s) /\ s.here = w.here /\ s.targets = w.targets /\ s.overlooked = w.overlooked
  BY <1>2 DEF PointersOnly, Scene, Lists
<1>4. Well(s, H, Told(X, c, x))
  BY <1>2, <1>3, ToldAim, SanePointers DEF Well
<1>5. Well(v, H, Told(X, c, x)) /\ MoveTold(s, v, c, x, from)
  BY <1>1, <1>3, <1>4, HandledSound
<1>6. Touches(w, v, c)
  BY <1>2, <1>5, PointersTouch, TouchesTwice DEF MoveTold
<1>7. MoveTold(w, v, c, x, from)
  <2>1. /\ Sees(s, c, x) <=> Sees(w, c, x)
        /\ IsOpponent(s, c, x) <=> IsOpponent(w, c, x)
        /\ FromNear(s, c, from) <=> FromNear(w, c, from)
        /\ \A d : Noticeable(s, x, d) <=> Noticeable(w, x, d)
    BY <1>3, SameEyes
  <2>2. c \in Wilds /\ c # x => Keeps(w, v, c, x) /\ Meets(w, v, c, x, from)
    BY <1>3, <1>5, <2>1 DEF MoveTold, Keeps, Meets
  <2>3. c \in Wilds /\ c = x => \A d \in Creatures : Noticeable(w, x, d) => d \in v.targets[x]
    BY <1>5, <2>1 DEF MoveTold
  <2> QED BY <1>6, <2>2, <2>3 DEF MoveTold
<1> QED BY <1>5, <1>7

\* The pairs of which x is one, and the one who looks is in S
Pairs(w, S, x) == {z \in S \X w.here : x \in {z[1], z[2]}}

\* What those of near have made of the move of x
MoveSeenBy(w, v, near, x, from) ==
    /\ Scene(w, v)
    /\ \A p \in Wilds \ {x} : Keeps(w, v, p, x) /\ (p \in near => Meets(w, v, p, x, from))
    /\ x \in Wilds \cap near => \A d \in Creatures : Noticeable(w, x, d) => d \in v.targets[x]

LEMMA OneMoreTold ==
    ASSUME NEW w, NEW u, NEW r, NEW c, NEW D, NEW x, NEW from,
           MoveSeenBy(w, u, D, x, from), MoveTold(u, r, c, x, from)
    PROVE  MoveSeenBy(w, r, D \cup {c}, x, from)
<1>1. Scene(w, u) /\ Scene(u, r) /\ Scene(w, r)
  BY DEF MoveSeenBy, MoveTold, Touches, Scene
<1>2. \A p : /\ Sees(u, p, x) <=> Sees(w, p, x)
             /\ IsOpponent(u, p, x) <=> IsOpponent(w, p, x)
             /\ FromNear(u, p, from) <=> FromNear(w, p, from)
  BY <1>1, SameEyes
<1>3. \A d : Noticeable(u, x, d) <=> Noticeable(w, x, d)
  BY <1>1, SameEyes
<1>4. ASSUME NEW p \in Wilds \ {x}
      PROVE  Keeps(w, r, p, x) /\ (p \in D \cup {c} => Meets(w, r, p, x, from))
  <2>0. Keeps(w, u, p, x) /\ (p \in D => Meets(w, u, p, x, from))
    BY DEF MoveSeenBy
  <2>1. CASE p = c
    <3>1. Keeps(u, r, p, x) /\ Meets(u, r, p, x, from)
      BY <2>1 DEF MoveTold
    <3> QED BY <1>2, <2>0, <3>1 DEF Keeps, Meets
  <2>2. CASE p # c
    <3>1. r.targets[p] = u.targets[p] /\ (p \in r.overlooked <=> p \in u.overlooked)
      BY <2>2 DEF MoveTold, Touches
    <3> QED BY <2>0, <2>2, <3>1 DEF Keeps, Meets
  <2> QED BY <2>1, <2>2
<1>5. ASSUME x \in Wilds \cap (D \cup {c}), NEW d \in Creatures, Noticeable(w, x, d) PROVE d \in r.targets[x]
  <2>1. CASE c = x
    BY <1>3, <1>5, <2>1 DEF MoveTold
  <2>2. CASE c # x
    <3>1. r.targets[x] = u.targets[x]
      BY <1>5, <2>2 DEF MoveTold, Touches
    <3> QED BY <1>5, <2>2, <3>1 DEF MoveSeenBy
  <2> QED BY <2>1, <2>2
<1> QED BY <1>1, <1>4, <1>5 DEF MoveSeenBy

LEMMA PairsTold ==
    ASSUME NEW w, NEW X, NEW S, NEW x, NEW c
    PROVE  Told(X \cup Pairs(w, S, x), c, x) \subseteq X \cup Pairs(w, S \ {c}, x)
<1> SUFFICES ASSUME NEW z \in Pairs(w, S, x), ~(z[1] = c /\ x \in {c, z[2]})
             PROVE  z \in Pairs(w, S \ {c}, x)
  BY DEF Told
<1>1. PICK a \in S, q \in w.here : z = <<a, q>>
  BY DEF Pairs
<1>2. x \in {a, q}
  BY <1>1 DEF Pairs
<1>3. a # c
  BY <1>1, <1>2
<1> QED BY <1>1, <1>2, <1>3 DEF Pairs

LEMMA MoveSeenSound ==
    ASSUME NEW w, NEW H, NEW x \in Creatures, x \in w.here, NEW X, X \subseteq Creatures \X w.here,
           NEW S, S \subseteq w.here, Well(w, H, X \cup Pairs(w, S, x)), NEW near, near \subseteq w.here,
           NEW from, NEW met, NEW order \in Orders, NEW v, v = MoveSeen(w, x, from, near, met, order)
    PROVE  Well(v, H, X \cup Pairs(w, S \ near, x)) /\ MoveSeenBy(w, v, near, x, from)
<1> DEFINE N == Len(order)
<1>0. N \in Nat /\ (\A n \in 1 .. N : order[n] \in Creatures) /\ w \in FieldSet /\ w.here \subseteq Creatures
  BY EverybodyHasATurn DEF Well, Sane, FieldSet
<1>1. PICK f : AreRounds(w, "move", x, near, from, met, order, N, f)
  BY <1>0, RoundsExist
<1>2. ASSUME NEW g, AreRounds(w, "move", x, near, from, met, order, N, g)
      PROVE  g = [n \in 0 .. N |-> IF n = 0 THEN w
                                   ELSE IF order[n] \notin near THEN g[n - 1]
                                   ELSE OnCreatureMove(g[n - 1], order[n], x, from, met[order[n]], order)]
  <2> HIDE DEF N
  <2> QED BY <1>2 DEF AreRounds, Round
<1> DEFINE told == CHOOSE g : g = [n \in 0 .. N |-> IF n = 0 THEN w
                                   ELSE IF order[n] \notin near THEN g[n - 1]
                                   ELSE OnCreatureMove(g[n - 1], order[n], x, from, met[order[n]], order)]
<1>3. told = [n \in 0 .. N |-> IF n = 0 THEN w
                               ELSE IF order[n] \notin near THEN told[n - 1]
                               ELSE OnCreatureMove(told[n - 1], order[n], x, from, met[order[n]], order)]
  <2> HIDE DEF N
  <2> QED BY <1>1, <1>2, Zenon
<1>4. v = told[N]
  BY DEF MoveSeen
<1> HIDE DEF told, N
<1>5. AreRounds(w, "move", x, near, from, met, order, N, told)
  BY <1>3 DEF AreRounds, Round
<1> DEFINE Done(n) == {order[k] : k \in 1 .. n} \cap near
           Ok(n, u) == Well(u, H, X \cup Pairs(w, S \ Done(n), x)) /\ MoveSeenBy(w, u, Done(n), x, from)
           G == {z \in Nat \X FieldSet : Ok(z[1], z[2])}
<1>6. <<0, w>> \in G
  <2>1. Done(0) = {}
    OBVIOUS
  <2>2. MoveSeenBy(w, w, {}, x, from)
    BY DEF MoveSeenBy, Scene, Keeps
  <2>3. S \ {} = S
    OBVIOUS
  <2> HIDE DEF Done
  <2> QED BY <1>0, <2>1, <2>2, <2>3
<1>7. ASSUME NEW n \in 1 .. N, NEW u, <<n - 1, u>> \in G
      PROVE  <<n, Round("move", x, near, from, met, order, u, n)>> \in G
  <2> DEFINE c == order[n]
             D == Done(n - 1)
  <2>1. Well(u, H, X \cup Pairs(w, S \ D, x)) /\ MoveSeenBy(w, u, D, x, from)
    BY <1>7
  <2>2. u.here = w.here
    BY <2>1 DEF MoveSeenBy, Scene
  <2>3. n \in Nat /\ Done(n) = IF c \in near THEN D \cup {c} ELSE D
    <3>1. \A k : k \in 1 .. n <=> k = n \/ k \in 1 .. n - 1
      BY <1>0
    <3> QED BY <1>0, <3>1
  <2> HIDE DEF Done, D
  <2>4. CASE c \notin near
    <3>1. Round("move", x, near, from, met, order, u, n) = u
      BY <2>4 DEF Round
    <3>2. u \in FieldSet
      BY <2>1 DEF Well, Sane
    <3> QED BY <2>1, <2>3, <2>4, <3>1, <3>2
  <2>5. CASE c \in near
    <3> DEFINE r == OnCreatureMove(u, c, x, from, met[c], order)
    <3>1. Round("move", x, near, from, met, order, u, n) = r
      BY <2>5 DEF Round
    <3>2. X \cup Pairs(w, S \ D, x) \subseteq Creatures \X u.here
      BY <1>0, <2>2 DEF Pairs
    <3>3. Well(r, H, Told(X \cup Pairs(w, S \ D, x), c, x)) /\ MoveTold(u, r, c, x, from)
      BY <1>0, <2>1, <2>2, <2>5, <3>2, OnCreatureMoveSound
    <3> HIDE DEF r, c
    <3>4. MoveSeenBy(w, r, D \cup {c}, x, from)
      BY <2>1, <3>3, OneMoreTold
    <3>5. (S \ D) \ {c} = S \ (D \cup {c})
      OBVIOUS
    <3>6. Told(X \cup Pairs(w, S \ D, x), c, x) \subseteq X \cup Pairs(w, S \ (D \cup {c}), x)
      BY <3>5, PairsTold
    <3>7. Well(r, H, X \cup Pairs(w, S \ (D \cup {c}), x)) /\ r \in FieldSet
      <4> DEFINE A == Told(X \cup Pairs(w, S \ D, x), c, x)
                 B == X \cup Pairs(w, S \ (D \cup {c}), x)
      <4>1. Aim(r, A, {}) /\ Sane(r, H, {}) /\ A \subseteq B /\ r \in FieldSet
        BY <3>3, <3>6 DEF Well, Sane
      <4> HIDE DEF A, B
      <4>2. Aim(r, B, {})
        BY <4>1, AimFewer
      <4> QED BY <4>1, <4>2 DEF Well, B
    <3> QED BY <2>3, <2>5, <3>1, <3>4, <3>7
  <2> QED BY <2>4, <2>5
<1>8. <<N, told[N]>> \in G
  <2> HIDE DEF G
  <2> QED BY <1>0, <1>5, <1>6, <1>7, EachRoundKeeps
<1>9. Ok(N, v)
  <2> HIDE DEF Ok
  <2> QED BY <1>4, <1>8
<1>10. Done(N) = near
  <2>1. \A c \in near : \E k \in 1 .. N : order[k] = c
    BY <1>0, EverybodyHasATurn DEF N
  <2> QED BY <2>1
<1> HIDE DEF Done
<1> QED BY <1>9, <1>10

Goes(w, x, to) == [w EXCEPT !.at[x] = to]

\* Everything but where they are
Stays(w, v) ==
    /\ v.here = w.here /\ v.gone = w.gone /\ v.fainted = w.fainted /\ v.master = w.master
    /\ v.released = w.released /\ v.free = w.free /\ v.stale = w.stale

LEMMA GoesFrame ==
    ASSUME NEW w \in FieldSet, NEW x \in Creatures, NEW to \in Int, NEW v, v = Goes(w, x, to)
    PROVE  /\ v \in FieldSet /\ Stays(w, v) /\ Lists(w, v) /\ Quarries(w, v)
           /\ v.at[x] = to /\ \A c \in Creatures \ {x} : v.at[c] = w.at[c]
<1> DEFINE A == [w.at EXCEPT ![x] = to]
<1>1. A \in [Creatures -> Int] /\ A[x] = to /\ \A c \in Creatures \ {x} : A[c] = w.at[c]
  BY DEF FieldSet
<1>2. v = [w EXCEPT !.at = A]
  BY DEF Goes
<1> HIDE DEF A
<1>3. v \in FieldSet /\ Stays(w, v) /\ Lists(w, v) /\ Quarries(w, v) /\ v.at = A
  BY <1>1, <1>2 DEF FieldSet, Stays, Lists, Quarries
<1> QED BY <1>1, <1>3

LEMMA SpectatorsNear ==
    ASSUME NEW w \in FieldSet, NEW x \in Creatures, NEW to \in Int, NEW near, near = Spectators(w, {w.at[x], to})
    PROVE  /\ near \subseteq w.here /\ (x \in w.here => x \in near)
           /\ \A c \in w.here : w.at[c] - w.at[x] \in -View .. View => c \in near
           /\ \A c \in w.here : w.at[c] - to \in -View .. View => c \in near
<1>1. View \in Nat /\ Viewport \in Nat /\ View <= Viewport
  BY Sorts
<1>2. ASSUME NEW n \in -View .. View PROVE n \in -Viewport .. Viewport
  BY <1>1
<1>3. \A c \in w.here : w.at[c] \in Int
  BY DEF FieldSet
<1>4. w.at[x] \in Int /\ w.at[x] - w.at[x] \in -Viewport .. Viewport
  BY <1>1 DEF FieldSet
<1> QED BY <1>2, <1>4 DEF Spectators

LEMMA GoesWell ==
    ASSUME NEW w, NEW H, NEW X, Well(w, H, X), NEW x \in Creatures, x \in w.here, NEW to \in Int,
           X \subseteq Creatures \X w.here,
           NEW near, near = Spectators(w, {w.at[x], to}), NEW v, v = Goes(w, x, to)
    PROVE  Well(v, H, X \cup Pairs(v, near, x))
<1>1. /\ v \in FieldSet /\ Stays(w, v) /\ Lists(w, v) /\ Quarries(w, v)
      /\ v.at[x] = to /\ \A c \in Creatures \ {x} : v.at[c] = w.at[c]
  BY GoesFrame DEF Well, Sane
<1>2. Sane(v, H, {})
  <2>1. Account(v, H)
    BY <1>1 DEF Well, Sane, Account, Lists
  <2>2. Reach(v, {}) /\ LetGo(v, {}) /\ Heed(v, {})
    BY <1>1 DEF Well, Sane, Reach, LetGo, Heed, Lists, Stays
  <2> QED BY <1>1, <2>1, <2>2 DEF Sane
<1>3. /\ x \in near
      /\ \A c \in w.here : w.at[c] - w.at[x] \in -View .. View => c \in near
  BY SpectatorsNear DEF Well, Sane
<1>4. w.here \subseteq Creatures /\ v.here = w.here /\ v.stale = w.stale
  BY <1>1 DEF FieldSet, Stays
<1>5. ASSUME NEW c \in w.here, NEW q, Aimed(w, X, c, q)
      PROVE  Aimed(v, X \cup Pairs(v, near, x), c, q)
  <2>1. CASE q = NoCreature \/ <<c, q>> \in X
    BY <2>1 DEF Aimed
  <2>2. CASE q \in w.here /\ Sees(w, c, q) /\ c = x
    BY <1>3, <1>4, <2>2 DEF Aimed, Pairs
  <2>3. CASE q \in w.here /\ Sees(w, c, q) /\ c # x /\ q = x
    BY <1>3, <1>4, <2>3 DEF Aimed, Pairs, Sees, Near
  <2>4. CASE q \in w.here /\ Sees(w, c, q) /\ c # x /\ q # x
    BY <1>1, <1>4, <2>4 DEF Aimed, Sees, Near
  <2> QED BY <1>5, <2>1, <2>2, <2>3, <2>4 DEF Aimed
<1>6. Aim(v, X \cup Pairs(v, near, x), {})
  <2>1. Blank(v, {}) /\ v.here \cap v.free = {}
    BY <1>1 DEF Well, Aim, Blank, Stays, Quarries
  <2>2. \A c \in v.here \ v.stale : /\ Aimed(v, X \cup Pairs(v, near, x), c, v.attacked[c])
                                    /\ Aimed(v, X \cup Pairs(v, near, x), c, v.followed[c])
    BY <1>1, <1>4, <1>5 DEF Well, Aim, Quarries
  <2> QED BY <1>1, <2>1, <2>2 DEF Aim
<1> QED BY <1>2, <1>6 DEF Well

LEMMA MovePokemonSound ==
    ASSUME NEW w, NEW H, NEW X, Well(w, H, X), NEW x \in Wilds, x \in w.here, NEW to \in Int,
           X \subseteq Creatures \X w.here, NEW met, NEW order \in Orders,
           NEW v, v = MovePokemon(w, x, to, met, order), NEW g, g = Goes(w, x, to)
    PROVE  /\ Well(v, H, X) /\ Scene(g, v) /\ Stays(w, v) /\ (\A c \in Creatures \ {x} : v.at[c] = w.at[c])
           /\ \A p \in Wilds \ {x} : /\ w.targets[p] \ {x} \subseteq v.targets[p]
                                     /\ p \in v.overlooked <=> p \in w.overlooked
           /\ \A d \in Creatures : Noticeable(v, x, d) => d \in v.targets[x]
<1> DEFINE near == Spectators(w, {w.at[x], to})
           from == w.at[x]
<1>0. w \in FieldSet /\ x \in Creatures
  BY Sorts DEF Well, Sane
<1>1. /\ g \in FieldSet /\ Stays(w, g) /\ Lists(w, g)
      /\ g.at[x] = to /\ \A c \in Creatures \ {x} : g.at[c] = w.at[c]
  BY <1>0, GoesFrame
<1>2. near \subseteq w.here /\ x \in near
  BY <1>0, SpectatorsNear
<1>3. Well(g, H, X \cup Pairs(g, near, x))
  BY <1>0, GoesWell
<1>4. v = MoveSeen(g, x, from, near, met, order)
  BY DEF MovePokemon, Goes
<1> HIDE DEF near, from
<1>5. g.here = w.here /\ g.targets = w.targets /\ g.overlooked = w.overlooked
  BY <1>1 DEF Stays, Lists
<1>6. Well(v, H, X \cup Pairs(g, near \ near, x)) /\ MoveSeenBy(g, v, near, x, from)
  BY <1>0, <1>2, <1>3, <1>4, <1>5, MoveSeenSound
<1>7. X \cup Pairs(g, near \ near, x) = X
  BY DEF Pairs
<1>8. Scene(g, v)
  BY <1>6 DEF MoveSeenBy
<1>9. Stays(w, v) /\ \A c \in Creatures \ {x} : v.at[c] = w.at[c]
  BY <1>1, <1>8 DEF Stays, Scene
<1>10. \A d \in Creatures : Noticeable(v, x, d) => d \in v.targets[x]
  BY <1>2, <1>6, <1>8, SameEyes DEF MoveSeenBy
<1>11. ASSUME NEW p \in Wilds \ {x}
       PROVE  w.targets[p] \ {x} \subseteq v.targets[p] /\ (p \in v.overlooked <=> p \in w.overlooked)
  BY <1>5, <1>6 DEF MoveSeenBy, Keeps
<1> QED BY <1>6, <1>7, <1>8, <1>9, <1>10, <1>11

\* The players a wild pokemon can see are targets of its own, but for the pairs of U.
Notice(w, U) == \A p \in (Wild \cap w.here) \ (w.fainted \cup w.overlooked) :
    \A h \in (Human \cap w.here) \ w.fainted : Sees(w, p, h) => h \in w.targets[p] \/ <<p, h>> \in U

\* A pokemon of the map has no master, and one of a trainer is out while he plays.
Untamed(w) == \A p \in Wild : w.master[p] = NoCreature
Led(w, E) == \A t \in Tame \ E : t \in w.here <=> w.master[t] \in w.here

LEMMA WildOpponents ==
    ASSUME NEW w, Untamed(w), NEW p \in Wild, NEW h \in Human
    PROVE  IsOpponent(w, p, h)
BY Sorts DEF Untamed, IsOpponent, IsSummon, PlayerOf

LEMMA PokemonNoticed ==
    ASSUME NEW w, NEW H, NEW X, Well(w, H, X), NEW x \in Wilds, x \in w.here, NEW to \in Int,
           X \subseteq Creatures \X w.here, NEW met, NEW order \in Orders, NEW U, Notice(w, U), Untamed(w),
           NEW v, v = MovePokemon(w, x, to, met, order)
    PROVE  Notice(v, U)
<1>1. PICK g : g = Goes(w, x, to)
  OBVIOUS
<1>2. /\ Stays(w, v) /\ (\A c \in Creatures \ {x} : v.at[c] = w.at[c])
      /\ \A p \in Wilds \ {x} : /\ w.targets[p] \ {x} \subseteq v.targets[p]
                                /\ p \in v.overlooked <=> p \in w.overlooked
      /\ \A d \in Creatures : Noticeable(v, x, d) => d \in v.targets[x]
  BY <1>1, MovePokemonSound
<1>3. v.here = w.here /\ v.fainted = w.fainted /\ Untamed(v)
  BY <1>2 DEF Stays, Untamed
<1> SUFFICES ASSUME NEW p \in (Wild \cap w.here) \ (w.fainted \cup v.overlooked),
                    NEW h \in (Human \cap w.here) \ w.fainted, Sees(v, p, h)
             PROVE  h \in v.targets[p] \/ <<p, h>> \in U
  BY <1>3 DEF Notice
<1>4. p \in Wilds /\ h \in Creatures /\ h # x /\ p # h /\ p \in Creatures
  BY Sorts DEF Wilds
<1>5. CASE p = x
  <2>1. Noticeable(v, x, h)
    BY <1>3, <1>4, <1>5, WildOpponents DEF Noticeable
  <2> QED BY <1>2, <1>4, <1>5, <2>1
<1>6. CASE p # x
  <2>1. Sees(w, p, h)
    <3>1. v.at[p] = w.at[p] /\ v.at[h] = w.at[h]
      BY <1>2, <1>4, <1>6
    <3> QED BY <3>1 DEF Sees, Near
  <2>2. p \notin w.overlooked
    BY <1>2, <1>4, <1>6
  <2>3. h \in w.targets[p] \/ <<p, h>> \in U
    BY <2>1, <2>2 DEF Notice
  <2> QED BY <1>2, <1>4, <1>6, <2>3
<1> QED BY <1>5, <1>6

\* What the move of a trainer's pokemon leaves to the pokemon of the map
Brought(w, v) ==
    /\ Stays(w, v) /\ (\A c \in Creatures \ Tame : v.at[c] = w.at[c])
    /\ \A p \in Wild : /\ w.targets[p] \ Tame \subseteq v.targets[p]
                       /\ p \in v.overlooked <=> p \in w.overlooked

LEMMA LeashedSound ==
    ASSUME NEW w, NEW H, NEW X, Well(w, H, X), NEW x \in Human, x \in w.here,
           X \subseteq Creatures \X w.here, NEW met, NEW order \in Orders, Led(w, {}),
           NEW v, v = Leashed(w, x, met, order)
    PROVE  Well(v, H, X) /\ Brought(w, v)
<1>0. w \in FieldSet /\ x \in Creatures /\ w.at[x] \in Int
  BY Sorts DEF Well, Sane, FieldSet
<1>1. CASE v = w
  BY <1>1 DEF Brought, Stays
<1>2. CASE /\ ~\A t \in Summons(w, x) : Near(w, t, x, LeashLength - 1)
           /\ v = MovePokemon(w, CHOOSE t \in Summons(w, x) : TRUE, w.at[x], met, order)
  <2>1. PICK t \in Summons(w, x) : v = MovePokemon(w, t, w.at[x], met, order)
    BY <1>2
  <2>2. t \in Wilds /\ t \in Tame /\ t \in w.here
    BY <2>1 DEF Summons, Wilds, Led
  <2>3. PICK g : g = Goes(w, t, w.at[x])
    OBVIOUS
  <2> DEFINE to == w.at[x]
  <2>4. to \in Int /\ v = MovePokemon(w, t, to, met, order) /\ g = Goes(w, t, to)
    BY <1>0, <2>1, <2>3
  <2> HIDE DEF to
  <2>5. /\ Well(v, H, X) /\ Stays(w, v) /\ (\A c \in Creatures \ {t} : v.at[c] = w.at[c])
        /\ \A p \in Wilds \ {t} : /\ w.targets[p] \ {t} \subseteq v.targets[p]
                                  /\ p \in v.overlooked <=> p \in w.overlooked
    BY <2>2, <2>4, MovePokemonSound
  <2>6. \A p \in Wild : p \in Wilds \ {t}
    BY <2>2, Sorts DEF Wilds
  <2> QED BY <2>2, <2>5, <2>6 DEF Brought
<1> QED BY <1>1, <1>2 DEF Leashed

LEMMA MovePlayerSound ==
    ASSUME NEW w, NEW H, Well(w, H, {}), NEW x \in Human, x \in w.here, NEW to \in Int,
           NEW met, NEW order \in Orders, Notice(w, {}), Untamed(w), Led(w, {}), x \notin w.fainted,
           NEW v, v = MovePlayer(w, x, to, met, order)
    PROVE  Well(v, H, {}) /\ Stays(w, v) /\ Notice(v, {})
<1> DEFINE from == w.at[x]
           near == Spectators(w, {from, to})
           before == {c \in near : Turn(order, c) < Turn(order, x)}
           after == near \ before
           w1 == Goes(w, x, to)
           u1 == MoveSeen(w1, x, from, before, met, order)
           u2 == Leashed(u1, x, met, order)
<1>1. v = MoveSeen(u2, x, from, after, met, order)
  BY DEF MovePlayer, Goes
<1>2. w \in FieldSet /\ x \in Creatures /\ w.here \subseteq Creatures /\ from \in Int
  BY Sorts DEF Well, Sane, FieldSet
<1>3. /\ w1 \in FieldSet /\ Stays(w, w1) /\ Lists(w, w1)
      /\ w1.at[x] = to /\ \A c \in Creatures \ {x} : w1.at[c] = w.at[c]
  <2> HIDE DEF w1
  <2> QED BY <1>2, GoesFrame DEF w1
<1>4. /\ near \subseteq w.here /\ x \in near
      /\ \A c \in w.here : w.at[c] - to \in -View .. View => c \in near
  BY <1>2, SpectatorsNear
<1>5. before \subseteq near /\ after = near \ before
  OBVIOUS
<1>6. Well(w1, H, {} \cup Pairs(w1, near, x))
  <2> HIDE DEF w1
  <2>1. {} \subseteq Creatures \X w.here
    OBVIOUS
  <2> QED BY <1>2, <2>1, GoesWell DEF w1
<1>7. u2 = Leashed(u1, x, met, order) /\ u1 = MoveSeen(w1, x, from, before, met, order)
  OBVIOUS
<1> HIDE DEF before, after, near, w1, u1, u2
<1>8. /\ w1.here = w.here /\ w1.targets = w.targets /\ w1.overlooked = w.overlooked /\ w1.fainted = w.fainted
      /\ w1.master = w.master
  BY <1>3 DEF Stays, Lists
<1>9. Well(u1, H, {} \cup Pairs(w1, near \ before, x)) /\ MoveSeenBy(w1, u1, before, x, from)
  <2>1. {} \subseteq Creatures \X w1.here /\ near \subseteq w1.here /\ before \subseteq w1.here /\ x \in w1.here
    BY <1>4, <1>5, <1>8
  <2>2. u1 = MoveSeen(w1, x, from, before, met, order)
    BY <1>7
  <2>3. x \in Creatures /\ order \in Orders
    BY <1>2
  <2> HIDE DEF from
  <2> QED BY ONLY <1>6, <2>1, <2>2, <2>3, MoveSeenSound
<1>10. Scene(w1, u1) /\ u1.here = w.here /\ u1.master = w.master
  BY <1>8, <1>9 DEF MoveSeenBy, Scene
<1>11. Well(u2, H, {} \cup Pairs(w1, after, x)) /\ Brought(u1, u2)
  <2>1. {} \cup Pairs(w1, after, x) \subseteq Creatures \X u1.here
    BY <1>2, <1>4, <1>5, <1>8, <1>10 DEF Pairs
  <2>2. Led(u1, {})
    BY <1>10 DEF Led
  <2>3. Well(u1, H, {} \cup Pairs(w1, after, x)) /\ x \in u1.here
    BY <1>5, <1>9, <1>10
  <2> QED BY <1>7, <2>1, <2>2, <2>3, LeashedSound
<1>12. u2.here = w.here /\ Stays(u1, u2)
  BY <1>10, <1>11 DEF Brought, Stays
<1>13. Well(v, H, {} \cup Pairs(u2, after \ after, x)) /\ MoveSeenBy(u2, v, after, x, from)
  <2>1. Pairs(u2, after, x) = Pairs(w1, after, x)
    BY <1>8, <1>12 DEF Pairs
  <2>2. {} \subseteq Creatures \X u2.here /\ after \subseteq u2.here /\ x \in u2.here
    BY <1>4, <1>5, <1>12
  <2>3. Well(u2, H, {} \cup Pairs(u2, after, x))
    BY <1>11, <2>1
  <2> QED BY <1>1, <1>2, <2>2, <2>3, MoveSeenSound
<1>14. Well(v, H, {})
  <2>1. {} \cup Pairs(u2, after \ after, x) = {}
    BY DEF Pairs
  <2> QED BY <1>13, <2>1
<1>15. Scene(u2, v) /\ Stays(w, v)
  BY <1>3, <1>10, <1>12, <1>13 DEF MoveSeenBy, Scene, Stays
<1>16. Notice(v, {})
  <2> SUFFICES ASSUME NEW p \in (Wild \cap w.here) \ (w.fainted \cup v.overlooked),
                      NEW h \in (Human \cap w.here) \ w.fainted, Sees(v, p, h)
               PROVE  h \in v.targets[p]
    <3>1. v.here = w.here /\ v.fainted = w.fainted
      BY <1>15 DEF Stays
    <3> QED BY <3>1 DEF Notice
  <2>1. /\ p \in Wilds \ {x} /\ p \in Creatures \ {x} /\ p \in Creatures \ Tame /\ h \in Creatures \ Tame
        /\ x \in Creatures \ Tame
    BY Sorts DEF Wilds
  <2>2. /\ u1.at[p] = w.at[p] /\ u2.at[p] = w.at[p] /\ v.at[p] = w.at[p]
        /\ u1.at[h] = w1.at[h] /\ u2.at[h] = w1.at[h] /\ v.at[h] = w1.at[h] /\ w1.at[p] = w.at[p]
        /\ u1.at = w1.at
    BY <1>3, <1>10, <1>11, <1>15, <2>1 DEF Brought, Scene
  <2>3. Sees(w1, p, h) /\ Sees(u1, p, h) /\ Sees(u2, p, h)
    BY <2>2 DEF Sees, Near
  <2>4. /\ Keeps(w1, u1, p, x) /\ (p \in before => Meets(w1, u1, p, x, from))
        /\ Keeps(u2, v, p, x) /\ (p \in after => Meets(u2, v, p, x, from))
    BY <1>9, <1>13, <2>1 DEF MoveSeenBy
  <2>5. u1.targets[p] \ Tame \subseteq u2.targets[p] /\ (p \in u2.overlooked <=> p \in u1.overlooked)
    BY <1>11 DEF Brought
  <2>6. p \notin w.overlooked
    BY <1>8, <2>4, <2>5 DEF Keeps
  <2>7. CASE h # x
    <3>1. Sees(w, p, h)
      <4>1. w1.at[h] = w.at[h]
        BY <1>3, <2>1, <2>7
      <4> QED BY <2>2, <2>3, <4>1 DEF Sees, Near
    <3>2. h \in w.targets[p]
      BY <2>6, <3>1 DEF Notice
    <3> QED BY <1>8, <2>1, <2>4, <2>5, <2>7, <3>2 DEF Keeps
  <2>8. CASE h = x /\ FromNear(w, p, from)
    <3>1. Sees(w, p, x)
      <4>1. w.at[p] \in Int /\ View \in Nat
        BY <1>2, <2>1, Sorts DEF FieldSet
      <4>2. from - w.at[p] \in -View .. View
        BY <2>8 DEF FromNear
      <4>3. w.at[p] - from \in -View .. View
        BY <1>2, <4>1, <4>2
      <4> QED BY <4>3 DEF Sees, Near
    <3>2. x \in w.targets[p]
      BY <2>6, <2>8, <3>1 DEF Notice
    <3> QED BY <1>8, <2>1, <2>3, <2>4, <2>5, <2>8, <3>2 DEF Keeps
  <2>9. CASE h = x /\ ~FromNear(w, p, from)
    <3>1. p \in near
      <4>1. w.at[p] - to \in -View .. View
        BY <1>3, <2>2, <2>3, <2>9 DEF Sees, Near
      <4> QED BY <1>4, <4>1
    <3>2. IsOpponent(w1, p, x) /\ IsOpponent(u2, p, x)
      <4>1. Untamed(w1) /\ Untamed(u2)
        BY <1>8, <1>10, <1>12 DEF Untamed, Stays
      <4> QED BY <4>1, WildOpponents
    <3>3. ~FromNear(w1, p, from) /\ ~FromNear(u2, p, from)
      BY <2>2, <2>9 DEF FromNear
    <3>4. CASE p \in before
      <4>1. x \in u1.targets[p]
        BY <2>3, <2>4, <2>9, <3>2, <3>3, <3>4 DEF Meets
      <4> QED BY <2>1, <2>3, <2>4, <2>5, <2>9, <4>1 DEF Keeps
    <3>5. CASE p \in after
      BY <2>3, <2>4, <2>9, <3>2, <3>3, <3>5 DEF Meets
    <3> QED BY <1>5, <3>1, <3>4, <3>5
  <2> QED BY <2>7, <2>8, <2>9
<1> QED BY <1>14, <1>15, <1>16
-----------------------------------------------------------------------------
(* A creature appears *)

LEMMA AppearSane ==
    ASSUME NEW w, NEW H, NEW x \in Creatures, Sane(w, H, {x}), x \in w.here, NEW c \in Creatures, c \in w.here,
           NEW order \in Orders, NEW from, NEW v, v = OnCreatureAppear(w, c, x, order)
    PROVE  Sane(v, H, {x}) /\ OnlyOf(w, v, c) /\ MoveTold(w, v, c, x, from)
<1>0. w \in FieldSet
  BY DEF Sane
<1>1. CASE c \notin Wilds
  <2>1. v = w
    BY <1>1 DEF OnCreatureAppear
  <2>2. OnlyOf(w, v, c)
    BY <1>0, <2>1, OnlyOfNothing
  <2> QED BY <1>1, <2>1, <2>2, ListsTouch DEF MoveTold
<1>2. CASE c \in Wilds /\ c = x
  <2>1. v = LookAround(w, c, order)
    BY <1>2 DEF OnCreatureAppear
  <2>2. /\ Sane(v, H, {x}) /\ OnlyOf(w, v, c)
        /\ \A d \in Creatures : Noticeable(w, c, d) => d \in v.targets[c]
    <3>1. {x} \in SUBSET Creatures /\ c \in w.here \cup {x} /\ c \in Wilds
      BY <1>2
    <3> QED BY <2>1, <3>1, LookAroundSane
  <2> QED BY <1>2, <2>2, ListsTouch DEF MoveTold
<1>3. CASE c \in Wilds /\ c # x
  <2>1. v = OnCreatureFound(w, c, x)
    BY <1>3 DEF OnCreatureAppear
  <2>2. /\ Sane(v, H, {x}) /\ OnlyOf(w, v, c) /\ v.overlooked = w.overlooked
        /\ w.targets[c] \subseteq v.targets[c] /\ (IsOpponent(w, c, x) => x \in v.targets[c])
    <3>1. {x} \in SUBSET Creatures /\ c \in w.here \cup {x} /\ c \in Wilds /\ x \in w.here \cup w.gone \cup {x}
      BY <1>3
    <3> QED BY <2>1, <3>1, FoundSane
  <2>3. Keeps(w, v, c, x) /\ Meets(w, v, c, x, from)
    BY <2>2 DEF Keeps, Meets
  <2> QED BY <1>3, <2>2, <2>3, ListsTouch DEF MoveTold
<1> QED BY <1>1, <1>2, <1>3

LEMMA AppearingSound ==
    ASSUME NEW w, NEW H, NEW x \in Creatures, x \in w.here, Sane(w, H, {x}), Aim(w, {}, {}),
           NEW near, near \subseteq w.here, NEW from, NEW order \in Orders,
           NEW v, v = Appearing(w, x, near, order)
    PROVE  Sane(v, H, {x}) /\ Aim(v, {}, {}) /\ MoveSeenBy(w, v, near, x, from)
<1> DEFINE N == Len(order)
<1>0. N \in Nat /\ (\A n \in 1 .. N : order[n] \in Creatures) /\ w \in FieldSet /\ w.here \subseteq Creatures
  BY EverybodyHasATurn DEF Sane, FieldSet
<1>1. PICK f : AreRounds(w, "appear", x, near, from, 0, order, N, f)
  BY <1>0, RoundsExist
<1>2. ASSUME NEW g, AreRounds(w, "appear", x, near, from, 0, order, N, g)
      PROVE  g = [n \in 0 .. N |-> IF n = 0 THEN w
                                   ELSE IF order[n] \notin near THEN g[n - 1]
                                   ELSE OnCreatureAppear(g[n - 1], order[n], x, order)]
  <2> HIDE DEF N
  <2> QED BY <1>2 DEF AreRounds, Round
<1> DEFINE told == CHOOSE g : g = [n \in 0 .. N |-> IF n = 0 THEN w
                                   ELSE IF order[n] \notin near THEN g[n - 1]
                                   ELSE OnCreatureAppear(g[n - 1], order[n], x, order)]
<1>3. told = [n \in 0 .. N |-> IF n = 0 THEN w
                               ELSE IF order[n] \notin near THEN told[n - 1]
                               ELSE OnCreatureAppear(told[n - 1], order[n], x, order)]
  <2> HIDE DEF N
  <2> QED BY <1>1, <1>2, Zenon
<1>4. v = told[N]
  BY DEF Appearing
<1> HIDE DEF told, N
<1>5. AreRounds(w, "appear", x, near, from, 0, order, N, told)
  BY <1>3 DEF AreRounds, Round
<1> DEFINE Done(n) == {order[k] : k \in 1 .. n} \cap near
           Ok(n, u) == Sane(u, H, {x}) /\ Aim(u, {}, {}) /\ MoveSeenBy(w, u, Done(n), x, from)
           G == {z \in Nat \X FieldSet : Ok(z[1], z[2])}
<1>6. <<0, w>> \in G
  <2>1. Done(0) = {}
    OBVIOUS
  <2>2. MoveSeenBy(w, w, {}, x, from)
    BY DEF MoveSeenBy, Scene, Keeps
  <2> HIDE DEF Done
  <2> QED BY <1>0, <2>1, <2>2
<1>7. ASSUME NEW n \in 1 .. N, NEW u, <<n - 1, u>> \in G
      PROVE  <<n, Round("appear", x, near, from, 0, order, u, n)>> \in G
  <2> DEFINE c == order[n]
             D == Done(n - 1)
  <2>1. Sane(u, H, {x}) /\ Aim(u, {}, {}) /\ MoveSeenBy(w, u, D, x, from)
    BY <1>7
  <2>2. u.here = w.here
    BY <2>1 DEF MoveSeenBy, Scene
  <2>3. n \in Nat /\ Done(n) = IF c \in near THEN D \cup {c} ELSE D
    <3>1. \A k : k \in 1 .. n <=> k = n \/ k \in 1 .. n - 1
      BY <1>0
    <3> QED BY <1>0, <3>1
  <2> HIDE DEF Done, D
  <2>4. CASE c \notin near
    <3>1. Round("appear", x, near, from, 0, order, u, n) = u
      BY <2>4 DEF Round
    <3>2. u \in FieldSet
      BY <2>1 DEF Sane
    <3> QED BY <2>1, <2>3, <2>4, <3>1, <3>2
  <2>5. CASE c \in near
    <3> DEFINE r == OnCreatureAppear(u, c, x, order)
    <3>1. Round("appear", x, near, from, 0, order, u, n) = r
      BY <2>5 DEF Round
    <3>2. c \in Creatures /\ c \in u.here /\ x \in u.here
      BY <1>0, <2>2, <2>5
    <3> HIDE DEF c
    <3>3. Sane(r, H, {x}) /\ OnlyOf(u, r, c) /\ MoveTold(u, r, c, x, from)
      BY <2>1, <3>2, AppearSane
    <3> HIDE DEF r
    <3>4. MoveSeenBy(w, r, D \cup {c}, x, from)
      BY <2>1, <3>3, OneMoreTold
    <3>5. Aim(r, {}, {}) /\ r \in FieldSet
      BY <2>1, <3>3, AimLists DEF Sane
    <3> QED BY <2>3, <2>5, <3>1, <3>3, <3>4, <3>5
  <2> QED BY <2>4, <2>5
<1>8. <<N, told[N]>> \in G
  <2> HIDE DEF G
  <2> QED BY <1>0, <1>5, <1>6, <1>7, EachRoundKeeps
<1>9. Ok(N, v)
  <2> HIDE DEF Ok
  <2> QED BY <1>4, <1>8
<1>10. Done(N) = near
  <2>1. \A c \in near : \E k \in 1 .. N : order[k] = c
    BY <1>0, EverybodyHasATurn DEF N
  <2> QED BY <2>1
<1> HIDE DEF Done
<1> QED BY <1>9, <1>10

\* Who is in the game and is checked from now on is no exception any more.
LEMMA CheckedSane ==
    ASSUME NEW w, NEW H, NEW x \in Creatures, Sane(w, H, {x}), x \in w.here,
           NEW v, v = AddCreatureCheck(w, x)
    PROVE  /\ Sane(v, H, {}) /\ OnlyOf(w, v, x) /\ v.targets = w.targets /\ v.overlooked = w.overlooked
<1>0. w \in FieldSet /\ Account(w, H)
  BY DEF Sane
<1>1. /\ OnlyOf(w, v, x) /\ v.targets = w.targets /\ v.friends = w.friends /\ v.overlooked = w.overlooked
      /\ v.idle = w.idle /\ v.checked = w.checked \cup {x} /\ v.listed = w.listed \cup {x}
      /\ \A d \in Counted : v.refs[d] = w.refs[d] + (In(d, v.listed) - In(d, w.listed))
  BY <1>0, CheckFrame
<1>2. v \in FieldSet /\ Scene(w, v)
  BY <1>1 DEF OnlyOf
<1>3. Account(v, H)
  <2> SUFFICES ASSUME NEW d \in Counted
               PROVE  v.refs[d] = Count(v.targets, d) + Count(v.friends, d) + In(d, H) + In(d, v.listed)
    BY DEF Account
  <2> DEFINE n == Count(v.targets, d) + Count(v.friends, d) + In(d, H)
             a == In(d, v.listed)
             e == In(d, w.listed)
             r == w.refs[d]
             s == v.refs[d]
  <2>1. r = Count(w.targets, d) + Count(w.friends, d) + In(d, H) + In(d, w.listed)
    BY <1>0 DEF Account
  <2>2. r = n + e
    BY <1>1, <2>1
  <2>3. s = r + (a - e)
    BY <1>1
  <2>4. a \in Int /\ e \in Int /\ r \in Int /\ n \in Int
    <3>1. Count(v.targets, d) \in Nat /\ Count(v.friends, d) \in Nat
      BY ONLY CountIsNumber, Zenon
    <3>2. Count(v.targets, d) + Count(v.friends, d) \in Int
      BY <3>1
    <3>3. In(d, H) \in Int /\ a \in Int /\ e \in Int
      BY DEF In
    <3>4. r \in Int
      BY <1>0 DEF FieldSet
    <3> QED BY <3>2, <3>3, <3>4
  <2> SUFFICES s = n + a
    OBVIOUS
  <2> HIDE DEF n, a, e, r, s
  <2> QED BY <2>2, <2>3, <2>4
<1>4. Reach(v, {}) /\ LetGo(v, {})
  BY <1>1, <1>2 DEF Sane, Reach, LetGo, Scene
<1>5. Heed(v, {})
  BY <1>1, <1>2 DEF Sane, Heed, Scene
<1> QED BY <1>1, <1>2, <1>3, <1>4, <1>5 DEF Sane

Arrives(w, x, p) == [w EXCEPT !.at[x] = p, !.here = @ \cup {x}]

\* Whom x attacks and follows it will see from p.
Ready(w, x, p) == x \in w.stale \/ \A q \in {w.attacked[x], w.followed[x]} :
    q = NoCreature \/ (q \in w.here /\ p - w.at[q] \in -View .. View)

Arrived(w, v, x, p) ==
    /\ v.targets = w.targets /\ v.overlooked = w.overlooked
    /\ v.at[x] = p /\ (\A c \in Creatures \ {x} : v.at[c] = w.at[c])
    /\ v.here = w.here \cup {x} /\ v.gone = w.gone /\ v.fainted = w.fainted /\ v.master = w.master
    /\ v.released = w.released /\ v.free = w.free /\ v.stale = w.stale

LEMMA ArrivesSound ==
    ASSUME NEW w, NEW H, Sane(w, H, {}), NEW x \in Creatures, Aim(w, {}, {x}), x \notin w.here, x \notin w.free,
           x \notin H, NEW p \in Int, Ready(w, x, p), NEW v, v = Inc(Arrives(w, x, p), x)
    PROVE  Sane(v, H \cup {x}, {x}) /\ Aim(v, {}, {}) /\ Arrived(w, v, x, p)
<1> DEFINE A == [w.at EXCEPT ![x] = p]
           a == Arrives(w, x, p)
<1>0. w \in FieldSet
  BY DEF Sane
<1>1. /\ A \in [Creatures -> Int] /\ A[x] = p /\ (\A c \in Creatures \ {x} : A[c] = w.at[c])
      /\ w.here \cup {x} \in SUBSET Creatures
  BY <1>0 DEF FieldSet
<1>2. a = [w EXCEPT !.at = A, !.here = w.here \cup {x}]
  BY DEF Arrives
<1> HIDE DEF A, a
<1>3. /\ a \in FieldSet /\ Lists(w, a) /\ Quarries(w, a) /\ a.at = A /\ a.here = w.here \cup {x}
      /\ a.gone = w.gone /\ a.fainted = w.fainted /\ a.master = w.master
      /\ a.released = w.released /\ a.free = w.free /\ a.stale = w.stale
  BY <1>0, <1>1, <1>2 DEF FieldSet, Lists, Quarries
<1>4. /\ v \in FieldSet /\ Scene(a, v) /\ Quarries(a, v)
      /\ v.targets = a.targets /\ v.friends = a.friends /\ v.idle = a.idle
      /\ v.checked = a.checked /\ v.listed = a.listed /\ v.overlooked = a.overlooked
      /\ \A d \in Counted : v.refs[d] = a.refs[d] + In(d, {x})
  <2>1. v = Inc(a, x)
    BY DEF a
  <2> QED BY <1>3, <2>1, IncFrame
<1>5. /\ v.targets = w.targets /\ v.friends = w.friends /\ v.idle = w.idle
      /\ v.checked = w.checked /\ v.listed = w.listed /\ v.overlooked = w.overlooked
      /\ v.attacked = w.attacked /\ v.followed = w.followed
      /\ \A d \in Counted : v.refs[d] = w.refs[d] + In(d, {x})
  BY <1>3, <1>4 DEF Lists, Quarries
<1>6. /\ v.at = A /\ v.here = w.here \cup {x} /\ v.gone = w.gone /\ v.fainted = w.fainted
      /\ v.master = w.master /\ v.released = w.released /\ v.free = w.free /\ v.stale = w.stale
  BY <1>3, <1>4 DEF Scene
<1>7. Account(v, H \cup {x})
  <2> SUFFICES ASSUME NEW d \in Counted
               PROVE  v.refs[d] = Count(v.targets, d) + Count(v.friends, d) + In(d, H \cup {x}) + In(d, v.listed)
    BY DEF Account
  <2> DEFINE n == Count(v.targets, d)
             m == Count(v.friends, d)
             l == In(d, v.listed)
  <2>1. w.refs[d] = Count(w.targets, d) + Count(w.friends, d) + In(d, H) + In(d, w.listed)
    BY DEF Sane, Account
  <2>2. w.refs[d] = n + m + In(d, H) + l
    BY <1>5, <2>1
  <2>3. v.refs[d] = w.refs[d] + In(d, {x})
    BY <1>5
  <2>4. n \in Int /\ m \in Int
    <3>1. n \in Nat /\ m \in Nat
      BY ONLY CountIsNumber, Zenon
    <3> QED BY <3>1
  <2>5. l \in Int
    BY DEF In
  <2> SUFFICES v.refs[d] = n + m + In(d, H \cup {x}) + l
    OBVIOUS
  <2> HIDE DEF n, m, l
  <2> QED BY <2>2, <2>3, <2>4, <2>5 DEF In
<1>8. Reach(v, {x}) /\ LetGo(v, {x}) /\ Heed(v, {x})
  <2>1. Reach(v, {x})
    BY <1>5, <1>6 DEF Sane, Reach
  <2>2. LetGo(v, {x}) /\ Heed(v, {x})
    BY <1>5, <1>6 DEF Sane, LetGo, Heed
  <2> QED BY <2>1, <2>2
<1>9. Aim(v, {}, {})
  <2>1. Blank(v, {}) /\ v.here \cap v.free = {}
    BY <1>5, <1>6 DEF Aim, Blank
  <2>2. ASSUME NEW c \in w.here, NEW q, Aimed(w, {}, c, q) PROVE Aimed(v, {}, c, q)
    <3>1. CASE q = NoCreature
      BY <3>1 DEF Aimed
    <3>2. CASE q \in w.here /\ Sees(w, c, q)
      <4>1. c \in Creatures \ {x} /\ q \in Creatures \ {x}
        BY <1>0, <3>2 DEF FieldSet
      <4> QED BY <1>1, <1>6, <3>2, <4>1 DEF Aimed, Sees, Near
    <3> QED BY <2>2, <3>1, <3>2 DEF Aimed
  <2>3. ASSUME x \notin w.stale, NEW q \in {w.attacked[x], w.followed[x]} PROVE Aimed(v, {}, x, q)
    <3>1. CASE q = NoCreature
      BY <3>1 DEF Aimed
    <3>2. CASE q \in w.here /\ p - w.at[q] \in -View .. View
      <4>1. q \in Creatures \ {x}
        BY <1>0, <3>2 DEF FieldSet
      <4> QED BY <1>1, <1>6, <3>2, <4>1 DEF Aimed, Sees, Near
    <3> QED BY <2>3, <3>1, <3>2 DEF Ready
  <2>4. \A c \in v.here \ v.stale : Aimed(v, {}, c, v.attacked[c]) /\ Aimed(v, {}, c, v.followed[c])
    BY <1>5, <1>6, <2>2, <2>3 DEF Aim
  <2> QED BY <1>4, <2>1, <2>4 DEF Aim
<1>10. Arrived(w, v, x, p)
  BY <1>1, <1>5, <1>6 DEF Arrived
<1> QED BY <1>4, <1>7, <1>8, <1>9, <1>10 DEF Sane

Settles(w, x) == [w EXCEPT !.gone = @ \ {x}]

LEMMA SettlesSound ==
    ASSUME NEW w, NEW H, Well(w, H, {}), NEW x \in Creatures, x \in w.here, NEW v, v = Settles(w, x)
    PROVE  /\ Well(v, H, {}) /\ v.at = w.at /\ v.here = w.here /\ v.gone = w.gone \ {x} /\ v.fainted = w.fainted
           /\ v.master = w.master /\ v.released = w.released /\ v.free = w.free /\ v.stale = w.stale
           /\ Lists(w, v) /\ Quarries(w, v)
<1>1. w \in FieldSet /\ w.gone \ {x} \in SUBSET Creatures /\ v = [w EXCEPT !.gone = w.gone \ {x}]
  BY DEF Well, Sane, FieldSet, Settles
<1>2. /\ v \in FieldSet /\ v.at = w.at /\ v.here = w.here /\ v.gone = w.gone \ {x} /\ v.fainted = w.fainted
      /\ v.master = w.master /\ v.released = w.released /\ v.free = w.free /\ v.stale = w.stale
      /\ Lists(w, v) /\ Quarries(w, v)
  BY <1>1 DEF FieldSet, Lists, Quarries
<1>3. Account(v, H) /\ LetGo(v, {}) /\ Heed(v, {})
  BY <1>2 DEF Well, Sane, Account, LetGo, Heed, Lists
<1>4. Reach(v, {})
  BY <1>2 DEF Well, Sane, Reach, Lists
<1>5. Aim(v, {}, {})
  <2>1. Blank(v, {}) /\ v.here \cap v.free = {}
    BY <1>2 DEF Well, Aim, Blank, Quarries
  <2>2. \A c, q : Aimed(w, {}, c, q) => Aimed(v, {}, c, q)
    BY <1>2 DEF Aimed, Sees, Near
  <2> QED BY <1>2, <2>1, <2>2 DEF Well, Aim, Quarries
<1> QED BY <1>2, <1>3, <1>4, <1>5 DEF Well, Sane

Placed(w, v, x) ==
    /\ v.here = w.here \cup {x} /\ v.gone = w.gone \ {x} /\ v.fainted = w.fainted /\ v.master = w.master
    /\ v.released = w.released /\ v.free = w.free /\ v.stale = w.stale

LEMMA PlaceSound ==
    ASSUME NEW w, NEW H, Sane(w, H, {}), NEW x \in Creatures, Aim(w, {}, {x}), x \notin w.here, x \notin w.free,
           x \notin H, NEW p \in Int, Ready(w, x, p), Notice(w, {}), Untamed(w), NEW order \in Orders,
           NEW v, v = PlaceCreature(w, x, p, order)
    PROVE  Well(v, H \cup {x}, {}) /\ Notice(v, {}) /\ Placed(w, v, x)
<1> DEFINE a == Inc(Arrives(w, x, p), x)
           near == Spectators(a, {p})
           b == Appearing(a, x, near, order)
           e == AddCreatureCheck(b, x)
<1>0. v = Settles(e, x)
  BY DEF PlaceCreature, Arrives, Settles
<1>1. /\ near = Spectators(a, {p}) /\ b = Appearing(a, x, near, order) /\ e = AddCreatureCheck(b, x) /\ w \in FieldSet
      /\ a = Inc(Arrives(w, x, p), x)
  BY DEF Sane
<1> HIDE DEF a, near, b, e
<1>2. Sane(a, H \cup {x}, {x}) /\ Aim(a, {}, {}) /\ Arrived(w, a, x, p)
  BY <1>1, ArrivesSound
<1> USE DEF Arrived
<1>3. near \subseteq a.here /\ x \in a.here /\ \A c \in a.here : a.at[c] - p \in -View .. View => c \in near
  <2>1. a \in FieldSet /\ x \in a.here
    BY <1>2 DEF Sane
  <2>2. {a.at[x], p} = {p}
    BY <1>2
  <2> QED BY <1>1, <2>1, <2>2, SpectatorsNear
<1>4. /\ Sane(b, H \cup {x}, {x}) /\ Aim(b, {}, {}) /\ \A from : MoveSeenBy(a, b, near, x, from)
  BY <1>1, <1>2, <1>3, AppearingSound
<1>5. Scene(a, b) /\ x \in b.here
  BY <1>3, <1>4 DEF MoveSeenBy, Scene
<1>6. /\ Sane(e, H \cup {x}, {}) /\ OnlyOf(b, e, x) /\ e.targets = b.targets /\ e.overlooked = b.overlooked
  BY <1>1, <1>4, <1>5, CheckedSane
<1>7. Well(e, H \cup {x}, {}) /\ Scene(b, e) /\ x \in e.here
  BY <1>4, <1>5, <1>6, AimLists DEF Well, OnlyOf, Scene
<1>8. /\ Well(v, H \cup {x}, {}) /\ v.at = e.at /\ v.here = e.here /\ v.gone = e.gone \ {x} /\ v.fainted = e.fainted
      /\ v.master = e.master /\ v.released = e.released /\ v.free = e.free /\ v.stale = e.stale
      /\ v.targets = e.targets /\ v.overlooked = e.overlooked
  BY <1>0, <1>7, SettlesSound DEF Lists
<1>9. /\ v.at = a.at /\ v.here = w.here \cup {x} /\ v.gone = w.gone \ {x} /\ v.fainted = w.fainted
      /\ v.master = w.master /\ v.released = w.released /\ v.free = w.free /\ v.stale = w.stale
      /\ v.targets = b.targets /\ v.overlooked = b.overlooked
  BY <1>2, <1>5, <1>6, <1>7, <1>8 DEF Scene
<1>10. Notice(v, {})
  <2> SUFFICES ASSUME NEW q \in (Wild \cap v.here) \ (v.fainted \cup v.overlooked),
                      NEW h \in (Human \cap v.here) \ v.fainted, Sees(v, q, h)
               PROVE  h \in v.targets[q]
    BY DEF Notice
  <2>1. q \in Wilds /\ q \in Creatures /\ h \in Creatures /\ q # h
    BY Sorts DEF Wilds
  <2>2. Sees(a, q, h) /\ IsOpponent(a, q, h)
    <3>1. Untamed(a)
      BY <1>2 DEF Untamed
    <3> QED BY <1>9, <3>1, WildOpponents DEF Sees, Near
  <2>3. View \in Nat /\ w.at[q] \in Int
    BY <1>1, <2>1, Sorts DEF FieldSet
  <2>4. CASE q = x
    <3>1. q \in near
      BY <1>2, <1>3, <2>3, <2>4
    <3>2. Noticeable(a, x, h)
      BY <1>2, <1>9, <2>1, <2>2, <2>4 DEF Noticeable
    <3> QED BY <1>4, <1>9, <2>1, <2>4, <3>1, <3>2 DEF MoveSeenBy
  <2>5. CASE q # x /\ h = x
    <3>1. q \in near
      <4>1. a.at[q] - p \in -View .. View
        BY <1>2, <2>2, <2>5 DEF Sees, Near
      <4> QED BY <1>2, <1>3, <1>9, <4>1
    <3> DEFINE from == w.at[q] + View + 1
    <3>2. ~FromNear(a, q, from)
      <4>1. a.at[q] = w.at[q]
        BY <1>2, <2>1, <2>5
      <4>2. from - w.at[q] \notin -View .. View
        BY <2>3
      <4> QED BY <4>1, <4>2 DEF FromNear
    <3>3. Meets(a, b, q, x, from)
      BY <1>4, <2>1, <2>5, <3>1 DEF MoveSeenBy
    <3> QED BY <1>9, <2>2, <2>5, <3>2, <3>3 DEF Meets
  <2>6. CASE q # x /\ h # x
    <3>1. Keeps(a, b, q, x)
      BY <1>4, <2>1, <2>6 DEF MoveSeenBy
    <3>2. Sees(w, q, h)
      <4>1. a.at[q] = w.at[q] /\ a.at[h] = w.at[h]
        BY <1>2, <2>1, <2>6
      <4> QED BY <2>2, <4>1 DEF Sees, Near
    <3>3. q \in (Wild \cap w.here) \ (w.fainted \cup w.overlooked) /\ h \in (Human \cap w.here) \ w.fainted
      BY <1>2, <1>9, <2>6, <3>1 DEF Keeps
    <3>4. h \in w.targets[q]
      BY <3>2, <3>3 DEF Notice
    <3> QED BY <1>2, <1>9, <2>6, <3>1, <3>4 DEF Keeps
  <2> QED BY <2>4, <2>5, <2>6
<1> QED BY <1>8, <1>9, <1>10 DEF Placed
-----------------------------------------------------------------------------
(* A creature goes *)

\* Who goes may lose its master.
Parted(w, v, x) ==
    /\ v.at = w.at /\ v.here = w.here /\ v.gone = w.gone /\ v.fainted = w.fainted
    /\ v.released = w.released /\ v.free = w.free /\ v.stale = w.stale
    /\ \A t \in Wilds : v.master[t] = w.master[t] \/ (t = x /\ v.master[t] = NoCreature)

Bare(w, p) == w.targets[p] = {} /\ w.friends[p] = {}

\* What c makes of the departure of x
LeaveTold(w, v, c, x) ==
    /\ Parted(w, v, x)
    /\ \A p \in Wilds \ {x} : /\ w.targets[p] \ {x} \subseteq v.targets[p]
                              /\ p \in v.overlooked <=> p \in w.overlooked
    /\ x \in Wilds /\ x \notin w.gone /\ (Bare(w, x) \/ (c = x /\ x \notin w.fainted)) => Bare(v, x)
    /\ x \in Wilds /\ c = x => v.master[x] = NoCreature \/ v.master[x] \in w.gone

LEMMA AimRid ==
    ASSUME NEW w, NEW X, NEW E, NEW c, NEW x, Aim(w, X, E), w.attacked[c] # x, w.followed[c] # x
    PROVE  Aim(w, X \ {<<c, x>>}, E)
<1>1. \A a, q : Aimed(w, X, a, q) /\ ~(a = c /\ q = x) => Aimed(w, X \ {<<c, x>>}, a, q)
  BY DEF Aimed
<1> QED BY <1>1 DEF Aim

Freed(w, p) == [w EXCEPT !.master[p] = NoCreature]

LEMMA FreedFrame ==
    ASSUME NEW w \in FieldSet, NEW p \in Wilds, NEW v, v = Freed(w, p)
    PROVE  v \in FieldSet /\ Parted(w, v, p) /\ Lists(w, v) /\ Quarries(w, v) /\ v.master[p] = NoCreature
<1> DEFINE M == [w.master EXCEPT ![p] = NoCreature]
<1>1. /\ M \in [Wilds -> Human \cup {NoCreature}] /\ M[p] = NoCreature
      /\ \A t \in Wilds : M[t] = w.master[t] \/ (t = p /\ M[t] = NoCreature)
  BY DEF FieldSet
<1>2. v = [w EXCEPT !.master = M]
  BY DEF Freed
<1> HIDE DEF M
<1>3. /\ v \in FieldSet /\ Lists(w, v) /\ Quarries(w, v) /\ v.master = M
      /\ v.at = w.at /\ v.here = w.here /\ v.gone = w.gone /\ v.fainted = w.fainted
      /\ v.released = w.released /\ v.free = w.free /\ v.stale = w.stale
  BY <1>1, <1>2 DEF FieldSet, Lists, Quarries
<1> QED BY <1>1, <1>3 DEF Parted

LEMMA FreedSound ==
    ASSUME NEW w, NEW H, NEW X, NEW E, NEW F, Sane(w, H, E), Aim(w, X, F), NEW p \in Wilds, NEW v, v = Freed(w, p)
    PROVE  Sane(v, H, E) /\ Aim(v, X, F)
<1>1. v \in FieldSet /\ Parted(w, v, p) /\ Lists(w, v) /\ Quarries(w, v)
  BY FreedFrame DEF Sane
<1>2. Account(v, H) /\ Reach(v, E) /\ LetGo(v, E) /\ Heed(v, E)
  BY <1>1 DEF Sane, Account, Reach, LetGo, Heed, Parted, Lists
<1>3. Blank(v, F)
  <2>1. \A t \in Tame : t \in Wilds
    BY DEF Wilds
  <2> QED BY <1>1, <2>1 DEF Aim, Blank, Parted, Quarries
<1>4. \A c, q : Aimed(w, X, c, q) => Aimed(v, X, c, q)
  BY <1>1 DEF Aimed, Sees, Near, Parted
<1> QED BY <1>1, <1>2, <1>3, <1>4 DEF Sane, Aim, Parted, Quarries

LEMMA DepartsSound ==
    ASSUME NEW w, NEW H, NEW X, NEW x \in Wilds, Sane(w, H, {x}), Aim(w, X, {x}),
           NEW v, v = Departs(w, x)
    PROVE  Sane(v, H, {x}) /\ Aim(v, X, {x}) /\ LeaveTold(w, v, x, x)
<1>0. w \in FieldSet /\ x \in Creatures /\ {x} \in SUBSET Creatures
  BY Sorts DEF Sane
<1>1. PICK u : u = IF w.master[x] \in w.gone THEN w ELSE Freed(w, x)
  OBVIOUS
<1>2. v = Idled(u, x)
  BY <1>1 DEF Departs, Idled, Freed
<1>3. Sane(u, H, {x}) /\ Aim(u, X, {x}) /\ Parted(w, u, x) /\ Lists(w, u)
  <2>1. CASE u = w
    BY <2>1 DEF Parted, Lists
  <2>2. CASE u = Freed(w, x)
    BY <1>0, <2>2, FreedSound, FreedFrame
  <2> QED BY <1>1, <2>1, <2>2
<1>4. /\ Sane(v, H, {x}) /\ OnlyOf(u, v, x) /\ v.overlooked = u.overlooked
      /\ x \notin u.gone \cup u.fainted => v.targets[x] = {} /\ v.friends[x] = {}
  BY <1>0, <1>2, <1>3, IdleSane
<1>5. Aim(v, X, {x})
  BY <1>3, <1>4, AimLists
<1>6. Parted(w, v, x)
  BY <1>3, <1>4 DEF Parted, OnlyOf, Scene
<1>7. \A p \in Wilds \ {x} : w.targets[p] = v.targets[p]
  BY <1>3, <1>4 DEF Lists, OnlyOf
<1>8. u.gone = w.gone /\ u.fainted = w.fainted /\ u.targets = w.targets /\ u.friends = w.friends
      /\ u.overlooked = w.overlooked
  BY <1>3 DEF Parted, Lists
<1>9. Bare(w, x) /\ x \notin w.gone => Bare(v, x)
  <2>1. CASE x \in u.gone \cup u.fainted
    <3>1. v = u
      BY <1>2, <2>1 DEF Idled, SetIdle
    <3> QED BY <1>8, <3>1 DEF Bare
  <2>2. CASE x \notin u.gone \cup u.fainted
    BY <1>4, <2>2 DEF Bare
  <2> QED BY <2>1, <2>2
<1>10. v.master[x] = NoCreature \/ v.master[x] \in w.gone
  <2>1. u.master[x] = NoCreature \/ u.master[x] \in w.gone
    BY <1>0, <1>1, FreedFrame
  <2> QED BY <1>4, <2>1 DEF OnlyOf, Scene
<1> QED BY <1>4, <1>5, <1>6, <1>7, <1>8, <1>9, <1>10 DEF LeaveTold, Bare

LEMMA OnRemoveSound ==
    ASSUME NEW w, NEW H, NEW X, NEW x \in Creatures, Sane(w, H, {x}), Aim(w, X, {x}),
           NEW c \in Creatures, c \in w.here \cup {x}, NEW v, v = OnRemoveCreature(w, c, x)
    PROVE  Sane(v, H, {x}) /\ Aim(v, X \ {<<c, x>>}, {x}) /\ LeaveTold(w, v, c, x)
<1> DEFINE d == OnCreatureDisappear(w, c, x)
           Y == X \ {<<c, x>>}
<1>0. v = SeenLeaving(d, c, x) /\ {x} \in SUBSET Creatures
  BY DEF OnRemoveCreature
<1>1. Aim(d, X, {x}) /\ PointersOnly(w, d) /\ d.attacked[c] # x /\ d.followed[c] # x
  BY DisappearAim
<1> HIDE DEF d
<1>2. Sane(d, H, {x}) /\ Aim(d, Y, {x})
  BY <1>1, SanePointers, AimRid
<1>3. Scene(w, d) /\ d.here = w.here /\ Lists(w, d) /\ d \in FieldSet
  BY <1>1 DEF PointersOnly, Scene
<1>4. d.gone = w.gone /\ d.fainted = w.fainted /\ d.targets = w.targets /\ d.friends = w.friends /\ d.overlooked = w.overlooked
  BY <1>3 DEF Scene, Lists
<1> HIDE DEF Y
<1>5. Sane(v, H, {x}) /\ Aim(v, Y, {x}) /\ LeaveTold(d, v, c, x)
  <2>1. CASE c \notin Wilds
    <3>1. v = d
      BY <1>0, <2>1 DEF SeenLeaving
    <3> QED BY <1>2, <2>1, <3>1 DEF LeaveTold, Parted, Bare
  <2>2. CASE c \in Wilds /\ c = x
    <3>1. v = Departs(d, x)
      BY <1>0, <2>2 DEF SeenLeaving
    <3> QED BY <1>2, <2>2, <3>1, DepartsSound
  <2>3. CASE c \in Wilds /\ c # x
    <3>1. v = OnCreatureLeave(d, c, x)
      BY <1>0, <2>3 DEF SeenLeaving
    <3>2. c \in d.here \cup {x} /\ c \in Wilds
      BY <1>3, <2>3
    <3>3. /\ Sane(v, H, {x}) /\ OnlyOf(d, v, c) /\ v.overlooked = d.overlooked
          /\ d.targets[c] \ {x} \subseteq v.targets[c]
      BY <1>0, <1>2, <3>1, <3>2, LeaveSane
    <3>4. Aim(v, Y, {x})
      BY <1>2, <3>3, AimLists
    <3>5. LeaveTold(d, v, c, x)
      <4>1. Parted(d, v, x)
        BY <3>3 DEF OnlyOf, Scene, Parted
      <4>2. \A p \in Wilds \ {c} : v.targets[p] = d.targets[p] /\ v.friends[p] = d.friends[p]
        BY <3>3 DEF OnlyOf
      <4>3. Bare(d, x) /\ x \in Wilds => Bare(v, x)
        BY <2>3, <4>2 DEF Bare
      <4> QED BY <2>3, <3>3, <4>1, <4>2, <4>3 DEF LeaveTold
    <3> QED BY <3>3, <3>4, <3>5
  <2> QED BY <2>1, <2>2, <2>3
<1>6. LeaveTold(w, v, c, x)
  <2>1. Parted(w, v, x)
    BY <1>3, <1>5 DEF LeaveTold, Parted, Scene
  <2> QED BY <1>4, <1>5, <2>1 DEF LeaveTold, Bare
<1> QED BY <1>5, <1>6 DEF Y

\* What those of D have made of it
LeftBy(w, v, D, x) ==
    /\ Parted(w, v, x)
    /\ \A p \in Wilds \ {x} : /\ w.targets[p] \ {x} \subseteq v.targets[p]
                              /\ p \in v.overlooked <=> p \in w.overlooked
    /\ x \in Wilds /\ x \notin w.gone /\ (Bare(w, x) \/ (x \in D /\ x \notin w.fainted)) => Bare(v, x)
    /\ x \in Wilds /\ x \in D => v.master[x] = NoCreature \/ v.master[x] \in w.gone

LEMMA OneMoreLeft ==
    ASSUME NEW w, NEW u, NEW r, NEW c, NEW D, NEW x, LeftBy(w, u, D, x), LeaveTold(u, r, c, x)
    PROVE  LeftBy(w, r, D \cup {c}, x)
<1>1. Parted(w, r, x)
  BY DEF LeftBy, LeaveTold, Parted
<1>2. u.gone = w.gone /\ u.fainted = w.fainted
  BY DEF LeftBy, Parted
<1>3. \A p \in Wilds \ {x} : /\ w.targets[p] \ {x} \subseteq r.targets[p]
                             /\ p \in r.overlooked <=> p \in w.overlooked
  BY DEF LeftBy, LeaveTold
<1>4. x \in Wilds /\ x \notin w.gone /\ (Bare(w, x) \/ (x \in D \cup {c} /\ x \notin w.fainted)) => Bare(r, x)
  BY <1>2 DEF LeftBy, LeaveTold
<1>5. x \in Wilds /\ x \in D \cup {c} => r.master[x] = NoCreature \/ r.master[x] \in w.gone
  BY <1>2 DEF LeftBy, LeaveTold, Parted
<1> QED BY <1>1, <1>3, <1>4, <1>5 DEF LeftBy

Vanishes(w, x) == [w EXCEPT !.here = @ \ {x}]

LEMMA RemovingSound ==
    ASSUME NEW w, NEW H, NEW x \in Creatures, NEW s, s = Vanishes(w, x), Sane(s, H, {x}),
           NEW near, near \subseteq s.here \cup {x}, Aim(s, near \X {x}, {x}), NEW order \in Orders,
           NEW v, v = Removing(w, x, near, order)
    PROVE  Sane(v, H, {x}) /\ Aim(v, {}, {x}) /\ LeftBy(s, v, near, x)
<1> DEFINE N == Len(order)
<1>0. N \in Nat /\ (\A n \in 1 .. N : order[n] \in Creatures) /\ s \in FieldSet /\ s.here \subseteq Creatures
  BY EverybodyHasATurn DEF Sane, FieldSet
<1>1. PICK f : AreRounds(s, "remove", x, near, 0, 0, order, N, f)
  BY <1>0, RoundsExist
<1>2. ASSUME NEW g, AreRounds(s, "remove", x, near, 0, 0, order, N, g)
      PROVE  g = [n \in 0 .. N |-> IF n = 0 THEN s
                                   ELSE IF order[n] \notin near THEN g[n - 1]
                                   ELSE OnRemoveCreature(g[n - 1], order[n], x)]
  <2> HIDE DEF N
  <2> QED BY <1>2 DEF AreRounds, Round
<1> DEFINE told == CHOOSE g : g = [n \in 0 .. N |-> IF n = 0 THEN s
                                   ELSE IF order[n] \notin near THEN g[n - 1]
                                   ELSE OnRemoveCreature(g[n - 1], order[n], x)]
<1>3. told = [n \in 0 .. N |-> IF n = 0 THEN s
                               ELSE IF order[n] \notin near THEN told[n - 1]
                               ELSE OnRemoveCreature(told[n - 1], order[n], x)]
  <2> HIDE DEF N
  <2> QED BY <1>1, <1>2, Zenon
<1>4. v = told[N]
  BY DEF Removing, Vanishes
<1> HIDE DEF told, N
<1>5. AreRounds(s, "remove", x, near, 0, 0, order, N, told)
  BY <1>3 DEF AreRounds, Round
<1> DEFINE Done(n) == {order[k] : k \in 1 .. n} \cap near
           Ok(n, u) == Sane(u, H, {x}) /\ Aim(u, (near \ Done(n)) \X {x}, {x}) /\ LeftBy(s, u, Done(n), x)
           G == {z \in Nat \X FieldSet : Ok(z[1], z[2])}
<1>6. <<0, s>> \in G
  <2>1. Done(0) = {} /\ near \ {} = near
    OBVIOUS
  <2>2. LeftBy(s, s, {}, x)
    BY DEF LeftBy, Parted
  <2> HIDE DEF Done
  <2> QED BY <1>0, <2>1, <2>2
<1>7. ASSUME NEW n \in 1 .. N, NEW u, <<n - 1, u>> \in G
      PROVE  <<n, Round("remove", x, near, 0, 0, order, u, n)>> \in G
  <2> DEFINE c == order[n]
             D == Done(n - 1)
             X == (near \ D) \X {x}
  <2>1. Sane(u, H, {x}) /\ Aim(u, X, {x}) /\ LeftBy(s, u, D, x)
    BY <1>7
  <2>2. u.here = s.here
    BY <2>1 DEF LeftBy, Parted
  <2>3. n \in Nat /\ Done(n) = IF c \in near THEN D \cup {c} ELSE D
    <3>1. \A k : k \in 1 .. n <=> k = n \/ k \in 1 .. n - 1
      BY <1>0
    <3> QED BY <1>0, <3>1
  <2> HIDE DEF Done, D
  <2>4. CASE c \notin near
    <3>1. Round("remove", x, near, 0, 0, order, u, n) = u
      BY <2>4 DEF Round
    <3>2. u \in FieldSet
      BY <2>1 DEF Sane
    <3> QED BY <2>1, <2>3, <2>4, <3>1, <3>2
  <2>5. CASE c \in near
    <3> DEFINE r == OnRemoveCreature(u, c, x)
    <3>1. Round("remove", x, near, 0, 0, order, u, n) = r
      BY <2>5 DEF Round
    <3>2. c \in Creatures /\ c \in u.here \cup {x}
      BY <1>0, <2>2, <2>5
    <3>3. X \ {<<c, x>>} = (near \ (D \cup {c})) \X {x}
      OBVIOUS
    <3> HIDE DEF c, X
    <3>4. Sane(r, H, {x}) /\ Aim(r, X \ {<<c, x>>}, {x}) /\ LeaveTold(u, r, c, x)
      BY <2>1, <3>2, OnRemoveSound
    <3> HIDE DEF r
    <3>5. LeftBy(s, r, D \cup {c}, x)
      BY <2>1, <3>4, OneMoreLeft
    <3>6. r \in FieldSet
      BY <3>4 DEF Sane
    <3>7. Aim(r, (near \ (D \cup {c})) \X {x}, {x})
      BY <3>3, <3>4
    <3> QED BY <2>3, <2>5, <3>1, <3>4, <3>5, <3>6, <3>7
  <2> QED BY <2>4, <2>5
<1>8. <<N, told[N]>> \in G
  <2> HIDE DEF G
  <2> QED BY <1>0, <1>5, <1>6, <1>7, EachRoundKeeps
<1>9. Ok(N, v)
  <2> HIDE DEF Ok
  <2> QED BY <1>4, <1>8
<1>10. Done(N) = near
  <2>1. \A c \in near : \E k \in 1 .. N : order[k] = c
    BY <1>0, EverybodyHasATurn DEF N
  <2> QED BY <2>1
<1>11. (near \ near) \X {x} = {}
  OBVIOUS
<1> HIDE DEF Done
<1> QED BY <1>9, <1>10, <1>11

Vanished(w, v, x) ==
    /\ Lists(w, v) /\ v.here = w.here \ {x} /\ v.at = w.at /\ v.gone = w.gone /\ v.fainted = w.fainted
    /\ v.master = w.master /\ v.released = w.released /\ v.free = w.free /\ v.stale = w.stale

Around(w, x, near) ==
    near \subseteq w.here /\ x \in near /\ \A c \in w.here : w.at[c] - w.at[x] \in -View .. View => c \in near

LEMMA SpectatorsAround ==
    ASSUME NEW w \in FieldSet, NEW x \in Creatures, x \in w.here, NEW near, near = Spectators(w, {w.at[x]})
    PROVE  Around(w, x, near)
<1> DEFINE to == w.at[x]
<1>1. {to, to} = {to} /\ to \in Int
  BY DEF FieldSet
<1>2. near = Spectators(w, {w.at[x], to})
  BY <1>1
<1> HIDE DEF to
<1> QED BY <1>1, <1>2, SpectatorsNear DEF Around

LEMMA VanishesSound ==
    ASSUME NEW w, NEW H, Well(w, H, {}), NEW x \in Creatures, x \in w.here,
           NEW near, Around(w, x, near), NEW s, s = Vanishes(w, x)
    PROVE  /\ Sane(s, H, {x}) /\ Aim(s, near \X {x}, {x}) /\ near \subseteq s.here \cup {x} /\ x \in near
           /\ Vanished(w, s, x)
<1>0. w \in FieldSet /\ w.at[x] \in Int
  BY DEF Well, Sane, FieldSet
<1>1. w.here \ {x} \in SUBSET Creatures /\ s = [w EXCEPT !.here = w.here \ {x}]
  BY <1>0 DEF FieldSet, Vanishes
<1>2. /\ s \in FieldSet /\ Lists(w, s) /\ Quarries(w, s) /\ s.here = w.here \ {x} /\ s.at = w.at
      /\ s.gone = w.gone /\ s.fainted = w.fainted
      /\ s.master = w.master /\ s.released = w.released /\ s.free = w.free /\ s.stale = w.stale
  BY <1>0, <1>1 DEF FieldSet, Lists, Quarries
<1>3. near \subseteq w.here /\ x \in near /\ \A c \in w.here : w.at[c] - w.at[x] \in -View .. View => c \in near
  BY DEF Around
<1>4. Account(s, H) /\ Reach(s, {x}) /\ LetGo(s, {x}) /\ Heed(s, {x})
  <2>1. Account(s, H)
    BY <1>2 DEF Well, Sane, Account, Lists
  <2>2. Reach(s, {x})
    BY <1>2 DEF Well, Sane, Reach, Lists
  <2>3. LetGo(s, {x}) /\ Heed(s, {x})
    BY <1>2 DEF Well, Sane, LetGo, Heed, Lists
  <2> QED BY <2>1, <2>2, <2>3
<1>5. Aim(s, near \X {x}, {x})
  <2>1. Blank(s, {x}) /\ s.here \cap s.free = {}
    BY <1>2 DEF Well, Aim, Blank, Quarries
  <2>2. \A c \in w.here : \A q : Aimed(w, {}, c, q) => Aimed(s, near \X {x}, c, q)
    BY <1>2, <1>3 DEF Aimed, Sees, Near
  <2> QED BY <1>2, <2>1, <2>2 DEF Well, Aim, Quarries
<1>6. Vanished(w, s, x)
  BY <1>2 DEF Vanished
<1> QED BY <1>2, <1>3, <1>4, <1>5, <1>6 DEF Sane

LEMMA SameAccount ==
    ASSUME NEW w, NEW H, NEW J, NEW E, \A d \in Counted : d \in H <=> d \in J, Sane(w, H, E)
    PROVE  Sane(w, J, E)
<1>1. \A d \in Counted : In(d, H) = In(d, J)
  BY DEF In
<1>2. Account(w, J)
  BY <1>1 DEF Sane, Account
<1> QED BY <1>2 DEF Sane

Buried(w, x) ==
    [w EXCEPT !.gone = @ \cup {x}, !.released = @ \cup ({x} \cap Counted), !.stale = @ \cup ({x} \cap Tame)]

\* x went.
Went(w, v, x) ==
    /\ v.at = w.at /\ v.here = w.here \ {x} /\ v.gone = w.gone \cup {x} /\ v.fainted = w.fainted
    /\ v.released = w.released \cup ({x} \cap Counted) /\ v.free = w.free
    /\ v.stale = w.stale \cup ({x} \cap Tame)
    /\ \A t \in Wilds : v.master[t] = w.master[t] \/ (t = x /\ v.master[t] = NoCreature)

LEMMA BuriedSound ==
    ASSUME NEW w, NEW H, NEW x \in Creatures, Sane(w, H, {x}), Aim(w, {}, {x}), x \notin w.here, x \notin w.free,
           x \in Wild => Bare(w, x), NEW v, v = RemoveCreatureCheck(Buried(w, x), x)
    PROVE  /\ Well(v, H, {}) /\ Went(w, v, x) /\ v.targets = w.targets /\ v.overlooked = w.overlooked
<1> DEFINE b == Buried(w, x)
<1>0. /\ w \in FieldSet /\ w.gone \cup {x} \in SUBSET Creatures
      /\ w.released \cup ({x} \cap Counted) \in SUBSET Counted
      /\ w.stale \cup ({x} \cap Tame) \in SUBSET Creatures
  BY DEF Sane, FieldSet
<1>1. /\ b \in FieldSet /\ Lists(w, b) /\ Quarries(w, b) /\ b.at = w.at /\ b.here = w.here
      /\ b.gone = w.gone \cup {x} /\ b.fainted = w.fainted /\ b.master = w.master
      /\ b.released = w.released \cup ({x} \cap Counted) /\ b.free = w.free
      /\ b.stale = w.stale \cup ({x} \cap Tame)
  BY <1>0 DEF FieldSet, Lists, Quarries, Buried
<1>2. v = RemoveCreatureCheck(b, x)
  OBVIOUS
<1> HIDE DEF b
<1>3. /\ OnlyOf(b, v, x) /\ v.targets = b.targets /\ v.friends = b.friends /\ v.refs = b.refs
      /\ v.idle = b.idle /\ v.checked = b.checked \ {x} /\ v.listed = b.listed
      /\ v.overlooked = b.overlooked
  BY <1>1, <1>2, UncheckFrame
<1>4. /\ v \in FieldSet /\ v.targets = w.targets /\ v.friends = w.friends /\ v.refs = w.refs
      /\ v.idle = w.idle /\ v.checked = w.checked \ {x} /\ v.listed = w.listed
      /\ v.overlooked = w.overlooked
  BY <1>1, <1>3 DEF Lists, OnlyOf
<1>5. /\ v.at = w.at /\ v.here = w.here /\ v.gone = w.gone \cup {x} /\ v.fainted = w.fainted
      /\ v.master = w.master
      /\ v.released = w.released \cup ({x} \cap Counted) /\ v.free = w.free
      /\ v.stale = w.stale \cup ({x} \cap Tame)
  BY <1>1, <1>3 DEF OnlyOf, Scene
<1>6. Account(v, H)
  BY <1>4 DEF Sane, Account
<1>7. Reach(v, {})
  BY <1>4, <1>5 DEF Sane, Reach
<1>8. LetGo(v, {}) /\ Heed(v, {})
  BY <1>4, <1>5 DEF Sane, LetGo, Heed, Bare
<1>9. Aim(b, {}, {})
  <2>1. Blank(b, {}) /\ b.here \cap b.free = {}
    BY <1>1 DEF Aim, Blank, Quarries
  <2>2. \A c, q : Aimed(w, {}, c, q) => Aimed(b, {}, c, q)
    BY <1>1 DEF Aimed, Sees, Near
  <2> QED BY <1>1, <2>1, <2>2 DEF Aim, Quarries
<1>10. Aim(v, {}, {})
  BY <1>3, <1>9, AimLists
<1>11. Went(w, v, x)
  BY <1>5 DEF Went
<1> QED BY <1>4, <1>6, <1>7, <1>8, <1>10, <1>11 DEF Well, Sane

LEMMA RemoveOneSound ==
    ASSUME NEW w, Well(w, w.here \cup w.released, {}), NEW x \in Creatures, x \in w.here, x \notin w.gone,
           x \in Wild /\ x \in w.fainted => Bare(w, x), Untamed(w), Notice(w, Wild \X {x}), NEW order \in Orders,
           NEW v, v = RemoveOne(w, x, order)
    PROVE  /\ Well(v, v.here \cup v.released, {}) /\ Went(w, v, x) /\ Notice(v, {})
           /\ x \in Wilds => v.master[x] = NoCreature \/ v.master[x] \in w.gone
<1> DEFINE s == Vanishes(w, x)
           near == Spectators(w, {w.at[x]})
           b == Removing(w, x, near, order)
           H == w.here \cup w.released
<1>1. v = RemoveCreatureCheck(Buried(b, x), x)
  BY DEF RemoveOne, Buried
<1>2. /\ s = Vanishes(w, x) /\ near = Spectators(w, {w.at[x]}) /\ b = Removing(w, x, near, order)
      /\ Well(w, H, {})
  OBVIOUS
<1> HIDE DEF s, near, b, H
<1>12. Around(w, x, near)
  BY <1>2, SpectatorsAround DEF Well, Sane
<1>3. /\ Sane(s, H, {x}) /\ Aim(s, near \X {x}, {x}) /\ near \subseteq s.here \cup {x} /\ x \in near
      /\ Vanished(w, s, x)
  <2>1. s = Vanishes(w, x) /\ Well(w, H, {}) /\ x \in Creatures /\ x \in w.here
    BY <1>2
  <2> QED BY ONLY <1>12, <2>1, VanishesSound
<1> USE DEF Vanished
<1>4. Sane(b, H, {x}) /\ Aim(b, {}, {x}) /\ LeftBy(s, b, near, x)
  BY <1>2, <1>3, RemovingSound
<1>5. Parted(s, b, x)
  BY <1>4 DEF LeftBy
<1>6. x \notin b.here /\ x \notin b.free
  BY <1>3, <1>5 DEF Parted, Well, Aim
<1>7. x \in Wild => Bare(b, x)
  <2>1. Bare(w, x) => Bare(s, x)
    BY <1>3 DEF Bare, Lists
  <2>2. x \in Wild => x \in Wilds
    BY DEF Wilds
  <2> QED BY <1>3, <1>4, <2>1, <2>2 DEF LeftBy
<1>8. /\ Well(v, H, {}) /\ Went(b, v, x) /\ v.targets = b.targets /\ v.overlooked = b.overlooked
  BY <1>1, <1>4, <1>6, <1>7, BuriedSound
<1>9. Went(w, v, x)
  BY <1>3, <1>5, <1>8 DEF Went, Parted
<1>10. Well(v, v.here \cup v.released, {})
  <2>1. \A d \in Counted : d \in H <=> d \in v.here \cup v.released
    BY <1>9 DEF Went, H
  <2> QED BY <1>8, <2>1, SameAccount DEF Well
<1>11. Notice(v, {})
  <2> SUFFICES ASSUME NEW p \in (Wild \cap v.here) \ (v.fainted \cup v.overlooked),
                      NEW h \in (Human \cap v.here) \ v.fainted, Sees(v, p, h)
               PROVE  h \in v.targets[p]
    BY DEF Notice
  <2>1. p \in Wilds \ {x} /\ h # x
    BY <1>9 DEF Went, Wilds
  <2>2. s.targets[p] \ {x} \subseteq v.targets[p] /\ (p \in v.overlooked <=> p \in s.overlooked)
    BY <1>4, <1>8, <2>1 DEF LeftBy
  <2>3. s.targets = w.targets /\ s.overlooked = w.overlooked
    BY <1>3 DEF Lists
  <2>4. Sees(w, p, h)
    BY <1>9 DEF Went, Sees, Near
  <2>5. h \in w.targets[p]
    BY <1>9, <2>1, <2>2, <2>3, <2>4 DEF Notice, Went
  <2> QED BY <2>1, <2>2, <2>3, <2>5
<1>13. x \in Wilds => v.master[x] = NoCreature \/ v.master[x] \in w.gone
  BY <1>3, <1>4, <1>8 DEF LeftBy, Went
<1> QED BY <1>9, <1>10, <1>11, <1>13

\* Everybody is in one place, and a player has one pokemon out.
Apart(w) ==
    /\ w.here \cap w.gone = {} /\ (w.here \cup w.gone) \cap w.free = {}
    /\ w.here \cap w.released = {} /\ w.released \cap w.free = {}
    /\ Untamed(w) /\ (\A t \in Tame : w.master[t] \notin w.free)
    /\ \A s, t \in Tame : w.master[t] # NoCreature /\ w.master[s] = w.master[t] => s = t

LEMMA WentApart ==
    ASSUME NEW w \in FieldSet, NEW v, NEW x, Apart(w), x \in w.here, Went(w, v, x)
    PROVE  Apart(v)
<1>1. \A t \in Tame : t \in Wilds
  BY DEF Wilds
<1>2. \A p \in Wild : p \in Wilds
  BY DEF Wilds
<1>3. \A t \in Tame : v.master[t] = w.master[t] \/ v.master[t] = NoCreature
  BY <1>1 DEF Went
<1>4. Untamed(v)
  BY <1>2 DEF Apart, Untamed, Went
<1>5. NoCreature \notin w.free
  BY Sorts DEF FieldSet
<1> QED BY <1>3, <1>4, <1>5 DEF Apart, Went

LEMMA RemoveOneLed ==
    ASSUME NEW w, Well(w, w.here \cup w.released, {}), NEW x \in Creatures, x \in w.here, Apart(w),
           x \in Wild /\ x \in w.fainted => Bare(w, x), Notice(w, Wild \X {x}), NEW order \in Orders,
           NEW E, Led(w, E), NEW v, v = RemoveOne(w, x, order)
    PROVE  /\ Well(v, v.here \cup v.released, {}) /\ Went(w, v, x) /\ Notice(v, {}) /\ Apart(v)
           /\ Led(v, (E \ {x}) \cup Summons(v, x))
<1>0. w \in FieldSet /\ NoCreature \notin w.here
  BY Sorts DEF Well, Sane, FieldSet
<1>1. x \notin w.gone /\ Untamed(w)
  BY DEF Apart
<1>2. /\ Well(v, v.here \cup v.released, {}) /\ Went(w, v, x) /\ Notice(v, {})
      /\ x \in Wilds => v.master[x] = NoCreature \/ v.master[x] \in w.gone
  BY <1>1, RemoveOneSound
<1>3. Apart(v)
  BY <1>0, <1>2, WentApart
<1>4. Led(v, (E \ {x}) \cup Summons(v, x))
  <2> SUFFICES ASSUME NEW t \in Tame, t \notin E \ {x}, t \notin Summons(v, x)
               PROVE  t \in v.here <=> v.master[t] \in v.here
    BY DEF Led
  <2>1. t \in Wilds /\ v.master[t] # x
    BY DEF Wilds, Summons
  <2>2. v.here = w.here \ {x}
    BY <1>2 DEF Went
  <2>3. CASE t = x
    BY <1>0, <1>2, <2>1, <2>2, <2>3 DEF Apart
  <2>4. CASE t # x
    <3>1. v.master[t] = w.master[t]
      BY <1>2, <2>1, <2>4 DEF Went
    <3> QED BY <2>1, <2>2, <2>4, <3>1 DEF Led
  <2> QED BY <2>3, <2>4
<1> QED BY <1>2, <1>3, <1>4

LEMMA NoticeMore == ASSUME NEW w, NEW U, Notice(w, {}) PROVE Notice(w, U)
BY DEF Notice

\* Between two steps of an action: all is as it should be
Good(w) ==
    /\ Well(w, w.here \cup w.released, {}) /\ Apart(w) /\ Led(w, {}) /\ Notice(w, {})

LEMMA RemoveCreatureGood ==
    ASSUME NEW w, Well(w, w.here \cup w.released, {}), NEW x \in Creatures, x \in w.here, Apart(w),
           x \in Wild /\ x \in w.fainted => Bare(w, x), Notice(w, Wild \X {x}), NEW order \in Orders,
           Led(w, {x}), NEW v, v = RemoveCreature(w, x, order)
    PROVE  Good(v)
<1> DEFINE u == RemoveOne(w, x, order)
           his == {t \in Summons(u, x) : t \in u.here}
<1>1. v = IF his = {} THEN u ELSE RemoveOne(u, CHOOSE t \in his : TRUE, order)
  BY DEF RemoveCreature
<1>2. u = RemoveOne(w, x, order)
  OBVIOUS
<1> HIDE DEF u
<1>3. /\ Well(u, u.here \cup u.released, {}) /\ Went(w, u, x) /\ Notice(u, {}) /\ Apart(u)
      /\ Led(u, ({x} \ {x}) \cup Summons(u, x))
  BY <1>2, RemoveOneLed
<1>4. u \in FieldSet /\ Led(u, Summons(u, x)) /\ x \notin u.here
  <2>1. ({x} \ {x}) \cup Summons(u, x) = Summons(u, x)
    OBVIOUS
  <2> QED BY <1>3, <2>1 DEF Well, Sane, Went
<1>5. CASE his = {}
  <2>1. Led(u, {})
    BY <1>4, <1>5 DEF Led, Summons
  <2> QED BY <1>1, <1>3, <1>5, <2>1 DEF Good
<1>6. CASE his # {}
  <2>1. PICK t \in his : v = RemoveOne(u, t, order)
    BY <1>1, <1>6
  <2>2. t \in Tame /\ t \in u.here /\ t \in Creatures /\ t \notin Wild /\ t \notin Human /\ u.master[t] = x
    BY <2>1, Sorts DEF Summons, Creatures
  <2>3. Notice(u, Wild \X {t})
    BY <1>3, NoticeMore
  <2>4. /\ Well(v, v.here \cup v.released, {}) /\ Went(u, v, t) /\ Notice(v, {}) /\ Apart(v)
        /\ Led(v, (Summons(u, x) \ {t}) \cup Summons(v, t))
    BY <1>3, <1>4, <2>1, <2>2, <2>3, RemoveOneLed
  <2>5. Summons(u, x) \ {t} = {}
    <3>1. x # NoCreature
      BY Sorts
    <3> QED BY <1>3, <2>2, <3>1 DEF Summons, Apart
  <2>6. Summons(v, t) = {}
    <3>1. v.master \in [Wilds -> Human \cup {NoCreature}]
      BY <2>4 DEF Well, Sane, FieldSet
    <3> QED BY <2>2, <3>1, Sorts DEF Summons, Wilds
  <2> QED BY <2>4, <2>5, <2>6 DEF Good
<1> QED BY <1>5, <1>6

\* What keeps everybody in its place keeps the rest too.
LEMMA GoodStays ==
    ASSUME NEW w, Good(w), NEW v, Stays(w, v), Well(v, w.here \cup w.released, {}), Notice(v, {})
    PROVE  Good(v)
<1>1. Apart(v) /\ Led(v, {})
  BY DEF Good, Apart, Led, Untamed, Stays
<1> QED BY <1>1 DEF Good, Stays

LEMMA GoodPointers ==
    ASSUME NEW w, Good(w), NEW v, PointersOnly(w, v), Aim(v, {}, {})
    PROVE  Good(v)
<1>1. Sane(v, w.here \cup w.released, {})
  BY SanePointers DEF Good, Well
<1>2. Notice(v, {})
  BY DEF Good, Notice, PointersOnly, Scene, Lists, Sees, Near
<1>3. Stays(w, v)
  BY DEF PointersOnly, Scene, Stays
<1> QED BY <1>1, <1>2, <1>3, GoodStays DEF Well

LEMMA GoodLists ==
    ASSUME NEW w, Good(w), NEW v, NEW p \in Wilds, OnlyOf(w, v, p), Sane(v, w.here \cup w.released, {}),
           p \in Wild => w.targets[p] \cap Human \subseteq v.targets[p] \cup w.fainted \/ p \in v.fainted,
           p \in v.overlooked <=> p \in w.overlooked
    PROVE  Good(v)
<1>1. Aim(v, {}, {})
  BY AimLists DEF Good, Well
<1>2. Scene(w, v) /\ w \in FieldSet
  BY DEF OnlyOf, Good, Well, Sane
<1>3. Notice(v, {})
  <2> SUFFICES ASSUME NEW q \in (Wild \cap v.here) \ (v.fainted \cup v.overlooked),
                      NEW h \in (Human \cap v.here) \ v.fainted, Sees(v, q, h)
               PROVE  h \in v.targets[q]
    BY DEF Notice
  <2>1. q \in Wilds /\ q \in Creatures
    BY Sorts DEF Wilds
  <2>2. q \in w.overlooked <=> q \in v.overlooked
    BY <2>1 DEF OnlyOf
  <2>3. h \in w.targets[q]
    BY <1>2, <2>2 DEF Good, Notice, Scene, Sees, Near
  <2> QED BY <1>2, <2>1, <2>3 DEF OnlyOf, Scene
<1>4. Stays(w, v)
  BY <1>2 DEF Scene, Stays
<1> QED BY <1>1, <1>3, <1>4, GoodStays DEF Well

-----------------------------------------------------------------------------
(* What nothing counts is deleted. *)

LEMMA NobodyCounts ==
    ASSUME NEW w, NEW H, NEW E, Sane(w, H, E), NEW c \in Counted, w.refs[c] = 0
    PROVE  /\ c \notin H /\ c \notin w.listed
           /\ \A q \in Wilds : c \notin w.targets[q] /\ c \notin w.friends[q]
<1> DEFINE A == {q \in Wilds : c \in w.targets[q]}
           B == {q \in Wilds : c \in w.friends[q]}
<1>1. IsFiniteSet(A) /\ IsFiniteSet(B)
  <2>1. IsFiniteSet(Wilds) /\ A \subseteq Wilds /\ B \subseteq Wilds
    BY Sorts, FS_Subset
  <2> QED BY <2>1, FS_Subset
<1>2. Cardinality(A) = Count(w.targets, c) /\ Cardinality(B) = Count(w.friends, c)
  BY DEF Count
<1>3. Cardinality(A) \in Nat /\ Cardinality(B) \in Nat
  BY <1>1, FS_CardinalityType
<1>4. 0 = Cardinality(A) + Cardinality(B) + In(c, H) + In(c, w.listed)
  BY <1>2 DEF Sane, Account
<1>5. In(c, H) \in {0, 1} /\ In(c, w.listed) \in {0, 1}
  BY DEF In
<1>6. Cardinality(A) = 0 /\ Cardinality(B) = 0 /\ In(c, H) = 0 /\ In(c, w.listed) = 0
  <2> DEFINE a == Cardinality(A)
             b == Cardinality(B)
             i == In(c, H)
             j == In(c, w.listed)
  <2>1. a \in Nat /\ b \in Nat /\ i \in {0, 1} /\ j \in {0, 1} /\ 0 = a + b + i + j
    BY <1>3, <1>4, <1>5
  <2> HIDE DEF a, b, i, j
  <2>2. a = 0 /\ b = 0 /\ i = 0 /\ j = 0
    BY <2>1
  <2> QED BY <2>2 DEF a, b, i, j
<1>7. A = {} /\ B = {}
  BY <1>1, <1>6, FS_EmptySet
<1>8. c \notin H /\ c \notin w.listed
  BY <1>6 DEF In
<1> QED BY <1>7, <1>8

\* The object of c is no more.
Emptied(w, v, c) ==
    /\ v.here = w.here /\ v.gone = w.gone \ {c} /\ v.fainted = w.fainted \ {c}
    /\ v.released = w.released /\ v.free = w.free \cup {c} /\ v.stale = w.stale \ {c}
    /\ v.targets = w.targets /\ v.friends = w.friends /\ v.refs = w.refs
    /\ v.checked = w.checked /\ v.listed = w.listed /\ v.overlooked = w.overlooked \ {c}
    /\ v.attacked[c] = NoCreature /\ v.followed[c] = NoCreature
    /\ \A a \in Creatures \ {c} : /\ v.at[a] = w.at[a] /\ v.idle[a] = w.idle[a]
                                  /\ v.attacked[a] = w.attacked[a] \/ v.attacked[a] = NoCreature
                                  /\ v.followed[a] = w.followed[a]
    /\ \A t \in Wilds : /\ v.master[t] # c
                        /\ v.master[t] = w.master[t] \/ (w.master[t] = c /\ v.master[t] = NoCreature)

LEMMA FreshFrame ==
    ASSUME NEW w \in FieldSet, NEW u, NEW c \in Counted, u \in FieldSet,
           u.at = w.at, u.here = w.here, u.gone = w.gone, u.fainted = w.fainted, u.released = w.released,
           u.free = w.free, u.stale = w.stale, Lists(w, u), u.followed = w.followed,
           \A a \in Creatures : u.attacked[a] = w.attacked[a] \/ u.attacked[a] = NoCreature,
           \A t \in Wilds : /\ u.master[t] # c
                            /\ u.master[t] = w.master[t] \/ (w.master[t] = c /\ u.master[t] = NoCreature),
           NEW v, v = Fresh(u, c)
    PROVE  v \in FieldSet /\ Emptied(w, v, c)
<1>0. c \in Creatures /\ NoCreature \in Maybe
  BY Sorts DEF Maybe
<1> DEFINE A == [u.attacked EXCEPT ![c] = NoCreature]
           F == [u.followed EXCEPT ![c] = NoCreature]
           P == [u.at EXCEPT ![c] = 1]
           I == [u.idle EXCEPT ![c] = TRUE]
<1>1. /\ A \in [Creatures -> Maybe] /\ F \in [Creatures -> Maybe] /\ P \in [Creatures -> Int]
      /\ I \in [Creatures -> BOOLEAN] /\ A[c] = NoCreature /\ F[c] = NoCreature
      /\ \A a \in Creatures \ {c} : A[a] = u.attacked[a] /\ F[a] = u.followed[a] /\ P[a] = u.at[a] /\ I[a] = u.idle[a]
  BY <1>0 DEF FieldSet
<1>2. v = [u EXCEPT !.free = u.free \cup {c}, !.gone = u.gone \ {c}, !.fainted = u.fainted \ {c},
                    !.stale = u.stale \ {c}, !.overlooked = u.overlooked \ {c}, !.attacked = A,
                    !.followed = F, !.at = P, !.idle = I]
  BY DEF Fresh, FieldSet
<1> HIDE DEF A, F, P, I
<1>3. /\ u.free \cup {c} \in SUBSET Counted /\ u.gone \ {c} \in SUBSET Creatures
      /\ u.fainted \ {c} \in SUBSET Creatures /\ u.stale \ {c} \in SUBSET Creatures
      /\ u.overlooked \ {c} \in SUBSET Creatures
  BY DEF FieldSet
<1>5. v \in FieldSet
  <2> DEFINE u1 == [u EXCEPT !.free = u.free \cup {c}, !.gone = u.gone \ {c}, !.fainted = u.fainted \ {c},
                             !.stale = u.stale \ {c}, !.overlooked = u.overlooked \ {c}]
  <2>1. u1 \in FieldSet
    BY <1>3 DEF FieldSet
  <2> DEFINE u2 == [u1 EXCEPT !.attacked = A, !.followed = F]
  <2>2. v = [u2 EXCEPT !.at = P, !.idle = I]
    BY <1>2
  <2> HIDE DEF u1
  <2>3. u2 \in FieldSet
    BY <1>1, <2>1 DEF FieldSet
  <2> HIDE DEF u2
  <2> QED BY <1>1, <2>2, <2>3 DEF FieldSet
<1>4. /\ v.free = u.free \cup {c} /\ v.gone = u.gone \ {c} /\ v.fainted = u.fainted \ {c}
      /\ v.stale = u.stale \ {c} /\ v.overlooked = u.overlooked \ {c} /\ v.attacked = A /\ v.followed = F
      /\ v.at = P /\ v.idle = I /\ v.here = u.here /\ v.master = u.master /\ v.targets = u.targets
      /\ v.friends = u.friends /\ v.refs = u.refs /\ v.checked = u.checked /\ v.listed = u.listed
      /\ v.released = u.released
  BY <1>2 DEF FieldSet
<1> QED BY <1>1, <1>4, <1>5 DEF Emptied, Lists

LEMMA DeletedFrame ==
    ASSUME NEW w, NEW H, Sane(w, H, {}), NEW c \in Counted, c \notin w.here, Untamed(w), NEW v, v = Deleted(w, c)
    PROVE  v \in FieldSet /\ Emptied(w, v, c)
<1>0. w \in FieldSet
  BY DEF Sane
<1>1. CASE c \in Wild
  <2> DEFINE u == ListsCleared(w, c)
  <2>1. v = Fresh(u, c)
    BY <1>1 DEF Deleted
  <2>2. w.targets[c] = {} /\ w.friends[c] = {} /\ c \in Wilds
    BY <1>1 DEF Sane, LetGo, Wilds
  <2> DEFINE T == [w.targets EXCEPT ![c] = {}]
             F == [w.friends EXCEPT ![c] = {}]
             R == [d \in Counted |-> w.refs[d]
                          - (IF d \in w.targets[c] \ {} THEN 1 ELSE 0)
                          - (IF d \in w.friends[c] \ {} THEN 1 ELSE 0)]
  <2>3. u = [w EXCEPT !.targets = T, !.friends = F, !.refs = R]
    BY DEF ListsCleared, Trimmed
  <2>4. T = w.targets /\ F = w.friends
    BY <1>0, <2>2 DEF FieldSet
  <2>5. R = w.refs
    <3> DEFINE z == w.refs
    <3>1. z \in [Counted -> Int]
      BY <1>0 DEF FieldSet
    <3>2. ASSUME NEW d \in Counted PROVE R[d] = z[d]
      <4>1. R[d] = z[d] - 0 - 0
        BY <2>2
      <4> HIDE DEF z, R
      <4>2. z[d] \in Int
        BY <3>1
      <4> QED BY <4>1, <4>2
    <3>3. R = [d \in Counted |-> R[d]]
      OBVIOUS
    <3> HIDE DEF R, z
    <3>4. R = z
      BY <3>1, <3>2, <3>3
    <3> QED BY <3>4 DEF z
  <2> HIDE DEF T, F, R, u
  <2>6. u \in FieldSet /\ Lists(w, u) /\ Quarries(w, u) /\ Scene(w, u)
    BY <1>0, <2>3, <2>4, <2>5 DEF FieldSet, Lists, Quarries, Scene
  <2>7. \A t \in Wilds : u.master[t] # c
    BY <1>0, <1>1, <2>6, Sorts DEF Scene, FieldSet, Wilds, Counted
  <2> QED BY <1>0, <2>1, <2>6, <2>7, FreshFrame DEF Quarries, Scene
<1>2. CASE c \notin Wild
  <2> DEFINE M == [t \in Wilds |-> IF w.master[t] = c THEN NoCreature ELSE w.master[t]]
             A == [a \in Creatures |-> IF a \in Summons(w, c) THEN NoCreature ELSE w.attacked[a]]
             u == [w EXCEPT !.master = M, !.attacked = A]
  <2>1. v = Fresh(u, c)
    BY <1>2 DEF Deleted
  <2>2. /\ M \in [Wilds -> Human \cup {NoCreature}] /\ A \in [Creatures -> Maybe]
        /\ \A t \in Wilds : M[t] # c /\ (M[t] = w.master[t] \/ (w.master[t] = c /\ M[t] = NoCreature))
        /\ \A a \in Creatures : A[a] = w.attacked[a] \/ A[a] = NoCreature
    BY <1>0, Sorts DEF FieldSet, Maybe, Counted
  <2> HIDE DEF M, A
  <2>3. u \in FieldSet /\ Lists(w, u) /\ u.master = M /\ u.attacked = A /\ u.followed = w.followed
    BY <1>0, <2>2 DEF FieldSet, Lists
  <2>4. /\ u.at = w.at /\ u.here = w.here /\ u.gone = w.gone /\ u.fainted = w.fainted
        /\ u.released = w.released /\ u.free = w.free /\ u.stale = w.stale
    BY <1>0 DEF FieldSet
  <2> HIDE DEF u
  <2> QED BY <1>0, <2>1, <2>2, <2>3, <2>4, FreshFrame
<1> QED BY <1>1, <1>2

LEMMA EmptiedGood ==
    ASSUME NEW w, Good(w), NEW c \in Counted, w.refs[c] = 0, NEW v \in FieldSet, Emptied(w, v, c)
    PROVE  Good(v)
<1> DEFINE H == w.here \cup w.released
<1>0. /\ w \in FieldSet /\ Sane(w, H, {}) /\ Aim(w, {}, {}) /\ Apart(w) /\ Led(w, {}) /\ Notice(w, {})
      /\ c \in Creatures /\ c \notin Tame /\ c # NoCreature
  BY Sorts DEF Good, Well, Sane
<1>1. /\ c \notin w.here /\ c \notin w.released /\ c \notin w.listed
      /\ \A q \in Wilds : c \notin w.targets[q] /\ c \notin w.friends[q]
  BY <1>0, NobodyCounts
<1>2. v.here \cup v.released = H
  BY DEF Emptied
<1> HIDE DEF H
<1>3. Sane(v, H, {})
  <2>1. Account(v, H)
    BY <1>0 DEF Sane, Account, Emptied
  <2>2. Reach(v, {})
    BY <1>0, <1>1 DEF Sane, Reach, Emptied
  <2>3. LetGo(v, {})
    BY <1>0 DEF Sane, LetGo, Emptied
  <2>4. Heed(v, {})
    <3>1. \A a \in w.here : a \in Creatures \ {c}
      BY <1>0, <1>1 DEF FieldSet
    <3> QED BY <1>0, <3>1 DEF Sane, Heed, Emptied
  <2> QED BY <2>1, <2>2, <2>3, <2>4 DEF Sane
<1>4. \A a \in w.here : a \in Creatures /\ a # c /\ v.at[a] = w.at[a]
  BY <1>0, <1>1 DEF FieldSet, Emptied
<1>5. \A a \in w.here : \A q : Aimed(w, {}, a, q) => Aimed(v, {}, a, q)
  BY <1>4 DEF Aimed, Sees, Near, Emptied
<1>6. Aim(v, {}, {})
  <2>1. v.here \cap v.free = {}
    BY <1>0, <1>1 DEF Aim, Emptied
  <2>2. Blank(v, {})
    <3>1. \A a \in v.free : v.attacked[a] = NoCreature /\ v.followed[a] = NoCreature
      <4>1. w.free \subseteq Creatures
        BY <1>0, Sorts DEF FieldSet
      <4> QED BY <1>0, <4>1 DEF Aim, Blank, Emptied
    <3>2. ASSUME NEW t \in Tame \ (v.here \cup v.stale)
          PROVE  v.attacked[t] = NoCreature /\ v.followed[t] = NoCreature /\ v.master[t] = NoCreature
      <4>1. t \in Creatures \ {c} /\ t \in Wilds /\ t \notin w.here \cup w.stale
        BY <1>0 DEF Creatures, Wilds, Emptied
      <4> QED BY <1>0, <4>1 DEF Aim, Blank, Emptied
    <3> QED BY <3>1, <3>2 DEF Blank
  <2>3. ASSUME NEW a \in v.here \ v.stale PROVE Aimed(v, {}, a, v.attacked[a]) /\ Aimed(v, {}, a, v.followed[a])
    <3>1. a \in w.here \ w.stale /\ a \in Creatures \ {c}
      BY <1>4 DEF Emptied
    <3>2. Aimed(v, {}, a, w.attacked[a]) /\ Aimed(v, {}, a, w.followed[a]) /\ Aimed(v, {}, a, NoCreature)
      BY <1>0, <1>5, <3>1 DEF Aim, Aimed
    <3> QED BY <3>1, <3>2 DEF Emptied
  <2> QED BY <2>1, <2>2, <2>3 DEF Aim
<1>7. Apart(v)
  <2>1. /\ v.here \cap v.gone = {} /\ (v.here \cup v.gone) \cap v.free = {}
        /\ v.here \cap v.released = {} /\ v.released \cap v.free = {}
    BY <1>0, <1>1 DEF Apart, Emptied
  <2>2. Untamed(v)
    BY <1>0 DEF Apart, Untamed, Emptied, Wilds
  <2>3. \A t \in Tame : t \in Wilds /\ v.master[t] # c /\ (v.master[t] = w.master[t] \/ v.master[t] = NoCreature)
    BY DEF Emptied, Wilds
  <2>4. NoCreature \notin v.free
    BY Sorts DEF FieldSet
  <2>5. \A t \in Tame : v.master[t] \notin v.free
    BY <1>0, <2>3, <2>4 DEF Apart, Emptied
  <2>6. \A s, t \in Tame : v.master[t] # NoCreature /\ v.master[s] = v.master[t] => s = t
    BY <1>0, <2>3 DEF Apart
  <2> QED BY <2>1, <2>2, <2>5, <2>6 DEF Apart
<1>8. Led(v, {})
  <2>1. NoCreature \notin w.here
    BY <1>0, Sorts DEF FieldSet
  <2> QED BY <1>0, <1>1, <2>1 DEF Led, Emptied, Wilds
<1>9. Notice(v, {})
  BY <1>0, <1>4 DEF Notice, Emptied, Sees, Near
<1> QED BY <1>2, <1>3, <1>6, <1>7, <1>8, <1>9 DEF Good, Well

LEMMA OneDeletedGood ==
    ASSUME NEW w, Good(w), NEW v, v = OneDeleted(w)
    PROVE  Good(v)
<1>1. CASE Unused(w) = {}
  BY <1>1 DEF OneDeleted
<1>2. CASE Unused(w) # {}
  <2>1. PICK c \in Unused(w) : v = Deleted(w, c)
    BY <1>2 DEF OneDeleted
  <2>2. c \in Counted /\ w.refs[c] = 0
    BY <2>1 DEF Unused
  <2>3. Sane(w, w.here \cup w.released, {}) /\ Untamed(w)
    BY DEF Good, Well, Apart
  <2>4. c \notin w.here
    BY <2>2, <2>3, NobodyCounts
  <2>5. v \in FieldSet /\ Emptied(w, v, c)
    BY <2>1, <2>2, <2>3, <2>4, DeletedFrame
  <2> QED BY <2>2, <2>5, EmptiedGood
<1> QED BY <1>1, <1>2

LEMMA RecoveredGood ==
    ASSUME NEW w, Good(w), NEW v, v = Recovered(w)
    PROVE  Good(v)
<1> DEFINE S == {c \in w.stale : c \notin w.here \/ ~Sound(w, c)}
<1>0. w \in FieldSet /\ Aim(w, {}, {}) /\ S \in SUBSET Creatures
  BY DEF Good, Well, Sane, FieldSet
<1>1. v = [w EXCEPT !.stale = S]
  BY DEF Recovered
<1>2. S \subseteq w.stale /\ (\A c \in w.stale \ S : c \in w.here /\ Sound(w, c))
  OBVIOUS
<1> HIDE DEF S
<1>3. /\ v \in FieldSet /\ Lists(w, v) /\ Quarries(w, v) /\ v.stale = S
      /\ v.at = w.at /\ v.here = w.here /\ v.gone = w.gone /\ v.fainted = w.fainted
      /\ v.master = w.master /\ v.released = w.released /\ v.free = w.free
  BY <1>0, <1>1 DEF FieldSet, Lists, Quarries
<1>4. Sane(v, w.here \cup w.released, {})
  <2>1. Sane(w, w.here \cup w.released, {})
    BY DEF Good, Well
  <2> QED BY <1>3, <2>1 DEF Sane, Account, Reach, LetGo, Heed, Lists
<1>5. Aim(v, {}, {})
  <2>1. Blank(v, {}) /\ v.here \cap v.free = {}
    BY <1>0, <1>2, <1>3 DEF Aim, Blank, Quarries
  <2>2. \A a, q : Aimed(w, {}, a, q) => Aimed(v, {}, a, q)
    BY <1>3 DEF Aimed, Sees, Near
  <2>3. ASSUME NEW a \in w.here \ S PROVE Aimed(w, {}, a, w.attacked[a]) /\ Aimed(w, {}, a, w.followed[a])
    <3>1. CASE a \in w.stale
      BY <1>2, <2>3, <3>1 DEF Sound, Aimed
    <3>2. CASE a \notin w.stale
      BY <1>0, <2>3, <3>2 DEF Aim
    <3> QED BY <3>1, <3>2
  <2> QED BY <1>3, <2>1, <2>2, <2>3 DEF Aim, Quarries
<1>6. Apart(v) /\ Led(v, {}) /\ Notice(v, {})
  BY <1>3 DEF Good, Apart, Untamed, Led, Notice, Sees, Near, Lists
<1> QED BY <1>3, <1>4, <1>5, <1>6 DEF Good, Well

LEMMA SweptGood ==
    ASSUME NEW w, Good(w), NEW v, v = Swept(w)
    PROVE  Good(v)
<1> DEFINE N == Cardinality(Counted)
<1>0. N \in Nat /\ w \in FieldSet
  <2>1. IsFiniteSet(Counted)
    BY Sorts, FS_Subset
  <2> QED BY <2>1, FS_CardinalityType DEF Good, Well, Sane
<1>1. PICK f : AreRounds(w, "sweep", {}, {}, {}, {}, {}, N, f)
  BY <1>0, RoundsExist
<1>2. ASSUME NEW g, AreRounds(w, "sweep", {}, {}, {}, {}, {}, N, g)
      PROVE  g = [n \in 0 .. N |-> IF n = 0 THEN w ELSE OneDeleted(g[n - 1])]
  <2> HIDE DEF N
  <2> QED BY <1>2 DEF AreRounds, Round
<1> DEFINE swept == CHOOSE g : g = [n \in 0 .. N |-> IF n = 0 THEN w ELSE OneDeleted(g[n - 1])]
<1>3. swept = [n \in 0 .. N |-> IF n = 0 THEN w ELSE OneDeleted(swept[n - 1])]
  <2> HIDE DEF N
  <2> QED BY <1>1, <1>2, Zenon
<1>4. v = Recovered(swept[N])
  BY DEF Swept
<1> HIDE DEF swept, N
<1>5. AreRounds(w, "sweep", {}, {}, {}, {}, {}, N, swept)
  BY <1>3 DEF AreRounds, Round
<1> DEFINE G == {z \in Nat \X FieldSet : Good(z[2])}
<1>6. <<0, w>> \in G
  BY <1>0
<1>7. ASSUME NEW n \in 1 .. N, NEW u, <<n - 1, u>> \in G
      PROVE  <<n, Round("sweep", {}, {}, {}, {}, {}, u, n)>> \in G
  <2>1. PICK r : r = OneDeleted(u)
    OBVIOUS
  <2>2. Good(r) /\ r \in FieldSet
    <3>1. Good(r)
      BY <1>7, <2>1, OneDeletedGood
    <3> QED BY <3>1 DEF Good, Well, Sane
  <2>3. Round("sweep", {}, {}, {}, {}, {}, u, n) = r
    BY <2>1 DEF Round
  <2> QED BY <1>0, <2>2, <2>3
<1>8. <<N, swept[N]>> \in G
  <2> HIDE DEF G
  <2> QED BY <1>0, <1>5, <1>6, <1>7, EachRoundKeeps
<1>9. Good(swept[N])
  BY <1>8
<1> QED BY <1>4, <1>9, RecoveredGood

LEMMA CleanupGood ==
    ASSUME NEW w, Good(w), NEW v, v = Cleanup(w)
    PROVE  Good(v)
<1> DEFINE R == [c \in Counted |-> IF c \in w.released THEN w.refs[c] - 1 ELSE w.refs[c]]
<1>0. w \in FieldSet /\ R \in [Counted -> Int] /\ {} \in SUBSET Counted /\ w.here \cap w.released = {}
  BY DEF Good, Well, Sane, FieldSet, Apart
<1>1. v = [w EXCEPT !.released = {}, !.refs = R]
  BY DEF Cleanup
<1>2. \A d \in Counted : R[d] = w.refs[d] - In(d, w.released)
  <2> SUFFICES ASSUME NEW d \in Counted PROVE R[d] = w.refs[d] - In(d, w.released)
    OBVIOUS
  <2>1. w.refs[d] \in Int
    BY <1>0 DEF FieldSet
  <2> QED BY <2>1 DEF In
<1> HIDE DEF R
<1>3. /\ v \in FieldSet /\ Quarries(w, v) /\ v.released = {} /\ v.refs = R
      /\ v.at = w.at /\ v.here = w.here /\ v.gone = w.gone /\ v.fainted = w.fainted
      /\ v.master = w.master /\ v.free = w.free /\ v.stale = w.stale
      /\ v.targets = w.targets /\ v.friends = w.friends /\ v.idle = w.idle
      /\ v.checked = w.checked /\ v.listed = w.listed /\ v.overlooked = w.overlooked
  BY <1>0, <1>1 DEF FieldSet, Quarries
<1>4. Account(v, v.here \cup v.released)
  <2> SUFFICES ASSUME NEW d \in Counted
               PROVE  R[d] = Count(w.targets, d) + Count(w.friends, d) + In(d, w.here) + In(d, w.listed)
    <3>1. v.here \cup v.released = w.here
      BY <1>3
    <3> QED BY <1>3, <3>1 DEF Account
  <2> DEFINE a == Count(w.targets, d)
             b == Count(w.friends, d)
             i == In(d, w.here)
             j == In(d, w.released)
             k == In(d, w.listed)
             r == w.refs[d]
  <2>1. r = a + b + In(d, w.here \cup w.released) + k
    BY DEF Good, Well, Sane, Account
  <2>2. In(d, w.here \cup w.released) = i + j /\ i \in Int /\ j \in Int /\ k \in Int
    BY <1>0 DEF In
  <2>3. R[d] = r - j
    BY <1>2
  <2>4. a \in Int /\ b \in Int
    <3>1. a \in Nat /\ b \in Nat
      BY ONLY CountIsNumber, Zenon
    <3> QED BY <3>1
  <2> SUFFICES R[d] = a + b + i + k
    OBVIOUS
  <2> HIDE DEF a, b, i, j, k, r
  <2> QED BY <2>1, <2>2, <2>3, <2>4
<1>5. Reach(v, {}) /\ LetGo(v, {}) /\ Heed(v, {})
  BY <1>3 DEF Good, Well, Sane, Reach, LetGo, Heed
<1>6. Aim(v, {}, {})
  <2>1. Aim(w, {}, {})
    BY DEF Good, Well
  <2>2. Blank(v, {}) /\ v.here \cap v.free = {}
    BY <1>3, <2>1 DEF Aim, Blank, Quarries
  <2>3. \A a, q : Aimed(w, {}, a, q) => Aimed(v, {}, a, q)
    BY <1>3 DEF Aimed, Sees, Near
  <2> QED BY <1>3, <2>1, <2>2, <2>3 DEF Aim, Quarries
<1>7. Apart(v) /\ Led(v, {}) /\ Notice(v, {})
  BY <1>3 DEF Good, Apart, Untamed, Led, Notice, Sees, Near
<1> QED BY <1>3, <1>4, <1>5, <1>6, <1>7 DEF Good, Well, Sane

-----------------------------------------------------------------------------
(* A creature thinks *)

LEMMA OrdersSearched ==
    ASSUME NEW w, Good(w), NEW p \in Wilds, p \in w.here, NEW x, NEW v, v = SelectTarget(w, p, x)
    PROVE  Good(v) /\ PointersOnly(w, v)
<1>1. Aim(w, {}, {}) /\ Sane(w, w.here \cup w.released, {})
  BY DEF Good, Well
<1>2. Aim(v, {}, {}) /\ PointersOnly(w, v)
  BY <1>1, SelectAim
<1> QED BY <1>2, GoodPointers

LEMMA SearchGood ==
    ASSUME NEW w, Good(w), NEW p \in Wilds, p \in w.here, NEW order, NEW v, v = SearchTarget(w, p, order)
    PROVE  Good(v) /\ PointersOnly(w, v)
<1>1. CASE v = w
  BY <1>1, PointersOnlyNothing DEF Good, Well, Sane
<1>2. CASE v # w
  <2>1. \E x : v = SelectTarget(w, p, x)
    BY <1>2 DEF SearchTarget
  <2> QED BY <2>1, OrdersSearched
<1> QED BY <1>1, <1>2

LEMMA DisappearGood ==
    ASSUME NEW w, Good(w), NEW c \in Creatures, NEW x \in Creatures, NEW v, v = OnCreatureDisappear(w, c, x)
    PROVE  Good(v) /\ PointersOnly(w, v)
<1>1. Aim(w, {}, {})
  BY DEF Good, Well
<1>2. Aim(v, {}, {}) /\ PointersOnly(w, v)
  BY <1>1, DisappearAim
<1> QED BY <1>2, GoodPointers

LEMMA SetFollowGood ==
    ASSUME NEW w, Good(w), NEW c \in Creatures, NEW x \in Maybe,
           x # NoCreature => (c \in w.here /\ x \in w.here) \/ c \in w.stale \ w.free,
           NEW v, v = SetFollowCreature(w, c, x)
    PROVE  Good(v) /\ PointersOnly(w, v)
<1>1. Aim(w, {}, {})
  BY DEF Good, Well
<1>2. Aim(v, {}, {}) /\ PointersOnly(w, v)
  BY <1>1, SetFollowAim
<1> QED BY <1>2, GoodPointers

LEMMA RemoveTargetGood ==
    ASSUME NEW w, Good(w), NEW p \in Wilds, p \in w.here, NEW c \in Creatures, c \in Human => p \in Tame,
           NEW v, v = RemoveTarget(w, p, c)
    PROVE  Good(v) /\ OnlyOf(w, v, p)
<1>1. Sane(w, w.here \cup w.released, {})
  BY DEF Good, Well
<1>2. /\ Sane(v, w.here \cup w.released, {}) /\ OnlyOf(w, v, p) /\ v.overlooked = w.overlooked
      /\ v.targets[p] = w.targets[p] \ {c}
  BY <1>1, RemoveTargetSane
<1>3. p \in Wild => w.targets[p] \cap Human \subseteq v.targets[p] \cup w.fainted \/ p \in v.fainted
  BY <1>2, Sorts
<1> QED BY <1>2, <1>3, GoodLists

LEMMA UpdateIdleGood ==
    ASSUME NEW w, Good(w), NEW p \in Wilds, p \in w.here, NEW v, v = UpdateIdleStatus(w, p)
    PROVE  Good(v) /\ OnlyOf(w, v, p)
<1>1. Sane(w, w.here \cup w.released, {})
  BY DEF Good, Well
<1>2. /\ Sane(v, w.here \cup w.released, {}) /\ OnlyOf(w, v, p) /\ v.overlooked = w.overlooked
      /\ v.targets[p] = w.targets[p]
  BY <1>1, UpdateIdleSane
<1> QED BY <1>2, GoodLists

LEMMA MovePokemonGood ==
    ASSUME NEW w, Good(w), NEW x \in Wilds, x \in w.here, NEW to \in Int, NEW met, NEW order \in Orders,
           NEW v, v = MovePokemon(w, x, to, met, order)
    PROVE  Good(v) /\ Stays(w, v)
<1> DEFINE H == w.here \cup w.released
<1>1. Well(w, H, {}) /\ {} \subseteq Creatures \X w.here /\ Notice(w, {}) /\ Untamed(w)
  BY DEF Good, Apart
<1> HIDE DEF H
<1>2. PICK g : g = Goes(w, x, to)
  OBVIOUS
<1>3. Well(v, H, {}) /\ Stays(w, v)
  BY <1>1, <1>2, MovePokemonSound
<1>4. Notice(v, {})
  BY <1>1, PokemonNoticed
<1> QED BY <1>3, <1>4, GoodStays DEF H

\* One that strayed is at home, and idle.
Dozes(w, p) == [Idled(w, p) EXCEPT !.overlooked = @ \cup {p}]

LEMMA DozesGood ==
    ASSUME NEW w, Good(w), NEW p \in Wilds, p \in w.here, NEW v, v = Dozes(w, p)
    PROVE  Good(v)
<1>1. Sane(w, w.here \cup w.released, {}) /\ Aim(w, {}, {})
  BY DEF Good, Well
<1>2. PICK u : u = Idled(w, p)
  OBVIOUS
<1>3. Sane(u, w.here \cup w.released, {}) /\ OnlyOf(w, u, p) /\ u.overlooked = w.overlooked
  BY <1>1, <1>2, IdleSane
<1>4. u.overlooked \cup {p} \in SUBSET Creatures /\ u \in FieldSet
  BY <1>3, Sorts DEF OnlyOf, FieldSet
<1>5. v = [u EXCEPT !.overlooked = u.overlooked \cup {p}]
  BY <1>2 DEF Dozes
<1>6. /\ v \in FieldSet /\ Scene(u, v) /\ Quarries(u, v) /\ v.targets = u.targets /\ v.friends = u.friends
      /\ v.refs = u.refs /\ v.idle = u.idle /\ v.checked = u.checked /\ v.listed = u.listed
      /\ v.overlooked = w.overlooked \cup {p}
  BY <1>3, <1>4, <1>5 DEF FieldSet, Scene, Quarries
<1>7. Sane(v, w.here \cup w.released, {})
  BY <1>3, <1>6 DEF Sane, Account, Reach, LetGo, Heed, Scene
<1>8. Aim(v, {}, {})
  <2>1. OnlyOf(u, v, p)
    BY <1>3, <1>6 DEF OnlyOf
  <2> QED BY <1>1, <1>3, <2>1, AimLists
<1>9. Scene(w, v) /\ w \in FieldSet
  BY <1>3, <1>6 DEF OnlyOf, Scene, Good, Well, Sane
<1>10. Notice(v, {})
  <2> SUFFICES ASSUME NEW q \in (Wild \cap v.here) \ (v.fainted \cup v.overlooked),
                      NEW h \in (Human \cap v.here) \ v.fainted, Sees(v, q, h)
               PROVE  h \in v.targets[q]
    BY DEF Notice
  <2>1. q \in Wilds /\ q # p /\ q \notin w.overlooked
    BY <1>6 DEF Wilds
  <2>2. h \in w.targets[q]
    BY <1>9, <2>1 DEF Good, Notice, Scene, Sees, Near
  <2> QED BY <1>3, <1>6, <2>1, <2>2 DEF OnlyOf
<1>11. Stays(w, v)
  BY <1>9 DEF Scene, Stays
<1> QED BY <1>7, <1>8, <1>10, <1>11, GoodStays DEF Well

LEMMA GivesUpGood ==
    ASSUME NEW w, Good(w), NEW c \in Creatures, c \in w.here, NEW how, NEW v, v = GivesUp(w, c, how)
    PROVE  Good(v) /\ Scene(w, v)
<1> DEFINE Unseen(x) == /\ x # NoCreature /\ (c \in Wilds => x # w.master[c])
                        /\ x \in w.gone \/ (x \in w.free /\ how = "lost")
           r == IF Unseen(w.followed[c]) THEN OnCreatureDisappear(w, c, w.followed[c]) ELSE w
           s == IF Unseen(r.attacked[c]) THEN OnCreatureDisappear(r, c, r.attacked[c]) ELSE r
<1>1. v = IF c \in Tame /\ how = "lost" /\ s.followed[c] # NoCreature
          THEN RemoveTarget(s, c, s.followed[c]) ELSE s
  BY DEF GivesUp
<1>2. Good(r) /\ PointersOnly(w, r)
  <2>1. CASE Unseen(w.followed[c])
    <3>1. w.followed[c] \in Creatures
      BY <2>1 DEF Good, Well, Sane, FieldSet, Maybe
    <3> QED BY <2>1, <3>1, DisappearGood
  <2>2. CASE ~Unseen(w.followed[c])
    BY <2>2, PointersOnlyNothing DEF Good, Well, Sane
  <2> QED BY <2>1, <2>2
<1> HIDE DEF r
<1>3. Good(s) /\ PointersOnly(r, s)
  <2>1. CASE Unseen(r.attacked[c])
    <3>1. r.attacked[c] \in Creatures
      BY <1>2, <2>1 DEF Good, Well, Sane, FieldSet, Maybe
    <3> QED BY <1>2, <2>1, <3>1, DisappearGood
  <2>2. CASE ~Unseen(r.attacked[c])
    BY <1>2, <2>2, PointersOnlyNothing DEF Good, Well, Sane
  <2> QED BY <2>1, <2>2
<1> HIDE DEF s, Unseen
<1>4. Scene(w, s) /\ c \in s.here /\ s \in FieldSet
  BY <1>2, <1>3 DEF PointersOnly, Scene
<1>5. CASE v = s
  BY <1>3, <1>4, <1>5
<1>6. CASE v # s
  <2>1. v = RemoveTarget(s, c, s.followed[c]) /\ c \in Tame /\ s.followed[c] # NoCreature
    BY <1>1, <1>6
  <2>2. s.followed[c] \in Creatures /\ c \in Wilds
    BY <1>4, <2>1 DEF FieldSet, Maybe, Wilds
  <2>3. Good(v) /\ OnlyOf(s, v, c)
    BY <1>3, <1>4, <2>1, <2>2, RemoveTargetGood
  <2> QED BY <1>4, <2>3 DEF OnlyOf, Scene
<1> QED BY <1>5, <1>6

LEMMA ThinkOfMasterGood ==
    ASSUME NEW w, Good(w), NEW t \in Tame, t \in w.here, IsSummon(w, t), NEW v, v = ThinkOfMaster(w, t)
    PROVE  Good(v)
<1> DEFINE h == w.master[t]
           a == w.attacked[t]
<1>0. /\ t \in Wilds /\ t \in Creatures /\ w \in FieldSet /\ h \in w.here /\ h \in Maybe /\ a \in Maybe
      /\ t \notin w.free
  <2>1. t \in Wilds /\ t \in Creatures /\ w \in FieldSet
    BY DEF Wilds, Creatures, Good, Well, Sane
  <2>2. h \in w.here
    BY DEF Good, Led
  <2> QED BY <2>1, <2>2, Sorts DEF FieldSet, Maybe
<1>1. CASE a # NoCreature
  <2>1. CASE v = w
    BY <2>1
  <2>2. CASE v # w
    <3>1. v = SetFollowCreature(w, t, a)
      BY <1>1, <2>2 DEF ThinkOfMaster
    <3>2. (t \in w.here /\ a \in w.here) \/ t \in w.stale \ w.free
      BY <1>0, <1>1 DEF Good, Well, Aim, Aimed
    <3> HIDE DEF a
    <3> QED BY <1>0, <3>1, <3>2, SetFollowGood
  <2> QED BY <2>1, <2>2
<1>2. CASE a = NoCreature /\ w.attacked[h] # NoCreature
  <2>1. v = SelectTarget(w, t, w.attacked[h])
    BY <1>2 DEF ThinkOfMaster
  <2> QED BY <1>0, <2>1, OrdersSearched
<1>3. CASE a = NoCreature /\ w.attacked[h] = NoCreature
  <2>1. v = SetFollowCreature(w, t, h)
    BY <1>3 DEF ThinkOfMaster
  <2> HIDE DEF h
  <2> QED BY <1>0, <2>1, SetFollowGood
<1> QED BY <1>1, <1>2, <1>3

\* Whom p follows and attacks: nobody
Calmed(w, p) == [w EXCEPT !.attacked[p] = NoCreature, !.followed[p] = NoCreature]

LEMMA CalmedGood ==
    ASSUME NEW w, Good(w), NEW p \in Creatures, NEW v, v = Calmed(w, p)
    PROVE  Good(v) /\ PointersOnly(w, v)
<1> DEFINE A == [w.attacked EXCEPT ![p] = NoCreature]
           F == [w.followed EXCEPT ![p] = NoCreature]
<1>0. w \in FieldSet /\ Aim(w, {}, {}) /\ NoCreature \in Maybe
  BY DEF Good, Well, Sane, Maybe
<1>1. /\ A \in [Creatures -> Maybe] /\ F \in [Creatures -> Maybe]
      /\ \A a \in Creatures : /\ A[a] = w.attacked[a] \/ A[a] = NoCreature
                              /\ F[a] = w.followed[a] \/ F[a] = NoCreature
  BY <1>0 DEF FieldSet
<1>2. v = [w EXCEPT !.attacked = A, !.followed = F]
  BY DEF Calmed
<1> HIDE DEF A, F
<1>3. PointersOnly(w, v) /\ v.attacked = A /\ v.followed = F
  BY <1>0, <1>1, <1>2 DEF FieldSet, PointersOnly, Scene, Lists
<1>4. Aim(v, {}, {})
  BY <1>0, <1>1, <1>3, AimStep
<1> QED BY <1>3, <1>4, GoodPointers

LEMMA ThinkOfTargetGood ==
    ASSUME NEW w, Good(w), NEW p \in Wilds, p \in w.here, NEW v, v = ThinkOfTarget(w, p)
    PROVE  Good(v) /\ v.here = w.here
<1> DEFINE a == w.attacked[p]
<1>0. p \in Creatures
  BY Sorts
<1>1. CASE v = w
  BY <1>1
<1>2. CASE \E x : v = SelectTarget(w, p, x)
  BY <1>2, OrdersSearched DEF PointersOnly, Scene
<1>3. CASE /\ a \in Tame
           /\ LET r == Calmed(RemoveTarget(w, p, a), p)
              IN  v = IF r.targets[p] = {} THEN UpdateIdleStatus(r, p) ELSE r
  <2> DEFINE u == RemoveTarget(w, p, a)
             r == Calmed(u, p)
  <2>1. a \in Creatures /\ a \notin Human
    BY <1>3, Sorts DEF Creatures
  <2> HIDE DEF a
  <2>2. Good(u) /\ u.here = w.here
    BY <2>1, RemoveTargetGood DEF OnlyOf, Scene
  <2> HIDE DEF u
  <2>3. Good(r) /\ r.here = w.here
    BY <1>0, <2>2, CalmedGood DEF PointersOnly, Scene
  <2>4. v = r \/ v = UpdateIdleStatus(r, p)
    BY <1>3 DEF u
  <2> HIDE DEF r
  <2> QED BY <2>3, <2>4, UpdateIdleGood DEF OnlyOf, Scene
<1> QED BY <1>1, <1>2, <1>3 DEF ThinkOfTarget, Calmed

LEMMA FleesGood ==
    ASSUME NEW w, Good(w), NEW x \in Creatures, x \in w.here, x \in Wild => x \notin w.fainted, NEW order \in Orders,
           NEW v, v = RemoveCreature(w, x, order)
    PROVE  Good(v)
<1>1. Well(w, w.here \cup w.released, {}) /\ Apart(w) /\ Led(w, {x}) /\ Notice(w, Wild \X {x})
  BY NoticeMore DEF Good, Led
<1> QED BY <1>1, RemoveCreatureGood

LEMMA ThinkWildGood ==
    ASSUME NEW w, Good(w), NEW p \in Wild, p \in w.here, p \notin w.fainted, NEW how, NEW order \in Orders,
           NEW v, v = ThinkWild(w, p, how, order)
    PROVE  Good(v)
<1>0. p \in Wilds /\ p \in Creatures
  BY DEF Wilds, Creatures, Counted
<1>1. CASE how = "flees"
  <2>1. v = RemoveCreature(w, p, order)
    BY <1>1 DEF ThinkWild
  <2> QED BY <1>0, <2>1, FleesGood
<1>2. CASE how # "flees"
  <2> DEFINE lost == w.targets[p] # {} /\ (w.followed[p] = NoCreature \/ how = "lost")
             s == IF lost THEN SearchTarget(w, p, order) ELSE w
             r == ThinkOfTarget(s, p)
  <2>1. v = r \/ v = SearchTarget(r, p, order)
    BY <1>2 DEF ThinkWild
  <2>2. Good(s) /\ s.here = w.here
    <3>1. CASE s = w
      BY <3>1
    <3>2. CASE s = SearchTarget(w, p, order)
      <4> HIDE DEF s
      <4> QED BY <1>0, <3>2, SearchGood DEF PointersOnly, Scene
    <3> QED BY <3>1, <3>2
  <2> HIDE DEF s
  <2>3. Good(r) /\ r.here = w.here
    BY <1>0, <2>2, ThinkOfTargetGood
  <2> HIDE DEF r
  <2> QED BY <1>0, <2>1, <2>3, SearchGood
<1> QED BY <1>1, <1>2

LEMMA HomeIsAPlace == ASSUME NEW p \in Wild PROVE Home[p] \in Int
BY TargetConstants DEF Where

LEMMA ThinkGood ==
    ASSUME NEW w, Good(w), NEW c \in Creatures, c \in w.here, c \notin w.fainted, NEW how, NEW order \in Orders,
           NEW v, v = Think(w, c, how, order)
    PROVE  Good(v)
<1> DEFINE r == GivesUp(w, c, how)
<1>1. Good(r) /\ c \in r.here /\ c \notin r.fainted
  BY GivesUpGood DEF Scene
<1>2. CASE c \in Human
  BY <1>1, <1>2 DEF Think
<1>3. CASE c \notin Human /\ c \in Wild /\ r.at[c] \notin Ranges[c]
  <2> DEFINE m == MovePokemon(r, c, Home[c], Nothing, order)
  <2>1. v = Dozes(m, c)
    BY <1>3 DEF Think, Dozes, Idled
  <2>2. c \in Wilds /\ Home[c] \in Int
    BY <1>3, HomeIsAPlace DEF Wilds
  <2> HIDE DEF r
  <2>3. Good(m) /\ c \in m.here
    BY <1>1, <2>2, MovePokemonGood DEF Stays
  <2> HIDE DEF m
  <2> QED BY <2>1, <2>2, <2>3, DozesGood
<1>4. CASE c \notin Human /\ ~(c \in Wild /\ r.at[c] \notin Ranges[c])
  <2> DEFINE s == UpdateIdleStatus(r, c)
  <2>1. \/ v = s
        \/ IsSummon(s, c) /\ v = ThinkOfMaster(s, c)
        \/ ~IsSummon(s, c) /\ s.idle[c] # TRUE /\ v = ThinkWild(s, c, how, order)
    BY <1>4 DEF Think
  <2>2. c \in Wilds
    BY <1>4, Sorts
  <2> HIDE DEF r
  <2>3. Good(s) /\ c \in s.here /\ c \notin s.fainted
    BY <1>1, <2>2, UpdateIdleGood DEF OnlyOf, Scene
  <2> HIDE DEF s
  <2>4. CASE v = s
    BY <2>3, <2>4
  <2>5. CASE IsSummon(s, c) /\ v = ThinkOfMaster(s, c)
    <3>1. c \in Tame
      BY <2>2, <2>3, <2>5 DEF Good, Apart, Untamed, IsSummon, Wilds
    <3> QED BY <2>3, <2>5, <3>1, ThinkOfMasterGood
  <2>6. CASE ~IsSummon(s, c) /\ v = ThinkWild(s, c, how, order)
    <3>1. c \in Wild
      <4>1. c \in Tame => s.master[c] \in s.here
        BY <2>3 DEF Good, Led
      <4>2. NoCreature \notin s.here
        BY <2>3, Sorts DEF Good, Well, Sane, FieldSet
      <4> QED BY <2>2, <2>6, <4>1, <4>2 DEF IsSummon, Wilds
    <3> QED BY <2>3, <2>6, <3>1, ThinkWildGood
  <2> QED BY <2>1, <2>4, <2>5, <2>6
<1> QED BY <1>2, <1>3, <1>4

\* A player who fainted is healed: they may see him again before he is out.
Healed(w, c) == [w EXCEPT !.fainted = @ \ {c}]

LEMMA HealedFrame ==
    ASSUME NEW w, Well(w, w.here \cup w.released, {}), NEW c \in Human, c \in w.here, NEW v, v = Healed(w, c)
    PROVE  /\ Well(v, v.here \cup v.released, {}) /\ v.at = w.at /\ v.here = w.here /\ v.gone = w.gone
           /\ v.fainted = w.fainted \ {c} /\ v.master = w.master /\ v.released = w.released /\ v.free = w.free
           /\ v.stale = w.stale /\ v.targets = w.targets /\ v.overlooked = w.overlooked
<1>0. w \in FieldSet /\ w.fainted \ {c} \in SUBSET Creatures /\ Aim(w, {}, {})
  BY DEF Well, Sane, FieldSet
<1>1. v = [w EXCEPT !.fainted = w.fainted \ {c}]
  BY DEF Healed
<1>2. /\ v \in FieldSet /\ Lists(w, v) /\ Quarries(w, v) /\ v.fainted = w.fainted \ {c}
      /\ v.at = w.at /\ v.here = w.here /\ v.gone = w.gone
      /\ v.master = w.master /\ v.released = w.released /\ v.free = w.free /\ v.stale = w.stale
  BY <1>0, <1>1 DEF FieldSet, Lists, Quarries
<1>3. Sane(v, w.here \cup w.released, {})
  BY <1>2 DEF Well, Sane, Account, Reach, LetGo, Heed, Lists
<1>4. Aim(v, {}, {})
  <2>1. Blank(v, {}) /\ v.here \cap v.free = {}
    BY <1>0, <1>2 DEF Aim, Blank, Quarries
  <2>2. \A a, q : Aimed(w, {}, a, q) => Aimed(v, {}, a, q)
    BY <1>2 DEF Aimed, Sees, Near
  <2> QED BY <1>0, <1>2, <2>1, <2>2 DEF Aim, Quarries
<1> QED BY <1>2, <1>3, <1>4 DEF Well, Lists

LEMMA CalledBackGood ==
    ASSUME NEW w, Good(w), NEW t \in Tame, t \in w.here, NEW order \in Orders, NEW v, v = RemoveOne(w, t, order)
    PROVE  Good(v) /\ Went(w, v, t)
<1>0. t \in Creatures /\ t \notin Wild /\ t \notin Human
  BY Sorts DEF Creatures
<1>1. Well(w, w.here \cup w.released, {}) /\ Apart(w) /\ Led(w, {}) /\ Notice(w, Wild \X {t})
  BY NoticeMore DEF Good
<1>2. /\ Well(v, v.here \cup v.released, {}) /\ Went(w, v, t) /\ Notice(v, {}) /\ Apart(v)
      /\ Led(v, ({} \ {t}) \cup Summons(v, t))
  BY <1>0, <1>1, RemoveOneLed
<1>3. Summons(v, t) = {}
  <2>1. v.master \in [Wilds -> Human \cup {NoCreature}]
    BY <1>2 DEF Well, Sane, FieldSet
  <2> QED BY <1>0, <2>1, Sorts DEF Summons, Wilds
<1> QED BY <1>2, <1>3 DEF Good

LEMMA DeathOfPlayerGood ==
    ASSUME NEW w, Good(w), NEW c \in Human, c \in w.here, NEW order \in Orders, NEW v, v = Death(w, c, order)
    PROVE  Good(v)
<1> DEFINE r == IF Summons(w, c) = {} THEN w ELSE RemoveOne(w, CHOOSE t \in Summons(w, c) : TRUE, order)
           u == Healed(r, c)
<1>0. c \in Creatures /\ c \notin Wild /\ c \notin Tame
  BY Sorts
<1>1. v = RemoveCreature(u, c, order)
  BY DEF Death, Healed
<1>2. Good(r) /\ c \in r.here
  <2>1. CASE Summons(w, c) = {}
    BY <2>1
  <2>2. CASE Summons(w, c) # {}
    <3>1. PICK t \in Summons(w, c) : r = RemoveOne(w, t, order)
      BY <2>2
    <3>2. t \in Tame /\ t \in w.here /\ t # c
      BY <1>0, <3>1 DEF Summons, Good, Led
    <3> HIDE DEF r
    <3> QED BY <3>1, <3>2, CalledBackGood DEF Went
  <2> QED BY <2>1, <2>2
<1> HIDE DEF r
<1>3. /\ Well(u, u.here \cup u.released, {}) /\ u.at = r.at /\ u.here = r.here /\ u.gone = r.gone
      /\ u.fainted = r.fainted \ {c} /\ u.master = r.master /\ u.released = r.released /\ u.free = r.free
      /\ u.stale = r.stale /\ u.targets = r.targets /\ u.overlooked = r.overlooked
  BY <1>2, HealedFrame DEF Good
<1> HIDE DEF u
<1>4. Apart(u) /\ Led(u, {c})
  BY <1>2, <1>3 DEF Good, Apart, Led, Untamed
<1>5. Notice(u, Wild \X {c})
  <2> SUFFICES ASSUME NEW p \in (Wild \cap u.here) \ (u.fainted \cup u.overlooked),
                      NEW h \in (Human \cap u.here) \ u.fainted, Sees(u, p, h), h # c
               PROVE  h \in u.targets[p]
    BY DEF Notice
  <2>1. p \notin r.fainted /\ h \notin r.fainted
    BY <1>0, <1>3
  <2> QED BY <1>2, <1>3, <2>1 DEF Good, Notice, Sees, Near
<1> QED BY <1>0, <1>1, <1>2, <1>3, <1>4, <1>5, RemoveCreatureGood

LEMMA DeathOfPokemonGood ==
    ASSUME NEW w, Good(w), NEW c \in Wilds, c \in w.here, c \in w.fainted, NEW order \in Orders,
           NEW v, v = Death(w, c, order)
    PROVE  Good(v)
<1> DEFINE s == SetAttackedCreature(w, c, NoCreature)
           r == ListsCleared(s, c)
           u == Freed(r, c)
<1>0. c \in Creatures /\ c \notin Human /\ NoCreature \in Maybe
  BY Sorts DEF Maybe
<1>1. v = RemoveCreature(u, c, order)
  BY <1>0 DEF Death, Freed
<1>2. Good(s) /\ PointersOnly(w, s)
  <2>1. Aim(w, {}, {})
    BY DEF Good, Well
  <2>2. Aim(s, {}, {}) /\ PointersOnly(w, s)
    BY <1>0, <2>1, SetAttackedAim
  <2> HIDE DEF s
  <2> QED BY <2>2, GoodPointers
<1>3. c \in s.here /\ c \in s.fainted
  BY <1>2 DEF PointersOnly, Scene
<1> HIDE DEF s
<1>4. Good(r) /\ c \in r.here /\ Bare(r, c)
  <2>1. Sane(s, s.here \cup s.released, {})
    BY <1>2 DEF Good, Well
  <2>2. /\ Sane(r, s.here \cup s.released, {}) /\ OnlyOf(s, r, c) /\ r.overlooked = s.overlooked
        /\ r.targets[c] = {} /\ r.friends[c] = {}
    BY <1>3, <2>1, ClearedSane
  <2> HIDE DEF r
  <2>3. r.here = s.here /\ r.fainted = s.fainted
    BY <2>2 DEF OnlyOf, Scene
  <2>4. Good(r)
    BY <1>2, <1>3, <2>2, <2>3, GoodLists
  <2> QED BY <1>3, <2>2, <2>3, <2>4 DEF Bare
<1> HIDE DEF r
<1>5. u \in FieldSet /\ Parted(r, u, c) /\ Lists(r, u) /\ Quarries(r, u) /\ u.master[c] = NoCreature
  BY <1>4, FreedFrame DEF Good, Well, Sane
<1>6. Well(u, r.here \cup r.released, {})
  <2>1. Sane(r, r.here \cup r.released, {}) /\ Aim(r, {}, {})
    BY <1>4 DEF Good, Well
  <2> QED BY <2>1, FreedSound DEF Well
<1> HIDE DEF u
<1>7. /\ u.at = r.at /\ u.here = r.here /\ u.gone = r.gone /\ u.fainted = r.fainted
      /\ u.released = r.released /\ u.free = r.free /\ u.targets = r.targets /\ u.friends = r.friends
      /\ u.overlooked = r.overlooked
      /\ \A t \in Wilds : u.master[t] = r.master[t] \/ (t = c /\ u.master[t] = NoCreature)
  BY <1>5 DEF Parted, Lists
<1>8. Apart(u)
  <2>1. \A t \in Tame : t \in Wilds /\ (u.master[t] = r.master[t] \/ u.master[t] = NoCreature)
    BY <1>7 DEF Wilds
  <2>2. Untamed(u)
    BY <1>4, <1>7 DEF Good, Apart, Untamed, Wilds
  <2>3. NoCreature \notin r.free
    BY <1>4, Sorts DEF Good, Well, Sane, FieldSet
  <2> QED BY <1>4, <1>7, <2>1, <2>2, <2>3 DEF Good, Apart
<1>9. Led(u, {c})
  BY <1>4, <1>7 DEF Good, Led, Wilds
<1>10. Notice(u, Wild \X {c})
  BY <1>4, <1>7 DEF Good, Notice, Sees, Near
<1>11. Bare(u, c) /\ c \in u.here
  BY <1>4, <1>7 DEF Bare
<1>12. Well(u, u.here \cup u.released, {})
  BY <1>6, <1>7
<1> QED BY <1>0, <1>1, <1>8, <1>9, <1>10, <1>11, <1>12, RemoveCreatureGood

-----------------------------------------------------------------------------
(* The actions *)

LEMMA UncheckedGood ==
    ASSUME NEW w, Good(w), NEW c \in Creatures, c \in w.listed, c \notin w.checked,
           NEW v, v = Dec([w EXCEPT !.listed = @ \ {c}], c)
    PROVE  Good(v)
<1> DEFINE u == [w EXCEPT !.listed = w.listed \ {c}]
<1>0. w \in FieldSet /\ w.listed \ {c} \in SUBSET Creatures /\ Sane(w, w.here \cup w.released, {}) /\ Aim(w, {}, {})
  BY DEF Good, Well, Sane, FieldSet
<1>1. v = Dec(u, c)
  BY <1>0 DEF FieldSet
<1>2. /\ u \in FieldSet /\ Scene(w, u) /\ Quarries(w, u) /\ u.targets = w.targets /\ u.friends = w.friends
      /\ u.refs = w.refs /\ u.idle = w.idle /\ u.checked = w.checked /\ u.listed = w.listed \ {c}
      /\ u.overlooked = w.overlooked
  BY <1>0 DEF FieldSet, Scene, Quarries
<1> HIDE DEF u
<1>3. /\ v \in FieldSet /\ Scene(u, v) /\ Quarries(u, v) /\ v.targets = u.targets /\ v.friends = u.friends
      /\ v.idle = u.idle /\ v.checked = u.checked /\ v.listed = u.listed /\ v.overlooked = u.overlooked
      /\ \A d \in Counted : v.refs[d] = u.refs[d] - In(d, {c})
  <2>1. u \in FieldSet /\ c \in Creatures
    BY <1>2
  <2> QED BY ONLY <1>1, <2>1, DecFrame
<1>4. Scene(w, v) /\ Quarries(w, v)
  BY <1>2, <1>3 DEF Scene, Quarries
<1>5. Account(v, w.here \cup w.released)
  <2> SUFFICES ASSUME NEW d \in Counted
               PROVE  v.refs[d] = Count(w.targets, d) + Count(w.friends, d) + In(d, w.here \cup w.released)
                                  + In(d, w.listed \ {c})
    BY <1>2, <1>3 DEF Account
  <2> DEFINE n == Count(w.targets, d) + Count(w.friends, d) + In(d, w.here \cup w.released)
             i == In(d, w.listed)
             j == In(d, {c})
             k == In(d, w.listed \ {c})
             r == w.refs[d]
             s == v.refs[d]
  <2>1. r = n + i
    BY <1>0 DEF Sane, Account
  <2>2. s = r - j
    BY <1>2, <1>3
  <2>3. k = i - j /\ i \in Int /\ j \in Int
    BY DEF In
  <2>4. n \in Int
    <3>1. Count(w.targets, d) \in Nat /\ Count(w.friends, d) \in Nat
      BY ONLY CountIsNumber, Zenon
    <3>2. Count(w.targets, d) + Count(w.friends, d) \in Int
      BY <3>1
    <3>3. In(d, w.here \cup w.released) \in Int
      BY DEF In
    <3> QED BY <3>2, <3>3
  <2> SUFFICES s = n + k
    OBVIOUS
  <2> HIDE DEF n, i, j, k, r, s
  <2> QED BY <2>1, <2>2, <2>3, <2>4
<1>6. Reach(v, {}) /\ LetGo(v, {})
  BY <1>0, <1>2, <1>3 DEF Sane, Reach, LetGo, Scene
<1>7. Heed(v, {})
  <2> SUFFICES ASSUME NEW a \in w.here, a \in w.fainted \cup Human \/ ~w.idle[a]
               PROVE  a \in w.checked /\ a \in w.listed \ {c}
    BY <1>2, <1>3 DEF Heed, Scene
  <2>1. a \in w.checked /\ a \in w.listed
    BY <1>0 DEF Sane, Heed
  <2> QED BY <2>1
<1>8. Aim(v, {}, {})
  <2>1. Blank(v, {}) /\ v.here \cap v.free = {}
    BY <1>0, <1>4 DEF Aim, Blank, Quarries, Scene
  <2>2. \A a, q : Aimed(w, {}, a, q) => Aimed(v, {}, a, q)
    BY <1>4, AimedStill
  <2> QED BY <1>0, <1>3, <1>4, <2>1, <2>2 DEF Aim, Quarries, Scene
<1>9. Notice(v, {}) /\ Stays(w, v)
  BY <1>2, <1>3, <1>4 DEF Good, Notice, Stays, Scene, Sees, Near
<1>10. Well(v, w.here \cup w.released, {})
  BY <1>3, <1>5, <1>6, <1>7, <1>8 DEF Well, Sane
<1> QED BY <1>9, <1>10, GoodStays

\* x is in its place, and who it belongs to is there.
LEMMA PlacedGood ==
    ASSUME NEW w, Sane(w, w.here \cup w.released, {}), NEW x \in Creatures, Aim(w, {}, {x}), Apart(w), Led(w, {x}),
           x \notin w.here \cup w.free \cup w.released, NEW p \in Int, Ready(w, x, p), Notice(w, {}),
           x \in Tame => w.master[x] \in w.here, Summons(w, x) = {}, NEW order \in Orders,
           NEW v, v = PlaceCreature(w, x, p, order)
    PROVE  Good(v)
<1> DEFINE H == w.here \cup w.released
<1>1. /\ x \notin w.here /\ x \notin w.free /\ x \notin H /\ Untamed(w) /\ Sane(w, H, {})
  BY DEF Apart
<1> HIDE DEF H
<1>2. Well(v, H \cup {x}, {}) /\ Notice(v, {}) /\ Placed(w, v, x)
  <2>1. /\ x \in Creatures /\ Aim(w, {}, {x}) /\ p \in Int /\ Ready(w, x, p) /\ Notice(w, {})
        /\ order \in Orders /\ v = PlaceCreature(w, x, p, order)
    OBVIOUS
  <2> QED BY ONLY <1>1, <2>1, PlaceSound
<1> USE DEF Placed
<1>3. H \cup {x} = v.here \cup v.released
  BY <1>2 DEF H
<1>4. Apart(v)
  BY <1>1, <1>2 DEF Apart, Untamed
<1>5. Led(v, {})
  <2> SUFFICES ASSUME NEW t \in Tame PROVE t \in w.here \cup {x} <=> w.master[t] \in w.here \cup {x}
    BY <1>2 DEF Led
  <2>1. w.master[t] # x
    BY DEF Summons
  <2> QED BY <2>1 DEF Led
<1> QED BY <1>2, <1>3, <1>4, <1>5 DEF Good

LEMMA AppearsGood ==
    ASSUME NEW w, Good(w), NEW x \in Counted, x \in w.free, NEW p \in Where, NEW order \in Orders,
           NEW v, v = PlaceCreature([w EXCEPT !.free = @ \ {x}], x, p, order)
    PROVE  Good(v)
<1> DEFINE u == [w EXCEPT !.free = @ \ {x}]
<1>0. /\ w \in FieldSet /\ x \in Creatures /\ x \notin Tame /\ p \in Int /\ w.free \ {x} \in SUBSET Counted
      /\ Sane(w, w.here \cup w.released, {}) /\ Aim(w, {}, {}) /\ Apart(w)
  BY Sorts DEF Good, Well, Sane, FieldSet, Where
<1>1. /\ u \in FieldSet /\ Lists(w, u) /\ Quarries(w, u) /\ u.free = w.free \ {x}
      /\ u.at = w.at /\ u.here = w.here /\ u.gone = w.gone /\ u.fainted = w.fainted
      /\ u.master = w.master /\ u.released = w.released /\ u.stale = w.stale
  BY <1>0 DEF FieldSet, Lists, Quarries
<1>2. v = PlaceCreature(u, x, p, order)
  OBVIOUS
<1> HIDE DEF u
<1>3. Sane(u, u.here \cup u.released, {})
  BY <1>0, <1>1 DEF Sane, Account, Reach, LetGo, Heed, Lists
<1>4. Aim(u, {}, {x})
  <2>1. Blank(u, {x}) /\ u.here \cap u.free = {}
    BY <1>0, <1>1 DEF Aim, Blank, Quarries
  <2>2. \A a, q : Aimed(w, {}, a, q) => Aimed(u, {}, a, q)
    BY <1>1 DEF Aimed, Sees, Near
  <2> QED BY <1>0, <1>1, <2>1, <2>2 DEF Aim, Quarries
<1>5. Apart(u) /\ Led(u, {x}) /\ Notice(u, {})
  BY <1>1 DEF Good, Apart, Untamed, Led, Notice, Sees, Near, Lists
<1>6. x \notin u.here \cup u.free \cup u.released
  BY <1>0, <1>1 DEF Apart
<1>7. Ready(u, x, p)
  BY <1>0, <1>1 DEF Aim, Blank, Ready, Quarries
<1>8. Summons(u, x) = {}
  BY <1>0, <1>1 DEF Apart, Summons
<1> QED BY <1>0, <1>2, <1>3, <1>4, <1>5, <1>6, <1>7, <1>8, PlacedGood

LEMMA CallOutGood ==
    ASSUME NEW w, Good(w), NEW h \in Human, h \in w.here, NEW t \in Tame, t \notin w.here, Summons(w, h) = {},
           NEW order \in Orders,
           NEW v, v = PlaceCreature(SetFollowCreature([w EXCEPT !.master[t] = h], t, h), t, w.at[h], order)
    PROVE  Good(v)
<1> DEFINE M == [w.master EXCEPT ![t] = h]
           u == [w EXCEPT !.master = M]
           r == SetFollowCreature(u, t, h)
           p == w.at[h]
<1>0. /\ w \in FieldSet /\ t \in Creatures /\ h \in Creatures /\ t \notin Human /\ t \notin Wild /\ t \in Wilds /\ t # h
      /\ t \notin Counted /\ h \in Maybe /\ h # NoCreature /\ NoCreature \in Maybe
      /\ Sane(w, w.here \cup w.released, {}) /\ Aim(w, {}, {}) /\ Apart(w) /\ Led(w, {}) /\ Notice(w, {})
  BY Sorts DEF Good, Well, Sane, Wilds, Creatures, Maybe
<1>1. v = PlaceCreature(r, t, p, order) /\ p \in Int
  BY <1>0 DEF FieldSet
<1>2. /\ M \in [Wilds -> Human \cup {NoCreature}] /\ M[t] = h /\ \A c \in Wilds \ {t} : M[c] = w.master[c]
  BY <1>0 DEF FieldSet
<1> HIDE DEF M
<1>3. /\ u \in FieldSet /\ Lists(w, u) /\ Quarries(w, u) /\ u.master = M
      /\ u.at = w.at /\ u.here = w.here /\ u.gone = w.gone /\ u.fainted = w.fainted
      /\ u.free = w.free /\ u.released = w.released /\ u.stale = w.stale
  BY <1>0, <1>2 DEF FieldSet, Lists, Quarries
<1> HIDE DEF u
<1>4. Sane(u, w.here \cup w.released, {})
  BY <1>0, <1>3 DEF Sane, Account, Reach, LetGo, Heed, Lists
<1>5. Aim(u, {}, {t})
  <2>1. Blank(u, {t}) /\ u.here \cap u.free = {}
    <3>1. \A c \in Tame \ {t} : c \in Wilds \ {t}
      BY DEF Wilds
    <3> QED BY <1>0, <1>2, <1>3, <3>1 DEF Aim, Blank, Quarries
  <2>2. \A a, q : Aimed(w, {}, a, q) => Aimed(u, {}, a, q)
    BY <1>3 DEF Aimed, Sees, Near
  <2> QED BY <1>0, <1>3, <2>1, <2>2 DEF Aim, Quarries
<1>6. PICK y : r = Follows(u, t, y) /\ (y = NoCreature \/ (y = h /\ (y = u.followed[t] \/ Sees(u, t, h))))
  BY <1>0 DEF SetFollowCreature, Follows
<1> HIDE DEF r
<1>7. /\ PointersOnly(u, r) /\ r.attacked = u.attacked /\ r.followed[t] = y
      /\ \A a \in Creatures \ {t} : r.followed[a] = u.followed[a]
  BY <1>0, <1>3, <1>6, FollowFrame
<1>8. Aim(r, {}, {t})
  <2>1. u.master[t] = h /\ h \in u.here
    BY <1>2, <1>3
  <2> QED BY <1>0, <1>5, <1>6, <1>7, <2>1, AimStep
<1>9. Sane(r, w.here \cup w.released, {})
  BY <1>4, <1>7, SanePointers
<1>10. /\ r.at = w.at /\ r.here = w.here /\ r.gone = w.gone /\ r.fainted = w.fainted /\ r.master = M
       /\ r.free = w.free /\ r.released = w.released /\ r.stale = w.stale
       /\ r.targets = w.targets /\ r.overlooked = w.overlooked
  BY <1>3, <1>7 DEF PointersOnly, Scene, Lists
<1>11. Apart(r)
  <2>1. Untamed(r)
    BY <1>0, <1>2, <1>10 DEF Apart, Untamed, Wilds
  <2>2. \A c \in Tame : c \in Wilds
    BY DEF Wilds
  <2>3. h \notin w.free
    BY <1>0 DEF Aim
  <2>4. \A c \in Tame : M[c] \notin w.free
    BY <1>0, <1>2, <2>2, <2>3 DEF Apart
  <2>5. \A s, c \in Tame : M[c] # NoCreature /\ M[s] = M[c] => s = c
    BY <1>0, <1>2, <2>2 DEF Apart, Summons
  <2> QED BY <1>0, <1>10, <2>1, <2>4, <2>5 DEF Apart
<1>12. Led(r, {t})
  BY <1>0, <1>2, <1>10 DEF Led, Wilds
<1>13. Notice(r, {})
  BY <1>0, <1>10 DEF Notice, Sees, Near
<1>14. Summons(r, t) = {}
  <2>1. t # NoCreature /\ \A c \in Tame : M[c] \in Human \cup {NoCreature}
    BY <1>0, <1>2, Sorts DEF Wilds
  <2> QED BY <1>0, <1>10, <2>1 DEF Summons
<1>15. Ready(r, t, p)
  <2>1. CASE t \in w.stale
    BY <1>10, <2>1 DEF Ready
  <2>2. CASE t \notin w.stale
    <3>1. w.attacked[t] = NoCreature
      BY <1>0, <2>2 DEF Aim, Blank
    <3>2. r.attacked[t] = NoCreature /\ r.followed[t] \in {NoCreature, h}
      BY <1>3, <1>6, <1>7, <3>1 DEF Quarries
    <3>3. p - r.at[h] \in -View .. View
      <4>1. p \in Int /\ r.at[h] = p /\ View \in Nat
        BY <1>1, <1>10, Sorts
      <4> HIDE DEF p
      <4> QED BY <4>1
    <3> QED BY <1>10, <3>2, <3>3 DEF Ready
  <2> QED BY <2>1, <2>2
<1>16. r.master[t] \in r.here /\ Sane(r, r.here \cup r.released, {}) /\ t \notin r.here \cup r.free \cup r.released
  <2>1. w.free \subseteq Counted /\ w.released \subseteq Counted
    BY <1>0 DEF FieldSet
  <2> QED BY <1>0, <1>2, <1>9, <1>10, <2>1
<1> HIDE DEF p
<1> QED BY <1>0, <1>1, <1>8, <1>11, <1>12, <1>13, <1>14, <1>15, <1>16, PlacedGood

LEMMA LeavesGood ==
    ASSUME NEW w, Good(w), NEW h \in Human, h \in w.here, NEW r, NEW order \in Orders,
           r = w \/ \E t \in Tame \cap w.here : r = RemoveOne(w, t, order),
           NEW v, v = RemoveCreature(r, h, order)
    PROVE  Good(v)
<1>0. h \in Creatures /\ h \notin Wild /\ h \notin Tame
  BY Sorts
<1>1. Good(r) /\ h \in r.here
  <2>1. CASE r = w
    BY <2>1
  <2>2. CASE \E t \in Tame \cap w.here : r = RemoveOne(w, t, order)
    BY <1>0, <2>2, CalledBackGood DEF Went
  <2> QED BY <2>1, <2>2
<1> QED BY <1>0, <1>1, FleesGood

LEMMA WalkGood ==
    ASSUME NEW w, Good(w), NEW x \in Creatures, x \in w.here, x \notin w.fainted, NEW to \in Where, NEW met,
           NEW order \in Orders,
           NEW v, v = IF x \in Human THEN MovePlayer(w, x, to, met, order) ELSE MovePokemon(w, x, to, met, order)
    PROVE  Good(v)
<1>0. to \in Int
  BY DEF Where
<1>1. CASE x \in Human
  <2>1. v = MovePlayer(w, x, to, met, order)
    BY <1>1
  <2> DEFINE H == w.here \cup w.released
  <2>2. Well(w, H, {}) /\ Notice(w, {}) /\ Untamed(w) /\ Led(w, {})
    BY DEF Good, Apart
  <2> HIDE DEF H
  <2>3. Well(v, H, {}) /\ Stays(w, v) /\ Notice(v, {})
    BY <1>0, <1>1, <2>1, <2>2, MovePlayerSound
  <2> QED BY <2>3, GoodStays DEF H
<1>2. CASE x \notin Human
  <2>1. x \in Wilds /\ v = MovePokemon(w, x, to, met, order)
    BY <1>2, Sorts
  <2> QED BY <1>0, <2>1, MovePokemonGood
<1> QED BY <1>1, <1>2

LEMMA WokenGood ==
    ASSUME NEW w, Good(w), NEW x \in Wilds, x \in w.here, x \notin w.fainted, NEW v, v = Woken(w, x)
    PROVE  Good(v) /\ Scene(w, v) /\ ~v.idle[x]
<1>0. w \in FieldSet /\ Sane(w, w.here \cup w.released, {}) /\ x \in Creatures /\ x \notin w.gone
  BY Sorts DEF Good, Well, Sane, Apart
<1>1. /\ Sane(v, w.here \cup w.released, {}) /\ OnlyOf(w, v, x) /\ v.overlooked = w.overlooked
      /\ v.targets[x] = w.targets[x] /\ v.friends[x] = w.friends[x]
  BY <1>0, AwakeSane
<1>2. Good(v)
  BY <1>1, GoodLists
<1>3. ~v.idle[x]
  <2> DEFINE u == [w EXCEPT !.idle[x] = FALSE]
  <2>1. v = AddCreatureCheck(u, x)
    BY <1>0 DEF Woken, SetIdle
  <2>2. u \in FieldSet /\ ~u.idle[x]
    <3> DEFINE I == [w.idle EXCEPT ![x] = FALSE]
    <3>1. I \in [Creatures -> BOOLEAN] /\ ~I[x]
      BY <1>0 DEF FieldSet
    <3> HIDE DEF I
    <3>2. u = [w EXCEPT !.idle = I]
      BY DEF I
    <3> QED BY <1>0, <3>1, <3>2 DEF FieldSet
  <2> HIDE DEF u
  <2>3. v.idle = u.idle
    <3>1. OnlyOf(u, v, x) /\ v.idle = u.idle
      BY ONLY <1>0, <2>1, <2>2, CheckFrame
    <3> QED BY <3>1
  <2> QED BY <2>2, <2>3
<1> QED BY <1>1, <1>2, <1>3 DEF OnlyOf

LEMMA FaintsGood ==
    ASSUME NEW w, Good(w), NEW x \in Creatures, x \in w.here, x \in Human \/ ~w.idle[x],
           NEW v, v = [w EXCEPT !.fainted = @ \cup {x}]
    PROVE  Good(v)
<1>0. w \in FieldSet /\ Sane(w, w.here \cup w.released, {}) /\ Aim(w, {}, {}) /\ w.fainted \cup {x} \in SUBSET Creatures
  BY DEF Good, Well, Sane, FieldSet
<1>1. /\ v \in FieldSet /\ Lists(w, v) /\ Quarries(w, v) /\ v.fainted = w.fainted \cup {x}
      /\ v.at = w.at /\ v.here = w.here /\ v.gone = w.gone
      /\ v.master = w.master /\ v.released = w.released /\ v.free = w.free /\ v.stale = w.stale
  BY <1>0 DEF FieldSet, Lists, Quarries
<1>2. Sane(v, w.here \cup w.released, {})
  BY <1>0, <1>1 DEF Sane, Account, Reach, LetGo, Heed, Lists
<1>3. Aim(v, {}, {})
  <2>1. Blank(v, {}) /\ v.here \cap v.free = {}
    BY <1>0, <1>1 DEF Aim, Blank, Quarries
  <2>2. \A a, q : Aimed(w, {}, a, q) => Aimed(v, {}, a, q)
    BY <1>1 DEF Aimed, Sees, Near
  <2> QED BY <1>0, <1>1, <2>1, <2>2 DEF Aim, Quarries
<1>4. Apart(v) /\ Led(v, {}) /\ Notice(v, {})
  BY <1>1 DEF Good, Apart, Untamed, Led, Notice, Sees, Near, Lists
<1> QED BY <1>1, <1>2, <1>3, <1>4 DEF Good, Well

\* Those of S take whom they like, but are stale from then on.
LEMMA StaleGood ==
    ASSUME NEW w, Good(w), NEW S, S \subseteq Creatures \ w.free, NEW r, PointersOnly(w, r),
           \A a \in Creatures \ S : /\ r.attacked[a] = w.attacked[a] \/ r.attacked[a] = NoCreature
                                    /\ r.followed[a] = w.followed[a] \/ r.followed[a] = NoCreature,
           NEW v, v = [r EXCEPT !.stale = @ \cup S]
    PROVE  Good(v)
<1>0. /\ w \in FieldSet /\ r \in FieldSet /\ Sane(w, w.here \cup w.released, {}) /\ Aim(w, {}, {})
      /\ r.stale \cup S \in SUBSET Creatures
  BY DEF Good, Well, Sane, PointersOnly, FieldSet
<1>1. /\ v \in FieldSet /\ Lists(r, v) /\ v.attacked = r.attacked /\ v.followed = r.followed
      /\ v.fainted = r.fainted /\ v.at = r.at /\ v.here = r.here /\ v.gone = r.gone
      /\ v.master = r.master /\ v.released = r.released /\ v.free = r.free /\ v.stale = r.stale \cup S
  BY <1>0 DEF FieldSet, Lists
<1>2. /\ Lists(w, v) /\ v.fainted = w.fainted /\ v.at = w.at /\ v.here = w.here /\ v.gone = w.gone
      /\ v.master = w.master /\ v.released = w.released /\ v.free = w.free /\ v.stale = w.stale \cup S
  BY <1>1 DEF PointersOnly, Scene, Lists
<1>3. Sane(v, w.here \cup w.released, {})
  BY <1>0, <1>1, <1>2 DEF Sane, Account, Reach, LetGo, Heed, Lists
<1>4. Aim(v, {}, {})
  <2>1. \A a \in Creatures \ S : /\ v.attacked[a] = w.attacked[a] \/ v.attacked[a] = NoCreature
                                 /\ v.followed[a] = w.followed[a] \/ v.followed[a] = NoCreature
    BY <1>1
  <2>2. Blank(v, {})
    <3>1. \A a \in v.free : a \in Creatures \ S /\ a \in w.free
      BY <1>0, <1>2, Sorts DEF FieldSet
    <3>2. \A t \in Tame \ (v.here \cup v.stale) : t \in Creatures \ S /\ t \in Tame \ (w.here \cup w.stale)
      BY <1>2 DEF Creatures
    <3> QED BY <1>0, <1>2, <2>1, <3>1, <3>2 DEF Aim, Blank
  <2>3. ASSUME NEW a \in v.here \ v.stale PROVE Aimed(v, {}, a, v.attacked[a]) /\ Aimed(v, {}, a, v.followed[a])
    <3>1. a \in w.here \ w.stale /\ a \in Creatures \ S
      BY <1>0, <1>2 DEF FieldSet
    <3>2. Aimed(w, {}, a, w.attacked[a]) /\ Aimed(w, {}, a, w.followed[a]) /\ Aimed(w, {}, a, NoCreature)
      BY <1>0, <3>1 DEF Aim, Aimed
    <3>3. \A q : Aimed(w, {}, a, q) => Aimed(v, {}, a, q)
      BY <1>2 DEF Aimed, Sees, Near
    <3> QED BY <2>1, <3>1, <3>2, <3>3
  <2> QED BY <1>0, <1>1, <1>2, <2>2, <2>3 DEF Aim
<1>5. Apart(v) /\ Led(v, {}) /\ Notice(v, {})
  BY <1>2 DEF Good, Apart, Untamed, Led, Notice, Sees, Near, Lists
<1> QED BY <1>2, <1>3, <1>4, <1>5 DEF Good, Well

LEMMA LetsGoGood ==
    ASSUME NEW w, Good(w), NEW c \in Creatures, NEW v, v = SetAttackedCreature(w, c, NoCreature)
    PROVE  Good(v) /\ PointersOnly(w, v)
<1>1. Aim(w, {}, {}) /\ NoCreature \in Maybe
  BY DEF Good, Well, Maybe
<1>2. Aim(v, {}, {}) /\ PointersOnly(w, v)
  BY <1>1, SetAttackedAim
<1> QED BY <1>2, GoodPointers

\* An attack: who sees x takes it on with c, and c follows it or not.
Attacks(w, c, x, y) == [SetAttackedCreature(w, c, x) EXCEPT !.followed[c] = y]

LEMMA AttacksFrame ==
    ASSUME NEW w \in FieldSet, NEW c \in Creatures, NEW x \in Creatures, Sees(w, c, x), NEW y \in Maybe,
           NEW r, r = Attacks(w, c, x, y)
    PROVE  /\ PointersOnly(w, r) /\ r.followed[c] = y
           /\ \A a \in Creatures \ ({c} \cup Summons(w, c)) : r.attacked[a] = w.attacked[a]
           /\ \A a \in Creatures \ {c} : r.followed[a] = w.followed[a]
<1> DEFINE doing == {c} \cup Summons(w, c)
           A == [a \in Creatures |->
                   IF a \notin doing THEN w.attacked[a]
                   ELSE IF x # NoCreature /\ ~Sees(w, a, x) THEN NoCreature ELSE x]
           F == [w.followed EXCEPT ![c] = IF c \in Human /\ x = NoCreature THEN NoCreature ELSE @]
           G == [F EXCEPT ![c] = y]
<1>1. /\ A \in [Creatures -> Maybe] /\ F \in [Creatures -> Maybe] /\ G \in [Creatures -> Maybe] /\ G[c] = y
      /\ (\A a \in Creatures \ doing : A[a] = w.attacked[a]) /\ \A a \in Creatures \ {c} : G[a] = w.followed[a]
  <2>1. w.attacked \in [Creatures -> Maybe] /\ w.followed \in [Creatures -> Maybe] /\ NoCreature \in Maybe /\ x \in Maybe
    BY DEF FieldSet, Maybe
  <2>2. A \in [Creatures -> Maybe]
    BY <2>1
  <2>3. F \in [Creatures -> Maybe] /\ \A a \in Creatures \ {c} : F[a] = w.followed[a]
    BY <2>1
  <2>4. \A a \in Creatures \ doing : A[a] = w.attacked[a]
    OBVIOUS
  <2> HIDE DEF A, F, doing
  <2>5. G \in [Creatures -> Maybe] /\ G[c] = y /\ \A a \in Creatures \ {c} : G[a] = w.followed[a]
    BY <2>3
  <2> QED BY <2>2, <2>3, <2>4, <2>5
<1>2. PICK s : s = SetAttackedCreature(w, c, x)
  OBVIOUS
<1>3. s = [w EXCEPT !.attacked = A, !.followed = F]
  BY <1>2 DEF SetAttackedCreature
<1> HIDE DEF A, doing
<1>4. s \in FieldSet /\ PointersOnly(w, s) /\ s.attacked = A /\ s.followed = F
  <2> HIDE DEF F
  <2> QED BY <1>1, <1>3 DEF FieldSet, PointersOnly, Scene, Lists
<1>5. r = [s EXCEPT !.followed = G]
  BY <1>2, <1>4 DEF Attacks
<1> HIDE DEF F, G
<1>6. PointersOnly(s, r) /\ r.attacked = A /\ r.followed = G
  BY <1>1, <1>4, <1>5 DEF FieldSet, PointersOnly, Scene, Lists
<1> QED BY <1>1, <1>4, <1>6, PointersOnlyTwice DEF doing

LEMMA AttackGood ==
    ASSUME NEW w, Good(w), NEW h \in Human, h \in w.here, NEW x \in (w.here \cup (w.gone \cap Tame)) \ {h},
           NEW r, r = SetAttackedCreature(w, h, x),
           NEW v, v = IF r.attacked[h] = NoCreature THEN r
                      ELSE [r EXCEPT !.followed[h] = IF Chase THEN x ELSE NoCreature,
                                     !.stale = IF x \in w.gone THEN @ \cup {h} \cup Summons(w, h) ELSE @]
    PROVE  Good(v)
<1> DEFINE y == IF Chase THEN x ELSE NoCreature
           S == {h} \cup Summons(w, h)
           s == Attacks(w, h, x, y)
<1>0. /\ w \in FieldSet /\ h \in Creatures /\ x \in Creatures /\ x # NoCreature /\ y \in Maybe
      /\ y = NoCreature \/ y = x
      /\ Aim(w, {}, {}) /\ w.here \cap w.gone = {}
  BY Sorts DEF Good, Well, Sane, FieldSet, Maybe, Apart
<1> HIDE DEF y
<1>1. CASE ~Sees(w, h, x)
  <2> DEFINE B == [w.attacked EXCEPT ![h] = NoCreature]
  <2>1. r = [w EXCEPT !.attacked = B]
    BY <1>0, <1>1 DEF SetAttackedCreature
  <2>2. /\ B \in [Creatures -> Maybe] /\ B[h] = NoCreature
        /\ \A a \in Creatures : B[a] = w.attacked[a] \/ B[a] = NoCreature
    BY <1>0 DEF FieldSet, Maybe
  <2> HIDE DEF B
  <2>3. PointersOnly(w, r) /\ r.attacked = B /\ r.followed = w.followed
    BY <1>0, <2>1, <2>2 DEF FieldSet, PointersOnly, Scene, Lists
  <2>4. Aim(r, {}, {})
    BY <1>0, <2>2, <2>3, AimStep
  <2>5. v = r
    BY <2>2, <2>3
  <2> QED BY <2>3, <2>4, <2>5, GoodPointers
<1>2. CASE Sees(w, h, x)
  <2>1. /\ PointersOnly(w, s) /\ s.followed[h] = y
        /\ \A a \in Creatures \ S : s.attacked[a] = w.attacked[a]
        /\ \A a \in Creatures \ {h} : s.followed[a] = w.followed[a]
    BY <1>0, <1>2, AttacksFrame
  <2>2. CASE r.attacked[h] = NoCreature
    <3>1. r.attacked[h] = NoCreature
      BY <2>2
    <3>2. r.attacked[h] = x
      <4> DEFINE A == [a \in Creatures |->
                   IF a \notin S THEN w.attacked[a]
                   ELSE IF x # NoCreature /\ ~Sees(w, a, x) THEN NoCreature ELSE x]
                 F == [w.followed EXCEPT ![h] = IF h \in Human /\ x = NoCreature THEN NoCreature ELSE @]
      <4>1. r = [w EXCEPT !.attacked = A, !.followed = F]
        BY <1>2 DEF SetAttackedCreature
      <4>2. A[h] = x
        BY <1>0, <1>2
      <4> HIDE DEF A, F
      <4>3. r.attacked = A
        BY <1>0, <4>1 DEF FieldSet
      <4> QED BY <4>2, <4>3
    <3> QED BY <1>0, <3>1, <3>2
  <2>3. CASE r.attacked[h] # NoCreature /\ x \in w.gone
    <3>1. v = [r EXCEPT !.followed[h] = y, !.stale = @ \cup S]
      <4>1. \A z : z \cup {h} \cup Summons(w, h) = z \cup S
        OBVIOUS
      <4> QED BY <2>3, <4>1 DEF y
    <3>2. v = [s EXCEPT !.stale = @ \cup S]
      BY <3>1 DEF Attacks
    <3>3. S \subseteq Creatures \ w.free
      <4>1. w.free \subseteq Counted /\ h \notin w.free
        BY <1>0 DEF FieldSet, Aim
      <4> QED BY <1>0, <4>1, Sorts DEF Summons, Creatures
    <3> HIDE DEF s, S
    <3>4. h \in S
      BY DEF S
    <3> QED BY <2>1, <3>2, <3>3, <3>4, StaleGood
  <2>4. CASE r.attacked[h] # NoCreature /\ x \notin w.gone
    <3>1. Aim(r, {}, {}) /\ PointersOnly(w, r)
      <4>1. x \in w.here /\ x \in Maybe
        BY <1>0, <2>4 DEF Maybe
      <4> QED BY <1>0, <4>1, SetAttackedAim
    <3>2. r \in FieldSet /\ r.stale \in SUBSET Creatures /\ Scene(w, r)
      BY <3>1 DEF PointersOnly, FieldSet
    <3>3. v = Follows(r, h, y)
      <4>1. v = [r EXCEPT !.followed[h] = y, !.stale = r.stale]
        BY <2>4 DEF y
      <4>2. [r EXCEPT !.stale = r.stale] = r
        BY <3>2 DEF FieldSet
      <4> QED BY <3>2, <4>1 DEF Follows, FieldSet
    <3>4. /\ PointersOnly(r, v) /\ v.attacked = r.attacked /\ v.followed[h] = y
          /\ \A a \in Creatures \ {h} : v.followed[a] = r.followed[a]
      <4>1. r \in FieldSet /\ h \in Creatures /\ y \in Maybe
        BY <1>0, <3>2
      <4> QED BY ONLY <3>3, <4>1, FollowFrame
    <3>5. h \in r.here /\ x \in r.here /\ Sees(r, h, x)
      BY <1>2, <2>4, <3>2 DEF Scene, Sees, Near
    <3>6. Aim(v, {}, {})
      <4>1. \/ v.followed[h] = NoCreature
            \/ h \in r.here /\ v.followed[h] \in r.here /\ Sees(r, h, v.followed[h])
        BY <1>0, <3>4, <3>5
      <4>2. \A a \in Creatures : \/ v.followed[a] = r.followed[a] \/ v.followed[a] = NoCreature
                                 \/ a \in r.here /\ v.followed[a] \in r.here /\ Sees(r, a, v.followed[a])
        BY <3>4, <4>1
      <4> QED BY <3>1, <3>4, <4>2, AimStep
    <3>7. PointersOnly(w, v)
      BY <3>1, <3>4, PointersOnlyTwice
    <3> QED BY <3>6, <3>7, GoodPointers
  <2> QED BY <2>2, <2>3, <2>4
<1> QED BY <1>1, <1>2

LEMMA FollowGood ==
    ASSUME NEW w, Good(w), NEW h \in Human, h \in w.here, NEW x \in (w.here \cup (w.gone \cap Tame)) \ {h},
           NEW r, r = SetFollowCreature(SetAttackedCreature(w, h, NoCreature), h, x),
           NEW v, v = [r EXCEPT !.stale = IF x \in w.gone THEN @ \cup {h} ELSE @]
    PROVE  Good(v)
<1> DEFINE u == SetAttackedCreature(w, h, NoCreature)
<1>0. /\ w \in FieldSet /\ h \in Creatures /\ x \in Creatures /\ x # NoCreature /\ x \in Maybe
      /\ w.here \cap w.gone = {} /\ w.here \cap w.free = {} /\ w.free \subseteq Counted
  BY Sorts DEF Good, Well, Sane, FieldSet, Maybe, Apart, Aim
<1>1. Good(u) /\ PointersOnly(w, u)
  BY <1>0, LetsGoGood
<1>2. r = SetFollowCreature(u, h, x)
  OBVIOUS
<1> HIDE DEF u
<1>3. /\ u.here = w.here /\ u.gone = w.gone /\ u.free = w.free /\ u \in FieldSet
  BY <1>1 DEF PointersOnly, Scene
<1>4. CASE x \notin w.gone
  <2>1. Good(r)
    BY <1>0, <1>1, <1>2, <1>3, <1>4, SetFollowGood
  <2>2. r \in FieldSet
    BY <2>1 DEF Good, Well, Sane
  <2>3. v = [r EXCEPT !.stale = r.stale]
    BY <1>4
  <2>4. v = r
    BY <2>2, <2>3 DEF FieldSet
  <2> QED BY <2>1, <2>4
<1>5. CASE x \in w.gone
  <2> DEFINE S == {h}
  <2>1. v = [r EXCEPT !.stale = @ \cup S]
    BY <1>5
  <2>2. S \subseteq Creatures \ u.free /\ h \in S
    BY <1>0, <1>3
  <2> HIDE DEF S
  <2>3. CASE r = Follows(u, h, x)
    <3>1. /\ PointersOnly(u, r) /\ r.attacked = u.attacked
          /\ \A a \in Creatures \ {h} : r.followed[a] = u.followed[a]
      BY <1>0, <1>3, <2>3, FollowFrame
    <3> QED BY <1>1, <2>1, <2>2, <3>1, StaleGood
  <2>4. CASE r = SetAttackedCreature(u, h, NoCreature)
    <3>1. Good(r) /\ PointersOnly(u, r)
      BY <1>0, <1>1, <2>4, LetsGoGood
    <3>2. PointersOnly(r, r)
      BY <3>1, PointersOnlyNothing DEF Good, Well, Sane
    <3>3. S \subseteq Creatures \ r.free
      BY <2>2, <3>1 DEF PointersOnly, Scene
    <3> QED BY <2>1, <3>1, <3>2, <3>3, StaleGood
  <2> QED BY <1>0, <1>2, <2>3, <2>4 DEF SetFollowCreature, Follows
<1> QED BY <1>4, <1>5

LEMMA FieldInitGood == ASSUME FieldInit PROVE Good(field)
<1>0. NoCreature \in Maybe /\ NoCreature \notin Creatures
  BY Sorts DEF Maybe
<1>1. /\ field.at = [c \in Creatures |-> 1] /\ field.here = {} /\ field.gone = {} /\ field.fainted = {}
      /\ field.master = [p \in Wilds |-> NoCreature] /\ field.attacked = Nothing /\ field.followed = Nothing
      /\ field.targets = [p \in Wilds |-> {}] /\ field.friends = [p \in Wilds |-> {}]
      /\ field.checked = {} /\ field.listed = {} /\ field.refs = [c \in Counted |-> 0]
      /\ field.released = {} /\ field.free = Counted
  BY DEF FieldInit
<1>2. field \in FieldSet
  BY <1>0 DEF FieldInit, FieldSet, Nothing
<1>3. Account(field, {})
  <2> SUFFICES ASSUME NEW d \in Counted
               PROVE  field.refs[d] = Count(field.targets, d) + Count(field.friends, d) + In(d, {}) + In(d, field.listed)
    BY DEF Account
  <2>1. {q \in Wilds : d \in field.targets[q]} = {} /\ {q \in Wilds : d \in field.friends[q]} = {}
    BY <1>1
  <2>2. Count(field.targets, d) = 0 /\ Count(field.friends, d) = 0
    BY <2>1, FS_EmptySet DEF Count
  <2>3. In(d, {}) = 0 /\ In(d, field.listed) = 0 /\ field.refs[d] = 0
    BY <1>1 DEF In
  <2> QED BY <2>2, <2>3
<1>4. Reach(field, {}) /\ LetGo(field, {}) /\ Heed(field, {})
  BY <1>1 DEF Reach, LetGo, Heed, Wilds
<1>5. Aim(field, {}, {})
  <2>1. \A c \in Creatures : field.attacked[c] = NoCreature /\ field.followed[c] = NoCreature
    BY <1>1 DEF Nothing
  <2>2. \A t \in Tame : t \in Creatures /\ t \in Wilds /\ field.master[t] = NoCreature
    BY <1>1 DEF Creatures, Wilds
  <2>3. \A c \in Counted : c \in Creatures
    BY DEF Creatures
  <2> QED BY <1>1, <1>2, <2>1, <2>2, <2>3 DEF Aim, Blank
<1>6. Apart(field)
  <2>1. \A p \in Wilds : field.master[p] = NoCreature
    BY <1>1
  <2>2. NoCreature \notin Counted
    BY <1>0 DEF Creatures
  <2> QED BY <1>1, <2>1, <2>2 DEF Apart, Untamed, Wilds
<1>7. Led(field, {}) /\ Notice(field, {})
  BY <1>1 DEF Led, Notice
<1>8. field.here \cup field.released = {}
  BY <1>1
<1> QED BY <1>2, <1>3, <1>4, <1>5, <1>6, <1>7, <1>8 DEF Good, Well, Sane

LEMMA CheckGood ==
    ASSUME NEW w, Good(w), NEW c \in Creatures, c \in w.listed, NEW how, NEW order \in Orders,
           NEW v, v = IF c \notin w.checked THEN Dec([w EXCEPT !.listed = @ \ {c}], c)
                      ELSE IF c \in w.fainted THEN Death(w, c, order)
                      ELSE Think(w, c, how, order)
    PROVE  Good(v)
<1>1. CASE c \notin w.checked
  <2>1. v = Dec([w EXCEPT !.listed = @ \ {c}], c)
    BY <1>1
  <2> QED BY <1>1, <2>1, UncheckedGood
<1>2. CASE c \in w.checked
  <2>1. c \in w.here
    BY <1>2 DEF Good, Well, Sane, Reach
  <2>2. CASE c \in w.fainted
    <3>1. v = Death(w, c, order)
      BY <1>2, <2>2
    <3>2. c \in Human \/ c \in Wilds
      BY Sorts
    <3> QED BY <2>1, <2>2, <3>1, <3>2, DeathOfPlayerGood, DeathOfPokemonGood
  <2>3. CASE c \notin w.fainted
    <3>1. v = Think(w, c, how, order)
      BY <1>2, <2>3
    <3> QED BY <2>1, <2>3, <3>1, ThinkGood
  <2> QED BY <2>2, <2>3
<1> QED BY <1>1, <1>2

LEMMA FieldNextGood == ASSUME Good(field), FieldNext PROVE Good(field')
<1>0. field \in FieldSet
  BY DEF Good, Well, Sane
<1>1. ASSUME NEW order \in Orders, NEW x \in Counted, NEW p \in Where, Appears(x, p, order) PROVE Good(field')
  <2>1. x \in field.free /\ field' = PlaceCreature([field EXCEPT !.free = @ \ {x}], x, p, order)
    BY <1>1 DEF Appears
  <2> QED BY <2>1, AppearsGood
<1>2. ASSUME NEW order \in Orders, NEW h \in Human, NEW t \in Tame, CallOut(h, t, order) PROVE Good(field')
  <2> DEFINE r == PlaceCreature(SetFollowCreature([field EXCEPT !.master[t] = h], t, h), t, field.at[h], order)
  <2>1. h \in field.here /\ t \notin field.here /\ Summons(field, h) = {} /\ field' = Swept(r)
    BY <1>2 DEF CallOut
  <2>2. Good(r)
    BY <2>1, CallOutGood
  <2> HIDE DEF r
  <2> QED BY <2>1, <2>2, SweptGood
<1>3. ASSUME NEW order \in Orders, NEW h \in Human, CallBack(h, order) PROVE Good(field')
  <2>1. PICK t \in Tame : t \in field.here /\ field' = Swept(RemoveOne(field, t, order))
    BY <1>3 DEF CallBack, Summons
  <2> DEFINE r == RemoveOne(field, t, order)
  <2>2. Good(r)
    BY <2>1, CalledBackGood
  <2> HIDE DEF r
  <2> QED BY <2>1, <2>2, SweptGood DEF r
<1>4. ASSUME NEW order \in Orders, NEW h \in Human, NEW called \in BOOLEAN, Leaves(h, called, order) PROVE Good(field')
  <2> DEFINE his == Summons(field, h) \cap field.here
             r == IF called /\ his # {} THEN RemoveOne(field, CHOOSE t \in his : TRUE, order) ELSE field
             v == RemoveCreature(r, h, order)
  <2>1. h \in field.here /\ field' = Swept(v)
    BY <1>4 DEF Leaves
  <2>2. r = field \/ \E t \in Tame \cap field.here : r = RemoveOne(field, t, order)
    <3>1. CASE his = {}
      BY <3>1
    <3>2. CASE his # {}
      <4>1. (CHOOSE t \in his : TRUE) \in Tame \cap field.here
        BY <3>2 DEF Summons
      <4> QED BY <4>1
    <3> QED BY <3>1, <3>2
  <2> HIDE DEF r
  <2>3. Good(v)
    BY <2>1, <2>2, LeavesGood
  <2> HIDE DEF v
  <2> QED BY <2>1, <2>3, SweptGood
<1>5. ASSUME NEW order \in Orders, NEW x \in Creatures, NEW to \in Where, Walk(x, to, order) PROVE Good(field')
  <2>1. PICK met : field' = Swept(Cleanup(IF x \in Human THEN MovePlayer(field, x, to, met, order)
                                          ELSE MovePokemon(field, x, to, met, order)))
    BY <1>5 DEF Walk
  <2> DEFINE r == IF x \in Human THEN MovePlayer(field, x, to, met, order) ELSE MovePokemon(field, x, to, met, order)
  <2>2. x \in field.here /\ x \notin field.fainted
    BY <1>5 DEF Walk
  <2>3. Good(r)
    BY <2>2, WalkGood
  <2> HIDE DEF r
  <2> QED BY <2>1, <2>3, CleanupGood, SweptGood DEF r
<1>6. ASSUME NEW order \in Orders, NEW c \in Creatures, NEW how, CheckCreature(c, how, order) PROVE Good(field')
  <2> DEFINE r == IF c \notin field.checked THEN Dec([field EXCEPT !.listed = @ \ {c}], c)
                  ELSE IF c \in field.fainted THEN Death(field, c, order)
                  ELSE Think(field, c, how, order)
  <2>1. c \in field.listed /\ field' = Swept(Cleanup(r))
    BY <1>6 DEF CheckCreature
  <2>2. Good(r)
    BY <2>1, CheckGood
  <2> HIDE DEF r
  <2> QED BY <2>1, <2>2, CleanupGood, SweptGood
<1>7. ASSUME NEW h \in Human, NEW x \in Creatures, PlayerSetAttackedCreature(h, x) PROVE Good(field')
  <2> DEFINE r == SetAttackedCreature(field, h, x)
             v == IF r.attacked[h] = NoCreature THEN r
                  ELSE [r EXCEPT !.followed[h] = IF Chase THEN x ELSE NoCreature,
                                 !.stale = IF x \in field.gone THEN @ \cup {h} \cup Summons(field, h) ELSE @]
  <2>1. /\ h \in field.here /\ x \in (field.here \cup (field.gone \cap Tame)) \ {h} /\ h \in Creatures
        /\ field' = Swept(v) \/ field' = Swept(SetAttackedCreature(field, h, NoCreature))
    BY <1>7, Sorts DEF PlayerSetAttackedCreature
  <2>2. Good(v)
    BY <2>1, AttackGood
  <2> HIDE DEF v
  <2> QED BY <2>1, <2>2, LetsGoGood, SweptGood
<1>8. ASSUME NEW h \in Human, PlayerCancelAttack(h) PROVE Good(field')
  <2>1. field' = Swept(SetAttackedCreature(field, h, NoCreature)) /\ h \in Creatures
    BY <1>8, Sorts DEF PlayerCancelAttack
  <2> QED BY <2>1, LetsGoGood, SweptGood
<1>9. ASSUME NEW h \in Human, NEW x \in Creatures, PlayerFollowCreature(h, x) PROVE Good(field')
  <2> DEFINE r == SetFollowCreature(SetAttackedCreature(field, h, NoCreature), h, x)
             v == [r EXCEPT !.stale = IF x \in field.gone THEN @ \cup {h} ELSE @]
  <2>1. /\ h \in field.here /\ x \in (field.here \cup (field.gone \cap Tame)) \ {h} /\ field' = Swept(v)
    BY <1>9 DEF PlayerFollowCreature
  <2>2. Good(v)
    BY <2>1, FollowGood
  <2> HIDE DEF v
  <2> QED BY <2>1, <2>2, SweptGood
<1>10. ASSUME NEW x \in Creatures, NEW faints \in BOOLEAN, Hit(x, faints) PROVE Good(field')
  <2> DEFINE r == IF x \in Wilds THEN SetIdle(field, x, FALSE) ELSE field
  <2>1. /\ x \in field.here /\ x \notin field.fainted
        /\ field' = r \/ field' = [r EXCEPT !.fainted = @ \cup {x}]
    BY <1>10 DEF Hit
  <2>2. Good(r) /\ x \in r.here /\ (x \in Human \/ ~r.idle[x])
    <3>1. CASE x \in Wilds
      <4>1. r = Woken(field, x)
        BY <3>1 DEF Woken
      <4> HIDE DEF r
      <4> QED BY <2>1, <3>1, <4>1, WokenGood DEF Scene
    <3>2. CASE x \notin Wilds
      BY <2>1, <3>2, Sorts
    <3> QED BY <3>1, <3>2
  <2> HIDE DEF r
  <2> QED BY <2>1, <2>2, FaintsGood
<1> QED BY <1>1, <1>2, <1>3, <1>4, <1>5, <1>6, <1>7, <1>8, <1>9, <1>10 DEF FieldNext

LEMMA GoodIsSound == ASSUME Good(field) PROVE TargetsSound /\ Noticed
<1>0. /\ field \in FieldSet /\ Sane(field, field.here \cup field.released, {}) /\ Aim(field, {}, {})
      /\ Notice(field, {})
  BY DEF Good, Well, Sane
<1>1. ASSUME NEW c \in Counted
      PROVE  /\ field.refs[c] \in Nat
             /\ field.refs[c] = Cardinality({p \in Wilds : c \in field.targets[p]})
                  + Cardinality({p \in Wilds : c \in field.friends[p]})
                  + (IF c \in field.here \cup field.released THEN 1 ELSE 0)
                  + (IF c \in field.listed THEN 1 ELSE 0)
  <2> DEFINE a == Count(field.targets, c)
             b == Count(field.friends, c)
             i == In(c, field.here \cup field.released)
             j == In(c, field.listed)
  <2>1. field.refs[c] = a + b + i + j
    BY <1>0 DEF Sane, Account
  <2>2. a \in Nat /\ b \in Nat
    BY ONLY CountIsNumber, Zenon
  <2>3. i \in Nat /\ j \in Nat
    BY DEF In
  <2>4. a + b + i + j \in Nat
    <3> HIDE DEF a, b, i, j
    <3> QED BY <2>2, <2>3
  <2>5. field.refs[c] \in Nat
    <3> HIDE DEF a, b, i, j
    <3> QED BY <2>1, <2>4
  <2> QED BY <2>1, <2>5 DEF Count, In
<1>2. RefsBalanced
  BY <1>1 DEF RefsBalanced
<1>3. TypeOKTargets
  <2>1. field.refs \in [Counted -> Nat]
    <3> DEFINE z == field.refs
    <3>1. z \in [Counted -> Int] /\ \A c \in Counted : z[c] \in Nat
      BY <1>0, <1>1 DEF FieldSet
    <3> HIDE DEF z
    <3>2. z \in [Counted -> Nat]
      BY <3>1
    <3> QED BY <3>2 DEF z
  <2> QED BY <1>0, <2>1 DEF TypeOKTargets, FieldSet, Maybe
<1>4. LetsGo
  BY <1>0 DEF LetsGo, Sane, LetGo
<1>5. Attended
  BY <1>0 DEF Attended, Sane, Heed
<1>6. InSight
  BY <1>0 DEF InSight, Sound, Aim, Aimed
<1>7. Noticed
  BY <1>0 DEF Noticed, Notice
<1> QED BY <1>2, <1>3, <1>4, <1>5, <1>6, <1>7 DEF TargetsSound

\* The inductive invariant
FieldGood == Good(field)

LEMMA FieldStaysGood == FieldSpec => []FieldGood
<1>1. FieldInit => FieldGood
  BY FieldInitGood DEF FieldGood
<1>2. FieldGood /\ [FieldNext]_field => FieldGood'
  <2>1. CASE FieldNext
    BY <2>1, FieldNextGood DEF FieldGood
  <2>2. CASE UNCHANGED field
    BY <2>2 DEF FieldGood
  <2> QED BY <2>1, <2>2
<1> QED BY <1>1, <1>2, PTL DEF FieldSpec

\* No creature is forgotten, whatever the order of moves, deaths, calls and thoughts:
\* every reference is counted once, who is out of the game holds on to nobody, who must
\* be checked is, and whom a creature attacks or follows is there to be seen (creature.cpp,
\* pokemon.cpp, game.cpp).
THEOREM TargetsStaySound == FieldSpec => []TargetsSound
<1>1. FieldGood => TargetsSound
  BY GoodIsSound DEF FieldGood
<1> QED BY <1>1, FieldStaysGood, PTL

\* A wild pokemon has every player it can see for a target, but for one that was just
\* sent home (Pokemon::onCreatureMove, onCreatureAppear and updateTargetList).
THEOREM PlayersAreNoticed == FieldSpec => []Noticed
<1>1. FieldGood => Noticed
  BY GoodIsSound DEF FieldGood
<1> QED BY <1>1, FieldStaysGood, PTL
=============================================================================
