----------------------------- MODULE FoldProofs -----------------------------
(***************************************************************************)
(* Lemmas on induction and on sums, for the proofs about components whose  *)
(* handlers repeat a step or whose properties add something up.  An        *)
(* induction is over a set of numbers, or of finite sets, instead of a     *)
(* predicate: such a lemma can be instantiated by the provers.             *)
(***************************************************************************)
EXTENDS Integers, Functions, FiniteSetTheorems, WellFoundedInduction, TLAPS

-----------------------------------------------------------------------------
(* Induction *)

\* There is a least one in a set of numbers.
LEMMA LeastNumber ==
    ASSUME NEW S \in SUBSET Nat, S # {}
    PROVE  \E n \in S : \A m \in S : n <= m
<1>1. \E n \in S : \A m \in S : ~ (<<m, n>> \in OpToRel(<, Nat))
  BY NatLessThanWellFounded, WFMin
<1>2. PICK n \in S : \A m \in S : <<m, n>> \notin OpToRel(<, Nat)
  BY <1>1
<1>3. \A m \in S : ~(m < n)
  BY <1>2 DEF OpToRel
<1> QED BY <1>3

\* What holds of 0 and of each successor holds of all numbers.
LEMMA NumbersOneByOne ==
    ASSUME NEW G, 0 \in G, \A n \in Nat : n \in G => n + 1 \in G
    PROVE  Nat \subseteq G
<1> DEFINE Bad == Nat \ G
<1> SUFFICES ASSUME Bad # {} PROVE FALSE
  OBVIOUS
<1>1. PICK n \in Bad : \A m \in Bad : n <= m
  BY LeastNumber
<1>2. n # 0 /\ n - 1 \in Nat /\ n - 1 < n /\ (n - 1) + 1 = n
  BY <1>1
<1>3. n - 1 \in G
  BY <1>1, <1>2
<1> QED BY <1>1, <1>2, <1>3

\* Among some finite sets there is a smallest.
LEMMA SmallestSet ==
    ASSUME NEW D, IsFiniteSet(D), NEW B \in SUBSET SUBSET D, B # {}
    PROVE  \E S \in B : \A x \in S : S \ {x} \notin B
<1>1. \A S \in B : IsFiniteSet(S) /\ Cardinality(S) \in Nat
  BY FS_Subset, FS_CardinalityType
<1> DEFINE sizes == {Cardinality(S) : S \in B}
<1>2. sizes \in SUBSET Nat /\ sizes # {}
  BY <1>1
<1>3. PICK n \in sizes : \A m \in sizes : n <= m
  BY <1>2, LeastNumber
<1>4. PICK S \in B : Cardinality(S) = n
  BY <1>3
<1>5. ASSUME NEW x \in S PROVE S \ {x} \notin B
  <2>1. Cardinality(S \ {x}) = Cardinality(S) - 1
    BY <1>1, FS_RemoveElement
  <2>2. S \ {x} \in B => n <= Cardinality(S \ {x})
    BY <1>3
  <2> QED BY <1>1, <1>4, <2>1, <2>2
<1> QED BY <1>5

\* What holds of the empty set and with each further element holds of all subsets.
LEMMA SetsOneByOne ==
    ASSUME NEW D, IsFiniteSet(D), NEW G, {} \in G,
           \A S \in SUBSET D : \A x \in D \ S : S \in G => S \cup {x} \in G
    PROVE  SUBSET D \subseteq G
<1> DEFINE Bad == (SUBSET D) \ G
<1> SUFFICES ASSUME Bad # {} PROVE FALSE
  OBVIOUS
<1>1. PICK S \in Bad : \A x \in S : S \ {x} \notin Bad
  BY SmallestSet
<1>2. PICK x : x \in S
  <2>1. S \notin G
    BY <1>1
  <2>2. S # {}
    BY ONLY <2>1, {} \in G
  <2> QED BY <2>2
<1>3. S \ {x} \in G /\ S \ {x} \in SUBSET D /\ x \in D \ (S \ {x}) /\ (S \ {x}) \cup {x} = S
  BY <1>1, <1>2
<1> QED BY <1>1, <1>3

-----------------------------------------------------------------------------
(* Sums *)

\* How SumFunctionOnSet goes over the subsets of S.
Tabled(f, S, g) ==
    g = [s \in SUBSET S |->
            IF s = {} THEN 0
            ELSE LET x == CHOOSE x \in s : TRUE IN f[x] + g[s \ {x}]]

\* A sum is read off such a table,
LEMMA SumIsTabled ==
    ASSUME NEW f, NEW S
    PROVE  SumFunctionOnSet(f, S) = (CHOOSE g : Tabled(f, S, g))[S]
  BY DEF SumFunctionOnSet, FoldFunctionOnSet, MapThenFoldSet, Tabled

\* of which there is one only,
LEMMA TableIsUnique ==
    ASSUME NEW f, NEW S, IsFiniteSet(S), NEW g, Tabled(f, S, g), NEW h, Tabled(f, S, h)
    PROVE  g = h
<1> DEFINE Bad == {s \in SUBSET S : g[s] # h[s]}
<1>1. SUFFICES ASSUME Bad # {} PROVE FALSE
  BY DEF Tabled
<1>2. PICK s \in Bad : \A x \in s : s \ {x} \notin Bad
  BY <1>1, SmallestSet
<1> DEFINE c == CHOOSE x \in s : TRUE
<1>3. s # {}
  BY <1>2 DEF Tabled
<1>4. c \in s /\ s \ {c} \in SUBSET S
  BY <1>2, <1>3
<1>5. g[s] = f[c] + g[s \ {c}] /\ h[s] = f[c] + h[s \ {c}]
  BY <1>2, <1>3 DEF Tabled
<1> QED BY <1>2, <1>4, <1>5

\* and there is one.
LEMMA TableExists ==
    ASSUME NEW f, NEW S, IsFiniteSet(S)
    PROVE  \E g : Tabled(f, S, g)
<1> DEFINE Upto(n) == {s \in SUBSET S : Cardinality(s) <= n}
           Good == {n \in Nat : \E g : g = [s \in Upto(n) |->
                        IF s = {} THEN 0
                        ELSE LET x == CHOOSE x \in s : TRUE IN f[x] + g[s \ {x}]]}
<1>0. \A s \in SUBSET S : /\ IsFiniteSet(s) /\ Cardinality(s) \in Nat /\ Cardinality(s) <= Cardinality(S)
                          /\ Cardinality(s) = 0 <=> s = {}
                          /\ \A x \in s : Cardinality(s \ {x}) = Cardinality(s) - 1
  <2> TAKE s \in SUBSET S
  <2>1. IsFiniteSet(s) /\ Cardinality(s) <= Cardinality(S)
    BY FS_Subset
  <2> QED BY <2>1, FS_CardinalityType, FS_EmptySet, FS_RemoveElement
<1>1. 0 \in Good
  <2> DEFINE g == [s \in Upto(0) |-> 0]
  <2>1. \A s \in Upto(0) : s = {}
    BY <1>0
  <2>2. g = [s \in Upto(0) |-> IF s = {} THEN 0
                               ELSE LET x == CHOOSE x \in s : TRUE IN f[x] + g[s \ {x}]]
    BY <2>1
  <2> QED BY <2>2
<1>2. ASSUME NEW n \in Nat, n \in Good PROVE n + 1 \in Good
  <2>1. PICK g : g = [s \in Upto(n) |-> IF s = {} THEN 0
                                        ELSE LET x == CHOOSE x \in s : TRUE IN f[x] + g[s \ {x}]]
    BY <1>2
  <2> DEFINE V(k, s) == IF s = {} THEN 0
                        ELSE LET x == CHOOSE x \in s : TRUE IN f[x] + k[s \ {x}]
             h == [s \in Upto(n + 1) |-> V(g, s)]
  <2>2. ASSUME NEW s \in Upto(n + 1) PROVE V(g, s) = V(h, s)
    <3>1. CASE s = {}
      BY <3>1
    <3>2. CASE s # {}
      <4> DEFINE x == CHOOSE x \in s : TRUE
                 r == s \ {x}
      <4>1. x \in s /\ r \in Upto(n) /\ r \in Upto(n + 1)
        BY <1>0, <3>2
      <4>2. h[r] = V(g, r) /\ g[r] = V(g, r)
        BY <2>1, <4>1
      <4> QED BY <3>2, <4>2
    <3> QED BY <3>1, <3>2
  <2>3. h = [s \in Upto(n + 1) |-> V(h, s)]
    BY <2>2
  <2>4. n + 1 \in Nat
    OBVIOUS
  <2> QED BY <2>3, <2>4
<1>3. Cardinality(S) \in Good
  <2>1. Nat \subseteq Good
    BY <1>1, <1>2, NumbersOneByOne
  <2> QED BY <1>0, <2>1
<1>4. Upto(Cardinality(S)) = SUBSET S
  BY <1>0
<1> QED BY <1>3, <1>4 DEF Tabled

\* A sum is one element and the sum of the others, whichever is taken.
LEMMA SumOverSubset ==
    ASSUME NEW f, NEW D, IsFiniteSet(D), NEW S \in SUBSET D
    PROVE  SumFunctionOnSet(f, S) = (CHOOSE g : Tabled(f, D, g))[S]
<1> DEFINE g == CHOOSE k : Tabled(f, D, k)
           h == [s \in SUBSET S |-> g[s]]
<1>1. Tabled(f, D, g)
  BY TableExists
<1>2. IsFiniteSet(S)
  BY FS_Subset
<1>3. Tabled(f, S, h)
  <2> HIDE DEF g
  <2>1. ASSUME NEW s \in SUBSET S
        PROVE  g[s] = IF s = {} THEN 0 ELSE LET x == CHOOSE x \in s : TRUE IN f[x] + h[s \ {x}]
    BY <1>1 DEF Tabled
  <2> QED BY <2>1 DEF Tabled
<1>4. (CHOOSE k : Tabled(f, S, k)) = h
  <2>1. Tabled(f, S, CHOOSE k : Tabled(f, S, k))
    BY <1>3
  <2> QED BY <1>2, <1>3, <2>1, TableIsUnique
<1>5. SumFunctionOnSet(f, S) = h[S]
  BY <1>4, SumIsTabled
<1> QED BY <1>5

\* The sum over nothing is 0.
LEMMA SumOfNothing == ASSUME NEW f PROVE SumFunctionOnSet(f, {}) = 0
<1> DEFINE g == CHOOSE k : Tabled(f, {}, k)
<1>1. Tabled(f, {}, g)
  BY TableExists, FS_EmptySet
<1>2. g[{}] = 0
  <2> HIDE DEF g
  <2> QED BY <1>1 DEF Tabled
<1> QED BY <1>2, SumIsTabled

\* Any member may be taken out first: of integers,
LEMMA IntegersWithout ==
    ASSUME NEW D, IsFiniteSet(D), NEW f, \A x \in D : f[x] \in Int, NEW S \in SUBSET D
    PROVE  /\ SumFunctionOnSet(f, S) \in Int
           /\ \A x \in S : SumFunctionOnSet(f, S) = f[x] + SumFunctionOnSet(f, S \ {x})
<1> DEFINE g == CHOOSE k : Tabled(f, D, k)
           Bad == {s \in SUBSET D : ~(g[s] \in Int /\ \A x \in s : g[s] = f[x] + g[s \ {x}])}
<1>1. Tabled(f, D, g)
  BY TableExists
<1>2. \A s \in SUBSET D : SumFunctionOnSet(f, s) = g[s]
  BY SumOverSubset
<1> HIDE DEF g
<1>4. \A s \in SUBSET D : g[s] \in Int
  <2> DEFINE Worse == {s \in SUBSET D : g[s] \notin Int}
  <2> SUFFICES ASSUME Worse # {} PROVE FALSE
    OBVIOUS
  <2>1. PICK s \in Worse : \A x \in s : s \ {x} \notin Worse
    BY SmallestSet
  <2>2. s # {} /\ s \in SUBSET D
    BY <1>1, <2>1 DEF Tabled
  <2> DEFINE c == CHOOSE x \in s : TRUE
  <2>3. c \in s /\ g[s] = f[c] + g[s \ {c}]
    BY <1>1, <2>2 DEF Tabled
  <2> HIDE DEF c
  <2>4. s \ {c} \in SUBSET D /\ f[c] \in Int
    BY <2>2, <2>3
  <2>5. g[s \ {c}] \in Int
    BY <2>1, <2>3, <2>4
  <2>6. g[s] \in Int
    BY <2>3, <2>4, <2>5
  <2> QED BY <2>1, <2>6
<1>3. Bad = {}
  <2> SUFFICES ASSUME Bad # {} PROVE FALSE
    OBVIOUS
  <2>1. PICK s \in Bad : \A x \in s : s \ {x} \notin Bad
    BY SmallestSet
  <2>2. s # {}
    BY <1>1, <2>1 DEF Tabled
  <2> DEFINE c == CHOOSE x \in s : TRUE
  <2>3. c \in s /\ s \in SUBSET D /\ g[s] = f[c] + g[s \ {c}]
    BY <1>1, <2>1, <2>2 DEF Tabled
  <2> HIDE DEF c
  <2>4. g[s \ {c}] \in Int /\ \A x \in s \ {c} : g[s \ {c}] = f[x] + g[(s \ {c}) \ {x}]
    BY <2>1, <2>3
  <2>5. f[c] \in Int /\ g[s] \in Int
    BY <2>3, <2>4
  <2>6. ASSUME NEW x \in s PROVE g[s] = f[x] + g[s \ {x}]
    <3>1. CASE x = c
      BY <2>3, <3>1
    <3>2. CASE x # c
      <4>1. c \in s \ {x} /\ x \in s \ {c} /\ (s \ {c}) \ {x} = (s \ {x}) \ {c}
        BY <2>3, <3>2
      <4>2. g[s \ {x}] \in Int /\ g[s \ {x}] = f[c] + g[(s \ {x}) \ {c}]
        BY <2>1, <2>3, <4>1
      <4>3. g[s \ {c}] = f[x] + g[(s \ {x}) \ {c}]
        BY <2>4, <4>1
      <4>4. g[(s \ {x}) \ {c}] \in Int /\ f[x] \in Int
        BY <1>4, <2>3
      <4> QED BY <2>3, <2>5, <4>2, <4>3, <4>4
    <3> QED BY <3>1, <3>2
  <2> QED BY <2>1, <2>5, <2>6
<1>5. \A x \in S : S \ {x} \in SUBSET D
  OBVIOUS
<1> QED BY <1>2, <1>3, <1>4, <1>5

\* and of natural numbers, the sum of which is one.
LEMMA SumWithout ==
    ASSUME NEW D, IsFiniteSet(D), NEW f, \A x \in D : f[x] \in Nat, NEW S \in SUBSET D
    PROVE  /\ SumFunctionOnSet(f, S) \in Nat
           /\ \A x \in S : SumFunctionOnSet(f, S) = f[x] + SumFunctionOnSet(f, S \ {x})
<1> DEFINE G == {s \in SUBSET D : SumFunctionOnSet(f, s) \in Nat}
<1>0. \A x \in D : f[x] \in Int
  OBVIOUS
<1>1. {} \in G
  BY SumOfNothing
<1>2. ASSUME NEW s \in SUBSET D, NEW x \in D \ s, s \in G PROVE s \cup {x} \in G
  <2>1. (s \cup {x}) \ {x} = s /\ s \cup {x} \in SUBSET D /\ x \in s \cup {x}
    OBVIOUS
  <2>2. SumFunctionOnSet(f, s \cup {x}) = f[x] + SumFunctionOnSet(f, s)
    BY <1>0, <2>1, IntegersWithout
  <2> QED BY <1>2, <2>2
<1>3. SUBSET D \subseteq G
  <2> HIDE DEF G
  <2> QED BY <1>1, <1>2, SetsOneByOne
<1> QED BY <1>0, <1>3, IntegersWithout

\* Or be added last.
LEMMA SumWith ==
    ASSUME NEW D, IsFiniteSet(D), NEW f, \A x \in D : f[x] \in Nat, NEW S \in SUBSET D, NEW y \in D \ S
    PROVE  SumFunctionOnSet(f, S \cup {y}) = f[y] + SumFunctionOnSet(f, S)
<1>1. S \cup {y} \in SUBSET D /\ y \in S \cup {y} /\ (S \cup {y}) \ {y} = S
  OBVIOUS
<1> QED BY <1>1, SumWithout

\* The same of integers.
LEMMA IntegersWith ==
    ASSUME NEW D, IsFiniteSet(D), NEW f, \A x \in D : f[x] \in Int, NEW S \in SUBSET D, NEW y \in D \ S
    PROVE  SumFunctionOnSet(f, S \cup {y}) = f[y] + SumFunctionOnSet(f, S)
<1>1. S \cup {y} \in SUBSET D /\ y \in S \cup {y} /\ (S \cup {y}) \ {y} = S
  OBVIOUS
<1> QED BY <1>1, IntegersWithout

LEMMA IntegersAgree ==
    ASSUME NEW S, IsFiniteSet(S), NEW f, NEW g, \A x \in S : f[x] \in Int /\ g[x] = f[x]
    PROVE  SumFunctionOnSet(f, S) = SumFunctionOnSet(g, S)
<1> DEFINE G == {s \in SUBSET S : SumFunctionOnSet(f, s) = SumFunctionOnSet(g, s)}
<1>1. {} \in G
  BY SumOfNothing
<1>2. ASSUME NEW s \in SUBSET S, NEW x \in S \ s, s \in G PROVE s \cup {x} \in G
  <2>1. SumFunctionOnSet(f, s \cup {x}) = f[x] + SumFunctionOnSet(f, s)
    BY IntegersWith
  <2>2. \A y \in S : g[y] \in Int
    OBVIOUS
  <2>3. SumFunctionOnSet(g, s \cup {x}) = g[x] + SumFunctionOnSet(g, s)
    BY <2>2, IntegersWith
  <2> QED BY <1>2, <2>1, <2>3
<1>3. SUBSET S \subseteq G
  <2> HIDE DEF G
  <2> QED BY <1>1, <1>2, SetsOneByOne
<1> QED BY <1>3

\* Of two functions that agree.
LEMMA SumAgrees ==
    ASSUME NEW S, IsFiniteSet(S), NEW f, NEW g, \A x \in S : f[x] \in Nat /\ g[x] = f[x]
    PROVE  SumFunctionOnSet(f, S) = SumFunctionOnSet(g, S)
<1>1. \A x \in S : f[x] \in Int /\ g[x] = f[x]
  OBVIOUS
<1> QED BY <1>1, IntegersAgree

\* Over two sets that have nothing in common.
LEMMA SumApart ==
    ASSUME NEW D, IsFiniteSet(D), NEW f, \A x \in D : f[x] \in Nat,
           NEW S \in SUBSET D, NEW T \in SUBSET D, S \cap T = {}
    PROVE  SumFunctionOnSet(f, S \cup T) = SumFunctionOnSet(f, S) + SumFunctionOnSet(f, T)
<1> DEFINE G == {t \in SUBSET T : SumFunctionOnSet(f, S \cup t)
                                    = SumFunctionOnSet(f, S) + SumFunctionOnSet(f, t)}
<1>0. IsFiniteSet(T)
  BY FS_Subset
<1>1. {} \in G
  <2>1. SumFunctionOnSet(f, S) \in Nat /\ S \cup {} = S
    BY SumWithout
  <2> QED BY <2>1, SumOfNothing
<1>2. ASSUME NEW t \in SUBSET T, NEW x \in T \ t, t \in G PROVE t \cup {x} \in G
  <2>1. t \in SUBSET D /\ S \cup t \in SUBSET D /\ x \in D \ t /\ x \in D \ (S \cup t)
    OBVIOUS
  <2>2. /\ SumFunctionOnSet(f, t \cup {x}) = f[x] + SumFunctionOnSet(f, t)
        /\ SumFunctionOnSet(f, (S \cup t) \cup {x}) = f[x] + SumFunctionOnSet(f, S \cup t)
    BY <2>1, SumWith
  <2>3. (S \cup t) \cup {x} = S \cup (t \cup {x})
    OBVIOUS
  <2>4. /\ SumFunctionOnSet(f, S) \in Nat /\ SumFunctionOnSet(f, t) \in Nat /\ f[x] \in Nat
    BY <2>1, SumWithout
  <2>5. SumFunctionOnSet(f, S \cup t) = SumFunctionOnSet(f, S) + SumFunctionOnSet(f, t)
    BY <1>2
  <2>6. SumFunctionOnSet(f, S \cup (t \cup {x})) = f[x] + SumFunctionOnSet(f, S \cup t)
    BY <2>2, <2>3
  <2>7. SumFunctionOnSet(f, S \cup (t \cup {x})) = SumFunctionOnSet(f, S) + SumFunctionOnSet(f, t \cup {x})
    BY <2>2, <2>4, <2>5, <2>6
  <2> QED BY <2>7
<1>3. SUBSET T \subseteq G
  <2> HIDE DEF G
  <2> QED BY <1>0, <1>1, <1>2, SetsOneByOne
<1> QED BY <1>3

\* When one of the values has changed.
LEMMA SumChanged ==
    ASSUME NEW D, IsFiniteSet(D), NEW f, NEW g, NEW x \in D, f[x] \in Nat, g[x] \in Nat,
           \A y \in D \ {x} : f[y] \in Nat /\ g[y] = f[y]
    PROVE  /\ SumFunctionOnSet(g, D) + f[x] = SumFunctionOnSet(f, D) + g[x]
           /\ SumFunctionOnSet(f, D) \in Nat /\ SumFunctionOnSet(g, D) \in Nat
<1>1. /\ \A y \in D : f[y] \in Nat /\ g[y] \in Nat
      /\ D \ {x} \in SUBSET D /\ D \in SUBSET D
  OBVIOUS
<1>2. /\ SumFunctionOnSet(f, D) = f[x] + SumFunctionOnSet(f, D \ {x})
      /\ SumFunctionOnSet(f, D \ {x}) \in Nat /\ SumFunctionOnSet(f, D) \in Nat
  BY <1>1, SumWithout
<1>3. /\ SumFunctionOnSet(g, D) = g[x] + SumFunctionOnSet(g, D \ {x})
      /\ SumFunctionOnSet(g, D) \in Nat
  BY <1>1, SumWithout
<1>4. IsFiniteSet(D \ {x})
  BY FS_Subset
<1>5. SumFunctionOnSet(f, D \ {x}) = SumFunctionOnSet(g, D \ {x})
  BY <1>4, SumAgrees
<1> QED BY <1>2, <1>3, <1>5

\* Sums of two functions, point by point.
LEMMA SumsAdded ==
    ASSUME NEW S, IsFiniteSet(S), NEW f, NEW g, NEW k,
           \A x \in S : f[x] \in Nat /\ g[x] \in Nat /\ k[x] = f[x] + g[x]
    PROVE  /\ SumFunctionOnSet(k, S) = SumFunctionOnSet(f, S) + SumFunctionOnSet(g, S)
           /\ SumFunctionOnSet(f, S) \in Nat /\ SumFunctionOnSet(g, S) \in Nat
<1> DEFINE G == {s \in SUBSET S : SumFunctionOnSet(k, s) = SumFunctionOnSet(f, s) + SumFunctionOnSet(g, s)}
<1>0. \A x \in S : k[x] \in Nat
  OBVIOUS
<1>1. {} \in G
  BY SumOfNothing
<1>2. ASSUME NEW s \in SUBSET S, NEW x \in S \ s, s \in G PROVE s \cup {x} \in G
  <2>1. SumFunctionOnSet(f, s \cup {x}) = f[x] + SumFunctionOnSet(f, s)
    BY SumWith
  <2>2. SumFunctionOnSet(g, s \cup {x}) = g[x] + SumFunctionOnSet(g, s)
    BY SumWith
  <2>3. SumFunctionOnSet(k, s \cup {x}) = k[x] + SumFunctionOnSet(k, s)
    BY <1>0, SumWith
  <2>4. SumFunctionOnSet(f, s) \in Nat
    BY SumWithout
  <2>5. SumFunctionOnSet(g, s) \in Nat
    BY SumWithout
  <2>6. k[x] = f[x] + g[x] /\ f[x] \in Nat /\ g[x] \in Nat
        /\ SumFunctionOnSet(k, s) = SumFunctionOnSet(f, s) + SumFunctionOnSet(g, s)
    BY <1>2
  <2>7. SumFunctionOnSet(k, s \cup {x}) = SumFunctionOnSet(f, s \cup {x}) + SumFunctionOnSet(g, s \cup {x})
    BY <2>1, <2>2, <2>3, <2>4, <2>5, <2>6
  <2> QED BY <2>7
<1>3. SUBSET S \subseteq G
  <2> HIDE DEF G
  <2> QED BY <1>1, <1>2, SetsOneByOne
<1>4. SumFunctionOnSet(f, S) \in Nat
  BY SumWithout
<1>5. SumFunctionOnSet(g, S) \in Nat
  BY SumWithout
<1> QED BY <1>3, <1>4, <1>5

\* Group by group: whom each belongs to is in own, and all of them are in P.
LEMMA SumByGroup ==
    ASSUME NEW D, IsFiniteSet(D), NEW f, \A x \in D : f[x] \in Nat,
           NEW P, IsFiniteSet(P), NEW own, \A x \in D : own[x] \in P
    PROVE  SumFunctionOnSet([p \in P |-> SumFunctionOnSet(f, {x \in D : own[x] = p})], P)
             = SumFunctionOnSet(f, D)
<1> DEFINE Of(s, p) == {x \in s : own[x] = p}
           Group(s) == [p \in P |-> SumFunctionOnSet(f, Of(s, p))]
           G == {s \in SUBSET D : SumFunctionOnSet(Group(s), P) = SumFunctionOnSet(f, s)}
<1>0. \A s \in SUBSET D : \A p \in P : SumFunctionOnSet(f, Of(s, p)) \in Nat
  BY SumWithout
<1>1. {} \in G
  <2>1. \A p \in P : Group({})[p] = 0
    <3>1. \A p \in P : Of({}, p) = {}
      OBVIOUS
    <3> QED BY <3>1, SumOfNothing
  <2> DEFINE H == {s \in SUBSET P : SumFunctionOnSet(Group({}), s) = 0}
             k == Group({})
  <2>2. {} \in H
    BY SumOfNothing
  <2>3. ASSUME NEW s \in SUBSET P, NEW x \in P \ s, s \in H PROVE s \cup {x} \in H
    <3>1. \A p \in P : k[p] \in Nat /\ k[p] = 0
      BY <2>1
    <3> HIDE DEF k
    <3>2. SumFunctionOnSet(k, s \cup {x}) = k[x] + SumFunctionOnSet(k, s)
      BY <3>1, SumWith
    <3>3. SumFunctionOnSet(k, s) = 0
      BY <2>3 DEF k
    <3>4. SumFunctionOnSet(k, s \cup {x}) = 0
      BY <3>1, <3>2, <3>3
    <3> QED BY <3>4 DEF k
  <2>4. SUBSET P \subseteq H
    <3> HIDE DEF H
    <3> QED BY <2>2, <2>3, SetsOneByOne
  <2> QED BY <2>4, SumOfNothing
<1>2. ASSUME NEW s \in SUBSET D, NEW x \in D \ s, s \in G PROVE s \cup {x} \in G
  <2> DEFINE k == Group(s)
             l == Group(s \cup {x})
             o == own[x]
  <2>1. o \in P
    OBVIOUS
  <2>2. \A p \in P : k[p] = SumFunctionOnSet(f, Of(s, p)) /\ l[p] = SumFunctionOnSet(f, Of(s \cup {x}, p))
    OBVIOUS
  <2>3. Of(s, o) \in SUBSET D /\ x \in D \ Of(s, o) /\ Of(s \cup {x}, o) = Of(s, o) \cup {x}
    OBVIOUS
  <2>4. \A p \in P \ {o} : Of(s \cup {x}, p) = Of(s, p)
    OBVIOUS
  <2>5. /\ SumFunctionOnSet(f, Of(s, o) \cup {x}) = f[x] + SumFunctionOnSet(f, Of(s, o))
        /\ SumFunctionOnSet(f, Of(s, o)) \in Nat /\ f[x] \in Nat
    <3> HIDE DEF Of, o
    <3> QED BY <2>3, SumWith, SumWithout
  <2>6. /\ l[o] = f[x] + k[o] /\ k[o] \in Nat /\ l[o] \in Nat
    <3> HIDE DEF k, l, Of, o
    <3>1. k[o] = SumFunctionOnSet(f, Of(s, o)) /\ l[o] = SumFunctionOnSet(f, Of(s \cup {x}, o))
      BY <2>1, <2>2
    <3>2. l[o] = SumFunctionOnSet(f, Of(s, o) \cup {x})
      BY <2>3, <3>1
    <3> QED BY <2>5, <3>1, <3>2
  <2>7. \A p \in P \ {o} : k[p] \in Nat /\ l[p] = k[p]
    BY <1>0, <2>2, <2>4
  <2> HIDE DEF k, l, Of, o
  <2>8. /\ SumFunctionOnSet(l, P) + k[o] = SumFunctionOnSet(k, P) + l[o]
        /\ SumFunctionOnSet(k, P) \in Nat /\ SumFunctionOnSet(l, P) \in Nat
    BY <2>1, <2>6, <2>7, SumChanged
  <2>9. SumFunctionOnSet(f, s \cup {x}) = f[x] + SumFunctionOnSet(f, s)
    BY SumWith
  <2>10. SumFunctionOnSet(k, P) = SumFunctionOnSet(f, s)
    BY <1>2 DEF k
  <2>11. SumFunctionOnSet(l, P) = SumFunctionOnSet(f, s \cup {x})
    BY <2>5, <2>6, <2>8, <2>9, <2>10
  <2> QED BY <2>11 DEF l
<1>3. SUBSET D \subseteq G
  <2> HIDE DEF G
  <2> QED BY <1>1, <1>2, SetsOneByOne
<1> QED BY <1>3
=============================================================================
