--------------------------- MODULE CalculationProofs ---------------------------
(***************************************************************************)
(* What is proved of four of the page's calculations, for every schedule,    *)
(* calendar, network and state of progress.  Of EVM.js: the predictions end  *)
(* up where the links allow, and the earned-value curve never falls.  Of     *)
(* Completionprediction.js: the service's assessments change the options     *)
(* they are about, and no other.  Of CommunityGroups.js: the metrics of the  *)
(* groups count every known link once.  Of PathScripts.js: the search of a   *)
(* large network loses no path as long as it trims nothing, and its heaps    *)
(* give out the best item first.                                             *)
(* They rest on recursive definitions, the count of working days, the        *)
(* decay's weights, Kahn's sort, the propagation along the order, the sums,  *)
(* the ranking and the plan, the pushes, the simple paths and the loops that *)
(* sift, of which it is proved first that they have a result.                *)
(***************************************************************************)
EXTENDS EvmPrediction, CompletionRecovery, GroupMetrics, FrontPaths, FiniteSetTheorems, SequenceTheorems, WellFoundedInduction, TLAPS

-----------------------------------------------------------------------------
(* Recursion over finite sets. *)

\* A set of numbers with 0 that is closed under successor, up to n, has all up to n.
LEMMA UpTo ==
    ASSUME NEW G, NEW n \in Nat, 0 \in G, \A k \in 0..(n - 1) : k \in G => k + 1 \in G
    PROVE  n \in G
<1>. SUFFICES ASSUME n \notin G PROVE FALSE
  OBVIOUS
<1>. DEFINE Bad == {k \in 0..n : k \notin G}
<1>1. Bad \subseteq Nat /\ n \in Bad
  OBVIOUS
<1>2. PICK m \in Bad : \A y \in Bad : <<y, m>> \notin OpToRel(<, Nat)
  BY <1>1, NatLessThanWellFounded, WFMin, Zenon
<1>3. \A y \in Bad : ~(y < m)
  BY <1>1, <1>2 DEF OpToRel
<1>4. m # 0 /\ m - 1 \in 0..(n - 1) /\ m - 1 \notin Bad
  BY <1>3
<1>. QED
  BY <1>4

\* What is true of no subset with an element is true of none: take one that is smallest.
LEMMA SmallestSubset ==
    ASSUME NEW S, IsFiniteSet(S), NEW Bad, Bad \subseteq SUBSET S, Bad # {}
    PROVE  \E s \in Bad : \A x \in s : s \ {x} \notin Bad
<1>. DEFINE sizes == {Cardinality(s) : s \in Bad}
<1>1. \A s \in SUBSET S : IsFiniteSet(s) /\ Cardinality(s) \in Nat
  BY FS_Subset, FS_CardinalityType
<1>2. sizes \subseteq Nat /\ sizes # {} /\ \A s \in Bad : Cardinality(s) \in sizes
  BY <1>1
<1>3. \A m \in sizes : \E s \in Bad : Cardinality(s) = m
  OBVIOUS
<1>. HIDE DEF sizes
<1>4. PICK m \in sizes : \A y \in sizes : <<y, m>> \notin OpToRel(<, Nat)
  <2>1. sizes \subseteq Nat /\ sizes # {}
    BY <1>2
  <2>. QED
    BY <2>1, NatLessThanWellFounded, WFMin, Zenon
<1>5. \A y \in sizes : ~(y < m)
  BY <1>2, <1>4 DEF OpToRel
<1>6. PICK s \in Bad : Cardinality(s) = m
  BY <1>3
<1>7. ASSUME NEW x \in s, s \ {x} \in Bad PROVE FALSE
  <2>1. Cardinality(s \ {x}) = Cardinality(s) - 1
    BY <1>1, FS_RemoveElement
  <2>2. Cardinality(s \ {x}) \in sizes /\ Cardinality(s) \in Nat
    BY <1>1, <1>2, <1>7
  <2>. QED
    BY <1>5, <1>6, <2>1, <2>2
<1>. QED
  BY <1>6, <1>7

\* Folding a finite set, an element at a time, has a result.
IsFold(f, S, T, base, pick, op) ==
    /\ f \in [SUBSET S -> T]
    /\ \A s \in SUBSET S : f[s] = IF s = {} THEN base ELSE op[<<s, f[s \ {pick[s]}]>>]
LEMMA SetRecursion ==
    ASSUME NEW S, IsFiniteSet(S), NEW T, NEW base \in T, NEW pick, \A s \in SUBSET S : s # {} => pick[s] \in s,
           NEW op \in [((SUBSET S) \ {{}}) \X T -> T]
    PROVE  \E f : IsFold(f, S, T, base, pick, op)
<1>. DEFINE Body(f, s) == IF s = {} THEN base ELSE op[<<s, f[s \ {pick[s]}]>>]
            Right(n, f) == \A s \in SUBSET S : Cardinality(s) <= n => f[s] = Body(f, s)
            G == {n \in Nat : \E f \in [SUBSET S -> T] : Right(n, f)}
<1>1. \A s \in SUBSET S : IsFiniteSet(s) /\ Cardinality(s) \in Nat /\ Cardinality(s) <= Cardinality(S)
  BY FS_Subset, FS_CardinalityType
<1>2. \A s \in SUBSET S : s # {} => s \ {pick[s]} \in SUBSET S /\ Cardinality(s \ {pick[s]}) = Cardinality(s) - 1
  BY <1>1, FS_RemoveElement
<1>3. 0 \in G
  <2>. DEFINE f == [s \in SUBSET S |-> base]
  <2>1. f \in [SUBSET S -> T]
    OBVIOUS
  <2>2. \A s \in SUBSET S : Cardinality(s) <= 0 => s = {}
    BY <1>1, FS_EmptySet
  <2>3. Right(0, f)
    BY <2>2
  <2>. QED
    BY <2>1, <2>3
<1>4. ASSUME NEW k \in Nat, k \in G PROVE k + 1 \in G
  <2>1. PICK f \in [SUBSET S -> T] : Right(k, f)
    BY <1>4
  <2>. DEFINE g == [s \in SUBSET S |-> Body(f, s)]
  <2>2. ASSUME NEW s \in SUBSET S PROVE Body(f, s) \in T
    <3>1. CASE s = {}
      BY <3>1
    <3>2. CASE s # {}
      BY <3>2, <1>2
    <3>. QED
      BY <3>1, <3>2
  <2>3. g \in [SUBSET S -> T]
    BY <2>2
  <2>4. ASSUME NEW s \in SUBSET S, Cardinality(s) <= k PROVE g[s] = f[s]
    BY <2>1, <2>4
  <2>5. ASSUME NEW s \in SUBSET S, Cardinality(s) <= k + 1 PROVE g[s] = Body(g, s)
    <3>1. CASE s = {}
      BY <3>1
    <3>2. CASE s # {}
      <4>1. Cardinality(s \ {pick[s]}) <= k
        BY <1>1, <1>2, <2>5, <3>2
      <4>. QED
        BY <1>2, <2>4, <3>2, <4>1
    <3>. QED
      BY <3>1, <3>2
  <2>. HIDE DEF g
  <2>6. \E q \in [SUBSET S -> T] : Right(k + 1, q)
    BY <2>3, <2>5
  <2>7. k + 1 \in Nat
    OBVIOUS
  <2>. QED
    BY <2>6, <2>7, Zenon
<1>5. Cardinality(S) \in G
  <2>. HIDE DEF G
  <2>. QED
    BY <1>1, <1>3, <1>4, UpTo
<1>6. PICK f \in [SUBSET S -> T] : Right(Cardinality(S), f)
  BY <1>5
<1>7. \A s \in SUBSET S : f[s] = Body(f, s)
  BY <1>1, <1>6
<1>. QED
  BY <1>7 DEF IsFold

-----------------------------------------------------------------------------
(* Sums. *)

\* The terms are taken one by one, in an order that is the same for every sum.
One(s) == CHOOSE x \in s : TRUE
IsSum(sum, f, W) ==
    /\ sum \in [SUBSET W -> Int] /\ sum[{}] = 0
    /\ \A s \in SUBSET W : s # {} => sum[s] = f[One(s)] + sum[s \ {One(s)}]

LEMMA SumUnfolds ==
    ASSUME NEW W, IsFiniteSet(W), NEW f, \A i \in W : f[i] \in Int
    PROVE  \E sum : IsSum(sum, f, W) /\ sum[W] = SumFunctionOnSet(f, W)
<1>. DEFINE pick == [s \in SUBSET W |-> One(s)]
            op == [q \in ((SUBSET W) \ {{}}) \X Int |-> f[One(q[1])] + q[2]]
            iter == CHOOSE g : g = [s \in SUBSET W |-> IF s = {} THEN 0
                                      ELSE LET x == CHOOSE x \in s : TRUE IN f[x] + g[s \ {x}]]
<1>1. \A s : s # {} => One(s) \in s
  BY DEF One
<1>2. pick = [s \in SUBSET W |-> One(s)]
  OBVIOUS
<1>3. /\ op \in [((SUBSET W) \ {{}}) \X Int -> Int]
      /\ \A s \in (SUBSET W) \ {{}}, y \in Int : op[<<s, y>>] = f[One(s)] + y
  <2>1. \A s \in (SUBSET W) \ {{}} : f[One(s)] \in Int
    BY <1>1
  <2>. QED
    BY <2>1
<1>. HIDE DEF op, pick
<1>4. PICK h : IsFold(h, W, Int, 0, pick, op)
  <2>1. \A s \in SUBSET W : s # {} => pick[s] \in s
    BY <1>1, <1>2
  <2>2. 0 \in Int /\ op \in [((SUBSET W) \ {{}}) \X Int -> Int]
    BY <1>3
  <2>. QED
    BY <2>1, <2>2, SetRecursion
<1>5. ASSUME NEW s \in SUBSET W PROVE h[s] = IF s = {} THEN 0 ELSE LET x == CHOOSE x \in s : TRUE IN f[x] + h[s \ {x}]
  <2>. DEFINE x == One(s)
  <2>1. CASE s = {}
    BY <1>4, <2>1 DEF IsFold
  <2>2. CASE s # {}
    <3>1. x \in s /\ x \in W /\ pick[s] = x /\ s \ {x} \in SUBSET W
      BY <1>1, <1>2, <2>2
    <3>2. h[s] = op[<<s, h[s \ {x}]>>]
      BY <1>4, <2>2, <3>1 DEF IsFold
    <3>3. h[s \ {x}] \in Int
      BY <1>4, <3>1 DEF IsFold
    <3>4. h[s] = f[x] + h[s \ {x}]
      BY <1>3, <2>2, <3>2, <3>3
    <3>5. x = CHOOSE y \in s : TRUE
      BY DEF x, One
    <3>. QED
      BY <2>2, <3>4, <3>5, Zenon
  <2>. QED
    BY <2>1, <2>2
<1>6. h = [s \in SUBSET W |-> IF s = {} THEN 0 ELSE LET x == CHOOSE x \in s : TRUE IN f[x] + h[s \ {x}]]
  <2>1. h = [s \in SUBSET W |-> h[s]]
    BY <1>4 DEF IsFold
  <2>. QED
    BY <1>5, <2>1, Zenon
<1>7. iter = [s \in SUBSET W |-> IF s = {} THEN 0 ELSE LET x == CHOOSE x \in s : TRUE IN f[x] + iter[s \ {x}]]
  BY <1>6, Zenon
<1>8. SumFunctionOnSet(f, W) = iter[W]
  BY Zenon DEF SumFunctionOnSet, FoldFunctionOnSet, MapThenFoldSet
<1>. HIDE DEF iter
<1>9. iter[{}] = 0
  BY <1>7
<1>10. \A s \in SUBSET W : s # {} => iter[s] = f[One(s)] + iter[s \ {One(s)}]
  BY <1>7, Zenon DEF One
<1>11. \A s \in SUBSET W : iter[s] \in Int
  <2>. DEFINE Bad == {s \in SUBSET W : iter[s] \notin Int}
  <2>. SUFFICES ASSUME Bad # {} PROVE FALSE
    OBVIOUS
  <2>1. Bad \subseteq SUBSET W
    OBVIOUS
  <2>2. PICK s \in Bad : \A x \in s : s \ {x} \notin Bad
    BY <2>1, SmallestSubset, Zenon
  <2>3. s \in SUBSET W /\ iter[s] \notin Int
    OBVIOUS
  <2>4. s # {}
    <3>1. 0 \in Int
      OBVIOUS
    <3>. QED
      BY <1>9, <2>3, <3>1, Zenon
  <2>. DEFINE x == One(s)
              r == s \ {x}
  <2>5. x \in s /\ r \in SUBSET W /\ r \notin Bad
    BY <1>1, <2>2, <2>3, <2>4
  <2>6. iter[s] = f[x] + iter[r]
    BY <1>10, <2>3, <2>4
  <2>. HIDE DEF x, r
  <2>7. iter[r] \in Int /\ f[x] \in Int
    BY <2>3, <2>5
  <2>. QED
    BY <2>3, <2>6, <2>7
<1>12. iter \in [SUBSET W -> Int]
  BY <1>7, <1>11
<1>. QED
  BY <1>8, <1>9, <1>10, <1>12 DEF IsSum

\* Two sums are compared on the smallest set on which they do not compare.
Keeps(R, F, f, G, g, W) ==
    \A s \in SUBSET W, x \in W :
        F[s] = f[x] + F[s \ {x}] /\ G[s] = g[x] + G[s \ {x}] /\ <<F[s \ {x}], G[s \ {x}]>> \in R => <<F[s], G[s]>> \in R
LEMMA SmallestUncompared ==
    ASSUME NEW W, IsFiniteSet(W), NEW F, NEW f, IsSum(F, f, W), NEW G, NEW g, IsSum(G, g, W), NEW R, <<0, 0>> \in R,
           Keeps(R, F, f, G, g, W)
    PROVE  <<F[W], G[W]>> \in R
<1>. DEFINE Bad == {s \in SUBSET W : <<F[s], G[s]>> \notin R}
<1>. SUFFICES ASSUME Bad # {} PROVE FALSE
  OBVIOUS
<1>1. Bad \subseteq SUBSET W
  OBVIOUS
<1>2. PICK s \in Bad : \A x \in s : s \ {x} \notin Bad
  BY <1>1, SmallestSubset, Zenon
<1>3. s \in SUBSET W /\ <<F[s], G[s]>> \notin R
  OBVIOUS
<1>4. s # {}
  BY <1>3 DEF IsSum
<1>. DEFINE x == One(s)
            r == s \ {x}
<1>5. x \in s /\ x \in W /\ r \in SUBSET W /\ r \notin Bad
  <2>1. x \in s
    BY <1>4 DEF One
  <2>. HIDE DEF x
  <2>. QED
    BY <1>2, <1>3, <2>1
<1>6. F[s] = f[x] + F[r] /\ G[s] = g[x] + G[r]
  BY <1>3, <1>4 DEF IsSum
<1>. HIDE DEF x
<1>7. <<F[r], G[r]>> \in R
  BY <1>5
<1>. QED
  BY <1>3, <1>5, <1>6, <1>7, Zenon DEF Keeps

\* A sum keeps the order of its terms.
LEMMA SumsCompare ==
    ASSUME NEW W, IsFiniteSet(W), NEW f, NEW g, \A i \in W : f[i] \in Int /\ g[i] \in Int /\ f[i] <= g[i]
    PROVE  /\ SumFunctionOnSet(f, W) \in Int /\ SumFunctionOnSet(g, W) \in Int
           /\ SumFunctionOnSet(f, W) <= SumFunctionOnSet(g, W)
<1>1. PICK F : IsSum(F, f, W) /\ F[W] = SumFunctionOnSet(f, W)
  BY SumUnfolds
<1>2. PICK G : IsSum(G, g, W) /\ G[W] = SumFunctionOnSet(g, W)
  BY SumUnfolds
<1>. DEFINE R == {p \in Int \X Int : p[1] <= p[2]}
<1>3. <<0, 0>> \in R
  OBVIOUS
<1>4. ASSUME NEW s \in SUBSET W, NEW x \in W, F[s] = f[x] + F[s \ {x}], G[s] = g[x] + G[s \ {x}], <<F[s \ {x}], G[s \ {x}]>> \in R
      PROVE  <<F[s], G[s]>> \in R
  <2>1. f[x] \in Int /\ g[x] \in Int /\ f[x] <= g[x]
    OBVIOUS
  <2>2. F[s \ {x}] \in Int /\ G[s \ {x}] \in Int /\ F[s \ {x}] <= G[s \ {x}]
    BY <1>4
  <2>. QED
    BY <1>4, <2>1, <2>2
<1>. HIDE DEF R
<1>5. <<F[W], G[W]>> \in R
  <2>1. Keeps(R, F, f, G, g, W)
    BY <1>4, Zenon DEF Keeps
  <2>. QED
    BY <1>1, <1>2, <1>3, <2>1, SmallestUncompared
<1>. QED
  BY <1>1, <1>2, <1>5 DEF R

\* A sum of multiples is the multiple of the sum.
LEMMA SumOfMultiples ==
    ASSUME NEW W, IsFiniteSet(W), NEW f, \A i \in W : f[i] \in Int, NEW c \in Int,
           NEW g, \A i \in W : g[i] = c * f[i]
    PROVE  SumFunctionOnSet(g, W) = c * SumFunctionOnSet(f, W)
<1>1. PICK F : IsSum(F, f, W) /\ F[W] = SumFunctionOnSet(f, W)
  BY SumUnfolds
<1>2. \A i \in W : g[i] \in Int
  OBVIOUS
<1>3. PICK G : IsSum(G, g, W) /\ G[W] = SumFunctionOnSet(g, W)
  BY <1>2, SumUnfolds
<1>. DEFINE R == {p \in Int \X Int : p[2] = c * p[1]}
<1>4. <<0, 0>> \in R
  OBVIOUS
<1>5. ASSUME NEW s \in SUBSET W, NEW x \in W, F[s] = f[x] + F[s \ {x}], G[s] = g[x] + G[s \ {x}], <<F[s \ {x}], G[s \ {x}]>> \in R
      PROVE  <<F[s], G[s]>> \in R
  <2>1. f[x] \in Int /\ g[x] = c * f[x]
    OBVIOUS
  <2>2. F[s \ {x}] \in Int /\ G[s \ {x}] = c * F[s \ {x}]
    BY <1>5
  <2>3. \A a, b \in Int : c * a + c * b = c * (a + b) /\ c * (a + b) \in Int
    OBVIOUS
  <2>4. F[s] \in Int /\ G[s] = c * F[s] /\ G[s] \in Int
    BY <1>5, <2>1, <2>2, <2>3
  <2>. QED
    BY <2>4
<1>. HIDE DEF R
<1>6. <<F[W], G[W]>> \in R
  <2>1. Keeps(R, F, f, G, g, W)
    BY <1>5, Zenon DEF Keeps
  <2>. QED
    BY <1>1, <1>3, <1>4, <2>1, SmallestUncompared
<1>. QED
  BY <1>1, <1>3, <1>6 DEF R
-----------------------------------------------------------------------------
(* Numbers. *)

\* A set of naturals has a least.
LEMMA LeastOf ==
    ASSUME NEW S, S \subseteq Nat, S # {}
    PROVE  \E m \in S : \A x \in S : m <= x
<1>1. PICK m \in S : \A y \in S : <<y, m>> \notin OpToRel(<, Nat)
  BY NatLessThanWellFounded, WFMin, Zenon
<1>2. \A y \in S : ~(y < m)
  BY <1>1 DEF OpToRel
<1>. QED
  BY <1>2

\* A finite set of integers has a greatest.
LEMMA FiniteGreatest ==
    ASSUME NEW S, S \subseteq Int, S # {}, IsFiniteSet(S)
    PROVE  \E m \in S : \A x \in S : x <= m
<1>. DEFINE Bad == {t \in SUBSET S : t # {} /\ ~\E m \in t : \A x \in t : x <= m}
<1>. SUFFICES ASSUME Bad # {} PROVE FALSE
  OBVIOUS
<1>1. Bad \subseteq SUBSET S
  OBVIOUS
<1>2. PICK t \in Bad : \A x \in t : t \ {x} \notin Bad
  BY <1>1, SmallestSubset, Zenon
<1>3. PICK x \in t : TRUE
  OBVIOUS
<1>4. CASE t \ {x} = {}
  <2>1. \A y \in t : y = x
    BY <1>4
  <2>. QED
    BY <1>3, <2>1
<1>5. CASE t \ {x} # {}
  <2>1. t \ {x} \in SUBSET S /\ t \ {x} \notin Bad
    BY <1>2, <1>3
  <2>2. PICK m \in t \ {x} : \A y \in t \ {x} : y <= m
    BY <1>5, <2>1
  <2>3. m \in Int /\ x \in Int /\ t \subseteq Int
    BY <1>3
  <2>4. \A y \in t : y <= x \/ y <= m
    BY <2>2, <2>3
  <2>5. CASE m <= x
    <3>1. \A y \in t : y <= x
      BY <2>3, <2>4, <2>5
    <3>. QED
      BY <1>3, <3>1
  <2>6. CASE x <= m
    <3>1. \A y \in t : y <= m
      BY <2>3, <2>4, <2>6
    <3>. QED
      BY <3>1
  <2>. QED
    BY <2>3, <2>5, <2>6
<1>. QED
  BY <1>4, <1>5

\* So is an image of it finite.
LEMMA FiniteImage ==
    ASSUME NEW S, IsFiniteSet(S), NEW f
    PROVE  IsFiniteSet({f[x] : x \in S})
<1>. DEFINE T == {f[x] : x \in S}
            g == [x \in S |-> f[x]]
<1>1. g \in [S -> T]
  OBVIOUS
<1>2. \A t \in T : \E x \in S : g[x] = t
  OBVIOUS
<1>3. g \in Surjection(S, T)
  BY <1>1, <1>2 DEF Surjection
<1>. HIDE DEF g, T
<1>4. IsFiniteSet(T)
  BY <1>3, FS_Surjection
<1>. QED
  BY <1>4 DEF T

\* And a least.
LEMMA FiniteLeast ==
    ASSUME NEW S, S \subseteq Int, S # {}, IsFiniteSet(S)
    PROVE  \E m \in S : \A x \in S : m <= x
<1>. DEFINE negated == [x \in S |-> -x]
            M == {negated[x] : x \in S}
<1>1. IsFiniteSet(M)
  BY FiniteImage
<1>2. \A x \in S : x \in Int /\ negated[x] = -x
  OBVIOUS
<1>. HIDE DEF negated
<1>3. M \subseteq Int /\ M # {} /\ \A x \in S : -x \in M
  <2>1. \A x \in S : negated[x] \in M
    OBVIOUS
  <2>2. \A y \in M : \E x \in S : y = negated[x]
    OBVIOUS
  <2>. HIDE DEF M
  <2>3. M \subseteq Int
    BY <1>2, <2>2
  <2>4. M # {}
    BY <2>1
  <2>. QED
    BY <1>2, <2>1, <2>3, <2>4
<1>4. \A y \in M : \E x \in S : y = -x
  BY <1>2
<1>. HIDE DEF M
<1>5. PICK m \in M : \A y \in M : y <= m
  BY <1>1, <1>3, FiniteGreatest
<1>6. PICK x \in S : m = -x
  BY <1>4
<1>7. \A y \in S : -y <= -x
  BY <1>3, <1>5, <1>6
<1>8. \A y \in S : x <= y
  BY <1>2, <1>7
<1>. QED
  BY <1>8

\* Recursion over the naturals.
Steps(f, D, T, base, op) ==
    f \in [D -> T] /\ f[0] = base /\ \A n \in Nat : n + 1 \in D => f[n + 1] = op[<<n, f[n]>>]
LEMMA NatRecursion ==
    ASSUME NEW T, NEW base \in T, NEW op \in [Nat \X T -> T]
    PROVE  \E f : Steps(f, Nat, T, base, op)
<1>1. ASSUME NEW n \in Nat PROVE \E f : Steps(f, 0..n, T, base, op)
  <2>. DEFINE G == {k \in Nat : \E f : Steps(f, 0..k, T, base, op)}
  <2>1. 0 \in G
    <3>1. Steps([k \in 0..0 |-> base], 0..0, T, base, op)
      BY DEF Steps
    <3>. QED
      BY <3>1
  <2>2. ASSUME NEW k \in Nat, k \in G PROVE k + 1 \in G
    <3>1. PICK f : Steps(f, 0..k, T, base, op)
      BY <2>2
    <3>. DEFINE g == [j \in 0..(k + 1) |-> IF j = k + 1 THEN op[<<k, f[k]>>] ELSE f[j]]
    <3>2. f \in [0..k -> T] /\ f[k] \in T /\ op[<<k, f[k]>>] \in T
      BY <3>1 DEF Steps
    <3>3. g \in [0..(k + 1) -> T]
      BY <3>2
    <3>4. g[0] = base
      BY <3>1 DEF Steps
    <3>5. ASSUME NEW j \in Nat, j + 1 \in 0..(k + 1) PROVE g[j + 1] = op[<<j, g[j]>>]
      <4>1. CASE j = k
        <5>1. g[j + 1] = op[<<k, f[k]>>] /\ g[j] = f[k]
          BY <4>1
        <5>. QED
          BY <4>1, <5>1
      <4>2. CASE j # k
        <5>1. j \in 0..k /\ j + 1 \in 0..k /\ g[j + 1] = f[j + 1] /\ g[j] = f[j]
          BY <4>2, <3>5
        <5>. QED
          BY <3>1, <5>1 DEF Steps
      <4>. QED
        BY <4>1, <4>2
    <3>. HIDE DEF g
    <3>6. Steps(g, 0..(k + 1), T, base, op)
      BY <3>3, <3>4, <3>5 DEF Steps
    <3>. QED
      BY <3>6
  <2>. HIDE DEF G
  <2>3. n \in G
    BY <2>1, <2>2, UpTo
  <2>. QED
    BY <2>3 DEF G
<1>2. ASSUME NEW n \in Nat, NEW m \in Nat, n <= m, NEW f, NEW g,
             Steps(f, 0..n, T, base, op), Steps(g, 0..m, T, base, op)
      PROVE  f[n] = g[n]
  <2>. DEFINE G == {k \in Nat : k <= n => f[k] = g[k]}
  <2>1. 0 \in G
    BY <1>2 DEF Steps
  <2>2. ASSUME NEW k \in 0..(n - 1), k \in G PROVE k + 1 \in G
    <3>1. k \in Nat /\ k + 1 \in 0..n /\ k + 1 \in 0..m /\ f[k] = g[k]
      BY <1>2, <2>2
    <3>2. f[k + 1] = op[<<k, f[k]>>] /\ g[k + 1] = op[<<k, g[k]>>]
      BY <1>2, <3>1 DEF Steps
    <3>. QED
      BY <3>1, <3>2
  <2>. HIDE DEF G
  <2>3. n \in G
    BY <2>1, <2>2, UpTo
  <2>. QED
    BY <2>3 DEF G
<1>. DEFINE F(n) == CHOOSE f : Steps(f, 0..n, T, base, op)
            h == [n \in Nat |-> F(n)[n]]
<1>3. \A n \in Nat : Steps(F(n), 0..n, T, base, op)
  BY <1>1, Zenon
<1>. HIDE DEF F
<1>4. h \in [Nat -> T]
  BY <1>3 DEF Steps
<1>5. h[0] = base
  BY <1>3 DEF Steps
<1>6. ASSUME NEW n \in Nat PROVE h[n + 1] = op[<<n, h[n]>>]
  <2>1. n + 1 \in Nat /\ n + 1 \in 0..(n + 1) /\ n <= n + 1
    OBVIOUS
  <2>2. F(n + 1)[n + 1] = op[<<n, F(n + 1)[n]>>]
    BY <1>3, <2>1 DEF Steps
  <2>3. F(n)[n] = F(n + 1)[n]
    BY <1>2, <1>3, <2>1
  <2>. QED
    BY <2>1, <2>2, <2>3
<1>. QED
  BY <1>4, <1>5, <1>6 DEF Steps
-----------------------------------------------------------------------------
(* The calendar: counting working days ends, whatever day it starts from. *)

\* There is a working day beyond every date.
LEMMA AnotherWorkday ==
    ASSUME NEW c \in Int, NEW step \in {1, -1}
    PROVE  \E n \in Nat \ {0} : IsWorkday(c + step * n)
<1>1. PICK w \in WorkingDays : w \in 0..6
  BY CalendarAssumption
<1>2. PICK hi \in Nat : \A h \in Holidays : h < hi
  <2>1. CASE Holidays = {}
    BY <2>1
  <2>2. CASE Holidays # {}
    <3>1. PICK m \in Holidays : \A h \in Holidays : h <= m
      BY <2>2, CalendarAssumption, FiniteGreatest
    <3>2. m \in Int /\ Holidays \subseteq Int
      BY CalendarAssumption
    <3>. DEFINE top == IF m < 0 THEN 0 ELSE m + 1
    <3>3. top \in Nat /\ \A h \in Holidays : h < top
      BY <3>1, <3>2
    <3>. QED
      BY <3>3
  <2>. QED
    BY <2>1, <2>2
<1>3. PICK lo \in Nat : \A h \in Holidays : -lo < h
  <2>1. CASE Holidays = {}
    BY <2>1
  <2>2. CASE Holidays # {}
    <3>. DEFINE negated == [h \in Holidays |-> -h]
                M == {negated[h] : h \in Holidays}
    <3>0. \A h \in Holidays : h \in Int /\ negated[h] = -h
      BY CalendarAssumption
    <3>. HIDE DEF negated
    <3>1. M \subseteq Int /\ M # {}
      BY <2>2, <3>0
    <3>2. IsFiniteSet(M)
      BY CalendarAssumption, FiniteImage
    <3>3. PICK m \in M : \A h \in M : h <= m
      BY <3>1, <3>2, FiniteGreatest
    <3>4. m \in Int /\ Holidays \subseteq Int /\ \A h \in Holidays : -h <= m
      BY <3>0, <3>1, <3>3, CalendarAssumption
    <3>. DEFINE top == IF m < 0 THEN 1 ELSE m + 1
    <3>. HIDE DEF M
    <3>5. top \in Nat /\ \A h \in Holidays : -top < h
      BY <3>4
    <3>. HIDE DEF top
    <3>. QED
      BY <3>5
  <2>. QED
    BY <2>1, <2>2
<1>4. PICK b \in Nat : -b < c /\ c < b
  <2>1. c < 0 => -c + 1 \in Nat /\ -(-c + 1) < c /\ c < -c + 1
    OBVIOUS
  <2>2. ~(c < 0) => c + 1 \in Nat /\ -(c + 1) < c /\ c < c + 1
    OBVIOUS
  <2>. QED
    BY <2>1, <2>2
<1>5. CASE step = 1
  <2>. DEFINE d == w + 7 * (b + hi + 1)
  <2>1. d \in Int /\ d % 7 = w /\ d > hi /\ d > c
    BY <1>1, <1>2, <1>4
  <2>. HIDE DEF d
  <2>2. d - c \in Nat \ {0} /\ c + 1 * (d - c) = d
    BY <2>1
  <2>3. IsWorkday(d)
    BY <1>1, <1>2, <2>1, CalendarAssumption DEF IsWorkday
  <2>. QED
    BY <1>5, <2>2, <2>3
<1>6. CASE step = -1
  <2>. DEFINE d == w - 7 * (b + lo + 1)
  <2>1. d \in Int /\ d % 7 = w /\ d < -lo /\ d < c
    BY <1>1, <1>3, <1>4
  <2>. HIDE DEF d
  <2>2. c - d \in Nat \ {0} /\ c + (-1) * (c - d) = d
    BY <2>1
  <2>3. IsWorkday(d)
    BY <1>1, <1>3, <2>1, CalendarAssumption DEF IsWorkday
  <2>. QED
    BY <1>6, <2>2, <2>3
<1>. QED
  BY <1>5, <1>6

\* The days until the next working day, in the direction counted.
IsGap(gap, step) ==
    /\ gap \in [Int -> Nat \ {0}]
    /\ \A c \in Int : IF IsWorkday(c + step) THEN gap[c] = 1 ELSE gap[c] = gap[c + step] + 1
LEMMA GapExists ==
    ASSUME NEW step \in {1, -1}
    PROVE  \E gap : IsGap(gap, step)
<1>. DEFINE On(c) == {n \in Nat \ {0} : IsWorkday(c + step * n)}
            gap == [c \in Int |-> CHOOSE n \in On(c) : \A k \in On(c) : n <= k]
<1>1. \A c \in Int : On(c) \subseteq Nat \ {0} /\ On(c) # {}
  BY AnotherWorkday
<1>. HIDE DEF On
<1>2. ASSUME NEW c \in Int PROVE gap[c] \in On(c) /\ \A k \in On(c) : gap[c] <= k
  <2>1. On(c) \subseteq Nat /\ On(c) # {}
    BY <1>1
  <2>2. \E n \in On(c) : \A k \in On(c) : n <= k
    BY <2>1, LeastOf
  <2>. QED
    BY <2>2
<1>3. gap \in [Int -> Nat \ {0}]
  BY <1>1, <1>2
<1>. HIDE DEF gap
<1>4. ASSUME NEW c \in Int, IsWorkday(c + step) PROVE gap[c] = 1
  <2>1. 1 \in On(c)
    <3>1. c + step * 1 = c + step
      OBVIOUS
    <3>. QED
      BY <1>4, <3>1 DEF On
  <2>2. gap[c] <= 1 /\ gap[c] \in Nat \ {0}
    BY <1>2, <1>3, <2>1
  <2>. QED
    BY <2>2
<1>5. ASSUME NEW c \in Int, ~IsWorkday(c + step) PROVE gap[c] = gap[c + step] + 1
  <2>. DEFINE e == c + step
  <2>1. e \in Int
    OBVIOUS
  <2>2. \A n \in Nat : c + step * (n + 1) = e + step * n
    OBVIOUS
  <2>. HIDE DEF e
  <2>3. \A n \in On(e) : n + 1 \in On(c)
    BY <2>1, <2>2 DEF On
  <2>4. 1 \notin On(c)
    <3>1. c + step * 1 = c + step
      OBVIOUS
    <3>. QED
      BY <1>5, <3>1 DEF On
  <2>5. ASSUME NEW n \in On(c) PROVE n - 1 \in On(e)
    <3>1. n \in Nat \ {0} /\ n # 1 /\ IsWorkday(c + step * n)
      BY <2>4 DEF On
    <3>2. n - 1 \in Nat \ {0} /\ (n - 1) + 1 = n
      BY <3>1
    <3>3. IsWorkday(e + step * (n - 1))
      BY <2>2, <3>1, <3>2
    <3>. QED
      BY <3>2, <3>3 DEF On
  <2>6. gap[c] \in Nat /\ gap[e] \in Nat
    BY <1>3, <2>1
  <2>7. gap[c] <= gap[e] + 1
    BY <1>2, <2>1, <2>3
  <2>8. gap[e] <= gap[c] - 1
    BY <1>2, <2>1, <2>5
  <2>9. gap[c] = gap[e] + 1
    BY <2>6, <2>7, <2>8
  <2>. QED
    BY <2>9 DEF e
<1>6. IsGap(gap, step)
  BY <1>3, <1>4, <1>5 DEF IsGap
<1>. QED
  BY <1>6

\* One step of the count, and the function that counts.
Left(c, left) == left - (IF IsWorkday(c) THEN 1 ELSE 0)
IsCount(count, step) ==
    \A c, left \in Int : count[<<c, left>>] = IF left < 1 THEN c ELSE count[<<c + step, Left(c + step, left)>>]
LEMMA CountExists ==
    ASSUME NEW step \in {1, -1}
    PROVE  \E g : g = [q \in Int \X Int |->
                  IF q[2] < 1 THEN q[1] ELSE g[<<q[1] + step, q[2] - (IF IsWorkday(q[1] + step) THEN 1 ELSE 0)>>]]
<1>1. PICK gap : IsGap(gap, step)
  BY GapExists
<1>. DEFINE next == [c \in Int |-> c + step * gap[c]]
            T == [Int -> Int]
            op == [q \in Nat \X T |-> [c \in Int |-> q[2][next[c]]]]
            base == [c \in Int |-> c]
<1>2. next \in [Int -> Int]
  BY <1>1 DEF IsGap
<1>3. base \in T /\ op \in [Nat \X T -> T]
  BY <1>2
<1>4. PICK H : Steps(H, Nat, T, base, op)
  <2>. HIDE DEF T, base, op
  <2>. QED
    BY <1>3, NatRecursion
<1>5. ASSUME NEW c \in Int PROVE H[0][c] = c
  <2>1. H[0] = base
    <3>. HIDE DEF T, base, op
    <3>. QED
      BY <1>4 DEF Steps
  <2>. QED
    BY <2>1
<1>6. ASSUME NEW n \in Nat, NEW c \in Int PROVE H[n + 1][c] = H[n][next[c]]
  <2>1. H[n] \in T /\ n + 1 \in Nat /\ H[n + 1] = op[<<n, H[n]>>]
    <3>. HIDE DEF T, base, op
    <3>1. n + 1 \in Nat
      OBVIOUS
    <3>. QED
      BY <1>4, <3>1 DEF Steps
  <2>2. op[<<n, H[n]>>] = [e \in Int |-> H[n][next[e]]]
    BY <2>1
  <2>. QED
    BY <2>1, <2>2
<1>7. ASSUME NEW c \in Int, IsWorkday(c + step) PROVE next[c] = c + step
  <2>1. gap[c] = 1
    BY <1>1, <1>7 DEF IsGap
  <2>. QED
    BY <2>1
<1>8. ASSUME NEW c \in Int, ~IsWorkday(c + step) PROVE next[c] = next[c + step]
  <2>1. c + step \in Int /\ gap[c] = gap[c + step] + 1 /\ gap[c + step] \in Nat
    BY <1>1, <1>8 DEF IsGap
  <2>2. next[c] = c + step * gap[c] /\ next[c + step] = (c + step) + step * gap[c + step]
    BY <2>1
  <2>. HIDE DEF next
  <2>3. CASE step = 1
    BY <2>1, <2>2, <2>3
  <2>4. CASE step = -1
    BY <2>1, <2>2, <2>4
  <2>. QED
    BY <2>3, <2>4
<1>. HIDE DEF next, T, base, op
<1>. DEFINE g == [q \in Int \X Int |-> IF q[2] < 1 THEN q[1] ELSE H[q[2]][q[1]]]
<1>9. \A c, left \in Int : g[<<c, left>>] = IF left < 1 THEN c ELSE H[left][c]
  OBVIOUS
<1>10. ASSUME NEW c \in Int, NEW left \in Int
       PROVE  g[<<c, left>>] = IF left < 1 THEN c ELSE g[<<c + step, left - (IF IsWorkday(c + step) THEN 1 ELSE 0)>>]
  <2>. HIDE DEF g
  <2>0. c + step \in Int
    OBVIOUS
  <2>1. CASE left < 1
    BY <1>9, <2>1
  <2>2. CASE ~(left < 1)
    <3>1. left - 1 \in Nat /\ left - 1 \in Int /\ (left - 1) + 1 = left
      BY <2>2
    <3>2. g[<<c, left>>] = H[left][c] /\ H[left][c] = H[left - 1][next[c]]
      <4>1. g[<<c, left>>] = H[left][c]
        BY <1>9, <2>2
      <4>2. H[(left - 1) + 1][c] = H[left - 1][next[c]]
        BY <1>6, <3>1
      <4>. QED
        BY <3>1, <4>1, <4>2
    <3>3. CASE IsWorkday(c + step)
      <4>1. g[<<c, left>>] = H[left - 1][c + step]
        BY <1>7, <3>2, <3>3
      <4>2. g[<<c + step, left - 1>>] = H[left - 1][c + step]
        <5>1. CASE left - 1 < 1
          <6>1. left - 1 = 0
            BY <3>1, <5>1
          <6>2. H[left - 1][c + step] = c + step
            BY <1>5, <2>0, <6>1
          <6>. QED
            BY <1>9, <2>0, <3>1, <5>1, <6>2
        <5>2. CASE ~(left - 1 < 1)
          BY <1>9, <2>0, <3>1, <5>2
        <5>. QED
          BY <5>1, <5>2
      <4>. QED
        BY <2>2, <3>3, <4>1, <4>2
    <3>4. CASE ~IsWorkday(c + step)
      <4>1. g[<<c, left>>] = H[left - 1][next[c + step]]
        BY <1>8, <3>2, <3>4
      <4>2. H[left][c + step] = H[left - 1][next[c + step]]
        BY <1>6, <2>0, <3>1
      <4>3. g[<<c + step, left>>] = H[left][c + step]
        BY <1>9, <2>0, <2>2
      <4>4. left - 0 = left
        OBVIOUS
      <4>. QED
        BY <2>2, <3>4, <4>1, <4>2, <4>3, <4>4
    <3>. QED
      BY <3>3, <3>4
  <2>. QED
    BY <2>1, <2>2
<1>11. g = [q \in Int \X Int |->
              IF q[2] < 1 THEN q[1] ELSE g[<<q[1] + step, q[2] - (IF IsWorkday(q[1] + step) THEN 1 ELSE 0)>>]]
  BY <1>10
<1>. QED
  BY <1>11

LEMMA CountedInt ==
    ASSUME NEW d \in Int, NEW k \in Int, NEW step \in {1, -1}
    PROVE  Counted(d, k, step) \in Int
<1>. DEFINE count == CHOOSE g : g = [q \in Int \X Int |->
                  IF q[2] < 1 THEN q[1] ELSE g[<<q[1] + step, q[2] - (IF IsWorkday(q[1] + step) THEN 1 ELSE 0)>>]]
<1>1. count = [q \in Int \X Int |->
                  IF q[2] < 1 THEN q[1] ELSE count[<<q[1] + step, q[2] - (IF IsWorkday(q[1] + step) THEN 1 ELSE 0)>>]]
  BY CountExists, Zenon
<1>2. Counted(d, k, step) = count[<<d, k>>]
  BY DEF Counted
<1>. HIDE DEF count
<1>3. IsCount(count, step)
  BY <1>1 DEF IsCount, Left
<1>4. PICK gap : IsGap(gap, step)
  BY GapExists
<1>. DEFINE Bad == {left \in Nat : \E c \in Int : count[<<c, left>>] \notin Int}
<1>5. ASSUME Bad # {} PROVE FALSE
  <2>0. Bad \subseteq Nat
    OBVIOUS
  <2>1. PICK m \in Bad : \A x \in Bad : m <= x
    BY <1>5, <2>0, LeastOf
  <2>2. \A x \in Nat, c \in Int : x < m => count[<<c, x>>] \in Int
    BY <2>0, <2>1
  <2>. DEFINE Wrong == {e \in Int : count[<<e, m>>] \notin Int}
              Gaps == {gap[e] : e \in Wrong}
  <2>3. Wrong \subseteq Int /\ Wrong # {}
    BY <2>1
  <2>4. m \in Nat /\ \A e \in Int : e \notin Wrong => count[<<e, m>>] \in Int
    BY <2>1
  <2>. HIDE DEF Bad, Wrong
  <2>5. Gaps \subseteq Nat /\ Gaps # {} /\ \A e \in Wrong : gap[e] \in Gaps
    <3>1. \A e \in Wrong : gap[e] \in Nat
      BY <1>4, <2>3 DEF IsGap
    <3>. QED
      BY <2>3, <3>1
  <2>6. \A x \in Gaps : \E e \in Wrong : gap[e] = x
    OBVIOUS
  <2>. HIDE DEF Gaps
  <2>7. PICK n \in Gaps : \A x \in Gaps : n <= x
    BY <2>5, LeastOf
  <2>8. PICK c \in Wrong : gap[c] = n
    BY <2>6
  <2>9. c \in Int /\ c + step \in Int /\ count[<<c, m>>] \notin Int
    BY <2>3 DEF Wrong
  <2>10. m >= 1 /\ count[<<c, m>>] = count[<<c + step, Left(c + step, m)>>]
    <3>1. m \in Int /\ c \in Int
      BY <2>4, <2>9
    <3>2. count[<<c, m>>] = IF m < 1 THEN c ELSE count[<<c + step, Left(c + step, m)>>]
      BY <1>3, <3>1 DEF IsCount
    <3>3. ~(m < 1)
      BY <2>9, <3>2
    <3>. QED
      BY <3>1, <3>2, <3>3
  <2>11. CASE IsWorkday(c + step)
    <3>1. Left(c + step, m) = m - 1 /\ m - 1 \in Nat /\ m - 1 < m
      BY <2>4, <2>10, <2>11 DEF Left
    <3>2. count[<<c + step, m - 1>>] \in Int
      BY <2>2, <2>9, <3>1
    <3>. QED
      BY <2>9, <2>10, <3>1, <3>2
  <2>12. CASE ~IsWorkday(c + step)
    <3>1. Left(c + step, m) = m
      BY <2>4, <2>12 DEF Left
    <3>2. gap[c] = gap[c + step] + 1 /\ gap[c + step] \in Nat
      BY <1>4, <2>9, <2>12 DEF IsGap
    <3>3. c + step \notin Wrong
      BY <2>5, <2>7, <2>8, <3>2
    <3>4. count[<<c + step, m>>] \in Int
      BY <2>4, <2>9, <3>3
    <3>. QED
      BY <2>9, <2>10, <3>1, <3>4
  <2>. QED
    BY <2>11, <2>12
<1>6. CASE k < 1
  <2>1. count[<<d, k>>] = d
    BY <1>3, <1>6 DEF IsCount
  <2>. QED
    BY <1>2, <2>1
<1>7. CASE ~(k < 1)
  <2>1. k \in Nat
    BY <1>7
  <2>2. Bad = {}
    BY <1>5, Zenon
  <2>3. k \notin Bad
    BY <2>2
  <2>4. count[<<d, k>>] \in Int
    BY <2>1, <2>3
  <2>. QED
    BY <1>2, <2>4
<1>. QED
  BY <1>6, <1>7

LEMMA CalendarTypes ==
    /\ \A d, h \in Int : AddHours(d, h) \in Int
    /\ \A d, t \in Int : AddParts(d, t) \in Int /\ SubtractParts(d, t) \in Int
<1>1. \A t \in Int : CeilDiv(t, HoursPerDay) \in Int /\ CeilDiv(t, HoursPerDay * Part) \in Int
  <2>1. \A b \in Nat \ {0}, t \in Int : -((-t) \div b) \in Int
    OBVIOUS
  <2>2. HoursPerDay \in Nat \ {0} /\ HoursPerDay * Part \in Nat \ {0}
    BY CalendarAssumption DEF Part
  <2>. QED
    BY <2>1, <2>2 DEF CeilDiv
<1>2. NoDate \in Int
  BY DEF NoDate
<1>. QED
  BY <1>1, <1>2, CountedInt DEF AddHours, AddParts, SubtractParts

-----------------------------------------------------------------------------
(* The types of the measures. *)

LEMMA ClampType ==
    /\ \A a, b \in Int : Larger(a, b) \in Int /\ Smaller(a, b) \in Int /\ Or(a, b) \in Int
    /\ \A v, lo, hi \in Int : Clamp(v, lo, hi) \in Int
    /\ \A v, lo, hi \in Int : lo <= hi => lo <= Clamp(v, lo, hi) /\ Clamp(v, lo, hi) <= hi
BY DEF Larger, Smaller, Clamp, Or

LEMMA ActivityTypes ==
    ASSUME NEW a \in EvmActivity
    PROVE  /\ a.Start \in Int /\ a.Finish \in Int /\ a.ActualStart \in Int /\ a.ActualFinish \in Int
           /\ a.Duration \in Int /\ a.ActualDuration \in Int
           /\ Pct(a) \in 0..100
           /\ ForecastStart(a) \in Int /\ ForecastEnd(a) \in Int /\ ForecastHours(a) \in Int
<1>1. Pct(a) \in 0..100
  <2>1. a.PercentComplete \in Int
    BY DEF EvmActivity
  <2>. QED
    BY <2>1 DEF Pct, Normalized, Clamp, Larger, Smaller
<1>. QED
  BY <1>1, ClampType DEF EvmActivity, ForecastStart, ForecastEnd, ForecastHours

LEMMA TotalType ==
    ASSUME NEW B, B \in [DOMAIN B -> EvmActivity], IsFiniteSet(DOMAIN B), NEW f, \A i \in Worked(B) : f[i] \in Int
    PROVE  IsFiniteSet(Worked(B)) /\ SumFunctionOnSet(f, Worked(B)) \in Int
<1>1. IsFiniteSet(Worked(B))
  BY FS_Subset DEF Worked
<1>2. \A i \in Worked(B) : f[i] \in Int /\ f[i] <= f[i]
  OBVIOUS
<1>. QED
  BY <1>1, <1>2, SumsCompare

LEMMA PassedType ==
    ASSUME NEW s \in Int, NEW f \in Int, NEW d \in Int
    PROVE  Passed(s, f, d) \in Int
BY DEF Passed

LEMMA DelayTypes ==
    ASSUME NEW B, B \in [DOMAIN B -> EvmActivity], IsFiniteSet(DOMAIN B),
           NEW day \in Int, NEW end \in Int, NEW overrun \in Nat
    PROVE  Delay(B, day, end, overrun) \in [delta : Int, slip : Int]
<1>. DEFINE finished(a) == a.ActualFinish # NoDate /\ a.ActualFinish <= day
            f == [i \in Worked(B) |-> B[i].Duration * (IF finished(B[i]) THEN 100 ELSE Pct(B[i]))]
            g == [i \in Worked(B) |-> B[i].Duration * Passed(B[i].Start, B[i].Finish, day)]
            x == SumFunctionOnSet(f, Worked(B))
            y == SumFunctionOnSet(g, Worked(B))
<1>1. \A i \in Worked(B) : B[i] \in EvmActivity
  BY DEF Worked
<1>2. x \in Int
  <2>1. \A i \in Worked(B) : f[i] \in Int
    BY <1>1, ActivityTypes
  <2>. HIDE DEF f
  <2>. QED
    BY <2>1, TotalType
<1>3. y \in Int
  <2>1. \A i \in Worked(B) : g[i] \in Int
    BY <1>1, ActivityTypes, PassedType
  <2>. HIDE DEF g
  <2>. QED
    BY <2>1, TotalType
<1>4. DurationWeightedSPI(B, day) = IF y > 0 THEN (x * 100) \div y ELSE IF x > 0 THEN 200 ELSE 100
  BY DEF DurationWeightedSPI, Total, calculateBCWS_Hours
<1>. HIDE DEF x, y
<1>. DEFINE spi == DurationWeightedSPI(B, day)
            forecastFactor == 100 + overrun
            actualFactor == IF spi > 0 THEN Clamp(10000 \div spi, 50, 300) ELSE forecastFactor
            delta == Clamp((actualFactor * 100) \div forecastFactor, 50, 200)
            left == Larger(0, end - day)
            slip == Clamp((left * (Clamp(delta, 60, 200) - 100) + 50) \div 100, -180, 365)
<1>5. spi \in Int
  BY <1>2, <1>3, <1>4
<1>. HIDE DEF spi
<1>6. actualFactor \in Int
  <2>1. spi > 0 => 10000 \div spi \in Int
    BY <1>5
  <2>. QED
    BY <2>1 DEF Clamp, Larger, Smaller
<1>7. delta \in Int
  <2>. HIDE DEF actualFactor
  <2>1. (actualFactor * 100) \div forecastFactor \in Int
    BY <1>6
  <2>. QED
    BY <2>1 DEF Clamp, Larger, Smaller
<1>8. slip \in Int
  <2>. HIDE DEF delta
  <2>1. left \in Int /\ Clamp(delta, 60, 200) \in Int
    BY <1>7 DEF Clamp, Larger, Smaller
  <2>. HIDE DEF left
  <2>2. left * (Clamp(delta, 60, 200) - 100) + 50 \in Int
    BY <2>1
  <2>3. (left * (Clamp(delta, 60, 200) - 100) + 50) \div 100 \in Int
    BY <2>2
  <2>. QED
    BY <2>3 DEF Clamp, Larger, Smaller
<1>9. Delay(B, day, end, overrun) = [delta |-> delta, slip |-> slip]
  BY Zenon DEF Delay, spi
<1>. HIDE DEF delta, slip
<1>. QED
  BY <1>7, <1>8, <1>9

LEMMA EndNodeType ==
    ASSUME NEW B, DOMAIN B \subseteq Nat, DOMAIN B # {}, IsFiniteSet(DOMAIN B)
    PROVE  EndNode(B) \in DOMAIN B
<1>1. \E m \in DOMAIN B : \A x \in DOMAIN B : x <= m
  BY FiniteGreatest
<1>. QED
  BY <1>1 DEF EndNode

\* The decay has a weight for every distance.
LEMMA WeightType == \A k \in Nat : Weight[k] \in Int
<1>. DEFINE op == [q \in Nat \X Int |-> (q[2] * 85 + 50) \div 100]
<1>1. op \in [Nat \X Int -> Int] /\ \A n \in Nat, w \in Int : op[<<n, w>>] = (w * 85 + 50) \div 100
  <2>1. \A w \in Int : w * 85 + 50 \in Int
    OBVIOUS
  <2>2. \A w \in Int : (w * 85 + 50) \div 100 \in Int
    BY <2>1
  <2>. QED
    BY <2>2
<1>. HIDE DEF op
<1>2. PICK f : Steps(f, Nat, Int, 100, op)
  <2>1. 100 \in Int
    OBVIOUS
  <2>. QED
    BY <1>1, <2>1, NatRecursion
<1>3. ASSUME NEW k \in Nat PROVE f[k] = IF k = 0 THEN 100 ELSE (f[k - 1] * 85 + 50) \div 100
  <2>1. CASE k = 0
    BY <1>2, <2>1 DEF Steps
  <2>2. CASE k # 0
    <3>1. k - 1 \in Nat /\ (k - 1) + 1 = k
      BY <2>2
    <3>2. f[k - 1] \in Int /\ f[(k - 1) + 1] = op[<<k - 1, f[k - 1]>>]
      BY <1>2, <3>1 DEF Steps
    <3>. QED
      BY <1>1, <2>2, <3>1, <3>2
  <2>. QED
    BY <2>1, <2>2
<1>4. f = [k \in Nat |-> IF k = 0 THEN 100 ELSE (f[k - 1] * 85 + 50) \div 100]
  <2>1. f = [k \in Nat |-> f[k]]
    BY <1>2 DEF Steps
  <2>. QED
    BY <1>3, <2>1, Zenon
<1>5. Weight = [k \in Nat |-> IF k = 0 THEN 100 ELSE (Weight[k - 1] * 85 + 50) \div 100]
  BY <1>4, Zenon DEF Weight
<1>6. ASSUME NEW k \in Nat PROVE Weight[k] \in Int
  <2>. DEFINE G == {j \in Nat : Weight[j] \in Int}
  <2>1. 0 \in G
    BY <1>5
  <2>2. ASSUME NEW j \in Nat, j \in G PROVE j + 1 \in G
    <3>1. j + 1 \in Nat /\ j + 1 # 0 /\ (j + 1) - 1 = j
      OBVIOUS
    <3>2. Weight[j + 1] = (Weight[j] * 85 + 50) \div 100
      BY <1>5, <3>1
    <3>. QED
      BY <2>2, <3>1, <3>2
  <2>. HIDE DEF G
  <2>3. k \in G
    BY <2>1, <2>2, UpTo
  <2>. QED
    BY <2>3 DEF G
<1>. QED
  BY <1>6

LEMMA DistanceType ==
    ASSUME IsFiniteSet(IDs), NEW i \in Reached
    PROVE  Distance(i) \in Nat
<1>. DEFINE n == Cardinality(IDs)
            Reach == {k \in 0..n : i \in Within[k]}
<1>1. n \in Nat
  BY FS_CardinalityType
<1>2. Reach \subseteq Nat /\ n \in Reach
  BY <1>1 DEF Reached
<1>3. PICK m \in Reach : \A k \in Reach : m <= k
  BY <1>2, LeastOf
<1>4. m \in 0..n /\ i \in Within[m]
  OBVIOUS
<1>5. ASSUME m > 0 PROVE i \notin Within[m - 1]
  <2>1. m - 1 \in 0..n /\ ~(m <= m - 1)
    BY <1>1, <1>4, <1>5
  <2>. QED
    BY <1>3, <2>1
<1>6. \E k \in 0..n : i \in Within[k] /\ (k > 0 => i \notin Within[k - 1])
  BY <1>4, <1>5
<1>7. Distance(i) \in 0..n
  BY <1>6, Zenon DEF Distance
<1>. QED
  BY <1>7

-----------------------------------------------------------------------------
(* The propagation, a position of the order at a time. *)

Predictions == [IDs -> [start : Int, end : Int, duration : Int]]

LEMMA ScheduleTypes ==
    ASSUME IsSchedule(evmIn)
    PROVE  /\ A \in [IDs -> EvmActivity] /\ IsFiniteSet(IDs) /\ IDs \subseteq Nat /\ 0 \in IDs
           /\ \A i \in IDs : A[i] \in EvmActivity
           /\ IsFiniteSet(LinkSet) /\ \A l \in LinkSet : l.lag \in Int
           /\ status \in Int /\ evmIn.overrun \in Nat
<1>. DEFINE ls == evmIn.links
<1>1. ls \in Seq(ToSet(ls)) /\ \A k \in 1..Len(ls) : ls[k].lag \in Int
  BY DEF IsSchedule
<1>. HIDE DEF ls
<1>2. DOMAIN ls = 1..Len(ls) /\ Len(ls) \in Nat
  BY <1>1
<1>3. IsFiniteSet({ls[k] : k \in 1..Len(ls)})
  <2>1. IsFiniteSet(1..Len(ls))
    BY <1>2, FS_Interval
  <2>. QED
    BY <2>1, FiniteImage
<1>4. ToSet(ls) = {ls[k] : k \in 1..Len(ls)}
  BY <1>2 DEF ToSet
<1>5. IsFiniteSet(LinkSet) /\ \A l \in LinkSet : l.lag \in Int
  BY <1>1, <1>3, <1>4 DEF LinkSet, ls
<1>. QED
  BY <1>5 DEF IsSchedule, A, IDs, status

LEMMA RequiredTypes ==
    ASSUME IsSchedule(evmIn), NEW P \in Predictions, NEW i \in IDs
    PROVE  /\ \A l \in LinksInto(i) : Required(P, i, l) \in Int
           /\ RequiredStarts(P, i) \subseteq Int
           /\ RequiredStarts(P, i) # {} => /\ MaxRequired(P, i) \in RequiredStarts(P, i)
                                           /\ \A d \in RequiredStarts(P, i) : d <= MaxRequired(P, i)
<1>1. ASSUME NEW l \in LinksInto(i) PROVE Required(P, i, l) \in Int
  <2>1. l.lag \in Int /\ l.source \in IDs
    BY ScheduleTypes DEF LinksInto
  <2>2. P[l.source].start \in Int /\ P[l.source].end \in Int /\ P[i].duration \in Int
    BY <2>1 DEF Predictions
  <2>3. NoDate \in Int
    BY DEF NoDate
  <2>. QED
    BY <2>1, <2>2, <2>3, CalendarTypes DEF Required
<1>2. RequiredStarts(P, i) \subseteq Int
  BY <1>1 DEF RequiredStarts
<1>3. IsFiniteSet(RequiredStarts(P, i))
  <2>1. IsFiniteSet(LinksInto(i))
    BY ScheduleTypes, FS_Subset DEF LinksInto
  <2>. DEFINE r == [l \in LinksInto(i) |-> Required(P, i, l)]
  <2>2. IsFiniteSet({r[l] : l \in LinksInto(i)})
    BY <2>1, FiniteImage
  <2>3. RequiredStarts(P, i) \subseteq {r[l] : l \in LinksInto(i)}
    BY DEF RequiredStarts
  <2>. QED
    BY <2>2, <2>3, FS_Subset
<1>4. ASSUME RequiredStarts(P, i) # {}
      PROVE  /\ MaxRequired(P, i) \in RequiredStarts(P, i)
             /\ \A d \in RequiredStarts(P, i) : d <= MaxRequired(P, i)
  <2>1. \E m \in RequiredStarts(P, i) : \A d \in RequiredStarts(P, i) : d <= m
    BY <1>2, <1>3, <1>4, FiniteGreatest
  <2>. QED
    BY <2>1, Zenon DEF MaxRequired
<1>. QED
  BY <1>1, <1>2, <1>4

\* A push changes the prediction of one activity, which then starts no earlier
\* than its links ask, and takes as long as before.
LEMMA PushedMeets ==
    ASSUME IsSchedule(evmIn), NEW P \in Predictions, NEW i
    PROVE  /\ Pushed(P, i) \in Predictions
           /\ \A j \in IDs : j # i => Pushed(P, i)[j] = P[j]
           /\ \A j \in IDs : Pushed(P, i)[j].duration = P[j].duration
           /\ i \in IDs /\ A[i].ActualStart = NoDate =>
                  \A d \in RequiredStarts(P, i) : d <= Pushed(P, i)[i].start
<1>1. CASE i \in IDs /\ A[i].ActualStart = NoDate /\ \E d \in RequiredStarts(P, i) : d > P[i].start
  <2>1. MaxRequired(P, i) \in Int /\ \A d \in RequiredStarts(P, i) : d <= MaxRequired(P, i)
    BY <1>1, RequiredTypes
  <2>. DEFINE m == MaxRequired(P, i)
              e == Ending(m, P[i].duration)
  <2>2. P[i].duration \in Int
    BY <1>1 DEF Predictions
  <2>3. e \in [start : Int, end : Int, duration : Int] /\ e.start = m /\ e.duration = P[i].duration
    BY <2>1, <2>2, CalendarTypes DEF Ending, Prediction
  <2>4. Pushed(P, i) = [P EXCEPT ![i] = e]
    BY <1>1 DEF Pushed
  <2>. HIDE DEF e, m
  <2>5. DOMAIN P = IDs
    BY DEF Predictions
  <2>6. Pushed(P, i)[i] = e /\ \A j \in IDs : j # i => Pushed(P, i)[j] = P[j]
    BY <1>1, <2>4, <2>5
  <2>7. Pushed(P, i) \in Predictions
    BY <1>1, <2>3, <2>4 DEF Predictions
  <2>. QED
    BY <2>1, <2>3, <2>6, <2>7 DEF m
<1>2. CASE ~(i \in IDs /\ A[i].ActualStart = NoDate /\ \E d \in RequiredStarts(P, i) : d > P[i].start)
  <2>1. Pushed(P, i) = P
    BY <1>2 DEF Pushed
  <2>2. i \in IDs => P[i].start \in Int /\ RequiredStarts(P, i) \subseteq Int
    BY RequiredTypes DEF Predictions
  <2>. QED
    BY <1>2, <2>1, <2>2
<1>. QED
  BY <1>1, <1>2

IsPropagation(acc, s) ==
    /\ acc \in [0..Len(s) -> Predictions] /\ acc[0] = predicted
    /\ \A k \in 1..Len(s) : acc[k] = Pushed(acc[k - 1], s[k])
LEMMA PropagationUnfolds ==
    ASSUME IsSchedule(evmIn), predicted \in Predictions, NEW s, s \in Seq(ToSet(s))
    PROVE  \E acc : IsPropagation(acc, s) /\ acc[Len(s)] = FoldLeft(Pushed, predicted, s)
<1>. DEFINE D == DOMAIN s
            pick == [S \in SUBSET D |-> Max(S)]
            op == [q \in ((SUBSET D) \ {{}}) \X Predictions |-> Pushed(q[2], s[Max(q[1])])]
            iter == CHOOSE g : g = [S \in SUBSET D |-> IF S = {} THEN predicted
                                      ELSE LET x == Max(S) IN Pushed(g[S \ {x}], s[x])]
<1>1. D = 1..Len(s) /\ Len(s) \in Nat
  OBVIOUS
<1>2. IsFiniteSet(D)
  BY <1>1, FS_Interval
<1>3. \A S \in SUBSET D : S # {} => Max(S) \in S /\ \A x \in S : x <= Max(S)
  <2>. SUFFICES ASSUME NEW S \in SUBSET D, S # {} PROVE Max(S) \in S /\ \A x \in S : x <= Max(S)
    OBVIOUS
  <2>1. IsFiniteSet(S) /\ S \subseteq Int
    <3>. HIDE DEF D
    <3>1. IsFiniteSet(S)
      BY <1>2, FS_Subset
    <3>2. D \subseteq Int
      BY <1>1
    <3>. QED
      BY <3>1, <3>2
  <2>2. \E m \in S : \A x \in S : m >= x
    BY <2>1, FiniteGreatest
  <2>. QED
    BY <2>1, <2>2 DEF Max
<1>4. /\ op \in [((SUBSET D) \ {{}}) \X Predictions -> Predictions]
      /\ \A S \in (SUBSET D) \ {{}}, P \in Predictions : op[<<S, P>>] = Pushed(P, s[Max(S)])
  BY PushedMeets
<1>5. pick = [S \in SUBSET D |-> Max(S)]
  OBVIOUS
<1>. HIDE DEF op, pick, D
<1>6. PICK h : IsFold(h, D, Predictions, predicted, pick, op)
  <2>1. \A S \in SUBSET D : S # {} => pick[S] \in S
    BY <1>3, <1>5
  <2>. QED
    BY <1>2, <1>4, <2>1, SetRecursion
<1>7. ASSUME NEW S \in SUBSET D
      PROVE  h[S] = IF S = {} THEN predicted ELSE LET x == Max(S) IN Pushed(h[S \ {x}], s[x])
  <2>. DEFINE x == Max(S)
  <2>1. CASE S = {}
    BY <1>6, <2>1 DEF IsFold
  <2>2. CASE S # {}
    <3>1. x \in S /\ x \in D /\ pick[S] = x /\ S \ {x} \in SUBSET D
      BY <1>3, <1>5, <2>2
    <3>2. h[S] = op[<<S, h[S \ {x}]>>]
      BY <1>6, <2>2, <3>1 DEF IsFold
    <3>3. h[S \ {x}] \in Predictions
      BY <1>6, <3>1 DEF IsFold
    <3>4. h[S] = Pushed(h[S \ {x}], s[x])
      BY <1>4, <2>2, <3>2, <3>3
    <3>. HIDE DEF x
    <3>5. x = Max(S)
      BY DEF x
    <3>. QED
      BY <2>2, <3>4, <3>5, Zenon
  <2>. QED
    BY <2>1, <2>2
<1>8. h = [S \in SUBSET D |-> IF S = {} THEN predicted ELSE LET x == Max(S) IN Pushed(h[S \ {x}], s[x])]
  <2>1. h = [S \in SUBSET D |-> h[S]]
    BY <1>6 DEF IsFold
  <2>. QED
    BY <1>7, <2>1, Zenon
<1>9. iter = [S \in SUBSET D |-> IF S = {} THEN predicted ELSE LET x == Max(S) IN Pushed(iter[S \ {x}], s[x])]
  BY <1>8, Zenon
<1>10. FoldLeft(Pushed, predicted, s) = iter[D]
  BY Zenon DEF FoldLeft, MapThenFoldSet, D
<1>. HIDE DEF iter
<1>11. ASSUME NEW k \in 1..Len(s) PROVE iter[1..k] = Pushed(iter[1..(k - 1)], s[k])
  <2>1. 1..k \in SUBSET D /\ 1..k # {}
    BY <1>1
  <2>2. Max(1..k) = k
    <3>1. \A S \in SUBSET D : S # {} => Max(S) \in S /\ \A x \in S : x <= Max(S)
      BY <1>3
    <3>2. Max(1..k) \in 1..k /\ \A x \in 1..k : x <= Max(1..k)
      BY <2>1, <3>1, Zenon
    <3>. QED
      BY <3>2
  <2>3. (1..k) \ {k} = 1..(k - 1)
    OBVIOUS
  <2>4. iter[1..k] = Pushed(iter[(1..k) \ {Max(1..k)}], s[Max(1..k)])
    BY <1>9, <2>1, Zenon
  <2>. QED
    BY <2>2, <2>3, <2>4
<1>. DEFINE acc == [k \in 0..Len(s) |-> iter[1..k]]
<1>12. acc[0] = predicted
  <2>1. 1..0 = {} /\ {} \in SUBSET D
    OBVIOUS
  <2>2. iter[{}] = predicted
    BY <1>9, <2>1, Zenon
  <2>. QED
    BY <1>1, <2>1, <2>2
<1>13. \A k \in 1..Len(s) : acc[k] = Pushed(acc[k - 1], s[k])
  BY <1>1, <1>11
<1>14. \A k \in 0..Len(s) : acc[k] \in Predictions
  <2>. SUFFICES ASSUME NEW k \in 0..Len(s) PROVE acc[k] \in Predictions
    OBVIOUS
  <2>. DEFINE G == {j \in Nat : acc[j] \in Predictions}
  <2>1. 0 \in G
    BY <1>12
  <2>2. ASSUME NEW j \in 0..(k - 1), j \in G PROVE j + 1 \in G
    <3>1. j + 1 \in 1..Len(s) /\ (j + 1) - 1 = j /\ acc[j] \in Predictions
      BY <1>1, <2>2
    <3>. HIDE DEF acc
    <3>2. acc[j + 1] = Pushed(acc[j], s[j + 1])
      BY <1>13, <3>1
    <3>. QED
      BY <3>1, <3>2, PushedMeets
  <2>. HIDE DEF G
  <2>3. k \in G
    BY <1>1, <2>1, <2>2, UpTo
  <2>. QED
    BY <2>3 DEF G
<1>15. IsPropagation(acc, s)
  BY <1>12, <1>13, <1>14 DEF IsPropagation
<1>16. acc[Len(s)] = iter[D]
  BY <1>1
<1>. QED
  BY <1>10, <1>15, <1>16

-----------------------------------------------------------------------------
(* The order of computeTopologicalOrder. *)

Ready(S) == {i \in IDs \ S : \A l \in LinkSet : l.target = i => l.source \in S}
First(s) == CHOOSE j \in s : \A h \in s : j <= h
IsSorting(sorted) ==
    \A S \in SUBSET IDs : sorted[S] = IF Ready(S) = {} THEN <<>> ELSE <<First(Ready(S))>> \o sorted[S \cup {First(Ready(S))}]

LEMMA ReadyFirst ==
    ASSUME IsSchedule(evmIn), NEW S \in SUBSET IDs, Ready(S) # {}
    PROVE  First(Ready(S)) \in Ready(S) /\ First(Ready(S)) \in IDs \ S
<1>1. Ready(S) \subseteq Nat
  BY ScheduleTypes DEF Ready
<1>2. \E j \in Ready(S) : \A h \in Ready(S) : j <= h
  BY <1>1, LeastOf
<1>3. First(Ready(S)) \in Ready(S)
  BY <1>2, Zenon DEF First
<1>. QED
  BY <1>3 DEF Ready

\* The sort is a recursion over the activities that are left.
LEMMA SortingExists ==
    ASSUME IsSchedule(evmIn)
    PROVE  \E sorted : IsSorting(sorted) /\ computeTopologicalOrder = sorted[{}]
<1>. DEFINE T == Seq(IDs)
            Rest(s) == Ready(IDs \ s)
            pick == [s \in SUBSET IDs |-> IF Rest(s) # {} THEN First(Rest(s)) ELSE One(s)]
            op == [q \in ((SUBSET IDs) \ {{}}) \X T |-> IF Rest(q[1]) = {} THEN <<>> ELSE <<First(Rest(q[1]))>> \o q[2]]
<1>1. \A s \in SUBSET IDs : Rest(s) # {} => First(Rest(s)) \in s
  BY ReadyFirst
<1>2. \A s \in SUBSET IDs : s # {} => pick[s] \in s
  BY <1>1 DEF One
<1>3. \A s \in (SUBSET IDs) \ {{}}, q \in T : (IF Rest(s) = {} THEN <<>> ELSE <<First(Rest(s))>> \o q) \in T
  <2>1. \A x \in IDs, q \in T : <<x>> \o q \in T
    OBVIOUS
  <2>2. \A s \in SUBSET IDs : Rest(s) # {} => First(Rest(s)) \in IDs
    BY <1>1
  <2>3. <<>> \in T
    OBVIOUS
  <2>. HIDE DEF T, Rest
  <2>. QED
    BY <2>1, <2>2, <2>3
<1>4. /\ op \in [((SUBSET IDs) \ {{}}) \X T -> T]
      /\ \A s \in (SUBSET IDs) \ {{}}, q \in T : op[<<s, q>>] = IF Rest(s) = {} THEN <<>> ELSE <<First(Rest(s))>> \o q
  BY <1>3
<1>5. \A s \in SUBSET IDs : Rest(s) # {} => pick[s] = First(Rest(s))
  OBVIOUS
<1>. HIDE DEF pick, op, T
<1>6. PICK h : IsFold(h, IDs, T, <<>>, pick, op)
  <2>1. <<>> \in T /\ IsFiniteSet(IDs)
    BY ScheduleTypes DEF T
  <2>. QED
    BY <1>2, <1>4, <2>1, SetRecursion
<1>. DEFINE g == [S \in SUBSET IDs |-> h[IDs \ S]]
<1>7. ASSUME NEW S \in SUBSET IDs
      PROVE  g[S] = IF Ready(S) = {} THEN <<>> ELSE <<First(Ready(S))>> \o g[S \cup {First(Ready(S))}]
  <2>. DEFINE s == IDs \ S
  <2>1. s \in SUBSET IDs /\ IDs \ s = S /\ g[S] = h[s]
    OBVIOUS
  <2>2. CASE s = {}
    <3>1. Ready(S) = {}
      BY <2>2 DEF Ready
    <3>2. h[s] = <<>>
      BY <1>6, <2>2, Zenon DEF IsFold
    <3>. QED
      BY <2>1, <3>1, <3>2
  <2>3. CASE s # {}
    <3>1. h[s] = op[<<s, h[s \ {pick[s]}]>>] /\ h[s \ {pick[s]}] \in T
      BY <1>2, <1>6, <2>1, <2>3 DEF IsFold
    <3>2. h[s] = IF Rest(s) = {} THEN <<>> ELSE <<First(Rest(s))>> \o h[s \ {pick[s]}]
      BY <1>4, <2>1, <2>3, <3>1
    <3>3. Rest(s) = Ready(S)
      BY <2>1
    <3>4. ASSUME Ready(S) # {} PROVE h[s \ {pick[s]}] = g[S \cup {First(Ready(S))}]
      <4>1. pick[s] = First(Ready(S)) /\ S \cup {First(Ready(S))} \in SUBSET IDs
        BY <1>1, <1>5, <2>1, <3>3, <3>4
      <4>2. s \ {pick[s]} = IDs \ (S \cup {First(Ready(S))})
        BY <4>1
      <4>. QED
        BY <4>1, <4>2
    <3>. QED
      BY <2>1, <3>2, <3>3, <3>4
  <2>. QED
    BY <2>2, <2>3
<1>. DEFINE sorted == CHOOSE f : f = [S \in SUBSET IDs |->
                          LET next == {i \in IDs \ S : \A l \in LinkSet : l.target = i => l.source \in S}
                          IN  IF next = {} THEN <<>>
                              ELSE LET i == CHOOSE j \in next : \A k \in next : j <= k IN <<i>> \o f[S \cup {i}]]
<1>8. g = [S \in SUBSET IDs |->
                          LET next == {i \in IDs \ S : \A l \in LinkSet : l.target = i => l.source \in S}
                          IN  IF next = {} THEN <<>>
                              ELSE LET i == CHOOSE j \in next : \A k \in next : j <= k IN <<i>> \o g[S \cup {i}]]
  <2>1. g = [S \in SUBSET IDs |-> g[S]]
    OBVIOUS
  <2>. HIDE DEF g
  <2>. QED
    BY <1>7, <2>1, Zenon DEF Ready, First
<1>. HIDE DEF g
<1>9. sorted = [S \in SUBSET IDs |->
                          LET next == {i \in IDs \ S : \A l \in LinkSet : l.target = i => l.source \in S}
                          IN  IF next = {} THEN <<>>
                              ELSE LET i == CHOOSE j \in next : \A k \in next : j <= k IN <<i>> \o sorted[S \cup {i}]]
  BY <1>8, Zenon
<1>10. computeTopologicalOrder = sorted[{}]
  BY Zenon DEF computeTopologicalOrder
<1>. HIDE DEF sorted
<1>11. IsSorting(sorted)
  BY <1>9, Zenon DEF IsSorting, Ready, First
<1>. QED
  BY <1>10, <1>11

\* Each of the activities left is listed once the network has no cycle, after
\* the sources of its links.
LinkFrom(i, j) == \E l \in LinkSet : l.source = i /\ l.target = j
Forward(q) == \A j, k \in 1..Len(q) : LinkFrom(q[j], q[k]) => j < k
Closed(S) == \A l \in LinkSet : l.target \in S => l.source \in S
NoCycles == \A C \in (SUBSET IDs) \ {{}} : \E i \in C : \A l \in LinkSet : l.target = i => l.source \in IDs \ C
Sorts(q, S) ==
    /\ q \in Seq(IDs)
    /\ NoCycles /\ Closed(S) => Forward(q) /\ \A k \in 1..Len(q) : q[k] \notin S
    /\ NoCycles /\ Closed(S) => \A i \in IDs \ S : \E k \in 1..Len(q) : q[k] = i

LEMMA SortsFirst ==
    ASSUME IsSchedule(evmIn), NEW S \in SUBSET IDs, Ready(S) # {}, NEW r, Sorts(r, S \cup {First(Ready(S))})
    PROVE  Sorts(<<First(Ready(S))>> \o r, S)
<1>. DEFINE x == First(Ready(S))
            q == <<x>> \o r
<1>1. x \in Ready(S) /\ x \in IDs \ S
  BY ReadyFirst
<1>2. \A l \in LinkSet : l.target = x => l.source \in S
  BY <1>1 DEF Ready
<1>3. r \in Seq(IDs)
  BY DEF Sorts
<1>. HIDE DEF x
<1>4. /\ q \in Seq(IDs) /\ Len(q) = Len(r) + 1 /\ Len(r) \in Nat /\ q[1] = x
      /\ \A k \in 1..Len(r) : q[k + 1] = r[k]
  BY <1>1, <1>3
<1>. HIDE DEF q
<1>5. \A k \in 1..Len(q) : k # 1 => k - 1 \in 1..Len(r) /\ q[k] = r[k - 1]
  <2>. SUFFICES ASSUME NEW k \in 1..Len(q), k # 1 PROVE k - 1 \in 1..Len(r) /\ q[k] = r[k - 1]
    OBVIOUS
  <2>1. k - 1 \in 1..Len(r) /\ (k - 1) + 1 = k
    BY <1>4
  <2>. QED
    BY <1>4, <2>1
<1>6. ASSUME NoCycles, Closed(S)
      PROVE  /\ Forward(q) /\ \A k \in 1..Len(q) : q[k] \notin S
             /\ \A i \in IDs \ S : \E k \in 1..Len(q) : q[k] = i
  <2>1. Closed(S \cup {x})
    BY <1>2, <1>6 DEF Closed
  <2>2. /\ Forward(r) /\ \A k \in 1..Len(r) : r[k] \notin S \cup {x}
        /\ \A i \in IDs \ (S \cup {x}) : \E k \in 1..Len(r) : r[k] = i
    BY <1>6, <2>1 DEF Sorts, x
  <2>3. \A k \in 1..Len(q) : q[k] \notin S
    BY <1>1, <1>4, <1>5, <2>2
  <2>4. ASSUME NEW j \in 1..Len(q), NEW k \in 1..Len(q), LinkFrom(q[j], q[k]) PROVE j < k
    <3>1. k # 1
      <4>1. k = 1 => q[j] \in S
        BY <1>2, <1>4, <2>4 DEF LinkFrom
      <4>. QED
        BY <2>3, <4>1
    <3>2. CASE j = 1
      BY <1>4, <3>1, <3>2
    <3>3. CASE j # 1
      <4>1. /\ j - 1 \in 1..Len(r) /\ q[j] = r[j - 1] /\ k - 1 \in 1..Len(r) /\ q[k] = r[k - 1]
        BY <1>5, <3>1, <3>3
      <4>2. j - 1 < k - 1
        BY <2>2, <2>4, <4>1 DEF Forward
      <4>. QED
        BY <1>4, <4>2
    <3>. QED
      BY <3>2, <3>3
  <2>5. ASSUME NEW i \in IDs \ S PROVE \E k \in 1..Len(q) : q[k] = i
    <3>1. CASE i = x
      <4>1. 1 \in 1..Len(q)
        BY <1>4
      <4>. QED
        BY <1>4, <3>1, <4>1
    <3>2. CASE i # x
      <4>1. PICK k \in 1..Len(r) : r[k] = i
        BY <2>2, <3>2
      <4>2. k + 1 \in 1..Len(q) /\ q[k + 1] = i
        BY <1>4, <4>1
      <4>. QED
        BY <4>2
    <3>. QED
      BY <3>1, <3>2
  <2>. QED
    BY <2>3, <2>4, <2>5 DEF Forward
<1>7. Sorts(q, S)
  BY <1>4, <1>6 DEF Sorts
<1>. QED
  BY <1>7 DEF q, x

LEMMA SortingSorts ==
    ASSUME IsSchedule(evmIn), NEW sorted, IsSorting(sorted), NEW S \in SUBSET IDs
    PROVE  Sorts(sorted[S], S)
<1>. DEFINE Bad == {s \in SUBSET IDs : ~Sorts(sorted[IDs \ s], IDs \ s)}
<1>1. ASSUME Bad # {} PROVE FALSE
  <2>1. Bad \subseteq SUBSET IDs /\ IsFiniteSet(IDs)
    BY ScheduleTypes
  <2>2. PICK s \in Bad : \A x \in s : s \ {x} \notin Bad
    BY <1>1, <2>1, SmallestSubset, Zenon
  <2>. DEFINE R == IDs \ s
  <2>3. s \in SUBSET IDs /\ R \in SUBSET IDs /\ ~Sorts(sorted[R], R) /\ IDs \ R = s
    OBVIOUS
  <2>4. sorted[R] = IF Ready(R) = {} THEN <<>> ELSE <<First(Ready(R))>> \o sorted[R \cup {First(Ready(R))}]
    BY <2>3 DEF IsSorting
  <2>5. CASE Ready(R) = {}
    <3>1. sorted[R] = <<>>
      BY <2>4, <2>5
    <3>2. <<>> \in Seq(IDs) /\ Len(<<>>) = 0 /\ 1..0 = {}
      OBVIOUS
    <3>3. ASSUME NoCycles, NEW i \in IDs \ R PROVE FALSE
      <4>. DEFINE C == IDs \ R
      <4>1. C \in (SUBSET IDs) \ {{}} /\ IDs \ C = R
        BY <2>3
      <4>2. PICK j \in C : \A l \in LinkSet : l.target = j => l.source \in R
        BY <3>3, <4>1 DEF NoCycles
      <4>. QED
        BY <2>5, <4>2 DEF Ready
    <3>4. Sorts(<<>>, R)
      BY <3>2, <3>3 DEF Sorts, Forward
    <3>. QED
      BY <2>3, <3>1, <3>4
  <2>6. CASE Ready(R) # {}
    <3>. DEFINE x == First(Ready(R))
    <3>1. x \in IDs \ R
      BY <2>3, <2>6, ReadyFirst
    <3>2. s \ {x} \in SUBSET IDs /\ s \ {x} \notin Bad /\ IDs \ (s \ {x}) = R \cup {x}
      BY <2>2, <2>3, <3>1
    <3>3. Sorts(sorted[R \cup {x}], R \cup {x})
      BY <3>2
    <3>4. Sorts(<<x>> \o sorted[R \cup {x}], R)
      BY <2>3, <2>6, <3>3, SortsFirst
    <3>. QED
      BY <2>3, <2>4, <2>6, <3>4
  <2>. QED
    BY <2>5, <2>6
<1>2. IDs \ S \in SUBSET IDs /\ IDs \ (IDs \ S) = S
  OBVIOUS
<1>. QED
  BY <1>1, <1>2

Order == IF evmIn.topoOrder = <<>> THEN computeTopologicalOrder ELSE evmIn.topoOrder

LEMMA OrderType ==
    ASSUME IsSchedule(evmIn)
    PROVE  Order \in Seq(ToSet(Order))
<1>1. CASE evmIn.topoOrder = <<>>
  <2>1. PICK sorted : IsSorting(sorted) /\ computeTopologicalOrder = sorted[{}]
    BY SortingExists
  <2>2. Order \in Seq(IDs)
    BY <1>1, <2>1, SortingSorts DEF Sorts, Order
  <2>. QED
    BY <2>2 DEF ToSet
<1>2. CASE evmIn.topoOrder # <<>>
  BY <1>2 DEF Order, IsSchedule
<1>. QED
  BY <1>1, <1>2

\* Either order lists the activities after the sources of their links.
LEMMA OrderSorts ==
    ASSUME IsSchedule(evmIn), TopoOrderOK
    PROVE  Forward(Order) /\ \A i \in IDs : \E k \in 1..Len(Order) : Order[k] = i
<1>1. CASE evmIn.topoOrder = <<>>
  <2>1. PICK sorted : IsSorting(sorted) /\ computeTopologicalOrder = sorted[{}]
    BY SortingExists
  <2>2. Sorts(Order, {})
    BY <1>1, <2>1, SortingSorts DEF Order
  <2>3. NoCycles /\ Closed({})
    BY <1>1 DEF NoCycles, Closed, TopoOrderOK
  <2>. QED
    BY <2>2, <2>3 DEF Sorts
<1>2. CASE evmIn.topoOrder # <<>>
  <2>1. Order = evmIn.topoOrder /\ DOMAIN Order = 1..Len(Order)
    BY <1>2, OrderType DEF Order
  <2>2. \A i \in IDs : \E k \in 1..Len(Order) : Order[k] = i
    BY <1>2, <2>1 DEF TopoOrderOK, ToSet
  <2>3. Forward(Order)
    BY <1>2, <2>1 DEF TopoOrderOK, Forward, LinkFrom
  <2>. QED
    BY <2>2, <2>3
<1>. QED
  BY <1>1, <1>2

-----------------------------------------------------------------------------
(* What the propagation leaves. *)

LEMMA PropagationTypes ==
    ASSUME NEW s, s \in Seq(ToSet(s)), NEW acc, IsPropagation(acc, s), NEW k \in 0..Len(s)
    PROVE  acc[k] \in Predictions /\ Len(s) \in Nat
BY DEF IsPropagation

\* An activity that does not come later in the order keeps its prediction.
LEMMA PassedKeeps ==
    ASSUME IsSchedule(evmIn), NEW s, s \in Seq(ToSet(s)), NEW acc, IsPropagation(acc, s), NEW m \in 0..Len(s),
           NEW j \in IDs, \A p \in (m + 1)..Len(s) : s[p] # j
    PROVE  acc[Len(s)][j] = acc[m][j]
<1>. DEFINE n == Len(s) - m
            G == {t \in Nat : m + t <= Len(s) => acc[m + t][j] = acc[m][j]}
<1>1. Len(s) \in Nat /\ n \in Nat /\ m \in Nat /\ m + n = Len(s) /\ m + 0 = m
  BY PropagationTypes
<1>2. 0 \in G
  BY <1>1
<1>3. ASSUME NEW t \in 0..(n - 1), t \in G PROVE t + 1 \in G
  <2>1. /\ m + t \in 0..Len(s) /\ m + (t + 1) \in 1..Len(s) /\ m + (t + 1) \in (m + 1)..Len(s)
        /\ (m + (t + 1)) - 1 = m + t
    BY <1>1, <1>3
  <2>2. acc[m + t] \in Predictions
    BY <2>1, PropagationTypes
  <2>3. acc[m + (t + 1)] = Pushed(acc[m + t], s[m + (t + 1)])
    BY <2>1 DEF IsPropagation
  <2>4. acc[m + (t + 1)][j] = acc[m + t][j]
    BY <2>1, <2>2, <2>3, PushedMeets
  <2>. QED
    BY <1>1, <1>3, <2>1, <2>4
<1>. HIDE DEF G
<1>4. n \in G
  BY <1>1, <1>2, <1>3, UpTo
<1>. QED
  BY <1>1, <1>4 DEF G

LEMMA DurationsStay ==
    ASSUME IsSchedule(evmIn), NEW s, s \in Seq(ToSet(s)), NEW acc, IsPropagation(acc, s), NEW k \in 0..Len(s),
           NEW j \in IDs
    PROVE  acc[k][j].duration = predicted[j].duration
<1>. DEFINE G == {t \in Nat : t <= Len(s) => acc[t][j].duration = predicted[j].duration}
<1>1. Len(s) \in Nat /\ k \in Nat
  BY PropagationTypes
<1>2. 0 \in G
  BY DEF IsPropagation
<1>3. ASSUME NEW t \in 0..(k - 1), t \in G PROVE t + 1 \in G
  <2>1. t \in 0..Len(s) /\ t + 1 \in 1..Len(s) /\ (t + 1) - 1 = t
    BY <1>1, <1>3
  <2>2. acc[t] \in Predictions
    BY <2>1, PropagationTypes
  <2>3. acc[t + 1] = Pushed(acc[t], s[t + 1])
    BY <2>1 DEF IsPropagation
  <2>4. acc[t + 1][j].duration = acc[t][j].duration
    BY <2>2, <2>3, PushedMeets
  <2>. QED
    BY <1>1, <1>3, <2>1, <2>4
<1>. HIDE DEF G
<1>4. k \in G
  BY <1>1, <1>2, <1>3, UpTo
<1>. QED
  BY <1>1, <1>4 DEF G

\* At its last position an activity meets what its links ask; by then the
\* sources of the links have had their last push, so it still does at the end.
LEMMA PropagationMeets ==
    ASSUME IsSchedule(evmIn), predicted \in Predictions, NEW s, s \in Seq(ToSet(s)), Forward(s),
           \A i \in IDs : \E k \in 1..Len(s) : s[k] = i, NEW i \in IDs, A[i].ActualStart = NoDate
    PROVE  \A d \in RequiredStarts(FoldLeft(Pushed, predicted, s), i) : d <= FoldLeft(Pushed, predicted, s)[i].start
<1>1. PICK acc : IsPropagation(acc, s) /\ acc[Len(s)] = FoldLeft(Pushed, predicted, s)
  BY PropagationUnfolds
<1>2. Len(s) \in Nat
  OBVIOUS
<1>. DEFINE Reach == {k \in 1..Len(s) : s[k] = i}
<1>3. PICK m \in Reach : \A k \in Reach : k <= m
  <2>1. Reach \subseteq Int /\ Reach # {}
    <3>1. PICK k \in 1..Len(s) : s[k] = i
      OBVIOUS
    <3>2. k \in Reach
      BY <3>1
    <3>3. Reach \subseteq 1..Len(s) /\ 1..Len(s) \subseteq Int
      BY <1>2
    <3>. HIDE DEF Reach
    <3>. QED
      BY <3>2, <3>3
  <2>2. IsFiniteSet(Reach)
    <3>1. IsFiniteSet(1..Len(s)) /\ Reach \subseteq 1..Len(s)
      BY <1>2, FS_Interval
    <3>. QED
      BY <3>1, FS_Subset
  <2>. HIDE DEF Reach
  <2>. QED
    BY <2>1, <2>2, FiniteGreatest
<1>4. m \in 1..Len(s) /\ s[m] = i /\ m - 1 \in 0..Len(s) /\ m \in 0..Len(s) /\ Len(s) \in 0..Len(s) /\ m - 1 + 1 = m
  BY <1>2
<1>5. \A p \in (m + 1)..Len(s) : s[p] # i
  BY <1>2, <1>3, <1>4
<1>. DEFINE before == acc[m - 1]
            last == acc[Len(s)]
<1>6. before \in Predictions /\ last \in Predictions /\ acc[m] = Pushed(before, i)
  BY <1>1, <1>4, PropagationTypes DEF IsPropagation
<1>7. last[i] = acc[m][i]
  BY <1>1, <1>4, <1>5, PassedKeeps
<1>8. \A d \in RequiredStarts(before, i) : d <= last[i].start
  <2>. HIDE DEF before, last
  <2>. QED
    BY <1>6, <1>7, PushedMeets
<1>9. ASSUME NEW l \in LinksInto(i) PROVE Required(last, i, l) = Required(before, i, l)
  <2>1. l \in LinkSet /\ l.target = i /\ l.source \in IDs
    BY DEF LinksInto
  <2>2. \A p \in m..Len(s) : s[p] # l.source
    <3>. SUFFICES ASSUME NEW p \in m..Len(s), s[p] = l.source PROVE FALSE
      OBVIOUS
    <3>1. p \in 1..Len(s) /\ m <= p
      BY <1>2, <1>4
    <3>2. LinkFrom(s[p], s[m])
      BY <1>4, <2>1 DEF LinkFrom
    <3>3. p < m
      BY <1>4, <3>1, <3>2 DEF Forward
    <3>. QED
      BY <1>4, <3>1, <3>3
  <2>3. last[l.source] = before[l.source]
    <3>1. \A p \in (m - 1 + 1)..Len(s) : s[p] # l.source
      BY <1>4, <2>2
    <3>. DEFINE j == l.source
                c == m - 1
    <3>2. j \in IDs /\ c \in 0..Len(s) /\ \A p \in (c + 1)..Len(s) : s[p] # j
      BY <1>4, <2>1, <3>1
    <3>. HIDE DEF j, c
    <3>3. acc[Len(s)][j] = acc[c][j]
      BY <1>1, <3>2, PassedKeeps
    <3>. QED
      BY <3>3 DEF j, c
  <2>4. last[i].duration = before[i].duration
    BY <1>1, <1>4, DurationsStay
  <2>. HIDE DEF last, before
  <2>. QED
    BY <2>3, <2>4, Zenon DEF Required
<1>10. RequiredStarts(last, i) = RequiredStarts(before, i)
  <2>. HIDE DEF last, before
  <2>. QED
    BY <1>9 DEF RequiredStarts
<1>. QED
  BY <1>1, <1>8, <1>10

-----------------------------------------------------------------------------
(* What an activity has earned. *)

LEMMA DivisionKeepsOrder ==
    ASSUME NEW n \in Nat \ {0}, NEW x \in Int, NEW y \in Int, x <= y
    PROVE  x \div n \in Int /\ y \div n \in Int /\ x \div n <= y \div n
<1>. DEFINE p == x \div n
            q == y \div n
<1>1. p \in Int /\ q \in Int /\ n * p <= x /\ y < n * (q + 1)
  OBVIOUS
<1>. HIDE DEF p, q
<1>2. ASSUME q < p PROVE FALSE
  <2>1. p - (q + 1) \in Nat
    BY <1>1, <1>2
  <2>2. n * (p - (q + 1)) >= 0
    BY <2>1
  <2>3. n * (p - (q + 1)) = n * p - n * (q + 1)
    BY <1>1
  <2>4. n * p \in Int /\ n * (q + 1) \in Int
    BY <1>1
  <2>. QED
    BY <1>1, <2>2, <2>3, <2>4
<1>3. p <= q
  BY <1>1, <1>2
<1>. QED
  BY <1>1, <1>3 DEF p, q

LEMMA ElapsedGrows ==
    ASSUME NEW s \in Int, NEW f \in Int, NEW d \in Int, NEW e \in Int, d <= e
    PROVE  /\ Elapsed(s, f, d) \in 0..100 /\ Elapsed(s, f, e) \in 0..100
           /\ Elapsed(s, f, d) <= Elapsed(s, f, e)
<1>. DEFINE n == Larger(1, f - s)
            x == Larger(0, d - s) * 100
            y == Larger(0, e - s) * 100
<1>1. n \in Nat \ {0} /\ x \in Int /\ y \in Int /\ 0 <= x /\ x <= y
  BY DEF Larger
<1>2. Elapsed(s, f, d) = Smaller(100, x \div n) /\ Elapsed(s, f, e) = Smaller(100, y \div n)
  BY DEF Elapsed
<1>. HIDE DEF n, x, y
<1>3. x \div n \in Int /\ y \div n \in Int /\ x \div n <= y \div n
  BY <1>1, DivisionKeepsOrder
<1>4. 0 <= x \div n
  BY <1>1
<1>. QED
  BY <1>2, <1>3, <1>4 DEF Smaller

\* The share of an activity that is earned by day d, by its dates s and f, its
\* plan from ps to pf and its prediction from qs to qf.
ByDates(cap, s, f, d) ==
    IF f <= d THEN cap ELSE IF s # NoDate /\ s <= d THEN Smaller(Elapsed(s, f, d), cap) ELSE 0
ByPlan(pct, ps, pf, d) ==
    IF pf <= d THEN pct ELSE IF ps <= d THEN Smaller(Elapsed(ps, pf, d), pct) ELSE 0
ByPrediction(qs, qf, d) ==
    IF qf <= d THEN 100 ELSE IF qs <= d THEN Elapsed(qs, qf, d) ELSE 0
Share(pct, s, f, ps, pf, qs, qf, day, d) ==
    IF f # NoDate THEN ByDates(IF pct > 0 THEN pct ELSE 100, s, f, d)
    ELSE IF s # NoDate /\ pct > 0 /\ s <= d THEN pct
    ELSE IF pct > 0 /\ d <= day THEN ByPlan(pct, ps, pf, d)
    ELSE IF d > day THEN ByPrediction(qs, qf, d) ELSE 0

LEMMA SharesGrow ==
    ASSUME NEW pct \in 0..100, NEW s \in Int, NEW f \in Int, NEW ps \in Int, NEW pf \in Int, NEW qs \in Int, NEW qf \in Int,
           NEW day \in Int, NEW d \in Int, NEW e \in Int, d <= e, pct > 0 => s # NoDate /\ s <= day
    PROVE  /\ Share(pct, s, f, ps, pf, qs, qf, day, d) \in 0..100 /\ Share(pct, s, f, ps, pf, qs, qf, day, e) \in 0..100
           /\ Share(pct, s, f, ps, pf, qs, qf, day, d) <= Share(pct, s, f, ps, pf, qs, qf, day, e)
<1>. DEFINE cap == IF pct > 0 THEN pct ELSE 100
            x(t) == Share(pct, s, f, ps, pf, qs, qf, day, t)
<1>1. cap \in 0..100
  OBVIOUS
<1>2. /\ ByDates(cap, s, f, d) \in 0..100 /\ ByDates(cap, s, f, e) \in 0..100
      /\ ByDates(cap, s, f, d) <= ByDates(cap, s, f, e)
  <2>. HIDE DEF cap
  <2>. DEFINE u == Elapsed(s, f, d)
              v == Elapsed(s, f, e)
  <2>1. u \in 0..100 /\ v \in 0..100 /\ u <= v
    BY ElapsedGrows
  <2>2. /\ ByDates(cap, s, f, d) = IF f <= d THEN cap ELSE IF s # NoDate /\ s <= d THEN Smaller(u, cap) ELSE 0
        /\ ByDates(cap, s, f, e) = IF f <= e THEN cap ELSE IF s # NoDate /\ s <= e THEN Smaller(v, cap) ELSE 0
    BY DEF ByDates
  <2>. HIDE DEF u, v
  <2>. QED
    BY <1>1, <2>1, <2>2 DEF Smaller
<1>3. /\ ByPlan(pct, ps, pf, d) \in 0..pct /\ ByPlan(pct, ps, pf, e) \in 0..pct
      /\ ByPlan(pct, ps, pf, d) <= ByPlan(pct, ps, pf, e)
  <2>. DEFINE u == Elapsed(ps, pf, d)
              v == Elapsed(ps, pf, e)
  <2>1. u \in 0..100 /\ v \in 0..100 /\ u <= v
    BY ElapsedGrows
  <2>2. /\ ByPlan(pct, ps, pf, d) = IF pf <= d THEN pct ELSE IF ps <= d THEN Smaller(u, pct) ELSE 0
        /\ ByPlan(pct, ps, pf, e) = IF pf <= e THEN pct ELSE IF ps <= e THEN Smaller(v, pct) ELSE 0
    BY DEF ByPlan
  <2>. HIDE DEF u, v
  <2>. QED
    BY <2>1, <2>2 DEF Smaller
<1>4. /\ ByPrediction(qs, qf, d) \in 0..100 /\ ByPrediction(qs, qf, e) \in 0..100
      /\ ByPrediction(qs, qf, d) <= ByPrediction(qs, qf, e)
  <2>. DEFINE u == Elapsed(qs, qf, d)
              v == Elapsed(qs, qf, e)
  <2>1. u \in 0..100 /\ v \in 0..100 /\ u <= v
    BY ElapsedGrows
  <2>2. /\ ByPrediction(qs, qf, d) = IF qf <= d THEN 100 ELSE IF qs <= d THEN u ELSE 0
        /\ ByPrediction(qs, qf, e) = IF qf <= e THEN 100 ELSE IF qs <= e THEN v ELSE 0
    BY DEF ByPrediction
  <2>. HIDE DEF u, v
  <2>. QED
    BY <2>1, <2>2
<1>5. CASE f # NoDate
  BY <1>2, <1>5 DEF Share
<1>6. CASE f = NoDate /\ pct > 0
  BY <1>3, <1>6 DEF Share
<1>7. CASE f = NoDate /\ ~(pct > 0)
  BY <1>4, <1>7 DEF Share
<1>. QED
  BY <1>5, <1>6, <1>7

LEMMA ActivityEarns ==
    ASSUME IsSchedule(evmIn), predicted \in Predictions, isValid(A), NEW i \in IDs, Sound(i),
           NEW d \in Int, NEW e \in Int, d <= e
    PROVE  /\ Earned(i, d) \in Int /\ Earned(i, e) \in Int /\ Earned(i, d) <= Earned(i, e)
           /\ Earned(i, e) <= 100 * A[i].Duration
<1>. DEFINE a == A[i]
            pct == Pct(a)
            s == IF pct > 0 THEN Or(a.ActualStart, ForecastStart(a)) ELSE a.ActualStart
            f == IF pct = 100 /\ a.ActualFinish = NoDate THEN Imputed(a) ELSE a.ActualFinish
            p == predicted[i]
            x(t) == Share(pct, s, f, ForecastStart(a), ForecastEnd(a), p.start, p.end, status, t)
<1>1. a \in EvmActivity /\ status \in Int
  BY ScheduleTypes
<1>2. p.start \in Int /\ p.end \in Int
  BY DEF Predictions
<1>3. a.Duration \in Nat /\ a.Start # NoDate
  BY <1>1, ActivityTypes DEF isValid, IDs
<1>4. /\ pct \in 0..100 /\ ForecastStart(a) \in Int /\ ForecastEnd(a) \in Int
      /\ a.ActualStart \in Int /\ a.ActualFinish \in Int
  BY <1>1, ActivityTypes
<1>5. ForecastStart(a) # NoDate
  BY <1>3 DEF ForecastStart, Or
<1>6. \A t \in Int : Earned(i, t) = a.Duration * x(t)
  BY DEF Earned, Share, ByDates, ByPlan, ByPrediction
<1>7. pct > 0 => s # NoDate /\ s <= status
  BY <1>4, <1>5 DEF Sound, Or
<1>8. s \in Int /\ f \in Int
  BY <1>1, <1>4 DEF Or, Imputed, Smaller
<1>. HIDE DEF a, pct, s, f, p
<1>9. x(d) \in 0..100 /\ x(e) \in 0..100 /\ x(d) <= x(e)
  BY <1>1, <1>2, <1>4, <1>7, <1>8, SharesGrow
<1>10. Earned(i, d) = a.Duration * x(d) /\ Earned(i, e) = a.Duration * x(e)
  BY <1>6
<1>. DEFINE u == x(d)
            v == x(e)
<1>. HIDE DEF x
<1>11. \A n \in Nat, y, z \in 0..100 : y <= z => n * y \in Int /\ n * z \in Int /\ n * y <= n * z /\ n * z <= 100 * n
  <2>. SUFFICES ASSUME NEW n \in Nat, NEW y \in 0..100, NEW z \in 0..100, y <= z
                PROVE  n * y \in Int /\ n * z \in Int /\ n * y <= n * z /\ n * z <= 100 * n
    OBVIOUS
  <2>1. n * (z - y) >= 0 /\ n * (100 - z) >= 0
    OBVIOUS
  <2>2. n * (z - y) = n * z - n * y /\ n * (100 - z) = 100 * n - n * z
    OBVIOUS
  <2>. QED
    BY <2>1, <2>2
<1>12. /\ a.Duration * x(d) \in Int /\ a.Duration * x(e) \in Int /\ a.Duration * x(d) <= a.Duration * x(e)
       /\ a.Duration * x(e) <= 100 * a.Duration
  BY <1>3, <1>9, <1>11
<1>. QED
  BY <1>10, <1>12 DEF a

LEMMA CurveRises ==
    ASSUME IsSchedule(evmIn), predicted \in Predictions, isValid(A), \A i \in IDs : Sound(i),
           NEW d \in Int, NEW e \in Int, d <= e
    PROVE  /\ SumFunctionOnSet([i \in Worked(A) |-> Earned(i, d)], Worked(A))
                <= SumFunctionOnSet([i \in Worked(A) |-> Earned(i, e)], Worked(A))
           /\ SumFunctionOnSet([i \in Worked(A) |-> Earned(i, e)], Worked(A)) <= 100 * calculateBAC_Hours(A)
<1>. DEFINE W == Worked(A)
            f == [i \in W |-> Earned(i, d)]
            g == [i \in W |-> Earned(i, e)]
            h == [i \in W |-> A[i].Duration]
            budget == [i \in W |-> 100 * A[i].Duration]
<1>1. W \subseteq IDs /\ IsFiniteSet(W)
  BY ScheduleTypes, FS_Subset DEF Worked, IDs
<1>2. ASSUME NEW i \in W
      PROVE  f[i] \in Int /\ g[i] \in Int /\ h[i] \in Int /\ budget[i] = 100 * h[i] /\ f[i] <= g[i] /\ g[i] <= budget[i]
  <2>1. i \in IDs /\ Sound(i) /\ A[i].Duration \in Int
    BY <1>1, ScheduleTypes, ActivityTypes
  <2>2. /\ Earned(i, d) \in Int /\ Earned(i, e) \in Int /\ Earned(i, d) <= Earned(i, e)
        /\ Earned(i, e) <= 100 * A[i].Duration
    BY <2>1, ActivityEarns
  <2>. QED
    BY <2>1, <2>2
<1>3. calculateBAC_Hours(A) = SumFunctionOnSet(h, W)
  BY DEF calculateBAC_Hours, Total
<1>. HIDE DEF f, g, h, budget
<1>4. SumFunctionOnSet(f, W) <= SumFunctionOnSet(g, W)
  BY <1>1, <1>2, SumsCompare
<1>5. SumFunctionOnSet(g, W) <= SumFunctionOnSet(budget, W)
  <2>1. \A i \in W : g[i] \in Int /\ budget[i] \in Int /\ g[i] <= budget[i]
    BY <1>2
  <2>. QED
    BY <1>1, <2>1, SumsCompare
<1>6. SumFunctionOnSet(budget, W) = 100 * SumFunctionOnSet(h, W)
  <2>1. 100 \in Int
    OBVIOUS
  <2>. QED
    BY <1>1, <1>2, <2>1, SumOfMultiples
<1>. QED
  BY <1>3, <1>4, <1>5, <1>6 DEF f, g

LEMMA ComparedDates ==
    ASSUME IsSchedule(evmIn), predicted \in Predictions
    PROVE  Compared \subseteq Int
<1>1. ASSUME NEW i \in IDs
      PROVE  {A[i].Start, A[i].Finish, A[i].ActualStart, A[i].ActualFinish, A[i].riskAdjustedStart,
              A[i].riskAdjustedEnd, predicted[i].start, predicted[i].end} \subseteq Int
  <2>1. A[i] \in EvmActivity
    BY ScheduleTypes
  <2>. QED
    BY <2>1 DEF EvmActivity, Predictions
<1>2. UNION {{A[i].Start, A[i].Finish, A[i].ActualStart, A[i].ActualFinish, A[i].riskAdjustedStart,
              A[i].riskAdjustedEnd, predicted[i].start, predicted[i].end} : i \in IDs} \subseteq Int
  BY <1>1
<1>3. status \in Int
  BY ScheduleTypes
<1>. DEFINE marks == UNION {{A[i].Start, A[i].Finish, A[i].ActualStart, A[i].ActualFinish, A[i].riskAdjustedStart,
                             A[i].riskAdjustedEnd, predicted[i].start, predicted[i].end} : i \in IDs}
            dates == (marks \cup {status}) \ {NoDate}
            first == CHOOSE d \in dates : \A e \in dates : d <= e
            last == CHOOSE d \in dates : \A e \in dates : e <= d
<1>4. dates \subseteq Int
  <2>1. marks \subseteq Int
    BY <1>2
  <2>. HIDE DEF marks
  <2>. QED
    BY <1>3, <2>1
<1>5. Compared = dates \cup {d \in first..last : (d - first) % 7 = 0}
  BY Zenon DEF Compared
<1>. HIDE DEF dates, first, last
<1>6. first..last \subseteq Int
  OBVIOUS
<1>. QED
  BY <1>4, <1>5, <1>6

LEMMA CompletedActivity ==
    ASSUME NEW r \in EvmActivity, NEW v \in Int, NEW w \in Int,
           NEW a, a = [r EXCEPT !.PercentComplete = 100, !.ActualStart = v, !.ActualFinish = w, !.ActualDuration = 0]
    PROVE  a \in EvmActivity
<1>1. /\ a.Start \in Int /\ a.Finish \in Int /\ a.riskAdjustedStart \in Int /\ a.riskAdjustedEnd \in Int
      /\ a.ActualStart \in Int /\ a.ActualFinish \in Int /\ a.Duration \in Int /\ a.riskAdjustedDuration \in Int
      /\ a.ActualDuration \in Int /\ a.ActualCost \in Int /\ a.PercentComplete \in Int
  BY DEF EvmActivity
<1>2. a = [Start |-> a.Start, Finish |-> a.Finish, riskAdjustedStart |-> a.riskAdjustedStart,
           riskAdjustedEnd |-> a.riskAdjustedEnd, ActualStart |-> a.ActualStart, ActualFinish |-> a.ActualFinish,
           Duration |-> a.Duration, riskAdjustedDuration |-> a.riskAdjustedDuration,
           ActualDuration |-> a.ActualDuration, ActualCost |-> a.ActualCost, PercentComplete |-> a.PercentComplete]
  BY DEF EvmActivity
<1>. QED
  BY <1>1, <1>2 DEF EvmActivity

\* autoCompleteStartMilestone leaves durations and forecast dates alone, and
\* gives the start milestone no other start than it had.
LEMMA CompletedTypes ==
    ASSUME IsSchedule(evmIn)
    PROVE  /\ Completed \in [IDs -> EvmActivity]
           /\ \A i \in IDs \ {0} : Completed[i] = A[i]
           /\ Completed[0].Duration = A[0].Duration /\ ForecastStart(Completed[0]) = ForecastStart(A[0])
           /\ Pct(Completed[0]) = 100
           /\ A[0].ActualStart # NoDate => Completed[0].ActualStart = A[0].ActualStart
<1>. DEFINE starts == {A[i].ActualStart : i \in IDs \ {0}} \ {NoDate}
            first == IF starts = {} THEN A[0].Start ELSE CHOOSE d \in starts : \A e \in starts : d <= e
            from == Or(A[0].ActualStart, first)
            a == [A[0] EXCEPT !.PercentComplete = 100, !.ActualStart = from,
                              !.ActualFinish = Or(A[0].ActualFinish, from), !.ActualDuration = 0]
<1>1. A \in [IDs -> EvmActivity] /\ 0 \in IDs /\ IsFiniteSet(IDs) /\ A[0] \in EvmActivity
  BY ScheduleTypes
<1>2. starts \subseteq Int
  BY <1>1, ActivityTypes
<1>3. first \in Int
  <2>1. CASE starts = {}
    BY <1>1, <2>1, ActivityTypes
  <2>2. CASE starts # {}
    <3>. DEFINE at == [i \in IDs |-> A[i].ActualStart]
    <3>1. IsFiniteSet({at[i] : i \in IDs})
      BY <1>1, FiniteImage
    <3>2. starts \subseteq {at[i] : i \in IDs}
      OBVIOUS
    <3>. HIDE DEF starts, at
    <3>3. IsFiniteSet(starts)
      BY <3>1, <3>2, FS_Subset
    <3>4. \E d \in starts : \A e \in starts : d <= e
      BY <1>2, <2>2, <3>3, FiniteLeast
    <3>. QED
      BY <1>2, <2>2, <3>4
  <2>. QED
    BY <2>1, <2>2
<1>. HIDE DEF first
<1>4. from \in Int /\ (A[0].ActualStart # NoDate => from = A[0].ActualStart)
  BY <1>1, <1>3, ActivityTypes DEF Or
<1>5. Completed = [A EXCEPT ![0] = a]
  BY Zenon DEF Completed, first
<1>. HIDE DEF from
<1>6. Or(A[0].ActualFinish, from) \in Int
  BY <1>1, <1>4, ActivityTypes DEF Or
<1>7. /\ a \in EvmActivity /\ a.Duration = A[0].Duration /\ a.Start = A[0].Start
      /\ a.riskAdjustedStart = A[0].riskAdjustedStart /\ a.ActualStart = from /\ a.PercentComplete = 100
  <2>. DEFINE r == A[0]
              g == Or(A[0].ActualFinish, from)
  <2>1. r \in EvmActivity /\ from \in Int /\ g \in Int
    BY <1>1, <1>4, <1>6
  <2>. HIDE DEF r, g
  <2>2. a = [r EXCEPT !.PercentComplete = 100, !.ActualStart = from, !.ActualFinish = g, !.ActualDuration = 0]
    BY DEF r, g
  <2>. HIDE DEF a
  <2>3. a \in EvmActivity
    BY <2>1, <2>2, CompletedActivity
  <2>. QED
    BY <2>1, <2>2, <2>3 DEF EvmActivity, r
<1>. HIDE DEF a
<1>8. ForecastStart(a) = ForecastStart(A[0]) /\ Pct(a) = 100
  BY <1>7 DEF ForecastStart, Pct, Normalized, Clamp, Larger, Smaller
<1>. QED
  BY <1>1, <1>4, <1>5, <1>7, <1>8

-----------------------------------------------------------------------------
(* The invariant and its steps. *)

EvmTypeOK ==
    /\ IsSchedule(evmIn)
    /\ predicted \in Predictions
    /\ outlook \in [delta : Int, slip : Int]
Valid == evmStep \in {"assign", "decay", "propagate", "draw"} => isValid(A)
EvmInv == EvmTypeOK /\ Valid /\ EarnedNeverFalls /\ PredictionsFollowLinks

LEMMA AutoCompleteKeeps ==
    ASSUME IsSchedule(evmIn), NEW done, AutoComplete(done)
    PROVE  /\ IsSchedule(evmIn)' /\ IDs' = IDs
           /\ calculateBAC_Hours(A)' = calculateBAC_Hours(A)
           /\ \A i \in IDs : Sound(i)' => Sound(i)
<1>1. CASE UNCHANGED evmIn
  BY <1>1 DEF IsSchedule, IDs, A, Sound, status, calculateBAC_Hours, Total, Worked
<1>2. CASE evmIn' = [evmIn EXCEPT !.node = Completed]
  <2>1. /\ Completed \in [IDs -> EvmActivity]
        /\ \A i \in IDs \ {0} : Completed[i] = A[i]
        /\ Completed[0].Duration = A[0].Duration /\ ForecastStart(Completed[0]) = ForecastStart(A[0])
        /\ Pct(Completed[0]) = 100
        /\ A[0].ActualStart # NoDate => Completed[0].ActualStart = A[0].ActualStart
    BY CompletedTypes
  <2>2. DOMAIN evmIn = {"node", "links", "status", "overrun", "topoOrder"}
    BY DEF IsSchedule
  <2>3. A' = Completed
    BY <1>2, <2>2 DEF A
  <2>4. /\ evmIn'.links = evmIn.links /\ evmIn'.status = evmIn.status /\ evmIn'.overrun = evmIn.overrun
        /\ evmIn'.topoOrder = evmIn.topoOrder /\ DOMAIN evmIn' = DOMAIN evmIn
    BY <1>2, <2>2
  <2>5. DOMAIN Completed = IDs
    BY <2>1
  <2>6. IDs' = IDs
    BY <2>3, <2>5 DEF IDs
  <2>7. IsSchedule(evmIn)'
    BY <2>1, <2>3, <2>4, <2>5 DEF IsSchedule, IDs, A
  <2>8. calculateBAC_Hours(A)' = calculateBAC_Hours(A)
    <3>1. \A i \in IDs : Completed[i].Duration = A[i].Duration
      BY <2>1
    <3>2. Worked(Completed) = Worked(A)
      BY <2>5, <3>1 DEF Worked, IDs
    <3>3. [i \in Worked(Completed) |-> Completed[i].Duration] = [i \in Worked(A) |-> A[i].Duration]
      BY <3>1, <3>2 DEF Worked, IDs
    <3>4. calculateBAC_Hours(Completed) = calculateBAC_Hours(A)
      BY <3>2, <3>3, Zenon DEF calculateBAC_Hours, Total
    <3>. QED
      BY <2>3, <3>4
  <2>9. ASSUME NEW i \in IDs, Sound(i)' PROVE Sound(i)
    <3>1. status' = status
      BY <2>4 DEF status
    <3>2. CASE i # 0
      BY <2>1, <2>3, <2>9, <3>1, <3>2 DEF Sound
    <3>3. CASE i = 0
      <4>1. /\ Completed[0].ActualStart = NoDate \/ Completed[0].ActualStart <= status
            /\ Pct(Completed[0]) > 0 => ForecastStart(Completed[0]) <= status
        BY <2>3, <2>9, <3>1, <3>3 DEF Sound
      <4>. QED
        BY <2>1, <3>3, <4>1 DEF Sound
    <3>. QED
      BY <3>2, <3>3
  <2>. QED
    BY <2>6, <2>7, <2>8, <2>9
<1>. QED
  BY <1>1, <1>2 DEF AutoComplete

\* So an earned-value curve that was drawn stays one that never falls.
LEMMA CurveStays ==
    ASSUME IsSchedule(evmIn), EarnedNeverFalls, NEW done, AutoComplete(done), UNCHANGED actual
    PROVE  EarnedNeverFalls'
<1>1. IDs' = IDs /\ calculateBAC_Hours(A)' = calculateBAC_Hours(A) /\ \A i \in IDs : Sound(i)' => Sound(i)
  BY AutoCompleteKeeps
<1>2. SUFFICES ASSUME (actual # None /\ (\A i \in IDs : Sound(i)))',
                      NEW d \in actual'.points, NEW e \in actual'.points, d <= e
               PROVE  actual'.earned[d] <= actual'.earned[e] /\ actual'.earned[e] <= 100 * calculateBAC_Hours(A)'
  BY DEF EarnedNeverFalls
<1>3. actual # None /\ \A i \in IDs : Sound(i)
  BY <1>1, <1>2 DEF None
<1>. QED
  BY <1>1, <1>2, <1>3 DEF EarnedNeverFalls

LEMMA AssignedType ==
    ASSUME EvmTypeOK, NEW a \in EvmActivity
    PROVE  Assigned(a) \in [start : Int, end : Int, duration : Int]
<1>1. /\ a.Duration \in Int /\ Pct(a) \in Int /\ outlook.delta \in Int /\ outlook.slip \in Int /\ status \in Int
      /\ a.ActualStart \in Int /\ a.ActualFinish \in Int /\ a.ActualDuration \in Int
      /\ ForecastStart(a) \in Int /\ ForecastEnd(a) \in Int /\ ForecastHours(a) \in Int
  BY ScheduleTypes, ActivityTypes DEF EvmTypeOK
<1>. DEFINE done == a.Duration * Pct(a)
            rest == (a.Duration * 100 - done) * outlook.delta
            shifted == Larger(ForecastStart(a), status) + outlook.slip
<1>2. /\ done * 100 + rest \in Int /\ shifted \in Int /\ a.Duration * outlook.delta * 100 \in Int
      /\ a.ActualDuration * Part \in Int /\ ForecastHours(a) * Part \in Int /\ Imputed(a) \in Int
  <2>1. done \in Int
    BY <1>1
  <2>. HIDE DEF done
  <2>2. a.Duration * 100 - done \in Int
    BY <1>1, <2>1
  <2>3. rest \in Int
    BY <1>1, <2>2
  <2>. HIDE DEF rest
  <2>. QED
    BY <1>1, <2>1, <2>3 DEF Larger, Smaller, Part, Imputed
<1>3. \A s, t \in Int : Ending(s, t) \in [start : Int, end : Int, duration : Int]
  BY CalendarTypes DEF Ending, Prediction
<1>4. \A s, e, t \in Int : Prediction(s, e, t) \in [start : Int, end : Int, duration : Int]
  BY DEF Prediction
<1>5. Assigned(a) = CASE a.ActualStart # NoDate /\ a.ActualFinish # NoDate /\ a.ActualDuration # -1 ->
                           Prediction(a.ActualStart, a.ActualFinish, a.ActualDuration * Part)
                      [] Pct(a) = 100 /\ ~(a.ActualStart # NoDate /\ a.ActualFinish # NoDate) ->
                           Prediction(ForecastStart(a), Imputed(a), ForecastHours(a) * Part)
                      [] a.ActualStart # NoDate /\ Pct(a) \in 1..99 ->
                           Ending(a.ActualStart, done * 100 + rest)
                      [] OTHER -> Ending(shifted, a.Duration * outlook.delta * 100)
  BY Zenon DEF Assigned
<1>. HIDE DEF done, rest, shifted
<1>6. /\ Prediction(a.ActualStart, a.ActualFinish, a.ActualDuration * Part) \in [start : Int, end : Int, duration : Int]
      /\ Prediction(ForecastStart(a), Imputed(a), ForecastHours(a) * Part) \in [start : Int, end : Int, duration : Int]
      /\ Ending(a.ActualStart, done * 100 + rest) \in [start : Int, end : Int, duration : Int]
      /\ Ending(shifted, a.Duration * outlook.delta * 100) \in [start : Int, end : Int, duration : Int]
  BY <1>1, <1>2, <1>3, <1>4
<1>. QED
  BY <1>5, <1>6, Zenon

LEMMA DecayedType ==
    ASSUME EvmTypeOK, NEW i \in IDs, i \in Reached
    PROVE  Decayed(i) \in [start : Int, end : Int, duration : Int]
<1>. DEFINE w == Weight[Distance(i)]
<1>1. w \in Int
  BY ScheduleTypes, DistanceType, WeightType DEF EvmTypeOK
<1>2. predicted[i].start \in Int /\ ForecastHours(A[i]) \in Int /\ outlook.delta \in Int
  BY ScheduleTypes, ActivityTypes DEF EvmTypeOK, Predictions
<1>3. Decayed(i) = Ending(predicted[i].start, ForecastHours(A[i]) * (w * outlook.delta + (100 - w) * 100))
  BY DEF Decayed
<1>. HIDE DEF w
<1>4. w * outlook.delta + (100 - w) * 100 \in Int
  BY <1>1, <1>2
<1>5. ForecastHours(A[i]) * (w * outlook.delta + (100 - w) * 100) \in Int
  BY <1>2, <1>4
<1>6. \A s, t \in Int : Ending(s, t) \in [start : Int, end : Int, duration : Int]
  BY CalendarTypes DEF Ending, Prediction
<1>. DEFINE s == predicted[i].start
            t == ForecastHours(A[i]) * (w * outlook.delta + (100 - w) * 100)
<1>7. s \in Int /\ t \in Int /\ Decayed(i) = Ending(s, t)
  BY <1>2, <1>3, <1>5
<1>. HIDE DEF s, t
<1>. QED
  BY <1>6, <1>7

LEMMA EvmInitEstablishes == EvmInit => EvmInv
<1>. SUFFICES ASSUME EvmInit PROVE EvmInv
  OBVIOUS
<1>1. IsSchedule(evmIn)
  BY EvmAssumption DEF EvmInit
<1>2. predicted \in Predictions /\ outlook \in [delta : Int, slip : Int]
  BY DEF EvmInit, Predictions, Prediction, NoDate
<1>3. Valid /\ EarnedNeverFalls /\ PredictionsFollowLinks
  BY DEF EvmInit, Valid, EarnedNeverFalls, PredictionsFollowLinks
<1>. QED
  BY <1>1, <1>2, <1>3 DEF EvmInv, EvmTypeOK

LEMMA EvmStepKeeps == EvmInv /\ [EvmNext]_evmVars => EvmInv'
<1>. SUFFICES ASSUME EvmInv, [EvmNext]_evmVars PROVE EvmInv'
  OBVIOUS
<1>0. EvmTypeOK /\ Valid /\ EarnedNeverFalls /\ PredictionsFollowLinks
  BY DEF EvmInv
<1>. DEFINE Point == [start : Int, end : Int, duration : Int]
\* Only the two calculations that may complete the start milestone change the schedule.
<1>1. ASSUME UNCHANGED evmIn PROVE /\ IsSchedule(evmIn)' /\ A' = A /\ IDs' = IDs /\ Predictions' = Predictions
                                   /\ isValid(A)' = isValid(A)
  BY <1>0, <1>1 DEF EvmTypeOK, IsSchedule, A, IDs, Predictions, isValid
<1>2. ASSUME UNCHANGED <<evmIn, actual>> PROVE EarnedNeverFalls'
  BY <1>0, <1>2 DEF EarnedNeverFalls, None, A, IDs, Sound, status, calculateBAC_Hours, Total, Worked
\* The predictions are judged at the step that draws them.
<1>3. ASSUME evmStep' # "draw" PROVE PredictionsFollowLinks'
  BY <1>3 DEF PredictionsFollowLinks
<1>4. CASE getCumulativeDistribution
  <2>1. AutoComplete(FALSE) /\ UNCHANGED <<predicted, outlook, actual>> /\ evmStep' \in {"idle", "refused"}
    BY <1>4 DEF getCumulativeDistribution
  <2>2. IsSchedule(evmIn)' /\ IDs' = IDs
    BY <1>0, <2>1, AutoCompleteKeeps DEF EvmTypeOK
  <2>3. EarnedNeverFalls'
    BY <1>0, <2>1, CurveStays DEF EvmTypeOK
  <2>. QED
    BY <1>0, <1>3, <2>1, <2>2, <2>3 DEF EvmInv, EvmTypeOK, Valid, Predictions
<1>5. CASE StartActual
  <2>1. /\ AutoComplete(startMilestoneAutoCompleted) /\ UNCHANGED <<predicted, forecasted, actual>>
        /\ evmStep' \in {"assign", "refused"} /\ (evmStep' = "assign" => isValid(A'))
        /\ outlook' \in {outlook, Delay(A', status, ForecastEnd(A'[EndNode(A')]), evmIn.overrun)}
    BY <1>5 DEF StartActual, A
  <2>2. IsSchedule(evmIn)' /\ IDs' = IDs
    BY <1>0, <2>1, AutoCompleteKeeps DEF EvmTypeOK
  <2>3. EarnedNeverFalls'
    BY <1>0, <2>1, CurveStays DEF EvmTypeOK
  <2>4. outlook' \in [delta : Int, slip : Int]
    <3>1. /\ A' \in [DOMAIN A' -> EvmActivity] /\ IsFiniteSet(DOMAIN A') /\ DOMAIN A' \subseteq Nat /\ DOMAIN A' # {}
      BY <2>2 DEF IsSchedule, A, IDs
    <3>2. A'[EndNode(A')] \in EvmActivity
      BY <3>1, EndNodeType
    <3>3. ForecastEnd(A'[EndNode(A')]) \in Int /\ status \in Int /\ evmIn.overrun \in Nat
      BY <1>0, <3>2, ScheduleTypes, ActivityTypes DEF EvmTypeOK
    <3>4. Delay(A', status, ForecastEnd(A'[EndNode(A')]), evmIn.overrun) \in [delta : Int, slip : Int]
      BY <3>1, <3>3, DelayTypes
    <3>. QED
      BY <1>0, <2>1, <3>4 DEF EvmTypeOK
  <2>. QED
    BY <1>0, <1>3, <2>1, <2>2, <2>3, <2>4 DEF EvmInv, EvmTypeOK, Valid, Predictions, isValid
<1>6. CASE Assign
  <2>1. /\ predicted' = [i \in IDs |-> Assigned(A[i])] /\ evmStep = "assign" /\ evmStep' = "decay"
        /\ UNCHANGED <<evmIn, outlook, actual>>
    BY <1>6 DEF Assign
  <2>2. \A i \in IDs : Assigned(A[i]) \in Point
    BY <1>0, ScheduleTypes, AssignedType DEF EvmTypeOK
  <2>3. predicted' \in Predictions
    BY <2>1, <2>2 DEF Predictions
  <2>4. EvmTypeOK' /\ Valid'
    BY <1>0, <1>1, <2>1, <2>3 DEF EvmTypeOK, Valid
  <2>. QED
    BY <1>2, <1>3, <2>1, <2>4 DEF EvmInv
<1>7. CASE Decay
  <2>1. /\ predicted' = [i \in IDs |-> IF i \in Reached /\ Untouched(A[i]) THEN Decayed(i) ELSE predicted[i]]
        /\ evmStep = "decay" /\ evmStep' = "propagate" /\ UNCHANGED <<evmIn, outlook, actual>>
    BY <1>7 DEF Decay
  <2>2. \A i \in IDs : predicted[i] \in Point /\ (i \in Reached => Decayed(i) \in Point)
    BY <1>0, DecayedType DEF EvmTypeOK, Predictions
  <2>3. predicted' \in Predictions
    BY <2>1, <2>2 DEF Predictions
  <2>4. EvmTypeOK' /\ Valid'
    BY <1>0, <1>1, <2>1, <2>3 DEF EvmTypeOK, Valid
  <2>. QED
    BY <1>2, <1>3, <2>1, <2>4 DEF EvmInv
<1>8. CASE Propagate
  <2>1. /\ predicted' = IF evmIn.links = <<>> THEN predicted ELSE FoldLeft(Pushed, predicted, Order)
        /\ evmStep = "propagate" /\ evmStep' = "draw" /\ UNCHANGED <<evmIn, outlook, actual>>
    BY <1>8 DEF Propagate, Order
  <2>2. Order \in Seq(ToSet(Order))
    BY <1>0, OrderType DEF EvmTypeOK
  <2>3. FoldLeft(Pushed, predicted, Order) \in Predictions
    <3>1. PICK acc : IsPropagation(acc, Order) /\ acc[Len(Order)] = FoldLeft(Pushed, predicted, Order)
      BY <1>0, <2>2, PropagationUnfolds DEF EvmTypeOK
    <3>2. Len(Order) \in 0..Len(Order)
      BY <2>2
    <3>. QED
      BY <3>1, <3>2 DEF IsPropagation
  <2>4. predicted' \in Predictions
    BY <1>0, <2>1, <2>3 DEF EvmTypeOK
  <2>5. EvmTypeOK' /\ Valid'
    BY <1>0, <1>1, <2>1, <2>4 DEF EvmTypeOK, Valid
  <2>6. PredictionsFollowLinks'
    <3>1. SUFFICES ASSUME TopoOrderOK, NEW i \in IDs, A[i].ActualStart = NoDate, NEW d \in RequiredStarts(predicted', i)
                   PROVE  d <= predicted'[i].start
      BY <1>1, <2>1 DEF PredictionsFollowLinks, TopoOrderOK, RequiredStarts, Required, LinksInto, LinkSet
    <3>2. CASE evmIn.links = <<>>
      BY <3>1, <3>2 DEF RequiredStarts, LinksInto, LinkSet, ToSet
    <3>3. CASE evmIn.links # <<>>
      <4>1. Forward(Order) /\ \A j \in IDs : \E k \in 1..Len(Order) : Order[k] = j
        BY <1>0, <3>1, OrderSorts DEF EvmTypeOK
      <4>2. predicted' = FoldLeft(Pushed, predicted, Order)
        BY <2>1, <3>3
      <4>. QED
        BY <1>0, <2>2, <3>1, <4>1, <4>2, PropagationMeets DEF EvmTypeOK
    <3>. QED
      BY <3>2, <3>3
  <2>. QED
    BY <1>2, <2>1, <2>5, <2>6 DEF EvmInv
<1>9. CASE Draw
  <2>1. /\ actual'.points = Compared
        /\ actual'.earned = [d \in Compared |-> SumFunctionOnSet([i \in Worked(A) |-> Earned(i, d)], Worked(A))]
        /\ evmStep = "draw" /\ evmStep' = "idle" /\ UNCHANGED <<evmIn, predicted, outlook>>
    BY <1>9 DEF Draw
  <2>2. EarnedNeverFalls'
    <3>1. SUFFICES ASSUME \A i \in IDs : Sound(i), NEW d \in Compared, NEW e \in Compared, d <= e
                   PROVE  /\ actual'.earned[d] <= actual'.earned[e]
                          /\ actual'.earned[e] <= 100 * calculateBAC_Hours(A)
      BY <1>1, <2>1 DEF EarnedNeverFalls, Sound, status
    <3>2. d \in Int /\ e \in Int
      BY <1>0, ComparedDates DEF EvmTypeOK
    <3>3. isValid(A)
      BY <1>0, <2>1 DEF Valid
    <3>. QED
      BY <1>0, <2>1, <3>1, <3>2, <3>3, CurveRises DEF EvmTypeOK
  <2>3. EvmTypeOK' /\ Valid'
    BY <1>0, <1>1, <2>1 DEF EvmTypeOK, Valid
  <2>. QED
    BY <1>3, <2>1, <2>2, <2>3 DEF EvmInv
<1>10. CASE UNCHANGED evmVars
  <2>1. UNCHANGED <<evmIn, predicted, evmStep, outlook, actual>>
    BY <1>10 DEF evmVars
  <2>2. EvmTypeOK' /\ Valid'
    BY <1>0, <1>1, <2>1 DEF EvmTypeOK, Valid
  <2>3. PredictionsFollowLinks'
    BY <1>0, <1>1, <2>1
    DEF PredictionsFollowLinks, TopoOrderOK, RequiredStarts, Required, LinksInto, LinkSet
  <2>. QED
    BY <1>2, <2>1, <2>2, <2>3 DEF EvmInv
<1>. QED
  BY <1>4, <1>5, <1>6, <1>7, <1>8, <1>9, <1>10 DEF EvmNext

\* Throughout the calculation of EVM.js the activities and their predictions
\* are typed, what is being predicted has been validated, and both properties hold.
THEOREM EvmInvariance == EvmSpec => []EvmInv
BY EvmInitEstablishes, EvmStepKeeps, PTL DEF EvmSpec

\* However often working days are counted, weights decay and dates are pushed,
\* dates, durations and the outlook of EVM.js stay numbers, for every activity.
THEOREM EvmTypeCorrect == EvmSpec => []EvmTypeOK
<1>1. EvmInv => EvmTypeOK
  BY DEF EvmInv
<1>. QED
  BY <1>1, EvmInvariance, PTL

\* The earned-value curve of createActualEVMChart never falls and never earns
\* more than the budget, over any number of activities in any mixture of actual,
\* imputed, planned and predicted dates, and also after a forecast asked for
\* later has completed the start milestone.
THEOREM EarnedValueNeverFalls == EvmSpec => []EarnedNeverFalls
<1>1. EvmInv => EarnedNeverFalls
  BY DEF EvmInv
<1>. QED
  BY <1>1, EvmInvariance, PTL

\* Along the order left on the page, or computeTopologicalOrder's for any
\* network without a cycle, one pass of propagatePredictionsTopologically leaves
\* every activity that has not started where all of its links ask it to start.
THEOREM PredictionsRespectLinks == EvmSpec => []PredictionsFollowLinks
<1>1. EvmInv => PredictionsFollowLinks
  BY DEF EvmInv
<1>. QED
  BY <1>1, EvmInvariance, PTL

-----------------------------------------------------------------------------
(* The recovery options of Completionprediction.js and their assessments. *)

\* The best of a set of activities, as crashCandidates sorts them.
Best(R) == Smallest({i \in R : \A j \in R : CrashScore(j) <= CrashScore(i)})
Comparable == IsFiniteSet(Crashable) /\ Crashable \subseteq Int /\ \A i \in Crashable : CrashScore(i) \in Int
LEMMA BestFound ==
    ASSUME Comparable, NEW R \in SUBSET Crashable, R # {}
    PROVE  Best(R) \in R
<1>. DEFINE score == [i \in R |-> CrashScore(i)]
            scores == {score[i] : i \in R}
            top == {i \in R : \A j \in R : CrashScore(j) <= CrashScore(i)}
<1>1. IsFiniteSet(R) /\ R \subseteq Int
  BY FS_Subset DEF Comparable
<1>2. scores \subseteq Int /\ scores # {}
  BY DEF Comparable
<1>3. IsFiniteSet(scores)
  <2>. HIDE DEF score
  <2>. QED
    BY <1>1, FiniteImage
<1>4. PICK y \in scores : \A x \in scores : x <= y
  <2>. HIDE DEF scores
  <2>. QED
    BY <1>2, <1>3, FiniteGreatest
<1>5. top # {}
  BY <1>4
<1>6. top \subseteq Int /\ IsFiniteSet(top) /\ top \subseteq R
  BY <1>1, FS_Subset
<1>. HIDE DEF top
<1>7. \E m0 \in top : \A x \in top : m0 <= x
  BY <1>5, <1>6, FiniteLeast
<1>8. Smallest(top) \in top
  BY <1>7 DEF Smallest
<1>. QED
  BY <1>6, <1>8 DEF Best, top

\* No member comes twice.
Once(s) == \A j, k \in 1..Len(s) : s[j] = s[k] => j = k
IsRanking(rank) ==
    \A R \in SUBSET Crashable : rank[R] = IF R = {} THEN <<>> ELSE <<Best(R)>> \o rank[R \ {Best(R)}]

\* The ranking is a recursion over the sets of activities not yet ranked.
LEMMA RankingExists ==
    ASSUME Comparable
    PROVE  \E rank : IsRanking(rank) /\ crashCandidates = rank[Crashable]
<1>. DEFINE T == Seq(Crashable)
            score == [i \in Crashable |-> CrashScore(i)]
            pick == [R \in SUBSET Crashable |-> Best(R)]
            op == [q \in ((SUBSET Crashable) \ {{}}) \X T |-> <<Best(q[1])>> \o q[2]]
            rank == CHOOSE g : g = [R \in SUBSET Crashable |->
                       IF R = {} THEN <<>>
                       ELSE <<Smallest({i \in R : \A j \in R : score[j] <= score[i]})>>
                            \o g[R \ {Smallest({i \in R : \A j \in R : score[j] <= score[i]})}]]
<1>1. \A R \in SUBSET Crashable : R # {} => Best(R) \in R
  BY BestFound
<1>2. \A R \in (SUBSET Crashable) \ {{}}, q \in T : <<Best(R)>> \o q \in T
  <2>1. \A x \in Crashable, q \in T : <<x>> \o q \in T
    OBVIOUS
  <2>. HIDE DEF T
  <2>. QED
    BY <1>1, <2>1
<1>3. /\ op \in [((SUBSET Crashable) \ {{}}) \X T -> T]
      /\ \A R \in (SUBSET Crashable) \ {{}}, q \in T : op[<<R, q>>] = <<Best(R)>> \o q
  BY <1>2
<1>4. <<>> \in T /\ \A R \in SUBSET Crashable : pick[R] = Best(R)
  OBVIOUS
<1>. HIDE DEF op, T, pick
<1>5. PICK h : IsFold(h, Crashable, T, <<>>, pick, op)
  <2>1. IsFiniteSet(Crashable)
    BY DEF Comparable
  <2>. QED
    BY <1>1, <1>3, <1>4, <2>1, SetRecursion
<1>6. ASSUME NEW R \in SUBSET Crashable
      PROVE  h[R] = IF R = {} THEN <<>> ELSE <<Best(R)>> \o h[R \ {Best(R)}]
  <2>1. CASE R = {}
    BY <1>5, <2>1 DEF IsFold
  <2>2. CASE R # {}
    <3>1. R \ {Best(R)} \in SUBSET Crashable /\ pick[R] = Best(R)
      BY <1>4
    <3>2. h[R] = op[<<R, h[R \ {Best(R)}]>>] /\ h[R \ {Best(R)}] \in T
      BY <1>5, <2>2, <3>1 DEF IsFold
    <3>. QED
      BY <1>3, <2>2, <3>2
  <2>. QED
    BY <2>1, <2>2
<1>7. h = [R \in SUBSET Crashable |-> IF R = {} THEN <<>> ELSE <<Best(R)>> \o h[R \ {Best(R)}]]
  <2>1. h = [R \in SUBSET Crashable |-> h[R]]
    BY <1>5 DEF IsFold
  <2>. QED
    BY <1>6, <2>1, Zenon
<1>10. ASSUME NEW R \in SUBSET Crashable PROVE Best(R) = Smallest({i \in R : \A j \in R : score[j] <= score[i]})
  <2>1. {i \in R : \A j \in R : CrashScore(j) <= CrashScore(i)} = {i \in R : \A j \in R : score[j] <= score[i]}
    OBVIOUS
  <2>. QED
    BY <2>1 DEF Best
<1>11. h = [R \in SUBSET Crashable |->
              IF R = {} THEN <<>>
              ELSE <<Smallest({i \in R : \A j \in R : score[j] <= score[i]})>>
                   \o h[R \ {Smallest({i \in R : \A j \in R : score[j] <= score[i]})}]]
  <2>. HIDE DEF score
  <2>. QED
    BY <1>7, <1>10
<1>12. rank = [R \in SUBSET Crashable |->
              IF R = {} THEN <<>>
              ELSE <<Smallest({i \in R : \A j \in R : score[j] <= score[i]})>>
                   \o rank[R \ {Smallest({i \in R : \A j \in R : score[j] <= score[i]})}]]
  BY <1>11, Zenon
<1>8. rank = [R \in SUBSET Crashable |-> IF R = {} THEN <<>> ELSE <<Best(R)>> \o rank[R \ {Best(R)}]]
  <2>. HIDE DEF score, rank
  <2>. QED
    BY <1>10, <1>12
<1>9. crashCandidates = rank[Crashable]
  BY Zenon DEF crashCandidates, Ranked
<1>. HIDE DEF rank
<1>. QED
  BY <1>8, <1>9, Zenon DEF IsRanking

\* The candidates are listed, each once.
LEMMA CandidatesListed ==
    ASSUME Comparable
    PROVE  crashCandidates \in Seq(Crashable) /\ Once(crashCandidates)
<1>1. PICK rank : IsRanking(rank) /\ crashCandidates = rank[Crashable]
  BY RankingExists
<1>. DEFINE Good(R) == rank[R] \in Seq(R) /\ Once(rank[R])
            Bad == {R \in SUBSET Crashable : ~Good(R)}
<1>2. Bad = {}
  <2>. SUFFICES ASSUME Bad # {} PROVE FALSE
    OBVIOUS
  <2>1. PICK R \in Bad : \A x \in R : R \ {x} \notin Bad
    <3>1. Bad \subseteq SUBSET Crashable /\ IsFiniteSet(Crashable)
      BY DEF Comparable
    <3>. HIDE DEF Bad
    <3>. QED
      BY <3>1, SmallestSubset
  <2>2. CASE R = {}
    <3>1. rank[R] = <<>>
      BY <1>1, <2>1, <2>2 DEF IsRanking
    <3>2. <<>> \in Seq(R) /\ Len(<<>>) = 0
      OBVIOUS
    <3>3. Once(rank[R])
      BY <3>1, <3>2 DEF Once
    <3>. QED
      BY <2>1, <3>1, <3>2, <3>3
  <2>3. CASE R # {}
    <3>. DEFINE x == Best(R)
                r == R \ {x}
                q == rank[r]
    <3>1. x \in R /\ r \in SUBSET Crashable /\ r \subseteq R /\ x \notin r
      BY <2>1, <2>3, BestFound
    <3>2. q \in Seq(r) /\ Once(q)
      BY <2>1, <3>1
    <3>3. rank[R] = <<x>> \o q
      BY <1>1, <2>1, <2>3 DEF IsRanking
    <3>. HIDE DEF x, r, q
    <3>4. q \in Seq(R) /\ Len(q) \in Nat /\ \A k \in 1..Len(q) : q[k] \in r
      BY <3>1, <3>2
    <3>5. rank[R] \in Seq(R)
      BY <3>1, <3>3, <3>4
    <3>6. /\ Len(<<x>> \o q) = Len(q) + 1 /\ (<<x>> \o q)[1] = x
          /\ \A k \in 2..(Len(q) + 1) : (<<x>> \o q)[k] = q[k - 1]
      BY <3>1, <3>4
    <3>7. Once(rank[R])
      <4>1. \A k \in 2..(Len(q) + 1) : k - 1 \in 1..Len(q) /\ (<<x>> \o q)[k] # x
        BY <3>1, <3>4, <3>6
      <4>2. \A j, k \in 2..(Len(q) + 1) : (<<x>> \o q)[j] = (<<x>> \o q)[k] => j = k
        <5>1. \A j, k \in 2..(Len(q) + 1) : q[j - 1] = q[k - 1] => j - 1 = k - 1
          BY <3>2, <4>1 DEF Once
        <5>. QED
          BY <3>4, <3>6, <5>1
      <4>3. \A k \in 1..(Len(q) + 1) : k = 1 \/ k \in 2..(Len(q) + 1)
        BY <3>4
      <4>. QED
        BY <3>3, <3>6, <4>1, <4>2, <4>3 DEF Once
    <3>. QED
      BY <2>1, <3>5, <3>7
  <2>. QED
    BY <2>2, <2>3
<1>. QED
  BY <1>1, <1>2

\* Sequences joined one after another.
IsJoining(acc, s, n, S) ==
    /\ acc \in [0..n -> Seq(S)] /\ acc[0] = <<>> /\ acc[n] = FlattenSeq(s)
    /\ \A k \in 1..n : acc[k] = acc[k - 1] \o s[k]
LEMMA FlattenUnfolds ==
    ASSUME NEW S, NEW n \in Nat, NEW s \in [1..n -> Seq(S)]
    PROVE  \E acc : IsJoining(acc, s, n, S)
<1>. DEFINE T == Seq(S)
            op == [q \in Nat \X T |-> IF q[1] + 1 \in 1..n THEN q[2] \o s[q[1] + 1] ELSE q[2]]
            flatten == CHOOSE g : g = [i \in 1..Len(s) |-> IF i = 1 THEN s[i] ELSE g[i - 1] \o s[i]]
<1>1. <<>> \in T /\ s \in [1..n -> T] /\ \A p, q \in T : p \o q \in T /\ <<>> \o q = q
  OBVIOUS
<1>2. Len(s) = n
  OBVIOUS
<1>. HIDE DEF T
<1>3. op \in [Nat \X T -> T] /\ \A k \in 1..n, q \in T : op[<<k - 1, q>>] = q \o s[k]
  <2>1. \A q \in Nat \X T : (IF q[1] + 1 \in 1..n THEN q[2] \o s[q[1] + 1] ELSE q[2]) \in T
    BY <1>1
  <2>2. \A k \in 1..n : k - 1 \in Nat /\ (k - 1) + 1 = k
    OBVIOUS
  <2>. QED
    BY <2>1, <2>2
<1>. HIDE DEF op
<1>4. PICK h : Steps(h, Nat, T, <<>>, op)
  BY <1>1, <1>3, NatRecursion
<1>5. ASSUME NEW k \in 1..n PROVE h[k - 1] \in T /\ h[k] = h[k - 1] \o s[k]
  <2>1. k - 1 \in Nat /\ (k - 1) + 1 = k /\ k \in Nat
    OBVIOUS
  <2>2. h[k - 1] \in T /\ h[(k - 1) + 1] = op[<<k - 1, h[k - 1]>>]
    BY <1>4, <2>1 DEF Steps
  <2>. QED
    BY <1>3, <2>1, <2>2
<1>6. h[0] = <<>> /\ \A k \in 0..n : h[k] \in T
  BY <1>4 DEF Steps
<1>13. ASSUME 1 \in 1..n PROVE h[1] = s[1]
  <2>1. h[1] = h[1 - 1] \o s[1] /\ 1 - 1 = 0
    BY <1>5, <1>13
  <2>2. h[1] = <<>> \o s[1] /\ s[1] \in T
    BY <1>1, <1>6, <1>13, <2>1
  <2>. QED
    BY <1>1, <2>2
<1>. DEFINE g == [i \in 1..n |-> h[i]]
<1>7. g = [i \in 1..n |-> IF i = 1 THEN s[i] ELSE g[i - 1] \o s[i]]
  <2>1. ASSUME NEW i \in 1..n PROVE h[i] = IF i = 1 THEN s[i] ELSE g[i - 1] \o s[i]
    <3>1. CASE i = 1
      BY <1>13, <3>1
    <3>2. CASE i # 1
      <4>1. i - 1 \in 1..n
        BY <3>2
      <4>. QED
        BY <1>5, <3>2, <4>1
    <3>. QED
      BY <3>1, <3>2
  <2>. QED
    BY <2>1
<1>8. flatten = [i \in 1..Len(s) |-> IF i = 1 THEN s[i] ELSE flatten[i - 1] \o s[i]]
  <2>. HIDE DEF g
  <2>. QED
    BY <1>2, <1>7, Zenon
<1>9. FlattenSeq(s) = IF Len(s) = 0 THEN s ELSE flatten[Len(s)]
  BY Zenon DEF FlattenSeq
<1>. HIDE DEF flatten
<1>10. FlattenSeq(s) = h[n]
  <2>1. CASE n = 0
    <3>1. s = <<>>
      BY <2>1
    <3>. QED
      BY <1>2, <1>6, <1>9, <2>1, <3>1
  <2>2. CASE n # 0
    <3>. DEFINE G == {k \in Nat : k = 0 \/ k > n \/ flatten[k] = h[k]}
    <3>1. 0 \in G
      OBVIOUS
    <3>2. ASSUME NEW k \in 0..(n - 1), k \in G PROVE k + 1 \in G
      <4>1. k + 1 \in 1..n /\ (k + 1) - 1 = k
        OBVIOUS
      <4>2. flatten[k + 1] = IF k + 1 = 1 THEN s[k + 1] ELSE flatten[k] \o s[k + 1]
        BY <1>2, <1>8, <4>1
      <4>3. h[k + 1] = h[k] \o s[k + 1]
        BY <1>5, <4>1
      <4>4. CASE k = 0
        <5>1. flatten[1] = s[1] /\ h[1] = s[1]
          BY <1>13, <4>1, <4>2, <4>4
        <5>. QED
          BY <4>4, <5>1
      <4>5. CASE k # 0
        <5>1. flatten[k] = h[k]
          BY <3>2, <4>5
        <5>2. k + 1 # 1 /\ k + 1 \in Nat
          BY <4>5
        <5>3. flatten[k + 1] = h[k + 1]
          BY <4>2, <4>3, <5>1, <5>2
        <5>. QED
          BY <5>2, <5>3
      <4>. QED
        BY <4>4, <4>5
    <3>3. n \in G
      <4>. HIDE DEF G
      <4>. QED
        BY <3>1, <3>2, UpTo
    <3>. QED
      BY <1>2, <1>9, <2>2, <3>3
  <2>. QED
    BY <2>1, <2>2
<1>. DEFINE joined == [k \in 0..n |-> h[k]]
<1>11. joined \in [0..n -> T] /\ joined[0] = <<>> /\ joined[n] = FlattenSeq(s)
  BY <1>6, <1>10
<1>12. ASSUME NEW k \in 1..n PROVE joined[k] = joined[k - 1] \o s[k]
  <2>1. k \in 0..n /\ k - 1 \in 0..n
    OBVIOUS
  <2>. QED
    BY <1>5, <2>1
<1>14. joined \in [0..n -> Seq(S)]
  BY <1>11 DEF T
<1>15. joined[0] = <<>> /\ joined[n] = FlattenSeq(s)
  BY <1>11
<1>16. \A k \in 1..n : joined[k] = joined[k - 1] \o s[k]
  BY <1>12
<1>. HIDE DEF joined
<1>. QED
  BY <1>14, <1>15, <1>16 DEF IsJoining

\* What is joined of sequences of one member or none: their members, each once
\* when they differ.
Kept(s, k) == Len(s[k]) = 1
Joins(q, s, n) ==
    /\ \A k \in 1..n : Kept(s, k) => s[k][1] \in ToSet(q)
    /\ \A j \in 1..Len(q) : \E k \in 1..n : Kept(s, k) /\ q[j] = s[k][1]
AllDiffer(s, n) == \A j, k \in 1..n : Kept(s, j) /\ Kept(s, k) /\ s[j][1] = s[k][1] => j = k
LEMMA FlattenJoins ==
    ASSUME NEW S, NEW n \in Nat, NEW s \in [1..n -> Seq(S)], \A k \in 1..n : s[k] = <<>> \/ s[k] = <<s[k][1]>>
    PROVE  /\ FlattenSeq(s) \in Seq(S) /\ Joins(FlattenSeq(s), s, n)
           /\ AllDiffer(s, n) => Once(FlattenSeq(s))
<1>1. PICK acc : IsJoining(acc, s, n, S)
  BY FlattenUnfolds
<1>. DEFINE Good(k) == Joins(acc[k], s, k) /\ (AllDiffer(s, n) => Once(acc[k]))
            G == {k \in Nat : k > n \/ Good(k)}
<1>2. 0 \in G
  <2>1. acc[0] = <<>> /\ Len(<<>>) = 0
    BY <1>1 DEF IsJoining
  <2>. QED
    BY <2>1 DEF Joins, Once
<1>3. ASSUME NEW k \in 0..(n - 1), k \in G PROVE k + 1 \in G
  <2>. DEFINE q == acc[k]
              r == acc[k + 1]
              t == s[k + 1]
  <2>1. k + 1 \in 1..n /\ (k + 1) - 1 = k /\ k \in 0..n /\ k + 1 \in 0..n /\ k + 1 \in Nat
    OBVIOUS
  <2>2. q \in Seq(S) /\ t \in Seq(S) /\ r = q \o t
    BY <1>1, <2>1 DEF IsJoining
  <2>3. Joins(q, s, k) /\ (AllDiffer(s, n) => Once(q))
    BY <1>3
  <2>4. t = <<>> \/ t = <<t[1]>>
    BY <2>1
  <2>5. \A j \in 1..(k + 1) : j \in 1..k \/ j = k + 1
    OBVIOUS
  <2>6. \A j \in 1..k : j \in 1..(k + 1) /\ j \in 1..n /\ j # k + 1
    OBVIOUS
  <2>7. Kept(s, k + 1) <=> Len(t) = 1
    BY DEF Kept
  <2>. HIDE DEF q, r, t
  <2>8. CASE t = <<>>
    <3>1. r = q /\ ~Kept(s, k + 1)
      BY <2>2, <2>7, <2>8
    <3>2. Joins(r, s, k + 1)
      BY <2>3, <2>5, <2>6, <3>1 DEF Joins
    <3>. QED
      BY <2>1, <2>3, <3>1, <3>2 DEF r
  <2>9. CASE t = <<t[1]>>
    <3>. DEFINE x == t[1]
    <3>1. x \in S /\ r = Append(q, x) /\ Kept(s, k + 1) /\ x = s[k + 1][1]
      <4>1. Len(t) = 1
        BY <2>9
      <4>2. x \in S
        <5>1. 1 \in 1..Len(t)
          BY <4>1
        <5>. QED
          BY <2>2, <5>1, ElementOfSeq
      <4>. HIDE DEF x
      <4>3. r = q \o <<x>>
        BY <2>2, <2>9 DEF x
      <4>. QED
        BY <2>2, <2>7, <4>1, <4>2, <4>3 DEF x, t
    <3>. HIDE DEF x
    <3>2. /\ Len(r) = Len(q) + 1 /\ Len(q) \in Nat /\ r[Len(q) + 1] = x
          /\ \A j \in 1..Len(q) : r[j] = q[j]
          /\ DOMAIN r = 1..(Len(q) + 1) /\ DOMAIN q = 1..Len(q)
      BY <2>2, <3>1
    <3>3. \A j \in 1..(Len(q) + 1) : j \in 1..Len(q) \/ j = Len(q) + 1
      BY <3>2
    <3>4. x \in ToSet(r) /\ ToSet(q) \subseteq ToSet(r)
      <4>1. x \in ToSet(r)
        <5>1. Len(q) + 1 \in DOMAIN r
          BY <3>2
        <5>. QED
          BY <3>2, <5>1 DEF ToSet
      <4>2. ASSUME NEW j \in DOMAIN q PROVE q[j] \in ToSet(r)
        <5>1. j \in DOMAIN r /\ q[j] = r[j]
          BY <3>2, <4>2
        <5>. QED
          BY <5>1 DEF ToSet
      <4>. QED
        BY <4>1, <4>2 DEF ToSet
    <3>5. Joins(r, s, k + 1)
      <4>1. \A j \in 1..(k + 1) : Kept(s, j) => s[j][1] \in ToSet(r)
        BY <2>3, <2>5, <3>1, <3>4 DEF Joins
      <4>2. ASSUME NEW j \in 1..Len(r) PROVE \E i \in 1..(k + 1) : Kept(s, i) /\ r[j] = s[i][1]
        <5>1. CASE j = Len(q) + 1
          BY <2>1, <3>1, <3>2, <5>1
        <5>2. CASE j \in 1..Len(q)
          BY <2>3, <2>6, <3>2, <5>2 DEF Joins
        <5>. QED
          BY <3>2, <3>3, <5>1, <5>2
      <4>. QED
        BY <4>1, <4>2 DEF Joins
    <3>6. ASSUME AllDiffer(s, n) PROVE Once(r)
      <4>1. \A j \in 1..Len(q) : q[j] # x
        <5>. SUFFICES ASSUME NEW j \in 1..Len(q), q[j] = x PROVE FALSE
          OBVIOUS
        <5>1. PICK i \in 1..k : Kept(s, i) /\ q[j] = s[i][1]
          BY <2>3 DEF Joins
        <5>2. i = k + 1
          BY <2>1, <2>6, <3>1, <3>6, <5>1 DEF AllDiffer
        <5>. QED
          BY <2>6, <5>2
      <4>. QED
        BY <2>3, <3>2, <3>3, <3>6, <4>1 DEF Once
    <3>. QED
      BY <2>1, <3>5, <3>6 DEF r
  <2>. QED
    BY <2>4, <2>8, <2>9
<1>4. n \in G
  <2>. HIDE DEF G
  <2>. QED
    BY <1>2, <1>3, UpTo
<1>5. Good(n)
  BY <1>4
<1>6. acc[n] \in Seq(S)
  BY <1>1 DEF IsJoining
<1>. QED
  BY <1>1, <1>5, <1>6 DEF IsJoining

\* And so are those that the service is asked about.
LEMMA LongListed ==
    ASSUME Comparable
    PROVE  LongCandidates \in Seq(Crashable) /\ Once(LongCandidates)
<1>. DEFINE n == Len(crashCandidates)
            s == [k \in 1..n |-> IF ToCrash(crashCandidates[k]) >= 3 * HoursPerDay THEN <<crashCandidates[k]>> ELSE <<>>]
<1>1. n \in Nat /\ Once(crashCandidates) /\ \A k \in 1..n : crashCandidates[k] \in Crashable
  BY CandidatesListed
<1>2. LongCandidates = FlattenSeq(s)
  BY DEF LongCandidates
<1>3. ASSUME NEW k \in 1..n
      PROVE  /\ s[k] \in Seq(Crashable) /\ (s[k] = <<>> \/ s[k] = <<s[k][1]>>)
             /\ Len(s[k]) = 1 => s[k][1] = crashCandidates[k]
  <2>. DEFINE x == crashCandidates[k]
  <2>1. x \in Crashable /\ (s[k] = <<>> \/ s[k] = <<x>>)
    BY <1>1
  <2>. HIDE DEF s, n
  <2>. HIDE DEF x
  <2>2. <<>> \in Seq(Crashable) /\ Len(<<>>) = 0 /\ <<x>> \in Seq(Crashable) /\ <<x>>[1] = x
    BY <2>1
  <2>3. CASE s[k] = <<>>
    BY <2>2, <2>3
  <2>4. CASE s[k] = <<x>>
    <3>1. s[k][1] = x
      BY <2>2, <2>4
    <3>. QED
      BY <2>2, <2>4, <3>1 DEF x
  <2>. QED
    BY <2>1, <2>3, <2>4
<1>4. s \in [1..n -> Seq(Crashable)]
  BY <1>3
<1>5. AllDiffer(s, n)
  <2>. HIDE DEF s, n
  <2>. QED
    BY <1>1, <1>3 DEF AllDiffer, Kept, Once, n
<1>. HIDE DEF s, n
<1>. QED
  BY <1>1, <1>2, <1>3, <1>4, <1>5, FlattenJoins

\* Of a set of places, one is the last.
LEMMA LastPlace ==
    ASSUME NEW n \in Nat, NEW S \in SUBSET (1..n), S # {}
    PROVE  Max(S) \in S /\ \A x \in S : x <= Max(S)
<1>1. IsFiniteSet(1..n) /\ 1..n \subseteq Int
  BY FS_Interval
<1>2. IsFiniteSet(S) /\ S \subseteq Int
  BY <1>1, FS_Subset
<1>3. \E y \in S : \A x \in S : y >= x
  <2>1. PICK y \in S : \A x \in S : x <= y
    BY <1>2, FiniteGreatest
  <2>. QED
    BY <1>2, <2>1
<1>4. Max(S) \in S /\ \A x \in S : Max(S) >= x
  BY <1>3 DEF Max
<1>. QED
  BY <1>2, <1>4

\* The plan grows candidate by candidate.
NoOptions(need) == [options |-> <<>>, need |-> need, achieved |-> 0]
IsGreedy(iter, most, need, limited, n) ==
    /\ iter[{}] = NoOptions(need) /\ iter[1..n] = Greedy(crashCandidates, most, need, limited)
    /\ \A k \in 1..n : iter[1..k] = Taken(iter[1..(k - 1)], crashCandidates[k], most[crashCandidates[k]], limited)
LEMMA GreedyUnfolds ==
    ASSUME NEW n \in Nat, DOMAIN crashCandidates = 1..n, NEW most, NEW need, NEW limited
    PROVE  \E iter : IsGreedy(iter, most, need, limited, n)
<1>. DEFINE D == SUBSET (1..n)
            Body(f, R) == IF R = {} THEN NoOptions(need)
                          ELSE LET x == Max(R) IN Taken(f[R \ {x}], crashCandidates[x], most[crashCandidates[x]], limited)
            Right(k, f) == \A R \in D : R \subseteq 1..k => f[R] = Body(f, R)
            G == {k \in Nat : \E f : Right(k, f)}
            iter == CHOOSE g : g = [R \in SUBSET DOMAIN crashCandidates |-> Body(g, R)]
<1>1. 0 \in G
  <2>. DEFINE f == [R \in D |-> NoOptions(need)]
  <2>1. \A R \in D : R \subseteq 1..0 => R = {}
    OBVIOUS
  <2>2. Right(0, f)
    BY <2>1
  <2>. QED
    BY <2>2
<1>2. ASSUME NEW k \in 0..(n - 1), k \in G PROVE k + 1 \in G
  <2>1. PICK f : Right(k, f)
    BY <1>2
  <2>. DEFINE g == [R \in D |-> Body(f, R)]
  <2>2. \A R \in D : R \subseteq 1..k => g[R] = f[R]
    BY <2>1
  <2>3. ASSUME NEW R \in D, R \subseteq 1..(k + 1) PROVE g[R] = Body(g, R)
    <3>1. CASE R = {}
      BY <3>1
    <3>2. CASE R # {}
      <4>. DEFINE x == Max(R)
      <4>1. x \in R /\ \A y \in R : y <= x
        BY <3>2, LastPlace
      <4>. HIDE DEF x
      <4>2. R \ {x} \in D /\ R \ {x} \subseteq 1..k
        BY <2>3, <4>1
      <4>3. g[R \ {x}] = f[R \ {x}]
        BY <2>2, <4>2
      <4>4. g[R] = Taken(f[R \ {x}], crashCandidates[x], most[crashCandidates[x]], limited)
        BY <3>2 DEF x
      <4>. HIDE DEF g
      <4>. QED
        BY <3>2, <4>3, <4>4 DEF x
    <3>. QED
      BY <3>1, <3>2
  <2>. HIDE DEF g
  <2>4. Right(k + 1, g)
    BY <2>3
  <2>5. k + 1 \in Nat
    OBVIOUS
  <2>. QED
    BY <2>4, <2>5, Zenon
<1>3. n \in G
  <2>. HIDE DEF G
  <2>. QED
    BY <1>1, <1>2, UpTo
<1>4. PICK f : Right(n, f)
  BY <1>3
<1>. DEFINE h == [R \in D |-> f[R]]
<1>5. ASSUME NEW R \in D PROVE h[R] = Body(h, R)
  <2>1. CASE R = {}
    BY <1>4, <2>1
  <2>2. CASE R # {}
    <3>1. R \ {Max(R)} \in D
      OBVIOUS
    <3>2. f[R] = Body(f, R) /\ h[R] = f[R] /\ h[R \ {Max(R)}] = f[R \ {Max(R)}]
      BY <1>4, <3>1
    <3>. HIDE DEF h
    <3>. QED
      BY <2>2, <3>2
  <2>. QED
    BY <2>1, <2>2
<1>6. h = [R \in SUBSET DOMAIN crashCandidates |-> Body(h, R)]
  <2>1. h = [R \in D |-> h[R]]
    OBVIOUS
  <2>. HIDE DEF h, Body
  <2>. QED
    BY <1>5, <2>1
<1>. HIDE DEF h
<1>7. iter = [R \in SUBSET DOMAIN crashCandidates |-> Body(iter, R)]
  BY <1>6, Zenon
<1>8. Greedy(crashCandidates, most, need, limited) = iter[1..n]
  BY Zenon DEF Greedy, FoldLeft, MapThenFoldSet, NoOptions
<1>. HIDE DEF iter
<1>9. iter[{}] = NoOptions(need)
  BY <1>7
<1>10. ASSUME NEW k \in 1..n PROVE iter[1..k] = Taken(iter[1..(k - 1)], crashCandidates[k], most[crashCandidates[k]], limited)
  <2>1. 1..k \in D /\ k \in 1..k /\ (1..k) \ {k} = 1..(k - 1)
    OBVIOUS
  <2>2. Max(1..k) = k
    <3>1. Max(1..k) \in 1..k /\ k <= Max(1..k)
      BY <2>1, LastPlace
    <3>. QED
      BY <3>1
  <2>3. iter[1..k] = Body(iter, 1..k) /\ 1..k # {}
    BY <1>7, <2>1
  <2>. QED
    BY <2>1, <2>2, <2>3
<1>. QED
  BY <1>8, <1>9, <1>10 DEF IsGreedy

\* A plan is a list of options.
IsPlan(options) ==
    /\ options \in Seq(ToSet(options))
    /\ \A j \in 1..Len(options) : options[j] = [id |-> options[j].id, crashHours |-> options[j].crashHours]

\* It stays one with what a candidate adds.
LEMMA TakenKeeps ==
    ASSUME NEW p, IsPlan(p.options), NEW i, NEW most, NEW limited
    PROVE  IsPlan(Taken(p, i, most, limited).options)
<1>. DEFINE hours == IF limited THEN Smaller(most, p.need) ELSE most
            option == [id |-> i, crashHours |-> (hours + 50) \div 100]
            more == Append(p.options, option)
<1>1. Taken(p, i, most, limited) = p \/ Taken(p, i, most, limited).options = more
  BY DEF Taken
<1>2. option = [id |-> option.id, crashHours |-> option.crashHours]
  OBVIOUS
<1>. HIDE DEF option
<1>3. IsPlan(more)
  <2>. DEFINE q == p.options
              S == ToSet(q) \cup {option}
              n == Len(q)
  <2>1. q \in Seq(S) /\ option \in S
    BY DEF IsPlan
  <2>2. \A j \in 1..n : q[j] = [id |-> q[j].id, crashHours |-> q[j].crashHours]
    BY DEF IsPlan
  <2>. HIDE DEF q, S, n
  <2>3. /\ more \in Seq(S) /\ Len(more) = n + 1 /\ n \in Nat /\ more[n + 1] = option
        /\ \A j \in 1..n : more[j] = q[j]
    BY <2>1 DEF q, n
  <2>. HIDE DEF more
  <2>4. \A j \in 1..(n + 1) : j \in 1..n \/ j = n + 1
    BY <2>3
  <2>5. \A j \in 1..Len(more) : more[j] = [id |-> more[j].id, crashHours |-> more[j].crashHours]
    BY <1>2, <2>2, <2>3, <2>4
  <2>6. more \in Seq(ToSet(more))
    <3>1. DOMAIN more = 1..(n + 1) /\ more = [j \in 1..(n + 1) |-> more[j]]
      BY <2>3
    <3>2. more \in [1..(n + 1) -> ToSet(more)] /\ n + 1 \in Nat
      BY <2>3, <3>1 DEF ToSet
    <3>. QED
      BY <3>2
  <2>. QED
    BY <2>5, <2>6 DEF IsPlan
<1>. QED
  BY <1>1, <1>3

\* What buildCrashOptions offers is a plan.
LEMMA GreedyPlans ==
    ASSUME Comparable, NEW most, NEW need, NEW limited
    PROVE  IsPlan(Greedy(crashCandidates, most, need, limited).options)
<1>. DEFINE n == Len(crashCandidates)
<1>1. n \in Nat /\ DOMAIN crashCandidates = 1..n
  BY CandidatesListed
<1>2. PICK iter : IsGreedy(iter, most, need, limited, n)
  BY <1>1, GreedyUnfolds
<1>. DEFINE G == {k \in Nat : k > n \/ IsPlan(iter[1..k].options)}
<1>3. 0 \in G
  <2>1. 1..0 = {} /\ iter[{}].options = <<>>
    BY <1>2 DEF NoOptions, IsGreedy
  <2>2. IsPlan(<<>>)
    BY DEF IsPlan
  <2>. QED
    BY <2>1, <2>2
<1>4. ASSUME NEW k \in 0..(n - 1), k \in G PROVE k + 1 \in G
  <2>1. k + 1 \in 1..n /\ (k + 1) - 1 = k /\ k + 1 \in Nat /\ ~(k > n)
    BY <1>1
  <2>2. iter[1..(k + 1)] = Taken(iter[1..k], crashCandidates[k + 1], most[crashCandidates[k + 1]], limited) /\ IsPlan(iter[1..k].options)
    BY <1>2, <1>4, <2>1 DEF IsGreedy
  <2>3. IsPlan(iter[1..(k + 1)].options)
    BY <2>2, TakenKeeps
  <2>. QED
    BY <2>1, <2>3
<1>5. n \in G
  <2>. HIDE DEF G
  <2>. QED
    BY <1>1, <1>3, <1>4, UpTo
<1>. QED
  BY <1>1, <1>2, <1>5 DEF IsGreedy

\* No option with hours left is lost when the assessments are applied.
LEMMA AssessedOptions ==
    ASSUME NEW options, IsPlan(options), NEW feasible, NEW k \in 1..Len(options),
           Adjusted(options[k], feasible).crashHours > 0
    PROVE  Adjusted(options[k], feasible) \in ToSet(Assessed(options, feasible))
<1>. DEFINE n == Len(options)
            S == {Adjusted(options[j], feasible) : j \in 1..n}
            s == [j \in 1..n |-> LET op == Adjusted(options[j], feasible) IN IF op.crashHours > 0 THEN <<op>> ELSE <<>>]
<1>1. n \in Nat
  BY DEF IsPlan
<1>2. Assessed(options, feasible) = FlattenSeq(s)
  BY DEF Assessed
<1>3. ASSUME NEW j \in 1..n
      PROVE  s[j] \in Seq(S) /\ (s[j] = <<>> \/ s[j] = <<s[j][1]>>)
  <2>. DEFINE x == Adjusted(options[j], feasible)
  <2>1. x \in S /\ (s[j] = <<>> \/ s[j] = <<x>>)
    OBVIOUS
  <2>. HIDE DEF x, s, S
  <2>2. <<>> \in Seq(S) /\ <<x>> \in Seq(S) /\ <<x>>[1] = x
    BY <2>1
  <2>3. CASE s[j] = <<>>
    BY <2>2, <2>3
  <2>4. CASE s[j] = <<x>>
    <3>1. s[j][1] = x
      BY <2>2, <2>4
    <3>. QED
      BY <2>2, <2>4, <3>1
  <2>. QED
    BY <2>1, <2>3, <2>4
<1>4. s \in [1..n -> Seq(S)]
  BY <1>3
<1>5. s[k] = <<Adjusted(options[k], feasible)>>
  OBVIOUS
<1>. HIDE DEF s, S, n
<1>6. Joins(FlattenSeq(s), s, n)
  BY <1>1, <1>3, <1>4, FlattenJoins
<1>7. Kept(s, k) /\ s[k][1] = Adjusted(options[k], feasible) /\ k \in 1..n
  BY <1>5 DEF Kept, n
<1>. QED
  BY <1>2, <1>6, <1>7 DEF Joins

\* The numbers under which an answer is about an activity.
Told(answer, i) ==
    {n \in DOMAIN answer : n <= aiEnrichmentMaxCandidates /\ n <= Len(LongCandidates) /\ LongCandidates[n] = i}
\* An answer is understood as it is numbered.
LEMMA AnswersUnderstood ==
    ASSUME Comparable, NEW answer, DOMAIN answer \subseteq Nat \ {0}, NEW i
    PROVE  /\ i \in DOMAIN Assessments(answer) <=> Told(answer, i) # {}
           /\ \A n \in Told(answer, i) : Assessments(answer)[i] = answer[n]
<1>. DEFINE long == LongCandidates
            top == Smaller(aiEnrichmentMaxCandidates, Len(long))
            named == {k \in DOMAIN answer : k \in 1..Len(candidatesToEnrich)}
<1>1. Len(long) \in Nat /\ Once(long) /\ long \in Seq(Crashable)
  BY LongListed
<1>2. top \in Nat /\ top <= Len(long) /\ top <= aiEnrichmentMaxCandidates
      /\ \A k \in Nat : k <= top <=> k <= aiEnrichmentMaxCandidates /\ k <= Len(long)
  BY <1>1, CompletionAssumption DEF Smaller
<1>3. candidatesToEnrich = SubSeq(long, 1, top)
  BY DEF candidatesToEnrich
<1>. HIDE DEF long, top
<1>4. Len(candidatesToEnrich) = top /\ \A k \in 1..top : candidatesToEnrich[k] = long[k]
  BY <1>1, <1>2, <1>3
<1>5. named = {k \in DOMAIN answer : k <= top} /\ \A k \in named : k \in 1..Len(long) /\ AssessedAs(k) = long[k]
  BY <1>1, <1>2, <1>4 DEF AssessedAs
<1>6. Told(answer, i) = {k \in named : AssessedAs(k) = i}
  BY <1>2, <1>5 DEF Told, long
<1>7. Assessments(answer) = [j \in {AssessedAs(k) : k \in named} |-> answer[CHOOSE k \in named : AssessedAs(k) = j]]
  BY DEF Assessments
<1>. HIDE DEF named
<1>8. i \in DOMAIN Assessments(answer) <=> \E k \in named : AssessedAs(k) = i
  BY <1>7
<1>9. ASSUME NEW n \in Told(answer, i) PROVE Assessments(answer)[i] = answer[n]
  <2>1. n \in named /\ AssessedAs(n) = i
    BY <1>6
  <2>2. \A k \in named : AssessedAs(k) = i => k = n
    BY <1>1, <1>5, <2>1 DEF Once
  <2>3. (CHOOSE k \in named : AssessedAs(k) = i) = n
    BY <2>1, <2>2
  <2>4. i \in {AssessedAs(k) : k \in named}
    BY <2>1
  <2>. QED
    BY <1>7, <2>3, <2>4
<1>. QED
  BY <1>6, <1>8, <1>9

\* So much the state tells of the plan that is offered, and of what the
\* assessments make of it.
Offered == Greedy(crashCandidates, [i \in Crashable |-> MaxCrash(i)], targetDays(risk) * HoursPerDay * 100,
                  expected.variance > 0).options
RecoveryInv ==
    /\ completionIn \in CompletionSchedules /\ completionStep \in {"expect", "simulate", "options", "shown"}
    /\ completionStep # "expect" => maps = getStateMaps(completionIn)
    /\ completionStep = "shown" => {"enriched", "recoveryOptions"} \subseteq DOMAIN crashPlan
    /\ completionStep = "shown" =>
          \/ crashPlan.enriched = [i \in {} |-> 0] /\ crashPlan.recoveryOptions = Offered
          \/ /\ crashPlan.enriched # [i \in {} |-> 0] /\ DOMAIN crashPlan.enriched \subseteq Nat \ {0}
             /\ crashPlan.recoveryOptions = Assessed(Offered, Assessments(crashPlan.enriched))

\* What the page has parsed can be compared.
LEMMA Compares ==
    ASSUME completionIn \in CompletionSchedules, maps = getStateMaps(completionIn)
    PROVE  Comparable
<1>. DEFINE s == completionIn
<1>1. IsFiniteSet(DOMAIN s.node) /\ DOMAIN s.node \subseteq Int /\ s.node \in [DOMAIN s.node -> CompletionActivity]
  BY CompletionAssumption
<1>2. PICK day : maps.node = [i \in DOMAIN s.node |->
         [s.node[i] EXCEPT !.ActualStart = Sanitized(@, day), !.ActualFinish = Sanitized(@, day)]]
  BY DEF getStateMaps
<1>3. NodesOf(maps) = DOMAIN s.node
  BY <1>2 DEF NodesOf
<1>4. ASSUME NEW i \in DOMAIN s.node
      PROVE  N(i).Duration \in Int /\ N(i).PercentComplete \in Int /\ N(i).TotalFloat \in Int /\ N(i).importance \in Int
  <2>1. s.node[i] \in CompletionActivity
    BY <1>1
  <2>2. /\ N(i).Duration = s.node[i].Duration /\ N(i).PercentComplete = s.node[i].PercentComplete
        /\ N(i).TotalFloat = s.node[i].TotalFloat /\ N(i).importance = s.node[i].importance
    BY <1>2, <2>1 DEF N, CompletionActivity
  <2>. QED
    BY <2>1, <2>2 DEF CompletionActivity
<1>5. Crashable \subseteq DOMAIN s.node
  BY <1>3 DEF Crashable, Open
<1>6. ASSUME NEW i \in DOMAIN s.node PROVE CrashScore(i) \in Int
  <2>1. normalizePercentComplete(N(i).PercentComplete) \in Int
    BY <1>4 DEF normalizePercentComplete, Clamp, Larger, Smaller
  <2>2. ToCrash(i) \in Int
    BY <1>4, <2>1 DEF ToCrash, Larger
  <2>3. FloatDays(i) \in Int
    BY <1>4, CalendarAssumption DEF FloatDays
  <2>4. Leverage(i) \in Int
    BY <2>3 DEF Leverage, Clamp, Larger, Smaller
  <2>5. 55 + (45 * N(i).importance) \div 100 \in Int
    BY <1>4
  <2>. QED
    BY <2>2, <2>4, <2>5 DEF CrashScore
<1>. QED
  BY <1>1, <1>5, <1>6, FS_Subset DEF Comparable

\* What was calculated of the analysis stays until another one.
LEMMA Stays ==
    ASSUME UNCHANGED <<maps, expected, scope, risk>>
    PROVE  /\ Offered' = Offered
           /\ \A answer : Assessments(answer)' = Assessments(answer)
           /\ (Assessments(crashPlan.enriched))' = Assessments(crashPlan'.enriched)
<1>1. Crashable' = Crashable
  BY DEF Crashable, Open, MaxCrash, ToCrash, FloatDays, OnChain, Chain, N
<1>2. [i \in Crashable |-> CrashScore(i)]' = [i \in Crashable |-> CrashScore(i)]
  BY <1>1 DEF CrashScore, Leverage, ToCrash, FloatDays, OnChain, Chain, N
<1>7. [i \in Crashable |-> MaxCrash(i)]' = [i \in Crashable |-> MaxCrash(i)]
  BY <1>1 DEF MaxCrash, ToCrash, N
<1>8. crashCandidates' = crashCandidates
  BY <1>1, <1>2 DEF crashCandidates
<1>3. targetDays(risk)' = targetDays(risk)
  BY DEF targetDays
<1>4. Offered' = Offered
  BY <1>3, <1>7, <1>8 DEF Offered
<1>5. LongCandidates' = LongCandidates
  BY <1>8 DEF LongCandidates, ToCrash, N
<1>6. candidatesToEnrich' = candidatesToEnrich
  BY <1>5 DEF candidatesToEnrich
<1>. QED
  BY <1>4, <1>6 DEF Assessments, AssessedAs

\* Every step of Completionprediction.js keeps it, the selections and scenarios
\* too; an assessment is applied to what was offered, and once.
LEMMA RecoveryInvariance == CompletionSpec => []RecoveryInv
<1>1. CompletionInit => RecoveryInv
  BY DEF CompletionInit, RecoveryInv
<1>2. ASSUME RecoveryInv, [CompletionNext]_completionVars PROVE RecoveryInv'
  <2>1. CASE Expect
    BY <1>2, <2>1 DEF RecoveryInv, Expect
  <2>2. CASE Simulate
    BY <1>2, <2>2 DEF RecoveryInv, Simulate
  <2>3. CASE Offer
    <3>1. Offered' = Offered
      BY <2>3, Stays DEF Offer
    <3>2. /\ crashPlan'.enriched = [i \in {} |-> 0] /\ crashPlan'.recoveryOptions = Offered
          /\ {"enriched", "recoveryOptions"} \subseteq DOMAIN crashPlan'
      BY <2>3 DEF Offer, buildCrashOptions, Offered
    <3>. QED
      BY <1>2, <2>3, <3>1, <3>2 DEF RecoveryInv, Offer
  <2>4. CASE Enrich
    <3>1. Offered' = Offered /\ (Assessments(crashPlan.enriched))' = Assessments(crashPlan'.enriched)
      BY <2>4, Stays DEF Enrich
    <3>2. crashPlan.recoveryOptions = Offered
      BY <1>2, <2>4 DEF RecoveryInv, Enrich
    <3>3. PICK numbers \in SUBSET (1..Len(candidatesToEnrich) + 1) : \E answer \in [numbers -> {0, 50}] :
             LET feasible == Assessments(answer)
                 options == Assessed(crashPlan.recoveryOptions, feasible)
             IN  /\ DOMAIN feasible # {}
                 /\ crashPlan' = [crashPlan EXCEPT !.recoveryOptions = options, !.enriched = answer,
                                                   !.achievedDays = RoundedDays(HoursOf(options))]
      BY <2>4, Zenon DEF Enrich
    <3>6. PICK answer \in [numbers -> {0, 50}] :
             LET feasible == Assessments(answer)
                 options == Assessed(crashPlan.recoveryOptions, feasible)
             IN  /\ DOMAIN feasible # {}
                 /\ crashPlan' = [crashPlan EXCEPT !.recoveryOptions = options, !.enriched = answer,
                                                   !.achievedDays = RoundedDays(HoursOf(options))]
      BY <3>3
    <3>7. /\ DOMAIN crashPlan' = DOMAIN crashPlan /\ crashPlan'.enriched = answer
          /\ crashPlan'.recoveryOptions = Assessed(Offered, Assessments(answer))
      BY <1>2, <2>4, <3>2, <3>6 DEF RecoveryInv, Enrich
    <3>4. numbers \subseteq Nat \ {0} /\ DOMAIN answer = numbers
      OBVIOUS
    <3>5. answer # [i \in {} |-> 0]
      <4>1. DOMAIN Assessments(answer) # {}
        BY <3>6
      <4>2. DOMAIN answer # {}
        BY <4>1 DEF Assessments
      <4>. QED
        BY <4>2
    <3>. QED
      BY <1>2, <2>4, <3>1, <3>4, <3>5, <3>7 DEF RecoveryInv, Enrich
  <2>5. CASE \E option \in Options : Select(option)
    <3>1. Offered' = Offered /\ (Assessments(crashPlan.enriched))' = Assessments(crashPlan'.enriched) /\ crashPlan' = crashPlan
      BY <2>5, Stays DEF Select
    <3>. QED
      BY <1>2, <2>5, <3>1 DEF RecoveryInv, Select
  <2>6. CASE UNCHANGED completionVars
    <3>1. Offered' = Offered /\ (Assessments(crashPlan.enriched))' = Assessments(crashPlan'.enriched) /\ crashPlan' = crashPlan
      BY <2>6, Stays DEF completionVars
    <3>. QED
      BY <1>2, <2>6, <3>1 DEF RecoveryInv, completionVars
  <2>. QED
    BY <1>2, <2>1, <2>2, <2>3, <2>4, <2>5, <2>6 DEF CompletionNext
<1>. QED
  BY <1>1, <1>2, PTL DEF CompletionSpec

\* For every schedule, whatever the caps: an answer of the service to
\* requestCrashEnrichment, complete or not and in any order, scales the option of
\* the activity that was sent under its number, and applyAIEnrichment leaves
\* every other option that has hours as it was.
THEOREM AssessmentsReachTheirCandidates == CompletionSpec => []EnrichesItsCandidate
<1>1. RecoveryInv => EnrichesItsCandidate
  <2>. SUFFICES ASSUME RecoveryInv, completionStep = "shown" PROVE EnrichesItsCandidate
    BY DEF EnrichesItsCandidate
  <2>. DEFINE answer == crashPlan.enriched
              feasible == Assessments(answer)
              after == ToSet(crashPlan.recoveryOptions)
              hours(op, n) == Scaled(op.crashHours, answer[n])
  <2>1. Comparable
    BY Compares DEF RecoveryInv
  <2>2. IsPlan(Offered) /\ buildCrashOptions(risk).recoveryOptions = Offered
    BY <2>1, GreedyPlans DEF Offered, buildCrashOptions
  <2>3. SUFFICES ASSUME NEW k \in 1..Len(Offered)
                 PROVE  /\ Told(answer, Offered[k].id) = {} /\ Offered[k].crashHours > 0 => Offered[k] \in after
                        /\ \A n \in Told(answer, Offered[k].id) : hours(Offered[k], n) > 0 =>
                              [Offered[k] EXCEPT !.crashHours = hours(Offered[k], n)] \in after
    BY <2>2 DEF EnrichesItsCandidate, Told
  <2>. DEFINE op == Offered[k]
              id == op.id
  <2>4. op = [id |-> op.id, crashHours |-> op.crashHours]
    BY <2>2 DEF IsPlan
  <2>5. CASE answer = [i \in {} |-> 0] /\ crashPlan.recoveryOptions = Offered
    <3>1. Told(answer, id) = {}
      BY <2>5 DEF Told
    <3>2. DOMAIN Offered = 1..Len(Offered)
      BY <2>2 DEF IsPlan
    <3>3. op \in after
      BY <2>5, <3>2 DEF ToSet
    <3>. QED
      BY <3>1, <3>3
  <2>6. CASE DOMAIN answer \subseteq Nat \ {0} /\ crashPlan.recoveryOptions = Assessed(Offered, feasible)
    <3>1. /\ id \in DOMAIN feasible <=> Told(answer, id) # {}
          /\ \A n \in Told(answer, id) : feasible[id] = answer[n]
      BY <2>1, <2>6, AnswersUnderstood
    <3>2. Adjusted(op, feasible).crashHours > 0 => Adjusted(op, feasible) \in after
      BY <2>2, <2>6, AssessedOptions
    <3>3. Told(answer, id) = {} => Adjusted(op, feasible) = op
      BY <3>1 DEF Adjusted
    <3>4. ASSUME NEW n \in Told(answer, id)
          PROVE  /\ Adjusted(op, feasible) = [op EXCEPT !.crashHours = hours(op, n)]
                 /\ Adjusted(op, feasible).crashHours = hours(op, n)
      <4>1. Adjusted(op, feasible) = [op EXCEPT !.crashHours = hours(op, n)]
        BY <3>1 DEF Adjusted
      <4>2. [op EXCEPT !.crashHours = hours(op, n)].crashHours = hours(op, n)
        <5>. DEFINE h == hours(op, n)
        <5>. HIDE DEF h, op
        <5>. QED
          BY <2>4
      <4>. QED
        BY <4>1, <4>2
    <3>. HIDE DEF op, feasible, answer, after
    <3>. QED
      BY <3>2, <3>3, <3>4 DEF op
  <2>. QED
    BY <2>5, <2>6 DEF RecoveryInv
<1>. QED
  BY <1>1, RecoveryInvariance, PTL

-----------------------------------------------------------------------------
(* The network of the groups in CommunityGroups.js. *)

\* Counting by a mark, the counts of all the marks add up to what has one of them.
Marked(S, mark, t) == {k \in S : mark[k] = t}
LEMMA CountsAddUp ==
    ASSUME NEW S, IsFiniteSet(S), NEW T, IsFiniteSet(T), NEW mark, \A k \in S : mark[k] \in T,
           NEW count, \A t \in T : count[t] = Cardinality(Marked(S, mark, t))
    PROVE  SumFunctionOnSet(count, T) = Cardinality(S)
<1>. DEFINE Of(R) == {k \in S : mark[k] \in R}
            With(t) == Marked(S, mark, t)
<1>1. \A R : IsFiniteSet(Of(R)) /\ Cardinality(Of(R)) \in Nat
  BY FS_Subset, FS_CardinalityType
<1>2. \A t : IsFiniteSet(With(t)) /\ Cardinality(With(t)) \in Nat
  BY FS_Subset, FS_CardinalityType DEF Marked
<1>3. \A t \in T : count[t] \in Int
  <2>1. \A t \in T : count[t] = Cardinality(With(t))
    OBVIOUS
  <2>. HIDE DEF With
  <2>. QED
    BY <1>2, <2>1
<1>4. PICK sum : IsSum(sum, count, T) /\ sum[T] = SumFunctionOnSet(count, T)
  BY <1>3, SumUnfolds
<1>. DEFINE Bad == {R \in SUBSET T : sum[R] # Cardinality(Of(R))}
<1>5. SUFFICES ASSUME Bad # {} PROVE FALSE
  <2>1. Of(T) = S
    OBVIOUS
  <2>. QED
    BY <1>4, <2>1
<1>6. PICK R \in Bad : \A x \in R : R \ {x} \notin Bad
  <2>. Bad \subseteq SUBSET T
    OBVIOUS
  <2>. HIDE DEF Bad
  <2>. QED
    BY <1>5, SmallestSubset
<1>7. R # {}
  <2>1. Of({}) = {}
    OBVIOUS
  <2>. QED
    BY <1>4, <1>6, <2>1, FS_EmptySet DEF IsSum
<1>. DEFINE x == One(R)
<1>8. x \in R /\ x \in T /\ R \ {x} \in SUBSET T
  BY <1>6, <1>7 DEF One
<1>9. sum[R] = count[x] + sum[R \ {x}]
  BY <1>4, <1>6, <1>7 DEF IsSum
<1>10. sum[R \ {x}] = Cardinality(Of(R \ {x})) /\ count[x] = Cardinality(With(x))
  BY <1>6, <1>8
<1>11. Of(R) = With(x) \cup Of(R \ {x}) /\ With(x) \cap Of(R \ {x}) = {}
  BY <1>8 DEF Marked
<1>. HIDE DEF x, With, Of
<1>12. Cardinality(Of(R)) = Cardinality(With(x)) + Cardinality(Of(R \ {x}))
  <2>. DEFINE P == With(x)
              Q == Of(R \ {x})
  <2>1. IsFiniteSet(P) /\ IsFiniteSet(Q) /\ Cardinality(P) \in Nat /\ Cardinality(Q) \in Nat
    BY <1>1, <1>2
  <2>2. Cardinality(Of(R)) = Cardinality(P \cup Q)
    BY <1>11, Zenon
  <2>3. Cardinality(P \cap Q) = 0
    BY <1>11, FS_EmptySet, Zenon
  <2>. HIDE DEF P, Q
  <2>4. Cardinality(P \cup Q) = Cardinality(P) + Cardinality(Q) - Cardinality(P \cap Q)
    BY <2>1, FS_Union
  <2>5. Cardinality(Of(R)) = Cardinality(P) + Cardinality(Q)
    BY <2>1, <2>2, <2>3, <2>4
  <2>. QED
    BY <2>5 DEF P, Q
<1>. QED
  BY <1>6, <1>9, <1>10, <1>12

\* A network whose links are looked up where their activities are.
IsNetwork(case) ==
    IsFiniteSet(DOMAIN case.fieldOf) /\ IsFiniteSet(DOMAIN case.links) /\ "0" \notin GroupIds(case.fieldOf)
Leaving(case, g) == {k \in KnownLinks(case) : GroupEnds(case)[k][1] = g /\ GroupEnds(case)[k][2] # g}
Entering(case, g) == {k \in KnownLinks(case) : GroupEnds(case)[k][2] = g /\ GroupEnds(case)[k][1] # g}
Staying(case) == {k \in KnownLinks(case) : GroupEnds(case)[k][1] = GroupEnds(case)[k][2]}
LEMMA EndsAreGroups ==
    ASSUME NEW case, IsNetwork(case)
    PROVE  /\ IsFiniteSet(KnownLinks(case)) /\ IsFiniteSet(GroupIds(case.fieldOf))
           /\ DOMAIN GroupEnds(case) = KnownLinks(case)
           /\ \A n \in DOMAIN case.fieldOf : LookedUp(case.fieldOf[n]) = GroupKey(case.fieldOf[n])
           /\ \A k \in KnownLinks(case) :
                 /\ case.links[k][1] \in DOMAIN case.fieldOf /\ case.links[k][2] \in DOMAIN case.fieldOf
                 /\ GroupEnds(case)[k] = <<LookedUp(case.fieldOf[case.links[k][1]]), LookedUp(case.fieldOf[case.links[k][2]])>>
                 /\ GroupEnds(case)[k][1] \in GroupIds(case.fieldOf) /\ GroupEnds(case)[k][2] \in GroupIds(case.fieldOf)
<1>1. IsFiniteSet(KnownLinks(case))
  BY FS_Subset DEF IsNetwork, KnownLinks
<1>2. IsFiniteSet(GroupIds(case.fieldOf))
  <2>. DEFINE key == [n \in DOMAIN case.fieldOf |-> GroupKey(case.fieldOf[n])]
  <2>1. key \in Surjection(DOMAIN case.fieldOf, GroupIds(case.fieldOf))
    BY DEF Surjection, GroupIds
  <2>. QED
    BY <2>1, FS_Surjection DEF IsNetwork
<1>3. \A n \in DOMAIN case.fieldOf : LookedUp(case.fieldOf[n]) = GroupKey(case.fieldOf[n])
  BY DEF IsNetwork, GroupIds, LookedUp, GroupKey
<1>4. \A n \in DOMAIN case.fieldOf : LookedUp(case.fieldOf[n]) \in GroupIds(case.fieldOf)
  BY <1>3 DEF GroupIds
<1>. QED
  BY <1>1, <1>2, <1>3, <1>4 DEF KnownLinks, GroupEnds

\* The links of a group to the others, and those that stay inside.
LEMMA LinksOfGroups ==
    ASSUME NEW case, IsNetwork(case), NEW g \in GroupIds(case.fieldOf)
    PROVE  /\ computeInterGroupMetrics(case)[g].outboundLinks = Cardinality(Leaving(case, g))
           /\ computeInterGroupMetrics(case)[g].inboundLinks = Cardinality(Entering(case, g))
           /\ computeInterGroupMetrics(case)[g].internalLinks = Cardinality({k \in Staying(case) : GroupEnds(case)[k][1] = g})
           /\ computeInterGroupMetrics(case)[g].handoffNodes = handoffNodes(case, g)
<1>. DEFINE groups == GroupIds(case.fieldOf)
            ends == GroupEnds(case)
            into == [h \in groups |-> LinkCount(case, h, g)]
            outof == [h \in groups |-> LinkCount(case, g, h)]
            source == [k \in KnownLinks(case) |-> ends[k][1]]
            target == [k \in KnownLinks(case) |-> ends[k][2]]
<1>1. /\ computeInterGroupMetrics(case)[g].outboundLinks = SumFunction(outof)
      /\ computeInterGroupMetrics(case)[g].inboundLinks = SumFunction(into)
      /\ computeInterGroupMetrics(case)[g].internalLinks = internalLinks(case, g)
      /\ computeInterGroupMetrics(case)[g].handoffNodes = handoffNodes(case, g)
  BY Zenon DEF computeInterGroupMetrics
<1>2. SumFunction(outof) = SumFunctionOnSet(outof, groups) /\ SumFunction(into) = SumFunctionOnSet(into, groups)
  BY DEF SumFunction
<1>3. /\ IsFiniteSet(KnownLinks(case)) /\ IsFiniteSet(groups) /\ DOMAIN ends = KnownLinks(case)
      /\ \A k \in KnownLinks(case) : ends[k] = <<ends[k][1], ends[k][2]>> /\ ends[k][1] \in groups /\ ends[k][2] \in groups
  BY EndsAreGroups
<1>4. IsFiniteSet(Leaving(case, g)) /\ IsFiniteSet(Entering(case, g))
  BY <1>3, FS_Subset DEF Leaving, Entering
<1>. HIDE DEF groups, ends
<1>5. ASSUME NEW h \in groups PROVE outof[h] = Cardinality(Marked(Leaving(case, g), target, h))
  <2>1. CASE h = g
    <3>1. Marked(Leaving(case, g), target, h) = {}
      BY <2>1 DEF Leaving, Marked, ends
    <3>. QED
      BY <2>1, <3>1, <1>5, FS_EmptySet DEF LinkCount
  <2>2. CASE h # g
    <3>1. {k \in DOMAIN ends : ends[k] = <<g, h>>} = Marked(Leaving(case, g), target, h)
      BY <2>2, <1>3 DEF Leaving, Marked, ends
    <3>. QED
      BY <2>2, <3>1, <1>5 DEF LinkCount, groups, ends
  <2>. QED
    BY <2>1, <2>2
<1>6. ASSUME NEW h \in groups PROVE into[h] = Cardinality(Marked(Entering(case, g), source, h))
  <2>1. CASE h = g
    <3>1. Marked(Entering(case, g), source, h) = {}
      BY <2>1 DEF Entering, Marked, ends
    <3>. QED
      BY <2>1, <3>1, <1>6, FS_EmptySet DEF LinkCount
  <2>2. CASE h # g
    <3>1. {k \in DOMAIN ends : ends[k] = <<h, g>>} = Marked(Entering(case, g), source, h)
      BY <2>2, <1>3 DEF Entering, Marked, ends
    <3>. QED
      BY <2>2, <3>1, <1>6 DEF LinkCount, groups, ends
  <2>. QED
    BY <2>1, <2>2
<1>7. (\A k \in Leaving(case, g) : target[k] \in groups) /\ \A k \in Entering(case, g) : source[k] \in groups
  BY <1>3 DEF Leaving, Entering
<1>8. internalLinks(case, g) = Cardinality({k \in Staying(case) : ends[k][1] = g})
  <2>1. {k \in DOMAIN ends : ends[k] = <<g, g>>} = {k \in Staying(case) : ends[k][1] = g}
    BY <1>3 DEF Staying, ends
  <2>. QED
    BY <2>1 DEF internalLinks, ends
<1>. HIDE DEF outof, into, source, target
<1>9. SumFunctionOnSet(outof, groups) = Cardinality(Leaving(case, g))
  BY <1>3, <1>4, <1>5, <1>7, CountsAddUp
<1>10. SumFunctionOnSet(into, groups) = Cardinality(Entering(case, g))
  BY <1>3, <1>4, <1>6, <1>7, CountsAddUp
<1>. QED
  BY <1>1, <1>2, <1>8, <1>9, <1>10 DEF ends

\* All the groups together: each link stays in one, or leaves one and enters another.
LEMMA AllLinksCounted ==
    ASSUME NEW case, IsNetwork(case)
    PROVE  LET groups == GroupIds(case.fieldOf)
               metrics == computeInterGroupMetrics(case)
           IN  /\ SumFunction([g \in groups |-> metrics[g].internalLinks])
                  + SumFunction([g \in groups |-> metrics[g].outboundLinks]) = Cardinality(KnownLinks(case))
               /\ SumFunction([g \in groups |-> metrics[g].inboundLinks])
                  = SumFunction([g \in groups |-> metrics[g].outboundLinks])
<1>. DEFINE groups == GroupIds(case.fieldOf)
            metrics == computeInterGroupMetrics(case)
            ends == GroupEnds(case)
            stay == Staying(case)
            cross == KnownLinks(case) \ stay
            source == [k \in KnownLinks(case) |-> ends[k][1]]
            target == [k \in KnownLinks(case) |-> ends[k][2]]
            inside == [g \in groups |-> metrics[g].internalLinks]
            out == [g \in groups |-> metrics[g].outboundLinks]
            in == [g \in groups |-> metrics[g].inboundLinks]
<1>1. /\ IsFiniteSet(KnownLinks(case)) /\ IsFiniteSet(groups)
      /\ \A k \in KnownLinks(case) : source[k] \in groups /\ target[k] \in groups
  BY EndsAreGroups
<1>2. IsFiniteSet(stay) /\ IsFiniteSet(cross) /\ stay \subseteq KnownLinks(case) /\ cross \subseteq KnownLinks(case)
  BY <1>1, FS_Subset DEF Staying
<1>3. SumFunction(inside) = SumFunctionOnSet(inside, groups) /\ SumFunction(out) = SumFunctionOnSet(out, groups)
      /\ SumFunction(in) = SumFunctionOnSet(in, groups)
  BY DEF SumFunction
<1>4. ASSUME NEW g \in groups
      PROVE  /\ inside[g] = Cardinality(Marked(stay, source, g))
             /\ out[g] = Cardinality(Marked(cross, source, g))
             /\ in[g] = Cardinality(Marked(cross, target, g))
  <2>1. /\ {k \in stay : ends[k][1] = g} = Marked(stay, source, g)
        /\ Leaving(case, g) = Marked(cross, source, g) /\ Entering(case, g) = Marked(cross, target, g)
    BY DEF Marked, Leaving, Entering, Staying
  <2>. QED
    BY <1>4, <2>1, LinksOfGroups
<1>. HIDE DEF groups, metrics, ends, stay, cross, source, target, inside, out, in
<1>5. SumFunctionOnSet(inside, groups) = Cardinality(stay)
  BY <1>1, <1>2, <1>4, CountsAddUp
<1>6. SumFunctionOnSet(out, groups) = Cardinality(cross) /\ SumFunctionOnSet(in, groups) = Cardinality(cross)
  BY <1>1, <1>2, <1>4, CountsAddUp
<1>7. Cardinality(stay) + Cardinality(cross) = Cardinality(KnownLinks(case))
  <2>1. Cardinality(cross) = Cardinality(KnownLinks(case)) - Cardinality(KnownLinks(case) \cap stay)
    BY <1>1, FS_Difference DEF cross
  <2>2. Cardinality(KnownLinks(case) \cap stay) = Cardinality(stay)
    <3>1. KnownLinks(case) \cap stay = stay
      BY <1>2
    <3>. QED
      BY <3>1, Zenon
  <2>3. Cardinality(stay) \in Nat /\ Cardinality(cross) \in Nat /\ Cardinality(KnownLinks(case)) \in Nat
    BY <1>1, <1>2, FS_CardinalityType
  <2>. QED
    BY <2>1, <2>2, <2>3
<1>. QED
  BY <1>3, <1>5, <1>6, <1>7 DEF groups, metrics, inside, out, in

\* A group of up to three activities: those of its activities that other groups
\* pass on to are all listed, and receive what it does.
LEMMA HandoffsCounted ==
    ASSUME NEW case, IsNetwork(case), NEW g \in GroupIds(case.fieldOf),
           Cardinality({n \in DOMAIN case.fieldOf : GroupKey(case.fieldOf[n]) = g}) <= 3
    PROVE  SumFunction([h \in handoffNodes(case, g) |-> h.crossGroupPredecessors]) = Cardinality(Entering(case, g))
<1>. DEFINE ends == GroupEnds(case)
            links == case.links
            to(n) == {k \in DOMAIN ends : links[k][2] = n /\ ends[k][1] # g}
            received(n) == Cardinality(to(n))
            inside == {n \in DOMAIN case.fieldOf : LookedUp(case.fieldOf[n]) = g}
            some == {n \in inside : received(n) > 0}
            row(n) == [id |-> n, crossGroupPredecessors |-> received(n)]
            rows == handoffNodes(case, g)
            count == [h \in rows |-> h.crossGroupPredecessors]
            entering == Entering(case, g)
            mark == [k \in entering |-> row(links[k][2])]
<1>1. /\ IsFiniteSet(KnownLinks(case)) /\ DOMAIN ends = KnownLinks(case)
      /\ \A n \in DOMAIN case.fieldOf : LookedUp(case.fieldOf[n]) = GroupKey(case.fieldOf[n])
      /\ \A k \in KnownLinks(case) :
            /\ links[k][2] \in DOMAIN case.fieldOf /\ ends[k][2] = LookedUp(case.fieldOf[links[k][2]])
  BY EndsAreGroups
<1>2. IsFiniteSet(inside) /\ Cardinality(inside) <= 3 /\ IsFiniteSet(some) /\ Cardinality(some) \in 0..3
  <2>1. inside = {n \in DOMAIN case.fieldOf : GroupKey(case.fieldOf[n]) = g}
    BY <1>1
  <2>2. IsFiniteSet(inside)
    BY FS_Subset DEF IsNetwork
  <2>. HIDE DEF inside, received
  <2>3. IsFiniteSet(some) /\ Cardinality(some) <= Cardinality(inside)
    BY <2>2, FS_Subset
  <2>. QED
    BY <2>1, <2>2, <2>3, FS_CardinalityType
<1>3. Min({3, Cardinality(some)}) = Cardinality(some)
  <2>. DEFINE c == Cardinality(some)
  <2>1. c \in 0..3
    BY <1>2
  <2>. HIDE DEF c
  <2>2. \A m \in {3, c} : (\A y \in {3, c} : m <= y) <=> m = c
    BY <2>1
  <2>3. Min({3, c}) = c
    BY <2>1, <2>2 DEF Min
  <2>. QED
    BY <2>3 DEF c
<1>4. rows = {row(n) : n \in some}
  <2>. DEFINE IsTop(T) == /\ Cardinality(T) = Min({3, Cardinality(some)})
                          /\ \A x \in T, y \in some \ T : received(x) >= received(y)
              top == CHOOSE T \in SUBSET some : IsTop(T)
  <2>1. rows = {row(n) : n \in top}
    BY Zenon DEF handoffNodes, Highest
  <2>2. IsTop(some)
    BY <1>3
  <2>3. top \in SUBSET some /\ IsTop(top)
    BY <2>2, Zenon
  <2>4. top = some
    <3>. HIDE DEF some, received, top
    <3>. QED
      BY <1>2, <1>3, <2>3, FS_Subset
  <2>. QED
    BY <2>1, <2>4
<1>5. IsFiniteSet(rows) /\ IsFiniteSet(entering)
  <2>1. IsFiniteSet(entering)
    BY <1>1, FS_Subset DEF Entering
  <2>2. IsFiniteSet({row(n) : n \in some})
    <3>. DEFINE f == [n \in some |-> row(n)]
    <3>1. IsFiniteSet({f[n] : n \in some})
      <4>. HIDE DEF f, some
      <4>. QED
        BY <1>2, FiniteImage
    <3>. QED
      BY <3>1
  <2>. QED
    BY <1>4, <2>1, <2>2
<1>6. ASSUME NEW k \in entering PROVE mark[k] \in rows
  <2>1. k \in to(links[k][2]) /\ links[k][2] \in inside
    BY <1>1, <1>6 DEF Entering
  <2>2. IsFiniteSet(to(links[k][2]))
    BY <1>1, FS_Subset
  <2>3. received(links[k][2]) \in Nat /\ received(links[k][2]) # 0
    BY <2>1, <2>2, FS_CardinalityType, FS_EmptySet
  <2>4. links[k][2] \in some
    <3>1. received(links[k][2]) > 0
      BY <2>3
    <3>. HIDE DEF received, inside
    <3>. QED
      BY <2>1, <3>1
  <2>. QED
    BY <1>4, <2>4
<1>7. ASSUME NEW r \in rows PROVE count[r] = Cardinality(Marked(entering, mark, r))
  <2>1. PICK n \in some : r = row(n)
    BY <1>4, <1>7
  <2>2. to(n) = Marked(entering, mark, r)
    <3>1. \A k \in to(n) : k \in entering /\ links[k][2] = n
      BY <1>1 DEF Entering
    <3>2. \A k \in entering : mark[k].id = links[k][2] /\ k \in to(links[k][2])
      BY <1>1 DEF Entering
    <3>3. \A k \in entering : links[k][2] = n => mark[k] = r
      BY <2>1
    <3>. QED
      BY <2>1, <3>1, <3>2, <3>3 DEF Marked
  <2>. QED
    BY <2>1, <2>2
<1>8. SumFunction(count) = SumFunctionOnSet(count, rows)
  BY DEF SumFunction
<1>. HIDE DEF rows, count, entering, mark
<1>9. SumFunctionOnSet(count, rows) = Cardinality(entering)
  BY <1>5, <1>6, <1>7, CountsAddUp
<1>. QED
  BY <1>8, <1>9 DEF rows, count, entering

NetworkInv ==
    /\ groupCase \in NetworkCases
    /\ groupStep \in {"rank", "drawn"} => groupGraph = computeInterGroupMetrics(groupCase)
LEMMA NetworkInvariance == NetworkSpec => []NetworkInv
<1>1. NetworkInit => NetworkInv
  BY DEF NetworkInit, NetworkInv
<1>2. NetworkInv /\ [NetworkNext]_networkVars => NetworkInv'
  <2>. SUFFICES ASSUME NetworkInv, [NetworkNext]_networkVars PROVE NetworkInv'
    OBVIOUS
  <2>1. CASE CountLinks
    BY <2>1 DEF NetworkInv, CountLinks
  <2>2. CASE RankGroups
    BY <2>2 DEF NetworkInv, RankGroups
  <2>3. CASE StoreGroups
    BY <2>3 DEF NetworkInv, StoreGroups
  <2>4. CASE UNCHANGED networkVars
    BY <2>4 DEF NetworkInv, networkVars
  <2>. QED
    BY <2>1, <2>2, <2>3, <2>4 DEF NetworkNext
<1>. QED
  BY <1>1, <1>2, PTL DEF NetworkSpec

\* However the activities are grouped and linked, and whatever links lead out of
\* the schedule, drawCommunityGroupGraph counts every known link once: inside a
\* group, or as leaving one and entering another; and what a small group
\* receives is what its hand-off activities do.
THEOREM NoLinkIsLost == NetworkSpec => []LinksConserved
<1>1. NetworkInv => LinksConserved
  <2>. SUFFICES ASSUME NetworkInv, groupStep \in {"rank", "drawn"}, "0" \notin GroupIds(groupCase.fieldOf) PROVE LinksConserved
    BY DEF LinksConserved
  <2>1. IsNetwork(groupCase) /\ groupGraph = computeInterGroupMetrics(groupCase)
    BY NetworkAssumption DEF NetworkInv, IsNetwork
  <2>2. ASSUME NEW g \in GroupIds(groupCase.fieldOf),
               Cardinality({n \in DOMAIN groupCase.fieldOf : GroupKey(groupCase.fieldOf[n]) = g}) <= 3
        PROVE  SumFunction([h \in groupGraph[g].handoffNodes |-> h.crossGroupPredecessors]) = groupGraph[g].inboundLinks
    <3>1. groupGraph[g].handoffNodes = handoffNodes(groupCase, g) /\ groupGraph[g].inboundLinks = Cardinality(Entering(groupCase, g))
      BY <2>1, LinksOfGroups
    <3>2. SumFunction([h \in handoffNodes(groupCase, g) |-> h.crossGroupPredecessors]) = Cardinality(Entering(groupCase, g))
      BY <2>1, <2>2, HandoffsCounted
    <3>. QED
      BY <3>1, <3>2
  <2>. QED
    BY <2>1, <2>2, AllLinksCounted DEF LinksConserved
<1>. QED
  BY <1>1, NetworkInvariance, PTL

-----------------------------------------------------------------------------
(* The search for the longest paths in PathScripts.js. *)

\* A queue as pushes and pops leave it: the places of its items, and their paths.
PathItems(W) == [path : Seq(W) \ {<<>>}, est : Int, crit : Int]
Queues(W) == Seq([id : W, items : Seq([item : PathItems(W), adjusted : Int])])
Places(bs) == UNION {{k} \X (1..Len(bs[k].items)) : k \in 1..Len(bs)}
PathAt(bs, a) == bs[a[1]].items[a[2]].item.path
LEMMA PlacesAre ==
    ASSUME NEW bs
    PROVE  \A a : a \in Places(bs) <=> \E k \in 1..Len(bs) : \E j \in 1..Len(bs[k].items) : a = <<k, j>>
  BY DEF Places
QueueShape(W, bs) ==
    /\ DOMAIN bs = 1..Len(bs) /\ Len(bs) \in Nat
    /\ \A k \in 1..Len(bs) :
          /\ bs[k].id \in W /\ bs[k].items \in Seq([item : PathItems(W), adjusted : Int])
          /\ DOMAIN bs[k].items = 1..Len(bs[k].items) /\ Len(bs[k].items) \in Nat
          /\ \A j \in 1..Len(bs[k].items) :
                /\ bs[k].items[j].item \in PathItems(W) /\ bs[k].items[j].adjusted \in Int
                /\ bs[k].items[j] = [item |-> bs[k].items[j].item, adjusted |-> bs[k].items[j].adjusted]
          /\ bs[k] = [id |-> bs[k].id, items |-> bs[k].items]
LEMMA InQueue ==
    ASSUME NEW W, NEW bs \in Queues(W)
    PROVE  QueueShape(W, bs)
<1>. DEFINE Es == [item : PathItems(W), adjusted : Int]
<1>1. bs \in Seq([id : W, items : Seq(Es)])
  BY DEF Queues
<1>. HIDE DEF Es
<1>2. \A k \in 1..Len(bs) : bs[k] \in [id : W, items : Seq(Es)]
  BY <1>1, ElementOfSeq
<1>3. ASSUME NEW k \in 1..Len(bs), NEW j \in 1..Len(bs[k].items) PROVE bs[k].items[j] \in Es
  BY <1>2, ElementOfSeq
<1>. USE DEF Es
<1>5. ASSUME NEW k \in 1..Len(bs)
      PROVE  /\ bs[k].id \in W /\ bs[k].items \in Seq(Es)
             /\ DOMAIN bs[k].items = 1..Len(bs[k].items) /\ Len(bs[k].items) \in Nat
             /\ bs[k] = [id |-> bs[k].id, items |-> bs[k].items]
  <2>1. bs[k] \in [id : W, items : Seq(Es)]
    BY <1>2
  <2>2. bs[k].id \in W /\ bs[k].items \in Seq(Es) /\ bs[k] = [id |-> bs[k].id, items |-> bs[k].items]
    BY <2>1
  <2>. HIDE DEF Es
  <2>3. DOMAIN bs[k].items = 1..Len(bs[k].items) /\ Len(bs[k].items) \in Nat
    BY <2>2, LenProperties
  <2>. QED
    BY <2>2, <2>3
<1>6. \A k \in 1..Len(bs) : \A j \in 1..Len(bs[k].items) :
         /\ bs[k].items[j].item \in PathItems(W) /\ bs[k].items[j].adjusted \in Int
         /\ bs[k].items[j] = [item |-> bs[k].items[j].item, adjusted |-> bs[k].items[j].adjusted]
  BY <1>3
<1>7. DOMAIN bs = 1..Len(bs) /\ Len(bs) \in Nat
  BY <1>1, LenProperties
<1>. QED
  BY <1>5, <1>6, <1>7 DEF QueueShape

\* What is held is counted by the places.
LEMMA HeldCounts ==
    ASSUME NEW W, NEW bs \in Queues(W)
    PROVE  IsFiniteSet(Places(bs)) /\ Held(bs) = Cardinality(Places(bs))
<1>. DEFINE at(k) == {k} \X (1..Len(bs[k].items))
            n == Len(bs)
            P == Places(bs)
            mark == [a \in P |-> a[1]]
            count == [k \in DOMAIN bs |-> Len(bs[k].items)]
<1>1. n \in Nat /\ DOMAIN bs = 1..n /\ \A k \in 1..n : Len(bs[k].items) \in Nat
  BY InQueue DEF QueueShape
<1>2. IsFiniteSet(1..n) /\ \A k \in 1..n : IsFiniteSet(1..Len(bs[k].items)) /\ Cardinality(1..Len(bs[k].items)) = Len(bs[k].items)
  <2>1. \A m \in Nat : IsFiniteSet(1..m) /\ Cardinality(1..m) = m
    BY FS_Interval
  <2>. QED
    BY <1>1, <2>1
<1>3. ASSUME NEW k \in 1..n PROVE IsFiniteSet(at(k)) /\ Cardinality(at(k)) = Len(bs[k].items)
  <2>. DEFINE f == [j \in 1..Len(bs[k].items) |-> <<k, j>>]
  <2>1. f \in Bijection(1..Len(bs[k].items), at(k))
    BY DEF Bijection, Injection, Surjection, IsInjective
  <2>. HIDE DEF f, at
  <2>2. ExistsBijection(1..Len(bs[k].items), at(k))
    BY <2>1 DEF ExistsBijection
  <2>. QED
    BY <1>2, <2>2, FS_Bijection
<1>. HIDE DEF at
<1>4. IsFiniteSet(P)
  <2>. DEFINE all == {at(k) : k \in 1..n}
  <2>1. P = UNION all
    BY DEF Places, at
  <2>2. IsFiniteSet(all)
    <3>. DEFINE g == [k \in 1..n |-> at(k)]
    <3>1. IsFiniteSet({g[k] : k \in 1..n})
      <4>. HIDE DEF g, n
      <4>. QED
        BY <1>2, FiniteImage
    <3>. QED
      BY <3>1
  <2>3. \A s \in all : IsFiniteSet(s)
    BY <1>3
  <2>. HIDE DEF all, P
  <2>. QED
    BY <2>1, <2>2, <2>3, FS_UNION
<1>5. ASSUME NEW k \in 1..n PROVE count[k] = Cardinality(Marked(P, mark, k))
  <2>1. Marked(P, mark, k) = at(k)
    BY DEF Marked, Places, at
  <2>. QED
    BY <1>1, <1>3, <2>1
<1>6. \A a \in P : mark[a] \in 1..n
  BY DEF Places
<1>7. Held(bs) = SumFunctionOnSet(count, 1..n)
  BY <1>1 DEF Held, SumFunction
<1>. HIDE DEF count, mark, P, n
<1>8. SumFunctionOnSet(count, 1..n) = Cardinality(P)
  BY <1>2, <1>4, <1>5, <1>6, CountsAddUp
<1>. QED
  BY <1>4, <1>7, <1>8 DEF P

LEMMA RecordsReplaced ==
    /\ \A b, s : b = [id |-> b.id, items |-> b.items] => [b EXCEPT !.items = s] = [id |-> b.id, items |-> s]
    /\ \A e, v : e = [item |-> e.item, adjusted |-> e.adjusted] => [e EXCEPT !.adjusted = v] = [item |-> e.item, adjusted |-> v]
  OBVIOUS

\* A push adds one place, and leaves the others what they have.
Adds(bs, r, p) ==
    \E b : /\ b \notin Places(bs) /\ Places(r) = Places(bs) \cup {b} /\ PathAt(r, b) = p
          /\ \A a \in Places(bs) : PathAt(r, a) = PathAt(bs, a)
LEMMA PushedToAdds ==
    ASSUME NEW W, NEW bs \in Queues(W), NEW x \in PathItems(W)
    PROVE  PushedTo(bs, x) \in Queues(W) /\ Adds(bs, PushedTo(bs, x), x.path)
<1>. DEFINE Es == [item : PathItems(W), adjusted : Int]
            n == Len(bs)
            id == BranchOf(x)
            at == {k \in DOMAIN bs : bs[k].id = id}
            k == Least(at)
            count == IF at = {} THEN 0 ELSE Len(bs[k].items)
            new == [item |-> x, adjusted |-> IF count >= branchLimit THEN Priority(x) \div 2 ELSE Priority(x)]
            r == PushedTo(bs, x)
<1>1. bs \in Seq([id : W, items : Seq(Es)]) /\ n \in Nat /\ DOMAIN bs = 1..n
  BY InQueue DEF Queues, QueueShape
<1>2. id \in W /\ new \in Es
  <2>1. x.path \in Seq(W) /\ x.path # <<>> /\ x.est \in Int /\ x.crit \in Int /\ Len(x.path) \in Nat
    BY DEF PathItems
  <2>2. id \in W
    <3>1. Len(x.path) >= 1
      BY <2>1
    <3>. QED
      BY <2>1, <3>1, ElementOfSeq DEF BranchOf
  <2>3. Priority(x) \in Int
    BY <2>1 DEF Priority, Unit
  <2>. QED
    BY <2>2, <2>3
<1>3. CASE at = {}
  <2>. DEFINE b == [id |-> id, items |-> <<new>>]
              a == <<n + 1, 1>>
  <2>1. r = Append(bs, b)
    BY <1>3 DEF PushedTo
  <2>2. b \in [id : W, items : Seq(Es)]
    BY <1>2
  <2>. HIDE DEF id, at, count
  <2>3. r \in Queues(W)
    BY <1>1, <2>1, <2>2 DEF Queues
  <2>4. Len(r) = n + 1 /\ r[n + 1] = b /\ \A j \in 1..n : r[j] = bs[j]
    BY <1>1, <2>1, <2>2
  <2>5. Len(b.items) = 1 /\ b.items[1] = new
    OBVIOUS
  <2>. HIDE DEF new, b, r, n
  <2>6. a \notin Places(bs)
    BY <1>1, PlacesAre DEF n
  <2>7. Places(r) = Places(bs) \cup {a}
    <3>1. \A z : z \in Places(r) <=> \E j \in 1..(n + 1) : \E i \in 1..Len(r[j].items) : z = <<j, i>>
      BY <2>4, PlacesAre
    <3>2. \A z : z \in Places(bs) <=> \E j \in 1..n : \E i \in 1..Len(r[j].items) : z = <<j, i>>
      BY <2>4, PlacesAre DEF n
    <3>3. \A z : z = a <=> \E i \in 1..Len(r[n + 1].items) : z = <<n + 1, i>>
      BY <2>4, <2>5
    <3>4. \A j : j \in 1..(n + 1) <=> j \in 1..n \/ j = n + 1
      BY <1>1
    <3>. QED
      BY <3>1, <3>2, <3>3, <3>4, Zenon
  <2>8. PathAt(r, a) = x.path
    BY <2>4, <2>5 DEF PathAt, new
  <2>9. \A z \in Places(bs) : PathAt(r, z) = PathAt(bs, z)
    BY <2>4, PlacesAre DEF PathAt, n
  <2>. QED
    BY <2>3, <2>6, <2>7, <2>8, <2>9 DEF Adds, r
<1>4. CASE at # {}
  <2>1. k \in 1..n /\ bs[k].id = id
    <3>1. at \subseteq Nat
      BY <1>1
    <3>. HIDE DEF at
    <3>2. \E m \in at : \A y \in at : m <= y
      BY <1>4, <3>1, LeastOf
    <3>3. k \in at
      BY <3>2 DEF Least
    <3>. QED
      BY <1>1, <3>3 DEF at
  <2>. DEFINE its == bs[k].items
              m == Len(its)
              b == [id |-> bs[k].id, items |-> Append(its, new)]
              a == <<k, m + 1>>
  <2>2. its \in Seq(Es) /\ m \in Nat /\ bs[k] \in [id : W, items : Seq(Es)] /\ bs[k] = [id |-> bs[k].id, items |-> its]
    <3>1. bs[k] \in [id : W, items : Seq(Es)]
      <4>. HIDE DEF Es, k
      <4>. QED
        BY <1>1, <2>1, ElementOfSeq
    <3>. HIDE DEF Es, k
    <3>. QED
      BY <3>1, LenProperties
  <2>3. r = [bs EXCEPT ![k] = b]
    <3>1. r = [bs EXCEPT ![k].items = Append(@, new)]
      BY <1>4 DEF PushedTo
    <3>. HIDE DEF k, new, r
    <3>2. [bs[k] EXCEPT !.items = Append(its, new)] = b
      BY <2>2, RecordsReplaced, Zenon
    <3>. QED
      BY <3>1, <3>2, <1>1, <2>1, Zenon
  <2>4. b \in [id : W, items : Seq(Es)] /\ Len(b.items) = m + 1 /\ b.items[m + 1] = new /\ \A j \in 1..m : b.items[j] = its[j]
    BY <1>2, <2>2
  <2>. HIDE DEF id, at, count, k, new, b, r
  <2>5. r \in Queues(W)
    BY <1>1, <2>1, <2>3, <2>4 DEF Queues
  <2>6. Len(r) = n /\ r[k] = b /\ \A j \in 1..n : j # k => r[j] = bs[j]
    BY <1>1, <2>1, <2>3, <2>4
  <2>. HIDE DEF its, m, n
  <2>7. a \notin Places(bs)
    BY <2>1, <2>2, PlacesAre DEF its, m, n
  <2>8. Places(r) = Places(bs) \cup {a}
    <3>1. \A z : z \in Places(r) <=> \E j \in 1..n : \E i \in 1..Len(r[j].items) : z = <<j, i>>
      BY <2>6, PlacesAre
    <3>2. \A z : z \in Places(bs) <=> \E j \in 1..n : \E i \in 1..Len(bs[j].items) : z = <<j, i>>
      BY PlacesAre DEF n
    <3>3. \A z : (\E i \in 1..Len(r[k].items) : z = <<k, i>>) <=> z = a \/ \E i \in 1..Len(bs[k].items) : z = <<k, i>>
      <4>1. Len(r[k].items) = m + 1 /\ Len(bs[k].items) = m
        BY <2>4, <2>6 DEF m, its
      <4>2. \A i : i \in 1..(m + 1) <=> i \in 1..m \/ i = m + 1
        BY <2>2
      <4>. QED
        BY <4>1, <4>2, Zenon
    <3>. QED
      BY <2>1, <2>6, <3>1, <3>2, <3>3
  <2>9. PathAt(r, a) = x.path
    BY <2>4, <2>6 DEF PathAt, new
  <2>10. ASSUME NEW z \in Places(bs) PROVE PathAt(r, z) = PathAt(bs, z)
    <3>1. PICK j \in 1..n : \E i \in 1..Len(bs[j].items) : z = <<j, i>>
      BY PlacesAre DEF n
    <3>2. PICK i \in 1..Len(bs[j].items) : z = <<j, i>>
      BY <3>1
    <3>3. CASE j = k
      BY <2>4, <2>6, <3>2, <3>3 DEF PathAt, m, its
    <3>4. CASE j # k
      BY <2>6, <3>2, <3>4 DEF PathAt
    <3>. QED
      BY <3>3, <3>4
  <2>. QED
    BY <2>5, <2>7, <2>8, <2>9, <2>10 DEF Adds, r
<1>. QED
  BY <1>3, <1>4

\* Setting the penalties anew moves nothing.
LEMMA RebalancedKeeps ==
    ASSUME NEW W, NEW bs \in Queues(W)
    PROVE  /\ Rebalanced(bs) \in Queues(W) /\ Places(Rebalanced(bs)) = Places(bs)
           /\ \A a \in Places(bs) : PathAt(Rebalanced(bs), a) = PathAt(bs, a)
<1>. DEFINE Es == [item : PathItems(W), adjusted : Int]
            n == Len(bs)
            c(k) == Len(bs[k].items) * Len(bs)
            v(k, j) == Priority(bs[k].items[j].item)
            set(k, j) == IF 2 * c(k) > 3 * Held(bs) THEN Weakened(v(k, j), c(k), 2 * Held(bs)) ELSE v(k, j)
            r == Rebalanced(bs)
<1>1. /\ n \in Nat /\ DOMAIN bs = 1..n
      /\ \A k \in 1..n :
            /\ bs[k].id \in W
            /\ DOMAIN bs[k].items = 1..Len(bs[k].items) /\ Len(bs[k].items) \in Nat
            /\ bs[k] = [id |-> bs[k].id, items |-> bs[k].items]
            /\ \A j \in 1..Len(bs[k].items) :
                   bs[k].items[j].item \in PathItems(W) /\ bs[k].items[j] = [item |-> bs[k].items[j].item, adjusted |-> bs[k].items[j].adjusted]
  <2>1. QueueShape(W, bs)
    BY InQueue
  <2>. QED
    BY <2>1 DEF QueueShape
<1>2. Held(bs) \in Int
  BY HeldCounts, FS_CardinalityType
<1>3. ASSUME NEW k \in 1..n, NEW j \in 1..Len(bs[k].items) PROVE set(k, j) \in Int
  <2>1. v(k, j) \in Int
    <3>1. \A x \in PathItems(W) : Priority(x) \in Int
      BY DEF PathItems, Priority, Unit
    <3>. QED
      BY <1>1, <3>1
  <2>. HIDE DEF v
  <2>. QED
    BY <1>2, <2>1 DEF Weakened
<1>4. r = [k \in 1..n |-> [id |-> bs[k].id, items |-> [j \in 1..Len(bs[k].items) |->
                                      [item |-> bs[k].items[j].item, adjusted |-> set(k, j)]]]]
  <2>. DEFINE anew(k) == [j \in DOMAIN bs[k].items |-> [bs[k].items[j] EXCEPT !.adjusted = set(k, j)]]
  <2>1. r = [k \in DOMAIN bs |-> [bs[k] EXCEPT !.items = anew(k)]]
    BY DEF Rebalanced
  <2>. HIDE DEF n, set, r
  <2>2. ASSUME NEW k \in 1..n
        PROVE  anew(k) = [j \in 1..Len(bs[k].items) |-> [item |-> bs[k].items[j].item, adjusted |-> set(k, j)]]
    <3>1. DOMAIN bs[k].items = 1..Len(bs[k].items)
      BY <1>1
    <3>2. ASSUME NEW j \in 1..Len(bs[k].items)
          PROVE  [bs[k].items[j] EXCEPT !.adjusted = set(k, j)] = [item |-> bs[k].items[j].item, adjusted |-> set(k, j)]
      <4>1. bs[k].items[j] = [item |-> bs[k].items[j].item, adjusted |-> bs[k].items[j].adjusted]
        BY <1>1
      <4>. QED
        BY <4>1, RecordsReplaced, Zenon
    <3>. QED
      BY <3>1, <3>2, Zenon
  <2>. HIDE DEF anew
  <2>3. \A k \in 1..n : [bs[k] EXCEPT !.items = anew(k)] = [id |-> bs[k].id, items |-> anew(k)]
    BY <1>1, RecordsReplaced, Zenon
  <2>. QED
    BY <1>1, <2>1, <2>2, <2>3, Zenon
<1>. HIDE DEF r, n, set
<1>5. Len(r) = n /\ DOMAIN r = 1..n /\ \A k \in 1..n :
         /\ r[k] \in [id : W, items : Seq(Es)]
         /\ Len(r[k].items) = Len(bs[k].items) /\ \A j \in 1..Len(bs[k].items) : r[k].items[j].item = bs[k].items[j].item
  <2>1. ASSUME NEW k \in 1..n
        PROVE  LET f == [j \in 1..Len(bs[k].items) |-> [item |-> bs[k].items[j].item, adjusted |-> set(k, j)]]
               IN  f \in Seq(Es) /\ Len(f) = Len(bs[k].items)
    <3>. DEFINE f == [j \in 1..Len(bs[k].items) |-> [item |-> bs[k].items[j].item, adjusted |-> set(k, j)]]
    <3>1. f \in [1..Len(bs[k].items) -> Es]
      BY <1>1, <1>3
    <3>. HIDE DEF f, Es
    <3>2. f \in Seq(Es) /\ Len(f) = Len(bs[k].items)
      BY <1>1, <3>1, IsASeq, LenProperties
    <3>. QED
      BY <3>2 DEF f
  <2>2. Len(r) = n /\ DOMAIN r = 1..n
    BY <1>1, <1>4
  <2>3. ASSUME NEW k \in 1..n
        PROVE  /\ r[k] \in [id : W, items : Seq(Es)]
               /\ Len(r[k].items) = Len(bs[k].items) /\ \A j \in 1..Len(bs[k].items) : r[k].items[j].item = bs[k].items[j].item
    <3>. DEFINE f == [j \in 1..Len(bs[k].items) |-> [item |-> bs[k].items[j].item, adjusted |-> set(k, j)]]
    <3>1. r[k] = [id |-> bs[k].id, items |-> f]
      BY <1>4
    <3>2. f \in Seq(Es) /\ Len(f) = Len(bs[k].items) /\ bs[k].id \in W
      BY <1>1, <2>1
    <3>3. \A j \in 1..Len(bs[k].items) : f[j].item = bs[k].items[j].item
      OBVIOUS
    <3>. HIDE DEF f, Es
    <3>. QED
      BY <3>1, <3>2, <3>3
  <2>. QED
    BY <2>2, <2>3
<1>6. r \in Queues(W)
  <2>. DEFINE Bs == [id : W, items : Seq(Es)]
  <2>1. r = [k \in 1..n |-> r[k]] /\ \A k \in 1..n : r[k] \in Bs
    BY <1>4, <1>5
  <2>2. r \in Seq(Bs)
    <3>. HIDE DEF Bs
    <3>. QED
      BY <1>1, <2>1
  <2>. QED
    BY <2>2 DEF Queues
<1>7. Places(r) = Places(bs)
  BY <1>5 DEF Places, n
<1>8. \A a \in Places(bs) : PathAt(r, a) = PathAt(bs, a)
  BY <1>5, PlacesAre DEF PathAt, n
<1>. QED
  BY <1>6, <1>7, <1>8 DEF r

\* The queue with its counters, as they are kept together.
PathsIn(bs) == {PathAt(bs, a) : a \in Places(bs)}
CountedQueues(W) == {q \in [branches : Queues(W), size : Int, pushes : Nat] : q.size = Held(q.branches)}
LEMMA HeldMore ==
    ASSUME NEW W, NEW bs \in Queues(W), NEW r \in Queues(W), NEW p, Adds(bs, r, p)
    PROVE  Held(r) = Held(bs) + 1 /\ PathsIn(r) = PathsIn(bs) \cup {p}
<1>1. PICK b : /\ b \notin Places(bs) /\ Places(r) = Places(bs) \cup {b} /\ PathAt(r, b) = p
               /\ \A a \in Places(bs) : PathAt(r, a) = PathAt(bs, a)
  BY DEF Adds
<1>2. IsFiniteSet(Places(bs)) /\ Held(bs) = Cardinality(Places(bs)) /\ Held(r) = Cardinality(Places(r))
  BY HeldCounts
<1>3. Cardinality(Places(bs) \cup {b}) = Cardinality(Places(bs)) + 1
  BY <1>1, <1>2, FS_AddElement
<1>4. Held(r) = Held(bs) + 1
  BY <1>1, <1>2, <1>3
<1>5. PathsIn(r) = PathsIn(bs) \cup {p}
  BY <1>1 DEF PathsIn
<1>. QED
  BY <1>4, <1>5
LEMMA PushAdds ==
    ASSUME NEW W, NEW q \in CountedQueues(W), NEW x \in PathItems(W)
    PROVE  Push(q, x) \in CountedQueues(W) /\ PathsIn(Push(q, x).branches) = PathsIn(q.branches) \cup {x.path}
<1>. DEFINE bs == PushedTo(q.branches, x)
            r == IF (q.pushes + 1) % rebalanceInterval = 0 THEN Rebalanced(bs) ELSE bs
<1>1. q.branches \in Queues(W) /\ q.size = Held(q.branches) /\ q.size \in Int /\ q.pushes \in Nat
  BY DEF CountedQueues
<1>2. bs \in Queues(W) /\ Adds(q.branches, bs, x.path)
  BY <1>1, PushedToAdds
<1>3. Held(bs) = q.size + 1 /\ PathsIn(bs) = PathsIn(q.branches) \cup {x.path}
  BY <1>1, <1>2, HeldMore
<1>4. Push(q, x) = [branches |-> r, size |-> q.size + 1, pushes |-> q.pushes + 1]
  BY DEF Push
<1>. HIDE DEF bs
<1>5. r \in Queues(W) /\ Held(r) = Held(bs) /\ PathsIn(r) = PathsIn(bs)
  <2>1. /\ Rebalanced(bs) \in Queues(W) /\ Places(Rebalanced(bs)) = Places(bs)
        /\ \A a \in Places(bs) : PathAt(Rebalanced(bs), a) = PathAt(bs, a)
    BY <1>2, RebalancedKeeps
  <2>2. Held(Rebalanced(bs)) = Held(bs)
    <3>1. Held(bs) = Cardinality(Places(bs))
      BY <1>2, HeldCounts
    <3>2. Held(Rebalanced(bs)) = Cardinality(Places(Rebalanced(bs)))
      BY <2>1, HeldCounts
    <3>. QED
      BY <2>1, <3>1, <3>2
  <2>3. PathsIn(Rebalanced(bs)) = PathsIn(bs)
    BY <2>1 DEF PathsIn
  <2>. QED
    BY <1>2, <2>1, <2>2, <2>3
<1>. HIDE DEF r
<1>. QED
  BY <1>1, <1>3, <1>4, <1>5 DEF CountedQueues

IsPushing(acc, q, s, W) ==
    /\ acc \in [0..Len(s) -> CountedQueues(W)] /\ acc[0] = q
    /\ \A k \in 1..Len(s) : acc[k] = Push(acc[k - 1], s[k])
LEMMA PushingUnfolds ==
    ASSUME NEW W, NEW q \in CountedQueues(W), NEW s \in Seq(PathItems(W))
    PROVE  \E acc : IsPushing(acc, q, s, W) /\ acc[Len(s)] = FoldLeft(Push, q, s)
<1>. DEFINE D == DOMAIN s
            T == CountedQueues(W)
            pick == [S \in SUBSET D |-> Max(S)]
            op == [z \in ((SUBSET D) \ {{}}) \X T |-> Push(z[2], s[Max(z[1])])]
            iter == CHOOSE g : g = [S \in SUBSET D |-> IF S = {} THEN q
                                      ELSE LET x == Max(S) IN Push(g[S \ {x}], s[x])]
<1>1. D = 1..Len(s) /\ Len(s) \in Nat /\ \A k \in 1..Len(s) : s[k] \in PathItems(W)
  BY ElementOfSeq, LenProperties
<1>2. IsFiniteSet(D)
  BY <1>1, FS_Interval
<1>3. \A S \in SUBSET D : S # {} => Max(S) \in S /\ \A x \in S : x <= Max(S)
  BY <1>1, LastPlace
<1>4. /\ op \in [((SUBSET D) \ {{}}) \X T -> T]
      /\ \A S \in (SUBSET D) \ {{}}, P \in T : op[<<S, P>>] = Push(P, s[Max(S)])
  <2>1. \A S \in (SUBSET D) \ {{}}, P \in T : Push(P, s[Max(S)]) \in T
    <3>. SUFFICES ASSUME NEW S \in (SUBSET D) \ {{}}, NEW P \in T PROVE Push(P, s[Max(S)]) \in T
      OBVIOUS
    <3>1. s[Max(S)] \in PathItems(W)
      BY <1>1, <1>3
    <3>. QED
      BY <3>1, PushAdds
  <2>. HIDE DEF T, D
  <2>. QED
    BY <2>1
<1>5. pick = [S \in SUBSET D |-> Max(S)]
  OBVIOUS
<1>. HIDE DEF op, pick, D, T
<1>6. PICK h : IsFold(h, D, T, q, pick, op)
  <2>1. \A S \in SUBSET D : S # {} => pick[S] \in S
    BY <1>3, <1>5
  <2>2. q \in T
    BY DEF T
  <2>. QED
    BY <1>2, <1>4, <2>1, <2>2, SetRecursion
<1>7. ASSUME NEW S \in SUBSET D
      PROVE  h[S] = IF S = {} THEN q ELSE LET x == Max(S) IN Push(h[S \ {x}], s[x])
  <2>. DEFINE x == Max(S)
  <2>1. CASE S = {}
    BY <1>6, <2>1 DEF IsFold
  <2>2. CASE S # {}
    <3>1. x \in S /\ x \in D /\ pick[S] = x /\ S \ {x} \in SUBSET D
      BY <1>3, <1>5, <2>2
    <3>2. h[S] = op[<<S, h[S \ {x}]>>]
      BY <1>6, <2>2, <3>1 DEF IsFold
    <3>3. h[S \ {x}] \in T
      BY <1>6, <3>1 DEF IsFold
    <3>4. h[S] = Push(h[S \ {x}], s[x])
      BY <1>4, <2>2, <3>2, <3>3
    <3>. HIDE DEF x
    <3>5. x = Max(S)
      BY DEF x
    <3>. QED
      BY <2>2, <3>4, <3>5, Zenon
  <2>. QED
    BY <2>1, <2>2
<1>8. h = [S \in SUBSET D |-> IF S = {} THEN q ELSE LET x == Max(S) IN Push(h[S \ {x}], s[x])]
  <2>1. h = [S \in SUBSET D |-> h[S]]
    BY <1>6 DEF IsFold
  <2>. QED
    BY <1>7, <2>1, Zenon
<1>9. iter = [S \in SUBSET D |-> IF S = {} THEN q ELSE LET x == Max(S) IN Push(iter[S \ {x}], s[x])]
  BY <1>8, Zenon
<1>10. FoldLeft(Push, q, s) = iter[D]
  BY Zenon DEF FoldLeft, MapThenFoldSet, D
<1>. HIDE DEF iter
<1>11. ASSUME NEW k \in 1..Len(s) PROVE iter[1..k] = Push(iter[1..(k - 1)], s[k])
  <2>1. 1..k \in SUBSET D /\ 1..k # {}
    <3>1. D = 1..Len(s) /\ Len(s) \in Nat
      BY <1>1
    <3>2. k \in 1..k /\ \A j \in 1..k : j \in 1..Len(s)
      BY <3>1
    <3>. QED
      BY <3>1, <3>2
  <2>2. Max(1..k) = k
    <3>1. \A S \in SUBSET D : S # {} => Max(S) \in S /\ \A x \in S : x <= Max(S)
      BY <1>3
    <3>2. Max(1..k) \in 1..k /\ \A x \in 1..k : x <= Max(1..k)
      BY <2>1, <3>1, Zenon
    <3>. QED
      BY <3>2
  <2>3. (1..k) \ {k} = 1..(k - 1)
    OBVIOUS
  <2>4. iter[1..k] = Push(iter[(1..k) \ {Max(1..k)}], s[Max(1..k)])
    BY <1>9, <2>1, Zenon
  <2>. QED
    BY <2>2, <2>3, <2>4
<1>. DEFINE acc == [k \in 0..Len(s) |-> iter[1..k]]
<1>12. acc[0] = q
  <2>1. 1..0 = {} /\ {} \in SUBSET D
    OBVIOUS
  <2>2. iter[{}] = q
    BY <1>9, <2>1, Zenon
  <2>. QED
    BY <1>1, <2>1, <2>2
<1>13. \A k \in 1..Len(s) : acc[k] = Push(acc[k - 1], s[k])
  BY <1>1, <1>11
<1>14. \A k \in 0..Len(s) : acc[k] \in T
  <2>. SUFFICES ASSUME NEW k \in 0..Len(s) PROVE acc[k] \in T
    OBVIOUS
  <2>. DEFINE G == {j \in Nat : acc[j] \in T}
  <2>1. 0 \in G
    BY <1>12 DEF T
  <2>2. ASSUME NEW j \in 0..(k - 1), j \in G PROVE j + 1 \in G
    <3>1. j + 1 \in 1..Len(s) /\ (j + 1) - 1 = j /\ acc[j] \in T
      BY <1>1, <2>2
    <3>. HIDE DEF acc
    <3>2. s[j + 1] \in PathItems(W)
      BY <1>1, <3>1
    <3>3. acc[j + 1] = Push(acc[j], s[j + 1])
      BY <1>13, <3>1
    <3>4. Push(acc[j], s[j + 1]) \in T
      BY <3>1, <3>2, PushAdds DEF T
    <3>. QED
      BY <3>1, <3>3, <3>4
  <2>3. k \in Nat
    BY <1>1
  <2>4. k \in G
    <3>. HIDE DEF G
    <3>. QED
      BY <2>1, <2>2, <2>3, UpTo
  <2>. QED
    BY <2>4
<1>15. acc[Len(s)] = FoldLeft(Push, q, s)
  <2>1. acc[Len(s)] = iter[1..Len(s)]
    BY <1>1
  <2>. QED
    BY <1>1, <1>10, <2>1
<1>16. acc \in [0..Len(s) -> T]
  BY <1>14
<1>17. IsPushing(acc, q, s, W)
  <2>. HIDE DEF acc
  <2>. QED
    BY <1>12, <1>13, <1>16 DEF IsPushing, T
<1>. QED
  BY <1>15, <1>17

LEMMA PushesAdd ==
    ASSUME NEW W, NEW q \in CountedQueues(W), NEW s \in Seq(PathItems(W))
    PROVE  LET r == FoldLeft(Push, q, s)
           IN  r \in CountedQueues(W) /\ PathsIn(r.branches) = PathsIn(q.branches) \cup {s[k].path : k \in 1..Len(s)}
<1>1. PICK acc : IsPushing(acc, q, s, W) /\ acc[Len(s)] = FoldLeft(Push, q, s)
  BY PushingUnfolds
<1>2. Len(s) \in Nat /\ \A k \in 1..Len(s) : s[k] \in PathItems(W)
  BY ElementOfSeq, LenProperties
<1>3. acc \in [0..Len(s) -> CountedQueues(W)] /\ acc[0] = q /\ \A k \in 1..Len(s) : acc[k] = Push(acc[k - 1], s[k])
  BY <1>1 DEF IsPushing
<1>. DEFINE Good(k) == PathsIn(acc[k].branches) = PathsIn(q.branches) \cup {s[j].path : j \in 1..k}
            G == {k \in Nat : k > Len(s) \/ Good(k)}
<1>4. 0 \in G
  BY <1>3
<1>5. ASSUME NEW k \in 0..(Len(s) - 1), k \in G PROVE k + 1 \in G
  <2>1. k + 1 \in 1..Len(s) /\ (k + 1) - 1 = k /\ k \in 0..Len(s) /\ Good(k) /\ k + 1 \in Nat
    BY <1>2, <1>5
  <2>2. acc[k] \in CountedQueues(W) /\ s[k + 1] \in PathItems(W) /\ acc[k + 1] = Push(acc[k], s[k + 1])
    BY <1>2, <1>3, <2>1
  <2>3. PathsIn(acc[k + 1].branches) = PathsIn(acc[k].branches) \cup {s[k + 1].path}
    BY <2>2, PushAdds
  <2>4. {s[j].path : j \in 1..(k + 1)} = {s[j].path : j \in 1..k} \cup {s[k + 1].path}
    <3>1. \A j : j \in 1..(k + 1) <=> j \in 1..k \/ j = k + 1
      OBVIOUS
    <3>. QED
      BY <3>1, Zenon
  <2>5. Good(k + 1)
    BY <2>1, <2>3, <2>4, Zenon
  <2>. QED
    BY <2>1, <2>5
<1>6. Len(s) \in G
  <2>. HIDE DEF G
  <2>. QED
    BY <1>2, <1>4, <1>5, UpTo
<1>7. acc[Len(s)] \in CountedQueues(W)
  BY <1>2, <1>3
<1>. QED
  BY <1>1, <1>2, <1>6, <1>7

\* Taking one member out of a sequence moves those behind it up.
LEMMA Removes ==
    ASSUME NEW S, NEW s \in Seq(S), NEW i \in 1..Len(s)
    PROVE  LET r == RemoveAt(s, i)
           IN  /\ r \in Seq(S) /\ Len(r) = Len(s) - 1
               /\ \A j \in 1..(Len(s) - 1) : r[j] = IF j < i THEN s[j] ELSE s[j + 1]
<1>. DEFINE n == Len(s)
            a == SubSeq(s, 1, i - 1)
            b == SubSeq(s, i + 1, n)
<1>1. n \in Nat /\ \A j \in 1..n : s[j] \in S
  BY ElementOfSeq, LenProperties
<1>2. a \in Seq(S) /\ Len(a) = i - 1 /\ \A j \in 1..(i - 1) : a[j] = s[j]
  <2>1. 1 \in Int /\ i - 1 \in Int /\ \A j \in 1..(i - 1) : s[j] \in S
    BY <1>1
  <2>2. /\ a \in Seq(S) /\ Len(a) = IF 1 <= i - 1 THEN (i - 1) - 1 + 1 ELSE 0
        /\ \A j \in 1..((i - 1) - 1 + 1) : a[j] = s[1 + j - 1]
    BY <2>1, SubSeqProperties
  <2>3. i \in Nat /\ i >= 1
    BY <1>1
  <2>. HIDE DEF a
  <2>. QED
    BY <2>2, <2>3
<1>3. b \in Seq(S) /\ Len(b) = n - i /\ \A j \in 1..(n - i) : b[j] = s[i + j]
  <2>1. i + 1 \in Int /\ n \in Int /\ \A j \in (i + 1)..n : s[j] \in S
    BY <1>1
  <2>2. /\ b \in Seq(S) /\ Len(b) = IF i + 1 <= n THEN n - (i + 1) + 1 ELSE 0
        /\ \A j \in 1..(n - (i + 1) + 1) : b[j] = s[(i + 1) + j - 1]
    BY <2>1, SubSeqProperties
  <2>3. i \in Nat /\ i <= n
    BY <1>1
  <2>. HIDE DEF b, n
  <2>. QED
    BY <1>1, <2>2, <2>3
<1>. HIDE DEF a, b, n
<1>4. i \in 1..n
  BY DEF n
<1>5. a \o b \in Seq(S) /\ Len(a \o b) = n - 1 /\ \A j \in 1..(n - 1) : (a \o b)[j] = IF j < i THEN s[j] ELSE s[j + 1]
  <2>1. /\ a \o b \in Seq(S) /\ Len(a \o b) = Len(a) + Len(b)
        /\ \A j \in 1..(Len(a) + Len(b)) : (a \o b)[j] = IF j <= Len(a) THEN a[j] ELSE b[j - Len(a)]
    BY <1>2, <1>3, ConcatProperties
  <2>2. Len(a) + Len(b) = n - 1
    BY <1>1, <1>2, <1>3, <1>4
  <2>3. ASSUME NEW j \in 1..(n - 1) PROVE (a \o b)[j] = IF j < i THEN s[j] ELSE s[j + 1]
    <3>1. (a \o b)[j] = IF j <= Len(a) THEN a[j] ELSE b[j - Len(a)]
      BY <2>1, <2>2
    <3>2. CASE j < i
      BY <1>1, <1>2, <1>4, <3>1, <3>2
    <3>3. CASE ~(j < i)
      <4>1. j - (i - 1) \in 1..(n - i) /\ i + (j - (i - 1)) = j + 1 /\ ~(j <= i - 1)
        BY <1>1, <1>4, <3>3
      <4>. QED
        BY <1>2, <1>3, <3>1, <3>3, <4>1
    <3>. QED
      BY <3>2, <3>3
  <2>. QED
    BY <2>1, <2>2, <2>3
<1>. QED
  BY <1>5 DEF RemoveAt, a, b, n

\* While something is held, there is a foremost item.
LEMMA ForemostIs ==
    ASSUME NEW W, NEW bs \in Queues(W), Held(bs) # 0
    PROVE  Foremost(bs) \in Places(bs)
<1>. DEFINE all == UNION {{k} \X DOMAIN bs[k].items : k \in DOMAIN bs}
            v(a) == bs[a[1]].items[a[2]].adjusted
            P == Places(bs)
            val == [a \in P |-> v(a)]
            vals == {val[a] : a \in P}
<1>1. QueueShape(W, bs)
  BY InQueue
<1>2. /\ Len(bs) \in Nat /\ \A k \in 1..Len(bs) : Len(bs[k].items) \in Nat
      /\ \A k \in 1..Len(bs) : \A j \in 1..Len(bs[k].items) : bs[k].items[j].adjusted \in Int
  BY <1>1 DEF QueueShape
<1>3. \A a \in P : a[1] \in Nat /\ a[2] \in Nat /\ v(a) \in Int /\ a = <<a[1], a[2]>>
  BY <1>2, PlacesAre
<1>4. IsFiniteSet(P) /\ P # {}
  <2>1. IsFiniteSet(P) /\ Held(bs) = Cardinality(P)
    BY HeldCounts
  <2>. QED
    BY <2>1, FS_EmptySet
<1>5. all = P
  BY <1>1 DEF Places, QueueShape
<1>. HIDE DEF P, all, v
<1>6. vals \subseteq Int /\ vals # {} /\ IsFiniteSet(vals)
  <2>1. IsFiniteSet(vals)
    <3>. HIDE DEF val
    <3>. QED
      BY <1>4, FiniteImage
  <2>. QED
    BY <1>3, <1>4, <2>1
<1>7. PICK m \in vals : \A x \in vals : x <= m
  <2>. HIDE DEF vals
  <2>. QED
    BY <1>6, FiniteGreatest
<1>8. PICK c \in P : v(c) = m
  OBVIOUS
<1>9. \A b \in P : v(b) <= m /\ v(b) \in Int
  BY <1>3, <1>7
<1>10. m \in Int
  BY <1>3, <1>8
<1>. HIDE DEF vals, val
<1>. DEFINE Top == {b \in P : v(b) = m}
            firsts == {b[1] : b \in Top}
<1>11. PICK k \in firsts : \A x \in firsts : k <= x
  <2>1. firsts \subseteq Nat /\ firsts # {}
    BY <1>3, <1>8
  <2>. HIDE DEF firsts
  <2>. QED
    BY <2>1, LeastOf
<1>. DEFINE seconds == {b[2] : b \in {t \in Top : t[1] = k}}
<1>12. PICK j \in seconds : \A x \in seconds : j <= x
  <2>1. seconds \subseteq Nat /\ seconds # {}
    BY <1>3, <1>11
  <2>. HIDE DEF seconds
  <2>. QED
    BY <2>1, LeastOf
<1>13. PICK a \in P : v(a) = m /\ a[1] = k /\ a[2] = j
  BY <1>12
<1>14. ASSUME NEW b \in P
       PROVE  v(b) < v(a) \/ (v(b) = v(a) /\ (a[1] < b[1] \/ (a[1] = b[1] /\ a[2] <= b[2])))
  <2>1. CASE v(b) = m
    <3>1. k <= b[1] /\ k \in Nat /\ b[1] \in Nat
      BY <1>3, <1>11, <2>1
    <3>2. b[1] = k => j <= b[2]
      BY <1>12, <2>1
    <3>. QED
      BY <1>3, <1>13, <2>1, <3>1, <3>2
  <2>2. CASE v(b) # m
    BY <1>9, <1>10, <1>13, <2>2
  <2>. QED
    BY <2>1, <2>2
<1>15. Foremost(bs) = CHOOSE z \in P : \A b \in P : v(b) < v(z) \/ (v(b) = v(z) /\ (z[1] < b[1] \/ (z[1] = b[1] /\ z[2] <= b[2])))
  BY <1>5, Zenon DEF Foremost, v, all
<1>16. Foremost(bs) \in P
  <2>. DEFINE F(z) == \A b \in P : v(b) < v(z) \/ (v(b) = v(z) /\ (z[1] < b[1] \/ (z[1] = b[1] /\ z[2] <= b[2])))
  <2>1. F(a)
    BY <1>14
  <2>2. Foremost(bs) = CHOOSE z \in P : F(z)
    BY <1>15
  <2>. HIDE DEF F
  <2>. QED
    BY <1>13, <2>1, <2>2
<1>. QED
  BY <1>16 DEF P

\* Taking out one place leaves the others what they have, wherever they move to.
Loses(bs, r, a) ==
    \E f \in Bijection(Places(bs) \ {a}, Places(r)) : \A b \in Places(bs) \ {a} : PathAt(r, f[b]) = PathAt(bs, b)
LEMMA HeldLess ==
    ASSUME NEW W, NEW bs \in Queues(W), NEW r \in Queues(W), NEW a \in Places(bs), Loses(bs, r, a)
    PROVE  /\ Held(r) = Held(bs) - 1 /\ PathsIn(r) \subseteq PathsIn(bs)
           /\ \A q \in PathsIn(bs) : q # PathAt(bs, a) => q \in PathsIn(r)
<1>1. PICK f \in Bijection(Places(bs) \ {a}, Places(r)) : \A b \in Places(bs) \ {a} : PathAt(r, f[b]) = PathAt(bs, b)
  BY DEF Loses
<1>2. IsFiniteSet(Places(bs)) /\ Held(bs) = Cardinality(Places(bs)) /\ Held(r) = Cardinality(Places(r))
  BY HeldCounts
<1>3. IsFiniteSet(Places(bs) \ {a}) /\ Cardinality(Places(bs) \ {a}) = Cardinality(Places(bs)) - 1
  BY <1>2, FS_RemoveElement
<1>4. Cardinality(Places(r)) = Cardinality(Places(bs) \ {a})
  <2>1. ExistsBijection(Places(bs) \ {a}, Places(r))
    BY <1>1 DEF ExistsBijection
  <2>. QED
    BY <1>3, <2>1, FS_Bijection
<1>5. /\ \A b \in Places(bs) \ {a} : f[b] \in Places(r)
      /\ \A c \in Places(r) : \E b \in Places(bs) \ {a} : f[b] = c
  BY <1>1 DEF Bijection, Injection, Surjection
<1>6. PathsIn(r) \subseteq PathsIn(bs)
  BY <1>1, <1>5 DEF PathsIn
<1>7. \A q \in PathsIn(bs) : q # PathAt(bs, a) => q \in PathsIn(r)
  BY <1>1, <1>5 DEF PathsIn
<1>. QED
  BY <1>2, <1>3, <1>4, <1>6, <1>7

\* Where a place moves to when the one at k is taken out, and where it was.
Up(k, i) == IF i < k THEN i ELSE i - 1
Back(k, i) == IF i < k THEN i ELSE i + 1
LEMMA ClosesUp ==
    ASSUME NEW n \in Nat, NEW k \in 1..n
    PROVE  /\ \A i \in 1..n : i # k => Up(k, i) \in 1..(n - 1) /\ Back(k, Up(k, i)) = i
           /\ \A i \in 1..(n - 1) : Back(k, i) \in 1..n /\ Back(k, i) # k /\ Up(k, Back(k, i)) = i
  BY DEF Up, Back
LEMMA RemovesAll ==
    ASSUME NEW S, NEW s \in Seq(S), NEW i \in 1..Len(s)
    PROVE  LET r == RemoveAt(s, i)
           IN  r \in Seq(S) /\ Len(r) = Len(s) - 1 /\ \A j \in 1..(Len(s) - 1) : r[j] = s[Back(i, j)]
<1>1. LET r == RemoveAt(s, i)
      IN  /\ r \in Seq(S) /\ Len(r) = Len(s) - 1
          /\ \A j \in 1..(Len(s) - 1) : r[j] = IF j < i THEN s[j] ELSE s[j + 1]
  BY Removes
<1>. QED
  BY <1>1 DEF Back

\* A pop takes out the foremost item, with its branch when it was the last of it.
LEMMA PoppedLoses ==
    ASSUME NEW W, NEW bs \in Queues(W), Held(bs) # 0
    PROVE  Popped(bs) \in Queues(W) /\ Loses(bs, Popped(bs), Foremost(bs))
<1>. DEFINE Es == [item : PathItems(W), adjusted : Int]
            a == Foremost(bs)
            n == Len(bs)
            P == Places(bs)
            r == Popped(bs)
<1>1. QueueShape(W, bs) /\ bs \in Seq([id : W, items : Seq(Es)])
  BY InQueue DEF Queues
<1>2. a \in P
  BY ForemostIs
<1>3. PICK k \in 1..n : \E j \in 1..Len(bs[k].items) : a = <<k, j>>
  BY <1>2, PlacesAre
<1>4. PICK j \in 1..Len(bs[k].items) : a = <<k, j>>
  BY <1>3
<1>. DEFINE its == bs[k].items
            m == Len(its)
            left == RemoveAt(its, j)
<1>5. n \in Nat /\ m \in Nat /\ its \in Seq(Es) /\ bs[k] = [id |-> bs[k].id, items |-> its] /\ bs[k].id \in W /\ DOMAIN bs = 1..n
  BY <1>1 DEF QueueShape
<1>6. left \in Seq(Es) /\ Len(left) = m - 1 /\ \A i \in 1..(m - 1) : left[i] = its[Back(j, i)]
  <2>. HIDE DEF Es
  <2>. QED
    BY <1>4, <1>5, RemovesAll
<1>7. r = IF left = <<>> THEN RemoveAt(bs, k) ELSE [bs EXCEPT ![k].items = left]
  <2>1. a[1] = k /\ a[2] = j
    BY <1>4
  <2>2. r = LET b == RemoveAt(bs[a[1]].items, a[2]) IN IF b = <<>> THEN RemoveAt(bs, a[1]) ELSE [bs EXCEPT ![a[1]].items = b]
    BY DEF Popped
  <2>. HIDE DEF a, r
  <2>. QED
    BY <2>1, <2>2
<1>. HIDE DEF r, left
<1>10. k \in 1..n /\ j \in 1..m
  OBVIOUS
<1>11. /\ \A i \in 1..n : i # k => Up(k, i) \in 1..(n - 1) /\ Back(k, Up(k, i)) = i
       /\ \A i \in 1..(n - 1) : Back(k, i) \in 1..n /\ Back(k, i) # k /\ Up(k, Back(k, i)) = i
       /\ \A i \in 1..m : i # j => Up(j, i) \in 1..(m - 1) /\ Back(j, Up(j, i)) = i
       /\ \A i \in 1..(m - 1) : Back(j, i) \in 1..m /\ Back(j, i) # j /\ Up(j, Back(j, i)) = i
  <2>1. n \in Nat /\ m \in Nat
    BY <1>5
  <2>. HIDE DEF n, m
  <2>2. /\ \A i \in 1..n : i # k => Up(k, i) \in 1..(n - 1) /\ Back(k, Up(k, i)) = i
        /\ \A i \in 1..(n - 1) : Back(k, i) \in 1..n /\ Back(k, i) # k /\ Up(k, Back(k, i)) = i
    BY <1>10, <2>1, ClosesUp
  <2>3. /\ \A i \in 1..m : i # j => Up(j, i) \in 1..(m - 1) /\ Back(j, Up(j, i)) = i
        /\ \A i \in 1..(m - 1) : Back(j, i) \in 1..m /\ Back(j, i) # j /\ Up(j, Back(j, i)) = i
    BY <1>10, <2>1, ClosesUp
  <2>. QED
    BY <2>2, <2>3
<1>8. CASE left = <<>>
  <2>1. m = 1 /\ j = 1
    <3>1. Len(left) = 0 /\ m \in Nat /\ Len(left) = m - 1
      BY <1>5, <1>6, <1>8
    <3>. HIDE DEF m
    <3>. QED
      BY <1>10, <3>1
  <2>2. r \in Seq([id : W, items : Seq(Es)]) /\ Len(r) = n - 1 /\ \A i \in 1..(n - 1) : r[i] = bs[Back(k, i)]
    <3>1. r = RemoveAt(bs, k)
      BY <1>7, <1>8
    <3>2. bs \in Seq([id : W, items : Seq(Es)]) /\ k \in 1..Len(bs)
      BY <1>1, <1>3
    <3>. HIDE DEF Es
    <3>. QED
      BY <3>1, <3>2, RemovesAll
  <2>. DEFINE f == [b \in P \ {a} |-> <<Up(k, b[1]), b[2]>>]
  <2>3. ASSUME NEW b \in P \ {a}
        PROVE  /\ b[1] \in 1..n /\ b[1] # k /\ b[2] \in 1..Len(bs[b[1]].items) /\ b = <<b[1], b[2]>>
               /\ f[b] = <<Up(k, b[1]), b[2]>>
    <3>1. PICK i \in 1..n : \E h \in 1..Len(bs[i].items) : b = <<i, h>>
      BY PlacesAre
    <3>2. PICK h \in 1..Len(bs[i].items) : b = <<i, h>>
      BY <3>1
    <3>3. i # k
      <4>1. i = k => h = 1
        <5>1. i = k => h \in 1..m
          OBVIOUS
        <5>2. m = 1
          BY <2>1
        <5>. HIDE DEF m
        <5>. QED
          BY <5>1, <5>2
      <4>2. b # a
        OBVIOUS
      <4>. HIDE DEF a
      <4>. QED
        BY <1>4, <2>1, <3>2, <4>1, <4>2
    <3>. QED
      BY <3>2, <3>3
  <2>4. ASSUME NEW b \in P \ {a} PROVE f[b] \in Places(r) /\ PathAt(r, f[b]) = PathAt(bs, b)
    <3>. DEFINE i == Up(k, b[1])
    <3>1. i \in 1..(n - 1) /\ Back(k, i) = b[1]
      <4>1. b[1] \in 1..n /\ b[1] # k
        BY <2>3
      <4>. HIDE DEF n, P
      <4>. QED
        BY <1>11, <4>1
    <3>2. r[i] = bs[b[1]]
      BY <2>2, <3>1
    <3>3. f[b] = <<i, b[2]>>
      BY <2>3
    <3>4. b[2] \in 1..Len(r[i].items) /\ i \in 1..Len(r)
      BY <2>2, <2>3, <3>1, <3>2
    <3>. HIDE DEF i, f, P, a, n, m
    <3>5. f[b] \in Places(r)
      BY <3>3, <3>4, PlacesAre
    <3>6. PathAt(r, f[b]) = PathAt(bs, b)
      BY <3>2, <3>3 DEF PathAt
    <3>. QED
      BY <3>5, <3>6
  <2>5. ASSUME NEW b \in P \ {a}, NEW c \in P \ {a}, f[b] = f[c] PROVE b = c
    <3>1. Up(k, b[1]) = Up(k, c[1]) /\ b[2] = c[2]
      BY <2>3, <2>5
    <3>2. Back(k, Up(k, b[1])) = b[1] /\ Back(k, Up(k, c[1])) = c[1]
      <4>1. b[1] \in 1..n /\ b[1] # k /\ c[1] \in 1..n /\ c[1] # k
        BY <2>3
      <4>. HIDE DEF n, P
      <4>. QED
        BY <1>11, <4>1
    <3>3. b = <<b[1], b[2]>> /\ c = <<c[1], c[2]>>
      BY <2>3
    <3>. QED
      BY <3>1, <3>2, <3>3, Zenon
  <2>6. ASSUME NEW c \in Places(r) PROVE \E b \in P \ {a} : f[b] = c
    <3>0. \E i \in 1..Len(r) : \E h \in 1..Len(r[i].items) : c = <<i, h>>
      BY PlacesAre
    <3>1. PICK i \in 1..(n - 1) : \E h \in 1..Len(r[i].items) : c = <<i, h>>
      BY <2>2, <3>0
    <3>2. PICK h \in 1..Len(r[i].items) : c = <<i, h>>
      BY <3>1
    <3>. DEFINE l == Back(k, i)
    <3>3. l \in 1..n /\ r[i] = bs[l] /\ l # k /\ Up(k, l) = i
      BY <1>11, <2>2
    <3>. HIDE DEF l, f
    <3>4. <<l, h>> \in P \ {a}
      BY <1>4, <3>2, <3>3, PlacesAre
    <3>5. f[<<l, h>>] = c
      BY <2>3, <3>2, <3>3, <3>4
    <3>. QED
      BY <3>4, <3>5
  <2>7. f \in Bijection(P \ {a}, Places(r))
    <3>1. f \in [P \ {a} -> Places(r)]
      BY <2>4
    <3>. HIDE DEF f, P, a
    <3>. QED
      BY <2>5, <2>6, <3>1 DEF Bijection, Injection, Surjection, IsInjective
  <2>8. r \in Queues(W)
    BY <2>2 DEF Queues
  <2>. HIDE DEF f
  <2>. QED
    BY <2>4, <2>7, <2>8 DEF Loses, r
<1>9. CASE left # <<>>
  <2>. DEFINE b0 == [id |-> bs[k].id, items |-> left]
  <2>1. r = [bs EXCEPT ![k] = b0]
    <3>1. [bs[k] EXCEPT !.items = left] = b0
      BY <1>5, RecordsReplaced, Zenon
    <3>2. r = [bs EXCEPT ![k].items = left]
      BY <1>7, <1>9
    <3>. HIDE DEF r, left, b0
    <3>. QED
      BY <1>3, <1>5, <3>1, <3>2, Zenon
  <2>2. b0 \in [id : W, items : Seq(Es)] /\ b0.items = left
    BY <1>5, <1>6
  <2>. HIDE DEF b0
  <2>3. r \in Queues(W)
    BY <1>1, <2>1, <2>2 DEF Queues
  <2>4. Len(r) = n /\ r[k].items = left /\ \A i \in 1..n : i # k => r[i] = bs[i]
    BY <1>1, <1>3, <1>5, <2>1, <2>2
  <2>. DEFINE to(b) == IF b[1] = k THEN <<k, Up(j, b[2])>> ELSE b
              f == [b \in P \ {a} |-> to(b)]
  <2>5. ASSUME NEW b \in P \ {a}
        PROVE  /\ b[1] \in 1..n /\ b[2] \in 1..Len(bs[b[1]].items) /\ b = <<b[1], b[2]>>
               /\ b[1] = k => b[2] # j /\ b[2] \in 1..m
               /\ f[b] = to(b)
    <3>1. PICK i \in 1..n : \E h \in 1..Len(bs[i].items) : b = <<i, h>>
      BY PlacesAre
    <3>2. PICK h \in 1..Len(bs[i].items) : b = <<i, h>>
      BY <3>1
    <3>3. i = k => h # j
      BY <1>4, <3>2
    <3>. QED
      BY <3>2, <3>3
  <2>. HIDE DEF its, m, Es
  <2>6. ASSUME NEW b \in P \ {a} PROVE f[b] \in Places(r) /\ PathAt(r, f[b]) = PathAt(bs, b)
    <3>1. CASE b[1] # k
      <4>1. f[b] = b /\ r[b[1]] = bs[b[1]]
        BY <2>4, <2>5, <3>1
      <4>. HIDE DEF f
      <4>. QED
        BY <2>4, <2>5, <4>1, PlacesAre DEF PathAt
    <3>2. CASE b[1] = k
      <4>. DEFINE i == Up(j, b[2])
      <4>1. i \in 1..(m - 1) /\ Back(j, i) = b[2]
        <5>1. b[2] \in 1..m /\ b[2] # j
          BY <2>5, <3>2
        <5>. HIDE DEF P
        <5>. QED
          BY <1>11, <5>1
      <4>2. f[b] = <<k, i>>
        BY <2>5, <3>2
      <4>3. left[i] = its[b[2]]
        BY <1>6, <4>1
      <4>. HIDE DEF i, f
      <4>4. r[k].items[i] = bs[k].items[b[2]] /\ Len(r[k].items) = m - 1
        BY <1>6, <2>4, <4>3 DEF its
      <4>. QED
        BY <1>3, <2>4, <2>5, <3>2, <4>1, <4>2, <4>4, PlacesAre DEF PathAt
    <3>. QED
      BY <3>1, <3>2
  <2>7. ASSUME NEW b \in P \ {a}, NEW c \in P \ {a}, f[b] = f[c] PROVE b = c
    <3>1. to(b) = to(c)
      BY <2>5, <2>7
    <3>2. to(b)[1] = b[1] /\ to(c)[1] = c[1]
      BY <2>5
    <3>3. b[1] = c[1]
      BY <3>1, <3>2
    <3>4. CASE b[1] # k
      BY <3>1, <3>3, <3>4
    <3>5. CASE b[1] = k
      <4>1. to(b)[2] = Up(j, b[2]) /\ to(c)[2] = Up(j, c[2])
        BY <3>3, <3>5
      <4>2. b[2] \in 1..m /\ c[2] \in 1..m /\ b[2] # j /\ c[2] # j
        BY <2>5, <3>3, <3>5
      <4>3. Back(j, Up(j, b[2])) = b[2] /\ Back(j, Up(j, c[2])) = c[2]
        BY <1>11, <4>2
      <4>4. b[2] = c[2]
        BY <3>1, <4>1, <4>3
      <4>5. b = <<b[1], b[2]>> /\ c = <<c[1], c[2]>>
        BY <2>5
      <4>. QED
        BY <3>3, <4>4, <4>5, Zenon
    <3>. QED
      BY <3>4, <3>5
  <2>8. ASSUME NEW c \in Places(r) PROVE \E b \in P \ {a} : f[b] = c
    <3>0. \E i \in 1..Len(r) : \E h \in 1..Len(r[i].items) : c = <<i, h>>
      BY PlacesAre
    <3>1. PICK i \in 1..n : \E h \in 1..Len(r[i].items) : c = <<i, h>>
      BY <2>4, <3>0
    <3>2. PICK h \in 1..Len(r[i].items) : c = <<i, h>>
      BY <3>1
    <3>3. CASE i # k
      <4>1. c \in P \ {a} /\ c[1] # k
        BY <1>4, <2>4, <3>2, <3>3, PlacesAre
      <4>2. f[c] = c
        BY <2>5, <4>1
      <4>. QED
        BY <4>1, <4>2
    <3>4. CASE i = k
      <4>. DEFINE l == Back(j, h)
      <4>1. h \in 1..(m - 1)
        BY <1>6, <2>4, <3>2, <3>4
      <4>2. l \in 1..m /\ l # j /\ Up(j, l) = h
        BY <1>11, <4>1
      <4>. HIDE DEF l
      <4>3. <<k, l>> \in P \ {a}
        BY <1>4, <4>2, PlacesAre DEF m, its
      <4>4. to(<<k, l>>) = <<k, h>>
        BY <4>2
      <4>5. f[<<k, l>>] = c
        BY <2>5, <3>2, <3>4, <4>3, <4>4
      <4>. QED
        BY <4>3, <4>5
    <3>. QED
      BY <3>3, <3>4
  <2>9. f \in Bijection(P \ {a}, Places(r))
    <3>1. f \in [P \ {a} -> Places(r)]
      BY <2>6
    <3>. HIDE DEF f, P, a
    <3>. QED
      BY <2>7, <2>8, <3>1 DEF Bijection, Injection, Surjection, IsInjective
  <2>. HIDE DEF f
  <2>. QED
    BY <2>3, <2>6, <2>9 DEF Loses, r
<1>. QED
  BY <1>8, <1>9

\* Where the search may go from an activity.
SearchNodes == Ids(Graph)
LEMMA NeighborsAre ==
    ASSUME IsSearchRequest(request), NEW u
    PROVE  /\ Neighbors(u) \in Seq(SearchNodes)
           /\ \A v \in ToSet(Neighbors(u)) : v \in SearchNodes /\ \E k \in 1..Len(Graph.links) :
                  Graph.links[k].source = u /\ Graph.links[k].target = v
<1>. DEFINE n == Len(Graph.links)
            target(k) == Graph.links[k].target
            goes(k) == Graph.links[k].source = u /\ target(k) \in SearchNodes
            s == [k \in 1..n |-> IF goes(k) THEN <<target(k)>> ELSE <<>>]
<1>1. n \in Nat
  BY DEF IsSearchRequest, Graph, World
<1>2. Neighbors(u) = FlattenSeq(s)
  BY DEF Neighbors, SearchNodes
<1>. HIDE DEF n
<1>3. ASSUME NEW k \in 1..n
      PROVE  /\ s[k] \in Seq(SearchNodes) /\ (s[k] = <<>> \/ s[k] = <<s[k][1]>>)
             /\ Len(s[k]) = 1 => goes(k) /\ s[k][1] = target(k)
  <2>1. CASE goes(k)
    <3>1. s[k] = <<target(k)>> /\ target(k) \in SearchNodes
      BY <2>1
    <3>. HIDE DEF s, target
    <3>2. s[k] \in Seq(SearchNodes) /\ s[k][1] = target(k) /\ s[k] = <<s[k][1]>>
      BY <3>1
    <3>. QED
      BY <2>1, <3>2
  <2>2. CASE ~goes(k)
    <3>1. s[k] = <<>>
      BY <2>2
    <3>. HIDE DEF s, target
    <3>. QED
      BY <3>1
  <2>. QED
    BY <2>1, <2>2
<1>4. s \in [1..n -> Seq(SearchNodes)]
  BY <1>3
<1>. HIDE DEF s
<1>5. FlattenSeq(s) \in Seq(SearchNodes) /\ Joins(FlattenSeq(s), s, n)
  BY <1>1, <1>3, <1>4, FlattenJoins
<1>6. ASSUME NEW v \in ToSet(FlattenSeq(s)) PROVE v \in SearchNodes /\ \E k \in 1..n : goes(k) /\ target(k) = v
  <2>1. PICK j \in 1..Len(FlattenSeq(s)) : v = FlattenSeq(s)[j]
    BY <1>5, LenProperties DEF ToSet
  <2>2. PICK k \in 1..n : Len(s[k]) = 1 /\ v = s[k][1]
    BY <1>5, <2>1 DEF Joins, Kept
  <2>. QED
    BY <1>3, <2>2
<1>. QED
  BY <1>2, <1>5, <1>6 DEF n

LEMMA EdgeType ==
    ASSUME IsSearchRequest(request), NEW u \in SearchNodes, NEW v \in ToSet(Neighbors(u))
    PROVE  edgeDuration(u, v) \in Int
<1>. DEFINE n == Len(Graph.links)
            S == {h \in Known(Graph) : Graph.links[h].source = u /\ Graph.links[h].target = v}
<1>1. n \in Nat /\ \A k \in 1..n : Graph.links[k].dur \in Int /\ Graph.links[k].lag \in Int
  <2>. DEFINE Links == [source : Int, target : Int, type : {"FS", "SS", "FF", "SF"}, dur : Int, lag : Int]
  <2>1. Graph.links \in Seq(Links)
    BY DEF IsSearchRequest, Graph, World
  <2>2. \A l \in Links : l.dur \in Int /\ l.lag \in Int
    OBVIOUS
  <2>. HIDE DEF Links
  <2>. QED
    BY <2>1, <2>2, ElementOfSeq, LenProperties
<1>2. S # {} /\ S \subseteq 1..n
  <2>1. PICK k \in 1..n : Graph.links[k].source = u /\ Graph.links[k].target = v /\ v \in SearchNodes
    BY NeighborsAre
  <2>2. k \in S
    BY <2>1 DEF Known, SearchNodes
  <2>. QED
    BY <2>2 DEF Known
<1>. HIDE DEF n
<1>3. IsFiniteSet(S) /\ S \subseteq Int
  <2>1. IsFiniteSet(1..n)
    BY <1>1, FS_Interval
  <2>2. IsFiniteSet(S)
    <3>. HIDE DEF S
    <3>. QED
      BY <1>2, <2>1, FS_Subset
  <2>. QED
    BY <1>1, <1>2, <2>2
<1>. HIDE DEF S
<1>4. \E k \in S : \A h \in S : h <= k
  BY <1>2, <1>3, FiniteGreatest
<1>5. Most(S) \in S
  BY <1>4 DEF Most
<1>6. Graph.links[Most(S)].dur \in Int /\ Graph.links[Most(S)].lag \in Int
  BY <1>1, <1>2, <1>5
<1>7. edgeDuration(u, v) = Graph.links[Most(S)].dur + Graph.links[Most(S)].lag
  BY DEF edgeDuration, S
<1>. QED
  BY <1>6, <1>7

\* What the search makes of a path: it goes on to every neighbour not on it.
LEMMA SuccessorsAre ==
    ASSUME IsSearchRequest(request), NEW x \in PathItems(SearchNodes)
    PROVE  /\ Successors(x) \in Seq(PathItems(SearchNodes))
           /\ \A k \in 1..Len(Successors(x)) : \E v \in SearchNodes : Successors(x)[k].path = Append(x.path, v)
           /\ \A v \in ToSet(Neighbors(Last(x.path))) \ ToSet(x.path) :
                 \E k \in 1..Len(Successors(x)) : Successors(x)[k].path = Append(x.path, v)
<1>. DEFINE W == SearchNodes
            last == Last(x.path)
            near == Neighbors(last)
            n == Len(near)
            next(v) == Item(Append(x.path, v), x.est + edgeDuration(last, v), x.crit + IsCritical(v))
            s == [k \in 1..n |-> IF near[k] \in ToSet(x.path) THEN <<>> ELSE <<next(near[k])>>]
<1>1. x.path \in Seq(W) /\ x.path # <<>> /\ x.est \in Int /\ x.crit \in Int /\ last \in W
  <2>1. x.path \in Seq(W) /\ x.path # <<>> /\ x.est \in Int /\ x.crit \in Int
    BY DEF PathItems
  <2>2. Len(x.path) \in 1..Len(x.path)
    BY <2>1
  <2>. QED
    BY <2>1, <2>2, ElementOfSeq DEF Last
<1>2. near \in Seq(W) /\ n \in Nat /\ DOMAIN near = 1..n /\ \A k \in 1..n : near[k] \in W /\ near[k] \in ToSet(near)
  <2>1. near \in Seq(W)
    BY NeighborsAre
  <2>. HIDE DEF near, W
  <2>. QED
    BY <2>1, ElementOfSeq, LenProperties DEF ToSet
<1>3. ASSUME NEW k \in 1..n PROVE next(near[k]) \in PathItems(W) /\ next(near[k]).path = Append(x.path, near[k])
  <2>1. edgeDuration(last, near[k]) \in Int
    BY <1>1, <1>2, EdgeType
  <2>2. near[k] \in W
    BY <1>2
  <2>3. Append(x.path, near[k]) \in Seq(W) \ {<<>>}
    BY <1>1, <2>2, AppendProperties
  <2>4. IsCritical(near[k]) \in Int
    BY DEF IsCritical
  <2>. HIDE DEF near, last, W
  <2>. QED
    BY <1>1, <2>1, <2>3, <2>4 DEF Item, PathItems
<1>4. Successors(x) = FlattenSeq(s)
  BY DEF Successors
<1>. DEFINE goes(k) == near[k] \notin ToSet(x.path)
<1>5. ASSUME NEW k \in 1..n
      PROVE  /\ s[k] \in Seq(PathItems(W)) /\ (s[k] = <<>> \/ s[k] = <<s[k][1]>>)
             /\ Len(s[k]) = 1 <=> goes(k)
             /\ Len(s[k]) = 1 => s[k][1].path = Append(x.path, near[k])
  <2>. HIDE DEF next, n, near
  <2>1. CASE goes(k)
    <3>1. s[k] = <<next(near[k])>> /\ next(near[k]) \in PathItems(W)
      BY <1>3, <2>1
    <3>. HIDE DEF s
    <3>2. s[k] \in Seq(PathItems(W)) /\ s[k][1] = next(near[k]) /\ s[k] = <<s[k][1]>> /\ Len(s[k]) = 1
      BY <3>1
    <3>. QED
      BY <1>3, <2>1, <3>2
  <2>2. CASE ~goes(k)
    <3>1. s[k] = <<>>
      BY <2>2
    <3>. HIDE DEF s
    <3>2. Len(s[k]) = 0
      BY <3>1
    <3>. QED
      BY <2>2, <3>1, <3>2
  <2>. QED
    BY <2>1, <2>2
<1>6. s \in [1..n -> Seq(PathItems(W))]
  <2>1. s = [k \in 1..n |-> s[k]]
    OBVIOUS
  <2>. HIDE DEF s, n, W
  <2>. QED
    BY <1>5, <2>1
<1>. HIDE DEF s, n, W
<1>7. FlattenSeq(s) \in Seq(PathItems(W)) /\ Joins(FlattenSeq(s), s, n)
  BY <1>2, <1>5, <1>6, FlattenJoins
<1>8. \A k \in 1..Len(FlattenSeq(s)) : \E v \in W : FlattenSeq(s)[k].path = Append(x.path, v)
  <2>. SUFFICES ASSUME NEW j \in 1..Len(FlattenSeq(s)) PROVE \E v \in W : FlattenSeq(s)[j].path = Append(x.path, v)
    OBVIOUS
  <2>1. PICK k \in 1..n : Len(s[k]) = 1 /\ FlattenSeq(s)[j] = s[k][1]
    BY <1>7 DEF Joins, Kept
  <2>. QED
    BY <1>2, <1>5, <2>1
<1>9. ASSUME NEW v \in ToSet(near) \ ToSet(x.path)
      PROVE  \E j \in 1..Len(FlattenSeq(s)) : FlattenSeq(s)[j].path = Append(x.path, v)
  <2>1. PICK k \in 1..n : near[k] = v
    BY <1>2 DEF ToSet
  <2>2. Len(s[k]) = 1 /\ s[k][1].path = Append(x.path, v)
    BY <1>5, <2>1
  <2>3. s[k][1] \in ToSet(FlattenSeq(s))
    BY <1>7, <2>2 DEF Joins, Kept
  <2>4. PICK j \in 1..Len(FlattenSeq(s)) : FlattenSeq(s)[j] = s[k][1]
    BY <1>7, <2>3, LenProperties DEF ToSet
  <2>. QED
    BY <2>2, <2>4
<1>. QED
  BY <1>4, <1>7, <1>8, <1>9 DEF W

\* A way from the start that repeats nothing, and does not go on behind the end.
IsTrail(p) ==
    /\ p \in Seq(SearchNodes) \ {<<>>} /\ p[1] = StartId
    /\ \A i \in 1..(Len(p) - 1) : p[i] # Goal /\ p[i + 1] \in ToSet(Neighbors(p[i])) /\ \A h \in 1..i : p[h] # p[i + 1]
Further(S) == UNION {{Append(p, v) : v \in ToSet(Neighbors(Last(p))) \ ToSet(p)} : p \in {q \in S : Last(q) # Goal}}
LEMMA TrailsGrow ==
    ASSUME IsSearchRequest(request), NEW S, \A p \in S : IsTrail(p)
    PROVE  \A p \in Further(S) : IsTrail(p)
<1>. SUFFICES ASSUME NEW p \in S, Last(p) # Goal, NEW v \in ToSet(Neighbors(Last(p))) \ ToSet(p)
              PROVE  IsTrail(Append(p, v))
  <2>1. \A x \in Further(S) : \E p \in S : Last(p) # Goal /\ \E v \in ToSet(Neighbors(Last(p))) \ ToSet(p) : x = Append(p, v)
    BY DEF Further
  <2>. QED
    BY <2>1
<1>. DEFINE n == Len(p)
            r == Append(p, v)
<1>1. p \in Seq(SearchNodes) /\ p # <<>> /\ IsTrail(p) /\ v \in SearchNodes
  BY NeighborsAre DEF IsTrail
<1>2. n \in Nat /\ n >= 1
  BY <1>1
<1>3. r \in Seq(SearchNodes) /\ r # <<>> /\ Len(r) = n + 1 /\ r[n + 1] = v /\ \A i \in 1..n : r[i] = p[i]
  BY <1>1, AppendProperties
<1>4. \A h \in 1..n : p[h] # v
  BY <1>1, LenProperties DEF ToSet
<1>5. Last(p) = p[n]
  BY DEF Last
<1>. HIDE DEF n, r
<1>6. ASSUME NEW i \in 1..n
      PROVE  r[i] # Goal /\ r[i + 1] \in ToSet(Neighbors(r[i])) /\ \A h \in 1..i : r[h] # r[i + 1]
  <2>1. CASE i = n
    BY <1>2, <1>3, <1>4, <1>5, <2>1
  <2>2. CASE i # n
    <3>1. i \in 1..(n - 1) /\ i \in 1..n /\ i + 1 \in 1..n /\ \A h \in 1..i : h \in 1..n
      BY <1>2, <2>2
    <3>2. p[i] # Goal /\ p[i + 1] \in ToSet(Neighbors(p[i])) /\ \A h \in 1..i : p[h] # p[i + 1]
      BY <1>1, <3>1 DEF IsTrail, n
    <3>. QED
      BY <1>3, <3>1, <3>2
  <2>. QED
    BY <2>1, <2>2
<1>7. r[1] = StartId
  BY <1>1, <1>2, <1>3 DEF IsTrail
<1>8. \A i \in 1..(Len(r) - 1) : i \in 1..n
  BY <1>2, <1>3
<1>. QED
  BY <1>3, <1>6, <1>7, <1>8 DEF IsTrail, r

LEMMA SimplePathsAreTrails ==
    ASSUME IsSearchRequest(request)
    PROVE  \A p \in SimplePaths : IsTrail(p) /\ Last(p) = Goal
<1>. DEFINE T == SUBSET {p \in Seq(SearchNodes) : IsTrail(p)}
            op == [q \in Nat \X T |-> Further(q[2])]
            steps == CHOOSE f : f = [k \in Nat |-> IF k = 0 THEN {<<StartId>>} ELSE Further(f[k - 1])]
<1>1. {<<StartId>>} \in T
  <2>1. StartId \in SearchNodes
    BY DEF IsSearchRequest, SearchNodes, Graph, World
  <2>2. <<StartId>> \in Seq(SearchNodes) /\ Len(<<StartId>>) = 1 /\ <<StartId>>[1] = StartId /\ <<StartId>> # <<>>
    BY <2>1
  <2>3. IsTrail(<<StartId>>)
    BY <2>2 DEF IsTrail
  <2>. QED
    BY <2>2, <2>3
<1>2. \A S \in T : Further(S) \in T
  <2>. SUFFICES ASSUME NEW S \in T PROVE \A p \in Further(S) : p \in Seq(SearchNodes) /\ IsTrail(p)
    OBVIOUS
  <2>1. \A p \in S : IsTrail(p)
    OBVIOUS
  <2>2. \A p \in Further(S) : IsTrail(p)
    BY <2>1, TrailsGrow
  <2>. QED
    BY <2>2 DEF IsTrail
<1>. HIDE DEF T
<1>3. op \in [Nat \X T -> T]
  BY <1>2
<1>4. \A k \in Nat, S \in T : op[<<k, S>>] = Further(S)
  OBVIOUS
<1>. HIDE DEF op
<1>5. PICK f : Steps(f, Nat, T, {<<StartId>>}, op)
  BY <1>1, <1>3, NatRecursion
<1>6. f \in [Nat -> T] /\ f[0] = {<<StartId>>} /\ \A k \in Nat : f[k + 1] = Further(f[k])
  <2>1. f \in [Nat -> T] /\ f[0] = {<<StartId>>}
    BY <1>5 DEF Steps
  <2>2. ASSUME NEW k \in Nat PROVE f[k + 1] = Further(f[k])
    <3>1. k + 1 \in Nat /\ f[k] \in T
      BY <2>1
    <3>2. f[k + 1] = op[<<k, f[k]>>]
      BY <1>5, <3>1 DEF Steps
    <3>. QED
      BY <1>4, <3>1, <3>2
  <2>. QED
    BY <2>1, <2>2
<1>7. f = [k \in Nat |-> IF k = 0 THEN {<<StartId>>} ELSE Further(f[k - 1])]
  <2>1. ASSUME NEW k \in Nat PROVE f[k] = IF k = 0 THEN {<<StartId>>} ELSE Further(f[k - 1])
    <3>1. CASE k = 0
      BY <1>6, <3>1
    <3>2. CASE k # 0
      <4>1. k - 1 \in Nat /\ (k - 1) + 1 = k
        BY <3>2
      <4>2. f[(k - 1) + 1] = Further(f[k - 1])
        BY <1>6, <4>1
      <4>. QED
        BY <3>2, <4>1, <4>2
    <3>. QED
      BY <3>1, <3>2
  <2>2. f = [k \in Nat |-> f[k]]
    BY <1>6
  <2>. QED
    BY <2>1, <2>2, Zenon
<1>8. steps = [k \in Nat |-> IF k = 0 THEN {<<StartId>>} ELSE Further(steps[k - 1])]
  BY <1>7, Zenon
<1>9. SimplePaths = {p \in UNION {steps[k] : k \in 0..Cardinality(Ids(Graph))} : Last(p) = Goal}
  BY Zenon DEF SimplePaths, Further
<1>. HIDE DEF steps
<1>10. ASSUME NEW n \in Nat PROVE steps[n] \in T
  <2>. DEFINE G == {k \in Nat : steps[k] \in T}
  <2>1. 0 \in G
    BY <1>1, <1>8
  <2>2. ASSUME NEW k \in 0..(n - 1), k \in G PROVE k + 1 \in G
    <3>1. k \in Nat /\ k + 1 \in Nat /\ k + 1 # 0 /\ (k + 1) - 1 = k
      OBVIOUS
    <3>2. steps[k + 1] = Further(steps[k])
      BY <1>8, <3>1
    <3>. QED
      BY <1>2, <2>2, <3>1, <3>2
  <2>3. n \in G
    <3>. HIDE DEF G
    <3>. QED
      BY <2>1, <2>2, UpTo
  <2>. QED
    BY <2>3
<1>11. Cardinality(Ids(Graph)) \in Nat
  <2>1. IsFiniteSet(Ids(Graph))
    BY DEF IsSearchRequest, Graph, World
  <2>. QED
    BY <2>1, FS_CardinalityType
<1>12. \A k \in 0..Cardinality(Ids(Graph)) : steps[k] \in T
  BY <1>10, <1>11
<1>. QED
  BY <1>9, <1>12 DEF T

\* The beginnings of a path.
LEMMA PrefixIs ==
    ASSUME NEW W, NEW q \in Seq(W), NEW p \in Seq(W)
    PROVE  IsPrefix(q, p) <=> Len(q) <= Len(p) /\ \A i \in 1..Len(q) : q[i] = p[i]
<1>. DEFINE n == Len(q)
            a == SubSeq(q, 1, n)
            b == SubSeq(p, 1, n)
<1>1. n \in Nat /\ Len(p) \in Nat /\ \A i \in 1..n : q[i] \in W
  BY ElementOfSeq, LenProperties
<1>2. CASE n <= Len(p)
  <2>1. \A i \in 1..n : p[i] \in W
    BY <1>1, <1>2, ElementOfSeq
  <2>. HIDE DEF n
  <2>2. a \in Seq(W) /\ Len(a) = n /\ \A i \in 1..n : a[i] = q[i]
    <3>1. /\ a \in Seq(W) /\ Len(a) = IF 1 <= n THEN n - 1 + 1 ELSE 0
          /\ \A i \in 1..(n - 1 + 1) : a[i] = q[1 + i - 1]
      BY <1>1, SubSeqProperties
    <3>. HIDE DEF a
    <3>. QED
      BY <1>1, <3>1
  <2>3. b \in Seq(W) /\ Len(b) = n /\ \A i \in 1..n : b[i] = p[i]
    <3>1. /\ b \in Seq(W) /\ Len(b) = IF 1 <= n THEN n - 1 + 1 ELSE 0
          /\ \A i \in 1..(n - 1 + 1) : b[i] = p[1 + i - 1]
      BY <1>1, <2>1, SubSeqProperties
    <3>. HIDE DEF b
    <3>. QED
      BY <1>1, <3>1
  <2>4. a = b <=> \A i \in 1..n : q[i] = p[i]
    <3>. HIDE DEF a, b
    <3>. QED
      BY <2>2, <2>3, SeqEqual
  <2>5. IsPrefix(q, p) <=> n <= Len(p) /\ a = b
    BY DEF IsPrefix, n
  <2>. HIDE DEF a, b
  <2>. QED
    BY <2>4, <2>5 DEF n
<1>3. CASE ~(n <= Len(p))
  BY <1>3 DEF IsPrefix
<1>. QED
  BY <1>2, <1>3

\* A beginning that is not all of a path goes on to it by one of the neighbours.
LEMMA PrefixGoesOn ==
    ASSUME NEW q \in Seq(SearchNodes) \ {<<>>}, NEW p, IsTrail(p), Last(p) = Goal, IsPrefix(q, p)
    PROVE  /\ Last(q) = Goal => q = p
           /\ Last(q) # Goal => \E v \in ToSet(Neighbors(Last(q))) \ ToSet(q) : v \in SearchNodes /\ IsPrefix(Append(q, v), p)
<1>. DEFINE n == Len(q)
            m == Len(p)
<1>1. /\ q \in Seq(SearchNodes) /\ p \in Seq(SearchNodes) /\ n \in Nat /\ m \in Nat /\ n >= 1 /\ n <= m
      /\ \A i \in 1..n : q[i] = p[i]
  BY PrefixIs DEF IsTrail
<1>2. Last(q) = p[n] /\ Last(p) = p[m]
  BY <1>1 DEF Last
<1>3. ASSUME Last(q) = Goal PROVE q = p
  <2>1. n = m
    <3>1. n \in 1..(m - 1) => p[n] # Goal
      BY DEF IsTrail
    <3>. QED
      BY <1>1, <1>2, <1>3, <3>1
  <2>. QED
    BY <1>1, <2>1, SeqEqual
<1>4. ASSUME Last(q) # Goal PROVE \E v \in ToSet(Neighbors(Last(q))) \ ToSet(q) : v \in SearchNodes /\ IsPrefix(Append(q, v), p)
  <2>. DEFINE v == p[n + 1]
  <2>1. n \in 1..(m - 1) /\ n + 1 \in 1..m
    BY <1>1, <1>2, <1>4
  <2>2. v \in ToSet(Neighbors(Last(q))) /\ \A h \in 1..n : p[h] # v
    BY <1>2, <2>1 DEF IsTrail
  <2>3. v \notin ToSet(q)
    BY <1>1, <2>2, LenProperties DEF ToSet
  <2>4. v \in SearchNodes
    BY <1>1, <2>1, ElementOfSeq
  <2>5. IsPrefix(Append(q, v), p)
    <3>1. /\ Append(q, v) \in Seq(SearchNodes) /\ Len(Append(q, v)) = n + 1 /\ Append(q, v)[n + 1] = v
          /\ \A i \in 1..n : Append(q, v)[i] = q[i]
      BY <1>1, <2>4, AppendProperties
    <3>2. \A i \in 1..(n + 1) : i \in 1..n \/ i = n + 1
      BY <1>1
    <3>3. Len(Append(q, v)) <= Len(p) /\ \A i \in 1..Len(Append(q, v)) : Append(q, v)[i] = p[i]
      BY <1>1, <2>1, <3>1, <3>2
    <3>. QED
      BY <1>1, <3>1, <3>3, PrefixIs
  <2>. QED
    BY <2>2, <2>3, <2>4, <2>5
<1>. QED
  BY <1>3, <1>4

LEMMA FrontOfAppend ==
    ASSUME NEW W, NEW q \in Seq(W) \ {<<>>}, NEW v \in W
    PROVE  Append(q, v) \in Seq(W) /\ Append(q, v) # q /\ Len(Append(q, v)) > 1 /\ Front(Append(q, v)) = q
<1>. DEFINE n == Len(q)
            r == Append(q, v)
            f == SubSeq(r, 1, n)
<1>1. n \in Nat /\ n >= 1 /\ r \in Seq(W) /\ Len(r) = n + 1 /\ \A i \in 1..n : r[i] = q[i]
  BY AppendProperties
<1>2. \A i \in 1..n : r[i] \in W
  BY <1>1, ElementOfSeq
<1>. HIDE DEF n, r
<1>3. f \in Seq(W) /\ Len(f) = n /\ \A i \in 1..n : f[i] = r[i]
  <2>1. /\ f \in Seq(W) /\ Len(f) = IF 1 <= n THEN n - 1 + 1 ELSE 0
        /\ \A i \in 1..(n - 1 + 1) : f[i] = r[1 + i - 1]
    BY <1>1, <1>2, SubSeqProperties
  <2>. HIDE DEF f
  <2>. QED
    BY <1>1, <2>1
<1>4. Len(r) - 1 = n
  BY <1>1
<1>5. Front(r) = f
  BY <1>4 DEF Front
<1>. HIDE DEF f
<1>6. f = q
  BY <1>1, <1>3, SeqEqual DEF n
<1>. QED
  BY <1>1, <1>5, <1>6 DEF r, n

\* What the search keeps: every way to the end is found or begun in the queue,
\* and what a path in the queue goes on from has been taken.
Begun(bs, cache, p) == \E q \in PathsIn(bs) : IsPrefix(q, p) /\ q \notin cache
SearchOK(bs, n, pushed, cache, found) ==
    /\ [branches |-> bs, size |-> n, pushes |-> pushed] \in CountedQueues(SearchNodes)
    /\ found \in Seq(Seq(SearchNodes))
    /\ \A q \in PathsIn(bs) \cup cache : Len(q) > 1 => Front(q) \in cache
    /\ \A p : IsTrail(p) /\ Last(p) = Goal => Contains(found, p) \/ Begun(bs, cache, p)

LEMMA StartIsBegun ==
    ASSUME IsSearchRequest(request)
    PROVE  SearchOK(PushedTo(<<>>, Item(<<StartId>>, 0, IsCritical(StartId))), 1, 1, {}, <<>>)
<1>. DEFINE W == SearchNodes
            x == Item(<<StartId>>, 0, IsCritical(StartId))
            bs == PushedTo(<<>>, x)
<1>1. StartId \in W
  BY DEF IsSearchRequest, SearchNodes, Graph, World
<1>2. <<StartId>> \in Seq(W) /\ Len(<<StartId>>) = 1 /\ <<StartId>>[1] = StartId /\ <<StartId>> # <<>>
  BY <1>1
<1>3. x \in PathItems(W) /\ x.path = <<StartId>>
  <2>1. IsCritical(StartId) \in Int
    BY DEF IsCritical
  <2>. QED
    BY <1>2, <2>1 DEF Item, PathItems
<1>4. <<>> \in Queues(W)
  BY DEF Queues
<1>. HIDE DEF x
<1>5. bs \in Queues(W) /\ Adds(<<>>, bs, <<StartId>>)
  BY <1>3, <1>4, PushedToAdds
<1>6. Places(<<>>) = {}
  <2>1. 1..Len(<<>>) = {}
    OBVIOUS
  <2>. QED
    BY <2>1 DEF Places
<1>7. Held(<<>>) = 0
  <2>1. Held(<<>>) = Cardinality(Places(<<>>))
    BY <1>4, HeldCounts
  <2>. QED
    BY <1>6, <2>1, FS_EmptySet
<1>8. Held(bs) = 1 /\ PathsIn(bs) = {<<StartId>>}
  <2>1. Held(bs) = Held(<<>>) + 1 /\ PathsIn(bs) = PathsIn(<<>>) \cup {<<StartId>>}
    BY <1>4, <1>5, HeldMore
  <2>2. PathsIn(<<>>) = {}
    BY <1>6 DEF PathsIn
  <2>. QED
    BY <1>7, <2>1, <2>2
<1>. HIDE DEF bs
<1>9. [branches |-> bs, size |-> 1, pushes |-> 1] \in CountedQueues(W)
  BY <1>5, <1>8 DEF CountedQueues
<1>10. \A q \in PathsIn(bs) \cup {} : Len(q) > 1 => Front(q) \in {}
  <2>1. \A q \in PathsIn(bs) \cup {} : q = <<StartId>>
    BY <1>8
  <2>2. ~(Len(<<StartId>>) > 1)
    BY <1>2
  <2>. QED
    BY <2>1, <2>2, Zenon
<1>11. ASSUME NEW p, IsTrail(p) PROVE Begun(bs, {}, p)
  <2>1. p \in Seq(W) /\ p # <<>> /\ p[1] = StartId
    BY <1>11 DEF IsTrail
  <2>2. Len(p) \in Nat /\ Len(p) >= 1
    BY <2>1
  <2>3. Len(<<StartId>>) <= Len(p) /\ \A i \in 1..Len(<<StartId>>) : <<StartId>>[i] = p[i]
    BY <1>2, <2>1, <2>2
  <2>4. IsPrefix(<<StartId>>, p)
    BY <1>2, <2>1, <2>3, PrefixIs
  <2>. QED
    BY <1>8, <2>4 DEF Begun
<1>12. <<>> \in Seq(Seq(W))
  OBVIOUS
<1>. QED
  BY <1>9, <1>10, <1>11, <1>12 DEF SearchOK, bs, x

LEMMA PopKeeps ==
    ASSUME IsSearchRequest(request), SearchOK(branches, size, pushes, stateCache, tracked), size > 0,
           NEW a, a = Foremost(branches), NEW x, x = branches[a[1]].items[a[2]].item
    PROVE  /\ x \in PathItems(SearchNodes) /\ x.path \in PathsIn(branches)
           /\ [branches |-> Popped(branches), size |-> size - 1, pushes |-> pushes] \in CountedQueues(SearchNodes)
           /\ PathsIn(Popped(branches)) \subseteq PathsIn(branches)
           /\ \A q \in PathsIn(branches) : q # x.path => q \in PathsIn(Popped(branches))
<1>. DEFINE W == SearchNodes
            r == Popped(branches)
<1>1. branches \in Queues(W) /\ size = Held(branches) /\ size \in Int /\ pushes \in Nat
  BY DEF SearchOK, CountedQueues
<1>2. Held(branches) # 0
  BY <1>1
<1>3. a \in Places(branches)
  BY <1>1, <1>2, ForemostIs
<1>4. r \in Queues(W) /\ Loses(branches, r, a)
  BY <1>1, <1>2, PoppedLoses
<1>. HIDE DEF r
<1>5. /\ Held(r) = Held(branches) - 1 /\ PathsIn(r) \subseteq PathsIn(branches)
      /\ \A q \in PathsIn(branches) : q # PathAt(branches, a) => q \in PathsIn(r)
  BY <1>1, <1>3, <1>4, HeldLess
<1>6. x.path = PathAt(branches, a)
  BY DEF PathAt
<1>7. x \in PathItems(W)
  <2>1. QueueShape(W, branches)
    BY <1>1, InQueue
  <2>2. PICK k \in 1..Len(branches) : \E j \in 1..Len(branches[k].items) : a = <<k, j>>
    BY <1>3, PlacesAre
  <2>3. PICK j \in 1..Len(branches[k].items) : a = <<k, j>>
    BY <2>2
  <2>4. x = branches[k].items[j].item
    BY <2>3
  <2>. QED
    BY <2>1, <2>4 DEF QueueShape
<1>8. [branches |-> r, size |-> size - 1, pushes |-> pushes] \in CountedQueues(W)
  BY <1>1, <1>4, <1>5 DEF CountedQueues
<1>9. x.path \in PathsIn(branches)
  BY <1>3, <1>6 DEF PathsIn
<1>. QED
  BY <1>5, <1>6, <1>7, <1>8, <1>9 DEF r

LEMMA SearchGoesOn ==
    ASSUME IsSearchRequest(request), SearchOK(branches, size, pushes, stateCache, tracked), Expand, ~trimmed'
    PROVE  SearchOK(branches', size', pushes', stateCache', tracked')
<1>. DEFINE W == SearchNodes
            a == Foremost(branches)
            x == branches[a[1]].items[a[2]].item
            z == x.path
            r == Popped(branches)
            left == [branches |-> r, size |-> size - 1, pushes |-> pushes]
            again == z \in stateCache
            complete == Last(z) = Goal
            q == IF again \/ complete THEN left ELSE FoldLeft(Push, left, Successors(x))
            cut == ~again /\ ~complete /\ q.size > 2 * MAX_PATHS_TO_RETURN
<1>1. /\ size > 0 /\ stateCache' = stateCache \cup {z}
      /\ tracked' = IF complete /\ ~again THEN Append(tracked, z) ELSE tracked
      /\ branches' = IF cut THEN Trim(q.branches, MAX_PATHS_TO_RETURN) ELSE q.branches
      /\ size' = IF cut THEN MAX_PATHS_TO_RETURN ELSE q.size
      /\ pushes' = q.pushes /\ trimmed' = (trimmed \/ cut)
  BY Zenon DEF Expand
<1>2. ~cut
  BY <1>1, Zenon
<1>3. branches' = q.branches /\ size' = q.size /\ pushes' = q.pushes
  BY <1>1, <1>2, Zenon
<1>. HIDE DEF cut
<1>4. /\ x \in PathItems(W) /\ z \in PathsIn(branches) /\ left \in CountedQueues(W)
      /\ PathsIn(r) \subseteq PathsIn(branches)
      /\ \A y \in PathsIn(branches) : y # z => y \in PathsIn(r)
  BY <1>1, PopKeeps
<1>. HIDE DEF r, a, x
<1>5. z \in Seq(W) \ {<<>>}
  BY <1>4 DEF PathItems
<1>6. left.branches = r
  OBVIOUS
<1>7. /\ tracked \in Seq(Seq(W))
      /\ \A y \in PathsIn(branches) \cup stateCache : Len(y) > 1 => Front(y) \in stateCache
      /\ \A p : IsTrail(p) /\ Last(p) = Goal => Contains(tracked, p) \/ Begun(branches, stateCache, p)
  BY DEF SearchOK
<1>. HIDE DEF left, z
<1>8. CASE again
  <2>1. q = left /\ stateCache' = stateCache /\ tracked' = tracked
    BY <1>1, <1>8
  <2>2. branches' = r /\ [branches |-> branches', size |-> size', pushes |-> pushes'] \in CountedQueues(W)
    BY <1>3, <1>4, <1>6, <2>1 DEF CountedQueues
  <2>3. \A y \in PathsIn(r) \cup stateCache : Len(y) > 1 => Front(y) \in stateCache
    BY <1>4, <1>7
  <2>4. \A p : IsTrail(p) /\ Last(p) = Goal => Contains(tracked, p) \/ Begun(r, stateCache, p)
    <3>1. \A p : Begun(branches, stateCache, p) => Begun(r, stateCache, p)
      BY <1>4, <1>8 DEF Begun
    <3>. QED
      BY <1>7, <3>1
  <2>. QED
    BY <1>7, <2>1, <2>2, <2>3, <2>4 DEF SearchOK
<1>9. CASE ~again /\ complete
  <2>1. q = left /\ tracked' = Append(tracked, z)
    BY <1>1, <1>9
  <2>2. branches' = r /\ [branches |-> branches', size |-> size', pushes |-> pushes'] \in CountedQueues(W)
    BY <1>3, <1>4, <1>6, <2>1 DEF CountedQueues
  <2>3. \A y \in PathsIn(r) \cup stateCache' : Len(y) > 1 => Front(y) \in stateCache'
    BY <1>1, <1>4, <1>7
  <2>4. tracked' \in Seq(Seq(W)) /\ Contains(tracked', z) /\ \A p : Contains(tracked, p) => Contains(tracked', p)
    <3>1. /\ tracked' \in Seq(Seq(W)) /\ Len(tracked) \in Nat /\ Len(tracked') = Len(tracked) + 1
          /\ tracked'[Len(tracked) + 1] = z /\ \A i \in 1..Len(tracked) : tracked'[i] = tracked[i]
      BY <1>5, <1>7, <2>1, AppendProperties
    <3>2. Len(tracked) + 1 \in 1..Len(tracked') /\ \A i \in 1..Len(tracked) : i \in 1..Len(tracked')
      BY <3>1
    <3>. QED
      BY <3>1, <3>2 DEF Contains
  <2>5. ASSUME NEW p, IsTrail(p), Last(p) = Goal PROVE Contains(tracked', p) \/ Begun(r, stateCache', p)
    <3>1. CASE Contains(tracked, p)
      BY <2>4, <3>1
    <3>2. CASE Begun(branches, stateCache, p)
      <4>1. PICK y \in PathsIn(branches) : IsPrefix(y, p) /\ y \notin stateCache
        BY <3>2 DEF Begun
      <4>2. CASE y = z
        <5>1. z = p
          BY <1>5, <1>9, <2>5, <4>1, <4>2, PrefixGoesOn
        <5>. QED
          BY <2>4, <5>1
      <4>3. CASE y # z
        BY <1>1, <1>4, <4>1, <4>3 DEF Begun
      <4>. QED
        BY <4>2, <4>3
    <3>. QED
      BY <1>7, <2>5, <3>1, <3>2
  <2>. QED
    BY <2>2, <2>3, <2>4, <2>5 DEF SearchOK
<1>10. CASE ~again /\ ~complete
  <2>. DEFINE s == Successors(x)
              new == {s[k].path : k \in 1..Len(s)}
  <2>1. q = FoldLeft(Push, left, s) /\ tracked' = tracked
    BY <1>1, <1>10
  <2>2. /\ s \in Seq(PathItems(W))
        /\ \A k \in 1..Len(s) : \E v \in W : s[k].path = Append(z, v)
        /\ \A v \in ToSet(Neighbors(Last(z))) \ ToSet(z) : \E k \in 1..Len(s) : s[k].path = Append(z, v)
    BY <1>4, SuccessorsAre DEF z
  <2>. HIDE DEF s
  <2>3. q \in CountedQueues(W) /\ PathsIn(q.branches) = PathsIn(r) \cup new
    <3>. DEFINE f == FoldLeft(Push, left, s)
    <3>1. f \in CountedQueues(W) /\ PathsIn(f.branches) = PathsIn(left.branches) \cup new
      BY <1>4, <2>2, PushesAdd
    <3>2. q = f
      BY <2>1
    <3>. HIDE DEF q, f, new
    <3>. QED
      BY <1>6, <3>1, <3>2
  <2>4. PathsIn(branches') = PathsIn(r) \cup new /\ [branches |-> branches', size |-> size', pushes |-> pushes'] \in CountedQueues(W)
    <3>. HIDE DEF q
    <3>1. q = [branches |-> q.branches, size |-> q.size, pushes |-> q.pushes]
      BY <2>3 DEF CountedQueues
    <3>. QED
      BY <1>3, <2>3, <3>1
  <2>5. \A y \in new : \E v \in W : y = Append(z, v)
    BY <2>2
  <2>6. \A y \in PathsIn(branches') \cup stateCache' : Len(y) > 1 => Front(y) \in stateCache'
    <3>. SUFFICES ASSUME NEW y \in PathsIn(branches') \cup stateCache', Len(y) > 1 PROVE Front(y) \in stateCache'
      OBVIOUS
    <3>1. CASE y \in new
      <4>1. PICK v \in W : y = Append(z, v)
        BY <2>5, <3>1
      <4>2. Front(y) = z
        BY <1>5, <4>1, FrontOfAppend
      <4>. QED
        BY <1>1, <4>2
    <3>2. CASE y \notin new
      <4>1. y \in PathsIn(branches) \cup stateCache
        BY <1>1, <1>4, <2>4, <3>2
      <4>. QED
        BY <1>1, <1>7, <4>1
    <3>. QED
      BY <3>1, <3>2
  <2>7. ASSUME NEW p, IsTrail(p), Last(p) = Goal PROVE Contains(tracked', p) \/ Begun(branches', stateCache', p)
    <3>1. CASE Contains(tracked, p)
      BY <2>1, <3>1
    <3>2. CASE Begun(branches, stateCache, p)
      <4>1. PICK y \in PathsIn(branches) : IsPrefix(y, p) /\ y \notin stateCache
        BY <3>2 DEF Begun
      <4>2. CASE y = z
        <5>1. PICK v \in ToSet(Neighbors(Last(z))) \ ToSet(z) : v \in W /\ IsPrefix(Append(z, v), p)
          BY <1>5, <1>10, <2>7, <4>1, <4>2, PrefixGoesOn
        <5>. DEFINE t == Append(z, v)
        <5>2. t \in new
          BY <2>2, <5>1
        <5>3. t # z /\ Len(t) > 1 /\ Front(t) = z
          BY <1>5, <5>1, FrontOfAppend
        <5>4. t \notin stateCache
          BY <1>7, <4>1, <4>2, <5>3
        <5>5. t \notin stateCache' /\ t \in PathsIn(branches') /\ IsPrefix(t, p)
          <6>. HIDE DEF t, new
          <6>1. IsPrefix(t, p)
            BY <5>1 DEF t
          <6>. QED
            BY <1>1, <2>4, <5>2, <5>3, <5>4, <6>1
        <5>. QED
          BY <5>5 DEF Begun
      <4>3. CASE y # z
        BY <1>1, <1>4, <2>4, <4>1, <4>3 DEF Begun
      <4>. QED
        BY <4>2, <4>3
    <3>. QED
      BY <1>7, <2>7, <3>1, <3>2
  <2>8. tracked' \in Seq(Seq(W))
    BY <1>7, <2>1
  <2>. QED
    BY <2>4, <2>6, <2>7, <2>8 DEF SearchOK
<1>. QED
  BY <1>8, <1>9, <1>10

SearchInv ==
    /\ request \in SearchRequests
    /\ phase = "start" => stateCache = {} /\ tracked = <<>>
    /\ phase = "search" /\ ~trimmed => SearchOK(branches, size, pushes, stateCache, tracked)

\* All of it is about the network that was asked about.
LEMMA SameNetwork ==
    ASSUME request' = request
    PROVE  SearchOK(branches', size', pushes', stateCache', tracked') <=> SearchOK(branches, size, pushes, stateCache, tracked)'
<1>1. Graph' = Graph
  BY DEF Graph, World
<1>. DEFINE Ends(g, u) == FlattenSeq([k \in 1..Len(g.links) |->
                LET l == g.links[k] IN IF l.source = u /\ l.target \in Ids(g) THEN <<l.target>> ELSE <<>>])
<1>2. \A u : Neighbors(u) = Ends(Graph, u) /\ Neighbors(u)' = Ends(Graph', u)
  BY DEF Neighbors
<1>. HIDE DEF Ends
<1>3. \A u : Neighbors(u)' = Neighbors(u)
  BY <1>1, <1>2
<1>4. Goal' = Goal /\ SearchNodes' = SearchNodes
  BY <1>1 DEF Goal, SearchNodes
<1>5. \A p : IsTrail(p)' <=> IsTrail(p)
  BY <1>3, <1>4 DEF IsTrail
<1>. QED
  BY <1>4, <1>5 DEF SearchOK

LEMMA SearchInvariance == FrontSpec => []SearchInv
<1>1. FrontInit => SearchInv
  BY DEF FrontInit, SearchInv
<1>2. SearchInv /\ [FrontNext]_frontVars => SearchInv'
  <2>. SUFFICES ASSUME SearchInv, [FrontNext]_frontVars PROVE SearchInv'
    OBVIOUS
  <2>1. request' = request
    BY Zenon DEF FrontNext, findAllPaths, Expand, StopSearch, Rank, Choose, ChooseDiverse, frontVars
  <2>2. request \in SearchRequests /\ IsSearchRequest(request)
    BY SearchRequestsAssumption DEF SearchInv
  <2>3. CASE findAllPaths
    <3>1. CASE request.large
      <4>1. /\ branches' = PushedTo(<<>>, Item(<<StartId>>, 0, IsCritical(StartId))) /\ size' = 1 /\ pushes' = 1
            /\ phase' = "search" /\ stateCache' = {} /\ tracked' = <<>>
        BY <2>3, <3>1 DEF findAllPaths, SearchInv
      <4>2. SearchOK(branches', size', pushes', stateCache', tracked')
        BY <2>2, <4>1, StartIsBegun
      <4>3. SearchOK(branches, size, pushes, stateCache, tracked)'
        BY <2>1, <4>2, SameNetwork
      <4>. QED
        BY <2>1, <2>2, <4>1, <4>3 DEF SearchInv
    <3>2. CASE ~request.large
      BY <2>1, <2>2, <2>3, <3>2 DEF findAllPaths, SearchInv
    <3>. QED
      BY <3>1, <3>2
  <2>4. CASE Expand
    <3>1. phase = "search" /\ phase' = phase
      BY <2>4, Zenon DEF Expand
    <3>2. ASSUME ~trimmed' PROVE SearchOK(branches, size, pushes, stateCache, tracked)'
      <4>1. ~trimmed
        BY <2>4, <3>2, Zenon DEF Expand
      <4>2. SearchOK(branches', size', pushes', stateCache', tracked')
        BY <2>2, <2>4, <3>1, <3>2, <4>1, SearchGoesOn DEF SearchInv
      <4>. QED
        BY <2>1, <4>2, SameNetwork
    <3>. QED
      BY <2>1, <2>2, <3>1, <3>2 DEF SearchInv
  <2>5. CASE StopSearch \/ Rank \/ Choose \/ ChooseDiverse
    <3>1. phase' # "start" /\ phase' # "search"
      BY <2>5, Zenon DEF StopSearch, Rank, Choose, ChooseDiverse
    <3>. QED
      BY <2>1, <2>2, <3>1 DEF SearchInv
  <2>6. CASE UNCHANGED frontVars
    <3>1. /\ phase' = phase /\ branches' = branches /\ size' = size /\ pushes' = pushes
          /\ stateCache' = stateCache /\ tracked' = tracked /\ trimmed' = trimmed
      BY <2>6 DEF frontVars
    <3>2. ASSUME phase = "search", ~trimmed PROVE SearchOK(branches, size, pushes, stateCache, tracked)'
      <4>1. SearchOK(branches', size', pushes', stateCache', tracked')
        BY <3>1, <3>2 DEF SearchInv
      <4>. QED
        BY <2>1, <4>1, SameNetwork
    <3>. QED
      BY <2>1, <2>2, <3>1, <3>2 DEF SearchInv
  <2>. QED
    BY <2>3, <2>4, <2>5, <2>6 DEF FrontNext
<1>. QED
  BY <1>1, <1>2, PTL DEF FrontSpec

THEOREM SearchLosesNothing == FrontSpec => []NothingLost
<1>1. SearchInv => NothingLost
  <2>. SUFFICES ASSUME SearchInv, phase = "search", ~trimmed
                PROVE  /\ size = Held(branches)
                       /\ \A p \in SimplePaths :
                             Contains(tracked, p) \/ \E k \in DOMAIN branches : \E j \in DOMAIN branches[k].items :
                                 IsPrefix(branches[k].items[j].item.path, p) /\ branches[k].items[j].item.path \notin stateCache
    BY DEF NothingLost
  <2>1. SearchOK(branches, size, pushes, stateCache, tracked) /\ IsSearchRequest(request)
    BY SearchRequestsAssumption DEF SearchInv
  <2>2. branches \in Queues(SearchNodes) /\ size = Held(branches)
    BY <2>1 DEF SearchOK, CountedQueues
  <2>3. ASSUME NEW p \in SimplePaths, ~Contains(tracked, p)
        PROVE  \E k \in DOMAIN branches : \E j \in DOMAIN branches[k].items :
                   IsPrefix(branches[k].items[j].item.path, p) /\ branches[k].items[j].item.path \notin stateCache
    <3>1. Begun(branches, stateCache, p)
      BY <2>1, <2>3, SimplePathsAreTrails DEF SearchOK
    <3>2. PICK a \in Places(branches) : IsPrefix(PathAt(branches, a), p) /\ PathAt(branches, a) \notin stateCache
      BY <3>1 DEF Begun, PathsIn
    <3>3. PICK k \in 1..Len(branches) : \E j \in 1..Len(branches[k].items) : a = <<k, j>>
      BY PlacesAre
    <3>4. PICK j \in 1..Len(branches[k].items) : a = <<k, j>>
      BY <3>3
    <3>5. k \in DOMAIN branches /\ j \in DOMAIN branches[k].items
      <4>1. QueueShape(SearchNodes, branches)
        BY <2>2, InQueue
      <4>. QED
        BY <4>1 DEF QueueShape
    <3>6. PathAt(branches, a) = branches[k].items[j].item.path
      BY <3>4 DEF PathAt
    <3>. QED
      BY <3>2, <3>5, <3>6
  <2>. QED
    BY <2>2, <2>3
<1>. QED
  BY <1>1, SearchInvariance, PTL

-----------------------------------------------------------------------------
(* The array heaps of PathScripts.js.                                         *)

HeapItems == [key : Int, value : Nat]
LEMMA AheadOrders ==
    ASSUME NEW a \in HeapItems, NEW b \in HeapItems, NEW c \in HeapItems
    PROVE  /\ ~Ahead(a, a)
           /\ Ahead(a, b) => ~Ahead(b, a)
           /\ ~Ahead(a, b) /\ ~Ahead(b, c) => ~Ahead(a, c)
<1>1. a.key \in Int /\ b.key \in Int /\ c.key \in Int
  BY DEF HeapItems
<1>2. CASE heapKind = "min"
  <2>1. \A x, y : Ahead(x, y) <=> x.key < y.key
    BY <1>2 DEF Ahead
  <2>. QED
    BY <1>1, <2>1
<1>3. CASE heapKind # "min"
  <2>1. \A x, y : Ahead(x, y) <=> x.key > y.key
    BY <1>3 DEF Ahead
  <2>. QED
    BY <1>1, <2>1
<1>. QED
  BY <1>2, <1>3

\* The same items in another order, none of them twice.
Mixed(h, r) == r \in Seq(HeapItems) /\ Len(r) = Len(h) /\ Once(r) /\ ToSet(r) = ToSet(h)
LEMMA SwapMixes ==
    ASSUME NEW h \in Seq(HeapItems), Once(h), NEW i \in 1..Len(h), NEW j \in 1..Len(h), i # j
    PROVE  /\ Mixed(h, Swap(h, i, j)) /\ Swap(h, i, j)[i] = h[j] /\ Swap(h, i, j)[j] = h[i]
           /\ \A k \in 1..Len(h) : k # i /\ k # j => Swap(h, i, j)[k] = h[k]
<1>. DEFINE n == Len(h)
            r == Swap(h, i, j)
<1>1. n \in Nat /\ DOMAIN h = 1..n /\ \A k \in 1..n : h[k] \in HeapItems
  BY ElementOfSeq, LenProperties
<1>2. r = [h EXCEPT ![i] = h[j], ![j] = h[i]]
  BY DEF Swap
<1>3. r[i] = h[j] /\ r[j] = h[i] /\ \A k \in 1..n : k # i /\ k # j => r[k] = h[k]
  BY <1>1, <1>2
<1>4. r \in Seq(HeapItems) /\ Len(r) = n /\ DOMAIN r = 1..n
  BY <1>1, <1>2
<1>. HIDE DEF r, n
<1>. DEFINE to(k) == IF k = i THEN j ELSE IF k = j THEN i ELSE k
<1>5. i \in 1..n /\ j \in 1..n
  BY DEF n
<1>6. \A k \in 1..n : to(k) \in 1..n /\ to(to(k)) = k /\ r[k] = h[to(k)]
  BY <1>3, <1>5
<1>7. Once(r)
  <2>. SUFFICES ASSUME NEW k \in 1..n, NEW l \in 1..n, r[k] = r[l] PROVE k = l
    BY <1>4 DEF Once
  <2>1. h[to(k)] = h[to(l)] /\ to(k) \in 1..n /\ to(l) \in 1..n
    BY <1>6
  <2>2. to(k) = to(l)
    <3>. HIDE DEF to
    <3>. QED
      BY <2>1 DEF Once, n
  <2>. QED
    BY <1>6, <2>2
<1>8. ToSet(r) = ToSet(h)
  <2>. HIDE DEF to
  <2>1. \A k \in 1..n : \E l \in 1..n : r[k] = h[l]
    BY <1>6
  <2>2. \A k \in 1..n : \E l \in 1..n : h[k] = r[l]
    BY <1>6
  <2>3. ToSet(r) = {r[k] : k \in 1..n} /\ ToSet(h) = {h[k] : k \in 1..n}
    BY <1>1, <1>4 DEF ToSet
  <2>. QED
    BY <2>1, <2>2, <2>3
<1>. QED
  BY <1>3, <1>4, <1>7, <1>8 DEF Mixed, r, n

LEMMA MixedMore ==
    ASSUME NEW h, NEW r, Mixed(h, r), NEW i \in 1..Len(r), NEW j \in 1..Len(r), i # j
    PROVE  Mixed(h, Swap(r, i, j))
<1>1. r \in Seq(HeapItems) /\ Len(r) = Len(h) /\ Once(r) /\ ToSet(r) = ToSet(h)
  BY DEF Mixed
<1>2. Mixed(r, Swap(r, i, j))
  BY <1>1, SwapMixes
<1>. QED
  BY <1>1, <1>2 DEF Mixed

\* A heap: nothing is ahead of what is above it.
Fits(h, j) == ~Ahead(h[j], h[j \div 2])
HeapOrdered(h) == \A j \in 2..Len(h) : Fits(h, j)
LEMMA Halves ==
    /\ \A j \in Nat : j >= 2 => j \div 2 \in Nat /\ j \div 2 >= 1 /\ j \div 2 < j /\ (j = 2 * (j \div 2) \/ j = 2 * (j \div 2) + 1)
    /\ \A i \in Nat : (2 * i) \div 2 = i /\ (2 * i + 1) \div 2 = i
  OBVIOUS

\* Going up: only the item that has come to at may be ahead of what is above it.
Cursor == [heap : Seq(HeapItems), at : Nat]
UpOK(h, s) ==
    /\ s \in Cursor /\ Mixed(h, s.heap) /\ s.at \in 1..Len(h)
    /\ \A j \in 2..Len(h) : j # s.at => Fits(s.heap, j)
    /\ \A j \in 2..Len(h) : s.at # 1 /\ j \div 2 = s.at => ~Ahead(s.heap[j], s.heap[s.at \div 2])
UpDone(s) == s.at = 1 \/ ~Ahead(s.heap[s.at], s.heap[s.at \div 2])
UpTurn(s) == IF UpDone(s) THEN s ELSE [heap |-> Swap(s.heap, s.at, s.at \div 2), at |-> s.at \div 2]
LEMMA UpTurnKeeps ==
    ASSUME NEW h, NEW s, UpOK(h, s)
    PROVE  UpOK(h, UpTurn(s)) /\ (~UpDone(s) => UpTurn(s).at < s.at)
<1>. DEFINE n == Len(h)
            g == s.heap
            a == s.at
            p == a \div 2
            r == Swap(g, a, p)
<1>1. /\ g \in Seq(HeapItems) /\ Len(g) = n /\ Once(g) /\ Mixed(h, g) /\ a \in 1..n /\ n \in Nat
      /\ \A j \in 2..n : j # a => Fits(g, j)
      /\ \A j \in 2..n : a # 1 /\ j \div 2 = a => ~Ahead(g[j], g[p])
  <2>1. g \in Seq(HeapItems) /\ Len(g) = n /\ Once(g) /\ Mixed(h, g) /\ a \in 1..n
    BY DEF UpOK, Mixed
  <2>2. n \in Nat
    BY <2>1, LenProperties
  <2>. QED
    BY <2>1, <2>2 DEF UpOK
<1>2. CASE UpDone(s)
  BY <1>2 DEF UpTurn
<1>3. CASE ~UpDone(s)
  <2>1. a # 1 /\ Ahead(g[a], g[p]) /\ UpTurn(s) = [heap |-> r, at |-> p]
    BY <1>3 DEF UpDone, UpTurn
  <2>. HIDE DEF n, g, a
  <2>2. a \in 2..n /\ a \in Nat
    BY <1>1, <2>1
  <2>3. p \in 1..n /\ p < a /\ p \in Nat
    BY <1>1, <2>2, Halves
  <2>. HIDE DEF p
  <2>4. /\ Mixed(h, r) /\ r \in Seq(HeapItems) /\ r[a] = g[p] /\ r[p] = g[a]
        /\ \A k \in 1..n : k # a /\ k # p => r[k] = g[k]
    <3>1. a # p
      BY <2>2, <2>3
    <3>2. Mixed(h, r)
      BY <1>1, <2>3, <3>1, MixedMore
    <3>3. r[a] = g[p] /\ r[p] = g[a] /\ \A k \in 1..n : k # a /\ k # p => r[k] = g[k]
      BY <1>1, <2>3, <3>1, SwapMixes
    <3>. QED
      BY <3>2, <3>3 DEF Mixed
  <2>. HIDE DEF r
  <2>5. \A k \in 1..n : g[k] \in HeapItems
    BY <1>1, ElementOfSeq
  <2>6. ~Ahead(g[p], g[a])
    BY <1>1, <2>1, <2>3, <2>5, AheadOrders
  <2>7. \A j \in 2..n : j \in 1..n /\ j \in Nat /\ j \div 2 \in 1..n /\ j \div 2 < j
    BY <1>1, Halves
  <2>8. ASSUME NEW j \in 2..n, j # p PROVE Fits(r, j)
    <3>. DEFINE u == j \div 2
    <3>1. u \in 1..n /\ j \in 1..n /\ u # j
      BY <2>7
    <3>2. Fits(r, j) <=> ~Ahead(r[j], r[u])
      BY DEF Fits
    <3>3. j # a => ~Ahead(g[j], g[u])
      BY <1>1 DEF Fits
    <3>4. j = a => u = p
      BY DEF p
    <3>5. u = a => ~Ahead(g[j], g[p])
      BY <1>1, <2>1
    <3>. HIDE DEF u
    <3>6. CASE j = a
      BY <2>4, <2>6, <3>2, <3>4, <3>6
    <3>7. CASE j # a /\ u = p
      <4>1. ~Ahead(g[j], g[p]) /\ r[j] = g[j] /\ r[u] = g[a]
        BY <2>4, <2>8, <3>1, <3>3, <3>7
      <4>2. ~Ahead(g[j], g[a])
        BY <1>1, <2>3, <2>5, <2>6, <3>1, <4>1, AheadOrders
      <4>. QED
        BY <3>2, <4>1, <4>2
    <3>8. CASE j # a /\ u = a
      BY <2>4, <2>8, <3>1, <3>2, <3>5, <3>8
    <3>9. CASE j # a /\ u # a /\ u # p
      BY <2>4, <2>8, <3>1, <3>2, <3>3, <3>9
    <3>. QED
      BY <3>6, <3>7, <3>8, <3>9
  <2>9. ASSUME NEW j \in 2..n, p # 1, j \div 2 = p PROVE ~Ahead(r[j], r[p \div 2])
    <3>. DEFINE u == p \div 2
    <3>1. p \in 2..n
      BY <1>1, <2>3, <2>9
    <3>2. u \in 1..n /\ u < p /\ j \in 1..n /\ p < j
      BY <2>7, <2>9, <3>1
    <3>3. ~Ahead(g[p], g[u])
      BY <1>1, <2>2, <2>3, <3>1 DEF Fits
    <3>. HIDE DEF u
    <3>4. r[u] = g[u]
      BY <2>2, <2>3, <2>4, <3>2
    <3>5. CASE j = a
      BY <2>4, <3>3, <3>4, <3>5 DEF u
    <3>6. CASE j # a
      <4>1. r[j] = g[j]
        BY <2>3, <2>4, <3>2, <3>6
      <4>2. ~Ahead(g[j], g[p])
        BY <1>1, <2>9, <3>6 DEF Fits
      <4>3. ~Ahead(g[j], g[u])
        BY <2>3, <2>5, <3>2, <3>3, <4>2, AheadOrders
      <4>. QED
        BY <3>4, <4>1, <4>3 DEF u
    <3>. QED
      BY <3>5, <3>6
  <2>. DEFINE t == [heap |-> r, at |-> p]
  <2>10. t \in Cursor /\ t.heap = r /\ t.at = p
    BY <2>3, <2>4 DEF Cursor
  <2>. HIDE DEF t
  <2>11. UpOK(h, t)
    BY <2>3, <2>4, <2>8, <2>9, <2>10 DEF UpOK, n
  <2>. QED
    BY <2>1, <2>3, <2>10, <2>11 DEF t, a
<1>. QED
  BY <1>2, <1>3

\* A loop whose turns get somewhere has stopped after as many turns as there
\* are places to get to.
AreTurns(f, T, start, go) == f \in [Nat -> T] /\ f[0] = start /\ \A k \in Nat : f[k + 1] = go[f[k]]
LEMMA TurnsExist ==
    ASSUME NEW T, NEW start, start \in T, NEW go, go \in [T -> T]
    PROVE  \E f : AreTurns(f, T, start, go)
<1>. DEFINE op == [q \in Nat \X T |-> go[q[2]]]
<1>1. op \in [Nat \X T -> T] /\ \A k \in Nat, x \in T : op[<<k, x>>] = go[x]
  OBVIOUS
<1>. HIDE DEF op
<1>2. PICK f : Steps(f, Nat, T, start, op)
  BY <1>1, NatRecursion
<1>3. f \in [Nat -> T] /\ f[0] = start /\ \A k \in Nat : k + 1 \in Nat => f[k + 1] = op[<<k, f[k]>>]
  BY <1>2 DEF Steps
<1>4. ASSUME NEW k \in Nat PROVE f[k + 1] = go[f[k]]
  <2>1. k + 1 \in Nat /\ f[k] \in T
    BY <1>3
  <2>. QED
    BY <1>1, <1>3, <2>1
<1>. QED
  BY <1>3, <1>4 DEF AreTurns

IsLoop(g, T, start, go, far, n) ==
    /\ n \in Nat /\ start \in T /\ go \in [T -> T] /\ far \in [T -> Nat]
    /\ \A x \in T : far[x] < n /\ (go[x] # x => far[x] < far[go[x]])
    /\ g[0] = start /\ \A k \in Nat : g[k] \in T => g[k + 1] = go[g[k]]
LEMMA Turning ==
    ASSUME NEW g, NEW T, NEW start, NEW go, NEW far, NEW n, IsLoop(g, T, start, go, far, n)
    PROVE  g[n] \in T /\ go[g[n]] = g[n]
<1>. USE DEF IsLoop
<1>. DEFINE G == {k \in Nat : g[k] \in T /\ (go[g[k]] = g[k] \/ far[g[k]] >= k)}
<1>1. 0 \in G
  OBVIOUS
<1>2. ASSUME NEW k \in 0..(n - 1), k \in G PROVE k + 1 \in G
  <2>1. k \in Nat /\ k + 1 \in Nat /\ g[k] \in T /\ g[k + 1] = go[g[k]] /\ g[k + 1] \in T
    BY <1>2
  <2>2. CASE go[g[k]] = g[k]
    BY <2>1, <2>2
  <2>3. CASE go[g[k]] # g[k]
    <3>1. far[g[k]] >= k /\ far[g[k]] < far[g[k + 1]] /\ far[g[k]] \in Nat /\ far[g[k + 1]] \in Nat
      BY <1>2, <2>1, <2>3
    <3>. QED
      BY <2>1, <3>1
  <2>. QED
    BY <2>2, <2>3
<1>3. n \in G
  <2>. HIDE DEF G
  <2>. QED
    BY <1>1, <1>2, UpTo
<1>4. g[n] \in T /\ far[g[n]] \in Nat /\ far[g[n]] < n
  BY <1>3
<1>. QED
  BY <1>3, <1>4

\* A sifted heap: the same items, in order.
Sifted(h, r) == Mixed(h, r) /\ HeapOrdered(r)
LEMMA SiftsUp ==
    ASSUME NEW h \in Seq(HeapItems), h # <<>>, Once(h), \A j \in 2..(Len(h) - 1) : Fits(h, j)
    PROVE  Sifted(h, SiftUp(h, Len(h)))
<1>. DEFINE n == Len(h)
            T == {s \in Cursor : UpOK(h, s)}
            start == [heap |-> h, at |-> n]
            go == [s \in T |-> UpTurn(s)]
            far == [s \in T |-> n - s.at]
            turn == CHOOSE f : f = [k \in Nat |-> IF k = 0 THEN start ELSE UpTurn(f[k - 1])]
<1>1. n \in Nat /\ n >= 1
  BY LenProperties
<1>2. start \in T
  <2>1. start \in Cursor /\ start.heap = h /\ start.at = n
    BY <1>1 DEF Cursor
  <2>2. Mixed(h, h)
    BY DEF Mixed
  <2>3. \A j \in 2..n : j # n => j \in 2..(n - 1)
    BY <1>1
  <2>4. \A j \in 2..n : j \div 2 # n
    BY <1>1, Halves
  <2>. HIDE DEF start
  <2>5. UpOK(h, start)
    BY <1>1, <2>1, <2>2, <2>3, <2>4 DEF UpOK
  <2>. QED
    BY <2>1, <2>5
<1>3. \A s \in T : UpTurn(s) \in T
  <2>. SUFFICES ASSUME NEW s, UpOK(h, s) PROVE UpTurn(s) \in Cursor /\ UpOK(h, UpTurn(s))
    OBVIOUS
  <2>1. UpOK(h, UpTurn(s))
    BY UpTurnKeeps
  <2>. QED
    BY <2>1 DEF UpOK
<1>4. go \in [T -> T] /\ \A s \in T : go[s] = UpTurn(s)
  BY <1>3
<1>5. \A s \in T : s.at \in 1..n
  BY DEF UpOK
<1>6. far \in [T -> Nat] /\ \A s \in T : far[s] = n - s.at
  BY <1>1, <1>5
<1>7. ASSUME NEW s \in T PROVE far[s] < n /\ (go[s] # s => far[s] < far[go[s]])
  <2>1. s.at \in 1..n /\ go[s] \in T /\ go[s].at \in 1..n /\ UpOK(h, s)
    BY <1>3, <1>4, <1>5
  <2>2. go[s] # s => go[s].at < s.at
    BY <1>4, <2>1, UpTurnKeeps DEF UpTurn
  <2>3. far[s] = n - s.at /\ far[go[s]] = n - go[s].at
    BY <1>6, <2>1
  <2>. HIDE DEF far, go, T, n
  <2>. QED
    BY <1>1, <2>1, <2>2, <2>3
<1>. HIDE DEF go, far, start, T
<1>8. PICK f : f \in [Nat -> T] /\ f[0] = start /\ \A k \in Nat : f[k + 1] = go[f[k]]
  <2>. HIDE DEF turn, n
  <2>1. go \in [T -> T]
    BY <1>4
  <2>2. \E f : AreTurns(f, T, start, go)
    BY <1>2, <2>1, TurnsExist
  <2>. QED
    BY <2>2 DEF AreTurns
<1>9. f = [k \in Nat |-> IF k = 0 THEN start ELSE UpTurn(f[k - 1])]
  <2>1. ASSUME NEW k \in Nat PROVE f[k] = IF k = 0 THEN start ELSE UpTurn(f[k - 1])
    <3>1. CASE k = 0
      BY <1>8, <3>1
    <3>2. CASE k # 0
      <4>1. k - 1 \in Nat /\ (k - 1) + 1 = k
        BY <3>2
      <4>2. f[(k - 1) + 1] = go[f[k - 1]] /\ f[k - 1] \in T
        BY <1>8, <4>1
      <4>. QED
        BY <1>4, <3>2, <4>1, <4>2
    <3>. QED
      BY <3>1, <3>2
  <2>2. f = [k \in Nat |-> f[k]]
    BY <1>8
  <2>. QED
    BY <2>1, <2>2, Zenon
<1>10. turn = [k \in Nat |-> IF k = 0 THEN start ELSE UpTurn(turn[k - 1])]
  BY <1>9, Zenon
<1>11. SiftUp(h, n) = turn[n].heap
  BY Zenon DEF SiftUp, UpTurn, UpDone, start
<1>. HIDE DEF turn
<1>12. turn[0] = start /\ \A k \in Nat : turn[k] \in T => turn[k + 1] = go[turn[k]]
  <2>1. turn[0] = start
    BY <1>10
  <2>2. ASSUME NEW k \in Nat, turn[k] \in T PROVE turn[k + 1] = go[turn[k]]
    <3>1. k + 1 \in Nat /\ k + 1 # 0 /\ (k + 1) - 1 = k
      OBVIOUS
    <3>2. turn[k + 1] = UpTurn(turn[k])
      BY <1>10, <3>1
    <3>. QED
      BY <1>4, <2>2, <3>2
  <2>. QED
    BY <2>1, <2>2
<1>13. turn[n] \in T /\ go[turn[n]] = turn[n]
  <2>. HIDE DEF n
  <2>1. IsLoop(turn, T, start, go, far, n)
    BY <1>1, <1>2, <1>4, <1>6, <1>7, <1>12 DEF IsLoop
  <2>. QED
    BY <2>1, Turning
<1>. DEFINE s == turn[n]
<1>14. UpOK(h, s) /\ UpTurn(s) = s
  BY <1>4, <1>13 DEF T
<1>. HIDE DEF s
<1>15. UpDone(s)
  <2>1. s.at \in Int /\ (~UpDone(s) => UpTurn(s).at < s.at)
    BY <1>14, UpTurnKeeps DEF UpOK
  <2>. QED
    BY <1>14, <2>1
<1>16. Mixed(h, s.heap) /\ \A j \in 2..n : Fits(s.heap, j)
  BY <1>14, <1>15 DEF UpOK, UpDone, Fits
<1>. QED
  BY <1>11, <1>16 DEF Sifted, HeapOrdered, Mixed, s

\* The child that comes first: below neither the item above it nor the other child.
LEMMA FirstOfTwo ==
    ASSUME NEW h \in Seq(HeapItems), NEW i \in 1..Len(h)
    PROVE  LET c == FirstChild(h, i)
               n == Len(h)
           IN  /\ c \in 1..n /\ (c = i \/ c = 2 * i \/ c = 2 * i + 1)
               /\ c # i => Ahead(h[c], h[i])
               /\ \A k \in 1..n : k = 2 * i \/ k = 2 * i + 1 => ~Ahead(h[k], h[c])
<1>. DEFINE n == Len(h)
            first == IF 2 * i <= n /\ Ahead(h[2 * i], h[i]) THEN 2 * i ELSE i
            c == FirstChild(h, i)
<1>1. n \in Nat /\ i \in Nat /\ i >= 1 /\ i <= n /\ \A k \in 1..n : h[k] \in HeapItems
  BY ElementOfSeq, LenProperties
<1>2. c = IF 2 * i + 1 <= n /\ Ahead(h[2 * i + 1], h[first]) THEN 2 * i + 1 ELSE first
  BY DEF FirstChild
<1>. HIDE DEF c, n
<1>3. /\ first \in 1..n /\ (first = i \/ first = 2 * i) /\ (first # i => Ahead(h[first], h[i]))
      /\ ~Ahead(h[i], h[first])
      /\ \A k \in 1..n : k = 2 * i => ~Ahead(h[k], h[first])
  <2>1. CASE 2 * i <= n /\ Ahead(h[2 * i], h[i])
    <3>1. first = 2 * i /\ 2 * i \in 1..n
      BY <1>1, <2>1
    <3>. QED
      BY <1>1, <2>1, <3>1, AheadOrders
  <2>2. CASE ~(2 * i <= n /\ Ahead(h[2 * i], h[i]))
    <3>1. first = i
      BY <2>2
    <3>. QED
      BY <1>1, <2>2, <3>1, AheadOrders
  <2>. QED
    BY <2>1, <2>2
<1>. HIDE DEF first
<1>4. CASE 2 * i + 1 <= n /\ Ahead(h[2 * i + 1], h[first])
  <2>. DEFINE k == 2 * i + 1
  <2>1. c = k /\ k \in 1..n /\ k # i /\ Ahead(h[k], h[first])
    BY <1>1, <1>2, <1>4
  <2>2. h[k] \in HeapItems /\ h[first] \in HeapItems /\ h[i] \in HeapItems
    BY <1>1, <1>3, <2>1
  <2>3. c = 2 * i + 1
    BY <2>1
  <2>. HIDE DEF k
  <2>4. Ahead(h[k], h[i])
    BY <1>3, <2>1, <2>2, AheadOrders
  <2>5. ~Ahead(h[k], h[k])
    BY <2>2, AheadOrders
  <2>6. ASSUME 2 * i \in 1..n PROVE ~Ahead(h[2 * i], h[k])
    <3>1. h[2 * i] \in HeapItems /\ ~Ahead(h[2 * i], h[first])
      BY <1>1, <1>3, <2>6
    <3>2. ~Ahead(h[first], h[k])
      BY <2>1, <2>2, AheadOrders
    <3>. QED
      BY <2>2, <3>1, <3>2, AheadOrders
  <2>. QED
    BY <2>1, <2>3, <2>4, <2>5, <2>6 DEF c, n
<1>5. CASE ~(2 * i + 1 <= n /\ Ahead(h[2 * i + 1], h[first]))
  <2>1. c = first
    BY <1>2, <1>5
  <2>2. \A k \in 1..n : k = 2 * i + 1 => ~Ahead(h[k], h[first])
    BY <1>1, <1>5
  <2>. QED
    BY <1>3, <2>1, <2>2 DEF c, n
<1>. QED
  BY <1>4, <1>5

\* Going down: only the item that has come to at may have something ahead of it
\* below.
DownOK(h, s) ==
    /\ s \in Cursor /\ Mixed(h, s.heap) /\ s.at \in 1..Len(h)
    /\ \A j \in 2..Len(h) : j \div 2 # s.at => Fits(s.heap, j)
    /\ \A j \in 2..Len(h) : s.at # 1 /\ j \div 2 = s.at => ~Ahead(s.heap[j], s.heap[s.at \div 2])
DownTurn(s) == Sink(s, FirstChild(s.heap, s.at))
LEMMA DownTurnKeeps ==
    ASSUME NEW h, NEW s, DownOK(h, s)
    PROVE  /\ DownOK(h, DownTurn(s)) /\ (DownTurn(s) # s => s.at < DownTurn(s).at)
           /\ DownTurn(s) = s => HeapOrdered(s.heap)
<1>. DEFINE n == Len(h)
            g == s.heap
            a == s.at
            c == FirstChild(g, a)
            r == Swap(g, a, c)
<1>1. /\ g \in Seq(HeapItems) /\ Len(g) = n /\ Once(g) /\ Mixed(h, g) /\ a \in 1..n /\ n \in Nat
      /\ \A j \in 2..n : j \div 2 # a => Fits(g, j)
      /\ \A j \in 2..n : a # 1 /\ j \div 2 = a => ~Ahead(g[j], g[a \div 2])
  <2>1. g \in Seq(HeapItems) /\ Len(g) = n /\ Once(g) /\ Mixed(h, g) /\ a \in 1..n
    BY DEF DownOK, Mixed
  <2>2. n \in Nat
    BY <2>1, LenProperties
  <2>. QED
    BY <2>1, <2>2 DEF DownOK
<1>2. /\ c \in 1..n /\ (c = a \/ c = 2 * a \/ c = 2 * a + 1)
      /\ c # a => Ahead(g[c], g[a])
      /\ \A k \in 1..n : k = 2 * a \/ k = 2 * a + 1 => ~Ahead(g[k], g[c])
  BY <1>1, FirstOfTwo
<1>3. \A j \in 2..n : j \in 1..n /\ j \in Nat /\ j \div 2 \in 1..n /\ j \div 2 < j /\ (j = 2 * (j \div 2) \/ j = 2 * (j \div 2) + 1)
  BY <1>1, Halves
<1>4. DownTurn(s) = IF c = a THEN s ELSE [heap |-> r, at |-> c]
  BY DEF DownTurn, Sink
<1>5. \A k \in 1..n : g[k] \in HeapItems
  BY <1>1, ElementOfSeq
<1>. HIDE DEF n, g, a, c
<1>6. CASE c = a
  <2>1. \A j \in 2..n : j \div 2 = a => ~Ahead(g[j], g[a])
    BY <1>2, <1>3, <1>6
  <2>2. \A j \in 2..n : Fits(g, j)
    BY <1>1, <2>1 DEF Fits
  <2>3. HeapOrdered(g)
    BY <1>1, <2>2 DEF HeapOrdered
  <2>4. DownTurn(s) = s
    BY <1>4, <1>6
  <2>. QED
    BY <2>3, <2>4 DEF g
<1>7. CASE c # a
  <2>1. c \in 2..n /\ a < c /\ c \div 2 = a /\ a \in Nat /\ a >= 1
    <3>1. a \in Nat /\ a >= 1 /\ (c = 2 * a \/ c = 2 * a + 1)
      BY <1>1, <1>2, <1>7
    <3>. QED
      BY <1>2, <3>1, Halves
  <2>2. /\ Mixed(h, r) /\ r \in Seq(HeapItems) /\ r[a] = g[c] /\ r[c] = g[a]
        /\ \A k \in 1..n : k # a /\ k # c => r[k] = g[k]
    <3>1. Mixed(h, r)
      BY <1>1, <1>2, <1>7, MixedMore
    <3>2. r[a] = g[c] /\ r[c] = g[a] /\ \A k \in 1..n : k # a /\ k # c => r[k] = g[k]
      BY <1>1, <1>2, <1>7, SwapMixes
    <3>. QED
      BY <3>1, <3>2 DEF Mixed
  <2>. HIDE DEF r
  <2>3. ~Ahead(g[a], g[c])
    BY <1>1, <1>2, <1>5, <1>7, AheadOrders
  <2>4. ASSUME NEW j \in 2..n, j \div 2 # c PROVE Fits(r, j)
    <3>. DEFINE u == j \div 2
    <3>1. u \in 1..n /\ j \in 1..n /\ u # j /\ (j = 2 * u \/ j = 2 * u + 1)
      BY <1>3
    <3>2. Fits(r, j) <=> ~Ahead(r[j], r[u])
      BY DEF Fits
    <3>3. u # a => ~Ahead(g[j], g[u])
      BY <1>1 DEF Fits
    <3>4. j = c => u = a
      BY <2>1
    <3>5. j = a => ~Ahead(g[c], g[u])
      <4>1. j = a => a # 1
        OBVIOUS
      <4>. QED
        BY <1>1, <2>1, <4>1
    <3>6. u # c
      BY <2>4
    <3>. HIDE DEF u
    <3>7. CASE j = a
      <4>1. r[u] = g[u] /\ r[j] = g[c]
        BY <2>2, <3>1, <3>6, <3>7
      <4>. QED
        BY <3>2, <3>5, <3>7, <4>1
    <3>8. CASE j = c
      BY <2>2, <2>3, <3>2, <3>4, <3>8
    <3>9. CASE j # a /\ j # c /\ u = a
      <4>1. r[j] = g[j] /\ r[u] = g[c] /\ ~Ahead(g[j], g[c])
        BY <1>2, <2>2, <3>1, <3>9
      <4>. QED
        BY <3>2, <4>1
    <3>10. CASE j # a /\ j # c /\ u # a
      <4>1. r[j] = g[j] /\ r[u] = g[u]
        BY <2>2, <3>1, <3>6, <3>10
      <4>. QED
        BY <3>2, <3>3, <3>10, <4>1
    <3>. QED
      BY <3>7, <3>8, <3>9, <3>10
  <2>5. ASSUME NEW j \in 2..n, j \div 2 = c PROVE ~Ahead(r[j], r[c \div 2])
    <3>1. j \in 1..n /\ c < j
      BY <1>3, <2>5
    <3>2. j # a /\ j # c
      BY <2>1, <3>1
    <3>3. r[j] = g[j] /\ r[c \div 2] = g[c]
      BY <2>1, <2>2, <3>1, <3>2
    <3>4. ~Ahead(g[j], g[c])
      BY <1>1, <1>7, <2>5 DEF Fits
    <3>. QED
      BY <3>3, <3>4
  <2>. DEFINE t == [heap |-> r, at |-> c]
  <2>6. t \in Cursor /\ t.heap = r /\ t.at = c
    BY <2>1, <2>2 DEF Cursor
  <2>. HIDE DEF t
  <2>7. DownOK(h, t)
    BY <1>2, <2>2, <2>4, <2>5, <2>6 DEF DownOK, n
  <2>8. DownTurn(s) = t
    BY <1>4, <1>7 DEF t
  <2>. QED
    BY <2>1, <2>6, <2>7, <2>8 DEF a
<1>. QED
  BY <1>6, <1>7

IsDescent(T, far, h, i) ==
    /\ Len(h) \in Nat /\ [heap |-> h, at |-> i] \in T /\ far \in [T -> Nat]
    /\ \A s \in T : DownTurn(s) \in T /\ far[s] < Len(h) /\ (DownTurn(s) # s => far[s] < far[DownTurn(s)])
LEMMA Descends ==
    ASSUME NEW T, NEW far, NEW h, NEW i, IsDescent(T, far, h, i)
    PROVE  \E s \in T : DownTurn(s) = s /\ SiftDown(h, i) = s.heap
<1>. DEFINE n == Len(h)
            start == [heap |-> h, at |-> i]
            go == [s \in T |-> DownTurn(s)]
            turn == CHOOSE f : f = [k \in Nat |-> IF k = 0 THEN start ELSE DownTurn(f[k - 1])]
<1>1. /\ n \in Nat /\ start \in T /\ far \in [T -> Nat]
      /\ \A s \in T : DownTurn(s) \in T /\ far[s] < n /\ (DownTurn(s) # s => far[s] < far[DownTurn(s)])
  BY DEF IsDescent
<1>. HIDE DEF n
<1>2. go \in [T -> T] /\ \A s \in T : go[s] = DownTurn(s)
  BY <1>1
<1>. HIDE DEF go, start
<1>3. PICK f : f \in [Nat -> T] /\ f[0] = start /\ \A k \in Nat : f[k + 1] = go[f[k]]
  <2>. HIDE DEF turn
  <2>1. go \in [T -> T]
    BY <1>2
  <2>2. \E f : AreTurns(f, T, start, go)
    BY <1>1, <2>1, TurnsExist
  <2>. QED
    BY <2>2 DEF AreTurns
<1>4. f = [k \in Nat |-> IF k = 0 THEN start ELSE DownTurn(f[k - 1])]
  <2>1. ASSUME NEW k \in Nat PROVE f[k] = IF k = 0 THEN start ELSE DownTurn(f[k - 1])
    <3>1. CASE k = 0
      BY <1>3, <3>1
    <3>2. CASE k # 0
      <4>1. k - 1 \in Nat /\ (k - 1) + 1 = k
        BY <3>2
      <4>2. f[(k - 1) + 1] = go[f[k - 1]] /\ f[k - 1] \in T
        BY <1>3, <4>1
      <4>. QED
        BY <1>2, <3>2, <4>1, <4>2
    <3>. QED
      BY <3>1, <3>2
  <2>2. f = [k \in Nat |-> f[k]]
    BY <1>3
  <2>. QED
    BY <2>1, <2>2, Zenon
<1>5. turn = [k \in Nat |-> IF k = 0 THEN start ELSE DownTurn(turn[k - 1])]
  BY <1>4, Zenon
<1>6. SiftDown(h, i) = turn[n].heap
  BY Zenon DEF SiftDown, DownTurn, start, n
<1>. HIDE DEF turn
<1>7. turn[0] = start /\ \A k \in Nat : turn[k] \in T => turn[k + 1] = go[turn[k]]
  <2>1. turn[0] = start
    BY <1>5
  <2>2. ASSUME NEW k \in Nat, turn[k] \in T PROVE turn[k + 1] = go[turn[k]]
    <3>1. k + 1 \in Nat /\ k + 1 # 0 /\ (k + 1) - 1 = k
      OBVIOUS
    <3>2. turn[k + 1] = DownTurn(turn[k])
      BY <1>5, <3>1
    <3>. QED
      BY <1>2, <2>2, <3>2
  <2>. QED
    BY <2>1, <2>2
<1>8. turn[n] \in T /\ go[turn[n]] = turn[n]
  <2>1. IsLoop(turn, T, start, go, far, n)
    BY <1>1, <1>2, <1>7 DEF IsLoop
  <2>. QED
    BY <2>1, Turning
<1>. QED
  BY <1>2, <1>6, <1>8

LEMMA SiftsDown ==
    ASSUME NEW h \in Seq(HeapItems), NEW i \in 1..Len(h), DownOK(h, [heap |-> h, at |-> i])
    PROVE  Sifted(h, SiftDown(h, i))
<1>. DEFINE n == Len(h)
            T == {s \in Cursor : DownOK(h, s)}
            far == [s \in T |-> s.at - 1]
<1>1. n \in Nat
  BY LenProperties
<1>2. [heap |-> h, at |-> i] \in T
  BY DEF DownOK
<1>3. \A s \in T : s.at \in 1..n
  BY DEF DownOK
<1>4. ASSUME NEW s \in T
      PROVE  DownTurn(s) \in T /\ (DownTurn(s) # s => s.at < DownTurn(s).at) /\ (DownTurn(s) = s => HeapOrdered(s.heap))
  <2>1. /\ DownOK(h, DownTurn(s)) /\ (DownTurn(s) # s => s.at < DownTurn(s).at)
        /\ (DownTurn(s) = s => HeapOrdered(s.heap))
    BY DownTurnKeeps
  <2>. QED
    BY <2>1 DEF DownOK
<1>5. far \in [T -> Nat] /\ \A s \in T : far[s] = s.at - 1
  BY <1>1, <1>3
<1>6. \A s \in T : Mixed(h, s.heap)
  BY DEF DownOK
<1>. HIDE DEF far, T, n
<1>7. ASSUME NEW s \in T PROVE far[s] < n /\ (DownTurn(s) # s => far[s] < far[DownTurn(s)])
  <2>1. s.at \in 1..n /\ DownTurn(s) \in T /\ DownTurn(s).at \in 1..n
    BY <1>3, <1>4
  <2>2. far[s] = s.at - 1 /\ far[DownTurn(s)] = DownTurn(s).at - 1
    BY <1>5, <2>1
  <2>. QED
    BY <1>1, <1>4, <2>1, <2>2
<1>8. IsDescent(T, far, h, i)
  BY <1>1, <1>2, <1>4, <1>5, <1>7 DEF IsDescent, n
<1>9. PICK s \in T : DownTurn(s) = s /\ SiftDown(h, i) = s.heap
  BY <1>8, Descends
<1>. QED
  BY <1>4, <1>6, <1>9 DEF Sifted

\* An ordered heap stays as it is.
LEMMA SiftsNothing ==
    ASSUME NEW h \in Seq(HeapItems), NEW i \in 1..Len(h), HeapOrdered(h)
    PROVE  SiftDown(h, i) = h
<1>. DEFINE start == [heap |-> h, at |-> i]
            T == {start}
            far == [s \in T |-> 0]
            c == FirstChild(h, i)
<1>1. Len(h) \in Nat /\ Len(h) > 0 /\ i \in Nat /\ i >= 1
  BY LenProperties
<1>2. c = i
  <2>1. c \in 1..Len(h) /\ (c = i \/ c = 2 * i \/ c = 2 * i + 1) /\ (c # i => Ahead(h[c], h[i]))
    BY FirstOfTwo
  <2>. HIDE DEF c
  <2>2. ASSUME c # i PROVE FALSE
    <3>1. c \in 2..Len(h) /\ c \div 2 = i
      BY <1>1, <2>1, <2>2, Halves
    <3>2. Fits(h, c)
      BY <3>1 DEF HeapOrdered
    <3>. QED
      BY <2>1, <2>2, <3>1, <3>2 DEF Fits
  <2>. QED
    BY <2>2
<1>3. DownTurn(start) = start
  <2>1. start.heap = h /\ start.at = i
    OBVIOUS
  <2>. HIDE DEF start
  <2>. QED
    BY <1>2, <2>1 DEF DownTurn, Sink
<1>4. IsDescent(T, far, h, i)
  <2>1. start \in T /\ far \in [T -> Nat] /\ \A s \in T : s = start /\ far[s] = 0
    OBVIOUS
  <2>2. [heap |-> h, at |-> i] = start
    OBVIOUS
  <2>. HIDE DEF T, far, start
  <2>. QED
    BY <1>1, <1>3, <2>1, <2>2 DEF IsDescent
<1>5. \E s \in T : DownTurn(s) = s /\ SiftDown(h, i) = s.heap
  <2>. HIDE DEF T, far
  <2>. QED
    BY <1>4, Descends
<1>. QED
  BY <1>5

\* Nothing is ahead of the item at the top.
LEMMA TopIsFirst ==
    ASSUME NEW h \in Seq(HeapItems), HeapOrdered(h), NEW j \in 1..Len(h)
    PROVE  ~Ahead(h[j], h[1])
<1>. DEFINE n == Len(h)
            G == {k \in Nat : \A l \in 1..n : l <= k => ~Ahead(h[l], h[1])}
<1>1. n \in Nat /\ 1 \in 1..n /\ \A k \in 1..n : h[k] \in HeapItems
  BY ElementOfSeq, LenProperties
<1>2. ASSUME NEW k \in 0..(n - 1), k \in G PROVE k + 1 \in G
  <2>. SUFFICES ASSUME NEW l \in 1..n, l <= k + 1 PROVE ~Ahead(h[l], h[1])
    BY <1>2
  <2>1. CASE l <= k
    BY <1>2, <2>1
  <2>2. CASE l = 1
    BY <1>1, <2>2, AheadOrders
  <2>3. CASE l = k + 1 /\ l # 1
    <3>. DEFINE u == l \div 2
    <3>1. l \in 2..n /\ u \in 1..n /\ u <= k
      BY <1>1, <2>3, Halves
    <3>2. ~Ahead(h[l], h[u])
      BY <3>1 DEF HeapOrdered, Fits
    <3>. HIDE DEF u
    <3>3. ~Ahead(h[u], h[1])
      BY <1>2, <3>1
    <3>. QED
      BY <1>1, <3>1, <3>2, <3>3, AheadOrders
  <2>. QED
    BY <1>1, <2>1, <2>2, <2>3
<1>3. 0 \in G
  BY <1>1
<1>4. n \in G
  <2>. HIDE DEF G
  <2>. QED
    BY <1>1, <1>2, <1>3, UpTo
<1>. QED
  BY <1>1, <1>4

\* The stable order of the items.
Earlier(h, i, j) == Ahead(h[i], h[j]) \/ (~Ahead(h[j], h[i]) /\ i < j)
EarlierThan(h, i) == {j \in DOMAIN h : Earlier(h, j, i)}
PlaceOf(h, i) == Cardinality(EarlierThan(h, i))
LEMMA EarlierOrders ==
    ASSUME NEW h \in Seq(HeapItems), NEW i \in 1..Len(h), NEW j \in 1..Len(h), NEW k \in 1..Len(h)
    PROVE  /\ ~Earlier(h, i, i) /\ (i # j => Earlier(h, i, j) \/ Earlier(h, j, i))
           /\ Earlier(h, i, j) => ~Ahead(h[j], h[i])
           /\ Earlier(h, i, j) /\ Earlier(h, j, k) => Earlier(h, i, k)
<1>1. Len(h) \in Nat /\ h[i] \in HeapItems /\ h[j] \in HeapItems /\ h[k] \in HeapItems
  BY ElementOfSeq, LenProperties
<1>2. i \in Int /\ j \in Int /\ k \in Int
  BY <1>1
<1>3. ~Earlier(h, i, i)
  BY <1>1, <1>2, AheadOrders DEF Earlier
<1>4. i # j => Earlier(h, i, j) \/ Earlier(h, j, i)
  BY <1>2 DEF Earlier
<1>5. Earlier(h, i, j) => ~Ahead(h[j], h[i])
  BY <1>1, AheadOrders DEF Earlier
<1>6. ASSUME Earlier(h, i, j), Earlier(h, j, k) PROVE Earlier(h, i, k)
  <2>1. ~Ahead(h[j], h[i]) /\ ~Ahead(h[k], h[j])
    BY <1>1, <1>6, AheadOrders DEF Earlier
  <2>2. ~Ahead(h[k], h[i])
    BY <1>1, <2>1, AheadOrders
  <2>3. CASE Ahead(h[i], h[k])
    BY <2>3 DEF Earlier
  <2>4. CASE ~Ahead(h[i], h[k])
    <3>1. ~Ahead(h[i], h[j]) /\ ~Ahead(h[j], h[k])
      BY <1>1, <2>1, <2>4, AheadOrders
    <3>2. i < j /\ j < k
      BY <1>6, <3>1 DEF Earlier
    <3>. QED
      BY <1>2, <2>2, <3>2 DEF Earlier
  <2>. QED
    BY <2>3, <2>4
<1>. QED
  BY <1>3, <1>4, <1>5, <1>6

LEMMA PlacesGrow ==
    ASSUME NEW h \in Seq(HeapItems), NEW i \in 1..Len(h)
    PROVE  /\ PlaceOf(h, i) \in 0..(Len(h) - 1)
           /\ \A j \in 1..Len(h) : Earlier(h, i, j) => PlaceOf(h, i) < PlaceOf(h, j)
<1>. DEFINE n == Len(h)
<1>1. n \in Nat /\ DOMAIN h = 1..n /\ n >= 1
  BY LenProperties
<1>2. IsFiniteSet(1..n) /\ Cardinality(1..n) = n
  BY <1>1, FS_Interval
<1>3. ASSUME NEW j \in 1..n
      PROVE  EarlierThan(h, j) \in SUBSET (1..n) /\ IsFiniteSet(EarlierThan(h, j)) /\ PlaceOf(h, j) \in Nat
  <2>1. EarlierThan(h, j) \in SUBSET (1..n)
    BY <1>1 DEF EarlierThan
  <2>2. IsFiniteSet(EarlierThan(h, j))
    BY <1>2, <2>1, FS_Subset
  <2>. QED
    BY <2>1, <2>2, FS_CardinalityType DEF PlaceOf
<1>4. ASSUME NEW j \in 1..n, NEW S \in SUBSET (1..n), EarlierThan(h, j) \subseteq S, j \in S
      PROVE  PlaceOf(h, j) < Cardinality(S)
  <2>1. j \notin EarlierThan(h, j)
    BY EarlierOrders DEF EarlierThan
  <2>2. IsFiniteSet(S)
    BY <1>2, FS_Subset
  <2>3. Cardinality(S) \in Nat
    BY <2>2, FS_CardinalityType
  <2>4. /\ Cardinality(EarlierThan(h, j)) <= Cardinality(S)
        /\ Cardinality(S) = Cardinality(EarlierThan(h, j)) => S = EarlierThan(h, j)
    BY <1>4, <2>2, FS_Subset
  <2>. QED
    BY <1>3, <1>4, <2>1, <2>3, <2>4 DEF PlaceOf
<1>5. PlaceOf(h, i) \in 0..(n - 1)
  <2>1. 1..n \in SUBSET (1..n)
    OBVIOUS
  <2>2. PlaceOf(h, i) < Cardinality(1..n)
    BY <1>3, <1>4, <2>1
  <2>. QED
    BY <1>1, <1>2, <1>3, <2>2
<1>6. ASSUME NEW j \in 1..n, Earlier(h, i, j) PROVE PlaceOf(h, i) < PlaceOf(h, j)
  <2>1. EarlierThan(h, i) \subseteq EarlierThan(h, j)
    <3>. SUFFICES ASSUME NEW l \in EarlierThan(h, i) PROVE l \in EarlierThan(h, j)
      OBVIOUS
    <3>1. l \in 1..n /\ Earlier(h, l, i)
      BY <1>1 DEF EarlierThan
    <3>2. Earlier(h, l, j)
      BY <1>6, <3>1, EarlierOrders
    <3>. QED
      BY <1>1, <3>1, <3>2 DEF EarlierThan
  <2>2. i \in EarlierThan(h, j)
    BY <1>1, <1>6 DEF EarlierThan
  <2>. QED
    BY <1>3, <1>4, <2>1, <2>2 DEF PlaceOf
<1>. QED
  BY <1>5, <1>6

IsOrder(order, h) ==
    /\ order \in [1..Len(h) -> 1..Len(h)] /\ \A k \in 1..Len(h) : PlaceOf(h, order[k]) = k - 1
LEMMA OrderFound ==
    ASSUME NEW h \in Seq(HeapItems)
    PROVE  IsOrder([k \in 1..Cardinality(DOMAIN h) |-> CHOOSE x \in DOMAIN h : PlaceOf(h, x) = k - 1], h)
<1>. DEFINE n == Len(h)
            f == [x \in 1..n |-> PlaceOf(h, x) + 1]
            order == [k \in 1..Cardinality(DOMAIN h) |-> CHOOSE x \in DOMAIN h : PlaceOf(h, x) = k - 1]
<1>1. n \in Nat /\ DOMAIN h = 1..n
  BY LenProperties
<1>2. IsFiniteSet(1..n) /\ Cardinality(1..n) = n
  BY <1>1, FS_Interval
<1>3. \A x \in 1..n : PlaceOf(h, x) \in 0..(n - 1)
  BY PlacesGrow
<1>4. f \in [1..n -> 1..n] /\ \A x \in 1..n : f[x] = PlaceOf(h, x) + 1
  BY <1>1, <1>3
<1>. HIDE DEF f, n
<1>5. ASSUME NEW x \in 1..n, NEW y \in 1..n, f[x] = f[y] PROVE x = y
  <2>1. PlaceOf(h, x) = PlaceOf(h, y) /\ PlaceOf(h, x) \in Int
    BY <1>3, <1>4, <1>5
  <2>2. ~Earlier(h, x, y) /\ ~Earlier(h, y, x)
    BY <2>1, PlacesGrow DEF n
  <2>. QED
    BY <2>2, EarlierOrders DEF n
<1>6. f \in Injection(1..n, 1..n)
  BY <1>4, <1>5 DEF Injection, IsInjective
<1>7. f \in Surjection(1..n, 1..n)
  BY <1>2, <1>6, FS_Injection
<1>8. \A k \in 1..n : \E x \in 1..n : PlaceOf(h, x) = k - 1
  <2>. SUFFICES ASSUME NEW k \in 1..n PROVE \E x \in 1..n : PlaceOf(h, x) = k - 1
    OBVIOUS
  <2>1. PICK x \in 1..n : f[x] = k
    BY <1>7 DEF Surjection
  <2>. QED
    BY <1>3, <1>4, <2>1
<1>9. order = [k \in 1..n |-> CHOOSE x \in 1..n : PlaceOf(h, x) = k - 1]
  BY <1>1, <1>2
<1>10. \A k \in 1..n : order[k] \in 1..n /\ PlaceOf(h, order[k]) = k - 1
  <2>. SUFFICES ASSUME NEW k \in 1..n PROVE order[k] \in 1..n /\ PlaceOf(h, order[k]) = k - 1
    OBVIOUS
  <2>1. order[k] = CHOOSE x \in 1..n : PlaceOf(h, x) = k - 1
    BY <1>9, Zenon
  <2>2. \E x \in 1..n : PlaceOf(h, x) = k - 1
    BY <1>8
  <2>. HIDE DEF order
  <2>. QED
    BY <2>1, <2>2, Zenon
<1>11. order \in [1..n -> 1..n]
  BY <1>9, <1>10
<1>. HIDE DEF order
<1>. QED
  BY <1>10, <1>11 DEF IsOrder, n, order

\* Sifting an ordered heap down from any of its places leaves it as it is.
LEMMA SiftsLeaveIt ==
    ASSUME NEW h \in Seq(HeapItems), HeapOrdered(h), NEW m \in Nat, NEW s, s \in [1..m -> 1..Len(h)]
    PROVE  FoldLeft(SiftDown, h, s) = h
<1>. DEFINE D == DOMAIN s
            const == [S \in SUBSET D |-> h]
            iter == CHOOSE g : g = [S \in SUBSET D |-> IF S = {} THEN h
                                      ELSE LET x == Max(S) IN SiftDown(g[S \ {x}], s[x])]
<1>1. D = 1..m
  OBVIOUS
<1>2. ASSUME NEW x \in D PROVE SiftDown(h, s[x]) = h
  <2>1. s[x] \in 1..Len(h)
    BY <1>1
  <2>. QED
    BY <2>1, SiftsNothing
<1>3. \A S \in SUBSET D : S # {} => Max(S) \in S
  BY <1>1, LastPlace
<1>. HIDE DEF D
<1>4. const \in [SUBSET D -> {h}] /\ \A S \in SUBSET D : const[S] = h
  OBVIOUS
<1>5. const = [S \in SUBSET D |-> const[S]]
  OBVIOUS
<1>. HIDE DEF const
<1>6. ASSUME NEW S \in SUBSET D
      PROVE  const[S] = IF S = {} THEN h ELSE LET x == Max(S) IN SiftDown(const[S \ {x}], s[x])
  <2>. DEFINE x == Max(S)
  <2>1. CASE S = {}
    BY <1>4, <2>1
  <2>2. CASE S # {}
    <3>1. x \in D /\ S \ {x} \in SUBSET D
      BY <1>3, <2>2
    <3>. HIDE DEF x
    <3>2. const[S \ {x}] = h /\ SiftDown(h, s[x]) = h
      BY <1>2, <1>4, <3>1
    <3>3. const[S] = SiftDown(const[S \ {x}], s[x])
      BY <1>4, <3>2
    <3>4. x = Max(S)
      BY DEF x
    <3>. QED
      BY <2>2, <3>3, <3>4, Zenon
  <2>. QED
    BY <2>1, <2>2
<1>7. const = [S \in SUBSET D |-> IF S = {} THEN h ELSE LET x == Max(S) IN SiftDown(const[S \ {x}], s[x])]
  BY <1>5, <1>6, Zenon
<1>8. iter = [S \in SUBSET D |-> IF S = {} THEN h ELSE LET x == Max(S) IN SiftDown(iter[S \ {x}], s[x])]
  BY <1>7, Zenon
<1>9. FoldLeft(SiftDown, h, s) = iter[D]
  BY Zenon DEF FoldLeft, MapThenFoldSet, D
<1>. HIDE DEF iter
<1>. DEFINE G == {k \in Nat : k > m \/ iter[1..k] = h}
<1>10. 0 \in G
  <2>1. 1..0 = {} /\ {} \in SUBSET D
    OBVIOUS
  <2>2. iter[{}] = h
    BY <1>8, <2>1, Zenon
  <2>. QED
    BY <2>1, <2>2
<1>11. ASSUME NEW k \in 0..(m - 1), k \in G PROVE k + 1 \in G
  <2>. DEFINE l == k + 1
  <2>1. l \in 1..m /\ l \in Nat /\ iter[1..k] = h /\ 1..l \in SUBSET (1..m) /\ 1..l # {} /\ (1..l) \ {l} = 1..k
    BY <1>11
  <2>2. Max(1..l) = l
    <3>1. Max(1..l) \in 1..l /\ \A x \in 1..l : x <= Max(1..l)
      BY <2>1, LastPlace
    <3>. QED
      BY <2>1, <3>1
  <2>. HIDE DEF l
  <2>3. 1..l \in SUBSET D
    BY <1>1, <2>1
  <2>4. iter[1..l] = SiftDown(iter[(1..l) \ {Max(1..l)}], s[Max(1..l)])
    BY <1>8, <2>1, <2>3, Zenon
  <2>5. l \in D
    BY <1>1, <2>1
  <2>6. iter[1..l] = h
    BY <1>2, <2>1, <2>2, <2>4, <2>5
  <2>. QED
    BY <2>1, <2>6 DEF l
<1>12. m \in G
  <2>. HIDE DEF G
  <2>. QED
    BY <1>10, <1>11, UpTo
<1>. QED
  BY <1>1, <1>9, <1>12

-----------------------------------------------------------------------------
\* What always holds of the heap: it is ordered, and no item is in it twice.
HeapInv ==
    /\ heapKind \in {"min", "max", "queue"} /\ arrived \in Nat
    /\ heap \in Seq(HeapItems) /\ Once(heap) /\ HeapOrdered(heap)
    /\ \A x \in ToSet(heap) : x.value <= arrived

\* A heap of some of the items, and whatever the action leaves alone.
HeapAfter(h) == h \in Seq(HeapItems) /\ Once(h) /\ HeapOrdered(h)
LEMMA HeapInvNext ==
    ASSUME HeapInv, heapKind' = heapKind, HeapAfter(heap'), arrived' \in Nat, \A x \in ToSet(heap') : x.value <= arrived'
    PROVE  HeapInv'
<1>1. (\A j \in 2..Len(heap) : ~Ahead(heap[j], heap[j \div 2]))'
  BY DEF HeapAfter, HeapOrdered, Fits, Ahead
<1>. QED
  BY <1>1 DEF HeapInv, HeapAfter, HeapOrdered, Fits, Once, HeapItems, ToSet

LEMMA HeapStarts == HeapInit => HeapInv
  BY DEF HeapInit, HeapInv, HeapOrdered, Once, ToSet

LEMMA Pushes ==
    ASSUME HeapInv, NEW key \in HeapKeys, PushItem(key)
    PROVE  HeapInv' /\ ToSet(heap) \subseteq ToSet(heap') /\ Len(heap') > Len(heap)
<1>. DEFINE n == Len(heap)
            x == [key |-> key, value |-> arrived + 1]
            h == Append(heap, x)
<1>1. heap \in Seq(HeapItems) /\ n \in Nat /\ DOMAIN heap = 1..n /\ arrived \in Nat /\ Once(heap) /\ HeapOrdered(heap)
  BY LenProperties DEF HeapInv
<1>2. x \in HeapItems /\ x.value = arrived + 1
  BY <1>1, HeapAssumption DEF HeapItems
<1>3. heap' = SiftUp(h, Len(h)) /\ arrived' = arrived + 1 /\ heapKind' = heapKind
  BY DEF PushItem
<1>. HIDE DEF x
<1>4. h \in Seq(HeapItems) /\ Len(h) = n + 1 /\ h[n + 1] = x /\ \A k \in 1..n : h[k] = heap[k]
  BY <1>1, <1>2, AppendProperties
<1>. HIDE DEF h
<1>5. \A k \in 1..n : heap[k] \in ToSet(heap) /\ heap[k] # x
  <2>1. \A k \in 1..n : heap[k] \in ToSet(heap)
    BY <1>1 DEF ToSet
  <2>2. \A y \in ToSet(heap) : y \in HeapItems /\ y.value <= arrived
    BY <1>1, ElementOfSeq DEF HeapInv, ToSet
  <2>. QED
    BY <1>1, <1>2, <2>1, <2>2 DEF HeapItems
<1>6. Once(h)
  <2>. SUFFICES ASSUME NEW i \in 1..(n + 1), NEW j \in 1..(n + 1), h[i] = h[j] PROVE i = j
    BY <1>4 DEF Once
  <2>1. CASE i = n + 1 \/ j = n + 1
    BY <1>1, <1>4, <1>5, <2>1
  <2>2. CASE i # n + 1 /\ j # n + 1
    <3>1. i \in 1..n /\ j \in 1..n
      BY <1>1, <2>2
    <3>2. heap[i] = heap[j]
      BY <1>4, <3>1
    <3>. QED
      BY <1>1, <3>1, <3>2 DEF Once
  <2>. QED
    BY <2>1, <2>2
<1>7. \A j \in 2..(Len(h) - 1) : Fits(h, j)
  <2>. SUFFICES ASSUME NEW j \in 2..n PROVE Fits(h, j)
    BY <1>1, <1>4
  <2>1. j \in 1..n /\ j \div 2 \in 1..n
    BY <1>1, Halves
  <2>. QED
    BY <1>1, <1>4, <2>1 DEF HeapOrdered, Fits
<1>8. h # <<>>
  BY <1>1, <1>4
<1>9. Sifted(h, heap')
  BY <1>3, <1>4, <1>6, <1>7, <1>8, SiftsUp
<1>10. HeapAfter(heap') /\ Len(heap') = n + 1 /\ ToSet(heap') = ToSet(h)
  BY <1>4, <1>9 DEF Sifted, Mixed, HeapAfter
<1>11. ToSet(h) = ToSet(heap) \cup {x}
  <2>1. ToSet(h) = {h[k] : k \in 1..(n + 1)} /\ ToSet(heap) = {heap[k] : k \in 1..n}
    BY <1>1, <1>4, LenProperties DEF ToSet
  <2>2. \A k : k \in 1..(n + 1) <=> k \in 1..n \/ k = n + 1
    BY <1>1
  <2>3. {h[k] : k \in 1..(n + 1)} = {h[k] : k \in 1..n} \cup {x}
    BY <1>4, <2>2
  <2>. QED
    BY <1>4, <2>1, <2>3
<1>12. \A y \in ToSet(heap') : y.value <= arrived'
  <2>1. \A y \in ToSet(heap) : y \in HeapItems /\ y.value <= arrived
    BY <1>1, ElementOfSeq DEF HeapInv, ToSet
  <2>. QED
    BY <1>1, <1>2, <1>3, <1>10, <1>11, <2>1 DEF HeapItems
<1>13. HeapInv'
  BY <1>1, <1>3, <1>10, <1>12, HeapInvNext
<1>. QED
  BY <1>1, <1>10, <1>11, <1>13

LEMMA Pops ==
    ASSUME HeapInv, PopItem
    PROVE  /\ HeapInv' /\ Len(heap') = Len(heap) - 1 /\ heap[1] \notin ToSet(heap')
           /\ ToSet(heap') \subseteq ToSet(heap)
<1>. DEFINE n == Len(heap)
            front == SubSeq(heap, 1, n - 1)
            g == [front EXCEPT ![1] = heap[n]]
<1>1. /\ heap \in Seq(HeapItems) /\ n \in Nat /\ n >= 1 /\ DOMAIN heap = 1..n /\ arrived \in Nat
      /\ Once(heap) /\ HeapOrdered(heap) /\ \A k \in 1..n : heap[k] \in HeapItems
  BY ElementOfSeq, LenProperties DEF HeapInv, PopItem
<1>2. heap' = IF n = 1 THEN <<>> ELSE SiftDown(g, 1)
  BY DEF PopItem, Front, Last
<1>3. arrived' = arrived /\ heapKind' = heapKind
  BY DEF PopItem
<1>4. \A x \in ToSet(heap) : x.value <= arrived
  BY DEF HeapInv
<1>5. ToSet(heap) = {heap[k] : k \in 1..n}
  BY <1>1 DEF ToSet
<1>6. front \in Seq(HeapItems) /\ Len(front) = n - 1 /\ DOMAIN front = 1..(n - 1) /\ \A k \in 1..(n - 1) : front[k] = heap[k]
  <2>1. /\ front \in Seq(HeapItems) /\ Len(front) = IF 1 <= n - 1 THEN (n - 1) - 1 + 1 ELSE 0
        /\ \A i \in 1..((n - 1) - 1 + 1) : front[i] = heap[1 + i - 1]
    BY <1>1, SubSeqProperties
  <2>. HIDE DEF n, front
  <2>2. DOMAIN front = 1..Len(front)
    BY <2>1, LenProperties
  <2>. QED
    BY <1>1, <2>1, <2>2
<1>. HIDE DEF front
<1>7. CASE n = 1
  <2>1. heap' = <<>>
    BY <1>2, <1>7
  <2>2. HeapAfter(heap') /\ Len(heap') = 0 /\ ToSet(heap') = {}
    BY <2>1 DEF HeapAfter, Once, HeapOrdered, ToSet
  <2>3. HeapInv'
    BY <1>1, <1>3, <2>2, HeapInvNext
  <2>. QED
    BY <1>7, <2>2, <2>3
<1>8. CASE n # 1
  <2>1. n >= 2 /\ 1 \in 1..(n - 1)
    BY <1>1, <1>8
  <2>2. /\ g \in Seq(HeapItems) /\ Len(g) = n - 1 /\ DOMAIN g = 1..(n - 1) /\ g[1] = heap[n]
        /\ \A k \in 1..(n - 1) : k # 1 => g[k] = heap[k]
    <3>1. heap[n] \in HeapItems
      BY <1>1
    <3>2. g[1] = heap[n] /\ \A k \in 1..(n - 1) : k # 1 => g[k] = front[k]
      BY <1>6, <2>1
    <3>3. g \in Seq(HeapItems) /\ Len(g) = n - 1 /\ DOMAIN g = 1..(n - 1)
      <4>1. DOMAIN g = 1..(n - 1)
        BY <1>6
      <4>2. \A k \in 1..(n - 1) : g[k] \in HeapItems
        <5>1. \A k \in 1..(n - 1) : k \in 1..n
          BY <1>1
        <5>. HIDE DEF g
        <5>. QED
          BY <1>1, <1>6, <3>1, <3>2, <5>1
      <4>3. g = [k \in 1..(n - 1) |-> g[k]]
        BY <1>6
      <4>. HIDE DEF g
      <4>4. g \in [1..(n - 1) -> HeapItems] /\ n - 1 \in Nat
        BY <1>1, <4>2, <4>3
      <4>. HIDE DEF n
      <4>. QED
        BY <4>1, <4>4
    <3>. QED
      BY <1>6, <3>2, <3>3
  <2>3. heap' = SiftDown(g, 1)
    BY <1>2, <1>8
  <2>. HIDE DEF g
  <2>. DEFINE from(k) == IF k = 1 THEN n ELSE k
  <2>4. \A k \in 1..(n - 1) : from(k) \in 2..n /\ g[k] = heap[from(k)]
    BY <1>1, <2>1, <2>2
  <2>5. Once(g)
    <3>. SUFFICES ASSUME NEW i \in 1..(n - 1), NEW j \in 1..(n - 1), g[i] = g[j] PROVE i = j
      BY <2>2 DEF Once
    <3>1. from(i) = from(j)
      <4>1. from(i) \in 1..n /\ from(j) \in 1..n /\ heap[from(i)] = heap[from(j)]
        BY <1>1, <2>4
      <4>. HIDE DEF from
      <4>. QED
        BY <1>1, <4>1 DEF Once
    <3>. QED
      BY <1>1, <3>1
  <2>6. \A j \in 2..(n - 1) : j \div 2 # 1 => Fits(g, j)
    <3>. SUFFICES ASSUME NEW j \in 2..(n - 1), j \div 2 # 1 PROVE Fits(g, j)
      OBVIOUS
    <3>1. j \in 1..(n - 1) /\ j # 1 /\ j \div 2 \in 1..(n - 1) /\ j \in 2..n
      BY <1>1, Halves
    <3>2. g[j] = heap[j] /\ g[j \div 2] = heap[j \div 2]
      BY <2>2, <3>1
    <3>. QED
      BY <1>1, <3>1, <3>2 DEF HeapOrdered, Fits
  <2>. DEFINE s == [heap |-> g, at |-> 1]
  <2>7. s \in Cursor /\ s.heap = g /\ s.at = 1
    BY <2>2 DEF Cursor
  <2>. HIDE DEF s
  <2>8. Mixed(g, g)
    BY <2>2, <2>5 DEF Mixed
  <2>9. DownOK(g, s)
    BY <2>1, <2>2, <2>6, <2>7, <2>8 DEF DownOK
  <2>10. Sifted(g, heap')
    BY <2>1, <2>2, <2>3, <2>9, SiftsDown DEF s
  <2>11. HeapAfter(heap') /\ Len(heap') = n - 1 /\ ToSet(heap') = ToSet(g)
    BY <2>2, <2>10 DEF Sifted, Mixed, HeapAfter
  <2>12. \A x \in ToSet(g) : \E k \in 2..n : x = heap[k]
    <3>. HIDE DEF from
    <3>. QED
      BY <2>2, <2>4 DEF ToSet
  <2>13. ToSet(g) \subseteq ToSet(heap) /\ heap[1] \notin ToSet(g)
    <3>1. \A k \in 2..n : k \in 1..n /\ heap[k] # heap[1]
      BY <1>1 DEF Once
    <3>. QED
      BY <1>5, <2>12, <3>1
  <2>14. HeapInv'
    <3>1. \A x \in ToSet(heap') : x.value <= arrived'
      BY <1>3, <1>4, <2>11, <2>13
    <3>. QED
      BY <1>1, <1>3, <2>11, <3>1, HeapInvNext
  <2>. QED
    BY <2>11, <2>13, <2>14
<1>. QED
  BY <1>7, <1>8

LEMMA Trims ==
    ASSUME HeapInv, QueueTrim
    PROVE  /\ HeapInv' /\ Len(heap') < Len(heap) /\ ToSet(heap') \subseteq ToSet(heap)
           /\ \A x \in ToSet(heap) \ ToSet(heap'), y \in ToSet(heap') : ~Ahead(x, y)
<1>. DEFINE n == Len(heap)
            order == [k \in 1..Cardinality(DOMAIN heap) |-> CHOOSE x \in DOMAIN heap : PlaceOf(heap, x) = k - 1]
            kept(most) == [k \in 1..most |-> heap[order[k]]]
            middle(most) == Least({most, most \div 2 + 1})
            down(most) == [k \in 1..middle(most) |-> middle(most) + 1 - k]
<1>1. /\ heap \in Seq(HeapItems) /\ n \in Nat /\ DOMAIN heap = 1..n /\ arrived \in Nat
      /\ Once(heap) /\ HeapOrdered(heap) /\ \A k \in 1..n : heap[k] \in HeapItems
  BY ElementOfSeq, LenProperties DEF HeapInv
<1>2. \A x \in ToSet(heap) : x.value <= arrived
  BY DEF HeapInv
<1>3. ToSet(heap) = {heap[k] : k \in 1..n}
  BY <1>1 DEF ToSet
<1>4. arrived' = arrived /\ heapKind' = heapKind
  BY DEF QueueTrim
<1>5. PICK most \in 0..(n - 1) : heap' = FoldLeft(SiftDown, kept(most), down(most))
  BY DEF QueueTrim, Ordered, PlaceOf, EarlierThan, Earlier
<1>6. IsOrder(order, heap)
  BY <1>1, OrderFound
<1>. DEFINE h == kept(most)
<1>7. h = [k \in 1..most |-> heap[order[k]]]
  OBVIOUS
<1>. HIDE DEF order, kept
<1>8. /\ most \in Nat /\ most < n /\ \A k \in 1..most : k \in 1..n /\ order[k] \in 1..n /\ PlaceOf(heap, order[k]) = k - 1
  <2>1. most \in Nat /\ most < n /\ \A k \in 1..most : k \in 1..n
    BY <1>1
  <2>2. order \in [1..n -> 1..n] /\ \A k \in 1..n : PlaceOf(heap, order[k]) = k - 1
    BY <1>6 DEF IsOrder
  <2>. HIDE DEF h, n
  <2>. QED
    BY <2>1, <2>2
<1>9. h \in Seq(HeapItems) /\ Len(h) = most /\ DOMAIN h = 1..most /\ \A k \in 1..most : h[k] = heap[order[k]]
  BY <1>1, <1>7, <1>8
<1>. HIDE DEF h
<1>10. \A i, j \in 1..n : PlaceOf(heap, i) < PlaceOf(heap, j) => ~Ahead(heap[j], heap[i])
  <2>. SUFFICES ASSUME NEW i \in 1..n, NEW j \in 1..n, PlaceOf(heap, i) < PlaceOf(heap, j) PROVE ~Ahead(heap[j], heap[i])
    OBVIOUS
  <2>1. PlaceOf(heap, i) \in Int /\ PlaceOf(heap, j) \in Int
    BY <1>1, PlacesGrow
  <2>2. i # j /\ ~Earlier(heap, j, i)
    BY <1>1, <2>1, PlacesGrow
  <2>. QED
    BY <1>1, <2>2, EarlierOrders
<1>11. Once(h)
  <2>. SUFFICES ASSUME NEW i \in 1..most, NEW j \in 1..most, h[i] = h[j] PROVE i = j
    BY <1>9 DEF Once
  <2>1. order[i] = order[j]
    BY <1>1, <1>8, <1>9 DEF Once
  <2>2. i - 1 = j - 1
    BY <1>8, <2>1
  <2>. QED
    BY <1>8, <2>2
<1>12. HeapOrdered(h)
  <2>. SUFFICES ASSUME NEW j \in 2..most PROVE Fits(h, j)
    BY <1>9 DEF HeapOrdered
  <2>. DEFINE u == j \div 2
  <2>1. j \in 1..most /\ u \in 1..most /\ u < j
    BY <1>8, Halves
  <2>2. Fits(h, j) <=> ~Ahead(h[j], h[u])
    BY DEF Fits
  <2>. HIDE DEF u
  <2>3. PlaceOf(heap, order[u]) < PlaceOf(heap, order[j])
    BY <1>8, <2>1
  <2>. QED
    BY <1>8, <1>9, <1>10, <2>1, <2>2, <2>3
<1>13. heap' = h
  <2>. DEFINE m == middle(most)
  <2>1. m \in Nat /\ m <= most
    <3>1. most \div 2 + 1 \in Nat
      BY <1>8
    <3>2. {most, most \div 2 + 1} \subseteq Nat /\ {most, most \div 2 + 1} # {}
      BY <1>8, <3>1
    <3>3. \E x \in {most, most \div 2 + 1} : \A y \in {most, most \div 2 + 1} : x <= y
      BY <3>2, LeastOf
    <3>4. m \in {most, most \div 2 + 1} /\ m <= most
      BY <3>3 DEF Least
    <3>. QED
      BY <3>2, <3>4
  <2>2. down(most) = [k \in 1..m |-> m + 1 - k]
    OBVIOUS
  <2>. HIDE DEF m, middle
  <2>3. down(most) \in [1..m -> 1..Len(h)]
    <3>1. \A k \in 1..m : m + 1 - k \in 1..most
      BY <1>8, <2>1
    <3>. HIDE DEF down
    <3>2. down(most) \in [1..m -> 1..most]
      BY <2>2, <3>1
    <3>. QED
      BY <1>9, <3>2
  <2>4. heap' = FoldLeft(SiftDown, h, down(most))
    BY <1>5 DEF h
  <2>. HIDE DEF down
  <2>. QED
    BY <1>9, <1>12, <2>1, <2>3, <2>4, SiftsLeaveIt
<1>14. ToSet(h) = {h[k] : k \in 1..most}
  BY <1>9 DEF ToSet
<1>15. ToSet(h) \subseteq ToSet(heap)
  BY <1>3, <1>8, <1>9, <1>14
<1>16. ASSUME NEW x \in ToSet(heap) \ ToSet(h), NEW y \in ToSet(h) PROVE ~Ahead(x, y)
  <2>1. PICK i \in 1..n : x = heap[i]
    BY <1>3
  <2>2. PICK k \in 1..most : y = heap[order[k]]
    BY <1>9, <1>14
  <2>. DEFINE p == PlaceOf(heap, i)
  <2>3. p \in 0..(n - 1)
    BY <1>1, PlacesGrow
  <2>4. p >= most
    <3>. SUFFICES ASSUME p < most PROVE FALSE
      BY <1>8, <2>3
    <3>1. p + 1 \in 1..most /\ PlaceOf(heap, order[p + 1]) = p /\ order[p + 1] \in 1..n
      BY <1>8, <2>3
    <3>2. ~Earlier(heap, i, order[p + 1]) /\ ~Earlier(heap, order[p + 1], i)
      BY <1>1, <2>3, <3>1, PlacesGrow
    <3>3. order[p + 1] = i
      BY <1>1, <3>1, <3>2, EarlierOrders
    <3>4. x \in ToSet(h)
      BY <1>9, <1>14, <2>1, <3>1, <3>3
    <3>. QED
      BY <3>4
  <2>5. PlaceOf(heap, order[k]) < p
    BY <1>8, <2>3, <2>4
  <2>. QED
    BY <1>8, <1>10, <2>1, <2>2, <2>5
<1>17. HeapInv'
  <2>1. HeapAfter(heap')
    BY <1>9, <1>11, <1>12, <1>13 DEF HeapAfter
  <2>2. \A x \in ToSet(heap') : x.value <= arrived'
    BY <1>2, <1>4, <1>13, <1>15
  <2>. QED
    BY <1>1, <1>4, <2>1, <2>2, HeapInvNext
<1>. QED
  BY <1>8, <1>9, <1>13, <1>15, <1>16, <1>17

LEMMA OnceCounts ==
    ASSUME NEW h \in Seq(HeapItems), Once(h)
    PROVE  Cardinality(ToSet(h)) = Len(h)
<1>1. Len(h) \in Nat /\ DOMAIN h = 1..Len(h)
  BY LenProperties
<1>2. h \in Bijection(1..Len(h), ToSet(h))
  <2>1. h \in [1..Len(h) -> ToSet(h)] /\ \A x \in ToSet(h) : \E k \in 1..Len(h) : h[k] = x
    BY <1>1 DEF ToSet
  <2>2. IsInjective(h)
    BY <1>1 DEF Once, IsInjective
  <2>. QED
    BY <2>1, <2>2 DEF Bijection, Injection, Surjection
<1>3. ExistsBijection(1..Len(h), ToSet(h))
  BY <1>2 DEF ExistsBijection
<1>4. IsFiniteSet(1..Len(h)) /\ Cardinality(1..Len(h)) = Len(h)
  BY <1>1, FS_Interval
<1>. QED
  BY <1>3, <1>4, FS_Bijection

\* What a step does to the heap.
GoesOrderly ==
    LET gone == ToSet(heap) \ ToSet(heap')
        stay == ToSet(heap) \cap ToSet(heap')
    IN  /\ Cardinality(ToSet(heap')) = Len(heap')
        /\ Len(heap') >= Len(heap) => gone = {}
        /\ heap # <<>> /\ Len(heap') < Len(heap) =>
             IF Len(heap') = Len(heap) - 1 /\ heap[1] \in gone
             THEN \A x \in stay : ~Ahead(x, heap[1])
             ELSE heapKind = "queue" /\ \A x \in gone, y \in stay : ~Ahead(x, y)
LEMMA HeapGoesOn ==
    ASSUME HeapInv, HeapNext
    PROVE  HeapInv' /\ GoesOrderly
<1>1. heap \in Seq(HeapItems) /\ Len(heap) \in Nat /\ HeapOrdered(heap)
  BY LenProperties DEF HeapInv
<1>2. ASSUME NEW x \in ToSet(heap) PROVE ~Ahead(x, heap[1])
  <2>1. PICK j \in 1..Len(heap) : x = heap[j]
    BY <1>1, LenProperties DEF ToSet
  <2>. QED
    BY <1>1, <2>1, TopIsFirst
<1>3. HeapInv' => Cardinality(ToSet(heap')) = Len(heap') /\ Len(heap') \in Nat
  <2>. SUFFICES ASSUME HeapInv' PROVE Cardinality(ToSet(heap')) = Len(heap') /\ Len(heap') \in Nat
    OBVIOUS
  <2>1. heap' \in Seq(HeapItems) /\ Once(heap')
    BY DEF HeapInv, HeapItems, Once
  <2>. QED
    BY <2>1, OnceCounts, LenProperties
<1>4. ASSUME NEW key \in HeapKeys, PushItem(key) PROVE HeapInv' /\ GoesOrderly
  <2>1. HeapInv' /\ ToSet(heap) \subseteq ToSet(heap') /\ Len(heap') > Len(heap)
    BY <1>4, Pushes
  <2>. QED
    BY <1>1, <1>3, <2>1 DEF GoesOrderly
<1>5. CASE PopItem
  <2>1. HeapInv' /\ Len(heap') = Len(heap) - 1 /\ heap[1] \notin ToSet(heap') /\ heap # <<>>
    BY <1>5, Pops DEF PopItem
  <2>2. heap[1] \in ToSet(heap)
    BY <1>1, <2>1, LenProperties DEF ToSet
  <2>. QED
    BY <1>1, <1>2, <1>3, <2>1, <2>2 DEF GoesOrderly
<1>6. CASE QueueTrim
  <2>1. /\ HeapInv' /\ Len(heap') < Len(heap) /\ heapKind = "queue"
        /\ \A x \in ToSet(heap) \ ToSet(heap'), y \in ToSet(heap') : ~Ahead(x, y)
    BY <1>6, Trims DEF QueueTrim
  <2>. QED
    BY <1>1, <1>2, <1>3, <2>1 DEF GoesOrderly
<1>. QED
  BY <1>4, <1>5, <1>6 DEF HeapNext, MinPush, MinPop, MaxPush, MaxPop, QueuePush, QueuePop

\* Whatever is pushed, popped and trimmed before, what leaves a heap is never
\* behind what stays, and nothing else leaves it.
THEOREM HeapsGiveTheBestFirst == HeapSpec => BestFirst
<1>1. HeapInit => HeapInv
  BY HeapStarts
<1>2. HeapInv /\ [HeapNext]_heapVars => HeapInv'
  <2>. SUFFICES ASSUME HeapInv, [HeapNext]_heapVars PROVE HeapInv'
    OBVIOUS
  <2>1. CASE HeapNext
    BY <2>1, HeapGoesOn
  <2>2. CASE UNCHANGED heapVars
    BY <2>2 DEF heapVars, HeapInv, HeapOrdered, Fits, Ahead, Once, HeapItems, ToSet
  <2>. QED
    BY <2>1, <2>2
<1>3. HeapInv /\ [HeapNext]_heapVars => [GoesOrderly]_heapVars
  BY HeapGoesOn
<1>4. HeapSpec => [][GoesOrderly]_heapVars
  BY <1>1, <1>2, <1>3, PTL DEF HeapSpec
<1>. QED
  BY <1>4 DEF BestFirst, GoesOrderly
=============================================================================
