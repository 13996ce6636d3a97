-------------------------- MODULE Optimizer_proofs --------------------------
(* Theorems about Optimizer, for every number of hours, devices, prices,   *)
(* sun and faults.                                                         *)
EXTENDS Optimizer, FiniteSetTheorems, WellFoundedInduction, TLAPS

(* A set of numbers has a least one: what the arguments by the smallest    *)
(* counterexample rest on.                                                 *)
LEMMA LeastNat ==
  ASSUME NEW S \in SUBSET Nat, S # {}
  PROVE  \E m \in S : \A k \in S : m <= k
<1> DEFINE R == OpToRel(<, Nat)
<1>1. PICK m \in S : \A k \in S : ~(<<k, m>> \in R)
  <2> HIDE DEF R
  <2> QED BY NatLessThanWellFounded, WFMin DEF R
<1>2. \A i, j \in Nat : <<i, j>> \in R <=> i < j
  BY DEF OpToRel
<1> HIDE DEF R
<1>3. ASSUME NEW k \in S PROVE m <= k
  <2>1. ~(<<k, m>> \in R) /\ k \in Nat /\ m \in Nat
    BY <1>1
  <2> QED BY <1>2, <2>1
<1> QED BY <1>3

(* A set without one of its elements.                                      *)
LEMMA OneLess ==
  ASSUME NEW S, IsFiniteSet(S), NEW x \in S
  PROVE  /\ IsFiniteSet(S \ {x}) /\ Cardinality(S) \in Nat \ {0}
         /\ Cardinality(S \ {x}) = Cardinality(S) - 1
<1>1. IsFiniteSet(S \ {x}) /\ Cardinality(S) \in Nat /\ Cardinality(S \ {x}) \in Nat
  BY FS_RemoveElement, FS_CardinalityType
<1>2. Cardinality(S \ {x}) = Cardinality(S) - 1
  BY FS_RemoveElement
<1> QED BY <1>1, <1>2

(* Induction on finite sets: a family of sets that has the empty set, and  *)
(* every set whose parts without one element it has, has every set.        *)
LEMMA SetInduct ==
  ASSUME NEW S, IsFiniteSet(S), NEW G, {} \in G,
         \A s \in SUBSET S : s # {} /\ (\A x \in s : s \ {x} \in G) => s \in G
  PROVE  \A s \in SUBSET S : s \in G
<1> SUFFICES ASSUME NEW s0 \in SUBSET S, s0 \notin G PROVE FALSE
  OBVIOUS
<1> DEFINE Bad == {s \in SUBSET S : s \notin G}
           Sizes == {Cardinality(s) : s \in Bad}
<1>1. ASSUME NEW s \in SUBSET S PROVE IsFiniteSet(s) /\ Cardinality(s) \in Nat
  BY FS_Subset, FS_CardinalityType
<1>2. Sizes \in SUBSET Nat /\ Sizes # {}
  BY <1>1
<1>3. PICK m \in Sizes : \A k \in Sizes : m <= k
  <2> HIDE DEF Sizes
  <2> QED BY <1>2, LeastNat
<1>4. PICK s \in Bad : m = Cardinality(s)
  BY <1>3
<1>5. s # {} /\ s \in SUBSET S
  BY <1>4
<1>6. ASSUME NEW x \in s PROVE s \ {x} \in G
  <2>1. Cardinality(s) \in Nat /\ Cardinality(s \ {x}) = Cardinality(s) - 1
    BY <1>1, <1>5, OneLess
  <2>2. s \ {x} \in SUBSET S
    BY <1>5
  <2> SUFFICES ASSUME s \ {x} \notin G PROVE FALSE
    OBVIOUS
  <2>3. Cardinality(s \ {x}) \in Sizes
    BY <2>2
  <2>4. m <= Cardinality(s \ {x})
    BY <1>3, <2>3
  <2> QED BY <2>1, <2>4, <1>4
<1> QED BY <1>4, <1>5, <1>6

-----------------------------------------------------------------------------
(* Sums.                                                                   *)

Pick(s) == CHOOSE x \in s : TRUE
Sums(fun, sets, f) ==
  f = [s \in sets |-> IF s = {} THEN 0 ELSE fun[Pick(s)] + f[s \ {Pick(s)}]]

(* The recursion by which FoldFunctionOnSet adds up has a solution.        *)
LEMMA SumsExist ==
  ASSUME NEW fun, NEW S, IsFiniteSet(S)
  PROVE  \E f : Sums(fun, SUBSET S, f)
<1> DEFINE Small(n) == {s \in SUBSET S : Cardinality(s) <= n}
           Bad == {n \in Nat : ~ \E f : Sums(fun, Small(n), f)}
<1>1. ASSUME NEW s \in SUBSET S
      PROVE  /\ IsFiniteSet(s) /\ Cardinality(s) \in Nat /\ Cardinality(s) <= Cardinality(S)
             /\ Cardinality(S) \in Nat
  BY FS_Subset, FS_CardinalityType
<1>2. 0 \notin Bad
  <2>1. ASSUME NEW s \in Small(0) PROVE s = {}
    BY <1>1, <2>1, FS_EmptySet
  <2>2. Sums(fun, Small(0), [s \in Small(0) |-> 0])
    <3> HIDE DEF Small
    <3> QED BY <2>1 DEF Sums
  <2> HIDE DEF Small
  <2> QED BY <2>2
<1>3. ASSUME NEW n \in Nat, n \notin Bad PROVE n + 1 \notin Bad
  <2>1. PICK f : Sums(fun, Small(n), f)
    BY <1>3
  <2> DEFINE g == [s \in Small(n + 1) |->
                     IF s = {} THEN 0 ELSE fun[Pick(s)] + f[s \ {Pick(s)}]]
  <2>2. ASSUME NEW s \in Small(n + 1), s # {}
        PROVE  s \ {Pick(s)} \in Small(n) /\ s \ {Pick(s)} \in Small(n + 1)
    <3>1. Pick(s) \in s
      BY <2>2 DEF Pick
    <3>2. s \in SUBSET S /\ Cardinality(s) <= n + 1
      OBVIOUS
    <3>3. s \ {Pick(s)} \in SUBSET S /\ Cardinality(s \ {Pick(s)}) = Cardinality(s) - 1
          /\ Cardinality(s) \in Nat
      BY <1>1, <3>1, <3>2, OneLess
    <3> QED BY <3>2, <3>3
  <2>3. ASSUME NEW s \in Small(n) PROVE s \in Small(n + 1) /\ g[s] = f[s]
    <3>1. s \in Small(n + 1)
      BY <1>1
    <3> HIDE DEF Small
    <3> QED BY <2>1, <2>3, <3>1 DEF Sums
  <2>4. Sums(fun, Small(n + 1), g)
    <3>1. ASSUME NEW s \in Small(n + 1), s # {}
          PROVE  f[s \ {Pick(s)}] = g[s \ {Pick(s)}]
      <4> HIDE DEF Small, g
      <4> QED BY <2>2, <2>3, <3>1
    <3>2. g = [s \in Small(n + 1) |-> IF s = {} THEN 0 ELSE fun[Pick(s)] + g[s \ {Pick(s)}]]
      <4> HIDE DEF Small
      <4> QED BY <3>1
    <3> QED BY <3>2 DEF Sums
  <2> HIDE DEF Small, g
  <2> QED BY <2>4
<1>4. Bad = {}
  <2> SUFFICES ASSUME Bad # {} PROVE FALSE
    OBVIOUS
  <2>1. Bad \in SUBSET Nat
    OBVIOUS
  <2> HIDE DEF Bad
  <2>2. PICK m \in Bad : \A k \in Bad : m <= k
    BY <2>1, LeastNat
  <2>3. m \in Nat /\ m # 0 /\ m - 1 \in Nat /\ m - 1 \notin Bad
    BY <1>2, <2>1, <2>2
  <2> QED BY <1>3, <2>3
<1>5. Cardinality(S) \in Nat /\ Small(Cardinality(S)) = SUBSET S
  <2>1. Cardinality(S) \in Nat
    BY FS_CardinalityType
  <2> QED BY <1>1, <2>1
<1>6. Cardinality(S) \notin Bad
  <2> HIDE DEF Bad
  <2> QED BY <1>4
<1>7. \E f : Sums(fun, Small(Cardinality(S)), f)
  <2> HIDE DEF Small
  <2> QED BY <1>5, <1>6
<1> HIDE DEF Small, Bad
<1> QED BY <1>5, <1>7

(* Total is the value at S of such a solution.                             *)
LEMMA TotalIsSum ==
  ASSUME NEW fun, NEW S, IsFiniteSet(S)
  PROVE  \E f : Sums(fun, SUBSET S, f) /\ Total(fun, S) = f[S]
<1> DEFINE f == CHOOSE f : Sums(fun, SUBSET S, f)
<1>1. Sums(fun, SUBSET S, f)
  BY SumsExist
<1>2. Total(fun, S) = f[S]
  BY DEF Total, FoldFunctionOnSet, MapThenFoldSet, Sums, Pick
<1> QED BY <1>1, <1>2

(* Two solutions agree where both are defined.                             *)
LEMMA SumsAgree ==
  ASSUME NEW fun, NEW S, IsFiniteSet(S), NEW T \in SUBSET S, NEW f, NEW g,
         Sums(fun, SUBSET S, f), Sums(fun, SUBSET T, g)
  PROVE  f[T] = g[T]
<1> DEFINE G == {s \in SUBSET T : f[s] = g[s]}
<1>1. ASSUME NEW s \in SUBSET T
      PROVE  /\ f[s] = IF s = {} THEN 0 ELSE fun[Pick(s)] + f[s \ {Pick(s)}]
             /\ g[s] = IF s = {} THEN 0 ELSE fun[Pick(s)] + g[s \ {Pick(s)}]
  <2>1. s \in SUBSET S
    OBVIOUS
  <2> QED BY <2>1 DEF Sums
<1>2. {} \in G
  BY <1>1
<1>3. ASSUME NEW s \in SUBSET T, s # {}, \A x \in s : s \ {x} \in G PROVE s \in G
  <2>1. Pick(s) \in s
    BY <1>3 DEF Pick
  <2>2. f[s \ {Pick(s)}] = g[s \ {Pick(s)}]
    BY <1>3, <2>1
  <2> QED BY <1>1, <1>3, <2>2
<1>4. IsFiniteSet(T)
  BY FS_Subset
<1>5. T \in G
  <2> HIDE DEF G
  <2> QED BY <1>2, <1>3, <1>4, SetInduct
<1> QED BY <1>5

(* The equation of Total, with the element CHOOSE takes first.             *)
LEMMA TotalPick ==
  ASSUME NEW fun, NEW S, IsFiniteSet(S)
  PROVE  /\ S = {} => Total(fun, S) = 0
         /\ S # {} => /\ Pick(S) \in S
                      /\ Total(fun, S) = fun[Pick(S)] + Total(fun, S \ {Pick(S)})
<1>1. PICK f : Sums(fun, SUBSET S, f) /\ Total(fun, S) = f[S]
  BY TotalIsSum
<1>2. f[S] = IF S = {} THEN 0 ELSE fun[Pick(S)] + f[S \ {Pick(S)}]
  BY <1>1 DEF Sums
<1>3. CASE S = {}
  BY <1>1, <1>2, <1>3
<1>4. CASE S # {}
  <2> DEFINE T == S \ {Pick(S)}
  <2>1. Pick(S) \in S /\ IsFiniteSet(T) /\ T \in SUBSET S
    BY <1>4, FS_Subset DEF Pick
  <2> HIDE DEF T
  <2>2. PICK g : Sums(fun, SUBSET T, g) /\ Total(fun, T) = g[T]
    BY <2>1, TotalIsSum
  <2>3. f[T] = g[T]
    BY <1>1, <2>1, <2>2, SumsAgree
  <2> QED BY <1>1, <1>2, <1>4, <2>1, <2>2, <2>3 DEF T
<1> QED BY <1>3, <1>4

(* The sum over no element.                                                *)
LEMMA TotalEmpty == ASSUME NEW fun PROVE Total(fun, {}) = 0
<1>1. IsFiniteSet({})
  BY FS_EmptySet
<1> QED BY <1>1, TotalPick

(* A sum of integers is an integer.                                        *)
LEMMA TotalType ==
  ASSUME NEW fun, NEW S, IsFiniteSet(S), \A x \in S : fun[x] \in Int
  PROVE  \A s \in SUBSET S : Total(fun, s) \in Int
<1> DEFINE G == {s \in SUBSET S : Total(fun, s) \in Int}
<1>1. {} \in G
  BY TotalEmpty
<1>2. ASSUME NEW s \in SUBSET S, s # {}, \A x \in s : s \ {x} \in G PROVE s \in G
  <2>1. IsFiniteSet(s)
    BY FS_Subset
  <2>2. PICK p \in s : Total(fun, s) = fun[p] + Total(fun, s \ {p})
    <3>1. Pick(s) \in s /\ Total(fun, s) = fun[Pick(s)] + Total(fun, s \ {Pick(s)})
      BY <1>2, <2>1, TotalPick
    <3> QED BY <3>1
  <2> QED BY <1>2, <2>2
<1>3. \A s \in SUBSET S : s \in G
  <2> HIDE DEF G
  <2> QED BY <1>1, <1>2, SetInduct
<1> QED BY <1>3

(* Any element may be taken first.                                         *)
LEMMA TotalStep ==
  ASSUME NEW fun, NEW S, IsFiniteSet(S), \A x \in S : fun[x] \in Int
  PROVE  /\ Total(fun, S) \in Int
         /\ S = {} => Total(fun, S) = 0
         /\ \A x \in S : Total(fun, S) = fun[x] + Total(fun, S \ {x})
<1> DEFINE G == {s \in SUBSET S : /\ Total(fun, s) \in Int
                                 /\ \A x \in s : Total(fun, s) = fun[x] + Total(fun, s \ {x})}
<1>1. {} \in G
  BY TotalEmpty
<1>2. ASSUME NEW s \in SUBSET S, s # {}, \A x \in s : s \ {x} \in G PROVE s \in G
  <2>1. IsFiniteSet(s)
    BY FS_Subset
  <2>2. PICK p \in s : Total(fun, s) = fun[p] + Total(fun, s \ {p})
    <3>1. Pick(s) \in s /\ Total(fun, s) = fun[Pick(s)] + Total(fun, s \ {Pick(s)})
      BY <1>2, <2>1, TotalPick
    <3> QED BY <3>1
  <2>3. Total(fun, s \ {p}) \in Int /\ fun[p] \in Int /\ Total(fun, s) \in Int
    BY <1>2, <2>2
  <2>4. ASSUME NEW x \in s, x # p PROVE Total(fun, s) = fun[x] + Total(fun, s \ {x})
    <3>1. s \ {p} \in G /\ s \ {x} \in G /\ p \in s \ {x} /\ x \in s \ {p}
      BY <1>2, <2>4
    <3>2. Total(fun, s \ {p}) = fun[x] + Total(fun, (s \ {p}) \ {x})
      BY <3>1
    <3>3. Total(fun, s \ {x}) = fun[p] + Total(fun, (s \ {x}) \ {p})
      BY <3>1
    <3>4. (s \ {x}) \ {p} = (s \ {p}) \ {x}
      OBVIOUS
    <3> DEFINE a == fun[x]  b == fun[p]  c == Total(fun, (s \ {p}) \ {x})
               d == Total(fun, s \ {x})
    <3>5. (s \ {x}) \ {p} \in SUBSET S /\ a \in Int /\ b \in Int
      OBVIOUS
    <3>7. d \in Int /\ d = b + c /\ Total(fun, s) = b + (a + c)
      BY <2>2, <3>1, <3>2, <3>3, <3>4
    <3>8. c \in Int
      BY <3>5, TotalType
    <3> QED BY <3>5, <3>7, <3>8
  <2> QED BY <2>2, <2>3, <2>4
<1>3. \A s \in SUBSET S : s \in G
  <2> HIDE DEF G
  <2> QED BY <1>1, <1>2, SetInduct
<1> QED BY <1>3, TotalEmpty

(* A sum is made of the sums over a part and over the rest.                *)
LEMMA TotalSplit ==
  ASSUME NEW fun, NEW S, IsFiniteSet(S), \A x \in S : fun[x] \in Int,
         NEW A \in SUBSET S, NEW B \in SUBSET S, A = S \ B, B = S \ A
  PROVE  Total(fun, S) = Total(fun, A) + Total(fun, B)
<1> DEFINE G == {s \in SUBSET S : Total(fun, s) = Total(fun, s \cap A) + Total(fun, s \ A)}
<1>1. {} \in G
  <2>1. {} \cap A = {} /\ {} \ A = {}
    OBVIOUS
  <2> QED BY <2>1, TotalEmpty
<1>2. ASSUME NEW s \in SUBSET S, s # {}, \A x \in s : s \ {x} \in G PROVE s \in G
  <2>1. PICK x \in s : TRUE
    BY <1>2
  <2> DEFINE in == s \cap A  out == s \ A
  <2>2. /\ IsFiniteSet(s) /\ IsFiniteSet(in) /\ IsFiniteSet(out)
        /\ \A y \in s : fun[y] \in Int
    BY FS_Subset
  <2>3. /\ Total(fun, s) = fun[x] + Total(fun, s \ {x})
        /\ x \in A => Total(fun, in) = fun[x] + Total(fun, in \ {x})
        /\ x \notin A => Total(fun, out) = fun[x] + Total(fun, out \ {x})
    BY <2>1, <2>2, TotalStep
  <2>4. Total(fun, s \ {x}) = Total(fun, (s \ {x}) \cap A) + Total(fun, (s \ {x}) \ A)
    BY <1>2, <2>1
  <2>5. /\ in \in SUBSET S /\ in \ {x} \in SUBSET S
        /\ out \in SUBSET S /\ out \ {x} \in SUBSET S
    OBVIOUS
  <2>6. /\ Total(fun, in) \in Int /\ Total(fun, in \ {x}) \in Int
        /\ Total(fun, out) \in Int /\ Total(fun, out \ {x}) \in Int /\ fun[x] \in Int
    BY <2>2, <2>5, TotalType
  <2>7. (s \ {x}) \cap A = in \ {x} /\ (s \ {x}) \ A = out \ {x}
    OBVIOUS
  <2>8. x \notin A => in \ {x} = in
    OBVIOUS
  <2>9. x \in A => out \ {x} = out
    OBVIOUS
  <2> HIDE DEF in, out
  <2>10. Total(fun, s) = Total(fun, in) + Total(fun, out)
    <3>1. Total(fun, s) = fun[x] + (Total(fun, in \ {x}) + Total(fun, out \ {x}))
      BY <2>3, <2>4, <2>7
    <3>2. CASE x \in A
      <4>1. Total(fun, out \ {x}) = Total(fun, out)
        BY <3>2, <2>9
      <4>2. Total(fun, in) = fun[x] + Total(fun, in \ {x})
        BY <3>2, <2>3
      <4> QED BY <3>1, <4>1, <4>2, <2>6
    <3>3. CASE x \notin A
      <4>1. Total(fun, in \ {x}) = Total(fun, in)
        BY <3>3, <2>8
      <4>2. Total(fun, out) = fun[x] + Total(fun, out \ {x})
        BY <3>3, <2>3
      <4> QED BY <3>1, <4>1, <4>2, <2>6
    <3> QED BY <3>2, <3>3
  <2> QED BY <2>10 DEF in, out
<1>3. \A s \in SUBSET S : s \in G
  <2> HIDE DEF G
  <2> QED BY <1>1, <1>2, SetInduct
<1>4. S \cap A = A /\ S \ A = B
  OBVIOUS
<1> QED BY <1>3, <1>4

(* A sum is at least, or at most, its number of terms times a bound.       *)
LEMMA TotalBounds ==
  ASSUME NEW fun, NEW S, IsFiniteSet(S), \A x \in S : fun[x] \in Int, NEW c \in Int
  PROVE  /\ Total(fun, S) \in Int /\ Cardinality(S) \in Nat
         /\ (\A x \in S : fun[x] >= c) => Total(fun, S) >= Cardinality(S) * c
         /\ (\A x \in S : fun[x] <= c) => Total(fun, S) <= Cardinality(S) * c
<1> DEFINE G == {s \in SUBSET S :
                   /\ (\A x \in s : fun[x] >= c) => Total(fun, s) >= Cardinality(s) * c
                   /\ (\A x \in s : fun[x] <= c) => Total(fun, s) <= Cardinality(s) * c}
<1>1. {} \in G
  <2>1. Cardinality({}) = 0 /\ 0 * c = 0
    BY FS_EmptySet
  <2> QED BY <2>1, TotalEmpty
<1>2. ASSUME NEW s \in SUBSET S, s # {}, \A x \in s : s \ {x} \in G PROVE s \in G
  <2>1. PICK x \in s : TRUE
    BY <1>2
  <2> DEFINE n == Cardinality(s)  m == Cardinality(s \ {x})
             all == Total(fun, s)  less == Total(fun, s \ {x})
  <2>2. IsFiniteSet(s) /\ \A y \in s : fun[y] \in Int
    BY FS_Subset
  <2>3. all = fun[x] + less
    BY <2>1, <2>2, TotalStep
  <2>4. n \in Nat \ {0} /\ m = n - 1
    BY <2>1, <2>2, OneLess
  <2>5. all \in Int /\ less \in Int /\ fun[x] \in Int
    <3>1. s \ {x} \in SUBSET S
      OBVIOUS
    <3> QED BY <3>1, TotalType
  <2>6. s \ {x} \in G
    BY <1>2, <2>1
  <2>7. n * c = m * c + c
    <3> HIDE DEF n, m
    <3> QED BY <2>4
  <2>8. m * c \in Int /\ n * c \in Int
    <3> HIDE DEF n, m
    <3> QED BY <2>4
  <2>9. ASSUME \A y \in s : fun[y] >= c PROVE all >= n * c
    <3>1. less >= m * c /\ fun[x] >= c
      BY <2>6, <2>9
    <3> HIDE DEF all, less, n, m
    <3> QED BY <3>1, <2>3, <2>5, <2>7, <2>8
  <2>10. ASSUME \A y \in s : fun[y] <= c PROVE all <= n * c
    <3>1. less <= m * c /\ fun[x] <= c
      BY <2>6, <2>10
    <3> HIDE DEF all, less, n, m
    <3> QED BY <3>1, <2>3, <2>5, <2>7, <2>8
  <2> QED BY <2>9, <2>10
<1>3. \A s \in SUBSET S : s \in G
  <2> HIDE DEF G
  <2> QED BY <1>1, <1>2, SetInduct
<1>4. S \in G /\ Total(fun, S) \in Int /\ Cardinality(S) \in Nat
  <2> HIDE DEF G
  <2> QED BY <1>3, TotalType, FS_CardinalityType
<1> QED BY <1>4

-----------------------------------------------------------------------------
(* The greedy choice.                                                      *)

Costs == [Slots -> Int]

(* The stable order of hour_costs.                                         *)
Before(j, h, cost) == cost[j] < cost[h] \/ (cost[j] = cost[h] /\ j < h)

(* The hours of a day.                                                     *)
LEMMA SlotsAreFinite == IsFiniteSet(Slots) /\ Slots \subseteq Nat /\ Cardinality(Slots) = Hours
<1>1. Hours \in Nat \ {0} /\ 0 \in Int /\ Hours - 1 \in Int
  BY OptimizerAssumption
<1>2. IsFiniteSet(0..(Hours - 1)) /\ Cardinality(0..(Hours - 1)) = Hours
  <2>1. IsFiniteSet(0..(Hours - 1))
    BY <1>1, FS_Interval
  <2>2. Cardinality(0..(Hours - 1)) = IF 0 > Hours - 1 THEN 0 ELSE Hours - 1 - 0 + 1
    BY <1>1, FS_Interval
  <2> QED BY <1>1, <2>1, <2>2
<1> QED BY <1>1, <1>2 DEF Slots

(* It is a strict total order.                                             *)
LEMMA BeforeIsTotal ==
  ASSUME NEW cost \in Costs, NEW i \in Slots, NEW j \in Slots, NEW h \in Slots
  PROVE  /\ ~ Before(h, h, cost)
         /\ i = j \/ Before(i, j, cost) \/ Before(j, i, cost)
         /\ ~ (Before(i, j, cost) /\ Before(j, i, cost))
         /\ Before(i, j, cost) /\ Before(j, h, cost) => Before(i, h, cost)
<1>1. i \in Nat /\ j \in Nat /\ h \in Nat /\ cost[i] \in Int /\ cost[j] \in Int /\ cost[h] \in Int
  BY SlotsAreFinite DEF Costs
<1> QED BY <1>1 DEF Before

(* A set of hours has a last one in it.                                    *)
LEMMA LastExists ==
  ASSUME NEW cost \in Costs, NEW S \in SUBSET Slots, S # {}
  PROVE  \E x \in S : \A y \in S : y = x \/ Before(y, x, cost)
<1> DEFINE G == {s \in SUBSET S :
                   s # {} => \E x \in s : \A y \in s : y = x \/ Before(y, x, cost)}
<1>1. {} \in G
  OBVIOUS
<1>2. ASSUME NEW s \in SUBSET S, s # {}, \A x \in s : s \ {x} \in G PROVE s \in G
  <2>1. PICK x \in s : TRUE
    BY <1>2
  <2>2. CASE s \ {x} = {}
    BY <2>1, <2>2
  <2>3. CASE s \ {x} # {}
    <3>1. PICK z \in s \ {x} : \A y \in s \ {x} : y = z \/ Before(y, z, cost)
      BY <1>2, <2>1, <2>3
    <3>2. s \subseteq Slots
      OBVIOUS
    <3>3. CASE Before(x, z, cost)
      BY <3>1, <3>3
    <3>4. CASE Before(z, x, cost)
      <4>1. ASSUME NEW y \in s \ {x} PROVE Before(y, x, cost)
        BY <3>1, <3>2, <3>4, <2>1, BeforeIsTotal
      <4> QED BY <2>1, <4>1
    <3> QED BY <3>1, <3>2, <3>3, <3>4, <2>1, BeforeIsTotal
  <2> QED BY <2>2, <2>3
<1>3. IsFiniteSet(S)
  BY SlotsAreFinite, FS_Subset
<1>4. S \in G
  <2> HIDE DEF G
  <2> QED BY <1>1, <1>2, <1>3, SetInduct
<1> QED BY <1>4

Ahead(h, S, cost) == {j \in S : Before(j, h, cost)}

(* Cheapest counts the hours ahead of one.                                 *)
LEMMA CheapestIs ==
  ASSUME NEW S, NEW n, NEW cost
  PROVE  Cheapest(S, n, cost) = {h \in S : Cardinality(Ahead(h, S, cost)) < n}
BY DEF Cheapest, Ahead, Before

(* Sets of hours can be counted.                                           *)
LEMMA AheadIsFinite ==
  ASSUME NEW S \in SUBSET Slots, NEW h, NEW cost
  PROVE  /\ IsFiniteSet(S) /\ Cardinality(S) \in Nat
         /\ IsFiniteSet(Ahead(h, S, cost)) /\ Cardinality(Ahead(h, S, cost)) \in Nat
         /\ Ahead(h, S, cost) \subseteq S
<1>1. Ahead(h, S, cost) \subseteq S
  BY DEF Ahead
<1> QED BY <1>1, SlotsAreFinite, FS_Subset, FS_CardinalityType

(* Cheapest takes n hours of S, or all of them when S has fewer.           *)
LEMMA CheapestCount ==
  ASSUME NEW cost \in Costs, NEW S \in SUBSET Slots, NEW n \in Nat
  PROVE  /\ Cheapest(S, n, cost) \subseteq S
         /\ Cardinality(Cheapest(S, n, cost)) = Below(n, Cardinality(S))
<1> DEFINE G == {s \in SUBSET S : Cardinality(Cheapest(s, n, cost)) = Below(n, Cardinality(s))}
<1>1. {} \in G
  <2>1. Cheapest({}, n, cost) = {}
    BY DEF Cheapest
  <2> QED BY <2>1, FS_EmptySet DEF Below
<1>2. ASSUME NEW s \in SUBSET S, s # {}, \A x \in s : s \ {x} \in G PROVE s \in G
  <2>1. s \in SUBSET Slots
    OBVIOUS
  <2>2. PICK x \in s : \A y \in s : y = x \/ Before(y, x, cost)
    BY <1>2, <2>1, LastExists
  <2> DEFINE t == s \ {x}
  <2>3. Ahead(x, s, cost) = t
    BY <2>1, <2>2, BeforeIsTotal DEF Ahead
  <2>4. ASSUME NEW h \in t PROVE Ahead(h, s, cost) = Ahead(h, t, cost)
    BY <2>1, <2>2, BeforeIsTotal DEF Ahead
  <2>5. IsFiniteSet(s) /\ Cardinality(s) \in Nat \ {0} /\ Cardinality(t) = Cardinality(s) - 1
    BY <2>1, <2>2, AheadIsFinite, OneLess
  <2>6. Cardinality(Cheapest(t, n, cost)) = Below(n, Cardinality(t))
    BY <1>2, <2>2
  <2> DEFINE c == Cheapest(t, n, cost)
  <2>7. x \notin c /\ IsFiniteSet(c)
    BY <2>1, FS_Subset, SlotsAreFinite, CheapestIs
  <2>8. CASE Cardinality(t) < n
    <3>1. Cheapest(s, n, cost) = c \cup {x}
      BY <2>3, <2>4, <2>8, <2>2, CheapestIs
    <3>2. Cardinality(c \cup {x}) = Cardinality(c) + 1
      BY <2>7, FS_AddElement
    <3>3. Cardinality(c) = Cardinality(t)
      <4> HIDE DEF t
      <4> QED BY <2>5, <2>6, <2>8 DEF Below
    <3>4. Cardinality(Cheapest(s, n, cost)) = Cardinality(s)
      <4> HIDE DEF t, c
      <4> QED BY <3>1, <3>2, <3>3, <2>5
    <3>5. Below(n, Cardinality(s)) = Cardinality(s)
      <4> HIDE DEF t
      <4> QED BY <2>5, <2>8 DEF Below
    <3> QED BY <3>4, <3>5
  <2>9. CASE ~ (Cardinality(t) < n)
    <3>1. Cheapest(s, n, cost) = c
      BY <2>3, <2>4, <2>9, <2>2, CheapestIs
    <3> HIDE DEF t, c
    <3> QED BY <3>1, <2>5, <2>6, <2>9 DEF Below, c
  <2> QED BY <2>8, <2>9
<1>3. IsFiniteSet(S)
  BY SlotsAreFinite, FS_Subset
<1>4. \A s \in SUBSET S : s \in G
  <2> HIDE DEF G
  <2> QED BY <1>1, <1>2, <1>3, SetInduct
<1> QED BY <1>4, CheapestIs

(* No hour left out is cheaper than one taken.                             *)
LEMMA CheapestIsCheap ==
  ASSUME NEW cost \in Costs, NEW S \in SUBSET Slots, NEW n \in Nat,
         NEW h \in Cheapest(S, n, cost), NEW k \in S \ Cheapest(S, n, cost)
  PROVE  cost[h] <= cost[k]
<1>1. h \in Slots /\ k \in Slots /\ cost[h] \in Int /\ cost[k] \in Int
  BY CheapestIs DEF Costs
<1>2. Cardinality(Ahead(h, S, cost)) < n /\ ~ (Cardinality(Ahead(k, S, cost)) < n)
  BY CheapestIs
<1> SUFFICES ASSUME Before(k, h, cost) PROVE FALSE
  BY <1>1 DEF Before
<1>3. Ahead(k, S, cost) \subseteq Ahead(h, S, cost)
  BY <1>1, BeforeIsTotal DEF Ahead
<1>4. Cardinality(Ahead(k, S, cost)) <= Cardinality(Ahead(h, S, cost))
  BY <1>3, AheadIsFinite, FS_Subset
<1> QED BY <1>2, <1>4, AheadIsFinite

-----------------------------------------------------------------------------
(* The greedy plan.                                                        *)

Hourly == [Slots -> Nat]

(* Costs are integers, being scaled.                                       *)
LEMMA CostType ==
  ASSUME NEW prices \in Hourly, NEW sun \in Hourly
  PROVE  Cost(prices, sun) \in Costs
<1>1. PccImport \in Nat
  BY OptimizerAssumption
<1>2. ASSUME NEW h \in Slots
      PROVE  2 * PccImport * prices[h] - Below(sun[h], PccImport) * prices[h] \in Int
  <2>1. prices[h] \in Nat /\ sun[h] \in Nat
    BY DEF Hourly
  <2>2. Below(sun[h], PccImport) \in Nat
    BY <1>1, <2>1 DEF Below
  <2> DEFINE p == prices[h]  b == Below(sun[h], PccImport)
  <2> HIDE DEF b
  <2>3. b * p \in Int /\ 2 * PccImport * p \in Int
    BY <1>1, <2>1, <2>2 DEF b
  <2> QED BY <2>3 DEF b
<1> QED BY <1>2 DEF Cost, Costs

(* The numbers of a device.                                                *)
LEMMA DevType ==
  ASSUME NEW d \in Devs
  PROVE  /\ DeviceList[d].min \in Nat /\ DeviceList[d].max \in Nat
         /\ DeviceList[d].min <= DeviceList[d].max /\ DeviceList[d].must_run \in Nat
         /\ ToFill(DeviceList[d]) \in Nat
<1>1. DeviceList[d] \in Device /\ DeviceList[d].min <= DeviceList[d].max
  BY OptimizerAssumption DEF Devs
<1> QED BY <1>1, OptimizerAssumption DEF Device, ToFill

Both(dev, cost) == FirstPass(dev, cost) \cup SecondPass(dev, cost)

(* The first pass takes hours of the window, the second fills up from the  *)
(* rest of the day, and only when the window was too short.                *)
LEMMA PassesFill ==
  ASSUME NEW d \in Devs, NEW cost \in Costs
  PROVE  LET dev == DeviceList[d]
             pref == InPreferred(dev)
         IN  /\ pref \subseteq Slots /\ FirstPass(dev, cost) \subseteq pref
             /\ Both(dev, cost) \subseteq Slots
             /\ Both(dev, cost) \cap pref = FirstPass(dev, cost)
             /\ dev.min < dev.max =>
                  Cardinality(Both(dev, cost)) = Below(ToFill(dev), Hours)
<1> DEFINE dev == DeviceList[d]
           pref == InPreferred(dev)
           n == ToFill(dev)
           first == FirstPass(dev, cost)
           left == {h \in Slots \ first : dev.min < dev.max}
           second == SecondPass(dev, cost)
           m == n - Cardinality(first)
<1>1. n \in Nat /\ Hours \in Nat
  BY DevType, OptimizerAssumption
<1>2. pref \in SUBSET Slots /\ left \in SUBSET Slots
  BY DEF InPreferred
<1>3. first \subseteq pref /\ Cardinality(first) = Below(n, Cardinality(pref))
  <2>1. first = Cheapest(pref, n, cost)
    BY DEF FirstPass
  <2> HIDE DEF pref, n, first
  <2> QED BY <1>1, <1>2, <2>1, CheapestCount
<1>4. IsFiniteSet(pref) /\ Cardinality(pref) \in Nat /\ m \in Nat
      /\ IsFiniteSet(first) /\ Cardinality(first) \in Nat
  <2>1. IsFiniteSet(pref) /\ Cardinality(pref) \in Nat
    BY <1>2, AheadIsFinite
  <2>2. IsFiniteSet(first) /\ Cardinality(first) \in Nat
    BY <1>3, <2>1, FS_Subset, FS_CardinalityType
  <2> HIDE DEF n, first, pref
  <2> QED BY <1>1, <1>3, <2>1, <2>2 DEF Below
<1>5. second \subseteq left /\ Cardinality(second) = Below(m, Cardinality(left))
  <2>1. second = Cheapest(left, m, cost)
    BY DEF SecondPass
  <2> HIDE DEF left, m, second
  <2> QED BY <1>2, <1>4, <2>1, CheapestCount
<1>6. second \cap first = {} /\ IsFiniteSet(second) /\ Cardinality(second) \in Nat
      /\ IsFiniteSet(left) /\ Cardinality(left) \in Nat
  <2>1. IsFiniteSet(left) /\ Cardinality(left) \in Nat
    BY <1>2, AheadIsFinite
  <2>2. IsFiniteSet(second) /\ Cardinality(second) \in Nat
    BY <1>5, <2>1, FS_Subset, FS_CardinalityType
  <2> HIDE DEF first, second
  <2> QED BY <1>5, <2>1, <2>2
<1>7. second \cap pref = {}
  <2>1. CASE Cardinality(pref) <= n
    <3>1. Cardinality(first) = Cardinality(pref)
      <4> HIDE DEF n, first, pref
      <4> QED BY <1>1, <1>3, <1>4, <2>1 DEF Below
    <3>2. first = pref
      <4> HIDE DEF n, first, pref
      <4> QED BY <1>3, <1>4, <3>1, FS_Subset
    <3> HIDE DEF first, second, pref
    <3> QED BY <3>2, <1>6
  <2>2. CASE ~ (Cardinality(pref) <= n)
    <3>1. m = 0
      <4> HIDE DEF n, first, pref
      <4> QED BY <1>1, <1>3, <1>4, <2>2 DEF Below
    <3>2. Cardinality(second) = 0
      <4> HIDE DEF m, second, left
      <4> QED BY <1>5, <1>6, <3>1 DEF Below
    <3>3. second = {}
      <4> HIDE DEF second
      <4> QED BY <1>6, <3>2, FS_EmptySet
    <3> QED BY <3>3
  <2> QED BY <2>1, <2>2
<1>8. ASSUME dev.min < dev.max PROVE Cardinality(first \cup second) = Below(n, Hours)
  <2>1. left = Slots \ first
    BY <1>8
  <2>2. first \subseteq Slots
    <3> HIDE DEF first, pref
    <3> QED BY <1>2, <1>3
  <2>3. Cardinality(left) = Hours - Cardinality(first) /\ Cardinality(first) <= Hours
    <3>1. Cardinality(Slots \ first) = Cardinality(Slots) - Cardinality(Slots \cap first)
      <4> HIDE DEF first
      <4> QED BY SlotsAreFinite, <1>4, FS_Difference
    <3>2. Slots \cap first = first /\ Cardinality(first) <= Cardinality(Slots)
      <4> HIDE DEF first
      <4> QED BY <2>2, SlotsAreFinite, FS_Subset
    <3> HIDE DEF first, left
    <3> QED BY <2>1, <3>1, <3>2, SlotsAreFinite
  <2>4. Cardinality(first \cup second) = Cardinality(first) + Cardinality(second)
    <3>1. Cardinality(first \cup second)
            = Cardinality(first) + Cardinality(second) - Cardinality(first \cap second)
      <4> HIDE DEF first, second
      <4> QED BY <1>4, <1>6, FS_Union
    <3>2. Cardinality(first \cap second) = 0
      <4> HIDE DEF first, second
      <4> QED BY <1>6, FS_EmptySet
    <3> HIDE DEF first, second
    <3> QED BY <1>4, <1>6, <3>1, <3>2
  <2>5. Cardinality(second) = Below(n - Cardinality(first), Hours - Cardinality(first))
    <3> HIDE DEF left, second, n, first
    <3> QED BY <1>5, <2>3
  <2> HIDE DEF first, second, n
  <2> QED BY <1>1, <1>4, <1>6, <2>3, <2>4, <2>5 DEF Below
<1>9. first \cup second = Both(dev, cost)
  BY DEF Both
<1>10. first \cup second \subseteq Slots /\ (first \cup second) \cap pref = first
  <2> HIDE DEF first, second, pref, left
  <2>1. left \subseteq Slots
    BY <1>2
  <2> QED BY <1>2, <1>3, <1>5, <1>7, <2>1
<1> QED BY <1>2, <1>3, <1>8, <1>9, <1>10

(* The power of a device: all of it in the hours of both passes.           *)
LEMMA GreedyIs ==
  ASSUME NEW d \in Devs, NEW prices \in Hourly, NEW sun \in Hourly
  PROVE  LET dev == DeviceList[d]
         IN  Greedy(prices, sun)[d] =
               [h \in Slots |-> IF h \in Both(dev, Cost(prices, sun)) THEN dev.max ELSE dev.min]
BY DEF Greedy, Both

(* The greedy plan gives every device its hours of full power.             *)
LEMMA GreedyMeetsMustRun ==
  ASSUME NEW d \in Devs, NEW prices \in Hourly, NEW sun \in Hourly
  PROVE  Total(Greedy(prices, sun)[d], Slots) >=
           Below(DeviceList[d].must_run, Hours) * DeviceList[d].max
<1> DEFINE dev == DeviceList[d]
           power == Greedy(prices, sun)[d]
           full == Both(dev, Cost(prices, sun))
           need == Below(dev.must_run, Hours)
<1>1. /\ dev.min \in Nat /\ dev.max \in Nat /\ dev.min <= dev.max
      /\ dev.must_run \in Nat /\ Hours \in Nat /\ need \in Nat
  BY DevType, OptimizerAssumption DEF Below
<1>2. power = [h \in Slots |-> IF h \in full THEN dev.max ELSE dev.min]
  BY GreedyIs
<1>3. IsFiniteSet(Slots) /\ Cardinality(Slots) = Hours
  BY SlotsAreFinite
<1>4. full \subseteq Slots /\ (dev.min < dev.max => Cardinality(full) = Below(ToFill(dev), Hours))
  BY CostType, PassesFill
<1> HIDE DEF power, full
<1>5. \A h \in Slots : power[h] \in Nat
  BY <1>1, <1>2
<1>6. CASE dev.min = dev.max
  <2>1. \A h \in Slots : power[h] >= dev.max
    BY <1>1, <1>2, <1>6
  <2>2. Total(power, Slots) >= Hours * dev.max /\ Total(power, Slots) \in Int
    BY <1>1, <1>3, <1>5, <2>1, TotalBounds
  <2>3. Hours * dev.max >= need * dev.max
    <3>1. need <= Hours
      BY <1>1 DEF Below
    <3> HIDE DEF need, dev
    <3>2. PICK k \in Nat : Hours = need + k
      <4>1. Hours - need \in Nat /\ Hours = need + (Hours - need)
        BY <1>1, <3>1
      <4> QED BY <4>1
    <3>3. Hours * dev.max = need * dev.max + k * dev.max /\ k * dev.max \in Nat
          /\ need * dev.max \in Nat
      BY <1>1, <3>2
    <3> QED BY <3>3
  <2>4. need * dev.max \in Int /\ Hours * dev.max \in Int
    <3> HIDE DEF need, dev
    <3> QED BY <1>1
  <2> HIDE DEF need, dev
  <2>5. Total(power, Slots) >= need * dev.max
    BY <2>2, <2>3, <2>4
  <2> QED BY <2>5 DEF need, dev, power
<1>7. CASE dev.min < dev.max
  <2>1. IsFiniteSet(full) /\ Cardinality(full) \in Nat /\ IsFiniteSet(Slots \ full)
    BY <1>3, <1>4, FS_Subset, FS_CardinalityType
  <2>2. Total(power, Slots) = Total(power, full) + Total(power, Slots \ full)
    <3> DEFINE rest == Slots \ full
    <3>1. full \in SUBSET Slots /\ rest \in SUBSET Slots /\ full = Slots \ rest
      BY <1>4
    <3>2. rest = Slots \ full
      OBVIOUS
    <3> HIDE DEF rest
    <3> QED BY <1>3, <1>5, <3>1, <3>2, TotalSplit
  <2>3. Total(power, full) >= Cardinality(full) * dev.max /\ Total(power, full) \in Int
    <3>1. \A h \in full : power[h] \in Int /\ power[h] >= dev.max
      BY <1>1, <1>2, <1>4
    <3> QED BY <1>1, <2>1, <3>1, TotalBounds
  <2>4. Total(power, Slots \ full) >= 0 /\ Total(power, Slots \ full) \in Int
    <3>1. \A h \in Slots \ full : power[h] \in Int /\ power[h] >= 0
      BY <1>5
    <3>2. Total(power, Slots \ full) >= Cardinality(Slots \ full) * 0
          /\ Total(power, Slots \ full) \in Int /\ Cardinality(Slots \ full) \in Nat
      BY <2>1, <3>1, TotalBounds
    <3> QED BY <3>2
  <2>5. Cardinality(full) * dev.max >= need * dev.max
    <3>1. CASE dev.must_run = 0
      <4>1. need = 0
        BY <1>1, <3>1 DEF Below
      <4> HIDE DEF need, dev
      <4>2. need * dev.max = 0 /\ Cardinality(full) * dev.max \in Nat
        BY <1>1, <2>1, <4>1
      <4> QED BY <4>2
    <3>2. CASE dev.must_run # 0
      <4>1. ToFill(dev) = dev.must_run
        BY <3>2 DEF ToFill
      <4>2. Cardinality(full) = need
        BY <1>4, <1>7, <4>1
      <4>3. need * dev.max \in Nat
        <5> HIDE DEF need, dev
        <5> QED BY <1>1
      <4> HIDE DEF need, dev
      <4> QED BY <4>2, <4>3
    <3> QED BY <3>1, <3>2
  <2>6. Cardinality(full) * dev.max \in Int /\ need * dev.max \in Int
    <3> HIDE DEF need, dev
    <3> QED BY <1>1, <2>1
  <2> HIDE DEF need, dev
  <2>7. Total(power, Slots) >= need * dev.max
    BY <2>2, <2>3, <2>4, <2>5, <2>6
  <2> QED BY <2>7 DEF need, dev, power
<1> QED BY <1>1, <1>6, <1>7

(* A plan of the MILP has them by its constraint.                          *)
LEMMA MilpMeetsMustRun ==
  ASSUME NEW d \in Devs, NEW sun, NEW power \in MilpPlans(sun)
  PROVE  Total(power[d], Slots) >= Below(DeviceList[d].must_run, Hours) * DeviceList[d].max
<1> DEFINE dev == DeviceList[d]
           need == Below(dev.must_run, Hours)
           all == Total(power[d], Slots)
<1>1. power[d] \in DevicePlans(dev)
  BY DEF MilpPlans, OwnPlans
<1>2. power[d] \in [Slots -> Levels] /\ all >= dev.must_run * dev.max
  BY <1>1 DEF DevicePlans, MustRun
<1>3. all \in Int
  <2>1. \A h \in Slots : power[d][h] \in Int
    <3>1. Levels \subseteq Int
      BY OptimizerAssumption
    <3> DEFINE p == power[d]
    <3>2. p \in [Slots -> Levels]
      BY <1>2
    <3> HIDE DEF p
    <3>3. \A h \in Slots : p[h] \in Int
      BY <3>1, <3>2
    <3> QED BY <3>3 DEF p
  <2> QED BY <2>1, SlotsAreFinite, TotalType
<1>4. dev.max \in Nat /\ dev.must_run \in Nat /\ need \in Nat /\ need <= dev.must_run
  BY DevType, OptimizerAssumption DEF Below
<1> HIDE DEF dev, need, all
<1>5. PICK k \in Nat : dev.must_run = need + k
  <2>1. dev.must_run - need \in Nat /\ dev.must_run = need + (dev.must_run - need)
    BY <1>4
  <2> QED BY <2>1
<1>6. /\ dev.must_run * dev.max = need * dev.max + k * dev.max
      /\ k * dev.max \in Nat /\ need * dev.max \in Nat
  BY <1>4, <1>5
<1>7. all >= need * dev.max
  BY <1>2, <1>3, <1>6
<1> QED BY <1>7 DEF all, need, dev

(* Exchanging hours for as many dearer ones saves nothing.                 *)
LEMMA ExchangeCosts ==
  ASSUME NEW cost \in Costs, NEW S \in SUBSET Slots, NEW best \in SUBSET S,
         \A a \in best : \A b \in S \ best : cost[a] <= cost[b],
         NEW other \in SUBSET S, Cardinality(other) = Cardinality(best)
  PROVE  Total(cost, best) <= Total(cost, other)
<1> DEFINE A == best \ other
           B == other \ best
           C == best \cap other
<1>1. best \subseteq S
  OBVIOUS
<1>2. \A a \in best : \A b \in S \ best : cost[a] <= cost[b]
  OBVIOUS
<1>3. /\ IsFiniteSet(S) /\ IsFiniteSet(best) /\ IsFiniteSet(other)
      /\ IsFiniteSet(A) /\ IsFiniteSet(B) /\ IsFiniteSet(C)
  BY <1>1, SlotsAreFinite, FS_Subset
<1>4. \A x \in S : cost[x] \in Int
  BY DEF Costs
<1>5. Total(cost, best) = Total(cost, C) + Total(cost, A)
  <2>1. C \in SUBSET best /\ A \in SUBSET best /\ C = best \ A /\ A = best \ C
    OBVIOUS
  <2>2. \A x \in best : cost[x] \in Int
    BY <1>1, <1>4
  <2> HIDE DEF A, B, C
  <2> QED BY <1>3, <2>1, <2>2, TotalSplit
<1>6. Total(cost, other) = Total(cost, C) + Total(cost, B)
  <2>1. C \in SUBSET other /\ B \in SUBSET other /\ C = other \ B /\ B = other \ C
    OBVIOUS
  <2>2. \A x \in other : cost[x] \in Int
    BY <1>4
  <2> HIDE DEF A, B, C
  <2> QED BY <1>3, <2>1, <2>2, TotalSplit
<1>7. Cardinality(A) = Cardinality(B) /\ Cardinality(A) \in Nat
  <2>1. Cardinality(A) = Cardinality(best) - Cardinality(C)
    BY <1>3, FS_Difference
  <2>2. Cardinality(B) = Cardinality(other) - Cardinality(other \cap best)
    BY <1>3, FS_Difference
  <2>3. other \cap best = C /\ Cardinality(best) \in Nat /\ Cardinality(C) \in Nat
    BY <1>3, FS_CardinalityType
  <2>4. Cardinality(A) \in Nat
    BY <1>3, FS_CardinalityType
  <2> QED BY <2>1, <2>2, <2>3, <2>4
<1>8. Total(cost, A) <= Total(cost, B) /\ Total(cost, A) \in Int /\ Total(cost, B) \in Int
      /\ Total(cost, C) \in Int
  <2>1. /\ Total(cost, A) \in Int /\ Total(cost, B) \in Int /\ Total(cost, C) \in Int
    <3>1. A \in SUBSET S /\ B \in SUBSET S /\ C \in SUBSET S
      BY <1>1
    <3> HIDE DEF A, B, C
    <3> QED BY <1>3, <1>4, <3>1, TotalType
  <2>2. CASE A = {}
    <3>1. B = {}
      <4>1. Cardinality(B) = 0
        BY <1>7, <2>2, FS_EmptySet
      <4> HIDE DEF B
      <4> QED BY <1>3, <4>1, FS_EmptySet
    <3> HIDE DEF A, B
    <3>2. Total(cost, A) = Total(cost, B)
      BY <2>2, <3>1
    <3> QED BY <2>1, <3>2
  <2>3. CASE A # {}
    <3>1. PICK x \in A : \A y \in A : y = x \/ Before(y, x, cost)
      <4>1. A \in SUBSET Slots
        BY <1>1
      <4> HIDE DEF A
      <4> QED BY <2>3, <4>1, LastExists
    <3>2. cost[x] \in Int /\ \A y \in A : cost[y] \in Int /\ cost[y] <= cost[x]
      BY <1>1, <1>4, <3>1 DEF Before
    <3>3. \A y \in B : cost[y] \in Int /\ cost[y] >= cost[x]
      BY <1>1, <1>2, <1>4
    <3> DEFINE c == cost[x]
    <3> HIDE DEF A, B, c
    <3>4. Total(cost, A) <= Cardinality(A) * c
      BY <1>3, <3>2, TotalBounds DEF c
    <3>5. Total(cost, B) >= Cardinality(B) * c
      BY <1>3, <3>2, <3>3, TotalBounds DEF c
    <3>6. Cardinality(A) * c \in Int
      BY <1>7, <3>2 DEF c
    <3> QED BY <1>7, <2>1, <3>4, <3>5, <3>6
  <2> QED BY <2>1, <2>2, <2>3
<1> HIDE DEF A, B, C
<1> QED BY <1>5, <1>6, <1>8(* The greedy solver uses the cheapest hours of a device's window.         *)
LEMMA GreedyIsCheapest ==
  ASSUME NEW d \in Devs, NEW prices \in Hourly, NEW sun \in Hourly,
         DeviceList[d].min < DeviceList[d].max,
         NEW other \in SUBSET InPreferred(DeviceList[d])
  PROVE  LET power == Greedy(prices, sun)[d]
             cost == Cost(prices, sun)
             used == {h \in Slots : power[h] = DeviceList[d].max}
                        \cap InPreferred(DeviceList[d])
         IN  Cardinality(other) = Cardinality(used) => Total(cost, used) <= Total(cost, other)
<1> DEFINE dev == DeviceList[d]
           pref == InPreferred(dev)
           cost == Cost(prices, sun)
           power == Greedy(prices, sun)[d]
           full == Both(dev, cost)
           first == FirstPass(dev, cost)
           used == {h \in Slots : power[h] = dev.max} \cap pref
<1>1. dev.min \in Nat /\ dev.max \in Nat /\ dev.min < dev.max
  BY DevType
<1>2. power = [h \in Slots |-> IF h \in full THEN dev.max ELSE dev.min]
  BY GreedyIs
<1>3. cost \in Costs
  BY CostType
<1>4. pref \subseteq Slots /\ full \subseteq Slots /\ full \cap pref = first /\ first \subseteq pref
  <2> HIDE DEF cost
  <2> QED BY <1>3, PassesFill
<1>5. used = first
  <2>1. {h \in Slots : power[h] = dev.max} = full
    <3> HIDE DEF power, full, dev
    <3> QED BY <1>1, <1>2, <1>4
  <2> HIDE DEF power, full
  <2> QED BY <1>4, <2>1
<1>6. first = Cheapest(pref, ToFill(dev), cost) /\ ToFill(dev) \in Nat
  BY DevType DEF FirstPass
<1>7. \A a \in first : \A b \in pref \ first : cost[a] <= cost[b]
  <2> DEFINE n == ToFill(dev)
  <2> HIDE DEF pref, first, n, cost
  <2> QED BY <1>3, <1>4, <1>6, CheapestIsCheap DEF n
<1>8. Cardinality(other) = Cardinality(first) => Total(cost, first) <= Total(cost, other)
  <2> HIDE DEF cost, pref, first
  <2>1. other \in SUBSET pref
    BY DEF pref
  <2> QED BY <1>3, <1>4, <1>7, <2>1, ExchangeCosts
<1> HIDE DEF used, first, cost
<1>9. Cardinality(other) = Cardinality(used) => Total(cost, used) <= Total(cost, other)
  BY <1>5, <1>8
<1> QED BY <1>9 DEF used, cost

-----------------------------------------------------------------------------
(* Prices.                                                                 *)

(* The clock and the forecasts.                                            *)
WorldInv == now \in 0..MaxHour /\ forecast \in Forecasts /\ pv \in PvForecasts

(* j is the last hour, up to h, of which the forecast knows the price.     *)
LastKnown(j, h) ==
  forecast[now + j] # None /\ \A k \in (j + 1)..h : forecast[now + k] = None
NoneKnown(h) == \A j \in 0..h : forecast[now + j] = None

(* The forecasts reach as far as a plan looks.                             *)
LEMMA HoursInForecast ==
  ASSUME WorldInv, NEW h \in Slots
  PROVE  h \in Nat /\ h < Hours /\ now + h \in 0..(MaxHour + Hours) /\ now \in Nat
         /\ forecast[now + h] \in Nat \cup {None} /\ pv[now + h] \in Nat /\ Fallback \in Nat
<1>1. Hours \in Nat /\ MaxHour \in Nat /\ Fallback \in Nat
  BY OptimizerAssumption
<1>2. h \in Nat /\ h < Hours /\ now + h \in 0..(MaxHour + Hours) /\ now \in Nat
  BY <1>1 DEF WorldInv, Slots
<1>3. /\ forecast \in [0..(MaxHour + Hours) -> Nat \cup {None}]
      /\ pv \in [0..(MaxHour + Hours) -> Nat]
  BY OptimizerAssumption DEF WorldInv
<1> QED BY <1>1, <1>2, <1>3

(* There is such an hour unless no price is known at all, and only one.    *)
LEMMA LastKnownExists ==
  ASSUME WorldInv, NEW h \in Slots
  PROVE  /\ NoneKnown(h) \/ \E j \in 0..h : LastKnown(j, h)
         /\ \A i, j \in 0..h : LastKnown(i, h) /\ LastKnown(j, h) => i = j
<1>1. h \in Nat /\ now \in Nat
  BY HoursInForecast
<1>2. ASSUME ~ NoneKnown(h) PROVE \E j \in 0..h : LastKnown(j, h)
  <2> DEFINE Back == {h - j : j \in {i \in 0..h : forecast[now + i] # None}}
  <2>1. Back \in SUBSET Nat /\ Back # {}
    BY <1>1, <1>2 DEF NoneKnown
  <2>2. PICK m \in Back : \A b \in Back : m <= b
    <3> HIDE DEF Back
    <3> QED BY <2>1, LeastNat
  <2>3. PICK j \in 0..h : m = h - j /\ forecast[now + j] # None
    BY <2>2
  <2>4. ASSUME NEW k \in (j + 1)..h PROVE forecast[now + k] = None
    <3> SUFFICES ASSUME forecast[now + k] # None PROVE FALSE
      OBVIOUS
    <3>1. k \in 0..h /\ k > j
      BY <1>1, <2>3
    <3>2. h - k \in Back
      BY <3>1
    <3> HIDE DEF Back
    <3>3. m <= h - k
      BY <2>2, <3>2
    <3> QED BY <1>1, <2>3, <3>1, <3>3
  <2> QED BY <2>3, <2>4 DEF LastKnown
<1>3. ASSUME NEW i \in 0..h, NEW j \in 0..h, LastKnown(i, h), LastKnown(j, h) PROVE i = j
  <2>1. ~ (i < j)
    BY <1>1, <1>3 DEF LastKnown
  <2>2. ~ (j < i)
    BY <1>1, <1>3 DEF LastKnown
  <2> QED BY <1>1, <2>1, <2>2
<1> QED BY <1>2, <1>3

SeriesOf(last) ==
  last = [h \in Slots |-> IF forecast[now + h] # None THEN forecast[now + h]
                          ELSE IF h = 0 THEN Fallback ELSE last[h - 1]]

(* The recursion of Series has a solution.                                 *)
LEMMA SeriesExists == ASSUME WorldInv PROVE \E last : SeriesOf(last)
<1> DEFINE At(h) == CHOOSE j \in 0..h : LastKnown(j, h)
           g == [h \in Slots |-> IF NoneKnown(h) THEN Fallback ELSE forecast[now + At(h)]]
<1>1. ASSUME NEW h \in Slots, forecast[now + h] # None PROVE g[h] = forecast[now + h]
  <2>1. h \in Nat /\ h \in 0..h
    BY HoursInForecast
  <2>2. LastKnown(h, h) /\ ~ NoneKnown(h)
    BY <1>1, <2>1 DEF LastKnown, NoneKnown
  <2>3. At(h) \in 0..h /\ LastKnown(At(h), h)
    BY <2>1, <2>2
  <2>4. At(h) = h
    <3> HIDE DEF At
    <3> QED BY <2>1, <2>2, <2>3, LastKnownExists
  <2> HIDE DEF At
  <2> QED BY <2>2, <2>4
<1>2. ASSUME NEW h \in Slots, forecast[now + h] = None, h = 0 PROVE g[h] = Fallback
  BY <1>2, HoursInForecast DEF NoneKnown
<1>3. ASSUME NEW h \in Slots, forecast[now + h] = None, h # 0 PROVE g[h] = g[h - 1]
  <2>1. h \in Nat /\ h - 1 \in Nat /\ h - 1 \in Slots /\ h - 1 # h
    BY <1>3, HoursInForecast, OptimizerAssumption DEF Slots
  <2>2. NoneKnown(h) <=> NoneKnown(h - 1)
    <3>1. \A j \in 0..h : j = h \/ j \in 0..(h - 1)
      BY <2>1
    <3>2. \A j \in 0..(h - 1) : j \in 0..h
      BY <2>1
    <3> QED BY <1>3, <3>1, <3>2 DEF NoneKnown
  <2>3. ASSUME ~ NoneKnown(h) PROVE At(h) = At(h - 1)
    <3>1. \E j \in 0..h : LastKnown(j, h)
      BY <2>3, LastKnownExists
    <3>2. \E j \in 0..(h - 1) : LastKnown(j, h - 1)
      BY <2>1, <2>2, <2>3, LastKnownExists
    <3>3. At(h) \in 0..h /\ LastKnown(At(h), h)
      BY <3>1
    <3>4. At(h - 1) \in 0..(h - 1) /\ LastKnown(At(h - 1), h - 1)
      BY <3>2
    <3> DEFINE i == At(h - 1)
    <3> HIDE DEF At, i
    <3>5. i \in 0..h /\ LastKnown(i, h)
      <4>1. i \in 0..(h - 1) /\ LastKnown(i, h - 1)
        BY <3>4 DEF i
      <4>2. i \in Nat /\ i \in 0..h /\ \A k \in (i + 1)..h : k = h \/ k \in (i + 1)..(h - 1)
        BY <2>1, <4>1
      <4> QED BY <1>3, <4>1, <4>2 DEF LastKnown
    <3>6. At(h) = i
      BY <3>3, <3>5, LastKnownExists
    <3> QED BY <3>6 DEF i
  <2> HIDE DEF At
  <2> QED BY <2>1, <2>2, <2>3
<1>4. SeriesOf(g)
  <2>1. g = [h \in Slots |-> g[h]]
    OBVIOUS
  <2> HIDE DEF g
  <2> QED BY <1>1, <1>2, <1>3, <2>1 DEF SeriesOf
<1> QED BY <1>4

(* Series is such a solution.                                              *)
LEMMA SeriesIsOne == ASSUME WorldInv PROVE SeriesOf(Series)
BY SeriesExists DEF Series, SeriesOf

(* hourly_price_series: the price of the last known hour, or the fallback. *)
LEMMA SeriesIsKnown ==
  ASSUME WorldInv
  PROVE  /\ Series \in Hourly
         /\ \A h \in Slots : \/ \E j \in 0..h : LastKnown(j, h) /\ Series[h] = forecast[now + j]
                             \/ NoneKnown(h) /\ Series[h] = Fallback
<1> DEFINE Known(h) == \/ \E j \in 0..h : LastKnown(j, h) /\ Series[h] = forecast[now + j]
                       \/ NoneKnown(h) /\ Series[h] = Fallback
           Bad == {h \in Slots : ~ Known(h)}
<1>1. ASSUME NEW h \in Slots
      PROVE  Series[h] = IF forecast[now + h] # None THEN forecast[now + h]
                         ELSE IF h = 0 THEN Fallback ELSE Series[h - 1]
  BY SeriesIsOne DEF SeriesOf
<1>2. ASSUME NEW h \in Slots, forecast[now + h] # None PROVE Known(h)
  <2>1. h \in Nat /\ h \in 0..h /\ LastKnown(h, h)
    BY <1>2, HoursInForecast DEF LastKnown
  <2> QED BY <1>1, <1>2, <2>1
<1>3. ASSUME NEW h \in Slots, forecast[now + h] = None, h = 0 PROVE Known(h)
  BY <1>1, <1>3 DEF NoneKnown
<1>4. ASSUME NEW h \in Slots, forecast[now + h] = None, h # 0, Known(h - 1) PROVE Known(h)
  <2>1. h \in Nat /\ h - 1 \in Nat
    BY <1>4, HoursInForecast
  <2>2. Series[h] = Series[h - 1]
    BY <1>1, <1>4
  <2>3. CASE NoneKnown(h - 1) /\ Series[h - 1] = Fallback
    <3>1. \A j \in 0..h : j = h \/ j \in 0..(h - 1)
      BY <2>1
    <3> QED BY <1>4, <2>2, <2>3, <3>1 DEF NoneKnown
  <2>4. CASE \E j \in 0..(h - 1) : LastKnown(j, h - 1) /\ Series[h - 1] = forecast[now + j]
    <3>1. PICK j \in 0..(h - 1) : LastKnown(j, h - 1) /\ Series[h - 1] = forecast[now + j]
      BY <2>4
    <3>2. j \in 0..h /\ \A k \in (j + 1)..h : k = h \/ k \in (j + 1)..(h - 1)
      BY <2>1, <3>1
    <3>3. LastKnown(j, h)
      BY <1>4, <3>1, <3>2 DEF LastKnown
    <3> QED BY <2>2, <3>1, <3>2, <3>3
  <2> QED BY <1>4, <2>3, <2>4
<1>5. Bad = {}
  <2> SUFFICES ASSUME Bad # {} PROVE FALSE
    OBVIOUS
  <2>1. Bad \in SUBSET Nat
    BY SlotsAreFinite
  <2>2. PICK h \in Bad : \A k \in Bad : h <= k
    <3> HIDE DEF Bad
    <3> QED BY <2>1, LeastNat
  <2>3. h \in Slots /\ ~ Known(h)
    BY <2>2
  <2>4. forecast[now + h] = None /\ h # 0
    <3> HIDE DEF Known
    <3> QED BY <1>2, <1>3, <2>3
  <2>5. h - 1 \in Slots /\ ~ (h <= h - 1)
    BY <2>3, <2>4, HoursInForecast, OptimizerAssumption DEF Slots
  <2>6. Known(h - 1)
    <3> HIDE DEF Known
    <3> QED BY <2>2, <2>5
  <2> HIDE DEF Known, Bad
  <2> QED BY <1>4, <2>3, <2>4, <2>6
<1>6. ASSUME NEW h \in Slots PROVE Known(h)
  <2> HIDE DEF Known
  <2> QED BY <1>5
<1>7. ASSUME NEW h \in Slots PROVE Series[h] \in Nat
  <2>1. h \in Nat /\ Hours \in Nat /\ Fallback \in Nat /\ \A j \in 0..h : j \in Slots
    BY HoursInForecast, OptimizerAssumption DEF Slots
  <2>2. CASE NoneKnown(h) /\ Series[h] = Fallback
    BY <2>1, <2>2
  <2>3. CASE \E j \in 0..h : LastKnown(j, h) /\ Series[h] = forecast[now + j]
    <3>1. PICK j \in 0..h : LastKnown(j, h) /\ Series[h] = forecast[now + j]
      BY <2>3
    <3>2. forecast[now + j] \in Nat \cup {None}
      BY <2>1, <3>1, HoursInForecast
    <3> QED BY <3>1, <3>2 DEF LastKnown
  <2> QED BY <1>6, <2>2, <2>3
<1>8. Series = [h \in Slots |-> Series[h]]
  BY SeriesIsOne DEF SeriesOf
<1>9. Series \in Hourly
  BY <1>7, <1>8 DEF Hourly
<1> QED BY <1>6, <1>9

-----------------------------------------------------------------------------
(* The theorems.                                                           *)

(* optimize: a plan of the MILP or the greedy one.                         *)
LEMMA PlansAre ==
  ASSUME NEW prices, NEW sun, NEW choice \in Plans(prices, sun)
  PROVE  \/ choice.solver = "milp" /\ choice.power \in MilpPlans(sun)
         \/ choice.solver = "greedy" /\ choice.power = Greedy(prices, sun)
BY DEF Plans

(* What run_optimizer leaves in latest.                                    *)
Computed(plan) ==
  /\ plan.from = now /\ plan.sun = PvSeries
  /\ plan.seen \in BOOLEAN /\ plan.saved \in BOOLEAN
  /\ plan.prices = IF plan.seen THEN Series ELSE [h \in Slots |-> Fallback]
  /\ \/ plan.solver = "milp" /\ plan.power \in MilpPlans(plan.sun)
     \/ plan.solver = "greedy" /\ plan.power = Greedy(plan.prices, plan.sun)

(* run_optimizer keeps the plan it computed in RAM, and on disk if it can. *)
LEMMA OptimizeComputes ==
  ASSUME Optimize
  PROVE  \E plan : /\ Computed(plan) /\ latest' = plan /\ result' = plan
                   /\ plan.saved => disk' = plan
                   /\ UNCHANGED <<now, forecast, pv>>
<1>1. PICK seen \in BOOLEAN, saved \in BOOLEAN :
        \E choice \in Plans(IF seen THEN Series ELSE [h \in Slots |-> Fallback], PvSeries) :
          /\ result' = [from |-> now, solver |-> choice.solver, power |-> choice.power,
                        prices |-> IF seen THEN Series ELSE [h \in Slots |-> Fallback],
                        sun |-> PvSeries, seen |-> seen, saved |-> saved]
          /\ latest' = result' /\ Persist(result')
          /\ UNCHANGED <<now, forecast, pv, offer>>
  BY DEF Optimize
<1> DEFINE prices == IF seen THEN Series ELSE [h \in Slots |-> Fallback]
<1>2. PICK choice \in Plans(prices, PvSeries) :
        /\ result' = [from |-> now, solver |-> choice.solver, power |-> choice.power,
                      prices |-> prices, sun |-> PvSeries, seen |-> seen, saved |-> saved]
        /\ latest' = result' /\ Persist(result')
        /\ UNCHANGED <<now, forecast, pv, offer>>
  BY <1>1
<1>3. \/ choice.solver = "milp" /\ choice.power \in MilpPlans(PvSeries)
      \/ choice.solver = "greedy" /\ choice.power = Greedy(prices, PvSeries)
  <2> HIDE DEF prices
  <2> QED BY <1>2, PlansAre
<1> DEFINE plan == [from |-> now, solver |-> choice.solver, power |-> choice.power,
                    prices |-> prices, sun |-> PvSeries, seen |-> seen, saved |-> saved]
<1>4. Computed(plan)
  BY <1>3 DEF Computed
<1>5. result' = plan /\ latest' = plan /\ (plan.saved => disk' = plan)
  <2>1. result' = plan
    BY <1>2
  <2> HIDE DEF plan
  <2> QED BY <1>2, <2>1 DEF Persist
<1> HIDE DEF plan
<1> QED BY <1>2, <1>4, <1>5

(* It is computed from natural numbers.                                    *)
LEMMA PricesAreHourly ==
  ASSUME WorldInv, NEW plan, Computed(plan)
  PROVE  plan.prices \in Hourly /\ plan.sun \in Hourly
<1>1. [h \in Slots |-> Fallback] \in Hourly
  BY OptimizerAssumption DEF Hourly
<1>2. PvSeries \in Hourly
  BY HoursInForecast DEF PvSeries, Hourly
<1>3. Series \in Hourly
  BY SeriesIsKnown
<1> QED BY <1>1, <1>2, <1>3 DEF Computed

(* The plans computed, and where they are kept.                            *)
PlansInv == WorldInv /\ MustRunIsMet /\ NoCheaperChoice /\ PricesAreKnown
KeptInv == latest # None /\ latest.saved => disk = latest /\ result \in {None, latest}

(* There is no plan at first.                                              *)
LEMMA OptInit == Init => PlansInv /\ KeptInv
<1> SUFFICES ASSUME Init PROVE PlansInv /\ KeptInv
  OBVIOUS
<1>1. WorldInv
  BY OptimizerAssumption DEF Init, WorldInv
<1> QED BY <1>1 DEF Init, PlansInv, KeptInv, MustRunIsMet, NoCheaperChoice, PricesAreKnown

(* The clock stays in its bound, the forecasts stay.                       *)
LEMMA WorldStep == WorldInv /\ [Next]_vars => WorldInv'
<1> SUFFICES ASSUME WorldInv, [Next]_vars PROVE WorldInv'
  OBVIOUS
<1>1. forecast' = forecast /\ pv' = pv
  BY DEF Next, vars, Optimize, Offer, Restart, Tick
<1>2. now' = now \/ (now < MaxHour /\ now' = now + 1)
  BY DEF Next, vars, Optimize, Offer, Restart, Tick
<1> QED BY <1>1, <1>2, OptimizerAssumption DEF WorldInv

(* The prices of a plan just computed.                                     *)
LEMMA ComputedPrices ==
  ASSUME WorldInv, NEW plan, Computed(plan), plan.seen, NEW h \in Slots
  PROVE  \/ \E j \in 0..h : /\ plan.prices[h] = forecast[plan.from + j]
                            /\ \A k \in (j + 1)..h : forecast[plan.from + k] = None
         \/ /\ plan.prices[h] = Fallback
            /\ \A j \in 0..h : forecast[plan.from + j] = None
<1>1. plan.prices = Series /\ plan.from = now
  BY DEF Computed
<1>2. \/ \E j \in 0..h : LastKnown(j, h) /\ Series[h] = forecast[now + j]
      \/ NoneKnown(h) /\ Series[h] = Fallback
  BY SeriesIsKnown
<1> QED BY <1>1, <1>2 DEF LastKnown, NoneKnown

(* The hours of full power of a plan just computed.                        *)
LEMMA ComputedMeets ==
  ASSUME WorldInv, NEW plan, Computed(plan), NEW d \in Devs
  PROVE  Total(plan.power[d], Slots) >= Below(DeviceList[d].must_run, Hours) * DeviceList[d].max
<1>1. plan.prices \in Hourly /\ plan.sun \in Hourly
  BY PricesAreHourly
<1>2. CASE plan.power \in MilpPlans(plan.sun)
  BY <1>2, MilpMeetsMustRun
<1>3. CASE plan.power = Greedy(plan.prices, plan.sun)
  BY <1>1, <1>3, GreedyMeetsMustRun
<1> QED BY <1>2, <1>3 DEF Computed

(* The hours in the window of a greedy plan just computed.                 *)
LEMMA ComputedIsCheapest ==
  ASSUME WorldInv, NEW plan, Computed(plan), plan.solver = "greedy", NEW d \in Devs,
         DeviceList[d].min < DeviceList[d].max,
         NEW other \in SUBSET InPreferred(DeviceList[d])
  PROVE  LET cost == Cost(plan.prices, plan.sun)
             used == {h \in Slots : plan.power[d][h] = DeviceList[d].max}
                        \cap InPreferred(DeviceList[d])
         IN  Cardinality(other) = Cardinality(used) => Total(cost, used) <= Total(cost, other)
<1>1. plan.prices \in Hourly /\ plan.sun \in Hourly
  BY PricesAreHourly
<1>2. plan.power = Greedy(plan.prices, plan.sun)
  BY DEF Computed
<1> QED BY <1>1, <1>2, GreedyIsCheapest

(* Only run_optimizer makes a plan.                                        *)
LEMMA PlansStep == PlansInv /\ [Next]_vars => PlansInv'
<1> SUFFICES ASSUME PlansInv, [Next]_vars PROVE PlansInv'
  OBVIOUS
<1>1. WorldInv'
  BY WorldStep DEF PlansInv
<1>2. CASE Optimize
  <2>1. PICK plan : /\ Computed(plan) /\ latest' = plan /\ result' = plan
                    /\ UNCHANGED <<now, forecast, pv>>
    BY <1>2, OptimizeComputes
  <2>2. WorldInv
    BY DEF PlansInv
  <2>3. MustRunIsMet'
    BY <2>1, <2>2, ComputedMeets DEF MustRunIsMet
  <2>4. NoCheaperChoice'
    BY <2>1, <2>2, ComputedIsCheapest DEF NoCheaperChoice, Full
  <2>5. PricesAreKnown'
    BY <2>1, <2>2, ComputedPrices DEF PricesAreKnown
  <2> QED BY <1>1, <2>3, <2>4, <2>5 DEF PlansInv
<1>3. CASE Offer \/ Restart \/ Tick \/ UNCHANGED vars
  <2>1. latest' = latest /\ forecast' = forecast
    BY <1>3 DEF Offer, Restart, Tick, vars
  <2> QED BY <1>1, <2>1 DEF PlansInv, MustRunIsMet, NoCheaperChoice, PricesAreKnown, Full
<1> QED BY <1>2, <1>3 DEF Next

(* Nothing but a newer plan takes a saved one from RAM and disk.           *)
LEMMA KeptStep == KeptInv /\ [Next]_vars => KeptInv'
<1> SUFFICES ASSUME KeptInv, [Next]_vars PROVE KeptInv'
  OBVIOUS
<1>1. CASE Optimize
  <2>1. PICK plan : latest' = plan /\ result' = plan /\ (plan.saved => disk' = plan)
    BY <1>1, OptimizeComputes
  <2> QED BY <2>1 DEF KeptInv
<1>2. CASE Offer
  BY <1>2 DEF Offer, KeptInv, LastResult
<1>3. CASE Restart \/ Tick \/ UNCHANGED vars
  BY <1>3 DEF Restart, Tick, vars, KeptInv
<1> QED BY <1>1, <1>2, <1>3 DEF Next

(* What is said of plans holds in every state.                             *)
LEMMA PlansAlways == Spec => []PlansInv
<1>1. Init => PlansInv
  BY OptInit
<1> QED BY <1>1, PlansStep, PTL DEF Spec

(* Every plan gives every device the full power of its must_run_hours (or  *)
(* of the whole day): for the MILP by its constraint, for the greedy       *)
(* solver because its second pass fills up what the window lacks.          *)
THEOREM MustRunCorrect == Spec => []MustRunIsMet
<1>1. PlansInv => MustRunIsMet
  BY DEF PlansInv
<1> QED BY <1>1, PlansAlways, PTL

(* The greedy solver's hours in the window cost least among all choices of *)
(* as many: none left out is cheaper than one taken, so an exchange never  *)
(* pays.                                                                   *)
THEOREM CheapestCorrect == Spec => []NoCheaperChoice
<1>1. PlansInv => NoCheaperChoice
  BY DEF PlansInv
<1> QED BY <1>1, PlansAlways, PTL

(* hourly_price_series gives every hour the price of the last hour known   *)
(* up to it, and never a price from before the current hour.               *)
THEOREM PricesCorrect == Spec => []PricesAreKnown
<1>1. PlansInv => PricesAreKnown
  BY DEF PlansInv
<1> QED BY <1>1, PlansAlways, PTL

(* A plan that was saved is the one get_last_result returns until the next *)
(* one is computed, over any number of restarts.                           *)
THEOREM LatestCorrect == Spec => []LatestSurvives
<1>1. Init => KeptInv
  BY OptInit
<1>2. KeptInv => LatestSurvives
  BY DEF KeptInv, LatestSurvives, LastResult
<1> QED BY <1>1, <1>2, KeptStep, PTL DEF Spec
=============================================================================
