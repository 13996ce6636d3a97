------------------------ MODULE RuleConditions_proofs -----------------------
(* Theorems about RuleConditions, for every rule of the grammar, every     *)
(* state of Home Assistant, every forecast and every fleet of cars.        *)
EXTENDS RuleConditions, FiniteSetTheorems, SequenceTheorems, WellFoundedInduction, TLAPS

(* A set of numbers has a least one.                                       *)
LEMMA LeastNat ==
  ASSUME NEW S \in SUBSET Nat, S # {}
  PROVE  \E m \in S : \A k \in S : m <= k
<1> DEFINE R == OpToRel(<, Nat)
<1>1. PICK m \in S : \A k \in S : ~(<<k, m>> \in R)
  <2> HIDE DEF R
  <2> QED BY NatLessThanWellFounded, WFMin DEF R
<1>2. \A i, j \in Nat : <<i, j>> \in R <=> i < j
  BY DEF OpToRel
<1> HIDE DEF R
<1>3. ASSUME NEW k \in S PROVE m <= k
  <2>1. ~(<<k, m>> \in R) /\ k \in Nat /\ m \in Nat
    BY <1>1
  <2> QED BY <1>2, <2>1
<1> QED BY <1>3

(* Induction up to a number, on the numbers that have a property.          *)
LEMMA UpTo ==
  ASSUME NEW N \in Nat, NEW Good, 0 \in Good,
         \A n \in 1..N : n - 1 \in Good => n \in Good
  PROVE  \A n \in 0..N : n \in Good
<1> DEFINE Bad == {n \in 0..N : n \notin Good}
<1> SUFFICES ASSUME Bad # {} PROVE FALSE
  OBVIOUS
<1>1. Bad \in SUBSET Nat
  OBVIOUS
<1>2. PICK m \in Bad : \A k \in Bad : m <= k
  <2> HIDE DEF Bad
  <2> QED BY <1>1, LeastNat
<1>3. m \in 1..N /\ m - 1 \notin Bad /\ m - 1 \in 0..N
  BY <1>2
<1> QED BY <1>2, <1>3

-----------------------------------------------------------------------------
(* Expressions.  The part of a set S of places that comes last before or   *)
(* at n, where 0 always counts.                                            *)
IsLast(S, c, n) ==
  /\ c \in 0..n /\ (c = 0 \/ c \in S)
  /\ \A i \in (c + 1)..n : i \notin S

LEMMA LastThere ==
  ASSUME NEW S, NEW N \in Nat
  PROVE  \A n \in 0..N : \E c \in 0..n : IsLast(S, c, n)
<1> DEFINE Good == {n \in 0..N : \E c \in 0..n : IsLast(S, c, n)}
<1>1. 0 \in Good
  BY DEF IsLast
<1>2. ASSUME NEW n \in 1..N, n - 1 \in Good PROVE n \in Good
  <2>1. PICK c \in 0..(n - 1) : IsLast(S, c, n - 1)
    BY <1>2
  <2>2. CASE n \in S
    <3>1. IsLast(S, n, n)
      BY <2>2 DEF IsLast
    <3> QED BY <3>1
  <2>3. CASE n \notin S
    <3>1. IsLast(S, c, n)
      BY <2>1, <2>3 DEF IsLast
    <3> QED BY <3>1
  <2> QED BY <2>2, <2>3
<1>3. \A n \in 0..N : n \in Good
  <2> HIDE DEF Good
  <2> QED BY <1>1, <1>2, UpTo
<1> QED BY <1>3

LEMMA LastUnique ==
  ASSUME NEW S, NEW n \in Nat, NEW c, NEW d, IsLast(S, c, n), IsLast(S, d, n)
  PROVE  c = d
BY DEF IsLast

(* The places of some words.                                               *)
Places(expr, W) == {i \in 1..Len(expr) : expr[i] \in W}

(* The comparison at w, with the NOTs in front of it, holds.               *)
Term(expr, ctx, w) ==
  \E c \in 0..(w - 1) : /\ IsLast(Places(expr, Operators), c, w - 1)
                        /\ Word(expr[w], ctx) <=> (w - c) % 2 = 1

Terms(expr, ctx, from, to) ==
  \A w \in from..to : IsComparison(expr[w]) => Term(expr, ctx, w)

(* A stretch of an expression between two ORs, or two ANDs, its ends       *)
(* exclusive.                                                              *)
Stretch(expr, op, a, b) ==
  /\ b \in 1..(Len(expr) + 1) /\ (b = Len(expr) + 1 \/ expr[b] = op)
  /\ IsLast(Places(expr, {op}), a, b - 1)

(* What a grammatical expression is at two neighbouring places.            *)
LEMMA Grammar ==
  ASSUME NEW e, Grammatical(e)
  PROVE  /\ Len(e) \in Nat \ {0} /\ DOMAIN e = 1..Len(e) /\ e \in Seq(Range(e))
         /\ IsComparison(e[Len(e)]) /\ e[1] \notin Operators
         /\ \A i \in 2..Len(e) : e[i] \in Operators <=> IsComparison(e[i - 1])
<1>1. e \in Seq(Range(e)) /\ e # <<>>
  BY DEF Grammatical
<1>2. Len(e) \in Nat \ {0} /\ DOMAIN e = 1..Len(e)
  BY <1>1, LenProperties, EmptySeq
<1>3. ASSUME NEW i \in 2..Len(e) PROVE e[i] \in Operators <=> IsComparison(e[i - 1])
  <2>1. i - 1 \in 1..(Len(e) - 1) /\ (i - 1) + 1 = i
    BY <1>2
  <2> QED BY <2>1 DEF Grammatical
<1> QED BY <1>1, <1>2, <1>3 DEF Grammatical

-----------------------------------------------------------------------------
(* The machine of Meaning, over a prefix of an expression.                 *)
Start == [any |-> FALSE, all |-> TRUE, pos |-> TRUE]
IsReading(expr, ctx, N, f) ==
  f = [n \in 0..N |-> IF n = 0 THEN Start ELSE Read(f[n - 1], expr[n], ctx)]

LEMMA ReadingThere ==
  ASSUME NEW e, NEW ctx, NEW N \in Nat
  PROVE  \E f : IsReading(e, ctx, N, f)
<1> DEFINE Good == {n \in 0..N : \E f : IsReading(e, ctx, n, f)}
<1>1. 0 \in Good
  <2>1. IsReading(e, ctx, 0, [n \in 0..0 |-> Start])
    BY DEF IsReading
  <2> QED BY <2>1
<1>2. ASSUME NEW n \in 1..N, n - 1 \in Good PROVE n \in Good
  <2>1. PICK f : IsReading(e, ctx, n - 1, f)
    BY <1>2
  <2> DEFINE g == [i \in 0..n |-> IF i = 0 THEN Start ELSE Read(f[i - 1], e[i], ctx)]
  <2>2. ASSUME NEW i \in 0..(n - 1) PROVE g[i] = f[i]
    BY <2>1 DEF IsReading
  <2>3. ASSUME NEW i \in 1..n PROVE f[i - 1] = g[i - 1]
    <3>1. i - 1 \in 0..(n - 1)
      OBVIOUS
    <3> HIDE DEF g
    <3> QED BY <2>2, <3>1
  <2>4. g = [i \in 0..n |-> IF i = 0 THEN Start ELSE Read(g[i - 1], e[i], ctx)]
    BY <2>3
  <2>5. IsReading(e, ctx, n, g)
    <3> HIDE DEF g
    <3> QED BY <2>4 DEF IsReading
  <2> HIDE DEF g
  <2> QED BY <2>5
<1>3. \A n \in 0..N : n \in Good
  <2> HIDE DEF Good
  <2> QED BY <1>1, <1>2, UpTo
<1> QED BY <1>3

(* What the machine has after n words: the disjuncts between ORs that were *)
(* read, the comparisons of the present one, and whether an even number of *)
(* NOTs came since the last operator.                                      *)
ReadInv(e, ctx, n, m) ==
  /\ m \in [any : BOOLEAN, all : BOOLEAN, pos : BOOLEAN]
  /\ m.any <=> \E a, b \in 0..n : Stretch(e, Or, a, b) /\ Terms(e, ctx, a + 1, b - 1)
  /\ \A a \in 0..n : IsLast(Places(e, {Or}), a, n) => (m.all <=> Terms(e, ctx, a + 1, n))
  /\ n = 0 \/ ~IsComparison(e[n]) =>
       \A c \in 0..n : IsLast(Places(e, Operators), c, n) => (m.pos <=> (n - c) % 2 = 0)

LEMMA ReadInvStart ==
  ASSUME NEW e, NEW ctx, Grammatical(e)
  PROVE  ReadInv(e, ctx, 0, Start)
<1>1. ~ \E a, b \in 0..0 : Stretch(e, Or, a, b)
  BY DEF Stretch
<1>2. \A a \in 0..0 : Terms(e, ctx, a + 1, 0)
  BY DEF Terms
<1> QED BY <1>1, <1>2 DEF ReadInv, Start, IsLast

(* A last place stays the last while none of the set follows, and gives    *)
(* way to one that does.                                                   *)
LEMMA LastStep ==
  ASSUME NEW S, NEW n \in Nat \ {0}, NEW c, IsLast(S, c, n)
  PROVE  /\ n \in S => c = n
         /\ n \notin S => c \in 0..(n - 1) /\ IsLast(S, c, n - 1)
BY DEF IsLast

LEMMA LastBack ==
  ASSUME NEW S, NEW n \in Nat \ {0}, NEW c, IsLast(S, c, n - 1), n \notin S
  PROVE  IsLast(S, c, n)
BY DEF IsLast

LEMMA TermIs ==
  ASSUME NEW e, NEW ctx, NEW n \in Nat \ {0}, NEW c,
         IsLast(Places(e, Operators), c, n - 1)
  PROVE  Term(e, ctx, n) <=> (Word(e[n], ctx) <=> (n - c) % 2 = 1)
<1>1. c \in 0..(n - 1)
  BY DEF IsLast
<1>2. ASSUME NEW d \in 0..(n - 1), IsLast(Places(e, Operators), d, n - 1) PROVE d = c
  BY <1>2, LastUnique
<1> QED BY <1>1, <1>2 DEF Term

(* One OR more: what was read of the present disjunct decides about it.    *)
LEMMA ReadOr ==
  ASSUME NEW e, NEW ctx, Grammatical(e), NEW n \in 1..Len(e), NEW m,
         ReadInv(e, ctx, n - 1, m), e[n] = Or
  PROVE  ReadInv(e, ctx, n, Read(m, e[n], ctx))
<1> DEFINE k == Read(m, e[n], ctx)
<1>1. Len(e) \in Nat /\ n \in Nat \ {0} /\ n - 1 \in Nat
  BY Grammar
<1>2. m.any \in BOOLEAN /\ m.all \in BOOLEAN
  BY DEF ReadInv
<1>3. k = [any |-> m.any \/ m.all, all |-> TRUE, pos |-> TRUE]
  BY DEF Read
<1>4. n \in Places(e, {Or}) /\ n \in Places(e, Operators)
  BY DEF Places, Operators
<1>5. PICK a \in 0..(n - 1) : IsLast(Places(e, {Or}), a, n - 1)
  <2>1. n - 1 \in 0..(n - 1)
    BY <1>1
  <2> QED BY <2>1, <1>1, LastThere
<1>6. m.all <=> Terms(e, ctx, a + 1, n - 1)
  BY <1>5 DEF ReadInv
<1>7. Stretch(e, Or, a, n)
  BY <1>1, <1>5 DEF Stretch
<1>8. ASSUME NEW c, Stretch(e, Or, c, n) PROVE c = a
  BY <1>1, <1>5, <1>8, LastUnique DEF Stretch
<1>9. k.any <=> \E c, b \in 0..n : Stretch(e, Or, c, b) /\ Terms(e, ctx, c + 1, b - 1)
  <2>1. ASSUME m.any PROVE \E c, b \in 0..n : Stretch(e, Or, c, b) /\ Terms(e, ctx, c + 1, b - 1)
    <3>1. PICK c, b \in 0..(n - 1) : Stretch(e, Or, c, b) /\ Terms(e, ctx, c + 1, b - 1)
      BY <2>1 DEF ReadInv
    <3>2. c \in 0..n /\ b \in 0..n
      OBVIOUS
    <3> QED BY <3>1, <3>2
  <2>2. ASSUME m.all PROVE \E c, b \in 0..n : Stretch(e, Or, c, b) /\ Terms(e, ctx, c + 1, b - 1)
    <3>1. a \in 0..n /\ n \in 0..n
      BY <1>1
    <3> QED BY <2>2, <3>1, <1>6, <1>7
  <2>3. ASSUME NEW c \in 0..n, NEW b \in 0..n, Stretch(e, Or, c, b), Terms(e, ctx, c + 1, b - 1)
        PROVE  m.any \/ m.all
    <3>1. CASE b = n
      BY <2>3, <3>1, <1>6, <1>8
    <3>2. CASE b # n
      <4>1. b \in 0..(n - 1) /\ c \in 0..(n - 1)
        BY <2>3, <3>2, <1>1 DEF Stretch, IsLast
      <4> QED BY <2>3, <4>1 DEF ReadInv
    <3> QED BY <3>1, <3>2
  <2>4. k.any <=> m.any \/ m.all
    BY <1>2, <1>3
  <2> HIDE DEF k
  <2> QED BY <2>1, <2>2, <2>3, <2>4
<1>10. \A c \in 0..n : IsLast(Places(e, {Or}), c, n) => (k.all <=> Terms(e, ctx, c + 1, n))
  <2>1. ASSUME NEW c \in 0..n, IsLast(Places(e, {Or}), c, n) PROVE c = n
    BY <2>1, <1>1, <1>4, LastStep
  <2>2. Terms(e, ctx, n + 1, n)
    BY <1>1 DEF Terms
  <2> QED BY <2>1, <2>2, <1>3
<1>11. \A c \in 0..n : IsLast(Places(e, Operators), c, n) => (k.pos <=> (n - c) % 2 = 0)
  <2>1. ASSUME NEW c \in 0..n, IsLast(Places(e, Operators), c, n) PROVE (n - c) % 2 = 0
    <3>1. c = n
      BY <2>1, <1>1, <1>4, LastStep
    <3> QED BY <3>1, <1>1
  <2> QED BY <2>1, <1>3
<1>12. k \in [any : BOOLEAN, all : BOOLEAN, pos : BOOLEAN]
  BY <1>2, <1>3
<1> HIDE DEF k
<1> QED BY <1>9, <1>10, <1>11, <1>12 DEF ReadInv, k

(* Any other word ends no disjunct.                                        *)
LEMMA AnyStays ==
  ASSUME NEW e, NEW ctx, NEW n \in 1..Len(e), Len(e) \in Nat, e[n] # Or
  PROVE  (\E a, b \in 0..n : Stretch(e, Or, a, b) /\ Terms(e, ctx, a + 1, b - 1)) <=>
           \E a, b \in 0..(n - 1) : Stretch(e, Or, a, b) /\ Terms(e, ctx, a + 1, b - 1)
<1>1. ASSUME NEW a \in 0..n, NEW b \in 0..n, Stretch(e, Or, a, b)
      PROVE  a \in 0..(n - 1) /\ b \in 0..(n - 1)
  BY <1>1 DEF Stretch, IsLast
<1>2. 0..(n - 1) \subseteq 0..n
  OBVIOUS
<1> QED BY <1>1, <1>2

(* One AND or NOT more.                                                    *)
LEMMA ReadAndNot ==
  ASSUME NEW e, NEW ctx, Grammatical(e), NEW n \in 1..Len(e), NEW m,
         ReadInv(e, ctx, n - 1, m), e[n] = And \/ e[n] = Not
  PROVE  ReadInv(e, ctx, n, Read(m, e[n], ctx))
<1> DEFINE k == Read(m, e[n], ctx)
<1>1. Len(e) \in Nat /\ n \in Nat \ {0} /\ n - 1 \in Nat
  BY Grammar
<1>2. m \in [any : BOOLEAN, all : BOOLEAN, pos : BOOLEAN]
  BY DEF ReadInv
<1>3. e[n] # Or /\ ~IsComparison(e[n])
  BY RuleConditionsAssumption DEF IsComparison, Operators
<1>4. /\ k \in [any : BOOLEAN, all : BOOLEAN, pos : BOOLEAN]
      /\ k.any = m.any /\ k.all = m.all
      /\ k.pos = IF e[n] = And THEN TRUE ELSE ~m.pos
  BY <1>2, <1>3, RuleConditionsAssumption DEF Read, Operators
<1> HIDE DEF k
<1>5. k.any <=> \E a, b \in 0..n : Stretch(e, Or, a, b) /\ Terms(e, ctx, a + 1, b - 1)
  BY <1>1, <1>3, <1>4, AnyStays DEF ReadInv
<1>6. \A a \in 0..n : IsLast(Places(e, {Or}), a, n) => (k.all <=> Terms(e, ctx, a + 1, n))
  <2> SUFFICES ASSUME NEW a \in 0..n, IsLast(Places(e, {Or}), a, n)
               PROVE  k.all <=> Terms(e, ctx, a + 1, n)
    OBVIOUS
  <2>1. n \notin Places(e, {Or})
    BY <1>3 DEF Places
  <2>2. a \in 0..(n - 1) /\ IsLast(Places(e, {Or}), a, n - 1)
    BY <2>1, <1>1, LastStep
  <2>3. Terms(e, ctx, a + 1, n - 1) <=> Terms(e, ctx, a + 1, n)
    <3>1. \A w \in (a + 1)..n : w \in (a + 1)..(n - 1) \/ w = n
      BY <1>1
    <3>2. (a + 1)..(n - 1) \subseteq (a + 1)..n
      BY <1>1
    <3> QED BY <3>1, <3>2, <1>3 DEF Terms
  <2> QED BY <2>2, <2>3, <1>4 DEF ReadInv
<1>7. ASSUME NEW c \in 0..n, IsLast(Places(e, Operators), c, n)
      PROVE  k.pos <=> (n - c) % 2 = 0
  <2>1. CASE e[n] = And
    <3>1. n \in Places(e, Operators)
      BY <2>1 DEF Places, Operators
    <3>2. c = n
      BY <3>1, <1>1, <1>7, LastStep
    <3> QED BY <3>2, <2>1, <1>1, <1>4
  <2>2. CASE e[n] # And
    <3>1. n \notin Places(e, Operators)
      BY <2>2, <1>3 DEF Places, Operators
    <3>2. c \in 0..(n - 1) /\ IsLast(Places(e, Operators), c, n - 1)
      BY <3>1, <1>1, <1>7, LastStep
    <3>3. n - 1 = 0 \/ ~IsComparison(e[n - 1])
      <4> SUFFICES ASSUME n - 1 # 0 PROVE ~IsComparison(e[n - 1])
        OBVIOUS
      <4>1. n \in 2..Len(e)
        BY <1>1
      <4>2. e[n] \notin Operators
        BY <2>2, <1>3 DEF Operators
      <4> QED BY <4>1, <4>2, Grammar
    <3>4. m.pos <=> (n - 1 - c) % 2 = 0
      BY <3>2, <3>3 DEF ReadInv
    <3>5. (n - 1 - c) % 2 = 0 <=> ~((n - c) % 2 = 0)
      BY <3>2, <1>1
    <3> QED BY <3>4, <3>5, <2>2, <1>4
  <2> QED BY <2>1, <2>2
<1> QED BY <1>4, <1>5, <1>6, <1>7 DEF ReadInv, k

(* One comparison more: it holds as far as its NOTs let it.                *)
LEMMA ReadComparison ==
  ASSUME NEW e, NEW ctx, Grammatical(e), NEW n \in 1..Len(e), NEW m,
         ReadInv(e, ctx, n - 1, m), IsComparison(e[n])
  PROVE  ReadInv(e, ctx, n, Read(m, e[n], ctx))
<1> DEFINE k == Read(m, e[n], ctx)
<1>1. Len(e) \in Nat /\ n \in Nat \ {0} /\ n - 1 \in Nat /\ n - 1 \in 0..(n - 1)
  BY Grammar
<1>2. m \in [any : BOOLEAN, all : BOOLEAN, pos : BOOLEAN]
  BY DEF ReadInv
<1>3. e[n] # Or /\ e[n] # And /\ e[n] # Not /\ e[n] \notin Operators
  BY DEF IsComparison, Operators
<1>4. /\ k = [m EXCEPT !.all = m.all /\ (Word(e[n], ctx) <=> m.pos)]
      /\ k.any = m.any
      /\ k.all <=> (m.all /\ (Word(e[n], ctx) <=> m.pos))
  BY <1>2, <1>3 DEF Read
<1>5. k \in [any : BOOLEAN, all : BOOLEAN, pos : BOOLEAN]
  BY <1>2, <1>4
<1> HIDE DEF k
<1>6. k.any <=> \E a, b \in 0..n : Stretch(e, Or, a, b) /\ Terms(e, ctx, a + 1, b - 1)
  BY <1>1, <1>3, <1>4, AnyStays DEF ReadInv
<1>7. (Word(e[n], ctx) <=> m.pos) <=> Term(e, ctx, n)
  <2>1. PICK c \in 0..(n - 1) : IsLast(Places(e, Operators), c, n - 1)
    BY <1>1, LastThere
  <2>2. n - 1 = 0 \/ ~IsComparison(e[n - 1])
    <3> SUFFICES ASSUME n - 1 # 0 PROVE ~IsComparison(e[n - 1])
      OBVIOUS
    <3>1. n \in 2..Len(e)
      BY <1>1
    <3> QED BY <3>1, <1>3, Grammar
  <2>3. m.pos <=> (n - 1 - c) % 2 = 0
    BY <2>1, <2>2 DEF ReadInv
  <2>4. (n - 1 - c) % 2 = 0 <=> (n - c) % 2 = 1
    BY <2>1, <1>1
  <2>5. Term(e, ctx, n) <=> (Word(e[n], ctx) <=> (n - c) % 2 = 1)
    BY <2>1, <1>1, TermIs
  <2> QED BY <2>3, <2>4, <2>5
<1>8. \A a \in 0..n : IsLast(Places(e, {Or}), a, n) => (k.all <=> Terms(e, ctx, a + 1, n))
  <2> SUFFICES ASSUME NEW a \in 0..n, IsLast(Places(e, {Or}), a, n)
               PROVE  k.all <=> Terms(e, ctx, a + 1, n)
    OBVIOUS
  <2>1. n \notin Places(e, {Or})
    BY <1>3 DEF Places
  <2>2. a \in 0..(n - 1) /\ IsLast(Places(e, {Or}), a, n - 1)
    BY <2>1, <1>1, LastStep
  <2>3. Terms(e, ctx, a + 1, n) <=> Terms(e, ctx, a + 1, n - 1) /\ Term(e, ctx, n)
    <3>1. \A w \in (a + 1)..n : w \in (a + 1)..(n - 1) \/ w = n
      BY <1>1
    <3>2. (a + 1)..(n - 1) \subseteq (a + 1)..n /\ n \in (a + 1)..n
      BY <2>2, <1>1
    <3> QED BY <3>1, <3>2 DEF Terms
  <2>4. m.all <=> Terms(e, ctx, a + 1, n - 1)
    BY <2>2 DEF ReadInv
  <2> QED BY <2>3, <2>4, <1>4, <1>7
<1> QED BY <1>1, <1>5, <1>6, <1>8 DEF ReadInv, k

(* The machine reads as ReadInv says, to the end.                          *)
LEMMA ReadAll ==
  ASSUME NEW e, NEW ctx, Grammatical(e), NEW f, IsReading(e, ctx, Len(e), f)
  PROVE  ReadInv(e, ctx, Len(e), f[Len(e)])
<1> DEFINE Good == {n \in 0..Len(e) : ReadInv(e, ctx, n, f[n])}
<1>1. Len(e) \in Nat
  BY Grammar
<1>2. 0 \in Good
  BY <1>1, ReadInvStart DEF IsReading
<1>3. ASSUME NEW n \in 1..Len(e), n - 1 \in Good PROVE n \in Good
  <2>1. ReadInv(e, ctx, n - 1, f[n - 1])
    BY <1>3
  <2>2. f[n] = Read(f[n - 1], e[n], ctx)
    BY <1>1 DEF IsReading
  <2>3. ReadInv(e, ctx, n, f[n])
    BY <2>1, <2>2, ReadOr, ReadAndNot, ReadComparison DEF IsComparison, Operators
  <2> QED BY <2>3
<1>4. \A n \in 0..Len(e) : n \in Good
  <2> HIDE DEF Good
  <2> QED BY <1>1, <1>2, <1>3, UpTo
<1> QED BY <1>1, <1>4

LEMMA MeaningReads ==
  ASSUME NEW e, NEW ctx, Grammatical(e)
  PROVE  \E f : /\ IsReading(e, ctx, Len(e), f)
                /\ Meaning(e, ctx) <=> f[Len(e)].any \/ f[Len(e)].all
<1> DEFINE f == CHOOSE g : IsReading(e, ctx, Len(e), g)
<1>1. IsReading(e, ctx, Len(e), f)
  BY ReadingThere, Grammar
<1>2. f = CHOOSE g : g = [n \in 0..Len(e) |->
                            IF n = 0 THEN Start ELSE Read(g[n - 1], e[n], ctx)]
  BY DEF IsReading
<1>3. Meaning(e, ctx) <=> f[Len(e)].any \/ f[Len(e)].all
  <2> HIDE DEF f
  <2> QED BY <1>2 DEF Meaning, Start
<1> HIDE DEF f
<1> QED BY <1>1, <1>3

(* The documented meaning: the comparisons of some disjunct all hold.      *)
LEMMA MeaningIs ==
  ASSUME NEW e, NEW ctx, Grammatical(e)
  PROVE  Meaning(e, ctx) <=>
           \E a, b \in 0..(Len(e) + 1) : Stretch(e, Or, a, b) /\ Terms(e, ctx, a + 1, b - 1)
<1>0. Len(e) \in Nat
  BY Grammar
<1>2. PICK f : /\ IsReading(e, ctx, Len(e), f)
               /\ Meaning(e, ctx) <=> f[Len(e)].any \/ f[Len(e)].all
  BY MeaningReads
<1> DEFINE L == Len(e)
<1>1. L \in Nat /\ L \in 0..L
  BY <1>0
<1>3. ReadInv(e, ctx, L, f[L])
  BY <1>2, ReadAll
<1>4. PICK c \in 0..L : IsLast(Places(e, {Or}), c, L)
  BY <1>1, LastThere
<1>5. f[L].all <=> Terms(e, ctx, c + 1, L)
  BY <1>3, <1>4 DEF ReadInv
<1>6. (L + 1) - 1 = L /\ L + 1 \in 1..(L + 1) /\ L + 1 \in 0..(L + 1) /\ c \in 0..(L + 1)
  BY <1>1
<1>7. Stretch(e, Or, c, L + 1)
  BY <1>4, <1>6 DEF Stretch
<1>8. ASSUME NEW a, Stretch(e, Or, a, L + 1) PROVE a = c
  BY <1>1, <1>4, <1>6, <1>8, LastUnique DEF Stretch
<1>9. ASSUME NEW a \in 0..(L + 1), NEW b \in 0..(L + 1), Stretch(e, Or, a, b), b # L + 1
      PROVE  a \in 0..L /\ b \in 0..L
  BY <1>1, <1>9 DEF Stretch, IsLast
<1>10. 0..L \subseteq 0..(L + 1)
  BY <1>1
<1>11. f[L].any <=> \E a, b \in 0..L : Stretch(e, Or, a, b) /\ Terms(e, ctx, a + 1, b - 1)
  BY <1>3 DEF ReadInv
<1> HIDE DEF L
<1> QED BY <1>2, <1>5, <1>6, <1>7, <1>8, <1>9, <1>10, <1>11 DEF L

-----------------------------------------------------------------------------
(* Splitting.                                                              *)

(* str.split cuts at neighbouring places of the operator.                  *)
LEMMA SplitIs ==
  ASSUME NEW e, NEW op, Len(e) \in Nat
  PROVE  \A x : x \in Split(e, op) <=>
           \E a, b \in 0..(Len(e) + 1) : Stretch(e, op, a, b) /\ x = SubSeq(e, a + 1, b - 1)
<1> DEFINE cuts == {0, Len(e) + 1} \cup {i \in 1..Len(e) : e[i] = op}
           A == {q \in cuts \X cuts : q[1] < q[2] /\ cuts \cap (q[1] + 1)..(q[2] - 1) = {}}
           B == {q \in (0..(Len(e) + 1)) \X (0..(Len(e) + 1)) : Stretch(e, op, q[1], q[2])}
<1>1. ASSUME NEW a \in 0..(Len(e) + 1), NEW b \in 0..(Len(e) + 1)
      PROVE  Stretch(e, op, a, b) <=>
               a \in cuts /\ b \in cuts /\ a < b /\ cuts \cap (a + 1)..(b - 1) = {}
  <2>1. ASSUME Stretch(e, op, a, b)
        PROVE  a \in cuts /\ b \in cuts /\ a < b /\ cuts \cap (a + 1)..(b - 1) = {}
    <3>1. a \in cuts /\ b \in cuts /\ a < b
      BY <2>1 DEF Stretch, IsLast, Places
    <3>2. ASSUME NEW i \in (a + 1)..(b - 1) PROVE i \notin cuts
      <4>1. i \notin Places(e, {op})
        BY <2>1 DEF Stretch, IsLast
      <4>2. i \in 1..Len(e) /\ i # 0 /\ i # Len(e) + 1
        OBVIOUS
      <4> QED BY <4>1, <4>2 DEF Places
    <3> QED BY <3>1, <3>2
  <2>2. ASSUME a \in cuts, b \in cuts, a < b, cuts \cap (a + 1)..(b - 1) = {}
        PROVE  Stretch(e, op, a, b)
    <3>1. a \in 0..(b - 1) /\ (a = 0 \/ a \in Places(e, {op}))
      BY <2>2 DEF Places
    <3>2. b \in 1..(Len(e) + 1) /\ (b = Len(e) + 1 \/ e[b] = op)
      BY <2>2
    <3>3. ASSUME NEW i \in (a + 1)..(b - 1) PROVE i \notin Places(e, {op})
      BY <2>2, <3>3 DEF Places
    <3> QED BY <3>1, <3>2, <3>3 DEF Stretch, IsLast
  <2> QED BY <2>1, <2>2
<1>2. cuts \subseteq 0..(Len(e) + 1)
  OBVIOUS
<1>3. A = B
  <2> HIDE DEF cuts
  <2> QED BY <1>1, <1>2
<1>4. Split(e, op) = {SubSeq(e, p[1] + 1, p[2] - 1) : p \in A}
  BY DEF Split
<1> HIDE DEF A, B
<1>5. Split(e, op) = {SubSeq(e, p[1] + 1, p[2] - 1) : p \in B}
  BY <1>3, <1>4
<1>6. ASSUME NEW x \in Split(e, op)
      PROVE  \E a, b \in 0..(Len(e) + 1) : Stretch(e, op, a, b) /\ x = SubSeq(e, a + 1, b - 1)
  BY <1>5, <1>6 DEF B
<1>7. ASSUME NEW a \in 0..(Len(e) + 1), NEW b \in 0..(Len(e) + 1), Stretch(e, op, a, b)
      PROVE  SubSeq(e, a + 1, b - 1) \in Split(e, op)
  <2>1. <<a, b>> \in B /\ <<a, b>>[1] = a /\ <<a, b>>[2] = b
    BY <1>7 DEF B
  <2> QED BY <2>1, <1>5
<1> QED BY <1>6, <1>7

LEMMA PartIs ==
  ASSUME NEW S, NEW s \in Seq(S), NEW a \in 0..Len(s), NEW b \in (a + 1)..(Len(s) + 1)
  PROVE  /\ SubSeq(s, a + 1, b - 1) \in Seq(S)
         /\ Len(SubSeq(s, a + 1, b - 1)) = b - 1 - a
         /\ \A i \in 1..(b - 1 - a) : SubSeq(s, a + 1, b - 1)[i] = s[a + i]
<1>1. Len(s) \in Nat /\ \A i \in 1..Len(s) : s[i] \in S
  BY LenProperties
<1>2. a + 1 \in Int /\ b - 1 \in Int /\ \A i \in (a + 1)..(b - 1) : s[i] \in S
  BY <1>1
<1> DEFINE p == SubSeq(s, a + 1, b - 1)
<1>3. /\ p \in Seq(S) /\ Len(p) = IF a + 1 <= b - 1 THEN (b - 1) - (a + 1) + 1 ELSE 0
      /\ \A i \in 1..((b - 1) - (a + 1) + 1) : p[i] = s[(a + 1) + i - 1]
  <2> HIDE DEF p
  <2> QED BY <1>2, SubSeqProperties DEF p
<1> HIDE DEF p
<1>4. Len(p) = b - 1 - a
  BY <1>1, <1>3
<1>5. ASSUME NEW i \in 1..(b - 1 - a) PROVE p[i] = s[a + i]
  <2>1. i \in 1..((b - 1) - (a + 1) + 1) /\ (a + 1) + i - 1 = a + i
    BY <1>1
  <2> QED BY <1>3, <2>1
<1> QED BY <1>3, <1>4, <1>5 DEF p

IsPart(p, e, a, b) == p = SubSeq(e, a + 1, b - 1)

(* Between two ORs, and there between two ANDs, is one comparison with its *)
(* NOTs.                                                                   *)
LEMMA StretchIsTerm ==
  ASSUME NEW e, NEW ctx, Grammatical(e),
         NEW a \in 0..(Len(e) + 1), NEW b \in 0..(Len(e) + 1), Stretch(e, Or, a, b),
         NEW p, IsPart(p, e, a, b),
         NEW c \in 0..(Len(p) + 1), NEW d \in 0..(Len(p) + 1), Stretch(p, And, c, d)
  PROVE  /\ a + d - 1 \in (a + 1)..(b - 1) /\ IsComparison(e[a + d - 1])
         /\ Negated(SubSeq(p, c + 1, d - 1), ctx) <=> Term(e, ctx, a + d - 1)
<1> DEFINE w == a + d - 1
<1>1. Len(e) \in Nat /\ e \in Seq(Range(e))
  BY Grammar
<1>2. a \in 0..Len(e) /\ b \in (a + 1)..(Len(e) + 1)
  BY <1>1 DEF Stretch, IsLast
<1>3. /\ p \in Seq(Range(e)) /\ Len(p) = b - 1 - a
      /\ \A i \in 1..(b - 1 - a) : p[i] = e[a + i]
  BY <1>1, <1>2, PartIs DEF IsPart
<1>4. c \in 0..(d - 1) /\ d \in 1..(b - a)
  BY <1>1, <1>2, <1>3 DEF Stretch, IsLast
<1>5. w \in a..(b - 1) /\ w \in a..Len(e)
  BY <1>2, <1>4
<1>6. IsComparison(e[w]) /\ w # 0
  <2>1. CASE w + 1 = Len(e) + 1
    BY <2>1, <1>1, Grammar
  <2>2. CASE w + 1 # Len(e) + 1
    <3>1. e[w + 1] \in Operators
      <4>1. CASE d = Len(p) + 1
        <5>1. b = w + 1
          BY <4>1, <1>1, <1>2, <1>3
        <5> QED BY <5>1, <2>2 DEF Stretch, Operators
      <4>2. CASE d # Len(p) + 1
        <5>1. p[d] = And /\ d \in 1..(b - 1 - a)
          BY <4>2, <1>2, <1>3, <1>4 DEF Stretch
        <5>2. p[d] = e[w + 1]
          <6>1. a + d = w + 1
            BY <1>2, <1>4
          <6> QED BY <5>1, <6>1, <1>3
        <5> QED BY <5>1, <5>2 DEF Operators
      <4> QED BY <4>1, <4>2
    <3>2. w # 0
      <4> SUFFICES ASSUME w = 0 PROVE FALSE
        OBVIOUS
      <4>1. w + 1 = 1
        OBVIOUS
      <4> HIDE DEF w
      <4> QED BY <4>1, <3>1, Grammar
    <3>3. w + 1 \in 2..Len(e) /\ (w + 1) - 1 = w
      BY <3>2, <2>2, <1>1, <1>2, <1>5
    <3> HIDE DEF w
    <3> QED BY <3>1, <3>2, <3>3, Grammar
  <2> QED BY <2>1, <2>2
<1>7. IsLast(Places(e, Operators), a + c, w)
  <2>1. a + c \in 0..w
    BY <1>2, <1>4
  <2>2. a + c = 0 \/ a + c \in Places(e, Operators)
    <3>1. CASE c = 0
      <4>1. a = 0 \/ a \in Places(e, {Or})
        BY DEF Stretch, IsLast
      <4> QED BY <3>1, <4>1, <1>2 DEF Places, Operators
    <3>2. CASE c # 0
      <4>1. p[c] = And /\ c \in 1..(b - 1 - a)
        BY <3>2, <1>2, <1>3, <1>4 DEF Stretch, IsLast, Places
      <4>2. e[a + c] = And /\ a + c \in 1..Len(e)
        BY <4>1, <1>1, <1>2, <1>3
      <4> QED BY <4>2 DEF Places, Operators
    <3> QED BY <3>1, <3>2
  <2>3. ASSUME NEW i \in (a + c + 1)..w PROVE i \notin Places(e, Operators)
    <3>1. i - a \in (c + 1)..(d - 1) /\ i - a \in 1..(b - 1 - a) /\ a + (i - a) = i
      BY <1>2, <1>4
    <3>2. i - a \notin Places(p, {And})
      BY <3>1 DEF Stretch, IsLast
    <3>3. e[i] # And
      BY <3>1, <3>2, <1>3 DEF Places
    <3>4. i \in (a + 1)..(b - 1)
      BY <1>2, <1>4
    <3>5. i \notin Places(e, {Or})
      BY <3>4 DEF Stretch, IsLast
    <3> QED BY <3>3, <3>5 DEF Places, Operators
  <2> QED BY <2>1, <2>2, <2>3 DEF IsLast
<1>8. a + c # w
  <2> SUFFICES ASSUME a + c = w PROVE FALSE
    OBVIOUS
  <2>1. w \in Places(e, Operators)
    BY <1>6, <1>7 DEF IsLast
  <2> QED BY <2>1, <1>6 DEF Places, IsComparison
<1>9. /\ w \in Nat \ {0} /\ IsLast(Places(e, Operators), a + c, w - 1)
      /\ c \in 0..(d - 2) /\ w - (a + c) = d - 1 - c /\ d - 1 \in 1..(b - 1 - a)
      /\ w \in (a + 1)..(b - 1)
  <2>1. w \in Nat \ {0} /\ c # d - 1
    BY <1>2, <1>4, <1>6, <1>8
  <2>2. c \in 0..(d - 2) /\ w - (a + c) = d - 1 - c /\ d - 1 \in 1..(b - 1 - a)
        /\ w \in (a + 1)..(b - 1) /\ a + c \in 0..(w - 1)
    BY <2>1, <1>2, <1>4
  <2>3. \A i \in (a + c + 1)..(w - 1) : i \in (a + c + 1)..w
    BY <2>1, <2>2, <1>2
  <2>4. IsLast(Places(e, Operators), a + c, w - 1)
    <3> HIDE DEF w
    <3> QED BY <2>2, <2>3, <1>7 DEF IsLast
  <2> QED BY <2>1, <2>2, <2>4
<1>10. Term(e, ctx, w) <=> (Word(e[w], ctx) <=> (d - 1 - c) % 2 = 1)
  <2>1. Term(e, ctx, w) <=> (Word(e[w], ctx) <=> (w - (a + c)) % 2 = 1)
    <3> HIDE DEF w
    <3> QED BY <1>9, TermIs
  <2> QED BY <2>1, <1>9
<1> DEFINE q == SubSeq(p, c + 1, d - 1)
<1>11. Len(q) = d - 1 - c /\ q[Len(q)] = e[w]
  <2>1. c \in 0..Len(p) /\ d \in (c + 1)..(Len(p) + 1)
    BY <1>2, <1>3, <1>4, <1>9
  <2>2. /\ Len(q) = d - 1 - c
        /\ \A i \in 1..(d - 1 - c) : q[i] = p[c + i]
    <3>1. p \in Seq(Range(e))
      BY <1>3
    <3> QED BY <2>1, <3>1, PartIs
  <2>3. d - 1 - c \in 1..(d - 1 - c) /\ c + (d - 1 - c) = d - 1 /\ a + (d - 1) = w
    BY <1>2, <1>4, <1>9
  <2>4. q[d - 1 - c] = p[d - 1]
    <3> HIDE DEF q, w
    <3> QED BY <2>2, <2>3
  <2>5. p[d - 1] = e[w]
    BY <2>3, <1>3, <1>9
  <2> HIDE DEF q, w
  <2> QED BY <2>2, <2>4, <2>5
<1> HIDE DEF q, w
<1>12. Negated(q, ctx) <=> (Word(e[w], ctx) <=> (d - 1 - c) % 2 = 1)
  <2>1. (d - 1 - c) % 2 = 0 <=> ~((d - 1 - c) % 2 = 1)
    BY <1>4
  <2> QED BY <2>1, <1>11 DEF Negated
<1> QED BY <1>6, <1>9, <1>10, <1>12 DEF q, w

(* And every comparison there is one of those.                             *)
LEMMA TermIsStretch ==
  ASSUME NEW e, Grammatical(e),
         NEW a \in 0..(Len(e) + 1), NEW b \in 0..(Len(e) + 1), Stretch(e, Or, a, b),
         NEW p, IsPart(p, e, a, b),
         NEW w \in (a + 1)..(b - 1), IsComparison(e[w])
  PROVE  \E c, d \in 0..(Len(p) + 1) : Stretch(p, And, c, d) /\ a + d - 1 = w
<1> DEFINE d == w - a + 1
<1>1. Len(e) \in Nat /\ e \in Seq(Range(e))
  BY Grammar
<1>2. a \in 0..Len(e) /\ b \in (a + 1)..(Len(e) + 1)
  BY <1>1 DEF Stretch, IsLast
<1>3. /\ Len(p) = b - 1 - a
      /\ \A i \in 1..(b - 1 - a) : p[i] = e[a + i]
  BY <1>1, <1>2, PartIs DEF IsPart
<1>4. d \in 2..(Len(p) + 1) /\ d - 1 \in Nat /\ a + d - 1 = w /\ Len(p) \in Nat
  BY <1>2, <1>3
<1>5. d = Len(p) + 1 \/ p[d] = And
  <2> SUFFICES ASSUME d # Len(p) + 1 PROVE p[d] = And
    OBVIOUS
  <2>1. d \in 1..(b - 1 - a) /\ a + d = w + 1
    BY <1>2, <1>3, <1>4
  <2>2. p[d] = e[w + 1]
    BY <2>1, <1>3
  <2>3. w + 1 \in 2..Len(e) /\ (w + 1) - 1 = w /\ w + 1 \in (a + 1)..(b - 1)
    BY <2>1, <1>1, <1>2
  <2>4. e[w + 1] \in Operators
    BY <2>3, Grammar
  <2>5. w + 1 \notin Places(e, {Or})
    BY <2>3 DEF Stretch, IsLast
  <2>6. e[w + 1] # Or
    BY <2>3, <2>5 DEF Places
  <2> QED BY <2>2, <2>4, <2>6 DEF Operators
<1>6. PICK c \in 0..(d - 1) : IsLast(Places(p, {And}), c, d - 1)
  <2>1. d - 1 \in 0..(d - 1)
    BY <1>4
  <2> HIDE DEF d
  <2> QED BY <2>1, <1>4, LastThere
<1>7. Stretch(p, And, c, d)
  <2>1. d \in 1..(Len(p) + 1)
    BY <1>4
  <2> HIDE DEF d
  <2> QED BY <2>1, <1>5, <1>6 DEF Stretch
<1>8. c \in 0..(Len(p) + 1) /\ d \in 0..(Len(p) + 1)
  BY <1>4
<1> HIDE DEF d
<1> QED BY <1>4, <1>7, <1>8

(* Splitting at OR, then at AND, and reading from left to right agree.     *)
LEMMA EvalIsMeaning ==
  ASSUME NEW e, NEW ctx, Grammatical(e)
  PROVE  Eval(e, ctx) <=> Meaning(e, ctx)
<1>1. Len(e) \in Nat /\ e \in Seq(Range(e))
  BY Grammar
<1>2. ASSUME NEW a \in 0..(Len(e) + 1), NEW b \in 0..(Len(e) + 1), Stretch(e, Or, a, b)
      PROVE  (\A q \in Split(SubSeq(e, a + 1, b - 1), And) : Negated(q, ctx)) <=>
               Terms(e, ctx, a + 1, b - 1)
  <2> SUFFICES ASSUME NEW p, IsPart(p, e, a, b)
               PROVE  (\A q \in Split(p, And) : Negated(q, ctx)) <=> Terms(e, ctx, a + 1, b - 1)
    BY DEF IsPart
  <2>1. Len(p) \in Nat
    <3>1. a \in 0..Len(e) /\ b \in (a + 1)..(Len(e) + 1)
      BY <1>1, <1>2 DEF Stretch, IsLast
    <3>2. Len(p) = b - 1 - a
      BY <3>1, <1>1, PartIs DEF IsPart
    <3> QED BY <3>1, <3>2
  <2>2. (\A q \in Split(p, And) : Negated(q, ctx)) <=>
          \A c, d \in 0..(Len(p) + 1) :
            Stretch(p, And, c, d) => Negated(SubSeq(p, c + 1, d - 1), ctx)
    <3>2. \A q : q \in Split(p, And) <=>
            \E c, d \in 0..(Len(p) + 1) : Stretch(p, And, c, d) /\ q = SubSeq(p, c + 1, d - 1)
      BY <2>1, SplitIs
    <3>3. ASSUME \A q \in Split(p, And) : Negated(q, ctx),
                 NEW c \in 0..(Len(p) + 1), NEW d \in 0..(Len(p) + 1), Stretch(p, And, c, d)
          PROVE  Negated(SubSeq(p, c + 1, d - 1), ctx)
      <4>1. SubSeq(p, c + 1, d - 1) \in Split(p, And)
        BY <3>2, <3>3
      <4> QED BY <3>3, <4>1
    <3>4. ASSUME \A c, d \in 0..(Len(p) + 1) :
                   Stretch(p, And, c, d) => Negated(SubSeq(p, c + 1, d - 1), ctx),
                 NEW q \in Split(p, And)
          PROVE  Negated(q, ctx)
      <4>1. PICK c, d \in 0..(Len(p) + 1) : Stretch(p, And, c, d) /\ q = SubSeq(p, c + 1, d - 1)
        BY <3>2
      <4> QED BY <3>4, <4>1
    <3> QED BY <3>3, <3>4
  <2>3. ASSUME NEW c \in 0..(Len(p) + 1), NEW d \in 0..(Len(p) + 1), Stretch(p, And, c, d)
        PROVE  /\ a + d - 1 \in (a + 1)..(b - 1) /\ IsComparison(e[a + d - 1])
               /\ Negated(SubSeq(p, c + 1, d - 1), ctx) <=> Term(e, ctx, a + d - 1)
    BY <2>3, <1>2, StretchIsTerm
  <2>4. ASSUME NEW w \in (a + 1)..(b - 1), IsComparison(e[w])
        PROVE  \E c, d \in 0..(Len(p) + 1) : Stretch(p, And, c, d) /\ a + d - 1 = w
    BY <2>4, <1>2, TermIsStretch
  <2>5. ASSUME \A c, d \in 0..(Len(p) + 1) :
                 Stretch(p, And, c, d) => Negated(SubSeq(p, c + 1, d - 1), ctx),
               NEW w \in (a + 1)..(b - 1), IsComparison(e[w])
        PROVE  Term(e, ctx, w)
    <3>1. PICK c, d \in 0..(Len(p) + 1) : Stretch(p, And, c, d) /\ a + d - 1 = w
      BY <2>4, <2>5
    <3> QED BY <3>1, <2>3, <2>5
  <2> QED BY <2>2, <2>3, <2>5 DEF Terms
<1>3. Eval(e, ctx) <=>
        \E a, b \in 0..(Len(e) + 1) :
          /\ Stretch(e, Or, a, b)
          /\ \A q \in Split(SubSeq(e, a + 1, b - 1), And) : Negated(q, ctx)
  <2>1. \A p : p \in Split(e, Or) <=>
          \E a, b \in 0..(Len(e) + 1) : Stretch(e, Or, a, b) /\ p = SubSeq(e, a + 1, b - 1)
    BY <1>1, SplitIs
  <2> QED BY <2>1 DEF Eval
<1> QED BY <1>2, <1>3, MeaningIs

-----------------------------------------------------------------------------
(* The rule.                                                               *)

(* The last outcome is that of an evaluation of what is there now.         *)
RuleInv ==
  /\ rule \in Rules /\ world \in Worlds(rule)
  /\ outcome # None => \E answer \in Answers : outcome = Evaluated(answer)

LEMMA RuleInvInit == Init => RuleInv
BY DEF Init, RuleInv

LEMMA RuleInvStep == RuleInv /\ [Next]_vars => RuleInv'
<1> SUFFICES ASSUME RuleInv, [Next]_vars PROVE RuleInv'
  OBVIOUS
<1>1. ASSUME rule' = rule, world' = world
      PROVE  Answers' = Answers /\ \A answer : Evaluated(answer)' = Evaluated(answer)
  BY <1>1 DEF Answers, Evaluated
<1>2. CASE Evaluate
  <2>1. PICK answer \in Answers : outcome' = Evaluated(answer)
    BY <1>2 DEF Evaluate
  <2>2. rule' = rule /\ world' = world
    BY <1>2 DEF Evaluate
  <2>3. answer \in Answers' /\ outcome' = Evaluated(answer)'
    BY <1>1, <2>1, <2>2
  <2> QED BY <2>2, <2>3 DEF RuleInv
<1>3. CASE WorldChanges
  BY <1>3 DEF WorldChanges, RuleInv
<1>4. CASE UNCHANGED vars
  <2>1. rule' = rule /\ world' = world /\ outcome' = outcome
    BY <1>4 DEF vars
  <2>2. Answers' = Answers /\ \A answer : Evaluated(answer)' = Evaluated(answer)
    BY <1>1, <2>1
  <2> QED BY <2>1, <2>2 DEF RuleInv
<1> QED BY <1>2, <1>3, <1>4 DEF Next

LEMMA RuleInvAlways == Spec => []RuleInv
BY RuleInvInit, RuleInvStep, PTL DEF Spec

(* A condition of a rule, and when it matches.                             *)
LEMMA MatchesIs ==
  ASSUME rule \in Rules, NEW i \in DOMAIN rule, NEW ctx
  PROVE  /\ IsCondition(rule[i])
         /\ Matches(rule[i], ctx) <=> rule[i].default \/ Meaning(rule[i].when, ctx)
<1>1. IsCondition(rule[i])
  BY RuleConditionsAssumption
<1>2. rule[i].default \/ Grammatical(rule[i].when)
  BY <1>1 DEF IsCondition
<1> QED BY <1>1, <1>2, EvalIsMeaning DEF Matches

(* The value is that of the first condition that matches, None if none does*)
LEMMA FirstMatchIs ==
  ASSUME rule \in Rules, NEW ctx
  PROVE  \/ /\ FirstMatch(rule, ctx) = None
            /\ \A i \in DOMAIN rule : ~Matches(rule[i], ctx)
         \/ \E i \in DOMAIN rule :
              /\ FirstMatch(rule, ctx) = Resolved(rule[i].value, ctx)
              /\ Matches(rule[i], ctx)
              /\ \A j \in 1..(i - 1) : j \in DOMAIN rule /\ ~Matches(rule[j], ctx)
<1> DEFINE I == {i \in DOMAIN rule : Matches(rule[i], ctx)}
           m == CHOOSE i \in I : \A j \in I : i <= j
<1>1. FirstMatch(rule, ctx) = IF I = {} THEN None ELSE Resolved(rule[m].value, ctx)
  BY DEF FirstMatch
<1>2. CASE I = {}
  BY <1>1, <1>2
<1>3. CASE I # {}
  <2>1. rule \in Seq(Range(rule))
    BY RuleConditionsAssumption
  <2>2. DOMAIN rule = 1..Len(rule) /\ Len(rule) \in Nat
    BY <2>1, LenProperties
  <2>3. I \in SUBSET Nat
    BY <2>2
  <2>4. m \in I /\ \A j \in I : m <= j
    <3> HIDE DEF I
    <3> QED BY <1>3, <2>3, LeastNat
  <2> HIDE DEF m
  <2>5. m \in 1..Len(rule)
    BY <2>2, <2>4
  <2>6. ASSUME NEW j \in 1..(m - 1) PROVE j \in DOMAIN rule /\ j \notin I
    BY <2>2, <2>4, <2>5
  <2>7. \A j \in 1..(m - 1) : j \in DOMAIN rule /\ ~Matches(rule[j], ctx)
    BY <2>6
  <2> QED BY <1>1, <1>3, <2>4, <2>7
<1> QED BY <1>2, <1>3

(* AND binds tighter than OR, NOT tighter than AND, and the first condition*)
(* that holds, or is a default, decides.                                   *)
THEOREM FirstMatchCorrect == Spec => []FirstMatchWins
<1>1. RuleInv => FirstMatchWins
  <2> SUFFICES ASSUME RuleInv, outcome # None, outcome.value # None
               PROVE  \E i \in DOMAIN rule :
                        /\ Yields(i) = outcome.value
                        /\ rule[i].default \/ Meaning(rule[i].when, Now)
                        /\ \A j \in 1..(i - 1) : ~rule[j].default /\ ~Meaning(rule[j].when, Now)
    BY DEF FirstMatchWins
  <2>1. PICK answer \in Answers : outcome = Evaluated(answer)
    BY DEF RuleInv
  <2>2. outcome.value = FirstMatch(rule, Now)
    BY <2>1 DEF Evaluated, Now
  <2>3. rule \in Rules
    BY DEF RuleInv
  <2>4. PICK i \in DOMAIN rule :
           /\ FirstMatch(rule, Now) = Resolved(rule[i].value, Now)
           /\ Matches(rule[i], Now)
           /\ \A j \in 1..(i - 1) : j \in DOMAIN rule /\ ~Matches(rule[j], Now)
    BY <2>2, <2>3, FirstMatchIs
  <2>5. Yields(i) = outcome.value
    BY <2>2, <2>4 DEF Yields
  <2> QED BY <2>3, <2>4, <2>5, MatchesIs
<1> QED BY <1>1, RuleInvAlways, PTL

-----------------------------------------------------------------------------
(* The context.  Every name in it is a number or a text.                   *)
Typed(f) == \A k \in DOMAIN f : f[k] \in Int \cup Texts

LEMMA MergeIs ==
  ASSUME NEW f, NEW g, NEW k
  PROVE  /\ k \in DOMAIN (f ++ g) <=> k \in DOMAIN f \/ k \in DOMAIN g
         /\ k \in DOMAIN f => (f ++ g)[k] = f[k]
         /\ k \notin DOMAIN f /\ k \in DOMAIN g => (f ++ g)[k] = g[k]
BY DEF ++

LEMMA MergeTyped ==
  ASSUME NEW f, NEW g, Typed(f), Typed(g)
  PROVE  Typed(f ++ g)
BY DEF Typed, ++

LEMMA BitType == \A b : Bit(b) \in {0, 1} /\ (Bit(b) = 1 <=> b)
BY DEF Bit

LEMMA AboveType == \A x, y \in Int : Above(x, y) \in Nat /\ Above(x, y) \in Int
BY DEF Above

LEMMA NumberType ==
  ASSUME NEW states, Typed(states)
  PROVE  \A e : Number(states, e) \in Int
BY DEF Number, Typed

LEMMA NumbersType ==
  ASSUME NEW states, Typed(states)
  PROVE  /\ Typed(Numbers(states))
         /\ \A k \in Measured : Numbers(states)[k] \in Int
BY NumberType DEF Numbers, Typed

LEMMA ClockTyped ==
  ASSUME NEW t \in [hour : 0..23, minute : 0..59, weekday : 0..6]
  PROVE  Typed(Clock(t))
BY BitType DEF Clock, Typed

LEMMA TimeOfDayTyped == \A hour : Typed(TimeOfDay(hour))
BY BitType DEF TimeOfDay, Typed

LEMMA PvTyped ==
  ASSUME NEW number, Typed(number), NEW summary \in {None} \cup [today : Int, tomorrow : Int, next : Int]
  PROVE  Typed(WithPvForecast(number, summary))
<1>1. /\ Typed([pv_forecast_next_4h_kwh |-> 0, pv_forecast_source |-> Sensor])
      /\ Typed([pv_forecast_next_4h_kwh |-> 0, pv_forecast_source |-> NoSource])
  BY DEF Typed, Texts
<1>2. summary # None =>
        Typed([pv_forecast_kwh |-> summary.tomorrow, pv_forecast_today_kwh |-> summary.today,
               pv_forecast_next_4h_kwh |-> summary.next, pv_forecast_source |-> OpenMeteo])
  BY DEF Typed, Texts
<1> QED BY <1>1, <1>2, MergeTyped DEF WithPvForecast

LEMMA EnergyTyped ==
  ASSUME NEW number, \A k \in Measured : number[k] \in Int, NEW tomorrow
  PROVE  Typed(Energy(number, tomorrow))
<1>1. {"pv_power", "house_consumption"} \subseteq Measured
  BY DEF Measured
<1>2. /\ Above(number["pv_power"], number["house_consumption"]) \in Int
      /\ Above(number["house_consumption"], number["pv_power"]) \in Int
  BY <1>1, AboveType
<1> QED BY <1>2, BitType DEF Energy, Typed

LEMMA PresenceTyped == \A states : Typed(Presence(states))
BY BitType DEF Presence, Typed

LEMMA PccTyped ==
  ASSUME NEW number, \A k \in Measured : number[k] \in Int
  PROVE  Typed(Pcc(number))
<1>1. {"grid_import", "grid_export"} \subseteq Measured
  BY DEF Measured
<1>2. number["grid_import"] \in Int /\ number["grid_export"] \in Int /\ PccLimit \in Int
  BY <1>1, ContextAssumption
<1>3. Above(number["grid_import"], 0) \in Int
  BY <1>2 DEF Above
<1>4. Above(PccLimit, Above(number["grid_import"], 0)) \in Int
  BY <1>2, <1>3, AboveType
<1> QED BY <1>2, <1>4, BitType DEF Pcc, Typed

LEMMA BatteryTyped ==
  ASSUME NEW soc \in Int
  PROVE  Typed(Battery(soc))
<1>1. Capacity * soc \in Int /\ Capacity * Above(1000, soc) \in Int
  BY AboveType, ContextAssumption
<1> QED BY <1>1, BitType, ContextAssumption DEF Battery, Typed

LEMMA DsoTyped ==
  ASSUME NEW states, Typed(states)
  PROVE  Typed(Dso(states))
BY BitType, NumberType DEF Dso, Typed

(* The first candidate is one that satisfies the test.                     *)
LEMMA Co2Typed ==
  ASSUME NEW states, Typed(states)
  PROVE  Typed(GridCo2(states))
<1> DEFINE Positive(e) == Number(states, e) > 0
           Share(e) == e \in DOMAIN states /\ states[e] \notin Texts /\ states[e] \in 0..1000
           intensity == FirstOf(<<"co2_intensity", "co2_signal_intensity">>, Positive)
           fossil == FirstOf(<<"fossil_percentage", "co2_signal_fossil">>, Share)
<1>1. intensity # None => states[intensity] \in Int
  <2> DEFINE e == <<"co2_intensity", "co2_signal_intensity">>
             I == {i \in DOMAIN e : Positive(e[i])}
  <2>1. I \in SUBSET Nat
    OBVIOUS
  <2>2. I # {} => Min(I) \in I
    <3> HIDE DEF I
    <3> QED BY <2>1, LeastNat DEF Min
  <2>3. intensity # None => I # {} /\ intensity = e[Min(I)]
    BY DEF FirstOf
  <2>4. intensity # None => Positive(intensity)
    BY <2>2, <2>3
  <2>5. ASSUME NEW x, Number(states, x) > 0 PROVE states[x] \in Int
    BY <2>5 DEF Number, Typed
  <2> HIDE DEF intensity
  <2> QED BY <2>4, <2>5
<1>2. fossil # None => states[fossil] \in Int
  <2> DEFINE e == <<"fossil_percentage", "co2_signal_fossil">>
             I == {i \in DOMAIN e : Share(e[i])}
  <2> HIDE DEF Share
  <2>1. I \in SUBSET Nat
    OBVIOUS
  <2>2. I # {} => Min(I) \in I
    <3> HIDE DEF I
    <3> QED BY <2>1, LeastNat DEF Min
  <2>3. fossil # None => I # {} /\ fossil = e[Min(I)]
    BY DEF FirstOf
  <2>4. fossil # None => Share(fossil)
    BY <2>2, <2>3
  <2> HIDE DEF fossil
  <2> QED BY <2>4 DEF Share
<1>3. GridCo2(states) = [grid_co2_kg_per_kwh |->
         IF intensity # None THEN states[intensity]
         ELSE IF fossil # None THEN 500 + 5 * states[fossil] ELSE 1280]
  BY DEF GridCo2
<1> HIDE DEF intensity, fossil
<1> QED BY <1>1, <1>2, <1>3 DEF Typed

-----------------------------------------------------------------------------
(* Finite sets of numbers.                                                 *)

LEMMA OneLess ==
  ASSUME NEW S, IsFiniteSet(S), NEW x \in S
  PROVE  /\ IsFiniteSet(S \ {x}) /\ Cardinality(S) \in Nat \ {0}
         /\ Cardinality(S \ {x}) = Cardinality(S) - 1
<1>1. IsFiniteSet(S \ {x}) /\ Cardinality(S) \in Nat /\ Cardinality(S \ {x}) \in Nat
  BY FS_RemoveElement, FS_CardinalityType
<1>2. Cardinality(S \ {x}) = Cardinality(S) - 1
  BY FS_RemoveElement
<1> QED BY <1>1, <1>2

(* What each part of a finite set has once the parts without one element   *)
(* have it, the set has.                                                   *)
LEMMA SetInduct ==
  ASSUME NEW S, IsFiniteSet(S), NEW G, {} \in G,
         \A s \in SUBSET S : s # {} /\ (\A x \in s : s \ {x} \in G) => s \in G
  PROVE  \A s \in SUBSET S : s \in G
<1> DEFINE Good == {n \in 0..Cardinality(S) :
                     \A s \in SUBSET S : Cardinality(s) = n => s \in G}
<1>1. ASSUME NEW s \in SUBSET S
      PROVE  IsFiniteSet(s) /\ Cardinality(s) \in 0..Cardinality(S) /\ Cardinality(S) \in Nat
  BY FS_Subset, FS_CardinalityType
<1>2. 0 \in Good
  <2>1. \A s \in SUBSET S : Cardinality(s) = 0 => s = {}
    BY <1>1, FS_EmptySet
  <2> QED BY <2>1, <1>1
<1>3. ASSUME NEW n \in 1..Cardinality(S), n - 1 \in Good PROVE n \in Good
  <2>1. ASSUME NEW s \in SUBSET S, Cardinality(s) = n PROVE s \in G
    <3>1. s # {}
      <4>1. Cardinality({}) = 0 /\ n # 0
        BY FS_EmptySet
      <4> QED BY <4>1, <2>1
    <3>2. ASSUME NEW x \in s PROVE s \ {x} \in G
      <4>1. s \ {x} \in SUBSET S /\ Cardinality(s \ {x}) = n - 1
        BY <1>1, <2>1, OneLess
      <4> QED BY <4>1, <1>3
    <3> QED BY <3>1, <3>2
  <2> QED BY <2>1
<1>4. \A n \in 0..Cardinality(S) : n \in Good
  <2>1. Cardinality(S) \in Nat
    BY FS_CardinalityType
  <2> HIDE DEF Good
  <2> QED BY <1>2, <1>3, <2>1, UpTo
<1> QED BY <1>1, <1>4

(* The least and the greatest are there.                                   *)
LEMMA Extremes ==
  ASSUME NEW S \in SUBSET Int, IsFiniteSet(S), S # {}
  PROVE  /\ Min(S) \in S /\ \A x \in S : Min(S) <= x
         /\ Max(S) \in S /\ \A x \in S : x <= Max(S)
<1> DEFINE G == {s \in SUBSET S : s # {} => /\ \E x \in s : \A y \in s : x <= y
                                           /\ \E x \in s : \A y \in s : x >= y}
<1>1. ASSUME NEW s \in SUBSET S, s # {}, \A x \in s : s \ {x} \in G PROVE s \in G
  <2>1. PICK x \in s : TRUE
    BY <1>1
  <2>2. CASE s \ {x} = {}
    <3>1. s = {x} /\ x \in Int
      BY <2>1, <2>2
    <3> QED BY <3>1
  <2>3. CASE s \ {x} # {}
    <3>1. s \ {x} \in G
      BY <1>1, <2>1
    <3>2. PICK l \in s \ {x} : \A y \in s \ {x} : l <= y
      BY <2>3, <3>1
    <3>3. PICK g \in s \ {x} : \A y \in s \ {x} : g >= y
      BY <2>3, <3>1
    <3>4. x \in Int /\ l \in Int /\ g \in Int /\ s \subseteq Int
      BY <2>1, <3>2, <3>3
    <3>5. \E m \in s : \A y \in s : m <= y
      <4>1. CASE x <= l
        <5>1. \A y \in s : x <= y
          BY <4>1, <3>2, <3>4
        <5> QED BY <5>1, <2>1
      <4>2. CASE l <= x
        <5>1. \A y \in s : l <= y
          BY <4>2, <3>2, <3>4
        <5> QED BY <5>1, <3>2
      <4> QED BY <4>1, <4>2, <3>4
    <3>6. \E m \in s : \A y \in s : m >= y
      <4>1. CASE x >= g
        <5>1. \A y \in s : x >= y
          BY <4>1, <3>3, <3>4
        <5> QED BY <5>1, <2>1
      <4>2. CASE g >= x
        <5>1. \A y \in s : g >= y
          BY <4>2, <3>3, <3>4
        <5> QED BY <5>1, <3>3
      <4> QED BY <4>1, <4>2, <3>4
    <3> QED BY <3>5, <3>6
  <2> QED BY <2>2, <2>3
<1>2. S \in G
  <2>1. {} \in G
    OBVIOUS
  <2> HIDE DEF G
  <2> QED BY <2>1, <1>1, SetInduct
<1>3. \E x \in S : \A y \in S : x <= y
  BY <1>2
<1>4. \E x \in S : \A y \in S : x >= y
  BY <1>2
<1>5. Min(S) \in S /\ \A x \in S : Min(S) <= x
  BY <1>3 DEF Min
<1>6. Max(S) \in S /\ \A x \in S : Max(S) >= x
  BY <1>4 DEF Max
<1> QED BY <1>5, <1>6

(* The recursion by which SumFunction adds up, whose values are numbers.   *)
Pick(s) == CHOOSE x \in s : TRUE
Sums(fun, sets, f) ==
  f = [s \in sets |-> IF s = {} THEN 0 ELSE fun[Pick(s)] + f[s \ {Pick(s)}]]

LEMMA SumsThere ==
  ASSUME NEW fun, NEW S, IsFiniteSet(S)
  PROVE  \E f : Sums(fun, SUBSET S, f)
<1> DEFINE Small(n) == {s \in SUBSET S : Cardinality(s) <= n}
           Good == {n \in 0..Cardinality(S) : \E f : Sums(fun, Small(n), f)}
<1>1. ASSUME NEW s \in SUBSET S
      PROVE  /\ IsFiniteSet(s) /\ Cardinality(s) \in Nat /\ Cardinality(s) <= Cardinality(S)
             /\ Cardinality(S) \in Nat
  BY FS_Subset, FS_CardinalityType
<1>2. 0 \in Good
  <2>1. ASSUME NEW s \in Small(0) PROVE s = {}
    BY <1>1, <2>1, FS_EmptySet
  <2>2. Sums(fun, Small(0), [s \in Small(0) |-> 0])
    <3> HIDE DEF Small
    <3> QED BY <2>1 DEF Sums
  <2>3. 0 \in 0..Cardinality(S)
    BY <1>1
  <2> HIDE DEF Small
  <2> QED BY <2>2, <2>3
<1>3. ASSUME NEW n \in 1..Cardinality(S), n - 1 \in Good PROVE n \in Good
  <2>1. PICK f : Sums(fun, Small(n - 1), f)
    BY <1>3
  <2> DEFINE g == [s \in Small(n) |-> IF s = {} THEN 0 ELSE fun[Pick(s)] + f[s \ {Pick(s)}]]
  <2>2. ASSUME NEW s \in Small(n), s # {}
        PROVE  s \ {Pick(s)} \in Small(n - 1) /\ s \ {Pick(s)} \in Small(n)
    <3>1. Pick(s) \in s /\ s \in SUBSET S /\ Cardinality(s) <= n
      BY <2>2 DEF Pick
    <3>2. s \ {Pick(s)} \in SUBSET S /\ Cardinality(s \ {Pick(s)}) = Cardinality(s) - 1
          /\ Cardinality(s) \in Nat
      BY <1>1, <3>1, OneLess
    <3> QED BY <3>1, <3>2
  <2>3. ASSUME NEW s \in Small(n - 1) PROVE g[s] = f[s]
    <3>1. s \in Small(n)
      BY <1>1
    <3> HIDE DEF Small
    <3> QED BY <2>1, <2>3, <3>1 DEF Sums
  <2>4. ASSUME NEW s \in Small(n), s # {} PROVE f[s \ {Pick(s)}] = g[s \ {Pick(s)}]
    <3> HIDE DEF Small, g
    <3> QED BY <2>2, <2>3, <2>4
  <2>5. g = [s \in Small(n) |-> IF s = {} THEN 0 ELSE fun[Pick(s)] + g[s \ {Pick(s)}]]
    <3> HIDE DEF Small
    <3> QED BY <2>4
  <2>6. Sums(fun, Small(n), g)
    <3> HIDE DEF Small, g
    <3> QED BY <2>5 DEF Sums
  <2> HIDE DEF Small, g
  <2> QED BY <2>6
<1>4. Cardinality(S) \in Good
  <2>1. Cardinality(S) \in Nat
    BY FS_CardinalityType
  <2>2. \A n \in 0..Cardinality(S) : n \in Good
    <3> HIDE DEF Good
    <3> QED BY <2>1, <1>2, <1>3, UpTo
  <2>3. Cardinality(S) \in 0..Cardinality(S)
    BY <2>1
  <2> HIDE DEF Good
  <2> QED BY <2>2, <2>3
<1>5. Small(Cardinality(S)) = SUBSET S
  BY <1>1
<1> HIDE DEF Small
<1> QED BY <1>4, <1>5

LEMMA SumType ==
  ASSUME NEW fun, IsFiniteSet(DOMAIN fun), \A x \in DOMAIN fun : fun[x] \in Int
  PROVE  SumFunction(fun) \in Int
<1> DEFINE S == DOMAIN fun
           f == CHOOSE g : Sums(fun, SUBSET S, g)
           G == {s \in SUBSET S : f[s] \in Int}
<1>1. Sums(fun, SUBSET S, f)
  BY SumsThere
<1>2. SumFunction(fun) = f[S]
  BY DEF SumFunction, SumFunctionOnSet, FoldFunctionOnSet, MapThenFoldSet, Sums, Pick
<1> HIDE DEF f
<1>3. {} \in G
  BY <1>1 DEF Sums
<1>4. ASSUME NEW s \in SUBSET S, s # {}, \A x \in s : s \ {x} \in G PROVE s \in G
  <2>1. Pick(s) \in s
    BY <1>4 DEF Pick
  <2>2. fun[Pick(s)] \in Int /\ f[s \ {Pick(s)}] \in Int
    BY <1>4, <2>1
  <2>3. f[s] = fun[Pick(s)] + f[s \ {Pick(s)}]
    BY <1>1, <1>4 DEF Sums
  <2> QED BY <2>2, <2>3
<1>5. S \in G
  <2>1. IsFiniteSet(S) /\ S \in SUBSET S
    OBVIOUS
  <2> HIDE DEF G, S
  <2> QED BY <2>1, <1>3, <1>4, SetInduct
<1> QED BY <1>2, <1>5

LEMMA TariffTyped ==
  ASSUME NEW t, NEW states, NEW prices \in Seq([hour : Int, price : Int])
  PROVE  Typed(Tariff(t, states, prices))
<1> DEFINE next == NextThree(t, prices)
           values == {prices[i].price : i \in next}
           costs == [i \in next |-> prices[i].price]
           known == "spot_price" \in DOMAIN states /\ next # {}
<1>1. Len(prices) \in Nat /\ DOMAIN prices = 1..Len(prices)
      /\ \A i \in DOMAIN prices : prices[i].price \in Int
  <2>1. /\ Len(prices) \in Nat /\ DOMAIN prices = 1..Len(prices)
        /\ prices \in [1..Len(prices) -> [hour : Int, price : Int]]
    BY LenProperties
  <2> QED BY <2>1
<1>2. next \in SUBSET (1..Len(prices)) /\ \A i \in next : prices[i].price \in Int
  BY <1>1 DEF NextThree
<1>3. IsFiniteSet(next) /\ Cardinality(next) \in Nat
      /\ (next # {} => Cardinality(next) # 0)
  <2>1. IsFiniteSet(1..Len(prices))
    BY <1>1, FS_Interval
  <2> HIDE DEF next
  <2> QED BY <2>1, <1>2, FS_Subset, FS_CardinalityType, FS_EmptySet
<1> HIDE DEF next
<1>4. values \in SUBSET Int /\ IsFiniteSet(values) /\ (next # {} => values # {})
  <2>1. costs \in Surjection(next, values)
    BY DEF Surjection
  <2>2. IsFiniteSet(values)
    <3> HIDE DEF costs, values
    <3> QED BY <2>1, <1>3, FS_Surjection
  <2> QED BY <2>2, <1>2
<1>5. next # {} => Min(values) \in Int /\ Max(values) \in Int
  <2> HIDE DEF values
  <2> QED BY <1>4, Extremes
<1>6. SumFunction(costs) \in Int
  <2>1. DOMAIN costs = next /\ \A i \in next : costs[i] \in Int
    BY <1>2
  <2> HIDE DEF costs
  <2> QED BY <2>1, <1>3, SumType
<1>7. next # {} => SumFunction(costs) \div Cardinality(next) \in Int
  <2> HIDE DEF costs
  <2> QED BY <1>3, <1>6
<1>8. Tariff(t, states, prices) =
        [tariff_next_3h_min |-> IF known THEN Min(values) ELSE 0,
         tariff_next_3h_max |-> IF known THEN Max(values) ELSE 0,
         tariff_next_3h_avg |-> IF known THEN SumFunction(costs) \div Cardinality(next) ELSE 0,
         tariff_in_lowest_quartile_today |->
           Bit("spot_price" \in DOMAIN states /\ InLowestQuartile(states["spot_price"], prices))]
  BY DEF Tariff, next
<1> HIDE DEF values, costs
<1> QED BY <1>5, <1>7, <1>8, BitType DEF Typed

-----------------------------------------------------------------------------
(* The cars.                                                               *)

LEMMA CarIs ==
  ASSUME NEW k \in Cars
  PROVE  /\ Len(Vehicles) \in Nat /\ Cars = 1..Len(Vehicles)
         /\ Vehicles[k] \in [slug : STRING, enabled : BOOLEAN, min_soc : Nat, capacity : Nat,
                             require_plugged : BOOLEAN,
                             window : {<<>>} \cup (0..24) \X (0..24)]
<1> DEFINE V == [slug : STRING, enabled : BOOLEAN, min_soc : Nat, capacity : Nat,
                 require_plugged : BOOLEAN, window : {<<>>} \cup (0..24) \X (0..24)]
<1>1. Vehicles \in Seq(V)
  BY ContextAssumption
<1> HIDE DEF V
<1>2. /\ Len(Vehicles) \in Nat /\ DOMAIN Vehicles = 1..Len(Vehicles)
      /\ Vehicles \in [1..Len(Vehicles) -> V]
  BY <1>1, LenProperties
<1> QED BY <1>2 DEF Cars, V

LEMMA CarTyped ==
  ASSUME NEW k \in Cars, NEW h, NEW states, Typed(states)
  PROVE  \A x \in CarKeys : Car(k, h, states)[x] \in Int
<1> DEFINE v == Vehicles[k]
           soc == Number(states, "soc_" \o v.slug)
<1>1. soc \in Int /\ Number(states, "power_" \o v.slug) \in Int
  BY NumberType
<1>2. v.min_soc \in Int /\ v.capacity \in Int
  BY CarIs
<1>3. v.capacity * Above(soc, v.min_soc) \in Int
  <2>1. Above(soc, v.min_soc) \in Int
    <3> HIDE DEF soc, v
    <3> QED BY <1>1, <1>2, AboveType
  <2> HIDE DEF soc, v
  <2> QED BY <2>1, <1>2
<1>4. \E b, c : Car(k, h, states) =
                  [soc |-> soc, plugged |-> Bit(b),
                   charging_power |-> Number(states, "power_" \o v.slug), v2h_available |-> Bit(c),
                   v2h_reserve_kwh |-> v.capacity * Above(soc, v.min_soc)]
  BY DEF Car
<1> HIDE DEF soc, v
<1> QED BY <1>1, <1>3, <1>4, BitType DEF CarKeys

LEMMA CarContextTyped ==
  ASSUME NEW h, NEW states, Typed(states)
  PROVE  Typed(CarContext(h, states))
<1> DEFINE Named(slug) == Car(LastNamed(slug), h, states)
           slugs == {Vehicles[k].slug : k \in Cars}
           able == {k \in Cars : Car(k, h, states).v2h_available = 1}
           named == [key \in {CarKey(p[1], p[2]) : p \in slugs \X CarKeys} |->
                       LET p == CHOOSE q \in slugs \X CarKeys : key = CarKey(q[1], q[2])
                       IN  Named(p[1])[p[2]]]
           first == [key \in {FirstCarKey(x) : x \in CarKeys} |->
                       Named(Vehicles[1].slug)[CHOOSE x \in CarKeys : key = FirstCarKey(x)]]
           reserves == [k \in able |-> Car(k, h, states).v2h_reserve_kwh]
           total == [v2h_available |-> Bit(able # {}),
                     v2h_reserve_kwh_total |-> SumFunction(reserves)]
<1>1. Len(Vehicles) \in Nat /\ Cars = 1..Len(Vehicles)
  BY ContextAssumption, LenProperties DEF Cars
<1>2. ASSUME NEW slug \in slugs PROVE LastNamed(slug) \in Cars
  <2> DEFINE S == {k \in Cars : Vehicles[k].slug = slug}
  <2>1. S # {} /\ S \in SUBSET Int /\ S \in SUBSET Cars
    BY <1>1
  <2>2. IsFiniteSet(S)
    <3>1. IsFiniteSet(Cars)
      BY <1>1, FS_Interval
    <3> HIDE DEF S
    <3> QED BY <2>1, <3>1, FS_Subset
  <2>3. Max(S) \in S
    <3> HIDE DEF S
    <3> QED BY <2>1, <2>2, Extremes
  <2> QED BY <2>3 DEF LastNamed
<1>3. ASSUME NEW slug \in slugs, NEW x \in CarKeys PROVE Named(slug)[x] \in Int
  BY <1>2, CarTyped
<1>4. Typed(named)
  <2>1. ASSUME NEW key \in {CarKey(p[1], p[2]) : p \in slugs \X CarKeys}
        PROVE  named[key] \in Int
    <3> DEFINE p == CHOOSE q \in slugs \X CarKeys : key = CarKey(q[1], q[2])
    <3>1. \E q \in slugs \X CarKeys : key = CarKey(q[1], q[2])
      OBVIOUS
    <3>2. p \in slugs \X CarKeys
      <4> HIDE DEF slugs
      <4> QED BY <3>1
    <3>3. named[key] = Named(p[1])[p[2]]
      OBVIOUS
    <3> HIDE DEF p, Named, named, slugs
    <3> QED BY <3>2, <3>3, <1>3
  <2> QED BY <2>1 DEF Typed
<1>5. Vehicles # <<>> => Typed(first)
  <2> SUFFICES ASSUME Vehicles # <<>> PROVE Typed(first)
    OBVIOUS
  <2>1. Vehicles[1].slug \in slugs
    <3>1. 1 \in Cars
      BY <1>1, ContextAssumption, EmptySeq
    <3> QED BY <3>1
  <2>2. ASSUME NEW key \in {FirstCarKey(x) : x \in CarKeys} PROVE first[key] \in Int
    <3> DEFINE x == CHOOSE y \in CarKeys : key = FirstCarKey(y)
    <3>1. x \in CarKeys
      OBVIOUS
    <3>2. first[key] = Named(Vehicles[1].slug)[x]
      OBVIOUS
    <3> HIDE DEF x, Named, first, slugs
    <3> QED BY <2>1, <3>1, <3>2, <1>3
  <2> QED BY <2>2 DEF Typed
<1>6. Typed(total)
  <2>1. IsFiniteSet(able)
    <3>1. IsFiniteSet(Cars) /\ able \in SUBSET Cars
      BY <1>1, FS_Interval
    <3> HIDE DEF able
    <3> QED BY <3>1, FS_Subset
  <2>2. ASSUME NEW k \in able PROVE reserves[k] \in Int
    <3>1. Car(k, h, states)["v2h_reserve_kwh"] \in Int
      BY CarTyped DEF CarKeys
    <3>2. reserves[k] = Car(k, h, states).v2h_reserve_kwh
      OBVIOUS
    <3> HIDE DEF reserves, able
    <3> QED BY <3>1, <3>2
  <2>3. SumFunction(reserves) \in Int
    <3>1. DOMAIN reserves = able
      OBVIOUS
    <3> HIDE DEF reserves, able
    <3> QED BY <2>1, <2>2, <3>1, SumType
  <2> HIDE DEF reserves, able
  <2> QED BY <2>3, BitType DEF Typed
<1>7. CarContext(h, states) = IF Vehicles = <<>> THEN total ELSE total ++ first ++ named
  BY DEF CarContext
<1> HIDE DEF total, first, named
<1> QED BY <1>4, <1>5, <1>6, <1>7, MergeTyped

LEMMA LoadContextTyped ==
  ASSUME NEW plan \in {None} \cup [power : [DOMAIN Loads -> Nat], savings : Int, self : Int]
  PROVE  Typed(LoadContext(plan))
<1> DEFINE Load(i) == [power_w |-> plan.power[i], on |-> Bit(plan.power[i] > 0),
                       current_a |-> plan.power[i] \div Loads[i].volts]
           Made(key, i, x) == key = LoadKey(Loads[i].slug, x)
           Last(key) == Max({i \in DOMAIN Loads : \E x \in LoadKeys : Made(key, i, x)})
           keys == {LoadKey(Loads[p[1]].slug, p[2]) : p \in (DOMAIN Loads) \X LoadKeys}
           named == [key \in keys |->
                       Load(Last(key))[CHOOSE x \in LoadKeys : Made(key, Last(key), x)]]
<1>1. CASE plan = None
  BY <1>1, BitType DEF LoadContext, Typed
<1>2. CASE plan # None
  <2>1. plan.power \in [DOMAIN Loads -> Nat] /\ plan.savings \in Int /\ plan.self \in Int
    BY <1>2
  <2>2. /\ Len(Loads) \in Nat /\ DOMAIN Loads = 1..Len(Loads)
        /\ \A i \in DOMAIN Loads : Loads[i].volts \in Nat \ {0}
    <3> DEFINE L == [slug : STRING, volts : Nat \ {0}]
    <3>1. Loads \in Seq(L)
      BY ContextAssumption
    <3> HIDE DEF L
    <3>2. /\ Len(Loads) \in Nat /\ DOMAIN Loads = 1..Len(Loads)
          /\ Loads \in [1..Len(Loads) -> L]
      BY <3>1, LenProperties
    <3> QED BY <3>2 DEF L
  <2>3. ASSUME NEW i \in DOMAIN Loads, NEW x \in LoadKeys PROVE Load(i)[x] \in Int
    <3>1. plan.power[i] \in Nat /\ plan.power[i] \div Loads[i].volts \in Int
      BY <2>1, <2>2
    <3> QED BY <3>1, BitType DEF LoadKeys
  <2>4. ASSUME NEW key \in keys PROVE named[key] \in Int
    <3> DEFINE I == {i \in DOMAIN Loads : \E x \in LoadKeys : Made(key, i, x)}
               x == CHOOSE y \in LoadKeys : Made(key, Last(key), y)
    <3>1. I # {} /\ I \in SUBSET (DOMAIN Loads) /\ I \in SUBSET Int
      BY <2>2
    <3>2. IsFiniteSet(I)
      <4>1. IsFiniteSet(DOMAIN Loads)
        BY <2>2, FS_Interval
      <4> HIDE DEF I
      <4> QED BY <3>1, <4>1, FS_Subset
    <3>3. Max(I) \in I
      <4> HIDE DEF I
      <4> QED BY <3>1, <3>2, Extremes
    <3>4. Last(key) \in DOMAIN Loads /\ \E y \in LoadKeys : Made(key, Last(key), y)
      BY <3>3
    <3>5. x \in LoadKeys
      <4> HIDE DEF Last, Made
      <4> QED BY <3>4
    <3>6. named[key] = Load(Last(key))[x]
      OBVIOUS
    <3> HIDE DEF x, Last, Load, named
    <3> QED BY <2>3, <3>4, <3>5, <3>6
  <2>5. Typed(named)
    <3>1. DOMAIN named = keys
      OBVIOUS
    <3> HIDE DEF named, keys
    <3> QED BY <2>4, <3>1 DEF Typed
  <2>6. Typed([optimizer_enabled |-> Bit(Loads # <<>>), optimizer_savings_chf |-> plan.savings,
               optimizer_self_consumption_pct |-> plan.self])
    BY <2>1, BitType DEF Typed
  <2>7. LoadContext(plan) =
          [optimizer_enabled |-> Bit(Loads # <<>>), optimizer_savings_chf |-> plan.savings,
           optimizer_self_consumption_pct |-> plan.self] ++ named
    BY <1>2 DEF LoadContext
  <2> HIDE DEF named
  <2> QED BY <2>5, <2>6, <2>7, MergeTyped
<1> QED BY <1>1, <1>2

(* What Home Assistant answers is as it says, or empty.                    *)
LEMMA AnswerIs ==
  ASSUME RuleInv, NEW answer \in Answers
  PROVE  /\ IsWorld(world) /\ IsHome(answer) /\ Typed(answer.states)
         /\ answer = world.home \/ answer.states = <<>>
<1>1. IsWorld(world)
  BY RuleConditionsAssumption DEF RuleInv
<1>2. answer = world.home \/ answer = [states |-> <<>>, prices |-> <<>>]
  BY DEF Answers
<1>3. IsHome([states |-> <<>>, prices |-> <<>>])
  BY DEF IsHome
<1>4. IsHome(answer)
  BY <1>1, <1>2, <1>3 DEF IsWorld
<1> QED BY <1>1, <1>2, <1>4 DEF IsHome, Typed

(* Every name of the context is a number or a text, whatever Home          *)
(* Assistant, the forecast and the optimizer say.                          *)
LEMMA ContextTyped ==
  ASSUME NEW w, IsWorld(w), NEW home, IsHome(home)
  PROVE  Typed(ContextOf(w.t, home, w.summary, w.plan))
<1> DEFINE states == home.states
           number == Numbers(states)
           hour == (number ++ Clock(w.t))["hour"]
           pv == WithPvForecast(number, w.summary)
           house == Dso(states) ++ Battery(number["battery_soc"]) ++ Pcc(number)
                    ++ GridCo2(states) ++ Presence(states)
           measured == Energy(number, pv["pv_forecast_kwh"]) ++ TimeOfDay(hour) ++ pv ++ Clock(w.t)
<1>1. Typed(states) /\ home.prices \in Seq([hour : Int, price : Int])
  BY DEF IsHome, Typed
<1>2. Typed(number) /\ \A k \in Measured : number[k] \in Int
  <2> HIDE DEF states
  <2> QED BY <1>1, NumbersType
<1>3. number["pv_forecast_kwh"] \in Int /\ number["battery_soc"] \in Int
  <2> HIDE DEF number
  <2> QED BY <1>2 DEF Measured
<1>4. Typed(pv)
  <2>1. w.summary \in {None} \cup [today : Int, tomorrow : Int, next : Int]
    BY DEF IsWorld
  <2> HIDE DEF number
  <2> QED BY <2>1, <1>2, PvTyped
<1>5. Typed(Clock(w.t)) /\ Typed(LoadContext(w.plan))
  BY ClockTyped, LoadContextTyped DEF IsWorld
<1> HIDE DEF number, pv, states, hour
<1>6. /\ Typed(CarContext(hour, states)) /\ Typed(Tariff(w.t, states, home.prices))
      /\ Typed(Dso(states)) /\ Typed(Battery(number["battery_soc"])) /\ Typed(Pcc(number))
      /\ Typed(GridCo2(states)) /\ Typed(Presence(states))
      /\ Typed(Energy(number, pv["pv_forecast_kwh"])) /\ Typed(TimeOfDay(hour))
  BY <1>1, <1>2, <1>3, CarContextTyped, TariffTyped, DsoTyped, BatteryTyped, PccTyped, Co2Typed,
     PresenceTyped, EnergyTyped, TimeOfDayTyped
<1>7. ContextOf(w.t, home, w.summary, w.plan) =
        LoadContext(w.plan) ++ CarContext(hour, states)
        ++ Tariff(w.t, states, home.prices) ++ house ++ measured
  BY DEF ContextOf, states, number, pv, hour
<1>8. Typed(house) /\ Typed(measured)
  BY <1>2, <1>4, <1>5, <1>6, MergeTyped
<1> HIDE DEF house, measured
<1> QED BY <1>5, <1>6, <1>7, <1>8, MergeTyped

(* A template is cut to a number or stays a text: it is never nothing.     *)
LEMMA ResolvedIs ==
  ASSUME NEW c, IsCondition(c), NEW ctx, Typed(ctx)
  PROVE  Resolved(c.value, ctx) # None
<1>1. \A x \in Int : Cut(x) \in Int
  BY DEF Cut
<1>2. CASE "template" \notin DOMAIN c.value
  BY <1>2 DEF Resolved, IsCondition
<1>3. CASE "template" \in DOMAIN c.value
  <2>1. c.value.template \in STRING /\ None \notin STRING /\ None \notin Int \cup Texts
    BY <1>3, RuleConditionsAssumption, ContextAssumption DEF IsCondition
  <2>2. CASE c.value.template \in DOMAIN ctx
    <3>1. \/ ctx[c.value.template] \in Texts
          \/ Cut(ctx[c.value.template]) \in Int
      BY <1>1, <2>2 DEF Typed
    <3> QED BY <1>3, <2>1, <2>2, <3>1 DEF Resolved
  <2>3. CASE c.value.template \notin DOMAIN ctx
    BY <1>3, <2>1, <2>3 DEF Resolved
  <2> QED BY <2>2, <2>3
<1> QED BY <1>2, <1>3

(* A rule yields nothing only when no condition holds, or it is paused.    *)
THEOREM NothingMissedCorrect == Spec => []NothingIsMissed
<1>1. RuleInv => NothingIsMissed
  <2> SUFFICES ASSUME RuleInv, outcome # None, outcome.value = None,
                      ~Is(outcome.seen.states, "enable_toggle", Off)
               PROVE  \A i \in DOMAIN rule : ~rule[i].default /\ ~Meaning(rule[i].when, Now)
    BY DEF NothingIsMissed
  <2>1. PICK answer \in Answers : outcome = Evaluated(answer)
    BY DEF RuleInv
  <2>2. /\ outcome.seen = answer /\ outcome.value = FirstMatch(rule, Now)
        /\ Now = ContextOf(world.t, answer, world.summary, world.plan)
    <3>1. outcome.seen = answer
      BY <2>1 DEF Evaluated
    <3> QED BY <2>1, <3>1 DEF Evaluated, Now
  <2>3. rule \in Rules
    BY DEF RuleInv
  <2>4. Typed(Now)
    BY <2>2, AnswerIs, ContextTyped
  <2>5. ASSUME NEW i \in DOMAIN rule PROVE Resolved(rule[i].value, Now) # None
    BY <2>3, <2>4, MatchesIs, ResolvedIs
  <2>6. \A i \in DOMAIN rule : ~Matches(rule[i], Now)
    BY <2>2, <2>3, <2>5, FirstMatchIs
  <2> QED BY <2>3, <2>6, MatchesIs
<1> QED BY <1>1, RuleInvAlways, PTL

-----------------------------------------------------------------------------
(* Sorted prices.  Up to and with the i-th.                                *)
UpToPrice(prices, I, i) ==
  {j \in I : \/ prices[j].price < prices[i].price
            \/ /\ prices[j].price = prices[i].price
               /\ j <= i}

LEMMA RankIs ==
  ASSUME NEW prices, NEW I \in SUBSET Nat, IsFiniteSet(I), \A i \in I : prices[i].price \in Int
  PROVE  /\ Cardinality(I) \in Nat
         /\ \A i \in I : /\ IsFiniteSet(UpToPrice(prices, I, i))
                        /\ Rank(prices, I, i) = Cardinality(UpToPrice(prices, I, i))
                        /\ i \in UpToPrice(prices, I, i)
                        /\ Rank(prices, I, i) \in 1..Cardinality(I)
<1>1. ASSUME NEW i \in I
      PROVE  /\ UpToPrice(prices, I, i) \in SUBSET I /\ i \in UpToPrice(prices, I, i)
             /\ Rank(prices, I, i) = Cardinality(UpToPrice(prices, I, i))
  <2>1. i \in Nat /\ prices[i].price \in Int
    OBVIOUS
  <2>2. i \in UpToPrice(prices, I, i) /\ UpToPrice(prices, I, i) \in SUBSET I
    BY <2>1 DEF UpToPrice
  <2>3. Rank(prices, I, i) = Cardinality(UpToPrice(prices, I, i))
    BY Zenon DEF UpToPrice, Rank
  <2> QED BY <2>2, <2>3
<1>2. Cardinality(I) \in Nat
  BY FS_CardinalityType
<1>3. ASSUME NEW i \in I
      PROVE  /\ IsFiniteSet(UpToPrice(prices, I, i))
             /\ Cardinality(UpToPrice(prices, I, i)) \in 1..Cardinality(I)
  <2>1. /\ IsFiniteSet(UpToPrice(prices, I, i))
        /\ Cardinality(UpToPrice(prices, I, i)) <= Cardinality(I)
    BY <1>1, FS_Subset
  <2>2. Cardinality(UpToPrice(prices, I, i)) \in Nat \ {0}
    BY <1>1, <2>1, OneLess
  <2> QED BY <1>2, <2>1, <2>2
<1> QED BY <1>1, <1>2, <1>3

(* Two prices have two ranks, so every rank is taken.                      *)
LEMMA EveryRank ==
  ASSUME NEW prices, NEW I \in SUBSET Nat, IsFiniteSet(I), \A i \in I : prices[i].price \in Int,
         NEW q \in 1..Cardinality(I)
  PROVE  \E i \in I : Rank(prices, I, i) = q
<1> DEFINE n == Cardinality(I)
           f == [i \in I |-> Rank(prices, I, i)]
<1>1. n \in Nat /\ f \in [I -> 1..n]
  BY RankIs
<1>2. ASSUME NEW i \in I, NEW j \in I, i # j,
             prices[i].price < prices[j].price \/ (prices[i].price = prices[j].price /\ i <= j)
      PROVE  Rank(prices, I, i) < Rank(prices, I, j)
  <2> DEFINE A == UpToPrice(prices, I, i)
             B == UpToPrice(prices, I, j)
  <2>1. ASSUME NEW k \in A PROVE k \in B /\ k # j
    <3>1. k \in I /\ (prices[k].price < prices[i].price
                      \/ (prices[k].price = prices[i].price /\ k <= i))
      BY DEF UpToPrice
    <3>2. /\ prices[i].price \in Int /\ prices[j].price \in Int /\ prices[k].price \in Int
          /\ i \in Nat /\ j \in Nat /\ k \in Nat
      BY <3>1
    <3>3. prices[k].price < prices[j].price \/ (prices[k].price = prices[j].price /\ k <= j)
      BY <1>2, <3>1, <3>2
    <3>4. k # j
      BY <1>2, <3>1, <3>2
    <3> QED BY <3>1, <3>3, <3>4 DEF UpToPrice
  <2>2. /\ IsFiniteSet(B) /\ j \in B /\ IsFiniteSet(A)
        /\ Rank(prices, I, i) = Cardinality(A) /\ Rank(prices, I, j) = Cardinality(B)
    BY RankIs
  <2> HIDE DEF A, B
  <2>3. /\ IsFiniteSet(B \ {j}) /\ Cardinality(B) \in Nat
        /\ Cardinality(B \ {j}) = Cardinality(B) - 1
    BY <2>2, OneLess
  <2>4. Cardinality(A) <= Cardinality(B \ {j}) /\ Cardinality(A) \in Nat
    <3>1. A \in SUBSET (B \ {j})
      BY <2>1
    <3> QED BY <3>1, <2>2, <2>3, FS_Subset, FS_CardinalityType
  <2> QED BY <2>2, <2>3, <2>4
<1>3. ASSUME NEW i \in I, NEW j \in I, i # j PROVE f[i] # f[j]
  <2>1. \/ prices[i].price < prices[j].price \/ (prices[i].price = prices[j].price /\ i <= j)
        \/ prices[j].price < prices[i].price \/ (prices[j].price = prices[i].price /\ j <= i)
    OBVIOUS
  <2>2. Rank(prices, I, i) \in Int /\ Rank(prices, I, j) \in Int
    BY RankIs
  <2>3. Rank(prices, I, i) < Rank(prices, I, j) \/ Rank(prices, I, j) < Rank(prices, I, i)
    BY <1>2, <1>3, <2>1
  <2> QED BY <2>2, <2>3
<1> HIDE DEF f
<1>4. f \in Injection(I, 1..n)
  BY <1>1, <1>3 DEF Injection, IsInjective
<1>5. IsFiniteSet(1..n) /\ Cardinality(1..n) = n
  <2>1. IsFiniteSet(1..n) /\ Cardinality(1..n) = IF 1 > n THEN 0 ELSE n - 1 + 1
    BY <1>1, FS_Interval
  <2> QED BY <1>1, <2>1
<1>6. f \in Surjection(I, 1..n)
  BY <1>4, <1>5, FS_Injection
<1>7. \E i \in I : f[i] = q
  BY <1>6 DEF Surjection
<1> QED BY <1>7 DEF f

(* Not above the q-th of the sorted prices: fewer than q are below.        *)
LEMMA RankCounts ==
  ASSUME NEW prices, NEW I \in SUBSET Nat, IsFiniteSet(I), \A i \in I : prices[i].price \in Int,
         NEW q \in 1..Cardinality(I), NEW price \in Int
  PROVE  (\E i \in I : Rank(prices, I, i) = q /\ price <= prices[i].price) <=>
           Cardinality({i \in I : prices[i].price < price}) < q
<1> DEFINE cheaper == {i \in I : prices[i].price < price}
<1>1. IsFiniteSet(cheaper) /\ Cardinality(cheaper) \in Nat
  <2>1. cheaper \in SUBSET I
    OBVIOUS
  <2> HIDE DEF cheaper
  <2> QED BY <2>1, FS_Subset, FS_CardinalityType
<1>2. ASSUME NEW i \in I, Rank(prices, I, i) = q, price <= prices[i].price
      PROVE  Cardinality(cheaper) < q
  <2> DEFINE A == UpToPrice(prices, I, i)
  <2>1. ASSUME NEW k \in cheaper PROVE k \in A /\ k # i
    <3>1. k \in I /\ prices[k].price < price
      OBVIOUS
    <3>2. prices[i].price \in Int /\ prices[k].price \in Int
      BY <3>1
    <3>3. prices[k].price < prices[i].price
      BY <1>2, <3>1, <3>2
    <3>4. k # i
      BY <3>2, <3>3
    <3> QED BY <3>1, <3>3, <3>4 DEF UpToPrice
  <2>2. IsFiniteSet(A) /\ i \in A /\ Cardinality(A) = q
    BY <1>2, RankIs
  <2> HIDE DEF A, cheaper
  <2>3. IsFiniteSet(A \ {i}) /\ Cardinality(A) \in Nat /\ Cardinality(A \ {i}) = Cardinality(A) - 1
    BY <2>2, OneLess
  <2>4. Cardinality(cheaper) <= Cardinality(A \ {i})
    <3>1. cheaper \in SUBSET (A \ {i})
      BY <2>1
    <3> QED BY <3>1, <2>3, FS_Subset
  <2> QED BY <1>1, <2>2, <2>3, <2>4
<1>3. ASSUME NEW i \in I, Rank(prices, I, i) = q, ~(price <= prices[i].price)
      PROVE  q <= Cardinality(cheaper)
  <2> DEFINE A == UpToPrice(prices, I, i)
  <2>1. ASSUME NEW k \in A PROVE k \in cheaper
    <3>1. k \in I /\ (prices[k].price < prices[i].price \/ prices[k].price = prices[i].price)
      BY DEF UpToPrice
    <3>2. prices[i].price \in Int /\ prices[k].price \in Int
      BY <3>1
    <3>3. prices[k].price < price
      BY <1>3, <3>1, <3>2
    <3> QED BY <3>1, <3>3
  <2>2. Cardinality(A) = q
    BY <1>3, RankIs
  <2> HIDE DEF A, cheaper
  <2>3. A \in SUBSET cheaper
    BY <2>1
  <2> QED BY <1>1, <2>2, <2>3, FS_Subset
<1>4. PICK i \in I : Rank(prices, I, i) = q
  BY EveryRank
<1>5. q \in Nat
  BY FS_CardinalityType
<1> HIDE DEF cheaper
<1>6. CASE price <= prices[i].price
  BY <1>2, <1>4, <1>6 DEF cheaper
<1>7. CASE ~(price <= prices[i].price)
  <2>1. ~(Cardinality(cheaper) < q)
    BY <1>1, <1>3, <1>4, <1>5, <1>7
  <2> QED BY <1>2, <2>1 DEF cheaper
<1> QED BY <1>6, <1>7

-----------------------------------------------------------------------------
(* What two names of the context stand for: no part set later has them.    *)

Able(h, states) == {k \in Cars : Car(k, h, states).v2h_available = 1}

LEMMA LoadNames ==
  ASSUME NEW plan, NEW name \in {"v2h_available", "tariff_in_lowest_quartile_today"}
  PROVE  name \notin DOMAIN LoadContext(plan)
<1> DEFINE Load(i) == [power_w |-> plan.power[i], on |-> Bit(plan.power[i] > 0),
                       current_a |-> plan.power[i] \div Loads[i].volts]
           Made(key, i, x) == key = LoadKey(Loads[i].slug, x)
           Last(key) == Max({i \in DOMAIN Loads : \E x \in LoadKeys : Made(key, i, x)})
           keys == {LoadKey(Loads[p[1]].slug, p[2]) : p \in (DOMAIN Loads) \X LoadKeys}
           named == [key \in keys |->
                       Load(Last(key))[CHOOSE x \in LoadKeys : Made(key, Last(key), x)]]
           total == [optimizer_enabled |-> Bit(Loads # <<>>),
                     optimizer_savings_chf |-> IF plan = None THEN 0 ELSE plan.savings,
                     optimizer_self_consumption_pct |-> IF plan = None THEN 0 ELSE plan.self]
<1>1. name \notin DOMAIN total
  OBVIOUS
<1>2. name \notin keys
  BY NamesApart
<1>3. LoadContext(plan) = IF plan = None THEN total ELSE total ++ named
  BY DEF LoadContext
<1>4. DOMAIN named = keys
  OBVIOUS
<1> HIDE DEF named, keys, total
<1> QED BY <1>1, <1>2, <1>3, <1>4, MergeIs

LEMMA CarNames ==
  ASSUME NEW h, NEW states
  PROVE  /\ "v2h_available" \in DOMAIN CarContext(h, states)
         /\ CarContext(h, states)["v2h_available"] = Bit(Able(h, states) # {})
         /\ "tariff_in_lowest_quartile_today" \notin DOMAIN CarContext(h, states)
<1> DEFINE Named(slug) == Car(LastNamed(slug), h, states)
           slugs == {Vehicles[k].slug : k \in Cars}
           able == Able(h, states)
           keys == {CarKey(p[1], p[2]) : p \in slugs \X CarKeys}
           named == [key \in keys |->
                       LET p == CHOOSE q \in slugs \X CarKeys : key = CarKey(q[1], q[2])
                       IN  Named(p[1])[p[2]]]
           shorts == {FirstCarKey(x) : x \in CarKeys}
           first == [key \in shorts |->
                       Named(Vehicles[1].slug)[CHOOSE x \in CarKeys : key = FirstCarKey(x)]]
           sum == SumFunction([k \in able |-> Car(k, h, states).v2h_reserve_kwh])
           total == [v2h_available |-> Bit(able # {}), v2h_reserve_kwh_total |-> sum]
           name == "tariff_in_lowest_quartile_today"
<1>1. CarContext(h, states) = IF Vehicles = <<>> THEN total ELSE total ++ first ++ named
  BY DEF CarContext, Able
<1> HIDE DEF sum, able
<1>2. /\ "v2h_available" \in DOMAIN total /\ total["v2h_available"] = Bit(able # {})
      /\ name \notin DOMAIN total
  OBVIOUS
<1>3. Vehicles # <<>> => name \notin shorts /\ name \notin keys
  <2> SUFFICES ASSUME Vehicles # <<>> PROVE name \notin shorts /\ name \notin keys
    OBVIOUS
  <2>1. 1 \in Cars
    <3>1. Len(Vehicles) \in Nat /\ DOMAIN Vehicles = 1..Len(Vehicles)
      BY ContextAssumption, LenProperties
    <3>2. Len(Vehicles) # 0
      BY ContextAssumption, EmptySeq
    <3> QED BY <3>1, <3>2 DEF Cars
  <2> QED BY <2>1, NamesApart
<1>4. DOMAIN first = shorts /\ DOMAIN named = keys
  OBVIOUS
<1> HIDE DEF total, first, named, shorts, keys, name
<1> QED BY <1>1, <1>2, <1>3, <1>4, MergeIs DEF able, name

LEMMA NowIs ==
  ASSUME NEW t, NEW home, NEW summary, NEW plan
  PROVE  /\ ContextOf(t, home, summary, plan)["v2h_available"] = 1 <=>
              Able((Numbers(home.states) ++ Clock(t))["hour"], home.states) # {}
         /\ ContextOf(t, home, summary, plan)["tariff_in_lowest_quartile_today"] = 1 <=>
              /\ "spot_price" \in DOMAIN home.states
              /\ InLowestQuartile(home.states["spot_price"], home.prices)
<1> DEFINE states == home.states
           number == Numbers(states)
           hour == (number ++ Clock(t))["hour"]
           pv == WithPvForecast(number, summary)
           house == Dso(states) ++ Battery(number["battery_soc"]) ++ Pcc(number)
                    ++ GridCo2(states) ++ Presence(states)
           measured == Energy(number, pv["pv_forecast_kwh"]) ++ TimeOfDay(hour) ++ pv ++ Clock(t)
           a == LoadContext(plan)
           b == CarContext(hour, states)
           c == Tariff(t, states, home.prices)
           v == "v2h_available"
           q == "tariff_in_lowest_quartile_today"
           Ends(f) == /\ v \in DOMAIN f /\ f[v] = b[v]
                      /\ q \in DOMAIN f /\ f[q] = c[q]
<1>1. /\ v \notin DOMAIN a /\ q \notin DOMAIN a /\ v \in DOMAIN b /\ q \notin DOMAIN b
      /\ b[v] = Bit(Able(hour, states) # {})
  BY LoadNames, CarNames
<1>2. /\ q \in DOMAIN c
      /\ c[q] = Bit("spot_price" \in DOMAIN states
                    /\ InLowestQuartile(states["spot_price"], home.prices))
  BY DEF Tariff
<1>3. ContextOf(t, home, summary, plan) = a ++ b ++ c ++ house ++ measured
  BY DEF ContextOf
<1> HIDE DEF a, b, c, v, q, house, measured, number, pv, states, hour
<1>4. Ends(a ++ b ++ c)
  BY <1>1, <1>2, MergeIs
<1>5. ASSUME NEW f, NEW g, Ends(f) PROVE Ends(f ++ g)
  BY <1>5, MergeIs
<1> HIDE DEF Ends
<1>6. Ends(ContextOf(t, home, summary, plan))
  BY <1>3, <1>4, <1>5
<1>7. /\ ContextOf(t, home, summary, plan)[v] = b[v]
      /\ ContextOf(t, home, summary, plan)[q] = c[q]
  BY <1>6 DEF Ends
<1>8. b[v] = 1 <=> Able(hour, states) # {}
  BY <1>1, BitType
<1>9. c[q] = 1 <=> /\ "spot_price" \in DOMAIN states
                   /\ InLowestQuartile(states["spot_price"], home.prices)
  BY <1>2, BitType
<1> QED BY <1>7, <1>8, <1>9 DEF v, q, states, hour, number

(* The hour of the context is that of the clock.                           *)
LEMMA HourIs ==
  ASSUME "hour" \notin Extra, NEW t, NEW states
  PROVE  (Numbers(states) ++ Clock(t))["hour"] = 10 * t.hour
<1>1. "hour" \notin DOMAIN Numbers(states)
  BY DEF Numbers, Measured
<1>2. "hour" \in DOMAIN Clock(t) /\ Clock(t)["hour"] = 10 * t.hour
  BY DEF Clock
<1> QED BY <1>1, <1>2, MergeIs

(* The flag for the lowest quartile, which looks one price up in the       *)
(* sorted ones, is a statement about how many are cheaper.                 *)
THEOREM QuartileCorrect == Spec => []QuartileIsCheapest
<1>1. RuleInv => QuartileIsCheapest
  <2> DEFINE prices == outcome.seen.prices
             today == TodaysPrices(prices)
             price == outcome.seen.states["spot_price"]
             cheaper == Cardinality({i \in today : prices[i].price < price})
             n == Cardinality(today)
  <2> SUFFICES ASSUME RuleInv, outcome # None, "spot_price" \in DOMAIN outcome.seen.states
               PROVE  (Now["tariff_in_lowest_quartile_today"] = 1) <=>
                        /\ today # {} /\ price \notin Texts
                        /\ cheaper = 0 \/ 4 * (cheaper + 1) <= n
    BY DEF QuartileIsCheapest
  <2>1. PICK answer \in Answers : outcome = Evaluated(answer)
    BY DEF RuleInv
  <2>2. outcome.seen = answer /\ Now = ContextOf(world.t, answer, world.summary, world.plan)
    BY <2>1 DEF Evaluated, Now
  <2>3. (Now["tariff_in_lowest_quartile_today"] = 1) <=> InLowestQuartile(price, prices)
    <3>1. ContextOf(world.t, answer, world.summary, world.plan)
            ["tariff_in_lowest_quartile_today"] = 1 <=>
              /\ "spot_price" \in DOMAIN answer.states
              /\ InLowestQuartile(answer.states["spot_price"], answer.prices)
      BY NowIs
    <3> QED BY <2>2, <3>1
  <2>4. /\ price \in Int \cup Texts
        /\ prices \in Seq([hour : Int, price : Int])
    BY <2>2, AnswerIs DEF IsHome
  <2>5. price \in Int <=> price \notin Texts
    BY <2>4, ContextAssumption
  <2> HIDE DEF price, prices
  <2>6. /\ today \in SUBSET Nat /\ IsFiniteSet(today)
        /\ \A i \in today : prices[i].price \in Int
    <3>1. /\ Len(prices) \in Nat /\ DOMAIN prices = 1..Len(prices)
          /\ prices \in [1..Len(prices) -> [hour : Int, price : Int]]
      BY <2>4, LenProperties
    <3>2. today \in SUBSET (1..Len(prices)) /\ \A i \in today : prices[i].price \in Int
      BY <3>1 DEF TodaysPrices
    <3>3. IsFiniteSet(1..Len(prices))
      BY <3>1, FS_Interval
    <3> HIDE DEF today
    <3>4. IsFiniteSet(today)
      BY <3>2, <3>3, FS_Subset
    <3>5. today \in SUBSET Nat
      BY <3>1, <3>2
    <3> QED BY <3>2, <3>4, <3>5
  <2>7. InLowestQuartile(price, prices) <=>
          /\ today # {} /\ price \in Int
          /\ \E i \in today : Rank(prices, today, i) = Quartile(n) /\ price <= prices[i].price
    BY DEF InLowestQuartile
  <2> HIDE DEF today
  <2>8. n \in Nat /\ (today # {} => n # 0)
    BY <2>6, FS_CardinalityType, FS_EmptySet
  <2>9. ASSUME today # {}, price \in Int
        PROVE  (\E i \in today : Rank(prices, today, i) = Quartile(n) /\ price <= prices[i].price)
                 <=> (cheaper = 0 \/ 4 * (cheaper + 1) <= n)
    <3>1. Quartile(n) \in 1..n
      BY <2>8, <2>9 DEF Quartile
    <3>2. (\E i \in today : Rank(prices, today, i) = Quartile(n) /\ price <= prices[i].price)
            <=> cheaper < Quartile(n)
      <4> DEFINE q == Quartile(n)
      <4>1. q \in 1..Cardinality(today) /\ today \in SUBSET Nat /\ IsFiniteSet(today)
        BY <2>6, <3>1
      <4> HIDE DEF q, n
      <4>2. (\E i \in today : Rank(prices, today, i) = q /\ price <= prices[i].price)
              <=> Cardinality({i \in today : prices[i].price < price}) < q
        BY <2>6, <2>9, <4>1, RankCounts
      <4> QED BY <4>2 DEF q
    <3>3. cheaper \in Nat
      <4> DEFINE C == {i \in today : prices[i].price < price}
      <4>1. C \in SUBSET today
        OBVIOUS
      <4> HIDE DEF C
      <4>2. Cardinality(C) \in Nat
        BY <4>1, <2>6, FS_Subset, FS_CardinalityType
      <4> QED BY <4>2 DEF C
    <3> HIDE DEF cheaper, n
    <3>4. cheaper < Quartile(n) <=> (cheaper = 0 \/ 4 * (cheaper + 1) <= n)
      BY <2>8, <3>3 DEF Quartile
    <3> QED BY <3>2, <3>4
  <2> QED BY <2>3, <2>5, <2>7, <2>9
<1> QED BY <1>1, RuleInvAlways, PTL

-----------------------------------------------------------------------------
(* The offer.                                                              *)

(* The hours of a window, compared with its ends, are those on the arc.    *)
LEMMA WindowIsArc ==
  ASSUME NEW w \in {<<>>} \cup (0..24) \X (0..24), NEW h \in 0..23
  PROVE  InWindow(w, 10 * h) <=> h \in Arc(w)
<1>1. CASE w = <<>>
  BY <1>1 DEF InWindow, Arc
<1>2. CASE w # <<>>
  <2>1. PICK a, b \in 0..24 : w = <<a, b>>
    <3>1. w \in (0..24) \X (0..24)
      BY <1>2
    <3>2. w[1] \in 0..24 /\ w[2] \in 0..24 /\ w = <<w[1], w[2]>>
      BY <3>1
    <3> QED BY <3>2
  <2>2. InWindow(w, 10 * h) <=> IF a <= b THEN a <= h /\ h < b ELSE h >= a \/ h < b
    <3>1. InWindow(w, 10 * h) <=> IF a <= b THEN 10 * a <= 10 * h /\ 10 * h < 10 * b
                                  ELSE 10 * h >= 10 * a \/ 10 * h < 10 * b
      BY <1>2, <2>1 DEF InWindow
    <3> QED BY <3>1
  <2> DEFINE hours == IF b >= a THEN b - a ELSE b - a + 24
  <2>3. Arc(w) = {(a + i) % 24 : i \in 0..(hours - 1)}
    BY <1>2, <2>1 DEF Arc
  <2>4. ASSUME NEW i \in 0..(hours - 1), h = (a + i) % 24
        PROVE  IF a <= b THEN a <= h /\ h < b ELSE h >= a \/ h < b
    <3>1. a + i \in 0..47
      OBVIOUS
    <3>2. h = IF a + i < 24 THEN a + i ELSE a + i - 24
      BY <2>4, <3>1
    <3> QED BY <3>2
  <2>5. ASSUME IF a <= b THEN a <= h /\ h < b ELSE h >= a \/ h < b
        PROVE  \E i \in 0..(hours - 1) : h = (a + i) % 24
    <3>1. CASE h >= a
      <4>1. h - a \in 0..(hours - 1) /\ (a + (h - a)) % 24 = h
        BY <2>5, <3>1
      <4> QED BY <4>1
    <3>2. CASE h < a
      <4>1. h - a + 24 \in 0..(hours - 1) /\ (a + (h - a + 24)) % 24 = h
        BY <2>5, <3>2
      <4> QED BY <4>1
    <3> QED BY <3>1, <3>2
  <2> QED BY <2>2, <2>3, <2>4, <2>5
<1> QED BY <1>1, <1>2

LEMMA Product == \A x, y \in Nat : x * y > 0 <=> x > 0 /\ y > 0
OBVIOUS

(* The flag of one car, in some states of Home Assistant.                  *)
LEMMA AbleIs ==
  ASSUME NEW k \in Cars, NEW h \in 0..23, NEW states, Typed(states)
  PROVE  LET v == Vehicles[k]
             soc == "soc_" \o v.slug
             plugged == "plugged_" \o v.slug
         IN  k \in Able(10 * h, states) <=>
               /\ v.enabled /\ v.capacity > 0 /\ h \in Arc(v.window)
               /\ soc \in DOMAIN states /\ states[soc] \notin Texts
               /\ states[soc] > v.min_soc + Margin
               /\ v.require_plugged => plugged \in DOMAIN states /\ states[plugged] = On
<1> DEFINE v == Vehicles[k]
           key == "soc_" \o v.slug
           soc == Number(states, key)
           plugged == Is(states, "plugged_" \o v.slug, On)
           reserve == v.capacity * Above(soc, v.min_soc)
<1>1. /\ v.min_soc \in Nat /\ v.capacity \in Nat
      /\ v.window \in {<<>>} \cup (0..24) \X (0..24)
  BY CarIs
<1>2. soc \in Int
  BY NumberType
<1>3. Car(k, 10 * h, states).v2h_available =
        Bit(/\ v.enabled /\ (v.require_plugged => plugged)
            /\ soc > v.min_soc + Margin /\ InWindow(v.window, 10 * h) /\ reserve > 0)
  BY DEF Car
<1>4. k \in Able(10 * h, states) <=>
        /\ v.enabled /\ (v.require_plugged => plugged)
        /\ soc > v.min_soc + Margin /\ InWindow(v.window, 10 * h) /\ reserve > 0
  <2> HIDE DEF v, soc, plugged, reserve
  <2> QED BY <1>3, BitType DEF Able
<1>5. soc > v.min_soc + Margin <=>
        /\ key \in DOMAIN states /\ states[key] \notin Texts
        /\ states[key] > v.min_soc + Margin
  <2> HIDE DEF v, key
  <2> QED BY <1>1 DEF Number, Margin
<1>6. soc > v.min_soc + Margin => (reserve > 0 <=> v.capacity > 0)
  <2> HIDE DEF v, soc
  <2>1. soc > v.min_soc + Margin => Above(soc, v.min_soc) \in Nat /\ Above(soc, v.min_soc) > 0
    BY <1>1, <1>2 DEF Above, Margin
  <2> QED BY <1>1, <2>1, Product
<1>7. InWindow(v.window, 10 * h) <=> h \in Arc(v.window)
  <2> HIDE DEF v
  <2> QED BY <1>1, WindowIsArc
<1>8. plugged <=> "plugged_" \o v.slug \in DOMAIN states /\ states["plugged_" \o v.slug] = On
  BY DEF Is
<1> HIDE DEF v, key, soc, plugged, reserve
<1> QED BY <1>4, <1>5, <1>6, <1>7, <1>8 DEF v, key

(* The house is offered the energy of a car exactly when Home Assistant    *)
(* answers and a car is able to give it, as long as no sensor of extra: is *)
(* named hour.                                                             *)
THEOREM OfferCorrect ==
  ASSUME "hour" \notin Extra
  PROVE  Spec => []OfferIsReal
<1>1. RuleInv => OfferIsReal
  <2> SUFFICES ASSUME RuleInv, outcome # None
               PROVE  LET able == \E k \in Cars : IsAble(Vehicles[k])
                      IN  /\ Now["v2h_available"] = 1 => able /\ outcome.seen = world.home
                          /\ able /\ outcome.seen = world.home => Now["v2h_available"] = 1
    BY DEF OfferIsReal
  <2>1. PICK answer \in Answers : outcome = Evaluated(answer)
    BY DEF RuleInv
  <2>2. outcome.seen = answer /\ Now = ContextOf(world.t, answer, world.summary, world.plan)
    BY <2>1 DEF Evaluated, Now
  <2>3. Now["v2h_available"] = 1 <=> Able(10 * world.t.hour, answer.states) # {}
    <3>1. ContextOf(world.t, answer, world.summary, world.plan)["v2h_available"] = 1 <=>
            Able(10 * world.t.hour, answer.states) # {}
      BY NowIs, HourIs
    <3> QED BY <2>2, <3>1
  <2>4. /\ IsWorld(world) /\ IsHome(answer) /\ Typed(answer.states)
        /\ answer = world.home \/ answer.states = <<>>
    BY AnswerIs
  <2>5. world.t.hour \in 0..23
    BY <2>4 DEF IsWorld
  <2>6. ASSUME NEW k \in Able(10 * world.t.hour, answer.states) PROVE answer = world.home
    <3>1. k \in Cars
      BY DEF Able
    <3>2. "soc_" \o Vehicles[k].slug \in DOMAIN answer.states
      BY <2>4, <2>5, <3>1, AbleIs
    <3> QED BY <2>4, <3>2
  <2>7. ASSUME answer = world.home, NEW k \in Cars
        PROVE  k \in Able(10 * world.t.hour, answer.states) <=> IsAble(Vehicles[k])
    BY <2>4, <2>5, <2>7, AbleIs DEF IsAble
  <2>8. Able(10 * world.t.hour, answer.states) \subseteq Cars
    BY DEF Able
  <2> QED BY <2>2, <2>3, <2>6, <2>7, <2>8
<1> QED BY <1>1, RuleInvAlways, PTL
=============================================================================
