---------------------------- MODULE CommonProofs ----------------------------
(***************************************************************************)
(* What the proofs about the contracts need to know about the operators    *)
(* they share: how the fixed-point operations round and compare, what the  *)
(* total of a ledger is after one entry changed and how it bounds its      *)
(* entries, what a history of snapshots answers after a capture, that      *)
(* naturals have a least and bounded ones a greatest, and which elements   *)
(* of a sequence are retained.                                             *)
(***************************************************************************)
EXTENDS FixedPoint, LedgerSums, Snapshots, Retaining, FiniteSetTheorems, SequenceTheorems,
        TLAPS

-----------------------------------------------------------------------------
(* Fixed-point arithmetic. *)

\* The integer division of the code: the quotient, rounded down.
LEMMA DivFloor ==
  ASSUME NEW a \in Nat, NEW b \in Nat \ {0}
  PROVE  /\ a \div b \in Nat
         /\ (a \div b) * b <= a
         /\ a < (a \div b) * b + b
  BY SMT

\* A larger amount has no smaller quotient.
LEMMA DivMono ==
  ASSUME NEW a \in Nat, NEW c \in Nat, NEW b \in Nat \ {0}, a <= c
  PROVE  a \div b <= c \div b
  BY SMT

\* A multiple of the divisor divides without remainder.
LEMMA DivExact ==
  ASSUME NEW a \in Nat, NEW b \in Nat \ {0}
  PROVE  (a * b) \div b = a
  BY SMT

\* A quotient is bounded by what its dividend is bounded by.
LEMMA DivUpper ==
  ASSUME NEW a \in Nat, NEW q \in Nat, NEW b \in Nat \ {0}, a <= q * b
  PROVE  a \div b <= q
  BY SMT

\* Division rounded up yields an amount that covers the dividend.
LEMMA CeilDivCovers ==
  ASSUME NEW a \in Nat, NEW b \in Nat \ {0}
  PROVE  CeilDiv(a, b) \in Nat /\ a <= CeilDiv(a, b) * b
<1>1. a + (b - 1) \in Nat
  OBVIOUS
<1>2. /\ (a + (b - 1)) \div b \in Nat
      /\ a + (b - 1) < ((a + (b - 1)) \div b) * b + b
  BY <1>1, DivFloor
<1> QED
  BY <1>2 DEF CeilDiv

\* Products of naturals are naturals.
LEMMA ProductType ==
  ASSUME NEW a \in Nat, NEW b \in Nat
  PROVE  a * b \in Nat
  BY SMT

\* Products grow with their factors.
LEMMA ProductMono ==
  ASSUME NEW a \in Nat, NEW b \in Nat, NEW c \in Nat, NEW d \in Nat, a <= c, b <= d
  PROVE  a * b <= c * d
  BY SMT

\* A common factor cancels.
LEMMA CancelFactor ==
  ASSUME NEW a \in Nat, NEW b \in Nat, NEW c \in Nat \ {0}, a * c <= b * c
  PROVE  a <= b
<1>1. SUFFICES ASSUME a >= b + 1
               PROVE  FALSE
  OBVIOUS
<1>2. (b + 1) * c <= a * c
  BY <1>1, ProductMono
<1>3. (b + 1) * c = b * c + c /\ b * c \in Nat /\ a * c \in Nat
  BY ProductType
<1> QED
  BY <1>2, <1>3

\* A multiple of the divisor comes out of a quotient.
LEMMA DivAdds ==
  ASSUME NEW n \in Nat, NEW r \in Nat, NEW b \in Nat \ {0}
  PROVE  (n * b + r) \div b = n + (r \div b)
<1> DEFINE q == (n * b + r) \div b
           p == r \div b
<1>1. n * b \in Nat /\ n * b + r \in Nat
  BY ProductType
<1>2. q \in Nat /\ q * b <= n * b + r /\ n * b + r < q * b + b
  BY <1>1, DivFloor
<1>3. p \in Nat /\ p * b <= r /\ r < p * b + b
  BY DivFloor
<1> HIDE DEF q, p
<1>4. (n + p) * b = n * b + p * b /\ p * b \in Nat /\ q * b \in Nat
  BY <1>2, <1>3, ProductType
<1>5. n + p <= q
  <2>1. (n + p) * b < (q + 1) * b
    BY <1>1, <1>2, <1>3, <1>4
  <2>2. SUFFICES ASSUME q + 1 <= n + p
                 PROVE  FALSE
    BY <1>2, <1>3
  <2>3. (q + 1) * b <= (n + p) * b
    BY ONLY <1>2, <1>3, <2>2, ProductMono, b \in Nat
  <2> QED
    BY <1>2, <1>3, <2>1, <2>3, ProductType
<1>6. q <= n + p
  <2>1. q * b < (n + p + 1) * b
    BY <1>1, <1>2, <1>3, <1>4
  <2>2. SUFFICES ASSUME n + p + 1 <= q
                 PROVE  FALSE
    BY <1>2, <1>3
  <2>3. (n + p + 1) * b <= q * b
    BY ONLY <1>2, <1>3, <2>2, ProductMono, n \in Nat, b \in Nat
  <2> QED
    BY <1>2, <1>3, <2>1, <2>3, ProductType
<1> QED
  BY <1>2, <1>3, <1>5, <1>6 DEF q, p

\* An amount times a Decimal, rounded down, is an amount.
LEMMA MulType ==
  ASSUME NEW a \in Nat, NEW d \in Nat
  PROVE  Mul(a, d) \in Nat
  BY ProductType, OneAssumption, DivFloor DEF Mul

\* A product grows with its first and with its second factor.
LEMMA MulMono ==
  ASSUME NEW a \in Nat, NEW c \in Nat, NEW d \in Nat, NEW e \in Nat, a <= c, d <= e
  PROVE  Mul(a, d) <= Mul(c, e)
<1>1. a * d \in Nat /\ c * e \in Nat
  BY ProductType
<1>2. a * d <= c * e
  BY SMT
<1> QED
  BY <1>1, <1>2, OneAssumption, DivMono DEF Mul

\* A product with a fraction is no larger, one with at least 1.0 no smaller.
LEMMA MulByFraction ==
  ASSUME NEW a \in Nat, NEW d \in Nat, d <= One
  PROVE  Mul(a, d) <= a
<1>1. a * d \in Nat /\ a * d <= a * One
  BY OneAssumption, ProductType, SMT
<1> QED
  BY <1>1, OneAssumption, DivUpper DEF Mul

\* A product with at least 1.0 is no smaller than its first factor.
LEMMA MulByMore ==
  ASSUME NEW a \in Nat, NEW d \in Nat, One <= d
  PROVE  a <= Mul(a, d)
<1>1. a * One \in Nat /\ a * d \in Nat /\ a * One <= a * d
  BY OneAssumption, ProductType, SMT
<1>2. (a * One) \div One = a
  BY OneAssumption, DivExact
<1> QED
  BY <1>1, <1>2, OneAssumption, DivMono DEF Mul

\* The ratio of two amounts is a natural, at most 1.0 when the first is no larger,
\* and grows with the first.
LEMMA FromRatioType ==
  ASSUME NEW n \in Nat, NEW d \in Nat \ {0}
  PROVE  FromRatio(n, d) \in Nat
  BY ProductType, OneAssumption, DivFloor DEF FromRatio

\* The ratio of a part to the whole is at most 1.0.
LEMMA FromRatioOfPart ==
  ASSUME NEW n \in Nat, NEW d \in Nat \ {0}, n <= d
  PROVE  FromRatio(n, d) <= One
<1>1. n * One \in Nat /\ n * One <= One * d
  BY OneAssumption, ProductType, SMT
<1> QED
  BY <1>1, OneAssumption, DivUpper DEF FromRatio

\* A larger part has no smaller ratio to the same whole.
LEMMA FromRatioMono ==
  ASSUME NEW n \in Nat, NEW m \in Nat, NEW d \in Nat \ {0}, n <= m
  PROVE  FromRatio(n, d) <= FromRatio(m, d)
<1>1. n * One \in Nat /\ m * One \in Nat /\ n * One <= m * One
  BY OneAssumption, ProductType, SMT
<1> QED
  BY <1>1, OneAssumption, DivMono DEF FromRatio

\* Dividing by a Decimal, down or up, yields a natural.
LEMMA DivType ==
  ASSUME NEW a \in Nat, NEW d \in Nat \ {0}
  PROVE  Div(a, d) \in Nat /\ DivCeil(a, d) \in Nat
  BY ProductType, OneAssumption, DivFloor, CeilDivCovers DEF Div, DivCeil

\* Of the amounts that cover the dividend the one rounded up is the least.
LEMMA CeilDivLeast ==
  ASSUME NEW n \in Nat, NEW b \in Nat \ {0}, NEW q \in Nat, n <= q * b
  PROVE  CeilDiv(n, b) <= q
<1> DEFINE k == (n + (b - 1)) \div b
<1>1. n + (b - 1) \in Nat
  OBVIOUS
<1>2. k \in Nat /\ k * b <= n + (b - 1)
  BY <1>1, DivFloor
<1>3. CeilDiv(n, b) = k
  BY DEF CeilDiv
<1> HIDE DEF k
<1>4. SUFFICES ASSUME q + 1 <= k
               PROVE  FALSE
  BY <1>2, <1>3
<1>5. (q + 1) * b <= k * b
  BY ONLY <1>2, <1>4, q \in Nat, b \in Nat \ {0}, ProductMono
<1>6. (q + 1) * b = q * b + b /\ q * b \in Nat /\ k * b \in Nat
  BY ONLY <1>2, q \in Nat, b \in Nat \ {0}, SMT
<1> QED
  BY ONLY <1>2, <1>5, <1>6, n <= q * b, n \in Nat, b \in Nat \ {0}, SMT

\* A quotient is below what its dividend is below.
LEMMA DivBelow ==
  ASSUME NEW n \in Nat, NEW b \in Nat \ {0}, NEW q \in Nat, n < (q + 1) * b
  PROVE  n \div b <= q
<1> DEFINE k == n \div b
<1>1. k \in Nat /\ k * b <= n
  BY DivFloor
<1> HIDE DEF k
<1>2. SUFFICES ASSUME q + 1 <= k
               PROVE  FALSE
  BY <1>1 DEF k
<1>3. (q + 1) * b <= k * b
  BY ONLY <1>1, <1>2, q \in Nat, b \in Nat \ {0}, ProductMono
<1>4. (q + 1) * b \in Nat /\ k * b \in Nat
  BY ONLY <1>1, q \in Nat, b \in Nat \ {0}, ProductType
<1> QED
  BY ONLY <1>1, <1>3, <1>4, n < (q + 1) * b, n \in Nat, SMT

\* What the product of a sum may exceed the sum of the products by.
LEMMA MulAdds ==
  ASSUME NEW x \in Nat, NEW y \in Nat, NEW z \in Nat, NEW d \in Nat
  PROVE  Mul(x + y + z, d) <= Mul(x, d) + Mul(y, d) + 1 + CeilDiv(z * d, One)
<1> DEFINE p == Mul(x, d)
           q == Mul(y, d)
           c == CeilDiv(z * d, One)
<1>1. x * d \in Nat /\ y * d \in Nat /\ z * d \in Nat
  BY ProductType
<1>2. /\ p \in Nat /\ x * d < p * One + One
      /\ q \in Nat /\ y * d < q * One + One
  BY <1>1, DivFloor, OneAssumption DEF Mul
<1>3. c \in Nat /\ z * d <= c * One
  BY <1>1, CeilDivCovers, OneAssumption
<1>4. (x + y + z) * d = x * d + y * d + z * d /\ (x + y + z) * d \in Nat
  BY <1>1, SMT
<1> HIDE DEF p, q, c
<1>5. p * One + One + q * One + One + c * One = (p + q + 1 + c + 1) * One
      /\ p * One \in Nat /\ q * One \in Nat /\ c * One \in Nat
  BY ONLY <1>2, <1>3, OneAssumption, SMT
<1>6. (x + y + z) * d < (p + q + 1 + c + 1) * One
  BY ONLY <1>1, <1>2, <1>3, <1>4, <1>5, OneAssumption, SMT
<1>7. p + q + 1 + c \in Nat
  BY <1>2, <1>3
<1>8. ((x + y + z) * d) \div One <= p + q + 1 + c
  BY ONLY <1>4, <1>6, <1>7, OneAssumption, DivBelow
<1> QED
  BY <1>8 DEF Mul, p, q, c

\* A ratio of at least 1.0 says that the second amount is no larger.
LEMMA RatioCovers ==
  ASSUME NEW n \in Nat, NEW d \in Nat \ {0}, FromRatio(n, d) >= One
  PROVE  d <= n
<1> DEFINE q == (n * One) \div d
<1>1. n * One \in Nat /\ One \in Nat \ {0}
  BY OneAssumption, ProductType
<1>2. q \in Nat /\ q * d <= n * One
  BY <1>1, DivFloor
<1>3. One <= q
  BY DEF FromRatio
<1> HIDE DEF q
<1>4. One * d <= q * d
  BY ONLY <1>1, <1>2, <1>3, d \in Nat, ProductMono
<1>5. One * d = d * One /\ d * One \in Nat /\ q * d \in Nat
  BY ONLY <1>1, <1>2, d \in Nat, SMT
<1>6. d * One <= n * One
  BY ONLY <1>1, <1>2, <1>4, <1>5, SMT
<1> QED
  BY ONLY <1>1, <1>6, n \in Nat, d \in Nat, CancelFactor

\* What the parts of a balance count for adds up to what the balance counts for,
\* but for the roundings.
LEMMA WeighedParts ==
  ASSUME NEW n \in Nat, NEW x \in Nat, NEW y \in Nat, NEW z \in Nat, n <= x + y + z,
         NEW p \in Nat, NEW t \in Nat, t <= One
  PROVE  Mul(Mul(n, p), t) <= Mul(Mul(x, p), t) + Mul(Mul(y, p), t) + CeilDiv(z * p, One) + 2
<1> DEFINE c == CeilDiv(z * p, One)
           a == Mul(x, p)
           b == Mul(y, p)
           k == CeilDiv((1 + c) * t, One)
<1>1. z * p \in Nat /\ One \in Nat \ {0}
  BY OneAssumption, ProductType
<1>2. c \in Nat
  BY <1>1, CeilDivCovers
<1>3. a \in Nat /\ b \in Nat
  BY MulType
<1>4. Mul(x + y + z, p) <= a + b + 1 + c
  BY MulAdds
<1>5. x + y + z \in Nat /\ p <= p
  OBVIOUS
<1>6. Mul(n, p) \in Nat /\ Mul(x + y + z, p) \in Nat /\ Mul(n, p) <= Mul(x + y + z, p)
  BY ONLY <1>5, n \in Nat, p \in Nat, n <= x + y + z, MulType, MulMono
<1> HIDE DEF c, a, b
<1>7. a + b + (1 + c) \in Nat /\ 1 + c \in Nat /\ Mul(n, p) <= a + b + (1 + c)
  BY ONLY <1>2, <1>3, <1>4, <1>6, SMT
<1>8. t <= t
  OBVIOUS
<1>9. Mul(Mul(n, p), t) <= Mul(a + b + (1 + c), t)
  BY ONLY <1>6, <1>7, <1>8, t \in Nat, MulMono
<1>10. Mul(a + b + (1 + c), t) <= Mul(a, t) + Mul(b, t) + 1 + k
  BY ONLY <1>3, <1>7, t \in Nat, MulAdds
<1>11. (1 + c) * t \in Nat /\ (1 + c) * t <= (1 + c) * One
  BY ONLY <1>1, <1>7, t \in Nat, t <= One, SMT
<1>12. k <= 1 + c
  BY ONLY <1>1, <1>7, <1>11, CeilDivLeast
<1>13. k \in Nat
  BY <1>1, <1>11, CeilDivCovers
<1>14. /\ Mul(Mul(n, p), t) \in Nat /\ Mul(a + b + (1 + c), t) \in Nat
       /\ Mul(a, t) \in Nat /\ Mul(b, t) \in Nat
  BY <1>3, <1>6, <1>7, MulType
<1>15. Mul(Mul(n, p), t) <= Mul(a, t) + Mul(b, t) + c + 2
  <2> DEFINE e == Mul(Mul(n, p), t)
             f == Mul(a + b + (1 + c), t)
             g == Mul(a, t)
             h == Mul(b, t)
  <2> HIDE DEF e, f, g, h, k
  <2>1. e \in Nat /\ f \in Nat /\ g \in Nat /\ h \in Nat /\ e <= f /\ f <= g + h + 1 + k
    BY <1>9, <1>10, <1>14 DEF e, f, g, h
  <2>2. e <= g + h + c + 2
    BY ONLY <2>1, <1>2, <1>12, <1>13, SMT
  <2> QED
    BY <2>2 DEF e, g, h
<1> QED
  BY <1>15 DEF a, b, c

-----------------------------------------------------------------------------
(* Totals of ledgers. *)

\* An address that holds n units contributes n pairs.
LEMMA UnitsOfCount ==
  ASSUME NEW x, NEW f, f[x] \in Nat
  PROVE  /\ IsFiniteSet(UnitsOf(f, x))
         /\ Cardinality(UnitsOf(f, x)) = f[x]
<1>1. IsFiniteSet({x}) /\ Cardinality({x}) = 1
  BY FS_Singleton
<1>2. IsFiniteSet(1 .. f[x]) /\ Cardinality(1 .. f[x]) = f[x]
  BY FS_Interval, SMTT(30)
<1>3. /\ IsFiniteSet({x} \X (1 .. f[x]))
      /\ Cardinality({x} \X (1 .. f[x])) = Cardinality({x}) * Cardinality(1 .. f[x])
  BY <1>1, <1>2, FS_Product
<1> QED
  BY <1>1, <1>2, <1>3 DEF UnitsOf

\* The units of finitely many addresses are finitely many.
LEMMA UnitsFinite ==
  ASSUME NEW S, IsFiniteSet(S), NEW f, \A x \in S : f[x] \in Nat
  PROVE  IsFiniteSet(Units(f, S))
<1> DEFINE Parts == {UnitsOf(f, x) : x \in S}
           g == [x \in S |-> UnitsOf(f, x)]
<1>1. g \in Surjection(S, Parts)
  BY DEF Surjection
<1>2. IsFiniteSet(Parts)
  BY <1>1, FS_Surjection
<1>3. \A T \in Parts : IsFiniteSet(T)
  BY UnitsOfCount
<1> QED
  BY <1>2, <1>3, FS_UNION DEF Units

\* A total is a natural number.
LEMMA TotalType ==
  ASSUME NEW S, IsFiniteSet(S), NEW f, \A x \in S : f[x] \in Nat
  PROVE  Total(f, S) \in Nat
  BY UnitsFinite, FS_CardinalityType DEF Total

\* The total of S is the entry of one of its members plus the total of the rest.
LEMMA TotalSplit ==
  ASSUME NEW S, IsFiniteSet(S), NEW f, \A x \in S : f[x] \in Nat, NEW y \in S
  PROVE  Total(f, S) = Total(f, S \ {y}) + f[y]
<1>1. IsFiniteSet(S \ {y})
  BY FS_RemoveElement
<1>2. IsFiniteSet(Units(f, S \ {y}))
  BY <1>1, UnitsFinite
<1>3. IsFiniteSet(UnitsOf(f, y)) /\ Cardinality(UnitsOf(f, y)) = f[y]
  BY UnitsOfCount
<1>4. Units(f, S) = Units(f, S \ {y}) \cup UnitsOf(f, y)
  BY DEF Units
<1>5. Units(f, S \ {y}) \cap UnitsOf(f, y) = {}
  BY DEF Units, UnitsOf
<1>6. Cardinality(Units(f, S)) = Cardinality(Units(f, S \ {y})) + f[y]
                                 - Cardinality({})
  BY <1>2, <1>3, <1>4, <1>5, FS_Union
<1>7. Cardinality({}) = 0 /\ Total(f, S \ {y}) \in Nat
  BY <1>1, FS_EmptySet, TotalType
<1> QED
  BY <1>6, <1>7 DEF Total

\* Ledgers that agree on S have the same total on S.
LEMMA TotalAgree ==
  ASSUME NEW S, NEW f, NEW g, \A x \in S : f[x] = g[x]
  PROVE  Total(f, S) = Total(g, S)
<1>1. Units(f, S) = Units(g, S)
  BY DEF Units, UnitsOf
<1> QED
  BY <1>1 DEF Total

\* After one entry changed, the total changed by the same amount.
LEMMA TotalUpdate ==
  ASSUME NEW S, IsFiniteSet(S), NEW f \in [S -> Nat], NEW y \in S, NEW v \in Nat
  PROVE  /\ Total([f EXCEPT ![y] = v], S) = Total(f, S) - f[y] + v
         /\ Total(f, S) - f[y] \in Nat
<1> DEFINE g == [f EXCEPT ![y] = v]
<1>1. g \in [S -> Nat] /\ g[y] = v /\ \A x \in S \ {y} : g[x] = f[x]
  OBVIOUS
<1>2. Total(f, S) = Total(f, S \ {y}) + f[y]
  BY TotalSplit
<1>3. Total(g, S) = Total(g, S \ {y}) + v
  BY <1>1, TotalSplit
<1>4. Total(g, S \ {y}) = Total(f, S \ {y})
  BY <1>1, TotalAgree
<1>5. IsFiniteSet(S \ {y})
  BY FS_RemoveElement
<1>6. Total(f, S \ {y}) \in Nat
  BY <1>5, TotalType
<1> QED
  BY <1>2, <1>3, <1>4, <1>6

\* Ledgers that differ in one entry have totals that differ as these entries do.
LEMMA TotalChange ==
  ASSUME NEW S, IsFiniteSet(S), NEW f, NEW g, NEW y \in S,
         \A x \in S : f[x] \in Nat /\ g[x] \in Nat,
         \A x \in S \ {y} : g[x] = f[x]
  PROVE  /\ Total(g, S) = (Total(f, S) - f[y]) + g[y]
         /\ Total(f, S) \in Nat /\ Total(g, S) \in Nat
         /\ f[y] <= Total(f, S)
<1>1. Total(f, S) = Total(f, S \ {y}) + f[y] /\ Total(g, S) = Total(g, S \ {y}) + g[y]
  BY TotalSplit
<1>2. Total(g, S \ {y}) = Total(f, S \ {y})
  BY TotalAgree
<1>3. IsFiniteSet(S \ {y})
  BY FS_RemoveElement
<1>4. Total(f, S \ {y}) \in Nat
  BY <1>3, TotalType
<1> QED
  BY <1>1, <1>2, <1>4

\* A ledger without units has total zero.
LEMMA TotalZero ==
  ASSUME NEW S, NEW f, \A x \in S : f[x] = 0
  PROVE  Total(f, S) = 0
<1>1. \A x \in S : UnitsOf(f, x) = {}
  BY DEF UnitsOf
<1>2. Units(f, S) = {}
  BY <1>1 DEF Units
<1> QED
  BY <1>2, FS_EmptySet DEF Total

\* No entry exceeds the total.
LEMMA TotalBoundsEntry ==
  ASSUME NEW S, IsFiniteSet(S), NEW f, \A x \in S : f[x] \in Nat, NEW y \in S
  PROVE  f[y] <= Total(f, S)
<1>1. IsFiniteSet(S \ {y})
  BY FS_RemoveElement
<1>2. Total(f, S \ {y}) \in Nat
  BY <1>1, TotalType
<1> QED
  BY <1>2, TotalSplit

\* A ledger that gives every address at least as much has at least the total.
LEMMA TotalMonotone ==
  ASSUME NEW S, IsFiniteSet(S), NEW f, NEW g,
         \A x \in S : f[x] \in Nat /\ g[x] \in Nat /\ f[x] <= g[x]
  PROVE  Total(f, S) <= Total(g, S)
<1>1. Units(f, S) \subseteq Units(g, S)
  BY DEF Units, UnitsOf
<1>2. IsFiniteSet(Units(g, S))
  BY UnitsFinite
<1> QED
  BY <1>1, <1>2, FS_Subset DEF Total

\* The total of a part is at most the total of the whole.
LEMMA TotalOfPart ==
  ASSUME NEW S, IsFiniteSet(S), NEW f, \A x \in S : f[x] \in Nat,
         NEW R \in SUBSET S, NEW g, \A x \in R : g[x] = f[x]
  PROVE  Total(g, R) <= Total(f, S)
<1>1. Units(g, R) \subseteq Units(f, S)
  <2>1. \A x \in R : UnitsOf(g, x) = UnitsOf(f, x)
    BY DEF UnitsOf
  <2> QED
    BY <2>1 DEF Units
<1>2. IsFiniteSet(Units(f, S))
  BY UnitsFinite
<1> QED
  BY <1>1, <1>2, FS_Subset DEF Total

\* The total of a function that is zero outside a set.
LEMMA TotalPadded ==
  ASSUME NEW S, NEW R, R \subseteq S, NEW f, NEW g,
         \A x \in R : g[x] = f[x], \A x \in S \ R : g[x] = 0
  PROVE  Total(f, R) = Total(g, S)
<1>1. \A x \in S \ R : UnitsOf(g, x) = {}
  BY DEF UnitsOf
<1>2. \A x \in R : UnitsOf(g, x) = UnitsOf(f, x)
  BY DEF UnitsOf
<1>3. Units(f, R) = Units(g, S)
  BY <1>1, <1>2 DEF Units
<1> QED
  BY <1>3 DEF Total

\* The total follows what is credited to an entry and debited from one.
LEMMA TotalCredit ==
  ASSUME NEW S, IsFiniteSet(S), NEW f \in [S -> Nat], NEW u \in S, NEW amount \in Nat
  PROVE  /\ Credit(f, u, amount) \in [S -> Nat]
         /\ Total(Credit(f, u, amount), S) = Total(f, S) + amount
<1> DEFINE g == Credit(f, u, amount)
<1>1. g \in [S -> Nat] /\ g[u] = f[u] + amount /\ \A x \in S \ {u} : g[x] = f[x]
  BY DEF Credit
<1> HIDE DEF g
<1>2. Total(g, S) = (Total(f, S) - f[u]) + g[u] /\ Total(f, S) \in Nat
  BY <1>1, TotalChange
<1> QED
  BY <1>1, <1>2 DEF g

LEMMA TotalDebit ==
  ASSUME NEW S, IsFiniteSet(S), NEW f \in [S -> Nat], NEW u \in S, NEW amount \in Nat,
         amount <= f[u]
  PROVE  /\ Debit(f, u, amount) \in [S -> Nat]
         /\ Total(Debit(f, u, amount), S) = Total(f, S) - amount
         /\ amount <= Total(f, S)
<1> DEFINE g == Debit(f, u, amount)
<1>1. g \in [S -> Nat] /\ g[u] = f[u] - amount /\ \A x \in S \ {u} : g[x] = f[x]
  BY DEF Debit
<1> HIDE DEF g
<1>2. Total(g, S) = (Total(f, S) - f[u]) + g[u] /\ Total(f, S) \in Nat /\ f[u] <= Total(f, S)
  BY <1>1, TotalChange
<1> QED
  BY <1>1, <1>2 DEF g

\* What relates the entries of three ledgers linearly relates their totals: a
\* smallest set of addresses for which it did not would lose one of them.
LEMMA TotalWeighted ==
  ASSUME NEW S, IsFiniteSet(S), NEW f, NEW g, NEW h,
         NEW k \in Int, NEW m \in Int, NEW n \in Int,
         \A x \in S : /\ f[x] \in Nat /\ g[x] \in Nat /\ h[x] \in Nat
                     /\ g[x] * m <= f[x] * k + h[x] * n
  PROVE  Total(g, S) * m <= Total(f, S) * k + Total(h, S) * n
<1> DEFINE Related(T) == Total(g, T) * m <= Total(f, T) * k + Total(h, T) * n
           Wrong == {T \in FiniteSubsetsOf(S) : ~ Related(T)}
           R == StrictSubsetOrdering(S)
<1>1. FiniteSubsetsOf(S) = SUBSET S /\ IsWellFoundedOn(R, FiniteSubsetsOf(S))
  BY FS_FiniteSubsetsOfFinite, FS_StrictSubsetOrderingWellFounded
<1>2. SUFFICES ASSUME Wrong # {}
               PROVE  FALSE
  BY <1>1
<1>3. PICK T \in Wrong : \A U \in Wrong : <<U, T>> \notin R
  <2>1. Wrong \subseteq FiniteSubsetsOf(S)
    OBVIOUS
  <2> HIDE DEF Wrong
  <2> QED
    BY <1>1, <1>2, <2>1, WFMin
<1>4. T \subseteq S /\ IsFiniteSet(T) /\ ~ Related(T)
  BY <1>1, <1>3, FS_Subset
<1>5. T # {}
  <2>1. T = {} => Total(g, T) = 0 /\ Total(f, T) = 0 /\ Total(h, T) = 0
    BY TotalZero
  <2> QED
    BY <1>4, <2>1
<1>6. PICK y \in T : TRUE
  BY <1>5
<1>7. PICK U : U = T \ {y}
  OBVIOUS
<1>8. <<U, T>> \in R /\ U \subseteq S /\ IsFiniteSet(U)
  BY <1>4, <1>6, <1>7, FS_RemoveElement DEF StrictSubsetOrdering
<1>9. Related(U)
  BY <1>1, <1>3, <1>8
<1>10. Total(g, U) \in Nat /\ Total(f, U) \in Nat /\ Total(h, U) \in Nat
  BY <1>8, TotalType
<1>11. /\ Total(g, T) = Total(g, U) + g[y]
       /\ Total(f, T) = Total(f, U) + f[y]
       /\ Total(h, T) = Total(h, U) + h[y]
  BY <1>4, <1>6, <1>7, TotalSplit
<1>12. PICK a, b, c, d, e, i : /\ a = Total(g, U) /\ b = Total(f, U) /\ c = Total(h, U)
                               /\ d = g[y] /\ e = f[y] /\ i = h[y]
  OBVIOUS
<1>13. /\ a \in Nat /\ b \in Nat /\ c \in Nat /\ d \in Nat /\ e \in Nat /\ i \in Nat
       /\ a * m <= b * k + c * n /\ d * m <= e * k + i * n
  BY <1>4, <1>9, <1>10, <1>12
<1>14. /\ (a + d) * m = a * m + d * m
       /\ (b + e) * k = b * k + e * k
       /\ (c + i) * n = c * n + i * n
  BY <1>13
<1>15. (a + d) * m <= (b + e) * k + (c + i) * n
  BY <1>13, <1>14
<1> QED
  BY <1>4, <1>11, <1>12, <1>15

\* The total of a sum is the sum of the totals.
LEMMA TotalPlus ==
  ASSUME NEW S, IsFiniteSet(S), NEW f, NEW g, NEW h,
         \A x \in S : f[x] \in Nat /\ h[x] \in Nat /\ g[x] = f[x] + h[x]
  PROVE  Total(g, S) = Total(f, S) + Total(h, S)
<1>1. \A x \in S : /\ f[x] \in Nat /\ g[x] \in Nat /\ h[x] \in Nat
                  /\ g[x] * 1 <= f[x] * 1 + h[x] * 1
                  /\ g[x] * (-1) <= f[x] * (-1) + h[x] * (-1)
  OBVIOUS
<1>2. 1 \in Int /\ -1 \in Int
  OBVIOUS
<1>3. Total(g, S) * 1 <= Total(f, S) * 1 + Total(h, S) * 1
  BY <1>1, <1>2, TotalWeighted
<1>4. Total(g, S) * (-1) <= Total(f, S) * (-1) + Total(h, S) * (-1)
  BY <1>1, <1>2, TotalWeighted
<1>5. Total(f, S) \in Nat /\ Total(g, S) \in Nat /\ Total(h, S) \in Nat
  BY <1>1, TotalType
<1> QED
  BY <1>3, <1>4, <1>5

\* One unit for each address.
LEMMA TotalOfOnes ==
  ASSUME NEW S, IsFiniteSet(S), NEW f, \A x \in S : f[x] = 1
  PROVE  Total(f, S) = Cardinality(S) /\ Cardinality(S) \in Nat
<1>1. Units(f, S) = S \X {1}
  BY DEF Units, UnitsOf
<1>2. IsFiniteSet({1}) /\ Cardinality({1}) = 1
  BY FS_Singleton
<1>3. Cardinality(S) \in Nat
  BY FS_CardinalityType
<1>4. Cardinality(S \X {1}) = Cardinality(S) * 1
  BY <1>2, FS_Product
<1> QED
  BY <1>1, <1>3, <1>4 DEF Total

\* What the rows of a table add up to its columns add up to, row by row.
LEMMA TotalOfRows ==
  ASSUME NEW S, IsFiniteSet(S), NEW T, IsFiniteSet(T), NEW table \in [S -> [T -> Nat]]
  PROVE  Total([x \in S |-> Total(table[x], T)], S)
           = Total([y \in T |-> Total([x \in S |-> table[x][y]], S)], T)
<1> DEFINE Rows == [x \in S |-> Total(table[x], T)]
           Column(y) == [x \in S |-> table[x][y]]
           Columns(A) == [y \in T |-> Total(Column(y), A)]
           Equal(A) == Total(Rows, A) = Total(Columns(A), T)
           Wrong == {A \in FiniteSubsetsOf(S) : ~ Equal(A)}
           R == StrictSubsetOrdering(S)
<1>1. FiniteSubsetsOf(S) = SUBSET S /\ IsWellFoundedOn(R, FiniteSubsetsOf(S))
  BY FS_FiniteSubsetsOfFinite, FS_StrictSubsetOrderingWellFounded
<1>2. /\ \A x \in S : Rows[x] \in Nat
      /\ \A y \in T : \A x \in S : Column(y)[x] \in Nat /\ Column(y)[x] = table[x][y]
  BY TotalType
<1>3. SUFFICES ASSUME Wrong # {}
               PROVE  FALSE
  BY <1>1
<1>4. PICK A \in Wrong : \A B \in Wrong : <<B, A>> \notin R
  <2>1. Wrong \subseteq FiniteSubsetsOf(S)
    OBVIOUS
  <2> HIDE DEF Wrong
  <2> QED
    BY <1>1, <1>3, <2>1, WFMin
<1>5. A \subseteq S /\ IsFiniteSet(A) /\ ~ Equal(A)
  BY <1>1, <1>4, FS_Subset
<1>6. A # {}
  <2>1. \A y \in T : Columns({})[y] = 0
    BY TotalZero
  <2>2. Total(Columns({}), T) = 0
    <3> HIDE DEF Columns
    <3> QED
      BY <2>1, TotalZero
  <2>3. Total(Rows, {}) = 0
    BY TotalZero
  <2> QED
    BY <1>5, <2>2, <2>3
<1>7. PICK z \in A : TRUE
  BY <1>6
<1>8. PICK B : B = A \ {z}
  OBVIOUS
<1>9. <<B, A>> \in R /\ B \subseteq S /\ IsFiniteSet(B)
  BY <1>5, <1>7, <1>8, FS_RemoveElement DEF StrictSubsetOrdering
<1>10. Total(Rows, B) = Total(Columns(B), T)
  BY <1>1, <1>4, <1>9
<1>11. Total(Rows, A) = Total(Rows, B) + Total(table[z], T)
  BY <1>2, <1>5, <1>7, <1>8, TotalSplit
<1>12. \A y \in T : /\ Columns(B)[y] \in Nat /\ table[z][y] \in Nat
                   /\ Columns(A)[y] = Columns(B)[y] + table[z][y]
  <2>1. SUFFICES ASSUME NEW y \in T
                 PROVE  /\ Columns(B)[y] \in Nat /\ table[z][y] \in Nat
                        /\ Columns(A)[y] = Columns(B)[y] + table[z][y]
    OBVIOUS
  <2>2. /\ Columns(B)[y] = Total(Column(y), B) /\ Columns(A)[y] = Total(Column(y), A)
        /\ \A x \in A : Column(y)[x] \in Nat
        /\ \A x \in B : Column(y)[x] \in Nat
        /\ Column(y)[z] = table[z][y] /\ table[z][y] \in Nat
    BY <1>2, <1>5, <1>7, <1>9
  <2> HIDE DEF Column, Columns
  <2>3. Total(Column(y), A) = Total(Column(y), B) + Column(y)[z]
    <3>1. PICK c : c = Column(y)
      OBVIOUS
    <3>2. \A x \in A : c[x] \in Nat
      BY <2>2, <3>1
    <3>3. Total(c, A) = Total(c, A \ {z}) + c[z]
      BY <1>5, <1>7, <3>2, TotalSplit
    <3> QED
      BY <1>8, <3>1, <3>3
  <2>4. Total(Column(y), B) \in Nat
    BY <1>9, <2>2, TotalType
  <2> QED
    BY <2>2, <2>3, <2>4
<1>13. Total(Columns(A), T) = Total(Columns(B), T) + Total(table[z], T)
  <2>1. PICK f, g, h : f = Columns(B) /\ g = Columns(A) /\ h = table[z]
    OBVIOUS
  <2> HIDE DEF Columns
  <2>2. \A y \in T : f[y] \in Nat /\ h[y] \in Nat /\ g[y] = f[y] + h[y]
    BY <1>12, <2>1
  <2>3. Total(g, T) = Total(f, T) + Total(h, T)
    BY <2>2, TotalPlus
  <2> QED
    BY <2>1, <2>3
<1> QED
  BY <1>5, <1>10, <1>11, <1>13

-----------------------------------------------------------------------------
(* Least and greatest. *)

\* The naturals are well ordered: this is how induction is used below, on the
\* least number for which a fact fails.
LEMMA LeastOfSome ==
  ASSUME NEW T, T \subseteq Nat, T # {}
  PROVE  \E n \in T : \A m \in T : n <= m
  <1>1. PICK n \in T : \A m \in T : ~ (<<m, n>> \in OpToRel(<, Nat))
    BY NatLessThanWellFounded, WFMin
  <1>2. ASSUME NEW m \in T PROVE m \in Nat /\ n \in Nat /\ ~(m < n)
    BY <1>1 DEF OpToRel
  <1>3. \A m \in T : n <= m
    BY <1>2
  <1> QED
    BY <1>3

\* Naturals below a bound have a greatest.
LEMMA GreatestOfSome ==
  ASSUME NEW T, T \subseteq Nat, T # {}, NEW bound \in Nat, \A m \in T : m <= bound
  PROVE  Max(T) \in T /\ \A m \in T : m <= Max(T)
<1> DEFINE Distances == {bound - m : m \in T}
<1>0. Distances \subseteq Nat /\ Distances # {}
  <2>1. \A m \in T : bound - m \in Nat
    OBVIOUS
  <2> QED
    BY <2>1
<1> HIDE DEF Distances
<1>1. PICK d \in Distances : \A e \in Distances : d <= e
  BY <1>0, LeastOfSome
<1>2. PICK n \in T : d = bound - n
  BY <1>1 DEF Distances
<1>3. ASSUME NEW m \in T
      PROVE  n >= m
  <2>1. bound - m \in Distances
    BY DEF Distances
  <2>2. d <= bound - m
    BY <1>1, <2>1
  <2> QED
    BY <1>2, <2>2
<1> QED
  BY <1>3 DEF Max

-----------------------------------------------------------------------------
(* Histories. *)

\* A history of amounts captured up to a block.
IsHistory(history, block) ==
  /\ DOMAIN history \subseteq 1 .. block
  /\ \A b \in DOMAIN history : history[b] \in Nat

\* What a history answers is an amount it remembers, or zero.
LEMMA ValueAtType ==
  ASSUME NEW history, NEW now \in Nat, IsHistory(history, now), NEW block \in Nat
  PROVE  ValueAt(history, block) \in Nat
<1> DEFINE upTo == {b \in DOMAIN history : b <= block}
<1>1. upTo # {} => Max(upTo) \in upTo
  <2>1. upTo \subseteq Nat /\ \A b \in upTo : b <= now
    BY DEF IsHistory
  <2> QED
    BY <2>1, GreatestOfSome
<1> QED
  BY <1>1 DEF ValueAt, IsHistory

\* Nothing was remembered before the first capture.
LEMMA ValueAtNothing ==
  ASSUME NEW block
  PROVE  ValueAt(NoHistory, block) = 0
  BY DEF ValueAt, NoHistory

\* From the block of the last capture on, a history answers the same.
LEMMA ValueAtLater ==
  ASSUME NEW history, NEW now \in Nat, IsHistory(history, now), NEW block \in Nat, block >= now
  PROVE  ValueAt(history, block) = ValueAt(history, now)
<1>1. {b \in DOMAIN history : b <= block} = {b \in DOMAIN history : b <= now}
  BY DEF IsHistory
<1> QED
  BY <1>1 DEF ValueAt

\* A capture in the present block is the answer for it, and changes no answer for
\* a past block.
LEMMA ValueAtCaptured ==
  ASSUME NEW history, NEW now \in Nat \ {0}, IsHistory(history, now),
         NEW amount \in Nat
  PROVE  /\ IsHistory(Captured(history, now, amount), now)
         /\ ValueAt(Captured(history, now, amount), now) = amount
         /\ \A block \in 0 .. now - 1 :
              ValueAt(Captured(history, now, amount), block) = ValueAt(history, block)
<1> DEFINE after == Captured(history, now, amount)
<1>1. /\ DOMAIN after = DOMAIN history \cup {now}
      /\ after[now] = amount
      /\ \A b \in DOMAIN history \ {now} : after[b] = history[b]
  BY DEF Captured
<1> HIDE DEF after
<1>2. IsHistory(after, now)
  BY <1>1 DEF IsHistory
<1>3. ValueAt(after, now) = amount
  <2> DEFINE upTo == {b \in DOMAIN after : b <= now}
  <2>1. upTo \subseteq Nat /\ now \in upTo /\ \A b \in upTo : b <= now
    BY <1>1, <1>2 DEF IsHistory
  <2>2. Max(upTo) \in upTo /\ now <= Max(upTo)
    BY <2>1, GreatestOfSome
  <2>3. Max(upTo) = now
    BY <2>1, <2>2
  <2> QED
    BY <1>1, <2>1, <2>3 DEF ValueAt
<1>4. ASSUME NEW block \in 0 .. now - 1
      PROVE  ValueAt(after, block) = ValueAt(history, block)
  <2> DEFINE upTo == {b \in DOMAIN history : b <= block}
  <2>1. {b \in DOMAIN after : b <= block} = upTo
    BY <1>1
  <2>2. upTo \subseteq Nat /\ \A b \in upTo : b <= now
    BY DEF IsHistory
  <2>3. upTo # {} => Max(upTo) \in upTo
    BY <2>2, GreatestOfSome
  <2>4. upTo # {} => after[Max(upTo)] = history[Max(upTo)]
    BY <1>1, <2>3
  <2> QED
    BY <2>1, <2>4 DEF ValueAt
<1> QED
  BY <1>2, <1>3, <1>4 DEF after

\* What is remembered of the past blocks is a sequence, and ends with the present
\* block when that ends.
LEMMA Sealing ==
  ASSUME NEW now \in Nat \ {0}, NEW S, NEW past \in [1 .. now - 1 -> S], NEW last \in S,
         NEW after \in [1 .. now -> S],
         \A b \in 1 .. now - 1 : after[b] = past[b], after[now] = last
  PROVE  after = Append(past, last)
<1>1. now - 1 \in Nat
  OBVIOUS
<1>2. past \in Seq(S) /\ Len(past) = now - 1
  <2>1. past \in Seq(S)
    BY <1>1, SeqDef
  <2> QED
    BY <1>1, <2>1, LenProperties
<1>3. /\ Append(past, last) \in Seq(S) /\ Len(Append(past, last)) = now
      /\ \A i \in 1 .. now - 1 : Append(past, last)[i] = past[i]
      /\ Append(past, last)[now] = last
  BY <1>2, AppendProperties
<1>4. Append(past, last) = [i \in 1 .. now |-> Append(past, last)[i]]
  BY <1>3, LenProperties
<1>5. ASSUME NEW b \in 1 .. now
      PROVE  after[b] = Append(past, last)[b]
  <2>1. b = now \/ b \in 1 .. now - 1
    OBVIOUS
  <2> QED
    BY <1>3, <2>1
<1>6. [b \in 1 .. now |-> after[b]] = [b \in 1 .. now |-> Append(past, last)[b]]
  BY <1>5
<1> QED
  BY <1>4, <1>6

-----------------------------------------------------------------------------
(* What is retained of a sequence. *)

\* The function by which Retained is defined, up to a place.
IsUpTo(f, taken, places, last) ==
  f = [n \in 0 .. last |->
         IF n = 0 THEN << >>
         ELSE IF n \in places THEN Append(f[n - 1], taken[n])
         ELSE f[n - 1]]

\* A sequence is made of elements of another, in their order and none twice, and
\* of all of those at some places up to a last one.
IsPicked(kept, taken, places, last, from) ==
  /\ from \in [1 .. Len(kept) -> 1 .. last]
  /\ \A k \in 1 .. Len(kept) : from[k] \in places /\ kept[k] = taken[from[k]]
  /\ \A j, k \in 1 .. Len(kept) : j <= k => from[k] - from[j] >= k - j
  /\ \A n \in places \cap 1 .. last : \E k \in 1 .. Len(kept) : from[k] = n

\* One place of such a function takes the one before it as given.
LEMMA UpToAt ==
  ASSUME NEW f, NEW taken, NEW places, NEW last \in Nat, IsUpTo(f, taken, places, last),
         NEW n \in 0 .. last
  PROVE  /\ n = 0 => f[n] = << >>
         /\ n # 0 => f[n] = IF n \in places THEN Append(f[n - 1], taken[n]) ELSE f[n - 1]
<1> DEFINE g == [m \in 0 .. last |->
                  IF m = 0 THEN << >>
                  ELSE IF m \in places THEN Append(f[m - 1], taken[m])
                  ELSE f[m - 1]]
<1>1. g[n] = IF n = 0 THEN << >>
             ELSE IF n \in places THEN Append(f[n - 1], taken[n])
             ELSE f[n - 1]
  OBVIOUS
<1>2. f = g
  BY DEF IsUpTo
<1>3. f[n] = g[n]
  BY <1>2, Zenon
<1> HIDE DEF g
<1> QED
  BY <1>1, <1>3

\* There is one up to every place: the least place without one would have it.
LEMMA UpToExists ==
  ASSUME NEW taken, NEW places, NEW last \in Nat
  PROVE  \E f : IsUpTo(f, taken, places, last)
<1> DEFINE Without == {n \in Nat : ~ \E f : IsUpTo(f, taken, places, n)}
<1>1. SUFFICES ASSUME Without # {}
               PROVE  FALSE
  OBVIOUS
<1>2. PICK n \in Without : \A m \in Without : n <= m
  BY <1>1, LeastOfSome
<1>3. n \in Nat /\ ~ \E f : IsUpTo(f, taken, places, n)
  BY <1>2
<1>4. CASE n = 0
  <2> DEFINE f == [m \in 0 .. n |-> << >>]
  <2>1. IsUpTo(f, taken, places, n)
    BY <1>4 DEF IsUpTo
  <2> QED
    BY <1>3, <2>1
<1>5. CASE n # 0
  <2>1. n - 1 \in Nat /\ n - 1 \notin Without
    BY <1>2, <1>3, <1>5
  <2>2. PICK g : IsUpTo(g, taken, places, n - 1)
    BY <2>1
  <2>3. PICK end : end = IF n \in places THEN Append(g[n - 1], taken[n]) ELSE g[n - 1]
    OBVIOUS
  <2> DEFINE f == [m \in 0 .. n |-> IF m = n THEN end ELSE g[m]]
  <2>4. f[n] = end /\ \A m \in 0 .. n - 1 : f[m] = g[m]
    BY <1>3
  <2>5. f = [m \in 0 .. n |-> f[m]]
    OBVIOUS
  <2> HIDE DEF f
  <2>6. ASSUME NEW m \in 0 .. n
        PROVE  f[m] = IF m = 0 THEN << >>
                      ELSE IF m \in places THEN Append(f[m - 1], taken[m])
                      ELSE f[m - 1]
    <3>1. CASE m = n
      <4>1. m # 0 /\ n - 1 \in 0 .. n - 1 /\ f[n - 1] = g[n - 1]
        BY <1>3, <1>5, <2>4, <3>1
      <4> QED
        BY <2>3, <2>4, <3>1, <4>1
    <3>2. CASE m # n
      <4>1. m \in 0 .. n - 1 /\ f[m] = g[m]
        BY <1>3, <2>4, <3>2
      <4>2. m # 0 => m - 1 \in 0 .. n - 1 /\ f[m - 1] = g[m - 1]
        BY <1>3, <2>4, <4>1
      <4>3. /\ m = 0 => g[m] = << >>
            /\ m # 0 => g[m] = IF m \in places THEN Append(g[m - 1], taken[m]) ELSE g[m - 1]
        BY <2>1, <2>2, <4>1, UpToAt
      <4> QED
        BY <4>1, <4>2, <4>3
    <3> QED
      BY <3>1, <3>2
  <2>7. IsUpTo(f, taken, places, n)
    BY <2>5, <2>6, Zenon DEF IsUpTo
  <2> QED
    BY <1>3, <2>7
<1> QED
  BY <1>4, <1>5

\* Another element at the end is picked or not.
LEMMA PickedNext ==
  ASSUME NEW S, NEW taken \in Seq(S), NEW places, NEW n \in 1 .. Len(taken),
         NEW kept \in Seq(S), NEW from, IsPicked(kept, taken, places, n - 1, from)
  PROVE  /\ n \notin places => \E g : IsPicked(kept, taken, places, n, g)
         /\ n \in places => /\ Append(kept, taken[n]) \in Seq(S)
                            /\ \E g : IsPicked(Append(kept, taken[n]), taken, places, n, g)
<1> DEFINE len == Len(kept)
<1>0. taken[n] \in S /\ n \in Nat /\ len \in Nat
  BY ElementOfSeq, LenProperties
<1>1. /\ from \in [1 .. len -> 1 .. n - 1]
      /\ \A k \in 1 .. len : from[k] \in places /\ kept[k] = taken[from[k]]
      /\ \A j, k \in 1 .. len : j <= k => from[k] - from[j] >= k - j
      /\ \A p \in places \cap 1 .. n - 1 : \E k \in 1 .. len : from[k] = p
  BY DEF IsPicked
<1>2. CASE n \notin places
  <2>2. from \in [1 .. len -> 1 .. n]
    BY <1>0, <1>1
  <2>3. places \cap 1 .. n = places \cap 1 .. n - 1
    BY <1>0, <1>2
  <2>4. IsPicked(kept, taken, places, n, from)
    BY <1>1, <2>2, <2>3 DEF IsPicked
  <2> QED
    BY <1>2, <2>4
<1>3. CASE n \in places
  <2> DEFINE g == [k \in 1 .. len + 1 |-> IF k = len + 1 THEN n ELSE from[k]]
  <2>1. PICK after : after = Append(kept, taken[n])
    OBVIOUS
  <2>2. /\ after \in Seq(S) /\ Len(after) = len + 1 /\ after[len + 1] = taken[n]
        /\ \A k \in 1 .. len : after[k] = kept[k]
    BY <1>0, <2>1, AppendProperties
  <2> HIDE DEF len
  <2>3. g[len + 1] = n /\ \A k \in 1 .. len : k \in 1 .. len + 1 /\ g[k] = from[k]
    BY <1>0
  <2>4. g \in [1 .. len + 1 -> 1 .. n]
    <3>1. \A k \in 1 .. len + 1 : k # len + 1 => k \in 1 .. len /\ from[k] \in 1 .. n - 1
      BY <1>0, <1>1
    <3>2. n \in 1 .. n /\ \A p \in 1 .. n - 1 : p \in 1 .. n
      BY <1>0
    <3> QED
      BY <3>1, <3>2
  <2> HIDE DEF g
  <2>5. \A k \in 1 .. len + 1 : k \in 1 .. len \/ k = len + 1
    BY <1>0
  <2>6. \A k \in 1 .. len + 1 : g[k] \in places /\ after[k] = taken[g[k]]
    BY <1>1, <1>3, <2>2, <2>3, <2>5
  <2>7. ASSUME NEW j \in 1 .. len + 1, NEW k \in 1 .. len + 1, j <= k
        PROVE  g[k] - g[j] >= k - j
    <3>1. CASE k \in 1 .. len
      <4>1. j \in 1 .. len
        BY <1>0, <2>7, <3>1
      <4> QED
        BY <1>1, <2>3, <2>7, <3>1, <4>1
    <3>2. CASE k = len + 1 /\ j = len + 1
      BY <1>0, <2>3, <3>2
    <3>3. CASE k = len + 1 /\ j \in 1 .. len
      <4>1. len \in 1 .. len /\ j <= len
        BY <1>0, <3>3
      <4>2. /\ from[len] - from[j] >= len - j
            /\ from[len] \in 1 .. n - 1 /\ from[j] \in 1 .. n - 1
        BY <1>1, <3>3, <4>1
      <4>3. g[j] = from[j] /\ g[k] = n
        BY <2>3, <3>3
      <4> QED
        BY <1>0, <3>3, <4>2, <4>3
    <3> QED
      BY <2>5, <3>1, <3>2, <3>3
  <2>8. ASSUME NEW p \in places \cap 1 .. n
        PROVE  \E k \in 1 .. len + 1 : g[k] = p
    <3>1. CASE p = n
      BY <1>0, <2>3, <3>1
    <3>2. CASE p # n
      <4>1. p \in places \cap 1 .. n - 1
        BY <1>0, <3>2
      <4> QED
        BY <1>1, <2>3, <4>1
    <3> QED
      BY <3>1, <3>2
  <2>9. IsPicked(after, taken, places, n, g)
    BY <2>2, <2>4, <2>6, <2>7, <2>8 DEF IsPicked
  <2> QED
    BY <1>3, <2>1, <2>2, <2>9
<1> QED
  BY <1>2, <1>3

\* So is what is picked up to any place: the least for which it were not has one
\* before it.
LEMMA UpToPicks ==
  ASSUME NEW S, NEW taken \in Seq(S), NEW places, NEW f, IsUpTo(f, taken, places, Len(taken)),
         NEW last \in 0 .. Len(taken)
  PROVE  /\ f[last] \in Seq(S)
         /\ \E from : IsPicked(f[last], taken, places, last, from)
<1> DEFINE Picks(n) == /\ f[n] \in Seq(S)
                       /\ \E from : IsPicked(f[n], taken, places, n, from)
           Wrong == {n \in 0 .. Len(taken) : ~ Picks(n)}
<1>0. Len(taken) \in Nat
  BY LenProperties
<1>1. SUFFICES ASSUME Wrong # {}
               PROVE  FALSE
  OBVIOUS
<1>2. Wrong \subseteq Nat
  BY <1>0
<1>3. PICK n \in Wrong : \A m \in Wrong : n <= m
  <2> HIDE DEF Wrong
  <2> QED
    BY <1>1, <1>2, LeastOfSome
<1>4. n \in 0 .. Len(taken) /\ n \in Nat /\ ~ Picks(n)
  BY <1>2, <1>3
<1>5. CASE n = 0
  <2>1. f[n] = << >>
    BY <1>0, <1>4, <1>5, UpToAt
  <2>2. f[n] \in Seq(S) /\ Len(f[n]) = 0
    BY <2>1, EmptySeq
  <2>3. [k \in {} |-> 0] \in [1 .. 0 -> 1 .. 0]
    OBVIOUS
  <2>4. IsPicked(f[n], taken, places, n, [k \in {} |-> 0])
    BY <1>5, <2>2, <2>3 DEF IsPicked
  <2> QED
    BY <1>4, <2>2, <2>4
<1>6. CASE n # 0
  <2>1. n - 1 \in 0 .. Len(taken) /\ n - 1 \notin Wrong /\ n \in 1 .. Len(taken)
    <3>1. n - 1 \in 0 .. Len(taken) /\ n \in 1 .. Len(taken) /\ ~(n <= n - 1)
      BY <1>0, <1>4, <1>6
    <3> HIDE DEF Wrong
    <3> QED
      BY <1>3, <3>1
  <2>2. Picks(n - 1)
    BY <2>1
  <2>3. f[n] = IF n \in places THEN Append(f[n - 1], taken[n]) ELSE f[n - 1]
    BY <1>0, <1>4, <1>6, UpToAt
  <2>4. PICK kept, after : kept = f[n - 1] /\ after = f[n]
    OBVIOUS
  <2>5. PICK from : IsPicked(kept, taken, places, n - 1, from)
    BY <2>2, <2>4
  <2>6. kept \in Seq(S) /\ after = IF n \in places THEN Append(kept, taken[n]) ELSE kept
    BY <2>2, <2>3, <2>4
  <2> HIDE DEF Picks, Wrong
  <2>7. after \in Seq(S) /\ \E g : IsPicked(after, taken, places, n, g)
    <3>1. n \in 1 .. Len(taken) /\ kept \in Seq(S) /\ IsPicked(kept, taken, places, n - 1, from)
      BY <2>1, <2>5, <2>6
    <3>2. /\ n \notin places => \E g : IsPicked(kept, taken, places, n, g)
          /\ n \in places => /\ Append(kept, taken[n]) \in Seq(S)
                             /\ \E g : IsPicked(Append(kept, taken[n]), taken, places, n, g)
      BY <3>1, PickedNext
    <3> QED
      BY <2>6, <3>2
  <2> QED
    BY <1>4, <2>4, <2>7 DEF Picks
<1> QED
  BY <1>5, <1>6

\* What is retained are the elements at the places.
LEMMA RetainedIsPicked ==
  ASSUME NEW S, NEW taken \in Seq(S), NEW places
  PROVE  /\ Retained(taken, places) \in Seq(S)
         /\ \E from : IsPicked(Retained(taken, places), taken, places, Len(taken), from)
<1>0. Len(taken) \in Nat /\ Len(taken) \in 0 .. Len(taken)
  BY LenProperties
<1>1. \E f : IsUpTo(f, taken, places, Len(taken))
  BY <1>0, UpToExists
<1>2. PICK chosen : chosen = CHOOSE f : IsUpTo(f, taken, places, Len(taken))
  OBVIOUS
<1>3. IsUpTo(chosen, taken, places, Len(taken))
  BY <1>1, <1>2
<1>4. Retained(taken, places) = chosen[Len(taken)]
  BY <1>2 DEF Retained, IsUpTo
<1>5. PICK last : last = Len(taken)
  OBVIOUS
<1>6. last \in 0 .. Len(taken)
  BY <1>0, <1>5
<1>7. /\ chosen[last] \in Seq(S)
      /\ \E from : IsPicked(chosen[last], taken, places, last, from)
  BY <1>3, <1>6, UpToPicks
<1> QED
  BY <1>4, <1>5, <1>7

=============================================================================
