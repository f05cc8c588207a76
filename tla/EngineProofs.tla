---------------------------- MODULE EngineProofs ----------------------------
(***************************************************************************)
(* The budget engine of the shared package, for every amount, every length *)
(* of a period and every schedule.  Its dates (recurrence.ts, period.ts,   *)
(* rebase-rule-starts.ts): module RecurringRules finds exactly the dates   *)
(* of a rule in each period, and a change of the period's first day loses  *)
(* none.  Its amounts: in module Balance the limit is covered, the         *)
(* announced share of the next days is kept, and the change the app makes  *)
(* on its own is the engine's.  Both together, module BudgetDays: what the *)
(* budget does from day to day, whatever is recorded and answered.  And    *)
(* module Forecasts: the limits suggested in a lean period save enough.    *)
(***************************************************************************)
EXTENDS RecurringRules, BudgetDays, Forecasts, FiniteSetTheorems, WellFoundedInduction, TLAPS

-----------------------------------------------------------------------------
(* Multiples, by which the code walks from one date of a rule to the next. *)
LEMMA Quotient ==
    ASSUME NEW n \in Int, NEW d \in Nat \ {0}
    PROVE  /\ n \div d \in Int /\ n % d \in 0..(d - 1)
           /\ n = d * (n \div d) + (n % d)
<1>1. n \div d \in Int
  OBVIOUS
<1>2. n % d \in 0..(d - 1)
  OBVIOUS
<1>3. n = d * (n \div d) + (n % d)
  BY SMTT(30)
<1> QED BY <1>1, <1>2, <1>3

LEMMA TimesInOrder ==
    ASSUME NEW q \in Int, NEW r \in Int, NEW d \in Nat \ {0}
    PROVE  /\ d * q \in Int /\ d * r \in Int
           /\ q =< r <=> d * q =< d * r
           /\ d * (q + r) = d * q + d * r /\ d * (q - r) = d * q - d * r
           /\ q >= r + 1 => d * q >= d * r + d
<1>1. d * q \in Int /\ d * r \in Int
  OBVIOUS
<1>2. d * (q + r) = d * q + d * r
  OBVIOUS
<1>3. d * (q - r) = d * q - d * r
  OBVIOUS
<1>4. q >= r + 1 => d * q >= d * r + d
  OBVIOUS
<1>5. r >= q + 1 => d * r >= d * q + d
  OBVIOUS
<1>6. q = r => d * q = d * r
  OBVIOUS
<1>7. q =< r <=> d * q =< d * r
  BY <1>1, <1>4, <1>5, <1>6
<1> QED BY <1>1, <1>2, <1>3, <1>4, <1>7

LEMMA Split ==
    ASSUME NEW n \in Int, NEW d \in Nat \ {0}
    PROVE  \E q \in Int, m \in 0..(d - 1) : q = n \div d /\ m = n % d /\ n = d * q + m
<1>1. n \div d \in Int /\ n % d \in 0..(d - 1) /\ n = d * (n \div d) + (n % d)
  BY Quotient
<1> QED BY <1>1

LEMMA Multiple ==
    ASSUME NEW n \in Int, NEW d \in Nat \ {0}
    PROVE  n % d = 0 <=> \E k \in Int : n = d * k
<1>1. ASSUME n % d = 0 PROVE \E k \in Int : n = d * k
  <2>1. PICK q \in Int, m \in 0..(d - 1) : m = n % d /\ n = d * q + m
    BY Split
  <2>2. d * q \in Int
    BY TimesInOrder
  <2>3. n = d * q
    BY <1>1, <2>1, <2>2
  <2> QED BY <2>3
<1>2. ASSUME NEW k \in Int, n = d * k PROVE n % d = 0
  <2>1. PICK q \in Int, r \in 0..(d - 1) : q = n \div d /\ r = n % d /\ n = d * q + r
    BY Split
  <2>2. d * (k - q) = r
    BY <1>2, <2>1, TimesInOrder
  <2>3. k = q
    <3>1. k > q => d * k >= d * q + d
      BY TimesInOrder
    <3>2. k < q => d * q >= d * k + d
      BY TimesInOrder
    <3>3. d * k \in Int /\ d * q \in Int
      BY TimesInOrder
    <3> QED BY <1>2, <2>1, <3>1, <3>2, <3>3
  <2> QED BY <1>2, <2>1, <2>3, TimesInOrder
<1> QED BY <1>1, <1>2

(* Two numbers a whole number of steps apart have the same phase.          *)
LEMMA SamePhase ==
    ASSUME NEW a \in Int, NEW b \in Int, NEW c \in Int, NEW d \in Nat \ {0}, (a - b) % d = 0
    PROVE  (c - a) % d = 0 <=> (c - b) % d = 0
<1>0. PICK x \in Int, y \in Int, z \in Int : x = a - b /\ y = c - a /\ z = c - b
  OBVIOUS
<1>1. PICK k \in Int : x = d * k
  BY <1>0, Multiple
<1>2. ASSUME NEW j \in Int, y = d * j PROVE \E i \in Int : z = d * i
  <2>1. d * (j + k) = d * j + d * k /\ d * j \in Int /\ d * k \in Int
    BY TimesInOrder
  <2>2. z = d * (j + k)
    BY <1>0, <1>1, <1>2, <2>1
  <2> QED BY <2>2
<1>3. ASSUME NEW j \in Int, z = d * j PROVE \E i \in Int : y = d * i
  <2>1. d * (j - k) = d * j - d * k /\ d * j \in Int /\ d * k \in Int
    BY TimesInOrder
  <2>2. y = d * (j - k)
    BY <1>0, <1>1, <1>3, <2>1
  <2> QED BY <2>2
<1>4. y % d = 0 <=> \E j \in Int : y = d * j
  BY Multiple
<1>5. z % d = 0 <=> \E j \in Int : z = d * j
  BY Multiple
<1> QED BY <1>0, <1>2, <1>3, <1>4, <1>5

(* Math.floor of a quotient (n \div d).                                    *)
LEMMA FloorBounds ==
    ASSUME NEW n \in Int, NEW d \in Nat \ {0}
    PROVE  /\ n \div d \in Int
           /\ d * (n \div d) =< n
           /\ n < d * (n \div d) + d
  BY SMTT(30)

(* Multiplication by a positive number keeps the order.                    *)
LEMMA TimesMonotone ==
    ASSUME NEW q \in Int, NEW r \in Int, NEW d \in Nat, q =< r
    PROVE  d * q =< d * r
  BY SMTT(30)

(* The floor is the greatest q with d * q =< n ...                         *)
LEMMA FloorAtLeast ==
    ASSUME NEW n \in Int, NEW d \in Nat \ {0}, NEW q \in Int, d * q =< n
    PROVE  q =< n \div d
  <1>1. n \div d \in Int /\ n < d * (n \div d) + d
    BY FloorBounds
  <1>2. CASE q > n \div d
    <2>1. d * ((n \div d) + 1) =< d * q
      BY <1>1, <1>2, TimesMonotone
    <2>. QED BY <1>1, <2>1, SMTT(30)
  <1>. QED BY <1>1, <1>2

(* ... and no more than any r with n < d * r + d.                          *)
LEMMA FloorAtMost ==
    ASSUME NEW n \in Int, NEW d \in Nat \ {0}, NEW r \in Int, n < d * r + d
    PROVE  n \div d =< r
  <1>1. n \div d \in Int /\ d * (n \div d) =< n
    BY FloorBounds
  <1>2. CASE n \div d > r
    <2>1. d * (r + 1) =< d * (n \div d)
      BY <1>1, <1>2, TimesMonotone
    <2>. QED BY <1>1, <2>1, SMTT(30)
  <1>. QED BY <1>1, <1>2

LEMMA FloorMonotone ==
    ASSUME NEW n \in Int, NEW m \in Int, NEW d \in Nat \ {0}, n =< m
    PROVE  n \div d =< m \div d
  BY FloorBounds, FloorAtLeast

-----------------------------------------------------------------------------
(* Every nonempty set of natural numbers has a least element: the induction *)
(* that the calendar needs.                                                *)
LEMMA LeastNatural ==
    ASSUME NEW T, T \subseteq Nat, T # {}
    PROVE  \E x \in T : \A y \in T : x =< y
<1> DEFINE R == OpToRel(<, Nat)
<1>1. IsWellFoundedOn(R, Nat)
  BY NatLessThanWellFounded
<1>2. PICK x \in T : \A y \in T : <<y, x>> \notin R
  BY <1>1, WFMin
<1>3. \A y \in T : ~(y < x)
  BY <1>2 DEF OpToRel
<1> HIDE DEF R
<1> QED BY <1>2, <1>3

(* A bounded set of integers has its Max (FiniteSetsExt).                  *)
LEMMA MaxExists ==
    ASSUME NEW S, S \subseteq Int, S # {}, NEW b \in Int, \A x \in S : x =< b
    PROVE  Max(S) \in S /\ \A x \in S : x =< Max(S)
<1> DEFINE T == {n \in Nat : b - n \in S}
<1>1. T # {}
  <2>1. PICK x \in S : TRUE
    OBVIOUS
  <2>2. b - x \in Nat /\ b - (b - x) = x
    BY <2>1
  <2> QED BY <2>2
<1>2. PICK n \in T : \A k \in T : n =< k
  BY <1>1, LeastNatural
<1>3. b - n \in S /\ n \in Nat
  BY <1>2
<1>4. ASSUME NEW x \in S PROVE b - n >= x
  <2>1. b - x \in Nat /\ b - (b - x) = x
    OBVIOUS
  <2>2. n =< b - x
    BY <1>2, <2>1
  <2> QED BY <1>3, <2>2
<1> QED BY <1>3, <1>4 DEF Max

-----------------------------------------------------------------------------
(* What SumFunction computes, set by set.                                  *)
Adds(f, s, it) ==
    IF s = {} THEN 0
    ELSE LET x == CHOOSE y \in s : TRUE IN f[x] + it[s \ {x}]
Sums(f, D) == CHOOSE it : it = [s \in SUBSET D |-> Adds(f, s, it)]

LEMMA SumIs ==
    ASSUME NEW f
    PROVE  SumFunction(f) = Sums(f, DOMAIN f)[DOMAIN f]
BY DEF SumFunction, SumFunctionOnSet, FoldFunctionOnSet, MapThenFoldSet, Sums, Adds

Small(D, n) == {s \in SUBSET D : Cardinality(s) <= n}

LEMMA SumsExist ==
    ASSUME NEW f, NEW D, IsFiniteSet(D)
    PROVE  \A s \in SUBSET D : Sums(f, D)[s] = Adds(f, s, Sums(f, D))
<1> DEFINE Has(n) == \E it : it = [s \in Small(D, n) |-> Adds(f, s, it)]
           T == {n \in Nat : ~Has(n)}
<1>1. Has(0)
  <2>1. Small(D, 0) = {{}}
    BY FS_EmptySet, FS_Subset, FS_CardinalityType DEF Small
  <2>2. [s \in Small(D, 0) |-> 0] = [s \in Small(D, 0) |-> Adds(f, s, [t \in Small(D, 0) |-> 0])]
    BY <2>1 DEF Adds
  <2> QED BY <2>2
<1>2. ASSUME NEW n \in Nat, Has(n) PROVE Has(n + 1)
  <2>1. PICK it : it = [s \in Small(D, n) |-> Adds(f, s, it)]
    BY <1>2
  <2> DEFINE next == [s \in Small(D, n + 1) |-> Adds(f, s, it)]
  <2>2. ASSUME NEW s \in Small(D, n + 1), s # {}, NEW x \in s
        PROVE  s \ {x} \in Small(D, n)
    <3>1. s \in SUBSET D /\ IsFiniteSet(s) /\ Cardinality(s) <= n + 1
      BY FS_Subset DEF Small
    <3>2. Cardinality(s \ {x}) = Cardinality(s) - 1 /\ Cardinality(s) \in Nat
      BY <2>2, <3>1, FS_RemoveElement, FS_CardinalityType
    <3> QED BY <3>1, <3>2 DEF Small
  <2>3. Small(D, n) \subseteq Small(D, n + 1)
    BY FS_Subset, FS_CardinalityType DEF Small
  <2>4. \A s \in Small(D, n) : next[s] = it[s]
    BY <2>1, <2>3
  <2>5. \A s \in Small(D, n + 1) : Adds(f, s, it) = Adds(f, s, next)
    <3> TAKE s \in Small(D, n + 1)
    <3>1. CASE s = {}
      BY <3>1 DEF Adds
    <3>2. CASE s # {}
      <4>1. PICK x : x = (CHOOSE y \in s : TRUE)
        OBVIOUS
      <4>2. x \in s
        BY <3>2, <4>1
      <4>3. it[s \ {x}] = next[s \ {x}]
        BY <2>2, <2>4, <3>2, <4>2
      <4> QED BY <3>2, <4>1, <4>3 DEF Adds
    <3> QED BY <3>1, <3>2
  <2>6. next = [s \in Small(D, n + 1) |-> Adds(f, s, next)]
    BY <2>5
  <2> QED BY <2>6
<1> HIDE DEF Has
<1>3. T = {}
  <2>1. SUFFICES ASSUME T # {} PROVE FALSE
    OBVIOUS
  <2>2. PICK n \in T : \A k \in T : n =< k
    BY <2>1, LeastNatural
  <2>3. n # 0
    BY <1>1, <2>2
  <2>4. n - 1 \in Nat /\ n - 1 \notin T /\ (n - 1) + 1 = n
    BY <2>2, <2>3
  <2> QED BY <1>2, <2>2, <2>4
<1>4. Cardinality(D) \in Nat
  BY FS_CardinalityType
<1>5. Has(Cardinality(D))
  BY <1>3, <1>4
<1>6. Small(D, Cardinality(D)) = SUBSET D
  BY FS_Subset DEF Small
<1>7. \E it : it = [s \in SUBSET D |-> Adds(f, s, it)]
  BY <1>5, <1>6 DEF Has
<1> DEFINE sum == Sums(f, D)
           adds(s) == Adds(f, s, sum)
<1>8. sum = [s \in SUBSET D |-> adds(s)]
  BY <1>7 DEF Sums
<1> HIDE DEF adds
<1>9. \A s \in SUBSET D : sum[s] = adds(s)
  BY <1>8
<1> QED BY <1>9 DEF adds

LEMMA SumsUnfold ==
    ASSUME NEW D, IsFiniteSet(D), NEW f \in [D -> Int], NEW s \in SUBSET D
    PROVE  /\ Sums(f, D)[s] \in Int
           /\ s = {} => Sums(f, D)[s] = 0
           /\ \A x \in s : Sums(f, D)[s] = f[x] + Sums(f, D)[s \ {x}]
<1> DEFINE sum == Sums(f, D)
           Good(t) == /\ sum[t] \in Int
                      /\ \A x \in t : sum[t] = f[x] + sum[t \ {x}]
           Bad == {n \in Nat : \E t \in SUBSET D : Cardinality(t) = n /\ ~Good(t)}
<1>1. \A t \in SUBSET D : sum[t] = Adds(f, t, sum)
  BY SumsExist
<1>2. sum[{}] = 0
  BY <1>1 DEF Adds
<1>3. \A t \in SUBSET D : t # {} => \E x \in t : sum[t] = f[x] + sum[t \ {x}]
  BY <1>1 DEF Adds
<1> HIDE DEF sum
<1>4. \A t \in SUBSET D : /\ Cardinality(t) \in Nat
                          /\ \A x \in t : Cardinality(t \ {x}) = Cardinality(t) - 1
  BY FS_Subset, FS_CardinalityType, FS_RemoveElement
<1> HIDE DEF Good
<1>5. Bad = {}
  <2>1. SUFFICES ASSUME Bad # {} PROVE FALSE
    OBVIOUS
  <2>2. PICK n \in Bad : \A k \in Bad : n =< k
    BY <2>1, LeastNatural
  <2>3. PICK t \in SUBSET D : Cardinality(t) = n /\ ~Good(t)
    BY <2>2
  <2>4. \A u \in SUBSET D : Cardinality(u) < n => Good(u)
    BY <1>4, <2>2
  <2>5. t # {}
    BY <1>2, <2>3 DEF Good
  <2>6. PICK y \in t : sum[t] = f[y] + sum[t \ {y}]
    BY <1>3, <2>5
  <2>7. \A x \in t : t \ {x} \in SUBSET D /\ Good(t \ {x})
    BY <1>4, <2>3, <2>4
  <2>8. ASSUME NEW x \in t, x # y PROVE sum[t] = f[x] + sum[t \ {x}]
    <3>1. (t \ {x}) \ {y} = (t \ {y}) \ {x} /\ y \in t \ {x} /\ x \in t \ {y}
      BY <2>8
    <3>2. PICK a \in Int : a = sum[(t \ {x}) \ {y}]
      <4>1. t \ {x} \in SUBSET D /\ Cardinality(t \ {x}) = n - 1
        BY <1>4, <2>3
      <4>2. Cardinality((t \ {x}) \ {y}) = n - 1 - 1
        BY <1>4, <3>1, <4>1
      <4>3. n \in Int /\ n - 1 - 1 < n /\ (t \ {x}) \ {y} \in SUBSET D
        BY <2>2
      <4>4. Good((t \ {x}) \ {y})
        BY <2>4, <4>2, <4>3
      <4> QED BY <4>4 DEF Good
    <3>3. sum[t \ {x}] = f[y] + a
      BY <2>7, <3>1, <3>2 DEF Good
    <3>4. sum[t \ {y}] = f[x] + a
      <4>1. Good(t \ {y})
        BY <2>7
      <4>2. sum[t \ {y}] = f[x] + sum[(t \ {y}) \ {x}]
        BY <3>1, <4>1 DEF Good
      <4> QED BY <3>1, <3>2, <4>2
    <3>5. f[x] \in Int /\ f[y] \in Int
      OBVIOUS
    <3> QED BY <2>6, <3>3, <3>4, <3>5
  <2>9. sum[t] \in Int
    BY <2>6, <2>7 DEF Good
  <2> QED BY <2>3, <2>6, <2>8, <2>9 DEF Good
<1>6. Good(s)
  BY <1>4, <1>5
<1> QED BY <1>2, <1>6 DEF sum, Good

(* A sum depends on the values alone.                                      *)
LEMMA SumsAgree ==
    ASSUME NEW D, IsFiniteSet(D), NEW f \in [D -> Int],
           NEW E, IsFiniteSet(E), NEW g \in [E -> Int],
           NEW s \in SUBSET (D \cap E), \A x \in s : f[x] = g[x]
    PROVE  Sums(f, D)[s] = Sums(g, E)[s]
<1> DEFINE Bad == {n \in Nat : \E t \in SUBSET s : /\ Cardinality(t) = n
                                                    /\ Sums(f, D)[t] # Sums(g, E)[t]}
<1>1. IsFiniteSet(s)
  BY FS_Subset
<1>2. \A t \in SUBSET s : /\ Cardinality(t) \in Nat
                          /\ \A x \in t : Cardinality(t \ {x}) = Cardinality(t) - 1
  BY <1>1, FS_Subset, FS_CardinalityType, FS_RemoveElement
<1>3. Bad = {}
  <2>1. SUFFICES ASSUME Bad # {} PROVE FALSE
    OBVIOUS
  <2>2. PICK n \in Bad : \A k \in Bad : n =< k
    BY <2>1, LeastNatural
  <2>3. PICK t \in SUBSET s : Cardinality(t) = n /\ Sums(f, D)[t] # Sums(g, E)[t]
    BY <2>2
  <2>4. t \in SUBSET D /\ t \in SUBSET E
    OBVIOUS
  <2>5. t # {}
    BY <2>3, <2>4, SumsUnfold
  <2>6. PICK x \in t : TRUE
    BY <2>5
  <2>7. Sums(f, D)[t] = f[x] + Sums(f, D)[t \ {x}] /\ Sums(g, E)[t] = g[x] + Sums(g, E)[t \ {x}]
    BY <2>4, SumsUnfold
  <2>8. Cardinality(t \ {x}) = n - 1 /\ n - 1 \in Nat /\ n - 1 < n
    <3>1. t \ {x} \in SUBSET s /\ n \in Int
      BY <2>2
    <3>2. Cardinality(t \ {x}) \in Nat /\ Cardinality(t \ {x}) = n - 1
      BY <1>2, <2>3, <3>1
    <3> QED BY <3>1, <3>2
  <2>9. Sums(f, D)[t \ {x}] = Sums(g, E)[t \ {x}]
    BY <2>2, <2>8
  <2>10. f[x] = g[x]
    OBVIOUS
  <2> QED BY <2>3, <2>7, <2>9, <2>10
<1> QED BY <1>2, <1>3

LEMMA SumType ==
    ASSUME NEW D, IsFiniteSet(D), NEW f \in [D -> Int]
    PROVE  SumFunction(f) \in Int /\ (D = {} => SumFunction(f) = 0)
BY SumIs, SumsUnfold

(* A function's value where it has one.                                    *)
ValueAt(f, x) == IF x \in DOMAIN f THEN f[x] ELSE 0

LEMMA SumLessOne ==
    ASSUME NEW D, IsFiniteSet(D), NEW f \in [D -> Int], NEW x
    PROVE  /\ SumFunction(f) = ValueAt(f, x) + Sums(f, D)[D \ {x}]
           /\ ValueAt(f, x) \in Int /\ Sums(f, D)[D \ {x}] \in Int
<1>1. /\ DOMAIN f = D /\ D \in SUBSET D /\ D \ {x} \in SUBSET D
      /\ SumFunction(f) = Sums(f, D)[D]
  BY SumIs
<1>2. Sums(f, D)[D \ {x}] \in Int
  BY <1>1, SumsUnfold
<1>3. CASE x \in D
  <2>1. Sums(f, D)[D] = f[x] + Sums(f, D)[D \ {x}]
    BY <1>1, <1>3, SumsUnfold
  <2> QED BY <1>1, <1>2, <1>3, <2>1 DEF ValueAt
<1>4. CASE x \notin D
  <2>1. D \ {x} = D
    BY <1>4
  <2>2. ValueAt(f, x) = 0
    BY <1>1, <1>4 DEF ValueAt
  <2> QED BY <1>1, <1>2, <2>1, <2>2
<1> QED BY <1>3, <1>4

(* Functions that agree but at x.                                          *)
LEMMA SumButOne ==
    ASSUME NEW D, IsFiniteSet(D), NEW f \in [D -> Int],
           NEW E, IsFiniteSet(E), NEW g \in [E -> Int],
           NEW x, D \ {x} = E \ {x}, \A y \in D \ {x} : f[y] = g[y]
    PROVE  SumFunction(g) = SumFunction(f) - ValueAt(f, x) + ValueAt(g, x)
<1>1. /\ SumFunction(f) = ValueAt(f, x) + Sums(f, D)[D \ {x}]
      /\ ValueAt(f, x) \in Int /\ Sums(f, D)[D \ {x}] \in Int
  BY SumLessOne
<1>2. /\ SumFunction(g) = ValueAt(g, x) + Sums(g, E)[E \ {x}]
      /\ ValueAt(g, x) \in Int /\ Sums(g, E)[E \ {x}] \in Int
  BY SumLessOne
<1>3. Sums(f, D)[D \ {x}] = Sums(g, E)[D \ {x}]
  <2>1. D \ {x} \in SUBSET (D \cap E)
    OBVIOUS
  <2> QED BY <2>1, SumsAgree
<1> QED BY <1>1, <1>2, <1>3

-----------------------------------------------------------------------------
(* Months have 28 to 31 days, also across the end of a year.               *)
LEMMA MonthLengths ==
    ASSUME NEW m \in Nat
    PROVE  /\ DaysBefore(m) \in Int /\ DaysBefore(m + 1) \in Int
           /\ DaysBefore(m + 1) - DaysBefore(m) \in 28..31
<1> DEFINE y == m \div 12
           k == m % 12
           past(x) == 365 * (x - 1) + (x - 1) \div 4 - (x - 1) \div 100 + (x - 1) \div 400
           leap(x) == IF Leap(x) THEN 1 ELSE 0
           table == <<0, 31, 59, 90, 120, 151, 181, 212, 243, 273, 304, 334>>
<1>1. y \in Int /\ k \in 0..11
  OBVIOUS
<1>2. DaysBefore(m) = past(y) + table[k + 1] + (IF k > 1 /\ Leap(y) THEN 1 ELSE 0)
  BY DEF DaysBefore
<1>3. \A x \in Int : past(x) \in Int
  OBVIOUS
<1>4. CASE k < 11
  <2>1. (m + 1) \div 12 = y /\ (m + 1) % 12 = k + 1
    BY <1>4
  <2>2. DaysBefore(m + 1) = past(y) + table[k + 2] + (IF k + 1 > 1 /\ Leap(y) THEN 1 ELSE 0)
    BY <1>1, <2>1 DEF DaysBefore
  <2>3. past(y) \in Int
    BY <1>1, <1>3
  <2> HIDE DEF past, y, k
  <2>4. k \in {0, 1, 2, 3, 4, 5, 6, 7, 8, 9, 10}
    BY <1>1, <1>4
  <2> QED BY <1>2, <2>2, <2>3, <2>4
<1>5. CASE k = 11
  <2>1. (m + 1) \div 12 = y + 1 /\ (m + 1) % 12 = 0
    BY <1>5
  <2>2. DaysBefore(m + 1) = past(y + 1)
    BY <1>1, <2>1 DEF DaysBefore
  <2>3. past(y + 1) - past(y) = 365 + leap(y)
    <3> HIDE DEF y
    <3> QED BY <1>1 DEF Leap
  <2>4. past(y) \in Int /\ past(y + 1) \in Int
    BY <1>1, <1>3
  <2>5. DaysBefore(m) = past(y) + 334 + leap(y)
    BY <1>2, <1>5
  <2> HIDE DEF past, y, k
  <2> QED BY <2>2, <2>3, <2>4, <2>5
<1> QED BY <1>1, <1>4, <1>5

(* The months of the calendar, with the one that only ends it.             *)
Firsts == FirstMonth..(LastMonth + 1)

LEMMA MonthTypes ==
    /\ FirstMonth \in Nat /\ LastMonth \in Nat /\ FirstMonth =< LastMonth
    /\ \A m \in Firsts : MonthStart[m] \in Int
    /\ \A m \in Months : m \in Firsts /\ m + 1 \in Firsts
    /\ MonthStart[FirstMonth] = 0
<1>1. FirstMonth \in Nat /\ LastMonth \in Nat /\ FirstMonth =< LastMonth
  BY CalendarAssumption
<1>2. ASSUME NEW m \in Firsts
      PROVE  m \in Nat /\ MonthStart[m] = DaysBefore(m) - DaysBefore(FirstMonth)
  BY <1>1 DEF Firsts, MonthStart
<1>3. ASSUME NEW m \in Firsts
      PROVE  MonthStart[m] \in Int
  BY <1>1, <1>2, MonthLengths
<1>4. MonthStart[FirstMonth] = 0
  <2>1. FirstMonth \in Firsts
    BY <1>1 DEF Firsts
  <2> QED BY <1>1, <1>2, <2>1, MonthLengths
<1> QED BY <1>1, <1>3, <1>4 DEF Months, Firsts

LEMMA MonthLength ==
    ASSUME NEW m \in Months
    PROVE  /\ daysInMonth(m) \in 28..31
           /\ MonthStart[m + 1] = MonthStart[m] + daysInMonth(m)
<1>1. m \in Nat /\ m \in Firsts /\ m + 1 \in Firsts
  BY MonthTypes DEF Months
<1>2. MonthStart[m + 1] - MonthStart[m] = DaysBefore(m + 1) - DaysBefore(m)
  <2>1. DaysBefore(m) \in Int /\ DaysBefore(m + 1) \in Int /\ DaysBefore(FirstMonth) \in Int
    BY <1>1, MonthLengths, MonthTypes
  <2> QED BY <1>1, <2>1 DEF MonthStart, Firsts
<1>3. daysInMonth(m) \in 28..31
  BY <1>1, <1>2, MonthLengths DEF daysInMonth
<1> QED BY <1>1, <1>3, MonthTypes DEF daysInMonth

(* Later months start later, by 28 days a month at least.                  *)
LEMMA MonthsInOrder ==
    ASSUME NEW m \in Firsts, NEW n \in Firsts, m =< n
    PROVE  MonthStart[n] >= MonthStart[m] + 28 * (n - m)
<1> DEFINE Wrong == {x \in Firsts : m =< x /\ MonthStart[x] < MonthStart[m] + 28 * (x - m)}
<1>1. Firsts \subseteq Nat
  BY MonthTypes DEF Firsts
<1>2. CASE Wrong = {}
  BY <1>1, <1>2, MonthTypes
<1>3. CASE Wrong # {}
  <2>1. PICK x \in Wrong : \A y \in Wrong : x =< y
    <3> HIDE DEF Wrong
    <3>1. Wrong \subseteq Nat
      BY <1>1 DEF Wrong
    <3> QED BY <1>3, <3>1, LeastNatural
  <2>2. x # m
    BY <1>1, <2>1, MonthTypes
  <2>3. x - 1 \in Months /\ x - 1 \in Firsts /\ m =< x - 1 /\ x \in Nat /\ m \in Nat
    BY <1>1, <2>1, <2>2, MonthTypes DEF Months, Firsts
  <2>4. MonthStart[x] >= MonthStart[x - 1] + 28
    <3>1. (x - 1) + 1 = x
      BY <2>3
    <3> QED BY <2>3, <3>1, MonthLength, MonthTypes
  <2>5. x - 1 \notin Wrong
    BY <2>1, <2>3
  <2>6. MonthStart[x - 1] >= MonthStart[m] + 28 * ((x - 1) - m)
    BY <2>3, <2>5, MonthTypes
  <2>7. MonthStart[x] < MonthStart[m] + 28 * (x - m)
    BY <2>1
  <2> QED BY <2>1, <2>3, <2>4, <2>6, <2>7, MonthTypes
<1> QED BY <1>2, <1>3

(* A date lies in one month.                                               *)
LEMMA OneMonth ==
    ASSUME NEW m \in Months, NEW n \in Months, NEW date \in Int,
           MonthStart[m] =< date, date < MonthStart[m + 1],
           MonthStart[n] =< date, date < MonthStart[n + 1]
    PROVE  m = n
<1>1. m \in Nat /\ n \in Nat
  BY MonthTypes DEF Months
<1>2. ASSUME NEW a \in Months, NEW b \in Months, a < b
      PROVE  MonthStart[a + 1] =< MonthStart[b]
  <2>1. a + 1 \in Firsts /\ b \in Firsts /\ a \in Nat /\ b \in Nat
    BY MonthTypes DEF Months
  <2> QED BY <1>2, <2>1, MonthsInOrder, MonthTypes
<1> QED BY <1>1, <1>2, MonthTypes

LEMMA MonthOfDate ==
    ASSUME NEW date \in Dates
    PROVE  /\ monthIndexOf(date) \in Months
           /\ MonthStart[monthIndexOf(date)] =< date
           /\ date < MonthStart[monthIndexOf(date) + 1]
<1>0. date \in Nat /\ date < MonthStart[LastMonth + 1]
  BY MonthTypes DEF Dates, Firsts
<1> DEFINE Past == {m \in Nat : m \in Months /\ date < MonthStart[m + 1]}
<1>1. LastMonth \in Past
  BY <1>0, MonthTypes DEF Months
<1>2. PICK m \in Past : \A n \in Past : m =< n
  BY <1>1, LeastNatural
<1>3. MonthStart[m] =< date
  <2>1. CASE m = FirstMonth
    BY <1>0, <2>1, MonthTypes
  <2>2. CASE m # FirstMonth
    <3>1. m - 1 \in Months /\ m - 1 \in Nat /\ (m - 1) + 1 = m
      BY <1>2, <2>2, MonthTypes DEF Months
    <3>2. m - 1 \notin Past
      BY <1>2, <3>1
    <3> QED BY <1>0, <1>2, <3>1, <3>2, MonthTypes
  <2> QED BY <2>1, <2>2
<1>4. \E x \in Months : MonthStart[x] =< date /\ date < MonthStart[x + 1]
  BY <1>2, <1>3
<1> QED BY <1>4 DEF monthIndexOf, MonthOf

LEMMA MonthIs ==
    ASSUME NEW m \in Months, NEW date \in Int, MonthStart[m] =< date, date < MonthStart[m + 1]
    PROVE  date \in Dates /\ monthIndexOf(date) = m
<1>1. m \in Nat /\ m \in Firsts /\ m + 1 \in Firsts /\ FirstMonth \in Firsts
      /\ LastMonth + 1 \in Firsts /\ FirstMonth =< m /\ m + 1 =< LastMonth + 1
  BY MonthTypes DEF Months, Firsts
<1>2. 0 =< MonthStart[m] /\ MonthStart[m + 1] =< MonthStart[LastMonth + 1]
  <2>1. MonthStart[m] >= MonthStart[FirstMonth] + 28 * (m - FirstMonth)
    BY <1>1, MonthsInOrder
  <2>2. MonthStart[LastMonth + 1] >= MonthStart[m + 1] + 28 * ((LastMonth + 1) - (m + 1))
    BY <1>1, MonthsInOrder
  <2> QED BY <1>1, <2>1, <2>2, MonthTypes
<1>3. date \in Dates
  BY <1>1, <1>2, MonthTypes DEF Dates
<1> QED BY <1>3, MonthOfDate, OneMonth

LEMMA MonthsFollowDates ==
    ASSUME NEW a \in Dates, NEW b \in Dates, a =< b
    PROVE  monthIndexOf(a) =< monthIndexOf(b)
<1> DEFINE m == monthIndexOf(a)
           n == monthIndexOf(b)
<1>1. m \in Months /\ n \in Months /\ MonthStart[m] =< a /\ b < MonthStart[n + 1]
  BY MonthOfDate
<1> HIDE DEF m, n
<1>2. m \in Nat /\ n \in Nat /\ m \in Firsts /\ n + 1 \in Firsts /\ a \in Int /\ b \in Int
  BY <1>1, MonthTypes DEF Months, Dates
<1>3. SUFFICES ASSUME n < m PROVE FALSE
  BY <1>2 DEF m, n
<1>4. MonthStart[m] >= MonthStart[n + 1] + 28 * (m - (n + 1))
  BY <1>2, <1>3, MonthsInOrder
<1> QED BY <1>1, <1>2, <1>3, <1>4, MonthTypes

(* A day of a month: it lies in the month, and is its last if the month is *)
(* too short.                                                              *)
LEMMA ClampedDay ==
    ASSUME NEW m \in Months, NEW day \in 1..31
    PROVE  LET date == clampedDayInMonth(m, day) IN
           /\ date \in Dates /\ monthIndexOf(date) = m
           /\ MonthStart[m] =< date /\ date < MonthStart[m + 1]
           /\ dayOf(date) = IF day < daysInMonth(m) THEN day ELSE daysInMonth(m)
<1> DEFINE date == clampedDayInMonth(m, day)
           n == daysInMonth(m)
           d == IF day < n THEN day ELSE n
<1>1. n \in 28..31 /\ MonthStart[m + 1] = MonthStart[m] + n /\ MonthStart[m] \in Int
  BY MonthLength, MonthTypes
<1> HIDE DEF n
<1>2. date = MonthStart[m] + d - 1
  BY DEF clampedDayInMonth, n
<1>3. d \in 1..31 /\ d =< n
  BY <1>1
<1>4. date \in Int /\ MonthStart[m] =< date /\ date < MonthStart[m + 1]
  BY <1>1, <1>2, <1>3
<1>5. date \in Dates /\ monthIndexOf(date) = m
  BY <1>4, MonthIs
<1>6. dayOf(date) = d
  BY <1>1, <1>2, <1>3, <1>5 DEF dayOf
<1> QED BY <1>4, <1>5, <1>6 DEF n

-----------------------------------------------------------------------------
(* Schedules the API admits: a day of the month where months count.        *)
Admitted(r) ==
    /\ r.frequency \in {"WEEKLY", "MONTHLY", "YEARLY"}
    /\ r.interval \in Nat \ {0}
    /\ r.startDate \in Dates
    /\ r.dayOfWeek \in 0..6
    /\ r.frequency # "WEEKLY" => r.dayOfMonth \in 1..31

LEMMA FirstOfWeekly ==
    ASSUME NEW r, Admitted(r)
    PROVE  /\ FirstWeekly(r) \in Int /\ r.startDate \in Int
           /\ FirstWeekly(r) - r.startDate \in 0..6
<1>1. r.startDate \in Int /\ FirstWeekday \in 0..6
  BY MonthTypes, CalendarAssumption DEF Admitted, Dates
<1>2. dayOfWeekOf(r.startDate) \in 0..6
  BY <1>1 DEF dayOfWeekOf
<1>3. r.dayOfWeek - dayOfWeekOf(r.startDate) + 7 \in Nat
  BY <1>2 DEF Admitted
<1> QED BY <1>1, <1>3 DEF FirstWeekly

(* weeklyOccurrences jumps to the first date from `from' on, and misses none. *)
LEMMA WeeklyIsExact ==
    ASSUME NEW r, Admitted(r), r.frequency = "WEEKLY",
           NEW from \in Int, NEW to \in Int, r.startDate =< from, from =< to
    PROVE  weeklyOccurrences(r, from, to) = {date \in from..to : InPhase(r, date)}
<1> DEFINE first == FirstWeekly(r)
           step == 7 * r.interval
           skip == IF from > first THEN (from - first + step - 1) \div step ELSE 0
           last == (to - first) \div step
<1>1. first \in Int /\ step \in Nat \ {0} /\ r.startDate \in Int /\ step >= 7
      /\ first - r.startDate \in 0..6
  BY FirstOfWeekly DEF Admitted
<1>2. weeklyOccurrences(r, from, to) = {first + k * step : k \in skip..last}
  BY DEF weeklyOccurrences
<1>3. \A date : InPhase(r, date) <=> (date - first) % step = 0
  BY DEF InPhase
<1> HIDE DEF first, step
<1>4. skip \in Int /\ last \in Int
  BY <1>1, Quotient
<1>5. ASSUME NEW k \in Int
      PROVE  /\ k >= skip <=> first + step * k >= from
             /\ k =< last <=> first + step * k =< to
  <2>1. step * k \in Int
    BY <1>1
  <2>2. k =< last <=> step * k =< to - first
    <3>0. PICK n \in Int : n = to - first
      BY <1>1
    <3>1. PICK q \in Int, m \in 0..(step - 1) : q = last /\ n = step * q + m
      BY <1>1, <3>0, Split
    <3>2. step * q \in Int /\ (k =< q <=> step * k =< step * q)
          /\ (k >= q + 1 => step * k >= step * q + step)
      BY <1>1, TimesInOrder
    <3> QED BY <1>1, <2>1, <3>0, <3>1, <3>2
  <2>3. CASE from > first
    <3>0. PICK n \in Int : n = from - first + step - 1
      BY <1>1
    <3>1. PICK q \in Int, m \in 0..(step - 1) : q = skip /\ n = step * q + m
      BY <1>1, <2>3, <3>0, Split
    <3>2. step * q \in Int /\ (q =< k <=> step * q =< step * k)
          /\ (q >= k + 1 => step * q >= step * k + step)
      BY <1>1, TimesInOrder
    <3> QED BY <1>1, <2>1, <2>2, <3>0, <3>1, <3>2
  <2>4. CASE ~(from > first)
    <3>1. skip = 0
      BY <2>4
    <3>2. k =< -1 => step * k =< -step
      BY <1>1, TimesInOrder
    <3>3. k >= 0 => step * k >= 0
      BY <1>1, TimesInOrder
    <3> QED BY <1>1, <2>1, <2>2, <2>4, <3>1, <3>2, <3>3
  <2> QED BY <2>3, <2>4
<1>6. ASSUME NEW k \in skip..last
      PROVE  first + k * step \in {date \in from..to : InPhase(r, date)}
  <2>1. k \in Int /\ k * step = step * k /\ step * k \in Int
    BY <1>1, <1>4
  <2>2. first + k * step \in from..to
    BY <1>1, <1>4, <1>5, <2>1
  <2>3. ((first + k * step) - first) % step = 0
    <3>1. (step * k) % step = 0
      BY <1>1, <2>1, Multiple
    <3>2. (first + k * step) - first = step * k
      BY <1>1, <2>1
    <3> QED BY <3>1, <3>2
  <2> QED BY <1>3, <2>2, <2>3
<1>7. ASSUME NEW date \in from..to, InPhase(r, date)
      PROVE  \E k \in skip..last : date = first + k * step
  <2>0. PICK n \in Int : n = date - first
    BY <1>1
  <2>1. PICK k \in Int : n = step * k
    BY <1>1, <1>3, <1>7, <2>0, Multiple
  <2>2. date = first + step * k /\ k * step = step * k /\ step * k \in Int
    BY <1>1, <2>0, <2>1
  <2>3. k \in skip..last
    BY <1>4, <1>5, <2>2
  <2> QED BY <2>2, <2>3
<1> HIDE DEF skip, last
<1> QED BY <1>2, <1>6, <1>7

LEMMA Intervals ==
    /\ Dates \subseteq Nat /\ Months \subseteq Nat
    /\ \A a, b \in Dates : a..b \subseteq Dates
    /\ \A m, n \in Months : m..n \subseteq Months
<1>1. PICK e \in Int : e = MonthStart[LastMonth + 1] - 1
  BY MonthTypes DEF Firsts
<1>2. Dates = 0..e /\ Months = FirstMonth..LastMonth
  BY <1>1 DEF Dates, Months
<1> QED BY <1>2, MonthTypes

(* monthlyOccurrences looks at one date of each month and misses none.     *)
LEMMA MonthlyIsExact ==
    ASSUME NEW r, Admitted(r), r.frequency # "WEEKLY",
           NEW from \in Dates, NEW to \in Dates, from =< to
    PROVE  monthlyOccurrences(r, from, to) = {date \in from..to : InPhase(r, date)}
<1> DEFINE In(m) == (m - monthIndexOf(r.startDate)) % StepMonths(r) = 0
           day == r.dayOfMonth
           Looked == {n \in monthIndexOf(from)..monthIndexOf(to) : In(n)}
<1>1. /\ day \in 1..31 /\ Dates \subseteq Int
      /\ monthIndexOf(from) \in Months /\ monthIndexOf(to) \in Months /\ Months \subseteq Int
  BY MonthOfDate, MonthTypes DEF Admitted, Dates, Months
<1>2. \A date : InPhase(r, date) <=>
         /\ In(monthIndexOf(date))
         /\ \/ dayOf(date) = day
            \/ day > dayOf(date) /\ dayOf(date) = daysInMonth(monthIndexOf(date))
  BY DEF InPhase
<1>3. monthlyOccurrences(r, from, to) =
         {date \in {clampedDayInMonth(m, day) : m \in Looked} : from =< date /\ date =< to}
  BY DEF monthlyOccurrences
<1> HIDE DEF In, day
<1>4. ASSUME NEW m \in Looked, from =< clampedDayInMonth(m, day), clampedDayInMonth(m, day) =< to
      PROVE  clampedDayInMonth(m, day) \in from..to /\ InPhase(r, clampedDayInMonth(m, day))
  <2>1. m \in Months /\ In(m)
    BY <1>1, Intervals
  <2>2. PICK date : date = clampedDayInMonth(m, day)
    OBVIOUS
  <2>3. /\ date \in Dates /\ monthIndexOf(date) = m
        /\ dayOf(date) = IF day < daysInMonth(m) THEN day ELSE daysInMonth(m)
    BY <1>1, <2>1, <2>2, ClampedDay
  <2>4. daysInMonth(m) \in 28..31
    BY <2>1, MonthLength
  <2>5. InPhase(r, date)
    BY <1>1, <1>2, <2>1, <2>3, <2>4
  <2> QED BY <1>1, <1>4, <2>2, <2>3, <2>5
<1>5. ASSUME NEW date \in from..to, InPhase(r, date)
      PROVE  \E m \in Looked : date = clampedDayInMonth(m, day)
  <2>1. date \in Dates
    BY Intervals
  <2>2. PICK m \in Months : m = monthIndexOf(date)
    BY <2>1, MonthOfDate
  <2>3. m \in Looked
    <3>1. monthIndexOf(from) =< m /\ m =< monthIndexOf(to)
      BY <1>1, <2>1, <2>2, MonthsFollowDates
    <3> QED BY <1>1, <1>2, <1>5, <2>2, <3>1
  <2>4. /\ MonthStart[m] =< date /\ date < MonthStart[m + 1] /\ MonthStart[m] \in Int
        /\ MonthStart[m + 1] = MonthStart[m] + daysInMonth(m) /\ daysInMonth(m) \in 28..31
    BY <2>1, <2>2, MonthOfDate, MonthLength, MonthTypes
  <2>5. dayOf(date) = date - MonthStart[m] + 1
    BY <2>2 DEF dayOf
  <2>6. dayOf(date) = day \/ (day > dayOf(date) /\ dayOf(date) = daysInMonth(m))
    BY <1>2, <1>5, <2>2
  <2>7. date = MonthStart[m] + (IF day < daysInMonth(m) THEN day ELSE daysInMonth(m)) - 1
    <3> HIDE DEF Looked
    <3>1. PICK n \in 28..31 : n = daysInMonth(m)
      BY <2>4
    <3>2. PICK d \in Int : d = dayOf(date)
      BY <1>1, <2>1, <2>4, <2>5
    <3>3. date = MonthStart[m] + d - 1
      BY <1>1, <2>1, <2>4, <2>5, <3>2
    <3>4. d = IF day < n THEN day ELSE n
      BY <1>1, <1>1, <2>1, <2>4, <2>6, <3>1, <3>2, <3>3
    <3> QED BY <3>1, <3>3, <3>4
  <2> QED BY <2>3, <2>7 DEF clampedDayInMonth
<1> HIDE DEF Looked
<1> QED BY <1>3, <1>4, <1>5

(* occurrencesInPeriod returns, for every rule the API admits and every    *)
(* span of days, exactly the dates of the cadence in it from the start on  *)
(* (recurrence.ts:32-41).                                                  *)
THEOREM OccurrencesOfAnyRule ==
    ASSUME NEW r, Admitted(r), NEW span, span.start \in Dates, span.end \in Dates
    PROVE  occurrencesInPeriod(r, span) =
              {date \in span.start..span.end : date >= r.startDate /\ InPhase(r, date)}
<1>1. PICK start \in Dates, end \in Dates : start = span.start /\ end = span.end
  OBVIOUS
<1>2. PICK first \in Dates : first = r.startDate
  BY DEF Admitted
<1>3. PICK from : from = laterOf(start, first)
  OBVIOUS
<1>4. from \in Dates /\ from >= start /\ from >= first /\ (from = start \/ from = first)
  BY <1>3, Intervals DEF laterOf
<1>5. \A date \in Int : date \in from..end <=> date \in start..end /\ date >= first
  BY <1>4, Intervals
<1>6. CASE from > end
  <2>1. occurrencesInPeriod(r, span) = {}
    BY <1>1, <1>2, <1>3, <1>6 DEF occurrencesInPeriod
  <2>2. from..end = {}
    BY <1>4, <1>6, Intervals
  <2> QED BY <1>1, <1>2, <1>5, <2>1, <2>2, Intervals
<1>7. CASE ~(from > end)
  <2>1. from =< end /\ from \in Int /\ end \in Int
    BY <1>4, <1>7, Intervals
  <2>2. occurrencesInPeriod(r, span) = {date \in from..end : InPhase(r, date)}
    <3>1. CASE r.frequency = "WEEKLY"
      <4>1. occurrencesInPeriod(r, span) = weeklyOccurrences(r, from, end)
        BY <1>1, <1>2, <1>3, <1>7, <3>1 DEF occurrencesInPeriod
      <4> QED BY <1>2, <1>4, <2>1, <3>1, <4>1, WeeklyIsExact
    <3>2. CASE r.frequency # "WEEKLY"
      <4>1. occurrencesInPeriod(r, span) = monthlyOccurrences(r, from, end)
        BY <1>1, <1>2, <1>3, <1>7, <3>2 DEF occurrencesInPeriod
      <4> QED BY <1>4, <2>1, <3>2, <4>1, MonthlyIsExact
    <3> QED BY <3>1, <3>2
  <2>3. \A date \in from..end : date \in Int
    BY <2>1
  <2>4. \A date \in start..end : date \in Int
    BY Intervals
  <2> QED BY <1>1, <1>2, <1>5, <2>2, <2>3, <2>4
<1> QED BY <1>6, <1>7

-----------------------------------------------------------------------------
(* The days lived through and their periods.                               *)

LEMMA DayInCalendar ==
    ASSUME NEW day \in Nat, MonthStart[FirstMonth + 1] =< day, day < MonthStart[LastMonth]
    PROVE  day \in Dates /\ FirstMonth + 1 < LastMonth /\ day + 28 < MonthStart[LastMonth + 1]
<1>1. /\ FirstMonth \in Nat /\ LastMonth \in Nat /\ FirstMonth =< LastMonth
      /\ FirstMonth + 1 \in Firsts /\ LastMonth \in Firsts /\ LastMonth + 1 \in Firsts
      /\ LastMonth \in Months
  BY MonthTypes DEF Firsts, Months
<1>2. PICK a \in Int, b \in Int, e \in Int :
        a = MonthStart[FirstMonth + 1] /\ b = MonthStart[LastMonth] /\ e = MonthStart[LastMonth + 1]
  BY <1>1, MonthTypes
<1>3. e >= b + 28
  BY <1>1, <1>2, MonthLength
<1>4. FirstMonth + 1 < LastMonth
  <2>1. SUFFICES ASSUME LastMonth =< FirstMonth + 1 PROVE FALSE
    BY <1>1
  <2>2. a >= b + 28 * ((FirstMonth + 1) - LastMonth)
    BY <1>1, <1>2, <2>1, MonthsInOrder
  <2> QED BY <1>1, <1>2, <2>1, <2>2
<1> QED BY <1>2, <1>3, <1>4 DEF Dates

LEMMA LivedDays ==
    ASSUME NEW day \in Lived
    PROVE  /\ day \in Dates /\ day \in Nat /\ day =< LastToday /\ LastToday \in Nat
           /\ MonthStart[FirstMonth + 1] =< day /\ day < MonthStart[LastMonth]
           /\ FirstMonth + 1 < LastMonth
           /\ day + 28 < MonthStart[LastMonth + 1]
<1>1. day \in Nat /\ day =< LastToday /\ LastToday \in Nat
  BY RulesAssumption DEF Lived
<1>2. MonthStart[FirstMonth + 1] =< day /\ LastToday < MonthStart[LastMonth]
  BY CalendarIsWide
<1>3. MonthStart[LastMonth] \in Int
  BY MonthTypes DEF Firsts
<1>4. day < MonthStart[LastMonth]
  BY <1>1, <1>2, <1>3
<1> QED BY <1>1, <1>2, <1>4, DayInCalendar

(* A day lies in its period, which starts in its month or in the last.     *)
LEMMA PeriodOfDay ==
    ASSUME NEW day \in Nat, MonthStart[FirstMonth + 1] =< day, day < MonthStart[LastMonth],
           NEW d \in 1..28
    PROVE  LET p == currentBudgetPeriod(day, d) IN
           /\ p.start \in Dates /\ p.end \in Dates /\ p.start =< day /\ day =< p.end
           /\ \E s \in Months : /\ s = monthIndexOf(day) - (IF dayOf(day) < d THEN 1 ELSE 0)
                              /\ s + 1 \in Months /\ p.end = MonthStart[s + 1] + d - 2
<1>1. /\ day \in Dates /\ MonthStart[FirstMonth + 1] =< day /\ day < MonthStart[LastMonth]
      /\ FirstMonth \in Nat /\ LastMonth \in Nat /\ FirstMonth + 1 < LastMonth
  BY DayInCalendar, MonthTypes
<1>2. PICK m \in Months : m = monthIndexOf(day)
  BY <1>1, MonthOfDate
<1>3. MonthStart[m] =< day /\ day < MonthStart[m + 1]
  BY <1>1, <1>2, MonthOfDate
<1>4. m \in Nat /\ FirstMonth + 1 =< m /\ m =< LastMonth - 1
  <2>1. m \in Nat /\ m \in Firsts /\ m + 1 \in Firsts /\ FirstMonth + 1 \in Firsts
        /\ LastMonth \in Firsts /\ FirstMonth =< m /\ m =< LastMonth
    BY <1>1, MonthTypes DEF Months, Firsts
  <2>2. PICK a \in Int, b \in Int, x \in Int, y \in Int :
          /\ a = MonthStart[FirstMonth + 1] /\ b = MonthStart[LastMonth]
          /\ x = MonthStart[m] /\ y = MonthStart[m + 1]
    BY <2>1, MonthTypes
  <2>3. day \in Int
    BY <1>1, Intervals
  <2>4. FirstMonth + 1 =< m
    BY <1>1, <1>3, <2>1, <2>2, <2>3
  <2>5. m =< LastMonth - 1
    BY <1>1, <1>3, <2>1, <2>2, <2>3
  <2> QED BY <2>1, <2>4, <2>5
<1>5. PICK s : s = m - (IF dayOf(day) < d THEN 1 ELSE 0)
  OBVIOUS
<1>6. s \in Months /\ s + 1 \in Months /\ s \in Nat /\ (s = m \/ s + 1 = m)
  BY <1>1, <1>4, <1>5 DEF Months
<1>7. currentBudgetPeriod(day, d) =
        [start |-> clampedDayInMonth(s, d), end |-> clampedDayInMonth(s + 1, d) - 1]
  BY <1>2, <1>5 DEF currentBudgetPeriod, PeriodFrom
<1>8. ASSUME NEW x \in Months
      PROVE  clampedDayInMonth(x, d) = MonthStart[x] + d - 1
  <2>1. daysInMonth(x) \in 28..31 /\ MonthStart[x] \in Int
    BY MonthLength, MonthTypes
  <2> QED BY <2>1 DEF clampedDayInMonth
<1>9. dayOf(day) = day - MonthStart[m] + 1
  BY <1>2 DEF dayOf
<1>10. PICK x \in Int, y \in Int, z \in Int :
         x = MonthStart[s] /\ y = MonthStart[s + 1] /\ z = MonthStart[(s + 1) + 1]
  BY <1>6, MonthTypes
<1>11. y >= x + 28 /\ z >= y + 28 /\ day \in Nat
  BY <1>1, <1>6, <1>10, MonthLength, Intervals
<1>12. PICK from \in Int, to \in Int : from = x + d - 1 /\ to = y + d - 2
  BY <1>10
<1>13. /\ currentBudgetPeriod(day, d).start = from
       /\ currentBudgetPeriod(day, d).end = to
  BY <1>6, <1>7, <1>8, <1>10, <1>12
<1>14. from =< day /\ day =< to
  <2>1. CASE s = m
    <3>1. ~(dayOf(day) < d)
      BY <1>4, <1>5, <2>1
    <3> QED BY <1>3, <1>9, <1>10, <1>11, <1>12, <2>1, <3>1
  <2>2. CASE s + 1 = m
    <3>1. dayOf(day) < d
      BY <1>4, <1>5, <1>6, <2>2
    <3> QED BY <1>3, <1>9, <1>10, <1>11, <1>12, <2>2, <3>1
  <2> QED BY <1>6, <2>1, <2>2
<1>15. from \in Dates /\ to \in Dates
  <2>1. x =< from /\ from < y /\ x =< to /\ (to < y \/ (y =< to /\ to < z))
    BY <1>10, <1>11, <1>12
  <2> QED BY <1>6, <1>10, <1>12, <2>1, MonthIs
<1>16. s = monthIndexOf(day) - (IF dayOf(day) < d THEN 1 ELSE 0)
  BY <1>2, <1>5
<1>17. currentBudgetPeriod(day, d).end = MonthStart[s + 1] + d - 2
  BY <1>10, <1>12, <1>13
<1> QED BY <1>6, <1>13, <1>14, <1>15, <1>16, <1>17

LEMMA PeriodOfToday ==
    ASSUME NEW day \in Lived, NEW d \in 1..28
    PROVE  LET p == currentBudgetPeriod(day, d) IN
           /\ p.start \in Dates /\ p.end \in Dates /\ p.start =< day /\ day =< p.end
  BY LivedDays, PeriodOfDay

-----------------------------------------------------------------------------
(* Where a new rule starts, and where a rule is moved to.                  *)

LEMMA CadenceTypes ==
    ASSUME NEW c \in Cadences
    PROVE  /\ c.frequency \in {"WEEKLY", "MONTHLY", "YEARLY"} /\ c.interval \in 1..52
           /\ c.dayOfMonth \in 0..31 /\ c.dayOfWeek \in 0..6
           /\ c.frequency # "WEEKLY" => c.dayOfMonth # 0
           /\ StepMonths(c) \in Nat /\ StepMonths(c) >= c.interval
<1>1. PICK x \in [frequency : {"WEEKLY", "MONTHLY", "YEARLY"}, interval : 1..52,
                  dayOfMonth : 0..31, dayOfWeek : 0..6, week : {"this", "next"}] : x = c
  BY CadencesAreSchedules
<1>2. /\ x.frequency \in {"WEEKLY", "MONTHLY", "YEARLY"} /\ x.interval \in 1..52
      /\ x.dayOfMonth \in 0..31 /\ x.dayOfWeek \in 0..6
  OBVIOUS
<1>3. StepMonths(x) \in Nat /\ StepMonths(x) >= x.interval
  BY <1>2 DEF StepMonths
<1> QED BY <1>1, <1>2, <1>3, CadencesAreSchedules

(* The calendar holds one cycle of a rule before each period.              *)
LEMMA RoomBefore ==
    ASSUME NEW day \in Lived, NEW d \in StartDays, NEW c \in Cadences
    PROVE  LET start == currentBudgetPeriod(day, d).start IN
           /\ FirstMonth + StepMonths(c) \in Months
           /\ MonthStart[FirstMonth + StepMonths(c)] =< start
           /\ start \in Dates /\ start >= 28 * StepMonths(c)
<1>1. PICK start \in Dates : start = currentBudgetPeriod(day, d).start
  BY PeriodOfToday, RulesAssumption
<1>2. PICK m \in Months : m = FirstMonth + StepMonths(c)
  BY CalendarIsWide
<1>3. MonthStart[m] =< start
  BY <1>1, <1>2, CalendarIsWide
<1>4. m \in Firsts /\ FirstMonth \in Firsts /\ StepMonths(c) \in Nat /\ FirstMonth \in Nat
      /\ MonthStart[m] \in Int /\ MonthStart[FirstMonth] = 0
  BY MonthTypes, CadenceTypes DEF Firsts
<1>5. MonthStart[m] >= 0 + 28 * (m - FirstMonth)
  BY <1>2, <1>4, MonthsInOrder
<1> QED BY <1>1, <1>2, <1>3, <1>4, <1>5, Intervals

LEMMA StartInCalendar ==
    ASSUME NEW kind \in {"INCOME", "EXPENSE"}, NEW c \in Cadences, NEW day \in CreationDays,
           NEW d \in StartDays
    PROVE  ruleStartDate(kind, c, day, currentBudgetPeriod(day, d)) \in Dates
<1>1. day \in Lived /\ d \in 1..28
  BY RulesAssumption DEF Lived
<1>2. PICK p : p = currentBudgetPeriod(day, d)
  OBVIOUS
<1>3. PICK start \in Dates : start = p.start
  BY <1>1, <1>2, PeriodOfToday
<1>4. /\ day \in Dates /\ day \in Nat /\ start \in Nat /\ start >= 28 /\ start =< day
      /\ day + 28 < MonthStart[LastMonth + 1] /\ MonthStart[LastMonth + 1] \in Int
  <2>1. StepMonths(c) \in Nat /\ StepMonths(c) >= 1
    BY CadenceTypes
  <2>2. start >= 28 * StepMonths(c) /\ start =< day
    BY <1>1, <1>2, <1>3, RoomBefore, PeriodOfToday
  <2>3. LastMonth + 1 \in Firsts
    BY MonthTypes DEF Firsts
  <2> QED BY <1>1, <2>1, <2>2, <2>3, LivedDays, Intervals, MonthTypes
<1>5. PICK anchor : anchor = weekdayInWeekOf(day, c.dayOfWeek) + (IF c.week = "next" THEN 7 ELSE 0)
  OBVIOUS
<1>6. anchor \in Int /\ anchor >= day - 6 /\ anchor =< day + 13
  <2>1. dayOfWeekOf(day) \in 0..6
    BY <1>4, CalendarAssumption DEF dayOfWeekOf
  <2>2. FromMonday(dayOfWeekOf(day)) \in 0..6 /\ FromMonday(c.dayOfWeek) \in 0..6
    BY <2>1, CadenceTypes DEF FromMonday
  <2> QED BY <1>4, <1>5, <2>2 DEF weekdayInWeekOf
<1>7. PICK steps : steps = IF anchor > start THEN (anchor - start + 13) \div 14 ELSE 0
  OBVIOUS
<1>8. ruleStartDate(kind, c, day, p) =
        IF c.interval # 2 \/ c.frequency # "WEEKLY"
        THEN IF kind = "INCOME" THEN start ELSE day
        ELSE IF kind = "EXPENSE"
             THEN IF anchor >= day THEN anchor ELSE anchor + 14
             ELSE anchor - steps * 14
  BY <1>3, <1>5, <1>7 DEF ruleStartDate
<1>9. \A x \in Int : x >= 0 /\ x =< day + 13 => x \in Dates
  BY <1>4 DEF Dates
<1>10. anchor - steps * 14 \in Int /\ anchor - steps * 14 >= 0 /\ anchor - steps * 14 =< day + 13
  BY <1>4, <1>6, <1>7
<1>11. ruleStartDate(kind, c, day, p) \in Dates
  BY <1>3, <1>4, <1>6, <1>8, <1>9, <1>10
<1> QED BY <1>2, <1>11

LEMMA DaysOfMonth ==
    ASSUME NEW date \in Dates
    PROVE  dayOf(date) \in 1..31
<1>1. PICK m \in Months : m = monthIndexOf(date)
  BY MonthOfDate
<1>2. /\ MonthStart[m] =< date /\ date < MonthStart[m + 1] /\ MonthStart[m] \in Int
      /\ MonthStart[m + 1] = MonthStart[m] + daysInMonth(m) /\ daysInMonth(m) \in 28..31
      /\ date \in Int
  BY <1>1, MonthOfDate, MonthLength, MonthTypes, Intervals
<1> QED BY <1>1, <1>2 DEF dayOf

(* Some date a whole number of steps before start is at or below limit, and *)
(* less than a step below it.                                              *)
LEMMA StepsBack ==
    ASSUME NEW start \in Int, NEW limit \in Int, NEW step \in Nat \ {0}, limit < start
    PROVE  \E x \in Int : /\ x =< limit /\ limit - step < x /\ x < start
                          /\ (start - x) % step = 0
<1>1. PICK n \in Nat : n = start - limit - 1
  OBVIOUS
<1>2. PICK q \in Int, m \in 0..(step - 1) : q = n \div step /\ m = n % step /\ n = step * q + m
  BY Split
<1>3. PICK j \in Int : j = q + 1
  OBVIOUS
<1>4. PICK y \in Int : y = step * j
  BY <1>3, TimesInOrder
<1>5. y = step * q + step /\ step * q \in Int
  BY <1>3, <1>4
<1>6. y % step = 0
  BY <1>3, <1>4, Multiple
<1>7. PICK x \in Int : x = start - y
  OBVIOUS
<1>8. start - x = y
  BY <1>4, <1>7
<1>9. x =< limit /\ limit - step < x /\ x < start
  BY <1>1, <1>2, <1>5, <1>7
<1> QED BY <1>6, <1>8, <1>9

(* Two starts a multiple of a weekly rule's step apart give it one phase.  *)
LEMMA WeeklyPhase ==
    ASSUME NEW r, Admitted(r), r.frequency = "WEEKLY", NEW s \in Dates,
           (r.startDate - s) % (7 * r.interval) = 0 \/ r.interval = 1,
           NEW date \in Dates
    PROVE  InPhase([r EXCEPT !.startDate = s], date) <=> InPhase(r, date)
<1> DEFINE moved == [r EXCEPT !.startDate = s]
<1>1. PICK start \in Nat, day \in 0..6, weekday \in 0..6 :
         start = r.startDate /\ day = r.dayOfWeek /\ weekday = FirstWeekday
  BY Intervals, CalendarAssumption DEF Admitted
<1>2. PICK step \in Nat \ {0} : step = 7 * r.interval
  BY DEF Admitted
<1>3. s \in Nat /\ date \in Nat
  BY Intervals
<1>4. PICK a \in Int, b \in Int :
         /\ a = start + ((day - ((weekday + start) % 7) + 7) % 7)
         /\ b = s + ((day - ((weekday + s) % 7) + 7) % 7)
  BY <1>1, <1>3
<1>5. FirstWeekly(r) = a
  BY <1>1, <1>4 DEF FirstWeekly, dayOfWeekOf
<1>6. FirstWeekly(moved) = b
  <2>1. moved.startDate = s /\ moved.dayOfWeek = r.dayOfWeek
    OBVIOUS
  <2> QED BY <1>1, <1>4, <2>1 DEF FirstWeekly, dayOfWeekOf
<1>7. (a - b) % step = 0
  <2>1. CASE r.interval = 1
    <3>1. step = 7
      BY <1>2, <2>1
    <3>2. (weekday + a) % 7 = day /\ (weekday + b) % 7 = day
      BY <1>3, <1>4
    <3> QED BY <3>1, <3>2
  <2>2. CASE (r.startDate - s) % (7 * r.interval) = 0
    <3>0. PICK n \in Int : n = start - s
      BY <1>3
    <3>1. PICK k \in Int : n = step * k
      BY <1>1, <1>2, <2>2, <3>0, Multiple
    <3>2. PICK j \in Int : n = 7 * j
      <4>1. PICK i \in Int : i = r.interval
        BY DEF Admitted
      <4>2. step * k = 7 * (i * k) /\ i * k \in Int
        BY <1>2, <4>1
      <4> QED BY <3>1, <4>2
    <3>3. (weekday + start) % 7 = (weekday + s) % 7
      BY <1>3, <3>0, <3>2
    <3>4. a - b = start - s
      BY <1>3, <1>4, <3>3
    <3> QED BY <1>1, <1>2, <2>2, <3>4
  <2> QED BY <2>1, <2>2
<1>8. (date - a) % step = 0 <=> (date - b) % step = 0
  BY <1>2, <1>3, <1>7, SamePhase
<1>9. /\ InPhase(r, date) <=> (date - a) % step = 0
      /\ InPhase(moved, date) <=> (date - b) % step = 0
  <2>1. moved.frequency = "WEEKLY" /\ moved.interval = r.interval
    OBVIOUS
  <2> QED BY <1>2, <1>5, <1>6, <2>1 DEF InPhase
<1> QED BY <1>8, <1>9

LEMMA MonthlyPhase ==
    ASSUME NEW r, Admitted(r), r.frequency # "WEEKLY", NEW s \in Dates,
           (monthIndexOf(r.startDate) - monthIndexOf(s)) % StepMonths(r) = 0,
           NEW date \in Dates
    PROVE  InPhase([r EXCEPT !.startDate = s], date) <=> InPhase(r, date)
<1> DEFINE moved == [r EXCEPT !.startDate = s]
<1>1. PICK a \in Months, b \in Months, m \in Months :
         a = monthIndexOf(r.startDate) /\ b = monthIndexOf(s) /\ m = monthIndexOf(date)
  BY MonthOfDate DEF Admitted
<1>2. PICK step \in Nat \ {0} : step = StepMonths(r)
  BY DEF Admitted, StepMonths
<1>3. a \in Int /\ b \in Int /\ m \in Int
  BY Intervals
<1>4. (m - a) % step = 0 <=> (m - b) % step = 0
  BY <1>1, <1>2, <1>3, SamePhase
<1>5. moved.frequency = r.frequency /\ moved.startDate = s
      /\ moved.dayOfMonth = r.dayOfMonth /\ StepMonths(moved) = step
  BY <1>2 DEF StepMonths
<1> QED BY <1>1, <1>2, <1>4, <1>5 DEF InPhase

(* A rule is moved back to a date of the calendar at or before limit, and  *)
(* keeps its phase (rebase-rule-starts.ts, startInPhase).                  *)
LEMMA StartKeepsPhase ==
    ASSUME NEW r, Admitted(r), r.interval =< 52, NEW limit \in Dates, limit < r.startDate,
           FirstMonth + StepMonths(r) \in Months,
           MonthStart[FirstMonth + StepMonths(r)] =< limit,
           limit >= 28 * StepMonths(r)
    PROVE  LET s == startInPhase(r, limit) IN
           /\ s \in Dates /\ s =< limit
           /\ \A date \in Dates :
                 InPhase([r EXCEPT !.startDate = s], date) <=> InPhase(r, date)
<1>1. PICK start \in Dates, step \in Nat \ {0}, i \in Nat \ {0} :
         /\ start = r.startDate /\ step = StepMonths(r) /\ i = r.interval
         /\ step = i \/ step = 12 * i
  BY DEF Admitted, StepMonths
<1>2. start \in Nat /\ limit \in Nat /\ limit < start
  BY <1>1, Intervals
<1>3. CASE r.interval = 1 /\ r.frequency # "YEARLY"
  <2>1. startInPhase(r, limit) = limit
    BY <1>3 DEF startInPhase
  <2>2. CASE r.frequency = "WEEKLY"
    BY <1>2, <1>3, <2>1, <2>2, WeeklyPhase
  <2>3. CASE r.frequency # "WEEKLY"
    <3>1. StepMonths(r) = 1
      BY <1>3 DEF StepMonths
    <3>2. PICK a \in Months, b \in Months : a = monthIndexOf(start) /\ b = monthIndexOf(limit)
      BY MonthOfDate
    <3>3. (a - b) % 1 = 0
      BY Intervals
    <3> QED BY <1>1, <1>2, <2>1, <2>3, <3>1, <3>2, <3>3, MonthlyPhase
  <2> QED BY <2>2, <2>3
<1>4. CASE ~(r.interval = 1 /\ r.frequency # "YEARLY")
  <2> DEFINE Back == {date \in CyclesBack(r) : date =< limit}
  <2>1. startInPhase(r, limit) = Max(Back)
    BY <1>4 DEF startInPhase
  <2>2. CASE r.frequency = "WEEKLY"
    <3>0. PICK w \in Nat \ {0} : w = 7 * i
      OBVIOUS
    <3>1. CyclesBack(r) = {date \in Dates : date < start /\ (start - date) % w = 0}
      BY <1>1, <2>2, <3>0 DEF CyclesBack
    <3>2. PICK x \in Int : /\ x =< limit /\ limit - w < x /\ x < start
                           /\ (start - x) % w = 0
      <4>1. start \in Int /\ limit \in Int
        BY <1>2
      <4> QED BY <1>2, <4>1, StepsBack
    <3>3. x \in Dates
      <4>1. 0 =< x
        BY <1>1, <1>2, <3>0, <3>2
      <4>2. PICK e \in Int : Dates = 0..e
        BY MonthTypes DEF Dates, Firsts
      <4> QED BY <1>2, <3>2, <4>1, <4>2
    <3>4. x \in Back
      BY <3>1, <3>2, <3>3
    <3>5. Back \subseteq Int /\ limit \in Int /\ \A y \in Back : y =< limit
      <4>1. CyclesBack(r) \subseteq Dates
        BY <3>1
      <4>2. Dates \subseteq Int /\ limit \in Int
        BY <1>2, Intervals
      <4>3. Back \subseteq CyclesBack(r) /\ \A y \in Back : y =< limit
        OBVIOUS
      <4> HIDE DEF Back
      <4> QED BY <4>1, <4>2, <4>3
    <3> HIDE DEF Back
    <3>6. PICK s : s = Max(Back)
      OBVIOUS
    <3>7. s \in Back
      BY <3>4, <3>5, <3>6, MaxExists
    <3>8. s \in Dates /\ s =< limit /\ (start - s) % w = 0
      BY <3>1, <3>7 DEF Back
    <3> QED BY <1>1, <2>1, <2>2, <3>0, <3>6, <3>8, WeeklyPhase
  <2>3. CASE r.frequency # "WEEKLY"
    <3>1. PICK day \in 1..31 : day = dayOf(start)
      BY DaysOfMonth
    <3>2. PICK ms \in Months, ml \in Months : ms = monthIndexOf(start) /\ ml = monthIndexOf(limit)
      BY MonthOfDate
    <3> DEFINE Cycles == {n \in Months : n < ms /\ (ms - n) % step = 0}
    <3>3. CyclesBack(r) = {clampedDayInMonth(m, day) : m \in Cycles}
      BY <1>1, <2>3, <3>1, <3>2 DEF CyclesBack
    <3>4. ms \in Nat /\ ml \in Nat /\ ml =< ms
      BY <1>2, <3>2, Intervals, MonthsFollowDates
    <3>5. FirstMonth + step =< ml
      <4>1. PICK f \in Months : f = FirstMonth + step
        BY <1>1
      <4>2. PICK a \in Dates : a = MonthStart[f]
        <5>1. f \in Nat /\ MonthStart[f] \in Int /\ MonthStart[f + 1] = MonthStart[f] + daysInMonth(f)
              /\ daysInMonth(f) \in 28..31
          BY <4>1, MonthLength, MonthTypes, Intervals
        <5> QED BY <5>1, MonthIs
      <4>3. monthIndexOf(a) = f
        <5>1. MonthStart[f + 1] = MonthStart[f] + daysInMonth(f) /\ daysInMonth(f) \in 28..31
              /\ a \in Int
          BY <4>1, <4>2, MonthLength, Intervals
        <5> QED BY <4>2, <5>1, MonthIs
      <4>4. a =< limit
        BY <1>1, <4>1, <4>2
      <4> QED BY <3>2, <4>1, <4>2, <4>3, <4>4, MonthsFollowDates
    <3>6. PICK n \in Int : /\ n =< ml - 1 /\ (ml - 1) - step < n /\ n < ms
                           /\ (ms - n) % step = 0
      <4>1. PICK k \in Int : k = ml - 1
        BY <3>4
      <4>2. k < ms /\ ms \in Int
        BY <3>4, <4>1
      <4>3. \E n \in Int : n =< k /\ k - step < n /\ n < ms /\ (ms - n) % step = 0
        BY <4>2, StepsBack
      <4> QED BY <4>1, <4>3
    <3>7. n \in Months /\ n \in Nat
      <4>1. FirstMonth =< n /\ n =< ml /\ FirstMonth \in Nat
        BY <3>4, <3>5, <3>6, MonthTypes
      <4>2. ml =< LastMonth /\ LastMonth \in Nat
        BY MonthTypes DEF Months
      <4> QED BY <3>4, <4>1, <4>2 DEF Months
    <3>8. n \in Cycles
      BY <3>6, <3>7
    <3> HIDE DEF Cycles
    <3>9. ASSUME NEW m \in Months
          PROVE  /\ clampedDayInMonth(m, day) \in Dates
                 /\ monthIndexOf(clampedDayInMonth(m, day)) = m
                 /\ clampedDayInMonth(m, day) < MonthStart[m + 1]
      BY ClampedDay
    <3>10. PICK x \in Dates : x = clampedDayInMonth(n, day)
      BY <3>7, <3>9
    <3>11. x =< limit
      <4>1. n + 1 \in Firsts /\ ml \in Firsts
        BY <3>7, MonthTypes
      <4>2. MonthStart[ml] >= MonthStart[n + 1] + 28 * (ml - (n + 1))
        BY <3>4, <3>6, <4>1, MonthsInOrder
      <4>3. MonthStart[ml] =< limit
        BY <3>2, MonthOfDate
      <4>4. x < MonthStart[n + 1]
        BY <3>7, <3>9, <3>10
      <4>5. x \in Int /\ MonthStart[ml] \in Int /\ MonthStart[n + 1] \in Int
        BY <4>1, MonthTypes, Intervals
      <4> QED BY <1>2, <3>4, <3>6, <4>2, <4>3, <4>4, <4>5
    <3>12. x \in Back
      BY <3>3, <3>8, <3>10, <3>11
    <3>13. Back \subseteq Int /\ limit \in Int /\ \A y \in Back : y =< limit
      <4>1. CyclesBack(r) \subseteq Dates
        BY <3>3, <3>9 DEF Cycles
      <4>2. Dates \subseteq Int /\ limit \in Int
        BY <1>2, Intervals
      <4>3. Back \subseteq CyclesBack(r) /\ \A y \in Back : y =< limit
        OBVIOUS
      <4> HIDE DEF Back
      <4> QED BY <4>1, <4>2, <4>3
    <3> HIDE DEF Back
    <3>14. PICK s : s = Max(Back)
      OBVIOUS
    <3>15. s \in Back
      BY <3>12, <3>13, <3>14, MaxExists
    <3>16. PICK m \in Cycles : s = clampedDayInMonth(m, day)
      BY <3>3, <3>15 DEF Back
    <3>17. s \in Dates /\ s =< limit /\ (ms - monthIndexOf(s)) % step = 0
      BY <3>9, <3>15, <3>16 DEF Back, Cycles
    <3> QED BY <1>1, <2>1, <2>3, <3>2, <3>14, <3>17, MonthlyPhase
  <2> QED BY <2>2, <2>3
<1> QED BY <1>3, <1>4

-----------------------------------------------------------------------------
(* The inductive invariant.  What it adds to the types: today is a day     *)
(* lived through, so that its period lies in the calendar, and the rule    *)
(* keeps the schedule it was created with, so that the calendar holds a    *)
(* cycle of it before any period it can be moved to.                       *)
LivesOn == today \in Lived

ScheduleKept ==
    \E c \in Cadences : /\ rule.frequency = c.frequency /\ rule.interval = c.interval
                        /\ rule.dayOfMonth = c.dayOfMonth

IInv == TypeOK /\ LivesOn /\ ScheduleKept

LEMMA Moved ==
    ASSUME IInv, NEW d \in StartDays
    PROVE  LET r == rule
               limit == currentBudgetPeriod(today, d).start
               s == rebasedStart(r, Period.start, limit)
           IN  /\ Admitted(r)
               /\ s \in Dates /\ s =< r.startDate
               /\ IF Rebased(r, Period.start, limit) THEN s =< limit ELSE s = r.startDate
               /\ \A date \in Dates :
                     InPhase([r EXCEPT !.startDate = s], date) <=> InPhase(r, date)
<1>1. PICK limit \in Dates : limit = currentBudgetPeriod(today, d).start
  BY PeriodOfToday, RulesAssumption DEF IInv, LivesOn
<1>2. PICK c \in Cadences : /\ rule.frequency = c.frequency /\ rule.interval = c.interval
                            /\ rule.dayOfMonth = c.dayOfMonth
  BY DEF IInv, ScheduleKept
<1>3. rule \in Rule
  BY DEF IInv, TypeOK
<1>4. /\ Admitted(rule) /\ rule.interval =< 52 /\ rule.startDate \in Dates
      /\ StepMonths(rule) = StepMonths(c)
  <2>1. rule.frequency # "WEEKLY" => rule.dayOfMonth # 0
    BY <1>2, CadenceTypes
  <2> QED BY <1>2, <1>3, <2>1 DEF Rule, Admitted, StepMonths
<1>5. /\ FirstMonth + StepMonths(rule) \in Months
      /\ MonthStart[FirstMonth + StepMonths(rule)] =< limit
      /\ limit >= 28 * StepMonths(rule)
  BY <1>1, <1>4, RoomBefore DEF IInv, LivesOn
<1>6. CASE Rebased(rule, Period.start, limit)
  <2>1. limit < rule.startDate
    BY <1>6 DEF Rebased
  <2>2. PICK s : s = startInPhase(rule, limit)
    OBVIOUS
  <2>3. /\ s \in Dates /\ s =< limit
        /\ \A date \in Dates :
              InPhase([rule EXCEPT !.startDate = s], date) <=> InPhase(rule, date)
    BY <1>4, <1>5, <2>1, <2>2, StartKeepsPhase
  <2>4. s =< rule.startDate
    BY <1>4, <2>1, <2>3, Intervals
  <2> QED BY <1>1, <1>4, <1>6, <2>2, <2>3, <2>4 DEF rebasedStart
<1>7. CASE ~Rebased(rule, Period.start, limit)
  <2>1. rebasedStart(rule, Period.start, limit) = rule.startDate
    BY <1>7 DEF rebasedStart
  <2>2. [rule EXCEPT !.startDate = rule.startDate] = rule
    BY <1>3 DEF Rule
  <2>3. rule.startDate =< rule.startDate
    <3>1. PICK x \in Dates : x = rule.startDate
      BY <1>4
    <3>2. x =< x
      BY Intervals
    <3> QED BY <3>1, <3>2
  <2> QED BY <1>1, <1>4, <1>7, <2>1, <2>2, <2>3
<1> QED BY <1>1, <1>6, <1>7

LEMMA Begins == Init => IInv
<1> SUFFICES ASSUME Init PROVE IInv
  OBVIOUS
<1>1. /\ today \in CreationDays /\ periodStartDay \in StartDays /\ changes = 0
      /\ onboardedOn \in CreationDays
  BY DEF Init
<1>2. CreationDays \subseteq Lived /\ CreationDays \subseteq Dates /\ 0 \in 0..MaxChanges
  <2>1. CreationDays \subseteq Lived
    BY RulesAssumption DEF Lived
  <2> QED BY <2>1, LivedDays, RulesAssumption
<1>3. PICK c \in Cadences, kind \in {"INCOME", "EXPENSE"} :
         rule = [kind |-> kind, frequency |-> c.frequency, interval |-> c.interval,
                 startDate |-> ruleStartDate(kind, c, today, Period),
                 dayOfMonth |-> c.dayOfMonth, dayOfWeek |-> c.dayOfWeek]
  BY DEF Init
<1>4. ruleStartDate(kind, c, today, Period) \in Dates
  BY <1>1, StartInCalendar DEF Period
<1>5. rule \in Rule /\ ScheduleKept
  BY <1>3, <1>4, CadenceTypes DEF Rule, ScheduleKept
<1> QED BY <1>1, <1>2, <1>5 DEF IInv, TypeOK, LivesOn

LEMMA Continues == IInv /\ [Next]_vars => IInv'
<1> SUFFICES ASSUME IInv, [Next]_vars PROVE IInv'
  OBVIOUS
<1>1. CASE Tomorrow
  <2>1. today' \in Lived
    BY <1>1, RulesAssumption DEF IInv, LivesOn, Lived, Tomorrow
  <2>2. today' \in Dates
    BY <2>1, LivedDays
  <2> QED BY <1>1, <2>1, <2>2 DEF IInv, TypeOK, LivesOn, ScheduleKept, Tomorrow
<1>2. ASSUME NEW d \in StartDays, ChangeStartDay(d)
      PROVE  IInv'
  <2>1. PICK s \in Dates : rule' = [rule EXCEPT !.startDate = s]
    BY <1>2, Moved DEF ChangeStartDay
  <2>2. rule' \in Rule /\ rule'.frequency = rule.frequency /\ rule'.interval = rule.interval
        /\ rule'.dayOfMonth = rule.dayOfMonth
    BY <2>1 DEF IInv, TypeOK, Rule
  <2>3. changes' \in 0..MaxChanges
    BY <1>2, RulesAssumption DEF ChangeStartDay, IInv, TypeOK
  <2> QED BY <1>2, <2>2, <2>3 DEF IInv, TypeOK, LivesOn, ScheduleKept, ChangeStartDay
<1>3. CASE UNCHANGED vars
  BY <1>3 DEF IInv, TypeOK, LivesOn, ScheduleKept, vars
<1> QED BY <1>1, <1>2, <1>3 DEF Next

LEMMA Invariance == Spec => []IInv
  BY Begins, Continues, PTL DEF Spec

(* The types of RecurringRules hold in every reachable state.              *)
THEOREM TypeCorrect == Spec => []TypeOK
<1>1. IInv => TypeOK
  BY DEF IInv
<1> QED BY <1>1, Invariance, PTL

(* The dates the engine finds in the current period are exactly those of   *)
(* the cadence, whatever the schedule, the start day and the changes of it. *)
THEOREM DatesAreExact == Spec => []OccurrencesAreExact
<1>1. IInv => OccurrencesAreExact
  <2> SUFFICES ASSUME IInv PROVE OccurrencesAreExact
    OBVIOUS
  <2>1. PICK p : p = Period
    OBVIOUS
  <2>2. periodStartDay \in StartDays /\ periodStartDay \in 1..28
    BY RulesAssumption DEF IInv, TypeOK
  <2>3. p.start \in Dates /\ p.end \in Dates
    BY <2>1, <2>2, PeriodOfToday DEF IInv, LivesOn, Period
  <2>4. Admitted(rule)
    BY <2>2, Moved
  <2> QED BY <2>1, <2>3, <2>4, OccurrencesOfAnyRule DEF OccurrencesAreExact
<1> QED BY <1>1, Invariance, PTL

(* A change of the period's first day takes no date from a rule; a rule     *)
(* that covered the old period covers the new one, with the dates of its    *)
(* cadence and no others, and any other rule keeps its dates                *)
(* (rebase-rule-starts.ts:30-45).                                           *)
THEOREM PaymentsAreKept == Spec => RebaseKeepsPayments
<1> DEFINE Kept ==
      LET span == [start |-> laterOf(0, Period'.start), end |-> laterOf(Period.end, Period'.end)]
          before == occurrencesInPeriod(rule, span)
          after == occurrencesInPeriod(rule', span)
      IN  /\ before \subseteq after
          /\ CoversPeriod => after = {date \in span.start..span.end : InPhase(rule, date)}
          /\ ~CoversPeriod => after = before
<1>1. ASSUME IInv, NEW d \in StartDays, ChangeStartDay(d)
      PROVE  Kept
  <2>1. PICK limit : limit = currentBudgetPeriod(today, d).start
    OBVIOUS
  <2>2. Period' = currentBudgetPeriod(today, d)
    BY <1>1 DEF ChangeStartDay, Period
  <2>3. PICK s : s = rebasedStart(rule, Period.start, limit)
    OBVIOUS
  <2>4. /\ Admitted(rule) /\ s \in Dates /\ s =< rule.startDate
        /\ IF Rebased(rule, Period.start, limit) THEN s =< limit ELSE s = rule.startDate
        /\ \A date \in Dates : InPhase([rule EXCEPT !.startDate = s], date) <=> InPhase(rule, date)
    BY <1>1, <2>1, <2>3, Moved
  <2>5. rule' = [rule EXCEPT !.startDate = s]
    BY <1>1, <2>1, <2>3 DEF ChangeStartDay
  <2>6. /\ Admitted(rule') /\ rule'.startDate = s /\ (s = rule.startDate => rule' = rule)
        /\ \A date \in Dates : InPhase(rule', date) <=> InPhase(rule, date)
    <3>1. rule \in Rule
      BY <1>1 DEF IInv, TypeOK
    <3> QED BY <2>4, <2>5, <3>1 DEF Admitted, Rule
  <2>7. PICK newStart \in Dates, oldEnd \in Dates, newEnd \in Dates :
           newStart = Period'.start /\ oldEnd = Period.end /\ newEnd = Period'.end
    <3>1. today \in Lived /\ periodStartDay \in 1..28 /\ d \in 1..28
      BY <1>1, RulesAssumption DEF IInv, TypeOK, LivesOn
    <3>2. Period.end \in Dates
      BY <3>1, PeriodOfToday DEF Period
    <3>3. Period'.start \in Dates /\ Period'.end \in Dates
      BY <2>2, <3>1, PeriodOfToday
    <3> QED BY <3>2, <3>3
  <2>8. newStart = limit
    BY <2>1, <2>2, <2>7
  <2>9. PICK span : span = [start |-> laterOf(0, newStart), end |-> laterOf(oldEnd, newEnd)]
    OBVIOUS
  <2>10. PICK from \in Dates, to \in Dates : from = span.start /\ to = span.end /\ from = newStart
    <3>1. laterOf(0, newStart) = newStart
      BY Intervals DEF laterOf
    <3>2. laterOf(oldEnd, newEnd) \in Dates
      BY DEF laterOf
    <3> QED BY <2>9, <3>1, <3>2
  <2>11. occurrencesInPeriod(rule, span) =
            {date \in from..to : date >= rule.startDate /\ InPhase(rule, date)}
    BY <2>4, <2>10, OccurrencesOfAnyRule
  <2>12. occurrencesInPeriod(rule', span) =
            {date \in from..to : date >= s /\ InPhase(rule', date)}
    BY <2>6, <2>10, OccurrencesOfAnyRule
  <2>13. /\ from..to \subseteq Dates /\ Dates \subseteq Int
         /\ \A date \in from..to : date >= from
    BY Intervals
  <2>14. \A date \in from..to : date >= rule.startDate => date >= s
    BY <2>4, <2>13 DEF Admitted
  <2>15. occurrencesInPeriod(rule, span) \subseteq occurrencesInPeriod(rule', span)
    BY <2>6, <2>11, <2>12, <2>13, <2>14
  <2>16. CASE CoversPeriod
    <3>1. PICK start \in Dates, oldStart \in Dates : start = rule.startDate /\ oldStart = Period.start
      <4>1. today \in Lived /\ periodStartDay \in 1..28
        BY <1>1, RulesAssumption DEF IInv, TypeOK, LivesOn
      <4>2. Period.start \in Dates
        BY <4>1, PeriodOfToday DEF Period
      <4> QED BY <2>4, <4>2 DEF Admitted
    <3>2. ASSUME limit < start PROVE s =< limit
      <4>1. limit < oldStart
        BY <2>8, <2>16, <3>1, <3>2, Intervals DEF CoversPeriod
      <4>2. Rebased(rule, Period.start, limit)
        BY <2>16, <3>1, <3>2, <4>1 DEF CoversPeriod, Rebased
      <4> QED BY <2>4, <4>2
    <3>3. ASSUME ~(limit < start) PROVE s =< limit
      BY <2>4, <2>8, <3>1, <3>3, Intervals
    <3>4. s =< limit
      BY <3>2, <3>3
    <3>5. \A date \in from..to : date >= s
      BY <2>4, <2>8, <2>10, <2>13, <3>4
    <3>6. occurrencesInPeriod(rule', span) = {date \in span.start..span.end : InPhase(rule, date)}
      BY <2>6, <2>10, <2>12, <2>13, <3>5
    <3> QED BY <2>7, <2>9, <2>15, <2>16, <3>6
  <2>17. CASE ~CoversPeriod
    <3>1. ~Rebased(rule, Period.start, limit)
      BY <2>17 DEF CoversPeriod, Rebased
    <3>2. rule' = rule
      BY <2>4, <2>6, <3>1
    <3> QED BY <2>7, <2>9, <2>15, <2>17, <3>2
  <2> QED BY <2>16, <2>17
<1>2. IInv /\ [Next]_vars => [periodStartDay' # periodStartDay => Kept]_vars
  <2> SUFFICES ASSUME IInv, Next, periodStartDay' # periodStartDay PROVE Kept
    OBVIOUS
  <2>1. PICK d \in StartDays : ChangeStartDay(d)
    BY DEF Next, Tomorrow
  <2> QED BY <1>1, <2>1
<1> QED BY <1>2, Invariance, PTL DEF Spec, RebaseKeepsPayments

-----------------------------------------------------------------------------
(* Both parts of a limit are whole amounts.                                *)
LEMMA LimitType ==
    ASSUME NEW morning \in Int, NEW days \in Nat \ {0}, NEW known \in BOOLEAN,
           NEW yesterday \in Int
    PROVE  /\ YesterdayShare(morning, days, yesterday) \in Int
           /\ Carried(morning, days, known, yesterday) \in Nat
           /\ Limit(morning, days, known, yesterday) \in Int
  <1>1. YesterdayShare(morning, days, yesterday) \in Int
    BY FloorBounds DEF YesterdayShare
  <1>2. morning \div days \in Int
    BY FloorBounds
  <1>3. Carried(morning, days, known, yesterday) \in Nat
    BY <1>1 DEF Carried, AtLeastZero
  <1>. QED BY <1>1, <1>2, <1>3 DEF Limit

(* Whoever has money in the morning has a limit that does not exceed it    *)
(* (calculateTodayAllowance, today-allowance.ts:49-74).                    *)
THEOREM LimitWithinMorning ==
    ASSUME NEW morning \in Nat, NEW days \in Nat \ {0}, NEW known \in BOOLEAN,
           NEW yesterday \in Nat
    PROVE  /\ 0 =< Limit(morning, days, known, yesterday)
           /\ Limit(morning, days, known, yesterday) =< morning
  <1>. DEFINE share == YesterdayShare(morning, days, yesterday)
              carried == Carried(morning, days, known, yesterday)
  <1>1. share \in Int /\ carried \in Nat
    BY LimitType
  <1>2. CASE days = 1
    BY <1>2 DEF Limit
  <1>3. CASE days # 1 /\ carried > 0
    <2>1. carried = share - yesterday
      BY <1>1, <1>3 DEF Carried, AtLeastZero
    <2>2. (days + 1) * share =< morning + yesterday
      BY FloorBounds DEF YesterdayShare
    <2>3. share \in Nat /\ 2 * share =< (days + 1) * share
      BY <1>1, <1>3, <2>1, SMTT(30)
    <2>4. Limit(morning, days, known, yesterday) = share + carried
      BY <1>1, <1>3 DEF Limit
    <2>. QED BY <2>1, <2>2, <2>3, <2>4, <1>1, <1>3, SMTT(30)
  <1>4. CASE days # 1 /\ ~(carried > 0)
    <2>1. Limit(morning, days, known, yesterday) = morning \div days
      BY <1>1, <1>4 DEF Limit
    <2>2. 0 =< morning \div days
      BY FloorAtLeast, SMTT(30)
    <2>3. morning \div days \in Nat /\ days * (morning \div days) =< morning
      BY <2>2, FloorBounds
    <2>4. morning \div days =< days * (morning \div days)
      BY <2>3, SMTT(30)
    <2>. QED BY <2>1, <2>2, <2>3, <2>4, SMTT(30)
  <1>. QED BY <1>1, <1>2, <1>3, <1>4

-----------------------------------------------------------------------------
(* Before the last day.                                                    *)
LEMMA LimitCases ==
    ASSUME NEW morning \in Int, NEW days \in Nat \ {0, 1}, NEW known \in BOOLEAN,
           NEW yesterday \in Int
    PROVE  LET share == YesterdayShare(morning, days, yesterday)
               carried == Carried(morning, days, known, yesterday)
           IN  /\ carried > 0 => Limit(morning, days, known, yesterday) = share + carried
               /\ ~(carried > 0) => Limit(morning, days, known, yesterday) = morning \div days
  BY DEF Limit

(* Today's limit is at least the even share of the morning's balance:      *)
(* what is carried from yesterday only adds to it.                         *)
LEMMA LimitAtLeastShare ==
    ASSUME NEW morning \in Int, NEW days \in Nat \ {0, 1}, NEW known \in BOOLEAN,
           NEW yesterday \in Int
    PROVE  morning \div days =< Limit(morning, days, known, yesterday)
  <1>. DEFINE share == YesterdayShare(morning, days, yesterday)
              carried == Carried(morning, days, known, yesterday)
  <1>1. share \in Int /\ carried \in Nat
    BY LimitType
  <1>2. CASE carried > 0
    <2>1. carried = share - yesterday
      BY <1>1, <1>2 DEF Carried, AtLeastZero
    <2>2. morning + yesterday < (days + 1) * share + (days + 1)
      BY FloorBounds DEF YesterdayShare
    <2>3. carried + 1 =< days * carried
      BY <1>1, <1>2, SMTT(30)
    <2>4. (days + 1) * share = days * share + share
          /\ days * (share + carried) = days * share + days * carried
      BY <1>1, SMTT(30)
    <2>5. morning < days * (share + carried) + days
      BY <1>1, <2>1, <2>2, <2>3, <2>4, SMTT(30)
    <2>6. morning \div days =< share + carried
      BY <1>1, <2>5, FloorAtMost
    <2>. QED BY <1>1, <1>2, <2>6, LimitCases
  <1>3. CASE ~(carried > 0)
    <2>1. Limit(morning, days, known, yesterday) = morning \div days
      BY <1>1, <1>3, LimitCases
    <2>. QED BY <2>1, FloorBounds
  <1>. QED BY <1>1, <1>2, <1>3

(* Tomorrow, when today's share was not all spent: its limit is the share  *)
(* and what is left of it.                                                 *)
LEMMA CarriedLimit ==
    ASSUME NEW morning \in Int, NEW days \in Nat \ {0, 1, 2}, NEW spent \in Int,
           spent < morning \div days
    PROVE  Limit(morning - spent, days - 1, TRUE, spent)
             = (morning \div days) + ((morning \div days) - spent)
  <1>1. YesterdayShare(morning - spent, days - 1, spent) = morning \div days
    <2>1. (morning - spent) + spent = morning /\ (days - 1) + 1 = days
      OBVIOUS
    <2>. QED BY <2>1 DEF YesterdayShare
  <1>2. morning \div days \in Int
    BY FloorBounds
  <1>3. Carried(morning - spent, days - 1, TRUE, spent) = (morning \div days) - spent
    BY <1>1, <1>2 DEF Carried, AtLeastZero
  <1>4. days - 1 # 1 /\ (morning \div days) - spent > 0
    BY <1>2
  <1>. QED BY <1>1, <1>3, <1>4 DEF Limit

(* ... and when it was: the even share of what there is.                   *)
LEMMA EvenLimit ==
    ASSUME NEW morning \in Int, NEW days \in Nat \ {0, 1, 2}, NEW spent \in Int,
           morning \div days =< spent
    PROVE  Limit(morning - spent, days - 1, TRUE, spent) = (morning - spent) \div (days - 1)
  <1>1. YesterdayShare(morning - spent, days - 1, spent) = morning \div days
    <2>1. (morning - spent) + spent = morning /\ (days - 1) + 1 = days
      OBVIOUS
    <2>. QED BY <2>1 DEF YesterdayShare
  <1>2. morning \div days \in Int
    BY FloorBounds
  <1>3. Carried(morning - spent, days - 1, TRUE, spent) = 0
    BY <1>1, <1>2 DEF Carried, AtLeastZero
  <1>4. days - 1 # 1 /\ ~(0 > 0)
    OBVIOUS
  <1>. QED BY <1>3, <1>4 DEF Limit

(* What is announced for the next days, and what the next day gets when    *)
(* nothing else is spent today.                                            *)
ShareIsKept(morning, days, known, yesterday, spent) ==
    LET left == Limit(morning, days, known, yesterday) - spent
        promised == nextDaysAllowance(morning - spent, left, days)
        tomorrow == Limit(morning - spent, days - 1, TRUE, spent)
    IN  /\ promised =< tomorrow
        /\ left =< 0 => tomorrow = promised

LEMMA NextDayKeepsShare ==
    ASSUME NEW morning \in Int, NEW days \in Nat \ {0, 1}, NEW known \in BOOLEAN,
           NEW yesterday \in Int, NEW spent \in Int
    PROVE  ShareIsKept(morning, days, known, yesterday, spent)
  <1>. DEFINE limit == Limit(morning, days, known, yesterday)
              left == limit - spent
              kept == AtLeastZero(left)
              promised == nextDaysAllowance(morning - spent, left, days)
              tomorrow == Limit(morning - spent, days - 1, TRUE, spent)
              even == morning \div days
  <1>. SUFFICES promised =< tomorrow /\ (left =< 0 => tomorrow = promised)
    BY DEF ShareIsKept
  <1>1. limit \in Int /\ even \in Int /\ even =< limit /\ morning < days * even + days
    BY LimitType, LimitAtLeastShare, FloorBounds
  <1>2. left \in Int /\ kept \in Nat /\ (left =< 0 => kept = 0) /\ (left > 0 => kept = left)
    BY <1>1 DEF AtLeastZero
  <1>3. promised = (morning - spent - kept) \div (days - 1)
    BY DEF nextDaysAllowance
  <1>. HIDE DEF limit, left, kept, promised, tomorrow, even
  <1>4. CASE days = 2
    <2>1. tomorrow = morning - spent
      BY <1>4 DEF tomorrow, Limit
    <2>2. promised = (morning - spent - kept) \div 1
      BY <1>3, <1>4
    <2>3. promised = morning - spent - kept
      BY <1>2, <2>2, SMTT(30)
    <2>. QED BY <1>2, <2>1, <2>3
  <1>5. CASE days >= 3 /\ even =< spent
    <2>1. tomorrow = (morning - spent) \div (days - 1)
      <3>1. days \in Nat \ {0, 1, 2} /\ morning \div days =< spent
        BY <1>5 DEF even
      <3>. QED BY <3>1, EvenLimit DEF tomorrow
    <2>2. promised =< tomorrow
      <3>1. morning - spent - kept =< morning - spent /\ days - 1 \in Nat \ {0}
        BY <1>2, <1>5
      <3>. QED BY <1>2, <1>3, <2>1, <3>1, FloorMonotone
    <2>3. left =< 0 => tomorrow = promised
      <3>1. kept = 0 => morning - spent - kept = morning - spent
        BY <1>2
      <3>. QED BY <1>2, <1>3, <2>1, <3>1
    <2>. QED BY <2>2, <2>3
  <1>6. CASE days >= 3 /\ spent < even
    <2>1. tomorrow = even + (even - spent)
      <3>1. days \in Nat \ {0, 1, 2} /\ spent < morning \div days
        BY <1>6 DEF even
      <3>. QED BY <3>1, CarriedLimit DEF tomorrow, even
    <2>2. left > 0 /\ kept = limit - spent
      BY <1>1, <1>2, <1>6 DEF left
    <2>3. morning - spent - kept =< morning - even
      BY <1>1, <1>2, <2>2
    <2>4. days * even = (days - 1) * even + even
          /\ (days - 1) * (even + 1) = (days - 1) * even + (days - 1)
      BY <1>1, SMTT(30)
    <2>5. morning - spent - kept < (days - 1) * (even + 1) + (days - 1)
      BY <1>1, <1>2, <1>6, <2>3, <2>4, SMTT(30)
    <2>6. promised =< even + 1
      BY <1>1, <1>2, <1>3, <1>6, <2>5, FloorAtMost
    <2>7. promised \in Int
      BY <1>2, <1>3, <1>6, FloorBounds
    <2>8. promised =< tomorrow
      BY <1>1, <1>6, <2>1, <2>6, <2>7
    <2>. QED BY <2>2, <2>8, <1>2
  <1>. QED BY <1>1, <1>4, <1>5, <1>6

(* nextDays is "ile dostanie każdy kolejny dzień, jeśli reszta             *)
(* dzisiejszego limitu zostanie na dziś" (today-allowance.ts:13-14).  With *)
(* nothing else spent, tomorrow's limit is at least that, and is exactly   *)
(* that when today's limit was used up.                                    *)
THEOREM NextDaysIsKept ==
    ASSUME NEW morning \in Int, NEW days \in Nat \ {0, 1}, NEW known \in BOOLEAN,
           NEW yesterday \in Int, NEW spent \in Int
    PROVE  LET left == Limit(morning, days, known, yesterday) - spent
               promised == nextDaysAllowance(morning - spent, left, days)
               tomorrow == Limit(morning - spent, days - 1, TRUE, spent)
           IN  /\ promised =< tomorrow
               /\ left =< 0 => tomorrow = promised
<1>1. ShareIsKept(morning, days, known, yesterday, spent)
  BY NextDayKeepsShare
<1> QED BY <1>1 DEF ShareIsKept

(* A user with money in the morning who keeps to today's limit has a       *)
(* balance and a share for the next days that are not negative, and the    *)
(* limit with those shares is no more than there was in the morning.       *)
THEOREM PlanIsCovered ==
    ASSUME NEW morning \in Nat, NEW days \in Nat \ {0, 1}, NEW known \in BOOLEAN,
           NEW yesterday \in Nat, NEW spent \in Nat,
           spent =< Limit(morning, days, known, yesterday)
    PROVE  LET limit == Limit(morning, days, known, yesterday)
               promised == nextDaysAllowance(morning - spent, limit - spent, days)
           IN  /\ morning - spent >= 0
               /\ promised >= 0
               /\ limit + (days - 1) * promised =< morning
  <1>. DEFINE limit == Limit(morning, days, known, yesterday)
              promised == nextDaysAllowance(morning - spent, limit - spent, days)
  <1>1. limit \in Int /\ limit =< morning /\ spent =< limit
    BY LimitType, LimitWithinMorning
  <1>2. promised = (morning - limit) \div (days - 1)
    <2>1. AtLeastZero(limit - spent) = limit - spent
      BY <1>1 DEF AtLeastZero
    <2>2. (morning - spent) - (limit - spent) = morning - limit
      BY <1>1
    <2>. QED BY <2>1, <2>2 DEF nextDaysAllowance
  <1>. HIDE DEF limit, promised
  <1>3. morning - limit \in Int /\ days - 1 \in Nat \ {0} /\ 0 =< morning - limit
    BY <1>1
  <1>4. promised \in Int /\ (days - 1) * promised =< morning - limit
    BY <1>2, <1>3, FloorBounds
  <1>5. promised >= 0
    <2>1. (days - 1) * 0 =< morning - limit
      BY <1>3, SMTT(30)
    <2>. QED BY <1>2, <1>3, <2>1, FloorAtLeast
  <1>6. limit + (days - 1) * promised =< morning
    <2>1. (days - 1) * promised \in Int
      BY <1>3, <1>4
    <2>. QED BY <1>1, <1>4, <2>1
  <1>7. morning - spent >= 0
    BY <1>1
  <1>. QED BY <1>5, <1>6, <1>7 DEF limit, promised

-----------------------------------------------------------------------------
Input == [periodIncome: Int, fixedCommitments: Int, goalContributions: Int, alreadySpent: Int,
          days: Nat \ {0}, spentToday: Int, known: BOOLEAN, spentYesterday: Int]

(* "wynik jest taki sam, jaki policzyłby silnik" (apply-expense.ts:9-11):  *)
(* shifting the budget on the screen by an expense of today gives what the *)
(* engine computes with the expense in its input.                          *)
THEOREM ShiftIsExact ==
    ASSUME NEW given \in Input, NEW delta \in Int
    PROVE  LET shifted == shiftSpent(calculateAvailableBalance(given), delta)
               exact == calculateAvailableBalance([given EXCEPT !.alreadySpent = @ + delta,
                                                                !.spentToday = @ + delta])
           IN  /\ shifted.availableBalance = exact.availableBalance
               /\ shifted.daysRemaining = exact.daysRemaining
               /\ shifted.dailyAllowance = exact.dailyAllowance
               /\ shifted.alreadySpent = exact.alreadySpent
               /\ shifted.today.limit = exact.today.limit
               /\ shifted.today.spent = exact.today.spent
               /\ shifted.today.left = exact.today.left
               /\ shifted.today.carriedFromYesterday = exact.today.carriedFromYesterday
               /\ shifted.today.nextDays = exact.today.nextDays
  <1>. DEFINE after == [given EXCEPT !.alreadySpent = @ + delta, !.spentToday = @ + delta]
              balance(i) == i.periodIncome - i.fixedCommitments - i.goalContributions
                              - i.alreadySpent
              limit(i) == Limit(balance(i) + i.spentToday, i.days, i.known, i.spentYesterday)
  <1>1. /\ after.alreadySpent = given.alreadySpent + delta
        /\ after.spentToday = given.spentToday + delta
        /\ after.periodIncome = given.periodIncome
        /\ after.fixedCommitments = given.fixedCommitments
        /\ after.goalContributions = given.goalContributions
        /\ after.days = given.days /\ after.days # 0
        /\ after.known = given.known
        /\ after.spentYesterday = given.spentYesterday
    BY DEF Input
  <1>2. balance(after) = balance(given) - delta
    BY <1>1 DEF Input
  <1>3. balance(after) + after.spentToday = balance(given) + given.spentToday
    BY <1>1, <1>2 DEF Input
  <1>4. limit(after) = limit(given) /\ limit(given) \in Int
    <2>1. balance(given) + given.spentToday \in Int /\ given.days \in Nat \ {0}
          /\ given.known \in BOOLEAN /\ given.spentYesterday \in Int
      BY DEF Input
    <2>. QED BY <1>1, <1>3, <2>1, LimitType
  <1>. DEFINE free == balance(given)
              days == given.days
              cap == limit(given)
              carried == Carried(free + given.spentToday, days, given.known,
                                 given.spentYesterday)
              budget(b, s, spent) ==
                 [availableBalance |-> b, daysRemaining |-> days,
                  dailyAllowance |-> calculateDailyAllowance(b, days),
                  alreadySpent |-> s,
                  today |-> [limit |-> cap, spent |-> spent, left |-> cap - spent,
                             carriedFromYesterday |-> carried,
                             nextDays |-> nextDaysAllowance(b, cap - spent, days)]]
  <1>5. calculateAvailableBalance(given) = budget(free, given.alreadySpent, given.spentToday)
    <2>1. days # 0
      BY DEF Input
    <2>. QED BY <2>1 DEF calculateAvailableBalance, calculateTodayAllowance
  <1>6. calculateAvailableBalance(after)
          = budget(free - delta, given.alreadySpent + delta, given.spentToday + delta)
    <2>. DEFINE morning == balance(after) + after.spentToday
    <2>1. calculateAvailableBalance(after)
            = [availableBalance |-> balance(after), daysRemaining |-> after.days,
               dailyAllowance |-> calculateDailyAllowance(balance(after), after.days),
               alreadySpent |-> after.alreadySpent,
               today |-> [limit |-> limit(after), spent |-> after.spentToday,
                          left |-> limit(after) - after.spentToday,
                          carriedFromYesterday |->
                             Carried(morning, after.days, after.known, after.spentYesterday),
                          nextDays |-> nextDaysAllowance(balance(after),
                                          limit(after) - after.spentToday, after.days)]]
      BY <1>1 DEF calculateAvailableBalance, calculateTodayAllowance
    <2>2. Carried(morning, after.days, after.known, after.spentYesterday) = carried
      BY <1>1, <1>3
    <2>. HIDE DEF after, balance, limit, carried, morning, free, cap
    <2>3. balance(after) = free - delta /\ limit(after) = cap
      BY <1>2, <1>4 DEF free, cap
    <2>. QED BY <1>1, <2>1, <2>2, <2>3
  <1>7. free \in Int /\ cap \in Int /\ given.spentToday \in Int
    BY <1>4 DEF Input
  <1>. HIDE DEF after, balance, limit, carried, free, cap, days
  <1>8. cap - given.spentToday - delta = cap - (given.spentToday + delta)
    BY <1>7
  <1>. DEFINE shown == budget(free, given.alreadySpent, given.spentToday)
              shifted == shiftSpent(shown, delta)
  <1>9. /\ shifted.availableBalance = free - delta
         /\ shifted.daysRemaining = days
         /\ shifted.dailyAllowance = calculateDailyAllowance(free - delta, days)
         /\ shifted.alreadySpent = given.alreadySpent + delta
    BY DEF shiftSpent
  <1>10. /\ shifted.today.limit = cap
         /\ shifted.today.spent = given.spentToday + delta
         /\ shifted.today.left = cap - given.spentToday - delta
         /\ shifted.today.carriedFromYesterday = carried
         /\ shifted.today.nextDays
              = nextDaysAllowance(free - delta, cap - given.spentToday - delta, days)
    BY DEF shiftSpent
  <1>. HIDE DEF shifted
  <1>11. shifted = shiftSpent(calculateAvailableBalance(given), delta)
    BY <1>5 DEF shifted
  <1>. QED BY <1>6, <1>8, <1>9, <1>10, <1>11 DEF after

-----------------------------------------------------------------------------
(* The rate of a goal (calculateGoalContribution) is the least that        *)
(* reaches it: paid in every period left it suffices, one less does not.   *)
THEOREM RateReachesGoal ==
    ASSUME NEW needed \in Nat \ {0}, NEW periods \in Nat \ {0}
    PROVE  LET rate == calculateGoalContribution(needed, periods)
           IN  /\ rate \in Int
               /\ needed =< periods * rate
               /\ periods * (rate - 1) < needed
  <1>. DEFINE floor == (-needed) \div periods
  <1>1. floor \in Int /\ periods * floor =< -needed /\ -needed < periods * floor + periods
    BY FloorBounds
  <1>2. calculateGoalContribution(needed, periods) = -floor
    BY DEF calculateGoalContribution, Ceiling
  <1>3. periods * (-floor) = -(periods * floor)
        /\ periods * (-floor - 1) = -(periods * floor) - periods
    BY <1>1, SMTT(30)
  <1>. QED BY <1>1, <1>2, <1>3

(* Whoever saves the rate is not asked for a higher one next period.       *)
THEOREM RateDoesNotGrow ==
    ASSUME NEW needed \in Nat \ {0}, NEW periods \in Nat \ {0, 1}
    PROVE  LET rate == calculateGoalContribution(needed, periods)
           IN  calculateGoalContribution(needed - rate, periods - 1) =< rate
  <1>. DEFINE rate == calculateGoalContribution(needed, periods)
              next == calculateGoalContribution(needed - rate, periods - 1)
  <1>1. rate \in Int /\ needed =< periods * rate /\ periods * (rate - 1) < needed
    BY RateReachesGoal
  <1>. SUFFICES next =< rate
    OBVIOUS
  <1>. HIDE DEF rate
  <1>2. rate >= 1
    <2>1. CASE rate =< 0
      <3>1. periods * rate =< 0
        BY <1>1, <2>1, SMTT(30)
      <3>. QED BY <1>1, <3>1
    <2>. QED BY <1>1, <2>1
  <1>3. CASE needed - rate =< 0
    <2>1. next = 0
      BY <1>1, <1>3 DEF calculateGoalContribution
    <2>. QED BY <1>1, <1>2, <2>1
  <1>4. CASE needed - rate > 0
    <2>. DEFINE floor == (-(needed - rate)) \div (periods - 1)
    <2>1. next = -floor
      BY <1>1, <1>4 DEF calculateGoalContribution, Ceiling
    <2>2. (periods - 1) * (-rate) = rate - periods * rate
      BY <1>1, SMTT(30)
    <2>3. (periods - 1) * (-rate) =< -(needed - rate)
      <3>1. periods * rate \in Int
        BY <1>1
      <3>. QED BY <1>1, <2>2, <3>1
    <2>4. -rate =< floor /\ floor \in Int
      <3>1. -(needed - rate) \in Int /\ periods - 1 \in Nat \ {0} /\ -rate \in Int
        BY <1>1
      <3>. QED BY <2>3, <3>1, FloorAtLeast, FloorBounds
    <2>. QED BY <1>1, <2>1, <2>4
  <1>. QED BY <1>1, <1>3, <1>4

-----------------------------------------------------------------------------
(* The share of a day falls with what is left to share.                    *)
LEMMA AllowanceMonotone ==
    ASSUME NEW less \in Int, NEW more \in Int, less =< more, NEW days \in Nat
    PROVE  /\ calculateDailyAllowance(less, days) \in Int
           /\ calculateDailyAllowance(more, days) \in Int
           /\ calculateDailyAllowance(less, days) =< calculateDailyAllowance(more, days)
  <1>1. CASE days = 0
    BY <1>1 DEF calculateDailyAllowance
  <1>2. CASE days # 0
    <2>1. days \in Nat \ {0}
      BY <1>2
    <2>2. less \div days \in Int /\ more \div days \in Int /\ less \div days =< more \div days
      BY <2>1, FloorBounds, FloorMonotone
    <2>. QED BY <1>2, <2>2 DEF calculateDailyAllowance
  <1>. QED BY <1>1, <1>2

(* Rounding up keeps the order, and does not pass a whole number.          *)
LEMMA CeilingMonotone ==
    ASSUME NEW n \in Nat, NEW m \in Nat, n =< m, NEW d \in Nat \ {0}
    PROVE  /\ Ceiling(n, d) \in Nat
           /\ Ceiling(n, d) =< Ceiling(m, d)
  <1>1. (-n) \div d \in Int /\ (-m) \div d \in Int /\ (-m) \div d =< (-n) \div d
    BY FloorBounds, FloorMonotone
  <1>2. (-n) \div d =< 0
    <2>1. -n < d * 0 + d
      OBVIOUS
    <2>. QED BY <2>1, FloorAtMost
  <1>. QED BY <1>1, <1>2 DEF Ceiling

(* A larger shortage delays a goal no less, and never by more days than    *)
(* are left to its date, as its share is never more than it needs.         *)
LEMMA DelayMonotone ==
    ASSUME NEW needed \in Int, NEW contribution \in Int, contribution =< AtLeastZero(needed),
           NEW less \in Nat, NEW more \in Nat, less =< more, NEW days \in Int
    PROVE  /\ calculateGoalDelayDays(needed, contribution, less, days)
                =< calculateGoalDelayDays(needed, contribution, more, days)
           /\ calculateGoalDelayDays(needed, contribution, more, days) =< AtLeastZero(days)
  <1>. DEFINE part(deficit) == IF deficit < contribution THEN deficit ELSE contribution
              delay(deficit) == calculateGoalDelayDays(needed, contribution, deficit, days)
  <1>1. CASE needed > 0 /\ days > 0 /\ contribution > 0
    <2>1. needed \in Nat \ {0} /\ days \in Nat \ {0} /\ contribution \in Nat /\ contribution =< needed
      BY <1>1 DEF AtLeastZero
    <2>2. part(less) \in Nat /\ part(more) \in Nat /\ part(less) =< part(more) /\ part(more) =< needed
      BY <2>1
    <2>3. /\ days * part(less) =< days * part(more)
          /\ days * part(more) =< days * needed
      BY <2>1, <2>2, TimesMonotone
    <2>4. /\ part(less) * days = days * part(less) /\ part(more) * days = days * part(more)
          /\ part(less) * days \in Nat /\ part(more) * days \in Nat
      <3>. HIDE DEF part
      <3>. QED BY <2>1, <2>2, SMTT(30)
    <2>5. /\ Ceiling(part(less) * days, needed) \in Nat
          /\ Ceiling(part(more) * days, needed) \in Nat
          /\ Ceiling(part(less) * days, needed) =< Ceiling(part(more) * days, needed)
      <3>. HIDE DEF part
      <3>. QED BY <2>1, <2>3, <2>4, CeilingMonotone
    <2>6. Ceiling(part(more) * days, needed) =< days
      <3>1. needed * (-days) =< -(part(more) * days)
        <4>. HIDE DEF part
        <4>. QED BY <2>1, <2>2, <2>3, <2>4, SMTT(30)
      <3>2. -days =< (-(part(more) * days)) \div needed
        BY <2>1, <2>4, <3>1, FloorAtLeast
      <3>3. (-(part(more) * days)) \div needed \in Int
        BY <2>1, <2>4, FloorBounds
      <3>. QED BY <2>1, <3>2, <3>3 DEF Ceiling
    <2>7. \A deficit \in Nat :
             delay(deficit) = IF deficit = 0 THEN 0 ELSE Ceiling(part(deficit) * days, needed)
      BY <2>1, <1>1 DEF calculateGoalDelayDays
    <2>. HIDE DEF part, delay
    <2>8. delay(less) =< delay(more) /\ delay(more) =< days
      BY <2>1, <2>5, <2>6, <2>7
    <2>. QED BY <1>1, <2>8 DEF delay, AtLeastZero
  <1>2. CASE ~(needed > 0 /\ days > 0 /\ contribution > 0)
    <2>1. delay(less) = 0 /\ delay(more) = 0
      BY <1>2 DEF calculateGoalDelayDays
    <2>. QED BY <2>1 DEF AtLeastZero
  <1>. QED BY <1>1, <1>2

(* The simulator foretells the balance and the daily share that the budget *)
(* shows once the purchase is added, and a dearer purchase never looks     *)
(* milder: it leaves no more, delays a goal no less (and by no more than   *)
(* the days left to its date), and its verdict is no better.               *)
THEOREM SimulationForetells ==
    ASSUME NEW given \in Input, NEW amount \in Nat, NEW dearer \in Nat, amount =< dearer,
           NEW needed \in Int, NEW contribution \in Int, contribution =< AtLeastZero(needed),
           NEW days \in Int
    PROVE  LET summary == calculateAvailableBalance(given)
               this == simulatePurchase(summary, amount, needed, contribution, days)
               that == simulatePurchase(summary, dearer, needed, contribution, days)
               shown == shiftSpent(summary, amount)
           IN  /\ this.remainingAfter = shown.availableBalance
               /\ this.dailyAllowanceAfter = shown.dailyAllowance
               /\ that.dailyAllowanceAfter =< this.dailyAllowanceAfter
               /\ this.delayDays =< that.delayDays /\ that.delayDays =< AtLeastZero(days)
               /\ this.riskLevel = "over" => that.riskLevel = "over"
               /\ this.riskLevel = "tight" => that.riskLevel # "safe"
  <1>. DEFINE summary == calculateAvailableBalance(given)
              balance == summary.availableBalance
              this == simulatePurchase(summary, amount, needed, contribution, days)
              that == simulatePurchase(summary, dearer, needed, contribution, days)
              shown == shiftSpent(summary, amount)
              daily(price) == calculateDailyAllowance(balance - price, given.days)
  <1>1. balance \in Int /\ summary.daysRemaining = given.days /\ given.days \in Nat
    BY DEF calculateAvailableBalance, Input
  <1>2. summary.dailyAllowance = calculateDailyAllowance(balance, given.days)
    BY DEF calculateAvailableBalance
  <1>3. summary.dailyAllowance \in Int
    BY <1>1, <1>2, AllowanceMonotone
  <1>4. daily(dearer) \in Int /\ daily(amount) \in Int /\ daily(dearer) =< daily(amount)
    BY <1>1, AllowanceMonotone
  <1>5. /\ this.remainingAfter = balance - amount /\ this.dailyAllowanceAfter = daily(amount)
        /\ that.remainingAfter = balance - dearer /\ that.dailyAllowanceAfter = daily(dearer)
        /\ this.riskLevel =
             calculateRiskLevel(balance - amount >= 0, summary.dailyAllowance, daily(amount))
        /\ that.riskLevel =
             calculateRiskLevel(balance - dearer >= 0, summary.dailyAllowance, daily(dearer))
        /\ this.delayDays = calculateGoalDelayDays(needed, contribution,
                                                   AtLeastZero(-(balance - amount)), days)
        /\ that.delayDays = calculateGoalDelayDays(needed, contribution,
                                                   AtLeastZero(-(balance - dearer)), days)
    BY <1>1 DEF simulatePurchase
  <1>6. shown.availableBalance = balance - amount /\ shown.dailyAllowance = daily(amount)
    BY <1>1 DEF shiftSpent, calculateAvailableBalance
  <1>. HIDE DEF summary, balance, this, that, shown, daily
  <1>7. this.delayDays =< that.delayDays /\ that.delayDays =< AtLeastZero(days)
    <2>1. /\ AtLeastZero(-(balance - amount)) \in Nat /\ AtLeastZero(-(balance - dearer)) \in Nat
          /\ AtLeastZero(-(balance - amount)) =< AtLeastZero(-(balance - dearer))
      BY <1>1 DEF AtLeastZero
    <2>. QED BY <1>5, <2>1, DelayMonotone
  <1>8. this.riskLevel = "over" => that.riskLevel = "over"
    BY <1>1, <1>5 DEF calculateRiskLevel
  <1>9. this.riskLevel = "tight" => that.riskLevel # "safe"
    BY <1>1, <1>3, <1>4, <1>5 DEF calculateRiskLevel
  <1>. QED BY <1>4, <1>5, <1>6, <1>7, <1>8, <1>9 DEF summary, this, that, shown

-----------------------------------------------------------------------------
(* The days of BudgetDays and their periods.                               *)
Lasts == FirstDay..LastDay

(* A day of the instance lies in the calendar and in its period.           *)
LEMMA DayHasPeriod ==
    ASSUME NEW day \in Lasts
    PROVE  /\ day \in Nat /\ day \in Dates /\ day + 1 \in Dates
           /\ MonthStart[FirstMonth + 1] =< day /\ day < MonthStart[LastMonth]
           /\ PeriodOf[day] = currentBudgetPeriod(day, StartDay)
           /\ PeriodOf[day].start \in Dates /\ PeriodOf[day].end \in Dates
           /\ PeriodOf[day].start =< day /\ day =< PeriodOf[day].end
<1>1. /\ FirstDay \in Nat /\ LastDay \in Nat /\ StartDay \in 1..28
      /\ MonthStart[FirstMonth + 1] =< FirstDay /\ LastDay < MonthStart[LastMonth]
  BY BudgetAssumption, DaysInCalendar
<1>2. day \in Nat /\ FirstDay =< day /\ day =< LastDay
  BY <1>1 DEF Lasts
<1>3. MonthStart[LastMonth] \in Int /\ MonthStart[FirstMonth] = 0
  BY MonthTypes DEF Firsts
<1>4. MonthStart[FirstMonth + 1] \in Int
  BY MonthTypes DEF Firsts
<1>5. MonthStart[FirstMonth + 1] =< day /\ day < MonthStart[LastMonth]
  BY <1>1, <1>2, <1>3, <1>4
<1>6. day \in Dates /\ day + 28 < MonthStart[LastMonth + 1]
  BY <1>2, <1>5, DayInCalendar
<1>7. day + 1 \in Dates
  <2>1. MonthStart[LastMonth + 1] \in Int
    BY MonthTypes DEF Firsts
  <2> QED BY <1>2, <1>6, <2>1 DEF Dates
<1>8. PeriodOf[day] = currentBudgetPeriod(day, StartDay)
  <2>1. day \in MonthStart[FirstMonth + 1]..(MonthStart[LastMonth] - 1)
    BY <1>2, <1>3, <1>4, <1>5
  <2> QED BY <2>1 DEF PeriodOf
<1>9. /\ PeriodOf[day].start \in Dates /\ PeriodOf[day].end \in Dates
      /\ PeriodOf[day].start =< day /\ day =< PeriodOf[day].end
  BY <1>1, <1>2, <1>5, <1>8, PeriodOfDay
<1> QED BY <1>2, <1>5, <1>6, <1>7, <1>8, <1>9

(* The month in which the period of a day ends.                            *)
LEMMA PeriodOfLast ==
    ASSUME NEW day \in Lasts
    PROVE  \E s \in Months :
              /\ s = monthIndexOf(day) - (IF dayOf(day) < StartDay THEN 1 ELSE 0)
              /\ s + 1 \in Months /\ PeriodOf[day].end = MonthStart[s + 1] + StartDay - 2
  BY DayHasPeriod, PeriodOfDay, BudgetAssumption

(* Schedules and amounts are those the API admits.                         *)
LEMMA ItemTypes ==
    ASSUME NEW item \in Items
    PROVE  /\ Admitted(ScheduleOf[item]) /\ ExpectedOf[item] \in Nat
           /\ TrackedSinceOf[item] \in Int /\ item # None /\ item # BeforeFinso
<1>1. PICK r \in [frequency : {"WEEKLY", "MONTHLY", "YEARLY"}, interval : Nat \ {0},
                  startDate : Dates, dayOfMonth : 0..31, dayOfWeek : 0..6] :
        r = ScheduleOf[item]
  BY ItemsAreRules
<1>2. r.frequency # "WEEKLY" => r.dayOfMonth # 0
  BY <1>1, ItemsAreRules
<1>3. Admitted(r)
  BY <1>2 DEF Admitted
<1> QED BY <1>1, <1>3, ItemsAreRules, BudgetAssumption

(* The dates of an item on a day, and on the next one.                     *)
LEMMA DatesOfItem ==
    ASSUME NEW item \in Items, NEW day \in Lasts
    PROVE  DatesOf[item][day] = {date \in Dates : /\ ScheduleOf[item].startDate =< date
                                                  /\ date =< PeriodOf[day].end
                                                  /\ InPhase(ScheduleOf[item], date)}
<1> DEFINE r == ScheduleOf[item]
           span == [start |-> r.startDate, end |-> PeriodOf[day].end]
<1>1. Admitted(r) /\ span.start \in Dates /\ span.end \in Dates
  BY ItemTypes, DayHasPeriod DEF Admitted
<1>2. DatesOf[item][day] = occurrencesInPeriod(r, span)
  BY DEF DatesOf, Lasts
<1>3. occurrencesInPeriod(r, span) =
        {date \in span.start..span.end : date >= r.startDate /\ InPhase(r, date)}
  BY <1>1, OccurrencesOfAnyRule
<1>4. PICK a \in Dates, b \in Dates : a = span.start /\ b = span.end /\ a = r.startDate
  BY <1>1
<1>5. \A date : date \in a..b <=> date \in Dates /\ a =< date /\ date =< b
  <2>1. PICK n \in Int : n = MonthStart[LastMonth + 1]
    BY MonthTypes DEF Firsts
  <2>2. a \in Nat /\ b \in Nat /\ b < n /\ Dates = 0..(n - 1)
    BY <2>1 DEF Dates
  <2> QED BY <2>1, <2>2
<1>6. \A date \in a..b : date >= a
  BY DEF Dates
<1>7. DatesOf[item][day] = {date \in a..b : date >= a /\ InPhase(r, date)}
  BY <1>2, <1>3, <1>4
<1> HIDE DEF r, span
<1>8. DatesOf[item][day] = {date \in Dates : a =< date /\ date =< b /\ InPhase(r, date)}
  BY <1>5, <1>6, <1>7
<1> QED BY <1>4, <1>8 DEF r, span

(* They are days of the calendar, so finitely many.                        *)
LEMMA DatesAreFinite ==
    ASSUME NEW item \in Items, NEW day \in Lasts
    PROVE  DatesOf[item][day] \subseteq Dates /\ IsFiniteSet(DatesOf[item][day])
<1>1. DatesOf[item][day] \subseteq Dates
  BY DatesOfItem
<1>2. IsFiniteSet(Dates)
  <2>1. MonthStart[LastMonth + 1] - 1 \in Int
    BY MonthTypes DEF Firsts
  <2>2. \A n \in Int : IsFiniteSet(0..n)
    BY FS_Interval
  <2> QED BY <2>1, <2>2 DEF Dates
<1> QED BY <1>1, <1>2, FS_Subset

(* A later day's period does not end earlier ...                           *)
LEMMA PeriodsFollow ==
    ASSUME NEW day \in Lasts, NEW later \in Lasts, day =< later
    PROVE  PeriodOf[day].end =< PeriodOf[later].end
<1> DEFINE d == StartDay
<1>1. d \in 1..28
  BY BudgetAssumption
<1>2. ASSUME NEW x \in Lasts
      PROVE  \E s \in Months : /\ s = monthIndexOf(x) - (IF dayOf(x) < d THEN 1 ELSE 0)
                               /\ s + 1 \in Months /\ PeriodOf[x].end = MonthStart[s + 1] + d - 2
  BY <1>1, DayHasPeriod, PeriodOfLast
<1>3. PICK s \in Months : /\ s = monthIndexOf(day) - (IF dayOf(day) < d THEN 1 ELSE 0)
                          /\ s + 1 \in Months /\ PeriodOf[day].end = MonthStart[s + 1] + d - 2
  BY <1>2
<1>4. PICK t \in Months : /\ t = monthIndexOf(later) - (IF dayOf(later) < d THEN 1 ELSE 0)
                          /\ t + 1 \in Months /\ PeriodOf[later].end = MonthStart[t + 1] + d - 2
  BY <1>2
<1> HIDE DEF d
<1>5. PICK m \in Months, n \in Months : m = monthIndexOf(day) /\ n = monthIndexOf(later)
  BY DayHasPeriod, MonthOfDate
<1>6. m =< n
  BY <1>5, DayHasPeriod, MonthsFollowDates
<1>7. s =< t
  <2>1. s \in Int /\ t \in Int /\ m \in Int /\ n \in Int
    BY Intervals
  <2>2. CASE m = n
    <3>1. dayOf(day) =< dayOf(later) /\ dayOf(day) \in Int /\ dayOf(later) \in Int
      BY <1>5, <2>2, DayHasPeriod, MonthTypes DEF dayOf
    <3> QED BY <1>1, <1>3, <1>4, <1>5, <2>1, <2>2, <3>1
  <2>3. CASE m < n
    BY <1>3, <1>4, <1>5, <2>1, <2>3
  <2> QED BY <1>6, <2>1, <2>2, <2>3
<1>8. MonthStart[s + 1] =< MonthStart[t + 1]
  <2>1. s + 1 \in Firsts /\ t + 1 \in Firsts /\ s \in Int /\ t \in Int
    BY <1>3, <1>4, MonthTypes, Intervals
  <2>2. MonthStart[t + 1] >= MonthStart[s + 1] + 28 * ((t + 1) - (s + 1))
    BY <1>7, <2>1, MonthsInOrder
  <2> QED BY <1>7, <2>1, <2>2, MonthTypes
<1> QED BY <1>1, <1>3, <1>4, <1>8, MonthTypes DEF d

(* ... so no date of an item is lost as days pass.                         *)
LEMMA MoreDates ==
    ASSUME NEW item \in Items, NEW day \in Lasts, NEW later \in Lasts, day =< later
    PROVE  DatesOf[item][day] \subseteq DatesOf[item][later]
<1>1. PICK a \in Dates, b \in Dates : a = PeriodOf[day].end /\ b = PeriodOf[later].end
  BY DayHasPeriod
<1>2. a =< b
  BY <1>1, PeriodsFollow
<1>3. \A date \in Dates : date =< a => date =< b
  BY <1>2, Intervals
<1> QED BY <1>1, <1>3, DatesOfItem

-----------------------------------------------------------------------------
(* The engine's input is a function of the day and of what is stored.      *)
LEMMA SameInput ==
    ASSUME UNCHANGED <<currentDay, active, rows>>
    PROVE  assembleBudgetInput' = assembleBudgetInput
  BY DEF assembleBudgetInput, periodIncome, remainingCommitments, calculateDaysRemaining, SpentOn,
         Spent, Received, ConfirmedInPeriod, SumOf, DueOn, Overdue, Current, Open, Closing,
         Answered, RowsOf, CurrentPeriod

(* A day-to-day expense was made by today and is not asked about.          *)
DailyIsPast ==
    \A i \in DOMAIN rows :
       rows[i].item = None => rows[i].status = "CONFIRMED" /\ rows[i].date =< currentDay

BudgetInv == BudgetTypeOK /\ DailyIsPast /\ input = assembleBudgetInput

(* The assumptions on the constants, item by item.                         *)
LEMMA Constants ==
    /\ FirstDay \in Nat /\ LastDay \in Nat /\ FirstDay =< LastDay /\ FirstDay \in Lasts
    /\ None \notin Items /\ BeforeFinso \notin Items
    /\ Amounts \subseteq Nat /\ GoalNeeds \in Int /\ GoalDate \in Int /\ StartDay \in 1..28
    /\ IsFiniteSet(Items) /\ IsFiniteSet(RowIds)
    /\ \A day \in Lasts : day \in Nat /\ FirstDay =< day /\ day =< LastDay
BY BudgetAssumption DEF Lasts

(* What Add stores is a row.                                               *)
LEMMA ConfirmedIsRow ==
    ASSUME NEW item \in Items \cup {None, BeforeFinso}, NEW amount \in Nat, NEW date \in Dates
    PROVE  Confirmed(item, amount, date) \in Row
BY DEF Confirmed, Row

(* The invariant holds on the day of onboarding ...                        *)
LEMMA DaysBegin == BudgetInit => BudgetInv
<1> SUFFICES ASSUME BudgetInit PROVE BudgetInv
  OBVIOUS
<1>1. currentDay \in FirstDay..LastDay /\ active \subseteq Items
  BY Constants DEF BudgetInit
<1>2. FirstDay \in Dates
  BY Constants, DayHasPeriod
<1>3. CASE rows = [i \in {} |-> i]
  BY <1>1, <1>3 DEF BudgetInit, BudgetInv, BudgetTypeOK, DailyIsPast
<1>4. ASSUME NEW i \in RowIds, NEW a \in Amounts,
             rows = [j \in {i} |-> Confirmed(BeforeFinso, a, FirstDay)]
      PROVE  BudgetInv
  <2>1. a \in Nat
    BY Constants
  <2>2. Confirmed(BeforeFinso, a, FirstDay) \in Row
    BY <1>2, <2>1, ConfirmedIsRow
  <2>3. DOMAIN rows = {i} /\ rows[i] = Confirmed(BeforeFinso, a, FirstDay)
    BY <1>4
  <2>4. currentDay = FirstDay /\ Confirmed(BeforeFinso, a, FirstDay).status = "CONFIRMED"
        /\ Confirmed(BeforeFinso, a, FirstDay).date = FirstDay
    BY DEF BudgetInit, Confirmed
  <2>5. DailyIsPast
    BY <2>3, <2>4, Constants DEF DailyIsPast
  <2> QED BY <1>1, <2>2, <2>3, <2>5 DEF BudgetInit, BudgetInv, BudgetTypeOK
<1> QED BY <1>3, <1>4 DEF BudgetInit

(* Storing a row keeps the types of the others.                            *)
LEMMA StoreKeeps ==
    ASSUME BudgetTypeOK, DailyIsPast, NEW i \in RowIds, NEW row \in Row, Store(i, row),
           UNCHANGED <<currentDay, active>>,
           row.item = None => row.status = "CONFIRMED" /\ row.date =< currentDay
    PROVE  BudgetTypeOK' /\ DailyIsPast'
<1>1. DOMAIN rows' = DOMAIN rows \cup {i} /\ rows'[i] = row
      /\ \A j \in DOMAIN rows : j # i => rows'[j] = rows[j]
  BY DEF Store
<1>2. BudgetTypeOK'
  BY <1>1 DEF BudgetTypeOK
<1>3. DailyIsPast'
  BY <1>1 DEF DailyIsPast
<1> QED BY <1>2, <1>3

(* Today and tomorrow are days of the calendar.                            *)
LEMMA DayTypes ==
    ASSUME BudgetTypeOK
    PROVE  /\ currentDay \in Lasts /\ currentDay \in Nat /\ currentDay \in Dates
           /\ currentDay + 1 \in Dates
BY DayHasPeriod DEF BudgetTypeOK, Lasts

(* What Answer stores is a row.                                            *)
LEMMA AnswerIsRow ==
    ASSUME BudgetTypeOK, NEW item \in Items, NEW occ \in Dates, NEW amount \in Nat,
           NEW answer \in {"CONFIRMED", "NOT_YET", "SKIPPED"}
    PROVE  toAnswer(item, occ, answer, amount) \in Row
<1>1. ExpectedOf[item] \in Nat
  BY ItemTypes
<1>2. (IF answer = "CONFIRMED" THEN amount ELSE ExpectedOf[item]) \in Nat
  BY <1>1
<1>3. (IF answer = "NOT_YET" THEN currentDay + 1 ELSE currentDay) \in Dates
  BY DayTypes
<1>4. (CASE answer = "CONFIRMED" -> "CONFIRMED"
         [] answer = "NOT_YET" -> "PENDING"
         [] answer = "SKIPPED" -> "DECLINED") \in {"PENDING", "CONFIRMED", "DECLINED"}
  OBVIOUS
<1> QED BY <1>2, <1>3, <1>4 DEF toAnswer, Row

(* ... and every step keeps it.                                            *)
LEMMA DaysContinue == BudgetInv /\ [BudgetNext]_budgetVars => BudgetInv'
<1> SUFFICES ASSUME BudgetInv, [BudgetNext]_budgetVars PROVE BudgetInv'
  OBVIOUS
<1> USE DEF BudgetInv
<1>1. CASE UNCHANGED budgetVars
  <2>1. UNCHANGED <<currentDay, active, rows>> /\ input' = input
    BY <1>1 DEF budgetVars
  <2>2. BudgetTypeOK' /\ DailyIsPast'
    BY <2>1 DEF BudgetTypeOK, DailyIsPast
  <2> QED BY <2>1, <2>2, SameInput
<1> SUFFICES ASSUME Step PROVE BudgetTypeOK' /\ DailyIsPast'
  BY <1>1 DEF BudgetNext
<1>2. ASSUME NEW item \in Items \cup {None}, NEW amount \in Amounts,
             NEW date \in {currentDay - 1, currentDay}, date >= FirstDay, Add(item, amount, date)
      PROVE  BudgetTypeOK' /\ DailyIsPast'
  <2>1. date \in Dates /\ date =< currentDay
    <3>1. currentDay \in Lasts /\ currentDay - 1 =< currentDay /\ currentDay =< currentDay
      BY DayTypes
    <3>2. date \in Lasts
      BY <1>2, <3>1, Constants DEF Lasts
    <3> QED BY <3>1, <3>2, DayHasPeriod
  <2>2. Confirmed(item, amount, date) \in Row
    BY <2>1, Constants, ConfirmedIsRow
  <2>3. PICK i \in FreeIds : Store(i, Confirmed(item, amount, date))
    BY <1>2 DEF Add
  <2>4. UNCHANGED <<currentDay, active>> /\ i \in RowIds
    BY <1>2 DEF Add, FreeIds
  <2>5. /\ Confirmed(item, amount, date).status = "CONFIRMED"
        /\ Confirmed(item, amount, date).date =< currentDay
    BY <2>1 DEF Confirmed
  <2> QED BY <2>2, <2>3, <2>4, <2>5, StoreKeeps
<1>3. ASSUME NEW i \in RowIds, RemoveRow(i) PROVE BudgetTypeOK' /\ DailyIsPast'
  <2>1. /\ DOMAIN rows' = DOMAIN rows \ {i} /\ \A j \in DOMAIN rows' : rows'[j] = rows[j]
        /\ UNCHANGED <<currentDay, active>>
    BY <1>3 DEF RemoveRow, Restrict
  <2> QED BY <2>1 DEF BudgetTypeOK, DailyIsPast
<1>4. ASSUME NEW item \in Items, NEW answer \in {"CONFIRMED", "NOT_YET", "SKIPPED"},
             NEW occ \in DatesOf[item][currentDay], NEW amount \in Amounts \cup {ExpectedOf[item]},
             Answer(item, occ, answer, amount)
      PROVE  BudgetTypeOK' /\ DailyIsPast'
  <2>1. occ \in Dates /\ amount \in Nat
    BY DayTypes, DatesAreFinite, ItemTypes, Constants
  <2>2. toAnswer(item, occ, answer, amount) \in Row
    BY <2>1, AnswerIsRow
  <2>3. PICK i \in IF RowsFor(item, occ) = {} THEN FreeIds ELSE RowsFor(item, occ) :
           Store(i, toAnswer(item, occ, answer, amount))
    BY <1>4 DEF Answer
  <2>4. i \in RowIds /\ UNCHANGED <<currentDay, active>>
    BY <1>4, <2>3 DEF Answer, FreeIds, RowsFor, RowsOf, BudgetTypeOK
  <2>5. toAnswer(item, occ, answer, amount).item # None
    BY ItemTypes DEF toAnswer
  <2> QED BY <2>2, <2>3, <2>4, <2>5, StoreKeeps
<1>5. ASSUME NEW item \in Items, SetActive(item) PROVE BudgetTypeOK' /\ DailyIsPast'
  BY <1>5 DEF SetActive, BudgetTypeOK, DailyIsPast
<1>6. ASSUME Midnight PROVE BudgetTypeOK' /\ DailyIsPast'
  <2>1. currentDay' = currentDay + 1 /\ currentDay' \in FirstDay..LastDay
        /\ UNCHANGED <<active, rows>>
    BY <1>6, Constants DEF Midnight, BudgetTypeOK
  <2>2. \A i \in DOMAIN rows : rows[i].date \in Int
    BY DEF BudgetTypeOK, Row, Dates
  <2>3. currentDay \in Int
    BY DayTypes
  <2> QED BY <2>1, <2>2, <2>3 DEF BudgetTypeOK, DailyIsPast
<1> QED BY <1>2, <1>3, <1>4, <1>5, <1>6 DEF Step

(* So it always holds.                                                     *)
LEMMA DaysInvariance == BudgetSpec => []BudgetInv
BY DaysBegin, DaysContinue, PTL DEF BudgetSpec

(* The rows, the items and the day stay in their sets whatever the user    *)
(* records, answers, archives or throws away.                              *)
THEOREM BudgetTypes == BudgetSpec => []BudgetTypeOK
<1>1. BudgetInv => BudgetTypeOK
  BY DEF BudgetInv
<1> QED BY <1>1, DaysInvariance, PTL

-----------------------------------------------------------------------------
(* The parts of Open.                                                      *)
Unanswered(item) == DatesOf[item][currentDay] \ Answered(item)
ClosedBefore(dates, date) == {e \in dates : e < date /\ PeriodOf[e] = PeriodOf[date]}
Loose(item, date) ==
    {i \in Closing(item) : rows[i].occ = None /\ PeriodOf[rows[i].date] = PeriodOf[date]}
Room(item, date) ==
    Cardinality(ClosedBefore(Unanswered(item), date)) >= Cardinality(Loose(item, date))

OpenDates(item) == {date \in Unanswered(item) : Room(item, date)}

(* What holds of the budget of every day.                                  *)
OpenIs ==
    \A item \in Items :
       /\ Open(item) = OpenDates(item)
       /\ IsFiniteSet(Unanswered(item)) /\ Unanswered(item) \subseteq Dates
       /\ \A date : /\ IsFiniteSet(ClosedBefore(Unanswered(item), date))
                    /\ IsFiniteSet(Loose(item, date))
       /\ \A date : /\ Cardinality(ClosedBefore(Unanswered(item), date)) \in Nat
                    /\ Cardinality(Loose(item, date)) \in Nat
       /\ IsFiniteSet(Overdue(item)) /\ IsFiniteSet(Current(item)) /\ Open(item) \subseteq Dates

(* There are finitely many rows.                                           *)
LEMMA RowsAreFinite ==
    ASSUME BudgetInv
    PROVE  IsFiniteSet(DOMAIN rows)
BY Constants, FS_Subset DEF BudgetInv, BudgetTypeOK

(* Open is what the parts above say, and all the sets it counts are finite. *)
LEMMA OpenTypes == BudgetInv => OpenIs
<1> SUFFICES ASSUME BudgetInv, NEW item \in Items
             PROVE  /\ Open(item) = OpenDates(item)
                    /\ IsFiniteSet(Unanswered(item)) /\ Unanswered(item) \subseteq Dates
                    /\ \A date : /\ IsFiniteSet(ClosedBefore(Unanswered(item), date))
                                 /\ IsFiniteSet(Loose(item, date))
                    /\ \A date : /\ Cardinality(ClosedBefore(Unanswered(item), date)) \in Nat
                                 /\ Cardinality(Loose(item, date)) \in Nat
                    /\ IsFiniteSet(Overdue(item)) /\ IsFiniteSet(Current(item))
                    /\ Open(item) \subseteq Dates
  BY DEF OpenIs
<1>1. Open(item) = OpenDates(item)
  BY DEF Open, OpenDates, Unanswered, Room, ClosedBefore, Loose
<1>2. IsFiniteSet(Unanswered(item)) /\ Unanswered(item) \subseteq Dates
  <2>1. currentDay \in Lasts
    BY DayTypes DEF BudgetInv
  <2>2. DatesOf[item][currentDay] \subseteq Dates /\ IsFiniteSet(DatesOf[item][currentDay])
    BY <2>1, DatesAreFinite
  <2> QED BY <2>2, FS_Subset DEF Unanswered
<1>3. ASSUME NEW date
      PROVE  IsFiniteSet(ClosedBefore(Unanswered(item), date)) /\ IsFiniteSet(Loose(item, date))
  <2>1. ClosedBefore(Unanswered(item), date) \subseteq Unanswered(item)
    BY DEF ClosedBefore
  <2>2. Loose(item, date) \subseteq DOMAIN rows
    BY DEF Loose, Closing, RowsOf
  <2> QED BY <1>2, <2>1, <2>2, RowsAreFinite, FS_Subset
<1>4. Open(item) \subseteq Dates /\ IsFiniteSet(Open(item))
  <2>1. OpenDates(item) \subseteq Unanswered(item)
    BY DEF OpenDates
  <2> QED BY <1>1, <1>2, <2>1, FS_Subset
<1>5. IsFiniteSet(Overdue(item)) /\ IsFiniteSet(Current(item))
  <2>1. Overdue(item) \subseteq Open(item) /\ Current(item) \subseteq Open(item)
    BY DEF Overdue, Current
  <2> QED BY <1>4, <2>1, FS_Subset
<1> QED BY <1>1, <1>2, <1>3, <1>4, <1>5, FS_CardinalityType

(* A night opens more dates of an item.                                    *)
LEMMA NightOpens ==
    ASSUME BudgetInv, BudgetInv', OpenIs, OpenIs', Midnight, NEW item \in Items
    PROVE  Open(item) \subseteq Open(item)'
<1>1. /\ currentDay \in Lasts /\ currentDay' \in Lasts /\ currentDay =< currentDay'
      /\ rows' = rows
  BY DayTypes, Constants DEF BudgetInv, BudgetTypeOK, Midnight, Lasts
<1>2. DatesOf[item][currentDay] \subseteq DatesOf[item][currentDay']
  BY <1>1, MoreDates
<1>3. Answered(item)' = Answered(item) /\ Closing(item)' = Closing(item)
  BY <1>1 DEF Answered, Closing, RowsOf
<1>4. Unanswered(item) \subseteq Unanswered(item)'
  BY <1>2, <1>3 DEF Unanswered
<1>5. ASSUME NEW date \in Open(item) PROVE date \in Open(item)'
  <2>1. date \in Unanswered(item) /\ Room(item, date)
    BY <1>5 DEF OpenIs, OpenDates
  <2>2. Loose(item, date)' = Loose(item, date)
    BY <1>1, <1>3 DEF Loose
  <2>3. ClosedBefore(Unanswered(item), date) \subseteq ClosedBefore(Unanswered(item)', date)
    BY <1>4 DEF ClosedBefore
  <2>4. IsFiniteSet(ClosedBefore(Unanswered(item)', date))
        /\ Cardinality(ClosedBefore(Unanswered(item)', date)) \in Nat
    BY DEF OpenIs
  <2>5. Cardinality(ClosedBefore(Unanswered(item), date)) =<
            Cardinality(ClosedBefore(Unanswered(item)', date))
    BY <2>3, <2>4, FS_Subset
  <2>6. Cardinality(ClosedBefore(Unanswered(item), date)) \in Nat
        /\ Cardinality(Loose(item, date)) \in Nat
    BY DEF OpenIs
  <2>7. Room(item, date)'
    BY <2>1, <2>2, <2>4, <2>5, <2>6 DEF Room
  <2> QED BY <1>4, <2>1, <2>7 DEF OpenIs, OpenDates
<1> QED BY <1>5

(* PaymentsAreNotForgotten, for every schedule, day and set of rows: a     *)
(* payment that openOccurrences finds one day it finds the next (assemble- *)
(* budget-input.ts:108-111).                                               *)
THEOREM NotForgotten == BudgetSpec => PaymentsAreNotForgotten
<1> DEFINE Kept == \A item \in Payments :
                      {date \in Overdue(item) \cup Current(item) : date >= TrackedSinceOf[item]}
                         \subseteq (Overdue(item) \cup Current(item))'
<1>1. BudgetInv /\ BudgetInv' /\ OpenIs /\ OpenIs' /\ Midnight => Kept
  <2> SUFFICES ASSUME BudgetInv, BudgetInv', OpenIs, OpenIs', Midnight, NEW item \in Payments,
                      NEW date \in Overdue(item) \cup Current(item), date >= TrackedSinceOf[item]
               PROVE  date \in (Overdue(item) \cup Current(item))'
    OBVIOUS
  <2>1. item \in Items
    BY DEF Items
  <2>2. date \in Open(item)' /\ date \in Dates
    BY <2>1, NightOpens DEF Overdue, Current, OpenIs
  <2>3. CurrentPeriod'.start \in Dates
    <3>1. currentDay' \in Lasts
      BY DEF BudgetInv, BudgetTypeOK, Lasts
    <3> QED BY <3>1, DayHasPeriod DEF CurrentPeriod
  <2>4. date < CurrentPeriod'.start \/ date >= CurrentPeriod'.start
    BY <2>2, <2>3 DEF Dates
  <2> QED BY <2>2, <2>4 DEF Overdue, Current
<1>2. BudgetInv /\ BudgetInv' /\ OpenIs /\ OpenIs' /\ [BudgetNext]_budgetVars
         => [Midnight => Kept]_budgetVars
  BY <1>1
<1> QED BY <1>2, OpenTypes, DaysInvariance, PTL DEF PaymentsAreNotForgotten, BudgetSpec

-----------------------------------------------------------------------------
(* What is due on finitely many dates is a whole amount.                   *)
LEMMA DueType ==
    ASSUME NEW item \in Items, NEW dates, IsFiniteSet(dates)
    PROVE  DueOn(item, dates) \in Int
<1>1. PICK n \in Int, k \in Int : n = ExpectedOf[item] /\ k = Cardinality(dates)
  BY ItemTypes, FS_CardinalityType
<1> QED BY <1>1 DEF DueOn

(* So is the sum of rows ...                                               *)
LEMMA RowSums ==
    ASSUME BudgetInv, NEW ids \in SUBSET (DOMAIN rows)
    PROVE  /\ IsFiniteSet(ids) /\ [i \in ids |-> rows[i].amount] \in [ids -> Int]
           /\ SumOf(ids) \in Int /\ (ids = {} => SumOf(ids) = 0)
<1>1. IsFiniteSet(ids)
  BY RowsAreFinite, FS_Subset
<1>2. [i \in ids |-> rows[i].amount] \in [ids -> Int]
  BY DEF BudgetInv, BudgetTypeOK, Row
<1> DEFINE f == [i \in ids |-> rows[i].amount]
<1>3. f \in [ids -> Int] /\ SumOf(ids) = SumFunction(f)
  BY <1>2 DEF SumOf
<1> HIDE DEF f
<1> QED BY <1>1, <1>2, <1>3, SumType

(* ... and what the items bring and cost.                                  *)
LEMMA DueSums ==
    ASSUME BudgetInv
    PROVE  /\ IsFiniteSet(active \cap Incomes) /\ IsFiniteSet(active \cap Payments)
           /\ [item \in active \cap Incomes |-> DueOn(item, Current(item))]
                 \in [active \cap Incomes -> Int]
           /\ [item \in active \cap Payments |-> DueOn(item, Overdue(item) \cup Current(item))]
                 \in [active \cap Payments -> Int]
           /\ SumFunction([item \in active \cap Incomes |-> DueOn(item, Current(item))]) \in Int
           /\ remainingCommitments \in Int
<1>1. active \subseteq Items /\ IsFiniteSet(Items)
  BY Constants DEF BudgetInv, BudgetTypeOK
<1>2. IsFiniteSet(active \cap Incomes) /\ IsFiniteSet(active \cap Payments)
  BY <1>1, FS_Subset
<1>3. \A item \in Items : /\ IsFiniteSet(Current(item))
                          /\ IsFiniteSet(Overdue(item) \cup Current(item))
  BY OpenTypes, FS_Union DEF OpenIs
<1> DEFINE f == [item \in active \cap Incomes |-> DueOn(item, Current(item))]
           g == [item \in active \cap Payments |-> DueOn(item, Overdue(item) \cup Current(item))]
           D == active \cap Incomes
           E == active \cap Payments
<1>4. f \in [D -> Int]
  <2>1. \A item \in D : item \in Items /\ DueOn(item, Current(item)) \in Int
    BY <1>1, <1>3, DueType
  <2> QED BY <2>1
<1>5. g \in [E -> Int]
  <2>1. \A item \in E : item \in Items /\ DueOn(item, Overdue(item) \cup Current(item)) \in Int
    BY <1>1, <1>3, DueType
  <2> QED BY <2>1
<1>6. remainingCommitments = SumFunction(g)
  BY DEF remainingCommitments
<1>7. IsFiniteSet(D) /\ IsFiniteSet(E)
  BY <1>2
<1> HIDE DEF f, g, D, E
<1>8. SumFunction(f) \in Int /\ SumFunction(g) \in Int
  BY <1>4, <1>5, <1>7, SumType
<1> QED BY <1>2, <1>4, <1>5, <1>6, <1>8 DEF f, g, D, E

(* The periods left and the share of the goal are whole numbers.           *)
LEMMA GoalShare ==
    ASSUME NEW day \in Lasts
    PROVE  /\ periodsUntil(day, GoalDate, StartDay) \in Int
           /\ calculateGoalContribution(GoalNeeds, periodsUntil(day, GoalDate, StartDay)) \in Int
<1>1. periodsUntil(day, GoalDate, StartDay) \in Int
  <2>1. CASE GoalDate < day
    BY <2>1 DEF periodsUntil
  <2>2. CASE ~(GoalDate < day)
    <3>1. /\ GoalDate \in Int /\ day \in Nat /\ MonthStart[FirstMonth + 1] =< day
          /\ StartDay \in 1..28 /\ PeriodOf[day].start \in Dates
          /\ PeriodOf[day] = currentBudgetPeriod(day, StartDay)
      BY Constants, DayHasPeriod
    <3>2. MonthStart[FirstMonth + 1] \in Int
      BY MonthTypes DEF Firsts
    <3>3. /\ GoalDate \in Nat /\ MonthStart[FirstMonth + 1] =< GoalDate
          /\ GoalDate < MonthStart[LastMonth]
      BY <2>2, <3>1, <3>2, DaysInCalendar
    <3>4. currentBudgetPeriod(GoalDate, StartDay).start \in Dates
      BY <3>1, <3>3, PeriodOfDay
    <3>5. /\ monthIndexOf(currentBudgetPeriod(GoalDate, StartDay).start) \in Int
          /\ monthIndexOf(currentBudgetPeriod(day, StartDay).start) \in Int
      <4>1. PICK a \in Dates, b \in Dates :
              /\ a = currentBudgetPeriod(GoalDate, StartDay).start
              /\ b = currentBudgetPeriod(day, StartDay).start
        BY <3>1, <3>4
      <4>2. monthIndexOf(a) \in Months /\ monthIndexOf(b) \in Months
        BY MonthOfDate
      <4>3. \A m \in Months : m \in Int
        BY Intervals
      <4> QED BY <4>1, <4>2, <4>3
    <3> QED BY <2>2, <3>5 DEF periodsUntil
  <2> QED BY <2>1, <2>2
<1> DEFINE n == periodsUntil(day, GoalDate, StartDay)
<1>2. n \in Int /\ GoalNeeds \in Int
  BY <1>1, Constants
<1> HIDE DEF n
<1>3. ASSUME n > 0 PROVE (-GoalNeeds) \div n \in Int
  BY <1>2, <1>3
<1>4. calculateGoalContribution(GoalNeeds, n) \in Int
  BY <1>2, <1>3 DEF calculateGoalContribution, Ceiling
<1> QED BY <1>1, <1>4 DEF n

(* What BudgetService.current gives the engine is an input of the theorems *)
(* on Balance.                                                             *)
LEMMA InputTypes == BudgetInv => input \in Input
<1> SUFFICES ASSUME BudgetInv PROVE assembleBudgetInput \in Input
  BY DEF BudgetInv
<1>1. currentDay \in Lasts
  BY DayTypes DEF BudgetInv
<1>2. Received \in SUBSET (DOMAIN rows) /\ Spent \in SUBSET (DOMAIN rows)
  BY DEF Received, Spent, ConfirmedInPeriod
<1>3. periodIncome \in Int /\ SumOf(Spent) \in Int
  BY <1>2, RowSums, DueSums DEF periodIncome
<1>4. ASSUME NEW day PROVE SpentOn(day) \in Int
  <2>1. {i \in Spent : rows[i].item = None /\ rows[i].date = day} \in SUBSET (DOMAIN rows)
    BY <1>2
  <2> QED BY <2>1, RowSums DEF SpentOn
<1>5. remainingCommitments \in Int
  BY DueSums
<1>6. calculateDaysRemaining \in Nat \ {0}
  <2>1. PICK end \in Dates : end = PeriodOf[currentDay].end
    BY <1>1, DayHasPeriod
  <2>2. end \in Int /\ currentDay \in Int /\ currentDay =< end
    BY <1>1, <2>1, DayHasPeriod, Intervals
  <2> QED BY <2>1, <2>2 DEF calculateDaysRemaining, CurrentPeriod
<1> QED BY <1>1, <1>3, <1>4, <1>5, <1>6, GoalShare DEF assembleBudgetInput, Input

-----------------------------------------------------------------------------
(* A night within a period closes and opens nothing.                       *)
LEMMA QuietNight ==
    ASSUME BudgetInv, BudgetInv', Midnight, CurrentPeriod' = CurrentPeriod, NEW item \in Items
    PROVE  Current(item)' = Current(item) /\ Overdue(item)' = Overdue(item)
<1>1. currentDay \in Lasts /\ currentDay' \in Lasts /\ rows' = rows
  BY DEF BudgetInv, BudgetTypeOK, Midnight, Lasts
<1>2. PeriodOf[currentDay'] = PeriodOf[currentDay]
  BY DEF CurrentPeriod
<1>3. DatesOf[item][currentDay'] = DatesOf[item][currentDay]
  BY <1>1, <1>2, DatesOfItem
<1>4. Answered(item)' = Answered(item) /\ Closing(item)' = Closing(item)
  BY <1>1 DEF Answered, Closing, RowsOf
<1>5. Unanswered(item)' = Unanswered(item)
  BY <1>3, <1>4 DEF Unanswered
<1>6. \A date : Loose(item, date)' = Loose(item, date)
  BY <1>1, <1>4 DEF Loose
<1>7. \A date : Room(item, date)' <=> Room(item, date)
  BY <1>5, <1>6 DEF Room
<1>8. OpenDates(item)' = OpenDates(item)
  BY <1>5, <1>7 DEF OpenDates
<1>9. Open(item) = OpenDates(item) /\ Open(item)' = OpenDates(item)'
  BY DEF Open, OpenDates, Unanswered, Room, ClosedBefore, Loose
<1>10. Open(item)' = Open(item)
  BY <1>8, <1>9
<1> QED BY <1>10 DEF Current, Overdue

(* A goal whose date is today is asked for in full, as it is tomorrow.     *)
LEMMA QuietGoal ==
    ASSUME NEW day \in Lasts, day + 1 \in Lasts, PeriodOf[day + 1] = PeriodOf[day]
    PROVE  calculateGoalContribution(GoalNeeds, periodsUntil(day + 1, GoalDate, StartDay))
             = calculateGoalContribution(GoalNeeds, periodsUntil(day, GoalDate, StartDay))
<1> DEFINE n == periodsUntil(day, GoalDate, StartDay)
           m == periodsUntil(day + 1, GoalDate, StartDay)
<1>1. day \in Int /\ GoalDate \in Int /\ GoalNeeds \in Int
  BY Constants, DayHasPeriod
<1>2. /\ PeriodOf[day] = currentBudgetPeriod(day, StartDay)
      /\ PeriodOf[day + 1] = currentBudgetPeriod(day + 1, StartDay)
  BY DayHasPeriod
<1>3. CASE GoalDate < day
  <2>1. n = 0 /\ m = 0
    BY <1>1, <1>3 DEF periodsUntil
  <2> QED BY <2>1
<1>4. CASE GoalDate > day
  <2>1. ~(GoalDate < day) /\ ~(GoalDate < day + 1)
    BY <1>1, <1>4
  <2>2. n = m
    BY <1>2, <2>1 DEF periodsUntil
  <2> QED BY <2>2
<1>5. CASE GoalDate = day
  <2>1. m = 0
    BY <1>1, <1>5 DEF periodsUntil
  <2>2. n = 1
    <3>1. PICK p \in Dates : p = currentBudgetPeriod(day, StartDay).start
      BY <1>2, DayHasPeriod
    <3>2. monthIndexOf(p) \in Int
      <4>1. monthIndexOf(p) \in Months /\ \A k \in Months : k \in Int
        BY MonthOfDate, Intervals
      <4> QED BY <4>1
    <3>3. ~(GoalDate < day)
      BY <1>1, <1>5
    <3>4. n = monthIndexOf(p) - monthIndexOf(p) + 1
      BY <1>5, <3>1, <3>3 DEF periodsUntil
    <3> QED BY <3>2, <3>4
  <2>3. (-GoalNeeds) \div 1 = -GoalNeeds
    BY <1>1
  <2>4. calculateGoalContribution(GoalNeeds, 1) = calculateGoalContribution(GoalNeeds, 0)
    BY <1>1, <2>3 DEF calculateGoalContribution, Ceiling
  <2> QED BY <2>1, <2>2, <2>4
<1> QED BY <1>1, <1>3, <1>4, <1>5

(* What a night within a period does to the engine's input.                *)
LEMMA QuietInput ==
    ASSUME BudgetInv, BudgetInv', Midnight, CurrentPeriod' = CurrentPeriod
    PROVE  /\ input'.periodIncome = input.periodIncome
           /\ input'.fixedCommitments = input.fixedCommitments
           /\ input'.goalContributions = input.goalContributions
           /\ input'.alreadySpent = input.alreadySpent
           /\ input'.days = input.days - 1
           /\ input'.spentToday = 0 /\ input'.known = TRUE
           /\ input'.spentYesterday = input.spentToday
<1>1. /\ currentDay \in Lasts /\ currentDay' \in Lasts /\ currentDay' = currentDay + 1
      /\ rows' = rows /\ active' = active
  BY DEF BudgetInv, BudgetTypeOK, Midnight, Lasts
<1>2. /\ currentDay \in Int /\ FirstDay =< currentDay /\ FirstDay \in Int
      /\ CurrentPeriod.start \in Int /\ CurrentPeriod.end \in Int
      /\ CurrentPeriod.start =< currentDay
  <2>1. PICK a \in Dates, b \in Dates : a = CurrentPeriod.start /\ b = CurrentPeriod.end
    BY <1>1, DayHasPeriod DEF CurrentPeriod
  <2>2. CurrentPeriod.start =< currentDay
    BY <1>1, DayHasPeriod DEF CurrentPeriod
  <2> QED BY <1>1, <2>1, <2>2, Constants, Intervals
<1>3. Received' = Received /\ Spent' = Spent /\ ConfirmedInPeriod' = ConfirmedInPeriod
  BY <1>1 DEF Received, Spent, ConfirmedInPeriod
<1>4. \A ids : SumOf(ids)' = SumOf(ids)
  BY <1>1 DEF SumOf
<1>5. \A item \in Items : \A dates : DueOn(item, dates)' = DueOn(item, dates)
  BY DEF DueOn
<1>6. \A item \in Items : Current(item)' = Current(item) /\ Overdue(item)' = Overdue(item)
  BY QuietNight
<1>7. active \subseteq Items
  BY DEF BudgetInv, BudgetTypeOK
<1>8. periodIncome' = periodIncome
  <2>1. [item \in active' \cap Incomes |-> DueOn(item, Current(item)')]
          = [item \in active \cap Incomes |-> DueOn(item, Current(item))]
    BY <1>1, <1>6, <1>7
  <2>2. SumOf(Received)' = SumOf(Received)
    BY <1>1, <1>3 DEF SumOf
  <2> QED BY <2>1, <2>2 DEF periodIncome
<1>9. remainingCommitments' = remainingCommitments
  <2>1. [item \in active' \cap Payments |-> DueOn(item, Overdue(item)' \cup Current(item)')]
          = [item \in active \cap Payments |-> DueOn(item, Overdue(item) \cup Current(item))]
    BY <1>1, <1>6, <1>7
  <2> QED BY <2>1 DEF remainingCommitments
<1>10. SumOf(Spent)' = SumOf(Spent)
  BY <1>1, <1>3 DEF SumOf
<1>11. SpentOn(currentDay)' = 0
  <2>1. \A i \in Spent : rows[i].item = None => rows[i].date =< currentDay
    BY DEF BudgetInv, DailyIsPast, Spent, ConfirmedInPeriod
  <2>2. {i \in Spent : rows[i].item = None /\ rows[i].date = currentDay'} = {}
    BY <1>1, <1>2, <2>1
  <2>3. [i \in {} |-> rows[i].amount] \in [{} -> Int] /\ IsFiniteSet({})
    BY FS_EmptySet
  <2>4. SumFunction([i \in {} |-> rows[i].amount]) = 0
    BY <2>3, SumType
  <2>5. SpentOn(currentDay)' = SumFunction([i \in {} |-> rows[i].amount])
    BY <1>1, <1>3, <2>2 DEF SpentOn, SumOf
  <2> QED BY <2>4, <2>5
<1>12. SpentOn(currentDay - 1)' = SpentOn(currentDay)
  <2>1. currentDay' - 1 = currentDay
    BY <1>1, <1>2
  <2> QED BY <1>1, <1>3, <2>1 DEF SpentOn, SumOf
<1>13. calculateDaysRemaining' = calculateDaysRemaining - 1
  BY <1>1, <1>2 DEF calculateDaysRemaining
<1>14. CurrentPeriod'.start < currentDay' /\ FirstDay < currentDay'
  BY <1>1, <1>2
<1>15. calculateGoalContribution(GoalNeeds, periodsUntil(currentDay', GoalDate, StartDay))
         = calculateGoalContribution(GoalNeeds, periodsUntil(currentDay, GoalDate, StartDay))
  <2>1. PeriodOf[currentDay + 1] = PeriodOf[currentDay]
    BY <1>1 DEF CurrentPeriod
  <2> QED BY <1>1, <2>1, QuietGoal
<1>16. input = assembleBudgetInput /\ input' = assembleBudgetInput'
  BY DEF BudgetInv
<1> QED BY <1>8, <1>9, <1>10, <1>11, <1>12, <1>13, <1>14, <1>15, <1>16 DEF assembleBudgetInput

(* The share announced for the days after today.                           *)
TomorrowIsNoLess(balance, spent, days, known, yesterday) ==
    LET limit == Limit(balance + spent, days, known, yesterday)
        share == nextDaysAllowance(balance, limit - spent, days)
        tomorrow == Limit(balance, days - 1, TRUE, spent)
    IN  /\ tomorrow >= share
        /\ limit - spent =< 0 => tomorrow = share

(* NextDayKeepsShare, from the balance of the evening.                     *)
LEMMA PromisedShare ==
    ASSUME NEW balance \in Int, NEW spent \in Int, NEW days \in Nat \ {0, 1},
           NEW known \in BOOLEAN, NEW yesterday \in Int
    PROVE  TomorrowIsNoLess(balance, spent, days, known, yesterday)
<1>1. PICK morning \in Int : morning = balance + spent
  OBVIOUS
<1>2. morning - spent = balance
  BY <1>1
<1> DEFINE limit == Limit(morning, days, known, yesterday)
<1>3. /\ nextDaysAllowance(morning - spent, limit - spent, days)
            =< Limit(morning - spent, days - 1, TRUE, spent)
      /\ limit - spent =< 0 =>
            Limit(morning - spent, days - 1, TRUE, spent)
              = nextDaysAllowance(morning - spent, limit - spent, days)
  <2>1. ShareIsKept(morning, days, known, yesterday, spent)
    BY NextDayKeepsShare
  <2> QED BY <2>1 DEF ShareIsKept
<1>4. limit \in Int
  <2>1. days \in Nat \ {0}
    OBVIOUS
  <2> QED BY <2>1, LimitType
<1> HIDE DEF limit
<1>5. PICK left \in Int : left = limit - spent
  BY <1>4
<1>6. nextDaysAllowance(balance, left, days) \in Int
  <2>1. AtLeastZero(left) \in Int
    BY DEF AtLeastZero
  <2>2. PICK kept \in Int, n \in Nat \ {0} : kept = balance - AtLeastZero(left) /\ n = days - 1
    BY <2>1
  <2>3. kept \div n \in Int
    BY FloorBounds
  <2> QED BY <2>2, <2>3 DEF nextDaysAllowance
<1>7. PICK n \in Nat \ {0} : n = days - 1
  OBVIOUS
<1>8. \A known2 \in BOOLEAN : Limit(balance, n, known2, spent) \in Int
  BY LimitType
<1>9. Limit(balance, days - 1, TRUE, spent) \in Int
  BY <1>7, <1>8
<1>10. nextDaysAllowance(balance, left, days) =< Limit(balance, days - 1, TRUE, spent)
       /\ (left =< 0 =>
              Limit(balance, days - 1, TRUE, spent) = nextDaysAllowance(balance, left, days))
  BY <1>2, <1>3, <1>5
<1>11. Limit(balance, days - 1, TRUE, spent) >= nextDaysAllowance(balance, left, days)
  BY <1>6, <1>9, <1>10
<1> QED BY <1>1, <1>5, <1>10, <1>11 DEF limit, TomorrowIsNoLess

InputOK == input \in Input

(* PromiseKept: a night within a period changes nothing but the day, so    *)
(* that the announced share of the next days is kept (NextDaysIsKept).     *)
THEOREM NightKeepsPromise == BudgetSpec => PromiseKept
<1> DEFINE Quiet == Midnight /\ CurrentPeriod' = CurrentPeriod
           Promise == /\ Summary'.availableBalance = Summary.availableBalance
                      /\ Summary'.today.limit >= Summary.today.nextDays
                      /\ Summary.today.left =< 0 => Summary'.today.limit = Summary.today.nextDays
<1>1. BudgetInv /\ BudgetInv' /\ InputOK /\ InputOK' /\ Quiet => Promise
  <2> SUFFICES ASSUME BudgetInv, BudgetInv', InputOK, InputOK', Quiet
               PROVE  Promise
    OBVIOUS
  <2>1. /\ input'.periodIncome = input.periodIncome
        /\ input'.fixedCommitments = input.fixedCommitments
        /\ input'.goalContributions = input.goalContributions
        /\ input'.alreadySpent = input.alreadySpent
        /\ input'.days = input.days - 1
        /\ input'.spentToday = 0 /\ input'.known = TRUE
        /\ input'.spentYesterday = input.spentToday
    BY QuietInput
  <2>2. input \in Input /\ input' \in Input
    BY DEF InputOK
  <2>3. PICK days \in Nat \ {0}, spent \in Int, known \in BOOLEAN, yesterday \in Int,
             balance \in Int :
          /\ days = input.days /\ spent = input.spentToday /\ known = input.known
          /\ yesterday = input.spentYesterday
          /\ balance = input.periodIncome - input.fixedCommitments - input.goalContributions
                         - input.alreadySpent
    BY <2>2 DEF Input
  <2>4. days # 1 /\ days - 1 \in Nat \ {0}
    <3>1. input'.days = days - 1 /\ input'.days \in Nat \ {0}
      BY <2>1, <2>2, <2>3 DEF Input
    <3> QED BY <3>1
  <2> DEFINE morning == balance + spent
             limit == Limit(morning, days, known, yesterday)
             share == nextDaysAllowance(balance, limit - spent, days)
             tomorrow == Limit(balance, days - 1, TRUE, spent)
  <2>5. morning \in Int /\ morning - spent = balance /\ balance + 0 = balance
    OBVIOUS
  <2>6. /\ Summary.availableBalance = balance
        /\ Summary.today.left = limit - spent
        /\ Summary.today.nextDays = share
    BY <2>3 DEF Summary, calculateAvailableBalance, calculateTodayAllowance
  <2>7. /\ Summary'.availableBalance = balance
        /\ Summary'.today.limit = Limit(balance + 0, days - 1, TRUE, spent)
    <3>1. PICK next : next = input'
      OBVIOUS
    <3>2. /\ next.periodIncome - next.fixedCommitments - next.goalContributions
              - next.alreadySpent = balance
          /\ next.days = days - 1 /\ next.spentToday = 0 /\ next.known = TRUE
          /\ next.spentYesterday = spent
      BY <2>1, <2>3, <3>1
    <3>3. Summary' = calculateAvailableBalance(next)
      BY <3>1 DEF Summary
    <3> QED BY <2>4, <3>2, <3>3 DEF calculateAvailableBalance, calculateTodayAllowance
  <2>8. tomorrow >= share /\ (limit - spent =< 0 => tomorrow = share)
    <3>1. days \in Nat \ {0, 1}
      BY <2>4
    <3>2. TomorrowIsNoLess(balance, spent, days, known, yesterday)
      BY <3>1, PromisedShare
    <3> QED BY <3>2 DEF TomorrowIsNoLess
  <2>9. Summary'.today.limit = tomorrow
    BY <2>5, <2>7
  <2> HIDE DEF share, limit, tomorrow, morning
  <2> QED BY <2>6, <2>7, <2>8, <2>9
<1>2. BudgetInv /\ BudgetInv' /\ InputOK /\ InputOK' /\ [BudgetNext]_budgetVars
         => [Quiet => Promise]_budgetVars
  BY <1>1
<1>3. BudgetInv => InputOK
  BY InputTypes DEF InputOK
<1> QED BY <1>2, <1>3, DaysInvariance, PTL DEF PromiseKept, BudgetSpec

-----------------------------------------------------------------------------
(* A budget and its limit, field by field.                                 *)
LimitOf(limit, spent, left, carried, share) ==
    [limit |-> limit, spent |-> spent, left |-> left, carriedFromYesterday |-> carried,
     nextDays |-> share]
BudgetOf(balance, days, daily, spent, limit) ==
    [availableBalance |-> balance, daysRemaining |-> days, dailyAllowance |-> daily,
     alreadySpent |-> spent, today |-> limit]

(* shiftSpent changes these fields and keeps the others.                   *)
LEMMA ShiftIsWhole ==
    ASSUME NEW b, NEW d, NEW n, NEW a, NEW l, NEW s, NEW f, NEW c, NEW x, NEW delta
    PROVE  shiftSpent(BudgetOf(b, d, n, a, LimitOf(l, s, f, c, x)), delta)
             = BudgetOf(b - delta, d, calculateDailyAllowance(b - delta, d), a + delta,
                        LimitOf(l, s + delta, f - delta, c,
                                nextDaysAllowance(b - delta, f - delta, d)))
<1> DEFINE v == nextDaysAllowance(b - delta, f - delta, d)
           w == calculateDailyAllowance(b - delta, d)
           ss == s + delta
           ff == f - delta
           spend(t) == [t EXCEPT !.spent = ss]
           leave(t) == [t EXCEPT !.left = ff]
           share(t) == [t EXCEPT !.nextDays = v]
           old == LimitOf(l, s, f, c, x)
           new == [old EXCEPT !.spent = ss, !.left = ff, !.nextDays = v]
           g == BudgetOf(b, d, n, a, old)
           bb == b - delta
           aa == a + delta
           one(h) == [h EXCEPT !.availableBalance = bb]
           two(h) == [h EXCEPT !.alreadySpent = aa]
           three(h) == [h EXCEPT !.dailyAllowance = w]
           four(h) == [h EXCEPT !.today = new]
<1>1. spend(old) = LimitOf(l, ss, f, c, x)
  BY DEF LimitOf
<1>2. leave(LimitOf(l, ss, f, c, x)) = LimitOf(l, ss, ff, c, x)
  BY DEF LimitOf
<1>3. share(LimitOf(l, ss, ff, c, x)) = LimitOf(l, ss, ff, c, v)
  BY DEF LimitOf
<1>4. share(leave(spend(old))) = new
  OBVIOUS
<1> HIDE DEF spend, leave, share
<1>5. new = LimitOf(l, ss, ff, c, v)
  BY <1>1, <1>2, <1>3, <1>4
<1>6. shiftSpent(g, delta) = [g EXCEPT !.availableBalance = bb, !.alreadySpent = aa,
                                       !.dailyAllowance = w, !.today = new]
  BY DEF shiftSpent, BudgetOf, LimitOf
<1>7. four(three(two(one(g)))) = [g EXCEPT !.availableBalance = bb, !.alreadySpent = aa,
                                           !.dailyAllowance = w, !.today = new]
  OBVIOUS
<1> HIDE DEF new, old, v, w, ss, ff, aa, bb
<1>8. one(g) = BudgetOf(bb, d, n, a, old)
  BY DEF BudgetOf
<1>9. two(BudgetOf(bb, d, n, a, old)) = BudgetOf(bb, d, n, aa, old)
  BY DEF BudgetOf
<1>10. three(BudgetOf(bb, d, n, aa, old)) = BudgetOf(bb, d, w, aa, old)
  BY DEF BudgetOf
<1>11. four(BudgetOf(bb, d, w, aa, old)) = BudgetOf(bb, d, w, aa, new)
  BY DEF BudgetOf
<1> HIDE DEF one, two, three, four
<1>12. shiftSpent(g, delta) = BudgetOf(bb, d, w, aa, LimitOf(l, ss, ff, c, v))
  BY <1>5, <1>6, <1>7, <1>8, <1>9, <1>10, <1>11
<1> QED BY <1>12 DEF old, v, w, ss, ff, aa, bb

Shifted(given, delta) == [given EXCEPT !.alreadySpent = @ + delta, !.spentToday = @ + delta]

(* The budget of an input, field by field.                                 *)
LEMMA BudgetIs ==
    ASSUME NEW given \in Input
    PROVE  LET free == given.periodIncome - given.fixedCommitments - given.goalContributions
                         - given.alreadySpent
               morning == free + given.spentToday
               limit == Limit(morning, given.days, given.known, given.spentYesterday)
           IN  calculateAvailableBalance(given) =
                 BudgetOf(free, given.days, calculateDailyAllowance(free, given.days),
                          given.alreadySpent,
                          LimitOf(limit, given.spentToday, limit - given.spentToday,
                                  Carried(morning, given.days, given.known, given.spentYesterday),
                                  nextDaysAllowance(free, limit - given.spentToday, given.days)))
<1>1. given.days # 0
  BY DEF Input
<1> QED BY <1>1 DEF calculateAvailableBalance, calculateTodayAllowance, BudgetOf, LimitOf

(* ShiftIsExact, of the whole budget.                                      *)
LEMMA WholeShift ==
    ASSUME NEW given \in Input, NEW delta \in Int
    PROVE  shiftSpent(calculateAvailableBalance(given), delta)
             = calculateAvailableBalance(Shifted(given, delta))
<1>1. Shifted(given, delta) \in Input
  <2> DEFINE a == given.alreadySpent + delta
             s == given.spentToday + delta
             all(g) == [g EXCEPT !.alreadySpent = a]
             spentNow(g) == [g EXCEPT !.spentToday = s]
  <2>1. a \in Int /\ s \in Int
    BY DEF Input
  <2>2. Shifted(given, delta) = spentNow(all(given))
    BY DEF Shifted
  <2> HIDE DEF a, s
  <2>3. all(given) \in Input
    BY <2>1 DEF Input
  <2>4. \A g \in Input : spentNow(g) \in Input
    BY <2>1 DEF Input
  <2> HIDE DEF all, spentNow
  <2> QED BY <2>2, <2>3, <2>4
<1>2. PICK after \in Input : after = Shifted(given, delta)
  BY <1>1
<1>3. /\ after.periodIncome = given.periodIncome
      /\ after.fixedCommitments = given.fixedCommitments
      /\ after.goalContributions = given.goalContributions
      /\ after.alreadySpent = given.alreadySpent + delta
      /\ after.days = given.days /\ after.known = given.known
      /\ after.spentToday = given.spentToday + delta
      /\ after.spentYesterday = given.spentYesterday
  BY <1>2 DEF Shifted, Input
<1>4. PICK free \in Int, all \in Int, spent \in Int, days \in Nat \ {0}, known \in BOOLEAN,
           yesterday \in Int :
        /\ free = given.periodIncome - given.fixedCommitments - given.goalContributions
                    - given.alreadySpent
        /\ all = given.alreadySpent /\ spent = given.spentToday /\ days = given.days
        /\ known = given.known /\ yesterday = given.spentYesterday
  BY DEF Input
<1>5. after.periodIncome - after.fixedCommitments - after.goalContributions
         - after.alreadySpent = free - delta
  BY <1>3, <1>4 DEF Input
<1> DEFINE morning == free + spent
           limit == Limit(morning, days, known, yesterday)
           carried == Carried(morning, days, known, yesterday)
           budget(f, a, s, m) ==
              LET cap == Limit(m, days, known, yesterday) IN
              BudgetOf(f, days, calculateDailyAllowance(f, days), a,
                       LimitOf(cap, s, cap - s, Carried(m, days, known, yesterday),
                               nextDaysAllowance(f, cap - s, days)))
<1>6. calculateAvailableBalance(given) = budget(free, all, spent, free + spent)
  BY <1>4, BudgetIs
<1>7. calculateAvailableBalance(after)
        = budget(free - delta, all + delta, spent + delta, (free - delta) + (spent + delta))
  <2>1. after.alreadySpent = all + delta /\ after.spentToday = spent + delta
        /\ after.days = days /\ after.known = known /\ after.spentYesterday = yesterday
    BY <1>3, <1>4
  <2> QED BY <1>5, <2>1, BudgetIs
<1>8. (free - delta) + (spent + delta) = morning
  OBVIOUS
<1>9. limit \in Int
  <2>1. PICK m \in Int : m = morning
    OBVIOUS
  <2>2. Limit(m, days, known, yesterday) \in Int
    BY LimitType
  <2> QED BY <2>1, <2>2
<1>10. limit - (spent + delta) = (limit - spent) - delta
  <2> HIDE DEF limit
  <2> QED BY <1>9
<1>11. shiftSpent(budget(free, all, spent, morning), delta)
         = BudgetOf(free - delta, days, calculateDailyAllowance(free - delta, days), all + delta,
                    LimitOf(limit, spent + delta, (limit - spent) - delta, carried,
                            nextDaysAllowance(free - delta, (limit - spent) - delta, days)))
  <2> HIDE DEF morning, limit, carried
  <2> QED BY ShiftIsWhole DEF limit, carried
<1>12. budget(free - delta, all + delta, spent + delta, morning)
         = BudgetOf(free - delta, days, calculateDailyAllowance(free - delta, days), all + delta,
                    LimitOf(limit, spent + delta, (limit - spent) - delta, carried,
                            nextDaysAllowance(free - delta, (limit - spent) - delta, days)))
  <2> HIDE DEF morning
  <2> QED BY <1>10
<1> HIDE DEF budget, limit, carried
<1>13. budget(free - delta, all + delta, spent + delta, (free - delta) + (spent + delta))
         = budget(free - delta, all + delta, spent + delta, morning)
  BY <1>8
<1> QED BY <1>2, <1>6, <1>7, <1>11, <1>12, <1>13

(* A step that changes, adds or removes row i and nothing else.            *)
OneRow(i) ==
    /\ UNCHANGED <<currentDay, active>>
    /\ DOMAIN rows' \ {i} = DOMAIN rows \ {i}
    /\ \A j \in DOMAIN rows \ {i} : rows'[j] = rows[j]

(* The amount row i has in a set of rows.                                  *)
AmountIn(ids, i) == IF i \in ids THEN rows[i].amount ELSE 0

(* The sum of a set of rows changes by the amount of that row.             *)
LEMMA OneRowSum ==
    ASSUME BudgetInv, BudgetInv', NEW i, OneRow(i),
           NEW ids \in SUBSET (DOMAIN rows), NEW now \in SUBSET (DOMAIN rows'),
           ids \ {i} = now \ {i}
    PROVE  /\ SumFunction([j \in now |-> rows'[j].amount])
                = SumOf(ids) - AmountIn(ids, i) + (IF i \in now THEN rows'[i].amount ELSE 0)
           /\ AmountIn(ids, i) \in Int /\ (IF i \in now THEN rows'[i].amount ELSE 0) \in Int
<1> DEFINE f == [j \in ids |-> rows[j].amount]
           g == [j \in now |-> rows'[j].amount]
<1>1. IsFiniteSet(ids) /\ f \in [ids -> Int]
  BY RowSums
<1>2. IsFiniteSet(now)
  <2>1. IsFiniteSet(DOMAIN rows')
    BY Constants, FS_Subset DEF BudgetInv, BudgetTypeOK
  <2> QED BY <2>1, FS_Subset
<1>3. g \in [now -> Int]
  BY DEF BudgetInv, BudgetTypeOK, Row
<1>4. \A j \in ids \ {i} : f[j] = g[j]
  BY DEF OneRow
<1>5. SumOf(ids) = SumFunction(f)
  BY DEF SumOf
<1>6. AmountIn(ids, i) = ValueAt(f, i) /\ (IF i \in now THEN rows'[i].amount ELSE 0) = ValueAt(g, i)
  BY DEF AmountIn, ValueAt
<1>7. ValueAt(f, i) \in Int /\ ValueAt(g, i) \in Int
  BY <1>1, <1>3 DEF ValueAt
<1>8. DOMAIN f = ids /\ DOMAIN g = now
  OBVIOUS
<1> HIDE DEF f, g
<1>9. SumFunction(g) = SumFunction(f) - ValueAt(f, i) + ValueAt(g, i)
  BY <1>1, <1>2, <1>3, <1>4, SumButOne
<1> QED BY <1>5, <1>6, <1>7, <1>9 DEF g

(* The open dates of an item whose rows are left alone.                    *)
LEMMA LeftAlone ==
    ASSUME NEW i, OneRow(i), NEW item \in Items,
           i \in DOMAIN rows => rows[i].item # item,
           i \in DOMAIN rows' => rows'[i].item # item
    PROVE  Current(item)' = Current(item) /\ Overdue(item)' = Overdue(item)
<1>1. RowsOf(item)' = RowsOf(item) /\ \A j \in RowsOf(item) : rows'[j] = rows[j]
  BY DEF RowsOf, OneRow
<1>2. currentDay' = currentDay
  BY DEF OneRow
<1>3. Closing(item)' = Closing(item) /\ \A j \in Closing(item) : rows'[j] = rows[j]
  BY <1>1 DEF Closing
<1>4. Answered(item)' = Answered(item)
  BY <1>3 DEF Answered
<1>5. \A date : Loose(item, date)' = Loose(item, date)
  BY <1>3 DEF Loose
<1>6. Unanswered(item)' = Unanswered(item)
  BY <1>2, <1>4 DEF Unanswered
<1>7. \A date : Room(item, date)' <=> Room(item, date)
  BY <1>5, <1>6 DEF Room
<1>8. OpenDates(item)' = OpenDates(item)
  BY <1>6, <1>7 DEF OpenDates
<1>9. Open(item) = OpenDates(item) /\ Open(item)' = OpenDates(item)'
  BY DEF Open, OpenDates, Unanswered, Room, ClosedBefore, Loose
<1>10. Open(item)' = Open(item) /\ CurrentPeriod' = CurrentPeriod
  BY <1>2, <1>8, <1>9 DEF CurrentPeriod
<1> QED BY <1>10 DEF Current, Overdue

(* An expense of today that is no item's.                                  *)
DailyNow(row) == row.item = None /\ row.status = "CONFIRMED" /\ row.date = currentDay

(* An input, field by field.                                               *)
InputOf(income, due, goal, spent, days, now, known, yesterday) ==
    [periodIncome |-> income, fixedCommitments |-> due, goalContributions |-> goal,
     alreadySpent |-> spent, days |-> days, spentToday |-> now, known |-> known,
     spentYesterday |-> yesterday]

(* Shifting an input by an expense of today.                               *)
LEMMA ShiftOfInput ==
    ASSUME NEW income, NEW due, NEW goal, NEW spent, NEW days, NEW now, NEW known, NEW yesterday,
           NEW delta
    PROVE  Shifted(InputOf(income, due, goal, spent, days, now, known, yesterday), delta)
             = InputOf(income, due, goal, spent + delta, days, now + delta, known, yesterday)
<1> DEFINE a == spent + delta
           b == now + delta
           all(g) == [g EXCEPT !.alreadySpent = a]
           spentNow(g) == [g EXCEPT !.spentToday = b]
           old == InputOf(income, due, goal, spent, days, now, known, yesterday)
<1>1. Shifted(old, delta) = spentNow(all(old))
  BY DEF Shifted, InputOf
<1> HIDE DEF a, b
<1>2. all(old) = InputOf(income, due, goal, a, days, now, known, yesterday)
  BY DEF InputOf
<1>3. spentNow(InputOf(income, due, goal, a, days, now, known, yesterday))
        = InputOf(income, due, goal, a, days, b, known, yesterday)
  BY DEF InputOf
<1> HIDE DEF all, spentNow
<1> QED BY <1>1, <1>2, <1>3 DEF a, b

(* Such an expense, added or taken back, is spent, and spent today.        *)
LEMMA DailyChange ==
    ASSUME BudgetInv, BudgetInv', NEW i, OneRow(i),
           i \in DOMAIN rows => DailyNow(rows[i]), i \in DOMAIN rows' => DailyNow(rows'[i]),
           NEW delta \in Int,
           delta = (IF i \in DOMAIN rows' THEN rows'[i].amount ELSE 0) - AmountIn(DOMAIN rows, i)
    PROVE  input' = Shifted(input, delta)
<1>1. /\ currentDay' = currentDay /\ active' = active
      /\ DOMAIN rows' \ {i} = DOMAIN rows \ {i}
      /\ \A j \in DOMAIN rows \ {i} : rows'[j] = rows[j]
      /\ CurrentPeriod' = CurrentPeriod
  BY DEF OneRow, CurrentPeriod
<1>2. CurrentPeriod.start =< currentDay /\ currentDay =< CurrentPeriod.end
  BY DayTypes, DayHasPeriod DEF BudgetInv, CurrentPeriod
<1>3. None \notin Items
  BY Constants
<1>4. /\ i \in DOMAIN rows => i \in ConfirmedInPeriod /\ i \notin Received /\ i \in Spent
      /\ i \in DOMAIN rows' => i \in ConfirmedInPeriod' /\ i \notin Received' /\ i \in Spent'
  BY <1>1, <1>2, <1>3 DEF DailyNow, ConfirmedInPeriod, Received, Spent, Items
<1>5. /\ Received \in SUBSET (DOMAIN rows) /\ Received' \in SUBSET (DOMAIN rows')
      /\ Spent \in SUBSET (DOMAIN rows) /\ Spent' \in SUBSET (DOMAIN rows')
  BY DEF Received, Spent, ConfirmedInPeriod
<1>6. /\ ConfirmedInPeriod \ {i} = ConfirmedInPeriod' \ {i}
      /\ Received \ {i} = Received' \ {i} /\ Spent \ {i} = Spent' \ {i}
  <2>1. ConfirmedInPeriod \ {i} = ConfirmedInPeriod' \ {i}
    BY <1>1 DEF ConfirmedInPeriod
  <2>2. Received \ {i} = Received' \ {i}
    BY <1>1, <2>1 DEF Received, ConfirmedInPeriod
  <2> QED BY <2>1, <2>2 DEF Spent
<1>7. i \notin Received /\ i \notin Received'
  BY <1>4, <1>5
<1>8. SumOf(Received)' = SumOf(Received)
  <2>1. SumFunction([j \in Received' |-> rows'[j].amount]) = SumOf(Received) - 0 + 0
    BY <1>5, <1>6, <1>7, OneRowSum DEF AmountIn
  <2>2. SumOf(Received) \in Int
    BY <1>5, RowSums
  <2> QED BY <2>1, <2>2 DEF SumOf
<1>9. \A item \in Items : Current(item)' = Current(item) /\ Overdue(item)' = Overdue(item)
  <2> TAKE item \in Items
  <2>1. /\ i \in DOMAIN rows => rows[i].item # item
        /\ i \in DOMAIN rows' => rows'[i].item # item
    BY <1>3 DEF DailyNow
  <2> QED BY <2>1, LeftAlone
<1>10. active \subseteq Items
  BY DEF BudgetInv, BudgetTypeOK
<1>11. periodIncome' = periodIncome
  <2>1. [item \in active' \cap Incomes |-> DueOn(item, Current(item)')]
          = [item \in active \cap Incomes |-> DueOn(item, Current(item))]
    BY <1>1, <1>9, <1>10
  <2> QED BY <1>8, <2>1 DEF periodIncome
<1>12. remainingCommitments' = remainingCommitments
  <2>1. [item \in active' \cap Payments |-> DueOn(item, Overdue(item)' \cup Current(item)')]
          = [item \in active \cap Payments |-> DueOn(item, Overdue(item) \cup Current(item))]
    BY <1>1, <1>9, <1>10
  <2> QED BY <2>1 DEF remainingCommitments
<1> DEFINE before == AmountIn(DOMAIN rows, i)
           after == IF i \in DOMAIN rows' THEN rows'[i].amount ELSE 0
           ofDay == {j \in Spent : rows[j].item = None /\ rows[j].date = currentDay}
           ofDay2 == {j \in Spent' : rows'[j].item = None /\ rows'[j].date = currentDay}
           yesterday == {j \in Spent : rows[j].item = None /\ rows[j].date = currentDay - 1}
           yesterday2 == {j \in Spent' : rows'[j].item = None /\ rows'[j].date = currentDay - 1}
<1>13. before \in Int /\ after \in Int /\ delta = after - before
  <2>1. DOMAIN rows \in SUBSET (DOMAIN rows) /\ DOMAIN rows' \in SUBSET (DOMAIN rows')
    OBVIOUS
  <2>2. PICK ids \in SUBSET (DOMAIN rows), now \in SUBSET (DOMAIN rows') :
          ids = DOMAIN rows /\ now = DOMAIN rows'
    BY <2>1
  <2>3. AmountIn(ids, i) \in Int /\ (IF i \in now THEN rows'[i].amount ELSE 0) \in Int
    BY <1>1, <2>2, OneRowSum
  <2> QED BY <2>2, <2>3
<1>14. SumOf(Spent)' = SumOf(Spent) + delta
  <2>1. /\ AmountIn(Spent, i) = before
        /\ (IF i \in Spent' THEN rows'[i].amount ELSE 0) = after
    BY <1>4, <1>5 DEF AmountIn
  <2>2. SumFunction([j \in Spent' |-> rows'[j].amount])
          = SumOf(Spent) - AmountIn(Spent, i) + (IF i \in Spent' THEN rows'[i].amount ELSE 0)
    BY <1>5, <1>6, OneRowSum
  <2>3. SumOf(Spent) \in Int
    BY <1>5, RowSums
  <2> HIDE DEF before, after
  <2>4. SumFunction([j \in Spent' |-> rows'[j].amount]) = SumOf(Spent) - before + after
    BY <2>1, <2>2
  <2>5. SumOf(Spent) - before + after = SumOf(Spent) + delta
    BY <1>13, <2>3
  <2> QED BY <2>4, <2>5 DEF SumOf
<1>15. SpentOn(currentDay)' = SpentOn(currentDay) + delta
  <2>1. /\ ofDay \in SUBSET (DOMAIN rows) /\ ofDay2 \in SUBSET (DOMAIN rows')
        /\ ofDay \ {i} = ofDay2 \ {i}
    BY <1>1, <1>5, <1>6
  <2>2. (i \in DOMAIN rows => i \in ofDay) /\ (i \in DOMAIN rows' => i \in ofDay2)
    BY <1>4 DEF DailyNow
  <2>3. AmountIn(ofDay, i) = before /\ (IF i \in ofDay2 THEN rows'[i].amount ELSE 0) = after
    <3> HIDE DEF ofDay, ofDay2
    <3> QED BY <2>1, <2>2 DEF AmountIn
  <2>4. SumOf(ofDay) = SpentOn(currentDay)
        /\ SumFunction([j \in ofDay2 |-> rows'[j].amount]) = SpentOn(currentDay)'
    BY <1>1 DEF SpentOn, SumOf
  <2> HIDE DEF ofDay, ofDay2, before, after
  <2>5. SumFunction([j \in ofDay2 |-> rows'[j].amount])
          = SumOf(ofDay) - AmountIn(ofDay, i) + (IF i \in ofDay2 THEN rows'[i].amount ELSE 0)
    BY <2>1, OneRowSum
  <2>6. SumOf(ofDay) \in Int
    BY <2>1, RowSums
  <2>7. SumOf(ofDay) - before + after = SumOf(ofDay) + delta
    BY <1>13, <2>6
  <2> QED BY <2>3, <2>4, <2>5, <2>7
<1>16. SpentOn(currentDay - 1)' = SpentOn(currentDay - 1)
  <2>0. currentDay \in Int /\ currentDay # currentDay - 1
    BY DayTypes DEF BudgetInv
  <2>1. /\ yesterday \in SUBSET (DOMAIN rows) /\ yesterday2 \in SUBSET (DOMAIN rows')
        /\ yesterday \ {i} = yesterday2 \ {i}
    BY <1>1, <1>5, <1>6
  <2>2. i \notin yesterday /\ i \notin yesterday2
    BY <1>5, <2>0 DEF DailyNow
  <2>4. SumOf(yesterday) = SpentOn(currentDay - 1)
        /\ SumFunction([j \in yesterday2 |-> rows'[j].amount]) = SpentOn(currentDay - 1)'
    BY <1>1 DEF SpentOn, SumOf
  <2> HIDE DEF yesterday, yesterday2
  <2>5. SumFunction([j \in yesterday2 |-> rows'[j].amount]) = SumOf(yesterday) - 0 + 0
    BY <2>1, <2>2, OneRowSum DEF AmountIn
  <2>6. SumOf(yesterday) \in Int
    BY <2>1, RowSums
  <2> QED BY <2>4, <2>5, <2>6
<1>17. input = assembleBudgetInput /\ input' = assembleBudgetInput'
  BY DEF BudgetInv
<1>18. calculateDaysRemaining' = calculateDaysRemaining
  BY <1>1 DEF calculateDaysRemaining
<1> DEFINE goal == calculateGoalContribution(GoalNeeds,
                                             periodsUntil(currentDay, GoalDate, StartDay))
           known == CurrentPeriod.start < currentDay /\ FirstDay < currentDay
           given(all, now) == InputOf(periodIncome, remainingCommitments, goal, all,
                                      calculateDaysRemaining, now, known, SpentOn(currentDay - 1))
<1>19. input = given(SumOf(Spent), SpentOn(currentDay))
  BY <1>17 DEF assembleBudgetInput, InputOf
<1>20. input' = given(SumOf(Spent) + delta, SpentOn(currentDay) + delta)
  BY <1>1, <1>11, <1>12, <1>14, <1>15, <1>16, <1>17, <1>18 DEF assembleBudgetInput, InputOf
<1> QED BY <1>19, <1>20, ShiftOfInput

(* Expenses of today come and go one at a time.                            *)
LEMMA OneExpense ==
    ASSUME BudgetInv, [BudgetNext]_budgetVars
    PROVE  /\ \A i \in DOMAIN rows' \ DOMAIN rows :
                 OfToday(rows'[i]) => OneRow(i) /\ DailyNow(rows'[i])
           /\ \A i \in DOMAIN rows \ DOMAIN rows' :
                 OfToday(rows[i]) => OneRow(i) /\ DailyNow(rows[i])
<1> DEFINE Added == \A i \in DOMAIN rows' \ DOMAIN rows :
                       OfToday(rows'[i]) => OneRow(i) /\ DailyNow(rows'[i])
           Taken == \A i \in DOMAIN rows \ DOMAIN rows' :
                       OfToday(rows[i]) => OneRow(i) /\ DailyNow(rows[i])
<1> SUFFICES Added /\ Taken
  OBVIOUS
<1>1. ASSUME rows' = rows PROVE Added /\ Taken
  BY <1>1
<1>2. CASE UNCHANGED budgetVars
  BY <1>1, <1>2 DEF budgetVars
<1> SUFFICES ASSUME Step PROVE Added /\ Taken
  BY <1>2 DEF BudgetNext
<1>3. ASSUME NEW item \in Items \cup {None}, NEW amount, NEW date, Add(item, amount, date)
      PROVE  Added /\ Taken
  <2>1. PICK k \in FreeIds : Store(k, Confirmed(item, amount, date))
    BY <1>3 DEF Add
  <2>2. DOMAIN rows' = DOMAIN rows \cup {k} /\ rows'[k] = Confirmed(item, amount, date)
        /\ \A j \in DOMAIN rows : j # k => rows'[j] = rows[j]
    BY <2>1 DEF Store
  <2>3. OneRow(k)
    BY <1>3, <2>2 DEF OneRow, Add
  <2>4. rows'[k].status = "CONFIRMED"
    BY <2>2 DEF Confirmed
  <2> QED BY <2>2, <2>3, <2>4 DEF OfToday, DailyNow
<1>4. ASSUME NEW i \in RowIds, RemoveRow(i) PROVE Added /\ Taken
  <2>1. /\ DOMAIN rows' = DOMAIN rows \ {i} /\ \A j \in DOMAIN rows' : rows'[j] = rows[j]
        /\ UNCHANGED <<currentDay, active>> /\ i \in DOMAIN rows
    BY <1>4 DEF RemoveRow, Restrict
  <2>2. OneRow(i)
    BY <2>1 DEF OneRow
  <2>3. rows[i].item = None => rows[i].status = "CONFIRMED"
    BY <2>1 DEF BudgetInv, DailyIsPast
  <2> QED BY <2>1, <2>2, <2>3 DEF OfToday, DailyNow
<1>5. ASSUME NEW item \in Items, NEW answer \in {"CONFIRMED", "NOT_YET", "SKIPPED"},
             NEW occ, NEW amount, Answer(item, occ, answer, amount)
      PROVE  Added /\ Taken
  <2>1. PICK k : Store(k, toAnswer(item, occ, answer, amount))
    BY <1>5 DEF Answer
  <2>2. DOMAIN rows' = DOMAIN rows \cup {k} /\ rows'[k].item = item
    BY <2>1 DEF Store, toAnswer
  <2>3. item # None
    BY Constants
  <2> QED BY <2>2, <2>3 DEF OfToday
<1>6. ASSUME NEW item \in Items, SetActive(item) PROVE Added /\ Taken
  BY <1>1, <1>6 DEF SetActive
<1>7. ASSUME Midnight PROVE Added /\ Taken
  BY <1>1, <1>7 DEF Midnight
<1> HIDE DEF Added, Taken
<1> QED BY <1>3, <1>4, <1>5, <1>6, <1>7 DEF Step

(* A goal is never asked for more than is missing from it.                 *)
LEMMA ShareIsCapped ==
    ASSUME NEW needed \in Int, NEW periods \in Int
    PROVE  calculateGoalContribution(needed, periods) =< AtLeastZero(needed)
<1>1. CASE needed > 0 /\ periods > 0
  <2>1. PICK n \in Int, p \in Nat \ {0} : n = -needed /\ p = periods
    BY <1>1
  <2>2. p * n =< n
    BY <1>1, <2>1, SMTT(30)
  <2>3. n =< n \div p /\ n \div p \in Int
    BY <2>1, <2>2, FloorAtLeast, FloorBounds
  <2>4. calculateGoalContribution(needed, periods) = -(n \div p)
    BY <1>1, <2>1 DEF calculateGoalContribution, Ceiling
  <2> QED BY <1>1, <2>1, <2>3, <2>4 DEF AtLeastZero
<1>2. CASE ~(needed > 0 /\ periods > 0)
  BY <1>2 DEF calculateGoalContribution, AtLeastZero
<1> QED BY <1>1, <1>2

(* A delay is a whole number of days.                                      *)
LEMMA DelayType ==
    ASSUME NEW needed \in Int, NEW contribution \in Int, NEW deficit \in Int, NEW days \in Int
    PROVE  calculateGoalDelayDays(needed, contribution, deficit, days) \in Int
<1> DEFINE affected == IF deficit < contribution THEN deficit ELSE contribution
<1>1. affected \in Int
  OBVIOUS
<1> HIDE DEF affected
<1>2. CASE needed > 0
  <2>1. PICK n \in Int, d \in Nat \ {0} : n = -(affected * days) /\ d = needed
    BY <1>1, <1>2
  <2>2. n \div d \in Int
    BY FloorBounds
  <2>3. Ceiling(affected * days, needed) \in Int
    BY <2>1, <2>2 DEF Ceiling
  <2> QED BY <2>3 DEF calculateGoalDelayDays, affected
<1>3. CASE ~(needed > 0)
  BY <1>3 DEF calculateGoalDelayDays
<1> QED BY <1>2, <1>3

(* What is foretold of a purchase, next to a dearer one.                   *)
Foretells(given, amount, dearer, needed, contribution, days) ==
    LET summary == calculateAvailableBalance(given)
        this == simulatePurchase(summary, amount, needed, contribution, days)
        that == simulatePurchase(summary, dearer, needed, contribution, days)
        shown == shiftSpent(summary, amount)
    IN  /\ this.remainingAfter = shown.availableBalance
        /\ this.dailyAllowanceAfter = shown.dailyAllowance
        /\ that.dailyAllowanceAfter =< this.dailyAllowanceAfter
        /\ this.delayDays =< that.delayDays /\ that.delayDays =< AtLeastZero(days)
        /\ this.riskLevel = "over" => that.riskLevel = "over"
        /\ this.riskLevel = "tight" => that.riskLevel # "safe"

(* SimulationForetells, as one predicate.                                  *)
LEMMA PurchaseForetold ==
    ASSUME NEW given \in Input, NEW amount \in Nat, NEW dearer \in Nat, amount =< dearer,
           NEW needed \in Int, NEW contribution \in Int, contribution =< AtLeastZero(needed),
           NEW days \in Int
    PROVE  Foretells(given, amount, dearer, needed, contribution, days)
BY SimulationForetells DEF Foretells

(* What OptimisticIsExact says of a purchase of the amount.                  *)
ForetoldRight(amount) ==
    LET foretold == simulate(amount) IN
    /\ Summary' = shiftSpent(Summary, amount)
    /\ foretold.remainingAfter = Summary'.availableBalance
    /\ foretold.dailyAllowanceAfter = Summary'.dailyAllowance
    /\ \A dearer \in Amounts :
          dearer > amount =>
              /\ Harder(simulate(dearer).riskLevel, foretold.riskLevel)
              /\ simulate(dearer).delayDays >= foretold.delayDays

(* When the input is shifted by an expense, so is the budget ...           *)
LEMMA SummaryShifts ==
    ASSUME InputOK, NEW delta \in Int, input' = Shifted(input, delta)
    PROVE  Summary' = shiftSpent(Summary, delta)
<1>1. Summary' = calculateAvailableBalance(Shifted(input, delta))
  BY DEF Summary
<1>2. PICK given \in Input : given = input
  BY DEF InputOK
<1>3. shiftSpent(calculateAvailableBalance(given), delta)
        = calculateAvailableBalance(Shifted(given, delta))
  BY WholeShift
<1> QED BY <1>1, <1>2, <1>3 DEF Summary

(* ... and the simulator foretold it.                                      *)
LEMMA PurchaseIsForetold ==
    ASSUME BudgetInv, InputOK, NEW amount \in Nat, input' = Shifted(input, amount)
    PROVE  ForetoldRight(amount)
<1>1. Summary' = shiftSpent(Summary, amount)
  BY SummaryShifts
<1>2. /\ GoalNeeds \in Int /\ GoalDate \in Int /\ currentDay \in Int /\ Amounts \subseteq Nat
      /\ currentDay \in Lasts
  BY Constants, DayTypes DEF BudgetInv
<1>3. PICK share \in Int : share = input.goalContributions /\ share =< AtLeastZero(GoalNeeds)
  <2>1. PICK periods \in Int : periods = periodsUntil(currentDay, GoalDate, StartDay)
    BY <1>2, GoalShare
  <2>2. input.goalContributions = calculateGoalContribution(GoalNeeds, periods)
    BY <2>1 DEF BudgetInv, assembleBudgetInput
  <2>3. input.goalContributions \in Int
    BY DEF InputOK, Input
  <2> QED BY <1>2, <2>2, <2>3, ShareIsCapped
<1>4. PICK days \in Int : days = GoalDate - currentDay
  BY <1>2
<1>5. PICK given \in Input : given = input
  BY DEF InputOK
<1> DEFINE this(price) == simulatePurchase(calculateAvailableBalance(given), price, GoalNeeds,
                                           share, days)
<1>6. \A price : simulate(price) = this(price)
  BY <1>3, <1>4, <1>5 DEF simulate, Summary
<1>7. ASSUME NEW dearer \in Nat, dearer >= amount
      PROVE  /\ this(amount).remainingAfter = Summary'.availableBalance
             /\ this(amount).dailyAllowanceAfter = Summary'.dailyAllowance
             /\ this(amount).delayDays =< this(dearer).delayDays
             /\ Harder(this(dearer).riskLevel, this(amount).riskLevel)
  <2>1. Foretells(given, amount, dearer, GoalNeeds, share, days)
    BY <1>2, <1>3, <1>7, PurchaseForetold
  <2> QED BY <1>1, <1>5, <2>1 DEF Foretells, Harder, Summary
<1>8. ASSUME NEW price \in Nat PROVE this(price).delayDays \in Int
  <2>1. PICK deficit :
          deficit = AtLeastZero(-(calculateAvailableBalance(given).availableBalance - price))
    OBVIOUS
  <2>2. this(price).delayDays = calculateGoalDelayDays(GoalNeeds, share, deficit, days)
    BY <2>1 DEF simulatePurchase
  <2>3. deficit \in Int
    <3>1. calculateAvailableBalance(given).availableBalance \in Int
      BY DEF calculateAvailableBalance, Input
    <3> QED BY <2>1, <3>1 DEF AtLeastZero
  <2> QED BY <1>2, <2>2, <2>3, DelayType
<1> HIDE DEF this
<1>9. /\ this(amount).remainingAfter = Summary'.availableBalance
      /\ this(amount).dailyAllowanceAfter = Summary'.dailyAllowance
  BY <1>7
<1>10. ASSUME NEW dearer \in Amounts, dearer > amount
       PROVE  /\ Harder(this(dearer).riskLevel, this(amount).riskLevel)
              /\ this(dearer).delayDays >= this(amount).delayDays
  <2>1. dearer \in Nat /\ dearer >= amount
    BY <1>2, <1>10
  <2> QED BY <1>7, <1>8, <2>1
<1> QED BY <1>1, <1>6, <1>9, <1>10 DEF ForetoldRight

(* Both halves of OptimisticIsExact, of one step.                          *)
LEMMA ExpensesAreExact ==
    ASSUME BudgetInv, BudgetInv', InputOK, [BudgetNext]_budgetVars
    PROVE  /\ \A i \in DOMAIN rows' \ DOMAIN rows :
                 OfToday(rows'[i]) => ForetoldRight(rows'[i].amount)
           /\ \A i \in DOMAIN rows \ DOMAIN rows' :
                 OfToday(rows[i]) => Summary' = shiftSpent(Summary, -rows[i].amount)
<1>1. ASSUME NEW i \in DOMAIN rows' \ DOMAIN rows, OfToday(rows'[i])
      PROVE  ForetoldRight(rows'[i].amount)
  <2>1. OneRow(i) /\ DailyNow(rows'[i])
    BY <1>1, OneExpense
  <2>2. PICK amount \in Nat : amount = rows'[i].amount
    BY DEF BudgetInv, BudgetTypeOK, Row
  <2>3. amount = (IF i \in DOMAIN rows' THEN rows'[i].amount ELSE 0) - AmountIn(DOMAIN rows, i)
    BY <2>2 DEF AmountIn
  <2>4. input' = Shifted(input, amount)
    BY <2>1, <2>2, <2>3, DailyChange
  <2> QED BY <2>2, <2>4, PurchaseIsForetold
<1>2. ASSUME NEW i \in DOMAIN rows \ DOMAIN rows', OfToday(rows[i])
      PROVE  Summary' = shiftSpent(Summary, -rows[i].amount)
  <2>1. OneRow(i) /\ DailyNow(rows[i])
    BY <1>2, OneExpense
  <2>2. PICK amount \in Nat, delta \in Int : amount = rows[i].amount /\ delta = -amount
    BY DEF BudgetInv, BudgetTypeOK, Row
  <2>3. delta = (IF i \in DOMAIN rows' THEN rows'[i].amount ELSE 0) - AmountIn(DOMAIN rows, i)
    BY <2>2 DEF AmountIn
  <2>4. input' = Shifted(input, delta)
    BY <2>1, <2>3, DailyChange
  <2> QED BY <2>2, <2>4, SummaryShifts
<1> QED BY <1>1, <1>2

(* The engine is always given an input of the theorems on Balance.         *)
LEMMA InputsAreRight == BudgetSpec => []InputOK
<1>1. BudgetInv => InputOK
  BY InputTypes DEF InputOK
<1> QED BY <1>1, DaysInvariance, PTL

(* OptimisticIsExact: what the app makes of the budget on its screen when  *)
(* an expense of today comes or goes is what the server computes from all  *)
(* rows, and what the simulator foretold (apply-expense.ts:9-11).          *)
THEOREM OptimisticExact == BudgetSpec => OptimisticIsExact
<1> DEFINE Exact == /\ \A i \in DOMAIN rows' \ DOMAIN rows :
                          OfToday(rows'[i]) =>
                              LET foretold == simulate(rows'[i].amount) IN
                              /\ Summary' = shiftSpent(Summary, rows'[i].amount)
                              /\ foretold.remainingAfter = Summary'.availableBalance
                              /\ foretold.dailyAllowanceAfter = Summary'.dailyAllowance
                              /\ \A dearer \in Amounts :
                                    dearer > rows'[i].amount =>
                                        /\ Harder(simulate(dearer).riskLevel, foretold.riskLevel)
                                        /\ simulate(dearer).delayDays >= foretold.delayDays
                    /\ \A i \in DOMAIN rows \ DOMAIN rows' :
                          OfToday(rows[i]) => Summary' = shiftSpent(Summary, -rows[i].amount)
<1>1. BudgetInv /\ BudgetInv' /\ InputOK /\ [BudgetNext]_budgetVars => Exact
  BY ExpensesAreExact DEF ForetoldRight
<1> HIDE DEF Exact
<1>2. BudgetInv /\ BudgetInv' /\ InputOK /\ [BudgetNext]_budgetVars => [Exact]_budgetVars
  BY <1>1
<1> QED BY <1>2, InputsAreRight, DaysInvariance, PTL DEF OptimisticIsExact, BudgetSpec, Exact

-----------------------------------------------------------------------------
(* Row i is an answer for an open date: it is new, or was not yet answered. *)
AnswersOpen(i) ==
    /\ OneRow(i) /\ i \in DOMAIN rows' /\ rows'[i] \in Row
    /\ AskedAbout(rows'[i].item, rows'[i].occ)
    /\ i \in DOMAIN rows => rows[i].item = rows'[i].item /\ rows[i].status = "PENDING"
    /\ rows'[i].status # "PENDING" => rows'[i].date = currentDay
    /\ rows'[i].item \in Incomes => rows'[i].status # "DECLINED"

(* Only an answer changes a row that AskedAbout is about.                  *)
LEMMA AnswersComeSingly ==
    ASSUME BudgetInv, BudgetInv', [BudgetNext]_budgetVars, NEW i \in DOMAIN rows',
           i \in DOMAIN rows => rows'[i] # rows[i], AskedAbout(rows'[i].item, rows'[i].occ)
    PROVE  AnswersOpen(i)
<1>1. rows' # rows
  OBVIOUS
<1>2. BudgetNext
  BY <1>1 DEF budgetVars
<1>3. ASSUME NEW item \in Items \cup {None}, NEW amount, NEW date, Add(item, amount, date)
      PROVE  FALSE
  <2>1. PICK k \in FreeIds : Store(k, Confirmed(item, amount, date))
    BY <1>3 DEF Add
  <2>2. /\ DOMAIN rows' = DOMAIN rows \cup {k} /\ rows'[k] = Confirmed(item, amount, date)
        /\ \A j \in DOMAIN rows : j # k => rows'[j] = rows[j]
    BY <2>1 DEF Store
  <2>3. i = k
    BY <2>2
  <2> QED BY <2>2, <2>3 DEF AskedAbout, Confirmed
<1>4. ASSUME NEW k \in RowIds, RemoveRow(k) PROVE FALSE
  BY <1>4 DEF RemoveRow, Restrict
<1>5. ASSUME NEW item \in Items, SetActive(item) PROVE FALSE
  BY <1>1, <1>5 DEF SetActive
<1>6. ASSUME Midnight PROVE FALSE
  BY <1>1, <1>6 DEF Midnight
<1>7. PICK item \in Items, answer \in {"CONFIRMED", "NOT_YET", "SKIPPED"} :
         \E occ \in DatesOf[item][currentDay], amount \in Amounts \cup {ExpectedOf[item]} :
            Answer(item, occ, answer, amount)
  BY <1>2, <1>3, <1>4, <1>5, <1>6 DEF BudgetNext, Step
<1>8. PICK occ \in DatesOf[item][currentDay], amount \in Amounts \cup {ExpectedOf[item]} :
         Answer(item, occ, answer, amount)
  BY <1>7
<1>9. PICK k \in IF RowsFor(item, occ) = {} THEN FreeIds ELSE RowsFor(item, occ) :
         Store(k, toAnswer(item, occ, answer, amount))
  BY <1>8 DEF Answer
<1>10. /\ DOMAIN rows' = DOMAIN rows \cup {k} /\ rows'[k] = toAnswer(item, occ, answer, amount)
       /\ \A j \in DOMAIN rows : j # k => rows'[j] = rows[j]
  BY <1>9 DEF Store
<1>11. i = k
  BY <1>10
<1>12. OneRow(i)
  BY <1>8, <1>10, <1>11 DEF OneRow, Answer
<1>13. rows'[i].item = item /\ rows'[i].occ = occ
  BY <1>10, <1>11 DEF toAnswer
<1>14. rows'[i].status # "PENDING" => rows'[i].date = currentDay
  BY <1>10, <1>11 DEF toAnswer
<1>15. rows'[i].item \in Incomes => rows'[i].status # "DECLINED"
  BY <1>8, <1>10, <1>11, <1>13 DEF toAnswer, Answer
<1>16. rows'[i] \in Row
  BY DEF BudgetInv, BudgetTypeOK
<1>17. ASSUME i \in DOMAIN rows PROVE rows[i].item = rows'[i].item /\ rows[i].status = "PENDING"
  <2>1. i \in RowsFor(item, occ)
    BY <1>9, <1>11, <1>17 DEF FreeIds
  <2>2. rows[i].item = item /\ rows[i].occ = occ /\ i \in RowsOf(item)
    BY <2>1 DEF RowsFor, RowsOf
  <2>3. occ \in Open(item)
    BY <1>13 DEF AskedAbout, Overdue, Current
  <2>4. occ \notin Answered(item)
    BY <2>3 DEF Open
  <2>5. i \notin Closing(item)
    BY <2>2, <2>4 DEF Answered
  <2> QED BY <1>13, <2>2, <2>5 DEF Closing
<1> QED BY <1>12, <1>13, <1>14, <1>15, <1>16, <1>17 DEF AnswersOpen

(* Unless the answer is "not yet", the date it is for is open no longer,   *)
(* and every other date is as open as before.                              *)
LEMMA ClosesOne ==
    ASSUME BudgetInv, BudgetInv', OpenIs, OpenIs', NEW i, AnswersOpen(i),
           rows'[i].status # "PENDING",
           NEW item, item = rows'[i].item, NEW occ, occ = rows'[i].occ
    PROVE  /\ Current(item)' = Current(item) \ {occ}
           /\ Overdue(item)' = Overdue(item) \ {occ}
<1>1. item = rows'[i].item /\ occ = rows'[i].occ
  OBVIOUS
<1>2. /\ item \in Items /\ occ # None /\ occ \in Open(item)
      /\ currentDay' = currentDay
  BY <1>1 DEF AnswersOpen, AskedAbout, BudgetInv, BudgetTypeOK, OneRow, Overdue, Current
<1>3. Closing(item)' = Closing(item) \cup {i} /\ i \notin Closing(item)
      /\ \A j \in Closing(item) : rows'[j] = rows[j]
  BY <1>1 DEF AnswersOpen, OneRow, Closing, RowsOf
<1>4. Answered(item)' = Answered(item) \cup {occ}
  BY <1>1, <1>3 DEF Answered
<1>5. \A date : Loose(item, date)' = Loose(item, date)
  BY <1>1, <1>2, <1>3 DEF Loose
<1>6. Unanswered(item)' = Unanswered(item) \ {occ}
  BY <1>2, <1>4 DEF Unanswered
<1>7. /\ Open(item) = OpenDates(item) /\ Open(item)' = OpenDates(item)'
      /\ Unanswered(item) \subseteq Dates
  BY <1>2 DEF OpenIs
<1>8. occ \in Unanswered(item) /\ Room(item, occ)
  BY <1>2, <1>7 DEF OpenDates
<1>9. ASSUME NEW date \in Unanswered(item) \ {occ}
      PROVE  Room(item, date)' <=> Room(item, date)
  <2> DEFINE before(d) == ClosedBefore(Unanswered(item), d)
             now == ClosedBefore(Unanswered(item)', date)
  <2>1. /\ IsFiniteSet(before(date)) /\ IsFiniteSet(now)
        /\ Cardinality(before(date)) \in Nat /\ Cardinality(now) \in Nat
        /\ Cardinality(before(occ)) \in Nat /\ Cardinality(Loose(item, date)) \in Nat
    BY <1>2 DEF OpenIs
  <2>2. now = before(date) \ {occ}
    BY <1>6 DEF ClosedBefore
  <2>3. Room(item, date) <=> Cardinality(before(date)) >= Cardinality(Loose(item, date))
    BY DEF Room
  <2>4. Room(item, date)' <=> Cardinality(now) >= Cardinality(Loose(item, date))
    BY <1>5 DEF Room
  <2>5. CASE occ \notin before(date)
    <3>1. now = before(date)
      BY <2>2, <2>5
    <3> QED BY <2>3, <2>4, <3>1
  <2>6. CASE occ \in before(date)
    <3>1. occ < date /\ PeriodOf[occ] = PeriodOf[date]
      BY <2>6 DEF ClosedBefore
    <3>2. Loose(item, occ) = Loose(item, date)
      BY <3>1 DEF Loose
    <3>3. Cardinality(before(occ)) >= Cardinality(Loose(item, date))
      BY <1>8, <3>2 DEF Room
    <3>4. before(occ) \subseteq now
      <4>1. \A e \in Dates : e < occ => e < date /\ e # occ
        <5>1. \A e \in Dates : e \in Int
          BY Intervals
        <5>2. occ \in Int /\ date \in Int
          BY <1>7, <1>8, <5>1
        <5> QED BY <3>1, <5>1, <5>2
      <4> QED BY <1>6, <1>7, <3>1, <4>1 DEF ClosedBefore
    <3>5. now \subseteq before(date)
      BY <2>2
    <3> HIDE DEF before, now
    <3>6. Cardinality(before(occ)) =< Cardinality(now)
      BY <2>1, <3>4, FS_Subset
    <3>7. Cardinality(now) =< Cardinality(before(date))
      BY <2>1, <3>5, FS_Subset
    <3>8. Cardinality(now) >= Cardinality(Loose(item, date))
      BY <2>1, <3>3, <3>6
    <3>9. Cardinality(before(date)) >= Cardinality(Loose(item, date))
      BY <2>1, <3>7, <3>8
    <3> QED BY <2>3, <2>4, <3>8, <3>9
  <2> QED BY <2>5, <2>6
<1>10. OpenDates(item)' = OpenDates(item) \ {occ}
  BY <1>6, <1>9 DEF OpenDates
<1>11. Open(item)' = Open(item) \ {occ} /\ CurrentPeriod' = CurrentPeriod
  BY <1>2, <1>7, <1>10 DEF CurrentPeriod
<1> QED BY <1>1, <1>11 DEF Current, Overdue

(* "Not yet" leaves them all open.                                         *)
LEMMA ClosesNone ==
    ASSUME OpenIs, OpenIs', NEW i, AnswersOpen(i), rows'[i].status = "PENDING",
           NEW item \in Items
    PROVE  Current(item)' = Current(item) /\ Overdue(item)' = Overdue(item)
<1>1. currentDay' = currentDay
  BY DEF AnswersOpen, OneRow
<1>2. Closing(item)' = Closing(item) /\ \A j \in Closing(item) : rows'[j] = rows[j]
  BY DEF AnswersOpen, OneRow, Closing, RowsOf
<1>3. Answered(item)' = Answered(item)
  BY <1>2 DEF Answered
<1>4. \A date : Loose(item, date)' = Loose(item, date)
  BY <1>2 DEF Loose
<1>5. Unanswered(item)' = Unanswered(item)
  BY <1>1, <1>3 DEF Unanswered
<1>6. \A date : Room(item, date)' <=> Room(item, date)
  BY <1>4, <1>5 DEF Room
<1>7. OpenDates(item)' = OpenDates(item)
  BY <1>5, <1>6 DEF OpenDates
<1>8. Open(item)' = Open(item) /\ CurrentPeriod' = CurrentPeriod
  BY <1>1, <1>7 DEF CurrentPeriod, OpenIs
<1> QED BY <1>8 DEF Current, Overdue

IncomeDue == SumFunction([item \in active \cap Incomes |-> DueOn(item, Current(item))])

(* When the open dates of one item change, what is due changes with them.    *)
LEMMA DueChange ==
    ASSUME BudgetInv, BudgetInv', active' = active, NEW x \in active,
           \A item \in Items \ {x} :
              Current(item)' = Current(item) /\ Overdue(item)' = Overdue(item)
    PROVE  /\ remainingCommitments' = remainingCommitments
                + (IF x \in Payments
                   THEN DueOn(x, (Overdue(x) \cup Current(x))') - DueOn(x, Overdue(x) \cup Current(x))
                   ELSE 0)
           /\ IncomeDue' = IncomeDue
                + (IF x \in Incomes THEN DueOn(x, Current(x)') - DueOn(x, Current(x)) ELSE 0)
<1> DEFINE D == active \cap Payments
           E == active \cap Incomes
           f == [item \in D |-> DueOn(item, Overdue(item) \cup Current(item))]
           g == [item \in D |-> DueOn(item, Overdue(item)' \cup Current(item)')]
           h == [item \in E |-> DueOn(item, Current(item))]
           k == [item \in E |-> DueOn(item, Current(item)')]
<1>1. active \subseteq Items
  BY DEF BudgetInv, BudgetTypeOK
<1>2. IsFiniteSet(D) /\ IsFiniteSet(E) /\ f \in [D -> Int] /\ h \in [E -> Int]
  BY DueSums
<1>3. \A item \in Items : /\ IsFiniteSet(Current(item)')
                          /\ IsFiniteSet(Overdue(item)' \cup Current(item)')
  <2>1. BudgetInv' => OpenIs'
    BY OpenTypes, PTL
  <2> QED BY <2>1, FS_Union DEF OpenIs
<1>4. g \in [D -> Int]
  <2>1. \A item \in D : item \in Items /\ DueOn(item, Overdue(item)' \cup Current(item)') \in Int
    BY <1>1, <1>3, DueType
  <2> QED BY <2>1
<1>5. k \in [E -> Int]
  <2>1. \A item \in E : item \in Items /\ DueOn(item, Current(item)') \in Int
    BY <1>1, <1>3, DueType
  <2> QED BY <2>1
<1>6. /\ remainingCommitments = SumFunction(f) /\ remainingCommitments' = SumFunction(g)
      /\ IncomeDue = SumFunction(h) /\ IncomeDue' = SumFunction(k)
  <2>1. remainingCommitments = SumFunction(f) /\ IncomeDue = SumFunction(h)
    BY DEF remainingCommitments, IncomeDue
  <2>2. remainingCommitments' = SumFunction(g)
    BY DEF remainingCommitments, DueOn
  <2>3. IncomeDue' = SumFunction(k)
    BY DEF IncomeDue, DueOn
  <2> QED BY <2>1, <2>2, <2>3
<1>7. /\ \A item \in D \ {x} : f[item] = g[item]
      /\ \A item \in E \ {x} : h[item] = k[item]
  BY <1>1
<1>8. /\ x \in Payments => ValueAt(f, x) = DueOn(x, Overdue(x) \cup Current(x))
                             /\ ValueAt(g, x) = DueOn(x, (Overdue(x) \cup Current(x))')
      /\ x \notin Payments => ValueAt(f, x) = 0 /\ ValueAt(g, x) = 0
      /\ x \in Incomes => ValueAt(h, x) = DueOn(x, Current(x)) /\ ValueAt(k, x) = DueOn(x, Current(x)')
      /\ x \notin Incomes => ValueAt(h, x) = 0 /\ ValueAt(k, x) = 0
  BY DEF ValueAt
<1>9. /\ ValueAt(f, x) \in Int /\ ValueAt(g, x) \in Int /\ ValueAt(h, x) \in Int
      /\ ValueAt(k, x) \in Int
  BY <1>2, <1>4, <1>5 DEF ValueAt
<1> HIDE DEF D, E, f, g, h, k
<1>10. SumFunction(g) = SumFunction(f) - ValueAt(f, x) + ValueAt(g, x)
  BY <1>2, <1>4, <1>7, SumButOne
<1>11. SumFunction(k) = SumFunction(h) - ValueAt(h, x) + ValueAt(k, x)
  BY <1>2, <1>5, <1>7, SumButOne
<1>12. SumFunction(f) \in Int /\ SumFunction(h) \in Int
  BY <1>2, SumType
<1>13. SumFunction(g) = SumFunction(f) + (ValueAt(g, x) - ValueAt(f, x))
       /\ SumFunction(k) = SumFunction(h) + (ValueAt(k, x) - ValueAt(h, x))
  BY <1>9, <1>10, <1>11, <1>12
<1>14. remainingCommitments' = remainingCommitments
         + (IF x \in Payments
            THEN DueOn(x, (Overdue(x) \cup Current(x))') - DueOn(x, Overdue(x) \cup Current(x))
            ELSE 0)
  BY <1>6, <1>8, <1>13
<1>15. IncomeDue' = IncomeDue
         + (IF x \in Incomes THEN DueOn(x, Current(x)') - DueOn(x, Current(x)) ELSE 0)
  BY <1>6, <1>8, <1>13
<1> QED BY <1>14, <1>15

(* One date less is one expected amount less.                                *)
LEMMA DueLessOne ==
    ASSUME NEW item \in Items, NEW dates, IsFiniteSet(dates), NEW occ \in dates
    PROVE  /\ DueOn(item, dates \ {occ}) = DueOn(item, dates) - ExpectedOf[item]
           /\ DueOn(item, dates) \in Int
<1>1. PICK e \in Nat, c \in Int : e = ExpectedOf[item] /\ c = Cardinality(dates)
  BY ItemTypes, FS_CardinalityType
<1>2. Cardinality(dates \ {occ}) = c - 1
  BY <1>1, FS_RemoveElement
<1>3. e * (c - 1) = e * c - e
  BY SMTT(30)
<1>4. e * c \in Int
  OBVIOUS
<1> QED BY <1>1, <1>2, <1>3, <1>4 DEF DueOn

(* What an answer changes in the rows of the period.                         *)
LEMMA AnswerInPeriod ==
    ASSUME BudgetInv, BudgetInv', NEW i, AnswersOpen(i),
           NEW item, item = rows'[i].item, NEW amount, amount = rows'[i].amount
    PROVE  /\ SumOf(Received)' = SumOf(Received)
                + (IF rows'[i].status = "CONFIRMED" /\ item \in Incomes THEN amount ELSE 0)
           /\ SumOf(Spent)' = SumOf(Spent)
                + (IF rows'[i].status = "CONFIRMED" /\ item \notin Incomes THEN amount ELSE 0)
<1>1. /\ OneRow(i) /\ i \in DOMAIN rows' /\ amount \in Nat
      /\ currentDay' = currentDay /\ CurrentPeriod' = CurrentPeriod
      /\ DOMAIN rows' \ {i} = DOMAIN rows \ {i}
      /\ \A j \in DOMAIN rows \ {i} : rows'[j] = rows[j]
  BY DEF AnswersOpen, OneRow, CurrentPeriod, Row
<1>2. CurrentPeriod.start =< currentDay /\ currentDay =< CurrentPeriod.end
  BY DayTypes, DayHasPeriod DEF BudgetInv, CurrentPeriod
<1>3. i \notin ConfirmedInPeriod
  BY DEF AnswersOpen, ConfirmedInPeriod
<1>4. i \in ConfirmedInPeriod' <=> rows'[i].status = "CONFIRMED"
  <2>1. rows'[i].status = "CONFIRMED" => rows'[i].date = currentDay
    BY DEF AnswersOpen
  <2> QED BY <1>1, <1>2, <2>1 DEF ConfirmedInPeriod
<1>5. /\ i \notin Received /\ i \notin Spent
      /\ i \in Received' <=> rows'[i].status = "CONFIRMED" /\ item \in Incomes
      /\ i \in Spent' <=> rows'[i].status = "CONFIRMED" /\ item \notin Incomes
  BY <1>3, <1>4 DEF Received, Spent
<1>6. /\ Received \in SUBSET (DOMAIN rows) /\ Received' \in SUBSET (DOMAIN rows')
      /\ Spent \in SUBSET (DOMAIN rows) /\ Spent' \in SUBSET (DOMAIN rows')
  BY DEF Received, Spent, ConfirmedInPeriod
<1>7. /\ Received \ {i} = Received' \ {i} /\ Spent \ {i} = Spent' \ {i}
  <2>1. ConfirmedInPeriod \ {i} = ConfirmedInPeriod' \ {i}
    BY <1>1 DEF ConfirmedInPeriod
  <2>2. Received \ {i} = Received' \ {i}
    BY <1>1, <2>1 DEF Received, ConfirmedInPeriod
  <2> QED BY <2>1, <2>2 DEF Spent
<1>8. SumOf(Received) \in Int /\ SumOf(Spent) \in Int
  BY <1>6, RowSums
<1>9. SumFunction([j \in Received' |-> rows'[j].amount])
        = SumOf(Received) - 0 + (IF i \in Received' THEN amount ELSE 0)
  BY <1>1, <1>5, <1>6, <1>7, OneRowSum DEF AmountIn
<1>10. SumFunction([j \in Spent' |-> rows'[j].amount])
        = SumOf(Spent) - 0 + (IF i \in Spent' THEN amount ELSE 0)
  BY <1>1, <1>5, <1>6, <1>7, OneRowSum DEF AmountIn
<1>11. /\ SumOf(Received)' = SumFunction([j \in Received' |-> rows'[j].amount])
       /\ SumOf(Spent)' = SumFunction([j \in Spent' |-> rows'[j].amount])
  BY DEF SumOf
<1> QED BY <1>5, <1>8, <1>9, <1>10, <1>11

Worths(i) ==
    Summary'.availableBalance = Summary.availableBalance + Worth(rows'[i])

(* The balance moves by the difference to what was expected.               *)
LEMMA AnswerIsFair ==
    ASSUME BudgetInv, BudgetInv', OpenIs, OpenIs', InputOK, NEW i, AnswersOpen(i)
    PROVE  Worths(i)
<1>1. PICK item, occ, amount, status :
        /\ item = rows'[i].item /\ occ = rows'[i].occ /\ amount = rows'[i].amount
        /\ status = rows'[i].status
  OBVIOUS
<1>2. /\ item \in active /\ item \in Items /\ occ \in Overdue(item) \cup Current(item)
      /\ amount \in Nat /\ status \in {"PENDING", "CONFIRMED", "DECLINED"}
      /\ currentDay' = currentDay /\ active' = active
      /\ item \in Incomes => status # "DECLINED"
  BY <1>1 DEF AnswersOpen, AskedAbout, OneRow, Row, BudgetInv, BudgetTypeOK
<1>3. ExpectedOf[item] \in Nat /\ (item \in Payments <=> item \notin Incomes)
  BY <1>2, ItemTypes, BudgetAssumption DEF Items
<1>4. \A other \in Items \ {item} :
         Current(other)' = Current(other) /\ Overdue(other)' = Overdue(other)
  <2> TAKE other \in Items \ {item}
  <2>1. /\ OneRow(i)
        /\ i \in DOMAIN rows => rows[i].item # other
        /\ i \in DOMAIN rows' => rows'[i].item # other
    BY <1>1 DEF AnswersOpen
  <2> QED BY <2>1, LeftAlone
<1> DEFINE dueNow == IF item \in Payments
                     THEN DueOn(item, (Overdue(item) \cup Current(item))')
                            - DueOn(item, Overdue(item) \cup Current(item))
                     ELSE 0
           incomeNow == IF item \in Incomes
                        THEN DueOn(item, Current(item)') - DueOn(item, Current(item)) ELSE 0
           received == IF status = "CONFIRMED" /\ item \in Incomes THEN amount ELSE 0
           spent == IF status = "CONFIRMED" /\ item \notin Incomes THEN amount ELSE 0
<1>5. remainingCommitments' = remainingCommitments + dueNow /\ IncomeDue' = IncomeDue + incomeNow
  BY <1>2, <1>4, DueChange
<1>6. SumOf(Received)' = SumOf(Received) + received /\ SumOf(Spent)' = SumOf(Spent) + spent
  BY <1>1, AnswerInPeriod
<1>7. /\ IsFiniteSet(Current(item)) /\ IsFiniteSet(Overdue(item) \cup Current(item))
      /\ DueOn(item, Current(item)) \in Int /\ DueOn(item, Overdue(item) \cup Current(item)) \in Int
  <2>1. IsFiniteSet(Current(item)) /\ IsFiniteSet(Overdue(item) \cup Current(item))
    BY <1>2, FS_Union DEF OpenIs
  <2> QED BY <1>2, <2>1, DueType
<1>8. /\ IncomeDue \in Int /\ remainingCommitments \in Int
      /\ SumOf(Received) \in Int /\ SumOf(Spent) \in Int
  <2>1. Received \in SUBSET (DOMAIN rows) /\ Spent \in SUBSET (DOMAIN rows)
    BY DEF Received, Spent, ConfirmedInPeriod
  <2> QED BY <2>1, DueSums, RowSums DEF IncomeDue
<1>9. PICK goal \in Int : goal = input.goalContributions /\ goal = input'.goalContributions
  <2>1. input'.goalContributions = input.goalContributions /\ input.goalContributions \in Int
    BY <1>2 DEF BudgetInv, assembleBudgetInput, InputOK, Input
  <2> QED BY <2>1
<1>10. /\ Summary.availableBalance
            = (SumOf(Received) + IncomeDue) - remainingCommitments - goal - SumOf(Spent)
       /\ Summary'.availableBalance
            = (SumOf(Received)' + IncomeDue') - remainingCommitments' - goal - SumOf(Spent)'
  <2>1. /\ input.periodIncome = SumOf(Received) + IncomeDue
        /\ input.fixedCommitments = remainingCommitments /\ input.alreadySpent = SumOf(Spent)
    BY DEF BudgetInv, assembleBudgetInput, periodIncome, IncomeDue
  <2>2. /\ input'.periodIncome = SumOf(Received)' + IncomeDue'
        /\ input'.fixedCommitments = remainingCommitments' /\ input'.alreadySpent = SumOf(Spent)'
    BY DEF BudgetInv, assembleBudgetInput, periodIncome, IncomeDue
  <2> QED BY <1>9, <2>1, <2>2 DEF Summary, calculateAvailableBalance
<1>11. /\ dueNow \in Int /\ incomeNow \in Int /\ received \in Int /\ spent \in Int
       /\ Worth(rows'[i]) = received + incomeNow - dueNow - spent
  <2>1. CASE status = "PENDING"
    <3>1. Current(item)' = Current(item) /\ Overdue(item)' = Overdue(item)
      BY <1>1, <1>2, <2>1, ClosesNone
    <3>2. dueNow = 0 /\ incomeNow = 0 /\ received = 0 /\ spent = 0
      BY <1>7, <2>1, <3>1
    <3>3. Worth(rows'[i]) = 0
      BY <1>1, <2>1 DEF Worth
    <3> QED BY <3>2, <3>3
  <2>2. CASE status # "PENDING"
    <3>1. Current(item)' = Current(item) \ {occ} /\ Overdue(item)' = Overdue(item) \ {occ}
      BY <1>1, <2>2, ClosesOne
    <3>2. (Overdue(item) \cup Current(item))' = (Overdue(item) \cup Current(item)) \ {occ}
      BY <3>1
    <3>3. dueNow = IF item \in Payments THEN -ExpectedOf[item] ELSE 0
      <4>1. DueOn(item, (Overdue(item) \cup Current(item)) \ {occ})
              = DueOn(item, Overdue(item) \cup Current(item)) - ExpectedOf[item]
        BY <1>2, <1>7, DueLessOne
      <4>2. PICK e \in Int, due \in Int :
              e = ExpectedOf[item] /\ due = DueOn(item, Overdue(item) \cup Current(item))
        BY <1>3, <1>7
      <4>3. DueOn(item, (Overdue(item) \cup Current(item))') = due - e
        BY <3>2, <4>1, <4>2
      <4>4. (due - e) - due = -e
        OBVIOUS
      <4> QED BY <4>2, <4>3, <4>4
    <3>4. incomeNow = IF item \in Incomes /\ occ \in Current(item) THEN -ExpectedOf[item] ELSE 0
      <4>1. CASE occ \in Current(item)
        <5>1. DueOn(item, Current(item) \ {occ}) = DueOn(item, Current(item)) - ExpectedOf[item]
          BY <1>2, <1>7, <4>1, DueLessOne
        <5> QED BY <1>3, <1>7, <3>1, <4>1, <5>1
      <4>2. CASE occ \notin Current(item)
        <5>1. Current(item) \ {occ} = Current(item)
          BY <4>2
        <5> QED BY <1>7, <3>1, <4>2, <5>1
      <4> QED BY <4>1, <4>2
    <3>5. occ \in Overdue(item) <=> occ \notin Current(item)
      <4>1. occ \in Dates
        BY <1>2 DEF OpenIs, Overdue, Current
      <4>2. PICK start \in Dates : start = CurrentPeriod.start
        BY DayTypes, DayHasPeriod DEF BudgetInv, CurrentPeriod
      <4>3. \A e \in Dates : e \in Int
        BY Intervals
      <4>4. ~(occ < start /\ occ >= start)
        BY <4>1, <4>2, <4>3
      <4> QED BY <1>2, <4>2, <4>4 DEF Overdue, Current
    <3>6. CASE status = "DECLINED"
      <4>1. item \in Payments /\ item \notin Incomes
        BY <1>2, <1>3, <3>6
      <4>2. Worth(rows'[i]) = ExpectedOf[item]
        BY <1>1, <3>6 DEF Worth
      <4> QED BY <1>3, <3>3, <3>4, <3>6, <4>1, <4>2
    <3>7. CASE status = "CONFIRMED" /\ item \in Payments
      <4>1. Worth(rows'[i]) = ExpectedOf[item] - amount
        BY <1>1, <1>3, <3>7 DEF Worth
      <4> QED BY <1>2, <1>3, <3>3, <3>4, <3>7, <4>1
    <3>8. CASE status = "CONFIRMED" /\ item \in Incomes
      <4>1. Worth(rows'[i]) = IF occ \in Overdue(item) THEN amount ELSE amount - ExpectedOf[item]
        BY <1>1, <1>3, <3>8 DEF Worth
      <4> QED BY <1>2, <1>3, <3>3, <3>4, <3>5, <3>8, <4>1
    <3> HIDE DEF dueNow, incomeNow, received, spent
    <3> QED BY <1>2, <1>3, <2>2, <3>6, <3>7, <3>8
  <2> QED BY <2>1, <2>2
<1> HIDE DEF dueNow, incomeNow, received, spent
<1> QED BY <1>5, <1>6, <1>8, <1>10, <1>11 DEF Worths

(* AnswersAreFair, for every schedule, amount and set of rows: no answer   *)
(* moves the balance by more or less than its difference to the expected   *)
(* amount (confirmations.service.ts, assemble-budget-input.ts).            *)
THEOREM FairAnswers == BudgetSpec => AnswersAreFair
<1> DEFINE Fair == \A i \in DOMAIN rows' :
                      ((i \in DOMAIN rows => rows'[i] # rows[i])
                         /\ AskedAbout(rows'[i].item, rows'[i].occ)) =>
                          Summary'.availableBalance = Summary.availableBalance + Worth(rows'[i])
<1>1. BudgetInv /\ BudgetInv' /\ OpenIs /\ OpenIs' /\ InputOK /\ [BudgetNext]_budgetVars => Fair
  BY AnswersComeSingly, AnswerIsFair DEF Worths
<1> HIDE DEF Fair
<1>2. BudgetInv /\ BudgetInv' /\ OpenIs /\ OpenIs' /\ InputOK /\ [BudgetNext]_budgetVars
         => [Fair]_budgetVars
  BY <1>1
<1> QED BY <1>2, OpenTypes, InputsAreRight, DaysInvariance, PTL DEF AnswersAreFair, BudgetSpec, Fair

-----------------------------------------------------------------------------
(* Two sums in a proportion that holds of each of their values.            *)
LEMMA SumsInOrder ==
    ASSUME NEW D, IsFiniteSet(D), NEW f \in [D -> Int], NEW g \in [D -> Int],
           NEW k \in Int, NEW m \in Int, \A x \in D : k * f[x] =< m * g[x]
    PROVE  k * SumFunction(f) =< m * SumFunction(g)
<1> DEFINE Bad == {n \in Nat : \E t \in SUBSET D : /\ Cardinality(t) = n
                                                    /\ ~(k * Sums(f, D)[t] =< m * Sums(g, D)[t])}
<1>1. \A t \in SUBSET D : /\ Cardinality(t) \in Nat
                          /\ \A x \in t : Cardinality(t \ {x}) = Cardinality(t) - 1
  BY FS_Subset, FS_CardinalityType, FS_RemoveElement
<1>2. Bad = {}
  <2>1. SUFFICES ASSUME Bad # {} PROVE FALSE
    OBVIOUS
  <2>2. PICK n \in Bad : \A j \in Bad : n =< j
    BY <2>1, LeastNatural
  <2>3. PICK t \in SUBSET D :
          Cardinality(t) = n /\ ~(k * Sums(f, D)[t] =< m * Sums(g, D)[t])
    BY <2>2
  <2>4. t # {}
    BY <2>3, SumsUnfold
  <2>5. PICK x \in t : TRUE
    BY <2>4
  <2>6. PICK a \in Int, b \in Int : a = Sums(f, D)[t \ {x}] /\ b = Sums(g, D)[t \ {x}]
    BY <2>3, SumsUnfold
  <2>7. Sums(f, D)[t] = f[x] + a /\ Sums(g, D)[t] = g[x] + b
    BY <2>3, <2>5, <2>6, SumsUnfold
  <2>8. Cardinality(t \ {x}) \in Nat /\ Cardinality(t \ {x}) < n
    BY <1>1, <2>3, <2>5
  <2>9. k * a =< m * b
    BY <2>2, <2>6, <2>8
  <2>10. PICK c \in Int, d \in Int : c = f[x] /\ d = g[x] /\ k * c =< m * d
    BY <2>5
  <2>11. k * (c + a) = k * c + k * a /\ m * (d + b) = m * d + m * b
    OBVIOUS
  <2>12. k * c \in Int /\ k * a \in Int /\ m * d \in Int /\ m * b \in Int
    OBVIOUS
  <2> QED BY <2>3, <2>7, <2>9, <2>10, <2>11, <2>12
<1>3. k * Sums(f, D)[D] =< m * Sums(g, D)[D]
  BY <1>1, <1>2
<1> QED BY <1>3, SumIs

(* The least of two.                                                       *)
LEMMA MinOfTwo ==
    ASSUME NEW a \in Int, NEW b \in Int
    PROVE  Min({a, b}) \in {a, b} /\ Min({a, b}) =< a /\ Min({a, b}) =< b
<1>1. \E x \in {a, b} : \A y \in {a, b} : x =< y
  BY a =< b \/ b =< a
<1>2. Min({a, b}) \in {a, b} /\ \A y \in {a, b} : Min({a, b}) =< y
  BY <1>1 DEF Min
<1> QED BY <1>2

(* A quotient rounded up is the least that covers what is divided.         *)
LEMMA RoundedUpBounds ==
    ASSUME NEW n \in Nat, NEW d \in Nat \ {0}
    PROVE  /\ RoundedUp(n, d) \in Nat /\ n =< d * RoundedUp(n, d)
           /\ d * RoundedUp(n, d) < n + d
<1>1. n + d - 1 \in Nat /\ RoundedUp(n, d) = (n + d - 1) \div d
  BY DEF RoundedUp
<1> DEFINE q == (n + d - 1) \div d
           r == (n + d - 1) % d
<1>2. q \in Int /\ r \in 0..(d - 1) /\ n + d - 1 = d * q + r
  BY <1>1, Quotient
<1>3. q \in Nat /\ RoundedUp(n, d) = q
  BY <1>1
<1> HIDE DEF q, r
<1>4. PICK p \in Int : p = d * q
  BY <1>2
<1>5. n =< p /\ p < n + d
  BY <1>2, <1>4
<1>6. d * RoundedUp(n, d) = p
  BY <1>3, <1>4
<1>7. RoundedUp(n, d) \in Nat
  BY <1>3
<1> QED BY <1>5, <1>6, <1>7

(* A cut asks for 30% at most, but for a grosz.                            *)
LEMMA CutIsModest ==
    ASSUME NEW u \in Nat, NEW s \in Nat, NEW t \in Nat \ {0}
    PROVE  Cut(u, s, t) \in Nat /\ 100 * Cut(u, s, t) < 30 * u + 100
<1> DEFINE share == RoundedUp(s * u, t)
           most == RoundedUp(u * 30, 100)
<1>1. s * u \in Nat /\ u * 30 \in Nat /\ 100 \in Nat \ {0}
  OBVIOUS
<1>2. share \in Nat /\ most \in Nat /\ 100 * most < u * 30 + 100
  BY <1>1, RoundedUpBounds
<1>3. Cut(u, s, t) = Min({share, most})
  BY DEF Cut
<1> HIDE DEF share, most
<1>4. share \in Int /\ most \in Int
  BY <1>2
<1>5. Cut(u, s, t) \in {share, most} /\ Cut(u, s, t) =< most
  BY <1>3, <1>4, MinOfTwo
<1> QED BY <1>2, <1>5

(* Rounded up, it covers its part of the shortfall, or of 30%.             *)
LEMMA CutCovers ==
    ASSUME NEW u \in Nat, NEW s \in Nat, NEW t \in Nat \ {0}
    PROVE  /\ 100 * s =< 30 * t => s * u =< t * Cut(u, s, t)
           /\ 30 * t =< 100 * s => (u * 30) \div 100 =< Cut(u, s, t)
<1> DEFINE share == RoundedUp(s * u, t)
           most == RoundedUp(u * 30, 100)
           cut == Cut(u, s, t)
<1>1. s * u \in Nat /\ t * u \in Nat
  OBVIOUS
<1>2. share \in Nat /\ s * u =< t * share
  BY <1>1, RoundedUpBounds
<1>3. most \in Nat /\ u * 30 =< 100 * most
  BY RoundedUpBounds
<1>4. cut = Min({share, most})
  BY DEF Cut
<1> HIDE DEF share, most, cut
<1>5. cut \in {share, most}
  <2>1. share \in Int /\ most \in Int
    BY <1>2, <1>3
  <2> QED BY <1>4, <2>1, MinOfTwo
<1>6. ASSUME 100 * s =< 30 * t PROVE s * u =< t * cut
  <2>1. CASE cut = share
    BY <1>2, <2>1
  <2>2. CASE cut = most
    <3>1. u * (100 * s) =< u * (30 * t)
      BY <1>6, TimesMonotone
    <3>2. t * (u * 30) =< t * (100 * most)
      BY <1>3, TimesMonotone
    <3>3. PICK a \in Int, b \in Int, c \in Int : a = s * u /\ b = t * u /\ c = t * most
      BY <1>3
    <3>4. u * (100 * s) = 100 * a /\ u * (30 * t) = 30 * b
          /\ t * (u * 30) = 30 * b /\ t * (100 * most) = 100 * c
      BY <1>3, <3>3
    <3>5. 100 * a =< 30 * b /\ 30 * b =< 100 * c
      BY <3>1, <3>2, <3>4
    <3> QED BY <2>2, <3>3, <3>5
  <2> QED BY <1>5, <2>1, <2>2
<1>7. ASSUME 30 * t =< 100 * s PROVE (u * 30) \div 100 =< cut
  <2>1. CASE cut = most
    BY <1>3, <2>1
  <2>2. CASE cut = share
    <3>1. u * (30 * t) =< u * (100 * s)
      BY <1>7, TimesMonotone
    <3>2. PICK a \in Int, b \in Int : a = s * u /\ b = t * u
      BY <1>1
    <3>3. u * (100 * s) = 100 * a /\ u * (30 * t) = 30 * b
      BY <3>2
    <3>4. 30 * b =< 100 * a
      BY <3>1, <3>3
    <3>5. t * (30 * u) =< t * (100 * share)
      <4>1. PICK c \in Int : c = t * share
        BY <1>2
      <4>2. t * (30 * u) = 30 * b /\ t * (100 * share) = 100 * c
        BY <1>2, <3>2, <4>1
      <4> QED BY <1>2, <3>2, <3>4, <4>1, <4>2
    <3>6. 30 * u =< 100 * share
      <4>1. SUFFICES ASSUME 100 * share + 1 =< 30 * u PROVE FALSE
        BY <1>2
      <4>2. t * (100 * share + 1) =< t * (30 * u)
        BY <1>2, <4>1, TimesMonotone
      <4>3. t * (100 * share + 1) = t * (100 * share) + t
        BY <1>2
      <4>4. t * (100 * share) \in Int /\ t * (30 * u) \in Int
        BY <1>2
      <4> QED BY <3>5, <4>2, <4>3, <4>4
    <3> QED BY <1>2, <2>2, <3>6
  <2> QED BY <1>5, <2>1, <2>2
<1> QED BY <1>6, <1>7 DEF cut

(* The candidates for a cut are few of the usual lines, each worth one.    *)
LEMMA CandidatesAreUsual ==
    ASSUME NEW usual, IsFiniteSet(usual)
    PROVE  /\ Candidates(usual) \subseteq usual /\ IsFiniteSet(Candidates(usual))
           /\ \A line \in Candidates(usual) : line.usual >= 5000
<1>1. /\ Candidates(usual) \subseteq usual
      /\ \A line \in Candidates(usual) : line.usual >= 5000
  BY DEF Candidates
<1> QED BY <1>1, FS_Subset

(* The limit proposed to who usually spends so much, in full 10 zl.        *)
Proposal(usual, shortfall, total) == FullTens(usual - Cut(usual, shortfall, total))

WithinCut(usual, cut, proposal) ==
    /\ cut \in Nat /\ cut =< usual - proposal
    /\ proposal \in Int /\ 0 < proposal /\ 10 * proposal >= 7 * usual - 10000

LEMMA ProposalIsWithinCut ==
    ASSUME NEW u \in Nat, u >= 5000, NEW shortfall \in Nat, NEW total \in Nat \ {0}
    PROVE  WithinCut(u, Cut(u, shortfall, total), Proposal(u, shortfall, total))
<1>1. Cut(u, shortfall, total) \in Nat /\ 100 * Cut(u, shortfall, total) < 30 * u + 100
  BY CutIsModest
<1>2. PICK cut \in Nat : cut = Cut(u, shortfall, total) /\ 100 * cut < 30 * u + 100
  BY <1>1
<1>3. PICK k \in Int : k = (u - cut) \div 1000
  BY <1>2
<1>4. 1000 * k =< u - cut /\ u - cut < 1000 * k + 1000
  BY <1>2, <1>3
<1>5. Proposal(u, shortfall, total) = k * 1000
  BY <1>2, <1>3 DEF Proposal, FullTens
<1>6. k * 1000 \in Int /\ 0 < k * 1000 /\ cut =< u - k * 1000 /\ 10 * (k * 1000) >= 7 * u - 10000
  BY <1>2, <1>4
<1> QED BY <1>2, <1>5, <1>6 DEF WithinCut

(* A category's limit once the suggestions were taken.                     *)
LEMMA LimitOnceTaken ==
    ASSUME NEW candidates, NEW limits, NEW shortfall \in Nat,
           \A a \in candidates, b \in candidates : a.category = b.category => a = b,
           NEW line \in candidates
    PROVE  LET total == SumFunction([l \in candidates |-> l.usual])
               proposal == Proposal(line.usual, shortfall, total)
               taken == LimitsTaken(limits, SuggestedLimits(candidates, shortfall, limits))
           IN  /\ line.category \in DOMAIN taken
               /\ \/ taken[line.category] = proposal
                  \/ /\ line.category \in DOMAIN limits
                     /\ taken[line.category] = limits[line.category]
                     /\ limits[line.category] =< proposal
<1> DEFINE total == SumFunction([l \in candidates |-> l.usual])
           Limited(l) == /\ l.category \in DOMAIN limits
                         /\ limits[l.category] =< Proposal(l.usual, shortfall, total)
           Suggestion(l) == [category |-> l.category, usual |-> l.usual,
                             suggested |-> Proposal(l.usual, shortfall, total)]
           suggestions == SuggestedLimits(candidates, shortfall, limits)
           taken == LimitsTaken(limits, suggestions)
<1>1. suggestions = {Suggestion(l) : l \in {m \in candidates : ~Limited(m)}}
  BY DEF SuggestedLimits, Proposal
<1> HIDE DEF suggestions, total
<1>2. /\ DOMAIN taken = {s.category : s \in suggestions} \cup DOMAIN limits
      /\ \A c \in DOMAIN taken :
            taken[c] = IF c \in {s.category : s \in suggestions}
                       THEN (CHOOSE s \in suggestions : s.category = c).suggested
                       ELSE limits[c]
  BY DEF LimitsTaken
<1> HIDE DEF taken
<1>3. CASE Limited(line)
  <2>1. line.category \notin {s.category : s \in suggestions}
    <3>1. SUFFICES ASSUME NEW s \in suggestions, s.category = line.category PROVE FALSE
      OBVIOUS
    <3>2. PICK l \in candidates : ~Limited(l) /\ s = Suggestion(l)
      BY <1>1
    <3>3. l = line
      BY <3>1, <3>2
    <3> QED BY <1>3, <3>2, <3>3
  <2> QED BY <1>2, <1>3, <2>1 DEF taken, suggestions, total
<1>4. CASE ~Limited(line)
  <2>1. Suggestion(line) \in suggestions
    BY <1>1, <1>4
  <2> DEFINE found == CHOOSE s \in suggestions : s.category = line.category
  <2>2. found \in suggestions /\ found.category = line.category
    BY <2>1
  <2> HIDE DEF found
  <2>3. PICK l \in candidates : found = Suggestion(l)
    BY <1>1, <2>2
  <2>4. l = line
    BY <2>2, <2>3
  <2>5. found.suggested = Proposal(line.usual, shortfall, total)
    BY <2>3, <2>4
  <2>6. line.category \in {s.category : s \in suggestions}
    BY <2>1
  <2> QED BY <1>2, <2>5, <2>6 DEF found, taken, suggestions, total
<1> QED BY <1>3, <1>4

(* CutsMakeUp, of whatever is usually spent and limited: the suggestions   *)
(* save the shortfall, as far as giving up 30% of the candidates can, ask  *)
(* for no more than that but for rounding, and are not made again once     *)
(* they were taken (category-limits.ts:141-159).                           *)
THEOREM SuggestionsMakeUp ==
    ASSUME NEW Categories, NEW usual \in SUBSET [category : Categories, usual : Nat],
           IsFiniteSet(usual),
           \A a \in usual, b \in usual : a.category = b.category => a = b,
           NEW Limited, NEW limits \in [Limited -> Nat], NEW shortfall \in Nat
    PROVE  LET lean == CutsFor(shortfall, Candidates(usual), limits)
               taken == LimitsTaken(limits, lean.suggestions)
           IN  /\ MakesUp(lean, taken)
               /\ CutsFor(shortfall, Candidates(usual), taken).suggestions = {}
<1> DEFINE candidates == Candidates(usual)
           total == SumFunction([l \in candidates |-> l.usual])
           suggestions == SuggestedLimits(candidates, shortfall, limits)
           taken == LimitsTaken(limits, suggestions)
           spent == [l \in candidates |-> l.usual]
           saved == [l \in candidates |-> l.usual - taken[l.category]]
           most == [l \in candidates |-> (l.usual * 30) \div 100]
           proposal(l) == Proposal(l.usual, shortfall, total)
<1>1. /\ candidates \subseteq usual /\ IsFiniteSet(candidates)
      /\ \A l \in candidates : l.usual \in Nat /\ l.usual >= 5000
      /\ \A a \in candidates, b \in candidates : a.category = b.category => a = b
  BY CandidatesAreUsual
<1>2. suggestions = {[category |-> l.category, usual |-> l.usual, suggested |-> proposal(l)] :
                        l \in {m \in candidates :
                                 ~(m.category \in Limited /\ limits[m.category] =< proposal(m))}}
  BY DEF SuggestedLimits, Proposal
<1>3. \A l \in candidates :
         /\ l.category \in DOMAIN taken
         /\ \/ taken[l.category] = proposal(l)
            \/ /\ l.category \in Limited
               /\ taken[l.category] = limits[l.category] /\ limits[l.category] =< proposal(l)
  BY <1>1, LimitOnceTaken
<1>4. SuggestedLimits(candidates, shortfall, taken)
        = {[category |-> l.category, usual |-> l.usual, suggested |-> proposal(l)] :
              l \in {m \in candidates :
                       ~(m.category \in DOMAIN taken /\ taken[m.category] =< proposal(m))}}
  BY DEF SuggestedLimits, Proposal
<1> HIDE DEF candidates, suggestions, taken
<1>5. spent \in [candidates -> Int] /\ total = SumFunction(spent) /\ total \in Int
  <2>1. spent \in [candidates -> Int] /\ total = SumFunction(spent)
    BY <1>1
  <2> HIDE DEF spent, total
  <2> QED BY <1>1, <2>1, SumType
<1>6. candidates # {} => total \in Nat \ {0}
  <2>1. ASSUME candidates # {} PROVE total > 0
    <3>1. PICK x \in candidates : TRUE
      BY <2>1
    <3> DEFINE one == [l \in candidates |-> IF l = x THEN 1 ELSE 0]
    <3>2. one \in [candidates -> Int] /\ \A l \in candidates : 1 * one[l] =< 1 * spent[l]
      BY <1>1
    <3> DEFINE zero == [l \in candidates \ {x} |-> 0]
    <3>3. SumFunction(one) > 0
      <4>1. zero \in [candidates \ {x} -> Int] /\ IsFiniteSet(candidates \ {x})
            /\ \A l \in candidates \ {x} : 0 * zero[l] =< 1 * zero[l] /\ zero[l] = one[l]
        BY <1>1, FS_Subset
      <4>2. ValueAt(zero, x) = 0 /\ ValueAt(one, x) = 1
        BY <3>1 DEF ValueAt
      <4> HIDE DEF zero, one
      <4>3. SumFunction(zero) \in Int /\ SumFunction(zero) >= 0
        <5>1. SumFunction(zero) \in Int
          BY <4>1, SumType
        <5>2. 0 * SumFunction(zero) =< 1 * SumFunction(zero)
          BY <4>1, SumsInOrder
        <5> QED BY <5>1, <5>2
      <4>4. (candidates \ {x}) \ {x} = candidates \ {x}
        OBVIOUS
      <4>5. SumFunction(one) = SumFunction(zero) - ValueAt(zero, x) + ValueAt(one, x)
        BY <1>1, <3>2, <4>1, <4>4, SumButOne
      <4> QED BY <4>2, <4>3, <4>5
    <3> HIDE DEF one, spent, total
    <3>4. SumFunction(one) \in Int
      BY <1>1, <3>2, SumType
    <3>5. 1 * SumFunction(one) =< 1 * SumFunction(spent)
      BY <1>1, <1>5, <3>2, SumsInOrder
    <3> QED BY <1>5, <3>3, <3>4, <3>5
  <2> QED BY <1>5, <2>1
<1> HIDE DEF total
<1>7. \A l \in candidates :
         /\ proposal(l) \in Int /\ 0 < proposal(l)
         /\ Cut(l.usual, shortfall, total) \in Nat
         /\ Cut(l.usual, shortfall, total) =< l.usual - proposal(l)
         /\ 10 * proposal(l) >= 7 * l.usual - 10000
  <2> TAKE l \in candidates
  <2>1. total \in Nat \ {0} /\ l.usual \in Nat /\ l.usual >= 5000
    BY <1>1, <1>6
  <2>2. WithinCut(l.usual, Cut(l.usual, shortfall, total), proposal(l))
    BY <2>1, ProposalIsWithinCut
  <2> QED BY <2>2 DEF WithinCut
<1> HIDE DEF proposal
<1>8. \A l \in candidates : /\ taken[l.category] \in Int
                            /\ taken[l.category] =< proposal(l)
                            /\ Cut(l.usual, shortfall, total) =< l.usual - taken[l.category]
  BY <1>1, <1>3, <1>7
<1>9. SuggestedLimits(candidates, shortfall, taken) = {}
  BY <1>3, <1>4, <1>8
<1>10. \A s \in suggestions : 0 < s.suggested /\ 10 * s.suggested >= 7 * s.usual - 10000
  BY <1>2, <1>7
<1>11. /\ saved \in [candidates -> Int] /\ most \in [candidates -> Int]
       /\ \A l \in candidates : /\ spent[l] = l.usual
                                /\ saved[l] = l.usual - taken[l.category]
                                /\ most[l] = (l.usual * 30) \div 100
  BY <1>1, <1>8
<1> HIDE DEF saved, most, spent
<1>12. /\ saved \in [candidates -> Int] /\ most \in [candidates -> Int]
       /\ IsFiniteSet(candidates) /\ spent \in [candidates -> Int]
  BY <1>1, <1>5, <1>11
<1>13. /\ SumFunction(saved) \in Int /\ SumFunction(most) \in Int
       /\ candidates = {} => SumFunction(saved) = 0 /\ SumFunction(most) = 0
  BY <1>12, SumType
<1>14. SumFunction(saved) >= shortfall \/ SumFunction(saved) >= SumFunction(most)
  <2>1. CASE candidates = {}
    BY <1>13, <2>1
  <2>2. CASE candidates # {} /\ 100 * shortfall =< 30 * total
    <3>1. total \in Nat \ {0}
      BY <1>6, <2>2
    <3>2. \A l \in candidates : shortfall * spent[l] =< total * saved[l]
      <4> TAKE l \in candidates
      <4>1. shortfall * l.usual =< total * Cut(l.usual, shortfall, total)
        BY <1>1, <2>2, <3>1, CutCovers
      <4>2. total * Cut(l.usual, shortfall, total) =< total * (l.usual - taken[l.category])
        BY <1>1, <1>7, <1>8, <3>1, TimesMonotone
      <4>3. PICK a \in Int, b \in Int, c \in Int :
               /\ a = shortfall * l.usual /\ b = total * Cut(l.usual, shortfall, total)
               /\ c = total * (l.usual - taken[l.category])
        BY <1>1, <1>7, <1>8, <3>1
      <4> QED BY <1>11, <4>1, <4>2, <4>3
    <3>3. shortfall * total =< total * SumFunction(saved)
      <4>1. shortfall \in Int /\ total \in Int
        BY <3>1
      <4>2. shortfall * SumFunction(spent) =< total * SumFunction(saved)
        BY <1>12, <3>2, <4>1, SumsInOrder
      <4> QED BY <1>5, <4>2
    <3>4. total * shortfall =< total * SumFunction(saved)
      BY <1>13, <3>1, <3>3
    <3>5. shortfall =< SumFunction(saved)
      BY <1>13, <3>1, <3>4, TimesInOrder
    <3> QED BY <1>13, <3>5
  <2>3. CASE candidates # {} /\ ~(100 * shortfall =< 30 * total)
    <3>1. total \in Nat \ {0}
      BY <1>6, <2>3
    <3>2. 30 * total =< 100 * shortfall
      BY <2>3, <3>1
    <3>3. \A l \in candidates : 1 * most[l] =< 1 * saved[l]
      <4> TAKE l \in candidates
      <4>1. (l.usual * 30) \div 100 =< Cut(l.usual, shortfall, total)
        BY <1>1, <3>1, <3>2, CutCovers
      <4> QED BY <1>1, <1>7, <1>8, <1>11, <4>1
    <3>4. 1 * SumFunction(most) =< 1 * SumFunction(saved)
      BY <1>12, <3>3, SumsInOrder
    <3> QED BY <1>13, <3>4
  <2> QED BY <2>1, <2>2, <2>3
<1>15. SumFunction(saved) >= Min({shortfall, SumFunction(most)})
  <2>1. shortfall \in Int /\ SumFunction(most) \in Int
    BY <1>13
  <2> DEFINE least == Min({shortfall, SumFunction(most)})
  <2>2. least \in {shortfall, SumFunction(most)} /\ least =< shortfall /\ least =< SumFunction(most)
    BY <2>1, MinOfTwo
  <2> HIDE DEF least
  <2>3. SumFunction(saved) >= least
    BY <1>13, <1>14, <2>1, <2>2
  <2> QED BY <2>3 DEF least
<1>16. {l \in candidates : l.category \in DOMAIN taken} = candidates
  BY <1>3
<1> DEFINE lean == CutsFor(shortfall, candidates, limits)
<1>17. /\ lean.shortfall = shortfall /\ lean.candidates = candidates
       /\ lean.suggestions = suggestions
       /\ CutsFor(shortfall, candidates, taken).suggestions
             = SuggestedLimits(candidates, shortfall, taken)
  BY DEF CutsFor, suggestions
<1> HIDE DEF lean
<1>18. MakesUp(lean, taken)
  BY <1>10, <1>15, <1>16, <1>17 DEF MakesUp, saved, most
<1> QED BY <1>9, <1>17, <1>18 DEF lean, candidates, taken, suggestions
=============================================================================
