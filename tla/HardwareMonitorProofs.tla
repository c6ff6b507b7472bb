------------------------ MODULE HardwareMonitorProofs ------------------------
(***************************************************************************)
(* Proofs, for any number of GPUs, runs, samples, faults and changes of    *)
(* the clock, of the safety properties of the hardware monitor: where each *)
(* sample is, how a bucket is written, and what a run is charged.          *)
(***************************************************************************)
EXTENDS HardwareMonitor, FiniteSetTheorems, WellFoundedInduction, TLAPS

-----------------------------------------------------------------------------
(* Arithmetic                                                              *)

LEMMA ProductGrows ==
    ASSUME NEW a \in Nat, NEW b \in Nat, NEW c \in Nat, a <= b
    PROVE  c * a <= c * b /\ a * c <= b * c
  OBVIOUS

LEMMA ProductTyped ==
    ASSUME NEW a \in Nat, NEW b \in Nat
    PROVE  a * b \in Nat
  OBVIOUS

LEMMA QuotientBound ==
    ASSUME NEW x \in Nat, NEW y \in Nat, NEW c \in Nat, c > 0, x <= c * y
    PROVE  x \div c <= y
  <1> DEFINE q == x \div c
  <1>1. q \in Nat /\ c * q <= x
    OBVIOUS
  <1> HIDE DEF q
  <1>2. SUFFICES ASSUME q >= y + 1 PROVE FALSE
    BY <1>1 DEF q
  <1>3. c * (y + 1) <= c * q
    BY <1>1, <1>2, ProductGrows
  <1>4. c * (y + 1) = c * y + c
    OBVIOUS
  <1> QED
    BY <1>1, <1>3, <1>4

LEMMA FloorTyped ==
    ASSUME NEW t \in Nat
    PROVE  FloorTime(t) \in Nat /\ FloorTime(t) % BucketLen = 0
  <1> DEFINE q == t \div BucketLen
             m == t % BucketLen
  <1>0. BucketLen \in Nat /\ BucketLen > 0
    BY MonitorAssumption
  <1>1. q \in Nat /\ m \in Nat /\ t = BucketLen * q + m
    BY <1>0
  <1>2. FloorTime(t) = BucketLen * q
    BY <1>0, <1>1 DEF FloorTime
  <1> HIDE DEF q, m
  <1>3. BucketLen * q \in Nat /\ (BucketLen * q) % BucketLen = 0
    BY <1>0, <1>1
  <1> QED
    BY <1>2, <1>3

LEMMA FloorMonotone ==
    ASSUME NEW s \in Nat, NEW t \in Nat, s <= t
    PROVE  FloorTime(s) <= FloorTime(t)
  <1> DEFINE p == s \div BucketLen
             q == t \div BucketLen
  <1>1. BucketLen \in Nat /\ BucketLen > 0
    BY MonitorAssumption
  <1>2. /\ p \in Nat /\ q \in Nat /\ FloorTime(s) = BucketLen * p /\ FloorTime(t) = BucketLen * q
        /\ BucketLen * p <= s /\ t < BucketLen * q + BucketLen
    BY <1>1 DEF FloorTime
  <1> HIDE DEF p, q
  <1>3. SUFFICES ASSUME q + 1 <= p PROVE FALSE
    BY <1>1, <1>2, ProductGrows
  <1>4. BucketLen * (q + 1) <= BucketLen * p /\ BucketLen * (q + 1) = BucketLen * q + BucketLen
    BY <1>1, <1>2, <1>3, ProductGrows
  <1>5. BucketLen * p \in Nat /\ BucketLen * q \in Nat
    BY <1>1, <1>2, ProductTyped
  <1> HIDE DEF FloorTime
  <1> QED
    BY <1>1, <1>2, <1>4, <1>5

LEMMA QuotientTyped ==
    ASSUME NEW x \in Nat, NEW c \in Nat, c # 0
    PROVE  x \div c \in Nat
  OBVIOUS

-----------------------------------------------------------------------------
(* Folds over finite sets                                                  *)

LEMMA LeastExists ==
    ASSUME NEW T, T \subseteq Nat, T # {}
    PROVE  \E x \in T : \A y \in T : x <= y
  <1>1. PICK x \in T : \A y \in T : <<y, x>> \notin OpToRel(<, Nat)
    BY NatLessThanWellFounded, WFMin, Zenon
  <1>2. \A y \in T : ~(y < x)
    BY <1>1 DEF OpToRel
  <1> QED
    BY <1>2

\* Whatever holds at 0 and of n + 1 with n holds up to N.
LEMMA Induction ==
    ASSUME NEW N \in Nat, NEW S, 0 \in S, \A n \in 0 .. N - 1 : n \in S => n + 1 \in S
    PROVE  0 .. N \subseteq S
  <1> DEFINE T == {n \in 0 .. N : n \notin S}
  <1> SUFFICES ASSUME T # {} PROVE FALSE
    OBVIOUS
  <1>1. T \subseteq Nat
    OBVIOUS
  <1>2. PICK n \in T : \A k \in T : n <= k
    BY <1>1, LeastExists
  <1>3. n \in 1 .. N /\ n - 1 \in 0 .. N - 1
    OBVIOUS
  <1>4. n - 1 \notin T
    BY <1>2, <1>3
  <1> QED
    BY <1>3, <1>4

\* The element a fold takes first, and what it leaves.
First(s) == CHOOSE x \in s : TRUE
Rest(s) == s \ {First(s)}

LEMMA FirstFacts ==
    ASSUME NEW S, IsFiniteSet(S), NEW s \in SUBSET S, s # {}
    PROVE  /\ First(s) \in s /\ First(s) \in S /\ Rest(s) \in SUBSET S
           /\ s = Rest(s) \cup {First(s)} /\ First(s) \notin Rest(s)
           /\ IsFiniteSet(s) /\ IsFiniteSet(Rest(s))
           /\ Cardinality(s) \in Nat \ {0} /\ Cardinality(Rest(s)) = Cardinality(s) - 1
  <1>1. First(s) \in s
    BY DEF First
  <1>2. IsFiniteSet(s)
    BY FS_Subset
  <1>3. /\ IsFiniteSet(Rest(s)) /\ Cardinality(Rest(s)) = Cardinality(s) - 1
    BY <1>1, <1>2, FS_RemoveElement DEF Rest
  <1>4. Cardinality(s) \in Nat /\ Cardinality(s) # 0
    BY <1>2, FS_CardinalityType, FS_EmptySet
  <1> QED
    BY <1>1, <1>2, <1>3, <1>4 DEF Rest

\* What holds of the empty set, and of a set with its rest, holds of all.
LEMMA FoldInduction ==
    ASSUME NEW S, IsFiniteSet(S), NEW Q, {} \in Q,
           \A s \in SUBSET S : s # {} /\ Rest(s) \in Q => s \in Q
    PROVE  SUBSET S \subseteq Q
  <1> DEFINE T == {s \in SUBSET S : s \notin Q}
             C == {Cardinality(s) : s \in T}
  <1> SUFFICES ASSUME T # {} PROVE FALSE
    OBVIOUS
  <1>1. \A s \in T : s # {} /\ Rest(s) \notin Q /\ Rest(s) \in T
                     /\ Cardinality(s) \in Nat /\ Cardinality(Rest(s)) < Cardinality(s)
    <2> SUFFICES ASSUME NEW s \in T
                 PROVE  s # {} /\ Rest(s) \notin Q /\ Rest(s) \in T
                        /\ Cardinality(s) \in Nat /\ Cardinality(Rest(s)) < Cardinality(s)
      OBVIOUS
    <2>1. s \in SUBSET S /\ s # {} /\ Rest(s) \notin Q
      OBVIOUS
    <2>2. /\ Rest(s) \in SUBSET S /\ Cardinality(s) \in Nat
          /\ Cardinality(Rest(s)) = Cardinality(s) - 1
      BY <2>1, FirstFacts
    <2> QED
      BY <2>1, <2>2
  <1>2. C \subseteq Nat /\ C # {}
    BY <1>1
  <1>3. PICK c \in C : \A d \in C : c <= d
    BY <1>2, LeastExists
  <1>4. PICK s \in T : c = Cardinality(s)
    OBVIOUS
  <1>5. Cardinality(Rest(s)) \in C
    BY <1>1
  <1> HIDE DEF C, T
  <1> QED
    BY <1>1, <1>2, <1>3, <1>4, <1>5

\* The results of a fold that starts with a and applies step[x] for an x, over
\* the subsets of S with at most k elements.
SmallSets(S, k) == {s \in SUBSET S : Cardinality(s) <= k}

IsFold(f, S, k, V, a, step) ==
    /\ f \in [SmallSets(S, k) -> V] /\ f[{}] = a
    /\ \A s \in SmallSets(S, k) : s # {} => f[s] = step[First(s)][f[Rest(s)]]

LEMMA FoldExists ==
    ASSUME NEW S, IsFiniteSet(S), NEW V, NEW a \in V, NEW step \in [S -> [V -> V]]
    PROVE  \E f : IsFold(f, S, Cardinality(S), V, a, step)
  <1> DEFINE K == {k \in 0 .. Cardinality(S) : \E f : IsFold(f, S, k, V, a, step)}
  <1>0. Cardinality(S) \in Nat /\ \A s \in SUBSET S : Cardinality(s) \in Nat /\ IsFiniteSet(s)
    BY FS_CardinalityType, FS_Subset
  <1>1. 0 \in K
    <2>1. SmallSets(S, 0) = {{}}
      BY <1>0, FS_EmptySet DEF SmallSets
    <2> DEFINE f == [s \in {{}} |-> a]
    <2>2. IsFold(f, S, 0, V, a, step)
      BY <2>1 DEF IsFold
    <2> HIDE DEF f
    <2> QED
      BY <1>0, <2>2
  <1>2. ASSUME NEW k \in 0 .. Cardinality(S) - 1, k \in K PROVE k + 1 \in K
    <2>0. k \in Nat /\ k + 1 \in 0 .. Cardinality(S)
      BY <1>0
    <2>1. PICK f : IsFold(f, S, k, V, a, step)
      BY <1>2
    <2> DEFINE g == [s \in SmallSets(S, k + 1) |->
                        IF s \in SmallSets(S, k) THEN f[s] ELSE step[First(s)][f[Rest(s)]]]
    <2>2. SmallSets(S, k) \subseteq SmallSets(S, k + 1) /\ {} \in SmallSets(S, k)
      BY <1>0, <2>0, FS_EmptySet DEF SmallSets
    <2>3. ASSUME NEW s \in SmallSets(S, k + 1), s # {}
          PROVE  Rest(s) \in SmallSets(S, k) /\ First(s) \in S
      <3>1. s \in SUBSET S /\ Cardinality(s) <= k + 1
        BY DEF SmallSets
      <3>2. /\ Rest(s) \in SUBSET S /\ Cardinality(s) \in Nat
            /\ Cardinality(Rest(s)) = Cardinality(s) - 1 /\ First(s) \in S
        BY <2>3, <3>1, FirstFacts
      <3> QED
        BY <2>0, <3>1, <3>2 DEF SmallSets
    <2>4. f \in [SmallSets(S, k) -> V] /\ f[{}] = a
      BY <2>1 DEF IsFold
    <2>5. g \in [SmallSets(S, k + 1) -> V]
      <3>1. ASSUME NEW s \in SmallSets(S, k + 1) PROVE g[s] \in V
        <4>1. CASE s \in SmallSets(S, k)
          BY <2>4, <4>1
        <4>2. CASE s \notin SmallSets(S, k)
          BY <2>2, <2>3, <2>4, <4>2
        <4> QED
          BY <4>1, <4>2
      <3> QED
        BY <3>1
    <2>6. g[{}] = a
      BY <2>2, <2>4
    <2>7. ASSUME NEW s \in SmallSets(S, k + 1), s # {}
          PROVE  g[s] = step[First(s)][g[Rest(s)]]
      <3>1. g[Rest(s)] = f[Rest(s)]
        BY <2>2, <2>3, <2>7
      <3>2. CASE s \in SmallSets(S, k)
        BY <2>1, <2>7, <3>1, <3>2 DEF IsFold
      <3>3. CASE s \notin SmallSets(S, k)
        BY <3>1, <3>3
      <3> QED
        BY <3>2, <3>3
    <2>8. IsFold(g, S, k + 1, V, a, step)
      <3> HIDE DEF g
      <3> QED
        BY <2>5, <2>6, <2>7 DEF IsFold
    <2> HIDE DEF g
    <2> QED
      BY <2>0, <2>8
  <1> HIDE DEF K
  <1>3. Cardinality(S) \in K
    BY <1>0, <1>1, <1>2, Induction
  <1> QED
    BY <1>3 DEF K

-----------------------------------------------------------------------------
(* Totals                                                                  *)

\* A total counts the units of the field of its rows.
Units(field, S) == {u \in S \X Nat : u[2] \in 1 .. Known(u[1][field])}

LEMMA UnitsOfOne ==
    ASSUME NEW field, NEW r, Known(r[field]) \in Nat
    PROVE  /\ IsFiniteSet(Units(field, {r}))
           /\ Cardinality(Units(field, {r})) = Known(r[field])
  <1> DEFINE n == Known(r[field])
             f == [k \in 1 .. n |-> <<r, k>>]
  <1>1. Units(field, {r}) = {<<r, k>> : k \in 1 .. n}
    BY DEF Units
  <1>2. f \in Bijection(1 .. n, Units(field, {r}))
    BY <1>1 DEF Bijection, Injection, Surjection, IsInjective
  <1>3. ExistsBijection(1 .. n, Units(field, {r}))
    BY <1>2 DEF ExistsBijection
  <1>4. IsFiniteSet(1 .. n) /\ Cardinality(1 .. n) = n
    BY FS_Interval
  <1> HIDE DEF n
  <1>5. IsFiniteSet(Units(field, {r})) /\ Cardinality(Units(field, {r})) = n
    BY <1>3, <1>4, FS_Bijection
  <1> QED
    BY <1>5 DEF n

\* Finitely many rows that have the field.
Totalled(field, S) == IsFiniteSet(S) /\ \A r \in S : Known(r[field]) \in Nat

LEMMA UnitsAdd ==
    ASSUME NEW field, NEW S, NEW T, S \cap T = {},
           IsFiniteSet(Units(field, S)), IsFiniteSet(Units(field, T))
    PROVE  /\ IsFiniteSet(Units(field, S \cup T))
           /\ Cardinality(Units(field, S \cup T))
                = Cardinality(Units(field, S)) + Cardinality(Units(field, T))
  <1>1. /\ Units(field, S \cup T) = Units(field, S) \cup Units(field, T)
        /\ Units(field, S) \cap Units(field, T) = {}
    BY DEF Units
  <1>2. IsFiniteSet(Units(field, S \cup T))
    BY <1>1, FS_Union
  <1>3. Cardinality(Units(field, S) \cup Units(field, T))
          = Cardinality(Units(field, S)) + Cardinality(Units(field, T)) - Cardinality({})
    BY <1>1, FS_Union
  <1>4. Cardinality({}) = 0
    BY FS_EmptySet
  <1>5. Cardinality(Units(field, S)) \in Nat /\ Cardinality(Units(field, T)) \in Nat
    BY FS_CardinalityType
  <1> DEFINE a == Cardinality(Units(field, S))
             b == Cardinality(Units(field, T))
             c == Cardinality(Units(field, S) \cup Units(field, T))
  <1>6. c = a + b - 0 /\ a \in Nat /\ b \in Nat
    BY <1>3, <1>4, <1>5
  <1> HIDE DEF a, b, c
  <1>7. c = a + b
    BY <1>6
  <1> QED
    BY <1>1, <1>2, <1>7 DEF a, b, c

LEMMA UnitsFinite ==
    ASSUME NEW field, NEW S, Totalled(field, S)
    PROVE  \A s \in SUBSET S : IsFiniteSet(Units(field, s))
  <1> DEFINE Q == {s \in SUBSET S : IsFiniteSet(Units(field, s))}
  <1>1. {} \in Q
    <2>1. Units(field, {}) = {}
      BY DEF Units
    <2> QED
      BY <2>1, FS_EmptySet
  <1>2. ASSUME NEW s \in SUBSET S, s # {}, Rest(s) \in Q PROVE s \in Q
    <2>1. /\ First(s) \in S /\ s = Rest(s) \cup {First(s)} /\ Rest(s) \cap {First(s)} = {}
      BY <1>2, FirstFacts DEF Totalled
    <2>2. IsFiniteSet(Units(field, {First(s)}))
      BY <2>1, UnitsOfOne DEF Totalled
    <2>3. IsFiniteSet(Units(field, Rest(s) \cup {First(s)}))
      BY <1>2, <2>1, <2>2, UnitsAdd
    <2> QED
      BY <2>1, <2>3
  <1> HIDE DEF Q
  <1>3. SUBSET S \subseteq Q
    BY <1>1, <1>2, FoldInduction DEF Totalled
  <1> QED
    BY <1>3 DEF Q

\* In whatever order a total is computed.
LEMMA TotalCountsUnits ==
    ASSUME NEW field, NEW S, Totalled(field, S)
    PROVE  TotalOf(field, S) = Cardinality(Units(field, S))
  <1> DEFINE g == [s \in SUBSET S |-> Cardinality(Units(field, s))]
             Body(f, s) == IF s = {} THEN 0 ELSE f[Rest(s)] + Known(First(s)[field])
             iter == CHOOSE f : f = [s \in SUBSET S |-> Body(f, s)]
  <1>1. TotalOf(field, S) = iter[S]
    BY DEF TotalOf, FoldSet, MapThenFoldSet, First, Rest
  <1>2. \A s \in SUBSET S : Cardinality(Units(field, s)) \in Nat
    BY UnitsFinite, FS_CardinalityType
  <1>3. Cardinality(Units(field, {})) = 0
    <2>1. Units(field, {}) = {}
      BY DEF Units
    <2> QED
      BY <2>1, FS_EmptySet
  <1>4. ASSUME NEW s \in SUBSET S, s # {}
        PROVE  /\ Rest(s) \in SUBSET S /\ Known(First(s)[field]) \in Nat
               /\ Cardinality(Units(field, s))
                    = Cardinality(Units(field, Rest(s))) + Known(First(s)[field])
    <2>1. /\ First(s) \in S /\ s = Rest(s) \cup {First(s)} /\ Rest(s) \cap {First(s)} = {}
          /\ Rest(s) \in SUBSET S
      BY <1>4, FirstFacts DEF Totalled
    <2>2. /\ Known(First(s)[field]) \in Nat
          /\ IsFiniteSet(Units(field, {First(s)}))
          /\ Cardinality(Units(field, {First(s)})) = Known(First(s)[field])
      BY <2>1, UnitsOfOne DEF Totalled
    <2>3. IsFiniteSet(Units(field, Rest(s)))
      BY <2>1, UnitsFinite
    <2>4. Cardinality(Units(field, Rest(s) \cup {First(s)}))
            = Cardinality(Units(field, Rest(s))) + Cardinality(Units(field, {First(s)}))
      BY <2>1, <2>2, <2>3, UnitsAdd
    <2> QED
      BY <2>1, <2>2, <2>4
  <1>5. g = [s \in SUBSET S |-> Body(g, s)]
    <2>1. ASSUME NEW s \in SUBSET S PROVE g[s] = Body(g, s)
      BY <1>3, <1>4
    <2> QED
      BY <2>1
  <1>6. iter = [s \in SUBSET S |-> Body(iter, s)]
    <2> HIDE DEF g
    <2> QED
      BY <1>5
  <1> DEFINE Q == {s \in SUBSET S : iter[s] = Cardinality(Units(field, s))}
  <1>7. \A s \in SUBSET S : iter[s] = Body(iter, s)
    <2> HIDE DEF iter
    <2> QED
      BY <1>6
  <1> HIDE DEF iter
  <1>8. {} \in Q
    BY <1>3, <1>7
  <1>9. ASSUME NEW s \in SUBSET S, s # {}, Rest(s) \in Q PROVE s \in Q
    BY <1>4, <1>7, <1>9
  <1> HIDE DEF Q
  <1>10. SUBSET S \subseteq Q
    BY <1>8, <1>9, FoldInduction DEF Totalled
  <1> QED
    BY <1>1, <1>10 DEF Q

LEMMA TotalOfNone ==
    ASSUME NEW field
    PROVE  TotalOf(field, {}) = 0
  <1>1. Totalled(field, {}) /\ Units(field, {}) = {}
    BY FS_EmptySet DEF Totalled, Units
  <1> QED
    BY <1>1, TotalCountsUnits, FS_EmptySet

LEMMA TotalOfOne ==
    ASSUME NEW field, NEW r, Known(r[field]) \in Nat
    PROVE  Totalled(field, {r}) /\ TotalOf(field, {r}) = Known(r[field])
  <1>1. Totalled(field, {r})
    BY FS_Singleton DEF Totalled
  <1> QED
    BY <1>1, TotalCountsUnits, UnitsOfOne

LEMMA TotalsAdd ==
    ASSUME NEW field, NEW S, NEW T, Totalled(field, S), Totalled(field, T), S \cap T = {}
    PROVE  /\ TotalOf(field, S) \in Nat /\ TotalOf(field, T) \in Nat
           /\ Totalled(field, S \cup T)
           /\ TotalOf(field, S \cup T) = TotalOf(field, S) + TotalOf(field, T)
  <1>1. Totalled(field, S \cup T)
    BY FS_Union DEF Totalled
  <1>2. IsFiniteSet(Units(field, S)) /\ IsFiniteSet(Units(field, T))
    BY UnitsFinite
  <1> QED
    BY <1>1, <1>2, UnitsAdd, TotalCountsUnits, FS_CardinalityType

-----------------------------------------------------------------------------
(* The inductive invariant                                                 *)

Devices == [n : Nat, sum : Nat, count : Nat]
Hands == [time : Nat, power : Samples]
BucketRecords == [start : Nat, n : Nat, gpu : [Gpus -> Devices]]

\* The sum of the readings of a device is at most its count times one of them.
SumIsBounded(d) ==
    IF d.count = 0 THEN d.sum = 0 ELSE \E p \in Powers : d.sum <= d.count * p

\* A bucket under way: no device has more samples than the host.
IsBucket(b) ==
    /\ b \in BucketRecords /\ b.n > 0 /\ b.start % BucketLen = 0
    /\ \A g \in Gpus : b.gpu[g].n <= b.n /\ SumIsBounded(b.gpu[g])

BucketInv ==
    /\ hand # None => hand \in Hands
    /\ bucket # None => IsBucket(bucket)
    /\ batch # None => IsBucket(batch)

LedgerInv == TypeOK /\ BucketInv /\ BucketsAreWhole /\ EnergyIsBounded

LEMMA NoneFacts == None \notin Hands /\ None \notin BucketRecords
  BY NoneAssumption DEF Hands, BucketRecords, Devices

LEMMA PowersTyped ==
    ASSUME NEW s \in Samples, NEW g \in Gpus
    PROVE  s[g] = Absent \/ s[g] = NoReading \/ (s[g] \in Powers /\ s[g] \in Nat)
  BY MonitorAssumption DEF Powers

\* A reading adds at most one to the samples of its device, and to its sum a
\* power that was read.
LEMMA ReadingAdded ==
    ASSUME NEW d \in Devices, SumIsBounded(d), NEW s \in Samples, NEW g \in Gpus
    PROVE  /\ AddReading(d, s[g]) \in Devices /\ AddReading(d, s[g]).n <= d.n + 1
           /\ SumIsBounded(AddReading(d, s[g]))
  <1> DEFINE x == s[g]
  <1>0. d.n \in Nat /\ d.sum \in Nat /\ d.count \in Nat
    BY DEF Devices
  <1>1. CASE x = Absent
    BY <1>0, <1>1 DEF AddReading
  <1>2. CASE x # Absent /\ x = NoReading
    <2>1. AddReading(d, x) = [d EXCEPT !.n = @ + 1]
      BY <1>2 DEF AddReading
    <2>2. /\ AddReading(d, x) \in Devices /\ AddReading(d, x).n = d.n + 1
          /\ AddReading(d, x).sum = d.sum /\ AddReading(d, x).count = d.count
      BY <1>0, <2>1 DEF Devices
    <2> QED
      BY <1>0, <2>2 DEF SumIsBounded
  <1>3. CASE x # Absent /\ x # NoReading
    <2>1. x \in Powers /\ x \in Nat
      BY <1>3, PowersTyped
    <2>2. AddReading(d, x) = [n |-> d.n + 1, sum |-> d.sum + x, count |-> d.count + 1]
      BY <1>3 DEF AddReading
    <2> HIDE DEF x
    <2>3. \E p \in Powers : d.sum + x <= (d.count + 1) * p
      <3>1. CASE d.count = 0
        <4>1. d.sum + x <= (d.count + 1) * x
          BY <1>0, <2>1, <3>1 DEF SumIsBounded
        <4> QED
          BY <2>1, <4>1
      <3>2. CASE d.count > 0
        <4>1. PICK p \in Powers : d.sum <= d.count * p
          BY <3>2 DEF SumIsBounded
        <4>2. p \in Nat
          BY MonitorAssumption
        <4>3. CASE x <= p
          <5>1. (d.count + 1) * p = d.count * p + p /\ d.count * p \in Nat
            BY <1>0, <4>2
          <5> QED
            BY <1>0, <2>1, <4>1, <4>2, <4>3, <5>1
        <4>4. CASE p <= x
          <5>1. d.count * p <= d.count * x /\ d.count * p \in Nat /\ d.count * x \in Nat
            BY <1>0, <2>1, <4>2, <4>4, ProductGrows, ProductTyped
          <5>2. (d.count + 1) * x = d.count * x + x
            BY <1>0, <2>1
          <5> QED
            BY <1>0, <2>1, <4>1, <5>1, <5>2
        <4> QED
          BY <2>1, <4>2, <4>3, <4>4
      <3> QED
        BY <1>0, <3>1, <3>2
    <2>4. /\ AddReading(d, x) \in Devices /\ AddReading(d, x).n = d.n + 1
          /\ AddReading(d, x).sum = d.sum + x /\ AddReading(d, x).count = d.count + 1
      BY <1>0, <2>1, <2>2 DEF Devices
    <2>5. d.count + 1 # 0
      BY <1>0
    <2>6. SumIsBounded(AddReading(d, x))
      BY <2>3, <2>4, <2>5 DEF SumIsBounded
    <2>7. AddReading(d, x).n <= d.n + 1
      BY <1>0, <2>4
    <2> QED
      BY <2>4, <2>6, <2>7 DEF x
  <1> QED
    BY <1>1, <1>2, <1>3

\* A sample added to a bucket, or to a new one.
LEMMA SampleAdded ==
    ASSUME NEW b \in BucketRecords, b.start % BucketLen = 0, NEW h \in Hands,
           \A g \in Gpus : b.gpu[g].n <= b.n /\ SumIsBounded(b.gpu[g])
    PROVE  IsBucket(AddSample(b, h)) /\ AddSample(b, h).start = b.start
  <1>1. /\ b.start \in Nat /\ b.n \in Nat /\ b.gpu \in [Gpus -> Devices]
        /\ h.power \in Samples
    BY DEF BucketRecords, Hands
  <1> DEFINE gpu == [g \in Gpus |-> AddReading(b.gpu[g], h.power[g])]
  <1>0. /\ AddSample(b, h) = [b EXCEPT !.n = b.n + 1, !.gpu = gpu]
        /\ b = [start |-> b.start, n |-> b.n, gpu |-> b.gpu]
    BY DEF AddSample, BucketRecords
  <1> HIDE DEF gpu
  <1>2. /\ AddSample(b, h).start = b.start /\ AddSample(b, h).n = b.n + 1
        /\ AddSample(b, h).gpu = gpu
        /\ AddSample(b, h) = [start |-> b.start, n |-> b.n + 1, gpu |-> gpu]
    BY <1>0
  <1>3. \A g \in Gpus : /\ gpu[g] \in Devices /\ gpu[g].n <= b.gpu[g].n + 1
                         /\ SumIsBounded(gpu[g]) /\ b.gpu[g].n \in Nat /\ gpu[g].n \in Nat
    BY <1>1, ReadingAdded DEF gpu, Devices
  <1>4. gpu \in [Gpus -> Devices]
    BY <1>3 DEF gpu
  <1>5. \A g \in Gpus : gpu[g].n <= b.n + 1
    BY <1>1, <1>3
  <1>6. AddSample(b, h) \in BucketRecords
    BY <1>1, <1>2, <1>4 DEF BucketRecords
  <1> QED
    BY <1>1, <1>2, <1>3, <1>5, <1>6 DEF IsBucket

LEMMA NewBucketTyped ==
    ASSUME NEW h \in Hands
    PROVE  IsBucket(AddSample(NewBucket(FloorTime(h.time)), h))
  <1> DEFINE b == NewBucket(FloorTime(h.time))
  <1>1. FloorTime(h.time) \in Nat /\ FloorTime(h.time) % BucketLen = 0
    BY FloorTyped DEF Hands
  <1>2. b = [start |-> FloorTime(h.time), n |-> 0,
             gpu |-> [g \in Gpus |-> [n |-> 0, sum |-> 0, count |-> 0]]]
    BY DEF NewBucket
  <1> HIDE DEF b
  <1>3. b \in BucketRecords /\ b.start % BucketLen = 0
    BY <1>1, <1>2 DEF BucketRecords, Devices
  <1>4. \A g \in Gpus : b.gpu[g].n <= b.n /\ SumIsBounded(b.gpu[g])
    BY <1>2 DEF SumIsBounded
  <1> QED
    BY <1>3, <1>4, SampleAdded DEF b

-----------------------------------------------------------------------------
(* The rows of a batch                                                     *)

LEMMA BatchRowsTyped ==
    ASSUME NEW b, NEW id, NEW r \in BatchRows(b, id)
    PROVE  /\ r.start = b.start /\ r.run = id
           /\ \/ r.device = "host" /\ r = DeviceRow(b, "host", b.n, 0, 0, id)
              \/ \E g \in Gpus :
                    /\ r.device = g
                    /\ r = DeviceRow(b, g, b.gpu[g].n, b.gpu[g].sum, b.gpu[g].count, id)
  BY DEF BatchRows, DeviceRow

LEMMA RowFields ==
    ASSUME NEW b, NEW device, NEW n, NEW sum, NEW count, NEW id
    PROVE  LET r == DeviceRow(b, device, n, sum, count, id)
           IN  /\ r.n = n /\ r.device = device /\ r.start = b.start /\ r.run = id
               /\ r.energy = IF count = 0 THEN None
                             ELSE (Scale * sum * Lesser(BucketLen, n)) \div count
  BY DEF DeviceRow

\* A batch has one row for the host, and one at most for each GPU.
LEMMA BatchIsWhole ==
    ASSUME NEW b, IsBucket(b), NEW id
    PROVE  /\ \A r \in BatchRows(b, id) :
                 \E h \in BatchRows(b, id) : /\ h.device = "host" /\ h.start = r.start
                                            /\ h.run = r.run /\ r.n <= h.n
           /\ \A r, q \in BatchRows(b, id) : q.device = r.device => q = r
  <1> DEFINE host == DeviceRow(b, "host", b.n, 0, 0, id)
  <1>1. /\ host \in BatchRows(b, id) /\ host.device = "host" /\ host.start = b.start
        /\ host.run = id /\ host.n = b.n
    BY RowFields DEF BatchRows
  <1> HIDE DEF host
  <1>2. b.n \in Nat /\ \A g \in Gpus : b.gpu[g].n <= b.n
    BY DEF IsBucket, BucketRecords
  <1>3. ASSUME NEW r \in BatchRows(b, id)
        PROVE  r.start = b.start /\ r.run = id /\ r.n <= b.n
    <2>1. r.start = b.start /\ r.run = id
      BY BatchRowsTyped
    <2>2. CASE r = DeviceRow(b, "host", b.n, 0, 0, id)
      BY <1>2, <2>1, <2>2, RowFields
    <2>3. CASE \E g \in Gpus :
                 r = DeviceRow(b, g, b.gpu[g].n, b.gpu[g].sum, b.gpu[g].count, id)
      BY <1>2, <2>1, <2>3, RowFields
    <2> QED
      BY <2>2, <2>3, BatchRowsTyped
  <1>4. "host" \notin Gpus
    BY MonitorAssumption
  <1>5. \A r, q \in BatchRows(b, id) : q.device = r.device => q = r
    BY <1>4, BatchRowsTyped
  <1> QED
    BY <1>1, <1>3, <1>5

\* The energy of a row: its average times at most BucketLen samples.
LEMMA EnergyOfRow ==
    ASSUME NEW b, NEW d \in Devices, SumIsBounded(d), NEW id, NEW device, d.count # 0
    PROVE  \E p \in Powers : DeviceRow(b, device, d.n, d.sum, d.count, id).energy
                               <= Scale * p * BucketLen
  <1>1. d.n \in Nat /\ d.sum \in Nat /\ d.count \in Nat /\ d.count > 0
    BY DEF Devices
  <1>2. Scale \in Nat /\ BucketLen \in Nat /\ Powers \subseteq Nat
    BY MonitorAssumption
  <1>3. PICK p \in Powers : d.sum <= d.count * p
    BY <1>1 DEF SumIsBounded
  <1> DEFINE m == Lesser(BucketLen, d.n)
  <1>4. m \in Nat /\ m <= BucketLen
    BY <1>1, <1>2 DEF Lesser
  <1> HIDE DEF m
  <1>5. p \in Nat /\ d.count * p \in Nat
    BY <1>1, <1>2, ProductTyped
  <1>6. /\ Scale * d.sum \in Nat /\ Scale * (d.count * p) \in Nat
        /\ Scale * d.sum <= Scale * (d.count * p)
    BY <1>1, <1>2, <1>3, <1>5, ProductGrows, ProductTyped
  <1>7. /\ (Scale * d.sum) * m <= (Scale * (d.count * p)) * m
        /\ (Scale * (d.count * p)) * m <= (Scale * (d.count * p)) * BucketLen
    BY <1>2, <1>4, <1>6, ProductGrows
  <1>8. (Scale * (d.count * p)) * BucketLen = d.count * (Scale * p * BucketLen)
    BY <1>1, <1>2, <1>5
  <1>9. /\ (Scale * d.sum) * m \in Nat /\ (Scale * (d.count * p)) * m \in Nat
        /\ Scale * p * BucketLen \in Nat /\ d.count * (Scale * p * BucketLen) \in Nat
    BY <1>1, <1>2, <1>4, <1>5, <1>6, ProductTyped
  <1>10. (Scale * d.sum) * m <= d.count * (Scale * p * BucketLen)
    BY <1>7, <1>8, <1>9
  <1>11. ((Scale * d.sum) * m) \div d.count <= Scale * p * BucketLen
    BY <1>1, <1>9, <1>10, QuotientBound
  <1>12. DeviceRow(b, device, d.n, d.sum, d.count, id).energy
            = ((Scale * d.sum) * m) \div d.count
    BY RowFields DEF m
  <1> QED
    BY <1>11, <1>12

LEMMA EnergyOfBatch ==
    ASSUME NEW b, IsBucket(b), NEW id, NEW r \in BatchRows(b, id), r.energy # None
    PROVE  \E p \in Powers : r.energy <= Scale * p * BucketLen
  <1>1. CASE r = DeviceRow(b, "host", b.n, 0, 0, id)
    BY <1>1, RowFields
  <1>2. ASSUME NEW g \in Gpus,
               r = DeviceRow(b, g, b.gpu[g].n, b.gpu[g].sum, b.gpu[g].count, id)
        PROVE  \E p \in Powers : r.energy <= Scale * p * BucketLen
    <2>1. b.gpu[g] \in Devices /\ SumIsBounded(b.gpu[g])
      BY DEF IsBucket, BucketRecords
    <2>2. b.gpu[g].count # 0
      BY <1>2, RowFields
    <2> QED
      BY <1>2, <2>1, <2>2, EnergyOfRow
  <1> QED
    BY <1>1, <1>2, BatchRowsTyped

-----------------------------------------------------------------------------
(* Every step keeps the invariant                                          *)

LEMMA LedgerInit == Init => LedgerInv
  <1> SUFFICES ASSUME Init PROVE LedgerInv
    OBVIOUS
  <1>0. stopping \in BOOLEAN
    BY DEF Init
  <1>1. TypeOK
    <2>1. /\ clock \in 0 .. MaxTime /\ phase \in [Runs -> {"waiting", "active", "ended"}]
          /\ monitor = "off" /\ hand = None /\ bucket = None /\ batch = None
          /\ charged = None /\ rows = {}
      BY MonitorAssumption DEF Init
    <2> QED
      BY <1>0, <2>1 DEF TypeOK
  <1>2. BucketInv /\ BucketsAreWhole /\ EnergyIsBounded
    BY DEF Init, BucketInv, BucketsAreWhole, EnergyIsBounded
  <1> QED
    BY <1>1, <1>2 DEF LedgerInv

\* What a step that leaves the rows alone keeps.
LEMMA RowsKept ==
    ASSUME LedgerInv, UNCHANGED rows
    PROVE  BucketsAreWhole' /\ EnergyIsBounded'
  BY DEF LedgerInv, BucketsAreWhole, EnergyIsBounded, HostRows

\* Time, the runs, and the start and the stop event of the monitor.
LEMMA OutsideStep ==
    ASSUME LedgerInv,
           \/ TimePasses \/ ClockSetBack \/ (\E r \in Runs : RunBegins(r) \/ RunEnds(r))
           \/ Start \/ RequestStop
    PROVE  LedgerInv'
  <1>1. UNCHANGED <<hand, bucket, batch, charged, rows>>
    BY DEF TimePasses, ClockSetBack, RunBegins, RunEnds, Start, RequestStop, tableVars
  <1>2. /\ monitor' \in {"off", "idle", "fold", "attribute", "commit"}
        /\ \A m \in {"fold", "attribute", "commit"} : monitor' = m <=> monitor = m
    BY DEF TimePasses, ClockSetBack, RunBegins, RunEnds, Start, RequestStop, LedgerInv, TypeOK
  <1>3. clock' \in 0 .. MaxTime
    BY MonitorAssumption DEF TimePasses, ClockSetBack, RunBegins, RunEnds, Start, RequestStop,
                             LedgerInv, TypeOK
  <1>4. phase' \in [Runs -> {"waiting", "active", "ended"}] /\ stopping' \in BOOLEAN
    BY DEF TimePasses, ClockSetBack, RunBegins, RunEnds, Start, RequestStop, LedgerInv, TypeOK
  <1>5. TypeOK'
    BY <1>1, <1>2, <1>3, <1>4 DEF LedgerInv, TypeOK
  <1>6. BucketInv'
    BY <1>1 DEF LedgerInv, BucketInv
  <1> QED
    BY <1>1, <1>5, <1>6, RowsKept DEF LedgerInv

LEMMA CollectStep ==
    ASSUME LedgerInv, Collect
    PROVE  LedgerInv'
  <1>1. PICK power \in Samples : hand' = [time |-> clock, power |-> power]
    BY DEF Collect
  <1>2. hand' \in Hands /\ hand' # None
    BY <1>1, NoneFacts, MonitorAssumption DEF LedgerInv, TypeOK, Hands
  <1>3. /\ monitor = "idle" /\ monitor' = "fold"
        /\ UNCHANGED <<clock, phase, stopping, bucket, batch, charged, rows>>
    BY DEF Collect, tableVars
  <1>4. TypeOK' /\ BucketInv'
    BY <1>2, <1>3 DEF LedgerInv, TypeOK, BucketInv
  <1> QED
    BY <1>3, <1>4, RowsKept DEF LedgerInv

LEMMA FoldStep ==
    ASSUME LedgerInv, Fold
    PROVE  LedgerInv'
  <1>1. hand # None /\ hand \in Hands
    BY DEF Fold, LedgerInv, TypeOK, BucketInv
  <1>2. IsBucket(bucket')
    <2>1. CASE bucket = None
      BY <1>1, <2>1, NewBucketTyped DEF Fold
    <2>2. CASE bucket # None
      <3>1. IsBucket(bucket) /\ bucket' = AddSample(bucket, hand)
        BY <2>2 DEF Fold, LedgerInv, BucketInv
      <3> QED
        BY <1>1, <3>1, SampleAdded DEF IsBucket
    <2> QED
      BY <2>1, <2>2
  <1>3. /\ monitor = "fold" /\ monitor' = "idle" /\ hand' = None
        /\ UNCHANGED <<clock, phase, stopping, batch, charged, rows>>
    BY DEF Fold, tableVars
  <1>4. TypeOK' /\ BucketInv'
    BY <1>2, <1>3 DEF LedgerInv, TypeOK, BucketInv, IsBucket, BucketRecords
  <1> QED
    BY <1>3, <1>4, RowsKept DEF LedgerInv

LEMMA FlushStep ==
    ASSUME LedgerInv, BeginFlush \/ Attribute
    PROVE  LedgerInv'
  <1>1. CASE BeginFlush
    <2>1. /\ monitor = "fold" /\ monitor' = "attribute" /\ bucket # None
          /\ batch' = bucket /\ bucket' = None
          /\ UNCHANGED <<clock, phase, stopping, hand, charged, rows>>
      BY <1>1 DEF BeginFlush, tableVars
    <2>2. TypeOK' /\ BucketInv'
      BY <2>1 DEF LedgerInv, TypeOK, BucketInv
    <2> QED
      BY <2>1, <2>2, RowsKept DEF LedgerInv
  <1>2. CASE Attribute
    <2>1. /\ monitor = "attribute" /\ monitor' = "commit" /\ charged' = SingleActiveRun
          /\ UNCHANGED <<clock, phase, stopping, hand, bucket, batch, rows>>
      BY <1>2 DEF Attribute, tableVars
    <2>2. SingleActiveRun \in Runs \cup {None}
      <3>1. CASE Cardinality(ActiveRuns) = 1 /\ ActiveRuns # {}
        <4>1. \E r \in Runs : r \in ActiveRuns
          BY <3>1 DEF ActiveRuns
        <4> QED
          BY <3>1, <4>1 DEF SingleActiveRun
      <3>2. CASE Cardinality(ActiveRuns) # 1
        BY <3>2 DEF SingleActiveRun
      <3>3. ActiveRuns = {} => Cardinality(ActiveRuns) # 1
        BY FS_EmptySet
      <3> QED
        BY <3>1, <3>2, <3>3
    <2>3. TypeOK' /\ BucketInv'
      BY <2>1, <2>2 DEF LedgerInv, TypeOK, BucketInv
    <2> QED
      BY <2>1, <2>3, RowsKept DEF LedgerInv
  <1> QED
    BY <1>1, <1>2

\* What follows a write, or the error that replaces it.
LEMMA NextBucketKeeps ==
    ASSUME LedgerInv, NextBucket, monitor \in {"attribute", "commit"},
           UNCHANGED <<clock, phase, stopping>>,
           \A r \in rows' : r.device \in Gpus \cup {"host"} /\ r.run \in Runs \cup {None}
    PROVE  TypeOK' /\ BucketInv'
  <1>1. hand # None /\ hand \in Hands
    BY DEF LedgerInv, TypeOK, BucketInv
  <1>2. /\ bucket' = AddSample(NewBucket(FloorTime(hand.time)), hand)
        /\ hand' = None /\ batch' = None /\ charged' = None /\ monitor' = "idle"
    BY DEF NextBucket
  <1>3. IsBucket(bucket')
    BY <1>1, <1>2, NewBucketTyped
  <1>4. bucket'.start % BucketLen = 0 /\ bucket'.n > 0
    BY <1>3 DEF IsBucket
  <1>5. TypeOK'
    BY <1>2, <1>4 DEF LedgerInv, TypeOK
  <1>6. BucketInv'
    BY <1>2, <1>3 DEF BucketInv
  <1> QED
    BY <1>5, <1>6

LEMMA CommitStep ==
    ASSUME LedgerInv, Commit
    PROVE  LedgerInv'
  <1> DEFINE new == BatchRows(batch, charged)
  <1>1. /\ monitor = "commit" /\ ~Conflict /\ rows' = rows \cup new /\ NextBucket
        /\ UNCHANGED <<clock, phase, stopping>>
    BY DEF Commit
  <1>2. IsBucket(batch) /\ charged \in Runs \cup {None}
    BY <1>1 DEF LedgerInv, TypeOK, BucketInv
  <1>3. \A r \in new : /\ r.start = batch.start /\ r.run = charged
                        /\ r.device \in Gpus \cup {"host"}
    BY BatchRowsTyped
  <1>4. \A r \in new :
            \E h \in new : h.device = "host" /\ h.start = r.start /\ h.run = r.run /\ r.n <= h.n
    BY <1>2, BatchIsWhole
  <1>5. \A r, q \in new : q.device = r.device => q = r
    BY <1>2, BatchIsWhole
  <1>6. \A r \in new : r.energy # None => \E p \in Powers : r.energy <= Scale * p * BucketLen
    BY <1>2, EnergyOfBatch
  <1> HIDE DEF new
  <1>7. TypeOK' /\ BucketInv'
    <2>1. \A r \in rows' : r.device \in Gpus \cup {"host"} /\ r.run \in Runs \cup {None}
      BY <1>1, <1>2, <1>3 DEF LedgerInv, TypeOK
    <2> QED
      BY <1>1, <2>1, NextBucketKeeps
  <1>8. BucketsAreWhole'
    <2>1. \A r \in rows : r.start # batch.start
      BY <1>1 DEF Conflict
    <2>2. BucketsAreWhole
      BY DEF LedgerInv
    <2>3. ASSUME NEW r \in rows \cup new
          PROVE  \E h \in rows \cup new : /\ h.device = "host" /\ h.start = r.start
                                          /\ h.run = r.run /\ r.n <= h.n
      BY <1>4, <2>2 DEF BucketsAreWhole, HostRows
    <2>4. ASSUME NEW r \in rows \cup new, NEW q \in rows \cup new,
                 q.start = r.start, q.device = r.device
          PROVE  q = r
      <3>1. CASE r \in rows /\ q \in rows
        BY <2>2, <2>4, <3>1 DEF BucketsAreWhole
      <3>2. CASE r \in new /\ q \in new
        BY <1>5, <2>4, <3>2
      <3> QED
        BY <1>3, <2>1, <2>4, <3>1, <3>2
    <2> QED
      BY <1>1, <2>3, <2>4 DEF BucketsAreWhole, HostRows
  <1>9. EnergyIsBounded'
    BY <1>1, <1>6 DEF LedgerInv, EnergyIsBounded
  <1> QED
    BY <1>7, <1>8, <1>9 DEF LedgerInv

LEMMA FailureStep ==
    ASSUME LedgerInv, Refused \/ DatabaseFails \/ TickFails \/ Stop \/ Crash
    PROVE  LedgerInv'
  <1>1. CASE Refused \/ DatabaseFails
    <2>1. /\ NextBucket /\ monitor \in {"attribute", "commit"}
          /\ UNCHANGED <<clock, phase, stopping, rows>>
      BY <1>1 DEF Refused, DatabaseFails, DropBatch, tableVars
    <2>2. \A r \in rows' : r.device \in Gpus \cup {"host"} /\ r.run \in Runs \cup {None}
      BY <2>1 DEF LedgerInv, TypeOK
    <2> QED
      BY <2>1, <2>2, NextBucketKeeps, RowsKept DEF LedgerInv
  <1>2. CASE TickFails
    <2>1. /\ monitor' = "idle" /\ hand' = None /\ batch' = None
          /\ UNCHANGED <<clock, phase, stopping, bucket, charged, rows>>
      BY <1>2 DEF TickFails, tableVars
    <2>2. TypeOK' /\ BucketInv'
      BY <2>1 DEF LedgerInv, TypeOK, BucketInv
    <2> QED
      BY <2>1, <2>2, RowsKept DEF LedgerInv
  <1>3. CASE Stop \/ Crash
    <2>1. /\ monitor' = "off" /\ stopping' = FALSE /\ hand' = None /\ bucket' = None
          /\ batch' = None /\ charged' = None /\ UNCHANGED <<clock, phase, rows>>
      BY <1>3 DEF Stop, Crash, MonitorEnds, tableVars
    <2>2. stopping' \in BOOLEAN
      BY <2>1
    <2>3. TypeOK' /\ BucketInv'
      <3>1. clock' \in 0 .. MaxTime /\ phase' \in [Runs -> {"waiting", "active", "ended"}]
        BY <2>1 DEF LedgerInv, TypeOK
      <3>2. \A r \in rows' : r.device \in Gpus \cup {"host"} /\ r.run \in Runs \cup {None}
        BY <2>1 DEF LedgerInv, TypeOK
      <3>3. /\ monitor' = "off" /\ hand' = None /\ bucket' = None /\ batch' = None
            /\ charged' = None
        BY <2>1
      <3> HIDE <2>1
      <3> QED
        BY <2>2, <3>1, <3>2, <3>3 DEF TypeOK, BucketInv
    <2> QED
      BY <2>1, <2>3, RowsKept DEF LedgerInv
  <1> QED
    BY <1>1, <1>2, <1>3

LEMMA LedgerStep == LedgerInv /\ [Next]_vars => LedgerInv'
  <1> SUFFICES ASSUME LedgerInv, [Next]_vars PROVE LedgerInv'
    OBVIOUS
  <1>1. CASE UNCHANGED vars
    <2>1. UNCHANGED <<clock, phase, monitor, stopping, hand, bucket, batch, charged, rows>>
      BY <1>1 DEF vars
    <2>2. TypeOK' /\ BucketInv'
      BY <2>1 DEF LedgerInv, TypeOK, BucketInv
    <2> QED
      BY <2>1, <2>2, RowsKept DEF LedgerInv
  <1>2. CASE Next
    BY <1>2, OutsideStep, CollectStep, FoldStep, FlushStep, CommitStep, FailureStep DEF Next
  <1> QED
    BY <1>1, <1>2

\* The monitor has a sample in hand in a tick and a batch in a flush, and a
\* bucket begins at a multiple of its length, although the clock, the runs and
\* the failures come at any time.
THEOREM TypeCorrect == Spec => []TypeOK
  <1>1. LedgerInv => TypeOK
    BY DEF LedgerInv
  <1> QED
    BY <1>1, LedgerInit, LedgerStep, PTL DEF Spec

\* The rows of a bucket are written once and together: one of the host, one of
\* each device that was seen, all charged to the same run, although the bucket
\* may come again after a restart or when the clock is set back.
THEOREM BucketsStayWhole == Spec => []BucketsAreWhole
  <1>1. LedgerInv => BucketsAreWhole
    BY DEF LedgerInv
  <1> QED
    BY <1>1, LedgerInit, LedgerStep, PTL DEF Spec

\* A bucket of more samples than seconds (the clock was set back) is not charged
\* more energy than a reading over its length.
THEOREM EnergyStaysBounded == Spec => []EnergyIsBounded
  <1>1. LedgerInv => EnergyIsBounded
    BY DEF LedgerInv
  <1> QED
    BY <1>1, LedgerInit, LedgerStep, PTL DEF Spec

-----------------------------------------------------------------------------
(* The rows                                                                *)

RowRecords == [start : Nat, device : Gpus \cup {"host"}, run : Runs \cup {None},
               n : Nat, missing : Nat, energy : {None} \cup Nat, sum : Nat, count : Nat]

HostOf(S) == {r \in S : r.device = "host"}
GpusOf(S) == {r \in S : r.device # "host"}

\* Such rows can be added up.
LEMMA RowsTotalled ==
    ASSUME NEW S, S \subseteq RowRecords, IsFiniteSet(S),
           NEW field \in {"n", "energy", "sum"}
    PROVE  Totalled(field, S)
  <1>1. ASSUME NEW r \in S PROVE Known(r[field]) \in Nat
    <2>1. r \in RowRecords
      OBVIOUS
    <2>2. r.n \in Nat /\ r.energy \in {None} \cup Nat /\ r.sum \in Nat
      BY <2>1 DEF RowRecords
    <2> QED
      BY <2>2 DEF Known
  <1> QED
    BY <1>1 DEF Totalled

\* The rows of a batch: one of the host, with its samples, and one of each GPU
\* that was seen.
LEMMA BatchRowsAre ==
    ASSUME NEW b, IsBucket(b), NEW id \in Runs \cup {None}
    PROVE  LET new == BatchRows(b, id)
           IN  /\ new \subseteq RowRecords /\ IsFiniteSet(new)
               /\ \A r \in new : r.start = b.start /\ r.run = id /\ r.n > 0
               /\ \E h \in new : HostOf(new) = {h} /\ h.n = b.n /\ GpusOf(new) = new \ {h}
  <1> DEFINE host == DeviceRow(b, "host", b.n, 0, 0, id)
             seen == {g \in Gpus : b.gpu[g].n > 0}
             Of(g) == DeviceRow(b, g, b.gpu[g].n, b.gpu[g].sum, b.gpu[g].count, id)
             new == BatchRows(b, id)
  <1>1. /\ b.start \in Nat /\ b.n \in Nat /\ b.n > 0
        /\ \A g \in Gpus : /\ b.gpu[g].n \in Nat /\ b.gpu[g].sum \in Nat
                           /\ b.gpu[g].count \in Nat
    BY DEF IsBucket, BucketRecords, Devices
  <1>2. new = {host} \cup {Of(g) : g \in seen}
    BY DEF BatchRows
  <1>3. IsFiniteSet(new)
    <2>1. IsFiniteSet(seen)
      BY MonitorAssumption, FS_Subset
    <2> DEFINE f == [g \in seen |-> Of(g)]
               T == {Of(g) : g \in seen}
    <2>2. f \in Surjection(seen, T)
      BY DEF Surjection
    <2> HIDE DEF f
    <2>3. IsFiniteSet(T)
      <3> HIDE DEF T, seen
      <3> QED
        BY <2>1, <2>2, FS_Surjection
    <2>4. new = {host} \cup T
      BY <1>2
    <2> HIDE DEF T, host, new
    <2> QED
      BY <2>3, <2>4, FS_Singleton, FS_Union
  <1>4. host \in RowRecords /\ host.n = b.n /\ host.device = "host"
        /\ host.start = b.start /\ host.run = id
    BY <1>1, MonitorAssumption DEF DeviceRow, RowRecords
  <1>5. ASSUME NEW g \in seen
        PROVE  /\ Of(g) \in RowRecords /\ Of(g).n > 0 /\ Of(g).device = g
               /\ Of(g).start = b.start /\ Of(g).run = id
    <2> DEFINE n == b.gpu[g].n
               sum == b.gpu[g].sum
               count == b.gpu[g].count
    <2>1. n \in Nat /\ n > 0 /\ sum \in Nat /\ count \in Nat /\ Scale \in Nat
          /\ BucketLen \in Nat
      BY <1>1, MonitorAssumption
    <2>2. Lesser(BucketLen, n) \in Nat /\ (IF n < BucketLen THEN BucketLen - n ELSE 0) \in Nat
      BY <2>1 DEF Lesser
    <2>3. count # 0 => (Scale * sum * Lesser(BucketLen, n)) \div count \in Nat
      <3>1. Scale * sum * Lesser(BucketLen, n) \in Nat
        BY <2>1, <2>2, ProductTyped
      <3> QED
        BY <2>1, <3>1, QuotientTyped
    <2> HIDE DEF n, sum, count
    <2>4. DeviceRow(b, g, n, sum, count, id) \in RowRecords
      BY <1>1, <2>1, <2>2, <2>3 DEF DeviceRow, RowRecords
    <2>5. LET r == DeviceRow(b, g, n, sum, count, id)
          IN  r.n = n /\ r.device = g /\ r.start = b.start /\ r.run = id
      BY RowFields
    <2> QED
      BY <2>1, <2>4, <2>5 DEF n, sum, count
  <1>6. \A g \in seen : Of(g).device # "host"
    BY <1>5, MonitorAssumption
  <1>7. HostOf(new) = {host} /\ GpusOf(new) = new \ {host}
    <2> HIDE DEF host, Of, seen, new
    <2> QED
      BY <1>2, <1>4, <1>6 DEF HostOf, GpusOf
  <1>8. /\ new \subseteq RowRecords
        /\ \A r \in new : r.start = b.start /\ r.run = id /\ r.n > 0
    <2> HIDE DEF host, Of, seen, new
    <2> QED
      BY <1>1, <1>2, <1>4, <1>5
  <1> HIDE DEF host, Of, seen
  <1> QED
    BY <1>2, <1>3, <1>4, <1>7, <1>8

-----------------------------------------------------------------------------
(* Where the samples are                                                   *)

CountersTyped ==
    taken \in Nat /\ lost \in Nat /\ back \in Nat /\ faults \in Nat /\ stops \in Nat

\* Until something fails or the clock is set back, the buckets come in order.
InOrder ==
    /\ hand # None => hand.time <= clock
    /\ bucket # None =>
          /\ bucket.start <= FloorTime(clock)
          /\ hand # None => bucket.start <= FloorTime(hand.time)
          /\ \A r \in rows : r.start < bucket.start
    /\ batch # None =>
          batch.start < FloorTime(hand.time) /\ \A r \in rows : r.start < batch.start
    /\ bucket = None /\ batch = None => rows = {}

RowsInv == rows \subseteq RowRecords /\ IsFiniteSet(rows)

\* The invariant of the samples; InOrder is why no bucket comes twice until then.
AccountInv ==
    /\ CountersTyped /\ RowsInv
    /\ batch # None => bucket = None
    /\ stopping => stops > 0
    /\ SamplesAccountedFor
    /\ faults = 0 /\ stops = 0 /\ back = 0 => InOrder

\* The parts of InFlight.
LEMMA InFlightTyped ==
    ASSUME BucketInv
    PROVE  /\ hand # None => hand.time \in Nat
           /\ bucket # None => bucket.n \in Nat /\ bucket.start \in Nat
           /\ batch # None => batch.n \in Nat /\ batch.start \in Nat
           /\ InFlight \in Nat
  <1>1. hand # None => hand.time \in Nat
    BY DEF BucketInv, Hands
  <1>2. /\ bucket # None => bucket.n \in Nat /\ bucket.start \in Nat
        /\ batch # None => batch.n \in Nat /\ batch.start \in Nat
    BY DEF BucketInv, IsBucket, BucketRecords
  <1> QED
    BY <1>1, <1>2 DEF InFlight

LEMMA SumGrows ==
    ASSUME NEW a \in Nat, NEW b \in Nat, NEW c \in Nat, NEW d \in Nat, NEW e \in Nat,
           b <= d, c <= e, a + b + c > 0
    PROVE  a + d + e > 0
  OBVIOUS

LEMMA SampleCounted ==
    ASSUME NEW b \in BucketRecords, NEW h
    PROVE  AddSample(b, h).n = b.n + 1
  BY DEF AddSample, BucketRecords

LEMMA NewBucketCounted ==
    ASSUME NEW h \in Hands
    PROVE  /\ AddSample(NewBucket(FloorTime(h.time)), h).n = 1
           /\ AddSample(NewBucket(FloorTime(h.time)), h).start = FloorTime(h.time)
  BY DEF AddSample, NewBucket

LEMMA HostTotalTyped ==
    ASSUME RowsInv
    PROVE  Totalled("n", HostRows) /\ TotalOf("n", HostRows) \in Nat
  <1>1. HostRows \subseteq RowRecords /\ IsFiniteSet(HostRows)
    BY FS_Subset DEF RowsInv, HostRows
  <1>2. Totalled("n", HostRows)
    BY <1>1, RowsTotalled
  <1>3. Totalled("n", {}) /\ HostRows \cap {} = {}
    BY FS_EmptySet DEF Totalled
  <1> QED
    BY <1>2, <1>3, TotalsAdd

LEMMA AccountInit == Init => AccountInv
  <1> SUFFICES ASSUME Init PROVE AccountInv
    OBVIOUS
  <1>1. HostRows = {} /\ RowsInv
    BY FS_EmptySet DEF Init, HostRows, RowsInv
  <1>2. TotalOf("n", HostRows) = 0
    BY <1>1, TotalOfNone
  <1> QED
    BY <1>1, <1>2 DEF Init, AccountInv, CountersTyped, SamplesAccountedFor, InFlight, InOrder

\* Time, the runs, and the start and the stop event of the monitor.
LEMMA OutsideAccounts ==
    ASSUME LedgerInv, AccountInv,
           \/ TimePasses \/ ClockSetBack \/ (\E r \in Runs : RunBegins(r) \/ RunEnds(r))
           \/ Start \/ RequestStop \/ Attribute
    PROVE  AccountInv'
  <1>1. UNCHANGED <<hand, bucket, batch, rows, taken, lost, faults>>
    BY DEF TimePasses, ClockSetBack, RunBegins, RunEnds, Start, RequestStop, Attribute,
           tableVars, boundVars
  <1>2. /\ HostRows' = HostRows /\ InFlight' = InFlight /\ RowsInv'
    BY <1>1 DEF HostRows, InFlight, AccountInv, RowsInv
  <1>3. /\ back' \in Nat /\ stops' \in Nat /\ back' >= back /\ stops' >= stops
        /\ stopping' => stopping \/ stops' > stops
    BY DEF TimePasses, ClockSetBack, RunBegins, RunEnds, Start, RequestStop, Attribute,
           tableVars, boundVars, AccountInv, CountersTyped
  <1>4. faults \in Nat /\ stops \in Nat /\ back \in Nat /\ clock \in Nat
    BY DEF AccountInv, CountersTyped, LedgerInv, TypeOK
  <1>5. SamplesAccountedFor'
    <2>1. lost > 0 => faults + stops + back > 0
      BY DEF AccountInv, SamplesAccountedFor
    <2>2. lost' = lost /\ faults' = faults /\ lost \in Nat
      BY <1>1 DEF AccountInv, CountersTyped
    <2>3. lost' > 0 => faults' + stops' + back' > 0
      <3>1. back' \in Nat /\ stops' \in Nat /\ back' >= back /\ stops' >= stops
        BY <1>3
      <3> QED
        BY <1>4, <2>1, <2>2, <3>1, SumGrows
    <2> QED
      BY <1>1, <1>2, <2>3 DEF AccountInv, SamplesAccountedFor
  <1>6. faults' = 0 /\ stops' = 0 /\ back' = 0 => InOrder'
    <2> SUFFICES ASSUME faults' = 0, stops' = 0, back' = 0 PROVE InOrder'
      OBVIOUS
    <2>1. InOrder
      BY <1>1, <1>3, <1>4 DEF AccountInv
    <2>2. clock' \in Nat /\ clock <= clock'
      BY <1>3, <1>4
      DEF TimePasses, ClockSetBack, RunBegins, RunEnds, Start, RequestStop, Attribute
    <2>3. FloorTime(clock) <= FloorTime(clock') /\ FloorTime(clock) \in Nat
          /\ FloorTime(clock') \in Nat
      BY <1>4, <2>2, FloorMonotone, FloorTyped
    <2>4. /\ hand # None => hand.time \in Nat
          /\ bucket # None => bucket.start \in Nat
      BY InFlightTyped DEF LedgerInv
    <2>5. hand' # None => hand'.time <= clock'
      BY <1>1, <1>4, <2>1, <2>2, <2>4 DEF InOrder
    <2>6. bucket' # None => bucket'.start <= FloorTime(clock')
      BY <1>1, <2>1, <2>3, <2>4 DEF InOrder
    <2>7. /\ bucket' # None =>
                /\ hand' # None => bucket'.start <= FloorTime(hand'.time)
                /\ \A r \in rows' : r.start < bucket'.start
          /\ batch' # None =>
                batch'.start < FloorTime(hand'.time) /\ \A r \in rows' : r.start < batch'.start
          /\ bucket' = None /\ batch' = None => rows' = {}
      BY <1>1, <2>1 DEF InOrder, FloorTime
    <2> QED
      BY <2>5, <2>6, <2>7 DEF InOrder
  <1> QED
    BY <1>1, <1>2, <1>3, <1>4, <1>5, <1>6 DEF AccountInv, CountersTyped

LEMMA CollectAccounts ==
    ASSUME LedgerInv, AccountInv, Collect
    PROVE  AccountInv'
  <1>1. PICK power \in Samples : hand' = [time |-> clock, power |-> power]
    BY DEF Collect
  <1>2. /\ clock \in Nat /\ hand' # None /\ hand'.time = clock
    BY <1>1, NoneFacts, MonitorAssumption DEF LedgerInv, TypeOK, Hands
  <1>3. /\ hand = None /\ batch = None /\ taken' = taken + 1
        /\ UNCHANGED <<clock, stopping, bucket, batch, rows, lost, back, faults, stops>>
    BY DEF Collect, tableVars, boundVars, LedgerInv, TypeOK
  <1>4. bucket # None => bucket.n \in Nat
    BY InFlightTyped DEF LedgerInv
  <1>5. InFlight' = InFlight + 1 /\ InFlight \in Nat /\ HostRows' = HostRows /\ RowsInv'
    BY <1>2, <1>3, <1>4 DEF InFlight, HostRows, AccountInv, RowsInv
  <1>6. SamplesAccountedFor'
    <2>1. TotalOf("n", HostRows) \in Nat
      BY HostTotalTyped DEF AccountInv
    <2> HIDE DEF TotalOf, InFlight, HostRows
    <2> QED
      BY <1>3, <1>5, <2>1 DEF AccountInv, SamplesAccountedFor, CountersTyped
  <1>7. InOrder => InOrder'
    BY <1>2, <1>3 DEF InOrder, FloorTime
  <1> QED
    BY <1>3, <1>5, <1>6, <1>7 DEF AccountInv, CountersTyped

LEMMA FoldAccounts ==
    ASSUME LedgerInv, AccountInv, Fold
    PROVE  AccountInv'
  <1>1. /\ hand # None /\ hand \in Hands /\ hand.time \in Nat /\ clock \in Nat
    BY DEF Fold, LedgerInv, TypeOK, BucketInv, Hands
  <1>2. /\ batch = None /\ hand' = None /\ (bucket # None => bucket.start = FloorTime(hand.time))
        /\ bucket' = AddSample(IF bucket = None THEN NewBucket(FloorTime(hand.time))
                               ELSE bucket, hand)
        /\ UNCHANGED <<clock, stopping, batch, rows, taken, lost, back, faults, stops>>
    BY DEF Fold, tableVars, boundVars, LedgerInv, TypeOK
  <1>3. bucket' # None
    <2>1. CASE bucket = None
      BY <1>1, <1>2, <2>1, NewBucketTyped, NoneFacts DEF IsBucket
    <2>2. CASE bucket # None
      <3>1. IsBucket(bucket)
        BY <2>2 DEF LedgerInv, BucketInv
      <3> QED
        BY <1>1, <1>2, <2>2, <3>1, SampleAdded, NoneFacts DEF IsBucket
    <2> QED
      BY <2>1, <2>2
  <1>4. /\ bucket # None => bucket \in BucketRecords /\ bucket.start \in Nat /\ bucket.n \in Nat
        /\ bucket'.n = (IF bucket = None THEN 0 ELSE bucket.n) + 1
        /\ bucket'.start = FloorTime(hand.time)
    <2>1. CASE bucket = None
      BY <1>1, <1>2, <2>1, NewBucketCounted
    <2>2. CASE bucket # None
      <3>1. IsBucket(bucket) /\ bucket \in BucketRecords
        BY <2>2 DEF LedgerInv, BucketInv, IsBucket
      <3> QED
        BY <1>1, <1>2, <2>2, <3>1, SampleCounted, SampleAdded DEF IsBucket, BucketRecords
    <2> QED
      BY <2>1, <2>2
  <1>5. InFlight' = InFlight /\ HostRows' = HostRows /\ RowsInv'
    BY <1>1, <1>2, <1>3, <1>4 DEF InFlight, HostRows, AccountInv, RowsInv
  <1>6. SamplesAccountedFor'
    BY <1>2, <1>5 DEF AccountInv, SamplesAccountedFor
  <1>7. InOrder => InOrder'
    <2> SUFFICES ASSUME InOrder PROVE InOrder'
      OBVIOUS
    <2>1. hand.time <= clock
      BY <1>1 DEF InOrder
    <2>2. FloorTime(hand.time) <= FloorTime(clock)
      BY <1>1, <2>1, FloorMonotone
    <2>3. \A r \in rows : r.start < FloorTime(hand.time)
      BY <1>2 DEF InOrder
    <2> QED
      BY <1>2, <1>3, <1>4, <2>2, <2>3 DEF InOrder, FloorTime
  <1> QED
    BY <1>2, <1>5, <1>6, <1>7 DEF AccountInv, CountersTyped

LEMMA FlushAccounts ==
    ASSUME LedgerInv, AccountInv, BeginFlush
    PROVE  AccountInv'
  <1>1. /\ hand # None /\ hand \in Hands /\ hand.time \in Nat
    BY DEF BeginFlush, LedgerInv, TypeOK, BucketInv, Hands
  <1>2. /\ batch = None /\ bucket # None /\ bucket.start # FloorTime(hand.time)
        /\ batch' = bucket /\ bucket' = None
        /\ UNCHANGED <<hand, clock, stopping, rows, taken, lost, back, faults, stops>>
    BY DEF BeginFlush, tableVars, boundVars, LedgerInv, TypeOK
  <1>3. bucket.n \in Nat /\ bucket.start \in Nat /\ FloorTime(hand.time) \in Nat
    BY <1>1, <1>2, InFlightTyped, FloorTyped DEF LedgerInv
  <1>4. InFlight' = InFlight /\ HostRows' = HostRows /\ RowsInv'
    BY <1>1, <1>2, <1>3 DEF InFlight, HostRows, AccountInv, RowsInv
  <1>5. SamplesAccountedFor'
    BY <1>2, <1>4 DEF AccountInv, SamplesAccountedFor
  <1>6. InOrder => InOrder'
    <2> HIDE DEF FloorTime
    <2>1. FloorTime(hand.time)' = FloorTime(hand.time)
      BY <1>2 DEF FloorTime
    <2> QED
      BY <1>1, <1>2, <1>3, <2>1 DEF InOrder
  <1> QED
    BY <1>2, <1>4, <1>5, <1>6 DEF AccountInv, CountersTyped

LEMMA CommitAccounts ==
    ASSUME LedgerInv, AccountInv, Commit
    PROVE  AccountInv'
  <1> DEFINE new == BatchRows(batch, charged)
             start == FloorTime(hand.time)
  <1>1. /\ hand # None /\ hand \in Hands /\ hand.time \in Nat /\ clock \in Nat
        /\ batch # None /\ IsBucket(batch) /\ charged \in Runs \cup {None}
    BY DEF Commit, LedgerInv, TypeOK, BucketInv, Hands
  <1>2. /\ rows' = rows \cup new /\ ~Conflict
        /\ bucket' = AddSample(NewBucket(start), hand)
        /\ hand' = None /\ batch' = None
        /\ UNCHANGED <<clock, stopping, taken, lost, back, faults, stops>>
    BY DEF Commit, NextBucket, boundVars
  <1>3. PICK h \in new : HostOf(new) = {h} /\ h.n = batch.n
    BY <1>1, BatchRowsAre
  <1>4. /\ new \subseteq RowRecords /\ IsFiniteSet(new)
        /\ \A r \in new : r.start = batch.start
    BY <1>1, BatchRowsAre
  <1> HIDE DEF new
  <1>5. bucket' # None /\ bucket'.n = 1 /\ bucket'.start = start
    BY <1>1, <1>2, NewBucketTyped, NewBucketCounted, NoneFacts DEF IsBucket
  <1>6. bucket = None /\ batch.n \in Nat /\ batch.start \in Nat
    BY <1>1, InFlightTyped DEF AccountInv, LedgerInv
  <1>7. InFlight = 1 + batch.n /\ InFlight' = 1
    BY <1>1, <1>2, <1>5, <1>6 DEF InFlight
  <1>8. RowsInv'
    BY <1>2, <1>4, FS_Union DEF AccountInv, RowsInv
  <1>9. TotalOf("n", HostRows') = TotalOf("n", HostRows) + batch.n
        /\ TotalOf("n", HostRows) \in Nat
    <2>1. HostRows' = HostRows \cup {h} /\ HostRows \cap {h} = {}
      <3>1. \A r \in rows : r.start # batch.start
        BY <1>2 DEF Conflict
      <3> QED
        BY <1>2, <1>3, <1>4, <3>1 DEF HostRows, HostOf
    <2>2. Known(h.n) = batch.n
      BY <1>3, <1>6, NoneAssumption DEF Known
    <2>3. Totalled("n", {h}) /\ TotalOf("n", {h}) = batch.n
      BY <1>6, <2>2, TotalOfOne
    <2>4. Totalled("n", HostRows) /\ TotalOf("n", HostRows) \in Nat
      BY HostTotalTyped DEF AccountInv
    <2>5. TotalOf("n", HostRows \cup {h}) = TotalOf("n", HostRows) + TotalOf("n", {h})
      BY <2>1, <2>3, <2>4, TotalsAdd
    <2> QED
      BY <2>1, <2>3, <2>4, <2>5
  <1>10. SamplesAccountedFor'
    <2>1. taken = InFlight + TotalOf("n", HostRows) + lost
      BY DEF AccountInv, SamplesAccountedFor
    <2>2. taken' = InFlight' + TotalOf("n", HostRows') + lost'
      <3> DEFINE t == TotalOf("n", HostRows)
                 u == TotalOf("n", HostRows')
      <3>1. /\ taken = InFlight + t + lost /\ u = t + batch.n /\ t \in Nat
            /\ taken' = taken /\ lost' = lost /\ taken \in Nat /\ lost \in Nat
        BY <1>2, <1>9, <2>1 DEF AccountInv, CountersTyped
      <3> HIDE DEF t, u
      <3>2. taken' = InFlight' + u + lost'
        BY <1>6, <1>7, <3>1
      <3> QED
        BY <3>2 DEF u
    <2>3. lost' > 0 => faults' + stops' + back' > 0
      BY <1>2 DEF AccountInv, SamplesAccountedFor
    <2>4. TotalOf("n", HostRows)' = TotalOf("n", HostRows')
      OBVIOUS
    <2> QED
      BY <2>2, <2>3, <2>4 DEF SamplesAccountedFor
  <1>11. InOrder => InOrder'
    <2> SUFFICES ASSUME InOrder PROVE InOrder'
      OBVIOUS
    <2>1. start \in Nat /\ start <= FloorTime(clock)
      <3>1. hand.time <= clock
        BY <1>1 DEF InOrder
      <3> QED
        BY <1>1, <3>1, FloorMonotone, FloorTyped
    <2>2. \A r \in rows : r.start < batch.start /\ r.start \in Nat
      BY <1>1 DEF InOrder, AccountInv, RowsInv, RowRecords
    <2>3. batch.start < start
      BY <1>1 DEF InOrder
    <2>4. \A r \in rows' : r.start < start
      BY <1>2, <1>4, <1>6, <2>1, <2>2, <2>3
    <2>5. FloorTime(clock)' = FloorTime(clock)
      BY <1>2 DEF FloorTime
    <2> HIDE DEF start
    <2> QED
      BY <1>2, <1>5, <2>1, <2>4, <2>5 DEF InOrder
  <1> QED
    BY <1>2, <1>8, <1>10, <1>11 DEF AccountInv, CountersTyped

LEMMA SumPositive ==
    ASSUME NEW a \in Nat, NEW b \in Nat, NEW c \in Nat
    PROVE  a + b + c > 0 <=> ~(a = 0 /\ b = 0 /\ c = 0)
  OBVIOUS

\* What was in flight is lost, and something has failed.
LEMMA LossAccounted ==
    ASSUME LedgerInv, AccountInv, UNCHANGED <<rows, taken>>,
           lost' \in Nat, back' \in Nat, faults' \in Nat, stops' \in Nat,
           InFlight' \in Nat, InFlight' + lost' = InFlight + lost,
           ~(faults' = 0 /\ stops' = 0 /\ back' = 0),
           batch' # None => bucket' = None, stopping' => stops' > 0
    PROVE  AccountInv'
  <1>1. HostRows' = HostRows /\ RowsInv' /\ TotalOf("n", HostRows) \in Nat
    BY HostTotalTyped DEF AccountInv, RowsInv, HostRows
  <1>2. taken' = InFlight' + TotalOf("n", HostRows) + lost'
    <2> DEFINE t == TotalOf("n", HostRows)
               i == InFlight
               j == InFlight'
               l == lost
               m == lost'
    <2>1. /\ taken = i + t + l /\ taken' = taken /\ t \in Nat
          /\ i \in Nat /\ j \in Nat /\ l \in Nat /\ m \in Nat /\ j + m = i + l
      BY <1>1, InFlightTyped DEF AccountInv, SamplesAccountedFor, CountersTyped, LedgerInv
    <2> HIDE DEF t, i, j, l, m
    <2>2. i + t + l = j + t + m
      BY <2>1
    <2> QED
      BY <2>1, <2>2 DEF t, j, m
  <1>3. TotalOf("n", HostRows)' = TotalOf("n", HostRows)
    BY <1>1
  <1>4. SamplesAccountedFor'
    BY <1>2, <1>3, SumPositive DEF SamplesAccountedFor
  <1>5. CountersTyped'
    BY DEF AccountInv, CountersTyped
  <1> QED
    BY <1>1, <1>4, <1>5 DEF AccountInv

LEMMA FailureAccounts ==
    ASSUME LedgerInv, AccountInv, Refused \/ DatabaseFails \/ TickFails \/ Stop \/ Crash
    PROVE  AccountInv'
  <1>0. /\ lost \in Nat /\ back \in Nat /\ faults \in Nat /\ stops \in Nat
        /\ InFlight \in Nat /\ (stopping => stops > 0)
        /\ (batch # None => bucket = None)
    BY InFlightTyped DEF AccountInv, CountersTyped, LedgerInv
  <1>1. CASE Refused \/ DatabaseFails
    <2>1. /\ hand # None /\ hand \in Hands /\ batch # None /\ bucket = None
          /\ batch.n \in Nat /\ batch.start \in Nat
      BY <1>0, <1>1, InFlightTyped DEF Refused, DatabaseFails, LedgerInv, TypeOK, BucketInv
    <2>2. /\ hand' = None /\ batch' = None
          /\ bucket' = AddSample(NewBucket(FloorTime(hand.time)), hand)
          /\ lost' = lost + batch.n
          /\ UNCHANGED <<rows, taken, stopping, back, stops>>
      BY <1>1 DEF Refused, DatabaseFails, DropBatch, NextBucket, tableVars
    <2>3. bucket' # None /\ bucket'.n = 1
      BY <2>1, <2>2, NewBucketTyped, NewBucketCounted, NoneFacts DEF IsBucket
    <2>4. InFlight = 1 + batch.n /\ InFlight' = 1
      BY <2>1, <2>2, <2>3 DEF InFlight
    <2>5. faults' \in Nat /\ ~(faults' = 0 /\ stops' = 0 /\ back' = 0)
      <3>1. CASE DatabaseFails
        <4>1. faults' = faults + 1
          BY <3>1 DEF DatabaseFails
        <4> QED
          BY <1>0, <2>2, <4>1
      <3>2. CASE Refused
        <4>1. faults' = faults /\ Conflict
          BY <3>2 DEF Refused
        <4>2. ~InOrder
          <5>1. PICK r \in rows : r.start = batch.start
            BY <4>1 DEF Conflict
          <5> QED
            BY <2>1, <5>1 DEF InOrder
        <4>3. ~(faults = 0 /\ stops = 0 /\ back = 0)
          BY <4>2 DEF AccountInv
        <4> QED
          BY <1>0, <2>2, <4>1, <4>3
      <3> QED
        BY <1>1, <3>1, <3>2
    <2> QED
      BY <1>0, <2>1, <2>2, <2>4, <2>5, LossAccounted
  <1>2. CASE TickFails
    <2>1. hand # None /\ batch # None /\ bucket = None /\ batch.n \in Nat
      BY <1>0, <1>2, InFlightTyped DEF TickFails, LedgerInv, TypeOK
    <2>2. /\ hand' = None /\ batch' = None /\ bucket' = bucket
          /\ lost' = lost + batch.n + 1 /\ faults' = faults + 1
          /\ UNCHANGED <<rows, taken, stopping, back, stops>>
      BY <1>2 DEF TickFails, tableVars
    <2>3. InFlight = 1 + batch.n /\ InFlight' = 0
      BY <2>1, <2>2 DEF InFlight
    <2>4. InFlight' + lost' = InFlight + lost /\ lost' \in Nat /\ faults' \in Nat /\ faults' # 0
      BY <1>0, <2>1, <2>2, <2>3
    <2> QED
      BY <1>0, <2>1, <2>2, <2>3, <2>4, LossAccounted
  <1>3. CASE Stop \/ Crash
    <2>1. /\ hand' = None /\ batch' = None /\ bucket' = None /\ ~stopping'
          /\ lost' = lost + InFlight
          /\ UNCHANGED <<rows, taken, back, faults>>
      BY <1>3 DEF Stop, Crash, MonitorEnds, tableVars
    <2>2. stops' \in Nat /\ stops' > 0
      BY <1>0, <1>3 DEF Stop, Crash
    <2>3. InFlight' = 0
      BY <2>1 DEF InFlight
    <2> QED
      BY <1>0, <2>1, <2>2, <2>3, LossAccounted
  <1> QED
    BY <1>1, <1>2, <1>3

LEMMA AccountStep == LedgerInv /\ AccountInv /\ [Next]_vars => AccountInv'
  <1> SUFFICES ASSUME LedgerInv, AccountInv, [Next]_vars PROVE AccountInv'
    OBVIOUS
  <1>1. CASE UNCHANGED vars
    <2>1. UNCHANGED <<hand, bucket, batch, rows, taken, lost, clock, stopping,
                      back, faults, stops>>
      BY <1>1 DEF vars
    <2>2. HostRows' = HostRows /\ InFlight' = InFlight /\ RowsInv'
      BY <2>1 DEF HostRows, InFlight, AccountInv, RowsInv
    <2>3. SamplesAccountedFor'
      BY <2>1, <2>2 DEF AccountInv, SamplesAccountedFor
    <2>4. InOrder => InOrder'
      BY <2>1 DEF InOrder, FloorTime
    <2> QED
      BY <2>1, <2>2, <2>3, <2>4 DEF AccountInv, CountersTyped
  <1>2. CASE Next
    BY <1>2, OutsideAccounts, CollectAccounts, FoldAccounts, FlushAccounts, CommitAccounts,
       FailureAccounts DEF Next
  <1> QED
    BY <1>1, <1>2

\* No sample is counted twice or dropped at a change of bucket.
THEOREM SamplesStayAccountedFor == Spec => []SamplesAccountedFor
  <1>1. Init => LedgerInv /\ AccountInv
    BY LedgerInit, AccountInit
  <1>2. LedgerInv /\ AccountInv /\ [Next]_vars => (LedgerInv /\ AccountInv)'
    BY LedgerStep, AccountStep
  <1>3. AccountInv => SamplesAccountedFor
    BY DEF AccountInv
  <1> QED
    BY <1>1, <1>2, <1>3, PTL DEF Spec

-----------------------------------------------------------------------------
(* The usage of a run                                                      *)

Averages == {None} \cup [num : Nat, den : Nat]
UsageRecords == [buckets : Nat, host : Nat, gpu : Nat, energy : Nat, average : Averages,
                 first : {None} \cup Nat, last : {None} \cup Nat]

\* An average is that of all readings of the rows, if no sample lacked one.
AverageFits(average, S) ==
    (\A r \in S : r.count = r.n) =>
        IF S = {} THEN average = None
        ELSE /\ average \in [num : Nat, den : Nat]
             /\ average.num * TotalOf("n", S) = average.den * TotalOf("sum", S)

\* The rows of GPUs: each of them has a sample.
GpuRecords == {r \in RowRecords : r.n > 0 /\ r.device # "host"}

\* The merge of an average num/den of n readings with c readings of sum t.
IsMergedAverage(num, den, n, c, s, t) ==
    (num * n * c + t * c * den) * (n + c) = (den * c * (n + c)) * (s + t)

LEMMA AverageArithmetic ==
    ASSUME NEW num \in Nat, NEW den \in Nat, NEW n \in Nat, NEW s \in Nat,
           NEW c \in Nat, NEW t \in Nat, num * n = den * s
    PROVE  IsMergedAverage(num, den, n, c, s, t)
  <1>1. num * n * c + t * c * den = (den * c) * (s + t)
    <2>1. num * n * c = den * s * c
      OBVIOUS
    <2>2. den * s * c + t * c * den = (den * c) * (s + t)
      OBVIOUS
    <2> QED
      BY <2>1, <2>2
  <1>2. \A a, b, k \in Nat : (a * b) * k = (a * k) * b
    OBVIOUS
  <1> DEFINE a == den * c
             b == s + t
             k == n + c
  <1>3. a \in Nat /\ b \in Nat /\ k \in Nat
    BY ProductTyped
  <1>4. (a * b) * k = (a * k) * b
    <2> HIDE DEF a, b, k
    <2> QED
      BY <1>2, <1>3
  <1> QED
    BY <1>1, <1>4 DEF IsMergedAverage

LEMMA GpuTotals ==
    ASSUME NEW S, S \subseteq GpuRecords, IsFiniteSet(S)
    PROVE  /\ \A field \in {"n", "energy", "sum"} :
                 Totalled(field, S) /\ TotalOf(field, S) \in Nat
           /\ S # {} => TotalOf("n", S) > 0
  <1>1. S \subseteq RowRecords
    BY DEF GpuRecords
  <1>2. ASSUME NEW field \in {"n", "energy", "sum"}
        PROVE  Totalled(field, S) /\ TotalOf(field, S) \in Nat
    <2>1. Totalled(field, S) /\ Totalled(field, {}) /\ S \cap {} = {}
      BY <1>1, RowsTotalled, FS_EmptySet DEF Totalled
    <2> QED
      BY <2>1, TotalsAdd
  <1>3. ASSUME S # {} PROVE TotalOf("n", S) > 0
    <2>1. PICK r \in S : TRUE
      BY <1>3
    <2>2. r.n \in Nat /\ r.n > 0 /\ Known(r.n) = r.n
      BY NoneAssumption DEF GpuRecords, RowRecords, Known
    <2>3. Totalled("n", {r}) /\ TotalOf("n", {r}) = r.n
      BY <2>2, TotalOfOne
    <2>4. Totalled("n", S \ {r})
      BY <1>2, FS_Subset DEF Totalled
    <2>5. S = (S \ {r}) \cup {r} /\ (S \ {r}) \cap {r} = {}
      BY <2>1
    <2>6. /\ TotalOf("n", S \ {r}) \in Nat
          /\ TotalOf("n", (S \ {r}) \cup {r}) = TotalOf("n", S \ {r}) + TotalOf("n", {r})
      BY <2>3, <2>4, <2>5, TotalsAdd
    <2> DEFINE a == TotalOf("n", S \ {r})
               b == TotalOf("n", S)
    <2>7. a \in Nat /\ b = a + r.n
      BY <2>3, <2>5, <2>6
    <2> HIDE DEF a, b
    <2>8. b > 0
      BY <2>2, <2>7
    <2> QED
      BY <2>8 DEF b
  <1> QED
    BY <1>2, <1>3

\* One more row of a GPU.
LEMMA AverageMerged ==
    ASSUME NEW average \in Averages, NEW S, S \subseteq GpuRecords, IsFiniteSet(S),
           NEW row \in GpuRecords, row \notin S
    PROVE  /\ MergeAverage(average, TotalOf("n", S), row) \in Averages
           /\ AverageFits(average, S) =>
                 AverageFits(MergeAverage(average, TotalOf("n", S), row), S \cup {row})
  <1> DEFINE n == TotalOf("n", S)
             s == TotalOf("sum", S)
             merged == MergeAverage(average, n, row)
  <1>1. n \in Nat /\ s \in Nat /\ (S # {} => n > 0)
    BY GpuTotals
  <1>2. row.n \in Nat /\ row.n > 0 /\ row.sum \in Nat /\ row.count \in Nat
    BY DEF GpuRecords, RowRecords
  <1>3. /\ TotalOf("n", S \cup {row}) = n + row.n
        /\ TotalOf("sum", S \cup {row}) = s + row.sum
    <2>1. Known(row.n) = row.n /\ Known(row.sum) = row.sum
      BY <1>2, NoneAssumption DEF Known
    <2>2. /\ Totalled("n", {row}) /\ TotalOf("n", {row}) = row.n
          /\ Totalled("sum", {row}) /\ TotalOf("sum", {row}) = row.sum
      BY <1>2, <2>1, TotalOfOne
    <2>3. Totalled("n", S) /\ Totalled("sum", S) /\ S \cap {row} = {}
      BY GpuTotals
    <2>4. /\ TotalOf("n", S \cup {row}) = TotalOf("n", S) + TotalOf("n", {row})
          /\ TotalOf("sum", S \cup {row}) = TotalOf("sum", S) + TotalOf("sum", {row})
      BY <2>2, <2>3, TotalsAdd
    <2> QED
      BY <2>2, <2>4
  <1> HIDE DEF n, s
  <1>4. \A k \in Nat : k # None
    BY NoneAssumption
  <1>5. CASE row.count = 0
    <2>1. merged = average /\ row.count # row.n
      BY <1>2, <1>5 DEF MergeAverage
    <2>2. AverageFits(merged, S \cup {row})
      BY <2>1 DEF AverageFits
    <2> QED
      BY <2>1, <2>2 DEF n
  <1>6. CASE row.count # 0 /\ (average = None \/ n = 0)
    <2>1. merged = [num |-> row.sum, den |-> row.count]
      BY <1>6 DEF MergeAverage
    <2>2. merged \in [num : Nat, den : Nat] /\ merged.num = row.sum /\ merged.den = row.count
      BY <1>2, <2>1
    <2> HIDE DEF merged
    <2>3. ASSUME AverageFits(average, S), \A r \in S \cup {row} : r.count = r.n
          PROVE  merged.num * TotalOf("n", S \cup {row})
                   = merged.den * TotalOf("sum", S \cup {row})
      <3>1. row.count = row.n /\ \A r \in S : r.count = r.n
        BY <2>3
      <3>2. S = {}
        BY <1>1, <1>6, <2>3, <3>1, NoneAssumption DEF AverageFits
      <3>3. n = 0 /\ s = 0
        BY <3>2, TotalOfNone DEF n, s
      <3>4. row.sum * (0 + row.n) = row.n * (0 + row.sum)
        BY <1>2
      <3> QED
        BY <1>3, <2>2, <3>1, <3>3, <3>4
    <2>4. AverageFits(average, S) => AverageFits(merged, S \cup {row})
      BY <2>2, <2>3 DEF AverageFits
    <2> QED
      BY <2>2, <2>4 DEF merged, n, Averages
  <1>7. CASE row.count # 0 /\ average # None /\ n # 0
    <2> DEFINE num == average.num
               den == average.den
    <2>1. average \in [num : Nat, den : Nat] /\ num \in Nat /\ den \in Nat
      BY <1>7 DEF Averages
    <2>2. merged = [num |-> num * n * row.count + row.sum * row.n * den,
                    den |-> den * row.count * (n + row.n)]
      BY <1>7 DEF MergeAverage
    <2>3. /\ num * n * row.count + row.sum * row.n * den \in Nat
          /\ den * row.count * (n + row.n) \in Nat
      <3> HIDE DEF num, den
      <3>1. /\ num * n * row.count \in Nat /\ row.sum * row.n * den \in Nat
            /\ den * row.count \in Nat /\ n + row.n \in Nat
        BY <1>1, <1>2, <2>1, ProductTyped
      <3> QED
        BY <3>1, ProductTyped
    <2>4. /\ merged \in [num : Nat, den : Nat]
          /\ merged.num = num * n * row.count + row.sum * row.n * den
          /\ merged.den = den * row.count * (n + row.n)
      BY <2>2, <2>3
    <2> HIDE DEF merged
    <2>5. ASSUME AverageFits(average, S), \A r \in S \cup {row} : r.count = r.n
          PROVE  merged.num * TotalOf("n", S \cup {row})
                   = merged.den * TotalOf("sum", S \cup {row})
      <3>1. row.count = row.n /\ \A r \in S : r.count = r.n
        BY <2>5
      <3>2. S # {}
        BY <1>7, TotalOfNone DEF n
      <3>3. num * n = den * s
        BY <2>5, <3>1, <3>2 DEF AverageFits, n, s
      <3> HIDE DEF num, den
      <3>4. IsMergedAverage(num, den, n, row.n, s, row.sum)
        BY <1>1, <1>2, <2>1, <3>3, AverageArithmetic
      <3>5. (num * n * row.n + row.sum * row.n * den) * (n + row.n)
              = (den * row.n * (n + row.n)) * (s + row.sum)
        BY <3>4 DEF IsMergedAverage
      <3> QED
        BY <1>3, <2>4, <3>1, <3>5
    <2>6. AverageFits(average, S) => AverageFits(merged, S \cup {row})
      BY <2>4, <2>5 DEF AverageFits
    <2> QED
      BY <2>4, <2>6 DEF merged, n, Averages
  <1> QED
    BY <1>5, <1>6, <1>7

GpuFits(u, S) ==
    /\ u.gpu = TotalOf("n", S) /\ u.energy = TotalOf("energy", S)
    /\ AverageFits(u.average, S)

\* What the rows of GPUs do not change.
SameOtherwise(u, v) ==
    u.buckets = v.buckets /\ u.host = v.host /\ u.first = v.first /\ u.last = v.last

LEMMA MergeTyped ==
    ASSUME NEW average \in Averages, NEW n \in Nat, NEW row \in GpuRecords
    PROVE  MergeAverage(average, n, row) \in Averages
  <1>1. row.n \in Nat /\ row.sum \in Nat /\ row.count \in Nat
    BY DEF GpuRecords, RowRecords
  <1>2. CASE row.count = 0
    BY <1>2 DEF MergeAverage
  <1>3. CASE row.count # 0 /\ (average = None \/ n = 0)
    BY <1>1, <1>3 DEF MergeAverage, Averages
  <1>4. CASE row.count # 0 /\ average # None /\ n # 0
    <2> DEFINE num == average.num
               den == average.den
    <2>1. num \in Nat /\ den \in Nat
      BY <1>4 DEF Averages
    <2>2. MergeAverage(average, n, row) =
             [num |-> num * n * row.count + row.sum * row.n * den,
              den |-> den * row.count * (n + row.n)]
      BY <1>4 DEF MergeAverage
    <2> HIDE DEF num, den
    <2>3. /\ num * n * row.count \in Nat /\ row.sum * row.n * den \in Nat
          /\ den * row.count \in Nat /\ n + row.n \in Nat
      BY <1>1, <2>1, ProductTyped
    <2>4. /\ num * n * row.count + row.sum * row.n * den \in Nat
          /\ den * row.count * (n + row.n) \in Nat
      BY <2>3, ProductTyped
    <2> QED
      BY <2>2, <2>4 DEF Averages
  <1> QED
    BY <1>2, <1>3, <1>4

LEMMA GpuRowAdded ==
    ASSUME NEW u \in UsageRecords, NEW row \in GpuRecords
    PROVE  /\ AddGpuRow(row, u) \in UsageRecords /\ SameOtherwise(AddGpuRow(row, u), u)
           /\ AddGpuRow(row, u).average = MergeAverage(u.average, u.gpu, row)
           /\ AddGpuRow(row, u).gpu = u.gpu + row.n
           /\ AddGpuRow(row, u).energy = u.energy + Known(row.energy)
  <1>1. row.n \in Nat /\ Known(row.energy) \in Nat
    BY DEF GpuRecords, RowRecords, Known
  <1>2. /\ u.buckets \in Nat /\ u.host \in Nat /\ u.gpu \in Nat /\ u.energy \in Nat
        /\ u.average \in Averages
        /\ u.first \in {None} \cup Nat /\ u.last \in {None} \cup Nat
    BY DEF UsageRecords
  <1>3. MergeAverage(u.average, u.gpu, row) \in Averages
    BY <1>2, MergeTyped
  <1> DEFINE v == AddGpuRow(row, u)
             w == [buckets |-> u.buckets, host |-> u.host, gpu |-> u.gpu + row.n,
                   energy |-> u.energy + Known(row.energy),
                   average |-> MergeAverage(u.average, u.gpu, row),
                   first |-> u.first, last |-> u.last]
  <1>4. v = w
    <2>1. u = [buckets |-> u.buckets, host |-> u.host, gpu |-> u.gpu, energy |-> u.energy,
               average |-> u.average, first |-> u.first, last |-> u.last]
      BY DEF UsageRecords
    <2>2. v = [u EXCEPT !.average = MergeAverage(u.average, u.gpu, row),
                        !.gpu = u.gpu + row.n, !.energy = u.energy + Known(row.energy)]
      BY DEF AddGpuRow
    <2> HIDE DEF v
    <2> QED
      BY <2>1, <2>2
  <1>5. w \in UsageRecords
    BY <1>1, <1>2, <1>3 DEF UsageRecords
  <1> QED
    BY <1>4, <1>5 DEF SameOtherwise

LEMMA GpuRowFits ==
    ASSUME NEW u \in UsageRecords, NEW S, S \subseteq GpuRecords, IsFiniteSet(S),
           GpuFits(u, S), NEW row \in GpuRecords, row \notin S
    PROVE  GpuFits(AddGpuRow(row, u), S \cup {row})
  <1>1. row.n \in Nat /\ Known(row.n) = row.n /\ Known(row.energy) \in Nat
    BY NoneAssumption DEF GpuRecords, RowRecords, Known
  <1>2. /\ Totalled("n", {row}) /\ TotalOf("n", {row}) = row.n
        /\ Totalled("energy", {row}) /\ TotalOf("energy", {row}) = Known(row.energy)
    BY <1>1, TotalOfOne
  <1>3. Totalled("n", S) /\ Totalled("energy", S) /\ S \cap {row} = {}
    BY GpuTotals
  <1>4. /\ TotalOf("n", S \cup {row}) = TotalOf("n", S) + row.n
        /\ TotalOf("energy", S \cup {row}) = TotalOf("energy", S) + Known(row.energy)
    <2>1. /\ TotalOf("n", S \cup {row}) = TotalOf("n", S) + TotalOf("n", {row})
          /\ TotalOf("energy", S \cup {row}) = TotalOf("energy", S) + TotalOf("energy", {row})
      BY <1>2, <1>3, TotalsAdd
    <2> QED
      BY <1>2, <2>1
  <1>5. AverageFits(MergeAverage(u.average, TotalOf("n", S), row), S \cup {row})
    BY AverageMerged DEF GpuFits, UsageRecords
  <1> QED
    BY <1>4, <1>5, GpuRowAdded DEF GpuFits

-----------------------------------------------------------------------------
(* The loop over the rows of a batch                                       *)

IsUsageFold(f, G, old) ==
    /\ f \in [SUBSET G -> UsageRecords] /\ f[{}] = old
    /\ \A s \in SUBSET G : s # {} => f[s] = AddGpuRow(First(s), f[Rest(s)])

LEMMA UsageFolded ==
    ASSUME NEW old \in UsageRecords, NEW G, G \subseteq GpuRecords, IsFiniteSet(G)
    PROVE  \E f : IsUsageFold(f, G, old) /\ FoldSet(AddGpuRow, old, G) = f[G]
  <1> DEFINE V == UsageRecords
             step == [r \in G |-> [u \in V |-> AddGpuRow(r, u)]]
             Body(f, s) == IF s = {} THEN old ELSE AddGpuRow(First(s), f[Rest(s)])
             iter == CHOOSE f : f = [s \in SUBSET G |-> Body(f, s)]
  <1>1. FoldSet(AddGpuRow, old, G) = iter[G]
    BY DEF FoldSet, MapThenFoldSet, First, Rest
  <1>2. \A r \in G : \A u \in V : AddGpuRow(r, u) \in V
    BY GpuRowAdded
  <1>3. step \in [G -> [V -> V]]
    BY <1>2
  <1>4. SmallSets(G, Cardinality(G)) = SUBSET G
    BY FS_Subset DEF SmallSets
  <1>5. \A s \in SUBSET G : s # {} => First(s) \in G /\ Rest(s) \in SUBSET G
    BY FirstFacts
  <1> HIDE DEF step, V
  <1>6. PICK f : IsFold(f, G, Cardinality(G), V, old, step)
    BY <1>3, FoldExists DEF V
  <1>7. /\ f \in [SUBSET G -> V] /\ f[{}] = old
        /\ \A s \in SUBSET G : s # {} => f[s] = step[First(s)][f[Rest(s)]]
    BY <1>4, <1>6 DEF IsFold
  <1>8. f = [s \in SUBSET G |-> Body(f, s)]
    <2>1. ASSUME NEW s \in SUBSET G, s # {} PROVE f[s] = AddGpuRow(First(s), f[Rest(s)])
      <3>1. First(s) \in G /\ f[Rest(s)] \in V
        BY <1>5, <1>7, <2>1
      <3>2. step[First(s)][f[Rest(s)]] = AddGpuRow(First(s), f[Rest(s)])
        BY <3>1 DEF step
      <3> QED
        BY <1>7, <2>1, <3>2
    <2>2. \A s \in SUBSET G : f[s] = Body(f, s)
      BY <1>7, <2>1
    <2> QED
      BY <1>7, <2>2
  <1>9. iter = [s \in SUBSET G |-> Body(iter, s)]
    BY <1>8
  <1>10. /\ iter[{}] = old
         /\ \A s \in SUBSET G : s # {} => iter[s] = AddGpuRow(First(s), iter[Rest(s)])
    <2> HIDE DEF iter
    <2>1. \A s \in SUBSET G : iter[s] = Body(iter, s)
      BY <1>9
    <2> QED
      BY <2>1
  <1> HIDE DEF iter
  <1> DEFINE Q == {s \in SUBSET G : iter[s] \in V}
  <1>11. {} \in Q
    BY <1>10 DEF V
  <1>12. ASSUME NEW s \in SUBSET G, s # {}, Rest(s) \in Q PROVE s \in Q
    BY <1>2, <1>5, <1>10, <1>12
  <1>13. SUBSET G \subseteq Q
    <2> HIDE DEF Q
    <2> QED
      BY <1>11, <1>12, FoldInduction
  <1>14. iter \in [SUBSET G -> V]
    <2> HIDE DEF Body
    <2> QED
      BY <1>9, <1>13
  <1>15. IsUsageFold(iter, G, old)
    BY <1>10, <1>14 DEF IsUsageFold, V
  <1> QED
    BY <1>1, <1>15

\* After the loop the usage fits the rows of before and those of the batch.
LEMMA LoopFits ==
    ASSUME NEW old \in UsageRecords, NEW P, P \subseteq GpuRecords, IsFiniteSet(P),
           GpuFits(old, P), NEW G, G \subseteq GpuRecords, IsFiniteSet(G), P \cap G = {}
    PROVE  /\ FoldSet(AddGpuRow, old, G) \in UsageRecords
           /\ SameOtherwise(FoldSet(AddGpuRow, old, G), old)
           /\ GpuFits(FoldSet(AddGpuRow, old, G), P \cup G)
  <1>1. PICK f : IsUsageFold(f, G, old) /\ FoldSet(AddGpuRow, old, G) = f[G]
    BY UsageFolded
  <1>2. /\ f \in [SUBSET G -> UsageRecords] /\ f[{}] = old
        /\ \A s \in SUBSET G : s # {} => f[s] = AddGpuRow(First(s), f[Rest(s)])
    BY <1>1 DEF IsUsageFold
  <1> DEFINE Q == {s \in SUBSET G : SameOtherwise(f[s], old) /\ GpuFits(f[s], P \cup s)}
  <1>3. {} \in Q
    <2>1. SameOtherwise(old, old) /\ P \cup {} = P
      BY DEF SameOtherwise
    <2> QED
      BY <1>2, <2>1
  <1>4. ASSUME NEW s \in SUBSET G, s # {}, Rest(s) \in Q PROVE s \in Q
    <2>1. /\ First(s) \in s /\ Rest(s) \in SUBSET G /\ s = Rest(s) \cup {First(s)}
          /\ First(s) \notin Rest(s) /\ IsFiniteSet(Rest(s))
      BY <1>4, FirstFacts
    <2>2. /\ f[Rest(s)] \in UsageRecords /\ f[s] = AddGpuRow(First(s), f[Rest(s)])
          /\ SameOtherwise(f[Rest(s)], old) /\ GpuFits(f[Rest(s)], P \cup Rest(s))
      BY <1>2, <1>4, <2>1
    <2>3. /\ P \cup Rest(s) \subseteq GpuRecords /\ IsFiniteSet(P \cup Rest(s))
          /\ First(s) \in GpuRecords /\ First(s) \notin P \cup Rest(s)
          /\ P \cup s = (P \cup Rest(s)) \cup {First(s)}
      BY <2>1, FS_Union
    <2>4. GpuFits(f[s], (P \cup Rest(s)) \cup {First(s)})
      BY <2>2, <2>3, GpuRowFits
    <2>5. SameOtherwise(f[s], old)
      BY <2>2, <2>3, GpuRowAdded DEF SameOtherwise
    <2> QED
      BY <2>3, <2>4, <2>5
  <1> HIDE DEF Q
  <1>5. G \in Q
    BY <1>3, <1>4, FoldInduction
  <1> QED
    BY <1>1, <1>2, <1>5 DEF Q

Starts(S) == {r.start : r \in S}

Spans(u, S) ==
    IF S = {} THEN u.first = None /\ u.last = None
    ELSE /\ u.first \in Starts(S) /\ u.last \in Starts(S)
         /\ \A t \in Starts(S) : u.first <= t /\ t <= u.last

UsageFits(u, S) ==
    /\ u \in UsageRecords /\ u.buckets = Cardinality(S)
    /\ u.host = TotalOf("n", HostOf(S)) /\ GpuFits(u, GpusOf(S)) /\ Spans(u, S)

\* The rows that are charged to a run, and the usage of that run.
ChargedRows(S) == S \subseteq RowRecords /\ IsFiniteSet(S) /\ \A r \in S : r.n > 0
Charges(u, S) == IF S = {} THEN u = None ELSE UsageFits(u, S)

LEMMA ChargedParts ==
    ASSUME NEW S, ChargedRows(S)
    PROVE  /\ GpusOf(S) \subseteq GpuRecords /\ IsFiniteSet(GpusOf(S))
           /\ IsFiniteSet(HostOf(S)) /\ Totalled("n", HostOf(S))
  <1>1. IsFiniteSet(GpusOf(S)) /\ IsFiniteSet(HostOf(S))
    BY FS_Subset DEF GpusOf, HostOf, ChargedRows
  <1>2. GpusOf(S) \subseteq GpuRecords /\ HostOf(S) \subseteq RowRecords
    BY DEF GpusOf, HostOf, ChargedRows, GpuRecords
  <1> QED
    BY <1>1, <1>2, RowsTotalled

LEMMA NoUsageFits == UsageFits(NoUsage, {})
  <1>1. NoUsage \in UsageRecords
    BY DEF NoUsage, UsageRecords, Averages
  <1>2. HostOf({}) = {} /\ GpusOf({}) = {}
    BY DEF HostOf, GpusOf
  <1>3. TotalOf("n", {}) = 0 /\ TotalOf("energy", {}) = 0 /\ Cardinality({}) = 0
    BY TotalOfNone, FS_EmptySet
  <1>4. GpuFits(NoUsage, {})
    BY <1>3 DEF GpuFits, NoUsage, AverageFits
  <1> QED
    BY <1>1, <1>2, <1>3, <1>4 DEF UsageFits, NoUsage, Spans

\* The first and the last bucket of a batch that is added.
LEMMA SpanAdded ==
    ASSUME NEW u \in UsageRecords, NEW S, S \subseteq RowRecords, Spans(u, S),
           NEW new, new # {}, NEW start \in Nat, \A r \in new : r.start = start,
           NEW v, v.first = IF u.first = None THEN start ELSE Lesser(u.first, start),
           v.last = IF u.last = None \/ u.last < start THEN start ELSE u.last
    PROVE  Spans(v, S \cup new)
  <1>1. Starts(S \cup new) = Starts(S) \cup {start}
    BY DEF Starts
  <1>2. \A t \in Starts(S) : t \in Nat
    BY DEF Starts, RowRecords
  <1>3. \A t \in Nat : t # None
    BY NoneAssumption
  <1>4. CASE S = {}
    <2>1. v.first = start /\ v.last = start /\ Starts(S) = {}
      BY <1>4 DEF Spans, Starts
    <2> QED
      BY <1>1, <2>1 DEF Spans
  <1>5. CASE S # {}
    <2>1. /\ u.first \in Starts(S) /\ u.last \in Starts(S)
          /\ \A t \in Starts(S) : u.first <= t /\ t <= u.last
      BY <1>5 DEF Spans
    <2>2. /\ u.first \in Nat /\ u.last \in Nat /\ u.first # None /\ u.last # None
      BY <1>2, <1>3, <2>1
    <2>3. /\ v.first = Lesser(u.first, start)
          /\ v.last = IF u.last < start THEN start ELSE u.last
      BY <2>2
    <2>4. v.first \in Starts(S) \cup {start} /\ v.last \in Starts(S) \cup {start}
      BY <2>1, <2>3 DEF Lesser
    <2>5. \A t \in Starts(S) \cup {start} : v.first <= t /\ t <= v.last
      BY <1>2, <2>1, <2>2, <2>3 DEF Lesser
    <2> QED
      BY <1>1, <1>5, <2>4, <2>5 DEF Spans
  <1> QED
    BY <1>4, <1>5

\* A batch is added to the usage of a run.
LEMMA UsageAdded ==
    ASSUME NEW u, NEW S, ChargedRows(S), Charges(u, S),
           NEW b, IsBucket(b), NEW id \in Runs \cup {None},
           \A r \in S : r.start # b.start
    PROVE  /\ ChargedRows(S \cup BatchRows(b, id))
           /\ Charges(AddToUsage(u, BatchRows(b, id)), S \cup BatchRows(b, id))
  <1> DEFINE new == BatchRows(b, id)
             old == IF u = None THEN NoUsage ELSE u
             start == (CHOOSE r \in new : TRUE).start
             hostRow == CHOOSE r \in new : r.device = "host"
             withGpus == FoldSet(AddGpuRow, old, new \ {hostRow})
             added == AddToUsage(u, new)
  <1>1. UsageFits(old, S)
    <2>1. CASE S = {}
      BY <2>1, NoUsageFits DEF Charges
    <2>2. CASE S # {}
      BY <2>2, NoneAssumption DEF Charges, UsageFits, UsageRecords, Averages
    <2> QED
      BY <2>1, <2>2
  <1>2. /\ new \subseteq RowRecords /\ IsFiniteSet(new)
        /\ \A r \in new : r.start = b.start /\ r.run = id /\ r.n > 0
    BY BatchRowsAre
  <1>3. PICK h \in new : HostOf(new) = {h} /\ h.n = b.n /\ GpusOf(new) = new \ {h}
    BY BatchRowsAre
  <1>4. added = [withGpus EXCEPT
                    !.buckets = @ + Cardinality(new),
                    !.host = @ + hostRow.n,
                    !.first = IF @ = None THEN start ELSE Lesser(@, start),
                    !.last = IF @ = None \/ @ < start THEN start ELSE @]
    BY DEF AddToUsage
  <1> HIDE DEF added, new
  <1>5. hostRow = h
    BY <1>3 DEF HostOf
  <1>6. start = b.start
    BY <1>2, <1>3
  <1>7. b.start \in Nat /\ b.n \in Nat
    BY DEF IsBucket, BucketRecords
  <1>8. S \cap new = {} /\ S \cup new # {} /\ ChargedRows(new) /\ ChargedRows(S \cup new)
    BY <1>2, <1>3, FS_Union DEF ChargedRows
  <1>9. /\ HostOf(S \cup new) = HostOf(S) \cup {h} /\ HostOf(S) \cap {h} = {}
        /\ GpusOf(S \cup new) = GpusOf(S) \cup GpusOf(new) /\ GpusOf(S) \cap GpusOf(new) = {}
    BY <1>3, <1>8 DEF HostOf, GpusOf
  <1> HIDE DEF old
  <1>10. /\ withGpus \in UsageRecords /\ SameOtherwise(withGpus, old)
         /\ GpuFits(withGpus, GpusOf(S) \cup GpusOf(new))
    <2>1. /\ old \in UsageRecords /\ GpuFits(old, GpusOf(S)) /\ new \ {hostRow} = GpusOf(new)
      BY <1>1, <1>3, <1>5 DEF UsageFits
    <2> QED
      BY <1>8, <1>9, <2>1, ChargedParts, LoopFits
  <1> HIDE DEF withGpus, start, hostRow
  <1>11. Cardinality(S \cup new) = Cardinality(S) + Cardinality(new)
         /\ Cardinality(new) \in Nat
    <2>1. IsFiniteSet(S) /\ IsFiniteSet(new)
      BY <1>8 DEF ChargedRows
    <2>2. /\ Cardinality(S \cup new)
               = Cardinality(S) + Cardinality(new) - Cardinality(S \cap new)
          /\ Cardinality(S) \in Nat /\ Cardinality(new) \in Nat
      BY <2>1, FS_Union, FS_CardinalityType
    <2>3. Cardinality(S \cap new) = 0
      BY <1>8, FS_EmptySet
    <2> DEFINE k == Cardinality(S)
               m == Cardinality(new)
               c == Cardinality(S \cup new)
    <2>4. c = k + m - 0 /\ k \in Nat /\ m \in Nat
      BY <2>2, <2>3
    <2> HIDE DEF k, m, c
    <2>5. c = k + m
      BY <2>4
    <2> QED
      BY <2>4, <2>5 DEF k, m, c
  <1>12. TotalOf("n", HostOf(S \cup new)) = TotalOf("n", HostOf(S)) + b.n
    <2>1. Known(h.n) = b.n
      BY <1>3, <1>7, NoneAssumption DEF Known
    <2>2. Totalled("n", {h}) /\ TotalOf("n", {h}) = b.n
      BY <1>7, <2>1, TotalOfOne
    <2>3. TotalOf("n", HostOf(S) \cup {h}) = TotalOf("n", HostOf(S)) + TotalOf("n", {h})
      BY <1>9, <2>2, ChargedParts, TotalsAdd
    <2> QED
      BY <1>9, <2>2, <2>3
  <1>13. /\ added \in UsageRecords
         /\ added.buckets = withGpus.buckets + Cardinality(new)
         /\ added.host = withGpus.host + b.n
         /\ added.gpu = withGpus.gpu /\ added.energy = withGpus.energy
         /\ added.average = withGpus.average
         /\ added.first = IF withGpus.first = None THEN b.start
                          ELSE Lesser(withGpus.first, b.start)
         /\ added.last = IF withGpus.last = None \/ withGpus.last < b.start THEN b.start
                         ELSE withGpus.last
    <2> DEFINE w == withGpus
               first == IF w.first = None THEN b.start ELSE Lesser(w.first, b.start)
               last == IF w.last = None \/ w.last < b.start THEN b.start ELSE w.last
    <2>1. /\ w.buckets \in Nat /\ w.host \in Nat /\ w.gpu \in Nat /\ w.energy \in Nat
          /\ w.average \in Averages
          /\ w.first \in {None} \cup Nat /\ w.last \in {None} \cup Nat
          /\ w = [buckets |-> w.buckets, host |-> w.host, gpu |-> w.gpu, energy |-> w.energy,
                  average |-> w.average, first |-> w.first, last |-> w.last]
      BY <1>10 DEF UsageRecords
    <2>2. added = [w EXCEPT !.buckets = w.buckets + Cardinality(new), !.host = w.host + b.n,
                            !.first = first, !.last = last]
      BY <1>3, <1>4, <1>5, <1>6
    <2>3. first \in {None} \cup Nat /\ last \in {None} \cup Nat
      BY <1>7, <2>1 DEF Lesser
    <2> HIDE DEF first, last, w
    <2>4. added = [buckets |-> w.buckets + Cardinality(new), host |-> w.host + b.n,
                   gpu |-> w.gpu, energy |-> w.energy, average |-> w.average,
                   first |-> first, last |-> last]
      BY <2>1, <2>2
    <2>5. w.buckets + Cardinality(new) \in Nat /\ w.host + b.n \in Nat
      BY <1>7, <1>11, <2>1
    <2>6. added \in UsageRecords
      BY <2>1, <2>3, <2>4, <2>5 DEF UsageRecords
    <2> QED
      BY <2>4, <2>6 DEF first, last, w
  <1>14. added.buckets = Cardinality(S \cup new)
         /\ added.host = TotalOf("n", HostOf(S \cup new))
    BY <1>1, <1>10, <1>11, <1>12, <1>13 DEF UsageFits, SameOtherwise
  <1>15. GpuFits(added, GpusOf(S \cup new))
    BY <1>9, <1>10, <1>13 DEF GpuFits
  <1>16. Spans(added, S \cup new)
    <2>1. /\ S \subseteq RowRecords /\ Spans(old, S) /\ old \in UsageRecords
          /\ withGpus.first = old.first /\ withGpus.last = old.last
      BY <1>1, <1>10 DEF UsageFits, SameOtherwise, ChargedRows
    <2>2. Spans(withGpus, S)
      BY <2>1 DEF Spans
    <2> QED
      BY <1>2, <1>3, <1>7, <1>10, <1>13, <2>1, <2>2, SpanAdded
  <1> QED
    BY <1>8, <1>13, <1>14, <1>15, <1>16 DEF Charges, UsageFits, added, new

-----------------------------------------------------------------------------
(* The usage rows                                                          *)

\* Every run is charged its rows, and no other.
UsageInv ==
    /\ RowsInv /\ \A r \in rows : r.n > 0
    /\ \E V : usage \in [Runs -> V]
    /\ \A id \in Runs : Charges(usage[id], Charged(id))

LEMMA UsageInit == Init => UsageInv
  <1> SUFFICES ASSUME Init PROVE UsageInv
    OBVIOUS
  <1>1. usage = [r \in Runs |-> None] /\ rows = {} /\ RowsInv
    BY FS_EmptySet DEF Init, RowsInv
  <1>2. usage \in [Runs -> {None}] /\ \A id \in Runs : Charged(id) = {} /\ usage[id] = None
    BY <1>1 DEF Charged
  <1> QED
    BY <1>1, <1>2 DEF UsageInv, Charges

LEMMA UsageKept == UsageInv /\ UNCHANGED tableVars => UsageInv'
  BY DEF UsageInv, RowsInv, Charged, tableVars

LEMMA CommitCharges ==
    ASSUME LedgerInv, UsageInv, Commit
    PROVE  UsageInv'
  <1> DEFINE new == BatchRows(batch, charged)
  <1>1. /\ rows' = rows \cup new /\ ~Conflict
        /\ usage' = IF charged = None THEN usage
                    ELSE [usage EXCEPT ![charged] = AddToUsage(@, new)]
    BY DEF Commit
  <1>2. IsBucket(batch) /\ charged \in Runs \cup {None} /\ None \notin Runs
    BY NoneAssumption DEF Commit, LedgerInv, TypeOK, BucketInv
  <1>3. /\ new \subseteq RowRecords /\ IsFiniteSet(new)
        /\ \A r \in new : r.start = batch.start /\ r.run = charged /\ r.n > 0
    BY <1>2, BatchRowsAre
  <1>4. RowsInv' /\ \A r \in rows' : r.n > 0
    BY <1>1, <1>3, FS_Union DEF UsageInv, RowsInv
  <1>5. PICK V : usage \in [Runs -> V]
    BY DEF UsageInv
  <1>6. \E W : usage' \in [Runs -> W]
    <2>1. usage' \in [Runs -> V \cup {AddToUsage(usage[charged], new)}]
      BY <1>1, <1>5
    <2> QED
      BY <2>1
  <1>7. ASSUME NEW id \in Runs PROVE Charges(usage'[id], Charged(id)')
    <2>1. Charges(usage[id], Charged(id))
      BY DEF UsageInv
    <2>2. CASE id # charged
      <3>1. usage'[id] = usage[id]
        BY <1>1, <1>5, <2>2
      <3>2. Charged(id)' = Charged(id)
        BY <1>1, <1>3, <2>2 DEF Charged
      <3> QED
        BY <2>1, <3>1, <3>2
    <2>3. CASE id = charged
      <3>1. usage'[id] = AddToUsage(usage[id], new)
        BY <1>1, <1>2, <1>5, <2>3
      <3>2. Charged(id)' = Charged(id) \cup new
        BY <1>1, <1>3, <2>3 DEF Charged
      <3>3. ChargedRows(Charged(id)) /\ \A r \in Charged(id) : r.start # batch.start
        BY <1>1, FS_Subset DEF UsageInv, RowsInv, Charged, ChargedRows, Conflict
      <3>4. Charges(AddToUsage(usage[id], new), Charged(id) \cup new)
        BY <1>2, <2>1, <3>3, UsageAdded
      <3> QED
        BY <3>1, <3>2, <3>4
    <2> QED
      BY <2>2, <2>3
  <1> QED
    BY <1>4, <1>6, <1>7 DEF UsageInv

LEMMA UsageStep == LedgerInv /\ UsageInv /\ [Next]_vars => UsageInv'
  <1> SUFFICES ASSUME LedgerInv, UsageInv, [Next]_vars PROVE UsageInv'
    OBVIOUS
  <1>1. CASE Commit
    BY <1>1, CommitCharges
  <1>2. CASE ~Commit
    <2>1. UNCHANGED tableVars
      BY <1>2 DEF Next, vars, tableVars, TimePasses, ClockSetBack, RunBegins, RunEnds, Start,
         Collect, Fold, BeginFlush, Attribute, Refused, DatabaseFails, DropBatch, TickFails,
         RequestStop, Stop, Crash, MonitorEnds
    <2> QED
      BY <2>1, UsageKept
  <1> QED
    BY <1>1, <1>2

LEMMA UsageInvariant == Spec => []UsageInv
  <1>1. Init => LedgerInv /\ UsageInv
    BY LedgerInit, UsageInit
  <1>2. LedgerInv /\ UsageInv /\ [Next]_vars => (LedgerInv /\ UsageInv)'
    BY LedgerStep, UsageStep
  <1> QED
    BY <1>1, <1>2, PTL DEF Spec

LEMMA ChargedAre ==
    ASSUME NEW id
    PROVE  /\ Charged(id) \cap HostRows = HostOf(Charged(id))
           /\ GpuRows(id) = GpusOf(Charged(id))
  BY DEF Charged, HostRows, HostOf, GpuRows, GpusOf

\* The usage of a run is the sum of the rows charged to it, in whatever order
\* the loop reads the rows of a batch.
THEOREM UsageIsTheSum == Spec => []UsageMatchesRows
  <1>1. UsageInv => UsageMatchesRows
    <2> SUFFICES ASSUME UsageInv, NEW id \in Runs, Charged(id) # {}
                 PROVE  /\ usage[id] # None
                        /\ usage[id].buckets = Cardinality(Charged(id))
                        /\ usage[id].host = TotalOf("n", Charged(id) \cap HostRows)
                        /\ usage[id].gpu = TotalOf("n", GpuRows(id))
                        /\ usage[id].energy = TotalOf("energy", GpuRows(id))
                        /\ usage[id].first = Min({r.start : r \in Charged(id)})
                        /\ usage[id].last = Max({r.start : r \in Charged(id)})
      BY DEF UsageInv, UsageMatchesRows, Charges
    <2> DEFINE S == Charged(id)
               u == usage[id]
    <2>1. UsageFits(u, S) /\ S \subseteq RowRecords
      BY DEF UsageInv, RowsInv, Charges, Charged
    <2>2. u # None
      BY <2>1, NoneAssumption DEF UsageFits, UsageRecords, Averages
    <2>3. /\ u.buckets = Cardinality(S) /\ u.host = TotalOf("n", S \cap HostRows)
          /\ u.gpu = TotalOf("n", GpuRows(id)) /\ u.energy = TotalOf("energy", GpuRows(id))
      BY <2>1, ChargedAre DEF UsageFits, GpuFits
    <2>4. u.first = Min(Starts(S)) /\ u.last = Max(Starts(S))
      <3>1. /\ u.first \in Starts(S) /\ u.last \in Starts(S)
            /\ \A t \in Starts(S) : u.first <= t /\ t <= u.last
        BY <2>1 DEF UsageFits, Spans
      <3>2. \A t \in Starts(S) : t \in Nat
        BY <2>1 DEF Starts, RowRecords
      <3> HIDE DEF S, u
      <3>3. \A t \in Starts(S) : (\A x \in Starts(S) : t <= x) => t = usage[id].first
        BY <3>1, <3>2 DEF u
      <3>4. \A t \in Starts(S) : (\A x \in Starts(S) : t >= x) => t = usage[id].last
        BY <3>1, <3>2 DEF u
      <3>5. u.first = Min(Starts(S))
        BY <3>1, <3>3 DEF Min, u
      <3>6. u.last = Max(Starts(S))
        <4>1. \A x \in Starts(S) : u.last >= x
          BY <3>1, <3>2
        <4> QED
          BY <3>1, <3>4, <4>1 DEF Max, u
      <3> QED
        BY <3>5, <3>6
    <2> QED
      BY <2>2, <2>3, <2>4 DEF Starts
  <1> QED
    BY <1>1, UsageInvariant, PTL

\* The average power of a run, merged bucket by bucket and row by row, is the
\* average of all its readings, provided that no sample lacked one.
THEOREM AveragesAreExact == Spec => []AverageIsExact
  <1>1. UsageInv => AverageIsExact
    <2> SUFFICES ASSUME UsageInv, NEW id \in Runs, usage[id] # None,
                        \A r \in GpuRows(id) : r.count = r.n
                 PROVE  IF GpuRows(id) = {} THEN usage[id].average = None
                        ELSE usage[id].average.num * TotalOf("n", GpuRows(id))
                             = usage[id].average.den * TotalOf("sum", GpuRows(id))
      BY DEF AverageIsExact
    <2>1. UsageFits(usage[id], Charged(id))
      BY DEF UsageInv, Charges
    <2> QED
      BY <2>1, ChargedAre DEF UsageFits, GpuFits, AverageFits
  <1> QED
    BY <1>1, UsageInvariant, PTL

=============================================================================
