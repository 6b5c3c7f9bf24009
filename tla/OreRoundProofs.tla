--------------------------- MODULE OreRoundProofs --------------------------
(***************************************************************************)
(* Proofs about OreRound, for any dogs, slots, weights and bounds.         *)
(***************************************************************************)
EXTENDS OreRound, FiniteSetTheorems, SequenceTheorems, TLAPS

(***************************************************************************)
(* The inductive invariant.                                                *)
(***************************************************************************)
\* Ages fall along the log; a block with MAST_OUT_CNT successors is a day
\* old; and while a round is suspended there is room for one more.
CapInv ==
    /\ \A j, k \in DOMAIN record : j <= k => record[k].age <= record[j].age
    /\ \A k \in DOMAIN record :
            k + MAST_OUT_CNT <= logCounter => record[k].age = Day
    /\ Suspended # {} => \A k \in DOMAIN record :
            k + MAST_OUT_CNT <= logCounter + 1 => record[k].age = Day

\* Who is still to be paid for the ore in force has not been paid for it.
CreditInv ==
    /\ \A o \in 0 .. MaxOres : o > ore => \A e \in Dogs : paid[o][e] = 0
    /\ Suspended = {} => \A e \in Dogs : paid[ore][e] = 0
    /\ \A s \in Suspended :
            /\ ore < MaxOres
            /\ \A e \in rounds[s].todo : paid[ore][e] = 0
            /\ rounds[s].alone => rounds[s].todo \subseteq {rounds[s].dog}
            /\ rounds[s].alone /\ rounds[s].todo # {}
                    => \A e \in Dogs : paid[ore][e] = 0

\* The inductive invariant of the rounds.
RoundInv == TypeOK /\ GuardHeld /\ ChainLinked /\ CapInv /\ CreditInv

(***************************************************************************)
(* Amounts and counts.                                                     *)
(***************************************************************************)
LEMMA UnitsFinite ==
    ASSUME NEW f, NEW max \in Nat, IsFiniteSet(DOMAIN f)
    PROVE  /\ IsFiniteSet({u \in (DOMAIN f) \X (1 .. max) : u[2] <= f[u[1]]})
           /\ Units(f, max) \in Nat
<1>1. IsFiniteSet(1 .. max)
  BY FS_Interval
<1>2. IsFiniteSet((DOMAIN f) \X (1 .. max))
  BY <1>1, FS_Product
<1>3. IsFiniteSet({u \in (DOMAIN f) \X (1 .. max) : u[2] <= f[u[1]]})
  BY <1>2, FS_Subset
<1> QED
  BY <1>3, FS_CardinalityType DEF Units

LEMMA TotalWeightPositive ==
    ASSUME NEW dogs \in SUBSET Dogs, NEW e \in dogs
    PROVE  TotalWeight(dogs) \in Nat \ {0}
<1> DEFINE f == [x \in dogs |-> Weight[x]]
           units == {u \in (DOMAIN f) \X (1 .. MaxWeight) : u[2] <= f[u[1]]}
<1>1. IsFiniteSet(DOMAIN f)
  BY DogsAssumption, FS_Subset
<1>2. IsFiniteSet(units) /\ TotalWeight(dogs) = Cardinality(units)
  BY <1>1, UnitsFinite, WeightAssumption DEF TotalWeight, Units
<1>3. <<e, 1>> \in units
  BY WeightAssumption
<1> HIDE DEF units
<1>4. Cardinality(units) # 0
  BY <1>2, <1>3, FS_EmptySet
<1> QED
  BY <1>2, <1>4, FS_CardinalityType

LEMMA AmountTypes ==
    ASSUME output \in 0 .. mining_output_amount
    PROVE  Reward \in Nat /\ Fee \in Nat
<1> USE AmountAssumption
<1>1. output * reward_rate \in Nat /\ output * reward_rate <= output * 10000
  OBVIOUS
<1> DEFINE x == output * reward_rate
<1>2. x \in Nat /\ x <= output * 10000
  BY <1>1
<1> HIDE DEF x
<1>3. x \div 10000 \in Nat /\ x \div 10000 <= output
  BY <1>2
<1> QED
  BY <1>3 DEF Reward, Fee, x

LEMMA ShareType ==
    ASSUME output \in 0 .. mining_output_amount,
           NEW dogs \in SUBSET Dogs, NEW e \in dogs
    PROVE  Share(e, dogs) \in Nat
<1>1. TotalWeight(dogs) \in Nat \ {0}
  BY TotalWeightPositive
<1>2. Reward * Weight[e] \in Nat
  BY AmountTypes, WeightAssumption
<1> QED
  BY <1>1, <1>2 DEF Share

LEMMA RoundTypes ==
    ASSUME TypeOK, NEW d \in Dogs
    PROVE  /\ AloneRound(d) \in Round
           /\ \A dogs \in SUBSET Dogs : AllianceRound(d, dogs) \in Round
BY AmountTypes, ShareType DEF TypeOK, RoundTypeOK, AloneRound, AllianceRound, Round

\* Dividing by b > 0 has one quotient and one remainder.
LEMMA QuotientAndRest ==
    ASSUME NEW a \in Nat, NEW b \in Nat \ {0}
    PROVE  /\ a \div b \in Nat /\ a % b \in 0 .. (b - 1)
           /\ a = b * (a \div b) + (a % b)
OBVIOUS

LEMMA QuotientUnique ==
    ASSUME NEW b \in Nat \ {0}, NEW q1 \in Nat, NEW q2 \in Nat,
           NEW r1 \in 0 .. (b - 1), NEW r2 \in 0 .. (b - 1),
           b * q1 + r1 = b * q2 + r2
    PROVE  q1 = q2 /\ r1 = r2
<1>1. ASSUME NEW x \in Nat, NEW y \in Nat, x < y
      PROVE  b * x + b <= b * y
  <2>1. b * y = b * x + b * (y - x) /\ y - x >= 1
    BY <1>1
  <2>2. PICK k \in Nat : k = y - x - 1
    BY <1>1
  <2>3. b * (y - x) = b * k + b /\ b * k \in Nat
    BY <2>2
  <2> QED BY <2>1, <2>3
<1>2. b * q1 \in Nat /\ b * q2 \in Nat
  OBVIOUS
<1>3. ~(q1 < q2)
  BY <1>1, <1>2
<1>4. ~(q2 < q1)
  BY <1>1, <1>2
<1> QED BY <1>3, <1>4

\* Parts f[e] of an amount, each at most amount * w[e] / T with T the sum of the
\* weights w, come to no more than the amount: a unit i of f[e] and a unit t of T are
\* counted as the unit (i - 1) * T + t of amount * w[e], of which there are T * amount.
LEMMA PartsWithinWhole ==
    ASSUME NEW S, IsFiniteSet(S), NEW D \in SUBSET S,
           NEW maxw \in Nat, NEW w \in [D -> 0 .. maxw],
           NEW max \in Nat, NEW f \in [S -> Nat], \A e \in S \ D : f[e] = 0,
           NEW amount \in Nat, Units(w, maxw) # 0,
           \A e \in D : f[e] * Units(w, maxw) <= amount * w[e]
    PROVE  Units(f, max) <= amount
<1> DEFINE A == {u \in S \X (1 .. max) : u[2] <= f[u[1]]}
           B == {u \in D \X (1 .. maxw) : u[2] <= w[u[1]]}
           T == Units(w, maxw)
<1>1. DOMAIN f = S /\ DOMAIN w = D
  OBVIOUS
<1>2. /\ IsFiniteSet(A) /\ Units(f, max) = Cardinality(A) /\ Cardinality(A) \in Nat
      /\ IsFiniteSet(B) /\ T = Cardinality(B) /\ Cardinality(B) \in Nat
  BY <1>1, FS_Subset, UnitsFinite, FS_CardinalityType DEF Units
<1>3. T \in Nat \ {0}
  BY <1>2
<1>4. \A e \in D : f[e] * T <= amount * w[e]
  OBVIOUS
<1> HIDE DEF T
<1>5. ASSUME amount = 0 PROVE Cardinality(A) = 0
  <2>1. ASSUME NEW u \in A PROVE FALSE
    <3>1. u[1] \in S /\ u[2] \in 1 .. max /\ u[2] <= f[u[1]]
      OBVIOUS
    <3>2. f[u[1]] \in Nat \ {0} /\ u[1] \in D
      BY <3>1
    <3>3. f[u[1]] * T <= 0
      BY <1>4, <1>5, <3>2
    <3> QED BY <1>3, <3>2, <3>3
  <2> HIDE DEF A
  <2>2. A = {}
    BY <2>1
  <2> QED BY <2>2, FS_EmptySet
<1>6. ASSUME amount # 0 PROVE Cardinality(A) <= amount
  <2> DEFINE n(x) == (x[1][2] - 1) * T + (x[2] - 1)
             g == [x \in A \X (1 .. T) |->
                     <<<<x[1][1], (n(x) \div amount) + 1>>, (n(x) % amount) + 1>>]
  <2>0. ASSUME NEW k \in Nat
        PROVE  \E q \in Nat, r \in 0 .. (amount - 1) :
                    q = k \div amount /\ r = k % amount /\ k = amount * q + r
    BY <1>6, QuotientAndRest
  <2>1. ASSUME NEW x \in A \X (1 .. T)
        PROVE  /\ x[1][1] \in D /\ x[1][2] - 1 \in Nat /\ x[2] - 1 \in 0 .. (T - 1)
               /\ n(x) \in Nat /\ n(x) < amount * w[x[1][1]]
    <3>1. /\ x[1] \in A /\ x[2] \in 1 .. T /\ x[1][1] \in S /\ x[1][2] \in 1 .. max
          /\ x[1][2] <= f[x[1][1]]
      OBVIOUS
    <3>2. x[1][1] \in D /\ f[x[1][1]] \in Nat
      BY <3>1
    <3>3. f[x[1][1]] * T <= amount * w[x[1][1]]
      BY <1>4, <3>2
    <3>4. PICK i \in Nat, t \in Nat, m \in Nat :
            /\ i = x[1][2] - 1 /\ t = x[2] - 1 /\ m = f[x[1][1]] - 1 - i
      BY <3>1, <3>2
    <3>5. f[x[1][1]] * T = i * T + T + m * T /\ i * T \in Nat /\ m * T \in Nat
      <4>1. f[x[1][1]] = i + 1 + m
        BY <3>2, <3>4
      <4>2. (i + 1 + m) * T = i * T + T + m * T /\ i * T \in Nat /\ m * T \in Nat
        BY <1>3, <3>4
      <4> QED BY <4>1, <4>2
    <3>6. n(x) = i * T + t /\ t < T
      BY <1>3, <3>1, <3>4
    <3>7. n(x) \in Nat /\ n(x) < i * T + T + m * T
      BY <1>3, <3>4, <3>5, <3>6
    <3>8. amount * w[x[1][1]] \in Nat
      <4>1. PICK v \in 0 .. maxw : v = w[x[1][1]]
        BY <3>2
      <4> QED BY <4>1
    <3> QED BY <1>3, <3>1, <3>2, <3>3, <3>4, <3>5, <3>7, <3>8
  <2>2. ASSUME NEW x \in A \X (1 .. T) PROVE g[x] \in B \X (1 .. amount)
    <3>1. PICK k \in Nat : k = n(x)
      BY <2>1
    <3>2. PICK q \in Nat, r \in 0 .. (amount - 1) :
            q = k \div amount /\ r = k % amount /\ k = amount * q + r
      BY <2>0
    <3>3. PICK v \in 0 .. maxw : v = w[x[1][1]]
      BY <2>1
    <3>4. k < amount * v
      BY <2>1, <3>1, <3>3
    <3>5. q < v
      <4>1. ASSUME v <= q PROVE amount * v <= amount * q /\ amount * v \in Nat /\ amount * q \in Nat
        BY <4>1
      <4> QED BY <3>2, <3>4, <4>1
    <3>6. q + 1 \in 1 .. maxw /\ q + 1 <= w[x[1][1]] /\ r + 1 \in 1 .. amount
      BY <3>3, <3>5
    <3>7. g[x] = <<<<x[1][1], q + 1>>, r + 1>>
      BY <3>1, <3>2
    <3> HIDE DEF g, n
    <3>8. <<x[1][1], q + 1>> \in B
      BY <2>1, <3>6
    <3> HIDE DEF B
    <3> QED BY <3>6, <3>7, <3>8
  <2>3. ASSUME NEW x \in A \X (1 .. T), NEW y \in A \X (1 .. T), g[x] = g[y]
        PROVE  x = y
    <3>1. PICK k \in Nat, l \in Nat : k = n(x) /\ l = n(y)
      BY <2>1
    <3>2. PICK q \in Nat, r \in 0 .. (amount - 1) :
            q = k \div amount /\ r = k % amount /\ k = amount * q + r
      BY <2>0
    <3>3. PICK p \in Nat, s \in 0 .. (amount - 1) :
            p = l \div amount /\ s = l % amount /\ l = amount * p + s
      BY <2>0
    <3>4. x[1][1] = y[1][1] /\ n(x) = n(y)
      <4>1. x[1][1] = y[1][1] /\ q + 1 = p + 1 /\ r + 1 = s + 1
        BY <2>3, <3>1, <3>2, <3>3
      <4>2. q = p /\ r = s
        <5> HIDE DEF A, B, g, n
        <5> QED BY ONLY <4>1, q \in Nat, p \in Nat, amount \in Nat,
                   r \in 0 .. (amount - 1), s \in 0 .. (amount - 1)
      <4> QED BY <3>1, <3>2, <3>3, <4>1, <4>2
    <3>5. /\ x[1][2] - 1 \in Nat /\ x[2] - 1 \in 0 .. (T - 1)
          /\ y[1][2] - 1 \in Nat /\ y[2] - 1 \in 0 .. (T - 1)
      BY <2>1
    <3>6. T * (x[1][2] - 1) + (x[2] - 1) = T * (y[1][2] - 1) + (y[2] - 1)
      BY <1>3, <3>4, <3>5
    <3>7. x[1][2] - 1 = y[1][2] - 1 /\ x[2] - 1 = y[2] - 1
      BY <1>3, <3>5, <3>6, QuotientUnique
    <3>8. /\ x[1][2] \in 1 .. max /\ y[1][2] \in 1 .. max
          /\ x[2] \in 1 .. T /\ y[2] \in 1 .. T
      OBVIOUS
    <3>9. x[1][2] = y[1][2] /\ x[2] = y[2]
      BY <3>7, <3>8
    <3>10. /\ x = <<x[1], x[2]>> /\ y = <<y[1], y[2]>>
           /\ x[1] = <<x[1][1], x[1][2]>> /\ y[1] = <<y[1][1], y[1][2]>>
      OBVIOUS
    <3> QED BY <3>4, <3>9, <3>10
  <2>4. g \in Injection(A \X (1 .. T), B \X (1 .. amount))
    <3> HIDE DEF A, B, n
    <3>1. g \in [A \X (1 .. T) -> B \X (1 .. amount)]
      BY <2>2
    <3> HIDE DEF g
    <3> QED BY <2>3, <3>1 DEF Injection, IsInjective
  <2> HIDE DEF A, B, g
  <2>5. /\ IsFiniteSet(1 .. T) /\ Cardinality(1 .. T) = T
        /\ IsFiniteSet(1 .. amount) /\ Cardinality(1 .. amount) = amount
    <3>1. ASSUME NEW m \in Nat PROVE IsFiniteSet(1 .. m) /\ Cardinality(1 .. m) = m
      <4>1. IsFiniteSet(1 .. m) /\ Cardinality(1 .. m) = IF 1 > m THEN 0 ELSE m - 1 + 1
        BY FS_Interval
      <4> QED BY <4>1
    <3> QED BY <1>3, <1>6, <3>1
  <2>6. /\ IsFiniteSet(B \X (1 .. amount))
        /\ Cardinality(B \X (1 .. amount)) = Cardinality(B) * amount
    <3>1. IsFiniteSet(B)
      BY <1>2
    <3> QED BY <2>5, <3>1, FS_Product
  <2>6a. Cardinality(A \X (1 .. T)) = Cardinality(A) * T
    <3>1. IsFiniteSet(A)
      BY <1>2
    <3> QED BY <2>5, <3>1, FS_Product
  <2>7. Cardinality(A) * T <= T * amount
    BY <1>2, <2>4, <2>6, <2>6a, FS_Injection
  <2>8. PICK a \in Nat : a = Cardinality(A)
    BY <1>2
  <2>9. ASSUME a > amount PROVE FALSE
    <3>1. PICK j \in Nat : a = amount + 1 + j
      <4>1. a - amount - 1 \in Nat /\ a = amount + 1 + (a - amount - 1)
        BY <2>9
      <4> QED BY <4>1
    <3>2. a * T = T * amount + T + j * T /\ j * T \in Nat /\ T * amount \in Nat
      BY <1>3, <3>1
    <3> QED BY <1>3, <2>7, <2>8, <3>2
  <2> QED BY <2>8, <2>9
<1> HIDE DEF A
<1> QED BY <1>2, <1>5, <1>6

LEMMA UnitsMonotone ==
    ASSUME NEW S, IsFiniteSet(S), NEW max \in Nat,
           NEW f \in [S -> Nat], NEW g \in [S -> Nat], \A e \in S : f[e] <= g[e]
    PROVE  /\ Units(f, max) \in Nat /\ Units(g, max) \in Nat
           /\ Units(f, max) <= Units(g, max)
<1> DEFINE A == {u \in S \X (1 .. max) : u[2] <= f[u[1]]}
           B == {u \in S \X (1 .. max) : u[2] <= g[u[1]]}
<1>1. DOMAIN f = S /\ DOMAIN g = S
  OBVIOUS
<1>2. /\ IsFiniteSet(B) /\ Units(g, max) = Cardinality(B) /\ Units(f, max) = Cardinality(A)
      /\ Units(f, max) \in Nat /\ Units(g, max) \in Nat
  BY <1>1, UnitsFinite DEF Units
<1>3. A \subseteq B
  <2> SUFFICES ASSUME NEW u \in A PROVE u[2] <= g[u[1]]
    OBVIOUS
  <2>1. u[2] \in Nat /\ f[u[1]] \in Nat /\ g[u[1]] \in Nat /\ u[2] <= f[u[1]] /\ f[u[1]] <= g[u[1]]
    OBVIOUS
  <2> QED BY <2>1
<1> HIDE DEF A, B
<1> QED BY <1>2, <1>3, FS_Subset

LEMMA NothingShared ==
    ASSUME NEW S, NEW max \in Nat, NEW f \in [S -> Nat], \A e \in S : f[e] = 0
    PROVE  Units(f, max) = 0
<1>1. {u \in (DOMAIN f) \X (1 .. max) : u[2] <= f[u[1]]} = {}
  <2> SUFFICES ASSUME NEW u \in S \X (1 .. max) PROVE ~(u[2] <= f[u[1]])
    OBVIOUS
  <2> QED OBVIOUS
<1> QED BY <1>1, FS_EmptySet DEF Units

\* A round gives away no more than its reward.
FairRound(r) == Units(r.share, mining_output_amount) <= r.reward

LEMMA AloneFair ==
    ASSUME TypeOK, NEW d \in Dogs
    PROVE  FairRound(AloneRound(d))
<1>1. Reward \in Nat /\ mining_output_amount \in Nat
  BY AmountTypes, AmountAssumption DEF TypeOK
<1> DEFINE f == [e \in Dogs |-> IF e = d THEN Reward ELSE 0]
           w == [e \in {d} |-> 1]
<1>2. f \in [Dogs -> Nat] /\ (\A e \in Dogs \ {d} : f[e] = 0) /\ f[d] = Reward
  BY <1>1
<1>3. w \in [{d} -> 0 .. 1] /\ w[d] = 1
  OBVIOUS
<1>4. Units(w, 1) = 1
  <2>1. {u \in {d} \X (1 .. 1) : u[2] <= w[u[1]]} = {<<d, 1>>}
    OBVIOUS
  <2>2. DOMAIN w = {d}
    OBVIOUS
  <2> HIDE DEF w
  <2> QED BY <2>1, <2>2, FS_Singleton DEF Units
<1> HIDE DEF f, w
<1>5. f[d] * Units(w, 1) <= Reward * w[d] /\ Units(w, 1) # 0
  BY <1>1, <1>2, <1>3, <1>4
<1>6. Units(f, mining_output_amount) <= Reward
  BY <1>1, <1>2, <1>3, <1>5, DogsAssumption, PartsWithinWhole
<1> QED BY <1>6 DEF FairRound, AloneRound, f

LEMMA AllianceFair ==
    ASSUME TypeOK, NEW d \in Dogs, NEW dogs \in SUBSET Dogs
    PROVE  FairRound(AllianceRound(d, dogs))
<1>1. Reward \in Nat /\ mining_output_amount \in Nat
  BY AmountTypes, AmountAssumption DEF TypeOK
<1> DEFINE f == [e \in Dogs |-> IF e \in dogs THEN Share(e, dogs) ELSE 0]
           w == [e \in dogs |-> Weight[e]]
<1>2. f \in [Dogs -> Nat] /\ (\A e \in Dogs \ dogs : f[e] = 0)
  BY ShareType DEF TypeOK
<1>3. w \in [dogs -> 0 .. MaxWeight] /\ MaxWeight \in Nat
  BY WeightAssumption
<1>4. \A e \in dogs : f[e] = Share(e, dogs) /\ w[e] = Weight[e]
  OBVIOUS
<1>5. TotalWeight(dogs) = Units(w, MaxWeight)
  BY DEF TotalWeight
<1> HIDE DEF f, w
<1>6. Units(f, mining_output_amount) <= Reward
  <2>1. CASE dogs = {}
    <3>1. Units(f, mining_output_amount) = 0
      BY <1>1, <1>2, <2>1, NothingShared
    <3> QED BY <1>1, <3>1
  <2>2. CASE dogs # {}
    <3>1. Units(w, MaxWeight) \in Nat \ {0}
      BY <1>5, <2>2, TotalWeightPositive
    <3>2. ASSUME NEW e \in dogs
          PROVE  f[e] * Units(w, MaxWeight) <= Reward * w[e]
      <4>1. PICK n \in Nat, T \in Nat \ {0} :
                n = Reward * w[e] /\ T = Units(w, MaxWeight) /\ f[e] = n \div T
        <5>1. PICK v \in 0 .. MaxWeight : v = w[e]
          BY <1>3
        <5>2. Reward * w[e] \in Nat
          BY <1>1, <1>3, <5>1
        <5> QED BY <1>4, <1>5, <3>1, <5>2 DEF Share
      <4>2. (n \div T) * T <= n
        <5>1. n = T * (n \div T) + (n % T) /\ n \div T \in Nat /\ n % T \in 0 .. (T - 1)
          BY QuotientAndRest
        <5> QED BY <5>1
      <4> QED BY <4>1, <4>2
    <3> QED BY <1>1, <1>2, <1>3, <3>1, <3>2, DogsAssumption, PartsWithinWhole
  <2> QED BY <2>1, <2>2
<1> QED BY <1>6 DEF FairRound, AllianceRound, f

LEMMA LogFinite ==
    ASSUME ChainLinked, TypeOK
    PROVE  /\ IsFiniteSet(DOMAIN record)
           /\ LogSum \in Nat
           /\ \A S \in SUBSET DOMAIN record :
                    IsFiniteSet(S) /\ Cardinality(S) \in Nat
<1>1. IsFiniteSet(DOMAIN record)
  <2>1. logCounter \in Nat /\ DOMAIN record = 1 .. logCounter
    BY DEF ChainLinked, TypeOK, RoundTypeOK
  <2>2. IsFiniteSet(1 .. logCounter)
    BY <2>1, FS_Interval
  <2> QED
    BY <2>1, <2>2
<1> DEFINE f == [k \in DOMAIN record |-> record[k].reward]
<1>2. IsFiniteSet(DOMAIN f)
  <2>1. DOMAIN f = DOMAIN record
    OBVIOUS
  <2> QED
    BY <1>1, <2>1
<1> HIDE DEF f
<1>3. Units(f, mining_output_amount) \in Nat
  <2>1. mining_output_amount \in Nat
    BY AmountAssumption
  <2> QED
    BY <1>2, <2>1, UnitsFinite, Zenon
<1>4. LogSum \in Nat
  BY <1>3 DEF LogSum, f
<1> QED
  BY <1>1, <1>4, FS_Subset, FS_CardinalityType

LEMMA LastKeyIs ==
    ASSUME ChainLinked, TypeOK
    PROVE  /\ record = EmptyMap <=> logCounter = 0
           /\ RestoredCounter = logCounter
<1>1. record = EmptyMap <=> logCounter = 0
  BY DEF ChainLinked, TypeOK, RoundTypeOK, EmptyMap
<1>2. ASSUME logCounter # 0 PROVE LastKey = logCounter
  <2>1. /\ logCounter \in DOMAIN record
        /\ \A j \in DOMAIN record : j <= logCounter
    BY <1>2 DEF ChainLinked, TypeOK, RoundTypeOK
  <2>2. \A k \in DOMAIN record :
            (\A j \in DOMAIN record : j <= k) => k = logCounter
    BY <2>1 DEF ChainLinked, TypeOK, RoundTypeOK
  <2> QED
    BY <2>1, <2>2 DEF LastKey
<1> QED
  BY <1>1, <1>2 DEF RestoredCounter

(***************************************************************************)
(* The steps of a round.                                                   *)
(***************************************************************************)
\* What a step of the round in slot s amounts to: it waits as r, it has
\* become a block, or it was given up.
Waits(s, r) ==
    /\ Outstanding(r)
    /\ rounds' = [rounds EXCEPT ![s] = r]
    /\ pending' = pending \cup {Main}
    /\ UNCHANGED <<ore, logCounter, record, oreCnt, statVars>>

GivenUp(s) ==
    /\ rounds' = [rounds EXCEPT ![s] = NoRound]
    /\ pending' = pending \ {Main}
    /\ UNCHANGED <<ore, logCounter, record, oreCnt, statVars>>

LEMMA ProceedCases ==
    ASSUME NEW s, NEW r, Proceed(s, r)
    PROVE  Waits(s, r) \/ Finish(s, r)
BY DEF Proceed, Waits, GuardKey

LEMMA SuspendedRound ==
    ASSUME TypeOK, NEW s \in RoundSlots, rounds[s] # NoRound
    PROVE  rounds[s] \in Round /\ s \in Suspended
BY DEF TypeOK, RoundTypeOK, Suspended

LEMMA RoundNotIdle == ASSUME NEW r \in Round PROVE r # NoRound
BY MainAssumption DEF Round, NoRound

\* A round in progress: it works on the ore in force, and alone in every slot.
Current(s, r) ==
    /\ r \in Round
    /\ r.ore = ore
    /\ ore < MaxOres
    /\ Suspended \subseteq {s}

LEMMA VerifyCases ==
    ASSUME RoundInv, NEW s \in RoundSlots, NEW d \in Dogs, Verify(s, d)
    PROVE  /\ Suspended = {}
           /\ \E r \in Round :
                /\ Current(s, r)
                /\ r.alone => r.todo \subseteq {r.dog}
                /\ FairRound(r)
                /\ Waits(s, r) \/ Finish(s, r)
           /\ difficulty' = VerifiedDifficulty
           /\ ~Capped
           /\ UNCHANGED <<output, registered, calcs, paid, treasury>>
<1>1. Suspended = {}
  BY DEF RoundInv, GuardHeld, Verify, GuardKey
<1>2. ore < MaxOres
  BY DEF Verify
<1>3. AloneRound(d) \in Round /\ \A dogs \in SUBSET Dogs : AllianceRound(d, dogs) \in Round
  BY RoundTypes DEF RoundInv
<1>4. registered \in SUBSET Dogs
  BY DEF RoundInv, TypeOK, RoundTypeOK
<1>5. PICK r : /\ \/ r = AloneRound(d)
                  \/ \E dogs \in SUBSET registered : r = AllianceRound(d, dogs)
               /\ Proceed(s, r)
  BY DEF Verify
<1>6. r \in Round
  BY <1>3, <1>4, <1>5
<1>7. r.ore = ore /\ (r.alone => r.todo \subseteq {r.dog})
  BY <1>5 DEF AloneRound, AllianceRound
<1>8. Waits(s, r) \/ Finish(s, r)
  BY <1>5, ProceedCases
<1>9. Current(s, r)
  BY <1>1, <1>2, <1>6, <1>7 DEF Current
<1>10. FairRound(r)
  BY <1>4, <1>5, AloneFair, AllianceFair DEF RoundInv
<1> QED
  BY <1>1, <1>6, <1>7, <1>8, <1>9, <1>10 DEF Verify

\* r is the round as it goes on without beneficiary e.
LEMMA PaidCases ==
    ASSUME RoundInv, NEW s \in RoundSlots, NEW e \in Dogs, Paid(s, e)
    PROVE  LET r == [rounds[s] EXCEPT !.todo = @ \ {e}]
           IN  /\ Current(s, r)
               /\ s \in Suspended
               /\ e \in rounds[s].todo
               /\ Waits(s, r) \/ Finish(s, r)
               /\ paid' = [paid EXCEPT ![ore][e] = @ + rounds[s].share[e]]
               /\ UNCHANGED <<difficulty, output, registered, calcs, treasury>>
<1> DEFINE r == [rounds[s] EXCEPT !.todo = @ \ {e}]
<1>1. rounds[s] \in Round /\ s \in Suspended
  BY SuspendedRound DEF RoundInv, Paid
<1>2. rounds[s].ore = ore /\ Suspended \subseteq {s} /\ ore < MaxOres
  BY <1>1 DEF RoundInv, GuardHeld, CreditInv
<1>3. r \in Round /\ r.ore = ore
  BY <1>1, <1>2 DEF Round
<1>4. Proceed(s, r) /\ paid' = [paid EXCEPT ![ore][e] = @ + rounds[s].share[e]]
  BY <1>2 DEF Paid
<1>5. Waits(s, r) \/ Finish(s, r)
  BY <1>4, ProceedCases
<1> QED
  BY <1>1, <1>2, <1>3, <1>4, <1>5 DEF Current, Paid

LEMMA PaymentFailedCases ==
    ASSUME RoundInv, NEW s \in RoundSlots, NEW e \in Dogs, PaymentFailed(s, e)
    PROVE  LET r == [rounds[s] EXCEPT !.todo = @ \ {e}]
           IN  /\ Current(s, r)
               /\ s \in Suspended
               /\ \/ GivenUp(s) /\ rounds[s].alone /\ rounds[s].todo # {}
                  \/ Waits(s, r) \/ Finish(s, r)
               /\ UNCHANGED <<difficulty, output, registered, calcs, paid, treasury>>
<1> DEFINE r == [rounds[s] EXCEPT !.todo = @ \ {e}]
<1>1. rounds[s] \in Round /\ s \in Suspended
  BY SuspendedRound DEF RoundInv, PaymentFailed
<1>2. rounds[s].ore = ore /\ Suspended \subseteq {s} /\ ore < MaxOres
  BY <1>1 DEF RoundInv, GuardHeld, CreditInv
<1>3. r \in Round /\ r.ore = ore
  BY <1>1, <1>2 DEF Round
<1>4. \/ GivenUp(s) /\ rounds[s].alone /\ rounds[s].todo # {}
      \/ Proceed(s, r)
  BY DEF PaymentFailed, GivenUp, Unlocked, GuardKey
<1>5. \/ GivenUp(s) /\ rounds[s].alone /\ rounds[s].todo # {}
      \/ Waits(s, r) \/ Finish(s, r)
  BY <1>4, ProceedCases
<1> QED
  BY <1>1, <1>2, <1>3, <1>5 DEF Current, PaymentFailed

LEMMA FeeSettledCases ==
    ASSUME RoundInv, NEW s \in RoundSlots, FeeSettled(s)
    PROVE  /\ Current(s, rounds[s])
           /\ s \in Suspended
           /\ Finish(s, rounds[s])
           /\ treasury' \in Nat
           /\ UNCHANGED <<difficulty, output, registered, calcs, paid>>
<1>1. rounds[s] \in Round /\ s \in Suspended
  BY SuspendedRound DEF RoundInv, FeeSettled
<1>2. rounds[s].ore = ore /\ Suspended \subseteq {s} /\ ore < MaxOres
  BY <1>1 DEF RoundInv, GuardHeld, CreditInv
<1>3. treasury' \in Nat
  BY <1>1 DEF FeeSettled, RoundInv, TypeOK, RoundTypeOK, Round
<1> QED
  BY <1>1, <1>2, <1>3 DEF Current, FeeSettled

-----------------------------------------------------------------------------
(***************************************************************************)
(* Types.                                                                  *)
(***************************************************************************)
LEMMA RoundStepTypes ==
    ASSUME TypeOK, NEW s \in RoundSlots, NEW r, Current(s, r),
           Waits(s, r) \/ Finish(s, r) \/ GivenUp(s)
    PROVE  RoundTypeOK'
<1> USE DEF TypeOK, RoundTypeOK, Current
<1>1. CASE Waits(s, r)
  BY <1>1 DEF Waits, statVars
<1>2. CASE GivenUp(s)
  BY <1>2 DEF GivenUp, statVars
<1>3. CASE Finish(s, r)
  <2> DEFINE new == [dog |-> r.dog, old |-> r.ore, new |-> ore + 1,
                     reward |-> r.reward, age |-> 0]
  <2>1. new \in LogRecord
    BY MaxOresAssumption, CapAssumption DEF Round, LogRecord
  <2>2. record' = Insert(record, logCounter + 1, new) /\ logCounter' = logCounter + 1
    BY <1>3 DEF Finish, AddOreLog, NewOre
  <2> HIDE DEF new
  <2>3. record' \in [DOMAIN record' -> LogRecord] /\ DOMAIN record' \in SUBSET Nat
    BY <2>1, <2>2 DEF Insert
  <2>4. ore' \in 0 .. MaxOres /\ oreCnt' \in [Dogs -> Nat] /\ blockReward' \in Nat
    BY <1>3, MaxOresAssumption DEF Finish, NewOre, Round
  <2>5. pending' \in SUBSET {Main} /\ minders' \in Nat
    BY <1>3 DEF Finish, Unlocked
  <2>6. rounds' \in [RoundSlots -> Round \cup {NoRound}]
    BY <1>3 DEF Finish
  <2>7. logCounter' \in Nat
    BY <2>2
  <2> QED
    BY ONLY <2>3, <2>4, <2>5, <2>6, <2>7 DEF RoundTypeOK
<1> QED
  BY <1>1, <1>2, <1>3

LEMMA DifficultyTypes ==
    ASSUME TypeOK
    PROVE  /\ VerifiedDifficulty \in BASE_ORE_DIFFICULTY .. MaxDifficulty
           /\ Raised(Lowered(difficulty)) \in BASE_ORE_DIFFICULTY .. MaxDifficulty
<1> USE DifficultyAssumption DEF TypeOK, BASE_ORE_DIFFICULTY, StartDifficulty
<1>1. VerifiedDifficulty \in BASE_ORE_DIFFICULTY .. MaxDifficulty
  BY DEF VerifiedDifficulty
<1>2. Lowered(difficulty) \in BASE_ORE_DIFFICULTY .. MaxDifficulty
  BY DEF Lowered
<1> QED
  BY <1>1, <1>2 DEF Raised

LEMMA OlderType ==
    ASSUME NEW n \in 0 .. Day
    PROVE  Older(n) \in 0 .. Day /\ n <= Older(n)
BY CapAssumption DEF Older

LEMMA ClockRecord ==
    ASSUME TypeOK, Clock
    PROVE  /\ record' \in [DOMAIN record -> LogRecord]
           /\ DOMAIN record' = DOMAIN record
           /\ \A k \in DOMAIN record :
                /\ record'[k].age = Older(record[k].age)
                /\ record'[k].dog = record[k].dog
                /\ record'[k].old = record[k].old
                /\ record'[k].new = record[k].new
                /\ record'[k].reward = record[k].reward
<1>1. record' = [k \in DOMAIN record |-> [record[k] EXCEPT !.age = Older(@)]]
  BY DEF Clock
<1>2. \A k \in DOMAIN record : record[k] \in LogRecord
  BY DEF TypeOK, RoundTypeOK
<1>3. ASSUME NEW rec \in LogRecord, NEW a \in 0 .. Day
      PROVE  LET new == [rec EXCEPT !.age = a]
             IN  /\ new \in LogRecord
                 /\ new.age = a
                 /\ new.dog = rec.dog
                 /\ new.old = rec.old
                 /\ new.new = rec.new
                 /\ new.reward = rec.reward
  BY DEF LogRecord
<1>4. \A k \in DOMAIN record : Older(record[k].age) \in 0 .. Day
  <2>1. \A k \in DOMAIN record : record[k].age \in 0 .. Day
    BY <1>2 DEF LogRecord
  <2> QED
    BY <2>1, OlderType
<1>5. ASSUME NEW k \in DOMAIN record
      PROVE  LET new == [record[k] EXCEPT !.age = Older(@)]
             IN  /\ new \in LogRecord
                 /\ new.age = Older(record[k].age)
                 /\ new.dog = record[k].dog
                 /\ new.old = record[k].old
                 /\ new.new = record[k].new
                 /\ new.reward = record[k].reward
  BY <1>2, <1>3, <1>4
<1> QED
  BY <1>1, <1>5

LEMMA TypeStep == RoundInv /\ [Next]_vars => TypeOK'
<1> SUFFICES ASSUME RoundInv, [Next]_vars PROVE TypeOK'
  OBVIOUS
<1> USE DEF RoundInv
<1>1. ASSUME NEW s \in RoundSlots, NEW d \in Dogs, Verify(s, d) PROVE TypeOK'
  BY <1>1, VerifyCases, RoundStepTypes, DifficultyTypes DEF TypeOK
<1>2. ASSUME NEW s \in RoundSlots, NEW e \in Dogs, Paid(s, e) PROVE TypeOK'
  <2>1. rounds[s] \in Round /\ ore \in 0 .. MaxOres
    BY <1>2, SuspendedRound DEF Paid, TypeOK, RoundTypeOK
  <2>2. paid' = [paid EXCEPT ![ore][e] = @ + rounds[s].share[e]]
    BY <1>2, PaidCases
  <2>3. paid' \in [0 .. MaxOres -> [Dogs -> Nat]]
    BY <2>1, <2>2 DEF TypeOK, Round
  <2>4. RoundTypeOK' /\ UNCHANGED <<difficulty, output, registered, calcs, treasury>>
    BY <1>2, PaidCases, RoundStepTypes
  <2> QED
    BY <2>3, <2>4 DEF TypeOK
<1>3. ASSUME NEW s \in RoundSlots, NEW e \in Dogs, PaymentFailed(s, e) PROVE TypeOK'
  <2>1. RoundTypeOK' /\ UNCHANGED <<difficulty, output, registered, calcs, paid, treasury>>
    BY <1>3, PaymentFailedCases, RoundStepTypes
  <2> QED
    BY <2>1 DEF TypeOK
<1>4. ASSUME NEW s \in RoundSlots, FeeSettled(s) PROVE TypeOK'
  <2>1. RoundTypeOK' /\ treasury' \in Nat
        /\ UNCHANGED <<difficulty, output, registered, calcs, paid>>
    BY <1>4, FeeSettledCases, RoundStepTypes
  <2> QED
    BY <2>1 DEF TypeOK
<1>5. ASSUME NEW c \in CalcSlots, CalcStart(c) PROVE TypeOK'
  <2>1. LogSum \in Nat
    BY LogFinite
  <2>2. Cardinality(registered) \in Nat
    BY DogsAssumption, FS_Subset, FS_CardinalityType DEF TypeOK
  <2>3. calcs' \in [CalcSlots -> Calc \cup {NoCalc}]
    BY <1>5, <2>1, <2>2 DEF CalcStart, TypeOK, Calc
  <2>4. difficulty' \in BASE_ORE_DIFFICULTY .. MaxDifficulty
    BY <1>5, DifficultyTypes DEF CalcStart
  <2> QED
    BY <1>5, <2>3, <2>4 DEF CalcStart, TypeOK, RoundTypeOK, roundVars, statVars
<1>6. ASSUME NEW c \in CalcSlots, CalcEnd(c) PROVE TypeOK'
  <2>1. calcs[c] \in Calc
    BY <1>6 DEF CalcEnd, TypeOK
  <2> QED
    BY <1>6, <2>1 DEF CalcEnd, CalcTotal, TypeOK, RoundTypeOK, roundVars, Calc
<1>7. ASSUME NEW d \in Dogs, RegisterDog(d) PROVE TypeOK'
  BY <1>7 DEF RegisterDog, TypeOK, RoundTypeOK, roundVars
<1>8. CASE Clock
  <2>1. record' \in [DOMAIN record' -> LogRecord] /\ DOMAIN record' = DOMAIN record
    BY <1>8, ClockRecord
  <2> QED
    BY <1>8, <2>1 DEF Clock, TypeOK, RoundTypeOK, statVars
<1>9. CASE Halve
  <2>1. output' \in 0 .. mining_output_amount
    BY <1>9, AmountAssumption DEF Halve, TypeOK
  <2> QED
    BY <1>9, <2>1 DEF Halve, TypeOK, RoundTypeOK, roundVars, statVars
<1>10. CASE UpgradeMain
  <2>1. logCounter' = logCounter
    BY <1>10, LastKeyIs DEF UpgradeMain
  <2>2. ore' \in 0 .. MaxOres
    BY <1>10, MaxOresAssumption DEF UpgradeMain, NewOre, TypeOK, RoundTypeOK
  <2>3. difficulty' \in BASE_ORE_DIFFICULTY .. MaxDifficulty
    BY <1>10, DifficultyAssumption DEF UpgradeMain, BASE_ORE_DIFFICULTY, StartDifficulty
  <2> QED
    BY <1>10, <2>1, <2>2, <2>3 DEF UpgradeMain, TypeOK, RoundTypeOK
<1>11. CASE UNCHANGED vars
  BY <1>11 DEF vars, TypeOK, RoundTypeOK, roundVars, statVars
<1> QED
  BY <1>1, <1>2, <1>3, <1>4, <1>5, <1>6, <1>7, <1>8, <1>9, <1>10, <1>11
     DEF Next, Settle

-----------------------------------------------------------------------------
(***************************************************************************)
(* The guard.                                                              *)
(***************************************************************************)
\* The suspended rounds after a step of a round.
LEMMA SuspendedAfter ==
    ASSUME TypeOK, NEW s \in RoundSlots, NEW r, Current(s, r)
    PROVE  /\ Waits(s, r) => Suspended' = {s} /\ rounds'[s] = r
           /\ Finish(s, r) \/ GivenUp(s) => Suspended' = {}
<1>1. \A t \in RoundSlots : t # s => rounds[t] = NoRound
  BY DEF Current, Suspended
<1>2. rounds \in [RoundSlots -> Round \cup {NoRound}]
  BY DEF TypeOK, RoundTypeOK
<1>3. r # NoRound
  BY RoundNotIdle DEF Current
<1>4. ASSUME Waits(s, r) PROVE Suspended' = {s} /\ rounds'[s] = r
  BY <1>1, <1>2, <1>3, <1>4 DEF Waits, Suspended
<1>5. ASSUME Finish(s, r) \/ GivenUp(s) PROVE Suspended' = {}
  <2>1. rounds' = [rounds EXCEPT ![s] = NoRound]
    BY <1>5 DEF Finish, GivenUp
  <2> QED
    BY <1>1, <1>2, <2>1 DEF Suspended
<1> QED
  BY <1>4, <1>5

LEMMA RoundStepGuard ==
    ASSUME TypeOK, NEW s \in RoundSlots, NEW r, Current(s, r),
           Waits(s, r) \/ Finish(s, r) \/ GivenUp(s)
    PROVE  GuardHeld'
<1>1. pending \subseteq {Main}
  BY DEF TypeOK, RoundTypeOK
<1>2. CASE Waits(s, r)
  <2>1. Suspended' = {s} /\ rounds'[s] = r
    BY <1>2, SuspendedAfter
  <2>2. pending' = {Main} /\ ore' = ore /\ r.ore = ore
    BY <1>1, <1>2 DEF Waits, Current
  <2> QED
    BY <2>1, <2>2 DEF GuardHeld
<1>3. CASE Finish(s, r) \/ GivenUp(s)
  <2>1. Suspended' = {}
    BY <1>3, SuspendedAfter
  <2>2. pending' = {}
    BY <1>1, <1>3 DEF Finish, GivenUp, Unlocked, GuardKey
  <2> QED
    BY <2>1, <2>2 DEF GuardHeld
<1> QED
  BY <1>2, <1>3

\* The steps that leave the rounds, the guard, the ore and the log alone.
LEMMA OtherSteps ==
    ASSUME Next
    PROVE  \/ \E s \in RoundSlots : \E d \in Dogs :
                Verify(s, d) \/ Paid(s, d) \/ PaymentFailed(s, d)
           \/ \E s \in RoundSlots : FeeSettled(s)
           \/ Clock
           \/ UpgradeMain
           \/ UNCHANGED <<roundVars, paid>>
BY DEF Next, Settle, CalcStart, CalcEnd, RegisterDog, Halve

LEMMA GuardStep == RoundInv /\ [Next]_vars => GuardHeld'
<1> SUFFICES ASSUME RoundInv, [Next]_vars PROVE GuardHeld'
  OBVIOUS
<1> USE DEF RoundInv
<1>1. ASSUME NEW s \in RoundSlots, NEW d \in Dogs, Verify(s, d) PROVE GuardHeld'
  BY <1>1, VerifyCases, RoundStepGuard
<1>2. ASSUME NEW s \in RoundSlots, NEW e \in Dogs, Paid(s, e) PROVE GuardHeld'
  BY <1>2, PaidCases, RoundStepGuard
<1>3. ASSUME NEW s \in RoundSlots, NEW e \in Dogs, PaymentFailed(s, e) PROVE GuardHeld'
  BY <1>3, PaymentFailedCases, RoundStepGuard
<1>4. ASSUME NEW s \in RoundSlots, FeeSettled(s) PROVE GuardHeld'
  BY <1>4, FeeSettledCases, RoundStepGuard
<1>5. CASE Clock
  BY <1>5 DEF Clock, GuardHeld, Suspended
<1>6. CASE UpgradeMain
  BY <1>6 DEF UpgradeMain, GuardHeld, Suspended
<1>7. CASE UNCHANGED <<roundVars, paid>>
  BY <1>7 DEF roundVars, GuardHeld, Suspended
<1>8. CASE UNCHANGED vars
  BY <1>8 DEF vars, roundVars, GuardHeld, Suspended
<1> QED
  BY <1>1, <1>2, <1>3, <1>4, <1>5, <1>6, <1>7, <1>8, OtherSteps

-----------------------------------------------------------------------------
(***************************************************************************)
(* The log.                                                                *)
(***************************************************************************)
LEMMA RoundStepChain ==
    ASSUME TypeOK, ChainLinked, NEW s \in RoundSlots, NEW r, Current(s, r),
           Waits(s, r) \/ Finish(s, r) \/ GivenUp(s)
    PROVE  ChainLinked'
<1>1. CASE Waits(s, r) \/ GivenUp(s)
  BY <1>1 DEF Waits, GivenUp, ChainLinked
<1>2. CASE Finish(s, r)
  <2> DEFINE new == [dog |-> r.dog, old |-> r.ore, new |-> ore + 1,
                     reward |-> r.reward, age |-> 0]
  <2>1. /\ record' = Insert(record, logCounter + 1, new)
        /\ logCounter' = logCounter + 1
        /\ ore' = ore + 1
    BY <1>2 DEF Finish, AddOreLog, NewOre
  <2>2. new.old = ore /\ new.new = ore + 1 /\ ore \in Nat /\ logCounter \in Nat
    BY DEF Current, TypeOK, RoundTypeOK
  <2> HIDE DEF new
  <2>3. DOMAIN record = 1 .. logCounter
    BY DEF ChainLinked
  <2>4. /\ DOMAIN record' = 1 .. logCounter'
        /\ record'[logCounter + 1] = new
        /\ \A k \in 1 .. logCounter : record'[k] = record[k]
    BY <2>1, <2>2, <2>3 DEF Insert
  <2>5. \A k \in 1 .. logCounter : record[k].old \in Nat /\ record[k].new \in Nat
    BY <2>3 DEF TypeOK, RoundTypeOK, LogRecord
  <2>6. ASSUME NEW k \in DOMAIN record'
        PROVE  /\ record'[k].old < record'[k].new
               /\ record'[k].new <= ore'
               /\ \A j \in DOMAIN record' : j < k => record'[j].new <= record'[k].old
    <3>1. CASE k = logCounter + 1
      BY <2>1, <2>2, <2>3, <2>4, <2>5, <3>1 DEF ChainLinked
    <3>2. CASE k \in 1 .. logCounter
      <4>1. record'[k] = record[k] /\ k \in DOMAIN record
        BY <2>3, <2>4, <3>2
      <4>2. \A j \in DOMAIN record' : j < k => j \in DOMAIN record /\ record'[j] = record[j]
        BY <2>1, <2>2, <2>3, <2>4, <3>2
      <4>3. record[k].new <= ore + 1
        BY <2>2, <2>5, <3>2, <4>1 DEF ChainLinked
      <4> QED
        BY <2>1, <4>1, <4>2, <4>3 DEF ChainLinked
    <3> QED
      BY <2>1, <2>2, <2>4, <3>1, <3>2
  <2> QED
    BY <2>4, <2>6 DEF ChainLinked
<1> QED
  BY <1>1, <1>2

LEMMA ChainStep == RoundInv /\ [Next]_vars => ChainLinked'
<1> SUFFICES ASSUME RoundInv, [Next]_vars PROVE ChainLinked'
  OBVIOUS
<1> USE DEF RoundInv
<1>1. ASSUME NEW s \in RoundSlots, NEW d \in Dogs, Verify(s, d) PROVE ChainLinked'
  BY <1>1, VerifyCases, RoundStepChain
<1>2. ASSUME NEW s \in RoundSlots, NEW e \in Dogs, Paid(s, e) PROVE ChainLinked'
  BY <1>2, PaidCases, RoundStepChain
<1>3. ASSUME NEW s \in RoundSlots, NEW e \in Dogs, PaymentFailed(s, e) PROVE ChainLinked'
  BY <1>3, PaymentFailedCases, RoundStepChain
<1>4. ASSUME NEW s \in RoundSlots, FeeSettled(s) PROVE ChainLinked'
  BY <1>4, FeeSettledCases, RoundStepChain
<1>5. CASE Clock
  <2>1. logCounter' = logCounter /\ ore' = ore
    BY <1>5 DEF Clock
  <2> QED
    BY <1>5, <2>1, ClockRecord DEF ChainLinked
<1>6. CASE UpgradeMain
  <2>1. logCounter' = logCounter /\ record' = record /\ ore' = ore + 1
    BY <1>6, LastKeyIs DEF UpgradeMain, NewOre
  <2>2. ore \in Nat /\ \A k \in DOMAIN record : record[k].new \in Nat
    BY DEF TypeOK, RoundTypeOK, LogRecord
  <2> QED
    BY <2>1, <2>2 DEF ChainLinked
<1>7. CASE UNCHANGED <<roundVars, paid>>
  BY <1>7 DEF roundVars, ChainLinked
<1>8. CASE UNCHANGED vars
  BY <1>8 DEF vars, roundVars, ChainLinked
<1> QED
  BY <1>1, <1>2, <1>3, <1>4, <1>5, <1>6, <1>7, <1>8, OtherSteps

-----------------------------------------------------------------------------
(***************************************************************************)
(* The cap.                                                                *)
(***************************************************************************)
\* One more block would still find the block MAST_OUT_CNT before it a day old.
Room ==
    \A k \in DOMAIN record :
        k + MAST_OUT_CNT <= logCounter + 1 => record[k].age = Day

LEMMA LogTypes ==
    ASSUME TypeOK, ChainLinked
    PROVE  /\ logCounter \in Nat
           /\ DOMAIN record = 1 .. logCounter
           /\ \A k \in DOMAIN record : k \in Nat /\ record[k].age \in 0 .. Day
BY DEF TypeOK, RoundTypeOK, LogRecord, ChainLinked

\* The check of verify_ore leaves room, because ages fall along the log.
LEMMA UncappedHasRoom ==
    ASSUME TypeOK, ChainLinked, CapInv, ~Capped
    PROVE  Room
<1> SUFFICES ASSUME NEW k \in DOMAIN record,
                    k + MAST_OUT_CNT <= logCounter + 1, record[k].age # Day
             PROVE  FALSE
  BY DEF Room
<1> USE CapAssumption
<1> DEFINE today == {i \in DOMAIN record :
                        \A j \in DOMAIN record : j >= i => record[j].age < Day}
<1>1. \A j \in DOMAIN record : j >= k => record[j].age < Day
  BY LogTypes DEF CapInv
<1>2. k .. logCounter \subseteq today
  BY <1>1, LogTypes
<1>3. IsFiniteSet(today) /\ Cardinality(today) \in Nat
  BY LogFinite
<1>4. Cardinality(today) < MAST_OUT_CNT
  BY <1>3 DEF Capped, MinedToday
<1> HIDE DEF today
<1>5. /\ IsFiniteSet(k .. logCounter)
      /\ Cardinality(k .. logCounter) = logCounter - k + 1
  BY LogTypes, FS_Interval
<1>6. Cardinality(k .. logCounter) <= Cardinality(today)
  BY <1>2, <1>3, FS_Subset
<1> QED
  BY <1>3, <1>4, <1>5, <1>6, LogTypes

LEMMA RoundStepCap ==
    ASSUME TypeOK, ChainLinked, CapInv, Room,
           NEW s \in RoundSlots, NEW r, Current(s, r),
           Waits(s, r) \/ Finish(s, r) \/ GivenUp(s)
    PROVE  CapInv'
<1>1. CASE Waits(s, r) \/ GivenUp(s)
  BY <1>1 DEF Waits, GivenUp, CapInv, Room
<1>2. CASE Finish(s, r)
  <2> DEFINE new == [dog |-> r.dog, old |-> r.ore, new |-> ore + 1,
                     reward |-> r.reward, age |-> 0]
  <2>1. /\ record' = Insert(record, logCounter + 1, new)
        /\ logCounter' = logCounter + 1
    BY <1>2 DEF Finish, AddOreLog, NewOre
  <2>2. new.age = 0
    OBVIOUS
  <2> HIDE DEF new
  <2>3. Suspended' = {}
    BY <1>2, SuspendedAfter
  <2>4. /\ DOMAIN record' = 1 .. (logCounter + 1)
        /\ record'[logCounter + 1] = new
        /\ \A k \in 1 .. logCounter : record'[k] = record[k]
    BY <2>1, LogTypes DEF Insert
  <2>5. ASSUME NEW j \in DOMAIN record', NEW k \in DOMAIN record', j <= k
        PROVE  record'[k].age <= record'[j].age
    <3>1. CASE k = logCounter + 1
      BY <2>2, <2>4, <2>5, <3>1, LogTypes
    <3>2. CASE k # logCounter + 1
      BY <2>4, <2>5, <3>2, LogTypes DEF CapInv
    <3> QED
      BY <3>1, <3>2
  <2>6. ASSUME NEW k \in DOMAIN record', k + MAST_OUT_CNT <= logCounter'
        PROVE  record'[k].age = Day
    <3>1. k \in 1 .. logCounter
      BY <2>1, <2>4, <2>6, LogTypes, CapAssumption
    <3>2. k \in DOMAIN record /\ k + MAST_OUT_CNT <= logCounter + 1
      BY <2>1, <2>6, <3>1, LogTypes
    <3> QED
      BY <2>4, <3>1, <3>2 DEF Room
  <2> QED
    BY <2>3, <2>5, <2>6 DEF CapInv
<1> QED
  BY <1>1, <1>2

LEMMA CapStep == RoundInv /\ [Next]_vars => CapInv'
<1> SUFFICES ASSUME RoundInv, [Next]_vars PROVE CapInv'
  OBVIOUS
<1> USE DEF RoundInv
<1>1. ASSUME NEW s \in RoundSlots, NEW d \in Dogs, Verify(s, d) PROVE CapInv'
  BY <1>1, VerifyCases, UncappedHasRoom, RoundStepCap
<1>2. ASSUME NEW s \in RoundSlots, NEW e \in Dogs, Paid(s, e) PROVE CapInv'
  <2>1. Room
    BY <1>2, PaidCases DEF CapInv, Room
  <2> QED
    BY <1>2, <2>1, PaidCases, RoundStepCap
<1>3. ASSUME NEW s \in RoundSlots, NEW e \in Dogs, PaymentFailed(s, e) PROVE CapInv'
  <2>1. Room
    BY <1>3, PaymentFailedCases DEF CapInv, Room
  <2> QED
    BY <1>3, <2>1, PaymentFailedCases, RoundStepCap
<1>4. ASSUME NEW s \in RoundSlots, FeeSettled(s) PROVE CapInv'
  <2>1. Room
    BY <1>4, FeeSettledCases DEF CapInv, Room
  <2> QED
    BY <1>4, <2>1, FeeSettledCases, RoundStepCap
<1>5. CASE Clock
  <2>1. logCounter' = logCounter /\ Suspended' = Suspended
    BY <1>5 DEF Clock, Suspended
  <2>2. /\ DOMAIN record' = DOMAIN record
        /\ \A k \in DOMAIN record : record'[k].age = Older(record[k].age)
    BY <1>5, ClockRecord
  <2>3. \A m, n \in 0 .. Day : m <= n => Older(m) <= Older(n)
    BY CapAssumption DEF Older
  <2>4. Older(Day) = Day
    BY CapAssumption DEF Older
  <2>5. \A j, k \in DOMAIN record' : j <= k => record'[k].age <= record'[j].age
    BY <2>2, <2>3, LogTypes DEF CapInv
  <2> QED
    BY <2>1, <2>2, <2>4, <2>5 DEF CapInv
<1>6. CASE UpgradeMain
  <2>1. logCounter' = logCounter /\ record' = record /\ Suspended' = Suspended
    BY <1>6, LastKeyIs DEF UpgradeMain, Suspended
  <2> QED
    BY <2>1 DEF CapInv
<1>7. CASE UNCHANGED <<roundVars, paid>>
  BY <1>7 DEF roundVars, CapInv, Suspended
<1>8. CASE UNCHANGED vars
  BY <1>8 DEF vars, roundVars, CapInv, Suspended
<1> QED
  BY <1>1, <1>2, <1>3, <1>4, <1>5, <1>6, <1>7, <1>8, OtherSteps

-----------------------------------------------------------------------------
(***************************************************************************)
(* The payments.                                                           *)
(***************************************************************************)
LEMMA StepKindsDiffer ==
    ASSUME TypeOK, NEW s \in RoundSlots, NEW r, Current(s, r)
    PROVE  /\ Waits(s, r) => ~Finish(s, r) /\ ~GivenUp(s)
           /\ Finish(s, r) => ~GivenUp(s)
<1>1. Waits(s, r) => ~Finish(s, r) /\ ~GivenUp(s)
  BY SuspendedAfter
<1>2. ore + 1 # ore
  BY DEF TypeOK, RoundTypeOK
<1>3. Finish(s, r) => ~GivenUp(s)
  BY <1>2 DEF Finish, NewOre, GivenUp
<1> QED
  BY <1>1, <1>3

LEMMA RoundStepCredit ==
    ASSUME TypeOK, NEW s \in RoundSlots, NEW r, Current(s, r),
           Waits(s, r) \/ Finish(s, r) \/ GivenUp(s),
           \A o \in 0 .. MaxOres : o > ore => \A e \in Dogs : paid'[o][e] = 0,
           Waits(s, r) =>
                /\ \A e \in r.todo : paid'[ore][e] = 0
                /\ r.alone => r.todo \subseteq {r.dog}
                /\ r.alone /\ r.todo # {} => \A e \in Dogs : paid'[ore][e] = 0,
           GivenUp(s) => \A e \in Dogs : paid'[ore][e] = 0
    PROVE  CreditInv'
<1>1. CASE Waits(s, r)
  <2>1. Suspended' = {s} /\ rounds'[s] = r
    BY <1>1, SuspendedAfter
  <2>2. ore' = ore /\ ore < MaxOres
    BY <1>1 DEF Waits, Current
  <2> QED
    BY <1>1, <2>1, <2>2 DEF CreditInv
<1>2. CASE GivenUp(s)
  <2>1. Suspended' = {} /\ ore' = ore
    BY <1>2, SuspendedAfter DEF GivenUp
  <2> QED
    BY <1>2, <2>1 DEF CreditInv
<1>3. CASE Finish(s, r)
  <2>1. Suspended' = {} /\ ore' = ore + 1
    BY <1>3, SuspendedAfter DEF Finish, NewOre
  <2>2. ore + 1 \in 0 .. MaxOres /\ ore + 1 > ore
    BY MaxOresAssumption DEF Current, TypeOK, RoundTypeOK
  <2>3. \A o \in 0 .. MaxOres : o > ore + 1 => o > ore
    BY <2>2, MaxOresAssumption DEF TypeOK, RoundTypeOK
  <2> QED
    BY <2>1, <2>2, <2>3 DEF CreditInv
<1> QED
  BY <1>1, <1>2, <1>3

LEMMA CreditStep == RoundInv /\ [Next]_vars => CreditInv'
<1> SUFFICES ASSUME RoundInv, [Next]_vars PROVE CreditInv'
  OBVIOUS
<1> USE DEF RoundInv
<1>1. ASSUME NEW s \in RoundSlots, NEW d \in Dogs, Verify(s, d) PROVE CreditInv'
  <2>1. PICK r \in Round : /\ Current(s, r)
                           /\ r.alone => r.todo \subseteq {r.dog}
                           /\ Waits(s, r) \/ Finish(s, r)
    BY <1>1, VerifyCases
  <2>2. paid' = paid /\ Suspended = {}
    BY <1>1, VerifyCases
  <2>3. \A e \in Dogs : paid[ore][e] = 0
    BY <2>2 DEF CreditInv
  <2>4. r.todo \subseteq Dogs
    BY DEF Round
  <2>5. ~GivenUp(s)
    BY <2>1, StepKindsDiffer
  <2> QED
    BY <2>1, <2>2, <2>3, <2>4, <2>5, RoundStepCredit DEF CreditInv
<1>2. ASSUME NEW s \in RoundSlots, NEW e \in Dogs, Paid(s, e) PROVE CreditInv'
  <2> DEFINE r == [rounds[s] EXCEPT !.todo = @ \ {e}]
  <2>1. /\ Current(s, r)
        /\ s \in Suspended
        /\ e \in rounds[s].todo
        /\ Waits(s, r) \/ Finish(s, r)
        /\ paid' = [paid EXCEPT ![ore][e] = @ + rounds[s].share[e]]
    BY <1>2, PaidCases
  <2>2. rounds[s] \in Round
    BY <1>2, SuspendedRound DEF Paid
  <2>3. /\ r.todo = rounds[s].todo \ {e}
        /\ r.alone = rounds[s].alone
        /\ r.dog = rounds[s].dog
    BY <2>2 DEF Round
  <2>4. paid \in [0 .. MaxOres -> [Dogs -> Nat]] /\ ore \in 0 .. MaxOres
    BY DEF TypeOK, RoundTypeOK
  <2>5. /\ \A o \in 0 .. MaxOres : o > ore => paid'[o] = paid[o]
        /\ \A x \in Dogs : x # e => paid'[ore][x] = paid[ore][x]
    BY <2>1, <2>4
  <2>6. rounds[s].todo \subseteq Dogs
    BY <2>2 DEF Round
  <2>7. /\ \A x \in r.todo : paid'[ore][x] = 0
        /\ r.alone => r.todo = {}
    BY <2>1, <2>3, <2>5, <2>6 DEF CreditInv
  <2>8. \A o \in 0 .. MaxOres : o > ore => \A x \in Dogs : paid'[o][x] = 0
    BY <2>5 DEF CreditInv
  <2> HIDE DEF r
  <2>9. ~GivenUp(s)
    BY <2>1, StepKindsDiffer
  <2> QED
    BY <2>1, <2>7, <2>8, <2>9, RoundStepCredit
<1>3. ASSUME NEW s \in RoundSlots, NEW e \in Dogs, PaymentFailed(s, e) PROVE CreditInv'
  <2> DEFINE r == [rounds[s] EXCEPT !.todo = @ \ {e}]
  <2>1. /\ Current(s, r)
        /\ s \in Suspended
        /\ \/ GivenUp(s) /\ rounds[s].alone /\ rounds[s].todo # {}
           \/ Waits(s, r) \/ Finish(s, r)
        /\ paid' = paid
    BY <1>3, PaymentFailedCases
  <2>2. rounds[s] \in Round
    BY <1>3, SuspendedRound DEF PaymentFailed
  <2>3. /\ r.todo = rounds[s].todo \ {e}
        /\ r.alone = rounds[s].alone
        /\ r.dog = rounds[s].dog
    BY <2>2 DEF Round
  <2>4. /\ \A x \in r.todo : paid'[ore][x] = 0
        /\ r.alone => r.todo \subseteq {r.dog}
        /\ r.alone /\ r.todo # {} => \A x \in Dogs : paid'[ore][x] = 0
    BY <2>1, <2>3 DEF CreditInv
  <2>5. \A o \in 0 .. MaxOres : o > ore => \A x \in Dogs : paid'[o][x] = 0
    BY <2>1 DEF CreditInv
  <2> HIDE DEF r
  <2>6. CASE GivenUp(s) /\ rounds[s].alone /\ rounds[s].todo # {}
    <3>1. \A x \in Dogs : paid'[ore][x] = 0
      BY <2>1, <2>6 DEF CreditInv
    <3> QED
      BY <2>1, <2>4, <2>5, <2>6, <3>1, RoundStepCredit
  <2>7. CASE Waits(s, r) \/ Finish(s, r)
    <3>1. ~GivenUp(s)
      BY <2>1, <2>7, StepKindsDiffer
    <3> QED
      BY <2>1, <2>4, <2>5, <2>7, <3>1, RoundStepCredit
  <2> QED
    BY <2>1, <2>6, <2>7
<1>4. ASSUME NEW s \in RoundSlots, FeeSettled(s) PROVE CreditInv'
  <2>1. Current(s, rounds[s]) /\ s \in Suspended /\ Finish(s, rounds[s]) /\ paid' = paid
    BY <1>4, FeeSettledCases
  <2>2. ~GivenUp(s) /\ ~Waits(s, rounds[s])
    BY <2>1, StepKindsDiffer
  <2> QED
    BY <2>1, <2>2, RoundStepCredit DEF CreditInv
<1>5. CASE Clock
  BY <1>5 DEF Clock, CreditInv, Suspended
<1>6. CASE UpgradeMain
  <2>1. ore' = ore + 1 /\ ore + 1 \in 0 .. MaxOres /\ ore + 1 > ore
    BY <1>6, MaxOresAssumption DEF UpgradeMain, NewOre, TypeOK, RoundTypeOK
  <2>2. \A o \in 0 .. MaxOres : o > ore + 1 => o > ore
    BY <2>1, MaxOresAssumption DEF TypeOK, RoundTypeOK
  <2>3. paid' = paid /\ Suspended' = {}
    BY <1>6 DEF UpgradeMain, Suspended
  <2> QED
    BY <2>1, <2>2, <2>3 DEF CreditInv
<1>7. CASE UNCHANGED <<roundVars, paid>>
  BY <1>7 DEF roundVars, CreditInv, Suspended
<1>8. CASE UNCHANGED vars
  BY <1>8 DEF vars, roundVars, CreditInv, Suspended
<1> QED
  BY <1>1, <1>2, <1>3, <1>4, <1>5, <1>6, <1>7, <1>8, OtherSteps

-----------------------------------------------------------------------------
(***************************************************************************)
(* The invariants of the specification.                                    *)
(***************************************************************************)
LEMMA InitRound == Init => RoundInv
<1> SUFFICES ASSUME Init PROVE RoundInv
  OBVIOUS
<1>1. DOMAIN record = {} /\ Suspended = {} /\ logCounter = 0
  BY DEF Init, EmptyMap, Suspended
<1>2. record \in [DOMAIN record -> LogRecord]
  BY <1>1 DEF Init, EmptyMap
<1>3. ore \in 0 .. MaxOres /\ ore = 0
  BY MaxOresAssumption DEF Init
<1>4. RoundTypeOK
  BY <1>1, <1>2, <1>3 DEF Init, RoundTypeOK
<1>5. paid = [o \in 0 .. MaxOres |-> [e \in Dogs |-> 0]]
  BY DEF Init
<1>6. TypeOK
  BY <1>4, <1>5, AmountAssumption, DifficultyAssumption
     DEF Init, TypeOK, BASE_ORE_DIFFICULTY, StartDifficulty
<1>7. GuardHeld
  BY <1>1 DEF Init, GuardHeld
<1>8. ChainLinked
  BY <1>1 DEF ChainLinked
<1>9. CapInv
  BY <1>1 DEF CapInv
<1>10. CreditInv
  BY <1>1, <1>3, <1>5 DEF CreditInv
<1> QED
  BY <1>6, <1>7, <1>8, <1>9, <1>10 DEF RoundInv

LEMMA NextRound == RoundInv /\ [Next]_vars => RoundInv'
BY TypeStep, GuardStep, ChainStep, CapStep, CreditStep DEF RoundInv

LEMMA RoundsHold == Spec => []RoundInv
BY InitRound, NextRound, PTL DEF Spec

\* Every variable keeps its type; the difficulty never falls below the floor,
\* however the adjustments of verify_ore, calc and upgrades interleave.
THEOREM RoundTypesHold == Spec => []TypeOK
<1>1. RoundInv => TypeOK
  BY DEF RoundInv
<1> QED
  BY <1>1, RoundsHold, PTL

\* CallerGuard serves its purpose: one round at a time, and the ore it copied
\* before its awaits is still in force after them.
THEOREM GuardHolds == Spec => []GuardHeld
<1>1. RoundInv => GuardHeld
  BY DEF RoundInv
<1> QED
  BY <1>1, RoundsHold, PTL

\* ORE_RECORD is dense and linked, across upgrades.
THEOREM ChainHolds == Spec => []ChainLinked
<1>1. RoundInv => ChainLinked
  BY DEF RoundInv
<1> QED
  BY <1>1, RoundsHold, PTL

\* No day sees more than MAST_OUT_CNT blocks.
THEOREM DayCapHolds == Spec => []DayCap
<1>1. ASSUME RoundInv PROVE DayCap
  <2> USE <1>1, CapAssumption DEF RoundInv
  <2> DEFINE today == {k \in DOMAIN record : record[k].age < Day}
             last == (logCounter + 1 - MAST_OUT_CNT) .. logCounter
  <2>1. today \subseteq last
    <3> SUFFICES ASSUME NEW k \in today PROVE k \in last
      OBVIOUS
    <3>1. k \in 1 .. logCounter /\ record[k].age # Day
      BY LogTypes
    <3>2. ~(k + MAST_OUT_CNT <= logCounter)
      BY <3>1 DEF CapInv
    <3> QED
      BY <3>1, <3>2, LogTypes
  <2>2. IsFiniteSet(last) /\ Cardinality(last) = MAST_OUT_CNT
    BY LogTypes, FS_Interval
  <2> HIDE DEF last
  <2>3. Cardinality(today) <= Cardinality(last)
    BY <2>1, <2>2, FS_Subset
  <2> QED
    BY <2>2, <2>3 DEF DayCap, MinedWithin
<1> QED
  BY <1>1, RoundsHold, PTL

-----------------------------------------------------------------------------

(***************************************************************************)
(* What a step of the rounds does to payments and to the log.              *)
(***************************************************************************)
\* The log gains the block that d found.
Mined(d) ==
    /\ ore' = ore + 1
    /\ logCounter' = logCounter + 1
    /\ oreCnt' = [oreCnt EXCEPT ![d] = @ + 1]
    /\ DOMAIN record' = 1 .. (logCounter + 1)
    /\ \A k \in 1 .. logCounter : record'[k] = record[k]
    /\ record'[logCounter + 1].dog = d
    /\ record'[logCounter + 1].old = ore
    /\ record'[logCounter + 1].new = ore + 1

\* The log keeps its blocks.
SameLog ==
    /\ logCounter' = logCounter
    /\ oreCnt' = oreCnt
    /\ DOMAIN record' = DOMAIN record
    /\ \A k \in DOMAIN record :
            /\ record'[k].dog = record[k].dog
            /\ record'[k].old = record[k].old
            /\ record'[k].new = record[k].new

LEMMA FinishMines ==
    ASSUME RoundInv, NEW s, NEW r, Current(s, r), Finish(s, r)
    PROVE  r.dog \in Dogs /\ Mined(r.dog)
<1> DEFINE new == [dog |-> r.dog, old |-> r.ore, new |-> ore + 1,
                   reward |-> r.reward, age |-> 0]
<1>1. /\ record' = Insert(record, logCounter + 1, new)
      /\ logCounter' = logCounter + 1
      /\ ore' = ore + 1
      /\ oreCnt' = [oreCnt EXCEPT ![r.dog] = @ + 1]
  BY DEF Finish, AddOreLog, NewOre
<1>2. new.dog = r.dog /\ new.old = ore /\ new.new = ore + 1 /\ r.dog \in Dogs
  BY DEF Current, Round
<1>3. logCounter \in Nat /\ DOMAIN record = 1 .. logCounter
  BY LogTypes DEF RoundInv
<1> HIDE DEF new
<1>4. /\ DOMAIN record' = 1 .. (logCounter + 1)
      /\ \A k \in 1 .. logCounter : record'[k] = record[k]
      /\ record'[logCounter + 1] = new
  BY <1>1, <1>3 DEF Insert
<1> QED
  BY <1>1, <1>2, <1>4 DEF Mined

\* Every step credits at most one beneficiary, one who is still to be paid,
\* and mines a block, replaces the ore, or leaves ore and log alone.
LEMMA ChainStepCases ==
    ASSUME RoundInv, [Next]_vars
    PROVE  \/ /\ \E d \in Dogs : Mined(d)
              /\ \/ paid' = paid
                 \/ \E e \in Dogs : \E n \in Nat :
                        paid[ore][e] = 0 /\ paid' = [paid EXCEPT ![ore][e] = n]
           \/ /\ SameLog
              /\ ore' = ore
              /\ \/ paid' = paid
                 \/ \E e \in Dogs : \E n \in Nat :
                        paid[ore][e] = 0 /\ paid' = [paid EXCEPT ![ore][e] = n]
           \/ /\ SameLog
              /\ ore' = ore + 1 /\ ore < MaxOres
              /\ paid' = paid
              /\ \A e \in Dogs : paid[ore][e] = 0
<1>1. ASSUME NEW s, NEW r, Waits(s, r) \/ GivenUp(s)
      PROVE  SameLog /\ ore' = ore
  BY <1>1 DEF Waits, GivenUp, SameLog
<1>2. ASSUME NEW s \in RoundSlots, NEW d \in Dogs, Verify(s, d)
      PROVE  /\ paid' = paid
             /\ \/ \E x \in Dogs : Mined(x)
                \/ SameLog /\ ore' = ore
  BY <1>1, <1>2, VerifyCases, FinishMines
<1>3. ASSUME NEW s \in RoundSlots, NEW e \in Dogs, Paid(s, e)
      PROVE  /\ \E n \in Nat : paid[ore][e] = 0 /\ paid' = [paid EXCEPT ![ore][e] = n]
             /\ \/ \E x \in Dogs : Mined(x)
                \/ SameLog /\ ore' = ore
  <2> DEFINE r == [rounds[s] EXCEPT !.todo = @ \ {e}]
  <2>1. /\ Current(s, r)
        /\ s \in Suspended
        /\ e \in rounds[s].todo
        /\ Waits(s, r) \/ Finish(s, r)
        /\ paid' = [paid EXCEPT ![ore][e] = @ + rounds[s].share[e]]
    BY <1>3, PaidCases
  <2> HIDE DEF r
  <2>2. paid[ore][e] = 0
    BY <2>1 DEF RoundInv, CreditInv
  <2>3. rounds[s].share[e] \in Nat
    BY <1>3, SuspendedRound DEF Paid, RoundInv, Round
  <2>4. paid[ore][e] + rounds[s].share[e] = rounds[s].share[e]
    BY <2>2, <2>3
  <2>5. paid' = [paid EXCEPT ![ore][e] = paid[ore][e] + rounds[s].share[e]]
    BY <2>1
  <2>6. paid' = [paid EXCEPT ![ore][e] = rounds[s].share[e]]
    BY <2>4, <2>5
  <2> QED
    BY <1>1, <2>1, <2>2, <2>3, <2>6, FinishMines
<1>4. ASSUME NEW s \in RoundSlots, NEW e \in Dogs, PaymentFailed(s, e)
      PROVE  /\ paid' = paid
             /\ \/ \E x \in Dogs : Mined(x)
                \/ SameLog /\ ore' = ore
  BY <1>1, <1>4, PaymentFailedCases, FinishMines
<1>5. ASSUME NEW s \in RoundSlots, FeeSettled(s)
      PROVE  paid' = paid /\ \E x \in Dogs : Mined(x)
  BY <1>5, FeeSettledCases, FinishMines
<1>6. CASE Clock
  BY <1>6, ClockRecord DEF Clock, SameLog, RoundInv
<1>7. CASE UpgradeMain
  <2>1. logCounter' = logCounter
    BY <1>7, LastKeyIs DEF UpgradeMain, RoundInv
  <2>2. \A e \in Dogs : paid[ore][e] = 0
    BY <1>7 DEF UpgradeMain, RoundInv, CreditInv, Suspended
  <2> QED
    BY <1>7, <2>1, <2>2 DEF UpgradeMain, NewOre, SameLog
<1>8. CASE UNCHANGED <<roundVars, paid>>
  BY <1>8 DEF roundVars, SameLog
<1>9. CASE UNCHANGED vars
  BY <1>9 DEF vars, roundVars, SameLog
<1> QED
  BY <1>2, <1>3, <1>4, <1>5, <1>6, <1>7, <1>8, <1>9, OtherSteps

(***************************************************************************)
(* Payments.                                                               *)
(***************************************************************************)
\* Whatever transfers fail and are tried again in later rounds, a beneficiary
\* is paid at most once for an ore.
THEOREM PaidAtMostOnceHolds == Spec => PaidAtMostOnce
<1>1. ASSUME RoundInv, [Next]_vars,
             NEW o \in 0 .. MaxOres, NEW e \in Dogs, paid'[o][e] # paid[o][e]
      PROVE  paid[o][e] = 0
  <2>1. paid \in [0 .. MaxOres -> [Dogs -> Nat]] /\ ore \in 0 .. MaxOres
    BY <1>1 DEF RoundInv, TypeOK, RoundTypeOK
  <2>2. PICK x \in Dogs : \E n \in Nat :
            paid[ore][x] = 0 /\ paid' = [paid EXCEPT ![ore][x] = n]
    BY <1>1, ChainStepCases
  <2>3. o = ore /\ e = x
    BY <1>1, <2>1, <2>2
  <2> QED
    BY <2>2, <2>3
<1>2. RoundInv /\ [Next]_vars =>
        [\A o \in 0 .. MaxOres : \A e \in Dogs :
            paid'[o][e] # paid[o][e] => paid[o][e] = 0]_vars
  BY <1>1
<1> QED
  BY <1>2, RoundsHold, PTL DEF Spec, PaidAtMostOnce

\* What was paid for an ore given up or used is within the reward of its block, and
\* a suspended round pays each beneficiary its share or nothing.
RewardInv ==
    /\ \A o \in 0 .. MaxOres : o < ore /\ PaidFor(o) > 0 =>
            \E k \in DOMAIN record : record[k].old = o /\ PaidFor(o) <= record[k].reward
    /\ \A s \in Suspended :
            /\ FairRound(rounds[s])
            /\ \A e \in Dogs : paid[ore][e] \in {0, rounds[s].share[e]}

LEMMA FairPayments ==
    ASSUME NEW p \in [Dogs -> Nat], NEW r \in Round, FairRound(r),
           \A e \in Dogs : p[e] \in {0, r.share[e]}
    PROVE  /\ Units(p, mining_output_amount) \in Nat
           /\ Units(p, mining_output_amount) <= r.reward
<1>1. r.share \in [Dogs -> Nat] /\ r.reward \in Nat
  BY DEF Round
<1>2. \A e \in Dogs : p[e] <= r.share[e]
  BY <1>1
<1>3. PICK g \in [Dogs -> Nat] : g = r.share
  BY <1>1
<1>4. /\ Units(p, mining_output_amount) \in Nat
      /\ Units(g, mining_output_amount) \in Nat
      /\ Units(p, mining_output_amount) <= Units(g, mining_output_amount)
  BY <1>2, <1>3, DogsAssumption, AmountAssumption, UnitsMonotone
<1> QED BY <1>1, <1>3, <1>4 DEF FairRound

LEMMA RewardStepOfRound ==
    ASSUME RoundInv, RewardInv, paid' \in [0 .. MaxOres -> [Dogs -> Nat]],
           NEW s \in RoundSlots, NEW r, Current(s, r),
           Waits(s, r) \/ Finish(s, r) \/ GivenUp(s),
           FairRound(r),
           \A e \in Dogs : paid'[ore][e] \in {0, r.share[e]},
           \A o \in 0 .. MaxOres : o # ore => paid'[o] = paid[o]
    PROVE  RewardInv'
<1>1. \A o \in 0 .. MaxOres : o < ore => PaidFor(o)' = PaidFor(o)
  BY DEF PaidFor
<1>2. CASE Waits(s, r)
  <2>1. Suspended' = {s} /\ rounds'[s] = r
    BY <1>2, SuspendedAfter DEF RoundInv
  <2>2. ore' = ore /\ record' = record
    BY <1>2 DEF Waits
  <2> QED BY <1>1, <2>1, <2>2 DEF RewardInv, FairRound
<1>3. CASE GivenUp(s)
  <2>1. Suspended' = {} /\ ore' = ore /\ record' = record
    BY <1>3, SuspendedAfter DEF RoundInv, GivenUp
  <2> QED BY <1>1, <2>1 DEF RewardInv
<1>4. CASE Finish(s, r)
  <2>1. Suspended' = {} /\ ore' = ore + 1 /\ ore \in 0 .. MaxOres
    BY <1>4, SuspendedAfter DEF RoundInv, Finish, NewOre, TypeOK, RoundTypeOK
  <2> DEFINE new == [dog |-> r.dog, old |-> r.ore, new |-> ore + 1,
                     reward |-> r.reward, age |-> 0]
  <2>2. record' = Insert(record, logCounter + 1, new)
    BY <1>4 DEF Finish, AddOreLog, NewOre
  <2>3. new.old = ore /\ new.reward = r.reward
    BY DEF Current
  <2>4. logCounter \in Nat /\ DOMAIN record = 1 .. logCounter
    BY LogTypes DEF RoundInv
  <2> HIDE DEF new
  <2>5. /\ DOMAIN record' = 1 .. (logCounter + 1)
        /\ \A k \in 1 .. logCounter : record'[k] = record[k]
        /\ record'[logCounter + 1] = new
    BY <2>2, <2>4 DEF Insert
  <2>6. PICK p \in [Dogs -> Nat] : p = paid'[ore]
    BY <2>1
  <2>7. Units(paid'[ore], mining_output_amount) <= r.reward
    <3>1. r \in Round /\ \A e \in Dogs : p[e] \in {0, r.share[e]}
      BY <2>6 DEF Current
    <3>2. Units(p, mining_output_amount) <= r.reward
      BY <3>1, FairPayments
    <3> QED BY <2>6, <3>2
  <2>8. ASSUME NEW o \in 0 .. MaxOres, o < ore', PaidFor(o)' > 0
        PROVE  \E k \in DOMAIN record' : record'[k].old = o /\ PaidFor(o)' <= record'[k].reward
    <3>1. CASE o = ore
      <4>1. /\ logCounter + 1 \in DOMAIN record'
            /\ record'[logCounter + 1].old = o
            /\ PaidFor(o)' <= record'[logCounter + 1].reward
        BY <2>3, <2>4, <2>5, <2>7, <3>1 DEF PaidFor
      <4> QED BY <4>1
    <3>2. CASE o # ore
      <4>1. o < ore
        BY <2>1, <2>8, <3>2
      <4>2. PICK k \in DOMAIN record : record[k].old = o /\ PaidFor(o) <= record[k].reward
        BY <1>1, <2>8, <4>1 DEF RewardInv
      <4>3. k \in DOMAIN record' /\ record'[k] = record[k]
        BY <2>4, <2>5
      <4> QED BY <1>1, <4>1, <4>2, <4>3
    <3> QED BY <3>1, <3>2
  <2> QED BY <2>1, <2>8 DEF RewardInv
<1> QED BY <1>2, <1>3, <1>4

\* No step of a round: the amounts and the rewards of the log stay.
LEMMA RewardStepElse ==
    ASSUME RoundInv, RewardInv, paid' = paid, DOMAIN record' = DOMAIN record,
           \A k \in DOMAIN record :
                record'[k].old = record[k].old /\ record'[k].reward = record[k].reward,
           \/ ore' = ore /\ rounds' = rounds
           \/ ore' = ore + 1 /\ Suspended = {} /\ rounds' = rounds
    PROVE  RewardInv'
<1>1. \A o \in 0 .. MaxOres : PaidFor(o)' = PaidFor(o)
  BY DEF PaidFor
<1>2. CASE ore' = ore /\ rounds' = rounds
  BY <1>1, <1>2 DEF RewardInv, Suspended, FairRound
<1>3. CASE ore' = ore + 1 /\ Suspended = {} /\ rounds' = rounds
  <2>1. Suspended' = {} /\ ore \in 0 .. MaxOres
    BY <1>3 DEF Suspended, RoundInv, TypeOK, RoundTypeOK
  <2>2. PaidFor(ore) = 0
    <3>1. PICK p \in [Dogs -> Nat] : p = paid[ore]
      BY <2>1 DEF RoundInv, TypeOK
    <3>2. \A e \in Dogs : p[e] = 0
      BY <1>3, <3>1 DEF RoundInv, CreditInv
    <3>3. Units(p, mining_output_amount) = 0
      BY <3>2, AmountAssumption, NothingShared
    <3> QED BY <3>1, <3>3 DEF PaidFor
  <2>3. \A o \in 0 .. MaxOres : o < ore + 1 => o = ore \/ o < ore
    BY <2>1
  <2> QED BY <1>1, <1>3, <2>1, <2>2, <2>3 DEF RewardInv
<1> QED BY <1>2, <1>3

LEMMA RewardStep == RoundInv /\ RoundInv' /\ RewardInv /\ [Next]_vars => RewardInv'
<1> SUFFICES ASSUME RoundInv, RoundInv', RewardInv, [Next]_vars PROVE RewardInv'
  OBVIOUS
<1>1. /\ paid \in [0 .. MaxOres -> [Dogs -> Nat]] /\ ore \in 0 .. MaxOres
      /\ paid' \in [0 .. MaxOres -> [Dogs -> Nat]]
  BY DEF RoundInv, TypeOK, RoundTypeOK
<1>2. ASSUME NEW s \in RoundSlots, NEW d \in Dogs, Verify(s, d) PROVE RewardInv'
  <2>1. PICK r \in Round : Current(s, r) /\ FairRound(r) /\ (Waits(s, r) \/ Finish(s, r))
    BY <1>2, VerifyCases
  <2>2. paid' = paid /\ Suspended = {}
    BY <1>2, VerifyCases
  <2>3. \A e \in Dogs : paid[ore][e] = 0
    BY <2>2 DEF RoundInv, CreditInv
  <2> QED BY <1>1, <2>1, <2>2, <2>3, RewardStepOfRound
<1>3. ASSUME NEW s \in RoundSlots, NEW e \in Dogs, Paid(s, e) PROVE RewardInv'
  <2> DEFINE r == [rounds[s] EXCEPT !.todo = @ \ {e}]
  <2>1. /\ Current(s, r) /\ s \in Suspended /\ e \in rounds[s].todo
        /\ Waits(s, r) \/ Finish(s, r)
        /\ paid' = [paid EXCEPT ![ore][e] = @ + rounds[s].share[e]]
    BY <1>3, PaidCases
  <2>2. rounds[s] \in Round
    BY <1>3, SuspendedRound DEF Paid, RoundInv
  <2>3. r.share = rounds[s].share /\ r.reward = rounds[s].reward
    BY <2>2 DEF Round
  <2>4. FairRound(rounds[s]) /\ \A x \in Dogs : paid[ore][x] \in {0, rounds[s].share[x]}
    BY <2>1 DEF RewardInv
  <2>5. paid[ore][e] = 0 /\ rounds[s].share[e] \in Nat
    BY <2>1, <2>2 DEF RoundInv, CreditInv, Round
  <2>6. /\ \A o \in 0 .. MaxOres : o # ore => paid'[o] = paid[o]
        /\ \A x \in Dogs : x # e => paid'[ore][x] = paid[ore][x]
        /\ paid'[ore][e] = rounds[s].share[e]
    BY <1>1, <2>1, <2>5
  <2>7. FairRound(r) /\ \A x \in Dogs : paid'[ore][x] \in {0, r.share[x]}
    BY <2>3, <2>4, <2>6 DEF FairRound
  <2> HIDE DEF r
  <2> QED BY <1>1, <2>1, <2>6, <2>7, RewardStepOfRound
<1>4. ASSUME NEW s \in RoundSlots, NEW e \in Dogs, PaymentFailed(s, e) PROVE RewardInv'
  <2> DEFINE r == [rounds[s] EXCEPT !.todo = @ \ {e}]
  <2>1. /\ Current(s, r) /\ s \in Suspended
        /\ GivenUp(s) \/ Waits(s, r) \/ Finish(s, r)
        /\ paid' = paid
    BY <1>4, PaymentFailedCases
  <2>2. rounds[s] \in Round
    BY <1>4, SuspendedRound DEF PaymentFailed, RoundInv
  <2>3. r.share = rounds[s].share /\ r.reward = rounds[s].reward
    BY <2>2 DEF Round
  <2>4. FairRound(r) /\ \A x \in Dogs : paid[ore][x] \in {0, r.share[x]}
    BY <2>1, <2>3 DEF RewardInv, FairRound
  <2> HIDE DEF r
  <2> QED BY <1>1, <2>1, <2>4, RewardStepOfRound
<1>5. ASSUME NEW s \in RoundSlots, FeeSettled(s) PROVE RewardInv'
  <2>1. Current(s, rounds[s]) /\ s \in Suspended /\ Finish(s, rounds[s]) /\ paid' = paid
    BY <1>5, FeeSettledCases
  <2>2. FairRound(rounds[s]) /\ \A x \in Dogs : paid[ore][x] \in {0, rounds[s].share[x]}
    BY <2>1 DEF RewardInv
  <2> QED BY <1>1, <2>1, <2>2, RewardStepOfRound
<1>6. CASE Clock
  BY <1>6, ClockRecord, RewardStepElse DEF Clock, RoundInv
<1>7. CASE UpgradeMain
  BY <1>7, RewardStepElse DEF UpgradeMain, NewOre, Suspended
<1>8. CASE UNCHANGED <<roundVars, paid>>
  BY <1>8, RewardStepElse DEF roundVars
<1>9. CASE UNCHANGED vars
  BY <1>9, RewardStepElse DEF vars, roundVars
<1> QED
  BY <1>2, <1>3, <1>4, <1>5, <1>6, <1>7, <1>8, <1>9, OtherSteps

\* An ore is paid for at most once over, for any weights, rates and halvings: the
\* shares of an alliance round down, a transfer that failed and the round that tries
\* again never add up to more than the reward of the block.
THEOREM RewardBoundHolds == Spec => []RewardBound
<1>1. Init => RewardInv
  <2> SUFFICES ASSUME Init PROVE RewardInv
    OBVIOUS
  <2>1. ore = 0 /\ Suspended = {}
    BY DEF Init, Suspended
  <2> QED BY <2>1 DEF RewardInv
<1>2. ASSUME RoundInv, RewardInv PROVE RewardBound
  <2> SUFFICES ASSUME NEW o \in 0 .. MaxOres, PaidFor(o) > 0
               PROVE  \/ \E k \in DOMAIN record :
                            record[k].old = o /\ PaidFor(o) <= record[k].reward
                      \/ \E s \in Suspended :
                            rounds[s].ore = o /\ PaidFor(o) <= rounds[s].reward
    BY DEF RewardBound
  <2>1. paid \in [0 .. MaxOres -> [Dogs -> Nat]] /\ ore \in 0 .. MaxOres
    BY <1>2 DEF RoundInv, TypeOK, RoundTypeOK
  <2>2. ~(\A e \in Dogs : paid[o][e] = 0)
    <3>1. PICK p \in [Dogs -> Nat] : p = paid[o]
      BY <2>1
    <3>2. (\A e \in Dogs : p[e] = 0) => Units(p, mining_output_amount) = 0
      BY AmountAssumption, NothingShared
    <3> QED BY <3>1, <3>2 DEF PaidFor
  <2>3. ~(o > ore)
    BY <1>2, <2>2 DEF RoundInv, CreditInv
  <2>4. CASE o < ore
    BY <1>2, <2>4 DEF RewardInv
  <2>5. CASE o = ore
    <3>1. Suspended # {}
      BY <1>2, <2>2, <2>5 DEF RoundInv, CreditInv
    <3>2. PICK s \in Suspended : TRUE
      BY <3>1
    <3>3. rounds[s] \in Round /\ rounds[s].ore = o
      BY <1>2, <2>5, SuspendedRound DEF RoundInv, GuardHeld, Suspended
    <3>4. FairRound(rounds[s]) /\ \A e \in Dogs : paid[o][e] \in {0, rounds[s].share[e]}
      BY <1>2, <2>5 DEF RewardInv
    <3>5. PaidFor(o) <= rounds[s].reward
      BY <2>1, <3>3, <3>4, FairPayments DEF PaidFor
    <3> QED BY <3>3, <3>5
  <2> QED BY <2>1, <2>3, <2>4, <2>5
<1> QED
  BY <1>1, <1>2, RewardStep, NextRound, RoundsHold, PTL DEF Spec

(***************************************************************************)
(* Counts.                                                                 *)
(***************************************************************************)
\* The finders' counts and the log never part, whatever rounds and upgrades do.
THEOREM CountsHold == Spec => []CountsMatchLog
<1>1. Init => CountsMatchLog
  <2> SUFFICES ASSUME Init, NEW d \in Dogs
               PROVE  oreCnt[d] = Cardinality({k \in DOMAIN record : record[k].dog = d})
    BY DEF CountsMatchLog
  <2>1. {k \in DOMAIN record : record[k].dog = d} = {}
    BY DEF Init, EmptyMap
  <2>2. oreCnt[d] = 0
    BY DEF Init
  <2> QED
    BY <2>1, <2>2, FS_EmptySet
<1>2. RoundInv /\ CountsMatchLog /\ [Next]_vars => CountsMatchLog'
  <2> SUFFICES ASSUME RoundInv, CountsMatchLog, [Next]_vars, NEW d \in Dogs
               PROVE  oreCnt'[d] = Cardinality({k \in DOMAIN record' : record'[k].dog = d})
    BY DEF CountsMatchLog
  <2> DEFINE S == {k \in DOMAIN record : record[k].dog = d}
             T == {k \in DOMAIN record' : record'[k].dog = d}
  <2>1. IsFiniteSet(S) /\ oreCnt[d] = Cardinality(S)
    BY LogFinite DEF RoundInv, CountsMatchLog
  <2>2. ASSUME NEW x \in Dogs, Mined(x)
        PROVE  oreCnt'[d] = Cardinality(T)
    <3>1. logCounter \in Nat /\ DOMAIN record = 1 .. logCounter /\ oreCnt \in [Dogs -> Nat]
      BY LogTypes DEF RoundInv, TypeOK, RoundTypeOK
    <3>2. DOMAIN record' = 1 .. (logCounter + 1) /\ logCounter + 1 \notin S
      BY <2>2, <3>1 DEF Mined
    <3>3. CASE x = d
      <4>1. T = S \cup {logCounter + 1}
        BY <2>2, <3>1, <3>2, <3>3 DEF Mined
      <4>2. oreCnt'[d] = oreCnt[d] + 1
        BY <2>2, <3>1, <3>3 DEF Mined
      <4> HIDE DEF S, T
      <4> QED
        BY <2>1, <3>2, <4>1, <4>2, FS_AddElement
    <3>4. CASE x # d
      <4>1. T = S
        BY <2>2, <3>1, <3>2, <3>4 DEF Mined
      <4>2. oreCnt'[d] = oreCnt[d]
        BY <2>2, <3>1, <3>4 DEF Mined
      <4> QED
        BY <2>1, <4>1, <4>2
    <3> QED
      BY <3>3, <3>4
  <2>3. ASSUME SameLog PROVE oreCnt'[d] = Cardinality(T)
    <3>1. T = S
      BY <2>3 DEF SameLog
    <3> QED
      BY <2>1, <2>3, <3>1 DEF SameLog
  <2> QED
    BY <2>2, <2>3, ChainStepCases
<1> QED
  BY <1>1, <1>2, RoundsHold, PTL DEF Spec

-----------------------------------------------------------------------------
(***************************************************************************)
(* Refinement.                                                             *)
(***************************************************************************)
Block == [dog: Dogs, old: 0 .. MaxOres, new: 0 .. MaxOres]

LEMMA SameInterval ==
    ASSUME NEW m \in Nat, NEW n \in Nat, 1 .. m = 1 .. n
    PROVE  m = n
<1>1. m > n => m \in 1 .. m /\ m \notin 1 .. n
  OBVIOUS
<1>2. n > m => n \in 1 .. n /\ n \notin 1 .. m
  OBVIOUS
<1> QED
  BY <1>1, <1>2

LEMMA BlocksType ==
    RoundInv => /\ MinedBlocks \in Seq(Block)
                /\ Len(MinedBlocks) = logCounter
                /\ logCounter \in Nat
<1> SUFFICES ASSUME RoundInv
             PROVE  /\ MinedBlocks \in Seq(Block)
                    /\ Len(MinedBlocks) = logCounter
                    /\ logCounter \in Nat
  OBVIOUS
<1>1. logCounter \in Nat /\ DOMAIN record = 1 .. logCounter
  BY LogTypes DEF RoundInv
<1>2. \A k \in 1 .. logCounter : record[k] \in LogRecord
  BY <1>1 DEF RoundInv, TypeOK, RoundTypeOK
<1>3. MinedBlocks \in [1 .. logCounter -> Block]
  BY <1>2 DEF MinedBlocks, LogRecord, Block
<1>4. MinedBlocks \in Seq(Block)
  BY <1>1, <1>3, SeqDef
<1>5. DOMAIN MinedBlocks = 1 .. Len(MinedBlocks) /\ Len(MinedBlocks) \in Nat
  BY <1>4, LenProperties
<1>6. 1 .. Len(MinedBlocks) = 1 .. logCounter
  BY <1>3, <1>5
<1>7. Len(MinedBlocks) = logCounter
  BY <1>1, <1>5, <1>6, SameInterval
<1> QED
  BY <1>1, <1>4, <1>7

LEMMA SameLogSameBlocks ==
    ASSUME RoundInv, SameLog
    PROVE  MinedBlocks' = MinedBlocks
<1>1. DOMAIN record = 1 .. logCounter
  BY LogTypes DEF RoundInv
<1> QED
  BY <1>1 DEF SameLog, MinedBlocks

LEMMA MinedAppends ==
    ASSUME RoundInv, RoundInv', NEW d \in Dogs, Mined(d)
    PROVE  MinedBlocks' = Append(MinedBlocks, [dog |-> d, old |-> ore, new |-> ore + 1])
<1> DEFINE b == [dog |-> d, old |-> ore, new |-> ore + 1]
<1>1. /\ MinedBlocks \in Seq(Block) /\ Len(MinedBlocks) = logCounter /\ logCounter \in Nat
      /\ DOMAIN record = 1 .. logCounter
  BY BlocksType, LogTypes DEF RoundInv
<1>2. MinedBlocks' \in Seq(Block) /\ Len(MinedBlocks') = logCounter + 1
  <2>1. (/\ MinedBlocks \in Seq(Block)
         /\ Len(MinedBlocks) = logCounter
         /\ logCounter \in Nat)'
    BY BlocksType, PTL
  <2> QED
    BY <2>1 DEF Mined
<1>3. b \in Block
  <2>1. ore \in 0 .. MaxOres /\ ore + 1 \in 0 .. MaxOres
    BY DEF Mined, RoundInv, TypeOK, RoundTypeOK
  <2> QED
    BY <2>1 DEF Block
<1> HIDE DEF b
<1>4. /\ Append(MinedBlocks, b) \in Seq(Block)
      /\ Len(Append(MinedBlocks, b)) = logCounter + 1
      /\ \A i \in 1 .. logCounter : Append(MinedBlocks, b)[i] = MinedBlocks[i]
      /\ Append(MinedBlocks, b)[logCounter + 1] = b
  BY <1>1, <1>3, AppendProperties
<1>5. /\ \A i \in 1 .. logCounter : MinedBlocks'[i] = MinedBlocks[i]
      /\ MinedBlocks'[logCounter + 1] = b
  BY <1>1 DEF Mined, MinedBlocks, b
<1>6. \A i \in 1 .. (logCounter + 1) : MinedBlocks'[i] = Append(MinedBlocks, b)[i]
  BY <1>1, <1>4, <1>5
<1>7. MinedBlocks' = Append(MinedBlocks, b)
  BY <1>2, <1>4, <1>6, SeqEqual
<1> QED
  BY <1>7 DEF b

\* verify_ore, with its guard, its ledger calls and its failures, is a chain
\* of blocks: each consumes the ore in force, and nobody is credited twice.
THEOREM ChainImplemented == Spec => ImplementsChain
<1>1. Init => Chain!Init
  <2> SUFFICES ASSUME Init PROVE Chain!Init
    OBVIOUS
  <2>1. MinedBlocks \in Seq(Block) /\ Len(MinedBlocks) = 0
    BY InitRound, BlocksType DEF Init
  <2>2. MinedBlocks = << >>
    BY <2>1, EmptySeq
  <2>3. ore = 0 /\ {e \in Dogs : paid[ore][e] > 0} = {}
    BY MaxOresAssumption DEF Init
  <2> QED
    BY <2>2, <2>3 DEF Chain!Init
<1>2. ASSUME RoundInv, RoundInv', [Next]_vars PROVE [Chain!Next]_(Chain!vars)
  <2>1. /\ paid \in [0 .. MaxOres -> [Dogs -> Nat]]
        /\ ore \in 0 .. MaxOres
        /\ MaxOres \in Nat
    BY <1>2, MaxOresAssumption DEF RoundInv, TypeOK, RoundTypeOK
  <2>2. \A o \in 0 .. MaxOres : o > ore => \A e \in Dogs : paid[o][e] = 0
    BY <1>2 DEF RoundInv, CreditInv
  <2>3. ASSUME NEW d \in Dogs, Mined(d),
               \/ paid' = paid
               \/ \E e \in Dogs : \E n \in Nat :
                    paid[ore][e] = 0 /\ paid' = [paid EXCEPT ![ore][e] = n]
        PROVE  Chain!Mine(d)
    <3>1. MinedBlocks' = Append(MinedBlocks, [dog |-> d, old |-> ore, new |-> ore + 1])
      BY <1>2, <2>3, MinedAppends
    <3>2. ore' = ore + 1 /\ ore' \in 0 .. MaxOres /\ ore' > ore
      BY <1>2, <2>1, <2>3 DEF Mined, RoundInv, TypeOK, RoundTypeOK
    <3>3. paid'[ore'] = paid[ore']
      BY <2>1, <2>3, <3>2
    <3>4. {e \in Dogs : paid'[ore'][e] > 0} = {}
      BY <2>2, <3>2, <3>3
    <3> QED
      BY <3>1, <3>2, <3>4 DEF Chain!Mine
  <2>4. ASSUME SameLog, ore' = ore, paid' = paid
        PROVE  UNCHANGED Chain!vars
    BY <1>2, <2>4, SameLogSameBlocks DEF Chain!vars
  <2>5. ASSUME SameLog, ore' = ore, NEW e \in Dogs, NEW n \in Nat,
               paid[ore][e] = 0, paid' = [paid EXCEPT ![ore][e] = n]
        PROVE  Chain!Credit(e) \/ UNCHANGED Chain!vars
    <3>1. MinedBlocks' = MinedBlocks
      BY <1>2, <2>5, SameLogSameBlocks
    <3>2. paid'[ore][e] = n /\ \A x \in Dogs : x # e => paid'[ore][x] = paid[ore][x]
      BY <2>1, <2>5
    <3>3. CASE n > 0
      <4>1. /\ e \notin {x \in Dogs : paid[ore][x] > 0}
            /\ {x \in Dogs : paid'[ore'][x] > 0} = {x \in Dogs : paid[ore][x] > 0} \cup {e}
        BY <2>5, <3>2, <3>3
      <4> QED
        BY <2>5, <3>1, <4>1 DEF Chain!Credit
    <3>4. CASE n = 0
      <4>1. {x \in Dogs : paid'[ore'][x] > 0} = {x \in Dogs : paid[ore][x] > 0}
        BY <2>5, <3>2, <3>4
      <4> QED
        BY <2>5, <3>1, <4>1 DEF Chain!vars
    <3> QED
      BY <3>3, <3>4
  <2>6. ASSUME SameLog, ore' = ore + 1, ore < MaxOres, paid' = paid,
               \A e \in Dogs : paid[ore][e] = 0
        PROVE  Chain!Replace
    <3>1. MinedBlocks' = MinedBlocks
      BY <1>2, <2>6, SameLogSameBlocks
    <3>2. ore + 1 \in 0 .. MaxOres /\ ore + 1 > ore
      BY <2>1, <2>6
    <3>3. /\ {x \in Dogs : paid[ore][x] > 0} = {}
          /\ {x \in Dogs : paid'[ore'][x] > 0} = {}
      BY <2>2, <2>6, <3>2
    <3> QED
      BY <2>6, <3>1, <3>3 DEF Chain!Replace
  <2> QED
    BY <1>2, <2>3, <2>4, <2>5, <2>6, ChainStepCases DEF Chain!Next
<1> QED
  BY <1>1, <1>2, InitRound, NextRound, RoundsHold, PTL DEF Spec, ImplementsChain, Chain!Spec

-----------------------------------------------------------------------------
=============================================================================
