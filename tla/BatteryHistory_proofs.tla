------------------------- MODULE BatteryHistory_proofs -------------------------
(***************************************************************************)
(* For any window, rate, number of points and samples: the response keeps  *)
(* the contract's rules, its points stand for the window, and the ring     *)
(* covers it.                                                              *)
(***************************************************************************)
EXTENDS BatteryHistory, FoldTheorems
-----------------------------------------------------------------------------
(* Samples.                                                                *)

Sample == [receivedAt : Nat, batteryPercent : Level \cup {Null}]

Point == [receivedAt : Nat, batteryPercent : Level]

Rises(s) ==
    \A j, k \in 1..Len(s) : j < k => s[j].receivedAt < s[k].receivedAt

(* An ascending sequence shows each element of a set once. *)
LEMMA AscendingCounts ==
    ASSUME NEW s \in Seq(Int), Ascends(s), NEW P,
           \A x : Shows(s, x) <=> x \in P
    PROVE  IsFiniteSet(P) /\ Cardinality(P) = Len(s)
<1>1. Len(s) \in Nat /\ s \in [1..Len(s) -> Int]
  OBVIOUS
<1>2. s \in [1..Len(s) -> P]
  BY <1>1 DEF Shows
<1>3. \A a, b \in 1..Len(s) : s[a] = s[b] => a = b
  <2> TAKE a, b \in 1..Len(s)
  <2>1. s[a] \in Int /\ s[b] \in Int /\ a \in Int /\ b \in Int
    BY <1>1
  <2>2. a < b => s[a] < s[b]
    BY DEF Ascends
  <2>3. b < a => s[b] < s[a]
    BY DEF Ascends
  <2> QED BY <2>1, <2>2, <2>3
<1>4. \A x \in P : \E k \in 1..Len(s) : s[k] = x
  BY DEF Shows
<1>5. s \in Bijection(1..Len(s), P)
  BY <1>2, <1>3, <1>4 DEF Bijection, Injection, Surjection, IsInjective
<1>6. IsFiniteSet(1..Len(s)) /\ Cardinality(1..Len(s)) = Len(s)
  BY <1>1, FS_Interval
<1> QED BY <1>5, <1>6, FS_Bijection DEF ExistsBijection

(* What is filtered is in order, is in the ring at one of the positions,   *)
(* and is as much as there are positions.                                  *)
LEMMA FilteredIs ==
    ASSUME NEW ring \in Seq(Sample), Rises(ring),
           NEW positions \in SUBSET (1..Len(ring))
    PROVE  /\ IsFiniteSet(positions)
           /\ Filtered(ring, positions) \in Seq(Sample)
           /\ Rises(Filtered(ring, positions))
           /\ Len(Filtered(ring, positions)) = Cardinality(positions)
           /\ \A k \in 1..Len(Filtered(ring, positions)) :
                \E i \in positions : Filtered(ring, positions)[k] = ring[i]
<1>1. PICK kept \in Seq(Int) :
         /\ Ascends(kept)
         /\ \A x : Shows(kept, x) <=> x \in positions
         /\ Filtered(ring, positions) = [k \in 1..Len(kept) |-> ring[kept[k]]]
  <2>1. Len(ring) \in Nat
    OBVIOUS
  <2> QED BY <2>1, FilteredTakes
<1>2. IsFiniteSet(positions) /\ Cardinality(positions) = Len(kept)
  BY <1>1, AscendingCounts
<1>3. PICK f : f = Filtered(ring, positions)
  OBVIOUS
<1>4. \A k \in 1..Len(kept) : kept[k] \in positions /\ f[k] = ring[kept[k]]
  BY <1>1, <1>3 DEF Shows
<1>5. Len(kept) \in Nat /\ f = [k \in 1..Len(kept) |-> f[k]]
  BY <1>1, <1>3
<1>6. \A k \in 1..Len(kept) : f[k] \in Sample
  BY <1>4
<1>7. f \in Seq(Sample) /\ Len(f) = Len(kept)
  BY <1>5, <1>6
<1>8. ASSUME NEW j \in 1..Len(kept), NEW k \in 1..Len(kept), j < k
      PROVE  f[j].receivedAt < f[k].receivedAt
  <2>1. kept[j] < kept[k]
    BY <1>1, <1>8 DEF Ascends
  <2>2. kept[j] \in 1..Len(ring) /\ kept[k] \in 1..Len(ring)
    BY <1>4
  <2>3. ring[kept[j]].receivedAt < ring[kept[k]].receivedAt
    BY <2>1, <2>2 DEF Rises
  <2> QED BY <1>4, <2>3
<1>9. Rises(f)
  BY <1>7, <1>8 DEF Rises
<1> QED BY <1>2, <1>3, <1>4, <1>7, <1>9
-----------------------------------------------------------------------------
(* Decimation.                                                             *)

LEMMA QuotientGrows ==
    ASSUME NEW m \in Int, NEW n \in Int, NEW d \in Nat, d > 0, m <= n
    PROVE  m \div d <= n \div d
<1>1. /\ m \div d \in Int /\ d * (m \div d) <= m /\ m < d * (m \div d) + d
      /\ n \div d \in Int /\ d * (n \div d) <= n /\ n < d * (n \div d) + d
  BY Quotient
<1>2. PICK a \in Int : a = m \div d
  BY <1>1
<1>3. PICK b \in Int : b = n \div d
  BY <1>1
<1>4. SUFFICES ASSUME b + 1 <= a PROVE FALSE
  BY <1>2, <1>3
<1>5. d * (b + 1) <= d * a
  BY <1>4, ProductGrows
<1>6. d * (b + 1) = d * b + d /\ d * b \in Int /\ d * a \in Int
  OBVIOUS
<1> QED BY <1>1, <1>2, <1>3, <1>5, <1>6

LEMMA Buckets == InteriorBucketCount \in Nat /\ InteriorBucketCount > 0
                   /\ MaxPoints = 2 + 2 * InteriorBucketCount
BY HistoryAssumption DEF InteriorBucketCount

(* Interior samples have a bucket, and later ones no earlier a bucket. *)
LEMMA BucketGrows ==
    ASSUME NEW s \in Seq(Point), Rises(s), Len(s) > 1
    PROVE  /\ \A i \in 1..Len(s) : Bucket(s, i) \in 0..(InteriorBucketCount - 1)
           /\ \A i, j \in 1..Len(s) : i <= j => Bucket(s, i) <= Bucket(s, j)
<1>1. PICK n \in Nat : n = InteriorBucketCount /\ n > 0
  BY Buckets
<1>0. /\ 1 \in 1..Len(s) /\ Len(s) \in 1..Len(s)
      /\ \A i \in 1..Len(s) : s[i].receivedAt \in Nat
  <2>1. Len(s) \in Nat /\ \A i \in 1..Len(s) : s[i] \in Point
    OBVIOUS
  <2> QED BY <2>1 DEF Point
<1>2. PICK first \in Nat : first = s[1].receivedAt
  BY <1>0
<1>3. PICK span \in Nat : span = Last(s).receivedAt - first /\ span > 0
  <2>1. s[1].receivedAt < s[Len(s)].receivedAt
    BY <1>0 DEF Rises
  <2> QED BY <1>0, <1>2, <2>1 DEF Last
<1> DEFINE age == [i \in 1..Len(s) |-> s[i].receivedAt - first]
           quotient == [i \in 1..Len(s) |-> (age[i] * n) \div span]
<1>4. \A i \in 1..Len(s) : age[i] \in Nat
  <2> TAKE i \in 1..Len(s)
  <2>1. s[i].receivedAt \in Nat /\ s[1].receivedAt <= s[i].receivedAt
    <3>1. CASE i = 1
      BY <1>0, <3>1
    <3>2. CASE i # 1
      <4>1. 1 < i
        BY <3>2
      <4>2. s[1].receivedAt < s[i].receivedAt
        BY <1>0, <4>1 DEF Rises
      <4> QED BY <1>0, <4>2
    <3> QED BY <3>1, <3>2
  <2> QED BY <1>2, <2>1
<1>5. \A i, j \in 1..Len(s) : i <= j => age[i] <= age[j]
  <2> TAKE i, j \in 1..Len(s)
  <2>1. s[i].receivedAt \in Nat /\ s[j].receivedAt \in Nat
    BY <1>0
  <2>2. i < j => s[i].receivedAt < s[j].receivedAt
    BY DEF Rises
  <2> QED BY <1>2, <2>1, <2>2
<1>6. \A i \in 1..Len(s) : Bucket(s, i) = Min({quotient[i], n - 1})
  BY <1>1, <1>2, <1>3 DEF Bucket
<1> HIDE DEF age
<1>7. ASSUME NEW a \in Nat, NEW b \in Nat, a <= b
      PROVE  /\ (a * n) \div span \in Nat
             /\ (a * n) \div span <= (b * n) \div span
  <2>1. n * a <= n * b
    BY <1>7, ProductGrows
  <2>2. a * n = n * a /\ b * n = n * b /\ a * n \in Nat /\ b * n \in Nat
    OBVIOUS
  <2>3. PICK x \in Nat : x = a * n
    BY <2>2
  <2>4. PICK y \in Nat : y = b * n
    BY <2>2
  <2>5. x <= y
    BY <2>1, <2>2, <2>3, <2>4
  <2>6. x \div span <= y \div span
    BY <1>3, <2>5, QuotientGrows
  <2>7. x \div span \in Nat
    BY <1>3
  <2> QED BY <2>3, <2>4, <2>6, <2>7
<1>8. /\ \A i \in 1..Len(s) : quotient[i] \in Nat
      /\ \A i, j \in 1..Len(s) : i <= j => quotient[i] <= quotient[j]
  <2>1. \A i \in 1..Len(s) : quotient[i] = (age[i] * n) \div span
    OBVIOUS
  <2> HIDE DEF quotient
  <2>2. ASSUME NEW i \in 1..Len(s) PROVE quotient[i] \in Nat
    <3>1. PICK a \in Nat : a = age[i]
      BY <1>4
    <3>2. (a * n) \div span \in Nat
      BY <1>7
    <3> QED BY <2>1, <3>1, <3>2
  <2>3. ASSUME NEW i \in 1..Len(s), NEW j \in 1..Len(s), i <= j
        PROVE  quotient[i] <= quotient[j]
    <3>1. PICK a \in Nat : a = age[i]
      BY <1>4
    <3>2. PICK b \in Nat : b = age[j]
      BY <1>4
    <3>3. a <= b
      BY <1>5, <2>3, <3>1, <3>2
    <3>4. (a * n) \div span <= (b * n) \div span
      BY <1>7, <3>3
    <3> QED BY <2>1, <3>1, <3>2, <3>4
  <2> QED BY <2>2, <2>3
<1> HIDE DEF quotient
<1>9. ASSUME NEW q \in Nat
      PROVE  /\ Min({q, n - 1}) = (IF q <= n - 1 THEN q ELSE n - 1)
             /\ Min({q, n - 1}) \in 0..(n - 1)
  <2>1. n - 1 \in Int /\ q \in Int
    OBVIOUS
  <2>2. /\ Min({q, n - 1}) \in {q, n - 1}
        /\ Min({q, n - 1}) <= q /\ Min({q, n - 1}) <= n - 1
    BY <2>1, OfTwo
  <2> QED BY <1>1, <2>1, <2>2
<1>10. ASSUME NEW i \in 1..Len(s) PROVE Bucket(s, i) \in 0..(n - 1)
  BY <1>6, <1>8, <1>9
<1>11. ASSUME NEW i \in 1..Len(s), NEW j \in 1..Len(s), i <= j
       PROVE  Bucket(s, i) <= Bucket(s, j)
  <2>1. quotient[i] \in Nat /\ quotient[j] \in Nat /\ quotient[i] <= quotient[j]
    BY <1>8, <1>11
  <2>2. /\ Bucket(s, i) = (IF quotient[i] <= n - 1 THEN quotient[i] ELSE n - 1)
        /\ Bucket(s, j) = (IF quotient[j] <= n - 1 THEN quotient[j] ELSE n - 1)
    BY <1>6, <1>9, <2>1
  <2> QED BY <2>1, <2>2
<1> QED BY <1>1, <1>10, <1>11

(* The two extremes of a bucket are among its members and bound them. *)
LEMMA ExtremesBound ==
    ASSUME NEW s \in Seq(Point), NEW b \in Nat, Members(s, b) # {}
    PROVE  /\ Lowest(s, b) \in Members(s, b)
           /\ Highest(s, b) \in Members(s, b)
           /\ \A i \in Members(s, b) :
                 /\ s[Lowest(s, b)].batteryPercent <= s[i].batteryPercent
                 /\ s[i].batteryPercent <= s[Highest(s, b)].batteryPercent
<1> DEFINE M == Members(s, b)
           level == [i \in M |-> s[i].batteryPercent]
           V == {s[i].batteryPercent : i \in M}
<1>1. Len(s) \in Nat /\ M \in SUBSET (1..Len(s))
  BY DEF Members
<1>2. IsFiniteSet(M) /\ M \in SUBSET Int
  <2> HIDE DEF M
  <2>1. IsFiniteSet(1..Len(s))
    BY <1>1, FS_Interval
  <2>2. IsFiniteSet(M)
    BY <1>1, <2>1, FS_Subset
  <2> QED BY <1>1, <2>2
<1>3. \A i \in M : s[i].batteryPercent \in Nat
  <2>1. \A i \in 1..Len(s) : s[i] \in Point
    OBVIOUS
  <2> QED BY <1>1, <2>1, HistoryAssumption DEF Point
<1>4. V = {level[i] : i \in M}
  OBVIOUS
<1>5. V \in SUBSET Int /\ V # {}
  BY <1>3
<1>6. IsFiniteSet(V)
  <2> HIDE DEF level, V, M
  <2> QED BY <1>2, <1>4, ImageIsFinite
<1>7. /\ Min(V) \in V /\ Max(V) \in V
      /\ \A v \in V : Min(V) <= v /\ v <= Max(V)
  <2> HIDE DEF V
  <2> QED BY <1>5, <1>6, FiniteIsBounded, MinAndMax
<1> DEFINE L == {i \in M : s[i].batteryPercent = Min(V)}
           H == {i \in M : s[i].batteryPercent = Max(V)}
<1>8. L \in SUBSET Int /\ L # {} /\ H \in SUBSET Int /\ H # {}
  BY <1>2, <1>7
<1>9. IsFiniteSet(L) /\ IsFiniteSet(H)
  <2>1. L \subseteq M /\ H \subseteq M
    OBVIOUS
  <2> HIDE DEF L, H, M
  <2> QED BY <1>2, <2>1, FS_Subset
<1>10. Min(L) \in L /\ Min(H) \in H
  <2> HIDE DEF L, H
  <2> QED BY <1>8, <1>9, FiniteIsBounded, MinAndMax
<1>11. Lowest(s, b) = Min(L) /\ Highest(s, b) = Min(H)
  BY DEF Lowest, Highest
<1> QED BY <1>7, <1>10, <1>11

(* What is kept of a bucket is in receipt order, is of the bucket, and     *)
(* bounds it.                                                              *)
LEMMA ExtremesAre ==
    ASSUME NEW s \in Seq(Point), Rises(s), NEW b \in Nat
    PROVE  /\ Extremes(s, b) \in Seq(Int)
           /\ Len(Extremes(s, b)) <= 2
           /\ Ascends(Extremes(s, b))
           /\ \A k \in 1..Len(Extremes(s, b)) : Extremes(s, b)[k] \in Members(s, b)
           /\ \A i \in Members(s, b) :
                 \E low, high \in Members(s, b) :
                    /\ Shows(Extremes(s, b), low) /\ Shows(Extremes(s, b), high)
                    /\ s[low].batteryPercent <= s[i].batteryPercent
                    /\ s[i].batteryPercent <= s[high].batteryPercent
<1>1. CASE Members(s, b) = {}
  <2>1. Extremes(s, b) = <<>>
    BY <1>1 DEF Extremes
  <2> QED BY <1>1, <2>1 DEF Ascends
<1>2. CASE Members(s, b) # {}
  <2>1. PICK low \in Members(s, b) : low = Lowest(s, b)
    BY <1>2, ExtremesBound
  <2>2. PICK high \in Members(s, b) : high = Highest(s, b)
    BY <1>2, ExtremesBound
  <2>3. \A i \in Members(s, b) :
           /\ s[low].batteryPercent <= s[i].batteryPercent
           /\ s[i].batteryPercent <= s[high].batteryPercent
    BY <1>2, <2>1, <2>2, ExtremesBound
  <2>4. Len(s) \in Nat /\ low \in 1..Len(s) /\ high \in 1..Len(s)
    BY DEF Members
  <2>5. s[low].receivedAt \in Nat /\ s[high].receivedAt \in Nat
    <3>1. s[low] \in Point /\ s[high] \in Point
      BY <2>4
    <3> QED BY <3>1 DEF Point
  <2>6. PICK e : /\ e = Extremes(s, b)
                 /\ e = IF low = high THEN <<low>>
                        ELSE IF s[low].receivedAt <= s[high].receivedAt
                        THEN <<low, high>> ELSE <<high, low>>
    BY <1>2, <2>1, <2>2 DEF Extremes
  <2>7. /\ e \in Seq(Int) /\ Len(e) <= 2 /\ Ascends(e)
        /\ \A k \in 1..Len(e) : e[k] \in Members(s, b)
        /\ Shows(e, low) /\ Shows(e, high)
    <3>1. CASE low = high
      <4>1. e = <<low>> /\ Len(e) = 1 /\ e[1] = low
        BY <2>6, <3>1
      <4>2. \A k \in 1..1 : k = 1
        OBVIOUS
      <4>3. 1 \in 1..1
        OBVIOUS
      <4> QED BY <2>4, <3>1, <4>1, <4>2, <4>3 DEF Ascends, Shows
    <3>2. CASE low < high
      <4>1. s[low].receivedAt <= s[high].receivedAt
        BY <2>4, <2>5, <3>2 DEF Rises
      <4>2. e = <<low, high>> /\ Len(e) = 2 /\ e[1] = low /\ e[2] = high
        BY <2>4, <2>6, <3>2, <4>1
      <4>3. \A k \in 1..2 : k = 1 \/ k = 2
        OBVIOUS
      <4>4. 1 \in 1..2 /\ 2 \in 1..2
        OBVIOUS
      <4> QED BY <2>4, <3>2, <4>2, <4>3, <4>4 DEF Ascends, Shows
    <3>3. CASE high < low
      <4>1. ~(s[low].receivedAt <= s[high].receivedAt)
        BY <2>4, <2>5, <3>3 DEF Rises
      <4>2. e = <<high, low>> /\ Len(e) = 2 /\ e[1] = high /\ e[2] = low
        BY <2>4, <2>6, <3>3, <4>1
      <4>3. \A k \in 1..2 : k = 1 \/ k = 2
        OBVIOUS
      <4>4. 1 \in 1..2 /\ 2 \in 1..2
        OBVIOUS
      <4> QED BY <2>4, <3>3, <4>2, <4>3, <4>4 DEF Ascends, Shows
    <3> QED BY <2>4, <3>1, <3>2, <3>3
  <2> QED BY <2>3, <2>6, <2>7
<1> QED BY <1>1, <1>2

(* What decimation keeps: indices in order, from the first to the last, no *)
(* more than the contract allows, with a sample no higher and one no lower *)
(* than any.                                                               *)
LEMMA KeptAre ==
    ASSUME NEW s \in Seq(Point), Rises(s), Len(s) > 1
    PROVE  /\ Kept(s) \in Seq(Int)
           /\ Ascends(Kept(s))
           /\ 2 <= Len(Kept(s)) /\ Len(Kept(s)) <= MaxPoints
           /\ Kept(s)[1] = 1 /\ Kept(s)[Len(Kept(s))] = Len(s)
           /\ \A k \in 1..Len(Kept(s)) : Kept(s)[k] \in 1..Len(s)
           /\ \A i \in 1..Len(s) :
                 \E low, high \in 1..Len(s) :
                    /\ Shows(Kept(s), low) /\ Shows(Kept(s), high)
                    /\ s[low].batteryPercent <= s[i].batteryPercent
                    /\ s[i].batteryPercent <= s[high].batteryPercent
<1>1. PICK n \in Nat : n = InteriorBucketCount /\ n > 0 /\ MaxPoints = 2 + 2 * n
  BY Buckets
<1>2. Len(s) \in Nat
  OBVIOUS
<1> DEFINE p == [b \in 1..n |-> Extremes(s, b - 1)]
           middle == FlattenSeq(p)
<1>3. \A b \in 1..n : b - 1 \in Nat /\ p[b] = Extremes(s, b - 1)
  OBVIOUS
<1>4. p = [b \in 1..n |-> p[b]]
  OBVIOUS
<1>5. Kept(s) = (<<1>> \o middle) \o <<Len(s)>>
  BY <1>1 DEF Kept
<1> HIDE DEF p
<1>6. \A b \in 1..n :
        /\ p[b] \in Seq(Int) /\ Len(p[b]) <= 2 /\ Ascends(p[b])
        /\ \A k \in 1..Len(p[b]) : p[b][k] \in Members(s, b - 1)
  BY <1>3, ExtremesAre
<1>7. p \in [1..n -> Seq(Int)]
  BY <1>4, <1>6
<1>8. ASSUME NEW a \in 1..n, NEW b \in 1..n, a < b,
             NEW j \in 1..Len(p[a]), NEW k \in 1..Len(p[b])
      PROVE  p[a][j] < p[b][k]
  <2>0. p[a][j] \in Members(s, a - 1) /\ p[b][k] \in Members(s, b - 1)
    BY <1>6
  <2>1. PICK x \in Members(s, a - 1) : x = p[a][j]
    BY <2>0
  <2>2. PICK y \in Members(s, b - 1) : y = p[b][k]
    BY <2>0
  <2>3. /\ x \in 1..Len(s) /\ Bucket(s, x) = a - 1
        /\ y \in 1..Len(s) /\ Bucket(s, y) = b - 1
    BY <1>2 DEF Members
  <2>4. y <= x => Bucket(s, y) <= Bucket(s, x)
    BY <2>3, BucketGrows
  <2> QED BY <1>8, <2>1, <2>2, <2>3, <2>4
<1>9. /\ middle \in Seq(Int) /\ Ascends(middle)
      /\ \A x : Shows(middle, x) <=> \E b \in 1..n : Shows(p[b], x)
  BY <1>1, <1>6, <1>7, <1>8, FlattenAscends
<1>10. Len(middle) <= 2 * n
  BY <1>1, <1>6, <1>7, FlattenShort
<1> HIDE DEF middle
<1>11. \A k \in 1..Len(middle) : middle[k] \in 2..(Len(s) - 1)
  <2> TAKE k \in 1..Len(middle)
  <2>1. PICK b \in 1..n : Shows(p[b], middle[k])
    BY <1>9 DEF Shows
  <2>2. middle[k] \in Members(s, b - 1)
    BY <1>6, <2>1 DEF Shows
  <2> QED BY <2>2 DEF Members
<1>12. PICK front : front = <<1>> \o middle
  OBVIOUS
<1>13. /\ <<1>> \in Seq(Int) /\ Len(<<1>>) = 1 /\ <<1>>[1] = 1
       /\ <<Len(s)>> \in Seq(Int) /\ Len(<<Len(s)>>) = 1 /\ <<Len(s)>>[1] = Len(s)
       /\ Ascends(<<1>>) /\ Ascends(<<Len(s)>>)
       /\ \A k \in 1..1 : k = 1
  BY <1>2 DEF Ascends
<1>14. /\ front \in Seq(Int) /\ Len(front) = 1 + Len(middle) /\ Ascends(front)
       /\ \A x : Shows(front, x) <=> Shows(<<1>>, x) \/ Shows(middle, x)
  <2>1. \A j \in 1..Len(<<1>>), k \in 1..Len(middle) : <<1>>[j] < middle[k]
    BY <1>11, <1>13
  <2> QED BY <1>9, <1>12, <1>13, <2>1, JoinedAscends
<1>15. \A k \in 1..Len(front) : front[k] \in 1..(Len(s) - 1)
  <2> TAKE k \in 1..Len(front)
  <2>1. Shows(front, front[k])
    BY DEF Shows
  <2>2. CASE Shows(<<1>>, front[k])
    <3>1. front[k] = 1
      BY <1>13, <2>2 DEF Shows
    <3> QED BY <1>2, <3>1
  <2>3. CASE Shows(middle, front[k])
    BY <1>11, <2>3 DEF Shows
  <2> QED BY <1>14, <2>1, <2>2, <2>3
<1>16. PICK kept : kept = front \o <<Len(s)>>
  OBVIOUS
<1>17. /\ kept \in Seq(Int) /\ Len(kept) = Len(front) + 1 /\ Ascends(kept)
       /\ \A x : Shows(kept, x) <=> Shows(front, x) \/ Shows(<<Len(s)>>, x)
  <2>1. \A j \in 1..Len(front), k \in 1..Len(<<Len(s)>>) : front[j] < <<Len(s)>>[k]
    BY <1>2, <1>13, <1>15
  <2> QED BY <1>13, <1>14, <1>16, <2>1, JoinedAscends
<1>18. Kept(s) = kept
  BY <1>5, <1>12, <1>16
<1>19. Len(middle) \in Nat /\ Len(kept) = Len(middle) + 2
  BY <1>9, <1>14, <1>17
<1>20. 2 <= Len(kept) /\ Len(kept) <= MaxPoints
  BY <1>1, <1>10, <1>19
<1>21. kept[1] = 1 /\ kept[Len(kept)] = Len(s)
  <2>1. front[1] = 1
    BY <1>9, <1>12
  <2>2. kept[1] = front[1] /\ kept[Len(front) + 1] = Len(s)
    BY <1>2, <1>14, <1>16, <1>19
  <2> QED BY <1>17, <2>1, <2>2
<1>22. \A k \in 1..Len(kept) : kept[k] \in 1..Len(s)
  <2> TAKE k \in 1..Len(kept)
  <2>1. Shows(kept, kept[k])
    BY DEF Shows
  <2>2. CASE Shows(front, kept[k])
    BY <1>2, <1>15, <2>2 DEF Shows
  <2>3. CASE Shows(<<Len(s)>>, kept[k])
    <3>1. kept[k] = Len(s)
      BY <1>13, <2>3 DEF Shows
    <3> QED BY <1>2, <3>1
  <2> QED BY <1>17, <2>1, <2>2, <2>3
<1>23. ASSUME NEW i \in 1..Len(s)
       PROVE  \E low, high \in 1..Len(s) :
                 /\ Shows(kept, low) /\ Shows(kept, high)
                 /\ s[low].batteryPercent <= s[i].batteryPercent
                 /\ s[i].batteryPercent <= s[high].batteryPercent
  <2>1. CASE i \in {1, Len(s)}
    <3>1. 1 \in 1..Len(kept) /\ Len(kept) \in 1..Len(kept)
      BY <1>19
    <3>2. Shows(kept, i)
      BY <1>21, <2>1, <3>1 DEF Shows
    <3>3. s[i].batteryPercent \in Nat
      <4>1. s[i] \in Point
        OBVIOUS
      <4> QED BY <4>1, HistoryAssumption DEF Point
    <3>4. s[i].batteryPercent <= s[i].batteryPercent
      BY <3>3
    <3> QED BY <3>2, <3>4
  <2>2. CASE i \notin {1, Len(s)}
    <3>1. PICK b \in 1..n : Bucket(s, i) = b - 1
      <4>1. Bucket(s, i) \in 0..(n - 1)
        BY <1>1, BucketGrows
      <4>2. Bucket(s, i) + 1 \in 1..n /\ Bucket(s, i) = (Bucket(s, i) + 1) - 1
        BY <1>1, <4>1
      <4> QED BY <4>2
    <3>2. i \in Members(s, b - 1)
      BY <1>2, <2>2, <3>1 DEF Members
    <3>3. PICK low \in Members(s, b - 1), high \in Members(s, b - 1) :
             /\ Shows(p[b], low) /\ Shows(p[b], high)
             /\ s[low].batteryPercent <= s[i].batteryPercent
             /\ s[i].batteryPercent <= s[high].batteryPercent
      <4>1. PICK c \in Nat : c = b - 1
        BY <1>3
      <4>2. \E low, high \in Members(s, c) :
               /\ Shows(Extremes(s, c), low) /\ Shows(Extremes(s, c), high)
               /\ s[low].batteryPercent <= s[i].batteryPercent
               /\ s[i].batteryPercent <= s[high].batteryPercent
        BY <3>2, <4>1, ExtremesAre
      <4> QED BY <1>3, <4>1, <4>2
    <3>4. Shows(kept, low) /\ Shows(kept, high)
      BY <1>9, <1>14, <1>17, <3>3
    <3>5. low \in 1..Len(s) /\ high \in 1..Len(s)
      BY <1>2 DEF Members
    <3> QED BY <3>3, <3>4, <3>5
  <2> QED BY <2>1, <2>2
<1> QED BY <1>17, <1>18, <1>20, <1>21, <1>22, <1>23

Extremal(d, s) ==
    \A i \in 1..Len(s) :
        \E low, high \in 1..Len(d) :
            /\ d[low].batteryPercent <= s[i].batteryPercent
            /\ s[i].batteryPercent <= d[high].batteryPercent

(* A decimated sequence is of points, in order, within the contract, with  *)
(* the first, the last, the lowest and the highest among them.             *)
LEMMA DecimateRepresents ==
    ASSUME NEW s \in Seq(Point), Rises(s)
    PROVE  /\ Decimate(s) \in Seq(Point)
           /\ Rises(Decimate(s))
           /\ Len(Decimate(s)) <= MaxPoints
           /\ IF Len(s) <= MaxPoints THEN Len(Decimate(s)) = Len(s)
                                     ELSE Len(Decimate(s)) >= 2
           /\ \A k \in 1..Len(Decimate(s)) : \E i \in 1..Len(s) : Decimate(s)[k] = s[i]
           /\ Extremal(Decimate(s), s)
           /\ Len(s) > 0 => /\ Len(Decimate(s)) > 0
                            /\ Decimate(s)[1] = s[1]
                            /\ Decimate(s)[Len(Decimate(s))] = s[Len(s)]
<1>1. Len(s) \in Nat /\ MaxPoints \in Nat /\ MaxPoints > 2
  BY HistoryAssumption
<1>2. CASE Len(s) <= MaxPoints
  <2>1. Decimate(s) = s
    BY <1>2 DEF Decimate
  <2>2. \A i \in 1..Len(s) : s[i].batteryPercent \in Nat
    <3>1. \A i \in 1..Len(s) : s[i] \in Point
      OBVIOUS
    <3> QED BY <3>1, HistoryAssumption DEF Point
  <2>3. Extremal(s, s)
    BY <2>2 DEF Extremal
  <2> QED BY <1>1, <1>2, <2>1, <2>3
<1>3. CASE Len(s) > MaxPoints
  <2>1. PICK kept \in Seq(Int) : kept = Kept(s)
    BY <1>1, <1>3, KeptAre
  <2>2. /\ Ascends(kept)
        /\ 2 <= Len(kept) /\ Len(kept) <= MaxPoints
        /\ kept[1] = 1 /\ kept[Len(kept)] = Len(s)
        /\ \A k \in 1..Len(kept) : kept[k] \in 1..Len(s)
        /\ \A i \in 1..Len(s) :
              \E low, high \in 1..Len(s) :
                 /\ Shows(kept, low) /\ Shows(kept, high)
                 /\ s[low].batteryPercent <= s[i].batteryPercent
                 /\ s[i].batteryPercent <= s[high].batteryPercent
    BY <1>1, <1>3, <2>1, KeptAre
  <2>3. PICK d : d = Decimate(s)
    OBVIOUS
  <2>4. Len(kept) \in Nat /\ d = [k \in 1..Len(kept) |-> s[kept[k]]]
    BY <1>1, <1>3, <2>1, <2>3 DEF Decimate
  <2>5. \A k \in 1..Len(kept) : d[k] = s[kept[k]] /\ d[k] \in Point
    BY <2>2, <2>4
  <2>6. d \in Seq(Point) /\ Len(d) = Len(kept)
    BY <2>4, <2>5
  <2>7. Rises(d)
    <3>1. SUFFICES ASSUME NEW j \in 1..Len(d), NEW k \in 1..Len(d), j < k
                   PROVE  d[j].receivedAt < d[k].receivedAt
      BY DEF Rises
    <3>2. kept[j] < kept[k] /\ kept[j] \in 1..Len(s) /\ kept[k] \in 1..Len(s)
      BY <2>2, <2>6, <3>1 DEF Ascends
    <3>3. s[kept[j]].receivedAt < s[kept[k]].receivedAt
      BY <3>2 DEF Rises
    <3> QED BY <2>5, <2>6, <3>3
  <2>8. Extremal(d, s)
    <3>1. SUFFICES ASSUME NEW i \in 1..Len(s)
                   PROVE  \E low, high \in 1..Len(d) :
                             /\ d[low].batteryPercent <= s[i].batteryPercent
                             /\ s[i].batteryPercent <= d[high].batteryPercent
      BY DEF Extremal
    <3>2. PICK low \in 1..Len(s), high \in 1..Len(s) :
             /\ Shows(kept, low) /\ Shows(kept, high)
             /\ s[low].batteryPercent <= s[i].batteryPercent
             /\ s[i].batteryPercent <= s[high].batteryPercent
      BY <2>2
    <3>3. PICK j \in 1..Len(kept) : kept[j] = low
      BY <3>2 DEF Shows
    <3>4. PICK k \in 1..Len(kept) : kept[k] = high
      BY <3>2 DEF Shows
    <3> QED BY <2>5, <2>6, <3>2, <3>3, <3>4
  <2>9. /\ d[1] = s[1] /\ d[Len(d)] = s[Len(s)]
    <3>1. 1 \in 1..Len(kept) /\ Len(kept) \in 1..Len(kept)
      BY <2>2, <2>4
    <3>2. d[1] = s[kept[1]] /\ d[Len(kept)] = s[kept[Len(kept)]]
      BY <2>5, <3>1
    <3>3. d[Len(d)] = d[Len(kept)]
      BY <2>6
    <3> QED BY <2>2, <3>2, <3>3
  <2>10. \A k \in 1..Len(d) : \E i \in 1..Len(s) : d[k] = s[i]
    BY <2>2, <2>5, <2>6
  <2>11. ~(Len(s) <= MaxPoints) /\ Len(d) <= MaxPoints /\ Len(d) >= 2 /\ Len(d) > 0
    <3>1. PICK m \in Nat : m = Len(kept) /\ 2 <= m /\ m <= MaxPoints
      BY <2>2, <2>4
    <3>2. Len(d) = m
      BY <2>6, <3>1
    <3> QED BY <1>1, <1>3, <3>1, <3>2
  <2> QED BY <2>3, <2>6, <2>7, <2>8, <2>9, <2>10, <2>11
<1> QED BY <1>1, <1>2, <1>3
-----------------------------------------------------------------------------
(* The ring holds the latest samples, as many as fit, in the order they    *)
(* came, and they came no faster than the rate allows.                     *)
SamplesTypeOK ==
    /\ now \in Nat
    /\ received \in Seq(Nat)
    /\ Samples \in Seq(Sample)

(* The ring holds, from the slot its cursor points back to, what is read.  *)
ReadsBack == RingHolds(history, HistoryCapacity, Samples)

Spaced ==
    \A i, j \in 1..Len(received) : i <= j =>
        received[i] + SourceInterval * (j - i) <= received[j]

NoneAhead == \A i \in 1..Len(received) : received[i] <= now

Latest ==
    /\ Len(Samples) = IF Len(received) <= HistoryCapacity
                      THEN Len(received) ELSE HistoryCapacity
    /\ \A k \in 1..Len(Samples) :
          Samples[k].receivedAt = received[Len(received) - Len(Samples) + k]

RingInv == SamplesTypeOK /\ ReadsBack /\ Spaced /\ NoneAhead /\ Latest

LEMMA Capacity == /\ HistoryCapacity \in Nat /\ HistoryCapacity > 0
                  /\ WindowMs < SourceInterval * HistoryCapacity
<1>1. SourceInterval \in Nat /\ SourceInterval > 0 /\ WindowMs \in Nat
  BY HistoryAssumption
<1>2. PICK q \in Int : q = WindowMs \div SourceInterval
  BY <1>1, Quotient
<1>3. WindowMs < SourceInterval * q + SourceInterval /\ q >= 0
  BY <1>1, <1>2, Quotient
<1>4. SourceInterval * (q + 1) = SourceInterval * q + SourceInterval
  BY <1>1
<1> QED BY <1>2, <1>3, <1>4 DEF HistoryCapacity

LEMMA RingInit == Init => RingInv
<1> SUFFICES ASSUME Init PROVE RingInv
  OBVIOUS
<1>1. now = 0 /\ Samples = <<>> /\ received = <<>> /\ ReadsBack
  <2>1. history = EmptyRing /\ now = 0 /\ received = <<>>
    BY DEF Init
  <2>2. RingHolds(EmptyRing, HistoryCapacity, <<>>)
    BY Capacity, EmptyRingHolds
  <2>3. Samples = <<>>
    BY <2>1, <2>2, Capacity, RingReads DEF Samples
  <2> QED BY <2>1, <2>2, <2>3 DEF ReadsBack
<1>2. SamplesTypeOK
  BY <1>1 DEF SamplesTypeOK
<1>3. Spaced /\ NoneAhead
  BY <1>1 DEF Spaced, NoneAhead
<1>4. Latest
  BY <1>1, Capacity DEF Latest
<1> QED BY <1>1, <1>2, <1>3, <1>4 DEF RingInv

LEMMA UpsertKeepsRing ==
    ASSUME RingInv, NEW battery \in Level \cup {Null}, Upsert(battery)
    PROVE  RingInv'
<1>1. PICK n \in Nat : n = Len(received)
  BY DEF RingInv, SamplesTypeOK
<1>2. PICK m \in Nat : m = Len(Samples)
  BY DEF RingInv, SamplesTypeOK
<1>3. PICK cap \in Nat : cap = HistoryCapacity /\ cap > 0
  BY Capacity
<1>4. m = IF n <= cap THEN n ELSE cap
  BY <1>1, <1>2, <1>3 DEF RingInv, Latest
<1>5. /\ now' = now /\ now \in Nat /\ SourceInterval \in Nat
      /\ received \in Seq(Nat) /\ Samples \in Seq(Sample)
  BY HistoryAssumption DEF RingInv, SamplesTypeOK, Upsert
<1>6. PICK sample \in Sample : /\ sample = [receivedAt |-> now, batteryPercent |-> battery]
                               /\ sample.receivedAt = now
  <2>1. [receivedAt |-> now, batteryPercent |-> battery] \in Sample
    BY <1>5 DEF Sample
  <2>2. [receivedAt |-> now, batteryPercent |-> battery].receivedAt = now
    OBVIOUS
  <2> QED BY <2>1, <2>2
<1>7. /\ received' = Append(received, now)
      /\ Samples' = Retained(Samples, sample, cap) /\ ReadsBack'
  <2>1. PICK old \in Seq(Sample) : old = Samples
    BY <1>5
  <2>2. PICK held : held = history /\ RingHolds(held, cap, old)
    BY <1>3, <2>1 DEF RingInv, ReadsBack
  <2>3. PICK new : new = Retained(old, sample, cap)
    OBVIOUS
  <2>4. RingHolds(Push(held, sample, cap), cap, new)
    BY <1>3, <2>2, <2>3, PushRetains
  <2>5. ToArray(Push(held, sample, cap), cap) = new
    BY <1>3, <2>4, RingReads
  <2>6. history' = Push(held, sample, cap) /\ received' = Append(received, now)
    BY <1>3, <1>6, <2>2 DEF Upsert
  <2>7. HistoryCapacity' = cap
    BY <1>3 DEF HistoryCapacity
  <2>8. Samples' = new
    BY <2>5, <2>6, <2>7 DEF Samples
  <2> QED BY <2>1, <2>3, <2>4, <2>6, <2>7, <2>8 DEF ReadsBack
<1>8. /\ received' \in Seq(Nat) /\ Len(received') = n + 1
      /\ received'[n + 1] = now
      /\ \A i \in 1..n : received'[i] = received[i] /\ received[i] \in Nat
  BY <1>1, <1>5, <1>7
<1>9. \A i \in 1..(n + 1) : i \in 1..n \/ i = n + 1
  OBVIOUS
<1>10. Spaced'
  <2>1. SUFFICES ASSUME NEW i \in 1..(n + 1), NEW j \in 1..(n + 1), i <= j
                 PROVE  received'[i] + SourceInterval * (j - i) <= received'[j]
    BY <1>8 DEF Spaced
  <2>2. CASE j \in 1..n
    <3>1. i \in 1..n
      BY <2>1, <2>2
    <3> QED BY <1>1, <1>8, <2>1, <2>2, <3>1 DEF RingInv, Spaced
  <2>3. CASE j = n + 1 /\ i = n + 1
    <3>1. SourceInterval * (j - i) = 0
      BY <1>5, <2>3
    <3> QED BY <1>5, <1>8, <2>3, <3>1
  <2>4. CASE j = n + 1 /\ i \in 1..n
    <3>1. n \in 1..n
      BY <2>4
    <3>2. received[i] + SourceInterval * (n - i) <= received[n]
      BY <1>1, <2>4, <3>1 DEF RingInv, Spaced
    <3>3. now >= received[n] + SourceInterval
      <4>1. received # <<>>
        BY <1>1, <3>1
      <4> QED BY <1>1, <4>1 DEF Upsert, Last
    <3>4. SourceInterval * (j - i) = SourceInterval * (n - i) + SourceInterval
      <4>1. j - i = (n - i) + 1
        BY <2>4
      <4>2. \A a \in Int, b \in Int : a * (b + 1) = a * b + a
        OBVIOUS
      <4> QED BY <1>5, <2>4, <4>1, <4>2
    <3>5. PICK step \in Int : step = SourceInterval * (n - i)
      BY <1>5
    <3>6. received'[i] = received[i] /\ received'[j] = now
      BY <1>8, <2>4
    <3> QED BY <1>5, <1>8, <2>4, <3>1, <3>2, <3>3, <3>4, <3>5, <3>6
  <2> QED BY <1>9, <2>2, <2>3, <2>4
<1>11. NoneAhead'
  <2>1. \A i \in 1..n : received[i] <= now
    BY <1>1 DEF RingInv, NoneAhead
  <2> QED BY <1>5, <1>8, <1>9, <2>1 DEF NoneAhead
<1>12. \A k \in 1..m : /\ n - m + k \in 1..n
                       /\ Samples[k].receivedAt = received[n - m + k]
  <2>1. \A k \in 1..m : n - m + k \in 1..n
    BY <1>4
  <2> QED BY <1>1, <1>2, <2>1 DEF RingInv, Latest
<1>13. PICK grown : grown = Append(Samples, sample)
  OBVIOUS
<1>14. /\ grown \in Seq(Sample) /\ Len(grown) = m + 1
       /\ grown[m + 1] = sample
       /\ \A k \in 1..m : grown[k] = Samples[k]
  BY <1>2, <1>5, <1>13
<1>15. Samples' = IF m + 1 <= cap THEN grown ELSE Tail(grown)
  <2>1. m < cap <=> m + 1 <= cap
    OBVIOUS
  <2> QED BY <1>2, <1>7, <1>13, <2>1 DEF Retained
<1>16. \A k \in 1..(m + 1) : grown[k].receivedAt = received'[n - m + k]
  <2> TAKE k \in 1..(m + 1)
  <2>1. CASE k = m + 1
    BY <1>6, <1>8, <1>14, <2>1
  <2>2. CASE k # m + 1
    <3>1. k \in 1..m
      BY <2>2
    <3> QED BY <1>8, <1>12, <1>14, <3>1
  <2> QED BY <2>1, <2>2
<1>17. SamplesTypeOK' /\ Latest'
  <2>1. CASE m + 1 <= cap
    <3>1. Samples' = grown /\ n = m
      BY <1>4, <1>15, <2>1
    <3>2. Len(Samples') = n + 1 /\ n + 1 <= cap
      BY <1>14, <2>1, <3>1
    <3>3. \A k \in 1..(n + 1) : Samples'[k].receivedAt = received'[k]
      <4> TAKE k \in 1..(n + 1)
      <4>1. n - m + k = k
        BY <3>1
      <4> QED BY <1>16, <3>1, <4>1
    <3>4. \A k \in 1..(n + 1) : (n + 1) - (n + 1) + k = k
      OBVIOUS
    <3>5. Latest'
      BY <1>3, <1>8, <3>2, <3>3, <3>4 DEF Latest, HistoryCapacity
    <3> QED BY <1>5, <1>8, <1>14, <3>1, <3>5 DEF SamplesTypeOK
  <2>2. CASE ~(m + 1 <= cap)
    <3>1. Samples' = Tail(grown) /\ m = cap /\ n >= cap
      BY <1>3, <1>4, <1>15, <2>2
    <3>2. /\ Tail(grown) \in Seq(Sample) /\ Len(Tail(grown)) = m
          /\ \A k \in 1..m : Tail(grown)[k] = grown[k + 1]
      BY <1>14
    <3>3. \A k \in 1..m : Samples'[k].receivedAt = received'[(n + 1) - m + k]
      <4> TAKE k \in 1..m
      <4>1. k + 1 \in 1..(m + 1) /\ n - m + (k + 1) = (n + 1) - m + k
        OBVIOUS
      <4> QED BY <1>16, <3>1, <3>2, <4>1
    <3>4. Len(Samples') = m /\ Len(Samples') = cap /\ ~(n + 1 <= cap)
      BY <3>1, <3>2
    <3>5. Latest'
      BY <1>3, <1>8, <3>3, <3>4 DEF Latest, HistoryCapacity
    <3> QED BY <1>5, <1>8, <3>1, <3>2, <3>5 DEF SamplesTypeOK
  <2> QED BY <2>1, <2>2
<1> QED BY <1>7, <1>10, <1>11, <1>17 DEF RingInv

LEMMA RingNext == RingInv /\ [Next]_vars => RingInv'
<1> SUFFICES ASSUME RingInv, [Next]_vars PROVE RingInv'
  OBVIOUS
<1>1. CASE Elapse
  <2>1. now' = now + 1 /\ history' = history /\ received' = received
    BY <1>1 DEF Elapse
  <2>2. Samples' = Samples
    BY <2>1 DEF Samples, HistoryCapacity
  <2>3. SamplesTypeOK' /\ ReadsBack' /\ Spaced' /\ Latest'
    BY <2>1, <2>2
       DEF RingInv, SamplesTypeOK, ReadsBack, Spaced, Latest, HistoryCapacity
  <2>4. NoneAhead'
    <3>1. \A i \in 1..Len(received) : received[i] \in Nat /\ received[i] <= now
      BY DEF RingInv, SamplesTypeOK, NoneAhead
    <3> QED BY <2>1, <3>1 DEF RingInv, SamplesTypeOK, NoneAhead
  <2> QED BY <2>3, <2>4 DEF RingInv
<1>2. ASSUME NEW battery \in Level \cup {Null}, Upsert(battery)
      PROVE  RingInv'
  BY <1>2, UpsertKeepsRing
<1>3. CASE UNCHANGED vars
  <2>1. now' = now /\ history' = history /\ received' = received
    BY <1>3 DEF vars
  <2>2. Samples' = Samples
    BY <2>1 DEF Samples, HistoryCapacity
  <2> QED BY <2>1, <2>2
             DEF RingInv, SamplesTypeOK, ReadsBack, Spaced, NoneAhead, Latest,
                 HistoryCapacity
<1> QED BY <1>1, <1>2, <1>3 DEF Next

(* The samples of the ring came one after another, none ahead of now. *)
LEMMA RingRises ==
    ASSUME RingInv
    PROVE  /\ Rises(Samples)
           /\ \A k \in 1..Len(Samples) :
                 /\ Len(received) - Len(Samples) + k \in 1..Len(received)
                 /\ Samples[k].receivedAt = received[Len(received) - Len(Samples) + k]
<1>1. PICK n \in Nat : n = Len(received)
  BY DEF RingInv, SamplesTypeOK
<1>2. PICK m \in Nat : m = Len(Samples)
  BY DEF RingInv, SamplesTypeOK
<1>3. m <= n
  BY <1>1, <1>2, Capacity DEF RingInv, Latest
<1>4. \A k \in 1..m : /\ n - m + k \in 1..n
                      /\ Samples[k].receivedAt = received[n - m + k]
  <2>1. \A k \in 1..m : n - m + k \in 1..n
    BY <1>3
  <2> QED BY <1>1, <1>2, <2>1 DEF RingInv, Latest
<1>5. \A i \in 1..n : received[i] \in Nat
  BY <1>1 DEF RingInv, SamplesTypeOK
<1>6. ASSUME NEW j \in 1..m, NEW k \in 1..m, j < k
      PROVE  Samples[j].receivedAt < Samples[k].receivedAt
  <2>1. PICK a \in 1..n : a = n - m + j
    BY <1>4
  <2>2. PICK b \in 1..n : b = n - m + k
    BY <1>4
  <2>3. a < b
    BY <1>6, <2>1, <2>2
  <2>4. received[a] + SourceInterval * (b - a) <= received[b]
    BY <1>1, <2>3 DEF RingInv, Spaced
  <2>5. SourceInterval \in Nat /\ SourceInterval >= 1 /\ b - a \in Nat /\ b - a >= 1
    BY <2>3, HistoryAssumption
  <2>6. SourceInterval * (b - a) >= 1
    <3>1. SourceInterval * 1 <= SourceInterval * (b - a)
      BY <2>5, ProductGrows
    <3>2. SourceInterval * 1 = SourceInterval /\ SourceInterval * (b - a) \in Int
      BY <2>5
    <3> QED BY <2>5, <3>1, <3>2
  <2>7. received[a] \in Nat /\ received[b] \in Nat
    BY <1>5
  <2>8. PICK step \in Int : step = SourceInterval * (b - a)
    BY <2>5
  <2>9. received[a] < received[b]
    BY <2>4, <2>6, <2>7, <2>8
  <2> QED BY <1>4, <2>1, <2>2, <2>9
<1>7. Rises(Samples)
  BY <1>2, <1>6 DEF Rises
<1> QED BY <1>1, <1>2, <1>4, <1>7

(* upsert keeps every robot's ring in that state. *)
THEOREM RingIsKept == Spec => []RingInv
<1>1. Init => RingInv
  BY RingInit
<1>2. RingInv /\ [Next]_vars => RingInv'
  BY RingNext
<1> QED BY <1>1, <1>2, PTL DEF Spec
-----------------------------------------------------------------------------
(* The numeric samples of the window are points, in order. *)
NumericPositions ==
    {i \in PositionsInWindow(Samples, now) : Samples[i].batteryPercent # Null}

LEMMA NumericIs ==
    ASSUME RingInv
    PROVE  /\ Numeric(Samples, now) \in Seq(Point)
           /\ Rises(Numeric(Samples, now))
           /\ Len(Numeric(Samples, now)) = Cardinality(NumericPositions)
           /\ \A k \in 1..Len(Numeric(Samples, now)) :
                 Numeric(Samples, now)[k].receivedAt \in InWindow(now)
<1>1. NumericPositions \in SUBSET (1..Len(Samples))
  BY DEF NumericPositions, PositionsInWindow
<1>2. PICK ring \in Seq(Sample) : ring = Samples /\ Rises(ring)
  BY RingRises DEF RingInv, SamplesTypeOK
<1>3. PICK s : s = Numeric(Samples, now)
  OBVIOUS
<1>4. s = Filtered(ring, NumericPositions)
  BY <1>2, <1>3 DEF Numeric, NumericPositions
<1>5. /\ s \in Seq(Sample) /\ Rises(s) /\ Len(s) = Cardinality(NumericPositions)
      /\ \A k \in 1..Len(s) : \E i \in NumericPositions : s[k] = ring[i]
  BY <1>1, <1>2, <1>4, FilteredIs
<1>6. \A k \in 1..Len(s) : s[k] \in Point /\ s[k].receivedAt \in InWindow(now)
  <2> TAKE k \in 1..Len(s)
  <2>1. PICK i \in NumericPositions : s[k] = Samples[i]
    BY <1>2, <1>5
  <2>2. s[k].batteryPercent # Null /\ s[k].receivedAt \in InWindow(now)
    BY <2>1 DEF NumericPositions, PositionsInWindow
  <2>3. s[k] \in Sample
    BY <1>5
  <2> QED BY <2>2, <2>3 DEF Sample, Point
<1>7. s \in Seq(Point)
  <2>1. Len(s) \in Nat /\ s = [k \in 1..Len(s) |-> s[k]]
    BY <1>5
  <2> QED BY <1>6, <2>1
<1> QED BY <1>3, <1>5, <1>6, <1>7

LEMMA CountIs ==
    ASSUME RingInv
    PROVE  /\ IsFiniteSet(PositionsInWindow(Samples, now))
           /\ Response.sourceSampleCount = Cardinality(PositionsInWindow(Samples, now))
<1>1. PositionsInWindow(Samples, now) \in SUBSET (1..Len(Samples))
  BY DEF PositionsInWindow
<1>2. PICK ring \in Seq(Sample) : ring = Samples /\ Rises(ring)
  BY RingRises DEF RingInv, SamplesTypeOK
<1>3. PICK P \in SUBSET (1..Len(ring)) : P = PositionsInWindow(Samples, now)
  BY <1>1, <1>2
<1>4. IsFiniteSet(P) /\ Len(Filtered(ring, P)) = Cardinality(P)
  BY <1>2, FilteredIs
<1>5. Response.sourceSampleCount = Len(Filtered(ring, P))
  BY <1>2, <1>3 DEF Response, SelectBatteryHistory
<1> QED BY <1>3, <1>4, <1>5

(* The response keeps the contract's rules. *)
LEMMA RingConforms == RingInv => ResponseConforms
<1> SUFFICES ASSUME RingInv PROVE ResponseConforms
  OBVIOUS
<1>1. PICK s \in Seq(Point) :
        /\ s = Numeric(Samples, now) /\ Rises(s)
        /\ Len(s) = Cardinality(NumericPositions)
        /\ \A k \in 1..Len(s) : s[k].receivedAt \in InWindow(now)
  BY NumericIs
<1>2. PICK d \in Seq(Point) :
        /\ d = Decimate(s) /\ Rises(d) /\ Len(d) <= MaxPoints
        /\ IF Len(s) <= MaxPoints THEN Len(d) = Len(s) ELSE Len(d) >= 2
        /\ \A k \in 1..Len(d) : \E i \in 1..Len(s) : d[k] = s[i]
  BY <1>1, DecimateRepresents
<1>3. PICK P : P = PositionsInWindow(Samples, now)
  OBVIOUS
<1>4. PICK n \in Nat : n = Cardinality(P) /\ n = Response.sourceSampleCount
  BY <1>3, CountIs, FS_CardinalityType
<1>5. PICK m \in Nat : m = Len(s) /\ m <= n
  <2>1. NumericPositions \subseteq P
    BY <1>3 DEF NumericPositions
  <2>2. Cardinality(NumericPositions) <= Cardinality(P)
    BY <1>3, <2>1, CountIs, FS_Subset
  <2> QED BY <1>1, <1>4, <2>2
<1>6. /\ Response.missingBatterySampleCount = n - m
      /\ Response.points = d /\ Response.capturedAt = now
  <2>1. Response.sourceSampleCount = Len(Filtered(Samples, PositionsInWindow(Samples, now)))
    BY DEF Response, SelectBatteryHistory
  <2> QED BY <1>1, <1>2, <1>4, <1>5, <2>1 DEF Response, SelectBatteryHistory
<1>7. n - (n - m) = m /\ n - m \in 0..n
  BY <1>5
<1>8. \A k \in 1..Len(d) :
        /\ d[k].batteryPercent \in Level
        /\ d[k].receivedAt \in InWindow(now)
        /\ k > 1 => d[k - 1].receivedAt <= d[k].receivedAt
  <2> TAKE k \in 1..Len(d)
  <2>1. d[k].batteryPercent \in Level
    <3>1. d[k] \in Point
      OBVIOUS
    <3> QED BY <3>1 DEF Point
  <2>2. d[k].receivedAt \in InWindow(now)
    BY <1>1, <1>2
  <2>3. ASSUME k > 1 PROVE d[k - 1].receivedAt <= d[k].receivedAt
    <3>1. k - 1 \in 1..Len(d) /\ k - 1 < k
      BY <2>3
    <3>2. d[k - 1] \in Point /\ d[k] \in Point
      BY <3>1
    <3>3. d[k - 1].receivedAt < d[k].receivedAt
      BY <1>2, <3>1 DEF Rises
    <3>4. d[k - 1].receivedAt \in Nat /\ d[k].receivedAt \in Nat
      BY <3>2 DEF Point
    <3> QED BY <3>3, <3>4
  <2> QED BY <2>1, <2>2, <2>3
<1>9. Conforms(Response)
  BY <1>2, <1>4, <1>5, <1>6, <1>7, <1>8 DEF Conforms
<1> QED BY <1>9 DEF ResponseConforms

(* Whatever samples came and whenever the history is asked for, the        *)
(* console can decode the response: selectBatteryHistory keeps every rule  *)
(* of robotBatteryHistorySchema.                                           *)
THEOREM HistoryConforms == Spec => []ResponseConforms
<1> QED BY RingIsKept, RingConforms, PTL
-----------------------------------------------------------------------------
(* A set within another, with an element below and one above each of its   *)
(* elements, has the same bounds.                                          *)
LEMMA SameBounds ==
    ASSUME NEW B \in SUBSET Int, IsFiniteSet(B), NEW A \in SUBSET B, B # {},
           \A b \in B : \E low, high \in A : low <= b /\ b <= high
    PROVE  Min(A) = Min(B) /\ Max(A) = Max(B)
<1>1. A \in SUBSET Int /\ A # {} /\ IsFiniteSet(A)
  BY FS_Subset
<1>2. /\ Min(B) \in B /\ Max(B) \in B
      /\ \A x \in B : Min(B) <= x /\ x <= Max(B)
  BY FiniteIsBounded, MinAndMax
<1>3. /\ Min(A) \in A /\ Max(A) \in A
      /\ \A x \in A : Min(A) <= x /\ x <= Max(A)
  BY <1>1, FiniteIsBounded, MinAndMax
<1>4. PICK a \in A, c \in A : a <= Min(B) /\ Max(B) <= c
  <2>1. PICK a \in A : a <= Min(B)
    BY <1>2
  <2>2. PICK c \in A : Max(B) <= c
    BY <1>2
  <2> QED BY <2>1, <2>2
<1>5. Min(A) <= a /\ c <= Max(A) /\ Min(B) <= Min(A) /\ Max(A) <= Max(B)
  BY <1>2, <1>3
<1>6. PICK x \in Int, y \in Int : x = Min(A) /\ y = Max(A)
  BY <1>1, <1>3
<1>7. PICK v \in Int, w \in Int : v = Min(B) /\ w = Max(B)
  BY <1>2
<1>8. a \in Int /\ c \in Int /\ a <= v /\ w <= c /\ x <= a /\ c <= y /\ v <= x /\ y <= w
  BY <1>1, <1>4, <1>5, <1>6, <1>7
<1>9. x = v /\ y = w
  BY <1>8
<1> QED BY <1>6, <1>7, <1>9

Percentages(s) == {s[k].batteryPercent : k \in 1..Len(s)}

LEMMA PercentagesAre ==
    ASSUME NEW s \in Seq(Point)
    PROVE  Percentages(s) \in SUBSET Int /\ IsFiniteSet(Percentages(s))
<1>1. Len(s) \in Nat /\ \A k \in 1..Len(s) : s[k].batteryPercent \in Int
  <2>1. Len(s) \in Nat /\ \A k \in 1..Len(s) : s[k] \in Point
    OBVIOUS
  <2>2. \A p \in Point : p.batteryPercent \in Int
    <3>1. \A p \in Point : p.batteryPercent \in Level
      BY DEF Point
    <3>2. Level \subseteq Int
      BY HistoryAssumption
    <3> QED BY <3>1, <3>2
  <2> QED BY <2>1, <2>2
<1> DEFINE level == [k \in 1..Len(s) |-> s[k].batteryPercent]
<1>2. Percentages(s) = {level[k] : k \in 1..Len(s)}
  BY DEF Percentages
<1> HIDE DEF level
<1>3. IsFiniteSet(1..Len(s))
  BY <1>1, FS_Interval
<1>4. IsFiniteSet(Percentages(s))
  BY <1>2, <1>3, ImageIsFinite
<1> QED BY <1>1, <1>4 DEF Percentages

(* The points stand for the window's numeric samples. *)
LEMMA RingRepresents == RingInv => PointsRepresentWindow
<1> SUFFICES ASSUME RingInv PROVE PointsRepresentWindow
  OBVIOUS
<1>1. PICK s \in Seq(Point) : s = Numeric(Samples, now) /\ Rises(s)
  BY NumericIs
<1>2. PICK d \in Seq(Point) :
        /\ d = Decimate(s) /\ Rises(d)
        /\ \A k \in 1..Len(d) : \E i \in 1..Len(s) : d[k] = s[i]
        /\ Extremal(d, s)
        /\ Len(s) > 0 => Len(d) > 0 /\ d[1] = s[1] /\ d[Len(d)] = s[Len(s)]
  BY <1>1, DecimateRepresents
<1>3. Response.points = d
  BY <1>1, <1>2 DEF Response, SelectBatteryHistory
<1>4. DOMAIN d = 1..Len(d) /\ DOMAIN s = 1..Len(s) /\ Len(d) \in Nat /\ Len(s) \in Nat
  OBVIOUS
<1>5. ToSet(d) \subseteq ToSet(s)
  BY <1>2, <1>4 DEF ToSet
<1>6. IsInjective(d)
  <2>1. SUFFICES ASSUME NEW a \in 1..Len(d), NEW b \in 1..Len(d), d[a] = d[b]
                 PROVE  a = b
    BY <1>4 DEF IsInjective
  <2>2. d[a].receivedAt \in Nat
    <3>1. d[a] \in Point
      OBVIOUS
    <3> QED BY <3>1 DEF Point
  <2>3. ~(a < b) /\ ~(b < a)
    BY <1>2, <2>1, <2>2 DEF Rises
  <2> QED BY <2>3
<1>7. ASSUME Len(s) > 0
      PROVE  /\ Min(Percentages(d)) = Min(Percentages(s))
             /\ Max(Percentages(d)) = Max(Percentages(s))
  <2>1. PICK A : A = Percentages(d)
    OBVIOUS
  <2>2. PICK B \in SUBSET Int : B = Percentages(s) /\ IsFiniteSet(B)
    BY PercentagesAre
  <2>3. B # {}
    <3>1. 1 \in 1..Len(s)
      BY <1>4, <1>7
    <3> QED BY <2>2, <3>1 DEF Percentages
  <2>4. A \in SUBSET B
    BY <1>2, <2>1, <2>2 DEF Percentages
  <2>5. ASSUME NEW b \in B PROVE \E low, high \in A : low <= b /\ b <= high
    <3>1. PICK i \in 1..Len(s) : b = s[i].batteryPercent
      BY <2>2 DEF Percentages
    <3>2. PICK j \in 1..Len(d), k \in 1..Len(d) :
             /\ d[j].batteryPercent <= b /\ b <= d[k].batteryPercent
      BY <1>2, <3>1 DEF Extremal
    <3>3. d[j].batteryPercent \in A /\ d[k].batteryPercent \in A
      BY <2>1 DEF Percentages
    <3> QED BY <3>2, <3>3
  <2>6. Min(A) = Min(B) /\ Max(A) = Max(B)
    BY <2>2, <2>3, <2>4, <2>5, SameBounds
  <2> QED BY <2>1, <2>2, <2>6
<1>8. s # <<>> => Len(s) > 0
  BY <1>4
<1>9. s # <<>> => /\ Head(d) = Head(s) /\ Last(d) = Last(s)
  <2>1. s # <<>> => Head(d) = d[1] /\ Head(s) = s[1]
    BY <1>2, <1>4, <1>8
  <2> QED BY <1>2, <1>8, <2>1 DEF Last
<1> QED BY <1>1, <1>3, <1>5, <1>6, <1>7, <1>8, <1>9 DEF PointsRepresentWindow, Percentages

(* The points of a response are samples of the window, each shown once,    *)
(* from its first to its last, with its least and greatest percentage      *)
(* among them: decimate hides no spike and no trough.                      *)
THEOREM HistoryRepresents == Spec => []PointsRepresentWindow
<1> QED BY RingIsKept, RingRepresents, PTL
-----------------------------------------------------------------------------
(* Every sample received within the window is still in the ring: what it   *)
(* dropped came at least a capacity of intervals before now.               *)
LEMMA RingCovers == RingInv => WindowIsCovered
<1> SUFFICES ASSUME RingInv PROVE WindowIsCovered
  OBVIOUS
<1>1. PICK n \in Nat : n = Len(received)
  BY DEF RingInv, SamplesTypeOK
<1>2. PICK m \in Nat : m = Len(Samples)
  BY DEF RingInv, SamplesTypeOK
<1>3. PICK cap \in Nat : /\ cap = HistoryCapacity /\ cap > 0
                        /\ WindowMs < SourceInterval * cap
  BY Capacity
<1>4. m = IF n <= cap THEN n ELSE cap
  BY <1>1, <1>2, <1>3 DEF RingInv, Latest
<1>5. \A k \in 1..m : /\ n - m + k \in 1..n
                      /\ Samples[k].receivedAt = received[n - m + k]
  BY <1>1, <1>2, RingRises
<1>6. /\ now \in Nat /\ WindowMs \in Nat /\ SourceInterval \in Nat
      /\ \A i \in 1..n : received[i] \in Nat /\ received[i] <= now
  BY <1>1, HistoryAssumption DEF RingInv, SamplesTypeOK, NoneAhead
<1> DEFINE came == {i \in 1..n : received[i] \in InWindow(now)}
           held == {k \in 1..m : Samples[k].receivedAt \in InWindow(now)}
           place == [k \in held |-> n - m + k]
<1>7. ASSUME NEW i \in 1..n, received[i] \in InWindow(now)
      PROVE  n - m < i
  <2>1. SUFFICES ASSUME i <= n - m PROVE FALSE
    BY <1>4
  <2>2. n - i >= cap /\ n \in 1..n
    BY <1>4, <2>1
  <2>3. received[i] + SourceInterval * (n - i) <= received[n]
    BY <1>1, <2>2 DEF RingInv, Spaced
  <2>4. SourceInterval * cap <= SourceInterval * (n - i)
    BY <1>6, <2>2, ProductGrows
  <2>5. PICK x \in Int : x = SourceInterval * cap
    BY <1>6
  <2>6. PICK y \in Int : y = SourceInterval * (n - i)
    BY <1>6
  <2>7. now - WindowMs <= received[i]
    BY <1>6, <1>7 DEF InWindow
  <2> QED BY <1>3, <1>6, <2>2, <2>3, <2>4, <2>5, <2>6, <2>7
<1>8. \A k \in held : place[k] \in came
  BY <1>5
<1>9. \A a, b \in held : place[a] = place[b] => a = b
  OBVIOUS
<1>10. ASSUME NEW i \in came PROVE \E k \in held : place[k] = i
  <2>1. n - m < i
    BY <1>7
  <2>2. i - (n - m) \in 1..m /\ n - m + (i - (n - m)) = i
    BY <2>1
  <2>3. Samples[i - (n - m)].receivedAt = received[i]
    BY <1>5, <2>2
  <2>4. i - (n - m) \in held
    BY <2>2, <2>3
  <2> QED BY <2>2, <2>4
<1>11. place \in Bijection(held, came)
  BY <1>8, <1>9, <1>10 DEF Bijection, Injection, Surjection, IsInjective
<1>12. held = PositionsInWindow(Samples, now)
  BY <1>2 DEF PositionsInWindow
<1>13. Cardinality(came) = Cardinality(held)
  <2> HIDE DEF place, came, held
  <2>1. IsFiniteSet(held)
    BY <1>12, CountIs
  <2> QED BY <1>11, <2>1, FS_Bijection DEF ExistsBijection
<1> QED BY <1>1, <1>12, <1>13, CountIs DEF WindowIsCovered

(* HISTORY_CAPACITY is enough: the response counts every sample accepted   *)
(* within the window, however many came and however fast, within the rate. *)
THEOREM HistoryCoversWindow == Spec => []WindowIsCovered
<1> QED BY RingIsKept, RingCovers, PTL
===============================================================================
