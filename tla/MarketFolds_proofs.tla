------------------------- MODULE MarketFolds_proofs -------------------------
(***************************************************************************)
(* What the purge of a walk-forward fold is worth, for any set of market   *)
(* dates with any gaps.                                                    *)
(***************************************************************************)
EXTENDS MarketFolds, FiniteSetTheorems, TLAPS

(***************************************************************************)
(* The place of a date in the sorted dates of build_market_date_folds is a *)
(* number.                                                                 *)
(***************************************************************************)
LEMMA PlaceNat ==
    ASSUME NEW dates \in SUBSET Nat, IsFiniteSet(dates), NEW d \in Nat
    PROVE  Place(dates, d) \in Nat
  <1>1. {e \in dates : e <= d} \in SUBSET dates
    BY Zenon
  <1>2. QED
    BY <1>1, FS_Subset, FS_CardinalityType DEF Place

(***************************************************************************)
(* Dates of a fold axis are at least as far apart in the calendar as their *)
(* places are: the axis skips dates and repeats none.                      *)
(***************************************************************************)
LEMMA PlaceGap ==
    ASSUME NEW dates \in SUBSET Nat, IsFiniteSet(dates),
           NEW d \in Nat, NEW e \in Nat, d <= e
    PROVE  Place(dates, e) - Place(dates, d) <= e - d
  <1> DEFINE upto(x) == {y \in dates : y <= x}
             gap == {y \in dates : d < y /\ y <= e}
  <1>1. /\ upto(d) \in SUBSET dates /\ upto(e) \in SUBSET dates
        /\ gap \in SUBSET dates /\ gap \in SUBSET ((d + 1)..e)
    <2>1. \A y \in gap : y \in (d + 1)..e
      OBVIOUS
    <2>2. QED
      BY <2>1, Zenon
  <1>2. IsFiniteSet(upto(d)) /\ IsFiniteSet(upto(e)) /\ IsFiniteSet(gap)
    BY <1>1, FS_Subset
  <1>3. upto(e) = upto(d) \cup gap /\ upto(d) \cap gap = {}
    <2>1. \A y \in dates : y <= e <=> y <= d \/ (d < y /\ y <= e)
      OBVIOUS
    <2>2. \A y \in dates : ~(y <= d /\ d < y)
      OBVIOUS
    <2>3. upto(e) = upto(d) \cup gap
      BY <2>1, Zenon
    <2>4. upto(d) \cap gap = {}
      BY <2>2, Zenon
    <2>5. QED
      BY <2>3, <2>4
  <1>4. Cardinality(upto(e)) = Cardinality(upto(d)) + Cardinality(gap) - 0
    BY <1>2, <1>3, FS_Union, FS_EmptySet
  <1>5. Cardinality(gap) <= e - d
    <2>1. IsFiniteSet((d + 1)..e) /\ Cardinality((d + 1)..e) = e - d
      <3>1. d + 1 \in Int /\ e \in Int
        OBVIOUS
      <3>2. /\ IsFiniteSet((d + 1)..e)
            /\ Cardinality((d + 1)..e) = IF d + 1 > e THEN 0 ELSE e - (d + 1) + 1
        BY <3>1, FS_Interval, Zenon
      <3>3. QED
        BY <3>2
    <2>2. QED
      BY <2>1, <1>1, FS_Subset
  <1>6. /\ Cardinality(upto(d)) \in Nat /\ Cardinality(upto(e)) \in Nat
        /\ Cardinality(gap) \in Nat
    BY <1>2, FS_CardinalityType
  <1>7. Place(dates, e) = Cardinality(upto(e)) /\ Place(dates, d) = Cardinality(upto(d))
    BY DEF Place
  <1> HIDE DEF upto, gap
  <1>8. QED
    BY <1>4, <1>5, <1>6, <1>7

(***************************************************************************)
(* A date with the smaller place is the earlier one.                       *)
(***************************************************************************)
LEMMA PlaceMonotone ==
    ASSUME NEW dates \in SUBSET Nat, IsFiniteSet(dates),
           NEW d \in Nat, NEW e \in Nat, Place(dates, d) < Place(dates, e)
    PROVE  d < e
  <1>1. SUFFICES ASSUME e <= d PROVE FALSE
    OBVIOUS
  <1> DEFINE upto(x) == {y \in dates : y <= x}
  <1>2. upto(e) \in SUBSET upto(d) /\ upto(d) \in SUBSET dates
    <2>1. \A y \in upto(e) : y \in upto(d)
      BY <1>1
    <2>2. QED
      BY <2>1, Zenon
  <1>3. Cardinality(upto(e)) <= Cardinality(upto(d))
    BY <1>2, FS_Subset
  <1>4. Place(dates, e) = Cardinality(upto(e)) /\ Place(dates, d) = Cardinality(upto(d))
    BY DEF Place
  <1> HIDE DEF upto
  <1>5. QED
    BY <1>3, <1>4, PlaceNat

(***************************************************************************)
(* The purge of build_market_date_folds is counted in dates of the fold    *)
(* axis, and the reach of a label in market dates; it is enough all the    *)
(* same: the label of a row that is trained on settles before the first    *)
(* date of the holdout, if it reaches as many market dates as are purged.  *)
(***************************************************************************)
LEMMA PurgeCoversLabels ==
    ASSUME NEW dates \in SUBSET Nat, IsFiniteSet(dates),
           NEW end \in Int, NEW purge \in Nat, NEW to,
           NEW d \in Slice(dates, 0, PurgeStart(end, purge)),
           NEW e \in Slice(dates, end, to)
    PROVE  d + purge < e
  <1>1. d \in Nat /\ e \in Nat /\ Place(dates, d) \in Nat /\ Place(dates, e) \in Nat
    BY PlaceNat DEF Slice
  <1>2. /\ 0 < Place(dates, d) /\ Place(dates, d) <= PurgeStart(end, purge)
        /\ end < Place(dates, e)
    BY DEF Slice
  <1>3. Place(dates, d) + purge < Place(dates, e)
    BY <1>1, <1>2 DEF PurgeStart
  <1>4. d < e
    BY <1>1, <1>3, PlaceMonotone
  <1>5. Place(dates, e) - Place(dates, d) <= e - d
    BY <1>1, <1>4, PlaceGap
  <1>6. QED
    BY <1>1, <1>3, <1>5

(***************************************************************************)
(* Later dates have later places.                                          *)
(***************************************************************************)
LEMMA PlaceGrows ==
    ASSUME NEW dates \in SUBSET Nat, IsFiniteSet(dates),
           NEW d \in Nat, NEW e \in dates, d < e
    PROVE  Place(dates, d) < Place(dates, e)
  <1> DEFINE upto(x) == {y \in dates : y <= x}
  <1>1. upto(d) \in SUBSET upto(e) /\ upto(e) \in SUBSET dates
    <2>1. \A y \in upto(d) : y \in upto(e)
      OBVIOUS
    <2>2. QED
      BY <2>1, Zenon
  <1>2. e \in upto(e) /\ e \notin upto(d)
    OBVIOUS
  <1>3. IsFiniteSet(upto(e))
    BY <1>1, FS_Subset
  <1>4. /\ Cardinality(upto(d)) <= Cardinality(upto(e))
        /\ Cardinality(upto(d)) # Cardinality(upto(e))
    BY <1>1, <1>2, <1>3, FS_Subset
  <1>5. Place(dates, e) = Cardinality(upto(e)) /\ Place(dates, d) = Cardinality(upto(d))
    BY DEF Place
  <1> HIDE DEF upto
  <1>6. QED
    BY <1>4, <1>5, PlaceNat

(***************************************************************************)
(* The places of the dates are 1, 2, ... up to their number, each taken.   *)
(***************************************************************************)
LEMMA PlaceOnto ==
    ASSUME NEW dates \in SUBSET Nat, IsFiniteSet(dates)
    PROVE  /\ \A d \in dates : Place(dates, d) \in 1..Cardinality(dates)
           /\ \A k \in 1..Cardinality(dates) :
                 \E d \in dates : Place(dates, d) = k
  <1> DEFINE n == Cardinality(dates)
             f == [d \in dates |-> Place(dates, d)]
  <1>1. n \in Nat
    BY FS_CardinalityType
  <1>2. ASSUME NEW d \in dates PROVE Place(dates, d) \in 1..n
    <2> DEFINE upto == {y \in dates : y <= d}
    <2>1. upto \in SUBSET dates
      BY Zenon
    <2>2. IsFiniteSet(upto) /\ Cardinality(upto) <= n
      BY <2>1, FS_Subset
    <2>3. d \in upto
      OBVIOUS
    <2>4. Cardinality(upto) # 0
      BY <2>2, <2>3, FS_EmptySet
    <2>5. Place(dates, d) = Cardinality(upto)
      BY DEF Place
    <2> HIDE DEF upto, n
    <2>6. QED
      BY <1>1, <2>2, <2>4, <2>5, PlaceNat
  <1>3. f \in Injection(dates, 1..n)
    <2>1. f \in [dates -> 1..n]
      BY <1>2
    <2>2. ASSUME NEW d \in dates, NEW e \in dates, f[d] = f[e] PROVE d = e
      <3>1. Place(dates, d) = Place(dates, e)
        BY <2>2
      <3>2. ~(d < e) /\ ~(e < d)
        BY <3>1, PlaceGrows, PlaceNat
      <3>3. QED
        BY <3>2
    <2> HIDE DEF f, n
    <2>3. QED
      BY <2>1, <2>2 DEF Injection, IsInjective
  <1>4. IsFiniteSet(1..n) /\ Cardinality(1..n) = n
    <2>1. /\ IsFiniteSet(1..n)
          /\ Cardinality(1..n) = IF 1 > n THEN 0 ELSE n - 1 + 1
      BY <1>1, FS_Interval
    <2> HIDE DEF n
    <2>2. QED
      BY <1>1, <2>1
  <1>5. f \in Surjection(dates, 1..n)
    BY <1>3, <1>4, FS_Injection
  <1>6. \A k \in 1..n : \E d \in dates : f[d] = k
    BY <1>5, Zenon DEF Surjection
  <1>7. QED
    BY <1>2, <1>6

(***************************************************************************)
(* A finite set of dates has a first and a last one.                       *)
(***************************************************************************)
LEMMA FirstAndLast ==
    ASSUME NEW dates \in SUBSET Nat, IsFiniteSet(dates), dates # {}
    PROVE  /\ \E d \in dates : \A e \in dates : d <= e
           /\ \E d \in dates : \A e \in dates : e <= d
  <1> DEFINE n == Cardinality(dates)
  <1>1. n \in Nat \ {0}
    BY FS_CardinalityType, FS_EmptySet
  <1> HIDE DEF n
  <1>2. 1 \in 1..n /\ n \in 1..n
    BY <1>1
  <1>3. \A d \in dates : 1 <= Place(dates, d) /\ Place(dates, d) <= n
    BY <1>1, PlaceOnto DEF n
  <1>4. \E d \in dates : \A e \in dates : d <= e
    <2>1. PICK d \in dates : Place(dates, d) = 1
      BY <1>2, PlaceOnto DEF n
    <2>2. \A e \in dates : ~(e < d)
      BY <1>3, <2>1, PlaceGrows, PlaceNat
    <2>3. \A e \in dates : e \in Nat /\ d \in Nat
      OBVIOUS
    <2>4. QED
      BY <2>2, <2>3
  <1>5. \E d \in dates : \A e \in dates : e <= d
    <2>1. PICK d \in dates : Place(dates, d) = n
      BY <1>2, PlaceOnto DEF n
    <2>2. \A e \in dates : ~(d < e)
      <3>1. \A e \in dates : d < e => Place(dates, d) < Place(dates, e)
        BY PlaceGrows
      <3>2. \A e \in dates : Place(dates, e) \in Nat
        BY PlaceNat
      <3>3. QED
        BY <1>1, <1>3, <2>1, <3>1, <3>2
    <2>3. \A e \in dates : e \in Nat /\ d \in Nat
      OBVIOUS
    <2>4. QED
      BY <2>2, <2>3
  <1>6. QED
    BY <1>4, <1>5

(***************************************************************************)
(* Leaving dates out brings the others closer together: between two dates  *)
(* of a part there are at least as many places in the whole.               *)
(***************************************************************************)
LEMMA PartIsDenser ==
    ASSUME NEW dates \in SUBSET Nat, IsFiniteSet(dates), NEW part \in SUBSET dates,
           NEW d \in Nat, NEW e \in Nat, d <= e
    PROVE  Place(part, e) - Place(part, d) <= Place(dates, e) - Place(dates, d)
  <1> DEFINE upto(S, x) == {y \in S : y <= x}
             gap(S) == {y \in S : d < y /\ y <= e}
  <1>1. ASSUME NEW S \in SUBSET dates
        PROVE  /\ Place(S, e) = Place(S, d) + Cardinality(gap(S))
               /\ IsFiniteSet(gap(S))
    <2>1. S \in SUBSET Nat /\ IsFiniteSet(S)
      BY FS_Subset
    <2>2. /\ upto(S, d) \in SUBSET S /\ upto(S, e) \in SUBSET S
          /\ gap(S) \in SUBSET S
      BY Zenon
    <2>3. IsFiniteSet(upto(S, d)) /\ IsFiniteSet(upto(S, e)) /\ IsFiniteSet(gap(S))
      BY <2>1, <2>2, FS_Subset
    <2>4. upto(S, e) = upto(S, d) \cup gap(S) /\ upto(S, d) \cap gap(S) = {}
      <3>1. \A y \in S : y <= e <=> y <= d \/ (d < y /\ y <= e)
        BY <2>1
      <3>2. \A y \in S : ~(y <= d /\ d < y)
        BY <2>1
      <3>3. upto(S, e) = upto(S, d) \cup gap(S)
        BY <3>1, Zenon
      <3>4. upto(S, d) \cap gap(S) = {}
        BY <3>2, Zenon
      <3>5. QED
        BY <3>3, <3>4
    <2>5. Cardinality(upto(S, e)) =
              Cardinality(upto(S, d)) + Cardinality(gap(S)) - 0
      BY <2>3, <2>4, FS_Union, FS_EmptySet
    <2>6. Cardinality(upto(S, d)) \in Nat /\ Cardinality(gap(S)) \in Nat
      BY <2>3, FS_CardinalityType
    <2>7. Place(S, e) = Cardinality(upto(S, e)) /\ Place(S, d) = Cardinality(upto(S, d))
      BY DEF Place
    <2> HIDE DEF upto, gap
    <2>8. QED
      BY <2>3, <2>5, <2>6, <2>7
  <1>2. gap(part) \in SUBSET gap(dates)
    BY Zenon
  <1>3. /\ Place(part, e) = Place(part, d) + Cardinality(gap(part))
        /\ Place(dates, e) = Place(dates, d) + Cardinality(gap(dates))
        /\ IsFiniteSet(gap(part)) /\ IsFiniteSet(gap(dates))
    BY <1>1, Zenon
  <1>4. Cardinality(gap(part)) <= Cardinality(gap(dates))
    BY <1>2, <1>3, FS_Subset
  <1>5. /\ Cardinality(gap(part)) \in Nat /\ Cardinality(gap(dates)) \in Nat
        /\ Place(part, d) \in Nat /\ Place(dates, d) \in Nat
    BY <1>3, FS_CardinalityType, PlaceNat, FS_Subset
  <1> HIDE DEF gap
  <1>6. QED
    BY <1>3, <1>4, <1>5

=============================================================================
