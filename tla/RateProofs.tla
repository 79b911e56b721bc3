----------------------------- MODULE RateProofs -----------------------------
(***************************************************************************)
(* Proofs about the limiter, for any number of clients, budgets and keys,  *)
(* and for every limit, window and size of the store.                      *)
(***************************************************************************)
EXTENDS RateLimit, FiniteSetTheorems, TLAPS

LEMMA MinOfTwo ==
    ASSUME NEW x \in Int, NEW y \in Int
    PROVE  Min({x, y}) = IF x <= y THEN x ELSE y
<1>. DEFINE m == IF x <= y THEN x ELSE y
<1>1. m \in {x, y} /\ \A z \in {x, y} : m <= z
  OBVIOUS
<1>2. \A n \in {x, y} : (\A z \in {x, y} : n <= z) => n = m
  BY <1>1
<1>. QED
  BY <1>1, <1>2 DEF Min

-----------------------------------------------------------------------------
(* Attempts and keys.                                                      *)

LEMMA AttemptType ==
    ASSUME NEW a \in Attempts
    PROVE  /\ DOMAIN a = 1..Len(a) /\ Len(a) \in Nat \ {0}
           /\ Head(a) = a[1] /\ 1 \in DOMAIN a
           /\ \A i \in DOMAIN a : /\ a[i] \in Check /\ a[i] \in Range(a)
                                  /\ a[i].subject # Unresolved => a[i] \in Keys
           /\ Origin(a) \in Origins \cup {Unresolved}
           /\ Head(a) \in Check
<1>1. a \in Seq(Check) /\ a # <<>>
  BY LimitConstants
<1>2. DOMAIN a = 1..Len(a) /\ Len(a) \in Nat \ {0} /\ Head(a) = a[1] /\ 1 \in DOMAIN a
  BY <1>1
<1>3. \A i \in DOMAIN a : a[i] \in Check /\ a[i] \in Range(a)
  BY <1>1 DEF Range
<1>. QED
  BY <1>2, <1>3 DEF Keys, Origins

LEMMA KeyType ==
    ASSUME NEW k \in Keys
    PROVE  /\ k \in Check /\ k.policy \in Policies /\ k.subject # Unresolved
           /\ Limit[k.policy] \in Nat \ {0} /\ Window[k.policy] \in Nat \ {0}
<1>1. PICK a \in Attempts : k \in Range(a)
  BY DEF Keys
<1>2. k \in Check
  BY <1>1, AttemptType DEF Range
<1>. QED
  BY <1>2, LimitConstants DEF Check, Keys

-----------------------------------------------------------------------------
(* The store.                                                              *)

\* The counters, and what is observed of them.
StoreOK ==
    /\ buckets \in [Keys -> Counter \cup {None}]
    /\ \A k \in Keys : buckets[k] # None =>
          /\ buckets[k].hits \in 1..(Limit[k.policy] + 1)
          /\ buckets[k].left <= Window[k.policy]
    /\ Cardinality({k \in Keys : buckets[k] # None}) <= MaxBuckets
    /\ recent = [k \in Keys |-> recent[k]]
    /\ \A k \in Keys : recent[k] \in [1..Window[k.policy] -> Nat]
    /\ burnt \in [Later -> [Origins -> 0..BurnCap]]
    /\ TwiceAtMost

LEMMA StorePart == ASSUME RateInv PROVE StoreOK
  BY DEF RateInv, TypeOK, StoreOK

LEMMA BucketType ==
    ASSUME StoreOK, NEW k \in Keys, buckets[k] # None
    PROVE  /\ buckets[k] \in Counter
           /\ buckets[k].hits \in Nat /\ buckets[k].hits >= 1
           /\ buckets[k].hits <= Limit[k.policy] + 1
           /\ buckets[k].left \in Nat /\ buckets[k].left <= Window[k.policy]
  BY KeyType DEF StoreOK, Counter

LEMMA SizeType ==
    ASSUME NEW T \in SUBSET Keys
    PROVE  IsFiniteSet(T) /\ Cardinality(T) \in Nat
  BY LimitConstants, FS_Subset, FS_CardinalityType

\* A full table drops finished counters only.
LEMMA TableKeeps ==
    ASSUME StoreOK, NEW k \in Keys
    PROVE  /\ Table(k) \in [Keys -> Counter \cup {None}]
           /\ \A x \in Keys : Table(k)[x] # buckets[x] =>
                 Table(k)[x] = None /\ buckets[x] # None /\ Finished(buckets[x])
           /\ buckets[k] # None => Table(k) = buckets
           /\ Size(Table(k)) <= MaxBuckets
<1>1. CASE Table(k) = buckets
  BY <1>1 DEF StoreOK, Size
<1>2. CASE Table(k) = Dropped(buckets) /\ buckets[k] = None
  <2>1. /\ Table(k) \in [Keys -> Counter \cup {None}]
        /\ \A x \in Keys : Table(k)[x] # buckets[x] =>
              Table(k)[x] = None /\ buckets[x] # None /\ Finished(buckets[x])
    BY <1>2 DEF Dropped, StoreOK
  <2>2. {x \in Keys : Table(k)[x] # None} \subseteq {x \in Keys : buckets[x] # None}
    BY <2>1
  <2>3. Size(Table(k)) <= Size(buckets)
    BY <2>2, SizeType, FS_Subset DEF Size
  <2>4. Size(buckets) \in Nat /\ Size(Table(k)) \in Nat /\ Size(buckets) <= MaxBuckets
    BY SizeType DEF Size, StoreOK
  <2>. QED
    BY <1>2, <2>1, <2>3, <2>4, LimitConstants
<1>. QED
  BY <1>1, <1>2 DEF Table

\* The counter of a key after a hit.
LEMMA BucketKeeps ==
    ASSUME StoreOK, NEW k \in Keys
    PROVE  /\ Bucket(k) \in Counter /\ Bucket(k) # None
           /\ Bucket(k).hits \in 1..(Limit[k.policy] + 1)
           /\ Bucket(k).left \in 1..Window[k.policy]
           /\ Starts(k) => Bucket(k).hits = 1 /\ Bucket(k).left = Window[k.policy]
           /\ ~Starts(k) => /\ Bucket(k).left = buckets[k].left
                            /\ Bucket(k).hits = IF buckets[k].hits <= Limit[k.policy]
                                                THEN buckets[k].hits + 1 ELSE buckets[k].hits
<1>1. CASE Starts(k)
  <2>1. Bucket(k) = [hits |-> 1, left |-> Window[k.policy]]
    BY <1>1 DEF Bucket
  <2>2. Bucket(k) \in Counter
    BY <2>1, KeyType DEF Counter
  <2>. QED
    BY <1>1, <2>1, <2>2, KeyType, LimitConstants
<1>2. CASE ~Starts(k)
  <2>1. buckets[k] # None /\ buckets[k].left # 0
    BY <1>2 DEF Starts, Finished
  <2>2. Bucket(k) = [hits |-> Min({buckets[k].hits + 1, Limit[k.policy] + 1}),
                     left |-> buckets[k].left]
    BY <1>2 DEF Bucket, Left
  <2>3. Min({buckets[k].hits + 1, Limit[k.policy] + 1}) =
          IF buckets[k].hits <= Limit[k.policy] THEN buckets[k].hits + 1 ELSE buckets[k].hits
    BY <2>1, BucketType, KeyType, MinOfTwo
  <2>4. Bucket(k) \in Counter
    BY <2>1, <2>2, <2>3, BucketType, KeyType DEF Counter
  <2>. QED
    BY SMTT(30), <1>2, <2>1, <2>2, <2>3, <2>4, BucketType, KeyType, LimitConstants
<1>. QED
  BY <1>1, <1>2

LEMMA ChargeType ==
    ASSUME NEW h \in Charge
    PROVE  h.key \in Keys /\ h.origin \in Origins \cup {Unresolved}
  BY DEF Charge

\* What a hit writes, key by key.
LEMMA HitStep ==
    ASSUME StoreOK, NEW h \in Charge, Hit(h)
    PROVE  /\ buckets' \in [Keys -> Counter \cup {None}]
           /\ buckets'[h.key] = Bucket(h.key)
           /\ \A x \in Keys \ {h.key} : buckets'[x] = Table(h.key)[x]
           /\ recent' = [x \in Keys |-> recent'[x]]
           /\ \A x \in Keys : recent'[x] =
                IF x = h.key /\ IsWithin(x, Bucket(x).hits)
                THEN [t \in 1..Window[x.policy] |-> recent[x][t] + 1] ELSE recent[x]
           /\ burnt' \in [Later -> [Origins -> 0..BurnCap]]
           /\ \A x \in Later \ {h.key} : burnt'[x] = burnt[x]
           /\ h.key \in Later => \A o \in Origins :
                burnt'[h.key][o] <= (IF Starts(h.key) THEN 0 ELSE burnt[h.key][o])
                                      + (IF o = h.origin THEN 1 ELSE 0)
<1>. DEFINE k == h.key
<1>1. k \in Keys
  BY ChargeType
<1>2. buckets' = [Table(k) EXCEPT ![k] = Bucket(k)]
  BY DEF Hit
<1>3. /\ buckets' \in [Keys -> Counter \cup {None}]
      /\ buckets'[k] = Bucket(k)
      /\ \A x \in Keys \ {k} : buckets'[x] = Table(k)[x]
  BY <1>1, <1>2, TableKeeps, BucketKeeps
<1>4. /\ recent' = [x \in Keys |-> recent'[x]]
      /\ \A x \in Keys : recent'[x] =
           IF x = k /\ IsWithin(x, Bucket(x).hits)
           THEN [t \in 1..Window[x.policy] |-> recent[x][t] + 1] ELSE recent[x]
  <2>1. recent' = IF IsWithin(k, Bucket(k).hits)
                  THEN [recent EXCEPT ![k] = [t \in DOMAIN @ |-> @[t] + 1]] ELSE recent
    BY DEF Hit
  <2>2. DOMAIN recent = Keys /\ DOMAIN recent[k] = 1..Window[k.policy]
    BY <1>1 DEF StoreOK
  <2>. QED
    BY <1>1, <2>1, <2>2 DEF StoreOK
<1>5. \A o \in Origins : k \in Later =>
        LET n == (IF Starts(k) THEN 0 ELSE burnt[k][o]) + (IF o = h.origin THEN 1 ELSE 0)
        IN  n \in Nat /\ Min({BurnCap, n}) \in 0..BurnCap /\ Min({BurnCap, n}) <= n
  <2>. SUFFICES ASSUME NEW o \in Origins, k \in Later
                PROVE  LET n == (IF Starts(k) THEN 0 ELSE burnt[k][o]) + (IF o = h.origin THEN 1 ELSE 0)
                       IN  n \in Nat /\ Min({BurnCap, n}) \in 0..BurnCap /\ Min({BurnCap, n}) <= n
    OBVIOUS
  <2>. DEFINE n == (IF Starts(k) THEN 0 ELSE burnt[k][o]) + (IF o = h.origin THEN 1 ELSE 0)
  <2>1. n \in Nat
    BY LimitConstants DEF StoreOK
  <2>. HIDE DEF n
  <2>2. Min({BurnCap, n}) = IF BurnCap <= n THEN BurnCap ELSE n
    BY <2>1, LimitConstants, MinOfTwo
  <2>3. Min({BurnCap, n}) \in 0..BurnCap /\ Min({BurnCap, n}) <= n
    BY <2>1, <2>2, LimitConstants
  <2>. QED
    BY <2>1, <2>3 DEF n
<1>6. /\ burnt' \in [Later -> [Origins -> 0..BurnCap]]
      /\ \A x \in Later \ {k} : burnt'[x] = burnt[x]
      /\ k \in Later => \A o \in Origins :
           burnt'[k][o] <= (IF Starts(k) THEN 0 ELSE burnt[k][o]) + (IF o = h.origin THEN 1 ELSE 0)
  <2>1. CASE k \notin Later
    BY <2>1 DEF Hit, StoreOK
  <2>2. CASE k \in Later
    <3>. DEFINE New == [o \in Origins |->
                   Min({BurnCap, (IF Starts(k) THEN 0 ELSE burnt[k][o]) + (IF o = h.origin THEN 1 ELSE 0)})]
    <3>1. burnt' = [burnt EXCEPT ![k] = New]
      BY <2>2 DEF Hit
    <3>2. New \in [Origins -> 0..BurnCap]
      BY <1>5, <2>2
    <3>3. \A o \in Origins :
            New[o] <= (IF Starts(k) THEN 0 ELSE burnt[k][o]) + (IF o = h.origin THEN 1 ELSE 0)
      BY <1>5, <2>2
    <3>. HIDE DEF New
    <3>. QED
      BY <2>2, <3>1, <3>2, <3>3 DEF StoreOK
  <2>. QED
    BY <2>1, <2>2
<1>. QED
  BY <1>3, <1>4, <1>6

LEMMA HitKeeps ==
    ASSUME StoreOK, NEW h \in Charge, ~IsFull(h.key), Hit(h)
    PROVE  StoreOK'
<1>. DEFINE k == h.key
<1>1. k \in Keys
  BY ChargeType
<1>2. \A x \in Keys : buckets'[x] # None =>
          /\ buckets'[x].hits \in 1..(Limit[x.policy] + 1)
          /\ buckets'[x].left <= Window[x.policy]
  <2>1. ASSUME NEW x \in Keys, x # k, buckets'[x] # None
        PROVE  buckets'[x] = buckets[x]
    BY <1>1, <2>1, HitStep, TableKeeps
  <2>2. /\ buckets'[k].hits \in 1..(Limit[k.policy] + 1)
        /\ buckets'[k].left <= Window[k.policy]
    BY <1>1, HitStep, BucketKeeps, KeyType
  <2>. QED
    BY <2>1, <2>2 DEF StoreOK
<1>3. Cardinality({x \in Keys : buckets'[x] # None}) <= MaxBuckets
  <2>. DEFINE S == {x \in Keys : Table(k)[x] # None}
              T == {x \in Keys : buckets'[x] # None}
  <2>1. T = S \cup {k}
    BY <1>1, HitStep, BucketKeeps
  <2>2. IsFiniteSet(S) /\ Cardinality(S) \in Nat /\ Cardinality(S) = Size(Table(k))
    BY SizeType DEF Size
  <2>3. CASE buckets[k] = None
    <3>1. Cardinality(S) < MaxBuckets
      BY <2>2, <2>3, LimitConstants DEF IsFull
    <3>2. Cardinality(T) = Cardinality(S \cup {k})
      BY <2>1, Zenon
    <3>3. k \notin S => Cardinality(S \cup {k}) = Cardinality(S) + 1
      BY <2>2, FS_AddElement
    <3>4. k \in S => S \cup {k} = S
      OBVIOUS
    <3>5. k \in S => Cardinality(S \cup {k}) = Cardinality(S)
      BY <3>4, Zenon
    <3>6. Cardinality(S \cup {k}) = Cardinality(S) + 1 \/ Cardinality(S \cup {k}) = Cardinality(S)
      BY <3>3, <3>5, Zenon
    <3>. QED
      BY <2>2, <3>1, <3>2, <3>6, LimitConstants
  <2>4. CASE buckets[k] # None
    <3>1. T = {x \in Keys : buckets[x] # None}
      BY <1>1, <2>1, <2>4, TableKeeps
    <3>2. Cardinality(T) = Cardinality({x \in Keys : buckets[x] # None})
      BY <3>1, Zenon
    <3>. QED
      BY <3>2 DEF StoreOK
  <2>. QED
    BY <2>3, <2>4
<1>4. \A x \in Keys : recent'[x] \in [1..Window[x.policy] -> Nat]
  <2>. SUFFICES ASSUME NEW x \in Keys
                PROVE  recent'[x] \in [1..Window[x.policy] -> Nat]
    OBVIOUS
  <2>1. recent[x] \in [1..Window[x.policy] -> Nat]
    BY DEF StoreOK
  <2>2. CASE x = k /\ IsWithin(x, Bucket(x).hits)
    <3>1. recent'[x] = [t \in 1..Window[x.policy] |-> recent[x][t] + 1]
      BY <2>2, HitStep
    <3>2. ASSUME NEW t \in 1..Window[x.policy] PROVE recent[x][t] + 1 \in Nat
      <4>1. recent[x][t] \in Nat
        BY <2>1
      <4>. QED
        BY <4>1
    <3>. QED
      BY <3>1, <3>2
  <2>3. CASE ~(x = k /\ IsWithin(x, Bucket(x).hits))
    <3>1. recent'[x] = recent[x]
      BY <2>3, HitStep
    <3>. QED
      BY <2>1, <3>1
  <2>. QED
    BY <2>2, <2>3
<1>5. TwiceAtMost'
  <2>. SUFFICES ASSUME NEW x \in Keys, NEW t \in 1..Window[x.policy]
                PROVE  recent'[x][t] <= Counted(x)' + (IF Reaches(x, t)' THEN Limit[x.policy] ELSE 0)
    BY DEF TwiceAtMost
  <2>. DEFINE L == Limit[x.policy]
              W == Window[x.policy]
  <2>0. /\ L \in Nat \ {0} /\ W \in Nat \ {0} /\ recent[x][t] \in Nat /\ t \in Nat
        /\ recent[x][t] <= Counted(x) + (IF Reaches(x, t) THEN L ELSE 0)
    BY KeyType DEF StoreOK, TwiceAtMost
  <2>1. CASE x # k
    <3>1. recent'[x] = recent[x]
      BY <2>1, HitStep
    <3>2. CASE buckets'[x] = buckets[x]
      BY <2>0, <3>1, <3>2 DEF Counted, Reaches
    <3>3. CASE buckets'[x] # buckets[x]
      <4>1. buckets'[x] = None /\ buckets[x] # None /\ buckets[x].left = 0
        BY <1>1, <2>1, <3>3, HitStep, TableKeeps DEF Finished
      <4>2. Counted(x)' = L /\ ~Reaches(x, t)'
        BY <4>1 DEF Counted, Reaches
      <4>3. ~Reaches(x, t)
        BY <2>0, <4>1 DEF Reaches
      <4>4. Counted(x) = IF buckets[x].hits <= L THEN buckets[x].hits ELSE L
        BY <2>0, <4>1, BucketType, MinOfTwo DEF Counted
      <4>5. buckets[x].hits \in Nat
        BY <4>1, BucketType
      <4>. QED
        BY <2>0, <3>1, <4>2, <4>3, <4>4, <4>5
    <3>. QED
      BY <3>2, <3>3
  <2>2. CASE x = k
    <3>1. buckets'[k] = Bucket(k) /\ Bucket(k) # None /\ Bucket(k).hits \in Nat /\ Bucket(k).left \in Nat
      BY <1>1, HitStep, BucketKeeps DEF Counter
    <3>2. Counted(x)' = IF Bucket(k).hits <= L THEN Bucket(k).hits ELSE L
      BY <2>0, <2>2, <3>1, MinOfTwo DEF Counted
    <3>3. Reaches(x, t)' <=> t > W - Bucket(k).left
      BY <2>2, <3>1 DEF Reaches
    <3>4. recent'[x][t] = IF Bucket(k).hits <= L THEN recent[x][t] + 1 ELSE recent[x][t]
      <4>1. recent'[x] = IF Bucket(k).hits <= L
                         THEN [u \in 1..W |-> recent[x][u] + 1] ELSE recent[x]
        BY <1>1, <2>2, HitStep DEF IsWithin
      <4>. QED
        BY <4>1
    <3>5. CASE Starts(k)
      <4>1. Bucket(k).hits = 1 /\ Bucket(k).left = W
        BY <1>1, <2>2, <3>5, BucketKeeps
      <4>2. recent[x][t] <= L
        <5>1. CASE buckets[x] = None
          BY <2>0, <5>1 DEF Counted, Reaches
        <5>2. CASE buckets[x] # None
          <6>1. buckets[x].left = 0 /\ ~Reaches(x, t)
            BY <2>0, <2>2, <3>5, <5>2 DEF Starts, Finished, Reaches
          <6>2. Counted(x) <= L
            BY <2>0, <5>2, BucketType, MinOfTwo DEF Counted
          <6>3. Counted(x) \in Nat
            BY <2>0, <5>2, BucketType, MinOfTwo DEF Counted
          <6>. QED
            BY <2>0, <6>1, <6>2, <6>3
        <5>. QED
          BY <5>1, <5>2
      <4>. QED
        BY <2>0, <3>2, <3>3, <3>4, <4>1, <4>2
    <3>6. CASE ~Starts(k)
      <4>1. buckets[x] # None /\ Bucket(k).left = buckets[x].left
        BY <1>1, <2>2, <3>6, BucketKeeps DEF Starts
      <4>2. Bucket(k).hits = IF buckets[x].hits <= L THEN buckets[x].hits + 1 ELSE buckets[x].hits
        BY <1>1, <2>2, <3>6, BucketKeeps
      <4>3. Counted(x) = IF buckets[x].hits <= L THEN buckets[x].hits ELSE L
        BY <2>0, <4>1, BucketType, MinOfTwo DEF Counted
      <4>4. Reaches(x, t) <=> Reaches(x, t)'
        BY <3>3, <4>1 DEF Reaches
      <4>5. buckets[x].hits \in Nat /\ buckets[x].hits <= L + 1
        BY <4>1, BucketType
      <4>. QED
        BY <2>0, <3>2, <3>4, <4>2, <4>3, <4>4, <4>5
    <3>. QED
      BY <3>5, <3>6
  <2>. QED
    BY <2>1, <2>2
<1>. QED
  BY <1>2, <1>3, <1>4, <1>5, HitStep DEF StoreOK

\* A counter that is dropped bounds nothing more: its window has ended.
LEMMA DroppedKeeps ==
    ASSUME StoreOK, NEW k \in Keys, buckets' = Table(k), UNCHANGED <<recent, burnt>>
    PROVE  StoreOK'
<1>1. \A x \in Keys : buckets'[x] # None => buckets'[x] = buckets[x]
  BY TableKeeps
<1>2. buckets' \in [Keys -> Counter \cup {None}] /\ Size(buckets)' <= MaxBuckets
  BY TableKeeps DEF Size
<1>3. TwiceAtMost'
  <2>. SUFFICES ASSUME NEW x \in Keys, NEW t \in 1..Window[x.policy]
                PROVE  recent[x][t] <= Counted(x)' + (IF Reaches(x, t)' THEN Limit[x.policy] ELSE 0)
    BY DEF TwiceAtMost
  <2>. DEFINE L == Limit[x.policy]
  <2>1. /\ L \in Nat \ {0} /\ recent[x][t] \in Nat /\ t \in Nat /\ Window[x.policy] \in Nat
        /\ recent[x][t] <= Counted(x) + (IF Reaches(x, t) THEN L ELSE 0)
    BY KeyType DEF StoreOK, TwiceAtMost
  <2>2. CASE buckets'[x] = buckets[x]
    BY <2>1, <2>2 DEF Counted, Reaches
  <2>3. CASE buckets'[x] # buckets[x]
    <3>1. buckets'[x] = None /\ buckets[x] # None /\ buckets[x].left = 0
      BY <2>3, TableKeeps DEF Finished
    <3>2. Counted(x)' = L /\ ~Reaches(x, t)' /\ ~Reaches(x, t)
      BY <2>1, <3>1 DEF Counted, Reaches
    <3>3. Counted(x) = IF buckets[x].hits <= L THEN buckets[x].hits ELSE L
      BY <2>1, <3>1, BucketType, MinOfTwo DEF Counted
    <3>4. buckets[x].hits \in Nat
      BY <3>1, BucketType
    <3>. QED
      BY <2>1, <3>2, <3>3, <3>4
  <2>. QED
    BY <2>2, <2>3
<1>. QED
  BY <1>1, <1>2, <1>3 DEF StoreOK, Size

LEMMA MaxOfTwo ==
    ASSUME NEW x \in Int, NEW y \in Int
    PROVE  Max({x, y}) = IF x >= y THEN x ELSE y
<1>. DEFINE m == IF x >= y THEN x ELSE y
<1>1. m \in {x, y} /\ \A z \in {x, y} : m >= z
  OBVIOUS
<1>2. \A n \in {x, y} : (\A z \in {x, y} : n >= z) => n = m
  BY <1>1
<1>. QED
  BY <1>1, <1>2 DEF Max

\* What time changes of a key.
LEMMA TickStep ==
    ASSUME StoreOK, Tick, NEW x \in Keys
    PROVE  /\ buckets'[x] = None <=> buckets[x] = None
           /\ buckets[x] # None =>
                /\ buckets'[x] \in Counter
                /\ buckets'[x].hits = buckets[x].hits
                /\ buckets'[x].left = IF buckets[x].left = 0 THEN 0 ELSE buckets[x].left - 1
           /\ recent'[x] = [t \in 1..Window[x.policy] |-> IF t = 1 THEN 0 ELSE recent[x][t - 1]]
           /\ recent'[x] \in [1..Window[x.policy] -> Nat]
<1>1. /\ buckets'[x] = None <=> buckets[x] = None
      /\ buckets[x] # None =>
                /\ buckets'[x] \in Counter
                /\ buckets'[x].hits = buckets[x].hits
                /\ buckets'[x].left = IF buckets[x].left = 0 THEN 0 ELSE buckets[x].left - 1
  <2>1. CASE buckets[x] = None
    BY <2>1 DEF Tick
  <2>2. CASE buckets[x] # None
    <3>1. PICK b \in Counter : b = buckets[x]
      BY <2>2, BucketType
    <3>2. b.left \in Nat /\ b.left - 1 \in Int /\ 0 \in Int
      BY DEF Counter
    <3>3. Max({b.left - 1, 0}) = IF b.left - 1 >= 0 THEN b.left - 1 ELSE 0
      BY <3>2, MaxOfTwo
    <3>4. buckets'[x] = [b EXCEPT !.left = Max({b.left - 1, 0})]
      BY <2>2, <3>1 DEF Tick
    <3>5. /\ buckets'[x] \in Counter
          /\ buckets'[x].hits = b.hits
          /\ buckets'[x].left = IF b.left = 0 THEN 0 ELSE b.left - 1
      BY <3>2, <3>3, <3>4 DEF Counter
    <3>. QED
      BY <2>2, <3>1, <3>5, LimitConstants
  <2>. QED
    BY <2>1, <2>2
<1>3. recent'[x] = [t \in 1..Window[x.policy] |-> IF t = 1 THEN 0 ELSE recent[x][t - 1]]
  BY DEF Tick
<1>4. ASSUME NEW t \in 1..Window[x.policy]
      PROVE  (IF t = 1 THEN 0 ELSE recent[x][t - 1]) \in Nat
  <2>1. recent[x] \in [1..Window[x.policy] -> Nat] /\ Window[x.policy] \in Nat
    BY KeyType DEF StoreOK
  <2>2. t # 1 => t - 1 \in 1..Window[x.policy]
    BY <2>1
  <2>. QED
    BY <2>1, <2>2
<1>. QED
  BY <1>1, <1>3, <1>4

LEMMA TickKeeps ==
    ASSUME StoreOK, Tick
    PROVE  StoreOK'
<1>1. \A x \in Keys : buckets'[x] # None =>
          /\ buckets'[x].hits \in 1..(Limit[x.policy] + 1)
          /\ buckets'[x].left <= Window[x.policy]
  <2>. SUFFICES ASSUME NEW x \in Keys, buckets'[x] # None
                PROVE  /\ buckets'[x].hits \in 1..(Limit[x.policy] + 1)
                       /\ buckets'[x].left <= Window[x.policy]
    OBVIOUS
  <2>1. buckets[x] # None
    BY TickStep
  <2>2. /\ buckets[x].hits \in Nat /\ buckets[x].hits >= 1 /\ buckets[x].hits <= Limit[x.policy] + 1
        /\ buckets[x].left \in Nat /\ buckets[x].left <= Window[x.policy]
        /\ Limit[x.policy] \in Nat /\ Window[x.policy] \in Nat
    BY <2>1, BucketType, KeyType
  <2>3. /\ buckets'[x].hits = buckets[x].hits
        /\ buckets'[x].left = IF buckets[x].left = 0 THEN 0 ELSE buckets[x].left - 1
    BY <2>1, TickStep
  <2>. QED
    BY <2>2, <2>3
<1>2. buckets' \in [Keys -> Counter \cup {None}]
  <2>1. \A x \in Keys : buckets'[x] \in Counter \cup {None}
    BY TickStep
  <2>. QED
    BY <2>1 DEF Tick
<1>3. Cardinality({x \in Keys : buckets'[x] # None}) <= MaxBuckets
  <2>1. {x \in Keys : buckets'[x] # None} = {x \in Keys : buckets[x] # None}
    BY TickStep
  <2>. QED
    BY <2>1 DEF StoreOK
<1>4. TwiceAtMost'
  <2>. SUFFICES ASSUME NEW x \in Keys, NEW t \in 1..Window[x.policy]
                PROVE  recent'[x][t] <= Counted(x)' + (IF Reaches(x, t)' THEN Limit[x.policy] ELSE 0)
    BY DEF TwiceAtMost
  <2>. DEFINE L == Limit[x.policy]
              W == Window[x.policy]
  <2>1. L \in Nat \ {0} /\ W \in Nat \ {0} /\ t \in 1..W
    BY KeyType
  <2>2. Counted(x)' = Counted(x) /\ Counted(x) \in Nat
    <3>1. CASE buckets[x] = None
      BY <2>1, <3>1, TickStep DEF Counted
    <3>2. CASE buckets[x] # None
      <4>1. buckets'[x] # None /\ buckets'[x].hits = buckets[x].hits /\ buckets[x].hits \in Nat
        BY <3>2, TickStep, BucketType
      <4>2. Counted(x)' = Counted(x)
        BY <3>2, <4>1 DEF Counted
      <4>3. Counted(x) = IF buckets[x].hits <= L THEN buckets[x].hits ELSE L
        BY <2>1, <3>2, <4>1, MinOfTwo DEF Counted
      <4>. QED
        BY <2>1, <4>1, <4>2, <4>3
    <3>. QED
      BY <3>1, <3>2
  <2>3. CASE t = 1
    <3>1. recent'[x][t] = 0
      BY <2>1, <2>3, TickStep
    <3>. QED
      BY <2>1, <2>2, <3>1
  <2>4. CASE t # 1
    <3>1. recent'[x][t] = recent[x][t - 1] /\ t - 1 \in 1..W
      <4>1. t - 1 \in 1..W
        BY <2>1, <2>4
      <4>2. recent'[x] = [u \in 1..W |-> IF u = 1 THEN 0 ELSE recent[x][u - 1]]
        BY TickStep
      <4>. QED
        BY <2>1, <2>4, <4>1, <4>2
    <3>2. recent[x][t - 1] \in Nat
      BY <3>1 DEF StoreOK
    <3>3. recent[x][t - 1] <= Counted(x) + (IF Reaches(x, t - 1) THEN L ELSE 0)
      BY <3>1 DEF StoreOK, TwiceAtMost
    <3>4. Reaches(x, t)' <=> Reaches(x, t - 1)
      <4>1. CASE buckets[x] = None
        BY <4>1, TickStep DEF Reaches
      <4>2. CASE buckets[x] # None
        <5>1. buckets'[x] # None /\ buckets[x].left \in Nat /\ buckets[x].left <= W
          BY <4>2, TickStep, BucketType
        <5>2. buckets'[x].left = IF buckets[x].left = 0 THEN 0 ELSE buckets[x].left - 1
          BY <4>2, TickStep
        <5>. QED
          BY <2>1, <4>2, <5>1, <5>2 DEF Reaches
      <4>. QED
        BY <4>1, <4>2
    <3>. QED
      BY <2>1, <2>2, <3>1, <3>2, <3>3, <3>4
  <2>. QED
    BY <2>3, <2>4
<1>5. recent' = [x \in Keys |-> recent'[x]]
  BY DEF Tick
<1>6. burnt' \in [Later -> [Origins -> 0..BurnCap]]
  BY DEF Tick, StoreOK
<1>7. \A x \in Keys : recent'[x] \in [1..Window[x.policy] -> Nat]
  BY TickStep
<1>. QED
  BY <1>1, <1>2, <1>3, <1>4, <1>5, <1>6, <1>7 DEF StoreOK

-----------------------------------------------------------------------------
(* The attempts.                                                           *)

\* The checks an attempt is past let it go on.
Cleared(r) ==
    \A i \in DOMAIN r.attempt : i < r.at \/ r.phase = "ahead" =>
        LET k == r.attempt[i]
        IN  \/ k.policy \in r.counted
            \/ k.policy \in IF k.subject = Unresolved THEN Skips ELSE FailsOpen
Fits(r) == /\ r \in Request
           /\ r.at \in DOMAIN r.attempt
           /\ IsComposite(r.attempt)
           /\ Cleared(r)
RequestsOK ==
    /\ req \in [Clients -> Request \cup {None}]
    /\ \A c \in Clients : req[c] # None => Fits(req[c])

LEMMA RequestPart == ASSUME RateInv PROVE RequestsOK
<1>1. req \in [Clients -> Request \cup {None}]
  BY DEF RateInv, TypeOK
<1>2. ASSUME NEW c \in Clients, req[c] # None PROVE Fits(req[c])
  <2>1. req[c] \in Request /\ req[c].at \in DOMAIN req[c].attempt
    BY <1>1, <1>2 DEF RateInv, TypeOK
  <2>2. IsComposite(req[c].attempt)
    BY <1>2 DEF RateInv, AttemptsFit
  <2>3. Cleared(req[c])
    BY <1>2 DEF RateInv, NoFreePass, At, Cleared
  <2>. QED
    BY <2>1, <2>2, <2>3 DEF Fits
<1>. QED
  BY <1>1, <1>2 DEF RequestsOK

LEMMA RequestType ==
    ASSUME NEW r, Fits(r)
    PROVE  /\ r \in Request /\ r # None
           /\ r.attempt \in Attempts /\ r.at \in Nat /\ r.phase \in {"check", "ahead"}
           /\ r.counted \in SUBSET Policies
           /\ r.at \in 1..Len(r.attempt)
           /\ r.attempt[r.at] \in Check
           /\ r.attempt[r.at].policy \in Policies
           /\ r.attempt[r.at].subject # Unresolved => r.attempt[r.at] \in Keys
           /\ r.at = 1 => r.attempt[r.at] = Head(r.attempt)
<1>1. /\ r \in Request /\ r.at \in DOMAIN r.attempt
      /\ r.attempt \in Attempts /\ r.at \in Nat /\ r.phase \in {"check", "ahead"}
      /\ r.counted \in SUBSET Policies
  BY DEF Fits, Request
<1>2. r # None
  BY <1>1, LimitConstants
<1>. QED
  BY <1>1, <1>2, AttemptType DEF Check

\* What a client's request becomes: the others stay as they are.
Becomes(c, q) == req' = [req EXCEPT ![c] = q]

LEMMA BecomesKeeps ==
    ASSUME RequestsOK, NEW c \in Clients, NEW q \in Request \cup {None}, Becomes(c, q),
           q # None => Fits(q)
    PROVE  RequestsOK'
<1>1. req' \in [Clients -> Request \cup {None}]
  BY DEF RequestsOK, Becomes
<1>2. \A d \in Clients : req'[d] # None => Fits(req'[d])
  BY DEF RequestsOK, Becomes
<1>. QED
  BY <1>1, <1>2 DEF RequestsOK

\* The next check of an attempt, or the operation.
GoesOn(r, q) ==
    \/ q = None
    \/ /\ q \in Request /\ q # None
       /\ q.attempt = r.attempt
       /\ q.phase = "ahead" \/ (q.phase = "check" /\ q.at = r.at + 1)

\* A check lets an attempt go on that counted it, or need not.
LEMMA PassStep ==
    ASSUME RequestsOK, NEW c \in Clients, At(c, "check"), NEW seen \in SUBSET Policies,
           \/ Policy(c) \in seen
           \/ Policy(c) \in IF Current(c).subject = Unresolved THEN Skips ELSE FailsOpen,
           req' = Pass(c, seen)
    PROVE  \E q \in Request : Becomes(c, q) /\ GoesOn(req[c], q) /\ q # None /\ Fits(q)
<1>. DEFINE r == req[c]
<1>1. Fits(r) /\ r.phase = "check"
  BY DEF RequestsOK, At
<1>2. /\ r \in Request /\ r.attempt \in Attempts /\ r.at \in Nat /\ r.at \in 1..Len(r.attempt)
      /\ r.counted \in SUBSET Policies
  BY <1>1, RequestType
<1>3. DOMAIN r.attempt = 1..Len(r.attempt) /\ Len(r.attempt) \in Nat
  BY <1>2, AttemptType
<1>4. Current(c) = r.attempt[r.at] /\ Policy(c) = r.attempt[r.at].policy
  BY DEF Current, Policy
<1>5. c \in DOMAIN req
  BY DEF RequestsOK
<1>6. CASE IsLast(c)
  <2>. DEFINE q == [r EXCEPT !.phase = "ahead", !.counted = @ \cup seen]
  <2>1. Becomes(c, q)
    BY <1>5, <1>6 DEF Pass, Becomes
  <2>2. /\ q \in Request
        /\ q.attempt = r.attempt /\ q.at = r.at /\ q.phase = "ahead"
        /\ q.counted = r.counted \cup seen
    BY <1>2 DEF Request
  <2>. HIDE DEF q
  <2>3. Cleared(q)
    <3>. SUFFICES ASSUME NEW i \in 1..Len(r.attempt)
                  PROVE  \/ r.attempt[i].policy \in q.counted
                         \/ r.attempt[i].policy \in
                              IF r.attempt[i].subject = Unresolved THEN Skips ELSE FailsOpen
      BY <1>3, <2>2 DEF Cleared
    <3>1. i < r.at \/ i = r.at
      BY <1>2, <1>6 DEF IsLast
    <3>2. CASE i = r.at
      BY <1>4, <2>2, <3>2
    <3>3. CASE i < r.at
      BY <1>1, <1>3, <2>2, <3>3 DEF Fits, Cleared
    <3>. QED
      BY <3>1, <3>2, <3>3
  <2>4. q # None
    BY <2>2, LimitConstants
  <2>5. Fits(q) /\ GoesOn(r, q)
    BY <1>1, <2>2, <2>3, <2>4 DEF Fits, GoesOn
  <2>. QED
    BY <2>1, <2>2, <2>4, <2>5
<1>7. CASE ~IsLast(c)
  <2>. DEFINE q == [r EXCEPT !.at = @ + 1, !.counted = @ \cup seen]
  <2>1. Becomes(c, q)
    BY <1>5, <1>7 DEF Pass, Becomes
  <2>2. /\ q \in Request
        /\ q.attempt = r.attempt /\ q.at = r.at + 1 /\ q.phase = "check"
        /\ q.counted = r.counted \cup seen
    <3>1. PICK n \in Nat : n = r.at + 1
      BY <1>2
    <3>2. q = [r EXCEPT !.at = n, !.counted = r.counted \cup seen]
      BY <3>1
    <3>. HIDE DEF q
    <3>3. /\ q \in Request
          /\ q.attempt = r.attempt /\ q.at = n /\ q.phase = r.phase
          /\ q.counted = r.counted \cup seen
      BY <1>2, <3>2 DEF Request
    <3>. QED
      BY <1>1, <3>1, <3>3
  <2>. HIDE DEF q
  <2>3. Cleared(q)
    <3>. SUFFICES ASSUME NEW i \in 1..Len(r.attempt), i < r.at + 1
                  PROVE  \/ r.attempt[i].policy \in q.counted
                         \/ r.attempt[i].policy \in
                              IF r.attempt[i].subject = Unresolved THEN Skips ELSE FailsOpen
      BY <1>3, <2>2 DEF Cleared
    <3>1. i < r.at \/ i = r.at
      BY <1>2
    <3>2. CASE i = r.at
      BY <1>4, <2>2, <3>2
    <3>3. CASE i < r.at
      BY <1>1, <1>3, <2>2, <3>3 DEF Fits, Cleared
    <3>. QED
      BY <3>1, <3>2, <3>3
  <2>4. q # None
    BY <2>2, LimitConstants
  <2>5. q.at \in DOMAIN q.attempt
    BY <1>2, <1>3, <1>7, <2>2 DEF IsLast
  <2>6. Fits(q) /\ GoesOn(r, q)
    BY <1>1, <2>2, <2>3, <2>4, <2>5 DEF Fits, GoesOn
  <2>. QED
    BY <2>1, <2>2, <2>4, <2>6
<1>. QED
  BY <1>6, <1>7

-----------------------------------------------------------------------------
(* The hits on their way.                                                  *)

LEMMA Fewer ==
    ASSUME NEW S \in SUBSET Clients, NEW T \in SUBSET S
    PROVE  /\ Cardinality(S) \in Nat /\ Cardinality(T) \in Nat
           /\ Cardinality(T) <= Cardinality(S)
           /\ Cardinality(S) <= Cardinality(Clients) /\ Cardinality(Clients) \in Nat
<1>1. IsFiniteSet(Clients)
  BY LimitConstants
<1>2. IsFiniteSet(S) /\ Cardinality(S) <= Cardinality(Clients)
  BY <1>1, FS_Subset
<1>3. IsFiniteSet(T) /\ Cardinality(T) <= Cardinality(S)
  BY <1>2, FS_Subset
<1>. QED
  BY <1>1, <1>2, <1>3, FS_CardinalityType

LEMMA OneMore ==
    ASSUME NEW S \in SUBSET Clients, NEW c \in Clients, NEW T \in SUBSET (S \cup {c})
    PROVE  Cardinality(T) <= Cardinality(S) + 1
<1>1. IsFiniteSet(S) /\ Cardinality(S) \in Nat
  BY LimitConstants, FS_Subset, FS_CardinalityType
<1>2. Cardinality(T) <= Cardinality(S \cup {c}) /\ Cardinality(T) \in Nat
  BY Fewer
<1>3. CASE c \in S
  BY <1>1, <1>3, Fewer
<1>4. CASE c \notin S
  <2>1. Cardinality(S \cup {c}) = Cardinality(S) + 1
    BY <1>1, <1>4, FS_AddElement
  <2>. QED
    BY <1>2, <2>1
<1>. QED
  BY <1>3, <1>4

LEMMA OneLess ==
    ASSUME NEW S \in SUBSET Clients, NEW c \in S, NEW T \in SUBSET (S \ {c})
    PROVE  Cardinality(T) + 1 <= Cardinality(S)
<1>1. IsFiniteSet(S) /\ Cardinality(S) \in Nat
  BY LimitConstants, FS_Subset, FS_CardinalityType
<1>2. Cardinality(T) <= Cardinality(S \ {c}) /\ Cardinality(T) \in Nat
  BY Fewer
<1>3. Cardinality(S \ {c}) = Cardinality(S) - 1
  BY <1>1, FS_RemoveElement
<1>. QED
  BY <1>1, <1>2, <1>3

LEMMA OnTheWayType ==
    ASSUME NEW k, NEW o
    PROVE  /\ Heading(k, o) \in SUBSET Clients /\ Waiting(k, o) \in SUBSET Clients
           /\ Cardinality(Heading(k, o)) \in Nat /\ Cardinality(Waiting(k, o)) \in Nat
           /\ OnTheWay(k, o) \in Nat
           /\ OnTheWay(k, o) <= 2 * Cardinality(Clients)
           /\ Cardinality(Clients) \in Nat
<1>1. Heading(k, o) \in SUBSET Clients /\ Waiting(k, o) \in SUBSET Clients
  BY DEF Heading, Waiting
<1>2. /\ Cardinality(Heading(k, o)) \in Nat /\ Cardinality(Heading(k, o)) <= Cardinality(Clients)
      /\ Cardinality(Waiting(k, o)) \in Nat /\ Cardinality(Waiting(k, o)) <= Cardinality(Clients)
      /\ Cardinality(Clients) \in Nat
  BY <1>1, Fewer
<1>. QED
  BY <1>1, <1>2 DEF OnTheWay

\* Whether a request will ask for a key, past its first check.
Heads(r, k, o) ==
    /\ r # None /\ r.phase = "check" /\ Origin(r.attempt) = o /\ r.at > 1
    /\ \E i \in DOMAIN r.attempt : i >= r.at /\ r.attempt[i] = k

LEMMA HeadingIs ==
    ASSUME NEW k, NEW o
    PROVE  Heading(k, o) = {c \in Clients : Heads(req[c], k, o)}
  BY DEF Heading, Heads, At

\* An attempt that goes on asks for a key it did not head for only past its first check,
\* and no more for the key it has asked for.
LEMMA HeadingStep ==
    ASSUME RequestsOK, NEW c \in Clients, At(c, "check"), NEW q, Becomes(c, q),
           GoesOn(req[c], q), NEW k \in Later, NEW o \in Origins
    PROVE  /\ Heading(k, o)' \subseteq Heading(k, o) \cup {c}
           /\ c \in Heading(k, o)' => k # Current(c) /\ q # None
           /\ c \in Heading(k, o)' /\ c \notin Heading(k, o) =>
                req[c].at = 1 /\ k \in Range(req[c].attempt) /\ Origin(req[c].attempt) = o
           /\ HitOf(c) = [key |-> k, origin |-> o] => c \in Heading(k, o)
<1>1. PICK r : r = req[c]
  OBVIOUS
<1>2. Fits(r) /\ r.phase = "check" /\ r # None
  BY <1>1 DEF RequestsOK, At
<1>3. /\ r.attempt \in Attempts /\ r.at \in Nat /\ r.at \in 1..Len(r.attempt)
      /\ r.at = 1 => r.attempt[r.at] = Head(r.attempt)
      /\ DOMAIN r.attempt = 1..Len(r.attempt) /\ Len(r.attempt) \in Nat
  BY <1>2, RequestType, AttemptType
<1>4. Current(c) = r.attempt[r.at] /\ HitOf(c) = [key |-> r.attempt[r.at], origin |-> Origin(r.attempt)]
  BY <1>1 DEF Current, HitOf
<1>5. req' = [req EXCEPT ![c] = q] /\ c \in DOMAIN req
  BY DEF Becomes, RequestsOK
<1>6. Heading(k, o)' = {d \in Clients : Heads(req'[d], k, o)}
  BY HeadingIs DEF Heading, Heads, At
<1>7. Heading(k, o)' \subseteq Heading(k, o) \cup {c}
  BY <1>5, <1>6, HeadingIs
<1>8. ASSUME c \in Heading(k, o)' PROVE Heads(q, k, o)
  BY <1>5, <1>6, <1>8
<1>9. ASSUME Heads(q, k, o)
      PROVE  /\ q # None /\ q.at = r.at + 1
             /\ k # r.attempt[r.at]
             /\ Heads(r, k, o) \/ (r.at = 1 /\ k \in Range(r.attempt) /\ Origin(r.attempt) = o)
  <2>1. q # None /\ q.attempt = r.attempt /\ q.at = r.at + 1
    BY <1>1, <1>9 DEF Heads, GoesOn
  <2>2. PICK i \in DOMAIN r.attempt : i >= r.at + 1 /\ r.attempt[i] = k
    BY <1>9, <2>1 DEF Heads
  <2>3. i \in Nat /\ i # r.at /\ i >= r.at
    BY <1>3, <2>2
  <2>4. k # r.attempt[r.at]
    <3>1. IsInjective([j \in DOMAIN r.attempt |-> r.attempt[j].policy])
      BY <1>2 DEF Fits, IsComposite
    <3>2. r.attempt[i].policy # r.attempt[r.at].policy
      BY <1>3, <2>2, <2>3, <3>1 DEF IsInjective
    <3>. QED
      BY <2>2, <3>2
  <2>5. Origin(r.attempt) = o
    BY <1>9, <2>1 DEF Heads
  <2>6. CASE r.at = 1
    BY <2>1, <2>2, <2>4, <2>5, <2>6 DEF Range
  <2>7. CASE r.at > 1
    BY <1>2, <2>1, <2>2, <2>3, <2>4, <2>5, <2>7 DEF Heads
  <2>. QED
    BY <1>3, <2>6, <2>7
<1>10. c \in Heading(k, o)' => k # Current(c) /\ q # None
  BY <1>4, <1>8, <1>9
<1>11. c \in Heading(k, o)' /\ c \notin Heading(k, o) =>
                req[c].at = 1 /\ k \in Range(req[c].attempt) /\ Origin(req[c].attempt) = o
  BY <1>1, <1>8, <1>9, HeadingIs
<1>12. HitOf(c) = [key |-> k, origin |-> o] => c \in Heading(k, o)
  <2>. SUFFICES ASSUME r.attempt[r.at] = k, Origin(r.attempt) = o
                PROVE  Heads(r, k, o)
    BY <1>1, <1>4, HeadingIs
  <2>1. r.at # 1
    BY <1>3 DEF Later
  <2>. QED
    BY <1>2, <1>3, <2>1 DEF Heads
<1>. QED
  BY <1>7, <1>10, <1>11, <1>12

-----------------------------------------------------------------------------
(* What an origin burns of others' budgets.                                *)

\* BurntIsPassed, of one key and one attempt.
BoundHolds(k, a) ==
    buckets[k] # None /\ ~Finished(buckets[k]) =>
        burnt[k][Origin(a)] + OnTheWay(k, Origin(a))
            <= recent[Head(a)][Age(k)] + 2 * Cardinality(Clients)

\* An attempt whose later budget is guarded by its first one.
Guards(k, a) ==
    /\ k \in Later /\ a \in Attempts /\ k \in Range(a)
    /\ Guarded(k) /\ Origin(a) # Unresolved

LEMMA BoundParts == BurntIsPassed <=> \A k, a : Guards(k, a) => BoundHolds(k, a)
  BY DEF BurntIsPassed, BoundHolds, Guards

LEMMA GuardType ==
    ASSUME NEW k, NEW a, Guards(k, a)
    PROVE  /\ k \in Later /\ k \in Keys /\ a \in Attempts
           /\ Head(a) \in Keys /\ Head(a) # k /\ Origin(a) \in Origins
           /\ Head(a).policy \notin FailsOpen
           /\ Window[Head(a).policy] >= Window[k.policy]
           /\ \A b \in Attempts : k \in Range(b) =>
                /\ Head(b).policy \notin FailsOpen
                /\ Origin(b) = Origin(a) => Head(b) = Head(a)
<1>1. k \in Later /\ k \in Keys /\ a \in Attempts /\ Origin(a) # Unresolved
  BY DEF Guards, Later
<1>2. Head(a) # k /\ Origin(a) \in Origins
  BY <1>1 DEF Later, Origins
<1>3. Head(a) \in Keys
  BY <1>1, AttemptType DEF Origin
<1>. QED
  BY <1>1, <1>2, <1>3 DEF Guards, Guarded

\* The age of a running window is a span of its policy's length, and of its guard's.
LEMMA AgeType ==
    ASSUME StoreOK, NEW k, NEW a, Guards(k, a), buckets[k] # None, ~Finished(buckets[k])
    PROVE  /\ Age(k) \in 1..Window[k.policy]
           /\ Age(k) \in 1..Window[Head(a).policy]
           /\ recent[Head(a)][Age(k)] \in Nat
           /\ burnt[k][Origin(a)] \in Nat
<1>1. k \in Keys /\ Head(a) \in Keys /\ Window[Head(a).policy] >= Window[k.policy]
  BY GuardType
<1>2. /\ Window[k.policy] \in Nat /\ Window[Head(a).policy] \in Nat
      /\ buckets[k].left \in Nat /\ buckets[k].left <= Window[k.policy] /\ buckets[k].left # 0
  BY <1>1, KeyType, BucketType DEF Finished
<1>3. Age(k) \in 1..Window[k.policy] /\ Age(k) \in 1..Window[Head(a).policy]
  BY <1>1, <1>2 DEF Age
<1>4. recent[Head(a)] \in [1..Window[Head(a).policy] -> Nat]
  BY <1>1 DEF StoreOK
<1>5. burnt[k] \in [Origins -> 0..BurnCap]
  BY GuardType DEF StoreOK
<1>6. burnt[k][Origin(a)] \in 0..BurnCap
  BY <1>5, GuardType
<1>7. recent[Head(a)][Age(k)] \in Nat
  BY <1>3, <1>4
<1>8. burnt[k][Origin(a)] \in Nat
  BY <1>6, LimitConstants
<1>. QED
  BY <1>3, <1>7, <1>8

\* A step that leaves a running counter alone and sends nothing more.
LEMMA QuietBound ==
    ASSUME StoreOK, NEW k, NEW a, Guards(k, a), BoundHolds(k, a),
           UNCHANGED <<recent, burnt>>,
           buckets'[k] # None /\ ~Finished(buckets'[k]) => buckets'[k] = buckets[k],
           OnTheWay(k, Origin(a))' <= OnTheWay(k, Origin(a)),
           OnTheWay(k, Origin(a))' \in Nat
    PROVE  BoundHolds(k, a)'
<1>. SUFFICES ASSUME buckets'[k] # None, ~Finished(buckets'[k])
              PROVE  burnt[k][Origin(a)] + OnTheWay(k, Origin(a))'
                        <= recent[Head(a)][Age(k)'] + 2 * Cardinality(Clients)
  BY DEF BoundHolds
<1>1. buckets[k] # None /\ ~Finished(buckets[k]) /\ Age(k)' = Age(k)
  BY DEF Age
<1>2. /\ recent[Head(a)][Age(k)] \in Nat /\ burnt[k][Origin(a)] \in Nat
      /\ OnTheWay(k, Origin(a)) \in Nat /\ Cardinality(Clients) \in Nat
  BY <1>1, AgeType, OnTheWayType
<1>3. burnt[k][Origin(a)] + OnTheWay(k, Origin(a))
        <= recent[Head(a)][Age(k)] + 2 * Cardinality(Clients)
  BY <1>1 DEF BoundHolds
<1>. QED
  BY <1>1, <1>2, <1>3

\* A hit is paid for by what was on its way, or counted within the guard's limit.
LEMMA HitBound ==
    ASSUME StoreOK, NEW k, NEW a, Guards(k, a), BoundHolds(k, a),
           NEW h \in Charge, Hit(h),
           NEW m \in Nat, m = OnTheWay(k, Origin(a))', m <= 2 * Cardinality(Clients),
           h = [key |-> k, origin |-> Origin(a)] => m + 1 <= OnTheWay(k, Origin(a)),
           \/ m <= OnTheWay(k, Origin(a))
           \/ /\ m <= OnTheWay(k, Origin(a)) + 1
              /\ h.key = Head(a) /\ IsWithin(h.key, Bucket(h.key).hits)
    PROVE  BoundHolds(k, a)'
<1>. DEFINE o == Origin(a)
            f == Head(a)
            n == OnTheWay(k, o)
            C == Cardinality(Clients)
<1>. SUFFICES ASSUME buckets'[k] # None, ~Finished(buckets'[k])
              PROVE  burnt'[k][o] + m <= recent'[f][Age(k)'] + 2 * C
  BY DEF BoundHolds
<1>1. /\ k \in Later /\ k \in Keys /\ f \in Keys /\ f # k /\ o \in Origins
      /\ h.key \in Keys /\ n \in Nat /\ n <= 2 * C /\ C \in Nat
      /\ Window[f.policy] >= Window[k.policy] /\ Window[f.policy] \in Nat /\ Window[k.policy] \in Nat \ {0}
  BY GuardType, ChargeType, OnTheWayType, KeyType
<1>2. CASE h.key # k
  <2>1. buckets'[k] = buckets[k] /\ burnt'[k] = burnt[k]
    BY <1>1, <1>2, HitStep, TableKeeps
  <2>2. buckets[k] # None /\ ~Finished(buckets[k]) /\ Age(k)' = Age(k)
    BY <2>1 DEF Age
  <2>3. PICK t \in 1..Window[f.policy] : t = Age(k)
    BY <2>2, AgeType
  <2>4. recent[f][t] \in Nat /\ burnt[k][o] \in Nat
    BY <2>2, <2>3, AgeType
  <2>5. burnt[k][o] + n <= recent[f][t] + 2 * C
    BY <2>2, <2>3 DEF BoundHolds
  <2>6. recent'[f] = IF f = h.key /\ IsWithin(f, Bucket(f).hits)
                     THEN [u \in 1..Window[f.policy] |-> recent[f][u] + 1] ELSE recent[f]
    BY <1>1, HitStep
  <2>7. recent'[f][t] = IF f = h.key /\ IsWithin(f, Bucket(f).hits)
                        THEN recent[f][t] + 1 ELSE recent[f][t]
    BY <2>6
  <2>. QED
    BY <1>1, <2>1, <2>2, <2>3, <2>4, <2>5, <2>7
<1>3. CASE h.key = k
  <2>1. buckets'[k] = Bucket(k) /\ recent'[f] = recent[f] /\ m <= n
    BY <1>1, <1>3, HitStep
  <2>2. burnt'[k][o] <= (IF Starts(k) THEN 0 ELSE burnt[k][o]) + (IF o = h.origin THEN 1 ELSE 0)
    BY <1>1, <1>3, HitStep
  <2>3. o = h.origin => m + 1 <= n
    BY <1>3 DEF Charge
  <2>4. burnt'[k][o] \in Nat
    <3>1. burnt' \in [Later -> [Origins -> 0..BurnCap]]
      BY HitStep
    <3>2. burnt'[k][o] \in 0..BurnCap
      BY <1>1, <3>1
    <3>. QED
      BY <3>2, LimitConstants
  <2>5. CASE Starts(k)
    <3>1. buckets'[k].left = Window[k.policy]
      BY <1>1, <2>1, <2>5, BucketKeeps
    <3>2. Age(k)' = 1
      BY <1>1, <3>1 DEF Age
    <3>3. recent[f][1] \in Nat
      <4>1. recent[f] \in [1..Window[f.policy] -> Nat]
        BY <1>1 DEF StoreOK
      <4>2. 1 \in 1..Window[f.policy]
        BY <1>1
      <4>. QED
        BY <4>1, <4>2
    <3>. QED
      BY <1>1, <2>1, <2>2, <2>3, <2>4, <2>5, <3>2, <3>3
  <2>6. CASE ~Starts(k)
    <3>1. buckets[k] # None /\ ~Finished(buckets[k]) /\ buckets'[k].left = buckets[k].left
      BY <1>1, <2>1, <2>6, BucketKeeps DEF Starts
    <3>2. Age(k)' = Age(k)
      BY <3>1 DEF Age
    <3>3. recent[f][Age(k)] \in Nat /\ burnt[k][o] \in Nat
      BY <3>1, AgeType
    <3>4. burnt[k][o] + n <= recent[f][Age(k)] + 2 * C
      BY <3>1 DEF BoundHolds
    <3>. QED
      BY <1>1, <2>1, <2>2, <2>3, <2>4, <2>6, <3>2, <3>3, <3>4
  <2>. QED
    BY <2>5, <2>6
<1>. QED
  BY <1>2, <1>3

\* As time passes, the spans grow with the window.
LEMMA TickBound ==
    ASSUME StoreOK, NEW k, NEW a, Guards(k, a), BoundHolds(k, a), Tick
    PROVE  BoundHolds(k, a)'
<1>. DEFINE o == Origin(a)
            f == Head(a)
            W == Window[f.policy]
<1>. SUFFICES ASSUME buckets'[k] # None, ~Finished(buckets'[k])
              PROVE  burnt'[k][o] + OnTheWay(k, o)' <= recent'[f][Age(k)'] + 2 * Cardinality(Clients)
  BY DEF BoundHolds
<1>1. /\ k \in Keys /\ f \in Keys /\ W \in Nat /\ Window[k.policy] \in Nat
      /\ W >= Window[k.policy]
  BY GuardType, KeyType
<1>2. buckets[k] # None /\ buckets[k].left \in Nat /\ buckets[k].left <= Window[k.policy]
  BY <1>1, TickStep, BucketType
<1>3. buckets'[k].left = IF buckets[k].left = 0 THEN 0 ELSE buckets[k].left - 1
  BY <1>1, <1>2, TickStep
<1>4. ~Finished(buckets[k]) /\ Age(k)' = Age(k) + 1 /\ Age(k)' \in 1..W
  BY <1>1, <1>2, <1>3 DEF Finished, Age
<1>5. Age(k) \in 1..W
  BY <1>2, <1>4, AgeType
<1>6. recent'[f][Age(k)'] = recent[f][Age(k)]
  <2>1. recent'[f] = [t \in 1..W |-> IF t = 1 THEN 0 ELSE recent[f][t - 1]]
    BY <1>1, TickStep
  <2>2. PICK t \in 1..W : t = Age(k)'
    BY <1>4
  <2>3. t # 1 /\ t - 1 = Age(k)
    BY <1>1, <1>4, <1>5, <2>2
  <2>. QED
    BY <2>1, <2>2, <2>3
<1>7. burnt'[k][o] = burnt[k][o] /\ OnTheWay(k, o)' = OnTheWay(k, o)
  BY DEF Tick, OnTheWay, Heading, Waiting, At
<1>. QED
  BY <1>2, <1>4, <1>6, <1>7 DEF BoundHolds

-----------------------------------------------------------------------------
(* The steps of an attempt.                                                *)

LEMMA SentType ==
    ASSUME RequestsOK, NEW c \in Clients, Sent(c)
    PROVE  /\ At(c, "check") /\ Current(c) \in Keys /\ Policy(c) \in Policies
           /\ HitOf(c) \in Charge /\ HitOf(c).key = Current(c)
           /\ Fits(req[c]) /\ req[c].attempt \in Attempts
           /\ req[c].at = 1 => Current(c) = Head(req[c].attempt)
<1>1. At(c, "check") /\ Fits(req[c])
  BY DEF Sent, RequestsOK, At
<1>2. /\ Current(c) \in Keys /\ Policy(c) \in Policies /\ req[c].attempt \in Attempts
      /\ req[c].at = 1 => Current(c) = Head(req[c].attempt)
  BY <1>1, RequestType DEF Sent, Current, Policy
<1>3. HitOf(c) \in Charge
  BY <1>2, AttemptType DEF HitOf, Charge
<1>. QED
  BY <1>1, <1>2, <1>3 DEF HitOf

LEMMA RefuseStep ==
    ASSUME NEW c \in Clients, req' = Refuse(c)
    PROVE  Becomes(c, None) /\ GoesOn(req[c], None)
  BY DEF Refuse, Becomes, GoesOn

\* What a failing store leaves of an attempt.
LEMMA FailedStep ==
    ASSUME RequestsOK, NEW c \in Clients, Sent(c), req' = BackendFailed(c)
    PROVE  \E q \in Request \cup {None} :
              /\ Becomes(c, q) /\ GoesOn(req[c], q)
              /\ q # None => Fits(q) /\ Policy(c) \in FailsOpen
<1>1. CASE Policy(c) \in FailsOpen
  <2>1. req' = Pass(c, {}) /\ At(c, "check") /\ Current(c).subject # Unresolved
    BY <1>1 DEF BackendFailed, Sent
  <2>2. PICK q \in Request : Becomes(c, q) /\ GoesOn(req[c], q) /\ q # None /\ Fits(q)
    BY <1>1, <2>1, PassStep
  <2>. QED
    BY <1>1, <2>2
<1>2. CASE Policy(c) \notin FailsOpen
  BY <1>2, RefuseStep DEF BackendFailed
<1>. QED
  BY <1>1, <1>2

\* A failing store sends no one on to a guarded budget.
LEMMA FailedSendsNothing ==
    ASSUME RequestsOK, NEW k, NEW a, Guards(k, a), NEW c \in Clients, Sent(c),
           NEW q, Becomes(c, q), GoesOn(req[c], q), q # None => Policy(c) \in FailsOpen
    PROVE  /\ Heading(k, Origin(a))' \subseteq Heading(k, Origin(a))
           /\ HitOf(c) = [key |-> k, origin |-> Origin(a)] =>
                c \in Heading(k, Origin(a)) /\ c \notin Heading(k, Origin(a))'
<1>. DEFINE o == Origin(a)
<1>1. k \in Later /\ o \in Origins /\ At(c, "check")
  BY GuardType, SentType
<1>2. /\ Heading(k, o)' \subseteq Heading(k, o) \cup {c}
      /\ c \in Heading(k, o)' => k # Current(c) /\ q # None
      /\ c \in Heading(k, o)' /\ c \notin Heading(k, o) =>
            req[c].at = 1 /\ k \in Range(req[c].attempt)
      /\ HitOf(c) = [key |-> k, origin |-> o] => c \in Heading(k, o)
  BY <1>1, HeadingStep
<1>3. c \in Heading(k, o)' => c \in Heading(k, o)
  <2>. SUFFICES ASSUME c \in Heading(k, o)', c \notin Heading(k, o) PROVE FALSE
    OBVIOUS
  <2>1. Policy(c) = Head(req[c].attempt).policy /\ k \in Range(req[c].attempt)
    BY <1>2, SentType DEF Policy
  <2>2. Head(req[c].attempt).policy \notin FailsOpen
    BY <2>1, SentType, GuardType
  <2>. QED
    BY <1>2, <2>1, <2>2
<1>4. HitOf(c) = [key |-> k, origin |-> o] => k = Current(c)
  BY DEF HitOf
<1>. QED
  BY <1>2, <1>3, <1>4

\* An attempt's own hit, answered or not.
LEMMA OwnHitBound ==
    ASSUME StoreOK, RequestsOK, NEW k, NEW a, Guards(k, a), BoundHolds(k, a),
           NEW c \in Clients, Sent(c), Hit(HitOf(c)), UNCHANGED late,
           NEW q, Becomes(c, q), GoesOn(req[c], q),
           q # None => \/ IsWithin(Current(c), Bucket(Current(c)).hits)
                       \/ Policy(c) \in FailsOpen
    PROVE  BoundHolds(k, a)'
<1>. DEFINE o == Origin(a)
            H == Heading(k, o)
            W == Waiting(k, o)
<1>1. k \in Later /\ o \in Origins /\ At(c, "check") /\ HitOf(c) \in Charge
  BY GuardType, SentType
<1>2. /\ H' \subseteq H \cup {c}
      /\ c \in H' => k # Current(c) /\ q # None
      /\ c \in H' /\ c \notin H =>
            req[c].at = 1 /\ k \in Range(req[c].attempt) /\ Origin(req[c].attempt) = o
      /\ HitOf(c) = [key |-> k, origin |-> o] => c \in H
  BY <1>1, HeadingStep
<1>3. W' = W
  BY DEF Waiting
<1>4. /\ H \in SUBSET Clients /\ Cardinality(H) \in Nat /\ Cardinality(W) \in Nat
      /\ OnTheWay(k, o) = Cardinality(H) + Cardinality(W)
  BY OnTheWayType DEF OnTheWay
<1>5. H' \in SUBSET Clients /\ OnTheWay(k, o)' = Cardinality(H') + Cardinality(W)
  BY <1>2, <1>3, <1>4 DEF OnTheWay
<1>6. PICK m \in Nat : m = OnTheWay(k, o)' /\ m <= 2 * Cardinality(Clients)
  <2>1. /\ Cardinality(H') \in Nat /\ Cardinality(H') <= Cardinality(Clients)
        /\ Cardinality(W) <= Cardinality(Clients) /\ Cardinality(Clients) \in Nat
    BY <1>5, OnTheWayType, Fewer
  <2>. QED
    BY <1>4, <1>5, <2>1
<1>7. HitOf(c) = [key |-> k, origin |-> o] => m + 1 <= OnTheWay(k, o)
  <2>. SUFFICES ASSUME HitOf(c) = [key |-> k, origin |-> o]
                PROVE  m + 1 <= OnTheWay(k, o)
    OBVIOUS
  <2>1. k = Current(c)
    BY DEF HitOf
  <2>2. c \in H /\ H' \in SUBSET (H \ {c})
    BY <1>2, <2>1
  <2>3. Cardinality(H') + 1 <= Cardinality(H) /\ Cardinality(H') \in Nat
    BY <1>4, <1>5, <2>2, OneLess, Fewer
  <2>. QED
    BY <1>4, <1>5, <1>6, <2>3
<1>8. \/ m <= OnTheWay(k, o)
      \/ /\ m <= OnTheWay(k, o) + 1
         /\ HitOf(c).key = Head(a) /\ IsWithin(HitOf(c).key, Bucket(HitOf(c).key).hits)
  <2>1. CASE c \in H' => c \in H
    <3>1. H' \in SUBSET H
      BY <1>2, <2>1
    <3>2. Cardinality(H') <= Cardinality(H) /\ Cardinality(H') \in Nat
      BY <1>4, <3>1, Fewer
    <3>. QED
      BY <1>4, <1>5, <1>6, <3>2
  <2>2. CASE c \in H' /\ c \notin H
    <3>1. Cardinality(H') <= Cardinality(H) + 1 /\ Cardinality(H') \in Nat
      BY <1>2, <1>4, <1>5, OneMore, Fewer
    <3>2. /\ req[c].attempt \in Attempts /\ k \in Range(req[c].attempt)
          /\ Origin(req[c].attempt) = o /\ Current(c) = Head(req[c].attempt)
      BY <1>2, <2>2, SentType
    <3>3. Head(req[c].attempt) = Head(a) /\ Policy(c) \notin FailsOpen
      BY <3>2, GuardType DEF Policy
    <3>4. HitOf(c).key = Head(a) /\ IsWithin(HitOf(c).key, Bucket(HitOf(c).key).hits)
      BY <1>2, <2>2, <3>2, <3>3, SentType
    <3>. QED
      BY <1>4, <1>5, <1>6, <3>1, <3>4
  <2>. QED
    BY <2>1, <2>2
<1>. QED
  BY <1>1, <1>6, <1>7, <1>8, HitBound

-----------------------------------------------------------------------------
(* The inductive invariant.                                                *)

LateOK == late \in [Clients -> Charge \cup {None}] /\ refused \subseteq Keys
Parts  == StoreOK /\ RequestsOK /\ LateOK /\ \A k, a : Guards(k, a) => BoundHolds(k, a)

LEMMA RateParts == ASSUME RateInv PROVE Parts
<1>1. LateOK /\ BurntIsPassed
  BY DEF RateInv, TypeOK, LateOK
<1>. QED
  BY <1>1, StorePart, RequestPart, BoundParts DEF Parts

LEMMA RateJoin == ASSUME Parts PROVE RateInv
<1>1. TypeOK
  BY DEF Parts, TypeOK, StoreOK, RequestsOK, LateOK, Fits
<1>2. AttemptsFit /\ NoFreePass
  BY DEF Parts, RequestsOK, Fits, Cleared, AttemptsFit, NoFreePass, At
<1>3. TwiceAtMost /\ BurntIsPassed
  BY BoundParts DEF Parts, StoreOK
<1>. QED
  BY <1>1, <1>2, <1>3 DEF RateInv

LEMMA RateInit == ASSUME Init PROVE RateInv
<1>1. StoreOK
  <2>1. {k \in Keys : buckets[k] # None} = {}
    BY DEF Init
  <2>2. Cardinality({k \in Keys : buckets[k] # None}) = 0
    BY <2>1, FS_EmptySet
  <2>3. \A k \in Keys : recent[k] = [t \in 1..Window[k.policy] |-> 0] /\ buckets[k] = None
    BY DEF Init
  <2>4. TwiceAtMost
    <3>1. \A k \in Keys : Counted(k) = Limit[k.policy] /\ Limit[k.policy] \in Nat
      BY <2>3, KeyType DEF Counted
    <3>2. \A k \in Keys : \A t \in 1..Window[k.policy] : recent[k][t] = 0 /\ ~Reaches(k, t)
      BY <2>3 DEF Reaches
    <3>. QED
      BY <3>1, <3>2 DEF TwiceAtMost
  <2>5. recent = [k \in Keys |-> recent[k]] /\ buckets \in [Keys -> Counter \cup {None}]
    BY DEF Init
  <2>6. burnt \in [Later -> [Origins -> 0..BurnCap]]
    BY LimitConstants DEF Init
  <2>. QED
    BY <2>2, <2>3, <2>4, <2>5, <2>6, LimitConstants DEF StoreOK
<1>2. RequestsOK /\ LateOK
  BY DEF Init, RequestsOK, LateOK
<1>3. \A k, a : Guards(k, a) => BoundHolds(k, a)
  BY GuardType DEF Init, BoundHolds
<1>. QED
  BY <1>1, <1>2, <1>3, RateJoin DEF Parts

LEMMA StoreSame ==
    ASSUME StoreOK, UNCHANGED <<buckets, recent, burnt>>
    PROVE  StoreOK'
  BY DEF StoreOK, TwiceAtMost, Counted, Reaches

\* A client's step that touches no counter.
LEMMA QuietStep ==
    ASSUME Parts, UNCHANGED <<buckets, recent, burnt>>, RequestsOK', LateOK',
           \A k, a : Guards(k, a) => OnTheWay(k, Origin(a))' <= OnTheWay(k, Origin(a))
    PROVE  Parts'
<1>1. StoreOK'
  BY StoreSame DEF Parts
<1>2. ASSUME NEW k, NEW a, Guards(k, a) PROVE BoundHolds(k, a)'
  <2>1. OnTheWay(k, Origin(a))' \in Nat
    <3>1. (Heading(k, Origin(a)) \in SUBSET Clients /\ Waiting(k, Origin(a)) \in SUBSET Clients)'
      BY DEF Heading, Waiting
    <3>2. Cardinality(Heading(k, Origin(a)))' \in Nat /\ Cardinality(Waiting(k, Origin(a)))' \in Nat
      BY <3>1, Fewer
    <3>. QED
      BY <3>2 DEF OnTheWay
  <2>. QED
    BY <1>2, <2>1, QuietBound DEF Parts
<1>. QED
  BY <1>1, <1>2 DEF Parts

\* Fewer attempts head for a key.
LEMMA FewerOnTheWay ==
    ASSUME NEW k, NEW o, Heading(k, o)' \subseteq Heading(k, o), Waiting(k, o)' \subseteq Waiting(k, o)
    PROVE  OnTheWay(k, o)' <= OnTheWay(k, o) /\ OnTheWay(k, o)' \in Nat
<1>1. /\ Cardinality(Heading(k, o)') \in Nat /\ Cardinality(Waiting(k, o)') \in Nat
      /\ Cardinality(Heading(k, o)') <= Cardinality(Heading(k, o))
      /\ Cardinality(Waiting(k, o)') <= Cardinality(Waiting(k, o))
  BY OnTheWayType, Fewer
<1>. QED
  BY <1>1, OnTheWayType DEF OnTheWay

LEMMA BeginKeeps ==
    ASSUME Parts, NEW c \in Clients, NEW a \in Attempts, Begin(c, a)
    PROVE  Parts'
<1>. DEFINE q == [attempt |-> a, at |-> 1, phase |-> "check", counted |-> {}]
<1>1. q \in Request /\ q.at \in DOMAIN q.attempt /\ IsComposite(q.attempt)
  BY AttemptType DEF Request, Begin
<1>2. Cleared(q)
  BY AttemptType DEF Cleared
<1>3. Becomes(c, q) /\ UNCHANGED <<buckets, late, recent, burnt, refused>>
  BY DEF Begin, Becomes
<1>4. RequestsOK'
  BY <1>1, <1>2, <1>3, BecomesKeeps DEF Parts, Fits
<1>5. ASSUME NEW k, NEW b, Guards(k, b)
      PROVE  OnTheWay(k, Origin(b))' <= OnTheWay(k, Origin(b))
  <2>1. Heading(k, Origin(b))' \subseteq Heading(k, Origin(b))
    <3>1. req'[c].at = 1 /\ \A d \in Clients \ {c} : req'[d] = req[d]
      BY <1>3 DEF Becomes, Parts, RequestsOK
    <3>. QED
      BY <3>1 DEF Heading, At
  <2>2. Waiting(k, Origin(b))' = Waiting(k, Origin(b))
    BY <1>3 DEF Waiting
  <2>. QED
    BY <2>1, <2>2, FewerOnTheWay
<1>. QED
  BY <1>3, <1>4, <1>5, QuietStep DEF Parts, LateOK

LEMMA SkipKeeps ==
    ASSUME Parts, NEW c \in Clients, SkipUnresolved(c)
    PROVE  Parts'
<1>1. /\ RequestsOK /\ At(c, "check") /\ Current(c).subject = Unresolved /\ Fits(req[c])
      /\ UNCHANGED <<buckets, late, recent, burnt, refused>>
  BY DEF SkipUnresolved, Parts, RequestsOK, At
<1>2. PICK q \in Request \cup {None} :
         Becomes(c, q) /\ GoesOn(req[c], q) /\ (q # None => Fits(q))
  <2>1. CASE Policy(c) \in Skips
    <3>1. req' = Pass(c, {})
      BY <2>1 DEF SkipUnresolved
    <3>. QED
      BY <1>1, <2>1, <3>1, PassStep
  <2>2. CASE Policy(c) \notin Skips
    BY <2>2, RefuseStep DEF SkipUnresolved
  <2>. QED
    BY <2>1, <2>2
<1>3. RequestsOK'
  BY <1>1, <1>2, BecomesKeeps
<1>4. ASSUME NEW k, NEW b, Guards(k, b)
      PROVE  OnTheWay(k, Origin(b))' <= OnTheWay(k, Origin(b))
  <2>1. /\ Heading(k, Origin(b))' \subseteq Heading(k, Origin(b)) \cup {c}
        /\ c \in Heading(k, Origin(b))' /\ c \notin Heading(k, Origin(b)) =>
              req[c].at = 1 /\ Origin(req[c].attempt) = Origin(b)
    BY <1>1, <1>2, <1>4, HeadingStep, GuardType
  <2>2. req[c].at = 1 => Origin(req[c].attempt) = Unresolved
    BY <1>1, RequestType DEF Origin, Current
  <2>3. Origin(b) # Unresolved
    BY <1>4 DEF Guards
  <2>4. Heading(k, Origin(b))' \subseteq Heading(k, Origin(b))
    BY <2>1, <2>2, <2>3
  <2>5. Waiting(k, Origin(b))' = Waiting(k, Origin(b))
    BY <1>1 DEF Waiting
  <2>. QED
    BY <2>4, <2>5, FewerOnTheWay
<1>. QED
  BY <1>1, <1>3, <1>4, QuietStep DEF Parts, LateOK

LEMMA FinishKeeps ==
    ASSUME Parts, NEW c \in Clients, Finish(c)
    PROVE  Parts'
<1>1. Becomes(c, None) /\ UNCHANGED <<buckets, late, recent, burnt, refused>>
  BY DEF Finish, Becomes
<1>2. RequestsOK'
  BY <1>1, BecomesKeeps DEF Parts
<1>3. ASSUME NEW k, NEW b, Guards(k, b)
      PROVE  OnTheWay(k, Origin(b))' <= OnTheWay(k, Origin(b))
  <2>1. Heading(k, Origin(b))' \subseteq Heading(k, Origin(b))
    BY <1>1 DEF Becomes, Parts, RequestsOK, Heading, At
  <2>2. Waiting(k, Origin(b))' = Waiting(k, Origin(b))
    BY <1>1 DEF Waiting
  <2>. QED
    BY <2>1, <2>2, FewerOnTheWay
<1>. QED
  BY <1>1, <1>2, <1>3, QuietStep DEF Parts, LateOK

LEMMA LoseKeeps ==
    ASSUME Parts, NEW c \in Clients, LoseLate(c)
    PROVE  Parts'
<1>1. late' = [late EXCEPT ![c] = None] /\ UNCHANGED <<buckets, req, recent, burnt, refused>>
  BY DEF LoseLate
<1>2. RequestsOK' /\ LateOK'
  BY <1>1 DEF Parts, RequestsOK, LateOK
<1>3. ASSUME NEW k, NEW b, Guards(k, b)
      PROVE  OnTheWay(k, Origin(b))' <= OnTheWay(k, Origin(b))
  <2>1. Heading(k, Origin(b))' = Heading(k, Origin(b))
    BY <1>1 DEF Heading, At
  <2>2. [key |-> k, origin |-> Origin(b)] # None
    BY <1>3, GuardType, LimitConstants DEF Charge
  <2>3. Waiting(k, Origin(b))' \subseteq Waiting(k, Origin(b))
    BY <1>1, <2>2 DEF Waiting, Parts, LateOK
  <2>. QED
    BY <2>1, <2>3, FewerOnTheWay
<1>. QED
  BY <1>1, <1>2, <1>3, QuietStep

\* A hit that a request sends, and what becomes of the request.
LEMMA OwnHitKeeps ==
    ASSUME Parts, NEW c \in Clients, Sent(c), ~IsFull(Current(c)), Hit(HitOf(c)),
           UNCHANGED late, refused' \subseteq Keys,
           NEW q \in Request \cup {None}, Becomes(c, q), GoesOn(req[c], q),
           q # None => Fits(q),
           q # None => \/ IsWithin(Current(c), Bucket(Current(c)).hits)
                       \/ Policy(c) \in FailsOpen
    PROVE  Parts'
<1>1. RequestsOK'
  BY BecomesKeeps DEF Parts
<1>2. StoreOK'
  BY SentType, HitKeeps DEF Parts
<1>3. LateOK'
  BY DEF Parts, LateOK
<1>4. \A k, a : Guards(k, a) => BoundHolds(k, a)'
  BY OwnHitBound DEF Parts
<1>. QED
  BY <1>1, <1>2, <1>3, <1>4 DEF Parts

LEMMA CheckKeeps ==
    ASSUME Parts, NEW c \in Clients, CheckBudget(c)
    PROVE  Parts'
<1>1. /\ Sent(c) /\ ~IsFull(Current(c)) /\ Hit(HitOf(c)) /\ UNCHANGED late
      /\ At(c, "check") /\ Current(c) \in Keys /\ Policy(c) \in Policies
  BY SentType DEF CheckBudget, Parts
<1>2. refused' \subseteq Keys
  BY <1>1 DEF CheckBudget, Parts, LateOK
<1>3. CASE IsWithin(Current(c), Bucket(Current(c)).hits)
  <2>1. req' = Pass(c, {Policy(c)})
    BY <1>3 DEF CheckBudget
  <2>2. PICK q \in Request : Becomes(c, q) /\ GoesOn(req[c], q) /\ q # None /\ Fits(q)
    BY <1>1, <2>1, PassStep DEF Parts
  <2>. QED
    BY <1>1, <1>2, <1>3, <2>2, OwnHitKeeps
<1>4. CASE ~IsWithin(Current(c), Bucket(Current(c)).hits)
  <2>1. req' = Refuse(c)
    BY <1>4 DEF CheckBudget, Denied
  <2>2. Becomes(c, None) /\ GoesOn(req[c], None)
    BY <2>1, RefuseStep
  <2>. QED
    BY <1>1, <1>2, <2>2, OwnHitKeeps
<1>. QED
  BY <1>3, <1>4

LEMMA RejectKeeps ==
    ASSUME Parts, NEW c \in Clients, RejectHit(c)
    PROVE  Parts'
<1>1. /\ Sent(c) /\ buckets' = Table(Current(c)) /\ req' = BackendFailed(c)
      /\ UNCHANGED <<late, recent, burnt, refused>>
      /\ Current(c) \in Keys /\ StoreOK /\ RequestsOK
  BY SentType DEF RejectHit, Parts
<1>2. PICK q \in Request \cup {None} :
         /\ Becomes(c, q) /\ GoesOn(req[c], q)
         /\ q # None => Fits(q) /\ Policy(c) \in FailsOpen
  BY <1>1, FailedStep
<1>3. RequestsOK' /\ StoreOK' /\ LateOK'
  BY <1>1, <1>2, BecomesKeeps, DroppedKeeps DEF Parts, LateOK
<1>4. ASSUME NEW k, NEW b, Guards(k, b) PROVE BoundHolds(k, b)'
  <2>1. Heading(k, Origin(b))' \subseteq Heading(k, Origin(b))
    BY <1>1, <1>2, <1>4, FailedSendsNothing
  <2>2. Waiting(k, Origin(b))' = Waiting(k, Origin(b))
    BY <1>1 DEF Waiting
  <2>3. OnTheWay(k, Origin(b))' <= OnTheWay(k, Origin(b)) /\ OnTheWay(k, Origin(b))' \in Nat
    BY <2>1, <2>2, FewerOnTheWay
  <2>4. buckets'[k] # None => buckets'[k] = buckets[k]
    BY <1>1, <1>4, GuardType, TableKeeps
  <2>. QED
    BY <1>1, <1>4, <2>3, <2>4, QuietBound DEF Parts
<1>. QED
  BY <1>3, <1>4 DEF Parts

LEMMA GiveUpKeeps ==
    ASSUME Parts, NEW c \in Clients, GiveUp(c)
    PROVE  Parts'
<1>1. /\ Sent(c) /\ req' = BackendFailed(c) /\ UNCHANGED refused
      /\ Current(c) \in Keys /\ HitOf(c) \in Charge /\ StoreOK /\ RequestsOK /\ LateOK
  BY SentType DEF GiveUp, Parts
<1>2. PICK q \in Request \cup {None} :
         /\ Becomes(c, q) /\ GoesOn(req[c], q)
         /\ q # None => Fits(q) /\ Policy(c) \in FailsOpen
  BY <1>1, FailedStep
<1>3. CASE ~IsFull(Current(c)) /\ Hit(HitOf(c)) /\ UNCHANGED late
  BY <1>1, <1>2, <1>3, OwnHitKeeps DEF LateOK
<1>4. CASE late' = [late EXCEPT ![c] = HitOf(c)] /\ UNCHANGED <<buckets, recent, burnt>>
  <2>1. RequestsOK' /\ LateOK'
    BY <1>1, <1>2, <1>4, BecomesKeeps DEF LateOK
  <2>2. ASSUME NEW k, NEW b, Guards(k, b)
        PROVE  OnTheWay(k, Origin(b))' <= OnTheWay(k, Origin(b))
    <3>. DEFINE H == Heading(k, Origin(b))
                W == Waiting(k, Origin(b))
    <3>1. /\ H' \subseteq H
          /\ HitOf(c) = [key |-> k, origin |-> Origin(b)] => c \in H /\ c \notin H'
      BY <1>1, <1>2, <2>2, FailedSendsNothing
    <3>2. CASE HitOf(c) = [key |-> k, origin |-> Origin(b)]
      <4>1. c \in H /\ H' \in SUBSET (H \ {c})
        BY <3>1, <3>2
      <4>2. Cardinality(H') + 1 <= Cardinality(H) /\ Cardinality(H') \in Nat
        BY <4>1, OnTheWayType, OneLess, Fewer
      <4>3. W' \in SUBSET (W \cup {c})
        BY <1>1, <1>4 DEF LateOK, Waiting
      <4>4. Cardinality(W') <= Cardinality(W) + 1 /\ Cardinality(W') \in Nat
        BY <4>3, OnTheWayType, OneMore, Fewer
      <4>. QED
        BY <4>2, <4>4, OnTheWayType DEF OnTheWay
    <3>3. CASE HitOf(c) # [key |-> k, origin |-> Origin(b)]
      <4>1. W' \subseteq W
        BY <1>1, <1>4, <3>3 DEF LateOK, Waiting
      <4>. QED
        BY <3>1, <4>1, FewerOnTheWay
    <3>. QED
      BY <3>2, <3>3
  <2>. QED
    BY <1>4, <2>1, <2>2, QuietStep
<1>. QED
  BY <1>3, <1>4 DEF GiveUp

LEMMA LateKeeps ==
    ASSUME Parts, NEW c \in Clients, CountLate(c)
    PROVE  Parts'
<1>1. /\ late[c] \in Charge /\ ~IsFull(late[c].key) /\ Hit(late[c])
      /\ late' = [late EXCEPT ![c] = None] /\ UNCHANGED <<req, refused>>
      /\ StoreOK /\ RequestsOK /\ LateOK
  BY DEF CountLate, Parts, LateOK
<1>2. StoreOK' /\ RequestsOK' /\ LateOK'
  BY <1>1, HitKeeps DEF RequestsOK, LateOK
<1>3. ASSUME NEW k, NEW b, Guards(k, b) PROVE BoundHolds(k, b)'
  <2>. DEFINE o == Origin(b)
              H == Heading(k, o)
              W == Waiting(k, o)
  <2>1. H' = H
    BY <1>1 DEF Heading, At
  <2>2. W' \subseteq W /\ (late[c] = [key |-> k, origin |-> o] => c \in W /\ c \notin W')
    <3>1. [key |-> k, origin |-> o] # None
      BY <1>3, GuardType, LimitConstants DEF Charge
    <3>. QED
      BY <1>1, <3>1 DEF Waiting, LateOK
  <2>3. /\ Cardinality(W') <= Cardinality(W) /\ Cardinality(W') \in Nat
        /\ late[c] = [key |-> k, origin |-> o] => Cardinality(W') + 1 <= Cardinality(W)
    BY <2>2, OnTheWayType, Fewer, OneLess
  <2>4. OnTheWay(k, o)' = Cardinality(H) + Cardinality(W')
    BY <2>1 DEF OnTheWay
  <2>5. /\ OnTheWay(k, o) = Cardinality(H) + Cardinality(W)
        /\ Cardinality(H) \in Nat /\ Cardinality(W) \in Nat
        /\ OnTheWay(k, o) <= 2 * Cardinality(Clients) /\ Cardinality(Clients) \in Nat
    BY OnTheWayType DEF OnTheWay
  <2>6. PICK m \in Nat : m = OnTheWay(k, o)'
    BY <2>3, <2>4, <2>5
  <2>7. /\ m <= OnTheWay(k, o) /\ m <= 2 * Cardinality(Clients)
        /\ late[c] = [key |-> k, origin |-> o] => m + 1 <= OnTheWay(k, o)
    BY <2>3, <2>4, <2>5, <2>6
  <2>. QED
    BY <1>1, <1>3, <2>6, <2>7, HitBound DEF Parts
<1>. QED
  BY <1>2, <1>3 DEF Parts

LEMMA TickKeepsParts ==
    ASSUME Parts, Tick
    PROVE  Parts'
<1>1. StoreOK' /\ RequestsOK' /\ LateOK'
  BY TickKeeps DEF Parts, RequestsOK, LateOK, Tick
<1>2. \A k, a : Guards(k, a) => BoundHolds(k, a)'
  BY TickBound DEF Parts
<1>. QED
  BY <1>1, <1>2 DEF Parts

LEMMA RateStep == ASSUME Parts, [Next]_vars PROVE Parts'
<1>1. CASE Tick
  BY <1>1, TickKeepsParts
<1>2. ASSUME NEW c \in Clients, NEW a \in Attempts, Begin(c, a) PROVE Parts'
  BY <1>2, BeginKeeps
<1>3. ASSUME NEW c \in Clients, Works(c) PROVE Parts'
  BY <1>3, SkipKeeps, CheckKeeps, RejectKeeps, FinishKeeps DEF Works
<1>4. ASSUME NEW c \in Clients, GiveUp(c) \/ CountLate(c) \/ LoseLate(c) PROVE Parts'
  BY <1>4, GiveUpKeeps, LateKeeps, LoseKeeps
<1>5. CASE UNCHANGED vars
  <2>1. StoreOK' /\ RequestsOK' /\ LateOK'
    BY <1>5, StoreSame DEF vars, Parts, RequestsOK, LateOK
  <2>2. \A k, a : BoundHolds(k, a) => BoundHolds(k, a)'
    BY <1>5 DEF vars, BoundHolds, OnTheWay, Heading, Waiting, At, Age
  <2>. QED
    BY <2>1, <2>2 DEF Parts
<1>. QED
  BY <1>1, <1>2, <1>3, <1>4, <1>5 DEF Next

-----------------------------------------------------------------------------
(* The theorems.                                                           *)

\* The counters are well typed and within the table, no span of a window's length lets
\* through more than twice the limit, and no attempt goes ahead past a budget that neither
\* counted it nor fails open: for every mix of policies (createRateLimiter, checkAll).
THEOREM RateAlwaysHolds == Spec => []RateInv
<1>1. Init => RateInv
  BY RateInit
<1>2. RateInv /\ [Next]_vars => RateInv'
  <2>. SUFFICES ASSUME RateInv, [Next]_vars PROVE RateInv'
    OBVIOUS
  <2>1. Parts'
    BY RateParts, RateStep
  <2>2. Parts' => RateInv'
    BY RateJoin, PTL
  <2>. QED
    BY <2>1, <2>2
<1>. QED
  BY <1>1, <1>2, PTL DEF Spec

\* What a span lets through, in whole.
LEMMA TwiceTheLimit ==
    ASSUME StoreOK, NEW k \in Keys, NEW t \in 1..Window[k.policy]
    PROVE  recent[k][t] <= 2 * Limit[k.policy] /\ recent[k][t] \in Nat
<1>. DEFINE L == Limit[k.policy]
<1>1. /\ L \in Nat /\ recent[k][t] <= Counted(k) + (IF Reaches(k, t) THEN L ELSE 0)
      /\ recent[k][t] \in Nat
  BY KeyType DEF StoreOK, TwiceAtMost
<1>2. Counted(k) <= L /\ Counted(k) \in Nat
  <2>1. CASE buckets[k] = None
    BY <1>1, <2>1 DEF Counted
  <2>2. CASE buckets[k] # None
    <3>1. buckets[k].hits \in Nat
      BY <2>2, BucketType
    <3>2. Counted(k) = IF buckets[k].hits <= L THEN buckets[k].hits ELSE L
      BY <1>1, <2>2, <3>1, MinOfTwo DEF Counted
    <3>. QED
      BY <1>1, <3>1, <3>2
  <2>. QED
    BY <2>1, <2>2
<1>. QED
  BY <1>1, <1>2

\* While its window runs, a guarded budget is charged no more than the bound.
RunningBounded ==
    \A k, a : Guards(k, a) /\ buckets[k] # None /\ ~Finished(buckets[k]) =>
        burnt[k][Origin(a)] <= 2 * Limit[Head(a).policy] + 2 * Cardinality(Clients)

LEMMA RunningBudget == ASSUME Parts PROVE RunningBounded
<1>. SUFFICES ASSUME NEW k, NEW a, Guards(k, a), buckets[k] # None, ~Finished(buckets[k])
              PROVE  burnt[k][Origin(a)] <= 2 * Limit[Head(a).policy] + 2 * Cardinality(Clients)
  BY DEF RunningBounded
<1>1. burnt[k][Origin(a)] + OnTheWay(k, Origin(a))
        <= recent[Head(a)][Age(k)] + 2 * Cardinality(Clients)
  BY DEF Parts, BoundHolds
<1>2. /\ Age(k) \in 1..Window[Head(a).policy] /\ burnt[k][Origin(a)] \in Nat
      /\ Head(a) \in Keys /\ Limit[Head(a).policy] \in Nat
  BY AgeType, GuardType, KeyType DEF Parts
<1>3. recent[Head(a)][Age(k)] <= 2 * Limit[Head(a).policy] /\ recent[Head(a)][Age(k)] \in Nat
  BY <1>2, TwiceTheLimit DEF Parts
<1>. QED
  BY <1>1, <1>2, <1>3, OnTheWayType

\* Only a hit of the key changes what is burnt of it, and that starts its window.
LEMMA BurntChanges ==
    ASSUME Parts, [Next]_vars, NEW k \in Later, burnt'[k] # burnt[k]
    PROVE  buckets'[k] # None /\ ~Finished(buckets'[k])
<1>1. PICK h \in Charge : Hit(h)
  <2>1. PICK c \in Clients : CheckBudget(c) \/ GiveUp(c) \/ CountLate(c)
    BY DEF Next, Works, Begin, SkipUnresolved, RejectHit, Finish, LoseLate, Tick, vars
  <2>2. CASE CheckBudget(c)
    BY <2>2, SentType DEF CheckBudget, Parts
  <2>3. CASE GiveUp(c)
    BY <2>3, SentType DEF GiveUp, Parts
  <2>4. CASE CountLate(c)
    BY <2>4 DEF CountLate, Parts, LateOK
  <2>. QED
    BY <2>1, <2>2, <2>3, <2>4
<1>2. h.key = k /\ buckets'[k] = Bucket(k)
  BY <1>1, HitStep DEF Parts
<1>3. Bucket(k) # None /\ Bucket(k).left \in 1..Window[k.policy] /\ Window[k.policy] \in Nat
  BY BucketKeeps, KeyType DEF Parts, Later
<1>. QED
  BY <1>2, <1>3 DEF Finished

\* One address burns no more of an account's budget than twice what its own budget lets
\* through, and the hits on their way, however checks, failures, late hits and window ends
\* interleave (enforceAll, checkAll).
THEOREM OthersKeepTheirBudget == Spec => []BudgetOfOthers
<1>1. Init => BudgetOfOthers
  <2>. SUFFICES ASSUME Init, NEW k \in Later, NEW a \in Attempts, k \in Range(a), Guarded(k),
                       Origin(a) # Unresolved
                PROVE  burnt[k][Origin(a)] <= 2 * Limit[Head(a).policy] + 2 * Cardinality(Clients)
    BY DEF BudgetOfOthers
  <2>1. Guards(k, a)
    BY DEF Guards
  <2>2. burnt[k][Origin(a)] = 0 /\ Limit[Head(a).policy] \in Nat /\ Cardinality(Clients) \in Nat
    BY <2>1, GuardType, KeyType, OnTheWayType DEF Init
  <2>. QED
    BY <2>2
<1>2. RateInv /\ RateInv' /\ BudgetOfOthers /\ [Next]_vars => BudgetOfOthers'
  <2>. SUFFICES ASSUME RateInv, RateInv', BudgetOfOthers, [Next]_vars,
                       NEW k \in Later, NEW a \in Attempts, k \in Range(a), Guarded(k),
                       Origin(a) # Unresolved
                PROVE  burnt'[k][Origin(a)] <= 2 * Limit[Head(a).policy] + 2 * Cardinality(Clients)
    BY DEF BudgetOfOthers
  <2>1. Guards(k, a) /\ Parts
    BY RateParts DEF Guards
  <2>2. CASE burnt'[k] = burnt[k]
    BY <2>2 DEF BudgetOfOthers
  <2>3. CASE burnt'[k] # burnt[k]
    <3>1. buckets'[k] # None /\ ~Finished(buckets'[k])
      BY <2>1, <2>3, BurntChanges
    <3>2. RateInv' => RunningBounded'
      BY RateParts, RunningBudget, PTL
    <3>. QED
      BY <2>1, <3>1, <3>2 DEF RunningBounded
  <2>. QED
    BY <2>2, <2>3
<1>. QED
  BY <1>1, <1>2, RateAlwaysHolds, PTL DEF Spec

\* A flood of new keys never resets a counter whose window runs (hit of the in-memory store).
THEOREM LiveCountersAlwaysKept == Spec => LiveCountersKept
<1>. DEFINE Kept == \A k \in Keys : buckets[k] # None /\ ~Finished(buckets[k]) =>
                        buckets'[k] # None /\ buckets'[k].hits >= buckets[k].hits
<1>1. RateInv /\ [Next]_vars => [Kept]_vars
  <2>. SUFFICES ASSUME RateInv, Next, NEW k \in Keys, buckets[k] # None, ~Finished(buckets[k])
                PROVE  buckets'[k] # None /\ buckets'[k].hits >= buckets[k].hits
    BY DEF vars
  <2>1. Parts
    BY RateParts
  <2>2. buckets[k].hits \in Nat /\ ~Starts(k)
    BY <2>1, BucketType DEF Parts, Starts
  <2>3. ASSUME NEW h \in Charge, Hit(h)
        PROVE  buckets'[k] # None /\ buckets'[k].hits >= buckets[k].hits
    <3>1. CASE h.key = k
      <4>1. buckets'[k] = Bucket(k) /\ Bucket(k) # None
        BY <2>1, <2>3, <3>1, HitStep, BucketKeeps DEF Parts
      <4>2. Bucket(k).hits = IF buckets[k].hits <= Limit[k.policy]
                             THEN buckets[k].hits + 1 ELSE buckets[k].hits
        BY <2>1, <2>2, BucketKeeps DEF Parts
      <4>. QED
        BY <2>2, <4>1, <4>2
    <3>2. CASE h.key # k
      <4>1. buckets'[k] = buckets[k]
        BY <2>1, <2>3, <3>2, HitStep, TableKeeps, ChargeType DEF Parts
      <4>. QED
        BY <2>2, <4>1
    <3>. QED
      BY <3>1, <3>2
  <2>4. CASE Tick
    <3>1. buckets'[k] # None /\ buckets'[k].hits = buckets[k].hits
      BY <2>1, <2>4, TickStep DEF Parts
    <3>. QED
      BY <2>2, <3>1
  <2>5. ASSUME NEW c \in Clients, RejectHit(c)
        PROVE  buckets'[k] # None /\ buckets'[k].hits >= buckets[k].hits
    <3>1. buckets'[k] = buckets[k]
      BY <2>1, <2>5, SentType, TableKeeps DEF Parts, RejectHit
    <3>. QED
      BY <2>2, <3>1
  <2>6. ASSUME NEW c \in Clients, CheckBudget(c) \/ GiveUp(c) \/ CountLate(c)
        PROVE  buckets'[k] # None /\ buckets'[k].hits >= buckets[k].hits
    <3>1. CASE CheckBudget(c)
      BY <2>1, <2>3, <3>1, SentType DEF CheckBudget, Parts
    <3>2. CASE GiveUp(c)
      <4>1. CASE Hit(HitOf(c))
        BY <2>1, <2>3, <3>2, <4>1, SentType DEF GiveUp, Parts
      <4>2. CASE UNCHANGED buckets
        BY <2>2, <4>2
      <4>. QED
        BY <3>2, <4>1, <4>2 DEF GiveUp
    <3>3. CASE CountLate(c)
      BY <2>1, <2>3, <3>3 DEF CountLate, Parts, LateOK
    <3>. QED
      BY <2>6, <3>1, <3>2, <3>3
  <2>7. CASE UNCHANGED buckets
    BY <2>2, <2>7
  <2>. QED
    BY <2>4, <2>5, <2>6, <2>7 DEF Next, Works, Begin, SkipUnresolved, Finish, LoseLate
<1>. QED
  BY <1>1, RateAlwaysHolds, PTL DEF Spec, LiveCountersKept
=============================================================================
