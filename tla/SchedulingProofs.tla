--------------------------- MODULE SchedulingProofs ---------------------------
(***************************************************************************)
(* Theorems about hours and the slot engine, for every calendar, zone and  *)
(* set of resources and services.  The recursive functions of the engine   *)
(* are first shown to satisfy their own equations, by a measure that their *)
(* calls lower; then what they compute is stated without them, and the     *)
(* invariants of Scheduling follow.                                        *)
(***************************************************************************)
EXTENDS SchedulingProperties, FiniteSetTheorems, WellFoundedInduction, SequenceTheorems, TLAPS

-----------------------------------------------------------------------------
(* Recursion by a measure.                                                 *)

\* A set of numbers that is not empty has a least one.
LEMMA LeastNumber ==
    ASSUME NEW S \in SUBSET Nat, S # {}
    PROVE  \E m \in S : \A k \in S : m <= k
<1>. DEFINE I == {0..k : k \in S}
            R == StrictSubsetOrdering(Nat)
            F == FiniteSubsetsOf(Nat)
<1>1. IsWellFoundedOn(R, F)
  BY FS_StrictSubsetOrderingWellFounded
<1>2. I \subseteq F
  <2>1. ASSUME NEW k \in S
        PROVE  0..k \in F
    <3>1. IsFiniteSet(0..k)
      BY FS_Interval
    <3>2. 0..k \in SUBSET Nat
      OBVIOUS
    <3>. QED
      BY <3>1, <3>2 DEF FiniteSubsetsOf
  <2>. QED
    BY <2>1
<1>3. I # {}
  OBVIOUS
<1>4. PICK x \in I : \A y \in I : ~(<<y, x>> \in R)
  <2>. HIDE DEF I, R, F
  <2>. QED
    BY <1>1, <1>2, <1>3, WFMin
<1>5. PICK m \in S : x = 0..m
  BY <1>4
<1>6. ASSUME NEW k \in S, k < m
      PROVE  FALSE
  <2>1. 0..k \in I
    OBVIOUS
  <2>2. (0..k) \subseteq (0..m) /\ 0..k # 0..m
    <3>1. m \in 0..m /\ m \notin 0..k
      BY <1>6
    <3>2. (0..k) \subseteq (0..m)
      BY <1>6
    <3>. QED
      BY <3>1, <3>2, Zenon
  <2>3. <<0..k, 0..m>> \in R
    BY <2>2 DEF StrictSubsetOrdering
  <2>. QED
    BY <1>4, <1>5, <2>1, <2>3
<1>. QED
  BY <1>6

\* What holds of an element when it holds of all that measure less holds of all.
LEMMA ByMeasure ==
    ASSUME NEW D, NEW m \in [D -> Nat], NEW P,
           \A x \in D : (\A y \in D : m[y] < m[x] => y \in P) => x \in P
    PROVE  \A x \in D : x \in P
<1>. DEFINE bad == {m[x] : x \in {y \in D : y \notin P}}
<1>1. SUFFICES ASSUME bad # {} PROVE FALSE
  OBVIOUS
<1>2. bad \in SUBSET Nat
  OBVIOUS
<1>. HIDE DEF bad
<1>3. PICK n \in bad : \A k \in bad : n <= k
  BY <1>1, <1>2, LeastNumber
<1>4. PICK x \in D : x \notin P /\ n = m[x]
  BY <1>3 DEF bad
<1>5. ASSUME NEW y \in D, m[y] < m[x]
      PROVE  y \in P
  <2>1. SUFFICES ASSUME y \notin P PROVE FALSE
    OBVIOUS
  <2>2. m[y] \in bad
    BY <2>1 DEF bad
  <2>3. m[y] \in Nat /\ m[x] \in Nat
    OBVIOUS
  <2>. QED
    BY <1>3, <1>4, <1>5, <2>2, <2>3
<1>. QED
  BY <1>4, <1>5

\* Functions with a value in its own set for each argument.
Into(D, W) == {f \in [D -> UNION {W[x] : x \in D}] : \A x \in D : f[x] \in W[x]}

\* A recursion that looks only at what measures less has a solution; W says what is known
\* of its values.
LooksBelow(D, W, m, G) ==
    /\ \A x \in D : W[x] # {}
    /\ m \in [D -> Nat]
    /\ \A x \in D, f \in Into(D, W) : G[<<x, f>>] \in W[x]
    /\ \A x \in D, f \in Into(D, W), g \in Into(D, W) :
          (\A y \in D : m[y] < m[x] => f[y] = g[y]) => G[<<x, f>>] = G[<<x, g>>]

\* A function that looks only at places of a smaller measure exists, with a range per place.
LEMMA RecursionInto ==
    ASSUME NEW D, NEW W, NEW m, NEW G, LooksBelow(D, W, m, G)
    PROVE  \E f \in Into(D, W) : \A x \in D : f[x] = G[<<x, f>>]
<1>. USE DEF LooksBelow
<1>. DEFINE Eq(f, x) == f[x] = G[<<x, f>>]
            Upto(n) == {f \in Into(D, W) : \A x \in D : m[x] < n => Eq(f, x)}
<1>1. \A x \in D : m[x] \in Nat
  OBVIOUS
<1>2. ASSUME NEW n \in Nat, Upto(n) # {}
      PROVE  Upto(n + 1) # {}
  <2>1. PICK f \in Into(D, W) : \A x \in D : m[x] < n => Eq(f, x)
    BY <1>2
  <2>. DEFINE g == [x \in D |-> G[<<x, f>>]]
  <2>2. g \in Into(D, W) /\ \A x \in D : g[x] = G[<<x, f>>]
    <3>1. \A x \in D : g[x] = G[<<x, f>>] /\ g[x] \in W[x]
      OBVIOUS
    <3>. QED
      BY <3>1 DEF Into
  <2>. HIDE DEF g
  <2>3. \A x \in D : m[x] < n => g[x] = f[x]
    BY <2>1, <2>2
  <2>4. ASSUME NEW x \in D, m[x] < n + 1
        PROVE  Eq(g, x)
    <3>1. \A y \in D : m[y] < m[x] => f[y] = g[y]
      BY <1>1, <2>3, <2>4
    <3>2. G[<<x, f>>] = G[<<x, g>>]
      BY <2>2, <3>1
    <3>. QED
      BY <2>2, <3>2
  <2>5. g \in Upto(n + 1)
    BY <2>2, <2>4
  <2>. QED
    BY <2>5
<1>3. Upto(0) # {}
  <2>. DEFINE f == [x \in D |-> CHOOSE v \in W[x] : TRUE]
  <2>1. \A x \in D : (CHOOSE v \in W[x] : TRUE) \in W[x]
    OBVIOUS
  <2>2. f \in Into(D, W)
    BY <2>1 DEF Into
  <2>3. \A x \in D : ~(m[x] < 0)
    BY <1>1
  <2>. HIDE DEF f
  <2>4. f \in Upto(0)
    BY <2>2, <2>3
  <2>. QED
    BY <2>4
<1>4. ASSUME NEW n \in Nat
      PROVE  Upto(n) # {}
  <2>. DEFINE N == [k \in Nat |-> k]
              P == {k \in Nat : Upto(k) # {}}
  <2>1. ASSUME NEW k \in Nat, \A j \in Nat : j < k => j \in P
        PROVE  k \in P
    <3>. HIDE DEF Upto
    <3>1. CASE k = 0
      BY <1>3, <3>1
    <3>2. CASE k # 0
      <4>1. k - 1 \in Nat /\ k - 1 < k /\ (k - 1) + 1 = k
        BY <3>2
      <4>2. Upto(k - 1) # {}
        BY <2>1, <4>1
      <4>3. Upto((k - 1) + 1) # {}
        BY <1>2, <4>1, <4>2
      <4>. QED
        BY <4>1, <4>3
    <3>. QED
      BY <3>1, <3>2
  <2>2. \A k \in Nat : k \in P
    <3>. HIDE DEF P
    <3>1. N \in [Nat -> Nat] /\ \A k \in Nat : N[k] = k
      OBVIOUS
    <3>. HIDE DEF N
    <3>. QED
      BY <2>1, <3>1, ByMeasure
  <2>. QED
    BY <2>2
<1>5. ASSUME NEW j \in Nat, NEW k \in Nat, NEW f \in Upto(j), NEW g \in Upto(k)
      PROVE  \A x \in D : m[x] < j /\ m[x] < k => f[x] = g[x]
  <2>. DEFINE P == {x \in D : m[x] < j /\ m[x] < k => f[x] = g[x]}
  <2>1. ASSUME NEW x \in D, \A y \in D : m[y] < m[x] => y \in P
        PROVE  x \in P
    <3>1. SUFFICES ASSUME m[x] < j, m[x] < k PROVE f[x] = g[x]
      OBVIOUS
    <3>2. Eq(f, x) /\ Eq(g, x)
      BY <3>1
    <3>3. \A y \in D : m[y] < m[x] => f[y] = g[y]
      BY <1>1, <2>1, <3>1
    <3>4. G[<<x, f>>] = G[<<x, g>>]
      BY <3>3
    <3>. QED
      BY <3>2, <3>4
  <2>2. \A x \in D : x \in P
    <3>. HIDE DEF P
    <3>. QED
      BY <2>1, ByMeasure
  <2>. QED
    BY <2>2
<1>. DEFINE one(x) == CHOOSE f \in Upto(m[x] + 1) : TRUE
            F == [x \in D |-> one(x)[x]]
<1>6. ASSUME NEW x \in D
      PROVE  m[x] \in Nat /\ m[x] + 1 \in Nat /\ one(x) \in Upto(m[x] + 1)
  <2>1. m[x] \in Nat /\ m[x] + 1 \in Nat
    BY <1>1
  <2>2. Upto(m[x] + 1) # {}
    BY <1>4, <2>1
  <2>. HIDE DEF Upto
  <2>. QED
    BY <2>1, <2>2
<1>7. ASSUME NEW x \in D
      PROVE  one(x) \in Into(D, W) /\ Eq(one(x), x)
  <2>1. m[x] < m[x] + 1
    BY <1>1
  <2>. HIDE DEF one
  <2>. QED
    BY <1>6, <2>1
<1>8. F \in Into(D, W) /\ \A x \in D : F[x] = one(x)[x]
  <2>1. \A x \in D : one(x)[x] \in W[x]
    <3>. HIDE DEF one
    <3>. QED
      BY <1>7 DEF Into
  <2>. HIDE DEF one
  <2>. QED
    BY <2>1 DEF Into
<1>9. ASSUME NEW x \in D
      PROVE  Eq(F, x)
  <2>1. ASSUME NEW y \in D, m[y] < m[x]
        PROVE  F[y] = one(x)[y]
    <3>1. /\ m[x] + 1 \in Nat /\ m[y] + 1 \in Nat
          /\ one(x) \in Upto(m[x] + 1) /\ one(y) \in Upto(m[y] + 1)
      BY <1>6
    <3>2. m[y] < m[x] + 1 /\ m[y] < m[y] + 1
      BY <1>1, <2>1
    <3>3. F[y] = one(y)[y]
      BY <1>8
    <3>. HIDE DEF one, Upto, F
    <3>. QED
      BY <1>5, <3>1, <3>2, <3>3
  <2>2. F[x] = one(x)[x] /\ Eq(one(x), x) /\ one(x) \in Into(D, W)
    BY <1>7, <1>8
  <2>. HIDE DEF one, F
  <2>3. G[<<x, one(x)>>] = G[<<x, F>>]
    BY <1>8, <2>1, <2>2
  <2>. QED
    BY <2>2, <2>3
<1>. QED
  BY <1>8, <1>9

\* The same with values of one set.
LooksLower(D, V, m, G) ==
    /\ V # {}
    /\ m \in [D -> Nat]
    /\ \A x \in D, f \in [D -> V] : G[<<x, f>>] \in V
    /\ \A x \in D, f \in [D -> V], g \in [D -> V] :
          (\A y \in D : m[y] < m[x] => f[y] = g[y]) => G[<<x, f>>] = G[<<x, g>>]

\* The same with one range for all places.
LEMMA Recursion ==
    ASSUME NEW D, NEW V, NEW m, NEW G, LooksLower(D, V, m, G)
    PROVE  \E f \in [D -> V] : \A x \in D : f[x] = G[<<x, f>>]
<1>. DEFINE W == [x \in D |-> V]
<1>1. \A x \in D : W[x] = V
  OBVIOUS
<1>2. Into(D, W) = [D -> V]
  <2>1. ASSUME NEW f \in Into(D, W) PROVE f \in [D -> V]
    <3>1. f = [x \in D |-> f[x]] /\ \A x \in D : f[x] \in V
      BY <1>1 DEF Into
    <3>. QED
      BY <3>1
  <2>2. ASSUME NEW f \in [D -> V] PROVE f \in Into(D, W)
    BY <1>1 DEF Into
  <2>. QED
    BY <2>1, <2>2
<1>. HIDE DEF W
<1>3. LooksBelow(D, W, m, G)
  BY <1>1, <1>2 DEF LooksBelow, LooksLower
<1>. QED
  BY <1>2, <1>3, RecursionInto

-----------------------------------------------------------------------------
(* The wall clock.                                                         *)

\* A local time is a day and a minute of it, in one way only.
LEMMA DayAndMinute ==
    ASSUME NEW x \in Int, NEW date \in Int, NEW minute \in 0..Day-1
    PROVE  /\ x \div Day \in Int /\ x % Day \in 0..Day-1
           /\ x = (x \div Day) * Day + (x % Day)
           /\ (x \div Day = date /\ x % Day = minute) <=> x = date * Day + minute
<1>1. /\ x \div Day \in Int /\ x % Day \in 0..Day-1
      /\ x = (x \div Day) * Day + (x % Day)
  BY DayIsReal
<1>2. (date * Day + minute) \div Day = date /\ (date * Day + minute) % Day = minute
  BY DayIsReal
<1>. QED
  BY <1>1, <1>2

\* What a zone of the instances and of the code is.
IsZone(z) ==
    /\ z.at \in Int /\ z.before \in 1-Day..Day-1 /\ z.after \in 1-Day..Day-1
    /\ z.after - z.before \in 1-Day..Day-1

\* What a wall clock shows, as an equation of instants.
LEMMA ShownAt ==
    ASSUME NEW z, IsZone(z), NEW t \in Int, NEW date \in Int, NEW minute \in 0..Day-1
    PROVE  /\ ZoneOffset(t, z) \in Int
           /\ WallClock(t, z) = [date |-> date, minute |-> minute]
                <=> t + ZoneOffset(t, z) = date * Day + minute
           /\ WallClock(t, z).date * Day + WallClock(t, z).minute = t + ZoneOffset(t, z)
<1>. DEFINE x == t + ZoneOffset(t, z)
<1>1. ZoneOffset(t, z) \in Int /\ x \in Int
  BY DayIsReal DEF ZoneOffset, IsZone
<1>2. WallClock(t, z) = [date |-> x \div Day, minute |-> x % Day]
  BY DEF WallClock
<1>. HIDE DEF x
<1>3. /\ x = (x \div Day) * Day + (x % Day)
      /\ (x \div Day = date /\ x % Day = minute) <=> x = date * Day + minute
  BY <1>1, DayAndMinute
<1>4. WallClock(t, z) = [date |-> date, minute |-> minute] <=> x = date * Day + minute
  BY <1>2, <1>3
<1>5. WallClock(t, z).date * Day + WallClock(t, z).minute = x
  BY <1>2, <1>3
<1>. QED
  BY <1>1, <1>4, <1>5 DEF x

\* zonedTimeToEpoch: the first instant that shows the time, or one past the change.
LEMMA EpochOf ==
    ASSUME NEW z, IsZone(z), NEW wall \in Int, NEW date \in Int, NEW minute \in Int,
           wall = date * Day + minute
    PROVE  LET t == ZonedTimeToEpoch(date, minute, z)
               shows(u) == u + ZoneOffset(u, z) = wall
           IN  /\ t \in wall-Day+1..wall+Day-1
               /\ \A u \in Int : shows(u) => shows(t) /\ t <= u
               /\ ~shows(t) => z.at <= t /\ t + ZoneOffset(t, z) = wall + z.after - z.before
<1>. DEFINE before  == ZoneOffset(wall - Day, z)
            after   == ZoneOffset(wall + Day, z)
            shows(u) == u + ZoneOffset(u, z) = wall
            matches == {t \in {wall - before, wall - after} : shows(t)}
            t == ZonedTimeToEpoch(date, minute, z)
<1>1. t = IF matches # {} THEN Chosen(matches) ELSE wall - before
  BY DEF ZonedTimeToEpoch
<1>2. /\ Day \in Nat \ {0} /\ z.at \in Int
      /\ z.before \in 1-Day..Day-1 /\ z.after \in 1-Day..Day-1
      /\ z.after - z.before \in 1-Day..Day-1
  BY DayIsReal DEF IsZone
<1>3. \A u \in Int : ZoneOffset(u, z) = IF u < z.at THEN z.before ELSE z.after
  BY DEF ZoneOffset
<1>4. /\ before = IF wall - Day < z.at THEN z.before ELSE z.after
      /\ after  = IF wall + Day < z.at THEN z.before ELSE z.after
  BY <1>2, <1>3
<1>. HIDE DEF before, after, t
<1>5. ASSUME NEW u \in Int, shows(u)
      PROVE  u \in matches
  <2>1. CASE u < z.at
    <3>1. u = wall - z.before /\ wall - Day < z.at
      BY <1>2, <1>3, <1>5, <2>1
    <3>. QED
      BY <1>4, <1>5, <3>1
  <2>2. CASE ~(u < z.at)
    <3>1. u = wall - z.after /\ ~(wall + Day < z.at)
      BY <1>2, <1>3, <1>5, <2>2
    <3>. QED
      BY <1>4, <1>5, <3>1
  <2>. QED
    BY <2>1, <2>2
<1>6. \A u \in matches : u \in wall-Day+1..wall+Day-1 /\ shows(u)
  BY <1>2, <1>4
<1>7. CASE matches # {}
  <2>1. \E m \in matches : \A u \in matches : m <= u
    <3>1. wall - before \in Int /\ wall - after \in Int
      BY <1>2, <1>4
    <3>. DEFINE p == wall - before
                q == wall - after
    <3>2. matches \subseteq {p, q} /\ p \in Int /\ q \in Int
      BY <3>1
    <3>. HIDE DEF matches, p, q
    <3>3. CASE p \in matches /\ p <= q
      BY <3>2, <3>3
    <3>4. CASE q \in matches /\ q <= p
      BY <3>2, <3>4
    <3>5. matches = {p} \/ matches = {q} \/ matches = {p, q}
      BY <1>7, <3>2, Zenon
    <3>6. p <= q \/ q <= p
      BY <3>2
    <3>. QED
      BY <3>2, <3>3, <3>4, <3>5, <3>6
  <2>. HIDE DEF matches
  <2>2. Chosen(matches) \in matches /\ \A u \in matches : Chosen(matches) <= u
    BY <2>1 DEF Chosen
  <2>3. t \in matches /\ \A u \in matches : t <= u
    BY <1>1, <1>7, <2>2
  <2>. HIDE DEF shows
  <2>4. t \in wall-Day+1..wall+Day-1 /\ shows(t)
    BY <1>6, <2>3
  <2>5. \A u \in Int : shows(u) => shows(t) /\ t <= u
    BY <1>5, <2>3, <2>4
  <2>. QED
    BY <2>4, <2>5 DEF shows, t
<1>8. CASE matches = {}
  <2>1. t = wall - before
    BY <1>1, <1>8
  <2>2. \A u \in Int : ~shows(u)
    BY <1>5, <1>8
  <2>3. t \in Int /\ ~shows(t)
    <3>1. t \in Int
      BY <1>2, <1>4, <2>1
    <3>. QED
      BY <2>2, <3>1
  <2>4. wall - Day < z.at /\ before = z.before
    <3>1. SUFFICES ASSUME ~(wall - Day < z.at) PROVE FALSE
      BY <1>4
    <3>2. t = wall - z.after /\ ~(t < z.at)
      BY <1>2, <1>4, <2>1, <3>1
    <3>. QED
      BY <1>2, <1>3, <2>3, <3>2
  <2>5. ~(t < z.at)
    BY <1>2, <1>3, <2>1, <2>3, <2>4
  <2>6. z.at <= t /\ t + ZoneOffset(t, z) = wall + z.after - z.before
    BY <1>2, <1>3, <2>1, <2>3, <2>4, <2>5
  <2>7. t \in wall-Day+1..wall+Day-1
    BY <1>2, <2>1, <2>4
  <2>. QED
    BY <2>2, <2>3, <2>6, <2>7 DEF t
<1>. QED
  BY <1>7, <1>8

\* Of numbers of which there are finitely many one is the least and one the greatest.
LEMMA Extremes ==
    ASSUME NEW S \in SUBSET Nat, S # {}, IsFiniteSet(S)
    PROVE  /\ Min(S) \in S /\ \A k \in S : Min(S) <= k
           /\ Max(S) \in S /\ \A k \in S : Max(S) >= k
<1>1. Min(S) \in S /\ \A k \in S : Min(S) <= k
  BY LeastNumber DEF Min
<1>. DEFINE F == {T \in SUBSET S : T # {} => \E x \in T : \A k \in T : x >= k}
            A == FiniteSubsetsOf(S)
            C == [T \in A |-> Cardinality(T)]
<1>2. C \in [A -> Nat] /\ \A T \in A : C[T] = Cardinality(T) /\ IsFiniteSet(T) /\ T \in SUBSET S
  BY FS_CardinalityType DEF FiniteSubsetsOf
<1>3. ASSUME NEW T \in A, \A U \in A : C[U] < C[T] => U \in F
      PROVE  T \in F
  <2>1. SUFFICES ASSUME T # {} PROVE \E x \in T : \A k \in T : x >= k
    BY <1>2
  <2>2. PICK x \in T : TRUE
    BY <2>1
  <2>. DEFINE U == T \ {x}
  <2>3. IsFiniteSet(U) /\ Cardinality(U) = Cardinality(T) - 1 /\ U \in SUBSET S
    BY <1>2, <2>2, FS_RemoveElement
  <2>4. U \in A
    BY <2>3 DEF FiniteSubsetsOf
  <2>5. C[U] < C[T]
    <3>1. C[T] = Cardinality(T) /\ C[U] = Cardinality(U) /\ C[T] \in Nat
      BY <1>2, <2>4
    <3>. HIDE DEF U, C
    <3>. QED
      BY <2>3, <3>1
  <2>6. U # {} => \E y \in U : \A k \in U : y >= k
    BY <1>3, <2>4, <2>5
  <2>7. CASE U = {}
    <3>1. T = {x} /\ x \in Nat
      BY <1>2, <2>2, <2>7
    <3>. QED
      BY <3>1
  <2>8. CASE U # {}
    <3>1. PICK y \in U : \A k \in U : y >= k
      BY <2>6, <2>8
    <3>2. x \in Nat /\ y \in Nat /\ T = U \cup {x} /\ \A k \in T : k \in Nat
      BY <1>2, <2>2
    <3>. QED
      BY <3>1, <3>2
  <2>. QED
    BY <2>7, <2>8
<1>4. \A T \in A : T \in F
  <2>. HIDE DEF A, C, F
  <2>. QED
    BY <1>2, <1>3, ByMeasure
<1>5. S \in A
  BY DEF FiniteSubsetsOf
<1>6. \E x \in S : \A k \in S : x >= k
  BY <1>4, <1>5
<1>7. Max(S) \in S /\ \A k \in S : Max(S) >= k
  BY <1>6 DEF Max
<1>. QED
  BY <1>1, <1>7

\* A place never changes its zone.
LEMMA ZoneStays == Spec => [](zone \in Zones)
<1>1. Init => zone \in Zones
  BY DEF Init
<1>2. zone \in Zones /\ [Next]_vars => (zone \in Zones)'
  <2>. SUFFICES ASSUME zone \in Zones, [Next]_vars PROVE zone' = zone
    OBVIOUS
  <2>. QED
    BY DEF Next, Book, Move, Place, Cancel, SaveHours, Except, Choose, vars
<1>. QED
  BY <1>1, <1>2, PTL DEF Spec

\* A wall-clock time means the first instant that shows it, and one that the clocks skip is
\* moved on by as much as they skip (zonedTimeToEpoch), whatever the zone and the day.
THEOREM ClocksAlwaysRight == Spec => []FirstOccurrence
<1>1. zone \in Zones => FirstOccurrence
  <2>. SUFFICES ASSUME zone \in Zones,
                       NEW date \in Days, NEW minute \in 0..Day - 1
                PROVE  LET t == ZonedTimeToEpoch(date, minute, zone)
                           shown == {u \in Instants :
                                       WallClock(u, zone) = [date |-> date, minute |-> minute]}
                       IN  IF shown # {} THEN t \in shown /\ \A u \in shown : t <= u
                           ELSE LET w == WallClock(t, zone)
                                IN  /\ zone.at <= t
                                    /\ w.date * Day + w.minute =
                                           date * Day + minute + zone.after - zone.before
    BY DEF FirstOccurrence
  <2>. DEFINE t == ZonedTimeToEpoch(date, minute, zone)
              wall == date * Day + minute
              shown == {u \in Instants :
                          WallClock(u, zone) = [date |-> date, minute |-> minute]}
  <2>1. IsZone(zone)
    <3>1. /\ {zone.before, zone.after, zone.after - zone.before} \subseteq 1 - Day..Day - 1
          /\ zone.at \in Int
      BY CalendarConstants
    <3>. QED
      BY <3>1 DEF IsZone
  <2>2. Days \in SUBSET Nat /\ IsFiniteSet(Days) /\ Days # {}
    BY CalendarConstants
  <2>3. /\ Min(Days) \in Nat /\ Min(Days) <= date
        /\ Max(Days) \in Nat /\ date <= Max(Days) /\ date \in Nat
    BY <2>2, Extremes
  <2>4. Day \in Nat \ {0} /\ wall \in Int
    BY <2>3, DayIsReal
  <2>5. Min(Days) * Day <= wall /\ wall <= (Max(Days) + 1) * Day - 1
    BY <2>3, <2>4
  <2>6. Instants = Min(Days) * Day - Day..(Max(Days) + 2) * Day
    BY DEF Instants
  <2>. HIDE DEF t
  <2>7. /\ t \in wall-Day+1..wall+Day-1
        /\ \A u \in Int : u + ZoneOffset(u, zone) = wall =>
                            t + ZoneOffset(t, zone) = wall /\ t <= u
        /\ t + ZoneOffset(t, zone) # wall =>
             zone.at <= t /\ t + ZoneOffset(t, zone) = wall + zone.after - zone.before
    BY <2>1, <2>3, <2>4, EpochOf DEF t
  <2>8. t \in Instants /\ t \in Int
    <3>1. (Max(Days) + 2) * Day = (Max(Days) + 1) * Day + Day
      BY <2>3, <2>4
    <3>2. Min(Days) * Day \in Int /\ (Max(Days) + 1) * Day \in Int
      BY <2>3, <2>4
    <3>. HIDE DEF wall
    <3>. QED
      BY <2>4, <2>5, <2>6, <2>7, <3>1, <3>2
  <2>9. \A u \in Instants : u \in Int
    BY <2>3, <2>4, <2>6
  <2>10. \A u \in Int : WallClock(u, zone) = [date |-> date, minute |-> minute]
                          <=> u + ZoneOffset(u, zone) = wall
    BY <2>1, <2>3, ShownAt
  <2>11. WallClock(t, zone).date * Day + WallClock(t, zone).minute = t + ZoneOffset(t, zone)
    BY <2>1, <2>3, <2>8, ShownAt
  <2>12. CASE t + ZoneOffset(t, zone) = wall
    <3>1. t \in shown
      BY <2>8, <2>10, <2>12
    <3>2. \A u \in shown : t <= u
      BY <2>7, <2>9, <2>10
    <3>. QED
      BY <3>1, <3>2 DEF t
  <2>13. CASE t + ZoneOffset(t, zone) # wall
    <3>1. shown = {}
      BY <2>7, <2>9, <2>10, <2>13
    <3>. QED
      BY <2>7, <2>11, <2>13, <3>1 DEF t
  <2>. QED
    BY <2>12, <2>13
<1>. QED
  BY <1>1, ZoneStays, PTL

-----------------------------------------------------------------------------
(* Lists of spans.                                                         *)

Spans == [start : Int, end : Int]

\* An instant is in one of the spans of a list.
Covers(list, t) == \E i \in DOMAIN list : list[i].start <= t /\ t < list[i].end

\* Every span of a list begins before it ends.
Real(list) == \A i \in DOMAIN list : list[i].start < list[i].end

\* A list begins no earlier than an instant.
BeginsAt(list, b) == \A i \in DOMAIN list : list[i].start >= b

\* In order and apart; a span may end before it begins.
Lined(list) ==
    \A i, j \in DOMAIN list : i < j => /\ list[i].end < list[j].start
                                       /\ list[i].start <= list[j].start

\* The types of a list of spans and its members.
LEMMA SpansOf ==
    ASSUME NEW list \in Seq(Spans)
    PROVE  /\ Len(list) \in Nat /\ DOMAIN list = 1..Len(list)
           /\ \A i \in DOMAIN list : /\ i \in Nat /\ list[i] \in Spans
                                     /\ list[i].start \in Int /\ list[i].end \in Int
<1>1. Len(list) \in Nat /\ DOMAIN list = 1..Len(list)
  OBVIOUS
<1>2. \A i \in DOMAIN list : i \in Nat /\ list[i] \in Spans
  BY <1>1
<1>. QED
  BY <1>1, <1>2 DEF Spans

\* A normalized list is one of real spans that lie apart.
LEMMA NormalIsLined ==
    ASSUME NEW list \in Seq(Spans)
    PROVE  Normalized(list) <=> Real(list) /\ Lined(list)
<1>1. /\ Len(list) \in Nat /\ DOMAIN list = 1..Len(list)
      /\ \A i \in DOMAIN list : list[i].start \in Int /\ list[i].end \in Int
  BY SpansOf
<1>2. ASSUME Normalized(list)
      PROVE  Lined(list)
  <2>1. /\ \A i \in DOMAIN list : list[i].start < list[i].end
        /\ \A i \in DOMAIN list \ {1} : list[i - 1].end < list[i].start
    BY <1>2 DEF Normalized
  <2>. DEFINE D == DOMAIN list
              m == [j \in D |-> j]
              P == {j \in D : \A i \in D : i < j => list[i].end < list[j].start}
  <2>2. ASSUME NEW j \in D, \A k \in D : m[k] < m[j] => k \in P
        PROVE  j \in P
    <3>1. SUFFICES ASSUME NEW i \in D, i < j PROVE list[i].end < list[j].start
      OBVIOUS
    <3>2. j - 1 \in D /\ j # 1 /\ list[j - 1].end < list[j].start
      BY <1>1, <2>1, <3>1
    <3>3. CASE i = j - 1
      BY <3>2, <3>3
    <3>4. CASE i # j - 1
      <4>1. i < j - 1 /\ m[j - 1] < m[j]
        BY <1>1, <3>1, <3>2, <3>4
      <4>2. list[i].end < list[j - 1].start
        BY <2>2, <3>1, <3>2, <4>1
      <4>. QED
        BY <1>1, <2>1, <3>1, <3>2, <4>2
    <3>. QED
      BY <3>3, <3>4
  <2>3. m \in [D -> Nat]
    BY <1>1
  <2>4. \A j \in D : j \in P
    <3>. HIDE DEF D, m, P
    <3>. QED
      BY <2>2, <2>3, ByMeasure
  <2>5. ASSUME NEW i \in D, NEW j \in D, i < j
        PROVE  list[i].end < list[j].start /\ list[i].start <= list[j].start
    <3>1. list[i].end < list[j].start
      BY <2>4, <2>5
    <3>. QED
      BY <1>1, <2>1, <3>1
  <2>. QED
    BY <2>5 DEF Lined
<1>3. ASSUME Real(list), Lined(list)
      PROVE  Normalized(list)
  <2>1. ASSUME NEW i \in DOMAIN list \ {1}
        PROVE  list[i - 1].end < list[i].start
    <3>1. i - 1 \in DOMAIN list /\ i \in DOMAIN list /\ i - 1 < i
      BY <1>1
    <3>. QED
      BY <1>3, <3>1 DEF Lined
  <2>. QED
    BY <1>3, <2>1 DEF Normalized, Real
<1>4. Normalized(list) => Real(list)
  BY DEF Normalized, Real
<1>. QED
  BY <1>2, <1>3, <1>4

\* The empty list has every property of lists and covers nothing.
LEMMA EmptyList ==
    /\ <<>> \in Seq(Spans) /\ Real(<<>>) /\ Lined(<<>>)
    /\ \A b : BeginsAt(<<>>, b)
    /\ \A t : ~Covers(<<>>, t)
BY DEF Real, Lined, BeginsAt, Covers

\* A piece is put in front of a list.
LEMMA PieceAhead ==
    ASSUME NEW from \in Int, NEW to \in Int, NEW b \in Int,
           NEW list \in Seq(Spans), Real(list), BeginsAt(list, b)
    PROVE  /\ Piece(from, to) \o list \in Seq(Spans)
           /\ Real(Piece(from, to) \o list)
           /\ \A c \in Int : c <= from /\ c <= b => BeginsAt(Piece(from, to) \o list, c)
           /\ \A t \in Int : Covers(Piece(from, to) \o list, t)
                               <=> (from <= t /\ t < to) \/ Covers(list, t)
           /\ Lined(list) /\ to < b => Lined(Piece(from, to) \o list)
<1>1. /\ Len(list) \in Nat /\ DOMAIN list = 1..Len(list)
      /\ \A i \in DOMAIN list : list[i].start \in Int /\ list[i].end \in Int
  BY SpansOf
<1>2. /\ \A i \in DOMAIN list : list[i].start < list[i].end
      /\ \A i \in DOMAIN list : list[i].start >= b
  BY DEF Real, BeginsAt
<1>3. CASE ~(to > from)
  <2>1. Piece(from, to) \o list = list
    BY <1>3 DEF Piece
  <2>. QED
    BY <1>1, <1>2, <1>3, <2>1 DEF BeginsAt
<1>4. CASE to > from
  <2>. DEFINE p == [start |-> from, end |-> to]
              all == <<p>> \o list
  <2>1. Piece(from, to) \o list = all /\ p \in Spans
    BY <1>4 DEF Piece, Interval, Spans
  <2>2. /\ all \in Seq(Spans) /\ DOMAIN all = 1..Len(list) + 1
        /\ all[1] = p /\ \A i \in 1..Len(list) : all[i + 1] = list[i]
    BY <1>1, <2>1
  <2>. HIDE DEF all
  <2>3. \A i \in DOMAIN all : i = 1 \/ (i - 1 \in DOMAIN list /\ all[i] = list[i - 1])
    BY <1>1, <2>2
  <2>4. \A i \in DOMAIN list : i + 1 \in DOMAIN all /\ all[i + 1] = list[i]
    BY <1>1, <2>2
  <2>5. 1 \in DOMAIN all /\ p.start = from /\ p.end = to
    BY <1>1, <2>2
  <2>. HIDE DEF p
  <2>6. Real(all)
    BY <1>2, <1>4, <2>2, <2>3, <2>5 DEF Real
  <2>7. ASSUME NEW c \in Int, c <= from, c <= b
        PROVE  BeginsAt(all, c)
    BY <1>1, <1>2, <2>2, <2>3, <2>5, <2>7 DEF BeginsAt
  <2>8. ASSUME NEW t \in Int
        PROVE  Covers(all, t) <=> (from <= t /\ t < to) \/ Covers(list, t)
    BY <2>2, <2>3, <2>4, <2>5 DEF Covers
  <2>9. ASSUME Lined(list), to < b
        PROVE  Lined(all)
    <3>1. SUFFICES ASSUME NEW i \in DOMAIN all, NEW j \in DOMAIN all, i < j
                   PROVE  all[i].end < all[j].start /\ all[i].start <= all[j].start
      BY DEF Lined
    <3>2. j # 1 /\ j - 1 \in DOMAIN list /\ all[j] = list[j - 1]
      BY <1>1, <2>2, <2>3, <3>1
    <3>3. CASE i = 1
      BY <1>1, <1>2, <1>4, <2>2, <2>5, <2>9, <3>2, <3>3
    <3>4. CASE i # 1
      <4>1. i - 1 \in DOMAIN list /\ all[i] = list[i - 1] /\ i - 1 < j - 1
        BY <1>1, <2>2, <2>3, <3>1, <3>2, <3>4
      <4>. QED
        BY <2>9, <3>2, <4>1 DEF Lined
    <3>. QED
      BY <3>3, <3>4
  <2>. QED
    BY <2>1, <2>2, <2>6, <2>7, <2>8, <2>9
<1>. QED
  BY <1>3, <1>4

-----------------------------------------------------------------------------
(* subtractIntervals                                                       *)

SubtractPlaces(list, removals) == (1..Len(list)) \X (1..Len(removals) + 1) \X Int

SubtractStep(list, removals, f, at) ==
    LET i == at[1]
        k == at[2]
        cursor == at[3]
        span == list[i]
        gone == removals[k]
        after  == Larger(cursor, gone.end)
        next == IF i = Len(list) THEN <<>> ELSE f[<<i + 1, k, list[i + 1].start>>]
    IN  IF k > Len(removals) \/ gone.start >= span.end
        THEN Piece(cursor, span.end) \o next
        ELSE IF gone.end <= cursor
        THEN f[<<i, k + 1, cursor>>]
        ELSE Piece(cursor, gone.start) \o
             (IF Passes(gone, span) THEN f[<<i, k + 1, after>>]
              ELSE Piece(after, span.end) \o next)

\* A piece is a list of spans.
LEMMA PieceType ==
    \A from, to \in Int : Piece(from, to) \in Seq(Spans)
<1>. SUFFICES ASSUME NEW from \in Int, NEW to \in Int
              PROVE  Piece(from, to) \in Seq(Spans)
  OBVIOUS
<1>1. Interval(from, to) \in Spans
  BY DEF Interval, Spans
<1>. QED
  BY <1>1 DEF Piece

\* The walk is well defined: each of its steps leaves a span or a removal behind.
LEMMA SubtractWalk ==
    ASSUME NEW list \in Seq(Spans), NEW removals \in Seq(Spans), list # <<>>
    PROVE  LET D == SubtractPlaces(list, removals)
           IN  \E f : /\ SubtractIntervals(list, removals) = f[<<1, 1, list[1].start>>]
                      /\ \A at \in D : f[at] = SubtractStep(list, removals, f, at)
<1>. DEFINE D == SubtractPlaces(list, removals)
            V == Seq(Spans)
            n == Len(list)
            k0 == Len(removals)
            m == [at \in D |-> (n - at[1]) + (k0 + 1 - at[2])]
            G == [p \in D \X [D -> V] |-> SubtractStep(list, removals, p[2], p[1])]
            Solves(f) == f = [at \in D |-> SubtractStep(list, removals, f, at)]
            from == CHOOSE f : Solves(f)
<1>1. /\ n \in Nat \ {0} /\ k0 \in Nat
      /\ \A i \in 1..n : list[i].start \in Int /\ list[i].end \in Int
      /\ \A k \in 1..k0 : removals[k].start \in Int /\ removals[k].end \in Int
  <2>1. n \in Nat /\ DOMAIN list = 1..n /\ k0 \in Nat /\ DOMAIN removals = 1..k0
    BY SpansOf
  <2>2. n # 0
    BY <2>1
  <2>. QED
    BY <2>1, <2>2, SpansOf
<1>2. SubtractIntervals(list, removals) = from[<<1, 1, list[1].start>>]
  BY Zenon DEF SubtractIntervals, SubtractStep, SubtractPlaces
<1>3. \A at \in D : /\ at[1] \in 1..n /\ at[2] \in 1..k0 + 1 /\ at[3] \in Int
                    /\ at = <<at[1], at[2], at[3]>>
  BY DEF SubtractPlaces
<1>4. \A i \in 1..n, k \in 1..k0 + 1, c \in Int : <<i, k, c>> \in D
  BY DEF SubtractPlaces
<1>5. m \in [D -> Nat] /\ \A at \in D : m[at] = (n - at[1]) + (k0 + 1 - at[2])
  BY <1>1, <1>3
<1>. HIDE DEF m, D
<1>6. \A at \in D : \A f : <<at, f>> \in D \X [D -> V] =>
         G[<<at, f>>] = SubtractStep(list, removals, f, at)
  OBVIOUS
<1>. HIDE DEF G
<1>7. ASSUME NEW at \in D, NEW f \in [D -> V]
      PROVE  SubtractStep(list, removals, f, at) \in V
  <2>. DEFINE i == at[1]
              k == at[2]
              c == at[3]
              next == IF i = n THEN <<>> ELSE f[<<i + 1, k, list[i + 1].start>>]
  <2>1. i \in 1..n /\ k \in 1..k0 + 1 /\ c \in Int /\ list[i].end \in Int
    BY <1>1, <1>3
  <2>2. next \in V
    <3>1. CASE i = n
      BY <3>1
    <3>2. CASE i # n
      <4>1. i + 1 \in 1..n /\ list[i + 1].start \in Int
        BY <1>1, <2>1, <3>2
      <4>2. <<i + 1, k, list[i + 1].start>> \in D
        BY <1>4, <2>1, <4>1
      <4>. QED
        BY <3>2, <4>2
    <3>. QED
      BY <3>1, <3>2
  <2>3. k <= k0 => /\ removals[k].start \in Int /\ removals[k].end \in Int
                   /\ Larger(c, removals[k].end) \in Int
                   /\ f[<<i, k + 1, c>>] \in V
                   /\ f[<<i, k + 1, Larger(c, removals[k].end)>>] \in V
    <3>1. SUFFICES ASSUME k <= k0
                   PROVE  /\ removals[k].start \in Int /\ removals[k].end \in Int
                          /\ Larger(c, removals[k].end) \in Int
                          /\ f[<<i, k + 1, c>>] \in V
                          /\ f[<<i, k + 1, Larger(c, removals[k].end)>>] \in V
      OBVIOUS
    <3>2. k \in 1..k0 /\ k + 1 \in 1..k0 + 1
      BY <1>1, <2>1, <3>1
    <3>3. /\ removals[k].start \in Int /\ removals[k].end \in Int
          /\ Larger(c, removals[k].end) \in Int
      BY <1>1, <2>1, <3>2 DEF Larger
    <3>. QED
      BY <1>4, <2>1, <3>2, <3>3
  <2>4. ~(k > k0) => k <= k0
    BY <1>1, <2>1
  <2>. HIDE DEF i, k, c, next
  <2>5. \A a, b \in V : a \o b \in V
    OBVIOUS
  <2>7. \A a, b \in Int : Piece(a, b) \in V
    BY PieceType
  <2>6. SubtractStep(list, removals, f, at) =
            IF k > k0 \/ removals[k].start >= list[i].end
            THEN Piece(c, list[i].end) \o next
            ELSE IF removals[k].end <= c
            THEN f[<<i, k + 1, c>>]
            ELSE Piece(c, removals[k].start) \o
                 (IF Passes(removals[k], list[i]) THEN f[<<i, k + 1, Larger(c, removals[k].end)>>]
                  ELSE Piece(Larger(c, removals[k].end), list[i].end) \o next)
    BY Zenon DEF SubtractStep, i, k, c, next
  <2>. HIDE DEF V
  <2>. QED
    BY <2>1, <2>2, <2>3, <2>4, <2>5, <2>6, <2>7
<1>8. ASSUME NEW at \in D, NEW f \in [D -> V], NEW g \in [D -> V],
             \A y \in D : m[y] < m[at] => f[y] = g[y]
      PROVE  SubtractStep(list, removals, f, at) = SubtractStep(list, removals, g, at)
  <2>1. at[1] \in 1..n /\ at[2] \in 1..k0 + 1 /\ at[3] \in Int
    BY <1>3
  <2>2. at[1] # n => f[<<at[1] + 1, at[2], list[at[1] + 1].start>>]
                       = g[<<at[1] + 1, at[2], list[at[1] + 1].start>>]
    <3>1. SUFFICES ASSUME at[1] # n
                   PROVE  LET y == <<at[1] + 1, at[2], list[at[1] + 1].start>>
                          IN  y \in D /\ m[y] < m[at]
      BY <1>8
    <3>. DEFINE y == <<at[1] + 1, at[2], list[at[1] + 1].start>>
    <3>2. at[1] + 1 \in 1..n /\ list[at[1] + 1].start \in Int
      BY <1>1, <2>1, <3>1
    <3>3. y \in D
      BY <1>4, <2>1, <3>2
    <3>4. m[y] = (n - (at[1] + 1)) + (k0 + 1 - at[2])
      BY <1>5, <3>3
    <3>5. m[at] = (n - at[1]) + (k0 + 1 - at[2]) /\ n \in Nat /\ k0 \in Nat
      BY <1>1, <1>5
    <3>6. m[y] < m[at]
      <4>. HIDE DEF y, n, k0
      <4>. QED
        BY <2>1, <3>4, <3>5, SMTT(30)
    <3>. QED
      BY <3>3, <3>6
  <2>3. ASSUME at[2] <= k0, NEW c \in Int
        PROVE  f[<<at[1], at[2] + 1, c>>] = g[<<at[1], at[2] + 1, c>>]
    <3>. DEFINE y == <<at[1], at[2] + 1, c>>
    <3>1. y \in D
      <4>1. k0 \in Nat
        BY <1>1
      <4>2. at[2] + 1 \in 1..k0 + 1
        <5>. HIDE DEF k0
        <5>. QED
          BY <2>1, <2>3, <4>1
      <4>. QED
        BY <1>4, <2>1, <2>3, <4>2
    <3>2. m[y] = (n - at[1]) + (k0 + 1 - (at[2] + 1))
      BY <1>5, <3>1
    <3>3. m[y] < m[at]
      <4>1. m[at] = (n - at[1]) + (k0 + 1 - at[2]) /\ n \in Nat /\ k0 \in Nat
        BY <1>1, <1>5
      <4>. HIDE DEF y, n, k0
      <4>. QED
        BY <2>1, <3>2, <4>1, SMTT(30)
    <3>. QED
      BY <1>8, <3>1, <3>3
  <2>4. ~(at[2] > k0) => at[2] <= k0 /\ Larger(at[3], removals[at[2]].end) \in Int
    BY <1>1, <2>1 DEF Larger
  <2>. QED
    BY <2>1, <2>2, <2>3, <2>4 DEF SubtractStep
<1>9. \E h \in [D -> V] : \A at \in D : h[at] = G[<<at, h>>]
  <2>1. \A at \in D, f \in [D -> V] : G[<<at, f>>] \in V
    BY <1>6, <1>7
  <2>2. ASSUME NEW at \in D, NEW f \in [D -> V], NEW g \in [D -> V],
               \A y \in D : m[y] < m[at] => f[y] = g[y]
        PROVE  G[<<at, f>>] = G[<<at, g>>]
    <3>1. SubtractStep(list, removals, f, at) = SubtractStep(list, removals, g, at)
      BY <1>8, <2>2
    <3>. QED
      BY <1>6, <3>1
  <2>3. V # {}
    OBVIOUS
  <2>4. \A at \in D, f \in [D -> V], g \in [D -> V] :
            (\A y \in D : m[y] < m[at] => f[y] = g[y]) => G[<<at, f>>] = G[<<at, g>>]
    BY <2>2
  <2>5. m \in [D -> Nat]
    BY <1>5
  <2>. HIDE DEF V
  <2>6. LooksLower(D, V, m, G)
    BY <2>1, <2>3, <2>4, <2>5 DEF LooksLower
  <2>. QED
    BY <2>6, Recursion
<1>10. \E h : Solves(h)
  <2>1. PICK h \in [D -> V] : \A at \in D : h[at] = G[<<at, h>>]
    BY <1>9
  <2>2. \A at \in D : h[at] = SubtractStep(list, removals, h, at)
    BY <1>6, <2>1
  <2>3. h = [at \in D |-> SubtractStep(list, removals, h, at)]
    BY <2>1, <2>2
  <2>. QED
    BY <2>3
<1>11. Solves(from)
  <2>. HIDE DEF Solves
  <2>. QED
    BY <1>10
<1>12. \A at \in D : from[at] = SubtractStep(list, removals, from, at)
  <2>. HIDE DEF from
  <2>. QED
    BY <1>11
<1>. HIDE DEF from
<1>. QED
  BY <1>2, <1>12 DEF D

\* What the walk leaves from a place on: of the spans from the i-th on, from the cursor
\* on, what no removal covers.
LEMMA SubtractFrom ==
    ASSUME NEW list \in Seq(Spans), NEW removals \in Seq(Spans), list # <<>>,
           Lined(list), Lined(removals),
           NEW f, \A at \in SubtractPlaces(list, removals) :
                     f[at] = SubtractStep(list, removals, f, at)
    PROVE  \A at \in SubtractPlaces(list, removals) :
             LET span == list[at[1]]
                 left == f[at]
             IN  /\ span.start <= at[3] /\ (at[3] <= span.start \/ at[3] <= span.end)
                 /\ \A k \in 1..at[2]-1 : removals[k].end <= at[3]
                 => /\ left \in Seq(Spans) /\ Real(left) /\ BeginsAt(left, at[3])
                    /\ \A t \in Int : Covers(left, t) <=>
                          /\ t >= at[3] /\ ~Covers(removals, t)
                          /\ \E j \in at[1]..Len(list) : list[j].start <= t /\ t < list[j].end
                    /\ Real(removals) => Lined(left)
<1>. DEFINE D == SubtractPlaces(list, removals)
            n == Len(list)
            k0 == Len(removals)
            m == [at \in D |-> (n - at[1]) + (k0 + 1 - at[2])]
            After(i, t) == \E j \in i..n : list[j].start <= t /\ t < list[j].end
            Reached(i, k, c) == /\ list[i].start <= c /\ (c <= list[i].start \/ c <= list[i].end)
                                /\ \A q \in 1..k-1 : removals[q].end <= c
            Given(left, i, c) == /\ left \in Seq(Spans) /\ Real(left) /\ BeginsAt(left, c)
                                 /\ \A t \in Int : Covers(left, t) <=>
                                       t >= c /\ ~Covers(removals, t) /\ After(i, t)
                                 /\ Real(removals) => Lined(left)
            P == {at \in D : Reached(at[1], at[2], at[3]) => Given(f[at], at[1], at[3])}
<1>1. n \in Nat /\ k0 \in Nat /\ DOMAIN list = 1..n /\ DOMAIN removals = 1..k0
  BY SpansOf
<1>2. /\ \A i \in 1..n : list[i].start \in Int /\ list[i].end \in Int
      /\ \A k \in 1..k0 : removals[k].start \in Int /\ removals[k].end \in Int
  BY <1>1, SpansOf
<1>3. \A at \in D : /\ at[1] \in 1..n /\ at[2] \in 1..k0 + 1 /\ at[3] \in Int
                    /\ at = <<at[1], at[2], at[3]>>
  BY DEF SubtractPlaces
<1>4. \A i \in 1..n, k \in 1..k0 + 1, c \in Int :
         /\ <<i, k, c>> \in D
         /\ <<i, k, c>>[1] = i /\ <<i, k, c>>[2] = k /\ <<i, k, c>>[3] = c
  BY DEF SubtractPlaces
<1>5. \A i, j \in 1..n : i < j => list[i].end < list[j].start /\ list[i].start <= list[j].start
  BY <1>1 DEF Lined
<1>6. \A i, j \in 1..k0 : i < j => /\ removals[i].end < removals[j].start
                                   /\ removals[i].start <= removals[j].start
  BY <1>1 DEF Lined
<1>7. m \in [D -> Nat] /\ \A at \in D : m[at] = (n - at[1]) + (k0 + 1 - at[2])
  <2>1. ASSUME NEW at \in D
        PROVE  (n - at[1]) + (k0 + 1 - at[2]) \in Nat
    <3>1. at[1] \in 1..n /\ at[2] \in 1..k0 + 1
      BY <1>3
    <3>. HIDE DEF n, k0
    <3>. QED
      BY <1>1, <3>1
  <2>. QED
    BY <2>1
<1>. HIDE DEF m, n, k0, D
<1>8. ASSUME NEW at \in D, \A y \in D : m[y] < m[at] => y \in P
      PROVE  at \in P
  <2>. DEFINE i == at[1]
              k == at[2]
              c == at[3]
              next == IF i = n THEN <<>> ELSE f[<<i + 1, k, list[i + 1].start>>]
  <2>1. SUFFICES ASSUME Reached(i, k, c) PROVE Given(f[at], i, c)
    OBVIOUS
  <2>2. /\ i \in 1..n /\ k \in 1..k0 + 1 /\ c \in Int
        /\ list[i].start \in Int /\ list[i].end \in Int
        /\ n \in Nat /\ k0 \in Nat
    BY <1>1, <1>2, <1>3
  <2>30. \A e \in Int : list[i].end < e /\ list[i].start <= e => c <= e
    <3>1. list[i].start <= c /\ (c <= list[i].start \/ c <= list[i].end)
      BY <2>1
    <3>. HIDE DEF i, c
    <3>. QED
      BY <2>2, <3>1
  <2>31. \A q \in 1..k-1 : removals[q].end <= c /\ removals[q].end \in Int
    <3>1. \A q \in 1..k-1 : q \in 1..k0
      <4>. HIDE DEF k
      <4>. QED
        BY <2>2
    <3>. QED
      BY <1>2, <2>1, <3>1
  <2>3. f[at] = IF k > k0 \/ removals[k].start >= list[i].end
                THEN Piece(c, list[i].end) \o next
                ELSE IF removals[k].end <= c
                THEN f[<<i, k + 1, c>>]
                ELSE Piece(c, removals[k].start) \o
                     (IF Passes(removals[k], list[i])
                      THEN f[<<i, k + 1, Larger(c, removals[k].end)>>]
                      ELSE Piece(Larger(c, removals[k].end), list[i].end) \o next)
    <3>1. f[at] = SubtractStep(list, removals, f, at)
      BY DEF D
    <3>. QED
      BY <3>1, Zenon DEF SubtractStep, n, k0
  <2>4. m[at] = (n - i) + (k0 + 1 - k)
    BY <1>7
  <2>5. ASSUME NEW e \in Int, k <= k0, Reached(i, k + 1, e)
        PROVE  Given(f[<<i, k + 1, e>>], i, e)
    <3>. DEFINE y == <<i, k + 1, e>>
    <3>1. k + 1 \in 1..k0 + 1
      BY <2>2, <2>5
    <3>2. y \in D /\ y[1] = i /\ y[2] = k + 1 /\ y[3] = e
      BY <1>4, <2>2, <3>1
    <3>3. m[y] = (n - i) + (k0 + 1 - (k + 1))
      BY <1>7, <3>2
    <3>. HIDE DEF y, i, k
    <3>4. m[y] < m[at]
      BY <2>2, <2>4, <3>3
    <3>5. y \in P
      BY <1>8, <3>2, <3>4
    <3>. HIDE DEF Reached, Given
    <3>6. Given(f[y], i, e)
      BY <2>5, <3>2, <3>5
    <3>. QED
      BY <3>6 DEF y
  \* The next span begins where its removals do not end later.
  <2>6. ASSUME i # n
        PROVE  Given(next, i + 1, list[i + 1].start)
    <3>. DEFINE e == list[i + 1].start
                y == <<i + 1, k, e>>
    <3>1. i + 1 \in 1..n /\ e \in Int
      BY <1>2, <2>2, <2>6, SMTT(30)
    <3>2. y \in D /\ y[1] = i + 1 /\ y[2] = k /\ y[3] = e
      BY <1>4, <2>2, <3>1
    <3>3. m[y] = (n - (i + 1)) + (k0 + 1 - k)
      BY <1>7, <3>2
    <3>4. list[i].end < e /\ list[i].start <= e
      BY <1>5, <2>2, <3>1, SMTT(30)
    <3>5. c <= e
      BY <2>30, <3>1, <3>4
    <3>6. Reached(i + 1, k, e)
      <4>1. \A q \in 1..k-1 : removals[q].end <= e
        <5>. HIDE DEF c, k, e
        <5>. QED
          BY <2>2, <2>31, <3>1, <3>5
      <4>2. list[i + 1].start <= e /\ e <= list[i + 1].start
        BY <3>1
      <4>. HIDE DEF i, k, e
      <4>. QED
        BY <4>1, <4>2
    <3>7. next = f[y]
      BY <2>6
    <3>. HIDE DEF y, i, k, next, e
    <3>8. m[y] < m[at]
      BY <2>2, <2>4, <3>3
    <3>9. y \in P
      BY <1>8, <3>2, <3>8
    <3>. HIDE DEF Reached, Given
    <3>10. Given(f[y], i + 1, e)
      BY <3>2, <3>6, <3>9
    <3>. QED
      BY <3>7, <3>10 DEF e
  <2>7. PICK b \in Int : /\ next \in Seq(Spans) /\ Real(next) /\ BeginsAt(next, b)
                         /\ \A t \in Int : Covers(next, t) <=>
                               ~Covers(removals, t) /\ After(i + 1, t)
                         /\ Real(removals) => Lined(next)
                         /\ list[i].end < b /\ c <= b
    <3>1. CASE i = n
      <4>1. next = <<>> /\ \A t : ~After(i + 1, t)
        BY <2>2, <3>1
      <4>2. \E b \in Int : list[i].end < b /\ c <= b
        <5>. DEFINE b == Larger(list[i].end, c) + 1
        <5>. HIDE DEF i, c
        <5>1. b \in Int /\ list[i].end < b /\ c <= b
          BY <2>2, SMTT(30) DEF Larger
        <5>. QED
          BY <5>1
      <4>. HIDE DEF next, After
      <4>. QED
        BY <4>1, <4>2, EmptyList
    <3>2. CASE i # n
      <4>. DEFINE e == list[i + 1].start
      <4>1. i + 1 \in 1..n /\ e \in Int
        BY <1>2, <2>2, <3>2, SMTT(30)
      <4>2. list[i].end < e /\ list[i].start <= e
        BY <1>5, <2>2, <4>1, SMTT(30)
      <4>3. c <= e
        BY <2>30, <4>1, <4>2
      <4>4. \A t \in Int : After(i + 1, t) => t >= e
        <5>1. ASSUME NEW t \in Int, NEW j \in i + 1..n, list[j].start <= t
              PROVE  t >= e
          <6>1. j \in 1..n /\ (j = i + 1 \/ i + 1 < j)
            BY <2>2, <5>1
          <6>2. e <= list[j].start /\ list[j].start \in Int
            BY <1>2, <1>5, <4>1, <6>1
          <6>. QED
            BY <4>1, <5>1, <6>2
        <5>. QED
          BY <5>1
      <4>5. Given(next, i + 1, e)
        BY <2>6, <3>2
      <4>. HIDE DEF next, After, e
      <4>. QED
        BY <4>1, <4>2, <4>3, <4>4, <4>5
    <3>. QED
      BY <3>1, <3>2
  <2>8. \A t \in Int : After(i, t) <=> (list[i].start <= t /\ t < list[i].end) \/ After(i + 1, t)
    <3>1. i \in i..n /\ \A j \in i..n : j = i \/ j \in i + 1..n
      BY <2>2, SMTT(30)
    <3>2. \A j \in i + 1..n : j \in i..n
      BY <2>2
    <3>. HIDE DEF i
    <3>. QED
      BY <3>1, <3>2
  <2>9. \A t \in Int : After(i + 1, t) => t >= c
    <3>1. ASSUME NEW t \in Int, NEW j \in i + 1..n, list[j].start <= t
          PROVE  t >= c
      <4>1. j \in 1..n /\ i < j
        BY <2>2, <3>1
      <4>2. list[i].end < list[j].start /\ list[i].start <= list[j].start /\ list[j].start \in Int
        BY <1>2, <1>5, <2>2, <4>1
      <4>. QED
        <5>1. c <= list[j].start
          BY <2>30, <4>2
        <5>. HIDE DEF c, i
        <5>. QED
          BY <2>2, <3>1, <4>2, <5>1
    <3>. QED
      BY <3>1
  \* The removals before the k-th are over by the cursor.
  <2>10. ASSUME NEW t \in Int, NEW e \in Int, t >= c, t < e, k <= k0 => removals[k].start >= e
         PROVE  ~Covers(removals, t)
    <3>1. SUFFICES ASSUME NEW q \in 1..k0, removals[q].start <= t, t < removals[q].end
                   PROVE  FALSE
      BY <1>1 DEF Covers
    <3>2. removals[q].start \in Int /\ removals[q].end \in Int
      BY <1>2
    <3>3. CASE q \in 1..k-1
      BY <2>1, <2>2, <2>10, <3>1, <3>2, <3>3, SMTT(30)
    <3>4. CASE q \notin 1..k-1
      <4>1. k <= k0 /\ k \in 1..k0 /\ (q = k \/ k < q)
        BY <2>2, <3>1, <3>4
      <4>2. removals[k].start <= removals[q].start /\ removals[k].start \in Int
        BY <1>2, <1>6, <3>2, <4>1
      <4>. QED
        BY <2>10, <3>1, <3>2, <4>1, <4>2
    <3>. QED
      BY <3>3, <3>4
  <2>. HIDE DEF i, k, c, next, After
  <2>11. CASE k > k0 \/ removals[k].start >= list[i].end
    <3>1. f[at] = Piece(c, list[i].end) \o next
      BY <2>3, <2>11, Zenon
    <3>2. \A t \in Int : c <= t /\ t < list[i].end =>
             /\ ~Covers(removals, t) /\ list[i].start <= t
      <4>1. k <= k0 => removals[k].start >= list[i].end
        BY <2>2, <2>11
      <4>. QED
        BY <2>1, <2>2, <2>10, <4>1
    <3>3. /\ f[at] \in Seq(Spans) /\ Real(f[at]) /\ BeginsAt(f[at], c)
          /\ \A t \in Int : Covers(f[at], t) <=> (c <= t /\ t < list[i].end) \/ Covers(next, t)
          /\ Real(removals) => Lined(f[at])
      BY <2>2, <2>7, <3>1, PieceAhead
    <3>4. ASSUME NEW t \in Int
          PROVE  Covers(f[at], t) <=> t >= c /\ ~Covers(removals, t) /\ After(i, t)
      BY <2>2, <2>7, <2>8, <2>9, <3>2, <3>3
    <3>. QED
      BY <3>3, <3>4
  <2>12. ASSUME ~(k > k0 \/ removals[k].start >= list[i].end)
         PROVE  Given(f[at], i, c)
    <3>. DEFINE gone == removals[k]
                e == Larger(c, gone.end)
    <3>1. k \in 1..k0 /\ k <= k0 /\ gone.start \in Int /\ gone.end \in Int
      BY <1>2, <2>2, <2>12
    <3>2. gone.start < list[i].end
      BY <2>2, <2>12, <3>1
    <3>3. \A q \in 1..k : q = k \/ q \in 1..k-1
      BY <2>2
    <3>4. CASE gone.end <= c
      <4>1. f[at] = f[<<i, k + 1, c>>]
        BY <2>3, <2>12, <3>4, Zenon
      <4>2. Reached(i, k + 1, c)
        <5>1. (k + 1) - 1 = k
          BY <2>2
        <5>. QED
          BY <2>1, <3>3, <3>4, <5>1
      <4>. QED
        BY <2>2, <2>5, <3>1, <4>1, <4>2
    <3>5. ASSUME ~(gone.end <= c)
          PROVE  Given(f[at], i, c)
      <4>1. e = gone.end /\ e > c /\ e \in Int
        BY <2>2, <3>1, <3>5 DEF Larger
      <4>2. \A t \in Int : gone.start <= t /\ t < gone.end => Covers(removals, t)
        BY <1>1, <3>1 DEF Covers
      <4>3. \A t \in Int : c <= t /\ t < gone.start => ~Covers(removals, t)
        BY <2>10, <3>1
      <4>4. CASE Passes(gone, list[i])
        <5>. DEFINE rest == f[<<i, k + 1, e>>]
        <5>1. f[at] = Piece(c, gone.start) \o rest
          BY <2>3, <2>12, <3>5, <4>4, Zenon
        <5>2. e <= list[i].end
          BY <4>1, <4>4 DEF Passes
        <5>3. Reached(i, k + 1, e)
          <6>1. (k + 1) - 1 = k
            BY <2>2
          <6>2. \A q \in 1..k : removals[q].end <= e
            <7>1. \A q \in 1..k-1 : removals[q].end \in Int /\ removals[q].end <= c
              BY <1>2, <2>1, <2>2
            <7>. QED
              BY <2>2, <3>3, <4>1, <7>1, SMTT(30)
          <6>3. list[i].start <= e
            BY <2>1, <2>2, <4>1
          <6>. HIDE DEF e, gone
          <6>. QED
            BY <5>2, <6>1, <6>2, <6>3
        <5>. HIDE DEF e
        <5>4. Given(rest, i, e)
          BY <2>5, <3>1, <4>1, <5>3
        <5>. HIDE DEF rest
        <5>40. rest \in Seq(Spans) /\ Real(rest) /\ BeginsAt(rest, e)
          BY <5>4
        <5>41. e \in Int /\ c <= e /\ gone.start \in Int /\ c \in Int /\ c <= c
          BY <2>2, <3>1, <4>1
        <5>. HIDE DEF gone
        <5>5. /\ f[at] \in Seq(Spans) /\ Real(f[at]) /\ BeginsAt(f[at], c)
              /\ \A t \in Int : Covers(f[at], t) <=> (c <= t /\ t < gone.start) \/ Covers(rest, t)
              /\ Lined(rest) /\ gone.start < e => Lined(f[at])
          <6>1. /\ Piece(c, gone.start) \o rest \in Seq(Spans)
                /\ Real(Piece(c, gone.start) \o rest)
                /\ \A d \in Int : d <= c /\ d <= e => BeginsAt(Piece(c, gone.start) \o rest, d)
                /\ \A t \in Int : Covers(Piece(c, gone.start) \o rest, t)
                                   <=> (c <= t /\ t < gone.start) \/ Covers(rest, t)
                /\ Lined(rest) /\ gone.start < e => Lined(Piece(c, gone.start) \o rest)
            BY <5>40, <5>41, PieceAhead
          <6>. QED
            BY <5>1, <5>41, <6>1
        <5>6. Real(removals) => Lined(f[at])
          <6>1. Real(removals) => gone.start < gone.end
            BY <1>1, <3>1 DEF Real, gone
          <6>. QED
            BY <4>1, <5>4, <5>5, <6>1
        <5>7. ASSUME NEW t \in Int
              PROVE  Covers(f[at], t) <=> t >= c /\ ~Covers(removals, t) /\ After(i, t)
          <6>1. Covers(rest, t) <=> t >= e /\ ~Covers(removals, t) /\ After(i, t)
            BY <5>4
          <6>2. c <= t /\ t < gone.start => After(i, t)
            BY <2>1, <2>2, <2>8, <3>1, <3>2, SMTT(30)
          <6>3. gone.start <= t /\ t < gone.end => Covers(removals, t)
            BY <4>2
          <6>4. c <= t /\ t < gone.start => ~Covers(removals, t)
            BY <4>3
          <6>5. Covers(f[at], t) <=> (c <= t /\ t < gone.start) \/ Covers(rest, t)
            BY <5>5
          <6>6. e = gone.end /\ e > c /\ gone.start \in Int /\ gone.end \in Int /\ c \in Int
            BY <2>2, <3>1, <4>1
          <6>. HIDE DEF gone
          <6>7. (c <= t /\ t < gone.start) \/ (gone.start <= t /\ t < gone.end) \/ t >= e \/ t < c
            BY <6>6
          <6>8. t >= e => t >= c
            BY <6>6
          <6>9. c <= t => t >= c
            BY <6>6
          <6>10. t < c => ~(t >= c)
            BY <6>6
          <6>. QED
            BY <6>1, <6>2, <6>3, <6>4, <6>5, <6>7, <6>8, <6>9, <6>10
        <5>. QED
          BY <5>5, <5>6, <5>7
      <4>5. CASE ~Passes(gone, list[i])
        <5>1. f[at] = Piece(c, gone.start) \o (Piece(e, list[i].end) \o next)
          BY <2>3, <2>12, <3>5, <4>5, Zenon
        <5>2. list[i].end < e
          BY <2>2, <3>1, <4>1, <4>5 DEF Passes
        <5>3. Piece(e, list[i].end) \o next = next
          <6>1. Piece(e, list[i].end) = <<>>
            BY <2>2, <4>1, <5>2 DEF Piece
          <6>. QED
            BY <2>7, <6>1
        <5>4. gone.start < b
          BY <2>2, <2>7, <3>1, <3>2
        <5>5. /\ f[at] \in Seq(Spans) /\ Real(f[at]) /\ BeginsAt(f[at], c)
              /\ \A t \in Int : Covers(f[at], t) <=> (c <= t /\ t < gone.start) \/ Covers(next, t)
              /\ Real(removals) => Lined(f[at])
          <6>. DEFINE upTo == gone.start
                      cut == Piece(c, upTo) \o next
          <6>1. f[at] = cut
            BY <5>1, <5>3
          <6>2. /\ upTo \in Int /\ upTo < b
                /\ next \in Seq(Spans) /\ Real(next) /\ BeginsAt(next, b) /\ c <= b
                /\ Real(removals) => Lined(next)
            BY <2>7, <3>1, <5>4
          <6>. HIDE DEF gone, upTo, next, c
          <6>3. /\ cut \in Seq(Spans) /\ Real(cut)
                /\ c <= c /\ c <= b => BeginsAt(cut, c)
                /\ \A t \in Int : Covers(cut, t) <=> (c <= t /\ t < upTo) \/ Covers(next, t)
                /\ Lined(next) /\ upTo < b => Lined(cut)
            BY <2>2, <6>2, PieceAhead
          <6>4. c <= c
            BY <2>2
          <6>. HIDE DEF cut
          <6>. QED
            BY <6>1, <6>2, <6>3, <6>4 DEF upTo
        <5>6. ASSUME NEW t \in Int
              PROVE  Covers(f[at], t) <=> t >= c /\ ~Covers(removals, t) /\ After(i, t)
          <6>1. c <= t /\ t < gone.start => After(i, t)
            <7>1. list[i].start <= c
              BY <2>1
            <7>2. c <= t /\ t < gone.start => list[i].start <= t /\ t < list[i].end
              <8>. HIDE DEF c, i, gone
              <8>. QED
                BY <2>2, <3>1, <3>2, <7>1
            <7>. QED
              BY <2>8, <7>2
          <6>2. list[i].start <= t /\ t < list[i].end /\ ~Covers(removals, t) => t < gone.start
            BY <2>2, <3>1, <4>1, <4>2, <5>2
          <6>. QED
            BY <2>2, <2>7, <2>8, <2>9, <3>1, <4>3, <5>5, <6>1, <6>2
        <5>. QED
          BY <5>5, <5>6
      <4>. QED
        BY <4>4, <4>5
    <3>. QED
      BY <3>4, <3>5
  <2>. QED
    BY <2>11, <2>12
<1>9. \A at \in D : at \in P
  <2>. HIDE DEF P
  <2>. QED
    BY <1>7, <1>8, ByMeasure
<1>. QED
  BY <1>9 DEF D, n

\* What subtractIntervals leaves: of the spans, what no removal covers.
LEMMA SubtractExact ==
    ASSUME NEW list \in Seq(Spans), NEW removals \in Seq(Spans), Lined(list), Lined(removals)
    PROVE  /\ SubtractIntervals(list, removals) \in Seq(Spans)
           /\ Real(SubtractIntervals(list, removals))
           /\ \A t \in Int : Covers(SubtractIntervals(list, removals), t)
                               <=> Covers(list, t) /\ ~Covers(removals, t)
           /\ Real(removals) => Lined(SubtractIntervals(list, removals))
<1>1. CASE list = <<>>
  <2>1. SubtractIntervals(list, removals) = <<>>
    BY <1>1, Zenon DEF SubtractIntervals
  <2>. QED
    BY <1>1, <2>1, EmptyList
<1>2. CASE list # <<>>
  <2>1. PICK f : /\ SubtractIntervals(list, removals) = f[<<1, 1, list[1].start>>]
                 /\ \A at \in SubtractPlaces(list, removals) :
                       f[at] = SubtractStep(list, removals, f, at)
    BY <1>2, SubtractWalk
  <2>. DEFINE c  == list[1].start
              at == <<1, 1, c>>
              left == f[at]
  <2>2. /\ Len(list) \in Nat \ {0} /\ DOMAIN list = 1..Len(list) /\ Len(removals) \in Nat
        /\ \A i \in DOMAIN list : list[i].start \in Int /\ list[i].end \in Int
    BY <1>2, SpansOf
  <2>3. c \in Int
    BY <2>2
  <2>4. at \in SubtractPlaces(list, removals) /\ at[1] = 1 /\ at[2] = 1 /\ at[3] = c
    BY <2>2, <2>3 DEF SubtractPlaces
  <2>5. list[1].start <= c /\ c <= list[1].start
    BY <2>3
  <2>6. /\ list[at[1]].start <= at[3] /\ (at[3] <= list[at[1]].start \/ at[3] <= list[at[1]].end)
        /\ \A k \in 1..at[2]-1 : removals[k].end <= at[3]
    <3>. HIDE DEF at, c
    <3>1. \A k \in 1..1-1 : FALSE
      OBVIOUS
    <3>. QED
      BY <2>4, <2>5, <3>1
  <2>. HIDE DEF at, c
  <2>7. /\ left \in Seq(Spans) /\ Real(left)
        /\ \A t \in Int : Covers(left, t) <=>
              /\ t >= c /\ ~Covers(removals, t)
              /\ \E j \in 1..Len(list) : list[j].start <= t /\ t < list[j].end
        /\ Real(removals) => Lined(left)
    <3>1. /\ left \in Seq(Spans) /\ Real(left)
          /\ \A t \in Int : Covers(left, t) <=>
                /\ t >= at[3] /\ ~Covers(removals, t)
                /\ \E j \in at[1]..Len(list) : list[j].start <= t /\ t < list[j].end
          /\ Real(removals) => Lined(left)
      <4>1. \A x \in SubtractPlaces(list, removals) :
               /\ list[x[1]].start <= x[3] /\ (x[3] <= list[x[1]].start \/ x[3] <= list[x[1]].end)
               /\ \A k \in 1..x[2]-1 : removals[k].end <= x[3]
               => /\ f[x] \in Seq(Spans) /\ Real(f[x]) /\ BeginsAt(f[x], x[3])
                  /\ \A t \in Int : Covers(f[x], t) <=>
                        /\ t >= x[3] /\ ~Covers(removals, t)
                        /\ \E j \in x[1]..Len(list) : list[j].start <= t /\ t < list[j].end
                  /\ Real(removals) => Lined(f[x])
        BY <1>2, <2>1, SubtractFrom, Zenon
      <4>. QED
        BY <2>4, <2>6, <4>1
    <3>. QED
      BY <2>4, <3>1
  <2>8. \A j \in 1..Len(list) : c <= list[j].start
    <3>1. \A j \in 1..Len(list) : j = 1 \/ 1 < j
      BY <2>2
    <3>. QED
      <4>1. 1 \in DOMAIN list /\ \A j \in 1..Len(list) : j \in DOMAIN list
        BY <2>2
      <4>2. \A j \in DOMAIN list : 1 < j => list[1].start <= list[j].start
        BY <4>1 DEF Lined
      <4>. QED
        BY <2>3, <3>1, <4>1, <4>2 DEF c
  <2>9. \A t \in Int : Covers(list, t) => t >= c
    BY <2>2, <2>3, <2>8 DEF Covers
  <2>10. \A t \in Int : Covers(list, t) <=>
             \E j \in 1..Len(list) : list[j].start <= t /\ t < list[j].end
    BY <2>2 DEF Covers
  <2>. QED
    BY <2>1, <2>7, <2>9, <2>10 DEF at, c
<1>. QED
  BY <1>1, <1>2

-----------------------------------------------------------------------------
(* Lists that are built one element after the other.                       *)

\* What holds at first and of each next one holds of all.
LEMMA BySteps ==
    ASSUME NEW n \in Nat, NEW P, 0 \in P, \A i \in 1..n : i - 1 \in P => i \in P
    PROVE  \A i \in 0..n : i \in P
<1>. DEFINE m == [i \in 0..n |-> i]
<1>1. m \in [0..n -> Nat] /\ \A i \in 0..n : m[i] = i
  OBVIOUS
<1>. HIDE DEF m
<1>2. ASSUME NEW i \in 0..n, \A j \in 0..n : m[j] < m[i] => j \in P
      PROVE  i \in P
  <2>1. CASE i = 0
    BY <2>1
  <2>2. CASE i # 0
    <3>1. i \in 1..n /\ i - 1 \in 0..n /\ i - 1 < i
      BY <2>2
    <3>. QED
      BY <1>1, <1>2, <3>1
  <2>. QED
    BY <2>1, <2>2
<1>3. \A i \in 0..n : (\A j \in 0..n : m[j] < m[i] => j \in P) => i \in P
  BY <1>2
<1>. DEFINE D == 0..n
<1>. HIDE DEF D
<1>4. \A i \in D : i \in P
  <2>1. m \in [D -> Nat] /\ \A i \in D : (\A j \in D : m[j] < m[i] => j \in P) => i \in P
    BY <1>1, <1>3 DEF D
  <2>. QED
    BY <2>1, ByMeasure
<1>. QED
  BY <1>4 DEF D

\* A value for each number, from the value before it.
StaysIn(V, n, G) == \A v \in V, i \in 1..n : G[<<v, i>>] \in V

\* What is computed one step after the other from a first value exists.
LEMMA Sequel ==
    ASSUME NEW n \in Nat, NEW V, NEW base \in V, NEW G, StaysIn(V, n, G)
    PROVE  \E f \in [0..n -> V] : f[0] = base /\ \A i \in 1..n : f[i] = G[<<f[i - 1], i>>]
<1>0. \A v \in V, i \in 1..n : G[<<v, i>>] \in V
  BY DEF StaysIn
<1>. DEFINE D == 0..n
            m == [i \in D |-> i]
            H == [p \in D \X [D -> V] |->
                    IF p[1] = 0 THEN base ELSE G[<<p[2][p[1] - 1], p[1]>>]]
<1>1. m \in [D -> Nat] /\ \A i \in D : m[i] = i
  OBVIOUS
<1>2. \A i \in D, f \in [D -> V] : H[<<i, f>>] = IF i = 0 THEN base ELSE G[<<f[i - 1], i>>]
  <2>1. \A i \in D, f \in [D -> V] : <<i, f>> \in D \X [D -> V]
    OBVIOUS
  <2>. HIDE DEF D
  <2>. QED
    BY <2>1
<1>. HIDE DEF m, H
<1>3. \A i \in D : i = 0 \/ (i \in 1..n /\ i - 1 \in D /\ i - 1 < i)
  OBVIOUS
<1>. HIDE DEF D
<1>4. \A i \in D, f \in [D -> V] : H[<<i, f>>] \in V
  <2>. SUFFICES ASSUME NEW i \in D, NEW f \in [D -> V] PROVE H[<<i, f>>] \in V
    OBVIOUS
  <2>1. i # 0 => f[i - 1] \in V /\ i \in 1..n
    BY <1>3
  <2>. QED
    BY <1>0, <1>2, <2>1
<1>5. ASSUME NEW i \in D, NEW f \in [D -> V], NEW g \in [D -> V],
             \A y \in D : m[y] < m[i] => f[y] = g[y]
      PROVE  H[<<i, f>>] = H[<<i, g>>]
  <2>1. i # 0 => f[i - 1] = g[i - 1]
    BY <1>1, <1>3, <1>5
  <2>2. /\ H[<<i, f>>] = IF i = 0 THEN base ELSE G[<<f[i - 1], i>>]
        /\ H[<<i, g>>] = IF i = 0 THEN base ELSE G[<<g[i - 1], i>>]
    BY <1>2
  <2>. QED
    BY <2>1, <2>2
<1>6. LooksLower(D, V, m, H)
  BY <1>1, <1>4, <1>5 DEF LooksLower
<1>7. PICK f \in [D -> V] : \A i \in D : f[i] = H[<<i, f>>]
  BY <1>6, Recursion
<1>8. 0 \in D /\ \A i \in 1..n : i \in D /\ i # 0
  BY DEF D
<1>9. f[0] = base /\ \A i \in 1..n : f[i] = G[<<f[i - 1], i>>]
  BY <1>2, <1>7, <1>8
<1>. QED
  BY <1>9 DEF D

\* Lists put together.
LEMMA ConcatSteps ==
    ASSUME NEW T, NEW lists \in Seq(Seq(T))
    PROVE  \E f \in [0..Len(lists) -> Seq(T)] :
              /\ f[0] = <<>>
              /\ \A i \in 1..Len(lists) : f[i] = f[i - 1] \o lists[i]
              /\ Concatenated(lists) = f[Len(lists)]
<1>. DEFINE n == Len(lists)
            V == Seq(T)
            Solves(f) == f = [i \in 0..n |-> IF i = 0 THEN <<>> ELSE f[i - 1] \o lists[i]]
            G == [p \in V \X (1..n) |-> p[1] \o lists[p[2]]]
            first == CHOOSE f : Solves(f)
<1>1. n \in Nat /\ \A i \in 1..n : lists[i] \in V
  OBVIOUS
<1>2. Concatenated(lists) = first[n]
  BY Zenon DEF Concatenated
<1>3. \A v \in V, i \in 1..n : G[<<v, i>>] = v \o lists[i] /\ v \o lists[i] \in V
  <2>1. \A v, u \in V : v \o u \in V
    OBVIOUS
  <2>. HIDE DEF V, n
  <2>. QED
    BY <1>1, <2>1
<1>4. <<>> \in V
  OBVIOUS
<1>. HIDE DEF n, V, G
<1>5. PICK f \in [0..n -> V] : f[0] = <<>> /\ \A i \in 1..n : f[i] = G[<<f[i - 1], i>>]
  <2>1. StaysIn(V, n, G)
    BY <1>3 DEF StaysIn
  <2>. QED
    BY <1>1, <1>4, <2>1, Sequel, SMTT(30)
<1>6. \A i \in 0..n : f[i] = IF i = 0 THEN <<>> ELSE f[i - 1] \o lists[i]
  <2>1. \A i \in 0..n : i = 0 \/ (i \in 1..n /\ i - 1 \in 0..n)
    BY <1>1
  <2>. QED
    BY <1>3, <1>5, <2>1
<1>7. Solves(f)
  BY <1>6
<1>8. Solves(first)
  <2>. HIDE DEF Solves
  <2>. QED
    BY <1>7
<1>. HIDE DEF first
<1>9. first = [i \in 0..n |-> IF i = 0 THEN <<>> ELSE first[i - 1] \o lists[i]]
  BY <1>8
<1>10. \A i \in 0..n : i = 0 \/ (i \in 1..n /\ i - 1 \in 0..n)
  BY <1>1
<1>11. \A i \in 1..n : i \in 0..n /\ i # 0
  BY <1>1
<1>12. first[0] = <<>> /\ \A i \in 1..n : first[i] = first[i - 1] \o lists[i]
  <2>1. 0 \in 0..n
    BY <1>1
  <2>. QED
    BY <1>9, <1>11, <2>1, Zenon
<1>13. first \in [0..n -> V]
  <2>. DEFINE P == {i \in 0..n : first[i] \in V}
  <2>1. 0 \in P
    BY <1>1, <1>4, <1>12
  <2>2. ASSUME NEW i \in 1..n, i - 1 \in P
        PROVE  i \in P
    BY <1>3, <1>11, <1>12, <2>2
  <2>3. \A i \in 0..n : i \in P
    <3>. HIDE DEF P
    <3>. QED
      BY <1>1, <2>1, <2>2, BySteps
  <2>4. \A i \in 0..n : first[i] \in V
    BY <2>3
  <2>. QED
    BY <1>9, <2>4
<1>. QED
  BY <1>2, <1>12, <1>13 DEF n, V

\* Their elements are those of the lists, and what relates the elements of each and those
\* of each to those of the next relates all.
LEMMA ConcatExact ==
    ASSUME NEW T, NEW lists \in Seq(Seq(T)), NEW B
    PROVE  LET all == Concatenated(lists)
           IN  /\ all \in Seq(T)
               /\ \A p \in DOMAIN all : \E i \in DOMAIN lists : \E k \in DOMAIN lists[i] :
                     all[p] = lists[i][k]
               /\ \A i \in DOMAIN lists : \A k \in DOMAIN lists[i] : \E p \in DOMAIN all :
                     all[p] = lists[i][k]
               /\ (/\ \A i \in DOMAIN lists : \A k, l \in DOMAIN lists[i] :
                         k < l => <<lists[i][k], lists[i][l]>> \in B
                   /\ \A i, j \in DOMAIN lists : i < j =>
                         \A k \in DOMAIN lists[i], l \in DOMAIN lists[j] :
                             <<lists[i][k], lists[j][l]>> \in B)
                  => \A p, q \in DOMAIN all : p < q => <<all[p], all[q]>> \in B
<1>. DEFINE n == Len(lists)
            Apart == /\ \A i \in 1..n : \A k, l \in DOMAIN lists[i] :
                            k < l => <<lists[i][k], lists[i][l]>> \in B
                     /\ \A i, j \in 1..n : i < j =>
                            \A k \in DOMAIN lists[i], l \in DOMAIN lists[j] :
                                <<lists[i][k], lists[j][l]>> \in B
<1>1. PICK f \in [0..n -> Seq(T)] :
          /\ f[0] = <<>>
          /\ \A i \in 1..n : f[i] = f[i - 1] \o lists[i]
          /\ Concatenated(lists) = f[n]
  BY ConcatSteps
<1>2. /\ n \in Nat /\ DOMAIN lists = 1..n
      /\ \A i \in 1..n : lists[i] \in Seq(T) /\ i - 1 \in 0..n /\ i \in 0..n
  OBVIOUS
<1>3. \A s \in Seq(T) : Len(s) \in Nat /\ DOMAIN s = 1..Len(s)
  OBVIOUS
<1>4. ASSUME NEW s \in Seq(T), NEW u \in Seq(T)
      PROVE  /\ s \o u \in Seq(T) /\ DOMAIN (s \o u) = 1..Len(s) + Len(u)
             /\ \A p \in DOMAIN s : p \in DOMAIN (s \o u) /\ (s \o u)[p] = s[p]
             /\ \A k \in DOMAIN u : Len(s) + k \in DOMAIN (s \o u) /\ (s \o u)[Len(s) + k] = u[k]
             /\ \A p \in DOMAIN (s \o u) : p \in DOMAIN s
                                           \/ (p - Len(s) \in DOMAIN u /\ (s \o u)[p] = u[p - Len(s)])
  OBVIOUS
<1>. DEFINE P == {i \in 0..n :
        /\ \A p \in DOMAIN f[i] : \E j \in 1..i : \E k \in DOMAIN lists[j] : f[i][p] = lists[j][k]
        /\ \A j \in 1..i : \A k \in DOMAIN lists[j] : \E p \in DOMAIN f[i] : f[i][p] = lists[j][k]
        /\ Apart => \A p, q \in DOMAIN f[i] : p < q => <<f[i][p], f[i][q]>> \in B}
<1>. HIDE DEF n
<1>5. 0 \in P
  BY <1>1, <1>2
<1>6. ASSUME NEW i \in 1..n, i - 1 \in P
      PROVE  i \in P
  <2>. DEFINE s == f[i - 1]
              u == lists[i]
              r == f[i]
  <2>1. r = s \o u /\ s \in Seq(T) /\ u \in Seq(T) /\ i - 1 \in 0..n /\ i \in 0..n
    BY <1>1, <1>2
  <2>2. /\ \A p \in DOMAIN s : \E j \in 1..i - 1 : \E k \in DOMAIN lists[j] : s[p] = lists[j][k]
        /\ \A j \in 1..i - 1 : \A k \in DOMAIN lists[j] : \E p \in DOMAIN s : s[p] = lists[j][k]
        /\ Apart => \A p, q \in DOMAIN s : p < q => <<s[p], s[q]>> \in B
    BY <1>6
  <2>. HIDE DEF s, u, r
  <2>3. /\ DOMAIN r = 1..Len(s) + Len(u)
        /\ \A p \in DOMAIN s : p \in DOMAIN r /\ r[p] = s[p]
        /\ \A k \in DOMAIN u : Len(s) + k \in DOMAIN r /\ r[Len(s) + k] = u[k]
        /\ \A p \in DOMAIN r : p \in DOMAIN s \/ (p - Len(s) \in DOMAIN u /\ r[p] = u[p - Len(s)])
        /\ Len(s) \in Nat /\ Len(u) \in Nat /\ DOMAIN s = 1..Len(s) /\ DOMAIN u = 1..Len(u)
    <3>1. Len(s) \in Nat /\ Len(u) \in Nat /\ DOMAIN s = 1..Len(s) /\ DOMAIN u = 1..Len(u)
      BY <1>3, <2>1
    <3>2. /\ DOMAIN (s \o u) = 1..Len(s) + Len(u)
          /\ \A p \in DOMAIN s : p \in DOMAIN (s \o u) /\ (s \o u)[p] = s[p]
          /\ \A k \in DOMAIN u : Len(s) + k \in DOMAIN (s \o u) /\ (s \o u)[Len(s) + k] = u[k]
          /\ \A p \in DOMAIN (s \o u) : p \in DOMAIN s
                                      \/ (p - Len(s) \in DOMAIN u /\ (s \o u)[p] = u[p - Len(s)])
      BY <1>4, <2>1
    <3>. QED
      BY <2>1, <3>1, <3>2, Zenon
  <2>4. i \in 1..i /\ \A j \in 1..i : j = i \/ j \in 1..i - 1
    BY <1>2
  <2>5. \A j \in 1..i - 1 : j \in 1..i /\ j < i /\ j \in 1..n
    BY <1>2
  <2>6. \A p \in DOMAIN r : \E j \in 1..i : \E k \in DOMAIN lists[j] : r[p] = lists[j][k]
    <3>1. ASSUME NEW p \in DOMAIN s
          PROVE  \E j \in 1..i : \E k \in DOMAIN lists[j] : r[p] = lists[j][k]
      <4>1. PICK j \in 1..i - 1 : \E k \in DOMAIN lists[j] : s[p] = lists[j][k]
        BY <2>2
      <4>. QED
        BY <2>3, <2>5, <4>1
    <3>2. ASSUME NEW p \in DOMAIN r, p - Len(s) \in DOMAIN u, r[p] = u[p - Len(s)]
          PROVE  \E j \in 1..i : \E k \in DOMAIN lists[j] : r[p] = lists[j][k]
      BY <2>4, <3>2 DEF u
    <3>. QED
      BY <2>3, <3>1, <3>2
  <2>7. \A j \in 1..i : \A k \in DOMAIN lists[j] : \E p \in DOMAIN r : r[p] = lists[j][k]
    <3>1. ASSUME NEW j \in 1..i - 1, NEW k \in DOMAIN lists[j]
          PROVE  \E p \in DOMAIN r : r[p] = lists[j][k]
      BY <2>2, <2>3, SMTT(30)
    <3>2. ASSUME NEW k \in DOMAIN lists[i]
          PROVE  \E p \in DOMAIN r : r[p] = lists[i][k]
      <4>1. k \in DOMAIN u /\ u[k] = lists[i][k]
        BY DEF u
      <4>. QED
        BY <2>3, <4>1
    <3>. QED
      BY <2>4, <3>1, <3>2
  <2>8. ASSUME Apart, NEW p \in DOMAIN r, NEW q \in DOMAIN r, p < q
        PROVE  <<r[p], r[q]>> \in B
    <3>1. CASE p \in DOMAIN s /\ q \in DOMAIN s
      BY <2>2, <2>3, <2>8, <3>1
    <3>2. CASE p \in DOMAIN s /\ q \notin DOMAIN s
      <4>1. PICK j \in 1..i - 1 : \E k \in DOMAIN lists[j] : s[p] = lists[j][k]
        BY <2>2, <3>2
      <4>2. PICK k \in DOMAIN lists[j] : s[p] = lists[j][k]
        BY <4>1
      <4>3. q - Len(s) \in DOMAIN lists[i] /\ r[q] = lists[i][q - Len(s)]
        BY <2>3, <3>2 DEF u
      <4>4. <<lists[j][k], lists[i][q - Len(s)]>> \in B
        BY <2>5, <2>8, <4>3
      <4>. QED
        BY <2>3, <3>2, <4>2, <4>3, <4>4
    <3>3. CASE p \notin DOMAIN s
      <4>1. /\ p - Len(s) \in DOMAIN u /\ r[p] = u[p - Len(s)]
            /\ q - Len(s) \in DOMAIN u /\ r[q] = u[q - Len(s)]
            /\ p - Len(s) < q - Len(s)
        BY <2>3, <2>8, <3>3
      <4>2. <<u[p - Len(s)], u[q - Len(s)]>> \in B
        BY <2>8, <4>1 DEF u
      <4>. QED
        BY <4>1, <4>2
    <3>. QED
      BY <3>1, <3>2, <3>3
  <2>. HIDE DEF Apart
  <2>. QED
    BY <2>1, <2>6, <2>7, <2>8 DEF r
<1>7. n \in P
  <2>. HIDE DEF P
  <2>1. n \in 0..n
    BY <1>2
  <2>. QED
    BY <1>2, <1>5, <1>6, <2>1, BySteps
<1>8. f[n] \in Seq(T)
  BY <1>2
<1>. DEFINE all == f[n]
<1>. HIDE DEF all
<1>9. /\ \A p \in DOMAIN all : \E j \in 1..n : \E k \in DOMAIN lists[j] : all[p] = lists[j][k]
      /\ \A j \in 1..n : \A k \in DOMAIN lists[j] : \E p \in DOMAIN all : all[p] = lists[j][k]
      /\ Apart => \A p, q \in DOMAIN all : p < q => <<all[p], all[q]>> \in B
  <2>. HIDE DEF Apart
  <2>. QED
    BY <1>7 DEF all
<1>10. Concatenated(lists) = all /\ all \in Seq(T)
  BY <1>1, <1>8 DEF all
<1>11. DOMAIN lists = 1..n
  BY <1>2
<1>12. (/\ \A i \in DOMAIN lists : \A k, l \in DOMAIN lists[i] :
            k < l => <<lists[i][k], lists[i][l]>> \in B
       /\ \A i, j \in DOMAIN lists : i < j =>
            \A k \in DOMAIN lists[i], l \in DOMAIN lists[j] :
                <<lists[i][k], lists[j][l]>> \in B) => Apart
  BY <1>11
<1>13. Apart => \A p, q \in DOMAIN all : p < q => <<all[p], all[q]>> \in B
  BY <1>9
<1>. HIDE DEF Apart
<1>14. /\ \A p \in DOMAIN all : \E j \in DOMAIN lists : \E k \in DOMAIN lists[j] : all[p] = lists[j][k]
       /\ \A j \in DOMAIN lists : \A k \in DOMAIN lists[j] : \E p \in DOMAIN all : all[p] = lists[j][k]
  BY <1>9, <1>11
<1>15. (/\ \A i \in DOMAIN lists : \A k, l \in DOMAIN lists[i] :
            k < l => <<lists[i][k], lists[i][l]>> \in B
       /\ \A i, j \in DOMAIN lists : i < j =>
            \A k \in DOMAIN lists[i], l \in DOMAIN lists[j] :
                <<lists[i][k], lists[j][l]>> \in B)
       => \A p, q \in DOMAIN all : p < q => <<all[p], all[q]>> \in B
  BY <1>12, <1>13, Zenon
<1>. QED
  BY <1>10, <1>14, <1>15, Zenon

\* Spans in the order of their beginnings.
Rising(list) == \A i, j \in DOMAIN list : i < j => list[i].start <= list[j].start

\* Spans between two bounds.
Inside(list, lo, hi) == \A i \in DOMAIN list : lo <= list[i].start /\ list[i].end <= hi

\* One span more: it joins the last one or follows it.
LEMMA JoinedExact ==
    ASSUME NEW done \in Seq(Spans), NEW next \in Spans, Lined(done),
           \A k \in DOMAIN done : done[k].start <= next.start
    PROVE  /\ Joined(done, next) \in Seq(Spans)
           /\ Lined(Joined(done, next))
           /\ \A k \in DOMAIN Joined(done, next) : Joined(done, next)[k].start <= next.start
           /\ \A t \in Int : Covers(Joined(done, next), t)
                               <=> Covers(done, t) \/ (next.start <= t /\ t < next.end)
           /\ Real(done) /\ next.start < next.end => Real(Joined(done, next))
           /\ \A lo, hi \in Int : Inside(done, lo, hi) /\ lo <= next.start /\ next.end <= hi
                                    => Inside(Joined(done, next), lo, hi)
<1>. DEFINE n == Len(done)
            new == Joined(done, next)
<1>1. /\ n \in Nat /\ DOMAIN done = 1..n
      /\ \A i \in DOMAIN done : /\ i \in Nat /\ done[i] \in Spans
                                /\ done[i].start \in Int /\ done[i].end \in Int
  BY SpansOf
<1>2. next.start \in Int /\ next.end \in Int
  BY DEF Spans
<1>3. \A i, j \in DOMAIN done : i < j => done[i].end < done[j].start /\ done[i].start <= done[j].start
  BY DEF Lined
<1>4. CASE n > 0 /\ next.start <= done[n].end
  <2>. DEFINE e == Larger(done[n].end, next.end)
  <2>1. n \in DOMAIN done
    BY <1>1, <1>4
  <2>2. e \in Int /\ e >= done[n].end /\ e >= next.end /\ (e = done[n].end \/ e = next.end)
    BY <1>1, <1>2, <2>1 DEF Larger
  <2>3. new = [done EXCEPT ![n].end = e]
    BY <1>4 DEF Joined
  <2>. HIDE DEF e, new
  <2>4. new = [done EXCEPT ![n] = [start |-> done[n].start, end |-> e]]
    <3>1. [done[n] EXCEPT !.end = e] = [start |-> done[n].start, end |-> e]
      BY <1>1, <2>1 DEF Spans
    <3>. QED
      BY <2>3, <3>1
  <2>5. /\ new \in Seq(Spans) /\ DOMAIN new = DOMAIN done
        /\ new[n].start = done[n].start /\ new[n].end = e
        /\ \A i \in DOMAIN done : i # n => new[i] = done[i]
        /\ \A i \in DOMAIN done : new[i].start = done[i].start
    <3>1. [start |-> done[n].start, end |-> e] \in Spans
      BY <1>1, <2>1, <2>2 DEF Spans
    <3>2. /\ DOMAIN new = DOMAIN done
          /\ new[n] = [start |-> done[n].start, end |-> e]
          /\ \A i \in DOMAIN done : i # n => new[i] = done[i]
      BY <2>1, <2>4
    <3>3. new \in Seq(Spans)
      BY <2>1, <2>4, <3>1
    <3>. QED
      BY <3>2, <3>3
  <2>6. \A i, j \in DOMAIN done : i < j => i # n
    BY <1>1
  <2>7. Lined(new)
    BY <1>3, <2>5, <2>6 DEF Lined
  <2>8. \A k \in DOMAIN new : new[k].start <= next.start
    BY <2>5
  <2>9. ASSUME NEW t \in Int
        PROVE  Covers(new, t) <=> Covers(done, t) \/ (next.start <= t /\ t < next.end)
    <3>1. done[n].start <= t /\ t < e <=>
             (done[n].start <= t /\ t < done[n].end) \/ (next.start <= t /\ t < next.end)
      <4>1. done[n].start <= next.start
        BY <2>1
      <4>. HIDE DEF n
      <4>2. next.start <= done[n].end /\ done[n].start \in Int /\ done[n].end \in Int
        BY <1>1, <1>4, <2>1
      <4>. QED
        BY <1>2, <2>2, <4>1, <4>2
    <3>2. Covers(new, t) <=> (done[n].start <= t /\ t < e)
             \/ \E i \in DOMAIN done : i # n /\ done[i].start <= t /\ t < done[i].end
      BY <2>1, <2>5 DEF Covers
    <3>3. Covers(done, t) <=> (done[n].start <= t /\ t < done[n].end)
             \/ \E i \in DOMAIN done : i # n /\ done[i].start <= t /\ t < done[i].end
      BY <2>1 DEF Covers
    <3>. QED
      BY <3>1, <3>2, <3>3
  <2>10. ASSUME Real(done) PROVE Real(new)
    <3>1. done[n].start < e
      <4>1. done[n].start < done[n].end
        BY <2>1, <2>10 DEF Real
      <4>. QED
        BY <1>1, <2>1, <2>2, <4>1
    <3>. QED
      BY <2>5, <2>10, <3>1 DEF Real
  <2>11. ASSUME NEW lo \in Int, NEW hi \in Int, Inside(done, lo, hi), next.end <= hi
         PROVE  Inside(new, lo, hi)
    <3>1. e <= hi
      BY <2>1, <2>2, <2>11 DEF Inside
    <3>. QED
      BY <2>1, <2>5, <2>11, <3>1 DEF Inside
  <2>. QED
    BY <2>5, <2>7, <2>8, <2>9, <2>10, <2>11 DEF new
<1>5. CASE ~(n > 0 /\ next.start <= done[n].end)
  <2>1. new = Append(done, next)
    BY <1>5 DEF Joined
  <2>. HIDE DEF new
  <2>2. /\ new \in Seq(Spans) /\ DOMAIN new = 1..n+1 /\ new[n + 1] = next
        /\ \A i \in DOMAIN done : i \in DOMAIN new /\ new[i] = done[i]
        /\ n + 1 \in DOMAIN new
    BY <1>1, <2>1
  <2>3. \A i \in DOMAIN new : i = n + 1 \/ i \in DOMAIN done
    BY <1>1, <2>2
  <2>4. n + 1 \notin DOMAIN done /\ \A i \in DOMAIN done : i < n + 1
    BY <1>1
  <2>5. \A i \in DOMAIN done : done[i].end < next.start
    <3>1. SUFFICES ASSUME NEW i \in DOMAIN done PROVE done[i].end < next.start
      OBVIOUS
    <3>2. n \in DOMAIN done /\ n > 0 /\ done[n].end < next.start
      <4>1. n \in DOMAIN done /\ n > 0
        BY <1>1
      <4>. QED
        BY <1>1, <1>2, <1>5, <4>1
    <3>3. i = n \/ i < n
      BY <1>1
    <3>4. CASE i = n
      BY <3>2, <3>4
    <3>5. CASE i < n
      <4>1. done[i].end < done[n].start /\ done[n].start <= next.start
        BY <1>3, <3>2, <3>5
      <4>. QED
        BY <1>1, <1>2, <3>2, <4>1
    <3>. QED
      BY <3>3, <3>4, <3>5
  <2>6. Lined(new)
    <3>1. SUFFICES ASSUME NEW i \in DOMAIN new, NEW j \in DOMAIN new, i < j
                   PROVE  new[i].end < new[j].start /\ new[i].start <= new[j].start
      BY DEF Lined
    <3>2. i \in DOMAIN done
      BY <1>1, <2>2, <2>3, <3>1
    <3>3. CASE j = n + 1
      BY <2>2, <2>5, <3>2, <3>3
    <3>4. CASE j # n + 1
      BY <1>3, <2>2, <2>3, <3>1, <3>2, <3>4
    <3>. QED
      BY <3>3, <3>4
  <2>7. \A k \in DOMAIN new : new[k].start <= next.start
    BY <1>2, <2>2, <2>3
  <2>8. \A t \in Int : Covers(new, t) <=> Covers(done, t) \/ (next.start <= t /\ t < next.end)
    BY <2>2, <2>3 DEF Covers
  <2>9. Real(done) /\ next.start < next.end => Real(new)
    BY <2>2, <2>3 DEF Real
  <2>10. \A lo, hi \in Int : Inside(done, lo, hi) /\ lo <= next.start /\ next.end <= hi
                               => Inside(new, lo, hi)
    BY <2>2, <2>3 DEF Inside
  <2>. QED
    BY <2>2, <2>6, <2>7, <2>8, <2>9, <2>10 DEF new
<1>. QED
  BY <1>4, <1>5

\* Merging joins one span after the other.
LEMMA MergeSteps ==
    ASSUME NEW sorted \in Seq(Spans)
    PROVE  \E f \in [0..Len(sorted) -> Seq(Spans)] :
              /\ f[0] = <<>>
              /\ \A i \in 1..Len(sorted) : f[i] = Joined(f[i - 1], sorted[i])
              /\ MergeSorted(sorted) = f[Len(sorted)]
<1>. DEFINE n == Len(sorted)
            V == Seq(Spans)
            Solves(f) == f = [i \in 0..n |-> IF i = 0 THEN <<>> ELSE Joined(f[i - 1], sorted[i])]
            G == [p \in V \X (1..n) |-> Joined(p[1], sorted[p[2]])]
            merged == CHOOSE f : Solves(f)
<1>1. n \in Nat /\ \A i \in 1..n : sorted[i] \in Spans
  OBVIOUS
<1>2. MergeSorted(sorted) = merged[n]
  BY Zenon DEF MergeSorted
<1>3. \A v \in V, i \in 1..n : G[<<v, i>>] = Joined(v, sorted[i]) /\ Joined(v, sorted[i]) \in V
  <2>1. ASSUME NEW v \in V, NEW x \in Spans
        PROVE  Joined(v, x) \in V
    <3>. DEFINE e == Larger(v[Len(v)].end, x.end)
    <3>1. Append(v, x) \in V
      OBVIOUS
    <3>2. CASE Len(v) > 0 /\ x.start <= v[Len(v)].end
      <4>1. Len(v) \in DOMAIN v /\ v[Len(v)] \in Spans
        BY <3>2
      <4>2. e \in Int
        BY <4>1 DEF Larger, Spans
      <4>. HIDE DEF e
      <4>3. [v[Len(v)] EXCEPT !.end = e] \in Spans
        BY <4>1, <4>2 DEF Spans
      <4>4. [v EXCEPT ![Len(v)].end = e] \in V
        BY <4>1, <4>3
      <4>. QED
        BY <3>2, <4>4 DEF Joined, e
    <3>. QED
      BY <3>1, <3>2 DEF Joined
  <2>. HIDE DEF V, n
  <2>. QED
    BY <1>1, <2>1
<1>4. <<>> \in V
  OBVIOUS
<1>. HIDE DEF n, V, G
<1>5. PICK f \in [0..n -> V] : f[0] = <<>> /\ \A i \in 1..n : f[i] = G[<<f[i - 1], i>>]
  <2>1. StaysIn(V, n, G)
    BY <1>3 DEF StaysIn
  <2>. QED
    BY <1>1, <1>4, <2>1, Sequel
<1>6. \A i \in 0..n : f[i] = IF i = 0 THEN <<>> ELSE Joined(f[i - 1], sorted[i])
  <2>1. \A i \in 0..n : i = 0 \/ (i \in 1..n /\ i - 1 \in 0..n)
    BY <1>1
  <2>. QED
    BY <1>3, <1>5, <2>1
<1>7. Solves(f)
  BY <1>6
<1>8. Solves(merged)
  <2>. HIDE DEF Solves
  <2>. QED
    BY <1>7
<1>. HIDE DEF merged
<1>9. merged = [i \in 0..n |-> IF i = 0 THEN <<>> ELSE Joined(merged[i - 1], sorted[i])]
  BY <1>8
<1>10. \A i \in 1..n : i \in 0..n /\ i # 0
  BY <1>1
<1>11. merged[0] = <<>> /\ \A i \in 1..n : merged[i] = Joined(merged[i - 1], sorted[i])
  <2>1. 0 \in 0..n
    BY <1>1
  <2>. QED
    BY <1>9, <1>10, <2>1, Zenon
<1>12. merged \in [0..n -> V]
  <2>. DEFINE P == {i \in 0..n : merged[i] \in V}
  <2>1. 0 \in P
    BY <1>1, <1>4, <1>11
  <2>2. ASSUME NEW i \in 1..n, i - 1 \in P
        PROVE  i \in P
    BY <1>3, <1>10, <1>11, <2>2
  <2>3. \A i \in 0..n : i \in P
    <3>. HIDE DEF P
    <3>. QED
      BY <1>1, <2>1, <2>2, BySteps
  <2>4. \A i \in 0..n : merged[i] \in V
    BY <2>3
  <2>. QED
    BY <1>9, <2>4
<1>. QED
  BY <1>2, <1>11, <1>12 DEF n, V

\* Spans in order are joined where they overlap or touch: what they cover stays.
LEMMA MergeSortedExact ==
    ASSUME NEW sorted \in Seq(Spans), Rising(sorted)
    PROVE  /\ MergeSorted(sorted) \in Seq(Spans)
           /\ Lined(MergeSorted(sorted))
           /\ \A t \in Int : Covers(MergeSorted(sorted), t) <=> Covers(sorted, t)
           /\ Real(sorted) => Real(MergeSorted(sorted))
           /\ \A lo, hi \in Int : Inside(sorted, lo, hi) => Inside(MergeSorted(sorted), lo, hi)
<1>. DEFINE n == Len(sorted)
<1>1. /\ n \in Nat /\ DOMAIN sorted = 1..n
      /\ \A i \in DOMAIN sorted : /\ i \in Nat /\ sorted[i] \in Spans
                                  /\ sorted[i].start \in Int /\ sorted[i].end \in Int
  BY SpansOf
<1>2. PICK f \in [0..n -> Seq(Spans)] :
          /\ f[0] = <<>>
          /\ \A i \in 1..n : f[i] = Joined(f[i - 1], sorted[i])
          /\ MergeSorted(sorted) = f[n]
  BY MergeSteps
<1>. HIDE DEF n
<1>. DEFINE Upto(i, t) == \E j \in 1..i : sorted[j].start <= t /\ t < sorted[j].end
            Ready(i) == \A j \in 1..n : i < j =>
                            \A k \in DOMAIN f[i] : f[i][k].start <= sorted[j].start
            Kept(i) == \A t \in Int : Covers(f[i], t) <=> Upto(i, t)
            Bounds(i) == \A lo, hi \in Int : Inside(sorted, lo, hi) => Inside(f[i], lo, hi)
            P == {i \in 0..n : /\ Lined(f[i]) /\ Ready(i) /\ Kept(i) /\ Bounds(i)
                               /\ Real(sorted) => Real(f[i])}
<1>3. 0 \in P
  <2>1. f[0] = <<>> /\ Lined(f[0]) /\ Real(f[0]) /\ 0 \in 0..n
    BY <1>1, <1>2, EmptyList
  <2>2. Kept(0)
    <3>1. \A t \in Int : ~Upto(0, t)
      OBVIOUS
    <3>. HIDE DEF Upto
    <3>. QED
      BY <2>1, <3>1, EmptyList
  <2>3. Ready(0) /\ Bounds(0)
    BY <2>1 DEF Inside
  <2>. HIDE DEF Kept, Ready, Bounds
  <2>. QED
    BY <2>1, <2>2, <2>3
<1>4. ASSUME NEW i \in 1..n, i - 1 \in P
      PROVE  i \in P
  <2>. DEFINE done == f[i - 1]
              next == sorted[i]
              new == f[i]
  <2>1. /\ done \in Seq(Spans) /\ next \in Spans /\ new = Joined(done, next)
        /\ i - 1 \in 0..n /\ i \in 0..n /\ i \in DOMAIN sorted
    BY <1>1, <1>2, SMTT(30)
  <2>2. /\ Lined(done) /\ Ready(i - 1) /\ Kept(i - 1) /\ Bounds(i - 1)
        /\ Real(sorted) => Real(done)
    <3>. HIDE DEF Ready, Kept, Bounds
    <3>. QED
      BY <1>4
  <2>3. \A k \in DOMAIN done : done[k].start <= next.start
    BY <1>1, <2>2
  <2>. HIDE DEF done, next, new
  <2>4. /\ Lined(new)
        /\ \A k \in DOMAIN new : new[k].start <= next.start
        /\ \A t \in Int : Covers(new, t) <=> Covers(done, t) \/ (next.start <= t /\ t < next.end)
        /\ Real(done) /\ next.start < next.end => Real(new)
        /\ \A lo, hi \in Int : Inside(done, lo, hi) /\ lo <= next.start /\ next.end <= hi
                                 => Inside(new, lo, hi)
        /\ new \in Seq(Spans)
    BY <2>1, <2>2, <2>3, JoinedExact
  <2>5. Ready(i)
    <3>1. ASSUME NEW j \in 1..n, i < j, NEW k \in DOMAIN new
          PROVE  new[k].start <= sorted[j].start
      <4>1. next.start <= sorted[j].start /\ next.start \in Int /\ sorted[j].start \in Int
        BY <1>1, <2>1, <3>1 DEF Rising, next
      <4>2. new[k].start <= next.start /\ new[k].start \in Int
        BY <2>4, SpansOf
      <4>. QED
        BY <4>1, <4>2
    <3>. QED
      BY <3>1 DEF new
  <2>6. Kept(i)
    <3>1. i \in 1..i /\ (\A j \in 1..i : j = i \/ j \in 1..i - 1) /\ \A j \in 1..i - 1 : j \in 1..i
      BY <1>1
    <3>2. \A t \in Int : Upto(i, t) <=> Upto(i - 1, t) \/ (next.start <= t /\ t < next.end)
      BY <3>1 DEF next
    <3>3. \A t \in Int : Covers(done, t) <=> Upto(i - 1, t)
      BY <2>2 DEF done
    <3>. HIDE DEF Upto
    <3>. QED
      BY <2>4, <3>2, <3>3 DEF new
  <2>7. Bounds(i)
    <3>1. ASSUME NEW lo \in Int, NEW hi \in Int, Inside(sorted, lo, hi)
          PROVE  Inside(new, lo, hi)
      <4>1. lo <= next.start /\ next.end <= hi
        BY <2>1, <3>1 DEF Inside, next
      <4>2. Inside(done, lo, hi)
        BY <2>2, <3>1 DEF done
      <4>. QED
        BY <2>4, <4>1, <4>2
    <3>. QED
      BY <3>1 DEF new
  <2>8. Real(sorted) => Real(new)
    BY <2>1, <2>2, <2>4 DEF Real, next
  <2>. HIDE DEF Ready, Kept, Bounds
  <2>. QED
    BY <2>1, <2>4, <2>5, <2>6, <2>7, <2>8 DEF new
<1>5. n \in P
  <2>. HIDE DEF P
  <2>1. n \in 0..n
    BY <1>1
  <2>. QED
    BY <1>1, <1>3, <1>4, <2>1, BySteps
<1>6. n \in 0..n
  BY <1>1
<1>7. \A t \in Int : Upto(n, t) <=> Covers(sorted, t)
  BY <1>1 DEF Covers
<1>. HIDE DEF Ready, Upto
<1>. QED
  BY <1>2, <1>5, <1>6, <1>7

\* Where a span goes: what stands before it does not begin later, what follows is later.
LEMMA InsertedAt ==
    ASSUME NEW sorted \in Seq(Spans), NEW span
    PROVE  \E b \in 0..Len(sorted) :
              /\ Inserted(sorted, span) =
                    SubSeq(sorted, 1, b) \o <<span>> \o SubSeq(sorted, b + 1, Len(sorted))
              /\ b # 0 => ~Earlier(span, sorted[b])
              /\ \A i \in b + 1..Len(sorted) : Earlier(span, sorted[i])
<1>. DEFINE n == Len(sorted)
            V == Nat
            Solves(f) == f = [i \in 0..n |->
                IF i = 0 THEN 0 ELSE IF Earlier(span, sorted[i]) THEN f[i - 1] ELSE i]
            G == [p \in V \X (1..n) |-> IF Earlier(span, sorted[p[2]]) THEN p[1] ELSE p[2]]
            place == CHOOSE f : Solves(f)
            b == place[n]
<1>1. n \in Nat
  OBVIOUS
<1>2. Inserted(sorted, span) = SubSeq(sorted, 1, b) \o <<span>> \o SubSeq(sorted, b + 1, n)
  BY Zenon DEF Inserted
<1>3. \A v \in V, i \in 1..n : /\ G[<<v, i>>] = (IF Earlier(span, sorted[i]) THEN v ELSE i)
                               /\ G[<<v, i>>] \in V
  OBVIOUS
<1>4. 0 \in V
  OBVIOUS
<1>. HIDE DEF n, V, G
<1>5. PICK f \in [0..n -> V] : f[0] = 0 /\ \A i \in 1..n : f[i] = G[<<f[i - 1], i>>]
  <2>1. StaysIn(V, n, G)
    BY <1>3 DEF StaysIn
  <2>. QED
    BY <1>1, <1>4, <2>1, Sequel
<1>6. \A i \in 0..n : f[i] = IF i = 0 THEN 0 ELSE IF Earlier(span, sorted[i]) THEN f[i - 1] ELSE i
  <2>1. \A i \in 0..n : i = 0 \/ (i \in 1..n /\ i - 1 \in 0..n)
    BY <1>1
  <2>2. \A i \in 1..n : f[i - 1] \in V
    BY <1>1
  <2>3. 0 \in 0..n /\ \A i \in 1..n : i \in 0..n /\ i # 0
    BY <1>1
  <2>. QED
    BY <1>3, <1>5, <2>1, <2>2
<1>7. Solves(f)
  BY <1>6
<1>8. Solves(place)
  <2>. HIDE DEF Solves
  <2>. QED
    BY <1>7
<1>. HIDE DEF place
<1>9. place = [i \in 0..n |->
                  IF i = 0 THEN 0 ELSE IF Earlier(span, sorted[i]) THEN place[i - 1] ELSE i]
  BY <1>8
<1>10. \A i \in 1..n : i \in 0..n /\ i # 0
  BY <1>1
<1>11. /\ place[0] = 0
       /\ \A i \in 1..n : place[i] = IF Earlier(span, sorted[i]) THEN place[i - 1] ELSE i
  <2>1. 0 \in 0..n
    BY <1>1
  <2>. QED
    BY <1>9, <1>10, <2>1, Zenon
<1>. DEFINE P == {i \in 0..n : /\ place[i] \in 0..i
                               /\ place[i] # 0 => ~Earlier(span, sorted[place[i]])
                               /\ \A j \in place[i] + 1..i : Earlier(span, sorted[j])}
<1>12. 0 \in P
  <2>1. 0 \in 0..n /\ place[0] = 0 /\ \A j \in 0 + 1..0 : FALSE
    BY <1>1, <1>11
  <2>. QED
    BY <2>1
<1>13. ASSUME NEW i \in 1..n, i - 1 \in P
       PROVE  i \in P
  <2>1. /\ place[i - 1] \in 0..i - 1
        /\ place[i - 1] # 0 => ~Earlier(span, sorted[place[i - 1]])
        /\ \A j \in place[i - 1] + 1..i - 1 : Earlier(span, sorted[j])
    BY <1>13
  <2>2. CASE Earlier(span, sorted[i])
    <3>1. place[i] = place[i - 1]
      BY <1>11, <2>2
    <3>2. \A j \in place[i - 1] + 1..i : j = i \/ j \in place[i - 1] + 1..i - 1
      BY <1>1, <2>1
    <3>3. place[i - 1] \in 0..i
      BY <1>1, <2>1
    <3>. QED
      BY <1>10, <2>1, <2>2, <3>1, <3>2, <3>3
  <2>3. CASE ~Earlier(span, sorted[i])
    <3>1. place[i] = i
      BY <1>11, <2>3
    <3>2. i \in 0..i /\ \A j \in i + 1..i : FALSE
      BY <1>1
    <3>. QED
      BY <1>10, <2>3, <3>1, <3>2
  <2>. QED
    BY <2>2, <2>3
<1>14. n \in P
  <2>. HIDE DEF P
  <2>1. n \in 0..n
    BY <1>1
  <2>. QED
    BY <1>1, <1>12, <1>13, <2>1, BySteps
<1>15. /\ b \in 0..n
       /\ b # 0 => ~Earlier(span, sorted[b])
       /\ \A i \in b + 1..n : Earlier(span, sorted[i])
  BY <1>14
<1>. HIDE DEF b
<1>. QED
  BY <1>2, <1>15 DEF n

\* An insertion moves what follows by one place and keeps the order.
LEMMA InsertedExact ==
    ASSUME NEW sorted \in Seq(Spans), NEW span \in Spans, Rising(sorted)
    PROVE  /\ Inserted(sorted, span) \in Seq(Spans)
           /\ Len(Inserted(sorted, span)) = Len(sorted) + 1
           /\ Rising(Inserted(sorted, span))
           /\ \E b \in 0..Len(sorted) :
                /\ \A i \in 1..b : Inserted(sorted, span)[i] = sorted[i]
                /\ Inserted(sorted, span)[b + 1] = span
                /\ \A i \in b + 2..Len(sorted) + 1 : Inserted(sorted, span)[i] = sorted[i - 1]
<1>. DEFINE n == Len(sorted)
            new == Inserted(sorted, span)
<1>1. PICK b \in 0..n :
          /\ new = SubSeq(sorted, 1, b) \o <<span>> \o SubSeq(sorted, b + 1, n)
          /\ b # 0 => ~Earlier(span, sorted[b])
          /\ \A i \in b + 1..n : Earlier(span, sorted[i])
  BY InsertedAt
<1>2. /\ n \in Nat /\ DOMAIN sorted = 1..n
      /\ \A i \in DOMAIN sorted : /\ i \in Nat /\ sorted[i] \in Spans
                                  /\ sorted[i].start \in Int /\ sorted[i].end \in Int
  BY SpansOf
<1>. DEFINE p == SubSeq(sorted, 1, b)
            q == SubSeq(sorted, b + 1, n)
<1>3. /\ p \in Seq(Spans) /\ Len(p) = b /\ \A i \in 1..b : p[i] = sorted[i]
      /\ q \in Seq(Spans) /\ Len(q) = n - b /\ \A i \in 1..n - b : q[i] = sorted[b + i]
  <2>. HIDE DEF n
  <2>1. b \in Int /\ b + 1 \in Int /\ n \in Int /\ 1 \in Int /\ b >= 0 /\ b <= n
    BY <1>2
  <2>2. (\A i \in 1..b : sorted[i] \in Spans) /\ (\A i \in b + 1..n : sorted[i] \in Spans)
    BY <1>2
  <2>3. /\ p \in Seq(Spans) /\ Len(p) = (IF 1 <= b THEN b - 1 + 1 ELSE 0)
        /\ \A i \in 1..b - 1 + 1 : p[i] = sorted[1 + i - 1]
    BY <2>1, <2>2, SubSeqProperties
  <2>4. /\ q \in Seq(Spans) /\ Len(q) = (IF b + 1 <= n THEN n - (b + 1) + 1 ELSE 0)
        /\ \A i \in 1..n - (b + 1) + 1 : q[i] = sorted[(b + 1) + i - 1]
    BY <2>1, <2>2, SubSeqProperties
  <2>. HIDE DEF p, q
  <2>5. Len(p) = b /\ Len(q) = n - b
    BY <2>1, <2>3, <2>4
  <2>6. \A i \in 1..b : i \in 1..b - 1 + 1 /\ 1 + i - 1 = i
    BY <2>1
  <2>7. \A i \in 1..n - b : i \in 1..n - (b + 1) + 1 /\ (b + 1) + i - 1 = b + i
    BY <2>1
  <2>. QED
    BY <2>3, <2>4, <2>5, <2>6, <2>7
<1>. HIDE DEF p, q, new, n
<1>4. <<span>> \in Seq(Spans) /\ Len(<<span>>) = 1 /\ <<span>>[1] = span
  OBVIOUS
<1>5. ASSUME NEW r \in Seq(Spans), NEW s \in Seq(Spans)
      PROVE  /\ r \o s \in Seq(Spans) /\ Len(r \o s) = Len(r) + Len(s)
             /\ \A i \in 1..Len(r) : (r \o s)[i] = r[i]
             /\ \A i \in 1..Len(s) : (r \o s)[Len(r) + i] = s[i]
  OBVIOUS
<1>. DEFINE o == <<span>>
<1>. HIDE DEF o
<1>6. new = (p \o o) \o q
  BY <1>1 DEF p, q, o
<1>7. /\ p \o o \in Seq(Spans) /\ Len(p \o o) = b + 1
      /\ \A i \in 1..b : (p \o o)[i] = sorted[i]
      /\ (p \o o)[b + 1] = span
  <2>1. o \in Seq(Spans) /\ Len(o) = 1 /\ o[1] = span /\ 1 \in 1..1
    BY <1>4 DEF o
  <2>2. /\ p \o o \in Seq(Spans) /\ Len(p \o o) = Len(p) + Len(o)
        /\ \A i \in 1..Len(p) : (p \o o)[i] = p[i]
        /\ \A i \in 1..Len(o) : (p \o o)[Len(p) + i] = o[i]
    BY <1>3, <1>5, <2>1
  <2>. QED
    BY <1>3, <2>1, <2>2, Zenon
<1>8. /\ new \in Seq(Spans) /\ Len(new) = (b + 1) + (n - b)
      /\ \A i \in 1..b + 1 : new[i] = (p \o o)[i]
      /\ \A i \in 1..n - b : new[(b + 1) + i] = sorted[b + i]
  <2>1. /\ (p \o o) \o q \in Seq(Spans) /\ Len((p \o o) \o q) = Len(p \o o) + Len(q)
        /\ \A i \in 1..Len(p \o o) : ((p \o o) \o q)[i] = (p \o o)[i]
        /\ \A i \in 1..Len(q) : ((p \o o) \o q)[Len(p \o o) + i] = q[i]
    BY <1>3, <1>5, <1>7
  <2>. QED
    BY <1>3, <1>6, <1>7, <2>1, ZenonT(60)
<1>9. b \in Nat /\ b <= n /\ Len(new) = n + 1 /\ DOMAIN new = 1..n + 1
  BY <1>2, <1>8
<1>10. \A i \in 1..b : new[i] = sorted[i] /\ i \in 1..n
  <2>1. \A i \in 1..b : i \in 1..b + 1 /\ i \in 1..n
    BY <1>2, <1>9
  <2>. QED
    BY <1>7, <1>8, <2>1
<1>11. new[b + 1] = span
  <2>1. b + 1 \in 1..b + 1
    BY <1>9
  <2>. QED
    BY <1>7, <1>8, <2>1
<1>12. \A i \in b + 2..n + 1 : new[i] = sorted[i - 1] /\ i - 1 \in b + 1..n
  <2>1. \A i \in b + 2..n + 1 : /\ i - 1 - b \in 1..n - b /\ (b + 1) + (i - 1 - b) = i
                                /\ b + (i - 1 - b) = i - 1 /\ i - 1 \in b + 1..n
    BY <1>2, <1>9
  <2>. QED
    BY <1>8, <2>1
<1>13. span.start \in Int /\ span.end \in Int
  BY DEF Spans
<1>14. \A i \in 1..b : sorted[i].start <= span.start
  <2>1. SUFFICES ASSUME NEW i \in 1..b PROVE sorted[i].start <= span.start
    OBVIOUS
  <2>2. b # 0 /\ b \in DOMAIN sorted /\ i \in DOMAIN sorted /\ (i = b \/ i < b)
    BY <1>2, <1>9
  <2>3. sorted[b].start <= span.start
    BY <1>1, <1>2, <1>13, <2>2 DEF Earlier
  <2>4. sorted[i].start <= sorted[b].start
    BY <1>2, <2>2 DEF Rising
  <2>. QED
    BY <1>2, <1>13, <2>2, <2>3, <2>4
<1>15. \A i \in b + 1..n : span.start <= sorted[i].start /\ i \in DOMAIN sorted
  <2>1. \A i \in b + 1..n : i \in DOMAIN sorted
    BY <1>2, <1>9
  <2>. QED
    BY <1>1, <1>2, <1>13, <2>1 DEF Earlier
<1>16. Rising(new)
  <2>1. SUFFICES ASSUME NEW i \in 1..n + 1, NEW j \in 1..n + 1, i < j
                 PROVE  new[i].start <= new[j].start
    BY <1>9 DEF Rising
  <2>2. \A k \in 1..n + 1 : k \in 1..b \/ k = b + 1 \/ k \in b + 2..n + 1
    BY <1>2, <1>9
  <2>3. \A k, l \in 1..n : k < l => sorted[k].start <= sorted[l].start
    BY <1>2 DEF Rising
  <2>4. CASE i \in 1..b /\ j \in 1..b
    BY <1>10, <2>1, <2>3, <2>4
  <2>5. CASE i \in 1..b /\ j = b + 1
    BY <1>10, <1>11, <1>14, <2>5
  <2>6. CASE i \in 1..b /\ j \in b + 2..n + 1
    <3>1. /\ new[i] = sorted[i] /\ new[j] = sorted[j - 1] /\ i \in 1..n /\ j - 1 \in 1..n
          /\ i < j - 1
      BY <1>2, <1>9, <1>10, <1>12, <2>6
    <3>. QED
      BY <2>3, <3>1
  <2>7. CASE i = b + 1 /\ j \in b + 2..n + 1
    BY <1>11, <1>12, <1>15, <2>7
  <2>8. CASE i \in b + 2..n + 1 /\ j \in b + 2..n + 1
    <3>1. /\ new[i] = sorted[i - 1] /\ new[j] = sorted[j - 1] /\ i - 1 \in 1..n /\ j - 1 \in 1..n
          /\ i - 1 < j - 1
      BY <1>2, <1>9, <1>12, <2>1, <2>8
    <3>. QED
      BY <2>3, <3>1
  <2>9. \/ i \in 1..b /\ j \in 1..b
        \/ i \in 1..b /\ j = b + 1
        \/ i \in 1..b /\ j \in b + 2..n + 1
        \/ i = b + 1 /\ j \in b + 2..n + 1
        \/ i \in b + 2..n + 1 /\ j \in b + 2..n + 1
    BY <1>2, <1>9, <2>1, <2>2
  <2>. QED
    BY <2>4, <2>5, <2>6, <2>7, <2>8, <2>9
<1>. QED
  BY <1>8, <1>9, <1>10, <1>11, <1>12, <1>16 DEF new, n

\* Sorting inserts one span after the other.
LEMMA SortSteps ==
    ASSUME NEW list \in Seq(Spans)
    PROVE  \E f : /\ f[0] = <<>>
                  /\ \A i \in 1..Len(list) : f[i] = Inserted(f[i - 1], list[i])
                  /\ Sorted(list) = f[Len(list)]
<1>. DEFINE n == Len(list)
            V == {s \in Seq(Spans) : Rising(s)}
            Solves(f) == f = [i \in 0..n |-> IF i = 0 THEN <<>> ELSE Inserted(f[i - 1], list[i])]
            G == [p \in V \X (1..n) |-> Inserted(p[1], list[p[2]])]
            upTo == CHOOSE f : Solves(f)
<1>1. n \in Nat /\ \A i \in 1..n : list[i] \in Spans
  OBVIOUS
<1>2. Sorted(list) = upTo[n]
  BY Zenon DEF Sorted
<1>3. \A v \in V, i \in 1..n : G[<<v, i>>] = Inserted(v, list[i]) /\ Inserted(v, list[i]) \in V
  <2>1. \A v \in V, x \in Spans : Inserted(v, x) \in V
    BY InsertedExact
  <2>. HIDE DEF V, n
  <2>. QED
    BY <1>1, <2>1
<1>4. <<>> \in V
  BY DEF Rising
<1>. HIDE DEF n, V, G
<1>5. PICK f \in [0..n -> V] : f[0] = <<>> /\ \A i \in 1..n : f[i] = G[<<f[i - 1], i>>]
  <2>1. StaysIn(V, n, G)
    BY <1>3 DEF StaysIn
  <2>. DEFINE base == <<>>
  <2>2. n \in Nat /\ base \in V
    BY <1>1, <1>4
  <2>. HIDE DEF base
  <2>3. \E f \in [0..n -> V] : f[0] = base /\ \A i \in 1..n : f[i] = G[<<f[i - 1], i>>]
    BY <2>1, <2>2, Sequel, SMTT(20)
  <2>. QED
    BY <2>3 DEF base
<1>6. \A i \in 0..n : f[i] = IF i = 0 THEN <<>> ELSE Inserted(f[i - 1], list[i])
  <2>1. \A i \in 0..n : i = 0 \/ (i \in 1..n /\ i - 1 \in 0..n)
    BY <1>1
  <2>. QED
    BY <1>3, <1>5, <2>1
<1>7. Solves(f)
  BY <1>6
<1>8. Solves(upTo)
  <2>. HIDE DEF Solves
  <2>. QED
    BY <1>7
<1>. HIDE DEF upTo
<1>9. upTo = [i \in 0..n |-> IF i = 0 THEN <<>> ELSE Inserted(upTo[i - 1], list[i])]
  BY <1>8
<1>10. \A i \in 1..n : i \in 0..n /\ i # 0
  BY <1>1
<1>11. upTo[0] = <<>> /\ \A i \in 1..n : upTo[i] = Inserted(upTo[i - 1], list[i])
  <2>1. 0 \in 0..n
    BY <1>1
  <2>. QED
    BY <1>9, <1>10, <2>1, Zenon
<1>. QED
  BY <1>2, <1>11 DEF n

\* A way to take each number up to m once.
Shuffles(p, m) ==
    /\ p \in [1..m -> 1..m]
    /\ \A i, j \in 1..m : i # j => p[i] # p[j]
    /\ \A k \in 1..m : \E i \in 1..m : p[i] = k

\* Sorting keeps the spans of a list, each as often as it is there, and puts them in order.
LEMMA SortedExact ==
    ASSUME NEW list \in Seq(Spans)
    PROVE  /\ Sorted(list) \in Seq(Spans)
           /\ Len(Sorted(list)) = Len(list)
           /\ Rising(Sorted(list))
           /\ \E p : Shuffles(p, Len(list)) /\ \A i \in 1..Len(list) : Sorted(list)[i] = list[p[i]]
<1>. DEFINE n == Len(list)
<1>1. n \in Nat /\ \A i \in 1..n : list[i] \in Spans
  OBVIOUS
<1>2. PICK f : /\ f[0] = <<>>
               /\ \A i \in 1..n : f[i] = Inserted(f[i - 1], list[i])
               /\ Sorted(list) = f[n]
  BY SortSteps
<1>. HIDE DEF n
<1>. DEFINE Done(i) == /\ f[i] \in Seq(Spans) /\ Len(f[i]) = i /\ Rising(f[i])
                       /\ \E p : Shuffles(p, i) /\ \A q \in 1..i : f[i][q] = list[p[q]]
            P == {i \in 0..n : Done(i)}
<1>3. 0 \in P
  <2>1. f[0] = <<>> /\ f[0] \in Seq(Spans) /\ Len(f[0]) = 0 /\ Rising(f[0])
    BY <1>2 DEF Rising
  <2>2. \A q \in 1..0 : FALSE
    OBVIOUS
  <2>3. Shuffles([q \in 1..0 |-> q], 0)
    BY <2>2 DEF Shuffles
  <2>4. Done(0)
    BY <2>1, <2>2, <2>3
  <2>. HIDE DEF Done
  <2>5. 0 \in 0..n
    BY <1>1
  <2>. QED
    BY <2>4, <2>5
<1>4. ASSUME NEW i \in 1..n, i - 1 \in P
      PROVE  i \in P
  <2>. DEFINE old == f[i - 1]
              new == f[i]
              x == list[i]
  <2>1. new = Inserted(old, x) /\ x \in Spans /\ i \in 0..n /\ i \in Nat /\ i # 0
    BY <1>1, <1>2
  <2>2. Done(i - 1)
    <3>. HIDE DEF Done
    <3>. QED
      BY <1>4
  <2>3. /\ old \in Seq(Spans) /\ Len(old) = i - 1 /\ Rising(old)
    BY <2>2
  <2>4. PICK p : Shuffles(p, i - 1) /\ \A q \in 1..i - 1 : old[q] = list[p[q]]
    BY <2>2
  <2>. HIDE DEF old, new, x
  <2>5. /\ new \in Seq(Spans) /\ Len(new) = (i - 1) + 1 /\ Rising(new)
        /\ \E b \in 0..i - 1 :
             /\ \A q \in 1..b : new[q] = old[q]
             /\ new[b + 1] = x
             /\ \A q \in b + 2..(i - 1) + 1 : new[q] = old[q - 1]
    <3>1. /\ Inserted(old, x) \in Seq(Spans)
          /\ Len(Inserted(old, x)) = Len(old) + 1
          /\ Rising(Inserted(old, x))
          /\ \E b \in 0..Len(old) :
                /\ \A q \in 1..b : Inserted(old, x)[q] = old[q]
                /\ Inserted(old, x)[b + 1] = x
                /\ \A q \in b + 2..Len(old) + 1 : Inserted(old, x)[q] = old[q - 1]
      BY <2>1, <2>3, InsertedExact
    <3>. QED
      BY <2>1, <2>3, <3>1
  <2>6. (i - 1) + 1 = i
    BY <2>1
  <2>7. PICK b \in 0..i - 1 : /\ \A q \in 1..b : new[q] = old[q]
                              /\ new[b + 1] = x
                              /\ \A q \in b + 2..i : new[q] = old[q - 1]
    BY <2>5, <2>6
  <2>. DEFINE r == [q \in 1..i |-> IF q <= b THEN p[q] ELSE IF q = b + 1 THEN i ELSE p[q - 1]]
  <2>8. /\ p \in [1..i - 1 -> 1..i - 1]
        /\ \A k, l \in 1..i - 1 : k # l => p[k] # p[l]
        /\ \A k \in 1..i - 1 : \E l \in 1..i - 1 : p[l] = k
    BY <2>4 DEF Shuffles
  <2>9. \A q \in 1..i : \/ q \in 1..b /\ q \in 1..i - 1 /\ q <= b /\ r[q] = p[q]
                        \/ q = b + 1 /\ r[q] = i
                        \/ /\ q \in b + 2..i /\ q - 1 \in 1..i - 1 /\ ~(q <= b) /\ q # b + 1
                           /\ r[q] = p[q - 1]
    BY <2>1
  <2>10. /\ b + 1 \in 1..i /\ r[b + 1] = i
         /\ \A q \in 1..b : q \in 1..i /\ r[q] = p[q]
         /\ \A q \in b + 2..i : q \in 1..i /\ r[q] = p[q - 1]
    BY <2>1
  <2>. HIDE DEF r
  <2>11. \A k \in 1..i - 1 : p[k] \in 1..i - 1 /\ p[k] # i /\ p[k] \in 1..i
    <3>1. \A y \in 1..i - 1 : y # i /\ y \in 1..i
      BY <2>1
    <3>. QED
      BY <2>8, <3>1
  <2>12. r \in [1..i -> 1..i]
    <3>1. i \in 1..i
      BY <2>1
    <3>2. \A q \in 1..i : r[q] \in 1..i
      BY <2>9, <2>11, <3>1
    <3>. QED
      BY <3>2 DEF r
  <2>13. ASSUME NEW k \in 1..i, NEW l \in 1..i, k < l
         PROVE  r[k] # r[l]
    <3>1. CASE k \in 1..b /\ l \in 1..b
      BY <2>8, <2>9, <2>10, <2>13, <3>1
    <3>2. CASE k = b + 1 \/ l = b + 1
      BY <2>9, <2>10, <2>11, <2>13, <3>2
    <3>3. CASE k \in 1..b /\ l \in b + 2..i
      <4>1. k # l - 1 /\ k \in 1..i - 1 /\ l - 1 \in 1..i - 1
        BY <2>1, <3>3
      <4>. QED
        BY <2>8, <2>10, <3>3, <4>1
    <3>4. CASE k \in b + 2..i /\ l \in b + 2..i
      <4>1. k - 1 # l - 1 /\ k - 1 \in 1..i - 1 /\ l - 1 \in 1..i - 1
        BY <2>1, <2>13, <3>4
      <4>. QED
        BY <2>8, <2>10, <3>4, <4>1
    <3>. QED
      BY <2>1, <2>13, <3>1, <3>2, <3>3, <3>4
  <2>14. \A k, l \in 1..i : k # l => r[k] # r[l]
    <3>1. \A k, l \in 1..i : k # l => k < l \/ l < k
      BY <2>1
    <3>. QED
      BY <2>13, <3>1
  <2>15. \A k \in 1..i : \E l \in 1..i : r[l] = k
    <3>1. SUFFICES ASSUME NEW k \in 1..i PROVE \E l \in 1..i : r[l] = k
      OBVIOUS
    <3>2. CASE k = i
      BY <2>10, <3>2
    <3>3. CASE k # i
      <4>1. k \in 1..i - 1
        BY <2>1, <3>3
      <4>2. PICK l \in 1..i - 1 : p[l] = k
        BY <2>8, <4>1
      <4>3. l \in 1..b \/ (l + 1 \in b + 2..i /\ (l + 1) - 1 = l)
        BY <2>1
      <4>. QED
        BY <2>10, <4>2, <4>3
    <3>. QED
      BY <3>2, <3>3
  <2>16. \A q \in 1..i : new[q] = list[r[q]]
    BY <2>4, <2>7, <2>9 DEF x
  <2>17. Shuffles(r, i)
    BY <2>12, <2>14, <2>15 DEF Shuffles
  <2>18. Done(i)
    BY <2>5, <2>6, <2>16, <2>17 DEF new
  <2>. HIDE DEF Done
  <2>. QED
    BY <2>1, <2>18
<1>5. n \in P
  <2>. HIDE DEF P
  <2>1. n \in 0..n
    BY <1>1
  <2>. QED
    BY <1>1, <1>3, <1>4, <2>1, BySteps
<1>6. Done(n)
  <2>. HIDE DEF Done
  <2>. QED
    BY <1>5
<1>. QED
  BY <1>2, <1>6 DEF n

\* What holds of each span of a list holds of each of the sorted list; the cover stays.
LEMMA SortedKeeps ==
    ASSUME NEW list \in Seq(Spans)
    PROVE  /\ Sorted(list) \in Seq(Spans) /\ Rising(Sorted(list))
           /\ \A i \in DOMAIN Sorted(list) : \E k \in DOMAIN list : Sorted(list)[i] = list[k]
           /\ \A k \in DOMAIN list : \E i \in DOMAIN Sorted(list) : Sorted(list)[i] = list[k]
           /\ \A t \in Int : Covers(Sorted(list), t) <=> Covers(list, t)
           /\ Real(list) => Real(Sorted(list))
           /\ \A lo, hi \in Int : Inside(list, lo, hi) => Inside(Sorted(list), lo, hi)
<1>. DEFINE s == Sorted(list)
            n == Len(list)
<1>1. /\ s \in Seq(Spans) /\ Len(s) = n /\ Rising(s)
      /\ \E p : Shuffles(p, n) /\ \A i \in 1..n : s[i] = list[p[i]]
  BY SortedExact
<1>2. PICK p : Shuffles(p, n) /\ \A i \in 1..n : s[i] = list[p[i]]
  BY <1>1
<1>. HIDE DEF s
<1>3. DOMAIN list = 1..n /\ DOMAIN s = 1..n
  BY <1>1
<1>4. /\ \A i \in DOMAIN s : \E k \in DOMAIN list : s[i] = list[k]
      /\ \A k \in DOMAIN list : \E i \in DOMAIN s : s[i] = list[k]
  <2>. HIDE DEF n
  <2>. QED
    BY <1>2, <1>3, SMTT(30) DEF Shuffles
<1>5. \A t \in Int : Covers(s, t) <=> Covers(list, t)
  BY <1>4 DEF Covers
<1>6. Real(list) => Real(s)
  BY <1>4 DEF Real
<1>7. \A lo, hi \in Int : Inside(list, lo, hi) => Inside(s, lo, hi)
  BY <1>4 DEF Inside
<1>. QED
  BY <1>1, <1>4, <1>5, <1>6, <1>7 DEF s

\* mergeIntervals: an ordered list of spans apart, over the same instants.
LEMMA MergeExact ==
    ASSUME NEW list \in Seq(Spans)
    PROVE  /\ MergeIntervals(list) \in Seq(Spans)
           /\ Lined(MergeIntervals(list))
           /\ \A t \in Int : Covers(MergeIntervals(list), t) <=> Covers(list, t)
           /\ Real(list) => Real(MergeIntervals(list)) /\ Normalized(MergeIntervals(list))
           /\ \A lo, hi \in Int : Inside(list, lo, hi) => Inside(MergeIntervals(list), lo, hi)
<1>. DEFINE s == Sorted(list)
            m == MergeSorted(s)
<1>1. /\ s \in Seq(Spans) /\ Rising(s)
      /\ \A t \in Int : Covers(s, t) <=> Covers(list, t)
      /\ Real(list) => Real(s)
      /\ \A lo, hi \in Int : Inside(list, lo, hi) => Inside(s, lo, hi)
  BY SortedKeeps
<1>. HIDE DEF s
<1>2. /\ m \in Seq(Spans) /\ Lined(m)
      /\ \A t \in Int : Covers(m, t) <=> Covers(s, t)
      /\ Real(s) => Real(m)
      /\ \A lo, hi \in Int : Inside(s, lo, hi) => Inside(m, lo, hi)
  BY <1>1, MergeSortedExact
<1>3. MergeIntervals(list) = m
  BY DEF MergeIntervals, s
<1>. HIDE DEF m
<1>4. Real(m) => Normalized(m)
  BY <1>2, NormalIsLined
<1>. QED
  BY <1>1, <1>2, <1>3, <1>4

-----------------------------------------------------------------------------
(* Windows of hours.                                                       *)

\* An instant is in one of the ranges of a date, as they are turned into instants.
Falls(ranges, date, z, t) ==
    \E i \in DOMAIN ranges : /\ ZonedTimeToEpoch(date, ranges[i].start, z) <= t
                             /\ t < ZonedTimeToEpoch(date, ranges[i].end, z)

WorkedAt(day, date, z, t) ==
    Falls(day.intervals, date, z, t) /\ ~Falls(day.breaks, date, z, t)

\* A time of the wall clock is an instant.
LEMMA EpochIsInt ==
    ASSUME NEW z, IsZone(z), NEW date \in Int, NEW minute \in Int
    PROVE  ZonedTimeToEpoch(date, minute, z) \in Int
<1>. DEFINE wall == date * Day + minute
<1>1. wall \in Int /\ Day \in Int
  BY DayIsReal
<1>2. ZonedTimeToEpoch(date, minute, z) \in wall-Day+1..wall+Day-1
  BY <1>1, EpochOf
<1>. HIDE DEF wall
<1>. QED
  BY <1>1, <1>2

\* The types of the ranges of a day and their members.
LEMMA RangesOf ==
    ASSUME NEW ranges \in Ranges
    PROVE  /\ Len(ranges) \in Nat /\ DOMAIN ranges = 1..Len(ranges)
           /\ \A i \in DOMAIN ranges : ranges[i].start \in 0..Day /\ ranges[i].end \in 0..Day
           /\ \A i \in DOMAIN ranges : ranges[i].start \in Int /\ ranges[i].end \in Int
           /\ ranges \in Seq(Spans)
<1>. DEFINE T == [start : 0..Day, end : 0..Day]
<1>1. Len(ranges) \in Nat /\ DOMAIN ranges = 1..Len(ranges)
  BY DEF Ranges
<1>2. \A i \in DOMAIN ranges : ranges[i] \in T
  <2>1. ranges \in Seq(T)
    BY DEF Ranges
  <2>. HIDE DEF T
  <2>. QED
    BY <2>1
<1>3. \A i \in DOMAIN ranges : ranges[i].start \in 0..Day /\ ranges[i].end \in 0..Day
  BY <1>2
<1>4. T \subseteq Spans
  BY DEF Spans
<1>. HIDE DEF T
<1>5. ranges \in Seq(Spans)
  <2>1. ranges \in Seq(T)
    BY DEF Ranges, T
  <2>2. \A i \in 1..Len(ranges) : ranges[i] \in Spans
    BY <1>1, <1>2, <1>4
  <2>. QED
    BY <1>1, <2>1, <2>2
<1>6. \A i \in DOMAIN ranges : ranges[i].start \in Int /\ ranges[i].end \in Int
  BY <1>2, <1>4 DEF Spans
<1>. QED
  BY <1>1, <1>3, <1>5, <1>6

\* The ranges of a day become the instants between their ends, merged (toInstants).
LEMMA ToInstantsExact ==
    ASSUME NEW ranges \in Ranges, NEW z, IsZone(z), NEW date \in Int
    PROVE  /\ ToInstants(ranges, date, z) \in Seq(Spans)
           /\ Lined(ToInstants(ranges, date, z))
           /\ \A t \in Int : Covers(ToInstants(ranges, date, z), t) <=> Falls(ranges, date, z, t)
<1>. DEFINE at(i) == Interval(ZonedTimeToEpoch(date, ranges[i].start, z),
                              ZonedTimeToEpoch(date, ranges[i].end, z))
            list == [i \in DOMAIN ranges |-> at(i)]
<1>1. /\ Len(ranges) \in Nat /\ DOMAIN ranges = 1..Len(ranges)
      /\ \A i \in DOMAIN ranges : ranges[i].start \in Int /\ ranges[i].end \in Int
  BY RangesOf
<1>2. \A i \in DOMAIN ranges : /\ at(i) \in Spans
                               /\ at(i).start = ZonedTimeToEpoch(date, ranges[i].start, z)
                               /\ at(i).end = ZonedTimeToEpoch(date, ranges[i].end, z)
  <2>1. \A i \in DOMAIN ranges : /\ ZonedTimeToEpoch(date, ranges[i].start, z) \in Int
                                 /\ ZonedTimeToEpoch(date, ranges[i].end, z) \in Int
    BY <1>1, EpochIsInt
  <2>. QED
    BY <2>1 DEF Interval, Spans
<1>3. ToInstants(ranges, date, z) = MergeIntervals(list)
  BY DEF ToInstants
<1>. HIDE DEF at
<1>4. /\ list \in Seq(Spans) /\ DOMAIN list = DOMAIN ranges
      /\ \A i \in DOMAIN list : list[i] = at(i)
  <2>1. list \in [1..Len(ranges) -> Spans]
    BY <1>1, <1>2
  <2>. QED
    BY <1>1, <2>1
<1>. HIDE DEF list
<1>5. \A t \in Int : Covers(list, t) <=> Falls(ranges, date, z, t)
  BY <1>2, <1>4 DEF Covers, Falls
<1>. QED
  BY <1>3, <1>4, <1>5, MergeExact

\* Working hours of a day: its ranges without the breaks, as real spans.
LEMMA WorkingExact ==
    ASSUME NEW day \in DayHours, NEW z, IsZone(z), NEW date \in Int
    PROVE  /\ WorkingWindows(day, date, z) \in Seq(Spans)
           /\ Real(WorkingWindows(day, date, z))
           /\ \A t \in Int : Covers(WorkingWindows(day, date, z), t) <=> WorkedAt(day, date, z, t)
<1>. DEFINE a == ToInstants(day.intervals, date, z)
            b == ToInstants(day.breaks, date, z)
<1>1. day.intervals \in Ranges /\ day.breaks \in Ranges
  BY DEF DayHours
<1>2. /\ a \in Seq(Spans) /\ Lined(a)
      /\ \A t \in Int : Covers(a, t) <=> Falls(day.intervals, date, z, t)
  BY <1>1, ToInstantsExact
<1>3. /\ b \in Seq(Spans) /\ Lined(b)
      /\ \A t \in Int : Covers(b, t) <=> Falls(day.breaks, date, z, t)
  BY <1>1, ToInstantsExact
<1>4. WorkingWindows(day, date, z) = SubtractIntervals(a, b)
  BY DEF WorkingWindows
<1>. HIDE DEF a, b
<1>5. /\ SubtractIntervals(a, b) \in Seq(Spans) /\ Real(SubtractIntervals(a, b))
      /\ \A t \in Int : Covers(SubtractIntervals(a, b), t) <=> Covers(a, t) /\ ~Covers(b, t)
  BY <1>2, <1>3, SubtractExact
<1>. QED
  BY <1>2, <1>3, <1>4, <1>5 DEF WorkedAt

\* A list of lists covers what one of them covers.
LEMMA ConcatCovers ==
    ASSUME NEW lists \in Seq(Seq(Spans))
    PROVE  /\ Concatenated(lists) \in Seq(Spans)
           /\ \A t \in Int : Covers(Concatenated(lists), t)
                               <=> \E i \in DOMAIN lists : Covers(lists[i], t)
           /\ (\A i \in DOMAIN lists : Real(lists[i])) => Real(Concatenated(lists))
           /\ \A lo, hi \in Int : (\A i \in DOMAIN lists : Inside(lists[i], lo, hi))
                                    => Inside(Concatenated(lists), lo, hi)
<1>. DEFINE all == Concatenated(lists)
<1>1. /\ all \in Seq(Spans)
      /\ \A p \in DOMAIN all : \E i \in DOMAIN lists : \E k \in DOMAIN lists[i] :
            all[p] = lists[i][k]
      /\ \A i \in DOMAIN lists : \A k \in DOMAIN lists[i] : \E p \in DOMAIN all :
            all[p] = lists[i][k]
  BY ConcatExact, Zenon
<1>. HIDE DEF all
<1>2. \A t \in Int : Covers(all, t) <=> \E i \in DOMAIN lists : Covers(lists[i], t)
  BY <1>1 DEF Covers
<1>3. (\A i \in DOMAIN lists : Real(lists[i])) => Real(all)
  <2>1. SUFFICES ASSUME \A i \in DOMAIN lists : Real(lists[i]), NEW p \in DOMAIN all
                 PROVE  all[p].start < all[p].end
    BY DEF Real
  <2>2. PICK i \in DOMAIN lists : \E k \in DOMAIN lists[i] : all[p] = lists[i][k]
    BY <1>1
  <2>. QED
    BY <2>1, <2>2 DEF Real
<1>4. \A lo, hi \in Int : (\A i \in DOMAIN lists : Inside(lists[i], lo, hi)) => Inside(all, lo, hi)
  <2>1. SUFFICES ASSUME NEW lo \in Int, NEW hi \in Int,
                        \A i \in DOMAIN lists : Inside(lists[i], lo, hi), NEW p \in DOMAIN all
                 PROVE  lo <= all[p].start /\ all[p].end <= hi
    BY DEF Inside
  <2>2. PICK i \in DOMAIN lists : \E k \in DOMAIN lists[i] : all[p] = lists[i][k]
    BY <1>1
  <2>. QED
    BY <2>1, <2>2 DEF Inside
<1>. QED
  BY <1>1, <1>2, <1>3, <1>4 DEF all

\* One list followed by another covers what either does.
LEMMA AheadCovers ==
    ASSUME NEW a \in Seq(Spans), NEW b \in Seq(Spans)
    PROVE  /\ a \o b \in Seq(Spans)
           /\ \A t \in Int : Covers(a \o b, t) <=> Covers(a, t) \/ Covers(b, t)
           /\ Real(a) /\ Real(b) => Real(a \o b)
<1>. DEFINE all == a \o b
<1>1. /\ all \in Seq(Spans) /\ Len(a) \in Nat /\ Len(b) \in Nat
      /\ DOMAIN a = 1..Len(a) /\ DOMAIN b = 1..Len(b)
  OBVIOUS
<1>2. /\ \A p \in DOMAIN a : p \in DOMAIN all /\ all[p] = a[p]
      /\ \A k \in DOMAIN b : Len(a) + k \in DOMAIN all /\ all[Len(a) + k] = b[k]
      /\ \A p \in DOMAIN all : \/ p \in DOMAIN a /\ all[p] = a[p]
                               \/ p - Len(a) \in DOMAIN b /\ all[p] = b[p - Len(a)]
  OBVIOUS
<1>. HIDE DEF all
<1>3. \A t \in Int : Covers(all, t) <=> Covers(a, t) \/ Covers(b, t)
  BY <1>2 DEF Covers
<1>4. Real(a) /\ Real(b) => Real(all)
  BY <1>2 DEF Real
<1>. QED
  BY <1>1, <1>3, <1>4 DEF all

\* Which exceptions of a plan are of a kind and cover a date.
OfKind(plan, kind, date) ==
    {i \in DOMAIN plan.exceptions : /\ plan.exceptions[i].kind = kind
                                    /\ IsCoveredBy(plan.exceptions[i], date)}

BaseDay(plan, date) ==
    IF OfKind(plan, "override", date) # {}
    THEN plan.exceptions[Max(OfKind(plan, "override", date))].day
    ELSE plan.weekly[WeekdayOf(date)]

OpenOn(plan, date, z, t) ==
    /\ OfKind(plan, Closed, date) = {}
    /\ \/ WorkedAt(BaseDay(plan, date), date, z, t)
       \/ \E i \in OfKind(plan, "additional", date) :
             WorkedAt(plan.exceptions[i].day, date, z, t)

\* The hours that hold on a day, and those of the exceptions, are hours of a day.
LEMMA BaseDayType ==
    ASSUME NEW plan, IsPlan(plan), NEW date \in Int
    PROVE  /\ BaseDay(plan, date) \in DayHours
           /\ Len(plan.exceptions) \in Nat /\ DOMAIN plan.exceptions = 1..Len(plan.exceptions)
           /\ \A i \in DOMAIN plan.exceptions : plan.exceptions[i].day \in DayHours
<1>. DEFINE xs == plan.exceptions
            S  == OfKind(plan, "override", date)
<1>1. /\ plan.weekly \in [0..Week - 1 -> DayHours] /\ xs \in Seq(Dated)
  BY DEF IsPlan
<1>2. Len(xs) \in Nat /\ DOMAIN xs = 1..Len(xs)
  BY <1>1
<1>3. \A i \in DOMAIN xs : xs[i].day \in DayHours
  <2>1. \A i \in DOMAIN xs : xs[i] \in Dated
    BY <1>1
  <2>. QED
    BY <2>1 DEF Dated
<1>4. ASSUME S # {} PROVE Max(S) \in DOMAIN xs
  <2>1. S \subseteq 1..Len(xs)
    BY <1>2 DEF OfKind
  <2>. HIDE DEF S, xs
  <2>2. IsFiniteSet(1..Len(xs))
    BY <1>2, FS_Interval
  <2>3. IsFiniteSet(S) /\ S \in SUBSET Nat
    <3>1. IsFiniteSet(S)
      BY <2>1, <2>2, FS_Subset
    <3>. QED
      BY <1>2, <2>1, <3>1
  <2>. QED
    BY <1>2, <1>4, <2>1, <2>3, Extremes
<1>5. WeekdayOf(date) \in 0..Week - 1
  BY WeekIsReal DEF WeekdayOf
<1>6. plan.weekly[WeekdayOf(date)] \in DayHours
  BY <1>1, <1>5
<1>7. BaseDay(plan, date) = IF S # {} THEN xs[Max(S)].day ELSE plan.weekly[WeekdayOf(date)]
  BY DEF BaseDay
<1>8. BaseDay(plan, date) \in DayHours
  <2>. HIDE DEF S, xs
  <2>. QED
    BY <1>3, <1>4, <1>6, <1>7
<1>. QED
  BY <1>2, <1>3, <1>8

\* The windows of a date: real spans apart, over the instants its hours say.
LEMMA DateExact ==
    ASSUME NEW plan, IsPlan(plan), NEW z, IsZone(z), NEW date \in Int
    PROVE  /\ WindowsForDate(plan, date, z) \in Seq(Spans)
           /\ Real(WindowsForDate(plan, date, z))
           /\ \A t \in Int : Covers(WindowsForDate(plan, date, z), t) <=> OpenOn(plan, date, z, t)
<1>. DEFINE xs == plan.exceptions
            of(kind) == OfKind(plan, kind, date)
            base == BaseDay(plan, date)
            extra(i) == IF i \in of("additional") THEN WorkingWindows(xs[i].day, date, z) ELSE <<>>
            lists == [i \in DOMAIN xs |-> extra(i)]
            b == WorkingWindows(base, date, z)
            rest == Concatenated(lists)
<1>1. WindowsForDate(plan, date, z) = IF of(Closed) # {} THEN <<>> ELSE MergeIntervals(b \o rest)
  BY Zenon DEF WindowsForDate, OfKind, BaseDay
<1>2. /\ base \in DayHours /\ Len(xs) \in Nat /\ DOMAIN xs = 1..Len(xs)
      /\ \A i \in DOMAIN xs : xs[i].day \in DayHours
  BY BaseDayType
<1>3. b \in Seq(Spans) /\ Real(b) /\ \A t \in Int : Covers(b, t) <=> WorkedAt(base, date, z, t)
  BY <1>2, WorkingExact
<1>4. \A i \in of("additional") : i \in DOMAIN xs
  BY DEF OfKind
<1>5. ASSUME NEW i \in DOMAIN xs
      PROVE  /\ extra(i) \in Seq(Spans) /\ Real(extra(i))
             /\ \A t \in Int : Covers(extra(i), t)
                   <=> i \in of("additional") /\ WorkedAt(xs[i].day, date, z, t)
  <2>. HIDE DEF xs
  <2>1. CASE i \in of("additional")
    <3>1. /\ WorkingWindows(xs[i].day, date, z) \in Seq(Spans)
          /\ Real(WorkingWindows(xs[i].day, date, z))
          /\ \A t \in Int : Covers(WorkingWindows(xs[i].day, date, z), t)
                              <=> WorkedAt(xs[i].day, date, z, t)
      BY <1>2, <1>5, WorkingExact
    <3>2. extra(i) = WorkingWindows(xs[i].day, date, z)
      BY <2>1
    <3>. HIDE DEF extra
    <3>. QED
      BY <2>1, <3>1, <3>2
  <2>2. CASE i \notin of("additional")
    <3>1. extra(i) = <<>>
      BY <2>2
    <3>. HIDE DEF extra
    <3>. QED
      BY <2>2, <3>1, EmptyList
  <2>. QED
    BY <2>1, <2>2
<1>. HIDE DEF extra, base, b, of
<1>6. /\ lists \in Seq(Seq(Spans)) /\ DOMAIN lists = DOMAIN xs
      /\ \A i \in DOMAIN xs : lists[i] = extra(i)
  <2>1. lists \in [1..Len(xs) -> Seq(Spans)]
    <3>. HIDE DEF xs
    <3>. QED
      BY <1>2, <1>5
  <2>. HIDE DEF xs
  <2>. QED
    BY <1>2, <2>1
<1>. HIDE DEF lists, xs
<1>7. /\ rest \in Seq(Spans) /\ Real(rest)
      /\ \A t \in Int : Covers(rest, t) <=> \E i \in DOMAIN xs : Covers(lists[i], t)
  <2>1. \A i \in DOMAIN lists : Real(lists[i])
    BY <1>5, <1>6
  <2>. QED
    BY <1>6, <2>1, ConcatCovers
<1>. HIDE DEF rest
<1>8. /\ b \o rest \in Seq(Spans) /\ Real(b \o rest)
      /\ \A t \in Int : Covers(b \o rest, t) <=> Covers(b, t) \/ Covers(rest, t)
  BY <1>3, <1>7, AheadCovers
<1>. DEFINE m == MergeIntervals(b \o rest)
<1>9. m \in Seq(Spans) /\ Real(m) /\ \A t \in Int : Covers(m, t) <=> Covers(b \o rest, t)
  BY <1>8, MergeExact
<1>. HIDE DEF m
<1>10. \A t \in Int : Covers(m, t) <=>
          \/ WorkedAt(base, date, z, t)
          \/ \E i \in of("additional") : WorkedAt(xs[i].day, date, z, t)
  <2>1. \A t \in Int : Covers(rest, t) <=>
            \E i \in of("additional") : WorkedAt(xs[i].day, date, z, t)
    BY <1>4, <1>5, <1>6, <1>7
  <2>. QED
    BY <1>3, <1>8, <1>9, <2>1
<1>11. \A t \in Int : OpenOn(plan, date, z, t) <=>
          /\ of(Closed) = {}
          /\ \/ WorkedAt(base, date, z, t)
             \/ \E i \in of("additional") : WorkedAt(xs[i].day, date, z, t)
  BY DEF OpenOn, of, base, xs
<1>12. CASE of(Closed) # {}
  <2>1. WindowsForDate(plan, date, z) = <<>>
    BY <1>1, <1>12
  <2>. QED
    BY <1>11, <1>12, <2>1, EmptyList
<1>13. CASE of(Closed) = {}
  <2>1. WindowsForDate(plan, date, z) = m
    BY <1>1, <1>13 DEF m
  <2>. QED
    BY <1>9, <1>10, <1>11, <1>13, <2>1
<1>. QED
  BY <1>12, <1>13

\* The windows of a range of days are a normalized list over those of its days.
LEMMA RangeExact ==
    ASSUME NEW plan, IsPlan(plan), NEW z, IsZone(z), NEW range,
           range.from \in Int, range.to \in Int, range.from <= range.to + 1
    PROVE  /\ WindowsForRange(plan, range, z) \in Seq(Spans)
           /\ Normalized(WindowsForRange(plan, range, z))
           /\ Real(WindowsForRange(plan, range, z)) /\ Lined(WindowsForRange(plan, range, z))
           /\ \A t \in Int : Covers(WindowsForRange(plan, range, z), t)
                 <=> \E date \in range.from..range.to : OpenOn(plan, date, z, t)
<1>. DEFINE n == range.to - range.from + 1
            on(i) == WindowsForDate(plan, range.from + i - 1, z)
            lists == [i \in 1..n |-> on(i)]
            all == Concatenated(lists)
<1>1. WindowsForRange(plan, range, z) = MergeIntervals(all)
  BY DEF WindowsForRange
<1>2. n \in Nat /\ \A i \in 1..n : range.from + i - 1 \in Int
  OBVIOUS
<1>3. ASSUME NEW i \in 1..n
      PROVE  /\ on(i) \in Seq(Spans) /\ Real(on(i))
             /\ \A t \in Int : Covers(on(i), t) <=> OpenOn(plan, range.from + i - 1, z, t)
  BY <1>2, DateExact
<1>4. /\ \A i \in 1..n : range.from + i - 1 \in range.from..range.to
      /\ \A date \in range.from..range.to :
            date - range.from + 1 \in 1..n /\ range.from + (date - range.from + 1) - 1 = date
  OBVIOUS
<1>. HIDE DEF n, on
<1>5. /\ lists \in Seq(Seq(Spans)) /\ DOMAIN lists = 1..n
      /\ \A i \in 1..n : lists[i] = on(i)
  <2>1. lists \in [1..n -> Seq(Spans)]
    BY <1>3
  <2>. QED
    BY <1>2, <2>1
<1>. HIDE DEF lists
<1>6. /\ all \in Seq(Spans) /\ Real(all)
      /\ \A t \in Int : Covers(all, t) <=> \E i \in 1..n : Covers(lists[i], t)
  <2>1. \A i \in DOMAIN lists : Real(lists[i])
    BY <1>3, <1>5
  <2>. QED
    BY <1>5, <2>1, ConcatCovers
<1>. HIDE DEF all
<1>7. \A t \in Int : Covers(all, t) <=>
          \E date \in range.from..range.to : OpenOn(plan, date, z, t)
  <2>1. \A t \in Int : Covers(all, t) <=> \E i \in 1..n : OpenOn(plan, range.from + i - 1, z, t)
    BY <1>3, <1>5, <1>6
  <2>. QED
    BY <1>4, <2>1
<1>. DEFINE m == MergeIntervals(all)
<1>8. /\ m \in Seq(Spans) /\ Lined(m) /\ Real(m) /\ Normalized(m)
      /\ \A t \in Int : Covers(m, t) <=> Covers(all, t)
  BY <1>6, MergeExact
<1>. HIDE DEF m
<1>. QED
  BY <1>1, <1>7, <1>8 DEF m

\* Days do not overlap.
LEMMA DaysApart ==
    \A a, b \in Int : a < b => a * Day + Day <= b * Day
<1>1. SUFFICES ASSUME NEW a \in Int, NEW b \in Int, a < b
               PROVE  a * Day + Day <= b * Day
  OBVIOUS
<1>2. Day \in Nat
  BY DayIsReal
<1>3. (a + 1) * Day = a * Day + Day
  BY <1>2
<1>4. (a + 1) * Day <= b * Day
  <2>1. b - (a + 1) \in Nat
    BY <1>1
  <2>2. (b - (a + 1)) * Day >= 0
    BY <1>2, <2>1
  <2>3. (b - (a + 1)) * Day = b * Day - (a + 1) * Day
    BY <1>2
  <2>4. b * Day \in Int /\ (a + 1) * Day \in Int
    BY <1>2
  <2>. QED
    BY <2>2, <2>3, <2>4
<1>. QED
  BY <1>3, <1>4

\* The facts of EpochOf for a wall-clock time alone.
LEMMA EpochAt ==
    ASSUME NEW z, IsZone(z), NEW date \in Int, NEW minute \in Int
    PROVE  LET t == ZonedTimeToEpoch(date, minute, z)
               wall == date * Day + minute
           IN  /\ t \in Int
               /\ t < z.at => t = wall - z.before
               /\ t >= z.at => t = wall - z.after \/ t = wall - z.before
               /\ wall - z.before < z.at => t <= wall - z.before
               /\ wall - z.after >= z.at => t <= wall - z.after
               /\ t >= z.at /\ t # wall - z.after => wall - z.after < z.at
<1>. DEFINE t == ZonedTimeToEpoch(date, minute, z)
            wall == date * Day + minute
            shows(u) == u + ZoneOffset(u, z) = wall
<1>1. /\ Day \in Nat \ {0} /\ z.at \in Int /\ wall \in Int
      /\ z.before \in 1-Day..Day-1 /\ z.after \in 1-Day..Day-1
      /\ z.after - z.before \in 1-Day..Day-1
  BY DayIsReal DEF IsZone
<1>2. \A u \in Int : ZoneOffset(u, z) = IF u < z.at THEN z.before ELSE z.after
  BY DEF ZoneOffset
<1>3. /\ t \in wall-Day+1..wall+Day-1
      /\ \A u \in Int : shows(u) => shows(t) /\ t <= u
      /\ ~shows(t) => z.at <= t /\ t + ZoneOffset(t, z) = wall + z.after - z.before
  BY <1>1, EpochOf
<1>. HIDE DEF t, wall
<1>4. t \in Int
  BY <1>1, <1>3
<1>5. z.before \in Int /\ z.after \in Int
  BY <1>1
<1>6. t < z.at => t = wall - z.before
  BY <1>1, <1>2, <1>3, <1>4, <1>5
<1>7. ASSUME t >= z.at
      PROVE  t = wall - z.after \/ t = wall - z.before
  <2>1. ZoneOffset(t, z) = z.after
    BY <1>1, <1>2, <1>4, <1>7
  <2>2. t + z.after = wall \/ t + z.after = wall + z.after - z.before
    BY <1>3, <2>1
  <2>. QED
    BY <1>1, <1>4, <1>5, <2>2
<1>8. ASSUME wall - z.before < z.at
      PROVE  t <= wall - z.before
  <2>1. wall - z.before \in Int /\ shows(wall - z.before)
    BY <1>1, <1>2, <1>5, <1>8
  <2>. HIDE DEF shows
  <2>. QED
    BY <1>3, <2>1
<1>9. ASSUME wall - z.after >= z.at
      PROVE  t <= wall - z.after /\ shows(t)
  <2>1. wall - z.after \in Int /\ shows(wall - z.after)
    BY <1>1, <1>2, <1>5, <1>9
  <2>. HIDE DEF shows
  <2>. QED
    BY <1>3, <2>1
<1>10. t >= z.at /\ t # wall - z.after => wall - z.after < z.at
  BY <1>1, <1>2, <1>4, <1>5, <1>9
<1>. QED
  BY <1>4, <1>6, <1>7, <1>8, <1>9, <1>10 DEF t, wall

\* A wall-clock time has come when the instant counts as a time from the one shown for it on.
LEMMA EpochReads ==
    ASSUME IsZone(zone), NEW date \in Int, NEW minute \in Int, NEW t \in Int
    PROVE  /\ CountsAs(t) \in Int
           /\ Shown(date * Day + minute) \in Int
           /\ ZonedTimeToEpoch(date, minute, zone) <= t
                 <=> Shown(date * Day + minute) <= CountsAs(t)
<1>. DEFINE e == ZonedTimeToEpoch(date, minute, zone)
            wall == date * Day + minute
<1>1. /\ Day \in Nat \ {0} /\ zone.at \in Int /\ wall \in Int
      /\ zone.before \in Int /\ zone.after \in Int
      /\ zone.after - zone.before < Day /\ zone.before - zone.after < Day
  BY DayIsReal DEF IsZone
<1>2. /\ e \in Int
      /\ e < zone.at => e = wall - zone.before
      /\ e >= zone.at => e = wall - zone.after \/ e = wall - zone.before
      /\ wall - zone.before < zone.at => e <= wall - zone.before
      /\ wall - zone.after >= zone.at => e <= wall - zone.after
      /\ e >= zone.at /\ e # wall - zone.after => wall - zone.after < zone.at
  BY EpochAt
<1>. HIDE DEF e, wall
<1>3. Shown(wall) = IF zone.at + zone.before <= wall /\ wall < zone.at + zone.after
                    THEN wall + zone.after - zone.before ELSE wall
  BY <1>1 DEF Shown
<1>4. CountsAs(t) = IF zone.at <= t /\ t < zone.at + zone.before - zone.after
                    THEN zone.at + zone.before - 1
                    ELSE t + (IF t < zone.at THEN zone.before ELSE zone.after)
  BY <1>1 DEF CountsAs, ZoneOffset
<1>5. CountsAs(t) \in Int /\ Shown(wall) \in Int
  BY <1>1, <1>3, <1>4
<1>6. CASE zone.after >= zone.before
  <2>1. CountsAs(t) = t + (IF t < zone.at THEN zone.before ELSE zone.after)
    BY <1>1, <1>4, <1>6
  <2>2. CASE wall - zone.before < zone.at
    <3>1. e = wall - zone.before /\ Shown(wall) = wall
      BY <1>1, <1>2, <1>3, <2>2
    <3>. QED
      BY <1>1, <1>5, <1>6, <2>1, <2>2, <3>1 DEF e, wall
  <2>3. CASE wall - zone.before >= zone.at /\ wall - zone.after < zone.at
    <3>1. e = wall - zone.before /\ Shown(wall) = wall + zone.after - zone.before
      BY <1>1, <1>2, <1>3, <2>3
    <3>. QED
      BY <1>1, <1>5, <1>6, <2>1, <2>3, <3>1 DEF e, wall
  <2>4. CASE wall - zone.after >= zone.at
    <3>1. e = wall - zone.after /\ Shown(wall) = wall
      BY <1>1, <1>2, <1>3, <1>6, <2>4
    <3>. QED
      BY <1>1, <1>5, <1>6, <2>1, <2>4, <3>1 DEF e, wall
  <2>. QED
    BY <1>1, <2>2, <2>3, <2>4
<1>7. CASE zone.after < zone.before
  <2>1. Shown(wall) = wall
    BY <1>1, <1>3, <1>7
  <2>2. CASE wall - zone.before < zone.at
    <3>1. e = wall - zone.before
      BY <1>1, <1>2, <2>2
    <3>. QED
      BY <1>1, <1>4, <1>5, <1>7, <2>1, <2>2, <3>1 DEF e, wall
  <2>3. CASE wall - zone.before >= zone.at
    <3>1. e = wall - zone.after
      BY <1>1, <1>2, <1>7, <2>3
    <3>. QED
      BY <1>1, <1>4, <1>5, <1>7, <2>1, <2>3, <3>1 DEF e, wall
  <2>. QED
    BY <1>1, <2>2, <2>3
<1>. QED
  BY <1>1, <1>5, <1>6, <1>7 DEF e, wall

\* The working hours of a day are the bounds of its hours and breaks, as the clock shows them.
LEMMA WorkedShown ==
    ASSUME IsZone(zone), NEW day \in DayHours, NEW date \in Int, NEW t \in Int
    PROVE  WorkedAt(day, date, zone, t) <=> Opens(ShownDay(day, date), CountsAs(t))
<1>1. ASSUME NEW ranges \in Ranges
      PROVE  Falls(ranges, date, zone, t) <=>
                \E i \in DOMAIN ShownRanges(ranges, date) :
                    /\ ShownRanges(ranges, date)[i].start <= CountsAs(t)
                    /\ CountsAs(t) < ShownRanges(ranges, date)[i].end
  <2>. DEFINE from(i) == date * Day + ranges[i].start
              to(i) == date * Day + ranges[i].end
  <2>1. \A i \in DOMAIN ranges : ranges[i].start \in Int /\ ranges[i].end \in Int
    BY RangesOf
  <2>2. /\ DOMAIN ShownRanges(ranges, date) = DOMAIN ranges
        /\ \A i \in DOMAIN ranges : /\ ShownRanges(ranges, date)[i].start = Shown(from(i))
                                    /\ ShownRanges(ranges, date)[i].end = Shown(to(i))
    BY DEF ShownRanges, Interval
  <2>3. ASSUME NEW i \in DOMAIN ranges
        PROVE  /\ ZonedTimeToEpoch(date, ranges[i].start, zone) <= t
                     <=> Shown(from(i)) <= CountsAs(t)
               /\ t < ZonedTimeToEpoch(date, ranges[i].end, zone)
                     <=> CountsAs(t) < Shown(to(i))
    <3>. DEFINE a == ZonedTimeToEpoch(date, ranges[i].start, zone)
                b == ZonedTimeToEpoch(date, ranges[i].end, zone)
    <3>1. a <= t <=> Shown(from(i)) <= CountsAs(t)
      BY <2>1, EpochReads
    <3>2. /\ Shown(to(i)) \in Int /\ CountsAs(t) \in Int /\ b \in Int
          /\ b <= t <=> Shown(to(i)) <= CountsAs(t)
      BY <2>1, EpochReads, EpochIsInt
    <3>. HIDE DEF a, b, to
    <3>3. t < b <=> CountsAs(t) < Shown(to(i))
      BY <3>2
    <3>. QED
      BY <3>1, <3>3 DEF a, b
  <2>. HIDE DEF from, to
  <2>. QED
    BY <2>2, <2>3 DEF Falls
<1>2. day.intervals \in Ranges /\ day.breaks \in Ranges
  BY DEF DayHours
<1>3. /\ ShownDay(day, date).intervals = ShownRanges(day.intervals, date)
      /\ ShownDay(day, date).breaks = ShownRanges(day.breaks, date)
  BY DEF ShownDay
<1>. QED
  BY <1>1, <1>2, <1>3 DEF WorkedAt, Opens

\* Where the clocks leave no doubt, an instant counts as what its clock shows, and no bound that
\* is moved on passes it.
LEMMA SettledShown ==
    ASSUME IsZone(zone), NEW t \in Int, t \notin Unsettled, NEW local \in Int
    PROVE  Shown(local) <= CountsAs(t) <=> local <= t + ZoneOffset(t, zone)
<1>1. /\ zone.at \in Int /\ zone.before \in Int /\ zone.after \in Int
  BY DayIsReal DEF IsZone
<1>2. /\ zone.after >= zone.before => ~(zone.at <= t /\ t < zone.at + (zone.after - zone.before))
      /\ zone.after < zone.before => ~(zone.at <= t /\ t < zone.at + (zone.before - zone.after))
  BY <1>1 DEF Unsettled, Distance
<1>3. Shown(local) = IF zone.at + zone.before <= local /\ local < zone.at + zone.after
                     THEN local + zone.after - zone.before ELSE local
  BY <1>1 DEF Shown
<1>4. CountsAs(t) = IF zone.at <= t /\ t < zone.at + zone.before - zone.after
                    THEN zone.at + zone.before - 1
                    ELSE t + ZoneOffset(t, zone)
  BY <1>1 DEF CountsAs
<1>5. ZoneOffset(t, zone) = IF t < zone.at THEN zone.before ELSE zone.after
  BY DEF ZoneOffset
<1>6. CASE zone.after >= zone.before
  BY <1>1, <1>2, <1>3, <1>4, <1>5, <1>6
<1>7. CASE zone.after < zone.before
  BY <1>1, <1>2, <1>3, <1>4, <1>5, <1>7
<1>. QED
  BY <1>1, <1>6, <1>7

\* There an instant is in the ranges of its own date alone, by its minute.
LEMMA SettledRanges ==
    ASSUME IsZone(zone), NEW t \in Int, t \notin Unsettled, NEW ranges \in Ranges, NEW d \in Int
    PROVE  (\E i \in DOMAIN ShownRanges(ranges, d) :
                /\ ShownRanges(ranges, d)[i].start <= CountsAs(t)
                /\ CountsAs(t) < ShownRanges(ranges, d)[i].end)
           <=> /\ d = WallClock(t, zone).date
               /\ \E i \in DOMAIN ranges : /\ ranges[i].start <= WallClock(t, zone).minute
                                           /\ WallClock(t, zone).minute < ranges[i].end
<1>. DEFINE x == t + ZoneOffset(t, zone)
            date == WallClock(t, zone).date
            m == WallClock(t, zone).minute
            from(i) == d * Day + ranges[i].start
            to(i) == d * Day + ranges[i].end
<1>1. x \in Int /\ date \in Int /\ m \in 0..Day - 1 /\ x = date * Day + m
  <2>1. x \in Int
    BY DayIsReal DEF ZoneOffset, IsZone
  <2>2. date = x \div Day /\ m = x % Day
    BY DEF WallClock
  <2>. HIDE DEF x, date, m
  <2>. QED
    BY <2>1, <2>2, DayIsReal
<1>2. \A i \in DOMAIN ranges : ranges[i].start \in 0..Day /\ ranges[i].end \in 0..Day
  BY RangesOf
<1>3. /\ DOMAIN ShownRanges(ranges, d) = DOMAIN ranges
      /\ \A i \in DOMAIN ranges : /\ ShownRanges(ranges, d)[i].start = Shown(from(i))
                                  /\ ShownRanges(ranges, d)[i].end = Shown(to(i))
  BY DEF ShownRanges, Interval
<1>4. \A i \in DOMAIN ranges : from(i) \in Int /\ to(i) \in Int
  BY <1>2, DayIsReal
<1>5. /\ date < d => date * Day + Day <= d * Day
      /\ d < date => d * Day + Day <= date * Day
  BY <1>1, DaysApart
<1>6. Day \in Nat /\ d * Day \in Int /\ date * Day \in Int
  BY <1>1, DayIsReal
<1>. HIDE DEF x, date, m
<1>7. ASSUME NEW i \in DOMAIN ranges
      PROVE  Shown(from(i)) <= CountsAs(t) /\ CountsAs(t) < Shown(to(i))
                <=> d = date /\ ranges[i].start <= m /\ m < ranges[i].end
  <2>1. Shown(from(i)) <= CountsAs(t) <=> from(i) <= x
    BY <1>4, <1>7, SettledShown DEF x
  <2>2. Shown(to(i)) <= CountsAs(t) <=> to(i) <= x
    BY <1>4, <1>7, SettledShown DEF x
  <2>3. CountsAs(t) \in Int /\ Shown(to(i)) \in Int
    <3>1. ranges[i].end \in Int
      BY <1>7, RangesOf
    <3>. QED
      BY <3>1, EpochReads
  <2>4. CountsAs(t) < Shown(to(i)) <=> x < to(i)
    BY <1>1, <1>4, <1>7, <2>2, <2>3
  <2>5. from(i) <= x /\ x < to(i) <=> d = date /\ ranges[i].start <= m /\ m < ranges[i].end
    <3>. DEFINE a == ranges[i].start
                b == ranges[i].end
    <3>1. a \in 0..Day /\ b \in 0..Day /\ from(i) = d * Day + a /\ to(i) = d * Day + b
      BY <1>2, <1>7
    <3>. HIDE DEF a, b, from, to
    <3>2. CASE d = date
      BY <1>1, <1>6, <3>1, <3>2 DEF a, b
    <3>3. CASE d < date
      BY <1>1, <1>5, <1>6, <3>1, <3>3 DEF a, b
    <3>4. CASE date < d
      BY <1>1, <1>5, <1>6, <3>1, <3>4 DEF a, b
    <3>. QED
      BY <1>1, <3>2, <3>3, <3>4
  <2>. QED
    BY <2>1, <2>4, <2>5
<1>. HIDE DEF from, to
<1>. QED
  BY <1>3, <1>7 DEF date, m

\* The hours that hold on a date are hours of a day, and a place is open by them.
LEMMA HoursDecide ==
    ASSUME NEW plan, IsPlan(plan), NEW z, NEW date \in Int, NEW t
    PROVE  /\ HoursOn(plan, date) \subseteq DayHours
           /\ OpenOn(plan, date, z, t)
                 <=> \E day \in HoursOn(plan, date) : WorkedAt(day, date, z, t)
<1>. DEFINE xs == plan.exceptions
            extra == OfKind(plan, "additional", date)
<1>1. /\ BaseDay(plan, date) \in DayHours
      /\ \A i \in DOMAIN xs : xs[i].day \in DayHours
  BY BaseDayType
<1>2. HoursOn(plan, date) = IF OfKind(plan, Closed, date) = {}
                            THEN {BaseDay(plan, date)} \cup {xs[i].day : i \in extra} ELSE {}
  BY Zenon DEF HoursOn, OfKind, BaseDay
<1>3. \A i \in extra : i \in DOMAIN xs
  BY DEF OfKind
<1>4. OpenOn(plan, date, z, t) <=>
          /\ OfKind(plan, Closed, date) = {}
          /\ \/ WorkedAt(BaseDay(plan, date), date, z, t)
             \/ \E i \in extra : WorkedAt(xs[i].day, date, z, t)
  BY DEF OpenOn
<1>. HIDE DEF xs, extra
<1>. QED
  BY <1>1, <1>2, <1>3, <1>4

\* An instant is in a list, as a set, when the list covers it.
LEMMA InIsCovered ==
    ASSUME NEW list \in Seq(Spans), NEW t \in Int
    PROVE  t \in In(list) <=> Covers(list, t)
<1>1. \A i \in DOMAIN list : list[i].start \in Int /\ list[i].end \in Int
  BY SpansOf
<1>2. \A i \in DOMAIN list :
          t \in Span(list[i].start, list[i].end) <=> list[i].start <= t /\ t < list[i].end
  BY <1>1 DEF Span
<1>. QED
  BY <1>2 DEF In, Covers

\* The windows of a plan are the minutes it says, and next to a change what its bounds say.
LEMMA WindowsRight ==
    ASSUME NEW plan, IsPlan(plan), IsZone(zone)
    PROVE  LET windows == WindowsForRange(plan, Whole, zone)
               open    == In(windows)
           IN  /\ Normalized(windows)
               /\ \A t \in Instants \ Unsettled :
                     LET w == WallClock(t, zone)
                     IN  w.date \in Whole.from..Whole.to => (t \in open <=> IsOpenAt(plan, w))
               /\ \A t \in Instants \cap Unsettled :
                     t \in open <=> \E date \in Whole.from..Whole.to :
                                        \E day \in HoursOn(plan, date) :
                                            Opens(ShownDay(day, date), CountsAs(t))
<1>. DEFINE windows == WindowsForRange(plan, Whole, zone)
            lo == Min(Days)
            hi == Max(Days)
<1>1. lo \in Nat /\ hi \in Nat /\ lo <= hi
  <2>1. Days \in SUBSET Nat /\ IsFiniteSet(Days) /\ Days # {}
    BY CalendarConstants
  <2>2. Min(Days) \in Days /\ Max(Days) \in Days /\ \A k \in Days : Max(Days) >= k
    BY <2>1, Extremes
  <2>. QED
    BY <2>1, <2>2
<1>2. /\ Whole.from = lo - 1 /\ Whole.to = hi + 1
      /\ Whole.from \in Int /\ Whole.to \in Int /\ Whole.from <= Whole.to + 1
  <2>1. Whole.from = lo - 1 /\ Whole.to = hi + 1
    BY DEF Whole
  <2>. HIDE DEF lo, hi
  <2>. QED
    BY <1>1, <2>1
<1>. HIDE DEF lo, hi
<1>3. /\ windows \in Seq(Spans) /\ Normalized(windows)
      /\ \A t \in Int : Covers(windows, t)
            <=> \E date \in Whole.from..Whole.to : OpenOn(plan, date, zone, t)
  BY <1>2, RangeExact
<1>. HIDE DEF windows
<1>4. \A t \in Instants : t \in Int
  <2>1. Instants = lo * Day - Day..(hi + 2) * Day
    BY DEF Instants, lo, hi
  <2>2. lo * Day - Day \in Int /\ (hi + 2) * Day \in Int
    BY <1>1, DayIsReal
  <2>. QED
    BY <2>1, <2>2
<1>5. \A d \in Whole.from..Whole.to : d \in Int
  BY <1>2
<1>6. ASSUME NEW t \in Instants
      PROVE  t \in In(windows) <=> \E date \in Whole.from..Whole.to :
                                       \E day \in HoursOn(plan, date) :
                                           Opens(ShownDay(day, date), CountsAs(t))
  <2>1. t \in In(windows) <=> Covers(windows, t)
    BY <1>3, <1>4, <1>6, InIsCovered
  <2>2. t \in In(windows) <=> \E date \in Whole.from..Whole.to : OpenOn(plan, date, zone, t)
    BY <1>3, <1>4, <1>6, <2>1
  <2>3. ASSUME NEW date \in Whole.from..Whole.to
        PROVE  OpenOn(plan, date, zone, t) <=>
                  \E day \in HoursOn(plan, date) : Opens(ShownDay(day, date), CountsAs(t))
    <3>1. /\ HoursOn(plan, date) \subseteq DayHours
          /\ OpenOn(plan, date, zone, t)
                <=> \E day \in HoursOn(plan, date) : WorkedAt(day, date, zone, t)
      BY <1>5, <2>3, HoursDecide
    <3>2. \A day \in HoursOn(plan, date) :
              WorkedAt(day, date, zone, t) <=> Opens(ShownDay(day, date), CountsAs(t))
      BY <1>4, <1>5, <1>6, <2>3, <3>1, WorkedShown
    <3>. QED
      BY <3>1, <3>2
  <2>. QED
    BY <2>2, <2>3
<1>7. ASSUME NEW t \in Instants \ Unsettled, WallClock(t, zone).date \in Whole.from..Whole.to
      PROVE  t \in In(windows) <=> IsOpenAt(plan, WallClock(t, zone))
  <2>. DEFINE date == WallClock(t, zone).date
              m == WallClock(t, zone).minute
  <2>1. t \in Int /\ t \notin Unsettled /\ date \in Int
    BY <1>4, <1>5, <1>7
  <2>2. ASSUME NEW d \in Int, NEW day \in DayHours
        PROVE  Opens(ShownDay(day, d), CountsAs(t)) <=> d = date /\ Opens(day, m)
    <3>1. day.intervals \in Ranges /\ day.breaks \in Ranges
      BY DEF DayHours
    <3>2. ASSUME NEW ranges \in Ranges
          PROVE  (\E i \in DOMAIN ShownRanges(ranges, d) :
                      /\ ShownRanges(ranges, d)[i].start <= CountsAs(t)
                      /\ CountsAs(t) < ShownRanges(ranges, d)[i].end)
                 <=> d = date /\ \E i \in DOMAIN ranges :
                                    ranges[i].start <= m /\ m < ranges[i].end
      BY <2>1, SettledRanges
    <3>3. /\ ShownDay(day, d).intervals = ShownRanges(day.intervals, d)
          /\ ShownDay(day, d).breaks = ShownRanges(day.breaks, d)
      BY DEF ShownDay
    <3>. HIDE DEF date, m
    <3>. QED
      BY <3>1, <3>2, <3>3 DEF Opens
  <2>3. \A d \in Int : HoursOn(plan, d) \subseteq DayHours
    BY HoursDecide
  <2>4. IsOpenAt(plan, WallClock(t, zone)) <=> \E day \in HoursOn(plan, date) : Opens(day, m)
    BY DEF IsOpenAt
  <2>5. date \in Whole.from..Whole.to
    BY <1>7
  <2>6. t \in In(windows) <=> \E d \in Whole.from..Whole.to :
                                  \E day \in HoursOn(plan, d) :
                                      Opens(ShownDay(day, d), CountsAs(t))
    BY <1>6, <1>7
  <2>. HIDE DEF date, m
  <2>. QED
    BY <1>5, <2>1, <2>2, <2>3, <2>4, <2>5, <2>6
<1>. QED
  BY <1>3, <1>6, <1>7 DEF windows

-----------------------------------------------------------------------------
(* Weeks that are cut.                                                     *)

\* Each span ends before the next begins, or where it does.
Apart(list) == \A i, j \in DOMAIN list : i < j => list[i].end <= list[j].start

\* Parsed ranges are real and apart.
LEMMA ParsedIsApart ==
    ASSUME NEW list \in Seq(Spans)
    PROVE  IsParsed(list) <=> Real(list) /\ Apart(list)
<1>1. /\ Len(list) \in Nat /\ DOMAIN list = 1..Len(list)
      /\ \A i \in DOMAIN list : list[i].start \in Int /\ list[i].end \in Int
  BY SpansOf
<1>2. ASSUME IsParsed(list)
      PROVE  Apart(list)
  <2>1. /\ \A i \in DOMAIN list : list[i].start < list[i].end
        /\ \A i \in DOMAIN list \ {1} : list[i - 1].end <= list[i].start
    BY <1>2 DEF IsParsed
  <2>. DEFINE D == DOMAIN list
              m == [j \in D |-> j]
              P == {j \in D : \A i \in D : i < j => list[i].end <= list[j].start}
  <2>2. ASSUME NEW j \in D, \A k \in D : m[k] < m[j] => k \in P
        PROVE  j \in P
    <3>1. SUFFICES ASSUME NEW i \in D, i < j PROVE list[i].end <= list[j].start
      OBVIOUS
    <3>2. j - 1 \in D /\ j # 1 /\ list[j - 1].end <= list[j].start
      BY <1>1, <2>1, <3>1
    <3>3. CASE i = j - 1
      BY <3>2, <3>3
    <3>4. CASE i # j - 1
      <4>1. i < j - 1 /\ m[j - 1] < m[j]
        BY <1>1, <3>1, <3>2, <3>4
      <4>2. list[i].end <= list[j - 1].start
        BY <2>2, <3>1, <3>2, <4>1
      <4>. QED
        BY <1>1, <2>1, <3>1, <3>2, <4>2
    <3>. QED
      BY <3>3, <3>4
  <2>3. m \in [D -> Nat]
    BY <1>1
  <2>4. \A j \in D : j \in P
    <3>. HIDE DEF D, m, P
    <3>. QED
      BY <2>2, <2>3, ByMeasure
  <2>. QED
    BY <2>4 DEF Apart
<1>3. ASSUME Real(list), Apart(list)
      PROVE  IsParsed(list)
  <2>1. ASSUME NEW i \in DOMAIN list \ {1}
        PROVE  list[i - 1].end <= list[i].start
    <3>1. i - 1 \in DOMAIN list /\ i \in DOMAIN list /\ i - 1 < i
      BY <1>1
    <3>. QED
      BY <1>3, <3>1 DEF Apart
  <2>. QED
    BY <1>3, <2>1 DEF IsParsed, Real
<1>4. IsParsed(list) => Real(list)
  BY DEF IsParsed, Real
<1>. QED
  BY <1>2, <1>3, <1>4

\* Real spans within a day are ranges of its minutes.
LEMMA InDay ==
    ASSUME NEW list \in Seq(Spans), Real(list), Inside(list, 0, Day)
    PROVE  list \in Ranges
<1>. DEFINE T == [start : 0..Day, end : 0..Day]
<1>1. Len(list) \in Nat /\ DOMAIN list = 1..Len(list) /\ Day \in Nat
  BY SpansOf, DayIsReal
<1>2. ASSUME NEW i \in 1..Len(list)
      PROVE  list[i] \in T
  <2>1. list[i] \in Spans
    BY <1>1
  <2>2. list[i].start \in Int /\ list[i].end \in Int
        /\ list[i] = [start |-> list[i].start, end |-> list[i].end]
    BY <2>1 DEF Spans
  <2>3. 0 <= list[i].start /\ list[i].end <= Day /\ list[i].start < list[i].end
    BY <1>1 DEF Real, Inside
  <2>4. list[i].start \in 0..Day /\ list[i].end \in 0..Day
    BY <1>1, <2>2, <2>3
  <2>. QED
    BY <2>2, <2>4
<1>. HIDE DEF T
<1>3. list \in Seq(T)
  BY <1>1, <1>2
<1>. QED
  BY <1>3 DEF Ranges, T

\* The ranges of a day lie within it.
LEMMA RangesInDay ==
    ASSUME NEW ranges \in Ranges
    PROVE  ranges \in Seq(Spans) /\ Inside(ranges, 0, Day)
<1>1. \A i \in DOMAIN ranges : ranges[i].start \in 0..Day /\ ranges[i].end \in 0..Day
  BY RangesOf
<1>2. \A x \in 0..Day : 0 <= x /\ x <= Day
  BY DayIsReal
<1>. QED
  BY <1>1, <1>2, RangesOf DEF Inside

\* What a frame is open, merged.
LEMMA MergedExact ==
    ASSUME NEW ranges \in Ranges, IsParsed(ranges)
    PROVE  /\ Merged(ranges) \in Ranges /\ Real(Merged(ranges)) /\ Apart(Merged(ranges))
           /\ \A t \in Int : Covers(Merged(ranges), t) <=> Covers(ranges, t)
<1>. DEFINE m == Merged(ranges)
<1>1. ranges \in Seq(Spans) /\ Inside(ranges, 0, Day) /\ 0 \in Int /\ Day \in Int
  BY RangesInDay, DayIsReal
<1>2. Real(ranges)
  BY <1>1, ParsedIsApart
<1>3. /\ m \in Seq(Spans) /\ Lined(m) /\ Real(m) /\ Inside(m, 0, Day)
      /\ \A t \in Int : Covers(m, t) <=> Covers(ranges, t)
  BY <1>1, <1>2, MergeExact DEF Merged
<1>. HIDE DEF m
<1>4. m \in Ranges
  BY <1>3, InDay
<1>5. Apart(m)
  BY <1>3, SpansOf DEF Lined, Apart
<1>. QED
  BY <1>3, <1>4, <1>5 DEF m

\* A span is what two others have in common.
IsCut(x, a, b) ==
    /\ x.start = Larger(a.start, b.start) /\ x.end = Smaller(a.end, b.end)
    /\ x.start < x.end

\* One range cut by each stretch of a frame.
LEMMA CutByFrame ==
    ASSUME NEW a \in Spans, NEW frame \in Seq(Spans), Apart(frame)
    PROVE  LET row == Concatenated([j \in DOMAIN frame |->
                          Piece(Larger(a.start, frame[j].start), Smaller(a.end, frame[j].end))])
           IN  /\ row \in Seq(Spans) /\ Apart(row)
               /\ \A p \in DOMAIN row : \E j \in DOMAIN frame : IsCut(row[p], a, frame[j])
               /\ \A j \in DOMAIN frame :
                     Larger(a.start, frame[j].start) < Smaller(a.end, frame[j].end)
                     => \E p \in DOMAIN row : IsCut(row[p], a, frame[j])
<1>. DEFINE from(j) == Larger(a.start, frame[j].start)
            to(j)   == Smaller(a.end, frame[j].end)
            x(j)    == Interval(from(j), to(j))
            lists == [j \in DOMAIN frame |-> Piece(from(j), to(j))]
            row == Concatenated(lists)
            B == {w \in Spans \X Spans : w[1].end <= w[2].start}
<1>1. /\ Len(frame) \in Nat /\ DOMAIN frame = 1..Len(frame)
      /\ \A j \in DOMAIN frame : frame[j].start \in Int /\ frame[j].end \in Int
      /\ a.start \in Int /\ a.end \in Int
  BY SpansOf DEF Spans
<1>2. \A j \in DOMAIN frame : /\ from(j) \in Int /\ to(j) \in Int
                              /\ from(j) >= frame[j].start /\ to(j) <= frame[j].end
  BY <1>1 DEF Larger, Smaller
<1>3. \A j \in DOMAIN frame : /\ x(j) \in Spans /\ x(j).start = from(j) /\ x(j).end = to(j)
                              /\ from(j) < to(j) => IsCut(x(j), a, frame[j])
  BY <1>2 DEF Interval, Spans, IsCut
<1>4. \A j \in DOMAIN frame : Piece(from(j), to(j)) = IF to(j) > from(j) THEN <<x(j)>> ELSE <<>>
  BY DEF Piece
<1>. HIDE DEF from, to, x
<1>5. \A j \in DOMAIN frame :
          IF from(j) < to(j) THEN Piece(from(j), to(j)) = <<x(j)>> ELSE Piece(from(j), to(j)) = <<>>
  BY <1>2, <1>4
<1>6. /\ lists \in Seq(Seq(Spans)) /\ DOMAIN lists = DOMAIN frame
      /\ \A j \in DOMAIN frame : lists[j] = IF from(j) < to(j) THEN <<x(j)>> ELSE <<>>
  <2>1. lists \in [1..Len(frame) -> Seq(Spans)]
    <3>1. \A j \in DOMAIN frame : Piece(from(j), to(j)) \in Seq(Spans)
      BY <1>2, PieceType
    <3>. QED
      BY <1>1, <3>1
  <2>. QED
    BY <1>1, <1>5, <2>1
<1>. HIDE DEF lists
<1>7. \A y : DOMAIN <<y>> = {1} /\ <<y>>[1] = y
  OBVIOUS
<1>8. DOMAIN <<>> = {}
  OBVIOUS
<1>9. \A j \in DOMAIN lists : \A k \in DOMAIN lists[j] :
          k = 1 /\ from(j) < to(j) /\ lists[j][k] = x(j)
  <2>1. SUFFICES ASSUME NEW j \in DOMAIN lists, NEW k \in DOMAIN lists[j]
                 PROVE  k = 1 /\ from(j) < to(j) /\ lists[j][k] = x(j)
    OBVIOUS
  <2>2. CASE from(j) < to(j)
    <3>1. lists[j] = <<x(j)>>
      BY <1>6, <2>2
    <3>. QED
      BY <1>7, <2>2, <3>1
  <2>3. CASE ~(from(j) < to(j))
    <3>1. lists[j] = <<>>
      BY <1>6, <2>3
    <3>. QED
      BY <1>8, <3>1
  <2>. QED
    BY <2>2, <2>3
<1>10. \A j \in DOMAIN lists : \A k, l \in DOMAIN lists[j] :
           k < l => <<lists[j][k], lists[j][l]>> \in B
  <2>1. ~(1 < 1)
    OBVIOUS
  <2>. QED
    BY <1>9, <2>1
<1>11. \A i, j \in DOMAIN lists : i < j =>
           \A k \in DOMAIN lists[i], l \in DOMAIN lists[j] : <<lists[i][k], lists[j][l]>> \in B
  <2>1. SUFFICES ASSUME NEW i \in DOMAIN lists, NEW j \in DOMAIN lists, i < j
                 PROVE  x(i) \in Spans /\ x(j) \in Spans /\ x(i).end <= x(j).start
    BY <1>9
  <2>2. i \in DOMAIN frame /\ j \in DOMAIN frame /\ frame[i].end <= frame[j].start
    BY <1>6, <2>1 DEF Apart
  <2>3. to(i) <= frame[i].end /\ frame[j].start <= from(j)
    BY <1>1, <1>2, <2>2
  <2>. QED
    BY <1>1, <1>2, <1>3, <2>2, <2>3
<1>12. /\ row \in Seq(Spans)
       /\ \A p \in DOMAIN row : \E i \in DOMAIN lists : \E k \in DOMAIN lists[i] :
             row[p] = lists[i][k]
       /\ \A i \in DOMAIN lists : \A k \in DOMAIN lists[i] : \E p \in DOMAIN row :
             row[p] = lists[i][k]
       /\ \A p, q \in DOMAIN row : p < q => <<row[p], row[q]>> \in B
  <2>. HIDE DEF B
  <2>. QED
    BY <1>6, <1>10, <1>11, ConcatExact, Zenon
<1>13. row = Concatenated([j \in DOMAIN frame |->
                 Piece(Larger(a.start, frame[j].start), Smaller(a.end, frame[j].end))])
  BY DEF lists, from, to
<1>. HIDE DEF row
<1>14. Apart(row)
  BY <1>12 DEF Apart
<1>15. \A p \in DOMAIN row : \E j \in DOMAIN frame : IsCut(row[p], a, frame[j])
  <2>1. SUFFICES ASSUME NEW p \in DOMAIN row
                 PROVE  \E j \in DOMAIN frame : IsCut(row[p], a, frame[j])
    OBVIOUS
  <2>2. PICK i \in DOMAIN lists : \E k \in DOMAIN lists[i] : row[p] = lists[i][k]
    BY <1>12
  <2>3. i \in DOMAIN frame /\ from(i) < to(i) /\ row[p] = x(i)
    BY <1>6, <1>9, <2>2
  <2>. QED
    BY <1>3, <2>3
<1>16. \A j \in DOMAIN frame : from(j) < to(j) => \E p \in DOMAIN row : IsCut(row[p], a, frame[j])
  <2>1. SUFFICES ASSUME NEW j \in DOMAIN frame, from(j) < to(j)
                 PROVE  \E p \in DOMAIN row : IsCut(row[p], a, frame[j])
    OBVIOUS
  <2>2. lists[j] = <<x(j)>> /\ j \in DOMAIN lists
    BY <1>6, <2>1
  <2>3. 1 \in DOMAIN lists[j] /\ lists[j][1] = x(j)
    BY <1>7, <2>2
  <2>4. PICK p \in DOMAIN row : row[p] = x(j)
    BY <1>12, <2>2, <2>3
  <2>. QED
    BY <1>3, <2>1, <2>4
<1>. QED
  BY <1>12, <1>13, <1>14, <1>15, <1>16 DEF from, to

\* Ranges cut by a frame: ranges again, over the minutes in both, each within a stretch of it.
LEMMA ClipExact ==
    ASSUME NEW ranges \in Ranges, NEW frame \in Ranges,
           IsParsed(ranges), Apart(frame)
    PROVE  /\ ClipRanges(ranges, frame) \in Ranges
           /\ IsParsed(ClipRanges(ranges, frame))
           /\ \A t \in Int : Covers(ClipRanges(ranges, frame), t)
                               <=> Covers(ranges, t) /\ Covers(frame, t)
           /\ \A p \in DOMAIN ClipRanges(ranges, frame) : IsCovered(ClipRanges(ranges, frame)[p], frame)
<1>. DEFINE row(i) == Concatenated([j \in DOMAIN frame |->
                          Piece(Larger(ranges[i].start, frame[j].start),
                                Smaller(ranges[i].end, frame[j].end))])
            rows == [i \in DOMAIN ranges |-> row(i)]
            all == Concatenated(rows)
            cut == Sorted(all)
            B == {w \in Spans \X Spans : w[1].end <= w[2].start}
<1>1. ClipRanges(ranges, frame) = cut
  BY DEF ClipRanges
<1>2. /\ ranges \in Seq(Spans) /\ Inside(ranges, 0, Day)
      /\ frame \in Seq(Spans)
      /\ Apart(ranges)
  BY RangesInDay, ParsedIsApart
<1>3. /\ Len(ranges) \in Nat /\ DOMAIN ranges = 1..Len(ranges)
      /\ \A i \in DOMAIN ranges : /\ ranges[i] \in Spans
                                  /\ ranges[i].start \in Int /\ ranges[i].end \in Int
      /\ \A j \in DOMAIN frame : frame[j].start \in Int /\ frame[j].end \in Int
  BY <1>2, SpansOf
<1>4. ASSUME NEW i \in DOMAIN ranges
      PROVE  /\ row(i) \in Seq(Spans) /\ Apart(row(i))
             /\ \A p \in DOMAIN row(i) : \E j \in DOMAIN frame :
                   IsCut(row(i)[p], ranges[i], frame[j])
             /\ \A j \in DOMAIN frame :
                   Larger(ranges[i].start, frame[j].start) < Smaller(ranges[i].end, frame[j].end)
                   => \E p \in DOMAIN row(i) : IsCut(row(i)[p], ranges[i], frame[j])
  BY <1>2, <1>3, CutByFrame
<1>. HIDE DEF row
<1>5. /\ rows \in Seq(Seq(Spans)) /\ DOMAIN rows = DOMAIN ranges
      /\ \A i \in DOMAIN ranges : rows[i] = row(i)
  <2>1. rows \in [1..Len(ranges) -> Seq(Spans)]
    BY <1>3, <1>4
  <2>. QED
    BY <1>3, <2>1
<1>. HIDE DEF rows
<1>6. \A i \in DOMAIN rows : \A k \in DOMAIN rows[i] :
          /\ rows[i][k] \in Spans
          /\ \E j \in DOMAIN frame : IsCut(rows[i][k], ranges[i], frame[j])
  <2>1. \A s \in Seq(Spans) : \A k \in DOMAIN s : s[k] \in Spans
    OBVIOUS
  <2>. QED
    BY <1>4, <1>5, <2>1
<1>7. \A i \in DOMAIN rows : \A k \in DOMAIN rows[i] :
          ranges[i].start <= rows[i][k].start /\ rows[i][k].end <= ranges[i].end
  <2>1. SUFFICES ASSUME NEW i \in DOMAIN rows, NEW k \in DOMAIN rows[i]
                 PROVE  ranges[i].start <= rows[i][k].start /\ rows[i][k].end <= ranges[i].end
    OBVIOUS
  <2>2. PICK j \in DOMAIN frame : IsCut(rows[i][k], ranges[i], frame[j])
    BY <1>6
  <2>. QED
    BY <1>3, <1>5, <2>2 DEF IsCut, Larger, Smaller
<1>8. \A i \in DOMAIN rows : \A k, l \in DOMAIN rows[i] :
          k < l => <<rows[i][k], rows[i][l]>> \in B
  <2>1. \A i \in DOMAIN rows : Apart(rows[i])
    BY <1>4, <1>5
  <2>. QED
    BY <1>6, <2>1 DEF Apart
<1>9. \A i, j \in DOMAIN rows : i < j =>
          \A k \in DOMAIN rows[i], l \in DOMAIN rows[j] : <<rows[i][k], rows[j][l]>> \in B
  <2>1. SUFFICES ASSUME NEW i \in DOMAIN rows, NEW j \in DOMAIN rows, i < j,
                        NEW k \in DOMAIN rows[i], NEW l \in DOMAIN rows[j]
                 PROVE  rows[i][k].end <= rows[j][l].start
    BY <1>6
  <2>2. ranges[i].end <= ranges[j].start
    BY <1>2, <1>5, <2>1 DEF Apart
  <2>3. rows[i][k].end <= ranges[i].end /\ ranges[j].start <= rows[j][l].start
    BY <1>7
  <2>4. rows[i][k].end \in Int /\ rows[j][l].start \in Int
    BY <1>6 DEF Spans
  <2>. QED
    BY <1>3, <1>5, <2>2, <2>3, <2>4
<1>10. /\ all \in Seq(Spans)
       /\ \A p \in DOMAIN all : \E i \in DOMAIN rows : \E k \in DOMAIN rows[i] :
             all[p] = rows[i][k]
       /\ \A i \in DOMAIN rows : \A k \in DOMAIN rows[i] : \E p \in DOMAIN all :
             all[p] = rows[i][k]
       /\ \A p, q \in DOMAIN all : p < q => <<all[p], all[q]>> \in B
  <2>. HIDE DEF B
  <2>. QED
    BY <1>5, <1>8, <1>9, ConcatExact, Zenon
<1>. HIDE DEF all
<1>11. \A p \in DOMAIN all : \E i \in DOMAIN ranges : \E j \in DOMAIN frame :
           IsCut(all[p], ranges[i], frame[j])
  <2>1. SUFFICES ASSUME NEW p \in DOMAIN all
                 PROVE  \E i \in DOMAIN ranges : \E j \in DOMAIN frame :
                            IsCut(all[p], ranges[i], frame[j])
    OBVIOUS
  <2>2. PICK i \in DOMAIN rows : \E k \in DOMAIN rows[i] : all[p] = rows[i][k]
    BY <1>10
  <2>. QED
    BY <1>5, <1>6, <2>2
<1>12. \A i \in DOMAIN ranges : \A j \in DOMAIN frame :
           Larger(ranges[i].start, frame[j].start) < Smaller(ranges[i].end, frame[j].end)
           => \E p \in DOMAIN all : IsCut(all[p], ranges[i], frame[j])
  BY <1>4, <1>5, <1>10
<1>13. Real(all) /\ Inside(all, 0, Day)
  <2>1. SUFFICES ASSUME NEW p \in DOMAIN all
                 PROVE  all[p].start < all[p].end /\ 0 <= all[p].start /\ all[p].end <= Day
    BY DEF Real, Inside
  <2>2. PICK i \in DOMAIN ranges, j \in DOMAIN frame : IsCut(all[p], ranges[i], frame[j])
    BY <1>11
  <2>3. 0 <= ranges[i].start /\ ranges[i].end <= Day
    BY <1>2 DEF Inside
  <2>. QED
    BY <1>3, <2>2, <2>3, DayIsReal DEF IsCut, Larger, Smaller
<1>14. \A t \in Int : Covers(all, t) <=> Covers(ranges, t) /\ Covers(frame, t)
  <2>1. ASSUME NEW t \in Int, Covers(all, t)
        PROVE  Covers(ranges, t) /\ Covers(frame, t)
    <3>1. PICK p \in DOMAIN all : all[p].start <= t /\ t < all[p].end
      BY <2>1 DEF Covers
    <3>2. PICK i \in DOMAIN ranges, j \in DOMAIN frame : IsCut(all[p], ranges[i], frame[j])
      BY <1>11
    <3>3. /\ ranges[i].start <= t /\ t < ranges[i].end
          /\ frame[j].start <= t /\ t < frame[j].end
      BY <1>3, <3>1, <3>2 DEF IsCut, Larger, Smaller
    <3>. QED
      BY <3>3 DEF Covers
  <2>2. ASSUME NEW t \in Int, Covers(ranges, t), Covers(frame, t)
        PROVE  Covers(all, t)
    <3>1. PICK i \in DOMAIN ranges : ranges[i].start <= t /\ t < ranges[i].end
      BY <2>2 DEF Covers
    <3>2. PICK j \in DOMAIN frame : frame[j].start <= t /\ t < frame[j].end
      BY <2>2 DEF Covers
    <3>3. /\ Larger(ranges[i].start, frame[j].start) <= t
          /\ t < Smaller(ranges[i].end, frame[j].end)
          /\ Larger(ranges[i].start, frame[j].start) < Smaller(ranges[i].end, frame[j].end)
      BY <1>3, <3>1, <3>2 DEF Larger, Smaller
    <3>4. PICK p \in DOMAIN all : IsCut(all[p], ranges[i], frame[j])
      BY <1>12, <3>3
    <3>. QED
      BY <3>3, <3>4 DEF IsCut, Covers
  <2>. QED
    BY <2>1, <2>2
<1>15. /\ cut \in Seq(Spans) /\ Real(cut) /\ Inside(cut, 0, Day)
       /\ \A i \in DOMAIN cut : \E k \in DOMAIN all : cut[i] = all[k]
       /\ \A t \in Int : Covers(cut, t) <=> Covers(all, t)
  BY <1>10, <1>13, SortedKeeps, DayIsReal
<1>16. /\ Len(cut) = Len(all) /\ Rising(cut)
       /\ \E p : Shuffles(p, Len(all)) /\ \A i \in 1..Len(all) : cut[i] = all[p[i]]
  BY <1>10, SortedExact
<1>. HIDE DEF cut
<1>17. Apart(cut)
  <2>1. PICK p : Shuffles(p, Len(all)) /\ \A i \in 1..Len(all) : cut[i] = all[p[i]]
    BY <1>16
  <2>2. /\ Len(all) \in Nat /\ DOMAIN all = 1..Len(all) /\ DOMAIN cut = 1..Len(all)
    BY <1>10, <1>15, <1>16
  <2>3. SUFFICES ASSUME NEW i \in DOMAIN cut, NEW j \in DOMAIN cut, i < j
                 PROVE  cut[i].end <= cut[j].start
    BY DEF Apart
  <2>4. /\ p[i] \in DOMAIN all /\ p[j] \in DOMAIN all /\ p[i] # p[j]
        /\ cut[i] = all[p[i]] /\ cut[j] = all[p[j]]
    <3>1. i # j
      BY <2>2, <2>3
    <3>. QED
      BY <2>1, <2>2, <3>1 DEF Shuffles
  <2>5. /\ cut[i].start \in Int /\ cut[i].end \in Int /\ cut[j].start \in Int /\ cut[j].end \in Int
        /\ cut[i].start < cut[i].end /\ cut[j].start < cut[j].end
        /\ cut[i].start <= cut[j].start
    <3>1. cut[i].start <= cut[j].start
      BY <1>16, <2>3 DEF Rising
    <3>2. \A q \in DOMAIN cut : cut[q].start < cut[q].end /\ cut[q].start \in Int /\ cut[q].end \in Int
      BY <1>15, SpansOf DEF Real
    <3>. QED
      BY <3>1, <3>2
  <2>6. p[i] < p[j] \/ p[j] < p[i]
    BY <2>2, <2>4
  <2>7. cut[i].end <= cut[j].start \/ cut[j].end <= cut[i].start
    <3>1. \A q, r \in DOMAIN all : q < r => all[q].end <= all[r].start
      BY <1>10
    <3>. QED
      BY <2>4, <2>6, <3>1
  <2>. QED
    BY <2>5, <2>7
<1>18. cut \in Ranges /\ IsParsed(cut)
  BY <1>15, <1>17, InDay, ParsedIsApart
<1>19. \A p \in DOMAIN cut : IsCovered(cut[p], frame)
  <2>1. SUFFICES ASSUME NEW p \in DOMAIN cut PROVE IsCovered(cut[p], frame)
    OBVIOUS
  <2>2. PICK k \in DOMAIN all : cut[p] = all[k]
    BY <1>15
  <2>3. PICK i \in DOMAIN ranges, j \in DOMAIN frame : IsCut(all[k], ranges[i], frame[j])
    BY <1>11
  <2>4. frame[j].start <= cut[p].start /\ cut[p].end <= frame[j].end
    BY <1>3, <2>2, <2>3 DEF IsCut, Larger, Smaller
  <2>. QED
    BY <2>4 DEF IsCovered
<1>. QED
  BY <1>1, <1>14, <1>15, <1>18, <1>19

\* What the hours of a day mean, minute by minute.
LEMMA OpensIs ==
    ASSUME NEW day, NEW minute
    PROVE  Opens(day, minute) <=> Covers(day.intervals, minute) /\ ~Covers(day.breaks, minute)
BY DEF Opens, Covers

\* A day cut by a frame: hours and breaks again, inside the frame, with what both have open.
LEMMA DayCut ==
    ASSUME NEW day, IsDay(day), NEW frame \in Ranges, Apart(frame)
    PROVE  /\ IsDay(ClipDay(day, frame))
           /\ \A i \in DOMAIN ClipDay(day, frame).intervals :
                 IsCovered(ClipDay(day, frame).intervals[i], frame)
           /\ \A t \in Int : Opens(ClipDay(day, frame), t) <=> Opens(day, t) /\ Covers(frame, t)
<1>. DEFINE intervals == ClipRanges(day.intervals, frame)
            breaks == ClipRanges(day.breaks, intervals)
<1>1. /\ day.intervals \in Ranges /\ day.breaks \in Ranges
      /\ IsParsed(day.intervals) /\ IsParsed(day.breaks)
  BY DEF IsDay, DayHours
<1>2. ClipDay(day, frame) = [intervals |-> intervals, breaks |-> breaks]
  BY DEF ClipDay, BreaksLeft
<1>3. /\ intervals \in Ranges /\ IsParsed(intervals)
      /\ \A t \in Int : Covers(intervals, t) <=> Covers(day.intervals, t) /\ Covers(frame, t)
      /\ \A i \in DOMAIN intervals : IsCovered(intervals[i], frame)
  BY <1>1, ClipExact
<1>. HIDE DEF intervals
<1>4. Apart(intervals)
  BY <1>3, RangesInDay, ParsedIsApart
<1>5. /\ breaks \in Ranges /\ IsParsed(breaks)
      /\ \A t \in Int : Covers(breaks, t) <=> Covers(day.breaks, t) /\ Covers(intervals, t)
  BY <1>1, <1>3, <1>4, ClipExact
<1>. HIDE DEF breaks
<1>6. /\ ClipDay(day, frame).intervals = intervals /\ ClipDay(day, frame).breaks = breaks
      /\ ClipDay(day, frame) \in DayHours
  BY <1>2, <1>3, <1>5 DEF DayHours
<1>7. IsDay(ClipDay(day, frame))
  BY <1>3, <1>5, <1>6 DEF IsDay
<1>8. \A t \in Int : Opens(ClipDay(day, frame), t) <=> Opens(day, t) /\ Covers(frame, t)
  <2>1. \A t \in Int : Opens(ClipDay(day, frame), t) <=> Covers(intervals, t) /\ ~Covers(breaks, t)
    BY <1>6, OpensIs
  <2>2. \A t \in Int : Opens(day, t) <=> Covers(day.intervals, t) /\ ~Covers(day.breaks, t)
    BY OpensIs
  <2>. QED
    BY <1>3, <1>5, <2>1, <2>2
<1>. QED
  BY <1>3, <1>6, <1>7, <1>8

\* A plan cut by another is a plan, its weeks are inside, and nothing inside is lost.
LEMMA PlanCut ==
    ASSUME NEW plan, IsPlan(plan), NEW frame, IsPlan(frame)
    PROVE  /\ IsPlan(ClipToFrame(plan, frame))
           /\ WeekdaysOutside(ClipToFrame(plan, frame), frame) = {}
           /\ \A weekday \in 0..Week - 1 : \A t \in Int :
                 Opens(ClipToFrame(plan, frame).weekly[weekday], t) <=>
                    /\ Opens(plan.weekly[weekday], t)
                    /\ Covers(frame.weekly[weekday].intervals, t)
<1>. DEFINE cut == ClipToFrame(plan, frame)
            hours(weekday) == Merged(frame.weekly[weekday].intervals)
            day(weekday) == ClipDay(plan.weekly[weekday], hours(weekday))
<1>1. /\ plan.weekly \in [0..Week - 1 -> DayHours]
      /\ plan.exceptions \in Seq(Dated)
      /\ \A weekday \in 0..Week - 1 : IsDay(plan.weekly[weekday])
      /\ \A i \in DOMAIN plan.exceptions : IsException(plan.exceptions[i])
      /\ \A weekday \in 0..Week - 1 : IsDay(frame.weekly[weekday])
  BY DEF IsPlan
<1>2. ASSUME NEW weekday \in 0..Week - 1
      PROVE  /\ hours(weekday) \in Ranges /\ Apart(hours(weekday))
             /\ \A t \in Int : Covers(hours(weekday), t) <=> Covers(frame.weekly[weekday].intervals, t)
  <2>1. frame.weekly[weekday].intervals \in Ranges /\ IsParsed(frame.weekly[weekday].intervals)
    BY <1>1 DEF IsDay, DayHours
  <2>. QED
    BY <2>1, MergedExact
<1>3. cut = [weekly |-> [weekday \in 0..Week - 1 |-> day(weekday)], exceptions |-> plan.exceptions]
  BY DEF ClipToFrame
<1>4. /\ cut.weekly = [weekday \in 0..Week - 1 |-> day(weekday)]
      /\ cut.exceptions = plan.exceptions
  BY <1>3
<1>. HIDE DEF hours
<1>5. ASSUME NEW weekday \in 0..Week - 1
      PROVE  /\ IsDay(day(weekday))
             /\ \A i \in DOMAIN day(weekday).intervals :
                   IsCovered(day(weekday).intervals[i], hours(weekday))
             /\ \A t \in Int : Opens(day(weekday), t) <=>
                   Opens(plan.weekly[weekday], t) /\ Covers(hours(weekday), t)
  BY <1>1, <1>2, DayCut
<1>7. WeekdaysOutside(cut, frame) =
          {weekday \in 0..Week - 1 :
              \E i \in DOMAIN cut.weekly[weekday].intervals :
                 ~IsCovered(cut.weekly[weekday].intervals[i], hours(weekday))}
  <2>. HIDE DEF cut
  <2>. QED
    BY DEF WeekdaysOutside, hours
<1>. HIDE DEF day, cut
<1>8. \A weekday \in 0..Week - 1 : cut.weekly[weekday] = day(weekday)
  BY <1>4
<1>9. IsPlan(cut)
  <2>1. \A weekday \in 0..Week - 1 : day(weekday) \in DayHours
    BY <1>5 DEF IsDay
  <2>2. cut.weekly \in [0..Week - 1 -> DayHours]
    BY <1>4, <2>1
  <2>3. cut = [weekly |-> cut.weekly, exceptions |-> cut.exceptions]
    BY <1>3, <1>4
  <2>4. cut \in [weekly : [0..Week - 1 -> DayHours], exceptions : Seq(Dated)]
    BY <1>1, <1>4, <2>2, <2>3
  <2>. QED
    BY <1>1, <1>4, <1>5, <1>8, <2>4 DEF IsPlan
<1>10. WeekdaysOutside(cut, frame) = {}
  BY <1>5, <1>7, <1>8
<1>11. \A weekday \in 0..Week - 1 : \A t \in Int :
           Opens(cut.weekly[weekday], t) <=>
              Opens(plan.weekly[weekday], t) /\ Covers(frame.weekly[weekday].intervals, t)
  BY <1>2, <1>5, <1>8
<1>. QED
  BY <1>9, <1>10, <1>11 DEF cut

\* Every plan that is stored is one, and each resource has one or none.
PlansRight ==
    /\ IsPlan(opening)
    /\ staff = None \/ IsPlan(staff)
    /\ own = [r \in Resources |-> own[r]]
    /\ \A r \in Resources : own[r] = None \/ IsPlan(own[r])

\* No employee's week reaches beyond what employees may work.
WeeksInside ==
    \A r \in Resources : Setup[r].kind = "employee" /\ own[r] # None =>
        WeekdaysOutside(own[r], EmployeeHours(opening, staff)) = {}

\* Another exception, or other weeks, leave a plan a plan.
LEMMA PlanGrows ==
    ASSUME NEW plan, IsPlan(plan)
    PROVE  /\ \A x \in Exceptions : /\ IsPlan([plan EXCEPT !.exceptions = Append(@, x)])
                                    /\ [plan EXCEPT !.exceptions = Append(@, x)].weekly = plan.weekly
           /\ \A h \in Hours : IsPlan([plan EXCEPT !.weekly = h.weekly])
<1>1. /\ plan \in [weekly : [0..Week - 1 -> DayHours], exceptions : Seq(Dated)]
      /\ \A weekday \in 0..Week - 1 : IsDay(plan.weekly[weekday])
      /\ \A i \in DOMAIN plan.exceptions : IsException(plan.exceptions[i])
  BY DEF IsPlan
<1>2. /\ plan = [weekly |-> plan.weekly, exceptions |-> plan.exceptions]
      /\ plan.weekly \in [0..Week - 1 -> DayHours] /\ plan.exceptions \in Seq(Dated)
  BY <1>1
<1>3. ASSUME NEW x \in Exceptions
      PROVE  /\ IsPlan([plan EXCEPT !.exceptions = Append(@, x)])
             /\ [plan EXCEPT !.exceptions = Append(@, x)].weekly = plan.weekly
  <2>. DEFINE xs == Append(plan.exceptions, x)
              next == [weekly |-> plan.weekly, exceptions |-> xs]
  <2>1. IsException(x) /\ x \in Dated
    BY CalendarConstants DEF IsException
  <2>2. /\ xs \in Seq(Dated)
        /\ \A i \in DOMAIN xs : xs[i] = x \/ (i \in DOMAIN plan.exceptions /\ xs[i] = plan.exceptions[i])
    BY <1>2, <2>1
  <2>3. [plan EXCEPT !.exceptions = Append(@, x)] = next
    BY <1>2, SMTT(30)
  <2>. HIDE DEF xs
  <2>4. \A i \in DOMAIN xs : IsException(xs[i])
    BY <1>1, <2>1, <2>2
  <2>5. next.weekly = plan.weekly /\ next.exceptions = xs
    OBVIOUS
  <2>6. next \in [weekly : [0..Week - 1 -> DayHours], exceptions : Seq(Dated)]
    BY <1>2, <2>2
  <2>. HIDE DEF next
  <2>. QED
    BY <1>1, <2>3, <2>4, <2>5, <2>6 DEF IsPlan
<1>4. ASSUME NEW h \in Hours
      PROVE  IsPlan([plan EXCEPT !.weekly = h.weekly])
  <2>. DEFINE next == [weekly |-> h.weekly, exceptions |-> plan.exceptions]
  <2>1. IsPlan(h)
    BY CalendarConstants
  <2>2. /\ h.weekly \in [0..Week - 1 -> DayHours]
        /\ \A weekday \in 0..Week - 1 : IsDay(h.weekly[weekday])
    BY <2>1 DEF IsPlan
  <2>3. [plan EXCEPT !.weekly = h.weekly] = next
    BY <1>2
  <2>4. next.weekly = h.weekly /\ next.exceptions = plan.exceptions
    OBVIOUS
  <2>5. next \in [weekly : [0..Week - 1 -> DayHours], exceptions : Seq(Dated)]
    BY <1>2, <2>2
  <2>. HIDE DEF next
  <2>. QED
    BY <1>1, <2>2, <2>3, <2>4, <2>5 DEF IsPlan
<1>. QED
  BY <1>3, <1>4

\* What lies outside a plan is a matter of the weeks alone.
LEMMA WeeksDecide ==
    ASSUME NEW plan, NEW frame, NEW p, NEW f,
           p.weekly = plan.weekly, f.weekly = frame.weekly
    PROVE  /\ WeekdaysOutside(p, f) = WeekdaysOutside(plan, frame)
           /\ ClipToFrame(p, f).weekly = ClipToFrame(plan, frame).weekly
<1>1. WeekdaysOutside(p, f) = WeekdaysOutside(plan, frame)
  BY DEF WeekdaysOutside
<1>2. ClipToFrame(p, f).weekly = ClipToFrame(plan, frame).weekly
  BY DEF ClipToFrame
<1>. QED
  BY <1>1, <1>2

\* So is what employees may work.
LEMMA EmployeesDecide ==
    ASSUME NEW open, NEW other, NEW staffed, other.weekly = open.weekly
    PROVE  EmployeeHours(other, staffed).weekly = EmployeeHours(open, staffed).weekly
<1>1. CASE staffed = None
  BY <1>1 DEF EmployeeHours
<1>2. CASE staffed # None
  <2>1. ClipToFrame(staffed, other).weekly = ClipToFrame(staffed, open).weekly
    BY WeeksDecide
  <2>2. /\ EmployeeHours(other, staffed) = ClipToFrame(staffed, other)
        /\ EmployeeHours(open, staffed) = ClipToFrame(staffed, open)
    BY <1>2 DEF EmployeeHours
  <2>. QED
    BY <2>1, <2>2
<1>. QED
  BY <1>1, <1>2

\* Saving hours leaves every plan a plan and every employee inside them.
LEMMA SavedWeeks ==
    ASSUME NEW open, NEW staffed, IsPlan(open), staffed = None \/ IsPlan(staffed),
           PlansRight, WeeksInside,
           SaveHours(open, staffed)
    PROVE  PlansRight' /\ WeeksInside'
<1>. DEFINE frame == EmployeeHours(open, staffed)
<1>1. opening' = open /\ staff' = staffed /\ own' = [r \in Resources |-> Retargeted(r, open, staffed)]
  BY DEF SaveHours
<1>2. IsPlan(frame)
  <2>1. CASE staffed = None
    BY <2>1 DEF EmployeeHours
  <2>2. CASE staffed # None
    BY <2>2, PlanCut DEF EmployeeHours
  <2>. QED
    BY <2>1, <2>2
<1>. HIDE DEF frame
<1>3. ASSUME NEW r \in Resources
      PROVE  /\ own'[r] = None \/ IsPlan(own'[r])
             /\ Setup[r].kind = "employee" /\ own'[r] # None => WeekdaysOutside(own'[r], frame) = {}
  <2>. DEFINE followed == own[r] = None
              week == IF followed THEN open ELSE own[r]
              cut == ClipToFrame(week, frame)
  <2>1. IsPlan(week) /\ (~followed => week = own[r])
    BY DEF PlansRight
  <2>2. IsPlan(cut) /\ WeekdaysOutside(cut, frame) = {}
    BY <1>2, <2>1, PlanCut
  <2>3. own'[r] = IF \/ Setup[r].kind # "employee"
                     \/ followed /\ staffed = None
                     \/ cut = week
                  THEN own[r] ELSE cut
    BY <1>1 DEF Retargeted, frame
  <2>. HIDE DEF week, cut
  <2>. QED
    BY <2>1, <2>2, <2>3 DEF PlansRight
<1>4. own' = [r \in Resources |-> own'[r]]
  BY <1>1
<1>5. PlansRight'
  BY <1>1, <1>3, <1>4 DEF PlansRight
<1>6. WeeksInside'
  BY <1>1, <1>3 DEF WeeksInside, frame
<1>. QED
  BY <1>5, <1>6

\* So does an exception, which changes no week.
LEMMA ExceptedWeeks ==
    ASSUME NEW x \in Exceptions, PlansRight, WeeksInside, Except(x)
    PROVE  PlansRight' /\ WeeksInside'
<1>. DEFINE grown(plan) == [plan EXCEPT !.exceptions = Append(@, x)]
<1>1. \A plan : IsPlan(plan) => IsPlan(grown(plan)) /\ grown(plan).weekly = plan.weekly
  BY PlanGrows
<1>2. staff' = staff
  BY DEF Except
<1>3. CASE opening' = grown(opening) /\ own' = own
  <2>1. IsPlan(opening') /\ opening'.weekly = opening.weekly
    BY <1>1, <1>3 DEF PlansRight
  <2>2. EmployeeHours(opening', staff).weekly = EmployeeHours(opening, staff).weekly
    BY <2>1, EmployeesDecide
  <2>3. \A r \in Resources : WeekdaysOutside(own[r], EmployeeHours(opening', staff))
                               = WeekdaysOutside(own[r], EmployeeHours(opening, staff))
    BY <2>2, WeeksDecide
  <2>4. PlansRight'
    BY <1>2, <1>3, <2>1 DEF PlansRight
  <2>5. WeeksInside'
    BY <1>2, <1>3, <2>3 DEF WeeksInside
  <2>. QED
    BY <2>4, <2>5
<1>4. CASE /\ \E r \in Resources : own[r] # None /\ own' = [own EXCEPT ![r].exceptions = Append(@, x)]
           /\ opening' = opening
  <2>1. PICK r \in Resources : own[r] # None /\ own' = [own EXCEPT ![r] = grown(own[r])]
    BY <1>4
  <2>2. IsPlan(own[r])
    BY <2>1 DEF PlansRight
  <2>3. IsPlan(grown(own[r])) /\ grown(own[r]).weekly = own[r].weekly
    BY <1>1, <2>2
  <2>. HIDE DEF grown
  <2>4. /\ own' = [q \in Resources |-> own'[q]]
        /\ \A q \in Resources : own'[q] = IF q = r THEN grown(own[r]) ELSE own[q]
    <3>1. own = [q \in Resources |-> own[q]]
      BY DEF PlansRight
    <3>. QED
      BY <2>1, <3>1
  <2>5. PlansRight'
    BY <1>2, <1>4, <2>3, <2>4 DEF PlansRight
  <2>6. WeekdaysOutside(grown(own[r]), EmployeeHours(opening, staff))
            = WeekdaysOutside(own[r], EmployeeHours(opening, staff))
    BY <2>3, WeeksDecide
  <2>7. WeeksInside'
    BY <1>2, <1>4, <2>1, <2>4, <2>6 DEF WeeksInside
  <2>. QED
    BY <2>5, <2>7
<1>. QED
  BY <1>3, <1>4 DEF Except

\* Plans stay plans, and the weeks of employees inside.
LEMMA PlansStay == Spec => [](PlansRight /\ WeeksInside)
<1>1. Init => PlansRight /\ WeeksInside
  <2>. SUFFICES ASSUME Init PROVE PlansRight /\ WeeksInside
    OBVIOUS
  <2>1. opening = FirstHours /\ staff = None /\ own = FirstOwn
    BY DEF Init
  <2>2. own = [r \in Resources |-> own[r]]
    BY <2>1, CalendarConstants
  <2>3. PlansRight
    BY <2>1, <2>2, CalendarConstants DEF PlansRight
  <2>4. EmployeeHours(opening, staff) = FirstHours
    BY <2>1 DEF EmployeeHours
  <2>5. \A r \in Resources : Setup[r].kind = "employee" /\ FirstOwn[r] # None =>
            WeekdaysOutside(FirstOwn[r], FirstHours) = {}
    BY CalendarConstants
  <2>6. WeeksInside
    BY <2>1, <2>4, <2>5 DEF WeeksInside
  <2>. QED
    BY <2>3, <2>6
<1>2. PlansRight /\ WeeksInside /\ [Next]_vars => PlansRight' /\ WeeksInside'
  <2>. SUFFICES ASSUME PlansRight, WeeksInside, [Next]_vars PROVE PlansRight' /\ WeeksInside'
    OBVIOUS
  <2>1. CASE UNCHANGED <<opening, staff, own>>
    BY <2>1 DEF PlansRight, WeeksInside
  <2>2. ASSUME NEW h \in Hours, SaveHours([opening EXCEPT !.weekly = h.weekly], staff)
        PROVE  PlansRight' /\ WeeksInside'
    <3>1. IsPlan([opening EXCEPT !.weekly = h.weekly]) /\ (staff = None \/ IsPlan(staff))
      BY PlanGrows DEF PlansRight
    <3>. QED
      BY <2>2, <3>1, SavedWeeks
  <2>3. ASSUME NEW h \in Hours, SaveHours(opening, h)
        PROVE  PlansRight' /\ WeeksInside'
    <3>1. IsPlan(opening) /\ IsPlan(h)
      BY CalendarConstants DEF PlansRight
    <3>. QED
      BY <2>3, <3>1, SavedWeeks
  <2>4. ASSUME NEW x \in Exceptions, Except(x)
        PROVE  PlansRight' /\ WeeksInside'
    BY <2>4, ExceptedWeeks
  <2>5. \/ UNCHANGED <<opening, staff, own>>
        \/ \E h \in Hours : \/ SaveHours([opening EXCEPT !.weekly = h.weekly], staff)
                            \/ SaveHours(opening, h)
        \/ \E x \in Exceptions : Except(x)
    BY DEF Next, Book, Move, Place, Cancel, Choose, vars
  <2>. QED
    BY <2>1, <2>2, <2>3, <2>4, <2>5
<1>. QED
  BY <1>1, <1>2, PTL DEF Spec

\* A time of the wall clock means the first instant that shows it, and the windows of every
\* plan in use are a normalized list and the minutes that its hours, breaks and exceptions say
\* by the clock, on every day; in the stretch that the clocks skip or repeat they are what the
\* bounds of its hours say as the clock shows them (zonedTimeToEpoch, windowsForRange).
THEOREM HoursAreLocal == Spec => []LocalHours
<1>1. PlansRight /\ zone \in Zones => WindowsAreHours
  <2>. SUFFICES ASSUME PlansRight, zone \in Zones PROVE WindowsAreHours
    OBVIOUS
  <2>1. IsZone(zone)
    <3>1. /\ {zone.before, zone.after, zone.after - zone.before} \subseteq 1 - Day..Day - 1
          /\ zone.at \in Int
      BY CalendarConstants
    <3>. QED
      BY <3>1 DEF IsZone
  <2>2. \A plan \in PlansInUse : IsPlan(plan)
    <3>1. DOMAIN own = Resources
      BY DEF PlansRight
    <3>2. \A plan \in Range(own) : \E r \in Resources : plan = own[r]
      BY <3>1 DEF Range
    <3>. QED
      BY <3>2 DEF PlansRight, PlansInUse
  <2>. QED
    BY <2>1, <2>2, WindowsRight DEF WindowsAreHours
<1>. QED
  BY <1>1, PlansStay, ZoneStays, ClocksAlwaysRight, PTL DEF LocalHours

-----------------------------------------------------------------------------
(* matchResources                                                          *)

\* Every resource some demand could have.
Wanted(demands) == UNION {{demands[d][k] : k \in DOMAIN demands[d]} : d \in DOMAIN demands}

\* Whose demand each of them fills.
Holdings(demands) == [Wanted(demands) -> {0} \cup DOMAIN demands]

AssignPlaces(demands) ==
    (DOMAIN demands) \X (Nat \ {0}) \X (SUBSET Wanted(demands)) \X Holdings(demands)

AssignStep(demands, assign, at) ==
    LET d     == at[1]
        k     == at[2]
        seen  == at[3]
        held  == at[4]
        r     == demands[d][k]
        with  == seen \cup {r}
        moved == assign[<<held[r], 1, with, held>>]
    IN  IF k > Len(demands[d]) THEN [ok |-> FALSE, seen |-> seen, held |-> held]
        ELSE IF r \in seen THEN assign[<<d, k + 1, seen, held>>]
        ELSE IF held[r] = 0
        THEN [ok |-> TRUE, seen |-> with, held |-> [held EXCEPT ![r] = d]]
        ELSE IF moved.ok
        THEN [moved EXCEPT !.held[r] = d]
        ELSE assign[<<d, k + 1, moved.seen, held>>]

Assigning(demands) ==
    CHOOSE f : f = [at \in AssignPlaces(demands) |-> AssignStep(demands, f, at)]

\* The demand with the fewest candidates, of some.
Scarcest(demands, rest) ==
    CHOOSE d \in rest : \A e \in rest :
        \/ Len(demands[d]) < Len(demands[e])
        \/ Len(demands[d]) = Len(demands[e]) /\ d <= e

FillPlaces(demands) == (SUBSET DOMAIN demands) \X Holdings(demands)

FillStep(demands, fill, at) ==
    LET rest == at[1]
        d    == Scarcest(demands, rest)
        step == Assigning(demands)[<<d, 1, {}, at[2]>>]
    IN  IF rest = {} THEN [ok |-> TRUE, held |-> at[2]]
        ELSE IF step.ok THEN fill[<<rest \ {d}, step.held>>]
        ELSE [ok |-> FALSE, held |-> at[2]]

Filling(demands) ==
    CHOOSE f : f = [at \in FillPlaces(demands) |-> FillStep(demands, f, at)]

\* matchResources is the walk over the demands, from nobody assigned.
LEMMA MatchIsFilling ==
    ASSUME NEW demands
    PROVE  LET last == Filling(demands)[<<DOMAIN demands, [r \in Wanted(demands) |-> 0]>>]
           IN  MatchResources(demands) =
                  IF last.ok THEN {r \in Wanted(demands) : last.held[r] # 0} ELSE None
BY Zenon DEF MatchResources, Filling, FillStep, FillPlaces, Scarcest, Assigning, AssignStep,
             AssignPlaces, Holdings, Wanted

\* A function takes finitely many values on a finite set.
LEMMA ImageFinite ==
    ASSUME NEW S, IsFiniteSet(S), NEW f
    PROVE  IsFiniteSet({f[x] : x \in S})
<1>. DEFINE T == {f[x] : x \in S}
            g == [x \in S |-> f[x]]
<1>1. g \in [S -> T] /\ \A y \in T : \E x \in S : g[x] = y
  OBVIOUS
<1>. HIDE DEF T, g
<1>2. g \in Surjection(S, T)
  BY <1>1 DEF Surjection
<1>. QED
  BY <1>2, FS_Surjection DEF T

\* Demands are lists of resources: finitely many, none longer than some bound.
LEMMA DemandsBounded ==
    ASSUME NEW S, NEW demands \in Seq(Seq(S))
    PROVE  /\ Len(demands) \in Nat /\ DOMAIN demands = 1..Len(demands)
           /\ \A d \in DOMAIN demands : /\ Len(demands[d]) \in Nat
                                        /\ DOMAIN demands[d] = 1..Len(demands[d])
                                        /\ \A k \in DOMAIN demands[d] : demands[d][k] \in S
           /\ IsFiniteSet(Wanted(demands)) /\ Wanted(demands) \subseteq S
           /\ \A d \in DOMAIN demands : \A k \in DOMAIN demands[d] : demands[d][k] \in Wanted(demands)
           /\ \E most \in Nat : \A d \in DOMAIN demands : Len(demands[d]) <= most
<1>. DEFINE n == Len(demands)
            of(d) == {demands[d][k] : k \in 1..Len(demands[d])}
            lengths == {Len(demands[d]) : d \in 1..n}
<1>1. n \in Nat /\ DOMAIN demands = 1..n /\ \A d \in 1..n : demands[d] \in Seq(S)
  OBVIOUS
<1>2. \A s \in Seq(S) : /\ Len(s) \in Nat /\ DOMAIN s = 1..Len(s)
                        /\ \A k \in DOMAIN s : s[k] \in S
  OBVIOUS
<1>3. \A d \in 1..n : /\ Len(demands[d]) \in Nat /\ DOMAIN demands[d] = 1..Len(demands[d])
                      /\ \A k \in DOMAIN demands[d] : demands[d][k] \in S
  BY <1>1, <1>2
<1>. HIDE DEF n
<1>4. IsFiniteSet(1..n)
  BY <1>1, FS_Interval
<1>5. \A d \in 1..n : IsFiniteSet(of(d))
  <2>. SUFFICES ASSUME NEW d \in 1..n PROVE IsFiniteSet(of(d))
    OBVIOUS
  <2>1. IsFiniteSet(1..Len(demands[d]))
    BY <1>3, FS_Interval
  <2>2. IsFiniteSet({demands[d][k] : k \in 1..Len(demands[d])})
    <3>. DEFINE row == demands[d]
    <3>1. IsFiniteSet({row[k] : k \in 1..Len(demands[d])})
      <4>. HIDE DEF row
      <4>. QED
        BY <2>1, ImageFinite
    <3>. QED
      BY <3>1
  <2>. QED
    BY <2>2
<1>6. Wanted(demands) = UNION {of(d) : d \in 1..n}
  <2>1. \A d \in 1..n : {demands[d][k] : k \in DOMAIN demands[d]} = of(d)
    BY <1>3
  <2>2. Wanted(demands) = UNION {{demands[d][k] : k \in DOMAIN demands[d]} : d \in 1..n}
    BY <1>1 DEF Wanted
  <2>. HIDE DEF of
  <2>. QED
    BY <2>1, <2>2
<1>7. IsFiniteSet(Wanted(demands))
  <2>. HIDE DEF of
  <2>1. IsFiniteSet({of(d) : d \in 1..n})
    <3>. DEFINE g == [d \in 1..n |-> of(d)]
    <3>1. {g[d] : d \in 1..n} = {of(d) : d \in 1..n}
      OBVIOUS
    <3>. HIDE DEF g
    <3>. QED
      BY <1>4, <3>1, ImageFinite
  <2>2. \A T \in {of(d) : d \in 1..n} : IsFiniteSet(T)
    BY <1>5
  <2>. QED
    BY <1>6, <2>1, <2>2, FS_UNION
<1>8. Wanted(demands) \subseteq S
  BY <1>3, <1>6
<1>9. \A d \in 1..n : \A k \in DOMAIN demands[d] : demands[d][k] \in Wanted(demands)
  <2>1. \A d \in 1..n : \A k \in DOMAIN demands[d] : demands[d][k] \in of(d)
    BY <1>3
  <2>. HIDE DEF of
  <2>. QED
    BY <1>6, <2>1
<1>10. \E most \in Nat : \A d \in 1..n : Len(demands[d]) <= most
  <2>1. CASE 1..n = {}
    BY <2>1
  <2>2. CASE 1..n # {}
    <3>1. lengths \in SUBSET Nat /\ lengths # {}
      BY <1>3, <2>2
    <3>2. IsFiniteSet(lengths)
      <4>. DEFINE g == [d \in 1..n |-> Len(demands[d])]
      <4>1. {g[d] : d \in 1..n} = lengths
        OBVIOUS
      <4>. HIDE DEF g, lengths
      <4>. QED
        BY <1>4, <4>1, ImageFinite
    <3>3. Max(lengths) \in lengths /\ \A k \in lengths : Max(lengths) >= k
      BY <3>1, <3>2, Extremes
    <3>4. \A d \in 1..n : Len(demands[d]) \in lengths
      OBVIOUS
    <3>. HIDE DEF lengths
    <3>5. Max(lengths) \in Nat /\ \A k \in lengths : k \in Nat
      BY <3>1, <3>3
    <3>6. \A d \in 1..n : Len(demands[d]) <= Max(lengths)
      BY <3>3, <3>4, <3>5
    <3>. QED
      BY <3>5, <3>6
  <2>. QED
    BY <2>1, <2>2
<1>. QED
  BY <1>1, <1>3, <1>7, <1>8, <1>9, <1>10 DEF n

\* A pair is less when its first part is, if the second parts are bounded.
LEMMA FirstCounts ==
    ASSUME NEW b \in Nat, NEW c \in Nat, c < b, NEW K \in Nat, NEW i \in Nat, NEW j \in Nat, j < K
    PROVE  c * K + j < b * K + i
<1>1. PICK e \in Nat : b = (c + 1) + e
  <2>1. b - (c + 1) \in Nat /\ b = (c + 1) + (b - (c + 1))
    OBVIOUS
  <2>. QED
    BY <2>1
<1>2. ((c + 1) + e) * K = (c * K + K) + e * K
  OBVIOUS
<1>3. e * K \in Nat /\ c * K \in Nat
  OBVIOUS
<1>4. b * K = (c * K + K) + e * K
  BY <1>1, <1>2
<1>5. \A x, y \in Nat : x + j < ((x + K) + y) + i
  OBVIOUS
<1>. QED
  BY <1>3, <1>4, <1>5

\* What an attempt comes to: it only ever sees more resources.
Attempts(demands, seen) ==
    {v \in [ok : BOOLEAN, seen : SUBSET Wanted(demands), held : Holdings(demands)] : seen \subseteq v.seen}

\* The place a step looks at next, and the one it looks at when the holder cannot move.
HolderPlace(demands, at) ==
    LET r == demands[at[1]][at[2]]
    IN  <<at[4][r], 1, at[3] \cup {r}, at[4]>>
NextPlace(at, seen) == <<at[1], at[2] + 1, seen, at[4]>>

\* The places measure: fewer resources unseen, then fewer candidates left.
AssignMeasure(demands, most, at) ==
    Cardinality(Wanted(demands) \ at[3]) * (most + 2)
      + (IF at[2] <= Len(demands[at[1]]) THEN Len(demands[at[1]]) + 1 - at[2] ELSE 0)

\* Each place an attempt goes on to is one, and measures less.
LEMMA AssignDescends ==
    ASSUME NEW S, NEW demands \in Seq(Seq(S)), NEW most \in Nat,
           \A d \in DOMAIN demands : Len(demands[d]) <= most,
           NEW at \in AssignPlaces(demands)
    PROVE  LET D == AssignPlaces(demands)
               m(p) == AssignMeasure(demands, most, p)
               r == demands[at[1]][at[2]]
           IN  /\ m(at) \in Nat
               /\ at[1] \in DOMAIN demands /\ at[2] \in Nat \ {0}
               /\ at[3] \in SUBSET Wanted(demands) /\ at[4] \in Holdings(demands)
               /\ at[2] <= Len(demands[at[1]]) =>
                    /\ r \in Wanted(demands) /\ at[4][r] \in {0} \cup DOMAIN demands
                    /\ NextPlace(at, at[3]) \in D /\ m(NextPlace(at, at[3])) < m(at)
                    /\ r \notin at[3] =>
                         /\ at[4][r] # 0 =>
                              HolderPlace(demands, at) \in D /\ m(HolderPlace(demands, at)) < m(at)
                         /\ \A seen \in SUBSET Wanted(demands) : at[3] \cup {r} \subseteq seen =>
                              NextPlace(at, seen) \in D /\ m(NextPlace(at, seen)) < m(at)
<1>. DEFINE A == Wanted(demands)
            D == AssignPlaces(demands)
            tail(d, k) == IF k <= Len(demands[d]) THEN Len(demands[d]) + 1 - k ELSE 0
            left(seen) == Cardinality(A \ seen)
            m(p) == AssignMeasure(demands, most, p)
            d == at[1]
            k == at[2]
            seen == at[3]
            held == at[4]
            r == demands[d][k]
            K == most + 2
<1>1. /\ d \in DOMAIN demands /\ k \in Nat \ {0} /\ seen \in SUBSET A /\ held \in Holdings(demands)
  BY DEF AssignPlaces
<1>2. \A e \in DOMAIN demands : \A j \in Nat \ {0} : \A s \in SUBSET A : \A h \in Holdings(demands) :
         /\ <<e, j, s, h>> \in D
         /\ <<e, j, s, h>>[1] = e /\ <<e, j, s, h>>[2] = j /\ <<e, j, s, h>>[3] = s
  BY DEF AssignPlaces
<1>3. /\ \A e \in DOMAIN demands : /\ Len(demands[e]) \in Nat
                                   /\ DOMAIN demands[e] = 1..Len(demands[e])
      /\ IsFiniteSet(A)
      /\ \A e \in DOMAIN demands : \A j \in DOMAIN demands[e] : demands[e][j] \in A
  BY DemandsBounded
<1>4. \A e \in DOMAIN demands : \A j \in Nat \ {0} : tail(e, j) \in Nat /\ tail(e, j) < K
  <2>. SUFFICES ASSUME NEW e \in DOMAIN demands, NEW j \in Nat \ {0}
                PROVE  tail(e, j) \in Nat /\ tail(e, j) < K
    OBVIOUS
  <2>1. Len(demands[e]) \in Nat /\ Len(demands[e]) <= most
    BY <1>3
  <2>. QED
    BY <2>1
<1>5. \A s \in SUBSET A : left(s) \in Nat
  <2>. SUFFICES ASSUME NEW s \in SUBSET A PROVE left(s) \in Nat
    OBVIOUS
  <2>1. IsFiniteSet(A \ s)
    BY <1>3, FS_Difference
  <2>. QED
    BY <2>1, FS_CardinalityType
<1>6. \A e \in DOMAIN demands : \A j \in Nat \ {0} : \A s \in SUBSET A : \A h \in Holdings(demands) :
         m(<<e, j, s, h>>) = left(s) * K + tail(e, j)
  <2>. HIDE DEF A
  <2>. QED
    BY <1>2 DEF AssignMeasure, A
<1>7. m(at) = left(seen) * K + tail(d, k)
  BY DEF AssignMeasure
<1>8. K \in Nat
  OBVIOUS
<1>. HIDE DEF A, D, m, left, d, k, seen, held, K
<1>9. m(at) \in Nat
  <2>1. left(seen) \in Nat /\ tail(d, k) \in Nat
    BY <1>1, <1>4, <1>5
  <2>2. left(seen) * K \in Nat
    BY <1>8, <2>1
  <2>. HIDE DEF tail
  <2>. QED
    BY <1>7, <2>1, <2>2
<1>10. ASSUME k <= Len(demands[d])
       PROVE  r \in A /\ held[r] \in {0} \cup DOMAIN demands
  <2>1. k \in DOMAIN demands[d]
    BY <1>1, <1>3, <1>10
  <2>2. r \in A
    BY <1>1, <1>3, <2>1
  <2>. HIDE DEF r
  <2>. QED
    BY <1>1, <2>2 DEF Holdings, A
<1>11. k + 1 \in Nat \ {0} /\ 1 \in Nat \ {0}
  BY <1>1
<1>12. NextPlace(at, seen) \in D /\ NextPlace(at, seen) = <<d, k + 1, seen, held>>
  BY <1>1, <1>2, <1>11 DEF NextPlace, d, k, seen, held
<1>13. ASSUME k <= Len(demands[d])
       PROVE  m(NextPlace(at, seen)) < m(at)
  <2>1. m(NextPlace(at, seen)) = left(seen) * K + tail(d, k + 1)
    <3>. HIDE DEF tail
    <3>1. m(<<d, k + 1, seen, held>>) = left(seen) * K + tail(d, k + 1)
      BY <1>1, <1>6, <1>11
    <3>. QED
      BY <1>12, <3>1
  <2>2. tail(d, k + 1) < tail(d, k)
    BY <1>1, <1>3, <1>13
  <2>3. left(seen) * K \in Nat /\ tail(d, k + 1) \in Nat /\ tail(d, k) \in Nat
    <3>1. left(seen) \in Nat
      BY <1>1, <1>5
    <3>. HIDE DEF tail
    <3>. QED
      BY <1>1, <1>4, <1>8, <1>11, <3>1
  <2>. HIDE DEF tail
  <2>. QED
    BY <1>7, <2>1, <2>2, <2>3
<1>14. ASSUME k <= Len(demands[d]), r \notin seen,
              NEW s \in SUBSET A, seen \cup {r} \subseteq s
       PROVE  left(s) < left(seen)
  <2>1. r \in A
    BY <1>10, <1>14
  <2>2. IsFiniteSet(A \ seen)
    BY <1>3, FS_Difference
  <2>. HIDE DEF r
  <2>3. /\ IsFiniteSet((A \ seen) \ {r})
        /\ Cardinality((A \ seen) \ {r}) = Cardinality(A \ seen) - 1
    BY <1>14, <2>1, <2>2, FS_RemoveElement
  <2>4. A \ s \in SUBSET ((A \ seen) \ {r})
    BY <1>14
  <2>5. Cardinality(A \ s) <= Cardinality((A \ seen) \ {r})
    BY <2>3, <2>4, FS_Subset
  <2>6. Cardinality(A \ s) \in Nat /\ Cardinality(A \ seen) \in Nat
    BY <1>1, <1>5, <1>14 DEF left
  <2>. QED
    BY <2>3, <2>5, <2>6 DEF left
<1>15. ASSUME k <= Len(demands[d]), r \notin seen,
              NEW s \in SUBSET A, seen \cup {r} \subseteq s,
              NEW e \in DOMAIN demands, NEW j \in Nat \ {0}
       PROVE  <<e, j, s, held>> \in D /\ m(<<e, j, s, held>>) < m(at)
  <2>1. left(s) < left(seen)
    BY <1>14, <1>15
  <2>2. /\ left(s) \in Nat /\ left(seen) \in Nat
        /\ tail(e, j) \in Nat /\ tail(e, j) < K /\ tail(d, k) \in Nat
    BY <1>1, <1>4, <1>5
  <2>3. m(<<e, j, s, held>>) = left(s) * K + tail(e, j)
    BY <1>1, <1>6
  <2>. HIDE DEF tail
  <2>4. left(s) * K + tail(e, j) < left(seen) * K + tail(d, k)
    BY <1>8, <2>1, <2>2, FirstCounts
  <2>5. <<e, j, s, held>> \in D
    BY <1>1, <1>2
  <2>. QED
    BY <1>7, <2>3, <2>4, <2>5
<1>16. ASSUME k <= Len(demands[d]), r \notin seen, held[r] # 0
       PROVE  HolderPlace(demands, at) \in D /\ m(HolderPlace(demands, at)) < m(at)
  <2>1. r \in A /\ held[r] \in DOMAIN demands
    BY <1>10, <1>16
  <2>2. HolderPlace(demands, at) = <<held[r], 1, seen \cup {r}, held>>
    BY DEF HolderPlace, r, d, k, seen, held
  <2>3. seen \cup {r} \in SUBSET A
    BY <1>1, <2>1
  <2>. HIDE DEF r
  <2>. QED
    BY <1>11, <1>15, <1>16, <2>1, <2>2, <2>3
<1>17. ASSUME k <= Len(demands[d]), r \notin seen,
              NEW s \in SUBSET A, seen \cup {r} \subseteq s
       PROVE  NextPlace(at, s) \in D /\ m(NextPlace(at, s)) < m(at)
  <2>1. NextPlace(at, s) = <<d, k + 1, s, held>>
    BY DEF NextPlace, d, k, held
  <2>. HIDE DEF r
  <2>. QED
    BY <1>1, <1>11, <1>15, <1>17, <2>1
<1>. QED
  BY <1>1, <1>9, <1>10, <1>12, <1>13, <1>16, <1>17 DEF A, D, m, d, k, seen, held, r

\* One step of an attempt, by what it finds.
AssignFinds(demands, f, at) ==
    LET d == at[1]
        k == at[2]
        seen == at[3]
        held == at[4]
        r == demands[d][k]
        moved == f[HolderPlace(demands, at)]
        v == AssignStep(demands, f, at)
    IN  /\ k > Len(demands[d]) => v = [ok |-> FALSE, seen |-> seen, held |-> held]
        /\ ~(k > Len(demands[d])) =>
             /\ r \in seen => v = f[NextPlace(at, seen)]
             /\ r \notin seen =>
                  /\ held[r] = 0 =>
                       v = [ok |-> TRUE, seen |-> seen \cup {r}, held |-> [held EXCEPT ![r] = d]]
                  /\ held[r] # 0 =>
                       /\ moved.ok => v = [moved EXCEPT !.held[r] = d]
                       /\ ~moved.ok => v = f[NextPlace(at, moved.seen)]

\* What one call of the search does, by the case it is in.
LEMMA AssignStepFinds ==
    ASSUME NEW demands, NEW f, NEW at
    PROVE  AssignFinds(demands, f, at)
<1>. DEFINE d == at[1]
            k == at[2]
            seen == at[3]
            held == at[4]
            r == demands[d][k]
            moved == f[HolderPlace(demands, at)]
            v == AssignStep(demands, f, at)
<1>1. v = IF k > Len(demands[d]) THEN [ok |-> FALSE, seen |-> seen, held |-> held]
          ELSE IF r \in seen THEN f[NextPlace(at, seen)]
          ELSE IF held[r] = 0
          THEN [ok |-> TRUE, seen |-> seen \cup {r}, held |-> [held EXCEPT ![r] = d]]
          ELSE IF moved.ok THEN [moved EXCEPT !.held[r] = d]
          ELSE f[NextPlace(at, moved.seen)]
  BY Zenon DEF AssignStep, HolderPlace, NextPlace
<1>2. AssignFinds(demands, f, at) <=>
        /\ k > Len(demands[d]) => v = [ok |-> FALSE, seen |-> seen, held |-> held]
        /\ ~(k > Len(demands[d])) =>
             /\ r \in seen => v = f[NextPlace(at, seen)]
             /\ r \notin seen =>
                  /\ held[r] = 0 =>
                       v = [ok |-> TRUE, seen |-> seen \cup {r}, held |-> [held EXCEPT ![r] = d]]
                  /\ held[r] # 0 =>
                       /\ moved.ok => v = [moved EXCEPT !.held[r] = d]
                       /\ ~moved.ok => v = f[NextPlace(at, moved.seen)]
  BY DEF AssignFinds
<1>. DEFINE long == k > Len(demands[d])
            free == held[r] = 0
            none == [ok |-> FALSE, seen |-> seen, held |-> held]
            taken == [ok |-> TRUE, seen |-> seen \cup {r}, held |-> [held EXCEPT ![r] = d]]
            given == [moved EXCEPT !.held[r] = d]
            next == f[NextPlace(at, seen)]
            past == f[NextPlace(at, moved.seen)]
            can == moved.ok
            met == r \in seen
<1>3. v = IF long THEN none ELSE IF met THEN next ELSE IF free THEN taken
          ELSE IF can THEN given ELSE past
  BY <1>1, Zenon
<1>. HIDE DEF v, long, free, none, taken, given, next, past, can, met
<1>4. /\ long => v = none
      /\ ~long => /\ met => v = next
                  /\ ~met => /\ free => v = taken
                             /\ ~free => (can => v = given) /\ (~can => v = past)
  BY <1>3
<1>. USE DEF long, free, none, taken, given, next, past, can, met
<1>. QED
  BY <1>2, <1>4, Zenon

\* A resource given away leaves an attempt an attempt.
LEMMA GivenAway ==
    ASSUME NEW demands, NEW seen, NEW v \in Attempts(demands, seen),
           NEW r \in Wanted(demands), NEW d \in DOMAIN demands
    PROVE  /\ [v EXCEPT !.held[r] = d] \in Attempts(demands, seen)
           /\ [v EXCEPT !.held[r] = d].ok = v.ok
           /\ [v EXCEPT !.held[r] = d].seen = v.seen
           /\ [v EXCEPT !.held[r] = d].held = [v.held EXCEPT ![r] = d]
<1>1. /\ v \in [ok : BOOLEAN, seen : SUBSET Wanted(demands), held : Holdings(demands)]
      /\ seen \subseteq v.seen
  BY DEF Attempts
<1>2. v.ok \in BOOLEAN /\ v.seen \in SUBSET Wanted(demands) /\ v.held \in Holdings(demands)
  BY <1>1
<1>3. [v.held EXCEPT ![r] = d] \in Holdings(demands)
  BY <1>2 DEF Holdings
<1>4. [v EXCEPT !.held[r] = d] = [ok |-> v.ok, seen |-> v.seen, held |-> [v.held EXCEPT ![r] = d]]
  BY <1>1
<1>. QED
  BY <1>1, <1>2, <1>3, <1>4 DEF Attempts

\* The attempts are well defined.
LEMMA AssignSolved ==
    ASSUME NEW S, NEW demands \in Seq(Seq(S))
    PROVE  LET f == Assigning(demands)
           IN  \A at \in AssignPlaces(demands) :
                  /\ f[at] \in Attempts(demands, at[3])
                  /\ f[at] = AssignStep(demands, f, at)
<1>. DEFINE D == AssignPlaces(demands)
            W == [at \in D |-> Attempts(demands, at[3])]
            Solves(f) == f = [at \in D |-> AssignStep(demands, f, at)]
<1>1. PICK most \in Nat : \A d \in DOMAIN demands : Len(demands[d]) <= most
  BY DemandsBounded
<1>. DEFINE m == [at \in D |-> AssignMeasure(demands, most, at)]
            G == [p \in D \X Into(D, W) |-> AssignStep(demands, p[2], p[1])]
<1>2. /\ \A d \in DOMAIN demands : Len(demands[d]) \in Nat
  BY DemandsBounded
<1>3. \A at \in D : W[at] = Attempts(demands, at[3]) /\ m[at] = AssignMeasure(demands, most, at)
  OBVIOUS
<1>4. \A at \in D : \A f \in Into(D, W) : G[<<at, f>>] = AssignStep(demands, f, at)
  <2>1. \A at \in D : \A f \in Into(D, W) : <<at, f>> \in D \X Into(D, W)
    OBVIOUS
  <2>. HIDE DEF D, W
  <2>. QED
    BY <2>1
<1>5. ASSUME NEW at \in D
      PROVE  LET r == demands[at[1]][at[2]]
             IN  /\ m[at] \in Nat
                 /\ at[1] \in DOMAIN demands /\ at[2] \in Nat \ {0}
                 /\ at[3] \in SUBSET Wanted(demands) /\ at[4] \in Holdings(demands)
                 /\ at[2] <= Len(demands[at[1]]) =>
                    /\ r \in Wanted(demands) /\ at[4][r] \in {0} \cup DOMAIN demands
                    /\ NextPlace(at, at[3]) \in D /\ m[NextPlace(at, at[3])] < m[at]
                    /\ r \notin at[3] =>
                         /\ at[4][r] # 0 =>
                              HolderPlace(demands, at) \in D /\ m[HolderPlace(demands, at)] < m[at]
                         /\ \A seen \in SUBSET Wanted(demands) : at[3] \cup {r} \subseteq seen =>
                              NextPlace(at, seen) \in D /\ m[NextPlace(at, seen)] < m[at]
  <2>. DEFINE r == demands[at[1]][at[2]]
              mm(p) == AssignMeasure(demands, most, p)
  <2>1. /\ mm(at) \in Nat
        /\ at[1] \in DOMAIN demands /\ at[2] \in Nat \ {0}
        /\ at[3] \in SUBSET Wanted(demands) /\ at[4] \in Holdings(demands)
        /\ at[2] <= Len(demands[at[1]]) =>
             /\ r \in Wanted(demands) /\ at[4][r] \in {0} \cup DOMAIN demands
             /\ NextPlace(at, at[3]) \in D /\ mm(NextPlace(at, at[3])) < mm(at)
             /\ r \notin at[3] =>
                  /\ at[4][r] # 0 =>
                       HolderPlace(demands, at) \in D /\ mm(HolderPlace(demands, at)) < mm(at)
                  /\ \A seen \in SUBSET Wanted(demands) : at[3] \cup {r} \subseteq seen =>
                       NextPlace(at, seen) \in D /\ mm(NextPlace(at, seen)) < mm(at)
    BY <1>1, AssignDescends
  <2>2. \A p \in D : m[p] = mm(p)
    OBVIOUS
  <2>. HIDE DEF D, m, mm, r
  <2>3. /\ m[at] \in Nat
        /\ at[1] \in DOMAIN demands /\ at[2] \in Nat \ {0}
        /\ at[3] \in SUBSET Wanted(demands) /\ at[4] \in Holdings(demands)
        /\ at[2] <= Len(demands[at[1]]) =>
             /\ r \in Wanted(demands) /\ at[4][r] \in {0} \cup DOMAIN demands
             /\ NextPlace(at, at[3]) \in D /\ m[NextPlace(at, at[3])] < m[at]
             /\ r \notin at[3] =>
                  /\ at[4][r] # 0 =>
                       HolderPlace(demands, at) \in D /\ m[HolderPlace(demands, at)] < m[at]
                  /\ \A seen \in SUBSET Wanted(demands) : at[3] \cup {r} \subseteq seen =>
                       NextPlace(at, seen) \in D /\ m[NextPlace(at, seen)] < m[at]
    BY <2>1, <2>2
  <2>. QED
    BY <2>3 DEF r
<1>6. \A seen : \A v \in Attempts(demands, seen) :
         /\ seen \subseteq v.seen /\ v.seen \in SUBSET Wanted(demands)
         /\ v.ok \in BOOLEAN /\ v.held \in Holdings(demands)
  BY DEF Attempts
<1>7. \A at \in D : \A s : HolderPlace(demands, at)[3] = at[3] \cup {demands[at[1]][at[2]]}
                          /\ NextPlace(at, s)[3] = s
  BY DEF HolderPlace, NextPlace
<1>8. \A at \in D : W[at] # {}
  <2>. SUFFICES ASSUME NEW at \in D PROVE Attempts(demands, at[3]) # {}
    BY <1>3
  <2>. DEFINE v == [ok |-> FALSE, seen |-> at[3], held |-> at[4]]
  <2>1. at[3] \in SUBSET Wanted(demands) /\ at[4] \in Holdings(demands)
    BY <1>5
  <2>2. v \in Attempts(demands, at[3])
    BY <2>1 DEF Attempts
  <2>. QED
    BY <2>2
<1>. HIDE DEF D, W, m, G
<1>9. ASSUME NEW at \in D, NEW f,
             \A y \in D : m[y] < m[at] => f[y] \in Attempts(demands, y[3])
      PROVE  AssignStep(demands, f, at) \in Attempts(demands, at[3])
  <2>. DEFINE d == at[1]
              k == at[2]
              seen == at[3]
              held == at[4]
              r == demands[d][k]
              moved == f[HolderPlace(demands, at)]
              v == AssignStep(demands, f, at)
  <2>1. /\ d \in DOMAIN demands /\ seen \in SUBSET Wanted(demands) /\ held \in Holdings(demands)
        /\ k > Len(demands[d]) \/ k <= Len(demands[d])
    BY <1>2, <1>5
  <2>2. AssignFinds(demands, f, at)
    BY AssignStepFinds
  <2>3. CASE k > Len(demands[d])
    <3>1. v = [ok |-> FALSE, seen |-> seen, held |-> held]
      BY <2>2, <2>3 DEF AssignFinds
    <3>. QED
      BY <2>1, <3>1 DEF Attempts
  <2>4. ASSUME ~(k > Len(demands[d])), r \in seen
        PROVE  v \in Attempts(demands, seen)
    <3>1. v = f[NextPlace(at, seen)]
      BY <2>2, <2>4 DEF AssignFinds
    <3>2. /\ NextPlace(at, seen) \in D /\ NextPlace(at, seen)[3] = seen
          /\ m[NextPlace(at, seen)] < m[at]
      BY <1>5, <1>7, <2>1, <2>4
    <3>. QED
      BY <1>9, <3>1, <3>2
  <2>5. ASSUME ~(k > Len(demands[d])), r \notin seen, held[r] = 0
        PROVE  v \in Attempts(demands, seen)
    <3>1. v = [ok |-> TRUE, seen |-> seen \cup {r}, held |-> [held EXCEPT ![r] = d]]
      BY <2>2, <2>5 DEF AssignFinds
    <3>2. r \in Wanted(demands)
      BY <1>5, <2>1, <2>5
    <3>. HIDE DEF r
    <3>3. [held EXCEPT ![r] = d] \in Holdings(demands) /\ seen \cup {r} \in SUBSET Wanted(demands)
      BY <2>1, <3>2 DEF Holdings
    <3>. QED
      BY <3>1, <3>3 DEF Attempts
  <2>6. ASSUME ~(k > Len(demands[d])), r \notin seen, held[r] # 0
        PROVE  v \in Attempts(demands, seen)
    <3>1. /\ r \in Wanted(demands)
          /\ HolderPlace(demands, at) \in D /\ m[HolderPlace(demands, at)] < m[at]
          /\ \A s \in SUBSET Wanted(demands) : seen \cup {r} \subseteq s =>
                NextPlace(at, s) \in D /\ m[NextPlace(at, s)] < m[at]
      BY <1>5, <2>1, <2>6
    <3>2. /\ moved \in Attempts(demands, seen \cup {r}) /\ moved.ok \in BOOLEAN
          /\ moved.seen \in SUBSET Wanted(demands) /\ seen \cup {r} \subseteq moved.seen
      <4>1. moved \in Attempts(demands, seen \cup {r})
        BY <1>7, <1>9, <3>1
      <4>. HIDE DEF moved, r, seen
      <4>. QED
        BY <1>6, <4>1
    <3>3. \A s, t : s \subseteq t => Attempts(demands, t) \subseteq Attempts(demands, s)
      BY DEF Attempts
    <3>4. seen \subseteq seen \cup {r} /\ seen \subseteq moved.seen
      BY <3>2
    <3>5. CASE moved.ok
      <4>1. v = [moved EXCEPT !.held[r] = d]
        BY <2>2, <2>6, <3>5 DEF AssignFinds
      <4>2. [moved EXCEPT !.held[r] = d] \in Attempts(demands, seen \cup {r})
        BY <2>1, <3>1, <3>2, GivenAway
      <4>. HIDE DEF v, moved, r, seen
      <4>. QED
        BY <3>3, <3>4, <4>1, <4>2
    <3>6. CASE ~moved.ok
      <4>1. v = f[NextPlace(at, moved.seen)]
        BY <2>2, <2>6, <3>6 DEF AssignFinds
      <4>2. /\ NextPlace(at, moved.seen) \in D /\ NextPlace(at, moved.seen)[3] = moved.seen
            /\ m[NextPlace(at, moved.seen)] < m[at]
        BY <1>7, <3>1, <3>2
      <4>3. v \in Attempts(demands, moved.seen)
        BY <1>9, <4>1, <4>2
      <4>. HIDE DEF v, moved, r, seen
      <4>. QED
        BY <3>3, <3>4, <4>3
    <3>. QED
      BY <3>5, <3>6
  <2>. QED
    BY <2>3, <2>4, <2>5, <2>6
<1>10. ASSUME NEW at \in D, NEW f \in Into(D, W), NEW g \in Into(D, W),
              \A y \in D : m[y] < m[at] => f[y] = g[y]
       PROVE  AssignStep(demands, f, at) = AssignStep(demands, g, at)
  <2>. DEFINE d == at[1]
              k == at[2]
              seen == at[3]
              held == at[4]
              r == demands[d][k]
              moved == f[HolderPlace(demands, at)]
              u == AssignStep(demands, f, at)
              v == AssignStep(demands, g, at)
  <2>1. /\ d \in DOMAIN demands
        /\ k > Len(demands[d]) \/ k <= Len(demands[d])
    BY <1>2, <1>5
  <2>2. AssignFinds(demands, f, at) /\ AssignFinds(demands, g, at)
    BY AssignStepFinds
  <2>3. CASE k > Len(demands[d])
    BY <2>2, <2>3 DEF AssignFinds
  <2>4. ASSUME ~(k > Len(demands[d])), r \in seen
        PROVE  u = v
    <3>1. u = f[NextPlace(at, seen)] /\ v = g[NextPlace(at, seen)]
      BY <2>2, <2>4 DEF AssignFinds
    <3>2. NextPlace(at, seen) \in D /\ m[NextPlace(at, seen)] < m[at]
      BY <1>5, <2>1, <2>4
    <3>. QED
      BY <1>10, <3>1, <3>2
  <2>5. ASSUME ~(k > Len(demands[d])), r \notin seen, held[r] = 0
        PROVE  u = v
    BY <2>2, <2>5 DEF AssignFinds
  <2>6. ASSUME ~(k > Len(demands[d])), r \notin seen, held[r] # 0
        PROVE  u = v
    <3>1. /\ HolderPlace(demands, at) \in D /\ m[HolderPlace(demands, at)] < m[at]
          /\ \A s \in SUBSET Wanted(demands) : seen \cup {r} \subseteq s =>
                NextPlace(at, s) \in D /\ m[NextPlace(at, s)] < m[at]
      BY <1>5, <2>1, <2>6
    <3>2. /\ moved.ok \in BOOLEAN
          /\ moved.seen \in SUBSET Wanted(demands) /\ seen \cup {r} \subseteq moved.seen
      <4>1. moved \in Attempts(demands, seen \cup {r})
        <5>. DEFINE h == HolderPlace(demands, at)
        <5>1. h \in D /\ h[3] = seen \cup {r}
          BY <1>7, <3>1
        <5>. HIDE DEF h
        <5>2. f[h] \in Attempts(demands, h[3])
          BY <1>3, <5>1 DEF Into
        <5>. QED
          BY <5>1, <5>2 DEF h
      <4>. HIDE DEF moved, r, seen
      <4>. QED
        BY <1>6, <4>1
    <3>3. moved = g[HolderPlace(demands, at)]
      BY <1>10, <3>1
    <3>5. CASE moved.ok
      <4>1. /\ u = [moved EXCEPT !.held[r] = d]
            /\ v = [g[HolderPlace(demands, at)] EXCEPT !.held[r] = d]
        BY <2>2, <2>6, <3>3, <3>5 DEF AssignFinds
      <4>. HIDE DEF u, v, moved, r, d
      <4>. QED
        BY <3>3, <4>1
    <3>6. CASE ~moved.ok
      <4>1. u = f[NextPlace(at, moved.seen)] /\ v = g[NextPlace(at, moved.seen)]
        BY <2>2, <2>6, <3>3, <3>6 DEF AssignFinds
      <4>2. NextPlace(at, moved.seen) \in D /\ m[NextPlace(at, moved.seen)] < m[at]
        BY <3>1, <3>2
      <4>. QED
        BY <1>10, <4>1, <4>2
    <3>. QED
      BY <3>5, <3>6
  <2>. QED
    BY <2>3, <2>4, <2>5, <2>6
<1>11. LooksBelow(D, W, m, G)
  <2>1. m \in [D -> Nat]
    <3>1. m = [at \in D |-> m[at]]
      BY DEF m
    <3>. QED
      BY <1>5, <3>1
  <2>2. \A at \in D, f \in Into(D, W) : G[<<at, f>>] \in W[at]
    <3>1. \A f \in Into(D, W) : \A y \in D : f[y] \in Attempts(demands, y[3])
      BY <1>3 DEF Into
    <3>. QED
      BY <1>3, <1>4, <1>9, <3>1
  <2>3. \A at \in D, f \in Into(D, W), g \in Into(D, W) :
            (\A y \in D : m[y] < m[at] => f[y] = g[y]) => G[<<at, f>>] = G[<<at, g>>]
    BY <1>4, <1>10
  <2>. QED
    BY <1>8, <2>1, <2>2, <2>3 DEF LooksBelow
<1>12. PICK f \in Into(D, W) : \A at \in D : f[at] = G[<<at, f>>]
  BY <1>11, RecursionInto
<1>13. Solves(f)
  <2>1. f = [at \in D |-> f[at]]
    BY <1>12 DEF Into
  <2>. QED
    BY <1>4, <1>12, <2>1
<1>. DEFINE g == Assigning(demands)
<1>14. g = CHOOSE h : Solves(h)
  BY DEF Assigning, D
<1>15. Solves(g)
  <2>. HIDE DEF Solves, g
  <2>. QED
    BY <1>13, <1>14
<1>16. \A at \in D : g[at] = AssignStep(demands, g, at)
  <2>. HIDE DEF g
  <2>1. g = [at \in D |-> AssignStep(demands, g, at)]
    BY <1>15
  <2>. QED
    BY <2>1, Zenon
<1>. HIDE DEF g
<1>17. \A at \in D : g[at] \in Attempts(demands, at[3])
  <2>. DEFINE P == {at \in D : g[at] \in Attempts(demands, at[3])}
  <2>1. ASSUME NEW at \in D, \A y \in D : m[y] < m[at] => y \in P
        PROVE  at \in P
    <3>1. \A y \in D : m[y] < m[at] => g[y] \in Attempts(demands, y[3])
      BY <2>1
    <3>2. AssignStep(demands, g, at) \in Attempts(demands, at[3])
      BY <1>9, <3>1
    <3>. QED
      BY <1>16, <3>2
  <2>2. m \in [D -> Nat]
    BY <1>11 DEF LooksBelow
  <2>3. \A at \in D : at \in P
    <3>. HIDE DEF P
    <3>. QED
      BY <2>1, <2>2, ByMeasure
  <2>. QED
    BY <2>3
<1>. QED
  BY <1>16, <1>17 DEF D, g

CandidatesOf(demands, d) == {demands[d][k] : k \in DOMAIN demands[d]}

\* No demand has two resources.
OneEach(held) == \A q, r \in DOMAIN held : held[q] = held[r] /\ held[q] # 0 => q = r

\* Each resource fills a demand it is a candidate for.
Fitting(demands, held) == \A r \in DOMAIN held : held[r] # 0 => r \in CandidatesOf(demands, held[r])

\* An attempt is made for a demand that holds nothing but what was seen.
CanAsk(demands, d, seen, held) ==
    /\ OneEach(held)
    /\ Fitting(demands, held)
    /\ \A r \in DOMAIN held : held[r] = d => r \in seen

\* The demand has one resource more, one unseen; every other has one if it had, and what
\* was seen is as it was.
Placed(demands, d, seen, held, new) ==
    /\ \E r \in DOMAIN held \ seen :
          /\ new[r] = d
          /\ \A q \in DOMAIN held : new[q] = d => q = r \/ held[q] = d
    /\ \A q \in seen : new[q] = held[q]
    /\ \A q, r \in DOMAIN held : new[q] = new[r] /\ new[q] # 0 /\ new[q] # d => q = r
    /\ \A q \in DOMAIN held : held[q] # 0 => new[q] # 0 /\ \E r \in DOMAIN held : new[r] = held[q]
    /\ \A q \in DOMAIN held : new[q] # 0 /\ new[q] # d => \E r \in DOMAIN held : held[r] = new[q]
    /\ Fitting(demands, new)

\* What was seen in vain: the candidates from the k-th on, and those of each holder met.
SeenInVain(demands, d, k, seen, held, to) ==
    /\ \A j \in DOMAIN demands[d] : j >= k => demands[d][j] \in to
    /\ \A r \in to \ seen : held[r] # 0 /\ CandidatesOf(demands, held[r]) \subseteq to

\* A free resource is taken.
LEMMA FreeTaken ==
    ASSUME NEW demands, NEW d \in DOMAIN demands, d # 0, NEW seen \in SUBSET Wanted(demands),
           NEW held \in Holdings(demands), CanAsk(demands, d, seen, held),
           NEW r \in Wanted(demands), r \notin seen, held[r] = 0, r \in CandidatesOf(demands, d)
    PROVE  Placed(demands, d, seen, held, [held EXCEPT ![r] = d])
<1>. DEFINE A == Wanted(demands)
            new == [held EXCEPT ![r] = d]
<1>1. /\ DOMAIN held = A /\ DOMAIN new = A /\ seen \subseteq A
      /\ \A q \in A : new[q] = IF q = r THEN d ELSE held[q]
  BY DEF Holdings
<1>2. /\ \A p, q \in A : held[p] = held[q] /\ held[p] # 0 => p = q
      /\ \A q \in A : held[q] # 0 => q \in CandidatesOf(demands, held[q])
      /\ \A q \in A : held[q] = d => q \in seen
  BY <1>1 DEF CanAsk, OneEach, Fitting
<1>. HIDE DEF A, new
<1>3. r \in A
  BY DEF A
<1>4. Fitting(demands, new)
  BY <1>1, <1>2 DEF Fitting
<1>5. \E p \in DOMAIN held \ seen : new[p] = d /\ \A q \in DOMAIN held : new[q] = d => q = p \/ held[q] = d
  BY <1>1, <1>3
<1>6. \A q \in seen : new[q] = held[q]
  BY <1>1
<1>7. \A p, q \in A : new[p] = new[q] /\ new[p] # 0 /\ new[p] # d => p = q
  BY <1>1, <1>2
<1>8. \A q \in A : held[q] # 0 => new[q] # 0 /\ \E p \in A : new[p] = held[q]
  BY <1>1
<1>9. \A q \in A : new[q] # 0 /\ new[q] # d => \E p \in A : held[p] = new[q]
  BY <1>1
<1>. QED
  BY <1>1, <1>4, <1>5, <1>6, <1>7, <1>8, <1>9 DEF Placed, new

\* The holder of a resource may be asked to move.
LEMMA HolderAsked ==
    ASSUME NEW demands, NEW d \in DOMAIN demands, NEW seen \in SUBSET Wanted(demands),
           NEW held \in Holdings(demands), CanAsk(demands, d, seen, held),
           NEW r \in Wanted(demands), held[r] # 0
    PROVE  CanAsk(demands, held[r], seen \cup {r}, held)
<1>1. DOMAIN held = Wanted(demands)
  BY DEF Holdings
<1>. QED
  BY <1>1 DEF CanAsk, OneEach

\* When it does, the resource changes hands.
LEMMA HandedOver ==
    ASSUME NEW demands, NEW d \in DOMAIN demands, d # 0, NEW seen \in SUBSET Wanted(demands),
           NEW held \in Holdings(demands), CanAsk(demands, d, seen, held),
           NEW r \in Wanted(demands), r \notin seen, held[r] # 0, r \in CandidatesOf(demands, d),
           NEW new \in Holdings(demands),
           Placed(demands, held[r], seen \cup {r}, held, new)
    PROVE  Placed(demands, d, seen, held, [new EXCEPT ![r] = d])
<1>. DEFINE A == Wanted(demands)
            e == held[r]
            last == [new EXCEPT ![r] = d]
<1>1. /\ DOMAIN held = A /\ DOMAIN new = A /\ DOMAIN last = A /\ seen \subseteq A
      /\ \A q \in A : last[q] = IF q = r THEN d ELSE new[q]
  BY DEF Holdings
<1>2. /\ \A p, q \in A : held[p] = held[q] /\ held[p] # 0 => p = q
      /\ \A q \in A : held[q] # 0 => q \in CandidatesOf(demands, held[q])
      /\ \A q \in A : held[q] = d => q \in seen
  BY <1>1 DEF CanAsk, OneEach, Fitting
<1>3. PICK p \in A \ (seen \cup {r}) : /\ new[p] = e
                                       /\ \A q \in A : new[q] = e => q = p \/ held[q] = e
  BY <1>1 DEF Placed
<1>4. /\ \A q \in seen : new[q] = held[q]
      /\ new[r] = held[r]
      /\ \A q, s \in A : new[q] = new[s] /\ new[q] # 0 /\ new[q] # e => q = s
      /\ \A q \in A : held[q] # 0 => new[q] # 0 /\ \E s \in A : new[s] = held[q]
      /\ \A q \in A : new[q] # 0 /\ new[q] # e => \E s \in A : held[s] = new[q]
      /\ \A q \in A : new[q] # 0 => q \in CandidatesOf(demands, new[q])
  BY <1>1 DEF Placed, Fitting
<1>5. r \in A /\ e # 0 /\ e # d
  <2>1. r \in A /\ e # 0
    BY DEF A
  <2>2. held[r] # d
    BY <1>2, <2>1
  <2>. QED
    BY <2>1, <2>2
<1>6. held[r] = e
  OBVIOUS
<1>. HIDE DEF A, e, last
<1>7. \A q \in A : last[q] = d => q = r \/ held[q] = d
  <2>. SUFFICES ASSUME NEW q \in A, last[q] = d, q # r PROVE held[q] = d
    OBVIOUS
  <2>1. new[q] = d
    BY <1>1
  <2>2. PICK s \in A : held[s] = d
    BY <1>4, <1>5, <2>1
  <2>3. s \in seen /\ new[s] = d
    BY <1>2, <1>4, <2>2
  <2>4. q = s
    BY <1>4, <1>5, <2>1, <2>3
  <2>. QED
    BY <2>2, <2>4
<1>8. \E q \in DOMAIN held \ seen : last[q] = d /\ \A s \in DOMAIN held : last[s] = d => s = q \/ held[s] = d
  BY <1>1, <1>5, <1>7
<1>9. \A q \in seen : last[q] = held[q]
  BY <1>1, <1>4
<1>10. \A q, s \in A : last[q] = last[s] /\ last[q] # 0 /\ last[q] # d => q = s
  <2>. SUFFICES ASSUME NEW q \in A, NEW s \in A, last[q] = last[s], last[q] # 0, last[q] # d
                PROVE  q = s
    OBVIOUS
  <2>1. q # r /\ s # r /\ new[q] = new[s] /\ new[q] = last[q]
    BY <1>1
  <2>2. CASE new[q] = e
    <3>1. q = p \/ held[q] = e
      BY <1>3, <2>2
    <3>2. s = p \/ held[s] = e
      BY <1>3, <2>1, <2>2
    <3>3. held[q] = e => q = r
      BY <1>2, <1>5, <1>6
    <3>4. held[s] = e => s = r
      BY <1>2, <1>5, <1>6
    <3>. QED
      BY <2>1, <3>1, <3>2, <3>3, <3>4
  <2>3. CASE new[q] # e
    BY <1>4, <2>1, <2>3
  <2>. QED
    BY <2>2, <2>3
<1>11. \A q \in A : held[q] # 0 => last[q] # 0 /\ \E s \in A : last[s] = held[q]
  <2>. SUFFICES ASSUME NEW q \in A, held[q] # 0
                PROVE  last[q] # 0 /\ \E s \in A : last[s] = held[q]
    OBVIOUS
  <2>1. last[q] # 0
    BY <1>1, <1>4
  <2>2. CASE held[q] = e
    <3>1. p # r /\ last[p] = e /\ p \in A
      BY <1>1, <1>3
    <3>. QED
      BY <2>1, <2>2, <3>1
  <2>3. CASE held[q] # e
    <3>1. PICK s \in A : new[s] = held[q]
      BY <1>4
    <3>2. s # r
      BY <1>4, <1>6, <2>3, <3>1
    <3>3. last[s] = held[q]
      BY <1>1, <3>1, <3>2
    <3>. QED
      BY <2>1, <3>3
  <2>. QED
    BY <2>2, <2>3
<1>12. \A q \in A : last[q] # 0 /\ last[q] # d => \E s \in A : held[s] = last[q]
  <2>. SUFFICES ASSUME NEW q \in A, last[q] # 0, last[q] # d
                PROVE  \E s \in A : held[s] = last[q]
    OBVIOUS
  <2>1. q # r /\ new[q] = last[q]
    BY <1>1
  <2>2. CASE new[q] = e
    BY <1>5, <1>6, <2>1, <2>2
  <2>3. CASE new[q] # e
    BY <1>4, <2>1, <2>3
  <2>. QED
    BY <2>2, <2>3
<1>13. Fitting(demands, last)
  BY <1>1, <1>4 DEF Fitting
<1>. QED
  BY <1>1, <1>8, <1>9, <1>10, <1>11, <1>12, <1>13 DEF Placed, last

\* What is placed past more that was seen is placed.
LEMMA SeenMore ==
    ASSUME NEW demands, NEW d, NEW seen, NEW more, NEW held, seen \subseteq more
    PROVE  /\ CanAsk(demands, d, seen, held) => CanAsk(demands, d, more, held)
           /\ \A new : Placed(demands, d, more, held, new) => Placed(demands, d, seen, held, new)
<1>1. CanAsk(demands, d, seen, held) => CanAsk(demands, d, more, held)
  BY DEF CanAsk
<1>2. ASSUME NEW new, Placed(demands, d, more, held, new)
      PROVE  Placed(demands, d, seen, held, new)
  <2>1. \E r \in DOMAIN held \ seen :
          /\ new[r] = d
          /\ \A q \in DOMAIN held : new[q] = d => q = r \/ held[q] = d
    BY <1>2 DEF Placed
  <2>2. \A q \in seen : new[q] = held[q]
    BY <1>2 DEF Placed
  <2>. QED
    BY <1>2, <2>1, <2>2 DEF Placed
<1>. QED
  BY <1>1, <1>2

\* What an attempt says: a place for the demand, or all that was seen in vain.
Answers(demands, at, v) ==
    IF v.ok THEN Placed(demands, at[1], at[3], at[4], v.held)
    ELSE SeenInVain(demands, at[1], at[2], at[3], at[4], v.seen)

\* Each call of the search answers right, by how much is left to look at.
LEMMA AssignRight ==
    ASSUME NEW S, NEW demands \in Seq(Seq(S))
    PROVE  \A at \in AssignPlaces(demands) :
              CanAsk(demands, at[1], at[3], at[4]) => Answers(demands, at, Assigning(demands)[at])
<1>. DEFINE D == AssignPlaces(demands)
            f == Assigning(demands)
            P == {at \in D : CanAsk(demands, at[1], at[3], at[4]) => Answers(demands, at, f[at])}
<1>1. PICK most \in Nat : \A d \in DOMAIN demands : Len(demands[d]) <= most
  BY DemandsBounded
<1>. DEFINE m == [at \in D |-> AssignMeasure(demands, most, at)]
<1>2. /\ \A d \in DOMAIN demands : /\ d \in Nat /\ d # 0
                                   /\ Len(demands[d]) \in Nat
                                   /\ DOMAIN demands[d] = 1..Len(demands[d])
  BY DemandsBounded
<1>3. \A at \in D : m[at] = AssignMeasure(demands, most, at)
  OBVIOUS
<1>4. \A at \in D : f[at] \in Attempts(demands, at[3]) /\ f[at] = AssignStep(demands, f, at)
  BY AssignSolved
<1>5. \A at \in D : AssignFinds(demands, f, at)
  BY AssignStepFinds
<1>6. \A seen : \A v \in Attempts(demands, seen) :
         /\ seen \subseteq v.seen /\ v.seen \in SUBSET Wanted(demands)
         /\ v.ok \in BOOLEAN /\ v.held \in Holdings(demands)
  BY DEF Attempts
<1>7. \A at \in D : \A s : /\ HolderPlace(demands, at)[1] = at[4][demands[at[1]][at[2]]]
                           /\ HolderPlace(demands, at)[2] = 1
                           /\ HolderPlace(demands, at)[3] = at[3] \cup {demands[at[1]][at[2]]}
                           /\ HolderPlace(demands, at)[4] = at[4]
                           /\ NextPlace(at, s)[1] = at[1] /\ NextPlace(at, s)[2] = at[2] + 1
                           /\ NextPlace(at, s)[3] = s /\ NextPlace(at, s)[4] = at[4]
  BY DEF HolderPlace, NextPlace
<1>. HIDE DEF f, m
<1>8. ASSUME NEW at \in D, \A y \in D : m[y] < m[at] => y \in P,
             CanAsk(demands, at[1], at[3], at[4])
      PROVE  Answers(demands, at, f[at])
  <2>. DEFINE d == at[1]
              k == at[2]
              seen == at[3]
              held == at[4]
              r == demands[d][k]
              h == HolderPlace(demands, at)
              v == f[at]
              mm(p) == AssignMeasure(demands, most, p)
  <2>1. /\ mm(at) \in Nat
        /\ d \in DOMAIN demands /\ k \in Nat \ {0}
        /\ seen \in SUBSET Wanted(demands) /\ held \in Holdings(demands)
        /\ k <= Len(demands[d]) =>
             /\ r \in Wanted(demands) /\ held[r] \in {0} \cup DOMAIN demands
             /\ NextPlace(at, seen) \in D /\ mm(NextPlace(at, seen)) < mm(at)
             /\ r \notin seen =>
                  /\ held[r] # 0 => h \in D /\ mm(h) < mm(at)
                  /\ \A s \in SUBSET Wanted(demands) : seen \cup {r} \subseteq s =>
                       NextPlace(at, s) \in D /\ mm(NextPlace(at, s)) < mm(at)
    BY <1>1, AssignDescends
  <2>2. \A p \in D : m[p] = mm(p)
    BY <1>3
  <2>3. \A y \in D : mm(y) < mm(at) =>
            (CanAsk(demands, y[1], y[3], y[4]) => Answers(demands, y, f[y]))
    BY <1>8, <2>2
  <2>4. d \in DOMAIN demands /\ d # 0 /\ Len(demands[d]) \in Nat /\ DOMAIN demands[d] = 1..Len(demands[d])
    BY <1>2, <2>1
  <2>5. CanAsk(demands, d, seen, held)
    BY <1>8
  <2>6. AssignFinds(demands, f, at) /\ v = AssignStep(demands, f, at)
    BY <1>4, <1>5
  <2>7. ~(k > Len(demands[d])) => k <= Len(demands[d]) /\ k \in DOMAIN demands[d]
    BY <2>1, <2>4
  <2>. HIDE DEF mm
  <2>8. ASSUME k > Len(demands[d])
        PROVE  Answers(demands, at, v)
    <3>1. v = [ok |-> FALSE, seen |-> seen, held |-> held]
      BY <2>6, <2>8 DEF AssignFinds
    <3>2. ~v.ok /\ v.seen = seen
      BY <3>1
    <3>3. \A j \in DOMAIN demands[d] : ~(j >= k)
      BY <2>1, <2>4, <2>8
    <3>4. SeenInVain(demands, d, k, seen, held, seen)
      BY <3>3 DEF SeenInVain
    <3>. QED
      BY <3>2, <3>4 DEF Answers
  <2>9. ASSUME ~(k > Len(demands[d])), NEW more \in SUBSET Wanted(demands),
               seen \subseteq more, r \in more,
               \A q \in more \ seen : held[q] # 0 /\ CandidatesOf(demands, held[q]) \subseteq more,
               NextPlace(at, more) \in D, mm(NextPlace(at, more)) < mm(at),
               v = f[NextPlace(at, more)]
        PROVE  Answers(demands, at, v)
    <3>. DEFINE y == NextPlace(at, more)
    <3>1. y[1] = d /\ y[2] = k + 1 /\ y[3] = more /\ y[4] = held
      BY <1>7
    <3>2. CanAsk(demands, d, more, held)
      BY <2>5, <2>9, SeenMore
    <3>3. Answers(demands, y, v)
      BY <2>3, <2>9, <3>1, <3>2
    <3>4. IF v.ok THEN Placed(demands, d, more, held, v.held)
          ELSE SeenInVain(demands, d, k + 1, more, held, v.seen)
      <4>. HIDE DEF y, d, k, held, v
      <4>. QED
        BY <3>1, <3>3 DEF Answers
    <3>5. v.ok => Placed(demands, d, seen, held, v.held)
      <4>. HIDE DEF d, seen, held, v
      <4>. QED
        BY <2>9, <3>4, SeenMore
    <3>6. ~v.ok => SeenInVain(demands, d, k, seen, held, v.seen)
      <4>. SUFFICES ASSUME ~v.ok PROVE SeenInVain(demands, d, k, seen, held, v.seen)
        OBVIOUS
      <4>1. SeenInVain(demands, d, k + 1, more, held, v.seen)
        BY <3>4
      <4>2. more \subseteq v.seen
        <5>1. v \in Attempts(demands, y[3])
          BY <1>4, <2>9
        <5>. HIDE DEF v, y
        <5>. QED
          BY <1>6, <3>1, <5>1
      <4>3. \A j \in DOMAIN demands[d] : j >= k => j = k \/ j >= k + 1
        BY <2>1, <2>4
      <4>4. demands[d][k] \in v.seen
        BY <2>9, <4>2
      <4>. HIDE DEF d, k, seen, held, v, r
      <4>5. \A j \in DOMAIN demands[d] : j >= k => demands[d][j] \in v.seen
        BY <4>1, <4>3, <4>4 DEF SeenInVain
      <4>6. \A q \in v.seen \ seen : held[q] # 0 /\ CandidatesOf(demands, held[q]) \subseteq v.seen
        BY <2>9, <4>1, <4>2 DEF SeenInVain
      <4>. QED
        BY <4>5, <4>6 DEF SeenInVain
    <3>. QED
      BY <3>5, <3>6 DEF Answers
  <2>10. ASSUME ~(k > Len(demands[d])), r \in seen
         PROVE  Answers(demands, at, v)
    <3>1. v = f[NextPlace(at, seen)]
      BY <2>6, <2>10 DEF AssignFinds
    <3>2. NextPlace(at, seen) \in D /\ mm(NextPlace(at, seen)) < mm(at)
      BY <2>1, <2>7, <2>10
    <3>. HIDE DEF D, d, k, seen, held, v, r
    <3>. QED
      BY <2>1, <2>9, <2>10, <3>1, <3>2
  <2>11. ~(k > Len(demands[d])) => r \in CandidatesOf(demands, d) /\ r \in Wanted(demands)
    BY <2>1, <2>7 DEF CandidatesOf
  <2>12. ASSUME ~(k > Len(demands[d])), r \notin seen, held[r] = 0
         PROVE  Answers(demands, at, v)
    <3>1. v = [ok |-> TRUE, seen |-> seen \cup {r}, held |-> [held EXCEPT ![r] = d]]
      BY <2>6, <2>12 DEF AssignFinds
    <3>2. v.ok /\ v.held = [held EXCEPT ![r] = d]
      BY <3>1
    <3>3. Placed(demands, d, seen, held, [held EXCEPT ![r] = d])
      <4>. HIDE DEF d, seen, held, r
      <4>. QED
        BY <2>1, <2>4, <2>5, <2>11, <2>12, FreeTaken
    <3>. QED
      BY <3>2, <3>3 DEF Answers
  <2>13. ASSUME ~(k > Len(demands[d])), r \notin seen, held[r] # 0
         PROVE  Answers(demands, at, v)
    <3>. DEFINE moved == f[h]
                e == held[r]
    <3>1. /\ h \in D /\ mm(h) < mm(at)
          /\ \A s \in SUBSET Wanted(demands) : seen \cup {r} \subseteq s =>
                NextPlace(at, s) \in D /\ mm(NextPlace(at, s)) < mm(at)
      BY <2>1, <2>7, <2>13
    <3>2. h[1] = e /\ h[2] = 1 /\ h[3] = seen \cup {r} /\ h[4] = held
      BY <1>7
    <3>3. e \in DOMAIN demands
      BY <2>1, <2>7, <2>13
    <3>4. CanAsk(demands, e, seen \cup {r}, held)
      <4>. HIDE DEF d, seen, held, r
      <4>. QED
        BY <2>1, <2>5, <2>11, <2>13, HolderAsked
    <3>. HIDE DEF h
    <3>5. Answers(demands, h, moved)
      BY <2>3, <3>1, <3>2, <3>4
    <3>6. IF moved.ok THEN Placed(demands, e, seen \cup {r}, held, moved.held)
          ELSE SeenInVain(demands, e, 1, seen \cup {r}, held, moved.seen)
      <4>. HIDE DEF e, seen, held, moved, r
      <4>. QED
        BY <3>2, <3>5 DEF Answers
    <3>7. /\ moved \in Attempts(demands, seen \cup {r})
          /\ moved.ok \in BOOLEAN /\ moved.held \in Holdings(demands)
          /\ moved.seen \in SUBSET Wanted(demands) /\ seen \cup {r} \subseteq moved.seen
      <4>1. moved \in Attempts(demands, seen \cup {r})
        <5>. HIDE DEF seen, r
        <5>. QED
          BY <1>4, <3>1, <3>2
      <4>. HIDE DEF moved, seen, r
      <4>. QED
        BY <1>6, <4>1
    <3>8. CASE moved.ok
      <4>1. v = [moved EXCEPT !.held[r] = d]
        BY <2>6, <2>13, <3>8 DEF AssignFinds, h
      <4>2. v.ok /\ v.held = [moved.held EXCEPT ![r] = d]
        <5>. HIDE DEF moved, v, d, r, seen
        <5>1. /\ [moved EXCEPT !.held[r] = d].ok = moved.ok
              /\ [moved EXCEPT !.held[r] = d].held = [moved.held EXCEPT ![r] = d]
          BY <2>1, <2>11, <2>13, <3>7, GivenAway
        <5>. QED
          BY <3>8, <4>1, <5>1
      <4>3. Placed(demands, d, seen, held, [moved.held EXCEPT ![r] = d])
        <5>1. Placed(demands, held[r], seen \cup {r}, held, moved.held)
          BY <3>6, <3>8
        <5>. HIDE DEF moved, v, d, r, seen, held
        <5>. QED
          BY <2>1, <2>4, <2>5, <2>11, <2>13, <3>7, <5>1, HandedOver
      <4>. QED
        BY <4>2, <4>3 DEF Answers
    <3>9. CASE ~moved.ok
      <4>. DEFINE more == moved.seen
      <4>1. v = f[NextPlace(at, more)]
        BY <2>6, <2>13, <3>9 DEF AssignFinds, h
      <4>2. NextPlace(at, more) \in D /\ mm(NextPlace(at, more)) < mm(at)
        BY <3>1, <3>7
      <4>3. SeenInVain(demands, e, 1, seen \cup {r}, held, more)
        BY <3>6, <3>9
      <4>4. more \in SUBSET Wanted(demands) /\ seen \subseteq more /\ r \in more
        BY <3>7
      <4>5. CandidatesOf(demands, e) \subseteq more
        <5>1. \A j \in DOMAIN demands[e] : j >= 1
          BY <1>2, <3>3
        <5>. HIDE DEF e, more, seen, r, held
        <5>. QED
          BY <4>3, <5>1 DEF SeenInVain, CandidatesOf
      <4>6. \A q \in more \ seen : held[q] # 0 /\ CandidatesOf(demands, held[q]) \subseteq more
        <5>1. \A q \in more \ (seen \cup {r}) : held[q] # 0 /\ CandidatesOf(demands, held[q]) \subseteq more
          BY <4>3 DEF SeenInVain
        <5>2. held[r] # 0 /\ CandidatesOf(demands, held[r]) \subseteq more
          BY <2>13, <4>5
        <5>. HIDE DEF more, seen, r, held
        <5>. QED
          BY <5>1, <5>2
      <4>. HIDE DEF D, d, k, seen, held, v, r, more
      <4>. QED
        BY <2>9, <2>13, <4>1, <4>2, <4>4, <4>6
    <3>. QED
      BY <3>7, <3>8, <3>9
  <2>. QED
    BY <2>8, <2>10, <2>12, <2>13
<1>9. m \in [D -> Nat]
  <2>1. \A at \in D : AssignMeasure(demands, most, at) \in Nat
    BY <1>1, AssignDescends
  <2>. QED
    BY <2>1 DEF m
<1>10. \A at \in D : at \in P
  <2>1. \A at \in D : (\A y \in D : m[y] < m[at] => y \in P) => at \in P
    BY <1>8
  <2>. HIDE DEF P, D
  <2>. QED
    BY <1>9, <2>1, ByMeasure
<1>. QED
  BY <1>10 DEF f

\* The ways in which some resources can fill all the demands.
Ways(demands) ==
    {g \in Injection(DOMAIN demands, Wanted(demands)) :
        \A d \in DOMAIN demands : g[d] \in CandidatesOf(demands, d)}

\* What was seen in vain is too few for those who want it.
LEMMA TooFew ==
    ASSUME NEW S, NEW demands \in Seq(Seq(S)), NEW d \in DOMAIN demands,
           NEW held \in Holdings(demands), CanAsk(demands, d, {}, held),
           NEW met \in SUBSET Wanted(demands), SeenInVain(demands, d, 1, {}, held, met)
    PROVE  Ways(demands) = {}
<1>. DEFINE A == Wanted(demands)
            E == {d} \cup {held[r] : r \in met}
<1>1. SUFFICES ASSUME NEW g \in Ways(demands) PROVE FALSE
  OBVIOUS
<1>2. /\ DOMAIN held = A /\ \A r \in A : held[r] \in {0} \cup DOMAIN demands
      /\ \A e \in DOMAIN demands : DOMAIN demands[e] = 1..Len(demands[e])
      /\ IsFiniteSet(A)
  BY DemandsBounded DEF Holdings
<1>3. /\ \A q, r \in A : held[q] = held[r] /\ held[q] # 0 => q = r
      /\ \A r \in A : held[r] # d
  BY <1>2 DEF CanAsk, OneEach
<1>4. /\ \A j \in DOMAIN demands[d] : demands[d][j] \in met
      /\ \A r \in met : held[r] # 0 /\ CandidatesOf(demands, held[r]) \subseteq met
  <2>1. \A j \in DOMAIN demands[d] : j >= 1
    BY <1>2
  <2>. QED
    BY <2>1 DEF SeenInVain
<1>5. \A e \in E : e \in DOMAIN demands /\ CandidatesOf(demands, e) \subseteq met
  <2>1. CandidatesOf(demands, d) \subseteq met
    BY <1>4 DEF CandidatesOf
  <2>2. \A r \in met : held[r] \in DOMAIN demands
    BY <1>2, <1>4
  <2>. QED
    BY <1>4, <2>1, <2>2
<1>6. /\ \A e, c \in DOMAIN demands : g[e] = g[c] => e = c
      /\ \A e \in DOMAIN demands : g[e] \in CandidatesOf(demands, e)
  BY DEF Ways, Injection, IsInjective
<1>7. IsFiniteSet(met)
  BY <1>2, FS_Subset
<1>. HIDE DEF A, E
<1>. DEFINE to == [e \in E |-> g[e]]
            from == [r \in met |-> held[r]]
<1>8. to \in Injection(E, met)
  <2>1. to \in [E -> met]
    BY <1>5, <1>6
  <2>2. \A e, c \in E : to[e] = to[c] => e = c
    BY <1>5, <1>6
  <2>. HIDE DEF to
  <2>. QED
    BY <2>1, <2>2 DEF Injection, IsInjective
<1>9. from \in Injection(met, E \ {d})
  <2>1. \A r \in met : held[r] \in E \ {d} /\ r \in A
    BY <1>3 DEF E, A
  <2>2. from \in [met -> E \ {d}]
    BY <2>1
  <2>3. \A q, r \in met : from[q] = from[r] => q = r
    BY <1>3, <1>4, <2>1
  <2>. HIDE DEF from
  <2>. QED
    BY <2>2, <2>3 DEF Injection, IsInjective
<1>. HIDE DEF to, from
<1>10. IsFiniteSet(E) /\ Cardinality(E) <= Cardinality(met)
  BY <1>7, <1>8, FS_Injection
<1>11. /\ IsFiniteSet(E \ {d}) /\ Cardinality(E \ {d}) = Cardinality(E) - 1
  BY <1>10, FS_RemoveElement DEF E
<1>12. Cardinality(met) <= Cardinality(E \ {d})
  BY <1>9, <1>11, FS_Injection
<1>13. Cardinality(E) \in Nat /\ Cardinality(met) \in Nat
  BY <1>7, <1>10, FS_CardinalityType
<1>. QED
  BY <1>10, <1>11, <1>12, <1>13

\* There is a demand with the fewest candidates.
LEMMA ScarcestIn ==
    ASSUME NEW S, NEW demands \in Seq(Seq(S)), NEW rest \in SUBSET DOMAIN demands, rest # {}
    PROVE  Scarcest(demands, rest) \in rest
<1>. DEFINE lengths == {Len(demands[d]) : d \in rest}
<1>1. \A d \in rest : d \in Nat /\ Len(demands[d]) \in Nat
  BY DemandsBounded
<1>2. PICK l \in lengths : \A k \in lengths : l <= k
  <2>1. lengths \in SUBSET Nat /\ lengths # {}
    BY <1>1
  <2>. QED
    BY <2>1, LeastNumber
<1>. DEFINE short == {d \in rest : Len(demands[d]) = l}
<1>3. PICK d \in short : \A e \in short : d <= e
  <2>1. short \in SUBSET Nat /\ short # {}
    BY <1>1
  <2>. QED
    BY <2>1, LeastNumber
<1>4. d \in rest /\ \A e \in rest : \/ Len(demands[d]) < Len(demands[e])
                                    \/ Len(demands[d]) = Len(demands[e]) /\ d <= e
  <2>1. l \in Nat /\ Len(demands[d]) = l /\ d \in rest
    BY <1>1, <1>3
  <2>. SUFFICES ASSUME NEW e \in rest
                PROVE  \/ l < Len(demands[e])
                       \/ l = Len(demands[e]) /\ d <= e
    BY <2>1
  <2>2. l <= Len(demands[e]) /\ Len(demands[e]) \in Nat
    BY <1>1, <1>2
  <2>3. l = Len(demands[e]) => d <= e
    BY <1>3
  <2>. QED
    BY <2>1, <2>2, <2>3
<1>. QED
  BY <1>4, Zenon DEF Scarcest

\* The demands of rest are those that hold nothing yet.
CanFill(demands, rest, held) ==
    /\ OneEach(held)
    /\ Fitting(demands, held)
    /\ \A d \in DOMAIN demands : d \in rest <=> \A r \in DOMAIN held : held[r] # d

\* Each step of filling places one demand, or shows that there is no way to place all.
LEMMA FillStepRight ==
    ASSUME NEW S, NEW demands \in Seq(Seq(S)), NEW rest \in SUBSET DOMAIN demands,
           NEW held \in Holdings(demands), rest # {}
    PROVE  LET d == Scarcest(demands, rest)
               step == Assigning(demands)[<<d, 1, {}, held>>]
           IN  /\ d \in rest /\ step.ok \in BOOLEAN /\ step.held \in Holdings(demands)
               /\ CanFill(demands, rest, held) =>
                     IF step.ok THEN CanFill(demands, rest \ {d}, step.held) ELSE Ways(demands) = {}
<1>. DEFINE d == Scarcest(demands, rest)
            at == <<d, 1, {}, held>>
            step == Assigning(demands)[at]
<1>1. d \in rest
  BY ScarcestIn
<1>. HIDE DEF d
<1>2. d \in DOMAIN demands /\ d \in Nat /\ d # 0 /\ \A e \in DOMAIN demands : e # 0
  BY <1>1, DemandsBounded
<1>3. /\ at \in AssignPlaces(demands)
      /\ at[1] = d /\ at[2] = 1 /\ at[3] = {} /\ at[4] = held
  BY <1>2 DEF AssignPlaces
<1>. HIDE DEF at
<1>4. step \in Attempts(demands, {})
  BY <1>3, AssignSolved
<1>5. step.ok \in BOOLEAN /\ step.held \in Holdings(demands) /\ step.seen \in SUBSET Wanted(demands)
  BY <1>4 DEF Attempts
<1>6. ASSUME CanFill(demands, rest, held)
      PROVE  IF step.ok THEN CanFill(demands, rest \ {d}, step.held) ELSE Ways(demands) = {}
  <2>1. CanAsk(demands, d, {}, held)
    BY <1>1, <1>2, <1>6 DEF CanFill, CanAsk
  <2>2. Answers(demands, at, step)
    BY <1>3, <2>1, AssignRight
  <2>. HIDE DEF step
  <2>3. CASE ~step.ok
    <3>1. SeenInVain(demands, d, 1, {}, held, step.seen)
      BY <1>3, <2>2, <2>3 DEF Answers
    <3>2. Ways(demands) = {}
      BY <1>2, <1>5, <2>1, <3>1, TooFew
    <3>. QED
      BY <2>3, <3>2
  <2>4. CASE step.ok
    <3>. DEFINE A == Wanted(demands)
                new == step.held
    <3>1. Placed(demands, d, {}, held, new)
      BY <1>3, <2>2, <2>4 DEF Answers
    <3>2. DOMAIN held = A /\ DOMAIN new = A /\ \A r \in A : new[r] \in {0} \cup DOMAIN demands
      BY <1>5 DEF Holdings
    <3>. HIDE DEF A, new
    <3>3. /\ \E r \in A : new[r] = d /\ \A q \in A : new[q] = d => q = r \/ held[q] = d
          /\ \A q, r \in A : new[q] = new[r] /\ new[q] # 0 /\ new[q] # d => q = r
          /\ \A q \in A : held[q] # 0 => \E r \in A : new[r] = held[q]
          /\ \A q \in A : new[q] # 0 /\ new[q] # d => \E r \in A : held[r] = new[q]
          /\ Fitting(demands, new)
      BY <3>1, <3>2 DEF Placed
    <3>4. \A r \in A : held[r] # d
      BY <1>1, <1>2, <1>6, <3>2 DEF CanFill
    <3>5. OneEach(new)
      BY <3>2, <3>3, <3>4 DEF OneEach
    <3>6. ASSUME NEW e \in DOMAIN demands
          PROVE  e \in rest \ {d} <=> \A r \in A : new[r] # e
      <4>1. e \in rest <=> \A r \in A : held[r] # e
        BY <1>6, <3>2 DEF CanFill
      <4>2. CASE e = d
        BY <3>3, <4>2
      <4>3. CASE e # d
        BY <1>2, <3>3, <4>1, <4>3
      <4>. QED
        BY <4>2, <4>3
    <3>7. CanFill(demands, rest \ {d}, new)
      BY <3>2, <3>3, <3>5, <3>6 DEF CanFill
    <3>. QED
      BY <2>4, <3>7 DEF new
  <2>. QED
    BY <1>5, <2>3, <2>4
<1>. QED
  BY <1>1, <1>5, <1>6 DEF d, at

\* Filling is well defined, and right: all demands are placed, or they cannot be.
LEMMA FillRight ==
    ASSUME NEW S, NEW demands \in Seq(Seq(S))
    PROVE  \A rest \in SUBSET DOMAIN demands : \A held \in Holdings(demands) :
              LET v == Filling(demands)[<<rest, held>>]
              IN  /\ v.ok \in BOOLEAN /\ v.held \in Holdings(demands)
                  /\ CanFill(demands, rest, held) =>
                        IF v.ok THEN CanFill(demands, {}, v.held) ELSE Ways(demands) = {}
<1>. DEFINE D == FillPlaces(demands)
            V == [ok : BOOLEAN, held : Holdings(demands)]
            m == [at \in D |-> Cardinality(at[1])]
            G == [p \in D \X [D -> V] |-> FillStep(demands, p[2], p[1])]
            Solves(f) == f = [at \in D |-> FillStep(demands, f, at)]
            sc(rest) == Scarcest(demands, rest)
            step(rest, held) == Assigning(demands)[<<sc(rest), 1, {}, held>>]
            next(rest, held) == <<rest \ {sc(rest)}, step(rest, held).held>>
            stuck(held) == [ok |-> FALSE, held |-> held]
            done(held) == [ok |-> TRUE, held |-> held]
<1>1. \A at \in D : /\ at[1] \in SUBSET DOMAIN demands /\ at[2] \in Holdings(demands)
                    /\ at = <<at[1], at[2]>>
  BY DEF FillPlaces
<1>2. \A rest \in SUBSET DOMAIN demands : \A held \in Holdings(demands) :
         <<rest, held>> \in D /\ <<rest, held>>[1] = rest /\ <<rest, held>>[2] = held
  BY DEF FillPlaces
<1>3. \A rest \in SUBSET DOMAIN demands : IsFiniteSet(rest) /\ Cardinality(rest) \in Nat
  <2>1. IsFiniteSet(DOMAIN demands)
    <3>1. DOMAIN demands = 1..Len(demands) /\ Len(demands) \in Nat
      BY DemandsBounded
    <3>. QED
      BY <3>1, FS_Interval
  <2>. QED
    BY <2>1, FS_Subset, FS_CardinalityType
<1>4. \A at \in D : \A f \in [D -> V] : G[<<at, f>>] = FillStep(demands, f, at)
  <2>1. \A at \in D : \A f \in [D -> V] : <<at, f>> \in D \X [D -> V]
    OBVIOUS
  <2>. HIDE DEF D, V
  <2>. QED
    BY <2>1
<1>5. m \in [D -> Nat] /\ \A at \in D : m[at] = Cardinality(at[1])
  BY <1>1, <1>3
<1>6. \A f : \A at : FillStep(demands, f, at) =
         IF at[1] = {} THEN done(at[2])
         ELSE IF step(at[1], at[2]).ok THEN f[next(at[1], at[2])] ELSE stuck(at[2])
  BY Zenon DEF FillStep
<1>7. ASSUME NEW rest \in SUBSET DOMAIN demands, NEW held \in Holdings(demands), rest # {}
      PROVE  /\ sc(rest) \in rest /\ step(rest, held).ok \in BOOLEAN
             /\ CanFill(demands, rest, held) =>
                   IF step(rest, held).ok THEN CanFill(demands, rest \ {sc(rest)}, step(rest, held).held)
                   ELSE Ways(demands) = {}
             /\ next(rest, held) \in D
             /\ m[next(rest, held)] < m[<<rest, held>>]
             /\ next(rest, held)[1] = rest \ {sc(rest)}
             /\ next(rest, held)[2] = step(rest, held).held
             /\ step(rest, held).held \in Holdings(demands)
  <2>1. /\ sc(rest) \in rest /\ step(rest, held).ok \in BOOLEAN
        /\ step(rest, held).held \in Holdings(demands)
        /\ CanFill(demands, rest, held) =>
                   IF step(rest, held).ok THEN CanFill(demands, rest \ {sc(rest)}, step(rest, held).held)
                   ELSE Ways(demands) = {}
    BY <1>7, FillStepRight
  <2>. HIDE DEF sc, step, D, m
  <2>2. rest \ {sc(rest)} \in SUBSET DOMAIN demands
    OBVIOUS
  <2>3. next(rest, held) \in D /\ next(rest, held)[1] = rest \ {sc(rest)}
        /\ next(rest, held)[2] = step(rest, held).held
    BY <1>2, <2>1, <2>2
  <2>4. Cardinality(rest \ {sc(rest)}) = Cardinality(rest) - 1 /\ Cardinality(rest) \in Nat
    BY <1>3, <2>1, FS_RemoveElement
  <2>5. <<rest, held>> \in D /\ m[<<rest, held>>] = Cardinality(rest)
    BY <1>2, <1>5
  <2>6. m[next(rest, held)] = Cardinality(rest \ {sc(rest)})
    <3>. HIDE DEF next
    <3>. QED
      BY <1>5, <2>3
  <2>7. m[next(rest, held)] < m[<<rest, held>>]
    <3>. HIDE DEF next
    <3>. QED
      BY <2>4, <2>5, <2>6
  <2>. QED
    BY <2>1, <2>3, <2>7
<1>8. \A held \in Holdings(demands) : done(held) \in V /\ stuck(held) \in V
  OBVIOUS
<1>. HIDE DEF D, m, G, sc, step, next, stuck, done
<1>9. LooksLower(D, V, m, G)
  <2>1. V # {}
    <3>1. [r \in Wanted(demands) |-> 0] \in Holdings(demands)
      BY DEF Holdings
    <3>. QED
      BY <1>8, <3>1
  <2>. HIDE DEF V
  <2>2. ASSUME NEW at \in D, NEW f \in [D -> V]
        PROVE  G[<<at, f>>] \in V
    <3>1. at[1] \in SUBSET DOMAIN demands /\ at[2] \in Holdings(demands)
      BY <1>1
    <3>2. at[1] # {} => f[next(at[1], at[2])] \in V
      BY <1>7, <3>1
    <3>. QED
      BY <1>4, <1>6, <1>8, <3>1, <3>2
  <2>3. ASSUME NEW at \in D, NEW f \in [D -> V], NEW g \in [D -> V],
               \A y \in D : m[y] < m[at] => f[y] = g[y]
        PROVE  G[<<at, f>>] = G[<<at, g>>]
    <3>1. at[1] \in SUBSET DOMAIN demands /\ at[2] \in Holdings(demands) /\ at = <<at[1], at[2]>>
      BY <1>1
    <3>2. at[1] # {} => f[next(at[1], at[2])] = g[next(at[1], at[2])]
      BY <1>7, <2>3, <3>1
    <3>. QED
      BY <1>4, <1>6, <3>2
  <2>. QED
    BY <1>5, <2>1, <2>2, <2>3 DEF LooksLower
<1>10. PICK f \in [D -> V] : \A at \in D : f[at] = G[<<at, f>>]
  <2>. HIDE DEF V
  <2>. QED
    BY <1>9, Recursion
<1>11. Solves(f)
  <2>. HIDE DEF V
  <2>1. f = [at \in D |-> f[at]]
    OBVIOUS
  <2>. QED
    BY <1>4, <1>10, <2>1
<1>. DEFINE g == Filling(demands)
<1>12. g = CHOOSE h : Solves(h)
  BY DEF Filling, D
<1>13. Solves(g)
  <2>. HIDE DEF Solves, g
  <2>. QED
    BY <1>11, <1>12
<1>14. \A at \in D : g[at] = FillStep(demands, g, at)
  <2>. HIDE DEF g
  <2>1. g = [at \in D |-> FillStep(demands, g, at)]
    BY <1>13
  <2>. QED
    BY <2>1, Zenon
<1>. HIDE DEF g
<1>. DEFINE P == {at \in D : /\ g[at] \in V
                             /\ CanFill(demands, at[1], at[2]) =>
                                   IF g[at].ok THEN CanFill(demands, {}, g[at].held)
                                   ELSE Ways(demands) = {}}
<1>15. ASSUME NEW at \in D, \A y \in D : m[y] < m[at] => y \in P
       PROVE  at \in P
  <2>. DEFINE rest == at[1]
              held == at[2]
              y == next(rest, held)
  <2>1. rest \in SUBSET DOMAIN demands /\ held \in Holdings(demands) /\ at = <<rest, held>>
    BY <1>1
  <2>2. g[at] = IF rest = {} THEN done(held)
                ELSE IF step(rest, held).ok THEN g[y] ELSE stuck(held)
    BY <1>6, <1>14
  <2>3. CASE rest = {}
    <3>1. g[at] = done(held) /\ done(held).ok /\ done(held).held = held /\ done(held) \in V
      BY <1>8, <2>1, <2>2, <2>3 DEF done
    <3>. HIDE DEF V
    <3>. QED
      BY <2>3, <3>1
  <2>4. CASE rest # {} /\ ~step(rest, held).ok
    <3>1. g[at] = stuck(held) /\ ~stuck(held).ok /\ stuck(held) \in V
      BY <1>8, <2>1, <2>2, <2>4 DEF stuck
    <3>2. CanFill(demands, rest, held) => Ways(demands) = {}
      BY <1>7, <2>1, <2>4
    <3>. HIDE DEF V
    <3>. QED
      BY <3>1, <3>2
  <2>5. CASE rest # {} /\ step(rest, held).ok
    <3>1. g[at] = g[y]
      BY <2>2, <2>5
    <3>2. /\ y \in D /\ m[y] < m[at]
          /\ CanFill(demands, rest, held) => CanFill(demands, y[1], y[2])
      BY <1>7, <2>1, <2>5
    <3>3. y \in P
      BY <1>15, <3>2
    <3>. HIDE DEF y
    <3>. QED
      BY <3>1, <3>2, <3>3
  <2>. QED
    BY <2>3, <2>4, <2>5
<1>16. \A at \in D : at \in P
  <2>. HIDE DEF P
  <2>. QED
    BY <1>5, <1>15, ByMeasure
<1>17. \A v \in V : v.ok \in BOOLEAN /\ v.held \in Holdings(demands)
  OBVIOUS
<1>. HIDE DEF V
<1>18. ASSUME NEW rest \in SUBSET DOMAIN demands, NEW held \in Holdings(demands)
       PROVE  LET v == g[<<rest, held>>]
              IN  /\ v.ok \in BOOLEAN /\ v.held \in Holdings(demands)
                  /\ CanFill(demands, rest, held) =>
                        IF v.ok THEN CanFill(demands, {}, v.held) ELSE Ways(demands) = {}
  BY <1>2, <1>16, <1>17
<1>. QED
  BY <1>18 DEF g

\* The engine finds resources for all the demands whenever there is a way to, and what it
\* finds is one: augmenting paths miss no assignment (matchResources).
THEOREM MatchIsExact ==
    ASSUME NEW S, NEW demands \in Seq(Seq(S))
    PROVE  IF Ways(demands) = {} THEN MatchResources(demands) = None
           ELSE \E g \in Ways(demands) : MatchResources(demands) = Range(g)
<1>. DEFINE A == Wanted(demands)
            N == DOMAIN demands
            zero == [r \in A |-> 0]
            v == Filling(demands)[<<N, zero>>]
            crew == {r \in A : v.held[r] # 0}
<1>1. MatchResources(demands) = IF v.ok THEN crew ELSE None
  BY MatchIsFilling
<1>2. \A d \in N : d # 0
  BY DemandsBounded
<1>3. zero \in Holdings(demands) /\ DOMAIN zero = A /\ \A r \in A : zero[r] = 0
  BY DEF Holdings
<1>. HIDE DEF zero
<1>4. CanFill(demands, N, zero)
  BY <1>2, <1>3 DEF CanFill, OneEach, Fitting
<1>5. /\ v.ok \in BOOLEAN /\ v.held \in Holdings(demands)
      /\ IF v.ok THEN CanFill(demands, {}, v.held) ELSE Ways(demands) = {}
  <2>1. N \in SUBSET DOMAIN demands
    OBVIOUS
  <2>. HIDE DEF N
  <2>. QED
    BY <1>3, <1>4, <2>1, FillRight
<1>. HIDE DEF v
<1>6. CASE ~v.ok
  BY <1>1, <1>5, <1>6
<1>7. CASE v.ok
  <2>. DEFINE held == v.held
              g == [d \in N |-> CHOOSE r \in A : held[r] = d]
  <2>1. /\ DOMAIN held = A /\ \A r \in A : held[r] \in {0} \cup N
    BY <1>5 DEF Holdings
  <2>2. CanFill(demands, {}, held)
    BY <1>5, <1>7
  <2>. HIDE DEF A, N, held
  <2>3. /\ \A q, r \in A : held[q] = held[r] /\ held[q] # 0 => q = r
        /\ \A r \in A : held[r] # 0 => r \in CandidatesOf(demands, held[r])
        /\ \A d \in N : \E r \in A : held[r] = d
    BY <2>1, <2>2 DEF CanFill, OneEach, Fitting, N
  <2>4. \A d \in N : g[d] \in A /\ held[g[d]] = d
    BY <2>3
  <2>5. g \in [N -> A]
    BY <2>4
  <2>. HIDE DEF g
  <2>6. g \in Injection(N, A)
    BY <2>4, <2>5 DEF Injection, IsInjective
  <2>7. \A d \in N : g[d] \in CandidatesOf(demands, d)
    BY <1>2, <2>3, <2>4
  <2>8. g \in Ways(demands)
    BY <2>6, <2>7 DEF Ways, N, A
  <2>9. Range(g) = {r \in A : held[r] # 0}
    <3>1. Range(g) = {g[d] : d \in N}
      BY <2>5 DEF Range
    <3>2. \A d \in N : g[d] \in A /\ held[g[d]] # 0
      BY <1>2, <2>4
    <3>3. \A r \in A : held[r] # 0 => held[r] \in N /\ g[held[r]] = r
      BY <1>2, <2>1, <2>3, <2>4
    <3>. QED
      BY <3>1, <3>2, <3>3
  <2>10. crew = {r \in A : held[r] # 0}
    BY DEF held
  <2>. QED
    BY <1>1, <1>7, <2>8, <2>9, <2>10
<1>. QED
  BY <1>5, <1>6, <1>7

-----------------------------------------------------------------------------
(* What the engine asks of the resources                                   *)

\* A table has the values of its function.
LEMMA TableIs ==
    ASSUME NEW f
    PROVE  DOMAIN Table(f) = DOMAIN f /\ \A x \in DOMAIN f : Table(f)[x] = f[x]
<1>. DEFINE pairs == {<<x, f[x]>> : x \in DOMAIN f}
            of(x) == CHOOSE p \in pairs : p[1] = x
<1>1. Table(f) = [x \in DOMAIN f |-> of(x)[2]]
  BY DEF Table
<1>2. \A x \in DOMAIN f : of(x) = <<x, f[x]>>
  <2>. SUFFICES ASSUME NEW x \in DOMAIN f PROVE of(x) = <<x, f[x]>>
    OBVIOUS
  <2>1. <<x, f[x]>> \in pairs /\ <<x, f[x]>>[1] = x
    OBVIOUS
  <2>2. of(x) \in pairs /\ of(x)[1] = x
    <3>. HIDE DEF pairs
    <3>. QED
      BY <2>1
  <2>. QED
    BY <2>2
<1>. HIDE DEF of
<1>. QED
  BY <1>1, <1>2

\* What a sum is, set by set, taking away an element at a time.
Sums(f, S, v) ==
    f = [s \in SUBSET S |->
            IF s = {} THEN 0
            ELSE v[CHOOSE x \in s : TRUE] + f[s \ {CHOOSE x \in s : TRUE}]]

\* A sum over a finite set of numbers is defined, and is a number.
LEMMA SumIsNat ==
    ASSUME NEW S, IsFiniteSet(S), NEW v, \A x \in S : v[x] \in Nat
    PROVE  /\ \E f : Sums(f, S, v)
           /\ \A f : Sums(f, S, v) => f[S] \in Nat
<1>. DEFINE Solves(f) == Sums(f, S, v)
            one(s) == CHOOSE x \in s : TRUE
            of(x) == v[x]
            D == SUBSET S
            m == [s \in D |-> Cardinality(s)]
            G == [p \in D \X [D -> Nat] |->
                    IF p[1] = {} THEN 0 ELSE of(one(p[1])) + p[2][p[1] \ {one(p[1])}]]
<1>2. \A x \in S : of(x) \in Nat
  OBVIOUS
<1>4. \A s \in D : IsFiniteSet(s) /\ m[s] = Cardinality(s) /\ m[s] \in Nat
  BY FS_Subset, FS_CardinalityType
<1>5. \A s \in D : s # {} => one(s) \in s /\ one(s) \in S /\ s \ {one(s)} \in D
  OBVIOUS
<1>6. \A s \in D : s # {} => m[s \ {one(s)}] < m[s]
  <2>. SUFFICES ASSUME NEW s \in D, s # {} PROVE m[s \ {one(s)}] < m[s]
    OBVIOUS
  <2>1. Cardinality(s \ {one(s)}) = Cardinality(s) - 1
    BY <1>4, <1>5, FS_RemoveElement
  <2>2. m[s] = Cardinality(s) /\ m[s] \in Nat /\ m[s \ {one(s)}] = Cardinality(s \ {one(s)})
    BY <1>4, <1>5
  <2>. HIDE DEF m, one
  <2>. QED
    BY <2>1, <2>2
<1>7. m \in [D -> Nat]
  BY <1>4
<1>8. \A s \in D, f \in [D -> Nat] :
          G[<<s, f>>] = IF s = {} THEN 0 ELSE of(one(s)) + f[s \ {one(s)}]
  <2>1. \A s \in D, f \in [D -> Nat] : <<s, f>> \in D \X [D -> Nat]
    OBVIOUS
  <2>. HIDE DEF D, of, one
  <2>. QED
    BY <2>1
<1>9. D # {}
  OBVIOUS
<1>. HIDE DEF D, m, G, of, one
<1>10. \A s \in D, f \in [D -> Nat] : G[<<s, f>>] \in Nat
  <2>. SUFFICES ASSUME NEW s \in D, NEW f \in [D -> Nat] PROVE G[<<s, f>>] \in Nat
    OBVIOUS
  <2>1. G[<<s, f>>] = IF s = {} THEN 0 ELSE of(one(s)) + f[s \ {one(s)}]
    BY <1>8
  <2>2. s # {} => of(one(s)) \in Nat /\ f[s \ {one(s)}] \in Nat
    BY <1>2, <1>5
  <2>3. 0 \in Nat /\ \A a, b \in Nat : a + b \in Nat
    OBVIOUS
  <2>. QED
    BY <2>1, <2>2, <2>3, Zenon
<1>11. \A s \in D, f \in [D -> Nat], g \in [D -> Nat] :
          (\A y \in D : m[y] < m[s] => f[y] = g[y]) => G[<<s, f>>] = G[<<s, g>>]
  <2>. SUFFICES ASSUME NEW s \in D, NEW f \in [D -> Nat], NEW g \in [D -> Nat],
                       \A y \in D : m[y] < m[s] => f[y] = g[y]
                PROVE  G[<<s, f>>] = G[<<s, g>>]
    OBVIOUS
  <2>1. s # {} => f[s \ {one(s)}] = g[s \ {one(s)}]
    BY <1>5, <1>6
  <2>2. /\ G[<<s, f>>] = IF s = {} THEN 0 ELSE of(one(s)) + f[s \ {one(s)}]
        /\ G[<<s, g>>] = IF s = {} THEN 0 ELSE of(one(s)) + g[s \ {one(s)}]
    BY <1>8
  <2>. QED
    BY <2>1, <2>2, Zenon
<1>12. PICK f \in [D -> Nat] : \A s \in D : f[s] = G[<<s, f>>]
  <2>1. LooksLower(D, Nat, m, G)
    BY <1>7, <1>10, <1>11 DEF LooksLower
  <2>. QED
    BY <2>1, Recursion
<1>13. Solves(f)
  <2>1. \A s \in D : f[s] = IF s = {} THEN 0 ELSE of(one(s)) + f[s \ {one(s)}]
    BY <1>8, <1>12
  <2>2. f = [s \in D |-> IF s = {} THEN 0 ELSE of(one(s)) + f[s \ {one(s)}]]
    BY <2>1
  <2>. QED
    BY <2>2 DEF D, of, one, Sums
<1>14. ASSUME NEW sum, Sums(sum, S, v)
       PROVE  sum[S] \in Nat
  <2>1. \A s \in D : sum[s] = IF s = {} THEN 0 ELSE of(one(s)) + sum[s \ {one(s)}]
    BY <1>14 DEF D, of, one, Sums
  <2>. DEFINE P == {x \in D : sum[x] \in Nat}
  <2>2. ASSUME NEW s \in D, \A y \in D : m[y] < m[s] => y \in P
        PROVE  s \in P
    <3>1. sum[s] = IF s = {} THEN 0 ELSE of(one(s)) + sum[s \ {one(s)}]
      BY <2>1
    <3>2. s # {} => of(one(s)) \in Nat /\ sum[s \ {one(s)}] \in Nat
      BY <1>2, <1>5, <1>6, <2>2
    <3>3. 0 \in Nat /\ \A a, b \in Nat : a + b \in Nat
      OBVIOUS
    <3>4. sum[s] \in Nat
      BY <3>1, <3>2, <3>3, Zenon
    <3>. QED
      BY <3>4
  <2>3. \A s \in D : s \in P
    <3>. HIDE DEF P
    <3>. QED
      BY <1>7, <2>2, ByMeasure
  <2>4. S \in D
    BY DEF D
  <2>. QED
    BY <2>3, <2>4
<1>. QED
  BY <1>13, <1>14

\* The units a resource is busy on a day are a number.
LEMMA LoadIsNat ==
    ASSUME NEW spans \in Seq(Spans), Real(spans), NEW date, NEW z
    PROVE  LoadOf(spans, date, z) \in Nat
<1>. DEFINE S == {i \in DOMAIN spans : LocalDateOf(spans[i].start, z) = date}
            v == [i \in DOMAIN spans |-> spans[i].end - spans[i].start]
            Solves(f) == f = [s \in SUBSET S |->
                IF s = {} THEN 0
                ELSE (spans[CHOOSE x \in s : TRUE].end - spans[CHOOSE x \in s : TRUE].start)
                     + f[s \ {CHOOSE x \in s : TRUE}]]
            sum == CHOOSE f : Solves(f)
<1>1. LoadOf(spans, date, z) = sum[S]
  BY DEF LoadOf, MapThenSumSet, MapThenFoldSet
<1>2. \A x \in S : v[x] \in Nat
  BY SpansOf DEF Real
<1>3. IsFiniteSet(S) /\ S \subseteq DOMAIN spans
  <2>1. IsFiniteSet(DOMAIN spans)
    BY SpansOf, FS_Interval
  <2>. QED
    BY <2>1, FS_Subset
<1>4. \A i \in DOMAIN spans : v[i] = spans[i].end - spans[i].start
  OBVIOUS
<1>. HIDE DEF S, v
<1>5. \A f : Solves(f) <=> Sums(f, S, v)
  <2>. SUFFICES ASSUME NEW f PROVE Solves(f) <=> Sums(f, S, v)
    OBVIOUS
  <2>1. \A s \in SUBSET S : s # {} => (CHOOSE x \in s : TRUE) \in DOMAIN spans
    BY <1>3
  <2>2. \A s \in SUBSET S : s # {} =>
            v[CHOOSE x \in s : TRUE] =
               spans[CHOOSE x \in s : TRUE].end - spans[CHOOSE x \in s : TRUE].start
    BY <1>4, <2>1
  <2>. QED
    BY <2>2 DEF Sums
<1>6. (\E f : Sums(f, S, v)) /\ \A f : Sums(f, S, v) => f[S] \in Nat
  BY <1>2, <1>3, SumIsNat
<1>. HIDE DEF Solves
<1>7. Solves(sum)
  BY <1>5, <1>6
<1>. QED
  BY <1>1, <1>5, <1>6, <1>7

\* Resources in the order of their load are all of them.
LEMMA OrderedExact ==
    ASSUME NEW fits \in SUBSET Resources, NEW load, \A r \in fits : load[r] \in Nat
    PROVE  /\ InOrder(fits, load) \in Seq(fits)
           /\ \A r \in fits : \E k \in DOMAIN InOrder(fits, load) : InOrder(fits, load)[k] = r
<1>. DEFINE before(a, b) == load[a] < load[b] \/ (load[a] = load[b] /\ a < b)
            one(s) == CHOOSE r \in s : \A q \in s : ~before(q, r)
            D == SUBSET fits
            W == [s \in D |-> {x \in Seq(fits) : /\ \A k \in DOMAIN x : x[k] \in s
                                                 /\ \A r \in s : \E k \in DOMAIN x : x[k] = r}]
            m == [s \in D |-> Cardinality(s)]
            V == UNION {W[s] : s \in D}
            G == [p \in D \X [D -> V] |->
                    IF p[1] = {} THEN <<>> ELSE <<one(p[1])>> \o p[2][p[1] \ {one(p[1])}]]
            Solves(f) == f = [s \in D |-> IF s = {} THEN <<>> ELSE <<one(s)>> \o f[s \ {one(s)}]]
            from == CHOOSE f : Solves(f)
<1>1. InOrder(fits, load) = from[fits]
  BY Zenon DEF InOrder
<1>2. fits \subseteq Nat /\ IsFiniteSet(fits)
  BY EngineConstants, FS_Subset
<1>3. \A s \in D : IsFiniteSet(s) /\ m[s] = Cardinality(s) /\ m[s] \in Nat
  BY <1>2, FS_Subset, FS_CardinalityType
<1>4. ASSUME NEW s \in D, s # {}
      PROVE  one(s) \in s
  <2>. DEFINE loads == {load[r] : r \in s}
              least == {r \in s : \A q \in s : load[r] <= load[q]}
  <2>1. loads \in SUBSET Nat /\ loads # {}
    BY <1>4
  <2>2. PICK n \in loads : \A k \in loads : n <= k
    BY <2>1, LeastNumber
  <2>3. least \in SUBSET Nat /\ least # {}
    <3>1. PICK r \in s : n = load[r]
      BY <2>2
    <3>2. \A q \in s : load[q] \in loads
      OBVIOUS
    <3>3. r \in least
      BY <2>2, <3>1, <3>2
    <3>4. s \in SUBSET Nat
      BY <1>2
    <3>. QED
      BY <3>3, <3>4
  <2>4. PICK r \in least : \A q \in least : r <= q
    BY <2>3, LeastNumber
  <2>5. r \in s /\ \A q \in s : ~before(q, r)
    <3>. SUFFICES ASSUME NEW q \in s PROVE ~before(q, r)
      BY <2>4
    <3>1. load[r] \in Nat /\ load[q] \in Nat /\ load[r] <= load[q] /\ r \in Nat /\ q \in Nat
      BY <1>2, <2>4
    <3>2. load[q] = load[r] => q \in least
      <4>1. load[q] = load[r] => \A x \in s : load[q] <= load[x]
        BY <2>4
      <4>. QED
        BY <4>1
    <3>3. load[q] = load[r] => r <= q
      BY <2>4, <3>2
    <3>. QED
      BY <3>1, <3>3
  <2>. HIDE DEF before
  <2>. QED
    BY <2>5
<1>. HIDE DEF before, one
<1>5. \A s \in D : s # {} => one(s) \in s /\ one(s) \in fits /\ s \ {one(s)} \in D
  BY <1>4
<1>6. \A s \in D : s # {} => m[s \ {one(s)}] < m[s]
  <2>. SUFFICES ASSUME NEW s \in D, s # {} PROVE m[s \ {one(s)}] < m[s]
    OBVIOUS
  <2>1. Cardinality(s \ {one(s)}) = Cardinality(s) - 1
    BY <1>3, <1>5, FS_RemoveElement
  <2>2. m[s] = Cardinality(s) /\ m[s] \in Nat /\ m[s \ {one(s)}] = Cardinality(s \ {one(s)})
    BY <1>3, <1>5
  <2>. HIDE DEF m
  <2>. QED
    BY <2>1, <2>2
<1>7. m \in [D -> Nat]
  BY <1>3
<1>8. \A s \in D, f \in [D -> V] :
          G[<<s, f>>] = IF s = {} THEN <<>> ELSE <<one(s)>> \o f[s \ {one(s)}]
  <2>1. \A s \in D, f \in [D -> V] : <<s, f>> \in D \X [D -> V]
    OBVIOUS
  <2>. HIDE DEF D, V
  <2>. QED
    BY <2>1
<1>9. \A s \in D : \A x : x \in W[s] <=> /\ x \in Seq(fits)
                                         /\ \A k \in DOMAIN x : x[k] \in s
                                         /\ \A r \in s : \E k \in DOMAIN x : x[k] = r
  OBVIOUS
<1>10. {} \in D /\ fits \in D
  OBVIOUS
<1>11. <<>> \in W[{}]
  BY <1>9, <1>10
<1>12. ASSUME NEW s \in D, s # {}, NEW x \in W[s \ {one(s)}]
       PROVE  <<one(s)>> \o x \in W[s]
  <2>. DEFINE r == one(s)
              y == <<r>> \o x
  <2>1. r \in s /\ r \in fits /\ s \ {r} \in D
    BY <1>5, <1>12
  <2>. HIDE DEF r
  <2>2. /\ x \in Seq(fits)
        /\ \A k \in DOMAIN x : x[k] \in s \ {r}
        /\ \A q \in s \ {r} : \E k \in DOMAIN x : x[k] = q
    BY <1>9, <1>12, <2>1 DEF r
  <2>3. /\ y \in Seq(fits) /\ DOMAIN y = 1..Len(x) + 1 /\ y[1] = r
        /\ \A k \in DOMAIN x : k + 1 \in DOMAIN y /\ y[k + 1] = x[k]
        /\ \A k \in DOMAIN y : k = 1 \/ (k - 1 \in DOMAIN x /\ y[k] = x[k - 1])
        /\ 1 \in DOMAIN y
    BY <2>1, <2>2
  <2>. HIDE DEF y
  <2>4. \A k \in DOMAIN y : y[k] \in s
    BY <2>1, <2>2, <2>3
  <2>5. \A q \in s : \E k \in DOMAIN y : y[k] = q
    <3>. SUFFICES ASSUME NEW q \in s PROVE \E k \in DOMAIN y : y[k] = q
      OBVIOUS
    <3>1. CASE q = r
      BY <2>3, <3>1
    <3>2. CASE q # r
      <4>1. PICK k \in DOMAIN x : x[k] = q
        BY <2>2, <3>2
      <4>. QED
        BY <2>3, <4>1
    <3>. QED
      BY <3>1, <3>2
  <2>6. y \in W[s]
    BY <1>9, <2>3, <2>4, <2>5
  <2>. QED
    BY <2>6 DEF y, r
<1>13. \A s \in D : W[s] # {}
  <2>. DEFINE P == {s \in D : W[s] # {}}
  <2>1. ASSUME NEW s \in D, \A y \in D : m[y] < m[s] => y \in P
        PROVE  s \in P
    <3>1. CASE s = {}
      BY <1>11, <3>1
    <3>2. CASE s # {}
      <4>1. PICK x : x \in W[s \ {one(s)}]
        BY <1>5, <1>6, <2>1, <3>2
      <4>2. <<one(s)>> \o x \in W[s]
        BY <1>12, <3>2, <4>1
      <4>. QED
        BY <4>2
    <3>. QED
      BY <3>1, <3>2
  <2>2. \A s \in D : s \in P
    <3>. HIDE DEF P, W, m, D
    <3>. QED
      BY <1>7, <2>1, ByMeasure
  <2>. QED
    BY <2>2
<1>. HIDE DEF D, W, m, V, G
<1>14. \A f \in Into(D, W) : f \in [D -> V] /\ \A s \in D : f[s] \in W[s]
  BY DEF Into, V
<1>15. \A s \in D, f \in Into(D, W) : G[<<s, f>>] \in W[s]
  <2>. SUFFICES ASSUME NEW s \in D, NEW f \in Into(D, W) PROVE G[<<s, f>>] \in W[s]
    OBVIOUS
  <2>1. f \in [D -> V] /\ \A t \in D : f[t] \in W[t]
    BY <1>14
  <2>2. G[<<s, f>>] = IF s = {} THEN <<>> ELSE <<one(s)>> \o f[s \ {one(s)}]
    BY <1>8, <2>1
  <2>3. CASE s = {}
    BY <1>11, <2>2, <2>3
  <2>4. CASE s # {}
    <3>1. f[s \ {one(s)}] \in W[s \ {one(s)}]
      BY <1>5, <2>1, <2>4
    <3>. QED
      BY <1>12, <2>2, <2>4, <3>1
  <2>. QED
    BY <2>3, <2>4
<1>16. \A s \in D, f \in Into(D, W), g \in Into(D, W) :
          (\A y \in D : m[y] < m[s] => f[y] = g[y]) => G[<<s, f>>] = G[<<s, g>>]
  <2>. SUFFICES ASSUME NEW s \in D, NEW f \in Into(D, W), NEW g \in Into(D, W),
                       \A y \in D : m[y] < m[s] => f[y] = g[y]
                PROVE  G[<<s, f>>] = G[<<s, g>>]
    OBVIOUS
  <2>1. f \in [D -> V] /\ g \in [D -> V]
    BY <1>14
  <2>2. s # {} => f[s \ {one(s)}] = g[s \ {one(s)}]
    BY <1>5, <1>6
  <2>. QED
    BY <1>8, <2>1, <2>2
<1>17. PICK f \in Into(D, W) : \A s \in D : f[s] = G[<<s, f>>]
  <2>1. LooksBelow(D, W, m, G)
    BY <1>7, <1>13, <1>15, <1>16 DEF LooksBelow
  <2>. QED
    BY <2>1, RecursionInto
<1>18. Solves(f)
  <2>1. \A s \in D : f[s] = IF s = {} THEN <<>> ELSE <<one(s)>> \o f[s \ {one(s)}]
    BY <1>8, <1>14, <1>17
  <2>2. f = [s \in D |-> f[s]]
    BY <1>14
  <2>. QED
    BY <2>1, <2>2
<1>19. Solves(from)
  <2>. HIDE DEF Solves
  <2>. QED
    BY <1>18
<1>. HIDE DEF from
<1>20. \A s \in D : from[s] = IF s = {} THEN <<>> ELSE <<one(s)>> \o from[s \ {one(s)}]
  BY <1>19
<1>21. \A s \in D : from[s] \in W[s]
  <2>. DEFINE P == {s \in D : from[s] \in W[s]}
  <2>1. ASSUME NEW s \in D, \A y \in D : m[y] < m[s] => y \in P
        PROVE  s \in P
    <3>1. CASE s = {}
      BY <1>11, <1>20, <3>1
    <3>2. CASE s # {}
      <4>1. from[s \ {one(s)}] \in W[s \ {one(s)}]
        BY <1>5, <1>6, <2>1, <3>2
      <4>. QED
        BY <1>12, <1>20, <3>2, <4>1
    <3>. QED
      BY <3>1, <3>2
  <2>2. \A s \in D : s \in P
    <3>. HIDE DEF P
    <3>. QED
      BY <1>7, <2>1, ByMeasure
  <2>. QED
    BY <2>2
<1>. QED
  BY <1>1, <1>9, <1>10, <1>21

\* A booking that stands holds resources for a span of time.
RowRight(k) ==
    /\ k.crew \subseteq Resources /\ k.crew # {}
    /\ k.from \in Int /\ k.to \in Int /\ k.from < k.to

RowsRight(of) ==
    /\ of = [b \in Ids |-> of[b]]
    /\ \A b \in Ids : of[b] # None => RowRight(of[b])

\* The spans a resource is busy are those of the bookings it serves, in order.
LEMMA BusyExact ==
    ASSUME NEW of, RowsRight(of), NEW r
    PROVE  /\ BusyOf(r, of) \in Seq(Spans)
           /\ Rising(BusyOf(r, of)) /\ Real(BusyOf(r, of))
           /\ \A i \in DOMAIN BusyOf(r, of) : \E b \in Ids :
                /\ of[b] # None /\ r \in of[b].crew
                /\ BusyOf(r, of)[i] = Interval(of[b].from, of[b].to)
           /\ \A b \in Ids : of[b] # None /\ r \in of[b].crew =>
                \E i \in DOMAIN BusyOf(r, of) : BusyOf(r, of)[i] = Interval(of[b].from, of[b].to)
<1>. DEFINE held(b) == of[b] # None /\ r \in of[b].crew
            span(b) == Interval(of[b].from, of[b].to)
            lists == [b \in DOMAIN of |-> IF held(b) THEN <<span(b)>> ELSE <<>>]
            all == Concatenated(lists)
            s == Sorted(all)
            n == Cardinality(Ids)
<1>1. DOMAIN of = Ids /\ n \in Nat /\ Ids = 1..n
  BY CalendarConstants, FS_CardinalityType DEF RowsRight
<1>2. \A b \in Ids : held(b) => /\ span(b) \in Spans
                                /\ span(b).start \in Int /\ span(b).end \in Int
                                /\ span(b).start < span(b).end
  BY DEF RowsRight, RowRight, Interval, Spans
<1>3. BusyOf(r, of) = s
  BY DEF BusyOf
<1>. HIDE DEF span, n
<1>4. /\ DOMAIN lists = 1..n /\ Len(lists) = n
      /\ \A b \in Ids : lists[b] = IF held(b) THEN <<span(b)>> ELSE <<>>
  BY <1>1
<1>. HIDE DEF held, lists
<1>5. \A b \in Ids : lists[b] \in Seq(Spans)
  <2>. SUFFICES ASSUME NEW b \in Ids PROVE lists[b] \in Seq(Spans)
    OBVIOUS
  <2>1. CASE held(b)
    <3>1. lists[b] = <<span(b)>>
      BY <1>4, <2>1, Zenon
    <3>. QED
      BY <1>2, <2>1, <3>1
  <2>2. CASE ~held(b)
    <3>1. lists[b] = <<>>
      BY <1>4, <2>2, Zenon
    <3>. QED
      BY <3>1
  <2>. QED
    BY <2>1, <2>2
<1>6. lists \in Seq(Seq(Spans))
  <2>1. lists = [b \in 1..n |-> lists[b]]
    BY <1>1 DEF lists
  <2>. QED
    BY <1>1, <1>5, <2>1
<1>7. /\ all \in Seq(Spans)
      /\ \A p \in DOMAIN all : \E b \in Ids : \E k \in DOMAIN lists[b] : all[p] = lists[b][k]
      /\ \A b \in Ids : \A k \in DOMAIN lists[b] : \E p \in DOMAIN all : all[p] = lists[b][k]
  <2>1. DOMAIN lists = Ids
    BY <1>1, <1>4
  <2>2. /\ all \in Seq(Spans)
        /\ \A p \in DOMAIN all : \E i \in DOMAIN lists : \E k \in DOMAIN lists[i] :
              all[p] = lists[i][k]
        /\ \A i \in DOMAIN lists : \A k \in DOMAIN lists[i] : \E p \in DOMAIN all :
              all[p] = lists[i][k]
    BY <1>6, ConcatExact, Zenon
  <2>. HIDE DEF all
  <2>. QED
    BY <2>1, <2>2
<1>. HIDE DEF all
<1>8. \A p \in DOMAIN all : \E b \in Ids : held(b) /\ all[p] = span(b)
  <2>. SUFFICES ASSUME NEW p \in DOMAIN all PROVE \E b \in Ids : held(b) /\ all[p] = span(b)
    OBVIOUS
  <2>1. PICK b \in Ids : \E k \in DOMAIN lists[b] : all[p] = lists[b][k]
    BY <1>7
  <2>2. PICK k \in DOMAIN lists[b] : all[p] = lists[b][k]
    BY <2>1
  <2>3. held(b)
    <3>1. SUFFICES ASSUME ~held(b) PROVE FALSE
      OBVIOUS
    <3>2. lists[b] = <<>>
      BY <1>4, <3>1, Zenon
    <3>. QED
      BY <2>2, <3>2
  <2>4. lists[b] = <<span(b)>>
    BY <1>4, <2>3, Zenon
  <2>. QED
    BY <2>2, <2>3, <2>4
<1>9. \A b \in Ids : held(b) => \E p \in DOMAIN all : all[p] = span(b)
  <2>. SUFFICES ASSUME NEW b \in Ids, held(b) PROVE \E p \in DOMAIN all : all[p] = span(b)
    OBVIOUS
  <2>1. lists[b] = <<span(b)>>
    BY <1>4, Zenon
  <2>2. 1 \in DOMAIN lists[b] /\ lists[b][1] = span(b)
    BY <2>1
  <2>. QED
    BY <1>7, <2>2
<1>10. Real(all)
  BY <1>2, <1>8 DEF Real
<1>11. /\ s \in Seq(Spans) /\ Rising(s) /\ Real(s)
       /\ \A i \in DOMAIN s : \E k \in DOMAIN all : s[i] = all[k]
       /\ \A k \in DOMAIN all : \E i \in DOMAIN s : s[i] = all[k]
  BY <1>7, <1>10, SortedKeeps
<1>. HIDE DEF s
<1>12. \A i \in DOMAIN s : \E b \in Ids : held(b) /\ s[i] = span(b)
  BY <1>8, <1>11
<1>13. \A b \in Ids : held(b) => \E i \in DOMAIN s : s[i] = span(b)
  BY <1>9, <1>11
<1>14. \A i \in DOMAIN s : \E b \in Ids :
          /\ of[b] # None /\ r \in of[b].crew
          /\ s[i] = Interval(of[b].from, of[b].to)
  BY <1>12 DEF held, span
<1>15. \A b \in Ids : of[b] # None /\ r \in of[b].crew =>
          \E i \in DOMAIN s : s[i] = Interval(of[b].from, of[b].to)
  BY <1>13 DEF held, span
<1>. QED
  BY <1>3, <1>11, <1>14, <1>15

\* What an index holds.
LEMMA IndexHolds ==
    ASSUME NEW in, in.svc \in Services, NEW range, NEW open
    PROVE  LET index == IndexOver(in, range, open)
               needs == Offer[in.svc].needs
           IN  /\ index.in = in /\ index.range = range /\ index.locationWindows = open
               /\ index.appointmentWindows = Within(Offer[in.svc].plan, Around(range), in.zone, open)
               /\ index.earliest = in.now + Offer[in.svc].notice
               /\ index.latest = LocalDateOf(in.now, in.zone) + Offer[in.svc].horizon
               /\ DOMAIN index.pools = DOMAIN needs
               /\ \A i \in DOMAIN needs :
                    index.pools[i] = {r \in Resources : IsEligible(r, needs[i], in.svc, in.offers)}
               /\ \A i \in DOMAIN needs : \A r \in index.pools[i] :
                    index.timelines[r] = Timeline(Within(in.own[r], Around(range), in.zone, open),
                                                  BusyOf(r, in.bookings))
<1>. DEFINE needs == Offer[in.svc].needs
            pool(i) == {r \in Resources : IsEligible(r, needs[i], in.svc, in.offers)}
            pools == [i \in DOMAIN needs |-> pool(i)]
            asked == {q \in Resources : \E i \in DOMAIN needs : needs[i].kind = Setup[q].kind}
            line(r) == Timeline(Within(in.own[r], Around(range), in.zone, open),
                                BusyOf(r, in.bookings))
            lines == [r \in asked |-> line(r)]
            index == IndexOver(in, range, open)
<1>1. /\ index.in = in /\ index.range = range /\ index.locationWindows = open
      /\ index.appointmentWindows = Within(Offer[in.svc].plan, Around(range), in.zone, open)
      /\ index.earliest = in.now + Offer[in.svc].notice
      /\ index.latest = LocalDateOf(in.now, in.zone) + Offer[in.svc].horizon
  BY DEF IndexOver
<1>2. index.pools = Table(pools)
  BY DEF IndexOver
<1>3. index.timelines = Table(lines)
  BY DEF IndexOver, Timelines
<1>4. /\ DOMAIN Table(pools) = DOMAIN needs
      /\ \A i \in DOMAIN needs : Table(pools)[i] = pool(i)
  <2>1. DOMAIN pools = DOMAIN needs /\ \A i \in DOMAIN needs : pools[i] = pool(i)
    OBVIOUS
  <2>. HIDE DEF pools, pool
  <2>. QED
    BY <2>1, TableIs
<1>5. \A r \in asked : Table(lines)[r] = line(r)
  <2>1. DOMAIN lines = asked /\ \A r \in asked : lines[r] = line(r)
    OBVIOUS
  <2>. HIDE DEF lines, line, asked
  <2>. QED
    BY <2>1, TableIs
<1>6. \A i \in DOMAIN needs : \A r \in pool(i) : r \in asked
  BY DEF IsEligible, Meets
<1>. QED
  BY <1>1, <1>2, <1>3, <1>4, <1>5, <1>6

\* The candidates for a need are those of its pool that are free and large enough.
LEMMA CandidatesExact ==
    ASSUME NEW in, in.svc \in Services, RowsRight(in.bookings), NEW range, NEW open,
           NEW i \in DOMAIN Offer[in.svc].needs, NEW occupied, NEW people, NEW date
    PROVE  LET index == IndexOver(in, range, open)
               list == CandidatesFor(index, i, occupied, people, date)
           IN  /\ list \in Seq(Resources)
               /\ \A r : (\E k \in DOMAIN list : list[k] = r) <=>
                     /\ r \in index.pools[i]
                     /\ IsFreeFor(index.timelines[r], occupied)
                     /\ ~IsTooSmall(r, people)
<1>. DEFINE index == IndexOver(in, range, open)
            pool == index.pools[i]
            fits == {r \in pool : IsFreeFor(index.timelines[r], occupied) /\ ~IsTooSmall(r, people)}
            load == [r \in pool |-> LoadOf(index.timelines[r].busy, date, index.in.zone)]
            list == InOrder(fits, load)
<1>1. CandidatesFor(index, i, occupied, people, date) = list
  BY DEF CandidatesFor
<1>2. /\ pool \subseteq Resources
      /\ \A r \in pool : index.timelines[r].busy = BusyOf(r, in.bookings)
  <2>1. /\ pool = {r \in Resources : IsEligible(r, Offer[in.svc].needs[i], in.svc, in.offers)}
        /\ \A r \in pool : index.timelines[r] = Timeline(Within(in.own[r], Around(range), in.zone, open),
                                                        BusyOf(r, in.bookings))
    BY IndexHolds
  <2>2. \A free, busy : Timeline(free, busy).busy = busy
    BY DEF Timeline
  <2>3. pool \subseteq Resources
    BY <2>1
  <2>. HIDE DEF index
  <2>. QED
    BY <2>1, <2>2, <2>3
<1>. HIDE DEF index
<1>3. \A r \in pool : load[r] \in Nat
  <2>. SUFFICES ASSUME NEW r \in pool PROVE load[r] \in Nat
    OBVIOUS
  <2>1. index.timelines[r].busy \in Seq(Spans) /\ Real(index.timelines[r].busy)
    BY <1>2, BusyExact
  <2>2. load[r] = LoadOf(index.timelines[r].busy, date, index.in.zone)
    OBVIOUS
  <2>. HIDE DEF load
  <2>. QED
    BY <2>1, <2>2, LoadIsNat
<1>4. fits \in SUBSET Resources /\ \A r \in fits : load[r] \in Nat
  BY <1>2, <1>3
<1>5. \A r : r \in fits <=> /\ r \in pool /\ IsFreeFor(index.timelines[r], occupied)
                            /\ ~IsTooSmall(r, people)
  OBVIOUS
<1>. HIDE DEF fits, load, pool
<1>6. list \in Seq(fits) /\ \A r \in fits : \E k \in DOMAIN list : list[k] = r
  BY <1>4, OrderedExact, SMTT(30)
<1>. HIDE DEF list
<1>7. list \in Seq(Resources) /\ \A k \in DOMAIN list : list[k] \in fits
  BY <1>4, <1>6
<1>. QED
  BY <1>1, <1>5, <1>6, <1>7 DEF index, pool

\* The demands are lists of resources, and there are some.
LEMMA DemandsType ==
    ASSUME NEW in, in.svc \in Services, RowsRight(in.bookings), NEW range, NEW open,
           NEW occupied, NEW people, NEW date
    PROVE  LET demands == Demands(IndexOver(in, range, open), occupied, people, date)
           IN  demands \in Seq(Seq(Resources)) /\ DOMAIN demands # {}
<1>. DEFINE index == IndexOver(in, range, open)
            needs == Offer[in.svc].needs
            row(i) == CandidatesFor(index, i, occupied, people, date)
            units(i) == [unit \in 1..needs[i].count |-> row(i)]
            lists == [i \in DOMAIN needs |-> units(i)]
            all == Concatenated(lists)
<1>1. Demands(index, occupied, people, date) = all
  <2>1. index.in = in
    BY IndexHolds
  <2>. HIDE DEF index
  <2>. QED
    BY <2>1 DEF Demands
<1>2. /\ Len(needs) \in Nat \ {0} /\ DOMAIN needs = 1..Len(needs)
      /\ \A i \in DOMAIN needs : needs[i].count \in Nat \ {0}
  BY EngineConstants
<1>3. \A i \in DOMAIN needs : row(i) \in Seq(Resources)
  BY CandidatesExact
<1>. HIDE DEF row, needs
<1>4. \A i \in DOMAIN needs : units(i) \in Seq(Seq(Resources)) /\ 1 \in DOMAIN units(i)
  BY <1>2, <1>3
<1>. HIDE DEF units
<1>5. lists \in Seq(Seq(Seq(Resources))) /\ 1 \in DOMAIN lists /\ 1 \in DOMAIN lists[1]
  BY <1>2, <1>4
<1>. HIDE DEF lists
<1>6. /\ all \in Seq(Seq(Resources))
      /\ \A i \in DOMAIN lists : \A k \in DOMAIN lists[i] : \E p \in DOMAIN all :
            all[p] = lists[i][k]
  BY <1>5, ConcatExact, Zenon
<1>. HIDE DEF all
<1>7. DOMAIN all # {}
  BY <1>5, <1>6
<1>. QED
  BY <1>1, <1>6, <1>7

\* A slot that is planned has resources to serve it.
LEMMA CrewRight ==
    ASSUME NEW in, in.svc \in Services, RowsRight(in.bookings),
           NEW start, NEW people, AssessAlone(in, start, people).ok
    PROVE  LET crew == AssessAlone(in, start, people).crew
           IN  crew \subseteq Resources /\ crew # {}
<1>. DEFINE day == LocalDateOf(start, in.zone)
            range == [from |-> day, to |-> day]
            open == WindowsForRange(in.opening, Around(range), in.zone)
            index == IndexOver(in, range, open)
            slot == AssessAlone(in, start, people)
            session == SessionsAt(in.svc, start, in.bookings)
            demands(date) == Demands(index, Occupied(in.svc, start), people, date)
<1>1. slot = AssessSlot(index, start, people)
  BY DEF AssessAlone, DayIndex, BuildIndex
<1>2. index.in = in
  BY IndexHolds
<1>3. \A date : demands(date) \in Seq(Seq(Resources)) /\ DOMAIN demands(date) # {}
  BY DemandsType
<1>. HIDE DEF index
<1>4. PICK date : slot = AssessOn(index, start, people, date)
  BY <1>1 DEF AssessSlot
<1>5. \A why : Rejected(why).ok = FALSE
  BY DEF Rejected
<1>6. \/ session # {} /\ slot = AssessSession(index, session, people)
      \/ slot = AssessNew(index, Occupied(in.svc, start), people, date)
  <2>1. slot.ok
    OBVIOUS
  <2>. HIDE DEF slot
  <2>. QED
    BY <1>2, <1>4, <1>5, <2>1 DEF AssessOn
<1>. HIDE DEF slot
<1>7. slot.ok
  BY DEF slot
<1>8. CASE session # {} /\ slot = AssessSession(index, session, people)
  <2>. DEFINE b == CHOOSE b \in session : TRUE
  <2>1. b \in session
    BY <1>8
  <2>2. DOMAIN in.bookings = Ids
    BY DEF RowsRight
  <2>3. b \in Ids /\ in.bookings[b] # None
    <3>. HIDE DEF b
    <3>. QED
      BY <2>1, <2>2 DEF SessionsAt
  <2>4. slot.crew = in.bookings[b].crew
    BY <1>2, <1>5, <1>7, <1>8 DEF AssessSession, Planned
  <2>. HIDE DEF b
  <2>. QED
    BY <2>3, <2>4 DEF RowsRight, RowRight, slot
<1>9. CASE slot = AssessNew(index, Occupied(in.svc, start), people, date)
  <2>. DEFINE ds == demands(date)
              crew == MatchResources(ds)
  <2>1. ds \in Seq(Seq(Resources)) /\ DOMAIN ds # {}
    BY <1>3
  <2>2. crew # None /\ slot.crew = crew
    <3>. HIDE DEF ds
    <3>1. \E seen : slot = Assigned(in.svc, crew, seen)
      BY <1>2, <1>9 DEF AssessNew, ds
    <3>. HIDE DEF crew
    <3>. QED
      BY <1>5, <1>7, <3>1 DEF Assigned, Planned
  <2>. HIDE DEF ds
  <2>3. PICK g \in Ways(ds) : crew = Range(g)
    <3>1. IF Ways(ds) = {} THEN MatchResources(ds) = None
          ELSE \E g \in Ways(ds) : MatchResources(ds) = Range(g)
      BY <2>1, MatchIsExact
    <3>. QED
      BY <2>2, <3>1
  <2>4. g \in [DOMAIN ds -> Wanted(ds)]
    BY DEF Ways, Injection
  <2>5. Wanted(ds) \subseteq Resources
    BY <2>1, DemandsBounded
  <2>6. Range(g) \subseteq Resources /\ Range(g) # {}
    BY <2>1, <2>4, <2>5 DEF Range
  <2>. QED
    BY <2>2, <2>3, <2>6 DEF slot
<1>. QED
  BY <1>6, <1>8, <1>9

\* Rows of times that are whole numbers.
LEMMA RowsAreRight ==
    ASSUME NEW b, NEW svc \in Services, NEW start \in Int, NEW people,
           NEW crew, crew \subseteq Resources, crew # {}
    PROVE  RowRight(Row(b, svc, start, people, crew))
<1>. DEFINE o == Offer[svc]
<1>1. o.duration \in Nat \ {0} /\ o.prep \in Nat /\ o.cleanup \in Nat
  BY EngineConstants
<1>. HIDE DEF o
<1>2. /\ start - o.prep \in Int /\ start + o.duration + o.cleanup \in Int
      /\ start - o.prep < start + o.duration + o.cleanup
  BY <1>1
<1>. QED
  BY <1>2 DEF Row, RowRight, Occupied, Interval, o

\* Each booking is of a service.
ServicesRight == \A b \in Ids : bookings[b] # None => bookings[b].svc \in Services

\* What is placed is a booking.
LEMMA PlacedRight ==
    ASSUME RowsRight(bookings), ServicesRight, NEW b \in Ids, NEW svc \in Services, NEW start \in Int,
           NEW people, NEW of, RowsRight(of), NEW in, in.svc = svc, in.bookings = of,
           Place(b, svc, start, people, AssessAlone(in, start, people))
    PROVE  RowsRight(bookings') /\ ServicesRight'
<1>. DEFINE slot == AssessAlone(in, start, people)
            row == Row(b, svc, start, people, slot.crew)
<1>1. slot.ok /\ bookings' = [bookings EXCEPT ![b] = row]
  BY DEF Place
<1>2. slot.crew \subseteq Resources /\ slot.crew # {}
  BY <1>1, CrewRight
<1>3. RowRight(row) /\ row.svc = svc
  <2>. HIDE DEF slot
  <2>1. RowRight(row)
    BY <1>2, RowsAreRight
  <2>. QED
    BY <2>1 DEF Row
<1>. HIDE DEF row
<1>4. bookings = [c \in Ids |-> bookings[c]]
  BY DEF RowsRight
<1>5. /\ bookings' = [c \in Ids |-> bookings'[c]]
      /\ \A c \in Ids : bookings'[c] = IF c = b THEN row ELSE bookings[c]
  BY <1>1, <1>4
<1>. QED
  BY <1>3, <1>5 DEF RowsRight, ServicesRight

\* Bookings stay bookings.
LEMMA BookingsStay == Spec => [](RowsRight(bookings) /\ ServicesRight)
<1>1. Init => RowsRight(bookings) /\ ServicesRight
  BY DEF Init, RowsRight, ServicesRight
<1>2. RowsRight(bookings) /\ ServicesRight /\ [Next]_vars => RowsRight(bookings)' /\ ServicesRight'
  <2>. SUFFICES ASSUME RowsRight(bookings), ServicesRight, [Next]_vars
                PROVE  RowsRight(bookings') /\ ServicesRight'
    OBVIOUS
  <2>1. CASE UNCHANGED bookings
    BY <2>1 DEF RowsRight, ServicesRight
  <2>2. \A t \in Starts : t \in Int
    <3>1. Min(Days) \in Nat /\ Max(Days) \in Nat
      BY CalendarConstants, Extremes
    <3>2. Instants \subseteq Int
      BY <3>1, DayIsReal DEF Instants
    <3>. QED
      BY <3>2 DEF Starts
  <2>3. \A b \in Ids : RowsRight([bookings EXCEPT ![b] = None])
    <3>. SUFFICES ASSUME NEW b \in Ids PROVE RowsRight([bookings EXCEPT ![b] = None])
      OBVIOUS
    <3>. DEFINE next == [bookings EXCEPT ![b] = None]
    <3>1. bookings = [c \in Ids |-> bookings[c]]
      BY DEF RowsRight
    <3>2. /\ next = [c \in Ids |-> next[c]]
          /\ \A c \in Ids : next[c] # None => next[c] = bookings[c] /\ bookings[c] # None
      BY <3>1
    <3>. HIDE DEF next
    <3>3. RowsRight(next)
      BY <3>2 DEF RowsRight
    <3>. QED
      BY <3>3 DEF next
  <2>4. ASSUME NEW b \in Ids, NEW svc \in Services, NEW start \in Starts, NEW people \in 1..MaxGroup,
               Book(b, svc, start, people)
        PROVE  RowsRight(bookings') /\ ServicesRight'
    <3>. DEFINE in == Asked(svc, bookings)
    <3>1. in.svc = svc /\ in.bookings = bookings
      BY DEF Asked
    <3>2. Place(b, svc, start, people, AssessAlone(in, start, people))
      BY <2>4 DEF Book
    <3>. HIDE DEF in
    <3>. QED
      BY <2>2, <3>1, <3>2, PlacedRight
  <2>5. ASSUME NEW b \in Ids, NEW start \in Starts, Move(b, start)
        PROVE  RowsRight(bookings') /\ ServicesRight'
    <3>. DEFINE k == bookings[b]
                of == [bookings EXCEPT ![b] = None]
                in == Asked(k.svc, of)
    <3>1. in.svc = k.svc /\ in.bookings = of
      BY DEF Asked
    <3>2. k # None /\ Place(b, k.svc, start, k.people, AssessAlone(in, start, k.people))
      BY <2>5 DEF Move
    <3>3. k.svc \in Services /\ RowsRight(of)
      BY <2>3, <3>2 DEF ServicesRight
    <3>. HIDE DEF in, k, of
    <3>. QED
      BY <2>2, <3>1, <3>2, <3>3, PlacedRight
  <2>6. ASSUME NEW b \in Ids, Cancel(b)
        PROVE  RowsRight(bookings') /\ ServicesRight'
    <3>1. bookings' = [bookings EXCEPT ![b] = None]
      BY <2>6 DEF Cancel
    <3>2. bookings = [c \in Ids |-> bookings[c]]
      BY DEF RowsRight
    <3>3. \A c \in Ids : bookings'[c] # None => bookings'[c] = bookings[c] /\ bookings[c] # None
      BY <3>1, <3>2
    <3>4. ServicesRight'
      BY <3>3 DEF ServicesRight
    <3>. QED
      BY <2>3, <3>1, <3>4
  <2>7. \/ UNCHANGED bookings
        \/ \E b \in Ids, svc \in Services, start \in Starts, people \in 1..MaxGroup :
              Book(b, svc, start, people)
        \/ \E b \in Ids, start \in Starts : Move(b, start)
        \/ \E b \in Ids : Cancel(b)
    BY DEF Next, SaveHours, Except, Choose, vars
  <2>. QED
    BY <2>1, <2>4, <2>5, <2>6, <2>7
<1>. QED
  BY <1>1, <1>2, PTL DEF Spec

\* Hours, bookings and the weeks of employees are right: no employee's week reaches beyond
\* what employees may work, and cutting a week takes nothing from it that lies inside
\* (replaceLocation, retargetedWeek, clipToFrame).
THEOREM WeeksAlwaysFit == Spec => []WeeksCutToFit
<1>1. PlansRight /\ WeeksInside /\ RowsRight(bookings) => WeeksCutToFit
  <2>. SUFFICES ASSUME PlansRight, WeeksInside, RowsRight(bookings) PROVE WeeksCutToFit
    OBVIOUS
  <2>1. TypeOK
    BY DEF TypeOK, PlansRight, RowsRight, RowRight
  <2>2. ASSUME NEW r \in Resources, NEW frame \in Hours, own[r] # None,
               NEW weekday \in 0..Week - 1, NEW minute \in 0..Day - 1
        PROVE  Opens(ClipToFrame(own[r], frame).weekly[weekday], minute) <=>
                    /\ Opens(own[r].weekly[weekday], minute)
                    /\ Opens([frame.weekly[weekday] EXCEPT !.breaks = <<>>], minute)
    <3>. DEFINE day == frame.weekly[weekday]
                open == [day EXCEPT !.breaks = <<>>]
    <3>1. IsPlan(own[r]) /\ IsPlan(frame)
      BY <2>2, CalendarConstants DEF PlansRight
    <3>2. minute \in Int
      BY DayIsReal
    <3>3. Opens(ClipToFrame(own[r], frame).weekly[weekday], minute) <=>
             /\ Opens(own[r].weekly[weekday], minute)
             /\ Covers(day.intervals, minute)
      BY <3>1, <3>2, PlanCut
    <3>4. day \in DayHours
      BY <3>1 DEF IsPlan
    <3>5. open.intervals = day.intervals /\ open.breaks = <<>>
      BY <3>4 DEF DayHours
    <3>. HIDE DEF open, day
    <3>6. Opens(open, minute) <=> Covers(open.intervals, minute) /\ ~Covers(open.breaks, minute)
      BY OpensIs
    <3>7. Opens(open, minute) <=> Covers(day.intervals, minute)
      BY <3>5, <3>6, EmptyList
    <3>. QED
      BY <3>3, <3>7 DEF open, day
  <2>. QED
    BY <2>1, <2>2 DEF WeeksCutToFit, WeeksInside
<1>. QED
  BY <1>1, PlansStay, BookingsStay, PTL

-----------------------------------------------------------------------------
(* The units of requirements and the demands they become                    *)

\* Where the elements of some lists are: in which, and where in it.
PlacesIn(lists) == UNION {{<<i, k>> : k \in DOMAIN lists[i]} : i \in DOMAIN lists}

\* Each element of a list is in its own place, and every place is taken.
Posted(h, all, lists) ==
    /\ DOMAIN h = DOMAIN all
    /\ \A p \in DOMAIN all : /\ h[p] \in PlacesIn(lists)
                             /\ all[p] = lists[h[p][1]][h[p][2]]
    /\ \A p, q \in DOMAIN all : h[p] = h[q] => p = q
    /\ \A x \in PlacesIn(lists) : \E p \in DOMAIN all : h[p] = x

\* Lists put together have each element of each list once.
LEMMA ConcatPlaces ==
    ASSUME NEW T, NEW lists \in Seq(Seq(T))
    PROVE  \E h : Posted(h, Concatenated(lists), lists)
<1>. DEFINE n == Len(lists)
            Pairs(i) == {x \in PlacesIn(lists) : x[1] \in 1..i}
            Good(h, s, i) ==
                /\ DOMAIN h = DOMAIN s
                /\ \A p \in DOMAIN s : h[p] \in Pairs(i) /\ s[p] = lists[h[p][1]][h[p][2]]
                /\ \A p, q \in DOMAIN s : h[p] = h[q] => p = q
                /\ \A x \in Pairs(i) : \E p \in DOMAIN s : h[p] = x
<1>1. PICK f \in [0..n -> Seq(T)] :
          /\ f[0] = <<>>
          /\ \A i \in 1..n : f[i] = f[i - 1] \o lists[i]
          /\ Concatenated(lists) = f[n]
  BY ConcatSteps
<1>2. /\ n \in Nat /\ DOMAIN lists = 1..n
      /\ \A i \in 1..n : lists[i] \in Seq(T) /\ i - 1 \in 0..n /\ i \in 0..n
  OBVIOUS
<1>3. \A s \in Seq(T) : Len(s) \in Nat /\ DOMAIN s = 1..Len(s)
  OBVIOUS
<1>4. ASSUME NEW s \in Seq(T), NEW u \in Seq(T)
      PROVE  /\ s \o u \in Seq(T) /\ DOMAIN (s \o u) = 1..Len(s) + Len(u)
             /\ \A p \in DOMAIN s : p \in DOMAIN (s \o u) /\ (s \o u)[p] = s[p]
             /\ \A k \in DOMAIN u : Len(s) + k \in DOMAIN (s \o u) /\ (s \o u)[Len(s) + k] = u[k]
             /\ \A p \in DOMAIN (s \o u) : p \in DOMAIN s
                                           \/ (p - Len(s) \in DOMAIN u /\ (s \o u)[p] = u[p - Len(s)])
  OBVIOUS
<1>5. \A x \in PlacesIn(lists) : /\ x = <<x[1], x[2]>> /\ x[1] \in 1..n
                                 /\ x[2] \in DOMAIN lists[x[1]]
  BY <1>2 DEF PlacesIn
<1>6. \A i \in 1..n : \A k \in DOMAIN lists[i] : <<i, k>> \in PlacesIn(lists)
  BY <1>2 DEF PlacesIn
<1>. DEFINE P == {i \in 0..n : \E h : Good(h, f[i], i)}
<1>. HIDE DEF n
<1>7. 0 \in P
  <2>1. 0 \in 0..n /\ f[0] = <<>> /\ DOMAIN <<>> = {}
    BY <1>1, <1>2
  <2>2. Pairs(0) = {}
    BY <1>5
  <2>. HIDE DEF Pairs
  <2>3. Good(<<>>, f[0], 0)
    BY <2>1, <2>2
  <2>. HIDE DEF Good
  <2>. QED
    BY <2>1, <2>3
<1>8. ASSUME NEW i \in 1..n, i - 1 \in P
      PROVE  i \in P
  <2>. DEFINE s == f[i - 1]
              u == lists[i]
              r == f[i]
  <2>1. r = s \o u /\ s \in Seq(T) /\ u \in Seq(T) /\ i - 1 \in 0..n /\ i \in 0..n
    BY <1>1, <1>2
  <2>2. PICK h : Good(h, s, i - 1)
    <3>. HIDE DEF Good
    <3>. QED
      BY <1>8
  <2>3. \A k \in DOMAIN u : <<i, k>> \in Pairs(i)
    <3>1. i \in 1..i
      BY <1>2
    <3>. QED
      BY <1>6, <3>1
  <2>4. \A x \in Pairs(i) : \/ x \in Pairs(i - 1)
                            \/ x = <<i, x[2]>> /\ x[2] \in DOMAIN u
    <3>. SUFFICES ASSUME NEW x \in Pairs(i), x \notin Pairs(i - 1)
                  PROVE  x = <<i, x[2]>> /\ x[2] \in DOMAIN u
      OBVIOUS
    <3>1. x \in PlacesIn(lists) /\ x[1] \in 1..i /\ x[1] \notin 1..i - 1
      OBVIOUS
    <3>2. x[1] = i
      BY <1>2, <3>1
    <3>. QED
      BY <1>5, <3>1, <3>2
  <2>5. \A x \in Pairs(i - 1) : x \in Pairs(i) /\ x[1] # i /\ x[1] < i
    BY <1>2
  <2>. HIDE DEF s, u, r, Pairs
  <2>6. /\ DOMAIN r = 1..Len(s) + Len(u)
        /\ \A p \in DOMAIN s : p \in DOMAIN r /\ r[p] = s[p]
        /\ \A k \in DOMAIN u : Len(s) + k \in DOMAIN r /\ r[Len(s) + k] = u[k]
        /\ \A p \in DOMAIN r : p \in DOMAIN s \/ (p - Len(s) \in DOMAIN u /\ r[p] = u[p - Len(s)])
        /\ Len(s) \in Nat /\ Len(u) \in Nat /\ DOMAIN s = 1..Len(s) /\ DOMAIN u = 1..Len(u)
    <3>1. Len(s) \in Nat /\ Len(u) \in Nat /\ DOMAIN s = 1..Len(s) /\ DOMAIN u = 1..Len(u)
      BY <1>3, <2>1
    <3>2. /\ DOMAIN (s \o u) = 1..Len(s) + Len(u)
          /\ \A p \in DOMAIN s : p \in DOMAIN (s \o u) /\ (s \o u)[p] = s[p]
          /\ \A k \in DOMAIN u : Len(s) + k \in DOMAIN (s \o u) /\ (s \o u)[Len(s) + k] = u[k]
          /\ \A p \in DOMAIN (s \o u) : p \in DOMAIN s
                                      \/ (p - Len(s) \in DOMAIN u /\ (s \o u)[p] = u[p - Len(s)])
      BY <1>4, <2>1
    <3>. QED
      BY <2>1, <3>1, <3>2, Zenon
  <2>. DEFINE g == [p \in DOMAIN r |-> IF p \in DOMAIN s THEN h[p] ELSE <<i, p - Len(s)>>]
  <2>7. /\ DOMAIN g = DOMAIN r
        /\ \A p \in DOMAIN s : g[p] = h[p]
        /\ \A p \in DOMAIN r : p \notin DOMAIN s =>
              /\ g[p] = <<i, p - Len(s)>> /\ p - Len(s) \in DOMAIN u /\ r[p] = u[p - Len(s)]
    BY <2>6
  <2>. HIDE DEF g
  <2>8. /\ DOMAIN h = DOMAIN s
        /\ \A p \in DOMAIN s : h[p] \in Pairs(i - 1) /\ s[p] = lists[h[p][1]][h[p][2]]
        /\ \A p, q \in DOMAIN s : h[p] = h[q] => p = q
        /\ \A x \in Pairs(i - 1) : \E p \in DOMAIN s : h[p] = x
    BY <2>2
  <2>9. \A p \in DOMAIN r : g[p] \in Pairs(i) /\ r[p] = lists[g[p][1]][g[p][2]]
    <3>. SUFFICES ASSUME NEW p \in DOMAIN r
                  PROVE  g[p] \in Pairs(i) /\ r[p] = lists[g[p][1]][g[p][2]]
      OBVIOUS
    <3>1. CASE p \in DOMAIN s
      BY <2>5, <2>6, <2>7, <2>8, <3>1
    <3>2. CASE p \notin DOMAIN s
      <4>. DEFINE k == p - Len(s)
      <4>1. g[p] = <<i, k>> /\ k \in DOMAIN u /\ r[p] = u[k]
        BY <2>7, <3>2
      <4>. HIDE DEF k
      <4>2. g[p][1] = i /\ g[p][2] = k
        BY <4>1
      <4>3. r[p] = lists[i][k]
        BY <4>1 DEF u
      <4>. QED
        BY <2>3, <4>1, <4>2, <4>3
    <3>. QED
      BY <3>1, <3>2
  <2>10. \A p, q \in DOMAIN r : g[p] = g[q] => p = q
    <3>. SUFFICES ASSUME NEW p \in DOMAIN r, NEW q \in DOMAIN r, g[p] = g[q] PROVE p = q
      OBVIOUS
    <3>1. CASE p \in DOMAIN s /\ q \in DOMAIN s
      BY <2>7, <2>8, <3>1
    <3>2. CASE p \notin DOMAIN s /\ q \notin DOMAIN s
      <4>1. p - Len(s) = q - Len(s)
        BY <2>7, <3>2
      <4>. QED
        BY <2>6, <4>1
    <3>3. CASE p \in DOMAIN s /\ q \notin DOMAIN s
      <4>1. g[p][1] # i /\ g[q][1] = i
        BY <2>5, <2>7, <2>8, <3>3
      <4>. QED
        BY <4>1
    <3>4. CASE p \notin DOMAIN s /\ q \in DOMAIN s
      <4>1. g[q][1] # i /\ g[p][1] = i
        BY <2>5, <2>7, <2>8, <3>4
      <4>. QED
        BY <4>1
    <3>. QED
      BY <3>1, <3>2, <3>3, <3>4
  <2>11. \A x \in Pairs(i) : \E p \in DOMAIN r : g[p] = x
    <3>. SUFFICES ASSUME NEW x \in Pairs(i) PROVE \E p \in DOMAIN r : g[p] = x
      OBVIOUS
    <3>1. CASE x \in Pairs(i - 1)
      <4>1. PICK p \in DOMAIN s : h[p] = x
        BY <2>8, <3>1
      <4>. QED
        BY <2>6, <2>7, <4>1
    <3>2. CASE x = <<i, x[2]>> /\ x[2] \in DOMAIN u
      <4>. DEFINE p == Len(s) + x[2]
      <4>1. p \in DOMAIN r /\ p \notin DOMAIN s /\ p - Len(s) = x[2]
        BY <2>6, <3>2
      <4>. HIDE DEF p
      <4>2. g[p] = <<i, x[2]>>
        BY <2>7, <4>1
      <4>. QED
        BY <3>2, <4>1, <4>2
    <3>. QED
      BY <2>4, <3>1, <3>2
  <2>12. Good(g, r, i)
    BY <2>7, <2>9, <2>10, <2>11
  <2>. HIDE DEF Good
  <2>. QED
    BY <2>1, <2>12 DEF r
<1>9. PICK h : Good(h, f[n], n)
  <2>. HIDE DEF P, Good
  <2>1. n \in 0..n
    BY <1>2
  <2>2. n \in P
    BY <1>2, <1>7, <1>8, <2>1, BySteps
  <2>. QED
    BY <2>2 DEF P
<1>10. Pairs(n) = PlacesIn(lists)
  BY <1>5
<1>. HIDE DEF Pairs
<1>11. Posted(h, f[n], lists)
  BY <1>9, <1>10 DEF Posted
<1>. QED
  BY <1>1, <1>11

\* Each of the units has a resource of its own, of those it may have.
Serves(f, lists) ==
    /\ DOMAIN f = PlacesIn(lists)
    /\ \A x, y \in PlacesIn(lists) : f[x] = f[y] => x = y
    /\ \A x \in PlacesIn(lists) : \E k \in DOMAIN lists[x[1]][x[2]] : lists[x[1]][x[2]][k] = f[x]

\* All demands can be filled when all the units they come from can be served.
LEMMA WaysAre ==
    ASSUME NEW T, NEW lists \in Seq(Seq(Seq(T)))
    PROVE  /\ Ways(Concatenated(lists)) # {} <=> \E f : Serves(f, lists)
           /\ \A g \in Ways(Concatenated(lists)) : \E f : Serves(f, lists) /\ Range(f) = Range(g)
<1>. DEFINE all == Concatenated(lists)
<1>1. PICK h : Posted(h, all, lists)
  BY ConcatPlaces
<1>2. all \in Seq(Seq(T))
  BY ConcatExact, Zenon
<1>. HIDE DEF all
<1>3. /\ DOMAIN h = DOMAIN all
      /\ \A p \in DOMAIN all : /\ h[p] \in PlacesIn(lists)
                               /\ all[p] = lists[h[p][1]][h[p][2]]
      /\ \A p, q \in DOMAIN all : h[p] = h[q] => p = q
      /\ \A x \in PlacesIn(lists) : \E p \in DOMAIN all : h[p] = x
  BY <1>1 DEF Posted
<1>4. ASSUME NEW g \in Ways(all)
      PROVE  \E f : Serves(f, lists) /\ Range(f) = Range(g)
  <2>. DEFINE at(x) == CHOOSE p \in DOMAIN all : h[p] = x
              f == [x \in PlacesIn(lists) |-> g[at(x)]]
  <2>1. \A x \in PlacesIn(lists) : at(x) \in DOMAIN all /\ h[at(x)] = x
    BY <1>3
  <2>. HIDE DEF at
  <2>2. /\ \A p, q \in DOMAIN all : g[p] = g[q] => p = q
        /\ \A p \in DOMAIN all : \E k \in DOMAIN all[p] : all[p][k] = g[p]
    BY DEF Ways, Injection, IsInjective, CandidatesOf
  <2>3. DOMAIN f = PlacesIn(lists) /\ \A x \in PlacesIn(lists) : f[x] = g[at(x)]
    OBVIOUS
  <2>. HIDE DEF f
  <2>4. \A x, y \in PlacesIn(lists) : f[x] = f[y] => x = y
    BY <2>1, <2>2, <2>3
  <2>5. \A x \in PlacesIn(lists) : \E k \in DOMAIN lists[x[1]][x[2]] : lists[x[1]][x[2]][k] = f[x]
    <3>. SUFFICES ASSUME NEW x \in PlacesIn(lists)
                  PROVE  \E k \in DOMAIN lists[x[1]][x[2]] : lists[x[1]][x[2]][k] = f[x]
      OBVIOUS
    <3>1. all[at(x)] = lists[x[1]][x[2]]
      BY <1>3, <2>1
    <3>2. \E k \in DOMAIN all[at(x)] : all[at(x)][k] = g[at(x)]
      BY <2>1, <2>2
    <3>3. f[x] = g[at(x)]
      BY <2>3
    <3>. QED
      BY <3>1, <3>2, <3>3, Zenon
  <2>6. Range(f) = Range(g)
    <3>1. DOMAIN g = DOMAIN all
      BY DEF Ways, Injection
    <3>2. \A p \in DOMAIN all : h[p] \in PlacesIn(lists) /\ f[h[p]] = g[p]
      <4>. SUFFICES ASSUME NEW p \in DOMAIN all PROVE h[p] \in PlacesIn(lists) /\ f[h[p]] = g[p]
        OBVIOUS
      <4>1. h[p] \in PlacesIn(lists)
        BY <1>3
      <4>2. at(h[p]) = p
        BY <1>3, <2>1, <4>1
      <4>. QED
        BY <2>3, <4>1, <4>2
    <3>. QED
      BY <2>1, <2>3, <3>1, <3>2 DEF Range
  <2>7. Serves(f, lists)
    BY <2>3, <2>4, <2>5 DEF Serves
  <2>. QED
    BY <2>6, <2>7
<1>5. ASSUME NEW f, Serves(f, lists)
      PROVE  Ways(all) # {}
  <2>. DEFINE g == [p \in DOMAIN all |-> f[h[p]]]
  <2>1. DOMAIN g = DOMAIN all /\ \A p \in DOMAIN all : g[p] = f[h[p]]
    OBVIOUS
  <2>2. \A p, q \in DOMAIN all : g[p] = g[q] => p = q
    BY <1>3, <1>5 DEF Serves
  <2>3. \A p \in DOMAIN all : \E k \in DOMAIN all[p] : all[p][k] = g[p]
    <3>. SUFFICES ASSUME NEW p \in DOMAIN all PROVE \E k \in DOMAIN all[p] : all[p][k] = g[p]
      OBVIOUS
    <3>1. \E k \in DOMAIN lists[h[p][1]][h[p][2]] : lists[h[p][1]][h[p][2]][k] = f[h[p]]
      BY <1>3, <1>5 DEF Serves
    <3>. QED
      BY <1>3, <2>1, <3>1
  <2>4. g = [p \in DOMAIN all |-> g[p]]
    OBVIOUS
  <2>. HIDE DEF g
  <2>5. \A p \in DOMAIN all : g[p] \in CandidatesOf(all, p)
    BY <2>3 DEF CandidatesOf
  <2>6. \A p \in DOMAIN all : g[p] \in Wanted(all)
    BY <2>3 DEF Wanted
  <2>7. g \in Injection(DOMAIN all, Wanted(all))
    BY <2>2, <2>4, <2>6 DEF Injection, IsInjective
  <2>8. g \in Ways(all)
    BY <2>5, <2>7 DEF Ways
  <2>. QED
    BY <2>8
<1>. QED
  BY <1>4, <1>5 DEF all

\* The units of some of the requirements, each with a resource of its own of those that fit.
KeptUnits(svc, kept) == {x \in Units(svc) : x[1] \in kept}

Manned(f, svc, kept, fit) ==
    /\ DOMAIN f = KeptUnits(svc, kept)
    /\ \A x \in KeptUnits(svc, kept) : f[x] \in fit[x[1]]
    /\ \A x, y \in KeptUnits(svc, kept) : f[x] = f[y] => x = y

\* The demands of the requirements kept, each as often as it counts.
DemandsOf(svc, kept, row) ==
    [i \in DOMAIN Offer[svc].needs |->
        IF i \in kept THEN [unit \in 1..Offer[svc].needs[i].count |-> row[i]] ELSE <<>>]

\* The list of candidates for each need has those who fit.
RowsFit(svc, row, fit) ==
    \A i \in DOMAIN Offer[svc].needs :
        /\ row[i] \in Seq(Resources)
        /\ \A r : r \in fit[i] <=> \E k \in DOMAIN row[i] : row[i][k] = r

\* All demands can be filled when all units can be manned.
LEMMA UnitsManned ==
    ASSUME NEW svc \in Services, NEW kept, NEW row, NEW fit, RowsFit(svc, row, fit)
    PROVE  /\ DemandsOf(svc, kept, row) \in Seq(Seq(Seq(Resources)))
           /\ Ways(Concatenated(DemandsOf(svc, kept, row))) # {}
                 <=> \E f : Manned(f, svc, kept, fit)
           /\ \A g \in Ways(Concatenated(DemandsOf(svc, kept, row))) :
                 \E f : Manned(f, svc, kept, fit) /\ Range(f) = Range(g)
<1>. DEFINE needs == Offer[svc].needs
            alike(i) == [unit \in 1..needs[i].count |-> row[i]]
            lists == DemandsOf(svc, kept, row)
<1>0. \A i \in DOMAIN needs :
          /\ row[i] \in Seq(Resources)
          /\ \A r : r \in fit[i] <=> \E k \in DOMAIN row[i] : row[i][k] = r
  BY DEF RowsFit
<1>1. /\ Len(needs) \in Nat \ {0} /\ DOMAIN needs = 1..Len(needs)
      /\ \A i \in DOMAIN needs : needs[i].count \in Nat \ {0}
  BY EngineConstants
<1>2. \A i \in DOMAIN needs : /\ alike(i) \in Seq(Seq(Resources))
                              /\ DOMAIN alike(i) = 1..needs[i].count
                              /\ \A u \in 1..needs[i].count : alike(i)[u] = row[i]
  BY <1>0, <1>1
<1>3. /\ DOMAIN lists = DOMAIN needs /\ lists = [i \in DOMAIN needs |-> lists[i]]
      /\ \A i \in DOMAIN needs : i \in kept => lists[i] = alike(i)
      /\ \A i \in DOMAIN needs : i \notin kept => lists[i] = <<>>
  BY DEF DemandsOf
<1>. HIDE DEF alike, lists
<1>4. lists \in Seq(Seq(Seq(Resources)))
  <2>1. \A i \in DOMAIN needs : lists[i] \in Seq(Seq(Resources))
    <3>. SUFFICES ASSUME NEW i \in DOMAIN needs PROVE lists[i] \in Seq(Seq(Resources))
      OBVIOUS
    <3>1. <<>> \in Seq(Seq(Resources))
      OBVIOUS
    <3>. QED
      BY <1>2, <1>3, <3>1
  <2>2. lists = [i \in 1..Len(needs) |-> lists[i]]
    BY <1>1, <1>3
  <2>. HIDE DEF needs
  <2>. QED
    BY <1>1, <2>1, <2>2
<1>5. PlacesIn(lists) = KeptUnits(svc, kept)
  <2>1. ASSUME NEW x
        PROVE  x \in PlacesIn(lists) <=>
                  \E i \in DOMAIN needs : \E u \in 1..needs[i].count : i \in kept /\ x = <<i, u>>
    <3>1. x \in PlacesIn(lists) <=> \E i \in DOMAIN needs : \E u \in DOMAIN lists[i] : x = <<i, u>>
      BY <1>3 DEF PlacesIn
    <3>2. \A i \in DOMAIN needs : \A u : u \in DOMAIN lists[i] <=> i \in kept /\ u \in 1..needs[i].count
      <4>. SUFFICES ASSUME NEW i \in DOMAIN needs, NEW u
                    PROVE  u \in DOMAIN lists[i] <=> i \in kept /\ u \in 1..needs[i].count
        OBVIOUS
      <4>1. CASE i \in kept
        <5>1. DOMAIN lists[i] = 1..needs[i].count
          BY <1>2, <1>3, <4>1, Zenon
        <5>. QED
          BY <4>1, <5>1, Zenon
      <4>2. CASE i \notin kept
        <5>1. lists[i] = <<>>
          BY <1>3, <4>2, Zenon
        <5>2. DOMAIN <<>> = {}
          OBVIOUS
        <5>. QED
          BY <4>2, <5>1, <5>2, Zenon
      <4>. QED
        BY <4>1, <4>2
    <3>. QED
      BY <3>1, <3>2
  <2>2. ASSUME NEW x
        PROVE  x \in KeptUnits(svc, kept) <=>
                  \E i \in DOMAIN needs : \E u \in 1..needs[i].count : i \in kept /\ x = <<i, u>>
    <3>1. x \in Units(svc) <=> \E i \in DOMAIN needs : \E u \in 1..needs[i].count : x = <<i, u>>
      BY DEF Units
    <3>2. \A i, u : <<i, u>>[1] = i
      OBVIOUS
    <3>. QED
      BY <3>1, <3>2 DEF KeptUnits
  <2>. QED
    BY <2>1, <2>2
<1>6. \A x \in KeptUnits(svc, kept) : x[1] \in DOMAIN needs /\ lists[x[1]][x[2]] = row[x[1]]
  <2>. SUFFICES ASSUME NEW x \in KeptUnits(svc, kept)
                PROVE  x[1] \in DOMAIN needs /\ lists[x[1]][x[2]] = row[x[1]]
    OBVIOUS
  <2>1. PICK i \in DOMAIN needs : \E u \in 1..needs[i].count : x = <<i, u>>
    BY DEF KeptUnits, Units
  <2>2. PICK u \in 1..needs[i].count : x = <<i, u>>
    BY <2>1
  <2>3. x[1] = i /\ x[2] = u /\ i \in kept
    BY <2>2 DEF KeptUnits
  <2>4. lists[i] = alike(i) /\ alike(i)[u] = row[i]
    BY <1>2, <1>3, <2>3, Zenon
  <2>5. lists[i][u] = row[i]
    BY <2>4, Zenon
  <2>. QED
    BY <2>3, <2>5, Zenon
<1>7. ASSUME NEW f
      PROVE  Serves(f, lists) <=> Manned(f, svc, kept, fit)
  <2>1. \A x \in KeptUnits(svc, kept) :
            (\E k \in DOMAIN lists[x[1]][x[2]] : lists[x[1]][x[2]][k] = f[x]) <=> f[x] \in fit[x[1]]
    <3>. SUFFICES ASSUME NEW x \in KeptUnits(svc, kept)
                  PROVE  (\E k \in DOMAIN lists[x[1]][x[2]] : lists[x[1]][x[2]][k] = f[x])
                            <=> f[x] \in fit[x[1]]
      OBVIOUS
    <3>1. x[1] \in DOMAIN needs /\ lists[x[1]][x[2]] = row[x[1]]
      BY <1>6
    <3>2. f[x] \in fit[x[1]] <=> \E k \in DOMAIN row[x[1]] : row[x[1]][k] = f[x]
      BY <1>0, <3>1
    <3>. QED
      BY <3>1, <3>2
  <2>2. Serves(f, lists) <=>
           /\ DOMAIN f = KeptUnits(svc, kept)
           /\ \A x, y \in KeptUnits(svc, kept) : f[x] = f[y] => x = y
           /\ \A x \in KeptUnits(svc, kept) :
                \E k \in DOMAIN lists[x[1]][x[2]] : lists[x[1]][x[2]][k] = f[x]
    BY <1>5, ZenonT(60) DEF Serves
  <2>. HIDE DEF needs
  <2>. QED
    BY <2>1, <2>2, Zenon DEF Manned
<1>8. /\ Ways(Concatenated(lists)) # {} <=> \E f : Serves(f, lists)
      /\ \A g \in Ways(Concatenated(lists)) : \E f : Serves(f, lists) /\ Range(f) = Range(g)
  BY <1>4, WaysAre
<1>. QED
  BY <1>4, <1>7, <1>8 DEF lists

\* The resources that fit each need of a service, for a group.
FitFor(svc, offered, group) ==
    [i \in DOMAIN Offer[svc].needs |->
        {r \in Resources : IsEligible(r, Offer[svc].needs[i], svc, offered) /\ CanHost(r, group)}]

KeptNeeds(svc, leftOut) ==
    {i \in DOMAIN Offer[svc].needs : ~(leftOut /\ Offer[svc].needs[i].kind = "employee")}

\* A service can be filled when its units can be manned.
LEMMA FillableIs ==
    ASSUME NEW svc \in Services, NEW offered, NEW group, NEW leftOut
    PROVE  IsFillable(svc, offered, group, leftOut)
              <=> \E f : Manned(f, svc, KeptNeeds(svc, leftOut), FitFor(svc, offered, group))
<1>. DEFINE needs == Offer[svc].needs
            fits(need) == {r \in Resources : IsEligible(r, need, svc, offered) /\ CanHost(r, group)}
            idle == [r \in Resources |-> 0]
            row == [i \in DOMAIN needs |-> InOrder(fits(needs[i]), idle)]
            kept == KeptNeeds(svc, leftOut)
            fit == FitFor(svc, offered, group)
            lists == DemandsOf(svc, kept, row)
            demands == Concatenated(lists)
<1>1. FillDemands(svc, offered, group, leftOut) = demands
  <2>1. lists = [i \in DOMAIN needs |->
                   IF leftOut /\ needs[i].kind = "employee" THEN <<>>
                   ELSE [unit \in 1..needs[i].count |-> InOrder(fits(needs[i]), idle)]]
    <3>1. \A i \in DOMAIN needs : i \in kept <=> ~(leftOut /\ needs[i].kind = "employee")
      BY DEF KeptNeeds
    <3>2. \A i \in DOMAIN needs : row[i] = InOrder(fits(needs[i]), idle)
      OBVIOUS
    <3>. HIDE DEF row, kept, needs
    <3>. QED
      BY <3>1, <3>2 DEF DemandsOf, needs
  <2>. HIDE DEF lists
  <2>. QED
    BY <2>1 DEF FillDemands
<1>2. \A i \in DOMAIN needs : /\ row[i] \in Seq(Resources)
                              /\ \A r : r \in fit[i] <=> \E k \in DOMAIN row[i] : row[i][k] = r
  <2>. SUFFICES ASSUME NEW i \in DOMAIN needs
                PROVE  /\ row[i] \in Seq(Resources)
                       /\ \A r : r \in fit[i] <=> \E k \in DOMAIN row[i] : row[i][k] = r
    OBVIOUS
  <2>. DEFINE S == fits(needs[i])
              list == InOrder(S, idle)
  <2>1. S \in SUBSET Resources /\ \A r \in S : idle[r] \in Nat
    OBVIOUS
  <2>2. row[i] = list /\ fit[i] = S
    BY DEF FitFor
  <2>. HIDE DEF S, idle
  <2>3. list \in Seq(S) /\ \A r \in S : \E k \in DOMAIN list : list[k] = r
    BY <2>1, OrderedExact
  <2>. HIDE DEF list
  <2>4. list \in Seq(Resources) /\ \A k \in DOMAIN list : list[k] \in S
    BY <2>1, <2>3
  <2>. HIDE DEF row, fit
  <2>. QED
    BY <2>2, <2>3, <2>4
<1>. HIDE DEF row, fit, kept
<1>3. /\ lists \in Seq(Seq(Seq(Resources)))
      /\ Ways(demands) # {} <=> \E f : Manned(f, svc, kept, fit)
  <2>1. RowsFit(svc, row, fit)
    BY <1>2 DEF RowsFit
  <2>. QED
    BY <2>1, UnitsManned
<1>. HIDE DEF lists
<1>4. demands \in Seq(Seq(Resources))
  BY <1>3, ConcatExact, Zenon
<1>. HIDE DEF demands
<1>5. MatchResources(demands) # None <=> Ways(demands) # {}
  <2>1. IF Ways(demands) = {} THEN MatchResources(demands) = None
        ELSE \E g \in Ways(demands) : MatchResources(demands) = Range(g)
    BY <1>4, MatchIsExact
  <2>2. \A g \in Ways(demands) : Range(g) \in SUBSET Resources
    <3>1. Wanted(demands) \subseteq Resources
      BY <1>4, DemandsBounded
    <3>. QED
      BY <3>1 DEF Ways, Injection, Range
  <2>3. \A g \in Ways(demands) : Range(g) # None
    BY <2>2, EngineConstants
  <2>. QED
    BY <2>1, <2>3
<1>. QED
  BY <1>1, <1>3, <1>5 DEF IsFillable, kept, fit

\* Whom a group does not overfill, in the engine's words and in the preview's.
LEMMA HostsAre ==
    ASSUME NEW people \in Nat, NEW r \in Resources
    PROVE  /\ r \in Hosts(people) <=> CanHost(r, people)
           /\ r \in Hosts(people) <=> ~IsTooSmall(r, people)
           /\ \A more \in Nat : people <= more /\ r \in Hosts(more) => r \in Hosts(people)
<1>1. Setup[r].capacity = None \/ Setup[r].capacity \in Nat
  BY EngineConstants
<1>. DEFINE c == Setup[r].capacity
<1>. HIDE DEF c
<1>2. c = None \/ c \in Nat
  BY <1>1 DEF c
<1>3. /\ (c = None \/ people <= c) <=> (c = None \/ c >= people)
      /\ (c = None \/ people <= c) <=> ~(c # None /\ c < people)
      /\ \A more \in Nat : people <= more /\ (c = None \/ more <= c) => (c = None \/ people <= c)
  BY <1>2
<1>. QED
  BY <1>3 DEF c, Hosts, CanHost, IsTooSmall

\* What fills the requirements mans all their units, and the other way round.
LEMMA FillingsAre ==
    ASSUME NEW svc \in Services, NEW people \in Nat
    PROVE  /\ Fillings(svc, Hosts(people)) # {} <=>
                 \E f : Manned(f, svc, DOMAIN Offer[svc].needs, FitFor(svc, offers, people))
           /\ Fillings(svc, Hosts(people)) # {} <=> IsFillable(svc, offers, people, FALSE)
<1>. DEFINE needs == Offer[svc].needs
            kept == DOMAIN needs
            fit == FitFor(svc, offers, people)
<1>1. /\ KeptUnits(svc, kept) = Units(svc)
      /\ \A x \in Units(svc) : x[1] \in kept
  <2>1. \A x \in Units(svc) : x[1] \in kept
    BY DEF Units
  <2>. QED
    BY <2>1 DEF KeptUnits
<1>2. \A x \in Units(svc) : \A r :
          r \in fit[x[1]] <=> r \in Hosts(people) /\ IsEligible(r, needs[x[1]], svc, offers)
  <2>1. \A r \in Hosts(people) : r \in Resources
    BY DEF Hosts
  <2>. QED
    BY <1>1, <2>1, HostsAre DEF FitFor
<1>3. ASSUME NEW f
      PROVE  f \in Fillings(svc, Hosts(people)) <=>
                Manned(f, svc, kept, fit) /\ f = [x \in Units(svc) |-> f[x]]
  <2>. HIDE DEF needs, kept, fit
  <2>. QED
    BY <1>1, <1>2 DEF Fillings, FillingsBy, Injection, IsInjective, Manned, needs
<1>4. \A f : Manned(f, svc, kept, fit) =>
          [x \in Units(svc) |-> f[x]] \in Fillings(svc, Hosts(people))
  <2>. SUFFICES ASSUME NEW f, Manned(f, svc, kept, fit)
                PROVE  [x \in Units(svc) |-> f[x]] \in Fillings(svc, Hosts(people))
    OBVIOUS
  <2>. DEFINE g == [x \in Units(svc) |-> f[x]]
  <2>1. g = [x \in Units(svc) |-> g[x]] /\ DOMAIN g = Units(svc) /\ \A x \in Units(svc) : g[x] = f[x]
    OBVIOUS
  <2>. HIDE DEF g
  <2>2. Manned(g, svc, kept, fit)
    BY <1>1, <2>1 DEF Manned
  <2>3. g \in Fillings(svc, Hosts(people))
    BY <1>3, <2>1, <2>2
  <2>. QED
    BY <2>3 DEF g
<1>5. Fillings(svc, Hosts(people)) # {} <=> \E f : Manned(f, svc, kept, fit)
  BY <1>3, <1>4
<1>6. KeptNeeds(svc, FALSE) = kept
  BY DEF KeptNeeds
<1>7. IsFillable(svc, offers, people, FALSE) <=> \E f : Manned(f, svc, kept, fit)
  BY <1>6, FillableIs
<1>. QED
  BY <1>5, <1>7

\* Halving finds the largest group that can be hosted, as smaller ones can be too.
LEMMA LargestExact ==
    ASSUME NEW svc \in Services, NEW offered,
           NEW Z, \A p : p \in Z <=> /\ p \in 1..Offer[svc].perBooking
                                     /\ IsFillable(svc, offered, p, FALSE),
           \A p \in Z : \A q \in 1..p : q \in Z
    PROVE  /\ LargestGroup(svc, offered) \in {0} \cup Z
           /\ \A p \in Z : p <= LargestGroup(svc, offered)
<1>. DEFINE most == Offer[svc].perBooking
            D == (1..most) \X (1..most)
            middle(at) == (at[1] + at[2] + 1) \div 2
            next(at) == IF IsFillable(svc, offered, middle(at), FALSE)
                        THEN <<middle(at), at[2]>> ELSE <<at[1], middle(at) - 1>>
            Solves(f) == f = [at \in D |-> IF at[1] >= at[2] THEN at[1] ELSE f[next(at)]]
            seek == CHOOSE f : Solves(f)
            m == [at \in D |-> IF at[1] >= at[2] THEN 0 ELSE at[2] - at[1]]
            V == 1..most
            G == [p \in D \X [D -> V] |-> IF p[1][1] >= p[1][2] THEN p[1][1] ELSE p[2][next(p[1])]]
<1>1. LargestGroup(svc, offered) = IF IsFillable(svc, offered, 1, FALSE) THEN seek[<<1, most>>] ELSE 0
  BY Zenon DEF LargestGroup
<1>2. most \in Nat \ {0}
  BY EngineConstants
<1>. HIDE DEF most
<1>3. \A at \in D : /\ at = <<at[1], at[2]>> /\ at[1] \in 1..most /\ at[2] \in 1..most
                    /\ at[1] < at[2] => /\ middle(at) \in at[1] + 1..at[2]
                                        /\ middle(at) \in 1..most /\ middle(at) - 1 \in 1..most
  BY <1>2
<1>4. \A a, b \in 1..most : <<a, b>> \in D /\ <<a, b>>[1] = a /\ <<a, b>>[2] = b
  OBVIOUS
<1>. HIDE DEF middle, D
<1>5. \A at \in D : at[1] < at[2] =>
          /\ next(at) \in D
          /\ \/ /\ IsFillable(svc, offered, middle(at), FALSE)
                /\ next(at)[1] = middle(at) /\ next(at)[2] = at[2]
             \/ /\ ~IsFillable(svc, offered, middle(at), FALSE)
                /\ next(at)[1] = at[1] /\ next(at)[2] = middle(at) - 1
  <2>. SUFFICES ASSUME NEW at \in D, at[1] < at[2]
                PROVE  /\ next(at) \in D
                       /\ \/ /\ IsFillable(svc, offered, middle(at), FALSE)
                             /\ next(at)[1] = middle(at) /\ next(at)[2] = at[2]
                          \/ /\ ~IsFillable(svc, offered, middle(at), FALSE)
                             /\ next(at)[1] = at[1] /\ next(at)[2] = middle(at) - 1
    OBVIOUS
  <2>1. /\ at[1] \in 1..most /\ at[2] \in 1..most
        /\ middle(at) \in 1..most /\ middle(at) - 1 \in 1..most
    BY <1>3
  <2>2. CASE IsFillable(svc, offered, middle(at), FALSE)
    <3>. DEFINE pair == <<middle(at), at[2]>>
    <3>1. next(at) = pair
      BY <2>2, Zenon
    <3>2. pair \in D /\ pair[1] = middle(at) /\ pair[2] = at[2]
      BY <1>4, <2>1
    <3>. HIDE DEF next, pair
    <3>. QED
      BY <2>2, <3>1, <3>2, Zenon
  <2>3. CASE ~IsFillable(svc, offered, middle(at), FALSE)
    <3>. DEFINE pair == <<at[1], middle(at) - 1>>
    <3>1. next(at) = pair
      BY <2>3, Zenon
    <3>2. pair \in D /\ pair[1] = at[1] /\ pair[2] = middle(at) - 1
      BY <1>4, <2>1
    <3>. HIDE DEF next, pair
    <3>. QED
      BY <2>3, <3>1, <3>2, Zenon
  <2>. QED
    BY <2>2, <2>3
<1>. HIDE DEF next
<1>6. m \in [D -> Nat] /\ \A at \in D : m[at] = IF at[1] >= at[2] THEN 0 ELSE at[2] - at[1]
  BY <1>3
<1>. HIDE DEF m
<1>7. \A at \in D : at[1] < at[2] => m[next(at)] < m[at]
  <2>. SUFFICES ASSUME NEW at \in D, at[1] < at[2] PROVE m[next(at)] < m[at]
    OBVIOUS
  <2>. DEFINE to == next(at)
  <2>1. /\ to \in D /\ at[1] \in Nat /\ at[2] \in Nat /\ to[1] \in Nat /\ to[2] \in Nat
        /\ middle(at) \in at[1] + 1..at[2]
        /\ \/ to[1] = middle(at) /\ to[2] = at[2]
           \/ to[1] = at[1] /\ to[2] = middle(at) - 1
    <3>1. \A x \in D : x[1] \in Nat /\ x[2] \in Nat
      BY <1>3
    <3>2. /\ to \in D
          /\ \/ to[1] = middle(at) /\ to[2] = at[2]
             \/ to[1] = at[1] /\ to[2] = middle(at) - 1
      BY <1>5
    <3>3. middle(at) \in at[1] + 1..at[2]
      BY <1>3
    <3>. HIDE DEF to
    <3>. QED
      BY <3>1, <3>2, <3>3
  <2>2. /\ m[at] = at[2] - at[1]
        /\ m[to] = IF to[1] >= to[2] THEN 0 ELSE to[2] - to[1]
    BY <1>6, <2>1
  <2>. HIDE DEF to
  <2>3. m[to] < m[at]
    BY <2>1, <2>2
  <2>. QED
    BY <2>3 DEF to
<1>8. V # {} /\ \A at \in D : at[1] \in V
  BY <1>2, <1>3
<1>9. \A at \in D, f \in [D -> V] : G[<<at, f>>] = IF at[1] >= at[2] THEN at[1] ELSE f[next(at)]
  <2>1. \A at \in D, f \in [D -> V] : <<at, f>> \in D \X [D -> V]
    OBVIOUS
  <2>. HIDE DEF V
  <2>. QED
    BY <2>1
<1>. HIDE DEF G
<1>10. \A at \in D : at[1] >= at[2] \/ at[1] < at[2]
  BY <1>3
<1>11. PICK f \in [D -> V] : \A at \in D : f[at] = G[<<at, f>>]
  <2>. HIDE DEF V
  <2>1. \A at \in D, g \in [D -> V] : G[<<at, g>>] \in V
    <3>. SUFFICES ASSUME NEW at \in D, NEW g \in [D -> V] PROVE G[<<at, g>>] \in V
      OBVIOUS
    <3>1. G[<<at, g>>] = IF at[1] >= at[2] THEN at[1] ELSE g[next(at)]
      BY <1>9
    <3>2. at[1] \in V
      BY <1>8
    <3>3. at[1] < at[2] => g[next(at)] \in V
      BY <1>5
    <3>4. at[1] >= at[2] \/ at[1] < at[2]
      BY <1>10
    <3>. QED
      BY <3>1, <3>2, <3>3, <3>4
  <2>2. \A at \in D, g \in [D -> V], h \in [D -> V] :
            (\A y \in D : m[y] < m[at] => g[y] = h[y]) => G[<<at, g>>] = G[<<at, h>>]
    <3>. SUFFICES ASSUME NEW at \in D, NEW g \in [D -> V], NEW h \in [D -> V],
                         \A y \in D : m[y] < m[at] => g[y] = h[y]
                  PROVE  G[<<at, g>>] = G[<<at, h>>]
      OBVIOUS
    <3>1. /\ G[<<at, g>>] = IF at[1] >= at[2] THEN at[1] ELSE g[next(at)]
          /\ G[<<at, h>>] = IF at[1] >= at[2] THEN at[1] ELSE h[next(at)]
      BY <1>9
    <3>2. at[1] < at[2] => g[next(at)] = h[next(at)]
      BY <1>5, <1>7
    <3>. QED
      BY <1>10, <3>1, <3>2
  <2>3. LooksLower(D, V, m, G)
    BY <1>6, <1>8, <2>1, <2>2 DEF LooksLower
  <2>. QED
    BY <2>3, Recursion
<1>12. Solves(f)
  <2>1. \A at \in D : f[at] = IF at[1] >= at[2] THEN at[1] ELSE f[next(at)]
    BY <1>9, <1>11
  <2>2. f = [at \in D |-> f[at]]
    OBVIOUS
  <2>. QED
    BY <2>1, <2>2
<1>13. Solves(seek)
  <2>. HIDE DEF Solves
  <2>. QED
    BY <1>12
<1>. HIDE DEF seek
<1>14. \A at \in D : seek[at] = IF at[1] >= at[2] THEN at[1] ELSE seek[next(at)]
  BY <1>13
<1>. DEFINE Holds(at) == at[1] \in Z /\ \A p \in Z : p <= at[2]
            P == {at \in D : Holds(at) => seek[at] \in Z /\ \A p \in Z : p <= seek[at]}
<1>15. \A p \in Z : p \in 1..most /\ p \in Nat
  <2>1. \A p \in Z : p \in 1..most
    BY DEF most
  <2>. QED
    BY <1>2, <2>1
<1>16. ASSUME NEW at \in D, \A y \in D : m[y] < m[at] => y \in P
       PROVE  at \in P
  <2>1. SUFFICES ASSUME Holds(at) PROVE seek[at] \in Z /\ \A p \in Z : p <= seek[at]
    OBVIOUS
  <2>2. /\ seek[at] = IF at[1] >= at[2] THEN at[1] ELSE seek[next(at)]
        /\ at[1] \in Nat /\ at[2] \in Nat
    BY <1>3, <1>14
  <2>3. CASE at[1] >= at[2]
    <3>1. \A p \in Z : p <= at[1]
      BY <1>15, <2>1, <2>2, <2>3
    <3>. QED
      BY <2>1, <2>2, <2>3, <3>1
  <2>4. CASE at[1] < at[2]
    <3>. DEFINE to == next(at)
                mid == middle(at)
    <3>1. /\ to \in D /\ m[to] < m[at] /\ mid \in at[1] + 1..at[2] /\ mid \in 1..most
          /\ \/ /\ IsFillable(svc, offered, mid, FALSE)
                /\ to[1] = mid /\ to[2] = at[2]
             \/ /\ ~IsFillable(svc, offered, mid, FALSE)
                /\ to[1] = at[1] /\ to[2] = mid - 1
      BY <1>3, <1>5, <1>7, <2>4
    <3>2. mid \in Z <=> IsFillable(svc, offered, mid, FALSE)
      BY <3>1 DEF most
    <3>. HIDE DEF to, mid
    <3>3. Holds(to)
      <4>1. CASE IsFillable(svc, offered, mid, FALSE)
        BY <2>1, <3>1, <3>2, <4>1
      <4>2. CASE ~IsFillable(svc, offered, mid, FALSE)
        <5>1. ASSUME NEW p \in Z, ~(p <= mid - 1) PROVE FALSE
          <6>1. mid \in 1..p
            BY <1>15, <3>1, <5>1
          <6>. QED
            BY <3>2, <4>2, <5>1, <6>1
        <5>. QED
          BY <2>1, <3>1, <4>2, <5>1
      <4>. QED
        BY <4>1, <4>2
    <3>4. seek[to] \in Z /\ \A p \in Z : p <= seek[to]
      BY <1>16, <3>1, <3>3
    <3>5. seek[at] = seek[to]
      BY <2>2, <2>4 DEF to
    <3>. QED
      BY <3>4, <3>5
  <2>. QED
    BY <1>10, <2>3, <2>4
<1>17. \A at \in D : at \in P
  <2>. HIDE DEF P
  <2>. QED
    BY <1>6, <1>16, ByMeasure
<1>18. CASE IsFillable(svc, offered, 1, FALSE)
  <2>. DEFINE at == <<1, most>>
  <2>1. at \in D /\ at[1] = 1 /\ at[2] = most
    BY <1>2, <1>4
  <2>2. 1 \in Z
    <3>1. 1 \in 1..Offer[svc].perBooking
      BY <1>2 DEF most
    <3>. QED
      BY <1>18, <3>1
  <2>. HIDE DEF at
  <2>3. Holds(at)
    BY <1>15, <2>1, <2>2
  <2>4. seek[at] \in Z /\ \A p \in Z : p <= seek[at]
    BY <1>17, <2>1, <2>3
  <2>. QED
    BY <1>1, <1>18, <2>4 DEF at
<1>19. CASE ~IsFillable(svc, offered, 1, FALSE)
  <2>1. Z = {}
    <3>1. ASSUME NEW p \in Z PROVE FALSE
      <4>1. 1 \in 1..p
        BY <1>15
      <4>2. 1 \in Z
        BY <4>1
      <4>. QED
        BY <1>19, <4>2
    <3>. QED
      BY <3>1
  <2>. QED
    BY <1>1, <1>19, <2>1
<1>. QED
  BY <1>18, <1>19

\* Who is free for each need of a service, and large enough.
FreeFor(index, occupied, people) ==
    [i \in DOMAIN Offer[index.in.svc].needs |->
        {r \in index.pools[i] : IsFreeFor(index.timelines[r], occupied) /\ ~IsTooSmall(r, people)}]

\* The engine's demands can be filled when the service's units can be manned by who is free.
LEMMA DemandsManned ==
    ASSUME NEW in, in.svc \in Services, RowsRight(in.bookings), NEW range, NEW open,
           NEW occupied, NEW people, NEW date
    PROVE  LET index == IndexOver(in, range, open)
               kept == DOMAIN Offer[in.svc].needs
               fit == FreeFor(index, occupied, people)
           IN  /\ Ways(Demands(index, occupied, people, date)) # {} <=>
                     \E f : Manned(f, in.svc, kept, fit)
               /\ \A g \in Ways(Demands(index, occupied, people, date)) :
                     \E f : Manned(f, in.svc, kept, fit) /\ Range(f) = Range(g)
<1>. DEFINE svc == in.svc
            needs == Offer[svc].needs
            kept == DOMAIN needs
            index == IndexOver(in, range, open)
            of(i) == CandidatesFor(index, i, occupied, people, date)
            row == [i \in DOMAIN needs |-> of(i)]
            fit == FreeFor(index, occupied, people)
            lists == DemandsOf(svc, kept, row)
<1>1. index.in = in
  BY IndexHolds
<1>2. \A i \in DOMAIN needs : /\ row[i] \in Seq(Resources)
                              /\ \A r : r \in fit[i] <=> \E k \in DOMAIN row[i] : row[i][k] = r
  <2>. SUFFICES ASSUME NEW i \in DOMAIN needs
                PROVE  /\ row[i] \in Seq(Resources)
                       /\ \A r : r \in fit[i] <=> \E k \in DOMAIN row[i] : row[i][k] = r
    OBVIOUS
  <2>1. /\ of(i) \in Seq(Resources)
        /\ \A r : (\E k \in DOMAIN of(i) : of(i)[k] = r) <=>
              /\ r \in index.pools[i]
              /\ IsFreeFor(index.timelines[r], occupied)
              /\ ~IsTooSmall(r, people)
    BY CandidatesExact
  <2>. HIDE DEF of, index
  <2>2. fit[i] = {r \in index.pools[i] : IsFreeFor(index.timelines[r], occupied) /\ ~IsTooSmall(r, people)}
    BY <1>1 DEF FreeFor
  <2>3. row[i] = of(i)
    OBVIOUS
  <2>. HIDE DEF row, fit
  <2>. QED
    BY <2>1, <2>2, <2>3
<1>3. Demands(index, occupied, people, date) = Concatenated(lists)
  <2>1. lists = [i \in DOMAIN needs |-> [unit \in 1..needs[i].count |-> of(i)]]
    <3>1. \A i \in DOMAIN needs : i \in kept /\ row[i] = of(i)
      OBVIOUS
    <3>. HIDE DEF row, kept, of
    <3>. QED
      BY <3>1 DEF DemandsOf
  <2>. HIDE DEF index, lists
  <2>. QED
    BY <1>1, <2>1 DEF Demands
<1>. HIDE DEF row, fit, kept, index
<1>4. /\ Ways(Concatenated(lists)) # {} <=> \E f : Manned(f, svc, kept, fit)
      /\ \A g \in Ways(Concatenated(lists)) : \E f : Manned(f, svc, kept, fit) /\ Range(f) = Range(g)
  <2>1. RowsFit(svc, row, fit)
    BY <1>2 DEF RowsFit
  <2>3. svc \in Services
    OBVIOUS
  <2>. HIDE DEF svc, needs
  <2>4. /\ Ways(Concatenated(DemandsOf(svc, kept, row))) # {} <=> \E f : Manned(f, svc, kept, fit)
        /\ \A g \in Ways(Concatenated(DemandsOf(svc, kept, row))) :
              \E f : Manned(f, svc, kept, fit) /\ Range(f) = Range(g)
    BY <2>1, <2>3, UnitsManned
  <2>. QED
    BY <2>4
<1>. HIDE DEF lists, needs, svc
<1>5. /\ Ways(Demands(index, occupied, people, date)) # {} <=> \E f : Manned(f, svc, kept, fit)
      /\ \A g \in Ways(Demands(index, occupied, people, date)) :
            \E f : Manned(f, svc, kept, fit) /\ Range(f) = Range(g)
  BY <1>3, <1>4
<1>. QED
  BY <1>5, Zenon DEF index, kept, fit, svc, needs

\* Who mans the units from fewer can do so from more.
LEMMA MannedByMore ==
    ASSUME NEW svc, NEW kept, NEW fit, NEW more, NEW f, Manned(f, svc, kept, fit),
           \A x \in KeptUnits(svc, kept) : \A r : r \in fit[x[1]] => r \in more[x[1]]
    PROVE  Manned(f, svc, kept, more)
BY DEF Manned

\* A slot that needs resources of its own and is planned has its units manned.
LEMMA PlannedIsManned ==
    ASSUME NEW in, in.svc \in Services, RowsRight(in.bookings), NEW day, NEW start, NEW people,
           AssessSlot(DayIndex(in, day), start, people).ok,
           ~(IsShared(in.svc) /\ SessionsAt(in.svc, start, in.bookings) # {})
    PROVE  /\ people \in 1..Offer[in.svc].perBooking
           /\ \E f : Manned(f, in.svc, DOMAIN Offer[in.svc].needs,
                            FreeFor(DayIndex(in, day), Occupied(in.svc, start), people))
<1>. DEFINE range == [from |-> day, to |-> day]
            open == WindowsForRange(in.opening, Around(range), in.zone)
            index == IndexOver(in, range, open)
            slot == AssessSlot(index, start, people)
            occupied == Occupied(in.svc, start)
            ds(date) == Demands(index, occupied, people, date)
<1>1. DayIndex(in, day) = index
  BY DEF DayIndex, BuildIndex
<1>2. index.in = in
  BY IndexHolds
<1>3. \A date : /\ ds(date) \in Seq(Seq(Resources))
                /\ Ways(ds(date)) # {} <=>
                      \E f : Manned(f, in.svc, DOMAIN Offer[in.svc].needs,
                                    FreeFor(index, occupied, people))
  BY DemandsType, DemandsManned
<1>4. slot.ok
  BY <1>1
<1>. HIDE DEF index
<1>5. PICK date : slot = AssessOn(index, start, people, date)
  BY DEF AssessSlot
<1>6. \A why : Rejected(why).ok = FALSE
  BY DEF Rejected
<1>. HIDE DEF slot
<1>7. /\ people \in 1..Offer[in.svc].perBooking
      /\ slot = AssessNew(index, occupied, people, date)
  BY <1>2, <1>4, <1>5, <1>6 DEF AssessOn
<1>8. Ways(ds(date)) # {}
  <2>. DEFINE demands == ds(date)
              crew == MatchResources(demands)
  <2>1. \E seen : slot = Assigned(in.svc, crew, seen)
    BY <1>2, <1>7 DEF AssessNew
  <2>2. demands \in Seq(Seq(Resources))
    BY <1>3
  <2>. HIDE DEF demands
  <2>3. crew # None
    <3>. HIDE DEF crew
    <3>. QED
      BY <1>4, <1>6, <2>1 DEF Assigned
  <2>4. IF Ways(demands) = {} THEN crew = None
        ELSE \E g \in Ways(demands) : crew = Range(g)
    BY <2>2, MatchIsExact
  <2>. QED
    BY <2>3, <2>4 DEF demands
<1>. HIDE DEF ds
<1>. QED
  BY <1>1, <1>3, <1>7, <1>8

\* What is accepted for a group of so many can be filled by those that host so many.
LEMMA AcceptedIsHosted ==
    ASSUME RowsRight(bookings), NEW svc \in Services, NEW people \in Nat,
           NEW t \in Accepted(Asked(svc, bookings), people), SessionOf(svc, t) = {}
    PROVE  /\ people \in 1..Offer[svc].perBooking
           /\ Fillings(svc, Hosts(people)) # {}
<1>. DEFINE in == Asked(svc, bookings)
            index == Table([day \in Days |-> DayIndex(in, day)])
            day == LocalDateOf(t, zone)
            fit == FreeFor(DayIndex(in, day), Occupied(svc, t), people)
            needs == Offer[svc].needs
<1>1. /\ in.svc = svc /\ in.bookings = bookings /\ in.offers = offers
  BY DEF Asked
<1>2. day \in Days /\ AssessSlot(index[day], t, people).ok
  BY DEF Accepted, Starts
<1>3. index[day] = DayIndex(in, day)
  <2>. DEFINE f == [d \in Days |-> DayIndex(in, d)]
  <2>1. DOMAIN f = Days /\ f[day] = DayIndex(in, day)
    BY <1>2
  <2>. HIDE DEF f
  <2>2. Table(f)[day] = f[day]
    BY <1>2, <2>1, TableIs
  <2>. QED
    BY <2>1, <2>2 DEF f
<1>4. ~(IsShared(svc) /\ SessionsAt(svc, t, bookings) # {})
  BY DEF SessionOf
<1>. HIDE DEF index, in
<1>5. /\ people \in 1..Offer[svc].perBooking
      /\ \E f : Manned(f, svc, DOMAIN needs, fit)
  BY <1>1, <1>2, <1>3, <1>4, PlannedIsManned
<1>6. PICK f : Manned(f, svc, DOMAIN needs, fit)
  BY <1>5
<1>7. \A i \in DOMAIN needs : \A r : r \in fit[i] => r \in FitFor(svc, offers, people)[i]
  <2>. SUFFICES ASSUME NEW i \in DOMAIN needs, NEW r \in fit[i]
                PROVE  r \in FitFor(svc, offers, people)[i]
    OBVIOUS
  <2>. DEFINE whole == IndexOver(in, [from |-> day, to |-> day],
                                 WindowsForRange(in.opening, Around([from |-> day, to |-> day]), in.zone))
  <2>1. DayIndex(in, day) = whole
    BY DEF DayIndex, BuildIndex
  <2>2. /\ whole.in = in
        /\ whole.pools[i] = {q \in Resources : IsEligible(q, needs[i], svc, offers)}
    BY <1>1, IndexHolds
  <2>. HIDE DEF whole, day
  <2>3. r \in whole.pools[i] /\ ~IsTooSmall(r, people)
    BY <1>1, <2>1, <2>2 DEF FreeFor
  <2>4. r \in Resources /\ IsEligible(r, needs[i], svc, offers)
    BY <2>2, <2>3
  <2>5. CanHost(r, people)
    BY <2>3, <2>4, HostsAre
  <2>. QED
    BY <2>4, <2>5 DEF FitFor
<1>8. \A x \in KeptUnits(svc, DOMAIN needs) : x[1] \in DOMAIN needs
  BY DEF KeptUnits
<1>. HIDE DEF fit, needs
<1>9. Manned(f, svc, DOMAIN needs, FitFor(svc, offers, people))
  BY <1>6, <1>7, <1>8, MannedByMore
<1>. QED
  BY <1>5, <1>9, FillingsAre DEF needs

\* Hosts of more are hosts of fewer, so what they fill these fill.
LEMMA FewerAreHosted ==
    ASSUME NEW svc \in Services, NEW people \in Nat, NEW fewer \in Nat, fewer <= people,
           Fillings(svc, Hosts(people)) # {}
    PROVE  Fillings(svc, Hosts(fewer)) # {}
<1>. DEFINE needs == Offer[svc].needs
<1>1. PICK f : Manned(f, svc, DOMAIN needs, FitFor(svc, offers, people))
  BY FillingsAre
<1>2. \A i \in DOMAIN needs : \A r :
          r \in FitFor(svc, offers, people)[i] => r \in FitFor(svc, offers, fewer)[i]
  <2>. SUFFICES ASSUME NEW i \in DOMAIN needs, NEW r \in FitFor(svc, offers, people)[i]
                PROVE  r \in FitFor(svc, offers, fewer)[i]
    OBVIOUS
  <2>1. r \in Resources /\ IsEligible(r, needs[i], svc, offers) /\ CanHost(r, people)
    BY DEF FitFor
  <2>2. CanHost(r, fewer)
    BY <2>1, HostsAre
  <2>. QED
    BY <2>1, <2>2 DEF FitFor
<1>3. \A x \in KeptUnits(svc, DOMAIN needs) : x[1] \in DOMAIN needs
  BY DEF KeptUnits
<1>. HIDE DEF needs
<1>4. Manned(f, svc, DOMAIN needs, FitFor(svc, offers, fewer))
  BY <1>1, <1>2, <1>3, MannedByMore
<1>. QED
  BY <1>4, FillingsAre DEF needs

\* Who cannot fill the requirements without employees cannot fill them with all of them.
LEMMA BlockedForAll ==
    ASSUME NEW svc \in Services, NEW offered, NEW others, NEW group,
           IsFillable(svc, offered, group, FALSE)
    PROVE  IsFillable(svc, others, group, TRUE)
<1>. DEFINE needs == Offer[svc].needs
            kept == KeptNeeds(svc, TRUE)
            g(f) == [x \in KeptUnits(svc, kept) |-> f[x]]
<1>1. PICK f : Manned(f, svc, KeptNeeds(svc, FALSE), FitFor(svc, offered, group))
  BY FillableIs
<1>2. /\ \A i \in kept : i \in DOMAIN needs /\ needs[i].kind # "employee"
      /\ KeptNeeds(svc, FALSE) = DOMAIN needs
  BY DEF KeptNeeds
<1>3. \A x \in KeptUnits(svc, kept) : x \in KeptUnits(svc, DOMAIN needs) /\ x[1] \in kept
  BY <1>2 DEF KeptUnits
<1>4. \A i \in kept : \A r :
          r \in FitFor(svc, offered, group)[i] => r \in FitFor(svc, others, group)[i]
  <2>. SUFFICES ASSUME NEW i \in kept, NEW r \in FitFor(svc, offered, group)[i]
                PROVE  r \in FitFor(svc, others, group)[i]
    OBVIOUS
  <2>1. r \in Resources /\ IsEligible(r, needs[i], svc, offered) /\ CanHost(r, group)
    BY <1>2 DEF FitFor
  <2>2. Setup[r].kind # "employee"
    BY <1>2, <2>1 DEF IsEligible, Meets
  <2>3. IsEligible(r, needs[i], svc, others)
    BY <2>1, <2>2 DEF IsEligible, OffersService
  <2>. QED
    BY <1>2, <2>1, <2>3 DEF FitFor
<1>5. DOMAIN g(f) = KeptUnits(svc, kept) /\ \A x \in KeptUnits(svc, kept) : g(f)[x] = f[x]
  OBVIOUS
<1>6. /\ \A x \in KeptUnits(svc, DOMAIN needs) : f[x] \in FitFor(svc, offered, group)[x[1]]
      /\ \A x, y \in KeptUnits(svc, DOMAIN needs) : f[x] = f[y] => x = y
  BY <1>1, <1>2 DEF Manned
<1>. HIDE DEF g, kept, needs
<1>7. Manned(g(f), svc, kept, FitFor(svc, others, group))
  BY <1>3, <1>4, <1>5, <1>6 DEF Manned
<1>. QED
  BY <1>7, FillableIs DEF kept
=============================================================================
