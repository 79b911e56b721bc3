----------------------------- MODULE SlotProofs -----------------------------
(***************************************************************************)
(* Proofs about what the engine accepts, for every calendar: the           *)
(* assessment of one start, the lists of free times and the alternatives.  *)
(***************************************************************************)
EXTENDS SchedulingProofs

-----------------------------------------------------------------------------
(* Searches and walks over lists of spans                                   *)

\* The bounds of what two spans share bound each of them.
LEMMA BoundsOfBoth ==
    ASSUME NEW p \in Int, NEW q \in Int, NEW t \in Int
    PROVE  /\ Larger(p, q) <= t <=> p <= t /\ q <= t
           /\ t < Smaller(p, q) <=> t < p /\ t < q
BY DEF Larger, Smaller

\* Halving finds the last span that starts by an instant, or none.
LEMMA LastStartingExact ==
    ASSUME NEW list \in Seq(Spans), Rising(list), NEW instant \in Int
    PROVE  /\ LastStartingAtOrBefore(list, instant) \in 0..Len(list)
           /\ \A i \in DOMAIN list :
                 i <= LastStartingAtOrBefore(list, instant) <=> list[i].start <= instant
<1>. DEFINE n == Len(list)
            D == (1..n + 1) \X (0..n) \X (0..n)
            V == 0..n
            middle(at) == (at[1] + at[2]) \div 2
            next(at) == IF list[middle(at)].start <= instant
                        THEN <<middle(at) + 1, at[2], middle(at)>>
                        ELSE <<at[1], middle(at) - 1, at[3]>>
            Solves(f) == f = [at \in D |-> IF at[1] > at[2] THEN at[3] ELSE f[next(at)]]
            seek == CHOOSE f : Solves(f)
            m == [at \in D |-> IF at[1] > at[2] THEN 0 ELSE at[2] + 1 - at[1]]
            G == [p \in D \X [D -> V] |-> IF p[1][1] > p[1][2] THEN p[1][3] ELSE p[2][next(p[1])]]
<1>1. LastStartingAtOrBefore(list, instant) = seek[<<1, n, 0>>]
  BY Zenon DEF LastStartingAtOrBefore
<1>2. /\ n \in Nat /\ DOMAIN list = 1..n
      /\ \A i \in DOMAIN list : list[i].start \in Int
  BY SpansOf
<1>. HIDE DEF n
<1>3. \A at \in D : /\ at[1] \in 1..n + 1 /\ at[2] \in 0..n /\ at[3] \in 0..n
                    /\ at[1] \in Nat /\ at[2] \in Nat /\ at[3] \in Nat
                    /\ at[1] > at[2] \/ at[1] <= at[2]
                    /\ at[1] <= at[2] => /\ middle(at) \in at[1]..at[2] /\ middle(at) \in 1..n
                                         /\ middle(at) + 1 \in 1..n + 1 /\ middle(at) - 1 \in 0..n
  BY <1>2, SMTT(30)
<1>4. \A a \in 1..n + 1 : \A b, c \in 0..n :
          <<a, b, c>> \in D /\ <<a, b, c>>[1] = a /\ <<a, b, c>>[2] = b /\ <<a, b, c>>[3] = c
  OBVIOUS
<1>. HIDE DEF middle, D
<1>5. ASSUME NEW at \in D, at[1] <= at[2]
      PROVE  /\ next(at) \in D
             /\ \/ /\ list[middle(at)].start <= instant
                   /\ next(at)[1] = middle(at) + 1 /\ next(at)[2] = at[2]
                   /\ next(at)[3] = middle(at)
                \/ /\ ~(list[middle(at)].start <= instant)
                   /\ next(at)[1] = at[1] /\ next(at)[2] = middle(at) - 1
                   /\ next(at)[3] = at[3]
  <2>1. /\ at[1] \in 1..n + 1 /\ at[2] \in 0..n /\ at[3] \in 0..n
        /\ middle(at) \in 1..n /\ middle(at) \in 0..n
        /\ middle(at) + 1 \in 1..n + 1 /\ middle(at) - 1 \in 0..n
    BY <1>2, <1>3, <1>5
  <2>2. CASE list[middle(at)].start <= instant
    <3>. DEFINE new == <<middle(at) + 1, at[2], middle(at)>>
    <3>1. next(at) = new
      BY <2>2, Zenon
    <3>2. new \in D /\ new[1] = middle(at) + 1 /\ new[2] = at[2] /\ new[3] = middle(at)
      BY <1>4, <2>1
    <3>. HIDE DEF next, new
    <3>. QED
      BY <2>2, <3>1, <3>2, Zenon
  <2>3. CASE ~(list[middle(at)].start <= instant)
    <3>. DEFINE new == <<at[1], middle(at) - 1, at[3]>>
    <3>1. next(at) = new
      BY <2>3, Zenon
    <3>2. new \in D /\ new[1] = at[1] /\ new[2] = middle(at) - 1 /\ new[3] = at[3]
      BY <1>4, <2>1
    <3>. HIDE DEF next, new
    <3>. QED
      BY <2>3, <3>1, <3>2, Zenon
  <2>. QED
    BY <2>2, <2>3
<1>. HIDE DEF next
<1>6. m \in [D -> Nat] /\ \A at \in D : m[at] = IF at[1] > at[2] THEN 0 ELSE at[2] + 1 - at[1]
  BY <1>3
<1>. HIDE DEF m
<1>7. ASSUME NEW at \in D, at[1] <= at[2]
      PROVE  m[next(at)] < m[at]
  <2>. DEFINE to == next(at)
  <2>1. /\ to \in D
        /\ \/ to[1] = middle(at) + 1 /\ to[2] = at[2]
           \/ to[1] = at[1] /\ to[2] = middle(at) - 1
    BY <1>5, <1>7
  <2>. HIDE DEF to
  <2>2. /\ at[1] \in Nat /\ at[2] \in Nat /\ to[1] \in Nat /\ to[2] \in Nat
        /\ middle(at) \in at[1]..at[2]
    BY <1>3, <1>7, <2>1
  <2>3. /\ m[at] = IF at[1] > at[2] THEN 0 ELSE at[2] + 1 - at[1]
        /\ m[to] = IF to[1] > to[2] THEN 0 ELSE to[2] + 1 - to[1]
    BY <1>6, <2>1
  <2>4. m[at] = at[2] + 1 - at[1]
    BY <1>7, <2>2, <2>3
  <2>5. \A a, b, c, d, mid \in Nat :
            /\ a <= mid /\ mid <= b
            /\ (c = mid + 1 /\ d = b) \/ (c = a /\ d = mid - 1)
            => 0 < b + 1 - a /\ (~(c > d) => d + 1 - c < b + 1 - a)
    OBVIOUS
  <2>6. /\ 0 < at[2] + 1 - at[1]
        /\ ~(to[1] > to[2]) => to[2] + 1 - to[1] < at[2] + 1 - at[1]
    <3>. DEFINE mid == middle(at)
    <3>1. mid \in Nat /\ at[1] <= mid /\ mid <= at[2]
      BY <2>2
    <3>. HIDE DEF mid
    <3>. QED
      BY <2>1, <2>2, <2>5, <3>1, SMTT(30) DEF mid
  <2>7. m[to] < m[at]
    BY <2>3, <2>4, <2>6
  <2>. QED
    BY <2>7 DEF to
<1>8. V # {} /\ \A at \in D : at[3] \in V
  <2>1. 0 \in 0..n
    BY <1>2
  <2>2. \A at \in D : at[3] \in 0..n
    BY <1>3
  <2>. QED
    BY <2>1, <2>2
<1>. HIDE DEF V
<1>9. \A at \in D, f \in [D -> V] : G[<<at, f>>] = IF at[1] > at[2] THEN at[3] ELSE f[next(at)]
  <2>1. \A at \in D, f \in [D -> V] : <<at, f>> \in D \X [D -> V]
    OBVIOUS
  <2>. QED
    BY <2>1
<1>. HIDE DEF G
<1>10. PICK f \in [D -> V] : \A at \in D : f[at] = G[<<at, f>>]
  <2>1. \A at \in D, g \in [D -> V] : G[<<at, g>>] \in V
    <3>. SUFFICES ASSUME NEW at \in D, NEW g \in [D -> V] PROVE G[<<at, g>>] \in V
      OBVIOUS
    <3>1. at[1] <= at[2] => g[next(at)] \in V
      BY <1>5
    <3>. QED
      BY <1>3, <1>8, <1>9, <3>1
  <2>2. \A at \in D, g \in [D -> V], h \in [D -> V] :
            (\A y \in D : m[y] < m[at] => g[y] = h[y]) => G[<<at, g>>] = G[<<at, h>>]
    <3>. SUFFICES ASSUME NEW at \in D, NEW g \in [D -> V], NEW h \in [D -> V],
                         \A y \in D : m[y] < m[at] => g[y] = h[y]
                  PROVE  G[<<at, g>>] = G[<<at, h>>]
      OBVIOUS
    <3>1. /\ G[<<at, g>>] = IF at[1] > at[2] THEN at[3] ELSE g[next(at)]
          /\ G[<<at, h>>] = IF at[1] > at[2] THEN at[3] ELSE h[next(at)]
      BY <1>9
    <3>2. at[1] <= at[2] => g[next(at)] = h[next(at)]
      BY <1>5, <1>7
    <3>. QED
      BY <1>3, <3>1, <3>2
  <2>3. LooksLower(D, V, m, G)
    BY <1>6, <1>8, <2>1, <2>2 DEF LooksLower
  <2>. QED
    BY <2>3, Recursion
<1>11. Solves(f)
  <2>1. \A at \in D : f[at] = IF at[1] > at[2] THEN at[3] ELSE f[next(at)]
    BY <1>9, <1>10
  <2>2. f = [at \in D |-> f[at]]
    OBVIOUS
  <2>. QED
    BY <2>1, <2>2
<1>12. Solves(seek)
  <2>. HIDE DEF Solves
  <2>. QED
    BY <1>11
<1>. HIDE DEF seek
<1>13. \A at \in D : seek[at] = IF at[1] > at[2] THEN at[3] ELSE seek[next(at)]
  BY <1>12
<1>. DEFINE Found(k) == k \in 0..n /\ \A i \in 1..n : i <= k <=> list[i].start <= instant
            Holds(at) == /\ at[3] = at[1] - 1 /\ at[1] <= at[2] + 1
                         /\ \A i \in 1..n : i < at[1] => list[i].start <= instant
                         /\ \A i \in 1..n : at[2] < i => list[i].start > instant
            P == {at \in D : Holds(at) => Found(seek[at])}
<1>14. \A i, j \in 1..n : i <= j => list[i].start <= list[j].start
  <2>. SUFFICES ASSUME NEW i \in 1..n, NEW j \in 1..n, i <= j PROVE list[i].start <= list[j].start
    OBVIOUS
  <2>1. CASE i = j
    BY <1>2, <2>1
  <2>2. CASE i < j
    BY <1>2, <2>2 DEF Rising
  <2>. QED
    BY <1>2, <2>1, <2>2
<1>15. ASSUME NEW at \in D, \A y \in D : m[y] < m[at] => y \in P
       PROVE  at \in P
  <2>1. SUFFICES ASSUME Holds(at) PROVE Found(seek[at])
    OBVIOUS
  <2>2. /\ at[1] \in Nat /\ at[2] \in Nat /\ at[3] \in 0..n /\ at[2] \in 0..n
        /\ at[1] > at[2] \/ at[1] <= at[2]
    BY <1>3
  <2>3. CASE at[1] > at[2]
    <3>1. seek[at] = at[3] /\ at[3] = at[2] /\ at[1] = at[2] + 1
      BY <1>13, <2>1, <2>2, <2>3
    <3>2. \A i \in 1..n : i <= at[2] <=> list[i].start <= instant
      <4>. SUFFICES ASSUME NEW i \in 1..n PROVE i <= at[2] <=> list[i].start <= instant
        OBVIOUS
      <4>1. CASE i <= at[2]
        <5>1. i < at[1]
          BY <1>2, <2>2, <3>1, <4>1
        <5>. QED
          BY <2>1, <4>1, <5>1
      <4>2. CASE ~(i <= at[2])
        <5>1. at[2] < i
          BY <1>2, <2>2, <4>2
        <5>2. list[i].start > instant /\ list[i].start \in Int
          BY <1>2, <2>1, <5>1
        <5>. QED
          BY <4>2, <5>2
      <4>. QED
        BY <4>1, <4>2
    <3>. QED
      BY <2>2, <3>1, <3>2
  <2>4. CASE at[1] <= at[2]
    <3>. DEFINE to == next(at)
                mid == middle(at)
    <3>1. /\ to \in D /\ m[to] < m[at] /\ mid \in at[1]..at[2] /\ mid \in 1..n
          /\ \/ /\ list[mid].start <= instant
                /\ to[1] = mid + 1 /\ to[2] = at[2] /\ to[3] = mid
             \/ /\ ~(list[mid].start <= instant)
                /\ to[1] = at[1] /\ to[2] = mid - 1 /\ to[3] = at[3]
      BY <1>3, <1>5, <1>7, <2>4
    <3>2. seek[at] = seek[to]
      BY <1>13, <2>2, <2>4
    <3>. HIDE DEF to, mid
    <3>3. Holds(to)
      <4>1. CASE list[mid].start <= instant
        <5>1. to[1] = mid + 1 /\ to[2] = at[2] /\ to[3] = mid
          BY <3>1, <4>1
        <5>2. mid \in Nat /\ mid <= at[2] /\ (mid + 1) - 1 = mid
          BY <1>2, <2>2, <3>1
        <5>3. \A i \in 1..n : i < mid + 1 => list[i].start <= instant
          <6>. SUFFICES ASSUME NEW i \in 1..n, i < mid + 1 PROVE list[i].start <= instant
            OBVIOUS
          <6>1. i <= mid
            BY <5>2
          <6>2. list[i].start <= list[mid].start
            BY <1>14, <3>1, <6>1
          <6>3. list[i].start \in Int /\ list[mid].start \in Int
            BY <1>2, <3>1
          <6>. QED
            BY <4>1, <6>2, <6>3
        <5>4. mid + 1 <= at[2] + 1
          BY <2>2, <5>2
        <5>. QED
          BY <2>1, <5>1, <5>2, <5>3, <5>4
      <4>2. CASE ~(list[mid].start <= instant)
        <5>1. to[1] = at[1] /\ to[2] = mid - 1 /\ to[3] = at[3]
          BY <3>1, <4>2
        <5>2. mid \in Nat /\ at[1] <= mid /\ (mid - 1) + 1 = mid
          BY <1>2, <2>2, <3>1
        <5>3. \A i \in 1..n : mid - 1 < i => list[i].start > instant
          <6>. SUFFICES ASSUME NEW i \in 1..n, mid - 1 < i PROVE list[i].start > instant
            OBVIOUS
          <6>1. mid <= i
            BY <5>2
          <6>2. list[mid].start <= list[i].start
            BY <1>14, <3>1, <6>1
          <6>3. list[i].start \in Int /\ list[mid].start \in Int
            BY <1>2, <3>1
          <6>. QED
            BY <4>2, <6>2, <6>3
        <5>. QED
          BY <2>1, <5>1, <5>2, <5>3
      <4>. QED
        BY <4>1, <4>2
    <3>4. Found(seek[to])
      <4>1. to \in P
        BY <1>15, <3>1
      <4>. QED
        BY <3>3, <4>1
    <3>. QED
      BY <3>2, <3>4
  <2>. QED
    BY <2>2, <2>3, <2>4
<1>16. \A at \in D : at \in P
  <2>. HIDE DEF P
  <2>. QED
    BY <1>6, <1>15, ByMeasure
<1>17. Found(seek[<<1, n, 0>>])
  <2>. DEFINE at == <<1, n, 0>>
  <2>1. at \in D /\ at[1] = 1 /\ at[2] = n /\ at[3] = 0
    BY <1>2, <1>4
  <2>. HIDE DEF at
  <2>2. Holds(at)
    BY <1>2, <2>1
  <2>3. at \in P
    BY <1>16, <2>1
  <2>. QED
    BY <2>2, <2>3 DEF at
<1>. QED
  BY <1>1, <1>2, <1>17 DEF n

\* A list covers a stretch of time when it covers each instant of it.
LEMMA ListCoversExact ==
    ASSUME NEW list \in Seq(Spans), Real(list), Lined(list),
           NEW from \in Int, NEW to \in Int, from < to
    PROVE  ListCovers(list, Interval(from, to)) <=> \A t \in from..to - 1 : Covers(list, t)
<1>. DEFINE k == LastStartingAtOrBefore(list, from)
<1>1. /\ Len(list) \in Nat /\ DOMAIN list = 1..Len(list)
      /\ \A i \in DOMAIN list : i \in Nat /\ list[i].start \in Int /\ list[i].end \in Int
  BY SpansOf
<1>2. Rising(list)
  BY DEF Lined, Rising
<1>3. /\ k \in 0..Len(list)
      /\ \A i \in DOMAIN list : i <= k <=> list[i].start <= from
  BY <1>2, LastStartingExact
<1>4. ListCovers(list, Interval(from, to)) <=> k # 0 /\ list[k].end >= to
  BY DEF ListCovers, Interval
<1>. HIDE DEF k
<1>5. ASSUME k # 0, list[k].end >= to
      PROVE  \A t \in from..to - 1 : Covers(list, t)
  <2>1. k \in DOMAIN list /\ list[k].start <= from
    BY <1>1, <1>3, <1>5
  <2>2. list[k].start \in Int /\ list[k].end \in Int
    BY <1>1, <2>1
  <2>3. \A t \in from..to - 1 : list[k].start <= t /\ t < list[k].end
    BY <1>5, <2>1, <2>2
  <2>. QED
    BY <2>1, <2>3 DEF Covers
<1>6. ASSUME \A t \in from..to - 1 : Covers(list, t)
      PROVE  k # 0 /\ list[k].end >= to
  <2>1. Covers(list, from)
    BY <1>6
  <2>2. PICK i \in DOMAIN list : list[i].start <= from /\ from < list[i].end
    BY <2>1 DEF Covers
  <2>3. i <= k /\ i \in Nat /\ i # 0 /\ k \in Nat
    BY <1>1, <1>3, <2>2
  <2>4. k # 0 /\ k \in DOMAIN list
    BY <1>1, <1>3, <2>3
  <2>5. list[k].start <= from
    BY <1>3, <2>3, <2>4
  <2>6. from < list[k].end
    <3>1. CASE i = k
      BY <2>2, <3>1
    <3>2. CASE i < k
      <4>1. list[i].end < list[k].start
        BY <2>2, <2>4, <3>2 DEF Lined
      <4>. QED
        BY <1>1, <2>2, <2>4, <2>5, <4>1
    <3>. QED
      BY <2>3, <3>1, <3>2
  <2>7. SUFFICES ASSUME list[k].end < to PROVE FALSE
    BY <1>1, <2>4
  <2>. DEFINE t == list[k].end
  <2>8. t \in from..to - 1 /\ t \in Int
    BY <1>1, <2>4, <2>6, <2>7
  <2>9. Covers(list, t)
    BY <1>6, <2>8
  <2>10. PICK j \in DOMAIN list : list[j].start <= t /\ t < list[j].end
    BY <2>9 DEF Covers
  <2>11. j \in Nat /\ j # k
    BY <1>1, <2>4, <2>10
  <2>12. CASE j < k
    <3>1. list[j].end < list[k].start
      BY <2>4, <2>10, <2>12 DEF Lined
    <3>. QED
      BY <1>1, <2>4, <2>5, <2>6, <2>10, <3>1
  <2>13. CASE k < j
    <3>1. list[k].end < list[j].start
      BY <2>4, <2>10, <2>13 DEF Lined
    <3>. QED
      BY <1>1, <2>4, <2>10, <3>1
  <2>. QED
    BY <1>1, <1>3, <2>11, <2>12, <2>13
<1>. QED
  BY <1>4, <1>5, <1>6

-----------------------------------------------------------------------------
(* Whether an appointment can stand, by lists and by instants               *)

\* The stretches in both of two lists of real spans apart (intersectIntervals).
LEMMA IntersectExact ==
    ASSUME NEW a \in Seq(Spans), NEW b \in Seq(Spans), Real(a), Real(b), Lined(a), Lined(b)
    PROVE  /\ IntersectIntervals(a, b) \in Seq(Spans)
           /\ Real(IntersectIntervals(a, b)) /\ Lined(IntersectIntervals(a, b))
           /\ \A t \in Int : Covers(IntersectIntervals(a, b), t) <=> Covers(a, t) /\ Covers(b, t)
<1>. DEFINE n == Len(a)
            k == Len(b)
            D == (1..n + 1) \X (1..k + 1)
            V == Seq(Spans)
            low(at)  == Larger(a[at[1]].start, b[at[2]].start)
            high(at) == Smaller(a[at[1]].end, b[at[2]].end)
            next(at) == IF a[at[1]].end < b[at[2]].end THEN <<at[1] + 1, at[2]>>
                        ELSE <<at[1], at[2] + 1>>
            past(at) == at[1] > n \/ at[2] > k
            Solves(f) == f = [at \in D |-> IF past(at) THEN <<>>
                                           ELSE Piece(low(at), high(at)) \o f[next(at)]]
            from == CHOOSE f : Solves(f)
            m == [at \in D |-> (n + 1 - at[1]) + (k + 1 - at[2])]
            G == [p \in D \X [D -> V] |-> IF past(p[1]) THEN <<>>
                                          ELSE Piece(low(p[1]), high(p[1])) \o p[2][next(p[1])]]
<1>1. IntersectIntervals(a, b) = from[<<1, 1>>]
  BY Zenon DEF IntersectIntervals
<1>2. /\ n \in Nat /\ k \in Nat /\ DOMAIN a = 1..n /\ DOMAIN b = 1..k
      /\ \A i \in 1..n : a[i].start \in Int /\ a[i].end \in Int /\ a[i].start < a[i].end
      /\ \A j \in 1..k : b[j].start \in Int /\ b[j].end \in Int /\ b[j].start < b[j].end
  BY SpansOf DEF Real
<1>. HIDE DEF n, k
<1>3. \A at \in D : /\ at[1] \in 1..n + 1 /\ at[2] \in 1..k + 1
                    /\ ~past(at) => at[1] \in 1..n /\ at[2] \in 1..k
  BY <1>2
<1>4. \A i \in 1..n + 1, j \in 1..k + 1 :
          <<i, j>> \in D /\ <<i, j>>[1] = i /\ <<i, j>>[2] = j
  OBVIOUS
<1>. HIDE DEF D, past
<1>5. ASSUME NEW at \in D, ~past(at)
      PROVE  /\ next(at) \in D
             /\ \/ /\ a[at[1]].end < b[at[2]].end
                   /\ next(at)[1] = at[1] + 1 /\ next(at)[2] = at[2]
                \/ /\ ~(a[at[1]].end < b[at[2]].end)
                   /\ next(at)[1] = at[1] /\ next(at)[2] = at[2] + 1
  <2>1. /\ at[1] \in 1..n + 1 /\ at[2] \in 1..k + 1
        /\ at[1] + 1 \in 1..n + 1 /\ at[2] + 1 \in 1..k + 1
    BY <1>2, <1>3, <1>5
  <2>2. CASE a[at[1]].end < b[at[2]].end
    <3>. DEFINE new == <<at[1] + 1, at[2]>>
    <3>1. next(at) = new
      BY <2>2, Zenon
    <3>2. new \in D /\ new[1] = at[1] + 1 /\ new[2] = at[2]
      BY <1>4, <2>1
    <3>. HIDE DEF next, new
    <3>. QED
      BY <2>2, <3>1, <3>2, Zenon
  <2>3. CASE ~(a[at[1]].end < b[at[2]].end)
    <3>. DEFINE new == <<at[1], at[2] + 1>>
    <3>1. next(at) = new
      BY <2>3, Zenon
    <3>2. new \in D /\ new[1] = at[1] /\ new[2] = at[2] + 1
      BY <1>4, <2>1
    <3>. HIDE DEF next, new
    <3>. QED
      BY <2>3, <3>1, <3>2, Zenon
  <2>. QED
    BY <2>2, <2>3
<1>. HIDE DEF next
<1>6. m \in [D -> Nat] /\ \A at \in D : m[at] = (n + 1 - at[1]) + (k + 1 - at[2])
  BY <1>2, <1>3
<1>. HIDE DEF m
<1>7. ASSUME NEW at \in D, ~past(at)
      PROVE  m[next(at)] < m[at]
  <2>. DEFINE to == next(at)
  <2>1. /\ to \in D
        /\ \/ to[1] = at[1] + 1 /\ to[2] = at[2]
           \/ to[1] = at[1] /\ to[2] = at[2] + 1
    BY <1>5, <1>7
  <2>. HIDE DEF to
  <2>2. at[1] \in Nat /\ at[2] \in Nat
    BY <1>3
  <2>3. /\ m[at] = (n + 1 - at[1]) + (k + 1 - at[2])
        /\ m[to] = (n + 1 - to[1]) + (k + 1 - to[2])
    BY <1>6, <2>1
  <2>4. \A i, j, x, y \in Nat : /\ (x + 1 - (i + 1)) + (y + 1 - j) < (x + 1 - i) + (y + 1 - j)
                               /\ (x + 1 - i) + (y + 1 - (j + 1)) < (x + 1 - i) + (y + 1 - j)
    OBVIOUS
  <2>5. m[to] < m[at]
    <3>1. CASE to[1] = at[1] + 1 /\ to[2] = at[2]
      BY <1>2, <2>2, <2>3, <2>4, <3>1
    <3>2. CASE to[1] = at[1] /\ to[2] = at[2] + 1
      BY <1>2, <2>2, <2>3, <2>4, <3>2
    <3>. QED
      BY <2>1, <3>1, <3>2
  <2>. QED
    BY <2>5 DEF to
<1>8. \A at \in D : ~past(at) => Piece(low(at), high(at)) \in V /\ low(at) \in Int /\ high(at) \in Int
  <2>. SUFFICES ASSUME NEW at \in D, ~past(at)
                PROVE  Piece(low(at), high(at)) \in V /\ low(at) \in Int /\ high(at) \in Int
    OBVIOUS
  <2>1. at[1] \in 1..n /\ at[2] \in 1..k
    BY <1>3
  <2>2. low(at) \in Int /\ high(at) \in Int
    BY <1>2, <2>1 DEF Larger, Smaller
  <2>. HIDE DEF low, high
  <2>. QED
    BY <2>2, PieceType
<1>. HIDE DEF low, high
<1>9. \A at \in D, f \in [D -> V] : G[<<at, f>>] = IF past(at) THEN <<>>
                                       ELSE Piece(low(at), high(at)) \o f[next(at)]
  <2>1. \A at \in D, f \in [D -> V] : <<at, f>> \in D \X [D -> V]
    OBVIOUS
  <2>. QED
    BY <2>1
<1>. HIDE DEF G
<1>10. PICK f \in [D -> V] : \A at \in D : f[at] = G[<<at, f>>]
  <2>1. \A at \in D, g \in [D -> V] : G[<<at, g>>] \in V
    <3>. SUFFICES ASSUME NEW at \in D, NEW g \in [D -> V] PROVE G[<<at, g>>] \in V
      OBVIOUS
    <3>1. CASE past(at)
      <4>1. G[<<at, g>>] = <<>>
        BY <1>9, <3>1
      <4>. QED
        BY <4>1, EmptyList
    <3>2. CASE ~past(at)
      <4>1. g[next(at)] \in V /\ Piece(low(at), high(at)) \in V
        BY <1>5, <1>8, <3>2
      <4>2. Piece(low(at), high(at)) \o g[next(at)] \in V
        BY <4>1
      <4>. QED
        BY <1>9, <3>2, <4>2
    <3>. QED
      BY <3>1, <3>2
  <2>2. \A at \in D, g \in [D -> V], h \in [D -> V] :
            (\A y \in D : m[y] < m[at] => g[y] = h[y]) => G[<<at, g>>] = G[<<at, h>>]
    <3>. SUFFICES ASSUME NEW at \in D, NEW g \in [D -> V], NEW h \in [D -> V],
                         \A y \in D : m[y] < m[at] => g[y] = h[y]
                  PROVE  G[<<at, g>>] = G[<<at, h>>]
      OBVIOUS
    <3>1. ~past(at) => g[next(at)] = h[next(at)]
      BY <1>5, <1>7
    <3>2. CASE past(at)
      BY <1>9, <3>2
    <3>3. CASE ~past(at)
      BY <1>9, <3>1, <3>3
    <3>. QED
      BY <3>2, <3>3
  <2>3. V # {}
    OBVIOUS
  <2>. HIDE DEF V
  <2>4. LooksLower(D, V, m, G)
    BY <1>6, <2>1, <2>2, <2>3 DEF LooksLower
  <2>. QED
    BY <2>4, Recursion
<1>11. Solves(f)
  <2>1. \A at \in D : f[at] = IF past(at) THEN <<>> ELSE Piece(low(at), high(at)) \o f[next(at)]
    BY <1>9, <1>10
  <2>2. f = [at \in D |-> f[at]]
    OBVIOUS
  <2>. QED
    BY <2>1, <2>2
<1>12. Solves(from)
  <2>. HIDE DEF Solves
  <2>. QED
    BY <1>11
<1>. HIDE DEF from
<1>13. \A at \in D : from[at] = IF past(at) THEN <<>> ELSE Piece(low(at), high(at)) \o from[next(at)]
  BY <1>12
<1>. DEFINE InA(i, t) == \E p \in i..n : a[p].start <= t /\ t < a[p].end
            InB(j, t) == \E q \in j..k : b[q].start <= t /\ t < b[q].end
            Given(left, i, j) == /\ left \in Seq(Spans) /\ Real(left) /\ Lined(left)
                                 /\ \A t \in Int : Covers(left, t) <=> InA(i, t) /\ InB(j, t)
            P == {at \in D : Given(from[at], at[1], at[2])}
<1>14. \A i \in 1..n, t \in Int : /\ InA(i, t) <=> (a[i].start <= t /\ t < a[i].end) \/ InA(i + 1, t)
                                  /\ InA(i + 1, t) => a[i].end < t
  <2>. SUFFICES ASSUME NEW i \in 1..n, NEW t \in Int
                PROVE  /\ InA(i, t) <=> (a[i].start <= t /\ t < a[i].end) \/ InA(i + 1, t)
                       /\ InA(i + 1, t) => a[i].end < t
    OBVIOUS
  <2>1. \A p \in i + 1..n : p \in 1..n /\ i < p
    BY <1>2
  <2>2. \A p \in i + 1..n : a[i].end < a[p].start
    BY <1>2, <2>1 DEF Lined
  <2>3. InA(i + 1, t) => a[i].end < t
    BY <1>2, <2>1, <2>2
  <2>4. \A p : p \in i..n <=> p = i \/ p \in i + 1..n
    BY <1>2
  <2>. QED
    BY <2>3, <2>4
<1>15. \A j \in 1..k, t \in Int : /\ InB(j, t) <=> (b[j].start <= t /\ t < b[j].end) \/ InB(j + 1, t)
                                  /\ InB(j + 1, t) => b[j].end < t
  <2>. SUFFICES ASSUME NEW j \in 1..k, NEW t \in Int
                PROVE  /\ InB(j, t) <=> (b[j].start <= t /\ t < b[j].end) \/ InB(j + 1, t)
                       /\ InB(j + 1, t) => b[j].end < t
    OBVIOUS
  <2>1. \A p \in j + 1..k : p \in 1..k /\ j < p
    BY <1>2
  <2>2. \A p \in j + 1..k : b[j].end < b[p].start
    BY <1>2, <2>1 DEF Lined
  <2>3. InB(j + 1, t) => b[j].end < t
    BY <1>2, <2>1, <2>2
  <2>4. \A p : p \in j..k <=> p = j \/ p \in j + 1..k
    BY <1>2
  <2>. QED
    BY <2>3, <2>4
<1>16. ASSUME NEW at \in D, \A y \in D : m[y] < m[at] => y \in P
       PROVE  at \in P
  <2>1. CASE past(at)
    <3>1. from[at] = <<>>
      BY <1>13, <2>1
    <3>2. \A t : ~(InA(at[1], t) /\ InB(at[2], t))
      <4>1. at[1] > n \/ at[2] > k
        BY <2>1 DEF past
      <4>2. at[1] \in 1..n + 1 /\ at[2] \in 1..k + 1
        BY <1>3
      <4>3. at[1]..n = {} \/ at[2]..k = {}
        BY <1>2, <4>1, <4>2
      <4>. QED
        BY <4>3
    <3>. HIDE DEF InA, InB
    <3>. QED
      BY <3>1, <3>2, EmptyList
  <2>2. CASE ~past(at)
    <3>. DEFINE i == at[1]
                j == at[2]
                to == next(at)
                lo == low(at)
                hi == high(at)
                rest == from[to]
    <3>1. i \in 1..n /\ j \in 1..k
      BY <1>3, <2>2
    <3>2. /\ to \in D /\ m[to] < m[at]
          /\ \/ a[i].end < b[j].end /\ to[1] = i + 1 /\ to[2] = j
             \/ ~(a[i].end < b[j].end) /\ to[1] = i /\ to[2] = j + 1
      BY <1>5, <1>7, <2>2
    <3>3. Given(rest, to[1], to[2])
      BY <1>16, <3>2
    <3>4. from[at] = Piece(lo, hi) \o rest
      BY <1>13, <2>2
    <3>5. /\ lo \in Int /\ hi \in Int
          /\ lo = Larger(a[i].start, b[j].start) /\ hi = Smaller(a[i].end, b[j].end)
      BY <1>8, <2>2 DEF low, high
    <3>6. /\ a[i].start \in Int /\ a[i].end \in Int /\ a[i].start < a[i].end
          /\ b[j].start \in Int /\ b[j].end \in Int /\ b[j].start < b[j].end
      BY <1>2, <3>1
    <3>7. /\ rest \in Seq(Spans) /\ Real(rest) /\ Lined(rest)
          /\ \A t \in Int : Covers(rest, t) <=> InA(to[1], t) /\ InB(to[2], t)
      BY <3>3
    <3>8. /\ \A t \in Int : /\ InA(i, t) <=> (a[i].start <= t /\ t < a[i].end) \/ InA(i + 1, t)
                            /\ InA(i + 1, t) => a[i].end < t
          /\ \A t \in Int : /\ InB(j, t) <=> (b[j].start <= t /\ t < b[j].end) \/ InB(j + 1, t)
                            /\ InB(j + 1, t) => b[j].end < t
      BY <1>14, <1>15, <3>1
    <3>9. Given(from[at], i, j) <=> at \in P
      OBVIOUS
    <3>. HIDE DEF InA, InB, i, j, to, lo, hi, rest, P
    <3>10. \A t \in Int : Covers(rest, t) => hi + 1 <= t
      <4>. SUFFICES ASSUME NEW t \in Int, Covers(rest, t) PROVE hi + 1 <= t
        OBVIOUS
      <4>1. InA(to[1], t) /\ InB(to[2], t)
        BY <3>7
      <4>2. CASE a[i].end < b[j].end /\ to[1] = i + 1
        <5>1. a[i].end < t
          BY <3>8, <4>1, <4>2
        <5>2. hi = a[i].end
          BY <3>5, <3>6, <4>2 DEF Smaller
        <5>. QED
          BY <3>6, <5>1, <5>2
      <4>3. CASE ~(a[i].end < b[j].end) /\ to[2] = j + 1
        <5>1. b[j].end < t
          BY <3>8, <4>1, <4>3
        <5>2. hi = b[j].end
          BY <3>5, <3>6, <4>3 DEF Smaller
        <5>. QED
          BY <3>6, <5>1, <5>2
      <4>. QED
        BY <3>2, <4>2, <4>3
    <3>11. BeginsAt(rest, hi + 1)
      <4>1. /\ Len(rest) \in Nat /\ DOMAIN rest = 1..Len(rest)
            /\ \A p \in DOMAIN rest : rest[p].start \in Int /\ rest[p].end \in Int
        BY <3>7, SpansOf
      <4>2. \A p \in DOMAIN rest : Covers(rest, rest[p].start)
        <5>. SUFFICES ASSUME NEW p \in DOMAIN rest PROVE Covers(rest, rest[p].start)
          OBVIOUS
        <5>1. rest[p].start <= rest[p].start /\ rest[p].start < rest[p].end
          BY <3>7, <4>1 DEF Real
        <5>. QED
          BY <5>1 DEF Covers
      <4>. QED
        BY <3>5, <3>10, <4>1, <4>2 DEF BeginsAt
    <3>12. hi + 1 \in Int /\ hi < hi + 1
      BY <3>5
    <3>13. /\ Piece(lo, hi) \o rest \in Seq(Spans)
           /\ Real(Piece(lo, hi) \o rest)
           /\ \A t \in Int : Covers(Piece(lo, hi) \o rest, t)
                               <=> (lo <= t /\ t < hi) \/ Covers(rest, t)
           /\ Lined(Piece(lo, hi) \o rest)
      BY <3>5, <3>7, <3>11, <3>12, PieceAhead
    <3>14. \A t \in Int : (lo <= t /\ t < hi) \/ Covers(rest, t) <=> InA(i, t) /\ InB(j, t)
      <4>. SUFFICES ASSUME NEW t \in Int
                    PROVE  (lo <= t /\ t < hi) \/ Covers(rest, t) <=> InA(i, t) /\ InB(j, t)
        OBVIOUS
      <4>1. /\ InA(i, t) <=> (a[i].start <= t /\ t < a[i].end) \/ InA(i + 1, t)
            /\ InA(i + 1, t) => a[i].end < t
            /\ InB(j, t) <=> (b[j].start <= t /\ t < b[j].end) \/ InB(j + 1, t)
            /\ InB(j + 1, t) => b[j].end < t
            /\ Covers(rest, t) <=> InA(to[1], t) /\ InB(to[2], t)
        BY <3>7, <3>8
      <4>2. lo <= t /\ t < hi <=> /\ a[i].start <= t /\ t < a[i].end
                                  /\ b[j].start <= t /\ t < b[j].end
        <5>1. /\ lo <= t <=> a[i].start <= t /\ b[j].start <= t
              /\ t < hi <=> t < a[i].end /\ t < b[j].end
          BY <3>5, <3>6, BoundsOfBoth
        <5>. QED
          BY <5>1
      <4>3. CASE a[i].end < b[j].end /\ to[1] = i + 1 /\ to[2] = j
        BY <3>6, <4>1, <4>2, <4>3
      <4>4. CASE ~(a[i].end < b[j].end) /\ to[1] = i /\ to[2] = j + 1
        BY <3>6, <4>1, <4>2, <4>4
      <4>. QED
        BY <3>2, <4>3, <4>4
    <3>15. Given(from[at], i, j)
      BY <3>4, <3>13, <3>14
    <3>. QED
      BY <3>9, <3>15
  <2>. QED
    BY <2>1, <2>2
<1>17. \A at \in D : at \in P
  <2>. HIDE DEF P
  <2>. QED
    BY <1>6, <1>16, ByMeasure
<1>18. Given(from[<<1, 1>>], 1, 1)
  <2>. DEFINE at == <<1, 1>>
  <2>1. at \in D /\ at[1] = 1 /\ at[2] = 1
    BY <1>2, <1>4
  <2>. HIDE DEF at
  <2>2. at \in P
    BY <1>17, <2>1
  <2>3. Given(from[at], at[1], at[2])
    BY <2>2
  <2>4. Given(from[at], 1, 1)
    BY <2>1, <2>3
  <2>. QED
    BY <2>4 DEF at
<1>19. \A t \in Int : InA(1, t) /\ InB(1, t) <=> Covers(a, t) /\ Covers(b, t)
  BY <1>2 DEF Covers
<1>. HIDE DEF InA, InB
<1>. QED
  BY <1>1, <1>18, <1>19

\* The hours of a place within others: what both cover.
LEMMA WithinExact ==
    ASSUME NEW plan, plan = None \/ IsPlan(plan), NEW z, IsZone(z),
           NEW range, range.from \in Int, range.to \in Int, range.from <= range.to + 1,
           NEW open \in Seq(Spans), Real(open), Lined(open)
    PROVE  LET free == Within(plan, range, z, open)
           IN  /\ free \in Seq(Spans) /\ Real(free) /\ Lined(free)
               /\ \A t \in Int : Covers(free, t) <=>
                     /\ Covers(open, t)
                     /\ plan # None => Covers(WindowsForRange(plan, range, z), t)
<1>1. CASE plan = None
  BY <1>1 DEF Within
<1>2. CASE plan # None
  <2>. DEFINE theirs == WindowsForRange(plan, range, z)
  <2>1. theirs \in Seq(Spans) /\ Real(theirs) /\ Lined(theirs)
    BY <1>2, RangeExact
  <2>2. Within(plan, range, z, open) = IntersectIntervals(theirs, open)
    BY <1>2 DEF Within
  <2>. HIDE DEF theirs
  <2>3. /\ IntersectIntervals(theirs, open) \in Seq(Spans)
        /\ Real(IntersectIntervals(theirs, open)) /\ Lined(IntersectIntervals(theirs, open))
        /\ \A t \in Int : Covers(IntersectIntervals(theirs, open), t) <=> Covers(theirs, t) /\ Covers(open, t)
    BY <2>1, IntersectExact
  <2>. QED
    BY <1>2, <2>2, <2>3 DEF theirs
<1>. QED
  BY <1>1, <1>2

\* No span is longer than the longest.
LEMMA LongestExact ==
    ASSUME NEW spans \in Seq(Spans), Real(spans)
    PROVE  /\ Longest(spans) \in Nat
           /\ \A i \in DOMAIN spans : spans[i].end - spans[i].start <= Longest(spans)
<1>. DEFINE g == [i \in DOMAIN spans |-> spans[i].end - spans[i].start]
            lengths == {g[i] : i \in DOMAIN spans}
<1>1. /\ DOMAIN spans = 1..Len(spans) /\ Len(spans) \in Nat
      /\ \A i \in DOMAIN spans : /\ spans[i].start \in Int /\ spans[i].end \in Int
                                 /\ spans[i].start < spans[i].end
  BY SpansOf DEF Real
<1>2. \A i \in DOMAIN spans : g[i] = spans[i].end - spans[i].start /\ g[i] \in Nat
  BY <1>1
<1>3. Longest(spans) = Max({0} \cup lengths)
  <2>1. lengths = {spans[i].end - spans[i].start : i \in DOMAIN spans}
    BY <1>2
  <2>. HIDE DEF lengths
  <2>. QED
    BY <2>1 DEF Longest
<1>. HIDE DEF g
<1>4. IsFiniteSet(lengths)
  <2>1. IsFiniteSet(DOMAIN spans)
    BY <1>1, FS_Interval
  <2>. QED
    BY <2>1, ImageFinite
<1>5. \A i \in DOMAIN spans : g[i] \in {0} \cup lengths
  OBVIOUS
<1>6. {0} \cup lengths \in SUBSET Nat /\ {0} \cup lengths # {} /\ IsFiniteSet({0} \cup lengths)
  <2>1. lengths \subseteq Nat
    BY <1>2
  <2>2. IsFiniteSet({0})
    BY FS_Singleton
  <2>. HIDE DEF lengths
  <2>3. IsFiniteSet({0} \cup lengths)
    BY <1>4, <2>2, FS_Union, Zenon
  <2>. QED
    BY <2>1, <2>3
<1>. HIDE DEF lengths
<1>7. Max({0} \cup lengths) \in {0} \cup lengths /\ \A x \in {0} \cup lengths : Max({0} \cup lengths) >= x
  BY <1>6, Extremes
<1>8. Longest(spans) \in Nat /\ \A i \in DOMAIN spans : Longest(spans) >= g[i]
  BY <1>3, <1>5, <1>6, <1>7
<1>. QED
  BY <1>2, <1>8

\* Halving finds the first span that starts late enough to reach over an instant.
LEMMA RelevantExact ==
    ASSUME NEW busy \in Seq(Spans), Rising(busy), NEW timeline, timeline.busy = busy,
           NEW from, Threshold(timeline, from) \in Int
    PROVE  /\ FirstRelevantSpan(timeline, from) \in 1..Len(busy) + 1
           /\ \A i \in DOMAIN busy :
                 i < FirstRelevantSpan(timeline, from) <=> busy[i].start <= Threshold(timeline, from)
<1>. DEFINE n == Len(busy)
            instant == Threshold(timeline, from)
            D == (0..n) \X (0..n)
            V == 0..n
            middle(at) == (at[1] + at[2]) \div 2
            next(at) == IF busy[middle(at) + 1].start <= instant
                        THEN <<middle(at) + 1, at[2]>> ELSE <<at[1], middle(at)>>
            Solves(f) == f = [at \in D |-> IF at[1] >= at[2] THEN at[1] ELSE f[next(at)]]
            seek == CHOOSE f : Solves(f)
            m == [at \in D |-> IF at[1] >= at[2] THEN 0 ELSE at[2] - at[1]]
            G == [p \in D \X [D -> V] |-> IF p[1][1] >= p[1][2] THEN p[1][1] ELSE p[2][next(p[1])]]
<1>1. FirstRelevantSpan(timeline, from) = seek[<<0, n>>] + 1
  BY Zenon DEF FirstRelevantSpan
<1>2. /\ n \in Nat /\ DOMAIN busy = 1..n
      /\ \A i \in DOMAIN busy : busy[i].start \in Int
  BY SpansOf
<1>. HIDE DEF n
<1>3. \A at \in D : /\ at[1] \in 0..n /\ at[2] \in 0..n
                    /\ at[1] \in Nat /\ at[2] \in Nat
                    /\ at[1] >= at[2] \/ at[1] < at[2]
                    /\ at[1] < at[2] => /\ middle(at) \in at[1]..at[2] - 1 /\ middle(at) \in 0..n
                                        /\ middle(at) + 1 \in 1..n
  BY <1>2, SMTT(30)
<1>4. \A a, b \in 0..n : <<a, b>> \in D /\ <<a, b>>[1] = a /\ <<a, b>>[2] = b
  OBVIOUS
<1>. HIDE DEF middle, D
<1>5. ASSUME NEW at \in D, at[1] < at[2]
      PROVE  /\ next(at) \in D
             /\ \/ /\ busy[middle(at) + 1].start <= instant
                   /\ next(at)[1] = middle(at) + 1 /\ next(at)[2] = at[2]
                \/ /\ ~(busy[middle(at) + 1].start <= instant)
                   /\ next(at)[1] = at[1] /\ next(at)[2] = middle(at)
  <2>1. /\ at[1] \in 0..n /\ at[2] \in 0..n
        /\ middle(at) \in 0..n /\ middle(at) + 1 \in 0..n
    BY <1>2, <1>3, <1>5
  <2>2. CASE busy[middle(at) + 1].start <= instant
    <3>. DEFINE new == <<middle(at) + 1, at[2]>>
    <3>1. next(at) = new
      BY <2>2, Zenon
    <3>2. new \in D /\ new[1] = middle(at) + 1 /\ new[2] = at[2]
      BY <1>4, <2>1
    <3>. HIDE DEF next, new
    <3>. QED
      BY <2>2, <3>1, <3>2, Zenon
  <2>3. CASE ~(busy[middle(at) + 1].start <= instant)
    <3>. DEFINE new == <<at[1], middle(at)>>
    <3>1. next(at) = new
      BY <2>3, Zenon
    <3>2. new \in D /\ new[1] = at[1] /\ new[2] = middle(at)
      BY <1>4, <2>1
    <3>. HIDE DEF next, new
    <3>. QED
      BY <2>3, <3>1, <3>2, Zenon
  <2>. QED
    BY <2>2, <2>3
<1>. HIDE DEF next
<1>6. m \in [D -> Nat] /\ \A at \in D : m[at] = IF at[1] >= at[2] THEN 0 ELSE at[2] - at[1]
  BY <1>3
<1>. HIDE DEF m
<1>7. ASSUME NEW at \in D, at[1] < at[2]
      PROVE  m[next(at)] < m[at]
  <2>. DEFINE to == next(at)
              mid == middle(at)
  <2>1. /\ to \in D
        /\ \/ to[1] = mid + 1 /\ to[2] = at[2]
           \/ to[1] = at[1] /\ to[2] = mid
    BY <1>5, <1>7
  <2>2. mid \in Nat /\ at[1] <= mid /\ mid < at[2]
    BY <1>3, <1>7
  <2>. HIDE DEF to, mid
  <2>3. at[1] \in Nat /\ at[2] \in Nat /\ to[1] \in Nat /\ to[2] \in Nat
    BY <1>3, <2>1
  <2>4. /\ m[at] = IF at[1] >= at[2] THEN 0 ELSE at[2] - at[1]
        /\ m[to] = IF to[1] >= to[2] THEN 0 ELSE to[2] - to[1]
    BY <1>6, <2>1
  <2>5. \A a, b, c \in Nat : a <= c /\ c < b =>
            /\ (IF a >= b THEN 0 ELSE b - a) = b - a
            /\ (IF c + 1 >= b THEN 0 ELSE b - (c + 1)) < b - a
            /\ (IF a >= c THEN 0 ELSE c - a) < b - a
    OBVIOUS
  <2>6. m[to] < m[at]
    <3>1. CASE to[1] = mid + 1 /\ to[2] = at[2]
      BY <2>2, <2>3, <2>4, <2>5, <3>1
    <3>2. CASE to[1] = at[1] /\ to[2] = mid
      BY <2>2, <2>3, <2>4, <2>5, <3>2
    <3>. QED
      BY <2>1, <3>1, <3>2
  <2>. QED
    BY <2>6 DEF to
<1>8. V # {} /\ \A at \in D : at[1] \in V
  <2>1. 0 \in 0..n
    BY <1>2
  <2>2. \A at \in D : at[1] \in 0..n
    BY <1>3
  <2>. QED
    BY <2>1, <2>2
<1>. HIDE DEF V
<1>9. \A at \in D, f \in [D -> V] : G[<<at, f>>] = IF at[1] >= at[2] THEN at[1] ELSE f[next(at)]
  <2>1. \A at \in D, f \in [D -> V] : <<at, f>> \in D \X [D -> V]
    OBVIOUS
  <2>. QED
    BY <2>1
<1>. HIDE DEF G
<1>10. PICK f \in [D -> V] : \A at \in D : f[at] = G[<<at, f>>]
  <2>1. \A at \in D, g \in [D -> V] : G[<<at, g>>] \in V
    <3>. SUFFICES ASSUME NEW at \in D, NEW g \in [D -> V] PROVE G[<<at, g>>] \in V
      OBVIOUS
    <3>1. at[1] < at[2] => g[next(at)] \in V
      BY <1>5
    <3>. QED
      BY <1>3, <1>8, <1>9, <3>1
  <2>2. \A at \in D, g \in [D -> V], h \in [D -> V] :
            (\A y \in D : m[y] < m[at] => g[y] = h[y]) => G[<<at, g>>] = G[<<at, h>>]
    <3>. SUFFICES ASSUME NEW at \in D, NEW g \in [D -> V], NEW h \in [D -> V],
                         \A y \in D : m[y] < m[at] => g[y] = h[y]
                  PROVE  G[<<at, g>>] = G[<<at, h>>]
      OBVIOUS
    <3>1. /\ G[<<at, g>>] = IF at[1] >= at[2] THEN at[1] ELSE g[next(at)]
          /\ G[<<at, h>>] = IF at[1] >= at[2] THEN at[1] ELSE h[next(at)]
      BY <1>9
    <3>2. at[1] < at[2] => g[next(at)] = h[next(at)]
      BY <1>5, <1>7
    <3>. QED
      BY <1>3, <3>1, <3>2
  <2>3. LooksLower(D, V, m, G)
    BY <1>6, <1>8, <2>1, <2>2 DEF LooksLower
  <2>. QED
    BY <2>3, Recursion
<1>11. Solves(f)
  <2>1. \A at \in D : f[at] = IF at[1] >= at[2] THEN at[1] ELSE f[next(at)]
    BY <1>9, <1>10
  <2>2. f = [at \in D |-> f[at]]
    OBVIOUS
  <2>. QED
    BY <2>1, <2>2
<1>12. Solves(seek)
  <2>. HIDE DEF Solves
  <2>. QED
    BY <1>11
<1>. HIDE DEF seek
<1>13. \A at \in D : seek[at] = IF at[1] >= at[2] THEN at[1] ELSE seek[next(at)]
  BY <1>12
<1>. HIDE DEF instant
<1>. DEFINE Found(k) == k \in 0..n /\ \A i \in 1..n : i <= k <=> busy[i].start <= instant
            Holds(at) == /\ at[1] <= at[2]
                         /\ \A i \in 1..n : i <= at[1] => busy[i].start <= instant
                         /\ \A i \in 1..n : at[2] < i => busy[i].start > instant
            P == {at \in D : Holds(at) => Found(seek[at])}
<1>14. \A i, j \in 1..n : i <= j => busy[i].start <= busy[j].start
  <2>. SUFFICES ASSUME NEW i \in 1..n, NEW j \in 1..n, i <= j PROVE busy[i].start <= busy[j].start
    OBVIOUS
  <2>1. CASE i = j
    BY <1>2, <2>1
  <2>2. CASE i < j
    BY <1>2, <2>2 DEF Rising
  <2>. QED
    BY <1>2, <2>1, <2>2
<1>15. ASSUME NEW at \in D, \A y \in D : m[y] < m[at] => y \in P
       PROVE  at \in P
  <2>1. SUFFICES ASSUME Holds(at) PROVE Found(seek[at])
    OBVIOUS
  <2>2. /\ at[1] \in Nat /\ at[2] \in Nat /\ at[1] \in 0..n /\ at[2] \in 0..n
        /\ at[1] >= at[2] \/ at[1] < at[2]
    BY <1>3
  <2>0. instant \in Int
    BY DEF instant
  <2>3. CASE at[1] >= at[2]
    <3>1. seek[at] = at[1] /\ at[1] = at[2]
      BY <1>13, <2>1, <2>2, <2>3
    <3>2. \A i \in 1..n : i <= at[1] <=> busy[i].start <= instant
      <4>. SUFFICES ASSUME NEW i \in 1..n PROVE i <= at[1] <=> busy[i].start <= instant
        OBVIOUS
      <4>1. CASE i <= at[1]
        BY <2>1, <4>1
      <4>2. CASE ~(i <= at[1])
        <5>1. at[2] < i
          BY <1>2, <2>2, <3>1, <4>2
        <5>2. busy[i].start > instant /\ busy[i].start \in Int
          BY <1>2, <2>1, <5>1
        <5>. QED
          BY <2>0, <4>2, <5>2
      <4>. QED
        BY <4>1, <4>2
    <3>. QED
      BY <2>2, <3>1, <3>2
  <2>4. CASE at[1] < at[2]
    <3>. DEFINE to == next(at)
                mid == middle(at)
    <3>1. /\ to \in D /\ m[to] < m[at] /\ mid \in at[1]..at[2] - 1 /\ mid \in 0..n /\ mid + 1 \in 1..n
          /\ \/ /\ busy[mid + 1].start <= instant
                /\ to[1] = mid + 1 /\ to[2] = at[2]
             \/ /\ ~(busy[mid + 1].start <= instant)
                /\ to[1] = at[1] /\ to[2] = mid
      BY <1>3, <1>5, <1>7, <2>4
    <3>2. seek[at] = seek[to]
      BY <1>13, <2>2, <2>4
    <3>. HIDE DEF to, mid
    <3>5. mid \in Nat /\ at[1] <= mid /\ mid + 1 <= at[2] /\ mid <= at[2]
      BY <1>2, <2>2, <3>1
    <3>3. Holds(to)
      <4>1. CASE busy[mid + 1].start <= instant
        <5>1. to[1] = mid + 1 /\ to[2] = at[2]
          BY <3>1, <4>1
        <5>3. \A i \in 1..n : i <= mid + 1 => busy[i].start <= instant
          <6>. SUFFICES ASSUME NEW i \in 1..n, i <= mid + 1 PROVE busy[i].start <= instant
            OBVIOUS
          <6>2. busy[i].start <= busy[mid + 1].start
            BY <1>14, <3>1
          <6>3. busy[i].start \in Int /\ busy[mid + 1].start \in Int
            BY <1>2, <3>1
          <6>. QED
            BY <2>0, <4>1, <6>2, <6>3
        <5>. QED
          BY <2>1, <3>5, <5>1, <5>3
      <4>2. CASE ~(busy[mid + 1].start <= instant)
        <5>1. to[1] = at[1] /\ to[2] = mid
          BY <3>1, <4>2
        <5>3. \A i \in 1..n : mid < i => busy[i].start > instant
          <6>. SUFFICES ASSUME NEW i \in 1..n, mid < i PROVE busy[i].start > instant
            OBVIOUS
          <6>1. mid + 1 <= i
            BY <3>5
          <6>2. busy[mid + 1].start <= busy[i].start
            BY <1>14, <3>1, <6>1
          <6>3. busy[i].start \in Int /\ busy[mid + 1].start \in Int
            BY <1>2, <3>1
          <6>. QED
            BY <2>0, <4>2, <6>2, <6>3
        <5>. QED
          BY <2>1, <3>5, <5>1, <5>3
      <4>. QED
        BY <4>1, <4>2
    <3>4. Found(seek[to])
      <4>1. to \in P
        BY <1>15, <3>1
      <4>. QED
        BY <3>3, <4>1
    <3>. QED
      BY <3>2, <3>4
  <2>. QED
    BY <2>2, <2>3, <2>4
<1>16. \A at \in D : at \in P
  <2>. HIDE DEF P
  <2>. QED
    BY <1>6, <1>15, ByMeasure
<1>17. Found(seek[<<0, n>>])
  <2>. DEFINE at == <<0, n>>
  <2>1. at \in D /\ at[1] = 0 /\ at[2] = n
    BY <1>2, <1>4
  <2>. HIDE DEF at
  <2>2. Holds(at)
    BY <1>2, <2>1
  <2>3. at \in P
    BY <1>16, <2>1
  <2>. QED
    BY <2>2, <2>3 DEF at
<1>. DEFINE k == seek[<<0, n>>]
<1>18. k \in 0..n /\ \A i \in 1..n : i <= k <=> busy[i].start <= instant
  BY <1>17
<1>. HIDE DEF k
<1>19. k + 1 \in 1..n + 1 /\ \A i \in 1..n : i < k + 1 <=> i <= k
  BY <1>2, <1>18
<1>. QED
  BY <1>1, <1>2, <1>18, <1>19 DEF k, n, instant

\* A resource is held during a stretch of time when a span of its timeline meets it.
LEMMA HeldExact ==
    ASSUME NEW busy \in Seq(Spans), Rising(busy), Real(busy), NEW free,
           NEW from \in Int, NEW to \in Int
    PROVE  IsHeldDuring(Timeline(free, busy), Interval(from, to)) <=>
              \E i \in DOMAIN busy : busy[i].start < to /\ from < busy[i].end
<1>. DEFINE line == Timeline(free, busy)
            first == FirstRelevantSpan(line, from)
            longest == Longest(busy)
<1>1. line.busy = busy /\ line.longest = longest
  BY DEF Timeline
<1>2. /\ Len(busy) \in Nat /\ DOMAIN busy = 1..Len(busy)
      /\ \A i \in DOMAIN busy : busy[i].start \in Int /\ busy[i].end \in Int
  BY SpansOf
<1>3. longest \in Nat /\ \A i \in DOMAIN busy : busy[i].end - busy[i].start <= longest
  BY LongestExact
<1>. HIDE DEF line, longest
<1>4. Threshold(line, from) = from - longest /\ from - longest \in Int
  BY <1>1, <1>3 DEF Threshold
<1>5. /\ first \in 1..Len(busy) + 1
      /\ \A i \in DOMAIN busy : i < first <=> busy[i].start <= from - longest
  BY <1>1, <1>4, RelevantExact
<1>6. IsHeldDuring(line, Interval(from, to)) <=>
          \E i \in first..Len(busy) : /\ busy[i].end > from
                                      /\ \A j \in first..i : busy[j].start < to
  BY <1>1 DEF IsHeldDuring, Interval
<1>. HIDE DEF first
<1>7. ASSUME NEW i \in first..Len(busy), busy[i].end > from, \A j \in first..i : busy[j].start < to
      PROVE  \E k \in DOMAIN busy : busy[k].start < to /\ from < busy[k].end
  <2>1. i \in DOMAIN busy /\ i \in first..i
    BY <1>2, <1>5
  <2>2. busy[i].start < to /\ from < busy[i].end
    BY <1>2, <1>7, <2>1
  <2>. QED
    BY <2>1, <2>2
<1>8. ASSUME NEW i \in DOMAIN busy, busy[i].start < to, from < busy[i].end
      PROVE  \E k \in first..Len(busy) : /\ busy[k].end > from
                                         /\ \A j \in first..k : busy[j].start < to
  <2>1. ~(i < first)
    <3>. SUFFICES ASSUME i < first PROVE FALSE
      OBVIOUS
    <3>1. busy[i].start <= from - longest
      BY <1>5
    <3>. QED
      BY <1>2, <1>3, <1>8, <3>1
  <2>2. i \in first..Len(busy)
    BY <1>2, <1>5, <2>1
  <2>3. \A j \in first..i : busy[j].start < to
    <3>. SUFFICES ASSUME NEW j \in first..i PROVE busy[j].start < to
      OBVIOUS
    <3>1. j \in DOMAIN busy /\ (j = i \/ j < i)
      BY <1>2, <1>5, <2>2
    <3>2. busy[j].start <= busy[i].start
      BY <1>2, <3>1 DEF Rising
    <3>. QED
      BY <1>2, <1>8, <3>1, <3>2
  <2>4. busy[i].end > from
    BY <1>2, <1>8
  <2>. QED
    BY <2>2, <2>3, <2>4
<1>. QED
  BY <1>6, <1>7, <1>8 DEF line

\* A start is on the grid when it is the first instant to show its time, and the grid has it.
LEMMA GridExact ==
    ASSUME IsZone(zone), NEW svc \in Services, NEW start \in Starts
    PROVE  IsOnGrid(svc, start, zone) <=>
              /\ WallClock(start, zone).minute % Offer[svc].step = 0
              /\ \A t \in Instants : WallClock(t, zone) = WallClock(start, zone) => start <= t
<1>. DEFINE w == WallClock(start, zone)
            wall == w.date * Day + w.minute
            first == ZonedTimeToEpoch(w.date, w.minute, zone)
            low == Min(Days)
            shows(u) == u + ZoneOffset(u, zone) = wall
<1>1. Days \in SUBSET Nat /\ Min(Days) \in Days /\ Max(Days) \in Days /\ \A d \in Days : low <= d
  BY CalendarConstants, Extremes
<1>2. /\ low \in Nat /\ Max(Days) \in Nat
      /\ Instants = low * Day - Day .. (Max(Days) + 2) * Day
  BY <1>1 DEF Instants
<1>3. start \in Instants /\ w.date \in Days /\ low <= w.date
  BY <1>1 DEF Starts, LocalDateOf
<1>4. /\ low * Day \in Int /\ (Max(Days) + 2) * Day \in Int /\ Day \in Nat \ {0}
      /\ start \in Int
  BY <1>2, <1>3, DayIsReal
<1>5. /\ w.date \in Nat /\ w.minute \in 0..Day - 1
      /\ w = [date |-> w.date, minute |-> w.minute]
  <2>1. start + ZoneOffset(start, zone) \in Int
    BY <1>4 DEF ZoneOffset, IsZone
  <2>2. (start + ZoneOffset(start, zone)) % Day \in 0..Day - 1
    BY <2>1, DayIsReal
  <2>. QED
    BY <1>1, <1>3, <2>2 DEF WallClock
<1>. HIDE DEF w
<1>6. wall \in Int /\ low * Day <= wall
  <2>1. \A a, b \in Nat : a <= b => a * Day <= b * Day
    BY DayIsReal
  <2>2. low * Day <= w.date * Day /\ w.date * Day \in Int
    BY <1>2, <1>3, <1>5, <2>1, DayIsReal
  <2>. QED
    BY <1>4, <1>5, <2>2
<1>7. \A u \in Int : WallClock(u, zone) = w <=> shows(u)
  BY <1>5, ShownAt
<1>8. shows(start)
  BY <1>4, <1>7 DEF w
<1>9. /\ first \in wall - Day + 1..wall + Day - 1
      /\ \A u \in Int : shows(u) => shows(first) /\ first <= u
  BY <1>5, <1>6, EpochOf
<1>10. first \in Int /\ shows(first) /\ first <= start
  BY <1>4, <1>6, <1>8, <1>9
<1>11. first \in Instants
  <2>1. low * Day - Day <= first
    BY <1>4, <1>6, <1>9, <1>10
  <2>2. first <= (Max(Days) + 2) * Day
    BY <1>2, <1>3, <1>4, <1>10
  <2>. QED
    BY <1>2, <1>4, <1>10, <2>1, <2>2
<1>12. IsOnGrid(svc, start, zone) <=> w.minute % Offer[svc].step = 0 /\ first = start
  BY DEF IsOnGrid, w
<1>. HIDE DEF wall, shows, first
<1>13. ASSUME first = start
       PROVE  \A t \in Instants : WallClock(t, zone) = w => start <= t
  <2>1. \A t \in Instants : t \in Int
    BY <1>2, <1>4
  <2>. QED
    BY <1>7, <1>9, <1>13, <2>1
<1>14. ASSUME \A t \in Instants : WallClock(t, zone) = w => start <= t
       PROVE  first = start
  <2>1. start <= first
    BY <1>7, <1>10, <1>11, <1>14
  <2>. QED
    BY <1>4, <1>10, <2>1
<1>. QED
  BY <1>12, <1>13, <1>14 DEF w

\* How far a zone is ahead at most, and at least.
Most(z)  == Larger(z.before, z.after)
Least(z) == Smaller(z.before, z.after)

\* What falls on a date is a matter of that day, up to the offset of the zone.
LEMMA FallsNear ==
    ASSUME NEW ranges \in Ranges, NEW z, IsZone(z), NEW date \in Int, NEW t \in Int,
           Falls(ranges, date, z, t)
    PROVE  date * Day <= t + Most(z) /\ t + Least(z) < date * Day + Day
<1>1. /\ Day \in Nat \ {0} /\ z.at \in Int /\ z.before \in Int /\ z.after \in Int
      /\ date * Day \in Int
  BY DayIsReal DEF IsZone
<1>. DEFINE wall == date * Day
<1>. HIDE DEF wall
<1>2. PICK i \in DOMAIN ranges : /\ ZonedTimeToEpoch(date, ranges[i].start, z) <= t
                                 /\ t < ZonedTimeToEpoch(date, ranges[i].end, z)
  BY DEF Falls
<1>. DEFINE s == ranges[i].start
            e == ranges[i].end
            from == ZonedTimeToEpoch(date, s, z)
            to   == ZonedTimeToEpoch(date, e, z)
<1>3. s \in 0..Day /\ e \in 0..Day /\ s \in Int /\ e \in Int
  BY <1>1, RangesOf
<1>4. from <= t /\ t < to
  BY <1>2
<1>5. from \in Int /\ to \in Int
  BY <1>3, EpochIsInt
<1>6. from = (wall + s) - z.before \/ from = (wall + s) - z.after
  <2>1. /\ from < z.at => from = (wall + s) - z.before
        /\ from >= z.at => from = (wall + s) - z.after \/ from = (wall + s) - z.before
    BY <1>3, EpochAt DEF wall
  <2>. HIDE DEF from, s
  <2>. QED
    BY <1>1, <1>5, <2>1
<1>7. to = (wall + e) - z.before \/ to = (wall + e) - z.after
  <2>1. /\ to < z.at => to = (wall + e) - z.before
        /\ to >= z.at => to = (wall + e) - z.after \/ to = (wall + e) - z.before
    BY <1>3, EpochAt DEF wall
  <2>. HIDE DEF to, e
  <2>. QED
    BY <1>1, <1>5, <2>1
<1>8. wall \in Int
  BY <1>1 DEF wall
<1>9. /\ Most(z) \in Int /\ Least(z) \in Int
      /\ Most(z) >= z.before /\ Most(z) >= z.after
      /\ Least(z) <= z.before /\ Least(z) <= z.after
  BY <1>1 DEF Most, Least, Larger, Smaller
<1>. HIDE DEF from, to, s, e
<1>10. wall <= t + Most(z)
  BY <1>1, <1>3, <1>4, <1>5, <1>6, <1>8, <1>9
<1>11. t + Least(z) < wall + Day
  BY <1>1, <1>3, <1>4, <1>5, <1>7, <1>8, <1>9
<1>. QED
  BY <1>10, <1>11 DEF wall

\* What is open less than a day from a start, by what the clocks change less, is open on the
\* day of the start, the day before or the day after.
LEMMA NearDays ==
    ASSUME NEW plan, IsPlan(plan), NEW z, IsZone(z), NEW start \in Int, NEW t \in Int,
           NEW date \in Int, OpenOn(plan, date, z, t),
           start - (Day - Distance(z.after, z.before)) <= t,
           t < start + (Day - Distance(z.after, z.before))
    PROVE  date \in LocalDateOf(start, z) - 1..LocalDateOf(start, z) + 1
<1>. DEFINE day == LocalDateOf(start, z)
            off == ZoneOffset(start, z)
<1>1. /\ Day \in Nat \ {0} /\ z.before \in Int /\ z.after \in Int /\ z.at \in Int
  BY DayIsReal DEF IsZone
<1>2. off \in Int /\ Least(z) <= off /\ off <= Most(z) /\ Least(z) \in Int /\ Most(z) \in Int
  BY <1>1 DEF ZoneOffset, Least, Most, Larger, Smaller
<1>3. Distance(z.after, z.before) = Most(z) - Least(z)
  BY <1>1 DEF Distance, Most, Least, Larger, Smaller
<1>4. day \in Int /\ day * Day <= start + off /\ start + off < day * Day + Day
  <2>. DEFINE x == start + off
  <2>1. x \in Int
    BY <1>2
  <2>2. day = x \div Day
    BY DEF LocalDateOf, WallClock
  <2>. HIDE DEF x
  <2>3. x \div Day \in Int /\ x % Day \in 0..Day - 1 /\ x = (x \div Day) * Day + (x % Day)
    BY <2>1, DayIsReal
  <2>4. (x \div Day) * Day \in Int
    BY <1>1, <2>3
  <2>5. (x \div Day) * Day <= x /\ x < (x \div Day) * Day + Day
    <3>. DEFINE a == (x \div Day) * Day
                b == x % Day
    <3>1. x = a + b /\ a \in Int /\ b \in 0..Day - 1
      BY <2>3, <2>4
    <3>. HIDE DEF a, b
    <3>2. a <= x /\ x < a + Day
      BY <1>1, <2>1, <3>1
    <3>. QED
      BY <3>2 DEF a
  <2>. QED
    BY <2>2, <2>3, <2>5 DEF x
<1>5. date * Day <= t + Most(z) /\ t + Least(z) < date * Day + Day
  <2>1. /\ BaseDay(plan, date) \in DayHours
        /\ \A i \in DOMAIN plan.exceptions : plan.exceptions[i].day \in DayHours
    BY BaseDayType
  <2>2. \A i \in OfKind(plan, "additional", date) : i \in DOMAIN plan.exceptions
    BY DEF OfKind
  <2>3. PICK d \in DayHours : WorkedAt(d, date, z, t)
    BY <2>1, <2>2 DEF OpenOn
  <2>4. d.intervals \in Ranges /\ Falls(d.intervals, date, z, t)
    BY <2>3 DEF DayHours, WorkedAt
  <2>. QED
    BY <2>4, FallsNear
<1>6. date * Day \in Int /\ day * Day \in Int
  BY <1>1, <1>4
<1>7. start - (Day - (Most(z) - Least(z))) <= t /\ t < start + (Day - (Most(z) - Least(z)))
  BY <1>3
<1>. HIDE DEF day, off
<1>8. \A a, b \in Int : a < b => a * Day + Day <= b * Day
  BY DaysApart
<1>9. ~(day + 1 < date)
  <2>. SUFFICES ASSUME day + 1 < date PROVE FALSE
    OBVIOUS
  <2>1. (day + 1) * Day + Day <= date * Day
    BY <1>4, <1>8
  <2>2. day * Day + Day <= (day + 1) * Day /\ (day + 1) * Day \in Int
    BY <1>1, <1>4, <1>8
  <2>. DEFINE a == day * Day
              b == date * Day
              c == (day + 1) * Day
  <2>3. a \in Int /\ b \in Int /\ c \in Int /\ c + Day <= b /\ a + Day <= c
    BY <1>6, <2>1, <2>2
  <2>4. b <= t + Most(z) /\ start + off < a + Day
    BY <1>4, <1>5
  <2>. HIDE DEF a, b, c
  <2>. QED
    BY <1>1, <1>2, <1>7, <2>3, <2>4
<1>10. ~(date < day - 1)
  <2>. SUFFICES ASSUME date < day - 1 PROVE FALSE
    OBVIOUS
  <2>1. date * Day + Day <= (day - 1) * Day
    BY <1>4, <1>8
  <2>2. (day - 1) * Day + Day <= day * Day /\ (day - 1) * Day \in Int
    BY <1>1, <1>4, <1>8
  <2>. DEFINE a == day * Day
              b == date * Day
              c == (day - 1) * Day
  <2>3. a \in Int /\ b \in Int /\ c \in Int /\ b + Day <= c /\ c + Day <= a
    BY <1>6, <2>1, <2>2
  <2>4. t + Least(z) < b + Day /\ a <= start + off
    BY <1>4, <1>5
  <2>. HIDE DEF a, b, c
  <2>. QED
    BY <1>1, <1>2, <1>7, <2>3, <2>4
<1>11. date \in day - 1..day + 1
  BY <1>4, <1>9, <1>10
<1>. QED
  BY <1>11 DEF day

\* Of the windows of all days, those around the day of a start are the ones near it.
LEMMA NearWindows ==
    ASSUME NEW plan, IsPlan(plan), IsZone(zone), NEW start \in Int, LocalDateOf(start, zone) \in Days,
           NEW t \in Int,
           start - (Day - Distance(zone.after, zone.before)) <= t,
           t < start + (Day - Distance(zone.after, zone.before))
    PROVE  LET day == LocalDateOf(start, zone)
           IN  t \in OpenIn(plan) <=>
                  Covers(WindowsForRange(plan, Around([from |-> day, to |-> day]), zone), t)
<1>. DEFINE day == LocalDateOf(start, zone)
            near == Around([from |-> day, to |-> day])
<1>1. /\ Days \in SUBSET Nat /\ Min(Days) \in Days /\ Max(Days) \in Days
      /\ \A d \in Days : Min(Days) <= d /\ Max(Days) >= d
  BY CalendarConstants, Extremes
<1>2. /\ day \in Nat /\ Min(Days) \in Nat /\ Max(Days) \in Nat
      /\ Min(Days) <= day /\ day <= Max(Days)
  BY <1>1
<1>3. /\ near.from = day - 1 /\ near.to = day + 1
      /\ Whole.from = Min(Days) - 1 /\ Whole.to = Max(Days) + 1
  BY DEF Around, Whole
<1>4. \A date \in Int : OpenOn(plan, date, zone, t) => date \in day - 1..day + 1
  BY NearDays
<1>. HIDE DEF day, near
<1>11. /\ near.from \in Int /\ near.to \in Int /\ near.from <= near.to + 1
       /\ Whole.from \in Int /\ Whole.to \in Int /\ Whole.from <= Whole.to + 1
  BY <1>2, <1>3
<1>5. Covers(WindowsForRange(plan, near, zone), t)
         <=> \E date \in near.from..near.to : OpenOn(plan, date, zone, t)
  BY <1>11, RangeExact
<1>6. /\ WindowsForRange(plan, Whole, zone) \in Seq(Spans)
      /\ Covers(WindowsForRange(plan, Whole, zone), t)
            <=> \E date \in Whole.from..Whole.to : OpenOn(plan, date, zone, t)
  BY <1>11, RangeExact
<1>7. t \in OpenIn(plan) <=> Covers(WindowsForRange(plan, Whole, zone), t)
  BY <1>6, InIsCovered DEF OpenIn
<1>8. \A date \in day - 1..day + 1 : date \in Min(Days) - 1..Max(Days) + 1
  BY <1>2
<1>9. \A date \in Min(Days) - 1..Max(Days) + 1 : date \in Int
  BY <1>2
<1>10. Covers(WindowsForRange(plan, near, zone), t) <=> t \in OpenIn(plan)
  BY <1>3, <1>4, <1>5, <1>6, <1>7, <1>8, <1>9
<1>. QED
  BY <1>10 DEF day, near

\* How far from its start an appointment may reach: a day less what the clocks change by.
Reach == Day - Distance(zone.after, zone.before)

\* The windows around a day, as an index holds them.
NearOf(start) == Around([from |-> LocalDateOf(start, zone), to |-> LocalDateOf(start, zone)])

\* The windows an index has for a plan cover a stretch near the start when the place is open
\* and the plan is, whichever days one looks at.
LEMMA StretchExact ==
    ASSUME NEW plan, plan = None \/ IsPlan(plan), IsPlan(opening), IsZone(zone),
           NEW start \in Int, LocalDateOf(start, zone) \in Days,
           NEW from \in Int, NEW to \in Int, from < to,
           start - Reach <= from, to <= start + Reach
    PROVE  LET open == WindowsForRange(opening, NearOf(start), zone)
           IN  ListCovers(Within(plan, NearOf(start), zone, open), Interval(from, to)) <=>
                  Span(from, to) \subseteq IF plan = None THEN OpenIn(opening)
                                           ELSE OpenIn(opening) \cap OpenIn(plan)
<1>. DEFINE near == NearOf(start)
            open == WindowsForRange(opening, near, zone)
            free == Within(plan, near, zone, open)
<1>1. near.from \in Int /\ near.to \in Int /\ near.from <= near.to + 1
  <2>. HIDE DEF near
  <2>. DEFINE day == LocalDateOf(start, zone)
  <2>1. Days \subseteq Nat /\ day \in Days
    BY CalendarConstants
  <2>. HIDE DEF day
  <2>2. day \in Int
    BY <2>1
  <2>. USE DEF near
  <2>3. near.from = day - 1 /\ near.to = day + 1
    BY DEF NearOf, Around, day
  <2>. HIDE DEF near
  <2>. QED
    BY <2>2, <2>3
<1>2. \A t \in from..to - 1 :
          t \in Int /\ start - Reach <= t /\ t < start + Reach
  <2>1. Reach \in Int
    <3>1. Day \in Int /\ zone.after \in Int /\ zone.before \in Int
      BY DayIsReal DEF IsZone
    <3>. QED
      BY <3>1 DEF Reach, Distance
  <2>. QED
    BY <2>1
<1>3. \A t \in from..to - 1 : t \in OpenIn(opening) <=> Covers(open, t)
  BY <1>2, NearWindows DEF NearOf, Reach
<1>4. plan # None => \A t \in from..to - 1 :
          t \in OpenIn(plan) <=> Covers(WindowsForRange(plan, near, zone), t)
  BY <1>2, NearWindows DEF NearOf, Reach
<1>. HIDE DEF near
<1>5. open \in Seq(Spans) /\ Real(open) /\ Lined(open)
  BY <1>1, RangeExact
<1>. HIDE DEF open
<1>6. /\ free \in Seq(Spans) /\ Real(free) /\ Lined(free)
      /\ \A t \in Int : Covers(free, t) <=>
             /\ Covers(open, t)
             /\ plan # None => Covers(WindowsForRange(plan, near, zone), t)
  BY <1>1, <1>5, WithinExact
<1>. HIDE DEF free
<1>7. ListCovers(free, Interval(from, to)) <=> \A t \in from..to - 1 : Covers(free, t)
  BY <1>6, ListCoversExact
<1>. DEFINE there == IF plan = None THEN OpenIn(opening) ELSE OpenIn(opening) \cap OpenIn(plan)
<1>8. \A t \in from..to - 1 : Covers(free, t) <=> t \in there
  BY <1>2, <1>3, <1>4, <1>6
<1>. HIDE DEF there
<1>9. ListCovers(free, Interval(from, to)) <=> Span(from, to) \subseteq there
  BY <1>7, <1>8 DEF Span
<1>. QED
  BY <1>9 DEF there, free, open, near

\* Two stretches of time have no instant in common when one ends before the other begins.
LEMMA SpansMeet ==
    ASSUME NEW a \in Int, NEW b \in Int, NEW c \in Int, NEW d \in Int, a < b, c < d
    PROVE  Span(a, b) \cap Span(c, d) = {} <=> ~(a < d /\ c < b)
<1>1. ASSUME a < d, c < b
      PROVE  Span(a, b) \cap Span(c, d) # {}
  <2>. DEFINE t == IF a <= c THEN c ELSE a
  <2>1. t \in Span(a, b) /\ t \in Span(c, d)
    BY <1>1 DEF Span
  <2>. QED
    BY <2>1
<1>2. ASSUME NEW t \in Span(a, b) \cap Span(c, d)
      PROVE  a < d /\ c < b
  BY <1>2 DEF Span
<1>. QED
  BY <1>1, <1>2

\* What an appointment holds: real, and near its start when the service stays near.
LEMMA OccupiedNear ==
    ASSUME NEW svc \in Services, NEW start \in Int, IsZone(zone), StaysNear(svc)
    PROVE  LET o == Occupied(svc, start)
               at == Interval(start, start + Offer[svc].duration)
           IN  /\ o = Interval(o.start, o.end)
               /\ o.start \in Int /\ o.end \in Int /\ o.start < o.end
               /\ start - Reach <= o.start /\ o.end <= start + Reach
               /\ at.start \in Int /\ at.end \in Int /\ at.start < at.end
               /\ start - Reach <= at.start /\ at.end <= start + Reach
<1>. DEFINE p == Offer[svc].prep
            d == Offer[svc].duration
            c == Offer[svc].cleanup
<1>1. p \in Nat /\ d \in Nat \ {0} /\ c \in Nat
  BY EngineConstants
<1>2. p <= Reach /\ d + c <= Reach
  BY DEF StaysNear, Reach
<1>3. Reach \in Int
  <2>1. Day \in Int /\ zone.after \in Int /\ zone.before \in Int
    BY DayIsReal DEF IsZone
  <2>. QED
    BY <2>1 DEF Reach, Distance
<1>4. Occupied(svc, start) = Interval(start - p, start + d + c)
  BY DEF Occupied
<1>5. \A x, y : /\ Interval(x, y).start = x /\ Interval(x, y).end = y
  BY DEF Interval
<1>. HIDE DEF p, d, c
<1>. DEFINE a == start - p
            b == start + d + c
            e == start + d
<1>6. /\ a \in Int /\ b \in Int /\ a < b /\ start - Reach <= a /\ b <= start + Reach
      /\ e \in Int /\ start < e /\ e <= start + Reach /\ start - Reach <= start
  BY <1>1, <1>2, <1>3
<1>7. Occupied(svc, start) = Interval(a, b)
  BY <1>4
<1>. HIDE DEF a, b
<1>. QED
  BY <1>5, <1>6, <1>7 DEF d

\* Who is free for a need, by the lists of the index, is who is there by the instants.
LEMMA FreeIsPresent ==
    ASSUME IsZone(zone), PlansRight, RowsRight(bookings), NEW svc \in Services, StaysNear(svc),
           NEW start \in Int, LocalDateOf(start, zone) \in Days, NEW people \in Nat
    PROVE  LET index == DayIndex(Asked(svc, bookings), LocalDateOf(start, zone))
               o == Occupied(svc, start)
               fit == FreeFor(index, o, people)
           IN  \A i \in DOMAIN Offer[svc].needs : \A r :
                  r \in fit[i] <=> /\ r \in Present(Works(OpenIn(opening)), o, people)
                                   /\ IsEligible(r, Offer[svc].needs[i], svc, offers)
<1>. DEFINE needs == Offer[svc].needs
            in == Asked(svc, bookings)
            day == LocalDateOf(start, zone)
            range == [from |-> day, to |-> day]
            near == Around(range)
            open == WindowsForRange(opening, near, zone)
            index == IndexOver(in, range, open)
            o == Occupied(svc, start)
            fit == FreeFor(index, o, people)
            there == Present(Works(OpenIn(opening)), o, people)
<1>1. /\ in.svc = svc /\ in.opening = opening /\ in.own = own /\ in.offers = offers
      /\ in.bookings = bookings /\ in.zone = zone
  BY DEF Asked
<1>. HIDE DEF in
<1>2. DayIndex(in, day) = index
  BY <1>1 DEF DayIndex, BuildIndex
<1>3. NearOf(start) = near
  BY DEF NearOf
<1>. HIDE DEF day, near
<1>4. /\ index.in = in
      /\ \A i \in DOMAIN needs :
            index.pools[i] = {r \in Resources : IsEligible(r, needs[i], svc, offers)}
      /\ \A i \in DOMAIN needs : \A r \in index.pools[i] :
            index.timelines[r] = Timeline(Within(own[r], near, zone, open), BusyOf(r, bookings))
  <2>1. in.svc \in Services
    BY <1>1
  <2>2. /\ index.in = in
        /\ \A i \in DOMAIN Offer[in.svc].needs :
              index.pools[i] = {r \in Resources : IsEligible(r, Offer[in.svc].needs[i], in.svc, in.offers)}
        /\ \A i \in DOMAIN Offer[in.svc].needs : \A r \in index.pools[i] :
              index.timelines[r] = Timeline(Within(in.own[r], Around(range), in.zone, open),
                                            BusyOf(r, in.bookings))
    <3>. HIDE DEF open, range
    <3>. QED
      BY <2>1, IndexHolds
  <2>. HIDE DEF index, open
  <2>. QED
    BY <1>1, <2>2 DEF near
<1>. HIDE DEF index
<1>5. /\ o = Interval(o.start, o.end)
      /\ o.start \in Int /\ o.end \in Int /\ o.start < o.end
      /\ start - Reach <= o.start /\ o.end <= start + Reach
  BY OccupiedNear
<1>. HIDE DEF o
<1>6. ASSUME NEW r \in Resources
      PROVE  ListCovers(Within(own[r], near, zone, open), o) <=>
                Span(o.start, o.end) \subseteq Works(OpenIn(opening))[r]
  <2>1. own[r] = None \/ IsPlan(own[r])
    BY DEF PlansRight
  <2>2. IsPlan(opening)
    BY DEF PlansRight
  <2>3. ListCovers(Within(own[r], near, zone, open), Interval(o.start, o.end)) <=>
            Span(o.start, o.end) \subseteq IF own[r] = None THEN OpenIn(opening)
                                           ELSE OpenIn(opening) \cap OpenIn(own[r])
    BY <1>3, <1>5, <2>1, <2>2, StretchExact DEF day
  <2>4. Works(OpenIn(opening))[r] = IF own[r] = None THEN OpenIn(opening)
                                    ELSE OpenIn(opening) \cap OpenIn(own[r])
    <3>. DEFINE f == [q \in Resources |-> IF own[q] = None THEN OpenIn(opening)
                                          ELSE OpenIn(opening) \cap OpenIn(own[q])]
    <3>1. Works(OpenIn(opening)) = Table(f)
      BY DEF Works
    <3>2. DOMAIN f = Resources /\ f[r] = IF own[r] = None THEN OpenIn(opening)
                                         ELSE OpenIn(opening) \cap OpenIn(own[r])
      OBVIOUS
    <3>. HIDE DEF f
    <3>3. Table(f)[r] = f[r]
      BY <3>2, TableIs
    <3>. QED
      BY <3>1, <3>2, <3>3
  <2>. HIDE DEF open
  <2>. QED
    BY <1>5, <2>3, <2>4, Zenon
<1>. HIDE DEF open
<1>7. ASSUME NEW r \in Resources, NEW free
      PROVE  IsHeldDuring(Timeline(free, BusyOf(r, bookings)), o) <=>
                ~ \A b \in Ids : bookings[b] # None /\ r \in bookings[b].crew =>
                     Span(bookings[b].from, bookings[b].to) \cap Span(o.start, o.end) = {}
  <2>. DEFINE busy == BusyOf(r, bookings)
  <2>1. /\ busy \in Seq(Spans) /\ Rising(busy) /\ Real(busy)
        /\ \A i \in DOMAIN busy : \E b \in Ids :
              /\ bookings[b] # None /\ r \in bookings[b].crew
              /\ busy[i] = Interval(bookings[b].from, bookings[b].to)
        /\ \A b \in Ids : bookings[b] # None /\ r \in bookings[b].crew =>
              \E i \in DOMAIN busy : busy[i] = Interval(bookings[b].from, bookings[b].to)
    BY BusyExact
  <2>. HIDE DEF busy
  <2>2. IsHeldDuring(Timeline(free, busy), Interval(o.start, o.end)) <=>
            \E i \in DOMAIN busy : busy[i].start < o.end /\ o.start < busy[i].end
    BY <1>5, <2>1, HeldExact
  <2>3. (\E i \in DOMAIN busy : busy[i].start < o.end /\ o.start < busy[i].end) <=>
            \E b \in Ids : /\ bookings[b] # None /\ r \in bookings[b].crew
                           /\ bookings[b].from < o.end /\ o.start < bookings[b].to
    BY <2>1 DEF Interval
  <2>4. \A b \in Ids : bookings[b] # None =>
            (Span(bookings[b].from, bookings[b].to) \cap Span(o.start, o.end) = {} <=>
                ~(bookings[b].from < o.end /\ o.start < bookings[b].to))
    <3>. SUFFICES ASSUME NEW b \in Ids, bookings[b] # None
                  PROVE  Span(bookings[b].from, bookings[b].to) \cap Span(o.start, o.end) = {} <=>
                            ~(bookings[b].from < o.end /\ o.start < bookings[b].to)
      OBVIOUS
    <3>1. bookings[b].from \in Int /\ bookings[b].to \in Int /\ bookings[b].from < bookings[b].to
      BY DEF RowsRight, RowRight
    <3>. QED
      BY <1>5, <3>1, SpansMeet
  <2>5. IsHeldDuring(Timeline(free, busy), Interval(o.start, o.end)) <=>
            ~ \A b \in Ids : bookings[b] # None /\ r \in bookings[b].crew =>
                     Span(bookings[b].from, bookings[b].to) \cap Span(o.start, o.end) = {}
    BY <2>2, <2>3, <2>4, ZenonT(60)
  <2>. QED
    BY <1>5, <2>5, Zenon DEF busy
<1>8. \A i \in DOMAIN needs : \A r : r \in fit[i] <=>
          r \in there /\ IsEligible(r, needs[i], svc, offers)
  <2>. SUFFICES ASSUME NEW i \in DOMAIN needs, NEW r
                PROVE  r \in fit[i] <=> r \in there /\ IsEligible(r, needs[i], svc, offers)
    OBVIOUS
  <2>1. fit[i] = {q \in index.pools[i] : IsFreeFor(index.timelines[q], o) /\ ~IsTooSmall(q, people)}
    BY <1>1, <1>4 DEF FreeFor
  <2>2. CASE r \notin Resources
    <3>1. r \notin there
      BY <2>2 DEF Present
    <3>. QED
      BY <1>4, <2>1, <2>2, <3>1
  <2>3. CASE r \in Resources
    <3>. DEFINE free == Within(own[r], near, zone, open)
                line == Timeline(free, BusyOf(r, bookings))
                away == \A b \in Ids : bookings[b] # None /\ r \in bookings[b].crew =>
                           Span(bookings[b].from, bookings[b].to) \cap Span(o.start, o.end) = {}
                large == Setup[r].capacity = None \/ people <= Setup[r].capacity
    <3>1. r \in fit[i] <=> /\ IsEligible(r, needs[i], svc, offers)
                           /\ IsFreeFor(line, o) /\ ~IsTooSmall(r, people)
      <4>1. r \in index.pools[i] <=> IsEligible(r, needs[i], svc, offers)
        BY <1>4, <2>3
      <4>2. r \in index.pools[i] => index.timelines[r] = line
        BY <1>4
      <4>. HIDE DEF fit, line
      <4>. QED
        BY <2>1, <4>1, <4>2
    <3>2. line.free = free
      BY DEF Timeline
    <3>3. IsHeldDuring(line, o) <=> ~away
      <4>. HIDE DEF free
      <4>. QED
        BY <1>7, <2>3, Zenon
    <3>4. ListCovers(free, o) <=> Span(o.start, o.end) \subseteq Works(OpenIn(opening))[r]
      BY <1>6, <2>3
    <3>5. large <=> ~IsTooSmall(r, people)
      BY <2>3, HostsAre DEF Hosts
    <3>6. r \in there <=> /\ Span(o.start, o.end) \subseteq Works(OpenIn(opening))[r]
                          /\ away /\ large
      BY <2>3, Zenon DEF Present
    <3>. HIDE DEF line, free, away, large, there, fit
    <3>7. IsFreeFor(line, o) <=> ListCovers(free, o) /\ ~IsHeldDuring(line, o)
      BY <3>2 DEF IsFreeFor
    <3>. QED
      BY <3>1, <3>3, <3>4, <3>5, <3>6, <3>7
  <2>. QED
    BY <2>2, <2>3
<1>. QED
  BY <1>2, <1>8 DEF in, index, day, near, open, o

\* The ways to fill the requirements with who is present are the ways to man the units with
\* who fits each need.
LEMMA FillingsManned ==
    ASSUME NEW svc \in Services, NEW present, NEW offered, NEW fit,
           \A i \in DOMAIN Offer[svc].needs : \A r :
              r \in fit[i] <=> r \in present /\ IsEligible(r, Offer[svc].needs[i], svc, offered)
    PROVE  /\ \A f \in FillingsBy(svc, present, offered) : Manned(f, svc, DOMAIN Offer[svc].needs, fit)
           /\ \A f : Manned(f, svc, DOMAIN Offer[svc].needs, fit) =>
                 Range(f) \in {Range(g) : g \in FillingsBy(svc, present, offered)}
<1>. DEFINE needs == Offer[svc].needs
            kept == DOMAIN needs
<1>1. /\ KeptUnits(svc, kept) = Units(svc)
      /\ \A x \in Units(svc) : x[1] \in kept
  <2>1. \A x \in Units(svc) : x[1] \in kept
    BY DEF Units
  <2>. QED
    BY <2>1 DEF KeptUnits
<1>2. \A x \in Units(svc) : \A r :
          r \in fit[x[1]] <=> r \in present /\ IsEligible(r, needs[x[1]], svc, offered)
  BY <1>1
<1>3. ASSUME NEW f
      PROVE  f \in FillingsBy(svc, present, offered) <=>
                Manned(f, svc, kept, fit) /\ f = [x \in Units(svc) |-> f[x]]
  <2>. HIDE DEF needs, kept
  <2>. QED
    BY <1>1, <1>2 DEF FillingsBy, Injection, IsInjective, Manned, needs
<1>4. ASSUME NEW f, Manned(f, svc, kept, fit)
      PROVE  Range(f) \in {Range(g) : g \in FillingsBy(svc, present, offered)}
  <2>. DEFINE g == [x \in Units(svc) |-> f[x]]
  <2>1. g = [x \in Units(svc) |-> g[x]] /\ DOMAIN g = Units(svc) /\ \A x \in Units(svc) : g[x] = f[x]
    OBVIOUS
  <2>. HIDE DEF g
  <2>2. Manned(g, svc, kept, fit)
    BY <1>1, <1>4, <2>1 DEF Manned
  <2>3. g \in FillingsBy(svc, present, offered)
    BY <1>3, <2>1, <2>2
  <2>4. Range(g) = Range(f)
    BY <1>1, <1>4, <2>1 DEF Range, Manned
  <2>. QED
    BY <2>3, <2>4
<1>. QED
  BY <1>3, <1>4

\* A new appointment: the engine finds resources whenever some can serve, and those it finds can.
LEMMA NewIsExact ==
    ASSUME IsZone(zone), PlansRight, RowsRight(bookings), NEW svc \in Services, StaysNear(svc),
           NEW start \in Int, LocalDateOf(start, zone) \in Days, NEW people \in Nat
    PROVE  LET day == LocalDateOf(start, zone)
               index == DayIndex(Asked(svc, bookings), day)
               o == Occupied(svc, start)
               slot == AssessNew(index, o, people, day)
               ways == Fillings(svc, Present(Works(OpenIn(opening)), o, people))
           IN  IF slot.ok THEN slot.crew \in {Range(f) : f \in ways} ELSE ways = {}
<1>. DEFINE day == LocalDateOf(start, zone)
            in == Asked(svc, bookings)
            range == [from |-> day, to |-> day]
            open == WindowsForRange(in.opening, Around(range), in.zone)
            index == IndexOver(in, range, open)
            o == Occupied(svc, start)
            slot == AssessNew(index, o, people, day)
            present == Present(Works(OpenIn(opening)), o, people)
            fit == FreeFor(index, o, people)
            kept == DOMAIN Offer[svc].needs
            demands == Demands(index, o, people, day)
            crew == MatchResources(demands)
            ways == Fillings(svc, present)
<1>1. DayIndex(in, day) = index
  BY DEF DayIndex, BuildIndex
<1>2. \A i \in DOMAIN Offer[svc].needs : \A r :
          r \in fit[i] <=> r \in present /\ IsEligible(r, Offer[svc].needs[i], svc, offers)
  BY <1>1, FreeIsPresent
<1>3. /\ in.svc = svc /\ in.bookings = bookings
  BY DEF Asked
<1>. HIDE DEF in, day, open, range, o, present
<1>4. index.in = in
  BY <1>3, IndexHolds
<1>5. demands \in Seq(Seq(Resources))
  BY <1>3, DemandsType
<1>6. /\ Ways(demands) # {} <=> \E f : Manned(f, svc, kept, fit)
      /\ \A g \in Ways(demands) : \E f : Manned(f, svc, kept, fit) /\ Range(f) = Range(g)
  <2>1. in.svc \in Services /\ RowsRight(in.bookings)
    BY <1>3
  <2>2. /\ Ways(demands) # {} <=> \E f : Manned(f, in.svc, DOMAIN Offer[in.svc].needs, fit)
        /\ \A g \in Ways(demands) :
              \E f : Manned(f, in.svc, DOMAIN Offer[in.svc].needs, fit) /\ Range(f) = Range(g)
    BY <2>1, DemandsManned
  <2>. HIDE DEF demands, fit
  <2>. QED
    BY <1>3, <2>2
<1>. HIDE DEF index, fit
<1>7. PICK seen : slot = Assigned(svc, crew, seen)
  <2>. HIDE DEF demands, crew
  <2>. QED
    BY <1>3, <1>4 DEF AssessNew, demands, crew
<1>. HIDE DEF demands
<1>8. /\ \A f \in ways : Manned(f, svc, kept, fit)
      /\ \A f : Manned(f, svc, kept, fit) => Range(f) \in {Range(g) : g \in ways}
  BY <1>2, FillingsManned DEF Fillings
<1>. HIDE DEF kept, ways
<1>9. IF Ways(demands) = {} THEN crew = None
      ELSE \E g \in Ways(demands) : crew = Range(g)
  BY <1>5, MatchIsExact
<1>. HIDE DEF slot, crew
<1>10. IF crew # None THEN slot.ok /\ slot.crew = crew ELSE ~slot.ok
  BY <1>7 DEF Assigned, Planned, Rejected
<1>11. CASE Ways(demands) = {}
  <2>1. ~slot.ok
    BY <1>9, <1>10, <1>11
  <2>2. ways = {}
    BY <1>6, <1>8, <1>11
  <2>. QED
    BY <1>1, <2>1, <2>2 DEF slot, o, ways, present, in, day
<1>12. CASE Ways(demands) # {}
  <2>1. PICK g \in Ways(demands) : crew = Range(g)
    BY <1>9, <1>12
  <2>2. crew \in {Range(f) : f \in ways}
    BY <1>6, <1>8, <2>1
  <2>3. crew # None
    <3>1. Wanted(demands) \subseteq Resources
      BY <1>5, DemandsBounded
    <3>2. Range(g) \in SUBSET Resources
      BY <3>1 DEF Ways, Injection, Range
    <3>. QED
      BY <2>1, <3>2, EngineConstants
  <2>4. slot.ok /\ slot.crew \in {Range(f) : f \in ways}
    BY <1>10, <2>2, <2>3
  <2>. QED
    BY <1>1, <2>4 DEF slot, o, ways, present, in, day
<1>. QED
  BY <1>11, <1>12

\* How many people a booking brings is a number.
PeopleRight(of) == \A b \in Ids : of[b] # None => of[b].people \in Nat

\* How many come to a session is a number.
LEMMA BookedIsNat ==
    ASSUME NEW of, PeopleRight(of), NEW S \in SUBSET Ids, \A b \in S : of[b] # None
    PROVE  Booked(S, of) \in Nat
<1>. DEFINE v == [b \in Ids |-> of[b].people]
            Solves(f) == f = [s \in SUBSET S |->
                IF s = {} THEN 0
                ELSE of[CHOOSE x \in s : TRUE].people + f[s \ {CHOOSE x \in s : TRUE}]]
            sum == CHOOSE f : Solves(f)
<1>1. Booked(S, of) = sum[S]
  BY DEF Booked, MapThenSumSet, MapThenFoldSet
<1>2. \A x \in S : v[x] \in Nat
  BY DEF PeopleRight
<1>3. IsFiniteSet(S) /\ S \subseteq Ids
  BY CalendarConstants, FS_Subset
<1>4. \A b \in Ids : v[b] = of[b].people
  OBVIOUS
<1>. HIDE DEF v
<1>5. \A f : Solves(f) <=> Sums(f, S, v)
  <2>. SUFFICES ASSUME NEW f PROVE Solves(f) <=> Sums(f, S, v)
    OBVIOUS
  <2>1. \A s \in SUBSET S : s # {} => (CHOOSE x \in s : TRUE) \in Ids
    BY <1>3
  <2>2. \A s \in SUBSET S : s # {} =>
            v[CHOOSE x \in s : TRUE] = of[CHOOSE x \in s : TRUE].people
    BY <1>4, <2>1
  <2>. QED
    BY <2>2 DEF Sums
<1>6. (\E f : Sums(f, S, v)) /\ \A f : Sums(f, S, v) => f[S] \in Nat
  BY <1>2, <1>3, SumIsNat
<1>. HIDE DEF Solves
<1>7. Solves(sum)
  BY <1>5, <1>6
<1>. QED
  BY <1>1, <1>5, <1>6, <1>7

\* What the engine asks before it looks for resources.
MayStand(index, start, people, date) ==
    LET svc == index.in.svc
    IN  /\ people \in 1..Offer[svc].perBooking
        /\ IsOnGrid(svc, start, index.in.zone)
        /\ ~(start < index.earliest \/ date > index.latest)
        /\ ListCovers(index.appointmentWindows, Interval(start, start + Offer[svc].duration))

\* A slot is of a session when there is one, and new otherwise.
LEMMA SlotIs ==
    ASSUME NEW index, NEW start, NEW people, NEW date
    PROVE  LET svc == index.in.svc
               session == SessionsAt(svc, start, index.in.bookings)
               slot == AssessOn(index, start, people, date)
               may == MayStand(index, start, people, date)
               shared == IsShared(svc) /\ session # {}
           IN  /\ slot.ok => may
               /\ may /\ shared => slot = AssessSession(index, session, people)
               /\ may /\ ~shared => slot = AssessNew(index, Occupied(svc, start), people, date)
<1>. DEFINE svc == index.in.svc
            session == SessionsAt(svc, start, index.in.bookings)
            slot == AssessOn(index, start, people, date)
            may == MayStand(index, start, people, date)
            shared == IsShared(svc) /\ session # {}
<1>1. \A why : Rejected(why).ok = FALSE
  BY DEF Rejected
<1>2. /\ ~may => \E why : slot = Rejected(why)
      /\ may /\ shared => slot = AssessSession(index, session, people)
      /\ may /\ ~shared => slot = AssessNew(index, Occupied(svc, start), people, date)
  BY Zenon DEF AssessOn, MayStand
<1>. QED
  BY <1>1, <1>2

\* The bookings of a session have the same resources.
SameCrew(of) ==
    \A svc, start : \A b, c \in SessionsAt(svc, start, of) : of[b].crew = of[c].crew

\* A booking that joins a session gets the resources the session has.
LEMMA JoinsCrew ==
    ASSUME NEW in, in.svc \in Services, RowsRight(in.bookings), NEW start, NEW people,
           AssessAlone(in, start, people).ok,
           IsShared(in.svc), SessionsAt(in.svc, start, in.bookings) # {}
    PROVE  \E c \in SessionsAt(in.svc, start, in.bookings) :
              AssessAlone(in, start, people).crew = in.bookings[c].crew
<1>. DEFINE day == LocalDateOf(start, in.zone)
            range == [from |-> day, to |-> day]
            open == WindowsForRange(in.opening, Around(range), in.zone)
            index == IndexOver(in, range, open)
            slot == AssessAlone(in, start, people)
            session == SessionsAt(in.svc, start, in.bookings)
<1>1. slot = AssessSlot(index, start, people)
  BY DEF AssessAlone, DayIndex, BuildIndex
<1>2. index.in = in
  BY IndexHolds
<1>. HIDE DEF index
<1>3. slot = AssessOn(index, start, people, day)
  BY <1>1, <1>2 DEF AssessSlot
<1>4. slot.ok
  OBVIOUS
<1>. HIDE DEF slot, day
<1>5. slot = AssessSession(index, session, people)
  <2>1. /\ AssessOn(index, start, people, day).ok => MayStand(index, start, people, day)
        /\ MayStand(index, start, people, day)
              /\ (IsShared(index.in.svc) /\ SessionsAt(index.in.svc, start, index.in.bookings) # {}) =>
              AssessOn(index, start, people, day) =
                 AssessSession(index, SessionsAt(index.in.svc, start, index.in.bookings), people)
    BY SlotIs
  <2>. QED
    BY <1>2, <1>3, <1>4, <2>1
<1>. DEFINE c == CHOOSE c \in session : TRUE
<1>6. c \in session
  OBVIOUS
<1>7. \A why : Rejected(why).ok = FALSE
  BY DEF Rejected
<1>8. slot.crew = in.bookings[c].crew
  <2>. HIDE DEF session
  <2>. QED
    BY <1>2, <1>4, <1>5, <1>7 DEF AssessSession, Planned
<1>. HIDE DEF c
<1>. QED
  BY <1>6, <1>8 DEF slot

\* What is placed keeps sessions in order.
LEMMA PlacedSame ==
    ASSUME RowsRight(bookings), PeopleRight(bookings), NEW b \in Ids, NEW svc \in Services,
           NEW start, NEW people \in Nat, NEW of, RowsRight(of), SameCrew(of), of[b] = None,
           \A c \in Ids : c # b => of[c] = bookings[c],
           NEW in, in.svc = svc, in.bookings = of,
           Place(b, svc, start, people, AssessAlone(in, start, people))
    PROVE  PeopleRight(bookings') /\ SameCrew(bookings')
<1>. DEFINE slot == AssessAlone(in, start, people)
            row == Row(b, svc, start, people, slot.crew)
<1>1. slot.ok /\ bookings' = [bookings EXCEPT ![b] = row]
  BY DEF Place
<1>2. /\ row.people = people /\ row.crew = slot.crew
      /\ row.key = IF IsShared(svc) THEN SessionKey(svc, start) ELSE <<b>>
  BY DEF Row
<1>3. IsShared(svc) /\ SessionsAt(svc, start, of) # {} =>
         \E c \in SessionsAt(svc, start, of) : slot.crew = of[c].crew
  BY <1>1, JoinsCrew
<1>. HIDE DEF slot, row
<1>4. /\ DOMAIN bookings = Ids /\ DOMAIN of = Ids /\ DOMAIN bookings' = Ids
      /\ bookings'[b] = row
      /\ \A c \in Ids : c # b => bookings'[c] = of[c]
  <2>1. DOMAIN bookings = Ids /\ DOMAIN of = Ids
    BY DEF RowsRight
  <2>. QED
    BY <1>1, <2>1
<1>5. PeopleRight(bookings')
  BY <1>1, <1>2, <1>4 DEF PeopleRight
<1>6. \A s, t : SessionKey(s, t) = SessionKey(svc, start) => s = svc /\ t = start
  BY DEF SessionKey
<1>7. \A s, t : <<b>> # SessionKey(s, t)
  <2>. SUFFICES ASSUME NEW s, NEW t, <<b>> = <<s, t>> PROVE FALSE
    BY DEF SessionKey
  <2>1. Len(<<b>>) = 1 /\ Len(<<s, t>>) = 2
    OBVIOUS
  <2>. QED
    BY <2>1
<1>8. ASSUME NEW s, NEW t, NEW c \in SessionsAt(s, t, bookings'), c # b
      PROVE  c \in SessionsAt(s, t, of) /\ bookings'[c].crew = of[c].crew
  BY <1>4, <1>8 DEF SessionsAt
<1>9. ASSUME NEW s, NEW t, b \in SessionsAt(s, t, bookings')
      PROVE  IsShared(svc) /\ s = svc /\ t = start
  <2>1. row.key = SessionKey(s, t)
    BY <1>4, <1>9 DEF SessionsAt
  <2>. QED
    BY <1>2, <1>6, <1>7, <2>1
<1>10. ASSUME NEW c \in SessionsAt(svc, start, of), IsShared(svc)
       PROVE  slot.crew = of[c].crew
  <2>1. PICK d \in SessionsAt(svc, start, of) : slot.crew = of[d].crew
    BY <1>3, <1>10
  <2>. QED
    BY <2>1 DEF SameCrew
<1>11. ASSUME NEW s, NEW t, NEW c \in SessionsAt(s, t, bookings'), NEW d \in SessionsAt(s, t, bookings')
       PROVE  bookings'[c].crew = bookings'[d].crew
  <2>1. CASE c # b /\ d # b
    BY <1>8, <2>1 DEF SameCrew
  <2>2. CASE c = b /\ d # b
    BY <1>2, <1>4, <1>8, <1>9, <1>10, <2>2
  <2>3. CASE c # b /\ d = b
    BY <1>2, <1>4, <1>8, <1>9, <1>10, <2>3
  <2>. QED
    BY <2>1, <2>2, <2>3
<1>. QED
  BY <1>5, <1>11 DEF SameCrew

\* The bookings of a session always have the same resources.
LEMMA SessionsStay == Spec => [](PeopleRight(bookings) /\ SameCrew(bookings))
<1>. DEFINE Good == PeopleRight(bookings) /\ SameCrew(bookings)
<1>1. Init => Good
  BY DEF Init, PeopleRight, SameCrew, SessionsAt
<1>2. RowsRight(bookings) /\ ServicesRight /\ Good /\ [Next]_vars => Good'
  <2>. SUFFICES ASSUME RowsRight(bookings), ServicesRight, PeopleRight(bookings), SameCrew(bookings),
                       [Next]_vars
                PROVE  PeopleRight(bookings') /\ SameCrew(bookings')
    OBVIOUS
  <2>1. CASE UNCHANGED bookings
    BY <2>1 DEF PeopleRight, SameCrew, SessionsAt
  <2>2. ASSUME NEW b \in Ids
        PROVE  LET of == [bookings EXCEPT ![b] = None]
               IN  /\ RowsRight(of) /\ PeopleRight(of) /\ SameCrew(of) /\ of[b] = None
                   /\ \A c \in Ids : c # b => of[c] = bookings[c]
    <3>. DEFINE of == [bookings EXCEPT ![b] = None]
    <3>1. bookings = [c \in Ids |-> bookings[c]]
      BY DEF RowsRight
    <3>2. /\ of = [c \in Ids |-> of[c]] /\ DOMAIN of = Ids /\ DOMAIN bookings = Ids
          /\ of[b] = None
          /\ \A c \in Ids : c # b => of[c] = bookings[c]
      BY <3>1
    <3>. HIDE DEF of
    <3>3. \A c \in Ids : of[c] # None => of[c] = bookings[c] /\ bookings[c] # None
      BY <3>2
    <3>4. RowsRight(of) /\ PeopleRight(of)
      BY <3>2, <3>3 DEF RowsRight, PeopleRight
    <3>5. \A s, t : \A c \in SessionsAt(s, t, of) :
              c \in SessionsAt(s, t, bookings) /\ of[c] = bookings[c]
      BY <3>2, <3>3 DEF SessionsAt
    <3>6. SameCrew(of)
      BY <3>5 DEF SameCrew
    <3>. QED
      BY <3>2, <3>4, <3>6 DEF of
  <2>3. ASSUME NEW b \in Ids, NEW svc \in Services, NEW start \in Starts, NEW people \in 1..MaxGroup,
               Book(b, svc, start, people)
        PROVE  PeopleRight(bookings') /\ SameCrew(bookings')
    <3>. DEFINE in == Asked(svc, bookings)
    <3>1. in.svc = svc /\ in.bookings = bookings
      BY DEF Asked
    <3>2. Place(b, svc, start, people, AssessAlone(in, start, people)) /\ bookings[b] = None
      BY <2>3 DEF Book
    <3>3. people \in Nat
      BY CalendarConstants
    <3>. HIDE DEF in
    <3>. QED
      BY <3>1, <3>2, <3>3, PlacedSame
  <2>4. ASSUME NEW b \in Ids, NEW start \in Starts, Move(b, start)
        PROVE  PeopleRight(bookings') /\ SameCrew(bookings')
    <3>. DEFINE k == bookings[b]
                of == [bookings EXCEPT ![b] = None]
                in == Asked(k.svc, of)
    <3>1. in.svc = k.svc /\ in.bookings = of
      BY DEF Asked
    <3>2. k # None /\ Place(b, k.svc, start, k.people, AssessAlone(in, start, k.people))
      BY <2>4 DEF Move
    <3>3. k.svc \in Services /\ k.people \in Nat
      BY <3>2 DEF ServicesRight, PeopleRight
    <3>4. /\ RowsRight(of) /\ SameCrew(of) /\ of[b] = None
          /\ \A c \in Ids : c # b => of[c] = bookings[c]
      BY <2>2
    <3>. HIDE DEF in, k, of
    <3>. QED
      BY <3>1, <3>2, <3>3, <3>4, PlacedSame
  <2>5. ASSUME NEW b \in Ids, Cancel(b)
        PROVE  PeopleRight(bookings') /\ SameCrew(bookings')
    <3>1. bookings' = [bookings EXCEPT ![b] = None]
      BY <2>5 DEF Cancel
    <3>. QED
      BY <2>2, <3>1
  <2>6. \/ UNCHANGED bookings
        \/ \E b \in Ids, svc \in Services, start \in Starts, people \in 1..MaxGroup :
              Book(b, svc, start, people)
        \/ \E b \in Ids, start \in Starts : Move(b, start)
        \/ \E b \in Ids : Cancel(b)
    BY DEF Next, SaveHours, Except, Choose, vars
  <2>. QED
    BY <2>1, <2>3, <2>4, <2>5, <2>6
<1>. QED
  BY <1>1, <1>2, BookingsStay, PTL DEF Spec

\* A session takes a group when it fits what is left of it.
LEMMA SessionIsExact ==
    ASSUME RowsRight(bookings), PeopleRight(bookings), SameCrew(bookings),
           NEW svc \in Services, IsShared(svc), NEW start, NEW people \in Nat,
           SessionsAt(svc, start, bookings) # {},
           NEW index, index.in.svc = svc, index.in.bookings = bookings
    PROVE  AssessSession(index, SessionsAt(svc, start, bookings), people).ok
              <=> FitsSession(svc, start, people)
<1>. DEFINE session == SessionsAt(svc, start, bookings)
            c == CHOOSE b \in session : TRUE
            crew == bookings[c].crew
            booked == Booked(session, bookings)
            sizes == {Setup[r].capacity : r \in {q \in crew : Setup[q].capacity # None}}
            most == Min({Offer[svc].perSession} \cup sizes)
<1>1. c \in session
  OBVIOUS
<1>2. session \subseteq Ids /\ \A b \in session : bookings[b] # None
  BY DEF SessionsAt, RowsRight
<1>3. crew \subseteq Resources /\ UNION {bookings[b].crew : b \in session} = crew
  <2>. HIDE DEF c, session
  <2>1. \A b \in session : bookings[b].crew = bookings[c].crew
    BY <1>1 DEF SameCrew, session
  <2>2. bookings[c].crew \subseteq Resources
    BY <1>1, <1>2 DEF RowsRight, RowRight
  <2>. QED
    BY <1>1, <2>1, <2>2
<1>4. booked \in Nat
  <2>. HIDE DEF session
  <2>. QED
    BY <1>2, BookedIsNat
<1>. HIDE DEF c
<1>5. most \in Nat
  <2>1. IsFiniteSet({q \in crew : Setup[q].capacity # None})
    BY <1>3, EngineConstants, FS_Subset
  <2>. DEFINE S == {q \in crew : Setup[q].capacity # None}
              f == [q \in S |-> Setup[q].capacity]
  <2>2. sizes = {f[q] : q \in S}
    OBVIOUS
  <2>3. sizes \subseteq Nat
    <3>1. \A q \in Resources : Setup[q].capacity = None \/ Setup[q].capacity \in Nat
      BY EngineConstants
    <3>. HIDE DEF crew
    <3>. QED
      BY <1>3, <3>1
  <2>4. IsFiniteSet(sizes)
    <3>. HIDE DEF f, S, sizes
    <3>1. IsFiniteSet({f[q] : q \in S})
      BY <2>1, ImageFinite DEF S
    <3>. QED
      BY <2>2, <3>1
  <2>5. Offer[svc].perSession \in Nat
    BY EngineConstants
  <2>. HIDE DEF sizes
  <2>. DEFINE all == {Offer[svc].perSession} \cup sizes
  <2>6. IsFiniteSet({Offer[svc].perSession})
    BY FS_Singleton
  <2>7. IsFiniteSet(all)
    BY <2>4, <2>6, FS_Union, Zenon
  <2>8. all \in SUBSET Nat /\ all # {}
    BY <2>3, <2>5
  <2>. HIDE DEF all
  <2>9. Min(all) \in all
    BY <2>7, <2>8, Extremes
  <2>. QED
    BY <2>8, <2>9 DEF all
<1>6. SessionCapacity(svc, crew) = most
  BY DEF SessionCapacity
<1>. DEFINE slot == AssessSession(index, session, people)
<1>7. slot = IF booked + people > most THEN Rejected("capacity-exceeded")
             ELSE Planned(svc, crew, booked)
  <2>. HIDE DEF session, most
  <2>. QED
    BY <1>6 DEF AssessSession, c
<1>8. SessionOf(svc, start) = session
  BY DEF SessionOf
<1>9. FitsSession(svc, start, people) <=> booked + people <= most
  <2>. HIDE DEF session
  <2>1. {Setup[r].capacity : r \in {r \in UNION {bookings[b].crew : b \in session} :
                                     Setup[r].capacity # None}} = sizes
    <3>. HIDE DEF crew
    <3>. QED
      BY <1>3
  <2>. HIDE DEF crew, sizes
  <2>. QED
    BY <1>8, <2>1 DEF FitsSession
<1>. HIDE DEF slot, booked, most
<1>10. booked + people > most <=> ~(booked + people <= most)
  BY <1>4, <1>5
<1>11. slot.ok <=> booked + people <= most
  BY <1>7, <1>10 DEF Rejected, Planned
<1>. QED
  BY <1>9, <1>11 DEF slot

\* Where an appointment may start, by the index and by the instants.
LEMMA MayIsExact ==
    ASSUME IsZone(zone), PlansRight, now \in Int, NEW svc \in Services, StaysNear(svc),
           NEW start \in Starts, NEW people \in Nat \ {0}
    PROVE  LET day == LocalDateOf(start, zone)
           IN  MayStand(DayIndex(Asked(svc, bookings), day), start, people, day) <=>
                  MayStart(svc, start, OpenIn(opening)) /\ people <= Offer[svc].perBooking
<1>. DEFINE day == LocalDateOf(start, zone)
            in == Asked(svc, bookings)
            range == [from |-> day, to |-> day]
            open == WindowsForRange(opening, Around(range), zone)
            index == IndexOver(in, range, open)
            plan == Offer[svc].plan
            length == Offer[svc].duration
<1>1. /\ in.svc = svc /\ in.opening = opening /\ in.zone = zone /\ in.now = now
  BY DEF Asked
<1>. HIDE DEF in
<1>2. DayIndex(in, day) = index
  BY <1>1 DEF DayIndex, BuildIndex
<1>3. /\ index.in = in
      /\ index.appointmentWindows = Within(plan, Around(range), zone, open)
      /\ index.earliest = now + Offer[svc].notice
      /\ index.latest = LocalDateOf(now, zone) + Offer[svc].horizon
  <2>1. /\ index.in = in
        /\ index.appointmentWindows = Within(Offer[in.svc].plan, Around(range), in.zone, open)
        /\ index.earliest = in.now + Offer[in.svc].notice
        /\ index.latest = LocalDateOf(in.now, in.zone) + Offer[in.svc].horizon
    <3>. HIDE DEF open, range
    <3>. QED
      BY <1>1, IndexHolds
  <2>. HIDE DEF index, open, range
  <2>. QED
    BY <1>1, <2>1
<1>4. start \in Int /\ day \in Days /\ day \in Int
  <2>1. Min(Days) \in Nat /\ Max(Days) \in Nat /\ Days \subseteq Nat
    BY CalendarConstants, Extremes
  <2>2. Instants \subseteq Int
    BY <2>1, DayIsReal DEF Instants
  <2>3. start \in Instants /\ day \in Days
    BY DEF Starts
  <2>. HIDE DEF day
  <2>. QED
    BY <2>1, <2>2, <2>3
<1>5. /\ plan = None \/ IsPlan(plan)
      /\ Offer[svc].perBooking \in Nat /\ Offer[svc].notice \in Nat /\ Offer[svc].horizon \in Nat
      /\ length \in Nat \ {0}
  BY EngineConstants
<1>6. IsPlan(opening)
  BY DEF PlansRight
<1>7. /\ start + length \in Int /\ start < start + length
      /\ start - Reach <= start /\ start + length <= start + Reach
  <2>. DEFINE at == Interval(start, start + Offer[svc].duration)
  <2>1. /\ at.start \in Int /\ at.end \in Int /\ at.start < at.end
        /\ start - Reach <= at.start /\ at.end <= start + Reach
    BY <1>4, OccupiedNear
  <2>2. at.start = start /\ at.end = start + length
    BY DEF Interval
  <2>. HIDE DEF at
  <2>. QED
    BY <2>1, <2>2
<1>8. ListCovers(Within(plan, NearOf(start), zone, WindowsForRange(opening, NearOf(start), zone)),
                 Interval(start, start + length)) <=>
          Span(start, start + length) \subseteq IF plan = None THEN OpenIn(opening)
                                                ELSE OpenIn(opening) \cap OpenIn(plan)
  <2>1. LocalDateOf(start, zone) \in Days
    BY <1>4
  <2>. DEFINE end == start + length
  <2>2. end \in Int /\ start < end /\ start - Reach <= start /\ end <= start + Reach
    BY <1>7
  <2>. HIDE DEF end, plan
  <2>3. ListCovers(Within(plan, NearOf(start), zone, WindowsForRange(opening, NearOf(start), zone)),
                   Interval(start, end)) <=>
          Span(start, end) \subseteq IF plan = None THEN OpenIn(opening)
                                     ELSE OpenIn(opening) \cap OpenIn(plan)
    BY <1>4, <1>5, <1>6, <2>1, <2>2, StretchExact
  <2>. QED
    BY <2>3 DEF end
<1>9. NearOf(start) = Around(range)
  BY DEF NearOf
<1>10. IsOnGrid(svc, start, zone) <=>
          /\ WallClock(start, zone).minute % Offer[svc].step = 0
          /\ \A t \in Instants : WallClock(t, zone) = WallClock(start, zone) => start <= t
  BY GridExact
<1>11. LocalDateOf(now, zone) \in Int
  <2>1. now + ZoneOffset(now, zone) \in Int
    BY DEF IsZone, ZoneOffset
  <2>. DEFINE local == now + ZoneOffset(now, zone)
  <2>2. LocalDateOf(now, zone) = local \div Day
    BY DEF LocalDateOf, WallClock
  <2>3. Day \in Nat \ {0}
    BY DayIsReal
  <2>. HIDE DEF local
  <2>4. local \in Int
    BY <2>1 DEF local
  <2>5. local \div Day \in Int
    BY <2>3, <2>4
  <2>. QED
    BY <2>2, <2>5
<1>12. /\ LocalDateOf(start, zone) = WallClock(start, zone).date
       /\ LocalDateOf(now, zone) = WallClock(now, zone).date
  BY DEF LocalDateOf
<1>. DEFINE covered == Span(start, start + length) \subseteq
                          IF plan = None THEN OpenIn(opening) ELSE OpenIn(opening) \cap OpenIn(plan)
            first == \A t \in Instants : WallClock(t, zone) = WallClock(start, zone) => start <= t
            fits == WallClock(start, zone).minute % Offer[svc].step = 0
<1>13. MayStart(svc, start, OpenIn(opening)) <=>
          /\ fits /\ first /\ start >= now + Offer[svc].notice
          /\ day <= LocalDateOf(now, zone) + Offer[svc].horizon /\ covered
  BY <1>12, Zenon DEF MayStart
<1>. HIDE DEF index
<1>14. MayStand(index, start, people, day) <=>
          /\ people \in 1..Offer[svc].perBooking
          /\ IsOnGrid(svc, start, zone)
          /\ ~(start < now + Offer[svc].notice \/ day > LocalDateOf(now, zone) + Offer[svc].horizon)
          /\ ListCovers(Within(plan, Around(range), zone, open), Interval(start, start + length))
  <2>. HIDE DEF day, range, open
  <2>. QED
    BY <1>1, <1>3 DEF MayStand
<1>15. ListCovers(Within(plan, Around(range), zone, open), Interval(start, start + length)) <=> covered
  <2>1. open = WindowsForRange(opening, NearOf(start), zone)
    BY <1>9
  <2>. HIDE DEF open, range, plan, length
  <2>. QED
    BY <1>8, <1>9, <2>1, Zenon
<1>. HIDE DEF day, range, open, covered, first, fits
<1>16. /\ people \in 1..Offer[svc].perBooking <=> people <= Offer[svc].perBooking
       /\ ~(start < now + Offer[svc].notice) <=> start >= now + Offer[svc].notice
       /\ ~(day > LocalDateOf(now, zone) + Offer[svc].horizon) <=>
             day <= LocalDateOf(now, zone) + Offer[svc].horizon
  BY <1>4, <1>5, <1>11
<1>17. IsOnGrid(svc, start, zone) <=> fits /\ first
  BY <1>10 DEF fits, first
<1>18. MayStand(index, start, people, day) <=>
          MayStart(svc, start, OpenIn(opening)) /\ people <= Offer[svc].perBooking
  BY <1>13, <1>14, <1>15, <1>16, <1>17, Zenon
<1>. QED
  BY <1>2, <1>18 DEF day, in

\* The time is one of those at which the calendar is looked at.
LEMMA NowStays == Spec => [](now \in Times)
<1>1. Init => now \in Times
  BY DEF Init
<1>2. now \in Times /\ [Next]_vars => (now \in Times)'
  <2>. SUFFICES ASSUME now \in Times, [Next]_vars PROVE now' = now
    OBVIOUS
  <2>. QED
    BY DEF Next, Book, Move, Place, Cancel, SaveHours, Except, Choose, vars
<1>. QED
  BY <1>1, <1>2, PTL DEF Spec

\* The engine says yes exactly where an appointment can stand, by the instants alone: every
\* list and table of the index, every search by halving and the walk over held spans decide
\* what the hours and the bookings say, at every time and for every group (assessSlot).
THEOREM SlotsAlwaysExact == Spec => []AssessIsExact
<1>1. /\ zone \in Zones /\ now \in Times /\ PlansRight /\ WeeksInside
      /\ RowsRight(bookings) /\ ServicesRight /\ PeopleRight(bookings) /\ SameCrew(bookings)
      => AssessIsExact
  <2>. SUFFICES ASSUME zone \in Zones, now \in Times, PlansRight,
                       RowsRight(bookings), PeopleRight(bookings), SameCrew(bookings)
                PROVE  AssessIsExact
    OBVIOUS
  <2>1. IsZone(zone) /\ now \in Int
    BY CalendarConstants DEF IsZone
  <2>. DEFINE open == OpenIn(opening)
              works == Works(open)
  <2>2. ASSUME NEW svc \in Services, StaysNear(svc), NEW start \in Starts, NEW people \in 1..MaxGroup
        PROVE  LET index == Table([day \in Days |-> DayIndex(Asked(svc, bookings), day)])
                   slot == AssessSlot(index[LocalDateOf(start, zone)], start, people)
                   may == MayStart(svc, start, open) /\ people <= Offer[svc].perBooking
                   ways == Fillings(svc, Present(works, Occupied(svc, start), people))
               IN  IF may /\ SessionOf(svc, start) = {}
                   THEN IF slot.ok THEN slot.crew \in {Range(f) : f \in ways} ELSE ways = {}
                   ELSE slot.ok <=> may /\ FitsSession(svc, start, people)
    <3>. DEFINE in == Asked(svc, bookings)
                date == LocalDateOf(start, zone)
                all == [day \in Days |-> DayIndex(in, day)]
                index == DayIndex(in, date)
                slot == AssessOn(index, start, people, date)
                may == MayStart(svc, start, open) /\ people <= Offer[svc].perBooking
                ways == Fillings(svc, Present(works, Occupied(svc, start), people))
                session == SessionsAt(svc, start, bookings)
    <3>1. date \in Days /\ start \in Int
      <4>1. Min(Days) \in Nat /\ Max(Days) \in Nat
        BY CalendarConstants, Extremes
      <4>2. Instants \subseteq Int
        BY <4>1, DayIsReal DEF Instants
      <4>. QED
        BY <4>2 DEF Starts
    <3>2. people \in Nat /\ people \in Nat \ {0}
      BY CalendarConstants
    <3>3. Table(all)[date] = index
      <4>1. DOMAIN all = Days /\ all[date] = index
        BY <3>1
      <4>. HIDE DEF all, index
      <4>. QED
        BY <3>1, <4>1, TableIs
    <3>4. in.svc = svc /\ in.bookings = bookings /\ in.zone = zone
      BY DEF Asked
    <3>5. index.in = in
      <4>. DEFINE range == [from |-> date, to |-> date]
                  windows == WindowsForRange(in.opening, Around(range), in.zone)
      <4>1. index = IndexOver(in, range, windows)
        BY DEF DayIndex, BuildIndex
      <4>. HIDE DEF in, range, windows, index
      <4>. QED
        BY <3>4, <4>1, IndexHolds
    <3>6. AssessSlot(Table(all)[date], start, people) = slot
      <4>. HIDE DEF all, index, in
      <4>. QED
        BY <3>3, <3>4, <3>5 DEF AssessSlot
    <3>7. MayStand(index, start, people, date) <=> may
      BY <2>1, <2>2, <3>2, MayIsExact, ZenonT(60)
    <3>8. /\ slot.ok => MayStand(index, start, people, date)
          /\ MayStand(index, start, people, date) /\ (IsShared(svc) /\ session # {}) =>
                slot = AssessSession(index, session, people)
          /\ MayStand(index, start, people, date) /\ ~(IsShared(svc) /\ session # {}) =>
                slot = AssessNew(index, Occupied(svc, start), people, date)
      <4>. HIDE DEF index, in, date
      <4>1. LET q == index.in.svc
                s == SessionsAt(q, start, index.in.bookings)
                may1 == MayStand(index, start, people, date)
                shared == IsShared(q) /\ s # {}
            IN  /\ AssessOn(index, start, people, date).ok => may1
                /\ may1 /\ shared => AssessOn(index, start, people, date) = AssessSession(index, s, people)
                /\ may1 /\ ~shared => AssessOn(index, start, people, date)
                                         = AssessNew(index, Occupied(q, start), people, date)
        BY SlotIs
      <4>. QED
        BY <3>4, <3>5, <4>1
    <3>9. SessionOf(svc, start) = {} <=> ~(IsShared(svc) /\ session # {})
      BY DEF SessionOf
    <3>10. LET new == AssessNew(index, Occupied(svc, start), people, date)
           IN  IF new.ok THEN new.crew \in {Range(f) : f \in ways} ELSE ways = {}
      BY <2>1, <2>2, <3>1, <3>2, NewIsExact, ZenonT(60)
    <3>11. IsShared(svc) /\ session # {} =>
              (AssessSession(index, session, people).ok <=> FitsSession(svc, start, people))
      <4>1. index.in.svc = svc /\ index.in.bookings = bookings
        BY <3>4, <3>5
      <4>. HIDE DEF index
      <4>. QED
        BY <3>2, <4>1, SessionIsExact
    <3>. HIDE DEF index, in, slot, ways, may, session
    <3>12. IF may /\ SessionOf(svc, start) = {}
           THEN IF slot.ok THEN slot.crew \in {Range(f) : f \in ways} ELSE ways = {}
           ELSE slot.ok <=> may /\ FitsSession(svc, start, people)
      <4>1. CASE ~may
        BY <3>7, <3>8, <4>1
      <4>2. CASE may /\ ~(IsShared(svc) /\ session # {})
        BY <3>7, <3>8, <3>9, <3>10, <4>2
      <4>3. CASE may /\ (IsShared(svc) /\ session # {})
        BY <3>7, <3>8, <3>9, <3>11, <4>3
      <4>. QED
        BY <4>1, <4>2, <4>3
    <3>. QED
      BY <3>6, <3>12, Zenon DEF ways, may, in
  <2>. QED
    BY <2>2, Zenon DEF AssessIsExact
<1>. QED
  BY <1>1, ZoneStays, NowStays, PlansStay, BookingsStay, SessionsStay, PTL

-----------------------------------------------------------------------------
(* An index of some days and that of one day alone                         *)

\* The day of an instant is a number.
LEMMA DayOfIsInt ==
    ASSUME IsZone(zone), NEW t \in Int
    PROVE  LocalDateOf(t, zone) \in Int
<1>. DEFINE local == t + ZoneOffset(t, zone)
<1>1. local \in Int
  BY DEF IsZone, ZoneOffset
<1>2. LocalDateOf(t, zone) = local \div Day
  BY DEF LocalDateOf, WallClock
<1>3. Day \in Nat \ {0}
  BY DayIsReal
<1>. HIDE DEF local
<1>4. local \div Day \in Int
  BY <1>1, <1>3
<1>. QED
  BY <1>2, <1>4

\* An instant of one of some days at which a plan is open.
OpenAmong(plan, days, t) == \E date \in days.from..days.to : OpenOn(plan, date, zone, t)

\* At these instants what is open on one of some days is open on one of other days.
OpensToo(few, more, T) ==
    \A plan : IsPlan(plan) => \A t \in T : OpenAmong(plan, few, t) => OpenAmong(plan, more, t)

\* Days that windows are gathered for.
AreDays(range) == range.from \in Int /\ range.to \in Int /\ range.from <= range.to + 1

\* A stretch that the windows of some days cover is covered by those of other days, where
\* these are open too.
LEMMA StretchKept ==
    ASSUME NEW plan, plan = None \/ IsPlan(plan), IsPlan(opening), IsZone(zone),
           NEW few, AreDays(few), NEW more, AreDays(more), NEW T, OpensToo(few, more, T),
           NEW from \in Int, NEW to \in Int, from < to, Span(from, to) \subseteq T,
           ListCovers(Within(plan, few, zone, WindowsForRange(opening, few, zone)), Interval(from, to))
    PROVE  ListCovers(Within(plan, more, zone, WindowsForRange(opening, more, zone)), Interval(from, to))
<1>. DEFINE free(r) == Within(plan, r, zone, WindowsForRange(opening, r, zone))
<1>1. ASSUME NEW r, AreDays(r)
      PROVE  ListCovers(free(r), Interval(from, to)) <=>
                \A t \in from..to - 1 : OpenAmong(opening, r, t) /\ (plan # None => OpenAmong(plan, r, t))
  <2>. DEFINE open == WindowsForRange(opening, r, zone)
  <2>0. r.from \in Int /\ r.to \in Int /\ r.from <= r.to + 1
    BY <1>1 DEF AreDays
  <2>1. /\ open \in Seq(Spans) /\ Real(open) /\ Lined(open)
        /\ \A t \in Int : Covers(open, t) <=> OpenAmong(opening, r, t)
    BY <2>0, RangeExact DEF OpenAmong
  <2>2. plan # None => \A t \in Int : Covers(WindowsForRange(plan, r, zone), t) <=> OpenAmong(plan, r, t)
    BY <2>0, RangeExact DEF OpenAmong
  <2>. HIDE DEF open
  <2>. DEFINE list == Within(plan, r, zone, open)
  <2>3. /\ list \in Seq(Spans) /\ Real(list) /\ Lined(list)
        /\ \A t \in Int : Covers(list, t) <=>
              /\ Covers(open, t)
              /\ plan # None => Covers(WindowsForRange(plan, r, zone), t)
    BY <2>0, <2>1, WithinExact
  <2>. HIDE DEF list
  <2>4. ListCovers(list, Interval(from, to)) <=> \A t \in from..to - 1 : Covers(list, t)
    BY <2>3, ListCoversExact
  <2>5. \A t \in from..to - 1 : t \in Int
    OBVIOUS
  <2>6. \A t \in from..to - 1 : Covers(list, t) <=>
            OpenAmong(opening, r, t) /\ (plan # None => OpenAmong(plan, r, t))
    BY <2>1, <2>2, <2>3, <2>5
  <2>. QED
    BY <2>4, <2>6 DEF list, open
<1>2. \A t \in from..to - 1 : OpenAmong(opening, few, t) /\ (plan # None => OpenAmong(plan, few, t))
  BY <1>1
<1>3. \A t \in from..to - 1 : t \in T
  BY DEF Span
<1>4. \A t \in from..to - 1 : OpenAmong(opening, more, t) /\ (plan # None => OpenAmong(plan, more, t))
  BY <1>2, <1>3 DEF OpensToo
<1>. HIDE DEF free
<1>5. ListCovers(free(more), Interval(from, to))
  BY <1>1, <1>4
<1>. QED
  BY <1>5 DEF free

\* What an appointment holds is a stretch of time, and so is the appointment.
LEMMA OccupiedIs ==
    ASSUME NEW svc \in Services, NEW start \in Int
    PROVE  LET o == Occupied(svc, start)
               at == Interval(start, start + Offer[svc].duration)
           IN  /\ o = Interval(o.start, o.end)
               /\ o.start \in Int /\ o.end \in Int /\ o.start < o.end
               /\ at = Interval(at.start, at.end)
               /\ at.start \in Int /\ at.end \in Int /\ at.start < at.end
<1>. DEFINE p == Offer[svc].prep
            d == Offer[svc].duration
            c == Offer[svc].cleanup
<1>1. p \in Nat /\ d \in Nat \ {0} /\ c \in Nat
  BY EngineConstants
<1>2. Occupied(svc, start) = Interval(start - p, start + d + c)
  BY DEF Occupied
<1>3. \A x, y : Interval(x, y).start = x /\ Interval(x, y).end = y
  BY DEF Interval
<1>. HIDE DEF p, d, c
<1>. DEFINE a == start - p
            b == start + d + c
            e == start + d
<1>4. a \in Int /\ b \in Int /\ a < b /\ e \in Int /\ start < e
  BY <1>1
<1>5. Occupied(svc, start) = Interval(a, b)
  BY <1>2
<1>. HIDE DEF a, b
<1>. QED
  BY <1>3, <1>4, <1>5 DEF d

\* Who is free for a need by the index of some days is free by that of other days, where these
\* are open too.
LEMMA FreeKept ==
    ASSUME IsZone(zone), PlansRight, RowsRight(bookings), NEW svc \in Services,
           NEW start \in Int, NEW people,
           NEW few, AreDays(Around(few)), NEW more, AreDays(Around(more)),
           NEW T, OpensToo(Around(few), Around(more), T),
           Span(Occupied(svc, start).start, Occupied(svc, start).end) \subseteq T
    PROVE  LET in == Asked(svc, bookings)
               o == Occupied(svc, start)
           IN  \A i \in DOMAIN Offer[svc].needs : \A r :
                  r \in FreeFor(BuildIndex(in, few), o, people)[i] =>
                  r \in FreeFor(BuildIndex(in, more), o, people)[i]
<1>. DEFINE needs == Offer[svc].needs
            in == Asked(svc, bookings)
            o == Occupied(svc, start)
            open(r) == WindowsForRange(opening, Around(r), zone)
            free(q, r) == Within(own[q], Around(r), zone, open(r))
            taken(q) == \E i \in DOMAIN BusyOf(q, bookings) :
                            /\ BusyOf(q, bookings)[i].start < o.end
                            /\ o.start < BusyOf(q, bookings)[i].end
<1>1. /\ in.svc = svc /\ in.opening = opening /\ in.own = own /\ in.offers = offers
      /\ in.bookings = bookings /\ in.zone = zone
  BY DEF Asked
<1>. HIDE DEF in
<1>2. /\ o = Interval(o.start, o.end)
      /\ o.start \in Int /\ o.end \in Int /\ o.start < o.end
  BY OccupiedIs
<1>. HIDE DEF o
<1>3. ASSUME NEW q, NEW list
      PROVE  IsHeldDuring(Timeline(list, BusyOf(q, bookings)), o) <=> taken(q)
  <2>. DEFINE busy == BusyOf(q, bookings)
  <2>1. busy \in Seq(Spans) /\ Rising(busy) /\ Real(busy)
    BY BusyExact
  <2>. HIDE DEF busy
  <2>2. IsHeldDuring(Timeline(list, busy), Interval(o.start, o.end)) <=>
            \E i \in DOMAIN busy : busy[i].start < o.end /\ o.start < busy[i].end
    BY <1>2, <2>1, HeldExact
  <2>. QED
    BY <1>2, <2>2, Zenon DEF busy
<1>. HIDE DEF taken
<1>4. ASSUME NEW r, NEW i \in DOMAIN needs, NEW q
      PROVE  q \in FreeFor(BuildIndex(in, r), o, people)[i] <=>
                /\ q \in Resources /\ IsEligible(q, needs[i], svc, offers)
                /\ ListCovers(free(q, r), o) /\ ~taken(q) /\ ~IsTooSmall(q, people)
  <2>. DEFINE windows == WindowsForRange(in.opening, Around(r), in.zone)
              index == IndexOver(in, r, windows)
              line == Timeline(free(q, r), BusyOf(q, bookings))
  <2>1. BuildIndex(in, r) = index
    BY DEF BuildIndex
  <2>2. windows = open(r)
    BY <1>1
  <2>3. /\ index.in = in
        /\ index.pools[i] = {p \in Resources : IsEligible(p, needs[i], svc, offers)}
        /\ q \in index.pools[i] => index.timelines[q] = line
    <3>1. in.svc \in Services
      BY <1>1
    <3>2. /\ index.in = in
          /\ \A k \in DOMAIN Offer[in.svc].needs :
                index.pools[k] = {p \in Resources : IsEligible(p, Offer[in.svc].needs[k], in.svc, in.offers)}
          /\ \A k \in DOMAIN Offer[in.svc].needs : \A p \in index.pools[k] :
                index.timelines[p] = Timeline(Within(in.own[p], Around(r), in.zone, windows),
                                              BusyOf(p, in.bookings))
      <4>. HIDE DEF windows
      <4>. QED
        BY <3>1, IndexHolds
    <3>. HIDE DEF index, windows
    <3>. QED
      BY <1>1, <2>2, <3>2
  <2>. HIDE DEF index, windows
  <2>4. FreeFor(index, o, people)[i] =
          {p \in index.pools[i] : IsFreeFor(index.timelines[p], o) /\ ~IsTooSmall(p, people)}
    BY <1>1, <2>3 DEF FreeFor
  <2>5. q \in index.pools[i] <=> q \in Resources /\ IsEligible(q, needs[i], svc, offers)
    BY <2>3
  <2>6. IsFreeFor(line, o) <=> ListCovers(free(q, r), o) /\ ~taken(q)
    <3>1. line.free = free(q, r)
      BY DEF Timeline
    <3>2. IsHeldDuring(line, o) <=> taken(q)
      <4>. HIDE DEF free
      <4>. QED
        BY <1>3
    <3>. HIDE DEF line, free
    <3>. QED
      BY <3>1, <3>2 DEF IsFreeFor
  <2>. HIDE DEF line, free, needs
  <2>7. q \in FreeFor(index, o, people)[i] <=>
          q \in index.pools[i] /\ IsFreeFor(index.timelines[q], o) /\ ~IsTooSmall(q, people)
    BY <2>4
  <2>. QED
    BY <2>1, <2>3, <2>5, <2>6, <2>7
<1>5. ASSUME NEW q \in Resources, ListCovers(free(q, few), o)
      PROVE  ListCovers(free(q, more), o)
  <2>1. (own[q] = None \/ IsPlan(own[q])) /\ IsPlan(opening)
    BY DEF PlansRight
  <2>2. ListCovers(Within(own[q], Around(few), zone, WindowsForRange(opening, Around(few), zone)),
                   Interval(o.start, o.end))
    BY <1>2, <1>5
  <2>3. Span(o.start, o.end) \subseteq T
    BY DEF o
  <2>. HIDE DEF free
  <2>4. ListCovers(Within(own[q], Around(more), zone, WindowsForRange(opening, Around(more), zone)),
                   Interval(o.start, o.end))
    BY <1>2, <2>1, <2>2, <2>3, StretchKept
  <2>. QED
    BY <1>2, <2>4 DEF free
<1>. HIDE DEF free, open, needs
<1>6. \A i \in DOMAIN needs : \A q :
          q \in FreeFor(BuildIndex(in, few), o, people)[i] =>
          q \in FreeFor(BuildIndex(in, more), o, people)[i]
  BY <1>4, <1>5
<1>. QED
  BY <1>6 DEF needs, o, in

\* New resources are found exactly when who is free can man the units.
LEMMA NewIsOk ==
    ASSUME NEW in, in.svc \in Services, RowsRight(in.bookings), NEW range, NEW open,
           NEW occupied, NEW people, NEW date
    PROVE  LET index == IndexOver(in, range, open)
           IN  AssessNew(index, occupied, people, date).ok <=>
                  \E f : Manned(f, in.svc, DOMAIN Offer[in.svc].needs, FreeFor(index, occupied, people))
<1>. DEFINE index == IndexOver(in, range, open)
            slot == AssessNew(index, occupied, people, date)
            demands == Demands(index, occupied, people, date)
            crew == MatchResources(demands)
            can == \E f : Manned(f, in.svc, DOMAIN Offer[in.svc].needs,
                                 FreeFor(index, occupied, people))
<1>1. index.in = in
  BY IndexHolds
<1>2. demands \in Seq(Seq(Resources)) /\ (Ways(demands) # {} <=> can)
  BY DemandsType, DemandsManned
<1>. HIDE DEF index, can
<1>3. PICK seen : slot = Assigned(in.svc, crew, seen)
  <2>. HIDE DEF demands, crew
  <2>. QED
    BY <1>1 DEF AssessNew, demands, crew
<1>. HIDE DEF demands
<1>4. IF Ways(demands) = {} THEN crew = None
      ELSE \E g \in Ways(demands) : crew = Range(g)
  BY <1>2, MatchIsExact
<1>. HIDE DEF slot, crew
<1>5. IF crew # None THEN slot.ok ELSE ~slot.ok
  BY <1>3 DEF Assigned, Planned, Rejected
<1>6. \A g \in Ways(demands) : Range(g) # None
  <2>1. Wanted(demands) \subseteq Resources
    BY <1>2, DemandsBounded
  <2>2. \A g \in Ways(demands) : Range(g) \in SUBSET Resources
    BY <2>1 DEF Ways, Injection, Range
  <2>. QED
    BY <2>2, EngineConstants
<1>7. slot.ok <=> can
  BY <1>2, <1>4, <1>5, <1>6
<1>. QED
  BY <1>7 DEF slot, index, can

\* What may stand by the index of some days may by that of other days, where these are open too.
LEMMA MayIsKept ==
    ASSUME IsZone(zone), PlansRight, NEW svc \in Services,
           NEW start \in Int, NEW people, NEW date,
           NEW few, AreDays(Around(few)), NEW more, AreDays(Around(more)),
           NEW T, OpensToo(Around(few), Around(more), T),
           Span(start, start + Offer[svc].duration) \subseteq T,
           MayStand(BuildIndex(Asked(svc, bookings), few), start, people, date)
    PROVE  MayStand(BuildIndex(Asked(svc, bookings), more), start, people, date)
<1>. DEFINE in == Asked(svc, bookings)
            open(r) == WindowsForRange(opening, Around(r), zone)
            free(r) == Within(Offer[svc].plan, Around(r), zone, open(r))
            at == Interval(start, start + Offer[svc].duration)
<1>1. /\ in.svc = svc /\ in.opening = opening /\ in.zone = zone /\ in.bookings = bookings
  BY DEF Asked
<1>. HIDE DEF in
<1>2. ASSUME NEW r
      PROVE  /\ BuildIndex(in, r).in = in
             /\ BuildIndex(in, r).appointmentWindows = free(r)
             /\ BuildIndex(in, r).earliest = in.now + Offer[svc].notice
             /\ BuildIndex(in, r).latest = LocalDateOf(in.now, in.zone) + Offer[svc].horizon
  <2>. DEFINE windows == WindowsForRange(in.opening, Around(r), in.zone)
              index == IndexOver(in, r, windows)
  <2>1. BuildIndex(in, r) = index
    BY DEF BuildIndex
  <2>2. windows = open(r)
    BY <1>1
  <2>3. /\ index.in = in
        /\ index.appointmentWindows = Within(Offer[in.svc].plan, Around(r), in.zone, windows)
        /\ index.earliest = in.now + Offer[in.svc].notice
        /\ index.latest = LocalDateOf(in.now, in.zone) + Offer[in.svc].horizon
    <3>. HIDE DEF windows
    <3>. QED
      BY <1>1, IndexHolds
  <2>. HIDE DEF index, windows
  <2>. QED
    BY <1>1, <2>1, <2>2, <2>3
<1>3. /\ at = Interval(at.start, at.end)
      /\ at.start \in Int /\ at.end \in Int /\ at.start < at.end
  BY OccupiedIs
<1>4. at.start = start /\ at.end = start + Offer[svc].duration
  BY DEF Interval
<1>5. ListCovers(free(few), at) => ListCovers(free(more), at)
  <2>. SUFFICES ASSUME ListCovers(free(few), at) PROVE ListCovers(free(more), at)
    OBVIOUS
  <2>. DEFINE plan == Offer[svc].plan
  <2>1. (plan = None \/ IsPlan(plan)) /\ IsPlan(opening)
    BY EngineConstants DEF PlansRight
  <2>2. Span(at.start, at.end) \subseteq T
    BY <1>4
  <2>. HIDE DEF at
  <2>3. ListCovers(Within(plan, Around(few), zone, WindowsForRange(opening, Around(few), zone)),
                   Interval(at.start, at.end))
    BY <1>3
  <2>. HIDE DEF free, plan
  <2>4. ListCovers(Within(plan, Around(more), zone, WindowsForRange(opening, Around(more), zone)),
                   Interval(at.start, at.end))
    BY <1>3, <2>1, <2>2, <2>3, StretchKept
  <2>. QED
    BY <1>3, <2>4 DEF free, plan
<1>. HIDE DEF free
<1>6. MayStand(BuildIndex(in, more), start, people, date)
  <2>1. MayStand(BuildIndex(in, few), start, people, date)
    BY DEF in
  <2>. QED
    BY <1>1, <1>2, <1>5, <2>1 DEF MayStand
<1>. QED
  BY <1>6 DEF in

\* A start that is accepted by the index of some days is by that of other days, where these
\* are open too.
LEMMA StandsToo ==
    ASSUME IsZone(zone), PlansRight, RowsRight(bookings), NEW svc \in Services,
           NEW start \in Int, NEW people,
           NEW few, AreDays(Around(few)), NEW more, AreDays(Around(more)),
           NEW T, OpensToo(Around(few), Around(more), T),
           Span(Occupied(svc, start).start, Occupied(svc, start).end) \subseteq T,
           Span(start, start + Offer[svc].duration) \subseteq T,
           AssessSlot(BuildIndex(Asked(svc, bookings), few), start, people).ok
    PROVE  AssessSlot(BuildIndex(Asked(svc, bookings), more), start, people).ok
<1>. DEFINE in == Asked(svc, bookings)
            day == LocalDateOf(start, zone)
            all == BuildIndex(in, few)
            one == BuildIndex(in, more)
            session == SessionsAt(svc, start, bookings)
            shared == IsShared(svc) /\ session # {}
            o == Occupied(svc, start)
<1>1. /\ in.svc = svc /\ in.bookings = bookings /\ in.zone = zone
  BY DEF Asked
<1>. HIDE DEF in
<1>3. \A r : BuildIndex(in, r).in = in
  <2>. SUFFICES ASSUME NEW r PROVE BuildIndex(in, r).in = in
    OBVIOUS
  <2>. DEFINE windows == WindowsForRange(in.opening, Around(r), in.zone)
  <2>1. BuildIndex(in, r) = IndexOver(in, r, windows)
    BY DEF BuildIndex
  <2>. HIDE DEF windows
  <2>2. IndexOver(in, r, windows).in = in
    BY <1>1, IndexHolds
  <2>. QED
    BY <2>1, <2>2
<1>4. all.in = in /\ one.in = in
  BY <1>3
<1>5. /\ AssessSlot(all, start, people) = AssessOn(all, start, people, day)
      /\ AssessSlot(one, start, people) = AssessOn(one, start, people, day)
  <2>. HIDE DEF all, one, day
  <2>. QED
    BY <1>1, <1>4 DEF AssessSlot, day
<1>6. ASSUME NEW index, index.in = in
      PROVE  /\ AssessOn(index, start, people, day).ok => MayStand(index, start, people, day)
             /\ MayStand(index, start, people, day) /\ shared =>
                   AssessOn(index, start, people, day) = AssessSession(index, session, people)
             /\ MayStand(index, start, people, day) /\ ~shared =>
                   AssessOn(index, start, people, day) = AssessNew(index, o, people, day)
  <2>. HIDE DEF day
  <2>1. LET q == index.in.svc
            s == SessionsAt(q, start, index.in.bookings)
            may == MayStand(index, start, people, day)
            many == IsShared(q) /\ s # {}
        IN  /\ AssessOn(index, start, people, day).ok => may
            /\ may /\ many => AssessOn(index, start, people, day) = AssessSession(index, s, people)
            /\ may /\ ~many => AssessOn(index, start, people, day)
                                 = AssessNew(index, Occupied(q, start), people, day)
    BY SlotIs
  <2>. QED
    BY <1>1, <1>6, <2>1
<1>7. AssessOn(all, start, people, day).ok
  BY <1>5 DEF in
<1>8. MayStand(all, start, people, day)
  <2>. HIDE DEF all, day, shared, session, o
  <2>. QED
    BY <1>4, <1>6, <1>7
<1>9. MayStand(one, start, people, day)
  <2>1. MayStand(BuildIndex(Asked(svc, bookings), few), start, people, day)
    BY <1>8 DEF in
  <2>. HIDE DEF one, day, all
  <2>2. MayStand(BuildIndex(Asked(svc, bookings), more), start, people, day)
    BY <2>1, MayIsKept
  <2>. QED
    BY <2>2 DEF in, one
<1>10. CASE shared
  <2>. HIDE DEF all, one, day, shared, session, o
  <2>1. AssessSession(all, session, people) = AssessSession(one, session, people)
    BY <1>4 DEF AssessSession
  <2>2. AssessSlot(one, start, people).ok
    BY <1>4, <1>5, <1>6, <1>7, <1>8, <1>9, <1>10, <2>1
  <2>. QED
    BY <2>2 DEF in, one
<1>11. CASE ~shared
  <2>1. \A r : AssessNew(BuildIndex(in, r), o, people, day).ok <=>
            \E f : Manned(f, svc, DOMAIN Offer[svc].needs, FreeFor(BuildIndex(in, r), o, people))
    <3>. SUFFICES ASSUME NEW r
                  PROVE  AssessNew(BuildIndex(in, r), o, people, day).ok <=>
            \E f : Manned(f, svc, DOMAIN Offer[svc].needs, FreeFor(BuildIndex(in, r), o, people))
      OBVIOUS
    <3>. DEFINE windows == WindowsForRange(in.opening, Around(r), in.zone)
                index == IndexOver(in, r, windows)
    <3>1. BuildIndex(in, r) = index
      BY DEF BuildIndex
    <3>2. in.svc \in Services /\ RowsRight(in.bookings)
      BY <1>1
    <3>. HIDE DEF windows, o, day
    <3>3. AssessNew(index, o, people, day).ok <=>
            \E f : Manned(f, in.svc, DOMAIN Offer[in.svc].needs, FreeFor(index, o, people))
      BY <3>2, NewIsOk
    <3>. HIDE DEF index
    <3>. QED
      BY <1>1, <3>1, <3>3
  <2>2. \A i \in DOMAIN Offer[svc].needs : \A q :
            q \in FreeFor(all, o, people)[i] => q \in FreeFor(one, o, people)[i]
    <3>1. \A i \in DOMAIN Offer[svc].needs : \A q :
            q \in FreeFor(BuildIndex(Asked(svc, bookings), few), Occupied(svc, start), people)[i] =>
            q \in FreeFor(BuildIndex(Asked(svc, bookings), more), Occupied(svc, start), people)[i]
      BY FreeKept
    <3>. QED
      BY <3>1 DEF in
  <2>. HIDE DEF all, one, day, shared, session, o
  <2>3. AssessNew(all, o, people, day).ok
    BY <1>4, <1>6, <1>7, <1>8, <1>11
  <2>4. PICK f : Manned(f, svc, DOMAIN Offer[svc].needs, FreeFor(all, o, people))
    BY <2>1, <2>3 DEF all
  <2>5. \A x \in KeptUnits(svc, DOMAIN Offer[svc].needs) : x[1] \in DOMAIN Offer[svc].needs
    BY DEF KeptUnits
  <2>6. Manned(f, svc, DOMAIN Offer[svc].needs, FreeFor(one, o, people))
    BY <2>2, <2>4, <2>5, MannedByMore
  <2>7. AssessNew(one, o, people, day).ok
    BY <2>1, <2>6 DEF one
  <2>8. AssessSlot(one, start, people).ok
    BY <1>4, <1>5, <1>6, <1>9, <1>11, <2>7
  <2>. QED
    BY <2>8 DEF in, one
<1>. QED
  BY <1>10, <1>11

\* A command, which looks at the day of the start alone, accepts what is accepted by an index
\* of any days, when the service stays near that day.
LEMMA AlsoAlone ==
    ASSUME IsZone(zone), PlansRight, RowsRight(bookings), NEW svc \in Services, StaysNear(svc),
           NEW start \in Int, NEW people,
           NEW days, days.from \in Int, days.to \in Int, days.from <= days.to,
           AssessSlot(BuildIndex(Asked(svc, bookings), days), start, people).ok
    PROVE  AssessAlone(Asked(svc, bookings), start, people).ok
<1>. DEFINE day == LocalDateOf(start, zone)
            here == [from |-> day, to |-> day]
            T == {t \in Int : start - Reach <= t /\ t < start + Reach}
            few == Around(days)
            more == Around(here)
<1>1. day \in Int
  BY DayOfIsInt
<1>2. AreDays(few)
  BY DEF Around, AreDays
<1>3. more.from = day - 1 /\ more.to = day + 1
  BY DEF Around
<1>. HIDE DEF day
<1>4. AreDays(more)
  BY <1>1, <1>3 DEF AreDays
<1>5. OpensToo(few, more, T)
  <2>. SUFFICES ASSUME NEW plan, IsPlan(plan), NEW t \in T, OpenAmong(plan, few, t)
                PROVE  OpenAmong(plan, more, t)
    BY DEF OpensToo
  <2>1. PICK date \in few.from..few.to : OpenOn(plan, date, zone, t)
    BY DEF OpenAmong
  <2>2. date \in Int
    BY <1>2 DEF AreDays
  <2>3. t \in Int /\ start - Reach <= t /\ t < start + Reach
    OBVIOUS
  <2>. HIDE DEF T
  <2>4. date \in LocalDateOf(start, zone) - 1..LocalDateOf(start, zone) + 1
    BY <2>1, <2>2, <2>3, NearDays DEF Reach
  <2>. HIDE DEF more
  <2>. QED
    BY <1>3, <2>1, <2>4 DEF OpenAmong, day
<1>6. /\ Span(Occupied(svc, start).start, Occupied(svc, start).end) \subseteq T
      /\ Span(start, start + Offer[svc].duration) \subseteq T
  <2>. DEFINE o == Occupied(svc, start)
              at == Interval(start, start + Offer[svc].duration)
  <2>1. /\ o.start \in Int /\ o.end \in Int
        /\ start - Reach <= o.start /\ o.end <= start + Reach
        /\ at.start \in Int /\ at.end \in Int
        /\ start - Reach <= at.start /\ at.end <= start + Reach
    BY OccupiedNear
  <2>2. at.start = start /\ at.end = start + Offer[svc].duration
    BY DEF Interval
  <2>3. Reach \in Int
    <3>1. Day \in Int /\ zone.after \in Int /\ zone.before \in Int
      BY DayIsReal DEF IsZone
    <3>. QED
      BY <3>1 DEF Reach, Distance
  <2>. HIDE DEF o, at
  <2>4. \A a, b \in Int : start - Reach <= a /\ b <= start + Reach => Span(a, b) \subseteq T
    BY <2>3 DEF Span
  <2>5. Span(o.start, o.end) \subseteq T /\ Span(at.start, at.end) \subseteq T
    <3>. HIDE DEF T
    <3>. QED
      BY <2>1, <2>4
  <2>. QED
    BY <2>2, <2>5 DEF o
<1>. HIDE DEF T
<1>7. AssessSlot(BuildIndex(Asked(svc, bookings), here), start, people).ok
  <2>. HIDE DEF here
  <2>. QED
    BY <1>2, <1>4, <1>5, <1>6, StandsToo
<1>8. Asked(svc, bookings).zone = zone
  BY DEF Asked
<1>. QED
  BY <1>7, <1>8 DEF AssessAlone, DayIndex, day

\* An index of some days accepts what a command accepts on one of them.
LEMMA AlsoAmong ==
    ASSUME IsZone(zone), PlansRight, RowsRight(bookings), NEW svc \in Services,
           NEW start \in Int, NEW people,
           NEW days, days.from \in Int, days.to \in Int,
           LocalDateOf(start, zone) \in days.from..days.to,
           AssessAlone(Asked(svc, bookings), start, people).ok
    PROVE  AssessSlot(BuildIndex(Asked(svc, bookings), days), start, people).ok
<1>. DEFINE day == LocalDateOf(start, zone)
            here == [from |-> day, to |-> day]
            few == Around(here)
            more == Around(days)
<1>1. /\ few.from = day - 1 /\ few.to = day + 1
      /\ more.from = days.from - 1 /\ more.to = days.to + 1
  BY DEF Around
<1>2. day \in Int /\ days.from <= day /\ day <= days.to
  BY DayOfIsInt
<1>. HIDE DEF day, few, more
<1>3. AreDays(few) /\ AreDays(more)
  BY <1>1, <1>2 DEF AreDays
<1>4. \A date \in few.from..few.to : date \in more.from..more.to
  BY <1>1, <1>2
<1>5. OpensToo(few, more, Int)
  BY <1>4 DEF OpensToo, OpenAmong
<1>6. /\ Span(Occupied(svc, start).start, Occupied(svc, start).end) \subseteq Int
      /\ Span(start, start + Offer[svc].duration) \subseteq Int
  BY DEF Span
<1>7. AssessSlot(BuildIndex(Asked(svc, bookings), here), start, people).ok
  <2>1. Asked(svc, bookings).zone = zone
    BY DEF Asked
  <2>. QED
    BY <2>1 DEF AssessAlone, DayIndex, day
<1>. QED
  <2>1. AreDays(Around(here)) /\ AreDays(Around(days)) /\ OpensToo(Around(here), Around(days), Int)
    BY <1>3, <1>5 DEF few, more
  <2>. HIDE DEF here
  <2>. QED
    BY <1>6, <1>7, <2>1, StandsToo

-----------------------------------------------------------------------------
(* The points of the grid and the candidates of a list                     *)

\* Each later than those before it.
Ascends(list) == \A i, j \in DOMAIN list : i < j => list[i] < list[j]

\* A list to which a later one is added still ascends.
LEMMA LaterAdded ==
    ASSUME NEW list \in Seq(Int), Ascends(list), NEW t \in Int,
           list # <<>> => list[Len(list)] < t
    PROVE  Append(list, t) \in Seq(Int) /\ Ascends(Append(list, t))
<1>. DEFINE n == Len(list)
            more == Append(list, t)
<1>1. /\ n \in Nat /\ DOMAIN list = 1..n /\ (list # <<>> <=> n # 0)
      /\ \A i \in 1..n : list[i] \in Int
  OBVIOUS
<1>2. /\ more \in Seq(Int) /\ DOMAIN more = 1..n + 1
      /\ more[n + 1] = t /\ \A i \in 1..n : more[i] = list[i]
  OBVIOUS
<1>. HIDE DEF more, n
<1>3. \A i \in 1..n : list[i] < t
  <2>. SUFFICES ASSUME NEW i \in 1..n PROVE list[i] < t
    OBVIOUS
  <2>1. n \in 1..n /\ list[n] < t
    BY <1>1 DEF n
  <2>2. i = n \/ i < n
    BY <1>1
  <2>3. i < n => list[i] < list[n]
    BY <1>1, <2>1 DEF Ascends
  <2>. QED
    BY <1>1, <2>1, <2>2, <2>3
<1>4. \A i, j \in 1..n + 1 : i < j => i \in 1..n /\ (j \in 1..n \/ j = n + 1)
  BY <1>1
<1>5. \A i, j \in 1..n + 1 : i < j => more[i] < more[j]
  <2>1. \A i, j \in 1..n : i < j => list[i] < list[j]
    BY <1>1 DEF Ascends
  <2>. QED
    BY <1>2, <1>3, <1>4, <2>1
<1>6. Ascends(more)
  BY <1>2, <1>5 DEF Ascends
<1>. QED
  BY <1>2, <1>6 DEF more

\* A day has some points of the grid.
LEMMA PointsAre ==
    ASSUME NEW step \in Nat \ {0}
    PROVE  PointsOfADay(step) \in Nat \ {0}
<1>1. Day \in Nat \ {0}
  BY DayIsReal
<1>. DEFINE x == Day + step - 1
<1>2. x \in Nat /\ x >= step
  BY <1>1
<1>. HIDE DEF x
<1>3. x \div step \in Nat /\ x \div step > 0
  BY <1>2
<1>. QED
  BY <1>3 DEF PointsOfADay, x

\* The points of a day's grid lie apart, the last one of a day and the first one of the next too.
LEMMA PointsApart ==
    ASSUME NEW step \in Nat \ {0}
    PROVE  LET k == PointsOfADay(step)
           IN  /\ k \in Nat \ {0}
               /\ (k - 1) * step \in Nat /\ (k - 1) * step < Day
               /\ Day <= k * step /\ Day - (k - 1) * step <= step
<1>. DEFINE k == PointsOfADay(step)
<1>1. k \in Nat \ {0} /\ Day \in Nat \ {0}
  BY PointsAre, DayIsReal
<1>. DEFINE x == Day + step - 1
<1>2. x \in Nat /\ k = x \div step
  BY <1>1 DEF PointsOfADay
<1>3. \A y \in Nat : (y \div step) * step <= y /\ y < (y \div step) * step + step
  <2>. SUFFICES ASSUME NEW y \in Nat
                PROVE  (y \div step) * step <= y /\ y < (y \div step) * step + step
    OBVIOUS
  <2>1. y = (y \div step) * step + (y % step) /\ y % step \in 0..step - 1 /\ y \div step \in Int
    OBVIOUS
  <2>. DEFINE a == (y \div step) * step
              b == y % step
  <2>2. a \in Int
    BY <2>1
  <2>3. y = a + b /\ b \in 0..step - 1
    BY <2>1
  <2>. HIDE DEF a, b
  <2>4. a <= y /\ y < a + step
    BY <2>2, <2>3
  <2>. QED
    BY <2>4 DEF a
<1>4. k * step <= x /\ x < k * step + step
  BY <1>2, <1>3
<1>5. k * step \in Nat /\ (k - 1) * step = k * step - step
  BY <1>1
<1>. DEFINE m == k * step
            l == (k - 1) * step
<1>6. m \in Nat /\ l = m - step /\ m <= Day + step - 1 /\ Day + step - 1 < m + step
  BY <1>4, <1>5
<1>. HIDE DEF m, l, k, x
<1>7. l < Day /\ Day <= m /\ Day - l <= step /\ l \in Int
  BY <1>1, <1>6
<1>8. l \in Nat
  <2>1. k - 1 \in Nat
    BY <1>1
  <2>2. (k - 1) * step \in Nat
    BY <2>1
  <2>. QED
    BY <2>2 DEF l
<1>. QED
  BY <1>1, <1>7, <1>8 DEF m, l, k

\* The last point of the grid of an index, and each of them.
LastPoint(index) ==
    (index.range.to - index.range.from + 1) * PointsOfADay(Offer[index.in.svc].step)

GridPoint(index, n) ==
    LET step == Offer[index.in.svc].step
    IN  ZonedTimeToEpoch(index.range.from + ((n - 1) \div PointsOfADay(step)),
                         ((n - 1) % PointsOfADay(step)) * step, index.in.zone)

\* The candidates with one point more.
NextCandidate(index, done, n) ==
    IF \/ GridPoint(index, n) < index.earliest
       \/ done # <<>> /\ GridPoint(index, n) <= done[Len(done)]
    THEN done ELSE Append(done, GridPoint(index, n))

\* The candidates are gathered point by point, each later than those before it.
LEMMA CandidateSteps ==
    ASSUME NEW index, index.in.svc \in Services, IsZone(index.in.zone),
           index.range.from \in Int, index.range.to \in Int, index.range.from <= index.range.to
    PROVE  /\ LastPoint(index) \in Nat
           /\ \A n \in 1..LastPoint(index) : GridPoint(index, n) \in Int
           /\ \E f : /\ \A i \in 0..LastPoint(index) : f[i] \in Seq(Int) /\ Ascends(f[i])
                     /\ f[0] = <<>>
                     /\ \A i \in 1..LastPoint(index) : f[i] = NextCandidate(index, f[i - 1], i)
                     /\ Candidates(index) = f[LastPoint(index)]
<1>. DEFINE step == Offer[index.in.svc].step
            perDay == PointsOfADay(step)
            point(n) == ZonedTimeToEpoch(index.range.from + ((n - 1) \div perDay),
                                         ((n - 1) % perDay) * step, index.in.zone)
            last == (index.range.to - index.range.from + 1) * perDay
            V == {s \in Seq(Int) : Ascends(s)}
            late(done, n) == \/ point(n) < index.earliest
                             \/ done # <<>> /\ point(n) <= done[Len(done)]
            next(done, n) == IF late(done, n) THEN done ELSE Append(done, point(n))
            Solves(f) == f = [n \in 0..last |-> IF n = 0 THEN <<>> ELSE next(f[n - 1], n)]
            G == [p \in V \X (1..last) |-> next(p[1], p[2])]
            first == CHOOSE f : Solves(f)
<1>1. Candidates(index) = first[last]
  BY Zenon DEF Candidates
<1>0. /\ LastPoint(index) = last /\ \A n : GridPoint(index, n) = point(n)
      /\ \A done, n : NextCandidate(index, done, n) = next(done, n)
  BY Zenon DEF LastPoint, GridPoint, NextCandidate
<1>2. step \in Nat \ {0}
  BY EngineConstants
<1>. HIDE DEF step
<1>3. perDay \in Nat \ {0}
  BY <1>2, PointsAre
<1>. HIDE DEF perDay
<1>4. last \in Nat
  <2>. DEFINE days == index.range.to - index.range.from + 1
  <2>1. days \in Nat
    OBVIOUS
  <2>. HIDE DEF days
  <2>2. days * perDay \in Nat
    BY <1>3, <2>1
  <2>. QED
    BY <2>2 DEF days
<1>. HIDE DEF last
<1>5. \A n \in 1..last : point(n) \in Int
  <2>. SUFFICES ASSUME NEW n \in 1..last PROVE point(n) \in Int
    OBVIOUS
  <2>1. n - 1 \in Int
    BY <1>4
  <2>2. (n - 1) \div perDay \in Int /\ (n - 1) % perDay \in Int
    BY <1>3, <2>1
  <2>. DEFINE d == (n - 1) \div perDay
              m == (n - 1) % perDay
  <2>3. d \in Int /\ m \in Int
    BY <2>2
  <2>4. point(n) = ZonedTimeToEpoch(index.range.from + d, m * step, index.in.zone)
    OBVIOUS
  <2>. HIDE DEF d, m, point
  <2>5. index.range.from + d \in Int /\ m * step \in Int
    BY <1>2, <2>3
  <2>. QED
    BY <2>4, <2>5, EpochIsInt
<1>. HIDE DEF point
<1>6. <<>> \in V
  <2>1. <<>> \in Seq(Int) /\ DOMAIN <<>> = {}
    OBVIOUS
  <2>. QED
    BY <2>1 DEF Ascends
<1>7. ASSUME NEW done \in V, NEW n \in 1..last
      PROVE  next(done, n) \in V
  <2>1. CASE late(done, n)
    BY <2>1
  <2>2. CASE ~late(done, n)
    <3>1. done \in Seq(Int) /\ Ascends(done)
      OBVIOUS
    <3>2. done # <<>> => done[Len(done)] < point(n)
      <4>. SUFFICES ASSUME done # <<>> PROVE done[Len(done)] < point(n)
        OBVIOUS
      <4>1. done[Len(done)] \in Int
        BY <3>1
      <4>2. ~(point(n) <= done[Len(done)])
        BY <2>2
      <4>. QED
        BY <1>5, <4>1, <4>2
    <3>3. Append(done, point(n)) \in V
      BY <1>5, <3>1, <3>2, LaterAdded
    <3>. QED
      BY <2>2, <3>3
  <2>. QED
    BY <2>1, <2>2
<1>. HIDE DEF next, V
<1>8. \A v \in V, i \in 1..last : G[<<v, i>>] = next(v, i)
  OBVIOUS
<1>. HIDE DEF G
<1>9. PICK f \in [0..last -> V] : f[0] = <<>> /\ \A i \in 1..last : f[i] = G[<<f[i - 1], i>>]
  <2>1. StaysIn(V, last, G)
    BY <1>7, <1>8 DEF StaysIn
  <2>. QED
    BY <1>4, <1>6, <2>1, Sequel, SMTT(30)
<1>10. \A i \in 0..last : i = 0 \/ (i \in 1..last /\ i - 1 \in 0..last)
  BY <1>4
<1>11. \A i \in 0..last : f[i] = IF i = 0 THEN <<>> ELSE next(f[i - 1], i)
  BY <1>8, <1>9, <1>10
<1>12. Solves(f)
  BY <1>11
<1>13. Solves(first)
  <2>. HIDE DEF Solves
  <2>. QED
    BY <1>12
<1>. HIDE DEF first
<1>14. first = [i \in 0..last |-> IF i = 0 THEN <<>> ELSE next(first[i - 1], i)]
  BY <1>13
<1>. DEFINE P == {i \in 0..last : first[i] \in V}
<1>15. \A i \in 0..last : first[i] = IF i = 0 THEN <<>> ELSE next(first[i - 1], i)
  BY <1>14, Zenon
<1>16. \A i \in 1..last : i \in 0..last /\ i # 0
  BY <1>4
<1>17. 0 \in P
  <2>1. 0 \in 0..last
    BY <1>4
  <2>. QED
    BY <1>6, <1>15, <2>1
<1>18. ASSUME NEW i \in 1..last, i - 1 \in P
       PROVE  i \in P
  BY <1>7, <1>15, <1>16, <1>18
<1>19. \A i \in 0..last : i \in P
  <2>. HIDE DEF P
  <2>. QED
    BY <1>4, <1>17, <1>18, BySteps
<1>20. \A i \in 0..last : first[i] \in Seq(Int) /\ Ascends(first[i])
  BY <1>19 DEF V
<1>21. first[0] = <<>> /\ \A i \in 1..last : first[i] = next(first[i - 1], i)
  <2>1. 0 \in 0..last
    BY <1>4
  <2>. QED
    BY <1>15, <1>16, <2>1
<1>. QED
  BY <1>0, <1>1, <1>4, <1>5, <1>20, <1>21

\* The candidates are instants, each later than those before it.
LEMMA CandidatesAscend ==
    ASSUME NEW index, index.in.svc \in Services, IsZone(index.in.zone),
           index.range.from \in Int, index.range.to \in Int, index.range.from <= index.range.to
    PROVE  Candidates(index) \in Seq(Int) /\ Ascends(Candidates(index))
<1>1. PICK f : /\ \A i \in 0..LastPoint(index) : f[i] \in Seq(Int) /\ Ascends(f[i])
               /\ Candidates(index) = f[LastPoint(index)]
  BY CandidateSteps, Zenon
<1>2. LastPoint(index) \in 0..LastPoint(index)
  BY CandidateSteps
<1>. QED
  BY <1>1, <1>2

\* Of two local times that lie further apart than the clocks skip, the later one, when it is
\* shown, does not stand for an earlier instant than the other.
LEMMA EpochKeepsOrder ==
    ASSUME NEW z, IsZone(z), NEW d \in Int, NEW m \in Int, NEW date \in Int, NEW minute \in Int,
           NEW apart \in Nat \ {0}, z.after - z.before <= apart,
           d * Day + m + apart <= date * Day + minute,
           LET t == ZonedTimeToEpoch(date, minute, z)
           IN  t + ZoneOffset(t, z) = date * Day + minute
    PROVE  ZonedTimeToEpoch(d, m, z) <= ZonedTimeToEpoch(date, minute, z)
<1>. DEFINE w1 == d * Day + m
            w2 == date * Day + minute
            t1 == ZonedTimeToEpoch(d, m, z)
            t2 == ZonedTimeToEpoch(date, minute, z)
<1>1. /\ Day \in Nat \ {0} /\ z.at \in Int /\ z.before \in Int /\ z.after \in Int
  BY DayIsReal DEF IsZone
<1>2. w1 \in Int /\ w2 \in Int
  BY <1>1
<1>3. t1 \in Int /\ t2 \in Int
  BY EpochIsInt
<1>4. /\ \A u \in Int : u + ZoneOffset(u, z) = w1 => t1 + ZoneOffset(t1, z) = w1 /\ t1 <= u
      /\ t1 + ZoneOffset(t1, z) # w1 => z.at <= t1 /\ t1 + ZoneOffset(t1, z) = w1 + z.after - z.before
  BY <1>2, EpochOf
<1>5. t2 + ZoneOffset(t2, z) = w2
  OBVIOUS
<1>6. w1 + apart <= w2
  OBVIOUS
<1>. HIDE DEF w1, w2, t1, t2
<1>7. \A u \in Int : ZoneOffset(u, z) = IF u < z.at THEN z.before ELSE z.after
  BY DEF ZoneOffset
<1>8. CASE t2 < z.at
  <2>1. t2 = w2 - z.before
    BY <1>1, <1>2, <1>3, <1>5, <1>7, <1>8
  <2>. DEFINE u == w1 - z.before
  <2>2. u \in Int /\ u < t2 /\ u < z.at
    BY <1>1, <1>2, <1>3, <1>6, <1>8, <2>1
  <2>3. u + ZoneOffset(u, z) = w1
    <3>1. ZoneOffset(u, z) = z.before
      BY <1>7, <2>2
    <3>. QED
      BY <1>1, <1>2, <3>1
  <2>. HIDE DEF u
  <2>4. t1 <= u
    BY <1>4, <2>2, <2>3
  <2>. QED
    BY <1>3, <2>2, <2>4 DEF t1, t2
<1>9. CASE ~(t2 < z.at)
  <2>1. t2 = w2 - z.after
    BY <1>1, <1>2, <1>3, <1>5, <1>7, <1>9
  <2>2. CASE t1 + ZoneOffset(t1, z) = w1
    <3>1. CASE t1 < z.at
      BY <1>1, <1>3, <1>9, <3>1 DEF t1, t2
    <3>2. CASE ~(t1 < z.at)
      <4>1. t1 = w1 - z.after
        BY <1>1, <1>2, <1>3, <1>7, <2>2, <3>2
      <4>2. t1 <= t2
        BY <1>1, <1>2, <1>3, <1>6, <2>1, <4>1
      <4>. QED
        BY <4>2 DEF t1, t2
    <3>. QED
      BY <3>1, <3>2
  <2>3. CASE t1 + ZoneOffset(t1, z) # w1
    <3>1. z.at <= t1 /\ t1 + ZoneOffset(t1, z) = w1 + z.after - z.before
      BY <1>4, <2>3
    <3>2. ZoneOffset(t1, z) = z.after
      BY <1>1, <1>3, <1>7, <3>1
    <3>3. t1 = w1 - z.before
      <4>. DEFINE a == z.after
                  b == z.before
      <4>1. t1 + a = w1 + a - b
        BY <3>1, <3>2
      <4>2. a \in Int /\ b \in Int
        BY <1>1
      <4>. HIDE DEF a, b
      <4>3. t1 = w1 - b
        BY <1>2, <1>3, <4>1, <4>2
      <4>. QED
        BY <4>3 DEF b
    <3>4. t1 <= t2
      BY <1>1, <1>2, <1>3, <1>6, <2>1, <3>3
    <3>. QED
      BY <3>4 DEF t1, t2
  <2>. QED
    BY <2>2, <2>3
<1>. QED
  BY <1>8, <1>9

\* Points of a grid that follow one another lie apart by the clock.
LEMMA WallsApart ==
    ASSUME NEW step \in Nat \ {0}, NEW from \in Int, NEW i \in Nat, NEW j \in Nat, i < j
    PROVE  LET k == PointsOfADay(step)
           IN  (from + (i \div k)) * Day + (i % k) * step + (Day - (k - 1) * step)
                  <= (from + (j \div k)) * Day + (j % k) * step
<1>. DEFINE k == PointsOfADay(step)
            l == (k - 1) * step
            q(n) == n \div k
            r(n) == n % k
            a(n) == (from + q(n)) * Day
            b(n) == r(n) * step
<1>1. k \in Nat \ {0} /\ l \in Nat /\ l < Day /\ Day - l <= step /\ Day \in Nat \ {0}
  BY PointsApart, DayIsReal
<1>. HIDE DEF k
<1>2. \A n \in Nat : q(n) \in Int /\ r(n) \in 0..k - 1 /\ n = q(n) * k + r(n)
  BY <1>1
<1>. HIDE DEF q, r
<1>3. \A x, y \in Int, c \in Nat : x <= y => x * c <= y * c
  OBVIOUS
<1>4. \A x \in Int, c \in Nat : x * c \in Int /\ (x + 1) * c = x * c + c
  OBVIOUS
<1>5. \A x \in Nat, c \in Nat : x * c \in Nat
  OBVIOUS
<1>6. q(i) <= q(j)
  <2>. SUFFICES ASSUME q(j) < q(i) PROVE FALSE
    BY <1>2
  <2>1. q(j) \in Int /\ q(i) \in Int /\ q(j) + 1 \in Int /\ q(j) + 1 <= q(i)
    BY <1>2
  <2>2. (q(j) + 1) * k <= q(i) * k /\ (q(j) + 1) * k = q(j) * k + k
    BY <1>1, <1>3, <1>4, <2>1
  <2>. DEFINE x == q(j) * k
              y == q(i) * k
  <2>3. x \in Int /\ y \in Int /\ x + k <= y
    BY <1>1, <1>4, <2>1, <2>2
  <2>4. j = x + r(j) /\ i = y + r(i) /\ r(j) \in 0..k - 1 /\ r(i) \in 0..k - 1
    BY <1>2
  <2>. HIDE DEF x, y
  <2>. QED
    BY <1>1, <2>3, <2>4
<1>7. /\ q(i) \in Int /\ q(j) \in Int /\ r(i) \in 0..k - 1 /\ r(j) \in 0..k - 1
      /\ r(i) \in Nat /\ r(j) \in Nat
  BY <1>1, <1>2
<1>8. b(i) \in Nat /\ b(j) \in Nat /\ b(i) <= l
  <2>1. b(i) \in Nat /\ b(j) \in Nat
    BY <1>5, <1>7
  <2>2. r(i) <= k - 1 /\ k - 1 \in Int
    BY <1>1, <1>7
  <2>3. b(i) <= l
    BY <1>3, <1>7, <2>2
  <2>. QED
    BY <2>1, <2>3
<1>9. a(i) \in Int /\ a(j) \in Int
  BY <1>1, <1>4, <1>7
<1>10. CASE q(i) = q(j)
  <2>1. r(i) < r(j)
    <3>. DEFINE x == q(i) * k
    <3>1. x \in Int /\ i = x + r(i) /\ j = x + r(j)
      BY <1>1, <1>2, <1>4, <1>7, <1>10
    <3>. HIDE DEF x
    <3>. QED
      BY <1>7, <3>1
  <2>2. b(i) + step <= b(j)
    <3>1. r(i) + 1 \in Int /\ r(i) + 1 <= r(j)
      BY <1>7, <2>1
    <3>2. (r(i) + 1) * step <= r(j) * step /\ (r(i) + 1) * step = r(i) * step + step
      BY <1>3, <1>4, <1>7, <3>1
    <3>. QED
      BY <3>2
  <2>3. a(i) = a(j)
    BY <1>10
  <2>. HIDE DEF a, b, l
  <2>4. (a(i) + b(i)) + (Day - l) <= a(j) + b(j)
    BY <1>1, <1>8, <1>9, <2>2, <2>3
  <2>. QED
    BY <2>4 DEF a, b, l, q, r, k
<1>11. CASE q(i) # q(j)
  <2>1. a(i) + Day <= a(j)
    <3>1. q(i) < q(j)
      BY <1>6, <1>7, <1>11
    <3>2. from + q(i) \in Int /\ from + q(j) \in Int /\ from + q(i) < from + q(j)
      BY <1>7, <3>1
    <3>. QED
      BY <3>2, DaysApart
  <2>. HIDE DEF a, b, l
  <2>2. (a(i) + b(i)) + (Day - l) <= a(j) + b(j)
    BY <1>1, <1>8, <1>9, <2>1
  <2>. QED
    BY <2>2 DEF a, b, l, q, r, k
<1>. QED
  BY <1>10, <1>11

\* A local time of the grid, of one of the days of an index, is one of its points, and the
\* points before it are of earlier local times of these days.
LEMMA GridHas ==
    ASSUME NEW index, index.in.svc \in Services, IsZone(index.in.zone),
           index.range.from \in Int, index.range.to \in Int, index.range.from <= index.range.to,
           NEW date \in index.range.from..index.range.to, NEW minute \in 0..Day - 1,
           minute % Offer[index.in.svc].step = 0
    PROVE  LET step == Offer[index.in.svc].step
               apart == Day - (PointsOfADay(step) - 1) * step
           IN  \E n \in 1..LastPoint(index) :
                  /\ GridPoint(index, n) = ZonedTimeToEpoch(date, minute, index.in.zone)
                  /\ \A j \in 1..n : j # n =>
                        \E d \in Int, m \in Nat :
                           /\ GridPoint(index, j) = ZonedTimeToEpoch(d, m, index.in.zone)
                           /\ index.range.from <= d
                           /\ (d * Day + m) + apart <= date * Day + minute
<1>. DEFINE step == Offer[index.in.svc].step
            z == index.in.zone
            k == PointsOfADay(step)
            from == index.range.from
            q == date - from
            r == minute \div step
            n == q * k + r + 1
            last == LastPoint(index)
<1>1. step \in Nat \ {0} /\ Day \in Nat \ {0}
  BY EngineConstants, DayIsReal
<1>2. minute % step = 0
  OBVIOUS
<1>3. date \in Int /\ minute \in 0..Day - 1
  OBVIOUS
<1>4. date \in from..index.range.to
  OBVIOUS
<1>5. /\ k \in Nat \ {0} /\ (k - 1) * step \in Nat /\ (k - 1) * step < Day /\ Day <= k * step
  BY <1>1, PointsApart
<1>6. last = (index.range.to - from + 1) * k
  BY DEF LastPoint
<1>. HIDE DEF k, step, last
<1>7. r \in Nat /\ r * step = minute
  <2>1. /\ \A m \in Nat : m \div step \in Nat
        /\ \A m \in Nat : m = (m \div step) * step + (m % step)
    <3>1. \A m \in Nat : m \div step \in Nat
      BY <1>1
    <3>2. \A m \in Nat : m = (m \div step) * step + (m % step)
      BY <1>1
    <3>. QED
      BY <3>1, <3>2
  <2>2. minute \in Nat
    BY <1>3
  <2>3. r \in Nat /\ minute = r * step + (minute % step)
    BY <2>1, <2>2
  <2>4. r * step \in Nat
    BY <1>1, <2>3
  <2>. HIDE DEF r
  <2>. QED
    BY <1>2, <2>2, <2>3, <2>4
<1>. HIDE DEF r
<1>8. r < k
  <2>. SUFFICES ASSUME k <= r PROVE FALSE
    BY <1>5, <1>7
  <2>1. \A x, y, c \in Nat : x <= y => x * c <= y * c
    OBVIOUS
  <2>2. k * step <= r * step
    BY <1>1, <1>5, <1>7, <2>1
  <2>. DEFINE x == k * step
  <2>3. x \in Int /\ Day <= x /\ x <= minute
    BY <1>1, <1>5, <1>7, <2>2
  <2>. HIDE DEF x
  <2>. QED
    BY <1>1, <1>3, <2>3
<1>9. q \in Nat /\ q <= index.range.to - from /\ from + q = date
  BY <1>4
<1>. HIDE DEF q
<1>10. n \in Nat /\ n - 1 = q * k + r /\ 1 <= n
  <2>1. q * k \in Nat
    BY <1>5, <1>9
  <2>. QED
    BY <1>7, <2>1
<1>11. (n - 1) \div k = q /\ (n - 1) % k = r
  <2>1. (q * k + r) \div k = q /\ (q * k + r) % k = r
    BY <1>5, <1>7, <1>8, <1>9
  <2>. HIDE DEF n
  <2>. QED
    BY <1>10, <2>1
<1>12. n <= last
  <2>. DEFINE d == index.range.to - from
  <2>1. d \in Int /\ q <= d /\ last = (d + 1) * k
    BY <1>6, <1>9
  <2>. HIDE DEF d
  <2>2. d \in Nat
    BY <1>9, <2>1
  <2>3. q * k <= d * k /\ (d + 1) * k = d * k + k
    <3>1. \A x, y, c \in Nat : x <= y => x * c <= y * c
      OBVIOUS
    <3>2. \A x, c \in Nat : (x + 1) * c = x * c + c
      OBVIOUS
    <3>. QED
      BY <1>5, <1>9, <2>1, <2>2, <3>1, <3>2
  <2>. DEFINE x == q * k
              y == d * k
  <2>4. x \in Nat /\ y \in Nat /\ x <= y /\ last = y + k /\ n = x + r + 1
    BY <1>5, <1>9, <2>1, <2>2, <2>3
  <2>. HIDE DEF x, y, n
  <2>. QED
    BY <1>5, <1>7, <1>8, <2>4
<1>. HIDE DEF n
<1>13. \A i : GridPoint(index, i) = ZonedTimeToEpoch(from + ((i - 1) \div k), ((i - 1) % k) * step, z)
  BY DEF GridPoint, step, k
<1>14. GridPoint(index, n) = ZonedTimeToEpoch(date, minute, z)
  BY <1>7, <1>9, <1>11, <1>13
<1>. DEFINE apart == Day - (k - 1) * step
<1>15. ASSUME NEW j \in 1..n, j # n
       PROVE  \E d \in Int, m \in Nat :
                 /\ GridPoint(index, j) = ZonedTimeToEpoch(d, m, z)
                 /\ from <= d
                 /\ (d * Day + m) + apart <= date * Day + minute
  <2>1. j - 1 \in Nat /\ n - 1 \in Nat /\ j - 1 < n - 1
    BY <1>10, <1>15
  <2>. DEFINE d == from + ((j - 1) \div k)
              m == ((j - 1) % k) * step
  <2>2. (d * Day + m) + apart <= date * Day + minute
    <3>1. (from + ((j - 1) \div k)) * Day + ((j - 1) % k) * step + (Day - (k - 1) * step)
             <= (from + ((n - 1) \div k)) * Day + ((n - 1) % k) * step
      BY <1>1, <2>1, WallsApart DEF k
    <3>. QED
      BY <1>7, <1>9, <1>11, <3>1
  <2>3. d \in Int /\ m \in Nat /\ from <= d
    <3>1. (j - 1) \div k \in Nat /\ (j - 1) % k \in Nat
      BY <1>5, <2>1
    <3>. DEFINE x == (j - 1) \div k
                y == (j - 1) % k
    <3>2. x \in Nat /\ y \in Nat
      BY <3>1
    <3>. HIDE DEF x, y
    <3>3. from + x \in Int /\ y * step \in Nat /\ from <= from + x
      BY <1>1, <3>2
    <3>. QED
      BY <3>3 DEF x, y
  <2>4. GridPoint(index, j) = ZonedTimeToEpoch(d, m, z)
    BY <1>13
  <2>. HIDE DEF d, m, apart
  <2>. QED
    BY <2>2, <2>3, <2>4
<1>16. n \in 1..last
  <2>1. last \in Nat
    BY CandidateSteps DEF last
  <2>. QED
    BY <1>10, <1>12, <2>1
<1>. HIDE DEF apart
<1>17. \E i \in 1..last :
          /\ GridPoint(index, i) = ZonedTimeToEpoch(date, minute, z)
          /\ \A j \in 1..i : j # i =>
                \E d \in Int, m \in Nat :
                   /\ GridPoint(index, j) = ZonedTimeToEpoch(d, m, z)
                   /\ from <= d
                   /\ (d * Day + m) + apart <= date * Day + minute
  BY <1>14, <1>15, <1>16
<1>. QED
  BY <1>17 DEF last, apart, k, step

\* Where clocks skip, a local time stands for the instant at which the clocks that are not yet
\* changed would show it, up to the one that the others show when they are.
LEMMA EpochWhenSkipped ==
    ASSUME NEW z, IsZone(z), z.before < z.after, NEW v \in Int, NEW d \in Int, NEW m \in Int,
           v = d * Day + m
    PROVE  ZonedTimeToEpoch(d, m, z) = IF v - z.after < z.at THEN v - z.before ELSE v - z.after
<1>. DEFINE t == ZonedTimeToEpoch(d, m, z)
<1>1. z.at \in Int /\ z.before \in Int /\ z.after \in Int
  BY DEF IsZone
<1>2. t \in Int
  BY EpochIsInt
<1>3. /\ \A u \in Int : u + ZoneOffset(u, z) = v => t + ZoneOffset(t, z) = v /\ t <= u
      /\ t + ZoneOffset(t, z) # v => z.at <= t /\ t + ZoneOffset(t, z) = v + z.after - z.before
  BY EpochOf
<1>. HIDE DEF t
<1>4. \A u \in Int : ZoneOffset(u, z) = IF u < z.at THEN z.before ELSE z.after
  BY DEF ZoneOffset
<1>. DEFINE early == v - z.before
            late == v - z.after
<1>5. early \in Int /\ late \in Int /\ late < early
  BY <1>1
<1>6. /\ early < z.at => t <= early
      /\ z.at <= late => t <= late /\ t + ZoneOffset(t, z) = v
  <2>1. early < z.at => early + ZoneOffset(early, z) = v
    BY <1>1, <1>4, <1>5
  <2>2. z.at <= late => late + ZoneOffset(late, z) = v
    BY <1>1, <1>4, <1>5
  <2>. HIDE DEF early, late
  <2>. QED
    BY <1>3, <1>5, <2>1, <2>2
<1>7. t + ZoneOffset(t, z) = v => (t = early /\ t < z.at) \/ (t = late /\ z.at <= t)
  BY <1>1, <1>2, <1>4
<1>8. t + ZoneOffset(t, z) # v => t = early /\ z.at <= t
  <2>. SUFFICES ASSUME t + ZoneOffset(t, z) # v PROVE t = early /\ z.at <= t
    OBVIOUS
  <2>1. z.at <= t /\ t + ZoneOffset(t, z) = v + z.after - z.before
    BY <1>3
  <2>2. ZoneOffset(t, z) = z.after
    BY <1>1, <1>2, <1>4, <2>1
  <2>. QED
    BY <1>1, <1>2, <2>1, <2>2
<1>. HIDE DEF early, late
<1>9. t = IF late < z.at THEN early ELSE late
  <2>1. CASE late < z.at
    BY <1>1, <1>2, <1>5, <1>7, <1>8, <2>1
  <2>2. CASE z.at <= late
    BY <1>1, <1>2, <1>5, <1>6, <1>7, <2>2
  <2>. QED
    BY <1>1, <1>5, <2>1, <2>2
<1>. QED
  BY <1>9 DEF early, late, t

\* The clocks skip no more than lies between points of a grid, or they skip whole steps of a
\* grid that a day is made of, on one day.
SkipsPoints(z, step) ==
    \/ z.after - z.before <= Day - (PointsOfADay(step) - 1) * step
    \/ /\ Day % step = 0 /\ (z.after - z.before) % step = 0
       /\ (z.at + z.before) \div Day = (z.at + z.after - 1) \div Day

\* An instant on the grid, of one of the days of an index, is one of its points, and no point
\* before it stands for a later instant.
LEMMA GridIsPoints ==
    ASSUME NEW index, index.in.svc \in Services, IsZone(index.in.zone),
           index.range.from \in Int, index.range.to \in Int, index.range.from <= index.range.to,
           NEW t \in Int, IsOnGrid(index.in.svc, t, index.in.zone),
           LocalDateOf(t, index.in.zone) \in index.range.from..index.range.to,
           SkipsPoints(index.in.zone, Offer[index.in.svc].step)
    PROVE  \E n \in 1..LastPoint(index) :
              GridPoint(index, n) = t /\ \A j \in 1..n : GridPoint(index, j) <= t
<1>. DEFINE step == Offer[index.in.svc].step
            z == index.in.zone
            w == WallClock(t, z)
            k == PointsOfADay(step)
            from == index.range.from
            last == LastPoint(index)
            skip == z.after - z.before
            apart == Day - (k - 1) * step
            Has(date, minute) ==
                \E n \in 1..last :
                  /\ GridPoint(index, n) = ZonedTimeToEpoch(date, minute, z)
                  /\ \A j \in 1..n : j # n =>
                        \E d \in Int, m \in Nat :
                           /\ GridPoint(index, j) = ZonedTimeToEpoch(d, m, z)
                           /\ from <= d
                           /\ (d * Day + m) + apart <= date * Day + minute
            date == w.date
            minute == w.minute
            W == date * Day + minute
<1>1. step \in Nat \ {0} /\ Day \in Nat \ {0}
  BY EngineConstants, DayIsReal
<1>2. minute % step = 0 /\ ZonedTimeToEpoch(date, minute, z) = t
  BY DEF IsOnGrid
<1>3. date \in Int /\ minute \in 0..Day - 1 /\ W = t + ZoneOffset(t, z)
  <2>. DEFINE x == t + ZoneOffset(t, z)
  <2>1. x \in Int
    BY DEF IsZone, ZoneOffset
  <2>2. w = [date |-> x \div Day, minute |-> x % Day]
    BY DEF WallClock
  <2>. HIDE DEF x, w
  <2>3. 0 \in Int /\ 0 \in 0..Day - 1
    BY <1>1
  <2>4. x \div Day \in Int /\ x % Day \in 0..Day - 1 /\ x = (x \div Day) * Day + (x % Day)
    BY <2>1, <2>3, DayAndMinute
  <2>. QED
    BY <2>2, <2>4 DEF x
<1>4. date \in from..index.range.to
  BY DEF LocalDateOf
<1>5. apart \in Nat \ {0}
  <2>1. (k - 1) * step \in Nat /\ (k - 1) * step < Day
    BY <1>1, PointsApart
  <2>. DEFINE l == (k - 1) * step
  <2>2. l \in Nat /\ l < Day
    BY <2>1
  <2>. HIDE DEF l
  <2>3. Day - l \in Nat \ {0}
    BY <1>1, <2>2
  <2>. QED
    BY <2>3 DEF l
<1>6. z.at \in Int /\ z.before \in Int /\ z.after \in Int /\ skip \in Int
  BY DEF IsZone
<1>7. \A a \in from..index.range.to, i \in 0..Day - 1 : i % step = 0 => Has(a, i)
  BY GridHas
<1>8. \/ skip <= apart
      \/ /\ Day % step = 0 /\ skip % step = 0
         /\ (z.at + z.before) \div Day = (z.at + z.after - 1) \div Day
  BY DEF SkipsPoints
<1>9. W \in Int /\ from * Day \in Int
  BY <1>1, <1>3
<1>. HIDE DEF w, k, step, last, apart, date, minute
<1>10. Has(date, minute)
  BY <1>2, <1>3, <1>4, <1>7
\* When each time before one stands for an earlier instant, the grid is as it must be.
<1>. DEFINE Fits(a, i) ==
                /\ ZonedTimeToEpoch(a, i, z) = t
                /\ \A d \in Int, m \in Nat :
                      from <= d /\ (d * Day + m) + apart <= a * Day + i => ZonedTimeToEpoch(d, m, z) <= t
            Goal == \E n \in 1..last : GridPoint(index, n) = t /\ \A j \in 1..n : GridPoint(index, j) <= t
<1>. SUFFICES Goal
  BY DEF last
<1>11. \A a, i : Has(a, i) /\ Fits(a, i) => Goal
  <2>. SUFFICES ASSUME NEW a, NEW i, Has(a, i), Fits(a, i) PROVE Goal
    OBVIOUS
  <2>1. PICK n \in 1..last :
                  /\ GridPoint(index, n) = ZonedTimeToEpoch(a, i, z)
                  /\ \A j \in 1..n : j # n =>
                        \E d \in Int, m \in Nat :
                           /\ GridPoint(index, j) = ZonedTimeToEpoch(d, m, z)
                           /\ from <= d
                           /\ (d * Day + m) + apart <= a * Day + i
    OBVIOUS
  <2>2. GridPoint(index, n) = t
    BY <2>1
  <2>3. ASSUME NEW j \in 1..n, j # n PROVE GridPoint(index, j) <= t
    <3>1. PICK d \in Int, m \in Nat :
                           /\ GridPoint(index, j) = ZonedTimeToEpoch(d, m, z)
                           /\ from <= d
                           /\ (d * Day + m) + apart <= a * Day + i
      BY <2>1, <2>3
    <3>2. ZonedTimeToEpoch(d, m, z) <= t
      BY <3>1
    <3>. QED
      BY <3>1, <3>2
  <2>4. t <= t
    OBVIOUS
  <2>. QED
    BY <2>2, <2>3, <2>4
<1>. HIDE DEF Has
<1>12. CASE skip <= apart
  <2>1. Fits(date, minute)
    <3>. SUFFICES ASSUME NEW d \in Int, NEW m \in Nat, (d * Day + m) + apart <= date * Day + minute
                  PROVE  ZonedTimeToEpoch(d, m, z) <= t
      BY <1>2
    <3>. DEFINE e == ZonedTimeToEpoch(date, minute, z)
    <3>1. e = t /\ e + ZoneOffset(e, z) = date * Day + minute
      BY <1>2, <1>3
    <3>2. ZonedTimeToEpoch(d, m, z) <= ZonedTimeToEpoch(date, minute, z)
      <4>1. minute \in Int /\ m \in Int
        BY <1>1, <1>3
      <4>. QED
        BY <1>3, <1>5, <1>12, <3>1, <4>1, EpochKeepsOrder
    <3>. QED
      BY <3>1, <3>2
  <2>. HIDE DEF Fits, Goal
  <2>. QED
    BY <1>10, <1>11, <2>1
<1>13. CASE /\ ~(skip <= apart)
            /\ Day % step = 0 /\ skip % step = 0
            /\ (z.at + z.before) \div Day = (z.at + z.after - 1) \div Day
  <2>1. skip \in Nat \ {0} /\ z.before < z.after
    BY <1>5, <1>6, <1>13
  <2>2. \A d, m, v \in Int : v = d * Day + m =>
           ZonedTimeToEpoch(d, m, z) = IF v - z.after < z.at THEN v - z.before ELSE v - z.after
    BY <2>1, EpochWhenSkipped
  <2>3. t = IF W - z.after < z.at THEN W - z.before ELSE W - z.after
    <3>1. minute \in Int
      BY <1>1, <1>3
    <3>. QED
      BY <1>2, <1>3, <1>9, <2>2, <3>1
  <2>4. \A d \in Int, m \in Nat : d * Day + m \in Int
    BY <1>1
  <2>. DEFINE V == W - skip
              G == (z.at + z.before) \div Day
  <2>5. V \in Int
    BY <1>6, <1>9
  <2>6. CASE W - z.after < z.at \/ z.at <= V - z.after
    <3>1. Fits(date, minute)
      <4>. SUFFICES ASSUME NEW d \in Int, NEW m \in Nat, (d * Day + m) + apart <= date * Day + minute
                    PROVE  ZonedTimeToEpoch(d, m, z) <= t
        BY <1>2
      <4>. DEFINE v == d * Day + m
      <4>1. v \in Int /\ v + apart <= W
        BY <2>4
      <4>2. ZonedTimeToEpoch(d, m, z) = IF v - z.after < z.at THEN v - z.before ELSE v - z.after
        <5>1. v = d * Day + m /\ m \in Int
          OBVIOUS
        <5>. HIDE DEF v, W, V, Fits, Goal
        <5>. QED
          BY <2>2, <4>1, <5>1
      <4>3. z.at \in Int /\ z.before \in Int /\ z.after \in Int /\ z.before <= z.after
        BY <1>6, <2>1
      <4>4. V = W - skip /\ W \in Int /\ skip = z.after - z.before
        BY <1>6, <1>9, <2>1
      <4>. HIDE DEF v, W, V, Fits, Goal
      <4>5. CASE W - z.after < z.at
        <5>1. t = W - z.before /\ v <= W - apart
          BY <1>5, <2>3, <4>1, <4>3, <4>4, <4>5
        <5>. QED
          BY <1>5, <4>1, <4>2, <4>3, <4>4, <4>5, <5>1
      <4>6. CASE z.at <= V - z.after
        <5>1. t = W - z.after
          BY <2>3, <4>3, <4>4, <4>6
        <5>2. z.at <= v - z.after => ZonedTimeToEpoch(d, m, z) = v - z.after
          BY <4>1, <4>2, <4>3
        <5>3. v - z.after < z.at => ZonedTimeToEpoch(d, m, z) = v - z.before
          BY <4>1, <4>2, <4>3
        <5>. QED
          BY <1>5, <4>1, <4>3, <4>4, <4>6, <5>1, <5>2, <5>3
      <4>. QED
        BY <2>6, <4>5, <4>6
    <3>. HIDE DEF Fits, Goal
    <3>. QED
      BY <1>10, <1>11, <3>1
  <2>7. CASE z.at <= W - z.after /\ V - z.after < z.at
    <3>. DEFINE a == V \div Day
                i == V % Day
    <3>1. a \in Int /\ i \in 0..Day - 1 /\ V = a * Day + i
      <4>1. 0 \in Int /\ 0 \in 0..Day - 1
        BY <1>1
      <4>. HIDE DEF V
      <4>. QED
        BY <2>5, <4>1, DayAndMinute
    <3>2. z.at + z.before <= V /\ V <= z.at + z.after - 1
      <4>. HIDE DEF W
      <4>. QED
        BY <1>6, <1>9, <2>7
    \* The times skipped are of one day.
    <3>3. a = G /\ z.at + z.after <= (a + 1) * Day
      <4>. DEFINE lo == z.at + z.before
                  hi == z.at + z.after - 1
      <4>1. lo \in Int /\ hi \in Int /\ lo <= V /\ V <= hi /\ lo \div Day = G /\ hi \div Day = G
        BY <1>6, <1>13, <3>2
      <4>. HIDE DEF lo, hi, V, a, i, G
      <4>2. 0 \in Int /\ 0 \in 0..Day - 1
        BY <1>1
      <4>3. /\ G \in Int /\ lo % Day \in 0..Day - 1 /\ lo = G * Day + (lo % Day)
            /\ hi % Day \in 0..Day - 1 /\ hi = G * Day + (hi % Day)
        BY <4>1, <4>2, DayAndMinute
      <4>. DEFINE x == lo % Day
                  y == hi % Day
      <4>4. x \in 0..Day - 1 /\ lo = G * Day + x /\ y \in 0..Day - 1 /\ hi = G * Day + y
        BY <4>3
      <4>. HIDE DEF x, y
      <4>5. V = G * Day + (V - G * Day) /\ V - G * Day \in 0..Day - 1
        <5>. DEFINE g == G * Day
        <5>1. g \in Int /\ lo = g + x /\ hi = g + y
          BY <1>1, <4>3, <4>4
        <5>. HIDE DEF g
        <5>2. V = g + (V - g) /\ V - g \in 0..Day - 1
          BY <1>1, <2>5, <4>1, <4>4, <5>1
        <5>. QED
          BY <5>2 DEF g
      <4>6. V \div Day = G
        <5>. DEFINE n == V - G * Day
        <5>1. n \in 0..Day - 1 /\ V = G * Day + n
          BY <4>5
        <5>. HIDE DEF n
        <5>. QED
          BY <2>5, <4>3, <5>1, DayAndMinute
      <4>7. (G + 1) * Day = G * Day + Day
        BY <1>1, <4>3
      <4>8. hi + 1 <= G * Day + Day
        <5>. DEFINE g == G * Day
        <5>1. g \in Int /\ hi = g + y
          BY <1>1, <4>3, <4>4
        <5>. HIDE DEF g
        <5>. QED
          BY <1>1, <4>4, <5>1 DEF g
      <4>. QED
        BY <1>6, <4>6, <4>7, <4>8 DEF hi, a
    <3>4. i % step = 0
      <4>. DEFINE p == Day \div step
                  q == minute \div step
                  s == skip \div step
      <4>1. \A x \in Int : x \div step \in Int /\ x = (x \div step) * step + (x % step)
        <5>1. \A x \in Int : x \div step \in Int
          BY <1>1
        <5>2. \A x \in Int : x = (x \div step) * step + (x % step)
          BY <1>1
        <5>. QED
          BY <5>1, <5>2
      <4>2. Day \in Int /\ minute \in Int /\ skip \in Int
        BY <1>1, <1>3, <1>6
      <4>. HIDE DEF skip
      <4>3. /\ p \in Int /\ Day = p * step + 0
            /\ q \in Int /\ minute = q * step + 0
            /\ s \in Int /\ skip = s * step + 0
        BY <1>2, <1>13, <4>1, <4>2
      <4>. HIDE DEF p, q, s
      <4>4. Day = p * step /\ minute = q * step /\ skip = s * step
        <5>1. p * step \in Int /\ q * step \in Int /\ s * step \in Int
          BY <1>1, <4>3
        <5>. QED
          BY <4>3, <5>1
      <4>. DEFINE y == ((date * p + q) - s) - a * p
      <4>5. y \in Int
        <5>. HIDE DEF a
        <5>1. date * p \in Int /\ a * p \in Int
          BY <1>3, <3>1, <4>3
        <5>. QED
          BY <4>3, <5>1
      <4>6. i = y * step
        <5>1. i = ((date * Day + minute) - skip) - a * Day
          <6>. DEFINE g == a * Day
          <6>1. g \in Int /\ V = g + i /\ i \in Int
            <7>. HIDE DEF a, i, V
            <7>. QED
              BY <1>1, <3>1
          <6>. HIDE DEF g, i, a
          <6>. QED
            BY <1>9, <2>5, <4>2, <6>1 DEF g
        <5>. HIDE DEF a, i
        <5>2. date \in Int /\ a \in Int /\ step \in Int
          BY <1>1, <1>3, <3>1
        <5>3. \A x, b, c, e, f, g \in Int :
                 ((x * (b * g) + c * g) - e * g) - f * (b * g) = (((x * b + c) - e) - f * b) * g
          OBVIOUS
        <5>4. ((date * (p * step) + q * step) - s * step) - a * (p * step) = y * step
          BY <4>3, <5>2, <5>3
        <5>. QED
          BY <4>4, <5>1, <5>4
      <4>. HIDE DEF y, i
      <4>. QED
        <5>1. \A x \in Int : (x * step) % step = 0
          BY <1>1
        <5>. QED
          BY <4>5, <4>6, <5>1
    <3>5. CASE from <= a
      <4>1. a <= date
        <5>. HIDE DEF a, i, V
        <5>1. V < W /\ W = date * Day + minute /\ minute \in 0..Day - 1
          BY <1>3, <1>6, <1>9, <2>1 DEF V
        <5>. HIDE DEF W
        <5>2. a * Day + i < date * Day + Day
          <6>. DEFINE g == a * Day
                      h == date * Day
          <6>1. g \in Int /\ h \in Int /\ V = g + i /\ W = h + minute
            BY <1>1, <1>3, <3>1, <5>1
          <6>. HIDE DEF g, h
          <6>2. g + i < h + Day
            BY <1>1, <1>3, <2>5, <3>1, <5>1, <6>1
          <6>. QED
            BY <6>2 DEF g, h
        <5>3. \A x, y, l \in Int, h \in Nat \ {0} : l >= 0 /\ x * h + l < y * h + h => x <= y
          <6>. SUFFICES ASSUME NEW x \in Int, NEW y \in Int, NEW l \in Int, NEW h \in Nat \ {0},
                               l >= 0, x * h + l < y * h + h, y + 1 <= x
                        PROVE  FALSE
            OBVIOUS
          <6>1. (y + 1) * h <= x * h
            <7>1. \A b, c \in Int, g \in Nat : b <= c => b * g <= c * g
              OBVIOUS
            <7>. QED
              BY <7>1
          <6>2. (y + 1) * h = y * h + h
            OBVIOUS
          <6>. DEFINE b == x * h
                      c == y * h
          <6>3. b \in Int /\ c \in Int /\ b + l < c + h /\ c + h <= b
            BY <6>1, <6>2
          <6>. HIDE DEF b, c
          <6>. QED
            BY <6>3
        <5>4. i \in Int /\ i >= 0
          BY <1>1, <3>1
        <5>. QED
          BY <1>1, <1>3, <3>1, <5>2, <5>3, <5>4
      <4>2. a \in from..index.range.to
        <5>. HIDE DEF a
        <5>. QED
          BY <1>4, <3>1, <3>5, <4>1
      <4>3. Has(a, i)
        <5>. HIDE DEF a, i
        <5>. QED
          BY <1>7, <3>1, <3>4, <4>2
      <4>4. Fits(a, i)
        <5>1. ZonedTimeToEpoch(a, i, z) = t
          <6>. HIDE DEF a, i
          <6>1. i \in Int
            BY <1>1, <3>1
          <6>2. ZonedTimeToEpoch(a, i, z) = V - z.before
            <7>. HIDE DEF V
            <7>. QED
              BY <2>2, <2>5, <2>7, <3>1, <6>1
          <6>. HIDE DEF W
          <6>. QED
            BY <1>6, <1>9, <2>3, <2>7, <6>2
        <5>. SUFFICES ASSUME NEW d \in Int, NEW m \in Nat, (d * Day + m) + apart <= a * Day + i
                      PROVE  ZonedTimeToEpoch(d, m, z) <= t
          BY <5>1
        <5>. HIDE DEF a, i
        <5>. DEFINE v == d * Day + m
        <5>2. v \in Int /\ v + apart <= V
          BY <2>4, <3>1
        <5>3. ZonedTimeToEpoch(d, m, z) = IF v - z.after < z.at THEN v - z.before ELSE v - z.after
          BY <2>2, <2>4
        <5>. HIDE DEF v, W
        <5>. QED
          BY <1>5, <1>6, <1>9, <2>3, <2>7, <5>2, <5>3
      <4>. HIDE DEF Fits, Goal, a, i
      <4>. QED
        BY <1>11, <4>3, <4>4
    <3>6. CASE a + 1 <= from
      <4>1. Fits(date, minute)
        <5>. SUFFICES ASSUME NEW d \in Int, NEW m \in Nat, from <= d,
                             (d * Day + m) + apart <= date * Day + minute
                      PROVE  ZonedTimeToEpoch(d, m, z) <= t
          BY <1>2
        <5>. HIDE DEF a
        <5>. DEFINE v == d * Day + m
        <5>1. v \in Int /\ v + apart <= W
          BY <2>4
        <5>2. ZonedTimeToEpoch(d, m, z) = IF v - z.after < z.at THEN v - z.before ELSE v - z.after
          BY <2>2, <2>4
        <5>3. (a + 1) * Day <= v
          <6>1. a + 1 \in Int /\ a + 1 <= d
            BY <3>1, <3>6
          <6>2. \A b, c \in Int, g \in Nat : b <= c => b * g <= c * g
            OBVIOUS
          <6>3. (a + 1) * Day <= d * Day
            BY <1>1, <6>1, <6>2
          <6>. DEFINE b == (a + 1) * Day
                      c == d * Day
          <6>4. b \in Int /\ c \in Int /\ b <= c /\ v = c + m
            BY <1>1, <6>1, <6>3
          <6>. HIDE DEF b, c, v
          <6>5. b <= v
            BY <6>4
          <6>. QED
            BY <6>5 DEF b
        <5>4. z.at + z.after <= v
          <6>. DEFINE b == (a + 1) * Day
          <6>1. b \in Int /\ b <= v /\ z.at + z.after <= b
            BY <1>1, <3>1, <3>3, <5>3
          <6>. HIDE DEF b, v
          <6>. QED
            BY <1>6, <5>1, <6>1
        <5>. HIDE DEF v, W
        <5>. QED
          BY <1>5, <1>6, <1>9, <2>3, <2>7, <5>1, <5>2, <5>4
      <4>. HIDE DEF Fits, Goal
      <4>. QED
        BY <1>10, <1>11, <4>1
    <3>. HIDE DEF a, Goal
    <3>7. from \in Int
      OBVIOUS
    <3>. QED
      BY <3>1, <3>5, <3>6, <3>7
  <2>. HIDE DEF W, V, Goal
  <2>. QED
    <3>1. W - z.after \in Int /\ V - z.after \in Int
      BY <1>6, <1>9, <2>5
    <3>. QED
      BY <1>6, <2>6, <2>7, <3>1
<1>. HIDE DEF Goal
<1>. QED
  BY <1>8, <1>12, <1>13

\* Such an instant that is not too early is a candidate.
LEMMA CandidatesComplete ==
    ASSUME NEW index, index.in.svc \in Services, IsZone(index.in.zone),
           index.range.from \in Int, index.range.to \in Int, index.range.from <= index.range.to,
           NEW t \in Int, IsOnGrid(index.in.svc, t, index.in.zone),
           LocalDateOf(t, index.in.zone) \in index.range.from..index.range.to,
           SkipsPoints(index.in.zone, Offer[index.in.svc].step),
           ~(t < index.earliest)
    PROVE  \E k \in DOMAIN Candidates(index) : Candidates(index)[k] = t
<1>. DEFINE last == LastPoint(index)
            point(n) == GridPoint(index, n)
<1>1. last \in Nat /\ \A n \in 1..last : point(n) \in Int
  BY CandidateSteps
<1>2. PICK f : /\ \A i \in 0..last : f[i] \in Seq(Int) /\ Ascends(f[i])
               /\ f[0] = <<>>
               /\ \A i \in 1..last : f[i] = NextCandidate(index, f[i - 1], i)
               /\ Candidates(index) = f[last]
  BY CandidateSteps, Zenon
<1>3. PICK n \in 1..last : point(n) = t /\ \A j \in 1..n : point(j) <= t
  BY GridIsPoints
<1>. HIDE DEF last
<1>4. \A done, i : NextCandidate(index, done, i) =
          IF point(i) < index.earliest \/ (done # <<>> /\ point(i) <= done[Len(done)])
          THEN done ELSE Append(done, point(i))
  BY DEF NextCandidate
<1>. HIDE DEF point
<1>5. \A i \in 1..last : i \in 0..last /\ i - 1 \in 0..last
  BY <1>1
<1>. DEFINE From(s, m) == \A k \in DOMAIN s : \E j \in 1..m : s[k] = point(j)
            P == {i \in 0..last : From(f[i], i)}
<1>6. \A i \in 0..last : i \in P
  <2>1. 0 \in P
    <3>1. 0 \in 0..last /\ DOMAIN <<>> = {}
      BY <1>1
    <3>. QED
      BY <1>2, <3>1
  <2>2. ASSUME NEW i \in 1..last, i - 1 \in P
        PROVE  i \in P
    <3>. DEFINE done == f[i - 1]
    <3>1. done \in Seq(Int) /\ From(done, i - 1)
      BY <1>2, <1>5, <2>2
    <3>2. f[i] = done \/ f[i] = Append(done, point(i))
      BY <1>2, <1>4
    <3>. HIDE DEF done
    <3>3. \A j \in 1..i - 1 : j \in 1..i
      BY <1>1
    <3>4. i \in 1..i
      BY <1>1
    <3>5. CASE f[i] = done
      BY <1>5, <3>1, <3>3, <3>5
    <3>6. CASE f[i] = Append(done, point(i))
      <4>. DEFINE more == Append(done, point(i))
      <4>1. \A k \in DOMAIN more : (k \in DOMAIN done /\ more[k] = done[k]) \/ more[k] = point(i)
        BY <1>1, <3>1
      <4>2. f[i] = more /\ i \in 0..last
        BY <1>5, <3>6
      <4>. HIDE DEF more
      <4>3. ASSUME NEW k \in DOMAIN more PROVE \E j \in 1..i : more[k] = point(j)
        <5>1. CASE more[k] = point(i)
          BY <3>4, <5>1
        <5>2. CASE k \in DOMAIN done /\ more[k] = done[k]
          BY <3>1, <3>3, <5>2
        <5>. QED
          BY <4>1, <5>1, <5>2
      <4>. QED
        BY <4>2, <4>3
    <3>. QED
      BY <3>2, <3>5, <3>6
  <2>. HIDE DEF P
  <2>. QED
    BY <1>1, <2>1, <2>2, BySteps
<1>7. \E k \in DOMAIN f[n] : f[n][k] = t
  <2>. DEFINE done == f[n - 1]
  <2>1. done \in Seq(Int) /\ From(done, n - 1)
    BY <1>2, <1>5, <1>6
  <2>2. f[n] = IF t < index.earliest \/ (done # <<>> /\ t <= done[Len(done)])
               THEN done ELSE Append(done, t)
    BY <1>2, <1>3, <1>4
  <2>. HIDE DEF done
  <2>3. CASE done # <<>> /\ t <= done[Len(done)]
    <3>1. Len(done) \in DOMAIN done /\ done[Len(done)] \in Int
      BY <2>1, <2>3
    <3>2. PICK j \in 1..n - 1 : done[Len(done)] = point(j)
      BY <2>1, <3>1
    <3>3. j \in 1..n
      BY <1>1
    <3>4. done[Len(done)] <= t
      BY <1>3, <3>2, <3>3
    <3>5. done[Len(done)] = t
      BY <2>3, <3>1, <3>4
    <3>. QED
      BY <2>2, <2>3, <3>1, <3>5
  <2>4. CASE ~(done # <<>> /\ t <= done[Len(done)])
    <3>1. f[n] = Append(done, t)
      BY <2>2, <2>4
    <3>2. Len(done) + 1 \in DOMAIN Append(done, t) /\ Append(done, t)[Len(done) + 1] = t
      BY <2>1
    <3>. QED
      BY <3>1, <3>2
  <2>. QED
    BY <2>3, <2>4
<1>. DEFINE Q == {i \in 0..last : i < n \/ \E k \in DOMAIN f[i] : f[i][k] = t}
<1>8. \A i \in 0..last : i \in Q
  <2>1. 0 \in Q
    BY <1>1
  <2>2. ASSUME NEW i \in 1..last, i - 1 \in Q
        PROVE  i \in Q
    <3>1. i < n \/ i = n \/ (i > n /\ ~(i - 1 < n))
      BY <1>1
    <3>2. CASE i < n
      BY <1>5, <3>2
    <3>3. CASE i = n
      BY <1>5, <1>7, <3>3
    <3>4. CASE ~(i - 1 < n)
      <4>. DEFINE done == f[i - 1]
      <4>1. done \in Seq(Int)
        BY <1>2, <1>5
      <4>2. PICK k \in DOMAIN done : done[k] = t
        BY <2>2, <3>4
      <4>3. f[i] = done \/ f[i] = Append(done, point(i))
        BY <1>2, <1>4
      <4>. HIDE DEF done
      <4>4. k \in DOMAIN Append(done, point(i)) /\ Append(done, point(i))[k] = t
        BY <1>1, <4>1, <4>2
      <4>5. \E m \in DOMAIN f[i] : f[i][m] = t
        BY <4>2, <4>3, <4>4
      <4>. QED
        BY <1>5, <4>5
    <3>. QED
      BY <3>1, <3>2, <3>3, <3>4
  <2>. HIDE DEF Q
  <2>. QED
    BY <1>1, <2>1, <2>2, BySteps
<1>9. last \in 0..last /\ ~(last < n)
  BY <1>1
<1>. QED
  BY <1>2, <1>8, <1>9

-----------------------------------------------------------------------------
(* The free times of a list                                                *)

\* The free times are the candidates that the engine accepts, each later than those before it.
LEMMA FoundAreAccepted ==
    ASSUME NEW index, NEW people, Candidates(index) \in Seq(Int), Ascends(Candidates(index))
    PROVE  LET found == FindAvailableSlots(index, people)
           IN  /\ found \in Seq(Int) /\ Ascends(found)
               /\ \A k \in DOMAIN found : AssessSlot(index, found[k], people).ok
               /\ \A j \in DOMAIN Candidates(index) :
                     AssessSlot(index, Candidates(index)[j], people).ok =>
                     \E k \in DOMAIN found : found[k] = Candidates(index)[j]
<1>. DEFINE all == Candidates(index)
            last == Len(all)
            V == Seq(Int)
            isFree(start) ==
                /\ ListCovers(index.appointmentWindows,
                              Interval(start, start + Offer[index.in.svc].duration))
                /\ AssessSlot(index, start, people).ok
            next(done, n) == IF isFree(all[n]) THEN Append(done, all[n]) ELSE done
            Solves(f) == f = [n \in 0..last |-> IF n = 0 THEN <<>>
                                 ELSE IF isFree(all[n]) THEN Append(f[n - 1], all[n]) ELSE f[n - 1]]
            G == [p \in V \X (1..last) |-> next(p[1], p[2])]
            first == CHOOSE f : Solves(f)
<1>1. FindAvailableSlots(index, people) = first[last]
  BY Zenon DEF FindAvailableSlots
<1>2. last \in Nat /\ \A n \in 1..last : all[n] \in Int
  OBVIOUS
<1>3. \A i, j \in 1..last : i < j => all[i] < all[j]
  BY DEF Ascends
<1>. HIDE DEF all, last
<1>4. \A t : isFree(t) <=> AssessSlot(index, t, people).ok
  <2>. SUFFICES ASSUME NEW t, AssessSlot(index, t, people).ok
                PROVE  ListCovers(index.appointmentWindows,
                                  Interval(t, t + Offer[index.in.svc].duration))
    OBVIOUS
  <2>1. PICK date : AssessOn(index, t, people, date).ok
    BY DEF AssessSlot
  <2>2. MayStand(index, t, people, date)
    BY <2>1, SlotIs
  <2>. QED
    BY <2>2 DEF MayStand
<1>. HIDE DEF isFree
<1>5. <<>> \in V
  OBVIOUS
<1>6. \A v \in V, i \in 1..last : next(v, i) \in V
  <2>1. \A v \in V, t \in Int : Append(v, t) \in V
    OBVIOUS
  <2>. HIDE DEF V
  <2>. QED
    BY <1>2, <2>1
<1>. HIDE DEF V
<1>7. \A v \in V, i \in 1..last : G[<<v, i>>] = next(v, i)
  OBVIOUS
<1>. HIDE DEF G
<1>8. PICK f \in [0..last -> V] : f[0] = <<>> /\ \A i \in 1..last : f[i] = G[<<f[i - 1], i>>]
  <2>1. StaysIn(V, last, G)
    BY <1>6, <1>7 DEF StaysIn
  <2>. QED
    BY <1>2, <1>5, <2>1, Sequel, SMTT(30)
<1>9. \A i \in 0..last : i = 0 \/ (i \in 1..last /\ i - 1 \in 0..last)
  BY <1>2
<1>10. \A i \in 0..last : f[i] = IF i = 0 THEN <<>> ELSE next(f[i - 1], i)
  BY <1>7, <1>8, <1>9
<1>11. Solves(f)
  BY <1>10
<1>12. Solves(first)
  <2>. HIDE DEF Solves
  <2>. QED
    BY <1>11
<1>. HIDE DEF first
<1>13. first = [i \in 0..last |-> IF i = 0 THEN <<>>
                   ELSE IF isFree(all[i]) THEN Append(first[i - 1], all[i]) ELSE first[i - 1]]
  BY <1>12
<1>14. \A i \in 0..last : first[i] = IF i = 0 THEN <<>>
                   ELSE IF isFree(all[i]) THEN Append(first[i - 1], all[i]) ELSE first[i - 1]
  BY <1>13, Zenon
<1>. DEFINE Right(s, n) == /\ s \in Seq(Int) /\ Ascends(s)
                           /\ \A k \in DOMAIN s : isFree(s[k]) /\ \E j \in 1..n : s[k] = all[j]
                           /\ \A j \in 1..n : isFree(all[j]) => \E k \in DOMAIN s : s[k] = all[j]
            P == {i \in 0..last : Right(first[i], i)}
<1>15. \A i \in 1..last : i \in 0..last /\ i # 0
  BY <1>2
<1>16. 0 \in P
  <2>1. 0 \in 0..last
    BY <1>2
  <2>2. first[0] = <<>>
    BY <1>14, <2>1
  <2>3. <<>> \in Seq(Int) /\ DOMAIN <<>> = {}
    OBVIOUS
  <2>4. Right(<<>>, 0)
    BY <2>3 DEF Ascends
  <2>. QED
    BY <2>1, <2>2, <2>4
<1>17. ASSUME NEW i \in 1..last, i - 1 \in P
       PROVE  i \in P
  <2>. DEFINE done == first[i - 1]
  <2>1. Right(done, i - 1) /\ i - 1 \in 0..last
    BY <1>17
  <2>2. first[i] = IF isFree(all[i]) THEN Append(done, all[i]) ELSE done
    BY <1>14, <1>15
  <2>. HIDE DEF done
  <2>3. \A j \in 1..i - 1 : j \in 1..i /\ j \in 1..last /\ all[j] < all[i]
    BY <1>2, <1>3
  <2>4. CASE ~isFree(all[i])
    <3>1. Right(done, i)
      <4>1. \A j \in 1..i : j = i \/ j \in 1..i - 1
        BY <1>2
      <4>. QED
        BY <2>1, <2>3, <2>4, <4>1
    <3>. QED
      BY <1>15, <2>2, <2>4, <3>1
  <2>5. CASE isFree(all[i])
    <3>. DEFINE more == Append(done, all[i])
                n == Len(done)
    <3>1. n \in Nat /\ DOMAIN done = 1..n /\ (done # <<>> <=> n # 0)
      BY <2>1
    <3>2. /\ DOMAIN more = 1..n + 1
          /\ more[n + 1] = all[i] /\ \A k \in 1..n : more[k] = done[k]
      BY <1>2, <2>1
    <3>3. done # <<>> => done[n] < all[i]
      <4>. SUFFICES ASSUME done # <<>> PROVE done[n] < all[i]
        OBVIOUS
      <4>1. n \in DOMAIN done
        BY <3>1
      <4>2. PICK j \in 1..i - 1 : done[n] = all[j]
        BY <2>1, <4>1
      <4>. QED
        BY <2>3, <4>2
    <3>4. more \in Seq(Int) /\ Ascends(more)
      BY <1>2, <2>1, <3>3, LaterAdded
    <3>. HIDE DEF more, n
    <3>5. \A k \in DOMAIN more : isFree(more[k]) /\ \E j \in 1..i : more[k] = all[j]
      <4>. SUFFICES ASSUME NEW k \in DOMAIN more
                    PROVE  isFree(more[k]) /\ \E j \in 1..i : more[k] = all[j]
        OBVIOUS
      <4>1. k \in 1..n \/ k = n + 1
        BY <3>1, <3>2
      <4>2. CASE k \in 1..n
        BY <2>1, <2>3, <3>1, <3>2, <4>2
      <4>3. CASE k = n + 1
        <5>1. i \in 1..i
          BY <1>2
        <5>. QED
          BY <2>5, <3>2, <4>3, <5>1
      <4>. QED
        BY <4>1, <4>2, <4>3
    <3>7. \A j \in 1..i : isFree(all[j]) => \E k \in DOMAIN more : more[k] = all[j]
      <4>. SUFFICES ASSUME NEW j \in 1..i, isFree(all[j])
                    PROVE  \E k \in DOMAIN more : more[k] = all[j]
        OBVIOUS
      <4>1. j = i \/ j \in 1..i - 1
        BY <1>2
      <4>2. CASE j = i
        <5>1. n + 1 \in DOMAIN more
          BY <3>1, <3>2
        <5>. QED
          BY <3>2, <4>2, <5>1
      <4>3. CASE j \in 1..i - 1
        <5>1. PICK k \in DOMAIN done : done[k] = all[j]
          BY <2>1, <4>3
        <5>2. k \in DOMAIN more /\ more[k] = all[j]
          BY <3>1, <3>2, <5>1
        <5>. QED
          BY <5>2
      <4>. QED
        BY <4>1, <4>2, <4>3
    <3>6. Right(more, i)
      BY <3>4, <3>5, <3>7
    <3>. QED
      BY <1>15, <2>2, <2>5, <3>6 DEF more
  <2>. QED
    BY <2>4, <2>5
<1>18. \A i \in 0..last : i \in P
  <2>. HIDE DEF P
  <2>. QED
    BY <1>2, <1>16, <1>17, BySteps
<1>19. Right(first[last], last)
  <2>1. last \in 0..last
    BY <1>2
  <2>. QED
    BY <1>18, <2>1
<1>20. DOMAIN Candidates(index) = 1..last
  BY DEF last, all
<1>. QED
  BY <1>1, <1>4, <1>19, <1>20 DEF all

-----------------------------------------------------------------------------
(* The alternatives                                                        *)

\* How far a start is from another, in days and on the clock.
DaysOff(start, z, t) == Distance(WallClock(t, z).date, WallClock(start, z).date)
ClockOff(start, z, t) == Distance(WallClock(t, z).minute, WallClock(start, z).minute)

\* Which of two starts is offered first, by these numbers.
LEMMA PreferredIs ==
    ASSUME NEW z, IsZone(z), NEW start \in Int, NEW a \in Int, NEW b \in Int
    PROVE  /\ DaysOff(start, z, a) \in Nat /\ ClockOff(start, z, a) \in Nat
           /\ Preferred(start, z, a, b) <=>
                 \/ DaysOff(start, z, a) < DaysOff(start, z, b)
                 \/ DaysOff(start, z, a) = DaysOff(start, z, b) /\ ClockOff(start, z, a) < ClockOff(start, z, b)
                 \/ /\ DaysOff(start, z, a) = DaysOff(start, z, b)
                    /\ ClockOff(start, z, a) = ClockOff(start, z, b) /\ a < b
<1>1. \A t \in Int : WallClock(t, z).date \in Int /\ WallClock(t, z).minute \in Int
  <2>. SUFFICES ASSUME NEW t \in Int
                PROVE  WallClock(t, z).date \in Int /\ WallClock(t, z).minute \in Int
    OBVIOUS
  <2>. DEFINE x == t + ZoneOffset(t, z)
  <2>1. x \in Int
    BY DEF IsZone, ZoneOffset
  <2>2. WallClock(t, z) = [date |-> x \div Day, minute |-> x % Day]
    BY DEF WallClock
  <2>3. 0 \in Int /\ 0 \in 0..Day - 1
    BY DayIsReal
  <2>. HIDE DEF x
  <2>4. x \div Day \in Int /\ x % Day \in 0..Day - 1
    BY <2>1, <2>3, DayAndMinute
  <2>5. x % Day \in Int
    BY <2>4, DayIsReal
  <2>. QED
    BY <2>2, <2>4, <2>5
<1>2. \A x, y \in Int : Distance(x, y) \in Nat
  BY DEF Distance
<1>3. \A t \in Int : DaysOff(start, z, t) \in Nat /\ ClockOff(start, z, t) \in Nat
  BY <1>1, <1>2 DEF DaysOff, ClockOff
<1>. DEFINE da == DaysOff(start, z, a)
            db == DaysOff(start, z, b)
            ca == ClockOff(start, z, a)
            cb == ClockOff(start, z, b)
<1>4. da \in Nat /\ db \in Nat /\ ca \in Nat /\ cb \in Nat
  BY <1>3
<1>5. Preferred(start, z, a, b) <=>
          \/ da < db \/ (da = db /\ ca < cb)
          \/ ~(db < da \/ (db = da /\ cb < ca)) /\ a < b
  BY DEF Preferred, Nearer, DaysOff, ClockOff
<1>. HIDE DEF da, db, ca, cb
<1>6. Preferred(start, z, a, b) <=>
          \/ da < db \/ (da = db /\ ca < cb) \/ (da = db /\ ca = cb /\ a < b)
  BY <1>4, <1>5
<1>. QED
  BY <1>4, <1>6 DEF da, db, ca, cb

\* No start is preferred to itself, of two different ones one is, and not both.
LEMMA PreferredOnce ==
    ASSUME NEW z, IsZone(z), NEW start \in Int, NEW a \in Int, NEW b \in Int
    PROVE  /\ ~Preferred(start, z, a, a)
           /\ a # b => (Preferred(start, z, a, b) <=> ~Preferred(start, z, b, a))
<1>. DEFINE d(t) == DaysOff(start, z, t)
            c(t) == ClockOff(start, z, t)
<1>1. \A t \in {a, b} : d(t) \in Nat /\ c(t) \in Nat
  BY PreferredIs
<1>2. \A t, u \in {a, b} : Preferred(start, z, t, u) <=>
          \/ d(t) < d(u) \/ (d(t) = d(u) /\ c(t) < c(u)) \/ (d(t) = d(u) /\ c(t) = c(u) /\ t < u)
  BY PreferredIs
<1>. HIDE DEF d, c
<1>. QED
  BY <1>1, <1>2

\* Of some of the starts of a list one comes first.
LEMMA OneIsFirst ==
    ASSUME NEW z, IsZone(z), NEW start \in Int, NEW list \in Seq(Int), Ascends(list),
           NEW rest, rest # {}, \A t \in rest : \E k \in DOMAIN list : list[k] = t
    PROVE  \E t \in rest : \A u \in rest : ~Preferred(start, z, u, t)
<1>. DEFINE d(t) == DaysOff(start, z, t)
            c(t) == ClockOff(start, z, t)
<1>1. \A t \in rest : t \in Int
  OBVIOUS
<1>2. /\ \A t \in rest : d(t) \in Nat /\ c(t) \in Nat
      /\ \A t, u \in rest : Preferred(start, z, t, u) <=>
          \/ d(t) < d(u) \/ (d(t) = d(u) /\ c(t) < c(u)) \/ (d(t) = d(u) /\ c(t) = c(u) /\ t < u)
  <2>1. ASSUME NEW t \in rest PROVE d(t) \in Nat /\ c(t) \in Nat
    <3>1. t \in Int
      BY <1>1
    <3>. QED
      BY <3>1, PreferredIs
  <2>2. ASSUME NEW t \in rest, NEW u \in rest
        PROVE  Preferred(start, z, t, u) <=>
          \/ d(t) < d(u) \/ (d(t) = d(u) /\ c(t) < c(u)) \/ (d(t) = d(u) /\ c(t) = c(u) /\ t < u)
    <3>1. t \in Int /\ u \in Int
      BY <1>1
    <3>. QED
      BY <3>1, PreferredIs
  <2>. HIDE DEF d, c
  <2>. QED
    BY <2>1, <2>2
<1>. HIDE DEF d, c
<1>3. PICK x \in {d(t) : t \in rest} : \A y \in {d(t) : t \in rest} : x <= y
  <2>1. {d(t) : t \in rest} \in SUBSET Nat /\ {d(t) : t \in rest} # {}
    BY <1>2
  <2>. QED
    BY <2>1, LeastNumber
<1>. DEFINE A == {t \in rest : d(t) = x}
<1>4. PICK y \in {c(t) : t \in A} : \A v \in {c(t) : t \in A} : y <= v
  <2>1. {c(t) : t \in A} \in SUBSET Nat /\ {c(t) : t \in A} # {}
    BY <1>2
  <2>. QED
    BY <2>1, LeastNumber
<1>. DEFINE B == {t \in A : c(t) = y}
            K == {k \in DOMAIN list : list[k] \in B}
<1>5. PICK k \in K : \A l \in K : k <= l
  <2>1. K \in SUBSET Nat
    OBVIOUS
  <2>2. K # {}
    <3>1. PICK t \in B : TRUE
      OBVIOUS
    <3>2. PICK l \in DOMAIN list : list[l] = t
      BY <3>1
    <3>. QED
      BY <3>1, <3>2
  <2>. HIDE DEF K
  <2>. QED
    BY <2>1, <2>2, LeastNumber
<1>. DEFINE t == list[k]
<1>6. t \in rest /\ d(t) = x /\ c(t) = y /\ t \in Int
  <2>1. t \in B
    <3>. HIDE DEF B
    <3>. QED
      BY <1>5
  <2>2. t \in A /\ c(t) = y
    <3>. HIDE DEF A, t
    <3>. QED
      BY <2>1
  <2>3. t \in rest /\ d(t) = x
    <3>. HIDE DEF t
    <3>. QED
      BY <2>2
  <2>. HIDE DEF t
  <2>. QED
    BY <1>1, <2>2, <2>3
<1>7. ASSUME NEW u \in rest, Preferred(start, z, u, t)
      PROVE  FALSE
  <2>1. d(t) <= d(u)
    BY <1>3, <1>6
  <2>2. d(u) = d(t) => c(t) <= c(u)
    BY <1>4, <1>6
  <2>3. d(u) = d(t) /\ c(u) = c(t) => t <= u
    <3>. SUFFICES ASSUME d(u) = d(t), c(u) = c(t) PROVE t <= u
      OBVIOUS
    <3>1. PICK l \in DOMAIN list : list[l] = u
      OBVIOUS
    <3>2. l \in K
      <4>1. d(u) = x /\ c(u) = y
        BY <1>6
      <4>. HIDE DEF d, c
      <4>2. u \in A
        BY <4>1
      <4>3. u \in B
        <5>. HIDE DEF A, K
        <5>1. u \in {v \in A : c(v) = y}
          BY ONLY <4>1, <4>2
        <5>. QED
          BY <5>1
      <4>. HIDE DEF B
      <4>. QED
        BY <3>1, <4>3
    <3>3. k <= l /\ k \in DOMAIN list /\ k \in Nat /\ l \in Nat
      <4>1. \A i \in K : i \in DOMAIN list /\ i \in Nat
        <5>1. DOMAIN list \in SUBSET Nat
          <6>. HIDE DEF A, B, K, d, c, t
          <6>1. DOMAIN list = 1..Len(list) /\ Len(list) \in Nat
            OBVIOUS
          <6>. QED
            BY ONLY <6>1
        <5>. HIDE DEF B
        <5>. QED
          BY <5>1
      <4>. HIDE DEF K
      <4>. QED
        BY <1>5, <3>2, <4>1
    <3>4. k = l \/ k < l
      BY <3>3
    <3>5. k < l => list[k] < list[l]
      BY <3>1, <3>3 DEF Ascends
    <3>. QED
      BY <1>1, <1>6, <3>1, <3>4, <3>5
  <2>. HIDE DEF t
  <2>4. d(u) \in Nat /\ d(t) \in Nat /\ c(u) \in Nat /\ c(t) \in Nat /\ u \in Int
    BY <1>1, <1>2, <1>6
  <2>5. \/ d(u) < d(t) \/ (d(u) = d(t) /\ c(u) < c(t)) \/ (d(u) = d(t) /\ c(u) = c(t) /\ u < t)
    BY <1>2, <1>6, <1>7
  <2>. HIDE DEF A, B, K
  <2>6. t \in Int
    BY <1>6
  <2>. QED
    BY <2>1, <2>2, <2>3, <2>4, <2>5, <2>6
<1>. QED
  BY <1>6, <1>7

\* The elements of a list.
ElementsOf(list) == {list[i] : i \in DOMAIN list}

\* A list of so many starts, one after the other, of some: each has as many preferred to it as
\* come before it, and is preferred to those that are left.
Ranks(list, n, others, start, z) ==
    /\ list \in Seq(Int) /\ Len(list) = n /\ ElementsOf(list) \subseteq others
    /\ IsFiniteSet(ElementsOf(list)) /\ Cardinality(ElementsOf(list)) = n
    /\ \A i \in 1..n : Cardinality({t \in others : Preferred(start, z, t, list[i])}) = i - 1
    /\ \A i \in 1..n : \A t \in others \ ElementsOf(list) : Preferred(start, z, list[i], t)

\* The one that is preferred to those that are left.
FirstOf(rest, start, z) == CHOOSE t \in rest : \A u \in rest : ~Preferred(start, z, u, t)

\* With the first of those that are left the list is longer by one.
LEMMA RanksMore ==
    ASSUME NEW z, IsZone(z), NEW start \in Int, NEW list \in Seq(Int), Ascends(list),
           NEW others, IsFiniteSet(others), \A t \in others : \E k \in DOMAIN list : list[k] = t,
           NEW n \in Nat, n < Cardinality(others), NEW done, Ranks(done, n, others, start, z)
    PROVE  LET rest == others \ ElementsOf(done)
           IN  rest # {} /\ Ranks(Append(done, FirstOf(rest, start, z)), n + 1, others, start, z)
<1>. DEFINE held == ElementsOf(done)
            rest == others \ held
            r == FirstOf(rest, start, z)
            more == Append(done, r)
<1>1. /\ done \in Seq(Int) /\ Len(done) = n /\ held \subseteq others
      /\ IsFiniteSet(held) /\ Cardinality(held) = n
      /\ \A i \in 1..n : Cardinality({t \in others : Preferred(start, z, t, done[i])}) = i - 1
      /\ \A i \in 1..n : \A t \in others \ held : Preferred(start, z, done[i], t)
  BY DEF Ranks
<1>2. \A t \in others : t \in Int
  OBVIOUS
<1>0. DOMAIN done = 1..n
  <2>. HIDE DEF held
  <2>. QED
    BY <1>1
<1>3. \A t \in held : \E i \in 1..n : t = done[i]
  BY <1>0 DEF ElementsOf
<1>4. \A i \in 1..n : done[i] \in held
  BY <1>0 DEF ElementsOf
<1>. HIDE DEF held
<1>5. rest # {}
  <2>. SUFFICES ASSUME rest = {} PROVE FALSE
    OBVIOUS
  <2>1. held = others
    BY <1>1
  <2>. QED
    BY <1>1, <2>1
<1>6. r \in rest /\ \A u \in rest : ~Preferred(start, z, u, r)
  <2>1. \A t \in rest : \E k \in DOMAIN list : list[k] = t
    OBVIOUS
  <2>. HIDE DEF rest
  <2>2. \E t \in rest : \A u \in rest : ~Preferred(start, z, u, t)
    BY <1>5, <2>1, OneIsFirst
  <2>. QED
    BY <2>2 DEF FirstOf
<1>7. r \in others /\ r \notin held /\ r \in Int
  BY <1>2, <1>6
<1>. HIDE DEF r
<1>8. /\ more \in Seq(Int) /\ Len(more) = n + 1 /\ DOMAIN more = 1..n + 1
      /\ more[n + 1] = r /\ \A i \in 1..n : more[i] = done[i]
  BY <1>1, <1>7
<1>. HIDE DEF more
<1>9. \A i \in 1..n + 1 : i \in 1..n \/ i = n + 1
  OBVIOUS
<1>10. n + 1 \in 1..n + 1 /\ \A i \in 1..n : i \in 1..n + 1
  OBVIOUS
<1>11. ElementsOf(more) = held \cup {r}
  <2>1. \A x : x \in ElementsOf(more) <=> \E i \in 1..n + 1 : x = more[i]
    BY <1>8 DEF ElementsOf
  <2>2. \A x \in ElementsOf(more) : x \in held \cup {r}
    BY <1>4, <1>8, <1>9, <2>1
  <2>3. \A x \in held \cup {r} : x \in ElementsOf(more)
    BY <1>3, <1>8, <1>10, <2>1
  <2>. QED
    BY <2>2, <2>3
<1>12. IsFiniteSet(held \cup {r}) /\ Cardinality(held \cup {r}) = n + 1
  BY <1>1, <1>7, FS_AddElement
<1>13. \A u \in others : Preferred(start, z, u, r) <=> u \in held
  <2>. SUFFICES ASSUME NEW u \in others PROVE Preferred(start, z, u, r) <=> u \in held
    OBVIOUS
  <2>1. u \in held => Preferred(start, z, u, r)
    BY <1>1, <1>3, <1>6
  <2>2. u \notin held => ~Preferred(start, z, u, r)
    BY <1>6
  <2>. QED
    BY <2>1, <2>2
<1>14. {u \in others : Preferred(start, z, u, r)} = held
  BY <1>1, <1>13
<1>15. \A i \in 1..n + 1 : Cardinality({t \in others : Preferred(start, z, t, more[i])}) = i - 1
  <2>1. Cardinality({t \in others : Preferred(start, z, t, more[n + 1])}) = n
    BY <1>1, <1>8, <1>14
  <2>2. \A i \in 1..n : Cardinality({t \in others : Preferred(start, z, t, more[i])}) = i - 1
    BY <1>1, <1>8
  <2>3. (n + 1) - 1 = n
    OBVIOUS
  <2>. QED
    BY <1>9, <2>1, <2>2, <2>3
<1>16. \A i \in 1..n + 1 : \A t \in others \ (held \cup {r}) : Preferred(start, z, more[i], t)
  <2>. SUFFICES ASSUME NEW i \in 1..n + 1, NEW t \in others \ (held \cup {r})
                PROVE  Preferred(start, z, more[i], t)
    OBVIOUS
  <2>1. CASE i \in 1..n
    BY <1>1, <1>8, <2>1
  <2>2. CASE i = n + 1
    <3>1. t \in rest /\ t # r /\ t \in Int
      BY <1>2
    <3>2. ~Preferred(start, z, t, r)
      BY <1>6, <3>1
    <3>3. Preferred(start, z, r, t) <=> ~Preferred(start, z, t, r)
      BY <1>7, <3>1, PreferredOnce
    <3>. QED
      BY <1>8, <2>2, <3>2, <3>3
  <2>. QED
    BY <1>9, <2>1, <2>2
<1>17. Ranks(more, n + 1, others, start, z)
  BY <1>1, <1>7, <1>8, <1>11, <1>12, <1>15, <1>16 DEF Ranks
<1>. QED
  BY <1>5, <1>17 DEF more, r, held

\* As many as there may be, each with as many others preferred to it as come before it.
AreFirst(found, limit, others, start, z) ==
    /\ Len(found) = Smaller(limit, Cardinality(others))
    /\ \A i \in DOMAIN found :
          /\ found[i] \in others
          /\ Cardinality({t \in others : Preferred(start, z, t, found[i])}) = i - 1

\* The alternatives are the nearest of the other starts, in order.
LEMMA SuggestedAre ==
    ASSUME NEW z, IsZone(z), NEW start \in Int, NEW list \in Seq(Int), Ascends(list), NEW limit \in Nat
    PROVE  AreFirst(SuggestAlternatives(list, start, z, limit), limit, Range(list) \ {start}, start, z)
<1>. DEFINE others == {list[i] : i \in DOMAIN list} \ {start}
            last == Smaller(limit, Cardinality(others))
            rest(done) == others \ {done[i] : i \in DOMAIN done}
            next(done) == Append(done, CHOOSE t \in rest(done) :
                                          \A u \in rest(done) : ~Preferred(start, z, u, t))
            Solves(f) == f = [n \in 0..last |-> IF n = 0 THEN <<>> ELSE next(f[n - 1])]
            first == CHOOSE f : Solves(f)
            Right(s, n) == Ranks(s, n, others, start, z)
<1>1. SuggestAlternatives(list, start, z, limit) = first[last]
  BY Zenon DEF SuggestAlternatives
<1>2. Range(list) \ {start} = others
  BY DEF Range
<1>3. IsFiniteSet(others) /\ \A t \in others : \E k \in DOMAIN list : list[k] = t
  <2>1. IsFiniteSet(DOMAIN list)
    <3>1. DOMAIN list = 1..Len(list) /\ Len(list) \in Nat
      OBVIOUS
    <3>. QED
      BY <3>1, FS_Interval
  <2>2. IsFiniteSet({list[i] : i \in DOMAIN list})
    BY <2>1, ImageFinite
  <2>3. others \subseteq {list[i] : i \in DOMAIN list}
    OBVIOUS
  <2>. HIDE DEF others
  <2>4. IsFiniteSet(others)
    BY <2>2, <2>3, FS_Subset
  <2>. QED
    BY <2>3, <2>4
<1>. HIDE DEF others
<1>4. last \in Nat /\ last <= Cardinality(others) /\ Cardinality(others) \in Nat
  BY <1>3, FS_CardinalityType DEF Smaller
<1>. HIDE DEF last
<1>5. \A s : rest(s) = others \ ElementsOf(s) /\ next(s) = Append(s, FirstOf(others \ ElementsOf(s), start, z))
  BY DEF ElementsOf, FirstOf
<1>. HIDE DEF rest, next
<1>6. ASSUME NEW i \in 1..last, NEW s, Right(s, i - 1)
      PROVE  Right(next(s), i)
  <2>1. i - 1 \in Nat /\ i - 1 < Cardinality(others) /\ (i - 1) + 1 = i
    BY <1>4
  <2>. DEFINE m == i - 1
  <2>. HIDE DEF m
  <2>2. Ranks(Append(s, FirstOf(others \ ElementsOf(s), start, z)), m + 1, others, start, z)
    BY <1>3, <1>6, <2>1, RanksMore DEF m
  <2>. QED
    BY <1>5, <2>1, <2>2 DEF m
<1>7. Right(<<>>, 0)
  <2>1. <<>> \in Seq(Int) /\ Len(<<>>) = 0 /\ DOMAIN <<>> = {}
    OBVIOUS
  <2>2. ElementsOf(<<>>) = {}
    BY <2>1 DEF ElementsOf
  <2>3. IsFiniteSet({}) /\ Cardinality({}) = 0
    BY FS_EmptySet
  <2>4. 1..0 = {}
    OBVIOUS
  <2>. QED
    BY <2>1, <2>2, <2>3, <2>4 DEF Ranks
<1>8. \A s, n : Right(s, n) => s \in Seq(Int)
  BY DEF Ranks
<1>9. \A n \in 0..last : n = 0 \/ (n \in 1..last /\ n - 1 \in 0..last)
  BY <1>4
<1>10. (\A n \in 1..last : n \in 0..last /\ n # 0) /\ 0 \in 0..last /\ last \in 0..last
  BY <1>4
<1>. DEFINE V == Seq(Int)
            G == [p \in V \X (1..last) |-> IF next(p[1]) \in V THEN next(p[1]) ELSE <<>>]
<1>11. <<>> \in V /\ \A v \in V, i \in 1..last :
          G[<<v, i>>] = (IF next(v) \in V THEN next(v) ELSE <<>>) /\ G[<<v, i>>] \in V
  <2>1. <<>> \in V
    OBVIOUS
  <2>. HIDE DEF V
  <2>. QED
    BY <2>1
<1>. HIDE DEF G, Right
<1>12. PICK f \in [0..last -> V] : f[0] = <<>> /\ \A i \in 1..last : f[i] = G[<<f[i - 1], i>>]
  <2>. HIDE DEF V
  <2>1. StaysIn(V, last, G)
    BY <1>11 DEF StaysIn
  <2>. QED
    BY <1>4, <1>11, <2>1, Sequel, SMTT(30)
<1>13. \A i \in 0..last : i \in {n \in 0..last : Right(f[n], n)}
  <2>. DEFINE P == {n \in 0..last : Right(f[n], n)}
  <2>1. 0 \in P
    BY <1>7, <1>10, <1>12
  <2>2. ASSUME NEW i \in 1..last, i - 1 \in P PROVE i \in P
    <3>1. Right(f[i - 1], i - 1) /\ i - 1 \in 0..last
      BY <2>2
    <3>2. Right(next(f[i - 1]), i)
      BY <1>6, <3>1
    <3>3. f[i - 1] \in V /\ next(f[i - 1]) \in V
      BY <1>8, <3>1, <3>2
    <3>. HIDE DEF V
    <3>4. f[i] = next(f[i - 1])
      BY <1>11, <1>12, <3>3
    <3>. QED
      BY <1>10, <3>2, <3>4
  <2>. HIDE DEF P
  <2>3. \A i \in 0..last : i \in P
    BY <1>4, <2>1, <2>2, BySteps
  <2>. QED
    BY <2>3 DEF P
<1>14. \A i \in 0..last : f[i] = IF i = 0 THEN <<>> ELSE next(f[i - 1])
  <2>. SUFFICES ASSUME NEW i \in 1..last PROVE f[i] = next(f[i - 1])
    BY <1>9, <1>10, <1>12
  <2>1. Right(f[i - 1], i - 1) /\ i - 1 \in 0..last
    BY <1>9, <1>10, <1>13
  <2>2. Right(next(f[i - 1]), i)
    BY <1>6, <2>1
  <2>3. f[i - 1] \in V /\ next(f[i - 1]) \in V
    BY <1>8, <2>1, <2>2
  <2>. HIDE DEF V
  <2>. QED
    BY <1>11, <1>12, <2>3
<1>15. Solves(f)
  <2>1. f = [n \in 0..last |-> f[n]]
    BY <1>12
  <2>. QED
    BY <1>14, <2>1
<1>16. Solves(first)
  <2>. HIDE DEF Solves
  <2>. QED
    BY <1>15
<1>. HIDE DEF first
<1>17. first = [n \in 0..last |-> IF n = 0 THEN <<>> ELSE next(first[n - 1])]
  BY <1>16
<1>18. \A n \in 0..last : first[n] = IF n = 0 THEN <<>> ELSE next(first[n - 1])
  BY <1>17, Zenon
<1>19. \A i \in 0..last : i \in {n \in 0..last : Right(first[n], n)}
  <2>. DEFINE P == {n \in 0..last : Right(first[n], n)}
  <2>1. 0 \in P
    BY <1>7, <1>10, <1>18
  <2>2. ASSUME NEW i \in 1..last, i - 1 \in P PROVE i \in P
    BY <1>6, <1>10, <1>18, <2>2
  <2>. HIDE DEF P
  <2>3. \A i \in 0..last : i \in P
    BY <1>4, <2>1, <2>2, BySteps
  <2>. QED
    BY <2>3 DEF P
<1>20. Ranks(first[last], last, others, start, z)
  BY <1>10, <1>19 DEF Right
<1>. DEFINE found == first[last]
<1>21. /\ Len(found) = last /\ DOMAIN found = 1..last
       /\ \A i \in 1..last : found[i] \in ElementsOf(found)
       /\ ElementsOf(found) \subseteq others
       /\ \A i \in 1..last : Cardinality({t \in others : Preferred(start, z, t, found[i])}) = i - 1
  <2>1. found \in Seq(Int) /\ Len(found) = last
    BY <1>20 DEF Ranks
  <2>2. DOMAIN found = 1..last
    BY <2>1
  <2>. QED
    BY <1>20, <2>1, <2>2 DEF Ranks, ElementsOf
<1>. HIDE DEF found
<1>22. AreFirst(found, limit, others, start, z)
  BY <1>21 DEF AreFirst, last
<1>. QED
  BY <1>1, <1>2, <1>22 DEF found

-----------------------------------------------------------------------------
(* What visitors are offered                                               *)

\* The starts are instants.
LEMMA StartsAreInt == \A t \in Starts : t \in Int
<1>1. Min(Days) \in Nat /\ Max(Days) \in Nat
  BY CalendarConstants, Extremes
<1>2. Instants \subseteq Int
  BY <1>1, DayIsReal DEF Instants
<1>. QED
  BY <1>2 DEF Starts

\* A list of free times, for any days: each of its starts is one that its index accepts, each
\* is later than those before it, and what the index accepts is in it where the clocks lose no
\* start.
LEMMA ListedAre ==
    ASSUME IsZone(zone), NEW svc \in Services, NEW people,
           NEW range, range.from \in Int, range.to \in Int, range.from <= range.to
    PROVE  LET index  == BuildIndex(Asked(svc, bookings), range)
               listed == Listed(Asked(svc, bookings), range, people)
           IN  /\ listed \in Seq(Int) /\ Ascends(listed)
               /\ \A k \in DOMAIN listed : AssessSlot(index, listed[k], people).ok
               /\ KeepsStarts(svc) =>
                     \A t \in Int :
                        /\ LocalDateOf(t, zone) \in range.from..range.to
                        /\ AssessSlot(index, t, people).ok
                        => \E k \in DOMAIN listed : listed[k] = t
<1>. DEFINE in == Asked(svc, bookings)
            index == BuildIndex(in, range)
            listed == FindAvailableSlots(index, people)
            all == Candidates(index)
<1>1. in.svc = svc /\ in.zone = zone
  BY DEF Asked
<1>2. index.in = in /\ index.range = range
  <2>. DEFINE windows == WindowsForRange(in.opening, Around(range), in.zone)
  <2>1. index = IndexOver(in, range, windows)
    BY DEF BuildIndex
  <2>. HIDE DEF windows, index, in
  <2>. QED
    BY <1>1, <2>1, IndexHolds
<1>. HIDE DEF index, in
<1>3. all \in Seq(Int) /\ Ascends(all)
  BY <1>1, <1>2, CandidatesAscend
<1>4. /\ listed \in Seq(Int) /\ Ascends(listed)
      /\ \A k \in DOMAIN listed : AssessSlot(index, listed[k], people).ok
      /\ \A j \in DOMAIN all : AssessSlot(index, all[j], people).ok =>
            \E k \in DOMAIN listed : listed[k] = all[j]
  BY <1>3, FoundAreAccepted
<1>. HIDE DEF listed
<1>5. ASSUME KeepsStarts(svc), NEW t \in Int, LocalDateOf(t, zone) \in range.from..range.to,
             AssessSlot(index, t, people).ok
      PROVE  \E k \in DOMAIN listed : listed[k] = t
  <2>. DEFINE date == LocalDateOf(t, zone)
  <2>1. MayStand(index, t, people, date)
    <3>1. AssessSlot(index, t, people) = AssessOn(index, t, people, date)
      BY <1>1, <1>2 DEF AssessSlot
    <3>. HIDE DEF date
    <3>. QED
      BY <1>5, <3>1, SlotIs
  <2>2. IsOnGrid(index.in.svc, t, index.in.zone) /\ ~(t < index.earliest)
    BY <1>1, <1>2, <2>1 DEF MayStand
  <2>3. SkipsPoints(index.in.zone, Offer[index.in.svc].step)
    BY <1>1, <1>2, <1>5 DEF KeepsStarts, SkipsPoints
  <2>4. /\ index.in.svc \in Services /\ IsZone(index.in.zone)
        /\ index.range.from \in Int /\ index.range.to \in Int /\ index.range.from <= index.range.to
        /\ LocalDateOf(t, index.in.zone) \in index.range.from..index.range.to
    BY <1>1, <1>2, <1>5
  <2>5. PICK j \in DOMAIN all : all[j] = t
    <3>. HIDE DEF all
    <3>1. \E j \in DOMAIN Candidates(index) : Candidates(index)[j] = t
      BY <2>2, <2>3, <2>4, CandidatesComplete
    <3>. QED
      BY <3>1 DEF all
  <2>. HIDE DEF all
  <2>. QED
    BY <1>4, <1>5, <2>5
<1>. QED
  BY <1>4, <1>5 DEF Listed, listed, index, in

\* What a list offers the commands accept.
LEMMA ListsAreBookable ==
    ASSUME zone \in Zones, PlansRight, RowsRight(bookings)
    PROVE  ListedIsBookable
<1>. SUFFICES ASSUME NEW svc \in Services, NEW people \in 1..MaxGroup, NEW range \in Queries
              PROVE  LET in     == Asked(svc, bookings)
                         listed == Listed(in, range, people)
                     IN  /\ \A i \in DOMAIN listed \ {1} : listed[i - 1] < listed[i]
                         /\ StaysNear(svc) => \A t \in Range(listed) : AssessAlone(in, t, people).ok
  BY DEF ListedIsBookable
<1>. DEFINE in == Asked(svc, bookings)
            index == BuildIndex(in, range)
            listed == Listed(in, range, people)
<1>1. IsZone(zone)
  BY CalendarConstants DEF IsZone
<1>2. range.from \in Int /\ range.to \in Int /\ range.from <= range.to
  BY CalendarConstants DEF Queries
<1>3. /\ listed \in Seq(Int) /\ Ascends(listed)
      /\ \A k \in DOMAIN listed : AssessSlot(index, listed[k], people).ok
  BY <1>1, <1>2, ListedAre
<1>. HIDE DEF listed
<1>4. \A i \in DOMAIN listed \ {1} : listed[i - 1] < listed[i]
  <2>. SUFFICES ASSUME NEW i \in DOMAIN listed \ {1} PROVE listed[i - 1] < listed[i]
    OBVIOUS
  <2>1. i - 1 \in DOMAIN listed /\ i - 1 < i
    BY <1>3
  <2>. QED
    BY <1>3, <2>1 DEF Ascends
<1>5. ASSUME StaysNear(svc), NEW t \in Range(listed)
      PROVE  AssessAlone(in, t, people).ok
  <2>1. PICK k \in DOMAIN listed : listed[k] = t
    BY <1>5 DEF Range
  <2>2. t \in Int /\ AssessSlot(index, t, people).ok
    BY <1>3, <2>1
  <2>. QED
    BY <1>1, <1>2, <1>5, <2>2, AlsoAlone
<1>. QED
  BY <1>4, <1>5 DEF listed

\* What the commands accept is in the lists of its day.
LEMMA ListsAreComplete ==
    ASSUME zone \in Zones, PlansRight, RowsRight(bookings)
    PROVE  ListIsComplete
<1>. SUFFICES ASSUME NEW svc \in Services, KeepsStarts(svc), NEW people \in 1..MaxGroup,
                     NEW range \in Queries, NEW t \in Accepted(Asked(svc, bookings), people),
                     LocalDateOf(t, zone) \in range.from..range.to
              PROVE  t \in Range(Listed(Asked(svc, bookings), range, people))
  BY Zenon DEF ListIsComplete
<1>. DEFINE in == Asked(svc, bookings)
            index == BuildIndex(in, range)
            listed == Listed(in, range, people)
            date == LocalDateOf(t, zone)
            daily == [day \in Days |-> DayIndex(in, day)]
<1>1. IsZone(zone)
  BY CalendarConstants DEF IsZone
<1>2. range.from \in Int /\ range.to \in Int /\ range.from <= range.to
  BY CalendarConstants DEF Queries
<1>3. t \in Int /\ date \in Days /\ AssessSlot(Table(daily)[date], t, people).ok
  <2>1. t \in Starts /\ AssessSlot(Table(daily)[date], t, people).ok
    BY DEF Accepted
  <2>. QED
    BY <2>1, StartsAreInt DEF Starts
<1>4. AssessAlone(in, t, people).ok
  <2>1. Table(daily)[date] = daily[date]
    <3>1. DOMAIN daily = Days
      OBVIOUS
    <3>. HIDE DEF daily, date
    <3>. QED
      BY <1>3, <3>1, TableIs
  <2>2. daily[date] = DayIndex(in, date)
    <3>. HIDE DEF date, in
    <3>. QED
      BY <1>3
  <2>3. in.zone = zone
    BY DEF Asked
  <2>. HIDE DEF daily, in
  <2>. QED
    BY <1>3, <2>1, <2>2, <2>3 DEF AssessAlone
<1>5. AssessSlot(index, t, people).ok
  BY <1>1, <1>2, <1>3, <1>4, AlsoAmong
<1>6. \E k \in DOMAIN listed : listed[k] = t
  <2>1. KeepsStarts(svc) =>
           \A u \in Int :
              /\ LocalDateOf(u, zone) \in range.from..range.to
              /\ AssessSlot(index, u, people).ok
              => \E k \in DOMAIN listed : listed[k] = u
    <3>1. LET built == BuildIndex(Asked(svc, bookings), range)
              list  == Listed(Asked(svc, bookings), range, people)
          IN  /\ list \in Seq(Int) /\ Ascends(list)
              /\ \A k \in DOMAIN list : AssessSlot(built, list[k], people).ok
              /\ KeepsStarts(svc) =>
                    \A u \in Int :
                       /\ LocalDateOf(u, zone) \in range.from..range.to
                       /\ AssessSlot(built, u, people).ok
                       => \E k \in DOMAIN list : list[k] = u
      BY <1>1, <1>2, ListedAre
    <3>. QED
      BY <3>1
  <2>. HIDE DEF index, listed
  <2>. QED
    BY <1>3, <1>5, <2>1
<1>. HIDE DEF listed
<1>7. t \in Range(listed)
  BY <1>6 DEF Range
<1>. QED
  BY <1>7 DEF listed

\* The alternatives to a start are the nearest of the free ones.
LEMMA NearestAreSuggested ==
    ASSUME zone \in Zones
    PROVE  AlternativesNearest
<1>. DEFINE alone(svc, day) == Listed(Asked(svc, bookings), AlternativeRange(day, 1), 1)
            daily(svc) == [day \in Days |-> alone(svc, day)]
            Nearest(list, start) ==
                LET found == SuggestAlternatives(list, start, zone, 2)
                    free  == Range(list) \ {start}
                    here  == WallClock(start, zone)
                    days(t)  == Distance(WallClock(t, zone).date, here.date)
                    clock(t) == Distance(WallClock(t, zone).minute, here.minute)
                    nearer(t, u) == \/ days(t) < days(u)
                                    \/ days(t) = days(u) /\ clock(t) < clock(u)
                                    \/ days(t) = days(u) /\ clock(t) = clock(u) /\ t < u
                IN  /\ Len(found) = Smaller(2, Cardinality(free))
                    /\ \A i \in DOMAIN found :
                          /\ found[i] \in free
                          /\ Cardinality({t \in free : nearer(t, found[i])}) = i - 1
<1>1. IsZone(zone)
  BY CalendarConstants DEF IsZone
<1>2. ASSUME NEW list \in Seq(Int), Ascends(list), NEW start \in Int
      PROVE  Nearest(list, start)
  <2>. DEFINE found == SuggestAlternatives(list, start, zone, 2)
              free  == Range(list) \ {start}
              days(t) == Distance(WallClock(t, zone).date, WallClock(start, zone).date)
              clock(t) == Distance(WallClock(t, zone).minute, WallClock(start, zone).minute)
              nearer(t, u) == \/ days(t) < days(u)
                              \/ days(t) = days(u) /\ clock(t) < clock(u)
                              \/ days(t) = days(u) /\ clock(t) = clock(u) /\ t < u
  <2>1. /\ Len(found) = Smaller(2, Cardinality(free))
        /\ \A i \in DOMAIN found :
              /\ found[i] \in free
              /\ Cardinality({t \in free : Preferred(start, zone, t, found[i])}) = i - 1
    <3>1. 2 \in Nat
      OBVIOUS
    <3>2. AreFirst(found, 2, free, start, zone)
      BY <1>1, <1>2, <3>1, SuggestedAre
    <3>. HIDE DEF found, free
    <3>. QED
      BY <3>2 DEF AreFirst
  <2>2. \A t \in free : t \in Int
    BY <1>2 DEF Range
  <2>3. \A t, u \in free : Preferred(start, zone, t, u) <=> nearer(t, u)
    <3>. SUFFICES ASSUME NEW t \in free, NEW u \in free
                  PROVE  Preferred(start, zone, t, u) <=> nearer(t, u)
      OBVIOUS
    <3>. HIDE DEF free
    <3>1. t \in Int /\ u \in Int
      BY <2>2
    <3>2. Preferred(start, zone, t, u) <=>
             \/ DaysOff(start, zone, t) < DaysOff(start, zone, u)
             \/ /\ DaysOff(start, zone, t) = DaysOff(start, zone, u)
                /\ ClockOff(start, zone, t) < ClockOff(start, zone, u)
             \/ /\ DaysOff(start, zone, t) = DaysOff(start, zone, u)
                /\ ClockOff(start, zone, t) = ClockOff(start, zone, u) /\ t < u
      BY <1>1, <1>2, <3>1, PreferredIs
    <3>. QED
      BY <3>2 DEF DaysOff, ClockOff
  <2>. HIDE DEF free, found, nearer
  <2>4. ASSUME NEW u \in free
        PROVE  {t \in free : Preferred(start, zone, t, u)} = {t \in free : nearer(t, u)}
    BY <2>3
  <2>5. \A i \in DOMAIN found :
           /\ found[i] \in free
           /\ Cardinality({t \in free : nearer(t, found[i])}) = i - 1
    BY <2>1, <2>4
  <2>. QED
    BY <2>1, <2>5, Zenon DEF free, found, nearer
<1>3. ASSUME NEW svc \in Services, NEW start \in Starts
      PROVE  /\ Table(daily(svc))[LocalDateOf(start, zone)] \in Seq(Int)
             /\ Ascends(Table(daily(svc))[LocalDateOf(start, zone)])
             /\ start \in Int
  <2>. DEFINE day == LocalDateOf(start, zone)
  <2>1. day \in Days
    BY <1>3 DEF Starts
  <2>2. day \in Int
    BY <2>1, CalendarConstants
  <2>3. start \in Int
    BY <1>3, StartsAreInt
  <2>. HIDE DEF day
  <2>. DEFINE range == AlternativeRange(day, 1)
  <2>4. range.from \in Int /\ range.to \in Int /\ range.from <= range.to
    BY <2>2 DEF AlternativeRange
  <2>. HIDE DEF range
  <2>5. Listed(Asked(svc, bookings), range, 1) \in Seq(Int) /\ Ascends(Listed(Asked(svc, bookings), range, 1))
    BY <1>1, <1>3, <2>4, ListedAre
  <2>. HIDE DEF alone
  <2>6. DOMAIN daily(svc) = Days /\ daily(svc)[day] = alone(svc, day)
    BY <2>1
  <2>. HIDE DEF daily
  <2>7. Table(daily(svc))[day] = alone(svc, day)
    BY <2>1, <2>6, TableIs
  <2>. QED
    BY <2>3, <2>5, <2>7 DEF alone, range, day
<1>. HIDE DEF daily
<1>4. \A svc \in Services : \A start \in Starts :
         Nearest(Table(daily(svc))[LocalDateOf(start, zone)], start)
  <2>. HIDE DEF Nearest
  <2>. QED
    BY <1>2, <1>3
<1>. QED
  BY <1>4, Zenon DEF AlternativesNearest, daily, alone, Nearest

\* What visitors are offered, in lists of any days and as alternatives, is what the commands
\* accept: none that these refuse, all that these accept on those days, and the nearest
\* first (findAvailableSlots, suggestAlternativeSlots, assessSlot).
THEOREM OffersAlwaysExact == Spec => []OffersAreExact
<1>1. zone \in Zones /\ PlansRight /\ RowsRight(bookings) => OffersAreExact
  BY ListsAreBookable, ListsAreComplete, NearestAreSuggested DEF OffersAreExact
<1>. QED
  BY <1>1, ZoneStays, PlansStay, BookingsStay, PTL

-----------------------------------------------------------------------------
(* The preview.                                                            *)

\* The resources of a booking fill what its service needs, if whoever has given the service up
\* is taken to offer it still; and the key of a session is of its own service.
CrewsFill(of) ==
    \A b \in Ids : of[b] # None =>
        /\ of[b].crew \in {Range(f) : f \in FillingsBy(of[b].svc, Resources, Everything)}
        /\ \A svc, start : of[b].key = SessionKey(svc, start) => of[b].svc = svc

\* The resources of a new appointment fill what its service needs.
LEMMA NewCrewFills ==
    ASSUME NEW in, in.svc \in Services, RowsRight(in.bookings), NEW range, NEW open,
           NEW occupied, NEW people, NEW date,
           AssessNew(IndexOver(in, range, open), occupied, people, date).ok
    PROVE  AssessNew(IndexOver(in, range, open), occupied, people, date).crew
              \in {Range(f) : f \in FillingsBy(in.svc, Resources, Everything)}
<1>. DEFINE svc == in.svc
            index == IndexOver(in, range, open)
            needs == Offer[svc].needs
            kept == DOMAIN needs
            demands == Demands(index, occupied, people, date)
            crew == MatchResources(demands)
            slot == AssessNew(index, occupied, people, date)
            fit == FreeFor(index, occupied, people)
            all == [i \in kept |-> {r \in Resources : IsEligible(r, needs[i], svc, Everything)}]
<1>1. index.in = in
  BY IndexHolds
<1>2. /\ demands \in Seq(Seq(Resources))
      /\ \A g \in Ways(demands) : \E f : Manned(f, svc, kept, fit) /\ Range(f) = Range(g)
  BY DemandsType, DemandsManned
<1>3. \A i \in kept : \A r : r \in fit[i] => r \in all[i]
  <2>. SUFFICES ASSUME NEW i \in kept, NEW r \in fit[i] PROVE r \in all[i]
    OBVIOUS
  <2>1. index.pools[i] = {q \in Resources : IsEligible(q, needs[i], svc, in.offers)}
    BY IndexHolds
  <2>. HIDE DEF index
  <2>2. r \in index.pools[i]
    BY <1>1 DEF FreeFor
  <2>3. r \in Resources /\ IsEligible(r, needs[i], svc, in.offers)
    BY <2>1, <2>2
  <2>4. IsEligible(r, needs[i], svc, Everything)
    BY <2>3 DEF IsEligible, OffersService, Everything
  <2>. QED
    BY <2>3, <2>4
<1>4. \A i \in DOMAIN Offer[svc].needs : \A r :
          r \in all[i] <=> r \in Resources /\ IsEligible(r, Offer[svc].needs[i], svc, Everything)
  OBVIOUS
<1>5. \A x \in KeptUnits(svc, kept) : x[1] \in kept
  BY DEF KeptUnits
<1>. HIDE DEF index, demands, fit, all
<1>6. PICK seen : slot = Assigned(svc, crew, seen)
  BY <1>1 DEF AssessNew, demands
<1>7. crew # None /\ slot.crew = crew
  <2>1. slot.ok
    BY DEF index
  <2>. HIDE DEF slot, crew
  <2>. QED
    BY <1>6, <2>1 DEF Assigned, Planned, Rejected
<1>8. PICK g \in Ways(demands) : crew = Range(g)
  <2>1. IF Ways(demands) = {} THEN crew = None ELSE \E g \in Ways(demands) : crew = Range(g)
    BY <1>2, MatchIsExact
  <2>. HIDE DEF crew
  <2>. QED
    BY <1>7, <2>1
<1>9. PICK f : Manned(f, svc, kept, fit) /\ Range(f) = Range(g)
  BY <1>2
<1>. HIDE DEF kept
<1>10. Manned(f, svc, kept, all)
  BY <1>3, <1>5, <1>9, MannedByMore
<1>11. Range(f) \in {Range(h) : h \in FillingsBy(svc, Resources, Everything)}
  <2>1. \A e : Manned(e, svc, DOMAIN Offer[svc].needs, all) =>
           Range(e) \in {Range(h) : h \in FillingsBy(svc, Resources, Everything)}
    BY <1>4, FillingsManned
  <2>. QED
    BY <1>10, <2>1 DEF kept, needs
<1>. QED
  BY <1>7, <1>8, <1>9, <1>11 DEF slot, index, svc

\* The resources the engine gives fill what the service needs.
LEMMA CrewFills ==
    ASSUME NEW in, in.svc \in Services, RowsRight(in.bookings), CrewsFill(in.bookings),
           NEW start, NEW people, AssessAlone(in, start, people).ok
    PROVE  AssessAlone(in, start, people).crew
              \in {Range(f) : f \in FillingsBy(in.svc, Resources, Everything)}
<1>. DEFINE day == LocalDateOf(start, in.zone)
            range == [from |-> day, to |-> day]
            open == WindowsForRange(in.opening, Around(range), in.zone)
            index == IndexOver(in, range, open)
            slot == AssessAlone(in, start, people)
            session == SessionsAt(in.svc, start, in.bookings)
            shared == IsShared(in.svc) /\ session # {}
<1>1. slot = AssessSlot(index, start, people)
  BY DEF AssessAlone, DayIndex, BuildIndex
<1>2. index.in = in
  BY IndexHolds
<1>3. CASE shared
  <2>1. PICK c \in session : slot.crew = in.bookings[c].crew
    BY <1>3, JoinsCrew
  <2>2. c \in Ids /\ in.bookings[c] # None /\ in.bookings[c].key = SessionKey(in.svc, start)
    BY <2>1 DEF SessionsAt, RowsRight
  <2>. HIDE DEF slot
  <2>3. in.bookings[c].crew
           \in {Range(f) : f \in FillingsBy(in.svc, Resources, Everything)}
    BY <2>2 DEF CrewsFill
  <2>. QED
    BY <2>1, <2>3 DEF slot
<1>4. CASE ~shared
  <2>. DEFINE new == AssessNew(index, Occupied(in.svc, start), people, day)
  <2>1. slot = new
    <3>1. slot = AssessOn(index, start, people, day)
      <4>. HIDE DEF index, slot
      <4>. QED
        BY <1>1, <1>2 DEF AssessSlot
    <3>2. /\ AssessOn(index, start, people, day).ok => MayStand(index, start, people, day)
          /\ MayStand(index, start, people, day)
                /\ ~(IsShared(index.in.svc)
                     /\ SessionsAt(index.in.svc, start, index.in.bookings) # {}) =>
                AssessOn(index, start, people, day)
                   = AssessNew(index, Occupied(index.in.svc, start), people, day)
      BY SlotIs
    <3>3. slot.ok
      OBVIOUS
    <3>. HIDE DEF index, slot, day
    <3>. QED
      BY <1>2, <1>4, <3>1, <3>2, <3>3
  <2>2. new.ok => new.crew \in {Range(f) : f \in FillingsBy(in.svc, Resources, Everything)}
    <3>. HIDE DEF day, open, range
    <3>. QED
      BY NewCrewFills
  <2>3. slot.ok
    OBVIOUS
  <2>. HIDE DEF new, slot
  <2>. QED
    BY <2>1, <2>2, <2>3 DEF slot
<1>. QED
  BY <1>3, <1>4

\* What is placed has resources that fill what its service needs.
LEMMA PlacedFills ==
    ASSUME RowsRight(bookings), CrewsFill(bookings), NEW b \in Ids, NEW svc \in Services,
           NEW start, NEW people, NEW of, RowsRight(of), CrewsFill(of),
           NEW in, in.svc = svc, in.bookings = of,
           Place(b, svc, start, people, AssessAlone(in, start, people))
    PROVE  CrewsFill(bookings')
<1>. DEFINE slot == AssessAlone(in, start, people)
            row == Row(b, svc, start, people, slot.crew)
<1>1. slot.ok /\ bookings' = [bookings EXCEPT ![b] = row]
  BY DEF Place
<1>2. slot.crew \in {Range(f) : f \in FillingsBy(svc, Resources, Everything)}
  BY <1>1, CrewFills
<1>. HIDE DEF slot
<1>3. /\ row.svc = svc /\ row.crew = slot.crew
      /\ row.key = IF IsShared(svc) THEN SessionKey(svc, start) ELSE <<b>>
  BY DEF Row
<1>4. \A s, t : SessionKey(s, t) = SessionKey(svc, start) => s = svc
  BY DEF SessionKey
<1>5. \A s, t : <<b>> # SessionKey(s, t)
  <2>. SUFFICES ASSUME NEW s, NEW t, <<b>> = <<s, t>> PROVE FALSE
    BY DEF SessionKey
  <2>1. Len(<<b>>) = 1 /\ Len(<<s, t>>) = 2
    OBVIOUS
  <2>. QED
    BY <2>1
<1>. HIDE DEF row
<1>6. \A s, t : row.key = SessionKey(s, t) => row.svc = s
  BY <1>3, <1>4, <1>5
<1>7. \A c \in Ids : bookings'[c] = IF c = b THEN row ELSE bookings[c]
  BY <1>1 DEF RowsRight
<1>. QED
  BY <1>2, <1>3, <1>6, <1>7 DEF CrewsFill

\* The resources of bookings always fill what their services need.
LEMMA CrewsStay == Spec => []CrewsFill(bookings)
<1>1. Init => CrewsFill(bookings)
  BY DEF Init, CrewsFill
<1>2. RowsRight(bookings) /\ ServicesRight /\ CrewsFill(bookings) /\ [Next]_vars
         => CrewsFill(bookings)'
  <2>. SUFFICES ASSUME RowsRight(bookings), ServicesRight, CrewsFill(bookings), [Next]_vars
                PROVE  CrewsFill(bookings')
    OBVIOUS
  <2>1. CASE UNCHANGED bookings
    BY <2>1 DEF CrewsFill
  <2>2. ASSUME NEW b \in Ids
        PROVE  RowsRight([bookings EXCEPT ![b] = None]) /\ CrewsFill([bookings EXCEPT ![b] = None])
    <3>. DEFINE of == [bookings EXCEPT ![b] = None]
    <3>1. bookings = [c \in Ids |-> bookings[c]]
      BY DEF RowsRight
    <3>2. /\ of = [c \in Ids |-> of[c]]
          /\ \A c \in Ids : of[c] # None => of[c] = bookings[c] /\ bookings[c] # None
      BY <3>1
    <3>. HIDE DEF of
    <3>3. RowsRight(of) /\ CrewsFill(of)
      BY <3>2 DEF RowsRight, CrewsFill
    <3>. QED
      BY <3>3 DEF of
  <2>3. ASSUME NEW b \in Ids, NEW svc \in Services, NEW start \in Starts, NEW people \in 1..MaxGroup,
               Book(b, svc, start, people)
        PROVE  CrewsFill(bookings')
    <3>. DEFINE in == Asked(svc, bookings)
    <3>1. in.svc = svc /\ in.bookings = bookings
      BY DEF Asked
    <3>2. Place(b, svc, start, people, AssessAlone(in, start, people))
      BY <2>3 DEF Book
    <3>. HIDE DEF in
    <3>. QED
      BY <3>1, <3>2, PlacedFills
  <2>4. ASSUME NEW b \in Ids, NEW start \in Starts, Move(b, start)
        PROVE  CrewsFill(bookings')
    <3>. DEFINE k == bookings[b]
                of == [bookings EXCEPT ![b] = None]
                in == Asked(k.svc, of)
    <3>1. in.svc = k.svc /\ in.bookings = of
      BY DEF Asked
    <3>2. k # None /\ Place(b, k.svc, start, k.people, AssessAlone(in, start, k.people))
      BY <2>4 DEF Move
    <3>3. k.svc \in Services
      BY <3>2 DEF ServicesRight
    <3>4. RowsRight(of) /\ CrewsFill(of)
      BY <2>2
    <3>. HIDE DEF in, k, of
    <3>. QED
      BY <3>1, <3>2, <3>3, <3>4, PlacedFills
  <2>5. ASSUME NEW b \in Ids, Cancel(b)
        PROVE  CrewsFill(bookings')
    <3>1. bookings' = [bookings EXCEPT ![b] = None]
      BY <2>5 DEF Cancel
    <3>. QED
      BY <2>2, <3>1
  <2>6. \/ UNCHANGED bookings
        \/ \E b \in Ids, svc \in Services, start \in Starts, people \in 1..MaxGroup :
              Book(b, svc, start, people)
        \/ \E b \in Ids, start \in Starts : Move(b, start)
        \/ \E b \in Ids : Cancel(b)
    BY DEF Next, SaveHours, Except, Choose, vars
  <2>. QED
    BY <2>1, <2>3, <2>4, <2>5, <2>6
<1>. QED
  BY <1>1, <1>2, BookingsStay, PTL DEF Spec

\* Whoever fits a session finds its resources large enough for all who come.
LEMMA SessionHosts ==
    ASSUME RowsRight(bookings), PeopleRight(bookings), NEW svc \in Services, NEW start,
           NEW people \in Nat, FitsSession(svc, start, people),
           NEW b \in SessionOf(svc, start)
    PROVE  bookings[b].crew \subseteq Hosts(Booked(SessionOf(svc, start), bookings) + people)
<1>. DEFINE of == SessionOf(svc, start)
            served == UNION {bookings[c].crew : c \in of}
            small == {r \in served : Setup[r].capacity # None}
            f == [r \in small |-> Setup[r].capacity]
            all == {Offer[svc].perSession} \cup {Setup[r].capacity : r \in small}
            total == Booked(of, bookings) + people
<1>1. of \in SUBSET Ids /\ \A c \in of : bookings[c] # None
  BY DEF SessionOf, SessionsAt, RowsRight
<1>2. total \in Nat
  <2>. HIDE DEF of
  <2>1. Booked(of, bookings) \in Nat
    BY <1>1, BookedIsNat
  <2>. QED
    BY <2>1
<1>3. served \subseteq Resources
  <2>. HIDE DEF of
  <2>. QED
    BY <1>1 DEF RowsRight, RowRight
<1>4. \A r \in Resources : Setup[r].capacity = None \/ Setup[r].capacity \in Nat
  BY EngineConstants
<1>5. total <= Min(all)
  BY DEF FitsSession
<1>. HIDE DEF of, served, total
<1>6. IsFiniteSet(all) /\ all \in SUBSET Nat /\ all # {}
  <2>1. IsFiniteSet(small)
    BY <1>3, EngineConstants, FS_Subset
  <2>2. {Setup[r].capacity : r \in small} = {f[r] : r \in small}
    OBVIOUS
  <2>. DEFINE sizes == {Setup[r].capacity : r \in small}
  <2>3. sizes \subseteq Nat
    BY <1>3, <1>4
  <2>4. IsFiniteSet(sizes)
    <3>. HIDE DEF f, small, sizes
    <3>1. IsFiniteSet({f[r] : r \in small})
      BY <2>1, ImageFinite
    <3>. QED
      BY <2>2, <3>1 DEF sizes
  <2>5. Offer[svc].perSession \in Nat
    BY EngineConstants
  <2>. HIDE DEF sizes
  <2>6. IsFiniteSet({Offer[svc].perSession})
    BY FS_Singleton
  <2>7. all = {Offer[svc].perSession} \cup sizes
    BY DEF sizes
  <2>. HIDE DEF all
  <2>. QED
    BY <2>3, <2>4, <2>5, <2>6, <2>7, FS_Union, Zenon
<1>7. \A k \in all : total <= k
  <2>. DEFINE least == Min(all)
  <2>. HIDE DEF all
  <2>1. least \in all /\ \A k \in all : least <= k
    BY <1>6, Extremes
  <2>2. total <= least
    BY <1>5
  <2>3. \A k \in all : k \in Nat
    BY <1>6
  <2>. HIDE DEF least
  <2>. QED
    BY <1>2, <2>1, <2>2, <2>3
<1>8. ASSUME NEW r \in bookings[b].crew
      PROVE  r \in Hosts(total)
  <2>1. r \in served
    BY <1>8 DEF served, of
  <2>2. Setup[r].capacity = None \/ total <= Setup[r].capacity
    BY <1>7, <2>1
  <2>. QED
    BY <1>3, <2>1, <2>2 DEF Hosts
<1>. QED
  BY <1>8 DEF total, of

\* Who joins a session is served by its resources, which fill the requirements for all.
LEMMA JoinersAreServed ==
    ASSUME RowsRight(bookings), PeopleRight(bookings), SameCrew(bookings), CrewsFill(bookings),
           NEW svc \in Services, NEW people \in Nat,
           NEW t \in Accepted(Asked(svc, bookings), people), NEW b \in SessionOf(svc, t)
    PROVE  bookings[b].crew \in
              {Range(f) : f \in FillingsBy(svc, Hosts(Booked(SessionOf(svc, t), bookings) + people),
                                           Everything)}
<1>. DEFINE in == Asked(svc, bookings)
            table == Table([day \in Days |-> DayIndex(in, day)])
            day == LocalDateOf(t, zone)
            index == DayIndex(in, day)
            session == SessionsAt(svc, t, bookings)
            present == Hosts(Booked(SessionOf(svc, t), bookings) + people)
<1>1. /\ in.svc = svc /\ in.bookings = bookings /\ in.zone = zone
  BY DEF Asked
<1>2. day \in Days /\ AssessSlot(table[day], t, people).ok
  BY DEF Accepted, Starts
<1>3. table[day] = index
  <2>. DEFINE f == [d \in Days |-> DayIndex(in, d)]
  <2>1. DOMAIN f = Days /\ f[day] = index
    BY <1>2
  <2>. HIDE DEF f
  <2>2. Table(f)[day] = f[day]
    BY <1>2, <2>1, TableIs
  <2>. QED
    BY <2>1, <2>2 DEF f
<1>4. IsShared(svc) /\ session # {} /\ SessionOf(svc, t) = session
  BY DEF SessionOf
<1>5. index.in = in
  BY <1>1, IndexHolds DEF DayIndex, BuildIndex
<1>6. FitsSession(svc, t, people)
  <2>1. AssessOn(index, t, people, day).ok
    <3>. HIDE DEF index, table, in, day
    <3>1. AssessSlot(index, t, people).ok
      BY <1>2, <1>3
    <3>2. AssessSlot(index, t, people) = AssessOn(index, t, people, day)
      BY <1>1, <1>5 DEF AssessSlot, day
    <3>. QED
      BY <3>1, <3>2
  <2>2. /\ AssessOn(index, t, people, day).ok => MayStand(index, t, people, day)
        /\ MayStand(index, t, people, day)
              /\ (IsShared(index.in.svc) /\ SessionsAt(index.in.svc, t, index.in.bookings) # {}) =>
              AssessOn(index, t, people, day) =
                 AssessSession(index, SessionsAt(index.in.svc, t, index.in.bookings), people)
    BY SlotIs
  <2>. HIDE DEF index, in, day
  <2>3. AssessSession(index, session, people).ok
    BY <1>1, <1>4, <1>5, <2>1, <2>2
  <2>4. index.in.svc = svc /\ index.in.bookings = bookings
    BY <1>1, <1>5
  <2>. QED
    BY <1>4, <2>3, <2>4, SessionIsExact
<1>7. bookings[b].crew \subseteq present
  BY <1>6, SessionHosts
<1>8. b \in Ids /\ bookings[b] # None /\ bookings[b].key = SessionKey(svc, t)
  BY <1>4 DEF SessionsAt, RowsRight
<1>9. PICK f \in FillingsBy(svc, Resources, Everything) : bookings[b].crew = Range(f)
  BY <1>8 DEF CrewsFill
<1>. HIDE DEF present
<1>10. f \in FillingsBy(svc, present, Everything)
  <2>1. f \in [Units(svc) -> Resources] /\ Range(f) \subseteq present
    BY <1>7, <1>9 DEF FillingsBy, Injection
  <2>2. f \in [Units(svc) -> present]
    <3>1. \A u \in Units(svc) : f[u] \in present
      BY <2>1 DEF Range
    <3>. QED
      BY <2>1, <3>1
  <2>. QED
    BY <1>9, <2>2 DEF FillingsBy, Injection
<1>. QED
  BY <1>9, <1>10 DEF present

\* Who an accepted start is served by: those there are, or the resources of its session.
Served(svc, t, people, sizes) ==
    LET session == SessionOf(svc, t)
        crews(all) == {Range(f) : f \in FillingsBy(svc, Hosts(all), Everything)}
    IN  IF session = {} THEN people \in sizes
        ELSE \A b \in session : bookings[b].crew \in crews(Booked(session, bookings) + people)

\* The preview agrees with what can be booked, for every calendar: the largest group it names
\* is the largest the resources can host, who is blocked is so whatever employees choose, no
\* command starts an appointment that it rules out, and who joins a session is served by the
\* session's resources, large enough for all of it (service-feasibility.ts, slot-assessment.ts).
THEOREM PreviewAlwaysAgrees == Spec => []PreviewAgrees
<1>1. RowsRight(bookings) /\ PeopleRight(bookings) /\ SameCrew(bookings) /\ CrewsFill(bookings)
         => PreviewAgrees
  <2>. SUFFICES ASSUME RowsRight(bookings), PeopleRight(bookings), SameCrew(bookings),
                       CrewsFill(bookings), NEW svc \in Services
                PROVE  LET sizes == {people \in 1..Offer[svc].perBooking :
                                        Fillings(svc, Hosts(people)) # {}}
                       IN  /\ LargestGroup(svc, offers) = Max({0} \cup sizes)
                           /\ Readiness(svc, offers) = "ready" <=> sizes # {}
                           /\ Readiness(svc, offers) = "blocked"
                                 => ~IsFillable(svc, Everything, 1, FALSE)
                           /\ \A people \in 1..MaxGroup :
                                 \A t \in Accepted(Asked(svc, bookings), people) :
                                     Served(svc, t, people, sizes)
    BY Zenon DEF PreviewAgrees, Served
  <2>. DEFINE most == Offer[svc].perBooking
              sizes == {people \in 1..most : Fillings(svc, Hosts(people)) # {}}
              largest == LargestGroup(svc, offers)
              ready == Readiness(svc, offers)
  <2>1. most \in Nat \ {0} /\ MaxGroup \in Nat
    BY EngineConstants, CalendarConstants
  <2>2. \A p : p \in sizes <=> p \in 1..most /\ IsFillable(svc, offers, p, FALSE)
    <3>1. \A p \in 1..most : Fillings(svc, Hosts(p)) # {} <=> IsFillable(svc, offers, p, FALSE)
      <4>1. \A p \in 1..most : p \in Nat
        BY <2>1
      <4>2. \A p \in Nat : Fillings(svc, Hosts(p)) # {} <=> IsFillable(svc, offers, p, FALSE)
        BY FillingsAre
      <4>. QED
        BY <4>1, <4>2
    <3>. HIDE DEF most
    <3>. QED
      BY <3>1
  <2>3. \A p \in sizes : \A q \in 1..p : q \in sizes
    <3>. SUFFICES ASSUME NEW p \in sizes, NEW q \in 1..p PROVE q \in sizes
      OBVIOUS
    <3>1. p \in Nat /\ q \in Nat /\ q <= p /\ q \in 1..most
      BY <2>1
    <3>2. Fillings(svc, Hosts(q)) # {}
      BY <3>1, FewerAreHosted
    <3>. QED
      BY <3>1, <3>2
  <2>4. largest \in {0} \cup sizes /\ \A p \in sizes : p <= largest
    <3>. HIDE DEF sizes
    <3>. QED
      BY <2>2, <2>3, LargestExact
  <2>5. sizes \subseteq 1..most
    OBVIOUS
  <2>. HIDE DEF sizes, largest, most
  <2>6. largest = Max({0} \cup sizes)
    <3>. DEFINE S == {0} \cup sizes
    <3>1. S \in SUBSET (0..most) /\ S \in SUBSET Nat /\ S # {}
      BY <2>1, <2>5
    <3>2. IsFiniteSet(S)
      <4>1. IsFiniteSet(0..most)
        BY <2>1, FS_Interval
      <4>. HIDE DEF S
      <4>. QED
        BY <3>1, <4>1, FS_Subset
    <3>3. largest \in S /\ \A p \in S : p <= largest
      BY <2>1, <2>4, <2>5
    <3>. HIDE DEF S
    <3>4. Max(S) \in S /\ \A p \in S : Max(S) >= p
      BY <3>1, <3>2, Extremes
    <3>5. largest = Max(S)
      <4>1. largest \in Nat /\ Max(S) \in Nat
        BY <3>1, <3>3, <3>4
      <4>2. largest <= Max(S) /\ Max(S) <= largest
        BY <3>3, <3>4, <4>1
      <4>. QED
        BY <4>1, <4>2
    <3>. QED
      BY <3>5 DEF S
  <2>7. IsFillable(svc, offers, 1, FALSE) <=> sizes # {}
    <3>1. IsFillable(svc, offers, 1, FALSE) => 1 \in sizes
      <4>1. 1 \in 1..most
        BY <2>1
      <4>. QED
        BY <2>2, <4>1
    <3>2. ASSUME NEW p \in sizes PROVE IsFillable(svc, offers, 1, FALSE)
      <4>1. 1 \in 1..p
        BY <2>1, <2>5
      <4>. QED
        BY <2>2, <2>3, <4>1
    <3>. QED
      BY <3>1, <3>2
  <2>8. /\ ready = "ready" <=> IsFillable(svc, offers, 1, FALSE)
        /\ ready = "blocked" => ~IsFillable(svc, offers, 1, TRUE)
    BY DEF Readiness
  <2>9. ready = "blocked" => ~IsFillable(svc, Everything, 1, FALSE)
    <3>. HIDE DEF ready
    <3>. QED
      BY <2>8, BlockedForAll
  <2>10. ASSUME NEW people \in 1..MaxGroup, NEW t \in Accepted(Asked(svc, bookings), people)
         PROVE  Served(svc, t, people, sizes)
    <3>1. people \in Nat
      BY <2>1
    <3>2. SessionOf(svc, t) = {} => people \in 1..most /\ Fillings(svc, Hosts(people)) # {}
      BY <2>10, <3>1, AcceptedIsHosted DEF most
    <3>3. \A b \in SessionOf(svc, t) : bookings[b].crew \in
              {Range(f) : f \in FillingsBy(svc, Hosts(Booked(SessionOf(svc, t), bookings) + people),
                                           Everything)}
      BY <2>10, <3>1, JoinersAreServed
    <3>. QED
      BY <3>2, <3>3 DEF sizes, Served
  <2>11. sizes = {people \in 1..Offer[svc].perBooking : Fillings(svc, Hosts(people)) # {}}
    BY DEF sizes, most
  <2>. HIDE DEF ready
  <2>. QED
    BY <2>6, <2>7, <2>8, <2>9, <2>10, <2>11, Zenon DEF largest, ready
<1>. QED
  BY <1>1, BookingsStay, SessionsStay, CrewsStay, PTL
=============================================================================
