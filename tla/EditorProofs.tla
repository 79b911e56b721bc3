---------------------------- MODULE EditorProofs ----------------------------
(***************************************************************************)
(* Proofs about the builder: the operations on a page tree, and an editing *)
(* session, for every catalog, limit, page, number of edits, of revisions  *)
(* and of saves under way.                                                 *)
(***************************************************************************)
EXTENDS EditorProperties, SequenceTheorems, FiniteSetTheorems, TLAPS

-----------------------------------------------------------------------------
(* The least and the greatest of a set of numbers.                         *)

LEMMA LeastNumber ==
    ASSUME NEW S \in SUBSET Nat, S # {}
    PROVE  \E m \in S : \A k \in S : m <= k
<1>. DEFINE I == {0..k : k \in S}
            R == StrictSubsetOrdering(Nat)
            F == FiniteSubsetsOf(Nat)
<1>1. IsWellFoundedOn(R, F)
  BY FS_StrictSubsetOrderingWellFounded
<1>2. I \subseteq F
  <2>1. ASSUME NEW k \in S
        PROVE  0..k \in F
    <3>1. IsFiniteSet(0..k)
      BY FS_Interval
    <3>2. 0..k \in SUBSET Nat
      OBVIOUS
    <3>. QED
      BY <3>1, <3>2 DEF FiniteSubsetsOf
  <2>. QED
    BY <2>1
<1>3. I # {}
  OBVIOUS
<1>4. PICK x \in I : \A y \in I : ~(<<y, x>> \in R)
  <2>. HIDE DEF I, R, F
  <2>. QED
    BY <1>1, <1>2, <1>3, WFMin
<1>5. PICK m \in S : x = 0..m
  BY <1>4
<1>6. ASSUME NEW k \in S, k < m
      PROVE  FALSE
  <2>1. 0..k \in I
    OBVIOUS
  <2>2. (0..k) \subseteq (0..m) /\ 0..k # 0..m
    <3>1. m \in 0..m /\ m \notin 0..k
      BY <1>6
    <3>2. (0..k) \subseteq (0..m)
      BY <1>6
    <3>. QED
      BY <3>1, <3>2, Zenon
  <2>3. <<0..k, 0..m>> \in R
    BY <2>2 DEF StrictSubsetOrdering
  <2>. QED
    BY <1>4, <1>5, <2>1, <2>3
<1>. QED
  BY <1>6

LEMMA MinOf ==
    ASSUME NEW S \in SUBSET Nat, S # {}
    PROVE  Min(S) \in S /\ \A k \in S : Min(S) <= k
  BY LeastNumber DEF Min

LEMMA MaxOf ==
    ASSUME NEW n \in Nat, NEW S \in SUBSET (0..n), S # {}
    PROVE  Max(S) \in S /\ \A k \in S : k <= Max(S)
<1>. DEFINE R == {n - k : k \in S}
<1>1. R \in SUBSET Nat /\ R # {}
  <2>1. \A k \in S : n - k \in Nat
    OBVIOUS
  <2>. QED
    BY <2>1
<1>2. PICK m \in R : \A k \in R : m <= k
  BY <1>1, LeastNumber
<1>3. PICK x \in S : m = n - x
  BY <1>2
<1>4. \A k \in S : x >= k
  BY <1>2, <1>3
<1>. QED
  BY <1>4 DEF Max

-----------------------------------------------------------------------------
(* Trees: what is above what, and where a subtree ends.                    *)

\* p is the parent of the i-th node, without a choice: the last one that is less deep.
IsParent(tree, p, i) ==
    /\ p \in 1..i-1
    /\ tree[p].depth < tree[i].depth
    /\ \A j \in p+1..i-1 : tree[j].depth >= tree[i].depth

\* A component stands where the catalog allows it, or where a stored page already held one
\* like it under one like its parent.
Stands(parentType, type) ==
    CanNest(parentType, type) \/ <<parentType, type>> \in OldFaults

Nests(tree, i) ==
    /\ tree[i].depth = 0 => Stands(None, tree[i].type)
    /\ \A p \in DOMAIN tree : IsParent(tree, p, i) =>
         Stands(tree[p].type, tree[i].type)

Distinct(tree) == \A i, j \in DOMAIN tree : tree[i].id = tree[j].id => i = j

\* What every operation on a tree keeps.
Well(tree) ==
    /\ tree \in Trees
    /\ IsForest(tree)
    /\ Distinct(tree)
    /\ \A i \in DOMAIN tree : Nests(tree, i)

\* A node with what is under it, whatever its depth.
Branch(sub) ==
    /\ sub \in Trees /\ sub # <<>>
    /\ Distinct(sub)
    /\ \A k \in 2..Len(sub) : /\ sub[k].depth > sub[1].depth
                              /\ sub[k].depth <= sub[k-1].depth + 1
                              /\ \A p \in DOMAIN sub : IsParent(sub, p, k) =>
                                   Stands(sub[p].type, sub[k].type)

LEMMA TreeShape ==
    ASSUME NEW tree \in Trees
    PROVE  /\ Len(tree) \in Nat /\ DOMAIN tree = 1..Len(tree)
           /\ \A i \in 1..Len(tree) : /\ tree[i] \in Node /\ tree[i].id \in NodeId
                                      /\ tree[i].type \in Types \cup OldTypes /\ tree[i].depth \in Nat
<1>1. Len(tree) \in Nat /\ DOMAIN tree = 1..Len(tree)
  BY DEF Trees
<1>2. \A i \in 1..Len(tree) : tree[i] \in Node
  BY <1>1 DEF Trees
<1>3. \A node \in Node : node.id \in NodeId /\ node.type \in Types \cup OldTypes /\ node.depth \in Nat
  BY DEF Node
<1>. QED
  BY <1>1, <1>2, <1>3

LEMMA ForestSteps ==
    ASSUME NEW tree \in Trees
    PROVE  IsForest(tree) <=>
             /\ Len(tree) > 0 => tree[1].depth = 0
             /\ \A i \in 1..Len(tree) : i + 1 <= Len(tree) =>
                  tree[i+1].depth <= tree[i].depth + 1
<1>1. ASSUME IsForest(tree)
      PROVE  /\ Len(tree) > 0 => tree[1].depth = 0
             /\ \A i \in 1..Len(tree) : i + 1 <= Len(tree) =>
                  tree[i+1].depth <= tree[i].depth + 1
  <2>1. Len(tree) > 0 => tree[1].depth = 0
    <3>1. SUFFICES ASSUME Len(tree) > 0
                   PROVE  tree[1].depth = 0
      OBVIOUS
    <3>2. 1 \in DOMAIN tree
      BY <3>1, TreeShape
    <3>3. tree[1].depth <= IF 1 = 1 THEN 0 ELSE tree[1-1].depth + 1
      BY <1>1, <3>2, Zenon DEF IsForest
    <3>4. tree[1].depth \in Nat
      BY <3>1, TreeShape
    <3>. QED
      BY <3>3, <3>4
  <2>2. ASSUME NEW i \in 1..Len(tree), i + 1 <= Len(tree)
        PROVE  tree[i+1].depth <= tree[i].depth + 1
    <3>1. i + 1 \in DOMAIN tree /\ i + 1 # 1 /\ (i + 1) - 1 = i
      BY <2>2, TreeShape
    <3>. DEFINE k == i + 1
    <3>2. tree[k].depth <= IF k = 1 THEN 0 ELSE tree[k-1].depth + 1
      BY <1>1, <3>1 DEF IsForest
    <3>. QED
      BY <3>1, <3>2
  <2>. QED
    BY <2>1, <2>2
<1>2. ASSUME Len(tree) > 0 => tree[1].depth = 0,
             \A i \in 1..Len(tree) : i + 1 <= Len(tree) =>
                  tree[i+1].depth <= tree[i].depth + 1
      PROVE  IsForest(tree)
  <2>1. ASSUME NEW i \in 1..Len(tree)
        PROVE  tree[i].depth <= IF i = 1 THEN 0 ELSE tree[i-1].depth + 1
    <3>1. CASE i = 1
      BY <1>2, <3>1, TreeShape
    <3>2. CASE i # 1
      <4>1. i - 1 \in 1..Len(tree) /\ (i - 1) + 1 = i
        BY <3>2, TreeShape
      <4>. QED
        BY <1>2, <3>2, <4>1, TreeShape
    <3>. QED
      BY <3>1, <3>2
  <2>. QED
    BY <2>1, TreeShape DEF IsForest
<1>. QED
  BY <1>1, <1>2

LEMMA Indexed ==
    ASSUME NEW tree \in Trees, NEW id \in Ids(tree)
    PROVE  /\ IndexOf(tree, id) \in 1..Len(tree)
           /\ tree[IndexOf(tree, id)].id = id
           /\ id \in NodeId
  BY TreeShape DEF Ids, IndexOf

LEMMA OwnIndex ==
    ASSUME NEW tree \in Trees, Distinct(tree), NEW i \in 1..Len(tree)
    PROVE  tree[i].id \in Ids(tree) /\ IndexOf(tree, tree[i].id) = i
<1>1. tree[i].id \in Ids(tree)
  BY TreeShape DEF Ids
<1>. QED
  BY <1>1, Indexed, TreeShape DEF Distinct

LEMMA Parents ==
    ASSUME NEW tree \in Trees, NEW i \in 1..Len(tree)
    PROVE  \/ /\ Above(tree, i) = {} /\ ParentAt(tree, i) = None
              /\ \A p \in DOMAIN tree : ~IsParent(tree, p, i)
           \/ \E p \in 1..i-1 :
                /\ Above(tree, i) # {} /\ Max(Above(tree, i)) = p
                /\ IsParent(tree, p, i) /\ ParentAt(tree, i) = tree[p].id
                /\ \A q \in DOMAIN tree : IsParent(tree, q, i) => q = p
<1>1. CASE Above(tree, i) = {}
  <2>1. \A p \in DOMAIN tree : ~IsParent(tree, p, i)
    BY <1>1 DEF IsParent, Above
  <2>. QED
    BY <1>1, <2>1 DEF ParentAt
<1>2. CASE Above(tree, i) # {}
  <2>. DEFINE p == Max(Above(tree, i))
  <2>1. Above(tree, i) \in SUBSET (0..Len(tree))
    BY TreeShape DEF Above
  <2>2. p \in Above(tree, i) /\ \A k \in Above(tree, i) : k <= p
    BY <1>2, <2>1, MaxOf, TreeShape
  <2>. HIDE DEF p
  <2>3. IsParent(tree, p, i)
    BY SMTT(30), <2>2, TreeShape DEF IsParent, Above
  <2>4. \A q \in DOMAIN tree : IsParent(tree, q, i) => q = p
    BY SMTT(30), <2>3, TreeShape DEF IsParent
  <2>5. Max(Above(tree, i)) = p /\ ParentAt(tree, i) = tree[p].id
    BY <1>2 DEF p, ParentAt
  <2>6. p \in 1..i-1
    BY <2>3 DEF IsParent
  <2>. QED
    BY <1>2, <2>3, <2>4, <2>5, <2>6
<1>. QED
  BY <1>1, <1>2

LEMMA RootDepth ==
    ASSUME NEW tree \in Trees, IsForest(tree), NEW i \in 1..Len(tree)
    PROVE  tree[i].depth = 0 <=> Above(tree, i) = {}
<1>1. tree[i].depth = 0 => Above(tree, i) = {}
  BY TreeShape DEF Above
<1>2. tree[i].depth # 0 => 1 \in Above(tree, i)
  BY TreeShape, ForestSteps DEF Above
<1>. QED
  BY <1>1, <1>2

LEMMA ParentDepth ==
    ASSUME NEW tree \in Trees, IsForest(tree), NEW i \in 1..Len(tree), NEW p,
           IsParent(tree, p, i)
    PROVE  tree[i].depth = tree[p].depth + 1
<1>1. p \in 1..i-1 /\ tree[p].depth < tree[i].depth
  BY DEF IsParent
<1>2. tree[p+1].depth <= tree[p].depth + 1
  BY <1>1, ForestSteps, TreeShape
<1>3. p + 1 = i \/ tree[p+1].depth >= tree[i].depth
  BY <1>1 DEF IsParent
<1>. QED
  BY <1>1, <1>2, <1>3, TreeShape

\* The last node under the i-th, or the i-th itself.
LEMMA SubtreeEnd ==
    ASSUME NEW tree \in Trees, NEW i \in 1..Len(tree)
    PROVE  /\ EndOf(tree, i) \in i..Len(tree)
           /\ \A k \in i+1..EndOf(tree, i) : tree[k].depth > tree[i].depth
           /\ EndOf(tree, i) + 1 <= Len(tree) =>
                tree[EndOf(tree, i) + 1].depth <= tree[i].depth
<1>. DEFINE S == {j \in i..Len(tree) : \A k \in i+1..j : tree[k].depth > tree[i].depth}
<1>1. S \in SUBSET (0..Len(tree)) /\ i \in S
  BY TreeShape
<1>2. Max(S) \in S /\ \A k \in S : k <= Max(S)
  <2>. HIDE DEF S
  <2>. QED
    BY <1>1, MaxOf, TreeShape
<1>3. EndOf(tree, i) = Max(S)
  BY DEF EndOf
<1>. DEFINE e == EndOf(tree, i)
<1>4. e \in i..Len(tree) /\ \A k \in i+1..e : tree[k].depth > tree[i].depth
  <2>. HIDE DEF e
  <2>1. e \in S
    BY <1>2, <1>3 DEF e
  <2>. QED
    BY <2>1
<1>5. ASSUME e + 1 <= Len(tree), tree[e + 1].depth > tree[i].depth
      PROVE  FALSE
  <2>. HIDE DEF e
  <2>1. \A k \in i+1..e+1 : tree[k].depth > tree[i].depth
    <3>1. \A k \in i+1..e+1 : k \in i+1..e \/ k = e + 1
      BY <1>4, TreeShape
    <3>. QED
      BY <1>4, <1>5, <3>1
  <2>2. e + 1 \in S
    BY <1>4, <1>5, <2>1, TreeShape
  <2>3. e + 1 <= e
    BY <1>2, <1>3, <2>2 DEF e
  <2>. QED
    BY <1>4, <2>3, TreeShape
<1>. HIDE DEF e
<1>6. e + 1 <= Len(tree) => tree[e + 1].depth <= tree[i].depth
  BY <1>4, <1>5, TreeShape
<1>. QED
  BY <1>4, <1>6 DEF e

LEMMA SubtreeShape ==
    ASSUME NEW tree \in Trees, NEW i \in 1..Len(tree)
    PROVE  LET sub == SubtreeAt(tree, i)
               e   == EndOf(tree, i)
           IN  /\ sub \in Trees /\ Len(sub) = e - i + 1 /\ sub # <<>>
               /\ \A k \in 1..e-i+1 : sub[k] = tree[i + k - 1]
<1>. DEFINE e == EndOf(tree, i)
<1>1. e \in i..Len(tree)
  BY SubtreeEnd
<1>. HIDE DEF e
<1>2. \A k \in i..e : tree[k] \in Node
  BY <1>1, TreeShape
<1>3. /\ SubSeq(tree, i, e) \in Trees
      /\ Len(SubSeq(tree, i, e)) = e - i + 1
      /\ \A k \in 1..e-i+1 : SubSeq(tree, i, e)[k] = tree[i + k - 1]
  BY <1>1, <1>2, SubSeqProperties, TreeShape DEF Trees
<1>4. \A s : Len(s) = e - i + 1 => s # <<>>
  BY <1>1, TreeShape
<1>. QED
  BY <1>3, <1>4, Zenon DEF SubtreeAt, e

LEMMA SubtreeIsBranch ==
    ASSUME NEW tree \in Trees, Well(tree), NEW i \in 1..Len(tree)
    PROVE  Branch(SubtreeAt(tree, i))
<1>. DEFINE sub == SubtreeAt(tree, i)
            e   == EndOf(tree, i)
<1>1. /\ sub \in Trees /\ Len(sub) = e - i + 1 /\ sub # <<>>
      /\ \A k \in 1..e-i+1 : sub[k] = tree[i + k - 1]
  BY SubtreeShape
<1>2. e \in i..Len(tree) /\ \A k \in i+1..e : tree[k].depth > tree[i].depth
  BY SubtreeEnd
<1>. HIDE DEF sub, e
<1>3. DOMAIN sub = 1..e-i+1
  BY <1>1, TreeShape
<1>4. Distinct(sub)
  <2>1. ASSUME NEW k \in 1..e-i+1, NEW l \in 1..e-i+1, sub[k].id = sub[l].id
        PROVE  k = l
    <3>1. i + k - 1 \in 1..Len(tree) /\ i + l - 1 \in 1..Len(tree)
      BY <1>2, TreeShape
    <3>2. tree[i + k - 1].id = tree[i + l - 1].id
      BY <1>1, <2>1
    <3>3. i + k - 1 = i + l - 1
      BY <3>1, <3>2, TreeShape DEF Well, Distinct
    <3>. QED
      BY <3>3
  <2>. QED
    BY <1>3, <2>1 DEF Distinct
<1>5. ASSUME NEW k \in 2..Len(sub)
      PROVE  /\ sub[k].depth > sub[1].depth
             /\ sub[k].depth <= sub[k-1].depth + 1
             /\ \A p \in DOMAIN sub : IsParent(sub, p, k) =>
                  Stands(sub[p].type, sub[k].type)
  <2>. DEFINE m == i + k - 1
  <2>1. m \in i+1..e /\ m \in 1..Len(tree) /\ m - 1 \in 1..Len(tree)
    BY <1>1, <1>2, TreeShape
  <2>2. sub[k] = tree[m] /\ sub[1] = tree[i] /\ sub[k-1] = tree[m-1]
    <3>1. k \in 1..e-i+1 /\ k - 1 \in 1..e-i+1 /\ 1 \in 1..e-i+1
      BY <1>1, <1>2
    <3>2. i + (k - 1) - 1 = m - 1 /\ i + 1 - 1 = i
      BY <1>1, <1>2
    <3>. QED
      BY <1>1, <3>1, <3>2
  <2>3. tree[m].depth <= tree[m-1].depth + 1
    <3>1. (m - 1) + 1 = m
      OBVIOUS
    <3>. QED
      BY <2>1, <3>1, ForestSteps, TreeShape DEF Well
  <2>4. ASSUME NEW p \in DOMAIN sub, IsParent(sub, p, k)
        PROVE  Stands(sub[p].type, sub[k].type)
    <3>. DEFINE q == i + p - 1
    <3>1. q \in 1..Len(tree) /\ sub[p] = tree[q]
      BY <1>1, <1>2, <1>3, TreeShape
    <3>2. IsParent(tree, q, m)
      <4>1. q \in 1..m-1 /\ tree[q].depth < tree[m].depth
        BY <2>2, <2>4, <3>1, TreeShape DEF IsParent
      <4>2. ASSUME NEW j \in q+1..m-1
            PROVE  tree[j].depth >= tree[m].depth
        <5>1. j - i + 1 \in p+1..k-1 /\ j - i + 1 \in 1..e-i+1 /\ i + (j - i + 1) - 1 = j
          BY SMTT(30), <1>2, <1>3, <2>1, <3>1, TreeShape
        <5>2. sub[j - i + 1].depth >= sub[k].depth
          BY <2>4, <5>1 DEF IsParent
        <5>. QED
          BY <1>1, <2>2, <5>1, <5>2
      <4>. QED
        BY <4>1, <4>2 DEF IsParent
    <3>. QED
      BY <2>1, <2>2, <3>1, <3>2, TreeShape DEF Well, Nests
  <2>. QED
    BY <1>2, <2>1, <2>2, <2>3, <2>4
<1>. QED
  BY <1>1, <1>4, <1>5 DEF Branch, sub

-----------------------------------------------------------------------------
(* Siblings, and the place an index stands for.                            *)

LEMMA ChildrenFinite ==
    ASSUME NEW tree \in Trees, NEW parent
    PROVE  /\ ChildrenOf(tree, parent) \in SUBSET (1..Len(tree))
           /\ IsFiniteSet(ChildrenOf(tree, parent))
           /\ Cardinality(ChildrenOf(tree, parent)) \in Nat
<1>1. ChildrenOf(tree, parent) \in SUBSET (1..Len(tree))
  BY TreeShape DEF ChildrenOf
<1>2. IsFiniteSet(1..Len(tree))
  BY FS_Interval, TreeShape
<1>. QED
  BY <1>1, <1>2, FS_Subset, FS_CardinalityType

LEMMA SiblingRank ==
    ASSUME NEW tree \in Trees, NEW parent, NEW i \in ChildrenOf(tree, parent)
    PROVE  SiblingIndex(tree, i) = Cardinality({k \in ChildrenOf(tree, parent) : k < i})
<1>1. i \in 1..Len(tree) /\ ParentAt(tree, i) = parent
  BY TreeShape DEF ChildrenOf
<1>2. {j \in 1..i-1 : ParentAt(tree, j) = ParentAt(tree, i)}
        = {k \in ChildrenOf(tree, parent) : k < i}
  BY <1>1, TreeShape DEF ChildrenOf
<1>. QED
  BY <1>2, Zenon DEF SiblingIndex

LEMMA SiblingNumber ==
    ASSUME NEW tree \in Trees, NEW i \in 1..Len(tree)
    PROVE  SiblingIndex(tree, i) \in Nat
<1>1. {j \in 1..i-1 : ParentAt(tree, j) = ParentAt(tree, i)} \in SUBSET (1..i-1)
  OBVIOUS
<1>2. IsFiniteSet(1..i-1)
  BY FS_Interval, TreeShape
<1>. QED
  BY <1>1, <1>2, FS_Subset, FS_CardinalityType, Zenon DEF SiblingIndex

\* The indexes of the children of a parent are those below their number.
LEMMA ChildAt ==
    ASSUME NEW tree \in Trees, NEW parent, NEW n \in Nat,
           n < Cardinality(ChildrenOf(tree, parent))
    PROVE  \E i \in ChildrenOf(tree, parent) : SiblingIndex(tree, i) = n
<1>. DEFINE C == ChildrenOf(tree, parent)
            Before(i) == {k \in C : k < i}
            B == {i \in C : Cardinality(Before(i)) >= n}
<1>1. C \in SUBSET (0..Len(tree)) /\ IsFiniteSet(C) /\ Cardinality(C) \in Nat
  BY ChildrenFinite, TreeShape
<1>2. \A i \in C : SiblingIndex(tree, i) = Cardinality(Before(i))
  BY SiblingRank
<1>3. n < Cardinality(C)
  OBVIOUS
<1>. HIDE DEF C
<1>4. \A i : IsFiniteSet(Before(i)) /\ Cardinality(Before(i)) \in Nat
  BY <1>1, FS_Subset, FS_CardinalityType
<1>5. B # {}
  <2>1. C # {}
    BY <1>1, <1>3, FS_EmptySet
  <2>. DEFINE m == Max(C)
  <2>2. m \in C /\ \A k \in C : k <= m
    BY <1>1, <2>1, MaxOf, TreeShape
  <2>. HIDE DEF m
  <2>3. Before(m) = C \ {m}
    <3>1. \A k \in C : k < m <=> k # m
      BY <1>1, <2>2, TreeShape
    <3>. QED
      BY <3>1
  <2>4. Cardinality(Before(m)) = Cardinality(C \ {m})
    BY <2>3, Zenon
  <2>5. Cardinality(C \ {m}) = Cardinality(C) - 1
    BY <1>1, <2>2, FS_RemoveElement
  <2>6. m \in B
    BY <1>1, <1>3, <2>2, <2>4, <2>5
  <2>. QED
    BY <2>6
<1>6. B \in SUBSET Nat
  <2>1. C \in SUBSET Nat
    BY <1>1, TreeShape
  <2>2. B \in SUBSET C
    BY Zenon
  <2>. QED
    BY <2>1, <2>2, Zenon
<1>7. PICK i \in B : \A k \in B : i <= k
  <2>. HIDE DEF B
  <2>. QED
    BY <1>5, <1>6, LeastNumber
<1>8. CASE Cardinality(Before(i)) > n
  <2>1. Before(i) # {} /\ Before(i) \in SUBSET (0..Len(tree))
    <3>1. Before(i) # {}
      <4>1. Cardinality(Before(i)) # 0
        BY <1>4, <1>8
      <4>. QED
        BY <4>1, FS_EmptySet
    <3>. QED
      BY <1>1, <3>1
  <2>. DEFINE p == Max(Before(i))
  <2>2. p \in Before(i) /\ \A k \in Before(i) : k <= p
    <3>. HIDE DEF Before
    <3>. QED
      BY <2>1, MaxOf, TreeShape
  <2>. HIDE DEF p
  <2>3. p \in C /\ p < i /\ i \in C
    BY <2>2
  <2>4. Before(p) = Before(i) \ {p}
    <3>1. \A k \in C : k < p <=> (k < i /\ k # p)
      BY <1>1, <2>2, <2>3, TreeShape
    <3>. QED
      BY <3>1
  <2>5. Cardinality(Before(p)) = Cardinality(Before(i) \ {p})
    BY <2>4, Zenon
  <2>6. Cardinality(Before(i) \ {p}) = Cardinality(Before(i)) - 1
    <3>. HIDE DEF Before
    <3>. QED
      BY <1>4, <2>2, FS_RemoveElement
  <2>7. p \in B
    <3>. HIDE DEF Before
    <3>. QED
      BY <1>4, <1>8, <2>3, <2>5, <2>6
  <2>. QED
    BY <1>1, <1>7, <2>3, <2>7
<1>9. CASE Cardinality(Before(i)) = n
  BY <1>2, <1>9 DEF C
<1>10. i \in C /\ Cardinality(Before(i)) >= n
  OBVIOUS
<1>. QED
  BY <1>4, <1>8, <1>9, <1>10

\* What is put there at depth d after the at-th node comes to be under `parent`, and takes
\* nobody's children.
FitsAt(tree, at, d, parent) ==
    /\ at \in 0..Len(tree) /\ d \in Nat
    /\ at = 0 => d = 0
    /\ at > 0 => d <= tree[at].depth + 1
    /\ at + 1 <= Len(tree) => tree[at + 1].depth <= d
    /\ parent = None => d = 0
    /\ parent # None =>
         LET p == IndexOf(tree, parent)
         IN  /\ p \in 1..at
             /\ tree[p].depth + 1 = d
             /\ \A j \in p+1..at : tree[j].depth >= d

LEMMA PlaceFits ==
    ASSUME NEW tree \in Trees, Well(tree), NEW parent, Exists(tree, parent),
           NEW index \in Nat
    PROVE  FitsAt(tree, PlaceFor(tree, parent, index), DepthUnder(tree, parent), parent)
<1>. DEFINE at == PlaceFor(tree, parent, index)
            d  == DepthUnder(tree, parent)
            P  == IndexOf(tree, parent)
<1>1. /\ parent = None => d = 0
      /\ parent # None => /\ P \in 1..Len(tree) /\ tree[P].id = parent
                          /\ d = tree[P].depth + 1
  BY Indexed DEF DepthUnder, Exists
<1>2. d \in Nat
  BY <1>1, TreeShape
<1>3. IsForest(tree) /\ Distinct(tree)
  BY DEF Well
<1>. HIDE DEF d, P
<1>4. CASE index < Cardinality(ChildrenOf(tree, parent))
  <2>. DEFINE c == CHOOSE i \in ChildrenOf(tree, parent) : SiblingIndex(tree, i) = index
  <2>1. c \in ChildrenOf(tree, parent)
    BY <1>4, ChildAt
  <2>2. at = c - 1
    BY <1>4 DEF PlaceFor
  <2>. HIDE DEF c, at
  <2>3. c \in 1..Len(tree) /\ ParentAt(tree, c) = parent
    BY <2>1, TreeShape DEF ChildrenOf
  <2>4. at \in 0..Len(tree) /\ at + 1 = c
    BY <2>2, <2>3, TreeShape
  <2>5. CASE parent = None
    <3>1. \A k \in 1..Len(tree) : tree[k].id # None
      BY TreeShape, NoneApart
    <3>2. Above(tree, c) = {}
      BY <2>3, <2>5, <3>1, Parents
    <3>3. tree[c].depth = 0
      BY <1>3, <2>3, <3>2, RootDepth
    <3>4. d = 0 /\ (at > 0 => at \in 1..Len(tree))
      BY <1>1, <2>4, <2>5
    <3>5. FitsAt(tree, at, d, parent)
      BY <2>4, <2>5, <3>3, <3>4, TreeShape DEF FitsAt
    <3>. QED
      BY <3>5 DEF at, d
  <2>6. CASE parent # None
    <3>1. PICK p \in 1..c-1 : IsParent(tree, p, c) /\ tree[p].id = parent
      BY <2>3, <2>6, Parents
    <3>2. p = P
      BY <1>1, <1>3, <2>3, <2>6, <3>1, TreeShape DEF Distinct
    <3>3. tree[c].depth = tree[p].depth + 1
      BY <1>3, <2>3, <3>1, ParentDepth
    <3>4. d = tree[c].depth /\ at \in 1..Len(tree)
      BY <1>1, <2>3, <2>4, <2>6, <3>2, <3>3
    <3>5. d <= tree[at].depth + 1
      BY <1>3, <2>3, <2>4, <3>4, ForestSteps
    <3>6. P \in 1..at /\ \A j \in P+1..at : tree[j].depth >= d
      BY <2>4, <3>1, <3>2, <3>4 DEF IsParent
    <3>7. tree[P].depth + 1 = d
      BY <3>2, <3>3, <3>4
    <3>8. at + 1 <= Len(tree) => tree[at + 1].depth <= d
      BY <2>3, <2>4, <3>4, TreeShape
    <3>9. FitsAt(tree, at, d, parent)
      BY <1>2, <2>4, <2>6, <3>4, <3>5, <3>6, <3>7, <3>8 DEF FitsAt, P
    <3>. QED
      BY <3>9 DEF at, d
  <2>. QED
    BY <2>5, <2>6
<1>5. CASE ~(index < Cardinality(ChildrenOf(tree, parent))) /\ parent = None
  <2>1. at = Len(tree)
    BY <1>5 DEF PlaceFor
  <2>. HIDE DEF at
  <2>2. FitsAt(tree, at, d, parent)
    BY <1>1, <1>5, <2>1, TreeShape DEF FitsAt
  <2>. QED
    BY <2>2 DEF at, d
<1>6. CASE ~(index < Cardinality(ChildrenOf(tree, parent))) /\ parent # None
  <2>1. at = EndOf(tree, P)
    BY <1>6 DEF PlaceFor, P
  <2>. HIDE DEF at
  <2>2. /\ P \in 1..Len(tree) /\ d = tree[P].depth + 1
        /\ at \in P..Len(tree)
        /\ \A k \in P+1..at : tree[k].depth > tree[P].depth
        /\ at + 1 <= Len(tree) => tree[at + 1].depth <= tree[P].depth
    BY <1>1, <1>6, <2>1, SubtreeEnd
  <2>3. P \in 1..at /\ \A j \in P+1..at : tree[j].depth >= d
    BY <2>2, TreeShape
  <2>4. at > 0 /\ d <= tree[at].depth + 1
    BY SMTT(30), <2>2, <2>3, TreeShape
  <2>5. at \in 0..Len(tree) /\ (at + 1 <= Len(tree) => tree[at + 1].depth <= d)
    BY <2>2, TreeShape
  <2>6. FitsAt(tree, at, d, parent)
    BY <1>2, <1>6, <2>2, <2>3, <2>4, <2>5 DEF FitsAt, P
  <2>. QED
    BY <2>6 DEF at, d
<1>. QED
  BY <1>4, <1>5, <1>6

-----------------------------------------------------------------------------
(* Putting a branch in, and taking one out.                                *)

LEMMA SpliceShape ==
    ASSUME NEW tree \in Trees, NEW sub \in Trees, NEW at \in 0..Len(tree)
    PROVE  LET r == Spliced(tree, sub, at)
           IN  /\ r \in Trees /\ Len(r) = Len(tree) + Len(sub)
               /\ \A k \in 1..at : r[k] = tree[k]
               /\ \A k \in 1..Len(sub) : r[at + k] = sub[k]
               /\ \A k \in at+1..Len(tree) : r[Len(sub) + k] = tree[k]
<1>. DEFINE front == SubSeq(tree, 1, at)
            back  == SubSeq(tree, at + 1, Len(tree))
            some  == front \o sub
            r     == Spliced(tree, sub, at)
<1>1. Len(tree) \in Nat /\ Len(sub) \in Nat /\ \A k \in 1..Len(tree) : tree[k] \in Node
  BY TreeShape
<1>2. /\ front \in Seq(Node) /\ Len(front) = at
      /\ \A k \in 1..at : front[k] = tree[k]
  <2>1. \A k \in 1..at : tree[k] \in Node
    BY <1>1
  <2>2. /\ front \in Seq(Node) /\ Len(front) = IF 1 <= at THEN at - 1 + 1 ELSE 0
        /\ \A k \in 1..at-1+1 : front[k] = tree[1 + k - 1]
    BY <1>1, <2>1, SubSeqProperties
  <2>. QED
    BY <1>1, <2>2
<1>3. /\ back \in Seq(Node) /\ Len(back) = Len(tree) - at
      /\ \A k \in at+1..Len(tree) : back[k - at] = tree[k]
  <2>1. \A k \in at+1..Len(tree) : tree[k] \in Node
    BY <1>1
  <2>2. /\ back \in Seq(Node)
        /\ Len(back) = IF at + 1 <= Len(tree) THEN Len(tree) - (at + 1) + 1 ELSE 0
        /\ \A k \in 1..Len(tree)-(at+1)+1 : back[k] = tree[(at + 1) + k - 1]
    BY <1>1, <2>1, SubSeqProperties
  <2>3. ASSUME NEW k \in at+1..Len(tree)
        PROVE  back[k - at] = tree[k]
    <3>1. k - at \in 1..Len(tree)-(at+1)+1 /\ (at + 1) + (k - at) - 1 = k
      BY <1>1
    <3>. QED
      BY <2>2, <3>1
  <2>. QED
    BY <1>1, <2>2, <2>3
<1>. HIDE DEF front, back
<1>4. /\ some \in Seq(Node) /\ Len(some) = at + Len(sub)
      /\ \A k \in 1..at + Len(sub) :
           some[k] = IF k <= at THEN front[k] ELSE sub[k - at]
  BY <1>1, <1>2, ConcatProperties DEF Trees
<1>. HIDE DEF some
<1>5. /\ some \o back \in Seq(Node) /\ Len(some \o back) = Len(tree) + Len(sub)
      /\ \A k \in 1..Len(tree) + Len(sub) :
           (some \o back)[k] = IF k <= at + Len(sub) THEN some[k]
                                                     ELSE back[k - (at + Len(sub))]
  <2>1. /\ some \o back \in Seq(Node) /\ Len(some \o back) = Len(some) + Len(back)
        /\ \A k \in 1..Len(some) + Len(back) :
             (some \o back)[k] = IF k <= Len(some) THEN some[k] ELSE back[k - Len(some)]
    BY <1>3, <1>4, ConcatProperties
  <2>2. Len(some) + Len(back) = Len(tree) + Len(sub)
    BY <1>1, <1>3, <1>4
  <2>. QED
    BY <1>4, <2>1, <2>2
<1>6. r = some \o back
  BY DEF Spliced, some, front, back
<1>. HIDE DEF r
<1>7. r \in Trees /\ Len(r) = Len(tree) + Len(sub)
  BY <1>5, <1>6 DEF Trees
<1>8. ASSUME NEW k \in 1..at
      PROVE  r[k] = tree[k]
  BY <1>1, <1>2, <1>4, <1>5, <1>6
<1>9. ASSUME NEW k \in 1..Len(sub)
      PROVE  r[at + k] = sub[k]
  <2>1. at + k \in 1..Len(tree) + Len(sub) /\ at + k <= at + Len(sub)
        /\ at + k \in 1..at + Len(sub) /\ ~(at + k <= at) /\ (at + k) - at = k
    BY <1>1
  <2>. QED
    BY <1>4, <1>5, <1>6, <2>1
<1>10. ASSUME NEW k \in at+1..Len(tree)
       PROVE  r[Len(sub) + k] = tree[k]
  <2>1. Len(sub) + k \in 1..Len(tree) + Len(sub) /\ ~(Len(sub) + k <= at + Len(sub))
        /\ (Len(sub) + k) - (at + Len(sub)) = k - at
    BY <1>1
  <2>. QED
    BY <1>3, <1>5, <1>6, <2>1
<1>. QED
  BY <1>7, <1>8, <1>9, <1>10 DEF r

\* Where a place of the result comes from.
LEMMA SplicePlaces ==
    ASSUME NEW n \in Nat, NEW m \in Nat, NEW at \in 0..n, NEW k \in 1..n+m
    PROVE  \/ k \in 1..at
           \/ k - at \in 1..m /\ at + (k - at) = k
           \/ k - m \in at+1..n /\ m + (k - m) = k
  OBVIOUS

\* A branch put where it fits leaves a forest that is nested as the catalog allows.
LEMMA SpliceWell ==
    ASSUME NEW tree \in Trees, Well(tree), NEW sub \in Trees, Branch(sub),
           NEW at, NEW parent, Exists(tree, parent), FitsAt(tree, at, sub[1].depth, parent),
           Stands(TypeOfParent(tree, parent), sub[1].type),
           Ids(tree) \cap Ids(sub) = {}
    PROVE  Well(Spliced(tree, sub, at))
<1>. DEFINE r == Spliced(tree, sub, at)
            n == Len(tree)
            m == Len(sub)
            d == sub[1].depth
<1>1. /\ n \in Nat /\ m \in Nat \ {0} /\ at \in 0..n /\ d \in Nat
      /\ DOMAIN tree = 1..n /\ DOMAIN sub = 1..m
  BY TreeShape, EmptySeq DEF FitsAt, Branch, Trees
<1>2. /\ r \in Trees /\ Len(r) = n + m /\ DOMAIN r = 1..n+m
      /\ \A k \in 1..at : r[k] = tree[k]
      /\ \A k \in 1..m : r[at + k] = sub[k]
      /\ \A k \in at+1..n : r[m + k] = tree[k]
  <2>1. /\ r \in Trees /\ Len(r) = n + m
        /\ \A k \in 1..at : r[k] = tree[k]
        /\ \A k \in 1..m : r[at + k] = sub[k]
        /\ \A k \in at+1..n : r[m + k] = tree[k]
    BY <1>1, SpliceShape
  <2>. HIDE DEF r
  <2>2. DOMAIN r = 1..n+m
    BY <2>1, TreeShape
  <2>. QED
    BY <2>1, <2>2
<1>3. \A k \in 1..n+m : r[k].depth \in Nat /\ r[k].id \in NodeId
  BY <1>2, TreeShape
<1>4. /\ \A k \in 1..n : tree[k].depth \in Nat
      /\ \A k \in 1..m : sub[k].depth \in Nat
  BY TreeShape
<1>5. /\ at = 0 => d = 0
      /\ at > 0 => d <= tree[at].depth + 1
      /\ at + 1 <= n => tree[at + 1].depth <= d
  BY DEF FitsAt
<1>6. \A k \in 2..m : /\ sub[k].depth > d
                      /\ sub[k].depth <= sub[k-1].depth + 1
                      /\ \A p \in DOMAIN sub : IsParent(sub, p, k) =>
                           Stands(sub[p].type, sub[k].type)
  BY DEF Branch
<1>7. r[at + 1] = sub[1] /\ r[at + 1].depth = d
  <2>1. 1 \in 1..m
    BY <1>1
  <2>. QED
    BY <1>2, <2>1
<1>8. IsForest(tree) /\ Distinct(tree) /\ \A i \in 1..n : Nests(tree, i)
  BY <1>1 DEF Well
<1>. HIDE DEF r, d, n, m
<1>9. IsForest(r)
  <2>1. r[1].depth = 0
    <3>1. CASE at = 0
      BY <1>5, <1>7, <3>1
    <3>2. CASE at > 0
      <4>1. tree[1].depth = 0
        BY <1>1, <1>8, <3>2, ForestSteps DEF n
      <4>. QED
        BY <1>1, <1>2, <3>2, <4>1
    <3>. QED
      BY <1>1, <3>1, <3>2
  <2>2. ASSUME NEW i \in 1..n+m, i + 1 <= n + m
        PROVE  r[i+1].depth <= r[i].depth + 1
    <3>1. CASE i + 1 <= at
      <4>1. tree[i+1].depth <= tree[i].depth + 1
        BY <1>1, <1>8, <3>1, ForestSteps DEF n
      <4>. QED
        BY <1>1, <1>2, <3>1, <4>1
    <3>2. CASE i = at
      BY <1>1, <1>2, <1>5, <1>7, <3>2
    <3>3. CASE i > at /\ i + 1 <= at + m
      <4>1. i - at \in 1..m /\ i + 1 - at \in 2..m /\ (i + 1 - at) - 1 = i - at
            /\ i + 1 - at \in 1..m /\ at + (i - at) = i /\ at + (i + 1 - at) = i + 1
        BY <1>1, <3>3
      <4>. QED
        BY <1>2, <1>6, <4>1
    <3>4. CASE i = at + m
      <4>1. tree[at + 1].depth <= d /\ at + 1 \in at+1..n /\ m + (at + 1) = i + 1
        BY <1>1, <1>5, <2>2, <3>4
      <4>2. m \in 1..m /\ sub[m].depth >= d
        BY <1>1, <1>4, <1>6 DEF d
      <4>3. r[i] = sub[m] /\ r[i + 1] = tree[at + 1]
        BY <1>2, <3>4, <4>1, <4>2
      <4>4. tree[at + 1].depth \in Nat /\ sub[m].depth \in Nat
        BY <1>1, <1>4, <4>1, <4>2
      <4>. QED
        BY <1>1, <4>1, <4>2, <4>3, <4>4
    <3>5. CASE i > at + m
      <4>1. i - m \in at+1..n /\ i + 1 - m \in at+1..n /\ m + (i - m) = i
            /\ m + (i + 1 - m) = i + 1 /\ (i - m) + 1 = i + 1 - m
            /\ i - m \in 1..n /\ (i - m) + 1 <= n
        BY <1>1, <2>2, <3>5
      <4>2. tree[(i - m) + 1].depth <= tree[i - m].depth + 1
        BY <1>8, <4>1, ForestSteps DEF n
      <4>. QED
        BY <1>2, <4>1, <4>2
    <3>. QED
      BY <1>1, <3>1, <3>2, <3>3, <3>4, <3>5
  <2>. QED
    BY <1>2, <2>1, <2>2, ForestSteps
<1>10. Distinct(r)
  <2>1. ASSUME NEW i \in 1..n+m, NEW j \in 1..n+m, r[i].id = r[j].id, i <= j
        PROVE  i = j
    <3>1. \A k \in 1..n : tree[k].id \in Ids(tree)
      BY <1>1 DEF Ids
    <3>2. \A k \in 1..m : sub[k].id \in Ids(sub)
      BY <1>1 DEF Ids
    <3>3. \A k \in 1..n, l \in 1..m : tree[k].id # sub[l].id
      BY <3>1, <3>2
    <3>4. \A k, l \in 1..m : sub[k].id = sub[l].id => k = l
      BY <1>1 DEF Branch, Distinct
    <3>5. \A k, l \in 1..n : tree[k].id = tree[l].id => k = l
      BY <1>1, <1>8 DEF Distinct
    <3>. DEFINE FromTree(x, k) == /\ k \in 1..n /\ r[x] = tree[k]
                                  /\ x = IF k <= at THEN k ELSE m + k
                FromSub(x, k)  == k \in 1..m /\ r[x] = sub[k] /\ x = at + k
    <3>6. ASSUME NEW x \in 1..n+m
          PROVE  \E k : FromTree(x, k) \/ FromSub(x, k)
      <4>1. CASE x \in 1..at
        <5>1. x \in 1..n /\ x <= at /\ r[x] = tree[x]
          BY <1>1, <1>2, <4>1
        <5>. QED
          BY <5>1
      <4>2. CASE x - at \in 1..m /\ at + (x - at) = x
        BY <1>1, <1>2, <4>2
      <4>3. CASE x - m \in at+1..n /\ m + (x - m) = x
        <5>1. FromTree(x, x - m)
          BY <1>1, <1>2, <4>3
        <5>. QED
          BY <5>1
      <4>. QED
        BY <1>1, <4>1, <4>2, <4>3, SplicePlaces
    <3>7. PICK k : FromTree(i, k) \/ FromSub(i, k)
      BY <3>6
    <3>8. PICK l : FromTree(j, l) \/ FromSub(j, l)
      BY <3>6
    <3>9. \/ FromTree(i, k) /\ FromTree(j, l) /\ k = l
          \/ FromSub(i, k) /\ FromSub(j, l) /\ k = l
      <4>1. \A x, y, z : ~(FromTree(x, y) /\ FromSub(x, z))
        BY <3>3
      <4>. QED
        BY <2>1, <3>3, <3>4, <3>5, <3>7, <3>8
    <3>. QED
      BY <1>1, <3>9
  <2>. QED
    BY <1>1, <1>2, <2>1 DEF Distinct
<1>11. ASSUME NEW i \in 1..n+m
       PROVE  Nests(r, i)
  <2>1. CASE i \in 1..at
    <3>1. i \in 1..n /\ r[i] = tree[i]
      BY <1>1, <1>2, <2>1
    <3>2. ASSUME NEW p \in 1..n+m, IsParent(r, p, i)
          PROVE  IsParent(tree, p, i) /\ r[p] = tree[p] /\ p \in 1..n
      <4>1. p \in 1..i-1 /\ \A j \in p..i-1 : r[j] = tree[j]
        BY <1>1, <1>2, <2>1, <3>2 DEF IsParent
      <4>. QED
        BY <1>1, <2>1, <3>1, <3>2, <4>1 DEF IsParent
    <3>. QED
      BY <1>1, <1>2, <1>8, <3>1, <3>2 DEF Nests
  <2>2. CASE i = at + 1
    <3>1. r[i] = sub[1] /\ r[i].depth = d
      BY <1>7, <2>2
    <3>2. CASE parent = None
      <4>1. d = 0 /\ Stands(None, sub[1].type)
        BY <3>2 DEF FitsAt, TypeOfParent, d
      <4>2. \A p : ~IsParent(r, p, i)
        BY <1>1, <1>3, <3>1, <4>1 DEF IsParent
      <4>. QED
        BY <3>1, <4>1, <4>2 DEF Nests
    <3>3. CASE parent # None
      <4>. DEFINE P == IndexOf(tree, parent)
      <4>1. /\ P \in 1..at /\ tree[P].depth + 1 = d
            /\ \A j \in P+1..at : tree[j].depth >= d
        BY <3>3 DEF FitsAt, d
      <4>2. Stands(tree[P].type, sub[1].type)
        BY <3>3 DEF TypeOfParent
      <4>. HIDE DEF P
      <4>3. d # 0
        BY <1>1, <1>4, <4>1
      <4>4. ASSUME NEW p \in 1..n+m, IsParent(r, p, i)
            PROVE  r[p].type = tree[P].type
        <5>1. p \in 1..at /\ tree[p].depth < d /\ \A j \in p+1..at : tree[j].depth >= d
          BY <1>1, <1>2, <2>2, <3>1, <4>4 DEF IsParent
        <5>2. p = P
          BY <1>1, <1>4, <4>1, <5>1
        <5>. QED
          BY <1>2, <5>1, <5>2
      <4>. QED
        BY <1>2, <3>1, <4>2, <4>3, <4>4 DEF Nests
    <3>. QED
      BY <3>2, <3>3
  <2>3. CASE i - at \in 2..m
    <3>1. i - at \in 1..m /\ r[i] = sub[i - at] /\ r[i].depth > d
      <4>1. at + (i - at) = i /\ i - at \in 1..m
        BY <1>1, <2>3
      <4>. QED
        BY <1>2, <1>6, <2>3, <4>1
    <3>2. ASSUME NEW p \in 1..n+m, IsParent(r, p, i)
          PROVE  IsParent(sub, p - at, i - at) /\ p - at \in 1..m /\ r[p] = sub[p - at]
      <4>1. p \in 1..i-1 /\ r[p].depth < r[i].depth
            /\ \A j \in p+1..i-1 : r[j].depth >= r[i].depth
        BY <3>2 DEF IsParent
      <4>2. p >= at + 1
        <5>1. SUFFICES ASSUME p < at + 1
                       PROVE  FALSE
          BY <1>1, <4>1
        <5>2. at + 1 \in p+1..i-1
          BY <1>1, <2>3, <4>1, <5>1
        <5>3. d >= r[i].depth
          BY <1>7, <4>1, <5>2
        <5>4. r[i].depth \in Nat
          BY <1>3
        <5>. QED
          BY <1>1, <3>1, <5>3, <5>4
      <4>3. \A j \in p..i-1 : j - at \in 1..m /\ r[j] = sub[j - at]
        <5>1. \A j \in p..i-1 : j - at \in 1..m /\ at + (j - at) = j
          BY <1>1, <2>3, <4>1, <4>2
        <5>. QED
          BY <1>2, <5>1
      <4>4. ASSUME NEW j \in (p-at)+1..(i-at)-1
            PROVE  sub[j].depth >= sub[i - at].depth
        <5>1. j + at \in p+1..i-1 /\ (j + at) - at = j /\ j + at \in p..i-1
          BY <1>1, <2>3, <4>1
        <5>. QED
          BY <3>1, <4>1, <4>3, <5>1
      <4>5. p - at \in 1..(i-at)-1
        BY <1>1, <2>3, <4>1, <4>2
      <4>6. p \in p..i-1
        BY <4>1
      <4>. QED
        BY <3>1, <4>1, <4>3, <4>4, <4>5, <4>6 DEF IsParent
    <3>3. r[i].depth # 0
      BY <1>1, <1>3, <3>1
    <3>4. ASSUME NEW p \in DOMAIN r, IsParent(r, p, i)
          PROVE  Stands(r[p].type, r[i].type)
      <4>1. IsParent(sub, p - at, i - at) /\ p - at \in 1..m /\ r[p] = sub[p - at]
        BY <1>2, <3>2, <3>4
      <4>2. p - at \in DOMAIN sub
        BY <1>1, <4>1
      <4>3. Stands(sub[p - at].type, sub[i - at].type)
        BY <1>6, <2>3, <4>1, <4>2
      <4>. QED
        BY <3>1, <4>1, <4>3
    <3>. QED
      BY <3>3, <3>4 DEF Nests
  <2>4. CASE i - m \in at+1..n
    <3>. DEFINE k == i - m
    <3>1. k \in 1..n /\ r[i] = tree[k] /\ m + k = i
      <4>1. m + (i - m) = i
        BY <1>1
      <4>. QED
        BY <1>1, <1>2, <2>4, <4>1
    <3>2. ASSUME NEW p \in 1..n+m, IsParent(r, p, i)
          PROVE  \E q \in 1..n : IsParent(tree, q, k) /\ r[p] = tree[q]
      <4>1. p \in 1..i-1 /\ r[p].depth < tree[k].depth
            /\ \A j \in p+1..i-1 : r[j].depth >= tree[k].depth
        BY <3>1, <3>2 DEF IsParent
      <4>2. CASE p > at + m
        <5>1. p - m \in at+1..n /\ p - m \in 1..k-1 /\ r[p] = tree[p - m]
          <6>1. p - m \in at+1..n /\ m + (p - m) = p /\ p - m \in 1..k-1
            BY <1>1, <2>4, <4>1, <4>2
          <6>. QED
            BY <1>2, <6>1
        <5>2. ASSUME NEW j \in (p-m)+1..k-1
              PROVE  tree[j].depth >= tree[k].depth
          <6>1. m + j \in p+1..i-1 /\ j \in at+1..n
            BY <1>1, <2>4, <4>1, <4>2, <5>1
          <6>. QED
            BY <1>2, <4>1, <6>1
        <5>. QED
          BY <1>1, <4>1, <5>1, <5>2 DEF IsParent
      <4>3. CASE p \in 1..at
        <5>1. p \in 1..k-1 /\ p \in 1..n /\ r[p] = tree[p]
          BY <1>1, <1>2, <2>4, <4>3
        <5>2. ASSUME NEW j \in p+1..k-1
              PROVE  tree[j].depth >= tree[k].depth
          <6>1. CASE j <= at
            BY <1>1, <1>2, <2>4, <4>1, <4>3, <6>1
          <6>2. CASE j > at
            <7>1. m + j \in p+1..i-1 /\ j \in at+1..n
              BY <1>1, <2>4, <4>1, <4>3, <6>2
            <7>. QED
              BY <1>2, <4>1, <7>1
          <6>. QED
            BY <1>1, <4>3, <6>1, <6>2
        <5>. QED
          BY <4>1, <5>1, <5>2 DEF IsParent
      <4>4. CASE p > at /\ p <= at + m
        <5>1. p - at \in 1..m /\ r[p] = sub[p - at] /\ sub[p - at].depth >= d
          <6>1. p - at \in 1..m /\ at + (p - at) = p
            BY <1>1, <4>4
          <6>2. sub[p - at].depth >= d
            BY <1>1, <1>4, <1>6, <6>1 DEF d
          <6>. QED
            BY <1>2, <6>1, <6>2
        <5>2. tree[k].depth <= d
          <6>1. at + 1 \in 1..n /\ tree[at + 1].depth <= d
            BY <1>1, <1>5, <2>4
          <6>2. CASE k = at + 1
            BY <6>1, <6>2
          <6>3. CASE k # at + 1
            <7>1. m + (at + 1) \in p+1..i-1 /\ at + 1 \in at+1..n
              BY <1>1, <2>4, <4>4, <6>3
            <7>2. tree[at + 1].depth >= tree[k].depth
              BY <1>2, <4>1, <7>1
            <7>. QED
              BY <1>1, <1>4, <3>1, <6>1, <7>2
          <6>. QED
            BY <6>2, <6>3
        <5>. QED
          BY <1>1, <1>4, <3>1, <4>1, <5>1, <5>2
      <4>. QED
        BY <1>1, <4>1, <4>2, <4>3, <4>4
    <3>. HIDE DEF k
    <3>3. Nests(tree, k)
      BY <1>8, <3>1
    <3>4. ASSUME NEW p \in DOMAIN r, IsParent(r, p, i)
          PROVE  Stands(r[p].type, r[i].type)
      <4>1. PICK q \in 1..n : IsParent(tree, q, k) /\ r[p] = tree[q]
        BY <1>2, <3>2, <3>4
      <4>2. Stands(tree[q].type, tree[k].type)
        BY <1>1, <3>3, <4>1 DEF Nests
      <4>. QED
        BY <3>1, <4>1, <4>2
    <3>. QED
      BY <3>1, <3>3, <3>4 DEF Nests
  <2>. QED
    BY <1>1, <2>1, <2>2, <2>3, <2>4
<1>. QED
  BY <1>2, <1>9, <1>10, <1>11 DEF Well, r

LEMMA CutShape ==
    ASSUME NEW tree \in Trees, NEW i \in 1..Len(tree)
    PROVE  LET r == RemoveAt(tree, i)
               w == EndOf(tree, i) - i + 1
           IN  /\ r \in Trees /\ Len(r) = Len(tree) - w
               /\ \A k \in 1..i-1 : r[k] = tree[k]
               /\ \A k \in i..Len(tree)-w : r[k] = tree[k + w]
<1>. DEFINE e     == EndOf(tree, i)
            w     == e - i + 1
            front == SubSeq(tree, 1, i - 1)
            back  == SubSeq(tree, e + 1, Len(tree))
            r     == RemoveAt(tree, i)
<1>1. Len(tree) \in Nat /\ \A k \in 1..Len(tree) : tree[k] \in Node
  BY TreeShape
<1>2. e \in i..Len(tree)
  BY SubtreeEnd
<1>. HIDE DEF e
<1>3. /\ front \in Seq(Node) /\ Len(front) = i - 1
      /\ \A k \in 1..i-1 : front[k] = tree[k]
  <2>1. \A k \in 1..i-1 : tree[k] \in Node
    BY <1>1
  <2>2. /\ front \in Seq(Node) /\ Len(front) = IF 1 <= i - 1 THEN i - 1 - 1 + 1 ELSE 0
        /\ \A k \in 1..i-1-1+1 : front[k] = tree[1 + k - 1]
    BY <1>1, <2>1, SubSeqProperties
  <2>. QED
    BY <1>1, <2>2
<1>4. /\ back \in Seq(Node) /\ Len(back) = Len(tree) - e
      /\ \A k \in 1..Len(tree)-e : back[k] = tree[e + k]
  <2>1. \A k \in e+1..Len(tree) : tree[k] \in Node
    BY <1>1, <1>2
  <2>2. /\ back \in Seq(Node)
        /\ Len(back) = IF e + 1 <= Len(tree) THEN Len(tree) - (e + 1) + 1 ELSE 0
        /\ \A k \in 1..Len(tree)-(e+1)+1 : back[k] = tree[(e + 1) + k - 1]
    BY <1>1, <1>2, <2>1, SubSeqProperties
  <2>3. \A k \in 1..Len(tree)-e : k \in 1..Len(tree)-(e+1)+1 /\ (e + 1) + k - 1 = e + k
    BY <1>1, <1>2
  <2>. QED
    BY <1>1, <1>2, <2>2, <2>3
<1>5. r = front \o back
  BY DEF RemoveAt, e
<1>. HIDE DEF front, back, r
<1>6. /\ r \in Seq(Node) /\ Len(r) = Len(front) + Len(back)
      /\ \A k \in 1..Len(front) + Len(back) :
           r[k] = IF k <= Len(front) THEN front[k] ELSE back[k - Len(front)]
  BY <1>3, <1>4, <1>5, ConcatProperties
<1>7. Len(front) + Len(back) = Len(tree) - w
  BY <1>1, <1>2, <1>3, <1>4
<1>8. ASSUME NEW k \in 1..i-1
      PROVE  r[k] = tree[k]
  <2>1. k \in 1..Len(front) + Len(back) /\ k <= Len(front)
    BY <1>1, <1>2, <1>3, <1>4
  <2>. QED
    BY <1>3, <1>6, <2>1
<1>9. ASSUME NEW k \in i..Len(tree)-w
      PROVE  r[k] = tree[k + w]
  <2>1. k \in 1..Len(front) + Len(back) /\ ~(k <= Len(front))
        /\ k - Len(front) \in 1..Len(tree)-e /\ e + (k - Len(front)) = k + w
    BY <1>1, <1>2, <1>3, <1>4
  <2>. QED
    BY <1>4, <1>6, <2>1
<1>. QED
  BY <1>6, <1>7, <1>8, <1>9 DEF Trees, r, e

\* What is left is a forest, nested as before.
LEMMA CutWell ==
    ASSUME NEW tree \in Trees, Well(tree), NEW i \in 1..Len(tree)
    PROVE  /\ Well(RemoveAt(tree, i))
           /\ Ids(RemoveAt(tree, i)) = Ids(tree) \ Ids(SubtreeAt(tree, i))
           /\ \A id \in Ids(RemoveAt(tree, i)) :
                TypeOfParent(RemoveAt(tree, i), id) = TypeOfParent(tree, id)
           /\ Len(RemoveAt(tree, i)) = Len(tree) - Len(SubtreeAt(tree, i))
<1>. DEFINE r == RemoveAt(tree, i)
            e == EndOf(tree, i)
            w == e - i + 1
            n == Len(tree)
<1>1. /\ n \in Nat /\ DOMAIN tree = 1..n /\ \A k \in 1..n : tree[k].depth \in Nat
      /\ i \in 1..n
  BY TreeShape
<1>2. /\ e \in i..n
      /\ \A k \in i+1..e : tree[k].depth > tree[i].depth
      /\ e + 1 <= n => tree[e + 1].depth <= tree[i].depth
  BY SubtreeEnd
<1>3. /\ r \in Trees /\ Len(r) = n - w
      /\ \A k \in 1..i-1 : r[k] = tree[k]
      /\ \A k \in i..n-w : r[k] = tree[k + w]
  BY CutShape
<1>4. IsForest(tree) /\ Distinct(tree) /\ \A k \in 1..n : Nests(tree, k)
  BY <1>1 DEF Well
<1>. HIDE DEF r, e, n
<1>5. DOMAIN r = 1..n-w /\ w \in 1..n
  BY <1>1, <1>2, <1>3, TreeShape
<1>. DEFINE From(k) == IF k < i THEN k ELSE k + w
<1>6. \A k \in 1..n-w : From(k) \in 1..n /\ r[k] = tree[From(k)]
  BY <1>1, <1>2, <1>3, <1>5
<1>7. IsForest(r)
  <2>1. n - w > 0 => r[1].depth = 0
    <3>1. CASE i > 1
      <4>1. tree[1].depth = 0
        BY <1>1, <1>4, ForestSteps DEF n
      <4>. QED
        BY <1>1, <1>3, <3>1, <4>1
    <3>2. CASE i = 1 /\ n - w > 0
      <4>1. tree[1].depth = 0
        BY <1>1, <1>4, ForestSteps DEF n
      <4>2. e + 1 <= n /\ 1 \in i..n-w /\ 1 + w = e + 1
        BY <1>1, <1>2, <3>2
      <4>. QED
        BY <1>1, <1>2, <1>3, <3>2, <4>1, <4>2
    <3>. QED
      BY <1>1, <3>1, <3>2
  <2>2. ASSUME NEW k \in 1..n-w, k + 1 <= n - w
        PROVE  r[k+1].depth <= r[k].depth + 1
    <3>1. CASE k + 1 < i
      <4>1. tree[k+1].depth <= tree[k].depth + 1
        BY <1>1, <1>4, <3>1, ForestSteps DEF n
      <4>. QED
        BY <1>1, <1>3, <3>1, <4>1
    <3>2. CASE k + 1 = i
      <4>1. tree[i].depth <= tree[k].depth + 1
        BY <1>1, <1>4, <3>2, ForestSteps DEF n
      <4>2. r[k+1] = tree[e+1] /\ r[k] = tree[k] /\ e + 1 <= n
        BY <1>1, <1>2, <1>3, <2>2, <3>2
      <4>3. tree[e+1].depth \in Nat /\ tree[k].depth \in Nat /\ tree[i].depth \in Nat
        BY <1>1, <1>2, <4>2, <3>2
      <4>4. tree[e+1].depth <= tree[i].depth
        BY <1>2, <4>2
      <4>5. tree[e+1].depth <= tree[k].depth + 1
        BY SMTT(30), <4>1, <4>3, <4>4
      <4>. QED
        BY <4>2, <4>5
    <3>3. CASE k >= i
      <4>1. k + w \in 1..n /\ (k + w) + 1 <= n /\ (k + w) + 1 = (k + 1) + w
            /\ k \in i..n-w /\ k + 1 \in i..n-w
        BY <1>1, <1>2, <1>5, <2>2, <3>3
      <4>2. tree[(k+w)+1].depth <= tree[k+w].depth + 1
        BY <1>4, <4>1, ForestSteps DEF n
      <4>. QED
        BY <1>3, <4>1, <4>2
    <3>. QED
      BY <1>1, <3>1, <3>2, <3>3
  <2>. QED
    BY <1>3, <1>5, <2>1, <2>2, ForestSteps
<1>8. Distinct(r)
  <2>1. ASSUME NEW k \in 1..n-w, NEW l \in 1..n-w, r[k].id = r[l].id
        PROVE  k = l
    <3>1. From(k) = From(l)
      BY <1>1, <1>4, <1>6, <2>1 DEF Distinct
    <3>. QED
      BY <1>1, <1>5, <3>1
  <2>. QED
    BY <1>5, <2>1 DEF Distinct
<1>9. ASSUME NEW k \in 1..n-w
      PROVE  Nests(r, k)
  <2>1. From(k) \in 1..n /\ r[k] = tree[From(k)] /\ Nests(tree, From(k))
    BY <1>4, <1>6
  <2>2. ASSUME NEW p \in 1..n-w, IsParent(r, p, k)
        PROVE  IsParent(tree, From(p), From(k))
    <3>1. p \in 1..k-1 /\ r[p].depth < r[k].depth
          /\ \A j \in p+1..k-1 : r[j].depth >= r[k].depth
      BY <2>2 DEF IsParent
    <3>2. From(p) \in 1..From(k)-1 /\ tree[From(p)].depth < tree[From(k)].depth
      BY <1>1, <1>5, <1>6, <3>1
    <3>3. ASSUME NEW j \in From(p)+1..From(k)-1
          PROVE  tree[j].depth >= tree[From(k)].depth
      <4>1. CASE j < i
        <5>1. j \in p+1..k-1 /\ r[j] = tree[j]
          BY <1>1, <1>3, <1>5, <3>1, <3>3, <4>1
        <5>. QED
          BY <2>1, <3>1, <5>1
      <4>2. CASE j > e
        <5>1. j - w \in p+1..k-1 /\ j - w \in i..n-w /\ (j - w) + w = j
          BY <1>1, <1>2, <1>5, <2>1, <3>1, <3>3, <4>2
        <5>. QED
          BY <1>3, <2>1, <3>1, <5>1
      <4>3. CASE j \in i..e
        <5>1. p < i /\ k >= i
          BY <1>1, <1>2, <1>5, <3>1, <3>3, <4>3
        <5>2. tree[j].depth >= tree[i].depth
          <6>1. j \in 1..n /\ tree[j].depth \in Nat /\ tree[i].depth \in Nat
            BY <1>1, <1>2, <4>3
          <6>2. CASE j = i
            BY <6>1, <6>2
          <6>3. CASE j # i
            <7>1. j \in i+1..e
              BY <1>1, <1>2, <4>3, <6>3
            <7>2. tree[j].depth > tree[i].depth
              BY <1>2, <7>1
            <7>. QED
              BY <6>1, <7>2
          <6>. QED
            BY <6>2, <6>3
        <5>3. e + 1 <= n /\ tree[e + 1].depth <= tree[i].depth /\ From(k) = k + w
          BY <1>1, <1>2, <1>5, <5>1
        <5>4. tree[From(k)].depth <= tree[e + 1].depth
          <6>1. CASE k = i
            <7>1. From(k) = e + 1
              BY <1>1, <1>2, <5>3, <6>1
            <7>. QED
              BY <1>1, <2>1, <7>1
          <6>2. CASE k > i
            <7>1. i \in p+1..k-1 /\ i \in i..n-w /\ i + w = e + 1
              BY <1>1, <1>2, <1>5, <3>1, <5>1, <6>2
            <7>2. r[i] = tree[e + 1]
              BY <1>3, <7>1
            <7>3. r[i].depth >= r[k].depth
              BY <3>1, <7>1
            <7>. QED
              BY <2>1, <7>2, <7>3
          <6>. QED
            BY <5>1, <6>1, <6>2
        <5>5. e + 1 \in 1..n /\ j \in 1..n
          BY <1>1, <1>2, <4>3, <5>3
        <5>6. /\ tree[e + 1].depth \in Nat /\ tree[j].depth \in Nat
              /\ tree[i].depth \in Nat /\ tree[From(k)].depth \in Nat
          BY <1>1, <2>1, <5>5
        <5>. HIDE DEF From
        <5>. QED
          BY SMTT(30), <5>2, <5>3, <5>4, <5>6
      <4>4. j \in Int /\ i \in Int /\ e \in Int
        BY <1>1, <1>2, <2>1, <3>2
      <4>. QED
        BY <4>1, <4>2, <4>3, <4>4
    <3>. QED
      BY <3>2, <3>3 DEF IsParent
  <2>3. ASSUME NEW p \in DOMAIN r, IsParent(r, p, k)
        PROVE  Stands(r[p].type, r[k].type)
    <3>1. IsParent(tree, From(p), From(k)) /\ From(p) \in 1..n /\ r[p] = tree[From(p)]
      BY <1>5, <1>6, <2>2, <2>3
    <3>. HIDE DEF From
    <3>. QED
      BY <1>1, <2>1, <3>1 DEF Nests
  <2>. QED
    BY <2>1, <2>3 DEF Nests
<1>10. Well(r)
  BY <1>3, <1>5, <1>7, <1>8, <1>9 DEF Well
<1>. DEFINE sub == SubtreeAt(tree, i)
<1>11. /\ sub \in Trees /\ Len(sub) = w /\ DOMAIN sub = 1..w
       /\ \A k \in 1..w : sub[k] = tree[i + k - 1]
  <2>1. /\ sub \in Trees /\ Len(sub) = w
        /\ \A k \in 1..w : sub[k] = tree[i + k - 1]
    BY SubtreeShape DEF e
  <2>. QED
    BY <2>1, TreeShape
<1>. HIDE DEF sub
<1>12. Ids(r) = Ids(tree) \ Ids(sub)
  <2>1. ASSUME NEW k \in 1..n-w
        PROVE  r[k].id \in Ids(tree) /\ r[k].id \notin Ids(sub)
    <3>1. r[k].id = tree[From(k)].id /\ From(k) \in 1..n /\ From(k) \notin i..e
      BY <1>1, <1>2, <1>5, <1>6
    <3>2. ASSUME NEW l \in 1..w, sub[l].id = r[k].id
          PROVE  FALSE
      <4>1. i + l - 1 \in i..e /\ i + l - 1 \in 1..n
        BY <1>1, <1>2
      <4>2. tree[i + l - 1].id = tree[From(k)].id
        BY <1>11, <3>1, <3>2
      <4>. HIDE DEF From
      <4>. QED
        BY <1>1, <1>4, <3>1, <4>1, <4>2 DEF Distinct
    <3>. HIDE DEF From
    <3>. QED
      BY <1>1, <1>11, <3>1, <3>2 DEF Ids
  <2>2. ASSUME NEW k \in 1..n, tree[k].id \notin Ids(sub)
        PROVE  tree[k].id \in Ids(r)
    <3>1. k \notin i..e
      <4>1. SUFFICES ASSUME k \in i..e
                     PROVE  FALSE
        OBVIOUS
      <4>2. k - i + 1 \in 1..w /\ i + (k - i + 1) - 1 = k
        BY <1>1, <1>2, <4>1
      <4>3. sub[k - i + 1].id = tree[k].id
        BY <1>11, <4>2
      <4>. QED
        BY <1>11, <2>2, <4>2, <4>3 DEF Ids
    <3>2. CASE k < i
      <4>1. k \in 1..n-w /\ r[k] = tree[k]
        BY <1>1, <1>2, <1>3, <3>2
      <4>. QED
        BY <1>5, <4>1 DEF Ids
    <3>3. CASE k > e
      <4>1. k - w \in 1..n-w /\ k - w \in i..n-w /\ (k - w) + w = k
        BY <1>1, <1>2, <3>3
      <4>2. r[k - w] = tree[k]
        BY <1>3, <4>1
      <4>. QED
        BY <1>5, <4>1, <4>2 DEF Ids
    <3>. QED
      BY <1>1, <1>2, <3>1, <3>2, <3>3
  <2>3. \A id \in Ids(r) : \E k \in 1..n-w : id = r[k].id
    BY <1>5 DEF Ids
  <2>4. \A id \in Ids(tree) : \E k \in 1..n : id = tree[k].id
    BY <1>1 DEF Ids
  <2>. QED
    BY <2>1, <2>2, <2>3, <2>4
<1>13. ASSUME NEW id \in Ids(r)
       PROVE  TypeOfParent(r, id) = TypeOfParent(tree, id)
  <2>1. id # None
    BY <1>3, <1>13, Indexed, NoneApart
  <2>2. IndexOf(r, id) \in 1..n-w /\ r[IndexOf(r, id)].id = id
    BY <1>3, <1>13, Indexed
  <2>. DEFINE k == IndexOf(r, id)
  <2>3. From(k) \in 1..n /\ r[k] = tree[From(k)]
    BY <1>6, <2>2
  <2>. HIDE DEF From
  <2>4. IndexOf(tree, id) = From(k)
    BY <1>1, <1>4, <2>2, <2>3, OwnIndex DEF n
  <2>. QED
    BY <2>1, <2>3, <2>4 DEF TypeOfParent
<1>. QED
  BY <1>3, <1>10, <1>11, <1>12, <1>13 DEF r, sub, n

-----------------------------------------------------------------------------
(* Branches to put in: lowered, copied and new ones.                       *)

LEMMA ShiftedBranch ==
    ASSUME NEW sub \in Trees, Branch(sub), NEW d \in Nat
    PROVE  LET s == Shifted(sub, d - sub[1].depth)
           IN  /\ s \in Trees /\ Branch(s) /\ Len(s) = Len(sub)
               /\ s[1].depth = d /\ s[1].type = sub[1].type
               /\ \A k \in 1..Len(sub) : s[k].id = sub[k].id
<1>. DEFINE by == d - sub[1].depth
            s  == Shifted(sub, by)
            n  == Len(sub)
<1>1. n \in Nat \ {0} /\ DOMAIN sub = 1..n /\ \A k \in 1..n : sub[k] \in Node
  BY TreeShape, EmptySeq DEF Branch, Trees
<1>2. \A k \in 1..n : /\ sub[k].depth \in Nat /\ sub[k].depth >= sub[1].depth
                      /\ sub[k].depth + by \in Nat
  <2>1. \A k \in 1..n : sub[k].depth \in Nat
    BY TreeShape
  <2>2. \A k \in 1..n : k = 1 \/ k \in 2..n
    BY <1>1
  <2>3. \A k \in 2..n : sub[k].depth > sub[1].depth
    BY DEF Branch
  <2>. QED
    BY <1>1, <2>1, <2>2, <2>3
<1>3. by + sub[1].depth = d
  BY <1>1, <1>2
<1>4. by \in Int
  BY <1>1, <1>2
<1>. HIDE DEF by
<1>5. s = [i \in 1..n |-> [sub[i] EXCEPT !.depth = @ + by]]
  BY <1>1 DEF Shifted
<1>6. ASSUME NEW k \in 1..n
      PROVE  /\ [sub[k] EXCEPT !.depth = @ + by] \in Node
             /\ [sub[k] EXCEPT !.depth = @ + by].depth = sub[k].depth + by
             /\ [sub[k] EXCEPT !.depth = @ + by].id = sub[k].id
             /\ [sub[k] EXCEPT !.depth = @ + by].type = sub[k].type
  BY <1>1, <1>2 DEF Node
<1>. HIDE DEF s, n
<1>7. /\ s \in Trees /\ Len(s) = n /\ DOMAIN s = 1..n
      /\ \A k \in 1..n : /\ s[k].depth = sub[k].depth + by
                         /\ s[k].id = sub[k].id
                         /\ s[k].type = sub[k].type
  <2>1. \A k \in 1..n : s[k] = [sub[k] EXCEPT !.depth = @ + by]
    BY <1>5
  <2>2. s \in [1..n -> Node]
    BY <1>5, <1>6
  <2>3. s \in Trees
    BY <1>1, <2>2 DEF Trees
  <2>4. \A k \in 1..n : /\ s[k].depth = sub[k].depth + by
                        /\ s[k].id = sub[k].id
                        /\ s[k].type = sub[k].type
    BY <1>6, <2>1, Zenon
  <2>5. Len(s) = n /\ DOMAIN s = 1..n
    BY <1>1, <2>2, <2>3, TreeShape
  <2>. QED
    BY <2>3, <2>4, <2>5, Zenon
<1>8. s # <<>>
  BY <1>1, <1>7
<1>9. Distinct(s)
  BY <1>1, <1>7 DEF Branch, Distinct
<1>10. ASSUME NEW k \in 2..n
       PROVE  /\ s[k].depth > s[1].depth
              /\ s[k].depth <= s[k-1].depth + 1
              /\ \A p \in DOMAIN s : IsParent(s, p, k) =>
                   Stands(s[p].type, s[k].type)
  <2>1. k \in 1..n /\ k - 1 \in 1..n /\ 1 \in 1..n
    BY <1>1
  <2>2. sub[k].depth > sub[1].depth /\ sub[k].depth <= sub[k-1].depth + 1
    BY DEF Branch, n
  <2>3. s[k].depth > s[1].depth /\ s[k].depth <= s[k-1].depth + 1
    <3>1. /\ s[k].depth = sub[k].depth + by
          /\ s[k-1].depth = sub[k-1].depth + by
          /\ s[1].depth = sub[1].depth + by
      BY <1>7, <2>1
    <3>2. sub[k].depth \in Nat /\ sub[k-1].depth \in Nat /\ sub[1].depth \in Nat
      BY <1>2, <2>1
    <3>. QED
      BY <1>4, <2>2, <3>1, <3>2
  <2>4. ASSUME NEW p \in 1..n, IsParent(s, p, k)
        PROVE  IsParent(sub, p, k)
    <3>1. p \in 1..k-1 /\ s[p].depth < s[k].depth
          /\ \A j \in p+1..k-1 : s[j].depth >= s[k].depth
      BY <2>4 DEF IsParent
    <3>2. sub[p].depth < sub[k].depth
      BY <1>2, <1>4, <1>7, <2>1, <3>1
    <3>3. ASSUME NEW j \in p+1..k-1
          PROVE  sub[j].depth >= sub[k].depth
      <4>1. j \in 1..n /\ s[j].depth >= s[k].depth
        BY <1>1, <3>1
      <4>2. sub[j].depth + by >= sub[k].depth + by
        BY <1>7, <2>1, <4>1
      <4>3. sub[j].depth \in Nat /\ sub[k].depth \in Nat
        BY <1>2, <2>1, <4>1
      <4>. QED
        BY <1>4, <4>2, <4>3
    <3>. QED
      BY <3>1, <3>2, <3>3 DEF IsParent
  <2>5. \A p \in 1..n : IsParent(s, p, k) => Stands(s[p].type, s[k].type)
    BY <1>1, <1>7, <2>1, <2>4 DEF Branch, n
  <2>. QED
    BY <1>7, <2>3, <2>5
<1>11. Branch(s)
  BY <1>7, <1>8, <1>9, <1>10 DEF Branch
<1>12. s[1].depth = d /\ s[1].type = sub[1].type
  <2>1. 1 \in 1..n
    BY <1>1
  <2>. QED
    BY <1>2, <1>3, <1>4, <1>7, <2>1
<1>. QED
  BY <1>7, <1>11, <1>12 DEF s, by, n

\* Every node has the seed and its place for an id.
HasSeed(sub, seed) == \A k \in DOMAIN sub : sub[k].id = <<seed, k>>

LEMMA CopyBranch ==
    ASSUME NEW sub \in Trees, Branch(sub), NEW seed \in Nat
    PROVE  LET c == Copy(sub, seed)
           IN  /\ c \in Trees /\ Branch(c) /\ Len(c) = Len(sub) /\ HasSeed(c, seed)
               /\ \A k \in 1..Len(sub) : c[k].type = sub[k].type
<1>. DEFINE c == Copy(sub, seed)
            n == Len(sub)
<1>1. n \in Nat \ {0} /\ DOMAIN sub = 1..n /\ \A k \in 1..n : sub[k] \in Node
  BY TreeShape, EmptySeq DEF Branch, Trees
<1>2. c = [i \in 1..n |-> [sub[i] EXCEPT !.id = <<seed, i>>]]
  BY <1>1 DEF Copy, Seeded
<1>3. ASSUME NEW k \in 1..n
      PROVE  /\ [sub[k] EXCEPT !.id = <<seed, k>>] \in Node
             /\ [sub[k] EXCEPT !.id = <<seed, k>>].depth = sub[k].depth
             /\ [sub[k] EXCEPT !.id = <<seed, k>>].id = <<seed, k>>
             /\ [sub[k] EXCEPT !.id = <<seed, k>>].type = sub[k].type
  <2>1. <<seed, k>> \in NodeId
    BY <1>1 DEF NodeId
  <2>. QED
    BY <1>1, <2>1 DEF Node
<1>. HIDE DEF c, n
<1>4. /\ c \in Trees /\ Len(c) = n /\ DOMAIN c = 1..n
      /\ \A k \in 1..n : /\ c[k].depth = sub[k].depth
                         /\ c[k].id = <<seed, k>>
                         /\ c[k].type = sub[k].type
  <2>1. \A k \in 1..n : c[k] = [sub[k] EXCEPT !.id = <<seed, k>>]
    BY <1>2
  <2>2. c \in [1..n -> Node]
    BY <1>2, <1>3
  <2>3. c \in Trees
    BY <1>1, <2>2 DEF Trees
  <2>4. \A k \in 1..n : /\ c[k].depth = sub[k].depth
                        /\ c[k].id = <<seed, k>>
                        /\ c[k].type = sub[k].type
    BY <1>3, <2>1, Zenon
  <2>5. Len(c) = n /\ DOMAIN c = 1..n
    BY <1>1, <2>2, <2>3, TreeShape
  <2>. QED
    BY <2>3, <2>4, <2>5, Zenon
<1>5. c # <<>>
  BY <1>1, <1>4
<1>6. Distinct(c)
  BY <1>4 DEF Distinct
<1>7. ASSUME NEW k \in 2..n
      PROVE  /\ c[k].depth > c[1].depth
             /\ c[k].depth <= c[k-1].depth + 1
             /\ \A p \in DOMAIN c : IsParent(c, p, k) =>
                  Stands(c[p].type, c[k].type)
  <2>1. k \in 1..n /\ k - 1 \in 1..n /\ 1 \in 1..n
    BY <1>1
  <2>2. c[k].depth > c[1].depth /\ c[k].depth <= c[k-1].depth + 1
    BY <1>4, <2>1 DEF Branch, n
  <2>3. ASSUME NEW p \in 1..n, IsParent(c, p, k)
        PROVE  IsParent(sub, p, k)
    <3>1. \A j \in p..k-1 : j \in 1..n
      BY <1>1, <2>1
    <3>. QED
      BY <1>4, <2>1, <2>3, <3>1 DEF IsParent
  <2>4. \A p \in 1..n : IsParent(c, p, k) => Stands(c[p].type, c[k].type)
    BY <1>1, <1>4, <2>1, <2>3 DEF Branch, n
  <2>. QED
    BY <1>4, <2>2, <2>4
<1>. QED
  BY <1>4, <1>5, <1>6, <1>7 DEF Branch, HasSeed, c, n

LEMMA FreshBranch ==
    ASSUME NEW type \in Types, NEW seed \in Nat
    PROVE  LET f == Fresh(type, seed)
           IN  /\ f \in Trees /\ Branch(f) /\ HasSeed(f, seed)
               /\ f[1].type = type
<1>. DEFINE b == Blueprint[type]
            f == Fresh(type, seed)
            n == Len(b)
<1>1. /\ b \in Seq([type: Types, depth: Nat]) /\ b # <<>>
      /\ b[1] = [type |-> type, depth |-> 0]
  BY TreeConstants
<1>2. /\ IsForest(b)
      /\ \A i \in 2..Len(b) : /\ Above(b, i) # {}
                              /\ b[i].type \in ChildTypes[b[Max(Above(b, i))].type]
  BY BlueprintsNest
<1>. HIDE DEF b
<1>3. n \in Nat \ {0} /\ DOMAIN b = 1..n
  BY <1>1, EmptySeq
<1>4. \A k \in 1..n : b[k].type \in Types /\ b[k].depth \in Nat
  <2>. DEFINE New == [type: Types, depth: Nat]
  <2>1. \A x \in New : x.type \in Types /\ x.depth \in Nat
    OBVIOUS
  <2>2. b \in Seq(New)
    BY <1>1
  <2>. HIDE DEF New
  <2>3. \A k \in 1..n : b[k] \in New
    BY <1>3, <2>2
  <2>. QED
    BY <2>1, <2>3
<1>5. f = [i \in 1..n |-> [id |-> <<seed, i>>, type |-> b[i].type, depth |-> b[i].depth,
                           text |-> 0, visible |-> TRUE]]
  BY <1>3 DEF Fresh, b
<1>. HIDE DEF f, n
<1>6. /\ f \in Trees /\ Len(f) = n /\ DOMAIN f = 1..n
      /\ \A k \in 1..n : /\ f[k].depth = b[k].depth
                         /\ f[k].id = <<seed, k>>
                         /\ f[k].type = b[k].type
  <2>1. ASSUME NEW k \in 1..n
        PROVE  [id |-> <<seed, k>>, type |-> b[k].type, depth |-> b[k].depth,
                text |-> 0, visible |-> TRUE] \in Node
    <3>1. <<seed, k>> \in NodeId
      BY <1>3 DEF NodeId
    <3>. QED
      BY <1>4, <3>1 DEF Node
  <2>2. f \in [1..n -> Node]
    BY <1>5, <2>1
  <2>3. f \in Trees
    BY <1>3, <2>2 DEF Trees
  <2>4. \A k \in 1..n : /\ f[k].depth = b[k].depth
                        /\ f[k].id = <<seed, k>>
                        /\ f[k].type = b[k].type
    BY <1>5
  <2>. QED
    BY <1>3, <2>2, <2>3, <2>4, TreeShape
<1>7. f # <<>>
  BY <1>3, <1>6
<1>8. Distinct(f)
  BY <1>6 DEF Distinct
<1>9. ASSUME NEW k \in 2..n
      PROVE  /\ f[k].depth > f[1].depth
             /\ f[k].depth <= f[k-1].depth + 1
             /\ \A p \in DOMAIN f : IsParent(f, p, k) =>
                  Stands(f[p].type, f[k].type)
  <2>1. k \in 1..n /\ k - 1 \in 1..n /\ 1 \in 1..n /\ k # 1
    BY <1>3
  <2>2. Above(f, k) = Above(b, k)
    <3>1. \A j \in 1..k-1 : j \in 1..n
      BY <1>3
    <3>. QED
      BY <1>6, <2>1, <3>1 DEF Above
  <2>3. Above(f, k) # {} /\ b[k].type \in ChildTypes[b[Max(Above(f, k))].type]
    BY <1>2, <2>2 DEF n
  <2>4. f[k].depth <= f[k-1].depth + 1
    <3>1. b[k].depth <= b[k-1].depth + 1
      BY <1>2, <1>3, <2>1 DEF IsForest
    <3>. QED
      BY <1>6, <2>1, <3>1
  <2>5. f[k].depth > f[1].depth
    <3>1. PICK j \in 1..k-1 : f[j].depth < f[k].depth
      BY <2>3 DEF Above
    <3>2. f[j].depth \in Nat /\ f[k].depth \in Nat /\ f[1].depth = 0
      BY <1>1, <1>3, <1>4, <1>6, <2>1, <3>1
    <3>. QED
      BY <3>1, <3>2
  <2>6. ASSUME NEW p \in 1..n, IsParent(f, p, k)
        PROVE  Stands(f[p].type, f[k].type)
    <3>1. Max(Above(f, k)) = p
      BY <1>6, <2>1, <2>3, <2>6, Parents
    <3>2. f[k].type \in ChildTypes[f[p].type]
      BY <1>6, <2>1, <2>3, <3>1
    <3>3. f[p].type \in Types /\ f[p].type # None
      BY <1>4, <1>6, NoneApart
    <3>. QED
      BY <3>2, <3>3 DEF Stands, CanNest
  <2>. QED
    BY <1>6, <2>4, <2>5, <2>6
<1>10. f[1].type = type
  BY <1>1, <1>3, <1>6
<1>. QED
  BY <1>6, <1>7, <1>8, <1>9, <1>10 DEF Branch, HasSeed, f

-----------------------------------------------------------------------------
(* The operations of an editor keep a tree well.                           *)

LEMMA InsertWell ==
    ASSUME NEW tree \in Trees, Well(tree), NEW sub \in Trees, Branch(sub),
           NEW parent, Exists(tree, parent), NEW index \in Nat,
           Stands(TypeOfParent(tree, parent), sub[1].type),
           Ids(tree) \cap Ids(sub) = {}
    PROVE  LET r == InsertAt(tree, sub, parent, index)
           IN  /\ Well(r) /\ Len(r) = Len(tree) + Len(sub)
               /\ Ids(r) = Ids(tree) \cup Ids(sub)
<1>. DEFINE d  == DepthUnder(tree, parent)
            s  == Shifted(sub, d - sub[1].depth)
            at == PlaceFor(tree, parent, index)
            r  == Spliced(tree, s, at)
            n  == Len(tree)
            m  == Len(sub)
<1>1. FitsAt(tree, at, d, parent)
  BY PlaceFits
<1>. HIDE DEF at, d
<1>2. d \in Nat /\ at \in 0..n /\ n \in Nat /\ m \in Nat
      /\ DOMAIN tree = 1..n /\ DOMAIN sub = 1..m
  BY <1>1, TreeShape DEF FitsAt
<1>3. /\ s \in Trees /\ Branch(s) /\ Len(s) = m
      /\ s[1].depth = d /\ s[1].type = sub[1].type
      /\ \A k \in 1..m : s[k].id = sub[k].id
  BY <1>2, ShiftedBranch
<1>. HIDE DEF s
<1>4. DOMAIN s = 1..m
  BY <1>3, TreeShape
<1>5. Ids(s) = Ids(sub)
  BY <1>2, <1>3, <1>4 DEF Ids
<1>6. FitsAt(tree, at, s[1].depth, parent)
  BY <1>1, <1>3
<1>7. Well(r)
  BY <1>3, <1>5, <1>6, SpliceWell
<1>8. /\ r \in Trees /\ Len(r) = n + m
      /\ \A k \in 1..at : r[k] = tree[k]
      /\ \A k \in 1..m : r[at + k] = s[k]
      /\ \A k \in at+1..n : r[m + k] = tree[k]
  <2>1. /\ r \in Trees /\ Len(r) = n + Len(s)
        /\ \A k \in 1..at : r[k] = tree[k]
        /\ \A k \in 1..Len(s) : r[at + k] = s[k]
        /\ \A k \in at+1..n : r[Len(s) + k] = tree[k]
    BY <1>2, <1>3, SpliceShape
  <2>. QED
    BY <1>3, <2>1
<1>. HIDE DEF r, n, m
<1>9. DOMAIN r = 1..n+m
  BY <1>8, TreeShape
<1>10. Ids(r) = Ids(tree) \cup Ids(s)
  <2>1. ASSUME NEW k \in 1..n+m
        PROVE  r[k].id \in Ids(tree) \cup Ids(s)
    <3>1. CASE k \in 1..at
      <4>1. k \in 1..n /\ r[k] = tree[k]
        BY <1>2, <1>8, <3>1
      <4>. QED
        BY <1>2, <4>1 DEF Ids
    <3>2. CASE k - at \in 1..m /\ at + (k - at) = k
      <4>1. r[k] = s[k - at]
        BY <1>8, <3>2
      <4>. QED
        BY <1>4, <3>2, <4>1 DEF Ids
    <3>3. CASE k - m \in at+1..n /\ m + (k - m) = k
      <4>1. r[k] = tree[k - m] /\ k - m \in 1..n
        BY <1>2, <1>8, <3>3
      <4>. QED
        BY <1>2, <4>1 DEF Ids
    <3>. QED
      BY <1>2, <3>1, <3>2, <3>3, SplicePlaces
  <2>2. ASSUME NEW k \in 1..n
        PROVE  tree[k].id \in Ids(r)
    <3>1. CASE k <= at
      <4>1. k \in 1..at /\ k \in 1..n+m
        BY <1>2, <3>1
      <4>2. r[k] = tree[k]
        BY <1>8, <4>1
      <4>. QED
        BY <1>9, <4>1, <4>2 DEF Ids
    <3>2. CASE k > at
      <4>1. k \in at+1..n /\ m + k \in 1..n+m
        BY <1>2, <3>2
      <4>2. r[m + k] = tree[k]
        BY <1>8, <4>1
      <4>. QED
        BY <1>9, <4>1, <4>2 DEF Ids
    <3>. QED
      BY <1>2, <3>1, <3>2
  <2>3. ASSUME NEW k \in 1..m
        PROVE  s[k].id \in Ids(r)
    <3>1. at + k \in 1..n+m /\ r[at + k] = s[k]
      BY <1>2, <1>8
    <3>. QED
      BY <1>9, <3>1 DEF Ids
  <2>4. \A id \in Ids(r) : \E k \in 1..n+m : id = r[k].id
    BY <1>9 DEF Ids
  <2>5. \A id \in Ids(tree) : \E k \in 1..n : id = tree[k].id
    BY <1>2 DEF Ids
  <2>6. \A id \in Ids(s) : \E k \in 1..m : id = s[k].id
    BY <1>4 DEF Ids
  <2>. QED
    BY <2>1, <2>2, <2>3, <2>4, <2>5, <2>6
<1>11. InsertAt(tree, sub, parent, index) = r
  BY DEF InsertAt, r, s, at, d
<1>. QED
  BY <1>5, <1>7, <1>8, <1>10, <1>11 DEF n, m

\* A well tree whose ids come from the first n seeds.
Grown(tree, n) ==
    /\ Well(tree) /\ WithinLimits(tree)
    /\ \A id \in Ids(tree) : id[1] <= n

LEMMA GrownMore ==
    ASSUME NEW tree, NEW n \in Nat, Grown(tree, n)
    PROVE  Grown(tree, n + 1)
<1>1. tree \in Trees
  BY DEF Grown, Well
<1>2. \A id \in Ids(tree) : id \in NodeId
  BY <1>1, Indexed
<1>3. \A id \in Ids(tree) : id[1] <= n + 1
  <2>1. ASSUME NEW id \in Ids(tree)
        PROVE  id[1] <= n + 1
    <3>1. id[1] \in Nat /\ id[1] <= n
      BY <1>2 DEF NodeId, Grown
    <3>. QED
      BY <3>1
  <2>. QED
    BY <2>1
<1>. QED
  BY <1>3 DEF Grown

\* Ids of a new seed are nobody's.
LEMMA SeedApart ==
    ASSUME NEW tree \in Trees, NEW n \in Nat, Grown(tree, n),
           NEW sub \in Trees, HasSeed(sub, n + 1)
    PROVE  /\ Ids(tree) \cap Ids(sub) = {}
           /\ \A id \in Ids(sub) : id[1] = n + 1
<1>1. \A id \in Ids(sub) : id[1] = n + 1
  BY DEF HasSeed, Ids
<1>2. \A id \in Ids(tree) : id[1] \in Nat /\ id[1] <= n
  BY Indexed DEF NodeId, Grown
<1>. QED
  BY <1>1, <1>2

LEMMA InsertGrown ==
    ASSUME NEW tree \in Trees, NEW n \in Nat, Grown(tree, n),
           NEW sub \in Trees, Branch(sub), HasSeed(sub, n + 1),
           NEW parent, Exists(tree, parent), NEW index \in Nat,
           Stands(TypeOfParent(tree, parent), sub[1].type),
           Limited(InsertAt(tree, sub, parent, index)) # None
    PROVE  Grown(Limited(InsertAt(tree, sub, parent, index)), n + 1)
<1>. DEFINE r == InsertAt(tree, sub, parent, index)
<1>1. Ids(tree) \cap Ids(sub) = {} /\ \A id \in Ids(sub) : id[1] = n + 1
  BY SeedApart
<1>2. Well(r) /\ Ids(r) = Ids(tree) \cup Ids(sub)
  BY <1>1, InsertWell DEF Grown
<1>. HIDE DEF r
<1>3. WithinLimits(r) /\ Limited(r) = r
  BY DEF Limited, r
<1>4. \A id \in Ids(tree) : id[1] <= n + 1
  BY GrownMore DEF Grown
<1>5. \A id \in Ids(sub) : id[1] <= n + 1
  BY <1>1
<1>. QED
  BY <1>2, <1>3, <1>4, <1>5 DEF Grown, r

LEMMA OnlyRegistered ==
    ASSUME NEW parentType, NEW type, CanNest(parentType, type)
    PROVE  type \in Types
  BY TreeConstants DEF CanNest

LEMMA NewGrown ==
    ASSUME NEW tree \in Trees, NEW n \in Nat, Grown(tree, n), NEW type,
           NEW parent, NEW index \in Nat,
           InsertNew(tree, type, n + 1, parent, index) # None
    PROVE  Grown(InsertNew(tree, type, n + 1, parent, index), n + 1)
<1>. DEFINE f == Fresh(type, n + 1)
<1>1. /\ Exists(tree, parent) /\ CanNest(TypeOfParent(tree, parent), type)
      /\ InsertNew(tree, type, n + 1, parent, index)
           = Limited(InsertAt(tree, f, parent, index))
  BY DEF InsertNew
<1>2. f \in Trees /\ Branch(f) /\ HasSeed(f, n + 1) /\ f[1].type = type
  BY <1>1, OnlyRegistered, FreshBranch
<1>3. Stands(TypeOfParent(tree, parent), f[1].type)
  BY <1>1, <1>2 DEF Stands
<1>. HIDE DEF f
<1>. QED
  BY <1>1, <1>2, <1>3, InsertGrown

LEMMA ParentOf ==
    ASSUME NEW tree \in Trees, Well(tree), NEW i \in 1..Len(tree)
    PROVE  /\ Exists(tree, ParentAt(tree, i))
           /\ Stands(TypeOfParent(tree, ParentAt(tree, i)), tree[i].type)
<1>1. Nests(tree, i) /\ IsForest(tree) /\ Distinct(tree)
  BY TreeShape DEF Well
<1>2. CASE Above(tree, i) = {} /\ ParentAt(tree, i) = None
  <2>1. Stands(None, tree[i].type)
    BY <1>1, <1>2, RootDepth DEF Nests
  <2>. QED
    BY <1>2, <2>1 DEF Exists, TypeOfParent
<1>3. ASSUME NEW p \in 1..i-1, IsParent(tree, p, i), ParentAt(tree, i) = tree[p].id
      PROVE  /\ Exists(tree, ParentAt(tree, i))
             /\ Stands(TypeOfParent(tree, ParentAt(tree, i)), tree[i].type)
  <2>1. p \in 1..Len(tree) /\ p \in DOMAIN tree
    BY TreeShape
  <2>2. tree[p].id # None /\ tree[p].type # None
    BY <2>1, TreeShape, NoneApart
  <2>3. tree[p].id \in Ids(tree) /\ IndexOf(tree, tree[p].id) = p
    BY <1>1, <2>1, OwnIndex
  <2>4. Stands(tree[p].type, tree[i].type)
    BY <1>1, <1>3, <2>1 DEF Nests
  <2>. QED
    BY <1>3, <2>2, <2>3, <2>4 DEF Exists, TypeOfParent
<1>. QED
  BY <1>2, <1>3, Parents

LEMMA DuplicateGrown ==
    ASSUME NEW tree \in Trees, NEW n \in Nat, Grown(tree, n), NEW id,
           DuplicateNode(tree, id, n + 1) # None
    PROVE  Grown(DuplicateNode(tree, id, n + 1), n + 1)
<1>. DEFINE i == IndexOf(tree, id)
            c == Copy(SubtreeAt(tree, i), n + 1)
<1>1. /\ id \in Ids(tree)
      /\ DuplicateNode(tree, id, n + 1)
           = Limited(InsertAt(tree, c, ParentAt(tree, i), SiblingIndex(tree, i) + 1))
  BY DEF DuplicateNode
<1>2. i \in 1..Len(tree) /\ Well(tree)
  BY <1>1, Indexed DEF Grown
<1>. HIDE DEF i
<1>3. /\ SubtreeAt(tree, i) \in Trees /\ Branch(SubtreeAt(tree, i))
      /\ 1 \in 1..Len(SubtreeAt(tree, i)) /\ SubtreeAt(tree, i)[1] = tree[i]
  <2>1. EndOf(tree, i) \in i..Len(tree)
    BY <1>2, SubtreeEnd
  <2>2. i + 1 - 1 = i /\ 1 \in 1..EndOf(tree, i)-i+1
    BY <1>2, <2>1, TreeShape
  <2>. QED
    BY <1>2, <2>2, SubtreeShape, SubtreeIsBranch
<1>4. c \in Trees /\ Branch(c) /\ HasSeed(c, n + 1) /\ c[1].type = tree[i].type
  <2>1. n + 1 \in Nat
    OBVIOUS
  <2>. QED
    BY <1>3, <2>1, CopyBranch
<1>. HIDE DEF c
<1>5. /\ Exists(tree, ParentAt(tree, i))
      /\ Stands(TypeOfParent(tree, ParentAt(tree, i)), c[1].type)
  BY <1>2, <1>4, ParentOf
<1>6. SiblingIndex(tree, i) + 1 \in Nat
  BY <1>2, SiblingNumber
<1>. QED
  BY <1>1, <1>4, <1>5, <1>6, InsertGrown

LEMMA RemoveGrown ==
    ASSUME NEW tree \in Trees, NEW n \in Nat, Grown(tree, n), NEW id \in Ids(tree)
    PROVE  Grown(RemoveNode(tree, id), n)
<1>. DEFINE i == IndexOf(tree, id)
            r == RemoveAt(tree, i)
<1>1. id \in Ids(tree) /\ RemoveNode(tree, id) = r
  BY DEF RemoveNode
<1>2. i \in 1..Len(tree) /\ Well(tree) /\ WithinLimits(tree)
  BY <1>1, Indexed DEF Grown
<1>. HIDE DEF i
<1>3. /\ Well(r) /\ Ids(r) = Ids(tree) \ Ids(SubtreeAt(tree, i))
  BY <1>2, CutWell
<1>4. WithinLimits(r)
  <2>. DEFINE w == EndOf(tree, i) - i + 1
  <2>1. /\ r \in Trees /\ Len(r) = Len(tree) - w
        /\ \A k \in 1..i-1 : r[k] = tree[k]
        /\ \A k \in i..Len(tree)-w : r[k] = tree[k + w]
    BY <1>2, CutShape
  <2>2. EndOf(tree, i) \in i..Len(tree) /\ Len(tree) \in Nat
    BY <1>2, SubtreeEnd, TreeShape
  <2>. HIDE DEF r
  <2>3. \A k \in 1..Len(r) : \E l \in 1..Len(tree) : r[k] = tree[l]
    <3>1. ASSUME NEW k \in 1..Len(r)
          PROVE  \E l \in 1..Len(tree) : r[k] = tree[l]
      <4>1. CASE k < i
        <5>1. k \in 1..i-1 /\ k \in 1..Len(tree)
          BY <1>2, <2>2, <4>1
        <5>. QED
          BY <2>1, <5>1
      <4>2. CASE k >= i
        <5>1. k \in i..Len(tree)-w /\ k + w \in 1..Len(tree)
          BY <1>2, <2>1, <2>2, <4>2
        <5>. QED
          BY <2>1, <5>1
      <4>. QED
        BY <1>2, <4>1, <4>2
    <3>. QED
      BY <3>1
  <2>4. Len(r) <= MaxNodes
    BY <1>2, <2>1, <2>2, TreeConstants DEF WithinLimits
  <2>5. DOMAIN r = 1..Len(r) /\ DOMAIN tree = 1..Len(tree)
    BY <2>1, TreeShape
  <2>. QED
    BY <1>2, <2>3, <2>4, <2>5 DEF WithinLimits
<1>5. \A k \in Ids(r) : k[1] <= n
  BY <1>3 DEF Grown
<1>. QED
  BY <1>1, <1>3, <1>4, <1>5 DEF Grown

\* The branch a move takes, what is left without it, and that it fits there.
LEMMA MoveParts ==
    ASSUME NEW tree \in Trees, NEW n \in Nat, Grown(tree, n), NEW id, NEW parent,
           NEW index, MoveNode(tree, id, parent, index) # None
    PROVE  LET i   == IndexOf(tree, id)
               sub == SubtreeAt(tree, i)
               cut == RemoveAt(tree, i)
           IN  /\ id \in Ids(tree) /\ i \in 1..Len(tree) /\ tree[i].id = id
               /\ sub \in Trees /\ Branch(sub) /\ sub[1] = tree[i]
               /\ cut \in Trees /\ Well(cut) /\ Ids(cut) \cap Ids(sub) = {}
               /\ Exists(cut, parent) /\ parent \notin Ids(sub)
               /\ Stands(TypeOfParent(cut, parent), sub[1].type)
               /\ MoveNode(tree, id, parent, index) = InsertAt(cut, sub, parent, index)
<1>. DEFINE i   == IndexOf(tree, id)
            sub == SubtreeAt(tree, i)
            cut == RemoveAt(tree, i)
            r   == InsertAt(cut, sub, parent, index)
<1>1. /\ id \in Ids(tree) /\ Exists(tree, parent)
      /\ parent \notin Ids(sub)
      /\ Stands(TypeOfParent(tree, parent), tree[i].type)
      /\ MoveNode(tree, id, parent, index) = Limited(r)
  BY DEF MoveNode, MoveFound, IsCycle, Placed, Stands
<1>2. i \in 1..Len(tree) /\ tree[i].id = id /\ Well(tree)
  BY <1>1, Indexed DEF Grown
<1>3. MoveNode(tree, id, parent, index) = r
  BY <1>1 DEF Limited
<1>. HIDE DEF i
<1>4. sub \in Trees /\ Branch(sub) /\ sub[1] = tree[i]
  <2>1. EndOf(tree, i) \in i..Len(tree)
    BY <1>2, SubtreeEnd
  <2>2. i + 1 - 1 = i /\ 1 \in 1..EndOf(tree, i)-i+1
    BY <1>2, <2>1, TreeShape
  <2>. QED
    BY <1>2, <2>2, SubtreeShape, SubtreeIsBranch
<1>5. /\ Well(cut) /\ Ids(cut) = Ids(tree) \ Ids(sub)
      /\ \A k \in Ids(cut) : TypeOfParent(cut, k) = TypeOfParent(tree, k)
  BY <1>2, CutWell
<1>6. Exists(cut, parent) /\ Stands(TypeOfParent(cut, parent), sub[1].type)
  BY <1>1, <1>4, <1>5 DEF Exists, TypeOfParent
<1>7. cut \in Trees /\ Ids(cut) \cap Ids(sub) = {}
  BY <1>5 DEF Well
<1>. HIDE DEF cut, sub, r
<1>. QED
  BY <1>1, <1>2, <1>3, <1>4, <1>5, <1>6, <1>7 DEF i, cut, sub, r

LEMMA MoveGrown ==
    ASSUME NEW tree \in Trees, NEW n \in Nat, Grown(tree, n), NEW id, NEW parent,
           NEW index \in Nat, MoveNode(tree, id, parent, index) # None
    PROVE  /\ Grown(MoveNode(tree, id, parent, index), n)
           /\ Ids(MoveNode(tree, id, parent, index)) = Ids(tree)
<1>. DEFINE i   == IndexOf(tree, id)
            sub == SubtreeAt(tree, i)
            cut == RemoveAt(tree, i)
            r   == InsertAt(cut, sub, parent, index)
<1>1. MoveNode(tree, id, parent, index) = Limited(r)
  BY DEF MoveNode, MoveFound, Placed
<1>2. /\ i \in 1..Len(tree)
      /\ sub \in Trees /\ Branch(sub)
      /\ cut \in Trees /\ Well(cut) /\ Ids(cut) \cap Ids(sub) = {}
      /\ Exists(cut, parent) /\ Stands(TypeOfParent(cut, parent), sub[1].type)
  BY MoveParts
<1>3. Well(tree)
  BY DEF Grown
<1>. HIDE DEF i
<1>4. Ids(cut) = Ids(tree) \ Ids(sub)
  BY <1>2, <1>3, CutWell
<1>5. Ids(sub) \subseteq Ids(tree)
  <2>1. /\ EndOf(tree, i) \in i..Len(tree) /\ Len(sub) = EndOf(tree, i) - i + 1
        /\ \A k \in 1..EndOf(tree, i)-i+1 : sub[k] = tree[i + k - 1]
    BY <1>2, SubtreeEnd, SubtreeShape
  <2>. HIDE DEF sub
  <2>2. DOMAIN sub = 1..Len(sub) /\ DOMAIN tree = 1..Len(tree)
    BY <1>2, TreeShape
  <2>3. ASSUME NEW k \in 1..Len(sub)
        PROVE  sub[k].id \in Ids(tree)
    <3>1. i + k - 1 \in 1..Len(tree) /\ sub[k] = tree[i + k - 1]
      BY <1>2, <2>1, TreeShape
    <3>. QED
      BY <2>2, <3>1 DEF Ids
  <2>. QED
    BY <2>2, <2>3 DEF Ids
<1>. HIDE DEF cut, sub
<1>6. Well(r) /\ Ids(r) = Ids(cut) \cup Ids(sub)
  BY <1>2, InsertWell
<1>. HIDE DEF r
<1>7. Ids(r) = Ids(tree)
  BY <1>4, <1>5, <1>6
<1>8. WithinLimits(r) /\ Limited(r) = r
  BY <1>1 DEF Limited
<1>9. \A k \in Ids(r) : k[1] <= n
  BY <1>7 DEF Grown
<1>. QED
  BY <1>1, <1>6, <1>7, <1>8, <1>9 DEF Grown

LEMMA StepGrown ==
    ASSUME NEW tree \in Trees, NEW n \in Nat, Grown(tree, n), NEW id, NEW step,
           StepNode(tree, id, step) # None
    PROVE  Grown(StepNode(tree, id, step), n)
<1>. DEFINE i == IndexOf(tree, id)
            parent == ParentAt(tree, i)
            index  == SiblingIndex(tree, i) + step
<1>1. /\ index \in 0..Cardinality(ChildrenOf(tree, parent)) - 1
      /\ StepNode(tree, id, step) = MoveNode(tree, id, parent, index)
  BY DEF StepNode
<1>. HIDE DEF parent, index
<1>2. index \in Nat
  BY <1>1, ChildrenFinite
<1>. QED
  BY <1>1, <1>2, MoveGrown

\* A change of what a node shows leaves the node where it is.
LEMMA SameShapeGrown ==
    ASSUME NEW tree \in Trees, NEW n \in Nat, Grown(tree, n), NEW new \in Trees,
           Len(new) = Len(tree),
           \A k \in 1..Len(tree) : /\ new[k].id = tree[k].id /\ new[k].type = tree[k].type
                                   /\ new[k].depth = tree[k].depth
    PROVE  Grown(new, n) /\ Ids(new) = Ids(tree)
<1>1. /\ DOMAIN tree = 1..Len(tree) /\ DOMAIN new = 1..Len(tree) /\ Len(tree) \in Nat
  BY TreeShape
<1>2. Well(tree) /\ WithinLimits(tree)
  BY DEF Grown
<1>3. IsForest(new)
  BY <1>1, <1>2, ForestSteps DEF Well
<1>4. Distinct(new)
  BY <1>1, <1>2 DEF Well, Distinct
<1>5. ASSUME NEW i \in 1..Len(tree)
      PROVE  Nests(new, i)
  <2>1. ASSUME NEW p \in 1..Len(tree), IsParent(new, p, i)
        PROVE  IsParent(tree, p, i)
    <3>1. \A j \in p..i-1 : j \in 1..Len(tree)
      BY <1>1
    <3>. QED
      BY <1>1, <2>1, <3>1 DEF IsParent
  <2>2. Nests(tree, i)
    BY <1>1, <1>2 DEF Well
  <2>. QED
    BY <1>1, <2>1, <2>2 DEF Nests
<1>6. Well(new)
  BY <1>1, <1>3, <1>4, <1>5 DEF Well
<1>7. WithinLimits(new)
  BY <1>1, <1>2 DEF WithinLimits
<1>8. Ids(new) = Ids(tree)
  BY <1>1 DEF Ids
<1>. QED
  BY <1>6, <1>7, <1>8 DEF Grown

LEMMA TextGrown ==
    ASSUME NEW tree \in Trees, NEW n \in Nat, Grown(tree, n), NEW id \in Ids(tree)
    PROVE  Grown(WithText(tree, id), n)
<1>. DEFINE i == IndexOf(tree, id)
            x == [tree[i] EXCEPT !.text = 1 - @]
<1>1. i \in 1..Len(tree) /\ tree[i] \in Node
  BY Indexed, TreeShape
<1>2. WithText(tree, id) = [tree EXCEPT ![i] = x]
  BY DEF WithText
<1>. HIDE DEF i
<1>3. /\ x \in Node /\ x.id = tree[i].id /\ x.type = tree[i].type
      /\ x.depth = tree[i].depth
  <2>1. \A t \in 0..1 : 1 - t \in 0..1
    OBVIOUS
  <2>. QED
    BY <1>1, <2>1 DEF Node
<1>. HIDE DEF x
<1>4. /\ [tree EXCEPT ![i] = x] \in Trees
      /\ Len([tree EXCEPT ![i] = x]) = Len(tree)
      /\ \A k \in 1..Len(tree) :
           [tree EXCEPT ![i] = x][k] = IF k = i THEN x ELSE tree[k]
  BY <1>1, <1>3, ExceptSeq DEF Trees
<1>. QED
  BY <1>2, <1>3, <1>4, SameShapeGrown

LEMMA VisibleGrown ==
    ASSUME NEW tree \in Trees, NEW n \in Nat, Grown(tree, n), NEW id \in Ids(tree)
    PROVE  Grown(WithVisible(tree, id), n)
<1>. DEFINE i == IndexOf(tree, id)
            x == [tree[i] EXCEPT !.visible = ~@]
<1>1. i \in 1..Len(tree) /\ tree[i] \in Node
  BY Indexed, TreeShape
<1>2. WithVisible(tree, id) = [tree EXCEPT ![i] = x]
  BY DEF WithVisible
<1>. HIDE DEF i
<1>3. /\ x \in Node /\ x.id = tree[i].id /\ x.type = tree[i].type
      /\ x.depth = tree[i].depth
  BY <1>1 DEF Node
<1>. HIDE DEF x
<1>4. /\ [tree EXCEPT ![i] = x] \in Trees
      /\ Len([tree EXCEPT ![i] = x]) = Len(tree)
      /\ \A k \in 1..Len(tree) :
           [tree EXCEPT ![i] = x][k] = IF k = i THEN x ELSE tree[k]
  BY <1>1, <1>3, ExceptSeq DEF Trees
<1>. QED
  BY <1>2, <1>3, <1>4, SameShapeGrown

\* The index a target stands for is a number: what was lifted out stood before it.
LEMMA IndexForType ==
    ASSUME NEW tree \in Trees, NEW active, NEW target \in Target, IsPlaced(tree, target)
    PROVE  IndexFor(tree, active, target) \in Nat
<1>1. target.index \in Nat
  BY DEF Target
<1>2. CASE target.kind \in {"root", "inside"}
  BY <1>1, <1>2 DEF IndexFor
<1>3. CASE target.kind \notin {"root", "inside"}
  <2>. DEFINE at == IndexOf(tree, target.id)
              a  == IndexOf(tree, active.id)
  <2>1. at \in 1..Len(tree)
    BY <1>3, Indexed DEF IsPlaced
  <2>. HIDE DEF at
  <2>2. SiblingIndex(tree, at) \in Nat
    BY <2>1, SiblingNumber
  <2>3. Lifted(tree, active, at) \in {0, 1}
    BY DEF Lifted
  <2>4. Lifted(tree, active, at) = 1 => SiblingIndex(tree, at) >= 1
    <3>1. SUFFICES ASSUME Lifted(tree, active, at) = 1
                   PROVE  SiblingIndex(tree, at) # 0
      BY <2>2
    <3>2. a \in 1..at-1 /\ ParentAt(tree, a) = ParentAt(tree, at)
      <4>1. active.id \in Ids(tree) /\ ParentAt(tree, a) = ParentAt(tree, at) /\ a < at
        BY <3>1 DEF Lifted
      <4>2. a \in 1..Len(tree)
        BY <4>1, Indexed
      <4>. QED
        BY <2>1, <4>1, <4>2, TreeShape
    <3>. DEFINE S == {j \in 1..at-1 : ParentAt(tree, j) = ParentAt(tree, at)}
    <3>3. S # {}
      BY <3>2
    <3>4. IsFiniteSet(S)
      <4>1. IsFiniteSet(1..at-1)
        BY <2>1, FS_Interval, TreeShape
      <4>2. S \in SUBSET (1..at-1)
        OBVIOUS
      <4>. QED
        BY <4>1, <4>2, FS_Subset
    <3>5. Cardinality(S) # 0
      <4>. HIDE DEF S
      <4>. QED
        BY <3>3, <3>4, FS_EmptySet
    <3>. QED
      BY <3>5 DEF SiblingIndex
  <2>5. IndexFor(tree, active, target)
          = SiblingIndex(tree, at) + (IF target.kind = "after" THEN 1 ELSE 0)
              - Lifted(tree, active, at)
    BY <1>3 DEF IndexFor, at
  <2>. QED
    BY <2>2, <2>3, <2>4, <2>5
<1>. QED
  BY <1>2, <1>3

LEMMA DropGrown ==
    ASSUME NEW tree \in Trees, NEW n \in Nat, Grown(tree, n), NEW active \in Drag,
           NEW target \in Target, ApplyDrop(tree, active, target, n + 1) # None
    PROVE  Grown(ApplyDrop(tree, active, target, n + 1), n + 1)
<1>1. IsPlaced(tree, target)
  BY DEF ApplyDrop
<1>2. IndexFor(tree, active, target) \in Nat
  BY <1>1, IndexForType
<1>3. CASE active.id = None
  <2>1. ApplyDrop(tree, active, target, n + 1)
          = InsertNew(tree, active.type, n + 1, target.parent, IndexFor(tree, active, target))
    BY <1>1, <1>3 DEF ApplyDrop
  <2>. QED
    BY <1>1, <1>2, <2>1, NewGrown
<1>4. CASE active.id # None
  <2>1. ApplyDrop(tree, active, target, n + 1)
          = MoveNode(tree, active.id, target.parent, IndexFor(tree, active, target))
    BY <1>1, <1>4 DEF ApplyDrop
  <2>. QED
    BY <1>2, <2>1, MoveGrown, GrownMore
<1>. QED
  BY <1>3, <1>4

\* What a well tree comes to: twin ids, a limit passed and a misplaced component are out.
LEMMA GrownIsSound ==
    ASSUME NEW tree, NEW n \in Nat, Grown(tree, n)
    PROVE  HasUniqueIds(tree) /\ WithinLimits(tree) /\ Faults(tree) \subseteq OldFaults
<1>1. /\ tree \in Trees /\ Well(tree) /\ WithinLimits(tree) /\ Distinct(tree)
  BY DEF Grown, Well
<1>2. ASSUME NEW i \in DOMAIN tree
      PROVE  Stands(TypeOfParent(tree, ParentAt(tree, i)), tree[i].type)
  BY <1>1, ParentOf, TreeShape
<1>3. Cardinality(Ids(tree)) = Len(tree)
  <2>. DEFINE f == [i \in 1..Len(tree) |-> tree[i].id]
  <2>1. f \in Bijection(1..Len(tree), Ids(tree))
    <3>1. \A i, j \in 1..Len(tree) : tree[i].id = tree[j].id => i = j
      BY <1>1, TreeShape DEF Distinct
    <3>2. \A id \in Ids(tree) : \E i \in 1..Len(tree) : tree[i].id = id
      BY <1>1, TreeShape DEF Ids
    <3>3. \A i \in 1..Len(tree) : tree[i].id \in Ids(tree)
      BY <1>1, TreeShape DEF Ids
    <3>. QED
      BY <3>1, <3>2, <3>3 DEF Bijection, Injection, Surjection, IsInjective
  <2>2. ExistsBijection(1..Len(tree), Ids(tree))
    BY <2>1 DEF ExistsBijection
  <2>3. IsFiniteSet(1..Len(tree)) /\ Cardinality(1..Len(tree)) = Len(tree)
    <3>. DEFINE m == Len(tree)
    <3>1. m \in Nat
      BY <1>1, TreeShape
    <3>. HIDE DEF m
    <3>2. IsFiniteSet(1..m) /\ Cardinality(1..m) = m
      BY <3>1, FS_Interval
    <3>. QED
      BY <3>2 DEF m
  <2>. QED
    BY <2>2, <2>3, FS_Bijection
<1>4. ASSUME NEW pair \in Faults(tree)
      PROVE  pair \in OldFaults
  <2>1. PICK i \in DOMAIN tree :
          pair = <<TypeOfParent(tree, ParentAt(tree, i)), tree[i].type>>
    BY DEF Faults
  <2>2. ~CanNest(pair[1], pair[2])
    BY DEF Faults
  <2>3. pair[1] = TypeOfParent(tree, ParentAt(tree, i)) /\ pair[2] = tree[i].type
    BY <2>1
  <2>4. Stands(pair[1], pair[2]) /\ pair = <<pair[1], pair[2]>>
    BY <1>2, <2>1, <2>3
  <2>. QED
    BY <2>2, <2>4 DEF Stands
<1>. QED
  BY <1>1, <1>3, <1>4 DEF HasUniqueIds

\* The content of a tree is counted.
LEMMA ContentNumber ==
    ASSUME NEW tree \in Trees
    PROVE  Content(tree) \in Nat
<1>1. DOMAIN tree = 1..Len(tree) /\ Len(tree) \in Nat
  BY TreeShape
<1>2. IsFiniteSet(DOMAIN tree)
  BY <1>1, FS_Interval
<1>. QED
  BY <1>2, FS_Subset, FS_CardinalityType DEF Content

\* A page as it is loaded.
LEMMA PageGrown ==
    ASSUME NEW tree \in Trees, HasUniqueIds(tree), WithinLimits(tree), IsForest(tree),
           Faults(tree) \subseteq OldFaults,
           \A i \in DOMAIN tree : tree[i].id[1] = 0
    PROVE  Grown(tree, 0)
<1>1. DOMAIN tree = 1..Len(tree) /\ Len(tree) \in Nat
  BY TreeShape
<1>2. Distinct(tree)
  <2>. DEFINE f == [i \in 1..Len(tree) |-> tree[i].id]
  <2>1. f \in Surjection(1..Len(tree), Ids(tree))
    <3>1. \A id \in Ids(tree) : \E i \in 1..Len(tree) : tree[i].id = id
      BY <1>1 DEF Ids
    <3>2. \A i \in 1..Len(tree) : tree[i].id \in Ids(tree)
      BY <1>1 DEF Ids
    <3>. QED
      BY <3>1, <3>2 DEF Surjection
  <2>2. IsFiniteSet(1..Len(tree)) /\ Cardinality(1..Len(tree)) = Len(tree)
    BY <1>1, FS_Interval
  <2>3. f \in Injection(1..Len(tree), Ids(tree))
    <3>. HIDE DEF f
    <3>. QED
      BY <2>1, <2>2, FS_Surjection DEF HasUniqueIds
  <2>4. \A i, j \in 1..Len(tree) : f[i] = f[j] => i = j
    BY <2>3 DEF Injection, IsInjective
  <2>. QED
    BY <1>1, <2>4 DEF Distinct
<1>3. ASSUME NEW i \in 1..Len(tree)
      PROVE  Nests(tree, i)
  <2>1. Stands(TypeOfParent(tree, ParentAt(tree, i)), tree[i].type)
    <3>. DEFINE pair == <<TypeOfParent(tree, ParentAt(tree, i)), tree[i].type>>
    <3>1. CanNest(pair[1], pair[2]) \/ pair \in Faults(tree)
      BY <1>1 DEF Faults
    <3>. QED
      BY <3>1 DEF Stands
  <2>2. CASE Above(tree, i) = {} /\ ParentAt(tree, i) = None
                 /\ \A p \in DOMAIN tree : ~IsParent(tree, p, i)
    BY <2>1, <2>2 DEF Nests, TypeOfParent
  <2>3. ASSUME NEW p \in 1..i-1, Above(tree, i) # {}, ParentAt(tree, i) = tree[p].id,
               \A q \in DOMAIN tree : IsParent(tree, q, i) => q = p
        PROVE  Nests(tree, i)
    <3>1. p \in 1..Len(tree)
      BY <1>1
    <3>2. tree[p].id # None /\ tree[p].type # None
      BY <3>1, TreeShape, NoneApart
    <3>3. IndexOf(tree, tree[p].id) = p
      BY <1>2, <3>1, OwnIndex
    <3>4. Stands(tree[p].type, tree[i].type)
      BY <2>1, <2>3, <3>2, <3>3 DEF TypeOfParent
    <3>5. tree[i].depth # 0
      BY <2>3, RootDepth
    <3>. QED
      BY <2>3, <3>4, <3>5 DEF Nests
  <2>. QED
    BY <2>2, <2>3, Parents
<1>4. \A id \in Ids(tree) : id[1] <= 0
  BY DEF Ids
<1>. QED
  BY <1>1, <1>2, <1>3, <1>4 DEF Grown, Well

-----------------------------------------------------------------------------
(* The history of a document.                                              *)

HistorySize(d) == Len(d.past) + Len(d.future)

\* A document that fits the history, and whose trees come from the first n seeds.
DocSound(d, n) ==
    /\ d \in Document
    /\ HistorySize(d) <= MaxHistory
    /\ \A i \in DOMAIN d.past : Grown(d.past[i], n)
    /\ \A i \in DOMAIN d.future : Grown(d.future[i], n)
    /\ Grown(d.present, n)
    /\ Grown(d.saved, n)

\* The oldest tree an editor can undo to.
Oldest(d) == IF d.past = <<>> THEN d.present ELSE d.past[1]

\* From d to e no more than k undo steps were added, and none lost if there was room.
Keeps(d, e, k) ==
    /\ HistorySize(e) <= HistorySize(d) + k
    /\ HistorySize(d) + k <= MaxHistory => Oldest(e) = Oldest(d)
    /\ e.typing => e.past # <<>>

LEMMA DocMore ==
    ASSUME NEW d, NEW n \in Nat, DocSound(d, n)
    PROVE  DocSound(d, n + 1)
  BY GrownMore DEF DocSound

LEMMA DocFields ==
    ASSUME NEW d \in Document
    PROVE  /\ d.past \in Seq(Trees) /\ d.future \in Seq(Trees)
           /\ d.present \in Trees /\ d.saved \in Trees
           /\ d.typing \in BOOLEAN /\ d.saving \in BOOLEAN /\ d.version \in Nat \ {0}
           /\ Len(d.past) \in Nat /\ Len(d.future) \in Nat
           /\ DOMAIN d.past = 1..Len(d.past) /\ DOMAIN d.future = 1..Len(d.future)
           /\ d.past # <<>> => Len(d.past) # 0
           /\ d.future # <<>> => Len(d.future) # 0
<1>1. d.past \in Seq(Trees) /\ d.future \in Seq(Trees)
      /\ d.present \in Trees /\ d.saved \in Trees
      /\ d.typing \in BOOLEAN /\ d.saving \in BOOLEAN /\ d.version \in Nat \ {0}
  BY DEF Document
<1>2. \A S : \A q \in Seq(S) : /\ Len(q) \in Nat /\ DOMAIN q = 1..Len(q)
                               /\ q # <<>> => Len(q) # 0
  BY EmptySeq, LenProperties
<1>. QED
  BY <1>1, <1>2

LEMMA SizeOf ==
    ASSUME NEW d \in Document
    PROVE  \E a, b \in Nat : a = Len(d.past) /\ b = Len(d.future) /\ HistorySize(d) = a + b
<1>. DEFINE a == Len(d.past)
            b == Len(d.future)
<1>1. a \in Nat /\ b \in Nat
  BY DocFields
<1>2. HistorySize(d) = a + b
  BY DEF HistorySize
<1>. QED
  BY <1>1, <1>2

\* What is pushed is the newest; the oldest goes when there is no room.
LEMMA PushedShape ==
    ASSUME NEW past \in Seq(Trees), Len(past) <= MaxHistory, NEW tree \in Trees
    PROVE  LET p == Pushed(past, tree)
           IN  /\ p \in Seq(Trees) /\ Len(p) \in 1..MaxHistory /\ p # <<>>
               /\ Len(p) <= Len(past) + 1
               /\ \A i \in 1..Len(p) : p[i] = tree \/ \E j \in 1..Len(past) : p[i] = past[j]
               /\ Len(past) < MaxHistory =>
                    p[1] = IF past = <<>> THEN tree ELSE past[1]
<1>. DEFINE a == Append(past, tree)
            n == Len(past)
            k == IF n < MaxHistory THEN 1 ELSE 2
            p == SubSeq(a, k, n + 1)
<1>1. n \in Nat /\ MaxHistory \in Nat \ {0} /\ (past # <<>> => n # 0) /\ n <= MaxHistory
  BY EditorConstants, EmptySeq, LenProperties
<1>2. /\ a \in Seq(Trees) /\ Len(a) = n + 1
      /\ \A i \in 1..n : a[i] = past[i]
      /\ a[n + 1] = tree
  BY AppendProperties
<1>. HIDE DEF a, n
<1>3. \A i \in k..n+1 : a[i] \in Trees
  <2>1. \A i \in 1..n+1 : a[i] \in Trees
    BY <1>1, <1>2
  <2>. QED
    BY <1>1, <2>1
<1>4. /\ p \in Seq(Trees) /\ Len(p) = IF k <= n + 1 THEN n + 1 - k + 1 ELSE 0
      /\ \A i \in 1..n+1-k+1 : p[i] = a[k + i - 1]
  BY <1>1, <1>3, SubSeqProperties
<1>. HIDE DEF p
<1>5. Len(p) = n + 2 - k /\ Len(p) \in 1..MaxHistory /\ Len(p) <= n + 1
  BY <1>1, <1>4
<1>6. ASSUME NEW i \in 1..Len(p)
      PROVE  p[i] = tree \/ \E j \in 1..n : p[i] = past[j]
  <2>1. p[i] = a[k + i - 1] /\ k + i - 1 \in 1..n+1
    BY <1>1, <1>4, <1>5
  <2>2. CASE k + i - 1 = n + 1
    BY <1>2, <2>1, <2>2
  <2>3. CASE k + i - 1 \in 1..n
    <3>. DEFINE j == k + i - 1
    <3>1. j \in 1..n /\ p[i] = past[j]
      BY <1>2, <2>1, <2>3
    <3>. QED
      BY <3>1
  <2>. QED
    BY <1>1, <2>1, <2>2, <2>3
<1>7. ASSUME n < MaxHistory
      PROVE  p[1] = IF past = <<>> THEN tree ELSE past[1]
  <2>1. k = 1 /\ p[1] = a[1]
    BY <1>1, <1>4, <1>7
  <2>2. CASE past = <<>>
    <3>1. n = 0
      BY <2>2 DEF n
    <3>. QED
      BY <1>2, <2>1, <2>2, <3>1
  <2>3. CASE past # <<>>
    <3>1. 1 \in 1..n
      BY <1>1, <2>3
    <3>. QED
      BY <1>2, <2>1, <2>3, <3>1
  <2>. QED
    BY <2>2, <2>3
<1>8. p # <<>>
  BY <1>4, <1>5
<1>9. p = Pushed(past, tree)
  BY DEF Pushed, p, a, n
<1>. QED
  BY <1>4, <1>5, <1>6, <1>7, <1>8, <1>9 DEF n

LEMMA CommittedSound ==
    ASSUME NEW d, NEW n \in Nat, DocSound(d, n), NEW tree, Grown(tree, n)
    PROVE  /\ DocSound(Committed(d, tree), n)
           /\ Keeps(d, Committed(d, tree), 1)
           /\ Committed(d, tree).past # <<>>
           /\ TreesOf(Committed(d, tree)) \subseteq TreesOf(d) \cup {tree}
<1>. DEFINE e == Committed(d, tree)
            p == Pushed(d.past, d.present)
<1>1. d \in Document /\ tree \in Trees /\ MaxHistory \in Nat
  BY EditorConstants DEF DocSound, Grown, Well
<1>2. Len(d.past) <= MaxHistory
  <2>1. PICK a, b \in Nat : a = Len(d.past) /\ b = Len(d.future) /\ HistorySize(d) = a + b
    BY <1>1, SizeOf
  <2>2. a + b <= MaxHistory
    BY <2>1 DEF DocSound
  <2>3. a <= MaxHistory
    BY <1>1, <2>2
  <2>. QED
    BY <2>1, <2>3
<1>3. /\ p \in Seq(Trees) /\ Len(p) \in 1..MaxHistory /\ p # <<>>
      /\ Len(p) <= Len(d.past) + 1 /\ DOMAIN p = 1..Len(p)
      /\ \A i \in 1..Len(p) : p[i] = d.present \/ \E j \in 1..Len(d.past) : p[i] = d.past[j]
      /\ Len(d.past) < MaxHistory =>
           p[1] = IF d.past = <<>> THEN d.present ELSE d.past[1]
  <2>1. d.past \in Seq(Trees) /\ d.present \in Trees
    BY <1>1, DocFields
  <2>2. /\ p \in Seq(Trees) /\ Len(p) \in 1..MaxHistory /\ p # <<>>
        /\ Len(p) <= Len(d.past) + 1
        /\ \A i \in 1..Len(p) : p[i] = d.present \/ \E j \in 1..Len(d.past) : p[i] = d.past[j]
        /\ Len(d.past) < MaxHistory =>
             p[1] = IF d.past = <<>> THEN d.present ELSE d.past[1]
    BY <1>2, <2>1, PushedShape
  <2>. HIDE DEF p
  <2>3. DOMAIN p = 1..Len(p)
    BY <2>2
  <2>. QED
    BY <2>2, <2>3
<1>. HIDE DEF p
<1>4. /\ e \in Document
      /\ e.past = p /\ e.present = tree /\ e.future = <<>> /\ e.typing = FALSE
      /\ e.saved = d.saved
  <2>1. /\ d.past \in Seq(Trees) /\ d.present \in Trees /\ <<>> \in Seq(Trees)
        /\ FALSE \in BOOLEAN
    BY <1>1, DocFields
  <2>2. e = [d EXCEPT !.past = p, !.present = tree, !.future = <<>>, !.typing = FALSE]
    BY <1>1 DEF Committed, Document, p
  <2>. HIDE DEF e
  <2>. QED
    BY <1>1, <1>3, <2>1, <2>2 DEF Document
<1>. HIDE DEF e
<1>5. Len(e.future) = 0 /\ Len(d.past) \in Nat /\ Len(d.future) \in Nat
  BY <1>1, <1>4, DocFields
<1>6. \A i \in DOMAIN e.past : Grown(e.past[i], n)
  <2>1. \A j \in 1..Len(d.past) : Grown(d.past[j], n)
    BY <1>1, DocFields DEF DocSound
  <2>2. Grown(d.present, n)
    BY DEF DocSound
  <2>. QED
    BY <1>3, <1>4, <2>1, <2>2
<1>7. DocSound(e, n)
  <2>1. HistorySize(e) <= MaxHistory
    <3>1. PICK i, j \in Nat : i = Len(e.past) /\ j = Len(e.future) /\ HistorySize(e) = i + j
      BY <1>4, SizeOf
    <3>. QED
      BY <1>1, <1>3, <1>4, <1>5, <3>1
  <2>2. \A i \in DOMAIN e.future : Grown(e.future[i], n)
    BY <1>4
  <2>. QED
    BY <1>4, <1>6, <2>1, <2>2 DEF DocSound
<1>8. Keeps(d, e, 1)
  <2>a. PICK a, b \in Nat : a = Len(d.past) /\ b = Len(d.future) /\ HistorySize(d) = a + b
    BY <1>1, SizeOf
  <2>b. PICK i, j \in Nat : i = Len(e.past) /\ j = Len(e.future) /\ HistorySize(e) = i + j
    BY <1>4, SizeOf
  <2>c. i <= a + 1 /\ j = 0
    BY <1>3, <1>4, <1>5, <2>a, <2>b
  <2>1. HistorySize(e) <= HistorySize(d) + 1
    <3>1. i + j <= a + b + 1
      BY <2>c
    <3>. QED
      BY <2>a, <2>b, <3>1
  <2>2. HistorySize(d) + 1 <= MaxHistory => Len(d.past) < MaxHistory
    <3>1. a + b + 1 <= MaxHistory => a < MaxHistory
      BY <1>1
    <3>. QED
      BY <2>a, <3>1
  <2>3. HistorySize(d) + 1 <= MaxHistory => Oldest(e) = Oldest(d)
    BY <1>3, <1>4, <2>2 DEF Oldest
  <2>. QED
    BY <1>4, <2>1, <2>3 DEF Keeps
<1>9. TreesOf(e) \subseteq TreesOf(d) \cup {tree}
  <2>1. DOMAIN d.past = 1..Len(d.past)
    BY <1>1, DocFields
  <2>2. DOMAIN e.future = {} /\ DOMAIN e.past = 1..Len(p)
    BY <1>3, <1>4
  <2>3. \A i \in DOMAIN e.past : e.past[i] = d.present \/ \E j \in DOMAIN d.past : e.past[i] = d.past[j]
    BY <1>3, <1>4, <2>1, <2>2
  <2>. QED
    BY <1>4, <2>2, <2>3 DEF TreesOf
<1>. QED
  BY <1>3, <1>4, <1>7, <1>8, <1>9 DEF e

LEMMA UpdatedSound ==
    ASSUME NEW d, NEW n \in Nat, DocSound(d, n), NEW tree, Grown(tree, n),
           d.typing => d.past # <<>>
    PROVE  LET e == Updated(d, tree)
               f == [e EXCEPT !.typing = FALSE]
               k == IF d.typing THEN 0 ELSE 1
           IN  /\ DocSound(e, n) /\ Keeps(d, e, k)
               /\ DocSound(f, n) /\ Keeps(d, f, k)
               /\ TreesOf(e) \subseteq TreesOf(d) \cup {tree}
               /\ TreesOf(f) \subseteq TreesOf(d) \cup {tree}
<1>. DEFINE e == Updated(d, tree)
            f == [e EXCEPT !.typing = FALSE]
            k == IF d.typing THEN 0 ELSE 1
<1>1. d \in Document /\ tree \in Trees
  BY DEF DocSound, Grown, Well
<1>2. CASE d.typing
  <2>1. e = [d EXCEPT !.present = tree]
    BY <1>2 DEF Updated
  <2>2. /\ e \in Document /\ e.past = d.past /\ e.future = d.future /\ e.present = tree
        /\ e.saved = d.saved
        /\ f \in Document /\ f.past = d.past /\ f.future = d.future /\ f.present = tree
        /\ f.saved = d.saved /\ f.typing = FALSE
    BY <1>1, <2>1 DEF Document
  <2>. HIDE DEF e, f
  <2>3. DocSound(e, n) /\ DocSound(f, n)
    BY <2>2 DEF DocSound, HistorySize
  <2>4. HistorySize(d) \in Nat /\ d.past # <<>>
    BY <1>1, <1>2, SizeOf
  <2>5. Keeps(d, e, 0) /\ Keeps(d, f, 0)
    BY <2>2, <2>4 DEF Keeps, HistorySize, Oldest
  <2>6. /\ TreesOf(e) \subseteq TreesOf(d) \cup {tree}
        /\ TreesOf(f) \subseteq TreesOf(d) \cup {tree}
    BY <2>2 DEF TreesOf
  <2>. QED
    BY <1>2, <2>3, <2>5, <2>6 DEF e, f
<1>3. CASE ~d.typing
  <2>. DEFINE c == Committed(d, tree)
  <2>1. e = [c EXCEPT !.typing = TRUE]
    BY <1>3 DEF Updated
  <2>2. /\ DocSound(c, n) /\ Keeps(d, c, 1) /\ c.past # <<>>
        /\ TreesOf(c) \subseteq TreesOf(d) \cup {tree}
    BY CommittedSound
  <2>. HIDE DEF c
  <2>3. /\ e \in Document /\ e.past = c.past /\ e.future = c.future /\ e.present = c.present
        /\ e.saved = c.saved
        /\ f \in Document /\ f.past = c.past /\ f.future = c.future /\ f.present = c.present
        /\ f.saved = c.saved /\ f.typing = FALSE
    BY <2>1, <2>2 DEF Document, DocSound
  <2>. HIDE DEF e, f
  <2>4. DocSound(e, n) /\ DocSound(f, n)
    BY <2>2, <2>3 DEF DocSound, HistorySize
  <2>5. Keeps(d, e, 1) /\ Keeps(d, f, 1)
    BY <2>2, <2>3 DEF Keeps, HistorySize, Oldest
  <2>6. TreesOf(e) = TreesOf(c) /\ TreesOf(f) = TreesOf(c)
    BY <2>3 DEF TreesOf
  <2>. QED
    BY <1>3, <2>2, <2>4, <2>5, <2>6 DEF e, f
<1>. QED
  BY <1>2, <1>3

LEMMA UndoneSound ==
    ASSUME NEW d, NEW n \in Nat, DocSound(d, n), d.typing => d.past # <<>>
    PROVE  /\ DocSound(Undone(d), n) /\ Keeps(d, Undone(d), 0)
           /\ TreesOf(Undone(d)) \subseteq TreesOf(d)
<1>1. d \in Document /\ MaxHistory \in Nat /\ HistorySize(d) <= MaxHistory
  BY EditorConstants DEF DocSound
<1>2. CASE d.past = <<>>
  <2>1. Undone(d) = d /\ HistorySize(d) \in Nat
    BY <1>1, <1>2, SizeOf DEF Undone
  <2>. QED
    BY <1>2, <2>1 DEF Keeps
<1>3. CASE d.past # <<>>
  <2>. DEFINE m == Len(d.past)
              p == SubSeq(d.past, 1, m - 1)
              q == <<d.present>> \o d.future
              e == [d EXCEPT !.past = p, !.present = d.past[m], !.future = q,
                             !.typing = FALSE]
  <2>1. Undone(d) = e
    BY <1>3 DEF Undone
  <2>2. /\ m \in Nat \ {0} /\ d.past \in Seq(Trees) /\ d.future \in Seq(Trees)
        /\ d.present \in Trees /\ Len(d.future) \in Nat /\ d.past[m] \in Trees
        /\ \A i \in 1..m : d.past[i] \in Trees /\ Grown(d.past[i], n)
        /\ \A i \in 1..Len(d.future) : Grown(d.future[i], n)
    <3>1. /\ m \in Nat \ {0} /\ d.past \in Seq(Trees) /\ d.future \in Seq(Trees)
          /\ d.present \in Trees /\ Len(d.future) \in Nat
          /\ DOMAIN d.past = 1..m /\ DOMAIN d.future = 1..Len(d.future)
      BY <1>1, <1>3, DocFields
    <3>2. \A i \in 1..m : d.past[i] \in Trees
      BY <3>1, ElementOfSeq
    <3>. QED
      BY <3>1, <3>2 DEF DocSound
  <2>. HIDE DEF m
  <2>3. /\ p \in Seq(Trees) /\ Len(p) = m - 1
        /\ \A i \in 1..m-1 : p[i] = d.past[i]
    <3>1. \A i \in 1..m-1 : d.past[i] \in Trees
      BY <2>2
    <3>2. /\ p \in Seq(Trees) /\ Len(p) = IF 1 <= m - 1 THEN m - 1 - 1 + 1 ELSE 0
          /\ \A i \in 1..m-1-1+1 : p[i] = d.past[1 + i - 1]
      BY <2>2, <3>1, SubSeqProperties
    <3>. QED
      BY <2>2, <3>2
  <2>4. /\ q \in Seq(Trees) /\ Len(q) = Len(d.future) + 1
        /\ \A i \in 1..Len(q) : q[i] = d.present
                                  \/ \E j \in 1..Len(d.future) : q[i] = d.future[j]
    <3>1. <<d.present>> \in Seq(Trees) /\ Len(<<d.present>>) = 1
      BY <2>2
    <3>2. /\ q \in Seq(Trees) /\ Len(q) = 1 + Len(d.future)
          /\ \A i \in 1..1+Len(d.future) :
               q[i] = IF i <= 1 THEN <<d.present>>[i] ELSE d.future[i - 1]
      BY <2>2, <3>1, ConcatProperties
    <3>. HIDE DEF q
    <3>3. ASSUME NEW i \in 1..Len(q)
          PROVE  q[i] = d.present \/ \E j \in 1..Len(d.future) : q[i] = d.future[j]
      <4>1. CASE i = 1
        BY <2>2, <3>2, <4>1
      <4>2. CASE i > 1
        <5>1. i - 1 \in 1..Len(d.future) /\ q[i] = d.future[i - 1]
          BY <2>2, <3>2, <4>2
        <5>. QED
          BY <5>1
      <4>. QED
        BY <2>2, <3>2, <4>1, <4>2
    <3>. QED
      BY <2>2, <3>2, <3>3
  <2>. HIDE DEF p, q
  <2>5. /\ e \in Document /\ e.past = p /\ e.future = q /\ e.present = d.past[m]
        /\ e.saved = d.saved /\ e.typing = FALSE
    BY <1>1, <2>2, <2>3, <2>4 DEF Document
  <2>. HIDE DEF e
  <2>6. HistorySize(e) = HistorySize(d)
    <3>1. PICK a, b \in Nat : a = Len(d.past) /\ b = Len(d.future) /\ HistorySize(d) = a + b
      BY <1>1, SizeOf
    <3>2. PICK i, j \in Nat : i = Len(e.past) /\ j = Len(e.future) /\ HistorySize(e) = i + j
      BY <2>5, SizeOf
    <3>3. a = m
      BY <3>1 DEF m
    <3>4. i = a - 1 /\ j = b + 1
      BY <2>3, <2>4, <2>5, <3>1, <3>2, <3>3
    <3>5. i + j = a + b
      BY <3>4
    <3>. QED
      BY <3>1, <3>2, <3>5
  <2>7. DocSound(e, n)
    <3>1. \A i \in DOMAIN p : Grown(p[i], n)
      BY <2>2, <2>3
    <3>2. \A i \in DOMAIN q : Grown(q[i], n)
      BY <2>2, <2>4 DEF DocSound
    <3>3. Grown(d.past[m], n) /\ Grown(d.saved, n)
      BY <2>2 DEF DocSound
    <3>. QED
      BY <1>1, <2>5, <2>6, <3>1, <3>2, <3>3 DEF DocSound
  <2>8. Oldest(e) = Oldest(d)
    <3>1. CASE m = 1
      <4>1. p = <<>>
        BY <2>3, <3>1, EmptySeq
      <4>. QED
        BY <1>3, <2>5, <3>1, <4>1 DEF Oldest
    <3>2. CASE m > 1
      <4>1. p # <<>> /\ p[1] = d.past[1]
        BY <2>2, <2>3, <3>2
      <4>. QED
        BY <1>3, <2>5, <4>1 DEF Oldest
    <3>. QED
      BY <2>2, <3>1, <3>2
  <2>9. HistorySize(d) \in Nat
    BY <1>1, SizeOf
  <2>10. TreesOf(e) \subseteq TreesOf(d)
    <3>1. DOMAIN d.past = 1..m /\ DOMAIN d.future = 1..Len(d.future) /\ m \in DOMAIN d.past
      BY <1>1, <2>2, DocFields DEF m
    <3>2. DOMAIN p = 1..m-1 /\ DOMAIN q = 1..Len(q)
      BY <2>2, <2>3, <2>4
    <3>3. \A i \in DOMAIN e.past : \E j \in DOMAIN d.past : e.past[i] = d.past[j]
      BY <2>2, <2>3, <2>5, <3>1, <3>2
    <3>4. \A i \in DOMAIN e.future : \/ e.future[i] = d.present
                                    \/ \E j \in DOMAIN d.future : e.future[i] = d.future[j]
      BY <2>4, <2>5, <3>1, <3>2
    <3>. QED
      BY <2>5, <3>1, <3>3, <3>4 DEF TreesOf
  <2>. QED
    BY <2>1, <2>5, <2>6, <2>7, <2>8, <2>9, <2>10 DEF Keeps
<1>. QED
  BY <1>2, <1>3

LEMMA RedoneSound ==
    ASSUME NEW d, NEW n \in Nat, DocSound(d, n), d.typing => d.past # <<>>
    PROVE  /\ DocSound(Redone(d), n) /\ Keeps(d, Redone(d), 0)
           /\ TreesOf(Redone(d)) \subseteq TreesOf(d)
<1>1. d \in Document /\ MaxHistory \in Nat /\ HistorySize(d) <= MaxHistory
  BY EditorConstants DEF DocSound
<1>2. CASE d.future = <<>>
  <2>1. Redone(d) = d /\ HistorySize(d) \in Nat
    BY <1>1, <1>2, SizeOf DEF Redone
  <2>. QED
    BY <2>1 DEF Keeps
<1>3. CASE d.future # <<>>
  <2>. DEFINE p == Pushed(d.past, d.present)
              q == Tail(d.future)
              e == [d EXCEPT !.past = p, !.present = d.future[1], !.future = q,
                             !.typing = FALSE]
  <2>1. Redone(d) = e
    BY <1>3 DEF Redone
  <2>2. /\ Len(d.past) \in Nat /\ d.past \in Seq(Trees) /\ d.future \in Seq(Trees)
        /\ d.present \in Trees /\ Len(d.future) \in Nat \ {0} /\ d.future[1] \in Trees
        /\ \A i \in 1..Len(d.past) : Grown(d.past[i], n)
        /\ \A i \in 1..Len(d.future) : Grown(d.future[i], n)
    <3>1. /\ Len(d.past) \in Nat /\ d.past \in Seq(Trees) /\ d.future \in Seq(Trees)
          /\ d.present \in Trees /\ Len(d.future) \in Nat \ {0}
          /\ DOMAIN d.past = 1..Len(d.past) /\ DOMAIN d.future = 1..Len(d.future)
      BY <1>1, <1>3, DocFields
    <3>2. 1 \in 1..Len(d.future)
      BY <3>1
    <3>3. d.future[1] \in Trees
      BY <3>1, <3>2, ElementOfSeq
    <3>. QED
      BY <3>1, <3>3 DEF DocSound
  <2>3. Len(d.past) <= MaxHistory /\ Len(d.past) < MaxHistory
    <3>1. PICK a, b \in Nat : a = Len(d.past) /\ b = Len(d.future) /\ HistorySize(d) = a + b
      BY <1>1, SizeOf
    <3>2. a + b <= MaxHistory /\ b # 0
      BY <1>1, <2>2, <3>1
    <3>3. a <= MaxHistory /\ a < MaxHistory
      BY <1>1, <3>2
    <3>. QED
      BY <3>1, <3>3
  <2>4. /\ p \in Seq(Trees) /\ Len(p) \in 1..MaxHistory /\ p # <<>>
        /\ Len(p) <= Len(d.past) + 1
        /\ \A i \in 1..Len(p) : p[i] = d.present \/ \E j \in 1..Len(d.past) : p[i] = d.past[j]
        /\ p[1] = IF d.past = <<>> THEN d.present ELSE d.past[1]
    BY <2>2, <2>3, PushedShape
  <2>5. /\ q \in Seq(Trees) /\ Len(q) = Len(d.future) - 1
        /\ \A i \in 1..Len(q) : q[i] = d.future[i + 1]
    BY <1>3, <2>2, HeadTailProperties
  <2>. HIDE DEF p, q
  <2>6. /\ e \in Document /\ e.past = p /\ e.future = q /\ e.present = d.future[1]
        /\ e.saved = d.saved /\ e.typing = FALSE
    BY <1>1, <2>2, <2>4, <2>5 DEF Document
  <2>. HIDE DEF e
  <2>7. HistorySize(e) <= HistorySize(d) /\ HistorySize(e) <= MaxHistory
    <3>1. PICK a, b \in Nat : a = Len(d.past) /\ b = Len(d.future) /\ HistorySize(d) = a + b
      BY <1>1, SizeOf
    <3>2. PICK i, j \in Nat : i = Len(e.past) /\ j = Len(e.future) /\ HistorySize(e) = i + j
      BY <2>6, SizeOf
    <3>3. i <= a + 1 /\ j = b - 1
      BY <2>4, <2>5, <2>6, <3>1, <3>2
    <3>4. i + j <= a + b
      BY <3>3
    <3>5. HistorySize(e) <= HistorySize(d)
      BY <3>1, <3>2, <3>4
    <3>6. i + j <= MaxHistory
      <4>1. a + b <= MaxHistory
        BY <1>1, <3>1
      <4>. QED
        BY <1>1, <3>4, <4>1
    <3>. QED
      BY <3>2, <3>5, <3>6
  <2>8. DocSound(e, n)
    <3>1. \A i \in DOMAIN p : Grown(p[i], n)
      BY <2>2, <2>4 DEF DocSound
    <3>2. \A i \in DOMAIN q : Grown(q[i], n)
      <4>1. \A i \in 1..Len(q) : i + 1 \in 1..Len(d.future)
        BY <2>2, <2>5
      <4>2. DOMAIN q = 1..Len(q)
        BY <2>5
      <4>. QED
        BY <2>2, <2>5, <4>1, <4>2
    <3>3. Grown(d.future[1], n) /\ Grown(d.saved, n)
      BY <2>2 DEF DocSound
    <3>. QED
      BY <2>6, <2>7, <3>1, <3>2, <3>3 DEF DocSound
  <2>9. Oldest(e) = Oldest(d)
    BY <2>4, <2>6 DEF Oldest
  <2>10. HistorySize(d) \in Nat
    BY <1>1, SizeOf
  <2>11. TreesOf(e) \subseteq TreesOf(d)
    <3>1. DOMAIN d.past = 1..Len(d.past) /\ DOMAIN d.future = 1..Len(d.future)
          /\ 1 \in DOMAIN d.future
      BY <1>1, <2>2, DocFields
    <3>2. DOMAIN p = 1..Len(p) /\ DOMAIN q = 1..Len(q)
      BY <2>4, <2>5
    <3>3. \A i \in DOMAIN e.past : \/ e.past[i] = d.present
                                  \/ \E j \in DOMAIN d.past : e.past[i] = d.past[j]
      BY <2>4, <2>6, <3>1, <3>2
    <3>4. \A i \in DOMAIN e.future : \E j \in DOMAIN d.future : e.future[i] = d.future[j]
      <4>1. \A i \in DOMAIN q : i + 1 \in DOMAIN d.future
        BY <2>2, <2>5, <3>1, <3>2
      <4>. QED
        BY <2>5, <2>6, <3>2, <4>1
    <3>. QED
      BY <2>6, <3>1, <3>3, <3>4 DEF TreesOf
  <2>. QED
    BY <2>1, <2>6, <2>7, <2>8, <2>9, <2>10, <2>11 DEF Keeps
<1>. QED
  BY <1>2, <1>3

LEMMA NewDocumentSound ==
    ASSUME NEW n \in Nat, NEW tree, Grown(tree, n), NEW version \in Nat \ {0}
    PROVE  LET e == NewDocument(tree, version)
           IN  /\ DocSound(e, n) /\ HistorySize(e) = 0 /\ ~e.typing /\ ~e.saving
               /\ Oldest(e) = tree /\ e.saved = tree /\ e.version = version
               /\ TreesOf(e) = {tree}
<1>. DEFINE e == NewDocument(tree, version)
<1>1. tree \in Trees /\ MaxHistory \in Nat
  BY EditorConstants DEF Grown, Well
<1>2. /\ e \in Document /\ e.past = <<>> /\ e.future = <<>> /\ e.present = tree
      /\ e.saved = tree /\ e.version = version /\ e.typing = FALSE /\ e.saving = FALSE
  BY <1>1 DEF NewDocument, Document
<1>. HIDE DEF e
<1>3. Len(<<>>) = 0 /\ \A i \in DOMAIN <<>> : FALSE
  OBVIOUS
<1>4. HistorySize(e) = 0
  BY <1>2, <1>3 DEF HistorySize
<1>5. TreesOf(e) = {tree}
  BY <1>2, <1>3 DEF TreesOf
<1>. QED
  BY <1>1, <1>2, <1>3, <1>4, <1>5 DEF DocSound, Oldest, e

\* Only what is saved, and the marks, change.
LEMMA SameHistory ==
    ASSUME NEW d, NEW n \in Nat, DocSound(d, n), NEW e \in Document,
           e.past = d.past, e.present = d.present, e.future = d.future,
           e.typing => d.typing, Grown(e.saved, n), d.typing => d.past # <<>>
    PROVE  DocSound(e, n) /\ Keeps(d, e, 0)
<1>1. HistorySize(e) = HistorySize(d) /\ Oldest(e) = Oldest(d)
  BY DEF HistorySize, Oldest
<1>2. HistorySize(d) \in Nat
  BY SizeOf DEF DocSound
<1>3. DocSound(e, n)
  BY <1>1 DEF DocSound
<1>. QED
  BY <1>1, <1>2, <1>3 DEF Keeps

-----------------------------------------------------------------------------
(* The inductive invariant.                                                *)

\* The documents of the session; each takes a revision for saved, and the first one
\* can be undone to the first revision while the history has room for all edits.
Editors ==
    /\ docs \in [Stores -> Document \cup {None}]
    /\ docs[1] # None
    /\ shown \in Open
    /\ \A s \in Open : /\ DocSound(docs[s], edits)
                       /\ docs[s].typing => docs[s].past # <<>>
                       /\ docs[s].version \in DOMAIN revisions
                       /\ docs[s].saved = revisions[docs[s].version]
    /\ HistorySize(docs[1]) <= edits
    /\ edits <= MaxHistory => Oldest(docs[1]) = revisions[1]

\* What is stored, and the saves under way: one that was written is the next revision.
Server ==
    /\ session \in Sessions /\ edits \in 0..session.edits
    /\ revisions \in Seq(Trees) /\ revisions # <<>>
    /\ \A v \in DOMAIN revisions : Grown(revisions[v], edits)
    /\ requests \subseteq Request
    /\ \A r \in requests :
         /\ r.store \in Open \cup {0}
         /\ Grown(r.tree, edits)
         /\ r.version \in DOMAIN revisions
         /\ r.phase = "saved" => /\ r.version + 1 \in DOMAIN revisions
                                 /\ revisions[r.version + 1] = r.tree

Dragging == drag \in Drag \cup {None}

EditorSound == Editors /\ Server /\ Dragging

LEMMA EditorFacts ==
    ASSUME EditorSound
    PROVE  /\ edits \in Nat /\ session.edits \in Nat /\ MaxHistory \in Nat
           /\ 1 \in Open /\ shown \in Open /\ Open \subseteq Stores
           /\ \A s \in Open : docs[s] \in Document /\ docs[s].present \in Trees
                              /\ Grown(docs[s].present, edits)
<1>1. session \in [page: Trees, full: BOOLEAN, edits: Nat,
                   does: SUBSET {"arrange", "drag", "fill", "save"}]
  BY EditorConstants DEF EditorSound, Server
<1>2. edits \in Nat /\ session.edits \in Nat
  BY <1>1 DEF EditorSound, Server
<1>3. 1 \in Open
  BY DEF EditorSound, Editors, Open, Stores
<1>4. \A s \in Open : docs[s] \in Document /\ Grown(docs[s].present, edits)
  BY DEF EditorSound, Editors, DocSound
<1>5. \A s \in Open : docs[s].present \in Trees
  BY <1>4, DocFields
<1>. QED
  BY <1>2, <1>3, <1>4, <1>5, EditorConstants DEF EditorSound, Editors, Open

\* The server when editors only edit.
LEMMA ServerKept ==
    ASSUME EditorSound, UNCHANGED <<session, revisions, requests>>, Open \subseteq Open',
           edits' \in {edits, edits + 1}, edits' <= session.edits
    PROVE  Server'
<1>1. edits \in Nat /\ session.edits \in Nat
  BY EditorFacts
<1>2. edits' \in 0..session.edits
  BY <1>1
<1>3. \A tree : Grown(tree, edits) => Grown(tree, edits')
  BY <1>1, GrownMore
<1>. QED
  BY <1>2, <1>3 DEF EditorSound, Server

\* The documents when only the server moves.
LEMMA EditorsKept ==
    ASSUME EditorSound, UNCHANGED <<docs, shown, edits>>,
           \A v \in DOMAIN revisions : v \in DOMAIN revisions' /\ revisions'[v] = revisions[v]
    PROVE  Editors' /\ Open' = Open
<1>1. 1 \in DOMAIN revisions
  <2>1. revisions \in Seq(Trees) /\ revisions # <<>>
    BY DEF EditorSound, Server
  <2>. QED
    BY <2>1, EmptySeq, LenProperties
<1>2. Open' = Open
  BY DEF Open
<1>. QED
  BY <1>1, <1>2 DEF EditorSound, Editors

\* One document becomes e.
LEMMA DocUpdate ==
    ASSUME EditorSound, NEW s \in Open, NEW e, NEW k \in 0..1,
           docs' = [docs EXCEPT ![s] = e], edits' = edits + k, shown' = shown,
           UNCHANGED revisions, DocSound(e, edits'), Keeps(docs[s], e, k),
           e.version \in DOMAIN revisions, e.saved = revisions[e.version]
    PROVE  Editors' /\ Open' = Open
<1>1. edits \in Nat /\ s \in Stores /\ docs[s] \in Document /\ docs[s] # None
  BY EditorFacts DEF Open
<1>2. e \in Document /\ e # None
  BY NoneApart DEF DocSound
<1>3. docs' \in [Stores -> Document \cup {None}] /\ docs'[s] = e
      /\ \A t \in Stores : t # s => docs'[t] = docs[t]
  BY <1>1, <1>2 DEF EditorSound, Editors
<1>4. Open' = Open
  BY <1>1, <1>2, <1>3 DEF Open
<1>5. docs'[1] # None /\ shown' \in Open'
  BY <1>2, <1>3, <1>4 DEF EditorSound, Editors, Stores
<1>6. \A d : DocSound(d, edits) => DocSound(d, edits')
  BY <1>1, DocMore
<1>7. ASSUME NEW t \in Open'
      PROVE  /\ DocSound(docs'[t], edits')
             /\ docs'[t].typing => docs'[t].past # <<>>
             /\ docs'[t].version \in DOMAIN revisions'
             /\ docs'[t].saved = revisions'[docs'[t].version]
  <2>1. CASE t = s
    BY <1>3, <2>1 DEF Keeps
  <2>2. CASE t # s
    <3>1. docs'[t] = docs[t] /\ t \in Open
      BY <1>3, <1>4, <2>2 DEF Open
    <3>. QED
      BY <1>6, <3>1 DEF EditorSound, Editors
  <2>. QED
    BY <2>1, <2>2
<1>8. /\ HistorySize(docs'[1]) <= edits'
      /\ edits' <= MaxHistory => Oldest(docs'[1]) = revisions'[1]
  <2>1. /\ HistorySize(docs[1]) <= edits
        /\ edits <= MaxHistory => Oldest(docs[1]) = revisions[1]
    BY DEF EditorSound, Editors
  <2>2. MaxHistory \in Nat
    BY EditorConstants
  <2>3. CASE s = 1
    <3>1. PICK m \in Nat : HistorySize(docs[1]) = m
      BY <1>1, <2>3, SizeOf
    <3>2. PICK q \in Nat : HistorySize(e) = q
      BY <1>2, SizeOf
    <3>3. q <= m + k /\ (m + k <= MaxHistory => Oldest(e) = Oldest(docs[1]))
      BY <2>3, <3>1, <3>2 DEF Keeps
    <3>4. m <= edits
      BY <2>1, <3>1
    <3>5. q <= edits' /\ (edits' <= MaxHistory => m + k <= MaxHistory /\ edits <= MaxHistory)
      BY <1>1, <2>2, <3>3, <3>4
    <3>. QED
      BY <1>3, <2>1, <2>3, <3>2, <3>3, <3>5
  <2>4. CASE s # 1
    <3>1. docs'[1] = docs[1]
      BY <1>3, <2>4 DEF Stores
    <3>2. PICK m \in Nat : HistorySize(docs[1]) = m
      BY EditorFacts, SizeOf
    <3>3. m <= edits' /\ (edits' <= MaxHistory => edits <= MaxHistory)
      BY <1>1, <2>1, <2>2, <3>2
    <3>. QED
      BY <2>1, <3>1, <3>2, <3>3
  <2>. QED
    BY <2>3, <2>4
<1>. QED
  BY <1>3, <1>4, <1>5, <1>7, <1>8 DEF Editors

LEMMA InitSound == Init => EditorSound
<1>. SUFFICES ASSUME Init PROVE EditorSound
  OBVIOUS
<1>1. /\ session \in Sessions /\ session.page \in Trees /\ session.edits \in Nat
      /\ Grown(session.page, 0)
  <2>1. session \in Sessions
    BY DEF Init
  <2>2. /\ session.page \in Trees /\ session.edits \in Nat
        /\ Parses(session.page) /\ IsForest(session.page)
        /\ \A i \in DOMAIN session.page : session.page[i].id[1] = 0
    BY <2>1, EditorConstants
  <2>3. HasUniqueIds(session.page) /\ WithinLimits(session.page)
    BY <2>2 DEF Parses
  <2>4. Faults(session.page) \subseteq OldFaults
    BY <2>1 DEF OldFaults
  <2>. QED
    BY <2>1, <2>2, <2>3, <2>4, PageGrown
<1>. DEFINE e == NewDocument(revisions[1], 1)
<1>2. revisions = <<session.page>> /\ revisions[1] = session.page
      /\ revisions \in Seq(Trees) /\ revisions # <<>> /\ DOMAIN revisions = 1..1
  BY <1>1 DEF Init
<1>3. /\ DocSound(e, 0) /\ HistorySize(e) = 0 /\ ~e.typing
      /\ Oldest(e) = revisions[1] /\ e.saved = revisions[1] /\ e.version = 1
  BY <1>1, <1>2, NewDocumentSound
<1>. HIDE DEF e
<1>4. e \in Document /\ e # None
  BY <1>3, NoneApart DEF DocSound
<1>5. docs = [s \in Stores |-> IF s = 1 THEN e ELSE None]
  BY DEF Init, e
<1>6. /\ docs \in [Stores -> Document \cup {None}] /\ docs[1] = e
      /\ Open = {1}
  BY <1>4, <1>5 DEF Stores, Open
<1>7. edits = 0 /\ requests = {} /\ shown = 1 /\ drag = None
  BY DEF Init
<1>8. MaxHistory \in Nat
  BY EditorConstants
<1>9. Editors
  BY <1>2, <1>3, <1>4, <1>6, <1>7, <1>8 DEF Editors
<1>10. Server
  BY <1>1, <1>2, <1>7 DEF Server
<1>. QED
  BY <1>7, <1>9, <1>10 DEF EditorSound, Dragging

\* A committed tree.
LEMMA CommitSound ==
    ASSUME EditorSound, NEW s \in Open, NEW tree,
           tree # None => Grown(tree, edits + 1), Commit(s, tree),
           UNCHANGED <<shown, session, revisions, requests>>
    PROVE  Editors' /\ Server'
<1>. DEFINE e == Committed(docs[s], tree)
<1>1. edits < session.edits /\ tree # None /\ docs' = [docs EXCEPT ![s] = e]
      /\ edits' = edits + 1
  BY DEF Commit
<1>2. /\ edits \in Nat /\ session.edits \in Nat /\ edits' <= session.edits
      /\ s \in Stores /\ docs[s] \in Document
  BY <1>1, EditorFacts
<1>3. DocSound(docs[s], edits')
  BY <1>1, <1>2, DocMore DEF EditorSound, Editors
<1>4. DocSound(e, edits') /\ Keeps(docs[s], e, 1)
  <2>1. PICK n \in Nat : n = edits'
    BY <1>1, <1>2
  <2>. QED
    BY <1>1, <1>3, <2>1, CommittedSound
<1>5. e.version = docs[s].version /\ e.saved = docs[s].saved
  BY <1>2 DEF Committed, Document
<1>. HIDE DEF e
<1>6. e.version \in DOMAIN revisions /\ e.saved = revisions[e.version]
  BY <1>5 DEF EditorSound, Editors
<1>7. Editors' /\ Open' = Open
  <2>1. 1 \in 0..1
    OBVIOUS
  <2>. QED
    BY <1>1, <1>4, <1>6, <2>1, DocUpdate
<1>8. Server'
  BY <1>1, <1>2, <1>7, ServerKept
<1>. QED
  BY <1>7, <1>8

\* One field of one node, as a step of typing or by itself.
LEMMA FieldSound ==
    ASSUME EditorSound, NEW tree, Grown(tree, edits), NEW e,
           docs[shown].typing \/ edits < session.edits,
           e = Updated(docs[shown], tree)
             \/ e = [Updated(docs[shown], tree) EXCEPT !.typing = FALSE],
           docs' = [docs EXCEPT ![shown] = e],
           edits' = IF docs[shown].typing THEN edits ELSE edits + 1,
           UNCHANGED <<shown, session, revisions, requests>>
    PROVE  Editors' /\ Server'
<1>. DEFINE d == docs[shown]
            k == IF d.typing THEN 0 ELSE 1
<1>1. /\ edits \in Nat /\ session.edits \in Nat /\ edits' = edits + k /\ k \in 0..1
      /\ shown \in Open /\ d \in Document
  BY EditorFacts
<1>2. edits' <= session.edits
  BY <1>1 DEF EditorSound, Server
<1>3. DocSound(d, edits) /\ (d.typing => d.past # <<>>)
  BY <1>1 DEF EditorSound, Editors
<1>4. DocSound(e, edits) /\ Keeps(d, e, k)
  <2>. DEFINE u == Updated(d, tree)
              f == [u EXCEPT !.typing = FALSE]
  <2>1. /\ DocSound(u, edits) /\ Keeps(d, u, k)
        /\ DocSound(f, edits) /\ Keeps(d, f, k)
    <3>. HIDE DEF d
    <3>. QED
      BY <1>1, <1>3, UpdatedSound
  <2>2. e = u \/ e = f
    OBVIOUS
  <2>. HIDE DEF u, f, d, k
  <2>. QED
    BY <2>1, <2>2
<1>5. DocSound(e, edits')
  <2>1. edits' = edits \/ edits' = edits + 1
    BY <1>1
  <2>. QED
    BY <1>1, <1>4, <2>1, DocMore
<1>6. e.version = d.version /\ e.saved = d.saved
  BY <1>1 DEF Updated, Committed, Document
<1>7. e.version \in DOMAIN revisions /\ e.saved = revisions[e.version]
  BY <1>1, <1>6 DEF EditorSound, Editors
<1>8. Editors' /\ Open' = Open
  <2>1. shown' = shown /\ UNCHANGED revisions
    OBVIOUS
  <2>. HIDE DEF k
  <2>. QED
    BY <1>1, <1>4, <1>5, <1>7, <2>1, DocUpdate
<1>9. Server'
  BY <1>1, <1>2, <1>8, ServerKept
<1>. QED
  BY <1>8, <1>9

\* One document becomes e, and nothing is edited.
LEMMA QuietUpdate ==
    ASSUME EditorSound, NEW s \in Open, NEW e, docs' = [docs EXCEPT ![s] = e],
           UNCHANGED <<shown, edits, revisions>>, DocSound(e, edits),
           Keeps(docs[s], e, 0), e.version \in DOMAIN revisions,
           e.saved = revisions[e.version]
    PROVE  Editors' /\ Open' = Open
<1>1. edits \in Nat /\ edits' = edits + 0 /\ 0 \in 0..1 /\ DocSound(e, edits')
  BY EditorFacts
<1>. QED
  BY <1>1, DocUpdate

-----------------------------------------------------------------------------
(* The drag under way.                                                     *)

LEMMA ParentType ==
    ASSUME NEW tree \in Trees, NEW i \in 1..Len(tree)
    PROVE  ParentAt(tree, i) \in NodeId \cup {None}
<1>1. CASE Above(tree, i) = {}
  BY <1>1 DEF ParentAt
<1>2. CASE Above(tree, i) # {}
  <2>1. PICK p \in 1..i-1 : ParentAt(tree, i) = tree[p].id
    BY <1>2, Parents
  <2>2. p \in 1..Len(tree)
    BY TreeShape
  <2>. QED
    BY <2>1, <2>2, TreeShape
<1>. QED
  BY <1>1, <1>2

\* A target on a node of the page.
LEMMA TargetTyped ==
    ASSUME NEW tree \in Trees, NEW active, NEW i \in 1..Len(tree), NEW position \in Positions
    PROVE  /\ RelativeTarget(tree, active, i, position) \in Target \cup {None}
           /\ TargetOn(tree, active, i, position) \in Target \cup {None}
<1>1. /\ ParentAt(tree, i) \in NodeId \cup {None} /\ tree[i].id \in NodeId
      /\ position \in Positions \cup {"root"} /\ "inside" \in Positions \cup {"root"}
  BY ParentType, TreeShape DEF Positions
<1>2. Cardinality(ChildrenOf(tree, tree[i].id)) \in Nat
  BY ChildrenFinite
<1>3. RelativeTarget(tree, active, i, position) \in Target \cup {None}
  BY <1>1 DEF RelativeTarget, Target
<1>4. InsideTarget(tree, active, i) \in Target \cup {None}
  BY <1>1, <1>2 DEF InsideTarget, Target
<1>. QED
  BY <1>3, <1>4 DEF TargetOn

\* The last root of a page that is not empty.
LEMMA LastRoot ==
    ASSUME NEW tree \in Trees, tree # <<>>, IsForest(tree)
    PROVE  Max(ChildrenOf(tree, None)) \in 1..Len(tree)
<1>. DEFINE R == ChildrenOf(tree, None)
<1>1. /\ Len(tree) \in Nat /\ DOMAIN tree = 1..Len(tree) /\ Len(tree) # 0
      /\ tree[1].depth \in Nat
  <2>1. Len(tree) \in Nat /\ DOMAIN tree = 1..Len(tree)
    BY TreeShape
  <2>2. Len(tree) # 0
    BY EmptySeq
  <2>3. 1 \in 1..Len(tree)
    BY <2>1, <2>2
  <2>. QED
    BY <2>1, <2>2, <2>3, TreeShape
<1>2. 1 \in R
  <2>1. Above(tree, 1) = {}
    BY DEF Above
  <2>. QED
    BY <1>1, <2>1 DEF ParentAt, ChildrenOf
<1>3. R \in SUBSET (1..Len(tree)) /\ IsFiniteSet(R)
  BY <1>1, ChildrenFinite DEF ChildrenOf
<1>. HIDE DEF R
<1>4. Max(R) \in R
  <2>1. R \in SUBSET (0..Len(tree)) /\ R # {}
    BY <1>1, <1>2, <1>3
  <2>. QED
    BY <1>1, <2>1, MaxOf
<1>. QED
  BY <1>3, <1>4 DEF R

LEMMA DragTargets ==
    ASSUME NEW tree \in Trees, IsForest(tree), NEW active
    PROVE  /\ TargetAtEnd(tree, active) \in Target \cup {None}
           /\ \A from : \A step \in {-1, 1} :
                StepTarget(tree, active, from, step) \in Target \cup {None}
<1>1. Len(tree) \in Nat /\ DOMAIN tree = 1..Len(tree)
  BY TreeShape
<1>2. TargetAtEnd(tree, active) \in Target \cup {None}
  <2>1. CASE tree = <<>>
    BY <2>1 DEF TargetAtEnd, Target
  <2>2. CASE tree # <<>>
    <3>. DEFINE last == Max(ChildrenOf(tree, None))
    <3>1. last \in 1..Len(tree) /\ "after" \in Positions
      BY <2>2, LastRoot DEF Positions
    <3>. HIDE DEF last
    <3>2. RelativeTarget(tree, active, last, "after") \in Target \cup {None}
      BY <3>1, TargetTyped
    <3>. QED
      BY <2>2, <3>2 DEF TargetAtEnd, last
  <2>. QED
    BY <2>1, <2>2
<1>3. ASSUME NEW from, NEW step \in {-1, 1}
      PROVE  StepTarget(tree, active, from, step) \in Target \cup {None}
  <2>. DEFINE position == IF step = 1 THEN "after" ELSE "before"
              ahead == {i \in DOMAIN tree : (i - IndexOf(tree, from)) * step > 0}
              legal == {i \in ahead :
                          /\ ~IsOwnSubtree(tree, active, tree[i].id)
                          /\ RelativeTarget(tree, active, i, position) # None}
              next == IF step = 1 THEN Min(legal) ELSE Max(legal)
  <2>1. \/ StepTarget(tree, active, from, step) = None
        \/ /\ legal # {}
           /\ StepTarget(tree, active, from, step)
                = RelativeTarget(tree, active, next, position)
    BY DEF StepTarget
  <2>2. legal \in SUBSET (1..Len(tree)) /\ position \in Positions
    BY <1>1 DEF Positions
  <2>. HIDE DEF legal, position
  <2>3. ASSUME legal # {}
        PROVE  next \in 1..Len(tree)
    <3>1. legal \in SUBSET Nat /\ legal \in SUBSET (0..Len(tree))
      BY <1>1, <2>2
    <3>2. Min(legal) \in legal
      BY <2>3, <3>1, MinOf
    <3>3. Max(legal) \in legal
      BY <1>1, <2>3, <3>1, MaxOf
    <3>. QED
      BY <2>2, <3>2, <3>3
  <2>. HIDE DEF next
  <2>. QED
    BY <2>1, <2>2, <2>3, TargetTyped
<1>. QED
  BY <1>2, <1>3

-----------------------------------------------------------------------------
(* Every step keeps the invariant.                                         *)

\* The revisions that are there stay when one is stored.
LEMMA Stored ==
    ASSUME EditorSound, NEW tree, Grown(tree, edits),
           revisions' = Append(revisions, tree)
    PROVE  /\ revisions' \in Seq(Trees) /\ revisions' # <<>>
           /\ Len(revisions) \in Nat /\ Len(revisions') = Len(revisions) + 1
           /\ DOMAIN revisions = 1..Len(revisions)
           /\ DOMAIN revisions' = 1..Len(revisions)+1
           /\ revisions'[Len(revisions) + 1] = tree
           /\ \A v \in DOMAIN revisions : v \in DOMAIN revisions' /\ revisions'[v] = revisions[v]
           /\ \A v \in DOMAIN revisions' : Grown(revisions'[v], edits)
<1>1. revisions \in Seq(Trees) /\ \A v \in DOMAIN revisions : Grown(revisions[v], edits)
  BY DEF EditorSound, Server
<1>2. tree \in Trees
  BY DEF Grown, Well
<1>. DEFINE n == Len(revisions)
            a == Append(revisions, tree)
<1>3. n \in Nat /\ DOMAIN revisions = 1..n
  BY <1>1
<1>4. /\ a \in Seq(Trees) /\ Len(a) = n + 1 /\ a[n + 1] = tree
      /\ \A i \in 1..n : a[i] = revisions[i]
  BY <1>1, <1>2, AppendProperties
<1>. HIDE DEF a
<1>5. DOMAIN a = 1..n+1 /\ a # <<>>
  BY <1>3, <1>4
<1>6. \A v \in DOMAIN revisions : v \in DOMAIN a /\ a[v] = revisions[v]
  BY <1>3, <1>4, <1>5
<1>7. ASSUME NEW v \in DOMAIN a
      PROVE  Grown(a[v], edits)
  <2>1. v = n + 1 \/ v \in 1..n
    BY <1>3, <1>5
  <2>. QED
    BY <1>1, <1>3, <1>4, <2>1
<1>8. revisions' = a
  BY DEF a
<1>. QED
  BY <1>3, <1>4, <1>5, <1>6, <1>7, <1>8

\* A revision is stored; a save under way may have become what is asked for here.
LEMMA ServerStores ==
    ASSUME EditorSound, NEW tree, Grown(tree, edits),
           revisions' = Append(revisions, tree), UNCHANGED <<docs, shown, session, edits>>,
           \A r \in requests' :
              \/ r \in requests
              \/ /\ r \in Request /\ r.store \in Open \cup {0} /\ r.tree = tree
                 /\ r.version = Len(revisions)
    PROVE  Editors' /\ Server'
<1>1. /\ revisions' \in Seq(Trees) /\ revisions' # <<>>
      /\ Len(revisions) \in Nat
      /\ DOMAIN revisions = 1..Len(revisions)
      /\ DOMAIN revisions' = 1..Len(revisions)+1
      /\ revisions'[Len(revisions) + 1] = tree
      /\ \A v \in DOMAIN revisions : v \in DOMAIN revisions' /\ revisions'[v] = revisions[v]
      /\ \A v \in DOMAIN revisions' : Grown(revisions'[v], edits)
  BY Stored
<1>2. Editors' /\ Open' = Open
  BY <1>1, EditorsKept
<1>3. requests \subseteq Request /\ requests' \subseteq Request
  BY DEF EditorSound, Server
<1>4. ASSUME NEW r \in requests'
      PROVE  /\ r.store \in Open \cup {0}
             /\ Grown(r.tree, edits)
             /\ r.version \in DOMAIN revisions'
             /\ r.phase = "saved" => /\ r.version + 1 \in DOMAIN revisions'
                                     /\ revisions'[r.version + 1] = r.tree
  <2>1. CASE r \in requests
    BY <1>1, <2>1 DEF EditorSound, Server
  <2>2. CASE /\ r \in Request /\ r.store \in Open \cup {0} /\ r.tree = tree
             /\ r.version = Len(revisions)
    <3>1. Len(revisions) \in 1..Len(revisions)+1 /\ Len(revisions) + 1 \in 1..Len(revisions)+1
      <4>1. Len(revisions) # 0
        BY EmptySeq DEF EditorSound, Server
      <4>. QED
        BY <1>1, <4>1
    <3>. QED
      BY <1>1, <2>2, <3>1
  <2>. QED
    BY <2>1, <2>2
<1>. QED
  BY <1>1, <1>2, <1>3, <1>4 DEF EditorSound, Server

\* Only the saves under way change.
LEMMA RequestsMove ==
    ASSUME EditorSound, UNCHANGED <<shown, session, edits, revisions>>, Open' = Open,
           \A r \in requests' :
              \/ r \in requests
              \/ /\ r \in Request /\ r.store \in Open \cup {0} /\ Grown(r.tree, edits)
                 /\ r.version \in DOMAIN revisions
                 /\ r.phase = "saved" => /\ r.version + 1 \in DOMAIN revisions
                                         /\ revisions[r.version + 1] = r.tree
    PROVE  Server'
  BY DEF EditorSound, Server

\* The fields of a save under way.
LEMMA RequestFields ==
    ASSUME NEW r \in Request, NEW phase \in {"check", "write", "saved", "refused"}
    PROVE  LET p == [r EXCEPT !.phase = phase]
               q == [r EXCEPT !.store = 0]
           IN  /\ r.store \in Stores \cup {0} /\ r.version \in Nat \ {0} /\ r.tree \in Trees
               /\ p \in Request /\ p.phase = phase
               /\ p.store = r.store /\ p.version = r.version /\ p.tree = r.tree
               /\ q \in Request /\ q.store = 0
               /\ q.phase = r.phase /\ q.version = r.version /\ q.tree = r.tree
  BY DEF Request

\* The actions that edit the page.
LEMMA EditSteps ==
    ASSUME EditorSound
    PROVE  /\ \A type \in Types : Insert(type) => EditorSound'
           /\ \A id \in Ids(Tree) :
                /\ Remove(id) => EditorSound'
                /\ Duplicate(id) => EditorSound'
                /\ Type(id) => EditorSound'
                /\ Toggle(id) => EditorSound'
                /\ \A step \in {-1, 1} : MoveBy(id, step) => EditorSound'
           /\ Drop => EditorSound'
<1>. DEFINE n == edits
<1>1. /\ n \in Nat /\ shown \in Open /\ 1 \in Open /\ Tree \in Trees /\ Grown(Tree, n)
      /\ Present(1) \in Trees /\ Grown(Present(1), n) /\ Seed = n + 1
  BY EditorFacts DEF Tree, Present, Seed
<1>2. drag' = drag => Dragging'
  BY DEF EditorSound, Dragging
<1>. HIDE DEF n
<1>3. ASSUME NEW type \in Types, Insert(type) PROVE EditorSound'
  <2>1. PICK parent \in IF type \in RootTypes THEN {None} ELSE Ids(Tree) :
               Commit(shown, InsertNew(Tree, type, Seed, parent, MaxNodes))
    BY <1>3 DEF Insert
  <2>. DEFINE new == InsertNew(Tree, type, Seed, parent, MaxNodes)
  <2>2. new # None => Grown(new, n + 1)
    <3>1. MaxNodes \in Nat
      BY TreeConstants
    <3>. QED
      BY <1>1, <3>1, NewGrown
  <2>. HIDE DEF new
  <2>3. Commit(shown, new)
    BY <2>1 DEF new
  <2>4. UNCHANGED <<shown, drag, session, revisions, requests>>
    BY <1>3 DEF Insert
  <2>5. Editors' /\ Server'
    BY <1>1, <2>2, <2>3, <2>4, CommitSound DEF n
  <2>. QED
    BY <1>2, <2>4, <2>5 DEF EditorSound
<1>4. ASSUME NEW id \in Ids(Tree), Remove(id) PROVE EditorSound'
  <2>. DEFINE new == RemoveNode(Tree, id)
  <2>1. new # None => Grown(new, n + 1)
    BY <1>1, RemoveGrown, GrownMore
  <2>. HIDE DEF new
  <2>2. Commit(shown, new) /\ UNCHANGED <<shown, drag, session, revisions, requests>>
    BY <1>4 DEF Remove, new
  <2>3. Editors' /\ Server'
    BY <1>1, <2>1, <2>2, CommitSound DEF n
  <2>. QED
    BY <1>2, <2>2, <2>3 DEF EditorSound
<1>5. ASSUME NEW id \in Ids(Tree), Duplicate(id) PROVE EditorSound'
  <2>. DEFINE new == DuplicateNode(Tree, id, Seed)
  <2>1. new # None => Grown(new, n + 1)
    BY <1>1, DuplicateGrown
  <2>. HIDE DEF new
  <2>2. Commit(shown, new) /\ UNCHANGED <<shown, drag, session, revisions, requests>>
    BY <1>5 DEF Duplicate, new
  <2>3. Editors' /\ Server'
    BY <1>1, <2>1, <2>2, CommitSound DEF n
  <2>. QED
    BY <1>2, <2>2, <2>3 DEF EditorSound
<1>6. ASSUME NEW id \in Ids(Tree), NEW step \in {-1, 1}, MoveBy(id, step)
      PROVE  EditorSound'
  <2>. DEFINE new == StepNode(Tree, id, step)
  <2>1. new # None => Grown(new, n + 1)
    BY <1>1, StepGrown, GrownMore
  <2>. HIDE DEF new
  <2>2. Commit(shown, new) /\ UNCHANGED <<shown, drag, session, revisions, requests>>
    BY <1>6 DEF MoveBy, new
  <2>3. Editors' /\ Server'
    BY <1>1, <2>1, <2>2, CommitSound DEF n
  <2>. QED
    BY <1>2, <2>2, <2>3 DEF EditorSound
<1>7. ASSUME NEW id \in Ids(Tree), Type(id) PROVE EditorSound'
  <2>. DEFINE new == WithText(Tree, id)
              e == Updated(docs[shown], new)
  <2>1. Grown(new, edits)
    BY <1>1, TextGrown DEF n
  <2>2. docs' = [docs EXCEPT ![shown] = e]
    BY <1>7 DEF Type
  <2>3. /\ docs[shown].typing \/ edits < session.edits
        /\ edits' = IF docs[shown].typing THEN edits ELSE edits + 1
        /\ UNCHANGED <<shown, drag, session, revisions, requests>>
    BY <1>7 DEF Type
  <2>4. Editors' /\ Server'
    <3>1. e = Updated(docs[shown], new)
      OBVIOUS
    <3>. HIDE DEF e, new
    <3>. QED
      BY <2>1, <2>2, <2>3, <3>1, FieldSound
  <2>. QED
    BY <1>2, <2>3, <2>4 DEF EditorSound
<1>8. ASSUME NEW id \in Ids(Tree), Toggle(id) PROVE EditorSound'
  <2>. DEFINE new == WithVisible(Tree, id)
              e == [Updated(docs[shown], new) EXCEPT !.typing = FALSE]
  <2>1. Grown(new, edits)
    BY <1>1, VisibleGrown DEF n
  <2>2. docs' = [docs EXCEPT ![shown] = e]
    BY <1>8 DEF Toggle
  <2>3. /\ docs[shown].typing \/ edits < session.edits
        /\ edits' = IF docs[shown].typing THEN edits ELSE edits + 1
        /\ UNCHANGED <<shown, drag, session, revisions, requests>>
    BY <1>8 DEF Toggle
  <2>4. Editors' /\ Server'
    <3>1. e = [Updated(docs[shown], new) EXCEPT !.typing = FALSE]
      OBVIOUS
    <3>. HIDE DEF e, new
    <3>. QED
      BY <2>1, <2>2, <2>3, <3>1, FieldSound
  <2>. QED
    BY <1>2, <2>3, <2>4 DEF EditorSound
<1>9. ASSUME Drop PROVE EditorSound'
  <2>1. drag \in Drag /\ drag.target \in Target /\ drag' = None
    <3>1. drag # None /\ drag.target # None /\ drag' = None
      BY <1>9 DEF Drop
    <3>2. drag \in Drag
      BY <3>1 DEF EditorSound, Dragging
    <3>3. drag.target \in Target \cup {None}
      BY <3>2 DEF Drag
    <3>. QED
      BY <3>1, <3>2, <3>3
  <2>. DEFINE new == ApplyDrop(Present(1), drag, drag.target, Seed)
  <2>2. new # None => Grown(new, n + 1)
    BY <1>1, <2>1, DropGrown
  <2>. HIDE DEF new
  <2>3. Commit(1, new) /\ UNCHANGED <<shown, session, revisions, requests>>
    BY <1>9 DEF Drop, new
  <2>4. Editors' /\ Server'
    BY <1>1, <2>2, <2>3, CommitSound DEF n
  <2>5. Dragging'
    BY <2>1 DEF Dragging
  <2>. QED
    BY <2>4, <2>5 DEF EditorSound
<1>. QED
  BY <1>3, <1>4, <1>5, <1>6, <1>7, <1>8, <1>9

\* The actions on the history of the document, and a drag before it is dropped.
LEMMA QuietSteps ==
    ASSUME EditorSound
    PROVE  /\ FinishTyping => EditorSound'
           /\ Undo => EditorSound'
           /\ Redo => EditorSound'
           /\ Discard => EditorSound'
<1>. DEFINE d == docs[shown]
<1>1. /\ edits \in Nat /\ shown \in Open /\ 1 \in Open /\ d \in Document
      /\ docs[1] \in Document /\ session.edits \in Nat /\ edits <= session.edits
  BY EditorFacts DEF EditorSound, Server
<1>2. /\ DocSound(d, edits) /\ (d.typing => d.past # <<>>)
      /\ d.version \in DOMAIN revisions /\ d.saved = revisions[d.version]
  BY <1>1 DEF EditorSound, Editors
<1>3. drag' = drag => Dragging'
  BY DEF EditorSound, Dragging
<1>4. ASSUME NEW e, docs' = [docs EXCEPT ![shown] = e], DocSound(e, edits), Keeps(d, e, 0),
             e.version = d.version, e.saved = d.saved,
             UNCHANGED <<shown, drag, session, edits, revisions, requests>>
      PROVE  EditorSound'
  <2>1. e.version \in DOMAIN revisions /\ e.saved = revisions[e.version]
    BY <1>2, <1>4
  <2>2. Editors' /\ Open' = Open
    BY <1>1, <1>4, <2>1, QuietUpdate
  <2>3. Server'
    BY <1>1, <1>4, <2>2, ServerKept
  <2>. QED
    BY <1>3, <1>4, <2>2, <2>3 DEF EditorSound
<1>5. ASSUME FinishTyping PROVE EditorSound'
  <2>. DEFINE e == [d EXCEPT !.typing = FALSE]
  <2>1. docs' = [docs EXCEPT ![shown] = e]
        /\ UNCHANGED <<shown, drag, session, edits, revisions, requests>>
    BY <1>5 DEF FinishTyping
  <2>2. /\ e \in Document /\ e.past = d.past /\ e.present = d.present
        /\ e.future = d.future /\ e.typing = FALSE /\ e.saved = d.saved
        /\ e.version = d.version
    BY <1>1 DEF Document
  <2>. HIDE DEF e
  <2>3. DocSound(e, edits) /\ Keeps(d, e, 0)
    <3>1. Grown(e.saved, edits)
      BY <1>2, <2>2 DEF DocSound
    <3>. HIDE DEF d
    <3>. QED
      BY <1>1, <1>2, <2>2, <3>1, SameHistory
  <2>. QED
    BY <1>4, <2>1, <2>2, <2>3
<1>6. ASSUME Undo PROVE EditorSound'
  <2>. DEFINE e == Undone(d)
  <2>1. docs' = [docs EXCEPT ![shown] = e]
        /\ UNCHANGED <<shown, drag, session, edits, revisions, requests>>
    BY <1>6 DEF Undo
  <2>2. e.saved = d.saved /\ e.version = d.version
    BY <1>1 DEF Undone, Document
  <2>3. DocSound(e, edits) /\ Keeps(d, e, 0)
    <3>. HIDE DEF d
    <3>. QED
      BY <1>1, <1>2, UndoneSound
  <2>. HIDE DEF e
  <2>. QED
    BY <1>4, <2>1, <2>2, <2>3
<1>7. ASSUME Redo PROVE EditorSound'
  <2>. DEFINE e == Redone(d)
  <2>1. docs' = [docs EXCEPT ![shown] = e]
        /\ UNCHANGED <<shown, drag, session, edits, revisions, requests>>
    BY <1>7 DEF Redo
  <2>2. e.saved = d.saved /\ e.version = d.version
    BY <1>1 DEF Redone, Document
  <2>3. DocSound(e, edits) /\ Keeps(d, e, 0)
    <3>. HIDE DEF d
    <3>. QED
      BY <1>1, <1>2, RedoneSound
  <2>. HIDE DEF e
  <2>. QED
    BY <1>4, <2>1, <2>2, <2>3
<1>8. ASSUME Discard PROVE EditorSound'
  <2>. DEFINE e == NewDocument(docs[1].saved, docs[1].version)
  <2>1. /\ docs' = [docs EXCEPT ![2] = e] /\ shown' = 2
        /\ UNCHANGED <<drag, session, edits, revisions, requests>>
    BY <1>8 DEF Discard
  <2>2. /\ Grown(docs[1].saved, edits) /\ docs[1].version \in Nat \ {0}
        /\ docs[1].version \in DOMAIN revisions
        /\ docs[1].saved = revisions[docs[1].version]
    BY <1>1, DocFields DEF EditorSound, Editors, DocSound
  <2>3. /\ DocSound(e, edits) /\ ~e.typing /\ e.saved = docs[1].saved
        /\ e.version = docs[1].version
    BY <1>1, <2>2, NewDocumentSound
  <2>. HIDE DEF e
  <2>4. e \in Document /\ e # None
    BY <2>3, NoneApart DEF DocSound
  <2>5. /\ docs' \in [Stores -> Document \cup {None}] /\ docs'[2] = e
        /\ docs'[1] = docs[1]
        /\ Open' = Open \cup {2}
    BY <2>1, <2>4 DEF EditorSound, Editors, Stores, Open
  <2>6. \A s \in Open' : /\ DocSound(docs'[s], edits)
                         /\ docs'[s].typing => docs'[s].past # <<>>
                         /\ docs'[s].version \in DOMAIN revisions
                         /\ docs'[s].saved = revisions[docs'[s].version]
    <3>1. ASSUME NEW s \in Open'
          PROVE  s = 2 \/ (s = 1 /\ s \in Open /\ docs'[s] = docs[s])
      BY <1>1, <2>5 DEF Open, Stores
    <3>. QED
      BY <2>2, <2>3, <2>5, <3>1 DEF EditorSound, Editors
  <2>7. Editors'
    BY <2>1, <2>5, <2>6 DEF EditorSound, Editors
  <2>8. Server'
    BY <1>1, <2>1, <2>5, ServerKept
  <2>. QED
    BY <1>3, <2>1, <2>7, <2>8 DEF EditorSound
<1>. QED
  BY <1>5, <1>6, <1>7, <1>8

\* A drag before it is dropped.
LEMMA DragSteps ==
    ASSUME EditorSound
    PROVE  /\ \A type \in Types : BeginPaletteDrag(type) => EditorSound'
           /\ \A id \in Ids(Tree), keyboard \in BOOLEAN :
                BeginNodeDrag(id, keyboard) => EditorSound'
           /\ Hover => EditorSound'
           /\ \A step \in {-1, 1} : Arrow(step) => EditorSound'
           /\ Cancel => EditorSound'
<1>. DEFINE page == Present(1)
<1>1. /\ edits \in Nat /\ session.edits \in Nat /\ edits <= session.edits
      /\ page \in Trees /\ IsForest(page) /\ DOMAIN page = 1..Len(page)
  <2>1. page \in Trees /\ Grown(page, edits)
    BY EditorFacts DEF Present
  <2>2. edits \in Nat /\ session.edits \in Nat /\ edits \in 0..session.edits
    BY EditorFacts DEF EditorSound, Server
  <2>. QED
    BY <2>1, <2>2, TreeShape DEF Grown, Well
<1>2. drag \in Drag \cup {None} /\ (drag # None => drag \in Drag)
  BY DEF EditorSound, Dragging
<1>3. ASSUME drag' \in Drag \cup {None},
             UNCHANGED <<docs, shown, session, edits, revisions, requests>>
      PROVE  EditorSound'
  <2>1. Editors' /\ Open' = Open
    BY <1>3, EditorsKept
  <2>2. Server'
    BY <1>1, <1>3, <2>1, ServerKept
  <2>. QED
    BY <1>3, <2>1, <2>2 DEF EditorSound, Dragging
<1>. HIDE DEF page
<1>4. ASSUME NEW type \in Types, BeginPaletteDrag(type) PROVE EditorSound'
  <2>1. drag' \in Drag
    BY <1>4 DEF BeginPaletteDrag, Dragged, Drag
  <2>. QED
    BY <1>3, <1>4, <2>1 DEF BeginPaletteDrag
<1>5. ASSUME NEW id \in Ids(Tree), NEW keyboard \in BOOLEAN, BeginNodeDrag(id, keyboard)
      PROVE  EditorSound'
  <2>. DEFINE type == page[IndexOf(page, id)].type
  <2>1. id \in Ids(page) /\ Dragged(id, type, keyboard)
    BY <1>5 DEF BeginNodeDrag, page
  <2>2. id \in NodeId /\ type \in Types \cup OldTypes
    BY <1>1, <2>1, Indexed, TreeShape
  <2>. HIDE DEF type
  <2>3. drag' \in Drag
    BY <2>1, <2>2 DEF Dragged, Drag
  <2>. QED
    BY <1>3, <1>5, <2>3 DEF BeginNodeDrag
<1>6. ASSUME NEW target \in Target \cup {None}, drag # None
      PROVE  [drag EXCEPT !.target = target] \in Drag
  BY <1>2, <1>6 DEF Drag
<1>7. ASSUME Hover PROVE EditorSound'
  <2>1. \E target \in Target \cup {None} : drag' = [drag EXCEPT !.target = target]
    <3>1. CASE \E i \in DOMAIN page : \E position \in PositionsOn(page, i) :
                 drag' = [drag EXCEPT !.target = TargetOn(page, drag, i, position)]
      <4>1. PICK i \in 1..Len(page), position \in Positions :
                   drag' = [drag EXCEPT !.target = TargetOn(page, drag, i, position)]
        BY <1>1, <3>1 DEF PositionsOn, Positions
      <4>2. TargetOn(page, drag, i, position) \in Target \cup {None}
        BY <1>1, TargetTyped
      <4>. QED
        BY <4>1, <4>2
    <3>2. CASE drag' = [drag EXCEPT !.target = TargetAtEnd(page, drag)]
      <4>1. TargetAtEnd(page, drag) \in Target \cup {None}
        BY <1>1, DragTargets
      <4>. QED
        BY <3>2, <4>1
    <3>. QED
      BY <1>7, <3>1, <3>2 DEF Hover, page
  <2>2. drag' \in Drag
    BY <1>6, <1>7, <2>1 DEF Hover
  <2>. QED
    BY <1>3, <1>7, <2>2 DEF Hover
<1>8. ASSUME NEW step \in {-1, 1}, Arrow(step) PROVE EditorSound'
  <2>. DEFINE from == IF drag.target = None THEN drag.id ELSE drag.target.id
              next == StepTarget(page, drag, from, step)
  <2>1. drag # None /\ drag' = [drag EXCEPT !.target = next]
    BY <1>8 DEF Arrow, page
  <2>2. next \in Target \cup {None}
    BY <1>1, DragTargets
  <2>. HIDE DEF next
  <2>3. drag' \in Drag
    BY <1>6, <2>1, <2>2
  <2>. QED
    BY <1>3, <1>8, <2>3 DEF Arrow
<1>9. ASSUME Cancel PROVE EditorSound'
  BY <1>3, <1>9 DEF Cancel
<1>. QED
  BY <1>4, <1>5, <1>7, <1>8, <1>9

\* Saving, answers and losses, and what somebody else saves.
LEMMA SaveSteps ==
    ASSUME EditorSound
    PROVE  /\ SaveDraft => EditorSound'
           /\ OtherSaves => EditorSound'
           /\ \A r \in requests :
                /\ CheckSave(r) => EditorSound'
                /\ WriteSave(r) => EditorSound'
                /\ Answer(r) => EditorSound'
                /\ LoseAnswer(r) => EditorSound'
                /\ LoseRequest(r) => EditorSound'
<1>1. /\ edits \in Nat /\ shown \in Open /\ 1 \in Open
      /\ requests \subseteq Request /\ Open \subseteq Stores
  BY EditorFacts DEF EditorSound, Server
<1>2. drag' = drag => Dragging'
  BY DEF EditorSound, Dragging
<1>3. ASSUME NEW s \in Open
      PROVE  /\ docs[s] \in Document /\ DocSound(docs[s], edits)
             /\ docs[s].typing => docs[s].past # <<>>
             /\ docs[s].version \in DOMAIN revisions
             /\ docs[s].saved = revisions[docs[s].version]
             /\ docs[s].version \in Nat \ {0} /\ docs[s].present \in Trees
             /\ Grown(docs[s].present, edits) /\ Grown(docs[s].saved, edits)
  BY EditorFacts, DocFields DEF EditorSound, Editors, DocSound
<1>4. ASSUME NEW r \in requests
      PROVE  /\ r \in Request /\ r.store \in Open \cup {0} /\ Grown(r.tree, edits)
             /\ r.version \in DOMAIN revisions
             /\ r.phase = "saved" => /\ r.version + 1 \in DOMAIN revisions
                                     /\ revisions[r.version + 1] = r.tree
  BY <1>1 DEF EditorSound, Server
<1>5. ASSUME NEW s \in Open, NEW saving \in BOOLEAN,
             docs' = [docs EXCEPT ![s].saving = saving], UNCHANGED <<shown, edits, revisions>>
      PROVE  Editors' /\ Open' = Open
  <2>. DEFINE d == docs[s]
              e == [d EXCEPT !.saving = saving]
  <2>1. docs' = [docs EXCEPT ![s] = e]
    BY <1>5
  <2>2. /\ e \in Document /\ e.past = d.past /\ e.present = d.present
        /\ e.future = d.future /\ e.typing = d.typing /\ e.saved = d.saved
        /\ e.version = d.version
    BY <1>3 DEF Document
  <2>. HIDE DEF e
  <2>3. DocSound(e, edits) /\ Keeps(d, e, 0)
    <3>1. /\ Grown(e.saved, edits) /\ DocSound(d, edits) /\ (d.typing => d.past # <<>>)
      BY <1>3, <2>2
    <3>. HIDE DEF d
    <3>. QED
      BY <1>1, <2>2, <3>1, SameHistory
  <2>4. e.version \in DOMAIN revisions /\ e.saved = revisions[e.version]
    BY <1>3, <2>2
  <2>. QED
    BY <1>5, <2>1, <2>3, <2>4, QuietUpdate
<1>6. ASSUME SaveDraft PROVE EditorSound'
  <2>. DEFINE r == [store |-> shown, version |-> docs[shown].version, tree |-> Tree,
                    phase |-> "check"]
  <2>1. /\ docs' = [docs EXCEPT ![shown].saving = TRUE]
        /\ requests' = requests \cup {r}
        /\ UNCHANGED <<shown, drag, session, edits, revisions>>
    BY <1>6 DEF SaveDraft
  <2>2. Editors' /\ Open' = Open
    BY <1>1, <1>5, <2>1
  <2>3. /\ r \in Request /\ r.store \in Open \cup {0} /\ Grown(r.tree, edits)
        /\ r.version \in DOMAIN revisions /\ r.phase # "saved"
    BY <1>1, <1>3 DEF Request, Tree, Present
  <2>. HIDE DEF r
  <2>4. Server'
    <3>1. \A q \in requests' : q \in requests \/ q = r
      BY <2>1
    <3>. QED
      BY <2>1, <2>2, <2>3, <3>1, RequestsMove
  <2>. QED
    BY <1>2, <2>1, <2>2, <2>4 DEF EditorSound
<1>7. ASSUME OtherSaves PROVE EditorSound'
  <2>. DEFINE now == revisions[Len(revisions)]
  <2>0. PICK id \in Ids(now) : \E tree \in {RemoveNode(now, id), WithText(now, id)} :
               revisions' = Append(revisions, tree)
    BY <1>7 DEF OtherSaves
  <2>1. PICK tree \in {RemoveNode(now, id), WithText(now, id)} :
               revisions' = Append(revisions, tree)
    BY <2>0
  <2>2. now \in Trees /\ Grown(now, edits)
    <3>1. /\ revisions \in Seq(Trees) /\ revisions # <<>>
          /\ \A v \in DOMAIN revisions : Grown(revisions[v], edits)
      BY DEF EditorSound, Server
    <3>2. Len(revisions) \in DOMAIN revisions
      BY <3>1, EmptySeq, LenProperties
    <3>. QED
      BY <3>1, <3>2 DEF Grown, Well
  <2>3. Grown(tree, edits)
    <3>. HIDE DEF now
    <3>1. CASE tree = WithText(now, id)
      BY <1>1, <2>2, <3>1, TextGrown
    <3>2. CASE tree = RemoveNode(now, id)
      BY <1>1, <2>2, <3>2, RemoveGrown
    <3>. QED
      BY <2>1, <3>1, <3>2
  <2>4. UNCHANGED <<docs, shown, drag, session, edits, requests>>
    BY <1>7 DEF OtherSaves
  <2>5. Editors' /\ Server'
    BY <2>1, <2>3, <2>4, ServerStores
  <2>. QED
    BY <1>2, <2>4, <2>5 DEF EditorSound
<1>8. ASSUME NEW r \in requests, CheckSave(r) PROVE EditorSound'
  <2>. DEFINE phase == IF Acceptable(r) THEN "write" ELSE "refused"
              p == [r EXCEPT !.phase = phase]
  <2>1. /\ requests' = (requests \ {r}) \cup {p}
        /\ UNCHANGED <<docs, shown, drag, session, edits, revisions>>
    BY <1>8 DEF CheckSave, Becomes
  <2>2. /\ p \in Request /\ p.store = r.store /\ p.version = r.version /\ p.tree = r.tree
        /\ p.phase # "saved"
    <3>1. phase \in {"check", "write", "saved", "refused"} /\ phase # "saved"
      OBVIOUS
    <3>. HIDE DEF phase
    <3>2. r \in Request
      BY <1>4
    <3>3. /\ p \in Request /\ p.phase = phase
          /\ p.store = r.store /\ p.version = r.version /\ p.tree = r.tree
      BY <3>1, <3>2 DEF Request
    <3>. QED
      BY <3>1, <3>3
  <2>. HIDE DEF p
  <2>3. Editors' /\ Open' = Open
    BY <2>1, EditorsKept
  <2>4. Server'
    <3>1. \A q \in requests' : q \in requests \/ q = p
      BY <2>1
    <3>. QED
      BY <1>4, <2>1, <2>2, <2>3, <3>1, RequestsMove
  <2>. QED
    BY <1>2, <2>1, <2>3, <2>4 DEF EditorSound
<1>9. ASSUME NEW r \in requests, WriteSave(r) PROVE EditorSound'
  <2>1. UNCHANGED <<docs, shown, drag, session, edits>>
    BY <1>9 DEF WriteSave
  <2>2. CASE IsCurrent(r)
    <3>. DEFINE p == [r EXCEPT !.phase = "saved"]
    <3>1. /\ revisions' = Append(revisions, r.tree) /\ r.version = Len(revisions)
          /\ requests' = (requests \ {r}) \cup {p}
      BY <1>9, <2>2 DEF WriteSave, IsCurrent, Becomes
    <3>2. /\ p \in Request /\ p.store = r.store /\ p.version = r.version /\ p.tree = r.tree
      BY <1>4, RequestFields
    <3>. HIDE DEF p
    <3>3. \A q \in requests' : q \in requests \/ q = p
      BY <3>1
    <3>4. Editors' /\ Server'
      BY <1>4, <2>1, <3>1, <3>2, <3>3, ServerStores
    <3>. QED
      BY <1>2, <2>1, <3>4 DEF EditorSound
  <2>3. CASE ~IsCurrent(r)
    <3>. DEFINE p == [r EXCEPT !.phase = "refused"]
    <3>1. requests' = (requests \ {r}) \cup {p} /\ UNCHANGED revisions
      BY <1>9, <2>3 DEF WriteSave, Becomes
    <3>2. /\ p \in Request /\ p.store = r.store /\ p.version = r.version /\ p.tree = r.tree
          /\ p.phase # "saved"
      BY <1>4, RequestFields
    <3>. HIDE DEF p
    <3>3. Editors' /\ Open' = Open
      BY <2>1, <3>1, EditorsKept
    <3>4. Server'
      <4>1. \A q \in requests' : q \in requests \/ q = p
        BY <3>1
      <4>. QED
        BY <1>4, <2>1, <3>1, <3>2, <3>3, <4>1, RequestsMove
    <3>. QED
      BY <1>2, <2>1, <3>3, <3>4 DEF EditorSound
  <2>. QED
    BY <2>2, <2>3
<1>10. ASSUME NEW r \in requests, Answer(r) PROVE EditorSound'
  <2>1. /\ requests' = requests \ {r} /\ r.phase \in {"saved", "refused"}
        /\ UNCHANGED <<shown, drag, session, edits, revisions>>
    BY <1>10 DEF Answer
  <2>2. Editors' /\ Open' = Open
    <3>1. CASE r.store = 0
      BY <1>10, <2>1, <3>1, EditorsKept DEF Answer
    <3>2. CASE r.store # 0 /\ r.phase = "refused"
      BY <1>4, <1>5, <1>10, <2>1, <3>2 DEF Answer
    <3>3. CASE r.store # 0 /\ r.phase = "saved"
      <4>. DEFINE d == docs[r.store]
                  e == Marked(d, r)
      <4>1. docs' = [docs EXCEPT ![r.store] = e] /\ r.store \in Open
        BY <1>4, <1>10, <3>3 DEF Answer
      <4>2. /\ r.version + 1 \in DOMAIN revisions /\ revisions[r.version + 1] = r.tree
            /\ r.tree \in Trees /\ Grown(r.tree, edits) /\ r.version \in Nat \ {0}
        BY <1>4, <3>3, RequestFields
      <4>3. /\ e \in Document /\ e.past = d.past /\ e.present = d.present
            /\ e.future = d.future /\ e.typing = d.typing
            /\ e.saved = r.tree /\ e.version = r.version + 1
        <5>1. r.version + 1 \in Nat \ {0}
          BY <4>2
        <5>2. d \in Document
          BY <1>3, <4>1
        <5>. QED
          BY <4>2, <5>1, <5>2 DEF Marked, Document
      <4>. HIDE DEF e
      <4>4. DocSound(e, edits) /\ Keeps(d, e, 0)
        <5>1. /\ Grown(e.saved, edits) /\ DocSound(d, edits) /\ (d.typing => d.past # <<>>)
          BY <1>3, <4>1, <4>2, <4>3
        <5>. HIDE DEF d
        <5>. QED
          BY <1>1, <4>3, <5>1, SameHistory
      <4>5. e.version \in DOMAIN revisions /\ e.saved = revisions[e.version]
        BY <4>2, <4>3
      <4>. QED
        BY <2>1, <4>1, <4>4, <4>5, QuietUpdate
    <3>. QED
      BY <2>1, <3>1, <3>2, <3>3
  <2>3. Server'
    <3>1. \A q \in requests' : q \in requests
      BY <2>1
    <3>. QED
      BY <2>1, <2>2, <3>1, RequestsMove
  <2>. QED
    BY <1>2, <2>1, <2>2, <2>3 DEF EditorSound
<1>11. ASSUME NEW r \in requests, LoseAnswer(r) PROVE EditorSound'
  <2>. DEFINE p == [r EXCEPT !.store = 0]
  <2>1. /\ r.store # 0 /\ requests' = (requests \ {r}) \cup {p}
        /\ docs' = [docs EXCEPT ![r.store].saving = FALSE]
        /\ UNCHANGED <<shown, drag, session, edits, revisions>>
    BY <1>11 DEF LoseAnswer
  <2>2. Editors' /\ Open' = Open
    BY <1>4, <1>5, <2>1
  <2>3. /\ p \in Request /\ p.store = 0 /\ p.version = r.version /\ p.tree = r.tree
        /\ p.phase = r.phase
    <3>1. "check" \in {"check", "write", "saved", "refused"}
      OBVIOUS
    <3>. QED
      BY <1>4, <3>1, RequestFields
  <2>. HIDE DEF p
  <2>4. Server'
    <3>1. \A q \in requests' : q \in requests \/ q = p
      BY <2>1
    <3>. QED
      BY <1>4, <2>1, <2>2, <2>3, <3>1, RequestsMove
  <2>. QED
    BY <1>2, <2>1, <2>2, <2>4 DEF EditorSound
<1>12. ASSUME NEW r \in requests, LoseRequest(r) PROVE EditorSound'
  <2>1. /\ requests' = requests \ {r}
        /\ UNCHANGED <<docs, shown, drag, session, edits, revisions>>
    BY <1>12 DEF LoseRequest
  <2>2. Editors' /\ Open' = Open
    BY <2>1, EditorsKept
  <2>3. Server'
    <3>1. \A q \in requests' : q \in requests
      BY <2>1
    <3>. QED
      BY <2>1, <2>2, <3>1, RequestsMove
  <2>. QED
    BY <1>2, <2>1, <2>2, <2>3 DEF EditorSound
<1>. QED
  BY <1>6, <1>7, <1>8, <1>9, <1>10, <1>11, <1>12

LEMMA StepSound == EditorSound /\ [Next]_vars => EditorSound'
<1>. SUFFICES ASSUME EditorSound, [Next]_vars PROVE EditorSound'
  OBVIOUS
<1>1. CASE UNCHANGED vars
  <2>1. UNCHANGED <<docs, shown, drag, session, edits, revisions, requests>>
    BY <1>1 DEF vars
  <2>2. Editors' /\ Open' = Open
    BY <2>1, EditorsKept
  <2>3. Server'
    BY <2>1, <2>2, RequestsMove
  <2>. QED
    BY <2>1, <2>2, <2>3 DEF EditorSound, Dragging
<1>2. CASE Next
  BY <1>2, EditSteps, QuietSteps, DragSteps, SaveSteps DEF Next
<1>. QED
  BY <1>1, <1>2

LEMMA AlwaysSound == Spec => []EditorSound
  BY InitSound, StepSound, PTL DEF Spec

LEMMA FirstOf ==
    ASSUME NEW p \in Seq(Trees), NEW tree \in Trees, NEW f \in Seq(Trees)
    PROVE  (p \o <<tree>> \o f)[1] = IF p = <<>> THEN tree ELSE p[1]
<1>1. Len(p) \in Nat /\ Len(f) \in Nat /\ (p # <<>> => Len(p) # 0)
  BY EmptySeq, LenProperties
<1>. DEFINE one == <<tree>>
            q == p \o one
<1>2. one \in Seq(Trees) /\ Len(one) = 1 /\ one[1] = tree
  OBVIOUS
<1>. HIDE DEF one
<1>3. /\ q \in Seq(Trees) /\ Len(q) = Len(p) + 1
      /\ \A i \in 1..Len(p)+1 : q[i] = IF i <= Len(p) THEN p[i] ELSE one[i - Len(p)]
  <2>1. /\ q \in Seq(Trees) /\ Len(q) = Len(p) + Len(one)
        /\ \A i \in 1..Len(p)+Len(one) :
             q[i] = IF i <= Len(p) THEN p[i] ELSE one[i - Len(p)]
    BY <1>2, ConcatProperties
  <2>. HIDE DEF q
  <2>. QED
    BY <1>2, <2>1
<1>4. q[1] = IF p = <<>> THEN tree ELSE p[1]
  <2>1. CASE p = <<>>
    <3>1. Len(p) = 0
      BY <2>1
    <3>. HIDE DEF q
    <3>2. q[1] = one[1]
      BY <1>3, <3>1
    <3>. QED
      BY <1>2, <2>1, <3>2
  <2>2. CASE p # <<>>
    <3>. HIDE DEF q
    <3>1. 1 \in 1..Len(p)+1 /\ 1 <= Len(p)
      BY <1>1, <2>2
    <3>. QED
      BY <1>3, <2>2, <3>1
  <2>. QED
    BY <2>1, <2>2
<1>. HIDE DEF q
<1>5. 1 <= Len(q) /\ Len(q) \in Nat
  BY <1>1, <1>3
<1>6. (q \o f)[1] = q[1]
  <2>. DEFINE m == Len(q)
              n == Len(f)
  <2>1. \A i \in 1..m+n : (q \o f)[i] = IF i <= m THEN q[i] ELSE f[i - m]
    BY <1>3, ConcatProperties
  <2>2. m \in Nat /\ n \in Nat /\ 1 <= m
    BY <1>1, <1>5
  <2>. HIDE DEF m, n
  <2>3. 1 \in 1..m+n
    BY <2>2
  <2>. QED
    BY <2>1, <2>2, <2>3
<1>. QED
  BY <1>4, <1>6 DEF q, one

\* What the invariant says of the runs' properties.
LEMMA SoundSession ==
    ASSUME EditorSound
    PROVE  TypeOK /\ SoundTrees /\ BaselineIsRevision /\ UndoReachesStart
<1>1. \A s \in Open : docs[s] \in Document /\ DocSound(docs[s], edits)
  BY EditorFacts DEF EditorSound, Editors
<1>2. edits \in Nat
  BY EditorFacts
<1>3. TypeOK
  BY <1>1 DEF EditorSound, Editors, Server, Dragging, DocSound, HistorySize, TypeOK
<1>4. SoundTrees
  <2>1. ASSUME NEW s \in Open, NEW tree \in TreesOf(docs[s])
        PROVE  Grown(tree, edits)
    BY <1>1, <2>1 DEF DocSound, TreesOf
  <2>. QED
    BY <1>2, <2>1, GrownIsSound DEF SoundTrees
<1>5. BaselineIsRevision
  BY DEF EditorSound, Editors, BaselineIsRevision
<1>6. UndoReachesStart
  <2>. DEFINE d == docs[1]
  <2>1. d.past \in Seq(Trees) /\ d.present \in Trees /\ d.future \in Seq(Trees)
    BY EditorFacts, DocFields
  <2>2. Timeline(d)[1] = Oldest(d)
    BY <2>1, FirstOf DEF Timeline, Oldest
  <2>. QED
    BY <2>2 DEF EditorSound, Editors, UndoReachesStart
<1>. QED
  BY <1>3, <1>4, <1>5, <1>6

\* However a page is edited, every tree an editor can come back to parses and is nested
\* the way the catalog allows, and no history outgrows MAX_HISTORY_ENTRIES
\* (tree-operations.ts, document-history.ts).
THEOREM EditorIsSound == Spec => []EditorInv
<1>1. EditorSound => EditorInv
  BY SoundSession DEF EditorInv
<1>. QED
  BY <1>1, AlwaysSound, PTL

\* What an editor takes for saved is the stored revision whose version it will send
\* (markSaved, saveSucceeded).
THEOREM BaselineHolds == Spec => []BaselineIsRevision
<1>1. EditorSound => BaselineIsRevision
  BY SoundSession
<1>. QED
  BY <1>1, AlwaysSound, PTL

\* Undoing leads back to the tree the session began with while the history has room for
\* every edit (updatePropsInPlace, commitSnapshot, undoEdit, redoEdit).
THEOREM UndoHolds == Spec => []UndoReachesStart
<1>1. EditorSound => UndoReachesStart
  BY SoundSession
<1>. QED
  BY <1>1, AlwaysSound, PTL

-----------------------------------------------------------------------------
(* What a restricted editor can save.                                      *)

\* A restricted editor's save of `new` over `old` is in its edit scope.
InScope(old, new) == InEditScope(old, new, FALSE)

LEMMA ScopeEquals ==
    ASSUME NEW a \in Trees, NEW b \in Trees, InScope(a, b)
    PROVE  /\ InScope(a, a) /\ InScope(b, a)
           /\ \A c \in Trees : InScope(b, c) => InScope(a, c)
<1>. DEFINE n == Len(a)
<1>1. DOMAIN a = 1..n /\ DOMAIN b = 1..Len(b) /\ n = Len(b)
  BY TreeShape DEF InScope, InEditScope, SameStructure
<1>2. \A i \in 1..n : /\ a[i].id = b[i].id /\ a[i].type = b[i].type
                      /\ ParentAt(a, i) = ParentAt(b, i)
                      /\ b[i].text # a[i].text => b[i].type \in Municipal
  BY <1>1 DEF InScope, InEditScope, SameStructure
<1>3. InScope(a, a)
  BY DEF InScope, InEditScope, SameStructure
<1>4. InScope(b, a)
  BY <1>1, <1>2 DEF InScope, InEditScope, SameStructure
<1>5. ASSUME NEW c \in Trees, InScope(b, c)
      PROVE  InScope(a, c)
  <2>1. DOMAIN c = 1..Len(c) /\ Len(c) = n
    BY <1>1, <1>5, TreeShape DEF InScope, InEditScope, SameStructure
  <2>2. \A i \in 1..n : /\ b[i].id = c[i].id /\ b[i].type = c[i].type
                        /\ ParentAt(b, i) = ParentAt(c, i)
                        /\ c[i].text # b[i].text => c[i].type \in Municipal
    BY <1>1, <1>5, <2>1 DEF InScope, InEditScope, SameStructure
  <2>3. \A i \in 1..n : /\ a[i].id = c[i].id /\ a[i].type = c[i].type
                        /\ ParentAt(a, i) = ParentAt(c, i)
                        /\ c[i].text # a[i].text => c[i].type \in Municipal
    BY <1>2, <2>2
  <2>. QED
    BY <1>1, <2>1, <2>3 DEF InScope, InEditScope, SameStructure
<1>. QED
  BY <1>3, <1>4, <1>5

LEMMA ScopeReflexive ==
    ASSUME NEW a
    PROVE  InScope(a, a)
  BY DEF InScope, InEditScope, SameStructure

\* Trees with the same ids and depths have the same parents.
LEMMA SameParents ==
    ASSUME NEW a \in Trees, NEW b \in Trees, Len(a) = Len(b),
           \A k \in 1..Len(a) : a[k].id = b[k].id /\ a[k].depth = b[k].depth,
           NEW i \in 1..Len(a)
    PROVE  ParentAt(a, i) = ParentAt(b, i)
<1>1. Len(a) \in Nat
  BY TreeShape
<1>2. \A j \in 1..i-1 : j \in 1..Len(a)
  BY <1>1
<1>3. Above(a, i) = Above(b, i)
  BY <1>2 DEF Above
<1>4. CASE Above(a, i) = {}
  BY <1>3, <1>4 DEF ParentAt
<1>5. CASE Above(a, i) # {}
  <2>1. PICK p \in 1..i-1 : Max(Above(a, i)) = p
    BY <1>5, Parents
  <2>2. a[p].id = b[p].id
    BY <1>2
  <2>. QED
    BY <1>3, <1>5, <2>1, <2>2 DEF ParentAt
<1>. QED
  BY <1>4, <1>5

\* A change of one field of one node, where a restricted editor sees the field.
LEMMA FieldInScope ==
    ASSUME NEW tree \in Trees, NEW id \in Ids(tree), NEW new \in Trees,
           \/ new = WithVisible(tree, id)
           \/ new = WithText(tree, id) /\ tree[IndexOf(tree, id)].type \in Municipal
    PROVE  InScope(tree, new)
<1>. DEFINE i == IndexOf(tree, id)
<1>1. DOMAIN tree = 1..Len(tree) /\ DOMAIN new = 1..Len(new) /\ Len(tree) \in Nat
      /\ i \in 1..Len(tree) /\ \A k \in 1..Len(tree) : tree[k] \in Node
  BY TreeShape, Indexed
<1>. HIDE DEF i
<1>2. DOMAIN new = 1..Len(tree)
      /\ \A k \in 1..Len(tree) :
           /\ new[k].id = tree[k].id /\ new[k].type = tree[k].type
           /\ new[k].depth = tree[k].depth
           /\ new[k].text # tree[k].text => tree[k].type \in Municipal
  <2>1. CASE new = WithVisible(tree, id)
    <3>1. new = [tree EXCEPT ![i].visible = ~@]
      BY <2>1 DEF WithVisible, i
    <3>. QED
      BY <1>1, <3>1 DEF Node
  <2>2. CASE new = WithText(tree, id) /\ tree[i].type \in Municipal
    <3>1. new = [tree EXCEPT ![i].text = 1 - @]
      BY <2>2 DEF WithText, i
    <3>. QED
      BY <1>1, <2>2, <3>1 DEF Node
  <2>. QED
    BY <2>1, <2>2 DEF i
<1>3. Len(new) = Len(tree)
  <2>1. Len(new) \in Nat
    BY TreeShape
  <2>. DEFINE m == Len(new)
              n == Len(tree)
  <2>2. m \in Nat /\ n \in Nat /\ 1..m = 1..n
    BY <1>1, <1>2, <2>1
  <2>. HIDE DEF m, n
  <2>3. \A k \in Int : k \in 1..m <=> k \in 1..n
    BY <2>2
  <2>4. m = n
    BY <2>2, <2>3
  <2>. QED
    BY <2>4 DEF m, n
<1>4. \A k \in 1..Len(tree) : ParentAt(new, k) = ParentAt(tree, k)
  BY <1>2, <1>3, SameParents
<1>. QED
  BY <1>1, <1>2, <1>3, <1>4 DEF InScope, InEditScope, SameStructure

\* A save whose editor still waits for it has the version of its document, and no other
\* save of that editor is under way.
Awaited ==
    /\ shown = 1 => docs[2] = None
    /\ \A r \in requests :
         /\ r.store # 0 => docs[r.store].saving /\ docs[r.store].version = r.version
         /\ \A q \in requests : r.store # 0 /\ q.store = r.store => q = r

\* Whatever a restricted editor can undo to, redo, save or is saving is in the edit scope
\* of the revision it began from.
Restricted ==
    ~session.full =>
        /\ drag = None
        /\ \A s \in Open : \A tree \in TreesOf(docs[s]) : InScope(docs[s].saved, tree)
        /\ \A r \in requests : InScope(revisions[r.version], r.tree)

Together == EditorSound /\ Awaited /\ Restricted

LEMMA InitTogether == Init => Together
<1>. SUFFICES ASSUME Init PROVE Together
  OBVIOUS
<1>1. EditorSound
  BY InitSound
<1>2. requests = {} /\ drag = None /\ docs[2] = None /\ Open \subseteq {1}
  BY DEF Init, Stores, Open
<1>3. docs[1] = NewDocument(revisions[1], 1)
  BY DEF Init, Stores
<1>4. docs[1].saved = revisions[1] /\ TreesOf(docs[1]) = {revisions[1]}
  <2>. DEFINE d == NewDocument(revisions[1], 1)
  <2>1. /\ d.past = <<>> /\ d.future = <<>> /\ d.present = revisions[1]
        /\ d.saved = revisions[1]
    BY DEF NewDocument
  <2>. HIDE DEF d
  <2>2. TreesOf(d) = {revisions[1]}
    BY <2>1 DEF TreesOf
  <2>. QED
    BY <1>3, <2>1, <2>2 DEF d
<1>. QED
  BY <1>1, <1>2, <1>4, ScopeReflexive DEF Together, Awaited, Restricted

\* An edit of one document.
LEMMA AwaitedKept ==
    ASSUME Together, NEW s \in Open, NEW e, docs' = [docs EXCEPT ![s] = e],
           e.saving = docs[s].saving, e.version = docs[s].version,
           UNCHANGED <<shown, requests>>
    PROVE  Awaited'
<1>1. /\ docs \in [Stores -> Document \cup {None}] /\ s \in Stores /\ docs[s] # None
  BY DEF Together, EditorSound, Editors, Open
<1>2. docs'[s] = e /\ \A t \in Stores : t # s => docs'[t] = docs[t]
  BY <1>1
<1>3. \A r \in requests : r.store # 0 => r.store \in Stores
  BY DEF Together, EditorSound, Server, Open
<1>4. shown' = 1 => docs'[2] = None
  BY <1>1, <1>2 DEF Together, Awaited, Stores
<1>5. ASSUME NEW r \in requests, r.store # 0
      PROVE  docs'[r.store].saving /\ docs'[r.store].version = r.version
  BY <1>2, <1>3, <1>5 DEF Together, Awaited
<1>. QED
  BY <1>4, <1>5 DEF Together, Awaited

LEMMA RestrictedKept ==
    ASSUME Together, NEW s \in Open, NEW e, docs' = [docs EXCEPT ![s] = e], e # None,
           ~session.full => \A tree \in TreesOf(e) : InScope(e.saved, tree),
           ~session.full => drag' = None,
           UNCHANGED <<session, revisions>>,
           \A r \in requests' : \/ r \in requests
                               \/ session.full \/ InScope(revisions[r.version], r.tree)
    PROVE  Restricted'
<1>1. /\ docs \in [Stores -> Document \cup {None}] /\ s \in Stores /\ docs[s] # None
  BY DEF Together, EditorSound, Editors, Open
<1>2. docs'[s] = e /\ \A t \in Stores : t # s => docs'[t] = docs[t]
  BY <1>1
<1>3. Open' = Open
  BY <1>1, <1>2 DEF Open
<1>. SUFFICES ASSUME ~session.full PROVE Restricted'
  BY DEF Restricted
<1>4. ASSUME NEW t \in Open, NEW tree \in TreesOf(docs'[t])
      PROVE  InScope(docs'[t].saved, tree)
  <2>1. t = s \/ docs'[t] = docs[t]
    BY <1>2 DEF Open
  <2>. QED
    BY <1>2, <1>4, <2>1 DEF Together, Restricted
<1>. QED
  BY <1>3, <1>4 DEF Together, Restricted

\* A tree of an open document.
LEMMA OpenTrees ==
    ASSUME Together, NEW s \in Open, NEW tree \in TreesOf(docs[s])
    PROVE  tree \in Trees
<1>1. Grown(tree, edits)
  BY DEF Together, EditorSound, Editors, DocSound, TreesOf
<1>. QED
  BY <1>1 DEF Grown, Well

LEMMA EditsTogether ==
    ASSUME Together
    PROVE  /\ \A type \in Types : Insert(type) => Awaited' /\ Restricted'
           /\ \A id \in Ids(Tree) :
                /\ Remove(id) => Awaited' /\ Restricted'
                /\ Duplicate(id) => Awaited' /\ Restricted'
                /\ Type(id) => Awaited' /\ Restricted'
                /\ Toggle(id) => Awaited' /\ Restricted'
                /\ \A step \in {-1, 1} : MoveBy(id, step) => Awaited' /\ Restricted'
           /\ Drop => Awaited' /\ Restricted'
           /\ FinishTyping => Awaited' /\ Restricted'
           /\ Undo => Awaited' /\ Restricted'
           /\ Redo => Awaited' /\ Restricted'
<1>. DEFINE d == docs[shown]
<1>1. /\ edits \in Nat /\ shown \in Open /\ 1 \in Open /\ d \in Document
      /\ \A s \in Open : docs[s] \in Document
  BY EditorFacts DEF Together
<1>2. /\ DocSound(d, edits) /\ (d.typing => d.past # <<>>)
  BY <1>1 DEF Together, EditorSound, Editors
<1>3. ~session.full => drag = None /\ \A tree \in TreesOf(d) : InScope(d.saved, tree)
  BY <1>1 DEF Together, Restricted
<1>4. d.saved \in Trees /\ d.present \in Trees /\ d.present \in TreesOf(d)
  BY <1>1, DocFields DEF TreesOf
<1>5. ASSUME NEW s \in Open, NEW tree, Commit(s, tree), session.full = TRUE,
             UNCHANGED <<shown, session, revisions, requests>>
      PROVE  Awaited' /\ Restricted'
  <2>. DEFINE e == Committed(docs[s], tree)
  <2>1. docs' = [docs EXCEPT ![s] = e] /\ docs[s] \in Document
    BY <1>1, <1>5 DEF Commit
  <2>2. e.saving = docs[s].saving /\ e.version = docs[s].version
    BY <2>1 DEF Committed, Document
  <2>. HIDE DEF e
  <2>3. Awaited'
    BY <1>5, <2>1, <2>2, AwaitedKept
  <2>4. Restricted'
    BY <1>5 DEF Restricted
  <2>. QED
    BY <2>3, <2>4
<1>6. ASSUME NEW new, Grown(new, edits), ~session.full => InScope(d.present, new), NEW e,
             \/ e = Updated(d, new)
             \/ e = [Updated(d, new) EXCEPT !.typing = FALSE],
             docs' = [docs EXCEPT ![shown] = e],
             UNCHANGED <<shown, drag, session, revisions, requests>>
      PROVE  Awaited' /\ Restricted'
  <2>. DEFINE u == Updated(d, new)
              f == [u EXCEPT !.typing = FALSE]
  <2>1. /\ u \in Document /\ f \in Document
        /\ TreesOf(u) \subseteq TreesOf(d) \cup {new}
        /\ TreesOf(f) \subseteq TreesOf(d) \cup {new}
    <3>. HIDE DEF d
    <3>. QED
      BY <1>1, <1>2, <1>6, UpdatedSound DEF DocSound
  <2>2. /\ e.saving = d.saving /\ e.version = d.version /\ e.saved = d.saved
    BY <1>1, <1>6 DEF Updated, Committed, Document
  <2>3. e = u \/ e = f
    BY <1>6
  <2>. HIDE DEF u, f
  <2>4. e \in Document /\ TreesOf(e) \subseteq TreesOf(d) \cup {new}
    BY <2>1, <2>3
  <2>5. ~session.full => InScope(d.saved, new)
    <3>1. new \in Trees
      BY <1>6 DEF Grown, Well
    <3>. QED
      BY <1>3, <1>4, <1>6, <3>1, ScopeEquals
  <2>6. ~session.full => \A tree \in TreesOf(e) : InScope(e.saved, tree)
    BY <1>3, <2>2, <2>4, <2>5
  <2>7. e # None
    BY <2>4, NoneApart
  <2>8. Awaited'
    <3>. HIDE DEF d
    <3>1. e.saving = docs[shown].saving /\ e.version = docs[shown].version
      BY <2>2 DEF d
    <3>. QED
      BY <1>1, <1>6, <3>1, AwaitedKept
  <2>9. Restricted'
    BY <1>1, <1>3, <1>6, <2>6, <2>7, RestrictedKept
  <2>. QED
    BY <2>8, <2>9
<1>7. ASSUME NEW e \in Document, TreesOf(e) \subseteq TreesOf(d), e.saved = d.saved,
             e.saving = d.saving, e.version = d.version,
             docs' = [docs EXCEPT ![shown] = e],
             UNCHANGED <<shown, drag, session, revisions, requests>>
      PROVE  Awaited' /\ Restricted'
  <2>1. e # None /\ (~session.full => \A tree \in TreesOf(e) : InScope(e.saved, tree))
    BY <1>3, <1>7, NoneApart
  <2>2. Awaited'
    BY <1>1, <1>7, AwaitedKept
  <2>3. Restricted'
    BY <1>1, <1>3, <1>7, <2>1, RestrictedKept
  <2>. QED
    BY <2>2, <2>3
<1>8. session.full \in BOOLEAN
  BY EditorConstants DEF Together, EditorSound, Server
<1>9. ASSUME NEW type \in Types, Insert(type) PROVE Awaited' /\ Restricted'
  BY <1>1, <1>5, <1>8, <1>9 DEF Insert, MayRestructure
<1>10. ASSUME NEW id, Remove(id) PROVE Awaited' /\ Restricted'
  BY <1>1, <1>5, <1>8, <1>10 DEF Remove, MayRestructure
<1>11. ASSUME NEW id, Duplicate(id) PROVE Awaited' /\ Restricted'
  BY <1>1, <1>5, <1>8, <1>11 DEF Duplicate, MayRestructure
<1>12. ASSUME NEW id, NEW step, MoveBy(id, step) PROVE Awaited' /\ Restricted'
  BY <1>1, <1>5, <1>8, <1>12 DEF MoveBy, MayRestructure
<1>13. ASSUME Drop PROVE Awaited' /\ Restricted'
  BY <1>1, <1>3, <1>5, <1>8, <1>13 DEF Drop
<1>14. Tree = d.present /\ Grown(d.present, edits)
  BY <1>2 DEF Tree, Present, DocSound
<1>15. ASSUME NEW id \in Ids(Tree), Type(id) PROVE Awaited' /\ Restricted'
  <2>. DEFINE new == WithText(Tree, id)
              e == Updated(d, new)
  <2>1. Grown(new, edits) /\ new \in Trees
    BY <1>1, <1>4, <1>14, TextGrown DEF Grown, Well
  <2>2. ~session.full => InScope(d.present, new)
    <3>1. ~session.full => Tree[IndexOf(Tree, id)].type \in Municipal
      BY <1>15 DEF Type
    <3>. QED
      BY <1>4, <1>14, <2>1, <3>1, FieldInScope
  <2>3. docs' = [docs EXCEPT ![shown] = e]
        /\ UNCHANGED <<shown, drag, session, revisions, requests>>
    BY <1>15 DEF Type
  <2>4. e = Updated(d, new)
    OBVIOUS
  <2>. HIDE DEF e, new, d
  <2>. QED
    BY <1>6, <2>1, <2>2, <2>3, <2>4
<1>16. ASSUME NEW id \in Ids(Tree), Toggle(id) PROVE Awaited' /\ Restricted'
  <2>. DEFINE new == WithVisible(Tree, id)
              e == [Updated(d, new) EXCEPT !.typing = FALSE]
  <2>1. Grown(new, edits) /\ new \in Trees
    BY <1>1, <1>4, <1>14, VisibleGrown DEF Grown, Well
  <2>2. InScope(d.present, new)
    BY <1>4, <1>14, <2>1, FieldInScope
  <2>3. docs' = [docs EXCEPT ![shown] = e]
        /\ UNCHANGED <<shown, drag, session, revisions, requests>>
    BY <1>16 DEF Toggle
  <2>4. e = [Updated(d, new) EXCEPT !.typing = FALSE]
    OBVIOUS
  <2>. HIDE DEF e, new, d
  <2>. QED
    BY <1>6, <2>1, <2>2, <2>3, <2>4
<1>17. ASSUME FinishTyping PROVE Awaited' /\ Restricted'
  <2>. DEFINE e == [d EXCEPT !.typing = FALSE]
  <2>1. docs' = [docs EXCEPT ![shown] = e]
        /\ UNCHANGED <<shown, drag, session, revisions, requests>>
    BY <1>17 DEF FinishTyping
  <2>2. /\ e \in Document /\ e.past = d.past /\ e.present = d.present
        /\ e.future = d.future /\ e.saved = d.saved /\ e.saving = d.saving
        /\ e.version = d.version
    BY <1>1 DEF Document
  <2>. HIDE DEF e
  <2>3. TreesOf(e) = TreesOf(d)
    BY <2>2 DEF TreesOf
  <2>. QED
    BY <1>7, <2>1, <2>2, <2>3
<1>18. ASSUME Undo PROVE Awaited' /\ Restricted'
  <2>. DEFINE e == Undone(d)
  <2>1. docs' = [docs EXCEPT ![shown] = e]
        /\ UNCHANGED <<shown, drag, session, revisions, requests>>
    BY <1>18 DEF Undo
  <2>2. e.saved = d.saved /\ e.saving = d.saving /\ e.version = d.version
    BY <1>1 DEF Undone, Document
  <2>3. e \in Document /\ TreesOf(e) \subseteq TreesOf(d)
    <3>. HIDE DEF d
    <3>. QED
      BY <1>1, <1>2, UndoneSound DEF DocSound
  <2>. HIDE DEF e
  <2>. QED
    BY <1>7, <2>1, <2>2, <2>3
<1>19. ASSUME Redo PROVE Awaited' /\ Restricted'
  <2>. DEFINE e == Redone(d)
  <2>1. docs' = [docs EXCEPT ![shown] = e]
        /\ UNCHANGED <<shown, drag, session, revisions, requests>>
    BY <1>19 DEF Redo
  <2>2. e.saved = d.saved /\ e.saving = d.saving /\ e.version = d.version
    BY <1>1 DEF Redone, Document
  <2>3. e \in Document /\ TreesOf(e) \subseteq TreesOf(d)
    <3>. HIDE DEF d
    <3>. QED
      BY <1>1, <1>2, RedoneSound DEF DocSound
  <2>. HIDE DEF e
  <2>. QED
    BY <1>7, <2>1, <2>2, <2>3
<1>. QED
  BY <1>9, <1>10, <1>11, <1>12, <1>13, <1>15, <1>16, <1>17, <1>18, <1>19

LEMMA DragsTogether ==
    ASSUME Together
    PROVE  /\ \A type \in Types : BeginPaletteDrag(type) => Awaited' /\ Restricted'
           /\ \A id \in Ids(Tree), keyboard \in BOOLEAN :
                BeginNodeDrag(id, keyboard) => Awaited' /\ Restricted'
           /\ Hover => Awaited' /\ Restricted'
           /\ \A step \in {-1, 1} : Arrow(step) => Awaited' /\ Restricted'
           /\ Cancel => Awaited' /\ Restricted'
<1>1. ASSUME UNCHANGED <<docs, shown, session, edits, revisions, requests>>,
             session.full \/ drag' = None
      PROVE  Awaited' /\ Restricted'
  BY <1>1 DEF Together, Awaited, Restricted, Open
<1>2. drag # None => session.full
  BY DEF Together, Restricted
<1>3. ASSUME NEW type, BeginPaletteDrag(type) PROVE Awaited' /\ Restricted'
  BY <1>1, <1>3 DEF BeginPaletteDrag, MayRestructure
<1>4. ASSUME NEW id, NEW keyboard, BeginNodeDrag(id, keyboard) PROVE Awaited' /\ Restricted'
  BY <1>1, <1>4 DEF BeginNodeDrag, MayRestructure
<1>5. ASSUME Hover PROVE Awaited' /\ Restricted'
  BY <1>1, <1>2, <1>5 DEF Hover
<1>6. ASSUME NEW step, Arrow(step) PROVE Awaited' /\ Restricted'
  BY <1>1, <1>2, <1>6 DEF Arrow
<1>7. ASSUME Cancel PROVE Awaited' /\ Restricted'
  BY <1>1, <1>7 DEF Cancel
<1>. QED
  BY <1>3, <1>4, <1>5, <1>6, <1>7

\* The revision a save began from is still there when another is stored.
LEMMA OldRevisions ==
    ASSUME Together, NEW tree, Grown(tree, edits), revisions' = Append(revisions, tree),
           NEW r \in requests
    PROVE  revisions'[r.version] = revisions[r.version]
<1>1. r.version \in DOMAIN revisions
  BY DEF Together, EditorSound, Server
<1>2. \A v \in DOMAIN revisions : revisions'[v] = revisions[v]
  BY Stored DEF Together
<1>. QED
  BY <1>1, <1>2

\* A revision that somebody stores.
LEMMA NewRevision ==
    ASSUME Together, OtherSaves
    PROVE  \E tree : Grown(tree, edits) /\ revisions' = Append(revisions, tree)
<1>. DEFINE now == revisions[Len(revisions)]
<1>1. PICK id \in Ids(now) : \E tree \in {RemoveNode(now, id), WithText(now, id)} :
             revisions' = Append(revisions, tree)
  BY DEF OtherSaves
<1>2. edits \in Nat
  BY EditorFacts DEF Together
<1>3. now \in Trees /\ Grown(now, edits)
  <2>1. /\ revisions \in Seq(Trees) /\ revisions # <<>>
        /\ \A v \in DOMAIN revisions : Grown(revisions[v], edits)
    BY DEF Together, EditorSound, Server
  <2>2. Len(revisions) \in DOMAIN revisions
    BY <2>1, EmptySeq, LenProperties
  <2>. QED
    BY <2>1, <2>2 DEF Grown, Well
<1>. HIDE DEF now
<1>4. Grown(RemoveNode(now, id), edits) /\ Grown(WithText(now, id), edits)
  BY <1>2, <1>3, RemoveGrown, TextGrown
<1>. QED
  BY <1>1, <1>4

LEMMA SavesTogether ==
    ASSUME Together
    PROVE  /\ Discard => Awaited' /\ Restricted'
           /\ SaveDraft => Awaited' /\ Restricted'
           /\ OtherSaves => Awaited' /\ Restricted'
           /\ \A r \in requests :
                /\ CheckSave(r) => Awaited' /\ Restricted'
                /\ WriteSave(r) => Awaited' /\ Restricted'
                /\ Answer(r) => Awaited' /\ Restricted'
                /\ LoseAnswer(r) => Awaited' /\ Restricted'
                /\ LoseRequest(r) => Awaited' /\ Restricted'
<1>1. /\ shown \in Open /\ 1 \in Open /\ requests \subseteq Request
      /\ docs \in [Stores -> Document \cup {None}]
      /\ \A s \in Open : /\ s \in Stores /\ docs[s] # None /\ docs[s] \in Document
                         /\ docs[s].saved = revisions[docs[s].version]
  BY EditorFacts DEF Together, EditorSound, Editors, Server, Open
<1>2. \A r \in requests : r \in Request /\ r.store \in Open \cup {0} /\ r.store \in Stores \cup {0}
  BY <1>1 DEF Together, EditorSound, Server
<1>3. /\ shown = 1 => docs[2] = None
      /\ \A r \in requests :
           /\ r.store # 0 => docs[r.store].saving /\ docs[r.store].version = r.version
           /\ \A q \in requests : r.store # 0 /\ q.store = r.store => q = r
  BY DEF Together, Awaited
<1>4. ~session.full => drag = None
  BY DEF Together, Restricted
<1>5. ASSUME ~session.full
      PROVE  /\ \A s \in Open : \A tree \in TreesOf(docs[s]) : InScope(docs[s].saved, tree)
             /\ \A r \in requests : InScope(revisions[r.version], r.tree)
  BY <1>5 DEF Together, Restricted
<1>6. ASSUME Discard PROVE Awaited' /\ Restricted'
  <2>. DEFINE e == NewDocument(docs[1].saved, docs[1].version)
  <2>1. /\ docs' = [docs EXCEPT ![2] = e] /\ shown = 1 /\ shown' = 2
        /\ UNCHANGED <<drag, session, edits, revisions, requests>>
    BY <1>6 DEF Discard
  <2>2. e.saved = docs[1].saved /\ TreesOf(e) = {docs[1].saved} /\ e # None
    <3>1. docs[1].saved \in Trees /\ docs[1].version \in Nat \ {0} /\ edits \in Nat
          /\ Grown(docs[1].saved, edits)
      BY <1>1, EditorFacts, DocFields DEF Together, EditorSound, Editors, DocSound
    <3>2. DocSound(e, edits) /\ e.saved = docs[1].saved /\ TreesOf(e) = {docs[1].saved}
      BY <3>1, NewDocumentSound
    <3>. QED
      BY <3>2, NoneApart DEF DocSound
  <2>. HIDE DEF e
  <2>3. docs'[2] = e /\ docs'[1] = docs[1] /\ Open' = Open \cup {2}
    BY <1>1, <2>1, <2>2 DEF Open, Stores
  <2>4. \A r \in requests : r.store # 0 => r.store = 1
    BY <1>2, <1>3, <2>1 DEF Open, Stores
  <2>5. Awaited'
    BY <1>3, <2>1, <2>3, <2>4 DEF Awaited
  <2>6. Restricted'
    <3>. SUFFICES ASSUME ~session.full PROVE Restricted'
      BY <2>1 DEF Restricted
    <3>1. ASSUME NEW s \in Open', NEW tree \in TreesOf(docs'[s])
          PROVE  InScope(docs'[s].saved, tree)
      <4>1. CASE s = 2
        BY <2>2, <2>3, <3>1, <4>1, ScopeReflexive
      <4>2. CASE s # 2
        <5>1. s = 1 /\ docs'[s] = docs[s] /\ s \in Open
          BY <1>1, <2>3, <4>2 DEF Open, Stores
        <5>. QED
          BY <1>5, <3>1, <5>1
      <4>. QED
        BY <4>1, <4>2
    <3>. QED
      BY <1>4, <1>5, <2>1, <3>1 DEF Restricted
  <2>. QED
    BY <2>5, <2>6
<1>7. ASSUME NEW s \in Open, NEW saving \in BOOLEAN, docs' = [docs EXCEPT ![s].saving = saving],
             UNCHANGED <<shown, drag, session, revisions>>,
             \A r \in requests' : \/ r \in requests
                                 \/ session.full \/ InScope(revisions[r.version], r.tree)
      PROVE  /\ Restricted'
             /\ docs'[s].saving = saving /\ docs'[s].version = docs[s].version
             /\ \A t \in Stores : t # s => docs'[t] = docs[t]
  <2>. DEFINE d == docs[s]
              e == [d EXCEPT !.saving = saving]
  <2>1. docs' = [docs EXCEPT ![s] = e]
    BY <1>7
  <2>2. /\ e \in Document /\ e.past = d.past /\ e.present = d.present
        /\ e.future = d.future /\ e.saved = d.saved /\ e.saving = saving
        /\ e.version = d.version
    BY <1>1 DEF Document
  <2>. HIDE DEF e
  <2>3. TreesOf(e) = TreesOf(d) /\ e # None
    BY <2>2, NoneApart DEF TreesOf
  <2>4. ~session.full => \A tree \in TreesOf(e) : InScope(e.saved, tree)
    BY <1>5, <2>2, <2>3
  <2>5. Restricted'
    BY <1>4, <1>7, <2>1, <2>3, <2>4, RestrictedKept
  <2>. QED
    BY <1>1, <2>1, <2>2, <2>5
<1>8. ASSUME SaveDraft PROVE Awaited' /\ Restricted'
  <2>. DEFINE r == [store |-> shown, version |-> docs[shown].version, tree |-> Tree,
                    phase |-> "check"]
  <2>1. /\ ~docs[shown].saving
        /\ docs' = [docs EXCEPT ![shown].saving = TRUE]
        /\ requests' = requests \cup {r}
        /\ UNCHANGED <<shown, drag, session, edits, revisions>>
    BY <1>8 DEF SaveDraft
  <2>2. r.store = shown /\ r.version = docs[shown].version /\ r.tree = docs[shown].present
    BY DEF Tree, Present
  <2>. HIDE DEF r
  <2>3. ~session.full => InScope(revisions[r.version], r.tree)
    BY <1>1, <1>5, <2>2 DEF TreesOf
  <2>4. \A q \in requests' : q \in requests \/ q = r
    BY <2>1
  <2>5. /\ Restricted'
        /\ docs'[shown].saving /\ docs'[shown].version = docs[shown].version
        /\ \A t \in Stores : t # shown => docs'[t] = docs[t]
    BY <1>1, <1>7, <2>1, <2>3, <2>4
  <2>6. \A q \in requests : q.store # shown
    <3>1. shown # 0
      BY <1>1 DEF Stores
    <3>. QED
      BY <1>3, <2>1, <3>1
  <2>7. Awaited'
    <3>1. shown' = 1 => docs'[2] = None
      BY <1>3, <2>1, <2>5 DEF Stores
    <3>2. ASSUME NEW q \in requests', q.store # 0
          PROVE  docs'[q.store].saving /\ docs'[q.store].version = q.version
      BY <1>2, <1>3, <2>2, <2>4, <2>5, <2>6, <3>2
    <3>3. ASSUME NEW p \in requests', NEW q \in requests', p.store # 0, q.store = p.store
          PROVE  q = p
      BY <1>3, <2>2, <2>4, <2>6, <3>3
    <3>. QED
      BY <3>1, <3>2, <3>3 DEF Awaited
  <2>. QED
    BY <2>5, <2>7
<1>9. ASSUME NEW r \in requests, NEW p, p.store \in {0, r.store}, p.version = r.version,
             p.tree = r.tree, requests' \subseteq (requests \ {r}) \cup {p},
             UNCHANGED <<docs, shown, drag, session>>,
             \A q \in requests : revisions'[q.version] = revisions[q.version]
      PROVE  Awaited' /\ Restricted'
  <2>1. \A q \in requests' : q = p \/ (q \in requests /\ q # r)
    BY <1>9
  <2>2. Awaited'
    <3>1. shown' = 1 => docs'[2] = None
      BY <1>3, <1>9
    <3>2. ASSUME NEW q \in requests', q.store # 0
          PROVE  docs'[q.store].saving /\ docs'[q.store].version = q.version
      BY <1>3, <1>9, <2>1, <3>2
    <3>3. ASSUME NEW q \in requests', NEW t \in requests', q.store # 0, t.store = q.store
          PROVE  t = q
      BY <1>3, <1>9, <2>1, <3>3
    <3>. QED
      BY <3>1, <3>2, <3>3 DEF Awaited
  <2>3. Restricted'
    <3>. SUFFICES ASSUME ~session.full PROVE Restricted'
      BY <1>9 DEF Restricted
    <3>1. Open' = Open
      BY <1>9 DEF Open
    <3>2. \A q \in requests' : InScope(revisions'[q.version], q.tree)
      BY <1>5, <1>9, <2>1
    <3>. QED
      BY <1>4, <1>5, <1>9, <3>1, <3>2 DEF Restricted
  <2>. QED
    BY <2>2, <2>3
<1>10. ASSUME OtherSaves PROVE Awaited' /\ Restricted'
  <2>1. PICK tree : Grown(tree, edits) /\ revisions' = Append(revisions, tree)
    BY <1>10, NewRevision
  <2>2. \A q \in requests : revisions'[q.version] = revisions[q.version]
    BY <2>1, OldRevisions
  <2>3. UNCHANGED <<docs, shown, drag, session, edits, requests>>
    BY <1>10 DEF OtherSaves
  <2>4. Open' = Open
    BY <2>3 DEF Open
  <2>5. Awaited'
    BY <1>3, <2>3 DEF Awaited
  <2>6. Restricted'
    BY <1>4, <1>5, <2>2, <2>3, <2>4 DEF Restricted
  <2>. QED
    BY <2>5, <2>6
<1>11. ASSUME NEW r \in requests, CheckSave(r) PROVE Awaited' /\ Restricted'
  <2>. DEFINE phase == IF Acceptable(r) THEN "write" ELSE "refused"
              p == [r EXCEPT !.phase = phase]
  <2>1. /\ requests' = (requests \ {r}) \cup {p}
        /\ UNCHANGED <<docs, shown, drag, session, edits, revisions>>
    BY <1>11 DEF CheckSave, Becomes
  <2>2. p.store = r.store /\ p.version = r.version /\ p.tree = r.tree
    <3>. HIDE DEF phase
    <3>. QED
      BY <1>2 DEF Request
  <2>. HIDE DEF p
  <2>. QED
    BY <1>9, <2>1, <2>2
<1>12. ASSUME NEW r \in requests, WriteSave(r) PROVE Awaited' /\ Restricted'
  <2>1. UNCHANGED <<docs, shown, drag, session, edits>>
    BY <1>12 DEF WriteSave
  <2>2. CASE IsCurrent(r)
    <3>. DEFINE p == [r EXCEPT !.phase = "saved"]
    <3>1. revisions' = Append(revisions, r.tree) /\ requests' = (requests \ {r}) \cup {p}
      BY <1>12, <2>2 DEF WriteSave, IsCurrent, Becomes
    <3>2. p.store = r.store /\ p.version = r.version /\ p.tree = r.tree
      BY <1>2 DEF Request
    <3>3. \A q \in requests : revisions'[q.version] = revisions[q.version]
      <4>1. Grown(r.tree, edits)
        BY DEF Together, EditorSound, Server
      <4>. QED
        BY <3>1, <4>1, OldRevisions
    <3>. HIDE DEF p
    <3>4. requests' \subseteq (requests \ {r}) \cup {p} /\ p.store \in {0, r.store}
      BY <3>1, <3>2
    <3>. QED
      BY <1>9, <2>1, <3>2, <3>3, <3>4
  <2>3. CASE ~IsCurrent(r)
    <3>. DEFINE p == [r EXCEPT !.phase = "refused"]
    <3>1. UNCHANGED revisions /\ requests' = (requests \ {r}) \cup {p}
      BY <1>12, <2>3 DEF WriteSave, Becomes
    <3>2. p.store = r.store /\ p.version = r.version /\ p.tree = r.tree
      BY <1>2 DEF Request
    <3>. HIDE DEF p
    <3>. QED
      BY <1>9, <2>1, <3>1, <3>2
  <2>. QED
    BY <2>2, <2>3
<1>13. ASSUME NEW r \in requests, LoseRequest(r) PROVE Awaited' /\ Restricted'
  <2>1. /\ requests' = requests \ {r}
        /\ UNCHANGED <<docs, shown, drag, session, edits, revisions>>
    BY <1>13 DEF LoseRequest
  <2>. QED
    BY <1>9, <2>1
\* The answer of a store that waited, or its loss: the store waits for no other.
<1>14. ASSUME NEW r \in requests, r.store # 0, shown' = shown,
              \A q \in requests' : (q \in requests /\ q # r) \/ q.store = 0,
              \A t \in Stores : t # r.store => docs'[t] = docs[t]
       PROVE  Awaited'
  <2>1. r.store \in Open /\ r.store \in Stores
    BY <1>1, <1>2, <1>14
  <2>2. shown' = 1 => docs'[2] = None
    BY <1>1, <1>3, <1>14, <2>1 DEF Stores
  <2>3. ASSUME NEW q \in requests', q.store # 0
        PROVE  docs'[q.store].saving /\ docs'[q.store].version = q.version
    <3>1. q \in requests /\ q.store # r.store /\ q.store \in Stores
      BY <1>2, <1>3, <1>14, <2>3
    <3>. QED
      BY <1>3, <1>14, <2>3, <3>1
  <2>4. ASSUME NEW q \in requests', NEW t \in requests', q.store # 0, t.store = q.store
        PROVE  t = q
    BY <1>3, <1>14, <2>4
  <2>. QED
    BY <2>2, <2>3, <2>4 DEF Awaited
<1>15. ASSUME NEW r \in requests, LoseAnswer(r) PROVE Awaited' /\ Restricted'
  <2>. DEFINE p == [r EXCEPT !.store = 0]
  <2>1. /\ r.store # 0 /\ requests' = (requests \ {r}) \cup {p}
        /\ docs' = [docs EXCEPT ![r.store].saving = FALSE]
        /\ UNCHANGED <<shown, drag, session, edits, revisions>>
    BY <1>15 DEF LoseAnswer
  <2>2. p.store = 0 /\ p.version = r.version /\ p.tree = r.tree
    BY <1>2 DEF Request
  <2>. HIDE DEF p
  <2>3. r.store \in Open
    BY <1>2, <2>1
  <2>4. \A q \in requests' : (q \in requests /\ q # r) \/ q = p
    BY <2>1
  <2>5. \A q \in requests' : \/ q \in requests
                            \/ session.full \/ InScope(revisions[q.version], q.tree)
    BY <1>5, <2>2, <2>4
  <2>6. Restricted' /\ \A t \in Stores : t # r.store => docs'[t] = docs[t]
    BY <1>7, <2>1, <2>3, <2>5
  <2>7. Awaited'
    BY <1>14, <2>1, <2>2, <2>4, <2>6
  <2>. QED
    BY <2>6, <2>7
<1>16. ASSUME NEW r \in requests, Answer(r) PROVE Awaited' /\ Restricted'
  <2>1. /\ requests' = requests \ {r} /\ r.phase \in {"saved", "refused"}
        /\ UNCHANGED <<shown, drag, session, edits, revisions>>
    BY <1>16 DEF Answer
  <2>2. \A q \in requests' : q \in requests /\ q # r
    BY <2>1
  <2>3. CASE r.store = 0
    BY <1>9, <1>16, <2>1, <2>3 DEF Answer
  <2>4. CASE r.store # 0 /\ r.phase = "refused"
    <3>1. docs' = [docs EXCEPT ![r.store].saving = FALSE] /\ r.store \in Open
      BY <1>2, <1>16, <2>4 DEF Answer
    <3>2. Restricted' /\ \A t \in Stores : t # r.store => docs'[t] = docs[t]
      BY <1>7, <2>1, <2>2, <3>1
    <3>. QED
      BY <1>14, <2>1, <2>2, <2>4, <3>2
  <2>5. CASE r.store # 0 /\ r.phase = "saved"
    <3>. DEFINE d == docs[r.store]
                e == Marked(d, r)
    <3>1. docs' = [docs EXCEPT ![r.store] = e] /\ r.store \in Open /\ r.store \in Stores
      BY <1>1, <1>2, <1>16, <2>5 DEF Answer
    <3>2. d \in Document /\ r.tree \in Trees /\ r.version + 1 \in Nat \ {0}
      <4>1. r.tree \in Trees /\ r.version \in Nat \ {0}
        BY <1>2 DEF Request
      <4>. QED
        BY <1>1, <3>1, <4>1
    <3>3. /\ e \in Document /\ e.past = d.past /\ e.present = d.present
          /\ e.future = d.future /\ e.saved = r.tree
      BY <3>2 DEF Marked, Document
    <3>. HIDE DEF e
    <3>4. TreesOf(e) = TreesOf(d) /\ e # None
      BY <3>3, NoneApart DEF TreesOf
    <3>5. ASSUME ~session.full, NEW tree \in TreesOf(e)
          PROVE  InScope(e.saved, tree)
      <4>1. d.saved = revisions[r.version] /\ d.saved \in Trees
        BY <1>1, <1>3, <2>5, <3>1, <3>2, DocFields
      <4>2. InScope(d.saved, tree) /\ InScope(d.saved, r.tree)
        BY <1>5, <3>1, <3>4, <3>5, <4>1
      <4>3. tree \in Trees
        BY <3>1, <3>4, <3>5, OpenTrees
      <4>4. InScope(r.tree, d.saved)
        BY <3>2, <4>1, <4>2, ScopeEquals
      <4>. QED
        BY <3>2, <3>3, <4>1, <4>2, <4>3, <4>4, ScopeEquals
    <3>6. Restricted'
      BY <1>4, <2>1, <2>2, <3>1, <3>4, <3>5, RestrictedKept
    <3>7. \A t \in Stores : t # r.store => docs'[t] = docs[t]
      BY <1>1, <3>1
    <3>8. Awaited'
      BY <1>14, <2>1, <2>2, <2>5, <3>7
    <3>. QED
      BY <3>6, <3>8
  <2>. QED
    BY <2>1, <2>3, <2>4, <2>5
<1>. QED
  BY <1>6, <1>8, <1>10, <1>11, <1>12, <1>13, <1>15, <1>16

LEMMA StepTogether == Together /\ [Next]_vars => Together'
<1>. SUFFICES ASSUME Together, [Next]_vars PROVE Together'
  OBVIOUS
<1>1. EditorSound'
  BY StepSound DEF Together
<1>2. CASE UNCHANGED vars
  <2>1. UNCHANGED <<docs, shown, drag, session, edits, revisions, requests>>
    BY <1>2 DEF vars
  <2>. QED
    BY <1>1, <2>1 DEF Together, Awaited, Restricted, Open
<1>3. CASE Next
  <2>1. Awaited' /\ Restricted'
    BY <1>3, EditsTogether, DragsTogether, SavesTogether DEF Next
  <2>. QED
    BY <1>1, <2>1 DEF Together
<1>. QED
  BY <1>2, <1>3

\* A save that reaches the server before anybody else's is refused only if the page is too
\* large or, from a session that may change the structure, holds twins or still what was out
\* of place when it was opened: the controls of the builder lead to nothing else that
\* parsePageConfig, checkComposition or checkEditScope would reject.
THEOREM RefusalsHold == Spec => []FewSavesRefused
<1>1. Together => FewSavesRefused
  <2>. SUFFICES ASSUME Together, NEW r \in requests,
                       r.phase = "check", IsCurrent(r), ~RefusedFor(r)
                PROVE  Acceptable(r)
    BY DEF FewSavesRefused
  <2>1. Grown(r.tree, edits) /\ edits \in Nat /\ r.tree \in Trees
    BY EditorFacts DEF Together, EditorSound, Server, Grown, Well
  <2>2. /\ HasUniqueIds(r.tree) /\ WithinLimits(r.tree)
        /\ Faults(r.tree) \subseteq OldFaults
    BY <2>1, GrownIsSound
  <2>3. InEditScope(revisions[Len(revisions)], r.tree, session.full)
    <3>1. CASE session.full
      BY <3>1 DEF InEditScope
    <3>2. CASE ~session.full
      <4>1. InScope(revisions[r.version], r.tree)
        BY <3>2 DEF Together, Restricted, IsCurrent
      <4>. QED
        BY <4>1 DEF InScope, InEditScope, IsCurrent
    <3>. QED
      BY <3>1, <3>2
  <2>4. Parses(r.tree)
    <3>1. Content(r.tree) \in Nat /\ MaxContent \in Nat
      BY <2>1, ContentNumber, TreeConstants
    <3>2. Content(r.tree) <= MaxContent
      BY <3>1 DEF RefusedFor
    <3>. QED
      BY <2>2, <3>2 DEF Parses
  <2>5. session.full => Composes(r.tree)
    BY <2>2 DEF RefusedFor, Composes
  <2>. QED
    BY <2>3, <2>4, <2>5 DEF Acceptable, Accepts
<1>2. Spec => []Together
  BY InitTogether, StepTogether, PTL DEF Spec
<1>. QED
  BY <1>1, <1>2, PTL

-----------------------------------------------------------------------------
(* Who is whose parent after a branch was put in or taken out.             *)

LEMMA ParentIs ==
    ASSUME NEW tree \in Trees, NEW i \in 1..Len(tree), NEW p, IsParent(tree, p, i)
    PROVE  ParentAt(tree, i) = tree[p].id
<1>1. p \in DOMAIN tree
  BY TreeShape DEF IsParent
<1>. QED
  BY <1>1, Parents

LEMMA RootIs ==
    ASSUME NEW tree \in Trees, NEW i \in 1..Len(tree), tree[i].depth = 0
    PROVE  ParentAt(tree, i) = None
<1>1. Above(tree, i) = {}
  BY TreeShape DEF Above
<1>. QED
  BY <1>1 DEF ParentAt

\* A node of a well tree is a root, or there is its parent.
LEMMA RootOrChild ==
    ASSUME NEW tree \in Trees, IsForest(tree), NEW i \in 1..Len(tree)
    PROVE  \/ tree[i].depth = 0 /\ ParentAt(tree, i) = None
           \/ \E p \in 1..i-1 : IsParent(tree, p, i) /\ ParentAt(tree, i) = tree[p].id
  BY Parents, RootDepth

\* Below its root, the parents of a subtree's nodes are in it.
LEMMA InnerParents ==
    ASSUME NEW tree \in Trees, IsForest(tree), NEW i \in 1..Len(tree), NEW e \in i..Len(tree),
           \A k \in i+1..e : tree[k].depth > tree[i].depth,
           NEW k \in i+1..e
    PROVE  \E p \in i..k-1 : ParentAt(tree, k) = tree[p].id
<1>1. i \in Nat /\ e \in Nat /\ k \in 1..Len(tree) /\ i < k
      /\ tree[i].depth \in Nat /\ tree[k].depth \in Nat
  BY TreeShape
<1>2. tree[k].depth > tree[i].depth /\ tree[k].depth # 0
  BY <1>1
<1>3. PICK p \in 1..k-1 : IsParent(tree, p, k) /\ ParentAt(tree, k) = tree[p].id
  BY <1>1, <1>2, RootOrChild
<1>4. p >= i
  <2>1. SUFFICES ASSUME p < i PROVE FALSE
    BY <1>1, <1>3
  <2>2. i \in p+1..k-1
    BY <1>1, <1>3, <2>1
  <2>. QED
    BY <1>1, <1>2, <1>3, <2>2 DEF IsParent
<1>. QED
  BY <1>1, <1>3, <1>4

\* r is the tree with `sub` under `parent` at the place `at`: who is under whom.
KeepsParents(tree, sub, parent, at, r) ==
    /\ \A k \in 1..at : ParentAt(r, k) = ParentAt(tree, k)
    /\ ParentAt(r, at + 1) = parent
    /\ \A k \in 2..Len(sub) : ParentAt(r, at + k) \in Ids(sub)
    /\ \A k \in at+1..Len(tree) : ParentAt(r, Len(sub) + k) = ParentAt(tree, k)

\* Nodes keep their parents where a branch is put, and the branch gets its own.
LEMMA SpliceParents ==
    ASSUME NEW tree \in Trees, Well(tree), NEW sub \in Trees, Branch(sub),
           NEW at, NEW parent, Exists(tree, parent), FitsAt(tree, at, sub[1].depth, parent)
    PROVE  KeepsParents(tree, sub, parent, at, Spliced(tree, sub, at))
<1>. DEFINE r == Spliced(tree, sub, at)
            n == Len(tree)
            m == Len(sub)
            d == sub[1].depth
<1>1. /\ n \in Nat /\ m \in Nat \ {0} /\ at \in 0..n /\ d \in Nat
      /\ DOMAIN tree = 1..n /\ DOMAIN sub = 1..m
  BY TreeShape, EmptySeq DEF FitsAt, Branch, Trees
<1>2. /\ r \in Trees /\ Len(r) = n + m
      /\ \A k \in 1..at : r[k] = tree[k]
      /\ \A k \in 1..m : r[at + k] = sub[k]
      /\ \A k \in at+1..n : r[m + k] = tree[k]
  BY <1>1, SpliceShape
<1>3. \A k \in 1..n : tree[k].depth \in Nat
  BY TreeShape
<1>4. \A k \in 1..m : sub[k].depth \in Nat /\ sub[k].depth >= d
  <2>1. \A k \in 1..m : sub[k].depth \in Nat
    BY TreeShape
  <2>2. \A k \in 1..m : k = 1 \/ k \in 2..m
    BY <1>1
  <2>3. \A k \in 2..m : sub[k].depth > d
    BY DEF Branch
  <2>. QED
    BY <1>1, <2>1, <2>2, <2>3
<1>5. \A k \in 2..m : sub[k].depth > d
  BY DEF Branch
<1>6. r[at + 1] = sub[1] /\ at + 1 \in 1..n+m
  <2>1. 1 \in 1..m
    BY <1>1
  <2>. QED
    BY <1>1, <1>2, <2>1
<1>7. IsForest(tree) /\ Distinct(tree)
  BY DEF Well
<1>8. at + 1 <= n => tree[at + 1].depth <= d
  BY DEF FitsAt
<1>. HIDE DEF r, n, m, d
<1>9. ASSUME NEW k \in 1..at
      PROVE  ParentAt(r, k) = ParentAt(tree, k)
  <2>1. k \in 1..n /\ k \in 1..n+m /\ r[k] = tree[k]
    BY <1>1, <1>2
  <2>2. CASE tree[k].depth = 0 /\ ParentAt(tree, k) = None
    BY <1>2, <2>1, <2>2, RootIs
  <2>3. ASSUME NEW p \in 1..k-1, IsParent(tree, p, k), ParentAt(tree, k) = tree[p].id
        PROVE  ParentAt(r, k) = ParentAt(tree, k)
    <3>1. \A j \in p..k-1 : j \in 1..at /\ r[j] = tree[j]
      BY <1>1, <1>2
    <3>2. p \in p..k-1
      BY <1>1
    <3>3. IsParent(r, p, k)
      BY <1>1, <2>1, <2>3, <3>1, <3>2 DEF IsParent
    <3>. QED
      BY <1>2, <2>1, <2>3, <3>1, <3>2, <3>3, ParentIs
  <2>. QED
    BY <1>7, <2>1, <2>2, <2>3, RootOrChild DEF n
<1>10. ParentAt(r, at + 1) = parent
  <2>1. CASE parent = None
    <3>1. d = 0
      BY <2>1 DEF FitsAt, d
    <3>. QED
      BY <1>2, <1>6, <2>1, <3>1, RootIs DEF d
  <2>2. CASE parent # None
    <3>. DEFINE P == IndexOf(tree, parent)
    <3>1. /\ P \in 1..at /\ tree[P].depth + 1 = d
          /\ \A j \in P+1..at : tree[j].depth >= d
      BY <2>2 DEF FitsAt, d
    <3>2. tree[P].id = parent
      BY <2>2, Indexed DEF Exists
    <3>. HIDE DEF P
    <3>3. tree[P].depth \in Nat /\ r[P] = tree[P]
      BY <1>1, <1>2, <1>3, <3>1
    <3>4. P \in 1..(at+1)-1 /\ \A j \in P+1..(at+1)-1 : j \in P+1..at /\ j \in 1..at
      BY <1>1, <3>1
    <3>5. IsParent(r, P, at + 1)
      BY <1>1, <1>2, <1>6, <3>1, <3>3, <3>4 DEF IsParent, d
    <3>. QED
      BY <1>2, <1>6, <3>2, <3>3, <3>5, ParentIs
  <2>. QED
    BY <2>1, <2>2
<1>11. ASSUME NEW k \in 2..m
       PROVE  ParentAt(r, at + k) \in Ids(sub)
  <2>. DEFINE i == at + k
  <2>1. i \in 1..n+m /\ k \in 1..m /\ r[i] = sub[k] /\ r[i].depth > d
    <3>1. at + k \in 1..n+m /\ k \in 1..m
      BY <1>1
    <3>2. r[at + k] = sub[k] /\ sub[k].depth > d
      BY <1>2, <1>5, <3>1
    <3>. QED
      BY <3>1, <3>2
  <2>2. r[i].depth \in Nat /\ r[i].depth # 0
    BY <1>1, <1>4, <2>1
  <2>3. PICK p \in 1..i-1 : IsParent(r, p, i) /\ ParentAt(r, i) = r[p].id
    <3>1. at + 1 \in Above(r, i)
      BY <1>1, <1>6, <2>1 DEF Above, d
    <3>. QED
      BY <1>2, <2>1, <3>1, Parents
  <2>4. p >= at + 1
    <3>1. SUFFICES ASSUME p < at + 1 PROVE FALSE
      BY <1>1, <2>3
    <3>2. at + 1 \in p+1..i-1
      BY <1>1, <2>3, <3>1
    <3>3. d >= r[i].depth
      BY <1>6, <2>3, <3>2 DEF IsParent, d
    <3>. QED
      BY <1>1, <2>1, <2>2, <3>3
  <2>5. p - at \in 1..m /\ at + (p - at) = p
    BY <1>1, <2>3, <2>4
  <2>6. r[p] = sub[p - at]
    BY <1>2, <2>5
  <2>. QED
    BY <1>1, <2>3, <2>5, <2>6 DEF Ids
<1>12. ASSUME NEW k \in at+1..n
       PROVE  ParentAt(r, m + k) = ParentAt(tree, k)
  <2>1. k \in 1..n /\ m + k \in 1..n+m /\ r[m + k] = tree[k] /\ tree[k].depth \in Nat
    BY <1>1, <1>2, <1>3
  <2>2. CASE tree[k].depth = 0 /\ ParentAt(tree, k) = None
    BY <1>2, <2>1, <2>2, RootIs
  <2>3. ASSUME NEW p \in 1..k-1, IsParent(tree, p, k), ParentAt(tree, k) = tree[p].id
        PROVE  ParentAt(r, m + k) = ParentAt(tree, k)
    <3>1. /\ p \in 1..n /\ tree[p].depth < tree[k].depth
          /\ \A j \in p+1..k-1 : tree[j].depth >= tree[k].depth
      BY <1>1, <2>3 DEF IsParent
    <3>2. CASE p > at
      <4>1. m + p \in 1..(m+k)-1 /\ p \in at+1..n
        BY <1>1, <3>1, <3>2
      <4>2. r[m + p] = tree[p]
        BY <1>2, <4>1
      <4>3. ASSUME NEW j \in (m+p)+1..(m+k)-1
            PROVE  r[j].depth >= tree[k].depth
        <5>1. j - m \in p+1..k-1 /\ j - m \in at+1..n /\ m + (j - m) = j
          BY <1>1, <3>1, <3>2
        <5>. QED
          BY <1>2, <3>1, <5>1
      <4>4. IsParent(r, m + p, m + k)
        BY <2>1, <3>1, <4>1, <4>2, <4>3 DEF IsParent
      <4>. QED
        BY <1>2, <2>1, <2>3, <4>2, <4>4, ParentIs
    <3>3. CASE p <= at
      <4>1. p \in 1..at /\ p \in 1..(m+k)-1 /\ r[p] = tree[p]
        BY <1>1, <1>2, <3>3
      <4>2. tree[k].depth <= d
        <5>1. at + 1 \in 1..n /\ tree[at + 1].depth \in Nat /\ tree[at + 1].depth <= d
          BY <1>1, <1>3, <1>8
        <5>2. k = at + 1 \/ tree[at + 1].depth >= tree[k].depth
          <6>1. k = at + 1 \/ at + 1 \in p+1..k-1
            BY <1>1, <3>3
          <6>. QED
            BY <3>1, <6>1
        <5>. QED
          BY <1>1, <2>1, <5>1, <5>2
      <4>3. ASSUME NEW j \in p+1..(m+k)-1
            PROVE  r[j].depth >= tree[k].depth
        <5>1. j \in 1..n+m
          BY <1>1, <4>1
        <5>2. CASE j \in 1..at
          <6>1. j \in p+1..k-1
            BY <1>1, <5>2
          <6>. QED
            BY <1>2, <3>1, <5>2, <6>1
        <5>3. CASE j - at \in 1..m /\ at + (j - at) = j
          <6>1. r[j] = sub[j - at] /\ sub[j - at].depth \in Nat /\ sub[j - at].depth >= d
            BY <1>2, <1>4, <5>3
          <6>. QED
            BY <1>1, <2>1, <4>2, <6>1
        <5>4. CASE j - m \in at+1..n /\ m + (j - m) = j
          <6>1. j - m \in p+1..k-1
            BY <1>1, <4>1, <5>4
          <6>. QED
            BY <1>2, <3>1, <5>4, <6>1
        <5>. QED
          BY <1>1, <5>1, <5>2, <5>3, <5>4, SplicePlaces
      <4>4. IsParent(r, p, m + k)
        BY <2>1, <3>1, <4>1, <4>3 DEF IsParent
      <4>. QED
        BY <1>2, <2>1, <2>3, <4>1, <4>4, ParentIs
    <3>. QED
      BY <1>1, <3>1, <3>2, <3>3
  <2>. QED
    BY <1>7, <2>1, <2>2, <2>3, RootOrChild DEF n
<1>. QED
  BY <1>9, <1>10, <1>11, <1>12 DEF r, n, m, KeepsParents

\* What is left after a subtree was taken out keeps its parents.
LEMMA CutParents ==
    ASSUME NEW tree \in Trees, Well(tree), NEW i \in 1..Len(tree)
    PROVE  LET r == RemoveAt(tree, i)
               w == EndOf(tree, i) - i + 1
           IN  /\ \A k \in 1..i-1 : ParentAt(r, k) = ParentAt(tree, k)
               /\ \A k \in i..Len(tree)-w : ParentAt(r, k) = ParentAt(tree, k + w)
<1>. DEFINE r == RemoveAt(tree, i)
            e == EndOf(tree, i)
            w == e - i + 1
            n == Len(tree)
<1>1. /\ n \in Nat /\ DOMAIN tree = 1..n /\ \A k \in 1..n : tree[k].depth \in Nat
      /\ i \in 1..n
  BY TreeShape
<1>2. /\ e \in i..n
      /\ \A k \in i+1..e : tree[k].depth > tree[i].depth
      /\ e + 1 <= n => tree[e + 1].depth <= tree[i].depth
  BY SubtreeEnd
<1>3. /\ r \in Trees /\ Len(r) = n - w
      /\ \A k \in 1..i-1 : r[k] = tree[k]
      /\ \A k \in i..n-w : r[k] = tree[k + w]
  BY CutShape
<1>4. IsForest(tree)
  BY DEF Well
<1>. HIDE DEF r, e, n
<1>5. w \in 1..n /\ i + w = e + 1
  BY <1>1, <1>2
<1>. HIDE DEF w
<1>6. ASSUME NEW k \in 1..i-1
      PROVE  ParentAt(r, k) = ParentAt(tree, k)
  <2>1. k \in 1..n /\ k \in 1..n-w /\ r[k] = tree[k]
    BY <1>1, <1>2, <1>3, <1>5
  <2>2. CASE tree[k].depth = 0 /\ ParentAt(tree, k) = None
    BY <1>3, <2>1, <2>2, RootIs
  <2>3. ASSUME NEW p \in 1..k-1, IsParent(tree, p, k), ParentAt(tree, k) = tree[p].id
        PROVE  ParentAt(r, k) = ParentAt(tree, k)
    <3>1. \A j \in p..k-1 : r[j] = tree[j]
      BY <1>1, <1>3
    <3>2. p \in p..k-1 /\ \A j \in p+1..k-1 : j \in p..k-1
      BY <1>1
    <3>3. IsParent(r, p, k)
      <4>1. r[p] = tree[p] /\ \A j \in p+1..k-1 : r[j] = tree[j]
        BY <3>1, <3>2
      <4>. QED
        BY <2>1, <2>3, <4>1 DEF IsParent
    <3>. QED
      BY <1>3, <2>1, <2>3, <3>1, <3>2, <3>3, ParentIs
  <2>. QED
    BY <1>4, <2>1, <2>2, <2>3, RootOrChild DEF n
<1>7. ASSUME NEW k \in i..n-w
      PROVE  ParentAt(r, k) = ParentAt(tree, k + w)
  <2>. DEFINE l == k + w
  <2>1. /\ l \in 1..n /\ l > e /\ l = k + w /\ k \in 1..n-w
        /\ r[k] = tree[l] /\ tree[l].depth \in Nat
    BY <1>1, <1>2, <1>3, <1>5
  <2>. HIDE DEF l
  <2>2. CASE tree[l].depth = 0 /\ ParentAt(tree, l) = None
    BY <1>3, <2>1, <2>2, RootIs
  <2>3. ASSUME NEW p \in 1..l-1, IsParent(tree, p, l), ParentAt(tree, l) = tree[p].id
        PROVE  ParentAt(r, k) = ParentAt(tree, l)
    <3>1. /\ p \in 1..n /\ tree[p].depth \in Nat /\ tree[p].depth < tree[l].depth
          /\ \A j \in p+1..l-1 : tree[j].depth >= tree[l].depth
      BY <1>1, <2>1, <2>3 DEF IsParent
    <3>2. CASE p < i
      <4>1. p \in 1..i-1 /\ p \in 1..k-1 /\ r[p] = tree[p]
        BY <1>1, <1>3, <3>1, <3>2
      <4>2. ASSUME NEW j \in p+1..k-1
            PROVE  r[j].depth >= tree[l].depth
        <5>1. CASE j < i
          <6>1. j \in 1..i-1 /\ j \in p+1..l-1
            BY <1>1, <1>5, <2>1, <3>1, <5>1
          <6>. QED
            BY <1>3, <3>1, <6>1
        <5>2. CASE j >= i
          <6>1. j \in i..n-w /\ j + w \in p+1..l-1
            BY <1>1, <1>5, <2>1, <3>1, <5>2
          <6>. QED
            BY <1>3, <3>1, <6>1
        <5>. QED
          BY <1>1, <5>1, <5>2
      <4>3. IsParent(r, p, k)
        BY <2>1, <3>1, <4>1, <4>2 DEF IsParent
      <4>. QED
        BY <1>3, <2>1, <2>3, <4>1, <4>3, ParentIs
    <3>3. CASE p > e
      <4>1. p - w \in i..n-w /\ p - w \in 1..k-1 /\ (p - w) + w = p
        BY <1>1, <1>2, <1>5, <2>1, <2>3, <3>1, <3>3
      <4>2. r[p - w] = tree[p]
        BY <1>3, <4>1
      <4>3. ASSUME NEW j \in (p-w)+1..k-1
            PROVE  r[j].depth >= tree[l].depth
        <5>1. j \in i..n-w /\ j + w \in p+1..l-1
          BY <1>1, <1>5, <2>1, <3>1, <4>1
        <5>. QED
          BY <1>3, <3>1, <5>1
      <4>4. IsParent(r, p - w, k)
        BY <2>1, <3>1, <4>1, <4>2, <4>3 DEF IsParent
      <4>. QED
        BY <1>3, <2>1, <2>3, <4>2, <4>4, ParentIs
    <3>4. CASE p >= i /\ p <= e
      <4>1. tree[p].depth >= tree[i].depth
        <5>1. p = i \/ p \in i+1..e
          BY <1>1, <1>2, <3>4
        <5>. QED
          BY <1>1, <1>2, <3>1, <5>1
      <4>2. e + 1 \in 1..n /\ tree[e + 1].depth \in Nat
            /\ tree[e + 1].depth <= tree[i].depth
        BY <1>1, <1>2, <2>1
      <4>3. e + 1 = l \/ tree[e + 1].depth >= tree[l].depth
        <5>1. e \in Nat /\ l \in Nat /\ l > e /\ p \in Nat /\ p <= e
          BY <1>1, <1>2, <2>1, <3>1, <3>4
        <5>2. e + 1 = l \/ e + 1 \in p+1..l-1
          BY <5>1
        <5>. QED
          BY <3>1, <5>2
      <4>4. tree[i].depth \in Nat
        BY <1>1
      <4>5. tree[e + 1].depth >= tree[l].depth
        BY <2>1, <4>3
      <4>6. /\ tree[p].depth \in Nat /\ tree[l].depth \in Nat
            /\ tree[p].depth < tree[l].depth
        BY <2>1, <3>1
      <4>7. /\ tree[e + 1].depth \in Nat
            /\ tree[e + 1].depth <= tree[i].depth
        BY <4>2
      <4>. DEFINE x == tree[e + 1].depth
      <4>. HIDE DEF x
      <4>8. x \in Nat /\ x <= tree[i].depth /\ x >= tree[l].depth
        BY <4>5, <4>7 DEF x
      <4>. QED
        BY <4>1, <4>4, <4>6, <4>8
    <3>. QED
      BY <1>1, <1>2, <3>1, <3>2, <3>3, <3>4
  <2>4. ParentAt(r, k) = ParentAt(tree, l)
    BY <1>4, <2>1, <2>2, <2>3, RootOrChild DEF n
  <2>. QED
    BY <2>4 DEF l
<1>. QED
  BY <1>6, <1>7 DEF r, w, e, n

-----------------------------------------------------------------------------
(* Where a branch stands among its siblings.                               *)

\* The children of `parent` before the place i.
Elder(tree, parent, i) == {j \in 1..i-1 : ParentAt(tree, j) = parent}

LEMMA ElderCounts ==
    ASSUME NEW tree, NEW parent, NEW i \in Int
    PROVE  /\ IsFiniteSet(Elder(tree, parent, i))
           /\ Cardinality(Elder(tree, parent, i)) \in Nat
<1>1. IsFiniteSet(1..i-1)
  BY FS_Interval
<1>2. Elder(tree, parent, i) \subseteq 1..i-1
  BY DEF Elder
<1>. QED
  BY <1>1, <1>2, FS_Subset, FS_CardinalityType

LEMMA IndexIsElder ==
    ASSUME NEW tree, NEW i
    PROVE  SiblingIndex(tree, i) = Cardinality(Elder(tree, ParentAt(tree, i), i))
  BY Zenon DEF SiblingIndex, Elder

\* A later sibling has a higher index, and none is as high as their number.
LEMMA RankOrder ==
    ASSUME NEW tree \in Trees, NEW parent, NEW i \in ChildrenOf(tree, parent)
    PROVE  /\ SiblingIndex(tree, i) \in Nat
           /\ SiblingIndex(tree, i) < Cardinality(ChildrenOf(tree, parent))
           /\ \A j \in ChildrenOf(tree, parent) :
                i < j => SiblingIndex(tree, i) < SiblingIndex(tree, j)
<1>. DEFINE C == ChildrenOf(tree, parent)
            Before(k) == {j \in C : j < k}
<1>1. C \in SUBSET (1..Len(tree)) /\ IsFiniteSet(C) /\ Cardinality(C) \in Nat
  BY ChildrenFinite
<1>2. \A k \in C : SiblingIndex(tree, k) = Cardinality(Before(k))
  BY SiblingRank
<1>3. i \in C /\ Len(tree) \in Nat
  BY TreeShape
<1>. HIDE DEF C
<1>4. \A k : IsFiniteSet(Before(k)) /\ Cardinality(Before(k)) \in Nat
  BY <1>1, FS_Subset, FS_CardinalityType
<1>5. i \notin Before(i)
  BY <1>1, <1>3
<1>. DEFINE upTo == Before(i) \cup {i}
<1>6. Cardinality(upTo) = Cardinality(Before(i)) + 1
  <2>. HIDE DEF Before
  <2>. QED
    BY <1>4, <1>5, FS_AddElement
<1>7. Cardinality(Before(i)) < Cardinality(C)
  <2>1. upTo \subseteq C
    BY <1>3
  <2>. HIDE DEF upTo, Before
  <2>2. Cardinality(upTo) <= Cardinality(C)
    BY <1>1, <2>1, FS_Subset
  <2>. QED
    BY <1>1, <1>4, <1>6, <2>2
<1>8. ASSUME NEW j \in C, i < j
      PROVE  Cardinality(Before(i)) < Cardinality(Before(j))
  <2>1. \A k \in C : k < i => k < j
    BY <1>1, <1>3, <1>8
  <2>2. upTo \subseteq Before(j)
    BY <1>3, <1>8, <2>1
  <2>. HIDE DEF upTo, Before
  <2>3. Cardinality(upTo) <= Cardinality(Before(j))
    BY <1>4, <2>2, FS_Subset
  <2>. QED
    BY <1>4, <1>6, <2>3
<1>. QED
  BY <1>2, <1>3, <1>4, <1>7, <1>8 DEF C

LEMMA PlaceBefore ==
    ASSUME NEW tree \in Trees, NEW to \in 1..Len(tree)
    PROVE  PlaceFor(tree, ParentAt(tree, to), SiblingIndex(tree, to)) = to - 1
<1>. DEFINE C == ChildrenOf(tree, ParentAt(tree, to))
            n == SiblingIndex(tree, to)
            c == CHOOSE i \in C : SiblingIndex(tree, i) = n
<1>1. to \in C /\ C \in SUBSET (1..Len(tree))
  BY ChildrenFinite, TreeShape DEF ChildrenOf
<1>2. n < Cardinality(C)
  BY <1>1, RankOrder
<1>3. c \in C /\ SiblingIndex(tree, c) = n
  BY <1>1
<1>4. PlaceFor(tree, ParentAt(tree, to), n) = c - 1
  BY <1>2 DEF PlaceFor
<1>. HIDE DEF c
<1>5. c = to
  <2>1. c \in Nat /\ to \in Nat /\ n \in Nat
    BY <1>1, <1>3, SiblingNumber, TreeShape
  <2>2. ~(c < to) /\ ~(to < c)
    BY <1>1, <1>3, <2>1, RankOrder
  <2>. QED
    BY <2>1, <2>2
<1>. QED
  BY <1>4, <1>5

\* No sibling stands between a node and what is put right after it.
LEMMA PlaceAfter ==
    ASSUME NEW tree \in Trees, Well(tree), NEW to \in 1..Len(tree)
    PROVE  LET at == PlaceFor(tree, ParentAt(tree, to), SiblingIndex(tree, to) + 1)
           IN  /\ at >= to
               /\ \A s \in ChildrenOf(tree, ParentAt(tree, to)) : s <= to \/ s > at
<1>. DEFINE parent == ParentAt(tree, to)
            C  == ChildrenOf(tree, parent)
            n  == SiblingIndex(tree, to) + 1
            at == PlaceFor(tree, parent, n)
            c  == CHOOSE i \in C : SiblingIndex(tree, i) = n
<1>1. /\ to \in C /\ C \in SUBSET (1..Len(tree)) /\ Cardinality(C) \in Nat
      /\ Len(tree) \in Nat /\ DOMAIN tree = 1..Len(tree)
  BY ChildrenFinite, TreeShape DEF ChildrenOf
<1>2. SiblingIndex(tree, to) \in Nat /\ n \in Nat
  BY SiblingNumber
<1>3. \A s \in C : to < s => SiblingIndex(tree, s) >= n
  <2>1. ASSUME NEW s \in C, to < s
        PROVE  SiblingIndex(tree, s) >= n
    <3>1. SiblingIndex(tree, to) < SiblingIndex(tree, s)
      BY <1>1, <2>1, RankOrder
    <3>2. SiblingIndex(tree, s) \in Nat
      BY <2>1, RankOrder
    <3>. QED
      BY <1>2, <3>1, <3>2
  <2>. QED
    BY <2>1
<1>4. CASE n < Cardinality(C)
  <2>1. c \in C /\ SiblingIndex(tree, c) = n
    BY <1>2, <1>4, ChildAt
  <2>2. at = c - 1
    BY <1>4 DEF PlaceFor
  <2>. HIDE DEF c
  <2>3. c > to
    <3>1. c \in Nat /\ to \in Nat
      BY <1>1, <2>1
    <3>2. c # to
      BY <1>2, <2>1
    <3>3. ~(c < to)
      <4>1. c < to => SiblingIndex(tree, c) < SiblingIndex(tree, to)
        BY <1>1, <2>1, RankOrder
      <4>. QED
        BY <1>2, <2>1, <4>1
    <3>. QED
      BY <3>1, <3>2, <3>3
  <2>4. \A s \in C : to < s => ~(s < c)
    <3>1. ASSUME NEW s \in C, to < s, s < c
          PROVE  FALSE
      <4>1. SiblingIndex(tree, s) < SiblingIndex(tree, c)
        BY <2>1, <3>1, RankOrder
      <4>2. SiblingIndex(tree, s) \in Nat /\ SiblingIndex(tree, s) >= n
        BY <1>3, <3>1, RankOrder
      <4>. QED
        BY <1>2, <2>1, <4>1, <4>2
    <3>. QED
      BY <3>1
  <2>. HIDE DEF C, at, n
  <2>5. \A s \in C : s <= to \/ s > at
    BY <1>1, <2>1, <2>2, <2>4
  <2>6. at >= to
    BY <1>1, <2>1, <2>2, <2>3
  <2>. QED
    BY <2>5, <2>6 DEF C, at, n
<1>5. CASE ~(n < Cardinality(C))
  <2>1. \A s \in C : s <= to
    <3>1. ASSUME NEW s \in C, to < s
          PROVE  FALSE
      <4>1. /\ SiblingIndex(tree, s) \in Nat /\ SiblingIndex(tree, s) >= n
            /\ SiblingIndex(tree, s) < Cardinality(C)
        BY <1>3, <3>1, RankOrder
      <4>. QED
        BY <1>1, <1>2, <1>5, <4>1
    <3>2. \A s \in C : s \in Nat
      BY <1>1
    <3>. QED
      BY <1>1, <3>1, <3>2
  <2>2. at >= to
    <3>1. CASE parent = None
      BY <1>1, <1>5, <3>1 DEF PlaceFor
    <3>2. CASE parent # None
      <4>1. PICK p \in 1..to-1 : IsParent(tree, p, to) /\ parent = tree[p].id
        BY <3>2, Parents
      <4>2. p \in 1..Len(tree) /\ IndexOf(tree, parent) = p
        BY <1>1, <4>1, OwnIndex DEF Well
      <4>3. at = EndOf(tree, p)
        BY <1>5, <3>2, <4>2 DEF PlaceFor
      <4>. DEFINE e == EndOf(tree, p)
      <4>4. e \in p..Len(tree) /\ (e + 1 <= Len(tree) => tree[e + 1].depth <= tree[p].depth)
        BY <4>2, SubtreeEnd
      <4>. HIDE DEF e
      <4>5. SUFFICES ASSUME e < to PROVE FALSE
        BY <1>1, <4>3, <4>4 DEF e
      <4>6. e \in Nat /\ e + 1 \in 1..Len(tree) /\ (e + 1 = to \/ e + 1 \in p+1..to-1)
        BY <1>1, <4>1, <4>4, <4>5
      <4>7. tree[e + 1].depth >= tree[to].depth
        <5>1. tree[to].depth \in Nat
          BY TreeShape
        <5>. QED
          BY <4>1, <4>6, <5>1 DEF IsParent
      <4>8. tree[e + 1].depth \in Nat /\ tree[p].depth \in Nat /\ tree[to].depth \in Nat
        BY <4>2, <4>6, TreeShape
      <4>9. tree[p].depth < tree[to].depth
        BY <4>1 DEF IsParent
      <4>. QED
        BY <4>4, <4>6, <4>7, <4>8, <4>9
    <3>. QED
      BY <3>1, <3>2
  <2>. QED
    BY <2>1, <2>2
<1>. QED
  BY <1>4, <1>5

\* And who stands where.
Inserted(tree, sub, parent, at, r) ==
    /\ r \in Trees /\ Len(r) = Len(tree) + Len(sub)
    /\ at \in 0..Len(tree) /\ Len(tree) \in Nat /\ Len(sub) \in Nat \ {0}
    /\ r[at + 1].id = sub[1].id
    /\ \A k \in 1..at : r[k] = tree[k]
    /\ \A k \in at+1..Len(tree) : r[Len(sub) + k] = tree[k]
    /\ KeepsParents(tree, sub, parent, at, r)

LEMMA InsertShape ==
    ASSUME NEW tree \in Trees, Well(tree), NEW sub \in Trees, Branch(sub),
           NEW parent, Exists(tree, parent), NEW index \in Nat
    PROVE  Inserted(tree, sub, parent, PlaceFor(tree, parent, index),
                    InsertAt(tree, sub, parent, index))
<1>. DEFINE d  == DepthUnder(tree, parent)
            s  == Shifted(sub, d - sub[1].depth)
            at == PlaceFor(tree, parent, index)
            r  == Spliced(tree, s, at)
            n  == Len(tree)
            m  == Len(sub)
<1>1. FitsAt(tree, at, d, parent)
  BY PlaceFits
<1>2. InsertAt(tree, sub, parent, index) = r
  BY DEF InsertAt
<1>. HIDE DEF at, d
<1>3. d \in Nat /\ at \in 0..n /\ n \in Nat /\ m \in Nat \ {0} /\ DOMAIN sub = 1..m
  BY <1>1, TreeShape, EmptySeq DEF FitsAt, Branch, Trees
<1>4. /\ s \in Trees /\ Branch(s) /\ Len(s) = m /\ s[1].depth = d
      /\ \A k \in 1..m : s[k].id = sub[k].id
  BY <1>3, ShiftedBranch
<1>. HIDE DEF s
<1>5. Ids(s) = Ids(sub)
  <2>1. DOMAIN s = 1..m
    BY <1>4, TreeShape
  <2>. QED
    BY <1>3, <1>4, <2>1 DEF Ids
<1>6. FitsAt(tree, at, s[1].depth, parent)
  BY <1>1, <1>4
<1>7. /\ r \in Trees /\ Len(r) = n + m
      /\ \A k \in 1..at : r[k] = tree[k]
      /\ \A k \in 1..m : r[at + k] = s[k]
      /\ \A k \in at+1..n : r[m + k] = tree[k]
  <2>1. /\ r \in Trees /\ Len(r) = n + Len(s)
        /\ \A k \in 1..at : r[k] = tree[k]
        /\ \A k \in 1..Len(s) : r[at + k] = s[k]
        /\ \A k \in at+1..n : r[Len(s) + k] = tree[k]
    BY <1>3, <1>4, SpliceShape
  <2>. QED
    BY <1>4, <2>1
<1>8. KeepsParents(tree, sub, parent, at, r)
  <2>1. KeepsParents(tree, s, parent, at, r)
    BY <1>4, <1>6, SpliceParents
  <2>. HIDE DEF r
  <2>. QED
    BY <1>4, <1>5, <2>1 DEF KeepsParents
<1>. HIDE DEF r
<1>9. r[at + 1].id = sub[1].id
  <2>1. 1 \in 1..m
    BY <1>3
  <2>. QED
    BY <1>4, <1>7, <2>1
<1>. QED
  BY <1>2, <1>3, <1>7, <1>8, <1>9 DEF at, n, m, Inserted

\* The one stands right before the other among the siblings.
Precedes(r, one, other) ==
    SiblingIndex(r, IndexOf(r, one)) + 1 = SiblingIndex(r, IndexOf(r, other))

\* What is inserted under a parent is its child, and right beside the sibling whose
\* index it was given.
LEMMA InsertedUnder ==
    ASSUME NEW tree \in Trees, Well(tree), NEW sub \in Trees, Branch(sub),
           NEW parent, Exists(tree, parent), NEW index \in Nat,
           Stands(TypeOfParent(tree, parent), sub[1].type),
           Ids(tree) \cap Ids(sub) = {}
    PROVE  LET r  == InsertAt(tree, sub, parent, index)
               at == PlaceFor(tree, parent, index)
           IN  /\ sub[1].id \in Ids(r) /\ IndexOf(r, sub[1].id) = at + 1
               /\ ParentAt(r, at + 1) = parent
<1>. DEFINE r  == InsertAt(tree, sub, parent, index)
            at == PlaceFor(tree, parent, index)
            n  == Len(tree)
            m  == Len(sub)
<1>1. /\ r \in Trees /\ Len(r) = n + m /\ at \in 0..n /\ n \in Nat /\ m \in Nat \ {0}
      /\ r[at + 1].id = sub[1].id /\ ParentAt(r, at + 1) = parent
  <2>1. Inserted(tree, sub, parent, at, r)
    BY InsertShape
  <2>. HIDE DEF r, at
  <2>. QED
    BY <2>1 DEF Inserted, KeepsParents
<1>2. Distinct(r)
  BY InsertWell DEF Well
<1>. HIDE DEF r, at
<1>3. at + 1 \in 1..Len(r)
  BY <1>1
<1>. QED
  BY <1>1, <1>2, <1>3, OwnIndex DEF r, at

LEMMA InsertedBeside ==
    ASSUME NEW tree \in Trees, Well(tree), NEW sub \in Trees, Branch(sub),
           NEW to \in 1..Len(tree), NEW after \in {0, 1},
           Stands(TypeOfParent(tree, ParentAt(tree, to)), sub[1].type),
           Ids(tree) \cap Ids(sub) = {}
    PROVE  LET r == InsertAt(tree, sub, ParentAt(tree, to), SiblingIndex(tree, to) + after)
           IN  IF after = 0 THEN Precedes(r, sub[1].id, tree[to].id)
                            ELSE Precedes(r, tree[to].id, sub[1].id)
<1>. DEFINE parent == ParentAt(tree, to)
            index  == SiblingIndex(tree, to) + after
            r  == InsertAt(tree, sub, parent, index)
            at == PlaceFor(tree, parent, index)
            n  == Len(tree)
            m  == Len(sub)
<1>1. Exists(tree, parent) /\ index \in Nat
  BY ParentOf, SiblingNumber
<1>2. /\ r \in Trees /\ Len(r) = n + m /\ at \in 0..n /\ n \in Nat /\ m \in Nat \ {0}
      /\ \A k \in 1..at : r[k] = tree[k] /\ ParentAt(r, k) = ParentAt(tree, k)
      /\ \A k \in 2..m : ParentAt(r, at + k) \in Ids(sub)
      /\ \A k \in at+1..n : /\ r[m + k] = tree[k]
                            /\ ParentAt(r, m + k) = ParentAt(tree, k)
  <2>1. Inserted(tree, sub, parent, at, r)
    <3>. HIDE DEF parent, index
    <3>. QED
      BY <1>1, InsertShape
  <2>. HIDE DEF r, at, parent
  <2>. QED
    BY <2>1 DEF Inserted, KeepsParents
<1>3. IndexOf(r, sub[1].id) = at + 1 /\ ParentAt(r, at + 1) = parent
  BY <1>1, InsertedUnder
<1>4. Distinct(r)
  BY <1>1, InsertWell DEF Well
<1>5. parent \notin Ids(sub)
  <2>1. \A id \in Ids(sub) : id \in NodeId
    BY Indexed
  <2>. QED
    BY <1>1, <2>1, NoneApart DEF Exists
<1>6. after = 0 => at = to - 1
  <2>1. after = 0 => index = SiblingIndex(tree, to)
    BY SiblingNumber
  <2>. QED
    BY <2>1, PlaceBefore
<1>7. after = 1 => at >= to /\ \A s \in ChildrenOf(tree, parent) : s <= to \/ s > at
  BY PlaceAfter
<1>. HIDE DEF r, at, parent, index, n, m
<1>8. to \in 1..n
  BY DEF n
<1>9. CASE after = 0
  <2>1. to \in at+1..n /\ to = at + 1
    BY <1>2, <1>6, <1>8, <1>9
  <2>2. m + to \in 1..Len(r) /\ r[m + to] = tree[to] /\ ParentAt(r, m + to) = parent
    BY <1>2, <1>8, <2>1 DEF parent
  <2>3. IndexOf(r, tree[to].id) = m + to
    BY <1>2, <1>4, <2>2, OwnIndex
  <2>. DEFINE E == Elder(r, parent, at + 1)
              L == Elder(r, parent, m + to)
  <2>4. L = E \cup {at + 1} /\ at + 1 \notin E
    <3>1. ASSUME NEW j \in L, j # at + 1
          PROVE  j \in E
      <4>1. j \in 1..(m+to)-1 /\ ParentAt(r, j) = parent
        BY DEF Elder
      <4>2. ~(j - at \in 2..m)
        <5>1. SUFFICES ASSUME j - at \in 2..m PROVE FALSE
          OBVIOUS
        <5>2. at + (j - at) = j
          BY <1>2, <4>1
        <5>. QED
          BY <1>2, <1>5, <4>1, <5>1, <5>2
      <4>3. j \in 1..(at+1)-1
        BY <1>2, <2>1, <3>1, <4>1, <4>2
      <4>. QED
        BY <4>1, <4>3 DEF Elder
    <3>2. at + 1 \in L
      <4>1. at + 1 \in 1..(m+to)-1
        BY <1>2, <2>1
      <4>. QED
        BY <1>3, <4>1 DEF Elder
    <3>3. E \subseteq L
      <4>1. \A j \in 1..(at+1)-1 : j \in 1..(m+to)-1
        BY <1>2, <2>1
      <4>. QED
        BY <4>1 DEF Elder
    <3>4. at + 1 \notin E
      BY <1>2 DEF Elder
    <3>. QED
      BY <3>1, <3>2, <3>3, <3>4
  <2>5. /\ IsFiniteSet(E) /\ Cardinality(E) \in Nat
        /\ SiblingIndex(r, at + 1) = Cardinality(E)
        /\ SiblingIndex(r, m + to) = Cardinality(L)
    BY <1>2, <1>3, <1>8, <2>2, ElderCounts, IndexIsElder
  <2>. HIDE DEF E, L
  <2>6. Cardinality(L) = Cardinality(E) + 1
    BY <2>4, <2>5, FS_AddElement
  <2>. QED
    BY <1>3, <1>9, <2>3, <2>5, <2>6 DEF r, parent, index, Precedes
<1>10. CASE after = 1
  <2>1. to \in 1..at /\ to \in 1..Len(r) /\ r[to] = tree[to] /\ ParentAt(r, to) = parent
    BY <1>2, <1>7, <1>8, <1>10 DEF parent
  <2>2. IndexOf(r, tree[to].id) = to
    BY <1>2, <1>4, <2>1, OwnIndex
  <2>. DEFINE E == Elder(r, parent, to)
              L == Elder(r, parent, at + 1)
  <2>3. L = E \cup {to} /\ to \notin E
    <3>1. ASSUME NEW j \in L, j # to
          PROVE  j \in E
      <4>1. j \in 1..at /\ ParentAt(r, j) = parent
        BY <1>2 DEF Elder
      <4>2. ParentAt(tree, j) = parent /\ j \in DOMAIN tree
        BY <1>2, <4>1, TreeShape DEF n
      <4>3. j \in ChildrenOf(tree, parent)
        BY <4>2 DEF ChildrenOf
      <4>4. j <= to
        BY <1>7, <1>10, <4>1, <4>3, <1>2
      <4>5. j \in 1..to-1
        BY <2>1, <3>1, <4>1, <4>4
      <4>. QED
        BY <4>1, <4>5 DEF Elder
    <3>2. to \in L
      BY <1>2, <2>1 DEF Elder
    <3>3. E \subseteq L
      <4>1. \A j \in 1..to-1 : j \in 1..(at+1)-1
        BY <1>2, <2>1
      <4>. QED
        BY <4>1 DEF Elder
    <3>4. to \notin E
      BY <2>1 DEF Elder
    <3>. QED
      BY <3>1, <3>2, <3>3, <3>4
  <2>4. /\ IsFiniteSet(E) /\ Cardinality(E) \in Nat
        /\ SiblingIndex(r, at + 1) = Cardinality(L)
        /\ SiblingIndex(r, to) = Cardinality(E)
    BY <1>2, <1>3, <2>1, ElderCounts, IndexIsElder
  <2>. HIDE DEF E, L
  <2>5. Cardinality(L) = Cardinality(E) + 1
    BY <2>3, <2>4, FS_AddElement
  <2>. QED
    BY <1>3, <1>10, <2>2, <2>4, <2>5 DEF r, parent, index, Precedes
<1>. QED
  BY <1>9, <1>10

\* A node outside the subtree taken out keeps its parent, and its index unless the
\* subtree stood before it among its siblings (IndexFor reckons with that).
LEMMA CutBeside ==
    ASSUME NEW tree \in Trees, Well(tree), NEW i \in 1..Len(tree), NEW to \in 1..Len(tree),
           tree[to].id \notin Ids(SubtreeAt(tree, i)),
           ParentAt(tree, to) \notin Ids(SubtreeAt(tree, i))
    PROVE  LET r    == RemoveAt(tree, i)
               left == IndexOf(r, tree[to].id)
               gone == IF ParentAt(tree, i) = ParentAt(tree, to) /\ i < to THEN 1 ELSE 0
           IN  /\ left \in 1..Len(r) /\ r[left].id = tree[to].id
               /\ ParentAt(r, left) = ParentAt(tree, to)
               /\ SiblingIndex(r, left) = SiblingIndex(tree, to) - gone
<1>. DEFINE r == RemoveAt(tree, i)
            e == EndOf(tree, i)
            w == e - i + 1
            n == Len(tree)
            parent == ParentAt(tree, to)
            sub    == SubtreeAt(tree, i)
            gone   == IF ParentAt(tree, i) = parent /\ i < to THEN 1 ELSE 0
<1>1. n \in Nat /\ i \in 1..n /\ to \in 1..n
  BY TreeShape
<1>2. e \in i..n /\ \A k \in i+1..e : tree[k].depth > tree[i].depth
  BY SubtreeEnd
<1>3. /\ r \in Trees /\ Len(r) = n - w
      /\ \A k \in 1..i-1 : r[k] = tree[k]
      /\ \A k \in i..n-w : r[k] = tree[k + w]
  BY CutShape
<1>4. /\ \A k \in 1..i-1 : ParentAt(r, k) = ParentAt(tree, k)
      /\ \A k \in i..n-w : ParentAt(r, k) = ParentAt(tree, k + w)
  BY CutParents
<1>5. Distinct(r)
  BY CutWell DEF Well
<1>6. \A k \in i..e : tree[k].id \in Ids(sub)
  <2>1. /\ sub \in Trees /\ Len(sub) = e - i + 1
        /\ \A k \in 1..e-i+1 : sub[k] = tree[i + k - 1]
    BY SubtreeShape
  <2>. HIDE DEF sub, e
  <2>2. DOMAIN sub = 1..e-i+1
    BY <2>1, TreeShape
  <2>3. ASSUME NEW k \in i..e
        PROVE  tree[k].id \in Ids(sub)
    <3>1. k - i + 1 \in 1..e-i+1 /\ i + (k - i + 1) - 1 = k
      BY <1>1, <1>2
    <3>2. sub[k - i + 1] = tree[k]
      BY <2>1, <3>1
    <3>. QED
      BY <2>2, <3>1, <3>2 DEF Ids
  <2>. QED
    BY <2>3
<1>7. \A k \in i+1..e : ParentAt(tree, k) # parent
  <2>1. ASSUME NEW k \in i+1..e
        PROVE  ParentAt(tree, k) \in Ids(sub)
    <3>1. PICK p \in i..k-1 : ParentAt(tree, k) = tree[p].id
      BY <1>2, InnerParents DEF Well
    <3>2. p \in i..e
      BY <1>1, <1>2
    <3>. QED
      BY <1>6, <3>1, <3>2
  <2>. QED
    BY <2>1
<1>. HIDE DEF r, e, n, parent, sub
<1>8. w \in 1..n /\ i + w = e + 1
  BY <1>1, <1>2
<1>. HIDE DEF w
<1>9. to < i \/ to > e
  BY <1>1, <1>2, <1>6 DEF sub
<1>. DEFINE From(k) == IF k < i THEN k ELSE k + w
            left == IF to < i THEN to ELSE to - w
<1>10. left \in 1..n-w /\ From(left) = to
  BY <1>1, <1>2, <1>8, <1>9
<1>11. \A k \in 1..n-w : r[k] = tree[From(k)] /\ ParentAt(r, k) = ParentAt(tree, From(k))
  BY <1>1, <1>3, <1>4, <1>8
<1>12. r[left] = tree[to] /\ ParentAt(r, left) = parent
  BY <1>10, <1>11 DEF parent
<1>13. IndexOf(r, tree[to].id) = left
  BY <1>3, <1>5, <1>10, <1>12, OwnIndex
<1>. DEFINE E == Elder(tree, parent, to)
            L == Elder(r, parent, left)
<1>14. /\ IsFiniteSet(E) /\ Cardinality(E) \in Nat
       /\ IsFiniteSet(L) /\ Cardinality(L) \in Nat
       /\ SiblingIndex(tree, to) = Cardinality(E)
       /\ SiblingIndex(r, left) = Cardinality(L)
  BY <1>1, <1>10, <1>12, ElderCounts, IndexIsElder DEF parent
<1>15. Cardinality(L) = Cardinality(E \ {i})
  <2>. DEFINE f == [k \in L |-> From(k)]
  <2>1. ASSUME NEW k \in L
        PROVE  From(k) \in E \ {i}
    <3>1. k \in 1..left-1 /\ ParentAt(r, k) = parent
      BY DEF Elder
    <3>2. k \in 1..n-w
      BY <1>1, <1>8, <1>10, <3>1
    <3>3. ParentAt(tree, From(k)) = parent
      BY <1>11, <3>1, <3>2
    <3>4. From(k) \in 1..to-1 /\ From(k) # i
      BY <1>1, <1>8, <1>9, <1>10, <3>1
    <3>. HIDE DEF From
    <3>. QED
      BY <3>3, <3>4 DEF Elder
  <2>2. ASSUME NEW k \in L, NEW l \in L, From(k) = From(l)
        PROVE  k = l
    <3>1. k \in Nat /\ l \in Nat
      BY <1>10 DEF Elder
    <3>. QED
      BY <1>1, <1>8, <2>2, <3>1
  <2>3. ASSUME NEW j \in E \ {i}
        PROVE  \E k \in L : From(k) = j
    <3>1. j \in 1..to-1 /\ ParentAt(tree, j) = parent /\ j # i
      BY DEF Elder
    <3>2. j < i \/ j > e
      BY <1>1, <1>2, <1>7, <3>1
    <3>. DEFINE k == IF j < i THEN j ELSE j - w
    <3>3. k \in 1..n-w /\ k \in 1..left-1 /\ From(k) = j
      BY <1>1, <1>2, <1>8, <1>9, <1>10, <3>1, <3>2
    <3>. HIDE DEF k, From
    <3>4. ParentAt(r, k) = parent
      BY <1>11, <3>1, <3>3
    <3>5. k \in L
      BY <3>3, <3>4 DEF Elder
    <3>. QED
      BY <3>3, <3>5
  <2>. HIDE DEF From, L, E
  <2>4. f \in Bijection(L, E \ {i})
    <3>1. f \in [L -> E \ {i}]
      BY <2>1
    <3>2. \A k, l \in L : f[k] = f[l] => k = l
      BY <2>2
    <3>3. \A j \in E \ {i} : \E k \in L : f[k] = j
      BY <2>3
    <3>. QED
      BY <3>1, <3>2, <3>3 DEF Bijection, Injection, Surjection, IsInjective
  <2>. QED
    BY <1>14, <2>4, FS_Bijection DEF ExistsBijection
<1>16. i \in E <=> gone = 1
  BY <1>1 DEF Elder
<1>17. Cardinality(E \ {i}) = Cardinality(E) - gone
  <2>. HIDE DEF E
  <2>1. Cardinality(E \ {i}) = IF i \in E THEN Cardinality(E) - 1 ELSE Cardinality(E)
    BY <1>14, FS_RemoveElement
  <2>. QED
    BY <1>14, <1>16, <2>1
<1>18. SiblingIndex(r, left) = SiblingIndex(tree, to) - gone
  BY <1>14, <1>15, <1>17
<1>. HIDE DEF left
<1>. QED
  BY <1>3, <1>10, <1>12, <1>13, <1>18 DEF r, parent, sub, n

\* Where a target beside a node stands, and the index it stands for.
LEMMA BesideTarget ==
    ASSUME NEW tree \in Trees, NEW active, NEW target \in Target, IsPlaced(tree, target),
           target.kind \in {"before", "after"}
    PROVE  LET at == IndexOf(tree, target.id)
           IN  /\ at \in 1..Len(tree) /\ tree[at].id = target.id
               /\ ParentAt(tree, at) = target.parent
               /\ IndexFor(tree, active, target)
                    = SiblingIndex(tree, at) + (IF target.kind = "after" THEN 1 ELSE 0)
                        - Lifted(tree, active, at)
<1>1. target.kind \notin {"root", "inside"}
  OBVIOUS
<1>2. /\ target.id \in Ids(tree)
      /\ ParentAt(tree, IndexOf(tree, target.id)) = target.parent
  BY <1>1 DEF IsPlaced
<1>. QED
  BY <1>1, <1>2, Indexed DEF IndexFor

\* A component from the palette lands where the indicator was.
LEMMA NewLands ==
    ASSUME NEW tree \in Trees, NEW n \in Nat, Grown(tree, n), NEW active \in Drag,
           active.id = None, NEW target \in Target,
           ApplyDrop(tree, active, target, n + 1) # None
    PROVE  Lands(ApplyDrop(tree, active, target, n + 1), <<n + 1, 1>>, target)
<1>. DEFINE f == Fresh(active.type, n + 1)
            index == IndexFor(tree, active, target)
            r == InsertAt(tree, f, target.parent, index)
            new == <<n + 1, 1>>
<1>1. /\ IsPlaced(tree, target)
      /\ Exists(tree, target.parent)
      /\ CanNest(TypeOfParent(tree, target.parent), active.type)
      /\ ApplyDrop(tree, active, target, n + 1) = r
  BY DEF ApplyDrop, InsertNew, Limited
<1>2. f \in Trees /\ Branch(f) /\ HasSeed(f, n + 1) /\ f[1].type = active.type
  BY <1>1, OnlyRegistered, FreshBranch
<1>3. /\ Exists(tree, target.parent)
      /\ Stands(TypeOfParent(tree, target.parent), f[1].type)
      /\ ApplyDrop(tree, active, target, n + 1) = r
  BY <1>1, <1>2 DEF Stands
<1>4. index \in Nat
  BY <1>1, IndexForType
<1>. HIDE DEF f
<1>5. f[1].id = new
  <2>1. 1 \in DOMAIN f
    BY <1>2, TreeShape, EmptySeq DEF Branch, Trees
  <2>. QED
    BY <1>2, <2>1 DEF HasSeed
<1>6. Well(tree) /\ Ids(tree) \cap Ids(f) = {}
  BY <1>2, SeedApart DEF Grown
<1>7. new \in Ids(r) /\ ParentAt(r, IndexOf(r, new)) = target.parent
  <2>. HIDE DEF index, new
  <2>. QED
    BY <1>2, <1>3, <1>4, <1>5, <1>6, InsertedUnder
<1>8. ASSUME target.kind \in {"before", "after"}
      PROVE  IF target.kind = "before" THEN Precedes(r, new, target.id)
                                       ELSE Precedes(r, target.id, new)
  <2>. DEFINE to == IndexOf(tree, target.id)
              after == IF target.kind = "after" THEN 1 ELSE 0
  <2>1. /\ to \in 1..Len(tree) /\ tree[to].id = target.id
        /\ ParentAt(tree, to) = target.parent
        /\ index = SiblingIndex(tree, to) + after - Lifted(tree, active, to)
    BY <1>1, <1>8, BesideTarget
  <2>. HIDE DEF to
  <2>2. Lifted(tree, active, to) = 0
    <3>1. None \notin Ids(tree)
      BY Indexed, NoneApart
    <3>. QED
      BY <3>1 DEF Lifted
  <2>3. SiblingIndex(tree, to) \in Nat
    BY <2>1, SiblingNumber
  <2>4. after \in {0, 1} /\ index = SiblingIndex(tree, to) + after
    BY <2>1, <2>2, <2>3
  <2>5. r = InsertAt(tree, f, ParentAt(tree, to), SiblingIndex(tree, to) + after)
    BY <2>1, <2>4
  <2>. HIDE DEF r, index, new, after
  <2>6. IF after = 0
        THEN Precedes(r, f[1].id, tree[to].id)
        ELSE Precedes(r, tree[to].id, f[1].id)
    BY <1>2, <1>3, <1>6, <2>1, <2>4, <2>5, InsertedBeside
  <2>7. target.kind = "before" <=> after = 0
    BY <1>8 DEF after
  <2>. QED
    BY <1>5, <2>1, <2>6, <2>7
<1>. HIDE DEF r, index, new
<1>. QED
  BY <1>3, <1>7, <1>8 DEF Lands, Precedes, new

\* A moved node lands where the indicator was, beside any other node than itself.
LEMMA MoveLands ==
    ASSUME NEW tree \in Trees, NEW n \in Nat, Grown(tree, n), NEW active \in Drag,
           active.id # None, NEW target \in Target,
           target.kind \in {"before", "after"} => target.id # active.id,
           ApplyDrop(tree, active, target, n + 1) # None
    PROVE  /\ Lands(ApplyDrop(tree, active, target, n + 1), active.id, target)
           /\ Ids(ApplyDrop(tree, active, target, n + 1)) = Ids(tree)
<1>. DEFINE id    == active.id
            index == IndexFor(tree, active, target)
            i     == IndexOf(tree, id)
            sub   == SubtreeAt(tree, i)
            cut   == RemoveAt(tree, i)
            r     == InsertAt(cut, sub, target.parent, index)
<1>1. /\ IsPlaced(tree, target)
      /\ ApplyDrop(tree, active, target, n + 1)
           = MoveNode(tree, id, target.parent, index)
  BY DEF ApplyDrop
<1>2. index \in Nat
  BY <1>1, IndexForType
<1>3. Ids(ApplyDrop(tree, active, target, n + 1)) = Ids(tree)
  <2>. HIDE DEF index, id
  <2>. QED
    BY <1>1, <1>2, MoveGrown
<1>4. /\ id \in Ids(tree) /\ i \in 1..Len(tree) /\ tree[i].id = id
      /\ sub \in Trees /\ Branch(sub) /\ sub[1] = tree[i]
      /\ cut \in Trees /\ Well(cut) /\ Ids(cut) \cap Ids(sub) = {}
      /\ Exists(cut, target.parent) /\ target.parent \notin Ids(sub)
      /\ Stands(TypeOfParent(cut, target.parent), sub[1].type)
      /\ MoveNode(tree, id, target.parent, index) = r
  <2>. HIDE DEF index, id
  <2>. QED
    BY <1>1, MoveParts
<1>5. Well(tree)
  BY DEF Grown
<1>. HIDE DEF sub, cut, i, index, id
<1>6. id \in Ids(r) /\ ParentAt(r, IndexOf(r, id)) = target.parent
  BY <1>2, <1>4, InsertedUnder
<1>7. ASSUME target.kind \in {"before", "after"}
      PROVE  IF target.kind = "before" THEN Precedes(r, id, target.id)
                                       ELSE Precedes(r, target.id, id)
  <2>. DEFINE to    == IndexOf(tree, target.id)
              after == IF target.kind = "after" THEN 1 ELSE 0
              left  == IndexOf(cut, target.id)
              gone  == IF ParentAt(tree, i) = ParentAt(tree, to) /\ i < to THEN 1 ELSE 0
  <2>1. /\ to \in 1..Len(tree) /\ tree[to].id = target.id
        /\ ParentAt(tree, to) = target.parent
        /\ index = SiblingIndex(tree, to) + after - Lifted(tree, active, to)
    BY <1>1, <1>7, BesideTarget DEF index
  <2>. HIDE DEF to
  <2>2. Lifted(tree, active, to) = gone
    BY <1>4 DEF Lifted, i, id
  <2>3. target.id \notin Ids(sub)
    <3>1. SUFFICES ASSUME target.id \in Ids(sub) PROVE FALSE
      OBVIOUS
    <3>2. /\ EndOf(tree, i) \in i..Len(tree)
          /\ \A k \in i+1..EndOf(tree, i) : tree[k].depth > tree[i].depth
          /\ Len(sub) = EndOf(tree, i) - i + 1
          /\ \A k \in 1..EndOf(tree, i)-i+1 : sub[k] = tree[i + k - 1]
      BY <1>4, SubtreeEnd, SubtreeShape DEF sub
    <3>. DEFINE e == EndOf(tree, i)
    <3>. HIDE DEF e
    <3>3. /\ e \in i..Len(tree) /\ Len(sub) = e - i + 1
          /\ \A k \in i+1..e : tree[k].depth > tree[i].depth
          /\ \A k \in 1..e-i+1 : sub[k] = tree[i + k - 1]
      BY <3>2 DEF e
    <3>4. Len(tree) \in Nat /\ DOMAIN tree = 1..Len(tree) /\ DOMAIN sub = 1..Len(sub)
      BY <1>4, TreeShape
    <3>5. PICK k \in 1..Len(sub) : target.id = sub[k].id
      BY <3>1, <3>4 DEF Ids
    <3>6. i + k - 1 \in i..e /\ i + k - 1 \in 1..Len(tree) /\ sub[k] = tree[i + k - 1]
      BY <1>4, <3>3, <3>4, <3>5
    <3>7. to = i + k - 1
      BY <1>5, <2>1, <3>4, <3>5, <3>6 DEF Well, Distinct
    <3>8. to # i
      BY <1>4, <1>7, <2>1 DEF id
    <3>9. to \in i+1..e
      BY <1>4, <3>3, <3>4, <3>6, <3>7, <3>8
    <3>10. PICK p \in i..to-1 : ParentAt(tree, to) = tree[p].id
      <4>1. /\ tree \in Trees /\ IsForest(tree) /\ i \in 1..Len(tree)
            /\ e \in i..Len(tree)
            /\ \A l \in i+1..e : tree[l].depth > tree[i].depth
        BY <1>4, <1>5, <3>3 DEF Well
      <4>. QED
        BY <3>9, <4>1, InnerParents
    <3>11. p - i + 1 \in 1..Len(sub) /\ i + (p - i + 1) - 1 = p
      BY <1>4, <3>3, <3>4, <3>9, <3>10
    <3>12. sub[p - i + 1] = tree[p]
      BY <3>3, <3>11
    <3>13. ParentAt(tree, to) \in Ids(sub)
      BY <3>4, <3>10, <3>11, <3>12 DEF Ids
    <3>. QED
      BY <1>4, <2>1, <3>13
  <2>. HIDE DEF gone
  <2>4. /\ left \in 1..Len(cut) /\ cut[left].id = target.id
        /\ ParentAt(cut, left) = target.parent
        /\ SiblingIndex(cut, left) = SiblingIndex(tree, to) - gone
    <3>1. tree[to].id \notin Ids(sub) /\ ParentAt(tree, to) \notin Ids(sub)
      BY <1>4, <2>1, <2>3
    <3>2. LET l == IndexOf(cut, tree[to].id)
          IN  /\ l \in 1..Len(cut) /\ cut[l].id = tree[to].id
              /\ ParentAt(cut, l) = ParentAt(tree, to)
              /\ SiblingIndex(cut, l) = SiblingIndex(tree, to) - gone
      BY <1>4, <1>5, <2>1, <3>1, CutBeside DEF cut, sub, gone
    <3>. QED
      BY <2>1, <3>2
  <2>. HIDE DEF left
  <2>5. /\ after \in {0, 1} /\ gone \in {0, 1} /\ SiblingIndex(tree, to) \in Nat
        /\ target.kind = "before" <=> after = 0
    BY <1>7, <2>1, SiblingNumber DEF gone
  <2>. HIDE DEF after
  <2>6. index = SiblingIndex(cut, left) + after
    BY <2>1, <2>2, <2>4, <2>5
  <2>7. r = InsertAt(cut, sub, ParentAt(cut, left), SiblingIndex(cut, left) + after)
    BY <2>4, <2>6
  <2>8. Stands(TypeOfParent(cut, ParentAt(cut, left)), sub[1].type)
    BY <1>4, <2>4
  <2>. HIDE DEF r
  <2>9. IF after = 0
        THEN Precedes(r, sub[1].id, cut[left].id)
        ELSE Precedes(r, cut[left].id, sub[1].id)
    <3>1. /\ cut \in Trees /\ Well(cut) /\ sub \in Trees /\ Branch(sub)
          /\ left \in 1..Len(cut) /\ Ids(cut) \cap Ids(sub) = {}
      BY <1>4, <2>4
    <3>. QED
      BY <2>5, <2>7, <2>8, <3>1, InsertedBeside
  <2>. QED
    BY <1>4, <2>4, <2>5, <2>9
<1>. HIDE DEF r
<1>. QED
  BY <1>1, <1>3, <1>4, <1>6, <1>7 DEF Lands, Precedes, id

\* A node is never shown beside itself.
Apart(active, target) ==
    target # None /\ target.kind \in {"before", "after"} => target.id # active.id

DragApart == drag # None => Apart(drag, drag.target)

LEMMA OffersApart ==
    ASSUME NEW tree \in Trees, IsForest(tree), NEW active \in Drag
    PROVE  /\ \A i \in 1..Len(tree), position \in Positions :
                Apart(active, TargetOn(tree, active, i, position))
           /\ Apart(active, TargetAtEnd(tree, active))
           /\ \A from : \A step \in {-1, 1} :
                Apart(active, StepTarget(tree, active, from, step))
<1>1. \A i \in 1..Len(tree) : tree[i].id \in NodeId /\ tree[i].id # None
  BY TreeShape, NoneApart DEF Node
<1>2. ASSUME NEW i \in 1..Len(tree), tree[i].id # active.id, NEW position
      PROVE  Apart(active, RelativeTarget(tree, active, i, position))
  BY <1>2 DEF RelativeTarget, Apart
<1>3. ASSUME NEW i \in 1..Len(tree), ~IsOwnSubtree(tree, active, tree[i].id)
      PROVE  tree[i].id # active.id
  <2>1. SUFFICES ASSUME tree[i].id = active.id PROVE FALSE
    OBVIOUS
  <2>. DEFINE a == IndexOf(tree, active.id)
  <2>2. /\ active.id \in Ids(tree)
        /\ active.id \notin Ids(SubtreeAt(tree, a))
    BY <1>1, <1>3, <2>1 DEF IsOwnSubtree
  <2>3. a \in 1..Len(tree) /\ tree[a].id = active.id
    BY <2>2, Indexed
  <2>. DEFINE sub == SubtreeAt(tree, a)
  <2>. HIDE DEF a
  <2>4. sub \in Trees /\ 1 \in DOMAIN sub /\ sub[1] = tree[a]
    <3>1. EndOf(tree, a) \in a..Len(tree)
      BY <2>3, SubtreeEnd
    <3>2. a + 1 - 1 = a /\ 1 \in 1..EndOf(tree, a)-a+1
      BY <2>3, <3>1, TreeShape
    <3>3. /\ sub \in Trees /\ Len(sub) = EndOf(tree, a) - a + 1
          /\ \A k \in 1..EndOf(tree, a)-a+1 : sub[k] = tree[a + k - 1]
      BY <2>3, SubtreeShape
    <3>. HIDE DEF sub
    <3>4. DOMAIN sub = 1..Len(sub)
      BY <3>3, TreeShape
    <3>. QED
      BY <3>2, <3>3, <3>4
  <2>. QED
    BY <2>2, <2>3, <2>4 DEF Ids, a
<1>4. ASSUME NEW i \in 1..Len(tree), NEW position \in Positions
      PROVE  Apart(active, TargetOn(tree, active, i, position))
  <2>1. Apart(active, None)
    BY DEF Apart
  <2>2. Apart(active, InsideTarget(tree, active, i))
    BY DEF Apart, InsideTarget
  <2>. QED
    BY <1>2, <1>3, <2>1, <2>2 DEF TargetOn
<1>5. Apart(active, TargetAtEnd(tree, active))
  <2>1. CASE tree = <<>>
    BY <2>1 DEF TargetAtEnd, Apart
  <2>2. CASE tree # <<>>
    <3>. DEFINE last == Max(ChildrenOf(tree, None))
    <3>1. last \in 1..Len(tree)
      BY <2>2, LastRoot
    <3>2. \/ TargetAtEnd(tree, active) = None
          \/ /\ tree[last].id # active.id
             /\ TargetAtEnd(tree, active) = RelativeTarget(tree, active, last, "after")
      BY <2>2 DEF TargetAtEnd
    <3>. HIDE DEF last
    <3>. QED
      BY <1>2, <3>1, <3>2 DEF Apart
  <2>. QED
    BY <2>1, <2>2
<1>6. ASSUME NEW from, NEW step \in {-1, 1}
      PROVE  Apart(active, StepTarget(tree, active, from, step))
  <2>. DEFINE position == IF step = 1 THEN "after" ELSE "before"
              ahead == {i \in DOMAIN tree : (i - IndexOf(tree, from)) * step > 0}
              legal == {i \in ahead :
                          /\ ~IsOwnSubtree(tree, active, tree[i].id)
                          /\ RelativeTarget(tree, active, i, position) # None}
              next == IF step = 1 THEN Min(legal) ELSE Max(legal)
  <2>1. \/ StepTarget(tree, active, from, step) = None
        \/ /\ legal # {}
           /\ StepTarget(tree, active, from, step)
                = RelativeTarget(tree, active, next, position)
    BY DEF StepTarget
  <2>2. /\ legal \in SUBSET (1..Len(tree)) /\ Len(tree) \in Nat
        /\ \A i \in legal : ~IsOwnSubtree(tree, active, tree[i].id)
    BY TreeShape
  <2>. HIDE DEF legal, position
  <2>3. ASSUME legal # {}
        PROVE  next \in legal
    <3>1. legal \in SUBSET Nat /\ legal \in SUBSET (0..Len(tree))
      BY <2>2
    <3>2. Min(legal) \in legal
      BY <2>3, <3>1, MinOf
    <3>3. Max(legal) \in legal
      BY <2>2, <2>3, <3>1, MaxOf
    <3>. QED
      BY <3>2, <3>3
  <2>. HIDE DEF next
  <2>4. CASE StepTarget(tree, active, from, step) = None
    BY <2>4 DEF Apart
  <2>5. CASE /\ legal # {}
             /\ StepTarget(tree, active, from, step)
                  = RelativeTarget(tree, active, next, position)
    <3>1. next \in 1..Len(tree) /\ tree[next].id # active.id
      BY <1>3, <2>2, <2>3, <2>5
    <3>. QED
      BY <1>2, <2>5, <3>1
  <2>. QED
    BY <2>1, <2>4, <2>5
<1>. QED
  BY <1>4, <1>5, <1>6

\* Only these steps change the drag.
LEMMA DragChanges ==
    ASSUME [Next]_vars
    PROVE  \/ UNCHANGED drag
           \/ \E type \in Types : BeginPaletteDrag(type)
           \/ \E id \in Ids(Tree), keyboard \in BOOLEAN : BeginNodeDrag(id, keyboard)
           \/ Hover \/ Drop \/ Cancel
           \/ \E step \in {-1, 1} : Arrow(step)
<1>1. CASE UNCHANGED vars
  BY <1>1 DEF vars
<1>2. CASE \E type \in Types : Insert(type) \/ BeginPaletteDrag(type)
  BY <1>2 DEF Insert
<1>3. CASE \E id \in Ids(Tree) :
             \/ Remove(id) \/ Duplicate(id) \/ Type(id) \/ Toggle(id)
             \/ \E step \in {-1, 1} : MoveBy(id, step)
             \/ \E keyboard \in BOOLEAN : BeginNodeDrag(id, keyboard)
  BY <1>3 DEF Remove, Duplicate, Type, Toggle, MoveBy
<1>4. CASE FinishTyping \/ Undo \/ Redo \/ Discard \/ SaveDraft \/ OtherSaves
  BY <1>4 DEF FinishTyping, Undo, Redo, Discard, SaveDraft, OtherSaves
<1>5. CASE \E r \in requests :
             CheckSave(r) \/ WriteSave(r) \/ Answer(r) \/ LoseAnswer(r) \/ LoseRequest(r)
  BY <1>5 DEF CheckSave, WriteSave, Answer, LoseAnswer, LoseRequest
<1>6. CASE \/ Hover \/ Drop \/ Cancel
           \/ \E step \in {-1, 1} : Arrow(step)
  BY <1>6
<1>. QED
  BY <1>1, <1>2, <1>3, <1>4, <1>5, <1>6 DEF Next

LEMMA StepApart == EditorSound /\ DragApart /\ [Next]_vars => DragApart'
<1>. SUFFICES ASSUME EditorSound, DragApart, [Next]_vars
              PROVE  DragApart'
  OBVIOUS
<1>. DEFINE page == Present(1)
<1>1. /\ page \in Trees /\ IsForest(page) /\ DOMAIN page = 1..Len(page)
      /\ drag # None => drag \in Drag
  <2>1. page \in Trees /\ Grown(page, edits)
    BY EditorFacts DEF Present
  <2>. QED
    BY <2>1, TreeShape DEF Grown, Well, EditorSound, Dragging
<1>. HIDE DEF page
<1>2. CASE UNCHANGED drag
  BY <1>2 DEF DragApart
<1>3. ASSUME NEW id, NEW type, NEW keyboard, Dragged(id, type, keyboard)
      PROVE  DragApart'
  BY <1>3 DEF Dragged, DragApart, Apart
<1>4. ASSUME drag # None, NEW target \in Target \cup {None}, Apart(drag, target),
             drag' = [drag EXCEPT !.target = target]
      PROVE  DragApart'
  <2>1. drag'.id = drag.id /\ drag'.target = target
    BY <1>1, <1>4 DEF Drag
  <2>. QED
    BY <1>4, <2>1 DEF DragApart, Apart
<1>5. CASE Hover
  <2>1. drag # None /\ drag \in Drag
    BY <1>1, <1>5 DEF Hover
  <2>2. CASE \E i \in DOMAIN page : \E position \in PositionsOn(page, i) :
               drag' = [drag EXCEPT !.target = TargetOn(page, drag, i, position)]
    <3>1. PICK i \in 1..Len(page), position \in Positions :
                 drag' = [drag EXCEPT !.target = TargetOn(page, drag, i, position)]
      BY <1>1, <2>2 DEF PositionsOn, Positions
    <3>2. TargetOn(page, drag, i, position) \in Target \cup {None}
      BY <1>1, TargetTyped
    <3>3. Apart(drag, TargetOn(page, drag, i, position))
      BY <1>1, <2>1, OffersApart
    <3>. QED
      BY <1>4, <2>1, <3>1, <3>2, <3>3
  <2>3. CASE drag' = [drag EXCEPT !.target = TargetAtEnd(page, drag)]
    <3>1. TargetAtEnd(page, drag) \in Target \cup {None}
      BY <1>1, DragTargets
    <3>2. Apart(drag, TargetAtEnd(page, drag))
      BY <1>1, <2>1, OffersApart
    <3>. QED
      BY <1>4, <2>1, <2>3, <3>1, <3>2
  <2>. QED
    BY <1>5, <2>2, <2>3 DEF Hover, page
<1>6. ASSUME NEW step \in {-1, 1}, Arrow(step) PROVE DragApart'
  <2>. DEFINE from == IF drag.target = None THEN drag.id ELSE drag.target.id
              next == StepTarget(page, drag, from, step)
  <2>1. drag # None /\ drag \in Drag /\ drag' = [drag EXCEPT !.target = next]
    BY <1>1, <1>6 DEF Arrow, page
  <2>2. next \in Target \cup {None}
    BY <1>1, DragTargets
  <2>3. Apart(drag, next)
    BY <1>1, <2>1, OffersApart
  <2>. HIDE DEF next
  <2>. QED
    BY <1>4, <2>1, <2>2, <2>3
<1>7. CASE Drop \/ Cancel
  BY <1>7 DEF Drop, Cancel, DragApart
<1>. QED
  BY <1>2, <1>3, <1>5, <1>6, <1>7, DragChanges DEF BeginPaletteDrag, BeginNodeDrag

LEMMA StepLands ==
    ASSUME EditorSound, DragApart, [Next]_vars,
           edits' # edits, drag # None, drag' = None
    PROVE  /\ Lands(docs'[1].present, Moved, drag.target)
           /\ drag.id # None => Ids(docs'[1].present) = Ids(docs[1].present)
<1>1. Drop
  <2>1. CASE Hover \/ \E step \in {-1, 1} : Arrow(step)
    BY <2>1 DEF Hover, Arrow
  <2>2. CASE \/ \E type \in Types : BeginPaletteDrag(type)
             \/ \E id \in Ids(Tree), keyboard \in BOOLEAN : BeginNodeDrag(id, keyboard)
    BY <2>2 DEF BeginPaletteDrag, BeginNodeDrag
  <2>3. CASE Cancel
    BY <2>3 DEF Cancel
  <2>. QED
    BY <2>1, <2>2, <2>3, DragChanges
<1>. DEFINE page == Present(1)
            new  == ApplyDrop(page, drag, drag.target, edits + 1)
<1>2. /\ drag \in Drag /\ drag.target # None /\ drag.target \in Target
      /\ page \in Trees /\ edits \in Nat /\ Grown(page, edits)
      /\ docs[1] \in Document /\ docs \in [Stores -> Document \cup {None}]
  <2>1. drag \in Drag /\ drag.target # None
    BY <1>1 DEF Drop, EditorSound, Dragging
  <2>2. drag.target \in Target
    BY <2>1 DEF Drag
  <2>3. docs \in [Stores -> Document \cup {None}]
    BY DEF EditorSound, Editors
  <2>. QED
    BY <2>1, <2>2, <2>3, EditorFacts DEF Present
<1>3. new # None /\ docs' = [docs EXCEPT ![1] = Committed(@, new)]
  BY <1>1 DEF Drop, Commit, Seed
<1>4. docs'[1].present = new /\ docs[1].present = page
  <2>1. docs'[1] = Committed(docs[1], new)
    BY <1>2, <1>3 DEF Stores
  <2>. HIDE DEF new
  <2>. QED
    BY <1>2, <2>1 DEF Committed, Document, Present
<1>5. drag.target.kind \in {"before", "after"} => drag.target.id # drag.id
  BY <1>2 DEF DragApart, Apart
<1>. HIDE DEF page
<1>6. CASE drag.id = None
  BY <1>2, <1>3, <1>4, <1>6, NewLands DEF Moved, Seed
<1>7. CASE drag.id # None
  BY <1>2, <1>3, <1>4, <1>5, <1>7, MoveLands DEF Moved
<1>. QED
  BY <1>6, <1>7

\* A drop puts the component where the indicator was, whatever undo, redo or another edit
\* did to the page since it was shown, and a move loses no node (resolvePlacement,
\* moveNode, insertNewComponent).
THEOREM DropsLand == Spec => DropLands
<1>1. Init => DragApart
  BY DEF Init, DragApart
<1>2. EditorSound /\ DragApart /\ [Next]_vars =>
        [edits' # edits /\ drag # None /\ drag' = None =>
           /\ Lands(docs'[1].present, Moved, drag.target)
           /\ drag.id # None => Ids(docs'[1].present) = Ids(docs[1].present)]_vars
  BY StepLands
<1>. QED
  BY <1>1, <1>2, StepApart, AlwaysSound, PTL DEF Spec, DropLands
=============================================================================
