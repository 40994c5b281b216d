------------------------ MODULE TreeValidatorProofs ------------------------
(***************************************************************************)
(* That the walk over the finished tree finds the first defect in the      *)
(* order of the document, with the right path, whatever the tree.          *)
(*                                                                         *)
(* The argument: the activations are one branch of the tree, each with the *)
(* keys of the pairs it has passed, and no defect lies behind the walk     *)
(* (WalkIInv).  What a step leaves behind is just what lies between two    *)
(* positions in preorder, so that no defect is passed over.                *)
(***************************************************************************)
EXTENDS TreeValidator, TLAPS, FiniteSetTheorems, SequenceTheorems

-----------------------------------------------------------------------------
(* The children of a node, by their slots.                                 *)

(* A set of naturals has a least.                                          *)
LEMMA LeastIsIn ==
  ASSUME NEW S \in SUBSET Nat, S # {}
  PROVE  \E o \in S : \A i \in S : o <= i
<1> DEFINE below == {0 .. i : i \in S}
<1>1. below # {} /\ below \subseteq FiniteSubsetsOf(Nat)
  <2>1. ASSUME NEW i \in S PROVE 0 .. i \in SUBSET Nat /\ IsFiniteSet(0 .. i)
    <3>1. i \in Int /\ 0 \in Int
      OBVIOUS
    <3> QED BY <3>1, FS_Interval
  <2>2. \A x \in below : x \in SUBSET Nat /\ IsFiniteSet(x)
    BY <2>1
  <2>3. PICK i : i \in S
    OBVIOUS
  <2>4. 0 .. i \in below
    BY <2>3
  <2> HIDE DEF below
  <2> QED BY <2>2, <2>4 DEF FiniteSubsetsOf
<1>2. PICK x \in below : \A y \in below : ~(<<y, x>> \in StrictSubsetOrdering(Nat))
  <2> HIDE DEF below
  <2>1. IsWellFoundedOn(StrictSubsetOrdering(Nat), FiniteSubsetsOf(Nat))
    BY FS_StrictSubsetOrderingWellFounded
  <2> QED BY <1>1, <2>1, WFMin
<1>3. PICK o \in S : x = 0 .. o
  BY <1>2
<1>4. ASSUME NEW i \in S, i < o PROVE FALSE
  <2>1. 0 .. i \subseteq 0 .. o /\ 0 .. i # 0 .. o
    <3>1. o \in 0 .. o /\ o \notin 0 .. i
      BY <1>4
    <3>2. 0 .. i \subseteq 0 .. o
      BY <1>4
    <3> QED BY <3>1, <3>2
  <2>2. 0 .. i \in SUBSET Nat /\ 0 .. o \in SUBSET Nat /\ 0 .. i \in below
    OBVIOUS
  <2> QED BY <1>2, <1>3, <2>1, <2>2 DEF StrictSubsetOrdering
<1> QED BY <1>4

(* One that is bounded has a greatest.                                     *)
LEMMA GreatestIsIn ==
  ASSUME NEW S \in SUBSET Nat, S # {}, NEW bound \in Nat, \A i \in S : i <= bound
  PROVE  \E o \in S : \A i \in S : i <= o
<1> DEFINE above == {k \in Nat : \A i \in S : i <= k}
<1>1. above \in SUBSET Nat /\ above # {}
  <2>1. bound \in above
    OBVIOUS
  <2> QED BY <2>1
<1>2. PICK k \in above : \A j \in above : k <= j
  <2> HIDE DEF above
  <2> QED BY <1>1, LeastIsIn
<1>3. k \in Nat /\ \A i \in S : i <= k
  OBVIOUS
<1>4. CASE k \in S
  BY <1>3, <1>4
<1>5. CASE k \notin S
  <2>1. \A i \in S : i < k
    BY <1>3, <1>5
  <2>2. k # 0
    <3>1. PICK i : i \in S
      OBVIOUS
    <3>2. i < k /\ i \in Nat
      BY <2>1, <3>1
    <3> QED BY <1>3, <3>2
  <2>3. k - 1 \in Nat /\ \A i \in S : i <= k - 1
    BY <1>3, <2>1, <2>2
  <2> QED BY <1>2, <1>3, <2>3
<1> QED BY <1>4, <1>5

(* Slots number the children of a node from zero, in their order.          *)
LEMMA SlotFacts ==
  ASSUME NEW t \in Seq(Node), NEW n
  PROVE  /\ Children(t, n) \subseteq DOMAIN t
         /\ IsFiniteSet(Children(t, n)) /\ Arity(t, n) \in Nat
         /\ \A m \in Children(t, n) : Slot(t, m) \in 0 .. Arity(t, n) - 1
         /\ \A k, m \in Children(t, n) : k < m <=> Slot(t, k) < Slot(t, m)
         /\ \A k, m \in Children(t, n) : Slot(t, k) = Slot(t, m) => k = m
         /\ \A i \in 0 .. Arity(t, n) - 1 :
              Child(t, n, i) \in Children(t, n) /\ Slot(t, Child(t, n, i)) = i
<1> DEFINE C == Children(t, n)
           S(m) == {k \in C : k < m}
<1>1. Len(t) \in Nat /\ DOMAIN t = 1 .. Len(t) /\ C \subseteq DOMAIN t
  BY LenProperties DEF Children
<1>2. IsFiniteSet(C) /\ Cardinality(C) \in Nat
  <2>1. IsFiniteSet(1 .. Len(t))
    BY <1>1, FS_Interval
  <2> QED BY <1>1, <2>1, FS_Subset, FS_CardinalityType
<1>3. C \subseteq Nat /\ \A m \in C : m <= Len(t)
  BY <1>1
<1>4. \A m \in C : Slot(t, m) = Cardinality(S(m))
  BY DEF Slot, Children
<1>5. Arity(t, n) = Cardinality(C)
  BY DEF Arity
<1> HIDE DEF C
<1>6. ASSUME NEW m \in C
      PROVE  IsFiniteSet(S(m)) /\ Cardinality(S(m)) \in 0 .. Cardinality(C) - 1
  <2>1. m \in Nat /\ ~(m < m)
    BY <1>3
  <2>2. S(m) \subseteq C \ {m}
    BY <2>1
  <2>3. IsFiniteSet(C \ {m}) /\ Cardinality(C \ {m}) = Cardinality(C) - 1
    BY <1>2, <1>6, FS_RemoveElement
  <2> HIDE DEF S
  <2>4. IsFiniteSet(S(m)) /\ Cardinality(S(m)) <= Cardinality(C \ {m})
    BY <2>2, <2>3, FS_Subset
  <2>5. Cardinality(S(m)) \in Nat
    BY <2>4, FS_CardinalityType
  <2> QED BY <1>2, <2>3, <2>4, <2>5
<1>7. ASSUME NEW k \in C, NEW m \in C, k < m
      PROVE  Cardinality(S(k)) < Cardinality(S(m))
  <2>1. k \in Nat /\ m \in Nat /\ \A j \in C : j \in Nat
    BY <1>3
  <2>2. S(k) \union {k} \subseteq S(m) /\ k \notin S(k)
    <3>1. ASSUME NEW j \in S(k) PROVE j \in S(m)
      <4>1. j \in C /\ j < k
        BY <3>1
      <4> QED BY <1>7, <2>1, <4>1
    <3>2. k \in S(m)
      BY <1>7
    <3>3. k \notin S(k)
      BY <2>1
    <3> QED BY <3>1, <3>2, <3>3
  <2> HIDE DEF S
  <2>3. IsFiniteSet(S(k)) /\ IsFiniteSet(S(m))
    BY <1>6
  <2>4. Cardinality(S(k) \union {k}) = Cardinality(S(k)) + 1
    BY <2>2, <2>3, FS_AddElement
  <2>5. Cardinality(S(k) \union {k}) <= Cardinality(S(m))
    BY <2>2, <2>3, FS_Subset
  <2>6. Cardinality(S(k)) \in Nat /\ Cardinality(S(m)) \in Nat
    BY <2>3, FS_CardinalityType
  <2> QED BY <2>4, <2>5, <2>6
<1>8. ASSUME NEW k \in C, NEW m \in C
      PROVE  /\ k < m <=> Cardinality(S(k)) < Cardinality(S(m))
             /\ Cardinality(S(k)) = Cardinality(S(m)) => k = m
  <2>1. k \in Nat /\ m \in Nat
    BY <1>3
  <2>2. k < m => Cardinality(S(k)) < Cardinality(S(m))
    BY <1>7
  <2>3. m < k => Cardinality(S(m)) < Cardinality(S(k))
    BY <1>7
  <2> HIDE DEF S
  <2>4. Cardinality(S(k)) \in Int /\ Cardinality(S(m)) \in Int
    BY <1>2, <1>6
  <2> QED BY <2>1, <2>2, <2>3, <2>4
<1>9. ASSUME NEW i \in 0 .. Cardinality(C) - 1
      PROVE  \E m \in C : Cardinality(S(m)) = i
  <2> DEFINE T == {m \in C : Cardinality(S(m)) >= i}
  <2>1. C # {}
    BY <1>2, <1>9, FS_EmptySet
  <2>2. PICK g \in C : \A k \in C : k <= g
    BY <1>1, <1>3, <2>1, GreatestIsIn
  <2>3. S(g) = C \ {g}
    <3>1. ASSUME NEW j \in C PROVE j \in S(g) <=> j # g
      <4>1. j \in Nat /\ g \in Nat /\ j <= g
        BY <1>3, <2>2
      <4> QED BY <4>1
    <3> QED BY <3>1
  <2>4. Cardinality(S(g)) = Cardinality(C) - 1
    BY <1>2, <2>3, FS_RemoveElement
  <2>5. T # {} /\ T \in SUBSET Nat
    <3>1. Cardinality(S(g)) >= i
      BY <1>2, <2>4
    <3>2. g \in T
      BY <3>1
    <3> QED BY <1>3, <3>2
  <2>6. PICK m \in T : \A k \in T : m <= k
    <3> HIDE DEF T
    <3> QED BY <2>5, LeastIsIn
  <2>7. m \in C /\ m \in Nat /\ Cardinality(S(m)) >= i /\ Cardinality(S(m)) \in Nat
    <3>1. m \in C /\ Cardinality(S(m)) >= i
      OBVIOUS
    <3>2. Cardinality(S(m)) \in 0 .. Cardinality(C) - 1
      BY <1>6, <3>1
    <3> HIDE DEF S
    <3> QED BY <1>2, <1>3, <3>1, <3>2
  <2>8. ASSUME Cardinality(S(m)) > i PROVE FALSE
    <3>1. S(m) \in SUBSET Nat /\ S(m) \subseteq C /\ \A k \in S(m) : k <= Len(t)
      BY <1>3
    <3>2. S(m) # {}
      <4>1. Cardinality({}) = 0
        BY FS_EmptySet
      <4>2. Cardinality(S(m)) # 0
        BY <2>7, <2>8
      <4> HIDE DEF S
      <4> QED BY <4>1, <4>2
    <3>3. PICK k \in S(m) : \A j \in S(m) : j <= k
      <4> HIDE DEF S
      <4> QED BY <1>1, <3>1, <3>2, GreatestIsIn
    <3>4. k \in C /\ k < m /\ k \in Nat
      BY <3>1
    <3>5. S(m) = S(k) \union {k} /\ k \notin S(k)
      <4>1. ASSUME NEW j \in S(m) PROVE j \in S(k) \/ j = k
        <5>1. j \in C /\ j \in Nat /\ j <= k
          BY <1>3, <3>3
        <5> QED BY <3>4, <5>1
      <4>2. ASSUME NEW j \in S(k) PROVE j \in S(m) /\ j # k
        <5>1. j \in C /\ j \in Nat /\ j < k
          BY <1>3
        <5> QED BY <2>7, <3>4, <5>1
      <4> HIDE DEF S
      <4> QED BY <4>1, <4>2
    <3>6. Cardinality(S(m)) = Cardinality(S(k)) + 1 /\ Cardinality(S(k)) \in Nat
      <4>1. IsFiniteSet(S(k))
        BY <1>6, <3>4
      <4> HIDE DEF S
      <4> QED BY <3>5, <4>1, FS_AddElement, FS_CardinalityType
    <3>7. Cardinality(S(k)) >= i
      BY <2>7, <2>8, <3>6
    <3>8. k \in T
      BY <3>4, <3>7
    <3> QED BY <2>6, <2>7, <3>4, <3>8
  <2>9. Cardinality(S(m)) = i
    <3> HIDE DEF S
    <3> QED BY <1>2, <2>7, <2>8
  <2> QED BY <2>7, <2>9
<1>10. ASSUME NEW i \in 0 .. Cardinality(C) - 1
       PROVE  Child(t, n, i) \in C /\ Slot(t, Child(t, n, i)) = i
  BY <1>4, <1>9 DEF Child, C
<1>11. \A m \in C : Slot(t, m) \in 0 .. Arity(t, n) - 1
  BY <1>4, <1>5, <1>6
<1>12. \A k, m \in C : /\ k < m <=> Slot(t, k) < Slot(t, m)
                       /\ Slot(t, k) = Slot(t, m) => k = m
  <2> TAKE k, m \in C
  <2>1. /\ k < m <=> Cardinality(S(k)) < Cardinality(S(m))
        /\ Cardinality(S(k)) = Cardinality(S(m)) => k = m
    BY <1>8
  <2>2. Slot(t, k) = Cardinality(S(k)) /\ Slot(t, m) = Cardinality(S(m))
    BY <1>4
  <2> HIDE DEF S
  <2> QED BY <2>1, <2>2
<1>13. \A i \in 0 .. Arity(t, n) - 1 :
         Child(t, n, i) \in C /\ Slot(t, Child(t, n, i)) = i
  BY <1>5, <1>10
<1>14. IsFiniteSet(C) /\ Arity(t, n) \in Nat /\ C \subseteq DOMAIN t
  BY <1>1, <1>2, <1>5
<1>15. C = Children(t, n)
  BY DEF C
<1> HIDE DEF S
<1> QED BY <1>11, <1>12, <1>13, <1>14, <1>15

-----------------------------------------------------------------------------
(* The paths of the nodes.                                                 *)

(* A path is told from the path of the parent alone.                       *)
LEMMA PathFromParent ==
  ASSUME NEW t, NEW n, NEW f, NEW g,
         t[n].parent # 0 => f[t[n].parent] = g[t[n].parent]
  PROVE  PathStep(t, f, n) = PathStep(t, g, n)
<1>1. CASE t[n].parent = 0
  BY <1>1 DEF PathStep
<1>2. CASE t[n].parent # 0
  BY <1>2 DEF PathStep
<1> QED BY <1>1, <1>2

(* The first k nodes have paths, whatever k.                               *)
LEMMA PathsUpTo ==
  ASSUME NEW t, WellFormed(t), NEW k \in 0 .. Len(t)
  PROVE  \E f : f = [n \in 1 .. k |-> PathStep(t, f, n)]
<1> DEFINE Has(j)  == \E f : f = [n \in 1 .. j |-> PathStep(t, f, n)]
           missing == {j \in 0 .. Len(t) : ~Has(j)}
<1>1. Len(t) \in Nat /\ DOMAIN t = 1 .. Len(t)
  BY LenProperties DEF WellFormed
<1> SUFFICES ASSUME missing # {} PROVE FALSE
  OBVIOUS
<1>2. missing \in SUBSET Nat
  BY <1>1
<1>3. PICK j \in missing : \A i \in missing : j <= i
  <2> HIDE DEF missing
  <2> QED BY <1>2, LeastIsIn
<1>4. j \in 0 .. Len(t) /\ ~Has(j)
  OBVIOUS
<1>5. j # 0
  <2> SUFFICES Has(0)
    BY <1>4
  <2> DEFINE f == [n \in 1 .. 0 |-> n]
  <2>1. 1 .. 0 = {}
    OBVIOUS
  <2>2. f = [n \in 1 .. 0 |-> PathStep(t, f, n)]
    BY <2>1
  <2> HIDE DEF f
  <2> QED BY <2>2
<1>6. Has(j - 1)
  <2>1. j - 1 \in 0 .. Len(t) /\ ~(j <= j - 1)
    BY <1>1, <1>4, <1>5
  <2> HIDE DEF Has
  <2> QED BY <1>3, <2>1
<1>7. PICK f : f = [n \in 1 .. j - 1 |-> PathStep(t, f, n)]
  BY <1>6
<1> DEFINE g == [n \in 1 .. j |-> PathStep(t, f, n)]
<1>8. ASSUME NEW n \in 1 .. j PROVE PathStep(t, f, n) = PathStep(t, g, n)
  <2>1. n \in DOMAIN t /\ n \in Nat /\ j \in Nat
    BY <1>1, <1>4
  <2>2. t[n].parent = 0 \/ t[n].parent \in 1 .. n - 1
    BY <2>1 DEF WellFormed, Preorder
  <2>3. ASSUME t[n].parent # 0 PROVE f[t[n].parent] = g[t[n].parent]
    <3>1. t[n].parent \in 1 .. j - 1 /\ t[n].parent \in 1 .. j
      BY <2>1, <2>2, <2>3
    <3>2. f[t[n].parent] = PathStep(t, f, t[n].parent)
      <4> HIDE DEF g
      <4> QED BY <1>7, <3>1
    <3> QED BY <3>1, <3>2
  <2> HIDE DEF g
  <2> QED BY <2>3, PathFromParent
<1>9. g = [n \in 1 .. j |-> PathStep(t, g, n)]
  <2> DEFINE h == [n \in 1 .. j |-> PathStep(t, g, n)]
  <2>1. \A n \in 1 .. j : g[n] = h[n]
    <3> SUFFICES ASSUME NEW n \in 1 .. j PROVE PathStep(t, f, n) = h[n]
      OBVIOUS
    <3> HIDE DEF g
    <3> QED BY <1>8
  <2>2. g = [n \in 1 .. j |-> g[n]] /\ h = [n \in 1 .. j |-> h[n]]
    OBVIOUS
  <2> HIDE DEF h
  <2>3. g = h
    <3> HIDE DEF g
    <3> QED BY <2>1, <2>2
  <2> QED BY <2>3 DEF h
<1> HIDE DEF g
<1> QED BY <1>4, <1>9

(* PathOf gives every node its path.                                       *)
LEMMA PathEquation ==
  ASSUME NEW t, WellFormed(t), NEW n \in DOMAIN t
  PROVE  PathOf(t)[n] = PathStep(t, PathOf(t), n)
<1>1. Len(t) \in Nat /\ DOMAIN t = 1 .. Len(t)
  BY LenProperties DEF WellFormed
<1>2. \E f : f = [m \in DOMAIN t |-> PathStep(t, f, m)]
  BY <1>1, PathsUpTo
<1>3. PathOf(t) = [m \in DOMAIN t |-> PathStep(t, PathOf(t), m)]
  BY <1>2 DEF PathOf
<1> QED BY <1>3

-----------------------------------------------------------------------------
(* The branch and the nodes around it.                                     *)

(* What preorder says of a node other than the root.                       *)
LEMMA Below ==
  ASSUME NEW t, WellFormed(t), NEW p \in DOMAIN t, NEW m \in Children(t, p)
  PROVE  /\ m \in DOMAIN t /\ p \in 1 .. m - 1
         /\ t[p].kind \in Collections
         /\ t[m].depth = t[p].depth + 1
         /\ \A n \in p + 1 .. m - 1 : t[n].depth >= t[m].depth
<1>1. Len(t) \in Nat /\ DOMAIN t = 1 .. Len(t)
  BY LenProperties DEF WellFormed
<1>2. m \in DOMAIN t /\ t[m].parent = p /\ p # 0
  BY <1>1 DEF Children
<1>3. m # 1
  BY <1>2 DEF WellFormed, Preorder
<1> QED BY <1>1, <1>2, <1>3 DEF WellFormed, Preorder

(* The types of a tree.                                                    *)
LEMMA TreeTypes ==
  ASSUME NEW t, WellFormed(t)
  PROVE  /\ Len(t) \in Nat /\ DOMAIN t = 1 .. Len(t) /\ Len(t) > 0
         /\ \A n \in DOMAIN t : t[n] \in Node /\ t[n].depth \in Nat
<1>1. t \in Seq(Node) /\ t # << >>
  BY DEF WellFormed
<1>2. Len(t) \in Nat /\ DOMAIN t = 1 .. Len(t) /\ Len(t) # 0
  BY <1>1, LenProperties, EmptySeq
<1>3. \A n \in DOMAIN t : t[n] \in Node
  BY <1>1, <1>2, ElementOfSeq
<1>4. \A n \in DOMAIN t : t[n].depth \in Nat
  BY <1>3 DEF Node
<1>5. Len(t) > 0
  BY <1>2
<1> QED BY <1>2, <1>3, <1>4, <1>5

(* The activations w are a branch of the tree t.                           *)
Branch(t, w) ==
  /\ w \in Seq(Activation) /\ w # << >>
  /\ FollowsTree(t, w)
  /\ TracksKeys(t, w)

(* Each activation by itself.                                              *)
LEMMA OnBranch ==
  ASSUME NEW t, WellFormed(t), NEW w, Branch(t, w)
  PROVE  /\ Len(w) \in Nat /\ Len(w) > 0 /\ DOMAIN w = 1 .. Len(w)
         /\ Len(w) \in DOMAIN w
         /\ \A i \in DOMAIN w :
              /\ w[i] \in Activation
              /\ w[i].node \in DOMAIN t /\ w[i].node \in Nat
              /\ w[i].next \in Nat
              /\ t[w[i].node].depth = i
              /\ w[i].path = PathOf(t)[w[i].node]
              /\ i < Len(w) => /\ w[i + 1].node \in Children(t, w[i].node)
                               /\ Slot(t, w[i + 1].node) = w[i].next - 1
              /\ \A n \in w[i].node + 1 .. w[Len(w)].node : t[n].depth > i
              /\ w[i].node <= w[Len(w)].node
<1>1. Len(w) \in Nat /\ Len(w) > 0 /\ DOMAIN w = 1 .. Len(w) /\ Len(w) \in DOMAIN w
  <2>1. Len(w) \in Nat /\ Len(w) # 0 /\ DOMAIN w = 1 .. Len(w)
    BY LenProperties, EmptySeq DEF Branch
  <2> QED BY <2>1
<1>2. Len(t) \in Nat /\ DOMAIN t = 1 .. Len(t)
  BY TreeTypes
<1>3. ASSUME NEW i \in DOMAIN w
      PROVE  /\ w[i] \in Activation
             /\ w[i].node \in DOMAIN t /\ w[i].node \in Nat
             /\ w[i].next \in Nat
             /\ t[w[i].node].depth = i
             /\ w[i].path = PathOf(t)[w[i].node]
             /\ \A n \in w[i].node + 1 .. w[Len(w)].node : t[n].depth > i
             /\ i < Len(w) => Slot(t, w[i + 1].node) = w[i].next - 1
  <2>1. w[i] \in Activation
    BY <1>1, ElementOfSeq DEF Branch
  <2>2. w[i].next \in Nat
    BY <2>1 DEF Activation
  <2>3. w[i].node \in DOMAIN t /\ w[i].node \in Nat
    BY <1>2 DEF Branch, FollowsTree
  <2> QED BY <2>1, <2>2, <2>3 DEF Branch, FollowsTree, TracksKeys
<1>4. ASSUME NEW i \in DOMAIN w, i < Len(w)
      PROVE  w[i + 1].node \in Children(t, w[i].node)
  <2>1. i + 1 \in DOMAIN w /\ i + 1 > 1 /\ (i + 1) - 1 = i
    BY <1>1, <1>4
  <2>2. t[w[i + 1].node].parent = w[i].node
    BY <2>1 DEF Branch, TracksKeys
  <2> QED BY <1>3, <2>1, <2>2 DEF Children
<1>5. ASSUME NEW i \in DOMAIN w PROVE w[i].node <= w[Len(w)].node
  <2>1. i < Len(w) \/ i = Len(w)
    BY <1>1
  <2>2. i < Len(w) => w[i].node < w[Len(w)].node
    BY <1>1 DEF Branch, FollowsTree
  <2> QED BY <1>1, <1>3, <2>1, <2>2
<1> QED BY <1>1, <1>3, <1>4, <1>5

(* All nodes from one of the branch down to a child of the last are inside *)
(* that one.                                                               *)
LEMMA Inside ==
  ASSUME NEW t, WellFormed(t), NEW w, Branch(t, w),
         NEW x \in Children(t, w[Len(w)].node), NEW i \in DOMAIN w
  PROVE  /\ x \in DOMAIN t /\ w[i].node < x
         /\ \A n \in w[i].node + 1 .. x : t[n].depth > i
<1> DEFINE top == w[Len(w)].node
<1>1. /\ top \in DOMAIN t /\ top \in Nat /\ t[top].depth = Len(w)
      /\ w[i].node \in Nat /\ w[i].node <= top
      /\ Len(w) \in Nat /\ i \in Nat /\ i <= Len(w)
      /\ \A n \in w[i].node + 1 .. top : t[n].depth > i
  BY OnBranch
<1>2. /\ x \in DOMAIN t /\ x \in Nat /\ top < x /\ t[x].depth = Len(w) + 1
      /\ \A n \in top + 1 .. x - 1 : t[n].depth >= Len(w) + 1
  <2> HIDE DEF top
  <2>1. x \in Children(t, top)
    BY DEF top
  <2> QED BY <1>1, <2>1, Below, TreeTypes
<1>3. ASSUME NEW n \in w[i].node + 1 .. x PROVE t[n].depth > i
  <2>1. n \in w[i].node + 1 .. top \/ n \in top + 1 .. x - 1 \/ n = x
    BY <1>1, <1>2
  <2>2. n \in DOMAIN t /\ t[n].depth \in Nat
    BY <1>1, <1>2, TreeTypes
  <2> HIDE DEF top
  <2> QED BY <1>1, <1>2, <2>1, <2>2
<1> QED BY <1>1, <1>2, <1>3

(* What comes before the next child has been passed.                       *)
LEMMA Ahead ==
  ASSUME NEW t, WellFormed(t), NEW w, Branch(t, w),
         NEW x \in Children(t, w[Len(w)].node), w[Len(w)].next <= Slot(t, x),
         \A d \in Children(t, w[Len(w)].node) :
           Slot(t, d) >= w[Len(w)].next => x <= d,
         NEW m \in DOMAIN t, m < x
  PROVE  Passed(t, w, m)
<1> SUFFICES ASSUME NEW i \in DOMAIN w, NEW c \in Children(t, w[i].node),
                    Slot(t, c) >= w[i].next
             PROVE  m < c
  BY DEF Passed
<1>1. t \in Seq(Node)
  BY DEF WellFormed
<1>2. Len(w) \in Nat /\ i \in Nat /\ i <= Len(w) /\ Len(w) \in DOMAIN w /\ i + 1 > i
  BY OnBranch
<1>3. m \in Nat /\ c \in Nat /\ x \in Nat /\ c \in DOMAIN t
  <2>1. c \in DOMAIN t /\ x \in DOMAIN t
    BY DEF Children
  <2> QED BY <2>1, TreeTypes
<1>4. CASE i = Len(w)
  BY <1>3, <1>4
<1>5. CASE i < Len(w)
  <2> DEFINE s == w[i + 1].node
  <2>1. /\ i + 1 \in DOMAIN w /\ s \in Nat
        /\ s \in Children(t, w[i].node) /\ Slot(t, s) = w[i].next - 1
        /\ w[i].next \in Nat /\ w[i].node \in DOMAIN t
        /\ t[w[i].node].depth = i
    BY <1>2, <1>5, OnBranch
  <2>2. s < c
    <3>1. Slot(t, s) \in Int /\ Slot(t, c) \in Int
      BY <1>1, SlotFacts, <2>1
    <3>2. Slot(t, s) < Slot(t, c)
      BY <2>1, <3>1
    <3> HIDE DEF s
    <3> QED BY <1>1, <2>1, <3>2, SlotFacts
  <2>3. t[c].depth = i + 1
    BY <2>1, Below
  <2>4. s < x /\ \A n \in s + 1 .. x : t[n].depth > i + 1
    BY <2>1, Inside
  <2>5. ~(c <= x)
    <3> HIDE DEF s
    <3> SUFFICES ASSUME c <= x PROVE FALSE
      OBVIOUS
    <3>1. c \in s + 1 .. x
      BY <1>3, <2>1, <2>2
    <3> QED BY <1>2, <2>3, <2>4, <3>1
  <2> QED BY <1>3, <2>5
<1> QED BY <1>2, <1>4, <1>5

(* Beyond a node that has just been entered nothing has been passed.       *)
LEMMA Reached ==
  ASSUME NEW t, WellFormed(t), NEW w, Branch(t, w), w[Len(w)].next = 0,
         NEW m \in DOMAIN t, Passed(t, w, m)
  PROVE  m <= w[Len(w)].node
<1> DEFINE last == w[Len(w)].node
           n    == last + 1
           p    == t[n].parent
           i    == t[p].depth
<1> SUFFICES ASSUME ~(m <= last) PROVE FALSE
  OBVIOUS
<1>1. Len(t) \in Nat /\ DOMAIN t = 1 .. Len(t) /\ t \in Seq(Node)
  BY TreeTypes DEF WellFormed
<1>2. /\ Len(w) \in Nat /\ Len(w) > 0 /\ Len(w) \in DOMAIN w /\ DOMAIN w = 1 .. Len(w)
      /\ last \in DOMAIN t /\ last \in Nat /\ t[last].depth = Len(w)
  BY OnBranch
<1>3. n \in DOMAIN t /\ n # 1 /\ n \in Nat /\ n <= m /\ m \in Nat
  <2> HIDE DEF last
  <2> QED BY <1>1, <1>2
<1>4. /\ p \in 1 .. last /\ p \in DOMAIN t /\ n \in Children(t, p)
      /\ \A q \in p + 1 .. last : t[q].depth > i
      /\ i \in Nat
  <2>1. p \in 1 .. n - 1
    BY <1>3 DEF WellFormed, Preorder
  <2>2. p \in 1 .. last /\ p \in DOMAIN t
    <3> HIDE DEF p, last
    <3> QED BY <1>1, <1>2, <2>1
  <2>3. n \in Children(t, p)
    BY <1>3 DEF Children
  <2>4. t[n].depth = i + 1 /\ \A q \in p + 1 .. n - 1 : t[q].depth >= t[n].depth
    <3> HIDE DEF p, n
    <3> QED BY <2>2, <2>3, Below
  <2>5. i \in Nat
    <3> HIDE DEF p
    <3> QED BY <2>2, TreeTypes
  <2>6. ASSUME NEW q \in p + 1 .. last PROVE t[q].depth > i
    <3>1. q \in p + 1 .. n - 1 /\ q \in DOMAIN t
      <4> HIDE DEF p, last
      <4> QED BY <1>1, <1>2, <2>2
    <3>2. t[q].depth \in Nat /\ t[q].depth >= i + 1
      <4> HIDE DEF p, i, n
      <4> QED BY <2>4, <3>1, TreeTypes
    <3> HIDE DEF i, p
    <3> QED BY <2>5, <3>2
  <2> QED BY <2>2, <2>3, <2>5, <2>6
<1>5. i \in DOMAIN w /\ p = w[i].node
  <2>1. CASE p = last
    BY <1>2, <2>1
  <2>2. CASE p # last
    <3>1. i < Len(w)
      <4>1. last \in p + 1 .. last
        <5> HIDE DEF p, last
        <5> QED BY <1>2, <1>4, <2>2
      <4> HIDE DEF i, last
      <4> QED BY <1>2, <1>4, <4>1
    <3>2. i > 0
      <4>1. p # 1 => /\ t[p].parent \in DOMAIN t
                     /\ t[p].depth = t[t[p].parent].depth + 1
        <5> HIDE DEF p, last, i
        <5>1. p # 1 => /\ t[p].parent \in 1 .. p - 1
                       /\ t[p].depth = t[t[p].parent].depth + 1
          BY <1>4 DEF WellFormed, Preorder
        <5>2. 1 .. p - 1 \subseteq DOMAIN t
          BY <1>1, <1>2, <1>4
        <5> QED BY <5>1, <5>2
      <4>2. p = 1 => i = 1
        <5> HIDE DEF p
        <5> QED BY <1>4 DEF WellFormed, Preorder
      <4>3. t[p].parent \in DOMAIN t => t[t[p].parent].depth \in Nat
        BY TreeTypes
      <4>4. i = 1 \/ \E d \in Nat : i = d + 1
        <5> HIDE DEF p
        <5> QED BY <4>1, <4>2, <4>3
      <4> HIDE DEF i
      <4> QED BY <4>4
    <3>3. i \in DOMAIN w
      <4> HIDE DEF i
      <4> QED BY <1>2, <1>4, <3>1, <3>2
    <3> DEFINE r == w[i].node
    <3>4. /\ r \in DOMAIN t /\ r \in Nat /\ t[r].depth = i /\ r <= last
          /\ \A q \in r + 1 .. last : t[q].depth > i
      <4> HIDE DEF i
      <4> QED BY <3>3, OnBranch
    <3>5. ~(p < r)
      <4> SUFFICES ASSUME p < r PROVE FALSE
        OBVIOUS
      <4> HIDE DEF p, r, last, i
      <4>1. r \in p + 1 .. last
        BY <1>4, <3>4
      <4>2. t[r].depth > i
        BY <1>4, <4>1
      <4> QED BY <1>4, <3>4, <4>2
    <3>6. ~(r < p)
      <4> SUFFICES ASSUME r < p PROVE FALSE
        OBVIOUS
      <4>1. p \in r + 1 .. last
        <5> HIDE DEF p, r, last, i
        <5> QED BY <1>2, <1>4, <3>4
      <4>2. i > i
        BY <3>4, <4>1
      <4> HIDE DEF i
      <4> QED BY <1>4, <4>2
    <3>7. p = r
      <4> HIDE DEF p, r, last, i
      <4> QED BY <1>2, <1>4, <3>4, <3>5, <3>6
    <3> QED BY <3>3, <3>7
  <2> QED BY <2>1, <2>2
<1>6. Slot(t, n) \in Nat
  <2>1. Slot(t, n) \in 0 .. Arity(t, p) - 1 /\ Arity(t, p) \in Nat
    <3> HIDE DEF n, p
    <3> QED BY <1>1, <1>4, SlotFacts
  <2> QED BY <2>1
<1>7. Slot(t, n) >= w[i].next
  <2>1. CASE i = Len(w)
    <3> HIDE DEF i, n
    <3> QED BY <1>6, <2>1
  <2>2. CASE i # Len(w)
    <3> HIDE DEF i, p, n, last
    <3>1. i < Len(w) /\ i + 1 \in DOMAIN w
      BY <1>2, <1>5, <2>2
    <3>2. /\ w[i + 1].node \in Children(t, p)
          /\ Slot(t, w[i + 1].node) = w[i].next - 1
          /\ w[i].next \in Nat
          /\ w[i + 1].node <= last /\ w[i + 1].node \in Nat
      BY <1>5, <3>1, OnBranch DEF last
    <3>3. w[i + 1].node < n
      BY <1>2, <3>2 DEF n
    <3>4. Slot(t, w[i + 1].node) < Slot(t, n)
      BY <1>1, <1>4, <3>2, <3>3, SlotFacts
    <3> QED BY <1>6, <3>2, <3>4
  <2> QED BY <2>1, <2>2
<1>8. m < n
  <2> HIDE DEF i, p, n
  <2> QED BY <1>4, <1>5, <1>7 DEF Passed
<1> HIDE DEF n
<1> QED BY <1>3, <1>8

-----------------------------------------------------------------------------
(* The steps of the walk.                                                  *)

(* The activation f as it is in the branch once the child x has its turn.  *)
Passing(t, w, f, x) ==
  /\ f \in Activation
  /\ f.node = w[Len(w)].node /\ f.path = w[Len(w)].path
  /\ f.next = Slot(t, x) + 1
  /\ t[f.node].kind = "mapping" =>
       /\ f.next % 2 = 0
       /\ f.keys = {t[m].scalar : m \in {k \in Children(t, f.node) :
                                           IsKey(t, k) /\ Slot(t, k) < f.next}}

Descended(w, f, x, path) == Append([w EXCEPT ![Len(w)] = f], Enter(x, path))

(* The descent, activation by activation.                                  *)
LEMMA DescendedIs ==
  ASSUME NEW t, WellFormed(t), NEW w, Branch(t, w), NEW x, NEW path,
         NEW f \in Activation, Enter(x, path) \in Activation
  PROVE  LET v == Descended(w, f, x, path)
         IN  /\ v \in Seq(Activation) /\ v # << >>
             /\ Len(v) = Len(w) + 1 /\ DOMAIN v = 1 .. Len(w) + 1
             /\ \A i \in 1 .. Len(w) : v[i] = IF i = Len(w) THEN f ELSE w[i]
             /\ v[Len(w) + 1] = Enter(x, path)
<1> DEFINE u == [w EXCEPT ![Len(w)] = f]
           v == Append(u, Enter(x, path))
<1>1. Len(w) \in Nat /\ Len(w) \in 1 .. Len(w) /\ w \in Seq(Activation)
  BY OnBranch DEF Branch
<1>2. /\ u \in Seq(Activation) /\ Len(u) = Len(w)
      /\ \A i \in 1 .. Len(w) : u[i] = IF i = Len(w) THEN f ELSE w[i]
  BY <1>1, ExceptSeq
<1> HIDE DEF u
<1>3. /\ v \in Seq(Activation) /\ v # << >> /\ Len(v) = Len(u) + 1
      /\ \A i \in 1 .. Len(u) : v[i] = u[i]
      /\ v[Len(u) + 1] = Enter(x, path)
  BY <1>2, AppendProperties
<1>4. DOMAIN v = 1 .. Len(v)
  BY <1>3, LenProperties
<1>5. v = Descended(w, f, x, path)
  BY DEF Descended, u
<1> HIDE DEF v
<1> QED BY <1>1, <1>2, <1>3, <1>4, <1>5

(* A branch that descends to the next child of its last node is a branch.  *)
LEMMA Descend ==
  ASSUME NEW t, WellFormed(t), NEW w, Branch(t, w),
         NEW x \in Children(t, w[Len(w)].node), NEW f, Passing(t, w, f, x),
         NEW path, path = PathOf(t)[x], Enter(x, path) \in Activation
  PROVE  Branch(t, Descended(w, f, x, path))
<1> DEFINE v == Descended(w, f, x, path)
           L == Len(w)
<1>1. /\ v \in Seq(Activation) /\ v # << >>
      /\ Len(v) = L + 1 /\ DOMAIN v = 1 .. L + 1
      /\ \A i \in 1 .. L : v[i] = IF i = L THEN f ELSE w[i]
      /\ v[L + 1] = Enter(x, path)
  BY DescendedIs DEF Passing
<1>2. L \in Nat /\ L > 0 /\ L \in DOMAIN w /\ DOMAIN w = 1 .. L
  BY OnBranch
<1>3. /\ x \in DOMAIN t /\ t[x].depth = L + 1 /\ t[x].parent = w[L].node
      /\ t \in Seq(Node)
  <2>1. w[L].node \in DOMAIN t /\ t[w[L].node].depth = L
    BY <1>2, OnBranch
  <2> QED BY <2>1, Below DEF Children, WellFormed
<1>4. /\ v[L + 1].node = x /\ v[L + 1].next = 0 /\ v[L + 1].keys = {}
      /\ v[L + 1].path = path
  BY <1>1 DEF Enter
<1>5. \A i \in 1 .. L : v[i].node = w[i].node /\ v[i].path = w[i].path
  BY <1>1 DEF Passing
<1>6. \A m \in Children(t, x) : Slot(t, m) \in Nat
  <2>1. \A m \in Children(t, x) : Slot(t, m) \in 0 .. Arity(t, x) - 1 /\ Arity(t, x) \in Nat
    BY <1>3, SlotFacts
  <2> QED BY <2>1
<1>7. Arity(t, x) \in Nat /\ Slot(t, x) \in 0 .. Arity(t, w[L].node) - 1
      /\ Arity(t, w[L].node) \in Nat
  BY <1>3, SlotFacts
<1> HIDE DEF v, L
<1>8. ASSUME NEW i \in DOMAIN v PROVE i \in 1 .. L \/ i = L + 1
  BY <1>1, <1>2
<1>9. TracksKeys(t, v)
  <2> SUFFICES ASSUME NEW i \in DOMAIN v
               PROVE  /\ t[v[i].node].depth = i
                      /\ v[i].path = PathOf(t)[v[i].node]
                      /\ i > 1 => t[v[i].node].parent = v[i - 1].node
                      /\ t[v[i].node].kind = "mapping" =>
                           v[i].keys = {t[m].scalar : m \in
                             {k \in Children(t, v[i].node) :
                                IsKey(t, k) /\ Slot(t, k) < v[i].next}}
    BY DEF TracksKeys
  <2>1. CASE i = L + 1
    <3>1. v[(L + 1) - 1].node = w[L].node
      BY <1>2, <1>5
    <3>2. {k \in Children(t, x) : IsKey(t, k) /\ Slot(t, k) < 0} = {}
      BY <1>6
    <3> QED BY <1>3, <1>4, <2>1, <3>1, <3>2
  <2>2. CASE i \in 1 .. L
    <3>1. t[w[i].node].depth = i /\ w[i].path = PathOf(t)[w[i].node]
      BY <1>2, <2>2, OnBranch
    <3>2. i > 1 => t[w[i].node].parent = v[i - 1].node
      <4>1. i > 1 => t[w[i].node].parent = w[i - 1].node
        BY <1>2, <2>2 DEF Branch, TracksKeys
      <4>2. i > 1 => i - 1 \in 1 .. L
        BY <1>2, <2>2
      <4> QED BY <1>5, <4>1, <4>2
    <3>3. CASE i = L
      <4>1. v[i] = f
        BY <1>1, <1>2, <3>3
      <4>2. t[f.node].kind = "mapping" =>
              f.keys = {t[m].scalar : m \in {k \in Children(t, f.node) :
                                               IsKey(t, k) /\ Slot(t, k) < f.next}}
        BY DEF Passing
      <4> QED BY <1>5, <2>2, <3>1, <3>2, <4>1, <4>2
    <3>4. CASE i # L
      <4>1. v[i] = w[i]
        BY <1>1, <2>2, <3>4
      <4> QED BY <1>2, <2>2, <3>1, <3>2, <4>1 DEF Branch, TracksKeys
    <3> QED BY <3>3, <3>4
  <2> QED BY <1>8, <2>1, <2>2
<1>10. FollowsTree(t, v)
  <2>1. v[Len(v)].node = x
    BY <1>1, <1>4
  <2> SUFFICES ASSUME NEW i \in DOMAIN v
               PROVE  /\ v[i].node \in DOMAIN t
                      /\ i = 1 => v[i].node = 1
                      /\ v[i].next \in 0 .. Arity(t, v[i].node)
                      /\ t[v[i].node].kind = "mapping" => v[i].next % 2 = 0
                      /\ i < L + 1 => Slot(t, v[i + 1].node) = v[i].next - 1
                      /\ \A n \in v[i].node + 1 .. x : t[n].depth > i
                      /\ \A j \in DOMAIN v : i < j => v[i].node < v[j].node
    BY <1>1, <2>1 DEF FollowsTree
  <2>2. CASE i = L + 1
    <3>1. i # 1 /\ ~(i < L + 1) /\ \A j \in DOMAIN v : ~(i < j)
      BY <1>1, <1>2, <2>2
    <3>2. x \in Nat /\ x + 1 .. x = {}
      <4>1. x \in Nat
        BY <1>3, TreeTypes
      <4> QED BY <4>1
    <3>3. 0 \in 0 .. Arity(t, x) /\ 0 % 2 = 0
      BY <1>7
    <3> QED BY <1>3, <1>4, <2>2, <3>1, <3>2, <3>3
  <2>3. CASE i \in 1 .. L
    <3>1. /\ w[i].node \in DOMAIN t /\ (i = 1 => w[i].node = 1)
          /\ w[i].node < x
          /\ \A n \in w[i].node + 1 .. x : t[n].depth > i
      BY <1>2, <2>3, Inside DEF Branch, FollowsTree, L
    <3>2. ASSUME NEW j \in DOMAIN v, i < j PROVE v[i].node < v[j].node
      <4>1. CASE j = L + 1
        BY <1>4, <1>5, <2>3, <3>1, <4>1
      <4>2. CASE j \in 1 .. L
        BY <1>2, <1>5, <2>3, <3>2, <4>2 DEF Branch, FollowsTree
      <4> QED BY <1>8, <4>1, <4>2
    <3>3. CASE i = L
      <4>1. v[i] = f
        BY <1>1, <1>2, <3>3
      <4>2. /\ f.node = w[L].node /\ f.next = Slot(t, x) + 1
            /\ t[f.node].kind = "mapping" => f.next % 2 = 0
        BY DEF Passing, L
      <4>3. f.next \in 0 .. Arity(t, w[L].node)
        BY <1>7, <4>2
      <4>4. Slot(t, v[L + 1].node) = f.next - 1
        BY <1>4, <1>7, <4>2
      <4> QED BY <1>2, <1>5, <2>3, <3>1, <3>2, <3>3, <4>1, <4>2, <4>3, <4>4
    <3>4. CASE i # L
      <4>1. v[i] = w[i] /\ i < L /\ i + 1 \in 1 .. L
        BY <1>1, <1>2, <2>3, <3>4
      <4>2. /\ w[i].next \in 0 .. Arity(t, w[i].node)
            /\ t[w[i].node].kind = "mapping" => w[i].next % 2 = 0
            /\ Slot(t, w[i + 1].node) = w[i].next - 1
        BY <1>2, <2>3, <4>1 DEF Branch, FollowsTree, L
      <4>3. v[i + 1].node = w[i + 1].node
        BY <1>5, <4>1
      <4> QED BY <3>1, <3>2, <4>1, <4>2, <4>3
    <3> QED BY <3>3, <3>4
  <2> QED BY <1>8, <2>2, <2>3
<1> QED BY <1>1, <1>9, <1>10 DEF Branch, v

(* What a descent to x has passed comes before x, or is x.                 *)
LEMMA DescendedReach ==
  ASSUME NEW t, WellFormed(t), NEW w, Branch(t, w),
         NEW x \in Children(t, w[Len(w)].node), NEW f, Passing(t, w, f, x),
         NEW path, path = PathOf(t)[x], Enter(x, path) \in Activation,
         NEW m \in DOMAIN t, Passed(t, Descended(w, f, x, path), m)
  PROVE  m <= x
<1> DEFINE v == Descended(w, f, x, path)
<1>1. Branch(t, v)
  BY Descend
<1>2. Len(v) = Len(w) + 1 /\ v[Len(w) + 1] = Enter(x, path)
  BY DescendedIs DEF Passing
<1>3. v[Len(v)].next = 0 /\ v[Len(v)].node = x
  BY <1>2 DEF Enter
<1> HIDE DEF v
<1>4. Passed(t, v, m)
  BY DEF v
<1> QED BY <1>1, <1>3, <1>4, Reached

(* The key and the value that are next in a mapping.                       *)
LEMMA NextPair ==
  ASSUME NEW t, WellFormed(t), NEW w, Branch(t, w),
         t[w[Len(w)].node].kind = "mapping",
         w[Len(w)].next < Arity(t, w[Len(w)].node)
  PROVE  LET p     == w[Len(w)].node
             key   == Child(t, p, w[Len(w)].next)
             value == Child(t, p, w[Len(w)].next + 1)
         IN  /\ p \in DOMAIN t /\ w[Len(w)].next % 2 = 0
             /\ key \in Children(t, p) /\ Slot(t, key) = w[Len(w)].next
             /\ IsKey(t, key)
             /\ value \in Children(t, p) /\ Slot(t, value) = w[Len(w)].next + 1
             /\ ~IsKey(t, value)
<1> DEFINE top   == w[Len(w)]
           p     == top.node
           key   == Child(t, p, top.next)
           value == Child(t, p, top.next + 1)
<1>1. /\ p \in DOMAIN t /\ p \in Nat /\ p # 0 /\ top.next \in Nat
      /\ t \in Seq(Node)
  <2>1. p \in DOMAIN t /\ p \in Nat /\ top.next \in Nat /\ DOMAIN t = 1 .. Len(t)
    BY OnBranch, TreeTypes
  <2> HIDE DEF top
  <2> QED BY <2>1 DEF WellFormed
<1>2. top.next % 2 = 0 /\ Arity(t, p) % 2 = 0 /\ Arity(t, p) \in Nat
  <2>1. Len(w) \in DOMAIN w
    BY OnBranch
  <2>2. top.next % 2 = 0
    BY <2>1 DEF Branch, FollowsTree
  <2>3. Arity(t, p) % 2 = 0
    BY <1>1 DEF WellFormed
  <2> QED BY <1>1, <2>2, <2>3, SlotFacts
<1>3. top.next < Arity(t, p)
  OBVIOUS
<1> HIDE DEF top, p
<1>4. top.next \in 0 .. Arity(t, p) - 1 /\ top.next + 1 \in 0 .. Arity(t, p) - 1
  BY <1>1, <1>2, <1>3
<1>5. /\ key \in Children(t, p) /\ Slot(t, key) = top.next
      /\ value \in Children(t, p) /\ Slot(t, value) = top.next + 1
  BY <1>1, <1>4, SlotFacts
<1>6. t[key].parent = p /\ t[value].parent = p /\ t[p].kind = "mapping"
  BY <1>5 DEF Children, p, top
<1>7. (top.next + 1) % 2 # 0
  BY <1>1, <1>2
<1>8. IsKey(t, key) /\ ~IsKey(t, value)
  <2> HIDE DEF key, value
  <2> QED BY <1>1, <1>2, <1>5, <1>6, <1>7 DEF IsKey, InMapping
<1> QED BY <1>1, <1>2, <1>5, <1>8 DEF p, top

(* A defect is a key that is not a scalar, merges, or repeats one.         *)
LEMMA DefectsAre ==
  ASSUME NEW t, NEW n
  PROVE  n \in AllDefects(t) <=>
           /\ n \in DOMAIN t /\ IsKey(t, n)
           /\ \/ t[n].kind # "scalar"
              \/ t[n].scalar = MergeKey
              \/ Repeats(t, n)
<1>1. n \in AllDefects(t) <=> \E code \in DefectCodes : n \in Defects(t, code)
  BY DEF AllDefects
<1>2. n \in Defects(t, "invalid_type") <=>
        n \in DOMAIN t /\ IsKey(t, n) /\ t[n].kind # "scalar"
  BY DEF Defects
<1>3. n \in Defects(t, "unsupported_feature") <=>
        /\ n \in DOMAIN t /\ IsKey(t, n)
        /\ t[n].kind = "scalar" /\ t[n].scalar = MergeKey
  BY DEF Defects
<1>4. n \in Defects(t, "duplicate_key") <=>
        /\ n \in DOMAIN t /\ IsKey(t, n)
        /\ t[n].kind = "scalar" /\ t[n].scalar # MergeKey /\ Repeats(t, n)
  BY DEF Defects
<1>5. n \in AllDefects(t) <=> \/ n \in Defects(t, "invalid_type")
                              \/ n \in Defects(t, "unsupported_feature")
                              \/ n \in Defects(t, "duplicate_key")
  BY <1>1 DEF DefectCodes
<1> QED BY <1>2, <1>3, <1>4, <1>5

(* The keys held tell whether the next key repeats one.                    *)
LEMMA KeysTell ==
  ASSUME NEW t, WellFormed(t), NEW w, Branch(t, w), PassesSound(t, w),
         t[w[Len(w)].node].kind = "mapping",
         w[Len(w)].next < Arity(t, w[Len(w)].node),
         NEW key, key = Child(t, w[Len(w)].node, w[Len(w)].next)
  PROVE  /\ \A m \in AllDefects(t) : key <= m
         /\ t[key].scalar \in w[Len(w)].keys <=> Repeats(t, key)
<1> DEFINE top == w[Len(w)]
           p   == top.node
<1>1. /\ key \in Children(t, p) /\ Slot(t, key) = top.next /\ IsKey(t, key)
      /\ p \in DOMAIN t /\ t \in Seq(Node)
  BY NextPair DEF WellFormed
<1>2. Len(w) \in DOMAIN w /\ top.next \in Nat /\ DOMAIN t = 1 .. Len(t)
  BY OnBranch, TreeTypes
<1>3. key \in DOMAIN t /\ key \in Nat /\ t[key].parent = p
  BY <1>1, <1>2 DEF Children
<1>4. \A d \in Children(t, p) : Slot(t, d) \in Nat /\ d \in DOMAIN t /\ d \in Nat
  <2>1. \A d \in Children(t, p) : Slot(t, d) \in 0 .. Arity(t, p) - 1 /\ Arity(t, p) \in Nat
    BY <1>1, SlotFacts
  <2>2. \A d \in Children(t, p) : d \in DOMAIN t
    BY DEF Children
  <2> QED BY <1>2, <2>1, <2>2
<1>5. \A d \in Children(t, p) : d < key <=> Slot(t, d) < top.next
  <2> HIDE DEF p, top
  <2> QED BY <1>1, SlotFacts
<1>6. ASSUME NEW m \in AllDefects(t), ~(key <= m) PROVE FALSE
  <2>1. m \in DOMAIN t /\ m \in Nat
    BY <1>2, DefectsAre
  <2>2. m < key
    BY <1>3, <1>6, <2>1
  <2>3. \A d \in Children(t, p) : Slot(t, d) >= top.next => key <= d
    <3> HIDE DEF p, top
    <3> QED BY <1>2, <1>3, <1>4, <1>5
  <2>4. top.next <= Slot(t, key)
    BY <1>1, <1>2
  <2>5. Passed(t, w, m)
    BY <1>1, <2>1, <2>2, <2>3, <2>4, Ahead
  <2> QED BY <2>5 DEF PassesSound
<1>7. top.keys = {t[m].scalar : m \in {k \in Children(t, p) :
                                         IsKey(t, k) /\ Slot(t, k) < top.next}}
  BY <1>2 DEF Branch, TracksKeys
<1>8. ASSUME NEW m \in Children(t, p), IsKey(t, m), Slot(t, m) < top.next,
             t[m].scalar = t[key].scalar
      PROVE  Repeats(t, key)
  <2>1. m < key /\ m \in DOMAIN t /\ m \in Nat /\ m \in 1 .. key - 1
    <3> HIDE DEF p, top
    <3> QED BY <1>2, <1>3, <1>4, <1>5, <1>8
  <2>2. m \notin AllDefects(t)
    BY <1>3, <1>6, <2>1
  <2>3. t[m].kind = "scalar"
    BY <1>8, <2>1, <2>2, DefectsAre
  <2>4. t[m].parent = t[key].parent
    BY <1>3 DEF Children
  <2> QED BY <1>1, <1>8, <2>1, <2>3, <2>4 DEF Repeats, Siblings
<1>9. ASSUME Repeats(t, key)
      PROVE  \E m \in Children(t, p) : /\ IsKey(t, m) /\ Slot(t, m) < top.next
                                       /\ t[m].scalar = t[key].scalar
  <2>1. PICK m \in 1 .. key - 1 : Siblings(t, m, key) /\ t[m].scalar = t[key].scalar
    BY <1>9 DEF Repeats
  <2>2. m \in DOMAIN t /\ m < key
    BY <1>2, <1>3, TreeTypes
  <2>3. m \in Children(t, p) /\ IsKey(t, m)
    BY <1>3, <2>1, <2>2 DEF Siblings, Children
  <2>4. Slot(t, m) < top.next
    <3> HIDE DEF p, top
    <3> QED BY <1>5, <2>2, <2>3
  <2> QED BY <2>1, <2>3, <2>4
<1>10. t[key].scalar \in top.keys <=> Repeats(t, key)
  <2> HIDE DEF p, top
  <2> QED BY <1>7, <1>8, <1>9
<1> QED BY <1>6, <1>10

(* A path of a child has the type of a path.                               *)
LEMMA PathTypes ==
  ASSUME NEW a \in Activation
  PROVE  /\ a.node \in Nat /\ a.next \in Nat
         /\ \A n \in Nat, i \in Nat : Enter(n, ItemPath(a.path, i)) \in Activation
         /\ \A n \in Nat, key \in Scalars \union {""} :
              Enter(n, ChildPath(a.path, key)) \in Activation
<1> DEFINE P == ({"item"} \X Nat) \union ({"key"} \X (Scalars \union {""}))
<1>1. a.node \in Nat /\ a.next \in Nat /\ a.path \in Seq(P)
  BY DEF Activation
<1>2. \A i \in Nat : <<"item", i>> \in P
  OBVIOUS
<1>3. \A key \in Scalars \union {""} : <<"key", key>> \in P
  OBVIOUS
<1>4. ASSUME NEW n \in Nat, NEW path \in Seq(P) PROVE Enter(n, path) \in Activation
  <2>1. {} \in SUBSET (Scalars \union {""}) /\ 0 \in Nat
    OBVIOUS
  <2> HIDE DEF P
  <2>2. path \in Seq(({"item"} \X Nat) \union ({"key"} \X (Scalars \union {""})))
    BY DEF P
  <2> QED BY <2>1, <2>2 DEF Enter, Activation
<1> HIDE DEF P
<1>5. \A i \in Nat : ItemPath(a.path, i) \in Seq(P)
  BY <1>1, <1>2, AppendProperties DEF ItemPath
<1>6. \A key \in Scalars \union {""} : ChildPath(a.path, key) \in Seq(P)
  <2>1. \A key \in Scalars \union {""} : Append(a.path, <<"key", key>>) \in Seq(P)
    BY <1>1, <1>3, AppendProperties
  <2>2. << >> \in Seq(P)
    BY EmptySeq
  <2> QED BY <2>1, <2>2 DEF ChildPath, Root
<1> QED BY <1>1, <1>4, <1>5, <1>6

(* An activation that moves on, past an item or past a pair.               *)
LEMMA PastItem ==
  ASSUME NEW a \in Activation, NEW i \in Nat
  PROVE  /\ [a EXCEPT !.next = i] \in Activation
         /\ [a EXCEPT !.next = i].node = a.node
         /\ [a EXCEPT !.next = i].path = a.path
         /\ [a EXCEPT !.next = i].next = i
<1> DEFINE K == SUBSET (Scalars \union {""})
           P == Seq(({"item"} \X Nat) \union ({"key"} \X (Scalars \union {""})))
<1>1. Activation = [node : Nat, next : Nat, keys : K, path : P]
  BY DEF Activation
<1> HIDE DEF K, P
<1> QED BY <1>1

(* An activation that goes past a pair is one, with one key more.         *)
LEMMA PastPair ==
  ASSUME NEW a \in Activation, NEW i \in Nat, NEW key \in Scalars \union {""}
  PROVE  LET f == [a EXCEPT !.next = i, !.keys = a.keys \union {key}]
         IN  /\ f \in Activation /\ f.node = a.node /\ f.path = a.path
             /\ f.next = i /\ f.keys = a.keys \union {key}
<1> DEFINE K == SUBSET (Scalars \union {""})
           P == Seq(({"item"} \X Nat) \union ({"key"} \X (Scalars \union {""})))
           new == a.keys \union {key}
<1>1. Activation = [node : Nat, next : Nat, keys : K, path : P]
  BY DEF Activation
<1>2. a.keys \in K
  <2> HIDE DEF K, P
  <2> QED BY <1>1
<1>3. new \in K
  BY <1>2
<1> HIDE DEF K, P, new
<1>4. /\ [a EXCEPT !.next = i, !.keys = new] \in Activation
      /\ [a EXCEPT !.next = i, !.keys = new].node = a.node
      /\ [a EXCEPT !.next = i, !.keys = new].path = a.path
      /\ [a EXCEPT !.next = i, !.keys = new].next = i
      /\ [a EXCEPT !.next = i, !.keys = new].keys = new
  BY <1>1, <1>3
<1> QED BY <1>4 DEF new

(* The visit of the next item of a sequence.                               *)
LEMMA ItemSound ==
  ASSUME NEW t, WellFormed(t), NEW w, WalkSound(t, w), w # << >>,
         t[w[Len(w)].node].kind = "sequence",
         w[Len(w)].next < Arity(t, w[Len(w)].node)
  PROVE  LET top == w[Len(w)]
             x   == Child(t, top.node, top.next)
         IN  WalkSound(t, Descended(w, [top EXCEPT !.next = @ + 1], x,
                                    ItemPath(top.path, top.next)))
<1> DEFINE top  == w[Len(w)]
           p    == top.node
           x    == Child(t, p, top.next)
           f    == [top EXCEPT !.next = @ + 1]
           path == ItemPath(top.path, top.next)
           v    == Descended(w, f, x, path)
<1>1. Branch(t, w) /\ PassesSound(t, w)
  BY DEF WalkSound, Branch
<1>2. /\ top \in Activation /\ top.next \in Nat /\ p \in DOMAIN t /\ p \in Nat
      /\ top.path = PathOf(t)[p] /\ t \in Seq(Node) /\ DOMAIN t = 1 .. Len(t)
      /\ t[p].kind = "sequence" /\ top.next < Arity(t, p)
  BY <1>1, OnBranch, TreeTypes DEF WellFormed
<1>3. /\ f \in Activation /\ f.node = p /\ f.path = top.path
      /\ f.next = top.next + 1
  <2> HIDE DEF top, p
  <2>1. f \in Activation /\ f.node = top.node /\ f.path = top.path /\ f.next = top.next + 1
    <3>1. top.next + 1 \in Nat
      BY <1>2
    <3> QED BY <1>2, <3>1, PastItem
  <2> QED BY <2>1 DEF p
<1> HIDE DEF f, top
<1>4. x \in Children(t, p) /\ Slot(t, x) = top.next
  <2> HIDE DEF p
  <2>1. Arity(t, p) \in Nat
    BY <1>2, SlotFacts
  <2>2. top.next \in 0 .. Arity(t, p) - 1
    BY <1>2, <2>1
  <2> QED BY <1>2, <2>2, SlotFacts
<1> HIDE DEF x
<1>5. x \in DOMAIN t /\ x \in Nat /\ t[x].parent = p /\ p # 0
  BY <1>2, <1>4 DEF Children
<1>6. Passing(t, w, f, x)
  BY <1>2, <1>3, <1>4 DEF Passing, top
<1>7. path = PathOf(t)[x]
  <2>1. PathOf(t)[x] = PathStep(t, PathOf(t), x)
    BY <1>5, PathEquation
  <2> QED BY <1>2, <1>4, <1>5, <2>1 DEF PathStep
<1>8. Enter(x, path) \in Activation
  BY <1>2, <1>5, PathTypes
<1>9. x \in Children(t, w[Len(w)].node)
  BY <1>4 DEF top
<1> HIDE DEF path, p
<1>10. Branch(t, v)
  BY <1>1, <1>6, <1>7, <1>8, <1>9, Descend
<1>11. ASSUME NEW m \in AllDefects(t), Passed(t, v, m) PROVE FALSE
  <2>1. m \in DOMAIN t /\ m \in Nat /\ IsKey(t, m)
    BY <1>2, DefectsAre
  <2>2. m <= x
    BY <1>1, <1>6, <1>7, <1>8, <1>9, <1>11, <2>1, DescendedReach
  <2>3. CASE m = x
    BY <1>2, <1>5, <2>1, <2>3 DEF IsKey, InMapping
  <2>4. CASE m # x
    <3>1. m < x
      BY <1>5, <2>1, <2>2, <2>4
    <3>2. \A d \in Children(t, p) : Slot(t, d) >= top.next => x <= d
      <4>1. SUFFICES ASSUME NEW d \in Children(t, p), Slot(t, d) >= top.next, ~(x <= d)
                     PROVE  FALSE
        OBVIOUS
      <4>2. d \in DOMAIN t /\ d \in Nat
        BY <1>2 DEF Children
      <4>3. d < x
        BY <1>5, <4>1, <4>2
      <4>4. Slot(t, d) < Slot(t, x) /\ Slot(t, d) \in Int
        <5>1. Slot(t, d) \in 0 .. Arity(t, p) - 1 /\ Arity(t, p) \in Nat
          BY <1>2, SlotFacts
        <5> QED BY <1>2, <1>4, <4>3, <5>1, SlotFacts
      <4> QED BY <1>2, <1>4, <4>1, <4>4
    <3>3. top.next <= Slot(t, x)
      BY <1>2, <1>4
    <3>4. Passed(t, w, m)
      BY <1>1, <1>9, <2>1, <3>1, <3>2, <3>3, Ahead DEF top, p
    <3> QED BY <1>1, <3>4 DEF PassesSound
  <2> QED BY <2>3, <2>4
<1>12. WalkSound(t, v)
  BY <1>10, <1>11 DEF WalkSound, Branch, PassesSound
<1> QED BY <1>12 DEF v, f, x, path, p, top

(* Between a key that is a scalar and its value there is no node.          *)
LEMMA Between ==
  ASSUME NEW t, WellFormed(t), NEW p \in DOMAIN t,
         NEW key \in Children(t, p), NEW value \in Children(t, p),
         t[key].kind = "scalar", Slot(t, value) = Slot(t, key) + 1
  PROVE  value = key + 1
<1> DEFINE n == key + 1
           q == t[n].parent
<1>1. Len(t) \in Nat /\ DOMAIN t = 1 .. Len(t) /\ t \in Seq(Node)
  BY TreeTypes DEF WellFormed
<1>2. /\ key \in DOMAIN t /\ key \in Nat /\ value \in DOMAIN t /\ value \in Nat
      /\ p \in Nat /\ t[p].depth \in Nat
  BY <1>1, TreeTypes DEF Children
<1>3. /\ p < key
      /\ t[key].depth = t[p].depth + 1 /\ t[value].depth = t[p].depth + 1
      /\ \A k \in p + 1 .. value - 1 : t[k].depth >= t[p].depth + 1
  <2>1. p \in 1 .. key - 1 /\ t[key].depth = t[p].depth + 1
    BY Below
  <2>2. /\ t[value].depth = t[p].depth + 1
        /\ \A k \in p + 1 .. value - 1 : t[k].depth >= t[value].depth
    BY Below
  <2> QED BY <1>2, <2>1, <2>2
<1>4. key < value
  <2>1. Slot(t, key) \in Int
    <3>1. Slot(t, key) \in 0 .. Arity(t, p) - 1 /\ Arity(t, p) \in Nat
      BY <1>1, SlotFacts
    <3> QED BY <3>1
  <2>2. Slot(t, key) < Slot(t, value)
    BY <2>1
  <2> QED BY <1>1, <2>2, SlotFacts
<1> SUFFICES ASSUME n < value PROVE FALSE
  BY <1>2, <1>4
<1>5. n \in DOMAIN t /\ n \in Nat /\ n # 1 /\ n \in p + 1 .. value - 1
  BY <1>1, <1>2, <1>3
<1>6. /\ q \in 1 .. key /\ t[q].kind \in Collections
      /\ t[n].depth = t[q].depth + 1
      /\ \A k \in q + 1 .. key : t[k].depth >= t[n].depth
  <2>1. /\ q \in 1 .. n - 1 /\ t[q].kind \in Collections
        /\ t[n].depth = t[q].depth + 1
        /\ \A k \in q + 1 .. n - 1 : t[k].depth >= t[n].depth
    <3> HIDE DEF n
    <3> QED BY <1>5 DEF WellFormed, Preorder
  <2>2. n - 1 = key
    BY <1>2
  <2> HIDE DEF q, n
  <2> QED BY <2>1, <2>2
<1>7. q # key /\ q \in DOMAIN t /\ q \in Nat /\ t[q].depth \in Nat /\ t[n].depth \in Nat
  <2>1. q # key
    <3> HIDE DEF q
    <3> QED BY <1>6 DEF Collections
  <2>2. q \in DOMAIN t /\ q \in Nat
    <3> HIDE DEF q
    <3> QED BY <1>1, <1>2, <1>6
  <2>3. t[q].depth \in Nat /\ t[n].depth \in Nat
    <3> HIDE DEF q, n
    <3> QED BY <1>5, <2>2, TreeTypes
  <2> QED BY <2>1, <2>2, <2>3
<1> HIDE DEF q, n
<1>8. t[n].depth = t[p].depth + 1 /\ t[q].depth = t[p].depth
  <2>1. t[n].depth >= t[p].depth + 1
    BY <1>3, <1>5
  <2>2. key \in q + 1 .. key
    BY <1>2, <1>6, <1>7
  <2>3. t[key].depth >= t[n].depth
    BY <1>6, <2>2
  <2> QED BY <1>2, <1>3, <1>6, <1>7, <2>1, <2>3
<1>9. q = p
  <2>1. ~(q < p)
    <3> SUFFICES ASSUME q < p PROVE FALSE
      OBVIOUS
    <3>1. p \in q + 1 .. key
      BY <1>2, <1>3, <1>7
    <3>2. t[p].depth >= t[n].depth
      BY <1>6, <3>1
    <3> QED BY <1>2, <1>8, <3>2
  <2>2. ~(p < q)
    <3> SUFFICES ASSUME p < q PROVE FALSE
      OBVIOUS
    <3>1. q \in p + 1 .. value - 1
      BY <1>2, <1>4, <1>6, <1>7
    <3>2. t[q].depth >= t[p].depth + 1
      BY <1>3, <3>1
    <3> QED BY <1>2, <1>8, <3>2
  <2> QED BY <1>2, <1>7, <2>1, <2>2
<1>10. n \in Children(t, p) /\ key < n
  BY <1>2, <1>5, <1>9 DEF Children, q, n
<1>11. Slot(t, key) < Slot(t, n) /\ Slot(t, n) < Slot(t, value)
  BY <1>1, <1>10, SlotFacts
<1>12. Slot(t, key) \in Int /\ Slot(t, n) \in Int
  <2>1. /\ Slot(t, key) \in 0 .. Arity(t, p) - 1 /\ Slot(t, n) \in 0 .. Arity(t, p) - 1
        /\ Arity(t, p) \in Nat
    BY <1>1, <1>10, SlotFacts
  <2> QED BY <2>1
<1> QED BY <1>11, <1>12

(* The children in the order of their slots: none before x is to come.     *)
LEMMA FromSlot ==
  ASSUME NEW t, WellFormed(t), NEW p, NEW x \in Children(t, p),
         NEW d \in Children(t, p), Slot(t, d) >= Slot(t, x)
  PROVE  x <= d
<1>1. t \in Seq(Node) /\ DOMAIN t = 1 .. Len(t)
  BY TreeTypes DEF WellFormed
<1>2. d \in Nat /\ x \in Nat
  BY <1>1 DEF Children
<1>3. Slot(t, d) \in Int /\ Slot(t, x) \in Int
  <2>1. /\ Slot(t, d) \in 0 .. Arity(t, p) - 1 /\ Slot(t, x) \in 0 .. Arity(t, p) - 1
        /\ Arity(t, p) \in Nat
    BY <1>1, SlotFacts
  <2> QED BY <2>1
<1>4. d < x => Slot(t, d) < Slot(t, x)
  BY <1>1, SlotFacts
<1> QED BY <1>2, <1>3, <1>4

(* The visit of the next pair of a mapping, whose key is not a defect.     *)
LEMMA PairSound ==
  ASSUME NEW t, WellFormed(t), NEW w, WalkSound(t, w), w # << >>,
         t[w[Len(w)].node].kind = "mapping",
         w[Len(w)].next < Arity(t, w[Len(w)].node),
         Child(t, w[Len(w)].node, w[Len(w)].next) \notin AllDefects(t)
  PROVE  LET top    == w[Len(w)]
             scalar == t[Child(t, top.node, top.next)].scalar
             value  == Child(t, top.node, top.next + 1)
         IN  WalkSound(t, Descended(w,
               [top EXCEPT !.next = @ + 2, !.keys = @ \union {scalar}],
               value, ChildPath(top.path, scalar)))
<1> DEFINE top    == w[Len(w)]
           p      == top.node
           key    == Child(t, p, top.next)
           scalar == t[key].scalar
           x      == Child(t, p, top.next + 1)
           f      == [top EXCEPT !.next = @ + 2, !.keys = @ \union {scalar}]
           path   == ChildPath(top.path, scalar)
           v      == Descended(w, f, x, path)
<1>1. Branch(t, w) /\ PassesSound(t, w)
  BY DEF WalkSound, Branch
<1>2. /\ top \in Activation /\ top.next \in Nat /\ p \in DOMAIN t /\ p \in Nat
      /\ top.path = PathOf(t)[p] /\ t \in Seq(Node) /\ DOMAIN t = 1 .. Len(t)
      /\ t[p].kind = "mapping" /\ p # 0
  BY <1>1, OnBranch, TreeTypes DEF WellFormed
<1>3. /\ top.next % 2 = 0
      /\ key \in Children(t, p) /\ Slot(t, key) = top.next /\ IsKey(t, key)
      /\ x \in Children(t, p) /\ Slot(t, x) = top.next + 1 /\ ~IsKey(t, x)
      /\ key \notin AllDefects(t)
  BY <1>1, NextPair
<1>4. top.keys = {t[m].scalar : m \in {k \in Children(t, p) :
                                         IsKey(t, k) /\ Slot(t, k) < top.next}}
  <2>1. Len(w) \in DOMAIN w
    BY <1>1, OnBranch
  <2> QED BY <1>1, <1>2, <2>1 DEF Branch, TracksKeys
<1> HIDE DEF key, x
<1>5. /\ key \in DOMAIN t /\ key \in Nat
      /\ x \in DOMAIN t /\ x \in Nat /\ t[x].parent = p
  BY <1>2, <1>3 DEF Children
<1>6. scalar \in Scalars \union {""} /\ t[key].kind = "scalar"
  <2>1. t[key] \in Node
    BY <1>5, TreeTypes
  <2>2. t[key].scalar \in Scalars \union {""}
    BY <2>1 DEF Node
  <2> QED BY <1>3, <1>5, <2>2, DefectsAre
<1>7. /\ f \in Activation /\ f.node = p /\ f.path = top.path
      /\ f.next = top.next + 2 /\ f.keys = top.keys \union {scalar}
  <2> HIDE DEF top, p, scalar
  <2>1. /\ f \in Activation /\ f.node = top.node /\ f.path = top.path
        /\ f.next = top.next + 2 /\ f.keys = top.keys \union {scalar}
    <3>1. \A n \in Nat, s \in Scalars \union {""} :
            LET g == [top EXCEPT !.next = n, !.keys = top.keys \union {s}]
            IN  /\ g \in Activation /\ g.node = top.node /\ g.path = top.path
                /\ g.next = n /\ g.keys = top.keys \union {s}
      BY <1>2, PastPair
    <3>2. top.next + 2 \in Nat
      BY <1>2
    <3> QED BY <1>6, <3>1, <3>2
  <2> QED BY <2>1 DEF p
<1> HIDE DEF f, top
<1>8. f.keys = {t[m].scalar : m \in {k \in Children(t, p) :
                                       IsKey(t, k) /\ Slot(t, k) < top.next + 2}}
  <2> HIDE DEF p
  <2>1. \A k \in Children(t, p) : Slot(t, k) \in Nat
    <3>1. /\ \A k \in Children(t, p) : Slot(t, k) \in 0 .. Arity(t, p) - 1
          /\ Arity(t, p) \in Nat
      BY <1>2, SlotFacts
    <3> QED BY <3>1
  <2>2. ASSUME NEW k \in Children(t, p), IsKey(t, k)
        PROVE  Slot(t, k) < top.next + 2 <=> Slot(t, k) < top.next \/ k = key
    <3>1. Slot(t, k) % 2 = 0
      BY <2>2 DEF IsKey
    <3>2. Slot(t, k) # top.next + 1
      BY <1>2, <1>3, <3>1
    <3>3. Slot(t, k) = top.next <=> k = key
      BY <1>2, <1>3, SlotFacts
    <3>4. Slot(t, k) \in Nat
      BY <2>1, <2>2
    <3>5. Slot(t, k) < top.next + 2 => Slot(t, k) < top.next \/ Slot(t, k) = top.next
      BY <1>2, <3>2, <3>4
    <3>6. Slot(t, k) < top.next \/ Slot(t, k) = top.next => Slot(t, k) < top.next + 2
      BY <1>2, <3>4
    <3> QED BY <3>3, <3>5, <3>6
  <2>3. {k \in Children(t, p) : IsKey(t, k) /\ Slot(t, k) < top.next + 2}
          = {k \in Children(t, p) : IsKey(t, k) /\ Slot(t, k) < top.next} \union {key}
    BY <1>3, <2>2
  <2> QED BY <1>4, <1>7, <2>3
<1>9. Passing(t, w, f, x)
  <2>1. f.next = Slot(t, x) + 1 /\ f.next % 2 = 0
    BY <1>2, <1>3, <1>7
  <2> QED BY <1>7, <1>8, <2>1 DEF Passing, top
<1>10. path = PathOf(t)[x]
  <2>1. PathOf(t)[x] = PathStep(t, PathOf(t), x)
    BY <1>5, PathEquation
  <2>2. (top.next + 1) - 1 = top.next
    BY <1>2
  <2>3. Child(t, p, Slot(t, x) - 1) = key
    BY <1>3, <2>2 DEF key
  <2> QED BY <1>2, <1>3, <1>5, <2>1, <2>3 DEF PathStep
<1>11. Enter(x, path) \in Activation
  BY <1>2, <1>5, <1>6, PathTypes
<1>12. x \in Children(t, w[Len(w)].node) /\ key \in Children(t, w[Len(w)].node)
  BY <1>3 DEF top
<1>13. x = key + 1
  BY <1>2, <1>3, <1>6, Between
<1> HIDE DEF path, p
<1>14. Branch(t, v)
  BY <1>1, <1>9, <1>10, <1>11, <1>12, Descend
<1>15. ASSUME NEW m \in AllDefects(t), Passed(t, v, m) PROVE FALSE
  <2>1. m \in DOMAIN t /\ m \in Nat /\ IsKey(t, m)
    BY <1>2, DefectsAre
  <2>2. m <= x
    BY <1>1, <1>9, <1>10, <1>11, <1>12, <1>15, <2>1, DescendedReach
  <2>3. m # x /\ m # key
    BY <1>3, <2>1
  <2>4. m < key
    BY <1>5, <1>13, <2>1, <2>2, <2>3
  <2>5. \A d \in Children(t, p) : Slot(t, d) >= top.next => key <= d
    BY <1>3, FromSlot
  <2>6. top.next <= Slot(t, key)
    BY <1>2, <1>3
  <2>7. Passed(t, w, m)
    BY <1>1, <1>12, <2>1, <2>4, <2>5, <2>6, Ahead DEF top, p
  <2> QED BY <1>1, <2>7 DEF PassesSound
<1>16. WalkSound(t, v)
  BY <1>14, <1>15 DEF WalkSound, Branch, PassesSound
<1> QED BY <1>16 DEF v, f, x, path, p, top, scalar, key

(* The return of an activation that has visited all its children.          *)
LEMMA ReturnSound ==
  ASSUME NEW t, WellFormed(t), NEW w, WalkSound(t, w), w # << >>,
         \/ t[w[Len(w)].node].kind = "scalar"
         \/ ~(w[Len(w)].next < Arity(t, w[Len(w)].node))
  PROVE  LET v == SubSeq(w, 1, Len(w) - 1)
         IN  /\ WalkSound(t, v)
             /\ v = << >> <=> Len(w) = 1
             /\ Len(w) = 1 => AllDefects(t) = {}
<1> DEFINE L == Len(w)
           top == w[L]
           v == SubSeq(w, 1, L - 1)
<1>1. Branch(t, w) /\ PassesSound(t, w)
  BY DEF WalkSound, Branch
<1>2. /\ L \in Nat /\ L > 0 /\ L \in DOMAIN w /\ DOMAIN w = 1 .. L
      /\ top.node \in DOMAIN t /\ top.next \in Nat
      /\ \A i \in DOMAIN w : w[i].node \in Nat /\ w[i].node <= top.node
      /\ DOMAIN t = 1 .. Len(t) /\ t \in Seq(Node)
  BY <1>1, OnBranch, TreeTypes DEF WellFormed
<1>3. \A c \in Children(t, top.node) : ~(Slot(t, c) >= top.next)
  <2> SUFFICES ASSUME NEW c \in Children(t, top.node), Slot(t, c) >= top.next PROVE FALSE
    OBVIOUS
  <2>1. t[top.node].kind \in Collections
    BY <1>2, Below
  <2>2. ~(top.next < Arity(t, top.node))
    BY <2>1 DEF Collections
  <2>3. Slot(t, c) \in 0 .. Arity(t, top.node) - 1 /\ Arity(t, top.node) \in Nat
    BY <1>2, SlotFacts
  <2> HIDE DEF top
  <2> QED BY <1>2, <2>2, <2>3
<1>4. /\ v \in Seq(Activation) /\ Len(v) = L - 1 /\ DOMAIN v = 1 .. L - 1
      /\ \A i \in 1 .. L - 1 : v[i] = w[i]
  <2>1. w \in Seq(Activation) /\ \A i \in 1 .. L - 1 : w[i] \in Activation
    BY <1>1, <1>2, ElementOfSeq DEF Branch
  <2> HIDE DEF L
  <2>2. /\ v \in Seq(Activation)
        /\ Len(v) = IF 1 <= L - 1 THEN (L - 1) - 1 + 1 ELSE 0
        /\ \A i \in 1 .. (L - 1) - 1 + 1 : v[i] = w[1 + i - 1]
    BY <1>2, <2>1, SubSeqProperties
  <2>3. Len(v) = L - 1
    BY <1>2, <2>2
  <2>4. DOMAIN v = 1 .. Len(v)
    BY <2>2, LenProperties
  <2>5. ASSUME NEW i \in 1 .. L - 1 PROVE v[i] = w[i]
    <3>1. i \in 1 .. (L - 1) - 1 + 1 /\ 1 + i - 1 = i
      BY <1>2
    <3> HIDE DEF v
    <3> QED BY <2>2, <3>1
  <2> QED BY <2>2, <2>3, <2>4, <2>5
<1> HIDE DEF v, L
<1>5. FollowsTree(t, v)
  <2> SUFFICES ASSUME NEW i \in 1 .. L - 1
               PROVE  /\ v[i].node \in DOMAIN t
                      /\ i = 1 => v[i].node = 1
                      /\ v[i].next \in 0 .. Arity(t, v[i].node)
                      /\ t[v[i].node].kind = "mapping" => v[i].next % 2 = 0
                      /\ i < L - 1 => Slot(t, v[i + 1].node) = v[i].next - 1
                      /\ \A n \in v[i].node + 1 .. v[L - 1].node : t[n].depth > i
                      /\ \A j \in 1 .. L - 1 : i < j => v[i].node < v[j].node
    BY <1>4 DEF FollowsTree
  <2>1. /\ i \in 1 .. L /\ v[i] = w[i] /\ L - 1 \in 1 .. L /\ v[L - 1] = w[L - 1]
        /\ i < L - 1 => i < L /\ i + 1 \in 1 .. L - 1 /\ v[i + 1] = w[i + 1]
        /\ \A j \in 1 .. L - 1 : j \in 1 .. L /\ v[j] = w[j]
    BY <1>2, <1>4
  <2>2. /\ w[i].node \in DOMAIN t
        /\ i = 1 => w[i].node = 1
        /\ w[i].next \in 0 .. Arity(t, w[i].node)
        /\ t[w[i].node].kind = "mapping" => w[i].next % 2 = 0
        /\ i < L => Slot(t, w[i + 1].node) = w[i].next - 1
        /\ \A n \in w[i].node + 1 .. top.node : t[n].depth > i
        /\ \A j \in 1 .. L : i < j => w[i].node < w[j].node
    BY <1>1, <1>2, <2>1 DEF Branch, FollowsTree, L
  <2>3. \A n \in w[i].node + 1 .. w[L - 1].node : n \in w[i].node + 1 .. top.node
    <3>1. w[L - 1].node \in Nat /\ w[L - 1].node <= top.node /\ w[i].node \in Nat
      BY <1>2, <2>1
    <3>2. top.node \in Nat
      BY <1>2
    <3> HIDE DEF top
    <3> QED BY <3>1, <3>2
  <2> HIDE DEF top
  <2> QED BY <2>1, <2>2, <2>3
<1>6. TracksKeys(t, v)
  <2> SUFFICES ASSUME NEW i \in 1 .. L - 1
               PROVE  /\ t[v[i].node].depth = i
                      /\ v[i].path = PathOf(t)[v[i].node]
                      /\ i > 1 => t[v[i].node].parent = v[i - 1].node
                      /\ t[v[i].node].kind = "mapping" =>
                           v[i].keys = {t[m].scalar : m \in
                             {k \in Children(t, v[i].node) :
                                IsKey(t, k) /\ Slot(t, k) < v[i].next}}
    BY <1>4 DEF TracksKeys
  <2>1. i \in DOMAIN w /\ v[i] = w[i] /\ (i > 1 => v[i - 1] = w[i - 1])
    BY <1>2, <1>4
  <2> QED BY <1>1, <2>1 DEF Branch, TracksKeys
<1>7. ASSUME NEW m \in AllDefects(t), Passed(t, v, m) PROVE FALSE
  <2> SUFFICES ASSUME NEW i \in DOMAIN w, NEW c \in Children(t, w[i].node),
                      Slot(t, c) >= w[i].next
               PROVE  m < c
    BY <1>1 DEF PassesSound, Passed
  <2>1. CASE i = L
    BY <1>3, <2>1
  <2>2. CASE i # L
    <3>1. i \in DOMAIN v /\ v[i] = w[i]
      BY <1>2, <1>4, <2>2
    <3> QED BY <1>7, <3>1 DEF Passed
  <2> QED BY <2>1, <2>2
<1>8. WalkSound(t, v)
  BY <1>4, <1>5, <1>6, <1>7 DEF WalkSound, PassesSound
<1>9. v = << >> <=> L = 1
  <2>1. v = << >> <=> Len(v) = 0
    BY <1>4, EmptySeq
  <2> QED BY <1>2, <1>4, <2>1
<1>10. L = 1 => AllDefects(t) = {}
  <2> SUFFICES ASSUME L = 1, NEW m \in AllDefects(t) PROVE FALSE
    OBVIOUS
  <2>1. DOMAIN v = {}
    BY <1>4
  <2> QED BY <1>7, <2>1 DEF Passed
<1> QED BY <1>8, <1>9, <1>10 DEF v, L

(* What validate_tree() says of the next key tells whether it is a defect, *)
(* which and whether it is the first; its path is that of its mapping.     *)
LEMMA KeyTested ==
  ASSUME WellFormed(tree), NEW w, Branch(tree, w), PassesSound(tree, w),
         tree[w[Len(w)].node].kind = "mapping",
         w[Len(w)].next < Arity(tree, w[Len(w)].node),
         NEW key, key = Child(tree, w[Len(w)].node, w[Len(w)].next),
         NEW code, code = KeyRejection(key, w[Len(w)].keys)
  PROVE  /\ code = "none" => key \notin AllDefects(tree)
         /\ code # "none" =>
              /\ code \in DefectCodes
              /\ key \in Defects(tree, code) /\ key \in AllDefects(tree)
              /\ key = CHOOSE n \in AllDefects(tree) :
                         \A m \in AllDefects(tree) : n <= m
              /\ PathOf(tree)[key] = w[Len(w)].path
<1> DEFINE top == w[Len(w)]
           p   == top.node
<1>1. /\ key \in Children(tree, p) /\ IsKey(tree, key)
      /\ p \in DOMAIN tree /\ DOMAIN tree = 1 .. Len(tree)
  BY NextPair, TreeTypes
<1>2. /\ \A m \in AllDefects(tree) : key <= m
      /\ tree[key].scalar \in top.keys <=> Repeats(tree, key)
  BY KeysTell
<1>3. key \in DOMAIN tree /\ key \in Nat /\ tree[key].parent = p /\ p # 0
  BY <1>1 DEF Children
<1>4. top.path = PathOf(tree)[p] /\ tree[p].kind = "mapping"
  <2>1. Len(w) \in DOMAIN w
    BY OnBranch
  <2> QED BY <2>1, OnBranch
<1> HIDE DEF p
<1>5. PathOf(tree)[key] = top.path
  <2>1. PathOf(tree)[key] = PathStep(tree, PathOf(tree), key)
    BY <1>3, PathEquation
  <2> QED BY <1>1, <1>3, <1>4, <2>1 DEF PathStep
<1>6. code = KeyRejection(key, top.keys)
  OBVIOUS
<1> HIDE DEF top
<1>7. code = "none" => key \notin AllDefects(tree)
  BY <1>2, <1>6, DefectsAre DEF KeyRejection
<1>8. ASSUME code # "none" PROVE code \in DefectCodes /\ key \in Defects(tree, code)
  <2>1. CASE tree[key].kind # "scalar"
    BY <1>1, <1>3, <1>6, <1>8, <2>1 DEF KeyRejection, Defects, DefectCodes
  <2>2. CASE tree[key].kind = "scalar" /\ tree[key].scalar = MergeKey
    BY <1>1, <1>3, <1>6, <1>8, <2>2 DEF KeyRejection, Defects, DefectCodes
  <2>3. CASE tree[key].kind = "scalar" /\ tree[key].scalar # MergeKey
    <3>1. tree[key].scalar \in top.keys /\ code = "duplicate_key"
      BY <1>6, <1>8, <2>3 DEF KeyRejection
    <3>2. Repeats(tree, key)
      BY <1>2, <3>1
    <3> QED BY <1>1, <1>3, <2>3, <3>1, <3>2 DEF Defects, DefectCodes
  <2> QED BY <2>1, <2>2, <2>3
<1>9. ASSUME code # "none" PROVE key \in AllDefects(tree)
  BY <1>8, <1>9 DEF AllDefects
<1>10. ASSUME code # "none"
       PROVE  key = CHOOSE n \in AllDefects(tree) :
                      \A m \in AllDefects(tree) : n <= m
  <2>1. \A n \in AllDefects(tree) : n \in Nat
    BY <1>1, DefectsAre
  <2>2. ASSUME NEW n \in AllDefects(tree), \A m \in AllDefects(tree) : n <= m
        PROVE  n = key
    <3>1. n <= key /\ key <= n /\ n \in Nat
      BY <1>2, <1>9, <1>10, <2>1, <2>2
    <3> QED BY <1>3, <3>1
  <2> QED BY <1>2, <1>9, <1>10, <2>2
<1> QED BY <1>5, <1>7, <1>8, <1>9, <1>10 DEF top

-----------------------------------------------------------------------------
(* The invariant.                                                          *)

(* A walk that begins at the root of a finished tree.                      *)
LEMMA WalkBegins ==
  ASSUME NEW t, WellFormed(t)
  PROVE  WalkSound(t, <<Enter(1, Root)>>)
<1> DEFINE w == <<Enter(1, Root)>>
           e == Enter(1, Root)
<1>1. /\ e \in Activation /\ e.node = 1 /\ e.next = 0 /\ e.keys = {} /\ e.path = Root
  <2>1. << >> \in Seq(({"item"} \X Nat) \union ({"key"} \X (Scalars \union {""})))
    BY EmptySeq
  <2>2. {} \in SUBSET (Scalars \union {""}) /\ 1 \in Nat /\ 0 \in Nat
    OBVIOUS
  <2> QED BY <2>1, <2>2 DEF Enter, Activation, Root
<1> HIDE DEF e
<1>2. /\ w \in Seq(Activation) /\ w # << >> /\ Len(w) = 1 /\ DOMAIN w = {1}
      /\ w[1] = e
  BY <1>1 DEF e
<1> HIDE DEF w
<1>3. /\ 1 \in DOMAIN t /\ t[1].parent = 0 /\ t[1].depth = 1
      /\ DOMAIN t = 1 .. Len(t) /\ t \in Seq(Node)
  <2>1. 1 \in DOMAIN t /\ DOMAIN t = 1 .. Len(t) /\ t \in Seq(Node)
    BY TreeTypes DEF WellFormed
  <2> QED BY <2>1 DEF WellFormed, Preorder
<1>4. \A c \in Children(t, 1) : Slot(t, c) \in Nat
  <2>1. \A c \in Children(t, 1) : Slot(t, c) \in 0 .. Arity(t, 1) - 1 /\ Arity(t, 1) \in Nat
    BY <1>3, SlotFacts
  <2> QED BY <2>1
<1>5. FollowsTree(t, w)
  <2>1. 0 \in 0 .. Arity(t, 1) /\ 0 % 2 = 0 /\ 1 + 1 .. 1 = {}
    BY <1>3, SlotFacts
  <2> QED BY <1>1, <1>2, <1>3, <2>1 DEF FollowsTree
<1>6. TracksKeys(t, w)
  <2>1. PathOf(t)[1] = Root
    <3>1. PathOf(t)[1] = PathStep(t, PathOf(t), 1)
      BY <1>3, PathEquation
    <3> QED BY <1>3, <3>1 DEF PathStep
  <2>2. {k \in Children(t, 1) : IsKey(t, k) /\ Slot(t, k) < 0} = {}
    BY <1>4
  <2> QED BY <1>1, <1>2, <1>3, <2>1, <2>2 DEF TracksKeys
<1>7. Branch(t, w)
  BY <1>2, <1>5, <1>6 DEF Branch
<1>8. ASSUME NEW m \in AllDefects(t), Passed(t, w, m) PROVE FALSE
  <2>1. m \in DOMAIN t /\ m \in Nat /\ m > 0 /\ IsKey(t, m)
    BY <1>3, DefectsAre
  <2>2. m <= 1
    BY <1>1, <1>2, <1>7, <1>8, <2>1, Reached
  <2>3. m = 1
    BY <2>1, <2>2
  <2> QED BY <1>3, <2>1, <2>3 DEF IsKey, InMapping
<1> QED BY <1>2, <1>5, <1>6, <1>8 DEF WalkSound, PassesSound, w

(* The walk of a whole tree begins soundly, whoever starts it.             *)
LEMMA BeginsSound ==
  WellFormed(tree) /\ walk = <<Enter(1, Root)>> /\ verdict = Open => WalkIInv
<1> SUFFICES ASSUME WellFormed(tree), walk = <<Enter(1, Root)>>, verdict = Open
             PROVE  WalkIInv
  OBVIOUS
<1>1. WalkSound(tree, walk) /\ walk # << >>
  BY WalkBegins
<1> QED BY <1>1 DEF WalkIInv, FirstDefectReported, Ended

(* The invariant holds when the walk begins.                               *)
LEMMA Initially == Init => WalkIInv
BY TreesAssumption, BeginsSound DEF Init

(* A step that goes down keeps the invariant.                              *)
LEMMA DownSound ==
  ASSUME WellFormed(tree), tree' = tree, walk # << >>, verdict = Open,
         NEW f, NEW x, NEW path, Recurse(f, x, path),
         WalkSound(tree, Descended(walk, f, x, path))
  PROVE  WalkIInv'
<1>1. walk' = Descended(walk, f, x, path) /\ verdict' = verdict
  BY DEF Recurse, Descended
<1>2. walk' # << >>
  <2>1. walk' = Append([walk EXCEPT ![Len(walk)] = f], Enter(x, path))
    BY DEF Recurse
  <2>2. walk' \in Seq(Activation)
    BY <1>1 DEF WalkSound
  <2> QED BY <1>1, <2>1, <2>2
<1> QED BY <1>1, <1>2 DEF WalkIInv, FirstDefectReported, Ended

(* Every step of the walk keeps it.                                        *)
LEMMA WalkStep == WalkIInv /\ [Next]_vars => WalkIInv'
<1> SUFFICES ASSUME WalkIInv, [Next]_vars PROVE WalkIInv'
  OBVIOUS
<1>1. WellFormed(tree) /\ WalkSound(tree, walk) /\ (verdict = Open <=> walk # << >>)
  BY DEF WalkIInv
<1>2. ASSUME walk # << >>
      PROVE  Branch(tree, walk) /\ PassesSound(tree, walk) /\ verdict = Open
  BY <1>1, <1>2 DEF WalkSound, Branch
<1>3. CASE VisitItem
  <2>1. walk # << >> /\ tree' = tree /\ tree[Top.node].kind = "sequence" /\ Unvisited(Top)
    BY <1>3 DEF VisitItem
  <2> DEFINE f    == [Top EXCEPT !.next = @ + 1]
             x    == Child(tree, Top.node, Top.next)
             path == ItemPath(Top.path, Top.next)
  <2>2. Recurse(f, x, path)
    BY <1>3 DEF VisitItem
  <2>3. WalkSound(tree, Descended(walk, f, x, path))
    BY <1>1, <2>1, ItemSound DEF Top, Unvisited
  <2> HIDE DEF f, x, path
  <2> QED BY <1>1, <1>2, <2>1, <2>2, <2>3, DownSound
<1>4. CASE VisitPair
  <2> DEFINE key    == Child(tree, Top.node, Top.next)
             value  == Child(tree, Top.node, Top.next + 1)
             scalar == tree[key].scalar
             code   == KeyRejection(key, Top.keys)
             f      == [Top EXCEPT !.next = @ + 2, !.keys = @ \union {scalar}]
             path   == ChildPath(Top.path, scalar)
  <2>1. /\ walk # << >> /\ tree' = tree /\ tree[Top.node].kind = "mapping"
        /\ Unvisited(Top)
        /\ code = "none" => Recurse(f, value, path)
        /\ code # "none" => Fail(code, IF code = "duplicate_key" THEN path ELSE Top.path,
                                 tree[key].mark)
    BY <1>4 DEF VisitPair
  <2>2. tree[walk[Len(walk)].node].kind = "mapping"
        /\ walk[Len(walk)].next < Arity(tree, walk[Len(walk)].node)
    BY <2>1 DEF Top, Unvisited
  <2>3. /\ code = "none" => key \notin AllDefects(tree)
        /\ code # "none" =>
             /\ code \in DefectCodes
             /\ key \in Defects(tree, code) /\ key \in AllDefects(tree)
             /\ key = CHOOSE n \in AllDefects(tree) :
                        \A m \in AllDefects(tree) : n <= m
             /\ PathOf(tree)[key] = Top.path
    BY <1>1, <1>2, <2>1, <2>2, KeyTested DEF Top
  <2>4. CASE code = "none"
    <3>1. WalkSound(tree, Descended(walk, f, value, path))
      BY <1>1, <2>1, <2>2, <2>3, <2>4, PairSound DEF Top
    <3>2. Recurse(f, value, path)
      BY <2>1, <2>4
    <3> HIDE DEF f, value, path
    <3> QED BY <1>1, <1>2, <2>1, <3>1, <3>2, DownSound
  <2>5. CASE code # "none"
    <3> DEFINE v == [code |-> code,
                     path |-> IF code = "duplicate_key" THEN path ELSE Top.path,
                     at   |-> tree[key].mark]
    <3>1. walk' = << >> /\ verdict' = v
      BY <2>1, <2>5 DEF Fail
    <3>2. /\ v.code = code /\ v.at = tree[key].mark
          /\ v.path = IF code = "duplicate_key" THEN path ELSE Top.path
      OBVIOUS
    <3>3. code # "open"
      BY <2>3, <2>5 DEF DefectCodes
    <3> HIDE DEF v, code, key
    <3>4. verdict' # Open
      BY <3>1, <3>2, <3>3 DEF Open
    <3>5. FirstDefectReported'
      BY <2>1, <2>3, <2>5, <3>1, <3>2 DEF FirstDefectReported
    <3>6. WalkSound(tree, << >>)
      BY EmptySeq DEF WalkSound, FollowsTree, TracksKeys
    <3> QED BY <1>1, <2>1, <3>1, <3>4, <3>5, <3>6 DEF WalkIInv
  <2> QED BY <2>4, <2>5
<1>5. CASE Return
  <2>1. /\ walk # << >> /\ tree' = tree
        /\ walk' = SubSeq(walk, 1, Len(walk) - 1)
        /\ verdict' = IF Len(walk) = 1 THEN Valid ELSE verdict
    BY <1>5 DEF Return
  <2>2. \/ tree[walk[Len(walk)].node].kind = "scalar"
        \/ ~(walk[Len(walk)].next < Arity(tree, walk[Len(walk)].node))
    BY <1>5 DEF Return, Unvisited, Top
  <2>3. /\ WalkSound(tree, walk')
        /\ walk' = << >> <=> Len(walk) = 1
        /\ Len(walk) = 1 => AllDefects(tree) = {}
    BY <1>1, <2>1, <2>2, ReturnSound
  <2>4. verdict = Open /\ Valid # Open
    BY <1>2, <2>1 DEF Valid, Open
  <2>5. FirstDefectReported'
    BY <2>1, <2>3, <2>4 DEF FirstDefectReported, Ended
  <2> QED BY <1>1, <2>1, <2>3, <2>4, <2>5 DEF WalkIInv
<1>6. CASE UNCHANGED vars
  BY <1>6 DEF WalkIInv, FirstDefectReported, Ended, vars
<1> QED BY <1>3, <1>4, <1>5, <1>6 DEF Next

(* Whatever the trees, the walk is a branch of the tree, and nothing it    *)
(* has passed is a defect.                                                 *)
THEOREM Invariance == Spec => []WalkIInv
BY Initially, WalkStep, PTL DEF Spec

(* validate_tree() reports the first defect of the document, under its     *)
(* path, and finds every tree valid that has none.                         *)
THEOREM FirstReported == Spec => []FirstDefectReported
<1>1. WalkIInv => FirstDefectReported
  BY DEF WalkIInv
<1> QED BY <1>1, Invariance, PTL

(* Every activation holds the keys of its own mapping, and only those of   *)
(* the pairs it has passed.                                                *)
THEOREM KeysTracked == Spec => []WalkTracksKeys
<1>1. WalkIInv => WalkTracksKeys
  BY DEF WalkIInv, WalkSound, WalkTracksKeys
<1> QED BY <1>1, Invariance, PTL

-----------------------------------------------------------------------------
(* What a valid tree is.                                                   *)

(* Half of the children of a mapping are keys.                             *)
LEMMA HalfAreKeys ==
  ASSUME NEW t \in Seq(Node), NEW n, Arity(t, n) % 2 = 0
  PROVE  LET keys == {m \in Children(t, n) : Slot(t, m) % 2 = 0}
         IN  IsFiniteSet(keys) /\ Arity(t, n) = 2 * Cardinality(keys)
<1> DEFINE keys == {m \in Children(t, n) : Slot(t, m) % 2 = 0}
<1>1. PICK k \in Nat : Arity(t, n) = 2 * k
  <2>1. Arity(t, n) \in Nat
    BY SlotFacts
  <2>2. Arity(t, n) \div 2 \in Nat /\ Arity(t, n) = 2 * (Arity(t, n) \div 2)
    BY <2>1
  <2> QED BY <2>2
<1> DEFINE f == [j \in 1 .. k |-> Child(t, n, 2 * (j - 1))]
<1>2. ASSUME NEW j \in 1 .. k
      PROVE  f[j] \in keys /\ Slot(t, f[j]) = 2 * (j - 1)
  <2>1. 2 * (j - 1) \in 0 .. Arity(t, n) - 1 /\ (2 * (j - 1)) % 2 = 0
    BY <1>1
  <2>2. f[j] = Child(t, n, 2 * (j - 1))
    OBVIOUS
  <2> HIDE DEF f
  <2> QED BY <2>1, <2>2, SlotFacts
<1>3. ASSUME NEW m \in keys PROVE \E j \in 1 .. k : f[j] = m
  <2>1. m \in Children(t, n) /\ Slot(t, m) % 2 = 0 /\ Slot(t, m) \in 0 .. Arity(t, n) - 1
    BY SlotFacts
  <2> DEFINE j == Slot(t, m) \div 2 + 1
  <2>2. j \in 1 .. k /\ 2 * (j - 1) = Slot(t, m)
    BY <1>1, <2>1
  <2> HIDE DEF j, f
  <2>3. f[j] \in Children(t, n) /\ Slot(t, f[j]) = Slot(t, m)
    BY <1>2, <2>2
  <2>4. f[j] = m
    BY <2>1, <2>3, SlotFacts
  <2> QED BY <2>2, <2>4
<1>4. f \in Bijection(1 .. k, keys)
  <2>1. f \in [1 .. k -> keys] /\ DOMAIN f = 1 .. k
    BY <1>2
  <2>2. \A i, j \in 1 .. k : f[i] = f[j] => i = j
    <3> HIDE DEF f
    <3> TAKE i, j \in 1 .. k
    <3>1. Slot(t, f[i]) = 2 * (i - 1) /\ Slot(t, f[j]) = 2 * (j - 1)
      BY <1>2
    <3> QED BY <3>1
  <2> HIDE DEF f, keys
  <2> QED BY <1>3, <2>1, <2>2 DEF Bijection, Injection, Surjection, IsInjective
<1> HIDE DEF keys, f
<1>5. Cardinality(keys) = k /\ IsFiniteSet(keys)
  <2>1. ExistsBijection(1 .. k, keys)
    BY <1>4 DEF ExistsBijection
  <2> QED BY <1>1, <2>1, FS_CountingElements, FS_NatBijection
<1> QED BY <1>1, <1>5 DEF keys

(* Where a tree has no defect its mappings are lookup tables.              *)
LEMMA NoDefects ==
  ASSUME NEW t, WellFormed(t), AllDefects(t) = {},
         NEW n \in DOMAIN t, t[n].kind = "mapping"
  PROVE  LET keys == {m \in Children(t, n) : Slot(t, m) % 2 = 0}
         IN  /\ Arity(t, n) = 2 * Cardinality(keys)
             /\ Cardinality({t[m].scalar : m \in keys}) = Cardinality(keys)
             /\ \A m \in keys : t[m].kind = "scalar" /\ t[m].scalar # MergeKey
<1> DEFINE keys    == {m \in Children(t, n) : Slot(t, m) % 2 = 0}
           scalars == {t[m].scalar : m \in keys}
           f       == [m \in keys |-> t[m].scalar]
<1>1. t \in Seq(Node) /\ DOMAIN t = 1 .. Len(t) /\ Arity(t, n) % 2 = 0
  BY TreeTypes DEF WellFormed
<1>2. IsFiniteSet(keys) /\ Arity(t, n) = 2 * Cardinality(keys)
  BY <1>1, HalfAreKeys
<1>3. ASSUME NEW m \in keys
      PROVE  /\ m \in DOMAIN t /\ m \in Nat /\ t[m].parent = n /\ IsKey(t, m)
             /\ t[m].kind = "scalar" /\ t[m].scalar # MergeKey /\ ~Repeats(t, m)
  <2>1. m \in DOMAIN t /\ m \in Nat /\ t[m].parent = n /\ n # 0
    BY <1>1 DEF Children
  <2>2. IsKey(t, m)
    BY <2>1 DEF IsKey, InMapping
  <2> QED BY <2>1, <2>2, DefectsAre
<1>4. ASSUME NEW k \in keys, NEW m \in keys, k < m PROVE t[k].scalar # t[m].scalar
  <2>1. k \in 1 .. m - 1 /\ Siblings(t, k, m)
    BY <1>1, <1>3, <1>4 DEF Siblings
  <2> QED BY <1>3, <2>1 DEF Repeats
<1> HIDE DEF keys
<1>5. ASSUME NEW k \in keys, NEW m \in keys, t[k].scalar = t[m].scalar PROVE k = m
  <2>1. k \in Nat /\ m \in Nat
    BY <1>3
  <2>2. ~(k < m) /\ ~(m < k)
    BY <1>4, <1>5
  <2> QED BY <2>1, <2>2
<1>6. f \in Surjection(keys, scalars) /\ f \in Injection(keys, scalars)
  <2>1. f \in [keys -> scalars] /\ DOMAIN f = keys
    OBVIOUS
  <2>2. \A x \in scalars : \E m \in keys : f[m] = x
    OBVIOUS
  <2>3. \A k, m \in keys : f[k] = f[m] => k = m
    BY <1>5
  <2> HIDE DEF f, scalars
  <2> QED BY <2>1, <2>2, <2>3 DEF Surjection, Injection, IsInjective
<1>7. Cardinality(scalars) = Cardinality(keys)
  <2> HIDE DEF f, scalars
  <2> QED BY <1>2, <1>6, FS_Surjection
<1> QED BY <1>2, <1>3, <1>7 DEF keys

=============================================================================
