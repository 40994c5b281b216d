------------------------- MODULE TreeBuilderProofs -------------------------
(***************************************************************************)
(* The invariant of the recursive descent, for every choice of the limits, *)
(* the documents and the reader; and, in the second part, that the         *)
(* descent, which keeps a stack and counters, decides every stream as the  *)
(* strict subset does, which recounts the nesting from the events, and     *)
(* that its tree is the one the events spell.                              *)
(*                                                                         *)
(* The argument of the second part: StrictIInv, where the activations are  *)
(* the open collections and their counters the numbers of values read in   *)
(* them, is kept by each kind of event (the lemmas whose names end in      *)
(* Mirrors), and under it every guard of the descent equals the question   *)
(* the strict subset asks (those that end in Decision).                    *)
(*                                                                         *)
(* The third part adds to it that the paths of the activations have the    *)
(* indices that the events count (PathIInv), from which every failure      *)
(* names the place that caused it.                                         *)
(***************************************************************************)
EXTENDS TreeBuilderProperties, Libyaml, TLAPS, FiniteSetTheorems, SequenceTheorems

ItemPaths == Seq({"item"} \X Nat)

(* The call has not ended and reads the event e, or throws without one.    *)
Reads(e)   == events' = Append(events, e)
ReadsOrNot == (events' = events) \/ (\E e \in Event : Reads(e))

-----------------------------------------------------------------------------
(* Inside a collection the innermost activation belongs to a node that has *)
(* been retained, and the item it reads next has a path.                   *)
LEMMA TopFacts ==
  ASSUME IInv, pc = "item"
  PROVE  /\ Len(calls) \in Nat \ {0}
         /\ Len(calls) \in DOMAIN calls
         /\ Top \in Frame
         /\ Top.node \in DOMAIN tree
         /\ Top.node \in Nat \ {0}
         /\ Top.index \in Nat
         /\ Top.path \in ItemPaths
         /\ tree[Top.node] \in Node
         /\ tree[Top.node].kind \in Collections
         /\ tree[Top.node].mark \in Nat
         /\ NextPath \in ItemPaths
<1>1. calls \in Seq(Frame) /\ calls # << >> /\ tree \in Seq(Node)
  BY DEF IInv, TypeOK
<1>2. Len(calls) \in Nat \ {0} /\ Len(calls) \in DOMAIN calls
  BY <1>1, EmptySeq, LenProperties
<1>3. Top \in Frame
  BY <1>1, <1>2, ElementOfSeq DEF Top
<1>4. Top.node \in DOMAIN tree /\ tree[Top.node].kind \in Collections
  BY <1>2 DEF IInv, CallsFollowTree, Top
<1>5. tree[Top.node] \in Node
  BY <1>1, <1>4, ElementOfSeq
<1>6. Top.node \in Nat \ {0} /\ Top.index \in Nat /\ Top.path \in ItemPaths
  BY <1>3 DEF Frame, ItemPaths
<1>7. <<"item", Top.index>> \in {"item"} \X Nat
  BY <1>6
<1>8. NextPath \in ItemPaths
  BY <1>6, <1>7, AppendProperties DEF NextPath, ItemPath, ItemPaths
<1>9. tree[Top.node].mark \in Nat
  BY <1>5 DEF Node
<1> QED BY <1>2, <1>3, <1>4, <1>5, <1>6, <1>8, <1>9

(* Reading an event appends it, and it is one of the events there are.     *)
LEMMA EventsGrow ==
  ASSUME TypeOK, NEW e \in Event, Reads(e)
  PROVE  /\ events' \in Seq(Event)
         /\ Len(events') = Len(events) + 1
         /\ Len(events) \in Nat
         /\ \A i \in 1 .. Len(events) : events'[i] = events[i]
         /\ events'[Len(events) + 1] = e
BY AppendProperties, LenProperties DEF TypeOK, Reads

(* No step starts once the call has ended, and until then no event that    *)
(* was read is the stream's end.                                           *)
LEMMA EndOnlyLast ==
  ASSUME IInv, pc \notin {"done", "failed"}, NEW e \in Event, Reads(e)
  PROVE  /\ ReadsNothingAfterEnd'
         /\ e.kind # "stream_end" =>
              \A i \in DOMAIN events' : events'[i].kind # "stream_end"
<1>1. TypeOK BY DEF IInv
<1>2. DOMAIN events = 1 .. Len(events) /\ DOMAIN events' = 1 .. Len(events')
  BY <1>1, EventsGrow, LenProperties DEF TypeOK
<1>3. \A i \in 1 .. Len(events) : events[i].kind # "stream_end"
  BY <1>2 DEF IInv, EndNotRead
<1>4. \A i \in 1 .. Len(events) : events'[i].kind # "stream_end"
  BY <1>1, <1>3, EventsGrow
<1>5. ReadsNothingAfterEnd'
  <2>1. Len(events') - 1 = Len(events)
    BY <1>1, EventsGrow
  <2> QED BY <1>4, <2>1 DEF ReadsNothingAfterEnd
<1>6. ASSUME e.kind # "stream_end", NEW i \in DOMAIN events'
      PROVE  events'[i].kind # "stream_end"
  <2>0. Len(events) \in Nat /\ DOMAIN events' = 1 .. Len(events) + 1
    BY <1>1, <1>2, EventsGrow
  <2>1. i \in 1 .. Len(events) \/ i = Len(events) + 1
    BY <1>6, <2>0
  <2> QED BY <1>1, <1>4, <1>6, <2>1, EventsGrow
<1> QED
  BY <1>5, <1>6

-----------------------------------------------------------------------------
(* A failure keeps the invariant wherever it happens.                      *)
LEMMA FailStep ==
  ASSUME IInv, pc \notin {"done", "failed"}, UNCHANGED bytes,
         NEW code \in Codes, NEW path \in ItemPaths, NEW at \in Nat,
         Fail(code, path, at), ReadsOrNot
  PROVE  IInv'
<1> USE DEF Fail
<1>1. events' \in Seq(Event) /\ Len(events') <= Len(events) + 1
      /\ Len(events) \in Nat /\ Len(events') \in Nat
  BY EventsGrow, LenProperties DEF IInv, TypeOK, ReadsOrNot
<1>2. calls' = << >> /\ Len(calls') = 0 /\ DOMAIN calls' = {}
  OBVIOUS
<1>3. TypeOK'
  BY <1>1, <1>2 DEF IInv, TypeOK, Labels, ItemPaths
<1>4. TreeOrdered' /\ WithinLimits'
  BY <1>2, LimitsAssumption DEF IInv, TreeOrdered, WithinLimits
<1>5. CallsFollowTree' /\ PairsComplete'
  BY <1>2 DEF CallsFollowTree, PairsComplete
<1>6. EventLedger'
  <2>1. Len(calls) \in Nat /\ Len(tree) \in Nat
    BY LenProperties DEF IInv, TypeOK
  <2>2. Allowance[pc] <= 3 /\ Allowance[pc] \in Nat
    BY DEF IInv, TypeOK, Labels, Allowance
  <2>3. Allowance[pc'] = 4
    BY DEF Allowance
  <2>4. Len(events) + Len(calls) <= 2 * Len(tree) + Allowance[pc]
    BY DEF IInv, EventLedger
  <2> QED BY <1>1, <1>2, <2>1, <2>2, <2>3, <2>4 DEF EventLedger
<1>7. EndNotRead'
  BY DEF EndNotRead
<1>8. ReadsNothingAfterEnd'
  BY EndOnlyLast DEF ReadsOrNot, IInv, ReadsNothingAfterEnd
<1> QED BY <1>3, <1>4, <1>5, <1>6, <1>7, <1>8 DEF IInv

(* One event goes by without touching the tree or the activations.         *)
LEMMA SkipStep ==
  ASSUME IInv, UNCHANGED <<bytes, tree, calls>>, outcome' \in {outcome, Accepted},
         NEW e \in Event, Reads(e), pc' # "failed",
         pc \notin {"item", "done", "failed"}, pc' \in Labels \ {"item"},
         Allowance[pc'] = Allowance[pc] + 1,
         e.kind = "stream_end" => pc' = "done"
  PROVE  IInv'
<1>1. events' \in Seq(Event) /\ Len(events') = Len(events) + 1 /\ Len(events) \in Nat
  BY EventsGrow DEF IInv
<1>2. TypeOK'
  BY <1>1 DEF IInv, TypeOK, Labels, Codes, Accepted, Root
<1>3. TreeOrdered' /\ WithinLimits'
  BY DEF IInv, TreeOrdered, WithinLimits
<1>4. \A n : OnStack(n)' = OnStack(n)
  BY DEF OnStack
<1>5. CallsFollowTree'
  <2>1. calls' = << >>
    BY DEF IInv, TypeOK
  <2> QED BY <2>1 DEF CallsFollowTree
<1>6. PairsComplete'
  BY <1>4 DEF IInv, PairsComplete, Arity, Children
<1>7. EventLedger'
  <2>1. Len(calls) \in Nat /\ Len(tree) \in Nat
    BY LenProperties DEF IInv, TypeOK
  <2>2. Allowance[pc] \in Nat
    BY DEF IInv, TypeOK, Labels, Allowance
  <2> QED BY <1>1, <2>1, <2>2 DEF IInv, EventLedger
<1>8. EndNotRead' /\ ReadsNothingAfterEnd'
  BY EndOnlyLast DEF EndNotRead
<1> QED BY <1>2, <1>3, <1>5, <1>6, <1>7, <1>8 DEF IInv

-----------------------------------------------------------------------------
(* Facts about the tree and the activations that the two remaining kinds   *)
(* of steps, retaining a node and closing a collection, share.             *)

(* No two activations read the same collection.                            *)
LEMMA StackDistinct ==
  ASSUME IInv, NEW i \in DOMAIN calls, NEW j \in DOMAIN calls,
         calls[i].node = calls[j].node
  PROVE  i = j
BY DEF IInv, CallsFollowTree

(* A node has finitely many children.                                      *)
LEMMA ChildrenFinite ==
  ASSUME NEW t \in Seq(Node), NEW n
  PROVE  IsFiniteSet(Children(t, n))
<1>1. IsFiniteSet(1 .. Len(t))
  BY FS_Interval, LenProperties
<1>2. Children(t, n) \subseteq 1 .. Len(t)
  BY LenProperties DEF Children
<1> QED BY <1>1, <1>2, FS_Subset

(* So has it finitely many that are complete.                              *)
LEMMA CompleteFinite ==
  ASSUME IInv, NEW n
  PROVE  IsFiniteSet(Complete(n)) /\ Cardinality(Complete(n)) \in Nat
<1>1. IsFiniteSet(Children(tree, n)) BY ChildrenFinite DEF IInv, TypeOK
<1>2. IsFiniteSet(Complete(n)) BY <1>1, FS_Subset DEF Complete
<1> QED BY <1>2, FS_CardinalityType

(* Retaining one node adds it to the children of its parent and changes    *)
(* nothing else.                                                           *)
LEMMA TreeGrows ==
  ASSUME IInv, NEW node \in Node, node.parent <= Len(tree),
         tree' = Append(tree, node)
  PROVE  /\ tree' \in Seq(Node)
         /\ Len(tree) \in Nat
         /\ Len(tree') = Len(tree) + 1
         /\ DOMAIN tree = 1 .. Len(tree)
         /\ DOMAIN tree' = DOMAIN tree \union {Len(tree) + 1}
         /\ Len(tree) + 1 \notin DOMAIN tree
         /\ \A m \in DOMAIN tree : tree'[m] = tree[m]
         /\ tree'[Len(tree) + 1] = node
         /\ TreeOrdered'
         /\ \A n : n # node.parent => Children(tree', n) = Children(tree, n)
         /\ Children(tree', node.parent) =
              Children(tree, node.parent) \union {Len(tree) + 1}
         /\ Children(tree', Len(tree) + 1) = {}
<1>1. tree \in Seq(Node) BY DEF IInv, TypeOK
<1>2. /\ tree' \in Seq(Node) /\ Len(tree) \in Nat
      /\ Len(tree') = Len(tree) + 1
      /\ \A m \in 1 .. Len(tree) : tree'[m] = tree[m]
      /\ tree'[Len(tree) + 1] = node
  BY <1>1, AppendProperties, LenProperties
<1>3. DOMAIN tree = 1 .. Len(tree) /\ DOMAIN tree' = 1 .. Len(tree) + 1
  BY <1>1, <1>2, LenProperties
<1>4. DOMAIN tree' = DOMAIN tree \union {Len(tree) + 1}
      /\ Len(tree) + 1 \notin DOMAIN tree
  BY <1>2, <1>3
<1>5. \A m \in DOMAIN tree : tree'[m] = tree[m]
  BY <1>2, <1>3
<1>6. node.parent \in Nat BY DEF Node
<1>7. TreeOrdered'
  <2>1. ASSUME NEW m \in DOMAIN tree' PROVE tree'[m].parent < m
    <3>1. CASE m \in DOMAIN tree
      BY <1>5, <3>1 DEF IInv, TreeOrdered
    <3>2. CASE m = Len(tree) + 1
      BY <1>2, <1>6, <3>2
    <3> QED BY <1>4, <3>1, <3>2
  <2> QED BY <2>1 DEF TreeOrdered
<1>8. \A n : n # node.parent => Children(tree', n) = Children(tree, n)
  BY <1>2, <1>4, <1>5 DEF Children
<1>9. Children(tree', node.parent) =
        Children(tree, node.parent) \union {Len(tree) + 1}
  BY <1>2, <1>4, <1>5 DEF Children
<1>10. \A m \in DOMAIN tree : tree[m].parent < m /\ tree[m].parent \in Nat
  <2>1. ASSUME NEW m \in DOMAIN tree PROVE tree[m] \in Node
    BY <1>1, ElementOfSeq
  <2> QED BY <2>1 DEF IInv, TreeOrdered, Node
<1>11. Children(tree', Len(tree) + 1) = {}
  <2>1. ASSUME NEW m \in DOMAIN tree', tree'[m].parent = Len(tree) + 1
        PROVE  FALSE
    <3>1. CASE m \in DOMAIN tree
      BY <1>2, <1>3, <1>5, <1>10, <2>1, <3>1
    <3>2. CASE m = Len(tree) + 1
      BY <1>2, <1>6, <2>1, <3>2
    <3> QED BY <1>4, <3>1, <3>2
  <2> QED BY <2>1 DEF Children
<1> QED BY <1>2, <1>3, <1>4, <1>5, <1>7, <1>8, <1>9, <1>11

-----------------------------------------------------------------------------
(* parse_node() on a value it accepts: the new node, and the activation    *)
(* that counts it or, for a collection, the one that opens.                *)

(* A value that nothing refuses makes a node for which both limits have    *)
(* room.                                                                   *)
LEMMA NewNodeFacts ==
  ASSUME IInv, NEW e \in Event, NEW parent \in Nat,
         NodeRejection(e, Len(calls) + 1) = "none"
  PROVE  /\ NewNode(e, parent, Len(calls) + 1) \in Node
         /\ e.kind \in ValueKinds
         /\ Len(calls) + 1 <= MaxDepth
         /\ Len(tree) + 1 <= MaxNodes
         /\ Len(calls) \in Nat /\ Len(tree) \in Nat /\ Len(events) \in Nat
<1>1. Len(calls) \in Nat /\ Len(tree) \in Nat /\ Len(events) \in Nat
  BY LenProperties DEF IInv, TypeOK
<1>2. FeatureRejection(e) = "none" /\ AccountNode(Len(calls) + 1) = "none"
  BY DEF NodeRejection
<1>3. e.kind \in ValueKinds
  BY <1>2 DEF FeatureRejection, ValueKinds, StartKinds
<1>4. Len(calls) + 1 <= MaxDepth /\ Len(tree) + 1 <= MaxNodes
  BY <1>1, <1>2, LimitsAssumption DEF AccountNode
<1>5. KindOf(e) \in NodeKinds
  BY <1>3 DEF KindOf, ValueKinds, StartKinds, NodeKinds, Collections
<1>6. NewNode(e, parent, Len(calls) + 1) \in Node
  <2>1. e.value \in Scalars \union {""}
    BY DEF Event
  <2>2. Here \in Nat \ {0} /\ Len(calls) + 1 \in Nat \ {0}
    BY <1>1 DEF Here
  <2> QED BY <1>5, <2>1, <2>2 DEF NewNode, Node
<1> QED BY <1>1, <1>3, <1>4, <1>6

(* What refuses a node is one of the failure categories.                   *)
LEMMA RejectionIsCode ==
  ASSUME NEW e \in Event, NEW depth
  PROVE  NodeRejection(e, depth) \in Codes \union {"none"}
<1>1. FeatureRejection(e) \in {"unsupported_feature", "invalid_document", "none"}
  BY DEF FeatureRejection
<1>2. AccountNode(depth) \in {"resource_limit", "none"}
  BY DEF AccountNode
<1> QED BY <1>1, <1>2 DEF NodeRejection, Codes

(* Counting a child changes a frame in nothing but its index.              *)
LEMMA FrameCounts ==
  ASSUME NEW f \in Frame
  PROVE  /\ [f EXCEPT !.index = @ + 1] \in Frame
         /\ [f EXCEPT !.index = @ + 1].node = f.node
         /\ [f EXCEPT !.index = @ + 1].index = f.index + 1
BY DEF Frame

(* A scalar is retained and counted by its caller at once.                 *)
LEMMA ParseScalar ==
  ASSUME IInv, NEW e \in Event, Reads(e), UNCHANGED bytes, NEW parent \in Nat,
         \/ pc = "content" /\ parent = 0
         \/ pc = "item" /\ parent = Top.node,
         NodeRejection(e, Len(calls) + 1) = "none", e.kind = "scalar",
         tree' = Append(tree, NewNode(e, parent, Len(calls) + 1)),
         ReturnTo(calls)
  PROVE  IInv'
<1> DEFINE here == Len(tree) + 1
           node == NewNode(e, parent, Len(calls) + 1)
<1>1. /\ node \in Node /\ Len(calls) + 1 <= MaxDepth /\ Len(tree) + 1 <= MaxNodes
      /\ Len(calls) \in Nat /\ Len(tree) \in Nat /\ Len(events) \in Nat
  BY NewNodeFacts
<1>2. node.parent = parent /\ node.kind = "scalar" /\ node.depth = Len(calls) + 1
  BY DEF NewNode, KindOf
<1>3. parent <= Len(tree) /\ (pc = "item" => parent \in DOMAIN tree)
  BY <1>1, TopFacts, LenProperties DEF IInv, TypeOK
<1> HIDE DEF node
<1>4. /\ tree' \in Seq(Node) /\ Len(tree') = Len(tree) + 1 /\ TreeOrdered'
      /\ DOMAIN tree = 1 .. Len(tree)
      /\ DOMAIN tree' = DOMAIN tree \union {here} /\ here \notin DOMAIN tree
      /\ \A m \in DOMAIN tree : tree'[m] = tree[m]
      /\ tree'[here] = node
      /\ \A n : n # parent => Children(tree', n) = Children(tree, n)
      /\ Children(tree', parent) = Children(tree, parent) \union {here}
      /\ Children(tree', here) = {}
  <2>1. tree' = Append(tree, node) BY DEF node
  <2> QED BY <1>1, <1>2, <1>3, <2>1, TreeGrows
<1>5. /\ calls' \in Seq(Frame) /\ Len(calls') = Len(calls)
      /\ DOMAIN calls' = DOMAIN calls
      /\ \A i \in DOMAIN calls :
           /\ calls'[i].node = calls[i].node
           /\ i # Len(calls) => calls'[i] = calls[i]
           /\ i = Len(calls) => calls'[i].index = calls[i].index + 1
  <2>1. CASE calls = << >>
    BY <2>1 DEF ReturnTo
  <2>2. CASE calls # << >>
    <3>1. pc = "item" BY <2>2 DEF IInv, TypeOK
    <3>2. calls' = [calls EXCEPT ![Len(calls)].index = @ + 1]
      BY <2>2 DEF ReturnTo
    <3>3. calls \in Seq(Frame) BY DEF IInv, TypeOK
    <3>4. Top \in Frame /\ Len(calls) \in 1 .. Len(calls)
      BY <1>1, <3>1, TopFacts
    <3>5. [Top EXCEPT !.index = @ + 1] \in Frame
      BY <3>4, FrameCounts
    <3>6. calls' = [calls EXCEPT ![Len(calls)] = [Top EXCEPT !.index = @ + 1]]
      BY <3>2 DEF Top
    <3>7. calls' \in Seq(Frame) /\ Len(calls') = Len(calls)
      BY <3>3, <3>4, <3>5, <3>6, ExceptSeq
    <3>8. DOMAIN calls' = DOMAIN calls
      BY <3>3, <3>6
    <3>9. \A i \in DOMAIN calls :
             calls'[i] = IF i = Len(calls) THEN [Top EXCEPT !.index = @ + 1]
                                           ELSE calls[i]
      BY <3>3, <3>6
    <3>10. /\ [Top EXCEPT !.index = @ + 1].node = Top.node
           /\ [Top EXCEPT !.index = @ + 1].index = Top.index + 1
      BY <3>4, FrameCounts
    <3> QED BY <3>7, <3>8, <3>9, <3>10 DEF Top
  <2> QED BY <2>1, <2>2
<1>6. \A n : OnStack(n)' <=> OnStack(n)
  BY <1>5 DEF OnStack
<1>7. ~OnStack(here)
  BY <1>4 DEF OnStack, IInv, CallsFollowTree
<1>8. /\ pc \in {"content", "item"} /\ pc' \in {"document_end", "item"}
      /\ pc' = "item" <=> calls' # << >>
      /\ outcome' = outcome
  <2>1. calls # << >> => calls' # << >>
    BY <1>5, LenProperties, EmptySeq DEF IInv, TypeOK
  <2> QED BY <2>1 DEF ReturnTo, Goto
<1>9. TypeOK'
  BY <1>4, <1>5, <1>8, EventsGrow DEF IInv, TypeOK, Labels
<1>10. CallsFollowTree'
  <2> SUFFICES ASSUME NEW i \in DOMAIN calls'
               PROVE  LET n == calls'[i].node
                      IN  /\ n \in DOMAIN tree'
                          /\ tree'[n].kind \in Collections
                          /\ tree'[n].depth = i
                          /\ tree'[n].parent =
                               IF i = 1 THEN 0 ELSE calls'[i - 1].node
                          /\ calls'[i].index =
                               Cardinality({m \in Children(tree', n) : ~OnStack(m)'})
    BY DEF CallsFollowTree, Complete
  <2> DEFINE n == calls'[i].node
  <2>1. /\ n = calls[i].node
        /\ n \in DOMAIN tree
        /\ tree[n].kind \in Collections
        /\ tree[n].depth = i
        /\ tree[n].parent = IF i = 1 THEN 0 ELSE calls[i - 1].node
        /\ calls[i].index = Cardinality(Complete(n))
        /\ i \in DOMAIN calls
    BY <1>5 DEF IInv, CallsFollowTree
  <2> HIDE DEF n
  <2>2. tree'[n] = tree[n] /\ n \in DOMAIN tree'
    BY <1>4, <2>1
  <2>3. tree'[n].parent = IF i = 1 THEN 0 ELSE calls'[i - 1].node
    <3>1. i # 1 => i - 1 \in DOMAIN calls
      BY <2>1, LenProperties DEF IInv, TypeOK
    <3>2. CASE i = 1 BY <2>1, <2>2, <3>2
    <3>3. CASE i # 1
      <4>1. calls'[i - 1].node = calls[i - 1].node BY <1>5, <2>1, <3>1, <3>3
      <4> QED BY <2>1, <2>2, <3>3, <4>1
    <3> QED BY <3>2, <3>3
  <2>4. pc = "item" /\ Len(calls) \in DOMAIN calls
    <3>1. calls # << >> BY <2>1
    <3> QED BY <3>1, TopFacts DEF IInv, TypeOK
  <2>5. parent = calls[Len(calls)].node
    BY <2>4 DEF Top
  <2>6. CASE i = Len(calls)
    <3>1. n = parent BY <2>1, <2>5, <2>6
    <3>2. {m \in Children(tree', n) : ~OnStack(m)'} = Complete(n) \union {here}
      BY <1>4, <1>6, <1>7, <3>1 DEF Complete
    <3>3. here \notin Complete(n)
      BY <1>4 DEF Complete, Children
    <3>4. Cardinality(Complete(n) \union {here}) = Cardinality(Complete(n)) + 1
      BY <3>3, CompleteFinite, FS_AddElement
    <3>5. calls'[i].index = calls[i].index + 1
      BY <1>5, <2>6
    <3> QED BY <2>1, <2>2, <2>3, <3>2, <3>4, <3>5 DEF n
  <2>7. CASE i # Len(calls)
    <3>1. n # parent
      BY <2>1, <2>4, <2>5, <2>7, StackDistinct
    <3>2. {m \in Children(tree', n) : ~OnStack(m)'} = Complete(n)
      BY <1>4, <1>6, <3>1 DEF Complete
    <3>3. calls'[i].index = calls[i].index
      BY <1>5, <2>7
    <3> QED BY <2>1, <2>2, <2>3, <3>2, <3>3 DEF n
  <2> QED BY <2>6, <2>7
<1>11. WithinLimits'
  <2>1. \A m \in DOMAIN tree' : tree'[m].depth <= MaxDepth
    BY <1>1, <1>2, <1>4 DEF IInv, WithinLimits
  <2> QED BY <1>1, <1>4, <1>5, <2>1 DEF IInv, WithinLimits
<1>12. EventLedger'
  <2>1. Allowance[pc] = 2 /\ Allowance[pc'] = 2
    BY <1>8 DEF Allowance
  <2>2. Len(events') = Len(events) + 1
    BY EventsGrow DEF IInv
  <2> QED BY <1>1, <1>4, <1>5, <2>1, <2>2 DEF IInv, EventLedger
<1>13. PairsComplete'
  <2> SUFFICES ASSUME NEW n \in DOMAIN tree', tree'[n].kind = "mapping",
                      ~OnStack(n)
               PROVE  Even(Cardinality(Children(tree', n)))
    BY <1>6 DEF PairsComplete, Arity
  <2>1. n # here
    BY <1>2, <1>4
  <2>2. n \in DOMAIN tree /\ tree[n].kind = "mapping"
    BY <1>4, <2>1
  <2>3. n # parent
    BY <1>4, <2>2, TopFacts DEF OnStack, Top
  <2>4. Children(tree', n) = Children(tree, n)
    BY <1>4, <2>3
  <2>5. Even(Cardinality(Children(tree, n)))
    BY <1>8, <2>2 DEF IInv, PairsComplete, Arity
  <2> QED BY <2>4, <2>5
<1>14. EndNotRead' /\ ReadsNothingAfterEnd'
  BY <1>8, EndOnlyLast DEF EndNotRead
<1> QED BY <1>4, <1>9, <1>10, <1>11, <1>12, <1>13, <1>14 DEF IInv

(* A collection is retained and its activation opens with no child.        *)
LEMMA OpenCollection ==
  ASSUME IInv, NEW e \in Event, Reads(e), UNCHANGED bytes,
         NEW parent \in Nat, NEW path \in ItemPaths,
         \/ pc = "content" /\ parent = 0
         \/ pc = "item" /\ parent = Top.node,
         NodeRejection(e, Len(calls) + 1) = "none", e.kind # "scalar",
         tree' = Append(tree, NewNode(e, parent, Len(calls) + 1)),
         calls' = Append(calls, [node |-> Len(tree) + 1, index |-> 0, path |-> path]),
         Goto("item")
  PROVE  IInv'
<1> DEFINE here  == Len(tree) + 1
           node  == NewNode(e, parent, Len(calls) + 1)
           frame == [node |-> here, index |-> 0, path |-> path]
<1>1. /\ node \in Node /\ Len(calls) + 1 <= MaxDepth /\ Len(tree) + 1 <= MaxNodes
      /\ Len(calls) \in Nat /\ Len(tree) \in Nat /\ Len(events) \in Nat
      /\ e.kind \in ValueKinds
  BY NewNodeFacts
<1>2. /\ node.parent = parent /\ node.depth = Len(calls) + 1
      /\ node.kind \in Collections
  BY <1>1 DEF NewNode, KindOf, ValueKinds, StartKinds, Collections
<1>3. parent <= Len(tree) /\ (pc = "item" => parent \in DOMAIN tree)
  BY <1>1, TopFacts, LenProperties DEF IInv, TypeOK
<1> HIDE DEF node
<1>4. /\ tree' \in Seq(Node) /\ Len(tree') = Len(tree) + 1 /\ TreeOrdered'
      /\ DOMAIN tree = 1 .. Len(tree)
      /\ DOMAIN tree' = DOMAIN tree \union {here} /\ here \notin DOMAIN tree
      /\ \A m \in DOMAIN tree : tree'[m] = tree[m]
      /\ tree'[here] = node
      /\ \A n : n # parent => Children(tree', n) = Children(tree, n)
      /\ Children(tree', parent) = Children(tree, parent) \union {here}
      /\ Children(tree', here) = {}
  <2>1. tree' = Append(tree, node) BY DEF node
  <2> QED BY <1>1, <1>2, <1>3, <2>1, TreeGrows
<1>5. /\ calls' \in Seq(Frame) /\ Len(calls') = Len(calls) + 1
      /\ DOMAIN calls = 1 .. Len(calls) /\ DOMAIN calls' = 1 .. Len(calls) + 1
      /\ \A i \in DOMAIN calls : calls'[i] = calls[i]
      /\ calls'[Len(calls) + 1] = frame
  <2>1. calls \in Seq(Frame) BY DEF IInv, TypeOK
  <2>2. frame \in Frame BY <1>1 DEF Frame, ItemPaths
  <2>3. calls' = Append(calls, frame) OBVIOUS
  <2> HIDE DEF frame
  <2>4. /\ calls' \in Seq(Frame) /\ Len(calls') = Len(calls) + 1
        /\ \A i \in 1 .. Len(calls) : calls'[i] = calls[i]
        /\ calls'[Len(calls) + 1] = frame
    BY <2>1, <2>2, <2>3, AppendProperties
  <2> QED BY <2>1, <2>4, LenProperties
<1>6. \A n : OnStack(n)' <=> OnStack(n) \/ n = here
  <2>1. DOMAIN calls' = DOMAIN calls \union {Len(calls) + 1}
    BY <1>1, <1>5
  <2> QED BY <1>5, <2>1 DEF OnStack
<1>7. /\ pc \in {"content", "item"} /\ pc' = "item"
      /\ calls' # << >> /\ outcome' = outcome
  BY <1>1, <1>5, EmptySeq DEF Goto
<1>8. TypeOK'
  BY <1>4, <1>5, <1>7, EventsGrow DEF IInv, TypeOK, Labels
<1>9. CallsFollowTree'
  <2> SUFFICES ASSUME NEW i \in DOMAIN calls'
               PROVE  LET n == calls'[i].node
                      IN  /\ n \in DOMAIN tree'
                          /\ tree'[n].kind \in Collections
                          /\ tree'[n].depth = i
                          /\ tree'[n].parent =
                               IF i = 1 THEN 0 ELSE calls'[i - 1].node
                          /\ calls'[i].index =
                               Cardinality({m \in Children(tree', n) : ~OnStack(m)'})
    BY DEF CallsFollowTree, Complete
  <2> DEFINE n == calls'[i].node
  <2>1. CASE i \in DOMAIN calls
    <3>1. /\ n = calls[i].node
          /\ n \in DOMAIN tree
          /\ tree[n].kind \in Collections
          /\ tree[n].depth = i
          /\ tree[n].parent = IF i = 1 THEN 0 ELSE calls[i - 1].node
          /\ calls'[i].index = Cardinality(Complete(n))
      BY <1>5, <2>1 DEF IInv, CallsFollowTree
    <3> HIDE DEF n
    <3>2. tree'[n] = tree[n] /\ n \in DOMAIN tree'
      BY <1>4, <3>1
    <3>3. tree'[n].parent = IF i = 1 THEN 0 ELSE calls'[i - 1].node
      <4>1. CASE i = 1 BY <3>1, <3>2, <4>1
      <4>2. CASE i # 1
        <5>1. calls'[i - 1] = calls[i - 1] BY <1>1, <1>5, <2>1, <4>2
        <5> QED BY <3>1, <3>2, <4>2, <5>1
      <4> QED BY <4>1, <4>2
    <3>4. {m \in Children(tree', n) : ~OnStack(m)'} = Complete(n)
      <4>1. n = parent => Children(tree', n) = Children(tree, n) \union {here}
        BY <1>4
      <4>2. n # parent => Children(tree', n) = Children(tree, n)
        BY <1>4
      <4>3. here \notin Children(tree, n)
        BY <1>4 DEF Children
      <4> QED BY <1>6, <4>1, <4>2, <4>3 DEF Complete
    <3> QED BY <3>1, <3>2, <3>3, <3>4 DEF n
  <2>2. CASE i = Len(calls) + 1
    <3>1. n = here /\ calls'[i].index = 0
      BY <1>5, <2>2
    <3>2. tree'[here] = node /\ here \in DOMAIN tree'
      BY <1>4
    <3>3. node.parent = IF i = 1 THEN 0 ELSE calls'[i - 1].node
      <4>1. CASE pc = "content"
        <5>1. Len(calls) = 0 BY <4>1, EmptySeq DEF IInv, TypeOK
        <5> QED BY <1>2, <2>2, <4>1, <5>1
      <4>2. CASE pc = "item"
        <5>1. Len(calls) \in DOMAIN calls /\ Len(calls) # 0
          BY <4>2, TopFacts
        <5>2. i # 1 /\ i - 1 = Len(calls)
          BY <1>1, <2>2, <5>1
        <5>3. calls'[i - 1].node = Top.node
          BY <1>5, <5>1, <5>2 DEF Top
        <5> QED BY <1>2, <4>2, <5>2, <5>3
      <4> QED BY <1>7, <4>1, <4>2
    <3>4. {m \in Children(tree', here) : ~OnStack(m)'} = {}
      BY <1>4
    <3>5. Cardinality({}) = 0
      BY FS_EmptySet
    <3> QED BY <1>2, <2>2, <3>1, <3>2, <3>3, <3>4, <3>5
  <2>3. i \in DOMAIN calls \/ i = Len(calls) + 1
    BY <1>1, <1>5
  <2> HIDE DEF n
  <2> QED BY <2>1, <2>2, <2>3 DEF n
<1>10. WithinLimits'
  <2>1. \A m \in DOMAIN tree' : tree'[m].depth <= MaxDepth
    BY <1>1, <1>2, <1>4 DEF IInv, WithinLimits
  <2> QED BY <1>1, <1>4, <1>5, <2>1 DEF WithinLimits
<1>11. EventLedger'
  <2>1. Allowance[pc] = 2 /\ Allowance[pc'] = 2
    BY <1>7 DEF Allowance
  <2>2. Len(events') = Len(events) + 1
    BY EventsGrow DEF IInv
  <2> QED BY <1>1, <1>4, <1>5, <2>1, <2>2 DEF IInv, EventLedger
<1>12. PairsComplete'
  <2> SUFFICES ASSUME NEW n \in DOMAIN tree', tree'[n].kind = "mapping",
                      ~OnStack(n)'
               PROVE  Even(Cardinality(Children(tree', n)))
    BY DEF PairsComplete, Arity
  <2>1. n # here /\ ~OnStack(n)
    BY <1>6
  <2>2. n \in DOMAIN tree /\ tree[n].kind = "mapping"
    BY <1>4, <2>1
  <2>3. n # parent
    BY <1>4, <2>1, <2>2, TopFacts DEF OnStack, Top
  <2>4. Children(tree', n) = Children(tree, n)
    BY <1>4, <2>3
  <2>5. Even(Cardinality(Children(tree, n)))
    BY <1>7, <2>1, <2>2 DEF IInv, PairsComplete, Arity
  <2> QED BY <2>4, <2>5
<1>13. EndNotRead' /\ ReadsNothingAfterEnd'
  BY <1>1, <1>7, EndOnlyLast DEF EndNotRead, ValueKinds, StartKinds
<1> QED BY <1>4, <1>8, <1>9, <1>10, <1>11, <1>12, <1>13 DEF IInv

-----------------------------------------------------------------------------
(* A collection closes: the activation is popped, and its node becomes one *)
(* of the children its caller has completed.                               *)
LEMMA CloseStep ==
  ASSUME IInv, pc = "item", NEW e \in Event, Reads(e), Closes(e),
         UNCHANGED <<bytes, tree>>,
         tree[Top.node].kind = "mapping" => Even(Top.index),
         ReturnTo(SubSeq(calls, 1, Len(calls) - 1))
  PROVE  IInv'
<1> DEFINE rest == SubSeq(calls, 1, Len(calls) - 1)
           up   == Len(calls) - 1
           t    == Top.node
<1>1. /\ calls \in Seq(Frame) /\ tree \in Seq(Node)
      /\ Len(calls) \in Nat \ {0} /\ DOMAIN calls = 1 .. Len(calls)
      /\ up \in Nat /\ Len(calls) = up + 1
      /\ Len(tree) \in Nat /\ Len(events) \in Nat
  BY TopFacts, LenProperties DEF IInv, TypeOK
<1>2. /\ rest \in Seq(Frame) /\ Len(rest) = up
      /\ \A i \in 1 .. up : rest[i] = calls[i]
  BY <1>1, SubSeqProperties, ElementOfSeq
<1>0. ReturnTo(rest)
  OBVIOUS
<1> HIDE DEF rest, up
<1>3. /\ calls' \in Seq(Frame) /\ Len(calls') = up /\ DOMAIN calls' = 1 .. up
      /\ \A i \in 1 .. up :
           /\ calls'[i].node = calls[i].node
           /\ i # up => calls'[i] = calls[i]
           /\ i = up => calls'[i].index = calls[i].index + 1
  <2>1. CASE rest = << >>
    <3>1. up = 0 /\ calls' = << >> BY <1>0, <1>2, <2>1 DEF ReturnTo
    <3> QED BY <3>1
  <2>2. CASE rest # << >>
    <3>1. up \in 1 .. up /\ up \in 1 .. Len(rest)
      BY <1>1, <1>2, <2>2, EmptySeq
    <3>2. calls' = [rest EXCEPT ![up].index = @ + 1]
      BY <1>0, <1>2, <2>2 DEF ReturnTo
    <3>3. rest[up] \in Frame
      BY <1>2, <3>1, ElementOfSeq
    <3>4. [rest[up] EXCEPT !.index = @ + 1] \in Frame
      BY <3>3, FrameCounts
    <3>5. calls' = [rest EXCEPT ![up] = [rest[up] EXCEPT !.index = @ + 1]]
      BY <3>2
    <3>6. calls' \in Seq(Frame) /\ Len(calls') = Len(rest)
      BY <1>2, <3>1, <3>4, <3>5, ExceptSeq
    <3>7. DOMAIN rest = 1 .. up
      BY <1>2, LenProperties
    <3>8. \A i \in 1 .. up :
            calls'[i] = IF i = up THEN [rest[up] EXCEPT !.index = @ + 1] ELSE rest[i]
      BY <1>2, <3>5, <3>7
    <3>9. /\ [rest[up] EXCEPT !.index = @ + 1].node = rest[up].node
          /\ [rest[up] EXCEPT !.index = @ + 1].index = rest[up].index + 1
      BY <3>3, FrameCounts
    <3> QED BY <1>2, <3>1, <3>5, <3>6, <3>7, <3>8, <3>9
  <2> QED BY <2>1, <2>2
<1>4. t \in DOMAIN tree /\ t = calls[up + 1].node /\ up + 1 \in DOMAIN calls
  BY <1>1, TopFacts DEF Top
<1>5. \A n : OnStack(n)' <=> OnStack(n) /\ n # t
  <2>1. ASSUME NEW n, OnStack(n)' PROVE OnStack(n) /\ n # t
    <3>1. PICK i \in 1 .. up : calls'[i].node = n
      BY <1>3, <2>1 DEF OnStack
    <3>2. i \in DOMAIN calls /\ i # up + 1
      BY <1>1
    <3>3. calls[i].node = n
      BY <1>3, <3>1
    <3> QED BY <1>4, <3>3, <3>2, StackDistinct DEF OnStack
  <2>2. ASSUME NEW n, OnStack(n), n # t PROVE OnStack(n)'
    <3>1. PICK i \in DOMAIN calls : calls[i].node = n
      BY <2>2 DEF OnStack
    <3>2. i \in 1 .. up
      BY <1>1, <1>4, <2>2, <3>1
    <3> QED BY <1>3, <3>1, <3>2 DEF OnStack
  <2> QED BY <2>1, <2>2
<1>6. /\ pc' \in {"document_end", "item"}
      /\ pc' = "item" <=> calls' # << >>
      /\ outcome' = outcome
  <2>1. rest # << >> => calls' # << >>
    BY <1>1, <1>2, <1>3, EmptySeq
  <2> QED BY <1>0, <2>1 DEF ReturnTo, Goto
<1>7. TypeOK'
  BY <1>3, <1>6, EventsGrow DEF IInv, TypeOK, Labels
<1>8. CallsFollowTree'
  <2> SUFFICES ASSUME NEW i \in DOMAIN calls'
               PROVE  LET n == calls'[i].node
                      IN  /\ n \in DOMAIN tree'
                          /\ tree'[n].kind \in Collections
                          /\ tree'[n].depth = i
                          /\ tree'[n].parent =
                               IF i = 1 THEN 0 ELSE calls'[i - 1].node
                          /\ calls'[i].index =
                               Cardinality({m \in Children(tree', n) : ~OnStack(m)'})
    BY DEF CallsFollowTree, Complete
  <2> DEFINE n == calls'[i].node
  <2>1. /\ i \in 1 .. up /\ i \in DOMAIN calls
        /\ n = calls[i].node
        /\ n \in DOMAIN tree
        /\ tree[n].kind \in Collections
        /\ tree[n].depth = i
        /\ tree[n].parent = IF i = 1 THEN 0 ELSE calls[i - 1].node
        /\ calls[i].index = Cardinality(Complete(n))
    <3>1. i \in 1 .. up /\ i \in DOMAIN calls BY <1>1, <1>3
    <3>2. n = calls[i].node BY <1>3, <3>1
    <3> HIDE DEF n
    <3> QED BY <3>1, <3>2 DEF IInv, CallsFollowTree
  <2> HIDE DEF n
  <2>2. tree[n].parent = IF i = 1 THEN 0 ELSE calls'[i - 1].node
    <3>1. CASE i = 1 BY <2>1, <3>1
    <3>2. CASE i # 1
      <4>0. i - 1 \in 1 .. up BY <1>1, <2>1, <3>2
      <4>1. calls'[i - 1].node = calls[i - 1].node BY <1>3, <4>0
      <4> QED BY <2>1, <3>2, <4>1
    <3> QED BY <3>1, <3>2
  <2>3. tree[t].parent = calls[up].node
    <3>1. tree[t].parent = IF up + 1 = 1 THEN 0 ELSE calls[up + 1 - 1].node
      BY <1>1, <1>4 DEF IInv, CallsFollowTree
    <3>2. up + 1 # 1 /\ up + 1 - 1 = up BY <1>1, <2>1
    <3> QED BY <3>1, <3>2
  <2>4. OnStack(t) BY <1>4 DEF OnStack
  <2>5. CASE i = up
    <3>1. t \in Children(tree, n)
      BY <1>4, <2>1, <2>3, <2>5 DEF Children
    <3>2. {m \in Children(tree', n) : ~OnStack(m)'} = Complete(n) \union {t}
      BY <1>5, <3>1 DEF Complete
    <3>3. t \notin Complete(n)
      BY <2>4 DEF Complete
    <3>4. Cardinality(Complete(n) \union {t}) = Cardinality(Complete(n)) + 1
      BY <3>3, CompleteFinite, FS_AddElement
    <3>5. calls'[i].index = calls[i].index + 1
      BY <1>3, <2>1, <2>5
    <3> QED BY <2>1, <2>2, <3>2, <3>4, <3>5 DEF n
  <2>6. CASE i # up
    <3>1. up \in DOMAIN calls BY <1>1, <2>1
    <3>2. n # calls[up].node
      BY <2>1, <2>6, <3>1, StackDistinct
    <3>3. t \notin Children(tree, n)
      BY <2>3, <3>2 DEF Children
    <3>4. {m \in Children(tree', n) : ~OnStack(m)'} = Complete(n)
      BY <1>5, <3>3 DEF Complete
    <3>5. calls'[i].index = calls[i].index
      BY <1>3, <2>1, <2>6
    <3> QED BY <2>1, <2>2, <3>4, <3>5 DEF n
  <2> QED BY <2>5, <2>6
<1>9. PairsComplete'
  <2> SUFFICES ASSUME NEW n \in DOMAIN tree, tree[n].kind = "mapping",
                      ~OnStack(n)'
               PROVE  Even(Cardinality(Children(tree, n)))
    BY DEF PairsComplete, Arity
  <2>1. CASE n = t
    <3>1. ASSUME NEW m \in Children(tree, t), OnStack(m) PROVE FALSE
      <4>1. PICK i \in DOMAIN calls : calls[i].node = m
        BY <3>1 DEF OnStack
      <4>2. tree[m].parent = IF i = 1 THEN 0 ELSE calls[i - 1].node
        BY <4>1 DEF IInv, CallsFollowTree
      <4>3. tree[m].parent = t /\ t # 0
        BY TopFacts DEF Children
      <4>4. i # 1 /\ calls[i - 1].node = t /\ i - 1 \in DOMAIN calls
        BY <1>1, <4>2, <4>3
      <4>5. i - 1 = up + 1
        BY <1>4, <4>4, StackDistinct
      <4> QED BY <1>1, <4>1, <4>5
    <3>2. Complete(t) = Children(tree, t)
      BY <3>1 DEF Complete
    <3>3. Top.index = Cardinality(Complete(t))
      BY <1>1, <1>4 DEF IInv, CallsFollowTree, Top
    <3> QED BY <2>1, <3>2, <3>3
  <2>2. CASE n # t
    <3>1. ~OnStack(n) BY <1>5, <2>2
    <3> QED BY <3>1 DEF IInv, PairsComplete, Arity
  <2> QED BY <2>1, <2>2
<1>10. TreeOrdered' /\ WithinLimits'
  <2>1. Len(calls') <= MaxDepth
    BY <1>1, <1>3, LimitsAssumption DEF IInv, WithinLimits
  <2> QED BY <2>1 DEF IInv, TreeOrdered, WithinLimits
<1>11. EventLedger'
  <2>1. Allowance[pc] = 2 /\ Allowance[pc'] = 2
    BY <1>6 DEF Allowance
  <2>2. Len(events') = Len(events) + 1
    BY EventsGrow DEF IInv
  <2>3. Len(events) + Len(calls) <= 2 * Len(tree) + 2
    BY <2>1 DEF IInv, EventLedger
  <2> QED BY <1>1, <1>3, <2>1, <2>2, <2>3 DEF EventLedger
<1>12. EndNotRead' /\ ReadsNothingAfterEnd'
  BY EndOnlyLast DEF EndNotRead, Closes
<1> QED BY <1>7, <1>8, <1>9, <1>10, <1>11, <1>12 DEF IInv

-----------------------------------------------------------------------------
(* The actions.                                                            *)

(* parse_node() on any event: refused, a scalar or a collection.           *)
LEMMA ParseNodeStep ==
  ASSUME IInv, NEW e \in Event, Reads(e), UNCHANGED bytes,
         NEW parent \in Nat, NEW path \in ItemPaths,
         \/ pc = "content" /\ parent = 0
         \/ pc = "item" /\ parent = Top.node,
         ParseNode(e, parent, path)
  PROVE  IInv'
<1> DEFINE code == NodeRejection(e, Len(calls) + 1)
<1>1. CASE code # "none"
  <2>1. Fail(code, path, Here) /\ code \in Codes
    BY <1>1, RejectionIsCode DEF ParseNode
  <2>2. Here \in Nat BY LenProperties DEF Here, IInv, TypeOK
  <2> HIDE DEF code
  <2> QED BY <2>1, <2>2, FailStep DEF ReadsOrNot
<1>2. CASE code = "none" /\ e.kind = "scalar"
  BY <1>2, ParseScalar DEF ParseNode
<1>3. CASE code = "none" /\ e.kind # "scalar"
  BY <1>3, OpenCollection DEF ParseNode
<1> QED BY <1>1, <1>2, <1>3

(* The places that accept one kind of event: it goes by, or the call       *)
(* fails.                                                                  *)
LEMMA ExpectStep ==
  ASSUME IInv, NEW e \in Event, NEW label, NEW kind, NEW next, NEW code \in Codes,
         label \in {"stream_start", "document_start", "document_end"},
         next \in Labels \ {"item", "done", "failed"},
         kind # "stream_end", Allowance[next] = Allowance[label] + 1,
         Expect(e, label, kind, next, code)
  PROVE  IInv'
<1>1. pc = label /\ Reads(e) /\ UNCHANGED bytes
  BY DEF Expect, Read, Reads
<1>2. CASE e.kind = kind
  <2>1. pc' = next /\ outcome' = outcome /\ UNCHANGED <<tree, calls>>
    BY <1>2 DEF Expect, Goto
  <2> QED BY <1>1, <1>2, <2>1, SkipStep
<1>3. CASE e.kind # kind
  <2>1. Fail(code, Root, Here) BY <1>3 DEF Expect
  <2>2. Root \in ItemPaths BY DEF Root, ItemPaths
  <2>3. Here \in Nat BY LenProperties DEF Here, IInv, TypeOK
  <2> QED BY <1>1, <2>1, <2>2, <2>3, FailStep DEF ReadsOrNot
<1> QED BY <1>2, <1>3

(* Before the first check the invariant holds.                             *)
THEOREM Initially == Init => IInv
<1> SUFFICES ASSUME Init PROVE IInv
  OBVIOUS
<1>1. calls = << >> /\ tree = << >> /\ events = << >> /\ pc = "enter"
      /\ bytes \in Nat /\ outcome = Pending
  BY LimitsAssumption DEF Init
<1>2. TypeOK
  BY <1>1 DEF TypeOK, Labels, Codes, Pending, Root
<1>3. TreeOrdered /\ CallsFollowTree /\ PairsComplete
  BY <1>1 DEF TreeOrdered, CallsFollowTree, PairsComplete
<1>4. WithinLimits
  BY <1>1, LimitsAssumption DEF WithinLimits
<1>5. EventLedger
  BY <1>1 DEF EventLedger, Allowance
<1>6. EndNotRead /\ ReadsNothingAfterEnd
  BY <1>1 DEF EndNotRead, ReadsNothingAfterEnd
<1> QED BY <1>2, <1>3, <1>4, <1>5, <1>6 DEF IInv

(* Every step of the recursive descent keeps it.                           *)
THEOREM Inductive == IInv /\ [Next]_vars => IInv'
<1> SUFFICES ASSUME IInv, [Next]_vars PROVE IInv'
  OBVIOUS
<1>0. Root \in ItemPaths /\ Here \in Nat
  BY LenProperties DEF Root, ItemPaths, Here, IInv, TypeOK
<1>1. CASE CheckBytes
  <2>1. CASE bytes > MaxDocumentBytes
    <3>1. Fail("resource_limit", Root, 0) BY <1>1, <2>1 DEF CheckBytes
    <3>2. "resource_limit" \in Codes BY DEF Codes
    <3> QED BY <1>0, <1>1, <3>1, <3>2, FailStep DEF CheckBytes, ReadsOrNot
  <2>2. CASE ~(bytes > MaxDocumentBytes)
    <3>1. pc = "enter" /\ pc' = "stream_start" /\ outcome' = outcome
          /\ UNCHANGED <<bytes, events, tree, calls>>
      BY <1>1, <2>2 DEF CheckBytes, Goto
    <3>2. calls = << >> /\ calls' = << >> BY <3>1 DEF IInv, TypeOK
    <3>3. TypeOK' BY <3>1 DEF IInv, TypeOK, Labels
    <3>4. CallsFollowTree' BY <3>2 DEF CallsFollowTree
    <3>5. PairsComplete'
      BY <3>1, <3>2 DEF IInv, PairsComplete, OnStack
    <3>6. EventLedger' BY <3>1 DEF IInv, EventLedger, Allowance
    <3> QED BY <3>1, <3>3, <3>4, <3>5, <3>6
            DEF IInv, TreeOrdered, WithinLimits, EndNotRead, ReadsNothingAfterEnd
  <2> QED BY <2>1, <2>2
<1>2. ASSUME NEW e \in Offered, Consume(e) PROVE IInv'
  <2>0. e \in Event BY OfferedAssumption
  <2>1. CASE ReadStreamStart(e)
    BY <2>0, <2>1, ExpectStep DEF ReadStreamStart, Codes, Labels, Allowance
  <2>2. CASE ReadDocumentStart(e)
    <3>1. CASE e.kind = "document_start" /\ e.directives
      <4>1. pc = "document_start" /\ Reads(e) /\ UNCHANGED bytes
            /\ Fail("unsupported_feature", Root, Here)
        BY <2>2, <3>1 DEF ReadDocumentStart, Read, Reads
      <4>2. "unsupported_feature" \in Codes BY DEF Codes
      <4> QED BY <1>0, <2>0, <4>1, <4>2, FailStep DEF ReadsOrNot
    <3>2. CASE ~(e.kind = "document_start" /\ e.directives)
      BY <2>0, <2>2, <3>2, ExpectStep DEF ReadDocumentStart, Codes, Labels, Allowance
    <3> QED BY <3>1, <3>2
  <2>3. CASE ReadContent(e)
    <3>1. pc = "content" /\ Reads(e) /\ UNCHANGED bytes
      BY <2>3 DEF ReadContent, Read, Reads
    <3>2. CASE e.kind = "document_end"
      <4>1. Fail("invalid_document", Root, Here) BY <2>3, <3>2 DEF ReadContent
      <4>2. "invalid_document" \in Codes BY DEF Codes
      <4> QED BY <1>0, <2>0, <3>1, <4>1, <4>2, FailStep DEF ReadsOrNot
    <3>3. CASE e.kind # "document_end"
      <4>1. ParseNode(e, 0, Root) BY <2>3, <3>3 DEF ReadContent
      <4> QED BY <1>0, <2>0, <3>1, <4>1, ParseNodeStep
    <3> QED BY <3>2, <3>3
  <2>4. CASE CloseCollection(e)
    <3>1. pc = "item" /\ Closes(e) /\ Reads(e) /\ UNCHANGED bytes
      BY <2>4 DEF CloseCollection, Read, Reads
    <3>2. CASE tree[Top.node].kind = "mapping" /\ Top.index % 2 # 0
      <4>1. Fail("syntax", Top.path, tree[Top.node].mark)
        BY <2>4, <3>2 DEF CloseCollection
      <4>2. "syntax" \in Codes BY DEF Codes
      <4>3. Top.path \in ItemPaths /\ tree[Top.node].mark \in Nat
        BY <3>1, TopFacts
      <4> QED BY <2>0, <3>1, <4>1, <4>2, <4>3, FailStep DEF ReadsOrNot
    <3>3. CASE ~(tree[Top.node].kind = "mapping" /\ Top.index % 2 # 0)
      <4>1. ReturnTo(SubSeq(calls, 1, Len(calls) - 1)) /\ UNCHANGED tree
        BY <2>4, <3>3 DEF CloseCollection
      <4>2. tree[Top.node].kind = "mapping" => Even(Top.index)
        BY <3>3 DEF Even
      <4> QED BY <2>0, <3>1, <4>1, <4>2, CloseStep
    <3> QED BY <3>2, <3>3
  <2>5. CASE Unterminated(e)
    <3>1. pc = "item" /\ Reads(e) /\ UNCHANGED bytes /\ Fail("syntax", Top.path, Here)
      BY <2>5 DEF Unterminated, Read, Reads
    <3>2. "syntax" \in Codes BY DEF Codes
    <3>3. Top.path \in ItemPaths BY <3>1, TopFacts
    <3> QED BY <1>0, <2>0, <3>1, <3>2, <3>3, FailStep DEF ReadsOrNot
  <2>6. CASE ParseItem(e)
    <3>1. pc = "item" /\ Reads(e) /\ UNCHANGED bytes /\ ParseNode(e, Top.node, NextPath)
      BY <2>6 DEF ParseItem, Read, Reads
    <3>2. Top.node \in Nat /\ NextPath \in ItemPaths BY <3>1, TopFacts
    <3> QED BY <2>0, <3>1, <3>2, ParseNodeStep
  <2>7. CASE ReadDocumentEnd(e)
    BY <2>0, <2>7, ExpectStep DEF ReadDocumentEnd, Codes, Labels, Allowance
  <2>8. CASE ReadStreamEnd(e)
    <3>1. pc = "stream_end" /\ Reads(e) /\ UNCHANGED bytes
      BY <2>8 DEF ReadStreamEnd, Read, Reads
    <3>2. CASE e.kind = "stream_end"
      <4>1. pc' = "done" /\ outcome' = Accepted /\ UNCHANGED <<tree, calls>>
        BY <2>8, <3>2 DEF ReadStreamEnd
      <4> QED BY <2>0, <3>1, <4>1, SkipStep DEF Labels, Allowance
    <3>3. CASE e.kind # "stream_end"
      <4>1. PICK code \in Codes : Fail(code, Root, Here)
        BY <2>8, <3>3 DEF ReadStreamEnd, Codes
      <4> QED BY <1>0, <2>0, <3>1, <4>1, FailStep DEF ReadsOrNot
    <3> QED BY <3>2, <3>3
  <2> QED BY <1>2, <2>1, <2>2, <2>3, <2>4, <2>5, <2>6, <2>7, <2>8 DEF Consume
<1>3. ASSUME NEW code \in ReaderFailures, ReaderThrows(code) PROVE IInv'
  <2>1. pc \notin {"done", "failed"} /\ UNCHANGED <<bytes, events>>
        /\ Fail(code, Root, Here) /\ code \in Codes
    BY <1>3 DEF ReaderThrows, Reading, Codes
  <2> QED BY <1>0, <2>1, FailStep DEF ReadsOrNot
<1>4. CASE UNCHANGED vars
  <2>1. /\ pc' = pc /\ bytes' = bytes /\ events' = events
        /\ tree' = tree /\ calls' = calls /\ outcome' = outcome
    BY <1>4 DEF vars
  <2>2. TypeOK' BY <2>1 DEF IInv, TypeOK
  <2>3. CallsFollowTree'
    <3>1. \A n : Complete(n)' = Complete(n)
      BY <2>1 DEF Complete, OnStack, Children
    <3>2. CallsFollowTree
      BY DEF IInv
    <3> QED BY <2>1, <3>1, <3>2 DEF CallsFollowTree
  <2>4. PairsComplete'
    BY <2>1 DEF IInv, PairsComplete, OnStack
  <2>5. TreeOrdered' /\ WithinLimits' /\ EventLedger'
    BY <2>1 DEF IInv, TreeOrdered, WithinLimits, EventLedger
  <2>6. EndNotRead' /\ ReadsNothingAfterEnd'
    BY <2>1 DEF IInv, EndNotRead, ReadsNothingAfterEnd
  <2> QED BY <2>2, <2>3, <2>4, <2>5, <2>6 DEF IInv
<1> QED BY <1>1, <1>2, <1>3, <1>4 DEF Next

-----------------------------------------------------------------------------
(* The theorems.                                                           *)

(* So it holds throughout the call.                                        *)
THEOREM Invariance == Spec => []IInv
BY Initially, Inductive, PTL DEF Spec

(* Whatever stream the reader returns, every variable keeps its type.      *)
THEOREM TypeCorrect == Spec => []TypeOK
<1>1. IInv => TypeOK BY DEF IInv
<1> QED BY <1>1, Invariance, PTL

(* parse_limits bound the tree and the recursion, for every choice of      *)
(* limits, zero included.                                                  *)
THEOREM LimitsKept == Spec => []WithinLimits
<1>1. IInv => WithinLimits BY DEF IInv
<1> QED BY <1>1, Invariance, PTL

(* The reader returns at most 2 * maximum_nodes + 4 events.                *)
THEOREM WorkBounded == Spec => []EventBudget
<1>1. IInv => EventBudget
  <2> SUFFICES ASSUME IInv PROVE EventBudget
    OBVIOUS
  <2>1. Len(events) \in Nat /\ Len(calls) \in Nat /\ Len(tree) \in Nat
    BY LenProperties DEF IInv, TypeOK
  <2>2. Allowance[pc] \in Nat /\ Allowance[pc] <= 4
    BY DEF IInv, TypeOK, Labels, Allowance
  <2>3. Len(tree) <= MaxNodes /\ MaxNodes \in Nat
    BY LimitsAssumption DEF IInv, WithinLimits
  <2>4. Len(events) + Len(calls) <= 2 * Len(tree) + Allowance[pc]
    BY DEF IInv, EventLedger
  <2> QED BY <2>1, <2>2, <2>3, <2>4 DEF EventBudget
<1> QED BY <1>1, Invariance, PTL

(* Every mapping that has been read has a value for every key, so that no  *)
(* access to children[i + 1] is out of range.                              *)
THEOREM PairsKept == Spec => []PairsComplete
<1>1. IInv => PairsComplete BY DEF IInv
<1> QED BY <1>1, Invariance, PTL

(* The provider is never asked for an event after the stream's end.        *)
THEOREM EndRespected == Spec => []ReadsNothingAfterEnd
<1>1. IInv => ReadsNothingAfterEnd BY DEF IInv
<1> QED BY <1>1, Invariance, PTL

-----------------------------------------------------------------------------
(* How the operators of EventStream change when one event is appended to   *)
(* a stream.                                                               *)

(* A set of naturals that is bounded has a greatest.                       *)
LEMMA GreatestIsIn ==
  ASSUME NEW S \in SUBSET Nat, S # {}, NEW bound \in Nat, \A i \in S : i <= bound
  PROVE  \E o \in S : \A i \in S : i <= o
<1> DEFINE above == {i .. bound : i \in S}
<1>1. above # {} /\ above \subseteq FiniteSubsetsOf(Nat)
  <2>1. ASSUME NEW i \in S PROVE i .. bound \in SUBSET Nat /\ IsFiniteSet(i .. bound)
    <3>1. i \in Int /\ bound \in Int
      OBVIOUS
    <3> QED BY <3>1, FS_Interval
  <2>2. \A x \in above : x \in SUBSET Nat /\ IsFiniteSet(x)
    BY <2>1
  <2>3. PICK i : i \in S
    OBVIOUS
  <2>4. i .. bound \in above
    BY <2>3
  <2> HIDE DEF above
  <2> QED BY <2>2, <2>4 DEF FiniteSubsetsOf
<1>2. PICK x \in above : \A y \in above : ~(<<y, x>> \in StrictSubsetOrdering(Nat))
  <2> HIDE DEF above
  <2>1. IsWellFoundedOn(StrictSubsetOrdering(Nat), FiniteSubsetsOf(Nat))
    BY FS_StrictSubsetOrderingWellFounded
  <2> QED BY <1>1, <2>1, WFMin
<1>3. PICK o \in S : x = o .. bound
  BY <1>2
<1>4. ASSUME NEW i \in S, o < i PROVE FALSE
  <2>1. i .. bound \subseteq o .. bound /\ i .. bound # o .. bound
    <3>1. o \in o .. bound /\ o \notin i .. bound
      BY <1>4
    <3>2. i .. bound \subseteq o .. bound
      BY <1>4
    <3> QED BY <3>1, <3>2
  <2>2. i .. bound \in SUBSET Nat /\ o .. bound \in SUBSET Nat /\ i .. bound \in above
    OBVIOUS
  <2> QED BY <1>2, <1>3, <2>1, <2>2 DEF StrictSubsetOrdering
<1> QED BY <1>4

(* The events before and up to the new one.                                *)
LEMMA Appended ==
  ASSUME NEW s \in Seq(Event), NEW e \in Event
  PROVE  /\ Append(s, e) \in Seq(Event)
         /\ Len(s) \in Nat /\ Len(Append(s, e)) = Len(s) + 1
         /\ DOMAIN s = 1 .. Len(s)
         /\ DOMAIN Append(s, e) = DOMAIN s \union {Len(s) + 1}
         /\ Len(s) + 1 \notin DOMAIN s
         /\ \A i \in DOMAIN s : Append(s, e)[i] = s[i]
         /\ Append(s, e)[Len(s) + 1] = e
<1>1. /\ Append(s, e) \in Seq(Event)
      /\ Len(s) \in Nat /\ Len(Append(s, e)) = Len(s) + 1
      /\ DOMAIN s = 1 .. Len(s)
      /\ DOMAIN Append(s, e) = 1 .. Len(s) + 1
      /\ \A i \in 1 .. Len(s) : Append(s, e)[i] = s[i]
      /\ Append(s, e)[Len(s) + 1] = e
  BY AppendProperties, LenProperties
<1>2. 1 .. Len(s) + 1 = (1 .. Len(s)) \union {Len(s) + 1} /\ Len(s) + 1 \notin 1 .. Len(s)
  BY <1>1
<1> QED BY <1>1, <1>2

(* A part of a stream is a stream.                                         *)
LEMMA PartIsStream ==
  ASSUME NEW s \in Seq(Event), NEW i \in 1 .. Len(s) + 1, NEW j \in 0 .. Len(s)
  PROVE  /\ SubSeq(s, i, j) \in Seq(Event)
         /\ Len(SubSeq(s, i, j)) = IF i <= j THEN j - i + 1 ELSE 0
         /\ \A k \in 1 .. j - i + 1 : SubSeq(s, i, j)[k] = s[i + k - 1]
<1>1. Len(s) \in Nat /\ i \in Int /\ j \in Int
  BY LenProperties
<1>2. \A k \in i .. j : s[k] \in Event
  BY <1>1, ElementOfSeq
<1> QED BY <1>1, <1>2, SubSeqProperties

(* What a part of the longer stream is.                                    *)
LEMMA PartOfAppended ==
  ASSUME NEW s \in Seq(Event), NEW e \in Event, NEW i \in 1 .. Len(s) + 1
  PROVE  /\ \A j \in 0 .. Len(s) : SubSeq(Append(s, e), i, j) = SubSeq(s, i, j)
         /\ SubSeq(Append(s, e), i, Len(s) + 1) = Append(SubSeq(s, i, Len(s)), e)
<1> DEFINE t == Append(s, e)
<1>1. /\ t \in Seq(Event) /\ Len(s) \in Nat /\ Len(t) = Len(s) + 1
      /\ \A k \in 1 .. Len(s) : t[k] = s[k]
      /\ t[Len(s) + 1] = e
  BY Appended
<1> HIDE DEF t
<1>2. ASSUME NEW j \in 0 .. Len(s) PROVE SubSeq(t, i, j) = SubSeq(s, i, j)
  <2>1. i \in 1 .. Len(t) + 1 /\ j \in 0 .. Len(t)
    BY <1>1
  <2>2. /\ SubSeq(s, i, j) \in Seq(Event) /\ SubSeq(t, i, j) \in Seq(Event)
        /\ Len(SubSeq(s, i, j)) = Len(SubSeq(t, i, j))
        /\ Len(SubSeq(s, i, j)) = IF i <= j THEN j - i + 1 ELSE 0
        /\ \A k \in 1 .. j - i + 1 : SubSeq(s, i, j)[k] = s[i + k - 1]
        /\ \A k \in 1 .. j - i + 1 : SubSeq(t, i, j)[k] = t[i + k - 1]
    BY <1>1, <2>1, PartIsStream
  <2>3. \A k \in 1 .. Len(SubSeq(s, i, j)) : SubSeq(s, i, j)[k] = SubSeq(t, i, j)[k]
    BY <1>1, <2>2
  <2> QED BY <2>2, <2>3, SeqEqual
<1>3. SubSeq(t, i, Len(s) + 1) = Append(SubSeq(s, i, Len(s)), e)
  <2> DEFINE part == SubSeq(s, i, Len(s))
             left == SubSeq(t, i, Len(s) + 1)
             right == Append(part, e)
  <2>1. i \in 1 .. Len(t) + 1 /\ Len(s) + 1 \in 0 .. Len(t) /\ Len(s) \in 0 .. Len(s)
    BY <1>1
  <2>2. /\ part \in Seq(Event) /\ left \in Seq(Event)
        /\ Len(part) = IF i <= Len(s) THEN Len(s) - i + 1 ELSE 0
        /\ Len(left) = IF i <= Len(s) + 1 THEN Len(s) + 1 - i + 1 ELSE 0
        /\ \A k \in 1 .. Len(s) - i + 1 : part[k] = s[i + k - 1]
        /\ \A k \in 1 .. Len(s) + 1 - i + 1 : left[k] = t[i + k - 1]
    <3>1. i \in 1 .. Len(s) + 1 /\ s \in Seq(Event)
      BY <1>1
    <3>2. /\ part \in Seq(Event)
          /\ Len(part) = IF i <= Len(s) THEN Len(s) - i + 1 ELSE 0
          /\ \A k \in 1 .. Len(s) - i + 1 : part[k] = s[i + k - 1]
      BY <2>1, <3>1, PartIsStream
    <3>3. /\ left \in Seq(Event)
          /\ Len(left) = IF i <= Len(s) + 1 THEN Len(s) + 1 - i + 1 ELSE 0
          /\ \A k \in 1 .. Len(s) + 1 - i + 1 : left[k] = t[i + k - 1]
      BY <1>1, <2>1, PartIsStream
    <3> QED BY <3>2, <3>3
  <2> HIDE DEF part, left
  <2>3. /\ right \in Seq(Event) /\ Len(right) = Len(part) + 1
        /\ \A k \in 1 .. Len(part) : right[k] = part[k]
        /\ right[Len(part) + 1] = e
    BY <2>2, AppendProperties
  <2> HIDE DEF right
  <2>4. Len(part) = Len(s) - i + 1 /\ Len(left) = Len(s) - i + 2 /\ Len(right) = Len(left)
    BY <1>1, <2>2, <2>3
  <2>5. ASSUME NEW k \in 1 .. Len(left) PROVE left[k] = right[k]
    <3>1. CASE k \in 1 .. Len(s) - i + 1
      <4>1. i + k - 1 \in 1 .. Len(s) /\ k \in 1 .. Len(s) + 1 - i + 1
        BY <1>1, <3>1
      <4> QED BY <1>1, <2>2, <2>3, <2>4, <3>1, <4>1
    <3>2. CASE k = Len(s) - i + 2
      <4>1. i + k - 1 = Len(s) + 1 /\ k \in 1 .. Len(s) + 1 - i + 1 /\ k = Len(part) + 1
        BY <1>1, <2>4, <3>2
      <4> QED BY <1>1, <2>2, <2>3, <4>1
    <3> QED BY <1>1, <2>4, <3>1, <3>2
  <2>6. left = right
    BY <2>2, <2>3, <2>4, <2>5, SeqEqual
  <2> QED BY <2>6 DEF left, right, part
<1> QED BY <1>2, <1>3 DEF t

(* The positions of the events of some kinds.                              *)
LEMMA PositionsFinite ==
  ASSUME NEW s \in Seq(Event), NEW kinds
  PROVE  /\ Positions(s, kinds) \subseteq 1 .. Len(s)
         /\ IsFiniteSet(Positions(s, kinds))
         /\ Cardinality(Positions(s, kinds)) \in Nat
<1>1. DOMAIN s = 1 .. Len(s) /\ Len(s) \in Nat
  BY LenProperties
<1>2. Positions(s, kinds) \subseteq 1 .. Len(s)
  BY <1>1 DEF Positions
<1>3. IsFiniteSet(1 .. Len(s))
  BY <1>1, FS_Interval
<1> QED BY <1>2, <1>3, FS_Subset, FS_CardinalityType

(* An event is counted with the kinds it belongs to, and with no others.   *)
LEMMA PositionsGrow ==
  ASSUME NEW s \in Seq(Event), NEW e \in Event, NEW kinds
  PROVE  /\ e.kind \in kinds =>
              /\ Positions(Append(s, e), kinds) = Positions(s, kinds) \union {Len(s) + 1}
              /\ Cardinality(Positions(Append(s, e), kinds)) = Cardinality(Positions(s, kinds)) + 1
         /\ e.kind \notin kinds => Positions(Append(s, e), kinds) = Positions(s, kinds)
<1>1. CASE e.kind \in kinds
  <2>1. Positions(Append(s, e), kinds) = Positions(s, kinds) \union {Len(s) + 1}
    BY <1>1, Appended DEF Positions
  <2>2. Len(s) + 1 \notin Positions(s, kinds)
    BY Appended DEF Positions
  <2> QED BY <1>1, <2>1, <2>2, PositionsFinite, FS_AddElement
<1>2. CASE e.kind \notin kinds
  BY <1>2, Appended DEF Positions
<1> QED BY <1>1, <1>2

(* The level of a stream.                                                  *)
LEMMA LevelSteps ==
  ASSUME NEW s \in Seq(Event), NEW e \in Event
  PROVE  /\ Level(s) \in Int
         /\ e.kind \in StartKinds => Level(Append(s, e)) = Level(s) + 1
         /\ e.kind \in EndKinds => Level(Append(s, e)) = Level(s) - 1
         /\ e.kind \notin StartKinds \union EndKinds => Level(Append(s, e)) = Level(s)
<1>1. StartKinds \cap EndKinds = {}
  BY DEF StartKinds, EndKinds
<1>2. /\ Cardinality(Positions(s, StartKinds)) \in Nat
      /\ Cardinality(Positions(s, EndKinds)) \in Nat
  BY PositionsFinite
<1>3. CASE e.kind \in StartKinds
  <2>1. /\ Cardinality(Positions(Append(s, e), StartKinds)) =
             Cardinality(Positions(s, StartKinds)) + 1
        /\ Positions(Append(s, e), EndKinds) = Positions(s, EndKinds)
    BY <1>1, <1>3, PositionsGrow
  <2> QED BY <1>1, <1>2, <1>3, <2>1 DEF Level
<1>4. CASE e.kind \in EndKinds
  <2>1. /\ Cardinality(Positions(Append(s, e), EndKinds)) =
             Cardinality(Positions(s, EndKinds)) + 1
        /\ Positions(Append(s, e), StartKinds) = Positions(s, StartKinds)
    BY <1>1, <1>4, PositionsGrow
  <2> QED BY <1>1, <1>2, <1>4, <2>1 DEF Level
<1>5. CASE e.kind \notin StartKinds \union EndKinds
  <2>1. /\ Positions(Append(s, e), EndKinds) = Positions(s, EndKinds)
        /\ Positions(Append(s, e), StartKinds) = Positions(s, StartKinds)
    BY <1>5, PositionsGrow
  <2> QED BY <1>2, <1>5, <2>1 DEF Level
<1> QED BY <1>3, <1>4, <1>5

(* The depth since position i counts from nothing when the stream has just *)
(* reached it.                                                             *)
LEMMA LevelSince ==
  ASSUME NEW s \in Seq(Event), NEW e \in Event, NEW i \in 1 .. Len(s) + 1
  PROVE  LET was == Level(SubSeq(s, i, Len(s)))
             is  == Level(SubSeq(Append(s, e), i, Len(s) + 1))
         IN  /\ was \in Int
             /\ i = Len(s) + 1 => was = 0
             /\ e.kind \in StartKinds => is = was + 1
             /\ e.kind \in EndKinds => is = was - 1
             /\ e.kind \notin StartKinds \union EndKinds => is = was
<1>1. Len(s) \in Nat /\ Len(s) \in 0 .. Len(s)
  BY LenProperties
<1>2. /\ SubSeq(s, i, Len(s)) \in Seq(Event)
      /\ SubSeq(Append(s, e), i, Len(s) + 1) = Append(SubSeq(s, i, Len(s)), e)
  BY <1>1, PartIsStream, PartOfAppended
<1>3. ASSUME i = Len(s) + 1 PROVE Level(SubSeq(s, i, Len(s))) = 0
  <2>1. SubSeq(s, i, Len(s)) = << >>
    BY <1>1, <1>3, SubSeqEmpty
  <2>2. \A kinds : Positions(<< >>, kinds) = {}
    BY DEF Positions
  <2>3. Level(<< >>) = 0 - 0
    BY <2>2, FS_EmptySet DEF Level
  <2> QED BY <2>1, <2>3
<1> QED BY <1>2, <1>3, LevelSteps

(* The collections that are open.                                          *)
LEMMA OpenBounds ==
  ASSUME NEW s \in Seq(Event)
  PROVE  /\ Open(s) \subseteq Positions(s, StartKinds)
         /\ Open(s) \subseteq 1 .. Len(s) /\ IsFiniteSet(Open(s))
         /\ Cardinality(Open(s)) \in Nat
<1>1. Open(s) \subseteq Positions(s, StartKinds)
  BY DEF Open
<1> QED BY <1>1, PositionsFinite, FS_Subset, FS_CardinalityType

(* A start opens a collection, an end closes those that are one level      *)
(* deep, and any other event leaves the open collections alone.            *)
LEMMA OpenSteps ==
  ASSUME NEW s \in Seq(Event), NEW e \in Event
  PROVE  /\ e.kind \in StartKinds => Open(Append(s, e)) = Open(s) \union {Len(s) + 1}
         /\ e.kind \in EndKinds =>
              Open(Append(s, e)) = {i \in Open(s) : Level(SubSeq(s, i, Len(s))) > 1}
         /\ e.kind \notin StartKinds \union EndKinds => Open(Append(s, e)) = Open(s)
<1> DEFINE t == Append(s, e)
<1>1. /\ t \in Seq(Event) /\ Len(s) \in Nat /\ Len(t) = Len(s) + 1
      /\ DOMAIN t = DOMAIN s \union {Len(s) + 1} /\ DOMAIN s = 1 .. Len(s)
      /\ \A i \in DOMAIN s : t[i] = s[i]
      /\ t[Len(s) + 1] = e
  BY Appended
<1>2. Open(s) \subseteq 1 .. Len(s) /\ Open(t) \subseteq 1 .. Len(s) + 1
  BY <1>1, OpenBounds
<1>3. \A i \in 1 .. Len(s) : /\ i \in Positions(t, StartKinds) <=> i \in Positions(s, StartKinds)
                             /\ \A j \in i .. Len(s) : SubSeq(t, i, j) = SubSeq(s, i, j)
  <2>1. ASSUME NEW i \in 1 .. Len(s), NEW j \in i .. Len(s) PROVE SubSeq(t, i, j) = SubSeq(s, i, j)
    <3>1. i \in 1 .. Len(s) + 1 /\ j \in 0 .. Len(s)
      BY <1>1
    <3> QED BY <3>1, PartOfAppended
  <2> QED BY <1>1, <2>1 DEF Positions
<1> HIDE DEF t
<1>4. ASSUME NEW i \in 1 .. Len(s)
      PROVE  i \in Open(t) <=> i \in Open(s) /\ Level(SubSeq(t, i, Len(s) + 1)) > 0
  <2>1. i .. Len(t) = (i .. Len(s)) \union {Len(s) + 1}
    BY <1>1
  <2> QED BY <1>3, <2>1 DEF Open
<1>5. Len(s) + 1 \in Open(t) <=> e.kind \in StartKinds
  <2>1. (Len(s) + 1) .. Len(t) = {Len(s) + 1}
    BY <1>1
  <2>2. Len(s) + 1 \in 1 .. Len(s) + 1
    BY <1>1
  <2>3. e.kind \in StartKinds => Level(SubSeq(t, Len(s) + 1, Len(s) + 1)) = 1
    BY <2>2, LevelSince DEF t
  <2>4. Len(s) + 1 \in Positions(t, StartKinds) <=> e.kind \in StartKinds
    BY <1>1 DEF Positions
  <2> QED BY <2>1, <2>3, <2>4 DEF Open
<1>6. ASSUME NEW i \in Open(s)
      PROVE  /\ i \in 1 .. Len(s) + 1 /\ Level(SubSeq(s, i, Len(s))) > 0
             /\ Level(SubSeq(s, i, Len(s))) \in Int
  <2>1. i \in 1 .. Len(s) /\ i \in 1 .. Len(s) + 1 /\ Len(s) \in i .. Len(s)
    BY <1>1, <1>2
  <2> QED BY <2>1, LevelSince DEF Open
<1>7. 1 .. Len(s) + 1 = (1 .. Len(s)) \union {Len(s) + 1} /\ Len(s) + 1 \notin 1 .. Len(s)
  BY <1>1
<1>8. CASE e.kind \in StartKinds
  <2>1. \A i \in Open(s) : Level(SubSeq(t, i, Len(s) + 1)) > 0
    BY <1>6, <1>8, LevelSince DEF t
  <2>2. Open(t) = Open(s) \union {Len(s) + 1}
    BY <1>2, <1>4, <1>5, <1>7, <1>8, <2>1
  <2> QED BY <1>8, <2>2 DEF t, StartKinds, EndKinds
<1>9. CASE e.kind \in EndKinds
  <2>1. e.kind \notin StartKinds
    BY <1>9 DEF StartKinds, EndKinds
  <2>2. \A i \in Open(s) : Level(SubSeq(t, i, Len(s) + 1)) > 0 <=> Level(SubSeq(s, i, Len(s))) > 1
    BY <1>6, <1>9, LevelSince DEF t
  <2>3. Open(t) = {i \in Open(s) : Level(SubSeq(s, i, Len(s))) > 1}
    BY <1>2, <1>4, <1>5, <1>7, <2>1, <2>2
  <2> QED BY <1>9, <2>1, <2>3 DEF t
<1>10. CASE e.kind \notin StartKinds \union EndKinds
  <2>1. \A i \in Open(s) : Level(SubSeq(t, i, Len(s) + 1)) > 0
    BY <1>6, <1>10, LevelSince DEF t
  <2>2. Open(t) = Open(s)
    BY <1>2, <1>4, <1>5, <1>7, <1>10, <2>1
  <2> QED BY <1>10, <2>2 DEF t
<1> QED BY <1>8, <1>9, <1>10

(* The innermost is the greatest of them.                                  *)
LEMMA InnermostIs ==
  ASSUME NEW s \in Seq(Event)
  PROVE  /\ Innermost(s) \in 0 .. Len(s)
         /\ Open(s) = {} => Innermost(s) = 0
         /\ Open(s) # {} => Innermost(s) \in Open(s) /\ Innermost(s) > 0
         /\ \A o \in Open(s) : (\A i \in Open(s) : i <= o) => Innermost(s) = o
<1>1. Len(s) \in Nat /\ Open(s) \subseteq 1 .. Len(s)
  BY OpenBounds, LenProperties
<1>2. CASE Open(s) = {}
  BY <1>1, <1>2 DEF Innermost
<1>3. CASE Open(s) # {}
  <2>1. Open(s) \in SUBSET Nat /\ \A i \in Open(s) : i <= Len(s)
    BY <1>1
  <2>2. \E o \in Open(s) : \A i \in Open(s) : i <= o
    BY <1>1, <1>3, <2>1, GreatestIsIn
  <2>3. Innermost(s) \in Open(s) /\ \A i \in Open(s) : i <= Innermost(s)
    BY <1>3, <2>2 DEF Innermost
  <2>4. Innermost(s) \in 1 .. Len(s)
    BY <1>1, <2>3
  <2> QED BY <1>1, <1>3, <2>3, <2>4
<1> QED BY <1>2, <1>3

(* What stands before a place does not change.                             *)
LEMMA BeforeStays ==
  ASSUME NEW s \in Seq(Event), NEW e \in Event
  PROVE  /\ \A i \in 1 .. Len(s) : Before(Append(s, e), i) = Before(s, i)
         /\ Before(Append(s, e), Len(s) + 1) = s
         /\ \A i \in 1 .. Len(s) : /\ Before(s, i) \in Seq(Event)
                                   /\ Len(Before(s, i)) = i - 1
<1>1. Len(s) \in Nat /\ 1 \in 1 .. Len(s) + 1
  BY LenProperties
<1>2. SubSeq(Append(s, e), 1, Len(s)) = s
  BY <1>1, PartOfAppended, SubSeqFull
<1>3. Len(s) + 1 - 1 = Len(s)
  BY <1>1
<1>4. ASSUME NEW i \in 1 .. Len(s)
      PROVE  /\ Before(Append(s, e), i) = Before(s, i)
             /\ Before(s, i) \in Seq(Event) /\ Len(Before(s, i)) = i - 1
  <2>1. i - 1 \in 0 .. Len(s)
    BY <1>1
  <2>2. Len(SubSeq(s, 1, i - 1)) = i - 1
    BY <1>1, <2>1, PartIsStream
  <2> QED BY <1>1, <2>1, <2>2, PartOfAppended, PartIsStream DEF Before
<1> QED BY <1>2, <1>3, <1>4 DEF Before

(* The values inside a collection are some of the events.                  *)
LEMMA MembersFinite ==
  ASSUME NEW s \in Seq(Event), NEW o
  PROVE  /\ Members(s, o) \subseteq 1 .. Len(s)
         /\ IsFiniteSet(Members(s, o)) /\ Cardinality(Members(s, o)) \in Nat
<1>1. Members(s, o) \subseteq Positions(s, ValueKinds)
  BY DEF Members
<1> QED BY <1>1, PositionsFinite, FS_Subset, FS_CardinalityType

(* A value is a member of the collection that is the innermost there.      *)
LEMMA MembersGrow ==
  ASSUME NEW s \in Seq(Event), NEW e \in Event, NEW o
  PROVE  /\ e.kind \in ValueKinds /\ Innermost(s) = o =>
              /\ Members(Append(s, e), o) = Members(s, o) \union {Len(s) + 1}
              /\ Cardinality(Members(Append(s, e), o)) = Cardinality(Members(s, o)) + 1
         /\ e.kind \notin ValueKinds \/ Innermost(s) # o => Members(Append(s, e), o) = Members(s, o)
         /\ o > Len(s) /\ o \in Nat => Members(s, o) = {} /\ Members(Append(s, e), o) = {}
<1> DEFINE t == Append(s, e)
           new == {i \in {Len(s) + 1} : e.kind \in ValueKinds /\ Innermost(s) = o}
<1>1. Positions(t, ValueKinds) =
        Positions(s, ValueKinds) \union {i \in {Len(s) + 1} : e.kind \in ValueKinds}
  BY PositionsGrow
<1>2. Positions(s, ValueKinds) \subseteq 1 .. Len(s) /\ Len(s) \in Nat
  BY PositionsFinite, LenProperties
<1>3. Members(t, o) = Members(s, o) \union new
  <2>1. \A i \in Positions(s, ValueKinds) : Before(t, i) = Before(s, i)
    BY <1>2, BeforeStays
  <2>2. Before(t, Len(s) + 1) = s
    BY BeforeStays
  <2> HIDE DEF t
  <2> QED BY <1>1, <2>1, <2>2 DEF Members
<1>4. Len(s) + 1 \notin Members(s, o)
  BY <1>2 DEF Members
<1>5. e.kind \in ValueKinds /\ Innermost(s) = o =>
        Cardinality(Members(t, o)) = Cardinality(Members(s, o)) + 1
  <2>1. IsFiniteSet(Members(s, o))
    BY MembersFinite
  <2>2. Cardinality(Members(s, o) \union {Len(s) + 1}) = Cardinality(Members(s, o)) + 1
    BY <1>4, <2>1, FS_AddElement
  <2>3. e.kind \in ValueKinds /\ Innermost(s) = o => new = {Len(s) + 1}
    OBVIOUS
  <2> HIDE DEF new, t
  <2> QED BY <1>3, <2>2, <2>3
<1>6. ASSUME o > Len(s), o \in Nat PROVE Members(s, o) = {} /\ new = {}
  <2>1. ASSUME NEW i \in Positions(s, ValueKinds) PROVE Innermost(Before(s, i)) # o
    <3>1. Before(s, i) \in Seq(Event) /\ Len(Before(s, i)) = i - 1 /\ i \in 1 .. Len(s)
      BY <1>2, BeforeStays
    <3> HIDE DEF Before
    <3>2. Innermost(Before(s, i)) \in 0 .. i - 1
      BY <3>1, InnermostIs
    <3> QED BY <1>2, <1>6, <3>1, <3>2
  <2>2. Innermost(s) \in 0 .. Len(s)
    BY InnermostIs
  <2>3. Innermost(s) # o
    BY <1>2, <1>6, <2>2
  <2> QED BY <2>1, <2>3 DEF Members
<1> QED BY <1>3, <1>5, <1>6

-----------------------------------------------------------------------------
(* The activations and the collections that the events leave open.         *)

(* Under the mirror the innermost activation is the innermost collection,  *)
(* and the positions of both grow with the depth.                          *)
LEMMA StackFacts ==
  ASSUME IInv, StackMirrorsEvents
  PROVE  /\ events \in Seq(Event) /\ Len(events) \in Nat
         /\ Len(calls) \in Nat /\ DOMAIN calls = 1 .. Len(calls)
         /\ Len(tree) \in Nat
         /\ \A i \in DOMAIN calls : /\ OpenedAt(i) \in Open(events)
                                    /\ OpenedAt(i) \in 1 .. Len(events)
                                    /\ calls[i].node \in DOMAIN tree
                                    /\ calls[i].index \in Nat
                                    /\ i # Len(calls) => OpenedAt(i) # Innermost(events)
         /\ calls = << >> <=> Open(events) = {}
         /\ calls = << >> => Innermost(events) = 0
         /\ calls # << >> => /\ Len(calls) \in DOMAIN calls
                             /\ Innermost(events) = OpenedAt(Len(calls))
<1>1. events \in Seq(Event) /\ calls \in Seq(Frame) /\ tree \in Seq(Node)
  BY DEF IInv, TypeOK
<1>2. /\ Len(events) \in Nat /\ Len(calls) \in Nat /\ DOMAIN calls = 1 .. Len(calls)
      /\ Len(tree) \in Nat
      /\ calls # << >> => Len(calls) \in Nat \ {0}
  BY <1>1, LenProperties, EmptySeq
<1>3. \A i \in DOMAIN calls : /\ OpenedAt(i) \in Open(events)
                              /\ OpenedAt(i) \in 1 .. Len(events)
                              /\ calls[i].node \in DOMAIN tree
                              /\ calls[i].index \in Nat
  <2>1. \A i \in DOMAIN calls : calls[i] \in Frame
    BY <1>1, <1>2, ElementOfSeq
  <2>2. \A i \in DOMAIN calls : OpenedAt(i) \in Open(events)
    BY DEF StackMirrorsEvents
  <2> QED BY <1>1, <2>1, <2>2, OpenBounds DEF IInv, CallsFollowTree, Frame
<1>4. calls = << >> <=> Open(events) = {}
  BY <1>2 DEF StackMirrorsEvents
<1>5. calls = << >> => Innermost(events) = 0
  BY <1>1, <1>4, InnermostIs
<1>6. ASSUME calls # << >>
      PROVE  Len(calls) \in DOMAIN calls /\ Innermost(events) = OpenedAt(Len(calls))
  <2>1. Len(calls) \in DOMAIN calls
    BY <1>2, <1>6
  <2>2. \A i \in DOMAIN calls : OpenedAt(i) <= OpenedAt(Len(calls))
    <3>1. ASSUME NEW i \in DOMAIN calls PROVE OpenedAt(i) <= OpenedAt(Len(calls))
      <4>1. CASE i = Len(calls)
        BY <1>2, <1>3, <2>1, <4>1
      <4>2. CASE i < Len(calls)
        <5>1. OpenedAt(i) < OpenedAt(Len(calls))
          BY <2>1, <4>2 DEF StackMirrorsEvents
        <5> QED BY <1>2, <1>3, <2>1, <5>1
      <4> QED BY <1>2, <4>1, <4>2
    <3> QED BY <3>1
  <2>3. \A o \in Open(events) : o <= OpenedAt(Len(calls))
    BY <2>2 DEF StackMirrorsEvents
  <2> QED BY <1>1, <1>3, <2>1, <2>3, InnermostIs
<1>7. ASSUME NEW i \in DOMAIN calls, i # Len(calls) PROVE OpenedAt(i) # Innermost(events)
  <2>1. calls # << >> /\ Len(calls) \in DOMAIN calls /\ i < Len(calls)
    BY <1>2, <1>7
  <2>2. OpenedAt(i) < OpenedAt(Len(calls))
    BY <2>1 DEF StackMirrorsEvents
  <2>3. OpenedAt(i) \in Int /\ OpenedAt(Len(calls)) \in Int
    BY <1>2, <1>3, <2>1
  <2> QED BY <1>6, <2>1, <2>2, <2>3
<1> QED BY <1>1, <1>2, <1>3, <1>4, <1>5, <1>6, <1>7

(* What reading an event does to what the mirror is made of, when the      *)
(* collection that starts at o has been read before.                       *)
LEMMA MirrorSteps ==
  ASSUME IInv, NEW e \in Event, Reads(e), NEW o \in 1 .. Len(events)
  PROVE  /\ events'[o] = events[o]
         /\ Level(SubSeq(events, o, Len(events))) \in Int
         /\ e.kind \in StartKinds => Level(SubSeq(events', o, Len(events'))) =
                                       Level(SubSeq(events, o, Len(events))) + 1
         /\ e.kind \in EndKinds => Level(SubSeq(events', o, Len(events'))) =
                                       Level(SubSeq(events, o, Len(events))) - 1
         /\ e.kind \notin StartKinds \union EndKinds =>
              Level(SubSeq(events', o, Len(events'))) = Level(SubSeq(events, o, Len(events)))
<1>1. events \in Seq(Event) /\ events' = Append(events, e)
  BY DEF IInv, TypeOK, Reads
<1>2. Len(events) \in Nat /\ Len(events') = Len(events) + 1 /\ o \in 1 .. Len(events) + 1
      /\ o \in DOMAIN events /\ events'[o] = events[o]
  BY <1>1, Appended
<1> QED BY <1>1, <1>2, LevelSince

(* An event that neither is a value nor ends a collection goes by.         *)
LEMMA SkipMirrors ==
  ASSUME IInv, StackMirrorsEvents, NEW e \in Event, Reads(e), UNCHANGED <<tree, calls>>,
         e.kind \notin ValueKinds \union EndKinds
  PROVE  StackMirrorsEvents'
<1>1. events \in Seq(Event) /\ events' = Append(events, e)
  BY DEF IInv, TypeOK, Reads
<1>2. /\ e.kind \notin ValueKinds /\ e.kind \notin EndKinds /\ e.kind \notin StartKinds
      /\ e.kind \notin StartKinds \union EndKinds
  BY DEF ValueKinds
<1>3. Open(events') = Open(events)
  BY <1>1, <1>2, OpenSteps
<1>4. Positions(events', ValueKinds) = Positions(events, ValueKinds)
  BY <1>1, <1>2, PositionsGrow
<1>5. \A o : Members(events', o) = Members(events, o)
  BY <1>1, <1>2, MembersGrow
<1>6. \A i \in DOMAIN calls : OpenedAt(i)' = OpenedAt(i) /\ OpenedAt(i) \in 1 .. Len(events)
  BY StackFacts DEF OpenedAt
<1>7. \A i \in DOMAIN calls :
        /\ events'[OpenedAt(i)] = events[OpenedAt(i)]
        /\ Level(SubSeq(events', OpenedAt(i), Len(events'))) =
             Level(SubSeq(events, OpenedAt(i), Len(events)))
  BY <1>2, <1>6, MirrorSteps
<1> QED BY <1>3, <1>4, <1>5, <1>6, <1>7 DEF StackMirrorsEvents

(* A scalar is one more value of the innermost collection.                 *)
LEMMA ScalarMirrors ==
  ASSUME IInv, StackMirrorsEvents, NEW e \in Event, Reads(e), e.kind = "scalar",
         Len(tree') = Len(tree) + 1, \A m \in DOMAIN tree : tree'[m] = tree[m],
         calls = << >> => calls' = << >>,
         calls # << >> => calls' = [calls EXCEPT ![Len(calls)].index = @ + 1]
  PROVE  StackMirrorsEvents'
<1>1. events \in Seq(Event) /\ events' = Append(events, e)
  BY DEF IInv, TypeOK, Reads
<1>2. /\ e.kind \in ValueKinds /\ e.kind \notin EndKinds /\ e.kind \notin StartKinds
      /\ e.kind \notin StartKinds \union EndKinds
  BY DEF ValueKinds, StartKinds, EndKinds
<1>3. Open(events') = Open(events)
  BY <1>1, <1>2, OpenSteps
<1>4. Cardinality(Positions(events', ValueKinds)) = Cardinality(Positions(events, ValueKinds)) + 1
  BY <1>1, <1>2, PositionsGrow
<1>5. /\ Len(calls') = Len(calls) /\ DOMAIN calls' = DOMAIN calls
      /\ \A i \in DOMAIN calls :
           /\ calls'[i].node = calls[i].node
           /\ calls'[i].index = IF i = Len(calls) THEN calls[i].index + 1 ELSE calls[i].index
  <2>1. CASE calls = << >>
    BY <2>1
  <2>2. CASE calls # << >>
    <3>1. calls \in Seq(Frame) /\ Len(calls) \in 1 .. Len(calls)
      BY <2>2, StackFacts DEF IInv, TypeOK
    <3>2. calls[Len(calls)] \in Frame
      BY <3>1, ElementOfSeq
    <3> DEFINE f == [calls[Len(calls)] EXCEPT !.index = @ + 1]
    <3>3. f \in Frame /\ f.node = calls[Len(calls)].node /\ f.index = calls[Len(calls)].index + 1
      BY <3>2, FrameCounts
    <3>4. calls' = [calls EXCEPT ![Len(calls)] = f]
      BY <2>2
    <3> HIDE DEF f
    <3>5. calls' \in Seq(Frame) /\ Len(calls') = Len(calls)
          /\ \A i \in 1 .. Len(calls) : calls'[i] = IF i = Len(calls) THEN f ELSE calls[i]
      BY <3>1, <3>3, <3>4, ExceptSeq
    <3> QED BY <3>1, <3>3, <3>5, LenProperties
  <2> QED BY <2>1, <2>2
<1>6. \A i \in DOMAIN calls : OpenedAt(i)' = OpenedAt(i) /\ OpenedAt(i) \in 1 .. Len(events)
  BY <1>5, StackFacts DEF OpenedAt
<1>7. \A i \in DOMAIN calls :
        /\ events'[OpenedAt(i)] = events[OpenedAt(i)]
        /\ Level(SubSeq(events', OpenedAt(i), Len(events'))) =
             Level(SubSeq(events, OpenedAt(i), Len(events)))
        /\ tree'[calls[i].node] = tree[calls[i].node]
  BY <1>2, <1>6, MirrorSteps, StackFacts
<1>8. \A i \in DOMAIN calls :
        Cardinality(Members(events', OpenedAt(i))) =
          IF i = Len(calls) THEN Cardinality(Members(events, OpenedAt(i))) + 1
                            ELSE Cardinality(Members(events, OpenedAt(i)))
  BY <1>1, <1>2, MembersGrow, StackFacts
<1>9. \A i \in DOMAIN calls : calls[i].index \in Nat
  BY StackFacts
<1>10. {OpenedAt(i) : i \in DOMAIN calls}' = {OpenedAt(i) : i \in DOMAIN calls}
  BY <1>5, <1>6
<1>11. \A i \in DOMAIN calls' :
         /\ Level(SubSeq(events', OpenedAt(i)', Len(events'))) = Len(calls') - i + 1
         /\ events'[OpenedAt(i)'].kind = IF tree'[calls'[i].node].kind = "sequence"
                                         THEN "sequence_start" ELSE "mapping_start"
         /\ Cardinality(Members(events', OpenedAt(i)')) =
              IF i = Len(calls') THEN calls'[i].index ELSE calls'[i].index + 1
  <2>1. ASSUME NEW i \in DOMAIN calls
        PROVE  Level(SubSeq(events', OpenedAt(i)', Len(events'))) = Len(calls') - i + 1
    BY <1>5, <1>6, <1>7 DEF StackMirrorsEvents
  <2>2. ASSUME NEW i \in DOMAIN calls
        PROVE  events'[OpenedAt(i)'].kind = IF tree'[calls'[i].node].kind = "sequence"
                                         THEN "sequence_start" ELSE "mapping_start"
    <3>1. OpenedAt(i)' = OpenedAt(i) /\ calls'[i].node = calls[i].node
      BY <1>5, <1>6
    <3>2. /\ events'[OpenedAt(i)] = events[OpenedAt(i)]
          /\ tree'[calls[i].node] = tree[calls[i].node]
      BY <1>7
    <3>3. events[OpenedAt(i)].kind = IF tree[calls[i].node].kind = "sequence"
                                       THEN "sequence_start" ELSE "mapping_start"
      BY DEF StackMirrorsEvents
    <3> QED BY <3>1, <3>2, <3>3
  <2>3. ASSUME NEW i \in DOMAIN calls PROVE Cardinality(Members(events', OpenedAt(i)')) =
              IF i = Len(calls') THEN calls'[i].index ELSE calls'[i].index + 1
    <3>1. Cardinality(Members(events, OpenedAt(i))) =
            IF i = Len(calls) THEN calls[i].index ELSE calls[i].index + 1
      BY DEF StackMirrorsEvents
    <3> QED BY <1>5, <1>6, <1>8, <1>9, <3>1
  <2> QED BY <1>5, <2>1, <2>2, <2>3
<1>12. \A i, j \in DOMAIN calls' : i < j => OpenedAt(i)' < OpenedAt(j)'
  BY <1>5, <1>6 DEF StackMirrorsEvents
<1> QED BY <1>3, <1>4, <1>5, <1>10, <1>11, <1>12 DEF StackMirrorsEvents

(* The start of a collection is one more value of the innermost, and from  *)
(* then on the innermost itself.                                           *)
LEMMA OpenMirrors ==
  ASSUME IInv, StackMirrorsEvents, NEW e \in Event, Reads(e), e.kind \in StartKinds,
         NEW node \in Node, node.mark = Here, node.kind = KindOf(e), tree' = Append(tree, node),
         NEW frame \in Frame, frame.node = Len(tree) + 1, frame.index = 0,
         calls' = Append(calls, frame)
  PROVE  StackMirrorsEvents'
<1>0. PICK n : n = Len(calls)
  OBVIOUS
<1> DEFINE here == Len(events) + 1
<1>1. events \in Seq(Event) /\ events' = Append(events, e)
  BY DEF IInv, TypeOK, Reads
<1>2. e.kind \in ValueKinds /\ e.kind \notin EndKinds
  BY DEF ValueKinds, StartKinds, EndKinds
<1>3. Open(events') = Open(events) \union {here}
  BY <1>1, OpenSteps
<1>4. Cardinality(Positions(events', ValueKinds)) = Cardinality(Positions(events, ValueKinds)) + 1
  BY <1>1, <1>2, PositionsGrow
<1>5. /\ events \in Seq(Event) /\ Len(events) \in Nat /\ n \in Nat /\ DOMAIN calls = 1 .. n
      /\ Len(tree) \in Nat
      /\ Len(events') = here /\ events'[here] = e
  BY <1>0, <1>1, StackFacts, Appended
<1>6. /\ Len(calls') = n + 1 /\ DOMAIN calls' = 1 .. n + 1
      /\ \A i \in 1 .. n : calls'[i] = calls[i]
      /\ calls'[n + 1] = frame
      /\ Len(tree') = Len(tree) + 1 /\ tree'[Len(tree) + 1] = node
      /\ \A m \in DOMAIN tree : tree'[m] = tree[m]
  <2>1. calls \in Seq(Frame) /\ tree \in Seq(Node)
    BY DEF IInv, TypeOK
  <2>2. Append(calls, frame) \in Seq(Frame)
    BY <2>1
  <2>3. DOMAIN tree = 1 .. Len(tree)
    BY <2>1, LenProperties
  <2> QED BY <1>0, <2>1, <2>2, <2>3, AppendProperties, LenProperties
<1>7. \A i \in 1 .. n : /\ OpenedAt(i)' = OpenedAt(i) /\ OpenedAt(i) \in 1 .. Len(events)
                        /\ calls'[i] = calls[i] /\ calls[i].index \in Nat
                        /\ tree'[calls'[i].node] = tree[calls[i].node]
  BY <1>5, <1>6, StackFacts DEF OpenedAt
<1>8. OpenedAt(n + 1)' = here
  BY <1>6 DEF OpenedAt, Here
<1>9. \A i \in 1 .. n :
        /\ events'[OpenedAt(i)] = events[OpenedAt(i)]
        /\ Level(SubSeq(events, OpenedAt(i), Len(events))) \in Int
        /\ Level(SubSeq(events', OpenedAt(i), Len(events'))) =
             Level(SubSeq(events, OpenedAt(i), Len(events))) + 1
  BY <1>7, MirrorSteps
<1>10. Level(SubSeq(events', here, Len(events'))) = 1
  <2>1. here \in 1 .. Len(events) + 1
    BY <1>5
  <2>2. Level(SubSeq(Append(events, e), here, Len(events) + 1)) = 0 + 1
    BY <1>1, <2>1, LevelSince
  <2> QED BY <1>1, <1>5, <2>2
<1>11. \A i \in 1 .. n : Cardinality(Members(events', OpenedAt(i))) = calls[i].index + 1
  <2>1. ASSUME NEW i \in 1 .. n
        PROVE  Cardinality(Members(events', OpenedAt(i))) = calls[i].index + 1
    <3>1. Cardinality(Members(events, OpenedAt(i))) =
            IF i = n THEN calls[i].index ELSE calls[i].index + 1
      BY <1>0, <1>5 DEF StackMirrorsEvents
    <3>2. CASE i = n
      <4>1. Innermost(events) = OpenedAt(i)
        BY <1>0, <1>5, <3>2, StackFacts
      <4>2. Cardinality(Members(events', OpenedAt(i)))
              = Cardinality(Members(events, OpenedAt(i))) + 1
        BY <1>1, <1>2, <4>1, MembersGrow
      <4> QED BY <3>1, <3>2, <4>2
    <3>3. CASE i # n
      <4>1. Innermost(events) # OpenedAt(i)
        BY <1>0, <1>5, <3>3, StackFacts
      <4>2. Members(events', OpenedAt(i)) = Members(events, OpenedAt(i))
        BY <1>1, <4>1, MembersGrow
      <4> QED BY <3>1, <3>3, <4>2
    <3> QED BY <3>2, <3>3
  <2> QED BY <2>1
<1>12. Cardinality(Members(events', here)) = 0
  <2>1. here > Len(events) /\ here \in Nat
    BY <1>5
  <2>2. Members(events', here) = {}
    BY <1>1, <2>1, MembersGrow
  <2> QED BY <2>2, FS_EmptySet
<1>13. e.kind = IF node.kind = "sequence" THEN "sequence_start" ELSE "mapping_start"
  BY DEF KindOf, StartKinds
<1> HIDE DEF here
<1>14. 1 .. n + 1 = (1 .. n) \union {n + 1} /\ n + 1 \notin 1 .. n /\ n \in Nat
  BY <1>5
<1>15. Open(events') = {OpenedAt(i)' : i \in 1 .. n + 1}
  <2>1. Open(events) = {OpenedAt(i) : i \in 1 .. n}
    BY <1>5 DEF StackMirrorsEvents
  <2>2. \A i \in 1 .. n : OpenedAt(i)' = OpenedAt(i)
    BY <1>7
  <2>3. OpenedAt(n + 1)' = here /\ Open(events') = Open(events) \union {here}
    BY <1>3, <1>8
  <2>4. {OpenedAt(i)' : i \in 1 .. n + 1} = {OpenedAt(i) : i \in 1 .. n} \union {here}
    BY <1>14, <2>2, <2>3
  <2> QED BY <2>1, <2>3, <2>4
<1>16. Cardinality(Open(events')) = n + 1
  <2>1. IsFiniteSet(Open(events)) /\ here \notin Open(events)
    BY <1>1, <1>5, OpenBounds DEF here
  <2>2. Cardinality(Open(events)) = n
    BY <1>0 DEF StackMirrorsEvents
  <2> QED BY <1>3, <2>1, <2>2, FS_AddElement
<1>17. ASSUME NEW i \in 1 .. n + 1, NEW j \in 1 .. n + 1, i < j
       PROVE  OpenedAt(i)' < OpenedAt(j)'
  <2>1. i \in 1 .. n
    BY <1>14, <1>17
  <2>2. CASE j \in 1 .. n
    <3>1. i \in DOMAIN calls /\ j \in DOMAIN calls
      BY <1>5, <2>1, <2>2
    <3>2. OpenedAt(i) < OpenedAt(j)
      BY <1>17, <3>1 DEF StackMirrorsEvents
    <3> QED BY <1>7, <2>1, <2>2, <3>2
  <2>3. CASE j = n + 1
    BY <1>5, <1>7, <1>8, <2>1, <2>3 DEF here
  <2> QED BY <1>14, <2>2, <2>3
<1>18. ASSUME NEW i \in 1 .. n
       PROVE  /\ Level(SubSeq(events', OpenedAt(i)', Len(events'))) = n + 1 - i + 1
              /\ events'[OpenedAt(i)'].kind = IF tree'[calls'[i].node].kind = "sequence"
                                         THEN "sequence_start" ELSE "mapping_start"
              /\ Cardinality(Members(events', OpenedAt(i)')) = calls'[i].index + 1
  <2>1. Level(SubSeq(events, OpenedAt(i), Len(events))) = n - i + 1
    BY <1>0, <1>5 DEF StackMirrorsEvents
  <2>2. events[OpenedAt(i)].kind = IF tree[calls[i].node].kind = "sequence"
                                         THEN "sequence_start" ELSE "mapping_start"
    BY <1>5 DEF StackMirrorsEvents
  <2>3. Level(SubSeq(events', OpenedAt(i)', Len(events'))) = n + 1 - i + 1
    BY <1>7, <1>9, <1>14, <2>1
  <2>4. events'[OpenedAt(i)'].kind = IF tree'[calls'[i].node].kind = "sequence"
                                         THEN "sequence_start" ELSE "mapping_start"
    BY <1>7, <1>9, <2>2
  <2> QED BY <1>7, <1>11, <2>3, <2>4
<1>19. /\ Level(SubSeq(events', OpenedAt(n + 1)', Len(events'))) = n + 1 - (n + 1) + 1
       /\ events'[OpenedAt(n + 1)'].kind = IF tree'[calls'[n + 1].node].kind = "sequence"
                                         THEN "sequence_start" ELSE "mapping_start"
       /\ Cardinality(Members(events', OpenedAt(n + 1)')) = calls'[n + 1].index
  BY <1>5, <1>6, <1>8, <1>10, <1>12, <1>13, <1>14
<1>20. \A i \in 1 .. n + 1 :
         /\ Level(SubSeq(events', OpenedAt(i)', Len(events'))) = n + 1 - i + 1
         /\ events'[OpenedAt(i)'].kind = IF tree'[calls'[i].node].kind = "sequence"
                                         THEN "sequence_start" ELSE "mapping_start"
         /\ Cardinality(Members(events', OpenedAt(i)')) =
              IF i = n + 1 THEN calls'[i].index ELSE calls'[i].index + 1
  BY <1>14, <1>18, <1>19
<1>21. Cardinality(Positions(events', ValueKinds)) = Len(tree')
  BY <1>4, <1>6 DEF StackMirrorsEvents
<1>22. Len(calls') = n + 1 /\ DOMAIN calls' = 1 .. n + 1
  BY <1>6
<1>23. \A i, j \in DOMAIN calls' : i < j => OpenedAt(i)' < OpenedAt(j)'
  BY <1>17, <1>22
<1>24. \A i \in DOMAIN calls' :
         /\ Level(SubSeq(events', OpenedAt(i)', Len(events'))) = Len(calls') - i + 1
         /\ events'[OpenedAt(i)'].kind = IF tree'[calls'[i].node].kind = "sequence"
                                         THEN "sequence_start" ELSE "mapping_start"
         /\ Cardinality(Members(events', OpenedAt(i)')) =
              IF i = Len(calls') THEN calls'[i].index ELSE calls'[i].index + 1
  <2> SUFFICES ASSUME NEW i \in DOMAIN calls'
               PROVE  /\ Level(SubSeq(events', OpenedAt(i)', Len(events'))) = Len(calls') - i + 1
                      /\ events'[OpenedAt(i)'].kind = IF tree'[calls'[i].node].kind = "sequence"
                                         THEN "sequence_start" ELSE "mapping_start"
                      /\ Cardinality(Members(events', OpenedAt(i)')) =
                           IF i = Len(calls') THEN calls'[i].index ELSE calls'[i].index + 1
    OBVIOUS
  <2>1. i \in 1 .. n + 1
    BY <1>22
  <2>2. Level(SubSeq(events', OpenedAt(i)', Len(events'))) = n + 1 - i + 1
    BY <1>20, <2>1
  <2>3. events'[OpenedAt(i)'].kind = IF tree'[calls'[i].node].kind = "sequence"
                                         THEN "sequence_start" ELSE "mapping_start"
    BY <1>20, <2>1
  <2>4. Cardinality(Members(events', OpenedAt(i)')) =
                           IF i = n + 1 THEN calls'[i].index ELSE calls'[i].index + 1
    BY <1>20, <2>1
  <2> QED BY <1>14, <1>22, <2>1, <2>2, <2>3, <2>4
<1>25. /\ Open(events') = {OpenedAt(i)' : i \in DOMAIN calls'}
       /\ Cardinality(Open(events')) = Len(calls')
  BY <1>15, <1>16, <1>22
<1> QED BY <1>21, <1>23, <1>24, <1>25 DEF StackMirrorsEvents

(* The end of a collection closes the innermost, and its activation        *)
(* returns to the one that counts it.                                      *)
LEMMA CloseMirrors ==
  ASSUME IInv, StackMirrorsEvents, NEW e \in Event, Reads(e), e.kind \in EndKinds,
         calls # << >>, UNCHANGED tree, ReturnTo(SubSeq(calls, 1, Len(calls) - 1))
  PROVE  StackMirrorsEvents'
<1>0. PICK n : n = Len(calls)
  OBVIOUS
<1> DEFINE stack == SubSeq(calls, 1, n - 1)
<1>1. events \in Seq(Event) /\ events' = Append(events, e)
  BY DEF IInv, TypeOK, Reads
<1>2. e.kind \notin ValueKinds
  BY DEF ValueKinds, StartKinds, EndKinds
<1>3. Open(events') = {o \in Open(events) : Level(SubSeq(events, o, Len(events))) > 1}
  BY <1>1, OpenSteps
<1>4. Positions(events', ValueKinds) = Positions(events, ValueKinds)
  BY <1>1, <1>2, PositionsGrow
<1>5. \A o : Members(events', o) = Members(events, o)
  BY <1>1, <1>2, MembersGrow
<1>6. n \in Nat \ {0} /\ DOMAIN calls = 1 .. n /\ n \in DOMAIN calls
  BY <1>0, StackFacts
<1>7. /\ stack \in Seq(Frame) /\ Len(stack) = n - 1
      /\ \A i \in 1 .. n - 1 : stack[i] = calls[i]
  <2>1. calls \in Seq(Frame)
    BY DEF IInv, TypeOK
  <2>2. \A i \in 1 .. n - 1 : calls[i] \in Frame
    BY <1>6, <2>1, ElementOfSeq
  <2>3. 1 \in Int /\ n - 1 \in Int /\ n - 1 - 1 + 1 = n - 1
        /\ (1 <= n - 1 => n - 1 - 1 + 1 = n - 1) /\ (~(1 <= n - 1) => n - 1 = 0)
    BY <1>6
  <2>4. /\ SubSeq(calls, 1, n - 1) \in Seq(Frame)
        /\ Len(SubSeq(calls, 1, n - 1)) = IF 1 <= n - 1 THEN n - 1 - 1 + 1 ELSE 0
        /\ \A i \in 1 .. n - 1 - 1 + 1 : SubSeq(calls, 1, n - 1)[i] = calls[1 + i - 1]
    BY <2>2, <2>3, SubSeqProperties
  <2>5. \A i \in 1 .. n - 1 : 1 + i - 1 = i
    BY <1>6
  <2> QED BY <2>3, <2>4, <2>5 DEF stack
<1> HIDE DEF stack
<1>8. /\ Len(calls') = n - 1 /\ DOMAIN calls' = 1 .. n - 1
      /\ \A i \in 1 .. n - 1 :
           /\ calls'[i].node = calls[i].node
           /\ calls'[i].index = IF i = n - 1 THEN calls[i].index + 1 ELSE calls[i].index
  <2>1. CASE stack = << >>
    <3>1. calls' = << >>
      BY <1>0, <2>1 DEF ReturnTo, stack
    <3>2. n - 1 = 0
      BY <1>7, <2>1
    <3>3. 1 .. n - 1 = {}
      BY <3>2
    <3> QED BY <3>1, <3>2, <3>3
  <2>2. CASE stack # << >>
    <3>1. calls' = [stack EXCEPT ![Len(stack)].index = @ + 1]
      BY <1>0, <2>2 DEF ReturnTo, stack
    <3>2. Len(stack) \in 1 .. Len(stack) /\ n - 1 \in 1 .. n - 1
      BY <1>6, <1>7, <2>2, EmptySeq
    <3>3. stack[n - 1] \in Frame
      BY <1>7, <3>2, ElementOfSeq
    <3> DEFINE f == [stack[n - 1] EXCEPT !.index = @ + 1]
    <3>4. f \in Frame /\ f.node = stack[n - 1].node /\ f.index = stack[n - 1].index + 1
      BY <3>3, FrameCounts
    <3>5. calls' = [stack EXCEPT ![n - 1] = f]
      BY <1>7, <3>1
    <3> HIDE DEF f
    <3>6. calls' \in Seq(Frame) /\ Len(calls') = Len(stack)
          /\ \A i \in 1 .. Len(stack) : calls'[i] = IF i = n - 1 THEN f ELSE stack[i]
      BY <1>7, <3>2, <3>4, <3>5, ExceptSeq
    <3>7. DOMAIN calls' = 1 .. n - 1
      BY <1>7, <3>6, LenProperties
    <3> QED BY <1>7, <3>2, <3>4, <3>6, <3>7
  <2> QED BY <2>1, <2>2
<1>9. \A i \in 1 .. n : /\ OpenedAt(i) \in Open(events) /\ OpenedAt(i) \in 1 .. Len(events)
                        /\ calls[i].index \in Nat
                        /\ Level(SubSeq(events, OpenedAt(i), Len(events))) = n - i + 1
  <2>1. \A i \in DOMAIN calls : Level(SubSeq(events, OpenedAt(i), Len(events))) = Len(calls) - i + 1
    BY DEF StackMirrorsEvents
  <2> QED BY <1>0, <1>6, <2>1, StackFacts
<1>10. \A i \in 1 .. n - 1 : i \in 1 .. n /\ OpenedAt(i)' = OpenedAt(i)
  BY <1>6, <1>8 DEF OpenedAt
<1>11. \A i \in 1 .. n - 1 :
         /\ events'[OpenedAt(i)] = events[OpenedAt(i)]
         /\ Level(SubSeq(events, OpenedAt(i), Len(events))) \in Int
         /\ Level(SubSeq(events', OpenedAt(i), Len(events'))) =
              Level(SubSeq(events, OpenedAt(i), Len(events))) - 1
  BY <1>9, <1>10, MirrorSteps
<1>12. Open(events) = {OpenedAt(i) : i \in 1 .. n}
  BY <1>6 DEF StackMirrorsEvents
<1>13. Open(events') = {OpenedAt(i) : i \in 1 .. n - 1}
  <2>1. \A i \in 1 .. n : Level(SubSeq(events, OpenedAt(i), Len(events))) > 1 <=> i \in 1 .. n - 1
    BY <1>6, <1>9
  <2>2. 1 .. n - 1 \subseteq 1 .. n
    BY <1>6
  <2> QED BY <1>3, <1>12, <2>1, <2>2
<1>14. Open(events') = Open(events) \ {OpenedAt(n)}
  <2>1. Level(SubSeq(events, OpenedAt(n), Len(events))) = 1
    BY <1>6, <1>9
  <2>2. \A i \in 1 .. n : i = n \/ i \in 1 .. n - 1
    BY <1>6
  <2>3. \A i \in 1 .. n - 1 : Level(SubSeq(events, OpenedAt(i), Len(events))) > 1
    BY <1>6, <1>9, <1>10
  <2> QED BY <1>3, <1>12, <1>13, <2>1, <2>2, <2>3
<1>15. Cardinality(Open(events')) = n - 1
  <2>1. IsFiniteSet(Open(events)) /\ OpenedAt(n) \in Open(events)
    BY <1>1, <1>6, <1>9, OpenBounds
  <2>2. Cardinality(Open(events)) = n
    BY <1>0 DEF StackMirrorsEvents
  <2> QED BY <1>14, <2>1, <2>2, FS_RemoveElement
<1>16. \A i \in 1 .. n - 1 :
         /\ Level(SubSeq(events', OpenedAt(i)', Len(events'))) = n - 1 - i + 1
         /\ events'[OpenedAt(i)'].kind = IF tree'[calls'[i].node].kind = "sequence"
                                         THEN "sequence_start" ELSE "mapping_start"
         /\ Cardinality(Members(events', OpenedAt(i)')) =
              IF i = n - 1 THEN calls'[i].index ELSE calls'[i].index + 1
  <2>1. ASSUME NEW i \in 1 .. n - 1
        PROVE  Level(SubSeq(events', OpenedAt(i)', Len(events'))) = n - 1 - i + 1
    BY <1>6, <1>9, <1>10, <1>11
  <2>2. ASSUME NEW i \in 1 .. n - 1
        PROVE  events'[OpenedAt(i)'].kind = IF tree'[calls'[i].node].kind = "sequence"
                                         THEN "sequence_start" ELSE "mapping_start"
    <3>1. i \in DOMAIN calls
      BY <1>6, <1>10
    <3>2. events[OpenedAt(i)].kind = IF tree[calls[i].node].kind = "sequence"
                                         THEN "sequence_start" ELSE "mapping_start"
      BY <3>1 DEF StackMirrorsEvents
    <3> QED BY <1>8, <1>10, <1>11, <3>2
  <2>3. ASSUME NEW i \in 1 .. n - 1
        PROVE  Cardinality(Members(events', OpenedAt(i)')) =
                 IF i = n - 1 THEN calls'[i].index ELSE calls'[i].index + 1
    <3>1. i \in DOMAIN calls /\ i # n
      BY <1>6, <1>10
    <3>2. Cardinality(Members(events, OpenedAt(i))) = calls[i].index + 1
      BY <1>0, <3>1 DEF StackMirrorsEvents
    <3>3. Cardinality(Members(events', OpenedAt(i)')) = calls[i].index + 1
      BY <1>5, <1>10, <3>2
    <3> QED BY <1>8, <3>3
  <2> QED BY <2>1, <2>2, <2>3
<1>17. \A i, j \in 1 .. n - 1 : i < j => OpenedAt(i)' < OpenedAt(j)'
  BY <1>6, <1>10 DEF StackMirrorsEvents
<1>18. Open(events') = {OpenedAt(i)' : i \in 1 .. n - 1}
  BY <1>10, <1>13
<1> QED BY <1>4, <1>8, <1>15, <1>16, <1>17, <1>18 DEF StackMirrorsEvents

-----------------------------------------------------------------------------
(* The tree and the values the events spell.                               *)

(* The positions of the values read, and those of the values retained.     *)
Values == Positions(events, ValueKinds)
Marks  == {tree[m].mark : m \in DOMAIN tree}

(* What TreeMirrorsEvents says of each node.                               *)
NodeMirrors(m) ==
  LET at    == tree[m].mark
      above == Innermost(Before(events, at))
  IN  /\ tree[m].kind   = KindOf(events[at])
      /\ tree[m].scalar = events[at].value
      /\ tree[m].depth  = Cardinality(Open(Before(events, at))) + 1
      /\ IF above = 0 THEN tree[m].parent = 0
         ELSE /\ tree[m].parent \in DOMAIN tree
              /\ tree[tree[m].parent].mark = above

(* So do all nodes, in the order of the events.                            *)
NodesMirror ==
  /\ \A m, n \in DOMAIN tree : m < n => tree[m].mark < tree[n].mark
  /\ \A m \in DOMAIN tree : NodeMirrors(m)

(* No failure has been reported.                                           *)
Undecided == outcome.code \in {"pending", "accepted"}

(* A node for each value, without the one that was refused.                *)
MarksMirror ==
  Marks = IF Undecided \/ outcome.at \notin Values THEN Values ELSE Values \ {Len(events)}

(* The two together are the property.                                      *)
LEMMA MirrorParts == TreeMirrorsEvents <=> MarksMirror /\ NodesMirror
BY DEF TreeMirrorsEvents, MarksMirror, Marks, Undecided, Values, NodesMirror, NodeMirrors

(* A node that was retained keeps its place.                               *)
LEMMA NodesStay ==
  ASSUME IInv, Marks \subseteq Values, NodesMirror, UNCHANGED tree,
         NEW e \in Event, Reads(e)
  PROVE  NodesMirror' /\ Marks' = Marks
<1>1. events \in Seq(Event) /\ events' = Append(events, e)
  BY DEF IInv, TypeOK, Reads
<1>2. Marks' = Marks
  BY DEF Marks
<1>3. ASSUME NEW m \in DOMAIN tree PROVE NodeMirrors(m)'
  <2>1. tree[m].mark \in 1 .. Len(events) /\ tree[m].mark \in DOMAIN events
    <3>1. Values \subseteq 1 .. Len(events) /\ DOMAIN events = 1 .. Len(events)
      BY <1>1, PositionsFinite, LenProperties DEF Values
    <3> QED BY <3>1 DEF Marks
  <2>2. /\ events'[tree[m].mark] = events[tree[m].mark]
        /\ Before(events', tree[m].mark) = Before(events, tree[m].mark)
    BY <1>1, <2>1, Appended, BeforeStays
  <2>3. NodeMirrors(m)
    BY DEF NodesMirror
  <2> QED BY <2>2, <2>3 DEF NodeMirrors
<1>4. \A m, n \in DOMAIN tree : m < n => tree[m].mark < tree[n].mark
  BY DEF NodesMirror
<1> QED BY <1>2, <1>3, <1>4 DEF NodesMirror

(* An event that is no value goes by, or decides the call.                 *)
LEMMA PassMirrors ==
  ASSUME IInv, TreeMirrorsEvents, outcome.code = "pending", UNCHANGED tree,
         NEW e \in Event, Reads(e), e.kind \notin ValueKinds
  PROVE  TreeMirrorsEvents'
<1>1. Marks = Values /\ NodesMirror
  BY MirrorParts DEF MarksMirror, Undecided
<1>2. events \in Seq(Event) /\ events' = Append(events, e)
  BY DEF IInv, TypeOK, Reads
<1>3. Values' = Values
  BY <1>2, PositionsGrow DEF Values
<1>4. Len(events') \notin Values'
  <2>1. Values \subseteq 1 .. Len(events)
    BY <1>2, PositionsFinite DEF Values
  <2>2. Len(events') = Len(events) + 1 /\ Len(events) \in Nat
    BY <1>2, Appended
  <2> QED BY <1>3, <2>1, <2>2
<1>5. NodesMirror' /\ Marks' = Marks
  BY <1>1, NodesStay
<1>6. Values' \ {Len(events')} = Values'
  BY <1>4
<1>7. Marks' = Values'
  BY <1>1, <1>3, <1>5
<1>8. MarksMirror'
  BY <1>6, <1>7 DEF MarksMirror
<1> QED BY <1>5, <1>8, MirrorParts, PTL

(* A value is refused where it stands.                                     *)
LEMMA RefusedMirrors ==
  ASSUME IInv, TreeMirrorsEvents, outcome.code = "pending",
         NEW e \in Event, Reads(e), e.kind \in ValueKinds,
         NEW code \in Codes \ {"pending", "accepted"}, NEW path, Fail(code, path, Here)
  PROVE  TreeMirrorsEvents'
<1>1. Marks = Values /\ NodesMirror
  BY MirrorParts DEF MarksMirror, Undecided
<1>2. events \in Seq(Event) /\ events' = Append(events, e)
  BY DEF IInv, TypeOK, Reads
<1>3. Values' = Values \union {Here}
  BY <1>2, PositionsGrow DEF Values, Here
<1>4. Len(events') = Here /\ Here \notin Values
  <2>1. Values \subseteq 1 .. Len(events)
    BY <1>2, PositionsFinite DEF Values
  <2>2. Len(events') = Len(events) + 1 /\ Len(events) \in Nat
    BY <1>2, Appended
  <2> QED BY <2>1, <2>2 DEF Here
<1>5. NodesMirror' /\ Marks' = Marks
  BY <1>1, NodesStay DEF Fail
<1>6. outcome'.code = code /\ outcome'.at = Here
  BY DEF Fail
<1>7. ~Undecided' /\ outcome'.at \in Values' /\ Values' \ {Len(events')} = Marks'
  BY <1>1, <1>3, <1>4, <1>5, <1>6 DEF Undecided
<1>8. MarksMirror'
  BY <1>7 DEF MarksMirror
<1> QED BY <1>5, <1>8, MirrorParts, PTL

(* The call ends without an event.                                         *)
LEMMA ThrownMirrors ==
  ASSUME IInv, TreeMirrorsEvents, outcome.code = "pending", UNCHANGED events,
         NEW code, NEW path, NEW at \in {0, Here}, Fail(code, path, at)
  PROVE  TreeMirrorsEvents'
<1>1. Marks = Values /\ NodesMirror
  BY MirrorParts DEF MarksMirror, Undecided
<1>2. Values \subseteq 1 .. Len(events) /\ Len(events) \in Nat
  BY PositionsFinite, LenProperties DEF Values, IInv, TypeOK
<1>3. at \notin Values
  BY <1>2 DEF Here
<1>4. Values' = Values /\ Marks' = Marks /\ outcome'.at = at
  BY DEF Fail, Values, Marks
<1>5. NodesMirror'
  BY <1>1 DEF NodesMirror, NodeMirrors, Fail
<1>6. outcome'.at \notin Values' /\ Marks' = Values'
  BY <1>1, <1>3, <1>4
<1>7. MarksMirror'
  BY <1>6 DEF MarksMirror
<1> QED BY <1>5, <1>7, MirrorParts, PTL

(* A value is retained under the innermost collection.                     *)
LEMMA RetainedMirrors ==
  ASSUME IInv, TreeMirrorsEvents, StackMirrorsEvents, outcome.code = "pending",
         outcome'.code = "pending", NEW e \in Event, Reads(e), e.kind \in ValueKinds,
         NEW parent \in Nat, calls = << >> => parent = 0, calls # << >> => parent = Top.node,
         NewNode(e, parent, Len(calls) + 1) \in Node,
         tree' = Append(tree, NewNode(e, parent, Len(calls) + 1))
  PROVE  TreeMirrorsEvents'
<1> DEFINE node == NewNode(e, parent, Len(calls) + 1)
<1>1. Marks = Values /\ NodesMirror
  BY MirrorParts DEF MarksMirror, Undecided
<1>2. events \in Seq(Event) /\ events' = Append(events, e) /\ Len(events) \in Nat
  BY LenProperties DEF IInv, TypeOK, Reads
<1>3. Values' = Values \union {Here} /\ Values \subseteq 1 .. Len(events)
  BY <1>2, PositionsGrow, PositionsFinite DEF Values, Here
<1>4. /\ node.kind = KindOf(e) /\ node.scalar = e.value /\ node.parent = parent
      /\ node.depth = Len(calls) + 1 /\ node.mark = Here
  BY DEF NewNode
<1>5. parent <= Len(tree) /\ parent \in DOMAIN tree \union {0}
  <2>1. tree \in Seq(Node)
    BY DEF IInv, TypeOK
  <2>2. calls # << >> => Top.node \in DOMAIN tree
    BY StackFacts DEF Top
  <2>3. DOMAIN tree = 1 .. Len(tree) /\ Len(tree) \in Nat
    BY <2>1, LenProperties
  <2>4. parent \in DOMAIN tree \union {0}
    BY <2>2
  <2> QED BY <2>3, <2>4
<1> HIDE DEF node
<1>0. PICK new : new = Len(tree) + 1
  OBVIOUS
<1>6. /\ DOMAIN tree' = DOMAIN tree \union {new}
      /\ DOMAIN tree = 1 .. new - 1 /\ new \in Nat
      /\ \A m \in DOMAIN tree : tree'[m] = tree[m]
      /\ tree'[new] = node
  BY <1>0, <1>4, <1>5, TreeGrows DEF node
<1>7. Marks' = Marks \union {Here}
  BY <1>4, <1>6 DEF Marks
<1>8. \A m \in DOMAIN tree : tree[m].mark \in 1 .. Len(events)
  BY <1>1, <1>3 DEF Marks
<1>9. ASSUME NEW m \in DOMAIN tree PROVE NodeMirrors(m)'
  <2>1. tree[m].mark \in 1 .. Len(events) /\ tree[m].mark \in DOMAIN events
    BY <1>2, <1>8, LenProperties
  <2>2. /\ events'[tree[m].mark] = events[tree[m].mark]
        /\ Before(events', tree[m].mark) = Before(events, tree[m].mark)
    BY <1>2, <2>1, Appended, BeforeStays
  <2>3. NodeMirrors(m)
    BY <1>1 DEF NodesMirror
  <2> QED BY <1>6, <2>2, <2>3 DEF NodeMirrors
<1>10. NodeMirrors(new)'
  <2>1. Before(events', Here) = events /\ events'[Here] = e
    BY <1>2, BeforeStays, Appended DEF Here
  <2>2. Cardinality(Open(events)) = Len(calls)
    BY DEF StackMirrorsEvents
  <2>3. CASE calls = << >>
    <3>1. Innermost(events) = 0 /\ parent = 0
      BY <2>3, StackFacts
    <3> QED BY <1>4, <1>6, <2>1, <2>2, <3>1 DEF NodeMirrors
  <2>4. CASE calls # << >>
    <3>1. /\ Innermost(events) = tree[parent].mark /\ Innermost(events) # 0
          /\ parent \in DOMAIN tree
      <4>1. /\ Innermost(events) = OpenedAt(Len(calls)) /\ Innermost(events) \in 1 .. Len(events)
            /\ Top.node \in DOMAIN tree
        BY <2>4, StackFacts DEF Top
      <4> QED BY <1>2, <2>4, <4>1 DEF OpenedAt, Top
    <3> QED BY <1>4, <1>6, <2>1, <2>2, <3>1 DEF NodeMirrors
  <2> QED BY <2>3, <2>4
<1>11. \A m, n \in DOMAIN tree' : m < n => tree'[m].mark < tree'[n].mark
  <2> SUFFICES ASSUME NEW m \in DOMAIN tree', NEW n \in DOMAIN tree', m < n
               PROVE  tree'[m].mark < tree'[n].mark
    OBVIOUS
  <2>1. m \in DOMAIN tree
    BY <1>6
  <2>2. CASE n \in DOMAIN tree
    BY <1>1, <1>6, <2>1, <2>2 DEF NodesMirror
  <2>3. CASE n = new
    BY <1>2, <1>4, <1>6, <1>8, <2>1, <2>3 DEF Here
  <2> QED BY <1>6, <2>2, <2>3
<1>12. NodesMirror'
  BY <1>6, <1>9, <1>10, <1>11 DEF NodesMirror
<1>13. MarksMirror'
  BY <1>1, <1>3, <1>7 DEF MarksMirror, Undecided
<1> QED BY <1>12, <1>13, MirrorParts, PTL

-----------------------------------------------------------------------------
(* What the strict subset decides at each place of the descent.            *)

(* The operators of EventStream, as the strict subset has them.            *)
LEMMA CountsAgree == \A S : Strict!Cardinality(S) = Cardinality(S)
BY DEF Strict!Cardinality, Cardinality

(* Both count the same events.                                             *)
LEMMA PositionsAgree == \A s, kinds : Strict!Positions(s, kinds) = Positions(s, kinds)
BY DEF Strict!Positions, Positions

(* Both find the same collections open.                                    *)
LEMMA OpenAgrees == \A s : Strict!Open(s) = Open(s)
<1>1. \A s : Strict!Level(s) = Level(s)
  BY CountsAgree, PositionsAgree
  DEF Strict!Level, Level, Strict!StartKinds, Strict!EndKinds, StartKinds, EndKinds
<1> QED BY <1>1, PositionsAgree DEF Strict!Open, Open, Strict!StartKinds, StartKinds

(* And the same one innermost.                                             *)
LEMMA InnermostAgrees == \A s : Strict!Innermost(s) = Innermost(s)
<1> TAKE s
<1>1. Strict!Open(s) = Open(s) BY OpenAgrees
<1> QED BY <1>1, SMT DEF Strict!Innermost, Innermost

(* Both use the vocabulary of the events alike.                            *)
LEMMA Vocabulary ==
  /\ Strict!ValueKinds = ValueKinds
  /\ \A kind, tag : Strict!PermittedTag(kind, tag) <=> PermittedTag(kind, tag)
  /\ \A e : Strict!KindOf(e) = KindOf(e)
BY DEF Strict!ValueKinds, ValueKinds, Strict!StartKinds, StartKinds,
       Strict!PermittedTag, PermittedTag, Strict!KindOf, KindOf

(* Both find the same values inside a collection.                          *)
LEMMA MembersAgree == \A s, o : Strict!Members(s, o) = Members(s, o)
<1>1. \A s, i : Strict!Before(s, i) = Before(s, i)
  BY DEF Strict!Before, Before
<1> QED BY <1>1, PositionsAgree, InnermostAgrees, Vocabulary DEF Strict!Members, Members

(* Both see alike whether the root value is complete.                      *)
LEMMA RootCompleteAgrees ==
  \A s : Strict!RootComplete(s) <=> Positions(s, ValueKinds) # {} /\ Open(s) = {}
BY PositionsAgree, OpenAgrees, Vocabulary DEF Strict!RootComplete

(* account_node() with its counters and parse_node() with its tests decide *)
(* a value as the strict subset does.                                      *)
LEMMA ValueDecision ==
  ASSUME IInv, StackMirrorsEvents, NEW e \in Event
  PROVE  LET code == NodeRejection(e, Len(calls) + 1)
         IN  Strict!ValueVerdict(events, e) = IF code = "none" THEN "pending" ELSE code
<1>1. /\ Strict!Cardinality(Strict!Open(events)) = Len(calls)
      /\ Strict!Cardinality(Strict!Positions(events, ValueKinds)) = Len(tree)
  BY CountsAgree, PositionsAgree, OpenAgrees DEF StackMirrorsEvents
<1>2. Len(calls) \in Nat /\ Len(tree) \in Nat
  BY StackFacts
<1> DEFINE refused == \/ e.kind = "alias"
                      \/ /\ e.kind \in ValueKinds
                         /\ e.anchored \/ ~PermittedTag(KindOf(e), e.tag)
           full == Len(calls) >= MaxDepth \/ Len(tree) >= MaxNodes
<1>4. "alias" \notin ValueKinds
  BY DEF ValueKinds, StartKinds
<1>3. Strict!ValueVerdict(events, e) =
        IF refused THEN "unsupported_feature"
        ELSE IF e.kind \notin ValueKinds \union {"alias"} THEN "invalid_document"
        ELSE IF full THEN "resource_limit" ELSE "pending"
  <2>1. CASE refused
    BY <1>4, <2>1, Vocabulary DEF Strict!ValueVerdict
  <2>2. CASE ~refused /\ e.kind \notin ValueKinds \union {"alias"}
    BY <1>4, <2>2, Vocabulary DEF Strict!ValueVerdict
  <2>3. CASE ~refused /\ e.kind \in ValueKinds \union {"alias"}
    <3>0. /\ e.kind # "alias" /\ ~e.anchored /\ PermittedTag(KindOf(e), e.tag)
          /\ e.kind \in ValueKinds
      BY <2>3
    <3>1. Strict!ValueVerdict(events, e) =
            IF \/ Strict!Cardinality(Strict!Open(events)) >= MaxDepth
               \/ Strict!Cardinality(Strict!Positions(events, Strict!ValueKinds)) >= MaxNodes
              THEN "resource_limit" ELSE "pending"
      <4> HIDE DEF refused, full
      <4> QED BY <3>0, Vocabulary DEF Strict!ValueVerdict
    <3> QED BY <1>1, <2>3, <3>1, Vocabulary
  <2> QED BY <2>1, <2>2, <2>3
<1>5. FeatureRejection(e) = IF refused THEN "unsupported_feature"
                            ELSE IF e.kind \notin ValueKinds \union {"alias"} THEN "invalid_document"
                            ELSE "none"
  <2>1. CASE refused
    BY <1>4, <2>1 DEF FeatureRejection
  <2>2. CASE ~refused /\ e.kind \notin ValueKinds \union {"alias"}
    BY <2>2 DEF FeatureRejection
  <2>3. CASE ~refused /\ e.kind \in ValueKinds \union {"alias"}
    <3>1. e.kind # "alias" /\ ~e.anchored /\ PermittedTag(KindOf(e), e.tag)
      BY <2>3
    <3> HIDE DEF refused
    <3> QED BY <2>3, <3>1 DEF FeatureRejection
  <2> QED BY <2>1, <2>2, <2>3
<1>6. AccountNode(Len(calls) + 1) = IF full THEN "resource_limit" ELSE "none"
  BY <1>2, LimitsAssumption DEF AccountNode
<1> HIDE DEF refused, full
<1> QED BY <1>3, <1>5, <1>6 DEF NodeRejection

(* The collection loop, with its activation's kind and index, decides an   *)
(* event as the strict subset does.                                        *)
LEMMA CollectionDecision ==
  ASSUME IInv, StackMirrorsEvents, pc = "item", NEW e \in Event
  PROVE  Strict!CollectionVerdict(events, e) =
           IF Closes(e) THEN IF tree[Top.node].kind = "mapping" /\ Top.index % 2 # 0
                               THEN "syntax" ELSE "pending"
           ELSE IF EndsInput(e) THEN "syntax"
           ELSE Strict!ValueVerdict(events, e)
<1>1. /\ calls # << >> /\ Len(calls) \in DOMAIN calls
      /\ Innermost(events) = OpenedAt(Len(calls))
  BY StackFacts DEF IInv, TypeOK
<1>2. /\ events[Innermost(events)].kind = IF tree[Top.node].kind = "sequence"
                                            THEN "sequence_start" ELSE "mapping_start"
      /\ Cardinality(Members(events, Innermost(events))) = Top.index
  BY <1>1 DEF StackMirrorsEvents, Top
<1>3. tree[Top.node].kind \in Collections
  BY TopFacts
<1>4. /\ Strict!Innermost(events) = Innermost(events)
      /\ Strict!Cardinality(Strict!Members(events, Innermost(events))) = Top.index
  BY <1>2, CountsAgree, InnermostAgrees, MembersAgree
<1>5. Strict!Closing(events, e) <=> Closes(e)
  BY <1>2, <1>3, <1>4 DEF Strict!Closing, Closes, Collections
<1>6. Strict!Balanced(events) <=> ~(tree[Top.node].kind = "mapping" /\ Top.index % 2 # 0)
  BY <1>2, <1>3, <1>4 DEF Strict!Balanced, Collections
<1>7. CASE Closes(e)
  <2>1. e.kind \notin {"document_end", "stream_end"}
    BY <1>7 DEF Closes
  <2> QED BY <1>5, <1>6, <1>7, <2>1 DEF Strict!CollectionVerdict
<1>8. CASE ~Closes(e) /\ EndsInput(e)
  BY <1>5, <1>8 DEF Strict!CollectionVerdict, EndsInput
<1>9. CASE ~Closes(e) /\ ~EndsInput(e)
  BY <1>5, <1>9 DEF Strict!CollectionVerdict, EndsInput
<1> QED BY <1>7, <1>8, <1>9

(* The whole decision, place by place.                                     *)
LEMMA Decision ==
  ASSUME IInv, StackMirrorsEvents, StageMirrorsEvents, Reading, NEW e \in Event
  PROVE  Strict!Verdict(events, e) =
           IF pc = "stream_start" THEN IF e.kind = "stream_start" THEN "pending" ELSE "syntax"
           ELSE IF pc = "document_start"
             THEN IF e.kind # "document_start" THEN "invalid_document"
                  ELSE IF e.directives THEN "unsupported_feature" ELSE "pending"
           ELSE IF pc = "content" THEN Strict!ValueVerdict(events, e)
           ELSE IF pc = "item" THEN Strict!CollectionVerdict(events, e)
           ELSE IF pc = "document_end" THEN IF e.kind = "document_end" THEN "pending" ELSE "syntax"
           ELSE IF e.kind = "stream_end" THEN "accepted"
           ELSE IF e.kind = "document_start" THEN "invalid_document" ELSE "syntax"
<1>1. Len(events) \in Nat /\ pc \in Labels \ {"enter", "done", "failed"}
  BY StackFacts DEF IInv, TypeOK, Reading
<1>2. Positions(events, ValueKinds) # {} <=> tree # << >>
  <2>1. tree \in Seq(Node) /\ events \in Seq(Event)
    BY DEF IInv, TypeOK
  <2>2. Len(tree) = 0 <=> tree = << >>
    BY <2>1, EmptySeq
  <2>3. IsFiniteSet(Positions(events, ValueKinds))
    BY <2>1, PositionsFinite
  <2> QED BY <2>2, <2>3, FS_EmptySet DEF StackMirrorsEvents
<1>3. Open(events) = {} <=> pc # "item"
  BY StackFacts DEF IInv, TypeOK
<1>4. Strict!RootComplete(events) <=> pc \in {"document_end", "stream_end"}
  BY <1>1, <1>2, <1>3, RootCompleteAgrees DEF StageMirrorsEvents, Labels
<1>5. Strict!Open(events) = {} <=> pc # "item"
  BY <1>3, OpenAgrees
<1>6. CASE pc = "stream_start"
  BY <1>4, <1>6 DEF StageMirrorsEvents, Strict!Verdict
<1>7. CASE pc = "document_start"
  <2>1. Len(events) = 1 /\ ~Strict!RootComplete(events)
    BY <1>4, <1>7 DEF StageMirrorsEvents
  <2> QED BY <1>7, <2>1 DEF Strict!Verdict
<1>8. CASE pc = "content"
  BY <1>1, <1>4, <1>5, <1>8 DEF StageMirrorsEvents, Strict!Verdict
<1>9. CASE pc = "item"
  BY <1>1, <1>4, <1>5, <1>9 DEF StageMirrorsEvents, Strict!Verdict
<1>10. CASE pc = "document_end"
  <2>1. events[Len(events)].kind # "document_end"
    BY <1>10 DEF StageMirrorsEvents, ValueKinds, StartKinds, EndKinds
  <2> QED BY <1>1, <1>4, <1>10, <2>1 DEF StageMirrorsEvents, Strict!Verdict
<1>11. CASE pc = "stream_end"
  BY <1>1, <1>4, <1>11 DEF StageMirrorsEvents, Strict!Verdict
<1> QED BY <1>1, <1>6, <1>7, <1>8, <1>9, <1>10, <1>11 DEF Labels

-----------------------------------------------------------------------------
(* Each step keeps the mirror and decides as the strict subset does.       *)

(* What a step leaves behind that does not fail.                           *)
Mirrors == pc # "failed" => StackMirrorsEvents /\ StageMirrorsEvents

(* While the call reads, all parts of the invariant hold.                  *)
LEMMA Underway ==
  ASSUME StrictIInv, Reading
  PROVE  /\ IInv /\ StackMirrorsEvents /\ StageMirrorsEvents /\ TreeMirrorsEvents
         /\ outcome.code = "pending" /\ pc \notin {"done", "failed"}
         /\ events \in Seq(Event) /\ Len(events) \in Nat
BY StackFacts DEF StrictIInv, StageMirrorsEvents, Reading

(* An event that is refused ends the call.                                 *)
LEMMA RefusedStep ==
  ASSUME StrictIInv, Reading, NEW e \in Event, Reads(e),
         NEW code \in Codes \ {"pending", "accepted"}, NEW path, NEW at, Fail(code, path, at),
         e.kind \in ValueKinds => at = Here
  PROVE  /\ Mirrors' /\ TreeMirrorsEvents'
         /\ outcome'.code = code
<1>1. CASE e.kind \in ValueKinds
  BY <1>1, Underway, RefusedMirrors DEF Fail, Mirrors
<1>2. CASE e.kind \notin ValueKinds
  BY <1>2, Underway, PassMirrors DEF Fail, Mirrors
<1> QED BY <1>1, <1>2

(* A marker of the document or the stream goes by.                         *)
LEMMA MarkerStep ==
  ASSUME StrictIInv, Reading, NEW e \in Event, Reads(e), UNCHANGED <<tree, calls>>,
         e.kind \notin ValueKinds \union EndKinds
  PROVE  /\ StackMirrorsEvents' /\ TreeMirrorsEvents'
         /\ Len(events') = Len(events) + 1 /\ events'[Len(events')] = e
<1>1. StackMirrorsEvents'
  BY Underway, SkipMirrors
<1>2. TreeMirrorsEvents'
  BY Underway, PassMirrors
<1> QED BY <1>1, <1>2, Underway, Appended DEF Reads

(* parse_node() on its first event.                                        *)
LEMMA NodeStep ==
  ASSUME StrictIInv, IInv', NEW e \in Event, Reads(e), NEW parent \in Nat, NEW path,
         \/ pc = "content" /\ parent = 0
         \/ pc = "item" /\ parent = Top.node,
         ParseNode(e, parent, path)
  PROVE  /\ Mirrors' /\ TreeMirrorsEvents'
         /\ outcome'.code = Strict!ValueVerdict(events, e)
<1> DEFINE code == NodeRejection(e, Len(calls) + 1)
           node == NewNode(e, parent, Len(calls) + 1)
           frame == [node |-> Len(tree) + 1, index |-> 0, path |-> path]
<1>1. Reading /\ IInv /\ StackMirrorsEvents /\ StageMirrorsEvents /\ TreeMirrorsEvents
      /\ outcome.code = "pending" /\ events \in Seq(Event) /\ Len(events) \in Nat
  BY Underway DEF Reading
<1>2. Strict!ValueVerdict(events, e) = IF code = "none" THEN "pending" ELSE code
  BY <1>1, ValueDecision
<1>3. CASE code # "none"
  <2>1. Fail(code, path, Here)
    BY <1>3 DEF ParseNode
  <2>2. code \in Codes \ {"pending", "accepted"}
    BY <1>3 DEF NodeRejection, FeatureRejection, AccountNode, Codes
  <2> HIDE DEF code
  <2> QED BY <1>1, <1>2, <1>3, <2>1, <2>2, RefusedStep
<1>4. CASE code = "none"
  <2>1. /\ tree' = Append(tree, node) /\ e.kind \in ValueKinds /\ node \in Node
        /\ IF e.kind = "scalar" THEN ReturnTo(calls)
                                ELSE calls' = Append(calls, frame) /\ Goto("item")
    BY <1>1, <1>4, NewNodeFacts DEF ParseNode
  <2>2. outcome' = outcome /\ pc' \in {"item", "document_end"}
    BY <2>1 DEF ReturnTo, Goto
  <2>3. calls = << >> <=> pc = "content"
    BY <1>1 DEF IInv, TypeOK
  <2>4. TreeMirrorsEvents'
    BY <1>1, <2>1, <2>2, <2>3, RetainedMirrors
  <2>5. tree \in Seq(Node) /\ Len(tree) \in Nat /\ Len(tree') = Len(tree) + 1
        /\ tree' \in Seq(Node)
        /\ \A m \in DOMAIN tree : tree'[m] = tree[m]
    <3> HIDE DEF node
    <3>1. tree \in Seq(Node) /\ Len(tree) \in Nat /\ DOMAIN tree = 1 .. Len(tree)
      BY <1>1, LenProperties DEF IInv, TypeOK
    <3>2. /\ tree' \in Seq(Node) /\ Len(tree') = Len(tree) + 1
          /\ \A m \in 1 .. Len(tree) : tree'[m] = tree[m]
      BY <2>1, <3>1, AppendProperties
    <3> QED BY <3>1, <3>2
  <2>6. tree' # << >>
    BY <2>5, EmptySeq
  <2>7. /\ Len(events') = Len(events) + 1 /\ events'[Len(events')] = e
    BY <1>1, Appended DEF Reads
  <2>8. StageMirrorsEvents'
    <3>1. Len(events') > 1
      BY <1>1, <2>7 DEF StageMirrorsEvents
    <3> QED BY <1>1, <2>1, <2>2, <2>6, <2>7, <3>1 DEF StageMirrorsEvents
  <2>9. StackMirrorsEvents'
    <3>1. CASE e.kind = "scalar"
      <4>1. /\ calls = << >> => calls' = << >>
            /\ calls # << >> => calls' = [calls EXCEPT ![Len(calls)].index = @ + 1]
        BY <2>1, <3>1 DEF ReturnTo
      <4> QED BY <1>1, <2>5, <3>1, <4>1, ScalarMirrors
    <3>2. CASE e.kind # "scalar"
      <4>1. node.mark = Here /\ node.kind = KindOf(e) /\ e.kind \in StartKinds
        BY <2>1, <3>2 DEF NewNode, ValueKinds
      <4>2. calls' = Append(calls, frame) /\ frame.node = Len(tree) + 1 /\ frame.index = 0
        BY <2>1, <3>2
      <4>3. frame \in Frame
        <5>1. calls \in Seq(Frame) /\ calls' \in Seq(Frame) /\ Len(calls) \in Nat
          BY <1>1, LenProperties DEF IInv, TypeOK
        <5> HIDE DEF frame
        <5>2. Len(calls') = Len(calls) + 1 /\ calls'[Len(calls) + 1] = frame
          BY <4>2, <5>1
        <5> QED BY <5>1, <5>2, ElementOfSeq
      <4> HIDE DEF frame, node
      <4> QED BY <1>1, <2>1, <4>1, <4>2, <4>3, OpenMirrors
    <3> QED BY <3>1, <3>2
  <2> QED BY <1>1, <1>2, <1>4, <2>2, <2>4, <2>8, <2>9 DEF Mirrors
<1> QED BY <1>3, <1>4

(* One of the places that accept one kind of event.                        *)
LEMMA ExpectStrict ==
  ASSUME StrictIInv, IInv', NEW e \in Event, NEW label, NEW kind, NEW next,
         NEW code \in Codes \ {"pending", "accepted"}, Expect(e, label, kind, next, code),
         \/ /\ label = "stream_start" /\ kind = "stream_start" /\ next = "document_start"
         \/ /\ label = "document_start" /\ kind = "document_start" /\ next = "content"
         \/ /\ label = "document_end" /\ kind = "document_end" /\ next = "stream_end"
  PROVE  /\ Mirrors' /\ TreeMirrorsEvents'
         /\ outcome'.code = IF e.kind = kind THEN "pending" ELSE code
<1>1. Reading /\ Reads(e) /\ pc = label
  BY DEF Expect, Read, Reads, Reading
<1>2. CASE e.kind # kind
  BY <1>1, <1>2, RefusedStep DEF Expect
<1>3. CASE e.kind = kind
  <2>1. pc' = next /\ outcome' = outcome /\ UNCHANGED <<tree, calls>>
    BY <1>3 DEF Expect, Goto
  <2>2. e.kind \notin ValueKinds \union EndKinds
    BY <1>3 DEF ValueKinds, StartKinds, EndKinds
  <2>3. /\ StackMirrorsEvents' /\ TreeMirrorsEvents'
        /\ Len(events') = Len(events) + 1 /\ events'[Len(events')] = e
    BY <1>1, <2>1, <2>2, MarkerStep
  <2>4. StageMirrorsEvents /\ outcome.code = "pending" /\ Len(events) \in Nat
    BY <1>1, Underway
  <2>5. label = "stream_start" => Len(events) = 0
    BY <1>1, <2>4 DEF StageMirrorsEvents
  <2>6. StageMirrorsEvents'
    BY <1>1, <1>3, <2>1, <2>3, <2>4, <2>5 DEF StageMirrorsEvents
  <2> QED BY <1>3, <2>1, <2>3, <2>4, <2>6 DEF Mirrors
<1> QED BY <1>2, <1>3

(* Every event is decided as the strict subset decides it.                 *)
LEMMA ConsumeStrict ==
  ASSUME StrictIInv, IInv', NEW e \in Event, Consume(e)
  PROVE  /\ Mirrors' /\ TreeMirrorsEvents'
         /\ outcome.code = "pending"
         /\ events' = Append(events, e)
         /\ outcome'.code = Strict!Verdict(events, e)
<1>1. Reading /\ Reads(e)
  BY DEF Consume, ReadStreamStart, ReadDocumentStart, ReadContent, CloseCollection, Unterminated,
         ParseItem, ReadDocumentEnd, ReadStreamEnd, Expect, Read, Reads, Reading
<1>2. /\ IInv /\ StackMirrorsEvents /\ StageMirrorsEvents /\ TreeMirrorsEvents
      /\ outcome.code = "pending" /\ events \in Seq(Event) /\ Len(events) \in Nat
  BY <1>1, Underway
<1>3. {"syntax", "invalid_document", "unsupported_feature"}
        \subseteq Codes \ {"pending", "accepted"}
  BY DEF Codes
<1>4. Mirrors' /\ TreeMirrorsEvents' /\ outcome'.code = Strict!Verdict(events, e)
  <2>1. CASE ReadStreamStart(e)
    <3>1. pc = "stream_start"
      BY <2>1 DEF ReadStreamStart, Expect
    <3>2. /\ Mirrors' /\ TreeMirrorsEvents'
          /\ outcome'.code = IF e.kind = "stream_start" THEN "pending" ELSE "syntax"
      BY <1>3, <2>1, ExpectStrict DEF ReadStreamStart
    <3> QED BY <1>1, <1>2, <3>1, <3>2, Decision
  <2>2. CASE ReadDocumentStart(e)
    <3>1. pc = "document_start"
      BY <2>2 DEF ReadDocumentStart, Expect
    <3>2. CASE e.kind = "document_start" /\ e.directives
      <4>1. Fail("unsupported_feature", Root, Here)
        BY <2>2, <3>2 DEF ReadDocumentStart
      <4> QED BY <1>1, <1>2, <1>3, <3>1, <3>2, <4>1, RefusedStep, Decision
    <3>3. CASE ~(e.kind = "document_start" /\ e.directives)
      <4>1. /\ Mirrors' /\ TreeMirrorsEvents'
            /\ outcome'.code = IF e.kind = "document_start" THEN "pending" ELSE "invalid_document"
        BY <1>3, <2>2, <3>3, ExpectStrict DEF ReadDocumentStart
      <4> QED BY <1>1, <1>2, <3>1, <3>3, <4>1, Decision
    <3> QED BY <3>2, <3>3
  <2>3. CASE ReadContent(e)
    <3>1. pc = "content"
      BY <2>3 DEF ReadContent
    <3>2. CASE e.kind = "document_end"
      <4>1. Fail("invalid_document", Root, Here)
        BY <2>3, <3>2 DEF ReadContent
      <4>2. NodeRejection(e, Len(calls) + 1) = "invalid_document"
        BY <3>2 DEF NodeRejection, FeatureRejection, ValueKinds, StartKinds
      <4>3. Strict!ValueVerdict(events, e) = "invalid_document"
        BY <1>2, <4>2, ValueDecision
      <4> QED BY <1>1, <1>2, <1>3, <3>1, <4>1, <4>3, RefusedStep, Decision
    <3>3. CASE e.kind # "document_end"
      <4>1. ParseNode(e, 0, Root)
        BY <2>3, <3>3 DEF ReadContent
      <4> QED BY <1>1, <1>2, <3>1, <4>1, NodeStep, Decision
    <3> QED BY <3>2, <3>3
  <2>4. CASE CloseCollection(e)
    <3>1. pc = "item" /\ Closes(e)
      BY <2>4 DEF CloseCollection
    <3>2. e.kind \in EndKinds /\ e.kind \notin ValueKinds
      BY <3>1 DEF Closes, EndKinds, ValueKinds, StartKinds
    <3>3. CASE tree[Top.node].kind = "mapping" /\ Top.index % 2 # 0
      <4>1. Fail("syntax", Top.path, tree[Top.node].mark)
        BY <2>4, <3>3 DEF CloseCollection
      <4>2. Strict!CollectionVerdict(events, e) = "syntax"
        BY <1>2, <3>1, <3>3, CollectionDecision
      <4> QED BY <1>1, <1>2, <1>3, <3>1, <3>2, <4>1, <4>2, RefusedStep, Decision
    <3>4. CASE ~(tree[Top.node].kind = "mapping" /\ Top.index % 2 # 0)
      <4>1. ReturnTo(SubSeq(calls, 1, Len(calls) - 1)) /\ UNCHANGED tree
        BY <2>4, <3>4 DEF CloseCollection
      <4>2. pc' \in {"item", "document_end"} /\ outcome' = outcome
        BY <4>1 DEF ReturnTo, Goto
      <4>3. calls # << >>
        BY <1>2, <3>1 DEF IInv, TypeOK
      <4>4. StackMirrorsEvents'
        BY <1>1, <1>2, <3>2, <4>1, <4>3, CloseMirrors
      <4>5. TreeMirrorsEvents'
        BY <1>1, <1>2, <3>2, <4>1, PassMirrors
      <4>6. Len(events') = Len(events) + 1 /\ events'[Len(events')] = e
        BY <1>1, <1>2, Appended DEF Reads
      <4>7. StageMirrorsEvents'
        <5>1. tree # << >> /\ Len(events) > 1
          BY <1>2, <3>1 DEF StageMirrorsEvents
        <5> QED BY <1>2, <3>2, <4>1, <4>2, <4>6, <5>1 DEF StageMirrorsEvents
      <4>8. Strict!CollectionVerdict(events, e) = "pending"
        BY <1>2, <3>1, <3>4, CollectionDecision
      <4> QED BY <1>1, <1>2, <3>1, <4>2, <4>4, <4>5, <4>7, <4>8, Decision DEF Mirrors
    <3> QED BY <3>3, <3>4
  <2>5. CASE Unterminated(e)
    <3>1. pc = "item" /\ ~Closes(e) /\ EndsInput(e) /\ Fail("syntax", Top.path, Here)
      BY <2>5 DEF Unterminated
    <3>2. Strict!CollectionVerdict(events, e) = "syntax"
      BY <1>2, <3>1, CollectionDecision
    <3> QED BY <1>1, <1>2, <1>3, <3>1, <3>2, RefusedStep, Decision
  <2>6. CASE ParseItem(e)
    <3>1. pc = "item" /\ ~Closes(e) /\ ~EndsInput(e) /\ ParseNode(e, Top.node, NextPath)
      BY <2>6 DEF ParseItem
    <3>2. Top.node \in Nat
      BY <1>2, <3>1, TopFacts
    <3>3. Strict!CollectionVerdict(events, e) = Strict!ValueVerdict(events, e)
      BY <1>2, <3>1, CollectionDecision
    <3> QED BY <1>1, <1>2, <3>1, <3>2, <3>3, NodeStep, Decision
  <2>7. CASE ReadDocumentEnd(e)
    <3>1. pc = "document_end"
      BY <2>7 DEF ReadDocumentEnd, Expect
    <3>2. /\ Mirrors' /\ TreeMirrorsEvents'
          /\ outcome'.code = IF e.kind = "document_end" THEN "pending" ELSE "syntax"
      BY <1>3, <2>7, ExpectStrict DEF ReadDocumentEnd
    <3> QED BY <1>1, <1>2, <3>1, <3>2, Decision
  <2>8. CASE ReadStreamEnd(e)
    <3>1. pc = "stream_end"
      BY <2>8 DEF ReadStreamEnd
    <3>2. CASE e.kind = "stream_end"
      <4>1. outcome' = Accepted /\ pc' = "done" /\ UNCHANGED <<tree, calls>>
        BY <2>8, <3>2 DEF ReadStreamEnd
      <4>2. e.kind \notin ValueKinds \union EndKinds
        BY <3>2 DEF ValueKinds, StartKinds, EndKinds
      <4>3. StackMirrorsEvents' /\ TreeMirrorsEvents'
        BY <1>1, <4>1, <4>2, MarkerStep
      <4>4. StageMirrorsEvents'
        BY <1>2, <3>1, <4>1 DEF StageMirrorsEvents
      <4> QED BY <1>1, <1>2, <3>1, <3>2, <4>1, <4>3, <4>4, Decision DEF Mirrors, Accepted
    <3>3. CASE e.kind # "stream_end"
      <4> DEFINE code == IF e.kind = "document_start" THEN "invalid_document" ELSE "syntax"
      <4>1. Fail(code, Root, Here) /\ code \in Codes \ {"pending", "accepted"}
        BY <1>3, <2>8, <3>3 DEF ReadStreamEnd
      <4>2. Mirrors' /\ TreeMirrorsEvents' /\ outcome'.code = code
        <5> HIDE DEF code
        <5> QED BY <1>1, <4>1, RefusedStep
      <4> QED BY <1>1, <1>2, <3>1, <3>3, <4>2, Decision
    <3> QED BY <3>2, <3>3
  <2> QED BY <2>1, <2>2, <2>3, <2>4, <2>5, <2>6, <2>7, <2>8 DEF Consume
<1> QED BY <1>1, <1>2, <1>4 DEF Reads

-----------------------------------------------------------------------------
(* The tree stays in preorder.                                             *)

(* Activations may end, or count, without a new node.                      *)
LEMMA OrderStays ==
  ASSUME InOrder, UNCHANGED tree,
         \A i \in DOMAIN calls' : i \in DOMAIN calls /\ calls'[i].node = calls[i].node
  PROVE  InOrder'
BY DEF InOrder, Preorder

(* A node retained below the innermost activation is the deepest there.    *)
LEMMA OrderGrows ==
  ASSUME IInv, InOrder, NEW node \in Node, tree' = Append(tree, node),
         node.depth = Len(calls) + 1,
         node.parent = IF calls = << >> THEN 0 ELSE Top.node,
         calls = << >> => tree = << >>,
         \A i \in DOMAIN calls' :
           \/ i \in DOMAIN calls /\ calls'[i].node = calls[i].node
           \/ calls'[i].node = Len(tree) + 1
  PROVE  InOrder'
<1> DEFINE new == Len(tree) + 1
<1>1. /\ tree \in Seq(Node) /\ Len(tree) \in Nat /\ DOMAIN tree = 1 .. Len(tree)
      /\ calls \in Seq(Frame) /\ Len(calls) \in Nat /\ DOMAIN calls = 1 .. Len(calls)
  BY LenProperties DEF IInv, TypeOK
<1>2. /\ Len(tree') = new /\ DOMAIN tree' = 1 .. new
      /\ tree'[new] = node /\ \A m \in DOMAIN tree : tree'[m] = tree[m]
  BY <1>1, AppendProperties, LenProperties
<1>3. \A i \in DOMAIN calls : calls[i].node \in DOMAIN tree
  BY DEF IInv, CallsFollowTree
<1>4. \A i \in DOMAIN calls' : \A n \in calls'[i].node + 1 .. new : tree'[n].depth > i
  <2> SUFFICES ASSUME NEW i \in DOMAIN calls', NEW n \in calls'[i].node + 1 .. new
               PROVE  tree'[n].depth > i
    BY <1>2
  <2>1. i \in DOMAIN calls /\ calls'[i].node = calls[i].node /\ i \in Nat
    BY <1>1, <1>2
  <2>2. calls[i].node \in DOMAIN tree
    BY <1>3, <2>1
  <2>3. CASE n = new
    BY <1>1, <1>2, <2>1, <2>3
  <2>4. CASE n # new
    <3>1. n \in calls[i].node + 1 .. Len(tree) /\ n \in DOMAIN tree
      BY <1>1, <2>1, <2>2, <2>4
    <3> QED BY <1>2, <2>1, <3>1 DEF InOrder
  <2> QED BY <2>3, <2>4
<1>5. ASSUME NEW m \in DOMAIN tree
      PROVE  IF m = 1 THEN tree'[m].parent = 0 /\ tree'[m].depth = 1
             ELSE /\ tree'[m].parent \in 1 .. m - 1
                  /\ tree'[tree'[m].parent].kind \in Collections
                  /\ tree'[m].depth = tree'[tree'[m].parent].depth + 1
                  /\ \A n \in tree'[m].parent + 1 .. m - 1 : tree'[n].depth >= tree'[m].depth
  <2>1. CASE m = 1
    BY <1>2, <2>1 DEF InOrder, Preorder
  <2>2. CASE m # 1
    <3>1. /\ tree[m].parent \in 1 .. m - 1
          /\ tree[tree[m].parent].kind \in Collections
          /\ tree[m].depth = tree[tree[m].parent].depth + 1
          /\ \A n \in tree[m].parent + 1 .. m - 1 : tree[n].depth >= tree[m].depth
      BY <2>2 DEF InOrder, Preorder
    <3>2. /\ tree[m].parent \in DOMAIN tree /\ tree'[m] = tree[m]
          /\ \A n \in tree[m].parent + 1 .. m - 1 : n \in DOMAIN tree
      BY <1>1, <1>2, <3>1
    <3> QED BY <1>2, <2>2, <3>1, <3>2
  <2> QED BY <2>1, <2>2
<1>6. CASE calls = << >>
  <2>1. DOMAIN tree = {} /\ new = 1 /\ Len(calls) = 0
    BY <1>1, <1>6
  <2>2. tree'[1].parent = 0 /\ tree'[1].depth = 1
    BY <1>2, <1>6, <2>1
  <2>3. DOMAIN tree' = {1}
    BY <1>2, <2>1
  <2> QED BY <1>4, <2>2, <2>3 DEF InOrder, Preorder
<1>7. CASE calls # << >>
  <2>1. Len(calls) \in DOMAIN calls /\ Top = calls[Len(calls)]
    BY <1>1, <1>7, EmptySeq DEF Top
  <2>2. /\ Top.node \in DOMAIN tree /\ tree[Top.node].kind \in Collections
        /\ tree[Top.node].depth = Len(calls)
    BY <2>1 DEF IInv, CallsFollowTree
  <2>3. \A n \in Top.node + 1 .. Len(tree) : tree[n].depth > Len(calls) /\ n \in DOMAIN tree
    BY <1>1, <2>1, <2>2 DEF InOrder
  <2>4. ASSUME NEW n \in DOMAIN tree PROVE tree[n].depth \in Nat
    <3>1. tree[n] \in Node BY <1>1, ElementOfSeq
    <3> QED BY <3>1 DEF Node
  <2>5. /\ tree'[new].parent \in 1 .. new - 1 /\ new # 1 /\ tree'[new].parent = Top.node
        /\ tree'[Top.node] = tree[Top.node] /\ tree'[new].depth = Len(calls) + 1
    BY <1>1, <1>2, <1>7, <2>2
  <2>6. \A n \in Top.node + 1 .. new - 1 : tree'[n].depth >= Len(calls) + 1
    BY <1>1, <1>2, <2>2, <2>3, <2>4
  <2>7. DOMAIN tree' = DOMAIN tree \union {new}
    BY <1>1, <1>2
  <2> HIDE DEF new
  <2>8. Preorder(tree')
    <3> SUFFICES ASSUME NEW m \in DOMAIN tree'
                 PROVE  IF m = 1 THEN tree'[m].parent = 0 /\ tree'[m].depth = 1
                        ELSE /\ tree'[m].parent \in 1 .. m - 1
                             /\ tree'[tree'[m].parent].kind \in Collections
                             /\ tree'[m].depth = tree'[tree'[m].parent].depth + 1
                             /\ \A n \in tree'[m].parent + 1 .. m - 1 :
                                  tree'[n].depth >= tree'[m].depth
      BY DEF Preorder
    <3>1. CASE m = new
      BY <2>2, <2>5, <2>6, <3>1
    <3>2. CASE m # new
      BY <1>5, <2>7, <3>2
    <3> QED BY <3>1, <3>2
  <2> QED BY <1>2, <1>4, <2>8 DEF InOrder
<1> QED BY <1>6, <1>7

(* The caller that counts a child stays at its node.                       *)
LEMMA ReturnKeeps ==
  ASSUME NEW stack \in Seq(Frame), ReturnTo(stack)
  PROVE  \A i \in DOMAIN calls' : i \in DOMAIN stack /\ calls'[i].node = stack[i].node
<1>1. CASE stack = << >>
  BY <1>1 DEF ReturnTo
<1>2. CASE stack # << >>
  <2>1. calls' = [stack EXCEPT ![Len(stack)].index = @ + 1]
    BY <1>2 DEF ReturnTo
  <2>2. ASSUME NEW i \in DOMAIN stack PROVE calls'[i].node = stack[i].node
    <3>1. stack[i] \in Frame
      BY ElementOfSeq
    <3> QED BY <2>1, <3>1, FrameCounts
  <2> QED BY <2>1, <2>2
<1> QED BY <1>1, <1>2

(* A failure leaves no activation.                                         *)
LEMMA OrderFails ==
  ASSUME InOrder, NEW code, NEW path, NEW at, Fail(code, path, at)
  PROVE  InOrder'
BY OrderStays DEF Fail

(* parse_node() on its first event.                                        *)
LEMMA NodeOrder ==
  ASSUME IInv, InOrder, NEW e \in Event, Reads(e), NEW path,
         NEW parent \in Nat, parent = IF calls = << >> THEN 0 ELSE Top.node,
         calls = << >> => tree = << >>, ParseNode(e, parent, path)
  PROVE  InOrder'
<1> DEFINE node  == NewNode(e, parent, Len(calls) + 1)
           frame == [node |-> Len(tree) + 1, index |-> 0, path |-> path]
<1>1. CASE NodeRejection(e, Len(calls) + 1) # "none"
  BY <1>1, OrderFails DEF ParseNode
<1>2. CASE NodeRejection(e, Len(calls) + 1) = "none"
  <2>1. /\ tree' = Append(tree, node) /\ node \in Node
        /\ IF e.kind = "scalar" THEN ReturnTo(calls)
                                ELSE calls' = Append(calls, frame) /\ Goto("item")
    BY <1>2, NewNodeFacts DEF ParseNode
  <2>2. node.depth = Len(calls) + 1 /\ node.parent = parent
    BY DEF NewNode
  <2>3. calls \in Seq(Frame) /\ Len(calls) \in Nat /\ DOMAIN calls = 1 .. Len(calls)
    BY LenProperties DEF IInv, TypeOK
  <2> HIDE DEF node
  <2>4. CASE e.kind = "scalar"
    <3>1. \A i \in DOMAIN calls' : i \in DOMAIN calls /\ calls'[i].node = calls[i].node
      BY <2>1, <2>3, <2>4, ReturnKeeps
    <3> QED BY <2>1, <2>2, <3>1, OrderGrows
  <2>5. CASE e.kind # "scalar"
    <3>1. calls' = Append(calls, frame)
      BY <2>1, <2>5
    <3>2. /\ DOMAIN calls' = 1 .. Len(calls) + 1 /\ calls'[Len(calls) + 1] = frame
          /\ \A i \in DOMAIN calls : calls'[i] = calls[i]
      BY <2>3, <3>1
    <3>3. \A i \in DOMAIN calls' : \/ i \in DOMAIN calls /\ calls'[i].node = calls[i].node
                                   \/ calls'[i].node = Len(tree) + 1
      BY <2>3, <3>2
    <3> QED BY <2>1, <2>2, <3>3, OrderGrows
  <2> QED BY <2>4, <2>5
<1> QED BY <1>1, <1>2

(* Every step of the recursive descent keeps the order.                    *)
LEMMA OrderStep ==
  ASSUME IInv, InOrder, [Next]_vars, pc = "content" => tree = << >>
  PROVE  InOrder'
<1> USE DEF Expect, Goto
<1>1. CASE CheckBytes
  BY <1>1, OrderFails, OrderStays DEF CheckBytes
<1>2. ASSUME NEW e \in Offered, Consume(e) PROVE InOrder'
  <2>0. e \in Event BY OfferedAssumption
  <2>1. CASE ReadStreamStart(e)
    BY <2>1, OrderFails, OrderStays DEF ReadStreamStart
  <2>2. CASE ReadDocumentStart(e)
    BY <2>2, OrderFails, OrderStays DEF ReadDocumentStart
  <2>3. CASE ReadContent(e)
    <3>1. pc = "content" /\ Reads(e) /\ calls = << >>
      BY <2>3 DEF ReadContent, Read, Reads, IInv, TypeOK
    <3> QED BY <2>0, <2>3, <3>1, OrderFails, NodeOrder DEF ReadContent
  <2>4. CASE CloseCollection(e)
    <3>1. CASE Fail("syntax", Top.path, tree[Top.node].mark)
      BY <3>1, OrderFails
    <3>2. CASE ReturnTo(SubSeq(calls, 1, Len(calls) - 1)) /\ UNCHANGED tree
      <4> DEFINE rest == SubSeq(calls, 1, Len(calls) - 1)
      <4>1. calls # << >> /\ calls \in Seq(Frame)
        BY <2>4 DEF CloseCollection, IInv, TypeOK
      <4>2. /\ rest \in Seq(Frame)
            /\ \A i \in DOMAIN rest : i \in DOMAIN calls /\ rest[i] = calls[i]
        <5>1. Len(calls) \in Nat \ {0} /\ DOMAIN calls = 1 .. Len(calls)
          BY <4>1, EmptySeq, LenProperties
        <5>2. \A i \in 1 .. Len(calls) - 1 : calls[i] \in Frame
          BY <4>1, <5>1, ElementOfSeq
        <5>3. /\ rest \in Seq(Frame) /\ Len(rest) = Len(calls) - 1
              /\ \A i \in 1 .. Len(calls) - 1 : rest[i] = calls[i]
          BY <5>1, <5>2, SubSeqProperties
        <5>4. DOMAIN rest = 1 .. Len(calls) - 1
          BY <5>3, LenProperties
        <5> HIDE DEF rest
        <5> QED BY <5>1, <5>3, <5>4
      <4> HIDE DEF rest
      <4>3. \A i \in DOMAIN calls' : i \in DOMAIN rest /\ calls'[i].node = rest[i].node
        BY <3>2, <4>2, ReturnKeeps DEF rest
      <4> QED BY <3>2, <4>2, <4>3, OrderStays
    <3> QED BY <2>4, <3>1, <3>2 DEF CloseCollection
  <2>5. CASE Unterminated(e)
    BY <2>5, OrderFails DEF Unterminated
  <2>6. CASE ParseItem(e)
    <3>1. pc = "item" /\ Reads(e) /\ ParseNode(e, Top.node, NextPath)
      BY <2>6 DEF ParseItem, Read, Reads
    <3>2. calls # << >> /\ Top.node \in Nat
      BY <3>1, TopFacts DEF IInv, TypeOK
    <3> QED BY <2>0, <3>1, <3>2, NodeOrder
  <2>7. CASE ReadDocumentEnd(e)
    BY <2>7, OrderFails, OrderStays DEF ReadDocumentEnd
  <2>8. CASE ReadStreamEnd(e)
    BY <2>8, OrderFails, OrderStays DEF ReadStreamEnd
  <2> QED BY <1>2, <2>1, <2>2, <2>3, <2>4, <2>5, <2>6, <2>7, <2>8 DEF Consume
<1>3. ASSUME NEW code \in ReaderFailures, ReaderThrows(code) PROVE InOrder'
  BY <1>3, OrderFails DEF ReaderThrows
<1>4. CASE UNCHANGED vars
  BY <1>4, OrderStays DEF vars
<1> QED BY <1>1, <1>2, <1>3, <1>4 DEF Next

-----------------------------------------------------------------------------
(* The theorems about the strict subset.                                   *)

(* Before the first event nothing is decided, and the tree is empty.       *)
LEMMA StrictInitially == Init => StrictIInv /\ Strict!Init
<1> SUFFICES ASSUME Init PROVE StrictIInv /\ Strict!Init
  OBVIOUS
<1>1. /\ pc = "enter" /\ events = << >> /\ tree = << >> /\ calls = << >>
      /\ outcome.code = "pending" /\ IInv
  BY Initially DEF Init, Pending
<1>2. DOMAIN events = {} /\ DOMAIN tree = {} /\ DOMAIN calls = {} /\ Len(tree) = 0
      /\ Len(calls) = 0
  BY <1>1
<1>3. Open(events) = {} /\ Positions(events, ValueKinds) = {}
  BY <1>2 DEF Open, Positions
<1>4. StackMirrorsEvents
  BY <1>2, <1>3, FS_EmptySet DEF StackMirrorsEvents
<1>5. StageMirrorsEvents
  BY <1>1 DEF StageMirrorsEvents
<1>6. TreeMirrorsEvents
  BY <1>1, <1>2, <1>3 DEF TreeMirrorsEvents
<1>7. InOrder
  BY <1>2 DEF InOrder, Preorder
<1> QED BY <1>1, <1>4, <1>5, <1>6, <1>7 DEF StrictIInv, Strict!Init

(* An exception from the byte limit or from the reader.                    *)
LEMMA AbortStrict ==
  ASSUME StrictIInv, IInv', InOrder', outcome.code = "pending", UNCHANGED events,
         NEW code, NEW at \in {0, Here}, Fail(code, Root, at),
         code \in ReaderFailures \/ (code = "resource_limit" /\ events = << >>)
  PROVE  StrictIInv' /\ Strict!Abort
<1>1. TreeMirrorsEvents'
  BY ThrownMirrors DEF StrictIInv
<1>2. StrictIInv'
  BY <1>1 DEF StrictIInv, Fail
<1> QED BY <1>2 DEF Strict!Abort, Fail

(* Every step keeps the invariant, and is one of the strict subset.        *)
LEMMA StrictStep ==
  StrictIInv /\ [Next]_vars => StrictIInv' /\ [Strict!Next]_<<events, outcome.code>>
<1> SUFFICES ASSUME StrictIInv, [Next]_vars
             PROVE  StrictIInv' /\ [Strict!Next]_<<events, outcome.code>>
  OBVIOUS
<1>0. IInv /\ IInv' /\ InOrder'
  <2>1. pc = "content" => tree = << >>
    BY DEF StrictIInv, StageMirrorsEvents
  <2> QED BY <2>1, Inductive, OrderStep DEF StrictIInv
<1>1. CASE CheckBytes
  <2>1. pc = "enter" /\ UNCHANGED events
    BY <1>1 DEF CheckBytes
  <2>2. StackMirrorsEvents /\ StageMirrorsEvents /\ TreeMirrorsEvents
        /\ outcome.code = "pending" /\ events = << >>
    BY <2>1 DEF StrictIInv, StageMirrorsEvents
  <2>3. CASE bytes > MaxDocumentBytes
    <3>1. Fail("resource_limit", Root, 0)
      BY <1>1, <2>3 DEF CheckBytes
    <3>2. StrictIInv' /\ Strict!Abort
      BY <1>0, <2>1, <2>2, <3>1, AbortStrict
    <3> QED BY <3>2 DEF Strict!Next
  <2>4. CASE ~(bytes > MaxDocumentBytes)
    <3>1. pc' = "stream_start" /\ UNCHANGED <<events, tree, calls, outcome>>
      BY <1>1, <2>4 DEF CheckBytes, Goto
    <3>2. StackMirrorsEvents'
      BY <2>2, <3>1 DEF StackMirrorsEvents, OpenedAt
    <3>3. StageMirrorsEvents'
      BY <2>1, <2>2, <3>1 DEF StageMirrorsEvents
    <3>4. TreeMirrorsEvents'
      BY <2>2, <3>1 DEF TreeMirrorsEvents
    <3> QED BY <1>0, <3>1, <3>2, <3>3, <3>4 DEF StrictIInv
  <2> QED BY <2>3, <2>4
<1>2. ASSUME NEW e \in Offered, Consume(e)
      PROVE  StrictIInv' /\ [Strict!Next]_<<events, outcome.code>>
  <2>1. e \in Event
    BY OfferedAssumption
  <2>2. /\ Mirrors' /\ TreeMirrorsEvents' /\ outcome.code = "pending"
        /\ events' = Append(events, e) /\ outcome'.code = Strict!Verdict(events, e)
    BY <1>0, <1>2, <2>1, ConsumeStrict
  <2>3. Strict!Take(e)
    BY <2>2 DEF Strict!Take
  <2> QED BY <1>0, <2>2, <2>3 DEF StrictIInv, Mirrors, Strict!Next
<1>3. ASSUME NEW code \in ReaderFailures, ReaderThrows(code)
      PROVE  StrictIInv' /\ [Strict!Next]_<<events, outcome.code>>
  <2>1. Reading /\ UNCHANGED events /\ Fail(code, Root, Here)
    BY <1>3 DEF ReaderThrows
  <2>2. outcome.code = "pending"
    BY <2>1, Underway
  <2>3. StrictIInv' /\ Strict!Abort
    BY <1>0, <2>1, <2>2, AbortStrict
  <2> QED BY <2>3 DEF Strict!Next
<1>4. CASE UNCHANGED vars
  <2>1. UNCHANGED <<pc, events, tree, calls, outcome>>
    BY <1>4 DEF vars
  <2>2. pc # "failed" => StackMirrorsEvents' /\ StageMirrorsEvents'
    BY <2>1 DEF StrictIInv, StackMirrorsEvents, StageMirrorsEvents, OpenedAt
  <2>3. TreeMirrorsEvents'
    BY <2>1 DEF StrictIInv, TreeMirrorsEvents
  <2> QED BY <1>0, <2>1, <2>2, <2>3 DEF StrictIInv
<1> QED BY <1>1, <1>2, <1>3, <1>4 DEF Next

(* The activations, the counters and the tree follow the events read.      *)
THEOREM StrictInvariance == Spec => []StrictIInv
BY StrictInitially, StrictStep, PTL DEF Spec

(* A node is retained after its parent and before any node that is not     *)
(* inside it, which is what the validation walks.                          *)
THEOREM OrderKept == Spec => []InOrder
<1>1. StrictIInv => InOrder BY DEF StrictIInv
<1> QED BY <1>1, StrictInvariance, PTL

(* The tree is the one the events spell, for every reader and every limit. *)
THEOREM MirrorKept == Spec => []TreeMirrorsEvents
<1>1. StrictIInv => TreeMirrorsEvents BY DEF StrictIInv
<1> QED BY <1>1, StrictInvariance, PTL

(* The recursive descent, with its stack and its counters, decides every   *)
(* stream as the strict subset does, which has neither.                    *)
THEOREM ImplementsStrictSubset == Spec => StrictSubset
<1>1. Init => Strict!Init
  BY StrictInitially
<1>2. StrictIInv /\ [Next]_vars => [Strict!Next]_<<events, outcome.code>>
  BY StrictStep
<1> QED BY <1>1, <1>2, StrictInvariance, PTL DEF Spec, StrictSubset, Strict!Spec

-----------------------------------------------------------------------------
(* Where a failure is.                                                     *)

(* A value lies behind the start of the collection it is in.               *)
LEMMA MembersAbove ==
  ASSUME NEW s \in Seq(Event), NEW o \in Nat, NEW m \in Members(s, o)
  PROVE  m \in 1 .. Len(s) /\ o < m
<1>1. m \in 1 .. Len(s) /\ Len(s) \in Nat
  BY MembersFinite, LenProperties
<1>2. Before(s, m) \in Seq(Event) /\ Len(Before(s, m)) = m - 1
  BY <1>1, BeforeStays
<1>3. Innermost(Before(s, m)) = o
  BY DEF Members
<1>4. o \in 0 .. m - 1
  BY <1>2, <1>3, InnermostIs
<1> QED BY <1>1, <1>4

(* The sequences among the outermost activations.                          *)
LEMMA SequencesFinite ==
  ASSUME NEW i \in Nat
  PROVE  /\ SequencesTo(i) \subseteq 1 .. i
         /\ IsFiniteSet(SequencesTo(i)) /\ Cardinality(SequencesTo(i)) \in Nat
         /\ i > 0 => SequencesTo(i) =
                       IF tree[calls[i].node].kind = "sequence"
                         THEN SequencesTo(i - 1) \union {i} ELSE SequencesTo(i - 1)
         /\ i \notin SequencesTo(i - 1)
         /\ i = 0 => SequencesTo(i) = {}
<1>1. SequencesTo(i) \subseteq 1 .. i
  BY DEF SequencesTo
<1>2. IsFiniteSet(1 .. i)
  BY FS_Interval
<1>3. IsFiniteSet(SequencesTo(i)) /\ Cardinality(SequencesTo(i)) \in Nat
  BY <1>1, <1>2, FS_Subset, FS_CardinalityType
<1>4. ASSUME i > 0
      PROVE  SequencesTo(i) = IF tree[calls[i].node].kind = "sequence"
                                THEN SequencesTo(i - 1) \union {i} ELSE SequencesTo(i - 1)
  <2>1. 1 .. i = (1 .. i - 1) \union {i} /\ i \notin 1 .. i - 1
    BY <1>4
  <2> QED BY <2>1 DEF SequencesTo
<1>5. i \notin SequencesTo(i - 1)
  BY DEF SequencesTo
<1>6. i = 0 => SequencesTo(i) = {}
  BY DEF SequencesTo
<1> QED BY <1>1, <1>3, <1>4, <1>5, <1>6

(* Activations are told apart, and put in order, by where they opened.     *)
LEMMA OpenedInOrder ==
  ASSUME IInv, StackMirrorsEvents, NEW i \in DOMAIN calls, NEW j \in DOMAIN calls
  PROVE  /\ OpenedAt(i) \in 1 .. Len(events)
         /\ i <= j => OpenedAt(i) <= OpenedAt(j)
         /\ OpenedAt(i) <= OpenedAt(j) => i <= j
         /\ OpenedAt(i) = OpenedAt(j) => i = j
<1>1. i \in Nat /\ j \in Nat /\ OpenedAt(i) \in 1 .. Len(events) /\ OpenedAt(j) \in 1 .. Len(events)
      /\ Len(events) \in Nat
  BY StackFacts
<1>2. (i < j => OpenedAt(i) < OpenedAt(j)) /\ (j < i => OpenedAt(j) < OpenedAt(i))
  BY DEF StackMirrorsEvents
<1>3. CASE i < j
  BY <1>1, <1>2, <1>3
<1>4. CASE j < i
  BY <1>1, <1>2, <1>4
<1>5. CASE i = j
  BY <1>1, <1>5
<1> QED BY <1>1, <1>3, <1>4, <1>5

(* There are as many starts as activations that opened there.              *)
LEMMA StartsCounted ==
  ASSUME IInv, StackMirrorsEvents, NEW i \in Nat, i <= Len(calls)
  PROVE  Cardinality({OpenedAt(j) : j \in SequencesTo(i)}) = Cardinality(SequencesTo(i))
<1> DEFINE S == SequencesTo(i)
           T == {OpenedAt(j) : j \in S}
           f == [j \in S |-> OpenedAt(j)]
<1>1. IsFiniteSet(S) /\ \A j \in S : j \in DOMAIN calls
  BY SequencesFinite, StackFacts
<1> HIDE DEF S
<1>2. \A j \in S : \A k \in S : OpenedAt(j) = OpenedAt(k) => j = k
  BY <1>1, OpenedInOrder
<1>3. f \in Surjection(S, T) /\ f \in Injection(S, T)
  <2>1. f \in [S -> T] /\ DOMAIN f = S
    OBVIOUS
  <2>2. \A x \in T : \E j \in S : f[j] = x
    OBVIOUS
  <2>3. \A j, k \in S : f[j] = f[k] => j = k
    BY <1>2
  <2> HIDE DEF f, T
  <2> QED BY <2>1, <2>2, <2>3 DEF Surjection, Injection, IsInjective
<1>4. Cardinality(T) = Cardinality(S)
  <2> HIDE DEF f, T
  <2> QED BY <1>1, <1>3, FS_Surjection
<1> QED BY <1>4 DEF S

(* The position c of the stream is directly inside the k-th of the n       *)
(* activations: what is read next, or the start of the activation above.   *)
Inside(n, k, c) ==
  /\ n = Len(calls)
  /\ k = n => c = Len(events) + 1
  /\ k # n => c = OpenedAt(k + 1)

(* Inside the activation, at the place of the value that is read next or   *)
(* of the activation above it, the values before are those it counts.      *)
LEMMA IndexCounts ==
  ASSUME IInv, StackMirrorsEvents, PathsMirrorEvents, NEW e \in Event,
         NEW n \in Nat, NEW k \in 0 .. n, NEW c, Inside(n, k, c),
         NEW j \in 1 .. k
  PROVE  Cardinality({i \in Members(Append(events, e), OpenedAt(j)) : i < c}
                       \ {OpenedAt(l) : l \in 1 .. k}) = calls[j].index
<1> USE DEF Inside
<1> DEFINE o == OpenedAt(j)
           inside == Members(events, o)
           open == {OpenedAt(l) : l \in 1 .. k}
<1>0. /\ events \in Seq(Event) /\ Len(events) \in Nat /\ DOMAIN calls = 1 .. n
      /\ \A i \in DOMAIN calls : OpenedAt(i) \in 1 .. Len(events) /\ calls[i].index \in Nat
  BY StackFacts
<1>1. /\ k \in Nat /\ j \in Nat /\ j \in DOMAIN calls
      /\ \A l \in 1 .. k : l \in DOMAIN calls
      /\ k # n => k + 1 \in DOMAIN calls
      /\ o \in 1 .. Len(events) /\ calls[j].index \in Nat
  BY <1>0
<1>2. /\ inside \subseteq 1 .. Len(events) /\ IsFiniteSet(inside)
      /\ \A m \in inside : o < m
  BY <1>0, <1>1, MembersFinite, MembersAbove
<1>3. c \in 1 .. Len(events) + 1
  <2>1. CASE k = n
    BY <1>0, <2>1
  <2>2. CASE k # n
    <3>1. OpenedAt(k + 1) \in 1 .. Len(events)
      BY <1>0, <1>1, <2>2
    <3> QED BY <1>0, <2>2, <3>1
  <2> QED BY <2>1, <2>2
<1>4. {i \in Members(Append(events, e), o) : i < c} = {i \in inside : i < c}
  <2>1. \/ Members(Append(events, e), o) = inside
        \/ Members(Append(events, e), o) = inside \union {Len(events) + 1}
    BY <1>0, <1>1, MembersGrow
  <2>2. ~ (Len(events) + 1 < c)
    BY <1>0, <1>1, <1>3
  <2> QED BY <2>1, <2>2
<1>5. Cardinality(inside) = IF j = n THEN calls[j].index ELSE calls[j].index + 1
  BY <1>0, <1>1 DEF StackMirrorsEvents
<1>6. CASE j = n
  <2>1. k = n /\ c = Len(events) + 1
    BY <1>0, <1>1, <1>6 DEF Here
  <2>2. \A l \in 1 .. k : OpenedAt(l) <= o
    BY <1>0, <1>1, <1>6, <2>1, OpenedInOrder
  <2>3. \A m \in inside : m < c /\ m \notin open
    BY <1>0, <1>1, <1>2, <2>1, <2>2
  <2>4. {i \in inside : i < c} \ open = inside
    BY <2>3
  <2> QED BY <1>4, <1>5, <1>6, <2>4
<1>7. CASE j # n
  <2> DEFINE next == OpenedAt(j + 1)
  <2>1. j + 1 \in DOMAIN calls /\ j + 1 > 1 /\ j + 1 - 1 = j
    BY <1>0, <1>1, <1>7
  <2>2. next \in inside /\ \A m \in inside : m <= next
    BY <2>1 DEF PathsMirrorEvents, PathMirrorsEvents
  <2>3. next \in 1 .. Len(events)
    BY <2>1, OpenedInOrder
  <2>4. ASSUME NEW m \in inside, m # next PROVE m < c /\ m \notin open
    <3>1. m < next /\ o < m /\ m \in Nat
      BY <1>0, <1>1, <1>2, <2>2, <2>3, <2>4
    <3>2. next <= c
      <4>1. CASE k = n
        BY <1>0, <1>1, <2>3, <4>1 DEF Here
      <4>2. CASE k # n
        <5>1. j + 1 <= k + 1 /\ k + 1 \in DOMAIN calls
          BY <1>0, <1>1, <4>2
        <5> QED BY <2>1, <4>2, <5>1, OpenedInOrder
      <4> QED BY <4>1, <4>2
    <3>3. ASSUME NEW l \in 1 .. k, m = OpenedAt(l) PROVE FALSE
      <4>0. l \in DOMAIN calls /\ l \in Nat
        BY <1>1
      <4>1. l \in DOMAIN calls /\ l \in Nat /\ OpenedAt(l) \in Nat
        BY <1>0, <4>0
      <4>2. ~ (l <= j)
        <5>1. ~ (OpenedAt(l) <= o)
          BY <1>0, <1>1, <3>1, <3>3, <4>1
        <5> QED BY <1>0, <1>1, <4>1, <5>1, OpenedInOrder
      <4>3. ~ (j + 1 <= l)
        <5>1. ~ (next <= OpenedAt(l))
          BY <2>3, <3>1, <3>3, <4>1
        <5> QED BY <2>1, <4>1, <5>1, OpenedInOrder
      <4> QED BY <1>0, <1>1, <4>1, <4>2, <4>3
    <3> QED BY <1>0, <1>1, <1>3, <2>3, <3>1, <3>2, <3>3
  <2>5. ~ (next < c /\ next \notin open)
    <3>1. CASE j + 1 \in 1 .. k
      BY <3>1
    <3>2. CASE j + 1 \notin 1 .. k
      <4>1. j = k /\ k # n
        BY <1>0, <1>1, <1>7, <3>2
      <4>2. c = next
        BY <4>1
      <4> QED BY <1>3, <4>2
    <3> QED BY <3>1, <3>2
  <2> HIDE DEF next, inside, open
  <2>6. {i \in inside : i < c} \ open = inside \ {next}
    BY <2>4, <2>5
  <2>7. Cardinality(inside \ {next}) = Cardinality(inside) - 1
    BY <1>2, <2>2, FS_RemoveElement
  <2>8. Cardinality(inside) = calls[j].index + 1
    BY <1>5, <1>7
  <2>9. {i \in Members(Append(events, e), OpenedAt(j)) : i < c} = {i \in inside : i < c}
    BY <1>4
  <2>10. {i \in Members(Append(events, e), OpenedAt(j)) : i < c}
           \ {OpenedAt(l) : l \in 1 .. k} = inside \ {next}
    BY <2>6, <2>9 DEF open
  <2>11. \A x \in Nat : \A y : y = x + 1 => y - 1 = x
    OBVIOUS
  <2>12. Cardinality(inside) - 1 = calls[j].index
    BY <1>1, <2>8, <2>11
  <2>13. Cardinality(inside \ {next}) = calls[j].index
    BY <2>7, <2>12
  <2> QED BY <2>10, <2>13
<1> QED BY <1>6, <1>7

(* A path with the indices of the outermost activations leads to what is   *)
(* directly inside the last of them.                                       *)
LEMMA PathLeads ==
  ASSUME IInv, StackMirrorsEvents, PathsMirrorEvents, NEW e \in Event,
         NEW n \in Nat, NEW k \in 0 .. n, NEW c, Inside(n, k, c),
         NEW path, Indexed(path, k)
  PROVE  LeadsTo(Append(events, e), path, c)
<1>i. ASSUME NEW j \in 1 .. k
      PROVE  Cardinality({i \in Members(Append(events, e), OpenedAt(j)) : i < c}
                           \ {OpenedAt(l) : l \in 1 .. k}) = calls[j].index
  BY IndexCounts
<1> USE DEF Inside, Indexed
<1> DEFINE t == Append(events, e)
           open == Open(Before(t, c))
           seqs == {o \in open : t[o].kind = "sequence_start"}
           starts == {OpenedAt(j) : j \in SequencesTo(k)}
<1>0. /\ events \in Seq(Event) /\ Len(events) \in Nat /\ DOMAIN calls = 1 .. n
  BY StackFacts
<1>1. /\ k \in Nat
      /\ \A l \in 1 .. k : l \in DOMAIN calls
      /\ k # n => k + 1 \in DOMAIN calls
  BY <1>0
<1>2. open = {OpenedAt(l) : l \in 1 .. k}
  <2>1. CASE k = n
    <3>1. Before(t, c) = events
      BY <1>0, <1>1, <2>1, BeforeStays DEF Here
    <3> QED BY <1>0, <1>1, <2>1, <3>1 DEF StackMirrorsEvents
  <2>2. CASE k # n
    <3>1. c = OpenedAt(k + 1) /\ k + 1 \in DOMAIN calls /\ c \in 1 .. Len(events) /\ k + 1 - 1 = k
      BY <1>0, <1>1, <2>2, OpenedInOrder
    <3>2. Before(t, c) = Before(events, c)
      BY <1>0, <1>1, <3>1, BeforeStays
    <3>3. Open(Before(events, OpenedAt(k + 1))) = {OpenedAt(l) : l \in 1 .. k + 1 - 1}
      BY <3>1 DEF PathsMirrorEvents, PathMirrorsEvents
    <3> QED BY <3>1, <3>2, <3>3
  <2> QED BY <2>1, <2>2
<1>3. \A l \in 1 .. k : t[OpenedAt(l)].kind = "sequence_start" <=>
                          tree[calls[l].node].kind = "sequence"
  <2> SUFFICES ASSUME NEW l \in 1 .. k
               PROVE  t[OpenedAt(l)].kind = "sequence_start" <=>
                        tree[calls[l].node].kind = "sequence"
    OBVIOUS
  <2>1. l \in DOMAIN calls /\ OpenedAt(l) \in DOMAIN events
    BY <1>0, <1>1, OpenedInOrder, LenProperties
  <2>2. t[OpenedAt(l)] = events[OpenedAt(l)]
    BY <1>0, <1>1, <2>1, Appended
  <2>3. events[OpenedAt(l)].kind = IF tree[calls[l].node].kind = "sequence"
                                     THEN "sequence_start" ELSE "mapping_start"
    BY <2>1 DEF StackMirrorsEvents
  <2> QED BY <2>2, <2>3
<1>4. seqs = starts
  <2> HIDE DEF t, open
  <2> QED BY <1>2, <1>3 DEF SequencesTo
<1>5. Cardinality(starts) = Cardinality(SequencesTo(k))
  BY <1>0, <1>1, StartsCounted
<1>6. ASSUME NEW j \in SequencesTo(k)
      PROVE  /\ Cardinality({p \in starts : p <= OpenedAt(j)}) = Cardinality(SequencesTo(j))
             /\ Cardinality({i \in Members(t, OpenedAt(j)) : i < c} \ open) = calls[j].index
  <2>1. j \in 1 .. k /\ j \in Nat /\ j <= n /\ j \in DOMAIN calls
    BY <1>0, <1>1 DEF SequencesTo
  <2>2. \A l \in 1 .. k : OpenedAt(l) <= OpenedAt(j) <=> l <= j
    BY <1>0, <1>1, <2>1, OpenedInOrder
  <2>3. {l \in SequencesTo(k) : l <= j} = SequencesTo(j)
    BY <1>0, <1>1, <2>1 DEF SequencesTo
  <2>4. \A l \in SequencesTo(k) : l \in 1 .. k
    BY DEF SequencesTo
  <2>5. {p \in starts : p <= OpenedAt(j)} = {OpenedAt(l) : l \in SequencesTo(j)}
    BY <2>2, <2>3, <2>4
  <2>6. Cardinality({i \in Members(t, OpenedAt(j)) : i < c} \ {OpenedAt(l) : l \in 1 .. k})
          = calls[j].index
    <3>1. Cardinality({i \in Members(Append(events, e), OpenedAt(j)) : i < c}
                         \ {OpenedAt(l) : l \in 1 .. k}) = calls[j].index
      BY <1>i, <2>1
    <3> QED BY <3>1
  <2>7. Cardinality({OpenedAt(l) : l \in SequencesTo(j)}) = Cardinality(SequencesTo(j))
    BY <2>1, StartsCounted
  <2> HIDE DEF open, starts
  <2> QED BY <1>2, <2>5, <2>6, <2>7
<1>7. ASSUME NEW o \in seqs
      PROVE  path[Cardinality({p \in seqs : p <= o})] =
               <<"item", Cardinality({i \in Members(t, o) : i < c} \ open)>>
  <2> HIDE DEF t, open, seqs
  <2>1. PICK j \in SequencesTo(k) : o = OpenedAt(j)
    BY <1>4, <1>7
  <2> QED BY <1>4, <1>6, <2>1
<1>8. Len(path) = Cardinality(seqs)
  <2> HIDE DEF seqs, starts
  <2> QED BY <1>4, <1>5
<1> QED BY <1>7, <1>8 DEF LeadsTo

(* The activations that go on keep their places and paths.                 *)
LEMMA PathsStay ==
  ASSUME IInv, StackMirrorsEvents, PathsMirrorEvents, NEW e \in Event, Reads(e),
         NEW l \in Nat, l <= Len(calls),
         \A i \in 1 .. l : /\ calls'[i].node = calls[i].node
                           /\ calls'[i].path = calls[i].path
                           /\ i # l => calls'[i].index = calls[i].index,
         \A m \in DOMAIN tree : tree'[m] = tree[m]
  PROVE  /\ \A i \in 1 .. l : PathMirrorsEvents(i)' /\ OpenedAt(i)' = OpenedAt(i)
         /\ \A i \in 0 .. l : SequencesTo(i)' = SequencesTo(i)
<1>1. /\ events \in Seq(Event) /\ Len(events) \in Nat
      /\ Len(calls) \in Nat /\ DOMAIN calls = 1 .. Len(calls)
      /\ \A i \in DOMAIN calls : calls[i].node \in DOMAIN tree
      /\ events' = Append(events, e)
  BY StackFacts DEF Reads
<1>2. \A i \in 1 .. l : i \in DOMAIN calls
  BY <1>1
<1>3. \A i \in 1 .. l : /\ tree'[calls'[i].node] = tree[calls[i].node]
                        /\ OpenedAt(i)' = OpenedAt(i)
  BY <1>1, <1>2 DEF OpenedAt
<1>4. \A i \in 0 .. l : SequencesTo(i)' = SequencesTo(i)
  BY <1>3 DEF SequencesTo
<1>5. ASSUME NEW i \in 1 .. l PROVE PathMirrorsEvents(i)'
  <2>1. /\ PathMirrorsEvents(i) /\ i \in DOMAIN calls /\ i \in Nat
        /\ OpenedAt(i) \in 1 .. Len(events)
    BY <1>2, OpenedInOrder DEF PathsMirrorEvents
  <2>2. Open(Before(events', OpenedAt(i)')) = {OpenedAt(j)' : j \in 1 .. i - 1}
    <3>1. Before(events', OpenedAt(i)) = Before(events, OpenedAt(i))
      BY <1>1, <2>1, BeforeStays
    <3>2. \A j \in 1 .. i - 1 : j \in 1 .. l
      BY <2>1
    <3> QED BY <1>3, <2>1, <3>1, <3>2 DEF PathMirrorsEvents
  <2>3. ASSUME i > 1
        PROVE  /\ OpenedAt(i)' \in Members(events', OpenedAt(i - 1)')
               /\ \A m \in Members(events', OpenedAt(i - 1)') : m <= OpenedAt(i)'
    <3>1. i - 1 \in 1 .. l /\ i - 1 \in DOMAIN calls /\ i - 1 # Len(calls)
      BY <1>1, <2>1, <2>3
    <3>2. Innermost(events) # OpenedAt(i - 1)
      BY <3>1, StackFacts
    <3>3. Members(events', OpenedAt(i - 1)) = Members(events, OpenedAt(i - 1))
      BY <1>1, <3>2, MembersGrow
    <3> QED BY <1>3, <2>1, <2>3, <3>1, <3>3 DEF PathMirrorsEvents
  <2>4. Indexed(calls[i].path, i - 1)'
    <3>1. i - 1 \in 0 .. l /\ \A j \in SequencesTo(i - 1) : j \in 1 .. i - 1
      BY <2>1 DEF SequencesTo
    <3>2. \A j \in SequencesTo(i - 1) : j \in 0 .. l /\ j \in 1 .. l /\ j # l
      BY <2>1, <3>1
    <3>3. SequencesTo(i - 1)' = SequencesTo(i - 1)
      BY <1>4, <3>1
    <3>4. \A j \in SequencesTo(i - 1) :
            SequencesTo(j)' = SequencesTo(j) /\ calls'[j].index = calls[j].index
      BY <1>4, <3>2
    <3> QED BY <2>1, <3>3, <3>4 DEF Indexed, PathMirrorsEvents
  <2> QED BY <2>2, <2>3, <2>4 DEF PathMirrorsEvents
<1> QED BY <1>3, <1>4, <1>5

(* So does the one that opens.                                             *)
LEMMA PathsOpen ==
  ASSUME IInv, StackMirrorsEvents, PathsMirrorEvents, NEW e \in Event, Reads(e),
         e.kind \in StartKinds, NEW node \in Node, node.mark = Here,
         tree' = Append(tree, node), NEW frame \in Frame, frame.node = Len(tree) + 1,
         calls' = Append(calls, frame), Indexed(frame.path, Len(calls))
  PROVE  PathsMirrorEvents'
<1>0. PICK n \in Nat : n = Len(calls)
  BY StackFacts
<1>1. /\ events \in Seq(Event) /\ Len(events) \in Nat
      /\ calls \in Seq(Frame) /\ DOMAIN calls = 1 .. n
      /\ tree \in Seq(Node) /\ Len(tree) \in Nat
      /\ events' = Append(events, e) /\ Indexed(frame.path, n)
  BY <1>0, StackFacts DEF Reads, IInv, TypeOK
<1>2. /\ DOMAIN calls' = 1 .. n + 1
      /\ \A i \in 1 .. n : calls'[i] = calls[i]
      /\ calls'[n + 1] = frame
  BY <1>0, <1>1, AppendProperties
<1>3. /\ \A m \in DOMAIN tree : tree'[m] = tree[m]
      /\ tree'[Len(tree) + 1] = node
  BY <1>1, AppendProperties
<1>4. /\ \A i \in 1 .. n : PathMirrorsEvents(i)' /\ OpenedAt(i)' = OpenedAt(i)
      /\ \A i \in 0 .. n : SequencesTo(i)' = SequencesTo(i)
  <2>1. n <= Len(calls)
    BY <1>0
  <2> QED BY <1>2, <1>3, <2>1, PathsStay
<1>5. OpenedAt(n + 1)' = Len(events) + 1
  BY <1>2, <1>3 DEF OpenedAt, Here
<1>6. PathMirrorsEvents(n + 1)'
  <2>0. n + 1 - 1 = n /\ n \in 0 .. n
    OBVIOUS
  <2>1. Open(Before(events', Len(events) + 1)) = {OpenedAt(j)' : j \in 1 .. n}
    <3>1. Before(events', Len(events) + 1) = events
      BY <1>1, BeforeStays
    <3>2. Open(events) = {OpenedAt(j) : j \in 1 .. n}
      BY <1>1 DEF StackMirrorsEvents
    <3> QED BY <1>4, <3>1, <3>2
  <2>2. ASSUME n + 1 > 1
        PROVE  /\ Len(events) + 1 \in Members(events', OpenedAt(n)')
               /\ \A m \in Members(events', OpenedAt(n)') : m <= Len(events) + 1
    <3>1. n \in 1 .. n /\ calls # << >>
      BY <1>1, <2>2
    <3>2. Innermost(events) = OpenedAt(n) /\ OpenedAt(n)' = OpenedAt(n)
      BY <1>0, <1>4, <3>1, StackFacts
    <3>3. Members(events', OpenedAt(n)) = Members(events, OpenedAt(n)) \union {Len(events) + 1}
      BY <1>1, <3>2, MembersGrow DEF ValueKinds
    <3>4. Members(events, OpenedAt(n)) \subseteq 1 .. Len(events)
      BY <1>1, MembersFinite
    <3> QED BY <1>1, <3>2, <3>3, <3>4
  <2>3. Indexed(frame.path, n)'
    <3>1. \A j \in SequencesTo(n) : j \in 1 .. n /\ j \in 0 .. n
      BY DEF SequencesTo
    <3>2. SequencesTo(n)' = SequencesTo(n)
      BY <1>4, <2>0
    <3>3. \A j \in SequencesTo(n) :
            SequencesTo(j)' = SequencesTo(j) /\ calls'[j].index = calls[j].index
      BY <1>2, <1>4, <3>1
    <3> QED BY <1>1, <3>2, <3>3 DEF Indexed
  <2> QED BY <1>2, <1>5, <2>0, <2>1, <2>2, <2>3 DEF PathMirrorsEvents
<1>7. \A i \in 1 .. n + 1 : i \in 1 .. n \/ i = n + 1
  OBVIOUS
<1> QED BY <1>2, <1>4, <1>6, <1>7 DEF PathsMirrorEvents

(* The path of the item that is read next has all the indices.             *)
LEMMA NextPathIndexed ==
  ASSUME IInv, StackMirrorsEvents, PathsMirrorEvents, pc = "item"
  PROVE  /\ Indexed(NextPath, Len(calls))
         /\ Indexed(Top.path, Len(calls) - 1)
<1>0. PICK n \in Nat \ {0} : n = Len(calls)
  BY TopFacts
<1>1. /\ n \in DOMAIN calls /\ Top = calls[n] /\ Top.index \in Nat
      /\ Top.path \in ItemPaths /\ n - 1 \in Nat
  BY <1>0, TopFacts DEF Top
<1>2. Indexed(Top.path, n - 1)
  BY <1>1 DEF PathsMirrorEvents, PathMirrorsEvents
<1>3. /\ SequencesTo(n) = IF tree[Top.node].kind = "sequence"
                            THEN SequencesTo(n - 1) \union {n} ELSE SequencesTo(n - 1)
      /\ n \notin SequencesTo(n - 1)
      /\ IsFiniteSet(SequencesTo(n - 1)) /\ Cardinality(SequencesTo(n - 1)) \in Nat
  BY <1>1, SequencesFinite
<1>4. CASE tree[Top.node].kind = "sequence"
  <2> DEFINE item == <<"item", Top.index>>
             size == Cardinality(SequencesTo(n - 1))
  <2>1. /\ NextPath = Append(Top.path, item)
        /\ item \in {"item"} \X Nat
    BY <1>1, <1>4 DEF NextPath, ItemPath
  <2> HIDE DEF item
  <2>2. Len(Top.path) = size /\ size \in Nat
    BY <1>2, <1>3 DEF Indexed
  <2>3. Cardinality(SequencesTo(n)) = size + 1
    BY <1>3, <1>4, FS_AddElement
  <2> HIDE DEF size
  <2>4. /\ Len(NextPath) = size + 1
        /\ \A i \in 1 .. size : NextPath[i] = Top.path[i]
        /\ NextPath[size + 1] = item
    BY <1>1, <2>1, <2>2, AppendProperties DEF ItemPaths
  <2>5. ASSUME NEW j \in SequencesTo(n - 1)
        PROVE  NextPath[Cardinality(SequencesTo(j))] = <<"item", calls[j].index>>
    <3>1. j \in SequencesTo(j) /\ SequencesTo(j) \subseteq SequencesTo(n - 1) /\ j \in Nat
      BY <1>1 DEF SequencesTo
    <3>2. Cardinality(SequencesTo(j)) <= size
      BY <1>3, <3>1, FS_Subset DEF size
    <3>3. Cardinality(SequencesTo(j)) # 0 /\ Cardinality(SequencesTo(j)) \in Nat
      BY <3>1, SequencesFinite, FS_EmptySet
    <3>4. Cardinality(SequencesTo(j)) \in 1 .. size
      BY <2>2, <3>2, <3>3
    <3> QED BY <1>2, <2>4, <3>4 DEF Indexed
  <2>6. NextPath[Cardinality(SequencesTo(n))] = <<"item", calls[n].index>>
    BY <1>1, <2>3, <2>4 DEF item
  <2>7. \A j \in SequencesTo(n) : j \in SequencesTo(n - 1) \/ j = n
    BY <1>3, <1>4
  <2>8. \A j \in SequencesTo(n) :
          NextPath[Cardinality(SequencesTo(j))] = <<"item", calls[j].index>>
    BY <2>5, <2>6, <2>7
  <2>9. Len(NextPath) = Cardinality(SequencesTo(n))
    BY <2>3, <2>4
  <2>10. Indexed(NextPath, n)
    BY <2>8, <2>9 DEF Indexed
  <2> QED BY <1>0, <1>2, <2>10
<1>5. CASE tree[Top.node].kind # "sequence"
  <2>1. Indexed(NextPath, n)
    BY <1>2, <1>3, <1>5 DEF NextPath, Indexed
  <2> QED BY <1>0, <1>2, <2>1
<1> QED BY <1>4, <1>5

-----------------------------------------------------------------------------
(* Each way to fail.                                                       *)

(* Outside of every collection the path is the root.                       *)
LEMMA LocatedAtRoot ==
  ASSUME IInv, StackMirrorsEvents, calls = << >>, NEW e \in Event, Reads(e),
         NEW code, Fail(code, Root, Here)
  PROVE  FailureLocated'
<1>1. /\ events \in Seq(Event) /\ Len(events) \in Nat /\ Innermost(events) = 0
      /\ events' = Append(events, e) /\ Len(events') = Len(events) + 1
  BY StackFacts, Appended DEF Reads
<1>2. Before(events', Len(events')) = events
  BY <1>1, BeforeStays
<1>3. outcome'.path = Root /\ outcome'.at = Len(events')
  BY <1>1 DEF Fail, Here
<1> QED BY <1>1, <1>2, <1>3 DEF FailureLocated

(* Before an event is returned nothing can be named.                       *)
LEMMA LocatedNowhere ==
  ASSUME IInv, UNCHANGED events, NEW code, NEW path, NEW at \in {0, Here}, Fail(code, path, at)
  PROVE  FailureLocated'
<1>1. Len(events) \in Nat
  BY LenProperties DEF IInv, TypeOK
<1>2. outcome'.at \notin 1 .. Len(events')
  BY <1>1 DEF Fail, Here
<1> QED BY <1>2 DEF FailureLocated

(* Inside a collection there are a next place in it and its own place.     *)
LEMMA PathsInside ==
  ASSUME IInv, StackMirrorsEvents, PathsMirrorEvents, pc = "item", NEW e \in Event, Reads(e)
  PROVE  /\ Len(events') = Len(events) + 1 /\ events'[Len(events')] = e
         /\ Innermost(Before(events', Len(events'))) = tree[Top.node].mark
         /\ tree[Top.node].mark \in 1 .. Len(events) /\ Len(events) \in Nat
         /\ LeadsTo(events', NextPath, Len(events'))
         /\ LeadsTo(events', Top.path, tree[Top.node].mark)
<1>0. PICK n \in Nat \ {0} : n = Len(calls)
  BY TopFacts
<1>1. /\ events \in Seq(Event) /\ Len(events) \in Nat /\ calls # << >>
      /\ events' = Append(events, e) /\ Len(events') = Len(events) + 1
      /\ events'[Len(events')] = e
  BY StackFacts, Appended DEF Reads, IInv, TypeOK
<1>2. /\ OpenedAt(n) = tree[Top.node].mark
      /\ Innermost(events) = OpenedAt(n) /\ OpenedAt(n) \in 1 .. Len(events)
  BY <1>0, <1>1, StackFacts DEF OpenedAt, Top
<1>3. Before(events', Len(events')) = events
  BY <1>1, BeforeStays
<1>4. Indexed(NextPath, n) /\ Indexed(Top.path, n - 1)
  BY <1>0, NextPathIndexed
<1>5. /\ n \in 0 .. n /\ Inside(n, n, Len(events'))
      /\ n - 1 \in 0 .. n /\ Inside(n, n - 1, OpenedAt(n))
  BY <1>0, <1>1 DEF Inside
<1>6. /\ LeadsTo(Append(events, e), NextPath, Len(events'))
      /\ LeadsTo(Append(events, e), Top.path, OpenedAt(n))
  BY <1>4, <1>5, PathLeads
<1> QED BY <1>1, <1>2, <1>3, <1>6

(* A value refused is at the next place, and neither the end of the input  *)
(* nor that of a mapping is refused as one by its syntax.                  *)
LEMMA LocatedItem ==
  ASSUME IInv, StackMirrorsEvents, PathsMirrorEvents, pc = "item", NEW e \in Event, Reads(e),
         ~EndsInput(e), NEW code, e.kind = "mapping_end" => code # "syntax",
         Fail(code, NextPath, Here)
  PROVE  FailureLocated'
<1>1. outcome' = [code |-> code, path |-> NextPath, at |-> Len(events) + 1]
  BY DEF Fail, Here
<1>2. outcome'.code = code /\ outcome'.path = NextPath /\ outcome'.at = Len(events) + 1
  BY <1>1
<1> QED BY <1>2, PathsInside DEF FailureLocated, EndsInput

(* A collection that the input leaves open, or whose last key has no       *)
(* value, is at its own place.                                             *)
LEMMA LocatedCollection ==
  ASSUME IInv, StackMirrorsEvents, PathsMirrorEvents, pc = "item", NEW e \in Event, Reads(e),
         NEW at, Fail("syntax", Top.path, at),
         \/ EndsInput(e) /\ at = Here
         \/ e.kind = "mapping_end" /\ at = tree[Top.node].mark
  PROVE  FailureLocated'
<1>1. outcome' = [code |-> "syntax", path |-> Top.path, at |-> at]
  BY DEF Fail
<1>2. outcome'.code = "syntax" /\ outcome'.path = Top.path /\ outcome'.at = at
  BY <1>1
<1> QED BY <1>2, PathsInside DEF FailureLocated, EndsInput, Here

-----------------------------------------------------------------------------
(* PathIInv is inductive under StrictIInv.                                 *)

(* A step that does not fail has no failure to place.                      *)
LEMMA NothingToLocate ==
  ASSUME pc' # "failed", PathsMirrorEvents'
  PROVE  PathIInv'
BY DEF PathIInv, FailureLocated

(* A step that fails has no activations left.                              *)
LEMMA OnlyToLocate ==
  ASSUME pc' = "failed", FailureLocated'
  PROVE  PathIInv'
BY DEF PathIInv

(* Neither has any step outside of the collections.                        *)
LEMMA NoPaths ==
  ASSUME calls' = << >>
  PROVE  PathsMirrorEvents'
BY DEF PathsMirrorEvents

(* parse_node() on its first event.                                        *)
LEMMA NodePaths ==
  ASSUME StrictIInv, PathsMirrorEvents, NEW e \in Event, Reads(e),
         NEW parent \in Nat, NEW path \in ItemPaths,
         \/ pc = "content" /\ parent = 0 /\ path = Root
         \/ pc = "item" /\ parent = Top.node /\ path = NextPath /\ ~EndsInput(e),
         ParseNode(e, parent, path)
  PROVE  PathIInv'
<1>1. /\ IInv /\ StackMirrorsEvents /\ pc \notin {"done", "failed"}
      /\ Len(calls) \in Nat /\ Len(tree) \in Nat
      /\ calls \in Seq(Frame) /\ tree \in Seq(Node)
      /\ pc = "item" <=> calls # << >>
  BY Underway, StackFacts DEF Reading, IInv, TypeOK
<1> DEFINE code  == NodeRejection(e, Len(calls) + 1)
           node  == NewNode(e, parent, Len(calls) + 1)
           frame == [node |-> Len(tree) + 1, index |-> 0, path |-> path]
<1>2. CASE code # "none"
  <2>1. Fail(code, path, Here)
    BY <1>2 DEF ParseNode
  <2>2. pc' = "failed"
    BY <2>1 DEF Fail
  <2>3. e.kind = "mapping_end" => code # "syntax"
    BY DEF NodeRejection, FeatureRejection, ValueKinds, StartKinds
  <2> HIDE DEF code
  <2>4. CASE pc = "content"
    BY <1>1, <2>1, <2>2, <2>4, LocatedAtRoot, OnlyToLocate
  <2>5. CASE pc = "item"
    BY <1>1, <2>1, <2>2, <2>3, <2>5, LocatedItem, OnlyToLocate
  <2> QED BY <2>4, <2>5
<1>3. CASE code = "none"
  <2>1. /\ tree' = Append(tree, node)
        /\ e.kind = "scalar" => ReturnTo(calls)
        /\ e.kind # "scalar" => calls' = Append(calls, frame) /\ pc' = "item"
    BY <1>3 DEF ParseNode, Goto
  <2>2. node \in Node /\ node.mark = Here /\ e.kind \in ValueKinds
    BY <1>1, <1>3, NewNodeFacts DEF NewNode
  <2>3. \A m \in DOMAIN tree : tree'[m] = tree[m]
    <3> HIDE DEF node
    <3> QED BY <1>1, <2>1, <2>2, AppendProperties, LenProperties
  <2>4. CASE e.kind = "scalar"
    <3>1. pc' # "failed"
      BY <2>1, <2>4 DEF ReturnTo, Goto
    <3>2. CASE calls = << >>
      BY <2>1, <2>4, <3>1, <3>2, NoPaths, NothingToLocate DEF ReturnTo
    <3>3. CASE calls # << >>
      <4>1. PICK n \in Nat \ {0} : n = Len(calls)
        BY <1>1, <3>3, EmptySeq
      <4>2. calls[n] \in Frame /\ n \in 1 .. n /\ DOMAIN calls = 1 .. n
        BY <1>1, <4>1, ElementOfSeq, LenProperties
      <4>3. calls' = [calls EXCEPT ![n] = [calls[n] EXCEPT !.index = @ + 1]]
        BY <2>1, <2>4, <3>3, <4>1 DEF ReturnTo
      <4>4. [calls[n] EXCEPT !.index = @ + 1].node = calls[n].node
            /\ [calls[n] EXCEPT !.index = @ + 1].path = calls[n].path
        BY <4>2 DEF Frame
      <4>5. \A i \in 1 .. n : /\ calls'[i].node = calls[i].node
                              /\ calls'[i].path = calls[i].path
                              /\ i # n => calls'[i].index = calls[i].index
        BY <4>2, <4>3, <4>4
      <4>6. DOMAIN calls' = 1 .. n
        BY <4>2, <4>3
      <4>7. n <= Len(calls)
        BY <4>1
      <4>8. \A i \in 1 .. n : PathMirrorsEvents(i)'
        BY <1>1, <2>3, <4>5, <4>7, PathsStay
      <4>9. PathsMirrorEvents'
        BY <4>6, <4>8 DEF PathsMirrorEvents
      <4> QED BY <3>1, <4>9, NothingToLocate
    <3> QED BY <3>2, <3>3
  <2>5. CASE e.kind # "scalar"
    <3>1. frame \in Frame /\ frame.node = Len(tree) + 1 /\ frame.path = path
      BY <1>1 DEF Frame, ItemPaths
    <3>2. Indexed(path, Len(calls))
      <4>1. CASE pc = "content"
        <5>1. PICK n \in Nat : n = Len(calls)
          BY <1>1
        <5>2. n = 0 /\ path = << >>
          BY <1>1, <4>1, <5>1 DEF Root
        <5>3. SequencesTo(n) = {} /\ Len(path) = 0
          BY <5>2, SequencesFinite
        <5>4. Indexed(path, n)
          BY <5>3, FS_EmptySet DEF Indexed
        <5> QED BY <5>1, <5>4
      <4>2. CASE pc = "item"
        BY <1>1, <4>2, NextPathIndexed
      <4> QED BY <4>1, <4>2
    <3>3. e.kind \in StartKinds /\ pc' # "failed"
      BY <2>1, <2>2, <2>5 DEF ValueKinds
    <3>4. calls' = Append(calls, frame)
      BY <2>1, <2>5
    <3> HIDE DEF frame, node
    <3>5. PathsMirrorEvents'
      BY <1>1, <2>1, <2>2, <3>1, <3>2, <3>3, <3>4, PathsOpen
    <3> QED BY <3>3, <3>5, NothingToLocate
  <2> QED BY <2>4, <2>5
<1> QED BY <1>2, <1>3

(* The end of a collection.                                                *)
LEMMA ClosePaths ==
  ASSUME StrictIInv, PathsMirrorEvents, NEW e \in Event, CloseCollection(e)
  PROVE  PathIInv'
<1>1. /\ pc = "item" /\ Closes(e) /\ Reads(e) /\ IInv /\ StackMirrorsEvents
      /\ calls \in Seq(Frame) /\ tree[Top.node].kind \in Collections
  BY Underway, TopFacts DEF CloseCollection, Read, Reads, Reading, IInv, TypeOK
<1>2. CASE tree[Top.node].kind = "mapping" /\ Top.index % 2 # 0
  <2>1. Fail("syntax", Top.path, tree[Top.node].mark)
    BY <1>2 DEF CloseCollection
  <2>2. e.kind = "mapping_end" /\ pc' = "failed"
    BY <1>1, <1>2, <2>1 DEF Closes, Fail
  <2> QED BY <1>1, <2>1, <2>2, LocatedCollection, OnlyToLocate
<1>3. CASE ~(tree[Top.node].kind = "mapping" /\ Top.index % 2 # 0)
  <2> DEFINE rest == SubSeq(calls, 1, Len(calls) - 1)
  <2>1. ReturnTo(rest) /\ UNCHANGED tree
    BY <1>3 DEF CloseCollection
  <2>2. PICK n \in Nat \ {0} : n = Len(calls)
    BY <1>1, TopFacts
  <2>3. /\ rest \in Seq(Frame) /\ Len(rest) = n - 1 /\ DOMAIN rest = 1 .. n - 1
        /\ \A i \in 1 .. n - 1 : rest[i] = calls[i]
    BY <1>1, <2>2, SubSeqProperties, ElementOfSeq, LenProperties
  <2> HIDE DEF rest
  <2>4. pc' # "failed"
    BY <2>1 DEF ReturnTo, Goto
  <2>5. CASE rest = << >>
    BY <2>1, <2>4, <2>5, NoPaths, NothingToLocate DEF ReturnTo
  <2>6. CASE rest # << >>
    <3>1. n - 1 \in 1 .. n - 1 /\ n - 1 \in Nat /\ n - 1 <= n
      BY <2>2, <2>3, <2>6, EmptySeq
    <3>2. calls' = [rest EXCEPT ![n - 1] = [rest[n - 1] EXCEPT !.index = @ + 1]]
      BY <2>1, <2>3, <2>6 DEF ReturnTo
    <3>3. rest[n - 1] \in Frame
      BY <2>3, <3>1, ElementOfSeq
    <3>4. /\ [rest[n - 1] EXCEPT !.index = @ + 1].node = rest[n - 1].node
          /\ [rest[n - 1] EXCEPT !.index = @ + 1].path = rest[n - 1].path
      BY <3>3 DEF Frame
    <3>5. \A i \in 1 .. n - 1 : /\ calls'[i].node = calls[i].node
                                /\ calls'[i].path = calls[i].path
                                /\ i # n - 1 => calls'[i].index = calls[i].index
      BY <2>3, <3>2, <3>4
    <3>6. DOMAIN calls' = 1 .. n - 1
      BY <2>3, <3>2
    <3>7. n - 1 <= Len(calls) /\ \A m \in DOMAIN tree : tree'[m] = tree[m]
      BY <2>1, <2>2, <3>1
    <3>8. \A i \in 1 .. n - 1 : PathMirrorsEvents(i)'
      BY <1>1, <3>1, <3>5, <3>7, PathsStay
    <3>9. PathsMirrorEvents'
      BY <3>6, <3>8 DEF PathsMirrorEvents
    <3> QED BY <2>4, <3>9, NothingToLocate
  <2> QED BY <2>5, <2>6
<1> QED BY <1>2, <1>3

(* The places where exactly one kind of event is accepted.                 *)
LEMMA ExpectPaths ==
  ASSUME StrictIInv, NEW e \in Event, NEW label, NEW kind, NEW next, NEW code,
         label \in {"stream_start", "document_start", "document_end"},
         next # "failed", Expect(e, label, kind, next, code)
  PROVE  PathIInv'
<1>1. IInv /\ StackMirrorsEvents /\ calls = << >> /\ Reads(e)
  BY Underway DEF Expect, Read, Reads, Reading, IInv, TypeOK
<1>2. CASE e.kind = kind
  BY <1>1, <1>2, NoPaths, NothingToLocate DEF Expect, Goto
<1>3. CASE e.kind # kind
  <2>1. Fail(code, Root, Here) /\ pc' = "failed"
    BY <1>3 DEF Expect, Fail
  <2> QED BY <1>1, <2>1, LocatedAtRoot, OnlyToLocate
<1> QED BY <1>2, <1>3

(* Every step places its failure.                                          *)
LEMMA PathStep == StrictIInv /\ PathIInv /\ [Next]_vars => PathIInv'
<1> SUFFICES ASSUME StrictIInv, PathIInv, [Next]_vars
             PROVE  PathIInv'
  OBVIOUS
<1>1. IInv /\ (pc # "failed" => PathsMirrorEvents) /\ (calls # << >> <=> pc = "item")
  BY DEF StrictIInv, PathIInv, IInv, TypeOK
<1>2. ASSUME NEW e \in Event, ReadStreamStart(e) PROVE PathIInv'
  BY <1>2, ExpectPaths DEF ReadStreamStart
<1>3. ASSUME NEW e \in Event, ReadDocumentStart(e) PROVE PathIInv'
  <2>1. CASE e.kind = "document_start" /\ e.directives
    <3>1. /\ pc = "document_start" /\ Reads(e) /\ pc' = "failed"
          /\ Fail("unsupported_feature", Root, Here)
      BY <1>3, <2>1 DEF ReadDocumentStart, Read, Reads, Fail
    <3>2. StackMirrorsEvents /\ calls = << >>
      BY <1>1, <3>1, Underway DEF Reading
    <3> QED BY <1>1, <3>1, <3>2, LocatedAtRoot, OnlyToLocate
  <2>2. CASE ~(e.kind = "document_start" /\ e.directives)
    BY <1>3, <2>2, ExpectPaths DEF ReadDocumentStart
  <2> QED BY <2>1, <2>2
<1>4. ASSUME NEW e \in Event, ReadContent(e) PROVE PathIInv'
  <2>1. pc = "content" /\ Reads(e)
    BY <1>4 DEF ReadContent, Read, Reads
  <2>2. StackMirrorsEvents /\ calls = << >> /\ PathsMirrorEvents
    BY <1>1, <2>1, Underway DEF Reading
  <2>3. CASE e.kind = "document_end"
    <3>1. Fail("invalid_document", Root, Here) /\ pc' = "failed"
      BY <1>4, <2>3 DEF ReadContent, Fail
    <3> QED BY <1>1, <2>1, <2>2, <3>1, LocatedAtRoot, OnlyToLocate
  <2>4. CASE e.kind # "document_end"
    <3>1. ParseNode(e, 0, Root) /\ Root \in ItemPaths
      BY <1>4, <2>4 DEF ReadContent, Root, ItemPaths
    <3> QED BY <2>1, <2>2, <3>1, NodePaths
  <2> QED BY <2>3, <2>4
<1>5. ASSUME NEW e \in Event, CloseCollection(e) PROVE PathIInv'
  BY <1>1, <1>5, ClosePaths DEF CloseCollection
<1>6. ASSUME NEW e \in Event, Unterminated(e) PROVE PathIInv'
  <2>1. /\ pc = "item" /\ Reads(e) /\ EndsInput(e) /\ pc' = "failed"
        /\ Fail("syntax", Top.path, Here)
    BY <1>6 DEF Unterminated, Read, Reads, Fail
  <2>2. StackMirrorsEvents /\ PathsMirrorEvents
    BY <1>1, <2>1, Underway DEF Reading
  <2> QED BY <1>1, <2>1, <2>2, LocatedCollection, OnlyToLocate
<1>7. ASSUME NEW e \in Event, ParseItem(e) PROVE PathIInv'
  <2>1. /\ pc = "item" /\ Reads(e) /\ ~EndsInput(e)
        /\ ParseNode(e, Top.node, NextPath)
    BY <1>7 DEF ParseItem, Read, Reads
  <2>2. Top.node \in Nat /\ NextPath \in ItemPaths
    BY <1>1, <2>1, TopFacts
  <2> QED BY <1>1, <2>1, <2>2, NodePaths
<1>8. ASSUME NEW e \in Event, ReadDocumentEnd(e) PROVE PathIInv'
  BY <1>8, ExpectPaths DEF ReadDocumentEnd
<1>9. ASSUME NEW e \in Event, ReadStreamEnd(e) PROVE PathIInv'
  <2>1. pc = "stream_end" /\ Reads(e)
    BY <1>9 DEF ReadStreamEnd, Read, Reads
  <2>2. StackMirrorsEvents /\ calls = << >>
    BY <1>1, <2>1, Underway DEF Reading
  <2>3. CASE e.kind = "stream_end"
    BY <1>9, <2>2, <2>3, NoPaths, NothingToLocate DEF ReadStreamEnd
  <2>4. CASE e.kind # "stream_end"
    <3>1. PICK code : Fail(code, Root, Here)
      BY <1>9, <2>4 DEF ReadStreamEnd
    <3>2. pc' = "failed"
      BY <3>1 DEF Fail
    <3> QED BY <1>1, <2>1, <2>2, <3>1, <3>2, LocatedAtRoot, OnlyToLocate
  <2> QED BY <2>3, <2>4
<1>10. ASSUME CheckBytes PROVE PathIInv'
  <2>1. UNCHANGED events /\ calls = << >>
    BY <1>1, <1>10 DEF CheckBytes
  <2>2. CASE bytes > MaxDocumentBytes
    <3>1. Fail("resource_limit", Root, 0) /\ pc' = "failed"
      BY <1>10, <2>2 DEF CheckBytes, Fail
    <3> QED BY <1>1, <2>1, <3>1, LocatedNowhere, OnlyToLocate
  <2>3. CASE ~(bytes > MaxDocumentBytes)
    BY <1>10, <2>1, <2>3, NoPaths, NothingToLocate DEF CheckBytes, Goto
  <2> QED BY <2>2, <2>3
<1>11. ASSUME NEW code \in ReaderFailures, ReaderThrows(code) PROVE PathIInv'
  <2>1. UNCHANGED events /\ Fail(code, Root, Here) /\ pc' = "failed"
    BY <1>11 DEF ReaderThrows, Fail
  <2> QED BY <1>1, <2>1, LocatedNowhere, OnlyToLocate
<1>12. CASE UNCHANGED vars
  <2>1. FailureLocated'
    BY <1>12 DEF vars, PathIInv, FailureLocated
  <2>2. PathsMirrorEvents => PathsMirrorEvents'
    <3>1. \A i : OpenedAt(i)' = OpenedAt(i) /\ SequencesTo(i)' = SequencesTo(i)
      BY <1>12 DEF vars, OpenedAt, SequencesTo
    <3> QED BY <1>12, <3>1 DEF vars, PathsMirrorEvents, PathMirrorsEvents, Indexed
  <2> QED BY <1>1, <1>12, <2>1, <2>2 DEF vars, PathIInv
<1> QED
  BY <1>2, <1>3, <1>4, <1>5, <1>6, <1>7, <1>8, <1>9, <1>10, <1>11, <1>12, OfferedAssumption
  DEF Next, Consume

(* While parse_node() goes on, the path of each activation has the indices *)
(* that the events count.                                                  *)
THEOREM PathInvariance == Spec => []PathIInv
<1>1. Init => PathIInv
  BY DEF Init, PathIInv, PathsMirrorEvents, FailureLocated
<1> QED BY <1>1, StrictInvariance, PathStep, PTL DEF Spec

(* A failure names the value that was refused, the collection left open,   *)
(* or the mapping whose last key has no value, by its indices and its      *)
(* place in the stream.                                                    *)
THEOREM FailuresLocated == Spec => []FailureLocated
<1>1. PathIInv => FailureLocated
  BY DEF PathIInv
<1> QED BY <1>1, PathInvariance, PTL

-----------------------------------------------------------------------------
(* Over libyaml's order of events.                                         *)

(* Where the descent is tells which kinds libyaml may come to next.        *)
LEMMA KindsToCome ==
  ASSUME IInv, StackMirrorsEvents, StageMirrorsEvents
  PROVE  /\ pc = "stream_start" => LibyamlKinds(events) = {"stream_start"}
         /\ pc = "content" => LibyamlKinds(events) = ValueKinds \union {"alias"}
         /\ pc = "item" =>
              LibyamlKinds(events) \subseteq
                ValueKinds \union {"alias"} \union
                IF tree[Top.node].kind = "sequence" THEN {"sequence_end"}
                ELSE IF Top.index % 2 = 0 THEN {"mapping_end"} ELSE {}
         /\ pc = "document_end" => LibyamlKinds(events) = {"document_end"}
         /\ pc = "stream_end" => LibyamlKinds(events) = {"document_start", "stream_end"}
<1> DEFINE last == events[Len(events)].kind
<1>1. Len(events) \in Nat /\ events \in Seq(Event) /\ (events = << >> <=> Len(events) = 0)
  BY StackFacts, EmptySeq
<1>2. Positions(events, ValueKinds) # {} <=> tree # << >>
  <2>1. tree \in Seq(Node)
    BY DEF IInv, TypeOK
  <2>2. Len(tree) = 0 <=> tree = << >>
    BY <2>1, EmptySeq
  <2>3. IsFiniteSet(Positions(events, ValueKinds))
    BY <1>1, PositionsFinite
  <2> QED BY <2>2, <2>3, FS_EmptySet DEF StackMirrorsEvents
<1>3. Open(events) = {} <=> pc # "item"
  BY StackFacts DEF IInv, TypeOK
<1>4. ValueKinds \union EndKinds
        \subseteq {"scalar", "sequence_start", "mapping_start", "sequence_end", "mapping_end"}
  BY DEF ValueKinds, StartKinds, EndKinds
<1>5. ASSUME pc \in {"content", "item", "document_end", "stream_end"}
      PROVE  /\ Len(events) > 1 /\ events # << >>
             /\ pc \in {"document_end", "stream_end"} <=> RootComplete(events)
  BY <1>1, <1>2, <1>3, <1>5 DEF StageMirrorsEvents, RootComplete
<1>6. CASE pc = "stream_start"
  BY <1>6 DEF StageMirrorsEvents, LibyamlKinds
<1>7. CASE pc = "content"
  <2>1. last = "document_start"
    BY <1>7 DEF StageMirrorsEvents
  <2> QED BY <1>3, <1>5, <1>7, <2>1 DEF LibyamlKinds
<1>8. CASE pc = "item"
  <2>1. last \in ValueKinds \union EndKinds
    BY <1>8 DEF StageMirrorsEvents
  <2>2. last \notin {"stream_start", "stream_end", "document_end"}
    BY <1>4, <2>1
  <2>3. calls # << >> /\ Innermost(events) = OpenedAt(Len(calls)) /\ Len(calls) \in DOMAIN calls
    BY <1>8, StackFacts DEF IInv, TypeOK
  <2>4. /\ events[Innermost(events)].kind = IF tree[Top.node].kind = "sequence"
                                              THEN "sequence_start" ELSE "mapping_start"
        /\ Cardinality(Members(events, Innermost(events))) = Top.index
    BY <2>3 DEF StackMirrorsEvents, Top
  <2> QED BY <1>3, <1>5, <1>8, <2>2, <2>4 DEF LibyamlKinds
<1>9. CASE pc = "document_end"
  <2>1. last \in ValueKinds \union EndKinds
    BY <1>9 DEF StageMirrorsEvents
  <2>2. last \notin {"stream_start", "stream_end", "document_end"}
    BY <1>4, <2>1
  <2> QED BY <1>5, <1>9, <2>2 DEF LibyamlKinds
<1>10. CASE pc = "stream_end"
  <2>1. last = "document_end"
    BY <1>10 DEF StageMirrorsEvents
  <2> QED BY <1>1, <1>5, <1>10, <2>1 DEF LibyamlKinds
<1> QED BY <1>6, <1>7, <1>8, <1>9, <1>10

(* A value is never refused as malformed or as no document.                *)
LEMMA ValueNotMalformed ==
  ASSUME NEW e \in Event, e.kind \in ValueKinds \union {"alias"}, NEW parent, NEW path,
         outcome.code = "pending", ParseNode(e, parent, path)
  PROVE  outcome'.code \notin {"syntax", "invalid_document"}
<1>1. NodeRejection(e, Len(calls) + 1) \notin {"syntax", "invalid_document"}
  BY DEF NodeRejection, FeatureRejection, AccountNode
<1> QED BY <1>1 DEF ParseNode, Fail, ReturnTo, Goto

(* With libyaml's events the descent never answers that the document is    *)
(* malformed, and that there is no one document only where there is none   *)
(* or a second one.                                                        *)
LEMMA LibyamlDecision ==
  ASSUME StrictIInv, NEW e \in Event, Consume(e), e.kind \in LibyamlKinds(events)
  PROVE  /\ outcome'.code # "syntax"
         /\ outcome'.code = "invalid_document" =>
              \/ Len(events') = 2
              \/ /\ Len(events') - 1 \in 1 .. Len(events)
                 /\ events'[Len(events') - 1].kind = "document_end"
<1>1. Reading /\ Reads(e)
  BY DEF Consume, ReadStreamStart, ReadDocumentStart, ReadContent, CloseCollection, Unterminated,
         ParseItem, ReadDocumentEnd, ReadStreamEnd, Expect, Read, Reads, Reading
<1>2. /\ IInv /\ StackMirrorsEvents /\ StageMirrorsEvents /\ outcome.code = "pending"
      /\ events \in Seq(Event) /\ Len(events) \in Nat
  BY <1>1, Underway
<1>3. /\ Len(events') = Len(events) + 1
      /\ \A i \in 1 .. Len(events) : events'[i] = events[i]
  BY <1>1, <1>2, Appended DEF Reads
<1> USE DEF Expect, Goto, Fail
<1>4. CASE ReadStreamStart(e)
  <2>1. pc = "stream_start"
    BY <1>4 DEF ReadStreamStart
  <2>2. e.kind = "stream_start"
    BY <1>2, <2>1, KindsToCome
  <2> QED BY <1>2, <1>4, <2>2 DEF ReadStreamStart
<1>5. CASE ReadDocumentStart(e)
  <2>1. Len(events') = 2
    BY <1>2, <1>3, <1>5 DEF ReadDocumentStart, StageMirrorsEvents
  <2> QED BY <1>2, <1>5, <2>1 DEF ReadDocumentStart
<1>6. CASE ReadContent(e)
  <2>1. pc = "content"
    BY <1>6 DEF ReadContent
  <2>2. e.kind \in ValueKinds \union {"alias"}
    BY <1>2, <2>1, KindsToCome
  <2>3. e.kind # "document_end"
    BY <2>2 DEF ValueKinds, StartKinds
  <2> HIDE DEF Fail, Goto
  <2> QED BY <1>2, <1>6, <2>2, <2>3, ValueNotMalformed DEF ReadContent
<1>7. CASE pc = "item"
  <2>1. e.kind \in ValueKinds \union {"alias"} \union
          IF tree[Top.node].kind = "sequence" THEN {"sequence_end"}
          ELSE IF Top.index % 2 = 0 THEN {"mapping_end"} ELSE {}
    BY <1>2, <1>7, KindsToCome
  <2>2. tree[Top.node].kind \in {"sequence", "mapping"}
    BY <1>2, <1>7, TopFacts DEF Collections
  <2>3. ~EndsInput(e)
    BY <2>1 DEF EndsInput, ValueKinds, StartKinds
  <2>4. CASE CloseCollection(e)
    <3>1. Closes(e)
      BY <2>4 DEF CloseCollection
    <3>2. ~(tree[Top.node].kind = "mapping" /\ Top.index % 2 # 0)
      BY <2>1, <2>2, <3>1 DEF Closes, ValueKinds, StartKinds
    <3> QED BY <1>2, <2>4, <3>2 DEF CloseCollection, ReturnTo
  <2>5. CASE ParseItem(e)
    <3>1. ~Closes(e) /\ ParseNode(e, Top.node, NextPath)
      BY <2>5 DEF ParseItem
    <3>2. e.kind \in ValueKinds \union {"alias"}
      BY <2>1, <2>2, <3>1 DEF Closes
    <3> QED BY <1>2, <3>1, <3>2, ValueNotMalformed
  <2> QED BY <1>7, <2>3, <2>4, <2>5
          DEF Consume, ReadStreamStart, ReadDocumentStart, ReadContent, Unterminated,
              ReadDocumentEnd, ReadStreamEnd
<1>8. CASE ReadDocumentEnd(e)
  <2>1. pc = "document_end"
    BY <1>8 DEF ReadDocumentEnd
  <2>2. e.kind = "document_end"
    BY <1>2, <2>1, KindsToCome
  <2> QED BY <1>2, <1>8, <2>2 DEF ReadDocumentEnd
<1>9. CASE ReadStreamEnd(e)
  <2>1. pc = "stream_end"
    BY <1>9 DEF ReadStreamEnd
  <2>2. e.kind \in {"document_start", "stream_end"}
    BY <1>2, <2>1, KindsToCome
  <2>3. Len(events) > 1 /\ events[Len(events)].kind = "document_end"
    BY <1>2, <2>1 DEF StageMirrorsEvents
  <2>4. /\ Len(events') - 1 \in 1 .. Len(events)
        /\ events'[Len(events') - 1].kind = "document_end"
    BY <1>2, <1>3, <2>3
  <2>5. outcome'.code \in {"accepted", "invalid_document"}
    BY <1>9, <2>2 DEF ReadStreamEnd, Accepted
  <2> QED BY <2>4, <2>5
<1> QED BY <1>4, <1>5, <1>6, <1>7, <1>8, <1>9
        DEF Consume, CloseCollection, Unterminated, ParseItem

=============================================================================
