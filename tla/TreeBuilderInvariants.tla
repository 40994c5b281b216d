----------------------- MODULE TreeBuilderInvariants -----------------------
(***************************************************************************)
(* What holds in every state of the recursive descent of TreeBuilder.      *)
(***************************************************************************)
EXTENDS TreeBuilder

Codes == {"pending", "accepted", "syntax", "resource_limit",
          "unsupported_feature", "invalid_document"} \union ReaderFailures

Labels == {"enter", "stream_start", "document_start", "content", "item",
           "document_end", "stream_end", "done", "failed"}

(* Every variable keeps its type, and exactly the label "item" runs inside *)
(* the loop of some activation.                                            *)
TypeOK ==
  /\ pc \in Labels
  /\ bytes \in Nat
  /\ events \in Seq(Event)
  /\ tree \in Seq(Node)
  /\ calls \in Seq(Frame)
  /\ outcome \in [code : Codes, path : Seq({"item"} \X Nat), at : Nat]
  /\ pc = "item" <=> calls # << >>

OnStack(n) == \E i \in DOMAIN calls : calls[i].node = n

Complete(n) == {m \in Children(tree, n) : ~OnStack(m)}

(* The activations are one branch of the tree from the root down to the    *)
(* collection being read, each at the depth of its node, and "index" of    *)
(* each is the number of its children that are complete.                   *)
CallsFollowTree ==
  \A i \in DOMAIN calls :
    LET f == calls[i]
    IN  /\ f.node \in DOMAIN tree
        /\ tree[f.node].kind \in Collections
        /\ tree[f.node].depth = i
        /\ tree[f.node].parent = IF i = 1 THEN 0 ELSE calls[i - 1].node
        /\ f.index = Cardinality(Complete(f.node))

(* No tree, however the reader behaves, exceeds the configured number of   *)
(* nodes or depth, and neither does the recursion that builds it.          *)
WithinLimits ==
  /\ Len(tree) <= MaxNodes
  /\ Len(calls) <= MaxDepth
  /\ \A m \in DOMAIN tree : tree[m].depth <= MaxDepth

(* The node limit also bounds the work: each retained node accounts for at *)
(* most two events, whatever stream a reader returns.                      *)
EventBudget == Len(events) <= 2 * MaxNodes + 4

Even(k) == k % 2 = 0

(* validate_tree() and find_key() read children[i + 1] for every even i    *)
(* without a test: each mapping that has been closed is even.              *)
PairsComplete ==
  pc # "failed" =>
    \A n \in DOMAIN tree :
      tree[n].kind = "mapping" /\ ~OnStack(n) => Even(Arity(tree, n))

(* libyaml answers a call after the end of the stream with an event that   *)
(* the adaptor reports as a defect; the caller never makes that call.      *)
ReadsNothingAfterEnd ==
  \A i \in 1 .. Len(events) - 1 : events[i].kind # "stream_end"

(* The invariant the proofs go by.  TreeOrdered: a node is retained after  *)
(* its parent.  EventLedger: in the body of the document an event either   *)
(* retains a node or closes an activation, and closing is paid for by the  *)
(* event that opened it.  EndNotRead: the stream's end always ends the     *)
(* call.                                                                   *)
TreeOrdered == \A m \in DOMAIN tree : tree[m].parent < m

Allowance ==
  [enter |-> 0, stream_start |-> 0, document_start |-> 1, content |-> 2,
   item |-> 2, document_end |-> 2, stream_end |-> 3, done |-> 4, failed |-> 4]

EventLedger == Len(events) + Len(calls) <= 2 * Len(tree) + Allowance[pc]

EndNotRead ==
  pc \in {"done", "failed"} \/ \A i \in DOMAIN events : events[i].kind # "stream_end"

IInv ==
  /\ TypeOK
  /\ TreeOrdered
  /\ CallsFollowTree
  /\ WithinLimits
  /\ EventLedger
  /\ PairsComplete
  /\ EndNotRead
  /\ ReadsNothingAfterEnd

(* Every call ends.                                                        *)
Terminates == <>(pc \in {"done", "failed"})

=============================================================================
