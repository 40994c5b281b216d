----------------------------- MODULE TreeBuilder -----------------------------
(***************************************************************************)
(* parse_document() up to validate_tree(): the recursive descent that      *)
(* pulls events from a yaml_event_reader and builds one bounded tree.      *)
(*                                                                         *)
(* The C++ call stack of parse_node() is the sequence "calls", one frame   *)
(* for each activation that is looping over a collection.  A step is one   *)
(* call of reader.next() together with everything the code does with the   *)
(* event before it asks for the next one.                                  *)
(***************************************************************************)
EXTENDS YamlTree

CONSTANTS
  MaxDocumentBytes,        \* parse_limits, all of them inclusive.
  MaxNodes,
  MaxDepth,
  DocumentSizes,           \* The byte sizes of the documents presented.
  ReaderFailures,          \* What reader.next() may throw.
  Offered,                 \* The events a reader may return, and
  ProviderMay(_, _)        \* ProviderMay(s, e): it may return e after it
                           \* has returned the events s.

ASSUME LimitsAssumption ==
  /\ {MaxDocumentBytes, MaxNodes, MaxDepth} \subseteq Nat
  /\ DocumentSizes \subseteq Nat

ASSUME OfferedAssumption == Offered \subseteq Event

ASSUME FailuresAssumption ==
  ReaderFailures \subseteq {"syntax", "resource_limit", "bad_alloc",
                           "logic_error"}

VARIABLES
  pc,                      \* What parse_document() does next.
  bytes,                   \* bytes.size().
  events,                  \* Every event returned by the reader so far.
  tree,                    \* The retained nodes; Len(tree) is state.nodes.
  calls,                   \* The activations of parse_node().
  outcome                  \* How the call ended.

vars == <<pc, bytes, events, tree, calls, outcome>>

Frame == [node  : Nat \ {0},     \* result, by its position in the tree
          index : Nat,           \* index
          path  : Seq({"item"} \X Nat)]

Pending  == [code |-> "pending",  path |-> Root, at |-> 0]
Accepted == [code |-> "accepted", path |-> Root, at |-> 0]

Here == Len(events) + 1          \* The mark of the event being read.
Top  == calls[Len(calls)]        \* The innermost activation.

(* fail(): the exception leaves every activation.  Mark 0 is {1, 1}.       *)
Fail(code, path, at) ==
  /\ outcome' = [code |-> code, path |-> path, at |-> at]
  /\ pc'      = "failed"
  /\ calls'   = << >>
  /\ UNCHANGED tree

Goto(label) == pc' = label /\ UNCHANGED outcome

Read(e) == ProviderMay(events, e) /\ events' = Append(events, e)

-----------------------------------------------------------------------------
(* parse_node() on its first event.                                        *)

AccountNodeExclusive(depth) ==                                    \* mutant
  IF depth > MaxDepth \/ Len(tree) > MaxNodes THEN "resource_limit" ELSE "none"

(* account_node(): both limits are inclusive.                              *)
AccountNode(depth) ==
  IF depth > MaxDepth \/ Len(tree) >= MaxNodes THEN "resource_limit" ELSE "none"

(* What parse_node() refuses before it accounts for the node.              *)
FeatureRejection(e) ==
  IF e.kind \notin ValueKinds \union {"alias"} THEN "invalid_document"
  ELSE IF \/ e.kind = "alias"
          \/ e.anchored
          \/ ~PermittedTag(KindOf(e), e.tag)
    THEN "unsupported_feature"
  ELSE "none"

NodeRejectionBudgetFirst(e, depth) ==                             \* mutant
  IF AccountNode(depth) # "none" THEN AccountNode(depth) ELSE FeatureRejection(e)

(* Only nodes that would be retained are accounted for.                    *)
NodeRejection(e, depth) ==
  IF FeatureRejection(e) # "none" THEN FeatureRejection(e) ELSE AccountNode(depth)

NewNodeZeroBased(e, parent, depth) ==                             \* mutant
  [kind |-> KindOf(e), scalar |-> e.value, parent |-> parent,
   depth |-> depth - 1, mark |-> Here]

NewNode(e, parent, depth) ==
  [kind |-> KindOf(e), scalar |-> e.value, parent |-> parent,
   depth |-> depth, mark |-> Here]

ReturnToUncounted(stack) ==                                       \* mutant
  calls' = stack /\ Goto(IF stack = << >> THEN "document_end" ELSE "item")

(* parse_node() returns to the activations in stack: the caller counts the *)
(* child, or parse_document() goes on when there is none.                  *)
ReturnTo(stack) ==
  IF stack = << >>
    THEN calls' = << >> /\ Goto("document_end")
    ELSE /\ calls' = [stack EXCEPT ![Len(stack)].index = @ + 1]
         /\ Goto("item")

ParseNode(e, parent, path) ==
  LET depth == Len(calls) + 1
      code  == NodeRejection(e, depth)
      frame == [node |-> Len(tree) + 1, index |-> 0, path |-> path]
  IN  IF code # "none"
        THEN Fail(code, path, Here)
        ELSE /\ tree' = Append(tree, NewNode(e, parent, depth))
             /\ IF e.kind = "scalar"
                  THEN ReturnTo(calls)
                  ELSE calls' = Append(calls, frame) /\ Goto("item")

-----------------------------------------------------------------------------
(* One iteration of the collection loop.                                   *)

ClosesSequence(e) == e.kind = "sequence_end"                      \* mutant

Closes(e) == e.kind = IF tree[Top.node].kind = "sequence"
                        THEN "sequence_end" ELSE "mapping_end"

EndsInput(e) == e.kind \in {"stream_end", "document_end"}

NextPathUnindexed == Top.path                                     \* mutant

NextPath == IF tree[Top.node].kind = "sequence"
              THEN ItemPath(Top.path, Top.index) ELSE Top.path

CloseCollectionUnpaired(e) ==                                     \* mutant
  /\ pc = "item" /\ Closes(e)
  /\ Read(e)
  /\ ReturnTo(SubSeq(calls, 1, Len(calls) - 1))
  /\ UNCHANGED <<bytes, tree>>

CloseCollection(e) ==
  /\ pc = "item" /\ Closes(e)
  /\ Read(e)
  /\ IF tree[Top.node].kind = "mapping" /\ Top.index % 2 # 0
       THEN Fail("syntax", Top.path, tree[Top.node].mark)
       ELSE /\ ReturnTo(SubSeq(calls, 1, Len(calls) - 1))
            /\ UNCHANGED tree
  /\ UNCHANGED bytes

Unterminated(e) ==
  /\ pc = "item" /\ ~Closes(e) /\ EndsInput(e)
  /\ Read(e)
  /\ Fail("syntax", Top.path, Here)
  /\ UNCHANGED bytes

ParseItemUnderLast(e) ==                                          \* mutant
  /\ pc = "item" /\ ~Closes(e) /\ ~EndsInput(e)
  /\ Read(e)
  /\ ParseNode(e, Len(tree), NextPath)
  /\ UNCHANGED bytes

ParseItem(e) ==
  /\ pc = "item" /\ ~Closes(e) /\ ~EndsInput(e)
  /\ Read(e)
  /\ ParseNode(e, Top.node, NextPath)
  /\ UNCHANGED bytes

-----------------------------------------------------------------------------
(* parse_document() around the root node.                                  *)

CheckBytes ==
  /\ pc = "enter"
  /\ IF bytes > MaxDocumentBytes
       THEN Fail("resource_limit", Root, 0)
       ELSE Goto("stream_start") /\ UNCHANGED <<tree, calls>>
  /\ UNCHANGED <<bytes, events>>

ExpectAny(e, label, kind, next, code) ==                          \* mutant
  /\ pc = label
  /\ Read(e)
  /\ Goto(next)
  /\ UNCHANGED <<bytes, tree, calls>>

(* One of the places where the code accepts exactly one kind of event.     *)
Expect(e, label, kind, next, code) ==
  /\ pc = label
  /\ Read(e)
  /\ IF e.kind = kind
       THEN Goto(next) /\ UNCHANGED <<tree, calls>>
       ELSE Fail(code, Root, Here)
  /\ UNCHANGED bytes

ReadStreamStart(e) ==
  Expect(e, "stream_start", "stream_start", "document_start", "syntax")

ReadDocumentStart(e) ==
  IF e.kind = "document_start" /\ e.directives
    THEN /\ pc = "document_start"
         /\ Read(e)
         /\ Fail("unsupported_feature", Root, Here)
         /\ UNCHANGED bytes
    ELSE Expect(e, "document_start", "document_start", "content",
                "invalid_document")

ReadContent(e) ==
  /\ pc = "content"
  /\ Read(e)
  /\ IF e.kind = "document_end"
       THEN Fail("invalid_document", Root, Here)
       ELSE ParseNode(e, 0, Root)
  /\ UNCHANGED bytes

ReadDocumentEnd(e) ==
  Expect(e, "document_end", "document_end", "stream_end", "syntax")

ReadStreamEndSkipping(e) ==                                       \* mutant
  /\ pc = "stream_end"
  /\ Read(e)
  /\ IF e.kind = "document_start"
       THEN Fail("invalid_document", Root, Here)
       ELSE UNCHANGED <<pc, tree, calls, outcome>>
  /\ UNCHANGED bytes

ReadStreamEnd(e) ==
  /\ pc = "stream_end"
  /\ Read(e)
  /\ IF e.kind = "stream_end"
       THEN outcome' = Accepted /\ pc' = "done" /\ UNCHANGED <<tree, calls>>
       ELSE Fail(IF e.kind = "document_start" THEN "invalid_document"
                                              ELSE "syntax", Root, Here)
  /\ UNCHANGED bytes

(* reader.next() throws; parse_document() catches nothing.                 *)
Reading == pc \notin {"enter", "done", "failed"}

ReaderThrows(code) ==
  /\ Reading
  /\ Fail(code, Root, Here)
  /\ UNCHANGED <<bytes, events>>

-----------------------------------------------------------------------------
Init ==
  /\ pc      = "enter"
  /\ bytes \in DocumentSizes
  /\ events  = << >>
  /\ tree    = << >>
  /\ calls   = << >>
  /\ outcome = Pending

Consume(e) ==
  \/ ReadStreamStart(e)
  \/ ReadDocumentStart(e)
  \/ ReadContent(e)
  \/ CloseCollection(e)
  \/ Unterminated(e)
  \/ ParseItem(e)
  \/ ReadDocumentEnd(e)
  \/ ReadStreamEnd(e)

Next ==
  \/ CheckBytes
  \/ \E e \in Offered : Consume(e)
  \/ \E code \in ReaderFailures : ReaderThrows(code)

Spec == Init /\ [][Next]_vars

=============================================================================
