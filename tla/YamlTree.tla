------------------------------ MODULE YamlTree ------------------------------
(***************************************************************************)
(* The vocabulary the layers of libpkgsource-yaml share: normalized        *)
(* events, document-tree nodes and protocol paths.                         *)
(*                                                                         *)
(* A document tree is kept as the sequence of its nodes in the order in    *)
(* which parse_node() retains them.  Every node names its parent, so the   *)
(* vector node::children of the source is the set of nodes with that       *)
(* parent, in increasing order.  A node's mark is the position, in the     *)
(* stream of events, of the event it came from; it stands for the line and *)
(* column, which increase along the stream.                                *)
(***************************************************************************)
EXTENDS Integers, Sequences, FiniteSets

CONSTANT Scalars           \* The scalar contents that documents may hold.

ASSUME ScalarsAreStrings == Scalars \subseteq STRING

Collections == {"sequence", "mapping"}
NodeKinds   == Collections \union {"scalar"}

(* yaml_event_kind, split by the role an event plays in a document.        *)
StartKinds == {"sequence_start", "mapping_start"}
EndKinds   == {"sequence_end", "mapping_end"}
ValueKinds == StartKinds \union {"scalar"}
EventKinds == ValueKinds \union EndKinds \union
              {"stream_start", "stream_end", "document_start",
               "document_end", "alias"}

(* The tag classes permitted_tag() tells apart; "none" is the empty tag.   *)
Tags == {"none", "str", "int", "seq", "map", "custom"}

PermittedTag(kind, tag) ==
  \/ tag = "none"
  \/ kind = "scalar"   /\ tag \in {"str", "int"}
  \/ kind = "sequence" /\ tag = "seq"
  \/ kind = "mapping"  /\ tag = "map"

(* One normalized event.  "anchored" says that its anchor is not empty.    *)
Event == [kind       : EventKinds,
          value      : Scalars \union {""},
          anchored   : BOOLEAN,
          tag        : Tags,
          directives : BOOLEAN]

KindOf(e) == IF e.kind = "sequence_start" THEN "sequence"
             ELSE IF e.kind = "mapping_start" THEN "mapping"
             ELSE "scalar"

-----------------------------------------------------------------------------
(* Protocol paths.  The root "$" is the empty path.                        *)

Root     == << >>
RootName == "$"
MergeKey == "<<"

ItemPath(path, i) == Append(path, <<"item", i>>)

(* child_path() recognises the root by its name, so a mapping key that is  *)
(* itself "$" at the root yields the root again.                           *)
ChildPath(path, key) ==
  IF path = Root /\ key = RootName THEN Root ELSE Append(path, <<"key", key>>)

-----------------------------------------------------------------------------
(* Trees.                                                                  *)

Node == [kind   : NodeKinds,
         scalar : Scalars \union {""},
         parent : Nat,         \* 0 for the root.
         depth  : Nat \ {0},
         mark   : Nat \ {0}]

Children(t, n) == {m \in DOMAIN t : t[m].parent = n}
Arity(t, n)    == Cardinality(Children(t, n))
Slot(t, m)     == Cardinality({k \in Children(t, t[m].parent) : k < m})
Child(t, n, i) == CHOOSE m \in Children(t, n) : Slot(t, m) = i

(* Nodes are listed before their children and children in their order: a   *)
(* node's parent is the last node before it that is less deep.             *)
Preorder(t) ==
  \A m \in DOMAIN t :
    IF m = 1 THEN t[m].parent = 0 /\ t[m].depth = 1
    ELSE /\ t[m].parent \in 1 .. m - 1
         /\ t[t[m].parent].kind \in Collections
         /\ t[m].depth = t[t[m].parent].depth + 1
         /\ \A n \in t[m].parent + 1 .. m - 1 : t[n].depth >= t[m].depth

InMapping(t, m) == t[m].parent # 0 /\ t[t[m].parent].kind = "mapping"
IsKey(t, m)     == InMapping(t, m) /\ Slot(t, m) % 2 = 0

=============================================================================
