--------------------------- MODULE MCTreeValidator ---------------------------
(***************************************************************************)
(* TreeValidator on every tree of at most MaxTree nodes whose mappings are *)
(* complete, which is what parse_node() returns.  A scalar's contents vary *)
(* only where it is a key, and of the empty collections, which the walk    *)
(* passes in the same way, only the mapping is there.                      *)
(***************************************************************************)
EXTENDS TreeValidator

CONSTANTS MaxTree, KeyScalars

MCScalars == {"a", RootName, MergeKey}

(* Shapes, in preorder: a node hangs below the last one or an ancestor.    *)
Hang(p) ==
  LET up[n \in 0 .. Len(p)] == IF n = 0 THEN {} ELSE {n} \union up[p[n].parent]
  IN  {Append(p, [parent |-> n, depth |-> p[n].depth + 1]) : n \in up[Len(p)]}

Shapes ==
  LET upto[size \in 1 .. MaxTree] ==
        IF size = 1 THEN {<<[parent |-> 0, depth |-> 1]>>}
        ELSE UNION {Hang(p) : p \in upto[size - 1]} \union upto[size - 1]
  IN  upto[MaxTree]

Below(p, n) == {m \in DOMAIN p : p[m].parent = n}

Kinds(p) ==
  {k \in [DOMAIN p -> NodeKinds] :
     \A n \in DOMAIN p :
       /\ k[n] = "scalar"   => Below(p, n) = {}
       /\ k[n] = "sequence" => Below(p, n) # {}
       /\ k[n] = "mapping"  => Cardinality(Below(p, n)) % 2 = 0}

Keys(p, k) ==
  {m \in 2 .. Len(p) :
     /\ k[m] = "scalar" /\ k[p[m].parent] = "mapping"
     /\ Cardinality({n \in Below(p, p[m].parent) : n < m}) % 2 = 0}

TreesOf(p, k) ==
  {[n \in DOMAIN p |->
      [kind |-> k[n], scalar |-> IF n \in DOMAIN s THEN s[n] ELSE "",
       parent |-> p[n].parent, depth |-> p[n].depth, mark |-> n]] \o << >> :
   s \in [Keys(p, k) -> KeyScalars]}

MCTrees == UNION {UNION {TreesOf(p, k) : k \in Kinds(p)} : p \in Shapes}

=============================================================================
