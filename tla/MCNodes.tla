------------------------------- MODULE MCNodes -------------------------------
(***************************************************************************)
(* Documents for the grammars' instances.  They are put together without   *)
(* marks; Placed() gives every node the list of positions that leads to    *)
(* it, so no two nodes of a document have the same mark.                   *)
(***************************************************************************)
LOCAL INSTANCE Naturals
LOCAL INSTANCE Sequences
LOCAL INSTANCE FiniteSetsExt

Text(s)     == [kind |-> "scalar", scalar |-> s, mark |-> << >>, children |-> << >>]
List(nodes) == [kind |-> "sequence", scalar |-> "", mark |-> << >>, children |-> nodes]

(* Table(<<k1, v1, k2, v2, ...>>)                                          *)
Table(pairs) ==
  [kind |-> "mapping", scalar |-> "", mark |-> << >>,
   children |-> [i \in DOMAIN pairs |-> IF i % 2 = 1 THEN Text(pairs[i]) ELSE pairs[i]]]

RECURSIVE Placed(_, _)
Placed(node, at) ==
  [node EXCEPT !.mark = at,
               !.children = [i \in DOMAIN @ |-> Placed(@[i], Append(at, i))]]

(* The nodes given and all that are below them.                            *)
RECURSIVE Subtrees(_)
Subtrees(nodes) ==
  LET most   == Max({Len(n.children) : n \in nodes})
      places == {p \in nodes \X (1 .. most) : p[2] \in DOMAIN p[1].children}
  IN  IF nodes = {} THEN {} ELSE nodes \union Subtrees({p[1].children[p[2]] : p \in places})

(* A mapping without a key, with another value for it, or with one more.   *)
Position(m, key) ==
  CHOOSE i \in DOMAIN m.children : i % 2 = 1 /\ m.children[i].scalar = key

Without(m, key) ==
  LET i == Position(m, key)
  IN  [m EXCEPT !.children = SubSeq(@, 1, i - 1) \o SubSeq(@, i + 2, Len(@))]

With(m, key, value) == [m EXCEPT !.children[Position(m, key) + 1] = value]

Plus(m, key, value) == [m EXCEPT !.children = @ \o <<Text(key), value>>]

KeysOf(m) == {m.children[i].scalar : i \in {k \in DOMAIN m.children : k % 2 = 1}}

(* A mapping that is wrong in one way: no mapping at all, a key too few or *)
(* too many, a value of the wrong type or one that nothing admits.         *)
Spoiled(m) ==
  {Text("good"), Plus(m, "other", Text("good"))}
  \union {Without(m, key) : key \in KeysOf(m)}
  \union {With(m, key, value) : key \in KeysOf(m), value \in {Text("Bad"), Table(<< >>)}}

=============================================================================
