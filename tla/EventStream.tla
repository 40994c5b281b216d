----------------------------- MODULE EventStream -----------------------------
(***************************************************************************)
(* How a flat stream of normalized events nests, told by counting events   *)
(* and without a stack.  The specifications that the recursive descent is  *)
(* measured against are written with these operators.                      *)
(***************************************************************************)
EXTENDS YamlTree

Positions(s, kinds) == {i \in DOMAIN s : s[i].kind \in kinds}

Level(s) == Cardinality(Positions(s, StartKinds))
            - Cardinality(Positions(s, EndKinds))

(* The collections that are open at the end of s, by position.             *)
Open(s) == {i \in Positions(s, StartKinds) :
              \A j \in i .. Len(s) : Level(SubSeq(s, i, j)) > 0}

(* The innermost one, or 0.                                                *)
Innermost(s) ==
  IF Open(s) = {} THEN 0 ELSE CHOOSE o \in Open(s) : \A i \in Open(s) : i <= o

Before(s, i) == SubSeq(s, 1, i - 1)

(* The values of s directly inside the collection that starts at o.        *)
Members(s, o) == {i \in Positions(s, ValueKinds) : Innermost(Before(s, i)) = o}

(* The root value has been read completely.                                *)
RootComplete(s) == Positions(s, ValueKinds) # {} /\ Open(s) = {}

=============================================================================
