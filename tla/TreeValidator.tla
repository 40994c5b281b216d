---------------------------- MODULE TreeValidator ----------------------------
(***************************************************************************)
(* validate_tree(): the walk over the finished tree that makes every       *)
(* mapping a lookup table of distinct scalar keys.                         *)
(*                                                                         *)
(* Its activations are the sequence "walk".  A step is one turn of a loop, *)
(* or the return of an activation.                                         *)
(***************************************************************************)
EXTENDS YamlTree

CONSTANT Trees             \* The trees that are validated.

(* What parse_node() returns: a tree in preorder whose mappings are        *)
(* complete.                                                               *)
WellFormed(t) ==
  /\ t \in Seq(Node) /\ t # << >>
  /\ Preorder(t)
  /\ \A n \in DOMAIN t : t[n].kind = "mapping" => Arity(t, n) % 2 = 0

ASSUME TreesAssumption == \A t \in Trees : WellFormed(t)

VARIABLES
  tree,
  walk,                    \* The activations of validate_tree().
  verdict                  \* How the call ended.

vars == <<tree, walk, verdict>>

Top   == walk[Len(walk)]
Valid == [code |-> "valid", path |-> Root, at |-> 0]
Open  == [code |-> "open",  path |-> Root, at |-> 0]

Enter(n, path) == [node |-> n, next |-> 0, keys |-> {}, path |-> path]

(* The activation f of a collection has a child left to visit.             *)
Unvisited(f) == tree[f.node].kind # "scalar" /\ f.next < Arity(tree, f.node)

Fail(code, path, at) ==
  /\ verdict' = [code |-> code, path |-> path, at |-> at]
  /\ walk' = << >>

RecurseSharingKeys(f, n, path) ==                                 \* mutant
  /\ walk' = Append([walk EXCEPT ![Len(walk)] = f],
                    [Enter(n, path) EXCEPT !.keys = f.keys])
  /\ UNCHANGED verdict

(* The loop moves on, and a new activation visits node n.                  *)
Recurse(f, n, path) ==
  /\ walk' = Append([walk EXCEPT ![Len(walk)] = f], Enter(n, path))
  /\ UNCHANGED verdict

VisitItemAgain ==                                                 \* mutant
  /\ walk # << >> /\ tree[Top.node].kind = "sequence" /\ Unvisited(Top)
  /\ Recurse(Top, Child(tree, Top.node, Top.next), ItemPath(Top.path, Top.next))
  /\ UNCHANGED tree

VisitItem ==
  /\ walk # << >> /\ tree[Top.node].kind = "sequence" /\ Unvisited(Top)
  /\ Recurse([Top EXCEPT !.next = @ + 1], Child(tree, Top.node, Top.next),
             ItemPath(Top.path, Top.next))
  /\ UNCHANGED tree

KeyRejectionByContents(key, keys) ==                              \* mutant
  IF tree[key].scalar = MergeKey           THEN "unsupported_feature"
  ELSE IF tree[key].scalar \in keys        THEN "duplicate_key"
  ELSE "none"

KeyRejectionAllowingRepeats(key, keys) ==                         \* mutant
  IF tree[key].kind # "scalar"             THEN "invalid_type"
  ELSE IF tree[key].scalar = MergeKey      THEN "unsupported_feature"
  ELSE "none"

(* What is wrong with a key, given those seen before it in its mapping.    *)
KeyRejection(key, keys) ==
  IF tree[key].kind # "scalar"             THEN "invalid_type"
  ELSE IF tree[key].scalar = MergeKey      THEN "unsupported_feature"
  ELSE IF tree[key].scalar \in keys        THEN "duplicate_key"
  ELSE "none"

VisitPair ==
  /\ walk # << >> /\ tree[Top.node].kind = "mapping" /\ Unvisited(Top)
  /\ LET key    == Child(tree, Top.node, Top.next)
         value  == Child(tree, Top.node, Top.next + 1)
         scalar == tree[key].scalar
         code   == KeyRejection(key, Top.keys)
     IN  IF code = "none"
           THEN Recurse([Top EXCEPT !.next = @ + 2, !.keys = @ \union {scalar}],
                        value, ChildPath(Top.path, scalar))
           ELSE Fail(code, IF code = "duplicate_key"
                             THEN ChildPath(Top.path, scalar) ELSE Top.path,
                     tree[key].mark)
  /\ UNCHANGED tree

Return ==
  /\ walk # << >> /\ ~Unvisited(Top)
  /\ walk' = SubSeq(walk, 1, Len(walk) - 1)
  /\ verdict' = IF Len(walk) = 1 THEN Valid ELSE verdict
  /\ UNCHANGED tree

Init ==
  /\ tree \in Trees
  /\ walk = <<Enter(1, Root)>>
  /\ verdict = Open

Next == VisitItem \/ VisitPair \/ Return

Spec     == Init /\ [][Next]_vars
FairSpec == Spec /\ WF_vars(Next)

-----------------------------------------------------------------------------
(* Properties.                                                             *)

Ended == verdict # Open

(* The paths of all nodes, from the root down.  The key of a pair is at    *)
(* the path of its mapping.                                                *)
PathStep(t, path, n) ==
  LET p == t[n].parent
  IN  IF p = 0 THEN Root
      ELSE IF t[p].kind = "sequence" THEN ItemPath(path[p], Slot(t, n))
      ELSE IF IsKey(t, n) THEN path[p]
      ELSE ChildPath(path[p], t[Child(t, p, Slot(t, n) - 1)].scalar)

PathOf(t) == LET path[n \in DOMAIN t] == PathStep(t, path, n) IN path

Siblings(t, m, n) == t[m].parent = t[n].parent /\ IsKey(t, m) /\ IsKey(t, n)

Repeats(t, n) ==
  \E m \in 1 .. n - 1 : /\ Siblings(t, m, n)
                        /\ t[m].kind = "scalar"
                        /\ t[m].scalar = t[n].scalar

Defects(t, code) ==
  {n \in DOMAIN t :
     /\ IsKey(t, n)
     /\ CASE code = "invalid_type"        -> t[n].kind # "scalar"
          [] code = "unsupported_feature" -> /\ t[n].kind = "scalar"
                                             /\ t[n].scalar = MergeKey
          [] code = "duplicate_key"       -> /\ t[n].kind = "scalar"
                                             /\ t[n].scalar # MergeKey
                                             /\ Repeats(t, n)}

DefectCodes == {"invalid_type", "unsupported_feature", "duplicate_key"}

AllDefects(t) == UNION {Defects(t, code) : code \in DefectCodes}

(* Of all defects anywhere in the tree the call reports the first in the   *)
(* order of the document, with its category, at the key itself, under the  *)
(* path of the mapping or, for a repeated key, of the key.  A tree that    *)
(* has none is valid.                                                      *)
FirstDefectReported ==
  Ended =>
    IF AllDefects(tree) = {} THEN verdict = Valid
    ELSE LET first == CHOOSE n \in AllDefects(tree) : \A m \in AllDefects(tree) : n <= m
         IN  /\ verdict.code \in DefectCodes
             /\ first \in Defects(tree, verdict.code)
             /\ verdict.at = tree[first].mark
             /\ verdict.path =
                  IF verdict.code = "duplicate_key"
                    THEN ChildPath(PathOf(tree)[first], tree[first].scalar)
                    ELSE PathOf(tree)[first]

(* While the walk lasts every activation descends from the one below it,   *)
(* and the keys it holds are those of the pairs it has passed: nothing of  *)
(* another mapping, nothing of the pair to come.                           *)
TracksKeys(t, w) ==
  \A i \in DOMAIN w :
    LET f == w[i]
    IN  /\ t[f.node].depth = i
        /\ f.path = PathOf(t)[f.node]
        /\ i > 1 => t[f.node].parent = w[i - 1].node
        /\ t[f.node].kind = "mapping" =>
             f.keys = {t[m].scalar : m \in
                         {k \in Children(t, f.node) :
                            IsKey(t, k) /\ Slot(t, k) < f.next}}

WalkTracksKeys == TracksKeys(tree, walk)

(* What the proofs go by: the activations are a branch of the tree down to *)
(* the node being visited, each with the children visited so far, and no   *)
(* key before the children still to come is a defect.                      *)
Activation == [node : Nat, next : Nat, keys : SUBSET (Scalars \union {""}),
               path : Seq(({"item"} \X Nat) \union ({"key"} \X (Scalars \union {""})))]

FollowsTree(t, w) ==
  \A i \in DOMAIN w :
    LET f == w[i]
    IN  /\ f.node \in DOMAIN t
        /\ i = 1 => f.node = 1
        /\ f.next \in 0 .. Arity(t, f.node)
        /\ t[f.node].kind = "mapping" => f.next % 2 = 0
        /\ i < Len(w) => Slot(t, w[i + 1].node) = f.next - 1
        /\ \A n \in f.node + 1 .. w[Len(w)].node : t[n].depth > i
        /\ \A j \in DOMAIN w : i < j => f.node < w[j].node

Passed(t, w, m) ==
  \A i \in DOMAIN w : \A c \in Children(t, w[i].node) :
    Slot(t, c) >= w[i].next => m < c

PassesSound(t, w) == \A m \in AllDefects(t) : ~Passed(t, w, m)

WalkSound(t, w) ==
  /\ w \in Seq(Activation)
  /\ FollowsTree(t, w)
  /\ TracksKeys(t, w)
  /\ w # << >> => PassesSound(t, w)

WalkIInv ==
  /\ WellFormed(tree)
  /\ verdict = Open <=> walk # << >>
  /\ WalkSound(tree, walk)
  /\ FirstDefectReported

(* The call ends.                                                          *)
Terminates == <>Ended

(* document.h says that child_path() appends one mapping key to a path:    *)
(* the path of a repeated key is then never shorter than the number of     *)
(* collections around it, and names the outermost key first.               *)
OuterKey(n) ==
  LET top == {m \in DOMAIN tree : /\ tree[m].parent = 1
                                  /\ m <= n
                                  /\ IsKey(tree, m)}
  IN  tree[CHOOSE m \in top : \A k \in top : k <= m].scalar

PathNamesOuterKey ==
  \A n \in DOMAIN tree :
    /\ verdict.code = "duplicate_key" /\ verdict.at = tree[n].mark
    /\ tree[1].kind = "mapping" /\ tree[n].parent # 1
    => verdict.path[1] = <<"key", OuterKey(n)>>

=============================================================================
