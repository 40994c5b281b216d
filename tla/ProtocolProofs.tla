--------------------------- MODULE ProtocolProofs ---------------------------
(***************************************************************************)
(* What the proofs about both grammars rest on: which paths a provenance   *)
(* admits, that no check of document.cpp but provenance() itself lets an   *)
(* exception of libpkgsource through, what each check asks of a value, and *)
(* that the path and the line of its failure lead to one place.            *)
(***************************************************************************)
EXTENDS Protocol, FiniteSetTheorems, SequenceTheorems, TLAPS

IsPath(path) == \E S : path \in Seq(S)

SafePath(path) == IsPath(path) /\ ProvenanceAdmitted(path)

Contained(check) == check.code \in ErrorCodes \union {"none"}

(* The root has no key.                                                    *)
LEMMA RootSafe == SafePath(Root)
BY DEF SafePath, IsPath, Root, ProvenanceAdmitted

(* Paths grow by steps of any kind.                                        *)
LEMMA ChildIsPath ==
  ASSUME NEW path, IsPath(path), NEW key
  PROVE  IsPath(ChildPath(path, key))
<1>1. PICK S : path \in Seq(S)
  BY DEF IsPath
<1>2. Append(path, <<"key", key>>) \in Seq(S \union {<<"key", key>>})
  BY <1>1
<1>3. Root \in Seq(S)
  BY DEF Root
<1> QED BY <1>2, <1>3 DEF ChildPath, IsPath

(* A child path of a safe path is safe when its key is.                    *)
LEMMA ChildSafe ==
  ASSUME NEW path, SafePath(path), NEW key \in SafeKeys
  PROVE  SafePath(ChildPath(path, key))
<1>1. PICK S : path \in Seq(S)
  BY DEF SafePath, IsPath
<1>2. ProvenanceAdmitted(Append(path, <<"key", key>>))
  BY <1>1 DEF SafePath, ProvenanceAdmitted
<1> QED BY <1>2, RootSafe, ChildIsPath DEF ChildPath, SafePath

LEMMA ItemSafe ==
  ASSUME NEW path, SafePath(path), NEW i
  PROVE  SafePath(ItemPath(path, i))
<1>1. PICK S : path \in Seq(S)
  BY DEF SafePath, IsPath
<1>2. Append(path, <<"item", i>>) \in Seq(S \union {<<"item", i>>})
  BY <1>1
<1>3. ProvenanceAdmitted(Append(path, <<"item", i>>))
  BY <1>1 DEF SafePath, ProvenanceAdmitted
<1> QED BY <1>2, <1>3 DEF ItemPath, SafePath, IsPath

-----------------------------------------------------------------------------
(* The checks throw failures of their own, and pass on those they are      *)
(* made of.                                                                *)
LEMMA PlainChecks ==
  /\ Contained(OK)
  /\ \A path, value, admitted : Contained(Semantic(admitted, path, value))
  /\ \A path, value, kind : Contained(RequireKind(value, kind, path))
  /\ \A m, key, path : Contained(RequiredKey(m, key, path))
BY DEF Contained, ErrorCodes, OK, Semantic, Failure, RequireKind, RequiredKey

(* Of two checks in turn.                                                  *)
LEMMA Sequenced ==
  ASSUME NEW a, NEW b, Contained(a), a = OK => Contained(b)
  PROVE  Contained(a ?? b)
BY DEF ??

(* Of a set of naturals there is a least, by the well-foundedness of the   *)
(* strict inclusion of the intervals below them.                           *)
LEMMA LeastIsIn ==
  ASSUME NEW S \in SUBSET Nat, S # {}
  PROVE  Least(S) \in S /\ \A j \in S : Least(S) <= j
<1> DEFINE below == {0 .. m : m \in S}
<1>1. below # {} /\ below \subseteq FiniteSubsetsOf(Nat)
  <2>1. ASSUME NEW m \in S PROVE IsFiniteSet(0 .. m)
    <3>1. 0 \in Int /\ m \in Int
      OBVIOUS
    <3> QED BY <3>1, FS_Interval
  <2>2. \A x \in below : x \in SUBSET Nat /\ IsFiniteSet(x)
    BY <2>1
  <2>3. PICK m : m \in S
    OBVIOUS
  <2>4. 0 .. m \in below
    BY <2>3
  <2> HIDE DEF below
  <2> QED BY <2>2, <2>4 DEF FiniteSubsetsOf
<1>2. PICK x \in below : \A y \in below : ~(<<y, x>> \in StrictSubsetOrdering(Nat))
  <2> HIDE DEF below
  <2>1. IsWellFoundedOn(StrictSubsetOrdering(Nat), FiniteSubsetsOf(Nat))
    BY FS_StrictSubsetOrderingWellFounded
  <2> QED BY <1>1, <2>1, WFMin
<1>3. PICK m \in S : x = 0 .. m
  BY <1>2
<1>4. ASSUME NEW j \in S, j < m PROVE FALSE
  <2>1. 0 .. j \subseteq 0 .. m /\ 0 .. j # 0 .. m
    BY <1>4
  <2>2. 0 .. j \in SUBSET Nat /\ 0 .. m \in SUBSET Nat /\ 0 .. j \in below
    OBVIOUS
  <2> QED BY <1>2, <1>3, <2>1, <2>2 DEF StrictSubsetOrdering
<1>5. \A j \in S : m <= j
  BY <1>4
<1> QED BY <1>5 DEF Least

(* A property that passes from all smaller numbers to the next holds of    *)
(* all, or there would be a least counterexample.                          *)
LEMMA LeastCounterexample ==
  ASSUME NEW S, \A n \in Nat : (\A m \in Nat : m < n => m \in S) => n \in S
  PROVE  \A n \in Nat : n \in S
<1> DEFINE bad == {n \in Nat : n \notin S}
<1>1. ASSUME bad # {} PROVE FALSE
  <2>1. /\ Least(bad) \in bad
        /\ \A j \in bad : Least(bad) <= j
    BY <1>1, LeastIsIn
  <2>2. \A m \in Nat : m < Least(bad) => m \in S
    BY <2>1
  <2> QED BY <2>1, <2>2
<1> QED BY <1>1

(* Positions are naturals.                                                 *)
LEMMA Indices ==
  ASSUME NEW n
  PROVE  1 .. n \subseteq Nat
OBVIOUS

(* Of checks made one after the other.                                     *)
LEMMA AllContained ==
  ASSUME NEW checks, DOMAIN checks \subseteq Nat, \A i \in DOMAIN checks : Contained(checks[i])
  PROVE  Contained(FirstOf(checks))
BY LeastIsIn, PlainChecks DEF FirstOf

(* The helpers of document.cpp, in its order.                              *)
LEMMA KeysContained ==
  ASSUME NEW m, NEW path, NEW allowed
  PROVE  Contained(AllowKeys(m, path, allowed))
BY DEF AllowKeys, RequireKind, ??, Contained, ErrorCodes, OK, Failure

LEMMA TextContained ==
  ASSUME NEW value, NEW texts, NEW path
  PROVE  /\ Contained(RequireText(value, texts, path))
         /\ RequireText(value, texts, path) = OK => value.scalar \in texts
BY DEF RequireText, RequireKind, ??, Contained, ErrorCodes, OK, Failure

LEMMA ScalarContained ==
  ASSUME NEW m, NEW key, NEW path
  PROVE  Contained(ScalarAt(m, key, path))
BY PlainChecks DEF ScalarAt

LEMMA KeysRequired ==
  ASSUME NEW m, NEW keys, DOMAIN keys \subseteq Nat, NEW path
  PROVE  Contained(RequiredKeys(m, keys, path))
<1> DEFINE checks == [i \in DOMAIN keys |-> RequiredKey(m, keys[i], path)]
<1>1. DOMAIN checks \subseteq Nat /\ \A i \in DOMAIN checks : Contained(checks[i])
  BY PlainChecks
<1> HIDE DEF checks
<1>2. Contained(FirstOf(checks))
  BY <1>1, AllContained
<1> QED BY <1>2 DEF checks, RequiredKeys

LEMMA FormatContained ==
  ASSUME NEW root, NEW expected
  PROVE  Contained(RequireFormat(root, expected))
BY TextContained, PlainChecks DEF RequireFormat, ??

LEMMA SubjectContained ==
  ASSUME NEW value, NEW path
  PROVE  Contained(Subject(value, path))
<1>1. Contained(Failure("invalid_value", path, value))
  BY DEF Contained, ErrorCodes, Failure
<1>2. \A key : Contained(ScalarAt(value, key, path))
  BY PlainChecks DEF ScalarAt
<1> QED BY <1>1, <1>2, KeysContained, PlainChecks DEF Subject, ??

-----------------------------------------------------------------------------
(* What the checks ask: each passes exactly when what the protocol says    *)
(* of the value is true, so it can be read without the order it is made in.*)
LEMMA BothPass ==
  ASSUME NEW a, NEW b
  PROVE  (a ?? b) = OK <=> a = OK /\ b = OK
BY DEF ??

LEMMA AllPass ==
  ASSUME NEW checks, DOMAIN checks \subseteq Nat
  PROVE  FirstOf(checks) = OK <=> \A i \in DOMAIN checks : checks[i] = OK
BY LeastIsIn DEF FirstOf

LEMMA FailurePasses ==
  ASSUME NEW code, code # "none", NEW path, NEW value
  PROVE  Failure(code, path, value) # OK
BY DEF Failure, OK

LEMMA PlainPasses ==
  /\ \A value, kind, path : RequireKind(value, kind, path) = OK <=> value.kind = kind
  /\ \A value, texts, path : RequireText(value, texts, path) = OK <=> IsText(value, texts)
  /\ \A path, value : \A admitted \in BOOLEAN : Semantic(admitted, path, value) = OK <=> admitted
  /\ \A m, key, path : RequiredKey(m, key, path) = OK <=> key \in KeySet(m)
BY FailurePasses DEF RequireKind, RequireText, IsText, Semantic, RequiredKey, ??, HasKey, KeySet

LEMMA KeysPass ==
  ASSUME NEW m, NEW path, NEW allowed
  PROVE  AllowKeys(m, path, allowed) = OK <=> m.kind = "mapping" /\ KeySet(m) \subseteq allowed
<1> DEFINE unknown == {i \in KeysAt(m) : m.children[i].scalar \notin allowed}
           key == m.children[Least(unknown)]
<1>1. unknown = {} <=> KeySet(m) \subseteq allowed
  BY DEF KeySet
<1>2. Failure("unknown_key", ChildPath(path, key.scalar), key) # OK
  BY FailurePasses
<1> QED BY <1>1, <1>2, PlainPasses, BothPass DEF AllowKeys

LEMMA RequiredPass ==
  ASSUME NEW m, NEW keys, DOMAIN keys \subseteq Nat, NEW path
  PROVE  RequiredKeys(m, keys, path) = OK <=> \A i \in DOMAIN keys : keys[i] \in KeySet(m)
<1> DEFINE checks == [i \in DOMAIN keys |-> RequiredKey(m, keys[i], path)]
<1>1. DOMAIN checks \subseteq Nat /\ \A i \in DOMAIN keys : checks[i] = OK <=> keys[i] \in KeySet(m)
  BY PlainPasses
<1> HIDE DEF checks
<1>2. FirstOf(checks) = OK <=> \A i \in DOMAIN checks : checks[i] = OK
  BY <1>1, AllPass
<1> QED BY <1>1, <1>2 DEF checks, RequiredKeys

LEMMA FormatPasses ==
  ASSUME NEW root, NEW expected
  PROVE  RequireFormat(root, expected) = OK
           <=> "format" \in KeySet(root) /\ IsText(FindKey(root, "format"), {expected})
BY PlainPasses, BothPass DEF RequireFormat

LEMMA SubjectPasses ==
  ASSUME NEW value, NEW path
  PROVE  Subject(value, path) = OK <=> IsSubject(value)
<1> DEFINE kind == IF HasKey(value, "package") THEN "package" ELSE "profile"
           name == FindKey(value, kind)
           names == IF kind = "package" THEN PackageNames ELSE ProfileNames
<1>1. \A key : HasKey(value, key) <=> key \in KeySet(value)
  BY DEF HasKey, KeySet
<1>2. Failure("invalid_value", path, value) # OK
  BY FailurePasses
<1>3. ReferenceAdmitted(kind, name.scalar) <=> name.scalar \in names
  BY DEF ReferenceAdmitted
<1>4. ReferenceAdmitted(kind, name.scalar) \in BOOLEAN
  BY DEF ReferenceAdmitted
<1>5. Subject(value, path) = OK
        <=> /\ value.kind = "mapping" /\ KeySet(value) \subseteq {"package", "profile"}
            /\ OneOf(value, "package", "profile")
            /\ name.kind = "scalar" /\ name.scalar \in names
  <2> HIDE DEF kind
  <2>1. ScalarAt(value, kind, path) = OK <=> name.kind = "scalar"
    BY PlainPasses DEF ScalarAt
  <2>2. Semantic(ReferenceAdmitted(kind, name.scalar), ChildPath(path, kind), name) = OK
          <=> name.scalar \in names
    BY PlainPasses, <1>3, <1>4
  <2>3. AllowKeys(value, path, {"package", "profile"}) = OK
          <=> value.kind = "mapping" /\ KeySet(value) \subseteq {"package", "profile"}
    BY KeysPass
  <2> QED BY <2>1, <2>2, <2>3, <1>2, BothPass DEF Subject, kind
<1>6. ASSUME KeySet(value) \subseteq {"package", "profile"}
      PROVE  OneOf(value, "package", "profile") <=> KeySet(value) = {kind}
  <2>1. OneOf(value, "package", "profile")
          <=> ~("package" \in KeySet(value) <=> "profile" \in KeySet(value))
    BY <1>1 DEF OneOf, HasKey
  <2> QED BY <1>1, <1>6, <2>1
<1>7. kind \in {"package", "profile"} /\ \A k : KeySet(value) = {k} /\ k \in {"package", "profile"} => k = kind
  BY <1>1
<1> HIDE DEF kind
<1> QED BY <1>5, <1>6, <1>7 DEF IsSubject, IsText

-----------------------------------------------------------------------------
(* Where the failures of the checks are: at the path given, or one key     *)
(* below it.                                                               *)
Below(check, path) == check # OK => check.path = path \/ \E key : check.path = ChildPath(path, key)

LEMMA BothBelow ==
  ASSUME NEW a, NEW b, NEW path, Below(a, path), Below(b, path)
  PROVE  Below(a ?? b, path)
BY DEF Below, ??

LEMMA PlainBelow ==
  /\ \A value, kind, path : Below(RequireKind(value, kind, path), path)
  /\ \A value, kind, path, key : Below(RequireKind(value, kind, ChildPath(path, key)), path)
  /\ \A value, texts, path, key : Below(RequireText(value, texts, ChildPath(path, key)), path)
  /\ \A admitted, path, value : Below(Semantic(admitted, path, value), path)
  /\ \A admitted, path, value, key : Below(Semantic(admitted, ChildPath(path, key), value), path)
  /\ \A m, key, path : Below(RequiredKey(m, key, path), path)
BY DEF RequireKind, RequireText, Semantic, RequiredKey, Failure, Below, ??

LEMMA KeysBelow ==
  ASSUME NEW m, NEW path, NEW allowed
  PROVE  Below(AllowKeys(m, path, allowed), path)
BY DEF AllowKeys, RequireKind, Failure, Below, ??

LEMMA SubjectBelow ==
  ASSUME NEW value, NEW path
  PROVE  Below(Subject(value, path), path)
<1>1. Below(Failure("invalid_value", path, value), path)
  BY DEF Failure, Below
<1>2. \A key : Below(ScalarAt(value, key, path), path)
  BY PlainBelow DEF ScalarAt
<1> QED BY <1>1, <1>2, KeysBelow, PlainBelow, BothBelow DEF Subject

-----------------------------------------------------------------------------
(* The nodes of a document, which validate_tree() has passed.              *)

LEMMA Halves ==
  ASSUME NEW n \in Nat, n % 2 = 0
  PROVE  /\ n \div 2 \in Nat /\ n = 2 * (n \div 2)
         /\ \A j \in 1 .. n : j % 2 = 1 => /\ j + 1 \in 1 .. n
                                         /\ \E i \in 1 .. n \div 2 : j = 2 * i - 1
         /\ \A i \in 1 .. n \div 2 : 2 * i - 1 \in 1 .. n /\ (2 * i - 1) % 2 = 1
<1>1. n \div 2 \in Nat /\ n = 2 * (n \div 2)
  OBVIOUS
<1> DEFINE h == n \div 2
<1>2. h \in Nat /\ n = 2 * h
  BY <1>1
<1> HIDE DEF h
<1>3. ASSUME NEW j \in 1 .. n, j % 2 = 1
      PROVE  j + 1 \in 1 .. n /\ \E i \in 1 .. h : j = 2 * i - 1
  <2> DEFINE k == j \div 2
  <2>1. k \in Nat /\ j = 2 * k + 1
    BY <1>3
  <2> HIDE DEF k
  <2>2. k + 1 \in 1 .. h /\ j = 2 * (k + 1) - 1
    BY <1>2, <2>1
  <2> QED BY <1>2, <2>1, <2>2
<1>4. ASSUME NEW i \in 1 .. h PROVE 2 * i - 1 \in 1 .. n /\ (2 * i - 1) % 2 = 1
  BY <1>2
<1> QED BY <1>1, <1>3, <1>4 DEF h

LEMMA ChildrenAreNodes ==
  ASSUME NEW m \in Nodes
  PROVE  /\ m.children \in Seq(Nodes) /\ Len(m.children) \in Nat
         /\ m.kind = "mapping" => Len(m.children) % 2 = 0
<1>1. m.children \in Seq(Nodes)
  BY NodesAssumption
<1>2. Len(m.children) \in Nat
  BY <1>1
<1> QED BY <1>1, <1>2, NodesAssumption DEF LookupTable

(* The value of a key is a node, and of the key at a place the next one.   *)
LEMMA ValueIsNode ==
  ASSUME NEW m \in Nodes, m.kind = "mapping", NEW key \in KeySet(m)
  PROVE  FindKey(m, key) \in Nodes
<1>1. PICK i \in KeysAt(m) : i = CHOOSE j \in KeysAt(m) : m.children[j].scalar = key
  BY DEF KeySet
<1>2. m.children \in Seq(Nodes) /\ Len(m.children) \in Nat /\ Len(m.children) % 2 = 0
  BY ChildrenAreNodes
<1>3. i \in 1 .. Len(m.children) /\ i % 2 = 1
  BY <1>1, <1>2 DEF KeysAt
<1>4. i + 1 \in 1 .. Len(m.children)
  BY <1>2, <1>3, Halves
<1>5. m.children[i + 1] \in Nodes
  BY <1>2, <1>4
<1> QED BY <1>1, <1>5 DEF FindKey

LEMMA Pairs ==
  ASSUME NEW m \in Nodes, m.kind = "mapping"
  PROVE  /\ KeysAt(m) = {2 * i - 1 : i \in 1 .. Len(m.children) \div 2}
         /\ \A i \in 1 .. Len(m.children) \div 2 :
              /\ m.children[2 * i - 1].kind = "scalar"
              /\ m.children[2 * i - 1].scalar \in KeySet(m)
              /\ FindKey(m, m.children[2 * i - 1].scalar) = m.children[2 * i]
         /\ \A key \in KeySet(m) : \E i \in 1 .. Len(m.children) \div 2 :
              m.children[2 * i - 1].scalar = key
<1> DEFINE n == Len(m.children)
<1>1. m.children \in Seq(Nodes) /\ LookupTable(m)
  BY NodesAssumption
<1>2. n \in Nat /\ n % 2 = 0
  BY ChildrenAreNodes
<1>3. /\ \A i \in 1 .. n \div 2 : 2 * i - 1 \in 1 .. n /\ (2 * i - 1) % 2 = 1
      /\ \A j \in 1 .. n : j % 2 = 1 => \E i \in 1 .. n \div 2 : j = 2 * i - 1
  <2> HIDE DEF n
  <2> QED BY <1>2, Halves
<1>4. KeysAt(m) = {2 * i - 1 : i \in 1 .. n \div 2}
  <2>1. DOMAIN m.children = 1 .. n
    BY <1>1
  <2> HIDE DEF n
  <2> QED BY <2>1, <1>3 DEF KeysAt
<1>5. ASSUME NEW i \in 1 .. n \div 2
      PROVE  /\ m.children[2 * i - 1].kind = "scalar"
             /\ m.children[2 * i - 1].scalar \in KeySet(m)
             /\ FindKey(m, m.children[2 * i - 1].scalar) = m.children[2 * i]
  <2> DEFINE k == 2 * i - 1
  <2>1. k \in KeysAt(m)
    BY <1>4
  <2>2. \A j \in KeysAt(m) : m.children[j].scalar = m.children[k].scalar => j = k
    BY <1>1, <2>1 DEF LookupTable
  <2>3. FindKey(m, m.children[k].scalar) = m.children[k + 1]
    <3> HIDE DEF k
    <3> QED BY <2>1, <2>2 DEF FindKey
  <2>4. k + 1 = 2 * i
    OBVIOUS
  <2>5. m.children[k].kind = "scalar" /\ m.children[k].scalar \in KeySet(m)
    BY <1>1, <2>1 DEF LookupTable, KeySet
  <2> QED BY <2>3, <2>4, <2>5
<1>6. \A key \in KeySet(m) : \E i \in 1 .. n \div 2 : m.children[2 * i - 1].scalar = key
  <2> HIDE DEF n
  <2> QED BY <1>4 DEF KeySet
<1> QED BY <1>4, <1>5, <1>6

(* The loops pass when each turn does.                                     *)
LEMMA ItemsPass ==
  ASSUME NEW value \in Nodes, NEW path, NEW checks, DOMAIN checks = 1 .. Len(value.children)
  PROVE  /\ DOMAIN value.children = 1 .. Len(value.children)
         /\ \A i \in DOMAIN value.children : value.children[i] \in Nodes
         /\ (RequireKind(value, "sequence", path) ?? FirstOf(checks)) = OK
              <=> value.kind = "sequence" /\ \A i \in DOMAIN value.children : checks[i] = OK
<1>1. value.children \in Seq(Nodes)
  BY NodesAssumption
<1>2. FirstOf(checks) = OK <=> \A i \in DOMAIN checks : checks[i] = OK
  BY AllPass, Indices
<1> QED BY <1>1, <1>2, PlainPasses, BothPass

LEMMA PairsPass ==
  ASSUME NEW m \in Nodes, NEW path, NEW checks, DOMAIN checks = 1 .. Len(m.children) \div 2
  PROVE  (RequireKind(m, "mapping", path) ?? FirstOf(checks)) = OK
           <=> m.kind = "mapping" /\ \A i \in DOMAIN checks : checks[i] = OK
<1>1. FirstOf(checks) = OK <=> \A i \in DOMAIN checks : checks[i] = OK
  <2>1. DOMAIN checks \subseteq Nat
    BY Indices
  <2> QED BY <2>1, AllPass
<1>2. RequireKind(m, "mapping", path) = OK <=> m.kind = "mapping"
  BY PlainPasses
<1> QED BY <1>1, <1>2, BothPass

(* Where its path is safe provenance() passes.                             *)
LEMMA ProvenancePasses ==
  ASSUME NEW path, SafePath(path), NEW value
  PROVE  Provenance(path, value) = OK
BY DEF Provenance, SafePath

-----------------------------------------------------------------------------
(* Where the failures of the checks can be found: a path is walked from    *)
(* the root of the document, and the checks walk with it.                  *)

(* A path is what it is put together from.                                 *)
LEMMA PathEnds ==
  ASSUME NEW path, IsPath(path), NEW step
  PROVE  LET longer == Append(path, step)
         IN  /\ IsPath(longer) /\ longer # Root
             /\ Front(longer) = path /\ Last(longer) = step
             /\ Len(path) \in Nat /\ Len(longer) = Len(path) + 1
             /\ \A i \in 1 .. Len(path) : longer[i] = path[i]
             /\ longer[Len(path) + 1] = step
<1> DEFINE longer == Append(path, step)
<1>1. PICK S : path \in Seq(S)
  BY DEF IsPath
<1> DEFINE T == S \union {step}
<1>2. path \in Seq(T) /\ step \in T
  BY <1>1, SeqMonotonic
<1> HIDE DEF T
<1>3. /\ longer \in Seq(T) /\ Len(path) \in Nat /\ Len(longer) = Len(path) + 1
      /\ \A i \in 1 .. Len(path) : longer[i] = path[i]
      /\ longer[Len(path) + 1] = step
  BY <1>2, AppendProperties, LenProperties
<1>4. longer # << >>
  BY <1>3
<1> HIDE DEF longer
<1>5. Front(longer) = path
  <2> DEFINE front == SubSeq(longer, 1, Len(path))
  <2>1. /\ front \in Seq(T) /\ Len(front) = Len(path)
        /\ \A i \in 1 .. Len(path) : front[i] = longer[i]
    <3>1. \A i \in 1 .. Len(path) : longer[i] \in T
      BY <1>2, <1>3, ElementOfSeq
    <3> QED BY <1>3, <3>1, SubSeqProperties
  <2> HIDE DEF front
  <2>2. front = path
    BY <1>2, <1>3, <2>1, SeqEqual
  <2>3. Len(longer) - 1 = Len(path)
    BY <1>3
  <2> QED BY <2>2, <2>3 DEF Front, front
<1>6. Last(longer) = step
  BY <1>3 DEF Last
<1> QED BY <1>3, <1>4, <1>5, <1>6 DEF IsPath, Root, longer

(* One step from a node on.                                                *)
Follow(from, step) ==
  CASE /\ step[1] = "key" /\ from.kind = "mapping"
       /\ HasKey(from, step[2]) -> FindKey(from, step[2])
    [] /\ step[1] = "item" /\ from.kind = "sequence"
       /\ step[2] < Len(from.children) -> from.children[step[2] + 1]
    [] OTHER -> Absent

Walks(d, path, at) ==
  at = [n \in 0 .. Len(path) |-> IF n = 0 THEN d ELSE Follow(at[n - 1], path[n])]

(* There is such a walk along every path.                                  *)
LEMMA WalkExists ==
  ASSUME NEW d, NEW path, IsPath(path)
  PROVE  \E at : Walks(d, path, at) /\ NodeAt(d, path) = at[Len(path)]
<1> DEFINE Upto(n, at) ==
             at = [k \in 0 .. n |-> IF k = 0 THEN d ELSE Follow(at[k - 1], path[k])]
           S == {n \in Nat : \E at : Upto(n, at)}
<1>1. ASSUME NEW n \in Nat, \A m \in Nat : m < n => m \in S PROVE n \in S
  <2>1. CASE n = 0
    <3> DEFINE at == [k \in 0 .. n |-> d]
    <3>1. ASSUME NEW k \in 0 .. n PROVE at[k] = IF k = 0 THEN d ELSE Follow(at[k - 1], path[k])
      <4>1. k = 0
        BY <2>1
      <4> QED BY <4>1
    <3>2. Upto(n, at)
      BY <3>1
    <3> QED BY <3>2
  <2>2. CASE n # 0
    <3>1. n - 1 \in S /\ n - 1 \in Nat
      <4>1. n - 1 \in Nat /\ n - 1 < n
        BY <2>2
      <4> HIDE DEF S
      <4> QED BY <1>1, <4>1
    <3>2. PICK at : Upto(n - 1, at)
      BY <3>1
    <3> DEFINE on == [k \in 0 .. n |-> IF k = n THEN Follow(at[n - 1], path[n]) ELSE at[k]]
    <3>3. ASSUME NEW k \in 0 .. n PROVE on[k] = IF k = 0 THEN d ELSE Follow(on[k - 1], path[k])
      <4>1. CASE k = n
        BY <2>2, <4>1
      <4>2. CASE k # n
        <5>1. k \in 0 .. n - 1 /\ (k # 0 => k - 1 \in 0 .. n - 1)
          BY <4>2
        <5>2. at[k] = IF k = 0 THEN d ELSE Follow(at[k - 1], path[k])
          BY <3>2, <5>1
        <5>3. on[k] = at[k] /\ (k # 0 => on[k - 1] = at[k - 1])
          BY <4>2, <5>1
        <5> QED BY <5>2, <5>3
      <4> QED BY <4>1, <4>2
    <3>4. Upto(n, on)
      BY <3>3
    <3> QED BY <3>4
  <2> QED BY <2>1, <2>2
<1>2. \A n \in Nat : n \in S
  <2> HIDE DEF S
  <2> QED BY <1>1, LeastCounterexample
<1>3. Len(path) \in Nat
  BY PathEnds
<1>4. PICK at : Upto(Len(path), at)
  BY <1>2, <1>3
<1> QED BY <1>4 DEF Walks, NodeAt, Follow

(* A walk goes from node to node.                                          *)
LEMMA WalkSteps ==
  ASSUME NEW d, NEW path, IsPath(path), NEW at, Walks(d, path, at)
  PROVE  at[0] = d /\ \A n \in 1 .. Len(path) : at[n] = Follow(at[n - 1], path[n])
<1>1. Len(path) \in Nat
  BY PathEnds
<1> QED BY <1>1 DEF Walks

(* The path of no steps leads to the root.                                 *)
LEMMA NodeAtRoot ==
  ASSUME NEW d
  PROVE  IsPath(Root) /\ NodeAt(d, Root) = d
<1>1. IsPath(Root) /\ Len(Root) = 0
  BY RootSafe DEF SafePath, Root
<1>2. PICK at : Walks(d, Root, at) /\ NodeAt(d, Root) = at[0]
  BY <1>1, WalkExists
<1>3. at[0] = d
  BY <1>1, <1>2, WalkSteps
<1> QED BY <1>1, <1>2, <1>3

(* The node at a path is one step from the node at the path before.        *)
LEMMA NodeAtStep ==
  ASSUME NEW d, NEW path, IsPath(path), NEW step
  PROVE  NodeAt(d, Append(path, step)) = Follow(NodeAt(d, path), step)
<1> DEFINE longer == Append(path, step)
<1>1. /\ IsPath(longer) /\ Len(path) \in Nat /\ Len(longer) = Len(path) + 1
      /\ \A i \in 1 .. Len(path) : longer[i] = path[i]
      /\ longer[Len(path) + 1] = step
  BY PathEnds
<1> HIDE DEF longer
<1>2. PICK a : Walks(d, path, a) /\ NodeAt(d, path) = a[Len(path)]
  BY WalkExists
<1>3. PICK b : Walks(d, longer, b) /\ NodeAt(d, longer) = b[Len(longer)]
  BY <1>1, WalkExists
<1>4. /\ a[0] = d /\ \A n \in 1 .. Len(path) : a[n] = Follow(a[n - 1], path[n])
      /\ b[0] = d /\ \A n \in 1 .. Len(longer) : b[n] = Follow(b[n - 1], longer[n])
  <2>1. a[0] = d /\ \A n \in 1 .. Len(path) : a[n] = Follow(a[n - 1], path[n])
    BY <1>2, WalkSteps
  <2>2. b[0] = d /\ \A n \in 1 .. Len(longer) : b[n] = Follow(b[n - 1], longer[n])
    BY <1>1, <1>3, WalkSteps
  <2> QED BY <2>1, <2>2
<1> DEFINE S == {n \in Nat : n <= Len(path) => a[n] = b[n]}
<1>5. ASSUME NEW n \in Nat, \A m \in Nat : m < n => m \in S PROVE n \in S
  <2>1. CASE n = 0
    BY <1>4, <2>1
  <2>2. CASE n # 0 /\ n <= Len(path)
    <3>1. n - 1 \in Nat /\ n - 1 < n /\ n - 1 <= Len(path)
          /\ n \in 1 .. Len(path) /\ n \in 1 .. Len(longer)
      BY <1>1, <2>2
    <3>2. a[n - 1] = b[n - 1]
      BY <1>5, <3>1
    <3> QED BY <1>1, <1>4, <3>1, <3>2
  <2>3. CASE n > Len(path)
    BY <1>1, <2>3
  <2> QED BY <1>1, <2>1, <2>2, <2>3
<1>6. \A n \in Nat : n \in S
  <2> HIDE DEF S
  <2> QED BY <1>5, LeastCounterexample
<1>7. a[Len(path)] = b[Len(path)]
  BY <1>1, <1>6
<1>8. Len(path) + 1 \in 1 .. Len(longer) /\ Len(path) + 1 - 1 = Len(path)
  BY <1>1
<1>9. b[Len(path) + 1] = Follow(b[Len(path)], step)
  BY <1>1, <1>4, <1>8
<1> QED BY <1>1, <1>2, <1>3, <1>7, <1>9 DEF longer

(* A node is where its path leads.                                         *)
At(d, path, node) == IsPath(path) /\ node \in Nodes /\ NodeAt(d, path) = node

(* The key of a mapping that makes a path of its own.                      *)
Distinguished(path, key) == path # Root \/ key # RootName

(* The walk begins at the root.                                            *)
LEMMA RootAt ==
  ASSUME NEW d \in Nodes
  PROVE  At(d, Root, d)
BY NodeAtRoot DEF At

(* child_path() leads from a mapping to the value of the key; without the  *)
(* key there is no node.                                                   *)
LEMMA ChildAt ==
  ASSUME NEW d, NEW path, NEW m, At(d, path, m), m.kind = "mapping",
         NEW key, Distinguished(path, key)
  PROVE  /\ ChildPath(path, key) # Root /\ IsPath(ChildPath(path, key))
         /\ Front(ChildPath(path, key)) = path /\ Last(ChildPath(path, key)) = <<"key", key>>
         /\ key \in KeySet(m) => At(d, ChildPath(path, key), FindKey(m, key))
         /\ key \notin KeySet(m) => NodeAt(d, ChildPath(path, key)) = Absent
<1> DEFINE step == <<"key", key>>
           longer == Append(path, step)
<1>1. ChildPath(path, key) = longer
  BY DEF ChildPath, Distinguished
<1>2. IsPath(longer) /\ longer # Root /\ Front(longer) = path /\ Last(longer) = step
  BY PathEnds DEF At
<1>3. NodeAt(d, longer) = Follow(m, step)
  BY NodeAtStep DEF At
<1>4. Follow(m, step) = IF key \in KeySet(m) THEN FindKey(m, key) ELSE Absent
  <2>1. step[1] = "key" /\ step[2] = key /\ "key" # "item"
    OBVIOUS
  <2>2. HasKey(m, key) <=> key \in KeySet(m)
    BY DEF HasKey, KeySet
  <2> HIDE DEF step
  <2> QED BY <2>1, <2>2 DEF Follow
<1>5. key \in KeySet(m) => FindKey(m, key) \in Nodes
  BY ValueIsNode DEF At
<1> HIDE DEF longer
<1> QED BY <1>1, <1>2, <1>3, <1>4, <1>5 DEF At

(* And the path of an item from a sequence to the item.                    *)
LEMMA NthAt ==
  ASSUME NEW d, NEW path, NEW value, At(d, path, value), value.kind = "sequence",
         NEW i \in 1 .. Len(value.children)
  PROVE  NthPath(path, i) # Root /\ At(d, NthPath(path, i), value.children[i])
<1> DEFINE step == <<"item", i - 1>>
           longer == Append(path, step)
<1>1. NthPath(path, i) = longer
  BY DEF NthPath, ItemPath
<1>2. IsPath(longer) /\ longer # Root
  BY PathEnds DEF At
<1>3. NodeAt(d, longer) = Follow(value, step)
  BY NodeAtStep DEF At
<1>4. value.children \in Seq(Nodes) /\ Len(value.children) \in Nat
  BY ChildrenAreNodes DEF At
<1>5. Follow(value, step) = value.children[i]
  <2>1. step[1] = "item" /\ step[2] = i - 1 /\ "key" # "item"
    OBVIOUS
  <2>2. i - 1 < Len(value.children) /\ i - 1 + 1 = i
    BY <1>4
  <2> HIDE DEF step
  <2> QED BY <2>1, <2>2 DEF Follow
<1>6. value.children[i] \in Nodes
  BY <1>4, ElementOfSeq
<1> HIDE DEF longer
<1> QED BY <1>1, <1>2, <1>3, <1>5, <1>6 DEF At

(* A check that passes, or a failure that can be found.                    *)
Resolved(d, check) == check = OK \/ Resolves(d, check)

(* A failure at the value it is about.                                     *)
LEMMA FailureAt ==
  ASSUME NEW d, NEW path, NEW node, At(d, path, node), NEW code, code # "missing_key"
  PROVE  Resolved(d, Failure(code, path, node))
<1> DEFINE failure == Failure(code, path, node)
<1>1. failure.code = code /\ failure.path = path /\ failure.at = node.mark
  BY DEF Failure
<1>2. node # Absent
  BY NodesAssumption DEF At, Absent, NodeKinds, Collections
<1>3. NodeAt(d, Root) = d
  BY NodeAtRoot
<1> HIDE DEF failure
<1>4. Resolves(d, failure)
  BY <1>1, <1>2, <1>3 DEF Resolves, At
<1> QED BY <1>4 DEF Resolved, failure

(* At a key its own line is reported, on the path of its value.            *)
LEMMA FailureAtKey ==
  ASSUME NEW d, NEW path, NEW m, At(d, path, m), m.kind = "mapping",
         NEW i \in KeysAt(m), Distinguished(path, m.children[i].scalar),
         NEW code, code # "missing_key"
  PROVE  Resolved(d, Failure(code, ChildPath(path, m.children[i].scalar), m.children[i]))
<1> DEFINE key == m.children[i].scalar
           failure == Failure(code, ChildPath(path, key), m.children[i])
<1>1. /\ failure.code = code /\ failure.path = ChildPath(path, key)
      /\ failure.at = m.children[i].mark
  BY DEF Failure
<1>2. key \in KeySet(m)
  BY DEF KeySet
<1>3. m.children[i].mark \in KeyMarks(m, key)
  BY DEF KeyMarks
<1> HIDE DEF key, failure
<1>4. /\ ChildPath(path, key) # Root /\ Front(ChildPath(path, key)) = path
      /\ Last(ChildPath(path, key)) = <<"key", key>>
      /\ At(d, ChildPath(path, key), FindKey(m, key))
  BY <1>2, ChildAt DEF key
<1>5. FindKey(m, key) # Absent
  BY <1>4, NodesAssumption DEF At, Absent, NodeKinds, Collections
<1>6. <<"key", key>>[1] = "key" /\ <<"key", key>>[2] = key
  OBVIOUS
<1>7. Resolves(d, failure)
  BY <1>1, <1>3, <1>4, <1>5, <1>6 DEF Resolves, At
<1> QED BY <1>7 DEF Resolved, failure, key

(* A missing key is reported at the mapping that does not have it.         *)
LEMMA KeyResolved ==
  ASSUME NEW d, NEW path, NEW m, At(d, path, m), m.kind = "mapping",
         NEW key, Distinguished(path, key)
  PROVE  Resolved(d, RequiredKey(m, key, path))
<1> DEFINE failure == Failure("missing_key", ChildPath(path, key), m)
<1>1. CASE HasKey(m, key)
  BY <1>1 DEF RequiredKey, Resolved
<1>2. CASE ~HasKey(m, key)
  <2>1. key \notin KeySet(m)
    BY <1>2 DEF HasKey, KeySet
  <2>2. /\ failure.code = "missing_key" /\ failure.path = ChildPath(path, key)
        /\ failure.at = m.mark
    BY DEF Failure
  <2>3. /\ ChildPath(path, key) # Root /\ Front(ChildPath(path, key)) = path
        /\ NodeAt(d, ChildPath(path, key)) = Absent
    BY <2>1, ChildAt
  <2> HIDE DEF failure
  <2>4. Resolves(d, failure)
    BY <2>2, <2>3 DEF Resolves, At
  <2> QED BY <1>2, <2>4 DEF RequiredKey, Resolved, failure
<1> QED BY <1>1, <1>2

(* Of two checks in turn, and of checks made one after the other.          *)
LEMMA BothResolved ==
  ASSUME NEW d, NEW a, NEW b, Resolved(d, a), a = OK => Resolved(d, b)
  PROVE  Resolved(d, a ?? b)
BY DEF ??

LEMMA AllResolved ==
  ASSUME NEW d, NEW checks, DOMAIN checks \subseteq Nat,
         \A i \in DOMAIN checks : Resolved(d, checks[i])
  PROVE  Resolved(d, FirstOf(checks))
<1>1. Resolved(d, OK)
  BY DEF Resolved
<1> QED BY <1>1, LeastIsIn DEF FirstOf

(* The checks of a value report at the value, AllowKeys at one of the keys.*)
LEMMA PlainResolved ==
  ASSUME NEW d, NEW path, NEW value, At(d, path, value)
  PROVE  /\ \A kind : Resolved(d, RequireKind(value, kind, path))
         /\ \A texts : Resolved(d, RequireText(value, texts, path))
         /\ \A admitted : Resolved(d, Semantic(admitted, path, value))
         /\ Resolved(d, Provenance(path, value))
<1>1. /\ Resolved(d, Failure("invalid_type", path, value))
      /\ Resolved(d, Failure("invalid_value", path, value))
      /\ Resolved(d, Failure("core_error", path, value))
  BY FailureAt
<1>2. Resolved(d, OK)
  BY DEF Resolved
<1>3. \A kind : Resolved(d, RequireKind(value, kind, path))
  BY <1>1, <1>2 DEF RequireKind
<1>4. \A texts : Resolved(d, RequireText(value, texts, path))
  BY <1>1, <1>2, <1>3 DEF RequireText, ??
<1> QED BY <1>1, <1>2, <1>3, <1>4 DEF Semantic, Provenance

LEMMA KeysResolved ==
  ASSUME NEW d, NEW path, NEW m, At(d, path, m),
         m.kind = "mapping" => \A key \in KeySet(m) : Distinguished(path, key), NEW allowed
  PROVE  Resolved(d, AllowKeys(m, path, allowed))
<1> DEFINE unknown == {i \in KeysAt(m) : m.children[i].scalar \notin allowed}
           key == m.children[Least(unknown)]
           rest == IF unknown = {} THEN OK
                   ELSE Failure("unknown_key", ChildPath(path, key.scalar), key)
<1>1. Resolved(d, RequireKind(m, "mapping", path))
  BY PlainResolved
<1>2. ASSUME m.kind = "mapping" PROVE Resolved(d, rest)
  <2>1. CASE unknown = {}
    BY <2>1 DEF Resolved
  <2>2. CASE unknown # {}
    <3>1. KeysAt(m) \subseteq Nat
      <4>1. m.children \in Seq(Nodes) /\ Len(m.children) \in Nat
        BY ChildrenAreNodes DEF At
      <4> QED BY <4>1 DEF KeysAt
    <3>2. Least(unknown) \in KeysAt(m)
      <4>1. unknown \in SUBSET Nat
        BY <3>1
      <4> QED BY <2>2, <4>1, LeastIsIn
    <3> HIDE DEF unknown
    <3>3. key.scalar \in KeySet(m)
      BY <3>2 DEF KeySet
    <3>4. Resolved(d, Failure("unknown_key", ChildPath(path, key.scalar), key))
      BY <1>2, <3>2, <3>3, FailureAtKey
    <3> QED BY <2>2, <3>4
  <2> QED BY <2>1, <2>2
<1>3. RequireKind(m, "mapping", path) = OK <=> m.kind = "mapping"
  BY PlainPasses
<1>4. AllowKeys(m, path, allowed) = (RequireKind(m, "mapping", path) ?? rest)
  BY DEF AllowKeys
<1> HIDE DEF rest
<1> QED BY <1>1, <1>2, <1>3, <1>4, BothResolved

LEMMA RequiredResolved ==
  ASSUME NEW d, NEW path, NEW m, At(d, path, m), m.kind = "mapping",
         NEW keys, DOMAIN keys \subseteq Nat, \A i \in DOMAIN keys : Distinguished(path, keys[i])
  PROVE  Resolved(d, RequiredKeys(m, keys, path))
<1> DEFINE checks == [i \in DOMAIN keys |-> RequiredKey(m, keys[i], path)]
<1>1. DOMAIN checks \subseteq Nat /\ \A i \in DOMAIN checks : Resolved(d, checks[i])
  BY KeyResolved
<1> HIDE DEF checks
<1>2. Resolved(d, FirstOf(checks))
  BY <1>1, AllResolved
<1> QED BY <1>2 DEF checks, RequiredKeys

(* The value of a key that is there is checked where it stands.            *)
LEMMA ValueResolved ==
  ASSUME NEW d, NEW path, NEW m, At(d, path, m), m.kind = "mapping",
         NEW key \in KeySet(m), Distinguished(path, key)
  PROVE  /\ At(d, ChildPath(path, key), FindKey(m, key))
         /\ Resolved(d, ScalarAt(m, key, path))
         /\ \A texts : Resolved(d, RequireText(FindKey(m, key), texts, ChildPath(path, key)))
         /\ \A kind : Resolved(d, RequireKind(FindKey(m, key), kind, ChildPath(path, key)))
         /\ \A admitted : Resolved(d, Semantic(admitted, ChildPath(path, key), FindKey(m, key)))
<1>1. At(d, ChildPath(path, key), FindKey(m, key))
  BY ChildAt
<1> QED BY <1>1, PlainResolved DEF ScalarAt

(* The turns of a loop.                                                    *)
LEMMA ItemsResolved ==
  ASSUME NEW d, NEW path, NEW value, At(d, path, value),
         NEW checks, DOMAIN checks = 1 .. Len(value.children),
         value.kind = "sequence" => \A i \in DOMAIN checks : Resolved(d, checks[i])
  PROVE  Resolved(d, RequireKind(value, "sequence", path) ?? FirstOf(checks))
<1>1. Resolved(d, RequireKind(value, "sequence", path))
  BY PlainResolved
<1>2. value.kind = "sequence" => Resolved(d, FirstOf(checks))
  BY AllResolved, Indices
<1>3. RequireKind(value, "sequence", path) = OK <=> value.kind = "sequence"
  BY PlainPasses
<1> QED BY <1>1, <1>2, <1>3, BothResolved

LEMMA PairsResolved ==
  ASSUME NEW d, NEW path, NEW m, At(d, path, m),
         NEW checks, DOMAIN checks = 1 .. Len(m.children) \div 2,
         m.kind = "mapping" => \A i \in DOMAIN checks : Resolved(d, checks[i])
  PROVE  Resolved(d, RequireKind(m, "mapping", path) ?? FirstOf(checks))
<1>1. Resolved(d, RequireKind(m, "mapping", path))
  BY PlainResolved
<1>2. m.kind = "mapping" => Resolved(d, FirstOf(checks))
  <2>1. DOMAIN checks \subseteq Nat
    BY Indices
  <2> QED BY <2>1, AllResolved
<1>3. RequireKind(m, "mapping", path) = OK <=> m.kind = "mapping"
  BY PlainPasses
<1> QED BY <1>1, <1>2, <1>3, BothResolved

(* In a turn over a mapping both the key and the value can be found.       *)
LEMMA PairAt ==
  ASSUME NEW d, NEW path, NEW m, At(d, path, m), m.kind = "mapping", path # Root,
         NEW i \in 1 .. Len(m.children) \div 2
  PROVE  LET key == m.children[2 * i - 1]
         IN  /\ At(d, ChildPath(path, key.scalar), m.children[2 * i])
             /\ ChildPath(path, key.scalar) # Root
             /\ \A code : code # "missing_key" =>
                  Resolved(d, Failure(code, ChildPath(path, key.scalar), key))
<1> DEFINE key == m.children[2 * i - 1]
<1>1. m \in Nodes
  BY DEF At
<1>2. /\ 2 * i - 1 \in KeysAt(m) /\ key.scalar \in KeySet(m)
      /\ FindKey(m, key.scalar) = m.children[2 * i]
  BY <1>1, Pairs
<1>3. Distinguished(path, key.scalar)
  BY DEF Distinguished
<1>4. \A code : code # "missing_key" =>
        Resolved(d, Failure(code, ChildPath(path, key.scalar), key))
  <2> DEFINE j == 2 * i - 1
  <2> HIDE DEF j
  <2>1. j \in KeysAt(m) /\ Distinguished(path, m.children[j].scalar)
    BY <1>2, <1>3 DEF j
  <2>2. \A code : code # "missing_key" =>
          Resolved(d, Failure(code, ChildPath(path, m.children[j].scalar), m.children[j]))
    BY <2>1, FailureAtKey
  <2> QED BY <2>2 DEF j
<1>5. /\ ChildPath(path, key.scalar) # Root
      /\ At(d, ChildPath(path, key.scalar), m.children[2 * i])
  <2> HIDE DEF key
  <2> QED BY <1>2, <1>3, ChildAt
<1> QED BY <1>4, <1>5

(* subject_value(): the reference is asked for only when there is one.     *)
LEMMA SubjectResolved ==
  ASSUME NEW d, NEW path, NEW value, At(d, path, value), path # Root
  PROVE  Resolved(d, Subject(value, path))
<1> DEFINE kind == IF HasKey(value, "package") THEN "package" ELSE "profile"
           name == FindKey(value, kind)
           rest == ScalarAt(value, kind, path) ??
                     Semantic(ReferenceAdmitted(kind, name.scalar), ChildPath(path, kind), name)
           allow == AllowKeys(value, path, {"package", "profile"})
           exact == IF ~OneOf(value, "package", "profile")
                      THEN Failure("invalid_value", path, value) ELSE rest
<1>1. \A key : Distinguished(path, key)
  BY DEF Distinguished
<1>2. Resolved(d, allow)
  BY <1>1, KeysResolved
<1>3. allow = OK => value.kind = "mapping"
  BY KeysPass
<1>4. Resolved(d, Failure("invalid_value", path, value))
  BY FailureAt
<1>5. ASSUME value.kind = "mapping", OneOf(value, "package", "profile") PROVE Resolved(d, rest)
  <2>1. kind \in KeySet(value)
    BY <1>5 DEF OneOf, HasKey, KeySet
  <2> HIDE DEF kind
  <2>2. /\ Resolved(d, ScalarAt(value, kind, path))
        /\ Resolved(d, Semantic(ReferenceAdmitted(kind, name.scalar), ChildPath(path, kind), name))
    BY <1>1, <1>5, <2>1, ValueResolved
  <2> QED BY <2>2, BothResolved
<1> HIDE DEF rest
<1>6. value.kind = "mapping" => Resolved(d, exact)
  BY <1>4, <1>5
<1>7. Subject(value, path) = (allow ?? exact)
  BY DEF Subject, rest
<1> HIDE DEF allow, exact
<1> QED BY <1>2, <1>3, <1>6, <1>7, BothResolved

(* The format's check of a root that is a mapping.                         *)
LEMMA FormatResolved ==
  ASSUME NEW d \in Nodes, d.kind = "mapping", NEW expected
  PROVE  Resolved(d, RequireFormat(d, expected))
<1>1. At(d, Root, d) /\ Distinguished(Root, "format")
  BY RootAt DEF Distinguished, RootName
<1>2. Resolved(d, RequiredKey(d, "format", Root))
  BY <1>1, KeyResolved
<1>3. RequiredKey(d, "format", Root) = OK => "format" \in KeySet(d)
  BY PlainPasses
<1>4. "format" \in KeySet(d) =>
        Resolved(d, RequireText(FindKey(d, "format"), {expected}, ChildPath(Root, "format")))
  BY <1>1, ValueResolved
<1> QED BY <1>2, <1>3, <1>4, BothResolved DEF RequireFormat

(* No key of the root has the name by which child_path() knows the root.   *)
RootUnnamed(d) == d.kind = "mapping" => RootName \notin KeySet(d)

-----------------------------------------------------------------------------
(* A sequence that is the first lists one after the other: each of its     *)
(* elements is one of them, none is left out, and their order is kept.     *)
Spreads(all, lists, n, from, at) ==
  /\ \E S : all \in Seq(S)
  /\ \A i \in 1 .. Len(all) : /\ from[i] \in 1 .. n /\ at[i] \in 1 .. Len(lists[from[i]])
                              /\ all[i] = lists[from[i]][at[i]]
  /\ \A k \in 1 .. n : \A j \in 1 .. Len(lists[k]) :
       \E i \in 1 .. Len(all) : from[i] = k /\ at[i] = j
  /\ \A i, j \in 1 .. Len(all) : i < j =>
       from[i] < from[j] \/ (from[i] = from[j] /\ at[i] < at[j])

(* With the next list at its end it is one list more.                      *)
LEMMA OneMore ==
  ASSUME NEW all, NEW lists, NEW n \in Nat, NEW from, NEW at, Spreads(all, lists, n, from, at),
         NEW list, IsPath(list), list = lists[n + 1]
  PROVE  \E u, w : Spreads(all \o list, lists, n + 1, u, w)
<1> DEFINE a == Len(all)
           b == Len(list)
           longer == all \o list
           u == [i \in 1 .. a + b |-> IF i <= a THEN from[i] ELSE n + 1]
           w == [i \in 1 .. a + b |-> IF i <= a THEN at[i] ELSE i - a]
<1>1. PICK S, T : all \in Seq(S) /\ list \in Seq(T)
  BY DEF Spreads, IsPath
<1> DEFINE U == S \union T
<1>2. all \in Seq(U) /\ list \in Seq(U)
  BY <1>1, SeqMonotonic
<1> HIDE DEF U
<1>3. /\ longer \in Seq(U) /\ Len(longer) = a + b /\ a \in Nat /\ b \in Nat
      /\ \A i \in 1 .. a + b : longer[i] = IF i <= a THEN all[i] ELSE list[i - a]
  BY <1>2, ConcatProperties, LenProperties
<1> HIDE DEF longer
<1>4. /\ \A i \in 1 .. a : /\ from[i] \in 1 .. n /\ at[i] \in 1 .. Len(lists[from[i]])
                           /\ all[i] = lists[from[i]][at[i]]
      /\ \A k \in 1 .. n : \A j \in 1 .. Len(lists[k]) : \E i \in 1 .. a : from[i] = k /\ at[i] = j
      /\ \A i, j \in 1 .. a : i < j => from[i] < from[j] \/ (from[i] = from[j] /\ at[i] < at[j])
  BY DEF Spreads
<1>5. /\ \A i \in 1 .. a : u[i] = from[i] /\ w[i] = at[i]
      /\ \A i \in 1 .. a + b : i > a => u[i] = n + 1 /\ w[i] = i - a
  BY <1>3
<1> HIDE DEF a, b, u, w
<1>6. ASSUME NEW i \in 1 .. a + b
      PROVE  /\ u[i] \in 1 .. n + 1 /\ w[i] \in 1 .. Len(lists[u[i]])
             /\ longer[i] = lists[u[i]][w[i]]
  <2>1. CASE i <= a
    <3>1. i \in 1 .. a
      BY <1>3, <2>1
    <3>2. u[i] = from[i] /\ w[i] = at[i] /\ u[i] \in 1 .. n
      BY <1>4, <1>5, <3>1
    <3>3. w[i] \in 1 .. Len(lists[u[i]]) /\ all[i] = lists[u[i]][w[i]]
      BY <1>4, <3>1, <3>2
    <3>4. longer[i] = all[i]
      BY <1>3, <2>1
    <3> QED BY <3>2, <3>3, <3>4
  <2>2. CASE i > a
    <3>1. u[i] = n + 1 /\ w[i] = i - a /\ i - a \in 1 .. b /\ longer[i] = list[i - a]
      BY <1>3, <1>5, <2>2
    <3> QED BY <3>1 DEF b
  <2> QED BY <1>3, <2>1, <2>2
<1>7. ASSUME NEW k \in 1 .. n + 1, NEW j \in 1 .. Len(lists[k])
      PROVE  \E i \in 1 .. a + b : u[i] = k /\ w[i] = j
  <2>1. CASE k \in 1 .. n
    <3>1. PICK i \in 1 .. a : from[i] = k /\ at[i] = j
      BY <1>4, <2>1
    <3>2. i \in 1 .. a + b
      BY <1>3
    <3> QED BY <1>5, <3>1, <3>2
  <2>2. CASE k = n + 1
    <3>1. j \in 1 .. b
      BY <2>2 DEF b
    <3> DEFINE i == a + j
    <3>2. i \in 1 .. a + b /\ i > a /\ i - a = j
      BY <1>3, <3>1
    <3> HIDE DEF i
    <3>3. u[i] = n + 1 /\ w[i] = j
      BY <1>5, <3>2
    <3> QED BY <2>2, <3>2, <3>3
  <2> QED BY <2>1, <2>2
<1>8. ASSUME NEW i \in 1 .. a + b, NEW j \in 1 .. a + b, i < j
      PROVE  u[i] < u[j] \/ (u[i] = u[j] /\ w[i] < w[j])
  <2>1. CASE j <= a
    <3>1. i \in 1 .. a /\ j \in 1 .. a
      BY <1>3, <1>8, <2>1
    <3> QED BY <1>4, <1>5, <1>8, <3>1
  <2>2. CASE i <= a /\ j > a
    <3>1. i \in 1 .. a /\ u[j] = n + 1
      BY <1>3, <1>5, <2>2
    <3>2. u[i] \in 1 .. n
      BY <1>4, <1>5, <3>1
    <3> QED BY <3>1, <3>2
  <2>3. CASE i > a
    <3>1. u[i] = n + 1 /\ u[j] = n + 1 /\ w[i] = i - a /\ w[j] = j - a
      BY <1>3, <1>5, <1>8, <2>3
    <3> QED BY <1>3, <1>8, <3>1
  <2> QED BY <1>3, <2>1, <2>2, <2>3
<1>9. Spreads(longer, lists, n + 1, u, w)
  BY <1>3, <1>6, <1>7, <1>8 DEF Spreads
<1> QED BY <1>9 DEF longer

(* FlattenSeq() puts all its lists one after the other.                    *)
LEMMA Flattened ==
  ASSUME NEW lists, IsPath(lists), Len(lists) > 0,
         \A k \in 1 .. Len(lists) : IsPath(lists[k])
  PROVE  \E from, at : Spreads(FlattenSeq(lists), lists, Len(lists), from, at)
<1> DEFINE Upto(n, f) == f = [i \in 1 .. n |-> IF i = 1 THEN lists[i] ELSE f[i - 1] \o lists[i]]
           Spread(all, n) == \E from, at : Spreads(all, lists, n, from, at)
           S == {n \in Nat : n <= Len(lists) =>
                   \E f : Upto(n, f) /\ (n > 0 => Spread(f[n], n))}
<1>1. Len(lists) \in Nat
  BY PathEnds
<1>2. ASSUME NEW n \in Nat, \A m \in Nat : m < n => m \in S, n <= Len(lists)
      PROVE  \E f : Upto(n, f) /\ (n > 0 => Spread(f[n], n))
  <2>1. CASE n = 0
    <3> DEFINE f == [i \in 1 .. n |-> lists[i]]
    <3>1. ASSUME NEW i \in 1 .. n PROVE f[i] = IF i = 1 THEN lists[i] ELSE f[i - 1] \o lists[i]
      BY <2>1
    <3>2. Upto(n, f)
      BY <3>1
    <3> HIDE DEF Upto
    <3> QED BY <2>1, <3>2
  <2>2. CASE n # 0
    <3>1. n - 1 \in S /\ n - 1 \in Nat /\ n - 1 <= Len(lists) /\ n \in 1 .. Len(lists)
      <4>1. n - 1 \in Nat /\ n - 1 < n /\ n - 1 <= Len(lists) /\ n \in 1 .. Len(lists)
        BY <1>1, <1>2, <2>2
      <4> HIDE DEF S
      <4> QED BY <1>2, <4>1
    <3> HIDE DEF Spread
    <3>2. PICK f : Upto(n - 1, f) /\ (n - 1 > 0 => Spread(f[n - 1], n - 1))
      BY <3>1
    <3> DEFINE g == [i \in 1 .. n |-> IF i < n THEN f[i]
                                      ELSE IF n = 1 THEN lists[n] ELSE f[n - 1] \o lists[n]]
    <3>3. ASSUME NEW i \in 1 .. n PROVE g[i] = IF i = 1 THEN lists[i] ELSE g[i - 1] \o lists[i]
      <4>1. CASE i = n
        <5>1. i # 1 => i - 1 \in 1 .. n /\ i - 1 < n
          OBVIOUS
        <5> QED BY <4>1, <5>1
      <4>2. CASE i # n
        <5>1. i \in 1 .. n - 1 /\ i < n /\ (i # 1 => i - 1 \in 1 .. n - 1 /\ i - 1 < n /\ i - 1 \in 1 .. n)
          BY <4>2
        <5>2. f[i] = IF i = 1 THEN lists[i] ELSE f[i - 1] \o lists[i]
          BY <3>2, <5>1
        <5>3. g[i] = f[i] /\ (i # 1 => g[i - 1] = f[i - 1])
          BY <5>1
        <5> QED BY <5>2, <5>3
      <4> QED BY <4>1, <4>2
    <3>4. Upto(n, g)
      BY <3>3
    <3>5. g[n] = IF n = 1 THEN lists[n] ELSE f[n - 1] \o lists[n]
      BY <2>2
    <3>6. Spread(g[n], n)
      <4>1. CASE n = 1
        <5>1. IsPath(lists[n]) /\ Len(lists[n]) \in Nat
          BY <3>1, PathEnds
        <5> DEFINE u == [i \in 1 .. Len(lists[n]) |-> 1]
                   w == [i \in 1 .. Len(lists[n]) |-> i]
        <5>2. Spreads(lists[n], lists, n, u, w)
          BY <4>1, <5>1 DEF Spreads, IsPath
        <5> QED BY <3>5, <4>1, <5>2 DEF Spread
      <4>2. CASE n # 1
        <5> n - 1 > 0
          BY <2>2, <4>2
        <5>1. PICK from, at : Spreads(f[n - 1], lists, n - 1, from, at)
          BY <3>2 DEF Spread
        <5>2. n - 1 + 1 = n /\ IsPath(lists[n])
          BY <3>1
        <5>3. \E u, w : Spreads(f[n - 1] \o lists[n], lists, n, u, w)
          BY <3>1, <5>1, <5>2, OneMore
        <5> QED BY <3>5, <4>2, <5>3 DEF Spread
      <4> QED BY <4>1, <4>2
    <3> HIDE DEF Upto, g
    <3> QED BY <3>4, <3>6
  <2> QED BY <2>1, <2>2
<1>3. \A n \in Nat : n \in S
  <2>1. ASSUME NEW n \in Nat, \A m \in Nat : m < n => m \in S PROVE n \in S
    BY <1>2, <2>1
  <2> HIDE DEF S
  <2> QED BY <2>1, LeastCounterexample
<1> HIDE DEF Upto, Spread
<1>4. PICK f : Upto(Len(lists), f) /\ Spread(f[Len(lists)], Len(lists))
  <2>1. Len(lists) \in S
    <3> HIDE DEF S
    <3> QED BY <1>1, <1>3
  <2> QED BY <1>1, <2>1
<1> DEFINE flatten == CHOOSE g : Upto(Len(lists), g)
<1>5. Upto(Len(lists), flatten)
  BY <1>4
<1>6. flatten[Len(lists)] = f[Len(lists)]
  <2> DEFINE T == {n \in Nat : n \in 1 .. Len(lists) => flatten[n] = f[n]}
  <2>1. ASSUME NEW n \in Nat, \A m \in Nat : m < n => m \in T PROVE n \in T
    <3> SUFFICES ASSUME n \in 1 .. Len(lists) PROVE flatten[n] = f[n]
      OBVIOUS
    <3> HIDE DEF flatten
    <3>1. /\ flatten[n] = IF n = 1 THEN lists[n] ELSE flatten[n - 1] \o lists[n]
          /\ f[n] = IF n = 1 THEN lists[n] ELSE f[n - 1] \o lists[n]
      BY <1>4, <1>5 DEF Upto
    <3>2. n # 1 => flatten[n - 1] = f[n - 1]
      <4>1. n # 1 => n - 1 \in Nat /\ n - 1 < n /\ n - 1 \in 1 .. Len(lists)
        BY <1>1
      <4> QED BY <2>1, <4>1
    <3> QED BY <3>1, <3>2
  <2>2. \A n \in Nat : n \in T
    <3> HIDE DEF T
    <3> QED BY <2>1, LeastCounterexample
  <2>3. Len(lists) \in 1 .. Len(lists)
    BY <1>1
  <2> QED BY <1>1, <2>2, <2>3
<1>7. FlattenSeq(lists) = flatten[Len(lists)]
  BY <1>1 DEF FlattenSeq, Upto
<1> QED BY <1>4, <1>6, <1>7 DEF Spread

=============================================================================
