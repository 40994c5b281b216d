------------------------------ MODULE Protocol ------------------------------
(***************************************************************************)
(* The lookups and checks of document.cpp that the document protocols are  *)
(* written in, on a tree that validate_tree() has passed: the keys of a    *)
(* mapping are distinct scalars.                                           *)
(*                                                                         *)
(* Here a node holds its children, as in the source: those of a mapping    *)
(* are its keys and values in turn.  A check is the failure it throws, or  *)
(* OK; "a ?? b" makes check b when a has passed.                           *)
(***************************************************************************)
EXTENDS YamlTree, SequencesExt

CONSTANTS
  PackageNames,            \* What package_reference accepts, and what
  ProfileNames,            \* profile_reference does: names with their "@".
  SafeKeys,                \* The keys a provenance path may have in it.
  Nodes                    \* The nodes of the documents, and theirs.

ASSUME NamesAreStrings == PackageNames \union ProfileNames \union SafeKeys \subseteq STRING

(* yaml_error_code.                                                        *)
ErrorCodes == {"syntax", "unsupported_feature", "invalid_document", "duplicate_key",
               "unknown_key", "missing_key", "invalid_type", "invalid_value",
               "resource_limit"}

OK == [code |-> "none", path |-> Root, at |-> Root]

Failure(code, path, value) == [code |-> code, path |-> path, at |-> value.mark]

a ?? b == IF a = OK THEN b ELSE a

Least(S) == CHOOSE i \in S : \A j \in S : i <= j

(* Checks made one after the other.                                        *)
FirstOf(checks) ==
  LET failed == {i \in DOMAIN checks : checks[i] # OK}
  IN  IF failed = {} THEN OK ELSE checks[Least(failed)]

-----------------------------------------------------------------------------
(* What libpkgsource's constructors accept, as the callers take it: a text *)
(* names a package, a profile or neither, and a path is free of the        *)
(* characters that must not be in a provenance or is not.                  *)

ReferenceAdmitted(kind, name) ==
  name \in IF kind = "package" THEN PackageNames ELSE ProfileNames

ProvenanceAdmitted(path) ==
  \A i \in DOMAIN path : path[i][1] = "key" => path[i][2] \in SafeKeys

(* semantic_value(): a refusal of the core is the document's error.        *)
Semantic(admitted, path, value) ==
  IF admitted THEN OK ELSE Failure("invalid_value", path, value)

(* provenance() with nothing around it: a refusal of the core escapes.     *)
Provenance(path, value) ==
  IF ProvenanceAdmitted(path) THEN OK ELSE Failure("core_error", path, value)

-----------------------------------------------------------------------------
(* The keys of a mapping are at its odd positions, each before its value.  *)
KeysAt(m)      == {i \in DOMAIN m.children : i % 2 = 1}
HasKey(m, key) == \E i \in KeysAt(m) : m.children[i].scalar = key
FindKey(m, key) ==
  m.children[(CHOOSE i \in KeysAt(m) : m.children[i].scalar = key) + 1]

(* What validate_tree() leaves of a document: from every node on, all      *)
(* mappings are made of pairs with distinct scalar keys.                   *)
LookupTable(m) ==
  /\ Len(m.children) % 2 = 0
  /\ \A i \in KeysAt(m) : m.children[i].kind = "scalar"
  /\ \A i, j \in KeysAt(m) : m.children[i].scalar = m.children[j].scalar => i = j

ASSUME NodesAssumption ==
  \A n \in Nodes : /\ n.kind \in NodeKinds
                   /\ n.children \in Seq(Nodes)
                   /\ n.kind = "mapping" => LookupTable(n)

RequireKind(value, kind, path) ==
  IF value.kind = kind THEN OK ELSE Failure("invalid_type", path, value)

RequiredKey(m, key, path) ==
  IF HasKey(m, key) THEN OK ELSE Failure("missing_key", ChildPath(path, key), m)

(* Of several unknown keys the first is reported.                          *)
AllowKeys(m, path, allowed) ==
  RequireKind(m, "mapping", path) ??
  LET unknown == {i \in KeysAt(m) : m.children[i].scalar \notin allowed}
  IN  IF unknown = {} THEN OK
      ELSE LET key == m.children[Least(unknown)]
           IN  Failure("unknown_key", ChildPath(path, key.scalar), key)

-----------------------------------------------------------------------------
(* What the grammars are put together from.                                *)

(* A value that must be one of a few exact scalars.                        *)
RequireText(value, texts, path) ==
  RequireKind(value, "scalar", path) ??
  IF value.scalar \in texts THEN OK ELSE Failure("invalid_value", path, value)

ScalarAt(m, key, path) == RequireKind(FindKey(m, key), "scalar", ChildPath(path, key))

IfPresent(m, key, Check(_)) == IF HasKey(m, key) THEN Check(FindKey(m, key)) ELSE OK

RequiredKeys(m, keys, path) == FirstOf([i \in DOMAIN keys |-> RequiredKey(m, keys[i], path)])

NthPathOneBased(path, i) == ItemPath(path, i)                     \* mutant

NthPath(path, i) == ItemPath(path, i - 1)

(* The loops over the entries of a sequence and the pairs of a mapping.    *)
EachItem(value, path, Check(_, _)) ==
  RequireKind(value, "sequence", path) ??
  FirstOf([i \in 1 .. Len(value.children) |-> Check(value.children[i], NthPath(path, i))])

EachPair(m, path, Check(_, _, _)) ==
  RequireKind(m, "mapping", path) ??
  FirstOf([i \in 1 .. Len(m.children) \div 2 |->
             LET key == m.children[2 * i - 1]
             IN  Check(key, m.children[2 * i], ChildPath(path, key.scalar))])

RequireFormat(root, expected) ==
  RequiredKey(root, "format", Root) ??
  RequireText(FindKey(root, "format"), {expected}, ChildPath(Root, "format"))

EitherOf(m, one, other) == HasKey(m, one) \/ HasKey(m, other)     \* mutant

(* Exactly one of two keys.                                                *)
OneOf(m, one, other) == HasKey(m, one) # HasKey(m, other)

(* subject_value(): exactly one of a package and a profile.                *)
Subject(value, path) ==
  AllowKeys(value, path, {"package", "profile"}) ??
  IF ~OneOf(value, "package", "profile") THEN Failure("invalid_value", path, value)
  ELSE LET kind == IF HasKey(value, "package") THEN "package" ELSE "profile"
           name == FindKey(value, kind)
       IN  ScalarAt(value, kind, path) ??
           Semantic(ReferenceAdmitted(kind, name.scalar), ChildPath(path, kind), name)

-----------------------------------------------------------------------------
(* What the properties of the grammars are stated with.                    *)

KeySet(m) == {m.children[i].scalar : i \in KeysAt(m)}

IsText(v, texts) == v.kind = "scalar" /\ v.scalar \in texts

(* What the protocols ask of a requirement's subject and a profile's       *)
(* member.                                                                 *)
IsSubject(v) ==
  /\ v.kind = "mapping"
  /\ \/ KeySet(v) = {"package"} /\ IsText(FindKey(v, "package"), PackageNames)
     \/ KeySet(v) = {"profile"} /\ IsText(FindKey(v, "profile"), ProfileNames)

(* The node at a path, or no node at all.                                  *)
Absent == [kind |-> "absent"]

NodeAt(d, path) ==
  LET at[n \in 0 .. Len(path)] ==
        IF n = 0 THEN d
        ELSE LET step == path[n]
                 from == at[n - 1]
             IN  CASE /\ step[1] = "key" /\ from.kind = "mapping"
                      /\ HasKey(from, step[2]) -> FindKey(from, step[2])
                   [] /\ step[1] = "item" /\ from.kind = "sequence"
                      /\ step[2] < Len(from.children) -> from.children[step[2] + 1]
                   [] OTHER -> Absent
  IN  at[Len(path)]

KeyMarks(m, key) == {m.children[i].mark : i \in {k \in KeysAt(m) : m.children[k].scalar = key}}

(* The path of a failure leads through the document to the place of its    *)
(* mark: to the value there or the key that names it; when a key is        *)
(* missing, to a mapping that does not have it.                            *)
Resolves(d, failure) ==
  LET parent == NodeAt(d, Front(failure.path))
      value  == NodeAt(d, failure.path)
  IN  IF failure.path = Root THEN failure.at = d.mark
      ELSE IF value = Absent
        THEN failure.code = "missing_key" /\ parent.kind = "mapping" /\ failure.at = parent.mark
      ELSE /\ failure.code # "missing_key"
           /\ \/ failure.at = value.mark
              \/ /\ Last(failure.path)[1] = "key"
                 /\ failure.at \in KeyMarks(parent, Last(failure.path)[2])

=============================================================================
