------------------------- MODULE RecipeParserProofs -------------------------
(***************************************************************************)
(* Four things about parse_recipe_yaml(), for every document and every     *)
(* order in which the arguments are computed.  No exception of             *)
(* libpkgsource leaves it: the paths of the provenances that nothing       *)
(* guards are made of the protocol's own keys, those of the actions only   *)
(* after they are known to be actions.  It accepts exactly the protocol: a *)
(* check passes just when the protocol's demands on its value are met, so  *)
(* no argument relies on what another one checks.  The path and the line   *)
(* of a failure lead to one place.  And the requirements come out in the   *)
(* protocol's order, each with the path that leads to it: they are a part  *)
(* of each fixed scope and of each pair of the lifecycle, one after the    *)
(* other, and the parts' own paths tell which of two comes first.          *)
(*                                                                         *)
(* One thing about release_value(): of every text, whatever its length, it *)
(* accepts the canonical writing of a 32-bit number that is not zero, and  *)
(* nothing else.                                                           *)
(***************************************************************************)
EXTENDS RecipeParser, ReleaseValue, ProtocolProofs

(* The checks of recipe_fields.cpp that build no provenance.               *)
LEMMA ProgramContained ==
  ASSUME NEW value, NEW path
  PROVE  Contained(Program(value, path))
<1>1. Contained(RequiredKeys(value, <<"language", "script">>, path))
  BY KeysRequired
<1> QED
  BY <1>1, KeysContained, TextContained, ScalarContained, PlainChecks, Sequenced DEF Program

(* An action passes only with a key that is safe.                          *)
LEMMA ActionContained ==
  ASSUME NEW key, NEW path
  PROVE  /\ Contained(Action(key, path))
         /\ Action(key, path) = OK => key.scalar \in SafeKeys
BY TextContained, RecipeKeysSafe DEF Action, Actions

(* The programs of the lifecycle, the sources and the architectures.       *)
LEMMA LifecycleContained ==
  ASSUME NEW value, NEW path
  PROVE  Contained(Lifecycle(value, path))
<1> DEFINE Check(key, program, at) == Action(key, at) ?? Program(program, at)
           checks == [i \in 1 .. Len(value.children) \div 2 |->
                        LET key == value.children[2 * i - 1]
                        IN  Check(key, value.children[2 * i], ChildPath(path, key.scalar))]
<1>1. \A key, program, at : Contained(Check(key, program, at))
  BY ActionContained, ProgramContained, Sequenced
<1>2. DOMAIN checks \subseteq Nat
  BY Indices
<1>3. \A i \in DOMAIN checks : Contained(checks[i])
  <2> HIDE DEF Check
  <2> QED BY <1>1
<1> HIDE DEF checks
<1>4. Contained(FirstOf(checks))
  BY <1>2, <1>3, AllContained
<1> QED BY <1>4, PlainChecks, Sequenced DEF checks, Lifecycle, EachPair

LEMMA SourceContained ==
  ASSUME NEW entry, NEW path
  PROVE  Contained(Source(entry, path))
<1>1. Contained(RequiredKeys(entry, <<"name", "sha256">>, path))
  BY KeysRequired
<1>2. Contained(IF OneOf(entry, "url", "path") THEN OK
                ELSE Failure("invalid_value", path, entry))
  BY DEF Contained, ErrorCodes, Failure, OK
<1>3. Contained(IfPresent(entry, "unpack",
                   LAMBDA v : RequireText(v, {"archive"}, ChildPath(path, "unpack"))))
  BY TextContained, PlainChecks DEF IfPresent
<1> QED
  BY <1>1, <1>2, <1>3, KeysContained, ScalarContained, PlainChecks, Sequenced DEF Source

LEMMA SourcesContained ==
  ASSUME NEW value, NEW path
  PROVE  Contained(EachItem(value, path, Source))
<1> DEFINE checks == [i \in 1 .. Len(value.children) |->
                        Source(value.children[i], NthPath(path, i))]
<1>1. DOMAIN checks \subseteq Nat /\ \A i \in DOMAIN checks : Contained(checks[i])
  BY SourceContained
<1> HIDE DEF checks
<1>2. Contained(FirstOf(checks))
  BY <1>1, AllContained
<1> QED BY <1>2, PlainChecks, Sequenced DEF checks, EachItem

LEMMA ArchitectureListContained ==
  ASSUME NEW value, NEW path
  PROVE  Contained(EachItem(value, path, Architecture))
<1> DEFINE checks == [i \in 1 .. Len(value.children) |->
                        Architecture(value.children[i], NthPath(path, i))]
<1>1. DOMAIN checks \subseteq Nat /\ \A i \in DOMAIN checks : Contained(checks[i])
  BY PlainChecks, Sequenced DEF Architecture
<1> HIDE DEF checks
<1>2. Contained(FirstOf(checks))
  BY <1>1, AllContained
<1> QED BY <1>2, PlainChecks, Sequenced DEF checks, EachItem

LEMMA ArchitecturesContained ==
  ASSUME NEW value, NEW path
  PROVE  Contained(Architectures(value, path))
<1> DEFINE checks == [i \in 1 .. 2 |->
             LET key == <<"build", "target">>[i]
             IN  IfPresent(value, key,
                           LAMBDA list : EachItem(list, ChildPath(path, key), Architecture))]
<1>1. \A i \in DOMAIN checks : Contained(checks[i])
  BY ArchitectureListContained, PlainChecks DEF IfPresent
<1>2. DOMAIN checks \subseteq Nat
  BY Indices
<1> HIDE DEF checks
<1>3. Contained(FirstOf(checks))
  BY <1>1, <1>2, AllContained
<1> QED BY <1>3, KeysContained, PlainChecks, Sequenced DEF checks, Architectures

(* Both readings of the package.                                           *)
LEMMA PackageContained ==
  ASSUME NEW package, NEW path
  PROVE  Contained(PackageRelease(package, path)) /\ Contained(PackageMetadata(package, path))
<1>1. /\ Contained(RequiredKeys(package, <<"name", "version", "release">>, path))
      /\ Contained(RequiredKeys(package, <<"summary", "licenses">>, path))
  BY KeysRequired
<1>2. Contained(PackageRelease(package, path))
  BY <1>1, KeysContained, TextContained, ScalarContained, PlainChecks, Sequenced
     DEF PackageRelease
<1> DEFINE licenses == FindKey(package, "licenses")
           at == ChildPath(path, "licenses")
           checks == [i \in 1 .. Len(licenses.children) |->
                        Scalar(licenses.children[i], NthPath(at, i))]
<1>3. DOMAIN checks \subseteq Nat /\ \A i \in DOMAIN checks : Contained(checks[i])
  BY PlainChecks DEF Scalar
<1>4. Contained(FirstOf(checks))
  <2> HIDE DEF checks
  <2> QED BY <1>3, AllContained
<1>5. Contained(EachItem(licenses, at, Scalar))
  BY <1>4, PlainChecks, Sequenced DEF EachItem
<1>6. /\ Contained(IfPresent(package, "description",
                       LAMBDA v : Scalar(v, ChildPath(path, "description"))))
      /\ Contained(IfPresent(package, "homepage",
                       LAMBDA v : Scalar(v, ChildPath(path, "homepage"))))
  BY PlainChecks DEF IfPresent, Scalar
<1>7. Contained(PackageMetadata(package, path))
  BY <1>1, <1>5, <1>6, ScalarContained, PlainChecks, Sequenced DEF PackageMetadata
<1> QED BY <1>2, <1>7

-----------------------------------------------------------------------------
(* The requirements, whose provenances are not guarded.                    *)
LEMMA SequenceContained ==
  ASSUME NEW value, NEW path, SafePath(path)
  PROVE  Contained(RequirementSequence(value, path))
<1> DEFINE Check(item, at) == Subject(item, at) ?? Provenance(at, item)
           checks == [i \in 1 .. Len(value.children) |->
                        Check(value.children[i], NthPath(path, i))]
<1>1. \A i, item : Contained(Check(item, NthPath(path, i)))
  <2>1. \A i : SafePath(NthPath(path, i))
    BY ItemSafe DEF NthPath
  <2> QED BY <2>1, ProvenancePasses, SubjectContained, PlainChecks, Sequenced
<1>2. DOMAIN checks \subseteq Nat /\ \A i \in DOMAIN checks : Contained(checks[i])
  <2> HIDE DEF Check
  <2> QED BY <1>1
<1> HIDE DEF checks
<1>3. Contained(FirstOf(checks))
  BY <1>2, AllContained
<1> QED BY <1>3, PlainChecks, Sequenced DEF checks, RequirementSequence, EachItem

(* A scope of the lifecycle: its path is used when the action is known.    *)
LEMMA ScopeContained ==
  ASSUME NEW key, NEW subjects, NEW path, SafePath(path)
  PROVE  Contained(LifecycleScope(key, subjects, ChildPath(path, key.scalar)))
BY ActionContained, ChildSafe, SequenceContained, Sequenced DEF LifecycleScope

LEMMA ScopesContained ==
  ASSUME NEW m, NEW path, SafePath(path)
  PROVE  Contained(EachPair(m, path, LifecycleScope))
<1> DEFINE checks == [i \in 1 .. Len(m.children) \div 2 |->
                        LET key == m.children[2 * i - 1]
                        IN  LifecycleScope(key, m.children[2 * i], ChildPath(path, key.scalar))]
<1>1. DOMAIN checks \subseteq Nat /\ \A i \in DOMAIN checks : Contained(checks[i])
  BY ScopeContained, Indices
<1> HIDE DEF checks
<1>2. Contained(FirstOf(checks))
  BY <1>1, AllContained
<1> QED BY <1>2, PlainChecks, Sequenced DEF checks, EachPair

(* All scopes, in their order.                                             *)
LEMMA RequirementsContained ==
  ASSUME NEW value, NEW path, SafePath(path)
  PROVE  Contained(Requirements(value, path))
<1> DEFINE checks == [i \in DOMAIN Scopes |->
             IfPresent(value, Scopes[i],
                       LAMBDA list : RequirementSequence(list, ChildPath(path, Scopes[i])))]
<1>1. ASSUME NEW i \in DOMAIN Scopes PROVE Contained(checks[i])
  <2>1. Scopes[i] \in SafeKeys
    BY RecipeKeysSafe DEF Scopes
  <2>2. SafePath(ChildPath(path, Scopes[i]))
    BY <2>1, ChildSafe
  <2> QED BY <2>2, SequenceContained, PlainChecks DEF IfPresent
<1>2. DOMAIN checks \subseteq Nat
  BY DEF Scopes
<1>3. Contained(FirstOf(checks))
  <2> HIDE DEF checks
  <2> SUFFICES \A i \in DOMAIN checks : Contained(checks[i])
    BY <1>2, AllContained
  <2> QED BY <1>1 DEF checks
<1>4. Contained(IfPresent(value, "lifecycle",
                   LAMBDA m : EachPair(m, ChildPath(path, "lifecycle"), LifecycleScope)))
  <2>1. SafePath(ChildPath(path, "lifecycle"))
    BY ChildSafe, RecipeKeysSafe
  <2> QED BY <2>1, ScopesContained, PlainChecks DEF IfPresent
<1> QED BY <1>3, <1>4, KeysContained, Sequenced DEF Requirements

-----------------------------------------------------------------------------
(* Every argument of recipe_declaration's constructor, whichever is next.  *)
LEMMA ArgumentContained ==
  ASSUME NEW argument \in Arguments
  PROVE  Contained(ArgumentCheck(argument))
<1> DEFINE value == FindKey(doc, argument)
           path  == PathTo(argument)
<1>1. argument \in SafeKeys => SafePath(path)
  BY RootSafe, ChildSafe DEF PathTo
<1>2. CASE argument = "release"
  BY <1>2, PackageContained DEF ArgumentCheck
<1>3. CASE argument = "metadata"
  BY <1>3, PackageContained DEF ArgumentCheck
<1>4. CASE argument = "sources"
  BY <1>4, SourcesContained DEF ArgumentCheck
<1>5. CASE argument = "build"
  BY <1>5, ProgramContained DEF ArgumentCheck
<1>6. CASE argument = "requirements"
  BY <1>1, <1>6, RequirementsContained, RecipeKeysSafe DEF ArgumentCheck
<1>7. CASE argument = "architectures"
  BY <1>7, ArchitecturesContained, PlainChecks DEF ArgumentCheck, IfPresent
<1>8. CASE argument = "provenance"
  <2>1. SafePath(PathTo("document"))
    BY RootSafe, ChildSafe, RecipeKeysSafe DEF PathTo
  <2> QED BY <1>8, <2>1, ProvenancePasses, PlainChecks DEF ArgumentCheck
<1> QED BY <1>2, <1>3, <1>4, <1>5, <1>6, <1>7, <1>8 DEF Arguments

-----------------------------------------------------------------------------
(* What the checks of recipe_fields.cpp ask of a value: no more and no     *)
(* less than the protocol, whatever came before them.                      *)
LEMMA Asked ==
  /\ \A m, key : HasKey(m, key) <=> key \in KeySet(m)
  /\ \A value, path : Scalar(value, path) = OK <=> value.kind = "scalar"
  /\ \A m, key, path : ScalarAt(m, key, path) = OK <=> FindKey(m, key).kind = "scalar"
BY PlainPasses DEF HasKey, KeySet, Scalar, ScalarAt

LEMMA ProgramPasses ==
  ASSUME NEW value, NEW path
  PROVE  Program(value, path) = OK <=> IsProgram(value)
<1>1. AllowKeys(value, path, {"language", "script"}) = OK
        <=> value.kind = "mapping" /\ KeySet(value) \subseteq {"language", "script"}
  BY KeysPass
<1>2. RequiredKeys(value, <<"language", "script">>, path) = OK
        <=> {"language", "script"} \subseteq KeySet(value)
  BY RequiredPass
<1>3. RequireText(FindKey(value, "language"), {"posix-shell"}, ChildPath(path, "language")) = OK
        <=> IsText(FindKey(value, "language"), {"posix-shell"})
  BY PlainPasses
<1>4. ASSUME "script" \in KeySet(value)
      PROVE  Semantic(Wellformed(value, {"script"}), ChildPath(path, "script"),
                      FindKey(value, "script")) = OK
               <=> FindKey(value, "script").scalar \in Values
  BY <1>4, FailurePasses, Asked DEF Semantic, Wellformed
<1> QED BY <1>1, <1>2, <1>3, <1>4, Asked, BothPass DEF Program, IsProgram, IsTable, IsValue, IsText

(* A mapping from actions, read pair by pair.                              *)
LEMMA PairByPair ==
  ASSUME NEW m \in Nodes, m.kind = "mapping", NEW sound
  PROVE  KeySet(m) \subseteq Actions /\ (\A key \in Actions \intersect KeySet(m) : FindKey(m, key) \in sound)
           <=> \A i \in 1 .. Len(m.children) \div 2 :
                 IsText(m.children[2 * i - 1], Actions) /\ m.children[2 * i] \in sound
<1> DEFINE turns == 1 .. Len(m.children) \div 2
           key(i) == m.children[2 * i - 1]
           value(i) == m.children[2 * i]
<1>1. /\ \A i \in turns : /\ key(i).kind = "scalar" /\ key(i).scalar \in KeySet(m)
                          /\ FindKey(m, key(i).scalar) = value(i)
      /\ \A k \in KeySet(m) : \E i \in turns : key(i).scalar = k
  BY Pairs
<1> HIDE DEF turns, key, value
<1>2. KeySet(m) \subseteq Actions /\ (\A k \in Actions \intersect KeySet(m) : FindKey(m, k) \in sound)
        <=> \A i \in turns : IsText(key(i), Actions) /\ value(i) \in sound
  BY <1>1 DEF IsText
<1> QED BY <1>2 DEF turns, key, value

LEMMA LifecyclePasses ==
  ASSUME NEW value \in Nodes, NEW path
  PROVE  Lifecycle(value, path) = OK <=> ByAction(value, IsProgram)
<1> DEFINE Check(key, program, at) == Action(key, at) ?? Program(program, at)
           half == Len(value.children) \div 2
           checks == [i \in 1 .. half |->
                        LET key == value.children[2 * i - 1]
                        IN  Check(key, value.children[2 * i], ChildPath(path, key.scalar))]
           sound == {n \in Nodes : IsProgram(n)}
<1>1. \A key, program, at : Check(key, program, at) = OK
                              <=> IsText(key, Actions) /\ IsProgram(program)
  BY ProgramPasses, PlainPasses, BothPass DEF Action
<1>2. \A i \in 1 .. half : checks[i] = OK
        <=> IsText(value.children[2 * i - 1], Actions) /\ IsProgram(value.children[2 * i])
  <2> HIDE DEF Check
  <2> QED BY <1>1
<1>3. Lifecycle(value, path) = OK
        <=> value.kind = "mapping" /\ \A i \in 1 .. half : checks[i] = OK
  <2>1. Lifecycle(value, path) = RequireKind(value, "mapping", path) ?? FirstOf(checks)
    BY DEF Lifecycle, EachPair
  <2>2. DOMAIN checks = 1 .. half
    OBVIOUS
  <2> HIDE DEF checks
  <2> QED BY <2>1, <2>2, PairsPass
<1>4. ASSUME value.kind = "mapping"
      PROVE  /\ \A key \in KeySet(value) : FindKey(value, key) \in Nodes
             /\ \A i \in 1 .. half : value.children[2 * i] \in Nodes
  BY <1>4, ValueIsNode, Pairs
<1>5. ASSUME value.kind = "mapping"
      PROVE  KeySet(value) \subseteq Actions
               /\ (\A key \in Actions \intersect KeySet(value) : FindKey(value, key) \in sound)
               <=> \A i \in 1 .. half :
                     IsText(value.children[2 * i - 1], Actions) /\ value.children[2 * i] \in sound
  <2> HIDE DEF sound
  <2> QED BY <1>5, PairByPair
<1> HIDE DEF checks, half
<1> QED BY <1>2, <1>3, <1>4, <1>5 DEF ByAction, IsTable, Given

LEMMA SourcePasses ==
  ASSUME NEW entry, NEW path
  PROVE  Source(entry, path) = OK <=> IsSource(entry)
<1> DEFINE locator == IF HasKey(entry, "url") THEN "url" ELSE "path"
           allowed == {"url", "path", "name", "unpack", "sha256"}
           unpack  == IfPresent(entry, "unpack",
                        LAMBDA v : RequireText(v, {"archive"}, ChildPath(path, "unpack")))
           one     == IF OneOf(entry, "url", "path") THEN OK
                        ELSE Failure("invalid_value", path, entry)
           digest  == Semantic(Wellformed(entry, {"sha256"}), ChildPath(path, "sha256"),
                               FindKey(entry, "sha256"))
           rest    == Semantic(Wellformed(entry, {"name", locator}), path, entry)
           Text(key) == IsText(FindKey(entry, key), Values)
<1>1. AllowKeys(entry, path, allowed) = OK <=> entry.kind = "mapping" /\ KeySet(entry) \subseteq allowed
  BY KeysPass
<1>2. RequiredKeys(entry, <<"name", "sha256">>, path) = OK <=> {"name", "sha256"} \subseteq KeySet(entry)
  BY RequiredPass
<1>3. unpack = OK <=> ("unpack" \in KeySet(entry) => IsText(FindKey(entry, "unpack"), {"archive"}))
  BY PlainPasses, Asked DEF IfPresent
<1>4. one = OK <=> ~("url" \in KeySet(entry) <=> "path" \in KeySet(entry))
  <2>1. OneOf(entry, "url", "path") <=> ~("url" \in KeySet(entry) <=> "path" \in KeySet(entry))
    BY Asked DEF OneOf, HasKey
  <2> QED BY <2>1, FailurePasses
<1>5. digest = OK <=> ("sha256" \in KeySet(entry) => FindKey(entry, "sha256").scalar \in Values)
  BY FailurePasses, Asked DEF Semantic, Wellformed
<1>6. rest = OK <=> \A key \in {"name", locator} \intersect KeySet(entry) : FindKey(entry, key).scalar \in Values
  BY FailurePasses, Asked DEF Semantic, Wellformed
<1>7. Source(entry, path) = OK
        <=> /\ AllowKeys(entry, path, allowed) = OK /\ one = OK
            /\ RequiredKeys(entry, <<"name", "sha256">>, path) = OK /\ unpack = OK
            /\ ScalarAt(entry, "name", path) = OK /\ ScalarAt(entry, "sha256", path) = OK
            /\ digest = OK /\ ScalarAt(entry, locator, path) = OK /\ rest = OK
  <2> HIDE DEF locator, one, unpack, digest, rest
  <2>1. Source(entry, path) =
          AllowKeys(entry, path, allowed) ?? one
            ?? RequiredKeys(entry, <<"name", "sha256">>, path) ?? unpack
            ?? ScalarAt(entry, "name", path) ?? ScalarAt(entry, "sha256", path)
            ?? digest ?? ScalarAt(entry, locator, path) ?? rest
    BY DEF Source, locator, one, unpack, digest, rest
  <2> QED BY <2>1, BothPass
<1>8. locator = IF "url" \in KeySet(entry) THEN "url" ELSE "path"
  BY Asked
<1>9. IsSource(entry)
        <=> /\ entry.kind = "mapping" /\ KeySet(entry) \subseteq allowed
            /\ {"name", "sha256"} \subseteq KeySet(entry)
            /\ ~("url" \in KeySet(entry) <=> "path" \in KeySet(entry))
            /\ \A key \in {"url", "path", "name", "sha256"} \intersect KeySet(entry) : Text(key)
            /\ "unpack" \in KeySet(entry) => IsText(FindKey(entry, "unpack"), {"archive"})
  BY DEF IsSource, IsTable, Given, IsValue
<1> HIDE DEF locator, one, unpack, digest, rest
<1>10. ASSUME KeySet(entry) \subseteq allowed, {"name", "sha256"} \subseteq KeySet(entry),
              ~("url" \in KeySet(entry) <=> "path" \in KeySet(entry))
       PROVE  {"url", "path", "name", "sha256"} \intersect KeySet(entry) = {"name", "sha256", locator}
  BY <1>8, <1>10
<1> QED BY <1>1, <1>2, <1>3, <1>4, <1>5, <1>6, <1>7, <1>9, <1>10, Asked DEF IsText

LEMMA ArchitecturesPass ==
  ASSUME NEW value \in Nodes, NEW path
  PROVE  Architectures(value, path) = OK
           <=> /\ IsTable(value, {}, {"build", "target"})
               /\ Given(value, {"build", "target"},
                        LAMBDA list : Each(list, IsValue) /\ Distinct(list))
<1> DEFINE names == <<"build", "target">>
           checks == [i \in 1 .. 2 |->
             LET key == names[i]
             IN  IfPresent(value, key,
                           LAMBDA list : EachItem(list, ChildPath(path, key), Architecture))]
           once == \A key \in KeySet(value) : Distinct(FindKey(value, key))
           last == Semantic(\A key \in KeySet(value) :
                              IsInjective([i \in DOMAIN FindKey(value, key).children |->
                                             FindKey(value, key).children[i].scalar]),
                            path, value)
<1>1. \A v, at : Architecture(v, at) = OK <=> IsValue(v)
  BY FailurePasses, PlainPasses, BothPass DEF Architecture, Semantic, IsValue, IsText
<1>2. ASSUME NEW list \in Nodes, NEW at
      PROVE  EachItem(list, at, Architecture) = OK <=> Each(list, IsValue)
  <2> DEFINE each == [i \in 1 .. Len(list.children) |->
                        Architecture(list.children[i], NthPath(at, i))]
  <2>1. EachItem(list, at, Architecture) = RequireKind(list, "sequence", at) ?? FirstOf(each)
    BY DEF EachItem
  <2>2. \A i \in 1 .. Len(list.children) : each[i] = OK <=> IsValue(list.children[i])
    BY <1>1
  <2>3. DOMAIN each = 1 .. Len(list.children)
    OBVIOUS
  <2> HIDE DEF each
  <2>4. /\ DOMAIN list.children = 1 .. Len(list.children)
        /\ (RequireKind(list, "sequence", at) ?? FirstOf(each)) = OK
             <=> list.kind = "sequence" /\ \A i \in DOMAIN list.children : each[i] = OK
    BY <2>3, ItemsPass
  <2> QED BY <2>1, <2>2, <2>4 DEF Each
<1>3. AllowKeys(value, path, {"build", "target"}) = OK <=> IsTable(value, {}, {"build", "target"})
  BY KeysPass DEF IsTable
<1>4. ASSUME value.kind = "mapping", NEW i \in 1 .. 2
      PROVE  checks[i] = OK <=> (names[i] \in KeySet(value) => Each(FindKey(value, names[i]), IsValue))
  <2>1. ASSUME names[i] \in KeySet(value)
        PROVE  EachItem(FindKey(value, names[i]), ChildPath(path, names[i]), Architecture) = OK
                 <=> Each(FindKey(value, names[i]), IsValue)
    BY <1>2, <1>4, <2>1, ValueIsNode
  <2> HIDE DEF names
  <2> QED BY <2>1, Asked DEF IfPresent
<1>5. FirstOf(checks) = OK <=> checks[1] = OK /\ checks[2] = OK
  <2>1. DOMAIN checks = {1, 2}
    OBVIOUS
  <2> HIDE DEF checks
  <2> QED BY <2>1, AllPass
<1>6. last = OK <=> once
  BY FailurePasses DEF Semantic, Distinct
<1>7. Architectures(value, path) = OK
        <=> AllowKeys(value, path, {"build", "target"}) = OK /\ FirstOf(checks) = OK /\ last = OK
  <2>1. Architectures(value, path) =
          AllowKeys(value, path, {"build", "target"}) ?? FirstOf(checks) ?? last
    BY DEF Architectures
  <2> HIDE DEF checks, last
  <2> QED BY <2>1, BothPass
<1>8. FirstOf(checks) = OK /\ value.kind = "mapping" /\ KeySet(value) \subseteq {"build", "target"}
        => \A key \in KeySet(value) : Each(FindKey(value, key), IsValue)
  <2>1. names[1] = "build" /\ names[2] = "target"
    OBVIOUS
  <2> HIDE DEF checks, names
  <2> QED BY <1>4, <1>5, <2>1
<1>9. value.kind = "mapping"
        /\ (\A key \in {"build", "target"} \intersect KeySet(value) : Each(FindKey(value, key), IsValue))
        => FirstOf(checks) = OK
  <2>1. names[1] = "build" /\ names[2] = "target"
    OBVIOUS
  <2> HIDE DEF checks, names
  <2> QED BY <1>4, <1>5, <2>1
<1> HIDE DEF checks, last
<1> QED BY <1>3, <1>6, <1>7, <1>8, <1>9 DEF IsTable, Given

LEMMA SourcesPass ==
  ASSUME NEW value \in Nodes, NEW path
  PROVE  EachItem(value, path, Source) = OK <=> Each(value, IsSource)
<1> DEFINE checks == [i \in 1 .. Len(value.children) |->
                        Source(value.children[i], NthPath(path, i))]
<1>1. EachItem(value, path, Source) = RequireKind(value, "sequence", path) ?? FirstOf(checks)
  BY DEF EachItem
<1>2. \A i \in 1 .. Len(value.children) : checks[i] = OK <=> IsSource(value.children[i])
  BY SourcePasses
<1>3. DOMAIN checks = 1 .. Len(value.children)
  OBVIOUS
<1> HIDE DEF checks
<1>4. /\ DOMAIN value.children = 1 .. Len(value.children)
      /\ (RequireKind(value, "sequence", path) ?? FirstOf(checks)) = OK
           <=> value.kind = "sequence" /\ \A i \in DOMAIN value.children : checks[i] = OK
  BY <1>3, ItemsPass
<1> QED BY <1>1, <1>2, <1>4 DEF Each

(* The package is read twice, and only the first reading refuses keys.     *)
LEMMA PackagePasses ==
  ASSUME NEW package \in Nodes, NEW path
  PROVE  PackageRelease(package, path) = OK /\ PackageMetadata(package, path) = OK
           <=> IsPackage(package)
<1> DEFINE keys == {"name", "version", "release", "summary", "description", "homepage", "licenses"}
           named == Semantic(/\ ReferenceAdmitted("package", FindKey(package, "name").scalar)
                             /\ Wellformed(package, {"version"}), path, package)
           node(key) == FindKey(package, key)
<1>1. PackageRelease(package, path) = OK
        <=> /\ package.kind = "mapping" /\ KeySet(package) \subseteq keys
            /\ {"name", "version", "release"} \subseteq KeySet(package)
            /\ IsText(node("name"), PackageNames)
            /\ IsText(node("version"), Values)
            /\ IsText(node("release"), Releases)
  <2>1. AllowKeys(package, path, keys) = OK <=> package.kind = "mapping" /\ KeySet(package) \subseteq keys
    BY KeysPass
  <2>2. RequiredKeys(package, <<"name", "version", "release">>, path) = OK
          <=> {"name", "version", "release"} \subseteq KeySet(package)
    BY RequiredPass
  <2>3. RequireText(node("release"), Releases, ChildPath(path, "release")) = OK
          <=> IsText(node("release"), Releases)
    BY PlainPasses
  <2>4. named = OK <=> /\ node("name").scalar \in PackageNames
                       /\ "version" \in KeySet(package) => node("version").scalar \in Values
    BY FailurePasses, Asked DEF Semantic, Wellformed, ReferenceAdmitted
  <2>5. PackageRelease(package, path) =
          AllowKeys(package, path, keys)
            ?? RequiredKeys(package, <<"name", "version", "release">>, path)
            ?? ScalarAt(package, "name", path) ?? ScalarAt(package, "version", path)
            ?? RequireText(node("release"), Releases, ChildPath(path, "release")) ?? named
    BY DEF PackageRelease
  <2> HIDE DEF keys, named
  <2> QED BY <2>1, <2>2, <2>3, <2>4, <2>5, Asked, BothPass DEF IsText
<1> DEFINE licenses == node("licenses")
           at == ChildPath(path, "licenses")
           checks == [i \in 1 .. Len(licenses.children) |->
                        Scalar(licenses.children[i], NthPath(at, i))]
           lists == RequireKind(licenses, "sequence", at) ?? FirstOf(checks)
           rest == Semantic(/\ Wellformed(package, {"summary", "description", "homepage"})
                            /\ \A i \in DOMAIN licenses.children :
                                 licenses.children[i].scalar \in Values, path, package)
           optional(key) == IfPresent(package, key, LAMBDA v : Scalar(v, ChildPath(path, key)))
<1>2. \A key : optional(key) = OK <=> (key \in KeySet(package) => node(key).kind = "scalar")
  BY Asked DEF IfPresent
<1>3. RequiredKeys(package, <<"summary", "licenses">>, path) = OK
        <=> {"summary", "licenses"} \subseteq KeySet(package)
  BY RequiredPass
<1>4. rest = OK
        <=> /\ \A key \in {"summary", "description", "homepage"} \intersect KeySet(package) :
                 node(key).scalar \in Values
            /\ \A i \in DOMAIN licenses.children : licenses.children[i].scalar \in Values
  BY FailurePasses, Asked DEF Semantic, Wellformed
<1>5. PackageMetadata(package, path) = OK
        <=> /\ RequiredKeys(package, <<"summary", "licenses">>, path) = OK
            /\ ScalarAt(package, "summary", path) = OK
            /\ optional("description") = OK /\ optional("homepage") = OK
            /\ lists = OK /\ rest = OK
  <2>1. PackageMetadata(package, path) =
          RequiredKeys(package, <<"summary", "licenses">>, path) ?? ScalarAt(package, "summary", path)
            ?? optional("description") ?? optional("homepage") ?? lists ?? rest
    BY DEF PackageMetadata, EachItem
  <2> HIDE DEF optional, lists, rest
  <2> QED BY <2>1, BothPass
<1>6. ASSUME package.kind = "mapping", "licenses" \in KeySet(package)
      PROVE  lists = OK <=> /\ licenses.kind = "sequence"
                            /\ \A i \in DOMAIN licenses.children : licenses.children[i].kind = "scalar"
  <2>1. licenses \in Nodes
    BY <1>6, ValueIsNode
  <2>2. \A i \in 1 .. Len(licenses.children) : checks[i] = OK <=> licenses.children[i].kind = "scalar"
    BY Asked
  <2>3. DOMAIN checks = 1 .. Len(licenses.children)
    OBVIOUS
  <2> HIDE DEF checks, licenses
  <2>4. /\ DOMAIN licenses.children = 1 .. Len(licenses.children)
        /\ lists = OK <=> licenses.kind = "sequence" /\ \A i \in DOMAIN licenses.children : checks[i] = OK
    BY <2>1, <2>3, ItemsPass
  <2> QED BY <2>2, <2>4
<1>7. IsPackage(package)
        <=> /\ package.kind = "mapping" /\ KeySet(package) \subseteq keys
            /\ {"name", "version", "release", "summary", "licenses"} \subseteq KeySet(package)
            /\ IsText(node("name"), PackageNames) /\ IsText(node("release"), Releases)
            /\ \A key \in {"version", "summary", "description", "homepage"} \intersect KeySet(package) :
                 IsText(node(key), Values)
            /\ licenses.kind = "sequence"
            /\ \A i \in DOMAIN licenses.children : IsText(licenses.children[i], Values)
  BY DEF IsPackage, IsTable, Given, Each, IsValue
<1> HIDE DEF optional, lists, rest, licenses, keys
<1> QED BY <1>1, <1>2, <1>3, <1>4, <1>5, <1>6, <1>7, Asked DEF IsText, licenses

(* A list of subjects: the provenances in it pass when its path is safe.   *)
LEMMA SequencePasses ==
  ASSUME NEW value \in Nodes, NEW path, SafePath(path)
  PROVE  RequirementSequence(value, path) = OK <=> Subjects(value)
<1> DEFINE Check(item, at) == Subject(item, at) ?? Provenance(at, item)
           checks == [i \in 1 .. Len(value.children) |->
                        Check(value.children[i], NthPath(path, i))]
<1>1. \A i, item : Check(item, NthPath(path, i)) = OK <=> IsSubject(item)
  <2>1. \A i : SafePath(NthPath(path, i))
    BY ItemSafe DEF NthPath
  <2> QED BY <2>1, ProvenancePasses, SubjectPasses, BothPass
<1>2. RequirementSequence(value, path) = RequireKind(value, "sequence", path) ?? FirstOf(checks)
  BY DEF RequirementSequence, EachItem
<1>3. \A i \in 1 .. Len(value.children) : checks[i] = OK <=> IsSubject(value.children[i])
  <2> HIDE DEF Check
  <2> QED BY <1>1
<1>4. DOMAIN checks = 1 .. Len(value.children)
  OBVIOUS
<1> HIDE DEF checks
<1>5. /\ DOMAIN value.children = 1 .. Len(value.children)
      /\ (RequireKind(value, "sequence", path) ?? FirstOf(checks)) = OK
           <=> value.kind = "sequence" /\ \A i \in DOMAIN value.children : checks[i] = OK
  BY <1>4, ItemsPass
<1> QED BY <1>2, <1>3, <1>5 DEF Subjects, Each

LEMMA ScopePasses ==
  ASSUME NEW key, NEW subjects \in Nodes, NEW path, SafePath(path)
  PROVE  LifecycleScope(key, subjects, ChildPath(path, key.scalar)) = OK
           <=> IsText(key, Actions) /\ Subjects(subjects)
<1>1. Action(key, ChildPath(path, key.scalar)) = OK <=> IsText(key, Actions)
  BY PlainPasses DEF Action
<1>2. ASSUME IsText(key, Actions)
      PROVE  SafePath(ChildPath(path, key.scalar))
  BY <1>2, ChildSafe, RecipeKeysSafe DEF IsText, Actions
<1> QED BY <1>1, <1>2, SequencePasses, BothPass DEF LifecycleScope

LEMMA ScopesPass ==
  ASSUME NEW m \in Nodes, NEW path, SafePath(path)
  PROVE  EachPair(m, path, LifecycleScope) = OK <=> ByAction(m, Subjects)
<1> DEFINE half == Len(m.children) \div 2
           checks == [i \in 1 .. half |->
                        LET key == m.children[2 * i - 1]
                        IN  LifecycleScope(key, m.children[2 * i], ChildPath(path, key.scalar))]
           sound == {n \in Nodes : Subjects(n)}
<1>1. EachPair(m, path, LifecycleScope) = OK
        <=> m.kind = "mapping" /\ \A i \in 1 .. half : checks[i] = OK
  <2>1. EachPair(m, path, LifecycleScope) = RequireKind(m, "mapping", path) ?? FirstOf(checks)
    BY DEF EachPair
  <2>2. DOMAIN checks = 1 .. half
    OBVIOUS
  <2> HIDE DEF checks
  <2> QED BY <2>1, <2>2, PairsPass
<1>2. ASSUME m.kind = "mapping"
      PROVE  /\ \A key \in KeySet(m) : FindKey(m, key) \in Nodes
             /\ \A i \in 1 .. half : m.children[2 * i] \in Nodes
  BY <1>2, ValueIsNode, Pairs
<1>3. ASSUME m.kind = "mapping", NEW i \in 1 .. half
      PROVE  checks[i] = OK <=> IsText(m.children[2 * i - 1], Actions) /\ m.children[2 * i] \in sound
  <2> DEFINE key == m.children[2 * i - 1]
             list == m.children[2 * i]
  <2>1. checks[i] = LifecycleScope(key, list, ChildPath(path, key.scalar))
    OBVIOUS
  <2>2. list \in Nodes
    BY <1>2, <1>3
  <2> HIDE DEF checks, key, list
  <2>3. checks[i] = OK <=> IsText(key, Actions) /\ list \in sound
    BY <2>1, <2>2, ScopePasses
  <2> QED BY <2>3 DEF key, list
<1>4. ASSUME m.kind = "mapping"
      PROVE  KeySet(m) \subseteq Actions
               /\ (\A key \in Actions \intersect KeySet(m) : FindKey(m, key) \in sound)
               <=> \A i \in 1 .. half :
                     IsText(m.children[2 * i - 1], Actions) /\ m.children[2 * i] \in sound
  <2> HIDE DEF sound
  <2> QED BY <1>4, PairByPair
<1> HIDE DEF checks, half
<1> QED BY <1>1, <1>2, <1>3, <1>4 DEF ByAction, IsTable, Given

(* The paths of the scopes are the protocol's own.                         *)
LEMMA RequirementsPass ==
  ASSUME NEW value \in Nodes, NEW path, SafePath(path)
  PROVE  Requirements(value, path) = OK
           <=> /\ IsTable(value, {}, {"build", "run", "check", "lifecycle"})
               /\ Given(value, {"build", "run", "check"}, Subjects)
               /\ Given(value, {"lifecycle"}, LAMBDA v : ByAction(v, Subjects))
<1> DEFINE keys == {"build", "run", "check", "lifecycle"}
           checks == [i \in DOMAIN Scopes |->
             IfPresent(value, Scopes[i],
                       LAMBDA list : RequirementSequence(list, ChildPath(path, Scopes[i])))]
           under == IfPresent(value, "lifecycle",
                      LAMBDA m : EachPair(m, ChildPath(path, "lifecycle"), LifecycleScope))
<1>1. DOMAIN Scopes = {1, 2, 3} /\ Scopes[1] = "build" /\ Scopes[2] = "run" /\ Scopes[3] = "check"
  BY DEF Scopes
<1>2. ASSUME value.kind = "mapping", NEW i \in DOMAIN Scopes
      PROVE  checks[i] = OK <=> (Scopes[i] \in KeySet(value) => Subjects(FindKey(value, Scopes[i])))
  <2>1. SafePath(ChildPath(path, Scopes[i]))
    BY <1>1, ChildSafe, RecipeKeysSafe
  <2>2. ASSUME Scopes[i] \in KeySet(value)
        PROVE  RequirementSequence(FindKey(value, Scopes[i]), ChildPath(path, Scopes[i])) = OK
                 <=> Subjects(FindKey(value, Scopes[i]))
    BY <1>2, <2>1, <2>2, ValueIsNode, SequencePasses
  <2>3. checks[i] = IfPresent(value, Scopes[i],
                      LAMBDA list : RequirementSequence(list, ChildPath(path, Scopes[i])))
    OBVIOUS
  <2> HIDE DEF checks
  <2> QED BY <2>2, <2>3, Asked DEF IfPresent
<1>3. FirstOf(checks) = OK <=> checks[1] = OK /\ checks[2] = OK /\ checks[3] = OK
  <2>1. DOMAIN checks = {1, 2, 3}
    BY <1>1
  <2> HIDE DEF checks
  <2> QED BY <2>1, AllPass
<1>4. ASSUME value.kind = "mapping"
      PROVE  under = OK
               <=> ("lifecycle" \in KeySet(value) => ByAction(FindKey(value, "lifecycle"), Subjects))
  <2>1. SafePath(ChildPath(path, "lifecycle"))
    BY ChildSafe, RecipeKeysSafe
  <2> QED BY <1>4, <2>1, ValueIsNode, ScopesPass, Asked DEF IfPresent
<1>5. AllowKeys(value, path, keys) = OK <=> value.kind = "mapping" /\ KeySet(value) \subseteq keys
  BY KeysPass
<1>6. Requirements(value, path) = OK
        <=> AllowKeys(value, path, keys) = OK /\ FirstOf(checks) = OK /\ under = OK
  <2>1. Requirements(value, path) = AllowKeys(value, path, keys) ?? FirstOf(checks) ?? under
    BY DEF Requirements
  <2> HIDE DEF checks, under
  <2> QED BY <2>1, BothPass
<1> HIDE DEF checks, under
<1>7. ASSUME value.kind = "mapping"
      PROVE  FirstOf(checks) = OK
               <=> \A key \in {"build", "run", "check"} \intersect KeySet(value) :
                     Subjects(FindKey(value, key))
  BY <1>1, <1>2, <1>3, <1>7
<1> QED BY <1>4, <1>5, <1>6, <1>7 DEF IsTable, Given

-----------------------------------------------------------------------------
(* What the root's check and those of the arguments ask of a document.     *)
IsRequirements(v) ==
  /\ IsTable(v, {}, {"build", "run", "check", "lifecycle"})
  /\ Given(v, {"build", "run", "check"}, Subjects)
  /\ Given(v, {"lifecycle"}, LAMBDA m : ByAction(m, Subjects))

IsArchitectures(v) ==
  /\ IsTable(v, {}, {"build", "target"})
  /\ Given(v, {"build", "target"}, LAMBDA list : Each(list, IsValue) /\ Distinct(list))

RootDemands(d) ==
  /\ IsTable(d, {"format", "package", "requirements", "sources", "build"},
             {"check", "lifecycle", "architectures"})
  /\ IsText(FindKey(d, "format"), {FormatName})
  /\ FindKey(d, "package").kind = "mapping"
  /\ "check" \in KeySet(d) => IsProgram(FindKey(d, "check"))
  /\ "lifecycle" \in KeySet(d) => ByAction(FindKey(d, "lifecycle"), IsProgram)

Demands(d, argument) ==
  /\ argument = "release" => PackageRelease(FindKey(d, "package"), PathTo("package")) = OK
  /\ argument = "metadata" => PackageMetadata(FindKey(d, "package"), PathTo("package")) = OK
  /\ argument = "sources" => Each(FindKey(d, "sources"), IsSource)
  /\ argument = "build" => IsProgram(FindKey(d, "build"))
  /\ argument = "requirements" => IsRequirements(FindKey(d, "requirements"))
  /\ argument = "architectures" /\ "architectures" \in KeySet(d)
       => IsArchitectures(FindKey(d, "architectures"))

LEMMA RootPasses ==
  ASSUME doc \in Nodes
  PROVE  RootCheck = OK <=> RootDemands(doc)
<1> DEFINE keys == {"format", "package", "requirements", "sources", "build",
                    "check", "lifecycle", "architectures"}
           needed == <<"requirements", "sources", "build">>
           check == IfPresent(doc, "check", LAMBDA v : Program(v, PathTo("check")))
           lifecycle == IfPresent(doc, "lifecycle", LAMBDA v : Lifecycle(v, PathTo("lifecycle")))
<1>1. AllowKeys(doc, Root, keys) = OK <=> doc.kind = "mapping" /\ KeySet(doc) \subseteq keys
  BY KeysPass
<1>2. RequireFormat(doc, FormatName) = OK
        <=> "format" \in KeySet(doc) /\ IsText(FindKey(doc, "format"), {FormatName})
  BY FormatPasses
<1>3. RequiredKeys(doc, needed, Root) = OK <=> {"requirements", "sources", "build"} \subseteq KeySet(doc)
  BY RequiredPass
<1>4. check = OK <=> ("check" \in KeySet(doc) => IsProgram(FindKey(doc, "check")))
  BY ProgramPasses, Asked DEF IfPresent
<1>5. ASSUME doc.kind = "mapping"
      PROVE  lifecycle = OK
               <=> ("lifecycle" \in KeySet(doc) => ByAction(FindKey(doc, "lifecycle"), IsProgram))
  BY <1>5, ValueIsNode, LifecyclePasses, Asked DEF IfPresent
<1>6. RequiredKey(doc, "package", Root) = OK <=> "package" \in KeySet(doc)
  BY PlainPasses
<1>7. RequireKind(Package, "mapping", PackagePath) = OK <=> FindKey(doc, "package").kind = "mapping"
  BY PlainPasses DEF Package
<1>8. RootCheck = OK
        <=> /\ AllowKeys(doc, Root, keys) = OK /\ RequireFormat(doc, FormatName) = OK
            /\ RequiredKey(doc, "package", Root) = OK
            /\ RequireKind(Package, "mapping", PackagePath) = OK
            /\ RequiredKeys(doc, needed, Root) = OK /\ check = OK /\ lifecycle = OK
  <2>1. RootCheck =
          AllowKeys(doc, Root, keys) ?? RequireFormat(doc, FormatName)
            ?? RequiredKey(doc, "package", Root) ?? RequireKind(Package, "mapping", PackagePath)
            ?? RequiredKeys(doc, needed, Root) ?? check ?? lifecycle
    BY DEF RootCheck
  <2> HIDE DEF keys, needed, check, lifecycle
  <2> QED BY <2>1, BothPass
<1> HIDE DEF check, lifecycle
<1> QED BY <1>1, <1>2, <1>3, <1>4, <1>5, <1>6, <1>7, <1>8 DEF RootDemands, IsTable

LEMMA ArgumentPasses ==
  ASSUME doc \in Nodes, RootDemands(doc), NEW argument \in Arguments
  PROVE  ArgumentCheck(argument) = OK <=> Demands(doc, argument)
<1> DEFINE value == FindKey(doc, argument)
           path  == PathTo(argument)
<1>1. \A key \in KeySet(doc) : FindKey(doc, key) \in Nodes
  BY ValueIsNode DEF RootDemands, IsTable
<1>2. {"package", "requirements", "sources", "build"} \subseteq KeySet(doc)
  BY DEF RootDemands, IsTable
<1>3. CASE argument = "release"
  BY <1>3 DEF ArgumentCheck, Demands, Package, PackagePath
<1>4. CASE argument = "metadata"
  BY <1>4 DEF ArgumentCheck, Demands, Package, PackagePath
<1>5. CASE argument = "sources"
  BY <1>1, <1>2, <1>5, SourcesPass DEF ArgumentCheck, Demands
<1>6. CASE argument = "build"
  BY <1>6, ProgramPasses DEF ArgumentCheck, Demands
<1>7. CASE argument = "requirements"
  <2>1. SafePath(PathTo(argument))
    BY <1>7, RootSafe, ChildSafe, RecipeKeysSafe DEF PathTo
  <2> QED BY <1>1, <1>2, <1>7, <2>1, RequirementsPass DEF ArgumentCheck, Demands, IsRequirements
<1>8. CASE argument = "architectures"
  BY <1>1, <1>8, ArchitecturesPass, Asked DEF ArgumentCheck, Demands, IsArchitectures, IfPresent
<1>9. CASE argument = "provenance"
  <2>1. SafePath(PathTo("document"))
    BY RootSafe, ChildSafe, RecipeKeysSafe DEF PathTo
  <2> QED BY <1>9, <2>1, ProvenancePasses DEF ArgumentCheck, Demands
<1> QED BY <1>3, <1>4, <1>5, <1>6, <1>7, <1>8, <1>9 DEF Arguments

(* Together they ask what the protocol does.                               *)
LEMMA DemandsOfProtocol ==
  ASSUME NEW d \in Nodes
  PROVE  IsRecipe(d) <=> RootDemands(d) /\ \A argument \in Arguments : Demands(d, argument)
<1> DEFINE package == FindKey(d, "package")
<1>1. ASSUME d.kind = "mapping", "package" \in KeySet(d)
      PROVE  PackageRelease(package, PathTo("package")) = OK
               /\ PackageMetadata(package, PathTo("package")) = OK <=> IsPackage(package)
  BY <1>1, ValueIsNode, PackagePasses
<1>2. IsRecipe(d)
        <=> /\ RootDemands(d) /\ IsPackage(package)
            /\ Each(FindKey(d, "sources"), IsSource)
            /\ IsProgram(FindKey(d, "build"))
            /\ IsRequirements(FindKey(d, "requirements"))
            /\ "architectures" \in KeySet(d) => IsArchitectures(FindKey(d, "architectures"))
  BY DEF IsRecipe, RootDemands, IsTable, Given, IsRequirements, IsArchitectures, IsPackage
<1>3. (\A argument \in Arguments : Demands(d, argument))
        <=> /\ PackageRelease(package, PathTo("package")) = OK
            /\ PackageMetadata(package, PathTo("package")) = OK
            /\ Each(FindKey(d, "sources"), IsSource)
            /\ IsProgram(FindKey(d, "build"))
            /\ IsRequirements(FindKey(d, "requirements"))
            /\ "architectures" \in KeySet(d) => IsArchitectures(FindKey(d, "architectures"))
  BY DEF Demands, Arguments
<1> HIDE DEF package
<1> QED BY <1>1, <1>2, <1>3 DEF RootDemands, IsTable

-----------------------------------------------------------------------------
(* The constructor's call is reached over the demands on the root, each    *)
(* argument that is computed has met its own whatever is left, and what    *)
(* was refused is no recipe.                                               *)
Progress ==
  /\ doc \in Documents /\ todo \subseteq Arguments
  /\ stage = "root" => todo = Arguments
  /\ stage \in {"arguments", "returned"} =>
       RootDemands(doc) /\ \A argument \in Arguments \ todo : Demands(doc, argument)
  /\ stage = "returned" => todo = {}
  /\ stage = "failed" => ~IsRecipe(doc)

IInv == NoCoreErrorEscapes /\ Progress

(* Before the first check nothing has been thrown and nothing computed.    *)
LEMMA Initially == Init => IInv
BY DEF Init, IInv, Progress, NoCoreErrorEscapes, OK, ErrorCodes

(* Every step throws what its checks contain, or nothing.                  *)
LEMMA ThrowsContained == IInv /\ [Next]_vars => NoCoreErrorEscapes'
<1> SUFFICES ASSUME IInv, [Next]_vars PROVE NoCoreErrorEscapes' OBVIOUS
<1> USE DEF IInv, NoCoreErrorEscapes
<1>1. CASE CheckRoot
  <2>1. Contained(RequiredKeys(doc, <<"requirements", "sources", "build">>, Root))
    BY KeysRequired
  <2>2. /\ Contained(IfPresent(doc, "check", LAMBDA v : Program(v, PathTo("check"))))
        /\ Contained(IfPresent(doc, "lifecycle", LAMBDA v : Lifecycle(v, PathTo("lifecycle"))))
    BY ProgramContained, LifecycleContained, PlainChecks DEF IfPresent
  <2>3. Contained(RootCheck)
    BY <2>1, <2>2, KeysContained, FormatContained, PlainChecks, Sequenced DEF RootCheck
  <2> QED BY <1>1, <2>3 DEF CheckRoot, Throw, Contained
<1>2. ASSUME NEW argument \in todo, Evaluate(argument) PROVE NoCoreErrorEscapes'
  <2>1. Contained(ArgumentCheck(argument))
    BY ArgumentContained DEF Progress
  <2> QED BY <1>2, <2>1 DEF Evaluate, Throw, Contained
<1>3. CASE Return
  BY <1>3 DEF Return
<1>4. CASE UNCHANGED vars
  BY <1>4 DEF vars
<1> QED BY <1>1, <1>2, <1>3, <1>4 DEF Next

(* Every step keeps what the computed arguments have met.                  *)
LEMMA StepsProgress == IInv /\ [Next]_vars => Progress'
<1> SUFFICES ASSUME Progress, [Next]_vars PROVE Progress' BY DEF IInv
<1> USE DEF Progress
<1>1. doc \in Nodes /\ (IsRecipe(doc) <=> RootDemands(doc)
                           /\ \A argument \in Arguments : Demands(doc, argument))
  BY RecipeDocuments, DemandsOfProtocol
<1>2. CASE CheckRoot
  <2>1. CASE RootCheck = OK
    <3>1. UNCHANGED <<doc, todo>> /\ stage' = "arguments"
      BY <1>2, <2>1 DEF CheckRoot
    <3>2. RootDemands(doc)
      BY <1>1, <2>1, RootPasses
    <3>3. todo = Arguments
      BY <1>2 DEF CheckRoot
    <3> QED BY <3>1, <3>2, <3>3
  <2>2. CASE RootCheck # OK
    <3>1. UNCHANGED <<doc, todo>> /\ stage' = "failed"
      BY <1>2, <2>2 DEF CheckRoot, Throw
    <3>2. ~RootDemands(doc)
      BY <1>1, <2>2, RootPasses
    <3> QED BY <1>1, <3>1, <3>2
  <2> QED BY <2>1, <2>2
<1>3. ASSUME NEW argument \in todo, Evaluate(argument) PROVE Progress'
  <2>1. stage = "arguments" /\ argument \in Arguments /\ RootDemands(doc)
    BY <1>3 DEF Evaluate
  <2>2. ArgumentCheck(argument) = OK <=> Demands(doc, argument)
    BY <1>1, <2>1, ArgumentPasses
  <2>3. CASE ArgumentCheck(argument) = OK
    <3>1. UNCHANGED <<doc, stage>> /\ todo' = todo \ {argument}
      BY <1>3, <2>3 DEF Evaluate
    <3> QED BY <2>1, <2>2, <2>3, <3>1
  <2>4. CASE ArgumentCheck(argument) # OK
    <3>1. UNCHANGED <<doc, todo>> /\ stage' = "failed"
      BY <1>3, <2>4 DEF Evaluate, Throw
    <3> QED BY <1>1, <2>1, <2>2, <2>4, <3>1
  <2> QED BY <2>3, <2>4
<1>4. CASE Return
  BY <1>4 DEF Return
<1>5. CASE UNCHANGED vars
  BY <1>5 DEF vars
<1> QED BY <1>2, <1>3, <1>4, <1>5 DEF Next

(* The strengthened invariant holds in every state of the parser.          *)
THEOREM Invariance == Spec => []IInv
<1>1. IInv /\ [Next]_vars => IInv'
  BY ThrowsContained, StepsProgress DEF IInv
<1> QED BY <1>1, Initially, PTL DEF Spec

(* parse_recipe_yaml() lets no exception of libpkgsource through, whatever *)
(* the document, the order of the arguments and what the core admits.      *)
THEOREM CoreErrorsStay == Spec => []NoCoreErrorEscapes
<1>1. IInv => NoCoreErrorEscapes
  BY DEF IInv
<1> QED BY <1>1, Invariance, PTL

(* parse_recipe_yaml() accepts the documents of the protocol and no other, *)
(* in every order of the arguments and for every document whose mappings   *)
(* validate_tree() has passed.                                             *)
THEOREM AcceptsTheProtocol == Spec => []ExactlyTheProtocol
<1>1. IInv => ExactlyTheProtocol
  <2> SUFFICES ASSUME Progress, stage = "returned" PROVE IsRecipe(doc)
    BY DEF IInv, Progress, ExactlyTheProtocol
  <2>1. doc \in Nodes
    BY RecipeDocuments DEF Progress
  <2> QED BY <2>1, DemandsOfProtocol DEF Progress
<1> QED BY <1>1, Invariance, PTL

-----------------------------------------------------------------------------
(* Below the root every key makes a path of its own.                       *)
LEMMA TableAt ==
  ASSUME NEW d, NEW path, NEW m, At(d, path, m), path # Root
  PROVE  /\ \A allowed : Resolved(d, AllowKeys(m, path, allowed))
         /\ m.kind = "mapping" =>
              /\ \A keys : DOMAIN keys \subseteq Nat => Resolved(d, RequiredKeys(m, keys, path))
              /\ \A key \in KeySet(m) :
                   /\ At(d, ChildPath(path, key), FindKey(m, key)) /\ ChildPath(path, key) # Root
                   /\ Resolved(d, ScalarAt(m, key, path))
                   /\ \A texts : Resolved(d, RequireText(FindKey(m, key), texts, ChildPath(path, key)))
                   /\ \A admitted : Resolved(d, Semantic(admitted, ChildPath(path, key), FindKey(m, key)))
<1>1. \A key : Distinguished(path, key)
  BY DEF Distinguished
<1>2. \A allowed : Resolved(d, AllowKeys(m, path, allowed))
  BY <1>1, KeysResolved
<1>3. ASSUME m.kind = "mapping", NEW keys, DOMAIN keys \subseteq Nat
      PROVE  Resolved(d, RequiredKeys(m, keys, path))
  BY <1>1, <1>3, RequiredResolved
<1>4. ASSUME m.kind = "mapping", NEW key \in KeySet(m)
      PROVE  /\ At(d, ChildPath(path, key), FindKey(m, key)) /\ ChildPath(path, key) # Root
             /\ Resolved(d, ScalarAt(m, key, path))
             /\ \A texts : Resolved(d, RequireText(FindKey(m, key), texts, ChildPath(path, key)))
             /\ \A admitted : Resolved(d, Semantic(admitted, ChildPath(path, key), FindKey(m, key)))
  BY <1>1, <1>4, ValueResolved, ChildAt
<1> QED BY <1>2, <1>3, <1>4

(* What each function of recipe_fields.cpp reports can be found when the   *)
(* value it is given is where its path leads.                              *)
LEMMA ProgramResolved ==
  ASSUME NEW d, NEW path, NEW value, At(d, path, value), path # Root
  PROVE  Resolved(d, Program(value, path))
<1> DEFINE language == FindKey(value, "language")
           script == FindKey(value, "script")
           a == AllowKeys(value, path, {"language", "script"})
           b == RequiredKeys(value, <<"language", "script">>, path)
           c == RequireText(language, {"posix-shell"}, ChildPath(path, "language"))
           e == ScalarAt(value, "script", path)
           f == Semantic(Wellformed(value, {"script"}), ChildPath(path, "script"), script)
<1>1. Resolved(d, a) /\ (a = OK => value.kind = "mapping")
  BY TableAt, KeysPass
<1>2. value.kind = "mapping" => Resolved(d, b)
  BY TableAt
<1>3. b = OK => {"language", "script"} \subseteq KeySet(value)
  BY RequiredPass
<1>4. ASSUME value.kind = "mapping", {"language", "script"} \subseteq KeySet(value)
      PROVE  Resolved(d, c) /\ Resolved(d, e) /\ Resolved(d, f)
  BY <1>4, TableAt
<1> HIDE DEF a, b, c, e, f
<1>5. Resolved(d, a ?? b ?? c ?? e ?? f)
  BY <1>1, <1>2, <1>3, <1>4, BothResolved, BothPass
<1> QED BY <1>5 DEF a, b, c, e, f, Program

(* An action is a key, and its failure is at the key.                      *)
LEMMA ActionResolved ==
  ASSUME NEW d, NEW path, NEW key,
         \A code : code # "missing_key" => Resolved(d, Failure(code, path, key))
  PROVE  Resolved(d, Action(key, path))
<1>1. Resolved(d, OK) /\ Resolved(d, Failure("invalid_type", path, key))
        /\ Resolved(d, Failure("invalid_value", path, key))
  BY DEF Resolved
<1> QED BY <1>1 DEF Action, RequireText, RequireKind, ??

LEMMA LifecycleResolved ==
  ASSUME NEW d, NEW path, NEW m, At(d, path, m), path # Root
  PROVE  Resolved(d, Lifecycle(m, path))
<1> DEFINE Check(key, program, at) == Action(key, at) ?? Program(program, at)
           checks == [i \in 1 .. Len(m.children) \div 2 |->
                        LET key == m.children[2 * i - 1]
                        IN  Check(key, m.children[2 * i], ChildPath(path, key.scalar))]
<1>1. ASSUME m.kind = "mapping", NEW i \in DOMAIN checks PROVE Resolved(d, checks[i])
  <2> DEFINE key == m.children[2 * i - 1]
             at == ChildPath(path, key.scalar)
  <2>1. /\ At(d, at, m.children[2 * i]) /\ at # Root
        /\ \A code : code # "missing_key" => Resolved(d, Failure(code, at, key))
    BY <1>1, PairAt
  <2>2. checks[i] = (Action(key, at) ?? Program(m.children[2 * i], at))
    BY <1>1
  <2> HIDE DEF checks, key, at
  <2> QED BY <2>1, <2>2, ActionResolved, ProgramResolved, BothResolved
<1>2. DOMAIN checks = 1 .. Len(m.children) \div 2
  OBVIOUS
<1> HIDE DEF checks
<1>3. Resolved(d, RequireKind(m, "mapping", path) ?? FirstOf(checks))
  BY <1>1, <1>2, PairsResolved
<1> QED BY <1>3 DEF checks, Lifecycle, EachPair

LEMMA SourceResolved ==
  ASSUME NEW d, NEW path, NEW entry, At(d, path, entry), path # Root
  PROVE  Resolved(d, Source(entry, path))
<1> DEFINE locator == IF HasKey(entry, "url") THEN "url" ELSE "path"
           digest == FindKey(entry, "sha256")
           a == AllowKeys(entry, path, {"url", "path", "name", "unpack", "sha256"})
           b == IF OneOf(entry, "url", "path") THEN OK ELSE Failure("invalid_value", path, entry)
           c == RequiredKeys(entry, <<"name", "sha256">>, path)
           e == IfPresent(entry, "unpack",
                          LAMBDA v : RequireText(v, {"archive"}, ChildPath(path, "unpack")))
           f == ScalarAt(entry, "name", path)
           g == ScalarAt(entry, "sha256", path)
           h == Semantic(Wellformed(entry, {"sha256"}), ChildPath(path, "sha256"), digest)
           i == ScalarAt(entry, locator, path)
           j == Semantic(Wellformed(entry, {"name", locator}), path, entry)
<1>1. Resolved(d, a) /\ (a = OK => entry.kind = "mapping")
  BY TableAt, KeysPass
<1>2. Resolved(d, b) /\ Resolved(d, j)
  <2>1. Resolved(d, OK) /\ Resolved(d, Failure("invalid_value", path, entry))
    BY FailureAt DEF Resolved
  <2> QED BY <2>1 DEF Semantic
<1>3. b = OK => locator \in KeySet(entry)
  <2>1. Failure("invalid_value", path, entry) # OK
    BY FailurePasses
  <2> QED BY <2>1 DEF OneOf, HasKey, KeySet
<1>4. entry.kind = "mapping" => Resolved(d, c) /\ Resolved(d, e)
  <2>1. entry.kind = "mapping" => Resolved(d, c)
    BY TableAt
  <2>2. entry.kind = "mapping" /\ "unpack" \in KeySet(entry) =>
          Resolved(d, RequireText(FindKey(entry, "unpack"), {"archive"}, ChildPath(path, "unpack")))
    BY TableAt
  <2> QED BY <2>1, <2>2, Asked DEF IfPresent, Resolved
<1>5. c = OK => {"name", "sha256"} \subseteq KeySet(entry)
  BY RequiredPass
<1>6. ASSUME entry.kind = "mapping", {"name", "sha256"} \subseteq KeySet(entry)
      PROVE  Resolved(d, f) /\ Resolved(d, g) /\ Resolved(d, h)
  BY <1>6, TableAt
<1>7. ASSUME entry.kind = "mapping", locator \in KeySet(entry) PROVE Resolved(d, i)
  <2> HIDE DEF locator
  <2> QED BY <1>7, TableAt
<1> HIDE DEF a, b, c, e, f, g, h, i, j
<1>8. Resolved(d, a ?? b ?? c ?? e ?? f)
  BY <1>1, <1>2, <1>4, <1>5, <1>6, BothResolved, BothPass
<1>9. Resolved(d, a ?? b ?? c ?? e ?? f ?? g ?? h ?? i ?? j)
  BY <1>1, <1>2, <1>3, <1>5, <1>6, <1>7, <1>8, BothResolved, BothPass
<1> QED BY <1>9 DEF a, b, c, e, f, g, h, i, j, Source

LEMMA SourcesResolved ==
  ASSUME NEW d, NEW path, NEW value, At(d, path, value)
  PROVE  Resolved(d, EachItem(value, path, Source))
<1> DEFINE checks == [i \in 1 .. Len(value.children) |-> Source(value.children[i], NthPath(path, i))]
<1>1. ASSUME value.kind = "sequence", NEW i \in DOMAIN checks PROVE Resolved(d, checks[i])
  BY <1>1, NthAt, SourceResolved
<1>2. DOMAIN checks = 1 .. Len(value.children)
  OBVIOUS
<1> HIDE DEF checks
<1>3. Resolved(d, RequireKind(value, "sequence", path) ?? FirstOf(checks))
  BY <1>1, <1>2, ItemsResolved
<1> QED BY <1>3 DEF checks, EachItem

LEMMA ArchitecturesResolved ==
  ASSUME NEW d, NEW path, NEW value, At(d, path, value), path # Root
  PROVE  Resolved(d, Architectures(value, path))
<1> DEFINE names == <<"build", "target">>
           a == AllowKeys(value, path, {"build", "target"})
           checks == [i \in 1 .. 2 |->
                        IfPresent(value, names[i],
                          LAMBDA list : EachItem(list, ChildPath(path, names[i]), Architecture))]
           last == Semantic(\A key \in KeySet(value) :
                              IsInjective([i \in DOMAIN FindKey(value, key).children |->
                                             FindKey(value, key).children[i].scalar]),
                            path, value)
<1>1. Resolved(d, a) /\ (a = OK => value.kind = "mapping")
  BY TableAt, KeysPass
<1>2. ASSUME NEW at, NEW list, At(d, at, list)
      PROVE  Resolved(d, EachItem(list, at, Architecture))
  <2> DEFINE each == [i \in 1 .. Len(list.children) |->
                        Architecture(list.children[i], NthPath(at, i))]
  <2>1. ASSUME list.kind = "sequence", NEW i \in DOMAIN each PROVE Resolved(d, each[i])
    <3>1. At(d, NthPath(at, i), list.children[i])
      BY <1>2, <2>1, NthAt
    <3> QED BY <3>1, PlainResolved, BothResolved DEF Architecture
  <2>2. DOMAIN each = 1 .. Len(list.children)
    OBVIOUS
  <2> HIDE DEF each
  <2>3. Resolved(d, RequireKind(list, "sequence", at) ?? FirstOf(each))
    BY <1>2, <2>1, <2>2, ItemsResolved
  <2> QED BY <2>3 DEF each, EachItem
<1>3. ASSUME value.kind = "mapping", NEW i \in 1 .. 2 PROVE Resolved(d, checks[i])
  <2>1. CASE names[i] \in KeySet(value)
    <3>1. At(d, ChildPath(path, names[i]), FindKey(value, names[i]))
      <4> HIDE DEF names
      <4> QED BY <1>3, <2>1, TableAt
    <3> HIDE DEF names
    <3> QED BY <1>2, <1>3, <3>1 DEF IfPresent, Resolved
  <2>2. CASE names[i] \notin KeySet(value)
    <3> HIDE DEF names
    <3> QED BY <1>3, <2>2, Asked DEF IfPresent, Resolved
  <2> QED BY <2>1, <2>2
<1>4. DOMAIN checks \subseteq Nat /\ DOMAIN checks = 1 .. 2
  OBVIOUS
<1>5. value.kind = "mapping" => Resolved(d, FirstOf(checks))
  <2> HIDE DEF checks
  <2> QED BY <1>3, <1>4, AllResolved
<1>6. Resolved(d, last)
  BY PlainResolved
<1>7. Architectures(value, path) = (a ?? FirstOf(checks) ?? last)
  BY DEF Architectures
<1> HIDE DEF a, checks, last
<1> QED BY <1>1, <1>5, <1>6, <1>7, BothResolved

LEMMA ReleaseResolved ==
  ASSUME NEW d, NEW path, NEW package, At(d, path, package), path # Root
  PROVE  Resolved(d, PackageRelease(package, path))
<1> DEFINE keys == {"name", "version", "release", "summary", "description", "homepage", "licenses"}
           a == AllowKeys(package, path, keys)
           b == RequiredKeys(package, <<"name", "version", "release">>, path)
           c == ScalarAt(package, "name", path)
           e == ScalarAt(package, "version", path)
           f == RequireText(FindKey(package, "release"), Releases, ChildPath(path, "release"))
           g == Semantic(/\ ReferenceAdmitted("package", FindKey(package, "name").scalar)
                         /\ Wellformed(package, {"version"}), path, package)
<1>1. Resolved(d, a) /\ (a = OK => package.kind = "mapping")
  BY TableAt, KeysPass
<1>2. package.kind = "mapping" => Resolved(d, b)
  BY TableAt
<1>3. b = OK => {"name", "version", "release"} \subseteq KeySet(package)
  BY RequiredPass
<1>4. ASSUME package.kind = "mapping", {"name", "version", "release"} \subseteq KeySet(package)
      PROVE  Resolved(d, c) /\ Resolved(d, e) /\ Resolved(d, f)
  BY <1>4, TableAt
<1>5. Resolved(d, g)
  BY PlainResolved
<1> HIDE DEF a, b, c, e, f, g
<1>6. Resolved(d, a ?? b ?? c ?? e ?? f ?? g)
  BY <1>1, <1>2, <1>3, <1>4, <1>5, BothResolved, BothPass
<1> QED BY <1>6 DEF a, b, c, e, f, g, PackageRelease

LEMMA MetadataResolved ==
  ASSUME NEW d, NEW path, NEW package, At(d, path, package), path # Root, package.kind = "mapping"
  PROVE  Resolved(d, PackageMetadata(package, path))
<1> DEFINE licenses == FindKey(package, "licenses")
           at == ChildPath(path, "licenses")
           each == [i \in 1 .. Len(licenses.children) |->
                      Scalar(licenses.children[i], NthPath(at, i))]
           a == RequiredKeys(package, <<"summary", "licenses">>, path)
           b == ScalarAt(package, "summary", path)
           c == IfPresent(package, "description",
                          LAMBDA v : Scalar(v, ChildPath(path, "description")))
           e == IfPresent(package, "homepage", LAMBDA v : Scalar(v, ChildPath(path, "homepage")))
           f == EachItem(licenses, at, Scalar)
           g == Semantic(/\ Wellformed(package, {"summary", "description", "homepage"})
                         /\ \A i \in DOMAIN licenses.children :
                              licenses.children[i].scalar \in Values, path, package)
<1>1. Resolved(d, a)
  BY TableAt
<1>2. a = OK => {"summary", "licenses"} \subseteq KeySet(package)
  BY RequiredPass
<1>3. ASSUME {"summary", "licenses"} \subseteq KeySet(package)
      PROVE  Resolved(d, b) /\ Resolved(d, f)
  <2>1. Resolved(d, b)
    BY <1>3, TableAt
  <2>2. At(d, at, licenses)
    BY <1>3, TableAt
  <2> HIDE DEF licenses, at
  <2>3. ASSUME licenses.kind = "sequence", NEW i \in DOMAIN each PROVE Resolved(d, each[i])
    <3>1. At(d, NthPath(at, i), licenses.children[i])
      BY <2>2, <2>3, NthAt
    <3> QED BY <3>1, PlainResolved DEF Scalar
  <2>4. DOMAIN each = 1 .. Len(licenses.children)
    OBVIOUS
  <2> HIDE DEF each
  <2>5. Resolved(d, RequireKind(licenses, "sequence", at) ?? FirstOf(each))
    BY <2>2, <2>3, <2>4, ItemsResolved
  <2> QED BY <2>1, <2>5 DEF each, EachItem
<1>4. Resolved(d, c) /\ Resolved(d, e)
  <2>1. \A key \in KeySet(package) : Resolved(d, Scalar(FindKey(package, key), ChildPath(path, key)))
    BY TableAt, PlainResolved DEF Scalar
  <2> QED BY <2>1, Asked DEF IfPresent, Resolved
<1>5. Resolved(d, g)
  BY PlainResolved
<1>6. PackageMetadata(package, path) = (a ?? b ?? c ?? e ?? f ?? g)
  BY DEF PackageMetadata
<1> HIDE DEF a, b, c, e, f, g
<1>7. Resolved(d, a ?? b ?? c ?? e ?? f ?? g)
  BY <1>1, <1>2, <1>3, <1>4, <1>5, BothResolved, BothPass
<1> QED BY <1>6, <1>7

LEMMA SequenceResolved ==
  ASSUME NEW d, NEW path, NEW value, At(d, path, value)
  PROVE  Resolved(d, RequirementSequence(value, path))
<1> DEFINE Check(item, at) == Subject(item, at) ?? Provenance(at, item)
           checks == [i \in 1 .. Len(value.children) |-> Check(value.children[i], NthPath(path, i))]
<1>1. ASSUME value.kind = "sequence", NEW i \in DOMAIN checks PROVE Resolved(d, checks[i])
  <2>1. NthPath(path, i) # Root /\ At(d, NthPath(path, i), value.children[i])
    BY <1>1, NthAt
  <2> QED BY <2>1, SubjectResolved, PlainResolved, BothResolved
<1>2. DOMAIN checks = 1 .. Len(value.children)
  OBVIOUS
<1> HIDE DEF checks
<1>3. Resolved(d, RequireKind(value, "sequence", path) ?? FirstOf(checks))
  BY <1>1, <1>2, ItemsResolved
<1> QED BY <1>3 DEF checks, RequirementSequence, EachItem

LEMMA ScopesResolved ==
  ASSUME NEW d, NEW path, NEW m, At(d, path, m), path # Root
  PROVE  Resolved(d, EachPair(m, path, LifecycleScope))
<1> DEFINE checks == [i \in 1 .. Len(m.children) \div 2 |->
                        LET key == m.children[2 * i - 1]
                        IN  LifecycleScope(key, m.children[2 * i], ChildPath(path, key.scalar))]
<1>1. ASSUME m.kind = "mapping", NEW i \in DOMAIN checks PROVE Resolved(d, checks[i])
  <2> DEFINE key == m.children[2 * i - 1]
             at == ChildPath(path, key.scalar)
  <2>1. /\ At(d, at, m.children[2 * i])
        /\ \A code : code # "missing_key" => Resolved(d, Failure(code, at, key))
    BY <1>1, PairAt
  <2>2. checks[i] = (Action(key, at) ?? RequirementSequence(m.children[2 * i], at))
    BY <1>1 DEF LifecycleScope
  <2> HIDE DEF checks, key, at
  <2> QED BY <2>1, <2>2, ActionResolved, SequenceResolved, BothResolved
<1>2. DOMAIN checks = 1 .. Len(m.children) \div 2
  OBVIOUS
<1> HIDE DEF checks
<1>3. Resolved(d, RequireKind(m, "mapping", path) ?? FirstOf(checks))
  BY <1>1, <1>2, PairsResolved
<1> QED BY <1>3 DEF checks, EachPair

LEMMA RequirementsResolved ==
  ASSUME NEW d, NEW path, NEW value, At(d, path, value), path # Root
  PROVE  Resolved(d, Requirements(value, path))
<1> DEFINE a == AllowKeys(value, path, {"build", "run", "check", "lifecycle"})
           checks == [i \in DOMAIN Scopes |->
             IfPresent(value, Scopes[i],
                       LAMBDA list : RequirementSequence(list, ChildPath(path, Scopes[i])))]
           last == IfPresent(value, "lifecycle",
                     LAMBDA m : EachPair(m, ChildPath(path, "lifecycle"), LifecycleScope))
<1>1. Resolved(d, a) /\ (a = OK => value.kind = "mapping")
  BY TableAt, KeysPass
<1>2. ASSUME value.kind = "mapping", NEW i \in DOMAIN Scopes PROVE Resolved(d, checks[i])
  <2>1. \A key \in KeySet(value) :
          Resolved(d, RequirementSequence(FindKey(value, key), ChildPath(path, key)))
    BY <1>2, TableAt, SequenceResolved
  <2> QED BY <1>2, <2>1, Asked DEF IfPresent, Resolved
<1>3. DOMAIN checks \subseteq Nat /\ DOMAIN checks = DOMAIN Scopes
  BY DEF Scopes
<1>4. value.kind = "mapping" => Resolved(d, FirstOf(checks))
  <2> HIDE DEF checks
  <2> QED BY <1>2, <1>3, AllResolved
<1>5. value.kind = "mapping" => Resolved(d, last)
  <2>1. value.kind = "mapping" /\ "lifecycle" \in KeySet(value) =>
          Resolved(d, EachPair(FindKey(value, "lifecycle"), ChildPath(path, "lifecycle"),
                               LifecycleScope))
    BY TableAt, ScopesResolved
  <2> QED BY <2>1, Asked DEF IfPresent, Resolved
<1>6. Requirements(value, path) = (a ?? FirstOf(checks) ?? last)
  BY DEF Requirements
<1> HIDE DEF a, checks, last
<1> QED BY <1>1, <1>4, <1>5, <1>6, BothResolved, BothPass

(* The values of the root's own keys.                                      *)
LEMMA FieldAt ==
  ASSUME doc \in Nodes, doc.kind = "mapping", NEW key \in KeySet(doc), key # RootName
  PROVE  At(doc, PathTo(key), FindKey(doc, key)) /\ PathTo(key) # Root
<1>1. At(doc, Root, doc) /\ Distinguished(Root, key)
  BY RootAt DEF Distinguished
<1> QED BY <1>1, ChildAt DEF PathTo

(* And so can what the root's check reports, and what an argument's does.  *)
LEMMA RootResolved ==
  ASSUME doc \in Nodes, RootUnnamed(doc)
  PROVE  Resolved(doc, RootCheck)
<1> DEFINE keys == {"format", "package", "requirements", "sources", "build", "check",
                    "lifecycle", "architectures"}
           needed == <<"requirements", "sources", "build">>
           a == AllowKeys(doc, Root, keys)
           b == RequireFormat(doc, FormatName)
           c == RequiredKey(doc, "package", Root)
           e == RequireKind(Package, "mapping", PackagePath)
           f == RequiredKeys(doc, needed, Root)
           g == IfPresent(doc, "check", LAMBDA v : Program(v, PathTo("check")))
           h == IfPresent(doc, "lifecycle", LAMBDA v : Lifecycle(v, PathTo("lifecycle")))
<1>1. At(doc, Root, doc) /\ \A key : key # RootName => Distinguished(Root, key)
  BY RootAt DEF Distinguished
<1>2. Resolved(doc, a) /\ (a = OK => doc.kind = "mapping")
  <2>1. doc.kind = "mapping" => \A key \in KeySet(doc) : Distinguished(Root, key)
    BY <1>1 DEF RootUnnamed
  <2> QED BY <1>1, <2>1, KeysResolved, KeysPass
<1>3. doc.kind = "mapping" => Resolved(doc, b)
  BY FormatResolved
<1>4. doc.kind = "mapping" => Resolved(doc, c)
  BY <1>1, KeyResolved DEF RootName
<1>5. c = OK => "package" \in KeySet(doc)
  BY PlainPasses
<1>6. doc.kind = "mapping" /\ "package" \in KeySet(doc) => Resolved(doc, e)
  <2>1. doc.kind = "mapping" /\ "package" \in KeySet(doc) => At(doc, PackagePath, Package)
    BY FieldAt DEF PackagePath, Package, RootName
  <2> QED BY <2>1, PlainResolved
<1>7. doc.kind = "mapping" => Resolved(doc, f)
  <2>1. DOMAIN needed \subseteq Nat /\ \A i \in DOMAIN needed : needed[i] # RootName
    BY DEF RootName
  <2> HIDE DEF needed
  <2> QED BY <1>1, <2>1, RequiredResolved
<1>8. doc.kind = "mapping" => Resolved(doc, g) /\ Resolved(doc, h)
  <2>1. doc.kind = "mapping" /\ "check" \in KeySet(doc) =>
          Resolved(doc, Program(FindKey(doc, "check"), PathTo("check")))
    BY FieldAt, ProgramResolved DEF RootName
  <2>2. doc.kind = "mapping" /\ "lifecycle" \in KeySet(doc) =>
          Resolved(doc, Lifecycle(FindKey(doc, "lifecycle"), PathTo("lifecycle")))
    BY FieldAt, LifecycleResolved DEF RootName
  <2> QED BY <2>1, <2>2, Asked DEF IfPresent, Resolved
<1>9. RootCheck = (a ?? b ?? c ?? e ?? f ?? g ?? h)
  BY DEF RootCheck
<1> HIDE DEF a, b, c, e, f, g, h
<1>10. Resolved(doc, a ?? b ?? c ?? e)
  BY <1>2, <1>3, <1>4, <1>5, <1>6, BothResolved, BothPass
<1>11. Resolved(doc, a ?? b ?? c ?? e ?? f ?? g ?? h)
  BY <1>2, <1>7, <1>8, <1>10, BothResolved, BothPass
<1> QED BY <1>9, <1>11

LEMMA ArgumentResolved ==
  ASSUME doc \in Nodes, RootDemands(doc), NEW argument \in Arguments
  PROVE  Resolved(doc, ArgumentCheck(argument))
<1>1. /\ doc.kind = "mapping" /\ Package.kind = "mapping"
      /\ {"package", "requirements", "sources", "build"} \subseteq KeySet(doc)
  BY DEF RootDemands, IsTable, Package
<1>2. At(doc, PackagePath, Package) /\ PackagePath # Root
  BY <1>1, FieldAt DEF PackagePath, Package, RootName
<1>3. ASSUME argument \in KeySet(doc), argument # RootName
      PROVE  At(doc, PathTo(argument), FindKey(doc, argument)) /\ PathTo(argument) # Root
  BY <1>1, <1>3, FieldAt
<1>4. CASE argument = "release"
  BY <1>2, <1>4, ReleaseResolved DEF ArgumentCheck
<1>5. CASE argument = "metadata"
  BY <1>1, <1>2, <1>5, MetadataResolved DEF ArgumentCheck
<1>6. CASE argument = "sources"
  BY <1>1, <1>3, <1>6, SourcesResolved DEF ArgumentCheck, RootName
<1>7. CASE argument = "build"
  BY <1>1, <1>3, <1>7, ProgramResolved DEF ArgumentCheck, RootName
<1>8. CASE argument = "requirements"
  BY <1>1, <1>3, <1>8, RequirementsResolved DEF ArgumentCheck, RootName
<1>9. CASE argument = "architectures"
  <2>1. CASE argument \in KeySet(doc)
    <3>1. Resolved(doc, Architectures(FindKey(doc, argument), PathTo(argument)))
      BY <1>3, <1>9, <2>1, ArchitecturesResolved DEF RootName
    <3> QED BY <1>9, <3>1, <2>1, Asked DEF ArgumentCheck, IfPresent
  <2>2. CASE argument \notin KeySet(doc)
    BY <1>9, <2>2, Asked DEF ArgumentCheck, IfPresent, Resolved
  <2> QED BY <2>1, <2>2
<1>10. CASE argument = "provenance"
  <2>1. SafePath(PathTo("document"))
    BY RootSafe, ChildSafe, RecipeKeysSafe DEF PathTo
  <2> QED BY <1>10, <2>1, ProvenancePasses DEF ArgumentCheck, Resolved
<1> QED BY <1>4, <1>5, <1>6, <1>7, <1>8, <1>9, <1>10 DEF Arguments

(* No step throws a failure that cannot be found.                          *)
LEMMA StepsLocate ==
  IInv /\ (RootUnnamed(doc) => FailureResolves) /\ [Next]_vars
    => (RootUnnamed(doc) => FailureResolves)'
<1> SUFFICES ASSUME IInv, RootUnnamed(doc) => FailureResolves, [Next]_vars, RootUnnamed(doc)'
             PROVE  FailureResolves'
  OBVIOUS
<1>1. doc' = doc
  BY DEF Next, CheckRoot, Evaluate, Return, vars
<1>2. RootUnnamed(doc) /\ FailureResolves /\ Progress /\ doc \in Nodes
  BY <1>1, RecipeDocuments DEF IInv, Progress
<1>3. ASSUME NEW failure, Throw(failure), failure # OK, Resolved(doc, failure) PROVE FailureResolves'
  BY <1>1, <1>3 DEF Throw, Resolved, FailureResolves
<1>4. ASSUME stage' # "failed" PROVE FailureResolves'
  BY <1>4 DEF FailureResolves
<1>5. CASE CheckRoot
  <2>1. Resolved(doc, RootCheck)
    BY <1>2, RootResolved
  <2>2. IF RootCheck = OK THEN stage' = "arguments" ELSE Throw(RootCheck)
    BY <1>5 DEF CheckRoot
  <2> QED BY <1>3, <1>4, <2>1, <2>2
<1>6. ASSUME NEW argument \in todo, Evaluate(argument) PROVE FailureResolves'
  <2>1. stage = "arguments" /\ RootDemands(doc) /\ argument \in Arguments
    BY <1>2, <1>6 DEF Evaluate, Progress
  <2>2. Resolved(doc, ArgumentCheck(argument))
    BY <1>2, <2>1, ArgumentResolved
  <2>3. IF ArgumentCheck(argument) = OK THEN stage' = stage ELSE Throw(ArgumentCheck(argument))
    BY <1>6 DEF Evaluate
  <2> QED BY <1>3, <1>4, <2>1, <2>2, <2>3
<1>7. CASE Return
  BY <1>4, <1>7 DEF Return
<1>8. CASE UNCHANGED vars
  BY <1>2, <1>8 DEF vars, FailureResolves
<1> QED BY <1>5, <1>6, <1>7, <1>8 DEF Next

(* The path of a failure and its line and column lead to one place of the  *)
(* document, whichever argument is computed first.  Only a key of the root *)
(* that is named like the root itself is excepted.                         *)
THEOREM FailuresResolve == Spec => [](RootUnnamed(doc) => FailureResolves)
<1>1. Init => IInv /\ (RootUnnamed(doc) => FailureResolves)
  <2>1. Init => stage # "failed"
    BY DEF Init
  <2> QED BY <2>1, Initially DEF FailureResolves
<1>2. IInv /\ [Next]_vars => IInv'
  BY ThrowsContained, StepsProgress DEF IInv
<1> QED BY <1>1, <1>2, StepsLocate, PTL DEF Spec

-----------------------------------------------------------------------------
(* requirements_value().                                                   *)

(* The requirements of a document come in parts: one of each fixed scope,  *)
(* which may be absent, and one of each pair of the lifecycle.             *)
Wanted  == FindKey(doc, "requirements")
Top     == PathTo("requirements")
Under   == ChildPath(Top, "lifecycle")
Hooks   == IF HasKey(Wanted, "lifecycle") THEN FindKey(Wanted, "lifecycle").children ELSE << >>
Count   == 3 + Len(Hooks) \div 2
NameOf(k) == IF k <= 3 THEN Scopes[k] ELSE Hooks[2 * (k - 3) - 1].scalar
ListOf(k) == IF k <= 3 THEN FindKey(Wanted, Scopes[k]) ELSE Hooks[2 * (k - 3)]
PathOf(k) == ChildPath(IF k <= 3 THEN Top ELSE Under, NameOf(k))
Present(k) == k <= 3 => Scopes[k] \in KeySet(Wanted)
Part(k) == IF Present(k) THEN InScope(NameOf(k), ListOf(k), PathOf(k)) ELSE << >>
Parts   == [k \in 1 .. Count |-> Part(k)]

(* A document whose requirements have passed their checks.                 *)
Readable == doc \in Nodes /\ RootDemands(doc) /\ IsRequirements(Wanted)

(* What the demands say of the tables the parts are in.                    *)
LEMMA Tables ==
  ASSUME Readable
  PROVE  /\ At(doc, Top, Wanted) /\ Wanted.kind = "mapping" /\ Top # Root /\ Len(Top) = 1
         /\ KeySet(Wanted) \subseteq {"build", "run", "check", "lifecycle"}
         /\ \A key \in KeySet(Wanted) \ {"lifecycle"} : FindKey(Wanted, key).kind = "sequence"
         /\ IsPath(Under) /\ Under # Root /\ Len(Under) = 2
         /\ HasKey(Wanted, "lifecycle") <=> "lifecycle" \in KeySet(Wanted)
         /\ "lifecycle" \in KeySet(Wanted) =>
              LET table == FindKey(Wanted, "lifecycle")
              IN  /\ At(doc, Under, table) /\ table.kind = "mapping" /\ table \in Nodes
                  /\ \A key \in KeySet(table) : FindKey(table, key).kind = "sequence"
         /\ Len(Hooks) \in Nat /\ Len(Hooks) % 2 = 0
         /\ Len(Hooks) \div 2 \in Nat /\ Count = 3 + Len(Hooks) \div 2 /\ Count \in Nat
<1>1. doc \in Nodes /\ doc.kind = "mapping" /\ "requirements" \in KeySet(doc)
  BY DEF Readable, RootDemands, IsTable
<1>2. At(doc, Top, Wanted) /\ Top # Root
  BY <1>1, FieldAt DEF RootName, Wanted, Top
<1>3. Len(Top) = 1 /\ Top = Append(Root, <<"key", "requirements">>)
  <2>1. Top = Append(Root, <<"key", "requirements">>)
    BY DEF Top, PathTo, ChildPath, RootName
  <2>2. IsPath(Root) /\ Len(Root) = 0
    BY RootSafe DEF SafePath, Root
  <2> QED BY <2>1, <2>2, PathEnds
<1>4. /\ Wanted.kind = "mapping" /\ KeySet(Wanted) \subseteq {"build", "run", "check", "lifecycle"}
      /\ \A key \in {"build", "run", "check"} \intersect KeySet(Wanted) : Subjects(FindKey(Wanted, key))
      /\ "lifecycle" \in KeySet(Wanted) => ByAction(FindKey(Wanted, "lifecycle"), Subjects)
  BY DEF Readable, IsRequirements, IsTable, Given
<1>5. Distinguished(Top, "lifecycle") /\ Under = Append(Top, <<"key", "lifecycle">>)
  BY <1>2 DEF Distinguished, Under, ChildPath
<1>6. IsPath(Under) /\ Under # Root /\ Len(Under) = 2
  BY <1>2, <1>3, <1>5, PathEnds DEF At
<1>7. \A key \in KeySet(Wanted) \ {"lifecycle"} : FindKey(Wanted, key).kind = "sequence"
  BY <1>4 DEF Subjects, Each
<1>8. HasKey(Wanted, "lifecycle") <=> "lifecycle" \in KeySet(Wanted)
  BY DEF HasKey, KeySet
<1>9. ASSUME "lifecycle" \in KeySet(Wanted)
      PROVE  LET table == FindKey(Wanted, "lifecycle")
             IN  /\ At(doc, Under, table) /\ table.kind = "mapping" /\ table \in Nodes
                 /\ \A key \in KeySet(table) : FindKey(table, key).kind = "sequence"
  <2> DEFINE table == FindKey(Wanted, "lifecycle")
  <2>1. At(doc, Under, table)
    BY <1>2, <1>4, <1>5, <1>9, ChildAt DEF Under
  <2>2. table.kind = "mapping" /\ KeySet(table) \subseteq Actions
    BY <1>4, <1>9 DEF ByAction, IsTable
  <2>3. \A key \in Actions \intersect KeySet(table) : Subjects(FindKey(table, key))
    BY <1>4, <1>9 DEF ByAction, Given
  <2> QED BY <2>1, <2>2, <2>3 DEF At, Subjects, Each
<1>10. Len(Hooks) \in Nat /\ Len(Hooks) % 2 = 0
  <2>1. CASE "lifecycle" \in KeySet(Wanted)
    BY <1>8, <1>9, <2>1, ChildrenAreNodes DEF Hooks
  <2>2. CASE "lifecycle" \notin KeySet(Wanted)
    <3>1. Len(Hooks) = 0
      BY <1>8, <2>2 DEF Hooks
    <3> QED BY <3>1
  <2> QED BY <2>1, <2>2
<1>11. Len(Hooks) \div 2 \in Nat /\ Count = 3 + Len(Hooks) \div 2 /\ Count \in Nat
  BY <1>10 DEF Count
<1> QED BY <1>2, <1>3, <1>4, <1>6, <1>7, <1>8, <1>9, <1>10, <1>11

(* A pair of the lifecycle.                                                *)
LEMMA Hook ==
  ASSUME Readable, NEW k \in 1 .. Count, k > 3
  PROVE  LET table == FindKey(Wanted, "lifecycle")
             i == k - 3
         IN  /\ "lifecycle" \in KeySet(Wanted) /\ At(doc, Under, table)
             /\ table.kind = "mapping" /\ table \in Nodes
             /\ i \in 1 .. Len(table.children) \div 2
             /\ NameOf(k) = table.children[2 * i - 1].scalar /\ ListOf(k) = table.children[2 * i]
             /\ NameOf(k) \in KeySet(table) /\ FindKey(table, NameOf(k)) = ListOf(k)
<1> DEFINE table == FindKey(Wanted, "lifecycle")
           i == k - 3
<1>1. k - 3 \in 1 .. Len(Hooks) \div 2 /\ Len(Hooks) \in Nat /\ ~(k <= 3)
  BY Tables
<1>2. "lifecycle" \in KeySet(Wanted) /\ Hooks = table.children
  <2>1. Len(Hooks) # 0
    BY <1>1
  <2> QED BY <2>1, Tables DEF Hooks
<1>3. At(doc, Under, table) /\ table.kind = "mapping" /\ table \in Nodes
  BY <1>2, Tables
<1>4. /\ NameOf(k) = table.children[2 * i - 1].scalar
      /\ ListOf(k) = table.children[2 * i]
  BY <1>1, <1>2 DEF NameOf, ListOf
<1>5. i \in 1 .. Len(table.children) \div 2
  BY <1>1, <1>2
<1> HIDE DEF i, table
<1>6. /\ table.children[2 * i - 1].scalar \in KeySet(table)
      /\ FindKey(table, table.children[2 * i - 1].scalar) = table.children[2 * i]
  BY <1>3, <1>5, Pairs
<1> QED BY <1>2, <1>3, <1>4, <1>5, <1>6 DEF i, table

(* The list of a part, and its path.                                       *)
LEMMA Located ==
  ASSUME Readable, NEW k \in 1 .. Count, Present(k)
  PROVE  /\ At(doc, PathOf(k), ListOf(k)) /\ ListOf(k).kind = "sequence"
         /\ Last(PathOf(k))[2] = NameOf(k)
         /\ Front(PathOf(k)) = IF k <= 3 THEN Top ELSE Under
         /\ Len(PathOf(k)) = IF k <= 3 THEN 2 ELSE 3
<1> DEFINE table == IF k <= 3 THEN Wanted ELSE FindKey(Wanted, "lifecycle")
           path == IF k <= 3 THEN Top ELSE Under
<1>1. /\ At(doc, path, table) /\ table.kind = "mapping" /\ path # Root
      /\ Len(path) = IF k <= 3 THEN 1 ELSE 2
      /\ NameOf(k) \in KeySet(table) /\ FindKey(table, NameOf(k)) = ListOf(k)
      /\ ListOf(k).kind = "sequence"
  <2>1. CASE k <= 3
    <3>1. k \in 1 .. 3
      BY <2>1
    <3>2. NameOf(k) = Scopes[k] /\ ListOf(k) = FindKey(Wanted, Scopes[k])
          /\ Scopes[k] \in KeySet(Wanted)
      BY <2>1 DEF NameOf, ListOf, Present
    <3>3. Scopes[k] # "lifecycle"
      BY <3>1 DEF Scopes
    <3> QED BY <2>1, <3>2, <3>3, Tables
  <2>2. CASE ~(k <= 3)
    <3>1. k > 3
      BY <2>2
    <3> DEFINE lifecycle == FindKey(Wanted, "lifecycle")
    <3>2. /\ "lifecycle" \in KeySet(Wanted) /\ At(doc, Under, lifecycle)
          /\ lifecycle.kind = "mapping" /\ NameOf(k) \in KeySet(lifecycle)
          /\ FindKey(lifecycle, NameOf(k)) = ListOf(k)
      BY <3>1, Hook
    <3>3. /\ \A key \in KeySet(lifecycle) : FindKey(lifecycle, key).kind = "sequence"
          /\ Under # Root /\ Len(Under) = 2
      BY <3>2, Tables
    <3>4. path = Under /\ table = lifecycle
      BY <2>2
    <3> HIDE DEF path, table, lifecycle
    <3> QED BY <2>2, <3>2, <3>3, <3>4
  <2> QED BY <2>1, <2>2
<1>2. PathOf(k) = ChildPath(path, NameOf(k)) /\ Distinguished(path, NameOf(k))
  BY <1>1 DEF PathOf, Distinguished
<1>3. PathOf(k) = Append(path, <<"key", NameOf(k)>>) /\ IsPath(path)
  BY <1>1, <1>2 DEF ChildPath, At
<1> HIDE DEF table
<1>4. At(doc, PathOf(k), ListOf(k))
  <2> HIDE DEF path
  <2> QED BY <1>1, <1>2, ChildAt
<1>5. /\ Front(PathOf(k)) = path /\ Last(PathOf(k)) = <<"key", NameOf(k)>>
      /\ Len(PathOf(k)) = Len(path) + 1
  <2> HIDE DEF path
  <2> QED BY <1>3, PathEnds
<1> QED BY <1>1, <1>4, <1>5

(* Where a part stands among the others.                                   *)
LEMMA Placed ==
  ASSUME Readable, NEW k \in 1 .. Count, Present(k), NEW j \in 1 .. Len(ListOf(k).children)
  PROVE  LET path == NthPath(PathOf(k), j)
         IN  /\ At(doc, path, ListOf(k).children[j])
             /\ Front(path) = PathOf(k) /\ Last(path)[2] = j - 1
             /\ Place(path) = IF k <= 3 THEN k ELSE 2 * k - 4
<1> DEFINE path == NthPath(PathOf(k), j)
<1>1. /\ At(doc, PathOf(k), ListOf(k)) /\ ListOf(k).kind = "sequence"
      /\ Last(PathOf(k))[2] = NameOf(k)
      /\ Front(PathOf(k)) = IF k <= 3 THEN Top ELSE Under
      /\ Len(PathOf(k)) = IF k <= 3 THEN 2 ELSE 3
  BY Located
<1>2. At(doc, path, ListOf(k).children[j])
  BY <1>1, NthAt
<1>3. Front(path) = PathOf(k) /\ Last(path) = <<"item", j - 1>>
  BY <1>1, PathEnds DEF At, NthPath, ItemPath
<1> DEFINE list == Front(path)
           key  == Last(list)[2]
           m    == NodeAt(doc, Front(list))
           chosen == CHOOSE i \in KeysAt(m) : m.children[i].scalar = key
<1>4. Place(path) = IF Len(list) = 2 THEN [build |-> 1, run |-> 2, check |-> 3][key] ELSE 3 + chosen
  BY DEF Place
<1>5. list = PathOf(k) /\ key = NameOf(k)
  BY <1>1, <1>3
<1> HIDE DEF path, list, key, chosen
<1>6. CASE k <= 3
  <2>1. k \in 1 .. 3 /\ NameOf(k) = Scopes[k]
    BY <1>6 DEF NameOf
  <2>2. [build |-> 1, run |-> 2, check |-> 3][Scopes[k]] = k
    BY <2>1 DEF Scopes
  <2>3. Place(path) = k
    BY <1>1, <1>4, <1>6, <1>5, <2>1, <2>2
  <2> QED BY <1>2, <1>3, <1>6, <2>3 DEF path
<1>7. CASE ~(k <= 3)
  <2> DEFINE table == FindKey(Wanted, "lifecycle")
             i == k - 3
             at == 2 * i - 1
  <2>1. /\ At(doc, Under, table) /\ table.kind = "mapping" /\ table \in Nodes
        /\ i \in 1 .. Len(table.children) \div 2
        /\ NameOf(k) = table.children[2 * i - 1].scalar
    <3>1. k > 3
      BY <1>7
    <3> QED BY <3>1, Hook
  <2>2. m = table
    BY <1>1, <1>7, <1>5, <2>1 DEF At
  <2>3. at \in KeysAt(table)
    <3> HIDE DEF i, table
    <3> QED BY <2>1, Pairs
  <2>4. LookupTable(table)
    BY <2>1, NodesAssumption
  <2> HIDE DEF table, m
  <2>5. \A x \in KeysAt(table) : table.children[x].scalar = key => x = at
    <3>1. at = 2 * i - 1
      OBVIOUS
    <3> HIDE DEF at, i
    <3> QED BY <1>5, <2>1, <2>3, <2>4, <3>1 DEF LookupTable
  <2>6. chosen = at
    <3> HIDE DEF at, i
    <3>1. table.children[at].scalar = key
      BY <1>5, <2>1 DEF at
    <3>2. chosen \in KeysAt(m) /\ m.children[chosen].scalar = key
      BY <2>2, <2>3, <3>1 DEF chosen
    <3> QED BY <2>2, <2>5, <3>2
  <2>7. 3 + at = 2 * k - 4
    OBVIOUS
  <2> HIDE DEF at
  <2>8. Len(list) = 3
    BY <1>1, <1>7, <1>5
  <2>9. Place(path) = 3 + at
    BY <1>4, <2>6, <2>8
  <2> QED BY <1>2, <1>3, <1>7, <2>7, <2>9 DEF path
<1> QED BY <1>6, <1>7

(* A part of the declaration, requirement by requirement.                  *)
LEMMA Entries ==
  ASSUME Readable, NEW k \in 1 .. Count
  PROVE  /\ IsPath(Part(k)) /\ Len(Part(k)) \in Nat
         /\ \A j \in 1 .. Len(Part(k)) : Present(k)
         /\ Present(k) =>
              /\ Len(Part(k)) = Len(ListOf(k).children)
              /\ DOMAIN ListOf(k).children = 1 .. Len(ListOf(k).children)
              /\ \A j \in 1 .. Len(Part(k)) :
                   /\ Part(k)[j].path = NthPath(PathOf(k), j)
                   /\ Part(k)[j].subject = ListOf(k).children[j]
                   /\ Part(k)[j].scope = NameOf(k)
<1>1. CASE Present(k)
  <2> DEFINE items == ListOf(k).children
             entry(i) == [scope |-> NameOf(k), subject |-> items[i], path |-> NthPath(PathOf(k), i)]
             entries == {entry(i) : i \in 1 .. Len(items)}
  <2>1. ListOf(k) \in Nodes
    BY <1>1, Located DEF At
  <2>2. items \in Seq(Nodes) /\ Len(items) \in Nat /\ DOMAIN items = 1 .. Len(items)
    BY <2>1, ChildrenAreNodes, LenProperties
  <2>3. Part(k) = [i \in 1 .. Len(items) |-> entry(i)]
    BY <1>1, <2>2 DEF Part, InScope
  <2>4. Part(k) \in Seq(entries)
    <3> HIDE DEF entry, items
    <3>1. \A i \in 1 .. Len(items) : entry(i) \in entries
      OBVIOUS
    <3> HIDE DEF entries
    <3> QED BY <2>2, <2>3, <3>1, SeqDef
  <2>5. Len(Part(k)) = Len(items)
    <3> HIDE DEF entry, items
    <3> QED BY <2>2, <2>3
  <2>6. \A j \in 1 .. Len(items) : Part(k)[j] = entry(j)
    BY <2>3
  <2>7. IsPath(Part(k))
    BY <2>4 DEF IsPath
  <2>8. \A j \in 1 .. Len(items) : /\ Part(k)[j].path = NthPath(PathOf(k), j)
                                   /\ Part(k)[j].subject = items[j]
                                   /\ Part(k)[j].scope = NameOf(k)
    <3>1. \A j : /\ entry(j).path = NthPath(PathOf(k), j) /\ entry(j).subject = items[j]
                 /\ entry(j).scope = NameOf(k)
      OBVIOUS
    <3> HIDE DEF entry, items
    <3> QED BY <2>6, <3>1
  <2> HIDE DEF entry
  <2> QED BY <1>1, <2>2, <2>5, <2>7, <2>8
<1>2. CASE ~Present(k)
  <2>1. Part(k) = << >>
    BY <1>2 DEF Part
  <2>2. IsPath(<< >>) /\ Len(<< >>) = 0
    BY RootSafe DEF SafePath, Root
  <2> QED BY <1>2, <2>1, <2>2
<1> QED BY <1>1, <1>2

(* requirements_value() writes the parts one after the other.              *)
LEMMA PartByPart ==
  ASSUME Readable
  PROVE  Declared(Wanted, Top) = FlattenSeq(Parts)
<1> DEFINE half == Len(Hooks) \div 2
           Fixed(scope) == IF HasKey(Wanted, scope)
                             THEN InScope(scope, FindKey(Wanted, scope), ChildPath(Top, scope))
                             ELSE << >>
           OnAction(action, list) == InScope(action, list, ChildPath(Under, action))
           fixed == [i \in DOMAIN Scopes |-> Fixed(Scopes[i])]
           hooked == [i \in 1 .. half |-> OnAction(Hooks[2 * i - 1].scalar, Hooks[2 * i])]
           U == {Part(k) : k \in 1 .. Count}
<1>1. Declared(Wanted, Top) = FlattenSeq(fixed \o hooked)
  BY DEF Declared, Hooks, Under
<1>2. half \in Nat /\ Count = 3 + half
  BY Tables
<1>3. DOMAIN Scopes = 1 .. 3
  BY DEF Scopes
<1>4. ASSUME NEW i \in 1 .. 3 PROVE i \in 1 .. Count /\ fixed[i] = Part(i)
  <2>1. i \in 1 .. Count /\ i <= 3
    BY <1>2
  <2>2. HasKey(Wanted, Scopes[i]) <=> Present(i)
    BY <2>1 DEF HasKey, KeySet, Present
  <2>3. NameOf(i) = Scopes[i] /\ ListOf(i) = FindKey(Wanted, Scopes[i])
        /\ PathOf(i) = ChildPath(Top, Scopes[i])
    BY <2>1 DEF NameOf, ListOf, PathOf
  <2>4. fixed[i] = Fixed(Scopes[i])
    BY <1>3
  <2> HIDE DEF fixed
  <2> QED BY <2>1, <2>2, <2>3, <2>4 DEF Part
<1>5. ASSUME NEW i \in 1 .. half PROVE 3 + i \in 1 .. Count /\ hooked[i] = Part(3 + i)
  <2> DEFINE k == 3 + i
  <2>1. k \in 1 .. Count /\ ~(k <= 3) /\ k - 3 = i
    BY <1>2
  <2> HIDE DEF k
  <2>2. NameOf(k) = Hooks[2 * i - 1].scalar /\ ListOf(k) = Hooks[2 * i]
    BY <2>1 DEF NameOf, ListOf
  <2>3. PathOf(k) = ChildPath(Under, NameOf(k)) /\ Present(k)
    BY <2>1 DEF PathOf, Present
  <2>4. hooked[i] = OnAction(NameOf(k), ListOf(k))
    BY <2>2
  <2> HIDE DEF hooked
  <2>5. hooked[i] = Part(k)
    BY <2>3, <2>4 DEF Part
  <2> QED BY <2>1, <2>5 DEF k
<1>6. fixed \in Seq(U) /\ Len(fixed) = 3 /\ hooked \in Seq(U) /\ Len(hooked) = half
  <2>1. DOMAIN fixed = 1 .. 3 /\ fixed = [i \in 1 .. 3 |-> fixed[i]] /\ Len(fixed) = 3
    <3>1. fixed = [i \in 1 .. 3 |-> Fixed(Scopes[i])]
      BY <1>3
    <3> HIDE DEF Fixed, fixed
    <3> QED BY <3>1
  <2>2. DOMAIN hooked = 1 .. half /\ hooked = [i \in 1 .. half |-> hooked[i]] /\ Len(hooked) = half
    <3> HIDE DEF OnAction, half
    <3> QED BY <1>2
  <2> HIDE DEF fixed, hooked, half
  <2>3. (\A i \in 1 .. 3 : fixed[i] \in U) /\ (\A i \in 1 .. half : hooked[i] \in U)
    BY <1>4, <1>5
  <2> HIDE DEF U
  <2>4. fixed \in [1 .. 3 -> U] /\ hooked \in [1 .. half -> U]
    BY <2>1, <2>2, <2>3
  <2>5. fixed \in Seq(U) /\ hooked \in Seq(U)
    <3>1. \A n \in Nat : [1 .. n -> U] \subseteq Seq(U)
      BY SeqDef
    <3>2. 3 \in Nat /\ half \in Nat
      BY <1>2
    <3> QED BY <2>4, <3>1, <3>2
  <2> QED BY <2>1, <2>2, <2>5
<1>7. Parts \in Seq(U) /\ Len(Parts) = Count /\ \A k \in 1 .. Count : Parts[k] = Part(k)
  <2>1. Count \in Nat
    BY <1>2
  <2>2. Len(Parts) = Count /\ DOMAIN Parts = 1 .. Count /\ \A k \in 1 .. Count : Parts[k] = Part(k)
    BY <2>1 DEF Parts
  <2>3. Parts \in [1 .. Count -> U]
    BY DEF Parts
  <2> HIDE DEF U
  <2> QED BY <2>1, <2>2, <2>3, SeqDef
<1> HIDE DEF fixed, hooked, half, U
<1>8. /\ fixed \o hooked \in Seq(U) /\ Len(fixed \o hooked) = Count
      /\ \A i \in 1 .. Count : (fixed \o hooked)[i] = IF i <= 3 THEN fixed[i] ELSE hooked[i - 3]
  <2>1. /\ fixed \o hooked \in Seq(U) /\ Len(fixed \o hooked) = Len(fixed) + Len(hooked)
        /\ \A i \in 1 .. Len(fixed) + Len(hooked) :
             (fixed \o hooked)[i] = IF i <= Len(fixed) THEN fixed[i] ELSE hooked[i - Len(fixed)]
    BY <1>6, ConcatProperties
  <2>2. Len(fixed) + Len(hooked) = Count
    BY <1>2, <1>6
  <2> QED BY <1>6, <2>1, <2>2
<1>9. \A k \in 1 .. Count : (fixed \o hooked)[k] = Part(k)
  <2> SUFFICES ASSUME NEW k \in 1 .. Count PROVE (fixed \o hooked)[k] = Part(k)
    OBVIOUS
  <2>1. CASE k <= 3
    BY <1>4, <1>8, <2>1
  <2>2. CASE ~(k <= 3)
    <3>1. k - 3 \in 1 .. half /\ 3 + (k - 3) = k
      BY <1>2, <2>2
    <3>2. hooked[k - 3] = Part(k)
      BY <1>5, <3>1
    <3> QED BY <1>8, <2>2, <3>2
  <2> QED BY <2>1, <2>2
<1>10. fixed \o hooked = Parts
  <2>1. \A i \in 1 .. Len(Parts) : Parts[i] = (fixed \o hooked)[i]
    BY <1>9, <1>7
  <2> QED BY <1>8, <1>7, <2>1, SeqEqual
<1> QED BY <1>1, <1>10

(* The paths of the document's requirements are those in the parts.        *)
LEMMA PathsOfParts ==
  ASSUME Readable, NEW path
  PROVE  path \in RequirementPaths
           <=> \E k \in 1 .. Count : /\ Present(k)
                                     /\ \E j \in DOMAIN ListOf(k).children :
                                          path = NthPath(PathOf(k), j)
<1> DEFINE table == FindKey(Wanted, "lifecycle")
           hooks == IF HasKey(Wanted, "lifecycle")
                      THEN {ChildPath(Under, key) : key \in KeySet(table)} ELSE {}
           lists == {ChildPath(Top, key) : key \in KeySet(Wanted) \ {"lifecycle"}} \union hooks
<1>1. RequirementPaths =
        UNION {{ItemPath(list, i - 1) : i \in DOMAIN NodeAt(doc, list).children} : list \in lists}
  BY DEF RequirementPaths, Wanted, Top, Under
<1>2. ASSUME NEW list \in lists PROVE \E k \in 1 .. Count : Present(k) /\ list = PathOf(k)
  <2>1. ASSUME NEW key \in KeySet(Wanted) \ {"lifecycle"}, list = ChildPath(Top, key)
        PROVE  \E k \in 1 .. Count : Present(k) /\ list = PathOf(k)
    <3>1. PICK k \in 1 .. 3 : Scopes[k] = key
      <4>1. key \in {"build", "run", "check"}
        BY <2>1, Tables
      <4>2. Scopes[1] = "build" /\ Scopes[2] = "run" /\ Scopes[3] = "check"
        BY DEF Scopes
      <4> QED BY <4>1, <4>2
    <3>2. k \in 1 .. Count /\ k <= 3
      BY Tables
    <3>3. Present(k) /\ list = PathOf(k)
      BY <2>1, <3>1, <3>2 DEF Present, PathOf, NameOf
    <3> QED BY <3>2, <3>3
  <2>2. ASSUME "lifecycle" \in KeySet(Wanted), NEW key \in KeySet(table), list = ChildPath(Under, key)
        PROVE  \E k \in 1 .. Count : Present(k) /\ list = PathOf(k)
    <3>1. table \in Nodes /\ table.kind = "mapping" /\ Hooks = table.children
      BY <2>2, Tables DEF Hooks
    <3>2. PICK i \in 1 .. Len(table.children) \div 2 : table.children[2 * i - 1].scalar = key
      BY <3>1, Pairs
    <3> DEFINE k == 3 + i
               half == Len(table.children) \div 2
    <3>3. k \in 1 .. Count /\ ~(k <= 3) /\ k - 3 = i
      <4>1. half \in Nat /\ Count = 3 + half /\ i \in 1 .. half
        BY <3>1, Tables
      <4> HIDE DEF half
      <4> QED BY <4>1
    <3> HIDE DEF k, table
    <3>4. Present(k) /\ NameOf(k) = key
      BY <3>1, <3>2, <3>3 DEF Present, NameOf
    <3>5. list = PathOf(k)
      BY <2>2, <3>3, <3>4 DEF PathOf
    <3> QED BY <3>3, <3>4, <3>5
  <2>3. HasKey(Wanted, "lifecycle") <=> "lifecycle" \in KeySet(Wanted)
    BY Tables
  <2> HIDE DEF table
  <2> QED BY <2>1, <2>2, <2>3
<1>3. ASSUME NEW k \in 1 .. Count, Present(k) PROVE PathOf(k) \in lists
  <2>1. CASE k <= 3
    <3>1. k \in 1 .. 3 /\ NameOf(k) = Scopes[k] /\ NameOf(k) \in KeySet(Wanted)
      BY <1>3, <2>1 DEF Present, NameOf
    <3>2. NameOf(k) # "lifecycle"
      BY <3>1 DEF Scopes
    <3>3. PathOf(k) = ChildPath(Top, NameOf(k))
      BY <2>1 DEF PathOf
    <3> HIDE DEF hooks
    <3> QED BY <3>1, <3>2, <3>3
  <2>2. CASE ~(k <= 3)
    <3>1. k > 3
      BY <2>2
    <3>2. "lifecycle" \in KeySet(Wanted) /\ NameOf(k) \in KeySet(table)
      BY <3>1, Hook
    <3>3. PathOf(k) = ChildPath(Under, NameOf(k)) /\ HasKey(Wanted, "lifecycle")
      BY <2>2, <3>2, Tables DEF PathOf
    <3> HIDE DEF table
    <3> QED BY <3>2, <3>3
  <2> QED BY <2>1, <2>2
<1>4. \A k \in 1 .. Count : Present(k) => NodeAt(doc, PathOf(k)) = ListOf(k)
  BY Located DEF At
<1> HIDE DEF lists
<1>5. path \in RequirementPaths <=>
        \E list \in lists : \E j \in DOMAIN NodeAt(doc, list).children : path = NthPath(list, j)
  BY <1>1 DEF NthPath
<1> QED BY <1>2, <1>3, <1>4, <1>5

(* So a declaration that has its parts one after the other is in order.    *)
LEMMA OrderOfParts ==
  ASSUME Readable, requirements = Declared(Wanted, Top)
  PROVE  DeclaredInOrder
<1>1. IsPath(Parts) /\ Len(Parts) = Count /\ Count > 0 /\ \A k \in 1 .. Count : Parts[k] = Part(k)
  <2>1. Count \in Nat /\ Count > 0
    BY Tables
  <2>2. Len(Parts) = Count /\ \A k \in 1 .. Count : Parts[k] = Part(k)
    BY <2>1 DEF Parts
  <2>3. Parts \in [1 .. Count -> {Part(k) : k \in 1 .. Count}]
    BY DEF Parts
  <2>4. Parts \in Seq({Part(k) : k \in 1 .. Count})
    BY <2>1, <2>3, SeqDef
  <2> QED BY <2>1, <2>2, <2>4 DEF IsPath
<1>2. PICK from, at : Spreads(requirements, Parts, Count, from, at)
  <2>1. \A k \in 1 .. Len(Parts) : IsPath(Parts[k])
    BY <1>1, Entries
  <2>2. \E from, at : Spreads(FlattenSeq(Parts), Parts, Len(Parts), from, at)
    BY <1>1, <2>1, Flattened
  <2> QED BY <1>1, <2>2, PartByPart
<1> DEFINE n == Len(requirements)
<1>3. DOMAIN requirements = 1 .. n /\ n \in Nat
  BY <1>2, LenProperties DEF Spreads
<1>4. ASSUME NEW i \in 1 .. n
      PROVE  /\ from[i] \in 1 .. Count /\ Present(from[i])
             /\ at[i] \in 1 .. Len(ListOf(from[i]).children)
             /\ at[i] \in DOMAIN ListOf(from[i]).children
             /\ requirements[i].path = NthPath(PathOf(from[i]), at[i])
             /\ requirements[i].subject = ListOf(from[i]).children[at[i]]
             /\ requirements[i].scope = NameOf(from[i])
  <2> DEFINE k == from[i]
             j == at[i]
  <2>1. k \in 1 .. Count /\ j \in 1 .. Len(Part(k)) /\ requirements[i] = Part(k)[j]
    BY <1>1, <1>2 DEF Spreads
  <2> HIDE DEF k, j
  <2>2. Present(k)
    BY <2>1, Entries
  <2>3. /\ Len(Part(k)) = Len(ListOf(k).children)
        /\ DOMAIN ListOf(k).children = 1 .. Len(ListOf(k).children)
        /\ Part(k)[j].path = NthPath(PathOf(k), j)
        /\ Part(k)[j].subject = ListOf(k).children[j] /\ Part(k)[j].scope = NameOf(k)
    BY <2>1, <2>2, Entries
  <2> QED BY <2>1, <2>2, <2>3 DEF k, j
<1>5. \A k \in 1 .. Count : Present(k) =>
        \A j \in DOMAIN ListOf(k).children :
          \E i \in 1 .. n : requirements[i].path = NthPath(PathOf(k), j)
  <2> SUFFICES ASSUME NEW k \in 1 .. Count, Present(k), NEW j \in DOMAIN ListOf(k).children
               PROVE  \E i \in 1 .. n : requirements[i].path = NthPath(PathOf(k), j)
    OBVIOUS
  <2>1. j \in 1 .. Len(Parts[k])
    BY <1>1, Entries
  <2>2. PICK i \in 1 .. n : from[i] = k /\ at[i] = j
    BY <1>2, <2>1 DEF Spreads
  <2> QED BY <1>4, <2>2
<1> HIDE DEF n
<1>6. {requirements[i].path : i \in DOMAIN requirements} = RequirementPaths
  <2>1. ASSUME NEW path
        PROVE  path \in RequirementPaths <=> \E i \in 1 .. n : path = requirements[i].path
    BY <1>4, <1>5, PathsOfParts
  <2> QED BY <1>3, <2>1
<1>7. ASSUME NEW i \in 1 .. n
      PROVE  LET path == requirements[i].path
             IN  /\ requirements[i].subject = NodeAt(doc, path)
                 /\ requirements[i].scope = Last(Front(path))[2]
                 /\ Last(path)[2] = at[i] - 1
                 /\ Place(path) = IF from[i] <= 3 THEN from[i] ELSE 2 * from[i] - 4
  <2> DEFINE k == from[i]
             j == at[i]
             path == NthPath(PathOf(k), j)
  <2>1. /\ k \in 1 .. Count /\ Present(k) /\ j \in 1 .. Len(ListOf(k).children)
        /\ requirements[i].path = path /\ requirements[i].subject = ListOf(k).children[j]
        /\ requirements[i].scope = NameOf(k)
    BY <1>4
  <2> HIDE DEF k, j
  <2>2. /\ At(doc, path, ListOf(k).children[j])
        /\ Front(path) = PathOf(k) /\ Last(path)[2] = j - 1
        /\ Place(path) = IF k <= 3 THEN k ELSE 2 * k - 4
    BY <2>1, Placed
  <2>3. Last(PathOf(k))[2] = NameOf(k)
    BY <2>1, Located
  <2> HIDE DEF path
  <2> QED BY <2>1, <2>2, <2>3 DEF At, k, j
<1>8. ASSUME NEW i \in 1 .. n, NEW j \in 1 .. n, i < j
      PROVE  LET a == requirements[i].path
                 b == requirements[j].path
             IN  \/ Place(a) < Place(b)
                 \/ Place(a) = Place(b) /\ Last(a)[2] < Last(b)[2]
  <2>1. /\ from[i] < from[j] \/ (from[i] = from[j] /\ at[i] < at[j])
        /\ from[i] \in Nat /\ from[j] \in Nat /\ at[i] \in Nat /\ at[j] \in Nat
    <3>1. from[i] < from[j] \/ (from[i] = from[j] /\ at[i] < at[j])
      BY <1>2, <1>8 DEF Spreads, n
    <3>2. \A x \in 1 .. n : from[x] \in Nat /\ at[x] \in Nat
      BY <1>4, Indices
    <3> QED BY <3>1, <3>2
  <2> DEFINE rank(k) == IF k <= 3 THEN k ELSE 2 * k - 4
             a == requirements[i].path
             b == requirements[j].path
  <2>2. /\ Place(a) = rank(from[i]) /\ Place(b) = rank(from[j])
        /\ Last(a)[2] = at[i] - 1 /\ Last(b)[2] = at[j] - 1
    BY <1>7
  <2>3. from[i] < from[j] => rank(from[i]) < rank(from[j])
    BY <2>1
  <2>4. at[i] < at[j] => at[i] - 1 < at[j] - 1
    BY <2>1
  <2> HIDE DEF a, b, rank
  <2>5. \/ Place(a) < Place(b)
        \/ Place(a) = Place(b) /\ Last(a)[2] < Last(b)[2]
    BY <2>1, <2>2, <2>3, <2>4
  <2> QED BY <2>5 DEF a, b
<1> QED BY <1>3, <1>6, <1>7, <1>8 DEF DeclaredInOrder

(* The requirements are the declared ones as soon as they are computed.    *)
Computed ==
  /\ stage \in {"root", "arguments", "returned", "failed"}
  /\ stage # "failed" /\ "requirements" \notin todo => requirements = Declared(Wanted, Top)

(* No step changes them afterwards, nor the document.                      *)
LEMMA StepsCompute == IInv /\ Computed /\ [Next]_vars => Computed'
<1> SUFFICES ASSUME Progress, Computed, [Next]_vars PROVE Computed'
  BY DEF IInv
<1>1. ASSUME UNCHANGED <<doc, todo, requirements>>,
             stage' # "failed" => stage # "failed",
             stage' \in {"root", "arguments", "returned", "failed"}
      PROVE  Computed'
  BY <1>1 DEF Computed, Wanted, Top, Declared
<1>2. ASSUME stage' = "failed" PROVE Computed'
  BY <1>2 DEF Computed
<1>3. CASE CheckRoot
  BY <1>1, <1>2, <1>3 DEF CheckRoot, Throw
<1>4. ASSUME NEW argument \in todo, Evaluate(argument) PROVE Computed'
  <2>1. CASE ArgumentCheck(argument) # OK
    BY <1>2, <1>4, <2>1 DEF Evaluate, Throw
  <2>2. CASE ArgumentCheck(argument) = OK
    <3>1. /\ UNCHANGED <<doc, stage>> /\ todo' = todo \ {argument} /\ stage = "arguments"
          /\ requirements' = IF argument = "requirements"
                               THEN Declared(FindKey(doc, argument), PathTo(argument))
                               ELSE requirements
      BY <1>4, <2>2 DEF Evaluate
    <3>2. Declared(Wanted, Top)' = Declared(Wanted, Top)
      BY <3>1 DEF Wanted, Top
    <3> QED BY <3>1, <3>2 DEF Computed, Wanted, Top
  <2> QED BY <2>1, <2>2
<1>5. CASE Return
  BY <1>1, <1>5 DEF Return
<1>6. CASE UNCHANGED vars
  BY <1>1, <1>6 DEF vars, Computed
<1> QED BY <1>3, <1>4, <1>5, <1>6 DEF Next

(* parse_recipe_yaml() declares every requirement of the document once,    *)
(* with the path that leads to it, and in the order of the protocol.       *)
THEOREM RequirementsInOrder == Spec => []DeclaredInOrder
<1>1. Init => IInv /\ Computed
  BY Initially DEF Init, Arguments, Computed
<1>2. IInv /\ [Next]_vars => IInv'
  BY ThrowsContained, StepsProgress DEF IInv
<1>3. IInv /\ Computed => DeclaredInOrder
  <2> SUFFICES ASSUME Progress, Computed, stage # "failed", "requirements" \notin todo
               PROVE  DeclaredInOrder
    BY DEF IInv, DeclaredInOrder
  <2>1. stage \in {"arguments", "returned"}
    BY DEF Progress, Arguments, Computed
  <2>2. Readable
    BY <2>1, RecipeDocuments DEF Progress, Readable, Demands, Arguments, Wanted
  <2> QED BY <2>2, OrderOfParts DEF Computed
<1> QED BY <1>1, <1>2, <1>3, StepsCompute, PTL DEF Spec

-----------------------------------------------------------------------------
(* release_value().                                                        *)

(* The totals Value() reaches on a text, digit by digit.                   *)
Totals(s, v) ==
  v = [n \in 0 .. Len(s) |-> IF n = 0 THEN 0 ELSE 10 * v[n - 1] + s[n]]

(* Value() is defined on every text of digits.                             *)
LEMMA ValueTotals ==
  ASSUME NEW s \in Seq(Digits)
  PROVE  \E v : Totals(s, v) /\ Value(s) = v[Len(s)]
<1> DEFINE Upto(n, v) == v = [k \in 0 .. n |-> IF k = 0 THEN 0 ELSE 10 * v[k - 1] + s[k]]
           S == {n \in Nat : \E v : Upto(n, v)}
<1>1. ASSUME NEW n \in Nat, \A m \in Nat : m < n => m \in S PROVE n \in S
  <2>1. CASE n = 0
    <3> DEFINE z == [k \in 0 .. n |-> 0]
    <3>1. ASSUME NEW k \in 0 .. n PROVE z[k] = IF k = 0 THEN 0 ELSE 10 * z[k - 1] + s[k]
      <4>1. k = 0
        BY <2>1
      <4> QED BY <4>1
    <3>2. Upto(n, z)
      BY <3>1
    <3> QED BY <3>2
  <2>2. CASE n # 0
    <3>1. n - 1 \in S /\ n - 1 \in Nat
      <4>1. n - 1 \in Nat /\ n - 1 < n
        BY <2>2
      <4> HIDE DEF S
      <4> QED BY <1>1, <4>1
    <3>2. PICK v : Upto(n - 1, v)
      BY <3>1
    <3> DEFINE w == [k \in 0 .. n |-> IF k = n THEN 10 * v[n - 1] + s[n] ELSE v[k]]
    <3>3. ASSUME NEW k \in 0 .. n PROVE w[k] = IF k = 0 THEN 0 ELSE 10 * w[k - 1] + s[k]
      <4>1. CASE k = n
        BY <2>2, <4>1
      <4>2. CASE k # n
        <5>1. k \in 0 .. n - 1 /\ (k # 0 => k - 1 \in 0 .. n - 1)
          BY <4>2
        <5>2. v[k] = IF k = 0 THEN 0 ELSE 10 * v[k - 1] + s[k]
          BY <3>2, <5>1
        <5>3. w[k] = v[k] /\ (k # 0 => w[k - 1] = v[k - 1])
          BY <4>2, <5>1
        <5> QED BY <5>2, <5>3
      <4> QED BY <4>1, <4>2
    <3>4. Upto(n, w)
      BY <3>3
    <3> QED BY <3>4
  <2> QED BY <2>1, <2>2
<1>2. \A n \in Nat : n \in S
  <2> HIDE DEF S
  <2> QED BY <1>1, LeastCounterexample
<1>3. Len(s) \in Nat
  BY LenProperties
<1>4. PICK v : Upto(Len(s), v)
  BY <1>2, <1>3
<1> QED BY <1>4 DEF Totals, Value

(* It counts the digits one by one.                                        *)
LEMMA TotalsGrow ==
  ASSUME NEW s \in Seq(Digits), NEW v, Totals(s, v)
  PROVE  /\ v[0] = 0
         /\ \A n \in 1 .. Len(s) : v[n] = 10 * v[n - 1] + s[n]
         /\ \A n \in 0 .. Len(s) : v[n] \in Nat
<1>1. Len(s) \in Nat /\ \A n \in 1 .. Len(s) : s[n] \in Nat
  BY LenProperties, ElementOfSeq DEF Digits
<1>2. v[0] = 0 /\ \A n \in 1 .. Len(s) : v[n] = 10 * v[n - 1] + s[n]
  BY <1>1 DEF Totals
<1> DEFINE S == {n \in Nat : n <= Len(s) => v[n] \in Nat}
<1>3. ASSUME NEW n \in Nat, \A m \in Nat : m < n => m \in S PROVE n \in S
  <2>1. CASE n = 0
    BY <1>2, <2>1
  <2>2. CASE n # 0 /\ n <= Len(s)
    <3>1. n - 1 \in S /\ n - 1 \in Nat /\ n - 1 <= Len(s) /\ n \in 1 .. Len(s)
      BY <1>1, <1>3, <2>2
    <3>2. v[n - 1] \in Nat /\ v[n] = 10 * v[n - 1] + s[n] /\ s[n] \in Nat
      BY <1>1, <1>2, <3>1
    <3> QED BY <3>2
  <2>3. CASE n > Len(s)
    BY <1>1, <2>3
  <2> QED BY <1>1, <2>1, <2>2, <2>3
<1>4. \A n \in Nat : n \in S
  <2> HIDE DEF S
  <2> QED BY <1>3, LeastCounterexample
<1> QED BY <1>1, <1>2, <1>4

(* One digit more.                                                         *)
LEMMA ValueGrows ==
  /\ Value(<< >>) = 0
  /\ \A s \in Seq(Digits) : Value(s) \in Nat
  /\ \A s \in Seq(Digits) : \A d \in Digits :
       Value(Append(s, d)) = 10 * Value(s) + d
<1>1. Value(<< >>) = 0
  <2>1. << >> \in Seq(Digits) /\ Len(<< >>) = 0
    BY EmptySeq
  <2>2. PICK v : Totals(<< >>, v) /\ Value(<< >>) = v[0]
    BY <2>1, ValueTotals
  <2> QED BY <2>1, <2>2, TotalsGrow
<1>2. ASSUME NEW s \in Seq(Digits) PROVE Value(s) \in Nat
  <2>1. PICK v : Totals(s, v) /\ Value(s) = v[Len(s)]
    BY ValueTotals
  <2>2. Len(s) \in 0 .. Len(s)
    BY LenProperties
  <2> QED BY <2>1, <2>2, TotalsGrow
<1>3. ASSUME NEW s \in Seq(Digits), NEW d \in Digits
      PROVE  Value(Append(s, d)) = 10 * Value(s) + d
  <2> DEFINE t == Append(s, d)
  <2>1. /\ t \in Seq(Digits) /\ Len(t) = Len(s) + 1 /\ Len(s) \in Nat
        /\ \A n \in 1 .. Len(s) : t[n] = s[n]
        /\ t[Len(s) + 1] = d
    BY AppendProperties, LenProperties
  <2> HIDE DEF t
  <2>2. PICK v : Totals(s, v) /\ Value(s) = v[Len(s)]
    BY ValueTotals
  <2>3. PICK w : Totals(t, w) /\ Value(t) = w[Len(t)]
    BY <2>1, ValueTotals
  <2>4. /\ v[0] = 0 /\ \A n \in 1 .. Len(s) : v[n] = 10 * v[n - 1] + s[n]
        /\ w[0] = 0 /\ \A n \in 1 .. Len(t) : w[n] = 10 * w[n - 1] + t[n]
    BY <2>1, <2>2, <2>3, TotalsGrow
  <2> DEFINE S == {n \in Nat : n <= Len(s) => w[n] = v[n]}
  <2>5. ASSUME NEW n \in Nat, \A m \in Nat : m < n => m \in S PROVE n \in S
    <3>1. CASE n = 0
      BY <2>4, <3>1
    <3>2. CASE n # 0 /\ n <= Len(s)
      <4>1. n - 1 \in S /\ n - 1 \in Nat /\ n - 1 <= Len(s) /\ n \in 1 .. Len(s) /\ n \in 1 .. Len(t)
        BY <2>1, <2>5, <3>2
      <4>2. w[n - 1] = v[n - 1] /\ w[n] = 10 * w[n - 1] + t[n] /\ v[n] = 10 * v[n - 1] + s[n]
            /\ t[n] = s[n]
        BY <2>1, <2>4, <4>1
      <4> QED BY <4>2
    <3>3. CASE n > Len(s)
      BY <2>1, <3>3
    <3> QED BY <2>1, <3>1, <3>2, <3>3
  <2>6. \A n \in Nat : n \in S
    <3> HIDE DEF S
    <3> QED BY <2>5, LeastCounterexample
  <2>7. w[Len(s)] = v[Len(s)]
    BY <2>1, <2>6
  <2>8. w[Len(s) + 1] = 10 * w[Len(s)] + d
    <3>1. Len(s) + 1 \in 1 .. Len(t) /\ Len(s) + 1 - 1 = Len(s)
      BY <2>1
    <3> QED BY <2>1, <2>4, <3>1
  <2> QED BY <2>1, <2>2, <2>3, <2>7, <2>8 DEF t
<1> QED BY <1>1, <1>2, <1>3

(* What Decimal writes of a number, given what it writes of smaller ones.  *)
Written(n) ==
  IF n = 0 THEN << >> ELSE Append(Decimal[n \div 10], n % 10)

(* A number is its tenth, and a last digit; the tenth is smaller.          *)
LEMMA Tenth ==
  ASSUME NEW n \in Nat
  PROVE  /\ n \div 10 \in Nat /\ n % 10 \in 0 .. 9 /\ n = (n \div 10) * 10 + (n % 10)
         /\ n > 0 => n \div 10 < n
OBVIOUS

(* Decimal is defined on every number.                                     *)
LEMMA DecimalDigits == Decimal = [n \in Nat |-> Written(n)]
<1> DEFINE Upto(n, f) ==
             f = [k \in 0 .. n |-> IF k = 0 THEN << >> ELSE Append(f[k \div 10], k % 10)]
           S == {n \in Nat : \E f : Upto(n, f)}
<1>1. ASSUME NEW n \in Nat, NEW k \in 0 .. n
      PROVE  /\ k \in Nat /\ k \div 10 \in 0 .. n
             /\ k # 0 => k \div 10 \in 0 .. k - 1
  BY Tenth
<1>2. ASSUME NEW n \in Nat, \A m \in Nat : m < n => m \in S PROVE n \in S
  <2>1. CASE n = 0
    <3> DEFINE z == [k \in 0 .. n |-> << >>]
    <3>1. ASSUME NEW k \in 0 .. n
          PROVE  z[k] = IF k = 0 THEN << >> ELSE Append(z[k \div 10], k % 10)
      <4>1. k = 0
        BY <2>1
      <4> QED BY <4>1
    <3>2. Upto(n, z)
      BY <3>1
    <3> QED BY <3>2
  <2>2. CASE n # 0
    <3>1. n - 1 \in S /\ n - 1 \in Nat
      <4>1. n - 1 \in Nat /\ n - 1 < n
        BY <2>2
      <4> HIDE DEF S
      <4> QED BY <1>2, <4>1
    <3>2. PICK f : Upto(n - 1, f)
      BY <3>1
    <3> DEFINE g == [k \in 0 .. n |-> IF k = n THEN Append(f[n \div 10], n % 10) ELSE f[k]]
    <3>3. ASSUME NEW k \in 0 .. n
          PROVE  g[k] = IF k = 0 THEN << >> ELSE Append(g[k \div 10], k % 10)
      <4>0. k # 0 => /\ k \div 10 \in 0 .. n - 1 /\ k \div 10 \in 0 .. n /\ k \div 10 # n
                     /\ g[k \div 10] = f[k \div 10]
        <5>1. k # 0 => k \div 10 \in 0 .. k - 1
          BY <1>1
        <5>2. k # 0 => k \div 10 \in 0 .. n - 1 /\ k \div 10 \in 0 .. n /\ k \div 10 # n
          BY <5>1
        <5> QED BY <5>2
      <4>1. CASE k = n
        BY <2>2, <4>0, <4>1
      <4>2. CASE k # n
        <5>1. k \in 0 .. n - 1
          BY <4>2
        <5>2. f[k] = IF k = 0 THEN << >> ELSE Append(f[k \div 10], k % 10)
          BY <3>2, <5>1
        <5> QED BY <4>0, <4>2, <5>2
      <4> QED BY <4>1, <4>2
    <3>4. Upto(n, g)
      BY <3>3
    <3> QED BY <3>4
  <2> QED BY <2>1, <2>2
<1>3. \A n \in Nat : n \in S
  <2> HIDE DEF S
  <2> QED BY <1>2, LeastCounterexample
<1>4. ASSUME NEW n \in Nat, NEW m \in Nat, NEW f, NEW g, Upto(n, f), Upto(m, g)
      PROVE  \A k \in Nat : k <= n /\ k <= m => f[k] = g[k]
  <2> DEFINE T == {k \in Nat : k <= n /\ k <= m => f[k] = g[k]}
  <2>1. ASSUME NEW k \in Nat, \A j \in Nat : j < k => j \in T PROVE k \in T
    <3> SUFFICES ASSUME k <= n, k <= m PROVE f[k] = g[k]
      OBVIOUS
    <3>1. k \in 0 .. n /\ k \in 0 .. m
      OBVIOUS
    <3>2. /\ f[k] = IF k = 0 THEN << >> ELSE Append(f[k \div 10], k % 10)
          /\ g[k] = IF k = 0 THEN << >> ELSE Append(g[k \div 10], k % 10)
      BY <1>4, <3>1
    <3>3. k # 0 => f[k \div 10] = g[k \div 10]
      <4>1. k # 0 => k \div 10 \in Nat /\ k \div 10 < k /\ k \div 10 <= n /\ k \div 10 <= m
        BY Tenth
      <4> QED BY <2>1, <4>1
    <3> QED BY <3>2, <3>3
  <2> HIDE DEF T
  <2>2. \A k \in Nat : k \in T
    BY <2>1, LeastCounterexample
  <2> QED BY <2>2 DEF T
<1> DEFINE F(n) == CHOOSE f : Upto(n, f)
           D == [n \in Nat |-> F(n)[n]]
<1>5. \A n \in Nat : Upto(n, F(n))
  BY <1>3
<1>6. ASSUME NEW n \in Nat
      PROVE  D[n] = IF n = 0 THEN << >> ELSE Append(D[n \div 10], n % 10)
  <2>1. n \in 0 .. n /\ n \div 10 \in Nat /\ n \div 10 <= n
    BY Tenth
  <2> DEFINE f == F(n)
             g == F(n \div 10)
  <2>2. Upto(n, f) /\ Upto(n \div 10, g)
    BY <1>5, <2>1
  <2>3. D[n] = f[n] /\ D[n \div 10] = g[n \div 10]
    BY <2>1
  <2> HIDE DEF f, g, F
  <2>4. f[n] = IF n = 0 THEN << >> ELSE Append(f[n \div 10], n % 10)
    BY <2>1, <2>2
  <2>5. f[n \div 10] = g[n \div 10]
    <3>1. \A k \in Nat : k <= n /\ k <= n \div 10 => f[k] = g[k]
      <4> HIDE DEF Upto
      <4> QED BY <1>4, <2>1, <2>2
    <3>2. n \div 10 <= n \div 10
      BY <2>1
    <3> QED BY <2>1, <3>1, <3>2
  <2> QED BY <2>3, <2>4, <2>5
<1>7. D = [n \in Nat |-> IF n = 0 THEN << >> ELSE Append(D[n \div 10], n % 10)]
  <2> HIDE DEF F
  <2> QED BY <1>6
<1>8. Decimal = [n \in Nat |-> IF n = 0 THEN << >> ELSE Append(Decimal[n \div 10], n % 10)]
  <2> HIDE DEF D
  <2> QED BY <1>7 DEF Decimal
<1> QED BY <1>8 DEF Written

(* What is written is a canonical text, and its value is the number.       *)
LEMMA DecimalWrites ==
  ASSUME NEW n \in Nat
  PROVE  /\ Decimal[n] \in Seq(Digits)
         /\ Value(Decimal[n]) = n
         /\ n > 0 => Decimal[n] # << >> /\ Decimal[n][1] # 0
<1> DEFINE Sound(k) == LET t == Decimal[k]
                       IN  /\ t \in Seq(Digits) /\ Value(t) = k
                           /\ k > 0 => t # << >> /\ t[1] # 0
           S == {k \in Nat : Sound(k)}
<1>1. ASSUME NEW k \in Nat, \A m \in Nat : m < k => m \in S PROVE k \in S
  <2>1. CASE k = 0
    <3>1. Decimal[k] = << >>
      BY <2>1, DecimalDigits DEF Written
    <3>2. << >> \in Seq(Digits)
      BY EmptySeq
    <3>3. Value(<< >>) = 0
      BY ValueGrows
    <3>4. Sound(k)
      BY <2>1, <3>1, <3>2, <3>3
    <3> HIDE DEF Sound
    <3> QED BY <3>4
  <2>2. CASE k # 0
    <3> DEFINE q == k \div 10
               d == k % 10
               u == Decimal[q]
               t == Append(u, d)
    <3>1. q \in Nat /\ d \in Digits /\ k = q * 10 + d /\ q < k /\ d \in Nat
      BY <2>2, Tenth DEF Digits
    <3>2. Decimal[k] = t
      BY <2>2, DecimalDigits DEF Written
    <3> HIDE DEF q, d
    <3>3. u \in Seq(Digits) /\ Value(u) = q /\ (q > 0 => u # << >> /\ u[1] # 0)
      BY <1>1, <3>1
    <3> HIDE DEF u
    <3>4. /\ t \in Seq(Digits) /\ Len(t) = Len(u) + 1 /\ Len(u) \in Nat
          /\ \A i \in 1 .. Len(u) : t[i] = u[i]
          /\ t[Len(u) + 1] = d
      BY <3>1, <3>3, AppendProperties, LenProperties
    <3>5. Value(t) = k
      <4>1. Value(t) = 10 * q + d
        BY <3>1, <3>3, ValueGrows
      <4> QED BY <3>1, <4>1
    <3>6. t # << >>
      BY <3>4
    <3>7. t[1] # 0
      <4>1. CASE q > 0
        <5>1. 1 \in 1 .. Len(u)
          BY <3>3, <3>4, <4>1, EmptySeq
        <5> QED BY <3>3, <3>4, <4>1, <5>1
      <4>2. CASE q = 0
        <5>1. u = << >>
          BY <4>2, DecimalDigits DEF u, Written
        <5>2. t[1] = d /\ d # 0
          BY <2>2, <3>1, <3>4, <4>2, <5>1
        <5> QED BY <5>2
      <4> QED BY <3>1, <4>1, <4>2
    <3> HIDE DEF t
    <3> QED BY <3>2, <3>4, <3>5, <3>6, <3>7
  <2> QED BY <2>1, <2>2
<1> HIDE DEF S
<1>2. \A k \in Nat : k \in S
  BY <1>1, LeastCounterexample
<1> QED BY <1>2 DEF S

(* A canonical text is what is written for its value.                      *)
LEMMA ValueReads ==
  ASSUME NEW s \in Seq(Digits), s # << >>, s[1] # 0
  PROVE  Value(s) > 0 /\ Decimal[Value(s)] = s
<1> DEFINE Sound(t) == t # << >> /\ t[1] # 0 =>
                         Value(t) > 0 /\ Decimal[Value(t)] = t
           S == {n \in Nat : \A t \in Seq(Digits) : Len(t) = n => Sound(t)}
<1>1. ASSUME NEW n \in Nat, \A m \in Nat : m < n => m \in S,
             NEW t \in Seq(Digits), Len(t) = n, t # << >>, t[1] # 0
      PROVE  Value(t) > 0 /\ Decimal[Value(t)] = t
  <2> DEFINE u == SubSeq(t, 1, n - 1)
             d == t[n]
             v == Value(u)
  <2>1. n # 0 /\ n \in 1 .. n /\ n - 1 \in Nat
    BY <1>1, EmptySeq
  <2>2. /\ u \in Seq(Digits) /\ Len(u) = n - 1
        /\ \A i \in 1 .. n - 1 : u[i] = t[i]
    BY <1>1, <2>1, SubSeqProperties, ElementOfSeq
  <2>3. d \in Digits /\ d \in Nat /\ d <= 9
    BY <1>1, <2>1, ElementOfSeq DEF Digits
  <2> HIDE DEF u, d
  <2>4. Append(u, d) = t
    <3> DEFINE a == Append(u, d)
    <3>1. /\ a \in Seq(Digits) /\ Len(a) = n
          /\ \A i \in 1 .. n - 1 : a[i] = u[i]
          /\ a[n] = d
      BY <2>1, <2>2, <2>3, AppendProperties
    <3> HIDE DEF a
    <3>2. \A i \in 1 .. n : a[i] = t[i]
      BY <2>1, <2>2, <3>1 DEF d
    <3>3. a = t
      BY <1>1, <3>1, <3>2, SeqEqual
    <3> QED BY <3>3 DEF a
  <2>5. v \in Nat /\ Value(t) = 10 * v + d
    BY <2>2, <2>3, <2>4, ValueGrows
  <2>6. /\ (10 * v + d) \div 10 = v /\ (10 * v + d) % 10 = d
    <3> HIDE DEF v
    <3> QED BY <2>3, <2>5
  <2>7. Decimal[v] = u /\ (10 * v + d) > 0
    <3>1. CASE n = 1
      <4>1. u = << >>
        BY <2>2, <3>1, EmptySeq
      <4>2. v = 0
        BY <4>1, ValueGrows
      <4>3. Decimal[0] = << >>
        BY DecimalDigits DEF Written
      <4>4. d # 0
        BY <1>1, <3>1 DEF d
      <4> HIDE DEF v
      <4> QED BY <2>3, <4>1, <4>2, <4>3, <4>4
    <3>2. CASE n # 1
      <4>1. n - 1 \in S /\ u # << >> /\ u[1] # 0
        BY <1>1, <2>1, <2>2, <3>2, EmptySeq
      <4>2. v > 0 /\ Decimal[v] = u
        BY <2>2, <4>1
      <4> HIDE DEF v
      <4> QED BY <2>3, <2>5, <4>2
    <3> QED BY <3>1, <3>2
  <2> DEFINE w == 10 * v + d
  <2>8. w \in Nat /\ w # 0 /\ w \div 10 = v /\ w % 10 = d
    <3> HIDE DEF v
    <3> QED BY <2>3, <2>5, <2>6, <2>7
  <2>9. Decimal[w] = Append(Decimal[w \div 10], w % 10)
    <3> HIDE DEF w
    <3> QED BY <2>8, DecimalDigits DEF Written
  <2>10. Decimal[w] = t
    BY <2>4, <2>7, <2>8, <2>9
  <2> QED BY <2>5, <2>7, <2>10
<1>2. ASSUME NEW n \in Nat, \A m \in Nat : m < n => m \in S PROVE n \in S
  BY <1>1, <1>2
<1> HIDE DEF S
<1>3. \A n \in Nat : n \in S
  BY <1>2, LeastCounterexample
<1>4. Len(s) \in S /\ Len(s) \in Nat
  BY <1>3, LenProperties
<1> QED BY <1>4 DEF S

(* The lengths of a text's prefixes of digits.                             *)
Taken(s) == {n \in 0 .. Len(s) : \A i \in 1 .. n : s[i] \in Digits}

(* from_chars() reads the whole of a text just when it is all digits, and  *)
(* fails then just when it is empty or too large for 64 bits.              *)
LEMMA ReadsAll ==
  ASSUME NEW s \in Seq(Digits \union {NotADigit})
  PROVE  LET result == FromChars(s)
         IN  /\ result.read = Len(s) <=> s \in Seq(Digits)
             /\ s \in Seq(Digits) =>
                  IF s = << >> \/ Value(s) > Max64
                    THEN result.failed
                    ELSE ~result.failed /\ result.parsed = Value(s)
<1> DEFINE m == Max(Taken(s))
           number == Value(SubSeq(s, 1, m))
<1>1. Len(s) \in Nat /\ \A i \in 1 .. Len(s) : s[i] \in Digits \union {NotADigit}
  BY LenProperties, ElementOfSeq
<1>2. m \in Taken(s) /\ \A n \in Taken(s) : m >= n
  <2>1. Taken(s) \in SUBSET Nat /\ IsFiniteSet(Taken(s)) /\ 0 \in Taken(s)
    <3>1. IsFiniteSet(0 .. Len(s))
      BY <1>1, FS_Interval
    <3> QED BY <1>1, <3>1, FS_Subset DEF Taken
  <2> DEFINE G == {Len(s) - n : n \in Taken(s)}
  <2>2. G \in SUBSET Nat /\ G # {}
    BY <1>1, <2>1 DEF Taken
  <2>3. \E n \in Taken(s) : \A k \in Taken(s) : n >= k
    <3>1. Least(G) \in G /\ \A j \in G : Least(G) <= j
      BY <2>2, LeastIsIn
    <3>2. PICK n \in Taken(s) : Least(G) = Len(s) - n
      BY <3>1
    <3>3. \A k \in Taken(s) : Len(s) - n <= Len(s) - k
      BY <3>1, <3>2
    <3>4. \A k \in Taken(s) : n >= k
      BY <1>1, <3>3 DEF Taken
    <3> QED BY <3>4
  <2> QED BY <2>3 DEF Max
<1>3. FromChars(s) =
        IF m = 0 \/ number > Max64
          THEN [failed |-> TRUE, read |-> m, parsed |-> 0]
          ELSE [failed |-> FALSE, read |-> m, parsed |-> number]
  BY DEF FromChars, Taken
<1>4. FromChars(s).read = m
  <2> HIDE DEF m
  <2> QED BY <1>3
<1> HIDE DEF m
<1>5. m = Len(s) <=> s \in Seq(Digits)
  <2>1. ASSUME m = Len(s) PROVE s \in Seq(Digits)
    <3>1. \A i \in 1 .. Len(s) : s[i] \in Digits
      BY <1>2, <2>1 DEF Taken, Digits
    <3> QED BY <1>1, <3>1, SeqDef
  <2>2. ASSUME s \in Seq(Digits) PROVE m = Len(s)
    <3>1. Len(s) \in Taken(s)
      BY <1>1, <2>2, ElementOfSeq DEF Taken, Digits
    <3> QED BY <1>1, <1>2, <3>1 DEF Taken
  <2> QED BY <2>1, <2>2
<1>6. ASSUME s \in Seq(Digits)
      PROVE  IF s = << >> \/ Value(s) > Max64
               THEN FromChars(s).failed
               ELSE ~FromChars(s).failed /\ FromChars(s).parsed = Value(s)
  <2>1. m = Len(s)
    BY <1>5, <1>6
  <2>2. SubSeq(s, 1, m) = s
    BY <1>1, <1>6, <2>1, SubSeqProperties, SeqEqual
  <2>3. s = << >> <=> m = 0
    BY <1>6, <2>1, EmptySeq
  <2>4. number = Value(s)
    BY <2>2
  <2> HIDE DEF number
  <2> QED BY <1>3, <2>3, <2>4
<1> QED BY <1>4, <1>5, <1>6

(* What release_value() answers of a text.                                 *)
Outcome(s) ==
  LET result == FromChars(s)
  IN  IF \/ s = << >> \/ (Len(s) > 1 /\ s[1] = 0)
         \/ result.failed \/ result.read # Len(s) \/ ~Fits(result.parsed)
        THEN Rejected
        ELSE [as |-> "accepted", value |-> result.parsed % (Max32 + 1)]

(* It is what the protocol asks: the number's own writing, and its value.  *)
LEMMA DecidesCanonically ==
  ASSUME NEW s \in Seq(Digits \union {NotADigit})
  PROVE  IF \E n \in 1 .. Max32 : Decimal[n] = s
           THEN Outcome(s).as = "accepted" /\ Decimal[Outcome(s).value] = s
           ELSE Outcome(s) = Rejected
<1> DEFINE result == FromChars(s)
<1>1. Max32 \in Nat /\ Max64 \in Nat /\ Max32 < Max64
  BY WidthsAssumption
<1>2. /\ result.read = Len(s) <=> s \in Seq(Digits)
      /\ s \in Seq(Digits) =>
           IF s = << >> \/ Value(s) > Max64
             THEN result.failed
             ELSE ~result.failed /\ result.parsed = Value(s)
  BY ReadsAll
<1>3. Outcome(s) =
        IF \/ s = << >> \/ (Len(s) > 1 /\ s[1] = 0)
           \/ result.failed \/ result.read # Len(s)
           \/ result.parsed = 0 \/ ~(result.parsed <= Max32)
          THEN Rejected
          ELSE [as |-> "accepted", value |-> result.parsed % (Max32 + 1)]
  BY DEF Outcome, Fits
<1> HIDE DEF result
<1>4. ASSUME NEW n \in 1 .. Max32, Decimal[n] = s
      PROVE  Outcome(s).as = "accepted" /\ Decimal[Outcome(s).value] = s
  <2>1. n \in Nat /\ n > 0 /\ n <= Max32 /\ ~(n > Max64)
    BY <1>1
  <2>2. s \in Seq(Digits) /\ Value(s) = n /\ s # << >> /\ s[1] # 0
    BY <1>4, <2>1, DecimalWrites
  <2>3. ~result.failed /\ result.parsed = n /\ result.read = Len(s)
    BY <1>2, <2>1, <2>2
  <2>4. n % (Max32 + 1) = n
    BY <1>1, <2>1
  <2>5. Outcome(s) = [as |-> "accepted", value |-> n]
    BY <1>3, <2>1, <2>2, <2>3, <2>4
  <2> QED BY <1>4, <2>5
<1>5. ASSUME Outcome(s) # Rejected
      PROVE  \E n \in 1 .. Max32 : Decimal[n] = s
  <2>1. /\ s # << >> /\ ~(Len(s) > 1 /\ s[1] = 0) /\ ~result.failed
        /\ result.read = Len(s) /\ result.parsed # 0 /\ result.parsed <= Max32
    BY <1>3, <1>5
  <2>2. s \in Seq(Digits) /\ result.parsed = Value(s)
    BY <1>2, <2>1
  <2>3. s[1] # 0
    <3>1. ASSUME s[1] = 0 PROVE FALSE
      <4>1. Len(s) = 1
        <5>1. Len(s) \in Nat /\ Len(s) # 0
          BY <2>1, <2>2, LenProperties, EmptySeq
        <5>2. ~(Len(s) > 1)
          BY <2>1, <3>1
        <5>3. \A n \in Nat : n # 0 /\ ~(n > 1) => n = 1
          OBVIOUS
        <5> QED BY <5>1, <5>2, <5>3
      <4>2. << >> \in Seq(Digits) /\ 0 \in Digits
        BY EmptySeq DEF Digits
      <4>3. Append(<< >>, 0) = s
        <5> DEFINE a == Append(<< >>, 0)
        <5>1. a \in Seq(Digits) /\ Len(a) = 1 /\ a[1] = 0
          BY <4>2, AppendProperties, EmptySeq
        <5> HIDE DEF a
        <5>2. a = s
          BY <2>2, <3>1, <4>1, <5>1, SeqEqual
        <5> QED BY <5>2 DEF a
      <4>4. Value(s) = 10 * Value(<< >>) + 0
        BY <4>2, <4>3, ValueGrows
      <4>5. Value(s) = 0
        BY <4>4, ValueGrows
      <4> QED BY <2>1, <2>2, <4>5
    <3> QED BY <3>1
  <2>4. Value(s) \in Nat /\ Value(s) > 0 /\ Decimal[Value(s)] = s
    BY <2>1, <2>2, <2>3, ValueReads, ValueGrows
  <2>5. Value(s) \in 1 .. Max32
    BY <1>1, <2>1, <2>2, <2>4
  <2> QED BY <2>4, <2>5
<1> QED BY <1>4, <1>5

(* An answer is the outcome for the text read.                             *)
ReleaseIInv ==
  /\ text \in Seq(Digits \union {NotADigit})
  /\ answer \in {Unread, Outcome(text)}

(* release_value() accepts the numbers from 1 to the greatest 32-bit value,*)
(* each in its one canonical writing and with its own value, and rejects   *)
(* every other text: of every length, and for every two widths.            *)
THEOREM ReleasesCanonical == ReleaseSpec => []CanonicalOnly
<1>1. ReleaseInit => ReleaseIInv
  <2>1. ASSUME NEW S, NEW s \in BoundedSeq(S, MaxLength) PROVE s \in Seq(S)
    BY SeqDef, WidthsAssumption DEF BoundedSeq, SeqOf
  <2> QED BY <2>1 DEF ReleaseInit, ReleaseIInv
<1>2. ReleaseIInv /\ [Decide]_releaseVars => ReleaseIInv'
  <2> SUFFICES ASSUME ReleaseIInv, [Decide]_releaseVars PROVE ReleaseIInv'
    OBVIOUS
  <2>1. CASE Decide
    <3>1. answer' = Outcome(text) /\ text' = text
      BY <2>1 DEF Decide, Outcome
    <3>2. Outcome(text)' = Outcome(text)
      BY <3>1 DEF Outcome
    <3> QED BY <3>1, <3>2 DEF ReleaseIInv
  <2>2. CASE UNCHANGED releaseVars
    BY <2>2 DEF releaseVars, ReleaseIInv, Outcome
  <2> QED BY <2>1, <2>2
<1>3. ReleaseIInv => CanonicalOnly
  <2> SUFFICES ASSUME ReleaseIInv, answer # Unread
               PROVE  IF \E n \in 1 .. Max32 : Decimal[n] = text
                        THEN answer.as = "accepted" /\ Decimal[answer.value] = text
                        ELSE answer = Rejected
    BY DEF CanonicalOnly
  <2> QED BY DecidesCanonically DEF ReleaseIInv
<1> QED BY <1>1, <1>2, <1>3, PTL DEF ReleaseSpec

=============================================================================
