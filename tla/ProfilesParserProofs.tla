------------------------ MODULE ProfilesParserProofs ------------------------
(***************************************************************************)
(* Four things about parse_profiles_yaml(), for every document.  No        *)
(* exception of libpkgsource leaves it: the one provenance that nothing    *)
(* guards is a member's, and its path has been through the one of its      *)
(* profile.  It accepts exactly the protocol and returns the document's    *)
(* profiles, and a failure is that of the first fault: the loops carry     *)
(* that everything before the entry and the member they are at is sound    *)
(* and has been declared.  The path and the line of a failure lead to one  *)
(* place.                                                                  *)
(***************************************************************************)
EXTENDS ProfilesParser, ProtocolProofs

IsList(s) == \E S : s \in Seq(S)

(* The parts of the protocol, as the checks of one step ask for them.      *)
RootSound(d) ==
  /\ d.kind = "mapping" /\ KeySet(d) = {"format", "profiles"}
  /\ IsText(FindKey(d, "format"), {FormatName})
  /\ FindKey(d, "profiles").kind = "mapping"

HeadSound(name, definition) ==
  /\ "@" \o name.scalar \in ProfileNames /\ name.scalar \in SafeKeys
  /\ definition.kind = "mapping" /\ KeySet(definition) = {"members"}
  /\ FindKey(definition, "members").kind = "sequence"

(* What is declared for the profiles of a document, and for a member.      *)
MemberOf(path, nodes, j) ==
  [subject |-> nodes[j], path |-> ItemPath(ChildPath(path, "members"), j - 1)]

DeclarationOf(d, i) ==
  LET table == FindKey(d, "profiles")
      name  == table.children[2 * i - 1]
      nodes == FindKey(table.children[2 * i], "members").children
      path  == ChildPath(ChildPath(Root, "profiles"), name.scalar)
  IN  [name |-> "@" \o name.scalar, path |-> path, at |-> name.mark,
       members |-> [j \in DOMAIN nodes |-> MemberOf(path, nodes, j)]]

(* A turn has behind it sound profiles, which are declared.                *)
TurnsDone ==
  /\ RootSound(doc)
  /\ IsList(declarations) /\ entry = 2 * Len(declarations) + 1
  /\ entry <= Len(Profiles.children) + 1
  /\ \A i \in KeysAt(Profiles) : i < entry => i \in Sound(Profiles)
  /\ \A i \in DOMAIN declarations : declarations[i] = DeclarationOf(doc, i)

(* And within it sound members.                                            *)
MembersDone ==
  /\ entry < Len(Profiles.children)
  /\ HeadSound(NameNode, Definition)
  /\ IsList(members) /\ Len(members) <= Len(MemberNodes)
  /\ \A j \in DOMAIN members : /\ members[j] = MemberOf(DefinitionPath, MemberNodes, j)
                               /\ IsSubject(MemberNodes[j])

Progress ==
  /\ doc \in Documents
  /\ stage = "root" => entry = 1 /\ declarations = << >>
  /\ stage \in {"profile", "member", "returned"} => TurnsDone
  /\ stage = "member" => MembersDone
  /\ stage = "returned" => entry > Len(Profiles.children)
  /\ stage = "failed" => ~IsProfiles(doc)
  /\ FirstFaultReported

Guarded ==
  /\ NoCoreErrorEscapes
  /\ stage = "member" => SafePath(DefinitionPath)

IInv == Guarded /\ Progress

(* A profile's path is a sequence of steps, whatever its name is.          *)
LEMMA ProfilePath ==
  /\ SafePath(ProfilesPath)
  /\ IsPath(DefinitionPath)
<1>1. SafePath(ProfilesPath)
  BY RootSafe, ChildSafe, ProfilesKeysSafe DEF ProfilesPath
<1> QED BY <1>1, ChildIsPath DEF SafePath, DefinitionPath

(* A member's path is safe when its profile's is.                          *)
LEMMA MemberSafe == SafePath(DefinitionPath) => SafePath(MemberPath)
BY ChildSafe, ItemSafe, ProfilesKeysSafe DEF MembersPath, MemberPath

(* No turn of the loops disturbs it: the check of a profile's name makes   *)
(* its path safe, and the turns over its members leave the path as it is.  *)
LEMMA StaysGuarded == Guarded /\ [Next]_vars => Guarded'
<1> SUFFICES ASSUME Guarded, [Next]_vars PROVE Guarded' OBVIOUS
<1> USE DEF Guarded, NoCoreErrorEscapes
<1>1. ASSUME NEW failure, Throw(failure), Contained(failure) PROVE Guarded'
  BY <1>1 DEF Throw, Contained
<1>2. CASE CheckRoot
  <2> DEFINE check == AllowKeys(doc, Root, {"format", "profiles"})
                        ?? RequireFormat(doc, FormatName)
                        ?? RequiredKey(doc, "profiles", Root)
                        ?? RequireKind(Profiles, "mapping", ProfilesPath)
  <2>1. Contained(check)
    BY KeysContained, FormatContained, PlainChecks, Sequenced
  <2> QED BY <1>1, <1>2, <2>1 DEF CheckRoot
<1>3. CASE OpenProfile
  <2> DEFINE check == NameCheck
                        ?? AllowKeys(Definition, DefinitionPath, {"members"})
                        ?? RequiredKey(Definition, "members", DefinitionPath)
                        ?? RequireKind(FindKey(Definition, "members"), "sequence", MembersPath)
  <2>1. Contained(NameCheck)
    BY PlainChecks, Sequenced DEF NameCheck
  <2>2. Contained(check)
    BY <2>1, KeysContained, PlainChecks, Sequenced
  <2>3. check = OK => ProvenanceAdmitted(DefinitionPath)
    BY DEF NameCheck, Semantic, ??, OK, Failure
  <2>4. CASE check = OK
    <3>1. SafePath(DefinitionPath)
      BY <2>3, <2>4, ProfilePath DEF SafePath
    <3>2. DefinitionPath' = DefinitionPath
      BY <1>3, <2>4 DEF OpenProfile, DefinitionPath, NameNode, Profiles, ProfilesPath
    <3>3. verdict' = verdict
      BY <1>3, <2>4 DEF OpenProfile
    <3> QED BY <3>1, <3>2, <3>3 DEF SafePath, IsPath, ProvenanceAdmitted
  <2> QED BY <1>1, <1>3, <2>2, <2>4 DEF OpenProfile
<1>4. CASE AddMember
  <2> DEFINE value == MemberNodes[Len(members) + 1]
             check == Subject(value, MemberPath) ?? Provenance(MemberPath, value)
  <2>1. Provenance(MemberPath, value) = OK
    BY <1>4, MemberSafe, ProvenancePasses DEF AddMember
  <2>2. Contained(check)
    BY <2>1, SubjectContained, PlainChecks, Sequenced
  <2>3. CASE check = OK
    <3>1. UNCHANGED <<doc, stage, entry, verdict>>
      BY <1>4, <2>3 DEF AddMember
    <3> QED BY <3>1 DEF SafePath, IsPath, ProvenanceAdmitted, DefinitionPath, NameNode,
                        Profiles, ProfilesPath
  <2> QED BY <1>1, <1>4, <2>2, <2>3 DEF AddMember
<1>5. CASE CloseProfile
  BY <1>1, <1>5, PlainChecks DEF CloseProfile
<1>6. CASE Return
  BY <1>6 DEF Return
<1>7. CASE UNCHANGED vars
  BY <1>7 DEF vars, SafePath, IsPath, ProvenanceAdmitted, DefinitionPath, NameNode,
              Profiles, ProfilesPath
<1> QED BY <1>2, <1>3, <1>4, <1>5, <1>6, <1>7 DEF Next

-----------------------------------------------------------------------------
(* How long the paths are that the loops use, and what is on them.         *)
LEMMA Shapes ==
  ASSUME NEW name
  PROVE  LET d == ChildPath(ProfilesPath, name)
         IN  /\ IsPath(d) /\ Len(d) = 2 /\ d[1] = <<"key", "profiles">> /\ d[2] = <<"key", name>>
             /\ \A key : Len(ChildPath(d, key)) = 3 /\ ChildPath(d, key)[2] = <<"key", name>>
             /\ \A i : LET m == ItemPath(ChildPath(d, "members"), i)
                       IN  /\ Len(m) = 4 /\ m[2] = <<"key", name>> /\ m[4] = <<"item", i>>
                           /\ \A key : LET k == ChildPath(m, key)
                                       IN  /\ Len(k) = 5
                                           /\ k[2] = <<"key", name>> /\ k[4] = <<"item", i>>
<1> DEFINE a == <<"key", "profiles">>
           b == <<"key", name>>
           d == Append(Append(<< >>, a), b)
<1>1. ProfilesPath = Append(<< >>, a)
  BY DEF ProfilesPath, ChildPath, Root, RootName
<1>2. ChildPath(ProfilesPath, name) = d
  <2>1. Append(<< >>, a) # << >>
    OBVIOUS
  <2> HIDE DEF a
  <2> QED BY <1>1, <2>1 DEF ChildPath, Root
<1> HIDE DEF a, b
<1>3. IsPath(d) /\ Len(d) = 2 /\ d[1] = a /\ d[2] = b /\ d # << >>
  <2>1. d \in Seq({a, b}) /\ Len(d) = 2 /\ d[1] = a /\ d[2] = b /\ d # << >>
    OBVIOUS
  <2> HIDE DEF d
  <2> QED BY <2>1 DEF IsPath
<1>4. ASSUME NEW key
      PROVE  /\ ChildPath(d, key) = Append(d, <<"key", key>>)
             /\ Len(ChildPath(d, key)) = 3 /\ ChildPath(d, key)[2] = b
  <2> DEFINE c == <<"key", key>>
  <2> HIDE DEF c
  <2>1. Len(Append(d, c)) = 3 /\ Append(d, c)[2] = b
    OBVIOUS
  <2>2. ChildPath(d, key) = Append(d, c)
    BY <1>3 DEF ChildPath, Root, c
  <2> QED BY <2>1, <2>2 DEF c
<1>5. ASSUME NEW i, NEW key
      PROVE  LET m == ItemPath(ChildPath(d, "members"), i)
             IN  /\ Len(m) = 4 /\ m[2] = b /\ m[4] = <<"item", i>>
                 /\ Len(ChildPath(m, key)) = 5
                 /\ ChildPath(m, key)[2] = b /\ ChildPath(m, key)[4] = <<"item", i>>
  <2> DEFINE c == <<"key", "members">>
             e == <<"item", i>>
             f == <<"key", key>>
             m == Append(Append(d, c), e)
  <2>1. ItemPath(ChildPath(d, "members"), i) = m
    BY <1>4 DEF ItemPath
  <2> HIDE DEF c, e, f
  <2>2. Len(m) = 4 /\ m[2] = b /\ m[4] = e /\ m # << >>
    OBVIOUS
  <2>3. Len(Append(m, f)) = 5 /\ Append(m, f)[2] = b /\ Append(m, f)[4] = e
    OBVIOUS
  <2>4. ChildPath(m, key) = Append(m, f)
    BY <2>2 DEF ChildPath, Root, f
  <2> QED BY <2>1, <2>2, <2>3, <2>4 DEF e
<1> HIDE DEF d
<1> QED BY <1>2, <1>3, <1>4, <1>5 DEF a, b

-----------------------------------------------------------------------------
(* What the checks of the steps ask, and where they report.                *)
LEMMA RootChecked ==
  LET check == AllowKeys(doc, Root, {"format", "profiles"})
                 ?? RequireFormat(doc, FormatName)
                 ?? RequiredKey(doc, "profiles", Root)
                 ?? RequireKind(Profiles, "mapping", ProfilesPath)
  IN  /\ check = OK <=> RootSound(doc)
      /\ check # OK => ~(Len(check.path) >= 2)
<1> DEFINE format == RequireFormat(doc, FormatName)
           a == AllowKeys(doc, Root, {"format", "profiles"})
           b == RequiredKey(doc, "profiles", Root)
           c == RequireKind(Profiles, "mapping", ProfilesPath)
           check == a ?? format ?? b ?? c
<1>1. a = OK <=> doc.kind = "mapping" /\ KeySet(doc) \subseteq {"format", "profiles"}
  BY KeysPass
<1>2. format = OK <=> "format" \in KeySet(doc) /\ IsText(FindKey(doc, "format"), {FormatName})
  BY FormatPasses
<1>3. (b = OK <=> "profiles" \in KeySet(doc))
        /\ (c = OK <=> FindKey(doc, "profiles").kind = "mapping")
  BY PlainPasses DEF Profiles
<1>4. Below(format, Root)
  BY PlainBelow, BothBelow DEF RequireFormat
<1>5. Below(a, Root) /\ Below(b, Root) /\ Below(c, Root)
  BY KeysBelow, PlainBelow DEF ProfilesPath
<1> HIDE DEF a, b, c, format
<1>6. check = OK <=> RootSound(doc)
  BY <1>1, <1>2, <1>3, BothPass DEF RootSound
<1>7. Below(check, Root)
  BY <1>4, <1>5, BothBelow
<1>8. ~(Len(Root) >= 2) /\ \A key : ~(Len(ChildPath(Root, key)) >= 2)
  <2>1. \A step : Len(Append(<< >>, step)) = 1 /\ Len(<< >>) = 0
    OBVIOUS
  <2> QED BY <2>1 DEF ChildPath, Root
<1>9. check # OK => ~(Len(check.path) >= 2)
  <2> HIDE DEF check
  <2>1. SUFFICES ASSUME check # OK PROVE ~(Len(check.path) >= 2)
    OBVIOUS
  <2>2. CASE check.path = Root
    BY <1>8, <2>2
  <2>3. CASE \E key : check.path = ChildPath(Root, key)
    BY <1>8, <2>3
  <2> QED BY <1>7, <2>1, <2>2, <2>3 DEF Below
<1> QED BY <1>6, <1>9 DEF a, b, c, format

LEMMA HeadChecked ==
  LET check == NameCheck
                 ?? AllowKeys(Definition, DefinitionPath, {"members"})
                 ?? RequiredKey(Definition, "members", DefinitionPath)
                 ?? RequireKind(FindKey(Definition, "members"), "sequence", MembersPath)
  IN  /\ check = OK <=> HeadSound(NameNode, Definition)
      /\ check # OK => /\ check.path[2] = <<"key", NameNode.scalar>>
                       /\ ~(Len(check.path) >= 4)
<1> DEFINE a == AllowKeys(Definition, DefinitionPath, {"members"})
           b == RequiredKey(Definition, "members", DefinitionPath)
           c == RequireKind(FindKey(Definition, "members"), "sequence", MembersPath)
           check == NameCheck ?? a ?? b ?? c
           name == NameNode.scalar
<1>1. a = OK <=> Definition.kind = "mapping" /\ KeySet(Definition) \subseteq {"members"}
  BY KeysPass
<1>2. (b = OK <=> "members" \in KeySet(Definition))
        /\ (c = OK <=> FindKey(Definition, "members").kind = "sequence")
  BY PlainPasses
<1>3. NameCheck = OK <=> "@" \o name \in ProfileNames /\ ProvenanceAdmitted(DefinitionPath)
  BY FailurePasses, BothPass DEF NameCheck, ProfileName, Semantic, ReferenceAdmitted
<1>4. ProvenanceAdmitted(DefinitionPath) <=> name \in SafeKeys
  <2>1. /\ IsPath(DefinitionPath) /\ Len(DefinitionPath) = 2
        /\ DefinitionPath[1] = <<"key", "profiles">> /\ DefinitionPath[2] = <<"key", name>>
    BY Shapes DEF DefinitionPath
  <2>2. DOMAIN DefinitionPath = {1, 2}
    BY <2>1 DEF IsPath
  <2>3. "profiles" \in SafeKeys
    BY ProfilesKeysSafe
  <2> HIDE DEF name
  <2> QED BY <2>1, <2>2, <2>3 DEF ProvenanceAdmitted
<1>5. Below(NameCheck, DefinitionPath) /\ Below(a, DefinitionPath)
        /\ Below(b, DefinitionPath) /\ Below(c, DefinitionPath)
  BY KeysBelow, PlainBelow, BothBelow DEF NameCheck, MembersPath
<1> HIDE DEF a, b, c
<1>6. check = OK <=> HeadSound(NameNode, Definition)
  BY <1>1, <1>2, <1>3, <1>4, BothPass DEF HeadSound
<1>7. Below(check, DefinitionPath)
  BY <1>5, BothBelow
<1>8. check # OK => check.path[2] = <<"key", name>> /\ ~(Len(check.path) >= 4)
  <2>1. /\ DefinitionPath[2] = <<"key", name>> /\ ~(Len(DefinitionPath) >= 4)
        /\ \A key : /\ ChildPath(DefinitionPath, key)[2] = <<"key", name>>
                    /\ ~(Len(ChildPath(DefinitionPath, key)) >= 4)
    <3>1. /\ DefinitionPath[2] = <<"key", name>> /\ Len(DefinitionPath) = 2
          /\ \A key : /\ ChildPath(DefinitionPath, key)[2] = <<"key", name>>
                      /\ Len(ChildPath(DefinitionPath, key)) = 3
      BY Shapes DEF DefinitionPath
    <3> HIDE DEF check, name
    <3>2. ~(Len(DefinitionPath) >= 4)
      BY <3>1
    <3>3. ASSUME NEW key PROVE ~(Len(ChildPath(DefinitionPath, key)) >= 4)
      <4>1. Len(ChildPath(DefinitionPath, key)) = 3
        BY <3>1
      <4> QED BY <4>1
    <3> QED BY <3>1, <3>2, <3>3
  <2> HIDE DEF check, name
  <2>2. SUFFICES ASSUME check # OK PROVE check.path[2] = <<"key", name>> /\ ~(Len(check.path) >= 4)
    OBVIOUS
  <2>3. CASE check.path = DefinitionPath
    BY <2>1, <2>3
  <2>4. CASE \E key : check.path = ChildPath(DefinitionPath, key)
    BY <2>1, <2>4
  <2> QED BY <1>7, <2>2, <2>3, <2>4 DEF Below
<1> QED BY <1>6, <1>8 DEF a, b, c

LEMMA MemberChecked ==
  ASSUME SafePath(DefinitionPath), Len(members) \in Nat, NEW value
  PROVE  LET check == Subject(value, MemberPath) ?? Provenance(MemberPath, value)
         IN  /\ check = OK <=> IsSubject(value)
             /\ check # OK => /\ check.path[2] = <<"key", NameNode.scalar>>
                              /\ check.path[4] = <<"item", Len(members)>>
<1> DEFINE check == Subject(value, MemberPath) ?? Provenance(MemberPath, value)
<1>1. Provenance(MemberPath, value) = OK
  BY MemberSafe, ProvenancePasses
<1>2. check = OK <=> IsSubject(value)
  BY <1>1, SubjectPasses, BothPass
<1>3. Below(check, MemberPath)
  BY <1>1, SubjectBelow, BothBelow DEF Below
<1>4. /\ MemberPath[2] = <<"key", NameNode.scalar>> /\ MemberPath[4] = <<"item", Len(members)>>
      /\ \A key : /\ ChildPath(MemberPath, key)[2] = <<"key", NameNode.scalar>>
                  /\ ChildPath(MemberPath, key)[4] = <<"item", Len(members)>>
  BY Shapes DEF MemberPath, MembersPath, DefinitionPath
<1>5. check # OK => check.path[2] = <<"key", NameNode.scalar>> /\ check.path[4] = <<"item", Len(members)>>
  <2> HIDE DEF check
  <2> QED BY <1>3, <1>4 DEF Below
<1> QED BY <1>2, <1>5

-----------------------------------------------------------------------------
(* The table of the profiles and the turn that is made over it.            *)
LEMMA Tables ==
  ASSUME Progress, RootSound(doc)
  PROVE  /\ Profiles \in Nodes /\ Profiles.kind = "mapping"
         /\ Profiles.children \in Seq(Nodes)
         /\ Len(Profiles.children) \in Nat /\ Len(Profiles.children) % 2 = 0
         /\ KeysAt(Profiles) \subseteq Nat \ {0}
<1>1. doc \in Nodes
  BY ProfilesDocuments DEF Progress
<1>2. Profiles \in Nodes /\ Profiles.kind = "mapping"
  BY <1>1, ValueIsNode DEF RootSound, Profiles
<1>3. /\ Profiles.children \in Seq(Nodes)
      /\ Len(Profiles.children) \in Nat /\ Len(Profiles.children) % 2 = 0
  BY <1>2, ChildrenAreNodes
<1>4. DOMAIN Profiles.children \subseteq Nat \ {0}
  BY <1>3
<1> QED BY <1>2, <1>3, <1>4 DEF KeysAt

LEMMA Turn ==
  ASSUME Progress, TurnsDone, entry < Len(Profiles.children)
  PROVE  /\ entry \in KeysAt(Profiles) /\ entry \in Nat /\ entry + 1 < Len(Profiles.children) + 1
         /\ entry + 1 \notin KeysAt(Profiles)
         /\ Definition \in Nodes
<1>1. /\ Profiles.children \in Seq(Nodes)
      /\ Len(Profiles.children) \in Nat /\ Len(Profiles.children) % 2 = 0
  BY Tables DEF TurnsDone
<1>2. Len(declarations) \in Nat /\ entry = 2 * Len(declarations) + 1
  BY DEF TurnsDone, IsList
<1>3. entry \in Nat /\ entry >= 1 /\ entry % 2 = 1 /\ (entry + 1) % 2 = 0
  BY <1>2
<1>4. entry + 1 \in 1 .. Len(Profiles.children)
  BY <1>1, <1>3
<1>5. DOMAIN Profiles.children = 1 .. Len(Profiles.children)
  BY <1>1
<1> QED BY <1>1, <1>3, <1>4, <1>5 DEF KeysAt, Definition

(* A fault in the turn is the first.                                       *)
LEMMA Reported ==
  ASSUME Progress, TurnsDone, entry \in KeysAt(Profiles) \ Sound(Profiles),
         NEW failure, Throw(failure), failure.path[2] = <<"key", NameNode.scalar>>,
         Len(failure.path) >= 4 =>
           LET bad == {i \in DOMAIN MemberNodes : ~IsSubject(MemberNodes[i])}
           IN  /\ failure.path[4][2] + 1 \in bad
               /\ \A i \in bad : failure.path[4][2] + 1 <= i
  PROVE  Progress'
<1>1. UNCHANGED <<doc, entry, members, declarations>> /\ stage' = "failed" /\ verdict' = failure
  BY DEF Throw
<1>2. ~IsProfiles(doc)
  BY DEF IsProfiles, Profiles
<1>3. \A i \in KeysAt(Profiles) \ Sound(Profiles) : entry <= i
  <2>1. KeysAt(Profiles) \subseteq Nat
    BY Tables DEF TurnsDone
  <2>2. entry \in Nat
    BY <2>1
  <2> QED BY <2>1, <2>2 DEF TurnsDone
<1>4. FirstFaultReported'
  BY <1>1, <1>3 DEF FirstFaultReported, Profiles, NameNode, MemberNodes, Definition
<1> QED BY <1>1, <1>2, <1>4 DEF Progress

-----------------------------------------------------------------------------
(* Before the first check nothing has been thrown and nothing declared.    *)
LEMMA Initially == Init => IInv
BY DEF Init, IInv, Guarded, Progress, FirstFaultReported, NoCoreErrorEscapes, OK, ErrorCodes

(* The root, the head of a profile, its members and its end.               *)
LEMMA RootStep == Progress /\ CheckRoot => Progress'
<1> SUFFICES ASSUME Progress, CheckRoot PROVE Progress' OBVIOUS
<1> DEFINE check == AllowKeys(doc, Root, {"format", "profiles"})
                      ?? RequireFormat(doc, FormatName)
                      ?? RequiredKey(doc, "profiles", Root)
                      ?? RequireKind(Profiles, "mapping", ProfilesPath)
<1>1. (check = OK <=> RootSound(doc)) /\ (check # OK => ~(Len(check.path) >= 2))
  BY RootChecked
<1>2. IF check = OK THEN /\ stage' = "profile" /\ entry' = 1
                         /\ UNCHANGED <<doc, members, declarations, verdict>>
                    ELSE Throw(check)
  BY DEF CheckRoot
<1>3. stage = "root" /\ entry = 1 /\ declarations = << >>
  BY DEF CheckRoot, Progress
<1> HIDE DEF check
<1>4. CASE check = OK
  <2>1. RootSound(doc) /\ KeysAt(Profiles) \subseteq Nat \ {0} /\ Len(Profiles.children) \in Nat
    BY <1>1, <1>4, Tables
  <2>2. IsList(declarations) /\ Len(declarations) = 0
    BY <1>3 DEF IsList
  <2>3. TurnsDone'
    BY <1>2, <1>3, <1>4, <2>1, <2>2 DEF TurnsDone, Profiles, IsList
  <2> QED BY <1>2, <1>4, <2>3 DEF Progress, FirstFaultReported
<1>5. CASE check # OK
  <2>1. UNCHANGED <<doc, entry, declarations>> /\ stage' = "failed" /\ verdict' = check
    BY <1>2, <1>5 DEF Throw
  <2>2. ~IsProfiles(doc)
    BY <1>1, <1>5 DEF IsProfiles, RootSound
  <2> QED BY <1>1, <1>5, <2>1, <2>2 DEF Progress, FirstFaultReported
<1> QED BY <1>4, <1>5

LEMMA HeadStep == Progress /\ OpenProfile => Progress'
<1> SUFFICES ASSUME Progress, OpenProfile PROVE Progress' OBVIOUS
<1> DEFINE check == NameCheck
                      ?? AllowKeys(Definition, DefinitionPath, {"members"})
                      ?? RequiredKey(Definition, "members", DefinitionPath)
                      ?? RequireKind(FindKey(Definition, "members"), "sequence", MembersPath)
<1>1. /\ check = OK <=> HeadSound(NameNode, Definition)
      /\ check # OK => check.path[2] = <<"key", NameNode.scalar>> /\ ~(Len(check.path) >= 4)
  BY HeadChecked
<1>2. IF check = OK THEN /\ stage' = "member" /\ members' = << >>
                         /\ UNCHANGED <<doc, entry, declarations, verdict>>
                    ELSE Throw(check)
  BY DEF OpenProfile
<1>3. TurnsDone /\ entry < Len(Profiles.children)
  BY DEF OpenProfile, Progress
<1> HIDE DEF check
<1>4. CASE check = OK
  <2>1. HeadSound(NameNode, Definition)
    BY <1>1, <1>4
  <2>2. FindKey(Definition, "members") \in Nodes
    BY <1>3, <2>1, Turn, ValueIsNode DEF HeadSound
  <2>3. Len(MemberNodes) \in Nat
    BY <2>2, ChildrenAreNodes DEF MemberNodes
  <2>4. TurnsDone'
    BY <1>2, <1>3, <1>4 DEF TurnsDone, Profiles
  <2>5. MembersDone'
    BY <1>2, <1>3, <1>4, <2>1, <2>3
       DEF MembersDone, Profiles, NameNode, Definition, DefinitionPath, ProfilesPath, MemberNodes, IsList
  <2> QED BY <1>2, <1>4, <2>4, <2>5 DEF Progress, FirstFaultReported
<1>5. CASE check # OK
  <2>1. entry \in KeysAt(Profiles)
    BY <1>3, Turn
  <2>2. entry \notin Sound(Profiles)
    BY <1>1, <1>5 DEF Sound, IsProfile, HeadSound, NameNode, Definition
  <2> QED BY <1>1, <1>2, <1>3, <1>5, <2>1, <2>2, Reported
<1> QED BY <1>4, <1>5

LEMMA MemberStep == Progress /\ SafePath(DefinitionPath) /\ AddMember => Progress'
<1> SUFFICES ASSUME Progress, SafePath(DefinitionPath), AddMember PROVE Progress' OBVIOUS
<1> DEFINE value == MemberNodes[Len(members) + 1]
           check == Subject(value, MemberPath) ?? Provenance(MemberPath, value)
<1>1. /\ TurnsDone /\ MembersDone /\ stage = "member"
      /\ Len(members) \in Nat /\ Len(members) < Len(MemberNodes)
  BY DEF AddMember, Progress, MembersDone, IsList
<1>2. /\ check = OK <=> IsSubject(value)
      /\ check # OK => /\ check.path[2] = <<"key", NameNode.scalar>>
                       /\ check.path[4] = <<"item", Len(members)>>
  BY <1>1, MemberChecked
<1>3. IF check = OK
        THEN /\ members' = Append(members, [subject |-> value, path |-> MemberPath])
             /\ UNCHANGED <<doc, stage, entry, declarations, verdict>>
        ELSE Throw(check)
  BY DEF AddMember
<1>4. entry \in KeysAt(Profiles) /\ Definition \in Nodes
  BY <1>1, Turn DEF MembersDone
<1>5. FindKey(Definition, "members") \in Nodes
  BY <1>1, <1>4, ValueIsNode DEF MembersDone, HeadSound
<1>6. MemberNodes \in Seq(Nodes) /\ Len(MemberNodes) \in Nat
  BY <1>5, ChildrenAreNodes DEF MemberNodes
<1> HIDE DEF check
<1>7. CASE check = OK
  <2> DEFINE new == [subject |-> value, path |-> MemberPath]
  <2>1. new = MemberOf(DefinitionPath, MemberNodes, Len(members) + 1)
    BY <1>1 DEF MemberOf, MemberPath, MembersPath
  <2>2. IsSubject(value)
    BY <1>2, <1>7
  <2> HIDE DEF new
  <2>3. PICK S : members \in Seq(S)
    BY <1>1 DEF MembersDone, IsList
  <2>4. Append(members, new) \in Seq(S \union {new})
    BY <2>3
  <2>5. /\ members' = Append(members, new) /\ Len(members') = Len(members) + 1
        /\ DOMAIN members' = 1 .. Len(members) + 1 /\ DOMAIN members = 1 .. Len(members)
        /\ members'[Len(members) + 1] = new
        /\ \A j \in 1 .. Len(members) : members'[j] = members[j]
    BY <1>3, <1>7, <2>3, <2>4 DEF new
  <2>6. \A j \in DOMAIN members' : /\ members'[j] = MemberOf(DefinitionPath, MemberNodes, j)
                                   /\ IsSubject(MemberNodes[j])
    BY <1>1, <2>1, <2>2, <2>5 DEF MembersDone
  <2>7. IsList(members')
    BY <2>4, <2>5 DEF IsList
  <2>8. UNCHANGED <<doc, stage, entry, declarations, verdict>>
    BY <1>3, <1>7
  <2>9. /\ TurnsDone' /\ UNCHANGED <<Profiles, NameNode, Definition, DefinitionPath, MemberNodes>>
    BY <1>1, <2>8 DEF TurnsDone, Profiles, NameNode, Definition, DefinitionPath, ProfilesPath, MemberNodes
  <2>10. MembersDone'
    BY <1>1, <1>6, <2>5, <2>6, <2>7, <2>8, <2>9 DEF MembersDone
  <2> QED BY <1>1, <2>8, <2>9, <2>10 DEF Progress, FirstFaultReported
<1>8. CASE check # OK
  <2> DEFINE bad == {i \in DOMAIN MemberNodes : ~IsSubject(MemberNodes[i])}
  <2>1. check.path[4][2] + 1 = Len(members) + 1
    BY <1>2, <1>8
  <2>2. Len(members) + 1 \in bad
    BY <1>1, <1>2, <1>6, <1>8
  <2>3. \A i \in bad : Len(members) + 1 <= i
    BY <1>1, <1>6 DEF MembersDone, IsList
  <2>4. entry \notin Sound(Profiles)
    BY <2>2 DEF Sound, IsProfile, Definition, MemberNodes
  <2> QED BY <1>1, <1>2, <1>3, <1>4, <1>8, <2>1, <2>2, <2>3, <2>4, Reported
<1> QED BY <1>7, <1>8

(* A profile that is closed is sound, and is declared as it stands there.  *)
LEMMA CloseStep == Progress /\ CloseProfile => Progress'
<1> SUFFICES ASSUME Progress, CloseProfile PROVE Progress' OBVIOUS
<1> DEFINE check == Semantic(members # << >>, DefinitionPath, NameNode)
           new == [name |-> ProfileName(NameNode.scalar), path |-> DefinitionPath,
                   at |-> NameNode.mark, members |-> members]
           n == Len(declarations)
<1>1. /\ TurnsDone /\ MembersDone /\ Len(members) = Len(MemberNodes)
      /\ n \in Nat /\ entry = 2 * n + 1
  BY DEF CloseProfile, Progress, TurnsDone, IsList
<1>2. IF check = OK
        THEN /\ declarations' = Append(declarations, new)
             /\ stage' = "profile" /\ entry' = entry + 2 /\ members' = << >>
             /\ UNCHANGED <<doc, verdict>>
        ELSE Throw(check)
  BY DEF CloseProfile
<1>3. /\ entry \in KeysAt(Profiles) /\ entry \in Nat /\ entry + 1 \notin KeysAt(Profiles)
      /\ Definition \in Nodes
  BY <1>1, Turn DEF MembersDone
<1>4. FindKey(Definition, "members") \in Nodes
  BY <1>1, <1>3, ValueIsNode DEF MembersDone, HeadSound
<1>5. MemberNodes \in Seq(Nodes) /\ DOMAIN MemberNodes = 1 .. Len(MemberNodes)
  <2>1. MemberNodes \in Seq(Nodes)
    BY <1>4, ChildrenAreNodes DEF MemberNodes
  <2> QED BY <2>1
<1>6. DOMAIN members = DOMAIN MemberNodes
  BY <1>1, <1>5 DEF MembersDone, IsList
<1>7. CASE members # << >>
  <2>1. check = OK
    BY <1>7 DEF Semantic
  <2>2. entry \in Sound(Profiles)
    <3>1. MemberNodes # << >>
      <4>1. Len(members) # 0
        BY <1>1, <1>7 DEF MembersDone, IsList
      <4> QED BY <1>1, <4>1
    <3>2. \A j \in DOMAIN MemberNodes : IsSubject(MemberNodes[j])
      BY <1>1, <1>6 DEF MembersDone
    <3> QED BY <1>1, <1>3, <3>1, <3>2
            DEF MembersDone, HeadSound, Sound, IsProfile, NameNode, Definition, MemberNodes
  <2>3. new = DeclarationOf(doc, n + 1)
    <3>1. 2 * (n + 1) - 1 = entry /\ 2 * (n + 1) = entry + 1
      BY <1>1
    <3>2. members = [j \in DOMAIN MemberNodes |-> MemberOf(DefinitionPath, MemberNodes, j)]
      <4>1. members = [j \in DOMAIN members |-> members[j]]
        BY <1>1 DEF MembersDone, IsList
      <4> QED BY <1>1, <1>6, <4>1 DEF MembersDone
    <3> QED BY <3>1, <3>2 DEF DeclarationOf, NameNode, ProfileName, DefinitionPath, ProfilesPath,
                              Profiles, MemberNodes, Definition
  <2> HIDE DEF new, check
  <2>4. PICK S : declarations \in Seq(S)
    BY <1>1 DEF TurnsDone, IsList
  <2>5. Append(declarations, new) \in Seq(S \union {new})
    BY <2>4
  <2>6. /\ declarations' = Append(declarations, new) /\ Len(declarations') = n + 1
        /\ DOMAIN declarations' = 1 .. n + 1 /\ DOMAIN declarations = 1 .. n
        /\ declarations'[n + 1] = new
        /\ \A i \in 1 .. n : declarations'[i] = declarations[i]
    BY <1>2, <2>1, <2>4, <2>5
  <2>7. \A i \in DOMAIN declarations' : declarations'[i] = DeclarationOf(doc, i)
    <3> HIDE DEF n
    <3> QED BY <1>1, <2>3, <2>6 DEF TurnsDone, n
  <2>8. IsList(declarations')
    BY <2>5, <2>6 DEF IsList
  <2>9. UNCHANGED <<doc, Profiles, verdict>> /\ stage' = "profile" /\ entry' = entry + 2
    BY <1>2, <2>1 DEF Profiles
  <2>10. /\ Len(Profiles.children) \in Nat /\ entry + 1 < Len(Profiles.children) + 1
         /\ KeysAt(Profiles) \subseteq Nat /\ Len(Profiles.children) % 2 = 0
    BY <1>1, Tables, Turn DEF TurnsDone, MembersDone
  <2>11. entry + 2 <= Len(Profiles.children) + 1
    BY <1>1, <1>3, <2>10
  <2>12. \A i \in KeysAt(Profiles) : i < entry + 2 => i \in Sound(Profiles)
    <3>1. \A i \in KeysAt(Profiles) : i < entry + 2 => i < entry \/ i = entry
      BY <1>3, <2>10
    <3> QED BY <1>1, <2>2, <3>1 DEF TurnsDone
  <2>13. entry' = 2 * Len(declarations') + 1
    BY <1>1, <2>6, <2>9
  <2>14. TurnsDone'
    BY <1>1, <2>7, <2>8, <2>9, <2>11, <2>12, <2>13 DEF TurnsDone
  <2> QED BY <2>9, <2>14 DEF Progress, FirstFaultReported
<1>8. CASE members = << >>
  <2>1. check = Failure("invalid_value", DefinitionPath, NameNode) /\ check # OK
    BY <1>8, FailurePasses DEF Semantic
  <2>2. check.path = DefinitionPath
    BY <2>1 DEF Failure
  <2>3. DefinitionPath[2] = <<"key", NameNode.scalar>> /\ ~(Len(DefinitionPath) >= 4)
    <3>1. DefinitionPath[2] = <<"key", NameNode.scalar>> /\ Len(DefinitionPath) = 2
      BY Shapes DEF DefinitionPath
    <3> QED BY <3>1
  <2>4. entry \notin Sound(Profiles)
    <3>1. Len(MemberNodes) = 0
      BY <1>1, <1>8
    <3>2. MemberNodes = << >>
      BY <1>5, <3>1
    <3> QED BY <3>2 DEF Sound, IsProfile, Definition, MemberNodes
  <2> HIDE DEF check
  <2> QED BY <1>1, <1>2, <1>3, <2>1, <2>2, <2>3, <2>4, Reported
<1> QED BY <1>7, <1>8

LEMMA ReturnStep == Progress /\ Return => Progress'
<1> SUFFICES ASSUME Progress, Return PROVE Progress' OBVIOUS
<1>1. TurnsDone /\ entry >= Len(Profiles.children) /\ entry = 2 * Len(declarations) + 1
  BY DEF Return, Progress, TurnsDone
<1>2. UNCHANGED <<doc, entry, members, declarations, verdict>> /\ stage' = "returned"
  BY DEF Return
<1>3. entry > Len(Profiles.children)
  <2>1. Len(Profiles.children) \in Nat /\ Len(Profiles.children) % 2 = 0
    BY <1>1, Tables DEF TurnsDone
  <2>2. Len(declarations) \in Nat
    BY <1>1 DEF TurnsDone, IsList
  <2>3. PICK h : h \in Nat /\ Len(Profiles.children) = 2 * h
    BY <2>1, Halves
  <2> QED BY <1>1, <2>2, <2>3
<1>4. TurnsDone'
  BY <1>1, <1>2 DEF TurnsDone, Profiles
<1> QED BY <1>2, <1>3, <1>4 DEF Progress, FirstFaultReported, Profiles

(* Every step of the parser keeps what the loops carry.                    *)
LEMMA StepsProgress == IInv /\ [Next]_vars => Progress'
<1>1. IInv /\ AddMember => Progress'
  <2>1. AddMember => stage = "member"
    BY DEF AddMember
  <2> QED BY <2>1, MemberStep DEF IInv, Guarded
<1>2. Progress /\ UNCHANGED vars => Progress'
  BY DEF vars, Progress, TurnsDone, MembersDone, FirstFaultReported, IsList, Profiles, NameNode,
         Definition, DefinitionPath, ProfilesPath, MemberNodes
<1> QED BY <1>1, <1>2, RootStep, HeadStep, CloseStep, ReturnStep DEF Next, IInv

-----------------------------------------------------------------------------
(* The strengthened invariant holds in every state of the parser.          *)
THEOREM Invariance == Spec => []IInv
<1>1. IInv /\ [Next]_vars => IInv'
  BY StaysGuarded, StepsProgress DEF IInv
<1> QED BY <1>1, Initially, PTL DEF Spec

(* parse_profiles_yaml() lets no exception of libpkgsource through,        *)
(* whatever the document and whichever names and keys the core admits.     *)
THEOREM CoreErrorsStay == Spec => []NoCoreErrorEscapes
<1>1. IInv => NoCoreErrorEscapes
  BY DEF IInv, Guarded
<1> QED BY <1>1, Invariance, PTL

(* A failure of parse_profiles_yaml() below the root's table is that of    *)
(* the first profile that is not sound, and of its first bad member: the   *)
(* loops pass over nothing that the protocol refuses.                      *)
THEOREM ReportsTheFirst == Spec => []FirstFaultReported
<1>1. IInv => FirstFaultReported
  BY DEF IInv, Progress
<1> QED BY <1>1, Invariance, PTL

(* parse_profiles_yaml() accepts the documents of the protocol and no      *)
(* other, and returns every profile and member of them where it stands.    *)
THEOREM AcceptsTheProtocol == Spec => []ExactlyTheProtocol
<1>1. IInv => ExactlyTheProtocol
  <2> SUFFICES ASSUME Progress
               PROVE  ExactlyTheProtocol
    BY DEF IInv
  <2>1. ASSUME stage = "returned"
        PROVE  /\ IsProfiles(doc) /\ 2 * Len(declarations) = Len(Profiles.children)
               /\ \A i \in DOMAIN declarations : declarations[i] = DeclarationOf(doc, i)
    <3>1. TurnsDone /\ entry > Len(Profiles.children) /\ entry = 2 * Len(declarations) + 1
      BY <2>1 DEF Progress, TurnsDone
    <3>2. /\ Len(Profiles.children) \in Nat /\ DOMAIN Profiles.children = 1 .. Len(Profiles.children)
          /\ KeysAt(Profiles) \subseteq DOMAIN Profiles.children
      BY <3>1, Tables DEF TurnsDone, KeysAt
    <3>3. Len(declarations) \in Nat
      BY <3>1 DEF TurnsDone, IsList
    <3>4. entry <= Len(Profiles.children) + 1
      BY <3>1 DEF TurnsDone
    <3>5. 2 * Len(declarations) = Len(Profiles.children)
      BY <3>1, <3>2, <3>3, <3>4
    <3>6. \A i \in KeysAt(Profiles) : i < entry
      BY <3>1, <3>2, <3>3
    <3>7. Sound(Profiles) = KeysAt(Profiles)
      BY <3>1, <3>6 DEF TurnsDone, Sound
    <3> QED BY <3>1, <3>5, <3>7 DEF TurnsDone, RootSound, IsProfiles, Profiles
  <2>2. stage = "failed" => ~IsProfiles(doc)
    BY DEF Progress
  <2> QED BY <2>1, <2>2 DEF ExactlyTheProtocol, DeclarationOf, MemberOf, Profiles, ProfilesPath
<1> QED BY <1>1, Invariance, PTL

-----------------------------------------------------------------------------
(* The checks of a step report where the walk of the loops has come to: the*)
(* root, the profile at the entry, the member.                             *)
LEMMA RootResolved ==
  ASSUME doc \in Nodes, RootUnnamed(doc)
  PROVE  Resolved(doc, AllowKeys(doc, Root, {"format", "profiles"})
                         ?? RequireFormat(doc, FormatName)
                         ?? RequiredKey(doc, "profiles", Root)
                         ?? RequireKind(Profiles, "mapping", ProfilesPath))
<1> DEFINE a == AllowKeys(doc, Root, {"format", "profiles"})
           format == RequireFormat(doc, FormatName)
           b == RequiredKey(doc, "profiles", Root)
           c == RequireKind(Profiles, "mapping", ProfilesPath)
<1>1. At(doc, Root, doc) /\ Distinguished(Root, "profiles")
  BY RootAt DEF Distinguished, RootName
<1>2. Resolved(doc, a)
  <2>1. doc.kind = "mapping" => \A key \in KeySet(doc) : Distinguished(Root, key)
    BY DEF RootUnnamed, Distinguished
  <2> QED BY <1>1, <2>1, KeysResolved
<1>3. a = OK => doc.kind = "mapping"
  BY KeysPass
<1>4. doc.kind = "mapping" => Resolved(doc, format) /\ Resolved(doc, b)
  BY <1>1, FormatResolved, KeyResolved
<1>5. b = OK => "profiles" \in KeySet(doc)
  BY PlainPasses
<1>6. doc.kind = "mapping" /\ "profiles" \in KeySet(doc) => Resolved(doc, c)
  BY <1>1, ValueResolved DEF Profiles, ProfilesPath
<1> HIDE DEF a, format, b, c
<1>7. Resolved(doc, a ?? format)
  BY <1>2, <1>3, <1>4, BothResolved
<1>8. Resolved(doc, a ?? format ?? b)
  BY <1>3, <1>4, <1>7, BothResolved, BothPass
<1>9. Resolved(doc, a ?? format ?? b ?? c)
  BY <1>3, <1>5, <1>6, <1>8, BothResolved, BothPass
<1> QED BY <1>9 DEF a, format, b, c

(* Where the loops are, each node they check is known by its path.         *)
LEMMA ProfileAt ==
  ASSUME Progress, TurnsDone, entry < Len(Profiles.children)
  PROVE  /\ At(doc, DefinitionPath, Definition) /\ DefinitionPath # Root
         /\ Resolved(doc, Failure("invalid_value", DefinitionPath, NameNode))
<1>1. doc \in Nodes /\ doc.kind = "mapping" /\ "profiles" \in KeySet(doc)
  BY ProfilesDocuments DEF Progress, TurnsDone, RootSound
<1>2. At(doc, ProfilesPath, Profiles) /\ ProfilesPath # Root
  <2>1. At(doc, Root, doc) /\ Distinguished(Root, "profiles")
    BY <1>1, RootAt DEF Distinguished, RootName
  <2> QED BY <1>1, <2>1, ChildAt DEF Profiles, ProfilesPath
<1>3. Profiles.kind = "mapping" /\ Len(Profiles.children) \in Nat /\ Len(Profiles.children) % 2 = 0
  BY Tables DEF TurnsDone
<1>4. PICK i \in 1 .. Len(Profiles.children) \div 2 : entry = 2 * i - 1
  <2>1. entry \in KeysAt(Profiles)
    BY Turn
  <2>2. KeysAt(Profiles) = {2 * i - 1 : i \in 1 .. Len(Profiles.children) \div 2}
    <3>1. Profiles \in Nodes
      BY <1>2 DEF At
    <3> QED BY <1>3, <3>1, Pairs
  <2> QED BY <2>1, <2>2
<1>5. entry + 1 = 2 * i
  BY <1>3, <1>4
<1>6. /\ At(doc, ChildPath(ProfilesPath, NameNode.scalar), Definition)
      /\ ChildPath(ProfilesPath, NameNode.scalar) # Root
      /\ \A code : code # "missing_key" =>
           Resolved(doc, Failure(code, ChildPath(ProfilesPath, NameNode.scalar), NameNode))
  BY <1>2, <1>3, <1>4, <1>5, PairAt DEF NameNode, Definition
<1> QED BY <1>6 DEF DefinitionPath

LEMMA HeadResolved ==
  ASSUME Progress, TurnsDone, entry < Len(Profiles.children)
  PROVE  Resolved(doc, NameCheck
                         ?? AllowKeys(Definition, DefinitionPath, {"members"})
                         ?? RequiredKey(Definition, "members", DefinitionPath)
                         ?? RequireKind(FindKey(Definition, "members"), "sequence", MembersPath))
<1> DEFINE a == AllowKeys(Definition, DefinitionPath, {"members"})
           b == RequiredKey(Definition, "members", DefinitionPath)
           c == RequireKind(FindKey(Definition, "members"), "sequence", MembersPath)
<1>1. /\ At(doc, DefinitionPath, Definition) /\ \A key : Distinguished(DefinitionPath, key)
      /\ Resolved(doc, Failure("invalid_value", DefinitionPath, NameNode)) /\ Resolved(doc, OK)
  BY ProfileAt DEF Distinguished, Resolved
<1>2. Resolved(doc, NameCheck)
  <2>1. \A admitted : Resolved(doc, Semantic(admitted, DefinitionPath, NameNode))
    BY <1>1 DEF Semantic
  <2> QED BY <2>1, BothResolved DEF NameCheck
<1>3. Resolved(doc, a)
  BY <1>1, KeysResolved
<1>4. a = OK => Definition.kind = "mapping"
  BY KeysPass
<1>5. Definition.kind = "mapping" => Resolved(doc, b)
  BY <1>1, KeyResolved
<1>6. b = OK => "members" \in KeySet(Definition)
  BY PlainPasses
<1>7. Definition.kind = "mapping" /\ "members" \in KeySet(Definition) => Resolved(doc, c)
  BY <1>1, ValueResolved DEF MembersPath
<1> HIDE DEF a, b, c
<1>8. Resolved(doc, NameCheck ?? a)
  BY <1>2, <1>3, BothResolved
<1>9. Resolved(doc, NameCheck ?? a ?? b)
  BY <1>4, <1>5, <1>8, BothResolved, BothPass
<1>10. Resolved(doc, NameCheck ?? a ?? b ?? c)
  BY <1>4, <1>6, <1>7, <1>9, BothResolved, BothPass
<1> QED BY <1>10 DEF a, b, c

LEMMA MemberResolved ==
  ASSUME Progress, TurnsDone, MembersDone, Len(members) < Len(MemberNodes),
         NEW value, value = MemberNodes[Len(members) + 1]
  PROVE  Resolved(doc, Subject(value, MemberPath) ?? Provenance(MemberPath, value))
<1> DEFINE list == FindKey(Definition, "members")
<1>1. /\ At(doc, DefinitionPath, Definition) /\ Definition.kind = "mapping"
      /\ "members" \in KeySet(Definition) /\ list.kind = "sequence"
      /\ Distinguished(DefinitionPath, "members")
  BY ProfileAt DEF MembersDone, HeadSound, Distinguished
<1>2. At(doc, MembersPath, list)
  BY <1>1, ChildAt DEF MembersPath
<1>3. Len(members) \in Nat /\ Len(members) + 1 \in 1 .. Len(list.children)
  <2>1. Len(list.children) \in Nat
    BY <1>2, ChildrenAreNodes DEF At
  <2>2. Len(members) \in Nat
    BY DEF MembersDone, IsList
  <2> QED BY <2>1, <2>2 DEF MemberNodes
<1>4. MemberPath = NthPath(MembersPath, Len(members) + 1)
  <2>1. Len(members) + 1 - 1 = Len(members)
    BY <1>3
  <2> QED BY <2>1 DEF MemberPath, NthPath
<1>5. At(doc, MemberPath, value) /\ MemberPath # Root
  <2> HIDE DEF list
  <2>1. value = list.children[Len(members) + 1]
    BY DEF MemberNodes, list
  <2> QED BY <1>1, <1>2, <1>3, <1>4, <2>1, NthAt
<1> QED BY <1>5, SubjectResolved, PlainResolved, BothResolved

(* Failures can be found unless the root has a key with the root's name.   *)
Located == IInv /\ (RootUnnamed(doc) => FailureResolves)

(* No step throws a failure that cannot be found.                          *)
LEMMA StepsLocate == Located /\ [Next]_vars => (RootUnnamed(doc) => FailureResolves)'
<1> SUFFICES ASSUME Located, [Next]_vars, RootUnnamed(doc)' PROVE FailureResolves'
  OBVIOUS
<1>1. doc' = doc
  BY DEF Next, CheckRoot, OpenProfile, AddMember, CloseProfile, Return, Throw, vars
<1>2. RootUnnamed(doc) /\ FailureResolves /\ Progress
  BY <1>1 DEF Located, IInv
<1>3. ASSUME NEW failure, Throw(failure), failure # OK, Resolved(doc, failure) PROVE FailureResolves'
  BY <1>3, <1>1 DEF Throw, Resolved, FailureResolves
<1>4. ASSUME stage' # "failed" PROVE FailureResolves'
  BY <1>4 DEF FailureResolves
<1>5. CASE CheckRoot
  <2> DEFINE check == AllowKeys(doc, Root, {"format", "profiles"})
                        ?? RequireFormat(doc, FormatName)
                        ?? RequiredKey(doc, "profiles", Root)
                        ?? RequireKind(Profiles, "mapping", ProfilesPath)
  <2>1. Resolved(doc, check)
    BY <1>2, RootResolved, ProfilesDocuments DEF Progress
  <2> HIDE DEF check
  <2>2. IF check = OK THEN stage' = "profile" ELSE Throw(check)
    BY <1>5 DEF CheckRoot, check
  <2> QED BY <1>3, <1>4, <2>1, <2>2
<1>6. CASE OpenProfile
  <2> DEFINE check == NameCheck
                        ?? AllowKeys(Definition, DefinitionPath, {"members"})
                        ?? RequiredKey(Definition, "members", DefinitionPath)
                        ?? RequireKind(FindKey(Definition, "members"), "sequence", MembersPath)
  <2>1. Resolved(doc, check)
    BY <1>2, <1>6, HeadResolved DEF OpenProfile, Progress
  <2> HIDE DEF check
  <2>2. IF check = OK THEN stage' = "member" ELSE Throw(check)
    BY <1>6 DEF OpenProfile, check
  <2> QED BY <1>3, <1>4, <2>1, <2>2
<1>7. CASE AddMember
  <2> DEFINE value == MemberNodes[Len(members) + 1]
             check == Subject(value, MemberPath) ?? Provenance(MemberPath, value)
  <2>1. Resolved(doc, check)
    BY <1>2, <1>7, MemberResolved DEF AddMember, Progress
  <2> HIDE DEF check
  <2>2. stage = "member" /\ IF check = OK THEN stage' = stage ELSE Throw(check)
    BY <1>7 DEF AddMember, check
  <2> QED BY <1>3, <1>4, <2>1, <2>2
<1>8. CASE CloseProfile
  <2> DEFINE check == Semantic(members # << >>, DefinitionPath, NameNode)
  <2>1. Resolved(doc, check)
    <3>1. TurnsDone /\ entry < Len(Profiles.children)
      BY <1>2, <1>8 DEF CloseProfile, Progress, MembersDone
    <3> QED BY <1>2, <3>1, ProfileAt DEF Semantic, Resolved
  <2> HIDE DEF check
  <2>2. IF check = OK THEN stage' = "profile" ELSE Throw(check)
    BY <1>8 DEF CloseProfile, check
  <2> QED BY <1>3, <1>4, <2>1, <2>2
<1>9. CASE Return
  BY <1>4, <1>9 DEF Return
<1>10. CASE UNCHANGED vars
  BY <1>2, <1>10 DEF vars, FailureResolves
<1> QED BY <1>5, <1>6, <1>7, <1>8, <1>9, <1>10 DEF Next

(* The path of a failure and its line and column lead to one place of the  *)
(* document, from the middle of the loops too.  Only a key of the root that*)
(* is named like the root itself is excepted: child_path() takes it for it.*)
THEOREM FailuresResolve == Spec => [](RootUnnamed(doc) => FailureResolves)
<1>1. Init => Located
  <2>1. Init => stage # "failed"
    BY DEF Init
  <2> QED BY <2>1, Initially DEF Located, FailureResolves
<1>2. IInv /\ [Next]_vars => IInv'
  BY StaysGuarded, StepsProgress DEF IInv
<1>3. Located /\ [Next]_vars => Located'
  BY <1>2, StepsLocate DEF Located
<1>4. Located => (RootUnnamed(doc) => FailureResolves)
  BY DEF Located
<1> QED BY <1>1, <1>3, <1>4, PTL DEF Spec

=============================================================================
