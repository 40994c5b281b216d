--------------------------- MODULE ProfilesParser ---------------------------
(***************************************************************************)
(* parse_profiles_yaml() after parse_document(): the document tree becomes *)
(* a list of profile declarations, or the first failure.  A step is the    *)
(* check of the root, or a part of one turn of the loop over profiles.     *)
(***************************************************************************)
EXTENDS Protocol

CONSTANT Documents         \* The trees parse_document() may return.

ASSUME ProfilesDocuments == Documents \subseteq Nodes

(* Nothing in the protocol's own keys must not be in a provenance.         *)
ASSUME ProfilesKeysSafe == {"profiles", "members"} \subseteq SafeKeys

FormatName == "zeppe-lin.profiles/1"

VARIABLES
  doc,
  stage,
  entry,                   \* profile_index: the child that is the next name.
  members,                 \* The members of the profile being read.
  declarations,
  verdict                  \* The failure thrown, or OK.

vars == <<doc, stage, entry, members, declarations, verdict>>

Profiles       == FindKey(doc, "profiles")
ProfilesPath   == ChildPath(Root, "profiles")
NameNode       == Profiles.children[entry]
Definition     == Profiles.children[entry + 1]
DefinitionPath == ChildPath(ProfilesPath, NameNode.scalar)
MembersPath    == ChildPath(DefinitionPath, "members")
MemberNodes    == FindKey(Definition, "members").children

(* The failure is thrown, or the control goes on to the next stage.        *)
Throw(failure) == /\ verdict' = failure
                  /\ stage' = "failed"
                  /\ UNCHANGED <<doc, entry, members, declarations>>

-----------------------------------------------------------------------------
CheckRoot ==
  /\ stage = "root"
  /\ LET check == AllowKeys(doc, Root, {"format", "profiles"})
                    ?? RequireFormat(doc, FormatName)
                    ?? RequiredKey(doc, "profiles", Root)
                    ?? RequireKind(Profiles, "mapping", ProfilesPath)
     IN  IF check = OK
           THEN /\ stage' = "profile" /\ entry' = 1
                /\ UNCHANGED <<doc, members, declarations, verdict>>
           ELSE Throw(check)

ProfileNameBare(key) == key                                       \* mutant

(* A key is the profile's name without its "@".                            *)
ProfileName(key) == "@" \o key

NameCheckUnguarded ==                                             \* mutant
  Semantic(ReferenceAdmitted("profile", ProfileName(NameNode.scalar)), DefinitionPath, NameNode)

(* The dynamic key is admitted, as a name and inside a path, before        *)
(* anything below it is looked at.                                         *)
NameCheck ==
  Semantic(ReferenceAdmitted("profile", ProfileName(NameNode.scalar)), DefinitionPath, NameNode)
    ?? Semantic(ProvenanceAdmitted(DefinitionPath), DefinitionPath, NameNode)

OpenProfile ==
  /\ stage = "profile" /\ entry < Len(Profiles.children)
  /\ LET check == NameCheck
                    ?? AllowKeys(Definition, DefinitionPath, {"members"})
                    ?? RequiredKey(Definition, "members", DefinitionPath)
                    ?? RequireKind(FindKey(Definition, "members"), "sequence",
                                   MembersPath)
     IN  IF check = OK
           THEN /\ stage' = "member" /\ members' = << >>
                /\ UNCHANGED <<doc, entry, declarations, verdict>>
           ELSE Throw(check)

MemberPathAtEntry == ItemPath(MembersPath, entry \div 2)          \* mutant

MemberPath == ItemPath(MembersPath, Len(members))

AddMember ==
  /\ stage = "member" /\ Len(members) < Len(MemberNodes)
  /\ LET value == MemberNodes[Len(members) + 1]
         check == Subject(value, MemberPath) ?? Provenance(MemberPath, value)
     IN  IF check = OK
           THEN /\ members' = Append(members, [subject |-> value, path |-> MemberPath])
                /\ UNCHANGED <<doc, stage, entry, declarations, verdict>>
           ELSE Throw(check)

(* profile_declaration's constructor refuses a profile with no members.    *)
CloseProfile ==
  /\ stage = "member" /\ Len(members) = Len(MemberNodes)
  /\ LET check == Semantic(members # << >>, DefinitionPath, NameNode)
     IN  IF check = OK
           THEN /\ declarations' = Append(declarations,
                     [name |-> ProfileName(NameNode.scalar), path |-> DefinitionPath,
                      at |-> NameNode.mark, members |-> members])
                /\ stage' = "profile" /\ entry' = entry + 2 /\ members' = << >>
                /\ UNCHANGED <<doc, verdict>>
           ELSE Throw(check)

Return ==
  /\ stage = "profile" /\ entry >= Len(Profiles.children)
  /\ stage' = "returned"
  /\ UNCHANGED <<doc, entry, members, declarations, verdict>>

Init ==
  /\ doc \in Documents
  /\ stage = "root" /\ entry = 1
  /\ members = << >> /\ declarations = << >>
  /\ verdict = OK

Next == CheckRoot \/ OpenProfile \/ AddMember \/ CloseProfile \/ Return

Spec == Init /\ [][Next]_vars

-----------------------------------------------------------------------------
(* Properties.                                                             *)

(* What docs/protocols/profiles-yaml-v1.md asks of a document, node by     *)
(* node and with no order among the demands.                               *)
IsProfile(name, definition) ==
  /\ "@" \o name.scalar \in ProfileNames /\ name.scalar \in SafeKeys
  /\ definition.kind = "mapping" /\ KeySet(definition) = {"members"}
  /\ LET list == FindKey(definition, "members")
     IN  /\ list.kind = "sequence" /\ list.children # << >>
         /\ \A i \in DOMAIN list.children : IsSubject(list.children[i])

Sound(m) == {i \in KeysAt(m) : IsProfile(m.children[i], m.children[i + 1])}

IsProfiles(d) ==
  /\ d.kind = "mapping" /\ KeySet(d) = {"format", "profiles"}
  /\ IsText(FindKey(d, "format"), {FormatName})
  /\ FindKey(d, "profiles").kind = "mapping"
  /\ Sound(FindKey(d, "profiles")) = KeysAt(FindKey(d, "profiles"))

(* The documents that are accepted are exactly those of the protocol; what *)
(* is returned has every profile and every member, in the document's order *)
(* and each at its own schema path, under the name that references to the  *)
(* profile have: its key behind an "@".                                    *)
ExactlyTheProtocol ==
  /\ stage = "failed" => ~IsProfiles(doc)
  /\ stage = "returned" =>
       /\ IsProfiles(doc)
       /\ 2 * Len(declarations) = Len(Profiles.children)
       /\ \A i \in DOMAIN declarations :
            LET name  == Profiles.children[2 * i - 1]
                nodes == FindKey(Profiles.children[2 * i], "members").children
                path  == ChildPath(ProfilesPath, name.scalar)
            IN  declarations[i] =
                  [name |-> "@" \o name.scalar, path |-> path, at |-> name.mark,
                   members |-> [j \in DOMAIN nodes |->
                     [subject |-> nodes[j],
                      path |-> ItemPath(ChildPath(path, "members"), j - 1)]]]

(* No exception of libpkgsource crosses the parser's boundary: a key that  *)
(* must not be in a path is refused before a path below it is built for a  *)
(* declaration.                                                            *)
NoCoreErrorEscapes == verdict.code \in ErrorCodes \union {"none"}

(* A failure inside the profiles is that of the first profile that is not  *)
(* sound, and of its first bad member where it has a path through one:     *)
(* every profile and member before it has been read.                       *)
FirstFaultReported ==
  stage = "failed" /\ Len(verdict.path) >= 2 =>
    LET unsound == KeysAt(Profiles) \ Sound(Profiles)
    IN  /\ entry \in unsound
        /\ \A i \in unsound : entry <= i
        /\ verdict.path[2] = <<"key", NameNode.scalar>>
        /\ Len(verdict.path) >= 4 =>
             LET bad == {i \in DOMAIN MemberNodes : ~IsSubject(MemberNodes[i])}
             IN  /\ verdict.path[4][2] + 1 \in bad
                 /\ \A i \in bad : verdict.path[4][2] + 1 <= i

(* What is reported can be found: the path of a failure leads to the node  *)
(* whose line and column it bears, also from the middle of the loops.      *)
FailureResolves == stage = "failed" => Resolves(doc, verdict)

=============================================================================
