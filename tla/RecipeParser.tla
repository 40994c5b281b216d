---------------------------- MODULE RecipeParser ----------------------------
(***************************************************************************)
(* parse_recipe_yaml() after parse_document(): the document tree becomes   *)
(* one recipe declaration, or the failure of the first check that is made. *)
(*                                                                         *)
(* The arguments of recipe_declaration's constructor are computed in the   *)
(* order the compiler chooses: a step computes one of those that are left. *)
(***************************************************************************)
EXTENDS Protocol

CONSTANTS
  Documents,               \* The trees parse_document() may return.
  Releases,                \* What release_value() takes for a release.
  Values                   \* What libpkgsource's other constructors accept.

ASSUME RecipeDocuments == Documents \subseteq Nodes

(* What parse_recipe_yaml() puts into the paths of provenances itself.     *)
ASSUME RecipeKeysSafe ==
  {"document", "requirements", "build", "run", "check", "lifecycle",
   "pre-install", "post-install", "pre-remove", "post-remove"} \subseteq SafeKeys

FormatName == "zeppe-lin.recipe/1"

VARIABLES
  doc,
  stage,
  todo,                    \* The arguments that are not computed yet.
  requirements,            \* The requirements declared.
  verdict                  \* The failure thrown, or OK.

vars == <<doc, stage, todo, requirements, verdict>>

PathTo(key)   == ChildPath(Root, key)
Package       == FindKey(doc, "package")
PackagePath   == PathTo("package")
Wellformed(m, keys) == \A k \in keys : HasKey(m, k) => FindKey(m, k).scalar \in Values

-----------------------------------------------------------------------------
(* recipe_fields.cpp.                                                      *)

Program(value, path) ==
  AllowKeys(value, path, {"language", "script"})
    ?? RequiredKeys(value, <<"language", "script">>, path)
    ?? RequireText(FindKey(value, "language"), {"posix-shell"}, ChildPath(path, "language"))
    ?? ScalarAt(value, "script", path)
    ?? Semantic(Wellformed(value, {"script"}), ChildPath(path, "script"),
                FindKey(value, "script"))

Actions == {"pre-install", "post-install", "pre-remove", "post-remove"}

(* action_value(), on a key: validate_tree() has found it to be a scalar.  *)
Action(key, path) == RequireText(key, Actions, path)

Lifecycle(value, path) ==
  EachPair(value, path, LAMBDA key, program, at : Action(key, at) ?? Program(program, at))

RequirementSequence(value, path) ==
  EachItem(value, path, LAMBDA item, at : Subject(item, at) ?? Provenance(at, item))

LifecycleScopeLate(key, subjects, path) ==                        \* mutant
  RequirementSequence(subjects, path) ?? Action(key, path)

(* The action is known before a path with its name in it is used.          *)
LifecycleScope(key, subjects, path) ==
  Action(key, path) ?? RequirementSequence(subjects, path)

ScopesByUse == <<"run", "build", "check">>                        \* mutant

Scopes == <<"build", "run", "check">>

Requirements(value, path) ==
  AllowKeys(value, path, {"build", "run", "check", "lifecycle"})
    ?? FirstOf([i \in DOMAIN Scopes |->
         IfPresent(value, Scopes[i],
                   LAMBDA list : RequirementSequence(list, ChildPath(path, Scopes[i])))])
    ?? IfPresent(value, "lifecycle",
                 LAMBDA m : EachPair(m, ChildPath(path, "lifecycle"), LifecycleScope))

(* What requirements_value() returns when every check has passed.          *)
InScope(scope, list, path) ==
  [i \in DOMAIN list.children |->
     [scope |-> scope, subject |-> list.children[i], path |-> NthPath(path, i)]]

Declared(value, path) ==
  LET lifecycle == ChildPath(path, "lifecycle")
      nodes  == IF HasKey(value, "lifecycle")
                  THEN FindKey(value, "lifecycle").children ELSE << >>
      Fixed(scope) == IF HasKey(value, scope)
                        THEN InScope(scope, FindKey(value, scope), ChildPath(path, scope))
                        ELSE << >>
      OnAction(action, list) == InScope(action, list, ChildPath(lifecycle, action))
  IN  FlattenSeq([i \in DOMAIN Scopes |-> Fixed(Scopes[i])]
        \o [i \in 1 .. Len(nodes) \div 2 |-> OnAction(nodes[2 * i - 1].scalar, nodes[2 * i])])

Architecture(value, path) ==
  RequireKind(value, "scalar", path) ?? Semantic(value.scalar \in Values, path, value)

(* architecture_requirements refuses a name that is given twice.           *)
Architectures(value, path) ==
  AllowKeys(value, path, {"build", "target"})
    ?? FirstOf([i \in 1 .. 2 |->
         LET key == <<"build", "target">>[i]
         IN  IfPresent(value, key,
                       LAMBDA list : EachItem(list, ChildPath(path, key), Architecture))])
    ?? Semantic(\A key \in KeySet(value) :
                  IsInjective([i \in DOMAIN FindKey(value, key).children |->
                                 FindKey(value, key).children[i].scalar]),
                path, value)

Source(entry, path) ==
  LET locator == IF HasKey(entry, "url") THEN "url" ELSE "path"
  IN  AllowKeys(entry, path, {"url", "path", "name", "unpack", "sha256"})
        ?? (IF OneOf(entry, "url", "path") THEN OK ELSE Failure("invalid_value", path, entry))
        ?? RequiredKeys(entry, <<"name", "sha256">>, path)
        ?? IfPresent(entry, "unpack",
                     LAMBDA v : RequireText(v, {"archive"}, ChildPath(path, "unpack")))
        ?? ScalarAt(entry, "name", path)
        ?? ScalarAt(entry, "sha256", path)
        ?? Semantic(Wellformed(entry, {"sha256"}), ChildPath(path, "sha256"),
                    FindKey(entry, "sha256"))
        ?? ScalarAt(entry, locator, path)
        ?? Semantic(Wellformed(entry, {"name", locator}), path, entry)

PackageRelease(package, path) ==
  AllowKeys(package, path, {"name", "version", "release", "summary", "description",
                            "homepage", "licenses"})
    ?? RequiredKeys(package, <<"name", "version", "release">>, path)
    ?? ScalarAt(package, "name", path)
    ?? ScalarAt(package, "version", path)
    ?? RequireText(FindKey(package, "release"), Releases, ChildPath(path, "release"))
    ?? Semantic(/\ ReferenceAdmitted("package", FindKey(package, "name").scalar)
                /\ Wellformed(package, {"version"}), path, package)

Scalar(value, path) == RequireKind(value, "scalar", path)

(* The keys that are not allowed are PackageRelease's to find.             *)
PackageMetadata(package, path) ==
  LET licenses == FindKey(package, "licenses")
  IN  RequiredKeys(package, <<"summary", "licenses">>, path)
        ?? ScalarAt(package, "summary", path)
        ?? IfPresent(package, "description",
                     LAMBDA v : Scalar(v, ChildPath(path, "description")))
        ?? IfPresent(package, "homepage", LAMBDA v : Scalar(v, ChildPath(path, "homepage")))
        ?? EachItem(licenses, ChildPath(path, "licenses"), Scalar)
        ?? Semantic(/\ Wellformed(package, {"summary", "description", "homepage"})
                    /\ \A i \in DOMAIN licenses.children :
                         licenses.children[i].scalar \in Values, path, package)

-----------------------------------------------------------------------------
(* parse_recipe_yaml().                                                    *)

Throw(failure) == verdict' = failure /\ stage' = "failed" /\ UNCHANGED <<todo, requirements>>

Arguments == {"release", "metadata", "sources", "build", "requirements",
              "architectures", "provenance"}

(* All that comes before the constructor's call.                           *)
RootCheck ==
  AllowKeys(doc, Root, {"format", "package", "requirements", "sources", "build", "check",
                        "lifecycle", "architectures"})
    ?? RequireFormat(doc, FormatName)
    ?? RequiredKey(doc, "package", Root)
    ?? RequireKind(Package, "mapping", PackagePath)
    ?? RequiredKeys(doc, <<"requirements", "sources", "build">>, Root)
    ?? IfPresent(doc, "check", LAMBDA v : Program(v, PathTo("check")))
    ?? IfPresent(doc, "lifecycle", LAMBDA v : Lifecycle(v, PathTo("lifecycle")))

CheckRoot ==
  /\ stage = "root"
  /\ IF RootCheck = OK
       THEN stage' = "arguments" /\ UNCHANGED <<todo, requirements, verdict>>
       ELSE Throw(RootCheck)
  /\ UNCHANGED doc

(* The provenance of the recipe is at "document", which is not in it.      *)
ArgumentCheck(argument) ==
  LET value == FindKey(doc, argument)
      path  == PathTo(argument)
  IN  CASE argument = "release"       -> PackageRelease(Package, PackagePath)
        [] argument = "metadata"      -> PackageMetadata(Package, PackagePath)
        [] argument = "sources"       -> EachItem(value, path, Source)
        [] argument = "build"         -> Program(value, path)
        [] argument = "requirements"  -> Requirements(value, path)
        [] argument = "architectures" ->
             IfPresent(doc, argument, LAMBDA v : Architectures(v, path))
        [] argument = "provenance"    -> Provenance(PathTo("document"), doc)

Evaluate(argument) ==
  /\ stage = "arguments"
  /\ LET check == ArgumentCheck(argument)
     IN  IF check = OK
           THEN /\ todo' = todo \ {argument}
                /\ requirements' =
                     IF argument = "requirements"
                       THEN Declared(FindKey(doc, argument), PathTo(argument)) ELSE requirements
                /\ UNCHANGED <<stage, verdict>>
           ELSE Throw(check)
  /\ UNCHANGED doc

Return ==
  /\ stage = "arguments" /\ todo = {}
  /\ stage' = "returned"
  /\ UNCHANGED <<doc, todo, requirements, verdict>>

Init ==
  /\ doc \in Documents
  /\ stage = "root" /\ todo = Arguments /\ requirements = << >> /\ verdict = OK

Next == CheckRoot \/ (\E argument \in todo : Evaluate(argument)) \/ Return

Spec == Init /\ [][Next]_vars

-----------------------------------------------------------------------------
(* Properties.                                                             *)

(* What docs/protocols/recipe-yaml-v1.md asks of a document, node by node  *)
(* and with no order among the demands.                                    *)
IsTable(v, required, optional) ==
  v.kind = "mapping" /\ required \subseteq KeySet(v) /\ KeySet(v) \subseteq required \union optional

Each(v, Is(_)) == v.kind = "sequence" /\ \A i \in DOMAIN v.children : Is(v.children[i])

Given(m, keys, Is(_)) == \A key \in keys \intersect KeySet(m) : Is(FindKey(m, key))

IsValue(v) == IsText(v, Values)

IsProgram(v) ==
  /\ IsTable(v, {"language", "script"}, {})
  /\ IsText(FindKey(v, "language"), {"posix-shell"}) /\ IsValue(FindKey(v, "script"))

ByAction(v, Is(_)) == IsTable(v, {}, Actions) /\ Given(v, Actions, Is)

Subjects(v) == Each(v, IsSubject)

IsSource(v) ==
  /\ \E locator \in {"url", "path"} : IsTable(v, {locator, "name", "sha256"}, {"unpack"})
  /\ Given(v, {"url", "path", "name", "sha256"}, IsValue)
  /\ Given(v, {"unpack"}, LAMBDA u : IsText(u, {"archive"}))

Distinct(list) == IsInjective([i \in DOMAIN list.children |-> list.children[i].scalar])

IsPackage(v) ==
  /\ IsTable(v, {"name", "version", "release", "summary", "licenses"},
             {"description", "homepage"})
  /\ IsText(FindKey(v, "name"), PackageNames)
  /\ IsText(FindKey(v, "release"), Releases)
  /\ Given(v, {"version", "summary", "description", "homepage"}, IsValue)
  /\ Each(FindKey(v, "licenses"), IsValue)

IsRecipe(d) ==
  /\ IsTable(d, {"format", "package", "requirements", "sources", "build"},
             {"check", "lifecycle", "architectures"})
  /\ IsText(FindKey(d, "format"), {FormatName})
  /\ IsPackage(FindKey(d, "package"))
  /\ Each(FindKey(d, "sources"), IsSource)
  /\ Given(d, {"build", "check"}, IsProgram)
  /\ Given(d, {"lifecycle"}, LAMBDA v : ByAction(v, IsProgram))
  /\ LET r == FindKey(d, "requirements")
     IN  /\ IsTable(r, {}, {"build", "run", "check", "lifecycle"})
         /\ Given(r, {"build", "run", "check"}, Subjects)
         /\ Given(r, {"lifecycle"}, LAMBDA v : ByAction(v, Subjects))
  /\ Given(d, {"architectures"},
           LAMBDA v : /\ IsTable(v, {}, {"build", "target"})
                      /\ Given(v, {"build", "target"},
                               LAMBDA list : Each(list, IsValue) /\ Distinct(list)))

(* Whatever order the compiler computes the arguments in, the documents    *)
(* accepted are exactly those of the protocol: no argument relies on the   *)
(* checks of another that may come later.                                  *)
ExactlyTheProtocol ==
  /\ stage = "failed" => ~IsRecipe(doc)
  /\ stage = "returned" => IsRecipe(doc)

(* No exception of libpkgsource leaves the parser from the provenance of a *)
(* requirement, which is built outside semantic_value().                   *)
NoCoreErrorEscapes == verdict.code \in ErrorCodes \union {"none"}

(* The path of a failure leads to the node whose line and column it bears. *)
FailureResolves == stage = "failed" => Resolves(doc, verdict)

(* Every requirement of the document is declared once, with the path that  *)
(* leads to it; build before run before check, whatever order these have   *)
(* in the document, and then the actions in the order they have there.     *)
RequirementPaths ==
  LET top   == PathTo("requirements")
      m     == FindKey(doc, "requirements")
      under == ChildPath(top, "lifecycle")
      lists == {ChildPath(top, key) : key \in KeySet(m) \ {"lifecycle"}}
               \union IF HasKey(m, "lifecycle")
                        THEN {ChildPath(under, key) : key \in KeySet(FindKey(m, "lifecycle"))}
                        ELSE {}
  IN  UNION {{ItemPath(list, i - 1) : i \in DOMAIN NodeAt(doc, list).children} : list \in lists}

Place(path) ==
  LET list == Front(path)
      key  == Last(list)[2]
      m    == NodeAt(doc, Front(list))
  IN  IF Len(list) = 2 THEN [build |-> 1, run |-> 2, check |-> 3][key]
      ELSE 3 + CHOOSE i \in KeysAt(m) : m.children[i].scalar = key

DeclaredInOrder ==
  stage # "failed" /\ "requirements" \notin todo =>
    /\ {requirements[i].path : i \in DOMAIN requirements} = RequirementPaths
    /\ \A i \in DOMAIN requirements :
         /\ requirements[i].subject = NodeAt(doc, requirements[i].path)
         /\ requirements[i].scope = Last(Front(requirements[i].path))[2]
    /\ \A i, j \in DOMAIN requirements : i < j =>
         LET a == requirements[i].path
             b == requirements[j].path
         IN  \/ Place(a) < Place(b)
             \/ Place(a) = Place(b) /\ Last(a)[2] < Last(b)[2]

=============================================================================
