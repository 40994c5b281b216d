--------------------------- MODULE MCRecipeParser ---------------------------
(***************************************************************************)
(* RecipeParser on a right document, on documents with one part that is    *)
(* wrong in one way, and on documents with faults in two parts, for which  *)
(* the order of the arguments decides what is reported.                    *)
(***************************************************************************)
EXTENDS RecipeParser, MCNodes

MCScalars == {"good", "@good", "unsafe", "Bad", "1", "0"}
Fixed     == {"requirements", "build", "run", "check", "lifecycle", "document"} \union Actions

APackage == Table(<<"package", Text("good")>>)
AProgram == Table(<<"language", Text("posix-shell"), "script", Text("good")>>)
ASource  == Table(<<"url", Text("good"), "name", Text("good"), "sha256", Text("good")>>)
ALocal   == Table(<<"path", Text("good"), "name", Text("good"), "sha256", Text("good"),
                    "unpack", Text("archive")>>)
One(v)   == List(<<v>>)

RightPart == [
  format        |-> Text(FormatName),
  package       |-> Table(<<"name", Text("good"), "version", Text("good"), "release", Text("1"),
                            "summary", Text("good"), "description", Text("good"),
                            "homepage", Text("good"), "licenses", One(Text("good"))>>),
  requirements  |-> Table(<<"run", List(<<APackage, Table(<<"profile", Text("@good")>>)>>),
                            "lifecycle", Table(<<"pre-remove", One(APackage),
                                                 "post-install", One(APackage)>>),
                            "build", One(APackage), "check", List(<< >>)>>),
  sources       |-> List(<<ASource, ALocal>>),
  build         |-> AProgram,
  check         |-> AProgram,
  lifecycle     |-> Table(<<"post-install", AProgram>>),
  architectures |-> Table(<<"build", List(<<Text("good"), Text("unsafe")>>),
                            "target", One(Text("good"))>>)]

Parts == <<"format", "package", "requirements", "sources", "build", "check", "lifecycle",
           "architectures">>

SubjectFaults == Spoiled(APackage) \union {Plus(APackage, "profile", Text("@good")),
                   Table(<<"package", Text("@good")>>), Table(<<"profile", Text("good")>>)}
SourceFaults  == {Plus(ASource, "path", Text("good"))} \union Spoiled(ASource) \union Spoiled(ALocal)

(* The ways in which each part is made wrong, or otherwise right.          *)
Variants(part) ==
  LET right == RightPart[part]
  IN  CASE part = "format"  -> {Text("good"), List(<< >>)}
        [] part = "package" ->
             Spoiled(right) \union {With(right, "licenses", One(v)) : v \in {Text("Bad"), List(<< >>)}}
        [] part = "sources" ->
             {Text("good"), List(<< >>)} \union {List(<<ALocal, s>>) : s \in SourceFaults}
        [] part \in {"build", "check"} -> Spoiled(right)
        [] part = "lifecycle" ->
             {Text("good"), Plus(right, "unsafe", AProgram)}
             \union {With(right, "post-install", p) : p \in Spoiled(AProgram)}
        [] part = "architectures" ->
             Spoiled(right) \union {With(right, key, List(s)) : key \in {"build", "target"},
                                      s \in {<< >>, <<Text("good"), Text("good")>>,
                                             <<Text("Bad")>>, <<List(<< >>)>>}}
        [] part = "requirements" ->
             Spoiled(right)
             \union {With(right, key, List(<<APackage, s>>)) :
                       key \in {"build", "run", "check"}, s \in SubjectFaults}
             \union {With(right, "lifecycle", m) :
                       m \in {Text("good"), Table(<<"post-install", Text("good")>>)}
                             \union {Table(<<key, One(s)>>) : key \in {"pre-install", "unsafe"},
                                                              s \in SubjectFaults \union {APackage}}}

Assembled(values) ==
  Table([i \in 1 .. 2 * Len(Parts) |->
           IF i % 2 = 1 THEN Parts[(i + 1) \div 2] ELSE values[Parts[i \div 2]]])

Faulty(part) == IF part = "sources" THEN List(<<ALocal, Table(<< >>)>>)
                ELSE IF part = "format" THEN Text("good") ELSE Plus(RightPart[part], "other", APackage)

MCDocuments ==
  LET right == Assembled(RightPart)
      parts == DOMAIN RightPart
      one   == UNION {{With(right, p, v) : v \in Variants(p)} : p \in parts}
      two   == {With(With(right, p, Faulty(p)), q, Faulty(q)) : p \in parts, q \in parts}
      none  == Spoiled(right) \union {Without(right, p) : p \in parts}
  IN  {Placed(d, << >>) : d \in {right} \union one \union two \union none}

(* TLC computes a definition once, but what replaces a constant each time. *)
AllNodes  == Subtrees(MCDocuments)
MCNodeSet == AllNodes

=============================================================================
