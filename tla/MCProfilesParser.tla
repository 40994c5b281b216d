-------------------------- MODULE MCProfilesParser --------------------------
(***************************************************************************)
(* ProfilesParser on documents that are right or wrong at every place the  *)
(* parser looks at, with up to two profiles of up to two members, the      *)
(* second of up to one.                                                    *)
(***************************************************************************)
EXTENDS ProfilesParser, MCNodes

LOCAL INSTANCE SequencesExt

MCScalars == {"good", "@good", "unsafe", "Bad", "other", FormatName}

Package  == Table(<<"package", Text("good")>>)
Subjects == {Table(<<kind, Text(name)>>) : kind \in {"package", "profile"}, name \in {"good", "@good"}}
            \union {Plus(Package, "profile", Text("@good"))} \union Spoiled(Package)

Definitions(size) ==
  {Table(<<"members", List(s)>>) : s \in BoundedSeq(Subjects, size)}
  \union Spoiled(Table(<<"members", List(<<Package>>)>>))

ProfileMaps ==
  {Text("good"), Table(<< >>)}
  \union {Table(<<n, d>>) : n \in {"good", "unsafe", "Bad", "@good"}, d \in Definitions(2)}
  \union {Table(<<n[1], d, n[2], e>>) : n \in {<<"good", "unsafe">>, <<"unsafe", "good">>, <<"good", "Bad">>},
                                        d \in Definitions(2), e \in Definitions(1)}

Right == Table(<<"format", Text(FormatName), "profiles", Table(<< >>)>>)

MCDocuments ==
  {Placed(d, << >>) : d \in Spoiled(Right) \union {With(Right, "profiles", p) : p \in ProfileMaps}}

(* TLC computes a definition once, but what replaces a constant each time. *)
AllNodes  == Subtrees(MCDocuments)
MCNodeSet == AllNodes

=============================================================================
