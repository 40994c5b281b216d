---------------------------- MODULE MCTreeBuilder ----------------------------
(***************************************************************************)
(* Small instances of TreeBuilder.                                         *)
(***************************************************************************)
EXTENDS TreeBuilderProperties

MCScalars == {"a", "b"}

MCDocumentSizes == {1, 2}

(* One event for each class that the code treats differently.              *)
Plain(kind) == [kind |-> kind, value |-> "", anchored |-> FALSE,
                tag |-> "none", directives |-> FALSE]

MCOffered ==
  {Plain(kind) : kind \in EventKinds \ {"scalar", "alias"}}
  \union {[Plain("scalar") EXCEPT !.value = v] : v \in MCScalars}
  \union {[Plain("scalar") EXCEPT !.value = "a", !.tag = "int"],
          [Plain("scalar") EXCEPT !.value = "a", !.tag = "seq"],
          [Plain("scalar") EXCEPT !.value = "a", !.anchored = TRUE],
          [Plain("mapping_start") EXCEPT !.tag = "map"],
          [Plain("mapping_start") EXCEPT !.tag = "custom", !.anchored = TRUE],
          [Plain("alias") EXCEPT !.anchored = TRUE],
          [Plain("document_start") EXCEPT !.directives = TRUE]}

(* A reader bound by no grammar: document.cpp itself answers for the order *)
(* of the events it is given.                                              *)
AnyProvider(s, e) == TRUE

=============================================================================
