--------------------------- MODULE MCParseDocument ---------------------------
(***************************************************************************)
(* ParseDocument with one event for each class that its parts tell apart,  *)
(* and a provider that may fail at each of them.                           *)
(***************************************************************************)
EXTENDS ParseDocument

MCScalars == {"a", MergeKey}

MCDocumentSizes == {1, 2}

Plain(kind) == [kind |-> kind, value |-> "", anchored |-> FALSE,
                tag |-> "none", directives |-> FALSE]

(* A scalar without contents stands for a value that is left out.          *)
MCOffered ==
  {Plain(kind) : kind \in EventKinds \ {"alias"}}
  \union {[Plain("scalar") EXCEPT !.value = v] : v \in MCScalars}
  \union {[Plain("alias") EXCEPT !.anchored = TRUE]}

MCNatives ==
  {[type |-> type, length |-> length, line |-> 0] :
     type \in EventKinds \union {"no_event", "scanner_error", "memory_error"},
     length \in {0}}
  \union {[type |-> "scalar", length |-> 1, line |-> 0]}

=============================================================================
