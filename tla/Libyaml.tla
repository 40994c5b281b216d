------------------------------- MODULE Libyaml -------------------------------
(***************************************************************************)
(* The order in which libyaml's yaml_parser_parse() delivers events, as    *)
(* far as the adaptor and its caller rely on it.  External: libyaml is not *)
(* part of the repository.                                                 *)
(***************************************************************************)
EXTENDS EventStream

(* Which kinds may follow the events s.  Collections close in order, a     *)
(* mapping only between two pairs, and nothing follows the stream's end.   *)
LibyamlKinds(s) ==
  CASE s = << >> -> {"stream_start"}
    [] Len(s) > 0 /\ s[Len(s)].kind = "stream_end" -> {}
    [] Len(s) > 0 /\ s[Len(s)].kind \in {"stream_start", "document_end"} ->
         {"document_start", "stream_end"}
    [] OTHER ->
         IF RootComplete(s) THEN {"document_end"}
         ELSE ValueKinds \union {"alias"} \union
              IF Open(s) = {} THEN {}
              ELSE IF s[Innermost(s)].kind = "sequence_start"
                THEN {"sequence_end"}
              ELSE IF Cardinality(Members(s, Innermost(s))) % 2 = 0
                THEN {"mapping_end"}
              ELSE {}

LibyamlMay(s, e) == e.kind \in LibyamlKinds(s)

=============================================================================
