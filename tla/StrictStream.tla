---------------------------- MODULE StrictStream ----------------------------
(***************************************************************************)
(* What the strict subset promises of any stream of events: the verdict of *)
(* a document is a function of the events read so far, it is reached at    *)
(* the first event that decides it, and no event is read after it.         *)
(*                                                                         *)
(* A stream is open exactly as long as some continuation of it would be    *)
(* accepted or would exceed only a limit.  Nothing here remembers a stack: *)
(* nesting is recounted from the events.                                   *)
(***************************************************************************)
EXTENDS EventStream

CONSTANTS MaxNodes, MaxDepth,
          Offered,               \* The events there are.
          Aborts                 \* The codes of failures that no event
                                 \* decides: the reader's, and the byte
                                 \* limit's before the first event.

VARIABLES seen, verdict

Closing(s, e) ==
  \/ s[Innermost(s)].kind = "sequence_start" /\ e.kind = "sequence_end"
  \/ s[Innermost(s)].kind = "mapping_start"  /\ e.kind = "mapping_end"

Balanced(s) ==
  s[Innermost(s)].kind = "mapping_start"
    => Cardinality(Members(s, Innermost(s))) % 2 = 0

(* A value where a value may stand.  A feature outside the subset is named *)
(* as such even when the document is out of budget too.                    *)
ValueVerdict(s, e) ==
  CASE \/ e.kind = "alias"
       \/ e.kind \in ValueKinds
          /\ (e.anchored \/ ~PermittedTag(KindOf(e), e.tag))
                                -> "unsupported_feature"
    [] e.kind \notin ValueKinds \union {"alias"}
                                -> "invalid_document"
    [] OTHER -> IF \/ Cardinality(Open(s)) >= MaxDepth
                   \/ Cardinality(Positions(s, ValueKinds)) >= MaxNodes
                  THEN "resource_limit" ELSE "pending"

CollectionVerdict(s, e) ==
  CASE Closing(s, e) -> IF Balanced(s) THEN "pending" ELSE "syntax"
    [] e.kind \in {"document_end", "stream_end"} -> "syntax"
    [] OTHER -> ValueVerdict(s, e)

(* What event e decides after the open stream s.                           *)
Verdict(s, e) ==
  CASE Len(s) = 0 -> IF e.kind = "stream_start" THEN "pending" ELSE "syntax"
    [] Len(s) = 1 -> IF e.kind # "document_start" THEN "invalid_document"
                     ELSE IF e.directives THEN "unsupported_feature" ELSE "pending"
    [] Len(s) > 1 /\ ~RootComplete(s) ->
         IF Open(s) = {} THEN ValueVerdict(s, e) ELSE CollectionVerdict(s, e)
    [] RootComplete(s) /\ s[Len(s)].kind # "document_end" ->
         IF e.kind = "document_end" THEN "pending" ELSE "syntax"
    [] OTHER -> CASE e.kind = "stream_end"     -> "accepted"
                  [] e.kind = "document_start" -> "invalid_document"
                  [] OTHER                     -> "syntax"

Init == seen = << >> /\ verdict = "pending"

Take(e) ==
  /\ verdict  = "pending"
  /\ seen'    = Append(seen, e)
  /\ verdict' = Verdict(seen, e)

Abort ==
  /\ verdict   = "pending"
  /\ verdict' \in Aborts \union (IF seen = << >> THEN {"resource_limit"} ELSE {})
  /\ UNCHANGED seen

Next == Abort \/ \E e \in Offered : Take(e)

Spec == Init /\ [][Next]_<<seen, verdict>>

=============================================================================
