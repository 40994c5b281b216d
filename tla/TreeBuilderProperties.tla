----------------------- MODULE TreeBuilderProperties -----------------------
(***************************************************************************)
(* What the recursive descent of TreeBuilder answers, told from the events *)
(* it reads.                                                               *)
(***************************************************************************)
EXTENDS TreeBuilderInvariants, EventStream

(* The tree is the one the events spell: one node for each value accepted, *)
(* under the innermost collection open there, with its kind and contents.  *)
TreeMirrorsEvents ==
  LET values == Positions(events, ValueKinds)
  IN  /\ {tree[m].mark : m \in DOMAIN tree} =
           IF outcome.code = "pending" \/ outcome.code = "accepted"
                \/ outcome.at \notin values
             THEN values ELSE values \ {Len(events)}
      /\ \A m, n \in DOMAIN tree : m < n => tree[m].mark < tree[n].mark
      /\ \A m \in DOMAIN tree :
           LET at    == tree[m].mark
               above == Innermost(Before(events, at))
           IN  /\ tree[m].kind   = KindOf(events[at])
               /\ tree[m].scalar = events[at].value
               /\ tree[m].depth  = Cardinality(Open(Before(events, at))) + 1
               /\ IF above = 0 THEN tree[m].parent = 0
                  ELSE /\ tree[m].parent \in DOMAIN tree
                       /\ tree[tree[m].parent].mark = above

(* A path leads to position c of the stream s: it has one index for each   *)
(* sequence open there, outermost first, the number of complete values     *)
(* inside it.  Mapping keys are not yet known to be scalars, so mappings   *)
(* add nothing.                                                            *)
LeadsTo(s, path, c) ==
  LET open == Open(Before(s, c))
      seqs == {o \in open : s[o].kind = "sequence_start"}
      Index(o) == Cardinality({i \in Members(s, o) : i < c} \ open)
  IN  /\ Len(path) = Cardinality(seqs)
      /\ \A o \in seqs :
           path[Cardinality({p \in seqs : p <= o})] = <<"item", Index(o)>>

(* A failure names the place that caused it: the value that was refused,   *)
(* the collection that the input left open, or the mapping (at its own     *)
(* start) whose last key has no value.                                     *)
FailureLocated ==
  pc = "failed" /\ outcome.at \in 1 .. Len(events) =>
    LET n     == Len(events)
        above == Innermost(Before(events, n))
    IN  IF above = 0 THEN outcome.path = Root /\ outcome.at = n
        ELSE IF EndsInput(events[n])
          THEN LeadsTo(events, outcome.path, above) /\ outcome.at = n
        ELSE IF events[n].kind = "mapping_end" /\ outcome.code = "syntax"
          THEN LeadsTo(events, outcome.path, above) /\ outcome.at = above
        ELSE LeadsTo(events, outcome.path, n) /\ outcome.at = n

(* The recursive descent implements the strict subset: it decides every    *)
(* stream at the same event and with the same category.                    *)
Strict == INSTANCE StrictStream WITH
            seen <- events, verdict <- outcome.code, Aborts <- ReaderFailures

StrictSubset == Strict!Spec

(* What the proofs go by: the activations are the collections that the     *)
(* events leave open, outermost first, each with as many values read as it *)
(* counts, and the place parse_document() is at tells how far the stream   *)
(* is.                                                                     *)
OpenedAt(i) == tree[calls[i].node].mark

StackMirrorsEvents ==
  /\ Open(events) = {OpenedAt(i) : i \in DOMAIN calls}
  /\ Cardinality(Open(events)) = Len(calls)
  /\ \A i, j \in DOMAIN calls : i < j => OpenedAt(i) < OpenedAt(j)
  /\ \A i \in DOMAIN calls :
       /\ Level(SubSeq(events, OpenedAt(i), Len(events))) = Len(calls) - i + 1
       /\ events[OpenedAt(i)].kind = IF tree[calls[i].node].kind = "sequence"
                                       THEN "sequence_start" ELSE "mapping_start"
       /\ Cardinality(Members(events, OpenedAt(i))) =
            IF i = Len(calls) THEN calls[i].index ELSE calls[i].index + 1
  /\ Cardinality(Positions(events, ValueKinds)) = Len(tree)

StageMirrorsEvents ==
  /\ pc # "done" => outcome.code = "pending"
  /\ pc \in {"enter", "stream_start"} => events = << >>
  /\ pc = "document_start" => Len(events) = 1
  /\ pc \in {"enter", "stream_start", "document_start", "content"} <=> tree = << >>
  /\ tree = << >> => calls = << >>
  /\ pc \in {"content", "item", "document_end", "stream_end"} => Len(events) > 1
  /\ LET last == events[Len(events)].kind
     IN  /\ pc = "document_start" => last = "stream_start"
         /\ pc = "content"        => last = "document_start"
         /\ pc \in {"item", "document_end"} => last \in ValueKinds \union EndKinds
         /\ pc = "stream_end"     => last = "document_end"

(* The tree stays in preorder, because below an open collection nothing is *)
(* retained that is not inside it.                                         *)
InOrder ==
  /\ Preorder(tree)
  /\ \A i \in DOMAIN calls :
       \A n \in calls[i].node + 1 .. Len(tree) : tree[n].depth > i

StrictIInv ==
  /\ IInv
  /\ InOrder
  /\ pc # "failed" => StackMirrorsEvents /\ StageMirrorsEvents
  /\ TreeMirrorsEvents

(* What FailureLocated rests on: each activation was opened inside the one *)
(* below it, as the last of its values so far, and its path has the index  *)
(* of every sequence below it.                                             *)
SequencesTo(i) == {j \in 1 .. i : tree[calls[j].node].kind = "sequence"}

Indexed(path, i) ==
  /\ Len(path) = Cardinality(SequencesTo(i))
  /\ \A j \in SequencesTo(i) :
       path[Cardinality(SequencesTo(j))] = <<"item", calls[j].index>>

PathMirrorsEvents(i) ==
  /\ Open(Before(events, OpenedAt(i))) = {OpenedAt(j) : j \in 1 .. i - 1}
  /\ i > 1 => /\ OpenedAt(i) \in Members(events, OpenedAt(i - 1))
              /\ \A m \in Members(events, OpenedAt(i - 1)) : m <= OpenedAt(i)
  /\ Indexed(calls[i].path, i - 1)

PathsMirrorEvents == \A i \in DOMAIN calls : PathMirrorsEvents(i)

PathIInv ==
  /\ pc # "failed" => PathsMirrorEvents
  /\ FailureLocated

=============================================================================
