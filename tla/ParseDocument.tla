---------------------------- MODULE ParseDocument ----------------------------
(***************************************************************************)
(* parse_document() as a whole: the adaptor over libyaml, the recursive    *)
(* descent that pulls events from it, and the validation of the finished   *)
(* tree.  The adaptor lives until the call is left.                        *)
(***************************************************************************)
EXTENDS Libyaml

CONSTANTS
  MaxDocumentBytes, MaxScalarBytes, MaxNodes, MaxDepth,
  MaxPosition, Natives, DocumentSizes, Offered

ASSUME DocumentAssumption ==
  /\ {MaxDocumentBytes, MaxNodes, MaxDepth} \subseteq Nat
  /\ DocumentSizes \subseteq Nat
  /\ Offered \subseteq Event

VARIABLES
  phase, parser, native, held, copies, answer,       \* EventReader
  pc, bytes, events, tree, calls, outcome,           \* TreeBuilder
  walk, verdict                                      \* TreeValidator

(* A reader over a provider that keeps to its documents throws these.      *)
ReaderFailures == {"syntax", "resource_limit", "bad_alloc"}

Reader    == INSTANCE EventReader
Builder   == INSTANCE TreeBuilder WITH ProviderMay <- LibyamlMay
Validator == INSTANCE TreeValidator WITH Trees <- {}

readerVars    == <<phase, parser, native, held, copies, answer>>
builderVars   == <<pc, bytes, events, tree, calls, outcome>>
validatorVars == <<walk, verdict>>

vars == <<readerVars, builderVars, validatorVars>>

(* What libyaml comes to after the events s; after the stream's end it has *)
(* no event and no error.                                                  *)
LibyamlAnswers(s, type) ==
  LET over == s # << >> /\ s[Len(s)].kind = "stream_end"
  IN  IF over THEN type = "no_event"
      ELSE type \in LibyamlKinds(s) \union Reader!InputErrors \union {"memory_error"}

-----------------------------------------------------------------------------
CheckBytes == Builder!CheckBytes /\ UNCHANGED <<readerVars, validatorVars>>

(* A step inside the reader: an exception from it goes through             *)
(* parse_document(), which otherwise waits.                                *)
Inside(readerStep) ==
  /\ Builder!Reading
  /\ readerStep
  /\ IF phase' = "thrown" THEN Builder!ReaderThrows(answer'.code)
                          ELSE UNCHANGED builderVars
  /\ UNCHANGED validatorVars

Construct == Inside(Reader!Construct)
Parse(n)  == Inside(Reader!Parse(n) /\ LibyamlAnswers(events, n.type))
Inspect   == Inside(Reader!Inspect)
Copy      == Inside(Reader!Copy)

(* next() returns, and the descent takes the event; when it was the last,  *)
(* the validation begins.                                                  *)
Deliver(e) ==
  /\ Builder!Reading
  /\ e.kind = native.type
  /\ Reader!Return
  /\ Builder!Consume(e)
  /\ walk' = IF pc' = "done" THEN <<Validator!Enter(1, Root)>> ELSE walk
  /\ UNCHANGED verdict

Validate ==
  /\ Validator!Next
  /\ UNCHANGED <<readerVars, pc, bytes, events, calls, outcome>>

Decided == pc = "failed" \/ verdict # Validator!Open

Leave ==
  /\ Decided
  /\ Reader!Destroy
  /\ UNCHANGED <<builderVars, validatorVars>>

Init == Reader!Init /\ Builder!Init /\ walk = << >> /\ verdict = Validator!Open

Next ==
  \/ CheckBytes
  \/ Construct
  \/ \E n \in Natives : Parse(n)
  \/ Inspect
  \/ Copy
  \/ \E e \in Offered : Deliver(e)
  \/ Validate
  \/ Leave

Spec     == Init /\ [][Next]_vars
FairSpec == Spec /\ WF_vars(Next)

(* What the public call answers: both grammars begin with a test for a     *)
(* root that is a mapping, which is as far as this model goes.             *)
Category ==
  IF pc = "failed" THEN outcome.code
  ELSE IF verdict # Validator!Valid THEN verdict.code
  ELSE IF tree[1].kind # "mapping" THEN "invalid_type" ELSE "document"

-----------------------------------------------------------------------------
(* Properties.                                                             *)

(* The composition does what the recursive descent alone does with a       *)
(* reader that throws for the document or for memory: no step of it makes  *)
(* the adaptor report a defect of the provider, which would be the         *)
(* descent's own, and it takes each event in the state it waited in.       *)
ImplementsBuilder == Builder!Spec

(* "syntax: The private YAML provider rejected malformed input."  Over     *)
(* libyaml's order of events the answers of document.cpp to misordered     *)
(* events are never given: malformed input is what the adaptor threw, and  *)
(* the descent refuses as no document only a stream without one and a      *)
(* second one.                                                             *)
SyntaxOnlyFromProvider ==
  /\ outcome.code = "syntax" => answer.as = "exception" /\ answer.code = "syntax"
  /\ outcome.code = "invalid_document" =>
       \/ Len(events) = 2
       \/ events[Len(events) - 1].kind = "document_end"

(* Every exit, from the middle of a native event, from the descent and     *)
(* from the validation, gives back what libyaml allocated.                 *)
ReleasedInTheEnd == <>[](parser # "live" /\ ~held)

(* The call ends, with the reader gone when there was one.                 *)
Terminates == <>(Decided /\ phase \in {"unborn", "gone"})

(* A tree that is returned can be read with find_key(): each of its        *)
(* mappings has a value for every key, and its keys are distinct scalars.  *)
LookupTables ==
  verdict = Validator!Valid =>
    \A n \in DOMAIN tree : tree[n].kind = "mapping" =>
      LET keys == {m \in Children(tree, n) : Slot(tree, m) % 2 = 0}
      IN  /\ Arity(tree, n) = 2 * Cardinality(keys)
          /\ Cardinality({tree[m].scalar : m \in keys}) = Cardinality(keys)
          /\ \A m \in keys : tree[m].kind = "scalar" /\ tree[m].scalar # MergeKey

(* parser.h: a stream that does not contain exactly one non-empty document *)
(* is an invalid document.  Where a document has only its start marker,    *)
(* libyaml makes a scalar without contents; no other event here has none.  *)
EmptyIsInvalidDocument ==
  Decided /\ outcome = Builder!Accepted /\ events[3].kind = "scalar" /\ events[3].value = ""
    => Category = "invalid_document"

=============================================================================
