----------------------------- MODULE EventReader -----------------------------
(***************************************************************************)
(* yaml_event_reader over libyaml: the adaptor that owns a yaml_parser_t   *)
(* and turns each native event into a normalized one.                      *)
(*                                                                         *)
(* next() is split where an exception can leave it: at                     *)
(* yaml_parser_parse(), at the tests of the native event, and at every     *)
(* string it copies.  libyaml allocates the contents of an event; the      *)
(* destructor of native_event gives them back.  Of a position only the     *)
(* line is kept: the column is treated in the same way.                    *)
(***************************************************************************)
EXTENDS Integers

CONSTANTS
  MaxScalarBytes,          \* maximum_scalar_bytes, inclusive.
  MaxPosition,             \* The greatest value of std::uint32_t.
  Natives                  \* What yaml_parser_parse() can come to.

(* libyaml's error domains and event types; "unknown" is any value that is *)
(* not documented, "no_event" what it fills in after the stream's end.     *)
InputErrors    == {"reader_error", "scanner_error", "parser_error"}
InternalErrors == {"no_error", "composer_error", "writer_error", "emitter_error"}
Errors         == InputErrors \union InternalErrors \union {"memory_error"}
EventTypes     == {"stream_start", "stream_end", "document_start",
                   "document_end", "alias", "scalar", "sequence_start",
                   "sequence_end", "mapping_start", "mapping_end"}
NativeTypes    == Errors \union EventTypes \union {"no_event", "unknown"}

(* "length" is the length of a scalar, "line" the zero-based line of the   *)
(* event's start or of the problem, a std::size_t.                         *)
ReaderAssumption ==
  /\ MaxScalarBytes \in Nat
  /\ MaxPosition \in Nat \ {0}
  /\ Natives \subseteq [type : NativeTypes, length : Nat, line : Nat]

ASSUME ReaderAssumption

VARIABLES
  phase,                   \* Where the control is in the adaptor.
  parser,                  \* parser_: "none", "live" or "deleted".
  native,                  \* The outcome of the last yaml_parser_parse().
  held,                    \* native_event holds contents of libyaml's.
  copies,                  \* The strings still to be copied.
  answer                   \* The last event or exception next() came to.

vars == <<phase, parser, native, held, copies, answer>>

Nothing  == [type |-> "nothing", length |-> 0, line |-> 0]
NoAnswer == [as |-> "nothing", code |-> "none", line |-> 0]

OneBasedWrapping(value)   == (value + 1) % (MaxPosition + 1)      \* mutant
OneBasedUnclamped(value)  == value + 1                            \* mutant

(* one_based_position() saturates.                                         *)
OneBased(value) == IF value >= MaxPosition THEN MaxPosition ELSE value + 1

(* The strings that are copied out of an event: the value, the anchor and  *)
(* the tag.                                                                *)
Strings(type) == IF type = "scalar" THEN 3
                 ELSE IF type \in {"sequence_start", "mapping_start"} THEN 2
                 ELSE IF type = "alias" THEN 1 ELSE 0

HeldWhenThrown == held                                            \* mutant

HeldAfterThrow == FALSE

(* next() is left with an exception: native_event is destroyed.            *)
Throw(code, line) ==
  /\ answer' = [as |-> "exception", code |-> code, line |-> line]
  /\ phase'  = "thrown"
  /\ copies' = 0
  /\ held'   = HeldAfterThrow

-----------------------------------------------------------------------------
(* The constructor.  When it throws, the destructor does not run.          *)
Construct ==
  /\ phase = "unborn"
  /\ \/ /\ parser' = "live" /\ phase' = "ready"
        /\ UNCHANGED <<held, copies, answer>>
     \/ /\ Throw("bad_alloc", 0)
        /\ UNCHANGED parser
  /\ UNCHANGED native

(* What a failure of yaml_parser_parse() is reported as.                   *)
FailureCode(type) == IF type = "memory_error" THEN "bad_alloc"
                     ELSE IF type \in InputErrors THEN "syntax"
                     ELSE "logic_error"

(* libyaml's lines never decrease along a stream.  An error of its reader  *)
(* has an offset but no mark: problem_mark is as yaml_parser_initialize()  *)
(* left it.                                                                *)
LibyamlReports(n) == IF n.type = "reader_error" THEN n.line = 0
                     ELSE n.line >= native.line

Parse(n) ==
  /\ phase = "ready"
  /\ LibyamlReports(n)
  /\ native' = n
  /\ IF n.type \in Errors
       THEN Throw(FailureCode(n.type),
                  IF n.type \in InputErrors THEN OneBased(n.line) ELSE 0)
       ELSE held' = TRUE /\ phase' = "filled" /\ UNCHANGED <<copies, answer>>
  /\ UNCHANGED parser

OverLimitInclusive(n) ==                                          \* mutant
  n.type = "scalar" /\ n.length > MaxScalarBytes + 1

OverLimit(n) == n.type = "scalar" /\ n.length > MaxScalarBytes

(* event_kind() and the scalar limit, before anything is copied.           *)
Inspect ==
  /\ phase = "filled"
  /\ IF native.type \in {"no_event", "unknown"}
       THEN Throw("logic_error", 0)
     ELSE IF OverLimit(native)
       THEN Throw("resource_limit", OneBased(native.line))
     ELSE /\ phase' = "copying" /\ copies' = Strings(native.type)
          /\ UNCHANGED <<held, answer>>
  /\ UNCHANGED <<parser, native>>

Copy ==
  /\ phase = "copying" /\ copies > 0
  /\ \/ copies' = copies - 1 /\ UNCHANGED <<phase, held, answer>>
     \/ Throw("bad_alloc", 0)
  /\ UNCHANGED <<parser, native>>

Return ==
  /\ phase = "copying" /\ copies = 0
  /\ phase'  = "ready"
  /\ held'   = FALSE
  /\ answer' = [as |-> "event", code |-> native.type, line |-> OneBased(native.line)]
  /\ UNCHANGED <<parser, native, copies>>

DestructorUnlessThrown ==                                         \* mutant
  IF parser = "live" /\ phase # "thrown" THEN "deleted" ELSE parser

Destructor == IF parser = "live" THEN "deleted" ELSE parser

(* The caller is left, normally or by an exception: its own, or the        *)
(* reader's.                                                               *)
Destroy ==
  /\ phase \in {"ready", "thrown"}
  /\ phase'  = "gone"
  /\ parser' = Destructor
  /\ UNCHANGED <<native, held, copies, answer>>

Init ==
  /\ phase = "unborn" /\ parser = "none" /\ native = Nothing
  /\ held = FALSE /\ copies = 0 /\ answer = NoAnswer

Next ==
  \/ Construct
  \/ \E n \in Natives : Parse(n)
  \/ Inspect
  \/ Copy
  \/ Return
  \/ Destroy

Spec == Init /\ [][Next]_vars

-----------------------------------------------------------------------------
(* Properties.                                                             *)

(* Every variable has its type; positions fit std::uint32_t, where libyaml *)
(* counts in std::size_t.                                                  *)
TypeOK ==
  /\ phase \in {"unborn", "ready", "filled", "copying", "thrown", "gone"}
  /\ parser \in {"none", "live", "deleted"}
  /\ native \in Natives \union {Nothing}
  /\ held \in BOOLEAN
  /\ copies \in 0 .. 3
  /\ answer \in [as   : {"nothing", "event", "exception"},
                 code : EventTypes \union {"none", "syntax", "resource_limit",
                                           "bad_alloc", "logic_error"},
                 line : 0 .. MaxPosition]

(* The contents of a native event are owned only while next() runs, and    *)
(* the parser no longer than the reader: no exit, by a return or by any    *)
(* exception, leaves something of libyaml's behind.                        *)
NothingLeaks ==
  /\ held <=> phase \in {"filled", "copying"}
  /\ parser = "live" => phase \notin {"unborn", "gone"}
  /\ phase \in {"ready", "filled", "copying"} => parser = "live"

(* A scalar over the limit is refused before the first of its strings is   *)
(* copied, so no caller sees it and the memory it would take is not asked  *)
(* for.                                                                    *)
ScalarsBounded ==
  /\ phase = "copying" /\ native.type = "scalar" => native.length <= MaxScalarBytes
  /\ answer.code = "scalar" /\ phase = "ready" => native.length <= MaxScalarBytes

(* The lines of the events delivered count from one and never go back,     *)
(* however far the input is: that is what lets a document layer take a     *)
(* later mark for a later place.                                           *)
MarksAdvance ==
  [][answer'.as = "event" => /\ answer'.line >= 1
                             /\ answer'.line >= answer.line]_answer

(* What makes the invariants above inductive: between the parse and the    *)
(* return the native event is one that can be delivered, and what was      *)
(* delivered last does not lie past it.                                    *)
Deliverable ==
  /\ phase \in {"filled", "copying"} => native \in Natives /\ native.type \notin Errors
  /\ phase = "copying" => native.type \in EventTypes
  /\ phase = "unborn" => answer = NoAnswer
  /\ phase \notin {"thrown", "gone"} => answer.line <= OneBased(native.line)

IInv == TypeOK /\ NothingLeaks /\ ScalarsBounded /\ Deliverable

(* parser.h: the line of a failure is zero when the provider supplied no   *)
(* location.                                                               *)
NoLocationIsZero ==
  phase = "thrown" /\ native.type = "reader_error" => answer.line = 0

=============================================================================
