-------------------------- MODULE EventReaderProofs --------------------------
(***************************************************************************)
(* The safety properties of EventReader for every limit, every width of a  *)
(* position and every set of native outcomes.                              *)
(***************************************************************************)
EXTENDS EventReader, TLAPS

(* one_based_position() gives a position, never zero, and keeps the order  *)
(* of the positions it is given.                                           *)
LEMMA OneBasedFacts ==
  ASSUME NEW v \in Nat
  PROVE  /\ OneBased(v) \in 1 .. MaxPosition
         /\ \A w \in Nat : v <= w => OneBased(v) <= OneBased(w)
BY ReaderAssumption DEF ReaderAssumption, OneBased

(* The line of the last native outcome is a natural number.                *)
LEMMA NativeFacts ==
  ASSUME TypeOK
  PROVE  native.line \in Nat /\ native.length \in Nat
BY ReaderAssumption DEF TypeOK, ReaderAssumption, Nothing

(* Before the reader is constructed the invariant holds.                   *)
LEMMA Initially == Init => IInv
<1> SUFFICES ASSUME Init PROVE IInv
  OBVIOUS
<1>1. 0 <= OneBased(0) /\ MaxPosition \in Nat
  BY OneBasedFacts, ReaderAssumption DEF ReaderAssumption
<1>2. TypeOK
  <2>1. held \in BOOLEAN
    BY DEF Init
  <2>2. NoAnswer \in [as : {"nothing"}, code : {"none"}, line : {0}]
    BY DEF NoAnswer
  <2>3. QED
    BY <1>1, <2>1, <2>2 DEF Init, TypeOK
<1>3. QED
  BY <1>1, <1>2 DEF Init, IInv, NothingLeaks, ScalarsBounded, Deliverable,
                    NoAnswer, Nothing

(* An exit by an exception leaves nothing held, at a line of its type.     *)
LEMMA ThrowStep ==
  ASSUME TypeOK, UNCHANGED parser, native' \in Natives \union {Nothing},
         NEW code \in {"syntax", "resource_limit", "bad_alloc", "logic_error"},
         NEW line \in 0 .. MaxPosition,
         Throw(code, line)
  PROVE  IInv'
<1>1. TypeOK'
  <2>1. answer' \in [as : {"exception"}, code : {code}, line : {line}]
    BY DEF Throw, HeldAfterThrow
  <2>2. held' \in BOOLEAN
    BY DEF Throw, HeldAfterThrow
  <2>3. copies' \in 0 .. 3
    BY DEF Throw, HeldAfterThrow
  <2>4. QED
    BY <2>1, <2>2, <2>3 DEF TypeOK, Throw, HeldAfterThrow
<1>2. NothingLeaks' /\ ScalarsBounded' /\ Deliverable'
  BY DEF Throw, HeldAfterThrow, NothingLeaks, ScalarsBounded, Deliverable
<1>3. QED
  BY <1>1, <1>2 DEF IInv

(* Every step of the reader keeps the invariant.                           *)
LEMMA Inductive == IInv /\ [Next]_vars => IInv'
<1> SUFFICES ASSUME IInv, [Next]_vars PROVE IInv'
  OBVIOUS
<1> USE DEF IInv
<1>0. /\ native.line \in Nat /\ native.length \in Nat
      /\ OneBased(native.line) \in 0 .. MaxPosition
      /\ 0 \in 0 .. MaxPosition
  BY NativeFacts, OneBasedFacts, ReaderAssumption DEF ReaderAssumption
<1>1. CASE Construct
  <2>1. CASE Throw("bad_alloc", 0) /\ UNCHANGED parser
    BY <1>0, <1>1, <2>1, ThrowStep DEF Construct, TypeOK
  <2>2. CASE parser' = "live" /\ phase' = "ready" /\ UNCHANGED <<held, copies, answer>>
    BY <1>0, <1>1, <2>2
    DEF Construct, TypeOK, NothingLeaks, ScalarsBounded, Deliverable, NoAnswer, Nothing
  <2>3. QED
    BY <1>1, <2>1, <2>2 DEF Construct
<1>2. ASSUME NEW n \in Natives, Parse(n)
      PROVE  IInv'
  <2>1. n.line \in Nat /\ n.length \in Nat /\ n.type \in NativeTypes
    BY ReaderAssumption DEF ReaderAssumption
  <2>2. OneBased(n.line) \in 0 .. MaxPosition
    BY <2>1, OneBasedFacts
  <2>3. CASE n.type \in Errors
    <3> DEFINE line == IF n.type \in InputErrors THEN OneBased(n.line) ELSE 0
    <3>1. Throw(FailureCode(n.type), line)
      BY <1>2, <2>3 DEF Parse
    <3>2. line \in 0 .. MaxPosition
      BY <1>0, <2>2
    <3>3. FailureCode(n.type) \in {"syntax", "resource_limit", "bad_alloc", "logic_error"}
      BY DEF FailureCode
    <3> HIDE DEF line
    <3>4. QED
      BY <1>2, <3>1, <3>2, <3>3, ThrowStep DEF Parse
  <2>4. CASE n.type \notin Errors
    <3>1. native' = n /\ phase' = "filled" /\ held' = TRUE
          /\ UNCHANGED <<parser, copies, answer>> /\ phase = "ready"
      BY <1>2, <2>4 DEF Parse
    <3>2. native.line <= n.line
      BY <1>2, <2>4 DEF Parse, LibyamlReports, Errors, InputErrors
    <3>3. OneBased(native.line) <= OneBased(n.line)
      BY <1>0, <2>1, <3>2, OneBasedFacts
    <3>4. answer.line <= OneBased(n.line)
      BY <1>0, <2>2, <3>1, <3>3 DEF Deliverable, TypeOK
    <3>5. QED
      BY <2>4, <3>1, <3>4 DEF TypeOK, NothingLeaks, ScalarsBounded, Deliverable
  <2>5. QED
    BY <2>3, <2>4
<1>3. CASE Inspect
  <2>1. CASE \/ Throw("logic_error", 0)
             \/ Throw("resource_limit", OneBased(native.line))
    BY <1>0, <1>3, <2>1, ThrowStep DEF Inspect, OverLimit, TypeOK
  <2>2. CASE /\ native.type \notin {"no_event", "unknown"}
             /\ ~(native.type = "scalar" /\ native.length > MaxScalarBytes)
    <3>1. /\ phase = "filled" /\ phase' = "copying"
          /\ copies' = Strings(native.type)
          /\ UNCHANGED <<held, answer, parser, native>>
      BY <1>3, <2>2 DEF Inspect, OverLimit
    <3>2. native.type \in EventTypes
      BY <2>2, <3>1, ReaderAssumption DEF ReaderAssumption, Deliverable, NativeTypes
    <3>3. Strings(native.type) \in 0 .. 3
      BY DEF Strings
    <3>4. native.type = "scalar" => native.length <= MaxScalarBytes
      BY <1>0, <2>2, ReaderAssumption DEF ReaderAssumption
    <3>5. QED
      BY <3>1, <3>2, <3>3, <3>4 DEF TypeOK, NothingLeaks, ScalarsBounded, Deliverable, OneBased
  <2>3. QED
    BY <1>3, <2>1, <2>2 DEF Inspect, OverLimit
<1>4. CASE Copy
  <2>1. CASE Throw("bad_alloc", 0)
    BY <1>0, <1>4, <2>1, ThrowStep DEF Copy, TypeOK
  <2>2. CASE copies' = copies - 1 /\ UNCHANGED <<phase, held, answer>>
    BY <1>4, <2>2
    DEF Copy, TypeOK, NothingLeaks, ScalarsBounded, Deliverable, OneBased
  <2>3. QED
    BY <1>4, <2>1, <2>2 DEF Copy
<1>5. CASE Return
  <2>1. /\ phase = "copying" /\ phase' = "ready" /\ held' = FALSE
        /\ answer' = [as |-> "event", code |-> native.type,
                      line |-> OneBased(native.line)]
        /\ UNCHANGED <<parser, native, copies>>
    BY <1>5 DEF Return
  <2>2. native.type \in EventTypes
    BY <2>1 DEF Deliverable
  <2>3. TypeOK'
    BY <1>0, <2>1, <2>2 DEF TypeOK
  <2>4. OneBased(native.line)' = OneBased(native.line)
    BY <2>1 DEF OneBased
  <2>5. QED
    BY <1>0, <2>1, <2>3, <2>4 DEF NothingLeaks, ScalarsBounded, Deliverable
<1>6. CASE Destroy
  BY <1>6 DEF Destroy, Destructor, TypeOK, NothingLeaks, ScalarsBounded, Deliverable
<1>7. CASE UNCHANGED vars
  BY <1>7 DEF vars, TypeOK, NothingLeaks, ScalarsBounded, Deliverable, OneBased
<1>8. QED
  BY <1>1, <1>2, <1>3, <1>4, <1>5, <1>6, <1>7 DEF Next

(* The inductive invariant holds throughout.                               *)
THEOREM Invariance == Spec => []IInv
BY Initially, Inductive, PTL DEF Spec

(* All that the reader keeps and answers has its type; in particular every *)
(* position that libyaml counts in std::size_t fits std::uint32_t.         *)
THEOREM TypeCorrect == Spec => []TypeOK
<1>1. IInv => TypeOK
  BY DEF IInv
<1>2. QED
  BY <1>1, Invariance, PTL

(* No exit from next() or from the constructor leaves a native event or a  *)
(* parser behind.                                                          *)
THEOREM Released == Spec => []NothingLeaks
<1>1. IInv => NothingLeaks
  BY DEF IInv
<1>2. QED
  BY <1>1, Invariance, PTL

(* No string of a scalar over the limit is ever copied.                    *)
THEOREM LimitBeforeCopy == Spec => []ScalarsBounded
<1>1. IInv => ScalarsBounded
  BY DEF IInv
<1>2. QED
  BY <1>1, Invariance, PTL

(* The lines of the delivered events start at one and never go back.       *)
THEOREM Advance == Spec => MarksAdvance
<1>1. IInv /\ [Next]_vars =>
        [answer'.as = "event" => answer'.line >= 1 /\ answer'.line >= answer.line]_answer
  <2> SUFFICES ASSUME IInv, [Next]_vars, answer' # answer, answer'.as = "event"
               PROVE  answer'.line >= 1 /\ answer'.line >= answer.line
    OBVIOUS
  <2>1. ~ UNCHANGED vars
    BY DEF vars
  <2>2. \A code, line : ~ Throw(code, line)
    BY DEF Throw, HeldAfterThrow
  <2>3. Return
    <3>1. ~ Construct
      BY <2>2 DEF Construct
    <3>2. ~ \E n \in Natives : Parse(n)
      BY <2>2 DEF Parse
    <3>3. ~ Inspect
      BY <2>2 DEF Inspect, OverLimit
    <3>4. ~ Copy /\ ~ Destroy
      BY <2>2 DEF Copy, Destroy
    <3>5. QED
      BY <2>1, <3>1, <3>2, <3>3, <3>4 DEF Next
  <2>4. native.line \in Nat
    BY NativeFacts DEF IInv
  <2>5. OneBased(native.line) \in 1 .. MaxPosition
    BY <2>4, OneBasedFacts
  <2>6. answer.line <= OneBased(native.line) /\ answer'.line = OneBased(native.line)
    BY <2>3 DEF Return, IInv, Deliverable
  <2>7. answer.line \in Int
    BY DEF IInv, TypeOK
  <2>8. QED
    BY <2>5, <2>6, <2>7
<1>2. QED
  BY <1>1, Invariance, PTL DEF Spec, MarksAdvance

=============================================================================
