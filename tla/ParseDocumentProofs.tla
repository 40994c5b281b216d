------------------------- MODULE ParseDocumentProofs -------------------------
(***************************************************************************)
(* That the adaptor over libyaml, the recursive descent and the validation *)
(* together implement the descent alone with a reader that throws for the  *)
(* document or for memory, for every limit and every set of events.  What  *)
(* it rests on: no event is asked for after the stream's end, where        *)
(* libyaml has none, so that the adaptor finds no defect.                  *)
(*                                                                         *)
(* Then what this carries over to the composition: over libyaml's order of *)
(* events the descent never finds one out of place, and the walk starts    *)
(* from a tree in preorder with complete mappings, so that what is         *)
(* returned can be looked up in.                                           *)
(***************************************************************************)
EXTENDS ParseDocument, TLAPS

EndSeen == events # << >> /\ events[Len(events)].kind = "stream_end"

IInv ==
  /\ events \in Seq(Offered)
  /\ pc = "enter" => events = << >>
  /\ Builder!Reading => ~EndSeen
  /\ phase \in {"filled", "copying"} => native.type \notin {"no_event", "unknown"}

(* A call begins as the descent does.                                      *)
LEMMA Initially == Init => Builder!Init /\ IInv
BY DEF Init, Builder!Init, Reader!Init, IInv, EndSeen, Builder!Reading

(* An event of libyaml's is one of the documented types.                   *)
LEMMA KindsAreKnown ==
  ASSUME NEW s, NEW kind \in LibyamlKinds(s)
  PROVE  kind \notin {"no_event", "unknown"}
BY DEF LibyamlKinds, ValueKinds, StartKinds

(* The descent goes on after an event only when it is not the stream's     *)
(* end.                                                                    *)
LEMMA GoesOn ==
  ASSUME NEW e, Builder!Consume(e), Builder!Reading'
  PROVE  events' = Append(events, e) /\ e.kind # "stream_end"
<1> USE DEF Builder!Read, Builder!Reading, Builder!Fail, Builder!Goto
<1>1. CASE Builder!ReadStreamStart(e)
  BY <1>1 DEF Builder!ReadStreamStart, Builder!Expect
<1>2. CASE Builder!ReadDocumentStart(e)
  BY <1>2 DEF Builder!ReadDocumentStart, Builder!Expect
<1>3. CASE Builder!ReadContent(e)
  BY <1>3 DEF Builder!ReadContent, Builder!ParseNode, Builder!NodeRejection,
              Builder!FeatureRejection, Builder!ValueKinds, Builder!StartKinds
<1>4. CASE Builder!CloseCollection(e)
  BY <1>4 DEF Builder!CloseCollection, Builder!Closes
<1>5. CASE Builder!Unterminated(e)
  BY <1>5 DEF Builder!Unterminated
<1>6. CASE Builder!ParseItem(e)
  BY <1>6 DEF Builder!ParseItem, Builder!EndsInput
<1>7. CASE Builder!ReadDocumentEnd(e)
  BY <1>7 DEF Builder!ReadDocumentEnd, Builder!Expect
<1>8. CASE Builder!ReadStreamEnd(e)
  BY <1>8 DEF Builder!ReadStreamEnd
<1> QED BY <1>1, <1>2, <1>3, <1>4, <1>5, <1>6, <1>7, <1>8 DEF Builder!Consume

(* An event that is taken has been read.                                   *)
LEMMA ConsumeReads ==
  ASSUME NEW e, Builder!Consume(e)
  PROVE  events' = Append(events, e) /\ pc # "enter" /\ pc' # "enter"
BY DEF Builder!Consume, Builder!Read, Builder!ParseNode, Builder!ReturnTo, Builder!Fail,
       Builder!Goto, Builder!ReadStreamStart, Builder!ReadDocumentStart,
       Builder!ReadContent, Builder!CloseCollection, Builder!Unterminated, Builder!ParseItem,
       Builder!ReadDocumentEnd, Builder!ReadStreamEnd, Builder!Expect

(* An exception of the reader is one the descent may meet.                 *)
LEMMA ThrownIsBuilders ==
  ASSUME NEW code \in ReaderFailures, Builder!Reading, Builder!ReaderThrows(code)
  PROVE  Builder!Next /\ pc' = "failed" /\ UNCHANGED events
BY DEF Builder!Next, Builder!ReaderThrows, Builder!Fail, Builder!Reading

(* What a step of the reader does to the rest: an exception leaves the     *)
(* descent, and otherwise everything waits.                                *)
LEMMA InsideStep ==
  ASSUME NEW ACTION A, Inside(A),
         phase' = "thrown" => answer'.as = "exception" /\ answer'.code \in ReaderFailures
  PROVE  /\ Builder!Reading /\ UNCHANGED validatorVars
         /\ \/ UNCHANGED builderVars
            \/ /\ Builder!ReaderThrows(answer'.code)
               /\ answer'.as = "exception" /\ answer'.code \in ReaderFailures
BY DEF Inside

(* Over libyaml the reader throws for the document or for memory, and has  *)
(* no event of an unknown type.                                            *)
LEMMA ReaderStep ==
  ASSUME IInv, Construct \/ (\E n \in Natives : Parse(n)) \/ Inspect \/ Copy
  PROVE  /\ Builder!Reading /\ UNCHANGED validatorVars
         /\ \/ UNCHANGED builderVars
            \/ /\ Builder!ReaderThrows(answer'.code)
               /\ answer'.as = "exception" /\ answer'.code \in ReaderFailures
         /\ phase' \in {"filled", "copying"} => native'.type \notin {"no_event", "unknown"}
<1>1. CASE Construct
  BY <1>1, InsideStep DEF Construct, Inside, Reader!Construct, Reader!Throw, ReaderFailures
<1>2. ASSUME NEW n \in Natives, Parse(n)
      PROVE  /\ n.type \notin {"no_event", "unknown"} /\ native' = n
             /\ phase' = "thrown" => answer'.as = "exception" /\ answer'.code \in ReaderFailures
  <2>1. Reader!Parse(n) /\ LibyamlAnswers(events, n.type) /\ Builder!Reading
    BY <1>2 DEF Parse, Inside
  <2>2. n.type \in LibyamlKinds(events) \union Reader!InputErrors \union {"memory_error"}
    BY <2>1 DEF LibyamlAnswers, IInv, EndSeen
  <2>3. n.type \notin {"no_event", "unknown"}
    BY <2>2, KindsAreKnown DEF Reader!InputErrors
  <2>4. n.type \in Reader!Errors => n.type \in Reader!InputErrors \union {"memory_error"}
    BY <2>2 DEF LibyamlKinds, ValueKinds, StartKinds, Reader!Errors, Reader!InternalErrors,
                Reader!InputErrors
  <2>5. phase' = "thrown" => answer'.as = "exception" /\ answer'.code \in ReaderFailures
    BY <2>1, <2>4 DEF Reader!Parse, Reader!Throw, Reader!FailureCode, ReaderFailures
  <2> QED BY <2>1, <2>3, <2>5 DEF Reader!Parse
<1>3. ASSUME NEW n \in Natives, Parse(n)
      PROVE  /\ Builder!Reading /\ UNCHANGED validatorVars
             /\ \/ UNCHANGED builderVars
                \/ /\ Builder!ReaderThrows(answer'.code)
                   /\ answer'.as = "exception" /\ answer'.code \in ReaderFailures
  BY <1>2, <1>3, InsideStep DEF Parse
<1>4. CASE Inspect
  BY <1>4, InsideStep DEF Inspect, Inside, Reader!Inspect, Reader!Throw, IInv, ReaderFailures
<1>5. CASE Copy
  BY <1>5, InsideStep DEF Copy, Inside, Reader!Copy, Reader!Throw, IInv, ReaderFailures
<1> QED BY <1>1, <1>2, <1>3, <1>4, <1>5

(* Every step of the composition is one of the descent, or none.           *)
LEMMA Step == IInv /\ [Next]_vars => [Builder!Next]_Builder!vars /\ IInv'
<1> SUFFICES ASSUME IInv, [Next]_vars PROVE [Builder!Next]_Builder!vars /\ IInv'
  OBVIOUS
<1>1. CASE CheckBytes
  BY <1>1 DEF CheckBytes, Builder!CheckBytes, Builder!Next, IInv, readerVars, EndSeen,
              Builder!Reading, Builder!Fail, Builder!Goto
<1>2. CASE Construct \/ (\E n \in Natives : Parse(n)) \/ Inspect \/ Copy
  <2>1. CASE UNCHANGED builderVars
    BY <1>2, <2>1, ReaderStep DEF IInv, builderVars, Builder!vars, Builder!Reading, EndSeen
  <2>2. CASE Builder!ReaderThrows(answer'.code) /\ answer'.code \in ReaderFailures
    BY <1>2, <2>2, ReaderStep, ThrownIsBuilders DEF IInv, Builder!Reading
  <2> QED BY <1>2, <2>1, <2>2, ReaderStep
<1>3. ASSUME NEW e \in Offered, Deliver(e) PROVE [Builder!Next]_Builder!vars /\ IInv'
  <2>1. Builder!Consume(e) /\ phase' = "ready"
    BY <1>3 DEF Deliver, Reader!Return
  <2>2. Builder!Next
    BY <2>1 DEF Builder!Next
  <2>3. events' = Append(events, e) /\ pc' # "enter"
    BY <2>1, ConsumeReads
  <2>4. Builder!Reading' => ~EndSeen'
    BY <2>1, <2>3, GoesOn DEF IInv, EndSeen
  <2> QED BY <2>1, <2>2, <2>3, <2>4 DEF IInv
<1>4. CASE Validate
  BY <1>4 DEF Validate, Validator!Next, Validator!VisitItem, Validator!VisitPair,
              Validator!Return, IInv, EndSeen, readerVars, Builder!vars, Builder!Reading
<1>5. CASE Leave
  BY <1>5 DEF Leave, Reader!Destroy, IInv, EndSeen, builderVars, Builder!vars, Builder!Reading
<1>6. CASE UNCHANGED vars
  BY <1>6 DEF vars, IInv, EndSeen, builderVars, readerVars, Builder!vars, Builder!Reading
<1> QED BY <1>1, <1>2, <1>3, <1>4, <1>5, <1>6 DEF Next

(* parse_document() over libyaml implements the recursive descent: what is *)
(* proved of the descent for any reader holds of it too.                   *)
THEOREM Implementation == Spec => ImplementsBuilder
BY Initially, Step, PTL DEF Spec, ImplementsBuilder, Builder!Spec

-----------------------------------------------------------------------------
(* What is proved of the descent holds of the descent inside the whole.    *)

Descent == INSTANCE TreeBuilderProofs WITH ProviderMay <- LibyamlMay

(* The modules mean the same by the vocabulary of events.                  *)
LEMMA SameWords ==
  /\ Descent!Event = Event
  /\ Descent!ValueKinds = ValueKinds /\ Descent!StartKinds = StartKinds
  /\ Descent!EndKinds = EndKinds
  /\ Builder!ValueKinds = ValueKinds /\ Builder!StartKinds = StartKinds
  /\ \A e : Descent!KindOf(e) = Builder!KindOf(e)
  /\ \A kind, tag : Descent!PermittedTag(kind, tag) <=> Builder!PermittedTag(kind, tag)
BY DEF Descent!Event, Event, Descent!EventKinds, EventKinds, Descent!Tags, Tags,
       Descent!EndKinds, EndKinds, Descent!ValueKinds, ValueKinds,
       Descent!StartKinds, StartKinds, Builder!ValueKinds, Builder!StartKinds,
       Descent!KindOf, Builder!KindOf, Descent!PermittedTag, Builder!PermittedTag

(* And by the order of events libyaml keeps to.                            *)
LEMMA SameKinds == \A s : Descent!LibyamlKinds(s) = LibyamlKinds(s)
<1> TAKE s
<1>1. \A S : Descent!Cardinality(S) = Cardinality(S)
  BY DEF Descent!Cardinality, Cardinality
<1>2. \A t, k : Descent!Positions(t, k) = Positions(t, k)
  BY DEF Descent!Positions, Positions
<1>3. \A t : Descent!Level(t) = Level(t)
  BY <1>1, <1>2, SameWords DEF Descent!Level, Level
<1>4. \A t : Descent!Open(t) = Open(t)
  BY <1>2, <1>3, SameWords DEF Descent!Open, Open
<1>5. \A t : Descent!Innermost(t) = Innermost(t)
  <2> TAKE t
  <2>1. Descent!Open(t) = Open(t) BY <1>4
  <2> QED BY <2>1, SMT DEF Descent!Innermost, Innermost
<1>6. \A t, o : Descent!Members(t, o) = Members(t, o)
  <2>1. \A t, i : Descent!Before(t, i) = Before(t, i)
    BY DEF Descent!Before, Before
  <2> QED BY <1>2, <1>5, <2>1, SameWords DEF Descent!Members, Members
<1>7. \A t : Descent!RootComplete(t) <=> RootComplete(t)
  BY <1>2, <1>4, SameWords DEF Descent!RootComplete, RootComplete
<1> QED BY <1>1, <1>4, <1>5, <1>6, <1>7, SameWords DEF Descent!LibyamlKinds, LibyamlKinds

(* Both instances of the descent fail and go on alike.                     *)
LEMMA SameFailure ==
  /\ \A code, path, at : Descent!Fail(code, path, at) <=> Builder!Fail(code, path, at)
  /\ \A label : Descent!Goto(label) <=> Builder!Goto(label)
  /\ Descent!Here = Builder!Here /\ Descent!Root = Builder!Root /\ Descent!Top = Builder!Top
BY DEF Builder!Fail, Descent!Fail, Builder!Goto, Descent!Goto, Descent!Here, Builder!Here,
       Descent!Root, Builder!Root, Descent!Top, Builder!Top

(* parse_node() does the same on an event.                                 *)
LEMMA SameNode ==
  ASSUME NEW e, NEW parent, NEW path
  PROVE  Descent!ParseNode(e, parent, path) <=> Builder!ParseNode(e, parent, path)
<1>1. \A depth : Descent!NodeRejection(e, depth) = Builder!NodeRejection(e, depth)
  BY SameWords DEF Descent!NodeRejection, Builder!NodeRejection, Descent!FeatureRejection,
                   Builder!FeatureRejection, Descent!AccountNode, Builder!AccountNode
<1>2. \A depth : Descent!NewNode(e, parent, depth) = Builder!NewNode(e, parent, depth)
  BY SameWords, SameFailure DEF Descent!NewNode, Builder!NewNode
<1>3. \A stack : Descent!ReturnTo(stack) <=> Builder!ReturnTo(stack)
  BY SameFailure DEF Descent!ReturnTo, Builder!ReturnTo
<1> QED BY <1>1, <1>2, <1>3, SameFailure DEF Descent!ParseNode, Builder!ParseNode

(* Every event is taken alike.                                             *)
LEMMA SameEvent == \A e : Descent!Consume(e) <=> Builder!Consume(e)
<1> TAKE e
<1>1. /\ Descent!Closes(e) <=> Builder!Closes(e)
      /\ Descent!EndsInput(e) <=> Builder!EndsInput(e)
      /\ Descent!Read(e) <=> Builder!Read(e)
      /\ Descent!NextPath = Builder!NextPath /\ Descent!Accepted = Builder!Accepted
  BY SameFailure
  DEF Descent!Closes, Builder!Closes, Descent!EndsInput, Builder!EndsInput, Descent!Read,
      Builder!Read, Descent!NextPath, Builder!NextPath, Descent!ItemPath, Builder!ItemPath,
      Descent!Accepted, Builder!Accepted
<1>2. \A label, kind, next, code :
        Descent!Expect(e, label, kind, next, code) <=> Builder!Expect(e, label, kind, next, code)
  BY <1>1, SameFailure DEF Descent!Expect, Builder!Expect
<1>3. \A stack : Descent!ReturnTo(stack) <=> Builder!ReturnTo(stack)
  BY SameFailure DEF Descent!ReturnTo, Builder!ReturnTo
<1>4. Descent!ReadStreamStart(e) <=> Builder!ReadStreamStart(e)
  BY <1>2 DEF Descent!ReadStreamStart, Builder!ReadStreamStart
<1>5. Descent!ReadDocumentStart(e) <=> Builder!ReadDocumentStart(e)
  BY <1>1, <1>2, SameFailure DEF Descent!ReadDocumentStart, Builder!ReadDocumentStart
<1>6. Descent!ReadContent(e) <=> Builder!ReadContent(e)
  BY <1>1, SameFailure, SameNode DEF Descent!ReadContent, Builder!ReadContent
<1>7. Descent!CloseCollection(e) <=> Builder!CloseCollection(e)
  BY <1>1, <1>3, SameFailure DEF Descent!CloseCollection, Builder!CloseCollection
<1>8. Descent!Unterminated(e) <=> Builder!Unterminated(e)
  BY <1>1, SameFailure DEF Descent!Unterminated, Builder!Unterminated
<1>9. Descent!ParseItem(e) <=> Builder!ParseItem(e)
  BY <1>1, SameFailure, SameNode DEF Descent!ParseItem, Builder!ParseItem
<1>10. Descent!ReadDocumentEnd(e) <=> Builder!ReadDocumentEnd(e)
  BY <1>2 DEF Descent!ReadDocumentEnd, Builder!ReadDocumentEnd
<1>11. Descent!ReadStreamEnd(e) <=> Builder!ReadStreamEnd(e)
  BY <1>1, SameFailure DEF Descent!ReadStreamEnd, Builder!ReadStreamEnd
<1> QED BY <1>4, <1>5, <1>6, <1>7, <1>8, <1>9, <1>10, <1>11
        DEF Descent!Consume, Builder!Consume

(* So they begin and go on alike.                                          *)
LEMMA SameSteps ==
  /\ Builder!Init => Descent!Init
  /\ [Builder!Next]_Builder!vars => [Descent!Next]_Descent!vars
<1>1. Builder!Init => Descent!Init
  BY SameFailure DEF Builder!Init, Descent!Init, Builder!Pending, Descent!Pending
<1>2. Descent!CheckBytes <=> Builder!CheckBytes
  BY SameFailure DEF Descent!CheckBytes, Builder!CheckBytes
<1>3. \A code : Descent!ReaderThrows(code) <=> Builder!ReaderThrows(code)
  BY SameFailure
  DEF Descent!ReaderThrows, Builder!ReaderThrows, Descent!Reading, Builder!Reading
<1>4. Builder!Next <=> Descent!Next
  BY <1>2, <1>3, SameEvent DEF Descent!Next, Builder!Next
<1>5. UNCHANGED Builder!vars => UNCHANGED Descent!vars
  BY DEF Descent!vars, Builder!vars
<1> QED BY <1>1, <1>4, <1>5

(* The invariant of the descent is kept by the whole.                      *)
DescentIInv == IInv /\ Descent!StrictIInv

(* It holds at first.                                                      *)
LEMMA DescentInitially == Init => DescentIInv
<1>1. Descent!Init => Descent!StrictIInv
  BY Descent!StrictInitially, SameWords, DocumentAssumption, ScalarsAreStrings
  DEF ReaderFailures
<1> QED BY <1>1, Initially, SameSteps DEF DescentIInv

(* Every step keeps it.                                                    *)
LEMMA DescentStep == DescentIInv /\ [Next]_vars => DescentIInv'
<1>1. Descent!StrictIInv /\ [Descent!Next]_Descent!vars => Descent!StrictIInv'
  BY Descent!StrictStep, SameWords, DocumentAssumption, ScalarsAreStrings DEF ReaderFailures
<1> QED BY <1>1, Step, SameSteps DEF DescentIInv

(* The tree, the activations and the counters mirror libyaml's events.     *)
THEOREM DescentInvariance == Spec => []DescentIInv
BY DescentInitially, DescentStep, PTL DEF Spec

-----------------------------------------------------------------------------
(* Who finds a document malformed.                                         *)

(* While the descent reads, nothing is decided.                            *)
LEMMA UndecidedWhileReading ==
  ASSUME DescentIInv, Builder!Reading \/ pc = "enter"
  PROVE  outcome.code = "pending"
BY DEF DescentIInv, Descent!StrictIInv, Descent!StageMirrorsEvents, Builder!Reading

(* What the descent decides about an event of libyaml's.                   *)
LEMMA DeliveredDecision ==
  ASSUME DescentIInv, NEW e \in Offered, Builder!Consume(e)
  PROVE  /\ outcome'.code # "syntax"
         /\ outcome'.code = "invalid_document" =>
              Len(events') = 2 \/ events'[Len(events') - 1].kind = "document_end"
<1>1. Descent!StrictIInv /\ Descent!Consume(e) /\ e \in Event
  BY SameEvent, DocumentAssumption DEF DescentIInv
<1>2. e.kind \in Descent!LibyamlKinds(events)
  BY SameKinds
  DEF Builder!Consume, Builder!Read, Builder!ReadStreamStart, Builder!ReadDocumentStart,
      Builder!ReadContent, Builder!CloseCollection, Builder!Unterminated, Builder!ParseItem,
      Builder!ReadDocumentEnd, Builder!ReadStreamEnd, Builder!Expect, LibyamlMay
<1> QED BY <1>1, <1>2, Descent!LibyamlDecision, SameWords, DocumentAssumption, ScalarsAreStrings
        DEF ReaderFailures

(* No step blames anyone else for malformed input.                         *)
LEMMA BlameStep ==
  ASSUME DescentIInv, SyntaxOnlyFromProvider, [Next]_vars
  PROVE  SyntaxOnlyFromProvider'
<1>1. CASE CheckBytes
  <2>1. outcome.code = "pending"
    BY <1>1, UndecidedWhileReading DEF CheckBytes, Builder!CheckBytes
  <2> QED BY <1>1, <2>1
          DEF CheckBytes, Builder!CheckBytes, Builder!Fail, Builder!Goto, SyntaxOnlyFromProvider
<1>2. CASE Construct \/ (\E n \in Natives : Parse(n)) \/ Inspect \/ Copy
  <2>1. CASE UNCHANGED builderVars
    <3>1. outcome.code = "pending" /\ outcome' = outcome
      BY <1>2, <2>1, ReaderStep, UndecidedWhileReading DEF builderVars, DescentIInv
    <3> QED BY <3>1 DEF SyntaxOnlyFromProvider
  <2>2. CASE /\ Builder!ReaderThrows(answer'.code)
             /\ answer'.as = "exception" /\ answer'.code \in ReaderFailures
    <3>1. outcome'.code = answer'.code
      BY <2>2 DEF Builder!ReaderThrows, Builder!Fail
    <3> QED BY <2>2, <3>1 DEF ReaderFailures, SyntaxOnlyFromProvider
  <2> QED BY <1>2, <2>1, <2>2, ReaderStep DEF DescentIInv
<1>3. ASSUME NEW e \in Offered, Deliver(e) PROVE SyntaxOnlyFromProvider'
  BY <1>3, DeliveredDecision DEF Deliver, SyntaxOnlyFromProvider
<1>4. CASE Validate
  BY <1>4 DEF Validate, readerVars, SyntaxOnlyFromProvider
<1>5. CASE Leave
  BY <1>5 DEF Leave, Reader!Destroy, builderVars, SyntaxOnlyFromProvider
<1>6. CASE UNCHANGED vars
  BY <1>6 DEF vars, readerVars, builderVars, SyntaxOnlyFromProvider
<1> QED BY <1>1, <1>2, <1>3, <1>4, <1>5, <1>6 DEF Next

(* Malformed input is always what libyaml rejected.                        *)
THEOREM Blame == Spec => []SyntaxOnlyFromProvider
<1>1. Init => SyntaxOnlyFromProvider
  BY DEF Init, Builder!Init, Builder!Pending, SyntaxOnlyFromProvider
<1>2. DescentIInv /\ SyntaxOnlyFromProvider /\ [Next]_vars => SyntaxOnlyFromProvider'
  BY BlameStep
<1> QED BY <1>1, <1>2, DescentInvariance, PTL DEF Spec

-----------------------------------------------------------------------------
(* The tree that is validated, and what a valid one is.                    *)

Walker == INSTANCE TreeValidatorProofs WITH Trees <- {}

(* The modules mean the same by a tree.                                    *)
LEMMA SameTrees ==
  /\ \A t, n : /\ Walker!Children(t, n) = Children(t, n)
               /\ Validator!Children(t, n) = Children(t, n)
               /\ Descent!Children(t, n) = Children(t, n)
  /\ \A t, n : /\ Walker!Arity(t, n) = Arity(t, n)
               /\ Validator!Arity(t, n) = Arity(t, n)
               /\ Descent!Arity(t, n) = Arity(t, n)
  /\ \A t, m : /\ Walker!Slot(t, m) = Slot(t, m)
               /\ Validator!Slot(t, m) = Slot(t, m)
  /\ Walker!Node = Node /\ Descent!Node = Node
<1>1. \A S : /\ Walker!Cardinality(S) = Cardinality(S)
             /\ Validator!Cardinality(S) = Cardinality(S)
             /\ Descent!Cardinality(S) = Cardinality(S)
  BY DEF Walker!Cardinality, Validator!Cardinality, Descent!Cardinality, Cardinality
<1>2. \A t, n : /\ Walker!Children(t, n) = Children(t, n)
                /\ Validator!Children(t, n) = Children(t, n)
                /\ Descent!Children(t, n) = Children(t, n)
  BY DEF Walker!Children, Validator!Children, Descent!Children, Children
<1>3. \A t, n : /\ Walker!Arity(t, n) = Arity(t, n)
                /\ Validator!Arity(t, n) = Arity(t, n)
                /\ Descent!Arity(t, n) = Arity(t, n)
  BY <1>1, <1>2 DEF Walker!Arity, Validator!Arity, Descent!Arity, Arity
<1>4. \A t, m : /\ Walker!Slot(t, m) = Slot(t, m)
                /\ Validator!Slot(t, m) = Slot(t, m)
  BY <1>1, <1>2 DEF Walker!Slot, Validator!Slot, Slot
<1>5. Walker!Node = Node /\ Descent!Node = Node
  BY DEF Walker!Node, Descent!Node, Node, Walker!NodeKinds, Descent!NodeKinds, NodeKinds,
         Walker!Collections, Descent!Collections, Collections
<1> QED BY <1>2, <1>3, <1>4, <1>5

(* And by a step of the walk.                                              *)
LEMMA SameWalk ==
  /\ Validator!Open = Walker!Open /\ Validator!Valid = Walker!Valid
  /\ Validator!Enter(1, Root) = Walker!Enter(1, Walker!Root)
  /\ Validator!Next => Walker!Next /\ walk # << >> /\ UNCHANGED tree
<1>1. /\ Validator!Open = Walker!Open /\ Validator!Valid = Walker!Valid
      /\ Validator!Root = Walker!Root /\ Root = Walker!Root
      /\ Validator!MergeKey = Walker!MergeKey /\ Validator!Top = Walker!Top
      /\ \A n, path : Validator!Enter(n, path) = Walker!Enter(n, path)
  BY DEF Validator!Open, Walker!Open, Validator!Valid, Walker!Valid, Validator!Root, Root,
         Walker!Root, Validator!MergeKey, Walker!MergeKey, Validator!Top, Walker!Top,
         Validator!Enter, Walker!Enter
<1>2. \A t, n, i : Validator!Child(t, n, i) = Walker!Child(t, n, i)
  <2> TAKE t, n, i
  <2>1. /\ Validator!Children(t, n) = Walker!Children(t, n)
        /\ \A m : Validator!Slot(t, m) = Walker!Slot(t, m)
    BY SameTrees
  <2> QED BY <2>1 DEF Validator!Child, Walker!Child
<1>3. /\ \A path, i : Validator!ItemPath(path, i) = Walker!ItemPath(path, i)
      /\ \A path, key : Validator!ChildPath(path, key) = Walker!ChildPath(path, key)
  BY <1>1 DEF Validator!ItemPath, Walker!ItemPath, Validator!ChildPath, Walker!ChildPath,
              Validator!RootName, Walker!RootName
<1>4. /\ \A f : Validator!Unvisited(f) <=> Walker!Unvisited(f)
      /\ \A code, path, at : Validator!Fail(code, path, at) <=> Walker!Fail(code, path, at)
      /\ \A f, n, path : Validator!Recurse(f, n, path) <=> Walker!Recurse(f, n, path)
      /\ \A key, keys : Validator!KeyRejection(key, keys) = Walker!KeyRejection(key, keys)
  BY <1>1, SameTrees DEF Validator!Unvisited, Walker!Unvisited, Validator!Fail, Walker!Fail,
     Validator!Recurse, Walker!Recurse, Validator!KeyRejection, Walker!KeyRejection
<1>5. Validator!VisitItem => Walker!VisitItem
  BY <1>1, <1>2, <1>3, <1>4 DEF Validator!VisitItem, Walker!VisitItem
<1>6. Validator!VisitPair => Walker!VisitPair
  BY <1>1, <1>2, <1>3, <1>4 DEF Validator!VisitPair, Walker!VisitPair
<1>7. Validator!Return => Walker!Return
  BY <1>1, <1>4 DEF Validator!Return, Walker!Return
<1>8. Validator!Next => walk # << >> /\ UNCHANGED tree
  BY DEF Validator!Next, Validator!VisitItem, Validator!VisitPair, Validator!Return
<1> QED BY <1>1, <1>5, <1>6, <1>7, <1>8 DEF Validator!Next, Walker!Next

(* What the descent hands over is a tree in preorder with complete         *)
(* mappings.                                                               *)
LEMMA HandedOver == DescentIInv /\ pc = "done" => Walker!WellFormed(tree)
<1> SUFFICES ASSUME DescentIInv, pc = "done" PROVE Walker!WellFormed(tree)
  OBVIOUS
<1>1. /\ Descent!TypeOK /\ Descent!PairsComplete /\ Descent!Preorder(tree)
      /\ Descent!StageMirrorsEvents
  BY DEF DescentIInv, Descent!StrictIInv, Descent!IInv, Descent!InOrder
<1>2. tree \in Seq(Walker!Node) /\ calls = << >>
  BY <1>1, SameTrees DEF Descent!TypeOK
<1>3. tree # << >>
  BY <1>1 DEF Descent!StageMirrorsEvents
<1>4. Walker!Preorder(tree)
  BY <1>1 DEF Walker!Preorder, Descent!Preorder, Walker!Collections, Descent!Collections
<1>5. ASSUME NEW n \in DOMAIN tree, tree[n].kind = "mapping"
      PROVE  Walker!Arity(tree, n) % 2 = 0
  <2>1. ~Descent!OnStack(n)
    BY <1>2 DEF Descent!OnStack
  <2>2. Descent!Even(Descent!Arity(tree, n))
    BY <1>1, <1>5, <2>1 DEF Descent!PairsComplete
  <2> QED BY <2>2, SameTrees DEF Descent!Even
<1> QED BY <1>2, <1>3, <1>4, <1>5 DEF Walker!WellFormed

(* The validation has the finished tree to itself.                         *)
WalkerIInv ==
  IF pc = "done" THEN Walker!WalkIInv ELSE walk = << >> /\ verdict = Validator!Open

(* It begins once the descent is done.                                     *)
Begins ==
  /\ DescentIInv /\ pc = "done"
  /\ walk = <<Validator!Enter(1, Root)>> /\ verdict = Validator!Open

(* It begins with nothing passed.                                          *)
LEMMA WalkerBegins == Begins => Walker!WalkIInv
<1>1. Walker!WellFormed(tree) /\ walk = <<Walker!Enter(1, Walker!Root)>>
        /\ verdict = Walker!Open => Walker!WalkIInv
  BY Walker!BeginsSound, ScalarsAreStrings
<1> QED BY <1>1, HandedOver, SameWalk DEF Begins

(* Every step keeps it.                                                    *)
LEMMA WalkerStep ==
  ASSUME DescentIInv, DescentIInv', WalkerIInv, [Next]_vars
  PROVE  WalkerIInv'
<1>1. CASE CheckBytes
  BY <1>1 DEF CheckBytes, Builder!CheckBytes, Builder!Fail, Builder!Goto, validatorVars,
              WalkerIInv
<1>2. CASE Construct \/ (\E n \in Natives : Parse(n)) \/ Inspect \/ Copy
  BY <1>2, ReaderStep
  DEF DescentIInv, Builder!Reading, Builder!ReaderThrows, Builder!Fail, builderVars,
      validatorVars, WalkerIInv
<1>3. ASSUME NEW e \in Offered, Deliver(e) PROVE WalkerIInv'
  <2>1. /\ walk = << >> /\ verdict = Validator!Open /\ verdict' = verdict
        /\ walk' = IF pc' = "done" THEN <<Validator!Enter(1, Root)>> ELSE walk
    BY <1>3 DEF Deliver, Builder!Reading, WalkerIInv
  <2>2. CASE pc' = "done"
    <3>1. Begins' => Walker!WalkIInv'
      BY WalkerBegins, PTL
    <3>2. Begins'
      BY <2>1, <2>2 DEF Begins, Validator!Open, Validator!Enter
    <3> QED BY <2>2, <3>1, <3>2 DEF WalkerIInv
  <2>3. CASE pc' # "done"
    BY <2>1, <2>3 DEF WalkerIInv
  <2> QED BY <2>2, <2>3
<1>4. CASE Validate
  <2>1. Walker!Next /\ walk # << >> /\ pc' = pc
    BY <1>4, SameWalk DEF Validate
  <2>2. Walker!WalkIInv /\ pc = "done"
    BY <2>1 DEF WalkerIInv
  <2>3. Walker!WalkIInv'
    BY <2>1, <2>2, Walker!WalkStep, ScalarsAreStrings
  <2> QED BY <2>1, <2>2, <2>3 DEF WalkerIInv
<1>5. ASSUME UNCHANGED <<pc, tree, walk, verdict>> PROVE WalkerIInv'
  <2>1. UNCHANGED Walker!vars
    BY <1>5 DEF Walker!vars
  <2>2. Walker!WalkIInv => Walker!WalkIInv'
    BY <2>1, Walker!WalkStep, ScalarsAreStrings
  <2> QED BY <1>5, <2>2 DEF WalkerIInv
<1>6. CASE Leave
  BY <1>5, <1>6 DEF Leave, builderVars, validatorVars
<1>7. CASE UNCHANGED vars
  BY <1>5, <1>7 DEF vars, builderVars, validatorVars
<1> QED BY <1>1, <1>2, <1>3, <1>4, <1>6, <1>7 DEF Next

(* The walk of the whole is the walk over a finished tree.                 *)
THEOREM WalkInvariance == Spec => [](DescentIInv /\ WalkerIInv)
<1>1. Init => WalkerIInv
  BY DEF Init, Builder!Init, WalkerIInv
<1>2. DescentIInv /\ DescentIInv' /\ WalkerIInv /\ [Next]_vars => WalkerIInv'
  BY WalkerStep
<1> QED BY <1>1, <1>2, DescentInvariance, PTL DEF Spec

(* A valid tree can be read with find_key(): each mapping has a value for  *)
(* every key, and its keys are distinct scalars, none of them a merge key. *)
THEOREM ValidIsReadable == Spec => []LookupTables
<1>1. DescentIInv /\ WalkerIInv => LookupTables
  <2> SUFFICES ASSUME DescentIInv, WalkerIInv, verdict = Validator!Valid,
                      NEW n \in DOMAIN tree, tree[n].kind = "mapping"
               PROVE  LET keys == {m \in Children(tree, n) : Slot(tree, m) % 2 = 0}
                      IN  /\ Arity(tree, n) = 2 * Cardinality(keys)
                          /\ Cardinality({tree[m].scalar : m \in keys}) = Cardinality(keys)
                          /\ \A m \in keys : /\ tree[m].kind = "scalar"
                                             /\ tree[m].scalar # MergeKey
    BY DEF LookupTables
  <2>1. verdict.code = "valid" /\ verdict # Validator!Open
    BY DEF Validator!Valid, Validator!Open
  <2>2. Walker!WalkIInv /\ verdict # Walker!Open
    BY <2>1, SameWalk DEF WalkerIInv
  <2>3. Walker!WellFormed(tree) /\ Walker!FirstDefectReported
    BY <2>2 DEF Walker!WalkIInv
  <2>4. Walker!AllDefects(tree) = {}
    BY <2>1, <2>2, <2>3 DEF Walker!FirstDefectReported, Walker!Ended, Walker!DefectCodes
  <2>5. LET keys == {m \in Walker!Children(tree, n) : Walker!Slot(tree, m) % 2 = 0}
        IN  /\ Walker!Arity(tree, n) = 2 * Walker!Cardinality(keys)
            /\ Walker!Cardinality({tree[m].scalar : m \in keys}) = Walker!Cardinality(keys)
            /\ \A m \in keys : /\ tree[m].kind = "scalar"
                               /\ tree[m].scalar # Walker!MergeKey
    BY <2>3, <2>4, Walker!NoDefects, ScalarsAreStrings
  <2>6. /\ \A S : Walker!Cardinality(S) = Cardinality(S)
        /\ Walker!MergeKey = MergeKey
    BY DEF Walker!Cardinality, Cardinality, Walker!MergeKey, MergeKey
  <2> QED BY <2>5, <2>6, SameTrees
<1> QED BY <1>1, WalkInvariance, PTL

=============================================================================
