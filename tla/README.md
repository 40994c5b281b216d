# A TLA+ model of libpkgsource-yaml

libpkgsource-yaml turns the bytes of a YAML document into declarations of
libpkgsource. It accepts a strict subset of YAML, within limits its caller
chooses, and reports every refusal with a category, a path and a place. These
modules model the parser, and the tools that publish its documentation, as the
code in `src/` writes them, model-check them on small instances, and prove their
central invariants for every value of the constants.

The parser is sequential: it has no threads, no callbacks into its caller and
no state between two calls. What makes it hard is something else: a recursive
descent over events that come one at a time from a foreign library, limits that
must hold at every step of it, exceptions that may leave from the middle of any
step, arguments computed in an order the language leaves open, and long chains of
checks whose *order* decides which of several faults is reported. The
documentation tools do keep state between runs, in directories and a stamp, and
each run may end anywhere.

## The system

| Component | Source | State | Operations | Right when |
|---|---|---|---|---|
| Provider adaptor | `src/internal/yaml_event_reader_libyaml.cpp`, `.h` | a `yaml_parser_t`; during `next()` one native event | construct, `next()`, destroy | nothing of libyaml's outlives its owner; oversized scalars are not copied; marks count from one and keep the order of the input; only faulty input is blamed on the input |
| Document tree | `src/internal/document.cpp`, `.h` (`parse_document`, `parse_node`) | the events read, the nodes retained, the stack of activations | read an event, open, fill and close collections, refuse | no limit is exceeded; the tree is the one the events spell; each stream is decided at the right event, with the right category and at the right place |
| Validation | `document.cpp` (`validate_tree`) | the walk, the keys seen per mapping | visit an item, a pair, return | mapping keys are distinct scalars and none is `<<`; the first defect is the one reported |
| Grammar helpers | `document.cpp` from `child_path` to `require_format`, `semantic_value` | none | lookups and checks | the first failing check in source order is reported, at its own path |
| Profiles grammar | `src/profiles.cpp` | the loops' positions, the declarations so far | parse | accepts exactly `docs/protocols/profiles-yaml-v1.md`; no exception of libpkgsource escapes |
| Recipe grammar | `src/recipe.cpp`, `src/internal/recipe_fields.cpp` | the arguments of the declaration still to be computed, the requirements so far | parse | accepts exactly `docs/protocols/recipe-yaml-v1.md`, whatever order the arguments come in; requirements come back in the order promised |
| Public API | `include/libpkgsource-yaml/parser.h`, `src/parser.cpp` | an exception's fields | | |
| HTML documentation | `tools/build-html-docs.py`, `install-html-docs.py`, `check-html-docs.py` | the temporary, published and installed trees; the stamp | render, check, replace, stamp, install | only checked trees are published; a target that is up to date has a whole tree of its last build |
| Manual pages, ABI script | `tools/*.sh`, `*.awk` | | | |

One call of `parse_profiles_yaml()` or `parse_recipe_yaml()` runs through them in
this order: the grammar calls `parse_document()`, which owns a
`yaml_event_reader`, asks it for one event at a time while `parse_node()`
recurses, and validates the finished tree; the grammar then walks the tree and
calls libpkgsource's constructors. Every failure is an exception: `yaml_error`
for the document's faults, `std::bad_alloc` for memory, `std::logic_error` for a
defect of the provider. libyaml and libpkgsource are not part of the repository;
they are modelled from how `src/` uses them and marked external in the map.

The hard places are listed with their lines as "hazards" in `PROJECT.json`.

## The modules

| Module | What it is |
|---|---|
| `YamlTree` | the vocabulary: events, tags, paths, and trees as sequences of nodes that name their parents |
| `EventStream` | how a flat stream nests, told by counting and without a stack |
| `StrictStream` | the abstract specification: the verdict on a stream as a function of the events seen, reached at the first event that decides it |
| `Libyaml` | the order in which libyaml delivers events (external) |
| `TreeBuilder` | `parse_document()` up to validation |
| `TreeBuilderInvariants` | its type invariant, safety invariants and the inductive invariant |
| `TreeBuilderProperties` | what it answers, told from the events; the refinement of `StrictStream` |
| `TreeValidator` | `validate_tree()` |
| `EventReader` | the adaptor |
| `ParseDocument` | `parse_document()` as a whole: instances of the three above, composed |
| `Protocol` | the grammar helpers, as operators |
| `ProfilesParser` | `parse_profiles_yaml()` on a validated tree |
| `RecipeParser` | `parse_recipe_yaml()` on a validated tree |
| `ReleaseValue` | `release_value()` |
| `HtmlPublish` | `build-html-docs.py` and `install-html-docs.py` |
| `...Proofs` | theorems about the module of that name |
| `MC...` | instances of these for TLC, with the small sets their constants get; `MCNodes` makes documents for the two grammars |

A definition marked `\* mutant` stands beside the one it distorts. It is no part
of a model: put in its place, it must make the property it is meant for fail,
which shows that the property depends on what the code does there.

### TreeBuilder

A step is one call of `reader.next()` with everything the code does before it
asks for the next event; the byte check before the reader exists is a step of
its own. `pc` is the place in `parse_document()` that waits, or `"item"` inside
the loop of some activation of `parse_node()`. `calls` is the stack of these
activations: the node being built, `index`, and `path`. `tree` is the sequence of
retained nodes in the order in which they are retained, so `Len(tree)` is
`parse_state::nodes`, and `node::children` is the set of nodes with that parent.
`events` is a history; the code does not keep it. A mark is the position of its
event in that history: line and column increase along a stream, so this is what
a mark tells. `Fail` is the exception: it empties the stack. `ReaderThrows` is an
exception from `next()`, which nothing here catches.

The reader is a parameter, `ProviderMay(s, e)`: whether it may return `e` after
`s`. With `AnyProvider` it may return anything, which is what the code defends
against; with `LibyamlMay` it keeps libyaml's order.

### TreeValidator

`walk` is the stack of activations of `validate_tree()`, each with the position
of its loop, its set of keys and its path. A step is one turn of a loop or the
return of an activation. The initial states are the trees whose mappings are
complete, which is what `PairsComplete` shows `parse_node()` to return.

Paths are sequences of steps and not text. `ChildPath` keeps what `child_path()`
does with text that matters: it takes a path that reads `$` for the root. That
keys with dots or brackets in them make two paths read alike is left out; the
documents promise nothing about it.

### EventReader

`next()` is split where an exception can leave it: at `yaml_parser_parse()`, at
the tests of the native event, and at every string it copies. `held` says that
`native_event` owns contents of libyaml's; `Throw` is the destructor on the way
out. Columns go the same way as lines and are left out, the bytes of strings too.
`LibyamlReports` is external: lines do not decrease along a stream, and an error
of libyaml's reader (its decoder of characters) comes with a `problem_mark` that
nobody has set.

### ParseDocument

The three modules are instantiated over one set of variables; nothing of them is
written again. A step is a step of the adaptor, of the descent or of the walk:
`Inside` is a step of the adaptor while `parse_document()` waits for it, and
leaves with the adaptor's exception when it throws; `Deliver` joins the return of
`next()` with what the descent does with the event. `Leave` is the reader's
destructor, which runs on every way out. After the stream's end libyaml answers
with an event without a type (`LibyamlAnswers`), which the adaptor would report as
a defect of the provider. `Category` is the answer of the public call, as far as
it can be told from the root alone: both grammars begin by asking for a mapping.

### Protocol and ProfilesParser

A check is the failure it throws, or `OK`, and `a ?? b` is the code's order: `b`
is made when `a` has passed. A step of `ProfilesParser` is the check of the root,
the opening of a profile, a member, or the construction of a declaration.
libpkgsource is reduced to three sets with no relation assumed between them: what
`package_reference` accepts (`PackageNames`), what `profile_reference` accepts
(`ProfileNames`), and the keys a provenance path may contain (`SafeKeys`). A subject's
text goes to the one of its key as it is. A profile's key goes to `profile_reference`
behind an `@` (`ProfileName`), and that is the name the declaration gets, while the
path keeps the bare key. In the instances a profile's name starts with `@` and a
package's does not, so `{package: "@good"}`, `{profile: good}` and the key `@good` are
all refused. `std::bad_alloc`, which
any step may throw and which leaves nothing behind, is left out here.

### RecipeParser

The first step is everything before the call of `recipe_declaration`'s
constructor. Each step after it computes one argument of that call, any of those
that are left: C++ does not say which comes first. What `validate_tree()` has
established is assumed of the document, and no argument assumes what another has
checked. libpkgsource is reduced to sets with no relation among them: `Values`
(what its constructors accept of the texts that are not names), `PackageNames`,
`ProfileNames`, `SafeKeys`, and `Releases` for `release_value()`. The keys the code itself puts
into a provenance's path are assumed safe (`RecipeKeysSafe`, and in
`ProfilesParser` `ProfilesKeysSafe`). `requirements` is the list
`requirements_value()` builds, each with its scope and path.

### ReleaseValue

A text is the sequence of its characters, each a digit or `NotADigit`.
`FromChars` is `std::from_chars()`: it keeps the longest prefix of digits, and fails
when there is none or the number passes the wide width. The widths are scaled
down.

### HtmlPublish

A directory is the set of its files. A file is a required name with the build that
made it, the version of what it was made from at that moment, and whether the checker
would pass it. Artifacts are rendered one after the other, Doxygen's (`Api`) last;
`rmtree()` takes one file after the other in any order; `os.rename()` is one step;
`copytree()` copies file after file. `Fault` ends a run between any two steps, like an
exception or a kill. One of the two tools runs at a time.

`StartBuild`'s guard is the `html-docs` target of `docs/meson.build:80-119`: the tool
runs when its output, the stamp, is missing or older than an input. There are two kinds
of sources, and only the first is an input:

- `source`, the files of `html_docs_sources` (Markdown, licences, style sheets and the
  `Doxyfile`);
- `headers`, the public headers under `include/`, which Doxygen renders
  (`build-html-docs.py:150`) and which the list leaves out.

Both may be edited at any step, also while the tool renders (`Edit`, `EditHeaders`). The
stamp is written last (`build-html-docs.py:215`), so it is newer than every edit made
until then: its value is the version of `source` at that moment, whatever had been
rendered before. A build tool that dates a target by the start of its command, as a
recent Ninja does from its log, runs again after an edit during rendering; the model
keeps to the file's own time, with which less can be promised. `build` is a history: the
number of the last build and what it found when it began.

So a tree that is up to date need not be current. After an edit of headers alone no build
is started, and an edit during a build may show in some pages, or none, for good. No
document of the repository promises otherwise, and the properties say what does hold:
the tree shows everything written before its build began.

## The runs

Every run finishes within three minutes on two cores. Deadlock is not looked for:
each model is of one call, which stops, but for `HtmlPublish`, which has nothing to
do once it is up to date and its bounds are used up.

| Run | Bounds | What it shows |
|---|---|---|
| `tree_builder` | any reader; 17 events, one for each class the code tells apart; 4 nodes, depth 3; documents at and over the byte limit; the reader may fail at every event | the eleven properties below |
| `tree_validator` | all complete trees of up to 7 nodes, keys `a` and `<<` | `FirstDefectReported`, `WalkTracksKeys`, `WalkIInv`, `Terminates` |
| `event_reader` | every outcome of `yaml_parser_parse()`, lines below, at and over the greatest position, scalars below, at and over the limit | `TypeOK`, `NothingLeaks`, `ScalarsBounded`, `MarksAdvance` |
| `parse_document` | libyaml's order of events; 5 nodes, depth 2; a failure of libyaml, of an allocation or of the scalar limit at every event | `LookupTables`, `SyntaxOnlyFromProvider`, `ImplementsBuilder`, `ReleasedInTheEnd`, `Terminates` |
| `profiles_parser` | roots wrong in each way; up to two profiles of up to two members, the second of up to one, each right or wrong in each way; names with and without `@` | `ExactlyTheProtocol`, `NoCoreErrorEscapes`, `FirstFaultReported`, `FailureResolves` |
| `recipe_parser` | 216 documents: a right one, each part wrong in each way or otherwise right, any two parts wrong; all 5040 orders of the arguments | `ExactlyTheProtocol`, `NoCoreErrorEscapes`, `FailureResolves`, `DeclaredInOrder` |
| `release_value` | every text of up to 4 characters; widths 31 and 255 | `CanonicalOnly` |
| `html_publish` | 3 artifacts, one of them Doxygen's; two edits of the inputs and two of the headers at any step; 2 faults | `OnlyCheckedFiles`, `UpToDateIsWhole`, `ReplacedWhole`, `Converges` |
| `root_named_key` | trees of up to 7 nodes, keys `a` and `$` | a finding |
| `reader_error_location` | as `event_reader` | a finding |
| `empty_document` | as `parse_document` | a finding |
| `install_remnant` | as `html_publish` | a finding |

On `TreeBuilder`:

- `StrictSubset`: the recursive descent implements `StrictStream` under the
  mapping that forgets the tree and the stack. The abstract verdict recounts
  nesting from the events and knows nothing of activations, so the two agree only
  if every early exit of the code comes at the right event, in the right order.
- `TreeMirrorsEvents`: one node for each value accepted, under the innermost
  collection open there, with its kind, contents and depth.
- `FailureLocated`: path and mark of a failure, told from the events: the value
  refused, the collection left open, or the mapping whose last key has no value.
- `WithinLimits`, `EventBudget`: nodes, depth, recursion and the number of events
  read are bounded by the limits, whatever the reader returns. At a limit of four
  nodes and depth three both limits are met and exceeded in many shapes.
- `PairsComplete`: what lets `validate_tree()` and `find_key()` read
  `children[i + 1]`.
- `ReadsNothingAfterEnd`: libyaml answers a call after the stream's end with an
  event without a type, which the adaptor reports as a defect of the provider.
- `IInv`, `StrictIInv`, `PathIInv`: the inductive invariants of the proofs, checked
  before they were proved.

On `TreeValidator`:

- `FirstDefectReported`: the defect reported is the first in document order, at its
  own path; no tree with a defect passes.
- `WalkTracksKeys`: the set of keys of an activation is that of the pairs it has
  passed, and of its own mapping only.
- `WalkIInv`: the inductive invariant, checked before it was proved.

On `ParseDocument`:

- `ImplementsBuilder`: the composition does what the descent alone does with a
  reader that throws for the document or for memory, so what holds of `TreeBuilder`
  for any reader holds here, and no call ends in the adaptor's `logic_error`.
- `SyntaxOnlyFromProvider`: the category "syntax" comes from libyaml alone, as
  `parser.h` describes it; the defences of `document.cpp` against misordered events
  are never reached.
- `LookupTables`: what the grammars rely on in every tree they are given. A mapping of
  two pairs is five nodes, so keys are repeated, and told apart.
- `ReleasedInTheEnd`: each of the many ways out gives back what libyaml holds.

On the grammars:

- `ExactlyTheProtocol`: the chains of checks accept the documents that the
  protocol, written as one predicate without order, describes, and what is returned is
  what they say: a profile is declared under `@` and its key. For a recipe it
  says too that the order of the arguments changes no answer between acceptance
  and refusal.
- `NoCoreErrorEscapes`: every exception has a category of `yaml_error`; none of
  libpkgsource's comes through the places that build a provenance outside
  `semantic_value()`.
- `FirstFaultReported` (profiles): of several faults the first in document order is
  reported. For a recipe the order is the compiler's, and there is no such promise.
- `FailureResolves`: the path of a failure leads to the node whose line it bears.
- `DeclaredInOrder`: the requirements are those of the document, once each, in the
  order of the scopes.

On `HtmlPublish`:

- `OnlyCheckedFiles`, `ReplacedWhole`: nothing unchecked and no mixture of two builds is
  ever published or installed.
- `UpToDateIsWhole`: a target that is up to date has the whole tree of the last build
  beside it, which shows what was written before that build began, wherever earlier
  runs ended and whatever is edited when. It does not say that the tree is current.
- `Converges`: once faults and edits cease, it comes to that for good.

Four nodes are enough for a mapping in a mapping beside a third value, for a
sequence in a sequence with a later sibling, and for each of them to be refused
at each place; what the code does depends on the innermost activation and the two
counters only. `parse_document` has five, for a mapping that repeats a key, and depth
two to remain small: deeper nesting is what `tree_builder` and `tree_validator` are for. Seven nodes of a tree make two mappings, nested or side by side,
that repeat each other's keys. In a recipe no check looks at more than one part of
the document and the parts' order is free, so two faults at a time show every
difference an order can make. Texts of four characters pass both widths and have
room for a leading zero and for what is no digit. Three artifacts and two faults
let a removal stop with the index there or gone, and a copy stop half-way, after
another failure; two edits of each kind can come before a build, between the pages of
one and the stamp, and after it.

### Findings

- `root_named_key`: `document.h:45` says `child_path()` appends one key to a path.
  Under a root mapping with a key `$` it returns `$` again, and a repeated key
  further down is reported at a path without its outer key.
- `reader_error_location`: `parser.h:119` promises line zero when the provider
  supplied no location. For an invalid byte libyaml supplies an offset only; the
  code adds one to the mark that nobody has set, and reports line and column one
  wherever the byte is.
- `empty_document`: `parser.h:34` gives `invalid_document` to a stream that does not
  contain exactly one non-empty document. For a document that is only `---` libyaml
  delivers a scalar without contents, not an end; the code's test for the end does
  not see it, and the grammar answers `invalid_type`.
- `install_remnant`: `install-html-docs.py:28` refuses a source that is "incomplete",
  and `DESIGN.md:126` has links checked before installation. When a build is killed
  within `rmtree()` the stamp of an earlier build remains; if the index does too,
  the remnant is installed.

## Fairness

`Terminates` and `ReleasedInTheEnd`: a call runs on its caller's thread and waits for
nothing, so a step that can be taken is taken: weak fairness of `Next` in
`TreeValidator` and in `ParseDocument`. That `yaml_parser_parse()` returns is assumed;
that it ever fails is not needed, for the documents it delivers are bounded by the
limits, and after the stream's end nothing is asked for.

`Converges` needs weak fairness of `Work`, since a tool that runs goes on, and strong
fairness of `StartBuild`: the build is run again and again, also when installations
come between, whenever the stamp is out of date. A fault or an edit is never forced,
and both are bounded.

## The proofs

Every safety invariant and action property that a run expects to hold is a theorem
for all values of the constants; liveness, at the end of this section, is not. Each
proof goes the same way: an invariant that is inductive, checked by a run before it
was proved, implies the property.

### TreeBuilder

*Limits and shape.* `TreeBuilderProofs` proves, for all limits in Nat (zero included),
all documents, all sets of events and every reader, that `Spec` keeps `TypeOK`,
`WithinLimits`, `EventBudget`, `PairsComplete` and `ReadsNothingAfterEnd`. None of them
is inductive by itself:

- `index` of an activation is only a counter. That it is even exactly when the
  mapping has an even number of children needs `CallsFollowTree`: the activations
  are one branch of the tree, and `index` is the number of children that are
  complete, which leaves out the child the next activation is still reading.
- `WithinLimits` bounds depth, which needs the depth of a node to be the height
  of the stack when it was retained.
- `EventBudget` needs the ledger: an event in the body of a document retains a
  node or closes an activation, so events and open activations together are at
  most twice the nodes, plus an allowance for each place around the root.
- `ReadsNothingAfterEnd` needs that the stream's end, wherever it comes, ends the
  call (`EndNotRead`).

`IInv` is their conjunction. `Initially` and `Inductive` show that it holds at
first and that each action keeps it. A failure, an event that only goes by, a
scalar, a collection opening and a collection closing are one lemma each; the
actions are cases of these.

*The events.* The second part of the module relates the stack to the stream, which
`EventStream` nests by counting alone. `StrictIInv` says that the activations are the
collections the events leave open, outermost first; that each has counted the values
directly inside it; and that the last event tells the place in `parse_document()`.
The lemmas on `EventStream` say how `Level`, `Open`, `Innermost` and `Members` change
when one event is appended; the lemmas whose names end in `Mirrors` take them through
each kind of step. From it follow

- `MirrorKept`: `TreeMirrorsEvents`;
- `ImplementsStrictSubset`: `Spec => StrictSubset`, step by step. Under `StrictIInv`
  each guard of the descent equals the question `StrictStream` asks of the events
  (`Decision` and the lemmas it rests on), so the verdicts agree at every event;
- `OrderKept`: the tree stays in preorder (`InOrder`), which `TreeValidator` starts from;
- `FailuresLocated`: `FailureLocated`. `PathIInv` adds that each activation opened as
  the last value so far of the one below it, and that its path has the index of every
  sequence below; counting the complete values before a place gives these indices
  again (`IndexCounts`, `PathLeads`).

The assumptions used are those of `TreeBuilder`: limits are natural numbers, offered
events are events, and the reader throws one of four things.

### TreeValidator

`TreeValidatorProofs` proves `FirstDefectReported` and `WalkTracksKeys` for every set of
complete trees in preorder (`TreesAssumption`, which `PairsKept` and `OrderKept` show of
the trees `parse_node()` returns). `WalkIInv`: the walk is one branch of the tree from the
root; an activation's keys are those of the pairs its loop has passed; and no defect
lies behind it. The last part is the heart: the nodes a step passes are exactly those
between two positions in preorder, so each defect is found when the walk comes to it
and none is passed over.

### EventReader

`EventReaderProofs` proves `TypeOK`, `NothingLeaks`, `ScalarsBounded` and
`MarksAdvance` for every limit, every width of a position and every set of native
outcomes. The invariant adds that between parse and return the native event can be
delivered, and that what was delivered last does not lie past it
(`Deliverable`); `MarksAdvance` follows since `one_based_position()` keeps order.

### ParseDocument

`ParseDocumentProofs` proves `ImplementsBuilder` for every limit and every set of
events: a step of the composition is one of the descent or leaves its variables
alone. That needs an invariant: while the descent waits, the last event was not
the stream's end (`EndSeen`), so libyaml has an event or an error, and an event
without a type never reaches the adaptor's tests. The theorems about `TreeBuilder`
carry over to the composition through it, whose order of events is one of the
readers they are about.

`DescentInvariance` is `StrictIInv` of the descent inside the composition, from an
instance of `TreeBuilderProofs`. Over libyaml's order of events it decides which kinds
can come (`LibyamlDecision`), so no refusal for a misordered event is reached:
`Blame` is `SyntaxOnlyFromProvider`. `ValidIsReadable` is `LookupTables`: the walk
inside the composition keeps `WalkIInv` of an instance of `TreeValidatorProofs`, the
trees it starts from are complete and in preorder by `StrictIInv`, and a walk that
ends without a failure has left no defect.

### The grammars

`ProtocolProofs` has the lemmas on `??`, `FirstOf` and the loops: a chain of checks
passes when all of its parts do, and fails with a failure of one of them. `FirstOf`
takes the least failing index, whose existence comes from the well-foundedness of
inclusion, not from induction. `ProfilesParserProofs` and `RecipeParserProofs` prove,
for every set of documents,

- `NoCoreErrorEscapes`. For profiles the invariant is that the path of the definition
  stays one that the core takes while its members are read: the profile's name was
  tested before. For recipes nothing of the kind is carried between steps: the fixed
  keys are safe by assumption, and an action's name is tested before the paths below it
  are used.
- `ExactlyTheProtocol`. Each operator of a grammar has a lemma whose name ends in
  `Passes`: its check passes exactly when the predicate of the protocol holds. The
  invariant `Progress` says what has been passed so far: the profiles before `entry` and
  the members before the next, or the arguments that are no longer in `todo`. For a
  recipe no argument's check is assumed when another is made, so the order is free.
- `FirstFaultReported` (profiles): `Progress` has every profile before `entry` sound
  and the declarations made from them.
- `FailureResolves`, for every document whose root has no key `$` (`RootUnnamed`; with
  such a key it is false, since `child_path()` makes the key's path the root's own).
  `At(d, path, node)` says that a path walks from the root to a node. One lemma for
  each check says that, called where its arguments are, it passes or fails with a
  failure that can be found (`Resolved`); the order of the checks matters here, since a
  value is only where its path leads after its key has been required. `NodeAt` is a
  recursive function, and that one step more of a path is one step more of the walk is
  shown with `LeastCounterexample` (below).
- `DeclaredInOrder` (recipes). The invariant `Computed` says that what is kept is what
  `Declared` gives. It is put together from parts, one of each fixed scope and one of
  each pair of the lifecycle (`PartByPart`). `Flattened` says of any list of lists that
  `FlattenSeq` leaves out no element and keeps their order, by part and then by place in
  the part; `Placed` finds the part again from a path, with the node at each of its
  steps (`At`), and `PathsOfParts` that the parts hold every requirement there is.
- `CanonicalOnly` of `ReleaseValue`, for texts of every length and every two widths. The
  answer is a function of the text; that this function accepts the writings `Decimal`
  gives and no others rests on two lemmas that go opposite ways. `DecimalWrites`: what is
  written of a number is all digits, starts with none that is zero, and has the number
  as its value. `ValueReads`: a text of that form is what is written of its value.
  `Value` and `Decimal` are recursive functions: that they exist and what they compute
  is shown by hand from `LeastCounterexample`, since the library's induction cannot be
  instantiated here.

Assumed are `NodesAssumption` with `ProfilesDocuments` and `RecipeDocuments`, which is
what `LookupTables` shows of every tree the grammars are given (a node's kind being one
of the three there are), `WidthsAssumption`, and
`ProfilesKeysSafe` and `RecipeKeysSafe`.

### HtmlPublish

`HtmlPublishProofs` proves `UpToDateIsWhole`, `OnlyCheckedFiles` and `ReplacedWhole` for
every set of artifacts, any of them Doxygen's, and any number of edits at any time and of
faults. The invariant says what each step of a tool has established: between two builds
there is no temporary tree; every file of one is of the build that runs and no older
than what it found when it began; from the check to the rename it is complete; after the
rename the published tree is; and from the start of a build until the stamp is written
the stamp is older than the inputs, which edits only make newer.

### Only model-checked

Liveness: `Terminates`, `ReleasedInTheEnd` and `Converges`. They need fairness, hence
`ENABLED`, which the prover does not treat.

## Not modelled

- `yaml_error` and the export macros: no behaviour beyond construction.
- The manual pages' scripts and the ELF export script: one-pass text filters whose
  output depends on each line by itself.
- What Pandoc and Doxygen render, and what the link checker reads in a page: a file
  is sound or it is not. The installer's dry run changes nothing.
- The text of paths: they are sequences of steps, and that two of them may read alike
  is only kept for `$`.
- The rules of libpkgsource's own constructors, which are not part of the repository.
- The build files, but for the rule of the `html-docs` target, and the shell contracts
  under `tests/`.
- Two of the documentation tools at once, and times that a file system cannot tell
  apart.
- The stack of the thread: recursion is as deep as `maximum_depth` lets it be,
  and a caller may set more than a thread can hold.

## Plan

Done, in this order: `YamlTree`, `EventStream`, `StrictStream`, `TreeBuilder` with
its runs and proofs; `TreeValidator`; `EventReader` with its proofs; `Protocol` and
`ProfilesParser`; `RecipeParser` and `ReleaseValue`; `ParseDocument`; `HtmlPublish`; the
proofs about these, in the order of the section above.

Left, a proof: that the reader is gone in every state in which a call of
`ParseDocument` has ended.
