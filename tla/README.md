# TLA+ models of readin

readin fills a Go struct from a configuration document (JSON, YAML, TOML or a
format of the application), from the environment and from `default=` tags. This
directory holds TLA+ modules that model it, the configurations with which TLC
checks them, and proofs that TLAPS checks. Source references are `file:line` of
the repository; `PROJECT.json` maps each definition to the lines it models.

## 1. The system

### Components

| Component | Source | State | Operations | What makes it correct |
|---|---|---|---|---|
| Decoder registry | `decoder_registry.go` | an atomic pointer to an immutable `registryState`, the mutex `writes` | `NewRegistry`, the zero value, `Register`, `Lookup`, `Formats` | it behaves as a map changed atomically; a registration is never lost, split or replaced; nobody waits for ever |
| Tag cache | `tag.go:179-281` | an atomic pointer to an immutable map, the mutex `writes` | `lookup`, `parseAndStore` | one entry per tag, parsed once, shared by all binds |
| Errors | `errors.go` | `Error.Field`, also of the errors kept in the tag cache | `newError`, `wrapInvalidValue`, `fieldError`, `Unwrap` | an error names the path of the value that failed, and leads back to the error of the application |
| Struct binder | `binder.go`, `lookup.go`, `validator.go` | none of its own; it changes the target | `Bind`, `bindStruct`, `bindEmbedded`, `bindField`, `bindNested`, `validate`, `lookupKey` | precedence of the sources; what a failed load leaves; idempotence of a reload; who is validated, and when |
| Converter | `converter.go` | none; it changes the target | `assign`, `assignString` and a case per kind | values stay inside their type; lists are replaced whole |
| Tag constraints | `tag.go:479-600`, `range.go` | none | `apply`, `check`, `checkRange`, `runCustom` | a value that is taken obeys `options=` and `range=` |
| Tag parser, ranges | `tag.go:294-470, 602-682`, `range.go` | none | `tagValue`, `parseTag`, `splitTagValue`, `parseRange` | the option list is the one the text means |
| Reader | `reader.go`, `loader.go`, `option.go` | none after `New` | `New` and its options, `Load`, `Decode`, `FillDefault`, `section`, `decoder` | a narrowed load binds the section the path means or fails; a format means one decoder; options are settings |
| Sources | `source*.go` | the file, or the position of a stream | `Read`, `Format`, `Name` | a used-up stream is not taken for a configuration |
| Expander | `expander.go`, `expander_env.go`, `env.go` | none; reads the environment | `Chain`, `Expand`, `expandVariables` | a text becomes what its references mean; none is left; strict mode sees the whole document |
| Normalisation | `normalize.go` | none | `normalizeTree`, `normalizeValue` | what follows only sees canonical nodes |
| Decoders | `decoder*.go` | none | `Decode`, `Format`, `Extensions` | a document is an object; blank content is an empty one; no document is dropped |
| Documentation | `doc.go` | - | - | no code |

### How they interact

A `Reader` is made once and used by many goroutines. A load is a pipeline:
the source is read, a decoder is chosen (extra decoders first, then the
registry, which any goroutine may extend meanwhile), the content is decoded and
normalised, references to the environment are expanded, the section of
`WithPrefix` is taken, and the binder fills the struct, consulting the tag cache
and, for `env=`, the environment again. The goroutines share the registry, the
tag cache with the errors in it, the environment, and the sources they are given;
everything else belongs to one load.

### What is hard about it

- Two structures are copy-on-write with lock-free readers: a registration or an
  entry can be lost, doubled or seen in part, and an early return can keep a lock.
- One error value is shared by all binds that meet the same malformed tag, and
  is written to (`errors.go:183`).
- A bind changes the target field by field, and may fail at any of them; the
  same struct is bound again after that, from another document.
- The precedence of four sources, keys that match in another case, nulls, absent
  sections and optional sections interact.
- A load reads its environment twice, files are rewritten, streams are used up.
- Two hand-written scanners, of tags and of references, have quotes, escapes and
  nesting that act on each other.
- A number passes through texts, int64, uint64 and a rounding float64, and is
  compared with the ends of types that float64 does not have.

`PROJECT.json` lists each hazard at its line, with the properties against it.

## 2. Modules

| Module | Models | State and actions |
|---|---|---|
| `FormatNames` | format names and the keys a decoder claims | operators; a name is a word with dots, capitals and blanks around it, so that normalisation does something |
| `AtomicRegistry` | what the registry promises: each call takes effect at one instant | `held`, and per goroutine a call, its status and its result |
| `DecoderRegistry` | `decoder_registry.go` | `state` is the atomic pointer (nil for the zero value), `writes` the mutex, `current[p]` the snapshot a goroutine loaded; one action per access to the pointer or the mutex |
| `AtomicMemo` | what the tag cache promises | a memo and calls, as above |
| `TagCache` | `tagCache` | `entries` is the atomic pointer, `view[p]` the map loaded; `parses` counts calls of the parser (a history variable) |
| `BindErrors` | binds that meet malformed tags; EXTENDS `TagCache` | `Field[k]` is the `Field` of the cached error of tag k, as the two words a Go string is; goroutines read and write them one at a time |
| `Iteration` | a loop that runs its body for 1, 2, ..., n | an operator, whose body is a parameter; every `for` over fields, items, keys, handlers and levels of a path is an instance |
| `ConfigTrees` | the nodes of a config tree, and key matching (`lookup.go`) | operators |
| `ConfigValues` | Go types and Go values, and the conversion of scalars | operators |
| `BindLevel` | `binder.go`, `converter.go`, `validator.go` and the constraints of tags | operators with the names of the Go functions, for a value of one type (see below) |
| `BindTypes` | the types of a program's structs and the nodes of its documents; EXTENDS `BindLevel` | constants, with what Go's type system and a parsed document guarantee of them as assumptions |
| `WholeTypes` | the recursion through the types | gives `BindLevel` its own operators for the types inside a type |
| `StructBinder` | a program that binds its struct again and again; EXTENDS `BindTypes` | `target`, the document, the environment, the `outcome` of the last bind (its error and what each `Validate` saw); `Bind` is one step and `Configure` changes the inputs between two binds |
| `Decoders` | what the decoders make of the documents of a content | operators that return the set of possible outcomes, since Go ranges over maps in random order |
| `Documents` | normalisation and the expansion of a tree | the same |
| `Loads` | the pipeline, over `AtomicRegistry` and `Decoders` | `pc[p]` is the stage of a load; one action per stage, between two accesses to something shared |
| `Reader` | `Loads` with the expanders of `Documents` and the binder of `BindLevel`, over `BindTypes` | - |
| `Jobs` | what the modules below share | `job` is what a computation is given, `answer` what has come of it so far |
| `References` | `expandVariables` on one text, and `Meaning`, what a text that is given as its references means | operators over sequences of symbols; `ExpandTerm`, `ExpandString` |
| `TagText` | `tagValue`, `splitTagValue`, `parseTagWith`, `parseRange` | operators over sequences of symbols; a word (a name, a number) is one symbol |
| `Numbers` | conversion of a number into a field, and the range it is checked against | `Assign`, then `CheckRange` |
| `Options` | `New`, `NewStructBinder` and their options, `registerTagOption`, what `Bind` refuses before it looks at a document | a Reader is a record of its settings; `BuildReader`, `RegisterOptions` |
| `ErrorChains` | `Unwrap`, `wrapInvalidValue`, `fieldError`, `unwrapSentinel` | an error is a record that holds those it wraps; `Report`, then `PassOn` for each level it passes |
| `Computations` | the five above, composed, with the parsing of tags | a behaviour is one computation of any of them; `ParseTag`, `SplitTag` |
| `MC*` | instances for TLC | constants only |
| `*_proofs` | theorems | - |

`Loads` uses `AtomicRegistry` in place of `DecoderRegistry`: `ImplementsAtomic`,
checked and proved, is what allows it. In the same way `BindErrors` may name the
memory of an error by its tag because `AnswersShared` holds of `TagCache`.

**Recursion through types.** A bind recurs through the types of a struct, which are
of any depth. So that it can be proved about, `BindLevel` says what the functions
make of a value of one type, and asks a constant operator of the same name with
`Inner` before it (`InnerAssign` in `assign`) what they make of the types inside. In
the runs a .cfg closes the circle (`InnerAssign <- AssignWithin`, which `WholeTypes`
defines as `assign`), and `Recursion` in `StructBinder_proofs` is the assumption that
it is closed: on all types, the `Inner` operators are the operators. There are such
operators because no type contains itself: `Depth` is larger for a type than for
those inside it (`TypesAssumption`, `FieldsAssumption`). Go has types that contain
themselves behind a pointer, a slice or a map; these are left out.
`Documents` recurs through the nodes of a tree, `References` through the rest of a
text and the fallbacks in it, and `ErrorChains` through the errors an error wraps,
in the same manner, each with `Inner` constants that the runs close.
`Loads` takes the normalisation, the expanders and the binder as
parameters (`Normal`, `Expansion`, `Filled`), and `Reader` says what they are.

Definitions whose comment begins with "Wrong:" are not part of the model. They
are plausible mistakes in the definition below them, kept to show that the
properties notice: `PROJECT.json` pairs each property with one.

### Abstractions

- A goroutine's private computation is one step with the shared access it ends
  in. A bind is sequential and shares only the tag cache, so `StructBinder` takes
  it in one step, and `BindErrors` has the interleaving.
- Reading a source is one step, and so is an expansion, although the expander
  calls `os.LookupEnv` once per reference; the environment changes between stages.
- Parsed documents are data of the models: the parsing libraries are external, and a
  content is the list of the documents they find in it, or a refusal. `Decoders`
  has what readin makes of that list, for JSON, for YAML and for a decoder of TOML
  or of the application.
- `StructBinder` and `Documents` take tags, references and integers as they are
  parsed, and `Computations` has the parsing. There a text is a sequence of symbols
  of which the marks of the grammar are one each. What `strconv.ParseFloat` and
  `strconv.Unquote` do is a table and the removal of backslashes.
- `StructBinder` has strings, booleans and integers of a width (`0..99` in the
  runs), including refusal of what does not fit. `Numbers` has signs, fractions,
  NaN, infinities, the rounding of float64 and float32, and the ends of every type.
- Handlers of tag options work on scalars; `Validate` returns a plain error.
- The sorted slices of the registry are sets, as their order is a function of
  their members. Wording of errors is left out; their kind and path are kept.
- The Go type of the target of a bind is one of five kinds (`Options`).

## 3. Runs

Every run but `computations`, where a computation ends, checks for deadlock. All
bounds are in the MC modules and the .cfg files.

| Run | Configuration | Instance | What it shows |
|---|---|---|---|
| `registry` | `MCDecoderRegistry.cfg` | 2 goroutines; a decoder with the extension ".yml", another whose format is ".yml", a third one, one without a name, nil; the zero value and 3 `NewRegistry` calls | linearizable (`ImplementsAtomic`); snapshots are whole; nothing is lost; answers stand; calls return |
| `tag_cache` | `MCTagCache.cfg` | 3 goroutines, a good and a malformed tag | an atomic memo; a tag is parsed once, its entry kept and shared; lookups return |
| `bind_errors` | `MCBindErrors.cfg` | 2 goroutines, 3 structs, two of them with the same malformed tag under different paths | each bind stops at the first malformed tag of its own struct, with an error that has a path of that tag; binds end |
| `binder` | `MCStructBinder.cfg` | 4 structs (below), from every document that differs from the first in at most two keys, in 1 to 3 environments, with reloads | the rules of loading, see below |
| `reader_documents` | `ReaderDocuments.cfg` | 1 loader, a YAML file that is rewritten, a JSON stream that is used up, or fails half way and goes on; contents with one document, one among empty ones, an empty one alone, two; strict expander, prefix `app.db`, 2 environments that alternate | section, strictness, used-up streams, dropped documents, canonical trees |
| `reader_formats` | `ReaderFormats.cfg` | 2 loaders, 1 registrar, an extra decoder of the application whose format is also registered, a source whose closing may fail | a format means one decoder |
| `computations` | `Computations.cfg` | every computation on a small set of inputs, see below | scanners against what is written; numbers, ranges, options and errors |
| `new_registry_drops` | `NewRegistryDrops.cfg` | as `registry` | violated: see 6 |
| `bind_errors_own_path`, `bind_errors_torn` | `BindErrorsOwnPath.cfg`, `BindErrorsTorn.cfg` | 1 and 2 goroutines | violated: see 6 |
| `null_clash`, `null_item` | `BindNullClash.cfg`, `BindNullItem.cfg` | one struct each | violated: see 6 |

**Why the bounds are enough.** In the registry and the cache a lost update needs
two writers and a key of each; a third goroutine in the cache sees what two others
did to each other. Both are also proved for any size. A torn string needs two
writers, or one and a reader. The structs of `binder` have each shape the code
distinguishes once: `Service` every tag option, `Sections` nested structs, a
section behind a pointer with another inside it, an embedded struct and an
embedded pointer, a slice of structs with a null among its items, with `Validate` at three levels,
in the embedded struct and in the items; `Lists` a slice, an array, a slice of
structs, a map and `any`; `Reading` a section that reads its own JSON and has a
`Validate`. Two keys vary at a time, because the rules relate a key to one
other (a clash, a field before the one that fails), and the values that make a
bind fail at the first, a middle and the last field are among them. The struct
that a bind finds is any that earlier binds of any of these documents left.

The instance of `computations` has what each computation distinguishes:
- numbers are quarters, so that there are fractions; int64 has 6 bits, float64 a
  mantissa of 4 and float32 one of 3, so that, as in the program, float64 is wider
  than int64 and less exact. The values are those around zero, around the widths of
  the mantissas and around the ends of all types, in each form a number can have;
  ranges have no, one or two bounds, of which one is a number float64 rounds;
- references: texts of two items, of which one may have a fallback of two items, one
  again with a fallback; for strictness, all texts of 4 symbols and of 6 pieces. A
  reference inside a fallback inside a fallback is where the depth is counted twice;
- tags: two options of each kind and style (as it is, in quotes, with backslashes),
  with a separator, a bracket, a quote, a backslash or a blank in the value; for the
  cuts, all texts of 5 symbols, enough for a bracket around a quote around a comma;
- lists of 3 options and 2 registrations: a conflict needs two of them; the names that
  are registered have up to 3 symbols, the backslash, the newline and the tab among
  them;
- errors that wrap or join two others, through 3 levels with and without a path.

**The rules `binder` checks.** `Precedence`: a load that succeeds gives each
scalar field of each section what the README's order selects (`README.md:280`).
`EnvHidesFile`: nothing in the document matters once the environment provides a
field. `TakenValuesObeyTags`. `FailureIsAPrefix`: a failed load has done the
fields before the one it names and none after it. `ReloadChangesNothing`: also
after a failure. `OptionalSectionsStayAbsent`. `ListsAreReplacedWhole`.
`BoundStructsAreValidated`: each struct that the binder filled in a load that succeeds
was validated, after those filled inside it; by name this leaves out structs that read
their own JSON, null items and sections a handler was given (see 6).
`ValidateSeesCompleteStructs`: whatever a `Validate` saw is what the load leaves there.

**The rules the `Reader` runs check.** `NarrowedLoadsAreNotEmpty`: with a prefix, a
source with nothing to give, a used-up stream or documents that are all null, never
loads as an empty configuration. `SectionIsUnambiguous`: what is bound is the only
node of the expanded document that the path can mean.
`StrictSeesTheWholeDocument`: an unset variable outside the section, or in a
document behind the first one, is still an error. `NoReferenceIsBound`: in keys and
values no reference is left, but for texts the environment or an escape has put
there. Strictness is that of the first expander, as one that is not strict leaves
the next nothing to refuse. `OneDecoderPerFormat`. `TreesHaveTypes` says that the trees past the decoder are
canonical, whichever decoder they are from, and the target a value of its type.

**The rules `computations` checks.** `ExpansionIsTheMeaning`: a text that is written
from references becomes what they mean. `StrictOnlyRefuses`: for any text, strict
mode changes no result, and refuses only for a name that matters.
`TagIsTheOptions`: a tag written from options, in any style that protects their
values, is read as these options, or refused as a whole. `SplitIsAtTopLevel`: any
text is cut where a declarative reading of quotes, brackets and escapes says, and
nowhere else. `IntegersAreExactOrRefused` and `RangeIsTheInterval`: see 5.
`OptionsAreSettings`: the order of options of different settings is immaterial, the
last of one setting counts, and the default binder has the Reader's key matcher.
`RegisteredOptionsAreReadBack`: a name a binder takes, `parseTagWith` finds in a tag that
escapes its backslashes, unless the name begins or ends with white space; a refused
registration is not forgotten. `ErrorsLeadBack`: whatever `errors.Is` finds in
an error of a `Validate` or a handler it finds in what the load returns, which is an
invalid value unless its author chose a kind and has the path nearest to the failure.
The reference definitions are not the code over again: `Meaning` is over references,
not over symbols, and `Segmentation` counts what is before a place instead of
scanning.

## 4. Fairness

Weak fairness on every step of a goroutine that has begun a call: the Go scheduler
is preemptive and lets every runnable goroutine run. Strong fairness on taking the
mutex: `sync.Mutex` goes into starvation mode, in which it is handed to its oldest
waiter, so one that waits while the mutex is free again and again does get it.
Nothing makes a goroutine begin a call. Liveness is checked for
`DecoderRegistry` (`EveryCallReturns`), `TagCache` (`EveryLookupReturns`) and
`BindErrors` (`EveryBindEnds`). In `EveryBindEnds` a bind ends after finitely many
fields, each with a lookup; it also shows that the fairness of the cache is enough
for those who use it. The other modules have no fairness and no liveness property:
a load waits for nothing but the registry, whose calls return.

## 5. Proofs

TLAPS checks the following for every value of the constants. The theorems on the
registry and the cache are for every set of goroutines, decoders, names and tags,
from the assumptions named in the modules: `ProcAssumption` (the owner of a free
mutex is no goroutine; `NewRegistry` is given sequences of decoders),
`TagCacheAssumption` (the blank entry, key and owner are none of the real ones) and
what `FormatNames` assumes of its constants. TLC evaluates them in the runs.

`DecoderRegistry_proofs`: `TypeCorrect`, `WholeSnapshots`, `StandingAnswers`,
`NoLostRegistration`, `Refinement` (`Spec => Atomic!Spec`). None of the
invariants is inductive. `IInv` adds that
- the mutex is owned by the one goroutine that is inside (`LockInv`),
- so what a writer is about to check and copy is what is published (`FreshInv`);
- a reader works from an older content, which the published one extends (`PastInv`),
- so an answer computed from it is true of every later content (`StandsInv`);
- and an undecided call has no answer yet (`UndecidedInv`), a writer past the entry
  has a usable decoder (`UsableInv`), and nobody calls a registry that is being
  built (`BuildingInv`).

With `FreshInv` a store only adds, which is `NothingLost`; it is also what makes a
store the one atomic step of a registration in the refinement. A refusal takes
effect at the comparison, and a lookup at its load of the pointer.

`BindErrors_proofs`, on the cache: `TypeCorrect`, `OneParse`, `SharedAnswers`, `KeptEntries`,
`Refinement` (`Spec => Memo!Spec`). `IInv` adds the same `LockInv` and `FreshInv`,
that a tag is parsed only by a goroutine on its way to publishing it (`ParseInv`,
`StoreInv`), and that all maps agree with the one possible entry of each tag
(`ContentInv`, `AnswerInv`).

On the binds that use it: `PathsAreTheTags` and `VerdictsAreRight`, from `StructAssumption`
(the fields of a struct are a sequence, their tags are tags of the cache, their paths
are paths). Each step of a bind is a step of the cache or leaves it alone
(`CacheStep`), so the `IInv` of the cache stays. `BindInv` adds to it what a
goroutine knows on its way (`AtField`): the fields before the one it is at have good
tags (`FineBefore`), the key it looks up is that of its field, and its answer, once it
is there, is the entry of that key, by `AnswersShared` of the cache. For the paths,
`PathInv` adds that each word of a `Field` is of a path with its tag, or not there yet
(`FieldInv`), and that a bind past the test of `errors.go:182` has written the length
or seen it written (`ReadInv`).

`Computations_proofs`, on numbers: `IntegersStayExact` and `RangesAreIntervals`, for every width of the
types and every rounding of which `RoundingAssumption` holds: it keeps the order, it
leaves alone what it has rounded, zero, one and the smallest int64, and it rounds the
largest integers up. That is all of IEEE 754 that the code relies on. The argument for
integers is that a float64 below the *rounded* end of a type is below the end, since
otherwise it would round to itself and be no smaller than the rounded end
(`FloatBelow`); for ranges that two numbers keep their order unless they share a
float64 (`RoundingKeepsOrder`). `NumberInv` says that an answer is what the code
computes for the job, so the properties are facts about the operators.
Since Go leaves it to the platform what becomes of a float64 that does not fit an
int64, the model has the value of amd64 there; no such value gets that far.

On texts: `TextsGetTheirMeaning` (`ExpansionIsTheMeaning`) and
`StrictRefusesNothingElse` (`StrictOnlyRefuses`), for texts of any length, fallbacks
of any depth and any environment of texts. The second is by induction on the length
of a text: a round of the loop takes at least one symbol and writes something, or
resolves a body that is shorter than the text (`RoundsTake`, `BodiesResolve`); so
strict and lenient go the same way up to a name that is unset, and a value given to
that name is where the strict one stopped (`FineText`). The first is by induction
over a text and its fallbacks, and its middle is the depth count of `closingBrace`:
whatever is written in a fallback leaves the depth as it was (`Passes`, from
`DollarPasses`, `EscapePasses`, `ReferencePasses`), so that the brace that is found is
the one that was written for it (`BraceFound`), the first `:-` is the one behind the
name (`CutFound`), and a name ends where it was written to end (`NameFound`, which
needs `WellWritten`). Then a round takes what was written for an item and gives what
it means (`ItemsExpand`).

On options: `OptionsSet` (`OptionsAreSettings`), for lists of any length. A Reader in
the making is seen as its settings (`View`), those that its binder will get among them;
an option changes one of these and is a function of it alone (`ApplyIsWith`), so two
options of different settings commute, and the last of one setting counts.

On errors: `ErrorsStayReachable` (`ErrorsLeadBack`), for chains of any depth and any
number of levels. `ErrorInv` says of the error at a level that it reaches what the
first one reaches, is an `*Error` where it has to be, and has the path of the nearest
level that gave one (`Carries`). What `SetField` writes, deep in a chain, `FieldOf`
finds, and no leaf is lost by it (`ErrorTakes`, by induction over the errors an error
wraps).

`Iteration_proofs` is about a loop with any body: it has the values of its rounds
(`RunOfRounds`), and what holds at its start and is kept by each round holds at its
end (`LoopInvariant`). Each proof about a loop instantiates it with the body.

`Reader_proofs`, for any loaders, registrars, sources, contents, extra decoders,
prefixes and parsing libraries, from `LoadsAssumption`, `ParsedAssumption` (an
application's decoder returns something, and a library the same for the same content)
and `StagesAssumption` (a nil normalises to
no object, an empty tree is expanded to itself; the .cfg of the `Reader` runs makes
these the operators of `Documents`, and TLC evaluates the assumption):
`FormatsMeanOneDecoder`, `NarrowedLoadsHaveValues`, `SectionsAreUnambiguous`. The
invariant `Inv` says where a load is in its pipeline (`Shape`, `HasSource`), that the
registry only holds decoders and never gives one up (`HoldsDecoders`, `Grows`), that
a decoder found there is still what is held for the format, and one found among the
extra ones is the last that fits (`DecoderInv`), and that a tree which is not empty
comes from a content with a value, as does every one that got through a section
(`ValueInv`). That the section is the only node goes by induction on the path: level
by level, the set of nodes the keys lead to has one element, the one `section` took.

`TypesAreKept` (`TreesHaveTypes`), `ReferencesAreExpanded` (`NoReferenceIsBound`) and
`StrictRefusesWhatIsUnset` (`StrictSeesTheWholeDocument`) are about trees of any
depth, any chain of expanders and any struct. `ReaderInv` adds to `Inv` that the tree
of a load past its decoder is canonical, that past the expanders its references are
only what an environment or an escape has put there, and that the target is a value
of its type (`HasTree`, `HasTarget`). That normalisation makes canonical trees,
expansion keeps them so and leaves no reference, and strict expansion refuses a tree
with a variable unset anywhere goes node by node (`ExpandOnce` and the lemmas before
it), then expander by expander: the first replaces all there is, and what it put
there is of the environment, which later ones may only replace by more of it. Besides
the assumptions of `Loads`, these rest on `ReferenceAssumption` (a fallback is not
inside itself), `ExpandersAssumption`, `JSONAssumption` (what `encoding/json` returns
needs no normalisation; `JSONDecoder` does none), `NodesOfTrees` (the canonical nodes
that reach the binder are nodes of `BindTypes`), all of which TLC evaluates, and on
`Recursion` and `HandlersKeepTypes` below.

**Recursion and induction in these proofs.** Values, texts with references and errors
are finite but of no bounded depth. A set of them is *founded* (`Founded`,
`FoundedTexts`, `FoundedErrors`) if it holds the parts of each and has no proper
subset with every member whose parts it has; a value, a term, a chain is a member of
such a set (`IsValue`, `IsTerm`, `IsChain`). This is what "finite" is good for in an
induction, and it can be stated without an operator as a parameter, which TLAPS cannot
instantiate. The theorems say by name what they assume of the `Inner` constants:

| Assumption | Says | Why |
|---|---|---|
| `DocumentsRecur`, `ScannerRecurs`, `TermsRecur`, `ChainsRecur` | the `Inner` operators are the operators, on values, texts, terms and chains | the .cfg of the runs makes them so; they exist since these are finite |
| `DocumentsAreValues`, `TermsAreTexts`, `FailuresAreChains` | what the libraries return, the texts that are written and the errors of a load are finite and have the shapes the modules name | the parsing libraries return trees; `IsItem` is what can be written so that it can be read; a Go error that wraps itself is none `errors.Is` ends on |
| `Composed` | the parameters of `Loads` are the operators of `Reader` | the .cfg of the `Reader` runs says so |
| `NilIsNoOption` | an option of the `With` functions is not nil | `Nil` is a value apart |

`SymbolAssumption`, `OptionsAssumption` and `FailuresAssumption`, which TLC evaluates,
say what symbols, options and failures are. The theorems of `Computations_proofs` are
about the behaviours of one of the modules that `Computations` composes (`NumberSpec`,
`ReferenceSpec`, `OptionSpec`, `ErrorSpec`); a behaviour of `Computations` is one of
these or parses a tag.

`StructBinder_proofs` and `Validation_proofs` are about binds of any structs, from
any documents and environments, and reloads in any order. Their induction is over the
types (`TypeInduction`: a set that has each type whose inner types it has, has all),
and inside it over the loops. They assume `TypesAssumption`, `FieldsAssumption`,
`HooksAssumption`, `KeysAssumption`, `NodesAssumption` and `InputsAssumption` of `StructBinder`, which
are what Go's type system and a parsed document give, and the following by name:

| Assumption | Says | Why |
|---|---|---|
| `Recursion` | the `Inner` operators are the operators | see 2 |
| `HandlersKeepTypes` | a handler leaves a value of the type it was given | it gets a `reflect.Value`, and Go checks the type of what it sets |
| `HandlersOnWholes` | handlers are on fields that a source sets as a whole (or pointers to one) | on a section, which is filled in place, a handler may count its calls, and then no reload is idle |
| `EnvKeysAreTheirOwn` | no other field, of the struct or of one embedded in it, reads the key of a field with `env=` | two fields may read one key, and only the one with `env=` stops reading it |
| `HandlersOffRules` | a handler is on no field with a `Validate` inside it | it runs after the `Validate` (`tag.go:543`, section 6) |
| `RuledRecurs`, `FilledRecurs` | the operators that list the structs with a `Validate` inside a value recur through its types | the .cfg makes them so |

Each theorem names those it needs, and the instance of `binder` satisfies them all.

- `TypeCorrect`. The invariant is `Bindable`: the struct, the document and the
  environment belong together, and the struct is a value of its type. Every function
  of the converter and the binder keeps the type of what it is given (`AllKeep`), also
  when it fails half way.
- `FailuresStop`, `ListsStayWhole`, `OptionalSectionsAreOptional`: from `Bindable` and
  the rounds of the field loop, each of which changes one field.
- `PrecedenceHolds` and `TagsAreObeyed`: every leaf of a section at any depth is a
  `GoodLeaf` after a bind without an error.
- `ReloadsAreIdle`: `Bindable` does not say where a struct came from. `Reloadable` adds
  that a struct that was bound from what is there now holds what `bindStruct` made of
  *some* value of its type. So it is enough that `bindStruct` gives the same answer on
  the value it left (`Settles`, by induction over the types), which rests on
  conversions that do not depend on what was there (`FreshAssigned`, `FreshSplit`).
- `EnvironmentHidesFile`: a struct that does not look for a key (`IsBlind`) is filled
  alike with and without it.
- `BoundAreValidated` and `ValidatedWhenComplete`: a bind without an error
  `ValidatesAs` it should, by induction over the types: its log has the calls that are
  due to what it filled, each after those due inside it (`Covers`), and, where no
  handler interferes, every call in it saw what the bind leaves.
  `BoundAreValidated` has no assumption about which structs have a `Validate`, what
  the documents hold or where handlers are. What it does not cover is in the property:
  `Filled` stops at the cases in which the code does not call `Validate`.

Only model-checked:
- liveness under fairness;
- `TagIsTheOptions`, `SplitIsAtTopLevel` and `RegisteredOptionsAreReadBack`, which are
  about the parser of tags: `TagText` has RECURSIVE operators, and the properties
  compare it with a segmentation of the text of a different form.

## 6. Where the code and its documents disagree

Each of these is a violated property of a run of its own.

- `OwnPath` (`errors.go:183`). `fieldError` fills in the `Field` of the error it is
  given. The error of a malformed tag is the one in the tag cache, so later binds
  that meet the tag report the path of the first one (`errors.go:93`, `tag.go:197`).
- `NoTornField` (`errors.go:183`). That write has no lock, and a Reader is documented
  as safe for concurrent use (`reader.go:18`).
- `NewRegistryHoldsGiven` (`decoder_registry.go:60`). A decoder that claims a key of
  an earlier argument is left out of the registry without an error, against
  "exactly the given decoders" (`decoder_registry.go:55`).
- `NullCountsAsAbsent` (`binder.go:251`). `{"port": null, "Port": 7}` is refused as a
  duplicate key.
- `ElementsGetDefaults` (`README.md:297`). A null item of a list of structs stays a
  zero struct, without defaults and without `Validate`.

More is in the models and in no run of its own. Where a document says the contrary, the
property about it names the exception:

- A nil `map[string]any` of a decoder of the application becomes an empty section,
  because it is rebuilt before it is compared with nil (`normalize.go:53`, against
  `:106`).
- A struct that implements `json.Unmarshaler` is never validated (`converter.go:185`),
  nor is the zero struct that a null item leaves in a list (`converter.go:59`), against
  `validator.go:17`, "Validate is called for every struct implementing it while that
  struct is being filled". `BoundStructsAreValidated` is what is true of that sentence,
  of the structs the binder fills, and the instance of `binder` has both exceptions: a
  section with a `Validate` that reads itself, and a null among items with a `Validate`.
- A handler that is given a nested struct may change it after its `Validate`
  (`tag.go:543`).
- Quotes do not protect a `|` inside `options=`: they are gone when the list is split
  (`tag.go:453`), so that it needs a backslash, which is itself written `\\` within the
  quotes. `README.md:215` says that quoting protects a separator, of the comma.
- A blank at the end of a quoted value is trimmed with the segment (`tag.go:614`).
- `tag.go:33` says that `tagOptionForbidden` lists the characters the tag grammar gives a
  meaning to, and `README.md:267` that names which could not be read back are refused.
  The backslash is not in the list, and white space other than the blank and the tab is
  not either. A name with a backslash is taken, and found only where the tag escapes it;
  one that begins or ends with a newline is taken and never found, as the tag is trimmed.
  `RegisteredOptionsAreReadBack` is about what is left of the sentence: all other names
  are found, those with a backslash where it is escaped.
- The decoders of readin take blank content for an empty document. An application's
  decoder is only asked to (`decoder.go:21`), and the models do not count on it.
- `${:-x}`, a reference without a name, is the empty text. A literal `}` in a fallback
  ends it.
- A `+7` is read by `ParseUint` as no integer and reaches an unsigned field through
  float64, rounded; `-0` is refused by it.
- The range of an integer beyond 2^53 is checked on its float64 (`tag.go:594`), and
  that of a float32 on the value after it was rounded. NaN is inside every range.
- A JSON document `null` is refused, and a YAML one is an empty configuration.

## 7. Not modelled

- Durations, times and byte sequences (`converter.go`), what `splitList` cuts a text into
  (a table of the instance, `ItemsIn`), and times and
  floats in normalisation: formats of the standard library, on which nothing in
  readin depends but whether they are taken.
- Two keys of a `map[any]any` that are written the same (`normalize.go:137`): which
  one counts is left to the order of a map, and no document says more.
- The parsing libraries; the wording of errors and of ranges (`Error.Error`,
  `kindOf`, `stripPrefix`, `String`); the names of sources.
- The zero `Reader`, which every entry point refuses, and the `Must` variants, which
  panic with the error. `doc.go` holds no code.
- One expansion over several steps: the expander calls `os.LookupEnv` for each
  reference, and a change of the environment in between gives a mixture, as two
  calls of `os.Getenv` in any program do.

- Types that contain themselves (section 2).

What proofs would still add: the parser of tags, one symbol at a time, as
`References` has the scanner of references; and `NoTornField` and `OwnPath` of a
variant of `BindErrors` in which `fieldError` copies the error, as the ground of a
repair.
