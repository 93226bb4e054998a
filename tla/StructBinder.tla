---------------------------- MODULE StructBinder ----------------------------
(***************************************************************************)
(* A program that binds its configuration structs again and again: how     *)
(* Bind fills a struct from a config tree and the environment, and what is *)
(* left in the struct when it fails.                                       *)
(*                                                                         *)
(* A bind is one sequential walk, so it is one step here, the bindStruct   *)
(* of BindLevel.  Between two binds the document and the environment may   *)
(* change (Configure).                                                     *)
(***************************************************************************)
EXTENDS BindTypes

CONSTANTS
    Schema,   \* the names of the structs a program may configure
    TypeOf,   \* TypeOf[s]: the type of struct s
    Trees,    \* Trees[s]: the config trees it is bound from
    Envs,     \* Envs[s]: the environments, functions from variables to texts
    InnerLeaves(_,_,_,_), InnerRuled(_,_,_), InnerFilled(_,_,_,_,_), InnerFilledStruct(_,_,_,_,_)   \* see ConfigValues

ASSUME InputsAssumption ==
    \A s \in Schema :
      /\ TypeOf[s] \in Types /\ TypeOf[s].kind = "struct"
      /\ \A tree \in Trees[s] : \A k \in DOMAIN tree : tree[k] \in Node
      /\ \A env \in Envs[s] : \A x \in DOMAIN env : env[x] \in STRING

VARIABLES
    schema,   \* which struct the program has
    tree,     \* the document as it is now
    env,      \* the environment as it is now
    target,   \* the struct
    outcome,  \* the error and the Validate calls of the last bind
    bound     \* whether the last bind saw this document and environment

vars == <<schema, tree, env, target, outcome, bound>>

Root == TypeOf[schema]

-----------------------------------------------------------------------------
Init ==
    /\ schema \in Schema
    /\ tree \in Trees[schema]
    /\ env \in Envs[schema]
    /\ target = Zero(Root)
    /\ outcome = [err |-> NoError, log |-> <<>>]
    /\ bound = FALSE

\* The program binds its struct: a first load, or a reload.
Bind ==
    LET r == bindStruct(tree, Root, target, <<>>, env) IN
    /\ target' = r.val
    /\ outcome' = [err |-> r.err, log |-> r.log]
    /\ bound' = TRUE
    /\ UNCHANGED <<schema, tree, env>>

\* The document or the environment changes before the next one.
Configure ==
    /\ bound
    /\ tree' \in Trees[schema]
    /\ env' \in Envs[schema]
    /\ bound' = FALSE
    /\ UNCHANGED <<schema, target, outcome>>

Next == Bind \/ Configure

Spec == Init /\ [][Next]_vars

-----------------------------------------------------------------------------
(* What must hold *)

\* Whatever is bound in whatever order, the struct stays a value of its type:
\* no number outside the width of its field, no list of another length.
TypeOK ==
    /\ HasType(target, Root)
    /\ bound => outcome.err.kind \in {"none", "ErrInvalidValue", "ErrInvalidTag",
                                     "ErrDuplicateKey", "ErrMissingField"}

Fields == {Root.fields[i] : i \in DOMAIN Root.fields}
Success == bound' /\ outcome'.err = NoError
Failure == bound' /\ outcome'.err # NoError

\* The step leaves what another bind, with result r, would have left.
LeftBy(r) == target' = r.val /\ outcome' = [err |-> r.err, log |-> r.log]

IsScalar(t) == t.kind \in {"string", "int", "bool"}
IsSection(t) == t.kind = "struct" /\ ~Has(t, "hook")

\* The object the section of a field is written as, empty when it is absent.
SectionOf(f, node) ==
    IF Embedded(f) THEN node
    ELSE IF Given(node, Key(f)) THEN ValueOf(node, Key(f)).object
    ELSE EmptyTree

\* The leaves of a bound struct: the scalar fields in it and in the sections
\* inside it, each with the object it was bound from, and its value before and
\* after.  A handler of the application may do to a section as it likes.
LeavesOf(f, node, before, after) ==
    IF Skipped(f) \/ (Has(f.tag, "custom") /\ ~IsScalar(f.type)) THEN {}
    ELSE IF IsScalar(f.type) THEN {[field |-> f, node |-> node, was |-> before, now |-> after]}
    ELSE IF IsSection(f.type) THEN InnerLeaves(f.type, SectionOf(f, node), before, after)
    ELSE IF /\ f.type.kind = "pointer" /\ IsSection(f.type.elem)
            /\ Embedded(f) \/ Given(node, Key(f))
         THEN InnerLeaves(f.type.elem, SectionOf(f, node), Allocated(f.type, before), after.ref)
    ELSE {}

Leaves(t, node, was, now) ==
    UNION {LeavesOf(t.fields[i], node, was.struct[t.fields[i].name], now.struct[t.fields[i].name]) :
             i \in DOMAIN t.fields}

\* The node the precedence of the README (:280) selects for a leaf, if any.
Chosen(leaf, variables) ==
    LET tag == leaf.field.tag
        fromEnv == InEnv(tag, variables)
    IN CASE fromEnv # {} -> {Text(s) : s \in fromEnv}
         [] fromEnv = {} /\ Given(leaf.node, Key(leaf.field)) -> {ValueOf(leaf.node, Key(leaf.field))}
         [] OTHER -> IF Has(tag, "default") THEN {Text(tag.default)} ELSE {}

Plain(leaf) == ~Has(leaf.field.type, "hook") /\ ~Has(leaf.field.tag, "custom")

FollowsPrecedence(leaf, variables) ==
    IF Chosen(leaf, variables) = {}
    THEN ~Has(leaf.field.tag, "required") /\ leaf.now = leaf.was
    ELSE Plain(leaf) => leaf.now \in UNION {Scalar(leaf.field.type, c) : c \in Chosen(leaf, variables)}

ObeysTag(leaf, variables) ==
    LET tag == leaf.field.tag IN
    Chosen(leaf, variables) # {} /\ ~Has(tag, "custom") =>
      /\ Has(tag, "options") => TextIn(leaf.now) # {} /\ TextIn(leaf.now) \subseteq tag.options
      /\ Has(tag, "range") /\ ~Has(tag, "options") => leaf.now.int \in tag.range

\* "env= > the config file > default= > the zero value" (README.md:280), for the
\* fields of every section, absent and null sections included: a load that
\* succeeds gives each scalar the value that comes first, leaves one without a
\* value as it was, and never does without a value that is required.
Precedence ==
    [][Success => \A leaf \in Leaves(Root, tree, target, target') : FollowsPrecedence(leaf, env)]_vars

\* A value taken from the document, the environment or a default that its
\* options= or range= excludes never comes out of a load that succeeds, one
\* that read itself (tag.go:566 looks at its kind) included.
TakenValuesObeyTags ==
    [][Success => \A leaf \in Leaves(Root, tree, target, target') : ObeysTag(leaf, env)]_vars

\* What the environment provides hides what the document says, however wrong
\* that is: a node of another shape, a value its tag excludes, two keys that
\* clash.
EnvHidesFile ==
    [][bound' => \A f \in Fields : InEnv(f.tag, env) # {} =>
         LET rest == [k \in DOMAIN tree \ Matches(tree, Key(f)) |-> tree[k]]
         IN LeftBy(bindStruct(rest, Root, target, <<>>, env))]_vars

\* A load that fails has made of each field before the one it names what binding
\* that field alone would, has stopped there, and has not touched the ones after
\* it; or it has filled them all and its Validate said no.
FailureIsAPrefix ==
    [][Failure =>
        LET n == Len(Root.fields)
            was(i) == target.struct[Root.fields[i].name]
            now(i) == target'.struct[Root.fields[i].name]
            alone(i) == bindOne(Root.fields[i], was(i), tree, <<>>, env)
        IN \E last \in 0..n :
             /\ \A i \in 1..last : alone(i).err = NoError /\ now(i) = alone(i).val
             /\ last < n => alone(last + 1).err = outcome'.err /\ now(last + 1) = alone(last + 1).val
             /\ last = n => Has(Root, "rule") /\ ~Accepts(Root.rule, target')
             /\ \A i \in (last + 2)..n : now(i) = was(i)]_vars

\* Loading the same document into the same struct again changes nothing, and
\* gives the same answer, also after a load that failed half way.
ReloadChangesNothing ==
    [][bound /\ bound' => target' = target /\ outcome' = outcome]_vars

\* "an optional sub-config really stays absent" (binder.go:247): a pointer to a
\* section is set by a document that has the section, and by nothing else.
OptionalSectionsStayAbsent ==
    [][\A f \in Fields :
         f.type.kind = "pointer" /\ ~Skipped(f) /\ ~Embedded(f) /\ DOMAIN f.tag \subseteq {"name"} =>
         LET was == target.struct[f.name]
             now == target'.struct[f.name]
         IN /\ was = Nil /\ ~Given(tree, Key(f)) => now = Nil
            /\ Success /\ Given(tree, Key(f)) => now # Nil]_vars

\* A slice or a map is replaced as a whole by what the document says, or kept:
\* a reload does not accumulate (converter.go:219) and an item that is refused
\* leaves no half of a list behind.
ListsAreReplacedWhole ==
    [][bound' => \A f \in Fields : f.type.kind \in {"slice", "map"} /\ ~Skipped(f) =>
         LET from == Source(f, tree, env)
             fresh == bindOne(f, Nil, tree, <<>>, env)
             now == target'.struct[f.name]
         IN /\ \/ now = target.struct[f.name]
               \/ /\ from \in {"env", "file", "default"}
                  /\ Taken(f, from, Nil, tree, <<Key(f)>>, env).err = NoError
                  /\ now = fresh.val
            /\ Success /\ from # "none" => now = fresh.val]_vars

\* The structs with a Validate method inside a value, with where they are.
Ruled(t, v, path) ==
    CASE v = Nil -> {}
      [] t.kind = "pointer" /\ v # Nil -> InnerRuled(t.elem, v.ref, path)
      [] t.kind = "slice" /\ v # Nil ->
           UNION {InnerRuled(t.elem, v.slice[i], Append(path, ToString(i - 1))) : i \in DOMAIN v.slice}
      [] t.kind = "array" ->
           UNION {InnerRuled(t.elem, v.array[i], Append(path, ToString(i - 1))) : i \in DOMAIN v.array}
      [] t.kind = "map" /\ v # Nil ->
           UNION {InnerRuled(t.elem, v.map[k], Append(path, k)) : k \in DOMAIN v.map}
      [] t.kind = "struct" ->
           (IF Has(t, "rule") THEN {[path |-> path, rule |-> t.rule, seen |-> v]} ELSE {})
           \cup UNION {LET f == t.fields[i] IN
                       IF Skipped(f) THEN {}
                       ELSE InnerRuled(f.type, v.struct[f.name], IF Embedded(f) THEN path ELSE Append(path, Key(f))) :
                         i \in DOMAIN t.fields}
      [] OTHER -> {}

\* What a load has logged of the calls of Validate.
Logged == {outcome'.log[i] : i \in DOMAIN outcome'.log}

\* "nested structs are validated as soon as they are complete" (validator.go:18):
\* what a Validate saw is what the load leaves there.  None ran on a struct that
\* was filled further afterwards, or on a value that the load has not kept.
ValidateSeesCompleteStructs == [][Success => Logged \subseteq Ruled(Root, target', <<>>)]_vars

\* The structs with a Validate that a load has filled, each with the call of it
\* that is due and those due to the structs filled inside it.  A struct is
\* filled by the section the document has for it, or without one by its own
\* defaults.  A struct that reads its section itself is not filled, nor is an
\* item that is null; a handler of the application may do to a section as it
\* likes.
FilledField(f, v, node, path, variables) ==
    LET here == Append(path, Key(f))
        from == Source(f, node, variables)
    IN CASE Skipped(f) -> {}
         [] ~Skipped(f) /\ Embedded(f) ->
              IF f.type.kind = "pointer" THEN InnerFilledStruct(f.type.elem, v.ref, node, path, variables)
              ELSE InnerFilledStruct(f.type, v, node, path, variables)
         [] ~Skipped(f) /\ ~Embedded(f) /\ from = "file" /\ ~Has(f.tag, "custom") ->
              InnerFilled(f.type, v, ValueOf(node, Key(f)), here, variables)
         [] ~Skipped(f) /\ ~Embedded(f) /\ from = "none" /\ f.type.kind = "struct" /\ isBindableStruct(f.type) ->
              InnerFilledStruct(f.type, v, EmptyTree, here, variables)
         [] OTHER -> {}

FilledStruct(t, v, node, path, variables) ==
    LET inside == UNION {FilledField(t.fields[i], v.struct[t.fields[i].name], node, path, variables) :
                           i \in DOMAIN t.fields}
    IN inside \cup IF ~Has(t, "rule") THEN {}
                   ELSE {[call |-> [path |-> path, rule |-> t.rule, seen |-> v],
                          inside |-> {s.call : s \in inside}]}

Filled(t, v, src, path, variables) ==
    IF src = Null \/ Has(t, "hook") THEN {}
    ELSE CASE t.kind = "pointer" -> InnerFilled(t.elem, v.ref, src, path, variables)
           [] t.kind = "slice" /\ Is(src, "array") ->
                UNION {InnerFilled(t.elem, v.slice[i], src.array[i], Append(path, ToString(i - 1)), variables) :
                         i \in DOMAIN src.array}
           [] t.kind = "array" /\ Is(src, "array") ->
                UNION {InnerFilled(t.elem, v.array[i], src.array[i], Append(path, ToString(i - 1)), variables) :
                         i \in DOMAIN src.array}
           [] t.kind = "map" /\ Is(src, "object") ->
                UNION {InnerFilled(t.elem, v.map[k], src.object[k], Append(path, k), variables) :
                         k \in DOMAIN src.object}
           [] t.kind = "struct" /\ Is(src, "object") -> FilledStruct(t, v, src.object, path, variables)
           [] OTHER -> {}

\* The log has a call that is due, after those that are due inside it.
CalledInTurn(s, log) ==
    \E i \in DOMAIN log : log[i] = s.call /\ \A c \in s.inside : \E j \in 1..(i - 1) : log[j] = c

\* What binder.go:220 does of validator.go:17, "Validate is called for every
\* struct implementing it while that struct is being filled: nested structs are
\* validated as soon as they are complete": a load that succeeds has called the
\* Validate of every struct it filled, embedded ones and those without a
\* section too, on what it leaves there, and after those of the structs filled
\* inside it.  It is less than validator.go:17 says: a struct that reads its own
\* JSON (converter.go:185) and a null item (converter.go:59) are left out, as
\* the code does not call their Validate, and a section that a handler was given
\* is, as it may be another one afterwards (tag.go:543).
BoundStructsAreValidated ==
    [][Success => \A s \in FilledStruct(Root, target', tree, <<>>, env) : CalledInTurn(s, outcome'.log)]_vars

\* "every element gets its own defaults" (README.md:297): no field with a
\* default is left at its zero value in an element of a list of structs.
ElementsGetDefaults ==
    [][Success => \A f \in Fields : f.type.kind = "slice" /\ f.type.elem.kind = "struct" =>
         LET now == target'.struct[f.name] IN
         now # Nil => \A i \in DOMAIN now.slice : \A j \in DOMAIN f.type.elem.fields :
           LET g == f.type.elem.fields[j] IN
           Has(g.tag, "default") => now.slice[i].struct[g.name] # Zero(g.type)]_vars

\* "An explicit null in the config file counts as absent, exactly as if the key
\* were not written" (binder.go:251).
NullCountsAsAbsent ==
    [][bound' =>
        LET written == [k \in {j \in DOMAIN tree : tree[j] # Null} |-> tree[k]]
        IN LeftBy(bindStruct(written, Root, target, <<>>, env))]_vars
=============================================================================
