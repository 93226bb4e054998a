----------------------------- MODULE BindLevel -----------------------------
(***************************************************************************)
(* StructBinder and its converter: what bindStruct, assign and assignString*)
(* make of a value of one type, given what they make of the values of the  *)
(* types inside it (see ConfigValues).  The operators bear the names of    *)
(* the Go functions; each takes the value that is there ("old") and        *)
(* returns a Result: the value it leaves, the error that stopped it, and   *)
(* the Validate calls it made.  The environment comes last.                *)
(*                                                                         *)
(* Every tag is well formed: BindErrors models the ones that are not.      *)
(***************************************************************************)
EXTENDS ConfigValues

CONSTANTS InnerAssign(_,_,_,_,_), InnerAssignString(_,_,_,_,_), InnerBindStruct(_,_,_,_,_), InnerRunCustom(_,_,_)

NoError == [kind |-> "none", path |-> <<>>]
Ok(v) == [val |-> v, err |-> NoError, log |-> <<>>]
Fail(v, kind, path) == [val |-> v, err |-> [kind |-> kind, path |-> path], log |-> <<>>]

\* r after one of its parts was filled, and the whole became v.
Put(r, part, v) == [val |-> v, err |-> part.err, log |-> r.log \o part.log]

(* fieldTag.apply *)

\* The text of a value of a string kind, which may have read itself.
TextIn(v) == IF Is(v, "str") THEN {v.str} ELSE IF Is(v, "parsed") THEN {v.parsed} ELSE {}

\* Wrong: the range of a value is not looked at.
checkOptionsOnly(tag, v, path) ==
    LET got == Behind(v) IN
    IF got = Nil \/ ~Has(tag, "options") \/ (TextIn(got) # {} /\ TextIn(got) \subseteq tag.options) THEN Ok(v)
    ELSE Fail(v, "ErrInvalidValue", path)

\* options= shadows range=; a nil pointer has no value to check.
check(tag, v, path) ==
    LET got == Behind(v) IN
    CASE got = Nil \/ DOMAIN tag \cap {"options", "range"} = {} -> Ok(v)
      [] got # Nil /\ Has(tag, "options") ->
           IF TextIn(got) = {} THEN Fail(v, "ErrInvalidTag", path)
           ELSE IF TextIn(got) \subseteq tag.options THEN Ok(v) ELSE Fail(v, "ErrInvalidValue", path)
      [] got # Nil /\ Has(tag, "range") /\ ~Has(tag, "options") ->
           IF ~Is(got, "int") THEN Fail(v, "ErrInvalidTag", path)
           ELSE IF got.int \in tag.range THEN Ok(v) ELSE Fail(v, "ErrInvalidValue", path)

\* The handlers, in the order of the tag; the first that refuses ends it.
NextHandler(given, acc, i) ==
    IF acc.err # NoError THEN acc
    ELSE LET made == Handled(given.handlers[i], acc.val) IN
         IF made = {} THEN Fail(acc.val, "ErrInvalidValue", given.path) ELSE Ok(CHOOSE w \in made : TRUE)
HandlerLoop == INSTANCE Iteration WITH Round <- NextHandler

\* They work on the value behind the pointers.
runCustom(tag, v, path) ==
    IF v = Nil \/ ~Has(tag, "custom") THEN Ok(v)
    ELSE IF Is(v, "ref") THEN LET r == InnerRunCustom(tag, v.ref, path) IN [r EXCEPT !.val = [ref |-> @]]
    ELSE HandlerLoop!After([handlers |-> tag.custom, path |-> path], Ok(v), Len(tag.custom))

\* What bindField does with a field that got a value.
apply(tag, r, path) ==
    LET checked == check(tag, r.val, path)
        custom == runCustom(tag, r.val, path)
    IN CASE r.err # NoError -> r
         [] r.err = NoError /\ checked.err # NoError -> Put(r, checked, r.val)
         [] OTHER -> Put(r, custom, custom.val)

(* StructBinder *)

Key(f) == IF Has(f.tag, "name") THEN f.tag.name ELSE f.name

\* A variable that is set to "" provides nothing.
InEnv(tag, env) == IF Has(tag, "env") /\ tag.env \in DOMAIN env THEN {env[tag.env]} \ {""} ELSE {}

\* Wrong: the file wins over the environment.
SourceFileFirst(f, node, env) ==
    IF Ambiguous(node, Key(f)) THEN "clash"
    ELSE IF Given(node, Key(f)) THEN "file"
    ELSE IF InEnv(f.tag, env) # {} THEN "env"
    ELSE IF Has(f.tag, "default") THEN "default"
    ELSE IF Has(f.tag, "required") THEN "missing"
    ELSE "none"

\* Wrong: the key is looked up before the environment is.
SourceClashFirst(f, node, env) ==
    IF Ambiguous(node, Key(f)) THEN "clash"
    ELSE IF InEnv(f.tag, env) # {} THEN "env"
    ELSE IF Given(node, Key(f)) THEN "file"
    ELSE IF Has(f.tag, "default") THEN "default"
    ELSE IF Has(f.tag, "required") THEN "missing"
    ELSE "none"

\* Where the value of a field comes from.
Source(f, node, env) ==
    IF InEnv(f.tag, env) # {} THEN "env"
    ELSE IF Ambiguous(node, Key(f)) THEN "clash"
    ELSE IF Given(node, Key(f)) THEN "file"
    ELSE IF Has(f.tag, "default") THEN "default"
    ELSE IF Has(f.tag, "required") THEN "missing"
    ELSE "none"

\* A pointer is set before what it points to is filled.
Allocated(t, old) == IF old = Nil THEN Zero(t.elem) ELSE old.ref
Pointing(r) == [r EXCEPT !.val = [ref |-> @]]

\* Wrong: allocates an optional section to read its defaults.
bindNestedAllocating(t, old, path, env) ==
    IF ~isBindableStruct(t) THEN Ok(old)
    ELSE IF t.kind = "pointer"
    THEN Pointing(InnerBindStruct(EmptyTree, t.elem, Allocated(t, old), path, env))
    ELSE InnerBindStruct(EmptyTree, t, old, path, env)

\* A section the file does not mention still gets its own defaults, unless it
\* is behind a pointer.
bindNested(t, old, path, env) ==
    IF t.kind = "pointer" \/ ~isBindableStruct(t) THEN Ok(old)
    ELSE InnerBindStruct(EmptyTree, t, old, path, env)

\* The value a source provides, as it is converted.
Taken(f, from, old, node, path, env) ==
    CASE from = "env" -> InnerAssignString(f.type, old, env[f.tag.env], path, env)
      [] from = "file" -> InnerAssign(f.type, old, ValueOf(node, Key(f)), path, env)
      [] from = "default" -> InnerAssignString(f.type, old, f.tag.default, path, env)

bindField(f, old, node, parent, env) ==
    LET path == Append(parent, Key(f))
        from == Source(f, node, env)
    IN CASE from \in {"env", "file", "default"} -> apply(f.tag, Taken(f, from, old, node, path, env), path)
         [] from = "clash" -> Fail(old, "ErrDuplicateKey", path)
         [] from = "missing" -> Fail(old, "ErrMissingField", path)
         [] from = "none" -> bindNested(f.type, old, path, env)

\* An embedded struct is filled from the level it is embedded in.
bindEmbedded(t, old, node, path, env) ==
    IF t.kind # "pointer" THEN InnerBindStruct(node, t, old, path, env)
    ELSE Pointing(InnerBindStruct(node, t.elem, Allocated(t, old), path, env))

Skipped(f) == Has(f, "unexported") \/ Key(f) = "-"
Embedded(f) == Has(f, "embedded") /\ ~Has(f.tag, "name") /\ isBindableStruct(f.type)

bindOne(f, old, node, path, env) ==
    IF Skipped(f) THEN Ok(old)
    ELSE IF Embedded(f) THEN bindEmbedded(f.type, old, node, path, env)
    ELSE bindField(f, old, node, path, env)

\* Wrong: the fields after one that failed are filled as well.
NextFieldToTheEnd(given, acc, i) ==
    LET f == given.fields[i]
        part == bindOne(f, acc.val.struct[f.name], given.node, given.path, given.env)
        done == Put(acc, part, [acc.val EXCEPT !.struct[f.name] = part.val])
    IN IF acc.err = NoError THEN done ELSE [done EXCEPT !.err = acc.err]

\* One field after another; an error ends it.
NextField(given, acc, i) ==
    IF acc.err # NoError THEN acc
    ELSE LET f == given.fields[i]
             part == bindOne(f, acc.val.struct[f.name], given.node, given.path, given.env)
         IN Put(acc, part, [acc.val EXCEPT !.struct[f.name] = part.val])
FieldLoop == INSTANCE Iteration WITH Round <- NextField

bindFields(start, t, node, path, env) ==
    FieldLoop!After([fields |-> t.fields, node |-> node, path |-> path, env |-> env], start, Len(t.fields))

\* Wrong: the sections inside a struct are not validated.
validateRootOnly(t, r, path) ==
    IF ~Has(t, "rule") \/ path # <<>> THEN r
    ELSE [r EXCEPT !.log = Append(@, [path |-> path, rule |-> t.rule, seen |-> r.val]),
                   !.err = IF Accepts(t.rule, r.val) THEN NoError
                           ELSE [kind |-> "ErrInvalidValue", path |-> path]]

\* Validate runs once every field is filled; the log keeps what it saw.
validate(t, r, path) ==
    IF ~Has(t, "rule") THEN r
    ELSE [r EXCEPT !.log = Append(@, [path |-> path, rule |-> t.rule, seen |-> r.val]),
                   !.err = IF Accepts(t.rule, r.val) THEN NoError
                           ELSE [kind |-> "ErrInvalidValue", path |-> path]]

\* Wrong: a struct is validated before its fields are filled.
bindStructValidatedFirst(node, t, old, path, env) ==
    bindFields([validate(t, Ok(old), path) EXCEPT !.err = NoError], t, node, path, env)

bindStruct(node, t, old, path, env) ==
    LET r == bindFields(Ok(old), t, node, path, env)
    IN IF r.err = NoError THEN validate(t, r, path) ELSE r

(* converter *)

\* A struct with a hook keeps what it read in a field of its own, "raw".
Unmarshal(t, old, src, path) ==
    IF ~Readable(src) THEN Fail(old, "ErrInvalidValue", path)
    ELSE IF t.kind = "struct" THEN Ok([old EXCEPT !.struct["raw"] = [any |-> src]])
    ELSE Ok([parsed |-> src.text])

assignScalar(t, old, src, path) ==
    IF Scalar(t, src) = {} THEN Fail(old, "ErrInvalidValue", path)
    ELSE Ok(CHOOSE v \in Scalar(t, src) : TRUE)

assignPointer(t, old, src, path, env) == Pointing(InnerAssign(t.elem, Allocated(t, old), src, path, env))

\* An interface with methods is refused.
assignInterface(t, old, src, path) ==
    IF Has(t, "methods") THEN Fail(old, "ErrInvalidValue", path) ELSE Ok([any |-> src])

\* The items one after another, each into its place; an error ends it.
NextItem(given, acc, i) ==
    IF acc.err # NoError THEN acc
    ELSE LET part == InnerAssign(given.type, acc.val[i], given.items[i], Append(given.path, ToString(i - 1)), given.env)
         IN Put(acc, part, [acc.val EXCEPT ![i] = part.val])
ItemLoop == INSTANCE Iteration WITH Round <- NextItem

Converted(t, start, items, path, env) ==
    ItemLoop!After([type |-> t.elem, items |-> items, path |-> path, env |-> env], Ok(start), Len(items))

\* Wrong: a slice is appended to.
assignItemsAppending(t, old, items, path, env) ==
    LET inPlace == t.kind = "array"
        before == IF old = Nil THEN <<>> ELSE old.slice
        start == IF inPlace THEN old.array ELSE [i \in DOMAIN items |-> Zero(t.elem)]
        r == Converted(t, start, items, path, env)
    IN IF inPlace /\ Len(items) # t.len THEN Fail(old, "ErrInvalidValue", path)
       ELSE IF inPlace THEN [r EXCEPT !.val = [array |-> @]]
       ELSE [r EXCEPT !.val = IF r.err = NoError THEN [slice |-> before \o @] ELSE old]

\* A slice is made aside and set when it is complete, an array is filled in place.
assignItems(t, old, items, path, env) ==
    LET inPlace == t.kind = "array"
        start == IF inPlace THEN old.array ELSE [i \in DOMAIN items |-> Zero(t.elem)]
        r == Converted(t, start, items, path, env)
    IN IF inPlace /\ Len(items) # t.len THEN Fail(old, "ErrInvalidValue", path)
       ELSE IF inPlace THEN [r EXCEPT !.val = [array |-> @]]
       ELSE [r EXCEPT !.val = IF r.err = NoError THEN [slice |-> @] ELSE old]

assignSlice(t, old, src, path, env) ==
    IF Is(src, "array") THEN assignItems(t, old, src.array, path, env)
    ELSE Fail(old, "ErrInvalidValue", path)

\* The places, in the order of all keys, of those of a tree.
sortedKeys(tree) == {i \in DOMAIN KeyOrder : KeyOrder[i] \in DOMAIN tree}

\* A map with v at key k.
WithEntry(m, k, v) == [j \in DOMAIN m \cup {k} |-> IF j = k THEN v ELSE m[j]]

\* One entry after another, in the order of the keys; an error ends it.
NextEntry(given, acc, i) ==
    IF acc.err # NoError \/ i \notin sortedKeys(given.object) THEN acc
    ELSE LET k == KeyOrder[i]
             part == InnerAssign(given.type, Zero(given.type), given.object[k], Append(given.path, k), given.env)
         IN Put(acc, part, WithEntry(acc.val, k, part.val))
EntryLoop == INSTANCE Iteration WITH Round <- NextEntry

\* A map is made aside too; its keys are taken as they are written.
assignMap(t, old, src, path, env) ==
    IF ~Is(src, "object") THEN Fail(old, "ErrInvalidValue", path)
    ELSE LET r == EntryLoop!After([type |-> t.elem, object |-> src.object, path |-> path, env |-> env],
                                Ok(EmptyTree), Len(KeyOrder))
         IN [r EXCEPT !.val = IF r.err = NoError THEN [map |-> @] ELSE old]

\* A struct that reads JSON is handed the node, whatever it is.
assignStruct(t, old, src, path, env) ==
    IF Hook(t, "json") THEN Unmarshal(t, old, src, path)
    ELSE IF Is(src, "object") /\ isBindableStruct(t) THEN bindStruct(src.object, t, old, path, env)
    ELSE Fail(old, "ErrInvalidValue", path)

\* A node of the config file.
assign(t, old, src, path, env) ==
    IF src = Null THEN Ok(old)
    ELSE IF Is(src, "text") /\ Hook(t, "text") THEN Unmarshal(t, old, src, path)
    ELSE CASE t.kind = "pointer" -> assignPointer(t, old, src, path, env)
           [] t.kind = "any" -> assignInterface(t, old, src, path)
           [] t.kind = "struct" -> assignStruct(t, old, src, path, env)
           [] t.kind = "map" -> assignMap(t, old, src, path, env)
           [] t.kind \in {"slice", "array"} -> assignSlice(t, old, src, path, env)
           [] OTHER -> assignScalar(t, old, src, path)

\* The text of an env= or default= option, which a list is split out of.
assignString(t, old, raw, path, env) ==
    IF Hook(t, "text") THEN Unmarshal(t, old, Text(raw), path)
    ELSE CASE t.kind = "pointer" -> Pointing(InnerAssignString(t.elem, Allocated(t, old), raw, path, env))
           [] t.kind = "any" -> assignInterface(t, old, Text(raw), path)
           [] t.kind \in {"slice", "array"} ->
                LET items == ItemsIn(raw)
                IN assignItems(t, old, [i \in DOMAIN items |-> Text(items[i])], path, env)
           [] t.kind = "struct" -> assignStruct(t, old, Text(raw), path, env)
           [] OTHER -> assignScalar(t, old, Text(raw), path)
=============================================================================
