------------------------ MODULE StructBinder_proofs ------------------------
(***************************************************************************)
(* What holds of every bind, for all structs, documents and environments,  *)
(* by induction on the depth of the types (BindLevel_proofs).              *)
(***************************************************************************)
EXTENDS StructBinder, BindLevel_proofs

-----------------------------------------------------------------------------
(* Every bind *)

\* The struct, its document and the environment belong together, and the
\* struct is a value of its type.
Bindable ==
    /\ schema \in Schema
    /\ tree \in Trees[schema]
    /\ env \in Envs[schema]
    /\ TypeOK

LEMMA BindableState ==
    ASSUME Bindable
    PROVE  /\ Root \in Types /\ Root.kind = "struct" /\ IsTree(tree) /\ IsEnv(env) /\ HasType(target, Root)
BY InputsAssumption DEF Bindable, TypeOK, Root, IsTree, IsEnv, Inputs

LEMMA BindableIsInductive ==
    ASSUME Recursion, HandlersKeepTypes
    PROVE  /\ Init => Bindable
           /\ Bindable /\ [Next]_vars => Bindable'
<1>1. Init => Bindable
  BY ZeroHasType, InputsAssumption DEF Init, Bindable, TypeOK, Root
<1>2. ASSUME Bindable, Bind PROVE Bindable'
  <2> DEFINE r == bindStruct(tree, Root, target, <<>>, env)
  <2>1. IsResult(r, Root)
    BY <1>2, BindableState, AllKeep DEF Keeps
  <2>2. target' = r.val /\ outcome' = [err |-> r.err, log |-> r.log] /\ UNCHANGED <<schema, tree, env>>
    BY <1>2 DEF Bind
  <2> HIDE DEF r
  <2> QED  BY <1>2, <2>1, <2>2 DEF Bindable, TypeOK, IsResult, ErrorKinds, Root
<1>3. ASSUME Bindable, Configure PROVE Bindable'
  BY <1>3 DEF Bindable, TypeOK, Configure, Root
<1>4. ASSUME Bindable, UNCHANGED vars PROVE Bindable'
  BY <1>4 DEF Bindable, TypeOK, vars, Root
<1> QED
  BY <1>1, <1>2, <1>3, <1>4 DEF Next

LEMMA AlwaysBindable ==
    ASSUME Recursion, HandlersKeepTypes
    PROVE  Spec => []Bindable
BY BindableIsInductive, PTL DEF Spec

\* However often the program binds its struct, from whatever documents and
\* environments, and whether its loads fail or not (binder.go:164-218, the
\* conversions of converter.go): each of its fields holds a value of its type,
\* at any depth, and a load answers with one of the errors it may.
THEOREM TypeCorrect ==
    ASSUME Recursion, HandlersKeepTypes
    PROVE  Spec => []TypeOK
<1>1. Bindable => TypeOK
  BY DEF Bindable
<1> QED
  BY <1>1, AlwaysBindable, PTL


-----------------------------------------------------------------------------
(* What a bind has done when it ends *)

Was(i) == target.struct[Root.fields[i].name]
Now(i) == target'.struct[Root.fields[i].name]
AloneNow(i) == Alone(Root, target, tree, <<>>, env, i)

\* The fields up to last are filled, each as if alone; the one behind last
\* stopped the bind, or Validate did.
StoppedAt(last) ==
    /\ \A i \in 1..last : AloneNow(i).err = NoError /\ Now(i) = AloneNow(i).val
    /\ last < Len(Root.fields) => /\ outcome'.err # NoError /\ outcome'.err = AloneNow(last + 1).err
                                  /\ Now(last + 1) = AloneNow(last + 1).val
    /\ last = Len(Root.fields) =>
         (outcome'.err = NoError <=> (Has(Root, "rule") => Accepts(Root.rule, target')))
    /\ \A i \in DOMAIN Root.fields : i > last + 1 => Now(i) = Was(i)

LEMMA BindStops ==
    ASSUME Recursion, HandlersKeepTypes, Bindable, Bind
    PROVE  \E last \in 0..Len(Root.fields) : StoppedAt(last)
<1> DEFINE n == Len(Root.fields)
           r == bindFields(Ok(target), Root, tree, <<>>, env)
           done == bindStruct(tree, Root, target, <<>>, env)
           now(i) == r.val.struct[Root.fields[i].name]
<1>1. /\ Root \in Types /\ Root.kind = "struct" /\ IsTree(tree) /\ IsEnv(env) /\ HasType(target, Root)
      /\ SmallerKeep(Root)
  BY BindableState, AllKeep DEF SmallerKeep
<1>2. n \in Nat /\ DOMAIN Root.fields = 1..n
  BY <1>1, FieldsOfTypes
<1>3. IsResult(r, Root) /\ \E last : Progress(Root, target, tree, <<>>, env, n, r, last)
  BY <1>1, AllFields
<1>4. PICK last : Progress(Root, target, tree, <<>>, env, n, r, last)
  BY <1>3
<1>5. done = IF r.err = NoError THEN validate(Root, r, <<>>) ELSE r
  BY DEF bindStruct
<1>6. target' = done.val /\ outcome'.err = done.err
  BY DEF Bind
<1> HIDE DEF r, done
<1>7. /\ last \in 0..n
      /\ \A i \in 1..last : AloneNow(i).err = NoError /\ now(i) = AloneNow(i).val
      /\ last = n => r.err = NoError
      /\ last < n => /\ r.err # NoError /\ r.err = AloneNow(last + 1).err
                     /\ now(last + 1) = AloneNow(last + 1).val
      /\ \A i \in DOMAIN Root.fields : i > last + 1 \/ (i > last /\ last = n) => now(i) = Was(i)
  BY <1>4 DEF Progress, AloneNow, Was
<1>8. target' = r.val
  BY <1>3, <1>5, <1>6, ValidateKeeps
<1>9. \A i : Now(i) = now(i)
  BY <1>8 DEF Now
<1>10. CASE last < n
  <2>1. outcome'.err = r.err
    BY <1>5, <1>6, <1>7, <1>10
  <2>2. StoppedAt(last)
    BY <1>2, <1>7, <1>9, <1>10, <2>1 DEF StoppedAt
  <2> QED  BY <1>7, <2>2
<1>11. CASE last = n
  <2>1. outcome'.err = validate(Root, r, <<>>).err
    BY <1>5, <1>6, <1>7, <1>11
  <2>2. outcome'.err = NoError <=> (Has(Root, "rule") => Accepts(Root.rule, target'))
    BY <1>3, <1>7, <1>8, <1>11, <2>1, ValidateKeeps
  <2>3. StoppedAt(last)
    BY <1>2, <1>7, <1>9, <1>11, <2>2 DEF StoppedAt
  <2> QED  BY <1>7, <2>3
<1> QED
  BY <1>2, <1>7, <1>10, <1>11

\* Every field was filled as if alone or left as it was; all of them were in a
\* load that succeeds.
LEMMA EachFieldAlone ==
    ASSUME Recursion, HandlersKeepTypes, Bindable, Bind, NEW i \in DOMAIN Root.fields
    PROVE  /\ Now(i) \in {Was(i), AloneNow(i).val}
           /\ outcome'.err = NoError => AloneNow(i).err = NoError /\ Now(i) = AloneNow(i).val
<1>1. PICK last \in 0..Len(Root.fields) : StoppedAt(last)
  BY BindStops
<1>2. Len(Root.fields) \in Nat /\ DOMAIN Root.fields = 1..Len(Root.fields)
  BY BindableState, FieldsOfTypes
<1>3. i \in 1..last \/ (i = last + 1 /\ last < Len(Root.fields)) \/ i > last + 1
  BY <1>2
<1> QED
  BY <1>1, <1>2, <1>3 DEF StoppedAt

LEMMA OnlyBindEndsBound ==
    ASSUME [Next]_vars, bound', vars' # vars
    PROVE  Bind
BY DEF Next, Configure, vars

\* A load that fails has filled the fields before the one it names, has stopped
\* there, and has not touched the ones after it; or it has filled them all and
\* its Validate said no (binder.go:191-218).
THEOREM FailuresStop ==
    ASSUME Recursion, HandlersKeepTypes
    PROVE  Spec => FailureIsAPrefix
<1> DEFINE Stops ==
      Failure =>
        LET n == Len(Root.fields)
            was(i) == target.struct[Root.fields[i].name]
            now(i) == target'.struct[Root.fields[i].name]
            alone(i) == bindOne(Root.fields[i], was(i), tree, <<>>, env)
        IN \E last \in 0..n :
             /\ \A i \in 1..last : alone(i).err = NoError /\ now(i) = alone(i).val
             /\ last < n => alone(last + 1).err = outcome'.err /\ now(last + 1) = alone(last + 1).val
             /\ last = n => Has(Root, "rule") /\ ~Accepts(Root.rule, target')
             /\ \A i \in (last + 2)..n : now(i) = was(i)
<1>1. ASSUME Bindable, [Next]_vars, vars' # vars, Failure PROVE Stops
  <2> DEFINE n == Len(Root.fields)
  <2>1. Bind /\ outcome'.err # NoError
    BY <1>1, OnlyBindEndsBound DEF Failure
  <2>2. PICK last \in 0..n : StoppedAt(last)
    BY <1>1, <2>1, BindStops
  <2>3. n \in Nat /\ DOMAIN Root.fields = 1..n
    BY <1>1, BindableState, FieldsOfTypes
  <2>4. /\ \A i \in 1..last : AloneNow(i).err = NoError /\ Now(i) = AloneNow(i).val
        /\ last < n => AloneNow(last + 1).err = outcome'.err /\ Now(last + 1) = AloneNow(last + 1).val
        /\ last = n => Has(Root, "rule") /\ ~Accepts(Root.rule, target')
        /\ \A i \in (last + 2)..n : Now(i) = Was(i)
    BY <2>1, <2>2, <2>3 DEF StoppedAt
  <2> QED  BY <2>4 DEF AloneNow, Alone, Now, Was
<1>2. Bindable /\ [Next]_vars => [Stops]_vars
  BY <1>1
<1> HIDE DEF Stops
<1>3. Spec => [][Stops]_vars
  BY <1>2, AlwaysBindable, PTL DEF Spec
<1> QED
  BY <1>3 DEF FailureIsAPrefix, Stops


-----------------------------------------------------------------------------
(* Slices and maps are set as a whole *)

\* A value that is set when there was no error, and else left as it was.
Whole(err, log, v, old) == [val |-> IF err = NoError THEN v ELSE old, err |-> err, log |-> log]

LEMMA FailIsWhole ==
    ASSUME NEW kind \in ErrorKinds, kind # "none", NEW path
    PROVE  \E err, log, v : \A old : Fail(old, kind, path) = Whole(err, log, v, old)
<1> DEFINE err == [kind |-> kind, path |-> path]
<1>1. err # NoError
  BY DEF NoError
<1>2. \A old : Fail(old, kind, path) = Whole(err, <<>>, Nil, old)
  BY <1>1 DEF Fail, Whole
<1> QED
  BY <1>2

LEMMA SliceIsWhole ==
    ASSUME Recursion, HandlersKeepTypes, NEW t \in Types, t.kind = "slice", NEW items \in Seq(Inputs),
           NEW path, NEW e, IsEnv(e)
    PROVE  \E err, log, v : \A old : assignItems(t, old, items, path, e) = Whole(err, log, v, old)
<1> DEFINE start == [i \in DOMAIN items |-> Zero(t.elem)]
           r == Converted(t, start, items, path, e)
<1>1. DOMAIN items = 1..Len(items) /\ t.elem \in Types /\ SmallerKeep(t)
  BY Elements, AllKeep DEF Containers, SmallerKeep
<1>2. start = [i \in 1..Len(items) |-> start[i]] /\ \A i \in 1..Len(items) : HasType(start[i], t.elem)
  BY <1>1, ZeroHasType
<1>3. \A old : assignItems(t, old, items, path, e)
                 = [r EXCEPT !.val = IF r.err = NoError THEN [slice |-> @] ELSE old]
  BY DEF assignItems
<1> HIDE DEF start
<1>4. IsList(r, t.elem, 1..Len(items))
  BY <1>1, <1>2, ItemsKeep DEF Containers
<1> HIDE DEF r
<1>5. r = [val |-> r.val, err |-> r.err, log |-> r.log]
  BY <1>4 DEF IsList
<1>6. \A old : assignItems(t, old, items, path, e) = Whole(r.err, r.log, [slice |-> r.val], old)
  BY <1>3, <1>5 DEF Whole
<1> QED
  BY <1>6

LEMMA MapIsWhole ==
    ASSUME Recursion, HandlersKeepTypes, NEW t \in Types, t.kind = "map", NEW src \in Inputs,
           NEW path, NEW e, IsEnv(e)
    PROVE  \E err, log, v : \A old : assignMap(t, old, src, path, e) = Whole(err, log, v, old)
<1> DEFINE given == [type |-> t.elem, object |-> src.object, path |-> path, env |-> e]
           r == EntryLoop!After(given, Ok(EmptyTree), Len(KeyOrder))
<1>1. CASE ~Is(src, "object")
  <2>1. \A old : assignMap(t, old, src, path, e) = Fail(old, "ErrInvalidValue", path)
    BY <1>1 DEF assignMap
  <2> QED  BY <2>1, FailIsWhole DEF ErrorKinds
<1>2. CASE Is(src, "object")
  <2>1. \A old : assignMap(t, old, src, path, e)
                   = [r EXCEPT !.val = IF r.err = NoError THEN [map |-> @] ELSE old]
    BY <1>2 DEF assignMap
  <2>2. SmallerKeep(t)
    BY AllKeep DEF SmallerKeep
  <2>3. PICK D : IsList(r, t.elem, D)
    BY <1>2, <2>2, EntriesKeep
  <2> HIDE DEF r
  <2>4. r = [val |-> r.val, err |-> r.err, log |-> r.log]
    BY <2>3 DEF IsList
  <2>5. \A old : assignMap(t, old, src, path, e) = Whole(r.err, r.log, [map |-> r.val], old)
    BY <2>1, <2>4 DEF Whole
  <2> QED  BY <2>5
<1> QED
  BY <1>1, <1>2

LEMMA NoHookOnLists ==
    ASSUME NEW t \in Types, t.kind \in {"slice", "map", "pointer"}
    PROVE  ~Hook(t, "text")
BY HooksAssumption

AssignedAsAWhole(t, src, path, e) ==
    \E err, log, v : \A old : assign(t, old, src, path, e) = Whole(err, log, v, old)
SplitAsAWhole(t, raw, path, e) ==
    \E err, log, v : \A old : assignString(t, old, raw, path, e) = Whole(err, log, v, old)

LEMMA ListIsWhole ==
    ASSUME Recursion, HandlersKeepTypes, NEW t \in Types, t.kind \in {"slice", "map"},
           NEW path, NEW e, IsEnv(e)
    PROVE  /\ \A src \in Inputs : src # Null => AssignedAsAWhole(t, src, path, e)
           /\ \A raw \in STRING : SplitAsAWhole(t, raw, path, e)
<1>1. ~Hook(t, "text")
  BY NoHookOnLists
<1>2. ASSUME NEW src \in Inputs, src # Null, t.kind = "map"
      PROVE  AssignedAsAWhole(t, src, path, e)
  <2>1. \A old : assign(t, old, src, path, e) = assignMap(t, old, src, path, e)
    BY <1>1, <1>2 DEF assign
  <2> QED  BY <1>2, <2>1, MapIsWhole DEF AssignedAsAWhole
<1>3. ASSUME NEW src \in Inputs, src # Null, t.kind = "slice"
      PROVE  AssignedAsAWhole(t, src, path, e)
  <2>1. \A old : assign(t, old, src, path, e) = assignSlice(t, old, src, path, e)
    BY <1>1, <1>3 DEF assign
  <2>2. CASE Is(src, "array")
    <3>1. \A old : assign(t, old, src, path, e) = assignItems(t, old, src.array, path, e)
      BY <2>1, <2>2 DEF assignSlice
    <3>2. src.array \in Seq(Inputs)
      BY <2>2, InputsAreNodes
    <3> QED  BY <1>3, <3>1, <3>2, SliceIsWhole, SMTT(20) DEF AssignedAsAWhole
  <2>3. CASE ~Is(src, "array")
    <3>1. \A old : assign(t, old, src, path, e) = Fail(old, "ErrInvalidValue", path)
      BY <2>1, <2>3 DEF assignSlice
    <3> QED  BY <3>1, FailIsWhole DEF ErrorKinds, AssignedAsAWhole
  <2> QED  BY <2>2, <2>3
<1>4. ASSUME NEW raw \in STRING, t.kind = "slice"
      PROVE  SplitAsAWhole(t, raw, path, e)
  <2> DEFINE texts == [i \in DOMAIN ItemsIn(raw) |-> Text(ItemsIn(raw)[i])]
  <2>1. \A old : assignString(t, old, raw, path, e) = assignItems(t, old, texts, path, e)
    BY <1>1, <1>4 DEF assignString
  <2>2. texts \in Seq(Inputs)
    BY TextsOfItems
  <2> HIDE DEF texts
  <2> QED  BY <1>4, <2>1, <2>2, SliceIsWhole DEF SplitAsAWhole
<1>5. ASSUME NEW raw \in STRING, t.kind = "map"
      PROVE  SplitAsAWhole(t, raw, path, e)
  <2>1. \A old : assignString(t, old, raw, path, e) = assignScalar(t, old, Text(raw), path)
    BY <1>1, <1>5 DEF assignString
  <2>2. \A old : assignScalar(t, old, Text(raw), path) = Fail(old, "ErrInvalidValue", path)
    BY <1>5 DEF assignScalar, Scalar
  <2> QED  BY <2>1, <2>2, FailIsWhole DEF ErrorKinds, SplitAsAWhole
<1> QED
  BY <1>2, <1>3, <1>4, <1>5


LEMMA SelectedValue ==
    ASSUME NEW f, NEW node, NEW e, Source(f, node, e) = "file"
    PROVE  Given(node, Key(f)) /\ ~Ambiguous(node, Key(f)) /\ ValueOf(node, Key(f)) # Null
<1>1. Given(node, Key(f)) /\ ~Ambiguous(node, Key(f))
  BY DEF Source
<1>2. ValueOf(node, Key(f)) # Null
  BY <1>1 DEF Given, Ambiguous, ValueOf
<1> QED
  BY <1>1, <1>2

FromOutside == {"env", "file", "default"}

TakenAsAWhole(f, from, node, path, e) ==
    \E err, log, v : \A old : Taken(f, from, old, node, path, e) = Whole(err, log, v, old)

LEMMA TakenIsWhole ==
    ASSUME Recursion, HandlersKeepTypes, NEW t \in Types, t.kind = "struct", NEW i \in DOMAIN t.fields,
           t.fields[i].type.kind \in {"slice", "map"},
           NEW node, IsTree(node), NEW e, IsEnv(e), NEW path, Source(t.fields[i], node, e) \in FromOutside
    PROVE  TakenAsAWhole(t.fields[i], Source(t.fields[i], node, e), node, path, e)
<1> DEFINE f == t.fields[i]
           from == Source(f, node, e)
<1>1. f.type \in Types
  BY FieldsOfTypes
<1>2. CASE from = "env"
  <2>1. e[f.tag.env] \in STRING
    BY <1>2 DEF Source, InEnv, IsEnv
  <2>2. \A old : Taken(f, from, old, node, path, e) = assignString(f.type, old, e[f.tag.env], path, e)
    BY <1>1, <1>2 DEF Taken, Recursion
  <2>3. SplitAsAWhole(f.type, e[f.tag.env], path, e)
    BY <1>1, <2>1, ListIsWhole
  <2> QED  BY <2>2, <2>3 DEF TakenAsAWhole, SplitAsAWhole
<1>3. CASE from = "file"
  <2>1. ValueOf(node, Key(f)) \in Inputs /\ ValueOf(node, Key(f)) # Null
    BY <1>3, SelectedValue, GivenValue
  <2>2. \A old : Taken(f, from, old, node, path, e) = assign(f.type, old, ValueOf(node, Key(f)), path, e)
    BY <1>1, <1>3 DEF Taken, Recursion
  <2>3. AssignedAsAWhole(f.type, ValueOf(node, Key(f)), path, e)
    BY <1>1, <2>1, ListIsWhole
  <2> QED  BY <2>2, <2>3 DEF TakenAsAWhole, AssignedAsAWhole
<1>4. CASE from = "default"
  <2>1. f.tag.default \in STRING
    BY <1>4, TagsAreGood DEF Source
  <2>2. \A old : Taken(f, from, old, node, path, e) = assignString(f.type, old, f.tag.default, path, e)
    BY <1>1, <1>4 DEF Taken, Recursion
  <2>3. SplitAsAWhole(f.type, f.tag.default, path, e)
    BY <1>1, <2>1, ListIsWhole
  <2> QED  BY <2>2, <2>3 DEF TakenAsAWhole, SplitAsAWhole
<1> QED
  BY <1>2, <1>3, <1>4 DEF FromOutside

LEMMA ApplyOfAnError ==
    ASSUME NEW tag, NEW r, r.err # NoError, NEW path
    PROVE  apply(tag, r, path) = r
BY DEF apply

LEMMA NotEmbedded ==
    ASSUME NEW f, f.type.kind \in {"slice", "map", "array", "string", "int", "bool", "any"}
    PROVE  ~Embedded(f) /\ ~isBindableStruct(f.type)
BY DEF Embedded, isBindableStruct

\* What binding a list makes of what was there.
Replaces(f, old, node, path, e) ==
    LET from == Source(f, node, e)
        one(w) == bindOne(f, w, node, path, e)
    IN /\ from \in FromOutside =>
            \/ one(old).val = old /\ one(old).err # NoError
            \/ /\ Taken(f, from, Nil, node, Append(path, Key(f)), e).err = NoError
               /\ one(old) = one(Nil)
       /\ from \notin FromOutside =>
            one(old).val = old /\ (from # "none" => one(old).err # NoError)

LEMMA OneIsWhole ==
    ASSUME Recursion, HandlersKeepTypes, NEW t \in Types, t.kind = "struct", NEW i \in DOMAIN t.fields,
           t.fields[i].type.kind \in {"slice", "map"}, ~Skipped(t.fields[i]),
           NEW node, IsTree(node), NEW e, IsEnv(e), NEW path, NEW old
    PROVE  Replaces(t.fields[i], old, node, path, e)
<1> DEFINE f == t.fields[i]
           from == Source(f, node, e)
           here == Append(path, Key(f))
           one(w) == bindOne(f, w, node, path, e)
<1>1. \A w : one(w) = bindField(f, w, node, path, e)
  BY NotEmbedded DEF bindOne
<1>2. CASE from \in FromOutside
  <2>1. \A w : one(w) = apply(f.tag, Taken(f, from, w, node, here, e), here)
    BY <1>1, <1>2 DEF bindField, FromOutside
  <2>2. PICK err, log, v : \A w : Taken(f, from, w, node, here, e) = Whole(err, log, v, w)
    <3>1. TakenAsAWhole(f, from, node, here, e)
      BY <1>2, TakenIsWhole
    <3> QED  BY <3>1 DEF TakenAsAWhole
  <2>3. CASE err = NoError
    <3>1. \A w : Whole(err, log, v, w) = Whole(err, log, v, Nil) /\ Whole(err, log, v, w).err = NoError
      BY <2>3 DEF Whole
    <3> QED  BY <1>2, <2>1, <2>2, <3>1 DEF Replaces
  <2>4. CASE err # NoError
    <3>1. Whole(err, log, v, old).err # NoError /\ Whole(err, log, v, old).val = old
      BY <2>4 DEF Whole
    <3>2. one(old) = Whole(err, log, v, old)
      BY <2>1, <2>2, <3>1, ApplyOfAnError
    <3> QED  BY <1>2, <3>1, <3>2 DEF Replaces
  <2> QED  BY <2>3, <2>4
<1>3. CASE from \in {"clash", "missing"}
  <2>1. \E kind \in ErrorKinds \ {"none"} : one(old) = Fail(old, kind, here)
    BY <1>1, <1>3 DEF bindField, ErrorKinds
  <2>2. \A kind \in ErrorKinds \ {"none"} : Fail(old, kind, here).val = old /\ Fail(old, kind, here).err # NoError
    BY DEF Fail, NoError
  <2> QED  BY <1>3, <2>1, <2>2 DEF FromOutside, Replaces
<1>4. CASE from = "none"
  <2>1. one(old) = Ok(old)
    BY <1>1, <1>4, NotEmbedded DEF bindField, bindNested
  <2> QED  BY <1>4, <2>1 DEF FromOutside, Ok, Replaces
<1> QED
  BY <1>2, <1>3, <1>4, SourcesOfValues DEF FromOutside, Replaces

\* A slice or a map is replaced as a whole or kept: a reload does not
\* accumulate (converter.go:219), and an item that is refused leaves no half of
\* a list behind.
THEOREM ListsStayWhole ==
    ASSUME Recursion, HandlersKeepTypes
    PROVE  Spec => ListsAreReplacedWhole
<1> DEFINE KeptOrReplaced ==
      bound' => \A f \in Fields : f.type.kind \in {"slice", "map"} /\ ~Skipped(f) =>
         LET from == Source(f, tree, env)
             fresh == bindOne(f, Nil, tree, <<>>, env)
             now == target'.struct[f.name]
         IN /\ \/ now = target.struct[f.name]
               \/ /\ from \in {"env", "file", "default"}
                  /\ Taken(f, from, Nil, tree, <<Key(f)>>, env).err = NoError
                  /\ now = fresh.val
            /\ Success /\ from # "none" => now = fresh.val
<1>1. ASSUME Bindable, [Next]_vars, vars' # vars, bound', NEW i \in DOMAIN Root.fields,
             Root.fields[i].type.kind \in {"slice", "map"}, ~Skipped(Root.fields[i])
      PROVE  LET f == Root.fields[i]
                 from == Source(f, tree, env)
                 fresh == bindOne(f, Nil, tree, <<>>, env)
             IN /\ \/ Now(i) = Was(i)
                   \/ /\ from \in FromOutside
                      /\ Taken(f, from, Nil, tree, <<Key(f)>>, env).err = NoError
                      /\ Now(i) = fresh.val
                /\ Success /\ from # "none" => Now(i) = fresh.val
  <2> DEFINE f == Root.fields[i]
             from == Source(f, tree, env)
             fresh == bindOne(f, Nil, tree, <<>>, env)
             one == bindOne(f, Was(i), tree, <<>>, env)
  <2>1. /\ Now(i) \in {Was(i), one.val}
        /\ outcome'.err = NoError => one.err = NoError /\ Now(i) = one.val
    <3>1. AloneNow(i) = one
      BY DEF AloneNow, Alone, Was
    <3> QED  BY <1>1, <3>1, OnlyBindEndsBound, EachFieldAlone
  <2>2. /\ from \in FromOutside =>
             \/ one.val = Was(i) /\ one.err # NoError
             \/ Taken(f, from, Nil, tree, Append(<<>>, Key(f)), env).err = NoError /\ one = fresh
        /\ from \notin FromOutside => one.val = Was(i) /\ (from # "none" => one.err # NoError)
    <3>1. Replaces(f, Was(i), tree, <<>>, env)
      BY <1>1, BindableState, OneIsWhole
    <3> QED  BY <3>1 DEF Replaces
  <2>3. Append(<<>>, Key(f)) = <<Key(f)>>
    OBVIOUS
  <2> HIDE DEF one, fresh, from, f
  <2>4. /\ \/ Now(i) = Was(i)
           \/ /\ from \in FromOutside
              /\ Taken(f, from, Nil, tree, <<Key(f)>>, env).err = NoError
              /\ Now(i) = fresh.val
        /\ Success /\ from # "none" => Now(i) = fresh.val
    BY <2>1, <2>2, <2>3 DEF Success
  <2> QED  BY <2>4 DEF fresh, from, f
<1>2. Bindable /\ [Next]_vars => [KeptOrReplaced]_vars
  BY <1>1 DEF Fields, Now, Was, FromOutside
<1> HIDE DEF KeptOrReplaced
<1>3. Spec => [][KeptOrReplaced]_vars
  BY <1>2, AlwaysBindable, PTL DEF Spec
<1> QED
  BY <1>3 DEF ListsAreReplacedWhole, KeptOrReplaced

-----------------------------------------------------------------------------
(* Optional sections *)

LEMMA PointerIsSet ==
    ASSUME Recursion, HandlersKeepTypes, NEW t \in Types, t.kind = "pointer", NEW old, HasType(old, t),
           NEW src \in Inputs, src # Null, NEW path, NEW e, IsEnv(e)
    PROVE  assign(t, old, src, path, e).val # Nil
<1> DEFINE r == InnerAssign(t.elem, Allocated(t, old), src, path, e)
<1>1. assign(t, old, src, path, e) = Pointing(r)
  BY NoHookOnLists DEF assign, assignPointer
<1>2. IsResult(r, t.elem)
  <2>1. t.elem \in Types /\ Keeps(t.elem)
    BY Elements, AllKeep DEF Containers
  <2> QED  BY <2>1, AllocatedHasType DEF Keeps, Recursion
<1> HIDE DEF r
<1>3. Pointing(r).val = [ref |-> r.val]
  BY <1>2 DEF Pointing, IsResult
<1> QED
  BY <1>1, <1>3 DEF Nil

LEMMA ApplyOfAName ==
    ASSUME NEW tag, DOMAIN tag \subseteq {"name"}, NEW r, NEW path
    PROVE  apply(tag, r, path).val = r.val
<1>1. check(tag, r.val, path) = Ok(r.val) /\ runCustom(tag, r.val, path) = Ok(r.val)
  BY DEF check, runCustom, Has
<1> QED
  BY <1>1 DEF apply, Ok, Put

LEMMA SectionAbsent ==
    ASSUME NEW f, f.type.kind = "pointer", ~Skipped(f), ~Embedded(f), DOMAIN f.tag \subseteq {"name"},
           NEW node, NEW e, NEW old, NEW path, ~Given(node, Key(f))
    PROVE  bindOne(f, old, node, path, e).val = old
<1>1. bindOne(f, old, node, path, e) = bindField(f, old, node, path, e)
  BY DEF bindOne
<1>2. Source(f, node, e) \in {"clash", "none"}
  BY DEF Source, InEnv, Has
<1>3. CASE Source(f, node, e) = "clash"
  BY <1>1, <1>3 DEF bindField, Fail
<1>4. CASE Source(f, node, e) = "none"
  BY <1>1, <1>4 DEF bindField, bindNested, Ok
<1> QED
  BY <1>2, <1>3, <1>4

LEMMA SectionPresent ==
    ASSUME Recursion, HandlersKeepTypes, NEW f, f.type \in Types, f.type.kind = "pointer", ~Skipped(f), ~Embedded(f),
           DOMAIN f.tag \subseteq {"name"},
           NEW node, IsTree(node), NEW e, IsEnv(e), NEW old, HasType(old, f.type), NEW path, Given(node, Key(f)),
           bindOne(f, old, node, path, e).err = NoError
    PROVE  bindOne(f, old, node, path, e).val # Nil
<1> DEFINE here == Append(path, Key(f))
           src == ValueOf(node, Key(f))
<1>1. bindOne(f, old, node, path, e) = bindField(f, old, node, path, e)
  BY DEF bindOne
<1>2. Source(f, node, e) \in {"clash", "file"}
  BY DEF Source, InEnv, Has
<1>3. Source(f, node, e) # "clash"
  BY <1>1 DEF bindField, Fail, NoError
<1>4. Source(f, node, e) = "file"
  BY <1>2, <1>3
<1>5. bindField(f, old, node, path, e) = apply(f.tag, assign(f.type, old, src, here, e), here)
  BY <1>4 DEF bindField, Taken, Recursion
<1>6. src \in Inputs /\ src # Null
  BY <1>4, SelectedValue, GivenValue
<1>7. assign(f.type, old, src, here, e).val # Nil
  BY <1>6, PointerIsSet
<1> QED
  BY <1>1, <1>5, <1>7, ApplyOfAName

\* "an optional sub-config really stays absent" (binder.go:247): a pointer to a
\* section is set by a document that has the section, and by nothing else.
THEOREM OptionalSectionsAreOptional ==
    ASSUME Recursion, HandlersKeepTypes
    PROVE  Spec => OptionalSectionsStayAbsent
<1> DEFINE Optional(f) == f.type.kind = "pointer" /\ ~Skipped(f) /\ ~Embedded(f) /\ DOMAIN f.tag \subseteq {"name"}
           StaysAbsent ==
             \A f \in Fields :
               f.type.kind = "pointer" /\ ~Skipped(f) /\ ~Embedded(f) /\ DOMAIN f.tag \subseteq {"name"} =>
               LET was == target.struct[f.name]
                   now == target'.struct[f.name]
               IN /\ was = Nil /\ ~Given(tree, Key(f)) => now = Nil
                  /\ Success /\ Given(tree, Key(f)) => now # Nil
<1>1. ASSUME Bindable, Bind, NEW i \in DOMAIN Root.fields, Optional(Root.fields[i])
      PROVE  /\ Was(i) = Nil /\ ~Given(tree, Key(Root.fields[i])) => Now(i) = Nil
             /\ Success /\ Given(tree, Key(Root.fields[i])) => Now(i) # Nil
  <2> DEFINE f == Root.fields[i]
             one == bindOne(f, Was(i), tree, <<>>, env)
  <2>1. /\ Now(i) \in {Was(i), one.val}
        /\ outcome'.err = NoError => one.err = NoError /\ Now(i) = one.val
    <3>1. AloneNow(i) = one
      BY DEF AloneNow, Alone, Was
    <3> QED  BY <1>1, <3>1, EachFieldAlone
  <2>2. ASSUME Was(i) = Nil, ~Given(tree, Key(f)) PROVE Now(i) = Nil
    BY <1>1, <2>1, <2>2, SectionAbsent
  <2>3. ASSUME Success, Given(tree, Key(f)) PROVE Now(i) # Nil
    <3>1. f.type \in Types /\ HasType(Was(i), f.type)
      BY <1>1, BindableState, FieldsOfTypes, FieldHasType DEF Was
    <3>2. one.err = NoError /\ Now(i) = one.val
      BY <2>1, <2>3 DEF Success
    <3>3. one.val # Nil
      BY <1>1, <2>3, <3>1, <3>2, BindableState, SectionPresent
    <3> QED  BY <3>2, <3>3
  <2> QED  BY <2>2, <2>3
<1>2. ASSUME Bindable, Configure PROVE StaysAbsent
  BY <1>2 DEF Configure, Success
<1>3. ASSUME Bindable, Bind PROVE StaysAbsent
  BY <1>1, <1>3 DEF Fields, Now, Was
<1>4. Bindable /\ [Next]_vars => [StaysAbsent]_vars
  BY <1>2, <1>3 DEF Next
<1> HIDE DEF StaysAbsent
<1>5. Spec => [][StaysAbsent]_vars
  BY <1>4, AlwaysBindable, PTL DEF Spec
<1> QED
  BY <1>5 DEF OptionalSectionsStayAbsent, StaysAbsent


-----------------------------------------------------------------------------
(* Where the values of a load that succeeds come from *)

\* InnerLeaves is Leaves (see Recursion).
LeavesRecur ==
    \A t \in Types : t.kind = "struct" => \A node, was, now :
      InnerLeaves(t, node, was, now) = Leaves(t, node, was, now)

GoodLeaf(leaf, e) == FollowsPrecedence(leaf, e) /\ ObeysTag(leaf, e)

LeavesAreGood(t) ==
    t.kind = "struct" =>
      \A node, path, e, old :
        IsEnv(e) /\ IsTree(node) /\ HasType(old, t) /\ bindStruct(node, t, old, path, e).err = NoError =>
          \A leaf \in Leaves(t, node, old, bindStruct(node, t, old, path, e).val) : GoodLeaf(leaf, e)

\* A bind that succeeds has filled every field as if alone.
LEMMA StructFilled ==
    ASSUME Recursion, HandlersKeepTypes, NEW t \in Types, t.kind = "struct",
           NEW old, HasType(old, t), NEW node, IsTree(node), NEW path, NEW e, IsEnv(e),
           bindStruct(node, t, old, path, e).err = NoError, NEW i \in DOMAIN t.fields
    PROVE  /\ Alone(t, old, node, path, e, i).err = NoError
           /\ bindStruct(node, t, old, path, e).val.struct[t.fields[i].name] = Alone(t, old, node, path, e, i).val
<1> DEFINE n == Len(t.fields)
           r == bindFields(Ok(old), t, node, path, e)
           done == bindStruct(node, t, old, path, e)
<1>1. n \in Nat /\ DOMAIN t.fields = 1..n
  BY FieldsOfTypes
<1>2. IsResult(r, t) /\ \E last : Progress(t, old, node, path, e, n, r, last)
  <2>1. SmallerKeep(t)
    BY AllKeep DEF SmallerKeep
  <2> QED  BY <2>1, AllFields
<1>3. PICK last : Progress(t, old, node, path, e, n, r, last)
  BY <1>2
<1>4. done = IF r.err = NoError THEN validate(t, r, path) ELSE r
  BY DEF bindStruct
<1> HIDE DEF r
<1>5. r.err = NoError /\ done.val = r.val
  BY <1>2, <1>4, ValidateKeeps
<1>6. last = n
  BY <1>1, <1>3, <1>5 DEF Progress
<1>7. \A j \in 1..n : Alone(t, old, node, path, e, j).err = NoError
                      /\ r.val.struct[t.fields[j].name] = Alone(t, old, node, path, e, j).val
  BY <1>3, <1>6 DEF Progress
<1> QED
  BY <1>1, <1>5, <1>7

LEMMA ApplyPlain ==
    ASSUME NEW tag, ~Has(tag, "custom"), NEW r, NEW path, apply(tag, r, path).err = NoError
    PROVE  r.err = NoError /\ apply(tag, r, path).val = r.val /\ check(tag, r.val, path).err = NoError
<1>1. r.err = NoError
  BY ApplyOfAnError
<1>2. runCustom(tag, r.val, path) = Ok(r.val)
  BY DEF runCustom
<1>3. check(tag, r.val, path).err = NoError
  BY <1>1 DEF apply, Put
<1> QED
  BY <1>1, <1>2, <1>3 DEF apply, Put, Ok

\* What a tag without an option of the application lets through.
LEMMA CheckedValue ==
    ASSUME NEW tag, NEW v, v # Nil, ~Is(v, "ref"), NEW path, check(tag, v, path).err = NoError
    PROVE  /\ Has(tag, "options") => TextIn(v) # {} /\ TextIn(v) \subseteq tag.options
           /\ Has(tag, "range") /\ ~Has(tag, "options") => v.int \in tag.range
<1>1. Behind(v) = v
  BY DEF Behind
<1>2. \A kind \in {"ErrInvalidTag", "ErrInvalidValue"} : Fail(v, kind, path).err # NoError
  BY DEF Fail, NoError
<1>3. Has(tag, "options") => TextIn(v) # {} /\ TextIn(v) \subseteq tag.options
  BY <1>1, <1>2 DEF check, Has
<1>4. Has(tag, "range") /\ ~Has(tag, "options") => v.int \in tag.range
  BY <1>1, <1>2 DEF check, Has
<1> QED
  BY <1>3, <1>4

LEMMA ScalarShapes ==
    ASSUME NEW t, NEW src, NEW v \in Scalar(t, src)
    PROVE  v # Nil /\ ~Is(v, "ref")
<1>1. CASE t.kind = "string"
  BY <1>1 DEF Scalar, Nil, Is, Has
<1>2. CASE t.kind = "bool"
  BY <1>2 DEF Scalar, Nil, Is, Has
<1>3. CASE t.kind = "int"
  BY <1>3 DEF Scalar, Nil, Is, Has
<1>4. CASE t.kind \notin {"string", "bool", "int"}
  BY <1>4 DEF Scalar
<1> QED
  BY <1>1, <1>2, <1>3, <1>4

LEMMA UnmarshalledText ==
    ASSUME NEW t, t.kind # "struct", NEW old, NEW src, NEW path, Unmarshal(t, old, src, path).err = NoError
    PROVE  Unmarshal(t, old, src, path).val # Nil /\ ~Is(Unmarshal(t, old, src, path).val, "ref")
<1>1. Readable(src)
  BY DEF Unmarshal, Fail, NoError
<1>2. Unmarshal(t, old, src, path).val = [parsed |-> src.text]
  BY <1>1 DEF Unmarshal, Ok
<1> QED
  BY <1>2 DEF Nil, Is, Has

LEMMA ScalarAssigned ==
    ASSUME NEW t, NEW old, NEW src, NEW path, assignScalar(t, old, src, path).err = NoError
    PROVE  assignScalar(t, old, src, path).val \in Scalar(t, src)
<1>1. Scalar(t, src) # {}
  BY DEF assignScalar, Fail, NoError
<1> QED
  BY <1>1 DEF assignScalar, Ok

\* The one node a scalar leaf is read from, when a source has one.
ReadFrom(f, node, e, was, now, path) ==
    LET taken == Taken(f, Source(f, node, e), was, node, path, e)
    IN \E src :
         /\ Chosen([field |-> f, node |-> node, was |-> was, now |-> now], e) = {src}
         /\ \/ taken = assignScalar(f.type, was, src, path)
            \/ Has(f.type, "hook") /\ f.type.kind # "struct" /\ taken = Unmarshal(f.type, was, src, path)

LEMMA ScalarTaken ==
    ASSUME Recursion, NEW t \in Types, t.kind = "struct", NEW i \in DOMAIN t.fields, IsScalar(t.fields[i].type),
           NEW node, NEW e, NEW was, NEW now, NEW path, Source(t.fields[i], node, e) \in FromOutside
    PROVE  ReadFrom(t.fields[i], node, e, was, now, path)
<1> DEFINE f == t.fields[i]
           from == Source(f, node, e)
           leaf == [field |-> f, node |-> node, was |-> was, now |-> now]
<1>1. f.type \in Types /\ f.type.kind \in {"string", "int", "bool"} /\ leaf.field = f /\ leaf.node = node
  BY FieldsOfTypes DEF IsScalar
<1> HIDE DEF leaf
<1> DEFINE Scalarly(r, src, p) ==
      \/ r = assignScalar(f.type, was, src, p)
      \/ Has(f.type, "hook") /\ f.type.kind # "struct" /\ r = Unmarshal(f.type, was, src, p)
<1>2. \A src, p : src # Null => Scalarly(assign(f.type, was, src, p, e), src, p)
  BY <1>1 DEF assign, Hook
<1>3. \A raw, p : Scalarly(assignString(f.type, was, raw, p, e), Text(raw), p)
  BY <1>1 DEF assignString, Hook
<1>4. CASE from = "env"
  <2>1. InEnv(f.tag, e) = {e[f.tag.env]}
    BY <1>4 DEF Source, InEnv
  <2>2. Chosen(leaf, e) = {Text(e[f.tag.env])}
    BY <1>1, <2>1 DEF Chosen
  <2>3. Taken(f, from, was, node, path, e) = assignString(f.type, was, e[f.tag.env], path, e)
    BY <1>1, <1>4 DEF Taken, Recursion
  <2> QED  BY <1>3, <2>2, <2>3 DEF leaf, ReadFrom
<1>5. CASE from = "file"
  <2>1. InEnv(f.tag, e) = {} /\ Given(node, Key(f)) /\ ValueOf(node, Key(f)) # Null
    BY <1>5, SelectedValue DEF Source
  <2>2. Chosen(leaf, e) = {ValueOf(node, Key(f))}
    BY <1>1, <2>1 DEF Chosen
  <2>3. Taken(f, from, was, node, path, e) = assign(f.type, was, ValueOf(node, Key(f)), path, e)
    BY <1>1, <1>5 DEF Taken, Recursion
  <2> QED  BY <1>2, <2>1, <2>2, <2>3 DEF leaf, ReadFrom
<1>6. CASE from = "default"
  <2>1. InEnv(f.tag, e) = {} /\ ~Given(node, Key(f)) /\ Has(f.tag, "default")
    BY <1>6 DEF Source
  <2>2. Chosen(leaf, e) = {Text(f.tag.default)}
    BY <1>1, <2>1 DEF Chosen
  <2>3. Taken(f, from, was, node, path, e) = assignString(f.type, was, f.tag.default, path, e)
    BY <1>1, <1>6 DEF Taken, Recursion
  <2> QED  BY <1>3, <2>2, <2>3 DEF leaf, ReadFrom
<1> QED
  BY <1>4, <1>5, <1>6 DEF FromOutside

\* A field without a value is no error only when it needs none.
LEMMA FieldErrors ==
    ASSUME NEW f, NEW node, NEW e, NEW old, NEW path, bindField(f, old, node, path, e).err = NoError
    PROVE  Source(f, node, e) \in FromOutside \cup {"none"}
<1>1. \A kind \in {"ErrDuplicateKey", "ErrMissingField"} : \A p : Fail(old, kind, p).err # NoError
  BY DEF Fail, NoError
<1>2. Source(f, node, e) # "clash" /\ Source(f, node, e) # "missing"
  BY <1>1 DEF bindField
<1> QED
  BY <1>2, SourcesOfValues DEF FromOutside

LEMMA ScalarLeaf ==
    ASSUME Recursion, NEW t \in Types, t.kind = "struct", NEW i \in DOMAIN t.fields, IsScalar(t.fields[i].type),
           ~Skipped(t.fields[i]), NEW node, NEW e, NEW path, NEW old,
           bindOne(t.fields[i], old, node, path, e).err = NoError
    PROVE  GoodLeaf([field |-> t.fields[i], node |-> node, was |-> old,
                     now |-> bindOne(t.fields[i], old, node, path, e).val], e)
<1> DEFINE f == t.fields[i]
           from == Source(f, node, e)
           here == Append(path, Key(f))
           one == bindOne(f, old, node, path, e)
           taken == Taken(f, from, old, node, here, e)
           leaf == [field |-> f, node |-> node, was |-> old, now |-> one.val]
<1>1. one = bindField(f, old, node, path, e) /\ f.type.kind \in {"string", "int", "bool"}
  BY NotEmbedded DEF bindOne, IsScalar
<1>2. leaf.field = f /\ leaf.node = node /\ leaf.was = old /\ leaf.now = one.val
  OBVIOUS
<1>3. from \in FromOutside \cup {"none"}
  BY <1>1, FieldErrors
<1>4. CASE from = "none"
  <2>1. Chosen(leaf, e) = {} /\ ~Has(f.tag, "required")
    BY <1>2, <1>4 DEF Source, Chosen
  <2>2. one = Ok(old)
    BY <1>1, <1>4, NotEmbedded DEF bindField, bindNested
  <2>3. one.val = old
    BY <2>2 DEF Ok
  <2> HIDE DEF leaf, one
  <2> QED  BY <1>2, <2>1, <2>3 DEF GoodLeaf, FollowsPrecedence, ObeysTag, leaf, one
<1>5. CASE from \in FromOutside
  <2>1. PICK src : /\ Chosen(leaf, e) = {src}
                   /\ \/ taken = assignScalar(f.type, old, src, here)
                      \/ Has(f.type, "hook") /\ f.type.kind # "struct" /\ taken = Unmarshal(f.type, old, src, here)
    <3>1. ReadFrom(f, node, e, old, one.val, here)
      BY <1>5, ScalarTaken
    <3> QED  BY <3>1 DEF ReadFrom
  <2>2. one = apply(f.tag, taken, here)
    BY <1>1, <1>5 DEF bindField, FromOutside
  <2> HIDE DEF leaf, one, taken
  <2>3. ASSUME ~Has(f.tag, "custom")
        PROVE  /\ ~Has(f.type, "hook") => leaf.now \in Scalar(f.type, src)
               /\ Has(f.tag, "options") => TextIn(leaf.now) # {} /\ TextIn(leaf.now) \subseteq f.tag.options
               /\ Has(f.tag, "range") /\ ~Has(f.tag, "options") => leaf.now.int \in f.tag.range
    <3>1. taken.err = NoError /\ one.val = taken.val /\ check(f.tag, taken.val, here).err = NoError
      BY <2>2, <2>3, ApplyPlain DEF one
    <3>2. CASE taken = assignScalar(f.type, old, src, here)
      <4>1. taken.val \in Scalar(f.type, src)
        BY <3>1, <3>2, ScalarAssigned
      <4>2. taken.val # Nil /\ ~Is(taken.val, "ref")
        BY <4>1, ScalarShapes
      <4> QED  BY <1>2, <3>1, <4>1, <4>2, CheckedValue
    <3>3. CASE Has(f.type, "hook") /\ f.type.kind # "struct" /\ taken = Unmarshal(f.type, old, src, here)
      <4>1. taken.val # Nil /\ ~Is(taken.val, "ref")
        BY <3>1, <3>3, UnmarshalledText
      <4> QED  BY <1>2, <3>1, <3>3, <4>1, CheckedValue
    <3> QED  BY <2>1, <3>2, <3>3
  <2>4. FollowsPrecedence(leaf, e)
    BY <1>2, <2>1, <2>3 DEF FollowsPrecedence, Plain
  <2>5. ObeysTag(leaf, e)
    BY <1>2, <2>3 DEF ObeysTag
  <2> QED  BY <2>4, <2>5 DEF GoodLeaf, leaf, one
<1> QED
  BY <1>3, <1>4, <1>5


\* A section is filled from an object, or not at all.
LEMMA SectionAssigned ==
    ASSUME NEW u, IsSection(u), NEW src, src # Null, NEW old, NEW path, NEW e,
           assign(u, old, src, path, e).err = NoError
    PROVE  Is(src, "object") /\ assign(u, old, src, path, e) = bindStruct(src.object, u, old, path, e)
<1>1. u.kind = "struct" /\ ~Hook(u, "text") /\ ~Hook(u, "json") /\ isBindableStruct(u)
  BY DEF IsSection, Hook, isBindableStruct
<1>2. assign(u, old, src, path, e) = assignStruct(u, old, src, path, e)
  BY <1>1 DEF assign
<1>3. CASE Is(src, "object")
  BY <1>1, <1>2, <1>3 DEF assignStruct
<1>4. CASE ~Is(src, "object")
  <2>1. assign(u, old, src, path, e) = Fail(old, "ErrInvalidValue", path)
    BY <1>1, <1>2, <1>4 DEF assignStruct
  <2> QED  BY <2>1 DEF Fail, NoError
<1> QED
  BY <1>3, <1>4

LEMMA SectionNotSplit ==
    ASSUME NEW u, IsSection(u), NEW old, NEW raw \in STRING, NEW path, NEW e
    PROVE  assignString(u, old, raw, path, e).err # NoError
<1>1. u.kind = "struct" /\ ~Hook(u, "text") /\ ~Hook(u, "json")
  BY DEF IsSection, Hook
<1>2. assignString(u, old, raw, path, e) = assignStruct(u, old, Text(raw), path, e)
  BY <1>1 DEF assignString
<1>3. assignStruct(u, old, Text(raw), path, e) = Fail(old, "ErrInvalidValue", path)
  BY <1>1, InputsAreNodes DEF assignStruct
<1> QED
  BY <1>2, <1>3 DEF Fail, NoError

\* What a field that is a section has taken comes from the document.
LEMMA SectionTaken ==
    ASSUME Recursion, HandlersKeepTypes, NEW t \in Types, t.kind = "struct", NEW i \in DOMAIN t.fields,
           IsSection(t.fields[i].type) \/ (t.fields[i].type.kind = "pointer" /\ IsSection(t.fields[i].type.elem)),
           NEW node, NEW e, IsEnv(e), NEW path, NEW old, HasType(old, t.fields[i].type),
           Source(t.fields[i], node, e) \in FromOutside,
           Taken(t.fields[i], Source(t.fields[i], node, e), old, node, path, e).err = NoError
    PROVE  Source(t.fields[i], node, e) = "file"
<1> DEFINE f == t.fields[i]
           u == f.type
           from == Source(f, node, e)
<1>1. u \in Types
  BY FieldsOfTypes
<1>2. ASSUME NEW raw \in STRING PROVE assignString(u, old, raw, path, e).err # NoError
  <2>1. CASE IsSection(u)
    BY <2>1, SectionNotSplit
  <2>2. CASE u.kind = "pointer" /\ IsSection(u.elem)
    <3> DEFINE r == assignString(u.elem, Allocated(u, old), raw, path, e)
    <3>1. u.elem \in Types /\ Keeps(u.elem)
      BY <1>1, <2>2, Elements, AllKeep DEF Containers
    <3>2. IsResult(r, u.elem)
      BY <1>1, <2>2, <3>1, AllocatedHasType DEF Keeps
    <3>3. r.err # NoError
      BY <2>2, SectionNotSplit
    <3>4. assignString(u, old, raw, path, e) = Pointing(r)
      <4> DEFINE asked == InnerAssignString(u.elem, Allocated(u, old), raw, path, e)
      <4>1. asked = r
        BY <3>1 DEF Recursion
      <4> HIDE DEF r
      <4>2. ~Hook(u, "text")
        BY <1>1, <2>2, NoHookOnLists
      <4>3. assignString(u, old, raw, path, e) = Pointing(asked)
        BY <2>2, <4>2 DEF assignString
      <4> QED  BY <4>1, <4>3
    <3> HIDE DEF r
    <3> QED  BY <3>2, <3>3, <3>4 DEF Pointing, IsResult
  <2> QED  BY <2>1, <2>2
<1>3. ASSUME from = "env" PROVE FALSE
  <2>1. e[f.tag.env] \in STRING
    BY <1>3 DEF Source, InEnv, IsEnv
  <2>2. Taken(f, from, old, node, path, e) = assignString(u, old, e[f.tag.env], path, e)
    BY <1>1, <1>3 DEF Taken, Recursion
  <2> QED  BY <1>2, <2>1, <2>2
<1>4. ASSUME from = "default" PROVE FALSE
  <2>1. f.tag.default \in STRING
    BY <1>4, TagsAreGood DEF Source
  <2>2. Taken(f, from, old, node, path, e) = assignString(u, old, f.tag.default, path, e)
    BY <1>1, <1>4 DEF Taken, Recursion
  <2> QED  BY <1>2, <2>1, <2>2
<1> QED
  BY <1>3, <1>4 DEF FromOutside

\* The leaves inside a section that was filled from an object, as a part of the
\* bind of the struct around it.
LEMMA SectionLeaves ==
    ASSUME Recursion, LeavesRecur, NEW u \in Types, u.kind = "struct", LeavesAreGood(u), NEW node, IsTree(node),
           NEW e, IsEnv(e), NEW path, NEW old, HasType(old, u), NEW r,
           r = bindStruct(node, u, old, path, e), r.err = NoError
    PROVE  \A leaf \in InnerLeaves(u, node, old, r.val) : GoodLeaf(leaf, e)
<1>1. \A leaf \in Leaves(u, node, old, r.val) : GoodLeaf(leaf, e)
  BY DEF LeavesAreGood
<1> QED
  BY <1>1 DEF LeavesRecur

SmallerLeaves(t) == \A u \in Types : Depth[u] < Depth[t] => LeavesAreGood(u)

LEMMA FieldsOfSections ==
    ASSUME NEW t \in Types, t.kind = "struct", NEW i \in DOMAIN t.fields
    PROVE  Depth[t.fields[i].type] < Depth[t]
BY FieldsOfTypes

\* A field that is a section.
LEMMA SectionLeaf ==
    ASSUME Recursion, LeavesRecur, HandlersKeepTypes, NEW t \in Types, t.kind = "struct", SmallerLeaves(t),
           NEW i \in DOMAIN t.fields, IsSection(t.fields[i].type), ~Skipped(t.fields[i]),
           ~Has(t.fields[i].tag, "custom"),
           NEW node, IsTree(node), NEW e, IsEnv(e), NEW path, NEW old, HasType(old, t.fields[i].type),
           bindOne(t.fields[i], old, node, path, e).err = NoError
    PROVE  \A leaf \in InnerLeaves(t.fields[i].type, SectionOf(t.fields[i], node), old,
                                   bindOne(t.fields[i], old, node, path, e).val) : GoodLeaf(leaf, e)
<1> DEFINE f == t.fields[i]
           u == f.type
           from == Source(f, node, e)
           here == Append(path, Key(f))
           one == bindOne(f, old, node, path, e)
<1>1. u \in Types /\ LeavesAreGood(u) /\ u.kind = "struct" /\ isBindableStruct(u)
  BY FieldsOfTypes, FieldsOfSections DEF SmallerLeaves, IsSection, isBindableStruct, Hook
<1>2. \A n, p, r : IsTree(n) /\ r = bindStruct(n, u, old, p, e) /\ r.err = NoError =>
        \A leaf \in InnerLeaves(u, n, old, r.val) : GoodLeaf(leaf, e)
  BY <1>1, SectionLeaves
<1>3. CASE Embedded(f)
  <2>1. one = bindStruct(node, u, old, path, e)
    BY <1>1, <1>3 DEF bindOne, bindEmbedded, Recursion
  <2>2. SectionOf(f, node) = node
    BY <1>3 DEF SectionOf
  <2> QED  BY <1>2, <2>1, <2>2
<1>4. CASE ~Embedded(f)
  <2>1. one = bindField(f, old, node, path, e)
    BY <1>4 DEF bindOne
  <2>2. from \in FromOutside \cup {"none"}
    BY <2>1, FieldErrors
  <2>3. CASE from = "none"
    <3>1. one = bindStruct(EmptyTree, u, old, here, e)
      BY <1>1, <2>1, <2>3 DEF bindField, bindNested, Recursion
    <3>2. SectionOf(f, node) = EmptyTree
      BY <1>4, <2>3 DEF SectionOf, Source
    <3> QED  BY <1>2, <3>1, <3>2, EmptyIsTree
  <2>4. CASE from \in FromOutside
    <3> DEFINE taken == Taken(f, from, old, node, here, e)
               src == ValueOf(node, Key(f))
    <3>1. one = apply(f.tag, taken, here)
      BY <2>1, <2>4 DEF bindField, FromOutside
    <3>2. taken.err = NoError /\ one.val = taken.val
      <4> HIDE DEF taken
      <4> QED  BY <3>1, ApplyPlain
    <3>3. from = "file"
      <4>1. \A p : Taken(f, from, old, node, p, e).err = NoError => from = "file"
        BY <2>4, SectionTaken
      <4> QED  BY <3>2, <4>1
    <3>4. taken = assign(u, old, src, here, e)
      BY <1>1, <3>3 DEF Taken, Recursion
    <3>5. Given(node, Key(f)) /\ src # Null /\ src \in Inputs
      BY <3>3, SelectedValue, GivenValue
    <3>6. Is(src, "object") /\ taken = bindStruct(src.object, u, old, here, e)
      BY <3>2, <3>4, <3>5, SectionAssigned
    <3>7. SectionOf(f, node) = src.object /\ IsTree(src.object)
      BY <1>4, <3>5, <3>6, InputsAreNodes DEF SectionOf
    <3> HIDE DEF taken, src, one
    <3>8. \A leaf \in InnerLeaves(u, src.object, old, taken.val) : GoodLeaf(leaf, e)
      BY <1>2, <3>2, <3>6, <3>7
    <3> QED  BY <3>2, <3>7, <3>8 DEF one
  <2> QED  BY <2>2, <2>3, <2>4
<1> QED
  BY <1>3, <1>4

\* A field that is a pointer to a section, and was set.
LEMMA OptionalLeaf ==
    ASSUME Recursion, LeavesRecur, HandlersKeepTypes, NEW t \in Types, t.kind = "struct", SmallerLeaves(t),
           NEW i \in DOMAIN t.fields, t.fields[i].type.kind = "pointer", IsSection(t.fields[i].type.elem),
           ~Skipped(t.fields[i]), ~Has(t.fields[i].tag, "custom"),
           NEW node, IsTree(node), Embedded(t.fields[i]) \/ Given(node, Key(t.fields[i])),
           NEW e, IsEnv(e), NEW path, NEW old, HasType(old, t.fields[i].type),
           bindOne(t.fields[i], old, node, path, e).err = NoError
    PROVE  \A leaf \in InnerLeaves(t.fields[i].type.elem, SectionOf(t.fields[i], node),
                                   Allocated(t.fields[i].type, old),
                                   bindOne(t.fields[i], old, node, path, e).val.ref) : GoodLeaf(leaf, e)
<1> DEFINE f == t.fields[i]
           u == f.type.elem
           was == Allocated(f.type, old)
           from == Source(f, node, e)
           here == Append(path, Key(f))
           one == bindOne(f, old, node, path, e)
<1>1. f.type \in Types /\ u \in Types /\ u.kind = "struct" /\ LeavesAreGood(u) /\ HasType(was, u)
  <2>1. f.type \in Types /\ u \in Types /\ Depth[u] < Depth[f.type] /\ Depth[f.type] < Depth[t]
    BY FieldsOfTypes, FieldsOfSections, Elements DEF Containers
  <2>2. Depth[u] < Depth[t]
    BY <2>1, DepthIsNumber
  <2> QED  BY <2>1, <2>2, AllocatedHasType DEF SmallerLeaves, IsSection
<1>2. \A n, p, r : IsTree(n) /\ r = bindStruct(n, u, was, p, e) /\ r.err = NoError =>
        \A leaf \in InnerLeaves(u, n, was, r.val) : GoodLeaf(leaf, e)
  BY <1>1, SectionLeaves
<1>3. \A n, p : IsTree(n) => IsResult(bindStruct(n, u, was, p, e), u)
  BY <1>1, AllKeep DEF Keeps
<1>4. \A r : IsResult(r, u) => Pointing(r).val.ref = r.val /\ Pointing(r).err = r.err
  BY DEF Pointing, IsResult
<1>5. CASE Embedded(f)
  <2> DEFINE r == bindStruct(node, u, was, path, e)
  <2>1. one = Pointing(r)
    BY <1>1, <1>5 DEF bindOne, bindEmbedded, Recursion
  <2>2. SectionOf(f, node) = node
    BY <1>5 DEF SectionOf
  <2>3. IsResult(r, u)
    BY <1>3
  <2>4. one.val.ref = r.val /\ r.err = NoError
    <3> HIDE DEF r
    <3> QED  BY <1>4, <2>1, <2>3
  <2>5. \A leaf \in InnerLeaves(u, node, was, r.val) : GoodLeaf(leaf, e)
    BY <1>2, <2>4
  <2> HIDE DEF r, one, was
  <2> QED  BY <2>2, <2>4, <2>5 DEF one, was
<1>6. CASE ~Embedded(f)
  <2> DEFINE taken == Taken(f, from, old, node, here, e)
             src == ValueOf(node, Key(f))
             r == assign(u, was, src, here, e)
             filled == bindStruct(src.object, u, was, here, e)
  <2>1. one = bindField(f, old, node, path, e)
    BY <1>6 DEF bindOne
  <2>2. from \in FromOutside
    <3>1. from \in FromOutside \cup {"none"}
      BY <2>1, FieldErrors
    <3>2. from # "none"
      BY <1>6 DEF Source
    <3> QED  BY <3>1, <3>2
  <2>3. one = apply(f.tag, taken, here)
    BY <2>1, <2>2 DEF bindField, FromOutside
  <2>4. taken.err = NoError /\ one.val = taken.val
    <3> HIDE DEF taken
    <3> QED  BY <2>3, ApplyPlain
  <2>5. from = "file"
    <3>1. \A p : Taken(f, from, old, node, p, e).err = NoError => from = "file"
      BY <2>2, SectionTaken
    <3> QED  BY <2>4, <3>1
  <2>6. Given(node, Key(f)) /\ src # Null /\ src \in Inputs
    BY <2>5, SelectedValue, GivenValue
  <2>7. taken = Pointing(r)
    <3>1. taken = assign(f.type, old, src, here, e)
      BY <1>1, <2>5 DEF Taken, Recursion
    <3>2. assign(f.type, old, src, here, e) = assignPointer(f.type, old, src, here, e)
      BY <1>1, <2>6, NoHookOnLists DEF assign
    <3> QED  BY <1>1, <3>1, <3>2 DEF assignPointer, Recursion
  <2>8. IsResult(r, u)
    BY <1>1, <2>6, AllKeep DEF Keeps
  <2>9. taken.val.ref = r.val /\ r.err = NoError
    <3> HIDE DEF r, taken
    <3> QED  BY <1>4, <2>4, <2>7, <2>8
  <2>10. Is(src, "object") /\ r = filled
    BY <2>6, <2>9, SectionAssigned
  <2>11. SectionOf(f, node) = src.object /\ IsTree(src.object)
    BY <1>6, <2>6, <2>10, InputsAreNodes DEF SectionOf
  <2> HIDE DEF r, taken, src, one, was
  <2>12. \A leaf \in InnerLeaves(u, src.object, was, r.val) : GoodLeaf(leaf, e)
    BY <1>2, <2>9, <2>10, <2>11
  <2> QED  BY <2>4, <2>9, <2>11, <2>12 DEF one, was
<1> QED
  BY <1>5, <1>6

LEMMA FieldLeaves ==
    ASSUME Recursion, LeavesRecur, HandlersKeepTypes, NEW t \in Types, t.kind = "struct", SmallerLeaves(t),
           NEW i \in DOMAIN t.fields, NEW node, IsTree(node), NEW e, IsEnv(e), NEW path,
           NEW old, HasType(old, t.fields[i].type), bindOne(t.fields[i], old, node, path, e).err = NoError
    PROVE  \A leaf \in LeavesOf(t.fields[i], node, old, bindOne(t.fields[i], old, node, path, e).val) :
             GoodLeaf(leaf, e)
<1> DEFINE f == t.fields[i]
           one == bindOne(f, old, node, path, e)
           all == LeavesOf(f, node, old, one.val)
<1>1. CASE Skipped(f) \/ (Has(f.tag, "custom") /\ ~IsScalar(f.type))
  BY <1>1 DEF LeavesOf
<1>2. CASE ~Skipped(f) /\ IsScalar(f.type)
  <2>1. all = {[field |-> f, node |-> node, was |-> old, now |-> one.val]}
    BY <1>2 DEF LeavesOf
  <2>2. GoodLeaf([field |-> f, node |-> node, was |-> old, now |-> one.val], e)
    BY <1>2, ScalarLeaf
  <2> QED  BY <2>1, <2>2
<1>3. CASE ~Skipped(f) /\ ~Has(f.tag, "custom") /\ IsSection(f.type)
  <2>1. all = InnerLeaves(f.type, SectionOf(f, node), old, one.val)
    BY <1>3 DEF LeavesOf, IsSection, IsScalar
  <2> QED  BY <1>3, <2>1, SectionLeaf
<1>4. CASE /\ ~Skipped(f) /\ ~Has(f.tag, "custom") /\ f.type.kind = "pointer" /\ IsSection(f.type.elem)
           /\ Embedded(f) \/ Given(node, Key(f))
  <2>1. all = InnerLeaves(f.type.elem, SectionOf(f, node), Allocated(f.type, old), one.val.ref)
    BY <1>4 DEF LeavesOf, IsSection, IsScalar
  <2> QED  BY <1>4, <2>1, OptionalLeaf
<1>5. CASE /\ ~IsScalar(f.type) /\ ~IsSection(f.type)
           /\ ~(f.type.kind = "pointer" /\ IsSection(f.type.elem) /\ (Embedded(f) \/ Given(node, Key(f))))
  BY <1>5 DEF LeavesOf
<1> QED
  BY <1>1, <1>2, <1>3, <1>4, <1>5

LEMMA AllLeaves ==
    ASSUME Recursion, LeavesRecur, HandlersKeepTypes
    PROVE  \A t \in Types : LeavesAreGood(t)
<1> DEFINE G == {t \in Types : LeavesAreGood(t)}
<1>1. ASSUME NEW t \in Types, \A u \in Types : Depth[u] < Depth[t] => u \in G
      PROVE  t \in G
  <2>1. SmallerLeaves(t)
    BY <1>1 DEF SmallerLeaves
  <2> SUFFICES ASSUME t.kind = "struct", NEW node, NEW path, NEW e, NEW old, IsEnv(e), IsTree(node),
                      HasType(old, t), bindStruct(node, t, old, path, e).err = NoError,
                      NEW leaf \in Leaves(t, node, old, bindStruct(node, t, old, path, e).val)
               PROVE  GoodLeaf(leaf, e)
    BY DEF LeavesAreGood
  <2> DEFINE done == bindStruct(node, t, old, path, e).val
             was(i) == old.struct[t.fields[i].name]
             one(i) == bindOne(t.fields[i], was(i), node, path, e)
  <2>2. PICK i \in DOMAIN t.fields : leaf \in LeavesOf(t.fields[i], node, was(i), done.struct[t.fields[i].name])
    BY DEF Leaves
  <2>3. one(i).err = NoError /\ done.struct[t.fields[i].name] = one(i).val
    BY StructFilled DEF Alone
  <2>4. HasType(was(i), t.fields[i].type)
    BY FieldHasType
  <2>5. \A l \in LeavesOf(t.fields[i], node, was(i), one(i).val) : GoodLeaf(l, e)
    BY <2>1, <2>3, <2>4, FieldLeaves
  <2> QED  BY <2>2, <2>3, <2>5
<1> HIDE DEF G
<1>2. Types \subseteq G
  <2>1. G \in SUBSET Types  BY DEF G
  <2> QED  BY <1>1, <2>1, TypeInduction
<1> QED
  BY <1>2 DEF G

LEMMA LeavesOfALoad ==
    ASSUME Recursion, LeavesRecur, HandlersKeepTypes, Bindable, [Next]_vars, vars' # vars, Success
    PROVE  \A leaf \in Leaves(Root, tree, target, target') : GoodLeaf(leaf, env)
<1> DEFINE r == bindStruct(tree, Root, target, <<>>, env)
<1>1. target' = r.val /\ r.err = NoError
  BY OnlyBindEndsBound DEF Success, Bind
<1>2. LeavesAreGood(Root) /\ Root.kind = "struct" /\ IsTree(tree) /\ IsEnv(env) /\ HasType(target, Root)
  BY AllLeaves, BindableState
<1>3. \A leaf \in Leaves(Root, tree, target, r.val) : GoodLeaf(leaf, env)
  BY <1>1, <1>2 DEF LeavesAreGood
<1> QED
  BY <1>1, <1>3

\* "env= > the config file > default= > the zero value" (README.md:280): a load
\* that succeeds has given every scalar, in every section at any depth, the value
\* of the first source that has one, has left one without a value as it was, and
\* has not done without a required one (binder.go:253-290).
THEOREM PrecedenceHolds ==
    ASSUME Recursion, LeavesRecur, HandlersKeepTypes
    PROVE  Spec => Precedence
<1> DEFINE Follows == Success => \A leaf \in Leaves(Root, tree, target, target') : FollowsPrecedence(leaf, env)
<1>1. Bindable /\ [Next]_vars => [Follows]_vars
  BY LeavesOfALoad DEF GoodLeaf
<1> HIDE DEF Follows
<1>2. Spec => [][Follows]_vars
  BY <1>1, AlwaysBindable, PTL DEF Spec
<1> QED
  BY <1>2 DEF Precedence, Follows

\* A value that the options= or the range= of its field excludes never comes out
\* of a load that succeeds (tag.go:492-521, binder.go:286-290).
THEOREM TagsAreObeyed ==
    ASSUME Recursion, LeavesRecur, HandlersKeepTypes
    PROVE  Spec => TakenValuesObeyTags
<1> DEFINE Obeys == Success => \A leaf \in Leaves(Root, tree, target, target') : ObeysTag(leaf, env)
<1>1. Bindable /\ [Next]_vars => [Obeys]_vars
  BY LeavesOfALoad DEF GoodLeaf
<1> HIDE DEF Obeys
<1>2. Spec => [][Obeys]_vars
  BY <1>1, AlwaysBindable, PTL DEF Spec
<1> QED
  BY <1>2 DEF TakenValuesObeyTags, Obeys


-----------------------------------------------------------------------------
(* Binding again what a bind left *)

\* A type whose values a source sets as a whole, whatever was there.
IsWhole(t) == t.kind \in {"string", "int", "bool", "any", "slice", "map"}

\* The options of the application are on fields that are set as a whole, or on
\* pointers to such: what a handler makes of a struct or of an array that was
\* filled in place is no business of the binder's.
HandlersOnWholes ==
    \A t \in Types : t.kind = "struct" =>
      \A i \in DOMAIN t.fields :
        LET f == t.fields[i] IN
        Has(f.tag, "custom") => IsWhole(f.type) \/ (f.type.kind = "pointer" /\ IsWhole(f.type.elem))

\* The assignments give the same answer when they meet the value they left.
Settles(t) ==
    /\ \A old, src, path, e : IsEnv(e) /\ src \in Inputs /\ HasType(old, t) =>
         assign(t, assign(t, old, src, path, e).val, src, path, e) = assign(t, old, src, path, e)
    /\ \A old, raw, path, e : IsEnv(e) /\ raw \in STRING /\ HasType(old, t) =>
         assignString(t, assignString(t, old, raw, path, e).val, raw, path, e) = assignString(t, old, raw, path, e)
    /\ t.kind = "struct" =>
         \A node, old, path, e : IsEnv(e) /\ IsTree(node) /\ HasType(old, t) =>
           bindStruct(node, t, bindStruct(node, t, old, path, e).val, path, e) = bindStruct(node, t, old, path, e)

SmallerSettle(t) == \A u \in Types : Depth[u] < Depth[t] => Settles(u)

\* What an assignment that succeeds leaves does not depend on what was there.
FreshAssigned(t) ==
    \A old, other, src, path, e :
      /\ IsEnv(e) /\ src \in Inputs /\ src # Null /\ HasType(old, t) /\ HasType(other, t)
      /\ assign(t, old, src, path, e).err = NoError
      => assign(t, other, src, path, e) = assign(t, old, src, path, e)
FreshSplit(t) ==
    \A old, other, raw, path, e :
      /\ IsEnv(e) /\ raw \in STRING /\ HasType(old, t) /\ HasType(other, t)
      /\ assignString(t, old, raw, path, e).err = NoError
      => assignString(t, other, raw, path, e) = assignString(t, old, raw, path, e)
Fresh(t) == FreshAssigned(t) /\ FreshSplit(t)

LEMMA FailIsError == \A v, path : \A kind \in ErrorKinds \ {"none"} : Fail(v, kind, path).err # NoError
BY DEF Fail, NoError

LEMMA FreshScalar ==
    ASSUME NEW t \in Types, NEW old, NEW other, NEW src, NEW path, assignScalar(t, old, src, path).err = NoError
    PROVE  assignScalar(t, other, src, path) = assignScalar(t, old, src, path)
<1>1. Scalar(t, src) # {}
  BY FailIsError DEF assignScalar, ErrorKinds
<1> QED
  BY <1>1 DEF assignScalar

LEMMA FreshWhole ==
    ASSUME Recursion, HandlersKeepTypes, NEW t \in Types, IsWhole(t)
    PROVE  Fresh(t)
<1>1. CASE t.kind \in {"slice", "map"}
  <2>1. ASSUME NEW old, NEW other, NEW src \in Inputs, src # Null, NEW path, NEW e, IsEnv(e),
               assign(t, old, src, path, e).err = NoError
        PROVE  assign(t, other, src, path, e) = assign(t, old, src, path, e)
    <3>1. PICK err, log, v : \A w : assign(t, w, src, path, e) = Whole(err, log, v, w)
      <4>1. AssignedAsAWhole(t, src, path, e)
        BY <1>1, <2>1, ListIsWhole
      <4> QED  BY <4>1 DEF AssignedAsAWhole
    <3>2. err = NoError
      BY <2>1, <3>1 DEF Whole
    <3> QED  BY <3>1, <3>2 DEF Whole
  <2>2. ASSUME NEW old, NEW other, NEW raw \in STRING, NEW path, NEW e, IsEnv(e),
               assignString(t, old, raw, path, e).err = NoError
        PROVE  assignString(t, other, raw, path, e) = assignString(t, old, raw, path, e)
    <3>1. PICK err, log, v : \A w : assignString(t, w, raw, path, e) = Whole(err, log, v, w)
      <4>1. SplitAsAWhole(t, raw, path, e)
        BY <1>1, <2>2, ListIsWhole
      <4> QED  BY <4>1 DEF SplitAsAWhole
    <3>2. err = NoError
      BY <2>2, <3>1 DEF Whole
    <3> QED  BY <3>1, <3>2 DEF Whole
  <2>3. FreshAssigned(t)
    BY <2>1 DEF FreshAssigned
  <2>4. FreshSplit(t)
    BY <2>2 DEF FreshSplit
  <2> QED  BY <2>3, <2>4 DEF Fresh
<1>2. CASE t.kind = "any"
  <2>1. ~Hook(t, "text")
    BY <1>2, HooksAssumption
  <2>2. \A w, src, path, e : src # Null => assign(t, w, src, path, e) = assignInterface(t, w, src, path)
    BY <1>2, <2>1 DEF assign
  <2>3. \A w, raw, path, e : assignString(t, w, raw, path, e) = assignInterface(t, w, Text(raw), path)
    BY <1>2, <2>1 DEF assignString
  <2>4. \A w, v, src, path : assignInterface(t, w, src, path).err = NoError =>
          assignInterface(t, v, src, path) = assignInterface(t, w, src, path)
    BY FailIsError DEF assignInterface, ErrorKinds
  <2> QED  BY <2>2, <2>3, <2>4 DEF Fresh, FreshAssigned, FreshSplit
<1>3. CASE t.kind \in {"string", "int", "bool"}
  <2>1. \A w, v, src, path : Hook(t, "text") /\ Unmarshal(t, w, src, path).err = NoError =>
          Unmarshal(t, v, src, path) = Unmarshal(t, w, src, path)
    BY <1>3, FailIsError DEF Unmarshal, ErrorKinds
  <2>2. \A w, src, path, e : src # Null =>
          assign(t, w, src, path, e) = IF Is(src, "text") /\ Hook(t, "text") THEN Unmarshal(t, w, src, path)
                                       ELSE assignScalar(t, w, src, path)
    BY <1>3 DEF assign
  <2>3. \A w, raw, path, e :
          assignString(t, w, raw, path, e) = IF Hook(t, "text") THEN Unmarshal(t, w, Text(raw), path)
                                             ELSE assignScalar(t, w, Text(raw), path)
    BY <1>3 DEF assignString
  <2>4. \A w, v, src, path : assignScalar(t, w, src, path).err = NoError =>
          assignScalar(t, v, src, path) = assignScalar(t, w, src, path)
    BY FreshScalar
  <2>5. \A w, v, src, path, e : src # Null /\ assign(t, w, src, path, e).err = NoError =>
          assign(t, v, src, path, e) = assign(t, w, src, path, e)
    BY <2>1, <2>2, <2>4
  <2>6. \A w, v, raw, path, e : assignString(t, w, raw, path, e).err = NoError =>
          assignString(t, v, raw, path, e) = assignString(t, w, raw, path, e)
    BY <2>1, <2>3, <2>4
  <2> QED  BY <2>5, <2>6 DEF Fresh, FreshAssigned, FreshSplit
<1> QED
  BY <1>1, <1>2, <1>3 DEF IsWhole

\* What an assignment makes of a pointer.
LEMMA PointerAssigned ==
    ASSUME Recursion, NEW t \in Types, t.kind = "pointer"
    PROVE  /\ \A old, src, path, e : src # Null =>
                assign(t, old, src, path, e) = Pointing(assign(t.elem, Allocated(t, old), src, path, e))
           /\ \A old, raw, path, e :
                assignString(t, old, raw, path, e) = Pointing(assignString(t.elem, Allocated(t, old), raw, path, e))
<1>1. ~Hook(t, "text") /\ t.elem \in Types
  BY NoHookOnLists, Elements DEF Containers
<1>2. ASSUME NEW old, NEW src, src # Null, NEW path, NEW e
      PROVE  assign(t, old, src, path, e) = Pointing(assign(t.elem, Allocated(t, old), src, path, e))
  BY <1>1, <1>2 DEF assign, assignPointer, Recursion
<1>3. ASSUME NEW old, NEW raw, NEW path, NEW e
      PROVE  assignString(t, old, raw, path, e) = Pointing(assignString(t.elem, Allocated(t, old), raw, path, e))
  <2>1. assignString(t, old, raw, path, e) = Pointing(InnerAssignString(t.elem, Allocated(t, old), raw, path, e))
    BY <1>1 DEF assignString
  <2>2. InnerAssignString(t.elem, Allocated(t, old), raw, path, e)
          = assignString(t.elem, Allocated(t, old), raw, path, e)
    BY <1>1 DEF Recursion
  <2> QED  BY <2>1, <2>2
<1> QED
  BY <1>2, <1>3

LEMMA PointingOf ==
    ASSUME NEW r, NEW u, IsResult(r, u)
    PROVE  Pointing(r).val = [ref |-> r.val] /\ Pointing(r).err = r.err
BY DEF Pointing, IsResult

LEMMA FreshPointer ==
    ASSUME Recursion, HandlersKeepTypes, NEW t \in Types, t.kind = "pointer", IsWhole(t.elem)
    PROVE  Fresh(t)
<1> DEFINE u == t.elem
<1>1. u \in Types /\ Fresh(u) /\ Keeps(u)
  BY Elements, FreshWhole, AllKeep DEF Containers
<1>2. ASSUME NEW old, NEW other, NEW src \in Inputs, src # Null, NEW path, NEW e, IsEnv(e),
             HasType(old, t), HasType(other, t), assign(t, old, src, path, e).err = NoError
      PROVE  assign(t, other, src, path, e) = assign(t, old, src, path, e)
  <2> DEFINE r(w) == assign(u, Allocated(t, w), src, path, e)
  <2>1. HasType(Allocated(t, old), u) /\ HasType(Allocated(t, other), u)
    BY <1>2, AllocatedHasType
  <2>2. \A w : assign(t, w, src, path, e) = Pointing(r(w))
    BY <1>2, PointerAssigned
  <2>3. IsResult(r(old), u)
    BY <1>1, <1>2, <2>1 DEF Keeps
  <2>4. Pointing(r(old)).err = r(old).err
    <3> HIDE DEF r
    <3> QED  BY <2>3, PointingOf
  <2>5. r(old).err = NoError
    <3> HIDE DEF r
    <3> QED  BY <1>2, <2>2, <2>4
  <2>6. r(other) = r(old)
    BY <1>1, <1>2, <2>1, <2>5 DEF Fresh, FreshAssigned
  <2> HIDE DEF r
  <2> QED  BY <2>2, <2>6
<1>3. ASSUME NEW old, NEW other, NEW raw \in STRING, NEW path, NEW e, IsEnv(e),
             HasType(old, t), HasType(other, t), assignString(t, old, raw, path, e).err = NoError
      PROVE  assignString(t, other, raw, path, e) = assignString(t, old, raw, path, e)
  <2> DEFINE r(w) == assignString(u, Allocated(t, w), raw, path, e)
  <2>1. HasType(Allocated(t, old), u) /\ HasType(Allocated(t, other), u)
    BY <1>3, AllocatedHasType
  <2>2. \A w : assignString(t, w, raw, path, e) = Pointing(r(w))
    BY <1>3, PointerAssigned
  <2>3. IsResult(r(old), u)
    BY <1>1, <1>3, <2>1 DEF Keeps
  <2>4. Pointing(r(old)).err = r(old).err
    <3> HIDE DEF r
    <3> QED  BY <2>3, PointingOf
  <2>5. r(old).err = NoError
    <3> HIDE DEF r
    <3> QED  BY <1>3, <2>2, <2>4
  <2>6. r(other) = r(old)
    BY <1>1, <1>3, <2>1, <2>5 DEF Fresh, FreshSplit
  <2> HIDE DEF r
  <2> QED  BY <2>2, <2>6
<1>4. FreshAssigned(t)
  BY <1>2 DEF FreshAssigned
<1>5. FreshSplit(t)
  BY <1>3 DEF FreshSplit
<1> QED
  BY <1>4, <1>5 DEF Fresh


LEMMA ReplacedTwice ==
    ASSUME NEW t, t.kind = "struct", NEW v, HasType(v, t), NEW name, NEW w
    PROVE  Replaced(Replaced(v, name, w), name, w) = Replaced(v, name, w)
<1>1. v = [struct |-> v.struct] /\ v.struct = [n \in FieldNames(t) |-> v.struct[n]]
  BY DEF HasType
<1>2. \A s : Replaced([struct |-> s], name, w) = [struct |-> [s EXCEPT ![name] = w]]
  BY DEF Replaced
<1>3. [[v.struct EXCEPT ![name] = w] EXCEPT ![name] = w] = [v.struct EXCEPT ![name] = w]
  BY <1>1
<1> QED
  BY <1>1, <1>2, <1>3

LEMMA ReplacedByItself ==
    ASSUME NEW t, t.kind = "struct", NEW v, HasType(v, t), NEW name
    PROVE  Replaced(v, name, v.struct[name]) = v
<1>1. v = [struct |-> v.struct] /\ v.struct = [n \in FieldNames(t) |-> v.struct[n]]
  BY DEF HasType
<1>2. \A s, w : Replaced([struct |-> s], name, w) = [struct |-> [s EXCEPT ![name] = w]]
  BY DEF Replaced
<1>3. [v.struct EXCEPT ![name] = v.struct[name]] = v.struct
  BY <1>1
<1> QED
  BY <1>1, <1>2, <1>3

LEMMA UnmarshalSettles ==
    ASSUME NEW t, NEW old, HasType(old, t), NEW src, NEW path
    PROVE  Unmarshal(t, Unmarshal(t, old, src, path).val, src, path) = Unmarshal(t, old, src, path)
<1>1. CASE ~Readable(src)
  BY <1>1 DEF Unmarshal, Fail
<1>2. CASE Readable(src) /\ t.kind = "struct"
  <2> DEFINE w == [any |-> src]
  <2>1. \A v : Unmarshal(t, v, src, path) = Ok(Replaced(v, "raw", w))
    BY <1>2 DEF Unmarshal, Replaced
  <2> HIDE DEF w
  <2>2. Replaced(Replaced(old, "raw", w), "raw", w) = Replaced(old, "raw", w)
    BY <1>2, ReplacedTwice
  <2> QED  BY <2>1, <2>2 DEF Ok
<1>3. CASE Readable(src) /\ t.kind # "struct"
  BY <1>3 DEF Unmarshal
<1> QED
  BY <1>1, <1>2, <1>3

LEMMA ScalarSettles ==
    ASSUME NEW t, NEW old, NEW src, NEW path
    PROVE  assignScalar(t, assignScalar(t, old, src, path).val, src, path) = assignScalar(t, old, src, path)
BY DEF assignScalar, Fail

LEMMA InterfaceSettles ==
    ASSUME NEW t, NEW old, NEW src, NEW path
    PROVE  assignInterface(t, assignInterface(t, old, src, path).val, src, path) = assignInterface(t, old, src, path)
BY DEF assignInterface, Fail

LEMMA WholeSettles ==
    ASSUME NEW err, NEW log, NEW v, NEW old
    PROVE  Whole(err, log, v, Whole(err, log, v, old).val) = Whole(err, log, v, old)
BY DEF Whole

LEMMA PointerSettles ==
    ASSUME Recursion, HandlersKeepTypes, NEW t \in Types, t.kind = "pointer", SmallerSettle(t),
           NEW old, HasType(old, t), NEW path, NEW e, IsEnv(e)
    PROVE  /\ \A src \in Inputs : src # Null =>
                assign(t, assign(t, old, src, path, e).val, src, path, e) = assign(t, old, src, path, e)
           /\ \A raw \in STRING :
                assignString(t, assignString(t, old, raw, path, e).val, raw, path, e) = assignString(t, old, raw, path, e)
<1> DEFINE u == t.elem
           was == Allocated(t, old)
<1>1. u \in Types /\ Settles(u) /\ Keeps(u) /\ HasType(was, u)
  BY Elements, AllKeep, AllocatedHasType DEF Containers, SmallerSettle
<1>2. \A v : Allocated(t, [ref |-> v]) = v
  BY DEF Allocated, Nil
<1> HIDE DEF was
<1>3. ASSUME NEW src \in Inputs, src # Null
      PROVE  assign(t, assign(t, old, src, path, e).val, src, path, e) = assign(t, old, src, path, e)
  <2> DEFINE r(w) == assign(u, w, src, path, e)
  <2>1. \A w : assign(t, w, src, path, e) = Pointing(r(Allocated(t, w)))
    BY <1>3, PointerAssigned
  <2>2. IsResult(r(was), u) /\ r(r(was).val) = r(was)
    BY <1>1 DEF Keeps, Settles
  <2> HIDE DEF r
  <2>3. Pointing(r(was)).val = [ref |-> r(was).val]
    BY <2>2, PointingOf
  <2>4. assign(t, old, src, path, e) = Pointing(r(was))
    BY <2>1 DEF was
  <2>5. assign(t, [ref |-> r(was).val], src, path, e) = Pointing(r(was))
    BY <1>2, <2>1, <2>2
  <2> QED  BY <2>3, <2>4, <2>5
<1>4. ASSUME NEW raw \in STRING
      PROVE  assignString(t, assignString(t, old, raw, path, e).val, raw, path, e) = assignString(t, old, raw, path, e)
  <2> DEFINE r(w) == assignString(u, w, raw, path, e)
  <2>1. \A w : assignString(t, w, raw, path, e) = Pointing(r(Allocated(t, w)))
    BY PointerAssigned
  <2>2. IsResult(r(was), u) /\ r(r(was).val) = r(was)
    BY <1>1 DEF Keeps, Settles
  <2> HIDE DEF r
  <2>3. Pointing(r(was)).val = [ref |-> r(was).val]
    BY <2>2, PointingOf
  <2>4. assignString(t, old, raw, path, e) = Pointing(r(was))
    BY <2>1 DEF was
  <2>5. assignString(t, [ref |-> r(was).val], raw, path, e) = Pointing(r(was))
    BY <1>2, <2>1, <2>2
  <2> QED  BY <2>3, <2>4, <2>5
<1> QED
  BY <1>3, <1>4

(* The fields *)

LEMMA NestedSettles ==
    ASSUME Recursion, HandlersKeepTypes, NEW t \in Types, Settles(t), NEW old, HasType(old, t), NEW path, NEW e, IsEnv(e)
    PROVE  bindNested(t, bindNested(t, old, path, e).val, path, e) = bindNested(t, old, path, e)
<1>1. CASE t.kind = "pointer" \/ ~isBindableStruct(t)
  BY <1>1 DEF bindNested, Ok
<1>2. CASE t.kind # "pointer" /\ isBindableStruct(t)
  <2>1. t.kind = "struct"
    BY <1>2 DEF isBindableStruct
  <2>2. \A w : bindNested(t, w, path, e) = bindStruct(EmptyTree, t, w, path, e)
    BY <1>2, <2>1 DEF bindNested, Recursion
  <2>3. bindStruct(EmptyTree, t, bindStruct(EmptyTree, t, old, path, e).val, path, e)
          = bindStruct(EmptyTree, t, old, path, e)
    BY <2>1, EmptyIsTree DEF Settles
  <2> QED  BY <2>2, <2>3
<1> QED
  BY <1>1, <1>2

LEMMA EmbeddedSettles ==
    ASSUME Recursion, HandlersKeepTypes, NEW t \in Types, t.kind = "struct", SmallerSettle(t),
           NEW i \in DOMAIN t.fields, Embedded(t.fields[i]), NEW node, IsTree(node), NEW e, IsEnv(e),
           NEW old, HasType(old, t.fields[i].type), NEW path
    PROVE  bindEmbedded(t.fields[i].type, bindEmbedded(t.fields[i].type, old, node, path, e).val, node, path, e)
             = bindEmbedded(t.fields[i].type, old, node, path, e)
<1> DEFINE f == t.fields[i]
           u == f.type
<1>1. u \in Types /\ Settles(u) /\ Depth[u] < Depth[t] /\ isBindableStruct(u)
  BY FieldsOfTypes DEF SmallerSettle, Embedded
<1>2. CASE u.kind # "pointer"
  <2>1. u.kind = "struct"
    BY <1>1, <1>2 DEF isBindableStruct
  <2>2. \A w : bindEmbedded(u, w, node, path, e) = bindStruct(node, u, w, path, e)
    BY <1>1, <1>2, <2>1 DEF bindEmbedded, Recursion
  <2>3. bindStruct(node, u, bindStruct(node, u, old, path, e).val, path, e) = bindStruct(node, u, old, path, e)
    BY <1>1, <2>1 DEF Settles
  <2> QED  BY <2>2, <2>3
<1>3. CASE u.kind = "pointer"
  <2> DEFINE v == u.elem
             was == Allocated(u, old)
             r(w) == bindStruct(node, v, w, path, e)
  <2>1. v \in Types /\ Depth[v] < Depth[u] /\ isBindableStruct(v)
    BY <1>1, <1>3, Elements DEF isBindableStruct, Recursion, Containers
  <2>2. v.kind = "struct"
    BY <1>3, <2>1, TagsAreGood DEF Embedded, isBindableStruct
  <2>3. Settles(v) /\ HasType(was, v)
    BY <1>1, <1>3, <2>1, DepthIsNumber, AllocatedHasType DEF SmallerSettle
  <2>4. \A w : bindEmbedded(u, w, node, path, e) = Pointing(r(Allocated(u, w)))
    BY <1>3, <2>1, <2>2 DEF bindEmbedded, Recursion
  <2>5. IsResult(r(was), v) /\ r(r(was).val) = r(was)
    BY <2>1, <2>2, <2>3, AllKeep DEF Keeps, Settles
  <2>6. \A w : Allocated(u, [ref |-> w]) = w
    BY DEF Allocated, Nil
  <2> HIDE DEF r, was
  <2>7. Pointing(r(was)).val = [ref |-> r(was).val]
    BY <2>5, PointingOf
  <2>8. bindEmbedded(u, old, node, path, e) = Pointing(r(was))
    BY <2>4 DEF was
  <2>9. bindEmbedded(u, [ref |-> r(was).val], node, path, e) = Pointing(r(was))
    BY <2>4, <2>5, <2>6
  <2> QED  BY <2>7, <2>8, <2>9
<1> QED
  BY <1>2, <1>3

LEMMA TakenSettles ==
    ASSUME Recursion, HandlersKeepTypes, NEW t \in Types, t.kind = "struct", SmallerSettle(t),
           NEW i \in DOMAIN t.fields, NEW node, IsTree(node), NEW e, IsEnv(e),
           NEW old, HasType(old, t.fields[i].type), NEW path, Source(t.fields[i], node, e) \in FromOutside
    PROVE  LET taken(w) == Taken(t.fields[i], Source(t.fields[i], node, e), w, node, path, e)
           IN /\ taken(taken(old).val) = taken(old)
              /\ Fresh(t.fields[i].type) /\ taken(old).err = NoError =>
                   \A w : HasType(w, t.fields[i].type) => taken(w) = taken(old)
<1> DEFINE f == t.fields[i]
           u == f.type
           from == Source(f, node, e)
           taken(w) == Taken(f, from, w, node, path, e)
<1>1. u \in Types /\ Settles(u)
  BY FieldsOfTypes DEF SmallerSettle
<1>2. ASSUME NEW raw \in STRING, \A w : taken(w) = assignString(u, w, raw, path, e)
      PROVE  /\ taken(taken(old).val) = taken(old)
             /\ Fresh(u) /\ taken(old).err = NoError => \A w : HasType(w, u) => taken(w) = taken(old)
  <2> HIDE DEF taken
  <2>1. assignString(u, assignString(u, old, raw, path, e).val, raw, path, e) = assignString(u, old, raw, path, e)
    BY <1>1 DEF Settles
  <2>2. Fresh(u) /\ assignString(u, old, raw, path, e).err = NoError =>
          \A w : HasType(w, u) => assignString(u, w, raw, path, e) = assignString(u, old, raw, path, e)
    BY DEF Fresh, FreshSplit
  <2> QED  BY <1>2, <2>1, <2>2
<1>3. ASSUME NEW src \in Inputs, src # Null, \A w : taken(w) = assign(u, w, src, path, e)
      PROVE  /\ taken(taken(old).val) = taken(old)
             /\ Fresh(u) /\ taken(old).err = NoError => \A w : HasType(w, u) => taken(w) = taken(old)
  <2> HIDE DEF taken
  <2>1. assign(u, assign(u, old, src, path, e).val, src, path, e) = assign(u, old, src, path, e)
    BY <1>1 DEF Settles
  <2>2. Fresh(u) /\ assign(u, old, src, path, e).err = NoError =>
          \A w : HasType(w, u) => assign(u, w, src, path, e) = assign(u, old, src, path, e)
    BY <1>3 DEF Fresh, FreshAssigned
  <2> QED  BY <1>3, <2>1, <2>2
<1>4. CASE from = "env"
  <2>1. e[f.tag.env] \in STRING
    BY <1>4 DEF Source, InEnv, IsEnv
  <2>2. \A w : taken(w) = assignString(u, w, e[f.tag.env], path, e)
    BY <1>1, <1>4 DEF Taken, Recursion
  <2> HIDE DEF taken
  <2> QED  BY <1>2, <2>1, <2>2 DEF taken
<1>5. CASE from = "file"
  <2>1. ValueOf(node, Key(f)) \in Inputs /\ ValueOf(node, Key(f)) # Null
    BY <1>5, SelectedValue, GivenValue
  <2>2. \A w : taken(w) = assign(u, w, ValueOf(node, Key(f)), path, e)
    BY <1>1, <1>5 DEF Taken, Recursion
  <2> HIDE DEF taken
  <2> QED  BY <1>3, <2>1, <2>2 DEF taken
<1>6. CASE from = "default"
  <2>1. f.tag.default \in STRING
    BY <1>6, TagsAreGood DEF Source
  <2>2. \A w : taken(w) = assignString(u, w, f.tag.default, path, e)
    BY <1>1, <1>6 DEF Taken, Recursion
  <2> HIDE DEF taken
  <2> QED  BY <1>2, <2>1, <2>2 DEF taken
<1> QED
  BY <1>4, <1>5, <1>6 DEF FromOutside


LEMMA ApplyOfNoHandler ==
    ASSUME NEW tag, ~Has(tag, "custom"), NEW r, NEW path
    PROVE  apply(tag, r, path).val = r.val
<1>1. runCustom(tag, r.val, path) = Ok(r.val)
  BY DEF runCustom
<1> QED
  BY <1>1 DEF apply, Put, Ok

LEMMA OneSettles ==
    ASSUME Recursion, HandlersKeepTypes, HandlersOnWholes, NEW t \in Types, t.kind = "struct", SmallerSettle(t),
           NEW i \in DOMAIN t.fields, NEW node, IsTree(node), NEW e, IsEnv(e),
           NEW old, HasType(old, t.fields[i].type), NEW path
    PROVE  bindOne(t.fields[i], bindOne(t.fields[i], old, node, path, e).val, node, path, e)
             = bindOne(t.fields[i], old, node, path, e)
<1> DEFINE f == t.fields[i]
           u == f.type
           from == Source(f, node, e)
           here == Append(path, Key(f))
           one(w) == bindOne(f, w, node, path, e)
           taken(w) == Taken(f, from, w, node, here, e)
<1>1. u \in Types /\ Settles(u) /\ SmallerKeep(t)
  BY FieldsOfTypes, AllKeep DEF SmallerSettle, SmallerKeep
<1>2. CASE Skipped(f)
  BY <1>2 DEF bindOne, Ok
<1>3. CASE ~Skipped(f) /\ Embedded(f)
  <2>1. \A w : one(w) = bindEmbedded(u, w, node, path, e)
    BY <1>3 DEF bindOne
  <2>2. bindEmbedded(u, bindEmbedded(u, old, node, path, e).val, node, path, e) = bindEmbedded(u, old, node, path, e)
    BY <1>3, EmbeddedSettles
  <2> QED  BY <2>1, <2>2
<1>4. CASE ~Skipped(f) /\ ~Embedded(f)
  <2>1. \A w : one(w) = bindField(f, w, node, path, e)
    BY <1>4 DEF bindOne
  <2>2. CASE from \in {"clash", "missing"}
    <3>1. PICK kind \in ErrorKinds : \A w : one(w) = Fail(w, kind, here)
      BY <2>1, <2>2 DEF bindField, ErrorKinds
    <3> HIDE DEF one
    <3>2. one(old).val = old
      BY <3>1 DEF Fail
    <3> QED  BY <3>2 DEF one
  <2>3. CASE from = "none"
    <3>1. \A w : one(w) = bindNested(u, w, here, e)
      BY <2>1, <2>3 DEF bindField
    <3>2. bindNested(u, bindNested(u, old, here, e).val, here, e) = bindNested(u, old, here, e)
      BY <1>1, NestedSettles
    <3> QED  BY <3>1, <3>2
  <2>4. CASE from \in FromOutside
    <3>1. \A w : one(w) = apply(f.tag, taken(w), here)
      BY <2>1, <2>4 DEF bindField, FromOutside
    <3>2. /\ taken(taken(old).val) = taken(old)
          /\ Fresh(u) /\ taken(old).err = NoError => \A w : HasType(w, u) => taken(w) = taken(old)
      BY <2>4, TakenSettles, SMTT(30)
    <3>3. IsResult(one(old), u)
      BY <1>1, OneKeeps
    <3> HIDE DEF taken, one
    <3>4. CASE taken(old).err # NoError
      <4>1. one(old) = taken(old)
        BY <3>1, <3>4, ApplyOfAnError
      <4>2. one(taken(old).val) = taken(old)
        BY <3>1, <3>2, <3>4, ApplyOfAnError
      <4> QED  BY <4>1, <4>2 DEF one
    <3>5. CASE taken(old).err = NoError /\ Has(f.tag, "custom")
      <4>1. Fresh(u)
        BY <1>1, <3>5, FreshWhole, FreshPointer DEF HandlersOnWholes
      <4>2. taken(one(old).val) = taken(old)
        BY <3>2, <3>3, <3>5, <4>1 DEF IsResult
      <4>3. one(one(old).val) = one(old)
        BY <3>1, <4>2
      <4> QED  BY <4>3 DEF one
    <3>6. CASE ~Has(f.tag, "custom")
      <4>1. one(old).val = taken(old).val
        BY <3>1, <3>6, ApplyOfNoHandler
      <4>2. one(one(old).val) = one(old)
        BY <3>1, <3>2, <4>1
      <4> QED  BY <4>2 DEF one
    <3> QED  BY <3>4, <3>5, <3>6
  <2> QED  BY <2>2, <2>3, <2>4, SourcesOfValues DEF FromOutside
<1> QED
  BY <1>2, <1>3, <1>4

\* A field that the walk has yet to reach is as it was, and will be left as
\* binding it alone leaves it.
LEMMA FieldAhead ==
    ASSUME Recursion, HandlersKeepTypes, NEW t \in Types, t.kind = "struct",
           NEW old, HasType(old, t), NEW node, IsTree(node), NEW path, NEW e, IsEnv(e),
           NEW k \in 1..Len(t.fields), FieldRun(t, old, node, path, e)[k - 1].err = NoError
    PROVE  LET run == FieldRun(t, old, node, path, e)
               name == t.fields[k].name
           IN /\ run[k - 1].val.struct[name] = old.struct[name]
              /\ run[Len(t.fields)].val.struct[name] = Alone(t, old, node, path, e, k).val
<1> DEFINE n == Len(t.fields)
           run == FieldRun(t, old, node, path, e)
           name == t.fields[k].name
           alone(i) == Alone(t, old, node, path, e, i)
<1>1. n \in Nat /\ DOMAIN t.fields = 1..n /\ k - 1 \in 0..n /\ n \in 0..n /\ SmallerKeep(t)
  BY FieldsOfTypes, AllKeep DEF SmallerKeep
<1>2. PICK l : Progress(t, old, node, path, e, k - 1, run[k - 1], l)
  BY <1>1, FieldsOneByOne
<1>3. PICK m : Progress(t, old, node, path, e, n, run[n], m)
  BY <1>1, FieldsOneByOne
<1> HIDE DEF run, alone
<1>4. /\ l = k - 1
      /\ \A i \in 1..(k - 1) : alone(i).err = NoError
      /\ run[k - 1].val.struct[name] = old.struct[name]
  BY <1>1, <1>2 DEF Progress, alone, run
<1>5. /\ m \in 0..n
      /\ \A i \in 1..m : run[n].val.struct[t.fields[i].name] = alone(i).val
      /\ m < n => /\ alone(m + 1).err # NoError
                  /\ run[n].val.struct[t.fields[m + 1].name] = alone(m + 1).val
  BY <1>3 DEF Progress, alone
<1>6. m + 1 >= k
  <2>1. CASE m + 1 < k
    <3>1. m + 1 \in 1..(k - 1) /\ m < n
      BY <1>1, <1>5, <2>1
    <3> QED  BY <1>4, <1>5, <3>1
  <2> QED  BY <1>1, <1>5, <2>1
<1>7. run[n].val.struct[name] = alone(k).val
  <2>1. CASE k \in 1..m
    BY <1>5, <2>1
  <2>2. CASE k = m + 1
    <3>1. m < n
      BY <1>1, <1>5, <2>2
    <3> QED  BY <1>5, <2>2, <3>1
  <2> QED  BY <1>1, <1>5, <1>6, <2>1, <2>2
<1> QED
  BY <1>4, <1>7 DEF alone, run

\* A second walk goes the way of the first one, and changes nothing.
LEMMA FieldsSettle ==
    ASSUME Recursion, HandlersKeepTypes, HandlersOnWholes, NEW t \in Types, t.kind = "struct", SmallerSettle(t),
           NEW old, HasType(old, t), NEW node, IsTree(node), NEW path, NEW e, IsEnv(e)
    PROVE  LET r == bindFields(Ok(old), t, node, path, e)
           IN bindFields(Ok(r.val), t, node, path, e) = r
<1> DEFINE n == Len(t.fields)
           given == [fields |-> t.fields, node |-> node, path |-> path, env |-> e]
           first == FieldRun(t, old, node, path, e)
           left == first[n].val
           again == FieldRun(t, left, node, path, e)
           Follows(k) == again[k] = [val |-> left, err |-> first[k].err, log |-> first[k].log]
           S == {k \in 0..n : Follows(k)}
<1>1. n \in Nat /\ DOMAIN t.fields = 1..n /\ n \in 0..n /\ SmallerKeep(t)
  BY FieldsOfTypes, AllKeep DEF SmallerKeep
<1>2. IsResult(first[n], t) /\ HasType(left, t)
  BY <1>1, FieldsOneByOne DEF IsResult
<1>3. ASSUME NEW k \in 1..n, first[k - 1].err = NoError
      PROVE  /\ first[k - 1].val.struct[t.fields[k].name] = old.struct[t.fields[k].name]
             /\ left.struct[t.fields[k].name] = Alone(t, old, node, path, e, k).val
  BY <1>3, FieldAhead
<1>4. first[0] = Ok(old) /\ \A k \in 1..n : first[k] = NextField(given, first[k - 1], k)
  BY FieldRounds
<1> HIDE DEF first
<1>5. again[0] = Ok(left) /\ \A k \in 1..n : again[k] = NextField(given, again[k - 1], k)
  <2> HIDE DEF left
  <2> QED  BY FieldRounds
<1> HIDE DEF left, again
<1>6. 0 \in S
  BY <1>1, <1>4, <1>5 DEF Ok
<1>7. ASSUME NEW k \in 1..n, k - 1 \in S PROVE k \in S
  <2> DEFINE f == t.fields[k]
             a == first[k - 1]
             b == again[k - 1]
             part == Alone(t, old, node, path, e, k)
  <2>1. b = [val |-> left, err |-> a.err, log |-> a.log]
    BY <1>7
  <2>2. first[k] = NextField(given, a, k) /\ again[k] = NextField(given, b, k)
    BY <1>4, <1>5
  <2> HIDE DEF a, b
  <2>3. CASE a.err # NoError
    <3>1. first[k] = a /\ again[k] = b
      BY <2>1, <2>2, <2>3 DEF NextField
    <3> QED  BY <2>1, <3>1
  <2>4. CASE a.err = NoError
    <3>1. a.val.struct[f.name] = old.struct[f.name] /\ left.struct[f.name] = part.val
      BY <1>3, <2>4 DEF a
    <3>2. part = bindOne(f, old.struct[f.name], node, path, e)
      BY DEF Alone
    <3>3. bindOne(f, part.val, node, path, e) = part
      <4>1. HasType(old.struct[f.name], f.type)
        BY <1>1, FieldHasType
      <4>2. \A w : HasType(w, f.type) =>
              bindOne(f, bindOne(f, w, node, path, e).val, node, path, e) = bindOne(f, w, node, path, e)
        <5>1. k \in DOMAIN t.fields
          BY <1>1
        <5> HIDE DEF n, S, given, Follows, part
        <5> QED  BY <5>1, OneSettles
      <4> QED  BY <3>2, <4>1, <4>2
    <3> HIDE DEF part
    <3>4. first[k] = Put(a, part, Replaced(a.val, f.name, part.val))
      BY <2>2, <2>4, <3>1, <3>2 DEF NextField, Replaced
    <3>5. again[k] = Put(b, part, Replaced(left, f.name, part.val))
      BY <2>1, <2>2, <2>4, <3>1, <3>3, ZenonT(40) DEF NextField, Replaced
    <3>6. Replaced(left, f.name, part.val) = left
      BY <1>2, <3>1, ReplacedByItself
    <3>7. Follows(k)
      BY <2>1, <3>4, <3>5, <3>6 DEF Put
    <3> QED  BY <3>7
  <2> QED  BY <2>3, <2>4
<1> HIDE DEF S
<1>8. \A k \in 1..n : k - 1 \in S => k \in S
  BY <1>7
<1>9. n \in S
  <2> HIDE DEF n
  <2>1. \A k \in 0..n : k \in S
    BY <1>1, <1>6, <1>8, LoopOfFields!LoopInvariant
  <2> QED  BY <1>1, <2>1
<1>10. again[n] = [val |-> left, err |-> first[n].err, log |-> first[n].log]
  BY <1>9 DEF S
<1>11. again[n] = first[n]
  BY <1>2, <1>10 DEF IsResult, left
<1>12. bindFields(Ok(old), t, node, path, e) = first[n] /\ bindFields(Ok(left), t, node, path, e) = again[n]
  BY AllRounds DEF first, again
<1> QED
  BY <1>11, <1>12 DEF left

LEMMA StructSettles ==
    ASSUME Recursion, HandlersKeepTypes, HandlersOnWholes, NEW t \in Types, t.kind = "struct", SmallerSettle(t),
           NEW old, HasType(old, t), NEW node, IsTree(node), NEW path, NEW e, IsEnv(e)
    PROVE  bindStruct(node, t, bindStruct(node, t, old, path, e).val, path, e) = bindStruct(node, t, old, path, e)
<1> DEFINE r == bindFields(Ok(old), t, node, path, e)
<1>1. IsResult(r, t) /\ bindFields(Ok(r.val), t, node, path, e) = r
  <2>1. SmallerKeep(t)
    BY AllKeep DEF SmallerKeep
  <2> QED  BY <2>1, AllFields, FieldsSettle
<1>2. \A w : bindStruct(node, t, w, path, e)
               = LET s == bindFields(Ok(w), t, node, path, e) IN IF s.err = NoError THEN validate(t, s, path) ELSE s
  BY DEF bindStruct
<1>3. bindStruct(node, t, old, path, e) = IF r.err = NoError THEN validate(t, r, path) ELSE r
  BY <1>2
<1> HIDE DEF r
<1>4. bindStruct(node, t, old, path, e).val = r.val
  BY <1>1, <1>3, ValidateKeeps
<1>5. bindStruct(node, t, r.val, path, e) = IF r.err = NoError THEN validate(t, r, path) ELSE r
  BY <1>1, <1>2
<1> QED
  BY <1>3, <1>4, <1>5


(* The items of an array *)

\* An item that was reached found its place as it was, and has left it as it
\* will stay.
LEMMA ItemAhead ==
    ASSUME Recursion, NEW t \in Types, t.kind \in Containers, SmallerKeep(t), NEW e, IsEnv(e), NEW path,
           NEW items \in Seq(Inputs), NEW start, start = [i \in 1..Len(items) |-> start[i]],
           \A i \in 1..Len(items) : HasType(start[i], t.elem)
    PROVE  LET run == ItemRun(t, start, items, path, e)
               n == Len(items)
           IN \A k \in 1..n : run[k - 1].err = NoError =>
                /\ run[k - 1].val[k] = start[k]
                /\ run[n].val[k] = ItemAlone(t, start[k], items, path, e, k).val
<1> DEFINE n == Len(items)
           run == ItemRun(t, start, items, path, e)
           alone(k) == ItemAlone(t, start[k], items, path, e, k)
           Ahead(i) == \A k \in 1..n : k > i => run[i].val[k] = start[k]
           Behinds(i) == \A k \in 1..n : k <= i /\ run[k - 1].err = NoError => run[i].val[k] = alone(k).val
           S == {i \in 0..n : Ahead(i) /\ Behinds(i)}
<1>1. n \in Nat /\ n \in 0..n
  OBVIOUS
<1>2. ItemWalk(t, run, start, items, path, e)
  BY <1>1, ItemRounds
<1>3. \A i \in 0..n : IsList(run[i], t.elem, 1..n)
  BY ItemsOneByOne
<1> HIDE DEF run
<1>4. run[0] = Ok(start) /\ \A i \in 1..n : run[i] = ItemStep(t, run[i - 1], items, path, e, i)
  BY <1>2 DEF ItemWalk
<1>5. 0 \in S
  BY <1>1, <1>4 DEF Ok
<1>6. ASSUME NEW i \in 1..n, i - 1 \in S PROVE i \in S
  <2> DEFINE acc == run[i - 1]
  <2>1. i - 1 \in 0..n /\ i \in 0..n /\ acc.val[i] = start[i] /\ Ahead(i - 1) /\ Behinds(i - 1)
    BY <1>6
  <2>2. CASE acc.err # NoError
    <3>1. run[i] = acc
      BY <1>4, <2>2 DEF ItemStep
    <3>2. Ahead(i)
      BY <2>1, <3>1
    <3>3. ASSUME NEW k \in 1..n, k <= i, run[k - 1].err = NoError PROVE run[i].val[k] = alone(k).val
      <4>1. k # i
        BY <2>2, <3>3
      <4>2. k <= i - 1
        BY <3>3, <4>1
      <4> QED  BY <2>1, <3>1, <3>3, <4>2
    <3> QED  BY <2>1, <3>2, <3>3
  <2>3. CASE acc.err = NoError
    <3> DEFINE part == alone(i)
    <3>1. run[i] = Put(acc, part, [acc.val EXCEPT ![i] = part.val])
      BY <1>4, <2>1, <2>3 DEF ItemStep
    <3>2. acc.val = [j \in 1..n |-> acc.val[j]]
      BY <1>3, <2>1 DEF IsList
    <3> HIDE DEF part
    <3>3. run[i].val[i] = part.val /\ \A k \in 1..n : k # i => run[i].val[k] = acc.val[k]
      BY <3>1, <3>2 DEF Put
    <3>4. Ahead(i)
      BY <2>1, <3>3
    <3>5. ASSUME NEW k \in 1..n, k <= i, run[k - 1].err = NoError PROVE run[i].val[k] = alone(k).val
      <4>1. CASE k = i
        BY <3>3, <4>1 DEF part
      <4>2. CASE k # i
        <5>1. k <= i - 1
          BY <3>5, <4>2
        <5>2. acc.val[k] = alone(k).val
          BY <2>1, <3>5, <5>1
        <5> QED  BY <3>3, <4>2, <5>2
      <4> QED  BY <4>1, <4>2
    <3> QED  BY <2>1, <3>4, <3>5
  <2> QED  BY <2>2, <2>3
<1> HIDE DEF S
<1>7. \A i \in 1..n : i - 1 \in S => i \in S
  BY <1>6
<1>8. \A i \in 0..n : i \in S
  <2> HIDE DEF n
  <2> QED  BY <1>1, <1>5, <1>7, LoopOfItems!LoopInvariant
<1>9. ASSUME NEW k \in 1..n, run[k - 1].err = NoError
      PROVE  run[k - 1].val[k] = start[k] /\ run[n].val[k] = alone(k).val
  <2>1. k - 1 \in 0..n /\ k > k - 1 /\ k <= n
    BY <1>1
  <2>2. Ahead(k - 1) /\ Behinds(n)
    BY <1>1, <1>8, <2>1 DEF S
  <2> QED  BY <1>9, <2>1, <2>2
<1> QED
  BY <1>9 DEF run

LEMMA ItemsSettle ==
    ASSUME Recursion, HandlersKeepTypes, NEW t \in Types, t.kind \in Containers, SmallerSettle(t),
           NEW e, IsEnv(e), NEW path,
           NEW items \in Seq(Inputs), NEW start, start = [i \in 1..Len(items) |-> start[i]],
           \A i \in 1..Len(items) : HasType(start[i], t.elem)
    PROVE  LET r == Converted(t, start, items, path, e)
           IN /\ IsList(r, t.elem, 1..Len(items))
              /\ Converted(t, r.val, items, path, e) = r
<1> DEFINE n == Len(items)
           first == ItemRun(t, start, items, path, e)
           left == first[n].val
           again == ItemRun(t, left, items, path, e)
           Follows(k) == again[k] = [val |-> left, err |-> first[k].err, log |-> first[k].log]
           S == {k \in 0..n : Follows(k)}
<1>1. n \in Nat /\ n \in 0..n /\ SmallerKeep(t) /\ DOMAIN items = 1..n /\ \A i \in 1..n : items[i] \in Inputs
  BY AllKeep DEF SmallerKeep
<1>2. t.elem \in Types /\ Settles(t.elem)
  BY Elements DEF SmallerSettle
<1>3. IsList(first[n], t.elem, 1..n)
  BY <1>1, ItemsOneByOne
<1>4. left = [i \in 1..n |-> left[i]] /\ first[n] = [val |-> left, err |-> first[n].err, log |-> first[n].log]
  BY <1>3 DEF IsList
<1>5. \A k \in 1..n : first[k - 1].err = NoError =>
        /\ first[k - 1].val[k] = start[k]
        /\ left[k] = ItemAlone(t, start[k], items, path, e, k).val
  BY <1>1, ItemAhead, SMTT(30)
<1>6. ItemWalk(t, first, start, items, path, e) /\ ItemWalk(t, again, left, items, path, e)
  BY <1>1, ItemRounds
<1> HIDE DEF first, left, again
<1>7. first[0] = Ok(start) /\ \A i \in 1..n : first[i] = ItemStep(t, first[i - 1], items, path, e, i)
  BY <1>6 DEF ItemWalk
<1>8. again[0] = Ok(left) /\ \A i \in 1..n : again[i] = ItemStep(t, again[i - 1], items, path, e, i)
  BY <1>6 DEF ItemWalk
<1>9. 0 \in S
  BY <1>1, <1>7, <1>8 DEF Ok
<1>10. ASSUME NEW k \in 1..n, k - 1 \in S PROVE k \in S
  <2> DEFINE a == first[k - 1]
             b == again[k - 1]
             part == ItemAlone(t, start[k], items, path, e, k)
  <2>1. b = [val |-> left, err |-> a.err, log |-> a.log]
    BY <1>10
  <2>2. CASE a.err # NoError
    <3>1. first[k] = ItemStep(t, a, items, path, e, k) /\ again[k] = ItemStep(t, b, items, path, e, k)
      BY <1>7, <1>8
    <3> HIDE DEF a, b
    <3>2. b.err # NoError
      BY <2>1, <2>2
    <3>3. first[k] = a /\ again[k] = b
      BY <2>2, <3>1, <3>2 DEF ItemStep
    <3> QED  BY <2>1, <3>3
  <2>3. CASE a.err = NoError
    <3>1. a.val[k] = start[k] /\ left[k] = part.val
      BY <1>5, <2>3
    <3>2. ItemAlone(t, part.val, items, path, e, k) = part
      BY <1>1, <1>2 DEF Settles, ItemAlone
    <3>3. first[k] = Put(a, part, [a.val EXCEPT ![k] = part.val])
      BY <1>7, <2>3, <3>1 DEF ItemStep
    <3>4. again[k] = Put(b, part, [b.val EXCEPT ![k] = part.val])
      <4>1. b.err = NoError /\ b.val[k] = part.val
        BY <2>1, <2>3, <3>1
      <4> HIDE DEF part
      <4> QED  BY <1>8, <3>2, <4>1 DEF ItemStep
    <3> HIDE DEF a, b, part
    <3>5. [b.val EXCEPT ![k] = part.val] = left
      BY <1>4, <2>1, <3>1
    <3>6. again[k] = [val |-> left, err |-> part.err, log |-> a.log \o part.log]
      BY <2>1, <3>4, <3>5 DEF Put
    <3>7. \A v : Put(a, part, v).err = part.err /\ Put(a, part, v).log = a.log \o part.log
      BY DEF Put
    <3>8. first[k].err = part.err /\ first[k].log = a.log \o part.log
      BY <3>3, <3>7
    <3>9. Follows(k)
      BY <3>6, <3>8
    <3> QED  BY <3>9
  <2> QED  BY <2>2, <2>3
<1> HIDE DEF S
<1>11. \A k \in 1..n : k - 1 \in S => k \in S
  BY <1>10
<1>12. n \in S
  <2> HIDE DEF n
  <2>1. \A k \in 0..n : k \in S
    BY <1>1, <1>9, <1>11, LoopOfItems!LoopInvariant
  <2> QED  BY <1>1, <2>1
<1>13. again[n] = first[n]
  BY <1>4, <1>12 DEF S
<1>14. Converted(t, start, items, path, e) = first[n] /\ Converted(t, left, items, path, e) = again[n]
  BY ItemsConverted DEF first, again
<1> QED
  BY <1>3, <1>13, <1>14 DEF left


LEMMA ArraySettles ==
    ASSUME Recursion, HandlersKeepTypes, NEW t \in Types, t.kind = "array", SmallerSettle(t),
           NEW e, IsEnv(e), NEW path, NEW items \in Seq(Inputs), NEW old, HasType(old, t)
    PROVE  assignItems(t, assignItems(t, old, items, path, e).val, items, path, e) = assignItems(t, old, items, path, e)
<1> DEFINE n == Len(items)
           r == Converted(t, old.array, items, path, e)
           InPlace(s) == [val |-> [array |-> s.val], err |-> s.err, log |-> s.log]
<1>1. CASE n # t.len
  <2>1. \A v : assignItems(t, v, items, path, e) = Fail(v, "ErrInvalidValue", path)
    BY <1>1 DEF assignItems
  <2>2. Fail(old, "ErrInvalidValue", path).val = old
    BY DEF Fail
  <2> QED  BY <2>1, <2>2
<1>2. CASE n = t.len
  <2>1. old.array = [i \in 1..n |-> old.array[i]] /\ \A i \in 1..n : InnerHasType(old.array[i], t.elem)
    BY <1>2 DEF HasType
  <2>2. \A i \in 1..n : HasType(old.array[i], t.elem)
    BY <2>1, Elements DEF Recursion, Containers
  <2>3. IsList(r, t.elem, 1..n) /\ Converted(t, r.val, items, path, e) = r
    BY <2>1, <2>2, ItemsSettle DEF Containers
  <2>4. \A v : assignItems(t, v, items, path, e) = [Converted(t, v.array, items, path, e) EXCEPT !.val = [array |-> @]]
    BY <1>2 DEF assignItems
  <2> HIDE DEF r
  <2>5. [r EXCEPT !.val = [array |-> @]] = InPlace(r)
    <3>1. r = [val |-> r.val, err |-> r.err, log |-> r.log]
      BY <2>3 DEF IsList
    <3> QED  BY <3>1
  <2>6. assignItems(t, old, items, path, e) = InPlace(r)
    BY <2>4, <2>5 DEF r
  <2>7. assignItems(t, [array |-> r.val], items, path, e) = InPlace(r)
    <3> DEFINE w == [array |-> r.val]
    <3>1. w.array = r.val
      OBVIOUS
    <3> HIDE DEF w, InPlace
    <3>2. Converted(t, w.array, items, path, e) = r
      BY <2>3, <3>1
    <3>3. assignItems(t, w, items, path, e) = [Converted(t, w.array, items, path, e) EXCEPT !.val = [array |-> @]]
      BY <2>4
    <3>4. assignItems(t, w, items, path, e) = InPlace(r)
      BY <2>5, <3>2, <3>3
    <3> QED  BY <3>4 DEF w
  <2> QED  BY <2>6, <2>7
<1> QED
  BY <1>1, <1>2

(* Every value *)

LEMMA ListSettles ==
    ASSUME Recursion, HandlersKeepTypes, NEW t \in Types, t.kind \in {"slice", "map"},
           NEW old, NEW path, NEW e, IsEnv(e)
    PROVE  /\ \A src \in Inputs : src # Null =>
                assign(t, assign(t, old, src, path, e).val, src, path, e) = assign(t, old, src, path, e)
           /\ \A raw \in STRING :
                assignString(t, assignString(t, old, raw, path, e).val, raw, path, e) = assignString(t, old, raw, path, e)
<1>1. ASSUME NEW src \in Inputs, src # Null
      PROVE  assign(t, assign(t, old, src, path, e).val, src, path, e) = assign(t, old, src, path, e)
  <2>1. AssignedAsAWhole(t, src, path, e)
    BY <1>1, ListIsWhole
  <2>2. PICK err, log, v : \A w : assign(t, w, src, path, e) = Whole(err, log, v, w)
    BY <2>1 DEF AssignedAsAWhole
  <2> QED  BY <2>2, WholeSettles
<1>2. ASSUME NEW raw \in STRING
      PROVE  assignString(t, assignString(t, old, raw, path, e).val, raw, path, e) = assignString(t, old, raw, path, e)
  <2>1. SplitAsAWhole(t, raw, path, e)
    BY ListIsWhole
  <2>2. PICK err, log, v : \A w : assignString(t, w, raw, path, e) = Whole(err, log, v, w)
    BY <2>1 DEF SplitAsAWhole
  <2> QED  BY <2>2, WholeSettles
<1> QED
  BY <1>1, <1>2

LEMMA StructsSettle ==
    ASSUME Recursion, HandlersKeepTypes, HandlersOnWholes, NEW t \in Types, t.kind = "struct", SmallerSettle(t),
           NEW old, HasType(old, t), NEW src \in Inputs, NEW path, NEW e, IsEnv(e)
    PROVE  assignStruct(t, assignStruct(t, old, src, path, e).val, src, path, e) = assignStruct(t, old, src, path, e)
<1>1. CASE Hook(t, "json")
  <2>1. \A v : assignStruct(t, v, src, path, e) = Unmarshal(t, v, src, path)
    BY <1>1 DEF assignStruct
  <2> QED  BY <2>1, UnmarshalSettles
<1>2. CASE ~Hook(t, "json") /\ Is(src, "object") /\ isBindableStruct(t)
  <2>1. \A v : assignStruct(t, v, src, path, e) = bindStruct(src.object, t, v, path, e)
    BY <1>2 DEF assignStruct
  <2>2. IsTree(src.object)
    BY <1>2, InputsAreNodes
  <2> QED  BY <2>1, <2>2, StructSettles
<1>3. CASE ~Hook(t, "json") /\ ~(Is(src, "object") /\ isBindableStruct(t))
  <2>1. \A v : assignStruct(t, v, src, path, e) = Fail(v, "ErrInvalidValue", path)
    BY <1>3 DEF assignStruct
  <2>2. Fail(old, "ErrInvalidValue", path).val = old
    BY DEF Fail
  <2> QED  BY <2>1, <2>2
<1> QED
  BY <1>1, <1>2, <1>3

LEMMA AssignSettles ==
    ASSUME Recursion, HandlersKeepTypes, HandlersOnWholes, NEW t \in Types, SmallerSettle(t),
           NEW old, HasType(old, t), NEW src \in Inputs, NEW path, NEW e, IsEnv(e)
    PROVE  assign(t, assign(t, old, src, path, e).val, src, path, e) = assign(t, old, src, path, e)
<1>1. CASE src = Null
  <2>1. \A v : assign(t, v, src, path, e) = Ok(v)
    BY <1>1 DEF assign
  <2> QED  BY <2>1 DEF Ok
<1>2. CASE src # Null /\ Is(src, "text") /\ Hook(t, "text")
  <2>1. \A v : assign(t, v, src, path, e) = Unmarshal(t, v, src, path)
    BY <1>2 DEF assign
  <2> QED  BY <2>1, UnmarshalSettles
<1>3. CASE src # Null /\ ~(Is(src, "text") /\ Hook(t, "text"))
  <2>1. CASE t.kind = "pointer"
    BY <1>3, <2>1, PointerSettles
  <2>2. CASE t.kind = "any"
    <3>1. \A v : assign(t, v, src, path, e) = assignInterface(t, v, src, path)
      BY <1>3, <2>2 DEF assign
    <3> QED  BY <3>1, InterfaceSettles
  <2>3. CASE t.kind = "struct"
    <3>1. \A v : assign(t, v, src, path, e) = assignStruct(t, v, src, path, e)
      BY <1>3, <2>3 DEF assign
    <3> QED  BY <2>3, <3>1, StructsSettle
  <2>4. CASE t.kind \in {"slice", "map"}
    BY <1>3, <2>4, ListSettles
  <2>5. CASE t.kind = "array"
    <3>1. \A v : assign(t, v, src, path, e) = assignSlice(t, v, src, path, e)
      BY <1>3, <2>5 DEF assign
    <3>2. CASE Is(src, "array")
      <4>1. \A v : assign(t, v, src, path, e) = assignItems(t, v, src.array, path, e)
        BY <3>1, <3>2 DEF assignSlice
      <4>2. src.array \in Seq(Inputs)
        BY <3>2, InputsAreNodes
      <4> QED  BY <2>5, <4>1, <4>2, ArraySettles
    <3>3. CASE ~Is(src, "array")
      <4>1. \A v : assign(t, v, src, path, e) = Fail(v, "ErrInvalidValue", path)
        BY <3>1, <3>3 DEF assignSlice
      <4>2. Fail(old, "ErrInvalidValue", path).val = old
        BY DEF Fail
      <4> QED  BY <4>1, <4>2
    <3> QED  BY <3>2, <3>3
  <2>6. CASE t.kind \in {"string", "int", "bool"}
    <3>1. \A v : assign(t, v, src, path, e) = assignScalar(t, v, src, path)
      BY <1>3, <2>6 DEF assign
    <3> QED  BY <3>1, ScalarSettles
  <2> QED  BY <2>1, <2>2, <2>3, <2>4, <2>5, <2>6, TypesAssumption DEF Containers
<1> QED
  BY <1>1, <1>2, <1>3

LEMMA AssignStringSettles ==
    ASSUME Recursion, HandlersKeepTypes, HandlersOnWholes, NEW t \in Types, SmallerSettle(t),
           NEW old, HasType(old, t), NEW raw \in STRING, NEW path, NEW e, IsEnv(e)
    PROVE  assignString(t, assignString(t, old, raw, path, e).val, raw, path, e) = assignString(t, old, raw, path, e)
<1>1. Text(raw) \in Inputs
  BY InputsAreNodes
<1>2. CASE Hook(t, "text")
  <2>1. \A v : assignString(t, v, raw, path, e) = Unmarshal(t, v, Text(raw), path)
    BY <1>2 DEF assignString
  <2> QED  BY <2>1, UnmarshalSettles
<1>3. CASE ~Hook(t, "text")
  <2>1. CASE t.kind = "pointer"
    BY <2>1, PointerSettles
  <2>2. CASE t.kind = "any"
    <3>1. \A v : assignString(t, v, raw, path, e) = assignInterface(t, v, Text(raw), path)
      BY <1>3, <2>2 DEF assignString
    <3> QED  BY <3>1, InterfaceSettles
  <2>3. CASE t.kind = "struct"
    <3>1. \A v : assignString(t, v, raw, path, e) = assignStruct(t, v, Text(raw), path, e)
      BY <1>3, <2>3 DEF assignString
    <3> QED  BY <1>1, <2>3, <3>1, StructsSettle
  <2>4. CASE t.kind \in {"slice", "map"}
    BY <2>4, ListSettles
  <2>5. CASE t.kind = "array"
    <3> DEFINE texts == [i \in DOMAIN ItemsIn(raw) |-> Text(ItemsIn(raw)[i])]
    <3>1. \A v : assignString(t, v, raw, path, e) = assignItems(t, v, texts, path, e)
      BY <1>3, <2>5 DEF assignString
    <3>2. texts \in Seq(Inputs)
      BY TextsOfItems
    <3> HIDE DEF texts
    <3> QED  BY <2>5, <3>1, <3>2, ArraySettles
  <2>6. CASE t.kind \in {"string", "int", "bool"}
    <3>1. \A v : assignString(t, v, raw, path, e) = assignScalar(t, v, Text(raw), path)
      BY <1>3, <2>6 DEF assignString
    <3> QED  BY <3>1, ScalarSettles
  <2> QED  BY <2>1, <2>2, <2>3, <2>4, <2>5, <2>6, TypesAssumption DEF Containers
<1> QED
  BY <1>2, <1>3

LEMMA AllSettle ==
    ASSUME Recursion, HandlersKeepTypes, HandlersOnWholes
    PROVE  \A t \in Types : Settles(t)
<1> DEFINE G == {t \in Types : Settles(t)}
<1>1. ASSUME NEW t \in Types, \A u \in Types : Depth[u] < Depth[t] => u \in G
      PROVE  t \in G
  <2>1. SmallerSettle(t)
    BY <1>1 DEF SmallerSettle
  <2>2. \A old, src, path, e : IsEnv(e) /\ src \in Inputs /\ HasType(old, t) =>
          assign(t, assign(t, old, src, path, e).val, src, path, e) = assign(t, old, src, path, e)
    BY <2>1, AssignSettles
  <2>3. \A old, raw, path, e : IsEnv(e) /\ raw \in STRING /\ HasType(old, t) =>
          assignString(t, assignString(t, old, raw, path, e).val, raw, path, e) = assignString(t, old, raw, path, e)
    BY <2>1, AssignStringSettles
  <2>4. t.kind = "struct" =>
          \A node, old, path, e : IsEnv(e) /\ IsTree(node) /\ HasType(old, t) =>
            bindStruct(node, t, bindStruct(node, t, old, path, e).val, path, e) = bindStruct(node, t, old, path, e)
    BY <2>1, StructSettles
  <2>5. Settles(t)
    BY <2>2, <2>3, <2>4 DEF Settles
  <2> QED  BY <2>5
<1> HIDE DEF G
<1>2. Types \subseteq G
  <2>1. G \in SUBSET Types  BY DEF G
  <2> QED  BY <1>1, <2>1, TypeInduction
<1> QED
  BY <1>2 DEF G

(* Every reload *)

\* A struct bound from the document and the environment of now holds what that
\* bind left, whatever value of its type it started from.
LeftByTheLast(old) ==
    /\ HasType(old, Root)
    /\ target = bindStruct(tree, Root, old, <<>>, env).val
    /\ outcome = [err |-> bindStruct(tree, Root, old, <<>>, env).err,
                  log |-> bindStruct(tree, Root, old, <<>>, env).log]
Reloadable == Bindable /\ (bound => \E old : LeftByTheLast(old))

LEMMA ReloadableIsInductive ==
    ASSUME Recursion, HandlersKeepTypes
    PROVE  /\ Init => Reloadable
           /\ Reloadable /\ [Next]_vars => Reloadable'
<1>1. Init => Reloadable
  BY BindableIsInductive DEF Init, Reloadable
<1>2. ASSUME Reloadable, [Next]_vars PROVE Bindable'
  BY <1>2, BindableIsInductive DEF Reloadable
<1>3. ASSUME Reloadable, Bind PROVE Reloadable'
  <2>1. HasType(target, Root) /\ Root' = Root /\ tree' = tree /\ env' = env
    BY <1>3, BindableState DEF Reloadable, Bind, Root
  <2>2. /\ target' = bindStruct(tree, Root, target, <<>>, env).val
        /\ outcome' = [err |-> bindStruct(tree, Root, target, <<>>, env).err,
                       log |-> bindStruct(tree, Root, target, <<>>, env).log]
    BY <1>3 DEF Bind
  <2>3. \E old :
          /\ HasType(old, Root')
          /\ target' = bindStruct(tree', Root', old, <<>>, env').val
          /\ outcome' = [err |-> bindStruct(tree', Root', old, <<>>, env').err,
                         log |-> bindStruct(tree', Root', old, <<>>, env').log]
    BY <2>1, <2>2
  <2>4. (\E old : LeftByTheLast(old))'
    BY <2>3 DEF LeftByTheLast
  <2> QED  BY <1>2, <1>3, <2>4 DEF Reloadable, Next
<1>4. ASSUME Reloadable, Configure PROVE Reloadable'
  BY <1>2, <1>4 DEF Reloadable, Next, Configure
<1>5. ASSUME Reloadable, UNCHANGED vars PROVE Reloadable'
  <2>1. Bindable'
    BY <1>2, <1>5
  <2>2. (bound => \E old : LeftByTheLast(old))'
    BY <1>5 DEF Reloadable, LeftByTheLast, vars, Root
  <2> QED  BY <2>1, <2>2 DEF Reloadable
<1> QED
  BY <1>1, <1>3, <1>4, <1>5 DEF Next

\* A load that is run again, from the document and the environment it was run
\* from, leaves the struct as it is and ends the way it ended, even when it
\* failed half way (binder.go:191-218, converter.go:212-239): a program may
\* reload as often as it likes.
THEOREM ReloadsAreIdle ==
    ASSUME Recursion, HandlersKeepTypes, HandlersOnWholes
    PROVE  Spec => ReloadChangesNothing
<1> DEFINE Idle == bound /\ bound' => target' = target /\ outcome' = outcome
<1>1. ASSUME Reloadable, Bind, bound PROVE Idle
  <2>1. PICK old : LeftByTheLast(old)
    BY <1>1 DEF Reloadable
  <2>2. Root \in Types /\ Root.kind = "struct" /\ IsTree(tree) /\ IsEnv(env) /\ HasType(old, Root)
    BY <1>1, <2>1, BindableState DEF Reloadable, LeftByTheLast
  <2> DEFINE r == bindStruct(tree, Root, old, <<>>, env)
             again == bindStruct(tree, Root, r.val, <<>>, env)
  <2>3. again = r
    BY <2>2, AllSettle DEF Settles
  <2>4. target = r.val /\ outcome = [err |-> r.err, log |-> r.log]
    BY <2>1 DEF LeftByTheLast
  <2>5. target' = again.val /\ outcome' = [err |-> again.err, log |-> again.log]
    <3>1. LET b == bindStruct(tree, Root, target, <<>>, env)
          IN target' = b.val /\ outcome' = [err |-> b.err, log |-> b.log]
      BY <1>1 DEF Bind
    <3> HIDE DEF r
    <3> QED  BY <2>4, <3>1
  <2> HIDE DEF r, again
  <2> QED  BY <2>3, <2>4, <2>5
<1>2. Reloadable /\ [Next]_vars => [Idle]_vars
  BY <1>1, OnlyBindEndsBound
<1> HIDE DEF Idle
<1>3. Spec => [][Idle]_vars
  BY <1>2, ReloadableIsInductive, PTL DEF Spec
<1> QED
  BY <1>3 DEF ReloadChangesNothing, Idle



-----------------------------------------------------------------------------
(* The environment hides the document *)

\* What is left of a tree without the keys that match one.
Without(node, key) == [k \in DOMAIN node \ Matches(node, key) |-> node[k]]

\* The struct an embedded field has, or points to.
EmbeddedType(f) == IF f.type.kind = "pointer" THEN f.type.elem ELSE f.type

\* A struct of type t does not look for key at its own level: neither it, nor
\* what is embedded in it.
LooksPast(f, key, G) ==
    Skipped(f) \/ IF Embedded(f) THEN EmbeddedType(f) \in G ELSE Canon[Key(f)] # Canon[key]
IsBlind(t, key) ==
    \E G \in SUBSET Types :
      /\ t \in G
      /\ \A u \in G : u.kind = "struct" => \A i \in DOMAIN u.fields : LooksPast(u.fields[i], key, G)

\* No other field of a struct reads the key of one that the environment may
\* provide.
EnvKeysAreTheirOwn ==
    \A s \in Schema : \A i \in DOMAIN TypeOf[s].fields :
      LET f == TypeOf[s].fields[i] IN
      Has(f.tag, "env") =>
        /\ Skipped(f) \/ ~Embedded(f)
        /\ \A j \in DOMAIN TypeOf[s].fields \ {i} :
             LooksPast(TypeOf[s].fields[j], Key(f), {u \in Types : IsBlind(u, Key(f))})

LEMMA OtherKeys ==
    ASSUME NEW node, NEW key, NEW other, Canon[other] # Canon[key]
    PROVE  LET rest == Without(node, key)
           IN /\ Ambiguous(rest, other) <=> Ambiguous(node, other)
              /\ Given(rest, other) <=> Given(node, other)
              /\ Given(node, other) => ValueOf(rest, other) = ValueOf(node, other)
<1> DEFINE rest == Without(node, key)
<1>1. DOMAIN rest = DOMAIN node \ Matches(node, key) /\ \A k \in DOMAIN rest : rest[k] = node[k]
  BY DEF Without
<1> HIDE DEF rest
<1>2. Matches(rest, other) = Matches(node, other)
  BY <1>1 DEF Matches
<1>3. \A c \in Matches(node, other) : rest[c] = node[c]
  BY <1>1, <1>2 DEF Matches
<1>4. Given(node, other) => ValueOf(rest, other) = ValueOf(node, other)
  BY <1>2, <1>3 DEF Given, ValueOf
<1>5. Ambiguous(rest, other) <=> Ambiguous(node, other)
  BY <1>2 DEF Ambiguous
<1>6. Given(rest, other) <=> Given(node, other)
  BY <1>2, <1>3 DEF Given
<1> QED
  BY <1>4, <1>5, <1>6 DEF rest

LEMMA FieldPast ==
    ASSUME NEW f, NEW node, NEW key, Canon[Key(f)] # Canon[key], NEW old, NEW path, NEW e
    PROVE  bindField(f, old, Without(node, key), path, e) = bindField(f, old, node, path, e)
<1> DEFINE rest == Without(node, key)
           here == Append(path, Key(f))
           from == Source(f, node, e)
<1>1. /\ Ambiguous(rest, Key(f)) <=> Ambiguous(node, Key(f))
      /\ Given(rest, Key(f)) <=> Given(node, Key(f))
      /\ Given(node, Key(f)) => ValueOf(rest, Key(f)) = ValueOf(node, Key(f))
  BY OtherKeys
<1> HIDE DEF rest
<1>2. Source(f, rest, e) = from
  BY <1>1 DEF Source
<1>3. /\ from \in {"env", "clash", "file", "default", "missing", "none"}
      /\ from = "file" => Given(node, Key(f))
  BY DEF Source
<1> HIDE DEF from
<1>4. from \in {"env", "file", "default"} =>
        Taken(f, from, old, rest, here, e) = Taken(f, from, old, node, here, e)
  BY <1>1, <1>3 DEF Taken
<1>5. ASSUME from \notin {"env", "file", "default"}
      PROVE  bindField(f, old, rest, path, e) = bindField(f, old, node, path, e)
  <2>1. ASSUME from = "clash"
        PROVE  /\ bindField(f, old, rest, path, e) = Fail(old, "ErrDuplicateKey", here)
               /\ bindField(f, old, node, path, e) = Fail(old, "ErrDuplicateKey", here)
    BY <1>2, <2>1 DEF bindField, from
  <2>2. ASSUME from = "missing"
        PROVE  /\ bindField(f, old, rest, path, e) = Fail(old, "ErrMissingField", here)
               /\ bindField(f, old, node, path, e) = Fail(old, "ErrMissingField", here)
    BY <1>2, <2>2 DEF bindField, from
  <2>3. ASSUME from = "none"
        PROVE  /\ bindField(f, old, rest, path, e) = bindNested(f.type, old, here, e)
               /\ bindField(f, old, node, path, e) = bindNested(f.type, old, here, e)
    BY <1>2, <2>3 DEF bindField, from
  <2> HIDE DEF here
  <2> QED  BY <1>3, <1>5, <2>1, <2>2, <2>3
<1>6. ASSUME from \in {"env", "file", "default"}
      PROVE  bindField(f, old, rest, path, e) = bindField(f, old, node, path, e)
  <2>1. bindField(f, old, rest, path, e) = apply(f.tag, Taken(f, from, old, rest, here, e), here)
    BY <1>2, <1>6 DEF bindField
  <2>2. bindField(f, old, node, path, e) = apply(f.tag, Taken(f, from, old, node, here, e), here)
    BY <1>6 DEF bindField, from
  <2> HIDE DEF here
  <2> QED  BY <1>4, <1>6, <2>1, <2>2
<1>7. bindField(f, old, rest, path, e) = bindField(f, old, node, path, e)
  BY <1>5, <1>6
<1> QED
  BY <1>7 DEF rest

\* Two documents that are the same to each of the fields are the same.
LEMMA SameToTheFields ==
    ASSUME NEW t \in Types, t.kind = "struct", NEW one, NEW two, NEW old, NEW path, NEW e,
           \A i \in DOMAIN t.fields : \A w : bindOne(t.fields[i], w, one, path, e) = bindOne(t.fields[i], w, two, path, e)
    PROVE  bindStruct(one, t, old, path, e) = bindStruct(two, t, old, path, e)
<1> DEFINE n == Len(t.fields)
           given(node) == [fields |-> t.fields, node |-> node, path |-> path, env |-> e]
           a == FieldRun(t, old, one, path, e)
           b == FieldRun(t, old, two, path, e)
           S == {i \in 0..n : a[i] = b[i]}
<1>1. n \in Nat /\ DOMAIN t.fields = 1..n
  BY FieldsOfTypes
<1>2. /\ a[0] = Ok(old) /\ \A i \in 1..n : a[i] = NextField(given(one), a[i - 1], i)
      /\ b[0] = Ok(old) /\ \A i \in 1..n : b[i] = NextField(given(two), b[i - 1], i)
  BY FieldRounds
<1>3. bindFields(Ok(old), t, one, path, e) = a[n] /\ bindFields(Ok(old), t, two, path, e) = b[n]
  BY AllRounds
<1> HIDE DEF a, b
<1>4. 0 \in S
  BY <1>1, <1>2
<1>5. ASSUME NEW i \in 1..n PROVE \A acc : NextField(given(one), acc, i) = NextField(given(two), acc, i)
  BY <1>1 DEF NextField
<1>6. ASSUME NEW i \in 1..n, i - 1 \in S PROVE i \in S
  BY <1>2, <1>5, <1>6
<1> HIDE DEF S
<1>7. \A i \in 1..n : i - 1 \in S => i \in S
  BY <1>6
<1> HIDE DEF n
<1>8. \A i \in 0..n : i \in S
  BY <1>1, <1>4, <1>7, LoopOfFields!LoopInvariant
<1>9. bindFields(Ok(old), t, one, path, e) = bindFields(Ok(old), t, two, path, e)
  BY <1>1, <1>3, <1>8 DEF S
<1> QED
  BY <1>9 DEF bindStruct

\* A struct that does not look for a key is bound alike with and without it.
BindsAlike(t, key) ==
    \A node, old, path, e : bindStruct(Without(node, key), t, old, path, e) = bindStruct(node, t, old, path, e)

LEMMA EmbeddedTypes ==
    ASSUME Recursion, NEW t \in Types, t.kind = "struct", NEW i \in DOMAIN t.fields, Embedded(t.fields[i])
    PROVE  LET u == EmbeddedType(t.fields[i]) IN u \in Types /\ u.kind = "struct" /\ Depth[u] < Depth[t]
<1> DEFINE f == t.fields[i]
           u == f.type
<1>1. u \in Types /\ Depth[u] < Depth[t] /\ isBindableStruct(u)
  BY FieldsOfTypes DEF Embedded
<1>2. CASE u.kind # "pointer"
  <2>1. EmbeddedType(f) = u /\ u.kind = "struct"
    BY <1>1, <1>2 DEF EmbeddedType, isBindableStruct
  <2> QED  BY <1>1, <2>1
<1>3. CASE u.kind = "pointer"
  <2>1. u.elem \in Types /\ Depth[u.elem] < Depth[u] /\ isBindableStruct(u.elem)
    BY <1>1, <1>3, Elements DEF isBindableStruct, Recursion, Containers
  <2>2. u.elem.kind = "struct"
    BY <1>3, <2>1, TagsAreGood DEF Embedded, isBindableStruct
  <2>3. Depth[u.elem] < Depth[t]
    BY <1>1, <2>1, DepthIsNumber
  <2>4. EmbeddedType(f) = u.elem
    BY <1>3 DEF EmbeddedType
  <2> QED  BY <2>1, <2>2, <2>3, <2>4
<1> QED
  BY <1>2, <1>3

\* The structs of G that are smaller than t are bound alike without key.
AreAlike(G, t, key) ==
    \A u \in G : u \in Types /\ u.kind = "struct" /\ Depth[u] < Depth[t] => BindsAlike(u, key)

\* The field i of a t is bound alike without key.
IsAlike(t, i, key) ==
    \A node, w, path, e : bindOne(t.fields[i], w, Without(node, key), path, e) = bindOne(t.fields[i], w, node, path, e)

LEMMA OnePast ==
    ASSUME Recursion, NEW t \in Types, t.kind = "struct", NEW i \in DOMAIN t.fields, NEW key, NEW G,
           LooksPast(t.fields[i], key, G), AreAlike(G, t, key)
    PROVE  IsAlike(t, i, key)
<1> SUFFICES ASSUME NEW node, NEW w, NEW path, NEW e
             PROVE  bindOne(t.fields[i], w, Without(node, key), path, e) = bindOne(t.fields[i], w, node, path, e)
  BY DEF IsAlike
<1> DEFINE f == t.fields[i]
           rest == Without(node, key)
<1>1. CASE Skipped(f)
  BY <1>1 DEF bindOne
<1>2. CASE ~Skipped(f) /\ Embedded(f)
  <2> DEFINE u == EmbeddedType(f)
  <2>1. u \in Types /\ u.kind = "struct" /\ Depth[u] < Depth[t]
    BY <1>2, EmbeddedTypes
  <2>2. u \in G
    BY <1>2 DEF LooksPast
  <2>3. BindsAlike(u, key)
    BY <2>1, <2>2 DEF AreAlike
  <2>4. \A v : InnerBindStruct(rest, u, v, path, e) = InnerBindStruct(node, u, v, path, e)
    BY <2>1, <2>3 DEF BindsAlike, Recursion
  <2>5. CASE f.type.kind # "pointer"
    <3>1. u = f.type
      BY <2>5 DEF EmbeddedType
    <3> HIDE DEF rest, f, u
    <3>2. \A doc : bindEmbedded(f.type, w, doc, path, e) = InnerBindStruct(doc, u, w, path, e)
      BY <2>5, <3>1 DEF bindEmbedded
    <3>3. bindEmbedded(f.type, w, rest, path, e) = bindEmbedded(f.type, w, node, path, e)
      BY <2>4, <3>2
    <3>4. bindOne(f, w, rest, path, e) = bindOne(f, w, node, path, e)
      BY <1>2, <3>3 DEF bindOne
    <3> QED  BY <3>4 DEF f, rest
  <2>6. CASE f.type.kind = "pointer"
    <3>1. u = f.type.elem
      BY <2>6 DEF EmbeddedType
    <3> HIDE DEF rest, f, u
    <3>2. \A doc : bindEmbedded(f.type, w, doc, path, e)
                       = Pointing(InnerBindStruct(doc, u, Allocated(f.type, w), path, e))
      BY <2>6, <3>1 DEF bindEmbedded
    <3>3. bindEmbedded(f.type, w, rest, path, e) = bindEmbedded(f.type, w, node, path, e)
      BY <2>4, <3>2
    <3>4. bindOne(f, w, rest, path, e) = bindOne(f, w, node, path, e)
      BY <1>2, <3>3 DEF bindOne
    <3> QED  BY <3>4 DEF f, rest
  <2> QED  BY <2>5, <2>6
<1>3. CASE ~Skipped(f) /\ ~Embedded(f)
  <2>1. Canon[Key(f)] # Canon[key]
    BY <1>3 DEF LooksPast
  <2>2. bindField(f, w, rest, path, e) = bindField(f, w, node, path, e)
    BY <2>1, FieldPast
  <2>3. bindOne(f, w, rest, path, e) = bindOne(f, w, node, path, e)
    <3> HIDE DEF f, rest
    <3> QED  BY <1>3, <2>2 DEF bindOne
  <2> QED  BY <2>3
<1> QED
  BY <1>1, <1>2, <1>3

LEMMA BlindStructs ==
    ASSUME Recursion, NEW key
    PROVE  \A t \in Types : t.kind = "struct" /\ IsBlind(t, key) => BindsAlike(t, key)
<1> DEFINE Good == {t \in Types : t.kind = "struct" /\ IsBlind(t, key) => BindsAlike(t, key)}
<1>1. ASSUME NEW t \in Types, \A u \in Types : Depth[u] < Depth[t] => u \in Good
      PROVE  t \in Good
  <2>1. SUFFICES ASSUME t.kind = "struct", IsBlind(t, key) PROVE BindsAlike(t, key)
    OBVIOUS
  <2>2. PICK G \in SUBSET Types :
          /\ t \in G
          /\ \A u \in G : u.kind = "struct" => \A i \in DOMAIN u.fields : LooksPast(u.fields[i], key, G)
    BY <2>1 DEF IsBlind
  <2>3. \A u \in G : IsBlind(u, key)
    BY <2>2 DEF IsBlind
  <2>4. AreAlike(G, t, key)
    BY <1>1, <2>3 DEF AreAlike
  <2>5. ASSUME NEW node, NEW old, NEW path, NEW e
        PROVE  bindStruct(Without(node, key), t, old, path, e) = bindStruct(node, t, old, path, e)
    <3>1. \A i \in DOMAIN t.fields : \A w :
            bindOne(t.fields[i], w, Without(node, key), path, e) = bindOne(t.fields[i], w, node, path, e)
      <4>1. SUFFICES ASSUME NEW i \in DOMAIN t.fields, NEW w
                     PROVE  bindOne(t.fields[i], w, Without(node, key), path, e) = bindOne(t.fields[i], w, node, path, e)
        OBVIOUS
      <4>2. LooksPast(t.fields[i], key, G)
        BY <2>1, <2>2
      <4> HIDE DEF Good
      <4>3. IsAlike(t, i, key)
        BY <2>1, <2>4, <4>2, OnePast
      <4> QED  BY <4>3 DEF IsAlike
    <3> QED  BY <2>1, <3>1, SameToTheFields
  <2> QED  BY <2>5 DEF BindsAlike
<1>2. Good \in SUBSET Types
  OBVIOUS
<1> HIDE DEF Good
<1>3. Types \subseteq Good
  BY <1>1, <1>2, TypeInduction
<1> QED
  BY <1>3 DEF Good

\* What the environment gives a field hides what the document says of it: the
\* bind is the one of a document without its key, however wrong that is there
\* (binder.go:255-265).  A struct in which a second field reads the same key, by
\* itself or from inside an embedded struct, is another matter.
THEOREM EnvironmentHidesFile ==
    ASSUME Recursion, HandlersKeepTypes, EnvKeysAreTheirOwn
    PROVE  Spec => EnvHidesFile
<1> DEFINE Hides ==
      bound' => \A f \in Fields : InEnv(f.tag, env) # {} =>
        LET rest == [k \in DOMAIN tree \ Matches(tree, Key(f)) |-> tree[k]]
        IN LeftBy(bindStruct(rest, Root, target, <<>>, env))
<1>1. ASSUME Bindable, Bind, NEW i \in DOMAIN Root.fields, InEnv(Root.fields[i].tag, env) # {}
      PROVE  bindStruct(Without(tree, Key(Root.fields[i])), Root, target, <<>>, env)
               = bindStruct(tree, Root, target, <<>>, env)
  <2> DEFINE f == Root.fields[i]
             rest == Without(tree, Key(f))
             G == {u \in Types : IsBlind(u, Key(f))}
  <2>1. Root \in Types /\ Root.kind = "struct" /\ schema \in Schema
    BY <1>1, BindableState DEF Bindable
  <2>2. Has(f.tag, "env")
    BY <1>1 DEF InEnv
  <2>3. /\ Skipped(f) \/ ~Embedded(f)
        /\ \A j \in DOMAIN Root.fields \ {i} : LooksPast(Root.fields[j], Key(f), G)
    BY <2>1, <2>2 DEF EnvKeysAreTheirOwn, Root
  <2>4. AreAlike(G, Root, Key(f))
    BY BlindStructs DEF AreAlike
  <2>5. ASSUME NEW j \in DOMAIN Root.fields, NEW w
        PROVE  bindOne(Root.fields[j], w, rest, <<>>, env) = bindOne(Root.fields[j], w, tree, <<>>, env)
    <3>1. CASE j # i
      <4>1. LooksPast(Root.fields[j], Key(f), G)
        BY <2>3, <3>1
      <4> HIDE DEF G
      <4>2. IsAlike(Root, j, Key(f))
        BY <2>1, <2>4, <4>1, OnePast
      <4> QED  BY <4>2 DEF IsAlike
    <3>2. CASE j = i /\ Skipped(f)
      BY <3>2 DEF bindOne
    <3>3. CASE j = i /\ ~Skipped(f)
      <4>1. Source(f, rest, env) = "env" /\ Source(f, tree, env) = "env"
        BY <1>1 DEF Source
      <4>2. \A node : Source(f, node, env) = "env" =>
              bindField(f, w, node, <<>>, env)
                = apply(f.tag, InnerAssignString(f.type, w, env[f.tag.env], Append(<<>>, Key(f)), env), Append(<<>>, Key(f)))
        BY DEF bindField, Taken
      <4>3. bindField(f, w, rest, <<>>, env) = bindField(f, w, tree, <<>>, env)
        BY <4>1, <4>2
      <4> QED  BY <2>3, <3>3, <4>3 DEF bindOne
    <3> QED  BY <3>1, <3>2, <3>3
  <2>6. \A j \in DOMAIN Root.fields : \A w :
          bindOne(Root.fields[j], w, rest, <<>>, env) = bindOne(Root.fields[j], w, tree, <<>>, env)
    BY <2>5
  <2> HIDE DEF rest
  <2>7. bindStruct(rest, Root, target, <<>>, env) = bindStruct(tree, Root, target, <<>>, env)
    BY <2>1, <2>6, SameToTheFields
  <2> QED  BY <2>7 DEF rest
<1>2. ASSUME Bindable, Bind PROVE Hides
  <2>1. LeftBy(bindStruct(tree, Root, target, <<>>, env))
    BY <1>2 DEF LeftBy, Bind
  <2>2. \A i \in DOMAIN Root.fields : InEnv(Root.fields[i].tag, env) # {} =>
          LeftBy(bindStruct(Without(tree, Key(Root.fields[i])), Root, target, <<>>, env))
    BY <1>1, <1>2, <2>1
  <2> QED  BY <2>2 DEF Fields, Without
<1>3. Bindable /\ [Next]_vars => [Hides]_vars
  BY <1>2, OnlyBindEndsBound
<1> HIDE DEF Hides
<1>4. Spec => [][Hides]_vars
  BY <1>3, AlwaysBindable, PTL DEF Spec
<1> QED
  BY <1>4 DEF EnvHidesFile, Hides
=============================================================================
