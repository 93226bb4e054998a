-------------------------- MODULE BindLevel_proofs --------------------------
(***************************************************************************)
(* What the operators of BindLevel keep: whatever they are given, they     *)
(* make of a value of a type another value of that type, for all types,    *)
(* documents and environments.                                             *)
(*                                                                         *)
(* The constants named Inner... stand for what the definitions make of the *)
(* types inside a type.  Recursion says that they are the definitions; in  *)
(* the runs a .cfg makes it so.  Such operators exist because every type   *)
(* has a Depth, and what is proved by means of them is proved by induction *)
(* on it.                                                                  *)
(***************************************************************************)
EXTENDS BindTypes, TLAPS

LoopOfHandlers == INSTANCE Iteration_proofs WITH Round <- NextHandler
LoopOfFields == INSTANCE Iteration_proofs WITH Round <- NextField
LoopOfItems == INSTANCE Iteration_proofs WITH Round <- NextItem
LoopOfEntries == INSTANCE Iteration_proofs WITH Round <- NextEntry

-----------------------------------------------------------------------------
(* Assumptions *)

\* What the definitions ask about a type inside a type is what they say of it.
Recursion ==
    /\ \A t \in Types : InnerZero(t) = Zero(t)
    /\ \A t \in Types : InnerBindable(t) <=> isBindableStruct(t)
    /\ \A t \in Types : \A v : InnerHasType(v, t) <=> HasType(v, t)
    /\ \A t \in Types : \A old, src, path, e :
         InnerAssign(t, old, src, path, e) = assign(t, old, src, path, e)
    /\ \A t \in Types : \A old, raw, path, e :
         InnerAssignString(t, old, raw, path, e) = assignString(t, old, raw, path, e)
    /\ \A t \in Types : t.kind = "struct" => \A node, old, path, e :
         InnerBindStruct(node, t, old, path, e) = bindStruct(node, t, old, path, e)
    /\ \A t \in Types : \A tag, v, path :
         HasType(v, t) => InnerRunCustom(tag, v, path) = runCustom(tag, v, path)

\* A handler of the application is handed a value of some type, and the value
\* it leaves has that type, as Go sees to.
HandlersKeepTypes ==
    \A t \in Types : \A h \in STRING : \A v :
      HasType(v, t) => \A w \in Handled(h, v) : HasType(w, t)

-----------------------------------------------------------------------------
(* Induction over the types *)

LEMMA TypeInduction ==
    ASSUME NEW G \in SUBSET Types,
           \A t \in Types : (\A u \in Types : Depth[u] < Depth[t] => u \in G) => t \in G
    PROVE  Types \subseteq G
<1> DEFINE Bad == {Depth[t] : t \in Types \ G}
<1> SUFFICES ASSUME Types \ G # {} PROVE FALSE
  OBVIOUS
<1>1. Bad \in SUBSET Nat /\ Bad # {}
  BY TypesAssumption
<1> HIDE DEF Bad
<1>2. PICK d \in Bad : \A c \in Bad : d <= c
  BY <1>1, LoopOfFields!LeastNumber
<1>3. PICK t \in Types \ G : d = Depth[t]
  BY <1>2 DEF Bad
<1>4. ASSUME NEW u \in Types, Depth[u] < Depth[t] PROVE u \in G
  <2>1. CASE u \notin G
    <3>1. Depth[u] \in Bad  BY <2>1 DEF Bad
    <3> QED  BY <3>1, <1>2, <1>3, <1>4, TypesAssumption
  <2> QED  BY <2>1
<1> QED
  BY <1>3, <1>4

LEMMA Elements ==
    ASSUME NEW t \in Types, t.kind \in Containers
    PROVE  t.elem \in Types /\ Depth[t.elem] < Depth[t]
BY TypesAssumption

LEMMA FieldsOfTypes ==
    ASSUME NEW t \in Types, t.kind = "struct"
    PROVE  /\ Len(t.fields) \in Nat /\ DOMAIN t.fields = 1..Len(t.fields)
           /\ \A i \in DOMAIN t.fields : t.fields[i].type \in Types /\ Depth[t.fields[i].type] < Depth[t]
           /\ \A i, j \in DOMAIN t.fields : t.fields[i].name = t.fields[j].name => i = j
           /\ \A i \in DOMAIN t.fields : FieldNamed(t, t.fields[i].name) = t.fields[i]
<1>1. t.fields \in Seq({t.fields[i] : i \in DOMAIN t.fields})
  BY TypesAssumption
<1>2. Len(t.fields) \in Nat /\ DOMAIN t.fields = 1..Len(t.fields)
  BY <1>1
<1>3. /\ \A i \in DOMAIN t.fields : t.fields[i].type \in Types /\ Depth[t.fields[i].type] < Depth[t]
      /\ \A i, j \in DOMAIN t.fields : t.fields[i].name = t.fields[j].name => i = j
  BY FieldsAssumption
<1>4. ASSUME NEW i \in DOMAIN t.fields PROVE FieldNamed(t, t.fields[i].name) = t.fields[i]
  BY <1>3 DEF FieldNamed
<1> QED
  BY <1>2, <1>3, <1>4

-----------------------------------------------------------------------------
(* Values *)

\* A struct value has the fields of its type, each with a value of its type.
LEMMA StructValue ==
    ASSUME NEW t \in Types, t.kind = "struct", NEW s
    PROVE  HasType([struct |-> s], t) <=>
             /\ s = [n \in FieldNames(t) |-> s[n]]
             /\ \A i \in DOMAIN t.fields : InnerHasType(s[t.fields[i].name], t.fields[i].type)
<1> DEFINE v == [struct |-> s]
<1>1. Is(v, "struct") /\ v = [struct |-> v.struct] /\ v.struct = s
  BY DEF Is, Has
<1> HIDE DEF v
<1> QED
  BY <1>1 DEF HasType, v

\* A zero value is a value of its type.
LEMMA ZeroHasType ==
    ASSUME Recursion
    PROVE  \A t \in Types : HasType(Zero(t), t)
<1> DEFINE G == {t \in Types : HasType(Zero(t), t)}
<1>1. ASSUME NEW t \in Types, \A u \in Types : Depth[u] < Depth[t] => u \in G
      PROVE  t \in G
  <2>1. CASE t.kind \in {"string", "int", "bool", "pointer", "slice", "map", "any"}
    <3>1. t.kind = "int" => 0 \in t.width
      BY TypesAssumption
    <3> QED  BY <2>1, <3>1 DEF HasType, Zero, Nil, Is, Has
  <2>2. CASE t.kind = "array"
    <3>1. HasType(Zero(t.elem), t.elem) /\ t.elem \in Types
      BY <2>2, <1>1, Elements DEF Containers
    <3>2. InnerHasType(InnerZero(t.elem), t.elem)
      BY <3>1 DEF Recursion
    <3> QED  BY <2>2, <3>2 DEF HasType, Zero, Is, Has
  <2>3. CASE t.kind = "struct"
    <3> DEFINE zero(n) == InnerZero(FieldNamed(t, n).type)
    <3>1. ASSUME NEW i \in DOMAIN t.fields
          PROVE  t.fields[i].name \in FieldNames(t) /\ InnerHasType(zero(t.fields[i].name), t.fields[i].type)
      <4>1. t.fields[i].type \in Types /\ HasType(Zero(t.fields[i].type), t.fields[i].type)
        BY <2>3, <1>1, FieldsOfTypes
      <4>2. zero(t.fields[i].name) = Zero(t.fields[i].type)
        BY <2>3, <4>1, FieldsOfTypes DEF Recursion
      <4> QED  BY <4>1, <4>2 DEF Recursion, FieldNames
    <3> DEFINE s == [n \in FieldNames(t) |-> zero(n)]
    <3>2. Zero(t) = [struct |-> s]
      BY <2>3 DEF Zero
    <3>3. \A i \in DOMAIN t.fields : s[t.fields[i].name] = zero(t.fields[i].name)
      BY <3>1
    <3>4. s = [n \in FieldNames(t) |-> s[n]]
      OBVIOUS
    <3> HIDE DEF s, zero
    <3> QED  BY <2>3, <3>1, <3>2, <3>3, <3>4, StructValue
  <2> QED  BY <2>1, <2>2, <2>3, TypesAssumption DEF Containers
<1> HIDE DEF G
<1>2. Types \subseteq G
  <2>1. G \in SUBSET Types  BY DEF G
  <2> QED  BY <1>1, <2>1, TypeInduction
<1> QED
  BY <1>2 DEF G

-----------------------------------------------------------------------------
(* Results *)

ErrorKinds == {"none", "ErrInvalidValue", "ErrInvalidTag", "ErrDuplicateKey", "ErrMissingField"}

\* What a bind returns for a value of type t.
IsResult(r, t) ==
    /\ r = [val |-> r.val, err |-> r.err, log |-> r.log]
    /\ r.err.kind \in ErrorKinds
    /\ HasType(r.val, t)

LEMMA Results ==
    ASSUME NEW t, NEW v, HasType(v, t)
    PROVE  /\ IsResult(Ok(v), t)
           /\ \A kind \in ErrorKinds : \A path : IsResult(Fail(v, kind, path), t)
           /\ \A r, part, u : IsResult(part, u) => IsResult(Put(r, part, v), t)
BY DEF IsResult, Ok, Fail, Put, NoError, ErrorKinds

\* A pointer to what was filled.
LEMMA PointerResult ==
    ASSUME Recursion, NEW t \in Types, t.kind = "pointer", NEW r, IsResult(r, t.elem)
    PROVE  IsResult(Pointing(r), t)
<1>1. t.elem \in Types
  BY Elements DEF Containers
<1>2. Pointing(r) = [val |-> [ref |-> r.val], err |-> r.err, log |-> r.log]
  BY DEF Pointing, IsResult
<1>3. InnerHasType(r.val, t.elem)
  BY <1>1 DEF IsResult, Recursion
<1>4. HasType([ref |-> r.val], t)
  BY <1>3 DEF HasType, Is, Has
<1> QED
  BY <1>2, <1>4 DEF IsResult

LEMMA AllocatedHasType ==
    ASSUME Recursion, NEW t \in Types, t.kind = "pointer", NEW old, HasType(old, t)
    PROVE  HasType(Allocated(t, old), t.elem)
<1>1. t.elem \in Types
  BY Elements DEF Containers
<1>2. CASE old = Nil
  BY <1>1, <1>2, ZeroHasType DEF Allocated
<1>3. CASE old # Nil
  <2>1. InnerHasType(old.ref, t.elem)
    BY <1>3 DEF HasType
  <2> QED  BY <1>1, <1>3, <2>1 DEF Allocated, Recursion
<1> QED
  BY <1>2, <1>3

-----------------------------------------------------------------------------
(* fieldTag.apply keeps the type of a field *)

LEMMA CheckKeeps ==
    ASSUME NEW t, NEW tag, NEW v, NEW path, HasType(v, t)
    PROVE  IsResult(check(tag, v, path), t)
<1>1. \/ check(tag, v, path) = Ok(v)
      \/ check(tag, v, path) = Fail(v, "ErrInvalidTag", path)
      \/ check(tag, v, path) = Fail(v, "ErrInvalidValue", path)
  BY DEF check, Has
<1> QED
  BY <1>1, Results DEF ErrorKinds

GoodTag(tag) == Has(tag, "custom") => tag.custom \in Seq(STRING)

LEMMA HandlersKeep ==
    ASSUME HandlersKeepTypes, NEW t \in Types, NEW v, HasType(v, t),
           NEW handlers \in Seq(STRING), NEW path
    PROVE  IsResult(HandlerLoop!After([handlers |-> handlers, path |-> path], Ok(v), Len(handlers)), t)
<1> DEFINE n == Len(handlers)
           given == [handlers |-> handlers, path |-> path]
           after == LoopOfHandlers!Run(given, Ok(v), n)
           S == {i \in 0..n : IsResult(after[i], t)}
<1>1. n \in Nat /\ DOMAIN handlers = 1..n /\ given.handlers = handlers /\ given.path = path
  OBVIOUS
<1>2. /\ after[0] = Ok(v)
      /\ \A i \in 1..n : after[i] = NextHandler(given, after[i - 1], i)
  BY <1>1, LoopOfHandlers!RunOfRounds
<1>3. HandlerLoop!After(given, Ok(v), n) = after[n]
  BY DEF HandlerLoop!After, HandlerLoop!Run, LoopOfHandlers!Run
<1> HIDE DEF given, after, n
<1>4. 0 \in S
  BY <1>1, <1>2, Results
<1>5. ASSUME NEW i \in 1..n, i - 1 \in S PROVE i \in S
  <2> DEFINE acc == after[i - 1]
             made == Handled(handlers[i], acc.val)
  <2>1. IsResult(acc, t) /\ HasType(acc.val, t) /\ handlers[i] \in STRING
    BY <1>1, <1>5 DEF IsResult
  <2>2. after[i] = NextHandler(given, acc, i)
    BY <1>2
  <2> HIDE DEF acc
  <2>3. CASE acc.err # NoError
    BY <1>1, <2>1, <2>2, <2>3 DEF NextHandler
  <2>4. CASE acc.err = NoError /\ made = {}
    <3>1. after[i] = Fail(acc.val, "ErrInvalidValue", path)
      BY <1>1, <2>2, <2>4 DEF NextHandler
    <3> QED  BY <1>1, <2>1, <3>1, Results DEF ErrorKinds
  <2>5. CASE acc.err = NoError /\ made # {}
    <3>1. after[i] = Ok(CHOOSE w \in made : TRUE)
      BY <1>1, <2>2, <2>5 DEF NextHandler
    <3>2. \A w \in made : HasType(w, t)
      BY <2>1 DEF HandlersKeepTypes
    <3> QED  BY <1>1, <2>5, <3>1, <3>2, Results
  <2> QED  BY <2>3, <2>4, <2>5
<1> HIDE DEF S
<1>6. n \in S
  BY <1>1, <1>4, <1>5, LoopOfHandlers!LoopInvariant
<1> QED
  BY <1>3, <1>6 DEF S, n, given

\* Only a pointer holds a reference.
LEMMA References ==
    ASSUME NEW t \in Types, NEW v, HasType(v, t), v # Nil, Is(v, "ref")
    PROVE  t.kind = "pointer" /\ InnerHasType(v.ref, t.elem)
<1>1. t.kind \in {"string", "int", "bool", "any", "struct", "pointer", "slice", "map", "array"}
  BY TypesAssumption DEF Containers
<1>2. \A x : /\ v # [str |-> x] /\ v # [parsed |-> x] /\ v # [int |-> x] /\ v # [bool |-> x] /\ v # [any |-> x]
             /\ v # [slice |-> x] /\ v # [map |-> x] /\ v # [array |-> x] /\ v # [struct |-> x]
  BY DEF Is, Has
<1>3. CASE t.kind = "string"
  BY <1>2, <1>3 DEF HasType
<1>4. CASE t.kind = "int"
  BY <1>2, <1>4 DEF HasType
<1>5. CASE t.kind = "bool"
  BY <1>2, <1>5 DEF HasType
<1>6. CASE t.kind = "any"
  BY <1>2, <1>6 DEF HasType
<1>7. CASE t.kind = "slice"
  BY <1>2, <1>7 DEF HasType
<1>8. CASE t.kind = "map"
  BY <1>2, <1>8 DEF HasType
<1>9. CASE t.kind = "array"
  BY <1>2, <1>9 DEF HasType
<1>10. CASE t.kind = "struct"
  BY <1>2, <1>10 DEF HasType
<1>11. CASE t.kind = "pointer"
  BY <1>11 DEF HasType
<1> QED
  BY <1>1, <1>3, <1>4, <1>5, <1>6, <1>7, <1>8, <1>9, <1>10, <1>11

LEMMA CustomKeeps ==
    ASSUME Recursion, HandlersKeepTypes
    PROVE  \A t \in Types : \A tag, v, path :
             GoodTag(tag) /\ HasType(v, t) => IsResult(runCustom(tag, v, path), t)
<1> DEFINE Keep(t) == \A tag, v, path : GoodTag(tag) /\ HasType(v, t) => IsResult(runCustom(tag, v, path), t)
           G == {t \in Types : Keep(t)}
<1>1. ASSUME NEW t \in Types, \A u \in Types : Depth[u] < Depth[t] => u \in G
      PROVE  t \in G
  <2> SUFFICES ASSUME NEW tag, NEW v, NEW path, GoodTag(tag), HasType(v, t)
               PROVE  IsResult(runCustom(tag, v, path), t)
    OBVIOUS
  <2>1. CASE v = Nil \/ ~Has(tag, "custom")
    BY <2>1, Results DEF runCustom
  <2>2. CASE v # Nil /\ Has(tag, "custom") /\ Is(v, "ref")
    <3>1. t.kind = "pointer" /\ InnerHasType(v.ref, t.elem)
      BY <2>2, References
    <3>2. t.elem \in Types /\ HasType(v.ref, t.elem)
      BY <3>1, Elements DEF Containers, Recursion
    <3>3. IsResult(InnerRunCustom(tag, v.ref, path), t.elem)
      BY <1>1, <3>1, <3>2, Elements DEF Recursion, Containers
    <3>4. runCustom(tag, v, path) = Pointing(InnerRunCustom(tag, v.ref, path))
      BY <2>2 DEF runCustom, Pointing
    <3> QED  BY <3>1, <3>3, <3>4, PointerResult
  <2>3. CASE v # Nil /\ Has(tag, "custom") /\ ~Is(v, "ref")
    <3>1. runCustom(tag, v, path)
            = HandlerLoop!After([handlers |-> tag.custom, path |-> path], Ok(v), Len(tag.custom))
      BY <2>3 DEF runCustom
    <3> QED  BY <2>3, <3>1, HandlersKeep DEF GoodTag
  <2> QED  BY <2>1, <2>2, <2>3
<1> HIDE DEF G
<1>2. Types \subseteq G
  <2>1. G \in SUBSET Types  BY DEF G
  <2> QED  BY <1>1, <2>1, TypeInduction
<1> QED
  BY <1>2 DEF G

LEMMA ApplyKeeps ==
    ASSUME Recursion, HandlersKeepTypes, NEW t \in Types, NEW tag, GoodTag(tag),
           NEW r, IsResult(r, t), NEW path
    PROVE  IsResult(apply(tag, r, path), t)
<1> DEFINE checked == check(tag, r.val, path)
           custom == runCustom(tag, r.val, path)
<1>1. IsResult(checked, t) /\ IsResult(custom, t) /\ HasType(r.val, t) /\ HasType(custom.val, t)
  BY CheckKeeps, CustomKeeps DEF IsResult
<1>2. apply(tag, r, path) \in {r, Put(r, checked, r.val), Put(r, custom, custom.val)}
  BY DEF apply
<1> HIDE DEF checked, custom
<1> QED
  BY <1>1, <1>2, Results

-----------------------------------------------------------------------------
(* bindStruct keeps the types of the fields, given that of smaller types *)

IsEnv(e) == \A x \in DOMAIN e : e[x] \in STRING

\* The nodes a value may be read from: those of a document, and texts.
Inputs == Node \cup {Text(s) : s \in STRING}
IsTree(node) == \A k \in DOMAIN node : node[k] \in Inputs

Keeps(t) ==
    /\ \A old, src, path, e : IsEnv(e) /\ src \in Inputs /\ HasType(old, t) =>
         IsResult(assign(t, old, src, path, e), t)
    /\ \A old, raw, path, e : IsEnv(e) /\ raw \in STRING /\ HasType(old, t) =>
         IsResult(assignString(t, old, raw, path, e), t)
    /\ t.kind = "struct" =>
         \A node, old, path, e : IsEnv(e) /\ IsTree(node) /\ HasType(old, t) =>
           IsResult(bindStruct(node, t, old, path, e), t)

SmallerKeep(t) == \A u \in Types : Depth[u] < Depth[t] => Keeps(u)

LEMMA GivenValue ==
    ASSUME NEW node, IsTree(node), NEW key, Given(node, key)
    PROVE  ValueOf(node, key) \in Inputs
BY DEF Given, ValueOf, Matches, IsTree

LEMMA EmptyIsTree == IsTree(EmptyTree)
BY DEF IsTree, EmptyTree

LEMMA DepthIsNumber == \A t \in Types : Depth[t] \in Nat
BY TypesAssumption

LEMMA TagsAreGood ==
    ASSUME NEW t \in Types, t.kind = "struct", NEW i \in DOMAIN t.fields
    PROVE  /\ GoodTag(t.fields[i].tag)
           /\ Has(t.fields[i].tag, "default") => t.fields[i].tag.default \in STRING
           /\ Has(t.fields[i], "embedded") /\ t.fields[i].type.kind = "pointer" =>
                t.fields[i].type.elem.kind # "pointer"
BY FieldsAssumption DEF GoodTag

LEMMA TakenKeeps ==
    ASSUME Recursion, NEW t \in Types, t.kind = "struct", SmallerKeep(t), NEW i \in DOMAIN t.fields,
           NEW node, IsTree(node), NEW e, IsEnv(e), NEW old, HasType(old, t.fields[i].type), NEW path,
           Source(t.fields[i], node, e) \in {"env", "file", "default"}
    PROVE  IsResult(Taken(t.fields[i], Source(t.fields[i], node, e), old, node, path, e), t.fields[i].type)
<1> DEFINE f == t.fields[i]
           from == Source(f, node, e)
<1>1. f.type \in Types /\ Keeps(f.type)
  BY FieldsOfTypes DEF SmallerKeep
<1>2. CASE from = "env"
  <2>1. InEnv(f.tag, e) # {}
    BY <1>2 DEF Source
  <2>2. e[f.tag.env] \in STRING
    BY <2>1 DEF InEnv, IsEnv
  <2> QED  BY <1>1, <1>2, <2>2 DEF Taken, Keeps, Recursion
<1>3. CASE from = "file"
  <2>1. Given(node, Key(f))
    BY <1>3 DEF Source
  <2> QED  BY <1>1, <1>3, <2>1, GivenValue DEF Taken, Keeps, Recursion
<1>4. CASE from = "default"
  <2>1. f.tag.default \in STRING
    BY <1>4, TagsAreGood DEF Source
  <2> QED  BY <1>1, <1>4, <2>1 DEF Taken, Keeps, Recursion
<1> QED
  BY <1>2, <1>3, <1>4

LEMMA NestedKeeps ==
    ASSUME Recursion, NEW t \in Types, Keeps(t), NEW old, HasType(old, t), NEW path, NEW e, IsEnv(e)
    PROVE  IsResult(bindNested(t, old, path, e), t)
<1>1. CASE t.kind = "pointer" \/ ~isBindableStruct(t)
  BY <1>1, Results DEF bindNested
<1>2. CASE t.kind # "pointer" /\ isBindableStruct(t)
  <2>1. t.kind = "struct"
    BY <1>2 DEF isBindableStruct
  <2>2. bindNested(t, old, path, e) = bindStruct(EmptyTree, t, old, path, e)
    BY <1>2, <2>1 DEF bindNested, Recursion
  <2> QED  BY <2>1, <2>2, EmptyIsTree DEF Keeps
<1> QED
  BY <1>1, <1>2

LEMMA EmbeddedKeeps ==
    ASSUME Recursion, NEW t \in Types, t.kind = "struct", SmallerKeep(t), NEW i \in DOMAIN t.fields,
           NEW node, IsTree(node), NEW e, IsEnv(e), NEW old, HasType(old, t.fields[i].type), NEW path,
           Embedded(t.fields[i])
    PROVE  IsResult(bindEmbedded(t.fields[i].type, old, node, path, e), t.fields[i].type)
<1> DEFINE f == t.fields[i]
           u == f.type
<1>1. u \in Types /\ Keeps(u) /\ Depth[u] < Depth[t] /\ isBindableStruct(u)
  BY FieldsOfTypes DEF SmallerKeep, Embedded
<1>2. CASE u.kind # "pointer"
  <2>1. u.kind = "struct"
    BY <1>1, <1>2 DEF isBindableStruct
  <2>2. bindEmbedded(u, old, node, path, e) = bindStruct(node, u, old, path, e)
    BY <1>1, <1>2, <2>1 DEF bindEmbedded, Recursion
  <2> QED  BY <1>1, <2>1, <2>2 DEF Keeps
<1>3. CASE u.kind = "pointer"
  <2>1. u.elem \in Types /\ Depth[u.elem] < Depth[u] /\ isBindableStruct(u.elem)
    BY <1>1, <1>3, Elements DEF isBindableStruct, Recursion, Containers
  <2>2. u.elem.kind = "struct"
    BY <1>3, <2>1, TagsAreGood DEF Embedded, isBindableStruct
  <2>3. Keeps(u.elem)
    BY <1>1, <2>1, DepthIsNumber DEF SmallerKeep
  <2>4. HasType(Allocated(u, old), u.elem)
    BY <1>1, <1>3, AllocatedHasType
  <2>5. IsResult(bindStruct(node, u.elem, Allocated(u, old), path, e), u.elem)
    BY <2>2, <2>3, <2>4 DEF Keeps
  <2>6. bindEmbedded(u, old, node, path, e) = Pointing(bindStruct(node, u.elem, Allocated(u, old), path, e))
    BY <1>3, <2>1, <2>2 DEF bindEmbedded, Recursion
  <2> QED  BY <1>1, <1>3, <2>5, <2>6, PointerResult
<1> QED
  BY <1>2, <1>3

LEMMA SourcesOfValues ==
    \A f, node, e : Source(f, node, e) \in {"env", "clash", "file", "default", "missing", "none"}
BY DEF Source

LEMMA OneKeeps ==
    ASSUME Recursion, HandlersKeepTypes, NEW t \in Types, t.kind = "struct", SmallerKeep(t),
           NEW i \in DOMAIN t.fields, NEW node, IsTree(node), NEW e, IsEnv(e),
           NEW old, HasType(old, t.fields[i].type), NEW path
    PROVE  IsResult(bindOne(t.fields[i], old, node, path, e), t.fields[i].type)
<1> DEFINE f == t.fields[i]
           here == Append(path, Key(f))
           from == Source(f, node, e)
<1>1. f.type \in Types /\ Keeps(f.type)
  BY FieldsOfTypes DEF SmallerKeep
<1>2. CASE Skipped(f)
  BY <1>2, Results DEF bindOne
<1>3. CASE ~Skipped(f) /\ Embedded(f)
  BY <1>3, EmbeddedKeeps DEF bindOne
<1>4. CASE ~Skipped(f) /\ ~Embedded(f)
  <2>1. bindOne(f, old, node, path, e) = bindField(f, old, node, path, e)
    BY <1>4 DEF bindOne
  <2>2. CASE from \in {"env", "file", "default"}
    <3>1. bindField(f, old, node, path, e) = apply(f.tag, Taken(f, from, old, node, here, e), here)
      BY <2>2 DEF bindField
    <3>2. \A p : IsResult(Taken(f, from, old, node, p, e), f.type)
      BY <2>2, TakenKeeps
    <3> QED  BY <1>1, <2>1, <3>1, <3>2, TagsAreGood, ApplyKeeps
  <2>3. CASE from = "clash"
    BY <2>1, <2>3, Results DEF bindField, ErrorKinds
  <2>4. CASE from = "missing"
    BY <2>1, <2>4, Results DEF bindField, ErrorKinds
  <2>5. CASE from = "none"
    <3>1. bindField(f, old, node, path, e) = bindNested(f.type, old, here, e)
      BY <2>5 DEF bindField
    <3> QED  BY <1>1, <2>1, <3>1, NestedKeeps
  <2> QED  BY <2>2, <2>3, <2>4, <2>5, SourcesOfValues
<1> QED
  BY <1>2, <1>3, <1>4

\* A struct with another value of its type in one field.
Replaced(v, name, w) == [v EXCEPT !.struct[name] = w]

LEMMA FieldReplaced ==
    ASSUME Recursion, NEW t \in Types, t.kind = "struct", NEW v, HasType(v, t), NEW i \in DOMAIN t.fields,
           NEW w, HasType(w, t.fields[i].type)
    PROVE  LET u == Replaced(v, t.fields[i].name, w) IN
           /\ HasType(u, t)
           /\ u.struct[t.fields[i].name] = w
           /\ \A j \in DOMAIN t.fields : j # i => u.struct[t.fields[j].name] = v.struct[t.fields[j].name]
<1> DEFINE s == v.struct
           name == t.fields[i].name
           r == [s EXCEPT ![name] = w]
           u == Replaced(v, name, w)
<1>1. /\ v = [struct |-> s] /\ s = [n \in FieldNames(t) |-> s[n]]
      /\ \A j \in DOMAIN t.fields : InnerHasType(s[t.fields[j].name], t.fields[j].type)
  BY DEF HasType
<1> HIDE DEF s
<1>2. u = [struct |-> r] /\ u.struct = r
  BY <1>1 DEF Replaced
<1>3. \A j \in DOMAIN t.fields : t.fields[j].name \in FieldNames(t)
  BY DEF FieldNames
<1>4. r = [n \in FieldNames(t) |-> r[n]]
  BY <1>1
<1>5. r[name] = w /\ \A j \in DOMAIN t.fields : j # i => r[t.fields[j].name] = s[t.fields[j].name]
  BY <1>1, <1>3, FieldsOfTypes
<1>6. InnerHasType(w, t.fields[i].type)
  BY FieldsOfTypes DEF Recursion
<1> HIDE DEF r, u
<1>7. \A j \in DOMAIN t.fields : InnerHasType(r[t.fields[j].name], t.fields[j].type)
  BY <1>1, <1>5, <1>6
<1>8. HasType(u, t)
  BY <1>2, <1>4, <1>7, StructValue
<1>9. u.struct[name] = w /\ \A j \in DOMAIN t.fields : j # i => u.struct[t.fields[j].name] = s[t.fields[j].name]
  BY <1>2, <1>5
<1> QED
  BY <1>8, <1>9 DEF u, s

LEMMA FieldHasType ==
    ASSUME Recursion, NEW t \in Types, t.kind = "struct", NEW v, HasType(v, t), NEW i \in DOMAIN t.fields
    PROVE  HasType(v.struct[t.fields[i].name], t.fields[i].type)
<1>1. InnerHasType(v.struct[t.fields[i].name], t.fields[i].type)
  BY DEF HasType
<1> QED
  BY <1>1, FieldsOfTypes DEF Recursion

-----------------------------------------------------------------------------
(* What a walk over the fields has done *)

\* What binding the i-th field alone makes of a struct that holds old.
Alone(t, old, node, path, e, i) == bindOne(t.fields[i], old.struct[t.fields[i].name], node, path, e)

\* After n rounds the walk has filled the fields up to last, each as if alone;
\* it is still under way, or the field behind last stopped it.
Progress(t, old, node, path, e, n, acc, last) ==
    LET alone(i) == Alone(t, old, node, path, e, i)
        now(i) == acc.val.struct[t.fields[i].name]
    IN /\ last \in 0..n
       /\ \A i \in 1..last : alone(i).err = NoError /\ now(i) = alone(i).val
       /\ last = n => acc.err = NoError
       /\ last < n => /\ acc.err # NoError /\ acc.err = alone(last + 1).err
                      /\ now(last + 1) = alone(last + 1).val
       /\ \A i \in DOMAIN t.fields : i > last + 1 \/ (i > last /\ last = n) =>
            now(i) = old.struct[t.fields[i].name]

LEMMA OneField ==
    ASSUME Recursion, HandlersKeepTypes, NEW t \in Types, t.kind = "struct", SmallerKeep(t),
           NEW old, HasType(old, t), NEW node, IsTree(node), NEW path, NEW e, IsEnv(e),
           NEW n \in Nat, n + 1 \in DOMAIN t.fields,
           NEW acc, IsResult(acc, t), NEW last, Progress(t, old, node, path, e, n, acc, last)
    PROVE  LET next == NextField([fields |-> t.fields, node |-> node, path |-> path, env |-> e], acc, n + 1)
           IN IsResult(next, t) /\ \E l : Progress(t, old, node, path, e, n + 1, next, l)
<1> DEFINE f == t.fields[n + 1]
           given == [fields |-> t.fields, node |-> node, path |-> path, env |-> e]
           part == bindOne(f, acc.val.struct[f.name], node, path, e)
           next == NextField(given, acc, n + 1)
           alone(i) == Alone(t, old, node, path, e, i)
           now(i) == acc.val.struct[t.fields[i].name]
           then(i) == next.val.struct[t.fields[i].name]
<1>1. /\ last \in 0..n
      /\ \A i \in 1..last : alone(i).err = NoError /\ now(i) = alone(i).val
      /\ last = n => acc.err = NoError
      /\ last < n => acc.err # NoError /\ acc.err = alone(last + 1).err /\ now(last + 1) = alone(last + 1).val
      /\ \A i \in DOMAIN t.fields : i > last + 1 \/ (i > last /\ last = n) => now(i) = old.struct[t.fields[i].name]
  BY DEF Progress
<1>2. DOMAIN t.fields = 1..Len(t.fields) /\ Len(t.fields) \in Nat
  BY FieldsOfTypes
<1>3. CASE last < n
  <2>1. next = acc
    BY <1>1, <1>3 DEF NextField
  <2> HIDE DEF next, alone
  <2>2. last \in 0..(n + 1) /\ last # n + 1 /\ last < n + 1
    BY <1>1
  <2>3. Progress(t, old, node, path, e, n + 1, next, last)
    BY <1>1, <1>2, <1>3, <2>1, <2>2 DEF Progress, alone
  <2> QED  BY <2>1, <2>3 DEF next
<1>4. CASE last = n
  <2>1. next = Put(acc, part, Replaced(acc.val, f.name, part.val))
    BY <1>1, <1>4 DEF NextField, Replaced
  <2>2. acc.val.struct[f.name] = old.struct[f.name] /\ part = alone(n + 1)
    BY <1>1, <1>4 DEF Alone
  <2>3. HasType(acc.val, t) /\ HasType(acc.val.struct[f.name], f.type)
    BY FieldHasType DEF IsResult
  <2>4. IsResult(part, f.type) /\ HasType(part.val, f.type)
    <3>1. \A w : HasType(w, f.type) => IsResult(bindOne(f, w, node, path, e), f.type)
      BY OneKeeps
    <3> QED  BY <2>3, <3>1 DEF IsResult
  <2>5. HasType(acc.val, t) /\ HasType(part.val, f.type)
    BY <2>3, <2>4
  <2> HIDE DEF part, next, alone, given
  <2> DEFINE u == Replaced(acc.val, f.name, part.val)
  <2>6. /\ HasType(u, t) /\ u.struct[f.name] = part.val
        /\ \A j \in DOMAIN t.fields : j # n + 1 => u.struct[t.fields[j].name] = now(j)
    BY <2>5, FieldReplaced
  <2> HIDE DEF u, f
  <2>7. IsResult(next, t)
    BY <2>1, <2>4, <2>6, Results DEF u
  <2>8. next.val = u /\ next.err = part.err
    BY <2>1 DEF Put, u
  <2>9. /\ then(n + 1) = alone(n + 1).val
        /\ \A i \in DOMAIN t.fields : i # n + 1 => then(i) = now(i)
    BY <2>2, <2>6, <2>8 DEF f
  <2>10. /\ \A i \in 1..n : alone(i).err = NoError /\ now(i) = alone(i).val
         /\ \A i \in DOMAIN t.fields : i > n => now(i) = old.struct[t.fields[i].name]
    BY <1>1, <1>4
  <2> HIDE DEF then, now
  <2>11. /\ \A i \in 1..n : alone(i).err = NoError /\ then(i) = alone(i).val
         /\ \A i \in DOMAIN t.fields : i > n + 1 => then(i) = old.struct[t.fields[i].name]
    BY <1>2, <2>9, <2>10
  <2>12. CASE part.err = NoError
    <3>1. \A i \in 1..(n + 1) : alone(i).err = NoError /\ then(i) = alone(i).val
      BY <2>2, <2>9, <2>11, <2>12
    <3>2. Progress(t, old, node, path, e, n + 1, next, n + 1)
      BY <1>2, <2>8, <2>11, <2>12, <3>1 DEF Progress, alone, then
    <3> QED  BY <2>7, <3>2 DEF next, given
  <2>13. CASE part.err # NoError
    <3>1. next.err = alone(n + 1).err
      BY <2>2, <2>8
    <3>2. Progress(t, old, node, path, e, n + 1, next, n)
      <4> HIDE DEF next
      <4>1. n \in 0..(n + 1) /\ n # n + 1 /\ n < n + 1 /\ next.err # NoError
        BY <2>8, <2>13
      <4>2. then(n + 1) = alone(n + 1).val /\ \A j \in DOMAIN t.fields : j > n + 1 \/ (j > n /\ n = n + 1) => j > n + 1
        BY <1>2, <2>9
      <4> QED  BY <2>11, <3>1, <4>1, <4>2 DEF Progress, alone, then
    <3> QED  BY <2>7, <3>2 DEF next, given
  <2> QED  BY <2>12, <2>13
<1> QED
  BY <1>1, <1>3, <1>4

\* What the walk over the fields has after each of its rounds.
FieldRun(t, old, node, path, e) ==
    LoopOfFields!Run([fields |-> t.fields, node |-> node, path |-> path, env |-> e], Ok(old), Len(t.fields))

LEMMA FieldRounds ==
    ASSUME NEW t \in Types, t.kind = "struct", NEW old, NEW node, NEW path, NEW e
    PROVE  LET after == FieldRun(t, old, node, path, e)
               given == [fields |-> t.fields, node |-> node, path |-> path, env |-> e]
           IN /\ after[0] = Ok(old)
              /\ \A i \in 1..Len(t.fields) : after[i] = NextField(given, after[i - 1], i)
<1> DEFINE n == Len(t.fields)
           given == [fields |-> t.fields, node |-> node, path |-> path, env |-> e]
           after == LoopOfFields!Run(given, Ok(old), n)
<1>1. n \in Nat
  BY FieldsOfTypes
<1>2. /\ after[0] = Ok(old)
      /\ \A i \in 1..n : after[i] = NextField(given, after[i - 1], i)
  BY <1>1, LoopOfFields!RunOfRounds
<1>3. FieldRun(t, old, node, path, e) = after
  BY DEF FieldRun
<1> HIDE DEF after
<1> QED
  BY <1>2, <1>3

LEMMA AllRounds ==
    \A t, old, node, path, e :
      bindFields(Ok(old), t, node, path, e) = FieldRun(t, old, node, path, e)[Len(t.fields)]
BY DEF bindFields, FieldRun, FieldLoop!After, FieldLoop!Run, LoopOfFields!Run

LEMMA FieldsOneByOne ==
    ASSUME Recursion, HandlersKeepTypes, NEW t \in Types, t.kind = "struct", SmallerKeep(t),
           NEW old, HasType(old, t), NEW node, IsTree(node), NEW path, NEW e, IsEnv(e)
    PROVE  \A i \in 0..Len(t.fields) :
             LET r == FieldRun(t, old, node, path, e)[i]
             IN IsResult(r, t) /\ \E last : Progress(t, old, node, path, e, i, r, last)
<1> DEFINE n == Len(t.fields)
           given == [fields |-> t.fields, node |-> node, path |-> path, env |-> e]
           after == FieldRun(t, old, node, path, e)
           Holds(i) == IsResult(after[i], t) /\ \E last : Progress(t, old, node, path, e, i, after[i], last)
           S == {i \in 0..n : Holds(i)}
<1>1. n \in Nat /\ DOMAIN t.fields = 1..n
  BY FieldsOfTypes
<1>2. /\ after[0] = Ok(old)
      /\ \A i \in 1..n : after[i] = NextField(given, after[i - 1], i)
  BY FieldRounds
<1> HIDE DEF after
<1>3. 0 \in S
  <2>1. IsResult(after[0], t)
    BY <1>2, Results
  <2>2. Progress(t, old, node, path, e, 0, after[0], 0)
    BY <1>2 DEF Progress, Ok
  <2> QED  BY <1>1, <2>1, <2>2
<1>4. ASSUME NEW i \in 1..n, i - 1 \in S PROVE i \in S
  <2> DEFINE m == i - 1
  <2>1. PICK last : IsResult(after[m], t) /\ Progress(t, old, node, path, e, m, after[m], last)
    BY <1>4
  <2>2. m \in Nat /\ m + 1 = i /\ m + 1 \in DOMAIN t.fields /\ after[m + 1] = NextField(given, after[m], m + 1)
    BY <1>1, <1>2
  <2> HIDE DEF m
  <2>3. Holds(m + 1)
    BY <2>1, <2>2, OneField
  <2> QED  BY <2>2, <2>3
<1> HIDE DEF S
<1>5. \A i \in 1..n : i - 1 \in S => i \in S
  BY <1>4
<1> HIDE DEF n, Holds, given
<1>6. \A i \in 0..n : i \in S
  BY <1>1, <1>3, <1>5, LoopOfFields!LoopInvariant
<1> QED
  BY <1>6 DEF S, n, Holds, after

LEMMA AllFields ==
    ASSUME Recursion, HandlersKeepTypes, NEW t \in Types, t.kind = "struct", SmallerKeep(t),
           NEW old, HasType(old, t), NEW node, IsTree(node), NEW path, NEW e, IsEnv(e)
    PROVE  LET r == bindFields(Ok(old), t, node, path, e)
           IN IsResult(r, t) /\ \E last : Progress(t, old, node, path, e, Len(t.fields), r, last)
<1> DEFINE r == FieldRun(t, old, node, path, e)[Len(t.fields)]
<1>1. Len(t.fields) \in 0..Len(t.fields)
  BY FieldsOfTypes
<1>2. IsResult(r, t) /\ \E last : Progress(t, old, node, path, e, Len(t.fields), r, last)
  BY <1>1, FieldsOneByOne
<1>3. bindFields(Ok(old), t, node, path, e) = r
  BY AllRounds
<1> HIDE DEF r
<1> QED
  BY <1>2, <1>3

-----------------------------------------------------------------------------
(* bindStruct *)

LEMMA ValidateKeeps ==
    ASSUME NEW t, NEW r, IsResult(r, t), NEW path
    PROVE  /\ IsResult(validate(t, r, path), t)
           /\ validate(t, r, path).val = r.val
           /\ Has(t, "rule") => (validate(t, r, path).err = NoError <=> Accepts(t.rule, r.val))
           /\ ~Has(t, "rule") => validate(t, r, path) = r
<1>1. CASE ~Has(t, "rule")
  BY <1>1 DEF validate
<1>2. CASE Has(t, "rule")
  <2> DEFINE seen == [path |-> path, rule |-> t.rule, seen |-> r.val]
             err == IF Accepts(t.rule, r.val) THEN NoError ELSE [kind |-> "ErrInvalidValue", path |-> path]
  <2>1. validate(t, r, path) = [val |-> r.val, err |-> err, log |-> Append(r.log, seen)]
    BY <1>2 DEF validate, IsResult
  <2>2. err.kind \in ErrorKinds /\ (err = NoError <=> Accepts(t.rule, r.val))
    BY DEF NoError, ErrorKinds
  <2> HIDE DEF err, seen
  <2> QED  BY <1>2, <2>1, <2>2 DEF IsResult
<1> QED
  BY <1>1, <1>2

LEMMA StructKeeps ==
    ASSUME Recursion, HandlersKeepTypes, NEW t \in Types, t.kind = "struct", SmallerKeep(t),
           NEW old, HasType(old, t), NEW node, IsTree(node), NEW path, NEW e, IsEnv(e)
    PROVE  IsResult(bindStruct(node, t, old, path, e), t)
<1> DEFINE r == bindFields(Ok(old), t, node, path, e)
<1>1. IsResult(r, t)
  BY AllFields
<1>2. bindStruct(node, t, old, path, e) \in {r, validate(t, r, path)}
  BY DEF bindStruct
<1> HIDE DEF r
<1> QED
  BY <1>1, <1>2, ValidateKeeps

-----------------------------------------------------------------------------
(* assign and assignString keep the type, given that they do for smaller types *)

LEMMA UnmarshalKeeps ==
    ASSUME Recursion, NEW t \in Types, Hook(t, "text") \/ (t.kind = "struct" /\ Hook(t, "json")),
           NEW old, HasType(old, t), NEW src, src # Null, NEW path
    PROVE  IsResult(Unmarshal(t, old, src, path), t)
<1>1. CASE ~Readable(src)
  BY <1>1, Results DEF Unmarshal, ErrorKinds
<1>2. CASE Readable(src) /\ t.kind = "struct"
  <2>1. PICK i \in DOMAIN t.fields : t.fields[i].name = "raw" /\ t.fields[i].type.kind = "any"
    BY <1>2, HooksAssumption
  <2> DEFINE w == [any |-> src]
  <2>2. HasType(w, t.fields[i].type)
    BY <2>1 DEF HasType, Is, Has
  <2>3. Unmarshal(t, old, src, path) = Ok(Replaced(old, t.fields[i].name, w))
    BY <1>2, <2>1 DEF Unmarshal, Replaced
  <2> HIDE DEF w
  <2>4. HasType(Replaced(old, t.fields[i].name, w), t)
    BY <1>2, <2>2, FieldReplaced
  <2> QED  BY <2>3, <2>4, Results
<1>3. CASE Readable(src) /\ t.kind # "struct"
  <2>1. t.kind = "string" /\ Hook(t, "text")
    BY <1>3, HooksAssumption
  <2>2. HasType([parsed |-> src.text], t)
    BY <2>1 DEF HasType, Is, Has
  <2>3. Unmarshal(t, old, src, path) = Ok([parsed |-> src.text])
    BY <1>3 DEF Unmarshal
  <2> QED  BY <2>2, <2>3, Results
<1> QED
  BY <1>1, <1>2, <1>3

LEMMA ScalarKeeps ==
    ASSUME NEW t \in Types, NEW old, HasType(old, t), NEW src, NEW path
    PROVE  IsResult(assignScalar(t, old, src, path), t)
<1>1. \A v \in Scalar(t, src) : HasType(v, t)
  <2>1. CASE t.kind = "string"
    BY <2>1 DEF Scalar, HasType, Is, Has
  <2>2. CASE t.kind = "bool"
    BY <2>2 DEF Scalar, HasType, Is, Has
  <2>3. CASE t.kind = "int"
    BY <2>3 DEF Scalar, HasType, Is, Has
  <2>4. CASE t.kind \notin {"string", "bool", "int"}
    BY <2>4 DEF Scalar
  <2> QED  BY <2>1, <2>2, <2>3, <2>4
<1>2. CASE Scalar(t, src) = {}
  BY <1>2, Results DEF assignScalar, ErrorKinds
<1>3. CASE Scalar(t, src) # {}
  <2>1. PICK v \in Scalar(t, src) : assignScalar(t, old, src, path) = Ok(v)
    BY <1>3 DEF assignScalar
  <2> QED  BY <1>1, <2>1, Results
<1> QED
  BY <1>2, <1>3

LEMMA PointerKeeps ==
    ASSUME Recursion, NEW t \in Types, t.kind = "pointer", SmallerKeep(t), NEW old, HasType(old, t),
           NEW path, NEW e, IsEnv(e)
    PROVE  /\ \A src \in Inputs : IsResult(assignPointer(t, old, src, path, e), t)
           /\ \A raw \in STRING : IsResult(Pointing(InnerAssignString(t.elem, Allocated(t, old), raw, path, e)), t)
<1>1. t.elem \in Types /\ Keeps(t.elem)
  BY Elements DEF Containers, SmallerKeep
<1>2. HasType(Allocated(t, old), t.elem)
  BY AllocatedHasType
<1>3. \A src \in Inputs : IsResult(InnerAssign(t.elem, Allocated(t, old), src, path, e), t.elem)
  BY <1>1, <1>2 DEF Keeps, Recursion
<1>4. \A raw \in STRING : IsResult(InnerAssignString(t.elem, Allocated(t, old), raw, path, e), t.elem)
  BY <1>1, <1>2 DEF Keeps, Recursion
<1> QED
  BY <1>3, <1>4, PointerResult DEF assignPointer

LEMMA InterfaceKeeps ==
    ASSUME NEW t, t.kind = "any", NEW old, HasType(old, t), NEW src, src # Null, NEW path
    PROVE  IsResult(assignInterface(t, old, src, path), t)
<1>1. HasType([any |-> src], t)
  BY DEF HasType, Is, Has
<1>2. assignInterface(t, old, src, path) \in {Fail(old, "ErrInvalidValue", path), Ok([any |-> src])}
  BY DEF assignInterface
<1> QED
  BY <1>1, <1>2, Results DEF ErrorKinds

\* What the walk over the items, or the entries, of a list has: its places, D,
\* with values of the elements' type.
IsList(r, u, D) ==
    /\ r = [val |-> r.val, err |-> r.err, log |-> r.log]
    /\ r.err.kind \in ErrorKinds
    /\ r.val = [i \in D |-> r.val[i]]
    /\ \A i \in D : HasType(r.val[i], u)

LEMMA ListPut ==
    ASSUME NEW u, NEW D, NEW r, IsList(r, u, D), NEW k, NEW part, IsResult(part, u)
    PROVE  IsList(Put(r, part, WithEntry(r.val, k, part.val)), u, D \cup {k})
<1> DEFINE v == WithEntry(r.val, k, part.val)
           C == D \cup {k}
<1>1. v = [j \in C |-> IF j = k THEN part.val ELSE r.val[j]]
  BY DEF WithEntry, IsList
<1>2. v = [i \in C |-> v[i]]
  BY <1>1
<1>3. \A i \in C : HasType(v[i], u)
  BY <1>1 DEF IsList, IsResult
<1> HIDE DEF v, C
<1>4. /\ Put(r, part, v).val = v /\ Put(r, part, v).err = part.err
      /\ Put(r, part, v) = [val |-> v, err |-> part.err, log |-> r.log \o part.log]
  BY DEF Put
<1>5. IsList(Put(r, part, v), u, C)
  BY <1>2, <1>3, <1>4 DEF IsList, IsResult
<1> QED
  BY <1>5 DEF v, C

ItemRun(t, start, items, path, e) ==
    LoopOfItems!Run([type |-> t.elem, items |-> items, path |-> path, env |-> e], Ok(start), Len(items))

\* What an item makes of a value in its place.
ItemAlone(t, w, items, path, e, i) == assign(t.elem, w, items[i], Append(path, ToString(i - 1)), e)

\* What one round of the walk over the items makes of what it has.
ItemStep(t, acc, items, path, e, i) ==
    IF acc.err # NoError THEN acc
    ELSE LET part == ItemAlone(t, acc.val[i], items, path, e, i)
         IN Put(acc, part, [acc.val EXCEPT ![i] = part.val])

ItemWalk(t, run, start, items, path, e) ==
    /\ run[0] = Ok(start)
    /\ \A i \in 1..Len(items) : run[i] = ItemStep(t, run[i - 1], items, path, e, i)

LEMMA ItemRounds ==
    ASSUME Recursion, NEW t \in Types, t.kind \in Containers, NEW start, NEW items, Len(items) \in Nat,
           NEW path, NEW e
    PROVE  ItemWalk(t, ItemRun(t, start, items, path, e), start, items, path, e)
<1> DEFINE n == Len(items)
           given == [type |-> t.elem, items |-> items, path |-> path, env |-> e]
           after == LoopOfItems!Run(given, Ok(start), n)
<1>1. n \in Nat /\ t.elem \in Types
  BY Elements
<1>2. /\ after[0] = Ok(start)
      /\ \A i \in 1..n : after[i] = NextItem(given, after[i - 1], i)
  BY <1>1, LoopOfItems!RunOfRounds
<1>3. ItemRun(t, start, items, path, e) = after
  BY DEF ItemRun
<1> HIDE DEF after
<1>4. \A acc, i : NextItem(given, acc, i) = ItemStep(t, acc, items, path, e, i)
  BY <1>1 DEF NextItem, ItemStep, ItemAlone, Recursion
<1> QED
  BY <1>2, <1>3, <1>4 DEF ItemWalk

LEMMA ItemsConverted ==
    \A t, start, items, path, e :
      Converted(t, start, items, path, e) = ItemRun(t, start, items, path, e)[Len(items)]
BY DEF Converted, ItemRun, ItemLoop!After, ItemLoop!Run, LoopOfItems!Run

LEMMA ItemsOneByOne ==
    ASSUME Recursion, NEW t \in Types, t.kind \in Containers, SmallerKeep(t), NEW e, IsEnv(e), NEW path,
           NEW items \in Seq(Inputs), NEW start, start = [i \in 1..Len(items) |-> start[i]],
           \A i \in 1..Len(items) : HasType(start[i], t.elem)
    PROVE  \A i \in 0..Len(items) : IsList(ItemRun(t, start, items, path, e)[i], t.elem, 1..Len(items))
<1> DEFINE n == Len(items)
           D == 1..n
           after == ItemRun(t, start, items, path, e)
           S == {i \in 0..n : IsList(after[i], t.elem, D)}
<1>1. n \in Nat /\ DOMAIN items = 1..n /\ \A i \in 1..n : items[i] \in Inputs
  OBVIOUS
<1>2. t.elem \in Types /\ Keeps(t.elem)
  BY Elements DEF SmallerKeep
<1>3. ItemWalk(t, after, start, items, path, e)
  BY <1>1, ItemRounds
<1> HIDE DEF after
<1>4. after[0] = Ok(start) /\ \A i \in 1..n : after[i] = ItemStep(t, after[i - 1], items, path, e, i)
  BY <1>3 DEF ItemWalk
<1>5. 0 \in S
  <2>1. IsList(Ok(start), t.elem, D)
    BY DEF IsList, Ok, NoError, ErrorKinds
  <2> QED  BY <1>1, <1>4, <2>1
<1>6. ASSUME NEW i \in 1..n, i - 1 \in S PROVE i \in S
  <2> DEFINE acc == after[i - 1]
             part == ItemAlone(t, acc.val[i], items, path, e, i)
  <2>1. IsList(acc, t.elem, D) /\ HasType(acc.val[i], t.elem)
    BY <1>6 DEF IsList
  <2>2. CASE acc.err # NoError
    <3>1. after[i] = acc
      BY <1>4, <2>2 DEF ItemStep
    <3> QED  BY <2>1, <3>1
  <2>3. CASE acc.err = NoError
    <3>1. after[i] = Put(acc, part, [acc.val EXCEPT ![i] = part.val])
      BY <1>4, <2>3 DEF ItemStep
    <3>2. IsResult(part, t.elem)
      BY <1>1, <1>2, <2>1 DEF Keeps, ItemAlone
    <3> HIDE DEF acc, part
    <3>3. [acc.val EXCEPT ![i] = part.val] = WithEntry(acc.val, i, part.val)
      BY <2>1 DEF IsList, WithEntry
    <3>4. IsList(Put(acc, part, WithEntry(acc.val, i, part.val)), t.elem, D \cup {i})
      BY <2>1, <3>2, ListPut
    <3>5. D \cup {i} = D
      OBVIOUS
    <3> HIDE DEF D
    <3>6. IsList(after[i], t.elem, D)
      BY <3>1, <3>3, <3>4, <3>5
    <3> QED  BY <3>6 DEF D
  <2> QED  BY <2>2, <2>3
<1> HIDE DEF S
<1>7. \A i \in 1..n : i - 1 \in S => i \in S
  BY <1>6
<1> HIDE DEF n, D
<1>8. \A i \in 0..n : i \in S
  BY <1>1, <1>5, <1>7, LoopOfItems!LoopInvariant
<1> QED
  BY <1>8 DEF S, n, D, after

LEMMA ItemsKeep ==
    ASSUME Recursion, NEW t \in Types, t.kind \in Containers, SmallerKeep(t), NEW e, IsEnv(e), NEW path,
           NEW items \in Seq(Inputs), NEW start, start = [i \in 1..Len(items) |-> start[i]],
           \A i \in 1..Len(items) : HasType(start[i], t.elem)
    PROVE  IsList(Converted(t, start, items, path, e), t.elem, 1..Len(items))
<1>1. Len(items) \in Nat /\ Len(items) \in 0..Len(items)
  OBVIOUS
<1>2. Converted(t, start, items, path, e) = ItemRun(t, start, items, path, e)[Len(items)]
  BY ItemsConverted
<1> QED
  BY <1>1, <1>2, ItemsOneByOne

LEMMA ListsKeep ==
    ASSUME Recursion, NEW t \in Types, t.kind \in {"slice", "array"}, SmallerKeep(t), NEW e, IsEnv(e), NEW path,
           NEW items \in Seq(Inputs), NEW old, HasType(old, t)
    PROVE  IsResult(assignItems(t, old, items, path, e), t)
<1> DEFINE n == Len(items)
           start == IF t.kind = "array" THEN old.array ELSE [i \in DOMAIN items |-> Zero(t.elem)]
           r == Converted(t, start, items, path, e)
<1>1. n \in Nat /\ DOMAIN items = 1..n /\ t.elem \in Types
  BY Elements DEF Containers
<1>2. CASE t.kind = "array" /\ n # t.len
  BY <1>2, Results DEF assignItems, ErrorKinds
<1>3. CASE t.kind = "array" /\ n = t.len
  <2>1. start = [i \in 1..n |-> start[i]] /\ \A i \in 1..n : InnerHasType(start[i], t.elem)
    BY <1>3 DEF HasType
  <2>2. \A i \in 1..n : HasType(start[i], t.elem)
    BY <1>1, <2>1 DEF Recursion
  <2>3. assignItems(t, old, items, path, e) = [r EXCEPT !.val = [array |-> @]]
    BY <1>3 DEF assignItems
  <2> HIDE DEF start
  <2>4. IsList(r, t.elem, 1..n)
    BY <1>3, <2>1, <2>2, ItemsKeep DEF Containers
  <2> HIDE DEF r
  <2>5. [r EXCEPT !.val = [array |-> @]] = [val |-> [array |-> r.val], err |-> r.err, log |-> r.log]
    <3>1. r = [val |-> r.val, err |-> r.err, log |-> r.log]
      BY <2>4 DEF IsList
    <3> QED  BY <3>1
  <2>6. \A i \in 1..n : InnerHasType(r.val[i], t.elem)
    BY <1>1, <2>4 DEF IsList, Recursion
  <2>7. HasType([array |-> r.val], t)
    BY <1>3, <2>4, <2>6 DEF HasType, Is, Has, IsList
  <2> QED  BY <2>3, <2>4, <2>5, <2>7 DEF IsResult, IsList
<1>4. CASE t.kind = "slice"
  <2> DEFINE v == IF r.err = NoError THEN [slice |-> r.val] ELSE old
  <2>1. start = [i \in 1..n |-> start[i]] /\ \A i \in 1..n : HasType(start[i], t.elem)
    BY <1>1, <1>4, ZeroHasType
  <2>2. assignItems(t, old, items, path, e) = [r EXCEPT !.val = IF r.err = NoError THEN [slice |-> @] ELSE old]
    BY <1>4 DEF assignItems
  <2> HIDE DEF start
  <2>3. IsList(r, t.elem, 1..n)
    BY <1>4, <2>1, ItemsKeep DEF Containers
  <2> HIDE DEF r
  <2>4. assignItems(t, old, items, path, e) = [val |-> v, err |-> r.err, log |-> r.log]
    BY <2>2, <2>3 DEF IsList
  <2>5. \A i \in 1..n : InnerHasType(r.val[i], t.elem)
    BY <1>1, <2>3 DEF IsList, Recursion
  <2>6. DOMAIN r.val = 1..n
    BY <2>3 DEF IsList
  <2>7. HasType([slice |-> r.val], t)
    BY <1>4, <2>5, <2>6 DEF HasType, Is, Has
  <2>8. HasType(v, t)
    BY <2>7
  <2> HIDE DEF v
  <2> QED  BY <2>3, <2>4, <2>8 DEF IsResult, IsList
<1> QED
  BY <1>2, <1>3, <1>4

LEMMA EntriesKeep ==
    ASSUME Recursion, NEW t \in Types, t.kind = "map", SmallerKeep(t), NEW e, IsEnv(e), NEW path,
           NEW src \in Inputs, Is(src, "object")
    PROVE  LET given == [type |-> t.elem, object |-> src.object, path |-> path, env |-> e]
           IN \E D : IsList(EntryLoop!After(given, Ok(EmptyTree), Len(KeyOrder)), t.elem, D)
<1> DEFINE n == Len(KeyOrder)
           given == [type |-> t.elem, object |-> src.object, path |-> path, env |-> e]
           after == LoopOfEntries!Run(given, Ok(EmptyTree), n)
           Holds(r) == \E D : IsList(r, t.elem, D)
           S == {i \in 0..n : Holds(after[i])}
<1>1. n \in Nat /\ DOMAIN KeyOrder = 1..n
  BY TextsAssumption
<1>2. t.elem \in Types /\ Keeps(t.elem) /\ HasType(Zero(t.elem), t.elem)
  BY Elements, ZeroHasType DEF SmallerKeep, Containers
<1>3. \A k \in DOMAIN src.object : src.object[k] \in Inputs
  BY NodesAssumption DEF Inputs, Text, Is, Has
<1>4. /\ after[0] = Ok(EmptyTree)
      /\ \A i \in 1..n : after[i] = NextEntry(given, after[i - 1], i)
  BY <1>1, LoopOfEntries!RunOfRounds
<1>5. EntryLoop!After(given, Ok(EmptyTree), n) = after[n]
  BY DEF EntryLoop!After, EntryLoop!Run, LoopOfEntries!Run
<1> HIDE DEF after
<1>6. 0 \in S
  <2>1. IsList(after[0], t.elem, {})
    BY <1>4 DEF IsList, Ok, NoError, ErrorKinds, EmptyTree
  <2> QED  BY <1>1, <2>1
<1>7. ASSUME NEW i \in 1..n, i - 1 \in S PROVE i \in S
  <2> DEFINE acc == after[i - 1]
             k == KeyOrder[i]
             here == Append(path, k)
             part == InnerAssign(t.elem, Zero(t.elem), src.object[k], here, e)
  <2>1. PICK D : IsList(acc, t.elem, D)
    BY <1>7
  <2>2. after[i] = NextEntry(given, acc, i)
    BY <1>4
  <2> HIDE DEF acc
  <2>3. CASE acc.err # NoError \/ i \notin sortedKeys(src.object)
    <3>1. after[i] = acc
      BY <2>2, <2>3 DEF NextEntry
    <3> QED  BY <2>1, <3>1
  <2>4. CASE acc.err = NoError /\ i \in sortedKeys(src.object)
    <3>1. k \in DOMAIN src.object
      BY <2>4 DEF sortedKeys
    <3>2. IsResult(part, t.elem)
      BY <1>2, <1>3, <3>1 DEF Keeps, Recursion
    <3>3. after[i] = Put(acc, part, WithEntry(acc.val, k, part.val))
      BY <2>2, <2>4 DEF NextEntry
    <3> HIDE DEF part, k
    <3>4. IsList(Put(acc, part, WithEntry(acc.val, k, part.val)), t.elem, D \cup {k})
      BY <2>1, <3>2, ListPut
    <3> QED  BY <3>3, <3>4
  <2> QED  BY <2>3, <2>4
<1> HIDE DEF S
<1>8. \A i \in 1..n : i - 1 \in S => i \in S
  BY <1>7
<1> HIDE DEF n, given, Holds
<1>9. n \in S
  <2>1. \A i \in 0..n : i \in S
    BY <1>1, <1>6, <1>8, LoopOfEntries!LoopInvariant
  <2> QED  BY <1>1, <2>1
<1> QED
  BY <1>5, <1>9 DEF S, Holds, n, given

LEMMA MapsKeep ==
    ASSUME Recursion, NEW t \in Types, t.kind = "map", SmallerKeep(t), NEW e, IsEnv(e), NEW path,
           NEW src \in Inputs, NEW old, HasType(old, t)
    PROVE  IsResult(assignMap(t, old, src, path, e), t)
<1> DEFINE given == [type |-> t.elem, object |-> src.object, path |-> path, env |-> e]
           r == EntryLoop!After(given, Ok(EmptyTree), Len(KeyOrder))
           v == IF r.err = NoError THEN [map |-> r.val] ELSE old
<1>1. t.elem \in Types
  BY Elements DEF Containers
<1>2. CASE ~Is(src, "object")
  BY <1>2, Results DEF assignMap, ErrorKinds
<1>3. CASE Is(src, "object")
  <2>1. assignMap(t, old, src, path, e) = [r EXCEPT !.val = IF r.err = NoError THEN [map |-> @] ELSE old]
    BY <1>3 DEF assignMap
  <2>2. PICK D : IsList(r, t.elem, D)
    BY <1>3, EntriesKeep
  <2> HIDE DEF r
  <2>3. assignMap(t, old, src, path, e) = [val |-> v, err |-> r.err, log |-> r.log]
    BY <2>1, <2>2 DEF IsList
  <2>4. DOMAIN r.val = D /\ \A k \in D : InnerHasType(r.val[k], t.elem)
    BY <1>1, <2>2 DEF IsList, Recursion
  <2>5. HasType([map |-> r.val], t)
    BY <2>4 DEF HasType, Is, Has
  <2>6. HasType(v, t)
    BY <2>5
  <2> HIDE DEF v
  <2> QED  BY <2>2, <2>3, <2>6 DEF IsResult, IsList
<1> QED
  BY <1>2, <1>3

LEMMA InputsAreNodes ==
    /\ \A s \in STRING : Text(s) \in Inputs /\ Text(s) # Null /\ ~Is(Text(s), "object")
    /\ \A src \in Inputs : Is(src, "object") => IsTree(src.object)
    /\ \A src \in Inputs : Is(src, "array") => src.array \in Seq(Inputs)
<1>1. \A s \in STRING : Text(s) \in Inputs /\ Text(s) # Null /\ ~Is(Text(s), "object") /\ ~Is(Text(s), "array")
  BY DEF Inputs, Text, Null, Is, Has
<1>2. \A src \in Inputs : Is(src, "object") => IsTree(src.object)
  BY <1>1, NodesAssumption DEF Inputs, IsTree
<1>3. ASSUME NEW src \in Inputs, Is(src, "array") PROVE src.array \in Seq(Inputs)
  <2>1. src.array \in Seq(Node)
    BY <1>1, <1>3, NodesAssumption DEF Inputs
  <2> QED  BY <2>1 DEF Inputs
<1> QED
  BY <1>1, <1>2, <1>3

LEMMA StructsKeep ==
    ASSUME Recursion, HandlersKeepTypes, NEW t \in Types, t.kind = "struct", SmallerKeep(t), NEW e, IsEnv(e),
           NEW path, NEW src \in Inputs, src # Null, NEW old, HasType(old, t)
    PROVE  IsResult(assignStruct(t, old, src, path, e), t)
<1>1. CASE Hook(t, "json")
  BY <1>1, UnmarshalKeeps DEF assignStruct
<1>2. CASE ~Hook(t, "json") /\ Is(src, "object") /\ isBindableStruct(t)
  <2>1. assignStruct(t, old, src, path, e) = bindStruct(src.object, t, old, path, e)
    BY <1>2 DEF assignStruct
  <2> QED  BY <1>2, <2>1, InputsAreNodes, StructKeeps
<1>3. CASE ~Hook(t, "json") /\ ~(Is(src, "object") /\ isBindableStruct(t))
  <2>1. assignStruct(t, old, src, path, e) = Fail(old, "ErrInvalidValue", path)
    BY <1>3 DEF assignStruct
  <2> QED  BY <2>1, Results DEF ErrorKinds
<1> QED
  BY <1>1, <1>2, <1>3

LEMMA AssignKeeps ==
    ASSUME Recursion, HandlersKeepTypes, NEW t \in Types, SmallerKeep(t), NEW e, IsEnv(e),
           NEW path, NEW src \in Inputs, NEW old, HasType(old, t)
    PROVE  IsResult(assign(t, old, src, path, e), t)
<1> DEFINE r == assign(t, old, src, path, e)
<1>1. CASE src = Null
  BY <1>1, Results DEF assign
<1>2. CASE src # Null /\ Is(src, "text") /\ Hook(t, "text")
  BY <1>2, UnmarshalKeeps DEF assign
<1>3. CASE src # Null /\ ~(Is(src, "text") /\ Hook(t, "text"))
  <2>1. CASE t.kind = "pointer"
    <3>1. r = assignPointer(t, old, src, path, e)
      BY <1>3, <2>1 DEF assign
    <3> QED  BY <2>1, <3>1, PointerKeeps
  <2>2. CASE t.kind = "any"
    <3>1. r = assignInterface(t, old, src, path)
      BY <1>3, <2>2 DEF assign
    <3> QED  BY <1>3, <2>2, <3>1, InterfaceKeeps
  <2>3. CASE t.kind = "struct"
    <3>1. r = assignStruct(t, old, src, path, e)
      BY <1>3, <2>3 DEF assign
    <3> QED  BY <1>3, <2>3, <3>1, StructsKeep
  <2>4. CASE t.kind = "map"
    <3>1. r = assignMap(t, old, src, path, e)
      BY <1>3, <2>4 DEF assign
    <3> QED  BY <2>4, <3>1, MapsKeep
  <2>5. CASE t.kind \in {"slice", "array"}
    <3>1. r = assignSlice(t, old, src, path, e)
      BY <1>3, <2>5 DEF assign
    <3>2. CASE Is(src, "array")
      BY <2>5, <3>1, <3>2, InputsAreNodes, ListsKeep DEF assignSlice
    <3>3. CASE ~Is(src, "array")
      BY <3>1, <3>3, Results DEF assignSlice, ErrorKinds
    <3> QED  BY <3>2, <3>3
  <2>6. CASE t.kind \in {"string", "int", "bool"}
    <3>1. r = assignScalar(t, old, src, path)
      BY <1>3, <2>6 DEF assign
    <3> QED  BY <3>1, ScalarKeeps
  <2> QED  BY <2>1, <2>2, <2>3, <2>4, <2>5, <2>6, TypesAssumption DEF Containers
<1> QED
  BY <1>1, <1>2, <1>3

LEMMA OneItem ==
    ASSUME NEW S, NEW x \in S
    PROVE  <<x>> \in Seq(S)
OBVIOUS

LEMMA TextsOfItems ==
    ASSUME NEW raw \in STRING
    PROVE  [i \in DOMAIN ItemsIn(raw) |-> Text(ItemsIn(raw)[i])] \in Seq(Inputs)
<1> DEFINE items == ItemsIn(raw)
           texts == [i \in DOMAIN items |-> Text(items[i])]
<1>1. items \in Seq(STRING)
  <2>1. CASE raw \in DOMAIN ItemsOf
    BY <2>1, TextsAssumption DEF ItemsIn
  <2>2. CASE raw \notin DOMAIN ItemsOf
    <3>1. items = <<raw>>
      BY <2>2 DEF ItemsIn
    <3> QED  BY <3>1, OneItem
  <2> QED  BY <2>1, <2>2
<1> HIDE DEF items
<1>2. DOMAIN items = 1..Len(items) /\ Len(items) \in Nat /\ \A i \in DOMAIN items : items[i] \in STRING
  BY <1>1
<1>3. \A i \in DOMAIN items : Text(items[i]) \in Inputs
  BY <1>2, InputsAreNodes
<1>4. texts \in Seq(Inputs)
  BY <1>2, <1>3
<1> QED
  BY <1>4 DEF items

LEMMA AssignStringKeeps ==
    ASSUME Recursion, HandlersKeepTypes, NEW t \in Types, SmallerKeep(t), NEW e, IsEnv(e),
           NEW path, NEW raw \in STRING, NEW old, HasType(old, t)
    PROVE  IsResult(assignString(t, old, raw, path, e), t)
<1> DEFINE r == assignString(t, old, raw, path, e)
<1>1. Text(raw) \in Inputs /\ Text(raw) # Null
  BY InputsAreNodes
<1>2. CASE Hook(t, "text")
  BY <1>1, <1>2, UnmarshalKeeps DEF assignString
<1>3. CASE ~Hook(t, "text")
  <2>1. CASE t.kind = "pointer"
    <3>1. r = Pointing(InnerAssignString(t.elem, Allocated(t, old), raw, path, e))
      BY <1>3, <2>1 DEF assignString
    <3> QED  BY <2>1, <3>1, PointerKeeps
  <2>2. CASE t.kind = "any"
    <3>1. r = assignInterface(t, old, Text(raw), path)
      BY <1>3, <2>2 DEF assignString
    <3> QED  BY <1>1, <2>2, <3>1, InterfaceKeeps
  <2>3. CASE t.kind = "struct"
    <3>1. r = assignStruct(t, old, Text(raw), path, e)
      BY <1>3, <2>3 DEF assignString
    <3> QED  BY <1>1, <2>3, <3>1, StructsKeep
  <2>4. CASE t.kind \in {"slice", "array"}
    <3>1. r = assignItems(t, old, [i \in DOMAIN ItemsIn(raw) |-> Text(ItemsIn(raw)[i])], path, e)
      BY <1>3, <2>4 DEF assignString
    <3> QED  BY <2>4, <3>1, TextsOfItems, ListsKeep
  <2>5. CASE t.kind \in {"string", "int", "bool", "map"}
    <3>1. r = assignScalar(t, old, Text(raw), path)
      BY <1>3, <2>5 DEF assignString
    <3> QED  BY <3>1, ScalarKeeps
  <2> QED  BY <2>1, <2>2, <2>3, <2>4, <2>5, TypesAssumption DEF Containers
<1> QED
  BY <1>2, <1>3

\* assign, assignString and bindStruct make of a value of a type another value
\* of that type, whatever they are given, whether they fail or not.
LEMMA AllKeep ==
    ASSUME Recursion, HandlersKeepTypes
    PROVE  \A t \in Types : Keeps(t)
<1> DEFINE G == {t \in Types : Keeps(t)}
<1>1. ASSUME NEW t \in Types, \A u \in Types : Depth[u] < Depth[t] => u \in G
      PROVE  t \in G
  <2>1. SmallerKeep(t)
    BY <1>1 DEF SmallerKeep
  <2>2. Keeps(t)
    BY <2>1, AssignKeeps, AssignStringKeeps, StructKeeps DEF Keeps
  <2> QED  BY <2>2
<1> HIDE DEF G
<1>2. Types \subseteq G
  <2>1. G \in SUBSET Types  BY DEF G
  <2> QED  BY <1>1, <2>1, TypeInduction
<1> QED
  BY <1>2 DEF G
=============================================================================
