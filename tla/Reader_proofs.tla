---------------------------- MODULE Reader_proofs ----------------------------
(***************************************************************************)
(* The loads of a Reader: a format means one decoder, a narrowed load has  *)
(* something to give, a section is the only node its path can mean, what   *)
(* is bound was normalised and expanded, a strict expander has seen the    *)
(* whole document, and a struct stays one of its type.  For all loaders,   *)
(* registrations, sources, decoders, documents, prefixes and types.        *)
(*                                                                         *)
(* The constants named Inner... stand for what the definitions make of the *)
(* nodes inside a node; DocumentsRecur says that they are the definitions. *)
(***************************************************************************)
EXTENDS Reader, BindLevel_proofs

LoopOfElements == INSTANCE Iteration_proofs WITH Round <- NextElement
LoopOfExpanders == INSTANCE Iteration_proofs WITH Round <- NextExpander
LoopOfLevels == INSTANCE Iteration_proofs WITH Round <- LevelAt
LoopOfPaths == INSTANCE Iteration_proofs WITH Round <- Below

Goroutines == Loader \cup Registrar

-----------------------------------------------------------------------------
(* Values: the trees that libraries return.  They are finite, so that what is
   proved of a value when it holds of its parts holds of every value. *)

Shapes == {"null", "text", "num", "bool", "array", "object", "whole", "nilslice", "nilmap", "nilobject", "anymap"}

Parts(v) ==
    CASE Is(v, "object") -> {v.object[k] : k \in DOMAIN v.object}
      [] Is(v, "anymap") -> {v.anymap[k] : k \in DOMAIN v.anymap}
      [] Is(v, "array") -> {v.array[i] : i \in DOMAIN v.array}
      [] OTHER -> {}

WellFormed(v) ==
    /\ \E shape \in Shapes : DOMAIN v = {shape}
    /\ Is(v, "array") => v.array \in Seq({v.array[i] : i \in DOMAIN v.array})

\* The values of S are made of values of S, from the ones without parts upwards.
Founded(S) ==
    /\ \A v \in S : WellFormed(v) /\ Parts(v) \subseteq S
    /\ \A T \in SUBSET S : (\A v \in S : Parts(v) \subseteq T => v \in T) => T = S

IsValue(v) == \E S : v \in S /\ Founded(S)

LEMMA ValueParts ==
    ASSUME NEW v, IsValue(v)
    PROVE  WellFormed(v) /\ \A m \in Parts(v) : IsValue(m)
<1>1. PICK S : v \in S /\ Founded(S)
  BY DEF IsValue
<1> QED
  BY <1>1 DEF Founded, IsValue

LEMMA ValueOfParts ==
    ASSUME NEW v, WellFormed(v), \A m \in Parts(v) : IsValue(m)
    PROVE  IsValue(v)
<1> DEFINE around(m) == CHOOSE S : m \in S /\ Founded(S)
           U == (UNION {around(m) : m \in Parts(v)}) \cup {v}
<1>1. ASSUME NEW m \in Parts(v) PROVE m \in around(m) /\ Founded(around(m)) /\ around(m) \subseteq U
  <2>1. \E S : m \in S /\ Founded(S)
    BY DEF IsValue
  <2>2. m \in around(m) /\ Founded(around(m))
    BY <2>1
  <2> QED  BY <2>2
<1>2. ASSUME NEW u \in U PROVE u = v \/ \E m \in Parts(v) : u \in around(m)
  OBVIOUS
<1>3. v \in U
  OBVIOUS
<1> HIDE DEF U, around
<1>4. Parts(v) \subseteq U
  BY <1>1
<1>5. ASSUME NEW u \in U PROVE WellFormed(u) /\ Parts(u) \subseteq U
  <2>1. CASE u = v
    BY <2>1, <1>4
  <2>2. ASSUME NEW m \in Parts(v), u \in around(m) PROVE WellFormed(u) /\ Parts(u) \subseteq U
    BY <2>2, <1>1 DEF Founded
  <2> QED  BY <2>1, <2>2, <1>2
<1>6. ASSUME NEW T \in SUBSET U, \A u \in U : Parts(u) \subseteq T => u \in T PROVE T = U
  <2>1. ASSUME NEW m \in Parts(v) PROVE around(m) \subseteq T
    <3> DEFINE A == around(m)
               R == T \cap A
    <3>1. Founded(A) /\ A \subseteq U
      BY <1>1, <2>1
    <3> HIDE DEF A
    <3>2. ASSUME NEW u \in A, Parts(u) \subseteq R PROVE u \in R
      BY <1>6, <3>1, <3>2
    <3>3. R = A
      <4>1. R \in SUBSET A
        OBVIOUS
      <4> HIDE DEF R
      <4> QED  BY <4>1, <3>1, <3>2 DEF Founded
    <3> QED  BY <3>3 DEF A
  <2>2. Parts(v) \subseteq T
    BY <2>1, <1>1
  <2>3. v \in T
    BY <2>2, <1>6, <1>3
  <2> QED  BY <2>1, <2>3, <1>2
<1>7. Founded(U)
  BY <1>5, <1>6 DEF Founded
<1> QED
  BY <1>3, <1>7 DEF IsValue

-----------------------------------------------------------------------------
(* The definitions of Documents, one shape after another *)

LEMMA OfObject ==
    ASSUME NEW v, DOMAIN v = {"object"}
    PROVE  /\ WellFormed(v) /\ Parts(v) = {v.object[k] : k \in DOMAIN v.object}
           /\ normalizeValue(v) = [object |-> [k \in DOMAIN v.object |-> InnerNormalize(v.object[k])]]
           /\ IsCanonical(v) <=> \A k \in DOMAIN v.object : InnerCanonical(v.object[k])
           /\ hasReference(v) <=>
                \E k \in DOMAIN v.object : k \in DOMAIN Reference \/ InnerHasReference(v.object[k])
           /\ Texts(v) = DOMAIN v.object \cup UNION {InnerTexts(v.object[k]) : k \in DOMAIN v.object}
           /\ \A e, strict : expandValue(v, e, strict)
                               = AndThen(expandMap(v.object, e, strict), LAMBDA map : Done(Object(map)))
<1> USE DEF Is, Has
<1>1. WellFormed(v) /\ Parts(v) = {v.object[k] : k \in DOMAIN v.object}
  BY DEF WellFormed, Shapes, Parts
<1>2. normalizeValue(v) = [object |-> [k \in DOMAIN v.object |-> InnerNormalize(v.object[k])]]
  BY DEF normalizeValue, normalizeMap, normalizeSlice
<1>3. IsCanonical(v) <=> \A k \in DOMAIN v.object : InnerCanonical(v.object[k])
  BY DEF IsCanonical
<1>4. hasReference(v) <=> \E k \in DOMAIN v.object : k \in DOMAIN Reference \/ InnerHasReference(v.object[k])
  BY DEF hasReference
<1>5. Texts(v) = DOMAIN v.object \cup UNION {InnerTexts(v.object[k]) : k \in DOMAIN v.object}
  BY DEF Texts
<1>6. ASSUME NEW e, NEW strict
      PROVE  expandValue(v, e, strict) = AndThen(expandMap(v.object, e, strict), LAMBDA map : Done(Object(map)))
  BY DEF expandValue
<1> QED
  BY <1>1, <1>2, <1>3, <1>4, <1>5, <1>6

LEMMA OfArray ==
    ASSUME NEW v, DOMAIN v = {"array"}
    PROVE  /\ WellFormed(v) <=> v.array \in Seq({v.array[i] : i \in DOMAIN v.array})
           /\ Parts(v) = {v.array[i] : i \in DOMAIN v.array}
           /\ normalizeValue(v) = [array |-> [i \in DOMAIN v.array |-> InnerNormalize(v.array[i])]]
           /\ IsCanonical(v) <=> \A i \in DOMAIN v.array : InnerCanonical(v.array[i])
           /\ hasReference(v) <=> \E i \in DOMAIN v.array : InnerHasReference(v.array[i])
           /\ Texts(v) = UNION {InnerTexts(v.array[i]) : i \in DOMAIN v.array}
           /\ \A e, strict : expandValue(v, e, strict)
                               = AndThen(expandList(v.array, e, strict), LAMBDA list : Done([array |-> list]))
<1> USE DEF Is, Has
<1>1. WellFormed(v) <=> v.array \in Seq({v.array[i] : i \in DOMAIN v.array})
  BY DEF WellFormed, Shapes
<1>2. Parts(v) = {v.array[i] : i \in DOMAIN v.array}
  BY DEF Parts
<1>3. normalizeValue(v) = [array |-> [i \in DOMAIN v.array |-> InnerNormalize(v.array[i])]]
  BY DEF normalizeValue, normalizeMap, normalizeSlice
<1>4. IsCanonical(v) <=> \A i \in DOMAIN v.array : InnerCanonical(v.array[i])
  BY DEF IsCanonical
<1>5. hasReference(v) <=> \E i \in DOMAIN v.array : InnerHasReference(v.array[i])
  BY DEF hasReference
<1>6. Texts(v) = UNION {InnerTexts(v.array[i]) : i \in DOMAIN v.array}
  BY DEF Texts
<1>7. ASSUME NEW e, NEW strict
      PROVE  expandValue(v, e, strict) = AndThen(expandList(v.array, e, strict), LAMBDA list : Done([array |-> list]))
  BY DEF expandValue
<1> QED
  BY <1>1, <1>2, <1>3, <1>4, <1>5, <1>6, <1>7

\* A map with keys of any type, which is no canonical node.
LEMMA OfAnymap ==
    ASSUME NEW v, DOMAIN v = {"anymap"}
    PROVE  /\ WellFormed(v) /\ Parts(v) = {v.anymap[k] : k \in DOMAIN v.anymap}
           /\ normalizeValue(v) = [object |-> [k \in DOMAIN v.anymap |-> InnerNormalize(v.anymap[k])]]
           /\ ~IsCanonical(v)
           /\ Texts(v) = DOMAIN v.anymap \cup UNION {InnerTexts(v.anymap[k]) : k \in DOMAIN v.anymap}
<1> USE DEF Is, Has
<1>1. WellFormed(v) /\ Parts(v) = {v.anymap[k] : k \in DOMAIN v.anymap}
  BY DEF WellFormed, Shapes, Parts
<1>2. normalizeValue(v) = [object |-> [k \in DOMAIN v.anymap |-> InnerNormalize(v.anymap[k])]]
  BY DEF normalizeValue, normalizeMap, normalizeSlice
<1>3. ~IsCanonical(v)
  BY DEF IsCanonical
<1>4. Texts(v) = DOMAIN v.anymap \cup UNION {InnerTexts(v.anymap[k]) : k \in DOMAIN v.anymap}
  BY DEF Texts
<1> QED
  BY <1>1, <1>2, <1>3, <1>4

LEMMA OfText ==
    ASSUME NEW v, DOMAIN v = {"text"}
    PROVE  /\ WellFormed(v) /\ Parts(v) = {} /\ normalizeValue(v) = v /\ IsCanonical(v)
           /\ hasReference(v) <=> v.text \in DOMAIN Reference
           /\ Texts(v) = {v.text}
           /\ \A e, strict : LET to == expandVariables(v.text, e, strict) IN
                expandValue(v, e, strict) = IF to = {} THEN Refuse("ErrEnvNotSet") ELSE UNION {Done(Text(s)) : s \in to}
<1> USE DEF Is, Has
<1>1. WellFormed(v) /\ Parts(v) = {} /\ normalizeValue(v) = v /\ IsCanonical(v)
  BY DEF WellFormed, Shapes, Parts, normalizeValue, normalizeMap, normalizeSlice, IsCanonical
<1>2. hasReference(v) <=> v.text \in DOMAIN Reference
  BY DEF hasReference
<1>3. Texts(v) = {v.text}
  BY DEF Texts
<1>4. ASSUME NEW e, NEW strict
      PROVE LET to == expandVariables(v.text, e, strict) IN
                expandValue(v, e, strict) = IF to = {} THEN Refuse("ErrEnvNotSet") ELSE UNION {Done(Text(s)) : s \in to}
  BY DEF expandValue
<1> QED
  BY <1>1, <1>2, <1>3, <1>4

LEMMA OfScalar ==
    ASSUME NEW v, NEW shape \in {"null", "num", "bool"}, DOMAIN v = {shape}
    PROVE  /\ WellFormed(v) /\ Parts(v) = {} /\ normalizeValue(v) = v /\ IsCanonical(v)
           /\ ~hasReference(v)
           /\ Texts(v) = {}
           /\ \A e, strict : expandValue(v, e, strict) = Done(v)
<1> USE DEF Is, Has
<1>1. WellFormed(v) /\ Parts(v) = {} /\ normalizeValue(v) = v /\ IsCanonical(v)
  BY DEF WellFormed, Shapes, Parts, normalizeValue, normalizeMap, normalizeSlice, IsCanonical
<1>2. ~hasReference(v)
  BY DEF hasReference
<1>3. Texts(v) = {}
  BY DEF Texts
<1>4. \A e, strict : expandValue(v, e, strict) = Done(v)
  BY DEF expandValue
<1> QED
  BY <1>1, <1>2, <1>3, <1>4

\* What a library returns beside the nodes of a tree.
LEMMA OfForeign ==
    ASSUME NEW v, NEW shape \in {"whole", "nilslice", "nilmap", "nilobject"}, DOMAIN v = {shape}
    PROVE  /\ WellFormed(v) /\ Parts(v) = {} /\ ~IsCanonical(v) /\ Texts(v) = {}
           /\ normalizeValue(v) = CASE shape = "whole" -> [num |-> v.whole]
                                    [] shape \in {"nilslice", "nilmap"} -> Null
                                    [] shape = "nilobject" -> Object(EmptyTree)
<1> USE DEF Is, Has
<1>1. WellFormed(v) /\ Parts(v) = {} /\ ~IsCanonical(v) /\ Texts(v) = {}
  BY DEF WellFormed, Shapes, Parts, IsCanonical, Texts
<1>2. normalizeValue(v) = CASE shape = "whole" -> [num |-> v.whole]
                            [] shape \in {"nilslice", "nilmap"} -> Null
                            [] shape = "nilobject" -> Object(EmptyTree)
  BY DEF normalizeValue, normalizeMap, normalizeSlice
<1> QED
  BY <1>1, <1>2

LEMMA ShapesOfValues ==
    ASSUME NEW v, WellFormed(v)
    PROVE  \/ DOMAIN v = {"object"} \/ DOMAIN v = {"array"} \/ DOMAIN v = {"anymap"} \/ DOMAIN v = {"text"}
           \/ \E shape \in {"null", "num", "bool"} : DOMAIN v = {shape}
           \/ \E shape \in {"whole", "nilslice", "nilmap", "nilobject"} : DOMAIN v = {shape}
BY DEF WellFormed, Shapes

\* What the definitions of Documents ask about a node inside a node is what they
\* say of it, and the same for a fallback inside a text.
DocumentsRecur ==
    /\ \A v : IsValue(v) =>
         /\ InnerNormalize(v) = normalizeValue(v)
         /\ InnerCanonical(v) <=> IsCanonical(v)
         /\ InnerHasReference(v) <=> hasReference(v)
         /\ InnerTexts(v) = Texts(v)
         /\ \A e \in Envs : \A strict \in BOOLEAN : InnerExpand(v, e, strict) = expandValue(v, e, strict)
    /\ \A s \in DOMAIN Reference : Has(Reference[s], "fallback") =>
         \A e \in Envs : \A strict \in BOOLEAN :
           InnerVariables(Reference[s].fallback, e, strict) = expandVariables(Reference[s].fallback, e, strict)

-----------------------------------------------------------------------------
(* Normalisation *)

LEMMA MakesObject ==
    ASSUME DocumentsRecur, NEW map, \A k \in DOMAIN map : IsValue(map[k]) /\ IsCanonical(map[k])
    PROVE  /\ IsValue(Object(map)) /\ IsCanonical(Object(map))
           /\ Texts(Object(map)) = DOMAIN map \cup UNION {Texts(map[k]) : k \in DOMAIN map}
<1> DEFINE v == Object(map)
<1>1. DOMAIN v = {"object"} /\ v.object = map
  BY DEF Object
<1> HIDE DEF v
<1>2. IsValue(v)
  <2>1. WellFormed(v) /\ Parts(v) = {v.object[k] : k \in DOMAIN v.object}
    BY <1>1, OfObject, Zenon
  <2>2. \A m \in Parts(v) : IsValue(m)
    BY <2>1, <1>1
  <2> QED  BY <2>1, <2>2, ValueOfParts
<1>3. IsCanonical(v)
  BY <1>1, OfObject DEF DocumentsRecur
<1>4. Texts(v) = DOMAIN map \cup UNION {Texts(map[k]) : k \in DOMAIN map}
  <2>1. Texts(v) = DOMAIN map \cup UNION {InnerTexts(map[k]) : k \in DOMAIN map}
    BY <1>1, OfObject
  <2>2. \A k \in DOMAIN map : InnerTexts(map[k]) = Texts(map[k])
    BY DEF DocumentsRecur
  <2> QED  BY <2>1, <2>2
<1> QED
  BY <1>2, <1>3, <1>4 DEF v

LEMMA MakesArray ==
    ASSUME DocumentsRecur, NEW S, NEW list \in Seq(S),
           \A i \in DOMAIN list : IsValue(list[i]) /\ IsCanonical(list[i])
    PROVE  /\ IsValue([array |-> list]) /\ IsCanonical([array |-> list])
           /\ Texts([array |-> list]) = UNION {Texts(list[i]) : i \in DOMAIN list}
<1> DEFINE v == [array |-> list]
<1>1. DOMAIN v = {"array"} /\ v.array = list
  OBVIOUS
<1> HIDE DEF v
<1>2. IsValue(v)
  <2>1. list \in Seq({list[i] : i \in DOMAIN list})
    OBVIOUS
  <2>2. (WellFormed(v) <=> v.array \in Seq({v.array[i] : i \in DOMAIN v.array}))
        /\ Parts(v) = {v.array[i] : i \in DOMAIN v.array}
    BY <1>1, OfArray, Zenon
  <2>3. \A m \in Parts(v) : IsValue(m)
    BY <2>2, <1>1
  <2>4. WellFormed(v)
    BY <2>1, <2>2, <1>1
  <2> QED  BY <2>3, <2>4, ValueOfParts
<1>3. IsCanonical(v)
  BY <1>1, OfArray DEF DocumentsRecur
<1>4. Texts(v) = UNION {Texts(list[i]) : i \in DOMAIN list}
  <2>1. Texts(v) = UNION {InnerTexts(list[i]) : i \in DOMAIN list}
    BY <1>1, OfArray
  <2>2. \A i \in DOMAIN list : InnerTexts(list[i]) = Texts(list[i])
    BY DEF DocumentsRecur
  <2> QED  BY <2>1, <2>2
<1> QED
  BY <1>2, <1>3, <1>4 DEF v

\* Normalised, a value is canonical, and its texts are the ones it had.
IsNormal(v) ==
    LET n == normalizeValue(v) IN IsValue(n) /\ IsCanonical(n) /\ Texts(n) = Texts(v)

LEMMA NormalisedMap ==
    ASSUME DocumentsRecur, NEW map, \A k \in DOMAIN map : IsValue(map[k]) /\ IsNormal(map[k])
    PROVE  LET n == Object([k \in DOMAIN map |-> InnerNormalize(map[k])]) IN
           /\ IsValue(n) /\ IsCanonical(n)
           /\ Texts(n) = DOMAIN map \cup UNION {InnerTexts(map[k]) : k \in DOMAIN map}
<1> DEFINE made == [k \in DOMAIN map |-> InnerNormalize(map[k])]
<1>1. \A k \in DOMAIN map : IsValue(made[k]) /\ IsCanonical(made[k]) /\ Texts(made[k]) = InnerTexts(map[k])
  BY DEF IsNormal, DocumentsRecur
<1>2. DOMAIN made = DOMAIN map
  OBVIOUS
<1> HIDE DEF made
<1>3. /\ IsValue(Object(made)) /\ IsCanonical(Object(made))
      /\ Texts(Object(made)) = DOMAIN map \cup UNION {Texts(made[k]) : k \in DOMAIN map}
  BY <1>1, <1>2, MakesObject
<1>4. UNION {Texts(made[k]) : k \in DOMAIN map} = UNION {InnerTexts(map[k]) : k \in DOMAIN map}
  BY <1>1
<1> QED
  BY <1>3, <1>4 DEF made

LEMMA NormalisedFromParts ==
    ASSUME DocumentsRecur, NEW v, IsValue(v), \A m \in Parts(v) : IsNormal(m)
    PROVE  IsNormal(v)
<1>1. WellFormed(v) /\ \A m \in Parts(v) : IsValue(m)
  BY ValueParts
<1>2. CASE DOMAIN v = {"object"}
  <2>1. \A k \in DOMAIN v.object : v.object[k] \in Parts(v)
    BY <1>2, OfObject
  <2>2. normalizeValue(v) = Object([k \in DOMAIN v.object |-> InnerNormalize(v.object[k])])
    BY <1>2, OfObject DEF Object
  <2>3. Texts(v) = DOMAIN v.object \cup UNION {InnerTexts(v.object[k]) : k \in DOMAIN v.object}
    BY <1>2, OfObject
  <2>4. \A k \in DOMAIN v.object : IsValue(v.object[k]) /\ IsNormal(v.object[k])
    BY <1>1, <2>1
  <2> QED
    BY <2>2, <2>3, <2>4, NormalisedMap DEF IsNormal
<1>3. CASE DOMAIN v = {"anymap"}
  <2>1. \A k \in DOMAIN v.anymap : v.anymap[k] \in Parts(v)
    BY <1>3, OfAnymap
  <2>2. normalizeValue(v) = Object([k \in DOMAIN v.anymap |-> InnerNormalize(v.anymap[k])])
    BY <1>3, OfAnymap DEF Object
  <2>3. Texts(v) = DOMAIN v.anymap \cup UNION {InnerTexts(v.anymap[k]) : k \in DOMAIN v.anymap}
    BY <1>3, OfAnymap
  <2>4. \A k \in DOMAIN v.anymap : IsValue(v.anymap[k]) /\ IsNormal(v.anymap[k])
    BY <1>1, <2>1
  <2> QED
    BY <2>2, <2>3, <2>4, NormalisedMap DEF IsNormal
<1>4. CASE DOMAIN v = {"array"}
  <2> DEFINE list == [i \in DOMAIN v.array |-> InnerNormalize(v.array[i])]
             S == {list[i] : i \in DOMAIN v.array}
  <2>1. v.array \in Seq({v.array[i] : i \in DOMAIN v.array}) /\ \A i \in DOMAIN v.array : v.array[i] \in Parts(v)
    BY <1>1, <1>4, OfArray
  <2>2. normalizeValue(v) = [array |-> list] /\ Texts(v) = UNION {InnerTexts(v.array[i]) : i \in DOMAIN v.array}
    BY <1>4, OfArray
  <2>3. list \in Seq(S) /\ DOMAIN list = DOMAIN v.array
    BY <2>1
  <2>4. \A i \in DOMAIN v.array : IsValue(list[i]) /\ IsCanonical(list[i]) /\ Texts(list[i]) = InnerTexts(v.array[i])
    BY <1>1, <2>1 DEF IsNormal, DocumentsRecur
  <2> HIDE DEF list, S
  <2>5. /\ IsValue([array |-> list]) /\ IsCanonical([array |-> list])
        /\ Texts([array |-> list]) = UNION {Texts(list[i]) : i \in DOMAIN list}
    BY <2>3, <2>4, MakesArray
  <2>6. UNION {Texts(list[i]) : i \in DOMAIN list} = UNION {InnerTexts(v.array[i]) : i \in DOMAIN v.array}
    BY <2>3, <2>4
  <2> QED
    BY <2>2, <2>5, <2>6 DEF IsNormal
<1>5. CASE DOMAIN v = {"text"} \/ \E shape \in {"null", "num", "bool"} : DOMAIN v = {shape}
  BY <1>5, OfText, OfScalar DEF IsNormal
<1>6. ASSUME NEW shape \in {"whole", "nilslice", "nilmap", "nilobject"}, DOMAIN v = {shape} PROVE IsNormal(v)
  <2>1. Texts(v) = {} /\ normalizeValue(v) = CASE shape = "whole" -> [num |-> v.whole]
                                               [] shape \in {"nilslice", "nilmap"} -> Null
                                               [] shape = "nilobject" -> Object(EmptyTree)
    BY <1>6, OfForeign
  <2>2. ASSUME NEW n, NEW simple \in {"null", "num", "bool"}, DOMAIN n = {simple}
        PROVE  IsValue(n) /\ IsCanonical(n) /\ Texts(n) = {}
    BY <2>2, OfScalar, ValueOfParts
  <2>3. CASE shape = "whole"
    <3>1. normalizeValue(v) = [num |-> v.whole]
      BY <2>1, <2>3
    <3>2. DOMAIN normalizeValue(v) = {"num"}
      BY <3>1
    <3> QED  BY <2>1, <3>2, <2>2 DEF IsNormal
  <2>4. CASE shape \in {"nilslice", "nilmap"}
    <3>1. normalizeValue(v) = Null
      BY <2>1, <2>4
    <3>2. DOMAIN normalizeValue(v) = {"null"}
      BY <3>1 DEF Null
    <3> QED  BY <2>1, <3>2, <2>2 DEF IsNormal
  <2>5. CASE shape = "nilobject"
    <3>1. DOMAIN EmptyTree = {}
      BY DEF EmptyTree
    <3>2. IsValue(Object(EmptyTree)) /\ IsCanonical(Object(EmptyTree)) /\ Texts(Object(EmptyTree)) = {}
      BY <3>1, MakesObject
    <3>3. normalizeValue(v) = Object(EmptyTree)
      BY <2>1, <2>5
    <3> QED  BY <2>1, <3>2, <3>3 DEF IsNormal
  <2> QED
    BY <2>3, <2>4, <2>5
<1> QED
  BY <1>1, <1>2, <1>3, <1>4, <1>5, <1>6, ShapesOfValues

\* By induction over the value.
LEMMA Normalised ==
    ASSUME DocumentsRecur, NEW v, IsValue(v)
    PROVE  IsNormal(v)
<1>1. PICK S : v \in S /\ Founded(S)
  BY DEF IsValue
<1> DEFINE T == {m \in S : IsNormal(m)}
<1>2. ASSUME NEW u \in S, Parts(u) \subseteq T PROVE u \in T
  <2>1. IsValue(u)
    BY <1>1 DEF IsValue
  <2> QED  BY <1>2, <2>1, NormalisedFromParts
<1>3. T = S
  <2>1. T \in SUBSET S
    OBVIOUS
  <2> HIDE DEF T
  <2> QED  BY <1>1, <1>2, <2>1 DEF Founded
<1> QED
  BY <1>1, <1>3

-----------------------------------------------------------------------------
(* Texts *)

\* What may look like a reference once a text was expanded.
Leftover(e) == {e[x] : x \in DOMAIN e} \cup Literals

ExpandsText(s) ==
    \A e \in Envs : \A strict \in BOOLEAN :
      /\ expandVariables(s, e, strict) \cap DOMAIN Reference \subseteq Leftover(e)
      /\ strict /\ s \in DOMAIN Reference /\ Unset(s, e) => expandVariables(s, e, strict) = {}

LEMMA TextsExpand ==
    ASSUME DocumentsRecur, NEW s
    PROVE  ExpandsText(s)
<1>1. CASE s \notin DOMAIN Reference
  BY <1>1 DEF ExpandsText, expandVariables
<1> DEFINE T == {r \in DOMAIN Reference : ExpandsText(r)}
<1>2. ASSUME NEW r \in DOMAIN Reference, Within(r) \subseteq T PROVE r \in T
  <2> DEFINE ref == Reference[r]
  <2> SUFFICES ASSUME NEW e \in Envs, NEW strict \in BOOLEAN
               PROVE  /\ expandVariables(r, e, strict) \cap DOMAIN Reference \subseteq Leftover(e)
                      /\ strict /\ Unset(r, e) => expandVariables(r, e, strict) = {}
    BY DEF ExpandsText
  <2>1. Has(ref, "literal") <=> ~Has(ref, "var")
    BY ReferenceAssumption
  <2>2. CASE Has(ref, "literal")
    <3>1. expandVariables(r, e, strict) = {ref.literal}
      BY <2>2, <2>1 DEF expandVariables
    <3>2. ref.literal \in Literals
      BY <2>2 DEF Literals
    <3> QED  BY <3>1, <3>2, <2>1, <2>2 DEF Leftover, Unset
  <2>3. CASE Has(ref, "var") /\ ref.var \in DOMAIN e /\ e[ref.var] # ""
    <3>1. expandVariables(r, e, strict) = {e[ref.var]}
      BY <2>3, <2>1 DEF expandVariables
    <3> QED  BY <3>1, <2>3 DEF Leftover, Unset
  <2>4. CASE Has(ref, "var") /\ ~(ref.var \in DOMAIN e /\ e[ref.var] # "")
    <3>1. expandVariables(r, e, strict) = IF Has(ref, "fallback") THEN InnerVariables(ref.fallback, e, strict)
                                          ELSE IF strict THEN {} ELSE {""}
      BY <2>4, <2>1 DEF expandVariables
    <3>2. CASE Has(ref, "fallback")
      <4>1. expandVariables(r, e, strict) = expandVariables(ref.fallback, e, strict)
        BY <3>1, <3>2 DEF DocumentsRecur
      <4>2. ref.fallback \in DOMAIN Reference => ref.fallback \in T
        BY <1>2, <3>2 DEF Within
      <4>3. ref.fallback \notin DOMAIN Reference => expandVariables(ref.fallback, e, strict) = {ref.fallback}
        BY DEF expandVariables
      <4>4. expandVariables(ref.fallback, e, strict) \cap DOMAIN Reference \subseteq Leftover(e)
        BY <4>2, <4>3 DEF ExpandsText
      <4> QED  BY <4>1, <4>4, <3>2 DEF Unset
    <3>3. CASE ~Has(ref, "fallback")
      BY <3>1, <3>3, ReferenceAssumption
    <3> QED  BY <3>2, <3>3
  <2> QED
    BY <2>1, <2>2, <2>3, <2>4
<1>3. T = DOMAIN Reference
  <2>1. T \in SUBSET DOMAIN Reference
    OBVIOUS
  <2> HIDE DEF T
  <2> QED  BY <1>2, <2>1, ReferenceAssumption
<1> QED
  BY <1>1, <1>3

-----------------------------------------------------------------------------
(* Outcomes *)

\* An outcome of a stage is an error or a node.
LEMMA Outcomes ==
    /\ \A x : Nodes(Done(x)) = {x} /\ Errors(Done(x)) = {} /\ Done(x) # {}
    /\ \A kind : Nodes(Refuse(kind)) = {} /\ Errors(Refuse(kind)) = Refuse(kind) /\ Refuse(kind) # {}
<1>1. ASSUME NEW x PROVE Nodes(Done(x)) = {x} /\ Errors(Done(x)) = {} /\ Done(x) # {}
  <2>1. Done(x) = {[node |-> x]} /\ ~Has([node |-> x], "err")
    BY DEF Done, Has
  <2>2. Errors(Done(x)) = {}
    BY <2>1, Zenon DEF Errors
  <2>3. Nodes(Done(x)) = {[node |-> x].node}
    BY <2>1, <2>2, Zenon DEF Nodes
  <2> QED  BY <2>1, <2>2, <2>3
<1>2. ASSUME NEW kind PROVE Nodes(Refuse(kind)) = {} /\ Errors(Refuse(kind)) = Refuse(kind) /\ Refuse(kind) # {}
  <2>1. Refuse(kind) = {[err |-> kind]} /\ Has([err |-> kind], "err")
    BY DEF Refuse, Has
  <2> QED  BY <2>1, Zenon DEF Errors, Nodes
<1> QED
  BY <1>1, <1>2

\* A stage whose outcome on node n is F[n], after outcomes P.
LEMMA OutcomesThen ==
    ASSUME NEW P, NEW F, NEW O, \A o : o \in O <=> o \in Errors(P) \/ \E n \in Nodes(P) : o \in F[n]
    PROVE  /\ \A u \in Nodes(O) : \E n \in Nodes(P) : u \in Nodes(F[n])
           /\ P # {} /\ (\A n \in Nodes(P) : F[n] # {}) => O # {}
<1>1. ASSUME NEW u \in Nodes(O) PROVE \E n \in Nodes(P) : u \in Nodes(F[n])
  <2>1. PICK o \in O : ~Has(o, "err") /\ u = o.node
    BY DEF Nodes, Errors
  <2>2. PICK n \in Nodes(P) : o \in F[n]
    BY <2>1 DEF Errors
  <2> QED  BY <2>1, <2>2 DEF Nodes, Errors
<1>2. ASSUME P # {}, \A n \in Nodes(P) : F[n] # {} PROVE O # {}
  <2>1. PICK o \in P : TRUE
    BY <1>2
  <2>2. CASE o \in Errors(P)
    BY <2>2
  <2>3. CASE o \notin Errors(P)
    <3>1. o.node \in Nodes(P)
      BY <2>3 DEF Nodes
    <3> QED  BY <3>1, <1>2
  <2> QED  BY <2>2, <2>3
<1> QED
  BY <1>1, <1>2

\* Without an error there is a node.
LEMMA NodeOrError ==
    ASSUME NEW P, P # {}, Errors(P) = {}
    PROVE  Nodes(P) # {}
  BY DEF Nodes

-----------------------------------------------------------------------------
(* Expansion *)

\* What may come of an expansion: a canonical value in which only a value of the
\* environment or an escape looks like a reference.
IsExpanded(u, e) == IsValue(u) /\ IsCanonical(u) /\ ReferencesIn(u) \subseteq Leftover(e)

AllSet(v, e) == \A s \in ReferencesIn(v) : ~Unset(s, e)

\* A node has some expansion, and none when strict finds a variable of it unset.
ExpandsIn(v, e, strict) ==
    LET outcomes == expandValue(v, e, strict) IN
    /\ outcomes # {}
    /\ \A u \in Nodes(outcomes) : IsExpanded(u, e)
    /\ strict /\ Nodes(outcomes) # {} => AllSet(v, e)

Expands(v) == \A e \in Envs : \A strict \in BOOLEAN : ExpandsIn(v, e, strict)

LEMMA TextExpands ==
    ASSUME DocumentsRecur, NEW v, DOMAIN v = {"text"}
    PROVE  Expands(v)
<1> SUFFICES ASSUME NEW e \in Envs, NEW strict \in BOOLEAN PROVE ExpandsIn(v, e, strict)
  BY DEF Expands
<1> DEFINE to == expandVariables(v.text, e, strict)
           outcomes == expandValue(v, e, strict)
<1>1. outcomes = IF to = {} THEN Refuse("ErrEnvNotSet") ELSE UNION {Done(Text(s)) : s \in to}
  BY OfText, Zenon
<1>2. Texts(v) = {v.text}
  BY OfText
<1>3. ExpandsText(v.text)
  BY TextsExpand
<1>4. to \cap DOMAIN Reference \subseteq Leftover(e)
  BY <1>3 DEF ExpandsText
<1>5. strict /\ v.text \in DOMAIN Reference /\ Unset(v.text, e) => to = {}
  BY <1>3 DEF ExpandsText
<1>6. ASSUME NEW s \in to PROVE IsExpanded(Text(s), e)
  <2> DEFINE u == Text(s)
  <2>1. DOMAIN u = {"text"} /\ u.text = s
    BY DEF Text
  <2> HIDE DEF u
  <2>2. WellFormed(u) /\ Parts(u) = {} /\ IsCanonical(u) /\ Texts(u) = {s}
    BY <2>1, OfText
  <2>3. IsValue(u)
    BY <2>2, ValueOfParts
  <2>4. ReferencesIn(u) \subseteq Leftover(e)
    BY <2>2, <1>4 DEF ReferencesIn
  <2> QED  BY <2>2, <2>3, <2>4 DEF IsExpanded, u
<1> HIDE DEF to, outcomes
<1>7. CASE to = {}
  <2>1. outcomes = Refuse("ErrEnvNotSet")
    BY <1>1, <1>7
  <2>2. outcomes # {} /\ Nodes(outcomes) = {}
    BY <2>1, Outcomes
  <2> QED  BY <2>2 DEF ExpandsIn, outcomes
<1>8. CASE to # {}
  <2>1. outcomes = UNION {Done(Text(s)) : s \in to}
    BY <1>1, <1>8
  <2>2. outcomes # {}
    <3>1. PICK s \in to : TRUE
      BY <1>8
    <3>2. [node |-> Text(s)] \in Done(Text(s))
      BY DEF Done
    <3> QED  BY <2>1, <3>2
  <2>3. ASSUME NEW u \in Nodes(outcomes) PROVE \E s \in to : u = Text(s)
    BY <2>1 DEF Nodes, Done
  <2>4. \A u \in Nodes(outcomes) : IsExpanded(u, e)
    BY <2>3, <1>6
  <2>5. strict => AllSet(v, e)
    BY <1>2, <1>5, <1>8 DEF AllSet, ReferencesIn
  <2> QED  BY <2>2, <2>4, <2>5 DEF ExpandsIn, outcomes
<1> QED
  BY <1>7, <1>8

LEMMA ScalarExpands ==
    ASSUME NEW v, NEW shape \in {"null", "num", "bool"}, DOMAIN v = {shape}
    PROVE  Expands(v)
<1> SUFFICES ASSUME NEW e \in Envs, NEW strict \in BOOLEAN PROVE ExpandsIn(v, e, strict)
  BY DEF Expands
<1>1. WellFormed(v) /\ Parts(v) = {} /\ IsCanonical(v) /\ Texts(v) = {}
  BY OfScalar
<1>2. IsValue(v)
  BY <1>1, ValueOfParts
<1>3. expandValue(v, e, strict) = Done(v)
  BY OfScalar, Zenon
<1>4. ReferencesIn(v) = {}
  BY <1>1 DEF ReferencesIn
<1>5. IsExpanded(v, e) /\ AllSet(v, e)
  BY <1>1, <1>2, <1>4 DEF IsExpanded, AllSet
<1> QED
  BY <1>3, <1>5, Outcomes DEF ExpandsIn

LEMMA TreeOfExpanded ==
    ASSUME DocumentsRecur, NEW e, NEW map, \A k \in DOMAIN map : IsExpanded(map[k], e),
           DOMAIN map \cap DOMAIN Reference \subseteq Leftover(e)
    PROVE  IsExpanded(Object(map), e)
<1>1. /\ IsValue(Object(map)) /\ IsCanonical(Object(map))
      /\ Texts(Object(map)) = DOMAIN map \cup UNION {Texts(map[k]) : k \in DOMAIN map}
  BY MakesObject DEF IsExpanded
<1>2. \A k \in DOMAIN map : Texts(map[k]) \cap DOMAIN Reference \subseteq Leftover(e)
  BY DEF IsExpanded, ReferencesIn
<1>3. ReferencesIn(Object(map)) \subseteq Leftover(e)
  BY <1>1, <1>2 DEF ReferencesIn
<1> QED
  BY <1>1, <1>3 DEF IsExpanded

\* The keys and the nodes of a tree are expanded each by itself.
LEMMA MapExpands ==
    ASSUME DocumentsRecur, NEW tree0, \A k \in DOMAIN tree0 : IsValue(tree0[k]) /\ Expands(tree0[k]),
           NEW e \in Envs, NEW strict \in BOOLEAN
    PROVE  LET outcomes == expandMap(tree0, e, strict) IN
           /\ outcomes # {}
           /\ \A map \in Nodes(outcomes) : IsExpanded(Object(map), e)
           /\ strict /\ Nodes(outcomes) # {} =>
                /\ \A k \in DOMAIN tree0 : AllSet(tree0[k], e)
                /\ \A k \in DOMAIN tree0 \cap DOMAIN Reference : ~Unset(k, e)
<1> DEFINE name == [k \in DOMAIN tree0 |-> expandVariables(k, e, strict)]
           named == {k \in DOMAIN tree0 : name[k] # {}}
           value == [k \in DOMAIN tree0 |-> InnerExpand(tree0[k], e, strict)]
           Into(n) == {k \in named : n \in name[k]}
           twice == {k \in named : Errors(value[k]) = {} /\ \E j \in named \ {k} : name[j] = name[k]}
           errors == (UNION {Errors(value[k]) : k \in named})
                     \cup (IF named = DOMAIN tree0 THEN {} ELSE Refuse("ErrEnvNotSet"))
                     \cup (IF twice = {} THEN {} ELSE Refuse("ErrDuplicateKey"))
           chosen(n) == CHOOSE node \in UNION {Nodes(value[k]) : k \in Into(n)} : TRUE
           made == [n \in UNION {name[k] : k \in named} |-> chosen(n)]
           outcomes == expandMap(tree0, e, strict)
<1>1. outcomes = IF errors # {} THEN errors ELSE Done(made)
  BY Zenon DEF expandMap
<1>2. ASSUME NEW k \in DOMAIN tree0
      PROVE  /\ value[k] # {}
             /\ \A u \in Nodes(value[k]) : IsExpanded(u, e)
             /\ strict /\ Nodes(value[k]) # {} => AllSet(tree0[k], e)
  <2>1. value[k] = expandValue(tree0[k], e, strict)
    BY DEF DocumentsRecur
  <2>2. ExpandsIn(tree0[k], e, strict)
    BY DEF Expands
  <2> HIDE DEF value
  <2> QED  BY <2>1, <2>2 DEF ExpandsIn
<1>3. ASSUME NEW k \in DOMAIN tree0
      PROVE  /\ name[k] \cap DOMAIN Reference \subseteq Leftover(e)
             /\ strict /\ k \in DOMAIN Reference /\ Unset(k, e) => name[k] = {}
  <2>1. ExpandsText(k)
    BY TextsExpand
  <2> QED  BY <2>1 DEF ExpandsText
<1>4. \A o \in errors : o \in Errors(errors)
  <2>1. \A k \in named : \A o \in Errors(value[k]) : Has(o, "err")
    BY DEF Errors
  <2>2. \A kind : \A o \in Refuse(kind) : Has(o, "err")
    BY DEF Refuse, Has
  <2> HIDE DEF name, named, value, twice
  <2>3. \A o \in errors : Has(o, "err")
    BY <2>1, <2>2
  <2> QED  BY <2>3 DEF Errors
<1>5. \A k \in DOMAIN tree0 : k \in named <=> name[k] # {}
  OBVIOUS
<1>6. errors = {} => named = DOMAIN tree0 /\ \A k \in named : Errors(value[k]) = {}
  <2> HIDE DEF name, named, value, twice
  <2> QED  BY Outcomes
<1>7. \A n : \A k : k \in Into(n) <=> k \in named /\ n \in name[k]
  OBVIOUS
<1>8. DOMAIN made = UNION {name[k] : k \in named} /\ \A n \in DOMAIN made : made[n] = chosen(n)
  <2> HIDE DEF chosen, named, name
  <2> QED OBVIOUS
<1> HIDE DEF errors, made, name, named, value, twice, outcomes, Into
<1>9. CASE errors # {}
  <2>1. outcomes = errors
    BY <1>1, <1>9
  <2>2. Nodes(errors) = {}
    BY <1>4 DEF Nodes
  <2> QED  BY <2>1, <2>2, <1>9 DEF outcomes
<1>10. CASE errors = {}
  <2>1. outcomes # {} /\ Nodes(outcomes) = {made}
    <3>1. outcomes = Done(made)
      BY <1>1, <1>10
    <3> QED  BY <3>1, Outcomes
  <2>2. \A k \in DOMAIN tree0 : name[k] # {} /\ Nodes(value[k]) # {}
    BY <1>2, <1>5, <1>6, <1>10, NodeOrError
  <2>3. ASSUME NEW n \in DOMAIN made PROVE IsExpanded(made[n], e)
    <3>1. PICK k \in named : n \in name[k]
      BY <1>8
    <3>2. k \in Into(n) /\ k \in DOMAIN tree0
      BY <3>1, <1>6, <1>7, <1>10
    <3>3. \E node : node \in UNION {Nodes(value[j]) : j \in Into(n)}
      BY <3>2, <2>2
    <3>4. chosen(n) \in UNION {Nodes(value[j]) : j \in Into(n)}
      BY <3>3
    <3>5. PICK j \in Into(n) : chosen(n) \in Nodes(value[j])
      BY <3>4
    <3>6. j \in DOMAIN tree0
      BY <3>5, <1>6, <1>7, <1>10
    <3> HIDE DEF chosen
    <3> QED  BY <3>5, <3>6, <1>2, <1>8
  <2>4. DOMAIN made \cap DOMAIN Reference \subseteq Leftover(e)
    BY <1>3, <1>6, <1>8, <1>10
  <2>5. IsExpanded(Object(made), e)
    BY <2>3, <2>4, TreeOfExpanded
  <2>6. strict => /\ \A k \in DOMAIN tree0 : AllSet(tree0[k], e)
                  /\ \A k \in DOMAIN tree0 \cap DOMAIN Reference : ~Unset(k, e)
    BY <2>2, <1>2, <1>3
  <2> QED
    BY <2>1, <2>5, <2>6 DEF outcomes
<1> QED
  BY <1>9, <1>10

LEMMA ObjectExpands ==
    ASSUME DocumentsRecur, NEW v, DOMAIN v = {"object"},
           \A k \in DOMAIN v.object : IsValue(v.object[k]) /\ Expands(v.object[k])
    PROVE  Expands(v)
<1> SUFFICES ASSUME NEW e \in Envs, NEW strict \in BOOLEAN PROVE ExpandsIn(v, e, strict)
  BY DEF Expands
<1> DEFINE P == expandMap(v.object, e, strict)
           F == [map \in Nodes(P) |-> Done(Object(map))]
           O == expandValue(v, e, strict)
<1>1. O = AndThen(P, LAMBDA map : Done(Object(map)))
  BY OfObject, Zenon
<1>2. \A o : o \in O <=> o \in Errors(P) \/ \E n \in Nodes(P) : o \in F[n]
  <2>1. O = Errors(P) \cup UNION {Done(Object(n)) : n \in Nodes(P)}
    BY <1>1, Zenon DEF AndThen
  <2>2. \A n \in Nodes(P) : F[n] = Done(Object(n))
    OBVIOUS
  <2> HIDE DEF O, P, F
  <2> QED  BY <2>1, <2>2
<1>3. /\ P # {}
      /\ \A map \in Nodes(P) : IsExpanded(Object(map), e)
      /\ strict /\ Nodes(P) # {} =>
           /\ \A k \in DOMAIN v.object : AllSet(v.object[k], e)
           /\ \A k \in DOMAIN v.object \cap DOMAIN Reference : ~Unset(k, e)
  BY MapExpands
<1>4. \A n \in Nodes(P) : F[n] = Done(Object(n))
  OBVIOUS
<1>5. Texts(v) = DOMAIN v.object \cup UNION {Texts(v.object[k]) : k \in DOMAIN v.object}
  <2>1. Texts(v) = DOMAIN v.object \cup UNION {InnerTexts(v.object[k]) : k \in DOMAIN v.object}
    BY OfObject
  <2>2. \A k \in DOMAIN v.object : InnerTexts(v.object[k]) = Texts(v.object[k])
    BY DEF DocumentsRecur
  <2> QED  BY <2>1, <2>2
<1> HIDE DEF O, P, F
<1>6. \A u \in Nodes(O) : \E n \in Nodes(P) : u \in Nodes(F[n])
  BY <1>2, OutcomesThen
<1>7. O # {}
  <2>1. \A n \in Nodes(P) : F[n] # {}
    BY <1>4, Outcomes
  <2> QED  BY <2>1, <1>2, <1>3, OutcomesThen
<1>8. \A u \in Nodes(O) : IsExpanded(u, e)
  BY <1>3, <1>4, <1>6, Outcomes
<1>9. ASSUME strict, Nodes(O) # {} PROVE AllSet(v, e)
  <2>1. Nodes(P) # {}
    BY <1>6, <1>9
  <2>2. \A k \in DOMAIN v.object : \A s \in Texts(v.object[k]) \cap DOMAIN Reference : ~Unset(s, e)
    BY <2>1, <1>3, <1>9 DEF AllSet, ReferencesIn
  <2> QED  BY <2>1, <2>2, <1>3, <1>5, <1>9 DEF AllSet, ReferencesIn
<1> QED
  BY <1>7, <1>8, <1>9 DEF ExpandsIn, O

-----------------------------------------------------------------------------
\* A list of expanded values, as long as the items that were looked at.
IsExpandedList(list, e, n) ==
    \E S : list \in Seq(S) /\ Len(list) = n /\ \A x \in S : IsExpanded(x, e)

\* A list with one more item.
Longer(list, u) == Append(list, u)

LEMMA ListGrows ==
    ASSUME NEW e, NEW n \in Nat, NEW list, IsExpandedList(list, e, n), NEW u, IsExpanded(u, e)
    PROVE  IsExpandedList(Longer(list, u), e, n + 1)
<1>1. PICK S : list \in Seq(S) /\ Len(list) = n /\ \A x \in S : IsExpanded(x, e)
  BY DEF IsExpandedList
<1>2. Append(list, u) \in Seq(S \cup {u}) /\ Len(Append(list, u)) = n + 1
  <2> DEFINE U == S \cup {u}
  <2>1. list \in Seq(U) /\ u \in U
    BY <1>1
  <2> HIDE DEF U
  <2>2. Append(list, u) \in Seq(U) /\ Len(Append(list, u)) = Len(list) + 1
    BY <2>1
  <2> QED  BY <1>1, <2>2 DEF U
<1> QED
  BY <1>1, <1>2 DEF IsExpandedList, Longer

LEMMA ListOfExpanded ==
    ASSUME DocumentsRecur, NEW e, NEW n, NEW list, IsExpandedList(list, e, n)
    PROVE  IsExpanded([array |-> list], e)
<1>1. PICK S : list \in Seq(S) /\ \A x \in S : IsExpanded(x, e)
  BY DEF IsExpandedList
<1>2. \A i \in DOMAIN list : IsExpanded(list[i], e)
  BY <1>1
<1>3. /\ IsValue([array |-> list]) /\ IsCanonical([array |-> list])
      /\ Texts([array |-> list]) = UNION {Texts(list[i]) : i \in DOMAIN list}
  BY <1>1, <1>2, MakesArray DEF IsExpanded
<1>4. \A i \in DOMAIN list : Texts(list[i]) \cap DOMAIN Reference \subseteq Leftover(e)
  BY <1>2 DEF IsExpanded, ReferencesIn
<1>5. ReferencesIn([array |-> list]) \subseteq Leftover(e)
  BY <1>3, <1>4 DEF ReferencesIn
<1> QED
  BY <1>3, <1>5 DEF IsExpanded

\* One item is expanded and put behind the others.
LEMMA ElementExpands ==
    ASSUME NEW given, NEW acc, NEW i, NEW O, O = NextElement(given, acc, i), acc # {},
           NEW value, value = InnerExpand(given.items[i], given.env, given.strict), value # {}
    PROVE  /\ O # {}
           /\ \A u \in Nodes(O) : \E list \in Nodes(acc) : \E n \in Nodes(value) : u = Longer(list, n)
<1> DEFINE F(list) == AndThen(InnerExpand(given.items[i], given.env, given.strict), LAMBDA n : Done(Append(list, n)))
           FF == [list \in Nodes(acc) |-> F(list)]
<1>1. NextElement(given, acc, i) = AndThen(acc, LAMBDA list : F(list))
  BY Zenon DEF NextElement
<1>2. O = Errors(acc) \cup UNION {F(list) : list \in Nodes(acc)}
  BY <1>1, Zenon DEF AndThen
<1>3. \A o : o \in O <=> o \in Errors(acc) \/ \E list \in Nodes(acc) : o \in FF[list]
  <2>1. \A list \in Nodes(acc) : FF[list] = F(list)
    OBVIOUS
  <2> HIDE DEF F, FF
  <2> QED  BY <1>2, <2>1
<1>4. ASSUME NEW list
      PROVE  F(list) # {} /\ \A u \in Nodes(F(list)) : \E n \in Nodes(value) : u = Longer(list, n)
  <2> DEFINE G == [n \in Nodes(value) |-> Done(Append(list, n))]
             R == F(list)
  <2>1. R = Errors(value) \cup UNION {Done(Append(list, n)) : n \in Nodes(value)}
    <3>1. R = AndThen(value, LAMBDA n : Done(Append(list, n)))
      OBVIOUS
    <3> QED  BY <3>1, Zenon DEF AndThen
  <2>2. \A n \in Nodes(value) : G[n] = Done(Append(list, n))
    OBVIOUS
  <2> HIDE DEF G, R
  <2>3. \A o : o \in R <=> o \in Errors(value) \/ \E n \in Nodes(value) : o \in G[n]
    BY <2>1, <2>2
  <2>4. /\ \A u \in Nodes(R) : \E n \in Nodes(value) : u \in Nodes(G[n])
        /\ (\A n \in Nodes(value) : G[n] # {}) => R # {}
    BY <2>3, OutcomesThen
  <2>5. \A n \in Nodes(value) : G[n] # {} /\ Nodes(G[n]) = {Longer(list, n)}
    BY <2>2, Outcomes DEF Longer
  <2>6. R # {} /\ \A u \in Nodes(R) : \E n \in Nodes(value) : u = Longer(list, n)
    BY <2>4, <2>5
  <2> QED  BY <2>6 DEF R
<1>5. \A list \in Nodes(acc) : FF[list] = F(list)
  OBVIOUS
<1> HIDE DEF F, FF
<1>6. /\ \A u \in Nodes(O) : \E list \in Nodes(acc) : u \in Nodes(FF[list])
      /\ (\A list \in Nodes(acc) : FF[list] # {}) => O # {}
  BY <1>3, OutcomesThen
<1> QED
  BY <1>4, <1>5, <1>6

LEMMA ElementRound ==
    ASSUME DocumentsRecur, NEW given, given.env \in Envs, given.strict \in BOOLEAN, NEW i,
           IsValue(given.items[i]), Expands(given.items[i]), NEW acc, acc # {}, NEW O, O = NextElement(given, acc, i)
    PROVE  /\ O # {}
           /\ \A u \in Nodes(O) : \E list \in Nodes(acc) : \E m : IsExpanded(m, given.env) /\ u = Longer(list, m)
           /\ given.strict /\ Nodes(O) # {} => AllSet(given.items[i], given.env)
<1> DEFINE v == given.items[i]
           e == given.env
           strict == given.strict
           value == InnerExpand(v, e, strict)
<1>1. value = expandValue(v, e, strict)
  BY DEF DocumentsRecur
<1>2. ExpandsIn(v, e, strict)
  BY DEF Expands
<1>3. /\ value # {}
      /\ \A u \in Nodes(value) : IsExpanded(u, e)
      /\ strict /\ Nodes(value) # {} => AllSet(v, e)
  <2> HIDE DEF value
  <2> QED  BY <1>1, <1>2 DEF ExpandsIn
<1>4. value = InnerExpand(given.items[i], given.env, given.strict)
  OBVIOUS
<1> HIDE DEF value, v, e, strict
<1>5. O # {} /\ \A u \in Nodes(O) : \E list \in Nodes(acc) : \E m \in Nodes(value) : u = Longer(list, m)
  BY <1>3, <1>4, ElementExpands
<1> QED
  BY <1>3, <1>5 DEF v, e, strict

\* The items are expanded one after another.
LEMMA ListExpands ==
    ASSUME DocumentsRecur, NEW S, NEW items \in Seq(S),
           \A i \in DOMAIN items : IsValue(items[i]) /\ Expands(items[i]),
           NEW e \in Envs, NEW strict \in BOOLEAN
    PROVE  LET outcomes == expandList(items, e, strict) IN
           /\ outcomes # {}
           /\ \A list \in Nodes(outcomes) : IsExpanded([array |-> list], e)
           /\ strict /\ Nodes(outcomes) # {} => \A i \in DOMAIN items : AllSet(items[i], e)
<1> DEFINE n == Len(items)
           given == [items |-> items, env |-> e, strict |-> strict]
           after == LoopOfElements!Run(given, Done(<<>>), n)
           R == {i \in 0..n : /\ after[i] # {}
                              /\ \A list \in Nodes(after[i]) : IsExpandedList(list, e, i)
                              /\ strict /\ Nodes(after[i]) # {} => \A j \in 1..i : AllSet(items[j], e)}
<1>1. n \in Nat /\ DOMAIN items = 1..n
  OBVIOUS
<1>2. after[0] = Done(<<>>) /\ \A i \in 1..n : after[i] = NextElement(given, after[i - 1], i)
  BY <1>1, LoopOfElements!RunOfRounds
<1>3. expandList(items, e, strict) = after[n]
  BY DEF expandList, ElementLoop!After, ElementLoop!Run, LoopOfElements!Run
<1>4. given.items = items /\ given.env = e /\ given.strict = strict
  OBVIOUS
<1> HIDE DEF n, given, after
<1>5. 0 \in R
  <2>1. IsExpandedList(<<>>, e, 0)
    <3>1. <<>> \in Seq({}) /\ Len(<<>>) = 0
      OBVIOUS
    <3> QED  BY <3>1 DEF IsExpandedList
  <2>2. after[0] # {} /\ Nodes(after[0]) = {<<>>}
    BY <1>2, Outcomes
  <2> QED  BY <1>1, <2>1, <2>2
<1>6. ASSUME NEW i \in 1..n, i - 1 \in R PROVE i \in R
  <2>1. /\ after[i - 1] # {}
        /\ \A list \in Nodes(after[i - 1]) : IsExpandedList(list, e, i - 1)
        /\ strict /\ Nodes(after[i - 1]) # {} => \A j \in 1..(i - 1) : AllSet(items[j], e)
    BY <1>6
  <2>2. IsValue(given.items[i]) /\ Expands(given.items[i]) /\ given.env \in Envs /\ given.strict \in BOOLEAN
    BY <1>1, <1>4
  <2> HIDE DEF R
  <2>3. /\ after[i] # {}
        /\ \A u \in Nodes(after[i]) :
             \E list \in Nodes(after[i - 1]) : \E m : IsExpanded(m, given.env) /\ u = Longer(list, m)
        /\ given.strict /\ Nodes(after[i]) # {} => AllSet(given.items[i], given.env)
    <3> DEFINE acc == after[i - 1]
               at == i
               O == after[i]
    <3>1. O = NextElement(given, acc, at)
      BY <1>2
    <3>2. acc # {} /\ IsValue(given.items[at]) /\ Expands(given.items[at])
      BY <2>1, <2>2
    <3> HIDE DEF acc, at, O
    <3>3. /\ O # {}
          /\ \A u \in Nodes(O) : \E list \in Nodes(acc) : \E m : IsExpanded(m, given.env) /\ u = Longer(list, m)
          /\ given.strict /\ Nodes(O) # {} => AllSet(given.items[at], given.env)
      BY <2>2, <3>1, <3>2, ElementRound
    <3> QED  BY <3>3 DEF acc, at, O
  <2>4. ASSUME NEW u \in Nodes(after[i]) PROVE IsExpandedList(u, e, i)
    <3>1. PICK list \in Nodes(after[i - 1]) : \E m : IsExpanded(m, e) /\ u = Longer(list, m)
      BY <2>3, <1>4
    <3>2. PICK m : IsExpanded(m, e) /\ u = Longer(list, m)
      BY <3>1
    <3>3. i - 1 \in Nat /\ (i - 1) + 1 = i
      BY <1>1
    <3>4. IsExpandedList(list, e, i - 1)
      BY <2>1
    <3>5. IsExpandedList(Longer(list, m), e, (i - 1) + 1)
      BY <3>2, <3>3, <3>4, ListGrows
    <3> QED  BY <3>2, <3>3, <3>5
  <2>5. ASSUME strict, Nodes(after[i]) # {}, NEW j \in 1..i PROVE AllSet(items[j], e)
    <3>1. Nodes(after[i - 1]) # {} /\ AllSet(items[i], e)
      BY <2>3, <2>5, <1>4
    <3>2. j = i \/ j \in 1..(i - 1)
      BY <1>1
    <3> QED  BY <3>1, <3>2, <2>1, <2>5
  <2>6. i \in 0..n
    BY <1>1
  <2> QED  BY <2>3, <2>4, <2>5, <2>6 DEF R
<1>7. n \in R
  <2> HIDE DEF R
  <2>1. \A i \in 0..n : i \in R
    BY <1>1, <1>5, <1>6, LoopOfElements!LoopInvariant
  <2> QED  BY <2>1, <1>1
<1>8. \A list \in Nodes(after[n]) : IsExpanded([array |-> list], e)
  BY <1>7, ListOfExpanded
<1> QED
  BY <1>1, <1>3, <1>7, <1>8

LEMMA ArrayExpands ==
    ASSUME DocumentsRecur, NEW v, DOMAIN v = {"array"}, WellFormed(v),
           \A i \in DOMAIN v.array : IsValue(v.array[i]) /\ Expands(v.array[i])
    PROVE  Expands(v)
<1> SUFFICES ASSUME NEW e \in Envs, NEW strict \in BOOLEAN PROVE ExpandsIn(v, e, strict)
  BY DEF Expands
<1> DEFINE P == expandList(v.array, e, strict)
           F == [list \in Nodes(P) |-> Done([array |-> list])]
           O == expandValue(v, e, strict)
<1>1. O = AndThen(P, LAMBDA list : Done([array |-> list]))
  BY OfArray, Zenon
<1>2. \A o : o \in O <=> o \in Errors(P) \/ \E n \in Nodes(P) : o \in F[n]
  <2>1. O = Errors(P) \cup UNION {Done([array |-> n]) : n \in Nodes(P)}
    BY <1>1, Zenon DEF AndThen
  <2>2. \A n \in Nodes(P) : F[n] = Done([array |-> n])
    OBVIOUS
  <2> HIDE DEF O, P, F
  <2> QED  BY <2>1, <2>2
<1>3. /\ P # {}
      /\ \A list \in Nodes(P) : IsExpanded([array |-> list], e)
      /\ strict /\ Nodes(P) # {} => \A i \in DOMAIN v.array : AllSet(v.array[i], e)
  <2>1. v.array \in Seq({v.array[i] : i \in DOMAIN v.array})
    BY OfArray
  <2> QED  BY <2>1, ListExpands
<1>4. \A n \in Nodes(P) : F[n] = Done([array |-> n])
  OBVIOUS
<1>5. Texts(v) = UNION {Texts(v.array[i]) : i \in DOMAIN v.array}
  <2>1. Texts(v) = UNION {InnerTexts(v.array[i]) : i \in DOMAIN v.array}
    BY OfArray
  <2>2. \A i \in DOMAIN v.array : InnerTexts(v.array[i]) = Texts(v.array[i])
    BY DEF DocumentsRecur
  <2> QED  BY <2>1, <2>2
<1> HIDE DEF O, P, F
<1>6. \A u \in Nodes(O) : \E n \in Nodes(P) : u \in Nodes(F[n])
  BY <1>2, OutcomesThen
<1>7. O # {}
  <2>1. \A n \in Nodes(P) : F[n] # {}
    <3>1. \A n : Done([array |-> n]) # {}
      BY Outcomes, Zenon
    <3> QED  BY <3>1, <1>4
  <2> QED  BY <2>1, <1>2, <1>3, OutcomesThen
<1>8. ASSUME NEW u \in Nodes(O) PROVE IsExpanded(u, e)
  <2>1. PICK list \in Nodes(P) : u \in Nodes(F[list])
    BY <1>6
  <2>2. u = [array |-> list]
    <3>1. F[list] = Done([array |-> list])
      BY <1>4
    <3>2. Nodes(Done([array |-> list])) = {[array |-> list]}
      BY Outcomes, Zenon
    <3> QED  BY <2>1, <3>1, <3>2
  <2> QED  BY <2>2, <1>3
<1>9. ASSUME strict, Nodes(O) # {} PROVE AllSet(v, e)
  <2>1. Nodes(P) # {}
    BY <1>6, <1>9
  <2>2. \A i \in DOMAIN v.array : \A s \in Texts(v.array[i]) \cap DOMAIN Reference : ~Unset(s, e)
    BY <2>1, <1>3, <1>9 DEF AllSet, ReferencesIn
  <2> QED  BY <2>2, <1>5 DEF AllSet, ReferencesIn
<1> QED
  BY <1>7, <1>8, <1>9 DEF ExpandsIn, O

\* The parts of a canonical value are canonical.
LEMMA CanonicalParts ==
    ASSUME DocumentsRecur, NEW v, IsValue(v), IsCanonical(v)
    PROVE  /\ \/ DOMAIN v = {"object"} \/ DOMAIN v = {"array"} \/ DOMAIN v = {"text"}
              \/ \E shape \in {"null", "num", "bool"} : DOMAIN v = {shape}
           /\ \A m \in Parts(v) : IsValue(m) /\ IsCanonical(m)
<1>1. WellFormed(v) /\ \A m \in Parts(v) : IsValue(m)
  BY ValueParts
<1>2. \/ DOMAIN v = {"object"} \/ DOMAIN v = {"array"} \/ DOMAIN v = {"text"}
      \/ \E shape \in {"null", "num", "bool"} : DOMAIN v = {shape}
  BY <1>1, ShapesOfValues, OfAnymap, OfForeign
<1>3. ASSUME NEW m \in Parts(v) PROVE IsCanonical(m)
  <2>1. CASE DOMAIN v = {"object"}
    <3>1. PICK k \in DOMAIN v.object : m = v.object[k]
      BY <2>1, OfObject
    <3>2. InnerCanonical(m)
      BY <2>1, <3>1, OfObject
    <3> QED  BY <3>2, <1>1 DEF DocumentsRecur
  <2>2. CASE DOMAIN v = {"array"}
    <3>1. PICK i \in DOMAIN v.array : m = v.array[i]
      BY <2>2, OfArray
    <3>2. InnerCanonical(m)
      BY <2>2, <3>1, OfArray
    <3> QED  BY <3>2, <1>1 DEF DocumentsRecur
  <2>3. CASE DOMAIN v = {"text"} \/ \E shape \in {"null", "num", "bool"} : DOMAIN v = {shape}
    BY <2>3, OfText, OfScalar
  <2> QED
    BY <1>2, <2>1, <2>2, <2>3
<1> QED
  BY <1>1, <1>2, <1>3

\* By induction over the value.
LEMMA ValuesExpand ==
    ASSUME DocumentsRecur, NEW v, IsValue(v), IsCanonical(v)
    PROVE  Expands(v)
<1>1. PICK S : v \in S /\ Founded(S)
  BY DEF IsValue
<1> DEFINE T == {m \in S : IsCanonical(m) => Expands(m)}
<1>2. ASSUME NEW u \in S, Parts(u) \subseteq T PROVE u \in T
  <2> SUFFICES ASSUME IsCanonical(u) PROVE Expands(u)
    OBVIOUS
  <2>1. IsValue(u)
    BY <1>1 DEF IsValue
  <2>2. \A m \in Parts(u) : IsValue(m) /\ Expands(m)
    BY <1>2, <2>1, CanonicalParts
  <2>3. CASE DOMAIN u = {"object"}
    <3>1. Parts(u) = {u.object[k] : k \in DOMAIN u.object}
      BY <2>3, OfObject
    <3>2. \A k \in DOMAIN u.object : IsValue(u.object[k]) /\ Expands(u.object[k])
      BY <3>1, <2>2
    <3> QED  BY <2>3, <3>2, ObjectExpands
  <2>4. CASE DOMAIN u = {"array"}
    <3>1. Parts(u) = {u.array[i] : i \in DOMAIN u.array}
      BY <2>4, OfArray
    <3>2. \A i \in DOMAIN u.array : IsValue(u.array[i]) /\ Expands(u.array[i])
      BY <3>1, <2>2
    <3>3. WellFormed(u)
      BY <2>1, ValueParts
    <3> QED  BY <2>4, <3>2, <3>3, ArrayExpands
  <2> QED
    BY <2>1, <2>3, <2>4, CanonicalParts, TextExpands, ScalarExpands
<1>3. T = S
  <2>1. T \in SUBSET S
    OBVIOUS
  <2> HIDE DEF T
  <2> QED  BY <1>1, <1>2, <2>1 DEF Founded
<1> QED
  BY <1>1, <1>3

\* A value in which hasReference finds none has none, in its keys as little as
\* in its texts.
LEMMA NoReferenceIsMissed ==
    ASSUME DocumentsRecur, NEW v, IsValue(v), IsCanonical(v), ~hasReference(v)
    PROVE  ReferencesIn(v) = {}
<1>1. PICK S : v \in S /\ Founded(S)
  BY DEF IsValue
<1> DEFINE T == {m \in S : IsCanonical(m) /\ ~hasReference(m) => ReferencesIn(m) = {}}
<1>2. ASSUME NEW u \in S, Parts(u) \subseteq T PROVE u \in T
  <2> SUFFICES ASSUME IsCanonical(u), ~hasReference(u) PROVE ReferencesIn(u) = {}
    OBVIOUS
  <2>1. IsValue(u)
    BY <1>1 DEF IsValue
  <2>2. \A m \in Parts(u) : IsValue(m) /\ IsCanonical(m) /\ (~hasReference(m) => Texts(m) \cap DOMAIN Reference = {})
    BY <1>2, <2>1, CanonicalParts DEF ReferencesIn
  <2>3. CASE DOMAIN u = {"object"}
    <3>1. \A k \in DOMAIN u.object : u.object[k] \in Parts(u)
      BY <2>3, OfObject
    <3>2. ASSUME NEW k \in DOMAIN u.object
          PROVE  k \notin DOMAIN Reference /\ InnerTexts(u.object[k]) \cap DOMAIN Reference = {}
      <4>1. k \notin DOMAIN Reference /\ ~InnerHasReference(u.object[k])
        BY <2>3, OfObject
      <4> QED  BY <4>1, <3>1, <2>2 DEF DocumentsRecur
    <3>3. Texts(u) = DOMAIN u.object \cup UNION {InnerTexts(u.object[k]) : k \in DOMAIN u.object}
      BY <2>3, OfObject
    <3> QED  BY <3>2, <3>3 DEF ReferencesIn
  <2>4. CASE DOMAIN u = {"array"}
    <3>1. \A i \in DOMAIN u.array : u.array[i] \in Parts(u)
      BY <2>4, OfArray
    <3>2. ASSUME NEW i \in DOMAIN u.array PROVE InnerTexts(u.array[i]) \cap DOMAIN Reference = {}
      <4>1. ~InnerHasReference(u.array[i])
        BY <2>4, OfArray
      <4> QED  BY <4>1, <3>1, <2>2 DEF DocumentsRecur
    <3>3. Texts(u) = UNION {InnerTexts(u.array[i]) : i \in DOMAIN u.array}
      BY <2>4, OfArray
    <3> QED  BY <3>2, <3>3 DEF ReferencesIn
  <2>5. CASE DOMAIN u = {"text"}
    BY <2>5, OfText DEF ReferencesIn
  <2>6. CASE \E shape \in {"null", "num", "bool"} : DOMAIN u = {shape}
    BY <2>6, OfScalar DEF ReferencesIn
  <2> QED
    BY <2>1, <2>3, <2>4, <2>5, <2>6, CanonicalParts
<1>3. T = S
  <2>1. T \in SUBSET S
    OBVIOUS
  <2> HIDE DEF T
  <2> QED  BY <1>1, <1>2, <2>1 DEF Founded
<1> QED
  BY <1>1, <1>3

-----------------------------------------------------------------------------
(* The chain of expanders *)

\* A tree of canonical values.
IsCanonicalTree(map) == IsValue(Object(map)) /\ IsCanonical(Object(map))

LEMMA ExpandOnce ==
    ASSUME DocumentsRecur, NEW map, IsCanonicalTree(map), NEW e \in Envs, NEW strict \in BOOLEAN
    PROVE  LET outcomes == Expand(map, e, strict) IN
           /\ \A u \in Nodes(outcomes) : IsExpanded(Object(u), e)
           /\ strict /\ Nodes(outcomes) # {} => AllSet(Object(map), e)
<1> DEFINE v == Object(map)
           outcomes == Expand(map, e, strict)
<1>1. DOMAIN v = {"object"} /\ v.object = map
  BY DEF Object
<1>2. IsValue(v) /\ IsCanonical(v)
  BY DEF IsCanonicalTree
<1>3. outcomes = IF hasReference(v) THEN expandMap(map, e, strict) ELSE Done(map)
  BY DEF Expand
<1> HIDE DEF v, outcomes
<1>4. CASE hasReference(v)
  <2>1. \A k \in DOMAIN map : map[k] \in Parts(v)
    <3>1. Parts(v) = {v.object[k] : k \in DOMAIN v.object}
      BY <1>1, OfObject, Zenon
    <3> QED  BY <3>1, <1>1
  <2>2. \A k \in DOMAIN map : IsValue(map[k]) /\ Expands(map[k])
    BY <2>1, <1>2, CanonicalParts, ValuesExpand
  <2>3. outcomes = expandMap(map, e, strict)
    BY <1>3, <1>4
  <2>4. /\ \A u \in Nodes(outcomes) : IsExpanded(Object(u), e)
        /\ strict /\ Nodes(outcomes) # {} =>
             /\ \A k \in DOMAIN map : AllSet(map[k], e)
             /\ \A k \in DOMAIN map \cap DOMAIN Reference : ~Unset(k, e)
    BY <2>2, <2>3, MapExpands
  <2>5. Texts(v) = DOMAIN map \cup UNION {Texts(map[k]) : k \in DOMAIN map}
    <3>1. Texts(v) = DOMAIN map \cup UNION {InnerTexts(map[k]) : k \in DOMAIN map}
      BY <1>1, OfObject
    <3>2. \A k \in DOMAIN map : InnerTexts(map[k]) = Texts(map[k])
      BY <2>2 DEF DocumentsRecur
    <3> QED  BY <3>1, <3>2
  <2>6. strict /\ Nodes(outcomes) # {} => AllSet(v, e)
    BY <2>4, <2>5 DEF AllSet, ReferencesIn
  <2> QED  BY <2>4, <2>6 DEF v, outcomes
<1>5. CASE ~hasReference(v)
  <2>1. ReferencesIn(v) = {}
    BY <1>2, <1>5, NoReferenceIsMissed
  <2>2. outcomes = Done(map)
    BY <1>3, <1>5
  <2>3. Nodes(outcomes) = {map}
    BY <2>2, Outcomes
  <2>4. IsExpanded(v, e) /\ AllSet(v, e)
    BY <2>1, <1>2 DEF IsExpanded, AllSet
  <2> QED  BY <2>3, <2>4 DEF v, outcomes
<1> QED
  BY <1>4, <1>5

LEMMA ExpanderRound ==
    ASSUME NEW e, NEW acc, NEW i, NEW u \in Nodes(NextExpander(e, acc, i))
    PROVE  \E map \in Nodes(acc) : u \in Nodes(Expand(map, e, Expanders[i].strict))
<1> DEFINE O == NextExpander(e, acc, i)
           F == [map \in Nodes(acc) |-> Expand(map, e, Expanders[i].strict)]
<1>1. O = Errors(acc) \cup UNION {Expand(map, e, Expanders[i].strict) : map \in Nodes(acc)}
  BY Zenon DEF NextExpander, AndThen
<1>2. \A map \in Nodes(acc) : F[map] = Expand(map, e, Expanders[i].strict)
  OBVIOUS
<1> HIDE DEF O, F
<1>3. \A o : o \in O <=> o \in Errors(acc) \/ \E map \in Nodes(acc) : o \in F[map]
  BY <1>1, <1>2
<1>4. \A x \in Nodes(O) : \E map \in Nodes(acc) : x \in Nodes(F[map])
  BY <1>3, OutcomesThen
<1> QED
  BY <1>2, <1>4 DEF O

\* What leaves the chain was expanded, if it passed an expander; and a strict
\* expander that is the first one saw the tree as it was read.
LEMMA ChainExpands ==
    ASSUME DocumentsRecur, NEW map, IsCanonicalTree(map), NEW e \in Envs, NEW u \in Nodes(Chain(map, e))
    PROVE  /\ IsCanonicalTree(u)
           /\ Expanders # <<>> => IsExpanded(Object(u), e)
           /\ Expanders # <<>> /\ Expanders[1].strict => AllSet(Object(map), e)
<1> DEFINE n == Len(Expanders)
           after == LoopOfExpanders!Run(e, Done(map), n)
           R == {i \in 0..n : \A x \in Nodes(after[i]) :
                   /\ IsCanonicalTree(x)
                   /\ i # 0 => IsExpanded(Object(x), e)
                   /\ i # 0 /\ Expanders[1].strict => AllSet(Object(map), e)}
<1>1. n \in Nat /\ (Expanders # <<>> => n # 0) /\ \A i \in 1..n : Expanders[i].strict \in BOOLEAN
  <2> DEFINE E == [strict : BOOLEAN]
  <2>1. Expanders \in Seq(E) /\ \A x \in E : x.strict \in BOOLEAN
    BY ExpandersAssumption
  <2> HIDE DEF E
  <2>2. n \in Nat /\ (Expanders # <<>> => n # 0) /\ \A i \in 1..n : Expanders[i] \in E
    BY <2>1
  <2> QED  BY <2>1, <2>2
<1>2. after[0] = Done(map) /\ \A i \in 1..n : after[i] = NextExpander(e, after[i - 1], i)
  BY <1>1, LoopOfExpanders!RunOfRounds
<1>3. Chain(map, e) = after[n]
  BY DEF Chain, ExpanderLoop!After, ExpanderLoop!Run, LoopOfExpanders!Run
<1> HIDE DEF n, after
<1>4. 0 \in R
  <2>1. Nodes(after[0]) = {map}
    BY <1>2, Outcomes
  <2> QED  BY <1>1, <2>1
<1>5. ASSUME NEW i \in 1..n, i - 1 \in R PROVE i \in R
  <2>1. ASSUME NEW x \in Nodes(after[i])
        PROVE  /\ IsCanonicalTree(x) /\ IsExpanded(Object(x), e)
               /\ Expanders[1].strict => AllSet(Object(map), e)
    <3>1. PICK m \in Nodes(after[i - 1]) : x \in Nodes(Expand(m, e, Expanders[i].strict))
      BY <1>2, <2>1, ExpanderRound
    <3>2. IsCanonicalTree(m) /\ (i - 1 # 0 /\ Expanders[1].strict => AllSet(Object(map), e))
      BY <1>5
    <3>3. IsExpanded(Object(x), e) /\ (Expanders[i].strict => AllSet(Object(m), e))
      BY <3>1, <3>2, <1>1, ExpandOnce
    <3>4. IsCanonicalTree(x)
      BY <3>3 DEF IsExpanded, IsCanonicalTree
    <3>5. ASSUME Expanders[1].strict PROVE AllSet(Object(map), e)
      <4>1. CASE i = 1
        <5>1. m = map
          BY <4>1, <1>2, Outcomes
        <5> QED  BY <5>1, <4>1, <3>3, <3>5
      <4>2. CASE i # 1
        <5>1. i - 1 # 0
          BY <4>2, <1>1
        <5> QED  BY <5>1, <3>2, <3>5
      <4> QED  BY <4>1, <4>2
    <3> QED  BY <3>3, <3>4, <3>5
  <2> QED  BY <1>1, <2>1
<1>6. n \in R
  <2> HIDE DEF R
  <2>1. \A i \in 0..n : i \in R
    BY <1>1, <1>4, <1>5, LoopOfExpanders!LoopInvariant
  <2> QED  BY <2>1, <1>1
<1> QED
  BY <1>1, <1>3, <1>6

-----------------------------------------------------------------------------
(* The inductive invariant *)

InSource == {"read", "format", "lookup", "decode", "expand"}
Stages == InSource \cup {"idle", "bind"}

\* The functions have their domains, and a load past its start has a source.
Shape ==
    /\ pc \in [Loader -> Stages]
    /\ source \in [Loader -> Sources \cup {NoSource}]
    /\ from \in [Loader -> Content \cup {Blank}]
    /\ decoder = [p \in Loader |-> decoder[p]]
    /\ DOMAIN tree = Loader /\ DOMAIN target = Loader
    /\ doc \in [Sources -> Content \cup {Blank, Gone}]
    /\ env \in Envs
    /\ DOMAIN call = Goroutines /\ DOMAIN status = Goroutines /\ DOMAIN result = Goroutines

HasSource == \A p \in Loader : pc[p] \in InSource => source[p] \in Sources

\* The registry holds decoders only.
HoldsDecoders ==
    /\ \A k \in DOMAIN held : held[k] \in Decoder
    /\ DOMAIN held \subseteq UNION {Keys(d) : d \in Decoder}

\* The decoder the registry holds for the format of the source of p.
HeldFor(p, d) == FormatKey(p) \in DOMAIN held /\ held[FormatKey(p)] = d

\* A load asks the registry only for what no extra decoder takes, and an answer
\* that named a decoder is still what the registry holds.
Asked(p) ==
    pc[p] = "lookup" =>
      /\ ~UsesExtra(p)
      /\ call[p] = [op |-> "Lookup", format |-> FormatName[source[p]]]
      /\ status[p] = "answered" /\ result[p].err = "none" => HeldFor(p, result[p].decoder)

LastHit(p) == Extra[CHOOSE i \in ExtraHits(p) : \A j \in ExtraHits(p) : j <= i]

\* The decoder of a load is the last extra one that takes its format, and if
\* there is none the one of the registry.
DecoderStands(p) ==
    decoder[p] # NoDecoder =>
      /\ source[p] \in Sources
      /\ IF UsesExtra(p) THEN decoder[p] = LastHit(p) ELSE HeldFor(p, decoder[p])

HasDecoder(p) == pc[p] \in {"decode", "expand"} => decoder[p] \in Decoder

DecoderInv == \A p \in Loader : Asked(p) /\ DecoderStands(p) /\ HasDecoder(p)

\* A load that reaches the expander has an empty tree or read a value; one that
\* was narrowed reaches the binder only if it read one.
HasValue(p) == ValuesRead(p) \ {Null} # {}

ValueInv ==
    \A p \in Loader :
      /\ pc[p] = "expand" => tree[p] = EmptyTree \/ HasValue(p)
      /\ pc[p] = "bind" /\ source[p] # NoSource /\ Prefix # <<>> => HasValue(p)

Inv == Shape /\ HasSource /\ HoldsDecoders /\ DecoderInv /\ ValueInv

-----------------------------------------------------------------------------
(* The registry only grows *)

Grows == \A k \in DOMAIN held : k \in DOMAIN held' /\ held'[k] = held[k]

\* The registry names formats and keys as the rest of the program does.
LEMMA NamesOfRegistry ==
    /\ \A n : Registry!normalizeFormat(n) = normalizeFormat(n)
    /\ \A d : Registry!Keys(d) = Keys(d) /\ (Registry!Usable(d) <=> Usable(d))
<1>1. \A n : Registry!normalizeFormat(n) = normalizeFormat(n)
  BY DEF Registry!normalizeFormat, normalizeFormat
<1>2. \A d : Registry!Keys(d) = Keys(d)
  BY DEF Registry!Keys, Keys, Registry!Canonical, Canonical, Registry!normalizeFormat, normalizeFormat
<1>3. \A d : Registry!Usable(d) <=> Usable(d)
  BY DEF Registry!Usable, Usable, Registry!EmptyName, EmptyName
<1> QED
  BY <1>1, <1>2, <1>3

LEMMA WithGrows ==
    ASSUME NEW d, ~Registry!Taken(d), held' = Registry!With(d)
    PROVE  Grows
<1>1. DOMAIN held' = DOMAIN held \cup Keys(d)
  BY NamesOfRegistry DEF Registry!With
<1>2. ASSUME NEW k \in DOMAIN held PROVE held'[k] = held[k]
  <2>1. k \notin Keys(d)
    BY NamesOfRegistry DEF Registry!Taken
  <2> QED  BY <2>1, NamesOfRegistry DEF Registry!With
<1> QED
  BY <1>1, <1>2 DEF Grows

LEMMA WithHolds ==
    ASSUME NEW d \in Decoder, HoldsDecoders, held' = Registry!With(d)
    PROVE  HoldsDecoders'
<1>1. \A k \in DOMAIN held' : held'[k] = IF k \in Keys(d) THEN d ELSE held[k]
  BY NamesOfRegistry DEF Registry!With
<1>2. DOMAIN held' = DOMAIN held \cup Keys(d)
  BY NamesOfRegistry DEF Registry!With
<1> QED
  BY <1>1, <1>2 DEF HoldsDecoders

\* The steps of the program that are about the registry.
LEMMA RegistryStep ==
    ASSUME Inv, [Next]_vars
    PROVE  Grows /\ HoldsDecoders'
<1>1. CASE Construct
  <2> DEFINE d == Head(unregistered)
  <2>1. held' = IF Usable(d) /\ ~Registry!Taken(d) THEN Registry!With(d) ELSE held
    BY <1>1, NamesOfRegistry DEF Construct, Registry!Construct
  <2> HIDE DEF d
  <2>2. CASE Usable(d) /\ ~Registry!Taken(d)
    <3>1. d \in Decoder /\ held' = Registry!With(d)
      BY <2>1, <2>2 DEF Usable
    <3> QED  BY <3>1, <2>2, WithGrows, WithHolds DEF Inv
  <2>3. CASE held' = held
    BY <2>3 DEF Grows, HoldsDecoders, Inv
  <2> QED  BY <2>1, <2>2, <2>3
<1>2. CASE \E q \in Registrar : Register(q)
  <2>1. PICK q \in Registrar : Register(q)
    BY <1>2
  <2>2. CASE Registry!Register(q)
    <3> DEFINE d == call[q].decoder
    <3>1. held' = held \/ (Usable(d) /\ ~Registry!Taken(d) /\ held' = Registry!With(d))
      BY <2>2, NamesOfRegistry DEF Registry!Register
    <3> HIDE DEF d
    <3>2. CASE held' = held
      BY <3>2 DEF Grows, HoldsDecoders, Inv
    <3>3. CASE Usable(d) /\ ~Registry!Taken(d) /\ held' = Registry!With(d)
      <4>1. d \in Decoder
        BY <3>3 DEF Usable
      <4> QED  BY <4>1, <3>3, WithGrows, WithHolds DEF Inv
    <3> QED  BY <3>1, <3>2, <3>3
  <2>3. CASE held' = held
    BY <2>3 DEF Grows, HoldsDecoders, Inv
  <2> QED
    BY <2>1, <2>2, <2>3 DEF Register, Registry!Invoke, Registry!Return
<1>3. CASE held' = held
  BY <1>3 DEF Grows, HoldsDecoders, Inv
<1> QED
  <2>1. ASSUME NEW p \in Loader, Start(p) PROVE held' = held
    BY <2>1 DEF Start, Load, LoadNil, FillDefault, registryVars
  <2>2. ASSUME NEW p \in Loader, Step(p) PROVE held' = held
    BY <2>2 DEF Step, Read, ReadFails, FindExtra, AskRegistry, RegistryAnswers, Found, NotFound, Decode,
                ExpandAndNarrow, Bind, registryVars, Registry!Invoke, Registry!Lookup, Registry!Return
  <2>3. CASE UNCHANGED vars
    BY <2>3, <1>3 DEF vars, registryVars
  <2>4. CASE Setenv \/ \E s \in Sources : Rewrite(s)
    BY <2>4, <1>3 DEF Setenv, Rewrite, registryVars
  <2> QED
    BY <1>1, <1>2, <1>3, <2>1, <2>2, <2>3, <2>4 DEF Next

-----------------------------------------------------------------------------
(* The shape of the state *)

LEMMA InitShape == Init => Shape /\ HasSource
  BY DEF Init, Registry!Init, Shape, HasSource, Stages, InSource, Goroutines

LEMMA LeftIsContent ==
    ASSUME Shape, NEW s \in Sources
    PROVE  Left(s) \subseteq Content \cup {Blank, Gone}
<1>1. Fresh[s] \subseteq Content
  BY LoadsAssumption
<1> QED
  BY <1>1 DEF Shape, Left, RestOf

\* The end of a load.
LEMMA EndShape ==
    ASSUME Shape, HasSource, NEW p \in Loader, NEW at, NEW how, End(p, at, how)
    PROVE  /\ pc' \in [Loader -> Stages] /\ from' \in [Loader -> Content \cup {Blank}] /\ DOMAIN tree' = Loader
           /\ \A q \in Loader : pc'[q] \in InSource => pc[q] \in InSource
  BY DEF Shape, End, Goto, Stages, InSource

LEMMA StageShape ==
    ASSUME Shape, HasSource, NEW p \in Loader, NEW at, NEW to \in Stages, NEW outcomes, Stage(p, at, to, outcomes),
           at \in InSource
    PROVE  /\ pc' \in [Loader -> Stages] /\ from' \in [Loader -> Content \cup {Blank}] /\ DOMAIN tree' = Loader
           /\ \A q \in Loader : pc'[q] \in InSource => pc[q] \in InSource
<1>1. CASE \E o \in Errors(outcomes) : End(p, at, o.err)
  BY <1>1, EndShape
<1>2. CASE \E node \in Nodes(outcomes) :
             Goto(p, at, to) /\ tree' = [tree EXCEPT ![p] = node] /\ UNCHANGED <<outcome, from>>
  BY <1>2 DEF Shape, Goto
<1> QED
  BY <1>1, <1>2 DEF Stage

LEMMA ShapeStep ==
    ASSUME Shape, HasSource, [Next]_vars
    PROVE  Shape' /\ HasSource'
<1> USE DEF Shape, HasSource, Stages, InSource, Goroutines
<1>1. ASSUME NEW p \in Loader, Load(p) \/ LoadNil(p) \/ FillDefault(p) PROVE Shape' /\ HasSource'
  BY <1>1, EndShape DEF Load, LoadNil, FillDefault, Goto, registryVars
<1>2. ASSUME NEW p \in Loader, Read(p) PROVE Shape' /\ HasSource'
  <2>1. source[p] \in Sources
    BY <1>2 DEF Read, Goto
  <2> QED  BY <1>2, <2>1, LeftIsContent DEF Read, Goto, registryVars
<1>3. ASSUME NEW p \in Loader, ReadFails(p) PROVE Shape' /\ HasSource'
  <2>1. source[p] \in Sources
    BY <1>3 DEF ReadFails, End, Goto
  <2> QED  BY <1>3, <2>1, LeftIsContent, EndShape DEF ReadFails, registryVars
<1>4. ASSUME NEW p \in Loader, FindExtra(p) \/ AskRegistry(p) \/ Found(p) PROVE Shape' /\ HasSource'
  BY <1>4 DEF FindExtra, AskRegistry, Found, Goto, registryVars, Registry!Invoke, Registry!Return
<1>5. ASSUME NEW p \in Loader, RegistryAnswers(p) PROVE Shape' /\ HasSource'
  BY <1>5 DEF RegistryAnswers, loadVars, Registry!Lookup, Registry!Effect
<1>6. ASSUME NEW p \in Loader, NotFound(p) PROVE Shape' /\ HasSource'
  BY <1>6, EndShape DEF NotFound, Registry!Return
<1>7. ASSUME NEW p \in Loader, Decode(p) \/ ExpandAndNarrow(p) PROVE Shape' /\ HasSource'
  BY <1>7, StageShape DEF Decode, ExpandAndNarrow, registryVars
<1>8. ASSUME NEW p \in Loader, Bind(p) PROVE Shape' /\ HasSource'
  BY <1>8, EndShape DEF Bind, registryVars
<1>9. ASSUME NEW q \in Registrar, Register(q) PROVE Shape' /\ HasSource'
  BY <1>9 DEF Register, loadVars, Registry!Invoke, Registry!Register, Registry!Return, Registry!Effect
<1>10. CASE Construct \/ Setenv
  BY <1>10 DEF Construct, Registry!Construct, Setenv, loadVars, registryVars
<1>11. ASSUME NEW s \in Sources, Rewrite(s) PROVE Shape' /\ HasSource'
  <2>1. PICK c \in Fresh[s] : doc' = [doc EXCEPT ![s] = c]
    BY <1>11 DEF Rewrite
  <2>2. c \in Content
    BY <2>1, LoadsAssumption
  <2> QED  BY <1>11, <2>1, <2>2 DEF Rewrite, loadVars, registryVars
<1>12. CASE UNCHANGED vars
  BY <1>12 DEF vars, loadVars, registryVars
<1> QED
  BY <1>1, <1>2, <1>3, <1>4, <1>5, <1>6, <1>7, <1>8, <1>9, <1>10, <1>11, <1>12 DEF Next, Start, Step

-----------------------------------------------------------------------------
(* The decoder of a load *)

\* What is true of the decoder of a load depends on the load and on what the
\* registry holds, and the registry only grows.
LEMMA DecoderFrame ==
    ASSUME NEW p \in Loader, Asked(p), DecoderStands(p), HasDecoder(p), Grows,
           pc'[p] = pc[p], source'[p] = source[p], decoder'[p] = decoder[p],
           call'[p] = call[p], status'[p] = status[p], result'[p] = result[p]
    PROVE  Asked(p)' /\ DecoderStands(p)' /\ HasDecoder(p)'
<1>1. FormatKey(p)' = FormatKey(p) /\ LastHit(p)' = LastHit(p) /\ (UsesExtra(p)' <=> UsesExtra(p))
  BY DEF FormatKey, LastHit, UsesExtra, ExtraHits
<1>2. \A d : HeldFor(p, d) => HeldFor(p, d)'
  BY <1>1 DEF Grows, HeldFor
<1>3. Asked(p)'
  BY <1>1, <1>2 DEF Asked
<1>4. DecoderStands(p)'
  BY <1>1, <1>2 DEF DecoderStands
<1> QED
  BY <1>3, <1>4 DEF HasDecoder

\* A load that is not in the registry and keeps its decoder keeps what is true of it.
LEMMA DecoderKept ==
    ASSUME NEW p \in Loader, DecoderStands(p), Grows, source'[p] = source[p], decoder'[p] = decoder[p],
           pc'[p] # "lookup", pc'[p] \in {"decode", "expand"} => decoder[p] \in Decoder
    PROVE  Asked(p)' /\ DecoderStands(p)' /\ HasDecoder(p)'
<1>1. FormatKey(p)' = FormatKey(p) /\ LastHit(p)' = LastHit(p) /\ (UsesExtra(p)' <=> UsesExtra(p))
  BY DEF FormatKey, LastHit, UsesExtra, ExtraHits
<1>2. \A d : HeldFor(p, d) => HeldFor(p, d)'
  BY <1>1 DEF Grows, HeldFor
<1> QED
  BY <1>1, <1>2 DEF Asked, DecoderStands, HasDecoder

\* A load that starts has no decoder yet.
LEMMA DecoderOfStart ==
    ASSUME NEW p \in Loader, decoder'[p] = NoDecoder, pc'[p] \notin {"lookup", "decode", "expand"}
    PROVE  Asked(p)' /\ DecoderStands(p)' /\ HasDecoder(p)'
  BY DEF Asked, DecoderStands, HasDecoder

\* There is a last one among the extra decoders that take a format.
LEMMA LastHitIsDecoder ==
    ASSUME NEW p \in Loader, UsesExtra(p)
    PROVE  LastHit(p) \in Decoder
<1>1. ExtraHits(p) \in SUBSET (1..Len(Extra)) /\ ExtraHits(p) # {} /\ Len(Extra) \in Nat
  BY LoadsAssumption DEF UsesExtra, ExtraHits
<1>2. \E i \in ExtraHits(p) : \A j \in ExtraHits(p) : j <= i
  <2> DEFINE T == ExtraHits(p)
             n == Len(Extra)
  <2>1. n \in Nat /\ T \in SUBSET (1..n) /\ T # {}
    BY <1>1
  <2> HIDE DEF T, n
  <2>2. \E i \in T : \A j \in T : j <= i
    BY <2>1, LoopOfLevels!GreatestNumber
  <2> QED  BY <2>2 DEF T
<1>3. (CHOOSE i \in ExtraHits(p) : \A j \in ExtraHits(p) : j <= i) \in DOMAIN Extra
  BY <1>2 DEF ExtraHits
<1> QED
  BY <1>3, LoadsAssumption DEF LastHit

LEMMA InitDecoders == Init => DecoderInv
  BY DEF Init, DecoderInv, Asked, DecoderStands, HasDecoder

\* What a step of p does to the decoder of p.
LEMMA OwnDecoder ==
    ASSUME Inv, NEW p \in Loader, Start(p) \/ Step(p), Grows
    PROVE  Asked(p)' /\ DecoderStands(p)' /\ HasDecoder(p)'
<1> USE DEF Inv, Shape, DecoderInv
<1>1. CASE Load(p) \/ FillDefault(p)
  BY <1>1, DecoderOfStart DEF Load, FillDefault, Goto
<1>2. CASE LoadNil(p) \/ ReadFails(p) \/ NotFound(p) \/ Bind(p)
  <2>1. pc'[p] = "idle" /\ source'[p] = source[p] /\ decoder'[p] = decoder[p]
    BY <1>2 DEF LoadNil, ReadFails, NotFound, Bind, End, Goto
  <2> QED  BY <2>1, DecoderKept
<1>3. CASE Read(p)
  <2>1. pc'[p] = "format" /\ source'[p] = source[p] /\ decoder'[p] = decoder[p]
    BY <1>3 DEF Read, Goto
  <2> QED  BY <2>1, DecoderKept
<1>4. CASE FindExtra(p)
  <2>1. pc[p] = "format" /\ pc'[p] = "decode" /\ decoder'[p] = LastHit(p) /\ source'[p] = source[p] /\ UsesExtra(p)
    BY <1>4 DEF FindExtra, Goto, LastHit
  <2>2. source[p] \in Sources /\ LastHit(p) \in Decoder
    BY <2>1, LastHitIsDecoder DEF HasSource, InSource
  <2>3. LastHit(p)' = LastHit(p) /\ (UsesExtra(p)' <=> UsesExtra(p))
    BY <2>1 DEF FormatKey, LastHit, UsesExtra, ExtraHits
  <2> QED
    BY <2>1, <2>2, <2>3 DEF Asked, DecoderStands, HasDecoder
<1>5. CASE AskRegistry(p)
  <2>1. /\ pc[p] = "format" /\ pc'[p] = "lookup" /\ decoder'[p] = decoder[p] /\ source' = source /\ ~UsesExtra(p)
        /\ call'[p] = [op |-> "Lookup", format |-> FormatName[source[p]]] /\ status'[p] = "pending"
    BY <1>5 DEF AskRegistry, Goto, Registry!Invoke, Goroutines
  <2>2. FormatKey(p)' = FormatKey(p) /\ LastHit(p)' = LastHit(p) /\ (UsesExtra(p)' <=> UsesExtra(p))
    BY <2>1 DEF FormatKey, LastHit, UsesExtra, ExtraHits
  <2>3. Asked(p)'
    BY <2>1, <2>2 DEF Asked
  <2>4. DecoderStands(p)'
    BY <2>1, <2>2 DEF DecoderStands, HeldFor, Grows
  <2> QED
    BY <2>1, <2>3, <2>4 DEF HasDecoder
<1>6. CASE RegistryAnswers(p)
  <2>1. /\ pc' = pc /\ source' = source /\ decoder' = decoder /\ call' = call /\ held' = held
        /\ call[p].op = "Lookup" /\ status[p] = "pending" /\ result' = [result EXCEPT ![p] = result'[p]]
        /\ LET key == normalizeFormat(call[p].format) IN
             result'[p].err = "none" => key \in DOMAIN held /\ result'[p].decoder = held[key]
    BY <1>6, NamesOfRegistry
    DEF RegistryAnswers, loadVars, Registry!Lookup, Registry!Effect, Registry!Answer, Goroutines
  <2>2. FormatKey(p)' = FormatKey(p) /\ LastHit(p)' = LastHit(p) /\ (UsesExtra(p)' <=> UsesExtra(p))
    BY <2>1 DEF FormatKey, LastHit, UsesExtra, ExtraHits
  <2>3. Asked(p)'
    BY <2>1, <2>2 DEF Asked, HeldFor, FormatKey
  <2>4. DecoderStands(p)'
    BY <2>1, <2>2 DEF DecoderStands, HeldFor
  <2> QED
    BY <2>1, <2>3, <2>4 DEF HasDecoder
<1>7. CASE Found(p)
  <2>1. /\ pc[p] = "lookup" /\ pc'[p] = "decode" /\ decoder'[p] = result[p].decoder /\ source' = source /\ held' = held
        /\ status[p] = "answered" /\ result[p].err = "none"
    BY <1>7 DEF Found, Goto, Registry!Return
  <2>2. FormatKey(p)' = FormatKey(p) /\ LastHit(p)' = LastHit(p) /\ (UsesExtra(p)' <=> UsesExtra(p))
    BY <2>1 DEF FormatKey, LastHit, UsesExtra, ExtraHits
  <2>3. ~UsesExtra(p) /\ HeldFor(p, result[p].decoder) /\ source[p] \in Sources
    BY <2>1 DEF Asked, HasSource, InSource
  <2>4. result[p].decoder \in Decoder
    BY <2>3 DEF HeldFor, HoldsDecoders
  <2> QED
    BY <2>1, <2>2, <2>3, <2>4 DEF Asked, DecoderStands, HasDecoder, HeldFor
<1>8. CASE Decode(p) \/ ExpandAndNarrow(p)
  <2>1. /\ pc[p] \in {"decode", "expand"} /\ pc'[p] \in {"idle", "expand", "bind"}
        /\ source' = source /\ decoder' = decoder
    BY <1>8 DEF Decode, ExpandAndNarrow, Stage, End, Goto
  <2> QED  BY <2>1, DecoderKept DEF HasDecoder
<1> QED
  BY <1>1, <1>2, <1>3, <1>4, <1>5, <1>6, <1>7, <1>8 DEF Start, Step

\* A step leaves the loads of the other goroutines alone.
Untouched(p) ==
    /\ pc'[p] = pc[p] /\ source'[p] = source[p] /\ from'[p] = from[p]
    /\ decoder'[p] = decoder[p] /\ tree'[p] = tree[p] /\ target'[p] = target[p]
    /\ call'[p] = call[p] /\ status'[p] = status[p] /\ result'[p] = result[p]

LEMMA OthersUntouched ==
    ASSUME Shape, NEW p \in Loader, NEW q \in Loader, p # q, Start(q) \/ Step(q)
    PROVE  Untouched(p)
<1> USE DEF Shape, Untouched, Goto, Goroutines, registryVars
<1>1. CASE Start(q)
  BY <1>1 DEF Start, Load, LoadNil, FillDefault, End
<1>2. CASE Read(q) \/ ReadFails(q) \/ FindExtra(q) \/ Bind(q)
  BY <1>2 DEF Read, ReadFails, FindExtra, Bind, End
<1>3. CASE AskRegistry(q) \/ RegistryAnswers(q) \/ Found(q) \/ NotFound(q)
  BY <1>3 DEF AskRegistry, RegistryAnswers, Found, NotFound, End, loadVars,
              Registry!Invoke, Registry!Lookup, Registry!Effect, Registry!Return
<1>4. CASE Decode(q) \/ ExpandAndNarrow(q)
  BY <1>4 DEF Decode, ExpandAndNarrow, Stage, End
<1> QED
  BY <1>1, <1>2, <1>3, <1>4 DEF Step

LEMMA ProgramUntouched ==
    ASSUME Shape, NEW p \in Loader,
           \/ Construct \/ Setenv \/ UNCHANGED vars
           \/ \E s \in Sources : Rewrite(s)
           \/ \E q \in Registrar : Register(q)
    PROVE  Untouched(p)
<1> USE DEF Shape, Untouched, Goroutines, registryVars, loadVars
<1>1. CASE Construct \/ Setenv \/ UNCHANGED vars \/ \E s \in Sources : Rewrite(s)
  BY <1>1 DEF Construct, Registry!Construct, Setenv, vars, Rewrite
<1>2. ASSUME NEW q \in Registrar, Register(q) PROVE Untouched(p)
  <2>1. p # q
    BY LoadsAssumption
  <2> QED
    BY <1>2, <2>1 DEF Register, Registry!Invoke, Registry!Register, Registry!Effect, Registry!Return
<1> QED
  BY <1>1, <1>2

LEMMA DecoderStep ==
    ASSUME Inv, [Next]_vars
    PROVE  DecoderInv'
<1> SUFFICES ASSUME NEW p \in Loader PROVE Asked(p)' /\ DecoderStands(p)' /\ HasDecoder(p)'
  BY DEF DecoderInv
<1>1. Grows
  BY RegistryStep
<1>2. CASE Start(p) \/ Step(p)
  BY <1>1, <1>2, OwnDecoder
<1>3. CASE Untouched(p)
  <2>1. Asked(p) /\ DecoderStands(p) /\ HasDecoder(p)
    BY DEF Inv, DecoderInv
  <2> QED  BY <1>1, <1>3, <2>1, DecoderFrame DEF Untouched
<1> QED
  BY <1>2, <1>3, OthersUntouched, ProgramUntouched DEF Next, Inv

-----------------------------------------------------------------------------
(* What a load reads *)

LEMMA RootOutcomes ==
    ASSUME NEW node, NEW t \in Nodes(Root(node))
    PROVE  Is(node, "object")
  BY Outcomes DEF Root

\* A decoder makes more than an empty tree only of a value.
LEMMA DecodingReads ==
    ASSUME NEW family \in {"json", "yaml", "toml", "own"}, NEW docs, DOMAIN docs = 1..Len(docs),
           family \in {"toml", "own"} => Len(docs) = 1, NEW t \in Nodes(Decoding(family, docs))
    PROVE  t = EmptyTree \/ \E i \in DOMAIN docs : docs[i] # Null
<1>1. ~Is(Null, "object")
  BY DEF Is, Has, Null
<1>2. CASE family = "json"
  <2>1. t \in Nodes(DecodeJSON(docs))
    BY <1>2 DEF Decoding
  <2>2. Len(docs) = 1 /\ t \in Nodes(Root(docs[1]))
    BY <2>1, Outcomes DEF DecodeJSON
  <2> QED  BY <2>2, <1>1, RootOutcomes
<1>3. CASE family = "yaml"
  <2>1. t \in Nodes(DecodeYAML(docs))
    BY <1>3 DEF Decoding
  <2> QED  BY <2>1, Outcomes DEF DecodeYAML, Valued
<1>4. CASE family \in {"toml", "own"}
  <2>1. t \in Nodes(DecodeOther(docs))
    BY <1>4 DEF Decoding
  <2>2. Is(Normal(docs[1]), "object")
    BY <2>1, RootOutcomes DEF DecodeOther
  <2>3. docs[1] # Null
    BY <2>2, StagesAssumption
  <2>4. 1 \in DOMAIN docs
    BY <1>4
  <2> QED  BY <2>3, <2>4
<1> QED
  BY <1>2, <1>3, <1>4

LEMMA DecodedReads ==
    ASSUME NEW d \in Decoder, NEW c \in Content \cup {Blank}, NEW t \in Nodes(Decoded(d, c))
    PROVE  \/ t = EmptyTree
           \/ ~isBlank(d, c) /\ \E docs \in Parsed(d, c) : \E i \in DOMAIN docs : docs[i] # Null
<1>1. CASE isBlank(d, c)
  BY <1>1, Outcomes DEF Decoded
<1>2. CASE ~isBlank(d, c)
  <2>1. Parsed(d, c) # {} /\ t \in Nodes(UNION {Decoding(Family[d], docs) : docs \in Parsed(d, c)})
    BY <1>2, Outcomes DEF Decoded
  <2>2. PICK docs \in Parsed(d, c) : t \in Nodes(Decoding(Family[d], docs))
    BY <2>1 DEF Nodes, Errors
  <2>3. c \in Content \cup {Blank}
    OBVIOUS
  <2>4. /\ Family[d] \in {"json", "yaml", "toml", "own"}
        /\ DOMAIN docs = 1..Len(docs)
        /\ Family[d] \in {"toml", "own"} => Len(docs) = 1
    BY <2>2, <2>3, ParsedAssumption
  <2> QED
    BY <2>2, <2>4, <1>2, DecodingReads
<1> QED
  BY <1>1, <1>2

\* An empty tree has no section.
LEMMA EmptyHasNoSection ==
    ASSUME Prefix # <<>>
    PROVE  Nodes(section(EmptyTree)) = {}
<1> DEFINE n == Len(Prefix)
           after == LoopOfLevels!Run(Prefix, Done(EmptyTree), n)
<1>1. n \in Nat /\ n # 0
  BY LoadsAssumption
<1>2. after[0] = Done(EmptyTree) /\ \A i \in 1..n : after[i] = LevelAt(Prefix, after[i - 1], i)
  BY <1>1, LoopOfLevels!RunOfRounds
<1>3. \A key : Level(EmptyTree, key) = Refuse("ErrMissingSection")
  BY DEF Level, Ambiguous, Given, Matches, EmptyTree
<1> DEFINE S == {i \in 0..n : (i = 0 \/ Nodes(after[i]) = {})}
<1>4. ASSUME NEW i \in 1..n, i - 1 \in S PROVE i \in S
  <2>1. Nodes(after[i - 1]) \subseteq {EmptyTree}
    BY <1>2, <1>4, Outcomes
  <2>2. after[i] = Errors(after[i - 1]) \cup UNION {Level(map, Prefix[i]) : map \in Nodes(after[i - 1])}
    BY <1>2 DEF LevelAt, AndThen
  <2>3. Nodes(after[i]) = {}
    <3> HIDE DEF after
    <3>1. ASSUME NEW o \in after[i] PROVE o \in Errors(after[i])
      BY <3>1, <2>1, <2>2, <1>3 DEF Errors, Refuse, Has
    <3> QED  BY <3>1 DEF Nodes
  <2> QED  BY <2>3
<1>5. n \in S
  <2> HIDE DEF S
  <2>1. 0 \in S
    BY <1>1 DEF S
  <2>2. \A i \in 0..n : i \in S
    BY <1>1, <1>4, <2>1, LoopOfLevels!LoopInvariant
  <2> QED  BY <2>2, <1>1
<1>6. section(EmptyTree) = after[n]
  BY DEF section, Levels!After, Levels!Run, LoopOfLevels!Run
<1> QED
  BY <1>1, <1>5, <1>6

LEMMA InitValues == Init => ValueInv
  BY DEF Init, ValueInv

LEMMA ValueFrame ==
    ASSUME NEW p \in Loader, from'[p] = from[p], decoder'[p] = decoder[p]
    PROVE  HasValue(p)' = HasValue(p)
  BY DEF HasValue, ValuesRead

\* A step of p.
LEMMA OwnValue ==
    ASSUME Inv, NEW p \in Loader, Start(p) \/ Step(p)
    PROVE  /\ pc'[p] = "expand" => tree'[p] = EmptyTree \/ HasValue(p)'
           /\ pc'[p] = "bind" /\ source'[p] # NoSource /\ Prefix # <<>> => HasValue(p)'
<1> USE DEF Inv, Shape
<1>1. CASE FillDefault(p)
  BY <1>1 DEF FillDefault, Goto
<1>2. CASE pc'[p] \notin {"expand", "bind"}
  BY <1>2
<1>3. CASE Decode(p) /\ pc'[p] \in {"expand", "bind"}
  <2>1. PICK t \in Nodes(Decoded(decoder[p], from[p])) : pc'[p] = "expand" /\ tree'[p] = t /\ from' = from
    BY <1>3 DEF Decode, Stage, End, Goto
  <2>2. decoder[p] \in Decoder /\ from[p] \in Content \cup {Blank} /\ decoder' = decoder
    BY <1>3 DEF Decode, DecoderInv, HasDecoder
  <2>3. \/ t = EmptyTree
        \/ ~isBlank(decoder[p], from[p]) /\ \E docs \in Parsed(decoder[p], from[p]) : \E i \in DOMAIN docs : docs[i] # Null
    BY <2>2, DecodedReads
  <2>4. t = EmptyTree \/ HasValue(p)
    BY <2>3 DEF HasValue, ValuesRead
  <2> QED
    BY <2>1, <2>2, <2>4, ValueFrame
<1>4. CASE ExpandAndNarrow(p) /\ pc'[p] \in {"expand", "bind"}
  <2>1. /\ pc[p] = "expand" /\ pc'[p] = "bind" /\ from' = from /\ decoder' = decoder
        /\ Nodes(AndThen(Expansion(tree[p], env), section)) # {}
    BY <1>4 DEF ExpandAndNarrow, Stage, End, Goto
  <2>2. CASE HasValue(p)
    BY <2>1, <2>2, ValueFrame
  <2>3. CASE tree[p] = EmptyTree /\ Prefix # <<>>
    <3>1. Expansion(tree[p], env) = Done(EmptyTree)
      BY <2>3, StagesAssumption
    <3>2. AndThen(Expansion(tree[p], env), section) = section(EmptyTree)
      BY <3>1, Outcomes DEF AndThen
    <3> QED  BY <2>1, <2>3, <3>2, EmptyHasNoSection
  <2>4. tree[p] = EmptyTree \/ HasValue(p)
    BY <2>1 DEF ValueInv
  <2> QED
    BY <2>1, <2>2, <2>3, <2>4
<1>5. CASE ~FillDefault(p) /\ ~Decode(p) /\ ~ExpandAndNarrow(p)
  BY <1>2, <1>5
  DEF Start, Step, Load, LoadNil, Read, ReadFails, FindExtra, AskRegistry, RegistryAnswers, Found, NotFound, Bind,
      End, Goto, loadVars, Registry!Lookup, ValueInv, HasValue, ValuesRead
<1> QED
  BY <1>1, <1>2, <1>3, <1>4, <1>5 DEF Start, Step

LEMMA ValueStep ==
    ASSUME Inv, [Next]_vars
    PROVE  ValueInv'
<1> SUFFICES ASSUME NEW p \in Loader
             PROVE  /\ pc'[p] = "expand" => tree'[p] = EmptyTree \/ HasValue(p)'
                    /\ pc'[p] = "bind" /\ source'[p] # NoSource /\ Prefix # <<>> => HasValue(p)'
  BY DEF ValueInv
<1>1. CASE Start(p) \/ Step(p)
  BY <1>1, OwnValue
<1>2. CASE Untouched(p)
  BY <1>2, ValueFrame DEF Untouched, Inv, ValueInv
<1> QED
  BY <1>1, <1>2, OthersUntouched, ProgramUntouched DEF Next, Inv

-----------------------------------------------------------------------------
(* Sections *)

\* The tree t is in the only node of nodes.
OnlyNode(nodes, t) == \E node : nodes = {node} /\ Is(node, "object") /\ node.object = t

\* One level down: the tree a level of the path ends in is in the only node below.
LEMMA LevelIsTheOnlyNode ==
    ASSUME NEW node, Is(node, "object"), NEW i, NEW t \in Nodes(Level(node.object, Prefix[i]))
    PROVE  OnlyNode(Below(Prefix, {node}, i), t)
<1> DEFINE map == node.object
           key == Prefix[i]
<1>1. /\ ~Ambiguous(map, key) /\ Given(map, key) /\ Is(ValueOf(map, key), "object")
      /\ t \in Nodes(Done(ValueOf(map, key).object))
  BY Outcomes DEF Level
<1>2. t = ValueOf(map, key).object
  BY <1>1, Outcomes
<1>3. PICK c \in Matches(map, key) : Matches(map, key) = {c}
  BY <1>1 DEF Ambiguous, Given
<1>4. ValueOf(map, key) = map[c]
  BY <1>3 DEF ValueOf
<1>5. Below(Prefix, {node}, i) = {map[c]}
  <2>1. {m \in {node} : Is(m, "object")} = {node}
    OBVIOUS
  <2>2. Below(Prefix, {node}, i) = UNION {{n.object[k] : k \in Matches(n.object, key)} : n \in {node}}
    BY <2>1 DEF Below
  <2>3. Below(Prefix, {node}, i) = {node.object[k] : k \in Matches(node.object, key)}
    BY <2>2
  <2> QED  BY <2>3, <1>3
<1> QED
  BY <1>1, <1>2, <1>4, <1>5 DEF OnlyNode

LEMMA LevelsBelow ==
    ASSUME NEW outcomes, NEW i, NEW t \in Nodes(LevelAt(Prefix, outcomes, i))
    PROVE  \E map \in Nodes(outcomes) : t \in Nodes(Level(map, Prefix[i]))
<1>1. LevelAt(Prefix, outcomes, i) = Errors(outcomes) \cup UNION {Level(map, Prefix[i]) : map \in Nodes(outcomes)}
  BY DEF LevelAt, AndThen
<1>2. PICK o \in LevelAt(Prefix, outcomes, i) : ~Has(o, "err") /\ t = o.node
  BY DEF Nodes, Errors
<1>3. PICK map \in Nodes(outcomes) : o \in Level(map, Prefix[i])
  BY <1>1, <1>2 DEF Errors
<1> QED
  BY <1>2, <1>3 DEF Nodes, Errors

\* By induction over the path: what section returns is the only node the path
\* can mean.
LEMMA SectionIsTheOnlyNode ==
    ASSUME NEW whole, NEW t \in Nodes(section(whole))
    PROVE  OnlyNode(NodesAt(Object(whole)), t)
<1> DEFINE n == Len(Prefix)
           after == LoopOfLevels!Run(Prefix, Done(whole), n)
           at == LoopOfPaths!Run(Prefix, {Object(whole)}, n)
           S == {i \in 0..n : \A u \in Nodes(after[i]) : OnlyNode(at[i], u)}
<1>1. n \in Nat
  BY LoadsAssumption
<1>2. after[0] = Done(whole) /\ \A i \in 1..n : after[i] = LevelAt(Prefix, after[i - 1], i)
  BY <1>1, LoopOfLevels!RunOfRounds
<1>3. at[0] = {Object(whole)} /\ \A i \in 1..n : at[i] = Below(Prefix, at[i - 1], i)
  BY <1>1, LoopOfPaths!RunOfRounds
<1>4. section(whole) = after[n] /\ NodesAt(Object(whole)) = at[n]
  BY DEF section, NodesAt, Levels!After, Paths!After, Levels!Run, Paths!Run, LoopOfLevels!Run, LoopOfPaths!Run
<1> HIDE DEF after, at
<1>5. 0 \in S
  <2>1. Is(Object(whole), "object") /\ Object(whole).object = whole
    BY DEF Is, Has, Object
  <2> QED  BY <1>1, <1>2, <1>3, <2>1, Outcomes DEF OnlyNode
<1>6. ASSUME NEW i \in 1..n, i - 1 \in S PROVE i \in S
  <2> SUFFICES ASSUME NEW u \in Nodes(after[i]) PROVE OnlyNode(at[i], u)
    BY <1>1
  <2>1. PICK map \in Nodes(after[i - 1]) : u \in Nodes(Level(map, Prefix[i]))
    BY <1>2, LevelsBelow
  <2>2. PICK node : at[i - 1] = {node} /\ Is(node, "object") /\ node.object = map
    BY <1>6, <2>1 DEF OnlyNode
  <2>3. OnlyNode(Below(Prefix, {node}, i), u)
    <3>1. Is(node, "object") /\ u \in Nodes(Level(node.object, Prefix[i]))
      BY <2>1, <2>2
    <3> HIDE DEF S
    <3> QED  BY <3>1, LevelIsTheOnlyNode
  <2> QED
    BY <2>2, <2>3, <1>3
<1>7. n \in S
  <2> HIDE DEF S
  <2>1. \A i \in 0..n : i \in S
    BY <1>1, <1>5, <1>6, LoopOfLevels!LoopInvariant
  <2> QED  BY <2>1, <1>1
<1> QED
  BY <1>4, <1>7

\* A load reaches the binder from the expander by ExpandAndNarrow.
LEMMA MovesToBind ==
    ASSUME Shape, [Next]_vars, NEW p \in Loader, Moves(p, "expand", "bind")
    PROVE  \E t \in Nodes(AndThen(Expansion(tree[p], env), section)) : tree'[p] = t
<1>1. pc[p] = "expand" /\ pc'[p] = "bind"
  BY DEF Moves
<1>2. ExpandAndNarrow(p)
  <2>1. Start(p) \/ Step(p)
    BY <1>1, OthersUntouched, ProgramUntouched DEF Next, Untouched
  <2>2. ~FillDefault(p) /\ ~Decode(p)
    BY <1>1 DEF FillDefault, Decode, Goto
  <2>3. CASE Load(p) \/ LoadNil(p) \/ Read(p) \/ ReadFails(p) \/ FindExtra(p) \/ AskRegistry(p)
    BY <1>1, <2>3 DEF Load, LoadNil, Read, ReadFails, FindExtra, AskRegistry, End, Goto
  <2>4. CASE RegistryAnswers(p) \/ Found(p) \/ NotFound(p) \/ Bind(p)
    BY <1>1, <2>4 DEF RegistryAnswers, Found, NotFound, Bind, End, Goto, loadVars
  <2> QED
    BY <2>1, <2>2, <2>3, <2>4 DEF Start, Step
<1> QED
  BY <1>1, <1>2 DEF ExpandAndNarrow, Stage, End, Goto, Shape

-----------------------------------------------------------------------------
(* The theorems *)

LEMMA Invariance == Spec => []Inv
<1>1. Init => Inv
  BY InitShape, InitDecoders, InitValues DEF Inv, HoldsDecoders, Init, Registry!Init
<1>2. Inv /\ [Next]_vars => Inv'
  BY ShapeStep, RegistryStep, DecoderStep, ValueStep DEF Inv
<1> QED
  BY <1>1, <1>2, PTL DEF Spec

\* Reader.decoder: whatever is registered while they run, two loads of sources
\* with the same format are decoded by the same decoder.
THEOREM FormatsMeanOneDecoder == Spec => []OneDecoderPerFormat
<1>1. Inv => OneDecoderPerFormat
  <2> SUFFICES ASSUME Inv, NEW p \in Loader, NEW q \in Loader,
                      decoder[p] # NoDecoder, decoder[q] # NoDecoder, FormatKey(p) = FormatKey(q)
               PROVE  decoder[p] = decoder[q]
    BY DEF OneDecoderPerFormat
  <2>1. DecoderStands(p) /\ DecoderStands(q)
    BY DEF Inv, DecoderInv
  <2>2. LastHit(p) = LastHit(q) /\ (UsesExtra(p) <=> UsesExtra(q))
    BY DEF LastHit, UsesExtra, ExtraHits
  <2> QED
    BY <2>1, <2>2 DEF DecoderStands, HeldFor
<1> QED
  BY <1>1, Invariance, PTL

\* Reader.section: a load that is narrowed to a section reaches the binder only
\* from a source in which its decoder found a value.
THEOREM NarrowedLoadsHaveValues == Spec => []NarrowedLoadsAreNotEmpty
<1>1. Inv => NarrowedLoadsAreNotEmpty
  BY DEF Inv, ValueInv, NarrowedLoadsAreNotEmpty, HasValue
<1> QED
  BY <1>1, Invariance, PTL

\* Reader.section: what is bound is the only node the path of the prefix can
\* mean in the document as it was expanded, whatever spellings its keys have.
THEOREM SectionsAreUnambiguous == Spec => SectionIsUnambiguous
<1> DEFINE OnlySection(p) ==
             \E whole \in Nodes(Expansion(tree[p], env)) : \E node \in NodesAt(Object(whole)) :
               NodesAt(Object(whole)) = {node} /\ Is(node, "object") /\ node.object = tree'[p]
<1>1. ASSUME Shape, [Next]_vars, NEW p \in Loader, Moves(p, "expand", "bind") PROVE OnlySection(p)
  <2>1. PICK t \in Nodes(AndThen(Expansion(tree[p], env), section)) : tree'[p] = t
    BY <1>1, MovesToBind
  <2>2. PICK whole \in Nodes(Expansion(tree[p], env)) : t \in Nodes(section(whole))
    BY <2>1 DEF AndThen, Nodes, Errors
  <2> QED
    BY <2>1, <2>2, SectionIsTheOnlyNode DEF OnlyNode
<1>2. Inv /\ [Next]_vars => [\A p \in Loader : Moves(p, "expand", "bind") => OnlySection(p)]_vars
  BY <1>1 DEF Inv
<1> QED
  BY <1>2, Invariance, PTL DEF Spec, SectionIsUnambiguous

-----------------------------------------------------------------------------
(* Documents *)

\* What the stages of a load are: the expanders of Documents, its normalisation
\* and the binder of BindLevel.
Composed ==
    /\ \A map : \A e \in Envs : Expansion(map, e) = Chain(map, e)
    /\ \A v : Normal(v) = normalizeValue(v)
    /\ \A map, v : \A e \in Envs : Filled(map, e, v) = BindTree(map, e, v)
    /\ ZeroTarget = Zero(StructType)

\* What a library returns is a finite tree.
DocumentsAreValues ==
    \A d \in Decoder, c \in Content \cup {Blank} : \A docs \in Parsed(d, c) : \A i \in DOMAIN docs : IsValue(docs[i])

\* An object is as canonical, and has the texts, of the tree in it.
LEMMA TreeOfObject ==
    ASSUME NEW v, DOMAIN v = {"object"}, IsValue(v), IsCanonical(v)
    PROVE  IsCanonicalTree(v.object) /\ Texts(Object(v.object)) = Texts(v)
<1> DEFINE w == Object(v.object)
<1>1. DOMAIN w = {"object"} /\ w.object = v.object
  BY DEF Object
<1> HIDE DEF w
<1>2. Parts(w) = Parts(v) /\ WellFormed(w)
  <2>1. Parts(w) = {w.object[k] : k \in DOMAIN w.object}
    BY <1>1, OfObject, Zenon
  <2>2. Parts(v) = {v.object[k] : k \in DOMAIN v.object}
    BY OfObject, Zenon
  <2>3. WellFormed(w)
    BY <1>1, OfObject, Zenon
  <2> QED  BY <2>1, <2>2, <2>3, <1>1
<1>3. IsValue(w)
  <2>1. \A m \in Parts(w) : IsValue(m)
    BY <1>2, ValueParts
  <2> QED  BY <1>2, <2>1, ValueOfParts
<1>4. IsCanonical(w)
  <2>1. \A k \in DOMAIN v.object : InnerCanonical(v.object[k])
    BY OfObject
  <2> QED  BY <2>1, <1>1, OfObject
<1>5. Texts(w) = Texts(v)
  <2>1. Texts(v) = DOMAIN v.object \cup UNION {InnerTexts(v.object[k]) : k \in DOMAIN v.object}
    BY OfObject, Zenon
  <2>2. Texts(w) = DOMAIN w.object \cup UNION {InnerTexts(w.object[k]) : k \in DOMAIN w.object}
    BY <1>1, OfObject, Zenon
  <2> QED  BY <2>1, <2>2, <1>1
<1> QED
  BY <1>3, <1>4, <1>5 DEF IsCanonicalTree, w

LEMMA IsObject ==
    ASSUME NEW v, IsValue(v), Is(v, "object")
    PROVE  DOMAIN v = {"object"}
<1>1. WellFormed(v)
  BY ValueParts
<1> QED
  BY <1>1 DEF WellFormed, Shapes, Is, Has

LEMMA EmptyIsCanonical ==
    ASSUME DocumentsRecur
    PROVE  IsCanonicalTree(EmptyTree) /\ Texts(Object(EmptyTree)) = {}
<1>1. DOMAIN EmptyTree = {}
  BY DEF EmptyTree
<1> QED
  BY <1>1, MakesObject DEF IsCanonicalTree

LEMMA RootIsCanonical ==
    ASSUME NEW v, IsValue(v), IsCanonical(v), NEW t \in Nodes(Root(v))
    PROVE  IsCanonicalTree(t) /\ Texts(Object(t)) = Texts(v)
<1>1. Is(v, "object") /\ t = v.object
  BY Outcomes DEF Root
<1>2. DOMAIN v = {"object"}
  BY <1>1, IsObject
<1> QED
  BY <1>1, <1>2, TreeOfObject

\* A decoder makes a canonical tree, which has all the texts of the documents.
LEMMA DecodingIsCanonical ==
    ASSUME DocumentsRecur, Composed, NEW family \in {"json", "yaml", "toml", "own"},
           NEW docs, DOMAIN docs = 1..Len(docs), family \in {"toml", "own"} => Len(docs) = 1,
           \A i \in DOMAIN docs : IsValue(docs[i]), family = "json" => \A i \in DOMAIN docs : IsCanonical(docs[i]),
           NEW t \in Nodes(Decoding(family, docs))
    PROVE  IsCanonicalTree(t) /\ \A i \in DOMAIN docs : Texts(docs[i]) \subseteq Texts(Object(t))
<1>1. ASSUME NEW v, IsValue(v), NEW u \in Nodes(Root(Normal(v)))
      PROVE  IsCanonicalTree(u) /\ Texts(Object(u)) = Texts(v)
  <2>1. IsNormal(v) /\ Normal(v) = normalizeValue(v)
    BY <1>1, Normalised DEF Composed
  <2>2. IsValue(Normal(v)) /\ IsCanonical(Normal(v)) /\ Texts(Normal(v)) = Texts(v)
    BY <2>1 DEF IsNormal
  <2> QED  BY <1>1, <2>2, RootIsCanonical
<1>2. CASE family = "json"
  <2>1. Len(docs) = 1 /\ t \in Nodes(Root(docs[1]))
    BY <1>2, Outcomes DEF Decoding, DecodeJSON
  <2>2. DOMAIN docs = {1} /\ 1 \in DOMAIN docs
    BY <2>1
  <2>3. IsValue(docs[1]) /\ IsCanonical(docs[1])
    BY <2>2, <1>2
  <2> QED  BY <2>1, <2>2, <2>3, RootIsCanonical
<1>3. CASE family = "yaml"
  <2>1. t \in Nodes(DecodeYAML(docs))
    BY <1>3 DEF Decoding
  <2>2. Texts(Null) = {}
    <3>1. DOMAIN Null = {"null"}
      BY DEF Null
    <3> QED  BY <3>1, OfScalar
  <2>3. \A i \in DOMAIN docs \ Valued(docs) : Texts(docs[i]) = {}
    BY <2>2 DEF Valued
  <2>4. CASE Valued(docs) = {}
    <3>1. t = EmptyTree
      BY <2>1, <2>4, Outcomes DEF DecodeYAML
    <3> QED  BY <3>1, <2>3, <2>4, EmptyIsCanonical
  <2>5. CASE Valued(docs) # {}
    <3>1. (\A i, j \in Valued(docs) : i = j) /\ t \in Nodes(UNION {Root(Normal(docs[i])) : i \in Valued(docs)})
      BY <2>1, <2>5, Outcomes DEF DecodeYAML
    <3>2. PICK i \in Valued(docs) : t \in Nodes(Root(Normal(docs[i])))
      BY <3>1 DEF Nodes, Errors
    <3>3. i \in DOMAIN docs
      BY DEF Valued
    <3>4. IsCanonicalTree(t) /\ Texts(Object(t)) = Texts(docs[i])
      BY <3>2, <3>3, <1>1
    <3>5. ASSUME NEW j \in DOMAIN docs PROVE Texts(docs[j]) \subseteq Texts(Object(t))
      BY <3>1, <3>4, <2>3
    <3> QED  BY <3>4, <3>5
  <2> QED  BY <2>4, <2>5
<1>4. CASE family \in {"toml", "own"}
  <2>1. t \in Nodes(Root(Normal(docs[1])))
    BY <1>4 DEF Decoding, DecodeOther
  <2>2. DOMAIN docs = {1}
    BY <1>4
  <2> QED  BY <2>1, <2>2, <1>1
<1> QED
  BY <1>2, <1>3, <1>4

\* The values of the documents a decoder finds in a content.
ValuesIn(d, c) == UNION {{docs[i] : i \in DOMAIN docs} : docs \in IF isBlank(d, c) THEN {} ELSE Parsed(d, c)}

LEMMA DecodedIsCanonical ==
    ASSUME DocumentsRecur, Composed, DocumentsAreValues,
           NEW d \in Decoder, NEW c \in Content \cup {Blank}, NEW t \in Nodes(Decoded(d, c))
    PROVE  IsCanonicalTree(t) /\ \A v \in ValuesIn(d, c) : Texts(v) \subseteq Texts(Object(t))
<1>1. CASE isBlank(d, c)
  <2>1. t = EmptyTree
    BY <1>1, Outcomes DEF Decoded
  <2>2. ValuesIn(d, c) = {}
    BY <1>1 DEF ValuesIn
  <2> QED  BY <2>1, <2>2, EmptyIsCanonical
<1>2. CASE ~isBlank(d, c)
  <2>1. Parsed(d, c) # {} /\ t \in Nodes(UNION {Decoding(Family[d], docs) : docs \in Parsed(d, c)})
    BY <1>2, Outcomes DEF Decoded
  <2>2. PICK docs \in Parsed(d, c) : t \in Nodes(Decoding(Family[d], docs))
    BY <2>1 DEF Nodes, Errors
  <2>3. c \in Content \cup {Blank}
    OBVIOUS
  <2>4. /\ Family[d] \in {"json", "yaml", "toml", "own"} /\ DOMAIN docs = 1..Len(docs)
        /\ Family[d] \in {"toml", "own"} => Len(docs) = 1
        /\ Parsed(d, c) = {docs}
    BY <2>2, <2>3, ParsedAssumption
  <2>5. /\ \A i \in DOMAIN docs : IsValue(docs[i])
        /\ Family[d] = "json" => \A i \in DOMAIN docs : IsCanonical(docs[i])
    BY <2>2, <2>3, JSONAssumption DEF DocumentsAreValues
  <2>6. IsCanonicalTree(t) /\ \A i \in DOMAIN docs : Texts(docs[i]) \subseteq Texts(Object(t))
    BY <2>2, <2>4, <2>5, DecodingIsCanonical
  <2>7. ValuesIn(d, c) = {docs[i] : i \in DOMAIN docs}
    BY <2>4, <1>2 DEF ValuesIn
  <2> QED  BY <2>6, <2>7
<1> QED
  BY <1>1, <1>2

-----------------------------------------------------------------------------
(* A section is a part of its document *)

PartOf(t, whole) == IsCanonicalTree(t) /\ Texts(Object(t)) \subseteq Texts(Object(whole))

LEMMA LevelIsPart ==
    ASSUME DocumentsRecur, NEW map, IsCanonicalTree(map), NEW key, NEW t \in Nodes(Level(map, key))
    PROVE  PartOf(t, map)
<1> DEFINE node == ValueOf(map, key)
           v == Object(map)
<1>1. Given(map, key) /\ Is(node, "object") /\ t = node.object
  BY Outcomes DEF Level
<1>2. PICK c \in DOMAIN map : node = map[c]
  <2>1. \E c : c \in Matches(map, key)
    BY <1>1 DEF Given
  <2> QED  BY <2>1 DEF ValueOf, Matches
<1>3. DOMAIN v = {"object"} /\ v.object = map
  BY DEF Object
<1>4. IsValue(v) /\ IsCanonical(v)
  BY DEF IsCanonicalTree
<1> HIDE DEF node, v
<1>5. node \in Parts(v)
  <2>1. Parts(v) = {v.object[k] : k \in DOMAIN v.object}
    BY <1>3, OfObject, Zenon
  <2> QED  BY <2>1, <1>2, <1>3
<1>6. IsValue(node) /\ IsCanonical(node)
  BY <1>4, <1>5, CanonicalParts
<1>7. DOMAIN node = {"object"}
  BY <1>1, <1>6, IsObject
<1>8. IsCanonicalTree(t) /\ Texts(Object(t)) = Texts(node)
  BY <1>1, <1>6, <1>7, TreeOfObject
<1>9. Texts(node) \subseteq Texts(v)
  <2>1. Texts(v) = DOMAIN v.object \cup UNION {InnerTexts(v.object[k]) : k \in DOMAIN v.object}
    BY <1>3, OfObject, Zenon
  <2>2. InnerTexts(map[c]) = Texts(node)
    BY <1>2, <1>6 DEF DocumentsRecur
  <2> QED  BY <2>1, <2>2, <1>2, <1>3
<1> QED
  BY <1>8, <1>9 DEF PartOf, v

LEMMA SectionIsPart ==
    ASSUME DocumentsRecur, NEW whole, IsCanonicalTree(whole), NEW t \in Nodes(section(whole))
    PROVE  PartOf(t, whole)
<1> DEFINE n == Len(Prefix)
           after == LoopOfLevels!Run(Prefix, Done(whole), n)
           R == {i \in 0..n : \A u \in Nodes(after[i]) : PartOf(u, whole)}
<1>1. n \in Nat
  BY LoadsAssumption
<1>2. after[0] = Done(whole) /\ \A i \in 1..n : after[i] = LevelAt(Prefix, after[i - 1], i)
  BY <1>1, LoopOfLevels!RunOfRounds
<1>3. section(whole) = after[n]
  BY DEF section, Levels!After, Levels!Run, LoopOfLevels!Run
<1> HIDE DEF n, after
<1>4. 0 \in R
  <2>1. Nodes(after[0]) = {whole}
    BY <1>2, Outcomes
  <2> QED  BY <1>1, <2>1 DEF PartOf
<1>5. ASSUME NEW i \in 1..n, i - 1 \in R PROVE i \in R
  <2>1. ASSUME NEW u \in Nodes(after[i]) PROVE PartOf(u, whole)
    <3>1. PICK map \in Nodes(after[i - 1]) : u \in Nodes(Level(map, Prefix[i]))
      BY <1>2, <2>1, LevelsBelow
    <3>2. PartOf(map, whole)
      BY <1>5
    <3>3. PartOf(u, map)
      BY <3>1, <3>2, LevelIsPart DEF PartOf
    <3> QED  BY <3>2, <3>3 DEF PartOf
  <2> QED  BY <1>1, <2>1
<1>6. n \in R
  <2> HIDE DEF R
  <2>1. \A i \in 0..n : i \in R
    BY <1>1, <1>4, <1>5, LoopOfLevels!LoopInvariant
  <2> QED  BY <2>1, <1>1
<1> QED
  BY <1>3, <1>6

\* What ExpandAndNarrow makes of a tree.
LEMMA NarrowedIsExpanded ==
    ASSUME DocumentsRecur, Composed, NEW whole, IsCanonicalTree(whole), NEW e \in Envs,
           NEW t \in Nodes(AndThen(Expansion(whole, e), section))
    PROVE  /\ IsCanonicalTree(t)
           /\ Expanders # <<>> => ReferencesIn(Object(t)) \subseteq Leftover(e)
           /\ Expanders # <<>> /\ Expanders[1].strict => AllSet(Object(whole), e)
<1>1. PICK u \in Nodes(Chain(whole, e)) : t \in Nodes(section(u))
  BY DEF Composed, AndThen, Nodes, Errors
<1>2. /\ IsCanonicalTree(u)
      /\ Expanders # <<>> => IsExpanded(Object(u), e)
      /\ Expanders # <<>> /\ Expanders[1].strict => AllSet(Object(whole), e)
  BY <1>1, ChainExpands
<1>3. PartOf(t, u)
  BY <1>1, <1>2, SectionIsPart
<1> QED
  BY <1>2, <1>3 DEF PartOf, IsExpanded, ReferencesIn

-----------------------------------------------------------------------------
(* The tree and the struct of a load *)

Narrowed(t) ==
    \E d \in Decoder, c \in Content \cup {Blank}, e \in Envs : \E whole \in Nodes(Decoded(d, c)) :
      t \in Nodes(AndThen(Expansion(whole, e), section))

\* The tree of a load is empty but between the decoder and the binder: it is
\* then the one its decoder made of what it read, and later a section of such a
\* one, expanded.  The struct is a struct.
HasTree(p) ==
    /\ pc[p] \notin {"expand", "bind"} => tree[p] = EmptyTree
    /\ pc[p] = "expand" => tree[p] \in Nodes(Decoded(decoder[p], from[p]))
    /\ pc[p] = "bind" => tree[p] = EmptyTree \/ Narrowed(tree[p])

HasTarget(p) == HasType(target[p], StructType)

ReaderInv == Inv /\ \A p \in Loader : HasTree(p) /\ HasTarget(p)

LEMMA InitTrees ==
    ASSUME Recursion, Composed, Init
    PROVE  \A p \in Loader : HasTree(p) /\ HasTarget(p)
<1>1. HasType(ZeroTarget, StructType)
  BY ZeroHasType, NodesOfTrees DEF Composed
<1> QED
  BY <1>1 DEF Init, HasTree, HasTarget

\* A bind leaves a struct in the struct.
LEMMA BindKeepsType ==
    ASSUME Recursion, HandlersKeepTypes, DocumentsRecur, Composed, DocumentsAreValues, Shape,
           NEW p \in Loader, HasTree(p), HasTarget(p), Bind(p)
    PROVE  HasType(target'[p], StructType)
<1>1. pc[p] = "bind" /\ target'[p] = Filled(tree[p], env, target[p]).val /\ env \in Envs
  BY DEF Bind, End, Goto, Shape
<1>2. target'[p] = bindStruct(tree[p], StructType, target[p], <<>>, env).val
  BY <1>1 DEF Composed, BindTree
<1>3. IsEnv(env)
  BY <1>1, NodesOfTrees DEF IsEnv
<1>4. IsTree(tree[p])
  <2>1. CASE tree[p] = EmptyTree
    BY <2>1, EmptyIsTree
  <2>2. CASE Narrowed(tree[p])
    <3>1. PICK d \in Decoder : \E c \in Content \cup {Blank}, e \in Envs : \E whole \in Nodes(Decoded(d, c)) :
             tree[p] \in Nodes(AndThen(Expansion(whole, e), section))
      BY <2>2 DEF Narrowed
    <3>2. IsCanonicalTree(tree[p])
      BY <3>1, DecodedIsCanonical, NarrowedIsExpanded
    <3>3. \A k \in DOMAIN tree[p] : IsCanonical(tree[p][k])
      <4> DEFINE v == Object(tree[p])
      <4>1. DOMAIN v = {"object"} /\ v.object = tree[p]
        BY DEF Object
      <4> HIDE DEF v
      <4>2. \A m \in Parts(v) : IsCanonical(m)
        BY <3>2, CanonicalParts DEF IsCanonicalTree, v
      <4> QED  BY <4>1, <4>2, OfObject
    <3>4. \A k \in DOMAIN tree[p] : tree[p][k] \in Node
      BY <3>1, <3>3, NodesOfTrees
    <3> QED  BY <3>4 DEF IsTree, Inputs
  <2> QED  BY <1>1, <2>1, <2>2 DEF HasTree
<1>5. StructType \in Types /\ StructType.kind = "struct"
  BY NodesOfTrees
<1>6. Keeps(StructType)
  BY <1>5, AllKeep
<1>7. IsResult(bindStruct(tree[p], StructType, target[p], <<>>, env), StructType)
  BY <1>3, <1>4, <1>5, <1>6 DEF Keeps, HasTarget
<1> QED
  BY <1>2, <1>7 DEF IsResult

LEMMA OwnTree ==
    ASSUME Recursion, HandlersKeepTypes, DocumentsRecur, Composed, DocumentsAreValues, Inv,
           NEW p \in Loader, HasTree(p), HasTarget(p), Start(p) \/ Step(p)
    PROVE  HasTree(p)' /\ HasTarget(p)'
<1> USE DEF Inv, Shape
<1>1. CASE Load(p)
  <2>1. pc[p] = "idle" /\ pc'[p] = "read" /\ tree' = tree /\ target' = target
    BY <1>1 DEF Load, Goto
  <2> QED  BY <2>1 DEF HasTree, HasTarget
<1>2. CASE FillDefault(p)
  <2>1. pc'[p] = "bind" /\ tree'[p] = EmptyTree /\ target' = target
    BY <1>2 DEF FillDefault, Goto
  <2> QED  BY <2>1 DEF HasTree, HasTarget
<1>3. CASE LoadNil(p) \/ ReadFails(p) \/ NotFound(p)
  <2>1. pc'[p] = "idle" /\ tree'[p] = EmptyTree /\ target' = target
    BY <1>3 DEF LoadNil, ReadFails, NotFound, End, Goto
  <2> QED  BY <2>1 DEF HasTree, HasTarget
<1>4. CASE Read(p) \/ FindExtra(p) \/ AskRegistry(p) \/ Found(p)
  <2>1. /\ pc[p] \in {"read", "format", "lookup"} /\ pc'[p] \in {"format", "decode", "lookup"}
        /\ tree' = tree /\ target' = target
    BY <1>4 DEF Read, FindExtra, AskRegistry, Found, Goto
  <2> QED  BY <2>1 DEF HasTree, HasTarget
<1>5. CASE RegistryAnswers(p)
  <2>1. pc' = pc /\ tree' = tree /\ target' = target /\ decoder' = decoder /\ from' = from
    BY <1>5 DEF RegistryAnswers, loadVars
  <2> QED  BY <2>1 DEF HasTree, HasTarget
<1>6. CASE Decode(p)
  <2>1. /\ target' = target /\ decoder' = decoder
        /\ \/ pc'[p] = "idle" /\ tree'[p] = EmptyTree
           \/ pc'[p] = "expand" /\ tree'[p] \in Nodes(Decoded(decoder[p], from[p])) /\ from' = from
    BY <1>6 DEF Decode, Stage, End, Goto
  <2> QED  BY <2>1 DEF HasTree, HasTarget
<1>7. CASE ExpandAndNarrow(p)
  <2>1. /\ target' = target /\ pc[p] = "expand"
        /\ \/ pc'[p] = "idle" /\ tree'[p] = EmptyTree
           \/ pc'[p] = "bind" /\ tree'[p] \in Nodes(AndThen(Expansion(tree[p], env), section))
    BY <1>7 DEF ExpandAndNarrow, Stage, End, Goto
  <2>2. tree[p] \in Nodes(Decoded(decoder[p], from[p])) /\ decoder[p] \in Decoder /\ from[p] \in Content \cup {Blank}
    BY <2>1 DEF HasTree, DecoderInv, HasDecoder
  <2>3. pc'[p] = "bind" => Narrowed(tree'[p])
    BY <2>1, <2>2 DEF Narrowed
  <2>4. HasTree(p)'
    <3>1. CASE pc'[p] = "bind"
      BY <3>1, <2>3 DEF HasTree, Narrowed
    <3>2. CASE pc'[p] = "idle" /\ tree'[p] = EmptyTree
      BY <3>2 DEF HasTree
    <3> QED  BY <2>1, <3>1, <3>2
  <2> QED  BY <2>1, <2>4 DEF HasTarget
<1>8. CASE Bind(p)
  <2>1. pc'[p] = "idle" /\ tree'[p] = EmptyTree
    BY <1>8 DEF Bind, End, Goto
  <2>2. HasType(target'[p], StructType)
    BY <1>8, BindKeepsType
  <2> QED  BY <2>1, <2>2 DEF HasTree, HasTarget
<1> QED
  BY <1>1, <1>2, <1>3, <1>4, <1>5, <1>6, <1>7, <1>8 DEF Start, Step

LEMMA TreeStep ==
    ASSUME Recursion, HandlersKeepTypes, DocumentsRecur, Composed, DocumentsAreValues, ReaderInv, [Next]_vars
    PROVE  \A p \in Loader : HasTree(p)' /\ HasTarget(p)'
<1> SUFFICES ASSUME NEW p \in Loader PROVE HasTree(p)' /\ HasTarget(p)'
  OBVIOUS
<1>1. CASE Start(p) \/ Step(p)
  BY <1>1, OwnTree DEF ReaderInv
<1>2. CASE Untouched(p)
  BY <1>2 DEF Untouched, ReaderInv, HasTree, HasTarget, Narrowed
<1> QED
  BY <1>1, <1>2, OthersUntouched, ProgramUntouched DEF Next, ReaderInv, Inv

LEMMA ReaderInvariance ==
    ASSUME Recursion, HandlersKeepTypes, DocumentsRecur, Composed, DocumentsAreValues
    PROVE  Spec => []ReaderInv
<1>1. Init => ReaderInv
  BY InitShape, InitDecoders, InitValues, InitTrees DEF ReaderInv, Inv, HoldsDecoders, Init, Registry!Init
<1>2. ReaderInv /\ [Next]_vars => ReaderInv'
  BY ShapeStep, RegistryStep, DecoderStep, ValueStep, TreeStep DEF ReaderInv, Inv
<1> QED
  BY <1>1, <1>2, PTL DEF Spec

\* The tree of a load is canonical, whatever stage it is at.
LEMMA TreesAreCanonical ==
    ASSUME DocumentsRecur, Composed, DocumentsAreValues, ReaderInv, NEW p \in Loader
    PROVE  IsCanonicalTree(tree[p])
<1>1. CASE tree[p] = EmptyTree
  BY <1>1, EmptyIsCanonical
<1>2. CASE pc[p] = "expand"
  <2>1. /\ tree[p] \in Nodes(Decoded(decoder[p], from[p])) /\ decoder[p] \in Decoder
        /\ from[p] \in Content \cup {Blank}
    BY <1>2 DEF ReaderInv, HasTree, Inv, DecoderInv, HasDecoder, Shape
  <2> QED  BY <2>1, DecodedIsCanonical
<1>3. CASE Narrowed(tree[p])
  BY <1>3, DecodedIsCanonical, NarrowedIsExpanded DEF Narrowed
<1> QED
  BY <1>1, <1>2, <1>3 DEF ReaderInv, HasTree

-----------------------------------------------------------------------------
(* The theorems about the Reader *)

\* Load: the state has its shape, the tree of a load is canonical whichever
\* decoder and expanders it passed, and every bind leaves a struct of its type.
THEOREM TypesAreKept ==
    ASSUME Recursion, HandlersKeepTypes, DocumentsRecur, Composed, DocumentsAreValues
    PROVE  Spec => []TreesHaveTypes
<1>1. ReaderInv => TreesHaveTypes
  <2> SUFFICES ASSUME ReaderInv PROVE TreesHaveTypes
    OBVIOUS
  <2>1. \A p \in Loader : IsCanonical(Object(tree[p])) /\ HasType(target[p], StructType)
    BY TreesAreCanonical DEF IsCanonicalTree, ReaderInv, HasTarget
  <2>2. \A p \in Loader : decoder[p] \in Decoder \cup {NoDecoder}
    BY LastHitIsDecoder DEF ReaderInv, Inv, DecoderInv, DecoderStands, HeldFor, HoldsDecoders
  <2>3. decoder \in [Loader -> Decoder \cup {NoDecoder}]
    BY <2>2 DEF ReaderInv, Inv, Shape
  <2>4. pc \in [Loader -> {"idle", "read", "format", "lookup", "decode", "expand", "bind"}]
    BY DEF ReaderInv, Inv, Shape, Stages, InSource
  <2> QED
    BY <2>1, <2>3, <2>4 DEF TreesHaveTypes, ReaderInv, Inv, Shape, HoldsDecoders
<1> QED
  BY <1>1, ReaderInvariance, PTL

\* expandTree: no reference reaches the binder, in a key as little as in a value,
\* but what some environment or an escape has put there.
THEOREM ReferencesAreExpanded ==
    ASSUME Recursion, HandlersKeepTypes, DocumentsRecur, Composed, DocumentsAreValues
    PROVE  Spec => []NoReferenceIsBound
<1>1. ReaderInv => NoReferenceIsBound
  <2> SUFFICES ASSUME ReaderInv, NEW p \in Loader, pc[p] = "bind", Expanders # <<>>
               PROVE  \E e \in Envs : ReferencesIn(Object(tree[p])) \subseteq Leftover(e)
    BY DEF NoReferenceIsBound, Leftover
  <2>1. CASE tree[p] = EmptyTree
    <3>1. ReferencesIn(Object(tree[p])) = {} /\ env \in Envs
      BY <2>1, EmptyIsCanonical DEF ReferencesIn, ReaderInv, Inv, Shape
    <3> QED  BY <3>1
  <2>2. CASE Narrowed(tree[p])
    BY <2>2, DecodedIsCanonical, NarrowedIsExpanded DEF Narrowed
  <2> QED
    BY <2>1, <2>2 DEF ReaderInv, HasTree
<1> QED
  BY <1>1, ReaderInvariance, PTL

\* WithEnvStrict: a load gets past an expander that is strict and the first one
\* only if every variable is set that the content it read refers to, in whichever
\* section or document.
THEOREM StrictRefusesWhatIsUnset ==
    ASSUME Recursion, HandlersKeepTypes, DocumentsRecur, Composed, DocumentsAreValues
    PROVE  Spec => StrictSeesTheWholeDocument
<1> DEFINE Seen(p) == \A v \in ValuesRead(p) : \A s \in ReferencesIn(v) : ~Unset(s, env)
<1>1. ASSUME ReaderInv, [Next]_vars, NEW p \in Loader, Moves(p, "expand", "bind"),
             Expanders # <<>>, Expanders[1].strict
      PROVE  Seen(p)
  <2>1. PICK t \in Nodes(AndThen(Expansion(tree[p], env), section)) : tree'[p] = t
    BY <1>1, MovesToBind DEF ReaderInv, Inv
  <2>2. pc[p] = "expand" /\ env \in Envs
    BY <1>1 DEF Moves, ReaderInv, Inv, Shape
  <2>3. /\ tree[p] \in Nodes(Decoded(decoder[p], from[p])) /\ decoder[p] \in Decoder
        /\ from[p] \in Content \cup {Blank}
    BY <1>1, <2>2 DEF ReaderInv, HasTree, Inv, DecoderInv, HasDecoder, Shape
  <2>4. /\ IsCanonicalTree(tree[p])
        /\ \A v \in ValuesIn(decoder[p], from[p]) : Texts(v) \subseteq Texts(Object(tree[p]))
    BY <2>3, DecodedIsCanonical
  <2>5. AllSet(Object(tree[p]), env)
    BY <1>1, <2>1, <2>2, <2>4, NarrowedIsExpanded
  <2>6. ValuesRead(p) = ValuesIn(decoder[p], from[p])
    BY DEF ValuesRead, ValuesIn
  <2> QED
    BY <2>4, <2>5, <2>6 DEF AllSet, ReferencesIn
<1>2. ReaderInv /\ [Next]_vars =>
        [\A p \in Loader : Moves(p, "expand", "bind") /\ Expanders # <<>> /\ Expanders[1].strict => Seen(p)]_vars
  BY <1>1
<1> QED
  BY <1>2, ReaderInvariance, PTL DEF Spec, StrictSeesTheWholeDocument
=============================================================================
