---------------------------- MODULE ConfigValues ----------------------------
(***************************************************************************)
(* The data a bind works on: config trees, Go types and Go values, and the *)
(* conversion of scalars.                                                  *)
(*                                                                         *)
(* A Go value is a record with one field, as a node is, which names its    *)
(* shape: str, int, bool, nil, ref, struct, slice, array, map, any, parsed *)
(* (what a scalar with UnmarshalText made of its text).                    *)
(* A Go type and a parsed tag are records that hold what is there: a tag   *)
(* without default= has no field "default".                                *)
(*                                                                         *)
(* What recurs through the types is defined for one type, and asks the     *)
(* constant of the same name with "Inner" before it about the types inside *)
(* it.  A .cfg gives that constant the definition itself, as in            *)
(* InnerZero <- Zero; a proof takes it for what is known of smaller types. *)
(***************************************************************************)
EXTENDS ConfigTrees, Integers, Sequences, TLC

CONSTANTS
    KeyOrder,     \* the keys of every document, in byte order
    IntOf,        \* the texts that are whole numbers, and which
    BoolOf,       \* the texts that are booleans, and which
    ItemsOf,      \* the texts that are not a list of one item, and their items
    Readable(_),  \* whether a type's own UnmarshalText or UnmarshalJSON reads a node
    Accepts(_,_), \* whether the Validate of a rule accepts a struct value
    Handled(_,_), \* what a tag option's handler makes of a value: {} refuses it
    InnerZero(_), InnerBehind(_), InnerBindable(_), InnerHasType(_,_)

Nil == [nil |-> TRUE]

\* The type reads itself: "text" is UnmarshalText, "json" UnmarshalJSON.
Hook(t, h) == Has(t, "hook") /\ t.hook = h

FieldNames(t) == {t.fields[i].name : i \in DOMAIN t.fields}
FieldNamed(t, n) == t.fields[CHOOSE i \in DOMAIN t.fields : t.fields[i].name = n]

\* The zero value of a type.
Zero(t) ==
    CASE t.kind = "string" -> [str |-> ""]
      [] t.kind = "int" -> [int |-> 0]
      [] t.kind = "bool" -> [bool |-> FALSE]
      [] t.kind \in {"pointer", "slice", "map", "any"} -> Nil
      [] t.kind = "array" -> [array |-> [i \in 1..t.len |-> InnerZero(t.elem)]]
      [] t.kind = "struct" -> [struct |-> [n \in FieldNames(t) |-> InnerZero(FieldNamed(t, n).type)]]

\* The value that a chain of pointers leads to, Nil when the chain ends early.
Behind(v) == IF Is(v, "ref") THEN InnerBehind(v.ref) ELSE v

(* Scalars: the set of the one value a node converts to, {} when refused *)

toText(src) ==
    CASE Is(src, "text") -> {src.text}
      [] Is(src, "num") -> {ToString(src.num)}
      [] Is(src, "bool") -> {IF src.bool THEN "true" ELSE "false"}
      [] OTHER -> {}

toBool(src) ==
    CASE Is(src, "bool") -> {src.bool}
      [] Is(src, "text") -> {BoolOf[s] : s \in {src.text} \cap DOMAIN BoolOf}
      [] Is(src, "num") -> {n = 1 : n \in {src.num} \cap {0, 1}}
      [] OTHER -> {}

toInt64(src) ==
    CASE Is(src, "num") -> {src.num}
      [] Is(src, "text") -> {IntOf[s] : s \in {src.text} \cap DOMAIN IntOf}
      [] OTHER -> {}

\* Wrong: a number is stored without a look at the width of the field.
ScalarOfAnyWidth(t, src) ==
    CASE t.kind = "string" -> {[str |-> s] : s \in toText(src)}
      [] t.kind = "bool" -> {[bool |-> b] : b \in toBool(src) \cap BOOLEAN}
      [] t.kind = "int" -> {[int |-> n] : n \in toInt64(src)}
      [] OTHER -> {}

\* The width of an integer field refuses what overflows it.
Scalar(t, src) ==
    CASE t.kind = "string" -> {[str |-> s] : s \in toText(src)}
      [] t.kind = "bool" -> {[bool |-> b] : b \in toBool(src) \cap BOOLEAN}
      [] t.kind = "int" -> {[int |-> n] : n \in toInt64(src) \cap t.width}
      [] OTHER -> {}

\* What splitList cuts a text into is data of the instance, as IntOf and BoolOf
\* are: a text without a comma is one item.
ItemsIn(raw) == IF raw \in DOMAIN ItemsOf THEN ItemsOf[raw] ELSE <<raw>>

(* Types *)

\* An ordinary struct, behind any pointers, is filled field by field.
isBindableStruct(t) ==
    IF t.kind = "pointer" THEN InnerBindable(t.elem)
    ELSE t.kind = "struct" /\ ~Hook(t, "text")

\* v is a value of type t.
HasType(v, t) ==
    CASE t.kind = "string" -> \/ Is(v, "str") /\ v = [str |-> v.str]
                              \/ Is(v, "parsed") /\ v = [parsed |-> v.parsed] /\ Hook(t, "text")
      [] t.kind = "int" -> Is(v, "int") /\ v = [int |-> v.int] /\ v.int \in t.width
      [] t.kind = "bool" -> Is(v, "bool") /\ v = [bool |-> v.bool] /\ v.bool \in BOOLEAN
      [] t.kind = "any" -> v = Nil \/ (Is(v, "any") /\ v = [any |-> v.any] /\ v.any # Null)
      [] t.kind = "pointer" -> v = Nil \/ (Is(v, "ref") /\ v = [ref |-> v.ref] /\ InnerHasType(v.ref, t.elem))
      [] t.kind = "slice" ->
           \/ v = Nil
           \/ /\ Is(v, "slice") /\ v = [slice |-> v.slice]
              /\ \A i \in DOMAIN v.slice : InnerHasType(v.slice[i], t.elem)
      [] t.kind = "map" ->
           \/ v = Nil
           \/ /\ Is(v, "map") /\ v = [map |-> v.map]
              /\ \A k \in DOMAIN v.map : InnerHasType(v.map[k], t.elem)
      [] t.kind = "array" ->
           /\ Is(v, "array") /\ v = [array |-> v.array]
           /\ v.array = [i \in 1..t.len |-> v.array[i]]
           /\ \A i \in 1..t.len : InnerHasType(v.array[i], t.elem)
      [] t.kind = "struct" ->
           /\ Is(v, "struct") /\ v = [struct |-> v.struct]
           /\ v.struct = [n \in FieldNames(t) |-> v.struct[n]]
           /\ \A i \in DOMAIN t.fields : InnerHasType(v.struct[t.fields[i].name], t.fields[i].type)
=============================================================================
