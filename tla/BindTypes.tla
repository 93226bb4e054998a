----------------------------- MODULE BindTypes -----------------------------
(***************************************************************************)
(* What a program binds: the types of its structs, and the nodes of the    *)
(* documents they are bound from.                                          *)
(***************************************************************************)
EXTENDS BindLevel

CONSTANTS
    Types,    \* the types of the structs and of all that is in them
    Depth,    \* Depth[t]: more than that of the types inside t
    Node      \* the nodes of the trees

Containers == {"pointer", "slice", "map", "array"}

\* What Go makes sure of, and that no type contains itself.
ASSUME TypesAssumption ==
    /\ Depth \in [Types -> Nat]
    /\ \A t \in Types :
         /\ t.kind \in {"string", "int", "bool", "any", "struct"} \cup Containers
         /\ t.kind = "int" => 0 \in t.width
         /\ t.kind = "array" => t.len \in Nat
         /\ t.kind \in Containers => t.elem \in Types /\ Depth[t.elem] < Depth[t]
         /\ t.kind = "struct" => t.fields \in Seq({t.fields[i] : i \in DOMAIN t.fields})

ASSUME FieldsAssumption ==
    \A t \in Types : t.kind = "struct" =>
      /\ \A i \in DOMAIN t.fields :
           /\ t.fields[i].type \in Types /\ Depth[t.fields[i].type] < Depth[t]
           /\ \A j \in DOMAIN t.fields : t.fields[i].name = t.fields[j].name => i = j
      /\ \A i \in DOMAIN t.fields :
           LET f == t.fields[i] IN
           /\ Has(f.tag, "default") => f.tag.default \in STRING
           /\ Has(f.tag, "custom") => f.tag.custom \in Seq(STRING)
           /\ Has(f, "embedded") /\ f.type.kind = "pointer" => f.type.elem.kind # "pointer"

\* A string or a struct may read itself; a struct keeps what it read in "raw".
ASSUME HooksAssumption ==
    \A t \in Types :
      /\ Hook(t, "text") => t.kind \in {"string", "struct"}
      /\ t.kind = "struct" /\ (Hook(t, "text") \/ Hook(t, "json")) =>
           \E i \in DOMAIN t.fields : t.fields[i].name = "raw" /\ t.fields[i].type.kind = "any"

ASSUME NodesAssumption ==
    \A n \in Node :
      /\ Is(n, "array") => n.array \in Seq(Node)
      /\ Is(n, "object") => \A k \in DOMAIN n.object : n.object[k] \in Node

ASSUME KeysAssumption ==
    \A n \in Node : Is(n, "object") => \A k \in DOMAIN n.object : \E i \in DOMAIN KeyOrder : KeyOrder[i] = k

ASSUME TextsAssumption ==
    /\ KeyOrder \in Seq(STRING)
    /\ \A i, j \in DOMAIN KeyOrder : KeyOrder[i] = KeyOrder[j] => i = j
    /\ \A s \in DOMAIN ItemsOf : ItemsOf[s] \in Seq(STRING)
=============================================================================
